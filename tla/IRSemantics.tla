----------------------------- MODULE IRSemantics -----------------------------
(***************************************************************************)
(* What an IR module computes when it runs: the reference the passes are   *)
(* checked against.  It is not code of the compiler: it fixes the meaning  *)
(* the back end gives each opcode (32-bit wrapping arithmetic, truncating  *)
(* division, logical not, one frame slot per alloca), at a word of W bits  *)
(* so that overflow happens on small numbers.                              *)
(*                                                                         *)
(* A run reads a sequence of integers, writes a sequence of integers and   *)
(* is in one of four states: "run" (it did not end within the steps        *)
(* granted), "done", "undefined" (the program did something C leaves       *)
(* undefined, so no outcome is owed) or "broken" (the code itself is       *)
(* ill-formed: a branch to no block, an operand never computed, a phi      *)
(* without a value for the edge taken).                                    *)
(***************************************************************************)
EXTENDS IR

CONSTANT W   \* bits in a machine word

HalfRange == 2 ^ (W - 1)
Wrap(n) == ((n + HalfRange) % (2 * HalfRange)) - HalfRange

Abs(n) == IF n < 0 THEN -n ELSE n
Sign(n) == IF n < 0 THEN -1 ELSE 1
TruncDiv(a, b) == Sign(a) * Sign(b) * (Abs(a) \div Abs(b))
TruncMod(a, b) == a - TruncDiv(a, b) * b

Compare(pred, a, b) ==
  CASE pred = "lt" -> a < b [] pred = "le" -> a <= b
    [] pred = "gt" -> a > b [] pred = "ge" -> a >= b
    [] pred = "eq" -> a = b [] pred = "ne" -> a # b

Truth(b) == IF b THEN 1 ELSE 0

\* The result of a computing instruction on word operands.
Compute(i, a) ==
  CASE i.op = "add" -> Wrap(a[1] + a[2])
    [] i.op = "sub" -> Wrap(a[1] - a[2])
    [] i.op = "mul" -> Wrap(a[1] * a[2])
    [] i.op = "div" -> Wrap(TruncDiv(a[1], a[2]))
    [] i.op = "mod" -> TruncMod(a[1], a[2])
    [] i.op = "neg" -> Wrap(-a[1])
    [] i.op = "not" -> Truth(a[1] = 0)
    [] i.op = "icmp" -> Truth(Compare(i.attr, a[1], a[2]))
    [] i.op = "gep" -> a[1] + a[2]

\* Addresses are kept apart from words: each frame slot or global gets a
\* region of its own, so an index out of bounds meets no cell.
RegionSize == 1000

\* What a slot holds before it is written, and a division by zero yields: a
\* value that may be moved and computed with, but must decide nothing.
Junk == -(RegionSize * RegionSize)

----------------------------------------------------------------------------
(* The machine: a stack of activations, the innermost last.  An activation *)
(* is a function, the block and the instruction it is at, its registers    *)
(* and the register of the caller that waits for its value.                *)
Activation(name, regs, dest) ==
  [fn |-> name, block |-> 1, at |-> 1, regs |-> regs, dest |-> dest]

Top(m) == Last(m.stack)
SetTop(m, frame) == [m EXCEPT !.stack[Len(m.stack)] = frame]
Halt(m, status) == [m EXCEPT !.status = status]

\* On to the next instruction, having computed v.
Onward(m, i, v) ==
  LET f == Top(m)
  IN  SetTop(m, [f EXCEPT !.at = @ + 1,
                          !.regs = IF i.res = NoResult THEN @ ELSE Bind(@, i.res, v)])

Evaluable(regs, v) == IsVar(v) => v[2] \in DOMAIN regs
Eval(regs, place, v) ==
  CASE IsConst(v) -> Wrap(v[2])
    [] IsVar(v) -> regs[v[2]]
    [] IsGlobal(v) -> place[v[2]]

\* Entering a block evaluates all its leading phis with the old registers.
EnterBlock(prog, place, m, to) ==
  LET f == Top(m)
      fn == prog.funs[f.fn]
      b == IndexOf(fn, to)
      insts == fn.blocks[b].insts
      phis == {k \in DOMAIN insts : \A j \in 1 .. k : insts[j].op = "phi"}
      Edges(k) == {n \in DOMAIN insts[k].labs \cap DOMAIN insts[k].args :
                     insts[k].labs[n] = fn.blocks[f.block].label}
      Incoming(k) == insts[k].args[Min(Edges(k))]
      bound(k) == Edges(k) # {} /\ Evaluable(f.regs, Incoming(k))
      merged == [r \in {insts[k].res : k \in phis} |->
                   Eval(f.regs, place,
                        Incoming(CHOOSE k \in phis : insts[k].res = r))]
  IN  IF to \notin Labels(fn) \/ \E k \in phis : ~bound(k) THEN Halt(m, "broken")
      ELSE SetTop(m, [f EXCEPT !.block = b, !.at = Cardinality(phis) + 1,
                               !.regs = merged @@ @])

\* Cells of a fresh frame slot; an alloca run again keeps the slot it has.
Allocate(m, i) ==
  IF i.res \in DOMAIN Top(m).regs THEN Onward(m, i, Top(m).regs[i.res])
  ELSE Onward([m EXCEPT !.top = @ + RegionSize,
                 !.mem = [a \in m.top .. (m.top + (i.args[1][2] \div 4) - 1) |-> Junk] @@ @],
              i, m.top)

\* The runtime library, as far as integers go.
CallRuntime(m, i, a) ==
  CASE i.attr = "getint" /\ m.in = <<>> -> Halt(m, "undefined")
    [] i.attr = "getint" /\ m.in # <<>> ->
         Onward([m EXCEPT !.in = Tail(@)], i, Wrap(Head(m.in)))
    [] i.attr = "putint" -> Onward([m EXCEPT !.out = Append(@, a[1])], i, 0)
    [] i.attr = "memset" ->
         Onward([m EXCEPT !.mem = [c \in a[1] .. (a[1] + (a[3] \div 4) - 1) |-> a[2]] @@ @],
                i, 0)
    [] OTHER -> Halt(m, "broken")

Call(prog, m, i, a) ==
  IF i.attr \notin DOMAIN prog.funs THEN CallRuntime(m, i, a)
  ELSE LET params == prog.funs[i.attr].params
           regs == [id \in Range(params) |-> a[CHOOSE n \in DOMAIN params : params[n] = id]]
       IN  [m EXCEPT !.stack = Append(@, Activation(i.attr, regs, i))]

Leave(m, v) ==
  IF Len(m.stack) = 1
  THEN IF v = Junk THEN Halt(m, "undefined") ELSE [m EXCEPT !.status = "done", !.value = v]
  ELSE Onward([m EXCEPT !.stack = Front(@)], Top(m).dest, v)

Execute(prog, place, m, i, a) ==
  CASE i.op = "br" -> EnterBlock(prog, place, m, i.labs[1])
    [] i.op = "condbr" -> IF a[1] = Junk THEN Halt(m, "undefined")
                          ELSE EnterBlock(prog, place, m, i.labs[IF a[1] # 0 THEN 1 ELSE 2])
    [] i.op = "ret" -> Leave(m, IF a = <<>> THEN 0 ELSE a[1])
    [] i.op = "alloca" -> Allocate(m, i)
    [] i.op = "load" -> Onward(m, i, IF a[1] \in DOMAIN m.mem THEN m.mem[a[1]] ELSE Junk)
    [] i.op = "store" -> IF a[2] \notin DOMAIN m.mem THEN Halt(m, "undefined")
                         ELSE Onward([m EXCEPT !.mem[a[2]] = a[1]], i, 0)
    [] i.op = "call" -> Call(prog, m, i, a)
    [] i.op = "phi" -> Halt(m, "broken")
    [] OTHER -> Onward(m, i, IF \/ Junk \in Range(a)
                                \/ i.op \in {"div", "mod"} /\ a[2] = 0
                             THEN Junk ELSE Compute(i, a))

Step(prog, place, m) ==
  LET f == Top(m)
      insts == prog.funs[f.fn].blocks[f.block].insts
      i == insts[f.at]
  IN  IF f.at > Len(insts) \/ \E v \in Range(i.args) : ~Evaluable(f.regs, v)
      THEN Halt(m, "broken")
      ELSE Execute(prog, place, m, i, [n \in DOMAIN i.args |-> Eval(f.regs, place, i.args[n])])

\* 2^n steps of the machine, or fewer when it stops before.
RECURSIVE Steps(_, _, _, _)
Steps(prog, place, m, n) ==
  IF m.status # "run" THEN m
  ELSE IF n = 0 THEN Step(prog, place, m)
  ELSE Steps(prog, place, Steps(prog, place, m, n - 1), n - 1)

(* A module is [funs |-> name -> function, globals |-> name -> initial     *)
(* values]; its globals are laid out before main runs.                     *)
Run(prog, in, fuel) ==
  LET names == SetToSeq(DOMAIN prog.globals)   \* few
      place == [g \in DOMAIN prog.globals |->
                  RegionSize * CHOOSE n \in DOMAIN names : names[n] = g]
      cells == UNION {place[g] .. (place[g] + Len(prog.globals[g]) - 1) :
                        g \in DOMAIN prog.globals}
      start == [stack |-> <<Activation("main", Emptymap, NoResult)>>,
                mem |-> [c \in cells |->
                           prog.globals[names[c \div RegionSize]][1 + (c % RegionSize)]],
                top |-> RegionSize * (1 + Len(names)),
                in |-> in, out |-> <<>>, status |-> "run", value |-> 0]
      end == Steps(prog, place, start, fuel)
  IN  [status |-> end.status, out |-> end.out, value |-> end.value]

\* May the code that behaves as new stand in for the code that behaved as
\* old?  Where old did something undefined, anything may; a run that was
\* still going must still be going, having written at least as much.
MayReplace(old, new) ==
  CASE old.status = "undefined" -> TRUE
    [] old.status = "run" -> new.status = "run" /\ (IsPrefix(old.out, new.out) \/ IsPrefix(new.out, old.out))
    [] OTHER -> new = old

============================================================================
