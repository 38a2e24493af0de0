------------------------------- MODULE Compiler -------------------------------
(***************************************************************************)
(* The compiler from the checked syntax tree to assembly (main.cpp): build *)
(* the module, optimize it, print it.  Printing is emitFunction of         *)
(* src/src/backend/arm/emit.cpp, one function after the other, one action  *)
(* per alternative of its loop over the instructions.                      *)
(***************************************************************************)
EXTENDS Optimizer, Emission

VARIABLES
  toPrint,  \* the functions not printed yet, the one being printed first
  known,    \* what is known of that function, as a set of at most one
  at,       \* the block and the instruction to print next; 0 is the label
  code      \* what has been printed

codeVars == <<toPrint, known, at, code>>

CompilerInit ==
  /\ Init
  /\ toPrint = <<>>
  /\ known = {}
  /\ at = <<0, 0>>
  /\ code = <<>>

Optimize == Next /\ UNCHANGED codeVars

----------------------------------------------------------------------------
(* A64CodeGen::run: the functions main reaches, in the order of the module.*)
StartPrinting ==
  /\ phase = "done" /\ toPrint = <<>> /\ code = <<>>
  /\ toPrint' = SelectSeq(prog.order, LAMBDA f : f \in ReachableFunctions(prog, {"main"}))
  /\ UNCHANGED <<vars, known, at, code>>

Operation(f) == BitOperation(prog.funs[f])
\* What is taken for a bit operation is printed as one.
PrintBitHelper ==
  /\ toPrint # <<>> /\ known = {}
  /\ \E op \in Operation(Head(toPrint)) : code' = code \o BitHelper(Head(toPrint), op)
  /\ toPrint' = Tail(toPrint)
  /\ UNCHANGED <<vars, known, at>>

\* emitFunction up to its first block.
EnterFunction ==
  /\ toPrint # <<>> /\ known = {} /\ Operation(Head(toPrint)) = {}
  /\ known' = {Known(prog, Head(toPrint))}
  /\ code' = code \o FlattenSeq(SetToSeq({Prologue(c) : c \in known'}))
  /\ at' = <<1, 0>>
  /\ UNCHANGED <<vars, toPrint>>

\* In function c, at instruction at[2] of block at[1].
Printing(c) == c \in known /\ at[1] <= Len(c.fn.blocks)
Insts(c) == c.fn.blocks[at[1]].insts
AtInst(c) == Printing(c) /\ at[2] \in DOMAIN Insts(c)
NextBlock(c) == {c.fn.blocks[b].label : b \in {at[1] + 1} \cap BlockIndices(c.fn)}

\* What calls itself for ever prints nothing more.
Prints(c, instructions, to) ==
  /\ \A k \in DOMAIN instructions : instructions[k].op # Endless.op
  /\ code' = code \o Spelled(c, instructions)
  /\ at' = to
  /\ UNCHANGED <<vars, toPrint, known>>
Past(n) == <<at[1], at[2] + n>>

PrintLabel(c) ==
  /\ Printing(c) /\ at[2] = 0
  /\ Prints(c, <<Lab(BlockLabel(c, c.fn.blocks[at[1]].label))>>, <<at[1], 1>>)

PrintSelfTailCall(c) ==
  /\ AtInst(c) /\ IsSelfTailCall(c, Insts(c), at[2])
  /\ Prints(c, SelfTailCall(c, Insts(c)[at[2]]), Past(2))

PrintCallReturn(c) ==
  /\ AtInst(c) /\ IsDirectCallReturn(c, Insts(c), at[2])
  /\ Prints(c, CallCode(c, prog, Insts(c)[at[2]]) \o ToEpilogue(c, NextBlock(c)), Past(2))

PrintValueReturn(c) ==
  /\ AtInst(c) /\ IsDirectValueReturn(c, Insts(c), at[2])
  /\ Prints(c, ResultTo0(c, Insts(c)[at[2]], FALSE) \o ToEpilogue(c, NextBlock(c)), Past(2))

PrintControl(c) ==
  /\ AtInst(c)
  /\ LET i == Insts(c)[at[2]]
         from == c.fn.blocks[at[1]].label
     IN  /\ IsTerminator(i)
         /\ Prints(c, IF i.op = "ret" THEN ReturnInst(c, i, NextBlock(c))
                  ELSE Branch(c, i, from, NextBlock(c)), Past(1))

PrintInst(c) ==
  /\ AtInst(c)
  /\ ~IsTerminator(Insts(c)[at[2]])
  /\ ~IsSelfTailCall(c, Insts(c), at[2])
  /\ ~IsDirectCallReturn(c, Insts(c), at[2])
  /\ ~IsDirectValueReturn(c, Insts(c), at[2])
  /\ Prints(c, PlainInst(c, prog, Insts(c)[at[2]]), Past(1))

LeaveBlock(c) ==
  /\ Printing(c) /\ at[2] = Len(Insts(c)) + 1
  /\ Prints(c, <<>>, <<at[1] + 1, 0>>)

\* Mutation: what is known of one function is still there in the next.
LeaveNothingCleared(c) ==
  /\ c \in known /\ at[1] = Len(c.fn.blocks) + 1
  /\ code' = code \o FunctionEnd(c)
  /\ toPrint' = Tail(toPrint)
  /\ UNCHANGED <<vars, known, at>>

LeaveFunction(c) ==
  /\ c \in known /\ at[1] = Len(c.fn.blocks) + 1
  /\ code' = code \o FunctionEnd(c)
  /\ toPrint' = Tail(toPrint)
  /\ known' = {}
  /\ UNCHANGED <<vars, at>>

PrintOf(c) ==
  PrintLabel(c) \/ PrintSelfTailCall(c) \/ PrintCallReturn(c) \/ PrintValueReturn(c)
  \/ PrintControl(c) \/ PrintInst(c) \/ LeaveBlock(c) \/ LeaveFunction(c)

CompilerNext ==
  \/ Optimize \/ StartPrinting \/ PrintBitHelper \/ EnterFunction
  \/ \E c \in known : PrintOf(c)

CompilerSpec == CompilerInit /\ [][CompilerNext]_<<vars, codeVars>>

----------------------------------------------------------------------------
(* Properties.                                                             *)

\* Printing follows optimizing, one function at a time, and never leaves it.
CompilerTypeOK ==
  /\ code # <<>> => phase = "done"
  /\ Range(toPrint) \subseteq DOMAIN prog.funs
  /\ known # {} => toPrint # <<>> /\ known = {c \in known : c.name = Head(toPrint)}
  /\ Cardinality(known) <= 1
  /\ \A c \in known : at \in (1 .. Len(c.fn.blocks)) \X (0 .. 100) \cup {<<Len(c.fn.blocks) + 1, 0>>}

\* No two of the things that live in a frame share a byte of it, each is
\* aligned as its accesses need, and the frame is large enough: a slot that
\* overlaps another is a value that changes by itself.
Extent(c, id) ==
  IF id \in DOMAIN c.objects
  THEN c.objects[id] .. (c.objects[id] + c.defs[id].args[1][2] - 1)
  ELSE c.slots[id] .. (c.slots[id] + Sized(c, id, 0).bytes - 1)
SlotsAreApart ==
  \A c \in known :
    LET all == DOMAIN c.slots \cup DOMAIN c.objects
    IN  /\ \A id \in all :
             /\ Extent(c, id) \subseteq -c.size .. -1
             /\ id \in DOMAIN c.slots => c.slots[id] % Sized(c, id, 0).bytes = 0
        /\ \A d, e \in all : d # e => Extent(c, d) \cap Extent(c, e) = {}
        /\ c.size % 16 = 0

\* The copies of an edge, and those a call of the function itself makes of its
\* arguments, act at once: each target gets what its source held before any
\* of them, no other slot changes, and the stack pointer is back.
Lists(c) ==
  Range(c.copies)
  \cup {[k \in DOMAIN c.fn.params |-> Copy(c.fn.params[k], i.args[k])] :
          i \in {j \in Range(AllInsts(c.fn)) : j.op = "call" /\ j.attr = c.name}}
FrameWith(c, contents) ==
  LET cells == UNION {{c.slots[id] + n : n \in {0, 4}} : id \in DOMAIN c.slots}
      owner(a) == {id \in DOMAIN c.slots : a \in {c.slots[id]} \cup {c.slots[id] + 4 : p \in {id} \cap c.ptrs}}
  IN  [a \in {StackTop + d : d \in {e \in cells : owner(e) # {}}} |->
         LET id == CHOOSE q \in owner(a - StackTop) : TRUE
         IN  IF a - StackTop = c.slots[id] THEN contents[id] ELSE Upper]
ActsAtOnce(c, copies) ==
  LET start == [pc |-> 1, regs |-> [r \in 0 .. 30 |-> IF r = x29.n THEN StackTop ELSE Junk],
                sp |-> StackTop - c.size, flags |-> <<0, 0>>,
                mem |-> FrameWith(c, [id \in DOMAIN c.slots |-> id + RegionSize]),
                in |-> <<>>, out |-> <<>>, status |-> "run", value |-> 0]
      place == Table([g \in DOMAIN prog.globals |-> 0])
      list == Spelled(c, CopyList(c, copies))
      end == FoldLeft(LAMBDA m, k : IF m.status = "run" THEN Cycle(list, Emptymap, place, m) ELSE m,
                      start, [k \in DOMAIN list |-> k])
      ValueOf(v) == CASE IsConst(v) -> v[2]
                      [] IsGlobal(v) -> 0
                      [] IsVar(v) -> IF v[2] \in DOMAIN c.objects THEN StackTop + c.objects[v[2]]
                                     ELSE RegionSize + v[2]
      Now(id) == Fetch(end.mem, Sized(c, id, 0), StackTop + c.slots[id])
      Targets == {copy.target : copy \in Range(copies)}
  IN  /\ end.status = "run" /\ end.sp = start.sp
      /\ \A copy \in Range(copies) : Now(copy.target) = ValueOf(copy.source)
      /\ \A id \in DOMAIN c.slots \ Targets : Now(id) = RegionSize + id
CopiesActAtOnce == at[2] = 0 => \A c \in known : \A l \in Lists(c) : ActsAtOnce(c, l)

\* The assembly does what the program as it was written does: on every input
\* it writes and returns the same.  It is compared with the module as it was
\* built, before any pass.
CodeKeepsTheMeaning ==
  (code # <<>> /\ toPrint = <<>>) =>
    \A in \in DOMAIN meaning :
      MayReplace(meaning[in], RunCode(code, FunctionLabel("main"), Data(prog), in, Fuel + 4))

=============================================================================
