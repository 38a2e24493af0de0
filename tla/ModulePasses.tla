----------------------------- MODULE ModulePasses -----------------------------
(***************************************************************************)
(* The passes of src/src/ir/ir.cpp that look across functions: inlining,   *)
(* removal of unreachable functions, loads of read-only globals, repeated  *)
(* pure calls, and counted loops taken to be idempotent.  A module is      *)
(* [funs |-> name -> function, order |-> their order, globals |-> name ->  *)
(* initial values].                                                        *)
(***************************************************************************)
EXTENDS ScalarPasses

Calls(fn) == {i.attr : i \in {j \in Range(AllInsts(fn)) : j.op = "call"}}
OpsOf(fn) == {i.op : i \in Range(AllInsts(fn))}
InOrder(prog, Op(_, _)) == Through(Op, prog, prog.order)

\* Mutation: what a candidate calls does not matter.
ShrinkNot(prog, quiet, S) == S

\* The candidates that call none but candidates and those in quiet.
RECURSIVE Shrink(_, _, _)
Shrink(prog, quiet, S) ==
  LET kept == {f \in S : Calls(prog.funs[f]) \subseteq S \cup quiet}
  IN  IF kept = S THEN S ELSE Shrink(prog, quiet, kept)

\* runtimeCallDoesNotWriteUserMemory
QuietRuntime == {"getint", "getch", "putint", "putch", "putarray", "starttime", "stoptime"}

\* memoryNonClobberingFunctionNames: functions of the module only, so that a
\* call of the runtime itself always counts as writing memory.
HarmlessCalls(prog) ==
  Shrink(prog, QuietRuntime, {f \in DOMAIN prog.funs : "store" \notin OpsOf(prog.funs[f])})

\* pureFunctionNames
PureFunctions(prog) ==
  Shrink(prog, {}, {f \in DOMAIN prog.funs :
                      /\ ~prog.funs[f].void
                      /\ prog.funs[f].arrays = {}
                      /\ OpsOf(prog.funs[f]) \cap {"load", "store"} = {}})

----------------------------------------------------------------------------
(* inlineSmallFunctions                                                    *)

MaxInlined == 24   \* instructions

\* canInlineSingleBlock
CanInline(prog, caller, callee) ==
  LET fn == prog.funs[callee]
      body == fn.blocks[1].insts
  IN  /\ caller # callee
      /\ Len(fn.blocks) = 1
      /\ Len(body) \in 1 .. MaxInlined
      /\ Last(body).op = "ret"
      /\ \A i \in Range(Front(body)) :
           /\ ~IsTerminator(i) /\ i.op # "call"
           /\ i.op = "load" => IsVar(i.args[1])
           /\ i.op = "store" => IsVar(i.args[2])
           /\ i.op = "alloca" => i.args = <<Const(4)>>

Remap(v, map) == IF IsVar(v) /\ v[2] \in DOMAIN map THEN map[v[2]] ELSE v

\* One clone of the callee's body: fresh results, operands looked up in map.
CloneInst(acc, i) ==
  LET args == [k \in DOMAIN i.args |-> Remap(i.args[k], acc.map)]
  IN  IF i.op = "ret" THEN acc
      ELSE IF i.res = NoResult
      THEN [acc EXCEPT !.insts = Append(@, [i EXCEPT !.args = args])]
      ELSE [acc EXCEPT !.insts = Append(@, [i EXCEPT !.args = args, !.res = acc.next]),
                       !.map = Bind(@, i.res, Var(acc.next)),
                       !.next = @ + 1]

\* A call replaced by the callee's body.  The value it returns, a value of
\* the callee, is looked up among the caller's replacements before it is
\* looked up among the clones.
InlineCall(st, callee, i) ==
  LET params == callee.params
      map == [id \in Range(params) |-> i.args[CHOOSE n \in DOMAIN params : params[n] = id]]
      body == callee.blocks[1].insts
      end == Through(CloneInst, [insts |-> <<>>, map |-> map, next |-> st.next], body)
      returned == Last(body).args
      after == [st EXCEPT !.next = end.next]
  IN  IF i.res = NoResult \/ returned = <<>> THEN Emitted(after, end.insts)
      ELSE Emitted([after EXCEPT !.repl =
                      Bind(@, i.res, Remap(Resolve(returned[1], st.repl), end.map))],
                   end.insts)

\* The callees are read as they are at that moment, inlined into or not.
InlineInto(prog, caller) ==
  LET fn == prog.funs[caller]
      Visit(st, i) ==
        IF i.op = "call" /\ i.attr \in DOMAIN prog.funs /\ CanInline(prog, caller, i.attr)
        THEN InlineCall(st, prog.funs[i.attr], i) ELSE Emitted(st, <<i>>)
  IN  [prog EXCEPT !.funs[caller] =
         Settled(Sweep(fn, [repl |-> Emptymap, next |-> NextValueId(fn)],
                       LAMBDA st, b : st, Visit))]

InlineSmallFunctions(prog) == InOrder(prog, InlineInto)

----------------------------------------------------------------------------
\* removeUnreachableFunctions
RECURSIVE ReachableFunctions(_, _)
ReachableFunctions(prog, S) ==
  LET more == S \cup (UNION {Calls(prog.funs[f]) : f \in S} \cap DOMAIN prog.funs)
  IN  IF more = S THEN S ELSE ReachableFunctions(prog, more)

\* Mutation: a function is erased, its name stays in the list.
EraseFromTable(prog) ==
  [prog EXCEPT !.funs = Restrict(@, ReachableFunctions(prog, {"main"}))]

RemoveUnreachableFunctions(prog) ==
  LET kept == ReachableFunctions(prog, {"main"})
  IN  IF "main" \notin DOMAIN prog.funs THEN prog
      ELSE [prog EXCEPT !.funs = Restrict(@, kept),
                        !.order = SelectSeq(@, LAMBDA f : f \in kept)]

----------------------------------------------------------------------------
(* foldReadOnlyGlobalLoads                                                 *)

\* globalBaseName and constantGlobalIndex: the global an address starts from,
\* and how far in it is when every index on the way is a constant.
NoGlobal == "no global"
RECURSIVE GlobalBase(_, _)
GlobalBase(fn, v) ==
  LET def == Definition(fn, v[2])
  IN  CASE IsGlobal(v) -> v[2]
        [] IsConst(v) -> NoGlobal
        [] IsVar(v) -> IF Defined(fn, v[2]) # {} /\ def.op = "gep"
                       THEN GlobalBase(fn, def.args[1]) ELSE NoGlobal

Unknown == -1000
RECURSIVE ConstantGlobalIndex(_, _)
ConstantGlobalIndex(fn, v) ==
  LET def == Definition(fn, v[2])
      base == ConstantGlobalIndex(fn, def.args[1])
  IN  CASE IsGlobal(v) -> 0
        [] IsConst(v) -> Unknown
        [] IsVar(v) -> IF Defined(fn, v[2]) # {} /\ def.op = "gep" /\ IsConst(def.args[2])
                          /\ base # Unknown
                       THEN base + def.args[2][2] ELSE Unknown

\* readOnlyGlobalNames: stored to nowhere, and an argument of no call that may
\* write memory.
WrittenThrough(fn, i, harmless) ==
  CASE i.op = "store" -> {GlobalBase(fn, i.args[2])}
    [] i.op = "call" /\ i.attr \notin harmless -> {GlobalBase(fn, v) : v \in Range(i.args)}
    [] OTHER -> {}
ReadOnlyGlobals(prog, harmless) ==
  DOMAIN prog.globals \
    UNION {UNION {WrittenThrough(prog.funs[f], i, harmless) : i \in Range(AllInsts(prog.funs[f]))} :
             f \in DOMAIN prog.funs}

\* A load of a cell the initialiser does not reach is 0.
FoldReadOnlyGlobalLoads(prog, harmless) ==
  LET readOnly == ReadOnlyGlobals(prog, harmless)
      Cell(g, n) == IF n + 1 \in DOMAIN prog.globals[g] THEN prog.globals[g][n + 1] ELSE 0
      InFunction(fn) ==
        LET Visit(st, i) ==
              LET g == GlobalBase(fn, i.args[1])
                  n == ConstantGlobalIndex(fn, i.args[1])
              IN  IF i.op = "load" /\ n # Unknown /\ n >= 0 /\ g \in readOnly
                  THEN Replaced(st, i, Const(Cell(g, n))) ELSE Emitted(st, <<i>>)
        IN  Settled(Sweep(fn, [repl |-> Emptymap], LAMBDA st, b : st, Visit))
  IN  [prog EXCEPT !.funs = [f \in DOMAIN @ |-> InFunction(@[f])]]

----------------------------------------------------------------------------
\* eliminatePureCallCommonSubexpressions: down the dominator tree, a second
\* call of a pure function on the same arguments.
RECURSIVE PureCallVisit(_, _, _, _, _, _)
PureCallVisit(fn, pure, dom, b, available, repl) ==
  LET Visit(st, i) ==
        IF i.op = "call" /\ i.res # NoResult /\ i.attr \in pure
        THEN Reuse(st, i) ELSE Emitted(st, <<i>>)
      OneInst(acc, i) ==
        LET r == Visit(acc.st, ResolveInst(i, acc.st.repl))
        IN  [st |-> r.st, insts |-> acc.insts \o r.insts]
      here == Through(OneInst, [st |-> [repl |-> repl, available |-> available],
                                 insts |-> <<>>], fn.blocks[b].insts)
      Down(acc, child) ==
        PureCallVisit(acc.fn, pure, dom, child, here.st.available, acc.repl)
  IN  Through(Down, [fn |-> [fn EXCEPT !.blocks[b].insts = here.insts],
                      repl |-> here.st.repl], Children(fn, dom, b))

EliminatePureCalls(prog) ==
  LET pure == PureFunctions(prog)
      InFunction(fn) == Settled(PureCallVisit(fn, pure, Dominators(fn), 1, Emptymap, Emptymap))
  IN  IF pure = {} THEN prog
      ELSE [prog EXCEPT !.funs = [f \in DOMAIN @ |-> InFunction(@[f])]]

----------------------------------------------------------------------------
(* collapseIdempotentCountedLoops                                          *)

\* functionCanReachRuntimeIo: r.memo remembers the answers, a function being
\* visited counts as doing none.
RuntimeIo == {"getint", "getch", "getarray", "putint", "putch", "putarray", "putf",
              "starttime", "stoptime"}
RECURSIVE ReachIo(_, _, _, _)
ReachIo(prog, f, memo, visiting) ==
  LET callees == SelectSeq(AllInsts(prog.funs[f]), LAMBDA i : i.op = "call")
      Look(acc, i) == IF acc.io THEN acc ELSE ReachIo(prog, i.attr, acc.memo, visiting \cup {f})
      seen == Through(Look, [io |-> FALSE, memo |-> memo], callees)
  IN  IF f \in RuntimeIo THEN [io |-> TRUE, memo |-> memo]
      ELSE IF f \in DOMAIN memo THEN [io |-> memo[f], memo |-> memo]
      ELSE IF f \notin DOMAIN prog.funs THEN [io |-> TRUE, memo |-> memo]
      ELSE IF f \in visiting THEN [io |-> FALSE, memo |-> memo]
      ELSE [io |-> seen.io, memo |-> Bind(seen.memo, f, seen.io)]

\* splitPhiLabels does not trim: a label after a comma and a space is no
\* block's name.
SplitPhiLabels(i) ==
  [k \in DOMAIN i.labs |-> IF i.attr = "tight" \/ k = 1 THEN i.labs[k] ELSE <<" ", 0>>]
BackEdges(i, body) == {k \in DOMAIN i.args : SplitPhiLabels(i)[k] = body}

\* A header that tests its counter, a phi, against 0 ...
CounterOf(fn, h) ==
  LET test == Definition(fn, Last(h.insts).args[1][2])
      phis == {i \in Range(h.insts) : i.op = "phi" /\ Var(i.res) = test.args[1]}
  IN  IF /\ EndsWith(h, "condbr")
         /\ IsVar(Last(h.insts).args[1])
         /\ Defined(fn, Last(h.insts).args[1][2]) # {}
         /\ test.op = "icmp" /\ test.attr = "gt" /\ test.args[2] = Const(0)
      THEN phis ELSE {}

\* ... that counts down from a constant above 1, one at a time, in a body of
\* one block which uses the counter for nothing else.
CountsDown(fn, counter, bodyLabel) ==
  LET backs == BackEdges(counter, bodyLabel)
      entries == DOMAIN counter.args \ backs
      start == counter.args[Max(entries)]
      step == counter.args[Max(backs)]
  IN  /\ backs # {} /\ entries # {}
      /\ IsConst(start) /\ start[2] > 1
      /\ IsVar(step) /\ Defined(fn, step[2]) # {}
      /\ Definition(fn, step[2]).op = "sub"
      /\ Definition(fn, step[2]).args = <<Var(counter.res), Const(1)>>

CallsOf(b) == SelectSeq(b.insts, LAMBDA i : i.op = "call")

\* Two stores of constants to globals pass for a body that starts afresh each
\* time round; other phis must carry what a call of the last round returned.
LooksIdempotent(h, body, counter) ==
  LET uses == {<<k, n>> \in (DOMAIN body.insts) \X (1 .. 6) :
                 n \in DOMAIN body.insts[k].args /\ body.insts[k].args[n] = Var(counter.res)}
      resets == {k \in DOMAIN body.insts : body.insts[k].op = "store"
                   /\ IsConst(body.insts[k].args[1]) /\ IsGlobal(body.insts[k].args[2])}
      returned == {Var(i.res) : i \in Range(CallsOf(body))} \ {Var(NoResult)}
      LastValue(p) == \A k \in BackEdges(p, body.label) :
        k = Min(BackEdges(p, body.label)) => p.args[k] \in returned \cup {Var(p.res)}
  IN  /\ Cardinality(uses) = 1
      /\ Cardinality(resets) >= 2
      /\ \A p \in Range(h.insts) : p.op = "phi" /\ p # counter => LastValue(p)

\* The outcome for the header at block b; acc is [fn, memo].
CollapseAt(prog, acc, b) ==
  LET fn == acc.fn
      h == fn.blocks[b]
      bodyLabel == Last(h.insts).labs[1]
      body == fn.blocks[IndexOf(fn, bodyLabel)]
      counters == CounterOf(fn, h)
      counter == CHOOSE i \in counters : TRUE
      candidate == /\ counters # {}
                   /\ bodyLabel \in Labels(fn)
                   /\ EndsWith(body, "br") /\ Last(body.insts).labs[1] = h.label
                   /\ CountsDown(fn, counter, bodyLabel)
      Look(a, i) == IF a.io THEN a ELSE ReachIo(prog, i.attr, a.memo, {})
      io == Through(Look, [io |-> FALSE, memo |-> acc.memo], CallsOf(body))
      at == CHOOSE k \in DOMAIN h.insts : h.insts[k] = counter
      entry == Max(DOMAIN counter.args \ BackEdges(counter, bodyLabel))
  IN  IF ~candidate THEN acc
      ELSE IF io.io \/ ~LooksIdempotent(h, body, counter) THEN [acc EXCEPT !.memo = io.memo]
      ELSE [fn |-> [fn EXCEPT !.blocks[b].insts[at].args[entry] = Const(1)], memo |-> io.memo]

CollapseIdempotentCountedLoops(prog) ==
  LET InFunction(acc, f) ==
        LET r == Through(LAMBDA a, b : CollapseAt(prog, a, b),
                          [fn |-> acc.prog.funs[f], memo |-> acc.memo],
                          [b \in BlockIndices(prog.funs[f]) |-> b])
        IN  [prog |-> [acc.prog EXCEPT !.funs[f] = r.fn], memo |-> r.memo]
  IN  Through(InFunction, [prog |-> prog, memo |-> Emptymap], prog.order).prog

============================================================================
