------------------------------ MODULE CfgPasses ------------------------------
(***************************************************************************)
(* The passes of src/src/ir/ir.cpp that rewrite the control-flow graph of  *)
(* one function.  Each is an operator from the function as the pass finds  *)
(* it to the function as the pass leaves it; the pass reports a change     *)
(* exactly when the two differ.                                            *)
(***************************************************************************)
EXTENDS IR

\* truncateAfterTerminators: nothing follows the first terminator.
TruncateBlock(b) ==
  LET ends == {k \in DOMAIN b.insts : IsTerminator(b.insts[k])}
  IN  IF ends = {} THEN b ELSE [b EXCEPT !.insts = SubSeq(@, 1, Min(ends))]

TruncateAfterTerminators(fn) ==
  [fn EXCEPT !.blocks = [i \in DOMAIN @ |-> TruncateBlock(@[i])]]

\* A block whose last instruction is replaced by those given.
ReplaceLast(b, insts) == [b EXCEPT !.insts = Front(@) \o insts]

----------------------------------------------------------------------------
\* simplifyBranches: a branch on a constant, or whose two targets are one, is
\* unconditional.
SimplifyBranch(b) ==
  LET t == Last(b.insts)
      v == t.args[1]
  IN  IF ~EndsWith(b, "condbr") THEN b
      ELSE IF t.labs[1] = t.labs[2] THEN ReplaceLast(b, <<Br(t.labs[1])>>)
      ELSE IF IsVar(v) THEN b
      ELSE ReplaceLast(b, <<Br(t.labs[IF v[2] # 0 THEN 1 ELSE 2])>>)

SimplifyBranches(fn) ==
  [fn EXCEPT !.blocks = [i \in DOMAIN @ |-> SimplifyBranch(@[i])]]

----------------------------------------------------------------------------
\* removeUnreachableBlocks: the phis of the blocks that stay keep the labels
\* of the predecessors that go.
RemoveUnreachableBlocks(fn) ==
  LET reachable == ReachFrom(fn, {1})
  IN  IF fn.blocks = <<>> THEN fn
      ELSE [fn EXCEPT !.blocks = FlattenSeq([i \in DOMAIN @ |->
              IF i \in reachable THEN <<@[i]>> ELSE <<>>])]

----------------------------------------------------------------------------
\* removeEmptyJumpBlocks
StartsWithPhi(b) == b.insts # <<>> /\ Head(b.insts).op = "phi"

\* An empty block that only jumps, to a block without phis.
IsEmptyJump(fn, i) ==
  LET b == fn.blocks[i]
      target == b.insts[1].labs[1]
  IN  /\ i > 1
      /\ Len(b.insts) = 1
      /\ b.insts[1].op = "br"
      /\ target # b.label
      /\ target \in Labels(fn)
      /\ ~StartsWithPhi(fn.blocks[IndexOf(fn, target)])

Redirections(fn) ==
  [l \in {fn.blocks[i].label : i \in {j \in BlockIndices(fn) : IsEmptyJump(fn, j)}} |->
     fn.blocks[IndexOf(fn, l)].insts[1].labs[1]]

\* Mutation: one redirection is followed, and no more.
NextTarget(redirect, label, seen) == label

\* finalTarget: follow the redirections until there is none or a label comes
\* up for the second time (on a cycle, where the code's order of resolving
\* them decides which of its labels is left; none of them keeps its block).
RECURSIVE FinalTarget(_, _, _)
FinalTarget(redirect, label, seen) ==
  IF label \notin DOMAIN redirect \/ label \in seen THEN label
  ELSE FinalTarget(redirect, redirect[label], seen \cup {label})

Retarget(b, redirect) ==
  IF EndsWith(b, "br") \/ EndsWith(b, "condbr")
  THEN [b EXCEPT !.insts[Len(b.insts)].labs =
          [k \in DOMAIN @ |-> IF @[k] \in DOMAIN redirect
                              THEN FinalTarget(redirect, redirect[@[k]], {}) ELSE @[k]]]
  ELSE b

RemoveEmptyJumpBlocks(fn) ==
  LET redirect == Redirections(fn)
  IN  [fn EXCEPT !.blocks =
         LET kept == SelectSeq(@, LAMBDA b : b.label \notin DOMAIN redirect)
         IN  [i \in DOMAIN kept |-> Retarget(kept[i], redirect)]]

----------------------------------------------------------------------------
\* simplifyBooleanReturnBranches: a branch to two returns of 1 and 0 becomes
\* the return of its condition (of its negation for 0 and 1).
ReturnedConstant(fn, preds, l) ==
  LET i == IndexOf(fn, l)
      insts == fn.blocks[i].insts
      applies == /\ l \in Labels(fn)
                 /\ i > 1
                 /\ Len(preds[i]) = 1
                 /\ Len(insts) = 1
                 /\ insts[1].op = "ret"
                 /\ Len(insts[1].args) = 1
                 /\ IsConst(insts[1].args[1])
  IN  IF applies THEN insts[1].args[1][2] ELSE -1

ReturnCondition(fn, preds, acc, b) ==
  LET t == Last(b.insts)
      v == t.args[1]
      returned == <<ReturnedConstant(fn, preds, t.labs[1]),
                    ReturnedConstant(fn, preds, t.labs[2])>>
      negated == Inst("not", acc.next, <<v>>, <<>>, "")
      Add(block, n) == [blocks |-> Append(acc.blocks, block), next |-> n]
  IN  IF EndsWith(b, "condbr") /\ returned = <<1, 0>>
      THEN Add(ReplaceLast(b, <<Ret(v)>>), acc.next)
      ELSE IF EndsWith(b, "condbr") /\ returned = <<0, 1>>
      THEN Add(ReplaceLast(b, <<negated, Ret(Var(acc.next))>>), acc.next + 1)
      ELSE Add(b, acc.next)

SimplifyBooleanReturnBranches(fn) ==
  LET preds == Predecessors(fn)
      visit(acc, b) == ReturnCondition(fn, preds, acc, b)
  IN  IF Len(fn.blocks) < 3 THEN fn
      ELSE [fn EXCEPT !.blocks =
              Through(visit, [blocks |-> <<>>, next |-> NextValueId(fn)], @).blocks]

----------------------------------------------------------------------------
\* replacePhiPredecessorLabel, on the leading phis of every block; it writes
\* the text of those it changes with a space after each comma.
RenamePhiLabel(fn, from, to) ==
  LET Renamed(i) ==
        IF i.op # "phi" \/ from \notin Range(i.labs) THEN i
        ELSE [i EXCEPT !.labs = [k \in DOMAIN @ |-> IF @[k] = from THEN to ELSE @[k]],
                       !.attr = "spaced"]
      leading(insts, k) == \A j \in 1 .. k : insts[j].op = "phi"
  IN  [fn EXCEPT !.blocks = [b \in DOMAIN @ |->
         [@[b] EXCEPT !.insts = [k \in DOMAIN @ |->
            IF leading(@, k) THEN Renamed(@[k]) ELSE @[k]]]]]

\* mergeLinearBlocks: one block a call, the first that follows its only
\* predecessor in the list and is all that predecessor jumps to.
MergeLinearBlocks(fn) ==
  LET preds == Predecessors(fn)
      mergeable == {i \in BlockIndices(fn) \ {1} :
                      /\ ~StartsWithPhi(fn.blocks[i])
                      /\ Len(preds[i]) = 1
                      /\ preds[i][1] < i
                      /\ EndsWith(fn.blocks[preds[i][1]], "br")}
      i == Min(mergeable)
      p == preds[i][1]
      joined == [fn EXCEPT !.blocks[p] = ReplaceLast(@, fn.blocks[i].insts)]
      renamed == RenamePhiLabel(joined, fn.blocks[i].label, fn.blocks[p].label)
  IN  IF mergeable = {} THEN fn
      ELSE [renamed EXCEPT !.blocks = RemoveAt(@, i)]

============================================================================
