--------------------------------- MODULE IR ---------------------------------
(***************************************************************************)
(* The intermediate representation the optimizer rewrites (src/src/ir):    *)
(* values, instructions, basic blocks, and the control-flow helpers that   *)
(* the passes share.  An instruction of the code keeps its branch targets, *)
(* its predicate, its callee and its phi labels in one string "text"; here *)
(* labels are a sequence, and the rest of the text is "attr".  The text of *)
(* a phi also has a spelling, which some passes depend on: "tight" is      *)
(* "a,b" as promoteScalarAllocasToSSA writes it, "spaced" is "a, b" as     *)
(* replacePhiPredecessorLabel rewrites it.                                 *)
(***************************************************************************)
EXTENDS Values, Dominators, SequencesExt, FiniteSetsExt, Functions, TLC

\* FoldLeft, its steps grouped in halves: what a step is given has been
\* computed, and the evaluation stays shallow on long sequences.
Through(Op(_, _), start, seq) ==
  LET RECURSIVE Go(_, _, _)
      Go(acc, lo, hi) ==
        LET mid == (lo + hi) \div 2
        IN  IF lo > hi THEN acc
            ELSE IF lo = hi THEN Op(acc, seq[lo])
            ELSE CHOOSE r \in {Go(s, mid + 1, hi) : s \in {Go(acc, lo, mid)}} : TRUE
  IN  Go(start, 1, Len(seq))

\* A function, its values worked out once.
Emptymap == <<>>
Table(f) == f @@ Emptymap

NoResult == -1

Inst(op, res, args, labs, attr) ==
  [op |-> op, res |-> res, args |-> args, labs |-> labs, attr |-> attr]

Br(l) == Inst("br", NoResult, <<>>, <<l>>, "")
CondBr(v, t, f) == Inst("condbr", NoResult, <<v>>, <<t, f>>, "")
Ret(v) == Inst("ret", NoResult, <<v>>, <<>>, "")
Store(v, addr) == Inst("store", NoResult, <<v, addr>>, <<>>, "")
Load(id, addr) == Inst("load", id, <<addr>>, <<>>, "")
Alloca(id, bytes) == Inst("alloca", id, <<Const(bytes)>>, <<>>, "")
Phi(id, args, labels, spelling) == Inst("phi", id, args, labels, spelling)

Block(label, insts) == [label |-> label, insts |-> insts]
\* params are value ids, in order; arrays are those of pointer type.
Function(params, arrays, void, blocks) ==
  [params |-> params, arrays |-> arrays, void |-> void, blocks |-> blocks]

\* isPure: deleting an unused one of these changes nothing.
PureOps == {"load", "add", "sub", "mul", "div", "mod", "neg", "not", "icmp",
            "gep", "cast", "phi"}
IsPure(i) == i.op \in PureOps
Terminators == {"br", "condbr", "ret"}
IsTerminator(i) == i.op \in Terminators

\* The instruction a block ends with, if it has any: the passes look for the
\* branch there and nowhere else.
HasLast(b) == b.insts # <<>>
EndsWith(b, op) == HasLast(b) /\ Last(b.insts).op = op

BlockIndices(fn) == DOMAIN fn.blocks
Labels(fn) == {fn.blocks[i].label : i \in BlockIndices(fn)}
IndexOf(fn, l) == CHOOSE i \in BlockIndices(fn) : fn.blocks[i].label = l

AllInsts(fn) == FlattenSeq([i \in BlockIndices(fn) |-> fn.blocks[i].insts])
MapInsts(fn, Op(_)) ==
  [fn EXCEPT !.blocks =
     [i \in DOMAIN @ |-> [@[i] EXCEPT !.insts = [j \in DOMAIN @ |-> Op(@[j])]]]]

\* Labels the last instruction of a block branches to, in text order.
TargetLabels(b) == IF EndsWith(b, "br") \/ EndsWith(b, "condbr")
                   THEN Last(b.insts).labs ELSE <<>>
Successors(fn, i) == {IndexOf(fn, l) : l \in Range(TargetLabels(fn.blocks[i])) \cap Labels(fn)}

\* computePredecessors: in block order; a conditional branch whose targets
\* are equal makes its block a predecessor twice.
Predecessors(fn) ==
  LET targets == Table([p \in BlockIndices(fn) |-> TargetLabels(fn.blocks[p])])
      From(p, i) == SelectSeq([k \in DOMAIN targets[p] |-> p],
                              LAMBDA q : fn.blocks[i].label \in Range(targets[q]))
      Arrivals(p, i) == SubSeq(From(p, i), 1, Cardinality(
                          {k \in DOMAIN targets[p] : targets[p][k] = fn.blocks[i].label}))
  IN  Table([i \in BlockIndices(fn) |->
               FlattenSeq([p \in BlockIndices(fn) |-> Arrivals(p, i)])])

\* removeUnreachableBlocks
Graph(fn) == Table([i \in BlockIndices(fn) |-> Successors(fn, i)])
ReachFrom(fn, S) == ReachVia(Graph(fn), S, {})

Dominators(fn) == DominatorsOf(Predecessors(fn))

\* computeDominatorTree
Children(fn, dom, p) ==
  SelectSeq([i \in BlockIndices(fn) |-> i], LAMBDA i : i > 1 /\ IsParent(dom, p, i))

\* resolve: follow replacements until a value has none.
RECURSIVE Resolve(_, _)
Resolve(v, repl) ==
  IF IsVar(v) /\ v[2] \in DOMAIN repl THEN Resolve(repl[v[2]], repl) ELSE v

ResolveInst(i, repl) == [i EXCEPT !.args = [k \in DOMAIN @ |-> Resolve(@[k], repl)]]
ResolveAll(fn, repl) == MapInsts(fn, LAMBDA i : ResolveInst(i, repl))

Defined(fn, id) == {i \in Range(AllInsts(fn)) : i.res = id}
Definition(fn, id) == CHOOSE i \in Defined(fn, id) : TRUE

\* nextValueId: one above every id the function mentions.
NextValueId(fn) ==
  1 + Max({-1} \cup Range(fn.params) \cup
          UNION {{i.res} \cup {v[2] : v \in {w \in Range(i.args) : IsVar(w)}} :
                   i \in Range(AllInsts(fn))})

Bind(f, k, v) == (k :> v) @@ f

(* How most of these passes walk a function: instruction by instruction in *)
(* block order, operands resolved through the replacements made so far;    *)
(* Visit(st, i) says what is emitted in place of i and how the pass's      *)
(* state moves on, Enter(st, b) sets it at the start of block b.            *)
Emitted(st, insts) == [st |-> st, insts |-> insts]
Replaced(st, i, v) == Emitted([st EXCEPT !.repl = Bind(@, i.res, v)], <<>>)

Sweep(fn, st0, Enter(_, _), Visit(_, _)) ==
  LET OneInst(acc, i) ==
        LET r == Visit(acc.st, ResolveInst(i, acc.st.repl))
        IN  [st |-> r.st, insts |-> acc.insts \o r.insts]
      OneBlock(acc, b) ==
        LET r == Through(OneInst, [st |-> Enter(acc.st, b), insts |-> <<>>],
                          fn.blocks[b].insts)
        IN  [st |-> r.st, blocks |-> Append(acc.blocks, Block(fn.blocks[b].label, r.insts))]
      end == Through(OneBlock, [st |-> st0, blocks |-> <<>>], [b \in BlockIndices(fn) |-> b])
  IN  [fn |-> [fn EXCEPT !.blocks = end.blocks], repl |-> end.st.repl]

\* Mutation: what came before a replacement keeps the operand replaced.
Unsettled(sweep) == sweep.fn

Settled(sweep) == ResolveAll(sweep.fn, sweep.repl)

\* Drop the members of a sequence of instructions for which Op fails.
Keep(insts, Op(_)) == SelectSeq(insts, Op)

----------------------------------------------------------------------------
(* What every pass must leave behind.                                      *)

Results(fn) == {i.res : i \in {j \in Range(AllInsts(fn)) : j.res # NoResult}}

\* Every branch goes to a block that exists.
BranchesBound(fn) ==
  \A b \in Range(fn.blocks) : \A i \in Range(b.insts) :
    i.op \in {"br", "condbr"} => Range(i.labs) \subseteq Labels(fn)

\* No operand names the result of an instruction that was deleted.
OperandsBound(fn) ==
  \A i \in Range(AllInsts(fn)) : \A v \in Range(i.args) :
    IsVar(v) => v[2] \in Results(fn) \cup Range(fn.params)

============================================================================
