------------------------------ MODULE Dominators ------------------------------
(***************************************************************************)
(* Flow graphs: the searches and the dominators of src/src/ir.  The blocks *)
(* are numbered from the entry, 1; preds[i] lists the predecessors of      *)
(* block i, succs[i] is the set of its successors.                         *)
(***************************************************************************)
EXTENDS Integers, Sequences, FiniteSets

\* The blocks a depth-first search visits that enters none of those avoided.
ReachVia(succs, S, avoided) ==
  LET Seen[R \in SUBSET DOMAIN succs] ==
        LET more == R \cup ((UNION {succs[i] : i \in R}) \ avoided)
        IN  IF more = R THEN R ELSE Seen[more]
  IN  Seen[S]

\* Mutation: what one predecessor has is enough.
MeetAny(preds, dom, i) ==
  {i} \cup {c \in DOMAIN preds : \E k \in DOMAIN preds[i] : c \in dom[preds[i][k]]}

\* computeDominators: the blocks every predecessor has, and the block itself,
\* which is the only one if there is no predecessor.
MeetAll(preds, dom, i) ==
  {i} \cup {c \in DOMAIN preds : /\ preds[i] # <<>>
                                 /\ \A k \in DOMAIN preds[i] : c \in dom[preds[i][k]]}

\* One sweep over the blocks in order; the entry is left as it is.
Swept(preds, dom) ==
  LET UpTo[i \in 0 .. Len(preds)] ==
        IF i = 0 THEN dom
        ELSE LET before == UpTo[i - 1]
             IN  IF i = 1 THEN before ELSE [before EXCEPT ![i] = MeetAll(preds, before, i)]
  IN  UpTo[Len(preds)]

\* What is claimed while the sweeps go on: too much, if anything, so that a
\* sweep can only take away.
Claims(preds) ==
  {dom \in [DOMAIN preds -> SUBSET DOMAIN preds] :
     \A i \in DOMAIN preds : i # 1 => MeetAll(preds, dom, i) \subseteq dom[i]}

\* Sweeps until nothing changes, from the greatest sets.
DominatorsOf(preds) ==
  LET Settled[dom \in Claims(preds)] ==
        LET swept == Swept(preds, dom) IN IF swept = dom THEN dom ELSE Settled[swept]
  IN  Settled[[i \in DOMAIN preds |-> IF i = 1 THEN {1} ELSE DOMAIN preds]]

\* computeDominatorTree: the deepest strict dominator is the parent.
IsParent(dom, p, i) ==
  /\ p \in dom[i] \ {i}
  /\ dom[i] \ {i} \subseteq dom[p]

----------------------------------------------------------------------------
\* d is on every path from the entry to b; stated by searches that avoid d,
\* apart from the way computeDominators finds it.
AllDominators(succs) ==
  LET Avoiding(d) == ReachVia(succs, {1} \ {d}, {d})
  IN  [b \in ReachVia(succs, {1}, {}) |-> {d \in DOMAIN succs : b \notin Avoiding(d)}]

\* computeDominators claims no more than that, and no less once the blocks
\* control cannot get to are gone; then every block but the entry has one
\* parent, whatever the order the dominators are looked through in.
DominatorsRight(preds, succs) ==
  LET claimed == DominatorsOf(preds)
      real == AllDominators(succs)
  IN  /\ \A b \in DOMAIN real : claimed[b] \subseteq real[b]
      /\ DOMAIN real = DOMAIN preds =>
           /\ claimed = real
           /\ \A b \in DOMAIN preds \ {1} : \E p \in DOMAIN preds :
                /\ IsParent(claimed, p, b)
                /\ \A q \in DOMAIN preds : IsParent(claimed, q, b) => q = p

==============================================================================
