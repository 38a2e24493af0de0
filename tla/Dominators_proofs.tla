--------------------------- MODULE Dominators_proofs ---------------------------
(***************************************************************************)
(* The dominators are right in every flow graph: the sweeps come to an     *)
(* end, what they leave is what the paths from the entry say, and it makes *)
(* a tree.  A search for the blocks it can get to without one of them is   *)
(* all that is needed to speak of paths: it gives the least set that holds *)
(* where it begins and whatever follows a block it holds.                  *)
(***************************************************************************)
EXTENDS Dominators, DataInduction, FiniteSetTheorems

----------------------------------------------------------------------------
(* Steps repeated until nothing changes.                                   *)

\* A step changes nothing or brings a measure down.
Shrinks(D, next, M, N) ==
  /\ next \in [D -> D] /\ M \in [D -> Nat] /\ N \in Nat
  /\ \A x \in D : M[x] <= N /\ (next[x] # x => M[next[x]] < M[x])

\* f takes steps until nothing changes.
Repeats(D, next, f) == f = [x \in D |-> IF next[x] = x THEN x ELSE f[next[x]]]

LEMMA RepetitionExists ==
  ASSUME NEW D, NEW next, NEW M, NEW N, Shrinks(D, next, M, N)
  PROVE  \E f : Repeats(D, next, f)
<1> DEFINE At(f, x) == IF next[x] = x THEN x ELSE f[next[x]]
           To(m, f) == /\ f = [x \in D |-> f[x]]
                       /\ \A x \in D : M[x] < m => f[x] = At(f, x)
           S == {m \in Nat : \E f : To(m, f)}
<1>0. /\ next \in [D -> D] /\ M \in [D -> Nat] /\ N \in Nat
      /\ \A x \in D : next[x] \in D /\ M[x] \in Nat /\ M[next[x]] \in Nat /\ M[x] <= N
      /\ \A x \in D : next[x] # x => M[next[x]] < M[x]
  BY DEF Shrinks
<1>1. 0 \in S
  <2> DEFINE f == [x \in D |-> x]
  <2>1. f = [x \in D |-> f[x]]
    OBVIOUS
  <2>2. \A x \in D : ~(M[x] < 0)
    BY <1>0
  <2>3. To(0, f)
    <3> HIDE DEF f, At
    <3> QED BY <2>1, <2>2
  <2> HIDE DEF To, f
  <2> QED BY <2>3
<1>2. ASSUME NEW m \in Nat, m \in S PROVE m + 1 \in S
  <2>1. PICK f : To(m, f)
    BY <1>2
  <2> DEFINE g == [x \in D |-> IF M[x] < m THEN f[x] ELSE At(f, x)]
  <2>2. g = [x \in D |-> g[x]]
    OBVIOUS
  <2>3. \A x \in D : g[x] = IF M[x] < m THEN f[x] ELSE At(f, x)
    OBVIOUS
  <2> HIDE DEF g
  <2>4. ASSUME NEW x \in D, M[x] < m + 1 PROVE g[x] = At(g, x)
    <3>1. next[x] # x => g[next[x]] = f[next[x]]
      <4>1. next[x] # x => M[next[x]] < m
        BY <1>0, <2>4
      <4> QED BY <1>0, <2>3, <4>1
    <3>2. At(g, x) = At(f, x)
      BY <3>1
    <3>3. M[x] < m => f[x] = At(f, x)
      BY <2>1
    <3> QED BY <2>3, <3>2, <3>3
  <2>5. To(m + 1, g)
    <3> HIDE DEF At
    <3> QED BY <2>2, <2>4
  <2> HIDE DEF To
  <2> QED BY <2>5
<1>3. N + 1 \in S
  <2>1. N + 1 \in Nat
    BY <1>0
  <2> HIDE DEF S
  <2> QED BY <1>1, <1>2, <2>1, Induction
<1>4. PICK f : To(N + 1, f)
  BY <1>3
<1>5. \A x \in D : f[x] = At(f, x)
  <2> HIDE DEF At
  <2>1. \A x \in D : M[x] < N + 1
    BY <1>0
  <2> QED BY <1>4, <2>1
<1>6. f = [x \in D |-> At(f, x)]
  <2> HIDE DEF At
  <2> QED BY <1>4, <1>5
<1> QED BY <1>6 DEF Repeats

\* Where it ends nothing changes, and what every step keeps has been kept.
LEMMA RepetitionEnds ==
  ASSUME NEW D, NEW next, NEW M, NEW N, Shrinks(D, next, M, N),
         NEW f, Repeats(D, next, f),
         NEW I \in SUBSET D, \A y \in I : next[y] \in I, NEW x \in I
  PROVE  f[x] \in I /\ next[f[x]] = f[x]
<1>0. \A y \in D : M[y] \in Nat /\ M[next[y]] \in Nat /\ (next[y] # y => M[next[y]] < M[y])
  BY DEF Shrinks
<1>1. \A y \in D : f[y] = IF next[y] = y THEN y ELSE f[next[y]]
  <2> DEFINE g == [y \in D |-> IF next[y] = y THEN y ELSE f[next[y]]]
  <2>1. \A y \in D : g[y] = IF next[y] = y THEN y ELSE f[next[y]]
    OBVIOUS
  <2>2. f = g
    BY DEF Repeats
  <2> HIDE DEF g
  <2> QED BY <2>1, <2>2
<1> DEFINE S == {m \in Nat : \A y \in I : M[y] < m => f[y] \in I /\ next[f[y]] = f[y]}
<1>2. 0 \in S
  BY <1>0
<1>3. ASSUME NEW m \in Nat, m \in S PROVE m + 1 \in S
  <2> SUFFICES ASSUME NEW y \in I, M[y] < m + 1
               PROVE  f[y] \in I /\ next[f[y]] = f[y]
    OBVIOUS
  <2>1. CASE next[y] = y
    BY <1>1, <2>1
  <2>2. CASE next[y] # y
    <3>1. f[y] = f[next[y]] /\ next[y] \in I
      BY <1>1, <2>2
    <3>2. M[next[y]] < m
      BY <1>0, <2>2
    <3> QED BY <1>3, <3>1, <3>2
  <2> QED BY <2>1, <2>2
<1>4. M[x] + 1 \in S
  <2>1. M[x] + 1 \in Nat
    BY <1>0
  <2> HIDE DEF S
  <2> QED BY <1>2, <1>3, <2>1, Induction
<1> QED BY <1>0, <1>4

----------------------------------------------------------------------------
(* Searches.                                                               *)

\* T holds what follows its blocks, but for the blocks avoided.
ClosedBut(succs, T, avoided) == \A i \in T : succs[i] \ avoided \subseteq T

\* R is the least set that holds S and is closed so.
IsReach(B, succs, S, avoided, R) ==
  /\ R \in SUBSET B /\ S \subseteq R
  /\ ClosedBut(succs, R, avoided)
  /\ \A T \in SUBSET B : S \subseteq T /\ ClosedBut(succs, T, avoided) => R \subseteq T

\* More of a finite set leaves less outside.
LEMMA LessOutside ==
  ASSUME NEW B, IsFiniteSet(B), NEW R \in SUBSET B, NEW Q \in SUBSET B, R \subseteq Q, Q # R
  PROVE  Cardinality(B \ Q) < Cardinality(B \ R)
<1>1. IsFiniteSet(B \ R) /\ IsFiniteSet(B \ Q)
  BY FS_Subset
<1>2. B \ Q \in SUBSET (B \ R) /\ B \ Q # B \ R
  OBVIOUS
<1>3. Cardinality(B \ Q) <= Cardinality(B \ R) /\ Cardinality(B \ Q) # Cardinality(B \ R)
  BY <1>1, <1>2, FS_Subset
<1>4. Cardinality(B \ Q) \in Nat /\ Cardinality(B \ R) \in Nat
  BY <1>1, FS_CardinalityType
<1> QED BY <1>3, <1>4

LEMMA ReachLeast ==
  ASSUME NEW B, IsFiniteSet(B), NEW succs \in [B -> SUBSET B], NEW S \in SUBSET B, NEW avoided
  PROVE  IsReach(B, succs, S, avoided, ReachVia(succs, S, avoided))
<1> DEFINE More(R) == R \cup ((UNION {succs[i] : i \in R}) \ avoided)
           D == SUBSET B
           next == [R \in D |-> More(R)]
           M == [R \in D |-> Cardinality(B \ R)]
           N == Cardinality(B)
           f == CHOOSE F : F = [R \in SUBSET DOMAIN succs |->
                  LET more == R \cup ((UNION {succs[i] : i \in R}) \ avoided)
                  IN  IF more = R THEN R ELSE F[more]]
<1>1. \A R \in D : More(R) \in D /\ R \subseteq More(R)
  OBVIOUS
<1>2. Shrinks(D, next, M, N)
  <2>1. next \in [D -> D]
    BY <1>1
  <2>2. \A R \in D : IsFiniteSet(B \ R) /\ Cardinality(B \ R) <= N
    <3> TAKE R \in D
    <3>1. B \ R \in SUBSET B
      OBVIOUS
    <3> QED BY <3>1, FS_Subset
  <2>3. M \in [D -> Nat] /\ N \in Nat
    BY <2>2, FS_CardinalityType
  <2>4. \A R \in D : M[R] <= N
    BY <2>2
  <2>5. ASSUME NEW R \in D, next[R] # R PROVE M[next[R]] < M[R]
    <3>1. next[R] = More(R) /\ More(R) \in D /\ R \subseteq More(R)
      BY <1>1
    <3>2. Cardinality(B \ More(R)) < Cardinality(B \ R)
      <4> HIDE DEF More
      <4> QED BY <2>5, <3>1, LessOutside
    <3>3. M[R] = Cardinality(B \ R) /\ M[More(R)] = Cardinality(B \ More(R))
      BY <3>1
    <3> QED BY <3>1, <3>2, <3>3
  <2> HIDE DEF D, next, M, N
  <2> QED BY <2>1, <2>3, <2>4, <2>5 DEF Shrinks
<1>3. Repeats(D, next, f)
  <2>1. \A F : Repeats(D, next, F) <=>
               F = [R \in SUBSET DOMAIN succs |->
                  LET more == R \cup ((UNION {succs[i] : i \in R}) \ avoided)
                  IN  IF more = R THEN R ELSE F[more]]
    <3> TAKE F
    <3>1. DOMAIN succs = B
      OBVIOUS
    <3>2. \A R \in D : next[R] = More(R)
      OBVIOUS
    <3>3. [R \in D |-> IF next[R] = R THEN R ELSE F[next[R]]]
            = [R \in D |-> IF More(R) = R THEN R ELSE F[More(R)]]
      <4> HIDE DEF next, More
      <4> QED BY <3>2
    <3> HIDE DEF next
    <3> QED BY <3>1, <3>3 DEF Repeats
  <2>2. \E F : Repeats(D, next, F)
    <3> HIDE DEF D, next, M, N
    <3> QED BY <1>2, RepetitionExists
  <2> HIDE DEF D, next
  <2> QED BY <2>1, <2>2, Zenon
<1>4. ReachVia(succs, S, avoided) = f[S]
  BY Zenon DEF ReachVia
<1> DEFINE I == {R \in D : /\ S \subseteq R
                           /\ \A T \in SUBSET B : S \subseteq T /\ ClosedBut(succs, T, avoided)
                                                    => R \subseteq T}
<1>5. \A R \in I : next[R] \in I
  <2> SUFFICES ASSUME NEW R \in I PROVE More(R) \in I
    BY <1>1
  <2>1. More(R) \in D /\ S \subseteq More(R)
    BY <1>1
  <2>2. ASSUME NEW T \in SUBSET B, S \subseteq T, ClosedBut(succs, T, avoided)
        PROVE  More(R) \subseteq T
    <3>1. R \subseteq T
      BY <2>2
    <3> QED BY <2>2, <3>1 DEF ClosedBut
  <2> HIDE DEF More
  <2> QED BY <2>1, <2>2
<1>6. S \in I
  OBVIOUS
<1>7. f[S] \in I /\ next[f[S]] = f[S]
  <2>1. I \in SUBSET D
    OBVIOUS
  <2> HIDE DEF f, I, next, D, M, N
  <2> QED BY <1>2, <1>3, <1>5, <1>6, <2>1, RepetitionEnds
<1> HIDE DEF f
<1>8. More(f[S]) = f[S]
  BY <1>7
<1>9. ClosedBut(succs, f[S], avoided)
  <2>1. \A i \in f[S] : succs[i] \ avoided \subseteq More(f[S])
    OBVIOUS
  <2> HIDE DEF More
  <2> QED BY <1>8, <2>1 DEF ClosedBut
<1> QED BY <1>4, <1>7, <1>9 DEF IsReach

----------------------------------------------------------------------------
(* The sweeps.                                                             *)

IsFlow(n, preds) == n \in Nat \ {0} /\ preds \in [1 .. n -> Seq(1 .. n)]

\* What a sweep does at one block.
AtBlock(preds, before, i) ==
  IF i = 1 THEN before ELSE [before EXCEPT ![i] = MeetAll(preds, before, i)]

\* No block has more in d than in dom.
Within(preds, d, dom) == \A b \in DOMAIN preds : d[b] \subseteq dom[b]

LEMMA FlowParts ==
  ASSUME NEW n, NEW preds, IsFlow(n, preds)
  PROVE  /\ n \in Nat /\ n >= 1 /\ DOMAIN preds = 1 .. n /\ Len(preds) = n
         /\ IsFiniteSet(1 .. n)
         /\ \A i \in 1 .. n : \A k \in DOMAIN preds[i] : preds[i][k] \in 1 .. n
<1>1. n \in Nat /\ n >= 1 /\ preds \in [1 .. n -> Seq(1 .. n)]
  BY DEF IsFlow
<1>2. IsFiniteSet(1 .. n)
  BY <1>1, FS_Interval
<1> QED BY <1>1, <1>2

LEMMA ClaimsType ==
  ASSUME NEW n, NEW preds, IsFlow(n, preds), NEW dom \in Claims(preds)
  PROVE  /\ dom \in [1 .. n -> SUBSET (1 .. n)]
         /\ \A i \in 1 .. n : i # 1 => MeetAll(preds, dom, i) \subseteq dom[i]
BY FlowParts DEF Claims

LEMMA MeetShrinks ==
  ASSUME NEW n, NEW preds, IsFlow(n, preds), NEW d, NEW dom, Within(preds, d, dom),
         NEW i \in 1 .. n
  PROVE  /\ MeetAll(preds, d, i) \in SUBSET (1 .. n)
         /\ MeetAll(preds, d, i) \subseteq MeetAll(preds, dom, i)
<1>1. DOMAIN preds = 1 .. n /\ \A k \in DOMAIN preds[i] : preds[i][k] \in 1 .. n
  BY FlowParts
<1> QED BY <1>1 DEF MeetAll, Within

\* One block of a sweep: claims remain, and fewer.
LEMMA BlockShrinks ==
  ASSUME NEW n, NEW preds, IsFlow(n, preds), NEW dom \in Claims(preds), NEW i \in 1 .. n
  PROVE  /\ AtBlock(preds, dom, i) \in Claims(preds)
         /\ Within(preds, AtBlock(preds, dom, i), dom)
         /\ AtBlock(preds, dom, i)[1] = dom[1]
         /\ \A b \in 1 .. n : b # i => AtBlock(preds, dom, i)[b] = dom[b]
         /\ i # 1 => AtBlock(preds, dom, i)[i] = MeetAll(preds, dom, i)
<1>1. /\ dom \in [1 .. n -> SUBSET (1 .. n)] /\ DOMAIN preds = 1 .. n /\ n >= 1 /\ n \in Nat
      /\ \A j \in 1 .. n : j # 1 => MeetAll(preds, dom, j) \subseteq dom[j]
  BY FlowParts, ClaimsType
<1>2. CASE i = 1
  BY <1>1, <1>2 DEF AtBlock, Within
<1>3. CASE i # 1
  <2> DEFINE d == AtBlock(preds, dom, i)
  <2>1. d = [dom EXCEPT ![i] = MeetAll(preds, dom, i)]
    BY <1>3 DEF AtBlock
  <2>2. Within(preds, dom, dom)
    BY DEF Within
  <2>3. MeetAll(preds, dom, i) \in SUBSET (1 .. n)
    BY <2>2, MeetShrinks
  <2>4. /\ d \in [1 .. n -> SUBSET (1 .. n)] /\ d[i] = MeetAll(preds, dom, i)
        /\ \A b \in 1 .. n : b # i => d[b] = dom[b]
    BY <1>1, <2>1, <2>3
  <2> HIDE DEF d
  <2>5. Within(preds, d, dom)
    BY <1>1, <1>3, <2>4 DEF Within
  <2>6. ASSUME NEW j \in 1 .. n, j # 1 PROVE MeetAll(preds, d, j) \subseteq d[j]
    <3>1. MeetAll(preds, d, j) \subseteq MeetAll(preds, dom, j)
      BY <2>5, MeetShrinks
    <3> QED BY <1>1, <2>4, <2>6, <3>1
  <2>7. d \in Claims(preds)
    BY <1>1, <2>4, <2>6 DEF Claims
  <2>8. 1 \in 1 .. n
    BY <1>1
  <2> QED BY <1>3, <2>4, <2>5, <2>7, <2>8 DEF d
<1> QED BY <1>2, <1>3

LEMMA SweepDefined ==
  ASSUME NEW n, NEW preds, IsFlow(n, preds), NEW dom
  PROVE  \E U : /\ U[0] = dom
                /\ \A i \in 1 .. n : U[i] = AtBlock(preds, U[i - 1], i)
                /\ Swept(preds, dom) = U[n]
<1> DEFINE At(F, i) == IF i = 0 THEN dom ELSE AtBlock(preds, F[i - 1], i)
           To(m, F) == /\ F = [i \in 0 .. n |-> F[i]]
                       /\ \A i \in 0 .. m : F[i] = At(F, i)
           S == {m \in 0 .. n : \E F : To(m, F)}
<1>0. n \in Nat /\ Len(preds) = n
  BY FlowParts
<1>1. 0 \in S
  <2> DEFINE F == [i \in 0 .. n |-> dom]
  <2>1. F = [i \in 0 .. n |-> F[i]]
    OBVIOUS
  <2>2. F[0] = dom
    BY <1>0
  <2>3. ASSUME NEW i \in 0 .. 0 PROVE F[i] = At(F, i)
    <3>1. i = 0
      OBVIOUS
    <3> HIDE DEF F
    <3> QED BY <2>2, <3>1
  <2>4. To(0, F)
    <3> HIDE DEF F, At
    <3> QED BY <2>1, <2>3
  <2> HIDE DEF To, F
  <2> QED BY <1>0, <2>4
<1>2. ASSUME NEW m \in 0 .. n - 1, m \in S PROVE m + 1 \in S
  <2>1. PICK F : To(m, F)
    BY <1>2
  <2> DEFINE v == At(F, m + 1)
             G == [i \in 0 .. n |-> IF i = m + 1 THEN v ELSE F[i]]
  <2>2. G = [i \in 0 .. n |-> G[i]]
    OBVIOUS
  <2>3. G[m + 1] = v /\ \A i \in 0 .. m : G[i] = F[i]
    <3> HIDE DEF v
    <3> QED BY <1>0
  <2>4. ASSUME NEW i \in 0 .. m + 1 PROVE G[i] = At(G, i)
    <3> HIDE DEF G
    <3>1. CASE i = m + 1
      <4>1. (m + 1) - 1 = m /\ m \in 0 .. m
        BY <1>0
      <4>2. At(G, m + 1) = At(F, m + 1)
        BY <2>3, <4>1, Zenon
      <4> QED BY <2>3, <3>1, <4>2, Zenon
    <3>2. CASE i \in 0 .. m
      <4>1. i # 0 => i - 1 \in 0 .. m
        BY <1>0, <3>2
      <4>2. F[i] = At(F, i)
        BY <2>1, <3>2, Zenon
      <4>3. At(G, i) = At(F, i)
        BY <2>3, <4>1, Zenon
      <4> QED BY <2>3, <3>2, <4>2, <4>3, Zenon
    <3>3. i = m + 1 \/ i \in 0 .. m
      BY <1>0
    <3> QED BY <3>1, <3>2, <3>3
  <2>5. To(m + 1, G)
    <3> HIDE DEF G, At
    <3> QED BY <2>2, <2>4, Zenon
  <2>6. m + 1 \in 0 .. n
    BY <1>0
  <2> HIDE DEF To, G
  <2> QED BY <2>5, <2>6
<1>3. 0 .. n \subseteq S
  <2>1. 0 \in Int /\ n \in Int
    BY <1>0
  <2> HIDE DEF S
  <2> QED BY <1>1, <1>2, <2>1, InductionUpTo, Zenon
<1>4. PICK F : To(n, F)
  <2>1. n \in S
    <3>1. n \in 0 .. n
      BY <1>0
    <3> HIDE DEF S
    <3> QED BY <1>3, <3>1
  <2> HIDE DEF To
  <2> QED BY <2>1
<1>5. F = [i \in 0 .. n |-> At(F, i)]
  <2> HIDE DEF At
  <2> QED BY <1>4
<1> DEFINE C == CHOOSE UpTo : UpTo = [i \in 0 .. Len(preds) |->
                   IF i = 0 THEN dom
                   ELSE LET before == UpTo[i - 1]
                        IN  IF i = 1 THEN before
                            ELSE [before EXCEPT ![i] = MeetAll(preds, before, i)]]
<1>6. C = [i \in 0 .. n |-> At(C, i)]
  BY <1>0, <1>5, Zenon DEF AtBlock
<1>7. Swept(preds, dom) = C[n]
  BY <1>0, Zenon DEF Swept
<1> HIDE DEF C
<1>8. \A i \in 0 .. n : C[i] = At(C, i)
  <2> DEFINE G == [i \in 0 .. n |-> At(C, i)]
  <2>1. \A i \in 0 .. n : G[i] = At(C, i)
    OBVIOUS
  <2>2. C = G
    BY <1>6
  <2> HIDE DEF G, At
  <2> QED BY <2>1, <2>2
<1>9. C[0] = dom
  BY <1>0, <1>8
<1>10. \A i \in 1 .. n : C[i] = AtBlock(preds, C[i - 1], i)
  BY <1>0, <1>8
<1> QED BY <1>7, <1>9, <1>10

LEMMA SameClaims ==
  ASSUME NEW n, NEW preds, DOMAIN preds = 1 .. n,
         NEW d \in [1 .. n -> SUBSET (1 .. n)], NEW dom \in [1 .. n -> SUBSET (1 .. n)],
         Within(preds, d, dom), Within(preds, dom, d)
  PROVE  d = dom
<1>1. ASSUME NEW b \in 1 .. n PROVE d[b] = dom[b]
  <2>1. d[b] \subseteq dom[b] /\ dom[b] \subseteq d[b]
    BY Zenon DEF Within
  <2> QED BY <2>1, Zenon
<1>2. [b \in 1 .. n |-> d[b]] = [b \in 1 .. n |-> dom[b]]
  BY <1>1
<1>3. d = [b \in 1 .. n |-> d[b]] /\ dom = [b \in 1 .. n |-> dom[b]]
  OBVIOUS
<1> QED BY <1>2, <1>3, Zenon

\* A sweep: claims remain, fewer, and where it changes nothing every block has
\* what its predecessors agree on.
LEMMA SweepShrinks ==
  ASSUME NEW n, NEW preds, IsFlow(n, preds), NEW dom \in Claims(preds)
  PROVE  /\ Swept(preds, dom) \in Claims(preds)
         /\ Within(preds, Swept(preds, dom), dom)
         /\ Swept(preds, dom)[1] = dom[1]
         /\ Swept(preds, dom) = dom =>
              \A i \in 1 .. n : i # 1 => dom[i] = MeetAll(preds, dom, i)
<1>0. n \in Nat /\ n >= 1 /\ DOMAIN preds = 1 .. n
  BY FlowParts
<1>1. PICK U : /\ U[0] = dom
               /\ \A i \in 1 .. n : U[i] = AtBlock(preds, U[i - 1], i)
               /\ Swept(preds, dom) = U[n]
  BY SweepDefined
<1> DEFINE S == {m \in 0 .. n : /\ U[m] \in Claims(preds) /\ Within(preds, U[m], dom)
                                /\ U[m][1] = dom[1]}
<1>2. 0 \in S
  <2>1. 0 \in 0 .. n /\ Within(preds, dom, dom)
    BY <1>0 DEF Within
  <2> QED BY <1>1, <2>1
<1>3. ASSUME NEW m \in 0 .. n - 1, m \in S PROVE m + 1 \in S
  <2>1. m + 1 \in 1 .. n /\ m + 1 \in 0 .. n /\ (m + 1) - 1 = m
    BY <1>0
  <2>2. U[m + 1] = AtBlock(preds, U[m], m + 1)
    BY <1>1, <2>1
  <2>3. U[m] \in Claims(preds) /\ Within(preds, U[m], dom) /\ U[m][1] = dom[1]
    BY <1>3
  <2>4. /\ U[m + 1] \in Claims(preds) /\ Within(preds, U[m + 1], U[m])
        /\ U[m + 1][1] = U[m][1]
    BY <2>1, <2>2, <2>3, BlockShrinks
  <2>5. Within(preds, U[m + 1], dom)
    BY <2>3, <2>4 DEF Within
  <2> QED BY <2>1, <2>3, <2>4, <2>5
<1>4. 0 .. n \subseteq S
  <2>1. 0 \in Int /\ n \in Int
    BY <1>0
  <2> HIDE DEF S
  <2> QED BY <1>2, <1>3, <2>1, InductionUpTo, Zenon
<1>5. \A m \in 0 .. n : /\ U[m] \in Claims(preds) /\ Within(preds, U[m], dom)
                        /\ U[m][1] = dom[1]
  BY <1>4
<1> HIDE DEF S
<1>6. ASSUME U[n] = dom, NEW i \in 1 .. n, i # 1 PROVE dom[i] = MeetAll(preds, dom, i)
  <2> DEFINE V == {m \in 0 .. n : Within(preds, dom, U[m])}
  <2>1. n \in V
    BY <1>0, <1>6 DEF Within
  <2>2. ASSUME NEW m \in 0 .. n - 1, m + 1 \in V PROVE m \in V
    <3>1. m \in 0 .. n /\ m + 1 \in 1 .. n /\ (m + 1) - 1 = m
      BY <1>0
    <3>2. Within(preds, U[m + 1], U[m])
      BY <1>1, <1>5, <3>1, BlockShrinks
    <3>3. Within(preds, dom, U[m + 1])
      BY <2>2
    <3>4. Within(preds, dom, U[m])
      BY <3>2, <3>3 DEF Within
    <3> QED BY <3>1, <3>4
  <2>3. 0 .. n \subseteq V
    <3>1. 0 \in Int /\ n \in Int
      BY <1>0
    <3> HIDE DEF V
    <3> QED BY <2>1, <2>2, <3>1, InductionDownFrom, Zenon
  <2>4. ASSUME NEW m \in 0 .. n PROVE U[m] = dom
    <3>0. m \in V
      BY <2>3
    <3>1. U[m] \in [1 .. n -> SUBSET (1 .. n)] /\ dom \in [1 .. n -> SUBSET (1 .. n)]
      BY <1>5, ClaimsType
    <3>2. Within(preds, U[m], dom) /\ Within(preds, dom, U[m])
      BY <1>5, <3>0
    <3> QED BY <1>0, <3>1, <3>2, SameClaims
  <2>5. i \in 0 .. n /\ i - 1 \in 0 .. n
    BY <1>0
  <2>6. dom = AtBlock(preds, dom, i)
    BY <1>1, <2>4, <2>5
  <2>7. AtBlock(preds, dom, i)[i] = MeetAll(preds, dom, i)
    BY <1>6, BlockShrinks
  <2> QED BY <2>6, <2>7
<1>7. n \in 0 .. n
  BY <1>0
<1> QED BY <1>1, <1>5, <1>6, <1>7

----------------------------------------------------------------------------
(* The sweeps come to an end.                                              *)

\* What is claimed in all, as pairs.
Pairs(n, dom) == {e \in (1 .. n) \X (1 .. n) : e[2] \in dom[e[1]]}

LEMMA FewerPairs ==
  ASSUME NEW n \in Nat, NEW d \in [1 .. n -> SUBSET (1 .. n)],
         NEW dom \in [1 .. n -> SUBSET (1 .. n)], \A b \in 1 .. n : d[b] \subseteq dom[b]
  PROVE  /\ Cardinality(Pairs(n, d)) \in Nat
         /\ Cardinality(Pairs(n, d)) <= Cardinality((1 .. n) \X (1 .. n))
         /\ d # dom => Cardinality(Pairs(n, d)) < Cardinality(Pairs(n, dom))
<1> DEFINE P == (1 .. n) \X (1 .. n)
<1>1. IsFiniteSet(P)
  <2>1. IsFiniteSet(1 .. n)
    BY FS_Interval
  <2> QED BY <2>1, FS_Product
<1>2. Pairs(n, d) \in SUBSET P /\ Pairs(n, dom) \in SUBSET P
  BY DEF Pairs
<1>3. Pairs(n, d) \in SUBSET Pairs(n, dom)
  BY DEF Pairs
<1>4. d # dom => Pairs(n, d) # Pairs(n, dom)
  <2> SUFFICES ASSUME d # dom PROVE Pairs(n, d) # Pairs(n, dom)
    OBVIOUS
  <2>1. PICK b \in 1 .. n : d[b] # dom[b]
    OBVIOUS
  <2>2. PICK c \in 1 .. n : c \in dom[b] /\ c \notin d[b]
    BY <2>1
  <2>3. <<b, c>> \in Pairs(n, dom) /\ <<b, c>> \notin Pairs(n, d)
    BY <2>2 DEF Pairs
  <2> QED BY <2>3
<1> HIDE DEF P
<1>5. IsFiniteSet(Pairs(n, dom)) /\ IsFiniteSet(Pairs(n, d))
  BY <1>1, <1>2, FS_Subset
<1>6. /\ Cardinality(Pairs(n, d)) \in Nat /\ Cardinality(Pairs(n, dom)) \in Nat
      /\ Cardinality(P) \in Nat
  BY <1>1, <1>5, FS_CardinalityType
<1>7. Cardinality(Pairs(n, d)) <= Cardinality(P)
  BY <1>1, <1>2, FS_Subset
<1>8. /\ Cardinality(Pairs(n, d)) <= Cardinality(Pairs(n, dom))
      /\ Pairs(n, d) # Pairs(n, dom) => Cardinality(Pairs(n, d)) # Cardinality(Pairs(n, dom))
  BY <1>3, <1>5, FS_Subset
<1> QED BY <1>4, <1>6, <1>7, <1>8 DEF P

\* The sets the sweeps begin with.
Greatests(n) == [i \in 1 .. n |-> IF i = 1 THEN {1} ELSE 1 .. n]

\* What the sweeps leave changes no more, and has what each of them keeps.
LEMMA SweepsEnd ==
  ASSUME NEW n, NEW preds, IsFlow(n, preds),
         NEW I \in SUBSET Claims(preds), \A dom \in I : Swept(preds, dom) \in I,
         Greatests(n) \in I
  PROVE  /\ DominatorsOf(preds) \in I
         /\ Swept(preds, DominatorsOf(preds)) = DominatorsOf(preds)
<1> DEFINE D == Claims(preds)
           next == [dom \in D |-> Swept(preds, dom)]
           M == [dom \in D |-> Cardinality(Pairs(n, dom))]
           N == Cardinality((1 .. n) \X (1 .. n))
           f == CHOOSE F : F = [dom \in Claims(preds) |->
                  LET swept == Swept(preds, dom) IN IF swept = dom THEN dom ELSE F[swept]]
<1>0. n \in Nat /\ n >= 1 /\ DOMAIN preds = 1 .. n
  BY FlowParts
<1>1. Shrinks(D, next, M, N)
  <2>1. ASSUME NEW dom \in D
        PROVE  /\ Swept(preds, dom) \in D
               /\ Cardinality(Pairs(n, dom)) \in Nat
               /\ Cardinality(Pairs(n, dom)) <= N
               /\ Swept(preds, dom) # dom =>
                    Cardinality(Pairs(n, Swept(preds, dom))) < Cardinality(Pairs(n, dom))
    <3>1. Swept(preds, dom) \in D /\ Within(preds, Swept(preds, dom), dom)
      BY SweepShrinks
    <3>2. /\ dom \in [1 .. n -> SUBSET (1 .. n)]
          /\ Swept(preds, dom) \in [1 .. n -> SUBSET (1 .. n)]
      BY <3>1, ClaimsType
    <3>3. \A b \in 1 .. n : Swept(preds, dom)[b] \subseteq dom[b]
      BY <1>0, <3>1 DEF Within
    <3>4. Cardinality(Pairs(n, dom)) \in Nat /\ Cardinality(Pairs(n, dom)) <= N
      <4>1. \A b \in 1 .. n : dom[b] \subseteq dom[b]
        OBVIOUS
      <4> QED BY <1>0, <3>2, <4>1, FewerPairs
    <3>5. Swept(preds, dom) # dom =>
             Cardinality(Pairs(n, Swept(preds, dom))) < Cardinality(Pairs(n, dom))
      BY <1>0, <3>2, <3>3, FewerPairs
    <3> QED BY <3>1, <3>4, <3>5
  <2>2. next \in [D -> D] /\ M \in [D -> Nat]
    BY <2>1
  <2>3. N \in Nat
    <3>1. IsFiniteSet((1 .. n) \X (1 .. n))
      <4>1. IsFiniteSet(1 .. n)
        BY FlowParts
      <4> QED BY <4>1, FS_Product
    <3> QED BY <3>1, FS_CardinalityType
  <2>4. \A dom \in D : M[dom] <= N /\ (next[dom] # dom => M[next[dom]] < M[dom])
    <3> HIDE DEF D, N
    <3> QED BY <2>1
  <2> HIDE DEF D, next, M, N
  <2> QED BY <2>2, <2>3, <2>4 DEF Shrinks
<1>2. Repeats(D, next, f)
  <2>1. \A F : Repeats(D, next, F) <=>
               F = [dom \in Claims(preds) |->
                  LET swept == Swept(preds, dom) IN IF swept = dom THEN dom ELSE F[swept]]
    <3> TAKE F
    <3>1. \A dom \in D : next[dom] = Swept(preds, dom)
      OBVIOUS
    <3>2. [dom \in D |-> IF next[dom] = dom THEN dom ELSE F[next[dom]]]
            = [dom \in D |-> IF Swept(preds, dom) = dom THEN dom ELSE F[Swept(preds, dom)]]
      <4> HIDE DEF next
      <4> QED BY <3>1
    <3> HIDE DEF next
    <3> QED BY <3>2 DEF Repeats
  <2>2. \E F : Repeats(D, next, F)
    <3> HIDE DEF D, next, M, N
    <3> QED BY <1>1, RepetitionExists
  <2> HIDE DEF D, next
  <2> QED BY <2>1, <2>2, Zenon
<1>3. DominatorsOf(preds) = f[Greatests(n)]
  BY <1>0, Zenon DEF DominatorsOf, Greatests
<1>4. \A dom \in I : next[dom] \in I
  OBVIOUS
<1>5. f[Greatests(n)] \in I /\ next[f[Greatests(n)]] = f[Greatests(n)]
  <2> HIDE DEF f, next, D, M, N
  <2> QED BY <1>1, <1>2, <1>4, RepetitionEnds DEF D
<1> HIDE DEF f
<1> QED BY <1>3, <1>5

LEMMA StartIsClaimed ==
  ASSUME NEW n, NEW preds, IsFlow(n, preds)
  PROVE  Greatests(n) \in Claims(preds)
<1>0. n \in Nat /\ n >= 1 /\ DOMAIN preds = 1 .. n
  BY FlowParts
<1>1. Greatests(n) \in [1 .. n -> SUBSET (1 .. n)]
  BY <1>0 DEF Greatests
<1>2. ASSUME NEW i \in 1 .. n, i # 1 PROVE MeetAll(preds, Greatests(n), i) \subseteq Greatests(n)[i]
  <2>1. Greatests(n)[i] = 1 .. n
    BY <1>2 DEF Greatests
  <2>2. MeetAll(preds, Greatests(n), i) \subseteq 1 .. n
    BY <1>0 DEF MeetAll
  <2> QED BY <2>1, <2>2
<1> QED BY <1>0, <1>1, <1>2 DEF Claims

\* What the sweeps leave: the entry has itself, every other block what its
\* predecessors agree on, and nothing that could be so has more.
LEMMA SweepsLeaveTheGreatest ==
  ASSUME NEW n, NEW preds, IsFlow(n, preds)
  PROVE  /\ DominatorsOf(preds) \in [1 .. n -> SUBSET (1 .. n)]
         /\ DominatorsOf(preds)[1] = {1}
         /\ \A i \in 1 .. n : i # 1 =>
              DominatorsOf(preds)[i] = MeetAll(preds, DominatorsOf(preds), i)
         /\ \A most \in [1 .. n -> SUBSET (1 .. n)] :
              /\ most[1] \subseteq {1}
              /\ \A i \in 1 .. n : i # 1 => most[i] \subseteq MeetAll(preds, most, i)
              => Within(preds, most, DominatorsOf(preds))
<1>0. n \in Nat /\ n >= 1 /\ DOMAIN preds = 1 .. n /\ 1 \in 1 .. n
  BY FlowParts
<1>1. Greatests(n) \in Claims(preds) /\ Greatests(n)[1] = {1}
  BY <1>0, StartIsClaimed DEF Greatests
<1>2. /\ DominatorsOf(preds) \in Claims(preds) /\ DominatorsOf(preds)[1] = {1}
      /\ Swept(preds, DominatorsOf(preds)) = DominatorsOf(preds)
  <2> DEFINE I == {dom \in Claims(preds) : dom[1] = {1}}
  <2>1. I \in SUBSET Claims(preds) /\ Greatests(n) \in I
    BY <1>1
  <2>2. \A dom \in I : Swept(preds, dom) \in I
    BY SweepShrinks
  <2>3. DominatorsOf(preds) \in I /\ Swept(preds, DominatorsOf(preds)) = DominatorsOf(preds)
    <3> HIDE DEF I
    <3> QED BY <2>1, <2>2, SweepsEnd
  <2> QED BY <2>3
<1>3. ASSUME NEW most \in [1 .. n -> SUBSET (1 .. n)], most[1] \subseteq {1},
             \A i \in 1 .. n : i # 1 => most[i] \subseteq MeetAll(preds, most, i)
      PROVE  Within(preds, most, DominatorsOf(preds))
  <2> DEFINE I == {dom \in Claims(preds) : Within(preds, most, dom)}
  <2>1. I \in SUBSET Claims(preds)
    OBVIOUS
  <2>2. Greatests(n) \in I
    <3>1. \A b \in 1 .. n : most[b] \subseteq Greatests(n)[b]
      BY <1>3 DEF Greatests
    <3> QED BY <1>0, <1>1, <3>1 DEF Within
  <2>3. ASSUME NEW dom \in I PROVE Swept(preds, dom) \in I
    <3>1. PICK U : /\ U[0] = dom
                   /\ \A i \in 1 .. n : U[i] = AtBlock(preds, U[i - 1], i)
                   /\ Swept(preds, dom) = U[n]
      BY SweepDefined
    <3> DEFINE S == {m \in 0 .. n : U[m] \in I}
    <3>2. 0 \in S
      <4>1. 0 \in 0 .. n
        BY <1>0
      <4> HIDE DEF I
      <4> QED BY <3>1, <4>1
    <3>3. ASSUME NEW m \in 0 .. n - 1, m \in S PROVE m + 1 \in S
      <4>1. m + 1 \in 1 .. n /\ m + 1 \in 0 .. n /\ (m + 1) - 1 = m
        BY <1>0
      <4>2. U[m + 1] = AtBlock(preds, U[m], m + 1)
        BY <3>1, <4>1
      <4>3. U[m] \in Claims(preds) /\ Within(preds, most, U[m])
        BY <3>3
      <4>4. U[m + 1] \in Claims(preds)
        BY <4>1, <4>2, <4>3, BlockShrinks
      <4>5. \A b \in 1 .. n : most[b] \subseteq U[m][b]
        BY <1>0, <4>3, Zenon DEF Within
      <4>6. ASSUME NEW b \in 1 .. n PROVE most[b] \subseteq U[m + 1][b]
        <5>1. CASE b # m + 1
          <6>1. U[m + 1][b] = U[m][b]
            BY <4>1, <4>2, <4>3, <5>1, BlockShrinks
          <6> QED BY <4>5, <6>1
        <5>2. CASE b = 1
          <6>1. U[m + 1][1] = U[m][1]
            BY <4>1, <4>2, <4>3, BlockShrinks
          <6> QED BY <4>5, <5>2, <6>1
        <5>3. CASE b = m + 1 /\ b # 1
          <6>1. U[m + 1][b] = MeetAll(preds, U[m], b)
            BY <4>1, <4>2, <4>3, <5>3, BlockShrinks
          <6>2. MeetAll(preds, most, b) \subseteq MeetAll(preds, U[m], b)
            BY <4>3, MeetShrinks
          <6> QED BY <1>3, <5>3, <6>1, <6>2
        <5> QED BY <5>1, <5>2, <5>3
      <4>7. Within(preds, most, U[m + 1])
        BY <1>0, <4>6, Zenon DEF Within
      <4> QED BY <4>1, <4>4, <4>7
    <3>4. 0 .. n \subseteq S
      <4>1. 0 \in Int /\ n \in Int
        BY <1>0
      <4> HIDE DEF S
      <4> QED BY <3>2, <3>3, <4>1, InductionUpTo, Zenon
    <3>5. n \in S
      BY <1>0, <3>4
    <3> HIDE DEF I
    <3> QED BY <3>1, <3>5
  <2>4. DominatorsOf(preds) \in I
    <3> HIDE DEF I
    <3> QED BY <2>1, <2>2, <2>3, SweepsEnd
  <2> QED BY <2>4
<1>4. \A i \in 1 .. n : i # 1 =>
        DominatorsOf(preds)[i] = MeetAll(preds, DominatorsOf(preds), i)
  BY <1>2, SweepShrinks
<1>5. DominatorsOf(preds) \in [1 .. n -> SUBSET (1 .. n)]
  BY <1>2, ClaimsType
<1> QED BY <1>2, <1>3, <1>4, <1>5

----------------------------------------------------------------------------
(* What they leave is what the paths say.                                  *)

\* The predecessors and the successors are the same edges.
IsGraph(n, preds, succs) ==
  /\ IsFlow(n, preds) /\ succs \in [1 .. n -> SUBSET (1 .. n)]
  /\ \A i, j \in 1 .. n : j \in succs[i] <=> \E k \in DOMAIN preds[j] : preds[j][k] = i

\* The blocks with a path from the entry, and those with one that avoids d.
Reached(succs) == ReachVia(succs, {1}, {})
Avoiding(succs, d) == ReachVia(succs, {1} \ {d}, {d})

LEMMA GraphParts ==
  ASSUME NEW n, NEW preds, NEW succs, IsGraph(n, preds, succs)
  PROVE  /\ IsFlow(n, preds) /\ succs \in [1 .. n -> SUBSET (1 .. n)]
         /\ IsReach(1 .. n, succs, {1}, {}, Reached(succs))
         /\ \A d \in 1 .. n : IsReach(1 .. n, succs, {1} \ {d}, {d}, Avoiding(succs, d))
         /\ 1 \in 1 .. n /\ DOMAIN preds = 1 .. n /\ DOMAIN succs = 1 .. n
         /\ \A i \in 1 .. n : succs[i] \subseteq 1 .. n
         /\ \A i, j \in 1 .. n : j \in succs[i] <=> \E k \in DOMAIN preds[j] : preds[j][k] = i
<1>1. IsFlow(n, preds) /\ succs \in [1 .. n -> SUBSET (1 .. n)]
  BY DEF IsGraph
<1>2. IsFiniteSet(1 .. n) /\ 1 \in 1 .. n /\ DOMAIN preds = 1 .. n
  BY <1>1, FlowParts
<1>3. {1} \in SUBSET (1 .. n) /\ \A d \in 1 .. n : {1} \ {d} \in SUBSET (1 .. n)
  BY <1>2
<1>4. IsReach(1 .. n, succs, {1}, {}, Reached(succs))
  BY <1>1, <1>2, <1>3, ReachLeast DEF Reached
<1>5. \A d \in 1 .. n : IsReach(1 .. n, succs, {1} \ {d}, {d}, Avoiding(succs, d))
  BY <1>1, <1>2, <1>3, ReachLeast DEF Avoiding
<1> QED BY <1>1, <1>2, <1>4, <1>5 DEF IsGraph

\* Nothing is claimed to dominate a block that a path avoids.
LEMMA ClaimsHold ==
  ASSUME NEW n, NEW preds, NEW succs, IsGraph(n, preds, succs),
         NEW b \in 1 .. n, NEW c \in DominatorsOf(preds)[b]
  PROVE  c \in 1 .. n /\ b \notin Avoiding(succs, c)
<1> DEFINE dom == DominatorsOf(preds)
           T == {i \in 1 .. n : c \notin dom[i]}
<1>0. /\ dom \in [1 .. n -> SUBSET (1 .. n)] /\ dom[1] = {1}
      /\ \A i \in 1 .. n : i # 1 => dom[i] = MeetAll(preds, dom, i)
  BY GraphParts, SweepsLeaveTheGreatest
<1> HIDE DEF dom
<1>1. c \in 1 .. n
  BY <1>0 DEF dom
<1>2. {1} \ {c} \subseteq T
  BY <1>0, GraphParts
<1>3. ClosedBut(succs, T, {c})
  <2> SUFFICES ASSUME NEW i \in T, NEW j \in succs[i], j # c PROVE j \in T
    BY DEF ClosedBut
  <2>1. j \in 1 .. n /\ i \in 1 .. n /\ c \notin dom[i]
    <3>1. \A m \in 1 .. n : succs[m] \subseteq 1 .. n
      BY GraphParts
    <3> QED BY <3>1
  <2>2. CASE j = 1
    BY <1>0, <2>1, <2>2
  <2>3. CASE j # 1
    <3>1. PICK k \in DOMAIN preds[j] : preds[j][k] = i
      BY <2>1, GraphParts
    <3>2. dom[j] = MeetAll(preds, dom, j)
      BY <1>0, <2>1, <2>3
    <3>3. c \notin MeetAll(preds, dom, j)
      BY <2>1, <3>1 DEF MeetAll
    <3> QED BY <2>1, <3>2, <3>3
  <2> QED BY <2>2, <2>3
<1>4. Avoiding(succs, c) \subseteq T
  <2>1. T \in SUBSET (1 .. n)
    OBVIOUS
  <2>2. IsReach(1 .. n, succs, {1} \ {c}, {c}, Avoiding(succs, c))
    BY <1>1, GraphParts
  <2> HIDE DEF T
  <2> QED BY <1>2, <1>3, <2>1, <2>2 DEF IsReach
<1>5. b \notin T
  BY DEF dom
<1> QED BY <1>1, <1>4, <1>5

\* Once control gets to every block, whatever dominates a block is claimed.
LEMMA AllIsClaimed ==
  ASSUME NEW n, NEW preds, NEW succs, IsGraph(n, preds, succs), Reached(succs) = 1 .. n,
         NEW b \in 1 .. n, NEW d \in 1 .. n, b \notin Avoiding(succs, d)
  PROVE  d \in DominatorsOf(preds)[b]
<1> DEFINE most == [i \in 1 .. n |-> {c \in 1 .. n : i \notin Avoiding(succs, c)}]
<1>1. most \in [1 .. n -> SUBSET (1 .. n)]
  OBVIOUS
<1>2. most[1] \subseteq {1}
  <2> SUFFICES ASSUME NEW c \in 1 .. n, 1 \notin Avoiding(succs, c) PROVE c = 1
    BY GraphParts
  <2>1. {1} \ {c} \subseteq Avoiding(succs, c)
    BY GraphParts DEF IsReach
  <2> QED BY <2>1
<1>3. ASSUME NEW i \in 1 .. n, i # 1 PROVE most[i] \subseteq MeetAll(preds, most, i)
  <2>1. preds[i] # <<>>
    <3> SUFFICES ASSUME preds[i] = <<>> PROVE FALSE
      OBVIOUS
    <3> DEFINE T == (1 .. n) \ {i}
    <3>1. \A j \in 1 .. n : i \notin succs[j]
      BY GraphParts
    <3>2. ClosedBut(succs, T, {})
      <4>1. \A j \in 1 .. n : succs[j] \subseteq 1 .. n
        BY GraphParts
      <4> QED BY <3>1, <4>1 DEF ClosedBut
    <3>3. T \in SUBSET (1 .. n) /\ {1} \subseteq T
      BY <1>3, GraphParts
    <3>4. Reached(succs) \subseteq T
      <4> HIDE DEF T
      <4> QED BY <3>2, <3>3, GraphParts DEF IsReach
    <3> QED BY <3>4
  <2> SUFFICES ASSUME NEW c \in most[i], c # i PROVE c \in MeetAll(preds, most, i)
    BY DEF MeetAll
  <2>2. c \in 1 .. n /\ i \notin Avoiding(succs, c)
    OBVIOUS
  <2>3. ASSUME NEW k \in DOMAIN preds[i] PROVE c \in most[preds[i][k]]
    <3>1. preds[i][k] \in 1 .. n
      BY GraphParts, FlowParts
    <3>2. i \in succs[preds[i][k]]
      BY <3>1, GraphParts
    <3>3. ClosedBut(succs, Avoiding(succs, c), {c})
      BY <2>2, GraphParts DEF IsReach
    <3>4. preds[i][k] \notin Avoiding(succs, c)
      BY <2>2, <3>2, <3>3 DEF ClosedBut
    <3> QED BY <2>2, <3>1, <3>4
  <2>4. DOMAIN preds = 1 .. n
    BY GraphParts
  <2> HIDE DEF most
  <2> QED BY <2>1, <2>2, <2>3, <2>4 DEF MeetAll
<1>4. Within(preds, most, DominatorsOf(preds))
  <2> HIDE DEF most
  <2> QED BY <1>1, <1>2, <1>3, GraphParts, SweepsLeaveTheGreatest
<1>5. most[b] \subseteq DominatorsOf(preds)[b]
  <2>1. DOMAIN preds = 1 .. n
    BY GraphParts
  <2> HIDE DEF most
  <2> QED BY <1>4, <2>1 DEF Within
<1> QED BY <1>5

----------------------------------------------------------------------------
(* They make a tree.                                                       *)

\* Every block dominates itself, and the entry all of them.
LEMMA SelfAndEntry ==
  ASSUME NEW n, NEW preds, NEW succs, IsGraph(n, preds, succs), NEW b \in 1 .. n
  PROVE  b \notin Avoiding(succs, b) /\ b \notin Avoiding(succs, 1)
<1>1. \A i \in 1 .. n : succs[i] \subseteq 1 .. n
  BY GraphParts
<1>2. 1 \in 1 .. n
  BY GraphParts
<1>3. b \notin Avoiding(succs, b)
  <2> DEFINE T == (1 .. n) \ {b}
  <2>1. T \in SUBSET (1 .. n) /\ {1} \ {b} \subseteq T /\ ClosedBut(succs, T, {b})
    BY <1>1, <1>2 DEF ClosedBut
  <2>2. Avoiding(succs, b) \subseteq T
    <3> HIDE DEF T
    <3> QED BY <2>1, GraphParts DEF IsReach
  <2> QED BY <2>2
<1>4. b \notin Avoiding(succs, 1)
  <2>1. {1} \ {1} \subseteq {} /\ ClosedBut(succs, {}, {1})
    BY DEF ClosedBut
  <2>2. Avoiding(succs, 1) \subseteq {}
    BY <1>2, <2>1, GraphParts DEF IsReach
  <2> QED BY <2>2
<1> QED BY <1>3, <1>4

\* The entry is among the blocks that can be got to without d, unless it is d;
\* and so is what follows one of those.
LEMMA WayRound ==
  ASSUME NEW n, NEW preds, NEW succs, IsGraph(n, preds, succs), NEW d \in 1 .. n
  PROVE  /\ d # 1 => 1 \in Avoiding(succs, d)
         /\ Avoiding(succs, d) \subseteq 1 .. n
         /\ \A i \in Avoiding(succs, d), j \in 1 .. n :
              j \in succs[i] /\ j # d => j \in Avoiding(succs, d)
<1>1. IsReach(1 .. n, succs, {1} \ {d}, {d}, Avoiding(succs, d))
  BY GraphParts
<1> QED BY <1>1 DEF IsReach, ClosedBut

\* A set that holds the entry and what follows its blocks holds all that control
\* gets to.
LEMMA AllReached ==
  ASSUME NEW n, NEW preds, NEW succs, IsGraph(n, preds, succs), Reached(succs) = 1 .. n,
         NEW T \in SUBSET (1 .. n), 1 \in T,
         \A i \in T, j \in 1 .. n : j \in succs[i] => j \in T
  PROVE  T = 1 .. n
<1>1. \A i \in 1 .. n : succs[i] \subseteq 1 .. n
  BY GraphParts
<1>2. ClosedBut(succs, T, {})
  BY <1>1 DEF ClosedBut
<1>3. IsReach(1 .. n, succs, {1}, {}, Reached(succs))
  BY GraphParts
<1> QED BY <1>2, <1>3 DEF IsReach

\* No two blocks dominate each other.
LEMMA NotEachOther ==
  ASSUME NEW n, NEW preds, NEW succs, IsGraph(n, preds, succs), Reached(succs) = 1 .. n,
         NEW p \in 1 .. n, NEW q \in 1 .. n,
         p \notin Avoiding(succs, q), q \notin Avoiding(succs, p)
  PROVE  p = q
<1> SUFFICES ASSUME p # q PROVE FALSE
  OBVIOUS
<1> DEFINE T == Avoiding(succs, p) \cap Avoiding(succs, q)
<1>1. T \in SUBSET (1 .. n) /\ 1 \in T
  BY WayRound
<1>2. \A i \in T, j \in 1 .. n : j \in succs[i] => j \in T
  BY WayRound
<1>3. T = 1 .. n
  <2> HIDE DEF T
  <2> QED BY <1>1, <1>2, AllReached
<1> QED BY <1>3

\* Of two that dominate a block one dominates the other.
LEMMA OneAboveTheOther ==
  ASSUME NEW n, NEW preds, NEW succs, IsGraph(n, preds, succs), Reached(succs) = 1 .. n,
         NEW b \in 1 .. n, NEW p \in 1 .. n, NEW q \in 1 .. n,
         b \notin Avoiding(succs, p), b \notin Avoiding(succs, q)
  PROVE  p \notin Avoiding(succs, q) \/ q \notin Avoiding(succs, p)
<1> SUFFICES ASSUME p \in Avoiding(succs, q), q \in Avoiding(succs, p) PROVE FALSE
  OBVIOUS
<1> DEFINE T == Avoiding(succs, p) \cup Avoiding(succs, q)
<1>0. p # q
  BY SelfAndEntry
<1>1. T \in SUBSET (1 .. n) /\ 1 \in T
  BY <1>0, WayRound
<1>2. \A i \in T, j \in 1 .. n : j \in succs[i] => j \in T
  BY WayRound
<1>3. T = 1 .. n
  <2> HIDE DEF T
  <2> QED BY <1>1, <1>2, AllReached
<1> QED BY <1>3

\* What dominates a dominator dominates.
LEMMA AboveAbove ==
  ASSUME NEW n, NEW preds, NEW succs, IsGraph(n, preds, succs),
         NEW b \in 1 .. n, NEW p \in 1 .. n, NEW q \in 1 .. n,
         p \notin Avoiding(succs, q), b \notin Avoiding(succs, p)
  PROVE  b \notin Avoiding(succs, q)
<1> DEFINE T == Avoiding(succs, q) \cap Avoiding(succs, p)
<1>1. {1} \ {q} \subseteq T /\ T \in SUBSET (1 .. n)
  BY WayRound
<1>2. \A i \in 1 .. n : succs[i] \subseteq 1 .. n
  BY GraphParts
<1>3. ClosedBut(succs, T, {q})
  BY <1>2, WayRound DEF ClosedBut
<1>4. Avoiding(succs, q) \subseteq T
  <2>1. IsReach(1 .. n, succs, {1} \ {q}, {q}, Avoiding(succs, q))
    BY GraphParts
  <2> HIDE DEF T
  <2> QED BY <1>1, <1>3, <2>1 DEF IsReach
<1> QED BY <1>4

\* Every block but the entry has one parent.
LEMMA OneParent ==
  ASSUME NEW n, NEW preds, NEW succs, IsGraph(n, preds, succs), Reached(succs) = 1 .. n,
         NEW dom \in [1 .. n -> SUBSET (1 .. n)],
         \A i, d \in 1 .. n : d \in dom[i] <=> i \notin Avoiding(succs, d),
         NEW b \in 1 .. n, b # 1
  PROVE  \E p \in 1 .. n : /\ IsParent(dom, p, b)
                           /\ \A q \in 1 .. n : IsParent(dom, q, b) => q = p
<1>0. 1 \in 1 .. n /\ n \in Nat /\ IsFiniteSet(1 .. n) /\ Cardinality(1 .. n) \in Nat
  BY GraphParts, FlowParts, FS_CardinalityType
<1>1. \A i \in 1 .. n : IsFiniteSet(dom[i])
  BY <1>0, FS_Subset
<1>2. \A i \in 1 .. n : Cardinality(dom[i]) \in 0 .. Cardinality(1 .. n)
  <2> TAKE i \in 1 .. n
  <2>1. dom[i] \in SUBSET (1 .. n)
    OBVIOUS
  <2>2. Cardinality(dom[i]) <= Cardinality(1 .. n) /\ Cardinality(dom[i]) \in Nat
    BY <1>0, <1>1, <2>1, FS_Subset, FS_CardinalityType
  <2> QED BY <1>0, <2>2
<1> DEFINE S == dom[b] \ {b}
           Sizes == {Cardinality(dom[p]) : p \in S}
<1>3. 1 \in S
  <2>1. b \notin Avoiding(succs, 1)
    BY SelfAndEntry
  <2> QED BY <1>0, <2>1
<1>4. S \in SUBSET (1 .. n)
  OBVIOUS
<1>5. PICK p \in S : \A q \in S : Cardinality(dom[q]) <= Cardinality(dom[p])
  <2>1. Sizes \in SUBSET (0 .. Cardinality(1 .. n)) /\ Sizes # {}
    <3> HIDE DEF S
    <3> QED BY <1>2, <1>3, <1>4
  <2>2. PICK g \in Sizes : \A k \in Sizes : k <= g
    <3>1. 0 \in Int /\ Cardinality(1 .. n) \in Int
      BY <1>0
    <3> HIDE DEF Sizes
    <3> QED BY <2>1, <3>1, Greatest
  <2> HIDE DEF S
  <2> QED BY <2>2
<1>6. p \in 1 .. n
  OBVIOUS
<1>7. ASSUME NEW q \in S PROVE q \in dom[p]
  <2>1. q \in 1 .. n /\ b \notin Avoiding(succs, q) /\ b \notin Avoiding(succs, p)
    BY <1>6
  <2>2. CASE p \notin Avoiding(succs, q)
    BY <1>6, <2>1, <2>2
  <2>3. CASE q \notin Avoiding(succs, p) /\ p \in Avoiding(succs, q)
    <3>1. dom[p] \in SUBSET dom[q]
      <4> SUFFICES ASSUME NEW c \in dom[p] PROVE c \in dom[q]
        OBVIOUS
      <4>1. c \in 1 .. n /\ p \notin Avoiding(succs, c)
        BY <1>6
      <4>2. q \notin Avoiding(succs, c)
        BY <1>6, <2>1, <2>3, <4>1, AboveAbove
      <4> QED BY <2>1, <4>1, <4>2
    <3>2. q \in dom[q] /\ q \notin dom[p]
      <4>1. q \notin Avoiding(succs, q)
        BY <2>1, SelfAndEntry
      <4> QED BY <1>6, <2>1, <2>3, <4>1
    <3>3. Cardinality(dom[p]) <= Cardinality(dom[q]) /\ Cardinality(dom[p]) # Cardinality(dom[q])
      <4>1. IsFiniteSet(dom[q]) /\ dom[p] # dom[q]
        BY <1>1, <2>1, <3>2
      <4> QED BY <3>1, <4>1, FS_Subset
    <3>4. Cardinality(dom[q]) <= Cardinality(dom[p])
      BY <1>5
    <3>5. Cardinality(dom[p]) \in Nat /\ Cardinality(dom[q]) \in Nat
      BY <1>2, <1>6, <2>1
    <3> QED BY <3>3, <3>4, <3>5
  <2>4. p \notin Avoiding(succs, q) \/ q \notin Avoiding(succs, p)
    BY <1>6, <2>1, OneAboveTheOther
  <2> QED BY <2>2, <2>3, <2>4
<1>8. IsParent(dom, p, b)
  BY <1>7 DEF IsParent
<1>9. ASSUME NEW q \in 1 .. n, IsParent(dom, q, b) PROVE q = p
  <2>1. q \in dom[p] /\ p \in dom[q]
    BY <1>8, <1>9 DEF IsParent
  <2>2. p \notin Avoiding(succs, q) /\ q \notin Avoiding(succs, p)
    BY <1>6, <2>1
  <2> QED BY <1>6, <2>2, NotEachOther
<1> QED BY <1>6, <1>8, <1>9

\* The dominators are right in every flow graph whose predecessors and successors
\* are the same edges, whatever loops and unreachable blocks it has.
THEOREM DominatorsAreExact ==
  ASSUME NEW n, NEW preds, NEW succs, IsGraph(n, preds, succs)
  PROVE  DominatorsRight(preds, succs)
<1> DEFINE claimed == DominatorsOf(preds)
           real == AllDominators(succs)
<1>0. /\ DOMAIN succs = 1 .. n /\ DOMAIN preds = 1 .. n /\ 1 \in 1 .. n
      /\ Reached(succs) \subseteq 1 .. n
  BY GraphParts DEF IsReach
<1>1. claimed \in [1 .. n -> SUBSET (1 .. n)]
  BY GraphParts, SweepsLeaveTheGreatest
<1>2. real = [b \in Reached(succs) |-> {d \in 1 .. n : b \notin Avoiding(succs, d)}]
  BY <1>0 DEF AllDominators, Reached, Avoiding
<1> HIDE DEF claimed, real
<1>3. ASSUME NEW b \in DOMAIN real PROVE claimed[b] \subseteq real[b]
  <2>1. b \in Reached(succs) /\ b \in 1 .. n
    BY <1>0, <1>2
  <2>2. real[b] = {d \in 1 .. n : b \notin Avoiding(succs, d)}
    BY <1>2, <2>1
  <2>3. \A c \in claimed[b] : c \in 1 .. n /\ b \notin Avoiding(succs, c)
    BY <2>1, ClaimsHold DEF claimed
  <2> QED BY <2>2, <2>3
<1>4. ASSUME DOMAIN real = DOMAIN preds
      PROVE  /\ claimed = real
             /\ \A b \in DOMAIN preds \ {1} : \E p \in DOMAIN preds :
                  /\ IsParent(claimed, p, b)
                  /\ \A q \in DOMAIN preds : IsParent(claimed, q, b) => q = p
  <2>1. Reached(succs) = 1 .. n
    BY <1>0, <1>2, <1>4
  <2>2. \A i, d \in 1 .. n : d \in claimed[i] <=> i \notin Avoiding(succs, d)
    BY <2>1, ClaimsHold, AllIsClaimed DEF claimed
  <2>3. \A b \in 1 .. n : claimed[b] = {d \in 1 .. n : b \notin Avoiding(succs, d)}
    BY <1>1, <2>2
  <2>4. claimed = real
    BY <1>1, <1>2, <2>1, <2>3
  <2>5. ASSUME NEW b \in DOMAIN preds \ {1}
        PROVE  \E p \in DOMAIN preds :
                  /\ IsParent(claimed, p, b)
                  /\ \A q \in DOMAIN preds : IsParent(claimed, q, b) => q = p
    BY <1>0, <1>1, <2>1, <2>2, OneParent
  <2> QED BY <2>4, <2>5
<1> QED BY <1>3, <1>4 DEF DominatorsRight, claimed, real
==============================================================================
