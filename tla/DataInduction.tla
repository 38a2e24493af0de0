--------------------------- MODULE DataInduction ---------------------------
(***************************************************************************)
(* Induction over the natural numbers for the proofs of the other modules. *)
(* What is to be proved of a number is given as the set of the numbers it  *)
(* holds for, and not as an operator, so that the provers can apply it.    *)
(***************************************************************************)
EXTENDS Integers, WellFoundedInduction, TLAPS

\* Of any natural numbers there is a least one.
LEMMA Least ==
  ASSUME NEW S \in SUBSET Nat, S # {}
  PROVE  \E n \in S : \A k \in S : n <= k
<1> DEFINE R == OpToRel(<, Nat)
<1>1. IsWellFoundedOn(R, Nat)
  BY NatLessThanWellFounded
<1>2. R = {ss \in Nat \X Nat : ss[1] < ss[2]}
  BY DEF OpToRel
<1> HIDE DEF R
<1>3. PICK n \in S : \A k \in S : <<k, n>> \notin R
  BY <1>1, WFMin
<1>4. \A k \in S : k \in Nat /\ n \in Nat
  BY <1>3
<1>5. \A k \in S : ~ (k < n)
  BY <1>2, <1>3, <1>4
<1>6. \A k \in S : n <= k
  BY <1>4, <1>5
<1> QED BY <1>3, <1>6

\* A set that has zero and with each number the next has all of them.
LEMMA Induction ==
  ASSUME NEW S, 0 \in S, \A n \in Nat : n \in S => n + 1 \in S
  PROVE  Nat \subseteq S
<1> SUFFICES ASSUME Nat \ S # {} PROVE FALSE
  OBVIOUS
<1>1. PICK n \in Nat \ S : \A k \in Nat \ S : n <= k
  BY Least
<1>2. n # 0 /\ n - 1 \in Nat /\ n - 1 \in S
  BY <1>1
<1>3. (n - 1) + 1 \in S
  BY <1>2
<1> QED BY <1>1, <1>3

\* The same up to a bound, and down from one.
LEMMA InductionUpTo ==
  ASSUME NEW S, NEW m \in Int, NEW n \in Int, m <= n => m \in S,
         \A i \in m .. n - 1 : i \in S => i + 1 \in S
  PROVE  m .. n \subseteq S
<1> DEFINE T == {k \in Nat : m + k <= n => m + k \in S}
<1>1. 0 \in T
  OBVIOUS
<1>2. ASSUME NEW k \in Nat, k \in T PROVE k + 1 \in T
  <2>1. CASE m + (k + 1) <= n
    <3>1. m + k \in S /\ m + k \in m .. n - 1
      BY <1>2, <2>1
    <3>2. (m + k) + 1 \in S
      BY <3>1
    <3>3. (m + k) + 1 = m + (k + 1)
      OBVIOUS
    <3> QED BY <3>2, <3>3
  <2> QED BY <2>1
<1> HIDE DEF T
<1>3. Nat \subseteq T
  BY <1>1, <1>2, Induction
<1>4. ASSUME NEW i \in m .. n PROVE i \in S
  <2>1. i - m \in T
    BY <1>3
  <2>2. m + (i - m) = i
    OBVIOUS
  <2> QED BY <2>1, <2>2 DEF T
<1> QED BY <1>4

\* A set that has the upper bound and with each number the one before.
LEMMA InductionDownFrom ==
  ASSUME NEW S, NEW m \in Int, NEW n \in Int, m <= n => n \in S,
         \A i \in m .. n - 1 : i + 1 \in S => i \in S
  PROVE  m .. n \subseteq S
<1> DEFINE T == {k \in Nat : m <= n - k => n - k \in S}
<1>1. 0 \in T
  OBVIOUS
<1>2. ASSUME NEW k \in Nat, k \in T PROVE k + 1 \in T
  <2>1. CASE m <= n - (k + 1)
    <3>1. n - k \in S /\ n - (k + 1) \in m .. n - 1 /\ (n - (k + 1)) + 1 = n - k
      BY <1>2, <2>1
    <3> QED BY <3>1
  <2> QED BY <2>1
<1> HIDE DEF T
<1>3. Nat \subseteq T
  BY <1>1, <1>2, Induction
<1>4. ASSUME NEW i \in m .. n PROVE i \in S
  <2>1. n - i \in T
    BY <1>3
  <2>2. n - (n - i) = i
    OBVIOUS
  <2> QED BY <2>1, <2>2 DEF T
<1> QED BY <1>4

\* The same with all the numbers above for hypothesis.
LEMMA InductionFromAbove ==
  ASSUME NEW S, NEW m \in Int, NEW n \in Int,
         \A i \in m .. n : (\A j \in i + 1 .. n : j \in S) => i \in S
  PROVE  m .. n \subseteq S
<1> DEFINE T == {i \in m .. n : \A j \in i .. n : j \in S}
<1>1. m <= n => n \in T
  <2> SUFFICES ASSUME m <= n PROVE n \in T
    OBVIOUS
  <2>1. n \in S
    <3>1. n \in m .. n /\ \A j \in n + 1 .. n : j \in S
      OBVIOUS
    <3> QED BY <3>1
  <2> QED BY <2>1
<1>2. ASSUME NEW i \in m .. n - 1, i + 1 \in T PROVE i \in T
  <2>1. i \in m .. n /\ \A j \in i + 1 .. n : j \in S
    BY <1>2
  <2>2. i \in S
    BY <2>1
  <2>3. \A j \in i .. n : j = i \/ j \in i + 1 .. n
    OBVIOUS
  <2> QED BY <2>1, <2>2, <2>3
<1>3. m .. n \subseteq T
  <2> HIDE DEF T
  <2> QED BY <1>1, <1>2, InductionDownFrom
<1> QED BY <1>3

\* Of any numbers up to a bound there is a greatest one.
LEMMA Greatest ==
  ASSUME NEW n \in Int, NEW m \in Int, NEW S \in SUBSET (m .. n), S # {}
  PROVE  \E g \in S : \A k \in S : k <= g
<1> DEFINE T == {n - s : s \in S}
<1>1. T \in SUBSET Nat /\ T # {}
  <2>1. \A s \in S : s \in Int /\ n - s \in Nat
    OBVIOUS
  <2>2. PICK s \in S : TRUE
    OBVIOUS
  <2> QED BY <2>1, <2>2
<1>2. PICK t \in T : \A k \in T : t <= k
  <2> HIDE DEF T
  <2> QED BY <1>1, Least
<1>3. PICK g \in S : t = n - g
  BY <1>2
<1>4. \A k \in S : n - k \in T
  OBVIOUS
<1>5. \A k \in S : t <= n - k
  <2> HIDE DEF T
  <2> QED BY <1>2, <1>4
<1>6. \A k \in S : k \in Int /\ g \in Int
  OBVIOUS
<1> QED BY <1>3, <1>5, <1>6
=============================================================================
