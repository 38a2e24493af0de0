--------------------------- MODULE Parser_proofs ---------------------------
(***************************************************************************)
(* The parser keeps its position inside the input, reports errors at       *)
(* tokens that are there, and makes trees of trees that are there, for any *)
(* tokens in any order.                                                    *)
(***************************************************************************)
EXTENDS Parser, SequenceTheorems, TLAPS

\* What there is in it does not matter.
Sequence(s) == \E S : s \in Seq(S)

\* What ends with one tree more, and what needs a tree to begin with.
Makers == {"type", "name", "def", "param", "init", "expr", "unary", "primary",
           "stmt", "block", "function", "var"}
Based(x) == x.do \in {"gather", "trial"}
Needs(x) == x.do \in {"not void", "call", "rest"} \/ (x.do = "brackets" /\ x.k = "elem")

\* If there are at least a trees when x is begun, it finds the trees it is made
\* of, and there are at least b when it is over.
Link(x, a, b) ==
  /\ Based(x) => x.base \in Nat /\ x.base <= a /\ b <= x.base + 1
  /\ x.do \in Makers => b <= a + 1
  /\ Needs(x) => a >= 1
  /\ ~ Based(x) /\ x.do \notin Makers => b <= a
  /\ x.do \in {"listed", "more"} => x.f \in Makers
  /\ x.do = "unit" => b = 0

Linked(list, counts) ==
  /\ counts \in Seq(Nat) /\ Len(counts) = Len(list) + 1
  /\ \A i \in 1 .. Len(list) : Link(list[i], counts[i], counts[i + 1])

\* All of the list finds its trees when there are n now.
Ready(list, n) == \E counts : Linked(list, counts) /\ counts[1] <= n

\* Things to do one after the other make b trees of a, where a new attempt is
\* at p.
Leads(items, a, b, p) ==
  /\ Sequence(items)
  /\ \E counts : /\ Linked(items, counts)
                 /\ counts[1] = a /\ counts[Len(items) + 1] = b
  /\ \A i \in 1 .. Len(items) : items[i].do = "trial" => items[i].at = p

Fits(x, a, b, p) == Link(x, a, b) /\ (x.do = "trial" => x.at = p)

\* Later attempts, which stand first, are at later places.
Attempts(list, p) ==
  /\ \A i \in 1 .. Len(list) : list[i].do = "trial" => list[i].at \in 1 .. p
  /\ \A i, j \in 1 .. Len(list) :
       i < j /\ list[i].do = "trial" /\ list[j].do = "trial" => list[j].at <= list[i].at

\* What the list ends with.
Last == {Do("unit"), Gather("unit", 0)}

\* The inductive invariant.
Inv ==
  /\ kit \in DOMAIN Kits
  /\ Sequence(tokens) /\ Sequence(built) /\ Sequence(todo)
  /\ pos \in 1 .. Len(tokens) + 1
  /\ errors \subseteq 1 .. Len(tokens)
  /\ Ready(todo, Len(built))
  /\ Attempts(todo, pos)
  /\ todo # <<>> => todo[Len(todo)] \in Last
  /\ todo = <<>> => Len(built) = 1

----------------------------------------------------------------------------
(* Sequences of anything.                                                  *)

\* A sequence has a length, and is empty if that is 0.
LEMMA SequenceFacts ==
  ASSUME NEW s, Sequence(s)
  PROVE  /\ Len(s) \in Nat /\ DOMAIN s = 1 .. Len(s)
         /\ s # <<>> <=> Len(s) >= 1
<1>1. PICK S : s \in Seq(S)
  BY DEF Sequence
<1> QED BY <1>1

\* A sequence with one element more.
LEMMA Appended ==
  ASSUME NEW s, Sequence(s), NEW e
  PROVE  /\ Sequence(Append(s, e)) /\ Len(Append(s, e)) = Len(s) + 1
         /\ Append(s, e) # <<>>
<1>1. PICK S : s \in Seq(S)
  BY DEF Sequence
<1>2. s \in Seq(S \cup {e}) /\ e \in S \cup {e}
  BY <1>1
<1>3. Append(s, e) \in Seq(S \cup {e}) /\ Len(Append(s, e)) = Len(s) + 1
  BY <1>2, AppendProperties
<1> QED BY <1>3 DEF Sequence

\* The beginning of a sequence.
LEMMA Taken ==
  ASSUME NEW s, Sequence(s), NEW n \in 0 .. Len(s)
  PROVE  Sequence(SubSeq(s, 1, n)) /\ Len(SubSeq(s, 1, n)) = n
<1>1. PICK S : s \in Seq(S)
  BY DEF Sequence
<1>2. SubSeq(s, 1, n) \in Seq(S) /\ Len(SubSeq(s, 1, n)) = n
  BY <1>1
<1> QED BY <1>2 DEF Sequence

\* Two sequences, one behind the other.
LEMMA Concatenated ==
  ASSUME NEW s, Sequence(s), NEW t, Sequence(t)
  PROVE  /\ Sequence(s \o t) /\ Len(s \o t) = Len(s) + Len(t)
         /\ \A i \in 1 .. Len(s) : (s \o t)[i] = s[i]
         /\ \A i \in 1 .. Len(t) : (s \o t)[Len(s) + i] = t[i]
<1>1. PICK S : s \in Seq(S)
  BY DEF Sequence
<1>2. PICK T : t \in Seq(T)
  BY DEF Sequence
<1>3. s \in Seq(S \cup T) /\ t \in Seq(S \cup T)
  BY <1>1, <1>2
<1>4. /\ s \o t \in Seq(S \cup T) /\ Len(s \o t) = Len(s) + Len(t)
      /\ \A i \in 1 .. Len(s) + Len(t) :
           (s \o t)[i] = IF i <= Len(s) THEN s[i] ELSE t[i - Len(s)]
  BY <1>3, ConcatProperties
<1>5. Len(s) \in Nat /\ Len(t) \in Nat
  BY <1>3
<1> QED BY <1>4, <1>5 DEF Sequence

\* A sequence without its first element.
LEMMA TailFacts ==
  ASSUME NEW s, Sequence(s), s # <<>>
  PROVE  /\ Sequence(Tail(s)) /\ Len(Tail(s)) = Len(s) - 1
         /\ \A i \in 1 .. Len(s) - 1 : Tail(s)[i] = s[i + 1]
<1>1. PICK S : s \in Seq(S)
  BY DEF Sequence
<1>2. /\ Tail(s) \in Seq(S) /\ Len(Tail(s)) = Len(s) - 1
      /\ \A i \in 1 .. Len(Tail(s)) : Tail(s)[i] = s[i + 1]
  BY <1>1, HeadTailProperties
<1> QED BY <1>2 DEF Sequence

----------------------------------------------------------------------------
(* What the list of things to do finds.                                    *)

\* The first of the list finds its trees, and leaves as many as the rest needs.
LEMMA First ==
  ASSUME NEW list, Sequence(list), list # <<>>, NEW n \in Nat, Ready(list, n)
  PROVE  \E a, b \in Nat : a <= n /\ Link(list[1], a, b) /\ Ready(Tail(list), b)
<1>1. PICK counts : Linked(list, counts) /\ counts[1] <= n
  BY DEF Ready
<1>2. counts \in Seq(Nat) /\ Len(counts) = Len(list) + 1 /\ Len(list) \in Nat /\ Len(list) >= 1
  BY <1>1, SequenceFacts DEF Linked
<1>3. counts[1] \in Nat /\ counts[2] \in Nat
  BY <1>2
<1>4. Link(list[1], counts[1], counts[2])
  <2>1. 1 \in 1 .. Len(list)
    BY <1>2
  <2>2. Link(list[1], counts[1], counts[1 + 1])
    BY <1>1, <2>1 DEF Linked
  <2> QED BY <2>2
<1>5. Linked(Tail(list), Tail(counts)) /\ Tail(counts)[1] = counts[2]
  <2>1. counts # <<>> /\ Sequence(counts)
    BY <1>2 DEF Sequence
  <2>2. Tail(counts) \in Seq(Nat) /\ Len(Tail(counts)) = Len(list)
    BY <1>2, <2>1, HeadTailProperties
  <2>3. \A i \in 1 .. Len(list) : Tail(counts)[i] = counts[i + 1]
    BY <1>2, <2>1, TailFacts
  <2>4. Len(Tail(list)) = Len(list) - 1 /\ \A i \in 1 .. Len(list) - 1 : Tail(list)[i] = list[i + 1]
    BY TailFacts
  <2>5. ASSUME NEW i \in 1 .. Len(Tail(list))
        PROVE  Link(Tail(list)[i], Tail(counts)[i], Tail(counts)[i + 1])
    <3>1. i \in 1 .. Len(list) - 1 /\ i \in 1 .. Len(list) /\ i + 1 \in 1 .. Len(list)
      BY <2>4, <1>2
    <3>2. Link(list[i + 1], counts[i + 1], counts[(i + 1) + 1])
      BY <1>1, <3>1 DEF Linked
    <3> QED BY <3>1, <3>2, <2>3, <2>4
  <2>6. 1 \in 1 .. Len(list)
    BY <1>2
  <2> QED BY <1>2, <2>2, <2>3, <2>4, <2>5, <2>6, SMTT(30) DEF Linked
<1>6. Ready(Tail(list), counts[2])
  <2>1. \A x \in Nat : x <= x
    OBVIOUS
  <2> QED BY <1>3, <1>5, <2>1, Zenon DEF Ready
<1> QED BY <1>1, <1>3, <1>4, <1>6

\* What leaves b trees leaves fewer, too.
LEMMA FewerDo ==
  ASSUME NEW x, NEW a \in Nat, NEW b \in Nat, NEW c \in Nat, Link(x, a, b), c <= b
  PROVE  Link(x, a, c)
<1> SUFFICES /\ Based(x) => x.base \in Nat /\ x.base <= a /\ c <= x.base + 1
             /\ x.do \in Makers => c <= a + 1
             /\ Needs(x) => a >= 1
             /\ ~ Based(x) /\ x.do \notin Makers => c <= a
             /\ x.do \in {"listed", "more"} => x.f \in Makers
             /\ x.do = "unit" => c = 0
  BY Zenon DEF Link
<1>1. /\ Based(x) => x.base \in Nat /\ x.base <= a /\ b <= x.base + 1
      /\ x.do \in Makers => b <= a + 1
      /\ Needs(x) => a >= 1
      /\ ~ Based(x) /\ x.do \notin Makers => b <= a
      /\ x.do \in {"listed", "more"} => x.f \in Makers
      /\ x.do = "unit" => b = 0
  BY Zenon DEF Link
<1> QED BY <1>1

\* A list that does with m trees does with more.
LEMMA MoreIsReady ==
  ASSUME NEW list, Sequence(list), NEW m \in Nat, NEW n \in Nat, Ready(list, m), m <= n
  PROVE  Ready(list, n)
<1>1. PICK counts : Linked(list, counts) /\ counts[1] <= m
  BY DEF Ready
<1>2. counts \in Seq(Nat) /\ Len(counts) = Len(list) + 1 /\ Len(list) \in Nat
  BY <1>1, SequenceFacts DEF Linked
<1>3. counts[1] \in Nat
  BY <1>2
<1> QED BY <1>1, <1>3 DEF Ready

\* Things to do that leave as many trees as a list needs can be put in front of it.
LEMMA Prepended ==
  ASSUME NEW list, Sequence(list), NEW items, NEW a, NEW b \in Nat, NEW c \in Nat, NEW p,
         Leads(items, a, b, p), Ready(list, c), c <= b
  PROVE  a \in Nat /\ Ready(items \o list, a)
<1>1. PICK first : /\ Linked(items, first)
                   /\ first[1] = a /\ first[Len(items) + 1] = b
  BY DEF Leads
<1>2. PICK second : Linked(list, second) /\ second[1] <= c
  BY DEF Ready
<1> DEFINE m == Len(items)
           n == Len(list)
           counts == [i \in 1 .. m + n + 1 |-> IF i <= m THEN first[i] ELSE second[i - m]]
<1>3. /\ m \in Nat /\ n \in Nat /\ Sequence(items)
      /\ first \in Seq(Nat) /\ Len(first) = m + 1
      /\ second \in Seq(Nat) /\ Len(second) = n + 1
  BY <1>1, <1>2, SequenceFacts DEF Leads, Linked
<1> HIDE DEF m, n
<1>4. /\ \A i \in 1 .. m + 1 : first[i] \in Nat
      /\ \A i \in 1 .. n + 1 : second[i] \in Nat
  BY <1>3
<1>5. counts \in Seq(Nat) /\ Len(counts) = m + n + 1
  <2>1. \A i \in 1 .. m + n + 1 : counts[i] \in Nat
    BY <1>3, <1>4
  <2>2. PICK l \in Nat : l = m + n + 1
    BY <1>3
  <2>3. counts \in [1 .. l -> Nat]
    BY <2>1, <2>2
  <2> HIDE DEF counts
  <2>4. counts \in Seq(Nat) /\ Len(counts) = l
    BY <2>3
  <2> QED BY <2>2, <2>4
<1>6. /\ Sequence(items \o list) /\ Len(items \o list) = m + n
      /\ \A i \in 1 .. m : (items \o list)[i] = items[i]
      /\ \A i \in 1 .. n : (items \o list)[m + i] = list[i]
  BY <1>3, Concatenated DEF m, n
<1>7. /\ \A i \in 1 .. m : counts[i] = first[i]
      /\ \A i \in 1 .. n + 1 : counts[m + i] = second[i]
  <2>1. ASSUME NEW i \in 1 .. n + 1 PROVE counts[m + i] = second[i]
    <3>1. m + i \in 1 .. m + n + 1 /\ ~ (m + i <= m) /\ (m + i) - m = i
      BY <1>3
    <3> QED BY <3>1
  <2> QED BY <1>3, <2>1
<1> HIDE DEF counts
<1>8. ASSUME NEW i \in 1 .. m + n
      PROVE  Link((items \o list)[i], counts[i], counts[i + 1])
  <2>1. CASE i < m
    <3>1. i \in 1 .. m /\ i + 1 \in 1 .. m
      BY <2>1, <1>3
    <3>2. Link(items[i], first[i], first[i + 1])
      BY <1>1, <3>1 DEF Linked, m
    <3> QED BY <3>1, <3>2, <1>6, <1>7
  <2>2. CASE i = m
    <3>1. i \in 1 .. m /\ 1 \in 1 .. n + 1 /\ i \in 1 .. m + 1 /\ m + 1 \in 1 .. m + 1
      BY <2>2, <1>3
    <3>2. Link(items[i], first[i], first[i + 1])
      BY <1>1, <3>1 DEF Linked, m
    <3>3. first[i + 1] = b /\ counts[i + 1] = second[1] /\ second[1] \in Nat /\ second[1] <= b
      BY <1>1, <1>2, <1>4, <1>7, <2>2, <3>1 DEF m
    <3>4. Link(items[i], first[i], second[1])
      BY <3>1, <3>2, <3>3, <1>4, FewerDo
    <3> QED BY <3>1, <3>3, <3>4, <1>6, <1>7
  <2>3. CASE i > m
    <3>1. i - m \in 1 .. n /\ i - m \in 1 .. n + 1 /\ (i - m) + 1 \in 1 .. n + 1
          /\ m + (i - m) = i /\ m + ((i - m) + 1) = i + 1
      BY <2>3, <1>3
    <3>2. Link(list[i - m], second[i - m], second[(i - m) + 1])
      BY <1>2, <3>1 DEF Linked, n
    <3>3. /\ (items \o list)[m + (i - m)] = list[i - m]
          /\ counts[m + (i - m)] = second[i - m]
          /\ counts[m + ((i - m) + 1)] = second[(i - m) + 1]
      BY <3>1, <1>6, <1>7
    <3> QED BY <3>1, <3>2, <3>3
  <2>4. i < m \/ i = m \/ i > m
    BY <1>3
  <2> QED BY <2>1, <2>2, <2>3, <2>4, Zenon
<1>9. Linked(items \o list, counts)
  BY <1>5, <1>6, <1>8 DEF Linked
<1>10. a \in Nat /\ counts[1] <= a
  <2>1. first[1] = a /\ a \in Nat
    BY <1>1, <1>4, <1>3
  <2>2. CASE m = 0
    <3>1. counts[m + 1] = second[1] /\ b = a /\ second[1] \in Nat
      BY <2>2, <1>1, <1>3, <1>4, <1>7 DEF m
    <3> QED BY <2>1, <2>2, <3>1, <1>2
  <2>3. CASE m # 0
    <3>1. 1 \in 1 .. m
      BY <2>3, <1>3
    <3>2. counts[1] = a
      BY <3>1, <2>1, <1>7
    <3> QED BY <3>2, <2>1
  <2> QED BY <2>2, <2>3
<1> QED BY <1>9, <1>10 DEF Ready



\* One thing to do, done.
LEMMA Leads1 ==
  ASSUME NEW x1, NEW p,
         NEW a1 \in Nat, NEW a2 \in Nat,
         Fits(x1, a1, a2, p)
  PROVE  Leads(<<x1>>, a1, a2, p)
<1> DEFINE items == <<x1>>
           counts == <<a1, a2>>
<1>1. items \in Seq({x1}) /\ Len(items) = 1
  OBVIOUS
<1>2. counts \in Seq(Nat) /\ Len(counts) = 2
  OBVIOUS
<1>3. items[1] = x1
  OBVIOUS
<1>4. counts[1] = a1 /\ counts[2] = a2
  OBVIOUS
<1> HIDE DEF items, counts
<1>5. ASSUME NEW i \in 1 .. 1 PROVE Link(items[i], counts[i], counts[i + 1])
  <2>1. i = 1
    OBVIOUS
  <2> QED BY <1>3, <1>4, <2>1 DEF Fits
<1>6. ASSUME NEW i \in 1 .. 1, items[i].do = "trial" PROVE items[i].at = p
  <2>1. i = 1
    OBVIOUS
  <2> QED BY <1>3, <1>6, <2>1 DEF Fits
<1>7. Linked(items, counts)
  BY <1>1, <1>2, <1>5 DEF Linked
<1>8. Leads(items, a1, a2, p)
  <2>1. Len(items) + 1 = 2
    BY <1>1
  <2>2. Sequence(items)
    BY <1>1, Zenon DEF Sequence
  <2>3. \A i \in 1 .. Len(items) : items[i].do = "trial" => items[i].at = p
    BY <1>1, <1>6
  <2> QED BY <1>4, <1>7, <2>1, <2>2, <2>3, Zenon DEF Leads
<1> QED BY <1>8 DEF items

\* Two in sequence.
LEMMA Leads2 ==
  ASSUME NEW x1, NEW x2, NEW p,
         NEW a1 \in Nat, NEW a2 \in Nat, NEW a3 \in Nat,
         Fits(x1, a1, a2, p), Fits(x2, a2, a3, p)
  PROVE  Leads(<<x1, x2>>, a1, a3, p)
<1> DEFINE items == <<x1, x2>>
           counts == <<a1, a2, a3>>
<1>1. items \in Seq({x1, x2}) /\ Len(items) = 2
  OBVIOUS
<1>2. counts \in Seq(Nat) /\ Len(counts) = 3
  OBVIOUS
<1>3. items[1] = x1 /\ items[2] = x2
  OBVIOUS
<1>4. counts[1] = a1 /\ counts[2] = a2 /\ counts[3] = a3
  OBVIOUS
<1> HIDE DEF items, counts
<1>5. ASSUME NEW i \in 1 .. 2 PROVE Link(items[i], counts[i], counts[i + 1])
  <2>1. i = 1 \/ i = 2
    OBVIOUS
  <2> QED BY <1>3, <1>4, <2>1 DEF Fits
<1>6. ASSUME NEW i \in 1 .. 2, items[i].do = "trial" PROVE items[i].at = p
  <2>1. i = 1 \/ i = 2
    OBVIOUS
  <2> QED BY <1>3, <1>6, <2>1 DEF Fits
<1>7. Linked(items, counts)
  BY <1>1, <1>2, <1>5 DEF Linked
<1>8. Leads(items, a1, a3, p)
  <2>1. Len(items) + 1 = 3
    BY <1>1
  <2>2. Sequence(items)
    BY <1>1, Zenon DEF Sequence
  <2>3. \A i \in 1 .. Len(items) : items[i].do = "trial" => items[i].at = p
    BY <1>1, <1>6
  <2> QED BY <1>4, <1>7, <2>1, <2>2, <2>3, Zenon DEF Leads
<1> QED BY <1>8 DEF items

\* Three in sequence.
LEMMA Leads3 ==
  ASSUME NEW x1, NEW x2, NEW x3, NEW p,
         NEW a1 \in Nat, NEW a2 \in Nat, NEW a3 \in Nat, NEW a4 \in Nat,
         Fits(x1, a1, a2, p), Fits(x2, a2, a3, p), Fits(x3, a3, a4, p)
  PROVE  Leads(<<x1, x2, x3>>, a1, a4, p)
<1> DEFINE items == <<x1, x2, x3>>
           counts == <<a1, a2, a3, a4>>
<1>1. items \in Seq({x1, x2, x3}) /\ Len(items) = 3
  OBVIOUS
<1>2. counts \in Seq(Nat) /\ Len(counts) = 4
  OBVIOUS
<1>3. items[1] = x1 /\ items[2] = x2 /\ items[3] = x3
  OBVIOUS
<1>4. counts[1] = a1 /\ counts[2] = a2 /\ counts[3] = a3 /\ counts[4] = a4
  OBVIOUS
<1> HIDE DEF items, counts
<1>5. ASSUME NEW i \in 1 .. 3 PROVE Link(items[i], counts[i], counts[i + 1])
  <2>1. i = 1 \/ i = 2 \/ i = 3
    OBVIOUS
  <2> QED BY <1>3, <1>4, <2>1 DEF Fits
<1>6. ASSUME NEW i \in 1 .. 3, items[i].do = "trial" PROVE items[i].at = p
  <2>1. i = 1 \/ i = 2 \/ i = 3
    OBVIOUS
  <2> QED BY <1>3, <1>6, <2>1 DEF Fits
<1>7. Linked(items, counts)
  BY <1>1, <1>2, <1>5 DEF Linked
<1>8. Leads(items, a1, a4, p)
  <2>1. Len(items) + 1 = 4
    BY <1>1
  <2>2. Sequence(items)
    BY <1>1, Zenon DEF Sequence
  <2>3. \A i \in 1 .. Len(items) : items[i].do = "trial" => items[i].at = p
    BY <1>1, <1>6
  <2> QED BY <1>4, <1>7, <2>1, <2>2, <2>3, Zenon DEF Leads
<1> QED BY <1>8 DEF items

\* Four in sequence.
LEMMA Leads4 ==
  ASSUME NEW x1, NEW x2, NEW x3, NEW x4, NEW p,
         NEW a1 \in Nat, NEW a2 \in Nat, NEW a3 \in Nat, NEW a4 \in Nat, NEW a5 \in Nat,
         Fits(x1, a1, a2, p), Fits(x2, a2, a3, p), Fits(x3, a3, a4, p), Fits(x4, a4, a5, p)
  PROVE  Leads(<<x1, x2, x3, x4>>, a1, a5, p)
<1> DEFINE items == <<x1, x2, x3, x4>>
           counts == <<a1, a2, a3, a4, a5>>
<1>1. items \in Seq({x1, x2, x3, x4}) /\ Len(items) = 4
  OBVIOUS
<1>2. counts \in Seq(Nat) /\ Len(counts) = 5
  OBVIOUS
<1>3. items[1] = x1 /\ items[2] = x2 /\ items[3] = x3 /\ items[4] = x4
  OBVIOUS
<1>4. counts[1] = a1 /\ counts[2] = a2 /\ counts[3] = a3 /\ counts[4] = a4 /\ counts[5] = a5
  OBVIOUS
<1> HIDE DEF items, counts
<1>5. ASSUME NEW i \in 1 .. 4 PROVE Link(items[i], counts[i], counts[i + 1])
  <2>1. i = 1 \/ i = 2 \/ i = 3 \/ i = 4
    OBVIOUS
  <2> QED BY <1>3, <1>4, <2>1 DEF Fits
<1>6. ASSUME NEW i \in 1 .. 4, items[i].do = "trial" PROVE items[i].at = p
  <2>1. i = 1 \/ i = 2 \/ i = 3 \/ i = 4
    OBVIOUS
  <2> QED BY <1>3, <1>6, <2>1 DEF Fits
<1>7. Linked(items, counts)
  BY <1>1, <1>2, <1>5 DEF Linked
<1>8. Leads(items, a1, a5, p)
  <2>1. Len(items) + 1 = 5
    BY <1>1
  <2>2. Sequence(items)
    BY <1>1, Zenon DEF Sequence
  <2>3. \A i \in 1 .. Len(items) : items[i].do = "trial" => items[i].at = p
    BY <1>1, <1>6
  <2> QED BY <1>4, <1>7, <2>1, <2>2, <2>3, Zenon DEF Leads
<1> QED BY <1>8 DEF items

\* Five in sequence.
LEMMA Leads5 ==
  ASSUME NEW x1, NEW x2, NEW x3, NEW x4, NEW x5, NEW p,
         NEW a1 \in Nat, NEW a2 \in Nat, NEW a3 \in Nat, NEW a4 \in Nat, NEW a5 \in Nat, NEW a6 \in Nat,
         Fits(x1, a1, a2, p), Fits(x2, a2, a3, p), Fits(x3, a3, a4, p), Fits(x4, a4, a5, p), Fits(x5, a5, a6, p)
  PROVE  Leads(<<x1, x2, x3, x4, x5>>, a1, a6, p)
<1> DEFINE items == <<x1, x2, x3, x4, x5>>
           counts == <<a1, a2, a3, a4, a5, a6>>
<1>1. items \in Seq({x1, x2, x3, x4, x5}) /\ Len(items) = 5
  OBVIOUS
<1>2. counts \in Seq(Nat) /\ Len(counts) = 6
  OBVIOUS
<1>3. items[1] = x1 /\ items[2] = x2 /\ items[3] = x3 /\ items[4] = x4 /\ items[5] = x5
  OBVIOUS
<1>4. counts[1] = a1 /\ counts[2] = a2 /\ counts[3] = a3 /\ counts[4] = a4 /\ counts[5] = a5 /\ counts[6] = a6
  OBVIOUS
<1> HIDE DEF items, counts
<1>5. ASSUME NEW i \in 1 .. 5 PROVE Link(items[i], counts[i], counts[i + 1])
  <2>1. i = 1 \/ i = 2 \/ i = 3 \/ i = 4 \/ i = 5
    OBVIOUS
  <2> QED BY <1>3, <1>4, <2>1 DEF Fits
<1>6. ASSUME NEW i \in 1 .. 5, items[i].do = "trial" PROVE items[i].at = p
  <2>1. i = 1 \/ i = 2 \/ i = 3 \/ i = 4 \/ i = 5
    OBVIOUS
  <2> QED BY <1>3, <1>6, <2>1 DEF Fits
<1>7. Linked(items, counts)
  BY <1>1, <1>2, <1>5 DEF Linked
<1>8. Leads(items, a1, a6, p)
  <2>1. Len(items) + 1 = 6
    BY <1>1
  <2>2. Sequence(items)
    BY <1>1, Zenon DEF Sequence
  <2>3. \A i \in 1 .. Len(items) : items[i].do = "trial" => items[i].at = p
    BY <1>1, <1>6
  <2> QED BY <1>4, <1>7, <2>1, <2>2, <2>3, Zenon DEF Leads
<1> QED BY <1>8 DEF items

\* Six in sequence.
LEMMA Leads6 ==
  ASSUME NEW x1, NEW x2, NEW x3, NEW x4, NEW x5, NEW x6, NEW p,
         NEW a1 \in Nat, NEW a2 \in Nat, NEW a3 \in Nat, NEW a4 \in Nat, NEW a5 \in Nat, NEW a6 \in Nat, NEW a7 \in Nat,
         Fits(x1, a1, a2, p), Fits(x2, a2, a3, p), Fits(x3, a3, a4, p), Fits(x4, a4, a5, p), Fits(x5, a5, a6, p), Fits(x6, a6, a7, p)
  PROVE  Leads(<<x1, x2, x3, x4, x5, x6>>, a1, a7, p)
<1> DEFINE items == <<x1, x2, x3, x4, x5, x6>>
           counts == <<a1, a2, a3, a4, a5, a6, a7>>
<1>1. items \in Seq({x1, x2, x3, x4, x5, x6}) /\ Len(items) = 6
  OBVIOUS
<1>2. counts \in Seq(Nat) /\ Len(counts) = 7
  OBVIOUS
<1>3. items[1] = x1 /\ items[2] = x2 /\ items[3] = x3 /\ items[4] = x4 /\ items[5] = x5 /\ items[6] = x6
  OBVIOUS
<1>4. counts[1] = a1 /\ counts[2] = a2 /\ counts[3] = a3 /\ counts[4] = a4 /\ counts[5] = a5 /\ counts[6] = a6 /\ counts[7] = a7
  OBVIOUS
<1> HIDE DEF items, counts
<1>5. ASSUME NEW i \in 1 .. 6 PROVE Link(items[i], counts[i], counts[i + 1])
  <2>1. i = 1 \/ i = 2 \/ i = 3 \/ i = 4 \/ i = 5 \/ i = 6
    OBVIOUS
  <2> QED BY <1>3, <1>4, <2>1 DEF Fits
<1>6. ASSUME NEW i \in 1 .. 6, items[i].do = "trial" PROVE items[i].at = p
  <2>1. i = 1 \/ i = 2 \/ i = 3 \/ i = 4 \/ i = 5 \/ i = 6
    OBVIOUS
  <2> QED BY <1>3, <1>6, <2>1 DEF Fits
<1>7. Linked(items, counts)
  BY <1>1, <1>2, <1>5 DEF Linked
<1>8. Leads(items, a1, a7, p)
  <2>1. Len(items) + 1 = 7
    BY <1>1
  <2>2. Sequence(items)
    BY <1>1, Zenon DEF Sequence
  <2>3. \A i \in 1 .. Len(items) : items[i].do = "trial" => items[i].at = p
    BY <1>1, <1>6
  <2> QED BY <1>4, <1>7, <2>1, <2>2, <2>3, Zenon DEF Leads
<1> QED BY <1>8 DEF items

\* Seven in sequence.
LEMMA Leads7 ==
  ASSUME NEW x1, NEW x2, NEW x3, NEW x4, NEW x5, NEW x6, NEW x7, NEW p,
         NEW a1 \in Nat, NEW a2 \in Nat, NEW a3 \in Nat, NEW a4 \in Nat, NEW a5 \in Nat, NEW a6 \in Nat, NEW a7 \in Nat, NEW a8 \in Nat,
         Fits(x1, a1, a2, p), Fits(x2, a2, a3, p), Fits(x3, a3, a4, p), Fits(x4, a4, a5, p), Fits(x5, a5, a6, p), Fits(x6, a6, a7, p), Fits(x7, a7, a8, p)
  PROVE  Leads(<<x1, x2, x3, x4, x5, x6, x7>>, a1, a8, p)
<1> DEFINE items == <<x1, x2, x3, x4, x5, x6, x7>>
           counts == <<a1, a2, a3, a4, a5, a6, a7, a8>>
<1>1. items \in Seq({x1, x2, x3, x4, x5, x6, x7}) /\ Len(items) = 7
  OBVIOUS
<1>2. counts \in Seq(Nat) /\ Len(counts) = 8
  OBVIOUS
<1>3. items[1] = x1 /\ items[2] = x2 /\ items[3] = x3 /\ items[4] = x4 /\ items[5] = x5 /\ items[6] = x6 /\ items[7] = x7
  OBVIOUS
<1>4. counts[1] = a1 /\ counts[2] = a2 /\ counts[3] = a3 /\ counts[4] = a4 /\ counts[5] = a5 /\ counts[6] = a6 /\ counts[7] = a7 /\ counts[8] = a8
  OBVIOUS
<1> HIDE DEF items, counts
<1>5. ASSUME NEW i \in 1 .. 7 PROVE Link(items[i], counts[i], counts[i + 1])
  <2>1. i = 1 \/ i = 2 \/ i = 3 \/ i = 4 \/ i = 5 \/ i = 6 \/ i = 7
    OBVIOUS
  <2> QED BY <1>3, <1>4, <2>1 DEF Fits
<1>6. ASSUME NEW i \in 1 .. 7, items[i].do = "trial" PROVE items[i].at = p
  <2>1. i = 1 \/ i = 2 \/ i = 3 \/ i = 4 \/ i = 5 \/ i = 6 \/ i = 7
    OBVIOUS
  <2> QED BY <1>3, <1>6, <2>1 DEF Fits
<1>7. Linked(items, counts)
  BY <1>1, <1>2, <1>5 DEF Linked
<1>8. Leads(items, a1, a8, p)
  <2>1. Len(items) + 1 = 8
    BY <1>1
  <2>2. Sequence(items)
    BY <1>1, Zenon DEF Sequence
  <2>3. \A i \in 1 .. Len(items) : items[i].do = "trial" => items[i].at = p
    BY <1>1, <1>6
  <2> QED BY <1>4, <1>7, <2>1, <2>2, <2>3, Zenon DEF Leads
<1> QED BY <1>8 DEF items

----------------------------------------------------------------------------
(* The kinds of things to do.                                              *)

\* What need not leave a tree, and what works on the last one.
Keepers == {"skip", "initialiser", "elements", "more elements", "open", "items", "else",
            "result"}
Users == {"not void", "call"}

\* A function that makes a tree needs none.
LEMMA MakeFits ==
  ASSUME NEW f \in Makers, NEW a \in Nat, NEW p
  PROVE  Fits(Do(f), a, a + 1, p)
<1>1. PICK x : x = Do(f)
  OBVIOUS
<1>2. x.do = f
  BY <1>1 DEF Do
<1>3. x.do \in Makers /\ ~ Based(x) /\ ~ Needs(x) /\ x.do \notin {"trial", "listed", "more", "unit"}
  BY <1>2 DEF Based, Needs, Makers
<1>4. a + 1 <= a + 1
  OBVIOUS
<1>5. x.do # "trial" /\ x.do \notin {"listed", "more"} /\ x.do # "unit"
  BY <1>3
<1> QED BY <1>1, <1>3, <1>5, <1>4, Zenon DEF Fits, Link

\* What makes nothing by itself leaves what there is.
LEMMA KeepFits ==
  ASSUME NEW f \in Keepers, NEW a \in Nat, NEW p
  PROVE  Fits(Do(f), a, a, p)
<1>1. PICK x : x = Do(f)
  OBVIOUS
<1>2. x.do = f
  BY <1>1 DEF Do
<1>3. x.do \notin Makers /\ ~ Based(x) /\ ~ Needs(x) /\ x.do \notin {"trial", "listed", "more", "unit"}
  BY <1>2 DEF Based, Needs, Makers, Keepers
<1>4. a <= a
  OBVIOUS
<1>5. x.do # "trial" /\ x.do \notin {"listed", "more"} /\ x.do # "unit"
  BY <1>3
<1> QED BY <1>1, <1>3, <1>5, <1>4, Zenon DEF Fits, Link

\* What works on the last tree needs one and leaves one.
LEMMA NeedFits ==
  ASSUME NEW f \in Users, NEW a \in Nat, a >= 1, NEW p
  PROVE  Fits(Do(f), a, a, p)
<1>1. PICK x : x = Do(f)
  OBVIOUS
<1>2. x.do = f
  BY <1>1 DEF Do
<1>3. x.do \notin Makers /\ ~ Based(x) /\ x.do \notin {"trial", "listed", "more", "unit"}
  BY <1>2 DEF Based, Makers, Users
<1>4. \A n \in Nat : n <= n
  OBVIOUS
<1>5. x.do # "trial" /\ x.do \notin {"listed", "more"} /\ x.do # "unit"
  BY <1>3
<1> QED BY <1>1, <1>3, <1>5, <1>4, Zenon DEF Fits, Link

\* What is done after the unit, which is nothing, can count on nothing.
LEMMA UnitFits ==
  ASSUME NEW a \in Nat, NEW p
  PROVE  Fits(Do("unit"), a, 0, p)
BY DEF Fits, Link, Do, Based, Needs, Makers

\* A token that is expected makes no tree.
LEMMA ExpectFits ==
  ASSUME NEW t, NEW a \in Nat, NEW p
  PROVE  Fits(Expect(t), a, a, p)
BY DEF Fits, Link, Expect, Based, Needs, Makers

\* A list may be empty.
LEMMA ListFits ==
  ASSUME NEW f \in Makers, NEW a \in Nat, NEW p
  PROVE  Fits(Listed(f), a, a, p) /\ Fits(More(f), a, a, p)
BY DEF Fits, Link, Listed, More, Based, Needs, Makers

\* An operator's loop needs its left operand.
LEMMA RestFits ==
  ASSUME NEW hi, NEW lo, NEW a \in Nat, a >= 1, NEW p
  PROVE  Fits(Rest(hi, lo), a, a, p)
BY DEF Fits, Link, Rest, Based, Needs, Makers

\* A subscript needs what it is a subscript of.
LEMMA BracketsFit ==
  ASSUME NEW k, NEW a \in Nat, k = "elem" => a >= 1, NEW p
  PROVE  Fits(Brackets(k), a, a, p)
BY DEF Fits, Link, Brackets, Based, Needs, Makers

\* A tree needs the trees it is made of, and leaves one for them.
LEMMA GatherFits ==
  ASSUME NEW k, NEW a \in Nat, NEW base \in 0 .. a, NEW p
  PROVE  Fits(Gather(k, base), a, base + 1, p)
BY DEF Fits, Link, Gather, Based, Needs, Makers

\* An attempt needs the trees there were before it, and leaves one more.
LEMMA TrialFits ==
  ASSUME NEW a \in Nat, NEW base \in 0 .. a, NEW p
  PROVE  Fits(Trial(p, base), a, base + 1, p)
BY DEF Fits, Link, Trial, Based, Needs, Makers

----------------------------------------------------------------------------
(* What a step does to the invariant.                                      *)

\* The first thing to do finds its trees.
LEMMA Begun ==
  ASSUME Inv, todo # <<>>
  PROVE  /\ Len(built) \in Nat /\ Len(todo) \in Nat
         /\ \E a, b \in Nat : /\ a <= Len(built) /\ Link(todo[1], a, b)
                              /\ Ready(Tail(todo), b)
<1>1. Sequence(built) /\ Sequence(todo) /\ Ready(todo, Len(built))
  BY DEF Inv
<1>2. Len(built) \in Nat /\ Len(todo) \in Nat
  BY <1>1, SequenceFacts
<1> QED BY <1>1, <1>2, First

\* If the first thing to do is replaced by others that leave as many trees, at
\* a place no attempt in the list is behind, the invariant is kept.
LEMMA Moved ==
  ASSUME Inv, todo # <<>>, NEW a, NEW b \in Nat, NEW c \in Nat, NEW items,
         UNCHANGED <<kit, tokens>>,
         pos' \in 1 .. Len(tokens) + 1, errors' \subseteq 1 .. Len(tokens),
         Sequence(built'),
         Ready(Tail(todo), c), c <= b, Leads(items, a, b, pos'), a <= Len(built'),
         Then(items),
         \A i \in 2 .. Len(todo) : todo[i].do = "trial" => todo[i].at <= pos',
         \/ Tail(todo) # <<>>
         \/ items # <<>> /\ items[Len(items)] \in Last
         \/ items = <<>> /\ Len(built') = 1
  PROVE  Inv'
<1> DEFINE rest == Tail(todo)
           after == items \o Tail(todo)
           m == Len(items)
           n == Len(Tail(todo))
<1>1. /\ Sequence(rest) /\ Sequence(items) /\ m \in Nat /\ n \in Nat /\ Len(todo) \in Nat
      /\ Len(todo) = n + 1 /\ \A i \in 1 .. n : rest[i] = todo[i + 1]
  BY TailFacts, SequenceFacts DEF Inv, Leads
<1>2. /\ Sequence(after) /\ Len(after) = m + n
      /\ \A i \in 1 .. m : after[i] = items[i]
      /\ \A i \in 1 .. n : after[m + i] = rest[i]
  BY <1>1, Concatenated
<1>3. todo' = after
  BY Zenon DEF Then
<1>4. Len(built') \in Nat /\ Len(tokens) \in Nat
  BY SequenceFacts DEF Inv
<1>5. Ready(after, Len(built'))
  <2>1. a \in Nat /\ Ready(after, a)
    BY <1>1, Prepended
  <2> HIDE DEF after
  <2> QED BY <1>2, <1>4, <2>1, MoreIsReady
<1> HIDE DEF rest, after, m, n
<1>6. /\ \A i \in 1 .. m : items[i].do = "trial" => items[i].at = pos'
      /\ \A i \in 1 .. n : rest[i].do = "trial" => rest[i].at \in 1 .. pos'
      /\ \A i, j \in 1 .. n : i < j /\ rest[i].do = "trial" /\ rest[j].do = "trial"
                                => rest[j].at <= rest[i].at
  <2>1. \A i \in 1 .. m : items[i].do = "trial" => items[i].at = pos'
    BY DEF Leads, m
  <2>2. \A i \in 1 .. n : i + 1 \in 2 .. Len(todo) /\ i + 1 \in 1 .. Len(todo)
    BY <1>1
  <2>3. Attempts(todo, pos) /\ pos \in Nat
    BY <1>4 DEF Inv
  <2>4. \A i \in 1 .. n : rest[i].do = "trial" => rest[i].at \in 1 .. pos'
    BY <1>1, <2>2, <2>3, <1>4 DEF Attempts
  <2>5. \A i, j \in 1 .. n : i < j /\ rest[i].do = "trial" /\ rest[j].do = "trial"
                                => rest[j].at <= rest[i].at
    <3> SUFFICES ASSUME NEW i \in 1 .. n, NEW j \in 1 .. n, i < j,
                        rest[i].do = "trial", rest[j].do = "trial"
                 PROVE  rest[j].at <= rest[i].at
      OBVIOUS
    <3>1. i + 1 < j + 1
      BY <1>1
    <3> QED BY <1>1, <2>2, <2>3, <3>1 DEF Attempts
  <2> QED BY <2>1, <2>4, <2>5
<1>7. Attempts(after, pos')
  <2>1. ASSUME NEW i \in 1 .. m + n
        PROVE  \/ i \in 1 .. m /\ after[i] = items[i]
               \/ i - m \in 1 .. n /\ after[i] = rest[i - m]
    <3>1. CASE i <= m
      BY <1>1, <1>2, <3>1, SMTT(30)
    <3>2. CASE i > m
      <4>1. i - m \in 1 .. n /\ m + (i - m) = i
        BY <1>1, <3>2, SMTT(30)
      <4>2. after[m + (i - m)] = rest[i - m]
        BY <1>2, <4>1
      <4> QED BY <4>1, <4>2
    <3>3. i <= m \/ i > m
      BY <1>1
    <3> QED BY <3>1, <3>2, <3>3
  <2>2. pos' \in Nat /\ pos' >= 1
    BY <1>4
  <2>3. ASSUME NEW i \in 1 .. Len(after), after[i].do = "trial" PROVE after[i].at \in 1 .. pos'
    <3>1. i \in 1 .. m + n
      BY <1>2
    <3> QED BY <1>6, <2>1, <2>2, <2>3, <3>1
  <2>4. ASSUME NEW i \in 1 .. Len(after), NEW j \in 1 .. Len(after), i < j,
               after[i].do = "trial", after[j].do = "trial"
        PROVE  after[j].at <= after[i].at
    <3>1. i \in 1 .. m + n /\ j \in 1 .. m + n
      BY <1>2
    <3>2. CASE i \in 1 .. m /\ after[i] = items[i]
      <4>1. after[i].at = pos' /\ after[j].at \in 1 .. pos'
        BY <3>2, <2>3, <2>4, <1>6
      <4> QED BY <4>1, <2>2
    <3>3. CASE i - m \in 1 .. n /\ after[i] = rest[i - m]
      <4>1. j - m \in 1 .. n /\ after[j] = rest[j - m]
        <5>1. j \notin 1 .. m
          BY <1>1, <2>4, <3>1, <3>3
        <5> QED BY <2>1, <3>1, <5>1
      <4>2. i - m < j - m
        BY <1>1, <2>4, <3>1
      <4> QED BY <1>6, <2>4, <3>3, <4>1, <4>2
    <3> QED BY <2>1, <3>1, <3>2, <3>3
  <2> QED BY <2>3, <2>4 DEF Attempts
<1>8. after # <<>> => after[Len(after)] \in Last
  <2> SUFFICES ASSUME after # <<>> PROVE after[Len(after)] \in Last
    OBVIOUS
  <2>1. CASE rest # <<>>
    <3>1. n >= 1 /\ n \in 1 .. n /\ Len(todo) = n + 1
      BY <2>1, <1>1, SequenceFacts DEF n, rest
    <3>2. after[m + n] = todo[Len(todo)]
      BY <3>1, <1>1, <1>2
    <3> QED BY <3>2, <1>2 DEF Inv
  <2>2. CASE rest = <<>>
    <3>1. n = 0
      <4>1. Len(<<>>) = 0
        OBVIOUS
      <4> QED BY <2>2, <4>1, Zenon DEF n, rest
    <3>2. m # 0
      BY <1>1, <1>2, <3>1, SequenceFacts
    <3>3. items # <<>>
      BY <3>2, <1>1, SequenceFacts DEF m
    <3>4. items[m] \in Last
      BY <2>2, <3>3 DEF rest, m
    <3>5. m \in 1 .. m /\ m + n = m
      BY <1>1, <3>1, <3>2
    <3> QED BY <1>2, <3>4, <3>5
  <2> QED BY <2>1, <2>2
<1>9. after = <<>> => Len(built') = 1
  <2> SUFFICES ASSUME after = <<>> PROVE Len(built') = 1
    OBVIOUS
  <2>1. m + n = 0
    BY <1>2
  <2>2. m = 0 /\ n = 0
    BY <1>1, <2>1
  <2>3. items = <<>>
    BY <1>1, <2>2, SequenceFacts DEF m
  <2>4. rest = <<>>
    <3>1. Len(rest) = 0 /\ Sequence(rest)
      BY <1>1, <2>2 DEF n, rest
    <3> QED BY <3>1, SequenceFacts
  <2> QED BY <2>3, <2>4 DEF rest
<1> QED BY <1>2, <1>3, <1>5, <1>7, <1>8, <1>9 DEF Inv

\* A function that goes on has a token to look at.
LEMMA Called ==
  ASSUME Inv, NEW f, Calls(f)
  PROVE  /\ todo # <<>> /\ todo[1].do = f /\ tokens # <<>>
         /\ kit' = kit /\ tokens' = tokens
<1>1. todo # <<>> /\ todo[1].do = f /\ kit' = kit /\ tokens' = tokens
  BY Zenon DEF Calls
<1>2. PICK k \in Nat : Sees(k)
  BY DEF Calls, Lookahead
<1>3. tokens # <<>>
  <2>1. Ended => tokens # <<>>
    BY Zenon DEF Ended
  <2>2. Len(tokens) \in Nat /\ pos \in Nat /\ pos >= 1 /\ (tokens # <<>> <=> Len(tokens) >= 1)
    BY SequenceFacts DEF Inv
  <2>3. Ended \/ pos + k <= Len(tokens)
    BY <1>2, Zenon DEF Sees
  <2> QED BY <2>1, <2>2, <2>3
<1> QED BY <1>1, <1>3

\* Whether a function advances or not and reports or not, it stays in the input.
LEMMA Places ==
  ASSUME Inv, tokens # <<>>, Advance \/ Stay, NoError \/ Report
  PROVE  /\ pos' \in 1 .. Len(tokens) + 1 /\ pos <= pos'
         /\ errors' \subseteq 1 .. Len(tokens)
<1>1. /\ Len(tokens) \in Nat /\ Len(tokens) >= 1 /\ pos \in 1 .. Len(tokens) + 1
      /\ errors \subseteq 1 .. Len(tokens)
  BY SequenceFacts DEF Inv
<1>2. pos' \in 1 .. Len(tokens) + 1 /\ pos <= pos'
  <2>1. CASE Advance
    BY <1>1, <2>1 DEF Advance
  <2>2. CASE Stay
    BY <1>1, <2>2 DEF Stay
  <2> QED BY <2>1, <2>2
<1>3. errors' \subseteq 1 .. Len(tokens)
  <2>1. CASE Report
    <3>1. (IF pos <= Len(tokens) THEN pos ELSE Len(tokens)) \in 1 .. Len(tokens)
      BY <1>1
    <3> QED BY <1>1, <2>1, <3>1 DEF Report
  <2>2. CASE NoError
    BY <1>1, <2>2 DEF NoError
  <2> QED BY <2>1, <2>2
<1> QED BY <1>2, <1>3

\* What is known of the first thing to do, with the trees that are there now.
LEMMA Finds ==
  ASSUME Inv, todo # <<>>
  PROVE  \E c \in Nat :
           /\ Ready(Tail(todo), c)
           /\ Based(todo[1]) => todo[1].base \in 0 .. Len(built) /\ c <= todo[1].base + 1
           /\ todo[1].do \in Makers => c <= Len(built) + 1
           /\ Needs(todo[1]) => Len(built) >= 1
           /\ ~ Based(todo[1]) /\ todo[1].do \notin Makers => c <= Len(built)
           /\ todo[1].do \in {"listed", "more"} => todo[1].f \in Makers
           /\ todo[1].do = "unit" => c = 0
<1>1. Len(built) \in Nat
  BY Begun
<1>2. PICK a \in Nat, c \in Nat :
        a <= Len(built) /\ Link(todo[1], a, c) /\ Ready(Tail(todo), c)
  BY Begun
<1>3. PICK x : x = todo[1]
  OBVIOUS
<1>4. /\ Based(x) => x.base \in Nat /\ x.base <= a /\ c <= x.base + 1
      /\ x.do \in Makers => c <= a + 1
      /\ Needs(x) => a >= 1
      /\ ~ Based(x) /\ x.do \notin Makers => c <= a
      /\ x.do \in {"listed", "more"} => x.f \in Makers
      /\ x.do = "unit" => c = 0
  BY <1>2, <1>3, Zenon DEF Link
<1>5. /\ Based(x) => x.base \in 0 .. Len(built) /\ c <= x.base + 1
      /\ x.do \in Makers => c <= Len(built) + 1
      /\ Needs(x) => Len(built) >= 1
      /\ ~ Based(x) /\ x.do \notin Makers => c <= Len(built)
      /\ x.do \in {"listed", "more"} => x.f \in Makers
      /\ x.do = "unit" => c = 0
  BY <1>1, <1>2, <1>4
<1> QED BY <1>2, <1>3, <1>5, Zenon

\* The last thing to do is the unit, and then its tree.
LEMMA Unfinished ==
  ASSUME Inv, todo # <<>>, todo[1].do \notin {"unit", "gather"}
  PROVE  Tail(todo) # <<>>
<1>1. todo[Len(todo)] \in Last /\ Len(todo) \in Nat /\ Len(todo) >= 1 /\ Sequence(todo)
  BY SequenceFacts DEF Inv
<1>2. \A x \in Last : x.do \in {"unit", "gather"}
  BY DEF Last, Do, Gather
<1>3. Len(todo) # 1
  BY <1>1, <1>2
<1>4. PICK rest : rest = Tail(todo)
  OBVIOUS
<1>5. Sequence(rest) /\ Len(rest) = Len(todo) - 1
  BY <1>1, <1>4, TailFacts
<1>6. Len(rest) >= 1
  BY <1>1, <1>3, <1>5
<1> QED BY <1>4, <1>5, <1>6, SequenceFacts, Zenon

\* A step that is neither the end of a tree nor of the whole.
LEMMA Turns ==
  ASSUME Inv, NEW f, Calls(f), f \notin {"unit", "gather", "trial"},
         NEW items, Then(items), Advance \/ Stay, NoError \/ Report,
         Sequence(built'), NEW a, NEW b \in Nat, Leads(items, a, b, pos'), a <= Len(built'),
         f \in Makers => Len(built) + 1 <= b, f \notin Makers => Len(built) <= b
  PROVE  Inv'
<1>1. todo # <<>> /\ todo[1].do = f /\ tokens # <<>> /\ UNCHANGED <<kit, tokens>>
  BY Called
<1>2. /\ pos' \in 1 .. Len(tokens) + 1 /\ pos <= pos'
      /\ errors' \subseteq 1 .. Len(tokens)
  BY <1>1, Places
<1>3. Len(built) \in Nat /\ Len(todo) \in Nat
  BY <1>1, Begun
<1>4. PICK c \in Nat :
           /\ Ready(Tail(todo), c)
           /\ Based(todo[1]) => todo[1].base \in 0 .. Len(built) /\ c <= todo[1].base + 1
           /\ todo[1].do \in Makers => c <= Len(built) + 1
           /\ Needs(todo[1]) => Len(built) >= 1
           /\ ~ Based(todo[1]) /\ todo[1].do \notin Makers => c <= Len(built)
           /\ todo[1].do \in {"listed", "more"} => todo[1].f \in Makers
  BY <1>1, Finds
<1>5. c <= b
  <2>1. ~ Based(todo[1])
    BY <1>1 DEF Based
  <2> QED BY <1>1, <1>3, <1>4, <2>1
<1>6. \A i \in 2 .. Len(todo) : todo[i].do = "trial" => todo[i].at <= pos'
  <2>1. Attempts(todo, pos) /\ pos \in Nat /\ pos' \in Nat
    BY <1>2, SequenceFacts DEF Inv
  <2> SUFFICES ASSUME NEW i \in 2 .. Len(todo), todo[i].do = "trial" PROVE todo[i].at <= pos'
    OBVIOUS
  <2>2. i \in 1 .. Len(todo)
    BY <1>3
  <2>3. todo[i].at \in 1 .. pos
    BY <2>1, <2>2 DEF Attempts
  <2> QED BY <1>2, <2>1, <2>3
<1>7. Tail(todo) # <<>>
  BY <1>1, Unfinished
<1> QED BY <1>1, <1>2, <1>4, <1>5, <1>6, <1>7, Moved

\* The same where nothing is built.
LEMMA TurnsTo ==
  ASSUME Inv, NEW f, Calls(f), f \notin {"unit", "gather", "trial"},
         NEW items, Then(items), Advance \/ Stay, NoError \/ Report, BuildNothing,
         NEW b \in Nat, Leads(items, Len(built), b, pos'),
         f \in Makers => Len(built) + 1 <= b, f \notin Makers => Len(built) <= b
  PROVE  Inv'
<1>1. Sequence(built') /\ built' = built /\ Len(built) \in Nat
  BY SequenceFacts DEF Inv, BuildNothing
<1>2. Len(built) <= Len(built')
  BY <1>1
<1> QED BY <1>1, <1>2, Turns

\* To do nothing leaves everything.
LEMMA Nothing ==
  ASSUME NEW a \in Nat, NEW p
  PROVE  Leads(<<>>, a, a, p)
<1> DEFINE counts == <<a>>
<1>1. counts \in Seq(Nat) /\ Len(counts) = 1 /\ counts[1] = a
  OBVIOUS
<1>2. <<>> \in Seq({}) /\ Len(<<>>) = 0 /\ \A i \in 1 .. 0 : FALSE
  OBVIOUS
<1>3. Linked(<<>>, counts)
  <2> HIDE DEF counts
  <2> QED BY <1>1, <1>2 DEF Linked
<1>4. Sequence(<<>>)
  BY <1>2, Zenon DEF Sequence
<1>5. counts[Len(<<>>) + 1] = a
  <2> HIDE DEF counts
  <2> QED BY <1>1, <1>2
<1> HIDE DEF counts
<1>6. \E cs : /\ Linked(<<>>, cs) /\ cs[1] = a /\ cs[Len(<<>>) + 1] = a
  BY <1>1, <1>3, <1>5, Zenon
<1> QED BY <1>2, <1>4, <1>6 DEF Leads

----------------------------------------------------------------------------
(* One lemma for each action.                                              *)


----------------------------------------------------------------------------
(* One lemma for each action.                                              *)

\* Sums that the steps below need.
LEMMA Numbers ==
  ASSUME Inv
  PROVE  \E n \in Nat :
           /\ Len(built) = n
           /\ n + 1 \in Nat /\ n + 2 \in Nat /\ n + 3 \in Nat
           /\ n + 1 >= 1 /\ (n + 1) + 1 = n + 2 /\ (n + 2) + 1 = n + 3
           /\ n \in 0 .. n /\ n \in 0 .. n + 1 /\ n \in 0 .. n + 2 /\ n \in 0 .. n + 3
           /\ n <= n /\ n <= n + 1 /\ n + 1 <= n + 1
<1>1. PICK n \in Nat : Len(built) = n
  BY SequenceFacts DEF Inv
<1> QED BY <1>1

\* The step ParseExpect keeps the invariant.
LEMMA ExpectKeepsInv ==
  ASSUME Inv, ParseExpect
  PROVE  Inv'
<1>1. /\ Calls("expect") /\ Then(<<>>) /\ BuildNothing
      /\ (Advance \/ Stay) /\ (NoError \/ Report)
  BY Zenon DEF ParseExpect, Return
<1>2. PICK n \in Nat : Len(built) = n /\ n <= n
  BY Numbers
<1>3. "expect" \notin Makers /\ "expect" \notin {"unit", "gather", "trial"}
  BY DEF Makers
<1> QED BY <1>1, <1>2, <1>3, Nothing, TurnsTo, Zenon

\* The step NotVoid keeps the invariant.
LEMMA NotVoidKeepsInv ==
  ASSUME Inv, NotVoid
  PROVE  Inv'
<1>1. /\ Calls("not void") /\ Then(<<>>) /\ BuildNothing /\ Stay /\ (NoError \/ Report)
  BY Zenon DEF NotVoid, Return
<1>2. PICK n \in Nat : Len(built) = n /\ n <= n
  BY Numbers
<1>3. "not void" \notin Makers /\ "not void" \notin {"unit", "gather", "trial"}
  BY Zenon DEF Makers
<1> QED BY <1>1, <1>2, <1>3, Nothing, TurnsTo, Zenon

\* The step ParseVarDecl keeps the invariant.
LEMMA VarDeclKeepsInv ==
  ASSUME Inv, ParseVarDecl
  PROVE  Inv'
<1>1. PICK k, t :
        /\ Calls("var") /\ BuildNothing /\ (Advance \/ Stay) /\ NoError
        /\ Then(<<Do("type"), Do("not void"), Do("def"), More("def"), Expect(t),
                  Gather(k, Len(built))>>)
  BY Zenon DEF ParseVarDecl
<1>2. PICK n \in Nat : /\ Len(built) = n /\ n + 1 \in Nat /\ n + 2 \in Nat /\ n + 1 >= 1
                       /\ n \in 0 .. n + 2 /\ (n + 1) + 1 = n + 2 /\ n + 1 <= n + 1
  BY Numbers
<1>3. "var" \in Makers /\ "type" \in Makers /\ "def" \in Makers
      /\ "var" \notin {"unit", "gather", "trial"}
  BY DEF Makers
<1>4. "not void" \in Users
  BY Zenon DEF Users
<1>5. /\ Fits(Do("type"), n, n + 1, pos') /\ Fits(Do("not void"), n + 1, n + 1, pos')
      /\ Fits(Do("def"), n + 1, n + 2, pos') /\ Fits(More("def"), n + 2, n + 2, pos')
      /\ Fits(Expect(t), n + 2, n + 2, pos') /\ Fits(Gather(k, n), n + 2, n + 1, pos')
  BY <1>2, <1>3, <1>4, MakeFits, NeedFits, ListFits, ExpectFits, GatherFits, Zenon
<1>6. Leads(<<Do("type"), Do("not void"), Do("def"), More("def"), Expect(t), Gather(k, n)>>,
            n, n + 1, pos')
  BY <1>2, <1>5, Leads6, Zenon
<1> QED BY <1>1, <1>2, <1>3, <1>6, TurnsTo, Zenon

\* The step ParseVarDef keeps the invariant.
LEMMA VarDefKeepsInv ==
  ASSUME Inv, ParseVarDef
  PROVE  Inv'
<1>1. PICK k : /\ Calls("def") /\ BuildNothing /\ Stay /\ NoError
               /\ Then(<<Do("name"), Brackets("dim"), Do("initialiser"), Gather(k, Len(built))>>)
  BY Zenon DEF ParseVarDef
<1>2. PICK n \in Nat : /\ Len(built) = n /\ n + 1 \in Nat /\ n \in 0 .. n + 1 /\ n + 1 <= n + 1
  BY Numbers
<1>3. "def" \in Makers /\ "name" \in Makers /\ "dim" # "elem" /\ "initialiser" \in Keepers
      /\ "def" \notin {"unit", "gather", "trial"}
  BY Zenon DEF Makers, Keepers
<1>4. Leads(<<Do("name"), Brackets("dim"), Do("initialiser"), Gather(k, n)>>, n, n + 1, pos')
  BY <1>2, <1>3, MakeFits, BracketsFit, KeepFits, GatherFits, Leads4, Zenon
<1> QED BY <1>1, <1>2, <1>3, <1>4, TurnsTo, Zenon

\* The step ParseInitialiser keeps the invariant.
LEMMA InitialiserKeepsInv ==
  ASSUME Inv, ParseInitialiser
  PROVE  Inv'
<1>1. /\ Calls("initialiser") /\ BuildNothing /\ NoError
      /\ (Advance /\ Then(<<Do("init")>>)) \/ (Stay /\ Then(<<>>))
  BY Zenon DEF ParseInitialiser, IfMatch, Return
<1>2. PICK n \in Nat : Len(built) = n /\ n + 1 \in Nat /\ n <= n /\ n <= n + 1
  BY Numbers
<1>3. "initialiser" \notin Makers /\ "initialiser" \notin {"unit", "gather", "trial"} /\ "init" \in Makers
  BY Zenon DEF Makers
<1>4. Leads(<<Do("init")>>, n, n + 1, pos')
  BY <1>2, <1>3, MakeFits, Leads1, Zenon
<1> QED BY <1>1, <1>2, <1>3, <1>4, Nothing, TurnsTo, Zenon

\* The step ParseInitVal keeps the invariant.
LEMMA InitValKeepsInv ==
  ASSUME Inv, ParseInitVal
  PROVE  Inv'
<1>1. PICK k, t :
        /\ Calls("init") /\ BuildNothing /\ NoError
        /\ \/ Advance /\ Then(<<Do("elements"), Expect(t), Gather(k, Len(built))>>)
           \/ Stay /\ Then(<<Do("expr")>>)
  BY Zenon DEF ParseInitVal
<1>2. PICK n \in Nat : /\ Len(built) = n /\ n + 1 \in Nat /\ n \in 0 .. n /\ n + 1 <= n + 1
  BY Numbers
<1>3. "init" \in Makers /\ "init" \notin {"unit", "gather", "trial"} /\ "expr" \in Makers
      /\ "elements" \in Keepers
  BY Zenon DEF Makers, Keepers
<1>4. Leads(<<Do("elements"), Expect(t), Gather(k, n)>>, n, n + 1, pos')
  BY <1>2, <1>3, KeepFits, ExpectFits, GatherFits, Leads3, Zenon
<1>5. Leads(<<Do("expr")>>, n, n + 1, pos')
  BY <1>2, <1>3, MakeFits, Leads1, Zenon
<1> QED BY <1>1, <1>2, <1>3, <1>4, <1>5, TurnsTo, Zenon

\* The step ParseElements keeps the invariant.
LEMMA ElementsKeepInv ==
  ASSUME Inv, ParseElements
  PROVE  Inv'
<1>1. /\ Calls("elements") /\ BuildNothing /\ NoError /\ Stay
      /\ Then(<<>>) \/ Then(<<Do("init"), Do("more elements")>>)
  BY Zenon DEF ParseElements
<1>2. PICK n \in Nat : Len(built) = n /\ n + 1 \in Nat /\ n <= n /\ n <= n + 1
  BY Numbers
<1>3. "elements" \notin Makers /\ "elements" \notin {"unit", "gather", "trial"} /\ "init" \in Makers
  BY Zenon DEF Makers
<1>4. "more elements" \in Keepers
  BY Zenon DEF Keepers
<1>5. Leads(<<Do("init"), Do("more elements")>>, n, n + 1, pos')
  BY <1>2, <1>3, <1>4, MakeFits, KeepFits, Leads2, Zenon
<1> QED BY <1>1, <1>2, <1>3, <1>5, Nothing, TurnsTo, Zenon

\* The step ParseMoreElements keeps the invariant.
LEMMA MoreElementsKeepInv ==
  ASSUME Inv, ParseMoreElements
  PROVE  Inv'
<1>1. /\ Calls("more elements") /\ BuildNothing /\ NoError
      /\ (Advance /\ Then(<<Do("elements")>>)) \/ (Stay /\ Then(<<>>))
  BY Zenon DEF ParseMoreElements, IfMatch, Return
<1>2. PICK n \in Nat : Len(built) = n /\ n <= n
  BY Numbers
<1>3. "more elements" \notin Makers /\ "more elements" \notin {"unit", "gather", "trial"}
  BY Zenon DEF Makers
<1>4. "elements" \in Keepers
  BY Zenon DEF Keepers
<1>5. Leads(<<Do("elements")>>, n, n, pos')
  BY <1>2, <1>4, KeepFits, Leads1, Zenon
<1> QED BY <1>1, <1>2, <1>3, <1>5, Nothing, TurnsTo, Zenon

\* The step ParseListed keeps the invariant.
LEMMA ListedKeepsInv ==
  ASSUME Inv, ParseListed
  PROVE  Inv'
<1>1. PICK f : /\ f = todo[1].f
               /\ Calls("listed") /\ BuildNothing /\ NoError /\ Stay
               /\ Then(<<>>) \/ Then(<<Do(f), More(f)>>)
  BY Zenon DEF ParseListed
<1>2. PICK n \in Nat : Len(built) = n /\ n + 1 \in Nat /\ n <= n /\ n <= n + 1
  BY Numbers
<1>3. "listed" \notin Makers /\ "listed" \notin {"unit", "gather", "trial"}
  BY Zenon DEF Makers
<1>4. f \in Makers
  BY <1>1, Called, Finds
<1>5. Leads(<<Do(f), More(f)>>, n, n + 1, pos')
  BY <1>2, <1>4, MakeFits, ListFits, Leads2, Zenon
<1> QED BY <1>1, <1>2, <1>3, <1>5, Nothing, TurnsTo, Zenon

\* The step ParseMore keeps the invariant.
LEMMA MoreKeepsInv ==
  ASSUME Inv, ParseMore
  PROVE  Inv'
<1>1. PICK f : /\ f = todo[1].f
               /\ Calls("more") /\ BuildNothing /\ NoError
               /\ (Advance /\ Then(<<Do(f), More(f)>>)) \/ (Stay /\ Then(<<>>))
  BY Zenon DEF ParseMore, IfMatch, Return
<1>2. PICK n \in Nat : Len(built) = n /\ n + 1 \in Nat /\ n <= n /\ n <= n + 1
  BY Numbers
<1>3. "more" \notin Makers /\ "more" \notin {"unit", "gather", "trial"}
  BY Zenon DEF Makers
<1>4. f \in Makers
  BY <1>1, Called, Finds
<1>5. Leads(<<Do(f), More(f)>>, n, n + 1, pos')
  BY <1>2, <1>4, MakeFits, ListFits, Leads2, Zenon
<1> QED BY <1>1, <1>2, <1>3, <1>5, Nothing, TurnsTo, Zenon

\* The step ParseBrackets keeps the invariant.
LEMMA BracketsKeepInv ==
  ASSUME Inv, ParseBrackets
  PROVE  Inv'
<1>1. PICK k, before, t :
        /\ k = todo[1].k /\ before = IF k = "elem" THEN 1 ELSE 0
        /\ Calls("brackets") /\ BuildNothing /\ NoError
        /\ \/ Advance /\ Then(<<Do("expr"), Expect(t), Gather(k, Len(built) - before), Brackets(k)>>)
           \/ Stay /\ Then(<<>>)
  BY Zenon DEF ParseBrackets, IfMatch, Return
<1>2. PICK n \in Nat : Len(built) = n /\ n + 1 \in Nat /\ n <= n
  BY Numbers
<1>3. "brackets" \notin Makers /\ "brackets" \notin {"unit", "gather", "trial"} /\ "expr" \in Makers
  BY Zenon DEF Makers
<1>4. k = "elem" => n >= 1
  BY <1>1, <1>2, Called, Finds DEF Needs
<1>5. PICK b \in 0 .. n + 1 : b = n - before
  BY <1>1, <1>2, <1>4
<1>6. b + 1 \in Nat /\ (k = "elem" => b + 1 >= 1) /\ n <= b + 1
  BY <1>1, <1>2, <1>5
<1>7. Leads(<<Do("expr"), Expect(t), Gather(k, b), Brackets(k)>>, n, b + 1, pos')
  BY <1>2, <1>3, <1>5, <1>6, MakeFits, ExpectFits, GatherFits, BracketsFit, Leads4, Zenon
<1> QED BY <1>1, <1>2, <1>3, <1>5, <1>6, <1>7, Nothing, TurnsTo, Zenon

\* The step ParseFuncDef keeps the invariant.
LEMMA FuncDefKeepsInv ==
  ASSUME Inv, ParseFuncDef
  PROVE  Inv'
<1>1. PICK k, s, t :
        /\ Calls("function") /\ BuildNothing /\ NoError /\ Stay
        /\ Then(<<Do("type"), Do("name"), Expect(s), Listed("param"), Expect(t), Do("block"),
                  Gather(k, Len(built))>>)
  BY Zenon DEF ParseFuncDef
<1>2. PICK n \in Nat : /\ Len(built) = n /\ n + 1 \in Nat /\ n + 2 \in Nat /\ n + 3 \in Nat
                       /\ n \in 0 .. n + 3 /\ (n + 1) + 1 = n + 2 /\ (n + 2) + 1 = n + 3
                       /\ n + 1 <= n + 1
  BY Numbers
<1>3. "function" \in Makers /\ "type" \in Makers /\ "name" \in Makers /\ "param" \in Makers
      /\ "block" \in Makers /\ "function" \notin {"unit", "gather", "trial"}
  BY Zenon DEF Makers
<1>4. /\ Fits(Do("type"), n, n + 1, pos') /\ Fits(Do("name"), n + 1, n + 2, pos')
      /\ Fits(Expect(s), n + 2, n + 2, pos') /\ Fits(Listed("param"), n + 2, n + 2, pos')
      /\ Fits(Expect(t), n + 2, n + 2, pos') /\ Fits(Do("block"), n + 2, n + 3, pos')
      /\ Fits(Gather(k, n), n + 3, n + 1, pos')
  BY <1>2, <1>3, MakeFits, ListFits, ExpectFits, GatherFits, Zenon
<1>5. Leads(<<Do("type"), Do("name"), Expect(s), Listed("param"), Expect(t), Do("block"),
              Gather(k, n)>>, n, n + 1, pos')
  BY <1>2, <1>4, Leads7, Zenon
<1> QED BY <1>1, <1>2, <1>3, <1>5, TurnsTo, Zenon

\* The step ParseFuncParam keeps the invariant.
LEMMA FuncParamKeepsInv ==
  ASSUME Inv, ParseFuncParam
  PROVE  Inv'
<1>1. PICK k : /\ Calls("param") /\ BuildNothing /\ NoError /\ Stay
               /\ Then(<<Do("type"), Do("name"), Do("open"), Gather(k, Len(built))>>)
  BY Zenon DEF ParseFuncParam
<1>2. PICK n \in Nat : /\ Len(built) = n /\ n + 1 \in Nat /\ n + 2 \in Nat
                       /\ n \in 0 .. n + 2 /\ (n + 1) + 1 = n + 2 /\ n + 1 <= n + 1
  BY Numbers
<1>3. "param" \in Makers /\ "type" \in Makers /\ "name" \in Makers
      /\ "open" \in Keepers /\ "param" \notin {"unit", "gather", "trial"}
  BY Zenon DEF Makers, Keepers
<1>4. /\ Fits(Do("type"), n, n + 1, pos') /\ Fits(Do("name"), n + 1, n + 2, pos')
      /\ Fits(Do("open"), n + 2, n + 2, pos') /\ Fits(Gather(k, n), n + 2, n + 1, pos')
  BY <1>2, <1>3, MakeFits, KeepFits, GatherFits, Zenon
<1>5. Leads(<<Do("type"), Do("name"), Do("open"), Gather(k, n)>>, n, n + 1, pos')
  BY <1>2, <1>4, Leads4, Zenon
<1> QED BY <1>1, <1>2, <1>3, <1>5, TurnsTo, Zenon

\* The step ParseOpenDimension keeps the invariant.
LEMMA OpenDimensionKeepsInv ==
  ASSUME Inv, ParseOpenDimension
  PROVE  Inv'
<1>1. PICK k, t :
        /\ Calls("open") /\ BuildNothing /\ NoError
        /\ \/ Advance /\ Then(<<Expect(t), Gather(k, Len(built)), Brackets("dim")>>)
           \/ Stay /\ Then(<<>>)
  BY Zenon DEF ParseOpenDimension, IfMatch, Return
<1>2. PICK n \in Nat : /\ Len(built) = n /\ n + 1 \in Nat /\ n \in 0 .. n /\ n <= n /\ n <= n + 1
  BY Numbers
<1>3. "open" \notin Makers /\ "open" \notin {"unit", "gather", "trial"} /\ "dim" # "elem"
  BY Zenon DEF Makers
<1>4. Leads(<<Expect(t), Gather(k, n), Brackets("dim")>>, n, n + 1, pos')
  BY <1>2, <1>3, ExpectFits, GatherFits, BracketsFit, Leads3, Zenon
<1> QED BY <1>1, <1>2, <1>3, <1>4, Nothing, TurnsTo, Zenon

\* The step ParseBlock keeps the invariant.
LEMMA BlockKeepsInv ==
  ASSUME Inv, ParseBlock
  PROVE  Inv'
<1>1. PICK k, s, t :
        /\ Calls("block") /\ BuildNothing /\ NoError /\ Stay
        /\ Then(<<Expect(s), Do("items"), Expect(t), Gather(k, Len(built))>>)
  BY Zenon DEF ParseBlock
<1>2. PICK n \in Nat : /\ Len(built) = n /\ n + 1 \in Nat /\ n \in 0 .. n /\ n + 1 <= n + 1
  BY Numbers
<1>3. "block" \in Makers /\ "block" \notin {"unit", "gather", "trial"} /\ "items" \in Keepers
  BY Zenon DEF Makers, Keepers
<1>4. Leads(<<Expect(s), Do("items"), Expect(t), Gather(k, n)>>, n, n + 1, pos')
  BY <1>2, <1>3, ExpectFits, GatherFits, KeepFits, Leads4, Zenon
<1> QED BY <1>1, <1>2, <1>3, <1>4, TurnsTo, Zenon

\* The step ParseItems keeps the invariant.
LEMMA ItemsKeepInv ==
  ASSUME Inv, ParseItems
  PROVE  Inv'
<1>1. PICK f \in {"var", "stmt"} :
        /\ Calls("items") /\ BuildNothing /\ NoError /\ Stay
        /\ Then(<<>>) \/ Then(<<Do(f), Do("items")>>)
  BY Zenon DEF ParseItems
<1>2. PICK n \in Nat : Len(built) = n /\ n + 1 \in Nat /\ n <= n /\ n <= n + 1
  BY Numbers
<1>3. "items" \notin Makers /\ "items" \notin {"unit", "gather", "trial"}
      /\ "items" \in Keepers /\ f \in Makers
  BY <1>1, Zenon DEF Makers, Keepers
<1>4. Leads(<<Do(f), Do("items")>>, n, n + 1, pos')
  BY <1>2, <1>3, MakeFits, KeepFits, Leads2, Zenon
<1> QED BY <1>1, <1>2, <1>3, <1>4, Nothing, TurnsTo, Zenon

\* The step ParseElse keeps the invariant.
LEMMA ElseKeepsInv ==
  ASSUME Inv, ParseElse
  PROVE  Inv'
<1>1. /\ Calls("else") /\ BuildNothing /\ NoError
      /\ (Advance /\ Then(<<Do("stmt")>>)) \/ (Stay /\ Then(<<>>))
  BY Zenon DEF ParseElse, IfMatch, Return
<1>2. PICK n \in Nat : Len(built) = n /\ n + 1 \in Nat /\ n <= n /\ n <= n + 1
  BY Numbers
<1>3. "else" \notin Makers /\ "else" \notin {"unit", "gather", "trial"} /\ "stmt" \in Makers
  BY Zenon DEF Makers
<1>4. Leads(<<Do("stmt")>>, n, n + 1, pos')
  BY <1>2, <1>3, MakeFits, Leads1, Zenon
<1> QED BY <1>1, <1>2, <1>3, <1>4, Nothing, TurnsTo, Zenon

\* The step ParseResult keeps the invariant.
LEMMA ResultKeepsInv ==
  ASSUME Inv, ParseResult
  PROVE  Inv'
<1>1. /\ Calls("result") /\ BuildNothing /\ NoError /\ Stay
      /\ Then(<<>>) \/ Then(<<Do("expr")>>)
  BY Zenon DEF ParseResult
<1>2. PICK n \in Nat : Len(built) = n /\ n + 1 \in Nat /\ n <= n /\ n <= n + 1
  BY Numbers
<1>3. "result" \notin Makers /\ "result" \notin {"unit", "gather", "trial"} /\ "expr" \in Makers
  BY Zenon DEF Makers
<1>4. Leads(<<Do("expr")>>, n, n + 1, pos')
  BY <1>2, <1>3, MakeFits, Leads1, Zenon
<1> QED BY <1>1, <1>2, <1>3, <1>4, Nothing, TurnsTo, Zenon

\* The step ParseExpr keeps the invariant.
LEMMA ExprKeepsInv ==
  ASSUME Inv, ParseExpr
  PROVE  Inv'
<1>1. PICK hi, lo : /\ Calls("expr") /\ BuildNothing /\ NoError /\ Stay
                    /\ Then(<<Do("unary"), Rest(hi, lo)>>)
  BY Zenon DEF ParseExpr
<1>2. PICK n \in Nat : Len(built) = n /\ n + 1 \in Nat /\ n + 1 >= 1 /\ n + 1 <= n + 1
  BY Numbers
<1>3. "expr" \in Makers /\ "expr" \notin {"unit", "gather", "trial"} /\ "unary" \in Makers
  BY Zenon DEF Makers
<1>4. Leads(<<Do("unary"), Rest(hi, lo)>>, n, n + 1, pos')
  BY <1>2, <1>3, MakeFits, RestFits, Leads2, Zenon
<1> QED BY <1>1, <1>2, <1>3, <1>4, TurnsTo, Zenon

\* The step ParseRest keeps the invariant.
LEMMA RestKeepsInv ==
  ASSUME Inv, ParseRest
  PROVE  Inv'
<1>1. PICK hi1, lo1, k, hi2, lo2 :
        /\ Calls("rest") /\ BuildNothing /\ NoError
        /\ \/ Stay /\ Then(<<>>)
           \/ Advance /\ Then(<<Do("unary"), Rest(hi1, lo1), Gather(k, Len(built) - 1), Rest(hi2, lo2)>>)
  BY Zenon DEF ParseRest, Return
<1>2. PICK n \in Nat : Len(built) = n /\ n + 1 \in Nat /\ n + 1 >= 1 /\ n <= n
  BY Numbers
<1>3. "rest" \notin Makers /\ "rest" \notin {"unit", "gather", "trial"} /\ "unary" \in Makers
  BY Zenon DEF Makers
<1>4. n >= 1
  BY <1>1, <1>2, Called, Finds DEF Needs
<1>5. n - 1 \in 0 .. n + 1 /\ (n - 1) + 1 = n
  BY <1>4
<1>6. /\ Fits(Do("unary"), n, n + 1, pos') /\ Fits(Rest(hi1, lo1), n + 1, n + 1, pos')
      /\ Fits(Gather(k, n - 1), n + 1, n, pos') /\ Fits(Rest(hi2, lo2), n, n, pos')
  BY <1>2, <1>3, <1>4, <1>5, MakeFits, RestFits, GatherFits, Zenon
<1>7. Leads(<<Do("unary"), Rest(hi1, lo1), Gather(k, n - 1), Rest(hi2, lo2)>>, n, n, pos')
  BY <1>2, <1>6, Leads4, Zenon
<1> QED BY <1>1, <1>2, <1>3, <1>7, Nothing, TurnsTo, Zenon

\* The step ParseUnary keeps the invariant.
LEMMA UnaryKeepsInv ==
  ASSUME Inv, ParseUnary
  PROVE  Inv'
<1>1. PICK k : /\ Calls("unary") /\ BuildNothing /\ NoError
               /\ \/ Advance /\ Then(<<Do("unary"), Gather(k, Len(built))>>)
                  \/ Stay /\ Then(<<Do("primary"), Brackets("elem")>>)
  BY Zenon DEF ParseUnary
<1>2. PICK n \in Nat : /\ Len(built) = n /\ n + 1 \in Nat /\ n + 1 >= 1 /\ n \in 0 .. n + 1
                       /\ n + 1 <= n + 1
  BY Numbers
<1>3. "unary" \in Makers /\ "unary" \notin {"unit", "gather", "trial"} /\ "primary" \in Makers
  BY Zenon DEF Makers
<1>4. Leads(<<Do("unary"), Gather(k, n)>>, n, n + 1, pos')
  BY <1>2, <1>3, MakeFits, GatherFits, Leads2, Zenon
<1>5. Leads(<<Do("primary"), Brackets("elem")>>, n, n + 1, pos')
  BY <1>2, <1>3, MakeFits, BracketsFit, Leads2, Zenon
<1> QED BY <1>1, <1>2, <1>3, <1>4, <1>5, TurnsTo, Zenon

\* The step ParseCall keeps the invariant.
LEMMA CallKeepsInv ==
  ASSUME Inv, ParseCall
  PROVE  Inv'
<1>1. PICK k, t :
        /\ Calls("call") /\ BuildNothing /\ NoError
        /\ \/ Advance /\ Then(<<Listed("expr"), Expect(t), Gather(k, Len(built) - 1)>>)
           \/ Stay /\ Then(<<>>)
  BY Zenon DEF ParseCall, IfMatch, Return
<1>2. PICK n \in Nat : Len(built) = n /\ n <= n
  BY Numbers
<1>3. "call" \notin Makers /\ "call" \notin {"unit", "gather", "trial"} /\ "expr" \in Makers
  BY Zenon DEF Makers
<1>4. n >= 1
  BY <1>1, <1>2, Called, Finds DEF Needs
<1>5. n - 1 \in 0 .. n /\ (n - 1) + 1 = n
  BY <1>4
<1>6. Leads(<<Listed("expr"), Expect(t), Gather(k, n - 1)>>, n, n, pos')
  BY <1>2, <1>3, <1>5, ListFits, ExpectFits, GatherFits, Leads3, Zenon
<1> QED BY <1>1, <1>2, <1>3, <1>6, Nothing, TurnsTo, Zenon

\* One more tree.
LEMMA Built ==
  ASSUME Inv, NEW tree, Build(tree)
  PROVE  \E n \in Nat : /\ Len(built) = n /\ Sequence(built') /\ Len(built') = n + 1
                        /\ n + 1 \in Nat /\ n + 1 <= n + 1
<1>1. PICK n \in Nat : Len(built) = n
  BY SequenceFacts DEF Inv
<1>2. Sequence(built') /\ Len(built') = n + 1
  BY <1>1, Appended DEF Inv, Build
<1> QED BY <1>1, <1>2

\* The step of a function that makes a leaf and returns.
LEMMA LeafKeepsInv ==
  ASSUME Inv, NEW f \in Makers, Calls(f), NEW tree, Build(tree), Then(<<>>),
         Advance \/ Stay, NoError \/ Report
  PROVE  Inv'
<1>1. PICK n \in Nat : /\ Len(built) = n /\ Sequence(built') /\ Len(built') = n + 1
                       /\ n + 1 \in Nat /\ n + 1 <= n + 1
  BY Built
<1>2. f \notin {"unit", "gather", "trial"}
  BY DEF Makers
<1> QED BY <1>1, <1>2, Nothing, Turns, Zenon

\* The step ParseType keeps the invariant.
LEMMA TypeKeepsInv ==
  ASSUME Inv, ParseType
  PROVE  Inv'
<1>1. PICK tree : /\ Calls("type") /\ Build(tree) /\ Then(<<>>)
                  /\ (Advance \/ Stay) /\ (NoError \/ Report)
  BY Zenon DEF ParseType, Return
<1>2. "type" \in Makers
  BY Zenon DEF Makers
<1> QED BY <1>1, <1>2, LeafKeepsInv, Zenon

\* The step ParseName keeps the invariant.
LEMMA NameKeepsInv ==
  ASSUME Inv, ParseName
  PROVE  Inv'
<1>1. PICK tree : /\ Calls("name") /\ Build(tree) /\ Then(<<>>)
                  /\ (Advance \/ Stay) /\ (NoError \/ Report)
  BY Zenon DEF ParseName, Return
<1>2. "name" \in Makers
  BY Zenon DEF Makers
<1> QED BY <1>1, <1>2, LeafKeepsInv, Zenon

\* The step ParsePrimary keeps the invariant.
LEMMA PrimaryKeepsInv ==
  ASSUME Inv, ParsePrimary
  PROVE  Inv'
<1>1. PICK t, tree :
        /\ Calls("primary") /\ Advance /\ (NoError \/ Report)
        /\ \/ Then(<<Do("expr"), Expect(t)>>) /\ BuildNothing
           \/ Then(<<>>) /\ Build(tree)
           \/ Then(<<Do("call")>>) /\ Build(tree)
  BY Zenon DEF ParsePrimary, Return
<1>2. /\ "primary" \in Makers /\ "primary" \notin {"unit", "gather", "trial"} /\ "expr" \in Makers
      /\ "call" \in Users
  BY Zenon DEF Makers, Users
<1>3. CASE Then(<<Do("expr"), Expect(t)>>) /\ BuildNothing
  <2>1. PICK n \in Nat : Len(built) = n /\ n + 1 \in Nat /\ n + 1 <= n + 1
    BY Numbers
  <2>2. Leads(<<Do("expr"), Expect(t)>>, n, n + 1, pos')
    BY <1>2, <2>1, MakeFits, ExpectFits, Leads2, Zenon
  <2> QED BY <1>1, <1>2, <1>3, <2>1, <2>2, TurnsTo, Zenon
<1>4. CASE Then(<<>>) /\ Build(tree)
  BY <1>1, <1>2, <1>4, LeafKeepsInv, Zenon
<1>5. CASE Then(<<Do("call")>>) /\ Build(tree)
  <2>1. PICK n \in Nat : /\ Len(built) = n /\ Sequence(built') /\ Len(built') = n + 1
                         /\ n + 1 \in Nat /\ n + 1 <= n + 1
    BY <1>5, Built
  <2>2. n + 1 >= 1
    BY <2>1
  <2>3. Leads(<<Do("call")>>, n + 1, n + 1, pos')
    BY <1>2, <2>1, <2>2, NeedFits, Leads1, Zenon
  <2> QED BY <1>1, <1>2, <1>5, <2>1, <2>3, Turns, Zenon
<1> QED BY <1>1, <1>3, <1>4, <1>5, Zenon

\* The step ParseStmt keeps the invariant.
LEMMA StmtKeepsInv ==
  ASSUME Inv, ParseStmt
  PROVE  Inv'
<1>1. PICK n \in Nat : /\ Len(built) = n /\ n + 1 \in Nat /\ n + 2 \in Nat /\ n + 3 \in Nat
                       /\ n + 1 >= 1 /\ (n + 1) + 1 = n + 2 /\ (n + 2) + 1 = n + 3
                       /\ n \in 0 .. n /\ n \in 0 .. n + 1 /\ n \in 0 .. n + 2 /\ n \in 0 .. n + 3
                       /\ n + 1 <= n + 1
  BY Numbers
<1>2. PICK k, s, t :
        /\ Calls("stmt") /\ BuildNothing /\ NoError
        /\ \/ Stay /\ Then(<<Do("block")>>)
           \/ Advance /\ Then(<<Expect(s), Do("expr"), Expect(t), Do("stmt"), Do("else"),
                                Gather(k, Len(built))>>)
           \/ Advance /\ Then(<<Expect(s), Do("expr"), Expect(t), Do("stmt"), Gather(k, Len(built))>>)
           \/ Advance /\ Then(<<Expect(s), Gather(k, Len(built))>>)
           \/ Advance /\ Then(<<Do("result"), Expect(s), Gather(k, Len(built))>>)
           \/ Advance /\ Then(<<Gather(k, Len(built))>>)
           \/ Stay /\ Then(<<Do("name"), Brackets("elem"), Trial(pos, Len(built))>>)
           \/ Stay /\ Then(<<Do("expr"), Expect(s), Gather(k, Len(built))>>)
  BY Zenon DEF ParseStmt
<1>3. /\ "stmt" \in Makers /\ "stmt" \notin {"unit", "gather", "trial"} /\ "expr" \in Makers
      /\ "block" \in Makers /\ "name" \in Makers /\ "else" \in Keepers /\ "result" \in Keepers
  BY Zenon DEF Makers, Keepers
<1>4. CASE Stay /\ Then(<<Do("block")>>)
  <2>1. Leads(<<Do("block")>>, n, n + 1, pos')
    BY <1>1, <1>3, MakeFits, Leads1, Zenon
  <2> QED BY <1>4, <2>1, <1>1, <1>2, <1>3, TurnsTo, Zenon
<1>5. CASE Advance /\ Then(<<Expect(s), Do("expr"), Expect(t), Do("stmt"), Do("else"),
                             Gather(k, Len(built))>>)
  <2>1. /\ Fits(Expect(s), n, n, pos') /\ Fits(Do("expr"), n, n + 1, pos')
        /\ Fits(Expect(t), n + 1, n + 1, pos') /\ Fits(Do("stmt"), n + 1, n + 2, pos')
        /\ Fits(Do("else"), n + 2, n + 2, pos') /\ Fits(Gather(k, n), n + 2, n + 1, pos')
    BY <1>1, <1>3, MakeFits, KeepFits, ExpectFits, GatherFits, Zenon
  <2>2. Leads(<<Expect(s), Do("expr"), Expect(t), Do("stmt"), Do("else"), Gather(k, n)>>,
              n, n + 1, pos')
    BY <1>1, <2>1, Leads6, Zenon
  <2> QED BY <1>5, <2>2, <1>1, <1>2, <1>3, TurnsTo, Zenon
<1>6. CASE Advance /\ Then(<<Expect(s), Do("expr"), Expect(t), Do("stmt"), Gather(k, Len(built))>>)
  <2>1. /\ Fits(Expect(s), n, n, pos') /\ Fits(Do("expr"), n, n + 1, pos')
        /\ Fits(Expect(t), n + 1, n + 1, pos') /\ Fits(Do("stmt"), n + 1, n + 2, pos')
        /\ Fits(Gather(k, n), n + 2, n + 1, pos')
    BY <1>1, <1>3, MakeFits, ExpectFits, GatherFits, Zenon
  <2>2. Leads(<<Expect(s), Do("expr"), Expect(t), Do("stmt"), Gather(k, n)>>, n, n + 1, pos')
    BY <1>1, <2>1, Leads5, Zenon
  <2> QED BY <1>6, <2>2, <1>1, <1>2, <1>3, TurnsTo, Zenon
<1>7. CASE Advance /\ Then(<<Expect(s), Gather(k, Len(built))>>)
  <2>1. Leads(<<Expect(s), Gather(k, n)>>, n, n + 1, pos')
    BY <1>1, ExpectFits, GatherFits, Leads2, Zenon
  <2> QED BY <1>7, <2>1, <1>1, <1>2, <1>3, TurnsTo, Zenon
<1>8. CASE Advance /\ Then(<<Do("result"), Expect(s), Gather(k, Len(built))>>)
  <2>1. Leads(<<Do("result"), Expect(s), Gather(k, n)>>, n, n + 1, pos')
    BY <1>1, <1>3, KeepFits, ExpectFits, GatherFits, Leads3, Zenon
  <2> QED BY <1>8, <2>1, <1>1, <1>2, <1>3, TurnsTo, Zenon
<1>9. CASE Advance /\ Then(<<Gather(k, Len(built))>>)
  <2>1. Leads(<<Gather(k, n)>>, n, n + 1, pos')
    BY <1>1, GatherFits, Leads1, Zenon
  <2> QED BY <1>9, <2>1, <1>1, <1>2, <1>3, TurnsTo, Zenon
<1>10. CASE Stay /\ Then(<<Do("name"), Brackets("elem"), Trial(pos, Len(built))>>)
  <2>1. /\ Fits(Do("name"), n, n + 1, pos') /\ Fits(Brackets("elem"), n + 1, n + 1, pos')
        /\ Fits(Trial(pos', n), n + 1, n + 1, pos')
    BY <1>1, <1>3, MakeFits, BracketsFit, TrialFits, Zenon
  <2>2. Leads(<<Do("name"), Brackets("elem"), Trial(pos', n)>>, n, n + 1, pos')
    BY <1>1, <2>1, Leads3, Zenon
  <2>3. pos' = pos
    BY <1>10 DEF Stay
  <2> QED BY <1>10, <2>2, <2>3, <1>1, <1>2, <1>3, TurnsTo, Zenon
<1>11. CASE Stay /\ Then(<<Do("expr"), Expect(s), Gather(k, Len(built))>>)
  <2>1. Leads(<<Do("expr"), Expect(s), Gather(k, n)>>, n, n + 1, pos')
    BY <1>1, <1>3, MakeFits, ExpectFits, GatherFits, Leads3, Zenon
  <2> QED BY <1>11, <2>1, <1>1, <1>2, <1>3, TurnsTo, Zenon
<1> QED BY <1>2, <1>4, <1>5, <1>6, <1>7, <1>8, <1>9, <1>10, <1>11, Zenon

\* The step ParseTrial keeps the invariant.
LEMMA TrialKeepsInv ==
  ASSUME Inv, ParseTrial
  PROVE  Inv'
<1>1. PICK k, t :
        /\ Calls("trial") /\ NoError
        /\ Then(<<Do("expr"), Expect(t), Gather(k, todo[1].base)>>)
        /\ \/ Advance /\ BuildNothing
           \/ pos' = todo[1].at /\ built' = SubSeq(built, 1, todo[1].base)
  BY Zenon DEF ParseTrial
<1>2. todo # <<>> /\ todo[1].do = "trial" /\ tokens # <<>> /\ UNCHANGED <<kit, tokens>>
  BY <1>1, Called
<1>3. PICK n \in Nat : Len(built) = n
  BY Numbers
<1>4. PICK base \in 0 .. n : base = todo[1].base
  BY <1>2, <1>3, Finds DEF Based
<1>5. PICK c \in Nat : Ready(Tail(todo), c) /\ c <= base + 1
  BY <1>2, <1>4, Finds DEF Based
<1>6. /\ Attempts(todo, pos) /\ Len(todo) \in Nat /\ Len(todo) >= 1
      /\ Len(tokens) \in Nat /\ pos \in 1 .. Len(tokens) + 1
  BY <1>2, SequenceFacts DEF Inv
<1>7. \A i \in 2 .. Len(todo) : todo[i].do = "trial" =>
                                  todo[i].at \in 1 .. pos /\ todo[i].at <= todo[1].at
  <2> SUFFICES ASSUME NEW i \in 2 .. Len(todo), todo[i].do = "trial"
               PROVE  todo[i].at \in 1 .. pos /\ todo[i].at <= todo[1].at
    OBVIOUS
  <2>1. i \in 1 .. Len(todo) /\ 1 \in 1 .. Len(todo) /\ 1 < i
    BY <1>6
  <2> QED BY <1>2, <1>6, <2>1 DEF Attempts
<1>8. /\ Sequence(built') /\ base <= Len(built')
      /\ pos' \in 1 .. Len(tokens) + 1 /\ errors' \subseteq 1 .. Len(tokens)
      /\ \A i \in 2 .. Len(todo) : todo[i].do = "trial" => todo[i].at <= pos'
  <2>1. errors' \subseteq 1 .. Len(tokens)
    BY <1>1 DEF Inv, NoError
  <2>2. CASE Advance /\ BuildNothing
    <3>1. pos' \in 1 .. Len(tokens) + 1 /\ pos <= pos'
      BY <1>1, <1>2, <2>2, Places
    <3>2. Sequence(built') /\ base <= Len(built')
      BY <1>3, <2>2 DEF Inv, BuildNothing
    <3>3. \A i \in 2 .. Len(todo) : todo[i].do = "trial" => todo[i].at <= pos'
      BY <1>6, <1>7, <3>1
    <3> QED BY <2>1, <3>1, <3>2, <3>3
  <2>3. CASE pos' = todo[1].at /\ built' = SubSeq(built, 1, todo[1].base)
    <3>1. 1 \in 1 .. Len(todo)
      BY <1>6
    <3>2. pos' \in 1 .. pos
      BY <1>2, <1>6, <2>3, <3>1 DEF Attempts
    <3>3. pos' \in 1 .. Len(tokens) + 1
      BY <1>6, <3>2
    <3>4. Sequence(built') /\ Len(built') = base
      BY <1>3, <1>4, <2>3, Taken DEF Inv
    <3>5. base <= Len(built')
      BY <1>4, <3>4
    <3> QED BY <1>7, <2>1, <2>3, <3>3, <3>4, <3>5, Zenon
  <2> QED BY <1>1, <2>2, <2>3
<1>9. base + 1 \in Nat /\ base \in Nat /\ base \in 0 .. base + 1
  BY <1>4
<1>10. "expr" \in Makers
  BY DEF Makers
<1>11. Leads(<<Do("expr"), Expect(t), Gather(k, base)>>, base, base + 1, pos')
  BY <1>9, <1>10, MakeFits, ExpectFits, GatherFits, Leads3, Zenon
<1>12. Tail(todo) # <<>>
  BY <1>2, Unfinished
<1> QED BY <1>1, <1>2, <1>4, <1>5, <1>8, <1>9, <1>11, <1>12, Moved, Zenon

\* The step ParseGather keeps the invariant.
LEMMA GatherKeepsInv ==
  ASSUME Inv, ParseGather
  PROVE  Inv'
<1>1. PICK tree :
        /\ Calls("gather") /\ Then(<<>>) /\ Stay /\ NoError
        /\ built' = Append(SubSeq(built, 1, todo[1].base), tree)
  BY Zenon DEF ParseGather, Return
<1>2. todo # <<>> /\ todo[1].do = "gather" /\ tokens # <<>> /\ UNCHANGED <<kit, tokens>>
  BY <1>1, Called
<1>3. PICK n \in Nat : Len(built) = n
  BY Numbers
<1>4. PICK base \in 0 .. n : base = todo[1].base
  BY <1>2, <1>3, Finds DEF Based
<1>5. PICK c \in Nat : Ready(Tail(todo), c) /\ c <= base + 1
  BY <1>2, <1>4, Finds DEF Based
<1>6. Sequence(built') /\ Len(built') = base + 1
  <2>1. Sequence(SubSeq(built, 1, base)) /\ Len(SubSeq(built, 1, base)) = base
    BY <1>3, <1>4, Taken DEF Inv
  <2>2. PICK taken : taken = SubSeq(built, 1, base)
    OBVIOUS
  <2> QED BY <1>1, <1>4, <2>1, <2>2, Appended
<1>7. /\ pos' \in 1 .. Len(tokens) + 1 /\ errors' \subseteq 1 .. Len(tokens)
      /\ \A i \in 2 .. Len(todo) : todo[i].do = "trial" => todo[i].at <= pos'
  <2>1. pos' = pos /\ pos \in 1 .. Len(tokens) + 1 /\ Len(tokens) \in Nat
    BY <1>1, SequenceFacts DEF Inv, Stay
  <2>2. errors' \subseteq 1 .. Len(tokens)
    BY <1>1 DEF Inv, NoError
  <2>3. Attempts(todo, pos) /\ Len(todo) \in Nat
    BY SequenceFacts DEF Inv
  <2>4. \A i \in 2 .. Len(todo) : todo[i].do = "trial" => todo[i].at <= pos'
    BY <2>1, <2>3 DEF Attempts
  <2> QED BY <2>1, <2>2, <2>4
<1>8. base + 1 \in Nat /\ base + 1 <= Len(built')
  BY <1>4, <1>6
<1>9. Leads(<<>>, base + 1, base + 1, pos')
  BY <1>8, Nothing
<1>10. Tail(todo) # <<>> \/ Len(built') = 1
  <2> SUFFICES ASSUME Tail(todo) = <<>> PROVE Len(built') = 1
    OBVIOUS
  <2>1. Len(todo) = 1
    <3>1. Len(<<>>) = 0
      OBVIOUS
    <3>2. Len(Tail(todo)) = 0
      BY <3>1, Zenon
    <3>3. Len(Tail(todo)) = Len(todo) - 1 /\ Len(todo) \in Nat
      BY <1>2, TailFacts, SequenceFacts DEF Inv
    <3> QED BY <3>2, <3>3
  <2>2. todo[1] \in Last
    BY <1>2, <2>1 DEF Inv
  <2>3. \A x \in Last : x.do = "gather" => x.base = 0
    BY DEF Last, Do, Gather
  <2>4. base = 0
    BY <1>2, <1>4, <2>2, <2>3
  <2> QED BY <1>6, <2>4
<1> QED BY <1>1, <1>2, <1>5, <1>6, <1>7, <1>8, <1>9, <1>10, Moved, Zenon

\* The step ParseUnit keeps the invariant.
LEMMA UnitKeepsInv ==
  ASSUME Inv, ParseUnit
  PROVE  Inv'
<1>1. PICK f :
        /\ Calls("unit") /\ Stay /\ (NoError \/ Report) /\ BuildNothing
        /\ Then(<<Gather("unit", 0)>>) \/ (f \in Makers \cup {"skip"} /\ Then(<<Do(f), Do("unit")>>))
  <2>1. "function" \in Makers \cup {"skip"} /\ "var" \in Makers \cup {"skip"}
        /\ "skip" \in Makers \cup {"skip"}
    BY DEF Makers
  <2> QED BY <2>1, Zenon DEF ParseUnit
<1>2. todo # <<>> /\ todo[1].do = "unit" /\ tokens # <<>> /\ UNCHANGED <<kit, tokens>>
  BY <1>1, Called
<1>3. PICK n \in Nat : /\ Len(built) = n /\ n + 1 \in Nat /\ n <= n + 1 /\ n <= n
  BY Numbers
<1>4. Ready(Tail(todo), 0) /\ 0 \in Nat /\ 0 <= 0 /\ 0 <= 1
  BY <1>2, Finds
<1>5. Sequence(built') /\ n <= Len(built')
  BY <1>1, <1>3 DEF Inv, BuildNothing
<1>6. /\ pos' \in 1 .. Len(tokens) + 1 /\ errors' \subseteq 1 .. Len(tokens)
      /\ \A i \in 2 .. Len(todo) : todo[i].do = "trial" => todo[i].at <= pos'
  <2>1. pos' \in 1 .. Len(tokens) + 1 /\ pos <= pos' /\ errors' \subseteq 1 .. Len(tokens)
    BY <1>1, <1>2, Places
  <2>2. /\ Attempts(todo, pos) /\ Len(todo) \in Nat /\ Len(tokens) \in Nat
        /\ pos \in 1 .. Len(tokens) + 1
    BY SequenceFacts DEF Inv
  <2>3. \A i \in 2 .. Len(todo) : todo[i].do = "trial" => todo[i].at <= pos'
    BY <2>1, <2>2 DEF Attempts
  <2> QED BY <2>1, <2>3
<1>7. "skip" \in Keepers
  BY Zenon DEF Keepers
<1>8. CASE Then(<<Gather("unit", 0)>>)
  <2>1. 1 \in Nat /\ 0 \in 0 .. n /\ 0 + 1 = 1
    BY <1>3
  <2>2. PICK items : items = <<Gather("unit", 0)>>
    OBVIOUS
  <2>3. Fits(Gather("unit", 0), n, 0 + 1, pos')
    BY <1>3, <2>1, GatherFits, Zenon
  <2>4. Leads(items, n, 1, pos')
    BY <1>3, <2>1, <2>2, <2>3, Leads1, Zenon
  <2>5. items # <<>> /\ items[Len(items)] \in Last
    BY <2>2 DEF Last
  <2> QED BY <1>2, <1>4, <1>5, <1>6, <1>8, <2>1, <2>2, <2>4, <2>5, Moved, Zenon
<1>9. CASE f \in Makers \cup {"skip"} /\ Then(<<Do(f), Do("unit")>>)
  <2>1. PICK b \in {n, n + 1} : Fits(Do(f), n, b, pos')
    BY <1>3, <1>7, <1>9, MakeFits, KeepFits
  <2>2. b \in Nat
    BY <1>3, <2>1
  <2>3. PICK items : items = <<Do(f), Do("unit")>>
    OBVIOUS
  <2>4. Leads(items, n, 0, pos')
    BY <1>3, <1>4, <2>1, <2>2, <2>3, UnitFits, Leads2, Zenon
  <2>5. items # <<>> /\ items[Len(items)] \in Last
    BY <2>3 DEF Last
  <2> QED BY <1>2, <1>4, <1>5, <1>6, <1>9, <2>3, <2>4, <2>5, Moved, Zenon
<1> QED BY <1>1, <1>8, <1>9, Zenon

\* Tokens that come, and steps over them, leave what is to do as it is.
LEMMA WaitKeepsInv ==
  ASSUME Inv, UNCHANGED <<kit, todo, built>>, Sequence(tokens'), Len(tokens) <= Len(tokens'),
         pos' \in 1 .. Len(tokens') + 1, pos <= pos', errors' \subseteq 1 .. Len(tokens')
  PROVE  Inv'
<1>1. pos \in Nat /\ pos' \in Nat
  BY SequenceFacts DEF Inv
<1>2. Attempts(todo, pos')
  <2>1. Attempts(todo, pos)
    BY DEF Inv
  <2>2. \A x \in 1 .. pos : x \in 1 .. pos'
    BY <1>1
  <2> QED BY <2>1, <2>2 DEF Attempts
<1> QED BY <1>2 DEF Inv

\* The step Skip keeps the invariant.
LEMMA SkipKeepsInv ==
  ASSUME Inv, Skip
  PROVE  Inv'
<1>1. /\ Calls("skip") /\ BuildNothing /\ NoError /\ (Advance \/ Stay)
      /\ Then(<<>>) \/ todo' = todo
  BY Zenon DEF Skip, Return
<1>2. CASE Then(<<>>)
  <2>1. PICK n \in Nat : Len(built) = n /\ n <= n
    BY Numbers
  <2>2. "skip" \notin Makers /\ "skip" \notin {"unit", "gather", "trial"}
    BY Zenon DEF Makers
  <2> QED BY <1>1, <1>2, <2>1, <2>2, Nothing, TurnsTo, Zenon
<1>3. CASE todo' = todo
  <2>1. tokens # <<>> /\ kit' = kit /\ tokens' = tokens
    BY <1>1, Called
  <2>2. pos' \in 1 .. Len(tokens) + 1 /\ pos <= pos' /\ errors' \subseteq 1 .. Len(tokens)
    BY <1>1, <2>1, Places
  <2>3. Sequence(tokens') /\ Len(tokens) \in Nat
    BY <2>1, SequenceFacts DEF Inv
  <2>4. Len(tokens) <= Len(tokens')
    BY <2>1, <2>3
  <2> QED BY <1>1, <1>3, <2>1, <2>2, <2>3, <2>4, WaitKeepsInv DEF BuildNothing
<1> QED BY <1>1, <1>2, <1>3

\* The step Read keeps the invariant.
LEMMA ReadKeepsInv ==
  ASSUME Inv, Read
  PROVE  Inv'
<1>1. PICK t : tokens' = Append(tokens, t)
  BY Zenon DEF Read
<1>2. UNCHANGED <<kit, pos, todo, built, errors>>
  BY Zenon DEF Read
<1>3. /\ Sequence(tokens') /\ Len(tokens') = Len(tokens) + 1 /\ Len(tokens) \in Nat
      /\ pos \in 1 .. Len(tokens) + 1 /\ errors \subseteq 1 .. Len(tokens)
  BY <1>1, Appended, SequenceFacts DEF Inv
<1>4. /\ Len(tokens) <= Len(tokens') /\ pos' \in 1 .. Len(tokens') + 1 /\ pos <= pos'
      /\ errors' \subseteq 1 .. Len(tokens')
  BY <1>2, <1>3
<1> QED BY <1>2, <1>3, <1>4, WaitKeepsInv

----------------------------------------------------------------------------
\* The invariant holds in the beginning.
LEMMA InitInv ==
  ASSUME Init
  PROVE  Inv
<1>1. /\ kit \in DOMAIN Kits /\ tokens = <<>> /\ pos = 1 /\ todo = <<Do("unit")>>
      /\ built = <<>> /\ errors = {}
  BY DEF Init
<1>2. <<>> \in Seq({}) /\ todo \in Seq({Do("unit")}) /\ Len(todo) = 1 /\ Len(<<>>) = 0
  BY <1>1
<1>3. Sequence(tokens) /\ Sequence(built) /\ Sequence(todo)
  BY <1>1, <1>2, Zenon DEF Sequence
<1>4. todo[1] = Do("unit") /\ todo[Len(todo)] \in Last /\ todo # <<>>
  BY <1>1 DEF Last
<1>5. Ready(todo, Len(built))
  <2>1. Fits(Do("unit"), 0, 0, 1)
    BY UnitFits
  <2>2. Leads(<<Do("unit")>>, 0, 0, 1)
    <3>1. 0 \in Nat
      OBVIOUS
    <3> QED BY <2>1, <3>1, Leads1, Zenon
  <2>3. PICK counts : Linked(todo, counts) /\ counts[1] = 0
    BY <1>1, <2>2, Zenon DEF Leads
  <2>4. 0 <= 0 /\ Len(built) = 0
    BY <1>1, <1>2
  <2> QED BY <2>3, <2>4, Zenon DEF Ready
<1>6. Attempts(todo, pos)
  <2>1. todo[1].do # "trial"
    BY <1>4 DEF Do
  <2>2. \A i \in 1 .. Len(todo) : i = 1
    BY <1>2
  <2> QED BY <2>1, <2>2 DEF Attempts
<1>7. pos \in 1 .. Len(tokens) + 1
  BY <1>1, <1>2
<1> QED BY <1>1, <1>3, <1>4, <1>5, <1>6, <1>7 DEF Inv

\* Every step keeps the invariant.
LEMMA NextInv ==
  ASSUME Inv, [Next]_vars
  PROVE  Inv'
<1>1. CASE Read
  BY <1>1, ReadKeepsInv
<1>2. CASE Parse
  BY <1>2, Zenon, UnitKeepsInv, SkipKeepsInv, TypeKeepsInv, NotVoidKeepsInv, NameKeepsInv,
     VarDeclKeepsInv, VarDefKeepsInv, InitialiserKeepsInv, InitValKeepsInv, ElementsKeepInv,
     MoreElementsKeepInv, ListedKeepsInv, MoreKeepsInv, BracketsKeepInv, FuncDefKeepsInv,
     FuncParamKeepsInv, OpenDimensionKeepsInv, BlockKeepsInv, ItemsKeepInv, StmtKeepsInv,
     ElseKeepsInv, ResultKeepsInv, TrialKeepsInv, ExprKeepsInv, RestKeepsInv, UnaryKeepsInv,
     PrimaryKeepsInv, CallKeepsInv, ExpectKeepsInv, GatherKeepsInv DEF Parse
<1>3. CASE UNCHANGED vars
  BY <1>3 DEF vars, Inv
<1> QED BY <1>1, <1>2, <1>3 DEF Next

\* The invariant has what is to be shown in it.
LEMMA InvTypeOK ==
  ASSUME Inv
  PROVE  TypeOK
<1>1. /\ DOMAIN todo = 1 .. Len(todo) /\ DOMAIN tokens = 1 .. Len(tokens)
      /\ Len(todo) \in Nat /\ (todo # <<>> <=> Len(todo) >= 1)
  BY SequenceFacts DEF Inv
<1>2. ASSUME NEW i \in DOMAIN todo
      PROVE  /\ todo[i].do = "gather" => todo[i].base \in Nat
             /\ todo[i].do = "trial" => todo[i].at \in 1 .. pos /\ todo[i].base \in Nat
  <2>1. PICK counts : Linked(todo, counts)
    BY DEF Inv, Ready
  <2>2. i \in 1 .. Len(todo)
    BY <1>1
  <2>3. Link(todo[i], counts[i], counts[i + 1])
    BY <2>1, <2>2 DEF Linked
  <2>4. Based(todo[i]) => todo[i].base \in Nat
    BY <2>3, Zenon DEF Link
  <2>5. todo[i].do = "trial" => todo[i].at \in 1 .. pos
    BY <2>2 DEF Inv, Attempts
  <2> QED BY <2>4, <2>5 DEF Based
<1>3. todo # <<>> /\ todo[1].do \in {"gather", "trial"} => todo[1].base \in 0 .. Len(built)
  BY Finds DEF Based
<1>4. Done => Len(built) = 1
  BY DEF Done, Inv
<1> QED BY <1>1, <1>2, <1>3, <1>4 DEF Inv, TypeOK

\* The parser's state keeps its types on every sequence of tokens: its position
\* stays inside the input, the tokens it reports are tokens of it, a tree is
\* made of trees that are there, and one tree is there in the end.
THEOREM ParserTypeCorrect == Spec => []TypeOK
<1>1. Spec => []Inv
  BY InitInv, NextInv, PTL DEF Spec
<1>2. Inv => TypeOK
  BY InvTypeOK
<1> QED BY <1>1, <1>2, PTL
=============================================================================
