---------------------------- MODULE Lexer_proofs ----------------------------
(***************************************************************************)
(* The lexer stays inside its text, and what it says of it is right,       *)
(* whatever the text is: its lines and columns, and what its tokens are.   *)
(***************************************************************************)
EXTENDS LexerRules, DataInduction, FiniteSetTheorems, SequenceTheorems

LocationSet == [line : Nat, column : Nat]
Kinds == {"Keyword", "Identifier", "IntLiteral", "FloatLiteral", "StringLiteral", "Operator", "End"}
TokenSet == [kind : Kinds, text : Seq(STRING), location : LocationSet]

Inv ==
  /\ source \in Seq(STRING)
  /\ location \in LocationSet
  /\ tokens \in Seq(TokenSet)
  /\ TypeOK

----------------------------------------------------------------------------
(* The least and the greatest of a set.                                    *)

\* Numbers above a bound have a least one, and Min is it.
LEMMA MinProperties ==
  ASSUME NEW S \in SUBSET Int, S # {}, \E m \in Int : \A k \in S : m <= k
  PROVE  Min(S) \in S /\ \A k \in S : Min(S) <= k
<1> PICK m \in Int : \A k \in S : m <= k
  OBVIOUS
<1>1. PICK s \in S : \A k \in S : s <= k
  <2> DEFINE T == {k - m : k \in S}
  <2>1. T \in SUBSET Nat /\ T # {}
    <3>1. \A k \in S : k - m \in Nat
      OBVIOUS
    <3>2. PICK k \in S : TRUE
      OBVIOUS
    <3> QED BY <3>1, <3>2
  <2>2. PICK t \in T : \A k \in T : t <= k
    <3> HIDE DEF T
    <3> QED BY <2>1, Least
  <2>3. PICK s \in S : t = s - m
    BY <2>2
  <2>4. ASSUME NEW k \in S PROVE s <= k
    <3>1. t <= k - m
      BY <2>2
    <3> QED BY <3>1, <2>3
  <2> QED BY <2>3, <2>4
<1> QED BY <1>1 DEF Min

\* Numbers below a bound have a greatest one, and Max is it.
LEMMA MaxProperties ==
  ASSUME NEW S \in SUBSET Int, S # {}, \E n \in Int : \A k \in S : k <= n
  PROVE  Max(S) \in S /\ \A k \in S : k <= Max(S)
<1> PICK n \in Int : \A k \in S : k <= n
  OBVIOUS
<1>1. PICK s \in S : \A k \in S : s >= k
  <2> DEFINE T == {n - k : k \in S}
  <2>1. T \in SUBSET Nat /\ T # {}
    <3>1. \A k \in S : n - k \in Nat
      OBVIOUS
    <3>2. PICK k \in S : TRUE
      OBVIOUS
    <3> QED BY <3>1, <3>2
  <2>2. PICK t \in T : \A k \in T : t <= k
    <3> HIDE DEF T
    <3> QED BY <2>1, Least
  <2>3. PICK s \in S : t = n - s
    BY <2>2
  <2>4. ASSUME NEW k \in S PROVE s >= k
    <3>1. t <= n - k
      BY <2>2
    <3> QED BY <3>1, <2>3
  <2> QED BY <2>3, <2>4
<1>2. Max(S) \in S /\ \A k \in S : Max(S) >= k
  BY <1>1 DEF Max
<1> QED BY <1>2

----------------------------------------------------------------------------
(* Locations.                                                              *)

\* A location stays a location.
LEMMA AdvancedType ==
  ASSUME NEW l \in LocationSet, NEW c
  PROVE  Advanced(l, c) \in LocationSet
BY DEF Advanced, LocationSet

\* A character that is no line break moves the column on.
LEMMA AdvancedColumn ==
  ASSUME NEW a, NEW b, NEW c, c # "\n"
  PROVE  Advanced([line |-> a, column |-> b], c) = [line |-> a, column |-> b + 1]
<1> DEFINE l == [line |-> a, column |-> b]
<1>1. Advanced(l, c) = [l EXCEPT !.column = l.column + 1]
  BY DEF Advanced
<1> QED BY <1>1

\* Max chooses its way through any set of indices, so that the function the
\* fold is defined by is found for all of them: lines are breaks, columns the
\* characters behind the last one.
Breaks(s, S) == {i \in S : s[i] = "\n"}
Walked(s, l, S) ==
  IF Breaks(s, S) = {} THEN [line |-> l.line, column |-> l.column + Cardinality(S)]
  ELSE [line |-> l.line + Cardinality(Breaks(s, S)),
        column |-> 1 + Cardinality({i \in S : i > Max(Breaks(s, S))})]

\* The location behind a set of characters is the one before the last of them,
\* advanced over it.
LEMMA WalkedStep ==
  ASSUME NEW s \in Seq(STRING), NEW l \in LocationSet,
         NEW S \in SUBSET DOMAIN s, S # {}
  PROVE  Walked(s, l, S) = Advanced(Walked(s, l, S \ {Max(S)}), s[Max(S)])
<1> DEFINE m == Max(S)
           R == S \ {m}
           old == Breaks(s, R)
           new == Breaks(s, S)
           Behind(T, p) == {i \in T : i > p}
<1>1. /\ S \in SUBSET (1 .. Len(s)) /\ Len(s) \in Int
      /\ S \in SUBSET Int /\ \A i \in S : i <= Len(s)
  OBVIOUS
<1>2. m \in S /\ m \in Int /\ \A i \in S : i \in Int /\ i <= m
  BY <1>1, MaxProperties
<1>3. IsFiniteSet(S) /\ IsFiniteSet(R) /\ IsFiniteSet(old)
  <2>1. IsFiniteSet(S)
    BY <1>1, FS_Interval, FS_Subset
  <2>2. R \in SUBSET S /\ old \in SUBSET S
    BY DEF Breaks
  <2> QED BY <2>1, <2>2, FS_Subset
<1>4. Cardinality(R) \in Nat /\ Cardinality(old) \in Nat /\ Cardinality(S) = Cardinality(R) + 1
  <2>1. S = R \cup {m} /\ m \notin R
    BY <1>2
  <2>2. Cardinality(R \cup {m}) = Cardinality(R) + 1
    BY <1>3, FS_AddElement
  <2> QED BY <1>3, <2>1, <2>2, FS_CardinalityType
<1>5. old = {} => Cardinality(old) = 0
  BY FS_EmptySet
<1>6. Walked(s, l, R).line = l.line + Cardinality(old)
  <2>1. l.line \in Nat
    BY DEF LocationSet
  <2>2. old = {} => l.line + Cardinality(old) = l.line
    <3>1. l.line + 0 = l.line
      BY <2>1
    <3> QED BY <1>5, <3>1
  <2>3. old = {} => Walked(s, l, R).line = l.line
    BY DEF Walked
  <2>4. old # {} => Walked(s, l, R).line = l.line + Cardinality(old)
    BY DEF Walked
  <2> QED BY <2>2, <2>3, <2>4
<1>7. CASE s[m] = "\n"
  <2>1. new = old \cup {m} /\ m \notin old
    BY <1>2, <1>7 DEF Breaks
  <2>2. Cardinality(new) = Cardinality(old) + 1
    <3>1. Cardinality(old \cup {m}) = Cardinality(old) + 1
      BY <1>3, <2>1, FS_AddElement
    <3> QED BY <2>1, <3>1
  <2>3. Max(new) = m
    <3>1. new \in SUBSET Int /\ new # {} /\ m \in new /\ \A i \in new : i <= m
      BY <1>1, <1>2, <2>1 DEF Breaks
    <3>2. Max(new) \in new /\ m <= Max(new)
      BY <1>1, <3>1, MaxProperties
    <3> QED BY <1>1, <3>1, <3>2
  <2>4. Cardinality(Behind(S, Max(new))) = 0
    <3>1. Behind(S, m) = {}
      BY <1>2
    <3> QED BY <2>3, <3>1, FS_EmptySet
  <2>5. Walked(s, l, S) = [line |-> l.line + Cardinality(new), column |-> 1 + 0]
    <3>1. new # {}
      BY <2>1
    <3> QED BY <2>4, <3>1 DEF Walked
  <2>6. Advanced(Walked(s, l, R), s[m]) = [line |-> l.line + Cardinality(old) + 1, column |-> 1]
    BY <1>6, <1>7 DEF Advanced
  <2>7. l.line \in Nat
    BY DEF LocationSet
  <2>8. l.line + Cardinality(new) = l.line + Cardinality(old) + 1
    BY <1>4, <2>2, <2>7
  <2>9. Walked(s, l, S) = [line |-> l.line + Cardinality(old) + 1, column |-> 1]
    BY <2>5, <2>8
  <2> QED BY <2>6, <2>9
<1>8. CASE s[m] # "\n"
  <2>1. new = old
    BY <1>2, <1>8 DEF Breaks
  <2>2. CASE old = {}
    <3>1. Walked(s, l, R) = [line |-> l.line, column |-> l.column + Cardinality(R)]
      BY <2>2 DEF Walked
    <3>2. Walked(s, l, S) = [line |-> l.line, column |-> l.column + Cardinality(S)]
      BY <2>1, <2>2 DEF Walked
    <3>3. Advanced(Walked(s, l, R), s[m])
            = [line |-> l.line, column |-> l.column + Cardinality(R) + 1]
      BY <1>8, <3>1, AdvancedColumn
    <3>4. l.column \in Nat
      BY DEF LocationSet
    <3>5. l.column + Cardinality(S) = l.column + Cardinality(R) + 1
      BY <1>4, <3>4
    <3> QED BY <3>2, <3>3, <3>5
  <2>3. CASE old # {}
    <3> DEFINE b == Max(old)
    <3>1. b \in R /\ b \in Int /\ b < m
      <4>1. /\ old \in SUBSET Int /\ Len(s) \in Int
            /\ \A i \in old : i <= Len(s)
        BY <1>1 DEF Breaks
      <4>2. b \in old
        BY <1>1, <2>3, <4>1, MaxProperties
      <4> QED BY <1>2, <4>2 DEF Breaks
    <3>2. Behind(S, b) = Behind(R, b) \cup {m} /\ m \notin Behind(R, b)
      BY <1>2, <3>1
    <3>3. IsFiniteSet(Behind(R, b))
      <4>1. Behind(R, b) \in SUBSET R
        OBVIOUS
      <4> QED BY <1>3, <4>1, FS_Subset
    <3>4. /\ Cardinality(Behind(R, b)) \in Nat
          /\ Cardinality(Behind(S, b)) = Cardinality(Behind(R, b)) + 1
      <4>1. Cardinality(Behind(R, b) \cup {m}) = Cardinality(Behind(R, b)) + 1
        BY <3>2, <3>3, FS_AddElement
      <4> QED BY <3>2, <3>3, <4>1, FS_CardinalityType
    <3>5. Walked(s, l, R) = [line |-> l.line + Cardinality(old), column |-> 1 + Cardinality(Behind(R, b))]
      BY <2>3 DEF Walked
    <3>6. Walked(s, l, S) = [line |-> l.line + Cardinality(old), column |-> 1 + Cardinality(Behind(S, b))]
      BY <2>1, <2>3 DEF Walked
    <3>7. Advanced(Walked(s, l, R), s[m])
            = [line |-> l.line + Cardinality(old), column |-> 1 + Cardinality(Behind(R, b)) + 1]
      BY <1>8, <3>5, AdvancedColumn
    <3>8. 1 + Cardinality(Behind(S, b)) = 1 + Cardinality(Behind(R, b)) + 1
      <4> HIDE DEF Behind, b
      <4> QED BY <3>4
    <3> QED BY <3>6, <3>7, <3>8
  <2> QED BY <2>2, <2>3
<1> QED BY <1>7, <1>8

\* No characters leave the location where it is.
LEMMA WalkedNothing ==
  ASSUME NEW s \in Seq(STRING), NEW l \in LocationSet
  PROVE  Walked(s, l, {}) = l
<1>1. Breaks(s, {}) = {} /\ Cardinality({}) = 0
  BY FS_EmptySet DEF Breaks
<1>2. l.column \in Nat /\ l = [line |-> l.line, column |-> l.column]
  BY DEF LocationSet
<1>3. l.column + 0 = l.column
  BY <1>2
<1> QED BY <1>1, <1>2, <1>3 DEF Walked

\* The fold over a text is the last of a sequence of locations, each the
\* location before advanced over a character.
LEMMA FoldAdvanced ==
  ASSUME NEW s \in Seq(STRING), NEW l \in LocationSet
  PROVE  \E f \in [0 .. Len(s) -> LocationSet] :
           /\ f[0] = l
           /\ \A i \in 1 .. Len(s) : f[i] = Advanced(f[i - 1], s[i])
           /\ FoldLeft(Advanced, l, s) = f[Len(s)]
<1> DEFINE Over(g) == g = [S \in SUBSET DOMAIN s |->
             IF S = {} THEN l ELSE Advanced(g[S \ {Max(S)}], s[Max(S)])]
           fold == CHOOSE g : Over(g)
           f == [i \in 0 .. Len(s) |-> fold[1 .. i]]
<1>1. FoldLeft(Advanced, l, s) = fold[DOMAIN s]
  BY DEF FoldLeft, MapThenFoldSet
<1>2. Over(fold)
  <2> DEFINE walked == [S \in SUBSET DOMAIN s |-> Walked(s, l, S)]
             Step(g, S) == IF S = {} THEN l ELSE Advanced(g[S \ {Max(S)}], s[Max(S)])
  <2>1. ASSUME NEW S \in SUBSET DOMAIN s PROVE walked[S] = Step(walked, S)
    <3>1. CASE S = {}
      BY <3>1, WalkedNothing
    <3>2. CASE S # {}
      <4>1. S \ {Max(S)} \in SUBSET DOMAIN s
        OBVIOUS
      <4>2. walked[S] = Walked(s, l, S) /\ walked[S \ {Max(S)}] = Walked(s, l, S \ {Max(S)})
        BY <4>1
      <4> HIDE DEF walked
      <4> QED BY <3>2, <4>2, WalkedStep
    <3> QED BY <3>1, <3>2
  <2>2. walked = [S \in SUBSET DOMAIN s |-> walked[S]]
    OBVIOUS
  <2>3. walked = [S \in SUBSET DOMAIN s |-> Step(walked, S)]
    <3> HIDE DEF walked, Step
    <3> QED BY <2>1, <2>2
  <2>4. Over(walked)
    BY <2>3
  <2> HIDE DEF Over, walked
  <2> QED BY <2>4
<1>3. Len(s) \in Nat /\ DOMAIN s = 1 .. Len(s)
  OBVIOUS
<1>4. ASSUME NEW S \in SUBSET DOMAIN s
      PROVE  fold[S] = IF S = {} THEN l ELSE Advanced(fold[S \ {Max(S)}], s[Max(S)])
  <2> HIDE DEF fold
  <2> QED BY <1>2
<1> HIDE DEF fold
<1>5. f[0] = l
  <2>1. 1 .. 0 = {} /\ 0 \in 0 .. Len(s)
    BY <1>3
  <2>2. fold[{}] = l
    BY <1>4
  <2> QED BY <2>1, <2>2
<1>6. ASSUME NEW i \in 1 .. Len(s) PROVE f[i] = Advanced(f[i - 1], s[i])
  <2>1. 1 .. i \in SUBSET DOMAIN s /\ i \in 1 .. i /\ i - 1 \in 0 .. Len(s) /\ i \in 0 .. Len(s)
    BY <1>3
  <2>2. Max(1 .. i) = i
    <3>1. 1 .. i \in SUBSET Int /\ 1 .. i # {} /\ i \in Int /\ \A k \in 1 .. i : k <= i
      BY <2>1
    <3>2. Max(1 .. i) \in 1 .. i /\ \A k \in 1 .. i : k <= Max(1 .. i)
      BY <3>1, MaxProperties
    <3> QED BY <2>1, <3>2
  <2>3. (1 .. i) \ {i} = 1 .. i - 1
    OBVIOUS
  <2>4. fold[1 .. i] = Advanced(fold[(1 .. i) \ {i}], s[i])
    BY <1>4, <2>1, <2>2
  <2> QED BY <2>1, <2>3, <2>4
<1>7. f \in [0 .. Len(s) -> LocationSet]
  <2> DEFINE T == {i \in 0 .. Len(s) : f[i] \in LocationSet}
  <2>0. 0 \in Int /\ Len(s) \in Int
    BY <1>3
  <2>1. 0 \in T
    BY <1>3, <1>5
  <2>2. ASSUME NEW i \in 0 .. Len(s) - 1, i \in T PROVE i + 1 \in T
    <3>1. i + 1 \in 1 .. Len(s) /\ (i + 1) - 1 = i /\ i + 1 \in 0 .. Len(s) /\ f[i] \in LocationSet
      BY <1>3, <2>2
    <3> HIDE DEF f
    <3>2. f[i + 1] = Advanced(f[i], s[i + 1])
      BY <1>6, <3>1
    <3> QED BY <3>1, <3>2, AdvancedType
  <2> HIDE DEF T
  <2>3. 0 .. Len(s) \subseteq T
    BY <1>3, <2>1, <2>2, <2>0, InductionUpTo, Zenon
  <2>4. \A i \in 0 .. Len(s) : f[i] \in LocationSet
    <3> HIDE DEF f
    <3> QED BY <2>3 DEF T
  <2> QED BY <2>4
<1>8. fold[DOMAIN s] = f[Len(s)]
  BY <1>3
<1> QED
  <2> HIDE DEF f
  <2> QED BY <1>1, <1>5, <1>6, <1>7, <1>8

----------------------------------------------------------------------------
(* What the lexer looks at.                                                *)

\* What is of a class stands in the text.
LEMMA AtInside ==
  ASSUME source \in Seq(STRING), NEW class, Nul \notin class, NEW p, At(p) \in class
  PROVE  p \in 1 .. Len(source) /\ At(p) = source[p]
BY DEF At

\* Behind the text there is nothing.
LEMMA AtEnd ==
  ASSUME source \in Seq(STRING)
  PROVE  At(Len(source) + 1) = Nul
BY DEF At

\* A run ends behind the last character of the class, at the latest at the end
\* of the text.
LEMMA RunEndProperties ==
  ASSUME source \in Seq(STRING), NEW class, Nul \notin class, NEW p \in 1 .. Len(source) + 1
  PROVE  /\ RunEnd(class, p) \in p .. Len(source) + 1
         /\ At(RunEnd(class, p)) \notin class
         /\ \A q \in p .. RunEnd(class, p) - 1 : At(q) \in class
         /\ At(p) \in class => RunEnd(class, p) \in p + 1 .. Len(source) + 1
<1> DEFINE S == {q \in p .. Len(source) + 1 : At(q) \notin class}
<1>1. Len(source) \in Nat /\ p \in Int
  OBVIOUS
<1>2. /\ S \in SUBSET Int /\ \A q \in S : p <= q
      /\ Len(source) + 1 \in S
  BY <1>1, AtEnd
<1>3. Min(S) \in S /\ \A q \in S : Min(S) <= q
  BY <1>1, <1>2, MinProperties
<1> DEFINE e == Min(S)
<1> HIDE DEF e
<1>4. e \in p .. Len(source) + 1 /\ At(e) \notin class
  BY <1>3 DEF e
<1>5. ASSUME NEW q \in p .. e - 1 PROVE At(q) \in class
  <2>1. q \in p .. Len(source) + 1 /\ ~ (e <= q)
    BY <1>1, <1>4
  <2> QED BY <1>3, <2>1 DEF e
<1>6. At(p) \in class => e # p
  BY <1>4
<1>7. At(p) \in class => e \in p + 1 .. Len(source) + 1
  BY <1>1, <1>4, <1>6
<1> QED BY <1>4, <1>5, <1>7 DEF RunEnd, e

\* What quoting does at a place, given what it does behind it.
QuotedAt(g, p) ==
  CASE At(p) = Quote -> Read(p + 1, TRUE, {})
    [] At(p) \in {Nul, "\n"} \/ (At(p) = "\\" /\ At(p + 1) = Nul) -> Read(p, FALSE, {})
    [] At(p) = "\\" /\ At(p + 1) # Nul ->
         IF At(p + 1) \in Escapable THEN g[p + 2]
         ELSE [g[p + 2] EXCEPT !.wrong = @ \cup {p + 1}]
    [] OTHER -> g[p + 1]

\* The characters that strings are told by are different ones.
LEMMA Characters ==
  /\ Nul # Quote /\ Nul # "\\" /\ Nul # "\n"
  /\ Quote # "\\" /\ Quote # "\n"
BY DEF Nul, Quote

\* The five ways, one for each place.
LEMMA QuotedCases ==
  ASSUME source \in Seq(STRING), NEW g, NEW p \in 2 .. Len(source) + 1
  PROVE  /\ At(p) = Quote => QuotedAt(g, p) = Read(p + 1, TRUE, {}) /\ p \in 2 .. Len(source)
         /\ At(p) \in {Nul, "\n"} \/ (At(p) = "\\" /\ At(p + 1) = Nul)
              => QuotedAt(g, p) = Read(p, FALSE, {})
         /\ At(p) = "\\" /\ At(p + 1) # Nul /\ At(p + 1) \in Escapable
              => QuotedAt(g, p) = g[p + 2] /\ p + 2 \in p + 1 .. Len(source) + 1
         /\ At(p) = "\\" /\ At(p + 1) # Nul /\ At(p + 1) \notin Escapable
              => /\ QuotedAt(g, p) = [g[p + 2] EXCEPT !.wrong = @ \cup {p + 1}]
                 /\ p + 2 \in p + 1 .. Len(source) + 1
         /\ At(p) \notin {Nul, "\n", Quote, "\\"}
              => QuotedAt(g, p) = g[p + 1] /\ p + 1 \in p + 1 .. Len(source) + 1
<1>1. At(p) # Nul => p \in 1 .. Len(source)
  BY DEF At
<1>2. At(p + 1) # Nul => p + 1 \in 1 .. Len(source)
  BY DEF At
<1>3. Len(source) \in Nat
  OBVIOUS
<1>4. CASE At(p) = Quote
  <2>1. p \in 2 .. Len(source)
    BY <1>1, <1>3, <1>4, Characters
  <2>2. QuotedAt(g, p) = Read(p + 1, TRUE, {})
    BY <1>4, Characters DEF QuotedAt
  <2> QED BY <1>4, <2>1, <2>2, Characters
<1>5. CASE At(p) \in {Nul, "\n"} \/ (At(p) = "\\" /\ At(p + 1) = Nul)
  BY <1>5, Characters DEF QuotedAt
<1>6. CASE At(p) = "\\" /\ At(p + 1) # Nul
  <2>1. p + 2 \in p + 1 .. Len(source) + 1
    BY <1>2, <1>3, <1>6
  <2>2. QuotedAt(g, p) = IF At(p + 1) \in Escapable THEN g[p + 2]
                         ELSE [g[p + 2] EXCEPT !.wrong = @ \cup {p + 1}]
    BY <1>6, Characters DEF QuotedAt
  <2> QED BY <1>6, <2>1, <2>2, Characters
<1>7. CASE At(p) \notin {Nul, "\n", Quote, "\\"}
  <2>1. p + 1 \in p + 1 .. Len(source) + 1
    <3>1. At(p) # Nul
      BY <1>7
    <3> QED BY <1>1, <1>3, <3>1
  <2>2. QuotedAt(g, p) = g[p + 1]
    BY <1>7 DEF QuotedAt
  <2> QED BY <1>7, <2>1, <2>2
<1> QED BY <1>4, <1>5, <1>6, <1>7

\* The function that quoting is defined by is there: it is found from the end
\* of the text.
LEMMA QuotedDefined ==
  ASSUME source \in Seq(STRING)
  PROVE  \E f : /\ \A p \in 2 .. Len(source) + 1 : f[p] = QuotedAt(f, p)
                /\ Quoted = f[pos + 1]
<1> DEFINE n == Len(source) + 1
           Over(g) == g = [p \in 2 .. n |-> QuotedAt(g, p)]
           From(m, g) == g = [p \in 2 .. n |-> g[p]] /\ \A p \in m .. n : g[p] = QuotedAt(g, p)
           S == {m \in Int : \E g : From(m, g)}
<1>1. Len(source) \in Nat
  OBVIOUS
<1>2. n + 1 \in S
  <2> DEFINE g == [p \in 2 .. n |-> 0]
  <2>1. From(n + 1, g)
    BY <1>1
  <2> HIDE DEF From, g
  <2> QED BY <1>1, <2>1
<1>3. ASSUME NEW m \in 2 .. n, m + 1 \in S PROVE m \in S
  <2>1. PICK g : From(m + 1, g)
    BY <1>3
  <2> DEFINE h == [p \in 2 .. n |-> IF p = m THEN QuotedAt(g, m) ELSE g[p]]
  <2>2. ASSUME NEW p \in m .. n PROVE QuotedAt(h, p) = QuotedAt(g, p)
    <3>1. p \in 2 .. n /\ \A q \in p + 1 .. n : h[q] = g[q]
      BY <1>1
    <3> HIDE DEF h
    <3>2. p \in 2 .. Len(source) + 1
      BY <3>1
    <3>3. p + 1 \in p + 1 .. n => h[p + 1] = g[p + 1]
      BY <3>1
    <3>4. p + 2 \in p + 1 .. n => h[p + 2] = g[p + 2]
      BY <3>1
    <3>5. CASE At(p) = Quote
      BY <3>2, <3>5, QuotedCases, ZenonT(30)
    <3>6. CASE At(p) \in {Nul, "\n"} \/ (At(p) = "\\" /\ At(p + 1) = Nul)
      <4>1. QuotedAt(g, p) = Read(p, FALSE, {})
        BY <3>2, <3>6, QuotedCases, Zenon
      <4>2. QuotedAt(h, p) = Read(p, FALSE, {})
        BY <3>2, <3>6, QuotedCases, Zenon
      <4> QED BY <4>1, <4>2, Zenon
    <3>7. CASE At(p) = "\\" /\ At(p + 1) # Nul /\ At(p + 1) \in Escapable
      <4>1. QuotedAt(g, p) = g[p + 2] /\ h[p + 2] = g[p + 2]
        BY <3>2, <3>4, <3>7, QuotedCases
      <4>2. QuotedAt(h, p) = h[p + 2]
        BY <3>2, <3>7, QuotedCases
      <4> QED BY <4>1, <4>2
    <3>8. CASE At(p) = "\\" /\ At(p + 1) # Nul /\ At(p + 1) \notin Escapable
      <4>1. QuotedAt(g, p) = [g[p + 2] EXCEPT !.wrong = @ \cup {p + 1}] /\ h[p + 2] = g[p + 2]
        BY <3>2, <3>4, <3>8, QuotedCases
      <4>2. QuotedAt(h, p) = [h[p + 2] EXCEPT !.wrong = @ \cup {p + 1}]
        BY <3>2, <3>8, QuotedCases
      <4> QED BY <4>1, <4>2
    <3>9. CASE At(p) \notin {Nul, "\n", Quote, "\\"}
      <4>1. QuotedAt(g, p) = g[p + 1] /\ h[p + 1] = g[p + 1]
        BY <3>2, <3>3, <3>9, QuotedCases
      <4>2. QuotedAt(h, p) = h[p + 1]
        BY <3>2, <3>9, QuotedCases
      <4> QED BY <4>1, <4>2
    <3> QED BY <3>5, <3>6, <3>7, <3>8, <3>9
  <2>3. ASSUME NEW p \in m .. n PROVE h[p] = QuotedAt(h, p)
    <3>1. CASE p = m
      <4>1. h[p] = QuotedAt(g, m)
        BY <3>1
      <4> HIDE DEF h
      <4> QED BY <2>2, <3>1, <4>1
    <3>2. CASE p # m
      <4>1. p \in m + 1 .. n /\ h[p] = g[p]
        BY <1>1, <3>2
      <4>2. g[p] = QuotedAt(g, p)
        BY <2>1, <4>1
      <4> HIDE DEF h
      <4> QED BY <2>2, <4>1, <4>2
    <3> QED BY <3>1, <3>2
  <2>4. h = [p \in 2 .. n |-> h[p]]
    OBVIOUS
  <2>5. From(m, h)
    <3> HIDE DEF h
    <3> QED BY <2>3, <2>4
  <2> HIDE DEF h, From
  <2> QED BY <2>5
<1>4. 2 \in S
  <2> HIDE DEF S
  <2>1. 2 \in Int /\ n + 1 \in Int /\ \A m \in 2 .. (n + 1) - 1 : m + 1 \in S => m \in S
    BY <1>1, <1>3
  <2>2. 2 .. n + 1 \subseteq S
    BY <1>2, <2>1, InductionDownFrom, Zenon
  <2> QED BY <1>1, <2>2
<1>5. PICK g : Over(g)
  <2>1. PICK g : From(2, g)
    BY <1>4
  <2>2. Over(g)
    BY <2>1
  <2> QED BY <2>2
<1>6. Quoted = (CHOOSE f : Over(f))[pos + 1]
  BY DEF Quoted, QuotedAt
<1> DEFINE f == CHOOSE f : Over(f)
<1>7. Over(f)
  <2> HIDE DEF Over
  <2> QED BY <1>5
<1> HIDE DEF f
<1> QED BY <1>6, <1>7 DEF f

\* Quoting ends in the text, behind the quote if there is one, and what is
\* wrong is in between.
Within(p, r) ==
  /\ r = Read(r.end, r.closed, r.wrong)
  /\ r.end \in p .. Len(source) + 1
  /\ r.closed \in BOOLEAN
  /\ r.closed = TRUE => r.end > p
  /\ r.wrong \in SUBSET (p .. Len(source) + 1)

\* An error more changes nothing else of what quoting gives.
LEMMA ReadMoreWrong ==
  ASSUME NEW r, r = Read(r.end, r.closed, r.wrong), NEW v
  PROVE  [r EXCEPT !.wrong = @ \cup v] = Read(r.end, r.closed, r.wrong \cup v)
<1>1. ASSUME NEW e, NEW c, NEW w, NEW x
      PROVE  [[end |-> e, closed |-> c, wrong |-> w] EXCEPT !.wrong = x]
               = [end |-> e, closed |-> c, wrong |-> x]
  OBVIOUS
<1> DEFINE x == r.wrong \cup v
<1> HIDE DEF x
<1>2. [[end |-> r.end, closed |-> r.closed, wrong |-> r.wrong] EXCEPT !.wrong = x] = Read(r.end, r.closed, x)
  BY <1>1 DEF Read
<1>3. r = [end |-> r.end, closed |-> r.closed, wrong |-> r.wrong]
  BY DEF Read
<1>4. [r EXCEPT !.wrong = x] = Read(r.end, r.closed, x)
  BY <1>2, <1>3, Zenon
<1> QED BY <1>4 DEF x

\* This holds from every place on.
LEMMA WithinEverywhere ==
  ASSUME source \in Seq(STRING), NEW f, \A p \in 2 .. Len(source) + 1 : f[p] = QuotedAt(f, p)
  PROVE  \A p \in 2 .. Len(source) + 1 : Within(p, f[p])
<1> DEFINE n == Len(source) + 1
<1>1. Len(source) \in Nat
  OBVIOUS
<1> DEFINE T == {p \in 2 .. n : Within(p, f[p])}
<1>3. ASSUME NEW p \in 2 .. n, \A q \in p + 1 .. n : q \in T
      PROVE  Within(p, f[p])
  <2>1. f[p] = QuotedAt(f, p)
    OBVIOUS
  <2>2. CASE At(p) = Quote
    <3>1. f[p] = Read(p + 1, TRUE, {}) /\ p \in 2 .. Len(source)
      BY <2>1, <2>2, QuotedCases
    <3> QED BY <1>1, <3>1 DEF Within, Read
  <2>3. CASE At(p) \in {Nul, "\n"} \/ (At(p) = "\\" /\ At(p + 1) = Nul)
    <3>1. f[p] = Read(p, FALSE, {})
      BY <2>1, <2>3, QuotedCases
    <3> QED BY <1>1, <3>1 DEF Within, Read
  <2>4. CASE At(p) = "\\" /\ At(p + 1) # Nul /\ At(p + 1) \in Escapable
    <3>1. f[p] = f[p + 2] /\ p + 2 \in p + 1 .. n
      BY <2>1, <2>4, QuotedCases
    <3>2. Within(p + 2, f[p + 2])
      BY <1>3, <3>1
    <3> QED BY <1>1, <3>1, <3>2 DEF Within
  <2>5. CASE At(p) = "\\" /\ At(p + 1) # Nul /\ At(p + 1) \notin Escapable
    <3> DEFINE r == f[p + 2]
    <3>1. f[p] = [r EXCEPT !.wrong = @ \cup {p + 1}] /\ p + 2 \in p + 1 .. n
      BY <2>1, <2>5, QuotedCases
    <3>2. Within(p + 2, r)
      BY <1>3, <3>1
    <3>3. r = Read(r.end, r.closed, r.wrong)
      BY <3>2 DEF Within
    <3>4. /\ r.end \in p .. n /\ r.closed \in BOOLEAN /\ (r.closed = TRUE => r.end > p)
          /\ r.wrong \cup {p + 1} \in SUBSET (p .. n)
      BY <1>1, <3>1, <3>2 DEF Within
    <3> HIDE DEF r
    <3>5. f[p] = Read(r.end, r.closed, r.wrong \cup {p + 1})
      BY <3>1, <3>3, ReadMoreWrong
    <3> DEFINE e == r.end
               c == r.closed
               w == r.wrong \cup {p + 1}
    <3>6. f[p] = Read(e, c, w) /\ e \in p .. n /\ c \in BOOLEAN /\ (c = TRUE => e > p)
      BY <3>4, <3>5
    <3>7. w \in SUBSET (p .. n)
      BY <3>4
    <3> HIDE DEF e, c, w
    <3> QED BY <3>6, <3>7 DEF Within, Read
  <2>6. CASE At(p) \notin {Nul, "\n", Quote, "\\"}
    <3>1. f[p] = f[p + 1] /\ p + 1 \in p + 1 .. n
      BY <2>1, <2>6, QuotedCases
    <3>2. Within(p + 1, f[p + 1])
      BY <1>3, <3>1
    <3> QED BY <1>1, <3>1, <3>2 DEF Within
  <2> QED BY <2>2, <2>3, <2>4, <2>5, <2>6
<1>4. 2 .. n \subseteq T
  <2>1. 2 \in Int /\ n \in Int
    BY <1>1
  <2>2. \A p \in 2 .. n : (\A q \in p + 1 .. n : q \in T) => p \in T
    BY <1>3
  <2> HIDE DEF T, n
  <2> QED BY <2>1, <2>2, InductionFromAbove, Zenon
<1> QED BY <1>4

\* And so from the opening quote on.
LEMMA QuotedWithin ==
  ASSUME source \in Seq(STRING), pos \in 1 .. Len(source)
  PROVE  Within(pos + 1, Quoted)
<1>1. PICK f : (\A p \in 2 .. Len(source) + 1 : f[p] = QuotedAt(f, p)) /\ Quoted = f[pos + 1]
  BY QuotedDefined
<1>2. pos + 1 \in 2 .. Len(source) + 1
  OBVIOUS
<1> QED BY <1>1, <1>2, WithinEverywhere

----------------------------------------------------------------------------
(* The steps.                                                              *)

\* The location of a place further on is a location.
LEMMA LocationAtType ==
  ASSUME source \in Seq(STRING), location \in LocationSet, pos \in 1 .. Len(source) + 1,
         NEW p \in pos .. Len(source) + 1
  PROVE  LocationAt(p) \in LocationSet
<1> DEFINE s == SubSeq(source, pos, p - 1)
<1>1. s \in Seq(STRING)
  OBVIOUS
<1>2. PICK f \in [0 .. Len(s) -> LocationSet] : FoldLeft(Advanced, location, s) = f[Len(s)]
  BY <1>1, FoldAdvanced
<1>3. Len(s) \in 0 .. Len(s)
  BY <1>1
<1> QED BY <1>2, <1>3 DEF LocationAt

\* A token has its type, and has a text unless it is that of the end.
LEMMA TokenType ==
  ASSUME Inv, NEW kind \in Kinds, NEW p \in pos .. Len(source) + 1
  PROVE  Token(kind, p) \in TokenSet /\ (Token(kind, p).text = <<>> <=> p = pos)
<1> DEFINE s == SubSeq(source, pos, p - 1)
<1>1. pos \in Int /\ p - 1 \in Int /\ p \in Int /\ pos <= p
  BY DEF Inv, TypeOK
<1>2. s \in Seq(STRING)
  BY <1>1 DEF Inv, TypeOK
<1>3. p = pos => s = <<>>
  BY <1>1, SubSeqEmpty
<1>4. p # pos => s # <<>>
  BY <1>1, <1>2 DEF Inv, TypeOK
<1> QED BY <1>2, <1>3, <1>4 DEF Token, TokenSet, Inv

\* What a round of the gap and a token have in common: the position moves on
\* to a place p of the text, errors are reported between the two, and a token
\* that is added is what is between them.
Advances(p) ==
  /\ p \in pos .. Len(source) + 1
  /\ Move(p)
  /\ UNCHANGED source
  /\ \E places \in SUBSET (pos .. Len(source) + 1) : Report(places)
  /\ \/ UNCHANGED tokens
     \/ p # pos /\ \E kind \in Kinds \ {"End"} : Add(kind, p)
Moves == phase # "done" /\ phase' = "gap" /\ \E p \in Int : Advances(p)

\* No error is the report of no places.
LEMMA ReportsNothing ==
  ASSUME UNCHANGED errors
  PROVE  Report({})
BY DEF Report

\* The end of the text is no character of a class.
LEMMA NulIsInNoClass ==
  /\ Nul \notin Space /\ Nul \notin Digit /\ Nul \notin HexDigit
  /\ Nul \notin WordPart /\ Nul \notin Letter \cup {"_"}
BY Zenon DEF Nul, Space, Digit, HexDigit, WordPart, Letter

\* The end of the text is no part of an operator.
LEMMA NulIsNoOperator ==
  /\ Nul \notin Singles \cup {"&", "|"}
  /\ \A c : <<c, Nul>> \notin Pairs
<1>1. Nul \notin Singles \cup {"&", "|"}
  BY Zenon DEF Nul, Singles
<1>2. ASSUME NEW c PROVE <<c, Nul>> \notin Pairs
  <2>1. Nul # "=" /\ Nul # "&" /\ Nul # "|"
    BY Zenon DEF Nul
  <2>2. \A p \in Pairs : p[2] \in {"=", "&", "|"}
    BY DEF Pairs
  <2> QED BY <2>1, <2>2
<1> QED BY <1>1, <1>2

\* Each of the steps moves on in the text.
LEMMA SkipSpaceMoves ==
  ASSUME Inv, SkipSpace
  PROVE  Moves
<1> DEFINE p == RunEnd(Space, pos)
<1>1. source \in Seq(STRING) /\ pos \in 1 .. Len(source) + 1
  BY DEF Inv, TypeOK
<1>2. p \in pos .. Len(source) + 1
  BY <1>1, NulIsInNoClass, RunEndProperties
<1>3. Move(p) /\ UNCHANGED <<source, tokens, errors, phase>> /\ phase = "gap"
  BY DEF SkipSpace, InGap
<1> HIDE DEF p
<1>4. Advances(p) /\ p \in Int
  BY <1>1, <1>2, <1>3, ReportsNothing DEF Advances
<1> QED BY <1>3, <1>4 DEF Moves

\* A comment of a line ends in the text.
LEMMA SkipLineCommentMoves ==
  ASSUME Inv, SkipLineComment
  PROVE  Moves
<1> DEFINE S == {q \in pos .. Len(source) + 1 : At(q) \in {"\n", Nul}}
           p == Min(S)
<1>1. source \in Seq(STRING) /\ pos \in 1 .. Len(source) + 1 /\ Len(source) \in Nat
  BY DEF Inv, TypeOK
<1>2. Len(source) + 1 \in S
  BY <1>1, AtEnd
<1>3. S \in SUBSET Int /\ \A q \in S : pos <= q
  BY <1>1
<1>4. p \in pos .. Len(source) + 1
  <2>1. p \in S
    <3>1. pos \in Int /\ S # {}
      BY <1>1, <1>2
    <3> HIDE DEF S
    <3> QED BY <1>3, <3>1, MinProperties
  <2> QED BY <2>1
<1>5. Move(p) /\ UNCHANGED <<source, tokens, errors, phase>> /\ phase = "gap"
  BY DEF SkipLineComment, InGap
<1> HIDE DEF p
<1>6. Advances(p) /\ p \in Int
  BY <1>1, <1>4, <1>5, ReportsNothing DEF Advances
<1> QED BY <1>5, <1>6 DEF Moves

\* A block comment ends in the text, or the text does.
LEMMA SkipBlockCommentMoves ==
  ASSUME Inv, SkipBlockComment
  PROVE  Moves
<1> DEFINE ends == {q \in pos + 2 .. Len(source) : At(q) = "*" /\ At(q + 1) = "/"}
<1>1. source \in Seq(STRING) /\ pos \in 1 .. Len(source) + 1 /\ Len(source) \in Nat
  BY DEF Inv, TypeOK
<1>2. /\ UNCHANGED <<source, tokens, phase>> /\ phase = "gap"
      /\ IF ends = {} THEN Move(Len(source) + 1) /\ Report({pos}) ELSE Move(Min(ends) + 2) /\ Report({})
  BY DEF SkipBlockComment, InGap
<1>3. CASE ends = {}
  <2>1. Advances(Len(source) + 1)
    <3>1. {pos} \in SUBSET (pos .. Len(source) + 1) /\ Len(source) + 1 \in pos .. Len(source) + 1
      BY <1>1
    <3> QED BY <1>2, <1>3, <3>1 DEF Advances
  <2> QED BY <1>1, <1>2, <2>1 DEF Moves
<1>4. CASE ends # {}
  <2> DEFINE m == Min(ends)
  <2>1. m \in ends
    <3>1. pos \in Int /\ ends \in SUBSET Int /\ \A q \in ends : pos <= q
      BY <1>1
    <3> HIDE DEF ends
    <3> QED BY <1>4, <3>1, MinProperties
  <2>2. At(m + 1) # Nul
    <3>1. At(m + 1) = "/" /\ Nul # "/"
      BY <2>1, Zenon DEF Nul
    <3> QED BY <3>1
  <2>3. m + 2 \in pos .. Len(source) + 1 /\ m + 2 \in Int
    <3>1. m \in pos + 2 .. Len(source)
      BY <2>1
    <3>2. m + 1 \in 1 .. Len(source)
      BY <1>1, <2>2 DEF At
    <3> QED BY <1>1, <3>1, <3>2
  <2>4. Move(m + 2) /\ Report({})
    BY <1>2, <1>4
  <2> HIDE DEF m
  <2>5. Advances(m + 2)
    BY <1>2, <2>3, <2>4 DEF Advances
  <2> QED BY <1>2, <2>3, <2>5 DEF Moves
<1> QED BY <1>3, <1>4

\* A word has a character, and more in the text.
LEMMA LexIdentifierOrKeywordMoves ==
  ASSUME Inv, LexIdentifierOrKeyword
  PROVE  Moves
<1> DEFINE p == RunEnd(WordPart, pos)
           kind == IF SubSeq(source, pos, p - 1) \in Keywords THEN "Keyword" ELSE "Identifier"
<1>1. source \in Seq(STRING) /\ pos \in 1 .. Len(source) + 1
  BY DEF Inv, TypeOK
<1>2. At(pos) \in WordPart
  BY DEF LexIdentifierOrKeyword, WordPart
<1>3. p \in pos .. Len(source) + 1 /\ p # pos
  BY <1>1, <1>2, NulIsInNoClass, RunEndProperties
<1>4. /\ Move(p) /\ Add(kind, p)
      /\ UNCHANGED <<source, errors>> /\ phase = "token" /\ phase' = "gap"
  BY DEF LexIdentifierOrKeyword, AtToken
<1>5. kind \in Kinds \ {"End"}
  <2>1. "Keyword" \in Kinds \ {"End"} /\ "Identifier" \in Kinds \ {"End"}
    BY DEF Kinds
  <2>2. kind = "Keyword" \/ kind = "Identifier"
    OBVIOUS
  <2> HIDE DEF kind
  <2> QED BY <2>1, <2>2
<1> HIDE DEF p, kind
<1>6. Advances(p) /\ p \in Int
  BY <1>1, <1>3, <1>4, <1>5, ReportsNothing DEF Advances
<1> QED BY <1>4, <1>6 DEF Moves

\* A number has a character behind where it starts, at whichever of its parts it
\* ends.
LEMMA NumberFromMoves ==
  ASSUME Inv, NEW p \in pos .. Len(source) + 1, NEW digits, Nul \notin digits, NEW marks, Nul \notin marks,
         p # pos \/ At(p) \in digits \/ (At(p) = "." /\ At(p + 1) \in digits),
         NumberFrom(p, digits, marks), AtToken
  PROVE  Moves
<1> DEFINE n        == Len(source) + 1
           whole    == RunEnd(digits, p)
           fraction == IF At(whole) = "." THEN RunEnd(digits, whole + 1) ELSE whole
           exponent == At(fraction) \in marks
           signed   == IF At(fraction + 1) \in {"+", "-"} THEN fraction + 2 ELSE fraction + 1
           end      == IF exponent THEN RunEnd(Digit, signed) ELSE fraction
           kind     == IF end = whole THEN "IntLiteral" ELSE "FloatLiteral"
           places   == IF exponent /\ At(signed) \notin Digit THEN {signed} ELSE {}
<1>1. source \in Seq(STRING) /\ pos \in 1 .. n /\ Len(source) \in Nat /\ p \in 1 .. n
  BY DEF Inv, TypeOK
<1>2. Nul # "." /\ Nul \notin {"+", "-"} /\ Nul \notin Digit
  BY NulIsInNoClass, Zenon DEF Nul
<1>3. Move(end) /\ Add(kind, end) /\ Report(places)
  BY DEF NumberFrom
<1>4. UNCHANGED source /\ phase = "token" /\ phase' = "gap"
  BY DEF AtToken
<1>5. whole \in p .. n /\ (At(p) \in digits => whole \in p + 1 .. n)
  BY <1>1, RunEndProperties
<1>6. fraction \in whole .. n /\ (At(whole) = "." => fraction \in whole + 1 .. n)
  <2>1. CASE At(whole) = "."
    <3>1. whole \in 1 .. Len(source)
      BY <1>2, <2>1 DEF At
    <3>2. whole + 1 \in 1 .. n
      BY <1>1, <3>1
    <3>3. RunEnd(digits, whole + 1) \in whole + 1 .. n
      BY <1>1, <3>2, RunEndProperties
    <3> HIDE DEF whole
    <3> QED BY <1>1, <2>1, <3>1, <3>3
  <2>2. CASE At(whole) # "."
    BY <1>1, <1>5, <2>2
  <2> QED BY <2>1, <2>2
<1> HIDE DEF whole, fraction
<1>7. exponent => signed \in fraction + 1 .. n
  <2>1. exponent => fraction \in 1 .. Len(source)
    BY DEF At
  <2>2. At(fraction + 1) \in {"+", "-"} => fraction + 1 \in 1 .. Len(source)
    BY <1>2 DEF At
  <2> QED BY <1>1, <2>1, <2>2
<1> HIDE DEF exponent, signed
<1>8. end \in fraction .. n
  <2>1. CASE exponent
    <3>1. signed \in 1 .. n
      BY <1>1, <1>5, <1>6, <1>7, <2>1
    <3>2. RunEnd(Digit, signed) \in signed .. n
      BY <1>1, <1>2, <3>1, RunEndProperties
    <3> QED BY <1>1, <1>5, <1>6, <1>7, <2>1, <3>2
  <2>2. CASE ~ exponent
    BY <1>1, <1>5, <1>6, <2>2
  <2> QED BY <2>1, <2>2
<1>9. places \in SUBSET (pos .. n)
  BY <1>1, <1>5, <1>6, <1>7
<1>10. kind \in Kinds \ {"End"}
  <2>1. "IntLiteral" \in Kinds \ {"End"} /\ "FloatLiteral" \in Kinds \ {"End"}
    BY DEF Kinds
  <2>2. kind = "IntLiteral" \/ kind = "FloatLiteral"
    OBVIOUS
  <2> HIDE DEF kind
  <2> QED BY <2>1, <2>2
<1> HIDE DEF end, kind, places
<1>11. end \in pos .. n /\ end # pos
  <2>1. p # pos \/ whole # p \/ fraction # whole
    <3>1. At(p) = "." => whole \in p + 1 .. n \/ whole = p
      BY <1>1, <1>5
    <3> QED BY <1>1, <1>5, <1>6, <3>1
  <2> QED BY <1>1, <1>5, <1>6, <1>8, <2>1
<1>12. Advances(end) /\ end \in Int
  BY <1>1, <1>3, <1>4, <1>9, <1>10, <1>11 DEF Advances
<1> QED BY <1>4, <1>12 DEF Moves

\* Both sorts of numbers start so that they have a character.
LEMMA LexNumberMoves ==
  ASSUME Inv, LexNumber
  PROVE  Moves
<1> DEFINE hexadecimal == At(pos) = "0" /\ At(pos + 1) \in {"x", "X"}
<1>1. source \in Seq(STRING) /\ pos \in 1 .. Len(source) + 1 /\ Len(source) \in Nat
  BY DEF Inv, TypeOK
<1>2. AtToken /\ (At(pos) \in Digit \/ (At(pos) = "." /\ At(pos + 1) \in Digit))
  BY DEF LexNumber
<1>3. /\ Nul \notin {"x", "X"} /\ Nul \notin {"p", "P"} /\ Nul \notin {"e", "E"}
      /\ Nul \notin Digit /\ Nul \notin HexDigit
  BY NulIsInNoClass, Zenon DEF Nul
<1>4. CASE hexadecimal
  <2>1. NumberFrom(pos + 2, HexDigit, {"p", "P"})
    BY <1>4 DEF LexNumber
  <2>2. pos + 1 \in 1 .. Len(source)
    BY <1>3, <1>4 DEF At
  <2>3. pos + 2 \in pos .. Len(source) + 1 /\ pos + 2 # pos
    BY <1>1, <2>2
  <2> QED BY <1>2, <1>3, <2>1, <2>3, NumberFromMoves
<1>5. CASE ~ hexadecimal
  <2>1. NumberFrom(pos, Digit, {"e", "E"})
    BY <1>5 DEF LexNumber
  <2>2. pos \in pos .. Len(source) + 1
    BY <1>1
  <2> QED BY <1>2, <1>3, <2>1, <2>2, NumberFromMoves
<1> QED BY <1>4, <1>5

\* A string, closed or not, ends in the text behind its quote.
LEMMA LexStringMoves ==
  ASSUME Inv, LexString
  PROVE  Moves
<1> DEFINE n == Len(source) + 1
           r == Quoted
           end == IF r.closed \/ At(r.end) = "\n" THEN r.end ELSE n
           places == IF r.closed THEN r.wrong ELSE r.wrong \cup {pos}
<1>1. source \in Seq(STRING) /\ pos \in 1 .. n /\ Len(source) \in Nat
  BY DEF Inv, TypeOK
<1>2. /\ IF r.closed THEN Add("StringLiteral", end) ELSE UNCHANGED tokens
      /\ Report(places) /\ Move(end)
  BY DEF LexString
<1>3. UNCHANGED source /\ phase = "token" /\ phase' = "gap" /\ At(pos) = Quote
  BY DEF LexString, AtToken
<1>4. pos \in 1 .. Len(source)
  BY <1>1, <1>3, Characters DEF At
<1>5. Within(pos + 1, r)
  BY <1>1, <1>4, QuotedWithin
<1> HIDE DEF r
<1>6. r.end \in pos + 1 .. n /\ r.wrong \in SUBSET (pos + 1 .. n)
  BY <1>5 DEF Within
<1>7. end \in pos .. n /\ end # pos
  BY <1>1, <1>6
<1>8. places \in SUBSET (pos .. n)
  <2>1. r.wrong \in SUBSET (pos .. n) /\ r.wrong \cup {pos} \in SUBSET (pos .. n)
    BY <1>1, <1>6
  <2>2. places = r.wrong \/ places = r.wrong \cup {pos}
    OBVIOUS
  <2> HIDE DEF places
  <2> QED BY <2>1, <2>2
<1>9. UNCHANGED tokens \/ Add("StringLiteral", end)
  BY <1>2
<1>10. "StringLiteral" \in Kinds \ {"End"}
  BY DEF Kinds
<1>11. Move(end) /\ Report(places)
  BY <1>2
<1> HIDE DEF end, places
<1>12. Advances(end) /\ end \in Int
  BY <1>1, <1>3, <1>7, <1>8, <1>9, <1>10, <1>11 DEF Advances
<1> QED BY <1>3, <1>12 DEF Moves

\* An operator of two characters has the second in the text.
LEMMA LexOperatorMoves ==
  ASSUME Inv, LexOperator
  PROVE  Moves
<1> DEFINE n == Len(source) + 1
<1>1. source \in Seq(STRING) /\ pos \in 1 .. n /\ Len(source) \in Nat
  BY DEF Inv, TypeOK
<1>2. UNCHANGED source /\ phase = "token" /\ phase' = "gap"
  BY DEF LexOperator, AtToken
<1>3. pos \in 1 .. Len(source)
  <2>1. At(pos) # Nul
    BY NulIsNoOperator DEF LexOperator
  <2> QED BY <2>1 DEF At
<1>4. "Operator" \in Kinds \ {"End"} /\ {} \in SUBSET (pos .. n) /\ {pos} \in SUBSET (pos .. n)
  BY <1>1 DEF Kinds
<1>5. CASE <<At(pos), At(pos + 1)>> \in Pairs
  <2>1. Add("Operator", pos + 2) /\ Move(pos + 2) /\ Report({})
    BY <1>5 DEF LexOperator
  <2>2. At(pos + 1) # Nul
    BY <1>5, NulIsNoOperator
  <2>3. pos + 1 \in 1 .. Len(source)
    BY <2>2 DEF At
  <2>4. pos + 2 \in pos .. n /\ pos + 2 # pos /\ pos + 2 \in Int
    BY <1>1, <2>3
  <2>5. Advances(pos + 2)
    BY <1>2, <1>4, <2>1, <2>4 DEF Advances
  <2> QED BY <1>2, <2>4, <2>5 DEF Moves
<1>6. CASE <<At(pos), At(pos + 1)>> \notin Pairs
  <2>1. /\ Move(pos + 1)
        /\ \/ Add("Operator", pos + 1) /\ Report({})
           \/ UNCHANGED tokens /\ Report({pos})
    BY <1>6 DEF LexOperator
  <2>2. pos + 1 \in pos .. n /\ pos + 1 # pos /\ pos + 1 \in Int
    BY <1>1, <1>3
  <2>3. Advances(pos + 1)
    BY <1>2, <1>4, <2>1, <2>2 DEF Advances
  <2> QED BY <1>2, <2>2, <2>3 DEF Moves
<1> QED BY <1>5, <1>6

\* A character that starts no token is skipped.
LEMMA SkipUnexpectedMoves ==
  ASSUME Inv, SkipUnexpected
  PROVE  Moves
<1> DEFINE n == Len(source) + 1
<1>1. source \in Seq(STRING) /\ pos \in 1 .. n /\ Len(source) \in Nat
  BY DEF Inv, TypeOK
<1>2. /\ UNCHANGED <<source, tokens>> /\ phase = "token" /\ phase' = "gap"
      /\ Move(pos + 1) /\ Report({pos})
  BY DEF SkipUnexpected, AtToken
<1>3. pos \in 1 .. Len(source)
  BY <1>1, <1>2 DEF Inv, TypeOK, Eof
<1>4. pos + 1 \in pos .. n /\ pos + 1 \in Int /\ {pos} \in SUBSET (pos .. n)
  BY <1>1, <1>3
<1>5. Advances(pos + 1)
  BY <1>2, <1>4 DEF Advances
<1> QED BY <1>2, <1>4, <1>5 DEF Moves

\* All steps move on but the end of a gap and the end of the text.
LEMMA StepsMove ==
  ASSUME Inv, Next
  PROVE  Moves \/ GapEnds \/ Finish
BY SkipSpaceMoves, SkipLineCommentMoves, SkipBlockCommentMoves, LexIdentifierOrKeywordMoves,
   LexNumberMoves, LexStringMoves, LexOperatorMoves, SkipUnexpectedMoves DEF Next

----------------------------------------------------------------------------
(* The invariant.                                                          *)

\* It holds at the start.
LEMMA InvInit ==
  ASSUME Init
  PROVE  Inv
<1>1. source \in Seq(STRING)
  BY TextsAssumption, Zenon DEF Init
<1>2. location \in LocationSet /\ tokens \in Seq(TokenSet)
  BY DEF Init, Start, LocationSet
<1>3. TypeOK
  BY <1>1 DEF Init, TypeOK
<1> QED BY <1>1, <1>2, <1>3 DEF Inv

\* A token is added.
LEMMA AddKeeps ==
  ASSUME Inv, phase # "done", NEW kind \in Kinds, NEW p \in pos .. Len(source) + 1,
         p = pos <=> kind = "End", Add(kind, p)
  PROVE  /\ tokens' \in Seq(TokenSet) /\ tokens' # <<>> /\ Last(tokens').kind = kind
         /\ \A i \in DOMAIN tokens' : (tokens'[i].text = <<>>) <=> (tokens'[i].kind = "End")
<1> DEFINE t == Token(kind, p)
<1>1. t \in TokenSet /\ (t.text = <<>> <=> t.kind = "End") /\ t.kind = kind
  BY TokenType DEF Token
<1>2. tokens' = Append(tokens, t) /\ tokens \in Seq(TokenSet)
  BY DEF Add, Inv
<1> HIDE DEF t
<1>3. /\ tokens' \in Seq(TokenSet) /\ tokens' # <<>> /\ Last(tokens') = t
      /\ \A i \in DOMAIN tokens' : (i \in DOMAIN tokens /\ tokens'[i] = tokens[i]) \/ tokens'[i] = t
  BY <1>1, <1>2 DEF Last
<1> QED BY <1>1, <1>3 DEF Inv, TypeOK

\* It is kept by the steps that move on,
LEMMA MovesKeeps ==
  ASSUME Inv, Moves
  PROVE  Inv'
<1>1. PICK p \in Int : Advances(p)
  BY DEF Moves
<1>2. pos' = p /\ p \in 1 .. Len(source) + 1 /\ source' = source
  BY <1>1 DEF Advances, Move, Inv, TypeOK
<1>3. location' \in LocationSet
  BY <1>1, LocationAtType DEF Advances, Move, Inv, TypeOK
<1>4. phase # "done" /\ phase' = "gap"
  BY DEF Moves
<1>5. CASE UNCHANGED tokens
  BY <1>2, <1>3, <1>4, <1>5 DEF Inv, TypeOK
<1>6. CASE p # pos /\ \E kind \in Kinds \ {"End"} : Add(kind, p)
  <2>1. PICK kind \in Kinds \ {"End"} : Add(kind, p)
    BY <1>6
  <2>2. /\ tokens' \in Seq(TokenSet) /\ tokens' # <<>> /\ Last(tokens').kind # "End"
        /\ \A i \in DOMAIN tokens' : (tokens'[i].text = <<>>) <=> (tokens'[i].kind = "End")
    BY <1>1, <1>4, <1>6, <2>1, AddKeeps DEF Advances
  <2> QED BY <1>2, <1>3, <1>4, <2>2 DEF Inv, TypeOK
<1> QED BY <1>1, <1>5, <1>6 DEF Advances

\* by the end of a gap,
LEMMA GapEndsKeeps ==
  ASSUME Inv, GapEnds
  PROVE  Inv'
BY DEF GapEnds, InGap, Inv, TypeOK, Eof

\* and by the end of the text.
LEMMA FinishKeeps ==
  ASSUME Inv, Finish
  PROVE  Inv'
<1>1. pos \in pos .. Len(source) + 1 /\ "End" \in Kinds
  BY DEF Inv, TypeOK, Kinds
<1>2. phase = "gap" /\ phase' = "done" /\ Add("End", pos) /\ UNCHANGED <<source, pos, location, errors>>
  BY DEF Finish
<1>3. /\ tokens' \in Seq(TokenSet) /\ tokens' # <<>> /\ Last(tokens').kind = "End"
      /\ \A i \in DOMAIN tokens' : (tokens'[i].text = <<>>) <=> (tokens'[i].kind = "End")
  BY <1>1, <1>2, AddKeeps
<1> QED BY <1>2, <1>3 DEF Inv, TypeOK

\* The lexer stays in the text, adds no empty token but the one that ends it,
\* and stops there, for any texts.
THEOREM LexerTypeCorrect == Spec => []TypeOK
<1>1. Init => Inv
  BY InvInit
<1>2. Inv /\ [Next]_vars => Inv'
  <2> SUFFICES ASSUME Inv, [Next]_vars PROVE Inv'
    OBVIOUS
  <2>1. CASE Next
    BY <2>1, StepsMove, MovesKeeps, GapEndsKeeps, FinishKeeps
  <2>2. CASE UNCHANGED vars
    BY <2>2 DEF vars, Inv, TypeOK, Eof
  <2> QED BY <2>1, <2>2
<1>3. Inv => TypeOK
  BY DEF Inv
<1> QED BY <1>1, <1>2, <1>3, PTL DEF Spec

----------------------------------------------------------------------------
(* Lines and columns.                                                      *)

BreaksBefore(i) == {p \in 1 .. i - 1 : source[p] = "\n"}

\* A place is a location, by the line breaks before it.
LEMMA PlaceType ==
  ASSUME NEW i \in Nat \ {0}
  PROVE  /\ Place(i) \in LocationSet
         /\ Cardinality(BreaksBefore(i)) \in Nat
         /\ Max(BreaksBefore(i) \cup {0}) \in 0 .. i - 1
         /\ Place(i) = [line |-> 1 + Cardinality(BreaksBefore(i)),
                        column |-> i - Max(BreaksBefore(i) \cup {0})]
<1> DEFINE B == BreaksBefore(i)
<1>1. IsFiniteSet(B)
  <2>1. B \in SUBSET (1 .. i - 1) /\ 1 \in Int /\ i - 1 \in Int
    BY DEF BreaksBefore
  <2> QED BY <2>1, FS_Interval, FS_Subset
<1>2. Cardinality(B) \in Nat
  BY <1>1, FS_CardinalityType
<1>3. Max(B \cup {0}) \in 0 .. i - 1
  <2> DEFINE C == B \cup {0}
  <2>1. C \in SUBSET (0 .. i - 1) /\ C # {} /\ i - 1 \in Int
    BY DEF BreaksBefore
  <2>2. C \in SUBSET Int /\ \A k \in C : k <= i - 1
    BY <2>1
  <2> HIDE DEF C
  <2>3. Max(C) \in C
    BY <2>1, <2>2, MaxProperties
  <2> QED BY <2>1, <2>3 DEF C
<1>4. Place(i) = [line |-> 1 + Cardinality(B), column |-> i - Max(B \cup {0})]
  BY DEF Place, BreaksBefore
<1> HIDE DEF B
<1>5. Place(i) \in LocationSet
  BY <1>2, <1>3, <1>4 DEF LocationSet
<1> QED BY <1>2, <1>3, <1>4, <1>5 DEF B

\* The place behind a character is the place before it advanced over it.
LEMMA PlaceStep ==
  ASSUME NEW i \in Nat \ {0}
  PROVE  Advanced(Place(i), source[i]) = Place(i + 1)
<1> DEFINE B == BreaksBefore(i)
           C == BreaksBefore(i + 1)
<1>1. i + 1 \in Nat \ {0}
  OBVIOUS
<1>2. /\ Place(i) = [line |-> 1 + Cardinality(B), column |-> i - Max(B \cup {0})]
      /\ Cardinality(B) \in Nat /\ Max(B \cup {0}) \in 0 .. i - 1
  BY PlaceType
<1>3. Place(i + 1) = [line |-> 1 + Cardinality(C), column |-> i + 1 - Max(C \cup {0})]
  BY <1>1, PlaceType
<1>4. CASE source[i] = "\n"
  <2>1. C = B \cup {i} /\ i \notin B
    BY <1>4 DEF BreaksBefore
  <2>2. Cardinality(C) = Cardinality(B) + 1
    <3>1. B \in SUBSET (1 .. i - 1) /\ 1 \in Int /\ i - 1 \in Int
      BY DEF BreaksBefore
    <3>2. IsFiniteSet(B)
      BY <3>1, FS_Interval, FS_Subset
    <3>3. Cardinality(B \cup {i}) = Cardinality(B) + 1
      BY <2>1, <3>2, FS_AddElement
    <3> QED BY <2>1, <3>3
  <2>3. Max(C \cup {0}) = i
    <3> DEFINE D == C \cup {0}
    <3>1. D \in SUBSET Int /\ D # {} /\ i \in D /\ \A k \in D : k <= i
      BY <2>1 DEF BreaksBefore
    <3> HIDE DEF D
    <3>2. Max(D) \in D /\ i <= Max(D)
      BY <3>1, MaxProperties
    <3>3. Max(D) \in Int /\ Max(D) <= i /\ i <= Max(D)
      BY <3>1, <3>2
    <3>4. Max(D) = i
      BY <3>3
    <3> QED BY <3>4 DEF D
  <2>4. Advanced(Place(i), source[i]) = [line |-> 1 + Cardinality(B) + 1, column |-> 1]
    BY <1>2, <1>4 DEF Advanced
  <2>5. 1 + Cardinality(C) = 1 + Cardinality(B) + 1 /\ i + 1 - Max(C \cup {0}) = 1
    BY <1>2, <2>2, <2>3
  <2> QED BY <1>3, <2>4, <2>5
<1>5. CASE source[i] # "\n"
  <2>1. C = B
    BY <1>5 DEF BreaksBefore
  <2>2. Advanced(Place(i), source[i])
          = [line |-> 1 + Cardinality(B), column |-> i - Max(B \cup {0}) + 1]
    BY <1>2, <1>5, AdvancedColumn
  <2>3. i + 1 - Max(B \cup {0}) = i - Max(B \cup {0}) + 1
    BY <1>2
  <2> QED BY <1>3, <2>1, <2>2, <2>3
<1> QED BY <1>4, <1>5

\* The location the lexer counts up to a place is that place, if it has counted
\* right up to its position.
LEMMA LocationIsPlace ==
  ASSUME Inv, location = Place(pos), NEW p \in pos .. Len(source) + 1
  PROVE  LocationAt(p) = Place(p)
<1> DEFINE s == SubSeq(source, pos, p - 1)
<1>1. source \in Seq(STRING) /\ pos \in Nat \ {0} /\ Len(source) \in Nat /\ p \in Int /\ pos <= p
  BY DEF Inv, TypeOK
<1>2. s \in Seq(STRING) /\ Len(s) = p - pos /\ \A k \in 1 .. p - pos : s[k] = source[pos + (k - 1)]
  <2>1. CASE p = pos
    <3>1. s = <<>>
      BY <1>1, <2>1, SubSeqEmpty
    <3> QED BY <1>1, <2>1, <3>1
  <2>2. CASE p # pos
    BY <1>1, <2>2
  <2> QED BY <2>1, <2>2
<1> HIDE DEF s
<1>3. PICK f \in [0 .. Len(s) -> LocationSet] :
        /\ f[0] = location
        /\ \A k \in 1 .. Len(s) : f[k] = Advanced(f[k - 1], s[k])
        /\ FoldLeft(Advanced, location, s) = f[Len(s)]
  BY <1>2, FoldAdvanced, Inv DEF Inv
<1> DEFINE T == {k \in 0 .. p - pos : f[k] = Place(pos + k)}
<1>4. 0 \in T
  BY <1>1, <1>3
<1>5. ASSUME NEW k \in 0 .. (p - pos) - 1, k \in T PROVE k + 1 \in T
  <2>1. f[k + 1] = Advanced(f[k], s[k + 1]) /\ s[k + 1] = source[pos + k]
    <3>1. k + 1 \in 1 .. Len(s) /\ (k + 1) - 1 = k /\ k + 1 \in 1 .. p - pos
      BY <1>1, <1>2
    <3> QED BY <1>2, <1>3, <3>1
  <2>2. pos + k \in Nat \ {0} /\ (pos + k) + 1 = pos + (k + 1)
    BY <1>1
  <2>3. Advanced(Place(pos + k), source[pos + k]) = Place(pos + (k + 1))
    BY <2>2, PlaceStep
  <2> QED BY <1>1, <1>5, <2>1, <2>3
<1>6. 0 .. p - pos \subseteq T
  <2>1. 0 \in Int /\ p - pos \in Int
    BY <1>1
  <2> HIDE DEF T
  <2> QED BY <1>4, <1>5, <2>1, InductionUpTo, Zenon
<1>7. f[p - pos] = Place(p)
  <2>1. p - pos \in 0 .. p - pos /\ pos + (p - pos) = p
    BY <1>1
  <2> QED BY <1>6, <2>1
<1> QED BY <1>2, <1>3, <1>7 DEF LocationAt, s

PlaceInv == Inv /\ PlacesAreRight

\* Places are about the text, and the text stays.
LEMMA PlacesStay ==
  ASSUME UNCHANGED <<source, pos, location, errors>>, PlacesAreRight
  PROVE  PlacesAreRight'
<1>1. {Place(q) : q \in 1 .. Len(source) + 1}' = {Place(q) : q \in 1 .. Len(source) + 1}
  BY DEF Place
<1>2. Place(pos)' = Place(pos)
  BY DEF Place
<1> QED BY <1>1, <1>2 DEF PlacesAreRight

\* A step that moves on moves to the place it counts up to.
LEMMA MovesKeepsPlaces ==
  ASSUME PlaceInv, Moves
  PROVE  PlacesAreRight'
<1>1. PICK p \in Int : Advances(p)
  BY DEF Moves
<1>2. PICK places \in SUBSET (pos .. Len(source) + 1) : Report(places)
  BY <1>1 DEF Advances
<1>3. \A q \in pos .. Len(source) + 1 : LocationAt(q) = Place(q)
  BY LocationIsPlace DEF PlaceInv, PlacesAreRight
<1>4. source' = source /\ pos' = p /\ location' = Place(p)
  BY <1>1, <1>3 DEF Advances, Move
<1>5. errors' = errors \cup {LocationAt(q) : q \in places}
  BY <1>2 DEF Report
<1>6. places \in SUBSET (1 .. Len(source) + 1)
  BY DEF PlaceInv, Inv, TypeOK
<1>7. errors' \subseteq {Place(q) : q \in 1 .. Len(source) + 1}
  BY <1>3, <1>5, <1>6 DEF PlaceInv, PlacesAreRight
<1>8. {Place(q) : q \in 1 .. Len(source) + 1}' = {Place(q) : q \in 1 .. Len(source) + 1}
  BY <1>4 DEF Place
<1>9. Place(pos)' = Place(p)
  BY <1>4 DEF Place
<1> QED BY <1>4, <1>7, <1>8, <1>9 DEF PlacesAreRight

\* It holds at the start.
LEMMA PlaceInvInit ==
  ASSUME Init
  PROVE  PlaceInv
<1>1. Place(1) = [line |-> 1, column |-> 1]
  <2>1. BreaksBefore(1) = {} /\ {} \cup {0} = {0} /\ Cardinality({}) = 0
    BY FS_EmptySet DEF BreaksBefore
  <2>2. Max({0}) = 0
    <3>1. {0} \in SUBSET Int /\ {0} # {} /\ \E n \in Int : \A k \in {0} : k <= n
      OBVIOUS
    <3>2. Max({0}) \in {0}
      BY <3>1, MaxProperties, Zenon
    <3> QED BY <3>2
  <2>3. Place(1) = [line |-> 1 + Cardinality(BreaksBefore(1)),
                    column |-> 1 - Max(BreaksBefore(1) \cup {0})]
    BY PlaceType
  <2> QED BY <2>1, <2>2, <2>3
<1>2. PlacesAreRight
  BY <1>1 DEF Init, Start, PlacesAreRight
<1> QED BY <1>2, InvInit DEF PlaceInv

\* It is kept by every step.
LEMMA PlaceInvKeeps ==
  ASSUME PlaceInv, [Next]_vars
  PROVE  PlaceInv'
<1>1. Inv'
  <2>1. CASE Next
    BY <2>1, StepsMove, MovesKeeps, GapEndsKeeps, FinishKeeps DEF PlaceInv
  <2>2. CASE UNCHANGED vars
    BY <2>2 DEF vars, PlaceInv, Inv, TypeOK, Eof
  <2> QED BY <2>1, <2>2
<1>2. PlacesAreRight'
  <2>1. CASE Moves
    BY <2>1, MovesKeepsPlaces
  <2>2. CASE GapEnds \/ Finish \/ UNCHANGED vars
    <3>1. UNCHANGED <<source, pos, location, errors>>
      BY <2>2 DEF GapEnds, InGap, Finish, vars
    <3> QED BY <3>1, PlacesStay DEF PlaceInv
  <2> QED BY <2>1, <2>2, StepsMove DEF PlaceInv
<1> QED BY <1>1, <1>2 DEF PlaceInv

\* Lines and columns are right wherever the lexer stands, and errors are
\* reported where something stands in the text, for any texts.
THEOREM PlacesRight == Spec => []PlacesAreRight
<1>1. Init => PlaceInv
  BY PlaceInvInit
<1>2. PlaceInv /\ [Next]_vars => PlaceInv'
  BY PlaceInvKeeps
<1>3. PlaceInv => PlacesAreRight
  BY DEF PlaceInv
<1> QED BY <1>1, <1>2, <1>3, PTL DEF Spec

----------------------------------------------------------------------------
(* The readings of a text that the rules give.                             *)

Text == source \in Seq(STRING) /\ \A p \in 1 .. Len(source) : source[p] # Nul

\* What the text is from i on, given what it is further on.
Ends(i) == {j \in i + 1 .. Len(source) + 1 : Lexeme(i, j)}
Comments(i) == {j \in i + 2 .. Len(source) + 1 : Comment(i, j)}
TokenAt(i, j) == [kind |-> Kind(i, j), text |-> SubSeq(source, i, j - 1), location |-> Place(i)]
EndToken == [kind |-> "End", text |-> <<>>, location |-> Place(Len(source) + 1)]
ReadingAt(g, i) ==
  IF i > Len(source) THEN {<<EndToken>>}
  ELSE IF source[i] \in Space THEN g[i + 1]
  ELSE IF OpensComment(i) THEN UNION {g[j] : j \in Comments(i)}
  ELSE IF Ends(i) = {} \/ Lame(i, Max(Ends(i))) THEN {}
  ELSE {<<TokenAt(i, Max(Ends(i)))>> \o rest : rest \in g[Max(Ends(i))]}
Reads(g) == \A i \in 1 .. Len(source) + 1 : g[i] = ReadingAt(g, i)

\* Of the words that start somewhere there is a longest.
LEMMA LongestEnd ==
  ASSUME source \in Seq(STRING), NEW i \in 1 .. Len(source), Ends(i) # {}
  PROVE  Max(Ends(i)) \in Ends(i) /\ \A j \in Ends(i) : j <= Max(Ends(i))
<1>1. Ends(i) \in SUBSET Int /\ Len(source) + 1 \in Int /\ \A j \in Ends(i) : j <= Len(source) + 1
  BY DEF Ends
<1> QED BY <1>1, MaxProperties

\* A word ends behind where it starts.
LEMMA EndsAreAhead ==
  ASSUME NEW i, NEW j \in Ends(i)
  PROVE  j \in i + 1 .. Len(source) + 1 /\ Lexeme(i, j)
BY DEF Ends

\* A reading from i on takes only readings from further on.
LEMMA ReadingLooksAhead ==
  ASSUME source \in Seq(STRING), NEW i \in 1 .. Len(source) + 1, NEW g, NEW h,
         \A j \in i + 1 .. Len(source) + 1 : g[j] = h[j]
  PROVE  ReadingAt(g, i) = ReadingAt(h, i)
<1>1. Len(source) \in Nat
  OBVIOUS
<1>2. CASE i > Len(source)
  BY <1>2 DEF ReadingAt
<1> SUFFICES ASSUME ~ (i > Len(source)) PROVE ReadingAt(g, i) = ReadingAt(h, i)
  BY <1>2
<1>3. i \in 1 .. Len(source) /\ i + 1 \in i + 1 .. Len(source) + 1
  BY <1>1
<1>4. CASE source[i] \in Space
  BY <1>3, <1>4 DEF ReadingAt
<1>5. CASE source[i] \notin Space /\ OpensComment(i)
  <2>1. \A j \in Comments(i) : g[j] = h[j]
    BY <1>1 DEF Comments
  <2>2. {g[j] : j \in Comments(i)} = {h[j] : j \in Comments(i)}
    BY <2>1
  <2> QED BY <1>5, <2>2 DEF ReadingAt
<1>6. CASE source[i] \notin Space /\ ~ OpensComment(i)
  <2>1. CASE Ends(i) = {}
    BY <1>6, <2>1 DEF ReadingAt
  <2>2. CASE Ends(i) # {}
    <3>1. g[Max(Ends(i))] = h[Max(Ends(i))]
      BY <1>3, <2>2, LongestEnd, EndsAreAhead
    <3> QED BY <1>6, <3>1 DEF ReadingAt
  <2> QED BY <2>1, <2>2
<1> QED BY <1>4, <1>5, <1>6

\* The readings are there, one for each place, from the end of the text on.
LEMMA ReadingDefined ==
  ASSUME source \in Seq(STRING)
  PROVE  \E g : Reads(g) /\ Reading = g[1]
<1> DEFINE n == Len(source) + 1
           Over(g) == g = [i \in 1 .. n |-> ReadingAt(g, i)]
           From(m, g) == g = [i \in 1 .. n |-> g[i]] /\ \A i \in m .. n : g[i] = ReadingAt(g, i)
           S == {m \in Int : \E g : From(m, g)}
<1>1. Len(source) \in Nat
  OBVIOUS
<1>2. n + 1 \in S
  <2> DEFINE g == [i \in 1 .. n |-> 0]
  <2>1. From(n + 1, g)
    BY <1>1
  <2> HIDE DEF From, g
  <2> QED BY <1>1, <2>1
<1>3. ASSUME NEW m \in 1 .. n, m + 1 \in S PROVE m \in S
  <2>1. PICK g : From(m + 1, g)
    BY <1>3
  <2> DEFINE h == [i \in 1 .. n |-> IF i = m THEN ReadingAt(g, m) ELSE g[i]]
  <2>2. ASSUME NEW i \in m .. n PROVE ReadingAt(h, i) = ReadingAt(g, i)
    <3>1. i \in 1 .. Len(source) + 1 /\ \A j \in i + 1 .. Len(source) + 1 : h[j] = g[j]
      BY <1>1
    <3> HIDE DEF h
    <3> QED BY <3>1, ReadingLooksAhead
  <2>3. ASSUME NEW i \in m .. n PROVE h[i] = ReadingAt(h, i)
    <3>1. CASE i = m
      <4>1. h[i] = ReadingAt(g, m)
        BY <3>1
      <4> HIDE DEF h
      <4> QED BY <2>2, <3>1, <4>1
    <3>2. CASE i # m
      <4>1. i \in m + 1 .. n /\ h[i] = g[i]
        BY <1>1, <3>2
      <4>2. g[i] = ReadingAt(g, i)
        BY <2>1, <4>1
      <4> HIDE DEF h
      <4> QED BY <2>2, <4>1, <4>2
    <3> QED BY <3>1, <3>2
  <2>4. h = [i \in 1 .. n |-> h[i]]
    OBVIOUS
  <2>5. From(m, h)
    <3> HIDE DEF h
    <3> QED BY <2>3, <2>4
  <2> HIDE DEF h, From
  <2> QED BY <2>5
<1>4. 1 \in S
  <2> HIDE DEF S
  <2>1. 1 \in Int /\ n + 1 \in Int /\ \A m \in 1 .. (n + 1) - 1 : m + 1 \in S => m \in S
    BY <1>1, <1>3
  <2>2. 1 .. n + 1 \subseteq S
    BY <1>2, <2>1, InductionDownFrom, Zenon
  <2> QED BY <1>1, <2>2
<1>5. PICK g : Over(g)
  <2>1. PICK g : From(1, g)
    BY <1>4
  <2>2. Over(g)
    BY <2>1
  <2> QED BY <2>2
<1>6. Reading = (CHOOSE f : Over(f))[1]
  BY DEF Reading, ReadingAt, Ends, Comments, TokenAt, EndToken
<1> DEFINE f == CHOOSE f : Over(f)
<1>7. Over(f)
  <2> HIDE DEF Over
  <2> QED BY <1>5
<1>8. Reads(f)
  <2> HIDE DEF f
  <2> QED BY <1>7 DEF Reads
<1> HIDE DEF f
<1> QED BY <1>6, <1>8 DEF f

\* What the rules say is about the text, which stays.
LEMMA WordsStay ==
  ASSUME UNCHANGED source, NEW i, NEW j
  PROVE  Word(i, j)' = Word(i, j) /\ Kept(i, j)' = Kept(i, j) /\ Operator(i, j)' = Operator(i, j)
BY DEF Word, Kept, Operator, Some, All

\* The same of numbers, part by part.
LEMMA NumbersStay ==
  ASSUME UNCHANGED source, NEW i, NEW j
  PROVE  /\ Integer(i, j)' = Integer(i, j)
         /\ Float(i, j)' = Float(i, j)
         /\ Lame(i, j)' = Lame(i, j)
<1>1. \A class, a, b : All(class, a, b)' = All(class, a, b) /\ Some(class, a, b)' = Some(class, a, b)
  BY DEF All, Some
<1>2. /\ \A p : At(p)' = At(p)
      /\ Hexadecimal(i)' = Hexadecimal(i) /\ First(i)' = First(i) /\ Digits(i)' = Digits(i)
      /\ Marks(i)' = Marks(i)
  BY DEF Hexadecimal, First, Digits, Marks, At
<1>3. \A k : Integer(i, k)' = Integer(i, k)
  BY <1>1, <1>2 DEF Integer
<1>4. \A k : Decimal(i, k)' = Decimal(i, k)
  BY <1>1, <1>2 DEF Decimal
<1>5. \A m, k : Exponent(i, m, k)' = Exponent(i, m, k)
  BY <1>1, <1>2 DEF Exponent
<1>6. \A k : Scaled(i, k)' = Scaled(i, k)
  BY <1>3, <1>4, <1>5 DEF Scaled
<1> QED BY <1>2, <1>3, <1>4, <1>6 DEF Float, Number, Lame

\* The same of strings.
LEMMA StringsStay ==
  ASSUME UNCHANGED source, NEW i, NEW j
  PROVE  String(i, j)' = String(i, j)
<1>1. \A p : Escaped(i, p)' = Escaped(i, p)
  BY DEF Escaped, Max
<1> QED BY <1>1 DEF String

\* And so of what is read.
LEMMA ReadingStays ==
  ASSUME UNCHANGED source, NEW g, NEW i
  PROVE  ReadingAt(g, i)' = ReadingAt(g, i)
<1>1. \A a, b : Lexeme(a, b)' = Lexeme(a, b) /\ Kind(a, b)' = Kind(a, b)
  BY WordsStay, NumbersStay, StringsStay DEF Lexeme, Number, Kind
<1>2. \A a : Ends(a)' = Ends(a)
  BY <1>1 DEF Ends
<1>3. \A a, b : TokenAt(a, b)' = TokenAt(a, b)
  BY <1>1 DEF TokenAt, Place
<1>4. EndToken' = EndToken
  BY DEF EndToken, Place
<1>5. \A p : At(p)' = At(p)
  BY DEF At
<1>6. OpensComment(i)' = OpensComment(i)
  BY <1>5 DEF OpensComment
<1>7. Comments(i)' = Comments(i)
  BY <1>5 DEF Comments, Comment, EndsBlock
<1>8. \A b : Lame(i, b)' = Lame(i, b)
  BY NumbersStay
<1>9. Max(Ends(i))' = Max(Ends(i))
  BY <1>2 
<1> QED BY <1>2, <1>3, <1>4, <1>6, <1>7, <1>8, <1>9 DEF ReadingAt

----------------------------------------------------------------------------
(* What has been read and what is still to be read.                        *)

\* A kind is one of the kinds of tokens.
LEMMA KindType ==
  ASSUME NEW i, NEW j
  PROVE  Kind(i, j) \in Kinds
<1>1. /\ "Keyword" \in Kinds /\ "Identifier" \in Kinds /\ "IntLiteral" \in Kinds
      /\ "FloatLiteral" \in Kinds /\ "StringLiteral" \in Kinds /\ "Operator" \in Kinds
  BY DEF Kinds
<1> QED BY <1>1 DEF Kind

\* What is read at a place is a token.
LEMMA TokenAtType ==
  ASSUME source \in Seq(STRING), NEW i \in 1 .. Len(source), NEW j \in i + 1 .. Len(source) + 1
  PROVE  TokenAt(i, j) \in TokenSet
<1>1. Place(i) \in LocationSet
  <2>1. i \in Nat \ {0}
    OBVIOUS
  <2> QED BY <2>1, PlaceType
<1>2. SubSeq(source, i, j - 1) \in Seq(STRING)
  OBVIOUS
<1> QED BY <1>1, <1>2, KindType DEF TokenAt, TokenSet

\* Readings are sequences of tokens.
LEMMA ReadingType ==
  ASSUME source \in Seq(STRING), NEW g, Reads(g)
  PROVE  \A i \in 1 .. Len(source) + 1 : g[i] \in SUBSET Seq(TokenSet)
<1> DEFINE n == Len(source) + 1
           T == {i \in 1 .. n : g[i] \in SUBSET Seq(TokenSet)}
<1>1. Len(source) \in Nat
  OBVIOUS
<1>2. ASSUME NEW i \in 1 .. n, \A j \in i + 1 .. n : j \in T
      PROVE  g[i] \in SUBSET Seq(TokenSet)
  <2>1. g[i] = ReadingAt(g, i)
    BY DEF Reads
  <2>2. CASE i > Len(source)
    <3>1. EndToken \in TokenSet
      <4>1. "End" \in Kinds /\ <<>> \in Seq(STRING)
        BY DEF Kinds
      <4>2. Place(n) \in LocationSet
        <5>1. n \in Nat \ {0}
          BY <1>1
        <5> QED BY <5>1, PlaceType
      <4> QED BY <4>1, <4>2 DEF EndToken, TokenSet
    <3>2. g[i] = {<<EndToken>>}
      BY <2>1, <2>2 DEF ReadingAt
    <3> QED BY <3>1, <3>2
  <2>3. CASE i <= Len(source) /\ source[i] \in Space
    <3>1. g[i] = g[i + 1] /\ i + 1 \in i + 1 .. n
      BY <1>1, <2>1, <2>3 DEF ReadingAt
    <3> QED BY <1>2, <3>1
  <2>4. CASE i <= Len(source) /\ source[i] \notin Space /\ OpensComment(i)
    <3>1. g[i] = UNION {g[j] : j \in Comments(i)}
      BY <1>1, <2>1, <2>4 DEF ReadingAt
    <3>2. \A j \in Comments(i) : g[j] \in SUBSET Seq(TokenSet)
      BY <1>1, <1>2 DEF Comments
    <3> QED BY <3>1, <3>2
  <2>5. CASE i <= Len(source) /\ source[i] \notin Space /\ ~ OpensComment(i)
    <3>1. CASE Ends(i) = {} \/ Lame(i, Max(Ends(i)))
      <4>1. g[i] = {}
        BY <1>1, <2>1, <2>5, <3>1 DEF ReadingAt
      <4> QED BY <4>1
    <3>2. CASE Ends(i) # {} /\ ~ Lame(i, Max(Ends(i)))
      <4> DEFINE m == Max(Ends(i))
      <4>1. m \in i + 1 .. n /\ i \in 1 .. Len(source)
        BY <1>1, <2>5, <3>2, LongestEnd, EndsAreAhead
      <4>2. TokenAt(i, m) \in TokenSet /\ g[m] \in SUBSET Seq(TokenSet)
        BY <1>2, <4>1, TokenAtType
      <4>3. g[i] = {<<TokenAt(i, m)>> \o rest : rest \in g[m]}
        BY <1>1, <2>1, <2>5, <3>2 DEF ReadingAt
      <4> DEFINE t == TokenAt(i, m)
      <4> HIDE DEF m, t
      <4>4. \A rest \in g[m] : <<t>> \o rest \in Seq(TokenSet)
        BY <4>2 DEF t
      <4> QED BY <4>3, <4>4 DEF t
    <3> QED BY <3>1, <3>2
  <2> QED BY <1>1, <2>2, <2>3, <2>4, <2>5
<1>3. 1 .. n \subseteq T
  <2>1. 1 \in Int /\ n \in Int
    BY <1>1
  <2>2. \A i \in 1 .. n : (\A j \in i + 1 .. n : j \in T) => i \in T
    BY <1>2
  <2> HIDE DEF T, n
  <2> QED BY <2>1, <2>2, InductionFromAbove, Zenon
<1> QED BY <1>3

\* As long as there is no error, what is read from the start is what has been
\* read and what is read from here on.
Continues(g) ==
  IF errors # {} THEN g[1] = {}
  ELSE IF phase = "done" THEN g[1] = {tokens}
  ELSE g[1] = {tokens \o rest : rest \in g[pos]}
ReadInv ==
  /\ PlaceInv
  /\ Text
  /\ phase = "token" => source[pos] \notin Space /\ ~ OpensComment(pos)
  /\ \A g : Reads(g) => Continues(g)

\* A step that reads a blank or a comment.
LEMMA GapRead ==
  ASSUME ReadInv, phase = "gap", UNCHANGED <<source, tokens, phase>>, Inv',
         NEW g, Reads(g), errors' = errors, g[pos'] = g[pos]
  PROVE  Continues(g)'
BY DEF Continues, ReadInv

\* A step that finds an error, where the rules find no way to read on.
LEMMA ErrorRead ==
  ASSUME ReadInv, phase # "done", NEW g, Reads(g), errors \subseteq errors', errors' # {}, g[pos] = {}
  PROVE  Continues(g)'
BY DEF Continues, ReadInv

\* A step that reads the longest word there is.
LEMMA WordRead ==
  ASSUME ReadInv, phase = "token", NEW g, Reads(g), NEW p \in Ends(pos),
         \A j \in Ends(pos) : j <= p, ~ Lame(pos, p),
         Add(Kind(pos, p), p), pos' = p, errors' = errors, phase' = "gap"
  PROVE  Continues(g)'
<1> DEFINE n == Len(source) + 1
           t == TokenAt(pos, p)
<1>1. source \in Seq(STRING) /\ pos \in 1 .. Len(source) /\ Len(source) \in Nat
  BY DEF ReadInv, PlaceInv, Inv, TypeOK, Eof
<1>2. p \in pos + 1 .. n /\ Max(Ends(pos)) = p
  <2>1. Ends(pos) # {} /\ p \in pos + 1 .. n
    BY EndsAreAhead
  <2>2. Max(Ends(pos)) \in Ends(pos) /\ p <= Max(Ends(pos))
    BY <1>1, <2>1, LongestEnd
  <2>3. Max(Ends(pos)) \in pos + 1 .. n /\ Max(Ends(pos)) <= p
    BY <2>2, EndsAreAhead
  <2> HIDE DEF n
  <2> QED BY <2>1, <2>2, <2>3
<1>3. g[pos] = {<<t>> \o rest : rest \in g[p]}
  <2>1. source[pos] \notin Space /\ ~ OpensComment(pos) /\ Ends(pos) # {}
    BY DEF ReadInv
  <2>2. g[pos] = ReadingAt(g, pos)
    BY <1>1 DEF Reads
  <2>3. ~ (pos > Len(source)) /\ ~ Lame(pos, Max(Ends(pos)))
    BY <1>1, <1>2
  <2>4. g[pos] = {<<TokenAt(pos, Max(Ends(pos)))>> \o rest : rest \in g[Max(Ends(pos))]}
    BY <2>1, <2>2, <2>3, Zenon DEF ReadingAt
  <2> QED BY <1>2, <2>4, Zenon
<1>4. t \in TokenSet /\ tokens' = Append(tokens, t) /\ tokens \in Seq(TokenSet)
  <2>1. location = Place(pos) /\ tokens \in Seq(TokenSet)
    BY DEF ReadInv, PlaceInv, PlacesAreRight, Inv
  <2>2. t = Token(Kind(pos, p), p)
    BY <2>1 DEF Token, TokenAt
  <2>3. tokens' = Append(tokens, t)
    BY <2>2 DEF Add
  <2> QED BY <1>1, <1>2, <2>1, <2>3, TokenAtType
<1>5. g[p] \in SUBSET Seq(TokenSet)
  <2>1. p \in 1 .. n
    BY <1>1, <1>2
  <2> QED BY <1>1, <2>1, ReadingType
<1>6. {tokens \o rest : rest \in g[pos]} = {tokens' \o rest : rest \in g[p]}
  <2> HIDE DEF t
  <2>1. ASSUME NEW rest \in g[p] PROVE tokens \o (<<t>> \o rest) = tokens' \o rest
    BY <1>4, <1>5, SMTT(30)
  <2>2. {tokens \o rest : rest \in g[pos]} = {tokens \o (<<t>> \o rest) : rest \in g[p]}
    BY <1>3
  <2> QED BY <2>1, <2>2, ZenonT(30)
<1>7. Continues(g)
  BY DEF ReadInv
<1> QED BY <1>6, <1>7 DEF Continues

----------------------------------------------------------------------------
(* Blanks and comments.                                                    *)

\* Before blanks the readings are those behind them.
LEMMA SpacesRead ==
  ASSUME Text, NEW g, Reads(g), NEW p \in 1 .. Len(source) + 1, NEW e \in p .. Len(source) + 1,
         \A q \in p .. e - 1 : At(q) \in Space
  PROVE  g[e] = g[p]
<1> DEFINE T == {q \in p .. e : g[q] = g[p]}
<1>1. Len(source) \in Nat /\ p \in Int /\ e \in Int /\ source \in Seq(STRING)
  BY DEF Text
<1>2. p \in T
  BY <1>1
<1>3. ASSUME NEW q \in p .. e - 1, q \in T PROVE q + 1 \in T
  <2>1. q \in 1 .. Len(source) /\ source[q] \in Space
    BY <1>1, NulIsInNoClass, AtInside
  <2>2. g[q] = ReadingAt(g, q)
    BY <1>1, <2>1 DEF Reads
  <2>3. g[q] = g[q + 1]
    BY <1>1, <2>1, <2>2 DEF ReadingAt
  <2> QED BY <1>1, <1>3, <2>3
<1>4. p .. e \subseteq T
  <2> HIDE DEF T
  <2> QED BY <1>1, <1>2, <1>3, InductionUpTo, Zenon
<1> QED BY <1>1, <1>4

\* Skipping blanks loses no reading.
LEMMA SkipSpaceReads ==
  ASSUME ReadInv, SkipSpace, NEW g, Reads(g)
  PROVE  g[pos'] = g[pos]
<1>1. Text /\ source \in Seq(STRING) /\ pos \in 1 .. Len(source) + 1
  BY DEF ReadInv, PlaceInv, Inv, TypeOK
<1> DEFINE e == RunEnd(Space, pos)
<1>2. e \in pos .. Len(source) + 1 /\ \A q \in pos .. e - 1 : At(q) \in Space
  BY <1>1, NulIsInNoClass, RunEndProperties
<1>3. pos' = e
  BY DEF SkipSpace, Move
<1> HIDE DEF e
<1> QED BY <1>1, <1>2, <1>3, SpacesRead

\* Where a comment starts, the readings are those behind it.
LEMMA CommentRead ==
  ASSUME Text, NEW g, Reads(g), NEW i \in 1 .. Len(source), OpensComment(i)
  PROVE  g[i] = UNION {g[j] : j \in Comments(i)}
<1>1. source[i] \notin Space
  <2>1. source[i] = "/"
    BY DEF OpensComment, At, Text
  <2>2. "/" \notin Space
    BY Zenon DEF Space
  <2> QED BY <2>1, <2>2
<1>2. g[i] = ReadingAt(g, i) /\ ~ (i > Len(source))
  BY DEF Reads, Text
<1> QED BY <1>1, <1>2 DEF ReadingAt

\* A comment of a line has one end, and skipping it loses no reading.
LEMMA SkipLineCommentReads ==
  ASSUME ReadInv, SkipLineComment, NEW g, Reads(g)
  PROVE  g[pos'] = g[pos]
<1>1. Text /\ source \in Seq(STRING) /\ pos \in 1 .. Len(source) + 1 /\ Len(source) \in Nat
  BY DEF ReadInv, PlaceInv, Inv, TypeOK
<1>2. At(pos) = "/" /\ At(pos + 1) = "/" /\ OpensComment(pos)
  BY DEF SkipLineComment, OpensComment
<1>3. Nul # "/" /\ Nul # "\n" /\ "/" # "\n" /\ "/" # "*"
  BY Zenon DEF Nul
<1>4. pos \in 1 .. Len(source) /\ pos + 1 \in 1 .. Len(source)
  BY <1>1, <1>2, <1>3 DEF At
<1> DEFINE S == {q \in pos .. Len(source) + 1 : At(q) \in {"\n", Nul}}
           e == Min(S)
<1>5. e \in S /\ \A q \in S : e <= q
  <2>1. pos \in Int /\ S \in SUBSET Int /\ Len(source) + 1 \in S /\ \A q \in S : pos <= q
    BY <1>1, AtEnd
  <2> HIDE DEF S
  <2> QED BY <2>1, MinProperties
<1>6. e \in pos + 2 .. Len(source) + 1
  BY <1>1, <1>2, <1>3, <1>5
<1>7. \A q \in pos .. e - 1 : q \in 1 .. Len(source) /\ source[q] # "\n"
  <2>1. ASSUME NEW q \in pos .. e - 1 PROVE q \in 1 .. Len(source) /\ source[q] # "\n"
    <3>1. q \in 1 .. Len(source) /\ At(q) = source[q]
      BY <1>1, <1>6 DEF At
    <3>2. q \notin S
      BY <1>1, <1>5, <1>6
    <3> QED BY <1>1, <3>1, <3>2
  <2> QED BY <2>1
<1>8. At(e) \in {"\n", Nul} /\ pos' = e
  BY <1>5 DEF SkipLineComment, Move
<1> HIDE DEF e, S
<1>9. Comment(pos, e)
  BY <1>2, <1>7, <1>8 DEF Comment
<1>10. ASSUME NEW j \in Comments(pos) PROVE j = e
  <2>1. j \in pos + 2 .. Len(source) + 1 /\ Comment(pos, j)
    BY DEF Comments
  <2>2. At(j) \in {"\n", Nul} /\ \A p \in pos .. j - 1 : source[p] # "\n"
    BY <1>2, <1>3, <2>1 DEF Comment
  <2>3. At(j) = Nul => j = Len(source) + 1
    BY <1>1, <2>1 DEF At, Text
  <2>4. At(e) = Nul => e = Len(source) + 1
    BY <1>1, <1>6 DEF At, Text
  <2>5. At(j) = "\n" => j \in 1 .. Len(source) /\ source[j] = "\n"
    BY <1>3 DEF At
  <2>6. At(e) = "\n" => e \in 1 .. Len(source) /\ source[e] = "\n"
    BY <1>3 DEF At
  <2>7. ~ (j < e)
    <3>1. j < e => j \in pos .. e - 1 /\ j # Len(source) + 1
      BY <1>1, <1>6, <2>1
    <3> QED BY <1>7, <2>2, <2>3, <2>5, <3>1
  <2>8. ~ (e < j)
    <3>1. e < j => e \in pos .. j - 1 /\ e # Len(source) + 1
      BY <1>1, <1>6, <2>1
    <3> QED BY <1>8, <2>2, <2>4, <2>6, <3>1
  <2> QED BY <1>1, <1>6, <2>1, <2>7, <2>8
<1>11. Comments(pos) = {e}
  BY <1>6, <1>9, <1>10 DEF Comments
<1>12. g[pos] = UNION {g[j] : j \in {e}}
  BY <1>1, <1>2, <1>4, <1>11, CommentRead
<1> QED BY <1>8, <1>12

\* A block comment has at most one end; without one there is no reading.
LEMMA SkipBlockCommentReads ==
  ASSUME ReadInv, SkipBlockComment, NEW g, Reads(g)
  PROVE  \/ errors' = errors /\ g[pos'] = g[pos]
         \/ errors' # {} /\ errors \subseteq errors' /\ g[pos] = {}
<1>1. Text /\ source \in Seq(STRING) /\ pos \in 1 .. Len(source) + 1 /\ Len(source) \in Nat
  BY DEF ReadInv, PlaceInv, Inv, TypeOK
<1>2. At(pos) = "/" /\ At(pos + 1) = "*" /\ OpensComment(pos)
  BY DEF SkipBlockComment, OpensComment
<1>3. Nul # "/" /\ Nul # "*" /\ "/" # "*"
  BY Zenon DEF Nul
<1>4. pos \in 1 .. Len(source)
  BY <1>1, <1>2, <1>3 DEF At
<1> DEFINE S == {q \in pos + 2 .. Len(source) : At(q) = "*" /\ At(q + 1) = "/"}
           e == Min(S)
<1>5. IF S = {} THEN Report({pos}) ELSE pos' = e + 2 /\ Report({})
  BY DEF SkipBlockComment, Move
<1>6. \A q : EndsBlock(q) => q \in 1 .. Len(source) /\ q + 1 \in 1 .. Len(source)
  BY <1>3 DEF EndsBlock, At
<1>7. \A q \in pos + 2 .. Len(source) : q \in S <=> EndsBlock(q)
  BY DEF EndsBlock
<1>8. g[pos] = UNION {g[j] : j \in Comments(pos)}
  BY <1>1, <1>2, <1>4, CommentRead
<1>9. \A j \in Comments(pos) :
        /\ j \in pos + 4 .. Len(source) + 1 /\ EndsBlock(j - 2)
        /\ \A q \in pos + 2 .. j - 3 : ~ EndsBlock(q)
  BY <1>1, <1>2, <1>3 DEF Comments, Comment
<1>10. CASE S = {}
  <2>1. Comments(pos) = {}
    <3>1. \A j \in Comments(pos) : j - 2 \in S
      BY <1>1, <1>7, <1>9
    <3> QED BY <1>10, <3>1
  <2>2. g[pos] = {}
    BY <1>8, <2>1
  <2>3. errors' # {} /\ errors \subseteq errors'
    BY <1>5, <1>10 DEF Report
  <2> QED BY <2>2, <2>3
<1>11. CASE S # {}
  <2>1. e \in S /\ \A q \in S : e <= q
    <3>1. S \in SUBSET Int /\ pos \in Int /\ \A q \in S : pos <= q
      BY <1>1
    <3> HIDE DEF S
    <3> QED BY <1>11, <3>1, MinProperties
  <2>2. e \in pos + 2 .. Len(source) /\ EndsBlock(e) /\ \A q \in pos + 2 .. e - 1 : ~ EndsBlock(q)
    <3>1. e \in pos + 2 .. Len(source)
      BY <2>1
    <3> HIDE DEF e, S
    <3>2. EndsBlock(e)
      BY <1>7, <2>1, <3>1
    <3>3. ASSUME NEW q \in pos + 2 .. e - 1 PROVE ~ EndsBlock(q)
      <4>1. q \in pos + 2 .. Len(source) /\ ~ (e <= q)
        BY <1>1, <3>1
      <4> QED BY <1>7, <2>1, <4>1
    <3> QED BY <3>1, <3>2, <3>3
  <2>3. pos' = e + 2 /\ errors' = errors
    BY <1>5, <1>11 DEF Report
  <2> HIDE DEF e, S
  <2>4. e + 2 \in Comments(pos)
    <3>1. e + 2 \in pos + 2 .. Len(source) + 1
      BY <1>1, <1>6, <2>2
    <3>2. (e + 2) - 2 = e /\ (e + 2) - 3 = e - 1 /\ (e + 2) - 2 >= pos + 2
      BY <1>1, <2>2
    <3> QED BY <1>2, <2>2, <3>1, <3>2 DEF Comments, Comment
  <2>5. ASSUME NEW j \in Comments(pos) PROVE j = e + 2
    <3>1. /\ j \in pos + 4 .. Len(source) + 1 /\ EndsBlock(j - 2)
          /\ \A q \in pos + 2 .. j - 3 : ~ EndsBlock(q)
      BY <1>9
    <3>2. ~ (e < j - 2)
      BY <1>1, <2>2, <3>1
    <3>3. ~ (j - 2 < e)
      BY <1>1, <2>2, <3>1
    <3> QED BY <1>1, <2>2, <3>1, <3>2, <3>3
  <2>6. Comments(pos) = {e + 2}
    BY <2>4, <2>5
  <2>7. g[pos] = g[e + 2]
    BY <1>8, <2>6
  <2> QED BY <2>3, <2>7
<1> QED BY <1>10, <1>11

----------------------------------------------------------------------------
(* Words of the language, by their first characters.                       *)

WordStart == Letter \cup {"_"}
OperatorPart == Singles \cup {"&", "|"}

\* No character is of two of the classes words start with.
LEMMA ClassesAreApart ==
  ASSUME NEW c
  PROVE  /\ c \in WordStart => c \notin Digit /\ c # "." /\ c # Quote /\ c \notin OperatorPart
         /\ c \in Digit => c # "." /\ c # Quote /\ c \notin OperatorPart
         /\ c = "." => c # Quote /\ c \notin OperatorPart
         /\ c = Quote => c \notin OperatorPart
<1>1. c \in WordStart => c \notin Digit /\ c # "." /\ c # Quote
  BY Zenon DEF WordStart, Letter, Digit, Quote
<1>2. c \in WordStart => c \notin OperatorPart
  BY Zenon DEF WordStart, Letter, OperatorPart, Singles
<1>3. c \in Digit => c # "." /\ c # Quote /\ c \notin OperatorPart
  BY Zenon DEF Digit, OperatorPart, Singles, Quote
<1>4. c = "." => c # Quote /\ c \notin OperatorPart
  BY Zenon DEF OperatorPart, Singles, Quote
<1>5. c = Quote => c \notin OperatorPart
  BY Zenon DEF OperatorPart, Singles, Quote
<1> QED BY <1>1, <1>2, <1>3, <1>4, <1>5

\* An operator of two characters starts as one of one.
LEMMA PairsAreOfOperators ==
  ASSUME NEW c, NEW d, <<c, d>> \in Pairs
  PROVE  c \in OperatorPart
<1>1. c \in {"=", "!", "<", ">", "&", "|"}
  <2>1. \A p \in Pairs : p[1] \in {"=", "!", "<", ">", "&", "|"}
    BY DEF Pairs
  <2> QED BY <2>1
<1>2. c \in {"=", "!", "<", ">"} => c \in Singles
  BY Zenon DEF Singles
<1> QED BY <1>1, <1>2, Zenon DEF OperatorPart

\* A text of one character.
LEMMA OneCharacter ==
  ASSUME NEW S, NEW s \in Seq(S), Len(s) = 1
  PROVE  s = <<s[1]>>
OBVIOUS

\* An operator by its characters.
LEMMA OperatorCases ==
  ASSUME Text, NEW i \in 1 .. Len(source), NEW j \in i + 1 .. Len(source) + 1
  PROVE  Operator(i, j) <=> \/ j = i + 2 /\ <<source[i], source[i + 1]>> \in Pairs
                            \/ j = i + 1 /\ source[i] \in Singles
<1> DEFINE s == SubSeq(source, i, j - 1)
<1>1. source \in Seq(STRING) /\ Len(source) \in Nat
  BY DEF Text
<1>2. s \in Seq(STRING) /\ Len(s) = j - i /\ \A k \in 1 .. j - i : s[k] = source[i + (k - 1)]
  BY <1>1
<1>3. \A p \in Pairs : Len(p) = 2 /\ p = <<p[1], p[2]>>
  BY DEF Pairs
<1> HIDE DEF s
<1>4. s \in Pairs <=> j = i + 2 /\ <<source[i], source[i + 1]>> \in Pairs
  <2>1. j = i + 2 => s[1] = source[i] /\ s[2] = source[i + 1] /\ s = <<s[1], s[2]>>
    <3> SUFFICES ASSUME j = i + 2 PROVE s[1] = source[i] /\ s[2] = source[i + 1] /\ s = <<s[1], s[2]>>
      OBVIOUS
    <3>1. 1 \in 1 .. j - i /\ 2 \in 1 .. j - i /\ i + (1 - 1) = i /\ i + (2 - 1) = i + 1 /\ j - i = 2
      BY <1>1
    <3>2. s = <<s[1], s[2]>>
      BY <1>2, <3>1
    <3> QED BY <1>2, <3>1, <3>2
  <2>2. s \in Pairs => j = i + 2
    <3>1. s \in Pairs => Len(s) = 2
      BY <1>3
    <3> QED BY <1>1, <1>2, <3>1
  <2> QED BY <2>1, <2>2
<1>5. s \in {<<c>> : c \in Singles} <=> j = i + 1 /\ source[i] \in Singles
  <2>1. j = i + 1 => s[1] = source[i] /\ s = <<s[1]>>
    <3> SUFFICES ASSUME j = i + 1 PROVE s[1] = source[i] /\ s = <<s[1]>>
      OBVIOUS
    <3>1. 1 \in 1 .. j - i /\ i + (1 - 1) = i /\ j - i = 1
      BY <1>1
    <3>2. s = <<s[1]>>
      <4>1. Len(s) = 1
        BY <1>2, <3>1, Zenon
      <4> QED BY <1>2, <4>1, OneCharacter, Zenon
    <3> QED BY <1>2, <3>1, <3>2
  <2>2. \A c : s = <<c>> => j = i + 1 /\ s[1] = c
    <3>1. \A c : s = <<c>> => Len(s) = 1 /\ s[1] = c
      OBVIOUS
    <3> QED BY <1>1, <1>2, <3>1
  <2> QED BY <2>1, <2>2
<1> QED BY <1>4, <1>5 DEF Operator, s

\* A hexadecimal number has its 0x in the text.
LEMMA HexadecimalStart ==
  ASSUME Text, NEW i \in 1 .. Len(source)
  PROVE  /\ Hexadecimal(i) => /\ source[i] = "0" /\ source[i] \in Digit /\ i + 1 \in 1 .. Len(source)
                              /\ source[i + 1] \in {"x", "X"}
         /\ First(i) \in i .. Len(source) + 1
<1>1. Nul \notin {"x", "X"}
  BY Zenon DEF Nul
<1>2. Len(source) \in Nat
  BY DEF Text
<1>3. Hexadecimal(i) => i + 1 \in 1 .. Len(source) /\ source[i + 1] \in {"x", "X"} /\ source[i] = "0"
  BY <1>1, <1>2 DEF Hexadecimal, At, Text
<1>4. First(i) \in i .. Len(source) + 1
  BY <1>2, <1>3 DEF First
<1> QED BY <1>3, <1>4 DEF Digit

\* A number starts with a digit, or with its point and a digit.
LEMMA NumberStart ==
  ASSUME Text, NEW i \in 1 .. Len(source), NEW j \in i + 1 .. Len(source) + 1, Number(i, j)
  PROVE  source[i] \in Digit \/ (source[i] = "." /\ At(i + 1) \in Digit)
<1>1. Len(source) \in Nat /\ source \in Seq(STRING)
  BY DEF Text
<1>2. CASE Hexadecimal(i)
  BY <1>2, HexadecimalStart
<1>3. CASE ~ Hexadecimal(i)
  <2>1. First(i) = i /\ Digits(i) = Digit
    BY <1>3 DEF First, Digits
  <2>2. \A m \in i + 1 .. Len(source) + 1 : Integer(i, m) => source[i] \in Digit
    BY <1>1, <1>3 DEF Integer, Some, All
  <2>3. ASSUME NEW m \in i + 1 .. Len(source) + 1, Decimal(i, m)
        PROVE  source[i] \in Digit \/ (source[i] = "." /\ At(i + 1) \in Digit)
    <3>1. PICK p \in i .. m - 1 : source[p] = "." /\ All(Digit, i, p) /\ All(Digit, p + 1, m)
      BY <2>1, <2>3 DEF Decimal
    <3>2. PICK q \in i .. m - 1 : source[q] \in Digit
      BY <1>3, <2>3 DEF Decimal
    <3>3. p # i => source[i] \in Digit
      BY <1>1, <3>1 DEF All
    <3>4. p = i => source[i + 1] \in Digit /\ i + 1 \in 1 .. Len(source)
      <4>1. q # p
        BY <3>1, <3>2, ClassesAreApart
      <4>2. p = i => i + 1 \in p + 1 .. m - 1
        BY <1>1, <3>2, <4>1
      <4> QED BY <1>1, <3>1, <4>2 DEF All
    <3> QED BY <1>1, <3>1, <3>3, <3>4 DEF At
  <2>4. ASSUME Scaled(i, j)
        PROVE  source[i] \in Digit \/ (source[i] = "." /\ At(i + 1) \in Digit)
    <3>1. PICK m \in i + 1 .. j - 1 : Integer(i, m) \/ Decimal(i, m)
      BY <2>4 DEF Scaled
    <3>2. m \in i + 1 .. Len(source) + 1
      BY <1>1
    <3> QED BY <2>2, <2>3, <3>1, <3>2
  <2> QED BY <2>2, <2>3, <2>4 DEF Number, Float
<1> QED BY <1>2, <1>3

\* What kind of word starts somewhere is told by the first character, or two.
LEMMA FirstCharacters ==
  ASSUME Text, NEW i \in 1 .. Len(source), NEW j \in i + 1 .. Len(source) + 1
  PROVE  /\ Word(i, j) => source[i] \in WordStart
         /\ Number(i, j) => source[i] \in Digit \/ (source[i] = "." /\ At(i + 1) \in Digit)
         /\ String(i, j) => source[i] = Quote
         /\ Operator(i, j) => source[i] \in OperatorPart
<1>1. Len(source) \in Nat
  BY DEF Text
<1>2. Word(i, j) => source[i] \in WordStart
  <2>1. i \in i .. j - 1
    BY <1>1
  <2>2. Word(i, j) => source[i] \in WordPart /\ source[i] \notin Digit
    BY <2>1 DEF Word, Some, All
  <2> QED BY <2>2, Zenon DEF WordPart, WordStart
<1>3. Operator(i, j) => source[i] \in OperatorPart
  BY OperatorCases, PairsAreOfOperators DEF OperatorPart
<1>4. String(i, j) => source[i] = Quote
  BY DEF String
<1> QED BY <1>2, <1>3, <1>4, NumberStart

\* Where no word starts, and where a number lacks its exponent, there is no
\* reading.
LEMMA NothingToRead ==
  ASSUME Text, NEW g, Reads(g), NEW i \in 1 .. Len(source), source[i] \notin Space, ~ OpensComment(i),
         Ends(i) = {} \/ Lame(i, Max(Ends(i)))
  PROVE  g[i] = {}
<1>1. g[i] = ReadingAt(g, i) /\ ~ (i > Len(source))
  BY DEF Reads, Text
<1> QED BY <1>1, Zenon DEF ReadingAt

\* What is known where a token is read.
LEMMA TokenStarts ==
  ASSUME ReadInv, phase = "token"
  PROVE  /\ Text /\ source \in Seq(STRING) /\ Len(source) \in Nat /\ pos \in 1 .. Len(source)
         /\ At(pos) = source[pos] /\ source[pos] \notin Space /\ ~ OpensComment(pos)
<1>1. Text /\ source \in Seq(STRING) /\ pos \in 1 .. Len(source) + 1 /\ ~ Eof
  BY DEF ReadInv, PlaceInv, Inv, TypeOK
<1>2. Len(source) \in Nat
  BY <1>1
<1>3. pos \in 1 .. Len(source)
  BY <1>1, <1>2 DEF Eof
<1> QED BY <1>1, <1>2, <1>3 DEF ReadInv, At

----------------------------------------------------------------------------
(* Identifiers and keywords.                                               *)

\* The longest word is the whole run of its characters.
LEMMA IdentifierEnds ==
  ASSUME Text, NEW i \in 1 .. Len(source), source[i] \in WordStart, NEW e, e = RunEnd(WordPart, i)
  PROVE  /\ e \in Ends(i) /\ \A j \in Ends(i) : j <= e
         /\ ~ Lame(i, e)
         /\ Kind(i, e) = IF SubSeq(source, i, e - 1) \in Keywords THEN "Keyword" ELSE "Identifier"
<1>1. Len(source) \in Nat /\ source \in Seq(STRING)
  BY DEF Text
<1>2. At(i) = source[i] /\ source[i] \in WordPart /\ i \in 1 .. Len(source) + 1
  <2>1. source[i] \in WordPart
    BY Zenon DEF WordPart, WordStart
  <2> QED BY <1>1, <2>1 DEF At
<1>3. /\ e \in i + 1 .. Len(source) + 1 /\ At(e) \notin WordPart
      /\ \A q \in i .. e - 1 : At(q) \in WordPart
  BY <1>1, <1>2, NulIsInNoClass, RunEndProperties
<1>4. \A q \in i .. e - 1 : source[q] \in WordPart
  BY <1>1, <1>3, NulIsInNoClass, AtInside
<1>5. Word(i, e)
  BY <1>1, <1>3, <1>4, ClassesAreApart DEF Word, Some, All
<1>6. ASSUME NEW j \in Ends(i) PROVE j <= e
  <2>1. j \in i + 1 .. Len(source) + 1 /\ Lexeme(i, j)
    BY EndsAreAhead
  <2>2. Word(i, j)
    BY <2>1, FirstCharacters, ClassesAreApart DEF Lexeme
  <2>3. e < j => e \in i .. j - 1 /\ source[e] = At(e)
    <3>1. e < j => e \in 1 .. Len(source)
      BY <1>1, <1>3, <2>1
    <3> QED BY <1>1, <1>3, <2>1, <3>1 DEF At
  <2>4. ~ (e < j)
    BY <1>3, <2>2, <2>3 DEF Word, Some, All
  <2> QED BY <1>1, <1>3, <2>1, <2>4
<1>7. e \in Ends(i)
  BY <1>3, <1>5 DEF Ends, Lexeme
<1>8. ~ Lame(i, e)
  BY <1>3, FirstCharacters, ClassesAreApart DEF Lame
<1> QED BY <1>5, <1>6, <1>7, <1>8 DEF Kind, Kept

\* The lexer reads that word.
LEMMA LexIdentifierOrKeywordReads ==
  ASSUME ReadInv, LexIdentifierOrKeyword, NEW g, Reads(g)
  PROVE  Continues(g)'
<1> DEFINE e == RunEnd(WordPart, pos)
           kind == IF SubSeq(source, pos, e - 1) \in Keywords THEN "Keyword" ELSE "Identifier"
<1>1. /\ phase = "token" /\ phase' = "gap" /\ errors' = errors
      /\ At(pos) \in WordStart /\ Add(kind, e) /\ pos' = e
  BY Zenon DEF WordStart, LexIdentifierOrKeyword, AtToken, Move
<1>2. Text /\ pos \in 1 .. Len(source) /\ At(pos) = source[pos]
  BY <1>1, TokenStarts
<1>3. /\ e \in Ends(pos) /\ \A j \in Ends(pos) : j <= e
      /\ ~ Lame(pos, e) /\ Kind(pos, e) = kind
  BY <1>1, <1>2, IdentifierEnds
<1> HIDE DEF e, kind
<1> QED BY <1>1, <1>3, WordRead

----------------------------------------------------------------------------
(* Operators, and what starts no word.                                     *)

\* Where an operator character stands, only operators start.
LEMMA OperatorEnds ==
  ASSUME Text, NEW i \in 1 .. Len(source), source[i] \in OperatorPart, NEW j \in i + 1 .. Len(source) + 1
  PROVE  /\ Lexeme(i, j) <=> Operator(i, j)
         /\ ~ Lame(i, j)
         /\ Operator(i, j) => Kind(i, j) = "Operator"
<1>1. ~ Word(i, j) /\ ~ Number(i, j) /\ ~ String(i, j)
  BY FirstCharacters, ClassesAreApart
<1> QED BY <1>1 DEF Lexeme, Lame, Kind, Number

\* The lexer reads the longer operator if there is one.
LEMMA LexOperatorReads ==
  ASSUME ReadInv, LexOperator, NEW g, Reads(g)
  PROVE  Continues(g)'
<1>1. /\ phase = "token" /\ phase' = "gap" /\ At(pos) \in OperatorPart
      /\ IF <<At(pos), At(pos + 1)>> \in Pairs
         THEN Add("Operator", pos + 2) /\ pos' = pos + 2 /\ Report({})
         ELSE IF At(pos) \in Singles THEN Add("Operator", pos + 1) /\ pos' = pos + 1 /\ Report({})
              ELSE Report({pos})
  BY DEF LexOperator, AtToken, Move, OperatorPart
<1>2. /\ Text /\ Len(source) \in Nat /\ pos \in 1 .. Len(source) /\ At(pos) = source[pos]
      /\ source[pos] \notin Space /\ ~ OpensComment(pos)
  BY <1>1, TokenStarts
<1>3. \A j \in pos + 1 .. Len(source) + 1 :
        /\ Lexeme(pos, j) <=> \/ j = pos + 2 /\ <<source[pos], source[pos + 1]>> \in Pairs
                              \/ j = pos + 1 /\ source[pos] \in Singles
        /\ ~ Lame(pos, j)
        /\ Lexeme(pos, j) => Kind(pos, j) = "Operator"
  BY <1>1, <1>2, OperatorEnds, OperatorCases
<1>4. CASE <<At(pos), At(pos + 1)>> \in Pairs
  <2>1. pos + 1 \in 1 .. Len(source) /\ At(pos + 1) = source[pos + 1]
    <3>1. At(pos + 1) # Nul
      BY <1>4, NulIsNoOperator
    <3> QED BY <3>1 DEF At
  <2>2. pos + 2 \in Ends(pos) /\ \A j \in Ends(pos) : j <= pos + 2
    <3>1. pos + 2 \in pos + 1 .. Len(source) + 1
      BY <1>2, <2>1
    <3>2. Lexeme(pos, pos + 2)
      BY <1>2, <1>3, <1>4, <2>1, <3>1
    <3>3. \A j \in Ends(pos) : j <= pos + 2
      BY <1>2, <1>3, EndsAreAhead
    <3> QED BY <3>1, <3>2, <3>3 DEF Ends
  <2>3. ~ Lame(pos, pos + 2) /\ Kind(pos, pos + 2) = "Operator"
    BY <1>3, <2>2, EndsAreAhead
  <2>4. Add(Kind(pos, pos + 2), pos + 2) /\ pos' = pos + 2 /\ errors' = errors
    BY <1>1, <1>4, <2>3 DEF Report
  <2> QED BY <1>1, <2>2, <2>3, <2>4, WordRead
<1>5. CASE <<At(pos), At(pos + 1)>> \notin Pairs
  <2>1. <<source[pos], source[pos + 1]>> \in Pairs => pos + 1 \notin 1 .. Len(source)
    BY <1>2, <1>5 DEF At
  <2>2. \A j \in Ends(pos) : j = pos + 1 /\ source[pos] \in Singles
    <3>1. \A j \in pos + 1 .. Len(source) + 1 : j = pos + 2 => pos + 1 \in 1 .. Len(source)
      BY <1>2
    <3> QED BY <1>3, <2>1, <3>1, EndsAreAhead
  <2>3. CASE At(pos) \in Singles
    <3>1. pos + 1 \in Ends(pos)
      <4>1. pos + 1 \in pos + 1 .. Len(source) + 1
        BY <1>2
      <4> QED BY <1>2, <1>3, <2>3, <4>1 DEF Ends
    <3>2. \A j \in Ends(pos) : j <= pos + 1
      BY <1>2, <2>2
    <3>3. ~ Lame(pos, pos + 1) /\ Kind(pos, pos + 1) = "Operator"
      BY <1>3, <3>1, EndsAreAhead
    <3>4. Add(Kind(pos, pos + 1), pos + 1) /\ pos' = pos + 1 /\ errors' = errors
      BY <1>1, <1>5, <2>3, <3>3 DEF Report
    <3> QED BY <1>1, <3>1, <3>2, <3>3, <3>4, WordRead
  <2>4. CASE At(pos) \notin Singles
    <3>1. Ends(pos) = {}
      BY <1>2, <2>2, <2>4
    <3>2. g[pos] = {}
      BY <1>2, <3>1, NothingToRead
    <3>3. errors \subseteq errors' /\ errors' # {}
      BY <1>1, <1>5, <2>4 DEF Report
    <3> QED BY <1>1, <3>2, <3>3, ErrorRead
  <2> QED BY <2>3, <2>4
<1> QED BY <1>4, <1>5

\* What the lexer reports here starts no word.
LEMMA SkipUnexpectedReads ==
  ASSUME ReadInv, SkipUnexpected, NEW g, Reads(g)
  PROVE  Continues(g)'
<1>1. /\ phase = "token" /\ At(pos) \notin WordPart \cup Singles \cup {"&", "|", Quote}
      /\ ~ (At(pos) = "." /\ At(pos + 1) \in Digit) /\ Report({pos})
  BY DEF SkipUnexpected, AtToken
<1>2. /\ Text /\ Len(source) \in Nat /\ pos \in 1 .. Len(source) /\ At(pos) = source[pos]
      /\ source[pos] \notin Space /\ ~ OpensComment(pos)
  BY <1>1, TokenStarts
<1>3. /\ source[pos] \notin WordStart /\ source[pos] \notin Digit
      /\ source[pos] # Quote /\ source[pos] \notin OperatorPart
  BY <1>1, <1>2, Zenon DEF WordPart, WordStart, OperatorPart
<1>4. Ends(pos) = {}
  <2>1. \A j \in Ends(pos) : FALSE
    BY <1>1, <1>2, <1>3, FirstCharacters, EndsAreAhead DEF Lexeme
  <2> QED BY <2>1
<1>5. g[pos] = {}
  BY <1>2, <1>4, NothingToRead
<1>6. errors \subseteq errors' /\ errors' # {}
  BY <1>1 DEF Report
<1> QED BY <1>1, <1>5, <1>6, ErrorRead

----------------------------------------------------------------------------
(* Numbers.                                                                *)

\* A part of the text is of a class if it is inside the run of that class.
LEMMA RunIsAll ==
  ASSUME Text, NEW class, Nul \notin class, NEW p \in 1 .. Len(source) + 1, NEW j \in p .. Len(source) + 1
  PROVE  All(class, p, j) <=> j <= RunEnd(class, p)
<1> DEFINE e == RunEnd(class, p)
<1>1. Len(source) \in Nat /\ source \in Seq(STRING)
  BY DEF Text
<1>2. e \in p .. Len(source) + 1 /\ At(e) \notin class /\ \A q \in p .. e - 1 : At(q) \in class
  BY <1>1, RunEndProperties
<1> HIDE DEF e
<1>3. \A q \in p .. e - 1 : source[q] \in class
  BY <1>1, <1>2, AtInside
<1>4. ASSUME e < j PROVE e \in p .. j - 1 /\ source[e] \notin class
  <2>1. e \in 1 .. Len(source)
    BY <1>1, <1>2, <1>4
  <2>2. source[e] = At(e)
    BY <1>1, <2>1 DEF At
  <2> QED BY <1>1, <1>2, <1>4, <2>2
<1>5. j <= e => \A q \in p .. j - 1 : q \in p .. e - 1
  BY <1>1, <1>2
<1>6. ~ (j <= e) => e < j
  BY <1>1, <1>2
<1> QED BY <1>3, <1>4, <1>5, <1>6 DEF All, e

\* Digits, points, signs and the marks of exponents are different characters.
LEMMA NumberClasses ==
  ASSUME NEW i
  PROVE  /\ "." \notin Digits(i) /\ "." \notin Marks(i) /\ "." \notin Digit
         /\ \A c \in Marks(i) : c \notin Digits(i) /\ c \notin {"x", "X"}
         /\ \A c \in {"+", "-"} : c \notin Digit
         /\ Nul \notin Digits(i) /\ Nul \notin Marks(i) /\ Nul \notin Digit
         /\ Nul \notin {"x", "X"} /\ Nul \notin {"+", "-"} /\ Nul # "."
<1>1. /\ "." \notin Digits(i) /\ "." \notin Marks(i) /\ "." \notin Digit
      /\ Nul \notin Digits(i) /\ Nul \notin Marks(i) /\ Nul \notin Digit
  BY Zenon DEF Digits, Marks, Digit, HexDigit, Nul
<1>2. \A c \in Marks(i) : c \notin Digits(i) /\ c \notin {"x", "X"}
  <2>1. CASE Hexadecimal(i)
    BY <2>1, Zenon DEF Digits, Marks, Digit, HexDigit
  <2>2. CASE ~ Hexadecimal(i)
    BY <2>2, Zenon DEF Digits, Marks, Digit
  <2> QED BY <2>1, <2>2
<1>3. \A c \in {"+", "-"} : c \notin Digit
  BY Zenon DEF Digit
<1>4. Nul \notin {"x", "X"} /\ Nul \notin {"+", "-"} /\ Nul # "."
  BY Zenon DEF Nul
<1> QED BY <1>1, <1>2, <1>3, <1>4

\* Where the digits of the number end, and those behind its point.
Whole(i) == RunEnd(Digits(i), First(i))
Fraction(i) == IF At(Whole(i)) = "." THEN RunEnd(Digits(i), Whole(i) + 1) ELSE Whole(i)
NumberStarts(i) == source[i] \in Digit \/ (source[i] = "." /\ At(i + 1) \in Digit)

\* The digits before the point.
LEMMA WholeEnds ==
  ASSUME Text, NEW i \in 1 .. Len(source), NumberStarts(i)
  PROVE  /\ Whole(i) \in First(i) .. Len(source) + 1
         /\ At(Whole(i)) \notin Digits(i)
         /\ \A q \in First(i) .. Whole(i) - 1 : source[q] \in Digits(i) /\ At(q) = source[q]
         /\ Whole(i) = i => source[i] = "." /\ source[i + 1] \in Digit /\ i + 1 \in 1 .. Len(source)
         /\ ~ Hexadecimal(i) /\ source[i] = "." => Whole(i) = i
<1>1. Len(source) \in Nat /\ source \in Seq(STRING)
  BY DEF Text
<1>2. First(i) \in i .. Len(source) + 1 /\ First(i) \in 1 .. Len(source) + 1
  BY <1>1, HexadecimalStart
<1>3. /\ Whole(i) \in First(i) .. Len(source) + 1 /\ At(Whole(i)) \notin Digits(i)
      /\ \A q \in First(i) .. Whole(i) - 1 : At(q) \in Digits(i)
  BY <1>1, <1>2, NumberClasses, RunEndProperties DEF Whole
<1>4. \A q \in First(i) .. Whole(i) - 1 : source[q] \in Digits(i) /\ At(q) = source[q]
  BY <1>1, <1>3, NumberClasses, AtInside
<1>5. At(i) = source[i]
  BY <1>1 DEF At
<1>6. ASSUME Whole(i) = i PROVE source[i] = "." /\ source[i + 1] \in Digit /\ i + 1 \in 1 .. Len(source)
  <2>1. ~ Hexadecimal(i)
    <3>1. Hexadecimal(i) => First(i) = i + 2
      BY DEF First
    <3> QED BY <1>1, <1>3, <1>6, <3>1
  <2>2. source[i] \notin Digit
    BY <1>3, <1>5, <1>6, <2>1 DEF Digits
  <2>3. source[i] = "." /\ At(i + 1) \in Digit
    BY <2>2 DEF NumberStarts
  <2> QED BY <1>1, <2>3, NumberClasses, AtInside
<1>7. ASSUME ~ Hexadecimal(i), source[i] = "." PROVE Whole(i) = i
  <2>1. First(i) = i /\ Digits(i) = Digit
    BY <1>7 DEF First, Digits
  <2>2. Whole(i) # i => i \in First(i) .. Whole(i) - 1
    BY <1>1, <1>3, <2>1
  <2> QED BY <1>4, <1>7, <2>2, NumberClasses
<1> QED BY <1>3, <1>4, <1>6, <1>7

\* The digits behind the point, if there is one; together there is one at least.
LEMMA FractionEnds ==
  ASSUME Text, NEW i \in 1 .. Len(source), NumberStarts(i)
  PROVE  /\ Fraction(i) \in Whole(i) .. Len(source) + 1
         /\ Fraction(i) \in i + 1 .. Len(source) + 1
         /\ At(Whole(i)) # "." => Fraction(i) = Whole(i)
         /\ At(Whole(i)) = "." => /\ Whole(i) \in 1 .. Len(source) /\ source[Whole(i)] = "."
                                  /\ Fraction(i) \in Whole(i) + 1 .. Len(source) + 1
                                  /\ ~ Hexadecimal(i) => Fraction(i) >= i + 2
                                  /\ \A q \in Whole(i) + 1 .. Fraction(i) - 1 : At(q) \in Digits(i)
                                  /\ \A j \in Whole(i) + 1 .. Len(source) + 1 :
                                       All(Digits(i), Whole(i) + 1, j) <=> j <= Fraction(i)
<1> DEFINE w == Whole(i)
           n == Len(source) + 1
<1>1. Len(source) \in Nat /\ source \in Seq(STRING)
  BY DEF Text
<1>2. w \in First(i) .. n /\ w \in i .. n /\ First(i) \in i .. n
  BY <1>1, WholeEnds, HexadecimalStart
<1>3. w = i => source[i] = "." /\ source[i + 1] \in Digit /\ i + 1 \in 1 .. Len(source)
  BY WholeEnds
<1>4. Hexadecimal(i) => First(i) = i + 2
  BY DEF First
<1>5. ~ Hexadecimal(i) => First(i) = i /\ Digits(i) = Digit
  BY DEF First, Digits
<1>6. At(i) = source[i]
  BY <1>1 DEF At
<1> HIDE DEF w
<1>7. CASE At(w) # "."
  <2>1. Fraction(i) = w
    BY <1>7 DEF Fraction, w
  <2>2. w # i
    BY <1>3, <1>6, <1>7
  <2> QED BY <1>1, <1>2, <1>7, <2>1, <2>2 DEF w
<1>8. CASE At(w) = "."
  <2>1. w \in 1 .. Len(source) /\ source[w] = "." /\ w + 1 \in 1 .. n
    <3>1. w \in 1 .. Len(source) /\ source[w] = "."
      BY <1>8, NumberClasses DEF At
    <3> QED BY <1>1, <3>1
  <2>2. Fraction(i) = RunEnd(Digits(i), w + 1)
    BY <1>8 DEF Fraction, w
  <2>3. /\ Fraction(i) \in w + 1 .. n /\ \A q \in w + 1 .. Fraction(i) - 1 : At(q) \in Digits(i)
        /\ At(w + 1) \in Digits(i) => Fraction(i) \in (w + 1) + 1 .. n
    BY <1>1, <2>1, <2>2, NumberClasses, RunEndProperties, SMTT(30)
  <2>4. \A j \in w + 1 .. n : All(Digits(i), w + 1, j) <=> j <= Fraction(i)
    BY <2>1, <2>2, NumberClasses, RunIsAll
  <2>5. ~ Hexadecimal(i) => Fraction(i) >= i + 2
    <3>1. CASE w = i /\ ~ Hexadecimal(i)
      <4>1. At(w + 1) \in Digits(i)
        BY <1>1, <1>3, <1>5, <3>1 DEF At
      <4> QED BY <1>1, <2>3, <3>1, <4>1
    <3>2. CASE w # i
      BY <1>1, <1>2, <2>3, <3>2
    <3> QED BY <3>1, <3>2
  <2>6. Fraction(i) \in w .. n /\ Fraction(i) \in i + 1 .. n
    BY <1>1, <1>2, <2>3
  <2> HIDE DEF n
  <2> QED BY <1>8, <2>1, <2>3, <2>4, <2>5, <2>6 DEF w, n
<1> QED BY <1>7, <1>8

\* An integer is the digits before the point or fewer.
LEMMA IntegerCases ==
  ASSUME Text, NEW i \in 1 .. Len(source), NumberStarts(i), NEW j \in i + 1 .. Len(source) + 1
  PROVE  Integer(i, j) <=> \/ Hexadecimal(i) /\ j = i + 1
                           \/ First(i) <= j /\ j <= Whole(i)
<1>1. Len(source) \in Nat
  BY DEF Text
<1>2. First(i) \in 1 .. Len(source) + 1 /\ First(i) \in i .. Len(source) + 1
  BY <1>1, HexadecimalStart
<1>3. First(i) <= j => (All(Digits(i), First(i), j) <=> j <= Whole(i))
  <2>1. First(i) <= j => j \in First(i) .. Len(source) + 1
    BY <1>1, <1>2
  <2> QED BY <1>2, <2>1, NumberClasses, RunIsAll DEF Whole
<1>4. CASE Hexadecimal(i)
  <2>1. First(i) = i + 2 /\ Digits(i) = HexDigit
    BY <1>4 DEF First, Digits
  <2> QED BY <1>3, <1>4, <2>1 DEF Integer
<1>5. CASE ~ Hexadecimal(i)
  <2>1. First(i) = i /\ Digits(i) = Digit /\ First(i) <= j /\ i < j
    BY <1>1, <1>5 DEF First, Digits
  <2> QED BY <1>3, <1>5, <2>1 DEF Integer, Some
<1> QED BY <1>4, <1>5

\* A number with a point has those digits all, and some behind the point.
LEMMA DecimalCases ==
  ASSUME Text, NEW i \in 1 .. Len(source), NumberStarts(i), NEW j \in i + 1 .. Len(source) + 1
  PROVE  Decimal(i, j) <=> /\ At(Whole(i)) = "."
                           /\ Whole(i) < j /\ j <= Fraction(i)
                           /\ Hexadecimal(i) \/ i + 2 <= j
<1> DEFINE w == Whole(i)
           n == Len(source) + 1
<1>1. Len(source) \in Nat /\ First(i) \in 1 .. n /\ First(i) \in i .. n
  BY HexadecimalStart DEF Text
<1>2. w \in First(i) .. n /\ \A q \in First(i) .. w - 1 : source[q] \in Digits(i)
  BY WholeEnds
<1>3. At(w) = "." => /\ w \in 1 .. Len(source) /\ source[w] = "."
                     /\ \A k \in w + 1 .. n : All(Digits(i), w + 1, k) <=> k <= Fraction(i)
  BY FractionEnds
<1>4. \A p \in First(i) .. n : All(Digits(i), First(i), p) <=> p <= w
  BY <1>1, NumberClasses, RunIsAll DEF Whole
<1> HIDE DEF w
<1>5. ASSUME Decimal(i, j)
      PROVE  /\ At(w) = "." /\ w < j /\ j <= Fraction(i)
             /\ Hexadecimal(i) \/ i + 2 <= j
  <2>1. PICK p \in First(i) .. j - 1 :
          source[p] = "." /\ All(Digits(i), First(i), p) /\ All(Digits(i), p + 1, j)
    BY <1>5 DEF Decimal
  <2>2. p \in First(i) .. n /\ p <= w /\ p \in 1 .. Len(source)
    BY <1>1, <1>4, <2>1
  <2>3. p = w
    <3>1. p # w => p \in First(i) .. w - 1
      BY <1>1, <1>2, <2>2
    <3> QED BY <1>2, <2>1, <3>1, NumberClasses
  <2>4. At(w) = "."
    BY <1>1, <2>1, <2>2, <2>3 DEF At, Text
  <2>5. w < j /\ j \in w + 1 .. n
    BY <1>1, <2>1, <2>2, <2>3
  <2>6. j <= Fraction(i)
    BY <1>3, <2>1, <2>3, <2>4, <2>5
  <2>7. ~ Hexadecimal(i) => i + 2 <= j
    <3>1. ASSUME ~ Hexadecimal(i), j = i + 1 PROVE FALSE
      <4>1. PICK q \in i .. j - 1 : source[q] \in Digit
        BY <1>5, <3>1 DEF Decimal
      <4>2. q = i /\ p = i
        BY <1>1, <2>1, <3>1, <4>1
      <4> QED BY <2>1, <4>1, <4>2, NumberClasses
    <3> QED BY <1>1, <3>1
  <2> QED BY <2>4, <2>5, <2>6, <2>7
<1>6. ASSUME At(w) = ".", w < j, j <= Fraction(i), Hexadecimal(i) \/ i + 2 <= j
      PROVE  Decimal(i, j)
  <2>1. w \in First(i) .. j - 1 /\ j \in w + 1 .. n /\ w \in First(i) .. n /\ w <= w
    BY <1>1, <1>2, <1>6
  <2>2. source[w] = "." /\ All(Digits(i), First(i), w) /\ All(Digits(i), w + 1, j)
    BY <1>3, <1>4, <1>6, <2>1
  <2>3. Hexadecimal(i) \/ \E q \in i .. j - 1 : source[q] \in Digit
    <3>1. CASE source[i] \in Digit
      <4>1. i \in i .. j - 1
        BY <1>1
      <4> QED BY <3>1, <4>1
    <3>2. CASE source[i] \notin Digit /\ ~ Hexadecimal(i)
      <4>1. At(i + 1) \in Digit /\ i + 1 \in i .. j - 1
        BY <1>1, <1>6, <3>2 DEF NumberStarts
      <4>2. source[i + 1] \in Digit
        BY <4>1, NumberClasses DEF At
      <4> QED BY <4>1, <4>2
    <3> QED BY <3>1, <3>2
  <2> QED BY <2>1, <2>2, <2>3 DEF Decimal
<1> QED BY <1>5, <1>6 DEF w

\* A number without an exponent is at longest up to the end of the fraction,
\* and nowhere else can the mark of an exponent stand.
LEMMA NumeralEnds ==
  ASSUME Text, NEW i \in 1 .. Len(source), NumberStarts(i)
  PROVE  /\ Integer(i, Fraction(i)) \/ Decimal(i, Fraction(i))
         /\ Integer(i, Fraction(i)) <=> Fraction(i) = Whole(i)
         /\ \A j \in i + 1 .. Len(source) + 1 : Integer(i, j) \/ Decimal(i, j) =>
              /\ j <= Fraction(i)
              /\ At(j) \in Marks(i) => j = Fraction(i)
<1> DEFINE w == Whole(i)
           f == Fraction(i)
           n == Len(source) + 1
<1>1. Len(source) \in Nat /\ First(i) \in 1 .. n /\ First(i) \in i .. n
  BY HexadecimalStart DEF Text
<1>2. /\ w \in First(i) .. n
      /\ \A q \in First(i) .. w - 1 : source[q] \in Digits(i) /\ At(q) = source[q]
      /\ w = i => source[i] = "."
  BY WholeEnds
<1>3. f \in w .. n /\ f \in i + 1 .. n /\ (At(w) # "." => f = w)
  BY FractionEnds
<1>4. At(w) = "." => /\ f \in w + 1 .. n
                     /\ ~ Hexadecimal(i) => f >= i + 2
                     /\ \A q \in w + 1 .. f - 1 : At(q) \in Digits(i)
  BY FractionEnds
<1>5. \A j \in i + 1 .. n : Integer(i, j) <=> \/ Hexadecimal(i) /\ j = i + 1
                                              \/ First(i) <= j /\ j <= w
  BY IntegerCases
<1>6. \A j \in i + 1 .. n : Decimal(i, j) <=> /\ At(w) = "." /\ w < j /\ j <= f
                                              /\ Hexadecimal(i) \/ i + 2 <= j
  BY DecimalCases
<1>7. Hexadecimal(i) => First(i) = i + 2 /\ At(i + 1) \in {"x", "X"}
  BY DEF First, Hexadecimal
<1> HIDE DEF w, f
<1>8. Integer(i, f) \/ Decimal(i, f)
  <2>1. CASE At(w) = "."
    BY <1>1, <1>2, <1>3, <1>4, <1>6, <2>1
  <2>2. CASE At(w) # "."
    BY <1>1, <1>2, <1>3, <1>5, <2>2
  <2> QED BY <2>1, <2>2
<1>9. Integer(i, f) <=> f = w
  <2>1. f = w => Integer(i, f)
    BY <1>1, <1>2, <1>3, <1>5
  <2>2. Integer(i, f) => f = w
    <3>1. Integer(i, f) => \/ Hexadecimal(i) /\ f = i + 1
                           \/ f <= w
      BY <1>3, <1>5
    <3>2. ~ (Hexadecimal(i) /\ f = i + 1)
      BY <1>1, <1>2, <1>3, <1>7
    <3> QED BY <1>1, <1>2, <1>3, <3>1, <3>2
  <2> QED BY <2>1, <2>2
<1>10. ASSUME NEW j \in i + 1 .. n, Integer(i, j)
       PROVE  j <= f /\ (At(j) \in Marks(i) => j = f)
  <2>1. CASE Hexadecimal(i) /\ j = i + 1
    <3>1. At(j) \notin Marks(i)
      BY <1>7, <2>1, NumberClasses
    <3> QED BY <1>1, <1>3, <2>1, <3>1
  <2>2. CASE First(i) <= j /\ j <= w
    <3>1. j \in First(i) .. w - 1 => At(j) \notin Marks(i)
      BY <1>2, NumberClasses
    <3>2. At(w) = "." => At(w) \notin Marks(i)
      BY NumberClasses
    <3>3. j \in First(i) .. w - 1 \/ j = w
      BY <1>1, <1>2, <2>2
    <3> QED BY <1>1, <1>2, <1>3, <2>2, <3>1, <3>2, <3>3
  <2> QED BY <1>5, <1>10, <2>1, <2>2
<1>11. ASSUME NEW j \in i + 1 .. n, Decimal(i, j)
       PROVE  j <= f /\ (At(j) \in Marks(i) => j = f)
  <2>1. At(w) = "." /\ w < j /\ j <= f
    BY <1>6, <1>11
  <2>2. j \in w + 1 .. f - 1 => At(j) \notin Marks(i)
    BY <1>4, <2>1, NumberClasses
  <2>3. j \in w + 1 .. f - 1 \/ j = f
    BY <1>1, <1>2, <1>3, <2>1
  <2> QED BY <2>1, <2>2, <2>3
<1> QED BY <1>8, <1>9, <1>10, <1>11 DEF f, w

\* Where the digits of the exponent start if it is there.
Signed(i) == IF At(Fraction(i) + 1) \in {"+", "-"} THEN Fraction(i) + 2 ELSE Fraction(i) + 1
Scale(i) == RunEnd(Digit, Signed(i))

\* What the exponent takes for its first digit stands in the text, or is its end.
LEMMA SignedEnds ==
  ASSUME Text, NEW i \in 1 .. Len(source), NumberStarts(i), At(Fraction(i)) \in Marks(i)
  PROVE  /\ Fraction(i) \in i + 1 .. Len(source) /\ source[Fraction(i)] = At(Fraction(i))
         /\ Signed(i) \in Fraction(i) + 1 .. Len(source) + 1
<1>1. Len(source) \in Nat
  BY DEF Text
<1>2. Fraction(i) \in i + 1 .. Len(source) + 1
  BY FractionEnds
<1>3. Fraction(i) \in 1 .. Len(source) /\ source[Fraction(i)] = At(Fraction(i))
  BY NumberClasses DEF At, Text
<1>4. At(Fraction(i) + 1) \in {"+", "-"} => Fraction(i) + 1 \in 1 .. Len(source)
  BY NumberClasses DEF At, Text
<1> QED BY <1>1, <1>2, <1>3, <1>4 DEF Signed

\* An exponent is behind the last digit of the fraction and nowhere else.
LEMMA ScaledCases ==
  ASSUME Text, NEW i \in 1 .. Len(source), NumberStarts(i), NEW j \in i + 1 .. Len(source) + 1
  PROVE  Scaled(i, j) <=> /\ At(Fraction(i)) \in Marks(i) /\ At(Signed(i)) \in Digit
                          /\ Signed(i) < j /\ j <= Scale(i)
<1> DEFINE f == Fraction(i)
           s == Signed(i)
           n == Len(source) + 1
<1>1. Len(source) \in Nat /\ f \in i + 1 .. n
  BY FractionEnds DEF Text
<1>2. s = IF At(f + 1) \in {"+", "-"} THEN f + 2 ELSE f + 1
  BY DEF Signed
<1>3. At(f) \in Marks(i) =>
        /\ f \in i + 1 .. Len(source) /\ source[f] = At(f)
        /\ s \in f + 1 .. n
        /\ \A k \in s .. n : All(Digit, s, k) <=> k <= Scale(i)
  <2>1. At(f) \in Marks(i) => f \in i + 1 .. Len(source) /\ source[f] = At(f) /\ s \in f + 1 .. n
    BY SignedEnds
  <2>2. ASSUME At(f) \in Marks(i) PROVE \A k \in s .. n : All(Digit, s, k) <=> k <= Scale(i)
    <3>1. s \in 1 .. n
      BY <1>1, <2>1, <2>2
    <3> QED BY <3>1, NumberClasses, RunIsAll DEF Scale
  <2> QED BY <2>1, <2>2
<1>4. \A m \in i + 1 .. n : (Integer(i, m) \/ Decimal(i, m)) /\ At(m) \in Marks(i) => m = f
  BY NumeralEnds
<1>5. Integer(i, f) \/ Decimal(i, f)
  BY NumeralEnds
<1> HIDE DEF f, s
<1>6. ASSUME Scaled(i, j)
      PROVE  At(f) \in Marks(i) /\ At(s) \in Digit /\ s < j /\ j <= Scale(i)
  <2>1. PICK m \in i + 1 .. j - 1 : Exponent(i, m, j) /\ (Integer(i, m) \/ Decimal(i, m))
    BY <1>6 DEF Scaled
  <2>2. m \in i + 1 .. Len(source) /\ At(m) = source[m] /\ source[m] \in Marks(i)
    BY <1>1, <2>1 DEF Exponent, At, Text
  <2>3. m = f
    BY <1>1, <1>4, <2>1, <2>2
  <2>4. CASE Some(Digit, m + 1, j)
    <3>1. m + 1 < j /\ All(Digit, m + 1, j)
      BY <2>4 DEF Some
    <3>2. m + 1 \in m + 1 .. j - 1 /\ m + 1 \in 1 .. Len(source)
      BY <1>1, <2>1, <2>2, <3>1
    <3>3. At(m + 1) \in Digit
      BY <3>1, <3>2 DEF All, At, Text
    <3>4. s = m + 1
      BY <1>2, <2>3, <3>3, NumberClasses
    <3>5. j \in s .. n
      BY <1>1, <2>2, <3>1, <3>4
    <3> QED BY <1>3, <2>2, <2>3, <3>1, <3>3, <3>4, <3>5
  <2>5. CASE At(m + 1) \in {"+", "-"} /\ Some(Digit, m + 2, j)
    <3>1. s = m + 2 /\ m + 2 < j /\ All(Digit, m + 2, j)
      BY <1>2, <2>3, <2>5 DEF Some
    <3>2. m + 2 \in m + 2 .. j - 1 /\ m + 2 \in 1 .. Len(source) /\ j \in s .. n
      BY <1>1, <2>1, <2>2, <3>1
    <3>3. At(m + 2) \in Digit
      BY <3>1, <3>2 DEF All, At, Text
    <3> QED BY <1>3, <2>2, <2>3, <3>1, <3>2, <3>3
  <2> QED BY <2>1, <2>4, <2>5 DEF Exponent
<1>7. ASSUME At(f) \in Marks(i), At(s) \in Digit, s < j, j <= Scale(i)
      PROVE  Scaled(i, j)
  <2>1. f \in i + 1 .. Len(source) /\ source[f] \in Marks(i) /\ s \in f + 1 .. n
    BY <1>3, <1>7
  <2>2. f \in i + 1 .. j - 1 /\ j \in s .. n
    BY <1>1, <1>7, <2>1
  <2>3. Some(Digit, s, j)
    BY <1>3, <1>7, <2>2 DEF Some
  <2>4. Exponent(i, f, j)
    BY <1>2, <2>1, <2>3 DEF Exponent
  <2> QED BY <1>5, <2>2, <2>4 DEF Scaled
<1> QED BY <1>6, <1>7 DEF f, s

\* Where a number starts, nothing else does.
LEMMA NumbersOnly ==
  ASSUME Text, NEW i \in 1 .. Len(source), NumberStarts(i), NEW j \in i + 1 .. Len(source) + 1
  PROVE  /\ Lexeme(i, j) <=> Number(i, j)
         /\ Number(i, j) => Kind(i, j) = IF Integer(i, j) THEN "IntLiteral" ELSE "FloatLiteral"
<1>1. ~ Word(i, j) /\ ~ String(i, j) /\ ~ Operator(i, j)
  BY FirstCharacters, ClassesAreApart DEF NumberStarts
<1> QED BY <1>1 DEF Lexeme, Kind, Number

\* The longest number, without an exponent, with one, and where there is but
\* the mark of one.
LEMMA NumberEnds ==
  ASSUME Text, NEW i \in 1 .. Len(source), NumberStarts(i), NEW e,
         e = IF At(Fraction(i)) \in Marks(i) /\ At(Signed(i)) \in Digit THEN Scale(i) ELSE Fraction(i)
  PROVE  /\ e \in Ends(i) /\ \A j \in Ends(i) : j <= e
         /\ Lame(i, e) <=> At(Fraction(i)) \in Marks(i) /\ At(Signed(i)) \notin Digit
         /\ Kind(i, e) = IF e = Whole(i) THEN "IntLiteral" ELSE "FloatLiteral"
<1> DEFINE f == Fraction(i)
           s == Signed(i)
           n == Len(source) + 1
<1>1. Len(source) \in Nat /\ source \in Seq(STRING) /\ f \in i + 1 .. n /\ f \in Whole(i) .. n
  BY FractionEnds DEF Text
<1>2. \A j \in i + 1 .. n : Scaled(i, j) <=> /\ At(f) \in Marks(i) /\ At(s) \in Digit
                                             /\ s < j /\ j <= Scale(i)
  BY ScaledCases
<1>3. /\ Integer(i, f) \/ Decimal(i, f)
      /\ Integer(i, f) <=> f = Whole(i)
      /\ \A j \in i + 1 .. n : Integer(i, j) \/ Decimal(i, j) => j <= f
  BY NumeralEnds
<1>4. \A j \in i + 1 .. n :
        /\ Lexeme(i, j) <=> Number(i, j)
        /\ Number(i, j) => Kind(i, j) = IF Integer(i, j) THEN "IntLiteral" ELSE "FloatLiteral"
  BY NumbersOnly
<1>5. \A j \in i + 1 .. n : Number(i, j) <=> Integer(i, j) \/ Decimal(i, j) \/ Scaled(i, j)
  BY DEF Number, Float
<1>6. At(f) \in Marks(i) => s \in f + 1 .. n
  BY SignedEnds
<1>7. Whole(i) \in First(i) .. n /\ First(i) \in i .. n
  BY WholeEnds, HexadecimalStart
<1> HIDE DEF f, s
<1>8. CASE At(f) \in Marks(i) /\ At(s) \in Digit
  <2>1. e = Scale(i)
    BY <1>8 DEF f, s
  <2>2. e \in s + 1 .. n
    <3>1. s \in 1 .. n
      BY <1>1, <1>6, <1>8
    <3> QED BY <1>1, <1>8, <2>1, <3>1, NumberClasses, RunEndProperties DEF Scale, s
  <2>3. e \in i + 1 .. n /\ e # Whole(i) /\ ~ (e <= f)
    BY <1>1, <1>6, <1>7, <1>8, <2>2
  <2>4. Scaled(i, e) /\ ~ Integer(i, e)
    BY <1>1, <1>2, <1>3, <1>6, <1>8, <2>1, <2>2, <2>3
  <2>5. e \in Ends(i) /\ Kind(i, e) = "FloatLiteral"
    BY <1>4, <1>5, <2>3, <2>4 DEF Ends
  <2>6. ASSUME NEW j \in Ends(i) PROVE j <= e
    <3>1. j \in i + 1 .. n /\ Number(i, j)
      BY <1>4, EndsAreAhead
    <3>2. j <= f \/ j <= Scale(i)
      BY <1>2, <1>3, <1>5, <3>1
    <3> QED BY <1>1, <1>6, <1>8, <2>1, <2>2, <3>1, <3>2
  <2>7. ~ Lame(i, e)
    BY <2>4 DEF Lame
  <2> QED BY <1>8, <2>3, <2>5, <2>6, <2>7 DEF f, s
<1>9. CASE ~ (At(f) \in Marks(i) /\ At(s) \in Digit)
  <2>1. e = f
    BY <1>9 DEF f, s
  <2>2. \A j \in i + 1 .. n : ~ Scaled(i, j)
    BY <1>2, <1>9
  <2>3. f \in Ends(i) /\ Kind(i, f) = IF f = Whole(i) THEN "IntLiteral" ELSE "FloatLiteral"
    BY <1>1, <1>3, <1>4, <1>5 DEF Ends
  <2>4. \A j \in Ends(i) : j <= f
    BY <1>3, <1>4, <1>5, <2>2, EndsAreAhead
  <2>5. Lame(i, f) <=> At(f) \in Marks(i)
    BY <1>1, <1>3, <1>5, <2>2 DEF Lame
  <2> QED BY <1>9, <2>1, <2>3, <2>4, <2>5 DEF f, s
<1> QED BY <1>8, <1>9

\* The lexer reads the longest number, and reports where the exponent is missing.
LEMMA LexNumberReads ==
  ASSUME ReadInv, LexNumber, NEW g, Reads(g)
  PROVE  Continues(g)'
<1>1. phase = "token" /\ phase' = "gap" /\ (At(pos) \in Digit \/ (At(pos) = "." /\ At(pos + 1) \in Digit))
  BY DEF LexNumber, AtToken
<1>2. /\ Text /\ Len(source) \in Nat /\ source \in Seq(STRING)
      /\ pos \in 1 .. Len(source) /\ At(pos) = source[pos]
      /\ source[pos] \notin Space /\ ~ OpensComment(pos) /\ NumberStarts(pos)
  BY <1>1, TokenStarts DEF NumberStarts
<1>3. NumberFrom(First(pos), Digits(pos), Marks(pos))
  <2>1. CASE Hexadecimal(pos)
    BY <2>1, Zenon DEF LexNumber, Hexadecimal, First, Digits, Marks
  <2>2. CASE ~ Hexadecimal(pos)
    BY <2>2, Zenon DEF LexNumber, Hexadecimal, First, Digits, Marks
  <2> QED BY <2>1, <2>2
<1> DEFINE f == Fraction(pos)
           s == Signed(pos)
           exponent == At(f) \in Marks(pos)
           end == IF exponent THEN Scale(pos) ELSE f
           kind == IF end = Whole(pos) THEN "IntLiteral" ELSE "FloatLiteral"
<1>4. /\ Add(kind, end) /\ pos' = end
      /\ Report(IF exponent /\ At(s) \notin Digit THEN {s} ELSE {})
  BY <1>3, Zenon DEF NumberFrom, Move, Whole, Fraction, Signed, Scale
<1> DEFINE e == IF At(f) \in Marks(pos) /\ At(s) \in Digit THEN Scale(pos) ELSE f
<1>5. /\ e \in Ends(pos) /\ \A j \in Ends(pos) : j <= e
      /\ Lame(pos, e) <=> At(f) \in Marks(pos) /\ At(s) \notin Digit
      /\ Kind(pos, e) = IF e = Whole(pos) THEN "IntLiteral" ELSE "FloatLiteral"
  BY <1>2, NumberEnds
<1> HIDE DEF f, s
<1>6. CASE exponent /\ At(s) \notin Digit
  <2>1. errors \subseteq errors' /\ errors' # {}
    BY <1>4, <1>6 DEF Report
  <2>2. Max(Ends(pos)) = e
    <3>1. Max(Ends(pos)) \in Ends(pos) /\ e <= Max(Ends(pos)) /\ Max(Ends(pos)) <= e
      BY <1>2, <1>5, LongestEnd
    <3>2. Max(Ends(pos)) \in Int /\ e \in Int
      BY <1>2, <1>5, <3>1, EndsAreAhead
    <3> HIDE DEF e
    <3> QED BY <3>1, <3>2
  <2>3. g[pos] = {}
    BY <1>2, <1>5, <1>6, <2>2, NothingToRead
  <2> QED BY <1>1, <2>1, <2>3, ErrorRead
<1>7. CASE ~ (exponent /\ At(s) \notin Digit)
  <2>1. errors' = errors
    BY <1>4, <1>7 DEF Report
  <2>2. e = end /\ ~ Lame(pos, e)
    BY <1>5, <1>7
  <2>3. Add(Kind(pos, e), e) /\ pos' = e
    BY <1>4, <1>5, <2>2
  <2> HIDE DEF e, end, kind
  <2> QED BY <1>1, <1>5, <2>1, <2>2, <2>3, WordRead
<1> QED BY <1>6, <1>7

----------------------------------------------------------------------------
(* Strings.                                                                *)

\* A character is escaped if the one before it is a backslash that is not.
LEMMA EscapedStep ==
  ASSUME Text, NEW i \in 1 .. Len(source), source[i] = Quote
  PROVE  /\ ~ Escaped(i, i + 1)
         /\ \A p \in i + 1 .. Len(source) :
              Escaped(i, p + 1) <=> source[p] = "\\" /\ ~ Escaped(i, p)
<1> DEFINE Plain(p) == {q \in i .. p - 1 : source[q] # "\\"}
<1>1. Len(source) \in Nat /\ i \in Int
  BY DEF Text
<1>2. \A p : Escaped(i, p) <=> (p - 1 - Max(Plain(p))) % 2 = 1
  BY DEF Escaped
<1>3. ASSUME NEW p \in i + 1 .. Len(source) + 1
      PROVE  /\ Plain(p) \in SUBSET Int /\ i \in Plain(p)
             /\ Max(Plain(p)) \in Plain(p) /\ \A k \in Plain(p) : k <= Max(Plain(p))
  <2>1. i \in Plain(p)
    BY <1>1, Characters
  <2>2. Plain(p) \in SUBSET Int /\ p \in Int /\ \A k \in Plain(p) : k <= p
    BY <1>1
  <2> HIDE DEF Plain
  <2> QED BY <2>1, <2>2, MaxProperties
<1>4. \A p \in i + 1 .. Len(source) + 1 : Max(Plain(p)) \in i .. p - 1
  BY <1>3
<1>5. \A p \in i + 1 .. Len(source) + 1 : source[p - 1] # "\\" => Max(Plain(p)) = p - 1
  <2> SUFFICES ASSUME NEW p \in i + 1 .. Len(source) + 1, source[p - 1] # "\\"
               PROVE  Max(Plain(p)) = p - 1
    OBVIOUS
  <2>1. p - 1 \in Plain(p)
    BY <1>1
  <2>2. p - 1 <= Max(Plain(p)) /\ Max(Plain(p)) \in i .. p - 1
    BY <1>3, <1>4, <2>1
  <2> HIDE DEF Plain
  <2> QED BY <1>1, <2>2
<1>6. \A p \in i + 1 .. Len(source) : source[p] = "\\" => Plain(p + 1) = Plain(p)
  BY <1>1
<1> HIDE DEF Plain
<1>7. ~ Escaped(i, i + 1)
  <2>1. i + 1 \in i + 1 .. Len(source) + 1 /\ (i + 1) - 1 = i /\ i <= i
    BY <1>1
  <2>2. Max(Plain(i + 1)) \in i .. i
    BY <1>1, <1>4, <2>1
  <2>3. (i + 1) - 1 - Max(Plain(i + 1)) = 0
    BY <1>1, <2>2
  <2> QED BY <1>2, <2>3
<1>8. ASSUME NEW p \in i + 1 .. Len(source)
      PROVE  Escaped(i, p + 1) <=> source[p] = "\\" /\ ~ Escaped(i, p)
  <2>1. p \in i + 1 .. Len(source) + 1 /\ p + 1 \in i + 1 .. Len(source) + 1 /\ (p + 1) - 1 = p
    BY <1>1
  <2>2. CASE source[p] # "\\"
    <3>1. Max(Plain(p + 1)) = p
      BY <1>5, <2>1, <2>2
    <3>2. (p + 1) - 1 - Max(Plain(p + 1)) = 0
      BY <1>1, <3>1
    <3> QED BY <1>2, <2>2, <3>2
  <2>3. CASE source[p] = "\\"
    <3> DEFINE m == Max(Plain(p))
    <3>1. Max(Plain(p + 1)) = m /\ m \in i .. p - 1
      BY <1>4, <1>6, <2>1, <2>3
    <3> HIDE DEF m
    <3>2. (p + 1) - 1 - m = (p - 1 - m) + 1 /\ p - 1 - m \in Nat
      BY <1>1, <3>1
    <3>3. ((p - 1 - m) + 1) % 2 = 1 <=> (p - 1 - m) % 2 # 1
      BY <3>2
    <3> QED BY <1>2, <2>3, <3>1, <3>2, <3>3 DEF m
  <2> QED BY <2>2, <2>3
<1> QED BY <1>7, <1>8

\* Where a string can end: at a quote, or badly at the end of the line.
Stops(i, q) == source[q] \in {Quote, "\n"} /\ ~ Escaped(i, q)
Scanned(i, p, r) ==
  /\ r.closed = TRUE =>
       /\ r.end - 1 \in p .. Len(source)
       /\ source[r.end - 1] = Quote /\ ~ Escaped(i, r.end - 1)
       /\ \A q \in p .. r.end - 2 : ~ Stops(i, q)
       /\ \A q : q \in r.wrong <=> q \in p .. r.end - 2 /\ Escaped(i, q) /\ source[q] \notin Escapable
  /\ r.closed # TRUE =>
       \A q \in p .. Len(source) : source[q] = Quote /\ ~ Escaped(i, q) => \E k \in p .. q - 1 : Stops(i, k)

\* Quoting finds the first place where the string can end, and all that is wrong
\* before it, by induction from the end of the text.
LEMMA QuotedScans ==
  ASSUME Text, NEW i \in 1 .. Len(source), source[i] = Quote,
         NEW f, \A p \in 2 .. Len(source) + 1 : f[p] = QuotedAt(f, p)
  PROVE  Scanned(i, i + 1, f[i + 1])
<1> DEFINE n == Len(source) + 1
           T == {p \in 2 .. n : p > i /\ ~ Escaped(i, p) => Scanned(i, p, f[p])}
<1>1. Len(source) \in Nat /\ source \in Seq(STRING) /\ i \in Int
  BY DEF Text
<1>2. \A p \in 1 .. Len(source) : At(p) = source[p]
  BY <1>1 DEF At
<1>3. At(n) = Nul
  BY <1>1, AtEnd
<1>4. \A p \in i + 1 .. Len(source) : Escaped(i, p + 1) <=> source[p] = "\\" /\ ~ Escaped(i, p)
  BY EscapedStep
<1>5. \A p \in 2 .. n : Within(p, f[p])
  BY <1>1, WithinEverywhere
<1>6. ASSUME NEW p \in 2 .. n, p > i, ~ Escaped(i, p), \A q \in p + 1 .. n : q \in T
      PROVE  Scanned(i, p, f[p])
  <2>1. f[p] = QuotedAt(f, p)
    OBVIOUS
  <2>2. CASE At(p) = Quote
    <3>1. f[p] = Read(p + 1, TRUE, {}) /\ p \in 2 .. Len(source)
      BY <1>1, <2>1, <2>2, QuotedCases
    <3>2. f[p].end = p + 1 /\ f[p].closed = TRUE /\ f[p].wrong = {}
      BY <3>1 DEF Read
    <3>3. (p + 1) - 1 = p /\ (p + 1) - 2 = p - 1 /\ p .. p - 1 = {} /\ p \in p .. Len(source)
      BY <1>1, <3>1
    <3>4. source[p] = Quote
      BY <1>1, <1>2, <2>2, <3>1
    <3> QED BY <1>6, <3>2, <3>3, <3>4 DEF Scanned
  <2>3. CASE At(p) \in {Nul, "\n"} \/ (At(p) = "\\" /\ At(p + 1) = Nul)
    <3>1. f[p] = Read(p, FALSE, {})
      BY <1>1, <2>1, <2>3, QuotedCases
    <3>2. f[p].closed = FALSE
      BY <3>1 DEF Read
    <3>3. ASSUME NEW q \in p .. Len(source), source[q] = Quote
          PROVE  \E k \in p .. q - 1 : Stops(i, k)
      <4>1. p \in 1 .. Len(source) /\ At(p) = source[p] /\ source[p] # Nul
        BY <1>1, <1>2 DEF Text
      <4>2. CASE source[p] = "\n"
        <5>1. p \in p .. q - 1
          BY <1>1, <3>3, <4>2, Characters
        <5> QED BY <1>6, <4>2, <5>1 DEF Stops
      <4>3. CASE source[p] = "\\" /\ At(p + 1) = Nul
        <5>1. p + 1 \notin 1 .. Len(source)
          BY <1>2, <4>3 DEF Text
        <5>2. q = p
          BY <1>1, <5>1
        <5> QED BY <3>3, <4>3, <5>2, Characters
      <4> QED BY <2>3, <4>1, <4>2, <4>3
    <3> QED BY <3>2, <3>3 DEF Scanned
  <2>4. CASE At(p) \notin {Nul, "\n", Quote, "\\"}
    <3>1. f[p] = f[p + 1] /\ p + 1 \in p + 1 .. n
      BY <1>1, <2>1, <2>4, QuotedCases
    <3>2. p \in i + 1 .. Len(source) /\ p \in 1 .. Len(source) /\ source[p] = At(p)
      BY <1>1, <1>2, <1>6, <3>1
    <3>3. ~ Escaped(i, p + 1) /\ ~ Stops(i, p) /\ source[p] # Quote
      BY <1>4, <2>4, <3>2 DEF Stops
    <3>4. Scanned(i, p + 1, f[p + 1])
      BY <1>1, <1>6, <3>1, <3>3
    <3> DEFINE r == f[p + 1]
    <3> HIDE DEF r
    <3>5. Scanned(i, p, r)
      <4>1. CASE r.closed = TRUE
        <5>1. /\ r.end - 1 \in p + 1 .. Len(source)
              /\ source[r.end - 1] = Quote /\ ~ Escaped(i, r.end - 1)
              /\ \A q \in p + 1 .. r.end - 2 : ~ Stops(i, q)
              /\ \A q : q \in r.wrong <=> q \in p + 1 .. r.end - 2 /\ Escaped(i, q) /\ source[q] \notin Escapable
          BY <3>4, <4>1 DEF Scanned, r
        <5>2. r.end \in Int
          BY <1>1, <1>5, <3>1 DEF r, Within
        <5>3. \A q \in p .. r.end - 2 : q = p \/ q \in p + 1 .. r.end - 2
          BY <1>1, <5>2
        <5>4. r.end - 1 \in p .. Len(source) /\ \A q \in p + 1 .. r.end - 2 : q \in p .. r.end - 2
          BY <1>1, <5>1, <5>2
        <5> QED BY <1>6, <3>3, <4>1, <5>1, <5>3, <5>4 DEF Scanned
      <4>2. CASE r.closed # TRUE
        <5>1. \A q \in p + 1 .. Len(source) :
                source[q] = Quote /\ ~ Escaped(i, q) => \E k \in p + 1 .. q - 1 : Stops(i, k)
          BY <3>4, <4>2 DEF Scanned, r
        <5>2. \A q \in p .. Len(source) : q = p \/ q \in p + 1 .. Len(source)
          BY <1>1
        <5>3. \A q \in p .. Len(source) : \A k \in p + 1 .. q - 1 : k \in p .. q - 1
          BY <1>1
        <5> QED BY <3>3, <4>2, <5>1, <5>2, <5>3 DEF Scanned
      <4> QED BY <4>1, <4>2
    <3> QED BY <3>1, <3>5 DEF r
  <2>5. CASE At(p) = "\\" /\ At(p + 1) # Nul
    <3> DEFINE r == f[p + 2]
    <3>1. p + 1 \in 1 .. Len(source) /\ p \in i + 1 .. Len(source) /\ p \in 1 .. Len(source)
      <4>1. p + 1 \in 1 .. Len(source)
        BY <2>5 DEF At
      <4> QED BY <1>1, <1>6, <4>1
    <3>2. source[p] = "\\" /\ p + 2 \in p + 1 .. n /\ p + 2 \in 2 .. n /\ p + 1 \in i + 1 .. Len(source)
          /\ (p + 1) + 1 = p + 2
      BY <1>1, <1>2, <1>6, <2>5, <3>1
    <3>3. Escaped(i, p + 1) /\ ~ Escaped(i, p + 2)
      BY <1>4, <1>6, <3>1, <3>2
    <3>4. ~ Stops(i, p) /\ ~ Stops(i, p + 1) /\ source[p] # Quote
      BY <3>2, <3>3, Characters DEF Stops
    <3>5. Scanned(i, p + 2, r)
      BY <1>1, <1>6, <3>2, <3>3
    <3>6. /\ r = Read(r.end, r.closed, r.wrong) /\ r.end \in Int
          /\ r.end \in p + 2 .. n
      BY <1>1, <1>5, <3>2 DEF Within
    <3>7. f[p] = IF source[p + 1] \in Escapable THEN r
                 ELSE Read(r.end, r.closed, r.wrong \cup {p + 1})
      <4>1. source[p + 1] = At(p + 1)
        BY <1>2, <3>1
      <4>2. CASE source[p + 1] \in Escapable
        <5>1. At(p + 1) \in Escapable
          BY <4>1, <4>2
        <5>2. f[p] = f[p + 2]
          BY <1>1, <2>1, <2>5, <5>1, QuotedCases
        <5> QED BY <4>2, <5>2
      <4>3. CASE source[p + 1] \notin Escapable
        <5>1. f[p] = [r EXCEPT !.wrong = @ \cup {p + 1}]
          <6>1. At(p + 1) \notin Escapable
            BY <4>1, <4>3
          <6> QED BY <1>1, <2>1, <2>5, <6>1, QuotedCases
        <5> HIDE DEF r
        <5> QED BY <3>6, <4>3, <5>1, ReadMoreWrong
      <4> QED BY <4>2, <4>3
    <3> HIDE DEF r
    <3>8. /\ f[p].end = r.end /\ f[p].closed = r.closed
          /\ f[p].wrong = IF source[p + 1] \in Escapable THEN r.wrong ELSE r.wrong \cup {p + 1}
      BY <3>7 DEF Read
    <3>9. CASE r.closed = TRUE
      <4>1. /\ r.end - 1 \in p + 2 .. Len(source)
            /\ source[r.end - 1] = Quote /\ ~ Escaped(i, r.end - 1)
            /\ \A q \in p + 2 .. r.end - 2 : ~ Stops(i, q)
            /\ \A q : q \in r.wrong <=> q \in p + 2 .. r.end - 2 /\ Escaped(i, q) /\ source[q] \notin Escapable
        BY <3>5, <3>9 DEF Scanned
      <4>2. \A q : q \in p .. r.end - 2 <=> q = p \/ q = p + 1 \/ q \in p + 2 .. r.end - 2
        BY <1>1, <3>6, <4>1
      <4>3. r.end - 1 \in p .. Len(source)
        BY <1>1, <3>6, <4>1
      <4>4. \A q \in p .. r.end - 2 : ~ Stops(i, q)
        BY <3>4, <4>1, <4>2
      <4>5. \A q : q \in f[p].wrong <=> q \in p .. r.end - 2 /\ Escaped(i, q) /\ source[q] \notin Escapable
        <5>1. \A q : q \in f[p].wrong <=> q \in r.wrong \/ (q = p + 1 /\ source[p + 1] \notin Escapable)
          BY <3>8
        <5> QED BY <1>6, <3>3, <4>1, <4>2, <5>1
      <4> QED BY <3>8, <3>9, <4>1, <4>3, <4>4, <4>5 DEF Scanned
    <3>10. CASE r.closed # TRUE
      <4>1. \A q \in p + 2 .. Len(source) :
              source[q] = Quote /\ ~ Escaped(i, q) => \E k \in p + 2 .. q - 1 : Stops(i, k)
        BY <3>5, <3>10 DEF Scanned
      <4>2. \A q \in p .. Len(source) : q = p \/ q = p + 1 \/ q \in p + 2 .. Len(source)
        BY <1>1
      <4>3. \A q \in p .. Len(source) : \A k \in p + 2 .. q - 1 : k \in p .. q - 1
        BY <1>1
      <4> QED BY <3>3, <3>4, <3>8, <3>10, <4>1, <4>2, <4>3 DEF Scanned
    <3> QED BY <3>9, <3>10
  <2> QED BY <2>2, <2>3, <2>4, <2>5
<1>7. 2 .. n \subseteq T
  <2>1. 2 \in Int /\ n \in Int
    BY <1>1
  <2>2. \A p \in 2 .. n : (\A q \in p + 1 .. n : q \in T) => p \in T
    BY <1>6
  <2> HIDE DEF T, n
  <2> QED BY <2>1, <2>2, InductionFromAbove, Zenon
<1>8. i + 1 \in 2 .. n /\ i + 1 > i /\ ~ Escaped(i, i + 1)
  BY <1>1, EscapedStep
<1> QED BY <1>7, <1>8

\* Where a quote stands, only strings start.
LEMMA StringsOnly ==
  ASSUME Text, NEW i \in 1 .. Len(source), source[i] = Quote, NEW j \in i + 1 .. Len(source) + 1
  PROVE  /\ Lexeme(i, j) <=> String(i, j)
         /\ ~ Lame(i, j)
         /\ String(i, j) => Kind(i, j) = "StringLiteral"
<1>1. ~ Word(i, j) /\ ~ Number(i, j) /\ ~ Operator(i, j)
  BY FirstCharacters, ClassesAreApart
<1> QED BY <1>1 DEF Lexeme, Kind, Lame, Number

\* So there is at most one string there, and that is it.
LEMMA StringEnds ==
  ASSUME Text, NEW i \in 1 .. Len(source), source[i] = Quote,
         NEW r, Scanned(i, i + 1, r), Within(i + 1, r)
  PROVE  \A j \in i + 1 .. Len(source) + 1 : String(i, j) <=> r.closed = TRUE /\ j = r.end /\ r.wrong = {}
<1>1. Len(source) \in Nat /\ i \in Int /\ r.end \in Int
  BY DEF Text, Within
<1> SUFFICES ASSUME NEW j \in i + 1 .. Len(source) + 1
             PROVE  String(i, j) <=> r.closed = TRUE /\ j = r.end /\ r.wrong = {}
  OBVIOUS
<1>2. ASSUME String(i, j)
      PROVE  /\ j - 1 \in i + 1 .. Len(source) /\ j - 2 = (j - 1) - 1 /\ j >= i + 2
             /\ source[j - 1] = Quote /\ ~ Escaped(i, j - 1)
             /\ \A q \in i + 1 .. j - 2 :
                  ~ Stops(i, q) /\ (Escaped(i, q) => source[q] \in Escapable)
  <2>1. /\ j >= i + 2 /\ source[j - 1] = Quote /\ ~ Escaped(i, j - 1)
        /\ \A q \in i + 1 .. j - 2 :
             IF Escaped(i, q) THEN source[q] \in Escapable ELSE source[q] \notin {Quote, "\n"}
    BY <1>2 DEF String
  <2> QED BY <1>1, <2>1 DEF Stops
<1>3. CASE r.closed = TRUE
  <2>1. /\ r.end - 1 \in i + 1 .. Len(source) /\ r.end - 2 = (r.end - 1) - 1
        /\ source[r.end - 1] = Quote /\ ~ Escaped(i, r.end - 1)
        /\ \A q \in i + 1 .. r.end - 2 : ~ Stops(i, q)
        /\ \A q : q \in r.wrong <=> q \in i + 1 .. r.end - 2 /\ Escaped(i, q) /\ source[q] \notin Escapable
    BY <1>1, <1>3 DEF Scanned
  <2>2. ASSUME String(i, j) PROVE j = r.end /\ r.wrong = {}
    <3>1. Stops(i, j - 1) /\ Stops(i, r.end - 1)
      BY <1>2, <2>1, <2>2 DEF Stops
    <3>2. j - 1 \notin i + 1 .. r.end - 2 /\ r.end - 1 \notin i + 1 .. j - 2
      BY <1>2, <2>1, <2>2, <3>1
    <3>3. j = r.end
      BY <1>1, <1>2, <2>1, <2>2, <3>2, SMTT(30)
    <3>4. \A q : q \notin r.wrong
      BY <1>2, <2>1, <2>2, <3>3
    <3> QED BY <3>3, <3>4
  <2>3. ASSUME j = r.end, r.wrong = {} PROVE String(i, j)
    <3>1. j >= i + 2 /\ source[i] = Quote /\ source[j - 1] = Quote /\ ~ Escaped(i, j - 1)
      BY <1>1, <2>1, <2>3
    <3>2. ASSUME NEW q \in i + 1 .. j - 2
          PROVE  IF Escaped(i, q) THEN source[q] \in Escapable ELSE source[q] \notin {Quote, "\n"}
      BY <2>1, <2>3, <3>2 DEF Stops
    <3> QED BY <3>1, <3>2 DEF String
  <2> QED BY <1>3, <2>2, <2>3
<1>4. CASE r.closed # TRUE
  <2>1. \A q \in i + 1 .. Len(source) :
          source[q] = Quote /\ ~ Escaped(i, q) => \E k \in i + 1 .. q - 1 : Stops(i, k)
    BY <1>4 DEF Scanned
  <2>2. ~ String(i, j)
    BY <1>2, <2>1
  <2> QED BY <1>4, <2>2
<1> QED BY <1>3, <1>4

\* The lexer reads that string, and reports where there is none.
LEMMA LexStringReads ==
  ASSUME ReadInv, LexString, NEW g, Reads(g)
  PROVE  Continues(g)'
<1> DEFINE r == Quoted
           end == IF r.closed \/ At(r.end) = "\n" THEN r.end ELSE Len(source) + 1
<1>1. /\ phase = "token" /\ phase' = "gap" /\ At(pos) = Quote
      /\ r.closed => Add("StringLiteral", end)
      /\ Report(IF r.closed THEN r.wrong ELSE r.wrong \cup {pos}) /\ pos' = end
  BY DEF LexString, AtToken, Move
<1>2. /\ Text /\ Len(source) \in Nat /\ source \in Seq(STRING)
      /\ pos \in 1 .. Len(source) /\ source[pos] = Quote
      /\ source[pos] \notin Space /\ ~ OpensComment(pos)
  BY <1>1, TokenStarts
<1>3. Within(pos + 1, r) /\ Scanned(pos, pos + 1, r)
  <2>1. PICK f : (\A p \in 2 .. Len(source) + 1 : f[p] = QuotedAt(f, p)) /\ Quoted = f[pos + 1]
    BY <1>2, QuotedDefined
  <2>2. Scanned(pos, pos + 1, f[pos + 1])
    BY <1>2, <2>1, QuotedScans
  <2> QED BY <1>2, <2>1, <2>2, QuotedWithin
<1> HIDE DEF r
<1>4. r.end \in pos + 1 .. Len(source) + 1 /\ r.closed \in BOOLEAN
  BY <1>3 DEF Within
<1>5. \A j \in pos + 1 .. Len(source) + 1 :
        /\ Lexeme(pos, j) <=> r.closed = TRUE /\ j = r.end /\ r.wrong = {}
        /\ ~ Lame(pos, j)
        /\ Lexeme(pos, j) => Kind(pos, j) = "StringLiteral"
  BY <1>2, <1>3, StringEnds, StringsOnly
<1>6. CASE r.closed = TRUE /\ r.wrong = {}
  <2>1. Lexeme(pos, r.end) /\ ~ Lame(pos, r.end) /\ Kind(pos, r.end) = "StringLiteral"
    BY <1>4, <1>5, <1>6
  <2>2. r.end \in Ends(pos) /\ \A j \in Ends(pos) : j <= r.end
    <3>1. r.end \in Ends(pos)
      BY <1>4, <2>1 DEF Ends
    <3>2. \A j \in Ends(pos) : j = r.end
      BY <1>5, EndsAreAhead
    <3> QED BY <1>2, <1>4, <3>1, <3>2
  <2>3. end = r.end /\ errors' = errors
    BY <1>1, <1>6 DEF Report
  <2>4. Add(Kind(pos, r.end), r.end) /\ pos' = r.end
    BY <1>1, <1>6, <2>1, <2>3
  <2> HIDE DEF end
  <2> QED BY <1>1, <2>1, <2>2, <2>3, <2>4, WordRead
<1>7. CASE ~ (r.closed = TRUE /\ r.wrong = {})
  <2>1. Ends(pos) = {}
    <3>1. \A j \in Ends(pos) : FALSE
      BY <1>5, <1>7, EndsAreAhead
    <3> QED BY <3>1
  <2>2. g[pos] = {}
    BY <1>2, <2>1, NothingToRead
  <2>3. errors \subseteq errors' /\ errors' # {}
    <3>1. PICK places : Report(places) /\ places # {}
      <4> DEFINE places == IF r.closed THEN r.wrong ELSE r.wrong \cup {pos}
      <4>1. places # {}
        BY <1>4, <1>7
      <4> HIDE DEF places
      <4>2. Report(places)
        BY <1>1 DEF places
      <4> QED BY <4>1, <4>2
    <3> QED BY <3>1 DEF Report
  <2> QED BY <1>1, <2>2, <2>3, ErrorRead
<1> QED BY <1>6, <1>7

----------------------------------------------------------------------------
(* The lexer reads what the rules read.                                    *)

\* At the end there is one reading, the token of the end.
LEMMA FinishReads ==
  ASSUME ReadInv, Finish, NEW g, Reads(g)
  PROVE  Continues(g)'
<1>1. /\ phase = "gap" /\ phase' = "done" /\ UNCHANGED <<source, pos, location, errors>>
      /\ Eof /\ tokens' = Append(tokens, Token("End", pos))
  BY DEF Finish, Add
<1>2. /\ source \in Seq(STRING) /\ pos \in 1 .. Len(source) + 1 /\ Len(source) \in Nat
      /\ tokens \in Seq(TokenSet) /\ location = Place(pos)
  BY DEF ReadInv, PlaceInv, PlacesAreRight, Inv, TypeOK
<1>3. pos = Len(source) + 1
  BY <1>1, <1>2 DEF Eof
<1>4. Token("End", pos) = EndToken
  <2>1. SubSeq(source, pos, pos - 1) = <<>>
    BY <1>2, SubSeqEmpty
  <2> QED BY <1>2, <1>3, <2>1 DEF Token, EndToken
<1>5. g[pos] = {<<EndToken>>}
  <2>1. g[pos] = ReadingAt(g, pos) /\ pos > Len(source)
    BY <1>2, <1>3 DEF Reads
  <2> QED BY <2>1 DEF ReadingAt
<1>6. {tokens \o rest : rest \in g[pos]} = {tokens'}
  <2>1. tokens \o <<EndToken>> = Append(tokens, EndToken)
    BY <1>2
  <2> QED BY <1>1, <1>4, <1>5, <2>1
<1> QED BY <1>1, <1>6 DEF Continues, ReadInv

\* Every step keeps what has been read and what is still to be read together.
LEMMA StepReads ==
  ASSUME ReadInv, Next, Inv', NEW g, Reads(g)
  PROVE  Continues(g)'
<1>1. CASE SkipSpace
  <2>1. phase = "gap" /\ UNCHANGED <<source, tokens, phase, errors>>
    BY <1>1 DEF SkipSpace, InGap
  <2> QED BY <1>1, <2>1, SkipSpaceReads, GapRead
<1>2. CASE SkipLineComment
  <2>1. phase = "gap" /\ UNCHANGED <<source, tokens, phase, errors>>
    BY <1>2 DEF SkipLineComment, InGap
  <2> QED BY <1>2, <2>1, SkipLineCommentReads, GapRead
<1>3. CASE SkipBlockComment
  <2>1. phase = "gap" /\ UNCHANGED <<source, tokens, phase>>
    BY <1>3 DEF SkipBlockComment, InGap
  <2> QED BY <1>3, <2>1, SkipBlockCommentReads, GapRead, ErrorRead
<1>4. CASE GapEnds
  <2>1. phase = "gap" /\ phase' = "token" /\ UNCHANGED <<source, pos, tokens, errors>>
    BY <1>4 DEF GapEnds, InGap
  <2> QED BY <2>1 DEF Continues, ReadInv
<1> QED BY <1>1, <1>2, <1>3, <1>4, LexIdentifierOrKeywordReads, LexNumberReads, LexStringReads,
           LexOperatorReads, SkipUnexpectedReads, FinishReads DEF Next

\* It holds at the start, where nothing has been read.
LEMMA ReadInvInit ==
  ASSUME Init
  PROVE  ReadInv
<1>1. Text
  <2>1. source \in Seq(STRING) /\ \A p \in DOMAIN source : source[p] # Nul
    BY TextsAssumption, Zenon DEF Init
  <2> QED BY <2>1 DEF Text
<1>2. ASSUME NEW g, Reads(g) PROVE Continues(g)
  <2>1. phase = "gap" /\ errors = {} /\ tokens = <<>> /\ pos = 1
    BY DEF Init
  <2>2. g[1] \in SUBSET Seq(TokenSet)
    <3>1. 1 \in 1 .. Len(source) + 1
      BY <1>1 DEF Text
    <3> QED BY <1>1, <1>2, <3>1, ReadingType DEF Text
  <2>3. \A rest \in Seq(TokenSet) : <<>> \o rest = rest
    OBVIOUS
  <2>4. {<<>> \o rest : rest \in g[1]} = g[1]
    BY <2>2, <2>3
  <2> QED BY <2>1, <2>4 DEF Continues
<1>3. phase # "token"
  BY DEF Init
<1> QED BY <1>1, <1>2, <1>3, PlaceInvInit DEF ReadInv

\* It is kept by every step.
LEMMA ReadInvKeeps ==
  ASSUME ReadInv, [Next]_vars
  PROVE  ReadInv'
<1>1. PlaceInv' /\ Inv'
  BY PlaceInvKeeps DEF ReadInv, PlaceInv
<1>2. source' = source
  <2>1. CASE Next
    BY <2>1, StepsMove DEF ReadInv, PlaceInv, Moves, Advances, GapEnds, InGap, Finish
  <2> QED BY <2>1 DEF vars
<1>3. Text'
  BY <1>2 DEF Text, ReadInv
<1>4. phase' = "token" => source'[pos'] \notin Space /\ ~ OpensComment(pos)'
  <2>1. CASE UNCHANGED vars
    <3>1. UNCHANGED <<phase, pos, source>>
      BY <2>1 DEF vars
    <3>2. OpensComment(pos)' = OpensComment(pos)
      BY <3>1 DEF OpensComment, At
    <3> QED BY <3>1, <3>2 DEF ReadInv
  <2>2. CASE GapEnds
    <3>1. /\ UNCHANGED <<pos, source>> /\ At(pos) \notin Space /\ pos \in 1 .. Len(source) + 1 /\ ~ Eof
          /\ ~ (At(pos) = "/" /\ At(pos + 1) \in {"/", "*"})
      BY <2>2 DEF GapEnds, InGap, ReadInv, PlaceInv, Inv, TypeOK
    <3>2. pos \in 1 .. Len(source) /\ Len(source) \in Nat
      BY <3>1 DEF Eof, ReadInv, Text
    <3>3. At(pos) = source[pos]
      BY <3>2 DEF At, ReadInv, Text
    <3>4. OpensComment(pos)' = OpensComment(pos)
      BY <3>1 DEF OpensComment, At
    <3> QED BY <3>1, <3>3, <3>4 DEF OpensComment
  <2>3. CASE Moves \/ Finish
    BY <2>3 DEF Moves, Finish
  <2> QED BY <2>1, <2>2, <2>3, StepsMove DEF ReadInv, PlaceInv
<1>5. ASSUME NEW g, Reads(g)' PROVE Continues(g)'
  <2>1. Reads(g)
    BY <1>2, <1>5, ReadingStays DEF Reads
  <2>2. CASE Next
    BY <1>1, <2>1, <2>2, StepReads
  <2>3. CASE UNCHANGED vars
    BY <2>1, <2>3 DEF vars, Continues, ReadInv
  <2> QED BY <2>2, <2>3
<1> QED BY <1>1, <1>3, <1>4, <1>5 DEF ReadInv

\* A text is read without an error exactly if it is made of words, blanks and
\* comments, and then as its longest words, for any texts.
THEOREM ReadsRight == Spec => []ReadsTheLongest
<1>1. Init => ReadInv
  BY ReadInvInit
<1>2. ReadInv /\ [Next]_vars => ReadInv'
  BY ReadInvKeeps
<1>3. ReadInv => ReadsTheLongest
  <2> SUFFICES ASSUME ReadInv, phase = "done"
               PROVE  (IF errors = {} THEN {tokens} ELSE {}) = Reading
    BY DEF ReadsTheLongest
  <2>1. PICK g : Reads(g) /\ Reading = g[1]
    BY ReadingDefined DEF ReadInv, Text
  <2> QED BY <2>1 DEF ReadInv, Continues
<1> QED BY <1>1, <1>2, <1>3, PTL DEF Spec
=============================================================================
