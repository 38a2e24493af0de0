---------------------------- MODULE Sema_proofs ----------------------------
(***************************************************************************)
(* The walk of semantic analysis keeps its counters in step with the tree, *)
(* and the scopes it pushes and pops are those of the text and hold what   *)
(* the text declares in them, for any expressions, pieces and depth of     *)
(* nesting.  For the scopes the text is looked at as a whole: which pieces *)
(* are open at a place (Trail), which of them begin scopes (Ladder), and   *)
(* what is declared in those (Filed).                                      *)
(***************************************************************************)
EXTENDS Sema, FiniteSetTheorems, SequenceTheorems, DataInduction

NodeSet == [k : Kinds, state : {"open", "ended", "closed"}]

\* A function is entered at the top and nowhere else, so that leaving it leaves
\* everything.
FunctionFirst(nodes) == \A i \in DOMAIN nodes : nodes[i].k = "function" <=> i = 1

Inv == TypeOK /\ CountersFollowTheNest /\ FunctionFirst(nest)

\* What is left of a sequence without its last element.
LEMMA Popped ==
  ASSUME NEW S, NEW s \in Seq(S), s # <<>>
  PROVE  /\ SubSeq(s, 1, Len(s) - 1) \in Seq(S)
         /\ Len(SubSeq(s, 1, Len(s) - 1)) = Len(s) - 1
<1> DEFINE n == Len(s)
           popped == SubSeq(s, 1, n - 1)
<1>1. n \in Nat /\ n >= 1 /\ n - 1 \in Int /\ \A i \in 1 .. n - 1 : s[i] \in S
  OBVIOUS
<1>2. popped \in Seq(S) /\ Len(popped) = IF 1 <= n - 1 THEN n - 1 - 1 + 1 ELSE 0
  BY <1>1, SubSeqProperties
<1> HIDE DEF n, popped
<1>3. Len(popped) = n - 1
  BY <1>1, <1>2
<1> QED BY <1>2, <1>3 DEF n, popped

----------------------------------------------------------------------------
(* Counting nodes.                                                         *)

\* One more node is one more of its kind.
LEMMA CountAppend ==
  ASSUME NEW nodes \in Seq(NodeSet), NEW node \in NodeSet, NEW k \in Kinds
  PROVE  Count(Append(nodes, node), k) = Count(nodes, k) + IF node.k = k THEN 1 ELSE 0
<1> DEFINE Old == {i \in DOMAIN nodes : nodes[i].k = k}
           New == {i \in DOMAIN Append(nodes, node) : Append(nodes, node)[i].k = k}
<1>1. IsFiniteSet(Old)
  <2>1. Old \subseteq 1 .. Len(nodes)
    OBVIOUS
  <2> QED BY <2>1, FS_Interval, FS_Subset
<1>2. New = IF node.k = k THEN Old \cup {Len(nodes) + 1} ELSE Old
  OBVIOUS
<1>3. Len(nodes) + 1 \notin Old
  OBVIOUS
<1>4. Cardinality(Old) \in Nat
  BY <1>1, FS_CardinalityType
<1> HIDE DEF Old, New
<1>5. Cardinality(New) = Cardinality(Old) + IF node.k = k THEN 1 ELSE 0
  <2>1. CASE node.k = k
    <3>1. Cardinality(Old \cup {Len(nodes) + 1}) = Cardinality(Old) + 1
      BY <1>1, <1>3, FS_AddElement
    <3> QED BY <2>1, <3>1, <1>2
  <2>2. CASE node.k # k
    <3>1. New = Old
      BY <2>2, <1>2
    <3> QED BY <2>2, <3>1, <1>4
  <2> QED BY <2>1, <2>2
<1> QED BY <1>5 DEF Count, Old, New

\* No node, none of any kind.
LEMMA CountEmpty ==
  ASSUME NEW k \in Kinds
  PROVE  Count(<<>>, k) = 0
BY FS_EmptySet DEF Count

\* A count is a natural number, and positive if the innermost node is counted.
LEMMA CountType ==
  ASSUME NEW nodes \in Seq(NodeSet), NEW k \in Kinds
  PROVE  Count(nodes, k) \in Nat
<1> DEFINE Old == {i \in DOMAIN nodes : nodes[i].k = k}
<1>1. Old \subseteq 1 .. Len(nodes)
  OBVIOUS
<1>2. IsFiniteSet(Old)
  BY <1>1, FS_Interval, FS_Subset
<1>3. Cardinality(Old) \in Nat
  BY <1>2, FS_CardinalityType
<1> QED BY <1>3 DEF Count

\* A node less is one less of its kind.
LEMMA CountOuter ==
  ASSUME NEW nodes \in Seq(NodeSet), nodes # <<>>, NEW k \in Kinds
  PROVE  Count(nodes, k) = Count(SubSeq(nodes, 1, Len(nodes) - 1), k)
                             + IF nodes[Len(nodes)].k = k THEN 1 ELSE 0
<1> DEFINE outer == SubSeq(nodes, 1, Len(nodes) - 1)
           last == nodes[Len(nodes)]
<1>1. outer \in Seq(NodeSet) /\ last \in NodeSet
  <2>1. outer \in Seq(NodeSet)
    BY Popped
  <2>2. Len(nodes) \in DOMAIN nodes
    OBVIOUS
  <2> QED BY <2>1, <2>2
<1>2. nodes = Append(outer, last)
  OBVIOUS
<1> HIDE DEF outer, last
<1>3. Count(Append(outer, last), k) = Count(outer, k) + IF last.k = k THEN 1 ELSE 0
  BY <1>1, CountAppend
<1> QED BY <1>2, <1>3, Zenon DEF outer, last

\* The end of a statement changes no kind.
LEMMA EndedKeeps ==
  ASSUME NEW nodes \in Seq(NodeSet), NEW state \in {"open", "ended", "closed"}
  PROVE  /\ Ended(nodes, state) \in Seq(NodeSet)
         /\ DOMAIN Ended(nodes, state) = DOMAIN nodes
         /\ \A i \in DOMAIN nodes : Ended(nodes, state)[i].k = nodes[i].k
         /\ \A k \in Kinds : Count(Ended(nodes, state), k) = Count(nodes, k)
<1>1. /\ Ended(nodes, state) \in Seq(NodeSet)
      /\ DOMAIN Ended(nodes, state) = DOMAIN nodes
      /\ \A i \in DOMAIN nodes : Ended(nodes, state)[i].k = nodes[i].k
  <2>1. CASE nodes = <<>> \/ nodes[Len(nodes)].k = "block"
    BY <2>1 DEF Ended
  <2>2. CASE nodes # <<>> /\ nodes[Len(nodes)].k # "block"
    <3>1. Len(nodes) \in DOMAIN nodes
      BY <2>2
    <3>2. Ended(nodes, state) = [nodes EXCEPT ![Len(nodes)].state = state]
      BY <2>2 DEF Ended
    <3>3. \A i \in DOMAIN nodes : nodes[i] \in NodeSet
      OBVIOUS
    <3>4. [nodes[Len(nodes)] EXCEPT !.state = state] \in NodeSet
      BY <3>1, <3>3 DEF NodeSet
    <3> QED BY <3>1, <3>2, <3>3, <3>4 DEF NodeSet
  <2> QED BY <2>1, <2>2
<1>2. ASSUME NEW k \in Kinds PROVE Count(Ended(nodes, state), k) = Count(nodes, k)
  <2>1. {i \in DOMAIN Ended(nodes, state) : Ended(nodes, state)[i].k = k}
          = {i \in DOMAIN nodes : nodes[i].k = k}
    BY <1>1
  <2> QED BY <2>1 DEF Count
<1> QED BY <1>1, <1>2

----------------------------------------------------------------------------
(* The ways the nest and the scopes change.                                *)

\* A node is entered: the function at the top, anything else inside.
LEMMA Entering ==
  ASSUME NEW nodes \in Seq(NodeSet), FunctionFirst(nodes),
         NEW node \in NodeSet, node.k = "function" <=> nodes = <<>>
  PROVE  /\ Append(nodes, node) \in Seq(NodeSet)
         /\ Append(nodes, node) # <<>>
         /\ FunctionFirst(Append(nodes, node))
BY DEF FunctionFirst

\* The nodes around the innermost.
LEMMA Outwards ==
  ASSUME NEW nodes \in Seq(NodeSet), nodes # <<>>, FunctionFirst(nodes)
  PROVE  LET outer == SubSeq(nodes, 1, Len(nodes) - 1) IN
         /\ outer \in Seq(NodeSet)
         /\ FunctionFirst(outer)
         /\ nodes[Len(nodes)].k = "function" <=> outer = <<>>
         /\ \A k \in Kinds : Count(nodes, k) = Count(outer, k)
                                 + IF nodes[Len(nodes)].k = k THEN 1 ELSE 0
<1> DEFINE outer == SubSeq(nodes, 1, Len(nodes) - 1)
<1>1. /\ outer \in Seq(NodeSet)
      /\ DOMAIN outer = 1 .. Len(nodes) - 1
      /\ \A i \in DOMAIN outer : outer[i] = nodes[i]
      /\ Len(nodes) \in Nat \ {0} /\ DOMAIN nodes = 1 .. Len(nodes)
  OBVIOUS
<1>2. \A k \in Kinds : Count(nodes, k) = Count(outer, k)
                          + IF nodes[Len(nodes)].k = k THEN 1 ELSE 0
  BY CountOuter
<1>5. Len(outer) = Len(nodes) - 1
  BY Popped
<1> HIDE DEF outer
<1>3. FunctionFirst(outer)
  BY <1>1 DEF FunctionFirst
<1>4. nodes[Len(nodes)].k = "function" <=> outer = <<>>
  <2>1. outer = <<>> <=> Len(nodes) = 1
    BY <1>1, <1>5
  <2> QED BY <1>1, <2>1 DEF FunctionFirst
<1> QED BY <1>1, <1>2, <1>3, <1>4 DEF outer

\* A node is left, and with it the statement it stands for.
LEMMA Leaving ==
  ASSUME NEW nodes \in Seq(NodeSet), FunctionFirst(nodes),
         NEW state \in {"open", "ended", "closed"}
  PROVE  /\ Ended(nodes, state) \in Seq(NodeSet)
         /\ FunctionFirst(Ended(nodes, state))
         /\ Ended(nodes, state) = <<>> <=> nodes = <<>>
         /\ \A k \in Kinds : Count(Ended(nodes, state), k) = Count(nodes, k)
<1> DEFINE left == Ended(nodes, state)
<1>1. /\ left \in Seq(NodeSet)
      /\ DOMAIN left = DOMAIN nodes
      /\ \A i \in DOMAIN nodes : left[i].k = nodes[i].k
      /\ \A k \in Kinds : Count(left, k) = Count(nodes, k)
  BY EndedKeeps
<1> HIDE DEF left
<1>2. FunctionFirst(left)
  BY <1>1 DEF FunctionFirst
<1>3. left = <<>> <=> nodes = <<>>
  BY <1>1
<1> QED BY <1>1, <1>2, <1>3 DEF left

\* The type of scopes says that they are a sequence, of whatever scopes.
Stack(s) == s \in Seq({s[i] : i \in DOMAIN s})

\* A sequence over any set is one over its own elements.
LEMMA StackOf ==
  ASSUME NEW S, NEW s \in Seq(S)
  PROVE  Stack(s)
BY DEF Stack

\* A scope pushed, popped, or changed.
LEMMA ScopesChange ==
  ASSUME NEW s, Stack(s), s # <<>>, NEW scope
  PROVE  /\ Stack(Append(s, scope)) /\ Len(Append(s, scope)) = Len(s) + 1
         /\ Stack(SubSeq(s, 1, Len(s) - 1)) /\ Len(SubSeq(s, 1, Len(s) - 1)) = Len(s) - 1
         /\ Stack([s EXCEPT ![Len(s)] = scope]) /\ Len([s EXCEPT ![Len(s)] = scope]) = Len(s)
<1> DEFINE S == {s[i] : i \in DOMAIN s} \cup {scope}
<1>1. s \in Seq(S) /\ scope \in S
  BY DEF Stack
<1> HIDE DEF S
<1>2. Len(s) \in Nat /\ Len(s) >= 1 /\ Len(s) \in 1 .. Len(s) /\ Len(s) - 1 \in Int
  BY <1>1
<1>3. Append(s, scope) \in Seq(S) /\ Len(Append(s, scope)) = Len(s) + 1
  BY <1>1, AppendProperties
<1>4. SubSeq(s, 1, Len(s) - 1) \in Seq(S) /\ Len(SubSeq(s, 1, Len(s) - 1)) = Len(s) - 1
  BY <1>1, Popped
<1>5. [s EXCEPT ![Len(s)] = scope] \in Seq(S) /\ Len([s EXCEPT ![Len(s)] = scope]) = Len(s)
  BY <1>1, <1>2, ExceptSeq
<1>6. Stack(Append(s, scope))
  BY <1>3, StackOf
<1>7. Stack(SubSeq(s, 1, Len(s) - 1))
  BY <1>4, StackOf
<1> DEFINE changed == [s EXCEPT ![Len(s)] = scope]
<1>8. changed \in Seq(S)
  BY <1>5
<1> HIDE DEF changed
<1>9. Stack(changed)
  BY <1>8, StackOf
<1> QED BY <1>3, <1>4, <1>5, <1>6, <1>7, <1>9 DEF changed

\* A name declared changes the innermost scope.
LEMMA InsertKeeps ==
  ASSUME NEW s, Stack(s), s # <<>>, NEW x, NEW sym
  PROVE  Stack(Insert(s, x, sym)) /\ Len(Insert(s, x, sym)) = Len(s)
<1> DEFINE scope == [y \in DOMAIN s[Len(s)] \cup {x} |-> IF y = x THEN sym ELSE s[Len(s)][y]]
<1>1. Insert(s, x, sym) = [s EXCEPT ![Len(s)] = scope]
  BY DEF Insert
<1> HIDE DEF scope
<1>2. /\ Stack([s EXCEPT ![Len(s)] = scope])
      /\ Len([s EXCEPT ![Len(s)] = scope]) = Len(s)
  BY ScopesChange, Zenon
<1> QED BY <1>1, <1>2

----------------------------------------------------------------------------
(* The walk, step by step.                                                 *)

TextOK ==
  /\ kit \in DOMAIN Kits
  /\ text \in Seq(Pieces(kit) \cup [k : {"end function", "}", "end if", "end while"}])
  /\ phase \in {"walk", "done"}
WalkOK ==
  /\ nest \in Seq(NodeSet) /\ FunctionFirst(nest)
  /\ Stack(scopes) /\ scopes # <<>>
  /\ loopDepth \in Nat
  /\ CountersFollowTheNest

\* The invariant speaks of the text and of the walk.
LEMMA InvParts == Inv <=> TextOK /\ WalkOK
BY DEF Inv, TypeOK, TextOK, WalkOK, NodeSet, Stack

\* The piece that is met next is one of the pieces of this kind of program.
LEMMA OfferedArePieces ==
  ASSUME TextOK, NEW p \in Offered
  PROVE  p \in Pieces(kit)
<1>1. CASE Len(text) < Len(Kits[kit].prelude)
  <2> DEFINE pre == Kits[kit].prelude
  <2>0. Stack(pre) /\ Len(text) \in Nat /\ Len(text) < Len(pre)
    <3>1. pre \in Seq({pre[i] : i \in DOMAIN pre})
      <4>1. kit \in DOMAIN Kits
        BY DEF TextOK
      <4> QED BY <4>1, KitsAssumption, Zenon
    <3>2. Len(text) \in Nat
      <4> DEFINE met == Pieces(kit) \cup [k : {"end function", "}", "end if", "end while"}]
      <4>1. text \in Seq(met)
        BY DEF TextOK
      <4> HIDE DEF met
      <4> QED BY <4>1
    <3> QED BY <1>1, <3>1, <3>2 DEF Stack
  <2> HIDE DEF pre
  <2>2. Len(text) + 1 \in DOMAIN pre
    BY <2>0 DEF Stack
  <2>1. Len(text) + 1 \in DOMAIN Kits[kit].prelude
    BY <2>2 DEF pre
  <2> QED BY <1>1, <2>1 DEF Offered, Pieces
<1>2. CASE ~ (Len(text) < Len(Kits[kit].prelude))
  BY <1>2 DEF Offered, Pieces
<1> QED BY <1>1, <1>2

\* Every step adds one piece to the text, or none.
LEMMA MeetsText ==
  ASSUME TextOK, NEW p \in Offered, Meets(p)
  PROVE  TextOK'
<1>1. p \in Pieces(kit)
  BY OfferedArePieces
<1> QED BY <1>1, AppendProperties DEF TextOK, Meets

\* A piece that closes is a piece.
LEMMA LeavesText ==
  ASSUME TextOK, NEW k \in {"end function", "}", "end if", "end while"}, Leaves(k)
  PROVE  TextOK'
<1>1. [k |-> k] \in [k : {"end function", "}", "end if", "end while"}]
  OBVIOUS
<1> QED BY <1>1, AppendProperties DEF TextOK, Leaves

\* A statement without parts of its own leaves the walk where it is.
LEMMA SaysWalk ==
  ASSUME WalkOK, NEW p, NEW wrong, Says(p, wrong)
  PROVE  WalkOK'
<1>1. /\ Ended(nest, "ended") \in Seq(NodeSet)
      /\ FunctionFirst(Ended(nest, "ended"))
      /\ Ended(nest, "ended") = <<>> <=> nest = <<>>
      /\ \A k \in Kinds : Count(Ended(nest, "ended"), k) = Count(nest, k)
  BY Leaving DEF WalkOK
<1> QED BY <1>1 DEF WalkOK, CountersFollowTheNest, Says, AtTop, Kinds

\* A variable joins the innermost scope and opens none.
LEMMA VarDeclWalk ==
  ASSUME WalkOK, NEW p, AnalyzeVarDecl(p)
  PROVE  WalkOK'
<1>1. Stack(scopes') /\ scopes' # <<>> /\ Len(scopes') = Len(scopes)
  <2>0. Stack(scopes) /\ scopes # <<>> /\ Len(scopes) \in Nat /\ Len(scopes) # 0
    <3>1. Stack(scopes) /\ scopes # <<>>
      BY DEF WalkOK
    <3> QED BY <3>1 DEF Stack
  <2>1. \E sym : scopes' = scopes \/ scopes' = Insert(scopes, p.x, sym)
    BY Zenon DEF AnalyzeVarDecl
  <2>2. PICK sym : scopes' = scopes \/ scopes' = Insert(scopes, p.x, sym)
    BY <2>1
  <2>3. CASE scopes' = scopes
    BY <2>0, <2>3
  <2>4. CASE scopes' = Insert(scopes, p.x, sym)
    <3>1. Stack(scopes') /\ Len(scopes') = Len(scopes)
      BY <2>0, <2>4, InsertKeeps
    <3>2. Len(scopes') # 0
      BY <2>0, <3>1
    <3>3. scopes' # <<>>
      BY <3>2
    <3> QED BY <3>1, <3>3
  <2> QED BY <2>2, <2>3, <2>4, Zenon
<1>2. UNCHANGED <<nest, loopDepth, current>>
  BY Zenon DEF AnalyzeVarDecl
<1> QED BY <1>1, <1>2 DEF WalkOK, CountersFollowTheNest, AtTop

\* A function opens the first node and its one scope.
LEMMA FuncDefWalk ==
  ASSUME TextOK, WalkOK, NEW p \in Offered, p.k = "function", AnalyzeFuncDef(p)
  PROVE  WalkOK'
<1>1. nest = <<>> /\ UNCHANGED loopDepth
  BY DEF AnalyzeFuncDef, AtTop
<1>2. CASE InCurrent(scopes, p.x)
  <2>1. UNCHANGED <<scopes, nest, current>>
    BY <1>2 DEF AnalyzeFuncDef
  <2> QED BY <1>1, <2>1 DEF WalkOK, CountersFollowTheNest, AtTop
<1>3. CASE ~ InCurrent(scopes, p.x)
  <2>1. PICK sym, inner : scopes' = Append(Insert(scopes, p.x, sym), inner)
    BY <1>3 DEF AnalyzeFuncDef
  <2>2. nest' = <<Node("function")>> /\ current' = Simple(p.ret)
    BY <1>3 DEF AnalyzeFuncDef
  <2>3. Stack(Insert(scopes, p.x, sym)) /\ Len(Insert(scopes, p.x, sym)) = Len(scopes)
    BY InsertKeeps DEF WalkOK
  <2>4. Len(scopes) = 1
    BY <1>1, CountEmpty DEF WalkOK, CountersFollowTheNest, Kinds
  <2>5. Stack(scopes') /\ Len(scopes') = 2
    <3> DEFINE s == Insert(scopes, p.x, sym)
    <3>1. Stack(s) /\ Len(s) = 1 /\ scopes' = Append(s, inner)
      BY <2>1, <2>3, <2>4
    <3> HIDE DEF s
    <3>2. s # <<>>
      BY <3>1
    <3>3. Stack(Append(s, inner)) /\ Len(Append(s, inner)) = Len(s) + 1
      BY <3>1, <3>2, ScopesChange
    <3> QED BY <3>1, <3>3
  <2>6. Node("function") \in NodeSet /\ Node("function").k = "function"
    BY DEF Node, NodeSet, Kinds
  <2>7. nest' = Append(<<>>, Node("function")) /\ <<>> \in Seq(NodeSet)
    BY <2>2
  <2>8. /\ Count(nest', "loop") = 0 /\ Count(nest', "block") = 0
        /\ Count(nest', "function") = 1
    <3> DEFINE n == Node("function")
    <3>1. ASSUME NEW k \in Kinds PROVE Count(nest', k) = 0 + IF n.k = k THEN 1 ELSE 0
      <4>1. Count(nest', k) = Count(<<>>, k) + IF n.k = k THEN 1 ELSE 0
        BY <2>6, <2>7, CountAppend
      <4> QED BY <4>1, CountEmpty
    <3> QED BY <3>1, <2>6 DEF Kinds
  <2>9. nest' \in Seq(NodeSet) /\ nest' # <<>> /\ FunctionFirst(nest')
    BY <2>2, <2>6 DEF FunctionFirst
  <2>10. current' # NoFunction
    <3>1. p.ret \in {"void", "int", "float"}
      BY OfferedArePieces, PiecesAssumption DEF TextOK
    <3> QED BY <3>1, <2>2 DEF NoFunction, Simple
  <2>11. loopDepth' = 0
    BY <1>1, CountEmpty DEF WalkOK, CountersFollowTheNest, Kinds
  <2>12. scopes' # <<>>
    BY <2>5
  <2> QED BY <2>5, <2>8, <2>9, <2>10, <2>11, <2>12 DEF WalkOK, CountersFollowTheNest, AtTop
<1> QED BY <1>2, <1>3

\* Something is entered inside a function: a block with its scope, a loop with
\* its count, a branch with neither.
LEMMA InnerWalk ==
  ASSUME WalkOK, nest # <<>>, NEW k \in {"block", "then", "loop"},
         nest' = Append(nest, Node(k)), UNCHANGED current,
         IF k = "block" THEN \E scope : scopes' = Append(scopes, scope) ELSE UNCHANGED scopes,
         loopDepth' = loopDepth + IF k = "loop" THEN 1 ELSE 0
  PROVE  WalkOK'
<1>1. Node(k) \in NodeSet /\ Node(k).k = k /\ k \in Kinds /\ k # "function"
  BY DEF Node, NodeSet, Kinds
<1>2. nest' \in Seq(NodeSet) /\ nest' # <<>> /\ FunctionFirst(nest')
  BY <1>1, Entering DEF WalkOK
<1>3. \A j \in Kinds : Count(nest', j) = Count(nest, j) + IF k = j THEN 1 ELSE 0
  BY <1>1, CountAppend DEF WalkOK
<1>4. \A j \in Kinds : Count(nest, j) \in Nat
  BY CountType DEF WalkOK
<1>5. /\ Stack(scopes') /\ scopes' # <<>>
      /\ Len(scopes) \in Nat /\ Len(scopes') = Len(scopes) + IF k = "block" THEN 1 ELSE 0
  <2>1. Len(scopes) \in Nat
    BY DEF WalkOK, Stack
  <2>2. CASE k = "block"
    <3>1. PICK scope : scopes' = Append(scopes, scope)
      BY <2>2
    <3>2. Stack(Append(scopes, scope)) /\ Len(Append(scopes, scope)) = Len(scopes) + 1
      BY ScopesChange DEF WalkOK
    <3>3. Append(scopes, scope) # <<>>
      BY <3>2, <2>1
    <3> QED BY <2>1, <2>2, <3>1, <3>2, <3>3
  <2>3. CASE k # "block"
    BY <2>1, <2>3 DEF WalkOK
  <2> QED BY <2>2, <2>3
<1>6. loopDepth' \in Nat
  BY DEF WalkOK
<1>7. CountersFollowTheNest'
  BY <1>2, <1>3, <1>4, <1>5, SMTT(30) DEF WalkOK, CountersFollowTheNest, AtTop, Kinds
<1> QED BY <1>2, <1>5, <1>6, <1>7 DEF WalkOK

\* And something is left: an ended statement lies in what is around it.
LEMMA OuterWalk ==
  ASSUME WalkOK, nest # <<>>, Innermost.k \in {"block", "then", "else", "loop"},
         NEW state \in {"open", "ended", "closed"},
         nest' = Ended(Outer, state), UNCHANGED current,
         scopes' = IF Innermost.k = "block" THEN SubSeq(scopes, 1, Len(scopes) - 1) ELSE scopes,
         loopDepth' = loopDepth - IF Innermost.k = "loop" THEN 1 ELSE 0
  PROVE  WalkOK'
<1> DEFINE k == Innermost.k
<1>1. /\ Outer \in Seq(NodeSet) /\ FunctionFirst(Outer) /\ Outer # <<>>
      /\ \A j \in Kinds : Count(nest, j) = Count(Outer, j) + IF k = j THEN 1 ELSE 0
  BY Outwards DEF WalkOK, Outer, Innermost
<1>2. /\ nest' \in Seq(NodeSet) /\ FunctionFirst(nest') /\ nest' # <<>>
      /\ \A j \in Kinds : Count(nest', j) = Count(Outer, j)
  BY <1>1, Leaving
<1>3. \A j \in Kinds : Count(nest', j) \in Nat
  BY <1>2, CountType
<1>4. k \in {"block", "then", "else", "loop"}
  OBVIOUS
<1>5. \A j \in Kinds : Count(nest, j) = Count(nest', j) + IF k = j THEN 1 ELSE 0
  BY <1>1, <1>2
<1>6. /\ Stack(scopes') /\ Len(scopes) \in Nat
      /\ Len(scopes') = Len(scopes) - IF k = "block" THEN 1 ELSE 0
  <2>1. Len(scopes) \in Nat
    BY DEF WalkOK, Stack
  <2>2. CASE k = "block"
    BY <2>1, <2>2, ScopesChange DEF WalkOK
  <2>3. CASE k # "block"
    BY <2>1, <2>3 DEF WalkOK
  <2> QED BY <2>2, <2>3
<1> HIDE DEF k
<1>7. loopDepth' = loopDepth - IF k = "loop" THEN 1 ELSE 0
  BY DEF k
<1>8. loopDepth' = Count(nest', "loop") /\ loopDepth' \in Nat
  BY <1>3, <1>4, <1>5, <1>7 DEF WalkOK, CountersFollowTheNest, Kinds
<1>9. /\ Len(scopes') = 1 + Count(nest', "function") + Count(nest', "block")
      /\ scopes' # <<>>
  <2>1. Len(scopes') = 1 + Count(nest', "function") + Count(nest', "block")
    <3>1. Len(scopes) = 1 + Count(nest, "function") + Count(nest, "block")
      BY DEF WalkOK, CountersFollowTheNest
    <3>2. /\ Count(nest, "function") = Count(nest', "function")
          /\ Count(nest, "block") = Count(nest', "block") + IF k = "block" THEN 1 ELSE 0
      <4>1. ASSUME NEW j \in Kinds
            PROVE  Count(nest, j) = IF k = j THEN Count(nest', j) + 1 ELSE Count(nest', j)
        BY <1>3, <1>5
      <4>2. k # "function"
        BY <1>4
      <4> QED BY <4>1, <4>2, <1>3 DEF Kinds
    <3> DEFINE f == Count(nest', "function")
               b == Count(nest', "block")
               before == Len(scopes)
               after == Len(scopes')
    <3>3. /\ f \in Nat /\ b \in Nat /\ before \in Nat
          /\ before = 1 + f + b + IF k = "block" THEN 1 ELSE 0
          /\ after = before - IF k = "block" THEN 1 ELSE 0
      <4>1. f \in Nat /\ b \in Nat
        BY <1>3 DEF Kinds
      <4>2. before \in Nat /\ after = before - IF k = "block" THEN 1 ELSE 0
        BY <1>6
      <4>3. before = 1 + f + (b + IF k = "block" THEN 1 ELSE 0)
        BY <3>1, <3>2, Zenon
      <4> HIDE DEF f, b, before, after
      <4> QED BY <4>1, <4>2, <4>3
    <3> HIDE DEF f, b, before, after
    <3>4. after = 1 + f + b
      BY <3>3
    <3> QED BY <3>4 DEF f, b, after
  <2>2. scopes' # <<>>
    <3> DEFINE after == Len(scopes')
    <3>1. after = 1 + Count(nest', "function") + Count(nest', "block")
      BY <2>1
    <3>2. Count(nest', "function") \in Nat /\ Count(nest', "block") \in Nat
      BY <1>3 DEF Kinds
    <3> HIDE DEF after
    <3>3. after # 0
      BY <3>1, <3>2
    <3> QED BY <3>3 DEF after
  <2> QED BY <2>1, <2>2
<1>10. ~ (current' = NoFunction) /\ ~ AtTop'
  BY <1>2 DEF WalkOK, CountersFollowTheNest, AtTop
<1> QED BY <1>2, <1>6, <1>8, <1>9, <1>10 DEF WalkOK, CountersFollowTheNest

\* The else takes the place of the part before it.
LEMMA ElseWalk ==
  ASSUME WalkOK, NEW p, EnterElse(p)
  PROVE  WalkOK'
<1>1. /\ nest # <<>> /\ Innermost.k = "then"
      /\ nest' = Append(Outer, Node("else")) /\ UNCHANGED <<scopes, loopDepth, current>>
  BY DEF EnterElse
<1>2. /\ Outer \in Seq(NodeSet) /\ FunctionFirst(Outer) /\ Outer # <<>>
      /\ \A j \in Kinds : Count(nest, j) = Count(Outer, j) + IF "then" = j THEN 1 ELSE 0
  BY <1>1, Outwards DEF WalkOK, Outer, Innermost
<1>3. Node("else") \in NodeSet /\ Node("else").k = "else"
  BY DEF Node, NodeSet, Kinds
<1>4. nest' \in Seq(NodeSet) /\ nest' # <<>> /\ FunctionFirst(nest')
  BY <1>1, <1>2, <1>3, Entering
<1>5. \A j \in Kinds : Count(nest', j) = Count(Outer, j) + IF "else" = j THEN 1 ELSE 0
  BY <1>1, <1>2, <1>3, CountAppend
<1>6. \A j \in {"function", "block", "loop"} : Count(nest', j) = Count(nest, j)
  <2> SUFFICES ASSUME NEW j \in {"function", "block", "loop"}
               PROVE  Count(nest', j) = Count(nest, j)
    OBVIOUS
  <2>1. j \in Kinds /\ j # "then" /\ j # "else"
    BY DEF Kinds
  <2> QED BY <2>1, <1>2, <1>5
<1> QED BY <1>1, <1>4, <1>6 DEF WalkOK, CountersFollowTheNest, AtTop

\* The function is the outermost node, so nothing is left around it.
LEMMA FunctionWalk ==
  ASSUME WalkOK, LeaveFunction
  PROVE  WalkOK'
<1>1. /\ nest # <<>> /\ Innermost.k = "function" /\ nest' = <<>>
      /\ scopes' = SubSeq(scopes, 1, Len(scopes) - 1)
      /\ current' = NoFunction /\ UNCHANGED loopDepth
  BY DEF LeaveFunction, Over
<1>2. /\ Outer = <<>>
      /\ \A j \in Kinds : Count(nest, j) = Count(<<>>, j) + IF "function" = j THEN 1 ELSE 0
  BY <1>1, Outwards DEF WalkOK, Outer, Innermost
<1>3. \A j \in Kinds : Count(nest', j) = 0 /\ Count(nest, j) = IF "function" = j THEN 1 ELSE 0
  BY <1>1, <1>2, CountEmpty
<1>4. loopDepth' = Count(nest', "loop")
  BY <1>1, <1>3 DEF WalkOK, CountersFollowTheNest, Kinds
<1>5. Stack(scopes') /\ Len(scopes') = Len(scopes) - 1
  BY <1>1, ScopesChange DEF WalkOK
<1>6. Len(scopes) = 2
  BY <1>3 DEF WalkOK, CountersFollowTheNest, Kinds
<1>7. Len(scopes') = 1 /\ scopes' # <<>>
  BY <1>5, <1>6
<1>8. nest' \in Seq(NodeSet) /\ FunctionFirst(nest')
  BY <1>1 DEF FunctionFirst
<1>9. Len(scopes') = 1 + Count(nest', "function") + Count(nest', "block")
  BY <1>3, <1>7 DEF Kinds
<1> QED BY <1>1, <1>4, <1>5, <1>7, <1>8, <1>9 DEF WalkOK, CountersFollowTheNest, AtTop

\* The walk begins at the top, in the global scope.
LEMMA InitInv == Init => Inv
<1> SUFFICES ASSUME Init PROVE Inv
  OBVIOUS
<1>1. TextOK
  BY DEF Init, TextOK
<1>2. Stack(scopes) /\ scopes # <<>> /\ Len(scopes) = 1
  BY DEF Init, Stack
<1>3. \A j \in Kinds : Count(nest, j) = 0
  BY CountEmpty DEF Init
<1>4. CountersFollowTheNest
  BY <1>2, <1>3 DEF Init, CountersFollowTheNest, AtTop, Kinds
<1>5. nest \in Seq(NodeSet) /\ FunctionFirst(nest) /\ loopDepth \in Nat
  BY DEF Init, FunctionFirst
<1> QED BY <1>1, <1>2, <1>4, <1>5, InvParts DEF WalkOK

\* Whatever piece is entered, the walk stays right.
LEMMA EnterInv ==
  ASSUME TextOK, WalkOK, NEW p \in Offered, Enter(p)
  PROVE  TextOK' /\ WalkOK'
<1>1. CASE p.k = "var"
  <2>1. AnalyzeVarDecl(p) /\ Meets(p)
    BY <1>1, Zenon DEF Enter, AnalyzeVarDecl
  <2> QED BY <2>1, MeetsText, VarDeclWalk
<1>2. CASE p.k = "function"
  <2>1. AnalyzeFuncDef(p) /\ Meets(p)
    BY <1>2, Zenon DEF Enter, AnalyzeFuncDef
  <2> QED BY <1>2, <2>1, MeetsText, FuncDefWalk
<1>3. CASE p.k = "{"
  <2>1. EnterBlock(p)
    BY <1>3 DEF Enter
  <2>2. /\ nest # <<>> /\ nest' = Append(nest, Node("block")) /\ UNCHANGED <<loopDepth, current>>
        /\ scopes' = Append(scopes, <<>>) /\ Meets(p)
    BY <2>1 DEF EnterBlock, AtStatement, InBlock
  <2>3. loopDepth' = loopDepth + 0
    BY <2>2 DEF WalkOK
  <2> QED BY <2>2, <2>3, InnerWalk, MeetsText
<1>4. CASE p.k \in {"expr", "assign", "jump", "return"}
  <2>1. \E wrong : Says(p, wrong)
    BY <1>4 DEF Enter, AnalyzeExprStmt, AnalyzeAssign, AnalyzeJump, AnalyzeReturn
  <2>2. Meets(p)
    BY <2>1 DEF Says
  <2> QED BY <2>1, <2>2, SaysWalk, MeetsText
<1>5. CASE p.k = "if"
  <2>1. EnterIf(p)
    BY <1>5 DEF Enter
  <2>2. /\ nest # <<>> /\ nest' = Append(nest, Node("then")) /\ UNCHANGED <<loopDepth, current>>
        /\ UNCHANGED scopes /\ Meets(p)
    BY <2>1 DEF EnterIf, AtStatement, InBlock
  <2>3. loopDepth' = loopDepth + 0
    BY <2>2 DEF WalkOK
  <2> QED BY <2>2, <2>3, InnerWalk, MeetsText
<1>6. CASE p.k = "else"
  <2>1. EnterElse(p) /\ Meets(p)
    BY <1>6 DEF Enter, EnterElse
  <2> QED BY <2>1, ElseWalk, MeetsText
<1>7. CASE p.k = "while"
  <2>1. EnterWhile(p)
    BY <1>7 DEF Enter
  <2>2. /\ nest # <<>> /\ nest' = Append(nest, Node("loop")) /\ UNCHANGED current
        /\ UNCHANGED scopes /\ Meets(p) /\ loopDepth' = loopDepth + 1
    BY <2>1 DEF EnterWhile, AtStatement, InBlock
  <2> QED BY <2>2, InnerWalk, MeetsText
<1> QED BY <1>1, <1>2, <1>3, <1>4, <1>5, <1>6, <1>7 DEF Enter

\* The innermost node has one of the states of a node.
LEMMA InnermostIs ==
  ASSUME WalkOK, nest # <<>>
  PROVE  Innermost.state \in {"open", "ended", "closed"}
<1>1. nest \in Seq(NodeSet)
  BY DEF WalkOK
<1>2. Innermost \in NodeSet
  BY <1>1 DEF Innermost
<1> QED BY <1>2 DEF NodeSet

\* Whatever node is left, the walk stays right.
LEMMA LeaveInv ==
  ASSUME TextOK, WalkOK, Leave
  PROVE  TextOK' /\ WalkOK'
<1>1. CASE LeaveFunction
  <2>1. Leaves("end function")
    BY <1>1 DEF LeaveFunction
  <2> QED BY <1>1, <2>1, LeavesText, FunctionWalk
<1>2. CASE LeaveBlock
  <2>1. /\ nest # <<>> /\ Innermost.k = "block" /\ Leaves("}") /\ UNCHANGED <<loopDepth, current>>
        /\ nest' = Ended(Outer, "ended") /\ scopes' = SubSeq(scopes, 1, Len(scopes) - 1)
    BY <1>2 DEF LeaveBlock, InBlock
  <2>2. loopDepth' = loopDepth - 0
    <3>1. loopDepth' = loopDepth /\ loopDepth \in Nat
      BY <2>1 DEF WalkOK
    <3> QED BY <3>1
  <2>3. WalkOK'
    BY <2>1, <2>2, OuterWalk
  <2> QED BY <2>1, <2>3, LeavesText
<1>3. CASE LeaveIf
  <2>1. /\ nest # <<>> /\ Innermost.k \in {"then", "else"} /\ Leaves("end if")
        /\ UNCHANGED <<scopes, loopDepth, current>>
        /\ nest' = Ended(Outer, IF Innermost.k = "then" THEN "closed" ELSE Innermost.state)
    BY <1>3 DEF LeaveIf, Over
  <2>2. (IF Innermost.k = "then" THEN "closed" ELSE Innermost.state) \in {"open", "ended", "closed"}
    BY <2>1, InnermostIs
  <2>3. loopDepth' = loopDepth - 0
    <3>1. loopDepth' = loopDepth /\ loopDepth \in Nat
      BY <2>1 DEF WalkOK
    <3> QED BY <3>1
  <2>4. WalkOK'
    BY <2>1, <2>2, <2>3, OuterWalk
  <2> QED BY <2>1, <2>4, LeavesText
<1>4. CASE LeaveWhile
  <2>1. /\ nest # <<>> /\ Innermost.k = "loop" /\ Leaves("end while")
        /\ UNCHANGED <<scopes, current>> /\ loopDepth' = loopDepth - 1
        /\ nest' = Ended(Outer, Innermost.state)
    BY <1>4 DEF LeaveWhile, Over
  <2>2. Innermost.state \in {"open", "ended", "closed"}
    BY <2>1, InnermostIs
  <2>3. WalkOK'
    BY <2>1, <2>2, OuterWalk
  <2> QED BY <2>1, <2>3, LeavesText
<1> QED BY <1>1, <1>2, <1>3, <1>4 DEF Leave

\* Every step keeps the invariant.
LEMMA NextInv == Inv /\ [Next]_vars => Inv'
<1> SUFFICES ASSUME TextOK, WalkOK, [Next]_vars
             PROVE  TextOK' /\ WalkOK'
  BY InvParts, Zenon DEF Inv, TypeOK, TextOK, WalkOK, NodeSet, Stack
<1>1. ASSUME NEW p \in Offered, Enter(p) PROVE TextOK' /\ WalkOK'
  BY <1>1, EnterInv
<1>2. CASE Leave
  BY <1>2, LeaveInv
<1>3. CASE CheckMainExists
  BY <1>3 DEF CheckMainExists, TextOK, WalkOK, CountersFollowTheNest, AtTop
<1>4. CASE UNCHANGED vars
  BY <1>4 DEF vars, TextOK, WalkOK, CountersFollowTheNest, AtTop
<1> QED BY <1>1, <1>2, <1>3, <1>4 DEF Next

\* The invariant holds of every program.
LEMMA SemaInvariant == Spec => []Inv
BY InitInv, NextInv, PTL DEF Spec

----------------------------------------------------------------------------
(* Theorems.                                                               *)

\* analyzeFuncDef, analyzeBlock, analyzeStmt: the state of the analyser has its
\* types in whatever program is analysed.
THEOREM SemaTypeCorrect == Spec => []TypeOK
BY SemaInvariant, PTL DEF Inv

\* pushScope and popScope, loopDepth_, currentFunction_: however deep the
\* program nests, each is what the nodes around the walk say.
THEOREM CountersAreRight == Spec => []CountersFollowTheNest
BY SemaInvariant, PTL DEF Inv

----------------------------------------------------------------------------
(* The scopes.                                                             *)

\* A sequence without its last element, element by element.
IsShorter(S, s, outer) ==
  /\ Len(s) \in Nat /\ Len(s) >= 1 /\ DOMAIN s = 1 .. Len(s)
  /\ outer \in Seq(S) /\ Len(outer) = Len(s) - 1 /\ DOMAIN outer = 1 .. Len(s) - 1
  /\ \A i \in DOMAIN outer : i \in DOMAIN s /\ outer[i] = s[i]

LEMMA Shorter ==
  ASSUME NEW S, NEW s \in Seq(S), s # <<>>, NEW outer, outer = SubSeq(s, 1, Len(s) - 1)
  PROVE  IsShorter(S, s, outer)
<1>1. Len(s) \in Nat /\ Len(s) >= 1 /\ DOMAIN s = 1 .. Len(s)
  OBVIOUS
<1>2. outer \in Seq(S) /\ Len(outer) = Len(s) - 1
  BY Popped
<1>3. DOMAIN outer = 1 .. Len(s) - 1
  BY <1>2
<1>4. \A i \in 1 .. Len(s) - 1 : outer[i] = s[i]
  BY <1>1
<1> QED BY <1>1, <1>2, <1>3, <1>4 DEF IsShorter

----------------------------------------------------------------------------
(* What encloses what in a text, for any kinds of openers and closers.     *)

OccurringIn(t, kinds, from, to) == Cardinality({m \in from .. to : t[m].k \in kinds})
AroundIn(t, opens, closes, n) ==
  {j \in 1 .. n : /\ t[j].k \in opens
                  /\ \A m \in j + 1 .. n :
                       OccurringIn(t, closes, j + 1, m) <= OccurringIn(t, opens, j + 1, m)}
\* How many more pieces are open behind the n-th than behind the j-th.
Deeper(t, opens, closes, j, n) ==
  OccurringIn(t, opens, j + 1, n) - OccurringIn(t, closes, j + 1, n)

\* Nothing occurs between places in the wrong order.
LEMMA NoneOccur ==
  ASSUME NEW t, NEW kinds, NEW from \in Int, NEW to \in Int, to < from
  PROVE  OccurringIn(t, kinds, from, to) = 0
<1>1. {m \in from .. to : t[m].k \in kinds} = {}
  OBVIOUS
<1> QED BY <1>1, FS_EmptySet DEF OccurringIn

\* How often something occurs is a natural number.
LEMMA OccurType ==
  ASSUME NEW t, NEW kinds, NEW from \in Int, NEW to \in Int
  PROVE  OccurringIn(t, kinds, from, to) \in Nat
<1> DEFINE E == {m \in from .. to : t[m].k \in kinds}
<1>1. IsFiniteSet(E)
  <2>1. E \subseteq from .. to
    OBVIOUS
  <2> QED BY <2>1, FS_Interval, FS_Subset
<1>2. Cardinality(E) \in Nat
  BY <1>1, FS_CardinalityType
<1> QED BY <1>2 DEF OccurringIn

\* One more piece is one more occurrence, or none.
LEMMA OneMore ==
  ASSUME NEW t, NEW kinds, NEW from \in Int, NEW to \in Int, from <= to + 1
  PROVE  OccurringIn(t, kinds, from, to + 1)
           = OccurringIn(t, kinds, from, to) + IF t[to + 1].k \in kinds THEN 1 ELSE 0
<1> DEFINE E == {m \in from .. to : t[m].k \in kinds}
           F == {m \in from .. to + 1 : t[m].k \in kinds}
<1>1. IsFiniteSet(E) /\ to + 1 \notin E
  <2>1. E \subseteq from .. to /\ to + 1 \notin from .. to
    OBVIOUS
  <2>2. IsFiniteSet(E)
    BY <2>1, FS_Interval, FS_Subset
  <2> QED BY <2>1, <2>2
<1>2. F = IF t[to + 1].k \in kinds THEN E \cup {to + 1} ELSE E
  <2>1. from .. to + 1 = (from .. to) \cup {to + 1}
    OBVIOUS
  <2> QED BY <2>1
<1>3. Cardinality(E) \in Nat
  BY <1>1, FS_CardinalityType
<1> HIDE DEF E, F
<1>4. Cardinality(F) = Cardinality(E) + IF t[to + 1].k \in kinds THEN 1 ELSE 0
  <2>1. CASE t[to + 1].k \in kinds
    <3>1. Cardinality(E \cup {to + 1}) = Cardinality(E) + 1
      BY <1>1, FS_AddElement
    <3> QED BY <2>1, <3>1, <1>2
  <2>2. CASE t[to + 1].k \notin kinds
    BY <2>2, <1>2, <1>3
  <2> QED BY <2>1, <2>2
<1> QED BY <1>4 DEF OccurringIn, E, F

\* Texts that agree as far as the place have the same around it.
Alike(t, u, n) == \A m \in 1 .. n : t[m] = u[m]

\* In texts that agree, the same occurs.
LEMMA OccurAlike ==
  ASSUME NEW t, NEW u, NEW n \in Int, Alike(t, u, n),
         NEW kinds, NEW from \in Int, NEW to \in Int, from >= 1, to <= n
  PROVE  OccurringIn(t, kinds, from, to) = OccurringIn(u, kinds, from, to)
<1>1. {m \in from .. to : t[m].k \in kinds} = {m \in from .. to : u[m].k \in kinds}
  BY DEF Alike
<1> QED BY <1>1 DEF OccurringIn

\* In texts that agree, the same is around a place.
LEMMA AroundAlike ==
  ASSUME NEW t, NEW u, NEW n \in Int, Alike(t, u, n), NEW opens, NEW closes
  PROVE  /\ AroundIn(t, opens, closes, n) = AroundIn(u, opens, closes, n)
         /\ \A j \in 1 .. n : Deeper(t, opens, closes, j, n) = Deeper(u, opens, closes, j, n)
<1>1. \A kinds : \A from \in Int, to \in Int : from >= 1 /\ to <= n =>
        OccurringIn(t, kinds, from, to) = OccurringIn(u, kinds, from, to)
  BY OccurAlike
<1>2. ASSUME NEW j \in 1 .. n, NEW m \in j + 1 .. n, NEW kinds
      PROVE  OccurringIn(t, kinds, j + 1, m) = OccurringIn(u, kinds, j + 1, m)
  BY <1>1
<1>3. \A j \in 1 .. n : t[j] = u[j]
  BY DEF Alike
<1>4. \A kinds : \A j \in 1 .. n : OccurringIn(t, kinds, j + 1, n) = OccurringIn(u, kinds, j + 1, n)
  BY <1>1
<1> QED BY <1>2, <1>3, <1>4 DEF AroundIn, Deeper

\* One piece more: what is around it then, and how deep that lies.
Steps(t, opens, closes, n) ==
  /\ \A j : j \in AroundIn(t, opens, closes, n + 1)
               <=> \/ j \in AroundIn(t, opens, closes, n) /\ Deeper(t, opens, closes, j, n + 1) >= 0
                   \/ j = n + 1 /\ t[n + 1].k \in opens
  /\ \A j \in 1 .. n :
       /\ Deeper(t, opens, closes, j, n) \in Int
       /\ t[n + 1].k \in opens =>
            Deeper(t, opens, closes, j, n + 1) = Deeper(t, opens, closes, j, n) + 1
       /\ t[n + 1].k \in closes =>
            Deeper(t, opens, closes, j, n + 1) = Deeper(t, opens, closes, j, n) - 1
       /\ t[n + 1].k \notin opens \cup closes =>
            Deeper(t, opens, closes, j, n + 1) = Deeper(t, opens, closes, j, n)
  /\ Deeper(t, opens, closes, n + 1, n + 1) = 0

\* What one more piece does to what is around it, by the piece's kind.
LEMMA AroundNext ==
  ASSUME NEW t, NEW n \in Nat, NEW opens, NEW closes, opens \cap closes = {}
  PROVE  Steps(t, opens, closes, n)
<1> DEFINE O(j, m) == OccurringIn(t, opens, j + 1, m)
           C(j, m) == OccurringIn(t, closes, j + 1, m)
<1>1. \A j \in 1 .. n + 1 : \A m \in 1 .. n + 1 : O(j, m) \in Nat /\ C(j, m) \in Nat
  BY OccurType
<1>2. \A j \in 1 .. n : /\ O(j, n + 1) = O(j, n) + IF t[n + 1].k \in opens THEN 1 ELSE 0
                        /\ C(j, n + 1) = C(j, n) + IF t[n + 1].k \in closes THEN 1 ELSE 0
  BY OneMore
<1>3. O(n + 1, n + 1) = 0 /\ C(n + 1, n + 1) = 0
  BY NoneOccur
<1>4. \A j \in 1 .. n : O(j, n) \in Nat /\ C(j, n) \in Nat
  BY <1>1
<1>5. /\ \A j \in 1 .. n : Deeper(t, opens, closes, j, n) = O(j, n) - C(j, n)
      /\ \A j \in 1 .. n + 1 : Deeper(t, opens, closes, j, n + 1) = O(j, n + 1) - C(j, n + 1)
  BY DEF Deeper
<1>6. /\ AroundIn(t, opens, closes, n)
           = {j \in 1 .. n : t[j].k \in opens /\ \A m \in j + 1 .. n : C(j, m) <= O(j, m)}
      /\ AroundIn(t, opens, closes, n + 1)
           = {j \in 1 .. n + 1 : t[j].k \in opens /\ \A m \in j + 1 .. n + 1 : C(j, m) <= O(j, m)}
  BY DEF AroundIn
<1> HIDE DEF O, C
<1>7. \A j \in 1 .. n :
        /\ Deeper(t, opens, closes, j, n) \in Int
        /\ t[n + 1].k \in opens =>
             Deeper(t, opens, closes, j, n + 1) = Deeper(t, opens, closes, j, n) + 1
        /\ t[n + 1].k \in closes =>
             Deeper(t, opens, closes, j, n + 1) = Deeper(t, opens, closes, j, n) - 1
        /\ t[n + 1].k \notin opens \cup closes =>
             Deeper(t, opens, closes, j, n + 1) = Deeper(t, opens, closes, j, n)
  BY <1>2, <1>4, <1>5
<1>8. ASSUME NEW j
      PROVE  j \in AroundIn(t, opens, closes, n + 1)
               <=> \/ j \in AroundIn(t, opens, closes, n) /\ Deeper(t, opens, closes, j, n + 1) >= 0
                   \/ j = n + 1 /\ t[n + 1].k \in opens
  <2>1. CASE j \in 1 .. n
    <3>1. j + 1 .. n + 1 = (j + 1 .. n) \cup {n + 1}
      BY <2>1
    <3>2. Deeper(t, opens, closes, j, n + 1) >= 0 <=> C(j, n + 1) <= O(j, n + 1)
      BY <2>1, <1>1, <1>5
    <3>3. j # n + 1
      BY <2>1
    <3> QED BY <2>1, <3>1, <3>2, <3>3, <1>6
  <2>2. CASE j = n + 1
    <3>1. n + 1 \notin 1 .. n /\ (n + 1) + 1 .. n + 1 = {} /\ n + 1 \in 1 .. n + 1
      OBVIOUS
    <3> QED BY <2>2, <3>1, <1>6
  <2>3. CASE j \notin 1 .. n + 1
    <3>1. j \notin 1 .. n /\ j # n + 1
      BY <2>3
    <3> QED BY <3>1, <2>3, <1>6
  <2>4. j \in 1 .. n + 1 => j \in 1 .. n \/ j = n + 1
    OBVIOUS
  <2> QED BY <2>1, <2>2, <2>3, <2>4
<1>9. Deeper(t, opens, closes, n + 1, n + 1) = 0
  BY <1>3, <1>5
<1> QED BY <1>7, <1>8, <1>9 DEF Steps

----------------------------------------------------------------------------
(* The way in.                                                             *)

Ascending(s) == \A i, j \in DOMAIN s : i < j => s[i] < s[j]

\* The pieces around a place, outermost first, each as deep as it lies.
Trail(t, opens, closes, n, open) ==
  /\ open \in Seq(1 .. n)
  /\ Ascending(open)
  /\ AroundIn(t, opens, closes, n) = {open[i] : i \in DOMAIN open}
  /\ \A i \in DOMAIN open : Deeper(t, opens, closes, open[i], n) = Len(open) - i

\* The open pieces are those of any text that agrees so far.
LEMMA TrailAlike ==
  ASSUME NEW t, NEW u, NEW n \in Nat, Alike(t, u, n), NEW opens, NEW closes,
         NEW open, Trail(t, opens, closes, n, open)
  PROVE  Trail(u, opens, closes, n, open)
<1>1. /\ AroundIn(t, opens, closes, n) = AroundIn(u, opens, closes, n)
      /\ \A j \in 1 .. n : Deeper(t, opens, closes, j, n) = Deeper(u, opens, closes, j, n)
  BY AroundAlike
<1>2. \A i \in DOMAIN open : open[i] \in 1 .. n
  BY DEF Trail
<1> QED BY <1>1, <1>2 DEF Trail

\* A piece that opens is the innermost behind it.
LEMMA TrailIn ==
  ASSUME NEW t, NEW n \in Nat, NEW opens, NEW closes, opens \cap closes = {},
         NEW open, Trail(t, opens, closes, n, open), t[n + 1].k \in opens
  PROVE  Trail(t, opens, closes, n + 1, Append(open, n + 1))
<1> DEFINE D(j, m) == Deeper(t, opens, closes, j, m)
           A(m) == AroundIn(t, opens, closes, m)
           longer == Append(open, n + 1)
<1>1. /\ \A j : j \in A(n + 1) <=> (j \in A(n) /\ D(j, n + 1) >= 0) \/ j = n + 1
      /\ \A j \in 1 .. n : D(j, n + 1) = D(j, n) + 1
      /\ D(n + 1, n + 1) = 0
  <2>1. Steps(t, opens, closes, n)
    BY AroundNext
  <2> QED BY <2>1 DEF Steps
<1>2. /\ open \in Seq(1 .. n) /\ Ascending(open)
      /\ A(n) = {open[i] : i \in DOMAIN open}
      /\ \A i \in DOMAIN open : D(open[i], n) = Len(open) - i
  BY DEF Trail
<1> HIDE DEF D, A
<1>3. /\ Len(open) \in Nat /\ DOMAIN open = 1 .. Len(open)
      /\ \A i \in DOMAIN open : open[i] \in 1 .. n /\ longer[i] = open[i]
      /\ longer[Len(open) + 1] = n + 1
      /\ Len(longer) = Len(open) + 1 /\ DOMAIN longer = 1 .. Len(open) + 1
      /\ longer \in Seq(1 .. n + 1)
  <2>1. open \in Seq(1 .. n + 1)
    BY <1>2
  <2> QED BY <1>2, <2>1
<1> HIDE DEF longer
<1>4. Ascending(longer)
  <2> SUFFICES ASSUME NEW i \in DOMAIN longer, NEW j \in DOMAIN longer, i < j
               PROVE  longer[i] < longer[j]
    BY DEF Ascending
  <2>1. i \in DOMAIN open /\ open[i] \in 1 .. n
    BY <1>3
  <2>2. CASE j \in DOMAIN open
    BY <2>1, <2>2, <1>2, <1>3 DEF Ascending
  <2>3. CASE j = Len(open) + 1
    BY <2>1, <2>3, <1>3
  <2> QED BY <2>2, <2>3, <1>3
<1>5. \A i \in DOMAIN longer : D(longer[i], n + 1) = Len(longer) - i
  <2>1. \A i \in DOMAIN open : D(longer[i], n + 1) = Len(longer) - i
    BY <1>1, <1>2, <1>3
  <2> QED BY <2>1, <1>1, <1>3
<1>6. A(n + 1) = {longer[i] : i \in DOMAIN longer}
  <2>1. \A i \in DOMAIN open : D(open[i], n + 1) >= 0
    BY <1>3, <1>5
  <2>2. A(n + 1) = A(n) \cup {n + 1}
    BY <1>1, <1>2, <2>1
  <2>3. DOMAIN longer = DOMAIN open \cup {Len(open) + 1}
    BY <1>3
  <2>4. {longer[i] : i \in DOMAIN longer}
          = {longer[i] : i \in DOMAIN open} \cup {longer[Len(open) + 1]}
    BY <2>3
  <2>5. {longer[i] : i \in DOMAIN open} = {open[i] : i \in DOMAIN open}
    BY <1>3
  <2> QED BY <1>2, <1>3, <2>2, <2>4, <2>5
<1> QED BY <1>3, <1>4, <1>5, <1>6 DEF Trail, D, A, longer

\* A piece that closes ends the innermost.
LEMMA TrailOut ==
  ASSUME NEW t, NEW n \in Nat, NEW opens, NEW closes, opens \cap closes = {},
         NEW open, Trail(t, opens, closes, n, open), open # <<>>, t[n + 1].k \in closes
  PROVE  Trail(t, opens, closes, n + 1, SubSeq(open, 1, Len(open) - 1))
<1> DEFINE D(j, m) == Deeper(t, opens, closes, j, m)
           A(m) == AroundIn(t, opens, closes, m)
           outer == SubSeq(open, 1, Len(open) - 1)
<1>1. /\ \A j : j \in A(n + 1) <=> j \in A(n) /\ D(j, n + 1) >= 0
      /\ \A j \in 1 .. n : D(j, n + 1) = D(j, n) - 1
      /\ \A j \in 1 .. n : D(j, n) \in Int
  <2>1. t[n + 1].k \notin opens
    OBVIOUS
  <2>2. Steps(t, opens, closes, n)
    BY AroundNext
  <2> QED BY <2>1, <2>2 DEF Steps
<1>2. /\ open \in Seq(1 .. n) /\ Ascending(open)
      /\ A(n) = {open[i] : i \in DOMAIN open}
      /\ \A i \in DOMAIN open : D(open[i], n) = Len(open) - i
  BY DEF Trail
<1> HIDE DEF D, A
<1>3. /\ Len(open) \in Nat /\ DOMAIN open = 1 .. Len(open) /\ Len(open) >= 1
      /\ \A i \in DOMAIN open : open[i] \in 1 .. n
      /\ outer \in Seq(1 .. n) /\ Len(outer) = Len(open) - 1
      /\ DOMAIN outer = 1 .. Len(open) - 1
      /\ \A i \in DOMAIN outer : outer[i] = open[i]
  <2>1. outer = SubSeq(open, 1, Len(open) - 1)
    OBVIOUS
  <2>2. \A i \in DOMAIN open : open[i] \in 1 .. n
    BY <1>2
  <2> HIDE DEF outer
  <2>3. PICK S : S = 1 .. n
    OBVIOUS
  <2>4. open \in Seq(S) /\ open # <<>>
    BY <1>2, <2>3
  <2>5. IsShorter(S, open, outer)
    BY <2>1, <2>4, Shorter
  <2> QED BY <2>2, <2>3, <2>5 DEF IsShorter
<1> HIDE DEF outer
<1>4. outer \in Seq(1 .. n + 1)
  <2>1. 1 .. n \subseteq 1 .. n + 1
    OBVIOUS
  <2> QED BY <1>3, <2>1
<1>5. Ascending(outer)
  BY <1>2, <1>3 DEF Ascending
<1>6. \A i \in DOMAIN open : D(open[i], n + 1) = (Len(open) - i) - 1
  BY <1>1, <1>2, <1>3
<1>7. \A i \in DOMAIN outer : D(outer[i], n + 1) = Len(outer) - i
  BY <1>3, <1>6
<1>8. A(n + 1) = {outer[i] : i \in DOMAIN outer}
  <2>1. \A i \in DOMAIN open : D(open[i], n + 1) >= 0 <=> i \in DOMAIN outer
    BY <1>3, <1>6
  <2>2. ASSUME NEW j PROVE j \in A(n + 1) <=> \E i \in DOMAIN open : j = open[i] /\ i \in DOMAIN outer
    BY <1>1, <1>2, <2>1
  <2>3. \A i : i \in DOMAIN outer => i \in DOMAIN open /\ outer[i] = open[i]
    BY <1>3
  <2> QED BY <2>2, <2>3
<1> QED BY <1>4, <1>5, <1>7, <1>8 DEF Trail, D, A, outer

\* Any other piece changes nothing.
LEMMA TrailOn ==
  ASSUME NEW t, NEW n \in Nat, NEW opens, NEW closes, opens \cap closes = {},
         NEW open, Trail(t, opens, closes, n, open), t[n + 1].k \notin opens \cup closes
  PROVE  Trail(t, opens, closes, n + 1, open)
<1> DEFINE D(j, m) == Deeper(t, opens, closes, j, m)
           A(m) == AroundIn(t, opens, closes, m)
<1>1. /\ \A j : j \in A(n + 1) <=> j \in A(n) /\ D(j, n + 1) >= 0
      /\ \A j \in 1 .. n : D(j, n + 1) = D(j, n)
  <2>1. Steps(t, opens, closes, n)
    BY AroundNext
  <2> QED BY <2>1 DEF Steps
<1>2. /\ open \in Seq(1 .. n) /\ Ascending(open)
      /\ A(n) = {open[i] : i \in DOMAIN open}
      /\ \A i \in DOMAIN open : D(open[i], n) = Len(open) - i
  BY DEF Trail
<1> HIDE DEF D, A
<1>3. /\ \A i \in DOMAIN open : open[i] \in 1 .. n
      /\ Len(open) \in Nat /\ DOMAIN open = 1 .. Len(open)
  BY <1>2
<1>4. open \in Seq(1 .. n + 1)
  <2>1. 1 .. n \subseteq 1 .. n + 1
    OBVIOUS
  <2> QED BY <1>2, <2>1
<1>5. \A i \in DOMAIN open : D(open[i], n + 1) = Len(open) - i
  BY <1>1, <1>2, <1>3
<1>6. A(n + 1) = A(n)
  BY <1>1, <1>2, <1>3, <1>5
<1> QED BY <1>2, <1>4, <1>5, <1>6 DEF Trail, D, A

----------------------------------------------------------------------------
(* Scopes and the places they begin at.                                    *)

\* The scopes of these places, below the global one at 0, in their order.
Ladder(places, rungs) ==
  /\ rungs \in Seq(Nat) /\ rungs # <<>> /\ Ascending(rungs)
  /\ {rungs[i] : i \in DOMAIN rungs} = {0} \cup places

\* The last rung is the innermost place, or the global scope.
LEMMA LadderTop ==
  ASSUME NEW places \in SUBSET (Nat \ {0}), NEW rungs, Ladder(places, rungs)
  PROVE  /\ Len(rungs) \in DOMAIN rungs
         /\ \A p \in places : p <= rungs[Len(rungs)]
         /\ places = {} => rungs[Len(rungs)] = 0
         /\ places # {} => rungs[Len(rungs)] \in places /\ Len(rungs) > 1
<1>1. /\ rungs \in Seq(Nat) /\ rungs # <<>>
      /\ \A i, j \in DOMAIN rungs : i < j => rungs[i] < rungs[j]
      /\ {rungs[i] : i \in DOMAIN rungs} = {0} \cup places
  BY DEF Ladder, Ascending
<1>2. /\ Len(rungs) \in Nat /\ Len(rungs) >= 1 /\ DOMAIN rungs = 1 .. Len(rungs)
      /\ \A i \in DOMAIN rungs : rungs[i] \in Nat
  BY <1>1
<1> DEFINE top == Len(rungs)
<1>3. top \in DOMAIN rungs /\ \A i \in DOMAIN rungs : i = top \/ i < top
  BY <1>2
<1> HIDE DEF top
<1>4. \A i \in DOMAIN rungs : rungs[i] <= rungs[top]
  BY <1>1, <1>2, <1>3, SMTT(30)
<1>5. \A p \in places : \E i \in DOMAIN rungs : p = rungs[i]
  BY <1>1
<1>6. \A p \in places : p <= rungs[top]
  BY <1>4, <1>5
<1>7. rungs[top] \in {0} \cup places
  BY <1>1, <1>3
<1>8. places # {} => rungs[top] # 0
  <2> SUFFICES ASSUME NEW p \in places PROVE rungs[top] # 0
    OBVIOUS
  <2>1. p \in Nat /\ p # 0
    OBVIOUS
  <2> QED BY <2>1, <1>6, <1>2, <1>3
<1>9. places # {} => top > 1
  <2> SUFFICES ASSUME places # {}, ~ (top > 1) PROVE FALSE
    BY <1>2 DEF top
  <2>1. DOMAIN rungs = {top}
    BY <1>2 DEF top
  <2>2. PICK i \in DOMAIN rungs : rungs[i] = 0
    BY <1>1
  <2> QED BY <2>1, <2>2, <1>8
<1> QED BY <1>3, <1>6, <1>7, <1>8, <1>9 DEF top

\* A scope is entered behind all the others.
LEMMA LadderUp ==
  ASSUME NEW places, NEW rungs, Ladder(places, rungs), NEW a \in Nat \ {0},
         \A p \in places : p < a
  PROVE  Ladder(places \cup {a}, Append(rungs, a))
<1> DEFINE longer == Append(rungs, a)
<1>1. /\ rungs \in Seq(Nat) /\ rungs # <<>> /\ Ascending(rungs)
      /\ {rungs[i] : i \in DOMAIN rungs} = {0} \cup places
  BY DEF Ladder
<1>2. /\ Len(rungs) \in Nat /\ DOMAIN rungs = 1 .. Len(rungs)
      /\ \A i \in DOMAIN rungs : rungs[i] \in Nat /\ longer[i] = rungs[i]
      /\ longer[Len(rungs) + 1] = a /\ longer # <<>>
      /\ DOMAIN longer = DOMAIN rungs \cup {Len(rungs) + 1}
      /\ longer \in Seq(Nat)
  BY <1>1
<1> HIDE DEF longer
<1>3. \A i \in DOMAIN rungs : rungs[i] < a
  <2>1. \A i \in DOMAIN rungs : rungs[i] \in {0} \cup places
    BY <1>1
  <2> QED BY <2>1
<1>4. Ascending(longer)
  <2> SUFFICES ASSUME NEW i \in DOMAIN longer, NEW j \in DOMAIN longer, i < j
               PROVE  longer[i] < longer[j]
    BY DEF Ascending
  <2>1. i \in DOMAIN rungs
    BY <1>2
  <2>2. CASE j \in DOMAIN rungs
    BY <2>1, <2>2, <1>1, <1>2 DEF Ascending
  <2>3. CASE j = Len(rungs) + 1
    BY <2>1, <2>3, <1>2, <1>3
  <2> QED BY <2>2, <2>3, <1>2
<1>5. {longer[i] : i \in DOMAIN longer} = {0} \cup (places \cup {a})
  <2>1. {longer[i] : i \in DOMAIN longer}
          = {longer[i] : i \in DOMAIN rungs} \cup {longer[Len(rungs) + 1]}
    BY <1>2
  <2>2. {longer[i] : i \in DOMAIN rungs} = {rungs[i] : i \in DOMAIN rungs}
    BY <1>2
  <2> QED BY <1>1, <1>2, <2>1, <2>2
<1> QED BY <1>2, <1>4, <1>5 DEF Ladder, longer

\* The innermost scope is left.
LEMMA LadderDown ==
  ASSUME NEW places \in SUBSET (Nat \ {0}), NEW rungs, Ladder(places, rungs), places # {}
  PROVE  Ladder(places \ {rungs[Len(rungs)]}, SubSeq(rungs, 1, Len(rungs) - 1))
<1> DEFINE outer == SubSeq(rungs, 1, Len(rungs) - 1)
           top == Len(rungs)
<1>1. /\ rungs \in Seq(Nat) /\ rungs # <<>> /\ Ascending(rungs)
      /\ {rungs[i] : i \in DOMAIN rungs} = {0} \cup places
  BY DEF Ladder
<1>2. top > 1 /\ rungs[top] \in places
  BY LadderTop
<1>3. /\ top \in Nat /\ DOMAIN rungs = 1 .. top
      /\ outer \in Seq(Nat) /\ Len(outer) = top - 1 /\ DOMAIN outer = 1 .. top - 1
      /\ \A i \in DOMAIN outer : outer[i] = rungs[i]
      /\ \A i \in DOMAIN rungs : rungs[i] \in Nat
  <2>1. outer = SubSeq(rungs, 1, Len(rungs) - 1)
    OBVIOUS
  <2>2. \A i \in DOMAIN rungs : rungs[i] \in Nat
    BY <1>1
  <2> HIDE DEF outer
  <2>3. IsShorter(Nat, rungs, outer)
    BY <1>1, <2>1, Shorter
  <2> QED BY <2>2, <2>3 DEF top, IsShorter
<1> HIDE DEF outer, top
<1>4. Ascending(outer)
  BY <1>1, <1>3 DEF Ascending
<1>5. \A i \in DOMAIN rungs : i \in DOMAIN outer <=> rungs[i] # rungs[top]
  <2>1. \A i \in DOMAIN rungs : i \in DOMAIN outer <=> i < top
    BY <1>3
  <2>2. top \in DOMAIN rungs
    BY <1>2, <1>3
  <2> QED BY <2>1, <2>2, <1>1, <1>3 DEF Ascending
<1>6. {outer[i] : i \in DOMAIN outer} = {rungs[i] : i \in DOMAIN rungs} \ {rungs[top]}
  BY <1>3, <1>5
<1>7. {outer[i] : i \in DOMAIN outer} = {0} \cup (places \ {rungs[top]})
  BY <1>1, <1>2, <1>6
<1>8. outer # <<>>
  BY <1>2, <1>3
<1> QED BY <1>3, <1>4, <1>7, <1>8 DEF Ladder, outer, top

----------------------------------------------------------------------------
(* What the scopes hold.                                                   *)

\* These declarations, each in the scope that begins where it says, and no others.
Filed(decls, rungs, sc) ==
  /\ Len(sc) = Len(rungs)
  /\ \A i \in DOMAIN rungs : \A d \in decls :
       d.scope = rungs[i] => /\ d.x \in DOMAIN sc[i]
                             /\ sc[i][d.x].at = d.at /\ sc[i][d.x].kind = d.as
  /\ \A i \in DOMAIN rungs : \A x \in DOMAIN sc[i] :
       \E d \in decls : d.scope = rungs[i] /\ d.x = x

\* A scope is entered for declarations of its own.
LEMMA FiledIn ==
  ASSUME NEW decls, NEW rungs \in Seq(Nat), NEW sc, Stack(sc), Filed(decls, rungs, sc),
         NEW a \in Nat, \A d \in decls : d.scope # a, \A i \in DOMAIN rungs : rungs[i] # a,
         NEW own, \A d \in own : d.scope = a,
         NEW scope,
         \A d \in own : /\ d.x \in DOMAIN scope
                        /\ scope[d.x].at = d.at /\ scope[d.x].kind = d.as,
         \A x \in DOMAIN scope : \E d \in own : d.x = x
  PROVE  Filed(decls \cup own, Append(rungs, a), Append(sc, scope))
<1> DEFINE longer == Append(rungs, a)
           pushed == Append(sc, scope)
           n == Len(rungs)
<1>1. /\ n \in Nat /\ Len(sc) = n /\ DOMAIN rungs = 1 .. n
      /\ DOMAIN longer = DOMAIN rungs \cup {n + 1} /\ Len(longer) = n + 1
      /\ \A i \in DOMAIN rungs : longer[i] = rungs[i]
      /\ longer[n + 1] = a
  BY DEF Filed
<1>2. /\ Len(pushed) = n + 1
      /\ \A i \in DOMAIN rungs : pushed[i] = sc[i]
      /\ pushed[n + 1] = scope
  <2>1. PICK S : sc \in Seq(S)
    BY DEF Stack
  <2>2. sc \in Seq(S \cup {scope}) /\ scope \in S \cup {scope}
    BY <2>1
  <2> QED BY <2>2, <1>1, AppendProperties
<1> HIDE DEF longer, pushed, n
<1>3. ASSUME NEW i \in DOMAIN longer, NEW d \in decls \cup own, d.scope = longer[i]
      PROVE  d.x \in DOMAIN pushed[i] /\ pushed[i][d.x].at = d.at /\ pushed[i][d.x].kind = d.as
  <2>1. CASE i \in DOMAIN rungs
    <3>1. d \in decls
      BY <2>1, <1>1, <1>3
    <3> QED BY <2>1, <3>1, <1>1, <1>2, <1>3 DEF Filed
  <2>2. CASE i = n + 1
    <3>1. d \in own
      BY <2>2, <1>1, <1>3
    <3> QED BY <2>2, <3>1, <1>2
  <2> QED BY <2>1, <2>2, <1>1
<1>4. ASSUME NEW i \in DOMAIN longer, NEW x \in DOMAIN pushed[i]
      PROVE  \E d \in decls \cup own : d.scope = longer[i] /\ d.x = x
  <2>1. CASE i \in DOMAIN rungs
    <3>1. x \in DOMAIN sc[i]
      BY <2>1, <1>2
    <3>2. \E d \in decls : d.scope = rungs[i] /\ d.x = x
      BY <2>1, <3>1 DEF Filed
    <3> QED BY <2>1, <3>2, <1>1
  <2>2. CASE i = n + 1
    BY <2>2, <1>1, <1>2
  <2> QED BY <2>1, <2>2, <1>1
<1> QED BY <1>1, <1>2, <1>3, <1>4 DEF Filed, longer, pushed

\* The innermost scope is left, and its declarations with it.
LEMMA FiledOut ==
  ASSUME NEW decls, NEW rungs \in Seq(Nat), rungs # <<>>, NEW sc, Stack(sc), Filed(decls, rungs, sc)
  PROVE  Filed(decls, SubSeq(rungs, 1, Len(rungs) - 1), SubSeq(sc, 1, Len(sc) - 1))
<1> DEFINE outer == SubSeq(rungs, 1, Len(rungs) - 1)
           popped == SubSeq(sc, 1, Len(sc) - 1)
           n == Len(rungs)
<1>1. /\ n \in Nat /\ n >= 1 /\ Len(sc) = n /\ DOMAIN rungs = 1 .. n
      /\ Len(outer) = n - 1 /\ DOMAIN outer = 1 .. n - 1
      /\ \A i \in DOMAIN outer : outer[i] = rungs[i] /\ i \in DOMAIN rungs
  BY Popped DEF Filed
<1>2. Len(popped) = n - 1 /\ \A i \in DOMAIN outer : popped[i] = sc[i]
  <2>1. PICK S : sc \in Seq(S)
    BY DEF Stack
  <2>2. sc # <<>>
    BY <1>1
  <2>3. Len(popped) = n - 1
    BY <2>1, <2>2, <1>1, Popped
  <2> QED BY <2>1, <2>3, <1>1
<1> HIDE DEF outer, popped, n
<1> QED BY <1>1, <1>2 DEF Filed, outer, popped

\* A name is declared in the innermost scope, where it was not.
LEMMA FiledHere ==
  ASSUME NEW decls, NEW rungs \in Seq(Nat), rungs # <<>>, Ascending(rungs),
         NEW sc, Stack(sc), Filed(decls, rungs, sc),
         NEW d, d.scope = rungs[Len(rungs)], ~ InCurrent(sc, d.x),
         NEW sym, sym.at = d.at, sym.kind = d.as
  PROVE  Filed(decls \cup {d}, rungs, Insert(sc, d.x, sym))
<1> DEFINE n == Len(rungs)
           x == d.x
           inserted == Insert(sc, x, sym)
<1>1. /\ n \in Nat /\ n >= 1 /\ Len(sc) = n /\ DOMAIN rungs = 1 .. n
      /\ \A i \in DOMAIN rungs : i # n => rungs[i] < rungs[n] /\ rungs[i] \in Nat /\ rungs[n] \in Nat
  BY DEF Filed, Ascending
<1>2. sc \in Seq({sc[i] : i \in DOMAIN sc}) /\ DOMAIN sc = 1 .. n
  BY <1>1 DEF Stack
<1>3. /\ Len(inserted) = n
      /\ \A i \in DOMAIN rungs : i # n => inserted[i] = sc[i]
      /\ DOMAIN inserted[n] = DOMAIN sc[n] \cup {x}
      /\ inserted[n][x] = sym
      /\ \A y \in DOMAIN sc[n] : y # x => inserted[n][y] = sc[n][y]
  BY <1>1, <1>2 DEF Insert
<1>4. x \notin DOMAIN sc[n]
  BY <1>1 DEF InCurrent
<1> HIDE DEF n, inserted
<1>5. ASSUME NEW i \in DOMAIN rungs, NEW e \in decls \cup {d}, e.scope = rungs[i]
      PROVE  e.x \in DOMAIN inserted[i] /\ inserted[i][e.x].at = e.at /\ inserted[i][e.x].kind = e.as
  <2>1. CASE e \in decls
    <3>1. e.x \in DOMAIN sc[i] /\ sc[i][e.x].at = e.at /\ sc[i][e.x].kind = e.as
      BY <2>1, <1>5 DEF Filed
    <3> QED BY <3>1, <1>3, <1>4
  <2>2. CASE e = d
    <3>1. i = n
      BY <2>2, <1>1, <1>5 DEF n
    <3> QED BY <2>2, <3>1, <1>3
  <2> QED BY <2>1, <2>2
<1>6. ASSUME NEW i \in DOMAIN rungs, NEW y \in DOMAIN inserted[i]
      PROVE  \E e \in decls \cup {d} : e.scope = rungs[i] /\ e.x = y
  <2>1. CASE y \in DOMAIN sc[i]
    BY <2>1 DEF Filed
  <2>2. CASE y \notin DOMAIN sc[i]
    <3>1. i = n /\ y = x
      BY <2>2, <1>3
    <3> QED BY <3>1 DEF n
  <2> QED BY <2>1, <2>2
<1> QED BY <1>1, <1>3, <1>5, <1>6 DEF Filed, inserted, n

\* A name is looked up: the declaration found is one of the innermost.
MeantAmong(decls, rungs, x) ==
  LET seen == {d \in decls : d.x = x /\ \E i \in DOMAIN rungs : d.scope = rungs[i]}
  IN  {d \in seen : \A e \in seen : e.scope <= d.scope}

\* The lookup finds a declaration of the innermost scope that has one.
LEMMA FoundInnermost ==
  ASSUME NEW decls, NEW rungs \in Seq(Nat), Ascending(rungs),
         NEW sc, Stack(sc), Filed(decls, rungs, sc), NEW x
  PROVE  IF MeantAmong(decls, rungs, x) = {} THEN LookupSymbol(sc, x) = NoSymbol
         ELSE \E d \in MeantAmong(decls, rungs, x) :
                LookupSymbol(sc, x).at = d.at /\ LookupSymbol(sc, x).kind = d.as
<1> DEFINE seen == {d \in decls : d.x = x /\ \E i \in DOMAIN rungs : d.scope = rungs[i]}
           meant == {d \in seen : \A e \in seen : e.scope <= d.scope}
           having == {i \in DOMAIN sc : x \in DOMAIN sc[i]}
           n == Len(rungs)
<1>1. /\ n \in Nat /\ DOMAIN rungs = 1 .. n /\ DOMAIN sc = 1 .. n
      /\ \A i \in DOMAIN rungs : rungs[i] \in Nat
  BY DEF Filed, Stack
<1>2. \A d \in seen : \E i \in having : d.scope = rungs[i]
  BY <1>1 DEF Filed
<1>0. MeantAmong(decls, rungs, x) = meant
  BY DEF MeantAmong
<1>3. LookupSymbol(sc, x) = IF having = {} THEN NoSymbol
                            ELSE sc[CHOOSE i \in having : \A j \in having : j <= i][x]
  BY DEF LookupSymbol
<1>4. CASE having = {}
  <2>1. seen = {}
    BY <1>2, <1>4
  <2>2. meant = {}
    BY <2>1
  <2>3. LookupSymbol(sc, x) = NoSymbol
    <3> HIDE DEF having
    <3> QED BY <1>3, <1>4
  <2> HIDE DEF meant
  <2> QED BY <1>0, <2>2, <2>3
<1>5. CASE having # {}
  <2> DEFINE top == CHOOSE i \in having : \A j \in having : j <= i
  <2>1. having \in SUBSET (1 .. n)
    BY <1>1
  <2>2. \E i \in having : \A j \in having : j <= i
    <3> HIDE DEF having, n
    <3>1. n \in Int /\ 1 \in Int
      BY <1>1
    <3> QED BY <1>5, <2>1, <3>1, Greatest
  <2>3. top \in having /\ \A j \in having : j <= top
    <3> HIDE DEF having
    <3> QED BY <2>2
  <2>4. LookupSymbol(sc, x) = sc[top][x]
    BY <1>3, <1>5
  <2> HIDE DEF top
  <2>5. PICK d \in decls : d.scope = rungs[top] /\ d.x = x
    BY <2>3, <1>1 DEF Filed
  <2>6. d \in seen
    BY <2>5, <2>3, <1>1
  <2>7. \A e \in seen : e.scope <= d.scope
    <3> SUFFICES ASSUME NEW e \in seen PROVE e.scope <= d.scope
      OBVIOUS
    <3>1. PICK i \in having : e.scope = rungs[i]
      BY <1>2
    <3>2. i <= top /\ i \in DOMAIN rungs /\ top \in DOMAIN rungs
      BY <3>1, <2>3, <1>1
    <3>3. rungs[i] <= rungs[top]
      BY <3>2, <1>1 DEF Ascending
    <3> QED BY <3>1, <3>3, <2>5
  <2>8. d \in meant
    BY <2>6, <2>7
  <2>9. sc[top][x].at = d.at /\ sc[top][x].kind = d.as
    BY <2>3, <2>5, <1>1 DEF Filed
  <2> HIDE DEF meant, seen
  <2>10. meant # {} /\ \E e \in meant : sc[top][x].at = e.at /\ sc[top][x].kind = e.as
    BY <2>8, <2>9
  <2> QED BY <1>0, <2>4, <2>10
<1> QED BY <1>4, <1>5

----------------------------------------------------------------------------
(* What a text declares.                                                   *)

BlockKinds == {"function", "{"}
BlocksAround(t, n) == {j \in AroundIn(t, Openers, Closers, n) : t[j].k \in BlockKinds}
ScopeAtIn(t, n) ==
  LET blocks == BlocksAround(t, n)
  IN  IF blocks = {} THEN 0 ELSE CHOOSE j \in blocks : \A m \in blocks : m <= j
\* By a piece p that is the n-th, in the scope.
DeclaredOf(p, scope, n) ==
  CASE p.k = "var" -> {Declared(IF p.const THEN "const" ELSE "var", p.x, scope, n)}
    [] p.k = "function" -> {Declared("func", p.x, 0, n)}
                             \cup {Declared("param", p.params[i].x, n, n) : i \in DOMAIN p.params}
    [] OTHER -> {}
DeclaredWithin(t, n) ==
  Builtin \cup UNION {DeclaredOf(t[m], ScopeAtIn(t, m), m) : m \in 1 .. n}

\* The blocks around a place are earlier pieces that open blocks.
LEMMA BlocksType ==
  ASSUME NEW t, NEW n \in Nat
  PROVE  /\ BlocksAround(t, n) \in SUBSET (1 .. n)
         /\ BlocksAround(t, n) \in SUBSET (Nat \ {0})
         /\ \A j \in BlocksAround(t, n) : t[j].k \in BlockKinds
<1>1. BlocksAround(t, n) \in SUBSET (1 .. n)
  BY DEF BlocksAround, AroundIn
<1>2. 1 .. n \subseteq Nat \ {0}
  OBVIOUS
<1> QED BY <1>1, <1>2 DEF BlocksAround

\* The scope at a place is the last block around it, or the global scope.
LEMMA ScopeIs ==
  ASSUME NEW t, NEW n \in Nat
  PROVE  /\ BlocksAround(t, n) = {} => ScopeAtIn(t, n) = 0
         /\ BlocksAround(t, n) # {} => /\ ScopeAtIn(t, n) \in BlocksAround(t, n)
                                       /\ \A j \in BlocksAround(t, n) : j <= ScopeAtIn(t, n)
<1> DEFINE blocks == BlocksAround(t, n)
<1>1. blocks \in SUBSET (1 .. n)
  BY BlocksType
<1>2. ScopeAtIn(t, n) = IF blocks = {} THEN 0 ELSE CHOOSE j \in blocks : \A m \in blocks : m <= j
  BY DEF ScopeAtIn
<1> HIDE DEF blocks
<1>3. blocks # {} => \E j \in blocks : \A m \in blocks : m <= j
  <2>1. n \in Int /\ 1 \in Int
    OBVIOUS
  <2> QED BY <1>1, <2>1, Greatest
<1> QED BY <1>2, <1>3 DEF blocks

\* The innermost scope is the last of the ladder.
LEMMA ScopeOnTop ==
  ASSUME NEW t, NEW n \in Nat, NEW rungs, Ladder(BlocksAround(t, n), rungs)
  PROVE  rungs[Len(rungs)] = ScopeAtIn(t, n)
<1> DEFINE blocks == BlocksAround(t, n)
           top == rungs[Len(rungs)]
           scope == ScopeAtIn(t, n)
<1>1. blocks \in SUBSET (Nat \ {0}) /\ Ladder(blocks, rungs)
  BY BlocksType
<1>2. /\ blocks = {} => scope = 0
      /\ blocks # {} => scope \in blocks /\ \A j \in blocks : j <= scope
  BY ScopeIs
<1> HIDE DEF blocks, scope
<1>3. /\ \A p \in blocks : p <= top
      /\ blocks = {} => top = 0
      /\ blocks # {} => top \in blocks
  BY <1>1, LadderTop
<1> HIDE DEF top
<1>4. top = scope
  <2>1. CASE blocks = {}
    BY <2>1, <1>2, <1>3
  <2>2. CASE blocks # {}
    <3>1. top \in Nat /\ scope \in Nat /\ top <= scope /\ scope <= top
      BY <2>2, <1>1, <1>2, <1>3
    <3> QED BY <3>1
  <2> QED BY <2>1, <2>2
<1> QED BY <1>4 DEF top, scope

\* In texts that agree, the same blocks are around a place.
LEMMA BlocksAlike ==
  ASSUME NEW t, NEW u, NEW n \in Nat, Alike(t, u, n)
  PROVE  /\ BlocksAround(t, n) = BlocksAround(u, n)
         /\ ScopeAtIn(t, n) = ScopeAtIn(u, n)
<1>1. AroundIn(t, Openers, Closers, n) = AroundIn(u, Openers, Closers, n)
  BY AroundAlike
<1>2. \A j \in AroundIn(t, Openers, Closers, n) : j \in 1 .. n
  BY DEF AroundIn
<1>3. BlocksAround(t, n) = BlocksAround(u, n)
  BY <1>1, <1>2 DEF BlocksAround, Alike
<1> QED BY <1>3 DEF ScopeAtIn

\* In texts that agree, the same has been declared.
LEMMA DeclaredAlike ==
  ASSUME NEW t, NEW u, NEW n \in Nat, Alike(t, u, n)
  PROVE  DeclaredWithin(t, n) = DeclaredWithin(u, n)
<1>1. ASSUME NEW m \in 1 .. n
      PROVE  DeclaredOf(t[m], ScopeAtIn(t, m), m) = DeclaredOf(u[m], ScopeAtIn(u, m), m)
  <2>1. m \in Nat /\ Alike(t, u, m) /\ t[m] = u[m]
    BY DEF Alike
  <2>2. ScopeAtIn(t, m) = ScopeAtIn(u, m)
    BY <2>1, BlocksAlike
  <2> QED BY <2>1, <2>2
<1>2. {DeclaredOf(t[m], ScopeAtIn(t, m), m) : m \in 1 .. n}
        = {DeclaredOf(u[m], ScopeAtIn(u, m), m) : m \in 1 .. n}
  BY <1>1
<1> QED BY <1>2 DEF DeclaredWithin

\* What one more piece declares is all that is new.
LEMMA DeclaredNext ==
  ASSUME NEW t, NEW n \in Nat
  PROVE  DeclaredWithin(t, n + 1)
           = DeclaredWithin(t, n) \cup DeclaredOf(t[n + 1], ScopeAtIn(t, n + 1), n + 1)
<1> DEFINE D(m) == DeclaredOf(t[m], ScopeAtIn(t, m), m)
<1>1. 1 .. n + 1 = (1 .. n) \cup {n + 1}
  OBVIOUS
<1> HIDE DEF D
<1>2. UNION {D(m) : m \in 1 .. n + 1} = (UNION {D(m) : m \in 1 .. n}) \cup D(n + 1)
  BY <1>1
<1>3. Builtin \cup (UNION {D(m) : m \in 1 .. n + 1})
        = (Builtin \cup (UNION {D(m) : m \in 1 .. n})) \cup D(n + 1)
  BY <1>2
<1> QED BY <1>3 DEF DeclaredWithin, D

\* Every declaration belongs to the global scope or to one that some piece opens.
LEMMA DeclaredSomewhere ==
  ASSUME NEW t, NEW n \in Nat, NEW d \in DeclaredWithin(t, n)
  PROVE  d.scope = 0 \/ (d.scope \in 1 .. n /\ t[d.scope].k \in BlockKinds)
<1>1. CASE d \in Builtin
  BY <1>1 DEF Builtin, Declared
<1>2. ASSUME NEW m \in 1 .. n, d \in DeclaredOf(t[m], ScopeAtIn(t, m), m)
      PROVE  d.scope = 0 \/ (d.scope \in 1 .. n /\ t[d.scope].k \in BlockKinds)
  <2>1. m \in Nat
    OBVIOUS
  <2>2. CASE t[m].k = "var"
    <3>1. d.scope = ScopeAtIn(t, m)
      BY <1>2, <2>2 DEF DeclaredOf, Declared
    <3>2. ScopeAtIn(t, m) = 0 \/ (ScopeAtIn(t, m) \in 1 .. m /\ t[ScopeAtIn(t, m)].k \in BlockKinds)
      BY <2>1, ScopeIs, BlocksType
    <3> QED BY <3>1, <3>2
  <2>3. CASE t[m].k = "function"
    <3>1. d.scope = 0 \/ d.scope = m
      BY <1>2, <2>3 DEF DeclaredOf, Declared
    <3>2. "function" \in BlockKinds
      BY Zenon DEF BlockKinds
    <3> QED BY <2>3, <3>1, <3>2
  <2>4. CASE t[m].k \notin {"var", "function"}
    <3>1. DeclaredOf(t[m], ScopeAtIn(t, m), m) = {}
      BY <2>4 DEF DeclaredOf
    <3> QED BY <1>2, <3>1
  <2> QED BY <2>2, <2>3, <2>4
<1> QED BY <1>1, <1>2 DEF DeclaredWithin

----------------------------------------------------------------------------
(* The walk keeps the scopes of the text.                                  *)

\* No piece both opens and closes, and what opens a block opens.
LEMMA KindsApart ==
  /\ Openers \cap Closers = {}
  /\ BlockKinds \subseteq Openers
BY Zenon DEF Openers, Closers, BlockKinds

Scoped == {"function", "block"}
Follows(t, n, nodes, open) ==
  /\ Len(open) = Len(nodes)
  /\ \A i \in DOMAIN open : nodes[i].k \in Scoped <=> t[open[i]].k \in BlockKinds

\* Behind n pieces: what is open and which scopes there are, by the text, and
\* the nodes and scopes that the walk keeps.
Keeps(t, n, nodes, sc, open, rungs) ==
  /\ Trail(t, Openers, Closers, n, open)
  /\ Follows(t, n, nodes, open)
  /\ Ladder(BlocksAround(t, n), rungs)
  /\ Filed(DeclaredWithin(t, n), rungs, sc)

\* What the walk keeps is right of any text that agrees so far.
LEMMA KeepsAlike ==
  ASSUME NEW t, NEW u, NEW n \in Nat, Alike(t, u, n), NEW nodes, NEW sc,
         NEW open, NEW rungs, Keeps(t, n, nodes, sc, open, rungs)
  PROVE  Keeps(u, n, nodes, sc, open, rungs)
<1>1. Trail(u, Openers, Closers, n, open)
  BY TrailAlike DEF Keeps
<1>2. Follows(u, n, nodes, open)
  <2>1. \A i \in DOMAIN open : open[i] \in 1 .. n
    BY DEF Keeps, Trail
  <2>2. \A i \in DOMAIN open : u[open[i]] = t[open[i]]
    BY <2>1 DEF Alike
  <2> QED BY <2>2 DEF Keeps, Follows
<1>3. BlocksAround(u, n) = BlocksAround(t, n) /\ DeclaredWithin(u, n) = DeclaredWithin(t, n)
  BY BlocksAlike, DeclaredAlike
<1> QED BY <1>1, <1>2, <1>3 DEF Keeps

\* What is around a place, by the trail that leads to it.
LEMMA BlocksByTrail ==
  ASSUME NEW t, NEW n \in Nat, NEW open, Trail(t, Openers, Closers, n, open)
  PROVE  BlocksAround(t, n) = {j \in {open[i] : i \in DOMAIN open} : t[j].k \in BlockKinds}
BY DEF Trail, BlocksAround

\* A piece that neither opens nor closes.
LEMMA KeepsOn ==
  ASSUME NEW t, NEW n \in Nat, NEW nodes, NEW sc, NEW open, NEW rungs,
         Keeps(t, n, nodes, sc, open, rungs), t[n + 1].k \notin Openers \cup Closers,
         NEW after, Len(after) = Len(nodes),
         \A i \in 1 .. Len(nodes) : after[i].k \in Scoped <=> nodes[i].k \in Scoped
  PROVE  /\ Trail(t, Openers, Closers, n + 1, open)
         /\ Follows(t, n + 1, after, open)
         /\ Ladder(BlocksAround(t, n + 1), rungs)
<1>1. Trail(t, Openers, Closers, n, open) /\ Follows(t, n, nodes, open)
  BY DEF Keeps
<1>2. Trail(t, Openers, Closers, n + 1, open)
  BY <1>1, TrailOn, KindsApart
<1>3. BlocksAround(t, n + 1) = BlocksAround(t, n)
  <2> DEFINE places == {open[i] : i \in DOMAIN open}
  <2>1. n + 1 \in Nat
    OBVIOUS
  <2>2. BlocksAround(t, n) = {j \in places : t[j].k \in BlockKinds}
    BY <1>1, BlocksByTrail
  <2>3. BlocksAround(t, n + 1) = {j \in places : t[j].k \in BlockKinds}
    BY <1>2, <2>1, BlocksByTrail
  <2> QED BY <2>2, <2>3
<1>4. DOMAIN open = 1 .. Len(nodes)
  BY <1>1 DEF Trail, Follows
<1>5. Follows(t, n + 1, after, open)
  BY <1>1, <1>4 DEF Follows
<1> QED BY <1>2, <1>3, <1>5 DEF Keeps

\* A piece that declares nothing and does neither.
LEMMA KeepsPlain ==
  ASSUME NEW t, NEW n \in Nat, NEW nodes, NEW sc, NEW open, NEW rungs,
         Keeps(t, n, nodes, sc, open, rungs), t[n + 1].k \notin Openers \cup Closers,
         DeclaredOf(t[n + 1], ScopeAtIn(t, n + 1), n + 1) = {},
         NEW after, Len(after) = Len(nodes),
         \A i \in 1 .. Len(nodes) : after[i].k \in Scoped <=> nodes[i].k \in Scoped
  PROVE  Keeps(t, n + 1, after, sc, open, rungs)
<1>1. DeclaredWithin(t, n + 1) = DeclaredWithin(t, n)
  BY DeclaredNext
<1>2. /\ Trail(t, Openers, Closers, n + 1, open)
      /\ Follows(t, n + 1, after, open)
      /\ Ladder(BlocksAround(t, n + 1), rungs)
  BY KeepsOn
<1> QED BY <1>1, <1>2 DEF Keeps

\* A variable is declared in the scope at hand.
LEMMA KeepsVar ==
  ASSUME NEW t, NEW n \in Nat, NEW nodes, NEW sc, NEW open, NEW rungs,
         Keeps(t, n, nodes, sc, open, rungs), Stack(sc), t[n + 1].k = "var",
         t[n + 1].k \notin Openers \cup Closers,
         ~ InCurrent(sc, t[n + 1].x), NEW sym,
         sym.at = n + 1, sym.kind = IF t[n + 1].const THEN "const" ELSE "var"
  PROVE  Keeps(t, n + 1, nodes, Insert(sc, t[n + 1].x, sym), open, rungs)
<1> DEFINE p == t[n + 1]
           as == IF p.const THEN "const" ELSE "var"
           d == Declared(as, p.x, ScopeAtIn(t, n + 1), n + 1)
<1>1. /\ Trail(t, Openers, Closers, n + 1, open)
      /\ Follows(t, n + 1, nodes, open)
      /\ Ladder(BlocksAround(t, n + 1), rungs)
  BY KeepsOn
<1>2. rungs[Len(rungs)] = ScopeAtIn(t, n + 1)
  <2>1. n + 1 \in Nat
    OBVIOUS
  <2> QED BY <1>1, <2>1, ScopeOnTop
<1>3. DeclaredWithin(t, n + 1) = DeclaredWithin(t, n) \cup {d}
  <2>1. DeclaredOf(p, ScopeAtIn(t, n + 1), n + 1) = {d}
    BY DEF DeclaredOf
  <2> HIDE DEF d
  <2> QED BY <2>1, DeclaredNext
<1>4. d.x = p.x /\ d.scope = ScopeAtIn(t, n + 1) /\ d.at = n + 1 /\ d.as = as
  BY DEF Declared
<1>5. rungs \in Seq(Nat) /\ rungs # <<>> /\ Ascending(rungs)
  BY DEF Keeps, Ladder
<1>6. Filed(DeclaredWithin(t, n), rungs, sc)
  BY DEF Keeps
<1>7. d.scope = rungs[Len(rungs)] /\ ~ InCurrent(sc, d.x) /\ sym.at = d.at /\ sym.kind = d.as
  BY <1>2, <1>4
<1> HIDE DEF d
<1>8. Filed(DeclaredWithin(t, n) \cup {d}, rungs, Insert(sc, d.x, sym))
  BY <1>5, <1>6, <1>7, FiledHere
<1> QED BY <1>1, <1>3, <1>4, <1>8 DEF Keeps

\* A piece is entered: what that adds to the trail.
LEMMA TrailEntered ==
  ASSUME NEW t, NEW n \in Nat, NEW nodes, NEW open,
         Trail(t, Openers, Closers, n, open), Follows(t, n, nodes, open),
         nodes \in Seq(NodeSet), t[n + 1].k \in Openers,
         NEW node \in NodeSet, node.k \in Scoped <=> t[n + 1].k \in BlockKinds
  PROVE  /\ Trail(t, Openers, Closers, n + 1, Append(open, n + 1))
         /\ Follows(t, n + 1, Append(nodes, node), Append(open, n + 1))
         /\ BlocksAround(t, n + 1) = BlocksAround(t, n) \cup
                                       {j \in {n + 1} : t[j].k \in BlockKinds}
<1> DEFINE longer == Append(open, n + 1)
           deeper == Append(nodes, node)
<1>1. Trail(t, Openers, Closers, n + 1, longer)
  BY TrailIn, KindsApart
<1>2. /\ open \in Seq(1 .. n) /\ Len(open) \in Nat /\ DOMAIN open = 1 .. Len(open)
      /\ Len(longer) = Len(open) + 1 /\ DOMAIN longer = DOMAIN open \cup {Len(open) + 1}
      /\ \A i \in DOMAIN open : longer[i] = open[i]
      /\ longer[Len(open) + 1] = n + 1
  BY DEF Trail
<1>3. /\ Len(nodes) = Len(open) /\ Len(deeper) = Len(nodes) + 1
      /\ \A i \in DOMAIN open : deeper[i] = nodes[i]
      /\ deeper[Len(open) + 1] = node
  BY <1>2 DEF Follows
<1> HIDE DEF longer, deeper
<1>4. Follows(t, n + 1, deeper, longer)
  BY <1>2, <1>3 DEF Follows
<1>5. {longer[i] : i \in DOMAIN longer} = {open[i] : i \in DOMAIN open} \cup {n + 1}
  <2>1. {longer[i] : i \in DOMAIN longer}
          = {longer[i] : i \in DOMAIN open} \cup {longer[Len(open) + 1]}
    BY <1>2
  <2>2. {longer[i] : i \in DOMAIN open} = {open[i] : i \in DOMAIN open}
    BY <1>2
  <2> QED BY <1>2, <2>1, <2>2
<1>6. /\ BlocksAround(t, n) = {j \in {open[i] : i \in DOMAIN open} : t[j].k \in BlockKinds}
      /\ BlocksAround(t, n + 1) = {j \in {longer[i] : i \in DOMAIN longer} : t[j].k \in BlockKinds}
  <2>1. n + 1 \in Nat
    OBVIOUS
  <2> QED BY <1>1, <2>1, BlocksByTrail
<1>7. BlocksAround(t, n + 1) = BlocksAround(t, n) \cup {j \in {n + 1} : t[j].k \in BlockKinds}
  BY <1>5, <1>6
<1> QED BY <1>1, <1>4, <1>7 DEF longer, deeper

\* An if or while is entered, which is no scope.
LEMMA KeepsBranch ==
  ASSUME NEW t, NEW n \in Nat, NEW nodes \in Seq(NodeSet), NEW sc, NEW open, NEW rungs,
         Keeps(t, n, nodes, sc, open, rungs), t[n + 1].k \in Openers, t[n + 1].k \notin BlockKinds,
         DeclaredOf(t[n + 1], ScopeAtIn(t, n + 1), n + 1) = {},
         NEW node \in NodeSet, node.k \notin Scoped
  PROVE  Keeps(t, n + 1, Append(nodes, node), sc, Append(open, n + 1), rungs)
<1>1. DeclaredWithin(t, n + 1) = DeclaredWithin(t, n)
  BY DeclaredNext
<1>2. /\ Trail(t, Openers, Closers, n + 1, Append(open, n + 1))
      /\ Follows(t, n + 1, Append(nodes, node), Append(open, n + 1))
      /\ BlocksAround(t, n + 1) = BlocksAround(t, n) \cup
                                    {j \in {n + 1} : t[j].k \in BlockKinds}
  <2>1. Trail(t, Openers, Closers, n, open) /\ Follows(t, n, nodes, open)
    BY DEF Keeps
  <2> QED BY <2>1, TrailEntered
<1>3. BlocksAround(t, n + 1) = BlocksAround(t, n)
  BY <1>2
<1> QED BY <1>1, <1>2, <1>3 DEF Keeps

\* A function or block is entered, with a scope of its own.
LEMMA KeepsScope ==
  ASSUME NEW t, NEW n \in Nat, NEW nodes \in Seq(NodeSet), NEW sc, NEW open, NEW rungs,
         Trail(t, Openers, Closers, n, open), Follows(t, n, nodes, open),
         Ladder(BlocksAround(t, n), rungs), t[n + 1].k \in BlockKinds,
         NEW decls, Stack(sc), Filed(decls, rungs, sc), \A d \in decls : d.scope # n + 1,
         NEW own, \A d \in own : d.scope = n + 1, DeclaredWithin(t, n + 1) = decls \cup own,
         NEW scope,
         \A d \in own : d.x \in DOMAIN scope /\ scope[d.x].at = d.at /\ scope[d.x].kind = d.as,
         \A x \in DOMAIN scope : \E d \in own : d.x = x,
         NEW node \in NodeSet, node.k \in Scoped
  PROVE  Keeps(t, n + 1, Append(nodes, node), Append(sc, scope), Append(open, n + 1), Append(rungs, n + 1))
<1>1. /\ Trail(t, Openers, Closers, n + 1, Append(open, n + 1))
      /\ Follows(t, n + 1, Append(nodes, node), Append(open, n + 1))
      /\ BlocksAround(t, n + 1) = BlocksAround(t, n) \cup
                                    {j \in {n + 1} : t[j].k \in BlockKinds}
  <2>1. t[n + 1].k \in Openers
    BY KindsApart
  <2> QED BY <2>1, TrailEntered
<1>2. BlocksAround(t, n + 1) = BlocksAround(t, n) \cup {n + 1}
  BY <1>1
<1>3. /\ n + 1 \in Nat \ {0}
      /\ \A p \in BlocksAround(t, n) : p < n + 1
  <2>1. BlocksAround(t, n) \in SUBSET (1 .. n)
    BY BlocksType
  <2> QED BY <2>1
<1>4. Ladder(BlocksAround(t, n + 1), Append(rungs, n + 1))
  BY <1>2, <1>3, LadderUp
<1>5. rungs \in Seq(Nat) /\ \A i \in DOMAIN rungs : rungs[i] # n + 1
  <2>1. rungs \in Seq(Nat) /\ {rungs[i] : i \in DOMAIN rungs} = {0} \cup BlocksAround(t, n)
    BY DEF Ladder
  <2>2. \A i \in DOMAIN rungs : rungs[i] \in {0} \cup BlocksAround(t, n)
    BY <2>1
  <2> QED BY <2>1, <2>2, <1>3
<1>6. Filed(decls \cup own, Append(rungs, n + 1), Append(sc, scope))
  <2>1. n + 1 \in Nat
    OBVIOUS
  <2> QED BY <1>5, <2>1, FiledIn
<1> QED BY <1>1, <1>4, <1>6 DEF Keeps

\* A piece is left, and its scope if it has one.
LEMMA KeepsOut ==
  ASSUME NEW t, NEW n \in Nat, NEW nodes \in Seq(NodeSet), nodes # <<>>, NEW sc, Stack(sc),
         NEW open, NEW rungs, Keeps(t, n, nodes, sc, open, rungs), t[n + 1].k \in Closers,
         DeclaredOf(t[n + 1], ScopeAtIn(t, n + 1), n + 1) = {},
         NEW after, Len(after) = Len(nodes) - 1,
         \A i \in 1 .. Len(nodes) - 1 : after[i].k = nodes[i].k,
         NEW left, left = IF nodes[Len(nodes)].k \in Scoped THEN SubSeq(sc, 1, Len(sc) - 1) ELSE sc
  PROVE  \E way, steps : Keeps(t, n + 1, after, left, way, steps)
<1> DEFINE outer == SubSeq(open, 1, Len(open) - 1)
           down == SubSeq(rungs, 1, Len(rungs) - 1)
           top == open[Len(open)]
           blocks == BlocksAround(t, n)
<1>1. /\ Trail(t, Openers, Closers, n, open) /\ Follows(t, n, nodes, open)
      /\ Ladder(blocks, rungs) /\ Filed(DeclaredWithin(t, n), rungs, sc)
  BY DEF Keeps
<1>2. DeclaredWithin(t, n + 1) = DeclaredWithin(t, n)
  BY DeclaredNext
<1>3. open \in Seq(1 .. n) /\ open # <<>> /\ Ascending(open)
  BY <1>1 DEF Trail, Follows
<1>4. Trail(t, Openers, Closers, n + 1, outer)
  BY <1>1, <1>3, TrailOut, KindsApart
<1>5. /\ Len(open) \in Nat /\ Len(open) >= 1 /\ DOMAIN open = 1 .. Len(open)
      /\ Len(outer) = Len(open) - 1 /\ DOMAIN outer = 1 .. Len(open) - 1
      /\ \A i \in DOMAIN outer : outer[i] = open[i]
      /\ \A i \in DOMAIN open : open[i] \in 1 .. n
      /\ Len(open) = Len(nodes)
  <2>1. outer = SubSeq(open, 1, Len(open) - 1)
    OBVIOUS
  <2>2. \A i \in DOMAIN open : open[i] \in 1 .. n
    BY <1>3
  <2> HIDE DEF outer
  <2>3. PICK S : S = 1 .. n
    OBVIOUS
  <2>4. open \in Seq(S) /\ open # <<>>
    BY <1>3, <2>3
  <2>5. IsShorter(S, open, outer)
    BY <2>1, <2>4, Shorter
  <2>6. Len(open) = Len(nodes)
    BY <1>1 DEF Follows
  <2> QED BY <2>2, <2>5, <2>6 DEF IsShorter
<1> HIDE DEF outer
<1>6. Follows(t, n + 1, after, outer)
  BY <1>1, <1>5 DEF Follows
<1>7. nodes[Len(nodes)].k \in Scoped <=> t[top].k \in BlockKinds
  BY <1>1, <1>5 DEF Follows
<1>8. /\ \A i \in DOMAIN open : open[i] <= top
      /\ \A i \in DOMAIN open : i \in DOMAIN outer <=> open[i] # top
  <2>1. \A i \in DOMAIN open : i \in DOMAIN outer <=> i < Len(open)
    BY <1>5
  <2>2. ASSUME NEW i \in DOMAIN open
        PROVE  i = Len(open) \/ (i < Len(open) /\ open[i] < open[Len(open)])
    <3>1. Len(open) \in DOMAIN open /\ (i = Len(open) \/ i < Len(open))
      BY <1>5
    <3> QED BY <3>1, <1>3 DEF Ascending
  <2>3. ASSUME NEW i \in DOMAIN open
        PROVE  open[i] <= top /\ (i \in DOMAIN outer <=> open[i] # top)
    <3>1. open[i] \in Nat /\ top \in Nat
      BY <1>5
    <3> QED BY <3>1, <2>1, <2>2
  <2> QED BY <2>3
<1> DEFINE places == {open[i] : i \in DOMAIN open}
<1>9. {outer[i] : i \in DOMAIN outer} = places \ {top}
  BY <1>5, <1>8
<1>10. /\ blocks = {j \in places : t[j].k \in BlockKinds}
       /\ BlocksAround(t, n + 1) = {j \in places \ {top} : t[j].k \in BlockKinds}
  <2>1. n + 1 \in Nat
    OBVIOUS
  <2>2. BlocksAround(t, n + 1) = {j \in {outer[i] : i \in DOMAIN outer} : t[j].k \in BlockKinds}
    BY <1>4, <2>1, BlocksByTrail
  <2>3. blocks = {j \in places : t[j].k \in BlockKinds}
    BY <1>1, BlocksByTrail
  <2> HIDE DEF places, blocks, top
  <2> QED BY <1>9, <2>2, <2>3
<1>11. top \in places /\ \A j \in places : j <= top
  BY <1>5, <1>8
<1>12. blocks \in SUBSET (Nat \ {0})
  BY BlocksType
<1> HIDE DEF places, top, blocks
<1>13. CASE t[top].k \in BlockKinds
  <2>1. top \in blocks /\ BlocksAround(t, n + 1) = blocks \ {top} /\ \A j \in blocks : j <= top
    BY <1>10, <1>11, <1>13
  <2>2. rungs[Len(rungs)] = top
    <3> DEFINE last == rungs[Len(rungs)]
    <3>1. last \in blocks /\ \A j \in blocks : j <= last
      BY <1>1, <1>12, <2>1, LadderTop
    <3> HIDE DEF last
    <3>2. last <= top /\ top <= last /\ last \in Nat /\ top \in Nat
      BY <3>1, <2>1, <1>12
    <3>3. last = top
      BY <3>2
    <3> QED BY <3>3 DEF last
  <2>3. Ladder(BlocksAround(t, n + 1), down)
    <3>1. Ladder(blocks \ {rungs[Len(rungs)]}, down)
      BY <1>1, <1>12, <2>1, LadderDown
    <3> QED BY <3>1, <2>1, <2>2
  <2>4. Filed(DeclaredWithin(t, n), down, SubSeq(sc, 1, Len(sc) - 1))
    <3>1. rungs \in Seq(Nat) /\ rungs # <<>>
      BY <1>1 DEF Ladder
    <3> QED BY <3>1, <1>1, FiledOut
  <2>5. left = SubSeq(sc, 1, Len(sc) - 1)
    BY <1>7, <1>13
  <2> HIDE DEF down
  <2> QED BY <1>2, <1>4, <1>6, <2>3, <2>4, <2>5 DEF Keeps
<1>14. CASE t[top].k \notin BlockKinds
  <2>1. BlocksAround(t, n + 1) = blocks
    BY <1>10, <1>14
  <2>2. left = sc
    BY <1>7, <1>14
  <2> QED BY <1>1, <1>2, <1>4, <1>6, <2>1, <2>2 DEF Keeps
<1> QED BY <1>13, <1>14

----------------------------------------------------------------------------
(* The walk, step by step, as long as nothing has been reported.           *)

Kept(t, nodes, sc) == \E open, rungs : Keeps(t, Len(t), nodes, sc, open, rungs)
NamesKept == errors = {} => Kept(text, nest, scopes)

\* A piece is added to the text behind those that were met.
LEMMA Added ==
  ASSUME TextOK, Kept(text, nest, scopes), NEW p, text' = Append(text, p)
  PROVE  /\ Len(text) \in Nat /\ Len(text') = Len(text) + 1
         /\ text'[Len(text) + 1] = p
         /\ \E open, rungs : Keeps(text', Len(text), nest, scopes, open, rungs)
<1>1. /\ Len(text) \in Nat /\ Len(text') = Len(text) + 1 /\ text'[Len(text) + 1] = p
      /\ Alike(text, text', Len(text))
  <2>1. PICK S : text \in Seq(S)
    BY DEF TextOK
  <2> QED BY <2>1 DEF Alike
<1>2. PICK open, rungs : Keeps(text, Len(text), nest, scopes, open, rungs)
  BY DEF Kept
<1>3. Keeps(text', Len(text), nest, scopes, open, rungs)
  BY <1>1, <1>2, KeepsAlike
<1> QED BY <1>1, <1>3

\* What opens and closes, and what declares nothing.
DeclaresNone(p) == \A scope, n : DeclaredOf(p, scope, n) = {}

\* Statements without parts neither open, close nor declare.
LEMMA StatementKinds ==
  ASSUME NEW p, p.k \in {"expr", "assign", "jump", "return", "else"}
  PROVE  p.k \notin Openers \cup Closers /\ DeclaresNone(p)
BY Zenon DEF Openers, Closers, DeclaresNone, DeclaredOf

\* A branch or loop opens, without a scope and declaring nothing.
LEMMA BranchKinds ==
  ASSUME NEW p, p.k \in {"if", "while"}
  PROVE  p.k \in Openers /\ p.k \notin BlockKinds /\ DeclaresNone(p)
BY Zenon DEF Openers, BlockKinds, DeclaresNone, DeclaredOf

\* A brace opens a block and declares nothing.
LEMMA BlockKind ==
  ASSUME NEW p, p.k = "{"
  PROVE  p.k \in BlockKinds /\ DeclaresNone(p)
BY Zenon DEF BlockKinds, DeclaresNone, DeclaredOf

\* A node that is left adds the piece that closes it.
LEMMA LeavesAdds ==
  ASSUME NEW k \in Closers, Leaves(k)
  PROVE  \E p : text' = Append(text, p) /\ p.k \in Closers /\ DeclaresNone(p)
<1>1. PICK p : p = [k |-> k]
  OBVIOUS
<1>2. p.k = k /\ text' = Append(text, p)
  BY <1>1 DEF Leaves
<1>3. k # "var" /\ k # "function"
  BY Zenon DEF Closers
<1>4. DeclaresNone(p)
  BY <1>2, <1>3 DEF DeclaresNone, DeclaredOf
<1> QED BY <1>2, <1>4

\* A statement that is not entered, or the else between the parts of an if.
LEMMA PlainKept ==
  ASSUME TextOK, Kept(text, nest, scopes), nest \in Seq(NodeSet), NEW p, text' = Append(text, p),
         p.k \notin Openers \cup Closers, DeclaresNone(p),
         UNCHANGED scopes, Len(nest') = Len(nest),
         \A i \in 1 .. Len(nest) : nest'[i].k \in Scoped <=> nest[i].k \in Scoped
  PROVE  Kept(text, nest, scopes)'
<1> DEFINE n == Len(text)
<1>1. n \in Nat /\ Len(text') = n + 1 /\ text'[n + 1] = p
  BY Added
<1>2. PICK open, rungs : Keeps(text', n, nest, scopes, open, rungs)
  BY Added
<1> HIDE DEF n
<1>3. DeclaredOf(text'[n + 1], ScopeAtIn(text', n + 1), n + 1) = {}
  BY <1>1 DEF DeclaresNone
<1>4. Keeps(text', n + 1, nest', scopes, open, rungs)
  BY <1>1, <1>2, <1>3, KeepsPlain
<1> QED BY <1>1, <1>4 DEF Kept

\* A statement without parts keeps the scopes of the text.
LEMMA SaysKept ==
  ASSUME TextOK, WalkOK, Kept(text, nest, scopes), NEW p, NEW wrong, Says(p, wrong),
         p.k \in {"expr", "assign", "jump", "return"}
  PROVE  Kept(text, nest, scopes)'
<1>1. text' = Append(text, p) /\ nest' = Ended(nest, "ended") /\ UNCHANGED scopes
  BY DEF Says, Meets
<1>2. nest \in Seq(NodeSet)
  BY DEF WalkOK
<1>3. /\ Ended(nest, "ended") \in Seq(NodeSet)
      /\ DOMAIN Ended(nest, "ended") = DOMAIN nest
      /\ \A i \in DOMAIN nest : Ended(nest, "ended")[i].k = nest[i].k
  BY <1>2, EndedKeeps
<1>4. Len(nest') = Len(nest) /\ \A i \in 1 .. Len(nest) : nest'[i].k = nest[i].k
  BY <1>1, <1>2, <1>3
<1>5. p.k \notin Openers \cup Closers /\ DeclaresNone(p)
  BY StatementKinds
<1> QED BY <1>1, <1>2, <1>4, <1>5, PlainKept

\* An else keeps them.
LEMMA ElseKept ==
  ASSUME TextOK, WalkOK, Kept(text, nest, scopes), NEW p, EnterElse(p), p.k = "else"
  PROVE  Kept(text, nest, scopes)'
<1>1. /\ text' = Append(text, p) /\ nest' = Append(Outer, Node("else")) /\ UNCHANGED scopes
      /\ nest # <<>> /\ Innermost.k = "then"
  BY DEF EnterElse, Meets
<1>2. nest \in Seq(NodeSet)
  BY DEF WalkOK
<1>3. Outer \in Seq(NodeSet) /\ Len(Outer) = Len(nest) - 1
  BY <1>1, <1>2, Popped DEF Outer
<1>4. Len(nest) \in Nat /\ Len(nest) >= 1
  BY <1>1, <1>2
<1>5. \A i \in 1 .. Len(nest) - 1 : Outer[i] = nest[i]
  BY <1>2, <1>4 DEF Outer
<1>6. Node("else").k = "else" /\ "else" \notin Scoped /\ "then" \notin Scoped
  BY DEF Node, Scoped
<1>7. /\ Len(nest') = Len(nest)
      /\ \A i \in 1 .. Len(nest) : nest'[i].k \in Scoped <=> nest[i].k \in Scoped
  <2>1. Len(nest') = Len(nest)
    BY <1>1, <1>3, <1>4
  <2>2. \A i \in 1 .. Len(nest) - 1 : nest'[i] = nest[i]
    BY <1>1, <1>3, <1>4, <1>5
  <2>3. nest'[Len(nest)] = Node("else")
    BY <1>1, <1>3, <1>4
  <2>4. nest[Len(nest)].k = "then"
    BY <1>1 DEF Innermost
  <2> QED BY <2>1, <2>2, <2>3, <2>4, <1>4, <1>6
<1>8. p.k \notin Openers \cup Closers /\ DeclaresNone(p)
  BY StatementKinds
<1> QED BY <1>1, <1>2, <1>7, <1>8, PlainKept

\* An if or a while.
LEMMA BranchKept ==
  ASSUME TextOK, WalkOK, Kept(text, nest, scopes), NEW p, text' = Append(text, p),
         p.k \in {"if", "while"}, NEW k \in {"then", "loop"},
         nest' = Append(nest, Node(k)), UNCHANGED scopes
  PROVE  Kept(text, nest, scopes)'
<1> DEFINE n == Len(text)
<1>1. n \in Nat /\ Len(text') = n + 1 /\ text'[n + 1] = p
  BY Added
<1>2. PICK open, rungs : Keeps(text', n, nest, scopes, open, rungs)
  BY Added
<1> HIDE DEF n
<1>3. DeclaredOf(text'[n + 1], ScopeAtIn(text', n + 1), n + 1) = {}
  BY <1>1, BranchKinds DEF DeclaresNone
<1>4. text'[n + 1].k \in Openers /\ text'[n + 1].k \notin BlockKinds
  BY <1>1, BranchKinds
<1>5. Node(k) \in NodeSet /\ Node(k).k \notin Scoped
  BY DEF Node, NodeSet, Kinds, Scoped
<1>6. nest \in Seq(NodeSet)
  BY DEF WalkOK
<1>7. Keeps(text', n + 1, Append(nest, Node(k)), scopes, Append(open, n + 1), rungs)
  BY <1>1, <1>2, <1>3, <1>4, <1>5, <1>6, KeepsBranch
<1> QED BY <1>1, <1>7 DEF Kept

\* A block keeps them, with its new scope.
LEMMA BlockKept ==
  ASSUME TextOK, WalkOK, Kept(text, nest, scopes), NEW p, EnterBlock(p),
         p.k \in BlockKinds, DeclaresNone(p)
  PROVE  Kept(text, nest, scopes)'
<1> DEFINE n == Len(text)
<1>0. text' = Append(text, p) /\ scopes' = Append(scopes, <<>>) /\ nest' = Append(nest, Node("block"))
  BY DEF EnterBlock, Meets
<1>1. n \in Nat /\ Len(text') = n + 1 /\ text'[n + 1] = p
  BY <1>0, Added
<1>2. PICK open, rungs : Keeps(text', n, nest, scopes, open, rungs)
  BY <1>0, Added
<1> HIDE DEF n
<1>3. DeclaredOf(p, ScopeAtIn(text', n + 1), n + 1) = {}
  BY DEF DeclaresNone
<1>4. text'[n + 1].k \in BlockKinds
  BY <1>1
<1>5. Node("block") \in NodeSet /\ Node("block").k \in Scoped
  BY DEF Node, NodeSet, Kinds, Scoped
<1>6. nest \in Seq(NodeSet) /\ Stack(scopes)
  BY DEF WalkOK
<1>7. PICK decls : decls = DeclaredWithin(text', n)
  OBVIOUS
<1>8. /\ \A d \in decls : d.scope # n + 1
      /\ DeclaredWithin(text', n + 1) = decls \cup {}
  <2>1. \A d \in decls : d.scope = 0 \/ d.scope \in 1 .. n
    BY <1>1, <1>7, DeclaredSomewhere
  <2>2. DeclaredWithin(text', n + 1) = decls
    <3>1. DeclaredWithin(text', n + 1)
            = DeclaredWithin(text', n) \cup DeclaredOf(text'[n + 1], ScopeAtIn(text', n + 1), n + 1)
      BY <1>1, DeclaredNext
    <3> QED BY <3>1, <1>1, <1>3, <1>7
  <2> QED BY <2>1, <2>2, <1>1
<1>9. /\ Trail(text', Openers, Closers, n, open) /\ Follows(text', n, nest, open)
      /\ Ladder(BlocksAround(text', n), rungs) /\ Filed(decls, rungs, scopes)
  BY <1>2, <1>7 DEF Keeps
<1>10. DOMAIN <<>> = {}
  OBVIOUS
<1>11. Keeps(text', n + 1, Append(nest, Node("block")), Append(scopes, <<>>),
             Append(open, n + 1), Append(rungs, n + 1))
  <2> DEFINE own == {}
  <2>1. (\A d \in own : d.scope = n + 1) /\ DeclaredWithin(text', n + 1) = decls \cup own
    BY <1>8
  <2>2. \A d \in own : d.x \in DOMAIN <<>> /\ <<>>[d.x].at = d.at /\ <<>>[d.x].kind = d.as
    OBVIOUS
  <2>3. \A x \in DOMAIN <<>> : \E d \in own : d.x = x
    BY <1>10
  <2> HIDE DEF own
  <2> QED BY <1>1, <1>4, <1>5, <1>6, <1>8, <1>9, <2>1, <2>2, <2>3, KeepsScope
<1> QED BY <1>0, <1>1, <1>11 DEF Kept

\* A variable keeps them: it joins the innermost scope under a new name.
LEMMA VarKept ==
  ASSUME TextOK, WalkOK, Kept(text, nest, scopes), NEW p, AnalyzeVarDecl(p), p.k = "var", errors' = {}
  PROVE  Kept(text, nest, scopes)'
<1> DEFINE n == Len(text)
           as == IF p.const THEN "const" ELSE "var"
<1>0. /\ text' = Append(text, p) /\ UNCHANGED nest /\ ~ InCurrent(scopes, p.x)
      /\ \E type, kept : scopes' = Insert(scopes, p.x, Symbol(as, type, kept, n + 1))
  BY ZenonT(30) DEF AnalyzeVarDecl, Meets, Report, Wrong
<1>1. n \in Nat /\ Len(text') = n + 1 /\ text'[n + 1] = p
  BY <1>0, Added
<1>2. PICK open, rungs : Keeps(text', n, nest, scopes, open, rungs)
  BY <1>0, Added
<1> HIDE DEF n
<1>3. PICK sym : sym.at = n + 1 /\ sym.kind = as /\ scopes' = Insert(scopes, p.x, sym)
  BY <1>0 DEF Symbol
<1>4. p.k \notin Openers \cup Closers
  BY Zenon DEF Openers, Closers
<1>5. Stack(scopes)
  BY DEF WalkOK
<1>6. Keeps(text', n + 1, nest, Insert(scopes, p.x, sym), open, rungs)
  BY <1>0, <1>1, <1>2, <1>3, <1>4, <1>5, KeepsVar
<1> QED BY <1>0, <1>1, <1>3, <1>6 DEF Kept

\* A function keeps them: its name outside, its parameters inside.
LEMMA FunctionKept ==
  ASSUME TextOK, WalkOK, Kept(text, nest, scopes), NEW p, AnalyzeFuncDef(p), p.k = "function", errors' = {}
  PROVE  Kept(text, nest, scopes)'
<1> DEFINE n == Len(text)
           d == Declared("func", p.x, 0, n + 1)
           own == {Declared("param", p.params[i].x, n + 1, n + 1) : i \in DOMAIN p.params}
<1>0. /\ text' = Append(text, p) /\ nest = <<>> /\ nest' = <<Node("function")>>
      /\ ~ InCurrent(scopes, p.x)
      /\ \E types, type : scopes' = Append(Insert(scopes, p.x, Symbol("func", type, NoValue, n + 1)),
                                            ParamScope(p, types))
  <2>1. ~ InCurrent(scopes, p.x)
    BY Zenon DEF AnalyzeFuncDef, Report
  <2> QED BY <2>1, Zenon DEF AnalyzeFuncDef, Meets, AtTop
<1>1. n \in Nat /\ Len(text') = n + 1 /\ text'[n + 1] = p
  BY <1>0, Added
<1>2. PICK open, rungs : Keeps(text', n, nest, scopes, open, rungs)
  BY <1>0, Added
<1>3. PICK sym, types : /\ sym.at = n + 1 /\ sym.kind = "func"
                        /\ scopes' = Append(Insert(scopes, p.x, sym), ParamScope(p, types))
  BY <1>0 DEF Symbol
<1> DEFINE params == ParamScope(p, types)
<1>4. /\ \A e \in own : e.x \in DOMAIN params /\ params[e.x].at = e.at /\ params[e.x].kind = e.as
      /\ \A x \in DOMAIN params : \E e \in own : e.x = x
      /\ \A e \in own : e.scope = n + 1
  <2>1. /\ DOMAIN params = {p.params[i].x : i \in DOMAIN p.params}
        /\ \A x \in DOMAIN params : params[x].at = n + 1 /\ params[x].kind = "param"
    BY DEF ParamScope, Symbol
  <2>2. ASSUME NEW e \in own
        PROVE  e.x \in DOMAIN params /\ e.scope = n + 1 /\ e.at = n + 1 /\ e.as = "param"
    <3>1. PICK i \in DOMAIN p.params : e = Declared("param", p.params[i].x, n + 1, n + 1)
      OBVIOUS
    <3> HIDE DEF params, own
    <3> QED BY <2>1, <3>1 DEF Declared
  <2>3. ASSUME NEW x \in DOMAIN params
        PROVE  \E e \in own : e.x = x
    <3>1. PICK i \in DOMAIN p.params : x = p.params[i].x
      BY <2>1
    <3>2. Declared("param", p.params[i].x, n + 1, n + 1) \in own
      OBVIOUS
    <3> HIDE DEF own
    <3> QED BY <3>1, <3>2 DEF Declared
  <2> HIDE DEF params, own
  <2> QED BY <2>1, <2>2, <2>3
<1>5. DeclaredOf(p, ScopeAtIn(text', n + 1), n + 1) = {d} \cup own
  BY DEF DeclaredOf
<1>6. d.x = p.x /\ d.scope = 0 /\ d.at = n + 1 /\ d.as = "func"
  BY DEF Declared
<1> HIDE DEF n, d, own, params
<1>7. /\ Trail(text', Openers, Closers, n, open) /\ Follows(text', n, nest, open)
      /\ Ladder(BlocksAround(text', n), rungs) /\ Filed(DeclaredWithin(text', n), rungs, scopes)
  BY <1>2 DEF Keeps
<1>8. BlocksAround(text', n) = {}
  <2>1. open \in Seq(1 .. n) /\ Len(open) = 0
    BY <1>0, <1>7 DEF Trail, Follows
  <2>2. {open[i] : i \in DOMAIN open} = {}
    BY <2>1
  <2> QED BY <1>1, <1>7, <2>2, BlocksByTrail
<1>9. d.scope = rungs[Len(rungs)]
  <2>1. ScopeAtIn(text', n) = 0
    BY <1>8 DEF ScopeAtIn
  <2> QED BY <1>1, <1>6, <1>7, <2>1, ScopeOnTop
<1>10. rungs \in Seq(Nat) /\ rungs # <<>> /\ Ascending(rungs)
  BY <1>7 DEF Ladder
<1>11. Stack(scopes) /\ scopes # <<>>
  BY DEF WalkOK
<1>12. PICK decls : decls = DeclaredWithin(text', n) \cup {d}
  OBVIOUS
<1>13. Filed(decls, rungs, Insert(scopes, p.x, sym))
  <2>1. ~ InCurrent(scopes, d.x) /\ sym.at = d.at /\ sym.kind = d.as
    BY <1>0, <1>3, <1>6
  <2>2. Filed(DeclaredWithin(text', n) \cup {d}, rungs, Insert(scopes, d.x, sym))
    BY <1>7, <1>9, <1>10, <1>11, <2>1, FiledHere
  <2> QED BY <2>2, <1>6, <1>12
<1>14. Stack(Insert(scopes, p.x, sym))
  BY <1>11, InsertKeeps
<1>15. \A e \in decls : e.scope # n + 1
  <2>1. \A e \in DeclaredWithin(text', n) : e.scope = 0 \/ e.scope \in 1 .. n
    BY <1>1, DeclaredSomewhere
  <2> QED BY <2>1, <1>1, <1>6, <1>12
<1>16. DeclaredWithin(text', n + 1) = decls \cup own
  <2>1. DeclaredWithin(text', n + 1)
          = DeclaredWithin(text', n) \cup DeclaredOf(text'[n + 1], ScopeAtIn(text', n + 1), n + 1)
    BY <1>1, DeclaredNext
  <2> QED BY <2>1, <1>1, <1>5, <1>12
<1>17. Node("function") \in NodeSet /\ Node("function").k \in Scoped
  BY DEF Node, NodeSet, Kinds, Scoped
<1>18. text'[n + 1].k \in BlockKinds
  <2>1. p.k \in BlockKinds
    BY Zenon DEF BlockKinds
  <2> QED BY <2>1, <1>1
<1>19. nest \in Seq(NodeSet)
  BY DEF WalkOK
<1> DEFINE base == Insert(scopes, p.x, sym)
           node == Node("function")
<1>20. /\ Filed(decls, rungs, base) /\ Stack(base)
       /\ node \in NodeSet /\ node.k \in Scoped
       /\ scopes' = Append(base, params)
       /\ nest' = Append(nest, node)
  <2>1. <<Node("function")>> = Append(<<>>, Node("function"))
    OBVIOUS
  <2> QED BY <1>0, <1>3, <1>13, <1>14, <1>17, <2>1 DEF params
<1> HIDE DEF base, node
<1>21. Keeps(text', n + 1, Append(nest, node), Append(base, params),
             Append(open, n + 1), Append(rungs, n + 1))
  BY <1>1, <1>4, <1>7, <1>15, <1>16, <1>18, <1>19, <1>20, KeepsScope
<1> QED BY <1>1, <1>20, <1>21 DEF Kept

\* Anything is left.
LEMMA OutKept ==
  ASSUME TextOK, WalkOK, Kept(text, nest, scopes), nest # <<>>,
         NEW p, text' = Append(text, p), p.k \in Closers, DeclaresNone(p),
         Len(nest') = Len(nest) - 1,
         \A i \in 1 .. Len(nest) - 1 : nest'[i].k = nest[i].k,
         scopes' = IF Innermost.k \in Scoped THEN SubSeq(scopes, 1, Len(scopes) - 1) ELSE scopes
  PROVE  Kept(text, nest, scopes)'
<1> DEFINE n == Len(text)
<1>1. n \in Nat /\ Len(text') = n + 1 /\ text'[n + 1] = p
  BY Added
<1>2. PICK open, rungs : Keeps(text', n, nest, scopes, open, rungs)
  BY Added
<1> HIDE DEF n
<1>3. DeclaredOf(text'[n + 1], ScopeAtIn(text', n + 1), n + 1) = {}
  BY <1>1 DEF DeclaresNone
<1>4. nest \in Seq(NodeSet) /\ Stack(scopes)
  BY DEF WalkOK
<1>5. scopes' = IF nest[Len(nest)].k \in Scoped THEN SubSeq(scopes, 1, Len(scopes) - 1) ELSE scopes
  BY DEF Innermost
<1>6. \E way, steps : Keeps(text', n + 1, nest', scopes', way, steps)
  BY <1>1, <1>2, <1>3, <1>4, <1>5, KeepsOut
<1> QED BY <1>1, <1>6 DEF Kept

\* What is left, its statement has ended in what is around it.
LEMMA OuterKinds ==
  ASSUME nest \in Seq(NodeSet), nest # <<>>, NEW state \in {"open", "ended", "closed"},
         nest' = Ended(Outer, state)
  PROVE  /\ Len(nest') = Len(nest) - 1
         /\ \A i \in 1 .. Len(nest) - 1 : nest'[i].k = nest[i].k
<1>1. Outer \in Seq(NodeSet) /\ Len(Outer) = Len(nest) - 1
  BY Popped DEF Outer
<1>2. Len(nest) \in Nat /\ Len(nest) >= 1 /\ \A i \in 1 .. Len(nest) - 1 : Outer[i] = nest[i]
  BY DEF Outer
<1>3. /\ nest' \in Seq(NodeSet)
      /\ DOMAIN nest' = DOMAIN Outer
      /\ \A i \in DOMAIN Outer : nest'[i].k = Outer[i].k
  BY <1>1, EndedKeeps
<1>4. DOMAIN Outer = 1 .. Len(nest) - 1 /\ Len(nest') = Len(Outer)
  BY <1>1, <1>3
<1> QED BY <1>1, <1>2, <1>3, <1>4

\* Leaving a node keeps them: its scope, if it had one, is gone from both.
LEMMA LeaveKept ==
  ASSUME TextOK, WalkOK, Kept(text, nest, scopes), Leave
  PROVE  Kept(text, nest, scopes)'
<1>0. nest \in Seq(NodeSet)
  BY DEF WalkOK
<1>1. CASE LeaveFunction
  <2>1. /\ nest # <<>> /\ Innermost.k = "function" /\ nest' = <<>>
        /\ scopes' = SubSeq(scopes, 1, Len(scopes) - 1)
    BY <1>1 DEF LeaveFunction, Over
  <2>2. PICK p : text' = Append(text, p) /\ p.k \in Closers /\ DeclaresNone(p)
    <3>1. PICK k \in Closers : Leaves(k)
      BY <1>1, Zenon DEF LeaveFunction, Closers
    <3> QED BY <3>1, LeavesAdds
  <2>3. Outer = <<>>
    BY <2>1, Outwards DEF WalkOK, Outer, Innermost
  <2>4. Len(nest) = 1
    <3>1. Len(Outer) = Len(nest) - 1 /\ Len(nest) \in Nat
      BY <1>0, <2>1, Popped DEF Outer
    <3> QED BY <2>3, <3>1
  <2>5. Innermost.k \in Scoped
    BY <2>1 DEF Scoped
  <2>6. Len(nest') = Len(nest) - 1 /\ \A i \in 1 .. Len(nest) - 1 : nest'[i].k = nest[i].k
    BY <2>1, <2>4
  <2> QED BY <2>1, <2>2, <2>5, <2>6, OutKept
<1>2. CASE LeaveBlock
  <2>1. /\ nest # <<>> /\ Innermost.k = "block" /\ nest' = Ended(Outer, "ended")
        /\ scopes' = SubSeq(scopes, 1, Len(scopes) - 1)
    BY <1>2 DEF LeaveBlock, InBlock
  <2>2. PICK p : text' = Append(text, p) /\ p.k \in Closers /\ DeclaresNone(p)
    <3>1. PICK k \in Closers : Leaves(k)
      BY <1>2, Zenon DEF LeaveBlock, Closers
    <3> QED BY <3>1, LeavesAdds
  <2>3. Innermost.k \in Scoped
    BY <2>1 DEF Scoped
  <2>4. Len(nest') = Len(nest) - 1 /\ \A i \in 1 .. Len(nest) - 1 : nest'[i].k = nest[i].k
    BY <1>0, <2>1, OuterKinds
  <2> QED BY <2>1, <2>2, <2>3, <2>4, OutKept
<1>3. CASE LeaveIf
  <2>1. /\ nest # <<>> /\ Innermost.k \in {"then", "else"} /\ UNCHANGED scopes
        /\ nest' = Ended(Outer, IF Innermost.k = "then" THEN "closed" ELSE Innermost.state)
    BY <1>3 DEF LeaveIf, Over
  <2>2. PICK p : text' = Append(text, p) /\ p.k \in Closers /\ DeclaresNone(p)
    <3>1. PICK k \in Closers : Leaves(k)
      BY <1>3, Zenon DEF LeaveIf, Closers
    <3> QED BY <3>1, LeavesAdds
  <2>3. Innermost.k \notin Scoped
    BY <2>1 DEF Scoped
  <2>4. (IF Innermost.k = "then" THEN "closed" ELSE Innermost.state) \in {"open", "ended", "closed"}
    BY <2>1, InnermostIs
  <2>5. Len(nest') = Len(nest) - 1 /\ \A i \in 1 .. Len(nest) - 1 : nest'[i].k = nest[i].k
    BY <1>0, <2>1, <2>4, OuterKinds
  <2> QED BY <2>1, <2>2, <2>3, <2>5, OutKept
<1>4. CASE LeaveWhile
  <2>1. /\ nest # <<>> /\ Innermost.k = "loop" /\ UNCHANGED scopes
        /\ nest' = Ended(Outer, Innermost.state)
    BY <1>4 DEF LeaveWhile, Over
  <2>2. PICK p : text' = Append(text, p) /\ p.k \in Closers /\ DeclaresNone(p)
    <3>1. PICK k \in Closers : Leaves(k)
      BY <1>4, Zenon DEF LeaveWhile, Closers
    <3> QED BY <3>1, LeavesAdds
  <2>3. Innermost.k \notin Scoped
    BY <2>1 DEF Scoped
  <2>4. Innermost.state \in {"open", "ended", "closed"}
    BY <2>1, InnermostIs
  <2>5. Len(nest') = Len(nest) - 1 /\ \A i \in 1 .. Len(nest) - 1 : nest'[i].k = nest[i].k
    BY <1>0, <2>1, <2>4, OuterKinds
  <2> QED BY <2>1, <2>2, <2>3, <2>5, OutKept
<1> QED BY <1>1, <1>2, <1>3, <1>4 DEF Leave

\* Nothing that was reported is taken back.
LEMMA ErrorsStay ==
  ASSUME [Next]_vars, errors' = {}
  PROVE  errors = {}
<1>1. ASSUME NEW wrong, Report(wrong) PROVE errors = {}
  BY <1>1, Zenon DEF Report
<1>2. ASSUME NEW p, Enter(p) PROVE errors = {}
  <2>1. ASSUME NEW wrong, Says(p, wrong) PROVE errors = {}
    BY <1>1, <2>1, Zenon DEF Says
  <2>2. (\E wrong : Says(p, wrong)) \/ (\E wrong : Report(wrong)) \/ UNCHANGED errors
    BY <1>2, ZenonT(30) DEF Enter, AnalyzeVarDecl, AnalyzeFuncDef, EnterBlock, AnalyzeExprStmt, AnalyzeAssign,
       AnalyzeJump, AnalyzeReturn, EnterIf, EnterElse, EnterWhile
  <2> QED BY <1>1, <2>1, <2>2
<1>3. CASE Leave
  BY <1>3, Zenon DEF Leave, LeaveFunction, LeaveBlock, LeaveIf, LeaveWhile
<1>4. CASE CheckMainExists
  BY <1>1, <1>4, Zenon DEF CheckMainExists
<1>5. CASE UNCHANGED vars
  BY <1>5 DEF vars
<1> QED BY <1>2, <1>3, <1>4, <1>5 DEF Next

\* Whatever is entered without a report keeps them.
LEMMA EnterKept ==
  ASSUME TextOK, WalkOK, Kept(text, nest, scopes), NEW p \in Offered, Enter(p), errors' = {}
  PROVE  Kept(text, nest, scopes)'
<1>1. CASE p.k = "var"
  <2>1. AnalyzeVarDecl(p)
    BY <1>1 DEF Enter
  <2> QED BY <1>1, <2>1, VarKept
<1>2. CASE p.k = "function"
  <2>1. AnalyzeFuncDef(p)
    BY <1>2 DEF Enter
  <2> QED BY <1>2, <2>1, FunctionKept
<1>3. CASE p.k = "{"
  <2>1. EnterBlock(p)
    BY <1>3, Zenon DEF Enter
  <2>2. p.k \in BlockKinds /\ DeclaresNone(p)
    BY <1>3, BlockKind, Zenon
  <2> QED BY <2>1, <2>2, BlockKept, Zenon
<1>4. CASE p.k \in {"expr", "assign", "jump", "return"}
  <2>1. \E wrong : Says(p, wrong)
    BY <1>4 DEF Enter, AnalyzeExprStmt, AnalyzeAssign, AnalyzeJump, AnalyzeReturn
  <2> QED BY <1>4, <2>1, SaysKept
<1>5. CASE p.k = "if"
  <2>1. text' = Append(text, p) /\ nest' = Append(nest, Node("then")) /\ UNCHANGED scopes
    BY <1>5 DEF Enter, EnterIf, Meets
  <2> QED BY <1>5, <2>1, BranchKept
<1>6. CASE p.k = "else"
  <2>1. EnterElse(p)
    BY <1>6 DEF Enter
  <2> QED BY <1>6, <2>1, ElseKept
<1>7. CASE p.k = "while"
  <2>1. text' = Append(text, p) /\ nest' = Append(nest, Node("loop")) /\ UNCHANGED scopes
    BY <1>7 DEF Enter, EnterWhile, Meets
  <2> QED BY <1>7, <2>1, BranchKept
<1> QED BY <1>1, <1>2, <1>3, <1>4, <1>5, <1>6, <1>7 DEF Enter

\* At the start there are the runtime's names and nothing else.
LEMMA InitKept == Init => NamesKept
<1> SUFFICES ASSUME Init PROVE Keeps(text, Len(text), nest, scopes, <<>>, <<0>>)
  BY DEF NamesKept, Kept
<1>1. text = <<>> /\ Len(text) = 0 /\ nest = <<>> /\ scopes = <<Runtime>>
  BY DEF Init
<1> DEFINE open == <<>>
           rungs == <<0>>
           none == AroundIn(text, Openers, Closers, 0)
<1>2. none = {}
  BY DEF AroundIn
<1>3. open \in Seq(1 .. 0) /\ Len(open) = 0 /\ DOMAIN open = {}
  OBVIOUS
<1>4. rungs \in Seq(Nat) /\ Len(rungs) = 1 /\ DOMAIN rungs = {1} /\ rungs[1] = 0
  OBVIOUS
<1>5. Len(scopes) = 1 /\ scopes[1] = Runtime
  BY <1>1
<1>6. \A x \in DOMAIN Runtime : Runtime[x].at = 0 /\ Runtime[x].kind = "func"
  BY DEF Runtime, Routine, Symbol
<1>7. DeclaredWithin(text, 0) = Builtin
  <2>1. 1 .. 0 = {}
    OBVIOUS
  <2> QED BY <2>1 DEF DeclaredWithin
<1>8. Len(nest) = 0
  BY <1>1
<1> HIDE DEF open, rungs, none
<1>9. Trail(text, Openers, Closers, 0, open)
  BY <1>2, <1>3 DEF Trail, Ascending, none
<1>10. Follows(text, 0, nest, open)
  BY <1>3, <1>8 DEF Follows
<1>11. Ladder(BlocksAround(text, 0), rungs)
  <2>1. BlocksAround(text, 0) = {}
    BY <1>2 DEF BlocksAround, none
  <2>2. rungs # <<>> /\ Ascending(rungs) /\ {rungs[i] : i \in DOMAIN rungs} = {0}
    BY <1>4 DEF Ascending
  <2> QED BY <1>4, <2>1, <2>2 DEF Ladder
<1>12. Filed(Builtin, rungs, scopes)
  <2>1. \A d \in Builtin : /\ d.x \in DOMAIN Runtime /\ d.scope = 0
                           /\ Runtime[d.x].at = d.at /\ Runtime[d.x].kind = d.as
    BY <1>6 DEF Builtin, Declared
  <2>2. ASSUME NEW x \in DOMAIN Runtime PROVE \E d \in Builtin : d.scope = 0 /\ d.x = x
    <3>1. Declared("func", x, 0, 0) \in Builtin
      BY DEF Builtin
    <3> QED BY <3>1 DEF Declared
  <2> QED BY <1>4, <1>5, <2>1, <2>2 DEF Filed
<1> QED BY <1>1, <1>7, <1>9, <1>10, <1>11, <1>12 DEF Keeps, open, rungs

\* Every step keeps them as long as nothing is reported.
LEMMA NextKept == Inv /\ NamesKept /\ [Next]_vars => NamesKept'
<1> SUFFICES ASSUME TextOK, WalkOK, NamesKept, [Next]_vars, errors' = {}
             PROVE  Kept(text, nest, scopes)'
  BY InvParts, Zenon DEF NamesKept
<1>1. Kept(text, nest, scopes)
  BY ErrorsStay DEF NamesKept
<1>2. ASSUME NEW p \in Offered, Enter(p) PROVE Kept(text, nest, scopes)'
  BY <1>1, <1>2, EnterKept
<1>3. CASE Leave
  BY <1>1, <1>3, LeaveKept
<1>4. CASE CheckMainExists
  BY <1>1, <1>4 DEF CheckMainExists, Kept
<1>5. CASE UNCHANGED vars
  BY <1>1, <1>5 DEF vars, Kept
<1> QED BY <1>2, <1>3, <1>4, <1>5 DEF Next

\* What is meant by a name, as the scopes hold it.
LEMMA MeantIs ==
  ASSUME TextOK, NEW x, NEW rungs, Ladder(BlocksAround(text, Len(text)), rungs)
  PROVE  Meant(x, Len(text)) = MeantAmong(DeclaredWithin(text, Len(text)), rungs, x)
<1> DEFINE n == Len(text)
           around == AroundIn(text, Openers, Closers, n)
           mine == {d \in DeclaredWithin(text, n) :
                      d.x = x /\ \E i \in DOMAIN rungs : d.scope = rungs[i]}
           seen == {d \in Builtin \cup DeclaredUpTo(n, x) : d.x = x /\ d.scope \in {0} \cup Around(n)}
<1>1. n \in Nat
  <2>1. PICK S : text \in Seq(S)
    BY DEF TextOK
  <2> QED BY <2>1
<1> HIDE DEF n
<1>2. \A m : Around(m) = AroundIn(text, Openers, Closers, m)
  BY DEF Around, AroundIn, Occurring, OccurringIn
<1>3. ASSUME NEW m PROVE ScopeAt(m) = ScopeAtIn(text, m)
  <2>1. ScopeAt(m) = LET blocks == {j \in Around(m) : text[j].k \in BlockKinds}
                     IN  IF blocks = {} THEN 0 ELSE CHOOSE j \in blocks : \A i \in blocks : i <= j
    BY Zenon DEF ScopeAt, BlockKinds
  <2>2. {j \in Around(m) : text[j].k \in BlockKinds} = BlocksAround(text, m)
    BY <1>2 DEF BlocksAround
  <2> QED BY <2>1, <2>2 DEF ScopeAtIn
<1>4. \A m : DeclaredBy(m) = DeclaredOf(text[m], ScopeAtIn(text, m), m)
  BY <1>3, Zenon DEF DeclaredBy, DeclaredOf
<1>5. ASSUME NEW m, NEW d \in DeclaredBy(m) PROVE d.x \in NamesBy(m)
  <2>1. CASE text[m].k = "var"
    BY <1>5, <2>1 DEF DeclaredBy, NamesBy, Declared
  <2>2. CASE text[m].k = "function"
    BY <1>5, <2>2 DEF DeclaredBy, NamesBy, Declared
  <2>3. CASE text[m].k \notin {"var", "function"}
    BY <1>5, <2>3 DEF DeclaredBy
  <2> QED BY <2>1, <2>2, <2>3
<1>6. ASSUME NEW d, d.x = x
      PROVE  d \in Builtin \cup DeclaredUpTo(n, x) <=> d \in DeclaredWithin(text, n)
  <2>1. d \in DeclaredUpTo(n, x) <=> \E m \in 1 .. n : x \in NamesBy(m) /\ d \in DeclaredBy(m)
    BY DEF DeclaredUpTo
  <2>2. d \in DeclaredWithin(text, n) <=> d \in Builtin \/ \E m \in 1 .. n : d \in DeclaredBy(m)
    BY <1>4 DEF DeclaredWithin
  <2> QED BY <2>1, <2>2, <1>5, <1>6
<1>7. ASSUME NEW d \in DeclaredWithin(text, n)
      PROVE  d.scope \in {0} \cup Around(n) <=> \E i \in DOMAIN rungs : d.scope = rungs[i]
  <2>1. d.scope = 0 \/ text[d.scope].k \in BlockKinds
    BY <1>1, DeclaredSomewhere
  <2>2. {rungs[i] : i \in DOMAIN rungs} = {0} \cup BlocksAround(text, n)
    BY DEF Ladder, n
  <2>3. d.scope \in {0} \cup Around(n) <=> d.scope \in {0} \cup BlocksAround(text, n)
    BY <2>1, <1>2 DEF BlocksAround
  <2> QED BY <2>2, <2>3
<1>8. seen = mine
  BY <1>6, <1>7
<1>9. Meant(x, n) = {d \in seen : \A e \in seen : e.scope <= d.scope}
  BY DEF Meant
<1> HIDE DEF seen, mine
<1>10. Meant(x, n) = {d \in mine : \A e \in mine : e.scope <= d.scope}
  BY <1>8, <1>9
<1> QED BY <1>10 DEF mine, n, MeantAmong

\* Where they are kept, a name means what the text says.
LEMMA KeptResolves == Inv /\ NamesKept => NamesResolve
<1> SUFFICES ASSUME TextOK, WalkOK, Kept(text, nest, scopes), NEW x
             PROVE  LET sym == LookupSymbol(scopes, x)
                        meant == Meant(x, Len(text))
                    IN  IF meant = {} THEN sym = NoSymbol
                        ELSE \E d \in meant : sym.at = d.at /\ sym.kind = d.as
  BY InvParts, Zenon DEF NamesKept, NamesResolve
<1> DEFINE n == Len(text)
<1>1. PICK open, rungs : Keeps(text, n, nest, scopes, open, rungs)
  BY DEF Kept
<1>2. /\ Ladder(BlocksAround(text, n), rungs) /\ Filed(DeclaredWithin(text, n), rungs, scopes)
      /\ rungs \in Seq(Nat) /\ Ascending(rungs) /\ Stack(scopes)
  BY <1>1 DEF Keeps, Ladder, WalkOK
<1> DEFINE meant == MeantAmong(DeclaredWithin(text, n), rungs, x)
<1>3. Meant(x, n) = meant
  BY <1>2, MeantIs
<1>4. IF meant = {} THEN LookupSymbol(scopes, x) = NoSymbol
      ELSE \E d \in meant : LookupSymbol(scopes, x).at = d.at /\ LookupSymbol(scopes, x).kind = d.as
  <2>1. PICK decls : decls = DeclaredWithin(text, n)
    OBVIOUS
  <2> HIDE DEF n
  <2> QED BY <1>2, <2>1, FoundInnermost
<1> HIDE DEF meant
<1> QED BY <1>3, <1>4

\* They are kept in every program until something is reported.
LEMMA NamesInvariant == Spec => [](Inv /\ NamesKept)
<1>1. Init => NamesKept
  BY InitKept
<1>2. Inv /\ NamesKept /\ [Next]_vars => (Inv /\ NamesKept)'
  BY NextKept, NextInv
<1> QED BY <1>1, <1>2, InitInv, PTL DEF Spec

\* Scope::lookup along the scopes that pushScope and popScope leave: however
\* deep the program nests and whatever it declares, a name that is looked up is
\* taken for the declaration that the text as a whole gives it there.
THEOREM NamesAreResolved == Spec => []NamesResolve
<1>1. Inv /\ NamesKept => NamesResolve
  BY KeptResolves
<1> QED BY <1>1, NamesInvariant, PTL
=============================================================================
