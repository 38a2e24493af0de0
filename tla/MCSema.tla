------------------------------- MODULE MCSema -------------------------------
(***************************************************************************)
(* Semantic analysis on four families of programs: names and scopes, loops *)
(* and statements without a block, every operator on every kind of         *)
(* operand, and constant expressions.                                      *)
(***************************************************************************)
EXTENDS SemaRules

Piece(k) == [k |-> k]
With(k, e) == [k |-> k, e |-> e]
Variable(const, type, x, dims, init) ==
  [k |-> "var", const |-> const, type |-> type, x |-> x, dims |-> dims, init |-> init]
Param(type, x) == [type |-> type, x |-> x, array |-> FALSE, dims |-> <<>>]
ArrayParam(type, x, dims) == [type |-> type, x |-> x, array |-> TRUE, dims |-> dims]
Fun(ret, x, params) == [k |-> "function", ret |-> ret, x |-> x, params |-> params]
Empty(ret, x, params) == <<Fun(ret, x, params), Piece("{"), Piece("}"), Piece("end function")>>
Float(n, d) == [k |-> "flit", n |-> n, d |-> d]
String == [k |-> "string"]
Elem(base, idx) == [k |-> "elem", base |-> base, idx |-> idx]
None == [k |-> "none"]
List == [k |-> "braces"]
Set(l, e) == [k |-> "assign", l |-> l, e |-> e]
Main == Fun("int", "main", <<>>)

----------------------------------------------------------------------------
x == Ref("x")
y == Ref("y")
\* Variables, parameters and a function of the same names, blocks in blocks.
Scoping ==
  [prelude |-> <<>>, size |-> 8, faults |-> 0,
   pieces |-> {Variable(FALSE, "int", "x", <<>>, None), Variable(FALSE, "float", "y", <<>>, x),
               Main, Fun("int", "x", <<Param("int", "y")>>),
               Fun("void", "y", <<Param("int", "x"), Param("int", "x")>>),
               Piece("{"), Set(x, y), With("return", CallE("x", <<y>>))}]

one == Lit(1)
\* Loops and branches around statements with and without a block.
Jumping ==
  [prelude |-> <<Main, Piece("{")>>, size |-> 8, faults |-> 1,
   pieces |-> {With("while", one), With("if", one), Piece("else"), Piece("{"), Piece("jump"),
               With("return", one)}]

----------------------------------------------------------------------------
Atoms == {Ref("i"), Ref("f"), Ref("a"), Ref("c"), Ref("g"), Ref("lost"), Lit(1), Float(3, 2), String}
a == Ref("a")
Simply ==
  {Un(op, e) : op \in {"neg", "not", "plus"}, e \in Atoms}
    \cup {Bin(op, l, r) : op \in {"add", "mod", "lt"}, l \in Atoms, r \in Atoms}
    \cup {Elem(e, i) : e \in {a, Ref("c"), Ref("lost"), Elem(a, one)}, i \in Atoms}
    \cup {CallE("g", <<l, r>>) : l \in {a, Ref("b"), Elem(a, one), Ref("lost")}, r \in Atoms}
    \cup {CallE("g", <<a>>), CallE("h", <<>>), CallE("i", <<Ref("lost")>>),
          CallE("lost", <<Bin("mod", one, Ref("f"))>>), CallE("putint", <<CallE("h", <<>>)>>),
          CallE("putf", <<>>), CallE("putf", <<String, Ref("i"), Ref("lost")>>)}
\* Operands in error, and calls without a result, under a further operator.
Doubtful == {Elem(Ref("c"), one), Elem(Ref("lost"), one), Elem(a, one), CallE("h", <<>>), CallE("g", <<a>>),
             CallE("g", <<a, one>>), Bin("mod", one, Ref("f")), Un("neg", String), Ref("g"), Un("not", a)}
Doubly == {Bin(op, l, r) : op \in {"mod", "eq"}, l \in Doubtful, r \in Doubtful}
            \cup {Elem(Elem(a, l), one) : l \in Doubtful}
            \cup {CallE("g", <<a, l>>) : l \in Doubtful} \cup {Un("neg", l) : l \in Doubtful}
Spoken == Atoms \cup Simply \cup Doubly

\* Every expression in every kind of statement, among declarations of each kind.
Typing ==
  [prelude |-> <<Variable(FALSE, "int", "i", <<>>, None), Variable(FALSE, "float", "f", <<>>, None),
                 Variable(TRUE, "int", "c", <<>>, Lit(2)), Variable(FALSE, "int", "a", <<Lit(4), Ref("c")>>, List),
                 Variable(FALSE, "int", "b", <<Lit(4), Lit(3)>>, None)>>
               \o Empty("float", "g", <<ArrayParam("int", "p", <<Ref("c")>>), Param("float", "v")>>)
               \o Empty("void", "h", <<>>) \o <<Main, Piece("{")>>,
   size |-> 16, faults |-> 0,
   pieces |-> {With(k, e) : k \in {"expr", "return"}, e \in Spoken}
                \cup {With("return", None)}
                \cup {With("while", e) : e \in Doubtful} \cup {With("if", e) : e \in Doubtful}
                \cup {Set(l, e) : l \in {Ref("i"), Ref("f"), Ref("c"), Ref("lost"), a, Elem(Elem(a, one), one)},
                                  e \in Atoms \cup Doubtful}
                \cup {Variable(b, "float", "n", d, e) : b \in BOOLEAN, d \in {<<>>, <<one>>}, e \in Atoms \cup Doubtful \cup {None}}]

----------------------------------------------------------------------------
c == Ref("c")
Sums ==
  {c, Lit(3), Un("neg", c), Un("not", c), Bin("sub", c, Lit(3)), Bin("div", Un("neg", Lit(7)), c),
   Bin("mod", Un("neg", Lit(7)), c), Bin("div", Lit(4), Bin("sub", c, Lit(3))), Bin("mul", c, c),
   Bin("and", c, Bin("le", c, Lit(2))), Bin("or", Bin("ge", c, Lit(4)), Bin("ne", c, Lit(3))),
   Ref("v"), Bin("add", Ref("v"), c), Bin("gt", Ref("d"), c), CallE("getint", <<>>)}
\* Constants made of constants, before and after they are declared.
Calculating ==
  [prelude |-> <<Variable(FALSE, "int", "v", <<>>, Lit(5)), Variable(TRUE, "int", "c", <<>>, Lit(3))>>,
   size |-> 4, faults |-> 1,
   pieces |-> {Variable(TRUE, "int", "d", <<>>, e) : e \in Sums}
                \cup {Variable(FALSE, "int", "b", <<e>>, None) : e \in Sums \cup {Float(3, 2)}}
                \cup {Variable(TRUE, "float", "w", <<>>, Bin("add", Float(3, 2), c)),
                      Variable(FALSE, "int", "u", <<>>, Bin("mod", Ref("w"), Lit(2))),
                      Variable(TRUE, "int", "c", <<>>, None),
                      Fun("void", "k", <<ArrayParam("int", "p", <<Bin("sub", c, Ref("d"))>>)>>)}]

MCKits ==
  [scoping |-> Scoping, jumping |-> Jumping, typing |-> Typing, calculating |-> Calculating]
MCExprs ==
  Spoken \cup {Elem(a, l) : l \in Doubtful} \cup Sums
    \cup {x, y, Ref("b"), Ref("d"), Ref("v"), Ref("w"), Lit(2), Lit(3), Lit(4), Lit(7), Un("neg", Lit(7)),
          Bin("le", c, Lit(2)), Bin("ge", c, Lit(4)), Bin("ne", c, Lit(3)), CallE("x", <<y>>),
          Elem(Elem(a, one), one), Bin("add", Float(3, 2), c), Bin("mod", Ref("w"), Lit(2)),
          Bin("sub", c, Ref("d"))}
=============================================================================
