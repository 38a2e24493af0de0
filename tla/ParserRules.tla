----------------------------- MODULE ParserRules -----------------------------
(***************************************************************************)
(* The language the parser is to read, as a grammar that says nothing of   *)
(* how it is read, and what the parser is to do with it.                   *)
(***************************************************************************)
EXTENDS Parser

\* A production: its right-hand side, and the node its tree has, or "" where
\* it only passes on the trees of its symbols.
To(node, rhs) == [node |-> node, rhs |-> rhs]
As(rhs) == To("", rhs)

\* Operators of one level, which associate to the left.
Left(self, tighter, operators) ==
  {As(<<tighter>>)} \cup {To(op, <<self, op, tighter>>) : op \in operators}

List(self, element) == {As(<<element>>), As(<<element, ",", self>>)}
Repeated(self, elements) == {As(<<>>)} \cup {As(<<e, self>>) : e \in elements}

\* An else belongs to the nearest if: what stands between the two is Closed.
Grammar == [
  Units   |-> Repeated("Units", {"Decl", "Func"}),
  Type    |-> {As(<<"int">>), As(<<"float">>)},
  AnyType |-> {As(<<"Type">>), As(<<"void">>)},
  Decl    |-> {To("var", <<"Type", "Defs", ";">>), To("const", <<"const", "Type", "Defs", ";">>)},
  Defs    |-> List("Defs", "Def"),
  Def     |-> {To("def", <<"id", "Dims">>), To("def", <<"id", "Dims", "=", "Init">>)},
  Dims    |-> Repeated("Dims", {"Dim"}),
  Dim     |-> {To("dim", <<"[", "Or", "]">>)},
  Init    |-> {As(<<"Or">>), To("braces", <<"{", "}">>), To("braces", <<"{", "Inits", "}">>),
               To("braces", <<"{", "Inits", ",", "}">>)},
  Inits   |-> List("Inits", "Init"),
  Func    |-> {To("function", <<"AnyType", "id", "(", ")", "Block">>),
               To("function", <<"AnyType", "id", "(", "Params", ")", "Block">>)},
  Params  |-> List("Params", "Param"),
  Param   |-> {To("param", <<"AnyType", "id">>), To("param", <<"AnyType", "id", "Open", "Dims">>)},
  Open    |-> {To("open", <<"[", "]">>)},
  Block   |-> {To("block", <<"{", "Items", "}">>)},
  Items   |-> Repeated("Items", {"Decl", "Stmt"}),
  Stmt    |-> {As(<<"Closed">>), To("if", <<"if", "(", "Or", ")", "Stmt">>),
               To("if", <<"if", "(", "Or", ")", "Closed", "else", "Ajar">>),
               To("while", <<"while", "(", "Or", ")", "Ajar">>)},
  Ajar    |-> {To("if", <<"if", "(", "Or", ")", "Stmt">>),
               To("if", <<"if", "(", "Or", ")", "Closed", "else", "Ajar">>),
               To("while", <<"while", "(", "Or", ")", "Ajar">>)},
  Closed  |-> {As(<<"Block">>), To("if", <<"if", "(", "Or", ")", "Closed", "else", "Closed">>),
               To("while", <<"while", "(", "Or", ")", "Closed">>),
               To("break", <<"break", ";">>), To("continue", <<"continue", ";">>),
               To("return", <<"return", ";">>), To("return", <<"return", "Or", ";">>),
               To("assign", <<"Place", "=", "Or", ";">>), To("expr", <<"Or", ";">>),
               To("empty", <<";">>)},
  Place   |-> {As(<<"id">>), To("elem", <<"Place", "[", "Or", "]">>)},
  Or      |-> Left("Or", "And", {"||"}),
  And     |-> Left("And", "Equal", {"&&"}),
  Equal   |-> Left("Equal", "Order", {"==", "!="}),
  Order   |-> Left("Order", "Sum", {"<", ">", "<=", ">="}),
  Sum     |-> Left("Sum", "Product", {"+", "-"}),
  Product |-> Left("Product", "Unary", {"*", "/", "%"}),
  Unary   |-> {As(<<"Postfix">>)} \cup {To(op, <<op, "Unary">>) : op \in {"+", "-", "!"}},
  Postfix |-> {As(<<"Primary">>), To("elem", <<"Postfix", "[", "Or", "]">>)},
  Primary |-> {As(<<t>>) : t \in {"1", "1.5", "str", "id"}} \cup
              {As(<<"(", "Or", ")">>), To("call", <<"id", "(", ")">>), To("call", <<"id", "(", "Args", ")">>)},
  Args    |-> List("Args", "Or") ]

Kept == {"id", "int", "float", "void", "1", "1.5", "str"}
Variable(symbol) == symbol \in DOMAIN Grammar

\* The tokens that what comes from a symbol may start with: all of them after
\* as many rounds as there are symbols on the way to one.  And end with: the
\* same for the grammar read backwards.
MayBeEmpty == {symbol \in DOMAIN Grammar : As(<<>>) \in Grammar[symbol]}
Forwards(rhs) == rhs
Backwards(rhs) == [k \in DOMAIN rhs |-> rhs[Len(rhs) + 1 - k]]
Borders(Direction(_)) ==
  LET Foremost(rhs) == {rhs[k] : k \in {n \in DOMAIN rhs : \A l \in 1 .. n - 1 : rhs[l] \in MayBeEmpty}}
      Found[round \in 0 .. 12] ==
        LET before == IF round = 0 THEN [symbol \in DOMAIN Grammar |-> {}] ELSE Found[round - 1]
        IN  [symbol \in DOMAIN Grammar |->
               UNION {IF Variable(f) THEN before[f] ELSE {f} :
                      f \in UNION {Foremost(Direction(p.rhs)) : p \in Grammar[symbol]}}]
  IN  Found[12]
First == Borders(Forwards)
Last  == Borders(Backwards)
Fits(symbol, i, j) ==
  IF i = j THEN symbol \in MayBeEmpty
  ELSE IF Variable(symbol) THEN tokens[i] \in First[symbol] /\ tokens[j - 1] \in Last[symbol]
  ELSE tokens[i] = symbol /\ j = i + 1

\* Where the first symbol of rhs may end, if it starts at i and rhs ends at j.
\* A symbol that another one follows at once is never empty.
Ends(rhs, i, j) ==
  { m \in IF ~ Variable(rhs[1]) THEN {i + 1} \cap i .. j
          ELSE IF Len(rhs) = 1 THEN {j}
          ELSE IF Variable(rhs[2]) THEN i + 1 .. j
          ELSE {n \in i .. j - 1 : tokens[n] = rhs[2]} : Fits(rhs[1], i, m) }

\* Every way to make rhs, or a tree of a symbol, of tokens[i] .. tokens[j - 1]:
\* the sequences of trees.
RECURSIVE Forest(_, _, _), Trees(_, _, _)
Forest(rhs, i, j) ==
  IF rhs = <<>> THEN IF i = j THEN {<<>>} ELSE {}
  ELSE UNION { LET after == Forest(Tail(rhs), m, j)
               IN  IF after = {} THEN {}
                   ELSE {first \o rest : first \in Trees(rhs[1], i, m), rest \in after} :
               m \in Ends(rhs, i, j) }
Trees(symbol, i, j) ==
  IF ~ Variable(symbol) THEN {IF symbol \in Kept THEN <<Leaf(symbol)>> ELSE <<>>}
  ELSE UNION { LET made == Forest(p.rhs, i, j)
               IN  IF p.node = "" THEN made ELSE {<<Node(p.node, f)>> : f \in made} :
               p \in Grammar[symbol] }

Programs == {Node("unit", f) : f \in Trees("Units", 1, Len(tokens))}

----------------------------------------------------------------------------
\* An input is taken without an error exactly when the grammar has a tree for
\* it; the grammar has no other then, and it is the one the parser built: its
\* precedences, the two tokens it looks at, the assignment it tries first and
\* the else it gives to the nearest if.
ReadsTheLanguage == Done => (IF errors = {} THEN {built[1]} ELSE {}) = Programs

\* Whatever the tokens are, the parser ends, unless the top level comes to a
\* closing brace, which it neither takes nor skips.
EndsOrMeetsABrace == <>(Done \/ (todo = <<Do("skip"), Do("unit")>> /\ At("}")))
=============================================================================
