---------------------------- MODULE MCInitialisers ----------------------------
(***************************************************************************)
(* Initialiser lists of arrays: the cells collectArrayInitializer gives    *)
(* them, against a definition of the language's rule that places nothing   *)
(* by index, and the static table of a global array against what the code  *)
(* for a local one leaves in memory.                                       *)
(***************************************************************************)
EXTENDS Builder, IRSemantics

VARIABLES
  dims,     \* of the array declared
  init,     \* its initialiser list
  table,    \* the cells of a global array so declared, once it is built
  printed   \* what a program prints that declares it locally and prints it

vars == <<dims, init, table, printed>>

----------------------------------------------------------------------------
(* The lists: every shape of a depth, its expressions taken in turn.       *)

c == Ref("c")
Unplaced == Lit(0)
Expressions ==
  <<Lit(5), Lit(0), Un("neg", c), Bin("mod", Un("neg", Lit(7)), c), Bin("or", Lit(0), c),
    Bin("div", Un("neg", Lit(7)), Lit(2)), Un("not", c), Bin("le", c, Lit(3))>>

SeqsUpTo(S, n) == UNION {[1 .. k -> S] : k \in 0 .. n}
Flat == {Braces(s) : s \in SeqsUpTo({Unplaced}, 2)}
Nested == {Braces(s) : s \in SeqsUpTo({Unplaced} \cup Flat, 2)}
Shapes(n) ==
  CASE n = 1 -> {Braces(s) : s \in SeqsUpTo({Unplaced} \cup (Flat \ {Braces(<<>>)}), 3)}
    [] n = 2 -> {Braces(s) : s \in SeqsUpTo({Unplaced} \cup Flat, 4)}
    [] n = 3 -> {Braces(s) : s \in SeqsUpTo({Unplaced} \cup Nested, 2)
                                      \cup SeqsUpTo({Unplaced} \cup Flat, 5)}

RECURSIVE Filled(_, _)
Filled(shape, from) ==   \* [init, next expression]
  IF shape.k # "braces"
  THEN [init |-> Expressions[1 + (from % Len(Expressions))], next |-> from + 1]
  ELSE LET all == Through(LAMBDA acc, e : LET r == Filled(e, acc.next)
                            IN  [elems |-> Append(acc.elems, r.init), next |-> r.next],
                          [elems |-> <<>>, next |-> from], shape.elems)
       IN  [init |-> Braces(all.elems), next |-> all.next]

Arrays == {<<1>>, <<3>>, <<2, 2>>, <<3, 2>>, <<2, 3>>, <<2, 2, 2>>, <<1, 2, 3>>}

----------------------------------------------------------------------------
Dims == [i \in DOMAIN dims |-> Lit(dims[i])]
Globally ==
  [funs |-> Emptymap, order |-> <<>>,
   globals |-> <<[x |-> "c", dims |-> <<>>, init |-> Lit(3), const |-> TRUE],
                 [x |-> "a", dims |-> Dims, init |-> init, const |-> FALSE]>>]

\* The cells are printed through a flat index into the first row.
PrintCell(n) ==
  PutInt(Sub("a", [k \in DOMAIN dims |-> Lit(IF k = Len(dims) THEN n ELSE 0)]))
Locally ==
  [funs |-> "main" :> [params |-> <<>>, void |-> FALSE,
              body |-> <<Decl("a", Dims, init)>>
                       \o [n \in 1 .. Product(dims) |-> PrintCell(n - 1)]],
   order |-> <<"main">>,
   globals |-> <<Globally.globals[1]>>]

NotYet == <<>>
Init ==
  /\ dims \in Arrays
  /\ init \in {Filled(shape, 0).init : shape \in Shapes(Len(dims))}
  /\ table = NotYet
  /\ printed = NotYet

Declare ==
  /\ table = NotYet
  /\ table' = Build(Globally).globals["a"]
  /\ printed' = Run(Build(Locally), <<>>, 8).out
  /\ UNCHANGED <<dims, init>>

Spec == Init /\ [][Declare]_vars

----------------------------------------------------------------------------
(* The language's rule.                                                    *)

\* The cells a list gives an array, as a sequence: an expression is one cell,
\* a list in it is a whole element of the outermost dimension, and what is left
\* is 0.  A cell without an expression holds NoInit.
RECURSIVE CellsOf(_, _)
CellsOf(ds, list) ==
  LET OfElement(e) == IF e.k # "braces" THEN <<e>>
                      ELSE IF Len(ds) = 1 THEN e.elems   \* {e} for a scalar
                      ELSE CellsOf(Tail(ds), e)
      given == Through(LAMBDA cells, e : cells \o OfElement(e), <<>>, list.elems)
  IN  given \o [n \in 1 .. (Product(ds) - Len(given)) |-> NoInit]

\* Lists that the rule speaks of: none has more cells than it stands for, a
\* list for a scalar has one expression, and a list stands where an element of
\* its dimension begins.
RECURSIVE InPlace(_, _)
InPlace(ds, list) ==
  LET Count(n) == Cardinality({m \in 1 .. n : list.elems[m].k # "braces"})
      rest == Tail(ds)
      Reached(n) == Count(n) + Product(rest) * (n - Count(n))
  IN  /\ Reached(Len(list.elems)) <= Product(ds)
      /\ \A n \in DOMAIN list.elems :
           LET e == list.elems[n] IN
           e.k = "braces" =>
             IF rest = <<>> THEN Len(e.elems) = 1 /\ e.elems[1].k # "braces"
             ELSE Reached(n - 1) % Product(rest) = 0 /\ InPlace(rest, e)

\* collectArrayInitializer: expressions go to the cells the language's rule
\* gives them, all of them and no other, for lists that are in place.
CellsFollowTheBraces ==
  table # NotYet /\ InPlace(dims, init) =>
    LET cells == CellsOf(dims, init)
        exprs == Initialisers(dims, init)
    IN  \A n \in 1 .. Product(dims) :
          IF cells[n] = NoInit THEN n - 1 \notin DOMAIN exprs
          ELSE n - 1 \in DOMAIN exprs /\ exprs[n - 1] = cells[n]

\* buildLocalDecl and the global tables: whatever the list, in place or not, a
\* local array holds when it is declared what a global one holds from the start,
\* be its cells given by expressions or not.
LocalLikeGlobal == table # NotYet => printed = table

=============================================================================
