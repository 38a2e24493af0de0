------------------------------ MODULE MCPrograms ------------------------------
(* Shorthands in which the small translation units of the runs are written. *)
EXTENDS Optimizer

x == Ref("x")
y == Ref("y")
i == Ref("i")
Add(l, r) == Bin("add", l, r)
Minus(l, r) == Bin("sub", l, r)
Times(l, r) == Bin("mul", l, r)
Less(l, r) == Bin("lt", l, r)
More(l, r) == Bin("gt", l, r)
Equal(l, r) == Bin("eq", l, r)
Elem(name, e) == Sub(name, <<e>>)
a(e) == Elem("a", e)
Var0(name) == Decl(name, <<>>, Lit(0))
Call0(f) == CallE(f, <<>>)
Call1(f, e) == CallE(f, <<e>>)
Count(v) == Assign(v, Add(v, Lit(1)))
CountDown(v) == Assign(v, Minus(v, Lit(1)))

Scalar(name) == [x |-> name, array |-> FALSE, inner |-> <<>>]
Array(name) == [x |-> name, array |-> TRUE, inner |-> <<>>]
Fun(params, void, body) == [params |-> params, void |-> void, body |-> body]
MainFun(body) == Fun(<<>>, FALSE, body)
Global(name, dims, init) == [x |-> name, dims |-> dims, init |-> init, const |-> FALSE]
GlobalArray(name, n, first) ==
  Global(name, <<Lit(n)>>, Braces([k \in DOMAIN first |-> Lit(first[k])]))
Zeroed(name) == Global(name, <<>>, NoInit)

Unit(funs, order, globals) == [funs |-> funs, order |-> order, globals |-> globals]
OnlyMain(body) == Unit("main" :> MainFun(body), <<"main">>, <<>>)
WithInputs(unit, inputs) == [unit |-> unit, inputs |-> inputs]

-------------------------------------------------------------------------------
(***************************************************************************)
(* Programs on which the optimizer does something else than its documents, *)
(* or the tests, say.  Each is the shortest found that shows it; a run     *)
(* takes one of them as its corpus.                                        *)
(***************************************************************************)

Alone(unit, in) == {WithInputs(unit, {in})}
\* a[x] is stored to, then perhaps again by the name a[y].
UnknownIndex ==
  Alone(OnlyMain(<<Decl("a", <<Lit(4)>>, NoInit), Decl("x", <<>>, GetInt), Decl("y", <<>>, GetInt),
                 Assign(Elem("a", x), Lit(7)), Assign(Elem("a", y), Lit(8)),
                 Return(Elem("a", x))>>), <<1, 1>>)

\* tests/ir/counted_loop_side_effect.sy
CountingLoop ==
  Alone(Unit([step |-> MainFun(<<Count(Ref("iterations")), Return(Ref("iterations"))>>),
            main |-> MainFun(
              <<Decl("countdown", <<>>, Lit(5)), Var0("last"),
                While(More(Ref("countdown"), Lit(0)),
                      Blk(<<Assign(Ref("reset_a"), Lit(0)), Assign(Ref("reset_b"), Lit(0)),
                            Assign(Ref("last"), Call0("step")), CountDown(Ref("countdown"))>>)),
                Return(Minus(Add(Ref("iterations"), Ref("last")), Lit(10)))>>)],
           <<"step", "main">>,
           <<Zeroed("reset_a"), Zeroed("reset_b"), Zeroed("iterations")>>), <<>>)

===============================================================================
