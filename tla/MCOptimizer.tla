------------------------------ MODULE MCOptimizer ------------------------------
(***************************************************************************)
(* The programs the builder and the optimizer run on: four corpora, of     *)
(* control flow, of memory, of calls and of statements inside each other.  *)
(***************************************************************************)
EXTENDS MCPrograms

----------------------------------------------------------------------------
(***************************************************************************)
(* The optimizer on one function of scalars and control flow: every pair   *)
(* of the statements below in sequence, between reading two integers and   *)
(* returning.                                                              *)
(***************************************************************************)

Branching ==
  {If(Less(x, y), Assign(x, Add(x, Lit(2)))),
   IfElse(Un("not", Equal(x, Lit(0))), Assign(y, Minus(y, x)), PutInt(y)),
   If(Bin("and", Less(Lit(0), x), Less(x, y)), Return(x)),
   Blk(<<Decl("x", <<>>, Minus(y, Lit(1))),
         IfElse(Bin("or", x, Equal(y, Lit(2))), Assign(y, x), Blk(<<>>))>>),
   Blk(<<Decl("i", <<>>, Lit(3)),
         IfElse(Less(i, Lit(5)), Assign(x, Add(x, i)), PutInt(i)), PutInt(Bin("div", x, i))>>),
   Blk(<<Count(x), If(y, Assign(y, Add(x, Lit(2)))), PutInt(y)>>)}

Looping ==
  {Blk(<<Var0("i"),
         While(Less(i, x), Blk(<<Assign(y, Minus(Add(y, i), Times(x, Lit(2)))), Count(i)>>))>>),
   Blk(<<Decl("i", <<>>, x),
         While(Lit(1), Blk(<<If(Less(Lit(2), i), Break), Count(i),
                             If(Equal(i, y), Continue), PutInt(i)>>))>>),
   While(Less(x, y), Blk(<<Count(x), PutInt(x), Break, PutInt(y)>>)),
   Blk(<<Var0("i"),
         While(Less(i, Lit(2)),
               Blk(<<Assign(y, Lit(0)),
                     While(Less(y, x), Assign(y, Add(y, Add(i, Lit(1))))), Count(i)>>))>>),
   \* w is 5 whenever it is tested, once x and z are seen to stay equal.
   Blk(<<Decl("z", <<>>, x), Decl("w", <<>>, Lit(5)),
         While(GetInt, Blk(<<If(Less(Ref("w"), Lit(6)), PutInt(y)),
                             Assign(Ref("w"), Add(Minus(Add(x, y), Add(Ref("z"), y)), Lit(5)))>>))>>)}

ControlPair(s, t) ==
  OnlyMain(<<Decl("x", <<>>, GetInt), Decl("y", <<>>, GetInt), s, t, Return(Add(x, y))>>)

ControlCorpus ==
  {WithInputs(ControlPair(s, t), {<<0, 0, 0, 0>>, <<1, 2, 1, 0, 0>>, <<2, 1, 0, 3, 0>>, <<-1, 3, 0, 0>>}) :
     s \in Branching \cup Looping, t \in Branching \cup Looping}

----------------------------------------------------------------------------
(***************************************************************************)
(* The optimizer on memory: a global array, a local one and a slot, every  *)
(* sequence of two of the statements below between filling the local array *)
(* with the integers read and writing both arrays out.                     *)
(***************************************************************************)

g(e) == Elem("g", e)
k(e) == Elem("k", e)
Zero0 == Lit(0)
One == Lit(1)

MemoryStatements ==
  {Assign(a(Zero0), Add(a(One), x)),
   Assign(g(One), Add(g(Zero0), a(Zero0))),
   Assign(a(x), k(x)),
   Assign(x, Add(g(x), k(Lit(2)))),
   If(Less(x, One), Assign(g(Zero0), a(One))),
   Blk(<<Var0("i"),
         While(Less(i, Lit(2)), Blk(<<Assign(g(i), Add(g(i), a(Zero0))), Count(i)>>))>>),
   Blk(<<Assign(a(One), One), PutInt(a(One)), Assign(a(One), GetInt)>>)}

MemoryPair(s, t) ==
  Unit("main" :> MainFun(
         <<Decl("x", <<>>, GetInt), Decl("a", <<Lit(2)>>, NoInit), Assign(a(Zero0), x),
           Assign(a(One), GetInt), s, t, PutInt(a(Zero0)), PutInt(a(One)),
           PutInt(g(Zero0)), PutInt(g(One)), Return(x)>>),
       <<"main">>,
       <<GlobalArray("g", 2, <<3, 5>>),
         [GlobalArray("k", 3, <<4, 6>>) EXCEPT !.const = TRUE]>>)

MemoryCorpus ==
  {WithInputs(MemoryPair(s, t), {<<0, 9, 2, 3>>, <<1, 4, 1, 6>>}) : s \in MemoryStatements, t \in MemoryStatements}

----------------------------------------------------------------------------
(***************************************************************************)
(* The optimizer across functions: a module of eleven, one of them never     *)
(* called, and every sequence of two of the statements below in main.      *)
(***************************************************************************)

p(e) == Elem("p", e)
q(e) == Elem("q", e)
v == Ref("v")
w == Ref("w")
c == Ref("c")
n == Ref("n")
Copy(to, from) == Do(CallE("copy", <<Ref(to), Ref(from)>>))

\* A straight line to inline; a pure function that is too branchy to be; a
\* recursive one; a truth value; a reader and a writer of memory; one that
\* writes output.
Library ==
  [double |-> Fun(<<Scalar("v")>>, FALSE, <<Return(Times(v, Lit(2)))>>),
   clamp |-> Fun(<<Scalar("v")>>, FALSE,
                 <<If(Less(v, Lit(0)), Return(Lit(0))), Return(Add(v, Lit(1)))>>),
   sum |-> Fun(<<Scalar("v")>>, FALSE,
               <<If(Bin("le", v, Lit(0)), Return(c)),
                 Return(Add(v, Call1("sum", Minus(v, Lit(1)))))>>),
   less |-> Fun(<<Scalar("v"), Scalar("w")>>, FALSE,
                <<IfElse(Less(v, w), Return(Lit(1)), Return(Lit(0)))>>),
   first |-> Fun(<<Array("p")>>, FALSE, <<Return(p(Lit(0)))>>),
   copy |-> Fun(<<Array("p"), Array("q")>>, TRUE,
                <<Assign(p(Lit(0)), q(Lit(1))), Assign(q(Lit(0)), p(Lit(0))), Count(c)>>),
   bump |-> Fun(<<Array("p")>>, TRUE, <<Assign(p(Lit(1)), Add(p(Lit(1)), Lit(1)))>>),
   bumpTwice |-> Fun(<<Array("p")>>, TRUE, <<Do(Call1("bump", Ref("p"))), Do(Call1("bump", Ref("p")))>>),
   show |-> Fun(<<Scalar("v")>>, TRUE, <<PutInt(v), If(v, PutInt(c))>>),
   unused |-> MainFun(<<Return(Call0("unused"))>>)]

CallStatements ==
  {Assign(y, Add(Call1("double", x), Call1("double", Add(x, y)))),
   Assign(x, Minus(Call1("clamp", y), Call1("clamp", y))),
   Assign(a(Lit(1)), Call1("sum", x)),
   Copy("a", "b"),
   Do(Call1("bumpTwice", Ref("a"))),
   Assign(y, Add(a(Lit(0)), Call1("first", Ref("a")))),
   Do(Call1("show", a(Lit(1)))),
   While(Less(Lit(0), x), Assign(x, Minus(x, Call1("clamp", x)))),
   If(CallE("less", <<x, y>>), Assign(x, CallE("less", <<y, Lit(4)>>))),
   \* What this loop does once it does three times.
   Blk(<<Decl("n", <<>>, Lit(3)), Assign(y, Lit(0)),
         While(More(n, Lit(0)),
               Blk(<<Assign(c, Lit(0)), Assign(Ref("d"), Lit(0)), Assign(y, Call1("clamp", x)),
                     CountDown(n)>>))>>)}

CallPair(s, t) ==
  Unit("main" :> MainFun(
         <<Decl("x", <<>>, GetInt), Decl("y", <<>>, GetInt), Decl("a", <<Lit(2)>>, NoInit),
           Assign(a(Lit(0)), x), Assign(a(Lit(1)), y), s, t,
           PutInt(x), PutInt(a(Lit(0))), PutInt(a(Lit(1))), PutInt(c), PutInt(Elem("b", Lit(0))),
           Return(y)>>) @@ Library,
       <<"double", "clamp", "sum", "less", "first", "copy", "bump", "bumpTwice", "show",
         "unused", "main">>,
       <<GlobalArray("b", 2, <<7, 8>>), Global("c", <<>>, Lit(2)), Zeroed("d")>>)

CallCorpus ==
  {WithInputs(CallPair(s, t), {<<0, 3>>, <<2, 1>>, <<-1, 0>>}) : s \in CallStatements, t \in CallStatements}

----------------------------------------------------------------------------
(***************************************************************************)
(* The optimizer, and the builder before it, on statements inside each     *)
(* other: every two of those below, in a loop that counts, under names     *)
(* they hide, with conditions that have effects and jumps out of them.     *)
(***************************************************************************)

h == Ref("h")
Not(e) == Un("not", e)
Neg(e) == Un("neg", e)
And(l, r) == Bin("and", l, r)
Or(l, r) == Bin("or", l, r)
m(d, e) == Sub("m", <<d, e>>)
Tick == Call0("tick")

NestedStatements ==
  {\* A jump out of a condition that is decided in several places.
   If(And(Or(Less(x, y), Equal(y, Lit(0))), Not(Equal(i, Lit(1)))), Continue),
   If(Or(And(Tick, Less(h, Lit(3))), And(x, Tick)), Assign(y, Minus(y, i))),
   \* The inner x is another one; so is the inner y, in a branch.
   Blk(<<Decl("x", <<>>, Add(y, i)), If(x, Blk(<<Decl("y", <<>>, Neg(x)), Assign(x, Add(y, Lit(1)))>>)),
         PutInt(x), Assign(y, Add(y, x))>>),
   \* A loop in the loop, and how it is left.
   While(And(Less(Lit(0), y), Less(y, x)),
         Blk(<<CountDown(y), If(Equal(y, i), Break), PutInt(y)>>)),
   IfElse(Less(x, i), IfElse(Equal(y, x), Return(Lit(7)), Assign(x, y)), If(Not(y), Break)),
   \* A row goes to a function, which adds to a cell of it.
   Blk(<<Do(CallE("add", <<Sub("m", <<i>>), y>>)), Assign(m(Lit(1), Lit(0)), Add(m(i, Lit(1)), x)),
         PutInt(CallE("at", <<Ref("m"), Minus(Lit(2), i), Tick>>))>>)}

NestedLibrary ==
  [tick |-> Fun(<<>>, FALSE, <<Count(h), Return(Minus(h, Lit(2)))>>),
   add |-> Fun(<<Array("p"), Scalar("x")>>, TRUE,
               <<If(Less(x, Lit(0)), ReturnVoid), Assign(Elem("p", Lit(1)), Add(Elem("p", Lit(1)), x))>>),
   at |-> Fun(<<[Array("p") EXCEPT !.inner = <<Lit(2)>>], Scalar("x"), Scalar("y")>>, FALSE,
              <<If(Less(y, Lit(2)), Return(Sub("p", <<x, Lit(0)>>))), Return(Sub("p", <<x, Lit(1)>>))>>)]

Nest(s, t) ==
  Unit("main" :> MainFun(
         <<Decl("x", <<>>, GetInt), Decl("y", <<>>, GetInt), Var0("i"),
           Decl("m", <<Lit(3), Lit(2)>>, Braces(<<x, Lit(2), y>>)),
           While(Less(i, Lit(2)), Blk(<<Count(i), s, t, PutInt(i)>>)),
           PutInt(m(Lit(1), Lit(1))), PutInt(h), Return(Add(x, y))>>) @@ NestedLibrary,
       <<"tick", "add", "at", "main">>, <<Zeroed("h")>>)

NestCorpus ==
  {WithInputs(Nest(s, t), {<<0, 0>>, <<3, 1>>, <<1, 5>>}) : s \in NestedStatements, t \in NestedStatements}

----------------------------------------------------------------------------
MCCorpus == ControlCorpus \cup MemoryCorpus \cup CallCorpus \cup NestCorpus
=============================================================================
