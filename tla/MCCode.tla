-------------------------------- MODULE MCCode --------------------------------
(***************************************************************************)
(* Programs for the code generator, each for some of its alternatives.     *)
(***************************************************************************)
EXTENDS MCPrograms, Backend

Let(name, e) == Decl(name, <<>>, e)
Set(name, e) == Assign(Ref(name), e)
Room(name, size) == Decl(name, <<Lit(size)>>, NoInit)
Scalars(names) == [k \in DOMAIN names |-> Scalar(names[k])]
n == Ref("n")
z == Ref("z")

\* gcd calls itself last, with its parameters exchanged.
GcdProgram ==
  WithInputs(Unit([gcd |-> Fun(Scalars(<<"x", "y">>), FALSE,
                     <<If(Equal(y, Lit(0)), Return(x)),
                       Return(CallE("gcd", <<y, Bin("mod", x, y)>>))>>),
                   main |-> MainFun(<<Return(CallE("gcd", <<GetInt, GetInt>>))>>)],
                  <<"gcd", "main">>, <<>>), {<<12, 18>>, <<7, 0>>})

\* Three variables go round in a loop.
RotateProgram ==
  WithInputs(OnlyMain(
    <<Let("x", GetInt), Let("y", GetInt), Let("z", Lit(1)), Let("i", Lit(0)),
      While(Less(i, GetInt),
        Blk(<<Let("t", x), Set("x", y), Set("y", z), Set("z", Ref("t")), Count(i)>>)),
      PutInt(x), PutInt(y), Return(z)>>), {<<5, 6, 2, 2, 2>>, <<5, 6, 9, 9, 9, 9, 0>>})

\* Nine parameters: the ninth comes, and goes, on the stack; they go round.
NineProgram ==
  LET names == <<"n", "b", "c", "d", "e", "f", "g", "h", "k">>
      Turned == <<Minus(n, Lit(1))>> \o [j \in 1 .. 8 |-> Ref(names[2 + (j % 8)])]
  IN  WithInputs(Unit([nine |-> Fun(Scalars(names), FALSE,
                         <<If(n, Return(CallE("nine", Turned))), PutInt(Ref("b")), PutInt(Ref("k")),
                           Return(Add(Ref("c"), Ref("h")))>>),
                       main |-> MainFun(
                         <<Room("a", 100), Let("x", GetInt), Let("y", GetInt), Assign(a(x), y),
                           Let("z", CallE("nine", <<x, y, Lit(2), Lit(3), a(x), x, Lit(6), Add(x, y), y>>)),
                           Return(CallE("nine", <<z, x, z, y, Lit(4), Times(x, y), z, y, Lit(9)>>))>>)],
                      <<"nine", "main">>, <<>>), {<<2, 5>>, <<0, 1>>})

\* Stores of what is computed, or loaded, for them; far slots.
StoresProgram ==
  WithInputs(OnlyMain(
    <<Room("a", 100), Room("b", 3), Let("x", GetInt), Let("y", GetInt),
      Assign(a(x), Times(x, y)), Assign(a(Add(x, Lit(1))), Minus(Times(x, y), y)),
      Assign(a(Add(y, Lit(2))), Minus(y, Times(a(x), Lit(3)))), Assign(a(Lit(9)), a(x)),
      Assign(Elem("b", Minus(y, Lit(1))), a(Add(x, Lit(1)))), Assign(Elem("b", Lit(0)), Less(Lit(3), x)),
      Assign(Elem("b", Lit(2)), Un("not", Elem("b", Lit(0)))),
      PutInt(a(x)), PutInt(a(Add(x, Lit(1)))), PutInt(a(Add(y, Lit(2)))), PutInt(a(Lit(9))),
      PutInt(Elem("b", Lit(2))), PutInt(Elem("b", Minus(y, Lit(1)))),
      Return(Add(Times(x, y), Times(y, Add(x, y))))>>), {<<5, 2>>, <<1, 2>>})

\* Rows and columns, and a row handed to a function that is inlined.
MatrixProgram ==
  LET m(d, e) == Sub("m", <<d, e>>)
  IN  WithInputs(Unit(
    [entry |-> Fun(<<Array("p"), Scalar("x")>>, FALSE, <<Return(Elem("p", x))>>),
     enter |-> Fun(<<Array("p"), Scalar("x"), Scalar("y")>>, TRUE, <<Assign(Elem("p", x), y)>>),
     main |-> MainFun(
       <<Let("x", GetInt), Let("y", GetInt), Let("i", Lit(0)),
         While(Less(i, Lit(3)),
           Blk(<<Assign(m(i, x), Add(Times(i, Lit(3)), y)), Assign(m(x, i), Minus(m(i, x), i)), Count(i)>>)),
         Do(CallE("enter", <<Sub("m", <<y>>), x, Lit(7)>>)),
         PutInt(CallE("entry", <<Sub("m", <<x>>), y>>)), PutInt(m(y, x)),
         Return(Sub("m", <<x, Minus(Lit(2), y)>>))>>)],
    <<"entry", "enter", "main">>, <<Global("m", <<Lit(3), Lit(3)>>, NoInit)>>),
    {<<1, 2>>, <<0, 0>>})

\* Tests of every kind, decided both ways; both edges of a branch copy.
TestsProgram ==
  WithInputs(OnlyMain(
    <<Let("x", GetInt), Let("y", GetInt), Let("i", Lit(0)), Let("t", Less(x, y)),
      While(Bin("and", Less(i, Lit(4)), Un("not", Equal(x, Lit(6)))),
        Blk(<<IfElse(Less(Lit(2), x), Set("y", Add(y, x)), Set("x", Add(x, Lit(1)))),
              If(Un("not", Minus(y, i)), Break), If(Ref("t"), Set("t", Bin("ge", x, y))),
              IfElse(Bin("le", y, x), Blk(<<Set("t", x), Set("x", y), Set("y", Ref("t"))>>), Set("i", Add(i, Lit(1)))),
              Count(i)>>)),
      PutInt(x), PutInt(y), PutInt(Ref("t")), Return(Un("neg", i))>>),
    {<<0, 0>>, <<1, 3>>, <<3, 1>>, <<5, 6>>})

\* A choice between two scalars, a function that is called, one called last,
\* one that ends in a call of itself and returns nothing.
CallsProgram ==
  WithInputs(Unit(
    [larger |-> Fun(Scalars(<<"x", "y">>), FALSE, <<If(Less(x, y), Return(y)), Return(x)>>),
     sign |-> Fun(Scalars(<<"x">>), FALSE, <<If(Less(Lit(0), x), Return(Lit(1))), Return(x)>>),
     sum |-> Fun(Scalars(<<"n">>), FALSE,
                 <<If(Bin("le", n, Lit(0)), Return(Lit(0))), Return(Add(n, Call1("sum", Minus(n, Lit(1)))))>>),
     down |-> Fun(Scalars(<<"n">>), TRUE,
                  <<If(n, Blk(<<PutInt(n), Do(Call1("down", Minus(n, Lit(1)))), ReturnVoid>>))>>),
     main |-> MainFun(
       <<Let("x", GetInt), Let("y", GetInt), PutInt(CallE("larger", <<x, y>>)),
         PutInt(CallE("larger", <<Lit(3), Call1("sign", y)>>)), Do(Call1("down", x)),
         If(Less(x, y), Return(CallE("larger", <<y, Lit(0)>>))), Return(Call1("sum", Add(x, y)))>>)],
    <<"larger", "sign", "sum", "down", "main">>, <<>>), {<<2, 1>>, <<0, 4>>})

\* Arrays handed on, and exchanged, by a function that calls itself last.
FoldProgram ==
  WithInputs(Unit(
    [fold |-> Fun(<<Array("p"), Array("q"), Scalar("n"), Scalar("x")>>, FALSE,
                  <<If(Bin("le", n, Lit(0)), Return(Add(x, Elem("p", Lit(0))))),
                    Return(CallE("fold", <<Ref("q"), Ref("p"), Minus(n, Lit(1)),
                                           Add(x, Elem("p", Minus(n, Lit(1))))>>))>>),
     main |-> MainFun(
       <<Decl("a", <<Lit(3)>>, Braces(<<Lit(1), GetInt>>)), Let("x", GetInt), Assign(Elem("b", x), x),
         Return(CallE("fold", <<Ref("a"), Ref("b"), Lit(3), x>>))>>)],
    <<"fold", "main">>, <<GlobalArray("b", 3, <<4, 5, 6>>)>>), {<<7, 1>>})

\* A frame so large that a slot in its middle is out of reach of both
\* pointers.
LargeProgram ==
  LET rooms == <<"b", "c", "d", "e", "f">>
  IN  WithInputs(OnlyMain(
        <<Room("a", 100), Let("x", GetInt), Let("y", GetInt), Assign(a(x), y)>>
        \o [k \in DOMAIN rooms |-> Room(rooms[k], 999)]
        \o [k \in DOMAIN rooms |-> Assign(Elem(rooms[k], Add(x, Lit(k))), Add(x, y))]
        \o <<While(x, Blk(<<Let("t", x), Set("x", Minus(y, Lit(1))), Set("y", Ref("t")),
                            PutInt(Elem("f", Lit(6)))>>)),
             Return(a(Lit(1)))>>), {<<1, 3>>})

\* Constants that fit an instruction and constants that do not; products,
\* quotients and remainders there are shorter instructions for, and others.
ConstantsProgram ==
  LET Each(op, ks) == [k \in DOMAIN ks |-> PutInt(Bin(op, x, Lit(ks[k])))]
  IN  WithInputs(OnlyMain(
        <<Let("x", GetInt)>>
        \o Each("add", <<4095, 5000, 8192>>) \o Each("sub", <<7, 4097>>)
        \o Each("mul", <<0, 3, 7, 9, 10, 11, 64>>) \o <<PutInt(Times(Lit(-5), x)), PutInt(Times(x, Un("neg", Lit(4))))>>
        \o Each("div", <<1, 3, 5, 7, 8, 100, -3, -8, -50>>)
        \o Each("mod", <<1, 3, 7, 8, 97, -8, -97>>)
        \o Each("lt", <<4096, 4097>>) \o Each("ge", <<-4, -5000>>)
        \o <<PutInt(Less(Lit(6), x)), If(Less(x, Lit(-9)), PutInt(Lit(1))), If(Less(x, Lit(9999)), PutInt(Lit(2))),
             If(Less(Lit(-9999), x), PutInt(Lit(3))), If(Less(Lit(20), x), PutInt(Lit(4))), Return(Minus(Lit(3), x))>>),
      {<<-1000>>, <<7>>, <<9999>>, <<-30001>>})

\* Values that are never negative: they count, add up what is read from a
\* table of digits, and are shortened by division.
LengthsProgram ==
  WithInputs(Unit(
    [half |-> Fun(Scalars(<<"n", "x">>), FALSE,
                  <<If(Equal(n, Lit(1)), Return(x)), Return(CallE("half", <<Bin("div", n, Lit(2)), Add(x, Bin("mod", n, Lit(2)))>>))>>),
     main |-> MainFun(
       <<Let("x", GetInt), Let("y", GetInt), Let("i", Lit(0)), Let("t", Lit(1)),
         While(Less(i, Lit(3)),
           Blk(<<PutInt(Bin("div", i, Lit(2))), PutInt(Bin("mod", Ref("t"), Lit(8))), PutInt(Bin("div", Ref("t"), Lit(10))),
                 PutInt(Bin("mod", Ref("t"), Lit(17))), PutInt(Bin("mod", Ref("t"), Lit(1000))), PutInt(Bin("mod", y, Lit(16))),
                 Set("t", Add(Times(Ref("t"), Lit(19)), i)), Set("y", Minus(y, Ref("t"))),
                 If(Less(y, Lit(-100)), Set("y", Add(y, Lit(31)))), Count(i)>>)),
         Return(CallE("half", <<x, y>>))>>)], <<"half", "main">>, <<>>), {<<13, 5>>, <<1, -5>>})

\* Bit by bit: both, either, one of them; all of them turned; moved by up to eight places.
BitsProgram ==
  LET b == Ref("b")
      Odd(e) == Bin("mod", e, Lit(2))
      One(e) == Equal(Odd(e), Lit(1))
      Halve(name) == Set(name, Bin("div", Ref(name), Lit(2)))
      Bitwise(test) ==
        Fun(Scalars(<<"x", "b">>), FALSE,
            <<Let("n", Lit(32)), Let("z", Lit(0)), Let("t", Lit(1)),
              While(Less(Lit(0), n),
                Blk(<<If(test, Set("z", Add(z, Ref("t")))), Halve("x"), Halve("b"),
                      Set("t", Times(Ref("t"), Lit(2))), Set("n", Minus(n, Lit(1)))>>)),
              Return(z)>>)
      Moved(op) ==
        Fun(Scalars(<<"x", "n">>), FALSE,
            [k \in 1 .. 8 |-> If(Equal(n, Lit(k)), Return(Bin(op, x, Lit(2 ^ k))))] \o <<Return(x)>>)
      Of(f, e, d) == CallE(f, <<e, d>>)
  IN  WithInputs(Unit(
        [both |-> Bitwise(Bin("and", One(x), One(b))), either |-> Bitwise(Bin("or", One(x), One(b))),
         one |-> Bitwise(Bin("ne", Odd(x), Odd(b))),
         turned |-> Fun(Scalars(<<"x">>), FALSE, <<If(Equal(x, Lit(0)), Return(Lit(-1))), Return(Minus(Lit(-1), x))>>),
         up |-> Moved("mul"), down |-> Moved("div"),
         main |-> MainFun(
           <<Let("x", GetInt), Let("y", GetInt), PutInt(Of("both", x, y)), PutInt(Of("either", x, y)),
             PutInt(Of("both", Of("one", x, y), Lit(7))), PutInt(Call1("turned", y)),
             PutInt(Add(Of("up", x, Lit(3)), Of("up", y, a(x)))), PutInt(a(Of("down", y, x))),
             PutInt(Ref("b")), Return(Of("down", y, Lit(1)))>>)],
        <<"both", "either", "one", "turned", "up", "down", "main">>,
        <<Zeroed("b"), GlobalArray("a", 12, <<0, 0, 5, 0, -3, 0, 9>>)>>), {<<6, 13>>, <<2, 0>>})

CodeCorpus == {BitsProgram, GcdProgram, RotateProgram, NineProgram, StoresProgram, MatrixProgram, TestsProgram,
               CallsProgram, FoldProgram, LargeProgram, ConstantsProgram, LengthsProgram}

----------------------------------------------------------------------------
(* Programs of which the code generator makes others.  Each is the shortest *)
(* found that shows it; a run takes one of them as its corpus.             *)

Only(unit, in) == {WithInputs(unit, {in})}

\* The array b of one call is the argument of the next one, whose own b is
\* in the same place.
SharedFrame ==
  Only(Unit([pass |-> Fun(<<Array("p"), Scalar("n")>>, FALSE,
                          <<Room("b", 1), Assign(Elem("b", Lit(0)), n),
                            If(Equal(n, Lit(0)), Return(Elem("p", Lit(0)))),
                            Return(CallE("pass", <<Ref("b"), Minus(n, Lit(1))>>))>>),
             main |-> MainFun(<<Room("c", 1), Assign(Elem("c", Lit(0)), Lit(7)),
                                Return(CallE("pass", <<Ref("c"), GetInt>>))>>)],
            <<"pass", "main">>, <<>>), <<3>>)

\* A quotient waits in its slot for a sum whose product is loaded over it,
\* two words at a time: p * q and the slot's neighbour.
OverwrittenPair ==
  Only(OnlyMain(<<Room("a", 100), Let("p", GetInt), Let("q", GetInt), Let("x", GetInt), Let("y", GetInt),
                  Assign(a(x), y), Let("t", Bin("div", x, y)),
                  PutInt(Add(Ref("t"), Times(Ref("p"), Ref("q")))), PutInt(a(Ref("p"))), Return(Lit(0))>>),
       <<4, 5, 4, 2>>)
===============================================================================
