-------------------------------- MODULE Sema --------------------------------
(***************************************************************************)
(* Semantic analysis (src/src/frontend/sema.cpp, symbol.cpp, type.cpp): the*)
(* recursive walk over the syntax tree, one action per node it enters or   *)
(* leaves, with the scopes, the loop depth and the function at hand.  The  *)
(* tree is not fixed beforehand: what the walk meets next is any piece that*)
(* the grammar allows there, so that a behaviour is the analysis of one    *)
(* program, and the pieces met so far are kept in text.                    *)
(***************************************************************************)
EXTENDS Integers, Sequences, FiniteSets

CONSTANTS
  Exprs,   \* expression trees, with every expression its own subtrees
  Kits     \* kinds of program: name -> what one is made of [prelude, pieces, size, faults]

Parts(e) ==
  CASE e.k = "un" -> {e.e}
    [] e.k = "bin" -> {e.l, e.r}
    [] e.k = "elem" -> {e.base, e.idx}
    [] e.k = "call" -> {e.args[i] : i \in DOMAIN e.args}
    [] OTHER -> {}

ASSUME ExprsAssumption == \A e \in Exprs : Parts(e) \subseteq Exprs
\* Bounds: no piece is met when size pieces have been met or left, or when more
\* than faults errors have been reported.
ASSUME KitsAssumption ==
  \A kt \in DOMAIN Kits :
    /\ DOMAIN Kits[kt] = {"prelude", "pieces", "size", "faults"}
    /\ Kits[kt].size \in Nat /\ Kits[kt].faults \in Nat
    /\ Kits[kt].prelude \in Seq({Kits[kt].prelude[i] : i \in DOMAIN Kits[kt].prelude})

Pieces(kt) == Kits[kt].pieces \cup {Kits[kt].prelude[i] : i \in DOMAIN Kits[kt].prelude}
ASSUME PiecesAssumption ==
  \A kt \in DOMAIN Kits : \A p \in Pieces(kt) :
    p.k = "function" => p.ret \in {"void", "int", "float"}

VARIABLES
  kit,        \* the kind of this program
  text,       \* the pieces met so far
  scopes,     \* from the global scope to current_: name -> symbol
  nest,       \* the nodes that are entered and not left, innermost last
  loopDepth,  \* loopDepth_
  current,    \* return type of currentFunction_, or NoFunction
  errors,     \* errors_, as pairs of a position in text and what is wrong
  phase       \* "walk", then "done"

vars == <<kit, text, scopes, nest, loopDepth, current, errors, phase>>

----------------------------------------------------------------------------
(* Types (type.cpp).                                                       *)

Simple(kind) == [kind |-> kind]
IntT == Simple("int")
FloatT == Simple("float")
ErrorT == Simple("error")
ArrayT(elem, dims) == [kind |-> "array", elem |-> elem, dims |-> dims]
FunctionT(ret, params, variadic) ==
  [kind |-> "function", ret |-> ret, params |-> params, variadic |-> variadic]

IsNumeric(t) == t.kind \in {"int", "float"}
IsError(t) == t.kind = "error"

SameType(l, r) ==
  \/ l = r
  \/ {l.kind, r.kind} = {"function"} /\ <<l.ret, l.params>> = <<r.ret, r.params>>

\* Mutation: arrays of one element type are all alike.
CanConvertLoosely(from, to) ==
  \/ IsError(from) \/ IsError(to)
  \/ SameType(from, to)
  \/ {from.kind, to.kind} = {"array"} /\ from.elem = to.elem
  \/ IsNumeric(from) /\ IsNumeric(to)
\* A dimension of -1, the open one of a parameter, takes any.
CanConvert(from, to) ==
  \/ IsError(from) \/ IsError(to)
  \/ SameType(from, to)
  \/ /\ from.kind = "array" /\ to.kind = "array"
     /\ from.elem = to.elem
     /\ Len(from.dims) >= Len(to.dims)
     /\ \A i \in DOMAIN to.dims : to.dims[i] < 0 \/ from.dims[i] = to.dims[i]
  \/ IsNumeric(from) /\ IsNumeric(to)

ResultNumericType(l, r) ==
  IF ~ (IsNumeric(l) /\ IsNumeric(r)) THEN ErrorT
  ELSE IF FloatT \in {l, r} THEN FloatT ELSE IntT

----------------------------------------------------------------------------
(* Symbols and scopes (symbol.cpp).                                        *)

Symbol(kind, type, value, at) ==
  [kind |-> kind, type |-> type, value |-> value, at |-> at]

\* Constants are fractions: n / d, with d = 1 in an int.
Value(kind, n, d) == [kind |-> kind, n |-> n, d |-> d]
IntValue(n) == Value("int", n, 1)
NoValue == Value("none", 0, 1)

NoSymbol == Symbol("none", ErrorT, NoValue, 0)

\* Mutation: the outermost declaration is taken.
LookupOutermost(sc, x) ==
  LET having == {i \in DOMAIN sc : x \in DOMAIN sc[i]}
  IN  IF having = {} THEN NoSymbol
      ELSE sc[CHOOSE i \in having : \A j \in having : j >= i][x]
LookupSymbol(sc, x) ==
  LET having == {i \in DOMAIN sc : x \in DOMAIN sc[i]}
  IN  IF having = {} THEN NoSymbol
      ELSE sc[CHOOSE i \in having : \A j \in having : j <= i][x]

InCurrent(sc, x) == x \in DOMAIN sc[Len(sc)]
Insert(sc, x, sym) ==
  [sc EXCEPT ![Len(sc)] =
     [y \in DOMAIN sc[Len(sc)] \cup {x} |-> IF y = x THEN sym ELSE sc[Len(sc)][y]]]

IntArray == ArrayT("int", <<-1>>)
FloatArray == ArrayT("float", <<-1>>)
Routine(ret, params) == Symbol("func", FunctionT(ret, params, FALSE), NoValue, 0)

\* installRuntime.
Runtime ==
  [getint |-> Routine("int", <<>>), getch |-> Routine("int", <<>>),
   getfloat |-> Routine("float", <<>>),
   getarray |-> Routine("int", <<IntArray>>), getfarray |-> Routine("int", <<FloatArray>>),
   putint |-> Routine("void", <<IntT>>), putch |-> Routine("void", <<IntT>>),
   putfloat |-> Routine("void", <<FloatT>>),
   putarray |-> Routine("void", <<IntT, IntArray>>),
   putfarray |-> Routine("void", <<IntT, FloatArray>>),
   putf |-> Symbol("func", FunctionT("void", <<Simple("string")>>, TRUE), NoValue, 0),
   starttime |-> Routine("void", <<>>), stoptime |-> Routine("void", <<>>)]

----------------------------------------------------------------------------
(* Constant expressions (evalConstExpr).                                   *)

Quotient(n, d) ==
  LET Abs(x) == IF x < 0 THEN -x ELSE x
      q == Abs(n) \div Abs(d)
  IN  IF (n < 0) = (d < 0) THEN q ELSE -q
Truncated(v) == Quotient(v.n, v.d)
Truth(b) == IntValue(IF b THEN 1 ELSE 0)

ConstUnary(op, v) ==
  CASE v.kind = "none" \/ op = "plus" -> v
    [] v.kind # "none" /\ op = "neg" -> [v EXCEPT !.n = -@]
    [] v.kind # "none" /\ op = "not" -> Truth(v.n = 0)

Less(l, r) == l.n * r.d < r.n * l.d
Same(l, r) == l.n * r.d = r.n * l.d
\* Mutation: ints are divided downwards.
DividedDown(kind, l, r) ==
  CASE r.n = 0 -> NoValue
    [] r.n # 0 /\ kind = "int" -> IntValue((l.n - (l.n % r.n)) \div r.n)
    [] r.n # 0 /\ kind = "float" -> Value("float", l.n * r.d, l.d * r.n)
Divided(kind, l, r) ==
  CASE r.n = 0 -> NoValue
    [] r.n # 0 /\ kind = "int" -> IntValue(Quotient(l.n, r.n))
    [] r.n > 0 /\ kind = "float" -> Value("float", l.n * r.d, l.d * r.n)
    [] r.n < 0 /\ kind = "float" -> Value("float", -(l.n * r.d), l.d * (-r.n))
Remainder(l, r) ==
  IF r = 0 THEN NoValue ELSE IntValue(l - Quotient(l, r) * r)
Calculated(kind, op, l, r) ==
  CASE op = "add" -> Value(kind, l.n * r.d + r.n * l.d, l.d * r.d)
    [] op = "sub" -> Value(kind, l.n * r.d - r.n * l.d, l.d * r.d)
    [] op = "mul" -> Value(kind, l.n * r.n, l.d * r.d)
    [] op = "div" -> Divided(kind, l, r)
    [] op = "mod" -> Remainder(Truncated(l), Truncated(r))
    [] op = "lt" -> Truth(Less(l, r)) [] op = "gt" -> Truth(Less(r, l))
    [] op = "le" -> Truth(~ Less(r, l)) [] op = "ge" -> Truth(~ Less(l, r))
    [] op = "eq" -> Truth(Same(l, r)) [] op = "ne" -> Truth(~ Same(l, r))
    [] op = "and" -> Truth(l.n # 0 /\ r.n # 0)
    [] op = "or" -> Truth(l.n # 0 \/ r.n # 0)
ConstBinary(op, l, r) ==
  IF "none" \in {l.kind, r.kind} THEN NoValue
  ELSE Calculated(IF "float" \in {l.kind, r.kind} THEN "float" ELSE "int", op, l, r)

\* Only a Const symbol holds a value; a name that is none is no constant.
EvalConstExpr(sc) ==
  LET value[e \in Exprs] ==
        CASE e.k = "lit" -> IntValue(e.n)
          [] e.k = "flit" -> Value("float", e.n, e.d)
          [] e.k = "un" -> ConstUnary(e.op, value[e.e])
          [] e.k = "bin" -> ConstBinary(e.op, value[e.l], value[e.r])
          [] e.k = "ref" -> LookupSymbol(sc, e.x).value
          [] OTHER -> NoValue
  IN  value

BadDimension(v) == v.kind # "int" \/ v.n < 0
Dimension(v) == IF BadDimension(v) THEN 1 ELSE v.n

----------------------------------------------------------------------------
(* Expressions (analyzeExpr): a type, and what is wrong with them.         *)

Typed(type, wrong) == [type |-> type, wrong |-> wrong]
Wrong(what, cond) == IF cond THEN {what} ELSE {}

\* An operand that is an error has been reported and is not reported again.
OfUnary(op, r) ==
  Typed(IF op = "not" THEN IntT ELSE r.type,
        r.wrong \cup Wrong("operand", ~ IsNumeric(r.type) /\ ~ IsError(r.type)))

BinaryType(op, l, r) ==
  IF op \in {"add", "sub", "mul", "div"} THEN ResultNumericType(l, r) ELSE IntT
Suits(op, t) == IF op = "mod" THEN t = IntT ELSE IsNumeric(t)
OfBinary(op, l, r) ==
  Typed(BinaryType(op, l.type, r.type),
        l.wrong \cup r.wrong
          \cup Wrong("operands", /\ ~ (Suits(op, l.type) /\ Suits(op, r.type))
                                 /\ ~ IsError(l.type) /\ ~ IsError(r.type)))

\* arrayElementAfterSubscript.
ElementType(t) ==
  CASE t.kind # "array" -> ErrorT
    [] t.kind = "array" /\ Len(t.dims) <= 1 ->
         IF t.elem = "float" THEN FloatT ELSE IntT
    [] t.kind = "array" /\ Len(t.dims) > 1 -> ArrayT(t.elem, Tail(t.dims))
OfElement(b, i) ==
  Typed(ElementType(b.type),
        b.wrong \cup i.wrong
          \cup Wrong("subscript", i.type.kind # "int" /\ ~ IsError(i.type))
          \cup Wrong("not an array", b.type.kind # "array"))

WrongCount(f, n) == IF f.variadic THEN n < Len(f.params) ELSE n # Len(f.params)
OfCall(sym, args) ==
  CASE sym.kind = "none" ->
         Typed(ErrorT, {"undeclared"} \cup UNION {args[i].wrong : i \in DOMAIN args})
    [] sym.kind \notin {"none", "func"} -> Typed(ErrorT, {"not a function"})
    [] sym.kind = "func" ->
         Typed(Simple(sym.type.ret),
               UNION {args[i].wrong : i \in DOMAIN args}
                 \cup Wrong("arguments", WrongCount(sym.type, Len(args)))
                 \cup Wrong("argument",
                        \E i \in DOMAIN args \cap DOMAIN sym.type.params :
                          ~ CanConvert(args[i].type, sym.type.params[i])))

AnalyzeExpr(sc) ==
  LET typed[e \in Exprs] ==
        CASE e.k = "lit" -> Typed(IntT, {})
          [] e.k = "flit" -> Typed(FloatT, {})
          [] e.k = "string" -> Typed(Simple("string"), {})
          [] e.k = "ref" -> Typed(LookupSymbol(sc, e.x).type,
                                  Wrong("undeclared", LookupSymbol(sc, e.x) = NoSymbol))
          [] e.k = "elem" -> OfElement(typed[e.base], typed[e.idx])
          [] e.k = "call" -> OfCall(LookupSymbol(sc, e.f), [i \in DOMAIN e.args |-> typed[e.args[i]]])
          [] e.k = "un" -> OfUnary(e.op, typed[e.e])
          [] e.k = "bin" -> OfBinary(e.op, typed[e.l], typed[e.r])
  IN  typed

\* analyzeLValue: a name must not be a constant; an element is an expression.
AnalyzeLValue(sc, e) ==
  IF e.k = "ref"
  THEN Typed(LookupSymbol(sc, e.x).type,
             Wrong("undeclared", LookupSymbol(sc, e.x) = NoSymbol)
               \cup Wrong("constant", LookupSymbol(sc, e.x).kind = "const"))
  ELSE AnalyzeExpr(sc)[e]

----------------------------------------------------------------------------
(* The walk.                                                               *)

NoFunction == Simple("none")

\* A node that is entered: state is "open" while its part is to come, "ended"
\* when that is over, "closed" when it ends with an if no else may follow.
Node(k) == [k |-> k, state |-> "open"]
Innermost == nest[Len(nest)]
Outer == SubSeq(nest, 1, Len(nest) - 1)

\* A statement has ended inside these nodes: a block goes on, others are over.
Ended(nodes, state) ==
  IF nodes = <<>> \/ nodes[Len(nodes)].k = "block" THEN nodes
  ELSE [nodes EXCEPT ![Len(nodes)].state = state]

AtTop == nest = <<>>
InBlock == nest # <<>> /\ Innermost.k = "block"
\* A statement may come in a block or as the part of an if or while.
AtStatement == InBlock \/ (nest # <<>> /\ Innermost.k \in {"then", "else", "loop"}
                                       /\ Innermost.state = "open")
Over(k) == nest # <<>> /\ Innermost.k = k /\ Innermost.state # "open"

Offered == IF Len(text) < Len(Kits[kit].prelude) THEN {Kits[kit].prelude[Len(text) + 1]}
           ELSE Kits[kit].pieces
Meets(p) ==
  /\ phase = "walk"
  /\ Len(text) < Kits[kit].size /\ Cardinality(errors) <= Kits[kit].faults
  /\ text' = Append(text, p)
  /\ UNCHANGED <<kit, phase>>
Leaves(k) ==
  /\ phase = "walk"
  /\ Len(text) < Len(Kits[kit].prelude) => Kits[kit].prelude[Len(text) + 1].k = k
  /\ text' = Append(text, [k |-> k])
  /\ UNCHANGED <<kit, phase>>
Report(wrong) == errors' = errors \cup {<<Len(text) + 1, w>> : w \in wrong}

\* analyzeVarDecl, for one of its definitions.  The initialiser's value is
\* taken before the name is declared, its type after; lists are not looked at.
ConstantFor(spec, v) ==
  CASE v.kind = "none" -> v
    [] v.kind # "none" /\ spec = "float" -> Value("float", v.n, v.d)
    [] v.kind # "none" /\ spec = "int" -> IntValue(Truncated(v))
AnalyzeVarDecl(p) ==
  LET value == EvalConstExpr(scopes)
      dims == [i \in DOMAIN p.dims |-> Dimension(value[p.dims[i]])]
      type == IF dims = <<>> THEN Simple(p.type) ELSE ArrayT(p.type, dims)
      given == p.init \in Exprs
      initial == IF given THEN value[p.init] ELSE NoValue
      kept == IF p.const /\ dims = <<>> THEN ConstantFor(p.type, initial) ELSE NoValue
      again == InCurrent(scopes, p.x)
      declared == IF again THEN scopes
                  ELSE Insert(scopes, p.x, Symbol(IF p.const THEN "const" ELSE "var",
                                                  type, kept, Len(text) + 1))
      init == IF given THEN AnalyzeExpr(declared)[p.init] ELSE Typed(type, {})
  IN  /\ AtTop \/ InBlock
      /\ Meets(p)
      /\ scopes' = declared
      /\ Report(Wrong("dimension", \E i \in DOMAIN dims : BadDimension(value[p.dims[i]]))
                \cup Wrong("redefinition", again)
                \cup Wrong("no initialiser", p.const /\ p.init.k = "none")
                \cup init.wrong
                \cup Wrong("initialiser", IF dims = <<>> THEN ~ CanConvert(init.type, type)
                                          ELSE given)
                \cup Wrong("not constant", AtTop /\ given /\ initial = NoValue))
      /\ UNCHANGED <<nest, loopDepth, current>>

\* analyzeFuncDef: of a function that is declared already nothing is looked at.
ParamType(value, par) ==
  IF par.array THEN ArrayT(par.type, <<-1>> \o [i \in DOMAIN par.dims |-> Dimension(value[par.dims[i]])])
  ELSE Simple(par.type)
ParamScope(p, types) ==
  [x \in {p.params[i].x : i \in DOMAIN p.params} |->
     Symbol("param",
            types[CHOOSE i \in DOMAIN p.params :
                    p.params[i].x = x /\ \A j \in 1 .. i - 1 : p.params[j].x # x],
            NoValue, Len(text) + 1)]
AnalyzeFuncDef(p) ==
  LET value == EvalConstExpr(scopes)
      types == [i \in DOMAIN p.params |-> ParamType(value, p.params[i])]
      sym == Symbol("func", FunctionT(p.ret, types, FALSE), NoValue, Len(text) + 1)
  IN  /\ AtTop
      /\ Meets(p)
      /\ IF InCurrent(scopes, p.x)
         THEN /\ Report({"redefinition"})
              /\ UNCHANGED <<scopes, nest, current>>
         ELSE /\ scopes' = Append(Insert(scopes, p.x, sym), ParamScope(p, types))
              /\ Report(Wrong("parameter", \E i, j \in DOMAIN p.params :
                                             i # j /\ p.params[i].x = p.params[j].x)
                        \cup Wrong("dimension",
                               \E i \in DOMAIN p.params : \E n \in DOMAIN p.params[i].dims :
                                 BadDimension(value[p.params[i].dims[n]])))
              /\ nest' = <<Node("function")>>
              /\ current' = Simple(p.ret)
      /\ UNCHANGED loopDepth
\* Mutation: currentFunction_ is not set back.
LeaveFunctionSomewhat ==
  /\ Over("function")
  /\ Leaves("end function")
  /\ scopes' = SubSeq(scopes, 1, Len(scopes) - 1)
  /\ nest' = <<>>
  /\ UNCHANGED <<loopDepth, current, errors>>
LeaveFunction ==
  /\ Over("function")
  /\ Leaves("end function")
  /\ scopes' = SubSeq(scopes, 1, Len(scopes) - 1)
  /\ nest' = <<>>
  /\ current' = NoFunction
  /\ UNCHANGED <<loopDepth, errors>>

\* analyzeBlock.
EnterBlock(p) ==
  /\ AtStatement \/ (nest # <<>> /\ Innermost = Node("function"))
  /\ Meets(p)
  /\ scopes' = Append(scopes, <<>>)
  /\ nest' = Append(nest, Node("block"))
  /\ UNCHANGED <<loopDepth, current, errors>>
LeaveBlock ==
  /\ InBlock
  /\ Leaves("}")
  /\ scopes' = SubSeq(scopes, 1, Len(scopes) - 1)
  /\ nest' = Ended(Outer, "ended")
  /\ UNCHANGED <<loopDepth, current, errors>>

\* analyzeStmt.
Says(p, wrong) ==
  /\ AtStatement
  /\ Meets(p)
  /\ Report(wrong)
  /\ nest' = Ended(nest, "ended")
  /\ UNCHANGED <<scopes, loopDepth, current>>

AnalyzeExprStmt(p) ==
  Says(p, IF p.e \in Exprs THEN AnalyzeExpr(scopes)[p.e].wrong ELSE {})
AnalyzeAssign(p) ==
  LET target == AnalyzeLValue(scopes, p.l)
      value == AnalyzeExpr(scopes)[p.e]
  IN  Says(p, target.wrong \cup value.wrong
                \cup Wrong("assignment", ~ CanConvert(value.type, target.type)))
AnalyzeJump(p) == Says(p, Wrong("outside a loop", loopDepth = 0))
\* What a function without a result returns is not looked at.
AnalyzeReturn(p) ==
  Says(p, CASE current.kind = "void" -> Wrong("result", p.e \in Exprs)
            [] current.kind # "void" /\ p.e \notin Exprs -> {"no result"}
            [] current.kind # "void" /\ p.e \in Exprs ->
                 LET r == AnalyzeExpr(scopes)[p.e]
                 IN  r.wrong \cup Wrong("result", ~ CanConvert(r.type, current)))

EnterIf(p) ==
  /\ AtStatement
  /\ Meets(p)
  /\ Report(AnalyzeExpr(scopes)[p.e].wrong)
  /\ nest' = Append(nest, Node("then"))
  /\ UNCHANGED <<scopes, loopDepth, current>>
EnterElse(p) ==
  /\ nest # <<>> /\ Innermost.k = "then" /\ Innermost.state = "ended"
  /\ Meets(p)
  /\ nest' = Append(Outer, Node("else"))
  /\ UNCHANGED <<scopes, loopDepth, current, errors>>
\* Mutation: the end of an if counts as the end of a loop.
LeaveIfLikeLoop ==
  /\ Over("then") \/ Over("else")
  /\ Leaves("end if")
  /\ loopDepth' = loopDepth - 1
  /\ nest' = Ended(Outer, IF Innermost.k = "then" THEN "closed" ELSE Innermost.state)
  /\ UNCHANGED <<scopes, current, errors>>
LeaveIf ==
  /\ Over("then") \/ Over("else")
  /\ Leaves("end if")
  /\ nest' = Ended(Outer, IF Innermost.k = "then" THEN "closed" ELSE Innermost.state)
  /\ UNCHANGED <<scopes, loopDepth, current, errors>>

EnterWhile(p) ==
  /\ AtStatement
  /\ Meets(p)
  /\ Report(AnalyzeExpr(scopes)[p.e].wrong)
  /\ loopDepth' = loopDepth + 1
  /\ nest' = Append(nest, Node("loop"))
  /\ UNCHANGED <<scopes, current>>
LeaveWhile ==
  /\ Over("loop")
  /\ Leaves("end while")
  /\ loopDepth' = loopDepth - 1
  /\ nest' = Ended(Outer, Innermost.state)
  /\ UNCHANGED <<scopes, current, errors>>

\* checkMainExists, when all declarations have been analysed.
MainExists ==
  /\ "main" \in DOMAIN scopes[1]
  /\ scopes[1]["main"].kind = "func"
  /\ scopes[1]["main"].type.ret = "int"
  /\ scopes[1]["main"].type.params = <<>>
CheckMainExists ==
  /\ phase = "walk" /\ AtTop /\ text # <<>>
  /\ Report(Wrong("main", ~ MainExists))
  /\ phase' = "done"
  /\ UNCHANGED <<kit, text, scopes, nest, loopDepth, current>>

----------------------------------------------------------------------------
Init ==
  /\ kit \in DOMAIN Kits
  /\ text = <<>>
  /\ scopes = <<Runtime>>
  /\ nest = <<>>
  /\ loopDepth = 0
  /\ current = NoFunction
  /\ errors = {}
  /\ phase = "walk"

Enter(p) ==
  CASE p.k = "var" -> AnalyzeVarDecl(p)
    [] p.k = "function" -> AnalyzeFuncDef(p)
    [] p.k = "{" -> EnterBlock(p)
    [] p.k = "expr" -> AnalyzeExprStmt(p)
    [] p.k = "assign" -> AnalyzeAssign(p)
    [] p.k = "jump" -> AnalyzeJump(p)
    [] p.k = "return" -> AnalyzeReturn(p)
    [] p.k = "if" -> EnterIf(p)
    [] p.k = "else" -> EnterElse(p)
    [] p.k = "while" -> EnterWhile(p)
    [] OTHER -> FALSE
Leave == LeaveFunction \/ LeaveBlock \/ LeaveIf \/ LeaveWhile

Next == (\E p \in Offered : Enter(p)) \/ Leave \/ CheckMainExists

Spec == Init /\ [][Next]_vars

----------------------------------------------------------------------------
Kinds == {"function", "block", "then", "else", "loop"}
Count(nodes, k) == Cardinality({i \in DOMAIN nodes : nodes[i].k = k})

TypeOK ==
  /\ kit \in DOMAIN Kits
  /\ text \in Seq(Pieces(kit) \cup [k : {"end function", "}", "end if", "end while"}])
  /\ scopes \in Seq({scopes[i] : i \in DOMAIN scopes}) /\ scopes # <<>>
  /\ nest \in Seq([k : Kinds, state : {"open", "ended", "closed"}])
  /\ loopDepth \in Nat
  /\ phase \in {"walk", "done"}

\* pushScope and popScope, ++loopDepth_ and --loopDepth_, currentFunction_: what
\* the walk keeps beside the tree is what the nodes it stands in say, on every
\* path through nested blocks, loops and statements without a block.
CountersFollowTheNest ==
  /\ loopDepth = Count(nest, "loop")
  /\ Len(scopes) = 1 + Count(nest, "function") + Count(nest, "block")
  /\ current = NoFunction <=> AtTop

----------------------------------------------------------------------------
(* What a name means, said of the text as a whole: no scope is entered or  *)
(* left here.                                                              *)

Openers == {"function", "{", "if", "while"}
Closers == {"end function", "}", "end if", "end while"}

\* The pieces whose part a place is: open before it, not closed by then.  The
\* place is the one right behind the n-th piece.
Occurring(kinds, from, to) == Cardinality({m \in from .. to : text[m].k \in kinds})
Around(n) ==
  {j \in 1 .. n : /\ text[j].k \in Openers
                  /\ \A m \in j + 1 .. n :
                       Occurring(Closers, j + 1, m) <= Occurring(Openers, j + 1, m)}
ScopeAt(n) == LET blocks == {j \in Around(n) : text[j].k \in {"function", "{"}}
              IN  IF blocks = {} THEN 0 ELSE CHOOSE j \in blocks : \A m \in blocks : m <= j

\* What is declared by the n-th piece: names with the scope they belong to.
Declared(as, x, scope, at) == [as |-> as, x |-> x, scope |-> scope, at |-> at]
DeclaredBy(n) ==
  LET p == text[n] IN
  CASE p.k = "var" -> {Declared(IF p.const THEN "const" ELSE "var", p.x, ScopeAt(n), n)}
    [] p.k = "function" -> {Declared("func", p.x, 0, n)}
                             \cup {Declared("param", p.params[i].x, n, n) : i \in DOMAIN p.params}
    [] OTHER -> {}
NamesBy(n) ==
  LET p == text[n] IN
  CASE p.k = "var" -> {p.x}
    [] p.k = "function" -> {p.x} \cup {p.params[i].x : i \in DOMAIN p.params}
    [] OTHER -> {}
DeclaredUpTo(n, x) == UNION {DeclaredBy(m) : m \in {k \in 1 .. n : x \in NamesBy(k)}}
Builtin == {Declared("func", x, 0, 0) : x \in DOMAIN Runtime}

\* What x means behind the n-th piece: the declaration in the innermost of the
\* scopes around that place that has one by then.
Meant(x, n) ==
  LET around == {0} \cup Around(n)
      seen == {d \in Builtin \cup DeclaredUpTo(n, x) :
                 d.x = x /\ d.scope \in around}
  IN  {d \in seen : \A e \in seen : e.scope <= d.scope}

\* Scope::lookup along the scopes that pushScope and popScope leave, through
\* shadowing, parameters and blocks left: a name is taken for the declaration
\* that the text as a whole gives it.
Name == DOMAIN Runtime \cup UNION {NamesBy(n) : n \in DOMAIN text}
NamesResolve ==
  errors = {} =>
    \A x \in Name :
      LET sym == LookupSymbol(scopes, x)
          meant == Meant(x, Len(text))
      IN  IF meant = {} THEN sym = NoSymbol
          ELSE \E d \in meant : sym.at = d.at /\ sym.kind = d.as
=============================================================================
