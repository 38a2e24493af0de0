------------------------------ MODULE Builder ------------------------------
(***************************************************************************)
(* The lowering of checked SysY syntax trees to IR (src/src/ir/builder.cpp)*)
(* for the integer part of the language: scalars, arrays, control flow,    *)
(* short-circuit operators, calls.  It supplies the programs the optimizer *)
(* is checked on, in the very shape the optimizer meets them.              *)
(***************************************************************************)
EXTENDS IR

(* Syntax trees.                                                           *)
Lit(n) == [k |-> "lit", n |-> n]
Ref(x) == [k |-> "ref", x |-> x]
Sub(x, idx) == [k |-> "sub", x |-> x, idx |-> idx]
Un(op, e) == [k |-> "un", op |-> op, e |-> e]
Bin(op, l, r) == [k |-> "bin", op |-> op, l |-> l, r |-> r]
CallE(f, args) == [k |-> "call", f |-> f, args |-> args]
GetInt == CallE("getint", <<>>)

Decl(x, dims, init) == [k |-> "decl", x |-> x, dims |-> dims, init |-> init]
Assign(l, e) == [k |-> "assign", l |-> l, e |-> e]
If(c, s) == [k |-> "if", c |-> c, s |-> s]
IfElse(c, s, t) == [k |-> "ifelse", c |-> c, s |-> s, t |-> t]
While(c, s) == [k |-> "while", c |-> c, s |-> s]
Break == [k |-> "break"]
Continue == [k |-> "continue"]
Return(e) == [k |-> "return", e |-> e]
ReturnVoid == [k |-> "return void"]
Do(e) == [k |-> "do", e |-> e]
Blk(ss) == [k |-> "block", ss |-> ss]
NoInit == [k |-> "none"]
Braces(elems) == [k |-> "braces", elems |-> elems]
PutInt(e) == Do(CallE("putint", <<e>>))

\* A translation unit: functions [name -> [params, void, body]] and their
\* order, a parameter being [x, array, inner] with the dimensions behind the
\* empty one; global variables, in order, [x, dims, init, const].

----------------------------------------------------------------------------
(* The builder's state inside one function, and how it emits.              *)

\* g: what is known of the module (collectFunctionInfo, globals_, constInts_)
\* s: blocks_ so far, nextValue_, nextLabel_, the visible names, loops_
Emit(s, i) == [s EXCEPT !.blocks[Len(s.blocks)].insts = Append(@, i)]

EmitValue(s, op, args, attr) ==
  [s |-> [Emit(s, Inst(op, s.next, args, <<>>, attr)) EXCEPT !.next = @ + 1],
   v |-> Var(s.next)]

StartBlock(s, l) == [s EXCEPT !.blocks = Append(@, Block(l, <<>>))]
CurrentBlockTerminated(s) ==
  LET b == Last(s.blocks) IN HasLast(b) /\ IsTerminator(Last(b.insts))
Label(s, prefix, n) == <<prefix, s.label + n>>

BoolValue(v) == IF IsConst(v) THEN Const(IF v[2] = 0 THEN 0 ELSE 1) ELSE v

Binding(addr, dims, array) == [addr |-> addr, dims |-> dims, array |-> array]

Lookup(g, s, x) ==
  IF x \in DOMAIN s.scope THEN s.scope[x]
  ELSE IF x \in DOMAIN g.bindings THEN g.bindings[x]
  ELSE Binding(GlobalPtr(x), <<>>, FALSE)

Towards0(a, b) == LET q == (IF a < 0 THEN -a ELSE a) \div (IF b < 0 THEN -b ELSE b)
                  IN  IF (a < 0) = (b < 0) THEN q ELSE -q
OneIf(b) == IF b THEN 1 ELSE 0
ConstantOf(op, l, r) ==
  CASE op = "add" -> l + r [] op = "sub" -> l - r [] op = "mul" -> l * r
    [] op \in {"div", "mod"} /\ r = 0 -> 1
    [] op = "div" /\ r # 0 -> Towards0(l, r)
    [] op = "mod" /\ r # 0 -> l - Towards0(l, r) * r
    [] op = "lt" -> OneIf(l < r) [] op = "gt" -> OneIf(l > r)
    [] op = "le" -> OneIf(l <= r) [] op = "ge" -> OneIf(l >= r)
    [] op = "eq" -> OneIf(l = r) [] op = "ne" -> OneIf(l # r)
    [] op = "and" -> OneIf(l # 0 /\ r # 0) [] op = "or" -> OneIf(l # 0 \/ r # 0)

\* evalConstInt: a name that is no GLOBAL integer constant counts as 1, and so
\* do calls, elements and divisions by zero.
RECURSIVE EvalConstInt(_, _)
EvalConstInt(consts, e) ==
  CASE e.k = "lit" -> e.n
    [] e.k = "ref" -> IF e.x \in DOMAIN consts THEN consts[e.x] ELSE 1
    [] e.k = "un" /\ e.op = "neg" -> -EvalConstInt(consts, e.e)
    [] e.k = "un" /\ e.op = "not" -> OneIf(EvalConstInt(consts, e.e) = 0)
    [] e.k = "un" /\ e.op = "plus" -> EvalConstInt(consts, e.e)
    [] e.k = "bin" -> ConstantOf(e.op, EvalConstInt(consts, e.l), EvalConstInt(consts, e.r))
    [] OTHER -> 1

Dimensions(consts, dims) == [i \in DOMAIN dims |-> EvalConstInt(consts, dims[i])]
Product(dims) == Through(LAMBDA p, d : p * d, 1, dims)

\* A leading -1 marks an array parameter; it never scales an index.
Stride(dims, i) == Product([j \in 1 .. (Len(dims) - i) |->
                              IF dims[i + j] < 0 THEN 1 ELSE dims[i + j]])

----------------------------------------------------------------------------
RECURSIVE BuildExpr(_, _, _)
RECURSIVE BuildLValue(_, _, _)

AndValue(vs, r) == [s |-> r.s, vs |-> Append(vs, r.v)]
BuildAll(g, s, es) ==
  Through(LAMBDA acc, e : AndValue(acc.vs, BuildExpr(g, acc.s, e)),
          [s |-> s, vs |-> <<>>], es)

\* A value built, and what is emitted with it next.
StoreTo(addr, r) == Emit(r.s, Store(r.v, addr))
Test(r, yes, no) == Emit(r.s, CondBr(BoolValue(r.v), yes, no))
LoadFrom(p) == EmitValue(p.s, "load", <<p.v>>, "")

\* buildShortCircuit: an unnamed stack slot, which allocaBytes takes for 8
\* bytes, receives the short answer first and the right operand after.
BuildInto(g, slot, e) ==
  LET s == slot.s
      rhs == Label(s, "logic.rhs", 0)
      end == Label(s, "logic.end", 1)
      short == Emit([s EXCEPT !.label = @ + 2],
                    Store(Const(IF e.op = "and" THEN 0 ELSE 1), slot.v))
      StoreRight(r) == Emit(Emit(r.s, Store(BoolValue(r.v), slot.v)), Br(end))
      OnLeft(l) == IF e.op = "and" THEN Test(l, rhs, end) ELSE Test(l, end, rhs)
  IN  [s |-> StartBlock(StoreRight(BuildExpr(g, StartBlock(OnLeft(BuildExpr(g, short, e.l)),
                                                           rhs), e.r)), end),
       v |-> slot.v]
BuildShortCircuit(g, s, e) ==
  LoadFrom(BuildInto(g, EmitValue(s, "alloca", <<Const(8)>>, ""), e))

EmitCall(g, f, a) ==
  IF f \in g.voids
  THEN [s |-> Emit(a.s, Inst("call", NoResult, a.vs, <<>>, f)), v |-> Const(0)]
  ELSE EmitValue(a.s, "call", a.vs, f)
BuildCall(g, s, e) == EmitCall(g, e.f, BuildAll(g, s, e.args))

Comparisons == {"lt", "gt", "le", "ge", "eq", "ne"}

EmitBinary(op, a) == IF op \in Comparisons THEN EmitValue(a.s, "icmp", a.vs, op)
                     ELSE EmitValue(a.s, op, a.vs, "")
BuildBinary(g, s, e) == EmitBinary(e.op, BuildAll(g, s, <<e.l, e.r>>))

EmitUnary(op, r) ==
  CASE op = "plus" -> r
    [] op = "not" -> EmitValue(r.s, "not", <<BoolValue(r.v)>>, "")
    [] op = "neg" -> EmitValue(r.s, "neg", <<r.v>>, "")
BuildUnary(g, s, e) == EmitUnary(e.op, BuildExpr(g, s, e.e))

\* A name is a constant only when no local hides it; an array is its address.
BuildRef(g, s, e) ==
  LET b == Lookup(g, s, e.x)
  IN  IF e.x \notin DOMAIN s.scope /\ e.x \in DOMAIN g.consts
      THEN [s |-> s, v |-> Const(g.consts[e.x])]
      ELSE IF b.array THEN [s |-> s, v |-> b.addr]
      ELSE LoadFrom([s |-> s, v |-> b.addr])

\* Fewer subscripts than dimensions denote a row, by its address.
ElementOf(row, p) == IF row THEN p ELSE LoadFrom(p)
BuildSubscript(g, s, e) ==
  ElementOf(Len(e.idx) < Len(Lookup(g, s, e.x).dims), BuildLValue(g, s, e))

BuildExpr(g, s, e) ==
  CASE e.k = "lit" -> [s |-> s, v |-> Const(e.n)]
    [] e.k = "ref" -> BuildRef(g, s, e)
    [] e.k = "sub" -> BuildSubscript(g, s, e)
    [] e.k = "un" -> BuildUnary(g, s, e)
    [] e.k = "bin" /\ e.op \in {"and", "or"} -> BuildShortCircuit(g, s, e)
    [] e.k = "bin" /\ e.op \notin {"and", "or"} -> BuildBinary(g, s, e)
    [] e.k = "call" -> BuildCall(g, s, e)

\* The subscripts of an element are summed up from 0, each scaled by the
\* product of the dimensions to its right.
Scaled(t, stride) ==
  IF stride = 1 THEN t ELSE EmitValue(t.s, "mul", <<t.v, Const(stride)>>, "")
AddTo(sum, m) == EmitValue(m.s, "add", <<sum, m.v>>, "")
Offset(addr, linear) == EmitValue(linear.s, "gep", <<addr, linear.v>>, "")

BuildLValue(g, s, e) ==
  LET b == Lookup(g, s, e.x)
      AddIndex(acc, i) ==
        AddTo(acc.v, Scaled(BuildExpr(g, acc.s, e.idx[i]), Stride(b.dims, i)))
  IN  IF e.k = "ref" THEN [s |-> s, v |-> b.addr]
      ELSE Offset(b.addr, Through(AddIndex, [s |-> s, v |-> Const(0)],
                                  [i \in DOMAIN e.idx |-> i]))

----------------------------------------------------------------------------
(* Array initialisers.  at is the cell reached, counted from 0, and exprs   *)
(* the expressions met, each at its cell.                                  *)

\* Mutation: what follows a nested list goes on where the list stopped.
RECURSIVE CollectOnward(_, _, _, _)
CollectOnward(dims, level, init, st) ==
  LET Cells(n) == Product(SubSeq(dims, n + 1, Len(dims)))
      end == Min({Product(dims), st.at + Cells(level)})
  IN  IF st.at >= Product(dims) THEN st
      ELSE IF init.k # "braces" THEN [at |-> st.at + 1, exprs |-> Bind(st.exprs, st.at, init)]
      ELSE Through(LAMBDA acc, e : IF acc.at >= end THEN acc
                                   ELSE CollectOnward(dims, level + 1, e, acc),
                   st, init.elems)

\* collectArrayInitializer: a nested list stands for one element of the
\* dimension its depth in the braces gives it, wherever in the array it begins,
\* and the next element is put that far behind.
RECURSIVE CollectInit(_, _, _, _)
CollectInit(dims, level, init, st) ==
  LET Cells(n) == Product(SubSeq(dims, n + 1, Len(dims)))
      end == Min({Product(dims), st.at + Cells(level)})
      Element(acc, e) ==
        IF acc.at >= end THEN acc
        ELSE IF e.k # "braces" \/ level + 1 >= Len(dims)
        THEN CollectInit(dims, level + 1, e, acc)
        ELSE [CollectInit(dims, level + 1, e, acc) EXCEPT !.at = acc.at + Cells(level + 1)]
  IN  IF st.at >= Product(dims) THEN st
      ELSE IF init.k # "braces" THEN [at |-> st.at + 1, exprs |-> Bind(st.exprs, st.at, init)]
      ELSE IF dims = <<>> THEN st
      ELSE Through(Element, st, init.elems)

Initialisers(dims, init) == CollectInit(dims, 0, init, [at |-> 0, exprs |-> Emptymap]).exprs

\* isZeroInitializer: a literal 0, signed or not.
RECURSIVE IsZeroInitializer(_)
IsZeroInitializer(e) ==
  \/ e.k = "lit" /\ e.n = 0
  \/ e.k = "un" /\ e.op \in {"plus", "neg"} /\ IsZeroInitializer(e.e)

\* The expressions go to their cells one after the other.
StoreCells(g, s, addr, dims, exprs) ==
  LET StoreCell(e, p) == StoreTo(p.v, BuildExpr(g, p.s, e))
      Stored(n) == n \in DOMAIN exprs /\ ~IsZeroInitializer(exprs[n])
  IN  Through(LAMBDA s1, n : StoreCell(exprs[n], EmitValue(s1, "gep", <<addr, Const(n)>>, "")),
              s, SelectSeq([n \in 1 .. Product(dims) |-> n - 1], Stored))

\* Mutation: the array is not zeroed first.
BuildArrayInitUnzeroed(g, s, addr, dims, init) ==
  StoreCells(g, s, addr, dims, Initialisers(dims, init))

\* A local array is zeroed by a call of memset, then stored to cell by cell,
\* but for literal zeros.
BuildArrayInit(g, s, addr, dims, init) ==
  LET bytes == Const(4 * Product(dims))
  IN  StoreCells(g, Emit(s, Inst("call", NoResult, <<addr, Const(0), bytes>>, <<>>, "memset")),
                 addr, dims, Initialisers(dims, init))

\* A local declaration: the slot is visible before its initialiser is built.
Visible(d, dims, a) ==
  [a EXCEPT !.s.scope = Bind(@, d.x, Binding(a.v, dims, d.dims # <<>>))]
Initialised(g, d, dims, a) ==
  CASE d.init.k = "none" \/ (d.init.k = "braces" /\ dims = <<>>) -> a.s
    [] d.init.k # "none" /\ dims # <<>> -> BuildArrayInit(g, a.s, a.v, dims, d.init)
    [] OTHER -> StoreTo(a.v, BuildExpr(g, a.s, d.init))
BuildDecl(g, s, d) ==
  LET dims == Dimensions(g.consts, d.dims)
  IN  Initialised(g, d, dims,
        Visible(d, dims, EmitValue(s, "alloca", <<Const(4 * Product(dims))>>, "")))

RECURSIVE BuildStmt(_, _, _)

\* Names a block declares end with it.
BuildBlock(g, s, ss) ==
  [Through(LAMBDA acc, st : BuildStmt(g, acc, st), s, ss) EXCEPT !.scope = s.scope]

BranchUnlessTerminated(s, l) == IF CurrentBlockTerminated(s) THEN s ELSE Emit(s, Br(l))

\* Mutation: a loop that has ended is still the innermost one.
BuildWhileForgetful(g, s, w) ==
  LET cond == Label(s, "while.cond", 0)
      body == Label(s, "while.body", 1)
      end == Label(s, "while.end", 2)
      Inside(s1) == [s1 EXCEPT !.loops = Append(@, <<cond, end>>)]
      c == BuildExpr(g, StartBlock(Emit([s EXCEPT !.label = @ + 3], Br(cond)), cond), w.c)
  IN  StartBlock(BranchUnlessTerminated(
        BuildStmt(g, Inside(StartBlock(Test(c, body, end), body)), w.s), cond), end)

BuildWhile(g, s, w) ==
  LET cond == Label(s, "while.cond", 0)
      body == Label(s, "while.body", 1)
      end == Label(s, "while.end", 2)
      Inside(s1) == [s1 EXCEPT !.loops = Append(@, <<cond, end>>)]
      Outside(s1) == [s1 EXCEPT !.loops = s.loops]
      c == BuildExpr(g, StartBlock(Emit([s EXCEPT !.label = @ + 3], Br(cond)), cond), w.c)
  IN  StartBlock(BranchUnlessTerminated(
        Outside(BuildStmt(g, Inside(StartBlock(Test(c, body, end), body)), w.s)), cond), end)

BuildIf(g, s, i) ==
  LET then == Label(s, "if.then", 0)
      end == Label(s, "if.end", 1)
      c == BuildExpr(g, [s EXCEPT !.label = @ + 2], i.c)
  IN  StartBlock(BranchUnlessTerminated(
        BuildStmt(g, StartBlock(Test(c, then, end), then), i.s), end), end)

BuildIfElse(g, s, i) ==
  LET then == Label(s, "if.then", 0)
      else == Label(s, "if.else", 1)
      end == Label(s, "if.end", 2)
      Branch(s1, l, st) == BranchUnlessTerminated(BuildStmt(g, StartBlock(s1, l), st), end)
      c == BuildExpr(g, [s EXCEPT !.label = @ + 3], i.c)
  IN  StartBlock(Branch(Branch(Test(c, then, else), then, i.s), else, i.t), end)

StoreBuilt(p, v) == Emit(p.s, Store(v, p.v))
AssignTo(g, l, r) == StoreBuilt(BuildLValue(g, r.s, l), r.v)
BuildAssign(g, s, a) == AssignTo(g, a.l, BuildExpr(g, s, a.e))

RetVoid == Inst("ret", NoResult, <<>>, <<>>, "void")
EmitReturn(r) == Emit(r.s, Ret(r.v))
BuildReturn(g, s, r) == EmitReturn(BuildExpr(g, s, r.e))

\* break and continue leave the block open: what follows them in the source
\* is emitted behind the branch.
BuildStmt(g, s, st) ==
  CASE st.k = "block" -> BuildBlock(g, s, st.ss)
    [] st.k = "decl" -> BuildDecl(g, s, st)
    [] st.k = "do" -> BuildExpr(g, s, st.e).s
    [] st.k = "assign" -> BuildAssign(g, s, st)
    [] st.k = "return" -> BuildReturn(g, s, st)
    [] st.k = "return void" -> Emit(s, RetVoid)
    [] st.k = "while" -> BuildWhile(g, s, st)
    [] st.k = "if" -> BuildIf(g, s, st)
    [] st.k = "ifelse" -> BuildIfElse(g, s, st)
    [] st.k = "break" -> Emit(s, Br(Last(s.loops)[2]))
    [] st.k = "continue" -> Emit(s, Br(Last(s.loops)[1]))

----------------------------------------------------------------------------
\* A scalar parameter is spilt to a slot of its own; an array parameter is
\* used as the address it is.
Spilt(id, x, a) ==
  [Emit(a.s, Store(Var(id), a.v)) EXCEPT !.scope = Bind(@, x, Binding(a.v, <<>>, FALSE))]
BuildParam(g, s, id, p) ==
  IF p.array
  THEN [s EXCEPT !.scope = Bind(@, p.x,
          Binding(Var(id), <<-1>> \o Dimensions(g.consts, p.inner), TRUE))]
  ELSE Spilt(id, p.x, EmitValue(s, "alloca", <<Const(4)>>, ""))

\* A body that can fall off its end returns 0, or nothing.
Returned(f, s) ==
  IF CurrentBlockTerminated(s) THEN s ELSE Emit(s, IF f.void THEN RetVoid ELSE Ret(Const(0)))

\* acc: the label counter, which runs on through the functions, and those built.
BuildFunction(g, acc, name, f) ==
  LET ids == [i \in DOMAIN f.params |-> i - 1]
      entry == [blocks |-> <<Block(<<"entry", 0>>, <<>>)>>, next |-> Len(f.params),
                label |-> acc.label, scope |-> Emptymap, loops |-> <<>>]
      spilt == Through(LAMBDA s, i : BuildParam(g, s, ids[i], f.params[i]), entry,
                       [i \in DOMAIN f.params |-> i])
      pointers == {ids[i] : i \in {j \in DOMAIN ids : f.params[j].array}}
      Finished(s) ==
        [label |-> s.label,
         funs |-> Bind(acc.funs, name, Function(ids, pointers, f.void, s.blocks))]
  IN  Finished(Returned(f, BuildBlock(g, spilt, f.body)))

VoidRuntime == {"putint", "putch", "putarray"}

\* Globals are declared in order, each seeing the constants before it; a cell
\* the initialiser does not reach is 0.
DeclareGlobal(g, d) ==
  LET dims == Dimensions(g.consts, d.dims)
      exprs == IF d.init = NoInit THEN Emptymap ELSE Initialisers(dims, d.init)
      Cell(n) == IF n \in DOMAIN exprs THEN EvalConstInt(g.consts, exprs[n]) ELSE 0
  IN  [g EXCEPT
         !.consts = IF d.const /\ dims = <<>> THEN Bind(@, d.x, Cell(0)) ELSE @,
         !.bindings = Bind(@, d.x, Binding(GlobalPtr(d.x), dims, dims # <<>>)),
         !.cells = Bind(@, d.x, [n \in 1 .. Product(dims) |-> Cell(n - 1)])]

Globals(unit) ==
  Through(DeclareGlobal,
          [consts |-> Emptymap, bindings |-> Emptymap, cells |-> Emptymap,
           voids |-> VoidRuntime \cup {f \in DOMAIN unit.funs : unit.funs[f].void}],
          unit.globals)

BuildFunctions(g, unit) ==
  Through(LAMBDA acc, f : BuildFunction(g, acc, f, unit.funs[f]),
          [label |-> 0, funs |-> Emptymap], unit.order).funs

\* build: all globals, then the functions in the order given.
Build(unit) ==
  LET g == Globals(unit)
  IN  [funs |-> BuildFunctions(g, unit), order |-> unit.order, globals |-> g.cells]

============================================================================
