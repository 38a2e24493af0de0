----------------------------- MODULE SemaRules -----------------------------
(***************************************************************************)
(* What makes a program legal, said of its text as a whole: what type an   *)
(* expression has, and which pieces may stand where.  What encloses what,  *)
(* and what a name means, is said in Sema; nothing is reported here.       *)
(***************************************************************************)
EXTENDS Sema, Builder

----------------------------------------------------------------------------
(* Constants and types.                                                    *)

\* e is a constant expression behind the n-th piece; what it divides by is
\* what the IR builder takes it for.
Known[n \in Nat] ==
  IF n = 0 THEN Emptymap
  ELSE LET p == text[n] IN
       IF p.k = "var" /\ p.const /\ p.dims = <<>> /\ p.init \in Exprs /\ ScopeAt(n) = 0
       THEN p.x :> EvalConstInt(Known[n - 1], p.init) @@ Known[n - 1]
       ELSE Known[n - 1]

RECURSIVE IsConstant(_, _)
IsConstant(e, n) ==
  CASE e.k \in {"lit", "flit"} -> TRUE
    [] e.k = "un" -> IsConstant(e.e, n)
    [] e.k = "bin" -> /\ IsConstant(e.l, n) /\ IsConstant(e.r, n)
                      /\ e.op \in {"div", "mod"} => EvalConstInt(Known[n], e.r) # 0
    [] e.k = "ref" -> \E d \in Meant(e.x, n) :
                        /\ d.as = "const" /\ text[d.at].dims = <<>>
                        /\ text[d.at].init \in Exprs /\ IsConstant(text[d.at].init, d.at - 1)
    [] OTHER -> FALSE

DimsAt(dims, n) == [i \in DOMAIN dims |-> EvalConstInt(Known[n - 1], dims[i])]
ParamTypeAt(par, n) ==
  IF par.array THEN ArrayT(par.type, <<-1>> \o DimsAt(par.dims, n)) ELSE Simple(par.type)
DeclaredType(d) ==
  CASE d.at = 0 -> Runtime[d.x].type
    [] d.at > 0 /\ d.as \in {"var", "const"} ->
         IF text[d.at].dims = <<>> THEN Simple(text[d.at].type)
         ELSE ArrayT(text[d.at].type, DimsAt(text[d.at].dims, d.at))
    [] d.at > 0 /\ d.as = "func" ->
         FunctionT(text[d.at].ret, [i \in DOMAIN text[d.at].params |->
                                      ParamTypeAt(text[d.at].params[i], d.at)], FALSE)
    [] d.at > 0 /\ d.as = "param" ->
         ParamTypeAt(text[d.at].params[CHOOSE i \in DOMAIN text[d.at].params :
                                         text[d.at].params[i].x = d.x], d.at)

\* A value of one type may be put where the other is asked for: a number for a
\* number, an array for an array parameter whose later dimensions it has.
Number == {IntT, FloatT}
Fits(from, to) ==
  \/ {from, to} \subseteq Number
  \/ from = to
  \/ /\ {from.kind, to.kind} = {"array"} /\ to.dims[1] = -1 /\ from.elem = to.elem
     /\ IsPrefix(Tail(to.dims), Tail(from.dims))

\* The type of e behind the n-th piece, in a set that is empty if it has none.
RECURSIVE TypesOf(_, _)
ArgumentsFit(f, args, n) ==
  LET t == DeclaredType(f) IN
  /\ f.as = "func"
  /\ Len(args) = Len(t.params) \/ (t.variadic /\ Len(args) > Len(t.params))
  /\ \A i \in DOMAIN args : \E u \in TypesOf(args[i], n) :
       i \in DOMAIN t.params => Fits(u, t.params[i])
NumbersIn(e, n) == TypesOf(e, n) \cap Number
TypesOf(e, n) ==
  CASE e.k = "lit" -> {IntT}
    [] e.k = "flit" -> {FloatT}
    [] e.k = "string" -> {Simple("string")}
    [] e.k = "ref" -> {DeclaredType(d) : d \in Meant(e.x, n)}
    [] e.k = "elem" ->
         {IF Len(t.dims) = 1 THEN Simple(t.elem) ELSE ArrayT(t.elem, Tail(t.dims)) :
            t \in {u \in TypesOf(e.base, n) : u.kind = "array" /\ TypesOf(e.idx, n) = {IntT}}}
    [] e.k = "un" -> IF e.op = "not" THEN {IntT : t \in NumbersIn(e.e, n)} ELSE NumbersIn(e.e, n)
    [] e.k = "bin" /\ e.op = "mod" -> TypesOf(e.l, n) \cap TypesOf(e.r, n) \cap {IntT}
    [] e.k = "bin" /\ e.op \in {"add", "sub", "mul", "div"} ->
         {IF FloatT \in {t, u} THEN FloatT ELSE IntT : t \in NumbersIn(e.l, n), u \in NumbersIn(e.r, n)}
    [] e.k = "bin" /\ e.op \notin {"add", "sub", "mul", "div", "mod"} ->
         {IntT : t \in NumbersIn(e.l, n), u \in NumbersIn(e.r, n)}
    [] e.k = "call" -> {Simple(DeclaredType(d).ret) : d \in {f \in Meant(e.f, n) : ArgumentsFit(f, e.args, n)}}
    [] OTHER -> {}

----------------------------------------------------------------------------
(* Legal pieces.                                                           *)

HasType(e, n) == TypesOf(e, n) # {}
FitsInto(e, to, n) == \E t \in TypesOf(e, n) : Fits(t, to)
Dimensional(dims, n) ==
  \A i \in DOMAIN dims : /\ IsConstant(dims[i], n - 1) /\ TypesOf(dims[i], n - 1) = {IntT}
                         /\ EvalConstInt(Known[n - 1], dims[i]) >= 0
New(d, n) ==
  \A e \in Builtin \cup DeclaredUpTo(n - 1, d.x) :
    ~ (e.x = d.x /\ e.scope = d.scope)

LegalVar(p, n) ==
  /\ Dimensional(p.dims, n)
  /\ \A d \in DeclaredBy(n) : New(d, n)
  /\ p.const => p.init.k # "none"
  /\ p.init \in Exprs =>
       /\ p.dims = <<>> /\ FitsInto(p.init, Simple(p.type), n)
       /\ ScopeAt(n) = 0 => IsConstant(p.init, n - 1)
LegalFunction(p, n) ==
  /\ \A d \in DeclaredBy(n) : New(d, n)
  /\ \A i \in DOMAIN p.params : /\ Dimensional(p.params[i].dims, n)
                                /\ \A j \in 1 .. i - 1 : p.params[i].x # p.params[j].x
LegalAssignment(p, n) ==
  \E to \in TypesOf(p.l, n) : /\ FitsInto(p.e, to, n)
                              /\ p.l.k = "ref" => \A d \in Meant(p.l.x, n) : d.as # "const"
LegalReturn(p, n) ==
  \E f \in Around(n) : /\ text[f].k = "function"
                       /\ IF text[f].ret = "void" THEN p.e \notin Exprs
                          ELSE FitsInto(p.e, Simple(text[f].ret), n)

Legal(n) ==
  LET p == text[n] IN
  CASE p.k = "var" -> LegalVar(p, n)
    [] p.k = "function" -> LegalFunction(p, n)
    [] p.k \in {"if", "while", "expr"} -> HasType(p.e, n)
    [] p.k = "assign" -> LegalAssignment(p, n)
    [] p.k = "return" -> LegalReturn(p, n)
    [] p.k = "jump" -> \E j \in Around(n) : text[j].k = "while"
    [] OTHER -> TRUE

HasMain ==
  \E n \in DOMAIN text : /\ text[n].k = "function" /\ text[n].x = "main"
                         /\ text[n].ret = "int" /\ text[n].params = <<>>

----------------------------------------------------------------------------
(* Properties.                                                             *)

\* The whole analyser: nothing has been reported as long as every piece is legal,
\* something has from the first one that is not.  An error that is passed over
\* because an operand is in error already has been reported there.
VerdictIsTheLanguages ==
  errors = {} <=> /\ \A n \in DOMAIN text : Legal(n)
                  /\ phase = "done" => HasMain

\* evalConstExpr against evalConstInt of the IR builder, which sees the global
\* constants only and reports nothing: on accepted programs both give a global
\* constant the same value, and every name the type its declaration says, with
\* the same dimensions.
ConstantsAgree ==
  errors = {} =>
    /\ \A x \in DOMAIN Known[Len(text)] :
         LET value == scopes[1][x].value
         IN  value.kind = "int" => value.n = Known[Len(text)][x]
    /\ \A x \in Name : \A d \in Meant(x, Len(text)) :
         LookupSymbol(scopes, x).type = DeclaredType(d)
=============================================================================
