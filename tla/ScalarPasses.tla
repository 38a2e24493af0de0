----------------------------- MODULE ScalarPasses -----------------------------
(***************************************************************************)
(* The passes of src/src/ir/ir.cpp that rewrite the computations of one    *)
(* function: constant folding, algebraic and linear simplification, trivial*)
(* phis, sparse conditional constant propagation, common subexpressions    *)
(* and dead code.  Constants are exact integers here as they are in the    *)
(* pass (long long), while the program computes on machine words.          *)
(***************************************************************************)
EXTENDS IR

NoValue == <<"none", 0>>
IsInt(v, n) == v = Const(n)

----------------------------------------------------------------------------
\* foldInteger: every operand a constant; division by zero is left alone.
Quotient(a, b) == LET q == (IF a < 0 THEN -a ELSE a) \div (IF b < 0 THEN -b ELSE b)
                  IN  IF (a < 0) = (b < 0) THEN q ELSE -q
Holds(pred, a, b) ==
  CASE pred = "lt" -> a < b [] pred = "gt" -> a > b [] pred = "le" -> a <= b
    [] pred = "ge" -> a >= b [] pred = "eq" -> a = b [] pred = "ne" -> a # b
Flag(b) == Const(IF b THEN 1 ELSE 0)

FoldInteger(i) ==
  LET a == i.args[1][2]
      b == i.args[2][2]
  IN  IF i.args = <<>> \/ \E v \in Range(i.args) : ~IsConst(v) THEN NoValue
      ELSE CASE i.op = "neg" -> Const(-a)
             [] i.op = "not" -> Flag(a = 0)
             [] i.op = "add" -> Const(a + b)
             [] i.op = "sub" -> Const(a - b)
             [] i.op = "mul" -> Const(a * b)
             [] i.op = "div" /\ b # 0 -> Const(Quotient(a, b))
             [] i.op = "mod" /\ b # 0 -> Const(a - Quotient(a, b) * b)
             [] i.op = "icmp" -> Flag(Holds(i.attr, a, b))
             [] OTHER -> NoValue

\* simplifyAlgebra: identities in 0, 1 and equal operands.
SimplifyAlgebra(i) ==
  LET l == i.args[1]
      r == i.args[2]
      same == IsVar(l) /\ l = r
  IN  IF i.res = NoResult \/ Len(i.args) # 2 THEN NoValue
      ELSE CASE i.op = "add" /\ IsInt(r, 0) -> l
             [] i.op = "add" /\ IsInt(l, 0) /\ ~IsInt(r, 0) -> r
             [] i.op = "sub" /\ IsInt(r, 0) -> l
             [] i.op = "sub" /\ same -> Const(0)
             [] i.op = "mul" /\ IsInt(r, 1) -> l
             [] i.op = "mul" /\ IsInt(l, 1) /\ ~IsInt(r, 1) -> r
             [] i.op = "mul" /\ (IsInt(l, 0) \/ IsInt(r, 0)) -> Const(0)
             [] i.op = "div" /\ IsInt(r, 1) -> l
             [] i.op = "div" /\ IsInt(l, 0) -> Const(0)
             [] i.op = "mod" /\ (IsInt(r, 1) \/ IsInt(l, 0) \/ same) -> Const(0)
             [] i.op = "icmp" /\ same -> Flag(i.attr \in {"eq", "le", "ge"})
             [] OTHER -> NoValue

Folded(i) == IF FoldInteger(i) # NoValue THEN FoldInteger(i) ELSE SimplifyAlgebra(i)

\* foldConstants: unlike the other sweeps it does not resolve again what it
\* had passed when a replacement was made.
FoldConstants(fn) ==
  LET Visit(st, i) == IF i.res # NoResult /\ Folded(i) # NoValue
                      THEN Replaced(st, i, Folded(i)) ELSE Emitted(st, <<i>>)
  IN  Sweep(fn, [repl |-> Emptymap], LAMBDA st, b : st, Visit).fn

----------------------------------------------------------------------------
(* Passes that look definitions up and rewrite in place, so that a later   *)
(* instruction sees the earlier ones rewritten.                            *)
InPlace(fn, Rewritten(_, _)) ==
  LET OneInst(f, at) == [f EXCEPT !.blocks[at[1]].insts[at[2]] = Rewritten(f, @)]
      OneBlock(f, b) == Through(OneInst, f,
                                 [k \in DOMAIN fn.blocks[b].insts |-> <<b, k>>])
  IN  Through(OneBlock, fn, [b \in BlockIndices(fn) |-> b])

\* splitAdditiveConstant: base + constant, the base no constant.
SplitAdditive(i) ==
  CASE i.op = "add" /\ IsConst(i.args[2]) -> <<i.args[1], i.args[2][2]>>
    [] i.op = "add" /\ IsConst(i.args[1]) /\ ~IsConst(i.args[2]) -> <<i.args[2], i.args[1][2]>>
    [] i.op = "sub" /\ IsConst(i.args[2]) -> <<i.args[1], -i.args[2][2]>>
    [] OTHER -> <<Const(0), 0>>
IsAdditive(i) == IsVar(SplitAdditive(i)[1])

\* combineAdditiveConstants: (x + c) + d is x + (c + d).
CombineAdditiveConstants(fn) ==
  LET Rewritten(f, i) ==
        LET outer == SplitAdditive(i)
            inner == SplitAdditive(Definition(f, outer[1][2]))
        IN  IF /\ i.res # NoResult
               /\ IsAdditive(i)
               /\ Defined(f, outer[1][2]) # {}
               /\ IsAdditive(Definition(f, outer[1][2]))
            THEN [i EXCEPT !.op = "add",
                           !.args = <<inner[1], Const(inner[2] + outer[2])>>]
            ELSE i
  IN  InPlace(fn, Rewritten)

InversePredicate == [eq |-> "ne", ne |-> "eq", lt |-> "ge", le |-> "gt", gt |-> "le", ge |-> "lt"]

\* simplifyBooleanNegations: !(a < b) is a >= b, and !!a is a # 0.
SimplifyBooleanNegations(fn) ==
  LET Rewritten(f, i) ==
        LET def == Definition(f, i.args[1][2])
        IN  IF ~(i.op = "not" /\ IsVar(i.args[1])) \/ Defined(f, i.args[1][2]) = {} THEN i
            ELSE CASE def.op = "icmp" -> [i EXCEPT !.op = "icmp", !.attr = InversePredicate[def.attr],
                                                   !.args = def.args]
                   [] def.op = "not" -> [i EXCEPT !.op = "icmp", !.attr = "ne",
                                                  !.args = <<def.args[1], Const(0)>>]
                   [] OTHER -> i
  IN  InPlace(fn, Rewritten)

----------------------------------------------------------------------------
(* simplifyLinearI32Expressions: sums, differences and negations of a      *)
(* block as c + SUM coefficient * value, the coefficients keyed by value   *)
(* id and never 0.                                                         *)
Form(constant, coeffs) == [constant |-> constant, coeffs |-> coeffs]
Coefficient(form, id) == IF id \in DOMAIN form.coeffs THEN form.coeffs[id] ELSE 0

LinearSum(f, sign, g) ==
  LET ids == DOMAIN f.coeffs \cup DOMAIN g.coeffs
      sum(id) == Coefficient(f, id) + sign * Coefficient(g, id)
  IN  Form(f.constant + sign * g.constant,
           [id \in {x \in ids : sum(x) # 0} |-> sum(id)])

LinearFormOfValue(v, known) ==
  IF IsConst(v) THEN Form(v[2], Emptymap)
  ELSE IF v[2] \in DOMAIN known THEN known[v[2]]
  ELSE Form(0, v[2] :> 1)

LinearFormOf(i, known) ==
  LET arg(k) == LinearFormOfValue(i.args[k], known)
  IN  CASE i.op = "neg" -> LinearSum(Form(0, Emptymap), -1, arg(1))
        [] i.op = "add" -> LinearSum(arg(1), 1, arg(2))
        [] i.op = "sub" -> LinearSum(arg(1), -1, arg(2))

\* The single value a form stands for, if it is no more than that.
FormValue(form) ==
  CASE form.coeffs = Emptymap -> Const(form.constant)
    [] form.constant = 0 /\ \E id \in DOMAIN form.coeffs : form.coeffs = (id :> 1) ->
         Var(CHOOSE id \in DOMAIN form.coeffs : TRUE)
    [] OTHER -> NoValue

\* rewriteInstructionAsLinearForm: a form of one unit term, or of two and no
\* constant, is written out; 0 - x is a negation; the rest stays as it was.
OneTerm(i, id, coefficient, c) ==
  CASE coefficient = 1 /\ c >= 0 -> [i EXCEPT !.op = "add", !.args = <<Var(id), Const(c)>>]
    [] coefficient = 1 /\ c < 0 -> [i EXCEPT !.op = "sub", !.args = <<Var(id), Const(-c)>>]
    [] coefficient = -1 /\ c = 0 -> [i EXCEPT !.op = "neg", !.args = <<Var(id)>>]
    [] coefficient = -1 /\ c # 0 -> [i EXCEPT !.op = "sub", !.args = <<Const(c), Var(id)>>]
    [] OTHER -> i

TwoTerms(i, lo, hi, signs) ==
  CASE signs = <<1, 1>> -> [i EXCEPT !.op = "add", !.args = <<Var(lo), Var(hi)>>]
    [] signs = <<1, -1>> -> [i EXCEPT !.op = "sub", !.args = <<Var(lo), Var(hi)>>]
    [] signs = <<-1, 1>> -> [i EXCEPT !.op = "sub", !.args = <<Var(hi), Var(lo)>>]
    [] OTHER -> IF i.op = "sub" /\ IsInt(i.args[1], 0) /\ IsVar(i.args[2])
                THEN [i EXCEPT !.op = "neg", !.args = <<@[2]>>] ELSE i

RewriteAsForm(i, form) ==
  LET ids == DOMAIN form.coeffs
      lo == Min(ids)
      hi == Max(ids)
  IN  CASE Cardinality(ids) = 1 -> OneTerm(i, lo, form.coeffs[lo], form.constant)
        [] Cardinality(ids) = 2 /\ form.constant = 0 ->
             TwoTerms(i, lo, hi, <<form.coeffs[lo], form.coeffs[hi]>>)
        [] OTHER -> i

SimplifyLinearI32Expressions(fn) ==
  LET Visit(st, i) ==
        LET form == LinearFormOf(i, st.known)
            known == [st EXCEPT !.known = Bind(@, i.res, form)]
        IN  IF i.op \notin {"neg", "add", "sub"} THEN Emitted(st, <<i>>)
            ELSE IF FormValue(form) # NoValue THEN Replaced(known, i, FormValue(form))
            ELSE Emitted(known, <<RewriteAsForm(i, form)>>)
  IN  Settled(Sweep(fn, [repl |-> Emptymap, known |-> Emptymap],
                    LAMBDA st, b : [st EXCEPT !.known = Emptymap], Visit))

----------------------------------------------------------------------------
\* simplifyTrivialPhis: a phi of one value, itself apart, is that value.
SimplifyTrivialPhis(fn) ==
  LET Visit(st, i) ==
        LET merged == Range(i.args) \ {Var(i.res)}
        IN  IF i.op = "phi" /\ Cardinality(merged) = 1
            THEN Replaced(st, i, CHOOSE v \in merged : TRUE)
            ELSE Emitted(st, <<i>>)
  IN  Settled(Sweep(fn, [repl |-> Emptymap], LAMBDA st, b : st, Visit))

----------------------------------------------------------------------------
(* sparseConditionalConstantPropagation.  A lattice element is Undefined,  *)
(* a constant value or Overdefined.                                        *)
Undefined == <<"undefined", 0>>
Overdefined == <<"overdefined", 0>>
IsConstant(x) == x \notin {Undefined, Overdefined}

MergeLattice(x, y) ==
  CASE x = Undefined -> y
    [] y = Undefined -> x
    [] x # Undefined /\ y # Undefined -> IF x = y THEN x ELSE Overdefined

LatticeOf(v, values) == IF ~IsVar(v) THEN v
                        ELSE IF v[2] \in DOMAIN values THEN values[v[2]] ELSE Overdefined

\* phiPredecessorLabels reads the text of a phi up to its first space.  The
\* "a,b" that promotion to SSA writes has none, and yields no label at all;
\* of the "a, b" that merging blocks writes only the first label is left,
\* with an empty one behind the comma.
NoLabel == <<"", 0>>
PhiPredecessorLabels(i) ==
  CASE i.attr = "tight" -> <<>>
    [] i.attr = "spaced" /\ Len(i.labs) = 1 -> <<>>
    [] i.attr = "spaced" /\ Len(i.labs) > 1 -> <<i.labs[1], NoLabel>>

EvaluateSccp(i, values, incoming) ==
  LET labels == PhiPredecessorLabels(i)
      args == [k \in DOMAIN i.args |-> LatticeOf(i.args[k], values)]
      flowing == SelectSeq([k \in DOMAIN args |-> k],
                           LAMBDA k : k \in DOMAIN labels /\ labels[k] \in incoming)
      constant == Folded([i EXCEPT !.args = args])
      unknown == SelectSeq(args, LAMBDA a : ~IsConstant(a))
  IN  IF i.op = "phi"
      THEN Through(LAMBDA x, k : MergeLattice(x, args[k]), Undefined, flowing)
      ELSE IF unknown # <<>> THEN Head(unknown)
      ELSE IF constant # NoValue THEN constant ELSE Overdefined

\* One visit of an executable block: values in order, then its edges.
SccpInst(values, i, incoming) ==
  IF i.res = NoResult THEN values
  ELSE [values EXCEPT ![i.res] = MergeLattice(@, EvaluateSccp(i, values, incoming))]
EdgesTaken(i, condition) ==
  IF i.op = "br" \/ condition = Overdefined THEN Range(i.labs)
  ELSE IF condition = Undefined THEN {}
  ELSE {i.labs[IF condition[2] # 0 THEN 1 ELSE 2]}
SccpEdges(fn, st, b, values) ==
  LET insts == Range(fn.blocks[b].insts)
      taken == UNION {EdgesTaken(i, LatticeOf(i.args[1], values)) : i \in {j \in insts : j.op \in {"br", "condbr"}}}
      out == {IndexOf(fn, l) : l \in taken \cap Labels(fn)}
  IN  [values |-> values,
       blocks |-> st.blocks \cup out,
       edges |-> st.edges \cup {<<b, s>> : s \in out}]
SccpBlock(fn, st, b) ==
  LET incoming == {fn.blocks[e[1]].label : e \in {x \in st.edges : x[2] = b}}
  IN  SccpEdges(fn, st, b, Through(LAMBDA values, i : SccpInst(values, i, incoming),
                                   st.values, fn.blocks[b].insts))

SccpSweep(fn, st) ==
  Through(LAMBDA s, b : IF b \in s.blocks THEN SccpBlock(fn, s, b) ELSE s,
          st, [b \in BlockIndices(fn) |-> b])
RECURSIVE SccpFixpoint(_, _, _)
SccpFixpoint(fn, st, swept) ==
  IF swept = st THEN st ELSE SccpFixpoint(fn, swept, SccpSweep(fn, swept))

SccpStart(fn) ==
  [values |-> [id \in Results(fn) |-> Undefined], blocks |-> {1}, edges |-> {}]
SccpValues(fn) == SccpFixpoint(fn, SccpStart(fn), SccpSweep(fn, SccpStart(fn))).values

\* Constants go where they are used, and decide the branches on them.
Propagated(fn, repl) ==
  LET Taken(i) == IF i.op = "condbr" /\ ~IsVar(i.args[1])
                  THEN Br(i.labs[IF i.args[1][2] # 0 THEN 1 ELSE 2]) ELSE i
  IN  IF DOMAIN repl = {} THEN fn
      ELSE MapInsts(fn, LAMBDA i : Taken(ResolveInst(i, repl)))
ConstantsAmong(values) == [id \in {x \in DOMAIN values : IsConstant(values[x])} |-> values[id]]
SparseConditionalConstantPropagation(fn) == Propagated(fn, ConstantsAmong(SccpValues(fn)))

----------------------------------------------------------------------------
\* instKey, as the set of ways to write one computation: a comparison turned
\* round, the operands of a commutative operator exchanged.
Mirror == [lt |-> "gt", gt |-> "lt", le |-> "ge", ge |-> "le", eq |-> "eq", ne |-> "ne"]
InstKey(i) ==
  LET written == <<i.op, i.attr, i.args>>
      turned(attr) == <<i.op, attr, <<i.args[2], i.args[1]>>>>
  IN  CASE i.op \in {"add", "mul"} -> {written, turned(i.attr)}
        [] i.op = "icmp" -> {written, turned(Mirror[i.attr])}
        [] OTHER -> {written}

CseOps == {"gep", "add", "sub", "mul", "div", "mod", "neg", "not", "icmp", "cast"}

\* Reuse what is available, or make it available.
Reuse(st, i) ==
  IF InstKey(i) \in DOMAIN st.available THEN Replaced(st, i, st.available[InstKey(i)])
  ELSE Emitted([st EXCEPT !.available = Bind(@, InstKey(i), Var(i.res))], <<i>>)
ReuseComputation(st, i) == IF i.op \in CseOps THEN Reuse(st, i) ELSE Emitted(st, <<i>>)

\* eliminateCommonSubexpressions: within a block, up to a call or a store.
EliminateCommonSubexpressions(fn) ==
  LET Forget(st, b) == [st EXCEPT !.available = Emptymap]
      Visit(st, i) == IF i.op \in {"call", "store"} THEN Emitted(Forget(st, 0), <<i>>)
                      ELSE ReuseComputation(st, i)
  IN  Settled(Sweep(fn, [repl |-> Emptymap, available |-> Emptymap], Forget, Visit))

\* eliminateGlobalCommonSubexpressions: down the dominator tree, what is
\* available handed to the children; the replacements are common to all.
\* Functions here are far below the limits on size and register pressure
\* that make the pass stand back.
RECURSIVE GcseVisit(_, _, _, _, _)
GcseVisit(fn, dom, b, available, repl) ==
  LET OneInst(acc, i) ==
        LET r == ReuseComputation(acc.st, ResolveInst(i, acc.st.repl))
        IN  [st |-> r.st, insts |-> acc.insts \o r.insts]
      here == Through(OneInst, [st |-> [repl |-> repl, available |-> available],
                                 insts |-> <<>>], fn.blocks[b].insts)
      Down(acc, child) == GcseVisit(acc.fn, dom, child, here.st.available, acc.repl)
  IN  Through(Down, [fn |-> [fn EXCEPT !.blocks[b].insts = here.insts],
                      repl |-> here.st.repl], Children(fn, dom, b))

EliminateGlobalCommonSubexpressions(fn) ==
  Settled(GcseVisit(fn, Dominators(fn), 1, Emptymap, Emptymap))

----------------------------------------------------------------------------
\* eliminateDeadCode: one round, pure instructions nothing uses.
EliminateDeadCode(fn) ==
  LET used == {v[2] : v \in {w \in UNION {Range(i.args) : i \in Range(AllInsts(fn))} : IsVar(w)}}
      Live(i) == i.res = NoResult \/ ~IsPure(i) \/ i.res \in used
  IN  [fn EXCEPT !.blocks = [b \in DOMAIN @ |-> [@[b] EXCEPT !.insts = Keep(@, Live)]]]

============================================================================
