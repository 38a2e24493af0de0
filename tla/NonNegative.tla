------------------------------ MODULE NonNegative ------------------------------
(***************************************************************************)
(* Which values the code generator takes to be not negative                *)
(* (analyzeNonNegativeValues of src/src/backend/arm/emit.cpp), by rounds   *)
(* over the instructions until nothing is added.  A division or a          *)
(* remainder of such a value is printed shorter.                           *)
(***************************************************************************)
EXTENDS IRSemantics

\* defs gives the definition of each result; known has two sets of numbers,
\* of values and of objects.
MadeBy(defs, v, op) == IsVar(v) /\ v[2] \in DOMAIN defs /\ defs[v[2]].op = op

\* constantI32, isKnownNonNegative, positiveConstant
Word(v) == Wrap(v[2])
IsKnown(known, v) == IF IsConst(v) THEN Word(v) >= 0 ELSE IsVar(v) /\ v[2] \in known.values
Positive(v) == IsConst(v) /\ Word(v) > 0

\* valuePreservesPhi: v is the value p, or a choice between copies of it.
\* seen are the values looked at, which stay marked from call to call.
Looked(ok, seen) == [ok |-> ok, seen |-> seen]
RECURSIVE Preserves(_, _, _, _)
Preserves(defs, v, p, seen) ==
  IF ~IsVar(v) THEN Looked(FALSE, seen)
  ELSE IF v[2] \in seen \cup {p} THEN Looked(TRUE, seen)
  ELSE IF ~MadeBy(defs, v, "phi") THEN Looked(FALSE, seen \cup {v[2]})
  ELSE FoldLeft(LAMBDA acc, arg : IF acc.ok THEN Preserves(defs, arg, p, acc.seen) ELSE acc,
                Looked(TRUE, seen \cup {v[2]}), defs[v[2]].args)

\* phiBackedgeAddsNonNegative
Grows(defs, known, v, p) ==
  /\ MadeBy(defs, v, "add")
  /\ LET a == defs[v[2]].args[1]
         b == defs[v[2]].args[2]
         one == Preserves(defs, a, p, {})
         again == IF one.ok /\ IsKnown(known, b) THEN one ELSE Preserves(defs, b, p, one.seen)
     IN  (one.ok /\ IsKnown(known, b)) \/ (again.ok /\ IsKnown(known, a))

\* phiProducesNonNegative
PhiStays(defs, known, i) ==
  /\ \E v \in Range(i.args) : v # Var(i.res) /\ IsKnown(known, v)
  /\ \A v \in Range(i.args) : v = Var(i.res) \/ IsKnown(known, v) \/ Grows(defs, known, v, i.res)

\* instructionProducesNonNegative
Produces(defs, known, i) ==
  CASE i.op = "load" -> MadeBy(defs, i.args[1], "alloca") /\ i.args[1][2] \in known.objects
    [] i.op \in {"add", "mul"} -> IsKnown(known, i.args[1]) /\ IsKnown(known, i.args[2])
    [] i.op \in {"div", "mod"} -> IsKnown(known, i.args[1]) /\ Positive(i.args[2])
    [] i.op \in {"icmp", "not"} -> TRUE
    [] i.op = "call" -> i.attr = "getarray"
    [] i.op = "phi" -> PhiStays(defs, known, i)
    [] OTHER -> FALSE

\* allStoresKeepAllocaNonNegative: of a scalar, every value stored to it is
\* not negative, or adds to what it holds.
ObjectStays(fn, defs, known, d) ==
  LET stores == {i \in Range(AllInsts(fn)) : i.op = "store" /\ i.args[2] = Var(d)}
      Held(v) == MadeBy(defs, v, "load") /\ defs[v[2]].args[1] = Var(d)
      AddsTo(v) == /\ MadeBy(defs, v, "add")
                   /\ LET a == defs[v[2]].args[1]
                          b == defs[v[2]].args[2]
                      IN  (Held(a) /\ IsKnown(known, b)) \/ (Held(b) /\ IsKnown(known, a))
  IN  /\ stores # {}
      /\ \A i \in stores : IsKnown(known, i.args[1]) \/ AddsTo(i.args[1])

\* seedHalvingLengthParameters: a parameter that is compared with 1 somewhere
\* and halved somewhere is taken to be a length.
Lengths(fn, defs) ==
  {p \in Range(fn.params) \ fn.arrays :
     /\ \E i \in Range(AllInsts(fn)) :
          i.op = "icmp" /\ i.attr = "eq" /\ Range(i.args) = {Var(p), Const(1)}
     /\ \E i \in Range(AllInsts(fn)) :
          i.op = "div" /\ i.args[2] = Const(2) /\ Preserves(defs, i.args[1], p, {}).ok}

RECURSIVE Infer(_, _, _)
Infer(fn, defs, known) ==
  LET insts == Range(AllInsts(fn))
      more == [values |-> known.values \cup
                          {i.res : i \in {j \in insts : j.res # NoResult /\ Produces(defs, known, j)}},
               objects |-> known.objects \cup
                           {i.res : i \in {j \in insts : /\ j.op = "alloca" /\ j.args[1] = Const(4)
                                                         /\ ObjectStays(fn, defs, known, j.res)}}]
  IN  IF more = known THEN known ELSE Infer(fn, defs, more)

NonNegativeValues(fn, defs) ==
  Infer(fn, defs, [values |-> Lengths(fn, defs), objects |-> {}]).values

================================================================================
