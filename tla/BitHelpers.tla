------------------------------- MODULE BitHelpers -------------------------------
(***************************************************************************)
(* Functions the code generator takes for a bit operation                  *)
(* (matchFastBitHelper of src/src/backend/arm/emit.cpp) and prints as one. *)
(* SysY has no operators on bits, so that programs count them out; the     *)
(* recognisers look for some of the instructions such a function has.      *)
(***************************************************************************)
EXTENDS IR, Immediates

TakesWords(fn, n) == ~fn.void /\ Len(fn.params) = n /\ fn.arrays = {}
IsParam(fn, v, k) == v = Var(fn.params[k])
Answers(fn) == {i.args[1] : i \in {j \in Range(AllInsts(fn)) : j.op = "ret" /\ j.args # <<>>}}
MadeIn(fn, v) == IF IsVar(v) THEN Defined(fn, v[2]) ELSE {}

\* matchUnaryBitNot: one of the answers is -1 - x; the others are not looked at.
IsBitNot(fn) ==
  /\ TakesWords(fn, 1)
  /\ \E v \in Answers(fn) : \E i \in MadeIn(fn, v) :
       i.op = "sub" /\ i.args[1] = Const(-1) /\ IsParam(fn, i.args[2], 1)

\* matchSmallShiftSelector: the answers are the first parameter, and products
\* of it, or quotients, with powers of two; the second parameter is compared
\* with 1 to 8.  Which power belongs to which of them is not looked at.
Amounts(fn) ==
  {i.args[2][2] : i \in {j \in Range(AllInsts(fn)) :
     j.op = "icmp" /\ j.attr = "eq" /\ IsParam(fn, j.args[1], 2) /\ IsConst(j.args[2])}} \cap (1 .. 8)
Scales(fn, v, ops) ==
  \E i \in MadeIn(fn, v) :
    i.op \in ops /\ IsParam(fn, i.args[1], 1) /\ i.args[2] \in {Const(2 ^ k) : k \in 1 .. 8}
ShiftsBy(fn, op) ==
  /\ TakesWords(fn, 2)
  /\ Cardinality(Amounts(fn)) = 8
  /\ \E v \in Answers(fn) : IsParam(fn, v, 1)
  /\ \E v \in Answers(fn) : ~IsParam(fn, v, 1)
  /\ \A v \in Answers(fn) : IsParam(fn, v, 1) \/ Scales(fn, v, {op})

\* matchBitAccumulatorLoop: a loop over 32 bits, by the instructions it has.
\* Operands count as variables of the loop if their phi comes before.
IsPhi(insts, k, v) == \E j \in 1 .. (k - 1) : insts[j].op = "phi" /\ v = Var(insts[j].res)
Has(insts, op, args) == \E i \in Range(insts) : i.op = op /\ args \subseteq Range(i.args)
ByTwo(insts, op) == {k \in DOMAIN insts : insts[k].op = op /\ insts[k].args[2] = Const(2)}
CountsBits(fn) ==
  LET insts == AllInsts(fn)
      Of(op, P(_, _)) == \E k \in DOMAIN insts : insts[k].op = op /\ P(k, insts[k].args)
      FromPhi(k, v) == IsPhi(insts, k, v)
  IN  /\ TakesWords(fn, 2)
      /\ \A n \in {32, 0, 1} : Has(insts, "phi", {Const(n)})
      /\ Cardinality(ByTwo(insts, "mod")) >= 2 /\ Cardinality(ByTwo(insts, "div")) >= 2
      /\ Of("add", LAMBDA k, args : FromPhi(k, args[1]) /\ FromPhi(k, args[2]))
      /\ Of("mul", LAMBDA k, args : Const(2) \in Range(args) /\ \E v \in Range(args) : FromPhi(k, v))
      /\ Of("sub", LAMBDA k, args : FromPhi(k, args[1]) /\ args[2] = Const(1))
      /\ Of("ret", LAMBDA k, args : args # <<>> /\ FromPhi(k, args[1]))

\* Which operation it is for: a test for difference, or what a short circuit
\* stores first.
StoresFirst(insts, n) == \E i \in Range(insts) : i.op = "store" /\ i.args[1] = Const(n)
Counted(fn) ==
  LET insts == AllInsts(fn)
      differs == \E i \in Range(insts) : i.op = "icmp" /\ i.attr = "ne"
  IN  CASE differs -> {"eor"}
        [] ~differs /\ StoresFirst(insts, 0) /\ ~StoresFirst(insts, 1) -> {"and"}
        [] ~differs /\ StoresFirst(insts, 1) /\ ~StoresFirst(insts, 0) -> {"orr"}
        [] OTHER -> {}

\* matchFastBitHelper: the operation, or none.
BitOperation(fn) ==
  IF IsBitNot(fn) THEN {"mvn"}
  ELSE IF ShiftsBy(fn, "mul") THEN {"lsl"}
  ELSE IF ShiftsBy(fn, "div") THEN {"asr"}
  ELSE IF CountsBits(fn) THEN Counted(fn) ELSE {}

\* The instructions, on registers 0 and 1.
OperationLines(op) ==
  CASE op = "mvn" -> <<Regs(op, <<w0, w0>>)>>
    [] op \in {"and", "orr", "eor"} -> <<Regs(op, <<w0, w0, w1>>)>>
    [] op \in {"lsl", "asr"} -> <<Imm("cmp", <<w1>>, 8), Regs(op, <<w2, w0, w1>>), Cond("csel", <<w0, w2, w0>>, "ls")>>

=================================================================================
