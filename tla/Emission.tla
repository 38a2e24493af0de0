------------------------------- MODULE Emission -------------------------------
(***************************************************************************)
(* The generic path of the code generator (class A64CodeGen of             *)
(* src/src/backend/arm/emit.cpp): what it finds out about a function       *)
(* before it prints, and the instructions it prints for each of the IR.    *)
(* Every result has a slot in the frame, except those whose computation is *)
(* put off until their only use.  The recognisers of whole kernels are     *)
(* left out, those for a bit operation and for a choice between two        *)
(* scalars are not.                                                        *)
(***************************************************************************)
EXTENDS A64, ModulePasses, NonNegative, BitHelpers, Frame

BinaryOps == {"add", "sub", "mul", "div", "mod", "icmp"}

\* Labels: of a function, of its blocks, of its end, and of the copies on the
\* far edge of a conditional branch.
FunctionLabel(f) == <<f, "function", f>>
BlockLabel(c, l) == <<c.name, "block", l>>
CopyLabel(c, l) == <<c.name, "copies", l>>
Epilogue(c) == <<c.name, "ret", c.name>>

----------------------------------------------------------------------------
(* analyzeUses: which results are put off.                                 *)

Operands(fn) == FlattenSeq([k \in DOMAIN AllInsts(fn) |-> AllInsts(fn)[k].args])
UseCounts(fn) ==
  LET ops == Operands(fn)
      ids == {v[2] : v \in {o \in Range(ops) : IsVar(o)}}
  IN  Table([id \in ids |-> Cardinality({k \in DOMAIN ops : ops[k] = Var(id)})])
Definitions(fn) == Table([id \in Results(fn) |-> Definition(fn, id)])

\* c is what is known of the function; Made(c, v, ops): v is the result of
\* one of these.
Made(c, v, ops) == IsVar(v) /\ v[2] \in DOMAIN c.defs /\ c.defs[v[2]].op \in ops

OnlyUse(c, v, ops) == Made(c, v, ops) /\ c.uses[v[2]] = 1

\* splitAddressIndexConstant: <<variable, constant>>, or nothing.
SplitIndex(i) ==
  CASE i.op = "add" /\ IsConst(i.args[2]) /\ IsVar(i.args[1]) -> <<i.args[1], i.args[2][2]>>
    [] i.op = "add" /\ IsConst(i.args[1]) /\ IsVar(i.args[2]) -> <<i.args[2], i.args[1][2]>>
    [] i.op = "sub" /\ IsConst(i.args[2]) /\ IsVar(i.args[1]) -> <<i.args[1], -i.args[2][2]>>
    [] OTHER -> <<>>

\* canSuppressStoreValue
CanWaitForStore(i) ==
  \/ i.op \in {"add", "sub", "mul", "icmp", "neg", "not"}
  \/ i.op \in {"div", "mod"} /\ ~IsConst(i.args[2])

PutOffMul(c, insts) ==
  {v[2] : v \in UNION {IF OnlyUse(c, i.args[1], {"mul"}) THEN {i.args[1]}
                       ELSE {o \in {i.args[2]} : OnlyUse(c, o, {"mul"})} :
                         i \in {j \in insts : j.op \in {"add", "sub"}}}}
PutOffTest(c, insts) ==
  {i.args[1][2] : i \in {j \in insts : j.op = "condbr" /\ OnlyUse(c, j.args[1], {"icmp", "not"})}}
AddressOperands(i) ==
  CASE i.op \in {"load", "gep"} -> {i.args[1]} [] i.op = "store" -> {i.args[2]} [] OTHER -> {}
PutOffAddress(c, insts) ==
  {v[2] : v \in {o \in UNION {AddressOperands(i) : i \in insts} : OnlyUse(c, o, {"gep"})}}
PutOffIndex(c, insts) ==
  {i.args[2][2] : i \in {j \in insts : /\ j.op = "gep"
                                       /\ OnlyUse(c, j.args[2], {"add", "sub"})
                                       /\ SplitIndex(c.defs[j.args[2][2]]) # <<>>}}
\* The value stored: computed at the store, or loaded just before it.
PutOffStored(c, fn) ==
  {i.args[1][2] : i \in {j \in Range(AllInsts(fn)) :
      /\ j.op = "store"
      /\ OnlyUse(c, j.args[1], BinaryOps \cup {"neg", "not"})
      /\ CanWaitForStore(c.defs[j.args[1][2]])}}
  \cup
  UNION {LET insts == fn.blocks[b].insts
         IN  {insts[k].res : k \in {n \in 1 .. (Len(insts) - 1) :
                /\ insts[n].op = "load"
                /\ insts[n + 1].op = "store"
                /\ insts[n + 1].args[1] = Var(insts[n].res)
                /\ c.uses[insts[n].res] = 1}} : b \in BlockIndices(fn)}

----------------------------------------------------------------------------
(* The frame.                                                              *)

Pointers(fn) == fn.arrays \cup {i.res : i \in {j \in Range(AllInsts(fn)) : j.op \in {"gep", "alloca"}}}
IsPtr(c, v) == IsGlobal(v) \/ (IsVar(v) /\ v[2] \in c.ptrs)
Sized(c, id, n) == IF id \in c.ptrs THEN Xreg(n) ELSE Wreg(n)

\* Every put-off result, whatever for: resultStorageSuppressed.
PutOff(c) == c.mul \cup c.test \cup c.address \cup c.index \cup c.stored

\* What asks for room, in order: the parameters, the objects, the results.
Rooms(c, fn) ==
  LET Slot(id) == LET n == Sized(c, id, 0).bytes IN Claim(id, n, n)
      asking == SelectSeq(AllInsts(fn), LAMBDA i : i.op = "alloca" \/ i.res \in Results(fn) \ PutOff(c))
  IN  [k \in DOMAIN fn.params |-> Slot(fn.params[k])]
      \o [k \in DOMAIN asking |-> IF asking[k].op = "alloca"
                                  THEN Claim(asking[k].res, asking[k].args[1][2], 16)
                                  ELSE Slot(asking[k].res)]

\* buildPhiCopies: the copies on each edge, in the order of the phis.
BuildPhiCopies(fn) ==
  LET On(edge) ==
        LET insts == fn.blocks[IndexOf(fn, edge[2])].insts
            leading == {k \in DOMAIN insts : \A j \in 1 .. k : insts[j].op = "phi"}
            phis == SubSeq(insts, 1, Cardinality(leading))
            From(i) == SelectSeq([k \in DOMAIN i.labs |-> k], LAMBDA k : i.labs[k] = edge[1])
        IN  FlattenSeq([n \in DOMAIN phis |->
              [k \in DOMAIN From(phis[n]) |->
                 Copy(phis[n].res, phis[n].args[From(phis[n])[k]])]])
  IN  Table([edge \in Labels(fn) \X Labels(fn) |-> On(edge)])

\* What emitFunction knows of a function when it begins to print it.
Known(prog, f) ==
  LET fn == prog.funs[f]
      insts == Range(AllInsts(fn))
      c == [defs |-> Definitions(fn), uses |-> UseCounts(fn), ptrs |-> Pointers(fn)]
      put == [defs |-> c.defs, ptrs |-> c.ptrs, name |-> f, fn |-> fn, uses |-> c.uses,
              mul |-> PutOffMul(c, insts), test |-> PutOffTest(c, insts),
              address |-> PutOffAddress(c, insts), index |-> PutOffIndex(c, insts),
              stored |-> PutOffStored(c, fn)]
      frame == CollectFrame(Rooms(put, fn))
      objects == {i.res : i \in {j \in insts : j.op = "alloca"}}
  IN  put @@ [nonNegative |-> NonNegativeValues(fn, c.defs),
              slots |-> Table(Restrict(frame.at, DOMAIN frame.at \ objects)),
              objects |-> Table(Restrict(frame.at, objects)),
              size |-> frame.size,
              copies |-> BuildPhiCopies(fn)]

\* A result without a slot is looked for at the frame pointer itself.
SlotOf(c, id) == IF id \in DOMAIN c.slots THEN c.slots[id] ELSE 0

----------------------------------------------------------------------------
(* Reading and writing slots.  moved says that temporaries have moved the  *)
(* stack pointer (temporarySpDepth_), so that it does not lead to slots.   *)

Unscaled == -256 .. 255      \* isA64UnscaledImm

\* isA64UnsignedSpSlot
SpLeadsTo(c, off, bytes, moved) ==
  ~moved /\ (c.size + off) \in 0 .. (4095 * bytes) /\ (c.size + off) % bytes = 0

\* loadWReg, storeWReg and their kin; op is "ldr" or "str".
UnscaledOp == [ldr |-> "ldur", str |-> "stur"]
\* Mutation: the stack pointer is taken to reach everything above it.
AccessAnySlot(c, op, r, off, moved) ==
  IF off \in Unscaled THEN <<Transfer(UnscaledOp[op], r, x29, off)>>
  ELSE IF ~moved /\ (c.size + off) % r.bytes = 0 THEN <<Transfer(op, r, sp, c.size + off)>>
  ELSE FrameAddress(x16, off) \o <<Transfer(op, r, x16, 0)>>

Access(c, op, r, off, moved) ==
  IF off \in Unscaled THEN <<Transfer(UnscaledOp[op], r, x29, off)>>
  ELSE IF SpLeadsTo(c, off, r.bytes, moved) THEN <<Transfer(op, r, sp, c.size + off)>>
  ELSE FrameAddress(x16, off) \o <<Transfer(op, r, x16, 0)>>
LoadSlot(c, r, off, moved) == Access(c, "ldr", r, off, moved)
StoreSlot(c, r, off, moved) == Access(c, "str", r, off, moved)

(* Values into register n.  They are asked for by a line that stands for    *)
(* those of emitValueTo, or of emitPtrTo and its kin, for what is not a     *)
(* product put off.                                                        *)
ValueTo(n, v, moved) == <<Line("value", <<Wreg(n)>>, {}, moved, v)>>
Plain(n, v, moved) == <<Line("plain", <<Wreg(n)>>, {}, moved, v)>>

LoadAddress(r, g) == <<Jump("adrp", <<r>>, <<g>>), Line("add", <<r, r>>, {}, ":lo12:", <<g>>)>>
PlainLines(c, n, v, moved) ==
  CASE IsConst(v) -> LoadImmediate32(Wreg(n), Word(v))
    [] IsGlobal(v) -> LoadAddress(Xreg(n), v[2])
    [] IsVar(v) -> IF v[2] \in DOMAIN c.objects THEN FrameAddress(Xreg(n), c.objects[v[2]])
                   ELSE LoadSlot(c, Sized(c, v[2], n), SlotOf(c, v[2]), moved)
ValueLines(c, n, v, moved) ==
  LET args == c.defs[v[2]].args
      scratch == IF n = 16 THEN 17 ELSE 16
      wanted == IF IsVar(v) /\ v[2] \in c.mul THEN <<<<n, args[1]>>, <<scratch, args[2]>>>> ELSE <<<<n, v>>>>
  IN  FlattenSeq([k \in DOMAIN wanted |-> PlainLines(c, wanted[k][1], wanted[k][2], moved)])
      \o IF Len(wanted) = 1 THEN <<>> ELSE <<Regs("mul", <<Wreg(n), Wreg(n), Wreg(scratch)>>)>>
\* What is printed for lines some of which stand for others.
Spelled(c, lines) ==
  FlattenSeq([k \in DOMAIN lines |->
    LET line == lines[k]
    IN  CASE line.op = "value" -> ValueLines(c, line.rs[1].n, line.l, line.form)
          [] line.op = "plain" -> PlainLines(c, line.rs[1].n, line.l, line.form)
          [] OTHER -> <<line>>])

Result(c, i) == StoreSlot(c, Sized(c, i.res, 0), SlotOf(c, i.res), FALSE)

(* Addresses into register n: emitAddressTo, emitAddressOperandTo.         *)
\* An index not constant, into register n; what of it is constant goes to
\* the address, in register r, at once.
IndexTo(c, r, n, index) ==
  IF IsVar(index) /\ index[2] \in c.index
  THEN LET split == SplitIndex(c.defs[index[2]])
       IN  PointerOffset(Xreg(r), 4 * split[2]) \o ValueTo(n, split[1], FALSE)
  ELSE ValueTo(n, index, FALSE)

RECURSIVE AddressTo(_, _, _)
AddressOperandTo(c, n, v) ==
  IF IsVar(v) /\ v[2] \in c.address THEN AddressTo(c, n, c.defs[v[2]]) ELSE Plain(n, v, FALSE)
AddressTo(c, n, gep) ==
  AddressOperandTo(c, n, gep.args[1])
  \o IF IsConst(gep.args[2]) /\ InReach(4 * Word(gep.args[2]))
     THEN PointerOffset(Xreg(n), 4 * Word(gep.args[2]))
     ELSE LET other == IF n = 1 THEN 0 ELSE 1
          IN  IndexTo(c, n, other, gep.args[2]) \o <<Shaped("add", <<Xreg(n), Xreg(n), Wreg(other)>>, "sxtw", 2)>>

----------------------------------------------------------------------------
(* Computing.                                                              *)

\* isFusableIntMulValue
IsFusable(c, v) == IsVar(v) /\ (v[2] \in c.mul \/ OnlyUse(c, v, {"mul"}))

\* emitFusedMulBinary: which operand of a sum is the product, if one is.
FusedOperand(c, i) ==
  IF i.op \notin {"add", "sub"} THEN 0
  ELSE IF IsFusable(c, i.args[1]) THEN 1
  ELSE IF IsFusable(c, i.args[2]) THEN 2 ELSE 0
Fused(c, i) ==
  LET k == FusedOperand(c, i)
      factors == c.defs[i.args[k][2]].args
  IN  Plain(0, factors[1], FALSE) \o Plain(1, factors[2], FALSE)
      \o ValueTo(2, i.args[3 - k], FALSE)
      \o <<Regs(IF i.op = "add" THEN "madd" ELSE "msub", <<w0, w0, w1, w2>>)>>
      \o IF i.op = "sub" /\ k = 1 THEN <<Regs("neg", <<w0, w0>>)>> ELSE <<>>

InverseCond == [eq |-> "ne", ne |-> "eq", lt |-> "ge", le |-> "gt", gt |-> "le", ge |-> "lt"]
\* Mutation: where the operands are exchanged, the comparison is inverted.
ReverseCondInverted == InverseCond

ReverseCond == [eq |-> "eq", ne |-> "ne", lt |-> "gt", le |-> "ge", gt |-> "lt", ge |-> "le"]

\* The smallest word has no magnitude among the words.
Smallest == -HalfRange
Comparable(v) == IsConst(v) /\ Word(v) # Smallest /\ CompareImm(Word(v))

\* emitAddSubImmediate: of the smallest word it calls itself for ever.
Endless == Regs("endless", <<>>)
SumWith(c, op, base, imm) ==
  LET other == IF op = "add" THEN "sub" ELSE "add"
  IN  IF imm = Smallest THEN {<<Endless>>}
      ELSE {ValueTo(0, base, FALSE) \o <<AddSub(IF imm < 0 THEN other ELSE op, <<w0, w0>>, n)>> :
              n \in {n \in {Magnitude(imm)} : AddSubImm(n)}}

\* The first of two sets that has a member.
OrElse(one, two) == IF one # {} THEN one ELSE two

\* emitImmediateBinary: what there is to print when an operand is a constant;
\* quotients and remainders only where the result has a slot.
WithConstant(c, i, slot) ==
  LET a == i.args[1]
      b == i.args[2]
      nonNegative == IsVar(a) /\ a[2] \in c.nonNegative
      Sum(v, k) == IF IsConst(k) THEN SumWith(c, i.op, v, Word(k)) ELSE {}
      Times(v, k) == IF IsConst(k) /\ MulEasily(Word(k))
                     THEN {ValueTo(0, v, FALSE) \o MulLines(Word(k))} ELSE {}
      Test(v, k, cond) == IF Comparable(k)
                          THEN {ValueTo(0, v, FALSE) \o <<CompareImmediate(w0, Word(k)), Cond("cset", <<w0>>, cond)>>}
                          ELSE {}
      By(ways) == {FlattenSeq(SetToSeq({ValueTo(n, a, FALSE) : n \in way.wanted})) \o way.lines : way \in ways}
  IN  CASE i.op = "add" -> OrElse(Sum(a, b), Sum(b, a))
        [] i.op = "sub" -> Sum(a, b)
        [] i.op = "mul" -> OrElse(Times(a, b), Times(b, a))
        [] i.op = "icmp" -> OrElse(Test(a, b, i.attr), Test(b, a, ReverseCond[i.attr]))
        [] i.op \in {"div", "mod"} ->
             IF ~slot \/ ~IsConst(b) \/ Word(b) = 0 THEN {}
             ELSE By(IF i.op = "div" THEN DivWays(Word(b), nonNegative) ELSE ModWays(Word(b), nonNegative))

General(i) ==
  CASE i.op \in {"add", "sub", "mul"} -> <<Regs(i.op, <<w0, w0, w1>>)>>
    [] i.op = "div" -> <<Regs("sdiv", <<w0, w0, w1>>)>>
    [] i.op = "mod" -> <<Regs("sdiv", <<w2, w0, w1>>), Regs("msub", <<w0, w2, w1, w0>>)>>
    [] i.op = "icmp" -> <<Regs("cmp", <<w0, w1>>), Cond("cset", <<w0>>, i.attr)>>

Binary(c, i, slot) ==
  IF FusedOperand(c, i) # 0 THEN Fused(c, i)
  ELSE LET short == WithConstant(c, i, slot)
       IN  IF short # {} THEN CHOOSE lines \in short : TRUE
           ELSE ValueTo(0, i.args[1], FALSE) \o ValueTo(1, i.args[2], FALSE) \o General(i)

Unary(i) == IF i.op = "neg" THEN <<Regs("neg", <<w0, w0>>)>>
            ELSE <<Imm("cmp", <<w0>>, 0), Cond("cset", <<w0>>, "eq")>>

\* The result into register 0: emitInstResultToReturn if it goes nowhere else.
ResultTo0(c, i, slot) ==
  CASE i.op = "load" -> AddressOperandTo(c, 1, i.args[1]) \o <<Transfer("ldr", w0, x1, 0)>>
    [] i.op = "gep" -> AddressTo(c, 0, i)
    [] i.op \in {"neg", "not"} -> ValueTo(0, i.args[1], FALSE) \o Unary(i)
    [] i.op \in BinaryOps -> Binary(c, i, slot)

\* An element of an object of the frame is at an offset known here.
DirectElement(c, v) ==
  IF IsVar(v) /\ v[2] \in DOMAIN c.objects THEN {c.objects[v[2]]}
  ELSE IF IsVar(v) /\ v[2] \in c.address
       THEN LET args == c.defs[v[2]].args
            IN  {c.objects[b[2]] + 4 * Word(args[2]) :
                   b \in {o \in {args[1]} : IsVar(o) /\ o[2] \in DOMAIN c.objects /\ IsConst(args[2])}}
  ELSE {}

\* The address v in register 1, as far as it goes before the access, and the
\* access of register r, at a constant offset or an index.
Accessed(c, op, r, v) ==
  IF ~(IsVar(v) /\ v[2] \in c.address)
  THEN [before |-> AddressOperandTo(c, 1, v), access |-> Transfer(op, r, x1, 0)]
  ELSE LET args == c.defs[v[2]].args
           base == AddressOperandTo(c, 1, args[1])
           bytes == 4 * Word(args[2])
       IN  IF ~IsConst(args[2]) \/ ~InReach(bytes)
           THEN [before |-> base \o IndexTo(c, 1, 2, args[2]), access |-> Indexed(op, r, x1, w2)]
           ELSE IF bytes \in 0 .. 16380 \cup Unscaled
           THEN [before |-> base, access |-> Transfer(op, r, x1, bytes)]
           ELSE [before |-> base \o PointerOffset(x1, bytes), access |-> Transfer(op, r, x1, 0)]

LoadInst(c, i) ==
  LET read == Accessed(c, "ldr", w0, i.args[1])
      direct == DirectElement(c, i.args[1])
  IN  (IF direct # {} THEN LoadSlot(c, w0, Max(direct), FALSE)
       ELSE Append(read.before, read.access)) \o Result(c, i)

\* emitStore: a value put off is computed before the address is, into the
\* register it is stored from.
StoreInst(c, i) ==
  LET v == i.args[1]
      zero == v = Const(0)
      r == IF zero THEN wzr ELSE w0
      waits == IsVar(v) /\ v[2] \in c.stored
      fuses == /\ IsVar(v) /\ v[2] \in DOMAIN c.defs /\ FusedOperand(c, c.defs[v[2]]) # 0
               /\ IsVar(i.args[2]) /\ i.args[2][2] \in DOMAIN c.objects \cup c.address
      early == IF waits \/ fuses THEN ResultTo0(c, c.defs[v[2]], FALSE) ELSE <<>>
      late == IF waits \/ fuses \/ zero THEN <<>> ELSE ValueTo(0, v, FALSE)
      write == Accessed(c, "str", r, i.args[2])
      direct == DirectElement(c, i.args[2])
  IN  IF direct # {} THEN early \o late \o StoreSlot(c, r, Max(direct), FALSE)
      ELSE early \o write.before \o late \o <<write.access>>

----------------------------------------------------------------------------
(* Copies at once: the phis of an edge, the parameters of a call of the    *)
(* function itself.                                                        *)

\* emitPhiCopyList, storeCopy
CopyList(c, copies) ==
  LET bytes == AlignTo(8 * Len(copies), 16)
      steps == CopySteps(copies)
      R(copy) == Sized(c, copy.target, 0)
      Code(does, k, copy) ==
        CASE does = "set" ->
               IF copy.source = Var(copy.target) THEN <<>>
               ELSE ValueTo(0, copy.source, FALSE)
                    \o StoreSlot(c, R(copy), SlotOf(c, copy.target), FALSE)
          [] does = "save" ->
               Append(ValueTo(0, copy.source, TRUE), Transfer("str", R(copy), sp, 8 * (k - 1)))
          [] does = "move" ->
               <<Transfer("ldr", R(copy), sp, 8 * (k - 1))>>
               \o StoreSlot(c, R(copy), SlotOf(c, copy.target), TRUE)
      code == FlattenSeq([n \in DOMAIN steps |-> Code(steps[n].does, steps[n].at, steps[n].copy)])
  IN  IF IsDirect(copies) THEN code ELSE MoveSp("sub", bytes) \o code \o MoveSp("add", bytes)

PhiCopies(c, from, to) == CopyList(c, c.copies[<<from, to>>])

SelfTailCall(c, i) ==
  CopyList(c, [k \in DOMAIN c.fn.params |-> Copy(c.fn.params[k], i.args[k])])
  \o <<Jump("b", <<>>, BlockLabel(c, c.fn.blocks[1].label))>>

----------------------------------------------------------------------------
(* Branches.                                                               *)

GoTo(c, l, next) == IF {l} = next THEN <<>> ELSE <<Jump("b", <<>>, BlockLabel(c, l))>>

\* emitCondBranch: the jumps to the copies of the far edge, if the condition
\* holds and if it does not, are those of test.  The block printed next, if
\* any, is the only member of next.
Fork(c, from, labs, next, test) ==
  LET Towards(l) == PhiCopies(c, from, l)
      far == CopyLabel(c, from)
  IN  IF {labs[1]} = next
      THEN <<test.yes>> \o Towards(labs[2]) \o GoTo(c, labs[2], next)
           \o <<Lab(far)>> \o Towards(labs[1])
      ELSE <<test.no>> \o Towards(labs[1]) \o <<Jump("b", <<>>, BlockLabel(c, labs[1]))>>
           \o <<Lab(far)>> \o Towards(labs[2]) \o GoTo(c, labs[2], next)

OnValue(c, from, trueWhenZero) ==
  LET On(zero) == Jump(IF zero THEN "cbz" ELSE "cbnz", <<w0>>, CopyLabel(c, from))
  IN  [yes |-> On(trueWhenZero), no |-> On(~trueWhenZero)]

\* emitFusedCondBranch, for a test put off until the branch on it.
FusedBranch(c, i, from, next) ==
  LET test == c.defs[i.args[1][2]]
      a == test.args[1]
      b == test.args[2]
      Short(v, k) == ValueTo(0, v, FALSE) \o <<CompareImmediate(w0, Word(k))>>
      Long(v, k, left, right) ==
        ValueTo(0, v, FALSE) \o ValueTo(1, k, FALSE) \o <<Regs("cmp", <<left, right>>)>>
      swapped == ~IsConst(b) /\ Comparable(a)
      cond == IF swapped THEN ReverseCond[test.attr] ELSE test.attr
      On(how) == Line("b.", <<>>, {}, how, CopyLabel(c, from))
  IN  IF test.op = "not"
      THEN ValueTo(0, a, FALSE) \o Fork(c, from, i.labs, next, OnValue(c, from, TRUE))
      ELSE (IF Comparable(b) THEN Short(a, b)
            ELSE IF swapped THEN Short(b, a)
            ELSE IF IsConst(a) /\ ~IsConst(b) THEN Long(b, a, w1, w0)
            ELSE Long(a, b, w0, w1))
           \o Fork(c, from, i.labs, next, [yes |-> On(cond), no |-> On(InverseCond[cond])])

Branch(c, i, from, next) ==
  IF i.op = "br" THEN PhiCopies(c, from, i.labs[1]) \o GoTo(c, i.labs[1], next)
  ELSE IF IsVar(i.args[1]) /\ i.args[1][2] \in c.test THEN FusedBranch(c, i, from, next)
  ELSE ValueTo(0, i.args[1], FALSE)
       \o Fork(c, from, i.labs, next, OnValue(c, from, FALSE))

\* The end of the last block is the end of the function.
ToEpilogue(c, next) == IF next = {} THEN <<>> ELSE <<Jump("b", <<>>, Epilogue(c))>>
ReturnInst(c, i, next) ==
  (IF i.args = <<>> THEN <<>> ELSE ValueTo(0, i.args[1], FALSE)) \o ToEpilogue(c, next)

----------------------------------------------------------------------------
(* Calls.                                                                  *)

\* matchScalarSelectFunction: a function that compares two scalars and returns
\* one of two, whatever else its first block loads and stores.
ScalarValue(fn, v) == IsConst(v) \/ (IsVar(v) /\ v[2] \in Range(fn.params) \ fn.arrays)
IsScalarSelect(fn) ==
  /\ ~fn.void
  /\ Len(fn.blocks) = 3
  /\ LET entry == fn.blocks[1].insts
         test == entry[Len(entry) - 1]
         Answer(l) == fn.blocks[IndexOf(fn, l)].insts
     IN  /\ Len(entry) >= 2
         /\ Last(entry).op = "condbr"
         /\ test.op = "icmp"
         /\ Last(entry).args[1] = Var(test.res)
         /\ \A v \in Range(test.args) : ScalarValue(fn, v)
         /\ \A k \in 1 .. (Len(entry) - 2) : entry[k].op \in {"alloca", "store", "load"}
         /\ \A l \in Range(Last(entry).labs) :
              /\ Len(Answer(l)) = 1
              /\ Answer(l)[1].op = "ret"
              /\ ScalarValue(fn, Answer(l)[1].args[1])

\* emitInlineScalarSelectCall
ScalarSelect(c, i, fn) ==
  LET entry == fn.blocks[1].insts
      test == entry[Len(entry) - 1]
      Mapped(v) == IF IsVar(v) THEN i.args[CHOOSE k \in DOMAIN fn.params : fn.params[k] = v[2]] ELSE v
      Answer(k) == Mapped(fn.blocks[IndexOf(fn, Last(entry).labs[k])].insts[1].args[1])
      a == Mapped(test.args[1])
      b == Mapped(test.args[2])
      w3 == Wreg(3)
      swapped == ~Comparable(b) /\ Comparable(a)
      Short(v, k) == ValueTo(2, v, FALSE) \o <<CompareImmediate(w2, Word(k))>>
  IN  (IF Comparable(b) THEN Short(a, b)
       ELSE IF swapped THEN Short(b, a)
       ELSE ValueTo(2, a, FALSE) \o ValueTo(3, b, FALSE) \o <<Regs("cmp", <<w2, w3>>)>>)
      \o ValueTo(0, Answer(1), FALSE) \o ValueTo(1, Answer(2), FALSE)
      \o <<Cond("csel", <<w0, w0, w1>>, IF swapped THEN ReverseCond[test.attr] ELSE test.attr)>>

ArgRegisters == 8

\* emitCall, the result left in register 0: arguments beyond the eighth go
\* where the stack pointer is moved to.
CallCode(c, prog, i) ==
  LET inRegs == SubSeq(i.args, 1, Min({ArgRegisters, Len(i.args)}))
      onStack == SubSeq(i.args, ArgRegisters + 1, Len(i.args))
      bytes == AlignTo(8 * Len(onStack), 16)
      moved == bytes > 0
      SizedValue(v, n) == IF IsPtr(c, v) THEN Xreg(n) ELSE Wreg(n)
      Pushed == [k \in DOMAIN onStack |->
        Append(ValueTo(0, onStack[k], TRUE), Transfer("str", SizedValue(onStack[k], 0), sp, 8 * (k - 1)))]
      operation == IF i.attr \in DOMAIN prog.funs THEN BitOperation(prog.funs[i.attr]) ELSE {}
  IN  IF operation # {}
      THEN FlattenSeq([k \in DOMAIN i.args |-> ValueTo(k - 1, i.args[k], FALSE)])
           \o OperationLines(CHOOSE op \in operation : TRUE)
      ELSE IF /\ i.attr \in DOMAIN prog.funs
              /\ i.attr # c.name
              /\ IsScalarSelect(prog.funs[i.attr])
      THEN ScalarSelect(c, i, prog.funs[i.attr])
      ELSE MoveSp("sub", bytes) \o FlattenSeq(Pushed)
           \o FlattenSeq([k \in DOMAIN inRegs |-> ValueTo(k - 1, inRegs[k], moved)])
           \o <<Jump("bl", <<>>, FunctionLabel(i.attr))>> \o MoveSp("add", bytes)

CallInst(c, prog, i) ==
  CallCode(c, prog, i) \o IF i.res = NoResult THEN <<>> ELSE Result(c, i)

\* storeParams: the first eight come in registers, the others above the saved
\* frame pointer and return address.
StoreParams(c) ==
  LET params == c.fn.params
      Comes(k) ==
        IF k <= ArgRegisters
        THEN StoreSlot(c, Sized(c, params[k], k - 1), SlotOf(c, params[k]), FALSE)
        ELSE <<Transfer("ldr", Sized(c, params[k], 9), x29, 16 + 8 * (k - ArgRegisters - 1))>>
             \o StoreSlot(c, Sized(c, params[k], 9), SlotOf(c, params[k]), FALSE)
  IN  FlattenSeq([k \in DOMAIN params |-> Comes(k)])

----------------------------------------------------------------------------
(* emitInst, for what does not transfer control.                           *)

(* emitGlobals: the words of a global, but bytes of zeros where some follow *)
(* each other.  (A scalar is a word even if it is 0.)                      *)
Zeros(n) == IF n = 0 THEN <<>> ELSE <<Imm(".zero", <<>>, 4 * n)>>
DataOf(cells) ==
  LET Put1(d, v) == IF v = 0 THEN [d EXCEPT !.zeros = @ + 1]
                    ELSE [zeros |-> 0, lines |-> d.lines \o Zeros(d.zeros) \o <<Imm(".word", <<>>, v)>>]
      data == FoldLeft(Put1, [zeros |-> 0, lines |-> <<>>], cells)
  IN  data.lines \o Zeros(data.zeros)
Data(prog) == [g \in DOMAIN prog.globals |-> DataOf(prog.globals[g])]

x30 == Xreg(30)
Prologue(c) ==
  <<Lab(FunctionLabel(c.name)), Shaped("stp", <<x29, x30, sp>>, "pre", -16), Regs("mov", <<x29, sp>>)>>
  \o MoveSp("sub", c.size) \o StoreParams(c)
\* emitFastBitHelper
BitHelper(name, op) == <<Lab(FunctionLabel(name))>> \o OperationLines(op) \o <<Regs("ret", <<>>)>>
FunctionEnd(c) ==
  <<Lab(Epilogue(c))>> \o MoveSp("add", c.size)
  \o <<Shaped("ldp", <<x29, x30, sp>>, "post", 16), Regs("ret", <<>>)>>

PlainInst(c, prog, i) ==
  CASE i.op \in {"alloca", "phi"} -> <<>>
    [] i.res # NoResult /\ i.res \in PutOff(c) -> <<>>
    [] i.op = "store" -> StoreInst(c, i)
    [] i.op = "call" -> CallInst(c, prog, i)
    [] i.op = "load" -> LoadInst(c, i)
    [] OTHER -> ResultTo0(c, i, TRUE) \o Result(c, i)

\* Does the call, or the value, go straight to the return behind it?
GoesToReturn(insts, k) ==
  k < Len(insts) /\ insts[k + 1].op = "ret" /\ insts[k + 1].args = <<Var(insts[k].res)>>
IsSelfTailCall(c, insts, k) ==
  /\ insts[k].op = "call" /\ insts[k].attr = c.name
  /\ IF insts[k].res # NoResult THEN GoesToReturn(insts, k)
     ELSE k < Len(insts) /\ insts[k + 1].op = "ret" /\ insts[k + 1].args = <<>>
IsDirectCallReturn(c, insts, k) ==
  /\ insts[k].op = "call" /\ insts[k].attr # c.name /\ insts[k].res # NoResult
  /\ GoesToReturn(insts, k)
IsDirectValueReturn(c, insts, k) ==
  /\ insts[k].op \in BinaryOps \cup {"load", "gep", "neg", "not"}
  /\ GoesToReturn(insts, k)
  /\ c.uses[insts[k].res] = 1

=============================================================================
