-------------------------------- MODULE Peephole --------------------------------
(***************************************************************************)
(* optimizeAssemblyPeepholes of src/src/backend/arm/emit.cpp: what it      *)
(* knows of a line, when it takes a register for dead, and each of its     *)
(* rewritings, as the set (of at most one) of the texts it makes of a text *)
(* at a line; then the driver, which applies them in rounds.  One action   *)
(* rewrites one place; the others are the ends of the driver's loops and   *)
(* its last loop, which prints.                                            *)
(*                                                                         *)
(* Floating point and vectors are left out, and of the operations a line   *)
(* may have those that only they need.                                     *)
(***************************************************************************)
EXTENDS Assembly, FiniteSets, SequencesExt

(* A line: what it defines and uses, as the rewritings see it.  They find  *)
(* registers in the text of a line by their names, so neither zero nor the *)
(* stack pointer is one.                                                   *)
Named(line) == SelectSeq(line.rs, LAMBDA r : r.n # 31)
Defining == {"mov", "movz", "add", "sub", "mul", "madd", "msub", "smull", "umull", "sdiv", "and",
             "orr", "eor", "mvn", "lsl", "lsr", "asr", "cset", "csel", "ldr", "ldur"}

\* machineDefinition, machineDefinitions, machineUses
DefinitionOf(line) == IF line.op \in Defining /\ Named(line) # <<>> THEN {Head(Named(line))} ELSE {}
DefinitionsOf(line) == IF line.op = "ldp" THEN {line.rs[1], line.rs[2]} ELSE DefinitionOf(line)
UsesOf(line) ==
  CASE line.op = "ldp" -> Range(SelectSeq(<<line.rs[3]>>, LAMBDA r : r.n # 31))
    [] DefinitionOf(line) # {} -> Range(Tail(Named(line)))
    [] OTHER -> Range(Named(line))
Defines(line, r) == \E d \in DefinitionsOf(line) : d.n = r.n
Reads(line, r) == \E u \in UsesOf(line) : u.n = r.n
Touches(line, r) == Reads(line, r) \/ Defines(line, r)

\* isMachineBoundary: a test of zero that branches is none.
Leaving == {"ret", "b", "b.", "bl"}
Boundary == Leaving \cup {"label"}
Forking == {"b.", "cbz", "cbnz"}

----------------------------------------------------------------------------
(* When is a register dead after line i?  Each answer looks for the first  *)
(* line behind it that touches the register or is one of some operations.  *)
NextTouching(lines, i, r, ops) ==
  SelectInSubSeq(lines, i + 1, Len(lines), LAMBDA line : line.op \in ops \/ Touches(line, r))

IsLiveAfterMachineLine(lines, i, r) ==
  LET k == NextTouching(lines, i, r, Boundary)
  IN  k # 0 /\ (lines[k].op \in Boundary \/ Reads(lines[k], r))
\* deadAfterStoreIgnoringLabels is the same.
IsDeadAfterSkippingLabels(lines, i, r) ==
  LET k == NextTouching(lines, i, r, Leaving)
  IN  k = 0 \/ (lines[k].op \notin Leaving /\ ~Reads(lines[k], r))

\* findForwardLabel, findAnyLabel: the first such line, or 0.
FindLabel(lines, from, l) ==
  SelectInSubSeq(lines, from, Len(lines), LAMBDA line : line.op = "label" /\ line.l = l)

IsDeadAfterFollowingLocalJump(lines, i, r) ==
  LET k == NextTouching(lines, i, r, Leaving)
      target == FindLabel(lines, k + 1, lines[k].l)
  IN  IF k # 0 /\ lines[k].op = "b" THEN target # 0 /\ IsDeadAfterSkippingLabels(lines, target, r)
      ELSE IsDeadAfterSkippingLabels(lines, i, r)

ReturnObservable(r) == r.n = 0
RECURSIVE IsDeadBeforeLinearExit(_, _, _)
IsDeadBeforeLinearExit(lines, i, r) ==
  LET k == NextTouching(lines, i, r, Leaving)
      target == FindLabel(lines, k + 1, lines[k].l)
  IN  CASE k # 0 /\ lines[k].op = "ret" -> ~ReturnObservable(r)
        [] k # 0 /\ lines[k].op = "b" -> target # 0 /\ IsDeadBeforeLinearExit(lines, target, r)
        [] OTHER -> IsDeadAfterSkippingLabels(lines, i, r)

\* The lines met on the way may not be met again.  (The code gives up after
\* 2048 jumps, which no text here has.)
RECURSIVE DeadOnPathsFrom(_, _, _, _)
DeadOnPathsFrom(lines, i, r, visited) ==
  LET k == NextTouching(lines, i, r, Leaving \cup Forking)
      met == (i + 1) .. (IF k = 0 THEN Len(lines) ELSE k)
      target == FindLabel(lines, 1, lines[k].l)
      OnJump == target # 0 /\ DeadOnPathsFrom(lines, target, r, visited \cup met)
  IN  IF met \cap visited # {} THEN FALSE
      ELSE IF k = 0 THEN TRUE
      ELSE CASE Touches(lines[k], r) -> ~Reads(lines[k], r)
             [] lines[k].op = "ret" -> ~ReturnObservable(r)
             [] lines[k].op = "bl" -> FALSE
             [] lines[k].op = "b" -> OnJump
             [] lines[k].op \in Forking -> OnJump /\ DeadOnPathsFrom(lines, k, r, visited \cup met)
             [] OTHER -> FALSE
IsDeadOnAllMachinePaths(lines, i, r) == DeadOnPathsFrom(lines, i, r, {})

FollowedOnlyByLabels(lines, i) == i < Len(lines) /\ lines[i + 1].op = "label"

\* How the products are allowed to leave a constant out.
DeadInOneOfFourWays(lines, i, r) ==
  \/ ~IsLiveAfterMachineLine(lines, i, r)
  \/ IsDeadAfterFollowingLocalJump(lines, i, r)
  \/ IsDeadBeforeLinearExit(lines, i, r)
  \/ IsDeadOnAllMachinePaths(lines, i, r)

\* parseMoveRegisters
IsMove(line) == line.op = "mov" /\ line.n = {} /\ Len(Named(line)) = 2

\* What is done to a text: line i goes; or gets another line.
Without(lines, i) == RemoveAt(lines, i)
With(lines, i, line) == ReplaceAt(lines, i, line)
Texts(condition, lines) == IF condition THEN {lines} ELSE {}
Both(lines, i) == i + 1 \in DOMAIN lines

----------------------------------------------------------------------------
(* Two accesses become one: fuseLoadStorePairs.                            *)

Base(line) == line.rs[2]
OffsetOf(line) == NumberOf(line)
Width(line) == line.rs[1].bytes

\* parsePairMemoryAccess
IsPairAccess(line) ==
  /\ line.op \in {"ldr", "str"} /\ line.form = "plain"
  /\ line.rs[1].n # 31
  /\ OffsetOf(line) \in -64 * Width(line) .. 63 * Width(line)
Pairs(a, b) ==
  /\ IsPairAccess(a) /\ IsPairAccess(b)
  /\ a.op = b.op /\ Base(a) = Base(b) /\ Width(a) = Width(b)
  /\ a.op = "ldr" => Cardinality({a.rs[1].n, b.rs[1].n, Base(a).n}) = 3
  /\ OffsetOf(b) - OffsetOf(a) \in {Width(a), -Width(a)}
  /\ Min({OffsetOf(a), OffsetOf(b)}) % Width(a) = 0
PairOf(a, b) ==
  LET low == IF OffsetOf(a) < OffsetOf(b) THEN a ELSE b
      high == IF OffsetOf(a) < OffsetOf(b) THEN b ELSE a
  IN  Imm(IF a.op = "ldr" THEN "ldp" ELSE "stp", <<low.rs[1], high.rs[1], Base(a)>>, OffsetOf(low))

FuseLoadStorePairs(lines, i) ==
  Texts(Both(lines, i) /\ Pairs(lines[i], lines[i + 1]),
        Without(With(lines, i, PairOf(lines[i], lines[i + 1])), i + 1))

\* fuseLoadPairsAcrossIndependentLine: with a line between that touches
\* neither register nor the base.
Harmless == {"mov", "movz", "movn", "movk", "mvn", "add", "sub", "and", "orr", "eor",
             "lsl", "lsr", "asr"}
IndependentBetween(line, a, b) ==
  /\ line.op \in Harmless
  /\ \A r \in {a.rs[1], b.rs[1], Base(a)} \ {sp} : ~Touches(line, r)
FuseLoadPairsAcross(lines, i) ==
  Texts(/\ i + 2 \in DOMAIN lines
        /\ Pairs(lines[i], lines[i + 2])
        /\ IndependentBetween(lines[i + 1], lines[i], lines[i + 2]),
        Without(With(lines, i, PairOf(lines[i], lines[i + 2])), i + 2))

\* fusePostIndexAddressing: the base is moved on by the access.
IsSelfAdd(line, r) ==
  /\ line.op = "add" /\ line.rs = <<r, r>> /\ line.form = "plain" /\ line.n # {}
  /\ NumberOf(line) \in 1 .. 255
IsPostIndexAccess(line) ==
  /\ line.op \in {"ldr", "str"} /\ line.form = "plain" /\ line.n = {0}
  /\ Base(line) # sp /\ line.rs[1].n \notin {31, Base(line).n}
FusePostIndexAddressing(lines, i) ==
  LET k == NextTouching(lines, i, Base(lines[i]), Boundary)
  IN  IF IsPostIndexAccess(lines[i]) /\ k # 0 /\ IsSelfAdd(lines[k], Base(lines[i]))
      THEN {Without(With(lines, i, [lines[i] EXCEPT !.form = "post", !.n = lines[k].n]), k)}
      ELSE {}

\* fuseExtendedAddressing: an index is widened where it is added, in its
\* first loop behind a copy of the index.
Extending == {"sxtw", "uxtw"}
IsScaledAdd(line) ==
  /\ line.op = "add" /\ line.form = "lsl" /\ line.n \subseteq 0 .. 4 /\ Len(Named(line)) = 3
  /\ \A r \in Range(line.rs) : r.bytes = 8
IsExtendedUse(extend, add) ==
  extend.op \in Extending /\ IsScaledAdd(add) /\ add.rs[3] = extend.rs[1]
ExtendedAdd(extend, add, index) == [add EXCEPT !.rs[3] = index, !.form = extend.op]

FuseExtendedCopies(lines, i) ==
  LET copy == lines[i]
      extend == lines[i + 1]
      add == lines[i + 2]
  IN  IF /\ i + 2 \in DOMAIN lines /\ IsMove(copy) /\ Width(copy) = 4
         /\ IsExtendedUse(extend, add)
         /\ extend.rs[1].n = copy.rs[1].n /\ extend.rs[2] = copy.rs[1]
         /\ ~IsLiveAfterMachineLine(lines, i + 2, extend.rs[1])
      THEN {Without(Without(With(lines, i + 2, ExtendedAdd(extend, add, copy.rs[2])), i + 1), i)}
      ELSE {}
FuseExtendedAddressing(lines, i) ==
  LET extend == lines[i]
      add == lines[i + 1]
  IN  IF /\ Both(lines, i) /\ IsExtendedUse(extend, add)
         /\ add.rs[2].n # extend.rs[1].n
         /\ ~IsLiveAfterMachineLine(lines, i + 1, extend.rs[1])
      THEN {Without(With(lines, i + 1, ExtendedAdd(extend, add, extend.rs[2])), i)} ELSE {}

----------------------------------------------------------------------------
(* Products with a constant.                                               *)

\* parseMoveImmediate: the word a line moves into a register.
Largest == 2147483647
MovedImmediate(line) ==
  IF line.op \notin {"mov", "movz"} \/ line.n = {} \/ Width(line) # 4 THEN {}
  ELSE IF line.form = "plain" THEN line.n
  ELSE {65536 * n : n \in {k \in line.n : k <= Largest \div 65536}}
\* The factor beside the constant's register.
OtherFactors(rs, r) == {f \in Range(rs) : f.n # r.n}
OneFactor(rs, r) == r \in Range(rs) /\ OtherFactors(rs, r) # {}
Shifts == 1 .. 30
ExactPowerOfTwoShift(k) == {s \in {0} \cup Shifts : k = 2 ^ s}

\* dst = v * k, with r free to be used, as one line or two.
ProductLines(dst, v, k, r) ==
  LET Moved(op) == <<Regs(op, <<dst, v>>)>>
      By(to, s) == Imm("lsl", <<to, v>>, s)
      Twice(op, to, s) == Shaped(op, <<to, v, v>>, "lsl", s)
      Negated == Regs("neg", <<dst, r>>)
      close == {s \in Shifts : k \in {2 ^ s + 1, 1 - 2 ^ s, 2 ^ s - 1, -(2 ^ s + 1)}}
  IN
  CASE k = 0 -> {<<Regs("mov", <<dst, wzr>>)>>}
    [] k = 1 -> {Moved("mov")}
    [] k = -1 -> {Moved("neg")}
    [] k > 1 /\ ExactPowerOfTwoShift(k) # {} -> {<<By(dst, s)>> : s \in ExactPowerOfTwoShift(k)}
    [] k < -1 /\ ExactPowerOfTwoShift(-k) # {} ->
         {<<By(r, s), Negated>> : s \in ExactPowerOfTwoShift(-k)}
    [] OTHER ->
         {CASE k = 2 ^ s + 1 -> <<Twice("add", dst, s)>>
            [] k = 1 - 2 ^ s -> <<Twice("sub", dst, s)>>
            [] k = 2 ^ s - 1 /\ k # 3 -> <<By(r, s), Regs("sub", <<dst, r, v>>)>>
            [] OTHER -> <<Twice("add", r, s), Negated>> :
           s \in {n \in close : n = Min(close)}}

StrengthReduceImmediateMultiply(lines, i) ==
  LET dst == lines[i + 1].rs[1]
      factors == Tail(lines[i + 1].rs)
      r == lines[i].rs[1]
  IN  IF /\ Both(lines, i) /\ MovedImmediate(lines[i]) # {}
         /\ lines[i + 1].op = "mul" /\ OneFactor(factors, r)
         /\ dst = r \/ DeadInOneOfFourWays(lines, i + 1, r)
      THEN {SubSeq(lines, 1, i - 1) \o new \o SubSeq(lines, i + 2, Len(lines)) :
              new \in UNION {ProductLines(dst, v, k, r) : v \in OtherFactors(factors, r),
                                                   k \in MovedImmediate(lines[i])}}
      ELSE {}

\* multiplyByConstantLine without a register to help: one line or none.
MultiplyByConstantLine(dst, v, k) ==
  IF k \in {1, -1} \/ ExactPowerOfTwoShift(k) # {} THEN {new[1] : new \in ProductLines(dst, v, k, dst)}
  ELSE {Shaped("add", <<dst, v, v>>, "lsl", s) : s \in {n \in Shifts : k = 2 ^ n + 1}}
       \cup {Shaped("sub", <<dst, v, v>>, "lsl", s) : s \in {n \in Shifts : k = 1 - 2 ^ n}}
AddSubImmediateEncodable(k) ==
  LET size == IF k < 0 THEN -k ELSE k
  IN  size <= 4095 \/ (size % 4096 = 0 /\ size \div 4096 <= 4095)

\* strengthReduceImmediateMadd: k * v + k.
StrengthReduceImmediateMadd(lines, i) ==
  LET dst == lines[i + 1].rs[1]
      factors == SubSeq(lines[i + 1].rs, 2, 3)
      r == lines[i].rs[1]
      Plus(k) == Imm(IF k >= 0 THEN "add" ELSE "sub", <<dst, dst>>, IF k >= 0 THEN k ELSE -k)
  IN  IF /\ Both(lines, i) /\ MovedImmediate(lines[i]) # {}
         /\ lines[i + 1].op = "madd" /\ lines[i + 1].rs[4] = r /\ OneFactor(factors, r)
         /\ DeadInOneOfFourWays(lines, i + 1, r)
      THEN UNION {{With(With(lines, i, line), i + 1, Plus(k)) :
                     line \in UNION {MultiplyByConstantLine(dst, v, k) : v \in OtherFactors(factors, r)}} :
                  k \in {n \in MovedImmediate(lines[i]) : AddSubImmediateEncodable(n)}}
      ELSE {}

\* strengthReduceOneMinusMultiply: (1 - y) * x is x - x * y.
StrengthReduceOneMinusMultiply(lines, i) ==
  LET r == lines[i].rs[1]
      sub == lines[i + 1]
      mul == lines[i + 2]
  IN  IF /\ i + 2 \in DOMAIN lines
         /\ MovedImmediate(lines[i]) = {1}
         /\ sub.op = "sub" /\ sub.n = {} /\ Len(sub.rs) = 3
         /\ sub.rs[1] = r /\ sub.rs[2] = r /\ sub.rs[3].n \notin {r.n, 31}
         /\ mul.op = "mul" /\ OneFactor(Tail(mul.rs), r)
         /\ DeadInOneOfFourWays(lines, i + 2, r)
      THEN {Without(Without(With(lines, i, Regs("msub", <<mul.rs[1], x, sub.rs[3], x>>)), i + 2), i + 1) :
              x \in OtherFactors(Tail(mul.rs), r)}
      ELSE {}

----------------------------------------------------------------------------
(* Copies.                                                                 *)

\* Where a line names the register it defines, or 0.
DefinitionAt(line) == IF DefinitionOf(line) = {} THEN 0 ELSE SelectInSeq(line.rs, LAMBDA r : r.n # 31)
ReplaceRegisterUses(line, from, to) ==
  [line EXCEPT !.rs = [k \in DOMAIN @ |-> IF k > DefinitionAt(line) /\ @[k] = from THEN to ELSE @[k]]]
ReplaceRegisterDefinition(line, to) == [line EXCEPT !.rs[DefinitionAt(line)] = to]

\* Mutation: the copy goes though its target is read again.
PropagateThoughLive(lines, i) ==
  LET to == lines[i].rs[1]
      next == ReplaceRegisterUses(lines[i + 1], to, lines[i].rs[2])
  IN  IF /\ Both(lines, i) /\ IsMove(lines[i])
         /\ lines[i + 1].op \notin Boundary /\ Reads(lines[i + 1], to)
         /\ next # lines[i + 1]
      THEN {Without(With(lines, i + 1, next), i)} ELSE {}

PropagateAdjacentCopies(lines, i) ==
  LET to == lines[i].rs[1]
      next == ReplaceRegisterUses(lines[i + 1], to, lines[i].rs[2])
  IN  IF /\ Both(lines, i) /\ IsMove(lines[i])
         /\ lines[i + 1].op \notin Boundary /\ Reads(lines[i + 1], to)
         /\ ~IsLiveAfterMachineLine(lines, i + 1, to)
         /\ next # lines[i + 1]
      THEN {Without(With(lines, i + 1, next), i)} ELSE {}

CoalesceAdjacentDefinitions(lines, i) ==
  LET to == lines[i + 1].rs[1]
      r == lines[i + 1].rs[2]
  IN  IF /\ Both(lines, i) /\ IsMove(lines[i + 1])
         /\ \E d \in DefinitionOf(lines[i]) : d.n = r.n /\ d.bytes = to.bytes /\ d # to
         /\ \/ ~IsLiveAfterMachineLine(lines, i + 1, r)
            \/ FollowedOnlyByLabels(lines, i + 1) /\ IsDeadAfterSkippingLabels(lines, i + 1, r)
            \/ IsDeadOnAllMachinePaths(lines, i + 1, r)
      THEN {Without(With(lines, i, ReplaceRegisterDefinition(lines[i], to)), i + 1)} ELSE {}

----------------------------------------------------------------------------
(* What a slot of the frame holds is known.                                *)

\* parseFrameAccess: where in the frame; the offset is compared as text, and
\* is none when it comes after the access.
IsFrameAccess(line) == line.op \in Loading \cup Storing /\ Base(line) \in {sp, x29}
FrameOffset(line) == <<Base(line), SubSeq(line.rs, 3, Len(line.rs)),
                       IF line.form = "post" THEN {} ELSE line.n>>
SamePlace(a, b) == FrameOffset(a) = FrameOffset(b) /\ Width(a) = Width(b)
Ahead(lines, i) == (i + 1) .. Min({Len(lines), i + 5})

\* writtenRegister: of a load of two, the first only.
WrittenRegister(line) == IF line.op = "cmp" \/ line.rs = <<>> THEN {} ELSE {line.rs[1]} \ {sp}
StoreLoadSafe(line, r) ==
  /\ line.op \notin Boundary \cup Storing \cup {"stp"}
  /\ \A w \in WrittenRegister(line) : w.n # r.n
LoadLoadSafe(line, r) == line.op \notin Boundary \cup Storing \cup {"stp"} /\ ~Defines(line, r)

\* A load of what register r holds: gone, or a move.
Forwarded(lines, k, r) ==
  IF lines[k].rs[1].n = r.n THEN Without(lines, k)
  ELSE With(lines, k, Regs("mov", <<lines[k].rs[1], r>>))
\* The first load of the place ahead with only harmless lines before it.
LoadsAhead(lines, i, safe) ==
  {k \in Ahead(lines, i) : /\ IsFrameAccess(lines[k]) /\ lines[k].op \in Loading
                           /\ SamePlace(lines[i], lines[k])
                           /\ \A n \in (i + 1) .. (k - 1) : n \in safe}
ForwardTo(lines, i, loads) ==
  IF loads = {} THEN {} ELSE {Forwarded(lines, Min(loads), lines[i].rs[1])}

\* Mutation: what is written to the register on the way is not looked at.
ForwardPastWrites(lines, i) ==
  IF IsFrameAccess(lines[i]) /\ lines[i].op \in Storing
  THEN ForwardTo(lines, i, LoadsAhead(lines, i, {k \in Ahead(lines, i) :
                    lines[k].op \notin Boundary \cup Storing \cup {"stp"}}))
  ELSE {}

ForwardFrameStoreLoads(lines, i) ==
  IF IsFrameAccess(lines[i]) /\ lines[i].op \in Storing
  THEN ForwardTo(lines, i, LoadsAhead(lines, i, {k \in Ahead(lines, i) :
                                                   StoreLoadSafe(lines[k], lines[i].rs[1])}))
  ELSE {}

ForwardFrameLoadLoads(lines, i) ==
  IF IsFrameAccess(lines[i]) /\ lines[i].op \in Loading
  THEN ForwardTo(lines, i, LoadsAhead(lines, i, {k \in Ahead(lines, i) :
                                                   LoadLoadSafe(lines[k], lines[i].rs[1])}))
  ELSE {}

----------------------------------------------------------------------------
(* Constants that fit the instruction that uses them.                      *)

\* moveWideImmediateDefinition
MovedWide(line) ==
  IF line.op # "movz" \/ Width(line) # 4 THEN {}
  ELSE IF line.form = "plain" THEN line.n
  ELSE {65536 * Signed16(n) : n \in line.n}
\* a64MachineAddSubImmediate, put into a line as its last operand.
WithAddSubImmediate(line, k) ==
  CASE k \in 0 .. 4095 -> {[line EXCEPT !.n = {k}]}
    [] k > 4095 /\ k % 4096 = 0 /\ k \div 4096 <= 4095 ->
         {[line EXCEPT !.n = {k \div 4096}, !.form = "lsl12"]}
    [] OTHER -> {}

\* a64MachineLogicalImmediate takes one less than a power of two.
WithLogicalImmediate(line, k) == IF k + 1 \in {2 ^ n : n \in 1 .. 30} THEN {[line EXCEPT !.n = {k}]} ELSE {}

\* The line that uses the constant k of register r, with the constant in it.
WithImmediate(line, r, k) ==
  LET Keeping(rs) == WithAddSubImmediate([line EXCEPT !.rs = rs], k)
      Masking(rs) == WithLogicalImmediate([line EXCEPT !.rs = rs], k)
  IN
  CASE line.n # {} \/ line.l # <<>> -> {}
    [] line.op = "cmp" /\ line.rs[2] = r -> Keeping(<<line.rs[1]>>)
    [] line.op \in {"add", "sub"} /\ line.rs[3] = r -> Keeping(<<line.rs[1], line.rs[2]>>)
    [] line.op = "add" /\ line.rs[3] # r /\ line.rs[2] = r -> Keeping(<<line.rs[1], line.rs[3]>>)
    [] line.op \in {"and", "orr", "eor"} /\ line.rs[3] = r -> Masking(<<line.rs[1], line.rs[2]>>)
    [] line.op \in {"and", "orr"} /\ line.rs[3] # r /\ line.rs[2] = r -> Masking(<<line.rs[1], line.rs[3]>>)
    [] OTHER -> {}

\* A move of the constant's register is found fit for the constant and then
\* printed as it was: foldMoveImmediateUses rebuilds the line from operands
\* it never changed, and takes the constant away.
FoldMoveImmediateUses(lines, i) ==
  LET r == lines[i].rs[1]
      use == lines[i + 1]
      free == use.rs[1].n = r.n \/ ~IsLiveAfterMachineLine(lines, i + 1, r)
      ofMove == [lines[i] EXCEPT !.rs = <<use.rs[1]>>]
  IN  IF Both(lines, i) /\ MovedWide(lines[i]) # {} /\ use.op \notin Boundary /\ Reads(use, r)
      THEN IF use.op = "mov" /\ use.rs[2] = r
           THEN {IF free THEN Without(lines, i) ELSE With(lines, i + 1, ofMove)}
           ELSE {Without(With(lines, i + 1, line), i) :
                   line \in {l \in UNION {WithImmediate(use, r, k) : k \in MovedWide(lines[i])} : free}}
      ELSE {}

\* zeroMoveDefinition, parseStoreValueAndAddress
FoldZeroMoveStores(lines, i) ==
  LET r == lines[i].rs[1]
      store == lines[i + 1]
  IN  IF /\ Both(lines, i) /\ MovedWide(lines[i]) # {} /\ lines[i].n = {0}
         /\ store.op \in Storing /\ store.form # "post" /\ store.rs[1] = r
         /\ \A k \in 2 .. Len(store.rs) : store.rs[k].n # r.n
         /\ IsDeadAfterSkippingLabels(lines, i + 1, r)
      THEN {Without(With(lines, i + 1, [store EXCEPT !.rs[1] = wzr]), i)} ELSE {}

----------------------------------------------------------------------------
\* The rewritings in the order of optimizeAssemblyPeepholes.
Rewritings ==
  <<"fuseLoadStorePairs", "fuseLoadPairsAcross", "fusePostIndexAddressing",
    "fuseExtendedCopies", "fuseExtendedAddressing",
    "strengthReduceImmediateMultiply", "strengthReduceImmediateMadd", "strengthReduceOneMinusMultiply",
    "propagateAdjacentCopies", "coalesceAdjacentDefinitions",
    "forwardFrameStoreLoads", "forwardFrameLoadLoads", "foldMoveImmediateUses", "foldZeroMoveStores">>
Rewrite(name, lines, i) ==
  CASE name = "fuseLoadStorePairs" -> FuseLoadStorePairs(lines, i)
    [] name = "fuseLoadPairsAcross" -> FuseLoadPairsAcross(lines, i)
    [] name = "fusePostIndexAddressing" -> FusePostIndexAddressing(lines, i)
    [] name = "fuseExtendedCopies" -> FuseExtendedCopies(lines, i)
    [] name = "fuseExtendedAddressing" -> FuseExtendedAddressing(lines, i)
    [] name = "strengthReduceImmediateMultiply" -> StrengthReduceImmediateMultiply(lines, i)
    [] name = "strengthReduceImmediateMadd" -> StrengthReduceImmediateMadd(lines, i)
    [] name = "strengthReduceOneMinusMultiply" -> StrengthReduceOneMinusMultiply(lines, i)
    [] name = "propagateAdjacentCopies" -> PropagateAdjacentCopies(lines, i)
    [] name = "coalesceAdjacentDefinitions" -> CoalesceAdjacentDefinitions(lines, i)
    [] name = "forwardFrameStoreLoads" -> ForwardFrameStoreLoads(lines, i)
    [] name = "forwardFrameLoadLoads" -> ForwardFrameLoadLoads(lines, i)
    [] name = "foldMoveImmediateUses" -> FoldMoveImmediateUses(lines, i)
    [] name = "foldZeroMoveStores" -> FoldZeroMoveStores(lines, i)

\* Some go on behind a line they have rewritten, one goes back to the line
\* before it; the others look at the line that is there now.
GoingOn == {"fuseLoadPairsAcross", "fusePostIndexAddressing", "forwardFrameStoreLoads", "forwardFrameLoadLoads"}
GoesOnAt(name, i) ==
  CASE name \in GoingOn -> i + 1
    [] name = "fuseExtendedCopies" -> Max({1, i - 1})
    [] OTHER -> i
\* All say they changed something, but for the constant put into a move.
SaysChanged(name, before, after) == name # "foldMoveImmediateUses" \/ Len(after) < Len(before)

----------------------------------------------------------------------------
(* The loop that prints what is left: where it goes on, and what it prints *)
(* for the lines up to there.                                              *)

InvertCond == [eq |-> "ne", ne |-> "eq", lt |-> "ge", le |-> "gt", gt |-> "le", ge |-> "lt"]
IsZeroTest(lines, i) ==
  /\ Both(lines, i) /\ lines[i].op = "cmp" /\ lines[i].n = {0} /\ lines[i].form = "plain"
  /\ lines[i + 1].op = "b." /\ lines[i + 1].form \in {"eq", "ne"}
\* A load of a register from where it has just been stored.
LoadsBack(lines, i) ==
  IF IsFrameAccess(lines[i]) /\ lines[i].op \in Storing
  THEN {k \in LoadsAhead(lines, i, {n \in Ahead(lines, i) : StoreLoadSafe(lines[n], lines[i].rs[1])}) :
          lines[k].rs[1] = lines[i].rs[1]}
  ELSE {}
SkipsJump(lines, i) ==
  /\ i + 2 \in DOMAIN lines
  /\ lines[i].op = "b." /\ lines[i + 1].op = "b" /\ lines[i + 2] = Lab(lines[i].l)
JumpsNowhere(lines, i) == Both(lines, i) /\ lines[i].op = "b" /\ lines[i + 1] = Lab(lines[i].l)

Printed(lines, i) ==
  CASE IsMove(lines[i]) /\ lines[i].rs[1].n = lines[i].rs[2].n -> [next |-> i + 1, text |-> <<>>]
    [] IsZeroTest(lines, i) ->
         [next |-> i + 2, text |-> <<Jump(IF lines[i + 1].form = "eq" THEN "cbz" ELSE "cbnz",
                                          <<lines[i].rs[1]>>, lines[i + 1].l)>>]
    [] LoadsBack(lines, i) # {} ->
         [next |-> Min(LoadsBack(lines, i)) + 1, text |-> SubSeq(lines, i, Min(LoadsBack(lines, i)) - 1)]
    [] SkipsJump(lines, i) ->
         [next |-> i + 2, text |-> <<[lines[i + 1] EXCEPT !.op = "b.", !.form = InvertCond[lines[i].form]]>>]
    [] JumpsNowhere(lines, i) -> [next |-> i + 1, text |-> <<>>]
    [] OTHER -> [next |-> i + 1, text |-> <<lines[i]>>]
Output(lines) ==
  FoldLeft(LAMBDA st, i : IF i < st.next THEN st
                          ELSE [next |-> Printed(lines, i).next, text |-> st.text \o Printed(lines, i).text],
           [next |-> 1, text |-> <<>>], [i \in DOMAIN lines |-> i]).text

----------------------------------------------------------------------------
(* optimizeAssemblyPeepholes                                               *)

VARIABLES
  text,     \* the lines; what is written in the end
  nth,      \* the rewriting at work; 0 before and two more than all after
  from,     \* the line it looks at next
  round,    \* how often the rewritings have begun
  changed   \* has one of them changed something in this round?

textVars == <<text, nth, from, round, changed>>
MaxRounds == 8
Written == nth = Len(Rewritings) + 2

Start(lines) ==
  /\ text' = lines
  /\ nth' = 1 /\ from' = 1 /\ round' = 1 /\ changed' = FALSE

\* The lines from which the rewriting makes another text.
Sites(name) == {i \in from .. Len(text) : Rewrite(name, text, i) # {}}

RewriteLine(name) ==
  /\ \E sites \in {Sites(name)} :
       /\ sites # {}
       /\ text' \in Rewrite(name, text, Min(sites))
       /\ from' = GoesOnAt(name, Min(sites))
  /\ changed' = (changed \/ SaysChanged(name, text, text'))
  /\ UNCHANGED <<nth, round>>

\* Mutation: the next rewriting goes on where this one ended.
NextRewritingThere(name) ==
  /\ Sites(name) = {}
  /\ nth' = nth + 1
  /\ UNCHANGED <<text, from, round, changed>>

NextRewriting(name) ==
  /\ Sites(name) = {}
  /\ nth' = nth + 1 /\ from' = 1
  /\ UNCHANGED <<text, round, changed>>

RewriteAgain ==
  /\ nth = Len(Rewritings) + 1 /\ changed /\ round < MaxRounds
  /\ nth' = 1 /\ round' = round + 1 /\ changed' = FALSE
  /\ UNCHANGED <<text, from>>

WriteText ==
  /\ nth = Len(Rewritings) + 1 /\ ~(changed /\ round < MaxRounds)
  /\ text' = Output(text)
  /\ nth' = nth + 1
  /\ UNCHANGED <<from, round, changed>>

PeepholeNext ==
  \/ \E name \in {Rewritings[n] : n \in {nth} \cap DOMAIN Rewritings} : RewriteLine(name) \/ NextRewriting(name)
  \/ RewriteAgain \/ WriteText

=================================================================================
