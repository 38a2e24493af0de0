------------------------------- MODULE Immediates -------------------------------
(***************************************************************************)
(* How the code generator prints what is done with a constant: a literal,  *)
(* an address at a constant distance, and a product, a quotient or a       *)
(* remainder by a constant, for which there are shorter instructions than  *)
(* the general ones.                                                       *)
(***************************************************************************)
EXTENDS Assembly

w0 == Wreg(0)
w1 == Wreg(1)
w2 == Wreg(2)
x0 == Xreg(0)
x1 == Xreg(1)
x16 == Xreg(16)

Powers == {2 ^ k : k \in 0 .. 30}
ShiftOf(n) == CHOOSE k \in 0 .. 30 : 2 ^ k = n
Magnitude(n) == IF n < 0 THEN -n ELSE n

----------------------------------------------------------------------------
(* Literals: loadImmediate32 of a word, loadImmediate64 of a distance.     *)
Low(n) == n % 65536
High(n) == (n \div 65536) % 65536

LoadImmediate32(r, n) ==
  IF High(n) = 0 THEN <<Imm("movz", <<r>>, n)>>
  ELSE IF Low(n) = 0 THEN <<Shaped("movz", <<r>>, "lsl16", High(n))>>
  ELSE IF High(n) = 65535 THEN <<Imm("movn", <<r>>, 65535 - Low(n))>>
  ELSE IF Low(n) = 65535 THEN <<Shaped("movn", <<r>>, "lsl16", 65535 - High(n))>>
  ELSE <<Imm("movz", <<r>>, Low(n)), Shaped("movk", <<r>>, "lsl16", High(n))>>
LoadImmediate64(r, n) ==
  <<Imm("movz", <<r>>, Low(n))>> \o IF High(n) = 0 THEN <<>> ELSE <<Shaped("movk", <<r>>, "lsl16", High(n))>>

\* isA64AddSubImm, a64AddSubImmOperand: twelve bits, or twelve and a shift.
AddSubImm(n) == n \in 0 .. 4095 \/ (n > 0 /\ n % 4096 = 0 /\ n \div 4096 <= 4095)
AddSub(op, rs, n) == IF n <= 4095 THEN Imm(op, rs, n) ELSE Shaped(op, rs, "lsl12", n \div 4096)

\* isA64CompareImm, emitCompareImmediate
CompareImm(n) == AddSubImm(Magnitude(n))
CompareImmediate(r, n) == AddSub(IF n < 0 THEN "cmn" ELSE "cmp", <<r>>, Magnitude(n))

(* Distances.                                                              *)

\* emitFrameAddress, emitSlotAddress: below the frame pointer.
FrameAddress(r, off) ==
  IF -off <= 4095 THEN <<Imm("sub", <<r, x29>>, -off)>>
  ELSE LoadImmediate64(x16, -off) \o <<Regs("sub", <<r, x29, x16>>)>>

\* emitSubSp, emitAddSp
MoveSp(op, bytes) ==
  CASE bytes = 0 -> <<>>
    [] bytes \in 1 .. 4095 -> <<Imm(op, <<sp, sp>>, bytes)>>
    [] OTHER -> LoadImmediate64(x16, bytes) \o <<Regs(op, <<sp, sp, x16>>)>>

\* emitPointerOffset: it says whether it can, and prints nothing if it cannot.
InReach(bytes) == Magnitude(bytes) < 4096 * 4096
PointerOffset(r, bytes) ==
  LET op == IF bytes < 0 THEN "sub" ELSE "add"
      n == Magnitude(bytes)
      Part(line, k) == IF k = 0 THEN <<>> ELSE <<line>>
  IN  CASE n <= 4095 -> Part(Imm(op, <<r, r>>, n), n)
        [] n > 4095 /\ InReach(bytes) -> Part(Shaped(op, <<r, r>>, "lsl12", n \div 4096), n \div 4096)
                                         \o Part(Imm(op, <<r, r>>, n % 4096), n % 4096)
        [] OTHER -> <<>>

----------------------------------------------------------------------------
(* Products, of what is in register 0: emitMulImmediate.                   *)

\* singleShiftPlusMinusOne
MinusOne(n) == n >= 3 /\ n + 1 \in Powers
PlusOne(n) == n >= 3 /\ n - 1 \in Powers

MulEasily(imm) ==
  LET n == Magnitude(imm) IN n \in Powers \cup {0, 10} \/ MinusOne(n) \/ PlusOne(n)
Negated(imm) == IF imm < 0 THEN <<Regs("neg", <<w0, w0>>)>> ELSE <<>>
MulLines(imm) ==
  LET n == Magnitude(imm)
      AddShifted(k) == <<Shaped("add", <<w0, w0, w0>>, "lsl", k)>>
  IN  (IF n = 0 THEN <<Imm("mov", <<w0>>, 0)>>
       ELSE IF n = 1 THEN <<>>
       ELSE IF n \in Powers THEN <<Imm("lsl", <<w0, w0>>, ShiftOf(n))>>
       ELSE IF n = 10 THEN AddShifted(2) \o <<Imm("lsl", <<w0, w0>>, 1)>>
       ELSE IF n = 3 \/ (PlusOne(n) /\ ~MinusOne(n)) THEN AddShifted(ShiftOf(n - 1))
       ELSE <<Imm("lsl", <<w1, w0>>, ShiftOf(n + 1)), Regs("sub", <<w0, w1, w0>>)>>)
      \o Negated(imm)

----------------------------------------------------------------------------
(* Quotients and remainders.  A way to get one says which registers the    *)
(* dividend is wanted in, of which there is at most one.                   *)

Way(wanted, lines) == [wanted |-> wanted, lines |-> lines]

\* unsignedMagicDivisor, signedMagicDivisor: the quotient by the divisor is
\* the product with the multiplier, shifted.  The upper and the lower half
\* of the multiplier.
Magic(divisor, high, low, shift) == [divisor |-> divisor, high |-> high, low |-> low, shift |-> shift]
UnsignedMagic ==
  {Magic(5, 52428, 52429, 34), Magic(9, 14563, 36409, 33), Magic(10, 52428, 52429, 35),
   Magic(11, 47662, 35747, 35), Magic(13, 20164, 60495, 34), Magic(17, 61680, 61681, 36),
   Magic(65535, 32768, 32769, 47)}
SignedMagic ==
  {Magic(5, 26214, 26215, 33), Magic(50, 20971, 34079, 36), Magic(100, 20971, 34079, 37),
   Magic(97, 5405, 2027, 35), Magic(513, 32704, 8177, 40), Magic(1000, 4194, 19923, 38),
   Magic(10007, 26824, 50349, 44), Magic(19491001, 7051, 26581, 53),
   Magic(19260817, 14271, 23095, 54), Magic(100000007, 5497, 36553, 55)}
MagicFor(table, n) == {m \in table : m.divisor = n}
Three == Magic(3, 21845, 21846, 32)

Multiplier(m) == 65536 * Signed16(m.high) + m.low

\* The quotient of what is in register r, into register to, from the rounded
\* product in the whole of register by: one more if the dividend is negative.
SignedQuotient(m, r, to, by) ==
  LoadImmediate32(w1, Multiplier(m))
  \o <<Regs("smull", <<Xreg(by), r, w1>>),
       Imm("asr", <<Xreg(by), Xreg(by)>>, m.shift),
       Shaped("sub", <<to, Wreg(by), r>>, "asr", 31)>>
UnsignedQuotient(m, r) ==
  LoadImmediate32(w1, Multiplier(m))
  \o <<Regs("umull", <<x0, r, w1>>), Imm("lsr", <<x0, x0>>, m.shift)>>

\* emitSignedPowerOfTwoDiv
PowerOfTwoDiv(imm, nonNegative) ==
  LET n == Magnitude(imm)
  IN  Way({0}, (IF nonNegative THEN <<Imm("lsr", <<w0, w0>>, ShiftOf(n))>>
                ELSE LoadImmediate32(w1, n - 1)
                     \o <<Regs("add", <<w1, w0, w1>>), Imm("cmp", <<w0>>, 0),
                          Cond("csel", <<w0, w1, w0>>, "lt"), Imm("asr", <<w0, w0>>, ShiftOf(n))>>)
               \o Negated(imm))
\* emitSignedPowerOfTwoMod
PowerOfTwoMod(imm, nonNegative) ==
  LET n == Magnitude(imm)
  IN  Way({0}, IF nonNegative THEN <<Imm("and", <<w0, w0>>, n - 1)>>
               ELSE <<Regs("mov", <<w2, w0>>)>> \o LoadImmediate32(w1, n - 1)
                    \o <<Regs("add", <<w0, w0, w1>>), Imm("cmp", <<w2>>, 0),
                         Cond("csel", <<w0, w0, w2>>, "lt"), Imm("asr", <<w0, w0>>, ShiftOf(n))>>
                    \o LoadImmediate32(w1, n) \o <<Regs("msub", <<w0, w0, w1, w2>>)>>)

\* The ways of emitImmediateBinary, the first that fits: there is none for
\* most constants.
DivWays(imm, nonNegative) ==
  LET n == Magnitude(imm)
      unsigned == IF nonNegative /\ imm > 1 THEN MagicFor(UnsignedMagic, imm) ELSE {}
      signed == MagicFor(SignedMagic, n)
  IN  IF n = 1 THEN {Way({0}, Negated(imm))}
      ELSE IF n \in Powers THEN {PowerOfTwoDiv(imm, nonNegative)}
      ELSE IF unsigned # {} THEN {Way({0}, UnsignedQuotient(m, w0)) : m \in unsigned}
      ELSE IF signed # {} THEN {Way({0}, SignedQuotient(m, w0, w0, 1) \o Negated(imm)) : m \in signed}
      ELSE IF n = 3 THEN {Way({2}, SignedQuotient(Three, w2, w0, 0) \o Negated(imm))}
      ELSE {}
ModWays(imm, nonNegative) ==
  LET n == Magnitude(imm)
      unsigned == IF nonNegative /\ imm > 1 THEN MagicFor(UnsignedMagic, imm) ELSE {}
      signed == MagicFor(SignedMagic, n)
      Rest(q, d, x) == Regs("msub", <<w0, q, d, x>>)
  IN  IF n = 1 THEN {Way({}, <<Imm("mov", <<w0>>, 0)>>)}
      ELSE IF n \in Powers THEN {PowerOfTwoMod(imm, nonNegative)}
      ELSE IF unsigned # {}
           THEN {Way({2}, UnsignedQuotient(m, w2) \o <<Imm("mov", <<w1>>, imm), Rest(w0, w1, w2)>>) :
                   m \in unsigned}
      ELSE IF signed # {}
           THEN {Way({0}, SignedQuotient(m, w0, w1, 1) \o LoadImmediate32(w2, n) \o <<Rest(w1, w2, w0)>>) :
                   m \in signed}
      ELSE IF n = 3
           THEN {Way({2}, SignedQuotient(Three, w2, w0, 0) \o <<Imm("mov", <<w1>>, imm), Rest(w0, w1, w2)>>)}
      ELSE {}

=================================================================================
