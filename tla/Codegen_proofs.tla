--------------------------- MODULE Codegen_proofs ---------------------------
(***************************************************************************)
(* What the code generator works out with numbers before it prints.  The   *)
(* lines of Immediates for a product, a quotient or a remainder by a       *)
(* constant, for a literal and for a distance: there is an instruction for *)
(* each, and run one after the other they leave the number of the language *)
(* in the register, for every word the operand can be and every constant   *)
(* they are printed for.  TLC's integers are of 32 bits and its runs hold  *)
(* a few dividends; here the products have the 64 bits of umull and smull. *)
(* And the frame: whatever asks for room in it gets bytes of its own.      *)
(***************************************************************************)
EXTENDS Immediates, Frame, DataInduction

FullRange == 65536 * 65536
HalfRange == 32768 * 65536
Words == -HalfRange .. HalfRange - 1
NonNegativeWords == 0 .. HalfRange - 1

\* Division in the language: towards zero.
Truncated(x, d) == IF x < 0 THEN -((-x) \div d) ELSE x \div d
\* The same for divisors of both signs, and what is left.
Quotient(x, d) == IF d < 0 THEN -Truncated(x, -d) ELSE Truncated(x, d)
Remainder(x, d) == x - Quotient(x, d) * d

\* The multiplier as the register's 32 bits, without a sign; what a shift by
\* k divides by.
Whole(m) == 65536 * m.high + m.low
TwoTo[k \in 0 .. 63] == IF k = 0 THEN 1 ELSE 2 * TwoTo[k - 1]

\* The numbers that the lines of the two kinds of quotient turn out to leave:
\* of UnsignedQuotient (umull, lsr), and of SignedQuotient (smull, asr, and the
\* subtraction of the dividend's sign, which is its arithmetic shift by 31).
UnsignedResult(m, x) == (x * Whole(m)) \div TwoTo[m.shift]
SignedResult(m, x) == (x * Multiplier(m)) \div TwoTo[m.shift] - (x \div HalfRange)

\* And of PowerOfTwoDiv, for a divisor 2^k: the dividend, with one less
\* than the divisor added when it is negative, shifted arithmetically.
PowerResult(n, x) == (IF x < 0 THEN x + (n - 1) ELSE x) \div n

\* The product of a multiplier k and the divisor d is e above the power of
\* two p, so little that the error does not reach the next quotient for any
\* dividend up to the limit.
Exact(d, k, p, e, limit) ==
  /\ d \in Nat \ {0} /\ k \in Nat \ {0} /\ p \in Nat \ {0} /\ e \in Nat \ {0}
  /\ k * d = p + e
  /\ (limit \div d) * e + (d - 1) * k <= p
\* The product of the multiplier and a dividend: the quotient times p, and
\* what is left over, which is positive and below p, or p for the limit.
Rounds(d, k, p, e, x, limit) ==
  /\ x * k = (x \div d) * p + ((x \div d) * e + (x % d) * k)
  /\ (x \div d) * e + (x % d) * k \in 0 .. p
  /\ x # limit => (x \div d) * e + (x % d) * k # p
  /\ x # 0 => (x \div d) * e + (x % d) * k # 0
Precise(m) == \E e \in Nat : Exact(m.divisor, Whole(m), TwoTo[m.shift], e, HalfRange)

\* What asks for room in a frame.
Claims == [id : Int, bytes : Nat, align : Nat \ {0}]

\* Registers as integers, by number: the sums, the products, the shifts to
\* the left and the moves of literals are those of integers, and cut like them
\* to any width.  The rest (shifts to the right, wide products, comparisons) is
\* worked out of numbers the register can hold, and Unknown of others.
Registers == [0 .. 31 -> Int]
Unknown == CHOOSE v \in Int : TRUE
Longs == -(HalfRange * FullRange) .. HalfRange * FullRange - 1
Holds(r, v) == v \in IF r.bytes = 4 THEN Words ELSE Longs
ShiftedRight(r, v, k) == IF Holds(r, v) THEN v \div TwoTo[k] ELSE Unknown
WithoutSign(v) == v % FullRange

\* What a line does to the registers, and what at most three lines do.  The
\* mask of an and is a number of ones at the end: Assembles has no other.
Operand(i, s) ==
  CASE i.n = {} -> s[i.rs[3].n]
    [] i.n # {} /\ i.form = "lsl" -> s[i.rs[3].n] * 2 ^ NumberOf(i)
    [] i.n # {} /\ i.form = "asr" -> ShiftedRight(i.rs[3], s[i.rs[3].n], NumberOf(i))
    [] OTHER -> Constant(i)
WideProduct(i, x, y) ==
  IF ~(Holds(i.rs[2], x) /\ Holds(i.rs[3], y)) THEN Unknown
  ELSE IF i.op = "umull" THEN WithoutSign(x) * WithoutSign(y) ELSE x * y
Result(i, s) ==
  CASE i.op = "add" -> s[i.rs[2].n] + Operand(i, s)
    [] i.op = "sub" -> s[i.rs[2].n] - Operand(i, s)
    [] i.op = "lsl" -> s[i.rs[2].n] * 2 ^ NumberOf(i)
    [] i.op = "neg" -> -s[i.rs[2].n]
    [] i.op = "asr" -> ShiftedRight(i.rs[2], s[i.rs[2].n], NumberOf(i))
    [] i.op = "lsr" -> IF s[i.rs[2].n] >= 0 THEN ShiftedRight(i.rs[2], s[i.rs[2].n], NumberOf(i)) ELSE Unknown
    [] i.op = "and" -> s[i.rs[2].n] % (NumberOf(i) + 1)
    [] i.op = "msub" -> s[i.rs[4].n] - s[i.rs[2].n] * s[i.rs[3].n]
    [] i.op \in {"smull", "umull"} -> WideProduct(i, s[i.rs[2].n], s[i.rs[3].n])
    [] i.op = "mov" /\ i.n = {} -> s[i.rs[2].n]
    [] i.op \in {"mov", "movz", "movn", "movk"} /\ i.n # {} -> Literal(i, s[i.rs[1].n])
    [] OTHER -> Unknown
With(s, k, v) == [s EXCEPT ![k] = v]
Step(i, s) == With(s, i.rs[1].n, Result(i, s))
Ran(lines, s) ==
  LET one == IF Len(lines) >= 1 THEN Step(lines[1], s) ELSE s
      two == IF Len(lines) >= 2 THEN Step(lines[2], one) ELSE one
  IN  IF Len(lines) >= 3 THEN Step(lines[3], two) ELSE two
\* What the upper half of a word is worth, and twelve bits above twelve.
Above(h) == 65536 * Signed16(h)
Page(k) == 4096 * k
Pages(n) == n \div 4096
Within(n) == n % 4096
Encodable(lines) == Len(lines) <= 3 /\ \A k \in DOMAIN lines : Assembles(lines[k])
\* The lines leave v in register k, and the others what they were: all but
\* number 16, which is kept for distances.
Leaves(lines, s, k, v) ==
  /\ Encodable(lines) /\ Ran(lines, s)[k] = v
  /\ \A j \in 0 .. 31 \ {k, 16} : Ran(lines, s)[j] = s[j]

\* At most two lines that can be encoded; and what is printed multiplies
\* register 0 and changes no other but number 1.
Few(lines) == \E a, b : Assembles(a) /\ Assembles(b) /\ lines \in {<<>>, <<a>>, <<a, b>>}
Multiplies(lines, s, imm) ==
  /\ Encodable(lines) /\ Ran(lines, s)[0] = s[0] * imm
  /\ \A j \in 0 .. 31 \ {0, 1} : Ran(lines, s)[j] = s[j]

\* With the outcome of the last comparison, for lists of any length: there is
\* an instruction for each line, and they take the registers from s to t one
\* after the other, whatever was compared before.
Machine(s, less) == [regs |-> s, less |-> less]
Lower(i, s) ==
  (IF Holds(i.rs[1], s[i.rs[1].n]) THEN s[i.rs[1].n] ELSE Unknown) < Constant(i)
Effect(i, m) ==
  CASE i.op = "cmp" -> Machine(m.regs, Lower(i, m.regs))
    [] i.op = "csel" /\ i.form = "lt" ->
         Machine(With(m.regs, i.rs[1].n, m.regs[i.rs[IF m.less THEN 2 ELSE 3].n]), m.less)
    [] OTHER -> Machine(Step(i, m.regs), m.less)
Trace(lines, f) ==
  /\ f = [k \in 0 .. Len(lines) |-> f[k]]
  /\ \A k \in 1 .. Len(lines) : f[k] = Effect(lines[k], f[k - 1])
Executes(lines, s, t) ==
  \A less \in BOOLEAN : \E f : \E after \in BOOLEAN :
    Trace(lines, f) /\ f[0] = Machine(s, less) /\ f[Len(lines)] = Machine(t, after)
IsList(lines) == \E S : lines \in Seq(S)
Leads(lines, s, t) ==
  IsList(lines) /\ (\A k \in DOMAIN lines : Assembles(lines[k])) /\ Executes(lines, s, t)
\* The dividend is in the register the way wants it in.
Ready(way, s, x) == \A r \in way.wanted : s[r] = x
\* A register can be shifted by its bits less one at most.
ShiftFits(r, k) == r.bytes \in {4, 8} /\ k \in 0 .. (8 * r.bytes - 1)
\* The lines lead to registers with v in number k, which differ in no other
\* but those of scratch.
Yields(lines, s, k, v, scratch) ==
  \E t \in Registers :
    Leads(lines, s, t) /\ t[k] = v /\ \A j \in 0 .. 31 \ (scratch \cup {k}) : t[j] = s[j]

----------------------------------------------------------------------------
(* Powers of two.                                                          *)

\* The function TwoTo is what its definition says: the values up to k are
\* built one after the other.
LEMMA TwoToDefined == TwoTo = [k \in 0 .. 63 |-> IF k = 0 THEN 1 ELSE 2 * TwoTo[k - 1]]
<1> DEFINE At(f, k) == IF k = 0 THEN 1 ELSE 2 * f[k - 1]
           To(m, f) == f = [k \in 0 .. 63 |-> f[k]] /\ \A k \in 0 .. m : f[k] = At(f, k)
           S == {m \in 0 .. 63 : \E f : To(m, f)}
<1>1. 0 \in S
  <2> DEFINE f == [k \in 0 .. 63 |-> 1]
  <2>1. To(0, f)
    OBVIOUS
  <2> HIDE DEF To, f
  <2> QED BY <2>1
<1>2. ASSUME NEW m \in 0 .. 63 - 1, m \in S PROVE m + 1 \in S
  <2>1. PICK f : To(m, f)
    BY <1>2
  <2> DEFINE g == [k \in 0 .. 63 |-> IF k = m + 1 THEN 2 * f[m] ELSE f[k]]
  <2>2. g = [k \in 0 .. 63 |-> g[k]]
    OBVIOUS
  <2>3. ASSUME NEW k \in 0 .. m + 1 PROVE g[k] = At(g, k)
    <3>1. CASE k = m + 1
      BY <3>1
    <3>2. CASE k # m + 1
      <4> HIDE DEF g, At
      <4>1. k \in 0 .. m /\ k \in 0 .. 63 /\ k # m + 1
        BY <3>2
      <4>2. k # 0 => k - 1 \in 0 .. 63 /\ k - 1 # m + 1
        BY <4>1
      <4>3. f[k] = At(f, k)
        BY <2>1, <4>1, Zenon
      <4>4. g[k] = f[k] /\ (k # 0 => g[k - 1] = f[k - 1])
        BY <4>1, <4>2, Zenon DEF g
      <4> QED BY <4>3, <4>4, Zenon DEF At
    <3> QED BY <3>1, <3>2
  <2>4. To(m + 1, g)
    BY <2>2, <2>3
  <2> HIDE DEF To, g
  <2> QED BY <2>4
<1>3. 0 .. 63 \subseteq S
  <2>1. 0 \in Int /\ 63 \in Int
    OBVIOUS
  <2> HIDE DEF S
  <2> QED BY <1>1, <1>2, <2>1, InductionUpTo, Zenon
<1>4. PICK f : To(63, f)
  <2>1. 63 \in S
    <3>1. 63 \in 0 .. 63
      OBVIOUS
    <3> HIDE DEF S
    <3> QED BY <1>3, <3>1
  <2> HIDE DEF To
  <2> QED BY <2>1
<1>5. f = [k \in 0 .. 63 |-> At(f, k)]
  BY <1>4
<1> QED BY <1>5, Zenon DEF TwoTo

\* One step of TwoTo.
LEMMA TwoToStep == /\ TwoTo[0] = 1
                   /\ \A k \in 0 .. 62 : TwoTo[k + 1] = 2 * TwoTo[k]
<1> DEFINE At(f, k) == IF k = 0 THEN 1 ELSE 2 * f[k - 1]
<1>1. \A k \in 0 .. 63 : TwoTo[k] = At(TwoTo, k)
  <2>1. TwoTo = [k \in 0 .. 63 |-> At(TwoTo, k)]
    BY TwoToDefined, Zenon
  <2> HIDE DEF At
  <2>2. ASSUME NEW f, TwoTo = [k \in 0 .. 63 |-> f[k]], NEW k \in 0 .. 63 PROVE TwoTo[k] = f[k]
    BY <2>2
  <2> DEFINE f == [k \in 0 .. 63 |-> At(TwoTo, k)]
  <2>3. ASSUME NEW k \in 0 .. 63 PROVE f[k] = At(TwoTo, k)
    OBVIOUS
  <2>4. TwoTo = f
    BY <2>1
  <2> HIDE DEF f
  <2> QED BY <2>3, <2>4, Zenon
<1>2. TwoTo[0] = 1
  BY <1>1
<1>3. ASSUME NEW k \in 0 .. 62 PROVE TwoTo[k + 1] = 2 * TwoTo[k]
  <2>1. k + 1 \in 0 .. 63 /\ k + 1 # 0 /\ (k + 1) - 1 = k
    OBVIOUS
  <2> QED BY <1>1, <2>1
<1> QED BY <1>2, <1>3

\* Powers are positive integers, and shifting by 32 more multiplies by
\* FullRange.
LEMMA TwoToWide == /\ TwoTo[32] = FullRange
                   /\ \A j \in 0 .. 31 : TwoTo[32 + j] = FullRange * TwoTo[j]
<1>1. TwoTo[16] = 65536
  <2>1. TwoTo[0] = 1 /\ TwoTo[1] = 2 * TwoTo[0] /\ TwoTo[2] = 2 * TwoTo[1] /\ TwoTo[3] = 2 * TwoTo[2]
        /\ TwoTo[4] = 2 * TwoTo[3]
    BY TwoToStep
  <2>2. TwoTo[5] = 2 * TwoTo[4] /\ TwoTo[6] = 2 * TwoTo[5] /\ TwoTo[7] = 2 * TwoTo[6]
        /\ TwoTo[8] = 2 * TwoTo[7]
    BY TwoToStep
  <2>3. TwoTo[9] = 2 * TwoTo[8] /\ TwoTo[10] = 2 * TwoTo[9] /\ TwoTo[11] = 2 * TwoTo[10]
        /\ TwoTo[12] = 2 * TwoTo[11]
    BY TwoToStep
  <2>4. TwoTo[13] = 2 * TwoTo[12] /\ TwoTo[14] = 2 * TwoTo[13] /\ TwoTo[15] = 2 * TwoTo[14]
        /\ TwoTo[16] = 2 * TwoTo[15]
    BY TwoToStep
  <2>5. TwoTo[4] = 16
    BY <2>1
  <2>6. TwoTo[8] = 256
    BY <2>2, <2>5
  <2>7. TwoTo[12] = 4096
    BY <2>3, <2>6
  <2> QED BY <2>4, <2>7
<1>2. ASSUME NEW a \in 0 .. 32, TwoTo[a] \in Nat
      PROVE \A j \in 0 .. 31 : TwoTo[j] \in Nat /\ TwoTo[a + j] = TwoTo[a] * TwoTo[j]
  <2> DEFINE S == {j \in 0 .. 31 : TwoTo[j] \in Nat /\ TwoTo[a + j] = TwoTo[a] * TwoTo[j]}
  <2>1. 0 \in S
    <3>1. a + 0 = a
      OBVIOUS
    <3> QED BY <1>2, <3>1, TwoToStep
  <2>2. ASSUME NEW j \in 0 .. 31 - 1, j \in S PROVE j + 1 \in S
    <3>1. j \in 0 .. 62 /\ a + j \in 0 .. 62 /\ (a + j) + 1 = a + (j + 1) /\ j + 1 \in 0 .. 31
      OBVIOUS
    <3>2. TwoTo[j + 1] = 2 * TwoTo[j] /\ TwoTo[a + (j + 1)] = 2 * TwoTo[a + j]
      BY <3>1, TwoToStep
    <3>3. TwoTo[j] \in Nat /\ TwoTo[a + j] = TwoTo[a] * TwoTo[j]
      BY <2>2
    <3>4. ASSUME NEW b \in Nat, NEW c \in Nat PROVE 2 * (b * c) = b * (2 * c)
      OBVIOUS
    <3>5. 2 * (TwoTo[a] * TwoTo[j]) = TwoTo[a] * (2 * TwoTo[j])
      BY <1>2, <3>3, <3>4
    <3> QED BY <3>1, <3>2, <3>3, <3>5
  <2>3. 0 .. 31 \subseteq S
    <3>1. 0 \in Int /\ 31 \in Int
      OBVIOUS
    <3> HIDE DEF S
    <3> QED BY <2>1, <2>2, <3>1, InductionUpTo, Zenon
  <2> QED BY <2>3
<1> DEFINE b == 65536
<1>3. b \in Nat /\ TwoTo[16] = b
  BY <1>1
<1>4. FullRange = b * b
  BY SMT DEF FullRange
<1> HIDE DEF b
<1>5. TwoTo[32] = b * b
  <2>1. 16 \in 0 .. 32 /\ 16 \in 0 .. 31 /\ 16 + 16 = 32
    OBVIOUS
  <2> QED BY <1>2, <1>3, <2>1
<1>6. TwoTo[32] \in Nat
  BY <1>3, <1>5
<1> QED BY <1>2, <1>4, <1>5, <1>6

\* The shifts of the tables.
LEMMA Shifts == /\ TwoTo[33] = FullRange * 2 /\ TwoTo[34] = FullRange * 4 /\ TwoTo[35] = FullRange * 8
                /\ TwoTo[36] = FullRange * 16 /\ TwoTo[37] = FullRange * 32 /\ TwoTo[38] = FullRange * 64
                /\ TwoTo[40] = FullRange * 256 /\ TwoTo[44] = FullRange * 4096
                /\ TwoTo[47] = FullRange * 32768 /\ TwoTo[53] = FullRange * 2097152
                /\ TwoTo[54] = FullRange * 4194304 /\ TwoTo[55] = FullRange * 8388608
<1>1. /\ TwoTo[1] = 2 /\ TwoTo[2] = 4 /\ TwoTo[3] = 8 /\ TwoTo[4] = 16 /\ TwoTo[5] = 32 /\ TwoTo[6] = 64
      /\ TwoTo[7] = 128 /\ TwoTo[8] = 256
  <2>1. TwoTo[0] = 1 /\ TwoTo[1] = 2 * TwoTo[0] /\ TwoTo[2] = 2 * TwoTo[1] /\ TwoTo[3] = 2 * TwoTo[2]
        /\ TwoTo[4] = 2 * TwoTo[3]
    BY TwoToStep
  <2>2. TwoTo[5] = 2 * TwoTo[4] /\ TwoTo[6] = 2 * TwoTo[5] /\ TwoTo[7] = 2 * TwoTo[6]
        /\ TwoTo[8] = 2 * TwoTo[7]
    BY TwoToStep
  <2> QED BY <2>1, <2>2
<1>2. TwoTo[12] = 4096 /\ TwoTo[15] = 32768
  <2>1. TwoTo[9] = 2 * TwoTo[8] /\ TwoTo[10] = 2 * TwoTo[9] /\ TwoTo[11] = 2 * TwoTo[10]
        /\ TwoTo[12] = 2 * TwoTo[11]
    BY TwoToStep
  <2>2. TwoTo[13] = 2 * TwoTo[12] /\ TwoTo[14] = 2 * TwoTo[13] /\ TwoTo[15] = 2 * TwoTo[14]
    BY TwoToStep
  <2> QED BY <1>1, <2>1, <2>2
<1>3. TwoTo[18] = 262144
  <2>1. TwoTo[16] = 2 * TwoTo[15] /\ TwoTo[17] = 2 * TwoTo[16] /\ TwoTo[18] = 2 * TwoTo[17]
    BY TwoToStep
  <2> QED BY <1>2, <2>1
<1>4. TwoTo[21] = 2097152 /\ TwoTo[22] = 4194304 /\ TwoTo[23] = 8388608
  <2>1. TwoTo[19] = 2 * TwoTo[18] /\ TwoTo[20] = 2 * TwoTo[19] /\ TwoTo[21] = 2 * TwoTo[20]
        /\ TwoTo[22] = 2 * TwoTo[21] /\ TwoTo[23] = 2 * TwoTo[22]
    BY TwoToStep
  <2> QED BY <1>3, <2>1
<1>5. /\ TwoTo[33] = FullRange * TwoTo[1] /\ TwoTo[34] = FullRange * TwoTo[2]
      /\ TwoTo[35] = FullRange * TwoTo[3] /\ TwoTo[36] = FullRange * TwoTo[4]
      /\ TwoTo[37] = FullRange * TwoTo[5] /\ TwoTo[38] = FullRange * TwoTo[6]
  BY TwoToWide
<1>6. /\ TwoTo[40] = FullRange * TwoTo[8] /\ TwoTo[44] = FullRange * TwoTo[12]
      /\ TwoTo[47] = FullRange * TwoTo[15] /\ TwoTo[53] = FullRange * TwoTo[21]
      /\ TwoTo[54] = FullRange * TwoTo[22] /\ TwoTo[55] = FullRange * TwoTo[23]
  BY TwoToWide
<1> QED BY <1>1, <1>2, <1>4, <1>5, <1>6

----------------------------------------------------------------------------
(* Why a precise multiplier divides.                                       *)

\* A sum of a multiple of p and of something less than p.
LEMMA Floor == ASSUME NEW p \in Nat \ {0}, NEW q \in Int, NEW r \in 0 .. p - 1
               PROVE (q * p + r) \div p = q
OBVIOUS

\* A quotient and its remainder.
LEMMA Euclid == ASSUME NEW d \in Nat \ {0}, NEW x \in Nat
                PROVE /\ x \div d \in Nat /\ x % d \in 0 .. d - 1
                      /\ x = d * (x \div d) + (x % d)
OBVIOUS

\* Quotients grow with their dividends.
LEMMA Grows == ASSUME NEW d \in Nat \ {0}, NEW x \in Nat, NEW y \in Nat, x <= y
               PROVE x \div d <= y \div d
<1> DEFINE q == x \div d
           s == y \div d
<1>1. q \in Nat /\ s \in Nat /\ x % d \in 0 .. d - 1 /\ y % d \in 0 .. d - 1
  BY Euclid
<1>2. x = d * q + (x % d) /\ y = d * s + (y % d)
  BY Euclid
<1> HIDE DEF q, s
<1>3. SUFFICES ASSUME s < q PROVE FALSE
  BY <1>1 DEF q, s
<1>4. d * q >= d * (s + 1)
  <2>1. ASSUME NEW a \in Nat, NEW b \in Nat, a >= b PROVE d * a >= d * b
    BY <2>1
  <2> QED BY <1>1, <1>3, <2>1
<1>5. d * (s + 1) = d * s + d
  BY <1>1
<1> QED BY <1>1, <1>2, <1>4, <1>5

\* An exact multiplier rounds.
LEMMA Product ==
  ASSUME NEW d, NEW k, NEW p, NEW e, NEW limit \in Nat, Exact(d, k, p, e, limit), NEW x \in 0 .. limit
  PROVE  Rounds(d, k, p, e, x, limit)
<1> DEFINE q == x \div d
           r == x % d
           s == limit \div d
<1>1. q \in Nat /\ r \in 0 .. d - 1 /\ s \in Nat /\ x = d * q + r /\ q <= s
        /\ limit = d * s + (limit % d) /\ limit % d \in 0 .. d - 1
  <2>1. d \in Nat \ {0} /\ x \in Nat /\ limit \in Nat /\ x <= limit
    BY SMT DEF Exact
  <2> QED BY <2>1, Euclid, Grows, Zenon
<1>2. s * e + (d - 1) * k <= p
  BY Zenon DEF Exact
<1>0. d \in Nat \ {0} /\ k \in Nat \ {0} /\ p \in Nat \ {0} /\ e \in Nat \ {0} /\ k * d = p + e
  BY Zenon DEF Exact
<1> SUFFICES /\ x * k = q * p + (q * e + r * k)
             /\ q * e + r * k \in 0 .. p
             /\ x # limit => q * e + r * k # p
             /\ x # 0 => q * e + r * k # 0
  BY Zenon DEF Rounds
<1> HIDE DEF q, r, s
<1>3. x * k = q * p + (q * e + r * k)
  <2>1. x * k = (d * q) * k + r * k
    <3>1. ASSUME NEW a \in Int, NEW b \in Int PROVE (a + b) * k = a * k + b * k
      BY <1>0
    <3> QED BY <1>0, <1>1, <3>1
  <2>2. (d * q) * k = q * (k * d)
    BY <1>0, <1>1
  <2>3. q * (k * d) = q * p + q * e
    BY <1>0, <1>1
  <2>4. q * p \in Int /\ q * e \in Int /\ r * k \in Int
    BY <1>0, <1>1
  <2> QED BY <2>1, <2>2, <2>3, <2>4
<1>4. 0 <= q * e /\ q * e <= s * e /\ 0 <= r * k /\ r * k <= (d - 1) * k
  <2>1. ASSUME NEW a \in Nat, NEW b \in Nat, NEW c \in Nat, a <= b PROVE 0 <= a * c /\ a * c <= b * c
    BY <1>0, <2>1
  <2>2. d - 1 \in Nat /\ r \in Nat /\ r <= d - 1
    BY <1>0, <1>1
  <2> QED BY <1>0, <1>1, <2>1, <2>2
<1>5. q * e \in Int /\ r * k \in Int /\ s * e \in Int /\ (d - 1) * k \in Int
  BY <1>0, <1>1
<1>6. ASSUME x # 0 PROVE q * e + r * k # 0
  <2>1. q # 0 \/ r # 0
    BY <1>0, <1>1, <1>6
  <2>2. ASSUME NEW a \in Nat \ {0}, NEW b \in Nat \ {0} PROVE a * b > 0
    OBVIOUS
  <2>3. q # 0 => q * e > 0
    BY <1>0, <1>1, <2>2
  <2>4. r # 0 => r * k > 0
    BY <1>0, <1>1, <2>2
  <2> QED BY <1>0, <1>4, <1>5, <2>1, <2>3, <2>4
<1>7. ASSUME x # limit PROVE q * e + r * k # p
  <2>1. q < s \/ (q = s /\ r < d - 1)
    BY <1>0, <1>1, <1>7
  <2>2. ASSUME NEW a \in Nat, NEW b \in Nat, NEW c \in Nat \ {0}, a < b PROVE a * c < b * c
    BY <2>2
  <2>3. CASE q < s
    <3>1. q * e < s * e
      BY <1>0, <1>1, <2>2, <2>3
    <3> QED BY <1>0, <1>2, <1>4, <1>5, <3>1
  <2>4. CASE q = s /\ r < d - 1
    <3>1. r * k < (d - 1) * k
      BY <1>0, <1>1, <2>2, <2>4
    <3> QED BY <1>0, <1>2, <1>4, <1>5, <3>1
  <2> QED BY <2>1, <2>3, <2>4
<1> QED BY <1>0, <1>2, <1>3, <1>4, <1>5, <1>6, <1>7

\* The bound of the dividends is a number.
LEMMA HalfRangeIsNat == HalfRange \in Nat
BY SMT DEF HalfRange

\* Of a dividend that is not negative the rounded product is the quotient; of
\* a negative one it is one below the quotient towards zero.
LEMMA PreciseDivides ==
  ASSUME NEW m, Precise(m), NEW x \in 0 .. HalfRange
  PROVE  /\ x # HalfRange => (x * Whole(m)) \div TwoTo[m.shift] = x \div m.divisor
         /\ x # 0 => ((-x) * Whole(m)) \div TwoTo[m.shift] = -(x \div m.divisor) - 1
<1> DEFINE d == m.divisor
           k == Whole(m)
           p == TwoTo[m.shift]
<1>1. PICK e \in Nat : Exact(d, k, p, e, HalfRange)
  BY Zenon DEF Precise
<1>2. d \in Nat \ {0} /\ k \in Nat \ {0} /\ p \in Nat \ {0}
  BY <1>1, Zenon DEF Exact
<1>3. HalfRange \in Nat
  BY HalfRangeIsNat, Zenon
<1> DEFINE rest == (x \div d) * e + (x % d) * k
           q == x \div d
<1> HIDE DEF d, k, p
<1>4. x * k = q * p + rest /\ rest \in 0 .. p /\ (x # HalfRange => rest # p) /\ (x # 0 => rest # 0)
  <2>1. Rounds(d, k, p, e, x, HalfRange)
    BY <1>1, <1>3, Product, Zenon
  <2> QED BY <2>1, Zenon DEF Rounds, rest, q
<1>5. q \in Nat
  BY <1>2, <1>3, Euclid
<1> HIDE DEF rest, q
<1>6. ASSUME x # HalfRange PROVE (x * k) \div p = q
  <2>1. rest \in 0 .. p - 1
    BY <1>2, <1>4, <1>6
  <2> QED BY <1>2, <1>4, <1>5, <2>1, Floor
<1>7. ASSUME x # 0 PROVE ((-x) * k) \div p = -q - 1
  <2>1. (-x) * k = -(x * k)
    BY <1>2, <1>3
  <2>2. -(q * p + rest) = (-q - 1) * p + (p - rest)
    <3>1. (-q - 1) * p = -(q * p) - p
      BY <1>2, <1>5
    <3>2. q * p \in Int
      BY <1>2, <1>5
    <3> QED BY <1>2, <1>4, <3>1, <3>2
  <2>3. p - rest \in 0 .. p - 1 /\ -q - 1 \in Int
    BY <1>2, <1>4, <1>5, <1>7
  <2>4. ((-q - 1) * p + (p - rest)) \div p = -q - 1
    BY <1>2, <2>3, Floor
  <2> QED BY <1>4, <2>1, <2>2, <2>4
<1> QED BY <1>6, <1>7 DEF d, k, p, q

----------------------------------------------------------------------------
(* The tables.                                                             *)

\* The table of the unsigned multipliers.
LEMMA UnsignedPrecise == \A m \in UnsignedMagic : Precise(m)
<1>1. Precise(Magic(5, 52428, 52429, 34))
  <2> DEFINE m == Magic(5, 52428, 52429, 34)
             d == 5
             k == 65536 * 52428 + 52429
             p == FullRange * 4
             e == 1
  <2>1. k * d = p + e /\ (HalfRange \div d) * e + (d - 1) * k <= p
    BY SMT DEF FullRange, HalfRange
  <2>2. d \in Nat \ {0} /\ k \in Nat \ {0} /\ p \in Nat \ {0} /\ e \in Nat \ {0}
    BY SMT DEF FullRange
  <2>3. m.divisor = d /\ Whole(m) = k
    BY SMT DEF Magic, Whole
  <2>4. TwoTo[m.shift] = p
    <3>1. m.shift = 34
      BY SMT DEF Magic
    <3> QED BY <3>1, Shifts, SMT
  <2>5. Precise(m)
    <3> HIDE DEF m, d, k, p, e
    <3>1. Exact(d, k, p, e, HalfRange)
      BY <2>1, <2>2, Zenon DEF Exact
    <3> QED BY <2>2, <2>3, <2>4, <3>1, Zenon DEF Precise
  <2> QED BY <2>5, SMT
<1>2. Precise(Magic(9, 14563, 36409, 33))
  <2> DEFINE m == Magic(9, 14563, 36409, 33)
             d == 9
             k == 65536 * 14563 + 36409
             p == FullRange * 2
             e == 1
  <2>1. k * d = p + e /\ (HalfRange \div d) * e + (d - 1) * k <= p
    BY SMT DEF FullRange, HalfRange
  <2>2. d \in Nat \ {0} /\ k \in Nat \ {0} /\ p \in Nat \ {0} /\ e \in Nat \ {0}
    BY SMT DEF FullRange
  <2>3. m.divisor = d /\ Whole(m) = k
    BY SMT DEF Magic, Whole
  <2>4. TwoTo[m.shift] = p
    <3>1. m.shift = 33
      BY SMT DEF Magic
    <3> QED BY <3>1, Shifts, SMT
  <2>5. Precise(m)
    <3> HIDE DEF m, d, k, p, e
    <3>1. Exact(d, k, p, e, HalfRange)
      BY <2>1, <2>2, Zenon DEF Exact
    <3> QED BY <2>2, <2>3, <2>4, <3>1, Zenon DEF Precise
  <2> QED BY <2>5, SMT
<1>3. Precise(Magic(10, 52428, 52429, 35))
  <2> DEFINE m == Magic(10, 52428, 52429, 35)
             d == 10
             k == 65536 * 52428 + 52429
             p == FullRange * 8
             e == 2
  <2>1. k * d = p + e /\ (HalfRange \div d) * e + (d - 1) * k <= p
    BY SMT DEF FullRange, HalfRange
  <2>2. d \in Nat \ {0} /\ k \in Nat \ {0} /\ p \in Nat \ {0} /\ e \in Nat \ {0}
    BY SMT DEF FullRange
  <2>3. m.divisor = d /\ Whole(m) = k
    BY SMT DEF Magic, Whole
  <2>4. TwoTo[m.shift] = p
    <3>1. m.shift = 35
      BY SMT DEF Magic
    <3> QED BY <3>1, Shifts, SMT
  <2>5. Precise(m)
    <3> HIDE DEF m, d, k, p, e
    <3>1. Exact(d, k, p, e, HalfRange)
      BY <2>1, <2>2, Zenon DEF Exact
    <3> QED BY <2>2, <2>3, <2>4, <3>1, Zenon DEF Precise
  <2> QED BY <2>5, SMT
<1>4. Precise(Magic(11, 47662, 35747, 35))
  <2> DEFINE m == Magic(11, 47662, 35747, 35)
             d == 11
             k == 65536 * 47662 + 35747
             p == FullRange * 8
             e == 1
  <2>1. k * d = p + e /\ (HalfRange \div d) * e + (d - 1) * k <= p
    BY SMT DEF FullRange, HalfRange
  <2>2. d \in Nat \ {0} /\ k \in Nat \ {0} /\ p \in Nat \ {0} /\ e \in Nat \ {0}
    BY SMT DEF FullRange
  <2>3. m.divisor = d /\ Whole(m) = k
    BY SMT DEF Magic, Whole
  <2>4. TwoTo[m.shift] = p
    <3>1. m.shift = 35
      BY SMT DEF Magic
    <3> QED BY <3>1, Shifts, SMT
  <2>5. Precise(m)
    <3> HIDE DEF m, d, k, p, e
    <3>1. Exact(d, k, p, e, HalfRange)
      BY <2>1, <2>2, Zenon DEF Exact
    <3> QED BY <2>2, <2>3, <2>4, <3>1, Zenon DEF Precise
  <2> QED BY <2>5, SMT
<1>5. Precise(Magic(13, 20164, 60495, 34))
  <2> DEFINE m == Magic(13, 20164, 60495, 34)
             d == 13
             k == 65536 * 20164 + 60495
             p == FullRange * 4
             e == 3
  <2>1. k * d = p + e /\ (HalfRange \div d) * e + (d - 1) * k <= p
    BY SMT DEF FullRange, HalfRange
  <2>2. d \in Nat \ {0} /\ k \in Nat \ {0} /\ p \in Nat \ {0} /\ e \in Nat \ {0}
    BY SMT DEF FullRange
  <2>3. m.divisor = d /\ Whole(m) = k
    BY SMT DEF Magic, Whole
  <2>4. TwoTo[m.shift] = p
    <3>1. m.shift = 34
      BY SMT DEF Magic
    <3> QED BY <3>1, Shifts, SMT
  <2>5. Precise(m)
    <3> HIDE DEF m, d, k, p, e
    <3>1. Exact(d, k, p, e, HalfRange)
      BY <2>1, <2>2, Zenon DEF Exact
    <3> QED BY <2>2, <2>3, <2>4, <3>1, Zenon DEF Precise
  <2> QED BY <2>5, SMT
<1>6. Precise(Magic(17, 61680, 61681, 36))
  <2> DEFINE m == Magic(17, 61680, 61681, 36)
             d == 17
             k == 65536 * 61680 + 61681
             p == FullRange * 16
             e == 1
  <2>1. k * d = p + e /\ (HalfRange \div d) * e + (d - 1) * k <= p
    BY SMT DEF FullRange, HalfRange
  <2>2. d \in Nat \ {0} /\ k \in Nat \ {0} /\ p \in Nat \ {0} /\ e \in Nat \ {0}
    BY SMT DEF FullRange
  <2>3. m.divisor = d /\ Whole(m) = k
    BY SMT DEF Magic, Whole
  <2>4. TwoTo[m.shift] = p
    <3>1. m.shift = 36
      BY SMT DEF Magic
    <3> QED BY <3>1, Shifts, SMT
  <2>5. Precise(m)
    <3> HIDE DEF m, d, k, p, e
    <3>1. Exact(d, k, p, e, HalfRange)
      BY <2>1, <2>2, Zenon DEF Exact
    <3> QED BY <2>2, <2>3, <2>4, <3>1, Zenon DEF Precise
  <2> QED BY <2>5, SMT
<1>7. Precise(Magic(65535, 32768, 32769, 47))
  <2> DEFINE m == Magic(65535, 32768, 32769, 47)
             d == 65535
             k == 65536 * 32768 + 32769
             p == FullRange * 32768
             e == 32767
  <2>1. k * d = p + e /\ (HalfRange \div d) * e + (d - 1) * k <= p
    BY SMT DEF FullRange, HalfRange
  <2>2. d \in Nat \ {0} /\ k \in Nat \ {0} /\ p \in Nat \ {0} /\ e \in Nat \ {0}
    BY SMT DEF FullRange
  <2>3. m.divisor = d /\ Whole(m) = k
    BY SMT DEF Magic, Whole
  <2>4. TwoTo[m.shift] = p
    <3>1. m.shift = 47
      BY SMT DEF Magic
    <3> QED BY <3>1, Shifts, SMT
  <2>5. Precise(m)
    <3> HIDE DEF m, d, k, p, e
    <3>1. Exact(d, k, p, e, HalfRange)
      BY <2>1, <2>2, Zenon DEF Exact
    <3> QED BY <2>2, <2>3, <2>4, <3>1, Zenon DEF Precise
  <2> QED BY <2>5, SMT
<1> QED BY <1>1, <1>2, <1>3, <1>4, <1>5, <1>6, <1>7, SMT DEF UnsignedMagic

\* The table of the signed ones, and the one for three.
LEMMA SignedPrecise == \A m \in SignedMagic \cup {Three} : Precise(m)
<1>1. Precise(Magic(5, 26214, 26215, 33))
  <2> DEFINE m == Magic(5, 26214, 26215, 33)
             d == 5
             k == 65536 * 26214 + 26215
             p == FullRange * 2
             e == 3
  <2>1. k * d = p + e /\ (HalfRange \div d) * e + (d - 1) * k <= p
    BY SMT DEF FullRange, HalfRange
  <2>2. d \in Nat \ {0} /\ k \in Nat \ {0} /\ p \in Nat \ {0} /\ e \in Nat \ {0}
    BY SMT DEF FullRange
  <2>3. m.divisor = d /\ Whole(m) = k
    BY SMT DEF Magic, Whole
  <2>4. TwoTo[m.shift] = p
    <3>1. m.shift = 33
      BY SMT DEF Magic
    <3> QED BY <3>1, Shifts, SMT
  <2>5. Precise(m)
    <3> HIDE DEF m, d, k, p, e
    <3>1. Exact(d, k, p, e, HalfRange)
      BY <2>1, <2>2, Zenon DEF Exact
    <3> QED BY <2>2, <2>3, <2>4, <3>1, Zenon DEF Precise
  <2> QED BY <2>5, SMT
<1>2. Precise(Magic(50, 20971, 34079, 36))
  <2> DEFINE m == Magic(50, 20971, 34079, 36)
             d == 50
             k == 65536 * 20971 + 34079
             p == FullRange * 16
             e == 14
  <2>1. k * d = p + e /\ (HalfRange \div d) * e + (d - 1) * k <= p
    BY SMT DEF FullRange, HalfRange
  <2>2. d \in Nat \ {0} /\ k \in Nat \ {0} /\ p \in Nat \ {0} /\ e \in Nat \ {0}
    BY SMT DEF FullRange
  <2>3. m.divisor = d /\ Whole(m) = k
    BY SMT DEF Magic, Whole
  <2>4. TwoTo[m.shift] = p
    <3>1. m.shift = 36
      BY SMT DEF Magic
    <3> QED BY <3>1, Shifts, SMT
  <2>5. Precise(m)
    <3> HIDE DEF m, d, k, p, e
    <3>1. Exact(d, k, p, e, HalfRange)
      BY <2>1, <2>2, Zenon DEF Exact
    <3> QED BY <2>2, <2>3, <2>4, <3>1, Zenon DEF Precise
  <2> QED BY <2>5, SMT
<1>3. Precise(Magic(100, 20971, 34079, 37))
  <2> DEFINE m == Magic(100, 20971, 34079, 37)
             d == 100
             k == 65536 * 20971 + 34079
             p == FullRange * 32
             e == 28
  <2>1. k * d = p + e /\ (HalfRange \div d) * e + (d - 1) * k <= p
    BY SMT DEF FullRange, HalfRange
  <2>2. d \in Nat \ {0} /\ k \in Nat \ {0} /\ p \in Nat \ {0} /\ e \in Nat \ {0}
    BY SMT DEF FullRange
  <2>3. m.divisor = d /\ Whole(m) = k
    BY SMT DEF Magic, Whole
  <2>4. TwoTo[m.shift] = p
    <3>1. m.shift = 37
      BY SMT DEF Magic
    <3> QED BY <3>1, Shifts, SMT
  <2>5. Precise(m)
    <3> HIDE DEF m, d, k, p, e
    <3>1. Exact(d, k, p, e, HalfRange)
      BY <2>1, <2>2, Zenon DEF Exact
    <3> QED BY <2>2, <2>3, <2>4, <3>1, Zenon DEF Precise
  <2> QED BY <2>5, SMT
<1>4. Precise(Magic(97, 5405, 2027, 35))
  <2> DEFINE m == Magic(97, 5405, 2027, 35)
             d == 97
             k == 65536 * 5405 + 2027
             p == FullRange * 8
             e == 11
  <2>1. k * d = p + e /\ (HalfRange \div d) * e + (d - 1) * k <= p
    BY SMT DEF FullRange, HalfRange
  <2>2. d \in Nat \ {0} /\ k \in Nat \ {0} /\ p \in Nat \ {0} /\ e \in Nat \ {0}
    BY SMT DEF FullRange
  <2>3. m.divisor = d /\ Whole(m) = k
    BY SMT DEF Magic, Whole
  <2>4. TwoTo[m.shift] = p
    <3>1. m.shift = 35
      BY SMT DEF Magic
    <3> QED BY <3>1, Shifts, SMT
  <2>5. Precise(m)
    <3> HIDE DEF m, d, k, p, e
    <3>1. Exact(d, k, p, e, HalfRange)
      BY <2>1, <2>2, Zenon DEF Exact
    <3> QED BY <2>2, <2>3, <2>4, <3>1, Zenon DEF Precise
  <2> QED BY <2>5, SMT
<1>5. Precise(Magic(513, 32704, 8177, 40))
  <2> DEFINE m == Magic(513, 32704, 8177, 40)
             d == 513
             k == 65536 * 32704 + 8177
             p == FullRange * 256
             e == 497
  <2>1. k * d = p + e /\ (HalfRange \div d) * e + (d - 1) * k <= p
    BY SMT DEF FullRange, HalfRange
  <2>2. d \in Nat \ {0} /\ k \in Nat \ {0} /\ p \in Nat \ {0} /\ e \in Nat \ {0}
    BY SMT DEF FullRange
  <2>3. m.divisor = d /\ Whole(m) = k
    BY SMT DEF Magic, Whole
  <2>4. TwoTo[m.shift] = p
    <3>1. m.shift = 40
      BY SMT DEF Magic
    <3> QED BY <3>1, Shifts, SMT
  <2>5. Precise(m)
    <3> HIDE DEF m, d, k, p, e
    <3>1. Exact(d, k, p, e, HalfRange)
      BY <2>1, <2>2, Zenon DEF Exact
    <3> QED BY <2>2, <2>3, <2>4, <3>1, Zenon DEF Precise
  <2> QED BY <2>5, SMT
<1>6. Precise(Magic(1000, 4194, 19923, 38))
  <2> DEFINE m == Magic(1000, 4194, 19923, 38)
             d == 1000
             k == 65536 * 4194 + 19923
             p == FullRange * 64
             e == 56
  <2>1. k * d = p + e /\ (HalfRange \div d) * e + (d - 1) * k <= p
    BY SMT DEF FullRange, HalfRange
  <2>2. d \in Nat \ {0} /\ k \in Nat \ {0} /\ p \in Nat \ {0} /\ e \in Nat \ {0}
    BY SMT DEF FullRange
  <2>3. m.divisor = d /\ Whole(m) = k
    BY SMT DEF Magic, Whole
  <2>4. TwoTo[m.shift] = p
    <3>1. m.shift = 38
      BY SMT DEF Magic
    <3> QED BY <3>1, Shifts, SMT
  <2>5. Precise(m)
    <3> HIDE DEF m, d, k, p, e
    <3>1. Exact(d, k, p, e, HalfRange)
      BY <2>1, <2>2, Zenon DEF Exact
    <3> QED BY <2>2, <2>3, <2>4, <3>1, Zenon DEF Precise
  <2> QED BY <2>5, SMT
<1>7. Precise(Magic(10007, 26824, 50349, 44))
  <2> DEFINE m == Magic(10007, 26824, 50349, 44)
             d == 10007
             k == 65536 * 26824 + 50349
             p == FullRange * 4096
             e == 1675
  <2>1. k * d = p + e /\ (HalfRange \div d) * e + (d - 1) * k <= p
    BY SMT DEF FullRange, HalfRange
  <2>2. d \in Nat \ {0} /\ k \in Nat \ {0} /\ p \in Nat \ {0} /\ e \in Nat \ {0}
    BY SMT DEF FullRange
  <2>3. m.divisor = d /\ Whole(m) = k
    BY SMT DEF Magic, Whole
  <2>4. TwoTo[m.shift] = p
    <3>1. m.shift = 44
      BY SMT DEF Magic
    <3> QED BY <3>1, Shifts, SMT
  <2>5. Precise(m)
    <3> HIDE DEF m, d, k, p, e
    <3>1. Exact(d, k, p, e, HalfRange)
      BY <2>1, <2>2, Zenon DEF Exact
    <3> QED BY <2>2, <2>3, <2>4, <3>1, Zenon DEF Precise
  <2> QED BY <2>5, SMT
<1>8. Precise(Magic(19491001, 7051, 26581, 53))
  <2> DEFINE m == Magic(19491001, 7051, 26581, 53)
             d == 19491001
             k == 65536 * 7051 + 26581
             p == FullRange * 2097152
             e == 626925
  <2>1. k * d = p + e /\ (HalfRange \div d) * e + (d - 1) * k <= p
    BY SMT DEF FullRange, HalfRange
  <2>2. d \in Nat \ {0} /\ k \in Nat \ {0} /\ p \in Nat \ {0} /\ e \in Nat \ {0}
    BY SMT DEF FullRange
  <2>3. m.divisor = d /\ Whole(m) = k
    BY SMT DEF Magic, Whole
  <2>4. TwoTo[m.shift] = p
    <3>1. m.shift = 53
      BY SMT DEF Magic
    <3> QED BY <3>1, Shifts, SMT
  <2>5. Precise(m)
    <3> HIDE DEF m, d, k, p, e
    <3>1. Exact(d, k, p, e, HalfRange)
      BY <2>1, <2>2, Zenon DEF Exact
    <3> QED BY <2>2, <2>3, <2>4, <3>1, Zenon DEF Precise
  <2> QED BY <2>5, SMT
<1>9. Precise(Magic(19260817, 14271, 23095, 54))
  <2> DEFINE m == Magic(19260817, 14271, 23095, 54)
             d == 19260817
             k == 65536 * 14271 + 23095
             p == FullRange * 4194304
             e == 543783
  <2>1. k * d = p + e /\ (HalfRange \div d) * e + (d - 1) * k <= p
    BY SMT DEF FullRange, HalfRange
  <2>2. d \in Nat \ {0} /\ k \in Nat \ {0} /\ p \in Nat \ {0} /\ e \in Nat \ {0}
    BY SMT DEF FullRange
  <2>3. m.divisor = d /\ Whole(m) = k
    BY SMT DEF Magic, Whole
  <2>4. TwoTo[m.shift] = p
    <3>1. m.shift = 54
      BY SMT DEF Magic
    <3> QED BY <3>1, Shifts, SMT
  <2>5. Precise(m)
    <3> HIDE DEF m, d, k, p, e
    <3>1. Exact(d, k, p, e, HalfRange)
      BY <2>1, <2>2, Zenon DEF Exact
    <3> QED BY <2>2, <2>3, <2>4, <3>1, Zenon DEF Precise
  <2> QED BY <2>5, SMT
<1>10. Precise(Magic(100000007, 5497, 36553, 55))
  <2> DEFINE m == Magic(100000007, 5497, 36553, 55)
             d == 100000007
             k == 65536 * 5497 + 36553
             p == FullRange * 8388608
             e == 3051647
  <2>1. k * d = p + e /\ (HalfRange \div d) * e + (d - 1) * k <= p
    BY SMT DEF FullRange, HalfRange
  <2>2. d \in Nat \ {0} /\ k \in Nat \ {0} /\ p \in Nat \ {0} /\ e \in Nat \ {0}
    BY SMT DEF FullRange
  <2>3. m.divisor = d /\ Whole(m) = k
    BY SMT DEF Magic, Whole
  <2>4. TwoTo[m.shift] = p
    <3>1. m.shift = 55
      BY SMT DEF Magic
    <3> QED BY <3>1, Shifts, SMT
  <2>5. Precise(m)
    <3> HIDE DEF m, d, k, p, e
    <3>1. Exact(d, k, p, e, HalfRange)
      BY <2>1, <2>2, Zenon DEF Exact
    <3> QED BY <2>2, <2>3, <2>4, <3>1, Zenon DEF Precise
  <2> QED BY <2>5, SMT
<1>11. Precise(Magic(3, 21845, 21846, 32))
  <2> DEFINE m == Magic(3, 21845, 21846, 32)
             d == 3
             k == 65536 * 21845 + 21846
             p == FullRange
             e == 2
  <2>1. k * d = p + e /\ (HalfRange \div d) * e + (d - 1) * k <= p
    BY SMT DEF FullRange, HalfRange
  <2>2. d \in Nat \ {0} /\ k \in Nat \ {0} /\ p \in Nat \ {0} /\ e \in Nat \ {0}
    BY SMT DEF FullRange
  <2>3. m.divisor = d /\ Whole(m) = k
    BY SMT DEF Magic, Whole
  <2>4. TwoTo[m.shift] = p
    <3>1. m.shift = 32
      BY SMT DEF Magic
    <3> QED BY <3>1, TwoToWide, SMT
  <2>5. Precise(m)
    <3> HIDE DEF m, d, k, p, e
    <3>1. Exact(d, k, p, e, HalfRange)
      BY <2>1, <2>2, Zenon DEF Exact
    <3> QED BY <2>2, <2>3, <2>4, <3>1, Zenon DEF Precise
  <2> QED BY <2>5, SMT
<1> QED BY <1>1, <1>2, <1>3, <1>4, <1>5, <1>6, <1>7, <1>8, <1>9, <1>10, <1>11, SMT DEF SignedMagic, Three

----------------------------------------------------------------------------
(* What the instructions compute.                                          *)

\* The multipliers of the signed table have no sign bit: as the signed
\* operand of smull they are what their 32 bits say.
LEMMA SignedAreWhole == \A m \in SignedMagic \cup {Three} : Multiplier(m) = Whole(m)
<1>1. ASSUME NEW m, m.high \in Nat, m.high <= 32767, m.low \in Nat PROVE Multiplier(m) = Whole(m)
  <2>1. Signed16(m.high) = m.high
    BY <1>1, SMT DEF Signed16
  <2> QED BY <1>1, <2>1, SMT DEF Multiplier, Whole
<1>2. \A m \in SignedMagic \cup {Three} : m.high \in Nat /\ m.high <= 32767 /\ m.low \in Nat
  BY SMT DEF SignedMagic, Three, Magic
<1> QED BY <1>1, <1>2, SMT

\* The wide product of a dividend that is not negative and a multiplier of the
\* unsigned table, shifted, is the quotient.
LEMMA UnsignedArithmetic ==
  \A m \in UnsignedMagic : \A x \in NonNegativeWords : UnsignedResult(m, x) = Truncated(x, m.divisor)
<1> SUFFICES ASSUME NEW m \in UnsignedMagic, NEW x \in NonNegativeWords
             PROVE  UnsignedResult(m, x) = Truncated(x, m.divisor)
  OBVIOUS
<1>1. x \in 0 .. HalfRange /\ x # HalfRange /\ ~(x < 0)
  BY HalfRangeIsNat, SMT DEF NonNegativeWords
<1>2. (x * Whole(m)) \div TwoTo[m.shift] = x \div m.divisor
  BY <1>1, UnsignedPrecise, PreciseDivides, Zenon
<1> QED BY <1>1, <1>2, Zenon DEF UnsignedResult, Truncated

\* The wide product of any word and a multiplier of the signed table, shifted,
\* less the sign of the word, is the quotient towards zero.
LEMMA SignedArithmetic ==
  \A m \in SignedMagic \cup {Three} : \A x \in Words : SignedResult(m, x) = Truncated(x, m.divisor)
<1> SUFFICES ASSUME NEW m \in SignedMagic \cup {Three}, NEW x \in Words
             PROVE  SignedResult(m, x) = Truncated(x, m.divisor)
  OBVIOUS
<1>1. Precise(m) /\ Multiplier(m) = Whole(m)
  BY SignedPrecise, SignedAreWhole, Zenon
<1>2. CASE x < 0
  <2> DEFINE y == -x
  <2>1. y \in 0 .. HalfRange /\ y # 0 /\ -y = x
    BY <1>2, HalfRangeIsNat, SMT DEF Words
  <2>2. x \div HalfRange = -1
    <3>1. x \in -HalfRange .. -1 /\ HalfRange \in Nat \ {0}
      BY <1>2, HalfRangeIsNat, SMT DEF Words
    <3>2. x = (-1) * HalfRange + (x + HalfRange) /\ x + HalfRange \in 0 .. HalfRange - 1 /\ -1 \in Int
      BY <3>1
    <3> QED BY <3>1, <3>2, Floor
  <2> HIDE DEF y
  <2>3. ((-y) * Whole(m)) \div TwoTo[m.shift] = -(y \div m.divisor) - 1
    BY <1>1, <2>1, PreciseDivides, Zenon
  <2>4. y \div m.divisor \in Int
    <3>1. m.divisor \in Nat \ {0}
      BY <1>1, Zenon DEF Precise, Exact
    <3>2. y \in Nat
      BY <2>1, HalfRangeIsNat
    <3> QED BY <3>1, <3>2, Euclid, SMTT(30)
  <2>5. SignedResult(m, x) = (-(y \div m.divisor) - 1) - (-1)
    BY <1>1, <2>1, <2>2, <2>3, Zenon DEF SignedResult
  <2>6. Truncated(x, m.divisor) = -(y \div m.divisor)
    BY <1>2, Zenon DEF Truncated, y
  <2> QED BY <2>4, <2>5, <2>6
<1>3. CASE ~(x < 0)
  <2>1. x \in 0 .. HalfRange /\ x # HalfRange /\ x \in Nat
    BY <1>3, HalfRangeIsNat, SMT DEF Words
  <2>2. x \div HalfRange = 0
    <3>1. x \in 0 .. HalfRange - 1 /\ HalfRange \in Nat \ {0} /\ x = 0 * HalfRange + x
      BY <2>1, HalfRangeIsNat
    <3> QED BY <3>1, Floor
  <2>3. (x * Whole(m)) \div TwoTo[m.shift] = x \div m.divisor
    BY <1>1, <2>1, PreciseDivides, Zenon
  <2>4. x \div m.divisor \in Int
    <3>1. m.divisor \in Nat \ {0}
      BY <1>1, Zenon DEF Precise, Exact
    <3> QED BY <2>1, <3>1, Euclid, SMTT(30)
  <2>5. SignedResult(m, x) = (x \div m.divisor) - 0
    BY <1>1, <2>2, <2>3, Zenon DEF SignedResult
  <2>6. Truncated(x, m.divisor) = x \div m.divisor
    BY <1>3, Zenon DEF Truncated
  <2> QED BY <2>4, <2>5, <2>6
<1> QED BY <1>2, <1>3

\* The floor of a negative dividend with one less than the divisor added is
\* its quotient towards zero.
LEMMA PowerArithmetic ==
  \A n \in Nat \ {0} : \A x \in Int : PowerResult(n, x) = Truncated(x, n)
<1> SUFFICES ASSUME NEW n \in Nat \ {0}, NEW x \in Int PROVE PowerResult(n, x) = Truncated(x, n)
  OBVIOUS
<1>1. CASE x < 0
  <2> DEFINE q == (-x) \div n
             r == (-x) % n
  <2>1. q \in Nat /\ r \in 0 .. n - 1 /\ -x = n * q + r
    <3>1. -x \in Nat
      BY <1>1
    <3> QED BY <3>1, Euclid
  <2> HIDE DEF q, r
  <2>2. x + (n - 1) = (-q) * n + (n - 1 - r) /\ n - 1 - r \in 0 .. n - 1 /\ -q \in Int
    <3>1. (-q) * n = -(n * q)
      BY <2>1
    <3>2. n * q \in Int
      BY <2>1
    <3> QED BY <2>1, <3>1, <3>2
  <2>3. (x + (n - 1)) \div n = -q
    BY <2>2, Floor
  <2> QED BY <1>1, <2>3 DEF PowerResult, Truncated, q
<1>2. CASE ~(x < 0)
  BY <1>2 DEF PowerResult, Truncated
<1> QED BY <1>1, <1>2

----------------------------------------------------------------------------
(* The frame.                                                              *)

\* Rounding up to a multiple.
LEMMA Rounded ==
  ASSUME NEW n \in Nat, NEW a \in Nat \ {0}
  PROVE  /\ AlignTo(n, a) \in Nat /\ n <= AlignTo(n, a)
         /\ \E q \in Nat : AlignTo(n, a) = q * a
<1> DEFINE q == (n + a - 1) \div a
           r == (n + a - 1) % a
<1>1. q \in Nat /\ r \in 0 .. a - 1 /\ n + a - 1 = a * q + r
  <2>1. n + a - 1 \in Nat
    OBVIOUS
  <2> QED BY <2>1, Euclid
<1>2. AlignTo(n, a) = q * a
  BY DEF AlignTo
<1> HIDE DEF q, r
<1>3. q * a = a * q /\ q * a \in Nat
  BY <1>1
<1> QED BY <1>1, <1>2, <1>3

\* Another room starts at a multiple of its alignment, below what was there,
\* with space for its bytes.
LEMMA Below ==
  ASSUME NEW depth \in Nat, NEW c \in Claims
  PROVE  /\ Allocated(depth, c) \in Nat /\ depth + c.bytes <= Allocated(depth, c)
         /\ \E q \in Nat : Allocated(depth, c) = q * c.align
<1>1. c.bytes \in Nat /\ c.align \in Nat \ {0}
  BY DEF Claims
<1> DEFINE b == AlignTo(c.bytes, c.align)
<1>2. b \in Nat /\ c.bytes <= b
  BY <1>1, Rounded, Zenon
<1> HIDE DEF b
<1>3. depth + b \in Nat
  BY <1>2
<1> DEFINE d == AlignTo(depth + b, c.align)
<1>4. d \in Nat /\ depth + b <= d /\ \E q \in Nat : d = q * c.align
  BY <1>1, <1>3, Rounded, Zenon
<1>5. Allocated(depth, c) = d
  BY Zenon DEF Allocated, b
<1> HIDE DEF d
<1> QED BY <1>1, <1>2, <1>4, <1>5

\* The depths are built one after the other.
LEMMA DepthsDefined ==
  ASSUME NEW rooms \in Seq(Claims)
  PROVE  /\ Depths(rooms)[0] = 0
         /\ \A k \in 1 .. Len(rooms) : Depths(rooms)[k] = Allocated(Depths(rooms)[k - 1], rooms[k])
<1> DEFINE n == Len(rooms)
           At(f, k) == IF k = 0 THEN 0 ELSE Allocated(f[k - 1], rooms[k])
           To(m, f) == f = [k \in 0 .. n |-> f[k]] /\ \A k \in 0 .. m : f[k] = At(f, k)
           S == {m \in 0 .. n : \E f : To(m, f)}
<1>0. n \in Nat
  OBVIOUS
<1> HIDE DEF n
<1>1. 0 \in S
  <2> DEFINE f == [k \in 0 .. n |-> 0]
  <2>1. To(0, f)
    BY <1>0
  <2>2. 0 \in 0 .. n
    BY <1>0
  <2> HIDE DEF To, f
  <2> QED BY <2>1, <2>2
<1>2. ASSUME NEW m \in 0 .. n - 1, m \in S PROVE m + 1 \in S
  <2>0. m \in Nat /\ m + 1 \in 0 .. n
    BY <1>0
  <2>1. PICK f : To(m, f)
    BY <1>2
  <2> DEFINE g == [k \in 0 .. n |-> IF k = m + 1 THEN Allocated(f[m], rooms[m + 1]) ELSE f[k]]
  <2>2. g = [k \in 0 .. n |-> g[k]]
    OBVIOUS
  <2>3. ASSUME NEW k \in 0 .. m + 1 PROVE g[k] = At(g, k)
    <3>1. CASE k = m + 1
      <4>1. k # 0 /\ k - 1 = m /\ k \in 0 .. n /\ m \in 0 .. n /\ m # m + 1
        BY <1>0, <2>0, <3>1
      <4>2. g[k] = Allocated(f[m], rooms[m + 1]) /\ g[m] = f[m]
        BY <3>1, <4>1
      <4> HIDE DEF g
      <4> QED BY <3>1, <4>1, <4>2
    <3>2. CASE k # m + 1
      <4>1. k \in 0 .. m /\ k \in 0 .. n /\ g[k] = f[k]
        BY <1>0, <2>0, <3>2
      <4>2. k # 0 => k - 1 \in 0 .. n /\ k - 1 # m + 1 /\ g[k - 1] = f[k - 1]
        BY <1>0, <2>0, <4>1
      <4>3. f[k] = At(f, k)
        BY <2>1, <4>1
      <4> HIDE DEF g
      <4> QED BY <4>1, <4>2, <4>3
    <3> QED BY <3>1, <3>2
  <2>4. To(m + 1, g)
    BY <2>2, <2>3
  <2> HIDE DEF To, g
  <2> QED BY <2>0, <2>4
<1>3. n \in S
  <2>1. 0 \in Int /\ n \in Int /\ n \in 0 .. n
    BY <1>0
  <2> HIDE DEF S
  <2>2. 0 .. n \subseteq S
    BY <1>1, <1>2, <2>1, InductionUpTo, Zenon
  <2> QED BY <2>1, <2>2
<1>4. PICK f : To(n, f)
  <2> HIDE DEF To
  <2> QED BY <1>3
<1>5. f = [k \in 0 .. n |-> At(f, k)]
  BY <1>4
<1>6. Depths(rooms) = [k \in 0 .. n |-> At(Depths(rooms), k)]
  <2> DEFINE Is(g) == g = [k \in 0 .. Len(rooms) |-> IF k = 0 THEN 0 ELSE Allocated(g[k - 1], rooms[k])]
  <2>1. Is(f)
    BY <1>5, Zenon DEF n
  <2>2. Depths(rooms) = CHOOSE g : Is(g)
    BY Zenon DEF Depths
  <2> HIDE DEF Is
  <2>3. Is(Depths(rooms))
    BY <2>1, <2>2, Zenon
  <2> QED BY <2>3, Zenon DEF Is, n
<1>7. ASSUME NEW k \in 0 .. n PROVE Depths(rooms)[k] = At(Depths(rooms), k)
  <2> DEFINE D == Depths(rooms)
             g == [j \in 0 .. n |-> At(D, j)]
  <2>1. g[k] = At(D, k)
    OBVIOUS
  <2>2. D = g
    BY <1>6, Zenon
  <2> HIDE DEF g, D
  <2> QED BY <2>1, <2>2 DEF D
<1>8. 0 \in 0 .. n /\ \A k \in 1 .. n : k \in 0 .. n /\ k # 0
  BY <1>0
<1> QED BY <1>7, <1>8 DEF n

\* Depths are natural numbers that never fall.
LEMMA DepthsGrow ==
  ASSUME NEW rooms \in Seq(Claims)
  PROVE  /\ \A k \in 0 .. Len(rooms) : Depths(rooms)[k] \in Nat
         /\ \A j \in 0 .. Len(rooms) : \A k \in j .. Len(rooms) : Depths(rooms)[j] <= Depths(rooms)[k]
<1> DEFINE n == Len(rooms)
           D == Depths(rooms)
<1>1. n \in Nat /\ \A k \in 1 .. n : rooms[k] \in Claims
  OBVIOUS
<1>2. D[0] = 0 /\ \A k \in 1 .. n : D[k] = Allocated(D[k - 1], rooms[k])
  BY DepthsDefined, Zenon
<1> HIDE DEF D, n
<1>3. ASSUME NEW k \in 0 .. n - 1, D[k] \in Nat PROVE D[k + 1] \in Nat /\ D[k] <= D[k + 1]
  <2>1. k + 1 \in 1 .. n /\ (k + 1) - 1 = k
    BY <1>1
  <2>2. D[k + 1] = Allocated(D[k], rooms[k + 1]) /\ rooms[k + 1] \in Claims
    BY <1>1, <1>2, <2>1
  <2>3. rooms[k + 1].bytes \in Nat
    BY <2>2 DEF Claims
  <2>4. D[k + 1] \in Nat /\ D[k] + rooms[k + 1].bytes <= D[k + 1]
    BY <1>3, <2>2, Below
  <2> QED BY <1>3, <2>3, <2>4
<1> DEFINE S == {k \in 0 .. n : D[k] \in Nat}
<1>4. 0 .. n \subseteq S
  <2>1. 0 \in S
    BY <1>1, <1>2
  <2>2. ASSUME NEW k \in 0 .. n - 1, k \in S PROVE k + 1 \in S
    BY <1>1, <1>3, <2>2
  <2>3. 0 \in Int /\ n \in Int
    BY <1>1
  <2> HIDE DEF S
  <2> QED BY <2>1, <2>2, <2>3, InductionUpTo, Zenon
<1>5. ASSUME NEW k \in 0 .. n PROVE D[k] \in Nat
  BY <1>4
<1>6. ASSUME NEW j \in 0 .. n PROVE \A k \in j .. n : D[j] <= D[k]
  <2> DEFINE T == {k \in j .. n : D[j] <= D[k]}
  <2>1. j \in T
    BY <1>1, <1>5
  <2>2. ASSUME NEW k \in j .. n - 1, k \in T PROVE k + 1 \in T
    <3>1. k \in 0 .. n - 1 /\ k \in 0 .. n /\ k + 1 \in j .. n
      BY <1>1
    <3>2. D[k] \in Nat /\ D[j] \in Nat /\ D[j] <= D[k]
      BY <1>5, <2>2, <3>1
    <3>3. D[k + 1] \in Nat /\ D[k] <= D[k + 1]
      BY <1>3, <3>1, <3>2
    <3> QED BY <3>1, <3>2, <3>3
  <2>3. j \in Int /\ n \in Int
    BY <1>1
  <2>4. j .. n \subseteq T
    <3> HIDE DEF T
    <3> QED BY <2>1, <2>2, <2>3, InductionUpTo, Zenon
  <2> QED BY <2>4
<1> QED BY <1>5, <1>6 DEF D, n

\* What asks for room in a frame, in whatever order and however large, gets
\* bytes of its own: between the frame pointer and the end of the frame, at a
\* multiple of its alignment, and none of them another's (collectFrame).
THEOREM RoomsAreApart ==
  ASSUME NEW rooms \in Seq(Claims),
         \A j, k \in DOMAIN rooms : rooms[j].id = rooms[k].id => j = k
  PROVE  LET frame == CollectFrame(rooms)
             Start(k) == frame.at[rooms[k].id]
             Extent(k) == Start(k) .. (Start(k) + rooms[k].bytes - 1)
         IN  /\ \A k \in DOMAIN rooms : /\ Extent(k) \subseteq -frame.size .. -1
                                        /\ Start(k) % rooms[k].align = 0
             /\ \A j, k \in DOMAIN rooms : j # k => Extent(j) \cap Extent(k) = {}
             /\ frame.size % 16 = 0
<1> DEFINE n == Len(rooms)
           D == Depths(rooms)
           frame == CollectFrame(rooms)
           Start(k) == frame.at[rooms[k].id]
<1>1. n \in Nat /\ DOMAIN rooms = 1 .. n /\ \A k \in 1 .. n : rooms[k] \in Claims
  OBVIOUS
<1>2. D[0] = 0 /\ \A k \in 1 .. n : D[k] = Allocated(D[k - 1], rooms[k])
  BY DepthsDefined, Zenon
<1>3. /\ \A k \in 0 .. n : D[k] \in Nat
      /\ \A j \in 0 .. n : \A k \in j .. n : D[j] <= D[k]
  BY DepthsGrow, Zenon
<1>4. \A k \in DOMAIN rooms : Start(k) = -D[k]
  <2> TAKE k \in DOMAIN rooms
  <2> DEFINE RoomOf(id) == CHOOSE j \in DOMAIN rooms : rooms[j].id = id
  <2>1. RoomOf(rooms[k].id) = k
    OBVIOUS
  <2>2. frame.at = [id \in Asking(rooms) |-> -D[RoomOf(id)]]
    BY DEF CollectFrame
  <2>3. rooms[k].id \in Asking(rooms)
    BY DEF Asking
  <2> HIDE DEF RoomOf, D, frame
  <2> QED BY <2>1, <2>2, <2>3
<1>5. frame.size = AlignTo(D[n] + 16, 16)
  BY DEF CollectFrame
<1> HIDE DEF n, D, frame
<1>6. frame.size \in Nat /\ D[n] <= frame.size /\ frame.size % 16 = 0
  <2>1. D[n] \in Nat /\ D[n] + 16 \in Nat
    BY <1>1, <1>3
  <2>2. 16 \in Nat \ {0}
    OBVIOUS
  <2>3. /\ AlignTo(D[n] + 16, 16) \in Nat /\ D[n] + 16 <= AlignTo(D[n] + 16, 16)
        /\ \E q \in Nat : AlignTo(D[n] + 16, 16) = q * 16
    BY <2>1, <2>2, Rounded
  <2> QED BY <1>5, <2>1, <2>3
<1>7. ASSUME NEW k \in 1 .. n
      PROVE  /\ D[k] \in Nat /\ D[k - 1] \in Nat /\ rooms[k].bytes \in Nat /\ rooms[k].align \in Nat \ {0}
             /\ D[k - 1] + rooms[k].bytes <= D[k] /\ D[k] <= D[n]
             /\ (-D[k]) % rooms[k].align = 0
  <2>1. k \in 0 .. n /\ k - 1 \in 0 .. n /\ n \in k .. n
    BY <1>1
  <2>2. D[k] \in Nat /\ D[k - 1] \in Nat /\ D[k] <= D[n]
    BY <1>3, <2>1
  <2>3. rooms[k].bytes \in Nat /\ rooms[k].align \in Nat \ {0}
    BY <1>1 DEF Claims
  <2>4. D[k - 1] + rooms[k].bytes <= D[k] /\ \E q \in Nat : D[k] = q * rooms[k].align
    <3>1. D[k] = Allocated(D[k - 1], rooms[k]) /\ rooms[k] \in Claims
      BY <1>1, <1>2
    <3>2. /\ D[k - 1] + rooms[k].bytes <= Allocated(D[k - 1], rooms[k])
          /\ \E q \in Nat : Allocated(D[k - 1], rooms[k]) = q * rooms[k].align
      BY <2>2, <3>1, Below, Zenon
    <3> QED BY <3>1, <3>2, Zenon
  <2>5. PICK q \in Nat : D[k] = q * rooms[k].align
    BY <2>4
  <2>6. ASSUME NEW a \in Nat \ {0} PROVE (-(q * a)) % a = 0
    <3>1. -(q * a) = (-q) * a + 0 /\ -q \in Int /\ 0 \in 0 .. a - 1
      OBVIOUS
    <3>2. (-(q * a)) \div a = -q
      BY <3>1, Floor
    <3>3. ASSUME NEW x \in Int PROVE x = a * (x \div a) + (x % a) /\ x % a \in Int
      OBVIOUS
    <3>4. a * (-q) = -(q * a)
      OBVIOUS
    <3>5. -(q * a) \in Int
      OBVIOUS
    <3> QED BY <3>2, <3>3, <3>4, <3>5
  <2> QED BY <2>2, <2>3, <2>4, <2>5, <2>6
<1>8. ASSUME NEW k \in 1 .. n
      PROVE  /\ Start(k) .. (Start(k) + rooms[k].bytes - 1) \subseteq -frame.size .. -1
             /\ Start(k) % rooms[k].align = 0
  <2>1. Start(k) = -D[k]
    BY <1>1, <1>4
  <2>2. ASSUME NEW d \in Nat, NEW b \in Nat, NEW p \in Nat, NEW s \in Nat, NEW last \in Nat,
               p + b <= d, d <= last, last <= s
        PROVE  -d .. (-d + b - 1) \subseteq -s .. -1
    BY <2>2
  <2>3. /\ D[k] \in Nat /\ rooms[k].bytes \in Nat /\ D[k - 1] \in Nat /\ frame.size \in Nat /\ D[n] \in Nat
        /\ D[k - 1] + rooms[k].bytes <= D[k] /\ D[k] <= D[n] /\ D[n] <= frame.size
    <3>1. n \in 0 .. n
      BY <1>1
    <3> QED BY <1>3, <1>6, <1>7, <3>1
  <2>4. -D[k] .. (-D[k] + rooms[k].bytes - 1) \subseteq -frame.size .. -1
    BY <2>2, <2>3, Zenon
  <2>5. (-D[k]) % rooms[k].align = 0
    BY <1>7
  <2> HIDE DEF Start
  <2> QED BY <2>1, <2>4, <2>5, Zenon
<1>9. ASSUME NEW j \in 1 .. n, NEW k \in 1 .. n, j < k
      PROVE  (Start(j) .. (Start(j) + rooms[j].bytes - 1)) \cap (Start(k) .. (Start(k) + rooms[k].bytes - 1)) = {}
  <2>1. Start(k) = -D[k] /\ Start(j) = -D[j]
    BY <1>1, <1>4
  <2>2. D[j] <= D[k - 1]
    <3>1. j \in 0 .. n /\ k - 1 \in j .. n
      BY <1>1, <1>9
    <3> QED BY <1>3, <3>1
  <2> HIDE DEF Start
  <2>3. /\ D[j] \in Nat /\ D[k] \in Nat /\ D[k - 1] \in Nat /\ rooms[k].bytes \in Nat /\ rooms[j].bytes \in Nat
        /\ D[k - 1] + rooms[k].bytes <= D[k]
    BY <1>7
  <2>4. ASSUME NEW d \in Nat, NEW e \in Nat, NEW p \in Nat, NEW b \in Nat, NEW c \in Nat,
               d <= p, p + b <= e
        PROVE  (-d .. (-d + c - 1)) \cap (-e .. (-e + b - 1)) = {}
    BY <2>4
  <2>5. (-D[j] .. (-D[j] + rooms[j].bytes - 1)) \cap (-D[k] .. (-D[k] + rooms[k].bytes - 1)) = {}
    BY <2>2, <2>3, <2>4, Zenon
  <2> QED BY <2>1, <2>5, Zenon
<1>10. ASSUME NEW j \in 1 .. n, NEW k \in 1 .. n, j # k
       PROVE  (Start(j) .. (Start(j) + rooms[j].bytes - 1)) \cap (Start(k) .. (Start(k) + rooms[k].bytes - 1)) = {}
  <2>1. j < k \/ k < j
    BY <1>10
  <2> HIDE DEF Start
  <2> QED BY <1>9, <2>1
<1> QED BY <1>1, <1>6, <1>8, <1>10 DEF frame

----------------------------------------------------------------------------
(* The copies.                                                             *)

\* What a source holds: what its slot does, if it has one; otherwise something
\* the copies leave alone (a constant, an address).
Held(slots, rest, source) ==
  IF IsVar(source) /\ source[2] \in DOMAIN slots THEN slots[source[2]] ELSE rest[source]

\* What a step of CopySteps does to the slots and to what is saved on the
\* stack; storeCopy leaves a copy to itself out.
Done(rest, step, state) ==
  [slots |-> IF step.does = "set"
             THEN IF step.copy.source = Var(step.copy.target) THEN state.slots
                  ELSE [state.slots EXCEPT ![step.copy.target] =
                          Held(state.slots, rest, step.copy.source)]
             ELSE IF step.does = "move"
             THEN [state.slots EXCEPT ![step.copy.target] = state.saved[step.at]]
             ELSE state.slots,
   saved |-> IF step.does = "save"
             THEN [state.saved EXCEPT ![step.at] = Held(state.slots, rest, step.copy.source)]
             ELSE state.saved]

\* U goes through the states the steps lead to, from the first.
Runs(rest, steps, state, U) ==
  /\ U[0] = state
  /\ \A k \in 1 .. Len(steps) : U[k] = Done(rest, steps[k], U[k - 1])

\* The steps one after the other.
Performed(rest, steps, state) ==
  LET After[k \in 0 .. Len(steps)] ==
        IF k = 0 THEN state ELSE Done(rest, steps[k], After[k - 1])
  IN  After[Len(steps)]

LEMMA PerformedRuns ==
  ASSUME NEW rest, NEW steps, Len(steps) \in Nat, NEW state
  PROVE  \E U : Runs(rest, steps, state, U) /\ Performed(rest, steps, state) = U[Len(steps)]
<1> DEFINE n == Len(steps)
           At(F, i) == IF i = 0 THEN state ELSE Done(rest, steps[i], F[i - 1])
           To(m, F) == /\ F = [i \in 0 .. n |-> F[i]]
                       /\ \A i \in 0 .. m : F[i] = At(F, i)
           S == {m \in 0 .. n : \E F : To(m, F)}
<1>0. n \in Nat
  OBVIOUS
<1> HIDE DEF n
<1>1. 0 \in S
  <2> DEFINE F == [i \in 0 .. n |-> state]
  <2>1. F = [i \in 0 .. n |-> F[i]]
    OBVIOUS
  <2>2. F[0] = state
    BY <1>0
  <2>3. ASSUME NEW i \in 0 .. 0 PROVE F[i] = At(F, i)
    <3>1. i = 0
      OBVIOUS
    <3> HIDE DEF F
    <3> QED BY <2>2, <3>1
  <2>4. To(0, F)
    <3> HIDE DEF F, At
    <3> QED BY <2>1, <2>3
  <2> HIDE DEF To, F
  <2> QED BY <1>0, <2>4
<1>2. ASSUME NEW m \in 0 .. n - 1, m \in S PROVE m + 1 \in S
  <2>1. PICK F : To(m, F)
    BY <1>2
  <2> DEFINE v == At(F, m + 1)
             G == [i \in 0 .. n |-> IF i = m + 1 THEN v ELSE F[i]]
  <2>2. G = [i \in 0 .. n |-> G[i]]
    OBVIOUS
  <2>3. G[m + 1] = v /\ \A i \in 0 .. m : G[i] = F[i]
    <3> HIDE DEF v
    <3> QED BY <1>0
  <2>4. ASSUME NEW i \in 0 .. m + 1 PROVE G[i] = At(G, i)
    <3> HIDE DEF G
    <3>1. CASE i = m + 1
      <4>1. (m + 1) - 1 = m /\ m \in 0 .. m
        BY <1>0
      <4>2. At(G, m + 1) = At(F, m + 1)
        BY <2>3, <4>1, Zenon
      <4> QED BY <2>3, <3>1, <4>2, Zenon
    <3>2. CASE i \in 0 .. m
      <4>1. i # 0 => i - 1 \in 0 .. m
        BY <1>0, <3>2
      <4>2. F[i] = At(F, i)
        BY <2>1, <3>2, Zenon
      <4>3. At(G, i) = At(F, i)
        BY <2>3, <4>1, Zenon
      <4> QED BY <2>3, <3>2, <4>2, <4>3, Zenon
    <3>3. i = m + 1 \/ i \in 0 .. m
      BY <1>0
    <3> QED BY <3>1, <3>2, <3>3
  <2>5. To(m + 1, G)
    <3> HIDE DEF G, At
    <3> QED BY <2>2, <2>4, Zenon
  <2>6. m + 1 \in 0 .. n
    BY <1>0
  <2> HIDE DEF To, G
  <2> QED BY <2>5, <2>6
<1>3. 0 .. n \subseteq S
  <2>1. 0 \in Int /\ n \in Int
    BY <1>0
  <2> HIDE DEF S
  <2> QED BY <1>1, <1>2, <2>1, InductionUpTo, Zenon
<1>4. PICK F : To(n, F)
  <2>1. n \in S
    <3>1. n \in 0 .. n
      BY <1>0
    <3> HIDE DEF S
    <3> QED BY <1>3, <3>1
  <2> HIDE DEF To
  <2> QED BY <2>1
<1>5. F = [i \in 0 .. n |-> At(F, i)]
  <2> HIDE DEF At
  <2> QED BY <1>4
<1> DEFINE C == CHOOSE After : After = [k \in 0 .. Len(steps) |->
                   IF k = 0 THEN state ELSE Done(rest, steps[k], After[k - 1])]
<1>6. C = [i \in 0 .. n |-> At(C, i)]
  BY <1>5, Zenon DEF n
<1>7. Performed(rest, steps, state) = C[n]
  BY Zenon DEF Performed, n
<1> HIDE DEF C
<1>8. \A i \in 0 .. n : C[i] = At(C, i)
  <2> DEFINE G == [i \in 0 .. n |-> At(C, i)]
  <2>1. \A i \in 0 .. n : G[i] = At(C, i)
    OBVIOUS
  <2>2. C = G
    BY <1>6
  <2> HIDE DEF G, At
  <2> QED BY <2>1, <2>2
<1>9. C[0] = state
  BY <1>0, <1>8
<1>10. \A i \in 1 .. n : C[i] = Done(rest, steps[i], C[i - 1])
  BY <1>0, <1>8
<1> QED BY <1>7, <1>9, <1>10 DEF Runs, n

\* Copies between the slots of ids; what two of them bring to one target is the
\* same (an edge that is there twice).
IsCopyList(ids, sources, copies) ==
  /\ \A s \in sources : IsVar(s) => s = Var(s[2])
  /\ copies \in Seq([target : ids, source : sources])
  /\ \A j, k \in DOMAIN copies :
       copies[j].target = copies[k].target => copies[j].source = copies[k].source

\* The first m targets hold what their sources did, the other slots what they did.
Moved(ids, slots, rest, copies, m, now) ==
  /\ now = [id \in ids |-> now[id]]
  /\ \A k \in 1 .. m : now[copies[k].target] = Held(slots, rest, copies[k].source)
  /\ \A id \in ids : (\A k \in 1 .. m : copies[k].target # id) => now[id] = slots[id]

LEMMA SeqParts ==
  ASSUME NEW T, NEW s \in Seq(T)
  PROVE  Len(s) \in Nat /\ DOMAIN s = 1 .. Len(s) /\ \A k \in 1 .. Len(s) : s[k] \in T
OBVIOUS

\* Two lists of the same length, one after the other.
LEMMA OneThenOther ==
  ASSUME NEW T, NEW n \in Nat, NEW a \in [1 .. n -> T], NEW b \in [1 .. n -> T]
  PROVE  /\ Len(a) = n /\ Len(a \o b) = n + n
         /\ \A k \in 1 .. n : (a \o b)[k] = a[k] /\ (a \o b)[n + k] = b[k]
<1>1. a \in Seq(T) /\ b \in Seq(T) /\ Len(a) = n /\ Len(b) = n
  OBVIOUS
<1> QED BY <1>1

LEMMA CopyParts ==
  ASSUME NEW ids, NEW sources, NEW copies, IsCopyList(ids, sources, copies)
  PROVE  /\ Len(copies) \in Nat /\ DOMAIN copies = 1 .. Len(copies)
         /\ \A k \in 1 .. Len(copies) : /\ copies[k].target \in ids
                                        /\ IsVar(copies[k].source) =>
                                             copies[k].source = Var(copies[k].source[2])
<1>1. copies \in Seq([target : ids, source : sources])
  BY Zenon DEF IsCopyList
<1>2. /\ Len(copies) \in Nat /\ DOMAIN copies = 1 .. Len(copies)
      /\ \A k \in 1 .. Len(copies) : copies[k] \in [target : ids, source : sources]
  BY <1>1, SeqParts, Zenon
<1>3. \A s \in sources : IsVar(s) => s = Var(s[2])
  BY Zenon DEF IsCopyList
<1>4. ASSUME NEW k \in 1 .. Len(copies)
      PROVE  copies[k].target \in ids /\ copies[k].source \in sources
  BY <1>2
<1> QED BY <1>2, <1>3, <1>4, Zenon

\* One more target is given what its source held.
LEMMA OneMore ==
  ASSUME NEW ids, NEW sources, NEW copies, IsCopyList(ids, sources, copies),
         NEW slots, NEW rest, NEW m \in 0 .. Len(copies) - 1,
         NEW now, Moved(ids, slots, rest, copies, m, now), NEW then,
         then = [now EXCEPT ![copies[m + 1].target] = Held(slots, rest, copies[m + 1].source)]
  PROVE  Moved(ids, slots, rest, copies, m + 1, then)
<1> DEFINE t == copies[m + 1].target
           h == Held(slots, rest, copies[m + 1].source)
<1>0. m + 1 \in 1 .. Len(copies) /\ 1 .. m \subseteq 1 .. Len(copies)
      /\ (\A k \in 1 .. m + 1 : k = m + 1 \/ k \in 1 .. m)
      /\ 1 .. m \subseteq 1 .. m + 1 /\ m + 1 \in 1 .. m + 1
  BY CopyParts
<1>1. t \in ids /\ \A k \in 1 .. m : copies[k].target \in ids
  BY <1>0, CopyParts
<1>2. now = [id \in ids |-> now[id]] /\ then = [now EXCEPT ![t] = h]
  BY Zenon DEF Moved
<1>3. /\ \A k \in 1 .. m : now[copies[k].target] = Held(slots, rest, copies[k].source)
      /\ \A id \in ids : (\A k \in 1 .. m : copies[k].target # id) => now[id] = slots[id]
  BY Zenon DEF Moved
<1>4. \A k \in 1 .. m : copies[k].target = t => copies[k].source = copies[m + 1].source
  <2>1. \A j, k \in DOMAIN copies :
          copies[j].target = copies[k].target => copies[j].source = copies[k].source
    BY Zenon DEF IsCopyList
  <2>2. DOMAIN copies = 1 .. Len(copies)
    BY CopyParts
  <2> QED BY <1>0, <2>1, <2>2
<1> HIDE DEF t, h
<1>5. then = [id \in ids |-> IF id = t THEN h ELSE now[id]]
  BY <1>1, <1>2
<1>6. then = [id \in ids |-> then[id]] /\ then[t] = h /\ \A id \in ids : id # t => then[id] = now[id]
  BY <1>1, <1>5
<1>7. ASSUME NEW k \in 1 .. m + 1 PROVE then[copies[k].target] = Held(slots, rest, copies[k].source)
  <2>1. CASE copies[k].target = t
    <3>1. copies[k].source = copies[m + 1].source
      BY <1>0, <1>4, <2>1, Zenon
    <3> QED BY <1>6, <2>1, <3>1, Zenon DEF h
  <2>2. CASE copies[k].target # t
    <3>1. k \in 1 .. m
      BY <1>0, <2>2, Zenon DEF t
    <3> QED BY <1>1, <1>3, <1>6, <2>2, <3>1, Zenon
  <2> QED BY <2>1, <2>2
<1>8. ASSUME NEW id \in ids, \A k \in 1 .. m + 1 : copies[k].target # id PROVE then[id] = slots[id]
  <2>1. id # t
    BY <1>0, <1>8, Zenon DEF t
  <2> QED BY <1>0, <1>3, <1>6, <1>8, <2>1, Zenon
<1> QED BY <1>6, <1>7, <1>8, Zenon DEF Moved

\* The copies act at once: each target gets what its source held before any of
\* them, and no other slot changes, one after the other if that is no harm and
\* by way of the stack otherwise.
THEOREM CopiesAreParallel ==
  ASSUME NEW ids, NEW sources, NEW copies, IsCopyList(ids, sources, copies),
         NEW Contents, NEW slots \in [ids -> Contents], NEW rest,
         NEW junk \in [DOMAIN copies -> Contents]
  PROVE  LET after == Performed(rest, CopySteps(copies), [slots |-> slots, saved |-> junk]).slots
         IN  /\ \A k \in DOMAIN copies :
                  after[copies[k].target] = Held(slots, rest, copies[k].source)
             /\ \A id \in ids :
                  (\A k \in DOMAIN copies : copies[k].target # id) => after[id] = slots[id]
<1> DEFINE n == Len(copies)
           steps == CopySteps(copies)
           start == [slots |-> slots, saved |-> junk]
           Each(does) == [k \in DOMAIN copies |-> [does |-> does, at |-> k, copy |-> copies[k]]]
<1>0. /\ n \in Nat /\ DOMAIN copies = 1 .. n
      /\ \A k \in 1 .. n : /\ copies[k].target \in ids
                           /\ IsVar(copies[k].source) => copies[k].source = Var(copies[k].source[2])
  BY CopyParts
<1> HIDE DEF n
<1>1. slots = [id \in ids |-> slots[id]] /\ DOMAIN slots = ids
  OBVIOUS
<1>2. Moved(ids, slots, rest, copies, 0, slots)
  <2>1. 1 .. 0 = {}
    OBVIOUS
  <2> QED BY <1>1, <2>1, Zenon DEF Moved
<1>3. ASSUME IsDirect(copies)
      PROVE  Moved(ids, slots, rest, copies, n, Performed(rest, steps, start).slots)
  <2>1. steps = Each("set")
    BY <1>3, Zenon DEF CopySteps
  <2>2. Len(steps) = n /\ \A k \in 1 .. n : steps[k] = [does |-> "set", at |-> k, copy |-> copies[k]]
    <3> HIDE DEF steps
    <3> QED BY <1>0, <2>1
  <2>3. PICK U : Runs(rest, steps, start, U) /\ Performed(rest, steps, start) = U[n]
    <3>1. Len(steps) \in Nat /\ Len(steps) = n
      BY <1>0, <2>2, Zenon
    <3> HIDE DEF steps, start
    <3> QED BY <3>1, PerformedRuns, Zenon
  <2> DEFINE S == {m \in 0 .. n : Moved(ids, slots, rest, copies, m, U[m].slots)}
  <2>4. 0 \in S
    <3>1. U[0].slots = slots
      BY <2>3 DEF Runs
    <3>2. 0 \in 0 .. n
      BY <1>0
    <3> QED BY <1>2, <3>1, <3>2
  <2>5. ASSUME NEW m \in 0 .. n - 1, m \in S PROVE m + 1 \in S
    <3> DEFINE now == U[m].slots
               then == U[m + 1].slots
               s == copies[m + 1].source
               t == copies[m + 1].target
    <3>1. m + 1 \in 1 .. n /\ m + 1 \in 0 .. n /\ (m + 1) - 1 = m /\ m \in 0 .. Len(copies) - 1
      BY <1>0 DEF n
    <3>2. Moved(ids, slots, rest, copies, m, now)
      BY <2>5
    <3>3. then = IF s = Var(t) THEN now ELSE [now EXCEPT ![t] = Held(now, rest, s)]
      <4>1. U[m + 1] = Done(rest, steps[m + 1], U[m])
        <5> HIDE DEF steps
        <5> QED BY <2>2, <2>3, <3>1 DEF Runs
      <4>2. steps[m + 1] = [does |-> "set", at |-> m + 1, copy |-> copies[m + 1]]
        BY <2>2, <3>1, Zenon
      <4> HIDE DEF steps
      <4> QED BY <4>1, <4>2 DEF Done
    <3>4. DOMAIN now = ids /\ now = [id \in ids |-> now[id]]
      <4>1. now = [id \in ids |-> now[id]]
        BY <3>2, Zenon DEF Moved
      <4> QED BY <4>1
    <3>5. ASSUME NEW x \in ids, s = Var(x) PROVE now[x] = slots[x]
      <4>1. \A j \in 1 .. m : copies[j].target = x => copies[j].source = s
        <5> SUFFICES ASSUME NEW j \in 1 .. m, copies[j].target = x PROVE copies[j].source = s
          OBVIOUS
        <5>1. j \in DOMAIN copies /\ m + 1 \in DOMAIN copies
          BY <1>0, <3>1
        <5>2. t = x
          BY <1>3, <3>5, <5>1, Zenon DEF IsDirect
        <5> QED BY <5>1, <5>2, Zenon DEF IsCopyList
      <4>2. CASE \E j \in 1 .. m : copies[j].target = x
        <5>1. PICK j \in 1 .. m : copies[j].target = x
          BY <4>2
        <5>2. now[x] = Held(slots, rest, s)
          BY <3>2, <4>1, <5>1, Zenon DEF Moved
        <5>3. IsVar(s) /\ s[2] = x
          BY <3>5 DEF IsVar, Var
        <5> QED BY <1>1, <5>2, <5>3, Zenon DEF Held
      <4>3. CASE \A j \in 1 .. m : copies[j].target # x
        BY <3>2, <4>3, Zenon DEF Moved
      <4> QED BY <4>2, <4>3
    <3>6. Held(now, rest, s) = Held(slots, rest, s)
      <4>1. CASE IsVar(s) /\ s[2] \in ids
        <5>1. s = Var(s[2])
          BY <1>0, <3>1, <4>1
        <5>2. now[s[2]] = slots[s[2]]
          BY <3>5, <4>1, <5>1, Zenon
        <5> QED BY <1>1, <3>4, <4>1, <5>2, Zenon DEF Held
      <4>2. CASE ~(IsVar(s) /\ s[2] \in ids)
        BY <1>1, <3>4, <4>2, Zenon DEF Held
      <4> QED BY <4>1, <4>2
    <3>7. then = [now EXCEPT ![t] = Held(slots, rest, s)]
      <4>1. CASE s = Var(t)
        <5>1. t \in ids
          BY <1>0, <3>1
        <5>2. now[t] = slots[t]
          BY <3>5, <4>1, <5>1, Zenon
        <5>3. IsVar(s) /\ s[2] = t
          BY <4>1 DEF IsVar, Var
        <5>4. Held(slots, rest, s) = now[t]
          BY <1>1, <5>1, <5>2, <5>3, Zenon DEF Held
        <5>5. then = now
          BY <3>3, <4>1, Zenon
        <5> HIDE DEF now, then, s, t
        <5>6. [now EXCEPT ![t] = now[t]] = now
          BY <3>4, <5>1
        <5> QED BY <5>4, <5>5, <5>6, Zenon
      <4>2. CASE s # Var(t)
        BY <3>3, <3>6, <4>2, Zenon
      <4> QED BY <4>1, <4>2
    <3>8. Moved(ids, slots, rest, copies, m + 1, then)
      <4> HIDE DEF now, then
      <4> QED BY <3>1, <3>2, <3>7, OneMore
    <3> QED BY <3>1, <3>8
  <2>6. n \in S
    <3>1. 0 \in Int /\ n \in Int /\ n \in 0 .. n
      BY <1>0
    <3> HIDE DEF S
    <3>2. 0 .. n \subseteq S
      BY <2>4, <2>5, <3>1, InductionUpTo, Zenon
    <3> QED BY <3>1, <3>2
  <2> QED BY <2>3, <2>6
<1>4. ASSUME ~IsDirect(copies)
      PROVE  Moved(ids, slots, rest, copies, n, Performed(rest, steps, start).slots)
  <2>1. steps = Each("save") \o Each("move")
    BY <1>4, Zenon DEF CopySteps
  <2>2. /\ Len(steps) = n + n
        /\ \A k \in 1 .. n : /\ steps[k] = [does |-> "save", at |-> k, copy |-> copies[k]]
                             /\ steps[n + k] = [does |-> "move", at |-> k, copy |-> copies[k]]
    <3> DEFINE T == [does : {"save", "move"}, at : 1 .. n, copy : {copies[k] : k \in 1 .. n}]
    <3>1. Each("save") \in [1 .. n -> T] /\ Each("move") \in [1 .. n -> T]
      <4>1. \A k \in 1 .. n : copies[k] \in {copies[j] : j \in 1 .. n}
        OBVIOUS
      <4> QED BY <1>0, <4>1
    <3>2. /\ \A k \in 1 .. n : Each("save")[k] = [does |-> "save", at |-> k, copy |-> copies[k]]
          /\ \A k \in 1 .. n : Each("move")[k] = [does |-> "move", at |-> k, copy |-> copies[k]]
      BY <1>0
    <3> HIDE DEF Each, T
    <3>3. /\ Len(Each("save") \o Each("move")) = n + n
          /\ \A k \in 1 .. n : /\ (Each("save") \o Each("move"))[k] = Each("save")[k]
                               /\ (Each("save") \o Each("move"))[n + k] = Each("move")[k]
      BY <1>0, <3>1, OneThenOther
    <3> HIDE DEF steps
    <3> QED BY <2>1, <3>2, <3>3, Zenon
  <2>3. PICK U : Runs(rest, steps, start, U) /\ Performed(rest, steps, start) = U[n + n]
    <3>1. n + n \in Nat
      BY <1>0
    <3>2. Len(steps) \in Nat /\ Len(steps) = n + n
      BY <2>2, <3>1, Zenon
    <3> HIDE DEF steps, start
    <3> QED BY <3>2, PerformedRuns, Zenon
  <2> DEFINE Saved(m, st) ==
               /\ st.slots = slots /\ st.saved = [k \in 1 .. n |-> st.saved[k]]
               /\ \A k \in 1 .. m : st.saved[k] = Held(slots, rest, copies[k].source)
             S == {m \in 0 .. n : Saved(m, U[m])}
             V == {m \in 0 .. n : /\ U[n + m].saved = U[n].saved
                                  /\ Moved(ids, slots, rest, copies, m, U[n + m].slots)}
  <2>4. 0 \in S
    <3>1. U[0] = start
      BY <2>3, Zenon DEF Runs
    <3>2. 0 \in 0 .. n /\ 1 .. 0 = {}
      BY <1>0
    <3>3. junk = [k \in 1 .. n |-> junk[k]]
      BY <1>0
    <3>4. Saved(0, start)
      BY <3>2, <3>3
    <3> HIDE DEF Saved
    <3> QED BY <3>1, <3>2, <3>4
  <2>5. ASSUME NEW m \in 0 .. n - 1, m \in S PROVE m + 1 \in S
    <3>1. m + 1 \in 1 .. n /\ m + 1 \in 0 .. n /\ m + 1 \in 1 .. n + n /\ (m + 1) - 1 = m
          /\ (\A k \in 1 .. m + 1 : k = m + 1 \/ k \in 1 .. m)
          /\ \A k \in 1 .. m : k # m + 1 /\ k \in 1 .. n
      BY <1>0
    <3>2. Saved(m, U[m])
      BY <2>5
    <3>3. U[m + 1] = Done(rest, steps[m + 1], U[m])
      <4> HIDE DEF steps
      <4> QED BY <2>2, <2>3, <3>1 DEF Runs
    <3>4. steps[m + 1] = [does |-> "save", at |-> m + 1, copy |-> copies[m + 1]]
      BY <2>2, <3>1, Zenon
    <3>5. /\ U[m + 1].slots = U[m].slots
          /\ U[m + 1].saved = [U[m].saved EXCEPT ![m + 1] = Held(slots, rest, copies[m + 1].source)]
      <4> HIDE DEF steps
      <4> QED BY <3>2, <3>3, <3>4 DEF Done
    <3> DEFINE before == U[m].saved
               after == U[m + 1].saved
               h == Held(slots, rest, copies[m + 1].source)
    <3>6. /\ before = [k \in 1 .. n |-> before[k]]
          /\ \A k \in 1 .. m : before[k] = Held(slots, rest, copies[k].source)
          /\ after = [before EXCEPT ![m + 1] = h]
      BY <3>2, <3>5
    <3>7. /\ after = [k \in 1 .. n |-> after[k]] /\ after[m + 1] = h
          /\ \A k \in 1 .. m : after[k] = before[k]
      <4> HIDE DEF before, after, h
      <4> QED BY <3>1, <3>6
    <3>8. Saved(m + 1, U[m + 1])
      <4>1. \A k \in 1 .. m + 1 : after[k] = Held(slots, rest, copies[k].source)
        <5> HIDE DEF before, after
        <5> QED BY <3>1, <3>6, <3>7
      <4> QED BY <3>2, <3>5, <3>7, <4>1
    <3> HIDE DEF Saved
    <3> QED BY <3>1, <3>8
  <2>6. n \in S
    <3>1. 0 \in Int /\ n \in Int /\ n \in 0 .. n
      BY <1>0
    <3> HIDE DEF S
    <3>2. 0 .. n \subseteq S
      BY <2>4, <2>5, <3>1, InductionUpTo, Zenon
    <3> QED BY <3>1, <3>2
  <2>7. /\ U[n].slots = slots
        /\ \A k \in 1 .. n : U[n].saved[k] = Held(slots, rest, copies[k].source)
    BY <2>6
  <2> HIDE DEF S
  <2>8. 0 \in V
    <3>1. n + 0 = n /\ 0 \in 0 .. n
      BY <1>0
    <3> QED BY <1>2, <2>7, <3>1
  <2>9. ASSUME NEW m \in 0 .. n - 1, m \in V PROVE m + 1 \in V
    <3>1. m + 1 \in 1 .. n /\ m + 1 \in 0 .. n /\ n + (m + 1) \in 1 .. n + n
          /\ (n + (m + 1)) - 1 = n + m /\ m \in 0 .. Len(copies) - 1
      BY <1>0 DEF n
    <3>2. U[n + m].saved = U[n].saved /\ Moved(ids, slots, rest, copies, m, U[n + m].slots)
      BY <2>9
    <3>3. U[n + (m + 1)] = Done(rest, steps[n + (m + 1)], U[n + m])
      <4> HIDE DEF steps
      <4> QED BY <2>2, <2>3, <3>1 DEF Runs
    <3>4. steps[n + (m + 1)] = [does |-> "move", at |-> m + 1, copy |-> copies[m + 1]]
      BY <2>2, <3>1, Zenon
    <3>5. /\ U[n + (m + 1)].saved = U[n + m].saved
          /\ U[n + (m + 1)].slots =
               [U[n + m].slots EXCEPT ![copies[m + 1].target] = U[n + m].saved[m + 1]]
      <4> HIDE DEF steps
      <4> QED BY <3>3, <3>4 DEF Done
    <3>6. U[n + m].saved[m + 1] = Held(slots, rest, copies[m + 1].source)
      BY <2>7, <3>1, <3>2, Zenon
    <3> DEFINE then == U[n + (m + 1)].slots
               now == U[n + m].slots
    <3>7. then = [now EXCEPT ![copies[m + 1].target] = Held(slots, rest, copies[m + 1].source)]
      BY <3>5, <3>6, Zenon
    <3>8. Moved(ids, slots, rest, copies, m, now)
      BY <3>2
    <3>9. Moved(ids, slots, rest, copies, m + 1, then)
      <4> HIDE DEF now, then
      <4> QED BY <3>1, <3>7, <3>8, OneMore
    <3> QED BY <3>1, <3>2, <3>5, <3>9
  <2>10. n \in V
    <3>1. 0 \in Int /\ n \in Int /\ n \in 0 .. n
      BY <1>0
    <3> HIDE DEF V
    <3>2. 0 .. n \subseteq V
      BY <2>8, <2>9, <3>1, InductionUpTo, Zenon
    <3> QED BY <3>1, <3>2
  <2> QED BY <2>3, <2>10
<1>5. Moved(ids, slots, rest, copies, n, Performed(rest, steps, start).slots)
  <2> HIDE DEF steps, start
  <2> QED BY <1>3, <1>4
<1> HIDE DEF steps, start
<1> DEFINE after == Performed(rest, steps, start).slots
<1>6. /\ \A k \in 1 .. n : after[copies[k].target] = Held(slots, rest, copies[k].source)
      /\ \A id \in ids : (\A k \in 1 .. n : copies[k].target # id) => after[id] = slots[id]
  BY <1>5, Zenon DEF Moved
<1> QED BY <1>0, <1>6, Zenon DEF steps, start
----------------------------------------------------------------------------
(* Literals, distances and products.                                       *)

\* The immediate operand of a line that has one.
LEMMA Operands ==
  \A op, rs, form, n :
    /\ NumberOf(Imm(op, rs, n)) = n
    /\ NumberOf(Shaped(op, rs, form, n)) = n
<1> TAKE op, rs, form, n
<1>1. (CHOOSE x \in {n} : TRUE) = n
  OBVIOUS
<1>2. Imm(op, rs, n).n = {n} /\ Shaped(op, rs, form, n).n = {n}
  BY DEF Imm, Shaped, Line
<1> QED BY <1>1, <1>2, Zenon DEF NumberOf

\* What the moves of a literal leave.
LEMMA Moves ==
  \A rs, n, old :
    /\ \A op \in {"mov", "movz"} : Literal(Imm(op, rs, n), old) = n
    /\ Literal(Imm("movn", rs, n), old) = -1 - n
    /\ Literal(Shaped("movz", rs, "lsl16", n), old) = Above(n)
    /\ Literal(Shaped("movn", rs, "lsl16", n), old) = -1 - Above(n)
    /\ Literal(Shaped("movk", rs, "lsl16", n), old) = (old % 65536) + Above(n)
<1> TAKE rs, n, old
<1>1. \A op : /\ Imm(op, rs, n).op = op /\ Imm(op, rs, n).form = "plain"
              /\ Shaped(op, rs, "lsl16", n).op = op /\ Shaped(op, rs, "lsl16", n).form = "lsl16"
  BY DEF Imm, Shaped, Line
<1>2. \A op : /\ Constant(Imm(op, rs, n)) = n
              /\ Constant(Shaped(op, rs, "lsl16", n)) = Above(n)
  <2> TAKE op
  <2>1. NumberOf(Imm(op, rs, n)) = n /\ NumberOf(Shaped(op, rs, "lsl16", n)) = n
    BY Operands, SMT
  <2>2. "plain" # "lsl12" /\ "plain" # "lsl16" /\ "lsl16" # "lsl12"
    BY SMT
  <2>3. Constant(Imm(op, rs, n)) = NumberOf(Imm(op, rs, n))
    BY <1>1, <2>2, SMT DEF Constant
  <2>4. Constant(Shaped(op, rs, "lsl16", n)) = Above(NumberOf(Shaped(op, rs, "lsl16", n)))
    BY <1>1, <2>2, SMT DEF Constant, Above
  <2> QED BY <2>1, <2>3, <2>4, SMT
<1>3. \A i : /\ i.op \in {"mov", "movz"} => Literal(i, old) = Constant(i)
             /\ i.op = "movn" => Literal(i, old) = -1 - Constant(i)
             /\ i.op = "movk" => Literal(i, old) = (old % 65536) + Constant(i)
  BY SMT DEF Literal
<1>4. \A op \in {"mov", "movz"} : Literal(Imm(op, rs, n), old) = n
  BY <1>1, <1>2, <1>3, SMT
<1>5. Literal(Imm("movn", rs, n), old) = -1 - n
  BY <1>1, <1>2, <1>3, SMT
<1>6. Literal(Shaped("movz", rs, "lsl16", n), old) = Above(n)
  BY <1>1, <1>2, <1>3, SMT
<1>7. Literal(Shaped("movn", rs, "lsl16", n), old) = -1 - Above(n)
  BY <1>1, <1>2, <1>3, SMT
<1>8. Literal(Shaped("movk", rs, "lsl16", n), old) = (old % 65536) + Above(n)
  BY <1>1, <1>2, <1>3, SMT
<1> QED BY <1>4, <1>5, <1>6, <1>7, <1>8, SMT

\* A word and its halves.
LEMMA Halves ==
  /\ \A n \in Words : /\ n \in Int /\ Low(n) \in Bits(16) /\ High(n) \in Bits(16)
                      /\ n = Above(High(n)) + Low(n)
  /\ \A h \in Bits(16) : /\ h \in Int /\ 65535 - h \in Bits(16) /\ h % 65536 = h
                         /\ Above(h) \in Int /\ Above(65535 - h) = -65536 - Above(h)
  /\ Above(0) = 0 /\ Above(65535) = -65536
<1>1. \A h : h \in Bits(16) <=> h \in Int /\ h >= 0 /\ h < 65536
  BY SMT DEF Bits
<1>2. ASSUME NEW n \in Words
      PROVE  /\ n \in Int /\ Low(n) \in Bits(16) /\ High(n) \in Bits(16)
             /\ n = Above(High(n)) + Low(n)
  <2> DEFINE q == n \div 65536
  <2>0. n \in Int /\ n >= -HalfRange /\ n < HalfRange
    BY HalfRangeIsNat, SMT DEF Words
  <2>1. /\ n \in Int /\ q \in Int /\ q >= -32768 /\ q < 32768
        /\ n % 65536 >= 0 /\ n % 65536 < 65536 /\ n % 65536 \in Int /\ n = 65536 * q + (n % 65536)
    BY <2>0, SMT DEF HalfRange
  <2>2. Low(n) = n % 65536 /\ High(n) = q % 65536
    BY SMT DEF Low, High
  <2> HIDE DEF q
  <2>3. q % 65536 \in Int /\ q % 65536 >= 0 /\ q % 65536 < 65536 /\ Above(q % 65536) = 65536 * q
    BY <2>1, SMT DEF Signed16, Above
  <2> QED BY <1>1, <2>1, <2>2, <2>3, SMT
<1>3. ASSUME NEW h \in Bits(16)
      PROVE  /\ h \in Int /\ 65535 - h \in Bits(16) /\ h % 65536 = h
             /\ Above(h) \in Int /\ Above(65535 - h) = -65536 - Above(h)
  <2>1. h \in Int /\ h >= 0 /\ h < 65536
    BY <1>1, SMT
  <2>2. 65535 - h \in Bits(16)
    BY <1>1, <2>1, SMT
  <2>3. h % 65536 = h /\ Above(h) \in Int /\ Above(65535 - h) = -65536 - Above(h)
    BY <2>1, SMT DEF Signed16, Above
  <2> QED BY <2>1, <2>2, <2>3, SMT
<1>4. Above(0) = 0 /\ Above(65535) = -65536
  BY SMT DEF Signed16, Above
<1> QED BY <1>2, <1>3, <1>4, SMT

\* At most three lines, one after the other.
LEMMA Ran0 == \A s : Ran(<<>>, s) = s
BY DEF Ran
LEMMA Ran1 == \A s, a : Ran(<<a>>, s) = Step(a, s)
BY DEF Ran
LEMMA Ran2 == \A s, a, b : Ran(<<a, b>>, s) = Step(b, Step(a, s))
BY DEF Ran
LEMMA Ran3 == \A s, a, b, c : Ran(<<a, b, c>>, s) = Step(c, Step(b, Step(a, s)))
BY DEF Ran

\* The moves of literals have sixteen bits.
LEMMA MovesAssemble ==
  \A op \in {"movz", "movn", "movk"} : \A rs : \A n \in Bits(16) :
    Assembles(Imm(op, rs, n)) /\ Assembles(Shaped(op, rs, "lsl16", n))
<1> TAKE op \in {"movz", "movn", "movk"}
<1> TAKE rs
<1> TAKE n \in Bits(16)
<1>1. ASSUME NEW i, i.op = op, i.n = {n}, i.form \in {"plain", "lsl16"} PROVE Assembles(i)
  <2>1. InRange(i, n)
    <3> DEFINE width == i.rs[1].bytes
    <3> HIDE DEF width
    <3> QED BY <1>1, SMT DEF InRange
  <2>2. i.op # "ldp"
    BY <1>1, SMT
  <2> QED BY <1>1, <2>1, <2>2, SMT DEF Assembles
<1>2. Imm(op, rs, n).op = op /\ Imm(op, rs, n).n = {n} /\ Imm(op, rs, n).form = "plain"
  BY DEF Imm, Line
<1>3. /\ Shaped(op, rs, "lsl16", n).op = op /\ Shaped(op, rs, "lsl16", n).n = {n}
      /\ Shaped(op, rs, "lsl16", n).form = "lsl16"
  BY DEF Shaped, Line
<1> QED BY <1>1, <1>2, <1>3, Zenon

\* A register that is set.
LEMMA SetIn == \A s \in Registers : \A k \in 0 .. 31 : \A v \in Int : With(s, k, v) \in Registers
<1> DEFINE D == 0 .. 31
<1>1. \A s \in [D -> Int] : \A k \in D : \A v \in Int : With(s, k, v) \in [D -> Int]
  <2> HIDE DEF D
  <2> QED BY DEF With
<1> QED BY <1>1, Zenon DEF D, Registers
LEMMA SetAt == \A s \in Registers : \A k \in 0 .. 31 : \A v : With(s, k, v)[k] = v
BY DEF With, Registers
LEMMA SetBeside ==
  \A s \in Registers : \A k \in 0 .. 31 : \A v : \A j \in 0 .. 31 \ {k} : With(s, k, v)[j] = s[j]
BY DEF With, Registers
LEMMA SetTwice ==
  ASSUME NEW s, NEW k, NEW v, NEW w
  PROVE  With(With(s, k, v), k, w) = With(s, k, w)
<1> DEFINE D == DOMAIN s
           f == With(With(s, k, v), k, w)
           g == With(s, k, w)
<1>1. f = [j \in D |-> f[j]] /\ g = [j \in D |-> g[j]]
  BY DEF With
<1>2. \A j \in D : f[j] = g[j]
  BY DEF With
<1> HIDE DEF f, g
<1>3. f = g
  BY <1>1, <1>2
<1> QED BY <1>3, Zenon DEF f, g

\* The lines of a literal.
LEMMA LiteralLines ==
  ASSUME NEW r, NEW s \in Registers, r.n \in 0 .. 31, NEW n \in Words
  PROVE  /\ Encodable(LoadImmediate32(r, n)) /\ Len(LoadImmediate32(r, n)) \in 1 .. 2
         /\ Ran(LoadImmediate32(r, n), s) = With(s, r.n, n)
<1>0. /\ n \in Int /\ Low(n) \in Bits(16) /\ High(n) \in Bits(16)
      /\ n = Above(High(n)) + Low(n) /\ Low(n) \in Int /\ Low(n) % 65536 = Low(n)
      /\ Above(High(n)) \in Int /\ Above(65535 - High(n)) = -65536 - Above(High(n))
      /\ 65535 - High(n) \in Bits(16) /\ 65535 - Low(n) \in Bits(16)
      /\ Above(0) = 0 /\ Above(65535) = -65536
  BY Halves, SMT
<1>1. ASSUME NEW i, i.rs = <<r>>, i.n # {}, i.op \in {"movz", "movn", "movk"}
      PROVE  \A t : Step(i, t) = With(t, r.n, Literal(i, t[r.n]))
  <2>1. i.rs[1].n = r.n /\ \A t : Result(i, t) = Literal(i, t[r.n])
    BY <1>1, SMT DEF Result
  <2> QED BY <2>1, Zenon DEF Step
<1>2. \A op, k : /\ Imm(op, <<r>>, k).rs = <<r>> /\ Imm(op, <<r>>, k).op = op /\ Imm(op, <<r>>, k).n # {}
                 /\ Shaped(op, <<r>>, "lsl16", k).rs = <<r>> /\ Shaped(op, <<r>>, "lsl16", k).op = op
                 /\ Shaped(op, <<r>>, "lsl16", k).n # {}
  BY DEF Imm, Shaped, Line
<1>3. ASSUME NEW a, Assembles(a), \A t : Step(a, t) = With(t, r.n, n)
      PROVE  Encodable(<<a>>) /\ Len(<<a>>) \in 1 .. 2 /\ Ran(<<a>>, s) = With(s, r.n, n)
  <2>1. Len(<<a>>) = 1 /\ DOMAIN <<a>> = {1} /\ <<a>>[1] = a
    OBVIOUS
  <2>2. Encodable(<<a>>)
    BY <1>3, <2>1 DEF Encodable
  <2> QED BY <1>3, <2>1, <2>2, Ran1
<1>4. CASE High(n) = 0
  <2> DEFINE a == Imm("movz", <<r>>, n)
  <2>1. n = Low(n)
    BY <1>0, <1>4
  <2>2. Assembles(a)
    BY <1>0, <2>1, MovesAssemble
  <2>3. \A t : Step(a, t) = With(t, r.n, n)
    BY <1>1, <1>2, Moves, SMT
  <2>4. LoadImmediate32(r, n) = <<a>>
    BY <1>4 DEF LoadImmediate32
  <2> HIDE DEF a
  <2> QED BY <1>3, <2>2, <2>3, <2>4
<1>5. CASE High(n) # 0 /\ Low(n) = 0
  <2> DEFINE a == Shaped("movz", <<r>>, "lsl16", High(n))
  <2>1. n = Above(High(n))
    BY <1>0, <1>5
  <2>2. Assembles(a)
    BY <1>0, MovesAssemble
  <2>3. \A t : Step(a, t) = With(t, r.n, n)
    BY <1>1, <1>2, <2>1, Moves, SMT
  <2>4. LoadImmediate32(r, n) = <<a>>
    BY <1>5 DEF LoadImmediate32
  <2> HIDE DEF a
  <2> QED BY <1>3, <2>2, <2>3, <2>4
<1>6. CASE High(n) # 0 /\ Low(n) # 0 /\ High(n) = 65535
  <2> DEFINE a == Imm("movn", <<r>>, 65535 - Low(n))
  <2>1. n = -1 - (65535 - Low(n)) /\ 65535 - Low(n) \in Bits(16)
    BY <1>0, <1>6
  <2>2. Assembles(a)
    BY <2>1, MovesAssemble
  <2>3. \A t : Step(a, t) = With(t, r.n, n)
    BY <1>1, <1>2, <2>1, Moves, SMT
  <2>4. LoadImmediate32(r, n) = <<a>>
    BY <1>6 DEF LoadImmediate32
  <2> HIDE DEF a
  <2> QED BY <1>3, <2>2, <2>3, <2>4
<1>7. CASE High(n) # 0 /\ Low(n) # 0 /\ High(n) # 65535 /\ Low(n) = 65535
  <2> DEFINE a == Shaped("movn", <<r>>, "lsl16", 65535 - High(n))
  <2>1. n = -1 - Above(65535 - High(n)) /\ 65535 - High(n) \in Bits(16)
    BY <1>0, <1>7
  <2>2. Assembles(a)
    BY <2>1, MovesAssemble
  <2>3. \A t : Step(a, t) = With(t, r.n, n)
    BY <1>1, <1>2, <2>1, Moves, SMT
  <2>4. LoadImmediate32(r, n) = <<a>>
    BY <1>7 DEF LoadImmediate32
  <2> HIDE DEF a
  <2> QED BY <1>3, <2>2, <2>3, <2>4
<1>8. CASE High(n) # 0 /\ Low(n) # 0 /\ High(n) # 65535 /\ Low(n) # 65535
  <2> DEFINE a == Imm("movz", <<r>>, Low(n))
             b == Shaped("movk", <<r>>, "lsl16", High(n))
  <2>1. n = (Low(n) % 65536) + Above(High(n))
    BY <1>0
  <2>2. Assembles(a) /\ Assembles(b)
    BY <1>0, MovesAssemble
  <2>3. \A t : Step(a, t) = With(t, r.n, Low(n))
    BY <1>1, <1>2, Moves, SMT
  <2>4. \A t : Step(b, t) = With(t, r.n, (t[r.n] % 65536) + Above(High(n)))
    BY <1>1, <1>2, Moves, SMT
  <2>5. LoadImmediate32(r, n) = <<a, b>>
    BY <1>8 DEF LoadImmediate32
  <2> HIDE DEF a, b
  <2>6. Len(<<a, b>>) = 2 /\ DOMAIN <<a, b>> = {1, 2} /\ <<a, b>>[1] = a /\ <<a, b>>[2] = b
    OBVIOUS
  <2>7. Encodable(<<a, b>>)
    BY <2>2, <2>6 DEF Encodable
  <2> DEFINE t == With(s, r.n, Low(n))
  <2>8. t \in Registers /\ t[r.n] = Low(n) /\ With(t, r.n, n) = With(s, r.n, n)
    <3>1. Low(n) \in Int
      BY <1>0, SMT
    <3>2. t \in Registers /\ t[r.n] = Low(n)
      <4>1. t \in Registers
        BY <3>1, SetIn, Zenon
      <4>2. t[r.n] = Low(n)
        BY SetAt, SMT
      <4> QED BY <4>1, <4>2
    <3>3. With(t, r.n, n) = With(s, r.n, n)
      BY SetTwice, SMT
    <3> QED BY <3>2, <3>3, Zenon
  <2> HIDE DEF t
  <2>9. Step(b, t) = With(t, r.n, n)
    BY <2>1, <2>4, <2>8
  <2>10. Step(a, s) = t
    BY <2>3 DEF t
  <2>11. Ran(<<a, b>>, s) = With(s, r.n, n)
    BY <2>8, <2>9, <2>10, Ran2, Zenon
  <2> QED BY <2>5, <2>6, <2>7, <2>11
<1> QED BY <1>4, <1>5, <1>6, <1>7, <1>8

\* The fields of a line.
LEMMA Fields ==
  /\ \A op, rs, k : /\ Imm(op, rs, k).op = op /\ Imm(op, rs, k).rs = rs /\ Imm(op, rs, k).n = {k}
                    /\ Imm(op, rs, k).form = "plain" /\ Imm(op, rs, k).n # {}
                    /\ NumberOf(Imm(op, rs, k)) = k
  /\ \A op, rs, form, k :
       /\ Shaped(op, rs, form, k).op = op /\ Shaped(op, rs, form, k).rs = rs
       /\ Shaped(op, rs, form, k).n = {k} /\ Shaped(op, rs, form, k).form = form
       /\ Shaped(op, rs, form, k).n # {} /\ NumberOf(Shaped(op, rs, form, k)) = k
  /\ \A op, rs : Regs(op, rs).op = op /\ Regs(op, rs).rs = rs /\ Regs(op, rs).n = {}
<1>1. ASSUME NEW op, NEW rs, NEW k
      PROVE  /\ Imm(op, rs, k).op = op /\ Imm(op, rs, k).rs = rs /\ Imm(op, rs, k).n = {k}
             /\ Imm(op, rs, k).form = "plain" /\ Imm(op, rs, k).n # {}
             /\ NumberOf(Imm(op, rs, k)) = k
  <2>1. NumberOf(Imm(op, rs, k)) = k
    BY Operands, SMT
  <2> QED BY <2>1, SMT DEF Imm, Line
<1>2. ASSUME NEW op, NEW rs, NEW form, NEW k
      PROVE  /\ Shaped(op, rs, form, k).op = op /\ Shaped(op, rs, form, k).rs = rs
             /\ Shaped(op, rs, form, k).n = {k} /\ Shaped(op, rs, form, k).form = form
             /\ Shaped(op, rs, form, k).n # {} /\ NumberOf(Shaped(op, rs, form, k)) = k
  <2>1. NumberOf(Shaped(op, rs, form, k)) = k
    BY Operands, SMT
  <2> QED BY <2>1, SMT DEF Shaped, Line
<1>3. ASSUME NEW op, NEW rs PROVE Regs(op, rs).op = op /\ Regs(op, rs).rs = rs /\ Regs(op, rs).n = {}
  BY SMT DEF Regs, Line
<1> QED BY <1>1, <1>2, <1>3, Zenon

\* What the lines of sums and shifts leave.
LEMMA OperandIs ==
  ASSUME NEW i, NEW s
  PROVE  /\ i.n = {} => Operand(i, s) = s[i.rs[3].n]
         /\ i.n # {} /\ i.form = "lsl" => Operand(i, s) = s[i.rs[3].n] * 2 ^ NumberOf(i)
         /\ i.n # {} /\ i.form = "plain" => Operand(i, s) = NumberOf(i)
         /\ i.n # {} /\ i.form = "lsl12" => Operand(i, s) = Page(NumberOf(i))
         /\ i.n # {} /\ i.form = "asr" =>
              Operand(i, s) = ShiftedRight(i.rs[3], s[i.rs[3].n], NumberOf(i))
<1>1. i.n = {} => Operand(i, s) = s[i.rs[3].n]
  BY SMT DEF Operand
<1>2. i.n # {} /\ i.form = "lsl" => Operand(i, s) = s[i.rs[3].n] * 2 ^ NumberOf(i)
  BY SMT DEF Operand
<1>3. i.n # {} /\ i.form \in {"plain", "lsl12"} => Operand(i, s) = Constant(i)
  BY SMT DEF Operand
<1>4. i.form = "plain" => Constant(i) = NumberOf(i)
  BY SMT DEF Constant
<1>5. i.form = "lsl12" => Constant(i) = Page(NumberOf(i))
  BY SMT DEF Constant, Page
<1>6. i.n # {} /\ i.form = "asr" => Operand(i, s) = ShiftedRight(i.rs[3], s[i.rs[3].n], NumberOf(i))
  BY SMT DEF Operand
<1> QED BY <1>1, <1>2, <1>3, <1>4, <1>5, <1>6, SMT
LEMMA ResultIs ==
  ASSUME NEW i, NEW s
  PROVE  /\ i.op = "add" => Result(i, s) = s[i.rs[2].n] + Operand(i, s)
         /\ i.op = "sub" => Result(i, s) = s[i.rs[2].n] - Operand(i, s)
         /\ i.op = "lsl" => Result(i, s) = s[i.rs[2].n] * 2 ^ NumberOf(i)
         /\ i.op = "neg" => Result(i, s) = -s[i.rs[2].n]
         /\ i.op = "mov" /\ i.n # {} => Result(i, s) = Literal(i, s[i.rs[1].n])
         /\ i.op = "mov" /\ i.n = {} => Result(i, s) = s[i.rs[2].n]
         /\ i.op = "asr" => Result(i, s) = ShiftedRight(i.rs[2], s[i.rs[2].n], NumberOf(i))
         /\ i.op = "lsr" /\ s[i.rs[2].n] >= 0 =>
              Result(i, s) = ShiftedRight(i.rs[2], s[i.rs[2].n], NumberOf(i))
         /\ i.op = "and" => Result(i, s) = s[i.rs[2].n] % (NumberOf(i) + 1)
         /\ i.op = "msub" => Result(i, s) = s[i.rs[4].n] - s[i.rs[2].n] * s[i.rs[3].n]
         /\ i.op \in {"smull", "umull"} => Result(i, s) = WideProduct(i, s[i.rs[2].n], s[i.rs[3].n])
BY SMTT(30) DEF Result
LEMMA AddImm ==
  ASSUME NEW s, NEW a, NEW b, NEW k
  PROVE  Step(Imm("add", <<a, b>>, k), s) = With(s, a.n, s[b.n] + k)
<1> DEFINE i == Imm("add", <<a, b>>, k)
<1>1. i.op = "add" /\ i.rs[1].n = a.n /\ i.rs[2].n = b.n
  BY Fields, SMT
<1>2. i.n # {} /\ NumberOf(i) = k /\ i.form = "plain"
  BY Fields, SMT
<1> HIDE DEF i
<1>3. Operand(i, s) = k
  BY OperandIs, <1>1, <1>2, SMT
<1>4. Result(i, s) = s[b.n] + k
  BY ResultIs, <1>1, <1>3, SMT
<1>5. Step(i, s) = With(s, a.n, s[b.n] + k)
  BY <1>1, <1>4, Zenon DEF Step
<1> QED BY <1>5, Zenon DEF i
LEMMA SubImm ==
  ASSUME NEW s, NEW a, NEW b, NEW k
  PROVE  Step(Imm("sub", <<a, b>>, k), s) = With(s, a.n, s[b.n] - k)
<1> DEFINE i == Imm("sub", <<a, b>>, k)
<1>1. i.op = "sub" /\ i.rs[1].n = a.n /\ i.rs[2].n = b.n
  BY Fields, SMT
<1>2. i.n # {} /\ NumberOf(i) = k /\ i.form = "plain"
  BY Fields, SMT
<1> HIDE DEF i
<1>3. Operand(i, s) = k
  BY OperandIs, <1>1, <1>2, SMT
<1>4. Result(i, s) = s[b.n] - k
  BY ResultIs, <1>1, <1>3, SMT
<1>5. Step(i, s) = With(s, a.n, s[b.n] - k)
  BY <1>1, <1>4, Zenon DEF Step
<1> QED BY <1>5, Zenon DEF i
LEMMA AddPage ==
  ASSUME NEW s, NEW a, NEW b, NEW k
  PROVE  Step(Shaped("add", <<a, b>>, "lsl12", k), s) = With(s, a.n, s[b.n] + Page(k))
<1> DEFINE i == Shaped("add", <<a, b>>, "lsl12", k)
<1>1. i.op = "add" /\ i.rs[1].n = a.n /\ i.rs[2].n = b.n
  BY Fields, SMT
<1>2. i.n # {} /\ NumberOf(i) = k /\ i.form = "lsl12"
  BY Fields, SMT
<1> HIDE DEF i
<1>3. Operand(i, s) = Page(k)
  BY OperandIs, <1>1, <1>2, SMT
<1>4. Result(i, s) = s[b.n] + Page(k)
  BY ResultIs, <1>1, <1>3, SMT
<1>5. Step(i, s) = With(s, a.n, s[b.n] + Page(k))
  BY <1>1, <1>4, Zenon DEF Step
<1> QED BY <1>5, Zenon DEF i
LEMMA SubPage ==
  ASSUME NEW s, NEW a, NEW b, NEW k
  PROVE  Step(Shaped("sub", <<a, b>>, "lsl12", k), s) = With(s, a.n, s[b.n] - Page(k))
<1> DEFINE i == Shaped("sub", <<a, b>>, "lsl12", k)
<1>1. i.op = "sub" /\ i.rs[1].n = a.n /\ i.rs[2].n = b.n
  BY Fields, SMT
<1>2. i.n # {} /\ NumberOf(i) = k /\ i.form = "lsl12"
  BY Fields, SMT
<1> HIDE DEF i
<1>3. Operand(i, s) = Page(k)
  BY OperandIs, <1>1, <1>2, SMT
<1>4. Result(i, s) = s[b.n] - Page(k)
  BY ResultIs, <1>1, <1>3, SMT
<1>5. Step(i, s) = With(s, a.n, s[b.n] - Page(k))
  BY <1>1, <1>4, Zenon DEF Step
<1> QED BY <1>5, Zenon DEF i
LEMMA AddReg ==
  ASSUME NEW s, NEW a, NEW b, NEW c
  PROVE  Step(Regs("add", <<a, b, c>>), s) = With(s, a.n, s[b.n] + s[c.n])
<1> DEFINE i == Regs("add", <<a, b, c>>)
<1>1. i.op = "add" /\ i.rs[1].n = a.n /\ i.rs[2].n = b.n /\ i.rs[3].n = c.n
  BY Fields, SMT
<1>2. i.n = {}
  BY Fields, SMT
<1> HIDE DEF i
<1>3. Operand(i, s) = s[c.n]
  BY OperandIs, <1>1, <1>2, SMT
<1>4. Result(i, s) = s[b.n] + s[c.n]
  BY ResultIs, <1>1, <1>3, SMT
<1>5. Step(i, s) = With(s, a.n, s[b.n] + s[c.n])
  BY <1>1, <1>4, Zenon DEF Step
<1> QED BY <1>5, Zenon DEF i
LEMMA SubReg ==
  ASSUME NEW s, NEW a, NEW b, NEW c
  PROVE  Step(Regs("sub", <<a, b, c>>), s) = With(s, a.n, s[b.n] - s[c.n])
<1> DEFINE i == Regs("sub", <<a, b, c>>)
<1>1. i.op = "sub" /\ i.rs[1].n = a.n /\ i.rs[2].n = b.n /\ i.rs[3].n = c.n
  BY Fields, SMT
<1>2. i.n = {}
  BY Fields, SMT
<1> HIDE DEF i
<1>3. Operand(i, s) = s[c.n]
  BY OperandIs, <1>1, <1>2, SMT
<1>4. Result(i, s) = s[b.n] - s[c.n]
  BY ResultIs, <1>1, <1>3, SMT
<1>5. Step(i, s) = With(s, a.n, s[b.n] - s[c.n])
  BY <1>1, <1>4, Zenon DEF Step
<1> QED BY <1>5, Zenon DEF i
LEMMA AddShifted ==
  ASSUME NEW s, NEW a, NEW b, NEW c, NEW k
  PROVE  Step(Shaped("add", <<a, b, c>>, "lsl", k), s) = With(s, a.n, s[b.n] + s[c.n] * 2 ^ k)
<1> DEFINE i == Shaped("add", <<a, b, c>>, "lsl", k)
<1>1. i.op = "add" /\ i.rs[1].n = a.n /\ i.rs[2].n = b.n /\ i.rs[3].n = c.n
  BY Fields, SMT
<1>2. i.n # {} /\ NumberOf(i) = k /\ i.form = "lsl"
  BY Fields, SMT
<1> HIDE DEF i
<1>3. Operand(i, s) = s[c.n] * 2 ^ k
  BY OperandIs, <1>1, <1>2, SMT
<1>4. Result(i, s) = s[b.n] + s[c.n] * 2 ^ k
  BY ResultIs, <1>1, <1>3, SMT
<1>5. Step(i, s) = With(s, a.n, s[b.n] + s[c.n] * 2 ^ k)
  BY <1>1, <1>4, Zenon DEF Step
<1> QED BY <1>5, Zenon DEF i
LEMMA ShiftLeft ==
  ASSUME NEW s, NEW a, NEW b, NEW k
  PROVE  Step(Imm("lsl", <<a, b>>, k), s) = With(s, a.n, s[b.n] * 2 ^ k)
<1> DEFINE i == Imm("lsl", <<a, b>>, k)
<1>1. i.op = "lsl" /\ i.rs[1].n = a.n /\ i.rs[2].n = b.n
  BY Fields, SMT
<1>2. i.n # {} /\ NumberOf(i) = k /\ i.form = "plain"
  BY Fields, SMT
<1> HIDE DEF i
<1>3. Result(i, s) = s[b.n] * 2 ^ k
  BY ResultIs, <1>1, <1>2, SMT
<1>4. Step(i, s) = With(s, a.n, s[b.n] * 2 ^ k)
  BY <1>1, <1>3, Zenon DEF Step
<1> QED BY <1>4, Zenon DEF i
LEMMA Negate == \A s, a, b : Step(Regs("neg", <<a, b>>), s) = With(s, a.n, -s[b.n])
<1> TAKE s, a, b
<1> DEFINE i == Regs("neg", <<a, b>>)
<1>1. i.op = "neg" /\ i.rs[1].n = a.n /\ i.rs[2].n = b.n
  BY Fields, SMT
<1>2. i.n = {}
  BY Fields, SMT
<1> HIDE DEF i
<1>3. Result(i, s) = -s[b.n]
  BY ResultIs, <1>1, <1>2, SMT
<1>4. Step(i, s) = With(s, a.n, -s[b.n])
  BY <1>1, <1>3, Zenon DEF Step
<1> QED BY <1>4, Zenon DEF i
LEMMA Put ==
  ASSUME NEW s, NEW a, NEW k
  PROVE  Step(Imm("mov", <<a>>, k), s) = With(s, a.n, k)
<1> DEFINE i == Imm("mov", <<a>>, k)
<1>1. i.op = "mov" /\ i.n # {} /\ i.rs[1].n = a.n
  BY Fields, SMT
<1>2. Literal(i, s[a.n]) = k
  BY Moves, SMT
<1> HIDE DEF i
<1>3. Result(i, s) = k
  BY ResultIs, <1>1, <1>2, SMT
<1>4. Step(i, s) = With(s, a.n, k)
  BY <1>1, <1>3, Zenon DEF Step
<1> QED BY <1>4, Zenon DEF i

\* The lines of sums and shifts can be encoded.
LEMMA SumsAssemble ==
  /\ \A op \in {"add", "sub", "cmp", "cmn"} : \A rs : \A k \in Bits(12) :
       Assembles(Imm(op, rs, k)) /\ Assembles(Shaped(op, rs, "lsl12", k))
  /\ \A op \in {"add", "sub", "neg"} : \A rs : Assembles(Regs(op, rs))
  /\ \A rs : \A k \in 0 .. 31 : rs[1].bytes = 4 =>
       Assembles(Shaped("add", rs, "lsl", k)) /\ Assembles(Imm("lsl", rs, k))
  /\ \A rs : Assembles(Imm("mov", rs, 0))
<1>1. \A op, rs, form, k : /\ Imm(op, rs, k).op = op /\ Imm(op, rs, k).rs = rs /\ Imm(op, rs, k).n = {k}
                           /\ Imm(op, rs, k).form = "plain"
                           /\ Shaped(op, rs, form, k).op = op /\ Shaped(op, rs, form, k).rs = rs
                           /\ Shaped(op, rs, form, k).n = {k} /\ Shaped(op, rs, form, k).form = form
                           /\ Regs(op, rs).op = op /\ Regs(op, rs).n = {}
  BY SMT DEF Imm, Shaped, Regs, Line
<1>2. ASSUME NEW i, NEW k, i.n = {k}, InRange(i, k), i.op # "ldp" PROVE Assembles(i)
  BY <1>2, SMT DEF Assembles
<1>3. ASSUME NEW i, NEW k \in Bits(12), i.op \in {"add", "sub", "cmp", "cmn"}, i.form \in {"plain", "lsl12"}
      PROVE  InRange(i, k)
  <2> DEFINE width == i.rs[1].bytes
  <2> HIDE DEF width
  <2> QED BY <1>3, SMT DEF InRange
<1>4. ASSUME NEW i, NEW k \in 0 .. 31, i.rs[1].bytes = 4,
             (i.op = "add" /\ i.form = "lsl") \/ (i.op = "lsl" /\ i.form = "plain")
      PROVE  InRange(i, k)
  <2>1. k \in Bits(12)
    BY SMT DEF Bits
  <2>2. k \in 0 .. (8 * i.rs[1].bytes - 1)
    BY <1>4, SMT
  <2> QED BY <1>4, <2>1, <2>2, SMT DEF InRange
<1>5. ASSUME NEW op \in {"add", "sub", "cmp", "cmn"}, NEW rs, NEW k \in Bits(12)
      PROVE  Assembles(Imm(op, rs, k)) /\ Assembles(Shaped(op, rs, "lsl12", k))
  <2>1. ASSUME NEW i, i.op = op, i.n = {k}, i.form \in {"plain", "lsl12"} PROVE Assembles(i)
    <3>1. i.op \in {"add", "sub", "cmp", "cmn"} /\ i.op # "ldp"
      BY <2>1, SMT
    <3>2. InRange(i, k)
      BY <1>3, <2>1, <3>1, Zenon
    <3> QED BY <1>2, <2>1, <3>1, <3>2, Zenon
  <2>2. Imm(op, rs, k).op = op /\ Imm(op, rs, k).n = {k} /\ Imm(op, rs, k).form \in {"plain", "lsl12"}
    BY <1>1, SMT
  <2>3. /\ Shaped(op, rs, "lsl12", k).op = op /\ Shaped(op, rs, "lsl12", k).n = {k}
        /\ Shaped(op, rs, "lsl12", k).form \in {"plain", "lsl12"}
    BY <1>1, SMT
  <2> QED BY <2>1, <2>2, <2>3, Zenon
<1>6. ASSUME NEW op \in {"add", "sub", "neg"}, NEW rs PROVE Assembles(Regs(op, rs))
  BY <1>1, SMT DEF Assembles
<1>7. ASSUME NEW rs, NEW k \in 0 .. 31, rs[1].bytes = 4
      PROVE  Assembles(Shaped("add", rs, "lsl", k)) /\ Assembles(Imm("lsl", rs, k))
  <2>1. ASSUME NEW i, i.rs = rs, i.n = {k},
               (i.op = "add" /\ i.form = "lsl") \/ (i.op = "lsl" /\ i.form = "plain")
        PROVE  Assembles(i)
    <3>1. i.op # "ldp" /\ i.rs[1].bytes = 4
      BY <1>7, <2>1, SMT
    <3>2. InRange(i, k)
      BY <1>4, <2>1, <3>1, SMT
    <3> QED BY <1>2, <2>1, <3>1, <3>2, SMT
  <2>2. /\ Shaped("add", rs, "lsl", k).rs = rs /\ Shaped("add", rs, "lsl", k).n = {k}
        /\ Shaped("add", rs, "lsl", k).op = "add" /\ Shaped("add", rs, "lsl", k).form = "lsl"
    BY <1>1, SMT
  <2>3. /\ Imm("lsl", rs, k).rs = rs /\ Imm("lsl", rs, k).n = {k}
        /\ Imm("lsl", rs, k).op = "lsl" /\ Imm("lsl", rs, k).form = "plain"
    BY <1>1, SMT
  <2>4. Assembles(Shaped("add", rs, "lsl", k))
    BY <2>1, <2>2, SMT
  <2>5. Assembles(Imm("lsl", rs, k))
    BY <2>1, <2>3, SMT
  <2> QED BY <2>4, <2>5
<1>8. ASSUME NEW rs PROVE Assembles(Imm("mov", rs, 0))
  <2> DEFINE i == Imm("mov", rs, 0)
  <2>1. i.op = "mov" /\ i.form = "plain" /\ i.n = {0}
    BY <1>1, SMT
  <2> HIDE DEF i
  <2>2. 0 \in Bits(16)
    BY SMT DEF Bits
  <2>3. InRange(i, 0)
    <3> DEFINE width == i.rs[1].bytes
    <3> HIDE DEF width
    <3> QED BY <2>1, <2>2, SMT DEF InRange
  <2>4. Assembles(i)
    BY <1>2, <2>1, <2>3, SMT
  <2> QED BY <2>4 DEF i
<1> QED BY <1>5, <1>6, <1>7, <1>8, SMT

\* Short texts joined.
LEMMA SameTexts ==
  ASSUME NEW T, NEW x \in Seq(T), NEW y \in Seq(T), Len(x) = Len(y), \A k \in 1 .. Len(x) : x[k] = y[k]
  PROVE  x = y
<1>1. x = [k \in 1 .. Len(x) |-> x[k]] /\ y = [k \in 1 .. Len(y) |-> y[k]]
  OBVIOUS
<1> QED BY <1>1
LEMMA JoinIs ==
  ASSUME NEW T, NEW x \in Seq(T), NEW y \in Seq(T), NEW z \in Seq(T), Len(z) = Len(x) + Len(y),
         \A k \in 1 .. Len(x) : z[k] = x[k], \A k \in 1 .. Len(y) : z[Len(x) + k] = y[k]
  PROVE  x \o y = z
<1>1. /\ x \o y \in Seq(T) /\ Len(x \o y) = Len(z) /\ Len(x) \in Nat /\ Len(y) \in Nat
      /\ \A k \in 1 .. Len(z) : (x \o y)[k] = IF k <= Len(x) THEN x[k] ELSE y[k - Len(x)]
  OBVIOUS
<1>2. ASSUME NEW k \in 1 .. Len(z) PROVE (x \o y)[k] = z[k]
  <2>1. k <= Len(x) => k \in 1 .. Len(x)
    BY <1>1
  <2>2. ~(k <= Len(x)) => k - Len(x) \in 1 .. Len(y) /\ Len(x) + (k - Len(x)) = k
    BY <1>1
  <2> QED BY <1>1, <2>1, <2>2
<1> QED BY <1>1, <1>2, SameTexts, Zenon
LEMMA Joined ==
  ASSUME NEW a, NEW b, NEW c
  PROVE  /\ <<a>> \o <<>> = <<a>> /\ <<>> \o <<a>> = <<a>>
         /\ <<a>> \o <<b>> = <<a, b>> /\ <<a, b>> \o <<c>> = <<a, b, c>>
         /\ <<>> \o <<>> = <<>> /\ <<a, b>> \o <<>> = <<a, b>>
<1> DEFINE T == {a, b, c}
<1>1. /\ <<>> \in Seq(T) /\ <<a>> \in Seq(T) /\ <<b>> \in Seq(T) /\ <<c>> \in Seq(T)
      /\ <<a, b>> \in Seq(T) /\ <<a, b, c>> \in Seq(T)
  OBVIOUS
<1>2. /\ Len(<<>>) = 0 /\ Len(<<a>>) = 1 /\ Len(<<b>>) = 1 /\ Len(<<c>>) = 1 /\ Len(<<a, b>>) = 2
      /\ Len(<<a, b, c>>) = 3 /\ <<a>>[1] = a /\ <<b>>[1] = b /\ <<c>>[1] = c /\ <<a, b>>[1] = a
      /\ <<a, b>>[2] = b /\ <<a, b, c>>[1] = a /\ <<a, b, c>>[2] = b /\ <<a, b, c>>[3] = c
  OBVIOUS
<1>3. ASSUME NEW x \in Seq(T), NEW y \in Seq(T), NEW z \in Seq(T), Len(z) = Len(x) + Len(y),
             \A k \in 1 .. Len(x) : z[k] = x[k], \A k \in 1 .. Len(y) : z[Len(x) + k] = y[k]
      PROVE  x \o y = z
  BY <1>3, JoinIs, Zenon
<1> HIDE DEF T
<1>4. <<a>> \o <<>> = <<a>> /\ <<>> \o <<a>> = <<a>> /\ <<>> \o <<>> = <<>> /\ <<a, b>> \o <<>> = <<a, b>>
  <2>1. <<a>> \o <<>> = <<a>>
    BY <1>1, <1>2, <1>3, SMT
  <2>2. <<>> \o <<a>> = <<a>>
    BY <1>1, <1>2, <1>3, SMT
  <2>3. <<>> \o <<>> = <<>>
    BY <1>1, <1>2, <1>3, SMT
  <2>4. <<a, b>> \o <<>> = <<a, b>>
    BY <1>1, <1>2, <1>3, SMT
  <2> QED BY <2>1, <2>2, <2>3, <2>4, Zenon
<1>5. <<a>> \o <<b>> = <<a, b>>
  <2> DEFINE x == <<a>>
             y == <<b>>
             z == <<a, b>>
  <2>1. /\ x \in Seq(T) /\ y \in Seq(T) /\ z \in Seq(T) /\ Len(x) = 1 /\ Len(y) = 1 /\ Len(z) = 2
        /\ x[1] = z[1] /\ y[1] = z[2]
    BY <1>1, <1>2
  <2> HIDE DEF x, y, z
  <2>2. /\ Len(z) = Len(x) + Len(y) /\ \A k \in 1 .. Len(x) : z[k] = x[k]
        /\ \A k \in 1 .. Len(y) : z[Len(x) + k] = y[k]
    BY <2>1, SMT
  <2>3. x \o y = z
    BY <1>3, <2>1, <2>2, Zenon
  <2> QED BY <2>3, Zenon DEF x, y, z
<1>6. <<a, b>> \o <<c>> = <<a, b, c>>
  <2> DEFINE x == <<a, b>>
             y == <<c>>
             z == <<a, b, c>>
  <2>1. /\ x \in Seq(T) /\ y \in Seq(T) /\ z \in Seq(T) /\ Len(x) = 2 /\ Len(y) = 1 /\ Len(z) = 3
        /\ x[1] = z[1] /\ x[2] = z[2] /\ y[1] = z[3]
    BY <1>1, <1>2
  <2> HIDE DEF x, y, z
  <2>2. /\ Len(z) = Len(x) + Len(y) /\ \A k \in 1 .. Len(x) : z[k] = x[k]
        /\ \A k \in 1 .. Len(y) : z[Len(x) + k] = y[k]
    BY <2>1, SMT
  <2>3. x \o y = z
    BY <1>3, <2>1, <2>2, Zenon
  <2> QED BY <2>3, Zenon DEF x, y, z
<1> QED BY <1>4, <1>5, <1>6, Zenon

\* One, two or three lines that can be encoded.
LEMMA Encodables ==
  /\ Encodable(<<>>)
  /\ \A a : Assembles(a) => Encodable(<<a>>)
  /\ \A a, b : Assembles(a) /\ Assembles(b) => Encodable(<<a, b>>)
  /\ \A a, b, c : Assembles(a) /\ Assembles(b) /\ Assembles(c) => Encodable(<<a, b, c>>)
BY SMT DEF Encodable

\* A literal of up to 64 bits, and a line after it: distances fit a word.
LEMMA LongLiterals ==
  ASSUME NEW r, NEW s \in Registers, r.n \in 0 .. 31, NEW n \in NonNegativeWords, NEW c, Assembles(c)
  PROVE  /\ Encodable(LoadImmediate64(r, n)) /\ Encodable(LoadImmediate64(r, n) \o <<c>>)
         /\ Ran(LoadImmediate64(r, n), s) = With(s, r.n, n)
         /\ Ran(LoadImmediate64(r, n) \o <<c>>, s) = Step(c, With(s, r.n, n))
<1>0. n \in Words
  BY HalfRangeIsNat, SMT DEF NonNegativeWords, Words
<1>1. /\ n \in Int /\ Low(n) \in Bits(16) /\ High(n) \in Bits(16) /\ Low(n) \in Int
      /\ n = Low(n) + Above(High(n)) /\ Low(n) % 65536 = Low(n) /\ Above(0) = 0
      /\ Above(High(n)) \in Int
  <2>1. n \in Int /\ Low(n) \in Bits(16) /\ High(n) \in Bits(16) /\ n = Above(High(n)) + Low(n)
    BY <1>0, Halves, SMT
  <2>2. Low(n) \in Int /\ Low(n) % 65536 = Low(n) /\ Above(High(n)) \in Int
    BY <2>1, Halves, SMT
  <2>3. Above(0) = 0
    BY Halves, SMT
  <2> QED BY <2>1, <2>2, <2>3, SMT
<1> DEFINE a == Imm("movz", <<r>>, Low(n))
           b == Shaped("movk", <<r>>, "lsl16", High(n))
           t == With(s, r.n, Low(n))
           u == With(s, r.n, n)
<1>2. Assembles(a) /\ Assembles(b)
  BY <1>1, MovesAssemble, SMT
<1>3. /\ a.rs[1] = r /\ a.op = "movz" /\ a.n # {} /\ b.rs[1] = r /\ b.op = "movk" /\ b.n # {}
      /\ \A old : Literal(a, old) = Low(n)
      /\ \A old : Literal(b, old) = (old % 65536) + Above(High(n))
  <2>1. a.rs[1] = r /\ a.op = "movz" /\ a.n # {} /\ b.rs[1] = r /\ b.op = "movk" /\ b.n # {}
    BY SMT DEF Imm, Shaped, Line
  <2>2. \A old : Literal(a, old) = Low(n)
    BY Moves, SMT
  <2>3. \A old : Literal(b, old) = (old % 65536) + Above(High(n))
    BY Moves, SMT
  <2> QED BY <2>1, <2>2, <2>3
<1>4. LoadImmediate64(r, n) = IF High(n) = 0 THEN <<a>> ELSE <<a, b>>
  <2>1. <<a>> \o <<>> = <<a>> /\ <<a>> \o <<b>> = <<a, b>>
    <3> HIDE DEF a, b
    <3> QED BY Joined, Zenon
  <2> QED BY <2>1, Zenon DEF LoadImmediate64
<1> HIDE DEF a, b
<1>5. Step(a, s) = t
  <2>1. Result(a, s) = Low(n) /\ a.rs[1] = r
    BY <1>3, SMT DEF Result
  <2> QED BY <2>1, Zenon DEF Step
<1>6. t[r.n] = Low(n) /\ With(t, r.n, n) = u
  <2>1. Low(n) \in Int
    BY <1>1
  <2>2. t[r.n] = Low(n)
    BY <2>1, SetAt, SMT
  <2>3. With(t, r.n, n) = u
    BY SetTwice, SMT
  <2> QED BY <2>2, <2>3, Zenon
<1>7. Step(b, t) = u
  <2> HIDE DEF t
  <2>1. Result(b, t) = Literal(b, t[r.n])
    BY <1>3, SMT DEF Result
  <2>2. Literal(b, t[r.n]) = n /\ b.rs[1] = r
    BY <1>1, <1>3, <1>6, SMT
  <2> QED BY <1>6, <2>1, <2>2, Zenon DEF Step
<1> HIDE DEF t
<1>8. CASE High(n) = 0
  <2>1. t = u
    <3>1. Low(n) = n
      BY <1>1, <1>8, SMT
    <3> QED BY <3>1, Zenon DEF t
  <2> HIDE DEF u
  <2>2. LoadImmediate64(r, n) = <<a>>
    BY <1>4, <1>8, Zenon
  <2>3. <<a>> \o <<c>> = <<a, c>>
    BY Joined, Zenon
  <2>4. Encodable(<<a>>) /\ Encodable(<<a, c>>)
    BY <1>2, Encodables, Zenon
  <2>5. Ran(<<a>>, s) = u /\ Ran(<<a, c>>, s) = Step(c, u)
    BY <1>5, <2>1, Ran1, Ran2, ZenonT(30)
  <2> QED BY <2>2, <2>3, <2>4, <2>5, Zenon DEF u
<1>9. CASE High(n) # 0
  <2> HIDE DEF u
  <2>2. LoadImmediate64(r, n) = <<a, b>>
    BY <1>4, <1>9, Zenon
  <2>3. <<a, b>> \o <<c>> = <<a, b, c>>
    BY Joined, Zenon
  <2>4. Encodable(<<a, b>>) /\ Encodable(<<a, b, c>>)
    BY <1>2, Encodables, Zenon
  <2>5. Ran(<<a, b>>, s) = u /\ Ran(<<a, b, c>>, s) = Step(c, u)
    BY <1>5, <1>7, Ran2, Ran3, ZenonT(30)
  <2> QED BY <2>2, <2>3, <2>4, <2>5, Zenon DEF u
<1> QED BY <1>8, <1>9

\* A literal is what it stands for.  The instructions that load one, movz,
\* movn or movz and movk, have room for what they hold and leave the word in
\* the register, whichever of its halves are all zeros or all ones, for every
\* word; and those that load a distance for every distance a word holds.  No
\* other register changes (loadImmediate32, loadImmediate64).
THEOREM LiteralsAreRight ==
  \A s \in Registers : \A r : r.n \in 0 .. 31 =>
    /\ \A n \in Words : Encodable(LoadImmediate32(r, n)) /\ Ran(LoadImmediate32(r, n), s) = With(s, r.n, n)
    /\ \A n \in NonNegativeWords :
         Encodable(LoadImmediate64(r, n)) /\ Ran(LoadImmediate64(r, n), s) = With(s, r.n, n)
<1> SUFFICES ASSUME NEW s \in Registers, NEW r, r.n \in 0 .. 31
             PROVE  /\ \A n \in Words : /\ Encodable(LoadImmediate32(r, n))
                                        /\ Ran(LoadImmediate32(r, n), s) = With(s, r.n, n)
                    /\ \A n \in NonNegativeWords : /\ Encodable(LoadImmediate64(r, n))
                                                   /\ Ran(LoadImmediate64(r, n), s) = With(s, r.n, n)
  BY Zenon
<1>1. \A n \in Words : /\ Encodable(LoadImmediate32(r, n))
                       /\ Ran(LoadImmediate32(r, n), s) = With(s, r.n, n)
  BY LiteralLines, Zenon
<1>2. Assembles(Regs("add", <<sp, sp, sp>>))
  BY SumsAssemble, Zenon
<1>3. \A n \in NonNegativeWords : /\ Encodable(LoadImmediate64(r, n))
                                  /\ Ran(LoadImmediate64(r, n), s) = With(s, r.n, n)
  BY <1>2, LongLiterals, Zenon
<1> QED BY <1>1, <1>3

\* Twelve bits, and twelve above twelve.
LEMMA Twelve ==
  \A k : k \in Bits(12) <=> k \in Int /\ k >= 0 /\ k <= 4095
BY SMT DEF Bits
LEMMA Twelves ==
  ASSUME NEW n \in Nat
  PROVE  /\ Pages(n) \in Int /\ Within(n) \in Int /\ Within(n) \in Bits(12) /\ Page(Pages(n)) \in Int
         /\ n = Page(Pages(n)) + Within(n)
         /\ InReach(n) => Pages(n) \in Bits(12)
         /\ n \notin Bits(12) => Pages(n) # 0
<1>1. /\ n \div 4096 \in Int /\ n % 4096 \in Int /\ n % 4096 >= 0 /\ n % 4096 <= 4095
      /\ n = 4096 * (n \div 4096) + (n % 4096) /\ n \div 4096 >= 0
      /\ n < 4096 * 4096 => n \div 4096 <= 4095
  BY SMT
<1>2. InReach(n) => n < 4096 * 4096
  BY SMT DEF InReach, Magnitude
<1>3. n % 4096 \in Bits(12) /\ (InReach(n) => n \div 4096 \in Bits(12))
  BY <1>1, <1>2, Twelve, SMT
<1>4. n = Page(n \div 4096) + (n % 4096) /\ Page(n \div 4096) \in Int
  BY <1>1, SMT DEF Page
<1>5. n \notin Bits(12) => n \div 4096 # 0
  <2>1. n \notin Bits(12) => n > 4095
    BY Twelve, SMT
  <2> QED BY <2>1, SMT
<1> QED BY <1>1, <1>3, <1>4, <1>5, SMT DEF Pages, Within

\* A sum with a constant that isA64AddSubImm takes.
LEMMA AddSubFits ==
  ASSUME NEW op \in {"add", "sub", "cmp", "cmn"}, NEW rs, NEW n \in Int, AddSubImm(n)
  PROVE  Assembles(AddSub(op, rs, n)) /\ Constant(AddSub(op, rs, n)) = n
<1>1. n \in Bits(12) \/ (~(n <= 4095) /\ n = 4096 * (n \div 4096) /\ n \div 4096 \in Bits(12))
  <2>1. \/ n >= 0 /\ n <= 4095
        \/ ~(n <= 4095) /\ n = 4096 * (n \div 4096) /\ n \div 4096 \in Int /\ n \div 4096 <= 4095 /\ n \div 4096 >= 0
    BY SMT DEF AddSubImm
  <2>2. \A k : k \in Bits(12) <=> k \in Int /\ k >= 0 /\ k <= 4095
    BY Twelve, SMT
  <2> QED BY <2>1, <2>2, SMT
<1>2. CASE n \in Bits(12)
  <2>1. AddSub(op, rs, n) = Imm(op, rs, n)
    BY <1>2, Twelve, SMT DEF AddSub
  <2>2. Constant(Imm(op, rs, n)) = n
    <3>1. Imm(op, rs, n).form = "plain"
      BY SMT DEF Imm, Line
    <3>2. NumberOf(Imm(op, rs, n)) = n
      BY Operands, SMT
    <3> QED BY <3>1, <3>2, SMT DEF Constant
  <2> QED BY <1>2, <2>1, <2>2, SumsAssemble, SMT
<1>3. CASE ~(n <= 4095) /\ n = 4096 * (n \div 4096) /\ n \div 4096 \in Bits(12)
  <2> DEFINE i == Shaped(op, rs, "lsl12", n \div 4096)
  <2>1. AddSub(op, rs, n) = i
    BY <1>3, SMT DEF AddSub
  <2>2. Constant(i) = 4096 * (n \div 4096)
    <3>1. i.form = "lsl12"
      BY SMT DEF Shaped, Line
    <3>2. NumberOf(i) = n \div 4096
      BY Operands, SMT
    <3> QED BY <3>1, <3>2, SMT DEF Constant
  <2>3. Assembles(i)
    BY <1>3, SumsAssemble, SMT
  <2> QED BY <1>3, <2>1, <2>2, <2>3, SMT
<1> QED BY <1>1, <1>2, <1>3

\* A register beside another, at a distance that fits the instruction or at
\* one that is loaded first.
LEMMA Leaving1 ==
  ASSUME NEW s \in Registers, NEW t \in Registers, \A j \in 0 .. 31 \ {16} : t[j] = s[j],
         NEW k \in 0 .. 31, NEW v \in Int, NEW lines, Encodable(lines), Ran(lines, s) = With(t, k, v)
  PROVE  Leaves(lines, s, k, v)
<1> DEFINE u == With(t, k, v)
<1>1. u[k] = v /\ \A j \in 0 .. 31 \ {k} : u[j] = t[j]
  <2>1. u[k] = v
    BY SetAt, SMT
  <2>2. \A j \in 0 .. 31 \ {k} : u[j] = t[j]
    BY SetBeside, SMT
  <2> QED BY <2>1, <2>2
<1> HIDE DEF u
<1>2. \A j \in 0 .. 31 \ {k, 16} : u[j] = s[j]
  BY <1>1, Zenon
<1>3. Ran(lines, s) = u
  BY DEF u
<1> QED BY <1>1, <1>2, <1>3, Zenon DEF Leaves
LEMMA Near ==
  ASSUME NEW s \in Registers, NEW r, r.n \in 0 .. 31, NEW b, b.n \in 0 .. 31, NEW d \in Bits(12)
  PROVE  /\ Leaves(<<Imm("add", <<r, b>>, d)>>, s, r.n, s[b.n] + d)
         /\ Leaves(<<Imm("sub", <<r, b>>, d)>>, s, r.n, s[b.n] - d)
<1>1. s[b.n] + d \in Int /\ s[b.n] - d \in Int
  <2>1. d \in Int
    BY Twelve, SMT
  <2>2. s[b.n] \in Int
    BY DEF Registers
  <2> QED BY <2>1, <2>2
<1>2. Assembles(Imm("add", <<r, b>>, d)) /\ Assembles(Imm("sub", <<r, b>>, d))
  BY SumsAssemble, SMT
<1>3. Ran(<<Imm("add", <<r, b>>, d)>>, s) = With(s, r.n, s[b.n] + d)
  <2>1. Step(Imm("add", <<r, b>>, d), s) = With(s, r.n, s[b.n] + d)
    BY AddImm, Zenon
  <2> QED BY <2>1, Ran1, Zenon
<1>4. Ran(<<Imm("sub", <<r, b>>, d)>>, s) = With(s, r.n, s[b.n] - d)
  <2>1. Step(Imm("sub", <<r, b>>, d), s) = With(s, r.n, s[b.n] - d)
    BY SubImm, Zenon
  <2> QED BY <2>1, Ran1, Zenon
<1>5. Encodable(<<Imm("add", <<r, b>>, d)>>) /\ Encodable(<<Imm("sub", <<r, b>>, d)>>)
  BY <1>2, Encodables, Zenon
<1>6. Leaves(<<Imm("add", <<r, b>>, d)>>, s, r.n, s[b.n] + d)
  BY <1>1, <1>3, <1>5, Leaving1, Zenon
<1>7. Leaves(<<Imm("sub", <<r, b>>, d)>>, s, r.n, s[b.n] - d)
  BY <1>1, <1>4, <1>5, Leaving1, Zenon
<1> QED BY <1>6, <1>7
LEMMA Far ==
  ASSUME NEW s \in Registers, NEW r, r.n \in 0 .. 31, NEW b, b.n \in 0 .. 31, b.n # 16,
         NEW d \in NonNegativeWords
  PROVE  /\ Leaves(LoadImmediate64(x16, d) \o <<Regs("add", <<r, b, x16>>)>>, s, r.n, s[b.n] + d)
         /\ Leaves(LoadImmediate64(x16, d) \o <<Regs("sub", <<r, b, x16>>)>>, s, r.n, s[b.n] - d)
<1>0. d \in Int /\ s[b.n] \in Int
  <2>1. d \in Int
    BY HalfRangeIsNat, SMT DEF NonNegativeWords
  <2>2. s[b.n] \in Int
    BY DEF Registers
  <2> QED BY <2>1, <2>2
<1>1. s[b.n] + d \in Int /\ s[b.n] - d \in Int
  BY <1>0
<1>2. x16.n = 16 /\ x16.n \in 0 .. 31
  BY SMT DEF x16, Xreg
<1> DEFINE t == With(s, x16.n, d)
           plus == Regs("add", <<r, b, x16>>)
           less == Regs("sub", <<r, b, x16>>)
<1>3. t \in Registers /\ t[x16.n] = d /\ \A k \in 0 .. 31 \ {x16.n} : t[k] = s[k]
  <2> DEFINE h == x16.n
  <2>1. h \in 0 .. 31
    BY <1>2
  <2> HIDE DEF h
  <2>2. With(s, h, d) \in Registers /\ With(s, h, d)[h] = d /\ \A j \in 0 .. 31 \ {h} : With(s, h, d)[j] = s[j]
    <3>1. d \in Int
      BY <1>0
    <3>2. With(s, h, d) \in Registers
      BY <2>1, <3>1, SetIn, Zenon
    <3>3. With(s, h, d)[h] = d
      BY <2>1, <3>1, SetAt, SMT
    <3>4. \A j \in 0 .. 31 \ {h} : With(s, h, d)[j] = s[j]
      BY <2>1, <3>1, SetBeside, SMT
    <3> QED BY <3>2, <3>3, <3>4, Zenon
  <2> QED BY <2>2, Zenon DEF h
<1>4. Assembles(plus) /\ Assembles(less)
  BY SumsAssemble, Zenon
<1>5. Step(plus, t) = With(t, r.n, t[b.n] + t[x16.n]) /\ Step(less, t) = With(t, r.n, t[b.n] - t[x16.n])
  <2> HIDE DEF t
  <2>1. Step(plus, t) = With(t, r.n, t[b.n] + t[x16.n])
    BY AddReg, Zenon
  <2>2. Step(less, t) = With(t, r.n, t[b.n] - t[x16.n])
    BY SubReg, Zenon
  <2> QED BY <2>1, <2>2
<1> HIDE DEF plus, less
<1>6. /\ Encodable(LoadImmediate64(x16, d) \o <<plus>>) /\ Encodable(LoadImmediate64(x16, d) \o <<less>>)
      /\ Ran(LoadImmediate64(x16, d) \o <<plus>>, s) = Step(plus, t)
      /\ Ran(LoadImmediate64(x16, d) \o <<less>>, s) = Step(less, t)
  BY <1>2, <1>4, LongLiterals, Zenon
<1> HIDE DEF t
<1>7. t[b.n] = s[b.n] /\ \A j \in 0 .. 31 \ {16} : t[j] = s[j]
  BY <1>2, <1>3, SMT
<1>8. /\ Ran(LoadImmediate64(x16, d) \o <<plus>>, s) = With(t, r.n, s[b.n] + d)
      /\ Ran(LoadImmediate64(x16, d) \o <<less>>, s) = With(t, r.n, s[b.n] - d)
  BY <1>3, <1>5, <1>6, <1>7, Zenon
<1>9. Leaves(LoadImmediate64(x16, d) \o <<plus>>, s, r.n, s[b.n] + d)
  BY <1>1, <1>3, <1>6, <1>7, <1>8, Leaving1, Zenon
<1>10. Leaves(LoadImmediate64(x16, d) \o <<less>>, s, r.n, s[b.n] - d)
  BY <1>1, <1>3, <1>6, <1>7, <1>8, Leaving1, Zenon
<1> QED BY <1>9, <1>10, Zenon DEF plus, less

LEMMA Paged ==
  ASSUME NEW s \in Registers, NEW r, r.n \in 0 .. 31, NEW q \in Bits(12), NEW m \in Bits(12)
  PROVE  /\ Leaves(<<Shaped("add", <<r, r>>, "lsl12", q)>>, s, r.n, s[r.n] + Page(q))
         /\ Leaves(<<Shaped("sub", <<r, r>>, "lsl12", q)>>, s, r.n, s[r.n] - Page(q))
         /\ Leaves(<<Shaped("add", <<r, r>>, "lsl12", q), Imm("add", <<r, r>>, m)>>, s, r.n, s[r.n] + Page(q) + m)
         /\ Leaves(<<Shaped("sub", <<r, r>>, "lsl12", q), Imm("sub", <<r, r>>, m)>>, s, r.n, s[r.n] - Page(q) - m)
<1> DEFINE h == r.n
           high == Shaped("add", <<r, r>>, "lsl12", q)
           low == Imm("add", <<r, r>>, m)
           less == Shaped("sub", <<r, r>>, "lsl12", q)
           least == Imm("sub", <<r, r>>, m)
<1>0. /\ h \in 0 .. 31 /\ s[h] \in Int /\ m \in Int /\ Page(q) \in Int
      /\ s[h] + Page(q) \in Int /\ s[h] - Page(q) \in Int
      /\ s[h] + Page(q) + m \in Int /\ s[h] - Page(q) - m \in Int
  <2>1. m \in Int /\ q \in Int
    BY Twelve, SMT
  <2>2. s[h] \in Int /\ h \in 0 .. 31
    BY DEF Registers
  <2>3. Page(q) \in Int
    BY <2>1, SMT DEF Page
  <2> QED BY <2>1, <2>2, <2>3
<1>1. Assembles(high) /\ Assembles(low) /\ Assembles(less) /\ Assembles(least)
  BY SumsAssemble, SMT
<1>2. \A t : Step(high, t) = With(t, h, t[h] + Page(q))
  BY AddPage, Zenon
<1>3. \A t : Step(less, t) = With(t, h, t[h] - Page(q))
  BY SubPage, Zenon
<1>4. \A t : Step(low, t) = With(t, h, t[h] + m)
  BY AddImm, Zenon
<1>5. \A t : Step(least, t) = With(t, h, t[h] - m)
  BY SubImm, Zenon
<1> HIDE DEF h, high, low, less, least
<1>6. /\ Encodable(<<high>>) /\ Encodable(<<less>>) /\ Encodable(<<high, low>>) /\ Encodable(<<less, least>>)
  BY <1>1, Encodables, Zenon
<1>7. Leaves(<<high>>, s, h, s[h] + Page(q))
  <2>1. Ran(<<high>>, s) = With(s, h, s[h] + Page(q))
    BY <1>2, Ran1, Zenon
  <2> QED BY <1>0, <1>6, <2>1, Leaving1, Zenon
<1>8. Leaves(<<less>>, s, h, s[h] - Page(q))
  <2>1. Ran(<<less>>, s) = With(s, h, s[h] - Page(q))
    BY <1>3, Ran1, Zenon
  <2> QED BY <1>0, <1>6, <2>1, Leaving1, Zenon
<1>9. Leaves(<<high, low>>, s, h, s[h] + Page(q) + m)
  <2> DEFINE t == With(s, h, s[h] + Page(q))
  <2>1. t[h] = s[h] + Page(q)
    BY <1>0, SetAt, SMT
  <2>2. With(t, h, s[h] + Page(q) + m) = With(s, h, s[h] + Page(q) + m)
    BY SetTwice, SMT
  <2>3. Step(high, s) = t
    BY <1>2, Zenon
  <2> HIDE DEF t
  <2>4. Ran(<<high, low>>, s) = With(s, h, s[h] + Page(q) + m)
    BY <1>4, <2>1, <2>2, <2>3, Ran2, Zenon
  <2> QED BY <1>0, <1>6, <2>4, Leaving1, Zenon
<1>10. Leaves(<<less, least>>, s, h, s[h] - Page(q) - m)
  <2> DEFINE t == With(s, h, s[h] - Page(q))
  <2>1. t[h] = s[h] - Page(q)
    BY <1>0, SetAt, SMT
  <2>2. With(t, h, s[h] - Page(q) - m) = With(s, h, s[h] - Page(q) - m)
    BY SetTwice, SMT
  <2>3. Step(less, s) = t
    BY <1>3, Zenon
  <2> HIDE DEF t
  <2>4. Ran(<<less, least>>, s) = With(s, h, s[h] - Page(q) - m)
    BY <1>5, <2>1, <2>2, <2>3, Ran2, Zenon
  <2> QED BY <1>0, <1>6, <2>4, Leaving1, Zenon
<1> QED BY <1>7, <1>8, <1>9, <1>10, Zenon DEF h, high, low, less, least
LEMMA Staying ==
  ASSUME NEW s \in Registers, NEW k \in 0 .. 31
  PROVE  Leaves(<<>>, s, k, s[k])
BY Ran0, Encodables, Zenon DEF Leaves

\* The lines of a distance: none, one for either part, or two.
LEMMA OffsetLines ==
  ASSUME NEW r, NEW bytes \in Int, InReach(bytes), NEW n \in Nat, NEW op,
         (bytes = n /\ op = "add") \/ (bytes = -n /\ n # 0 /\ op = "sub")
  PROVE  /\ n \in Bits(12) =>
              PointerOffset(r, bytes) = IF n = 0 THEN <<>> ELSE <<Imm(op, <<r, r>>, n)>>
         /\ n \notin Bits(12) =>
              PointerOffset(r, bytes) = (IF Pages(n) = 0 THEN <<>> ELSE <<Shaped(op, <<r, r>>, "lsl12", Pages(n))>>)
                                        \o (IF Within(n) = 0 THEN <<>> ELSE <<Imm(op, <<r, r>>, Within(n))>>)
<1>1. Magnitude(bytes) = n /\ (IF bytes < 0 THEN "sub" ELSE "add") = op
  <2>1. Magnitude(bytes) = n
    BY SMT DEF Magnitude
  <2>2. (IF bytes < 0 THEN "sub" ELSE "add") = op
    BY SMT
  <2> QED BY <2>1, <2>2
<1>2. n \in Bits(12) <=> n <= 4095
  BY Twelve, SMT
<1>3. n \in Bits(12) => PointerOffset(r, bytes) = IF n = 0 THEN <<>> ELSE <<Imm(op, <<r, r>>, n)>>
  BY <1>1, <1>2, SMT DEF PointerOffset
<1>4. n \notin Bits(12) =>
        PointerOffset(r, bytes) = (IF Pages(n) = 0 THEN <<>> ELSE <<Shaped(op, <<r, r>>, "lsl12", Pages(n))>>)
                                  \o (IF Within(n) = 0 THEN <<>> ELSE <<Imm(op, <<r, r>>, Within(n))>>)
  <2>1. n \notin Bits(12) => ~(n <= 4095) /\ n > 4095
    BY <1>2, SMT
  <2> QED BY <1>1, <2>1, SMT DEF PointerOffset, Pages, Within
<1> QED BY <1>3, <1>4
LEMMA OffsetLeaves ==
  ASSUME NEW r, NEW bytes \in Int, InReach(bytes), NEW n \in Nat, NEW op,
         (bytes = n /\ op = "add") \/ (bytes = -n /\ n # 0 /\ op = "sub"),
         NEW s, NEW v, n = 0 => Leaves(<<>>, s, r.n, v),
         n \in Bits(12) => Leaves(<<Imm(op, <<r, r>>, n)>>, s, r.n, v),
         Within(n) = 0 => Leaves(<<Shaped(op, <<r, r>>, "lsl12", Pages(n))>>, s, r.n, v),
         Leaves(<<Shaped(op, <<r, r>>, "lsl12", Pages(n)), Imm(op, <<r, r>>, Within(n))>>, s, r.n, v)
  PROVE  Leaves(PointerOffset(r, bytes), s, r.n, v)
<1> DEFINE q == Pages(n)
           m == Within(n)
           high == Shaped(op, <<r, r>>, "lsl12", q)
           low == Imm(op, <<r, r>>, m)
           only == Imm(op, <<r, r>>, n)
           near == n \in Bits(12)
<1>1. /\ near => PointerOffset(r, bytes) = IF n = 0 THEN <<>> ELSE <<only>>
      /\ ~near => PointerOffset(r, bytes) = (IF q = 0 THEN <<>> ELSE <<high>>) \o (IF m = 0 THEN <<>> ELSE <<low>>)
  BY OffsetLines, Zenon
<1>2. ~near => q # 0
  BY Twelves, SMT
<1>3. <<high>> \o <<>> = <<high>> /\ <<high>> \o <<low>> = <<high, low>>
  <2> HIDE DEF high, low
  <2> QED BY Joined, Zenon
<1>4. /\ n = 0 => Leaves(<<>>, s, r.n, v)
      /\ near => Leaves(<<only>>, s, r.n, v)
      /\ m = 0 => Leaves(<<high>>, s, r.n, v)
      /\ Leaves(<<high, low>>, s, r.n, v)
  OBVIOUS
<1> HIDE DEF high, low, only, q, m, near
<1>5. CASE near
  BY <1>1, <1>4, <1>5, Zenon
<1>6. CASE ~near
  BY <1>1, <1>2, <1>3, <1>4, <1>6, Zenon
<1> QED BY <1>5, <1>6, Zenon

\* The parts of a distance.
LEMMA Parts ==
  ASSUME NEW s \in Registers, NEW r, r.n \in 0 .. 31, NEW n \in Nat, InReach(n)
  PROVE  /\ n \in Bits(12) => /\ Leaves(<<Imm("add", <<r, r>>, n)>>, s, r.n, s[r.n] + n)
                              /\ Leaves(<<Imm("sub", <<r, r>>, n)>>, s, r.n, s[r.n] - n)
         /\ Within(n) = 0 => /\ Leaves(<<Shaped("add", <<r, r>>, "lsl12", Pages(n))>>, s, r.n, s[r.n] + n)
                             /\ Leaves(<<Shaped("sub", <<r, r>>, "lsl12", Pages(n))>>, s, r.n, s[r.n] - n)
         /\ Leaves(<<Shaped("add", <<r, r>>, "lsl12", Pages(n)), Imm("add", <<r, r>>, Within(n))>>,
                   s, r.n, s[r.n] + n)
         /\ Leaves(<<Shaped("sub", <<r, r>>, "lsl12", Pages(n)), Imm("sub", <<r, r>>, Within(n))>>,
                   s, r.n, s[r.n] - n)
<1> DEFINE q == Pages(n)
           m == Within(n)
           x == s[r.n]
<1>1. q \in Bits(12) /\ m \in Bits(12)
  BY Twelves, Zenon
<1>2. m \in Int /\ Page(q) \in Int /\ n = Page(q) + m
  BY Twelves, SMT
<1>3. x \in Int
  BY DEF Registers
<1>4. /\ m = 0 => x + Page(q) = x + n /\ x - Page(q) = x - n
      /\ x + Page(q) + m = x + n /\ x - Page(q) - m = x - n
  <2> HIDE DEF q, m, x
  <2> QED BY <1>2, <1>3, SMT
<1>5. /\ Leaves(<<Shaped("add", <<r, r>>, "lsl12", q)>>, s, r.n, x + Page(q))
      /\ Leaves(<<Shaped("sub", <<r, r>>, "lsl12", q)>>, s, r.n, x - Page(q))
      /\ Leaves(<<Shaped("add", <<r, r>>, "lsl12", q), Imm("add", <<r, r>>, m)>>, s, r.n, x + Page(q) + m)
      /\ Leaves(<<Shaped("sub", <<r, r>>, "lsl12", q), Imm("sub", <<r, r>>, m)>>, s, r.n, x - Page(q) - m)
  <2> HIDE DEF q, m
  <2>1. Leaves(<<Shaped("add", <<r, r>>, "lsl12", q)>>, s, r.n, s[r.n] + Page(q))
    BY <1>1, Paged, Zenon
  <2>2. Leaves(<<Shaped("sub", <<r, r>>, "lsl12", q)>>, s, r.n, s[r.n] - Page(q))
    BY <1>1, Paged, Zenon
  <2>3. Leaves(<<Shaped("add", <<r, r>>, "lsl12", q), Imm("add", <<r, r>>, m)>>, s, r.n, s[r.n] + Page(q) + m)
    BY <1>1, Paged, Zenon
  <2>4. Leaves(<<Shaped("sub", <<r, r>>, "lsl12", q), Imm("sub", <<r, r>>, m)>>, s, r.n, s[r.n] - Page(q) - m)
    BY <1>1, Paged, Zenon
  <2> QED BY <2>1, <2>2, <2>3, <2>4, Zenon
<1>6. n \in Bits(12) => /\ Leaves(<<Imm("add", <<r, r>>, n)>>, s, r.n, x + n)
                        /\ Leaves(<<Imm("sub", <<r, r>>, n)>>, s, r.n, x - n)
  BY Near, Zenon
<1> HIDE DEF q, m, x
<1>7. /\ m = 0 => /\ Leaves(<<Shaped("add", <<r, r>>, "lsl12", q)>>, s, r.n, x + n)
                  /\ Leaves(<<Shaped("sub", <<r, r>>, "lsl12", q)>>, s, r.n, x - n)
      /\ Leaves(<<Shaped("add", <<r, r>>, "lsl12", q), Imm("add", <<r, r>>, m)>>, s, r.n, x + n)
      /\ Leaves(<<Shaped("sub", <<r, r>>, "lsl12", q), Imm("sub", <<r, r>>, m)>>, s, r.n, x - n)
  BY <1>4, <1>5, Zenon
<1> QED BY <1>6, <1>7, Zenon DEF q, m, x

\* Addresses and the stack pointer are where they should be.  The lines that
\* set a register beside the frame pointer, that move the stack pointer and
\* that add a distance to a register leave it at that distance, have room for
\* what they hold, and change no other register but number 16: at whatever
\* distance a word holds, and below sixteen million bytes where the distance
\* goes in two parts.  A register is compared with the constant that is
\* meant, or its negation with what is (emitFrameAddress, emitSubSp, emitAddSp,
\* emitPointerOffset, emitCompareImmediate).
THEOREM DistancesAreRight ==
  \A s \in Registers :
    /\ \A r : r.n \in 0 .. 31 =>
         /\ \A d \in NonNegativeWords : Leaves(FrameAddress(r, -d), s, r.n, s[29] - d)
         /\ \A bytes \in Int : InReach(bytes) => Leaves(PointerOffset(r, bytes), s, r.n, s[r.n] + bytes)
         /\ \A n \in Int : CompareImm(n) =>
              LET i == CompareImmediate(r, n)
              IN  Assembles(i) /\ ((i.op = "cmp" /\ Constant(i) = n) \/ (i.op = "cmn" /\ Constant(i) = -n))
    /\ \A d \in NonNegativeWords : /\ Leaves(MoveSp("add", d), s, 31, s[31] + d)
                                   /\ Leaves(MoveSp("sub", d), s, 31, s[31] - d)
<1> TAKE s \in Registers
<1>0. /\ x29.n = 29 /\ x29.n \in 0 .. 31 /\ x29.n # 16 /\ sp.n = 31 /\ sp.n \in 0 .. 31 /\ sp.n # 16
      /\ \A d \in NonNegativeWords : d \in Nat
  <2>1. x29.n = 29 /\ sp.n = 31
    BY SMT DEF x29, sp, Xreg
  <2>2. \A d \in NonNegativeWords : d \in Nat
    BY HalfRangeIsNat, SMT DEF NonNegativeWords
  <2> QED BY <2>1, <2>2, SMT
<1>1. ASSUME NEW r, r.n \in 0 .. 31, NEW d \in NonNegativeWords
      PROVE  Leaves(FrameAddress(r, -d), s, r.n, s[29] - d)
  <2> DEFINE near == <<Imm("sub", <<r, x29>>, d)>>
             far == LoadImmediate64(x16, d) \o <<Regs("sub", <<r, x29, x16>>)>>
             short == d <= 4095
  <2>1. -(-d) = d
    BY <1>0, SMT
  <2>2. FrameAddress(r, -d) = IF short THEN near ELSE far
    BY <2>1, SMT DEF FrameAddress
  <2>3. short => d \in Bits(12)
    BY <1>0, Twelve, SMT
  <2>4. d \in Bits(12) => Leaves(near, s, r.n, s[x29.n] - d)
    BY <1>0, <1>1, Near, Zenon
  <2>5. Leaves(far, s, r.n, s[x29.n] - d)
    BY <1>0, <1>1, Far, Zenon
  <2>6. s[x29.n] = s[29]
    BY <1>0
  <2> DEFINE v == s[29] - d
  <2>7. (short => Leaves(near, s, r.n, v)) /\ Leaves(far, s, r.n, v)
    BY <2>3, <2>4, <2>5, <2>6
  <2> HIDE DEF near, far, short, v
  <2>8. Leaves(FrameAddress(r, -d), s, r.n, v)
    BY <2>2, <2>7, Zenon
  <2> QED BY <2>8 DEF v
<1>2. ASSUME NEW r, r.n \in 0 .. 31, NEW bytes \in Int, InReach(bytes)
      PROVE  Leaves(PointerOffset(r, bytes), s, r.n, s[r.n] + bytes)
  <2> DEFINE n == Magnitude(bytes)
             op == IF bytes < 0 THEN "sub" ELSE "add"
             v == s[r.n] + bytes
  <2>0. s[r.n] \in Int
    BY <1>2 DEF Registers
  <2>1. n \in Nat /\ InReach(n)
    BY <1>2, SMT DEF Magnitude, InReach
  <2>2. (bytes = n /\ op = "add") \/ (bytes = -n /\ n # 0 /\ op = "sub")
    BY SMT DEF Magnitude
  <2>3. (op = "add" /\ v = s[r.n] + n) \/ (op = "sub" /\ v = s[r.n] - n)
    BY <2>0, <2>1, <2>2, SMT
  <2>4. n = 0 => v = s[r.n]
    BY <2>0, <2>2, SMT
  <2> HIDE DEF n, op, v
  <2>5. n = 0 => Leaves(<<>>, s, r.n, v)
    BY <1>2, <2>4, Staying, Zenon
  <2>6. n \in Bits(12) => Leaves(<<Imm(op, <<r, r>>, n)>>, s, r.n, v)
    BY <1>2, <2>1, <2>3, Parts, Zenon
  <2>7. Within(n) = 0 => Leaves(<<Shaped(op, <<r, r>>, "lsl12", Pages(n))>>, s, r.n, v)
    BY <1>2, <2>1, <2>3, Parts, Zenon
  <2>8. Leaves(<<Shaped(op, <<r, r>>, "lsl12", Pages(n)), Imm(op, <<r, r>>, Within(n))>>, s, r.n, v)
    BY <1>2, <2>1, <2>3, Parts, Zenon
  <2>9. Leaves(PointerOffset(r, bytes), s, r.n, v)
    BY <1>2, <2>1, <2>2, <2>5, <2>6, <2>7, <2>8, OffsetLeaves, Zenon
  <2> QED BY <2>9 DEF v
<1>3. ASSUME NEW r, NEW n \in Int, CompareImm(n)
      PROVE  LET i == CompareImmediate(r, n)
             IN  Assembles(i) /\ ((i.op = "cmp" /\ Constant(i) = n) \/ (i.op = "cmn" /\ Constant(i) = -n))
  <2> DEFINE i == CompareImmediate(r, n)
             op == IF n < 0 THEN "cmn" ELSE "cmp"
             k == Magnitude(n)
  <2>1. k \in Int /\ AddSubImm(k) /\ op \in {"add", "sub", "cmp", "cmn"}
    BY <1>3, SMT DEF CompareImm, Magnitude
  <2>2. (op = "cmp" /\ k = n) \/ (op = "cmn" /\ k = -n)
    BY SMT DEF Magnitude
  <2>3. i = AddSub(op, <<r>>, k)
    BY Zenon DEF CompareImmediate
  <2> HIDE DEF i, op, k
  <2>4. Assembles(i) /\ Constant(i) = k
    BY <2>1, <2>3, AddSubFits, ZenonT(30)
  <2>5. i.op = op
    <3>1. AddSub(op, <<r>>, k).op = op
      BY Fields, SMT DEF AddSub
    <3> QED BY <2>3, <3>1, Zenon
  <2>6. (i.op = "cmp" /\ Constant(i) = n) \/ (i.op = "cmn" /\ Constant(i) = -n)
    BY <2>2, <2>4, <2>5, SMT
  <2> QED BY <2>4, <2>6, Zenon DEF i
<1>4. ASSUME NEW d \in NonNegativeWords
      PROVE  Leaves(MoveSp("add", d), s, 31, s[31] + d) /\ Leaves(MoveSp("sub", d), s, 31, s[31] - d)
  <2> DEFINE Short(op) == <<Imm(op, <<sp, sp>>, d)>>
             Long(op) == LoadImmediate64(x16, d) \o <<Regs(op, <<sp, sp, x16>>)>>
  <2>0. s[31] \in Int
    BY DEF Registers
  <2> DEFINE near == d \in 1 .. 4095
             plus == s[31] + d
             less == s[31] - d
  <2>1. d \in Nat
    BY <1>0, Zenon
  <2>2. (near => d \in Bits(12)) /\ ~(d = 0 /\ near)
    <3>1. near <=> d >= 1 /\ d <= 4095
      BY <2>1
    <3> HIDE DEF near
    <3> QED BY <2>1, <3>1, Twelve, SMT
  <2>3. \A op : MoveSp(op, d) = CASE d = 0 -> <<>> [] near -> Short(op) [] OTHER -> Long(op)
    BY DEF MoveSp
  <2>4. d \in Bits(12) => /\ Leaves(Short("add"), s, sp.n, s[sp.n] + d)
                          /\ Leaves(Short("sub"), s, sp.n, s[sp.n] - d)
    BY <1>0, Near, Zenon
  <2>5. Leaves(Long("add"), s, sp.n, s[sp.n] + d) /\ Leaves(Long("sub"), s, sp.n, s[sp.n] - d)
    BY <1>0, Far, Zenon
  <2>6. Leaves(<<>>, s, sp.n, s[sp.n])
    BY <1>0, Staying, Zenon
  <2>7. d = 0 => s[31] = plus /\ s[31] = less
    BY <2>0, SMT
  <2> HIDE DEF near, Short, Long
  <2>8. /\ \A op : d = 0 => MoveSp(op, d) = <<>>
        /\ \A op : d # 0 /\ near => MoveSp(op, d) = Short(op)
        /\ \A op : d # 0 /\ ~near => MoveSp(op, d) = Long(op)
    BY <2>2, <2>3, SMT
  <2>9. /\ near => Leaves(Short("add"), s, 31, plus) /\ Leaves(Short("sub"), s, 31, less)
        /\ Leaves(Long("add"), s, 31, plus) /\ Leaves(Long("sub"), s, 31, less)
        /\ d = 0 => Leaves(<<>>, s, 31, plus) /\ Leaves(<<>>, s, 31, less)
    BY <1>0, <2>2, <2>4, <2>5, <2>6, <2>7
  <2> HIDE DEF plus, less
  <2>10. Leaves(MoveSp("add", d), s, 31, plus) /\ Leaves(MoveSp("sub", d), s, 31, less)
    BY <2>8, <2>9, SMT
  <2> QED BY <2>10 DEF plus, less
<1> QED BY <1>1, <1>2, <1>3, <1>4, Zenon

\* The powers of two that are shifts of a word.
LEMMA PowersShift ==
  /\ \A n \in Powers : ShiftOf(n) \in 0 .. 31 /\ 2 ^ ShiftOf(n) = n
  /\ 2 \in Powers
<1>1. ASSUME NEW n \in Powers PROVE ShiftOf(n) \in 0 .. 31 /\ 2 ^ ShiftOf(n) = n
  <2>1. \E k \in 0 .. 30 : 2 ^ k = n
    BY Zenon DEF Powers
  <2>2. ShiftOf(n) \in 0 .. 30 /\ 2 ^ ShiftOf(n) = n
    BY <2>1, Zenon DEF ShiftOf
  <2> QED BY <2>2
<1>2. 2 \in Powers
  <2>1. 2 = 2 ^ 1 /\ 1 \in 0 .. 30
    BY SMT
  <2> QED BY <2>1, Zenon DEF Powers
<1> QED BY <1>1, <1>2

\* At most two lines, and one more if the factor is negative.
LEMMA Negations ==
  ASSUME NEW lines, Few(lines),
         NEW s \in Registers, NEW t \in Registers, Ran(lines, s) = t,
         \A j \in 0 .. 31 \ {0, 1} : t[j] = s[j],
         NEW imm \in Int, t[0] = s[0] * Magnitude(imm)
  PROVE  Multiplies(lines \o Negated(imm), s, imm)
<1> PICK a, b : Assembles(a) /\ Assembles(b) /\ (lines = <<>> \/ lines = <<a>> \/ lines = <<a, b>>)
  BY Zenon DEF Few
<1> DEFINE c == Regs("neg", <<w0, w0>>)
           u == With(t, 0, -t[0])
<1>0. w0.n = 0 /\ s[0] \in Int /\ t[0] \in Int /\ 0 \in 0 .. 31
  BY SMT DEF w0, Wreg, Registers
<1>1. Assembles(c)
  BY SumsAssemble, Zenon
<1>2. Step(c, t) = u
  <2>1. Step(c, t) = With(t, w0.n, -t[w0.n])
    BY Negate, SMT
  <2> QED BY <1>0, <2>1, Zenon
<1> HIDE DEF c
<1>3. lines \o <<>> = lines /\ Encodable(lines)
  BY Joined, Encodables, Zenon
<1>4. Encodable(lines \o <<c>>) /\ Ran(lines \o <<c>>, s) = Step(c, t)
  <2>1. CASE lines = <<>>
    <3>1. lines \o <<c>> = <<c>>
      BY <2>1, Joined, Zenon
    <3>2. Encodable(<<c>>)
      BY <1>1, Encodables, Zenon
    <3>3. Ran(<<c>>, s) = Step(c, t)
      <4>1. s = t
        BY <2>1, Ran0
      <4> QED BY <4>1, Ran1
    <3> QED BY <3>1, <3>2, <3>3, Zenon
  <2>2. CASE lines = <<a>>
    <3>1. lines \o <<c>> = <<a, c>>
      BY <2>2, Joined, Zenon
    <3>2. Encodable(<<a, c>>)
      BY <1>1, Encodables, Zenon
    <3>3. Ran(<<a, c>>, s) = Step(c, t)
      <4>1. Step(a, s) = t
        BY <2>2, Ran1
      <4> QED BY <4>1, Ran2
    <3> QED BY <3>1, <3>2, <3>3, Zenon
  <2>3. CASE lines = <<a, b>>
    <3>1. lines \o <<c>> = <<a, b, c>>
      BY <2>3, Joined, Zenon
    <3>2. Encodable(<<a, b, c>>)
      BY <1>1, Encodables, Zenon
    <3>3. Ran(<<a, b, c>>, s) = Step(c, t)
      <4>1. Step(b, Step(a, s)) = t
        BY <2>3, Ran2
      <4> QED BY <4>1, Ran3
    <3> QED BY <3>1, <3>2, <3>3, Zenon
  <2> QED BY <2>1, <2>2, <2>3, Zenon
<1>5. CASE imm < 0
  <2>1. Negated(imm) = <<c>>
    BY <1>5, Zenon DEF Negated, c
  <2>2. -t[0] = s[0] * imm /\ -t[0] \in Int
    <3>1. Magnitude(imm) = -imm
      BY <1>5, Zenon DEF Magnitude
    <3> DEFINE x == s[0]
               y == t[0]
    <3>2. x \in Int /\ y \in Int /\ y = x * (-imm)
      BY <1>0, <3>1
    <3> HIDE DEF x, y
    <3>3. -y = x * imm /\ -y \in Int
      BY <3>2, SMT
    <3> QED BY <3>3, Zenon DEF x, y
  <2>3. u[0] = -t[0] /\ \A j \in 0 .. 31 \ {0} : u[j] = t[j]
    <3> DEFINE v == -t[0]
    <3> HIDE DEF v
    <3>1. With(t, 0, v)[0] = v
      BY <1>0, SetAt, SMT
    <3>2. \A j \in 0 .. 31 \ {0} : With(t, 0, v)[j] = t[j]
      BY <1>0, SetBeside, SMT
    <3> QED BY <3>1, <3>2, Zenon DEF v
  <2> HIDE DEF u
  <2>4. \A j \in 0 .. 31 \ {0, 1} : u[j] = s[j]
    BY <2>3, Zenon
  <2> QED BY <1>2, <1>4, <2>1, <2>2, <2>3, <2>4, Zenon DEF Multiplies
<1>6. CASE ~(imm < 0)
  <2>1. Negated(imm) = <<>> /\ Magnitude(imm) = imm
    BY <1>6, Zenon DEF Negated, Magnitude
  <2> QED BY <1>3, <2>1, Zenon DEF Multiplies
<1> QED BY <1>5, <1>6

\* Products are right.  The shifts, sums and differences that stand for the
\* product of what is in register 0 with a constant leave the product there,
\* for every constant there are such lines for, negative ones included: the
\* powers of two, the constants beside one, ten, zero and one.  They have
\* room for their shifts, and change no register but 0 and 1
\* (emitMulImmediate, singleShiftPlusMinusOne).
THEOREM ProductsAreRight ==
  \A s \in Registers : \A imm \in Int : MulEasily(imm) => Multiplies(MulLines(imm), s, imm)
<1> SUFFICES ASSUME NEW s \in Registers, NEW imm \in Int, MulEasily(imm)
             PROVE  Multiplies(MulLines(imm), s, imm)
  BY Zenon
<1> DEFINE n == Magnitude(imm)
           x == s[0]
           clear == Imm("mov", <<w0>>, 0)
           Left(k) == Imm("lsl", <<w0, w0>>, k)
           Plus(k) == Shaped("add", <<w0, w0, w0>>, "lsl", k)
           Aside(k) == Imm("lsl", <<w1, w0>>, k)
           less == Regs("sub", <<w0, w1, w0>>)
           Good(lines) == Multiplies(lines \o Negated(imm), s, imm)
           base == IF n = 0 THEN <<clear>>
                   ELSE IF n = 1 THEN <<>>
                   ELSE IF n \in Powers THEN <<Left(ShiftOf(n))>>
                   ELSE IF n = 10 THEN <<Plus(2)>> \o <<Left(1)>>
                   ELSE IF n = 3 \/ (PlusOne(n) /\ ~MinusOne(n)) THEN <<Plus(ShiftOf(n - 1))>>
                   ELSE <<Aside(ShiftOf(n + 1)), less>>
<1>0. x \in Int /\ n \in Nat /\ 0 \in 0 .. 31 /\ 1 \in 0 .. 31
  BY SMT DEF Registers, Magnitude
<1>1. w0.n = 0 /\ w1.n = 1 /\ w0.bytes = 4 /\ w1.bytes = 4
  BY SMT DEF w0, w1, Wreg
<1>2. /\ Assembles(clear) /\ Assembles(less)
      /\ \A k \in 0 .. 31 : Assembles(Left(k)) /\ Assembles(Plus(k)) /\ Assembles(Aside(k))
  <2>1. Assembles(clear) /\ Assembles(less)
    BY SumsAssemble, SMT
  <2>2. <<w0, w0>>[1] = w0 /\ <<w0, w0, w0>>[1] = w0 /\ <<w1, w0>>[1] = w1
    OBVIOUS
  <2>3. ASSUME NEW rs, NEW k \in 0 .. 31, rs[1].bytes = 4
        PROVE  Assembles(Shaped("add", rs, "lsl", k)) /\ Assembles(Imm("lsl", rs, k))
    BY <2>3, SumsAssemble, Zenon
  <2>4. ASSUME NEW k \in 0 .. 31 PROVE Assembles(Left(k)) /\ Assembles(Plus(k)) /\ Assembles(Aside(k))
    BY <1>1, <2>2, <2>3, SMT
  <2> QED BY <2>1, <2>4
<1>3. /\ \A t : Step(clear, t) = With(t, 0, 0)
      /\ \A t, k : Step(Left(k), t) = With(t, 0, t[0] * 2 ^ k)
      /\ \A t, k : Step(Plus(k), t) = With(t, 0, t[0] + t[0] * 2 ^ k)
      /\ \A t, k : Step(Aside(k), t) = With(t, 1, t[0] * 2 ^ k)
      /\ \A t : Step(less, t) = With(t, 0, t[1] - t[0])
  <2>1. ASSUME NEW t PROVE Step(clear, t) = With(t, w0.n, 0)
    BY Put, Zenon
  <2>2. ASSUME NEW t, NEW k PROVE Step(Left(k), t) = With(t, w0.n, t[w0.n] * 2 ^ k)
    BY ShiftLeft, Zenon
  <2>3. ASSUME NEW t, NEW k PROVE Step(Plus(k), t) = With(t, w0.n, t[w0.n] + t[w0.n] * 2 ^ k)
    BY AddShifted, SMT
  <2>4. ASSUME NEW t, NEW k PROVE Step(Aside(k), t) = With(t, w1.n, t[w0.n] * 2 ^ k)
    BY ShiftLeft, Zenon
  <2>5. ASSUME NEW t PROVE Step(less, t) = With(t, w0.n, t[w1.n] - t[w0.n])
    BY SubReg, Zenon
  <2> HIDE DEF clear, Left, Plus, Aside, less
  <2> QED BY <1>1, <2>1, <2>2, <2>3, <2>4, <2>5
<1>4. Good(base) => Multiplies(MulLines(imm), s, imm)
  BY Zenon DEF MulLines
<1>5. \A a, b : <<a>> \o <<b>> = <<a, b>>
  BY Joined, Zenon
<1> HIDE DEF n, clear, Left, Plus, Aside, less, Good
\* One line, and two.
<1>6. ASSUME NEW a, Assembles(a), NEW v \in Int, Step(a, s) = With(s, 0, v), v = x * n PROVE Good(<<a>>)
  <2> DEFINE t == With(s, 0, v)
  <2>1. t \in Registers /\ t[0] = v /\ \A j \in 0 .. 31 \ {0} : t[j] = s[j]
    <3>1. t \in Registers
      BY <1>0, SetIn, Zenon
    <3>2. t[0] = v
      BY <1>0, SetAt, SMT
    <3>3. \A j \in 0 .. 31 \ {0} : t[j] = s[j]
      BY <1>0, SetBeside, SMT
    <3> QED BY <3>1, <3>2, <3>3
  <2> HIDE DEF t
  <2>2. Ran(<<a>>, s) = t
    BY <1>6, Ran1, Zenon DEF t
  <2>3. t[0] = s[0] * Magnitude(imm)
    BY <1>6, <2>1, Zenon DEF n
  <2>4. \A j \in 0 .. 31 \ {0, 1} : t[j] = s[j]
    BY <2>1, Zenon
  <2>5. Few(<<a>>)
    BY <1>6, Zenon DEF Few
  <2> QED BY <2>1, <2>2, <2>3, <2>4, <2>5, Negations, Zenon DEF Good
<1>7. ASSUME NEW a, NEW b, Assembles(a), Assembles(b), NEW k \in {0, 1}, NEW y \in Int, NEW v \in Int,
             Step(a, s) = With(s, k, y), Step(b, With(s, k, y)) = With(With(s, k, y), 0, v), v = x * n
      PROVE  Good(<<a, b>>)
  <2> DEFINE t1 == With(s, k, y)
             t == With(t1, 0, v)
  <2>0. k \in 0 .. 31
    BY SMT
  <2>1. t1 \in Registers /\ \A j \in 0 .. 31 \ {k} : t1[j] = s[j]
    <3>1. t1 \in Registers
      BY <2>0, SetIn, Zenon
    <3>2. \A j \in 0 .. 31 \ {k} : t1[j] = s[j]
      BY <2>0, SetBeside, SMT
    <3> QED BY <3>1, <3>2
  <2> HIDE DEF t1
  <2>2. t \in Registers /\ t[0] = v /\ \A j \in 0 .. 31 \ {0} : t[j] = t1[j]
    <3>1. t \in Registers
      BY <1>0, <2>1, SetIn, Zenon
    <3>2. t[0] = v
      BY <1>0, <2>1, SetAt, SMT
    <3>3. \A j \in 0 .. 31 \ {0} : t[j] = t1[j]
      BY <1>0, <2>1, SetBeside, SMT
    <3> QED BY <3>1, <3>2, <3>3
  <2> HIDE DEF t
  <2>3. Ran(<<a, b>>, s) = t
    BY <1>7, Ran2, Zenon DEF t, t1
  <2>4. t[0] = s[0] * Magnitude(imm)
    BY <1>7, <2>2, Zenon DEF n
  <2>5. \A j \in 0 .. 31 \ {0, 1} : t[j] = s[j]
    BY <2>1, <2>2, Zenon
  <2>6. Few(<<a, b>>)
    BY <1>7, Zenon DEF Few
  <2> QED BY <2>2, <2>3, <2>4, <2>5, <2>6, Negations, Zenon DEF Good
<1>8. CASE n = 0
  <2>1. Good(<<clear>>)
    BY <1>0, <1>2, <1>3, <1>6, <1>8, SMT
  <2>2. base = <<clear>>
    BY <1>8, Zenon
  <2> QED BY <1>4, <2>1, <2>2, Zenon
<1>9. CASE n = 1
  <2>1. s[0] = s[0] * Magnitude(imm)
    BY <1>0, <1>9, SMT DEF n
  <2>2. Ran(<<>>, s) = s
    BY Ran0, Zenon
  <2>3. Good(<<>>)
    <3>1. Few(<<>>)
      BY <1>2, Zenon DEF Few
    <3> QED BY <2>1, <2>2, <3>1, Negations, Zenon DEF Good
  <2>4. base = <<>>
    BY <1>9, SMT
  <2> QED BY <1>4, <2>3, <2>4, Zenon
<1>10. CASE n # 0 /\ n # 1 /\ n \in Powers
  <2> DEFINE k == ShiftOf(n)
  <2>1. k \in 0 .. 31 /\ 2 ^ k = n
    BY <1>10, PowersShift, Zenon
  <2> HIDE DEF k
  <2>2. x * n \in Int
    BY <1>0
  <2>3. Step(Left(k), s) = With(s, 0, x * n)
    BY <1>3, <2>1
  <2>4. Good(<<Left(k)>>)
    BY <1>2, <1>6, <2>1, <2>2, <2>3, Zenon
  <2>8. base = <<Left(k)>>
    BY <1>10, Zenon DEF k
  <2> HIDE DEF base
  <2> QED BY <1>4, <2>4, <2>8, Zenon
<1>11. CASE n # 0 /\ n # 1 /\ n \notin Powers /\ n = 10
  <2> DEFINE y == x + x * 2 ^ 2
             t == With(s, 0, y)
  <2>1. y \in Int /\ y * 2 ^ 1 = x * n
    BY <1>0, <1>11, SMT
  <2>2. Step(Plus(2), s) = t
    BY <1>3
  <2>3. t[0] = y
    <3> HIDE DEF y
    <3> QED BY <1>0, <2>1, SetAt, SMT
  <2>4. Step(Left(1), t) = With(t, 0, y * 2 ^ 1)
    <3> HIDE DEF t, y
    <3> QED BY <1>3, <2>3
  <2>5. x * n \in Int
    BY <1>0
  <2>6. Good(<<Plus(2), Left(1)>>)
    <3>1. 2 \in 0 .. 31 /\ 1 \in 0 .. 31 /\ 0 \in {0, 1}
      BY SMT
    <3>2. Step(Left(1), t) = With(t, 0, x * n)
      BY <2>1, <2>4, Zenon
    <3> HIDE DEF y
    <3> QED BY <1>2, <1>7, <2>1, <2>2, <2>5, <3>1, <3>2, Zenon
  <2>8. base = <<Plus(2), Left(1)>>
    BY <1>5, <1>11, Zenon
  <2> HIDE DEF base
  <2> QED BY <1>4, <2>6, <2>8, Zenon
<1>12. CASE n # 0 /\ n # 1 /\ n \notin Powers /\ n # 10 /\ (n = 3 \/ (PlusOne(n) /\ ~MinusOne(n)))
  <2> DEFINE k == ShiftOf(n - 1)
  <2>1. n - 1 \in Powers
    <3>1. n = 3 => n - 1 = 2
      BY SMT
    <3> QED BY <1>12, <3>1, PowersShift, SMT DEF PlusOne
  <2>2. k \in 0 .. 31 /\ 2 ^ k = n - 1
    BY <2>1, PowersShift, Zenon
  <2> HIDE DEF k
  <2>3. x * n \in Int /\ x + x * (n - 1) = x * n
    BY <1>0, SMT
  <2>4. Step(Plus(k), s) = With(s, 0, x * n)
    BY <1>3, <2>2, <2>3
  <2>5. Good(<<Plus(k)>>)
    BY <1>2, <1>6, <2>2, <2>3, <2>4, Zenon
  <2>8. base = <<Plus(k)>>
    BY <1>12, Zenon DEF k
  <2> HIDE DEF base
  <2> QED BY <1>4, <2>5, <2>8, Zenon
<1>13. CASE n # 0 /\ n # 1 /\ n \notin Powers /\ n # 10 /\ ~(n = 3 \/ (PlusOne(n) /\ ~MinusOne(n)))
  <2> DEFINE k == ShiftOf(n + 1)
  <2>1. n + 1 \in Powers
    <3>1. n \in Powers \cup {0, 10} \/ MinusOne(n) \/ PlusOne(n)
      BY Zenon DEF MulEasily, n
    <3> QED BY <1>13, <3>1, SMT DEF MinusOne
  <2>2. k \in 0 .. 31 /\ 2 ^ k = n + 1
    BY <2>1, PowersShift, Zenon
  <2> HIDE DEF k
  <2> DEFINE y == x * (n + 1)
             t == With(s, 1, y)
  <2>3. x * n \in Int /\ y \in Int /\ y - x = x * n
    <3> HIDE DEF x
    <3> QED BY <1>0, SMT
  <2>4. Step(Aside(k), s) = t
    BY <1>3, <2>2
  <2>5. t[1] = y /\ t[0] = x
    <3> HIDE DEF y
    <3>1. t[1] = y /\ \A j \in 0 .. 31 \ {1} : t[j] = s[j]
      <4>1. t[1] = y
        BY <1>0, SetAt, SMT
      <4>2. \A j \in 0 .. 31 \ {1} : t[j] = s[j]
        BY <1>0, SetBeside, SMT
      <4> QED BY <4>1, <4>2, Zenon
    <3>2. 0 \in 0 .. 31 \ {1}
      BY SMT
    <3> QED BY <3>1, <3>2, Zenon
  <2>6. Step(less, t) = With(t, 0, x * n)
    <3> HIDE DEF t, y
    <3> QED BY <1>3, <2>3, <2>5
  <2>7. Good(<<Aside(k), less>>)
    <3>1. 1 \in {0, 1}
      BY SMT
    <3> HIDE DEF y
    <3> QED BY <1>2, <1>7, <2>2, <2>3, <2>4, <2>6, <3>1, Zenon
  <2>8. base = <<Aside(k), less>>
    BY <1>13, Zenon DEF k
  <2> HIDE DEF base
  <2> QED BY <1>4, <2>7, <2>8, Zenon
<1> QED BY <1>8, <1>9, <1>10, <1>11, <1>12, <1>13

----------------------------------------------------------------------------
(* Quotients and remainders, as they are printed.                          *)

\* Lists of lines run one after the other.
LEMMA LeadsBoth ==
  ASSUME NEW a, NEW b, NEW s, NEW u, NEW t, Leads(a, s, u), Leads(b, u, t)
  PROVE  Leads(a \o b, s, t)
<1> DEFINE c == a \o b
<1>1. PICK A : a \in Seq(A)
  BY Zenon DEF Leads, IsList
<1>2. PICK B : b \in Seq(B)
  BY Zenon DEF Leads, IsList
<1>3. /\ Len(a) \in Nat /\ Len(b) \in Nat /\ Len(c) = Len(a) + Len(b) /\ DOMAIN c = 1 .. Len(a) + Len(b)
      /\ DOMAIN a = 1 .. Len(a) /\ DOMAIN b = 1 .. Len(b) /\ c \in Seq(A \cup B)
      /\ \A k \in 1 .. Len(a) : c[k] = a[k]
      /\ \A k \in 1 .. Len(b) : c[Len(a) + k] = b[k]
  <2> DEFINE S == A \cup B
  <2>1. a \in Seq(S) /\ b \in Seq(S)
    BY <1>1, <1>2
  <2> HIDE DEF S
  <2>2. /\ Len(a) \in Nat /\ Len(b) \in Nat /\ Len(c) = Len(a) + Len(b) /\ c \in Seq(S)
        /\ DOMAIN c = 1 .. Len(a) + Len(b) /\ DOMAIN a = 1 .. Len(a) /\ DOMAIN b = 1 .. Len(b)
    BY <2>1
  <2>3. \A k \in 1 .. Len(a) : c[k] = a[k]
    BY <2>1, <2>2
  <2>4. \A k \in 1 .. Len(b) : c[Len(a) + k] = b[k]
    BY <2>1, <2>2
  <2> QED BY <2>2, <2>3, <2>4 DEF S
<1> HIDE DEF c
<1>4. IsList(c)
  BY <1>3, Zenon DEF IsList
<1>5. ASSUME NEW k \in DOMAIN c PROVE Assembles(c[k])
  <2>1. CASE k <= Len(a)
    <3>1. k \in DOMAIN a /\ c[k] = a[k]
      BY <1>3, <2>1
    <3> QED BY <3>1, Zenon DEF Leads
  <2>2. CASE ~(k <= Len(a))
    <3>1. k - Len(a) \in 1 .. Len(b) /\ Len(a) + (k - Len(a)) = k
      BY <1>3, <2>2
    <3>2. k - Len(a) \in DOMAIN b /\ c[k] = b[k - Len(a)]
      BY <1>3, <3>1, Zenon
    <3> QED BY <3>2, Zenon DEF Leads
  <2> QED BY <2>1, <2>2
<1>6. ASSUME NEW less \in BOOLEAN
      PROVE  \E h : \E after \in BOOLEAN :
               Trace(c, h) /\ h[0] = Machine(s, less) /\ h[Len(c)] = Machine(t, after)
  <2>1. PICK f : \E after \in BOOLEAN :
                   Trace(a, f) /\ f[0] = Machine(s, less) /\ f[Len(a)] = Machine(u, after)
    BY Zenon DEF Leads, Executes
  <2>2. PICK between \in BOOLEAN : f[Len(a)] = Machine(u, between)
    BY <2>1, Zenon
  <2>3. PICK g : \E after \in BOOLEAN :
                   Trace(b, g) /\ g[0] = Machine(u, between) /\ g[Len(b)] = Machine(t, after)
    BY Zenon DEF Leads, Executes
  <2>4. PICK after \in BOOLEAN : g[Len(b)] = Machine(t, after)
    BY <2>3, Zenon
  <2> DEFINE n == Len(a)
             h == [k \in 0 .. Len(c) |-> IF k <= n THEN f[k] ELSE g[k - n]]
  <2>5. h = [k \in 0 .. Len(c) |-> h[k]]
    BY DEF h
  <2>6. \A k \in 0 .. Len(c) : h[k] = IF k <= n THEN f[k] ELSE g[k - n]
    OBVIOUS
  <2>7. /\ \A k \in 1 .. n : f[k] = Effect(a[k], f[k - 1])
        /\ \A k \in 1 .. Len(b) : g[k] = Effect(b[k], g[k - 1])
    BY <2>1, <2>3, Zenon DEF Trace
  <2>8. g[0] = f[n]
    BY <2>2, <2>3, Zenon
  <2> HIDE DEF h, n
  <2>9. n \in Nat /\ n = Len(a)
    BY <1>3 DEF n
  <2>10. ASSUME NEW k \in 1 .. Len(c) PROVE h[k] = Effect(c[k], h[k - 1])
    <3>1. CASE k <= n
      <4>1. k \in 1 .. n /\ k \in 0 .. Len(c) /\ k - 1 \in 0 .. Len(c) /\ k - 1 <= n
        BY <1>3, <2>9, <3>1
      <4>2. h[k] = f[k] /\ h[k - 1] = f[k - 1] /\ c[k] = a[k]
        BY <1>3, <2>6, <2>9, <4>1
      <4> QED BY <2>7, <4>1, <4>2, Zenon
    <3>2. CASE ~(k <= n)
      <4> DEFINE j == k - n
      <4>1. j \in 1 .. Len(b) /\ n + j = k /\ k \in 0 .. Len(c) /\ k - 1 \in 0 .. Len(c) /\ j - 1 = k - 1 - n
        BY <1>3, <2>9, <3>2
      <4>2. h[k] = g[j] /\ c[k] = b[j]
        BY <1>3, <2>6, <2>9, <3>2, <4>1
      <4>3. h[k - 1] = g[j - 1]
        <5>1. CASE k - 1 <= n
          <6>1. k - 1 = n /\ j - 1 = 0
            BY <2>9, <3>2, <5>1
          <6> QED BY <2>6, <2>8, <4>1, <6>1
        <5>2. CASE ~(k - 1 <= n)
          BY <2>6, <4>1, <5>2
        <5> QED BY <5>1, <5>2
      <4> HIDE DEF j
      <4> QED BY <2>7, <4>1, <4>2, <4>3, Zenon
    <3> QED BY <3>1, <3>2
  <2>11. h[0] = Machine(s, less)
    <3>1. 0 \in 0 .. Len(c) /\ 0 <= n
      BY <1>3, <2>9
    <3> QED BY <2>1, <2>6, <3>1, Zenon
  <2>12. h[Len(c)] = Machine(t, after)
    <3> DEFINE lc == Len(c)
               lb == Len(b)
    <3>0. lc \in Nat /\ lb \in Nat /\ lc = n + lb /\ n \in Nat
      BY <1>3, <2>9
    <3> HIDE DEF lc, lb
    <3>1. lc \in 0 .. lc /\ (lc <= n => lb = 0 /\ lc = n) /\ lc - n = lb
      BY <3>0, SMT
    <3>2. CASE lc <= n
      BY <2>4, <2>6, <2>8, <3>1, <3>2 DEF lc, lb
    <3>3. CASE ~(lc <= n)
      BY <2>4, <2>6, <3>1, <3>3 DEF lc, lb
    <3> QED BY <3>2, <3>3
  <2> QED BY <2>5, <2>10, <2>11, <2>12, Zenon DEF Trace
<1> QED BY <1>4, <1>5, <1>6, Zenon DEF Leads, Executes, c
LEMMA LeadsNone == \A s : Leads(<<>>, s, s)
<1> TAKE s
<1>1. IsList(<<>>) /\ \A k \in DOMAIN <<>> : Assembles(<<>>[k])
  <2>1. <<>> \in Seq({})
    OBVIOUS
  <2> QED BY <2>1 DEF IsList
<1>2. ASSUME NEW less \in BOOLEAN
      PROVE  \E f : \E after \in BOOLEAN :
               Trace(<<>>, f) /\ f[0] = Machine(s, less) /\ f[Len(<<>>)] = Machine(s, after)
  <2> DEFINE f == [k \in 0 .. 0 |-> Machine(s, less)]
  <2>1. Len(<<>>) = 0 /\ f = [k \in 0 .. 0 |-> f[k]] /\ f[0] = Machine(s, less) /\ 1 .. 0 = {}
    OBVIOUS
  <2> HIDE DEF f
  <2>2. Trace(<<>>, f)
    BY <2>1 DEF Trace
  <2> QED BY <2>1, <2>2, Zenon
<1> QED BY <1>1, <1>2, Zenon DEF Leads, Executes
LEMMA LeadsOne ==
  \A i, s : Assembles(i) /\ i.op \notin {"cmp", "csel"} => Leads(<<i>>, s, Step(i, s))
<1> SUFFICES ASSUME NEW i, NEW s, Assembles(i), i.op \notin {"cmp", "csel"} PROVE Leads(<<i>>, s, Step(i, s))
  OBVIOUS
<1> DEFINE l == <<i>>
<1>1. Len(l) = 1 /\ DOMAIN l = {1} /\ l[1] = i /\ 1 .. 1 = {1} /\ l \in Seq({i})
  OBVIOUS
<1>2. \A less : Effect(i, Machine(s, less)) = Machine(Step(i, s), less)
  BY DEF Effect, Machine
<1> HIDE DEF l
<1>3. ASSUME NEW less \in BOOLEAN
      PROVE  \E f : \E after \in BOOLEAN :
               Trace(l, f) /\ f[0] = Machine(s, less) /\ f[Len(l)] = Machine(Step(i, s), after)
  <2> DEFINE x == Machine(s, less)
             y == Machine(Step(i, s), less)
             f == [k \in 0 .. 1 |-> IF k = 0 THEN x ELSE y]
  <2> HIDE DEF x, y
  <2>1. f = [k \in 0 .. 1 |-> f[k]] /\ f[0] = x /\ f[1] = y
    OBVIOUS
  <2>2. y = Effect(i, x)
    BY <1>2 DEF x, y
  <2> HIDE DEF f
  <2>3. Trace(l, f)
    BY <1>1, <2>1, <2>2 DEF Trace
  <2>4. f[0] = Machine(s, less) /\ f[Len(l)] = Machine(Step(i, s), less)
    BY <1>1, <2>1, Zenon DEF x, y
  <2> QED BY <2>3, <2>4, Zenon
<1>4. IsList(l) /\ \A k \in DOMAIN l : Assembles(l[k])
  BY <1>1, Zenon DEF IsList
<1> QED BY <1>3, <1>4, Zenon DEF Leads, Executes, l

\* A comparison with zero, and the choice by it.
LEMMA LeadsChoice ==
  ASSUME NEW s, NEW r, r.bytes = 4, s[r.n] \in Words, NEW a, NEW b, NEW c
  PROVE  Leads(<<Imm("cmp", <<r>>, 0), Cond("csel", <<a, b, c>>, "lt")>>, s,
               With(s, a.n, IF s[r.n] < 0 THEN s[b.n] ELSE s[c.n]))
<1> DEFINE i == Imm("cmp", <<r>>, 0)
           j == Cond("csel", <<a, b, c>>, "lt")
           l == <<i, j>>
           t == With(s, a.n, IF s[r.n] < 0 THEN s[b.n] ELSE s[c.n])
<1>1. i.op = "cmp" /\ i.rs = <<r>> /\ i.form = "plain" /\ i.n = {0} /\ Constant(i) = 0
  <2>1. i.op = "cmp" /\ i.rs = <<r>> /\ i.form = "plain" /\ i.n = {0} /\ NumberOf(i) = 0
    BY Fields, SMT
  <2> QED BY <2>1, SMT DEF Constant
<1>2. j.op = "csel" /\ j.rs = <<a, b, c>> /\ j.form = "lt" /\ j.n = {}
  BY SMT DEF Cond, Line
<1> HIDE DEF i, j
<1>3. Assembles(i)
  <2>1. 0 \in Bits(12)
    BY Twelve, SMT
  <2> QED BY <1>1, <2>1, SMT DEF Assembles, InRange
<1>4. Assembles(j)
  BY <1>2, SMT DEF Assembles
<1>5. Len(l) = 2 /\ DOMAIN l = {1, 2} /\ l[1] = i /\ l[2] = j /\ 1 .. 2 = {1, 2} /\ l \in Seq({i, j})
  OBVIOUS
<1> HIDE DEF l
<1>6. IsList(l) /\ \A k \in DOMAIN l : Assembles(l[k])
  BY <1>3, <1>4, <1>5, Zenon DEF IsList
<1>7. ASSUME NEW less \in BOOLEAN
      PROVE  \E f : \E after \in BOOLEAN :
               Trace(l, f) /\ f[0] = Machine(s, less) /\ f[Len(l)] = Machine(t, after)
  <2> DEFINE low == s[r.n] < 0
             x == Machine(s, less)
             y == Machine(s, low)
             z == Machine(t, low)
             f == [k \in 0 .. 2 |-> IF k = 0 THEN x ELSE IF k = 1 THEN y ELSE z]
  <2>1. y = Effect(i, x)
    <3>1. x.regs = s
      BY DEF Machine
    <3>2. Lower(i, s) = low
      BY <1>1, SMT DEF Lower, Holds
    <3> HIDE DEF x
    <3> QED BY <1>1, <3>1, <3>2 DEF Effect
  <2>2. z = Effect(j, y)
    <3>1. y.regs = s /\ y.less = low
      BY DEF Machine
    <3>2. s[j.rs[IF low THEN 2 ELSE 3].n] = (IF low THEN s[b.n] ELSE s[c.n]) /\ j.rs[1] = a
      BY <1>2
    <3> HIDE DEF y
    <3>3. Effect(j, y) = Machine(With(y.regs, j.rs[1].n, y.regs[j.rs[IF y.less THEN 2 ELSE 3].n]), y.less)
      BY <1>2 DEF Effect
    <3> HIDE DEF low
    <3> QED BY <3>1, <3>2, <3>3, Zenon DEF low
  <2> HIDE DEF x, y, z
  <2>3. f = [k \in 0 .. 2 |-> f[k]] /\ f[0] = x /\ f[1] = y /\ f[2] = z
    OBVIOUS
  <2> HIDE DEF f
  <2>4. Trace(l, f)
    <3>1. f[1] = Effect(l[1], f[0]) /\ f[2] = Effect(l[2], f[1])
      BY <1>5, <2>1, <2>2, <2>3, Zenon
    <3>2. \A k \in 1 .. 2 : f[k] = Effect(l[k], f[k - 1])
      <4>1. 2 - 1 = 1 /\ 1 - 1 = 0
        OBVIOUS
      <4> QED BY <1>5, <3>1, <4>1
    <3> QED BY <1>5, <2>3, <3>2, Zenon DEF Trace
  <2>5. low \in BOOLEAN
    OBVIOUS
  <2>6. f[0] = Machine(s, less) /\ f[Len(l)] = Machine(t, low)
    BY <1>5, <2>3, Zenon DEF x, z
  <2> HIDE DEF low
  <2> QED BY <2>4, <2>5, <2>6, Zenon
<1>8. Leads(l, s, t)
  BY <1>6, <1>7, Zenon DEF Leads, Executes
<1> QED BY <1>8, Zenon DEF l, i, j, t

\* Literals again.
LEMMA LeadsLiteral ==
  \A r : \A s \in Registers : \A n \in Words : r.n \in 0 .. 31 =>
    Leads(LoadImmediate32(r, n), s, With(s, r.n, n))
<1> SUFFICES ASSUME NEW r, NEW s \in Registers, NEW n \in Words, r.n \in 0 .. 31
             PROVE  Leads(LoadImmediate32(r, n), s, With(s, r.n, n))
  BY Zenon
<1> DEFINE l == LoadImmediate32(r, n)
           moves == {"movz", "movn", "movk"}
<1>1. Encodable(l) /\ Ran(l, s) = With(s, r.n, n)
  BY LiteralLines, Zenon
<1>2. (\E a : l = <<a>> /\ a.op \in moves) \/ (\E a, b : l = <<a, b>> /\ a.op \in moves /\ b.op \in moves)
  <2> DEFINE P(x) == x.op \in moves
             One == {Imm("movz", <<r>>, n), Shaped("movz", <<r>>, "lsl16", High(n)),
                     Imm("movn", <<r>>, 65535 - Low(n)), Shaped("movn", <<r>>, "lsl16", 65535 - High(n))}
  <2>1. (\E a \in One : l = <<a>>)
          \/ l = <<Imm("movz", <<r>>, Low(n)), Shaped("movk", <<r>>, "lsl16", High(n))>>
    BY DEF LoadImmediate32
  <2>2. \A a \in One : a.op \in moves
    BY SMT DEF Imm, Shaped, Line
  <2>3. Imm("movz", <<r>>, Low(n)).op \in moves /\ Shaped("movk", <<r>>, "lsl16", High(n)).op \in moves
    BY SMT DEF Imm, Shaped, Line
  <2> HIDE DEF l, One, moves
  <2> QED BY <2>1, <2>2, <2>3, Zenon
<1> HIDE DEF l
<1>3. "cmp" \notin moves /\ "csel" \notin moves
  BY SMT
<1> HIDE DEF moves
<1>4. ASSUME NEW a, l = <<a>>, a.op \in moves PROVE Leads(l, s, With(s, r.n, n))
  <2>1. Assembles(a)
    BY <1>1, <1>4 DEF Encodable
  <2>2. Step(a, s) = With(s, r.n, n)
    BY <1>1, <1>4, Ran1, Zenon
  <2>3. a.op \notin {"cmp", "csel"}
    BY <1>3, <1>4, Zenon
  <2>4. Leads(<<a>>, s, Step(a, s))
    BY <2>1, <2>3, LeadsOne, Zenon
  <2> QED BY <1>4, <2>2, <2>4, Zenon
<1>5. ASSUME NEW a, NEW b, l = <<a, b>>, a.op \in moves, b.op \in moves PROVE Leads(l, s, With(s, r.n, n))
  <2>1. Assembles(a) /\ Assembles(b)
    BY <1>1, <1>5 DEF Encodable
  <2>2. Step(b, Step(a, s)) = With(s, r.n, n)
    BY <1>1, <1>5, Ran2, Zenon
  <2>3. a.op \notin {"cmp", "csel"} /\ b.op \notin {"cmp", "csel"}
    BY <1>3, <1>5, Zenon
  <2>4. Leads(<<a>>, s, Step(a, s)) /\ Leads(<<b>>, Step(a, s), Step(b, Step(a, s)))
    BY <2>1, <2>3, LeadsOne, Zenon
  <2>5. <<a>> \o <<b>> = <<a, b>>
    BY Joined, Zenon
  <2>6. Leads(<<a>> \o <<b>>, s, Step(b, Step(a, s)))
    BY <2>4, LeadsBoth, Zenon
  <2> QED BY <1>5, <2>2, <2>5, <2>6, Zenon
<1>6. Leads(l, s, With(s, r.n, n))
  BY <1>2, <1>4, <1>5, Zenon
<1> QED BY <1>6, Zenon DEF l

\* A line of its own, by what it leaves.
LEMMA LineLeads ==
  ASSUME NEW i, NEW s, NEW k, NEW v, Assembles(i), i.op # "cmp", i.op # "csel", i.rs[1].n = k, Result(i, s) = v
  PROVE  Leads(<<i>>, s, With(s, k, v))
<1>1. Step(i, s) = With(s, k, v)
  BY Zenon DEF Step
<1>2. i.op \notin {"cmp", "csel"}
  BY Zenon
<1> QED BY <1>1, <1>2, LeadsOne, Zenon
LEMMA WithoutNumber == \A i : i.n = {} /\ i.op # "ldp" => Assembles(i)
BY SMT DEF Assembles
LEMMA WithNumber == \A i, k : i.n = {k} /\ i.op # "ldp" /\ InRange(i, k) => Assembles(i)
BY SMT DEF Assembles

LEMMA AddLeads ==
  ASSUME NEW s, NEW a, NEW b, NEW c
  PROVE  Leads(<<Regs("add", <<a, b, c>>)>>, s, With(s, a.n, s[b.n] + s[c.n]))
<1> DEFINE i == Regs("add", <<a, b, c>>)
<1>1. i.op = "add" /\ i.n = {} /\ i.rs[1].n = a.n /\ i.rs[2].n = b.n /\ i.rs[3].n = c.n
  BY Fields, SMT
<1> HIDE DEF i
<1>2. Operand(i, s) = s[c.n]
  BY OperandIs, <1>1, SMT
<1>3. Result(i, s) = s[b.n] + s[c.n]
  BY ResultIs, <1>1, <1>2, SMT
<1>4. i.op # "ldp" /\ i.op # "cmp" /\ i.op # "csel"
  BY <1>1, SMT
<1>5. Leads(<<i>>, s, With(s, a.n, s[b.n] + s[c.n]))
  BY <1>1, <1>3, <1>4, WithoutNumber, LineLeads, Zenon
<1> QED BY <1>5, Zenon DEF i
LEMMA MoveLeads ==
  ASSUME NEW s, NEW a, NEW b
  PROVE  Leads(<<Regs("mov", <<a, b>>)>>, s, With(s, a.n, s[b.n]))
<1> DEFINE i == Regs("mov", <<a, b>>)
<1>1. i.op = "mov" /\ i.n = {} /\ i.rs[1].n = a.n /\ i.rs[2].n = b.n
  BY Fields, SMT
<1> HIDE DEF i
<1>2. Result(i, s) = s[b.n]
  BY ResultIs, <1>1, SMT
<1>3. i.op # "ldp" /\ i.op # "cmp" /\ i.op # "csel"
  BY <1>1, SMT
<1>4. Leads(<<i>>, s, With(s, a.n, s[b.n]))
  BY <1>1, <1>2, <1>3, WithoutNumber, LineLeads, Zenon
<1> QED BY <1>4, Zenon DEF i
LEMMA NegLeads ==
  ASSUME NEW s, NEW a, NEW b
  PROVE  Leads(<<Regs("neg", <<a, b>>)>>, s, With(s, a.n, -s[b.n]))
<1> DEFINE i == Regs("neg", <<a, b>>)
<1>1. i.op = "neg" /\ i.n = {} /\ i.rs[1].n = a.n /\ i.rs[2].n = b.n
  BY Fields, SMT
<1> HIDE DEF i
<1>2. Result(i, s) = -s[b.n]
  BY ResultIs, <1>1, SMT
<1>3. i.op # "ldp" /\ i.op # "cmp" /\ i.op # "csel"
  BY <1>1, SMT
<1>4. Leads(<<i>>, s, With(s, a.n, -s[b.n]))
  BY <1>1, <1>2, <1>3, WithoutNumber, LineLeads, Zenon
<1> QED BY <1>4, Zenon DEF i
LEMMA MsubLeads ==
  ASSUME NEW s, NEW a, NEW b, NEW c, NEW d
  PROVE  Leads(<<Regs("msub", <<a, b, c, d>>)>>, s, With(s, a.n, s[d.n] - s[b.n] * s[c.n]))
<1> DEFINE i == Regs("msub", <<a, b, c, d>>)
<1>1. i.op = "msub" /\ i.n = {} /\ i.rs[1].n = a.n /\ i.rs[2].n = b.n /\ i.rs[3].n = c.n /\ i.rs[4].n = d.n
  BY Fields, SMT
<1> HIDE DEF i
<1>2. Result(i, s) = s[d.n] - s[b.n] * s[c.n]
  <2>1. Result(i, s) = s[i.rs[4].n] - s[i.rs[2].n] * s[i.rs[3].n]
    BY ResultIs, <1>1, Zenon
  <2> QED BY <1>1, <2>1, Zenon
<1>3. i.op # "ldp" /\ i.op # "cmp" /\ i.op # "csel"
  BY <1>1, SMT
<1>4. Leads(<<i>>, s, With(s, a.n, s[d.n] - s[b.n] * s[c.n]))
  BY <1>1, <1>2, <1>3, WithoutNumber, LineLeads, Zenon
<1> QED BY <1>4, Zenon DEF i
LEMMA WideLeads ==
  ASSUME NEW s, NEW a, NEW b, NEW c, b.bytes = 4, c.bytes = 4, s[b.n] \in Words, s[c.n] \in Words
  PROVE  /\ Leads(<<Regs("smull", <<a, b, c>>)>>, s, With(s, a.n, s[b.n] * s[c.n]))
         /\ Leads(<<Regs("umull", <<a, b, c>>)>>, s, With(s, a.n, WithoutSign(s[b.n]) * WithoutSign(s[c.n])))
<1>1. ASSUME NEW op \in {"smull", "umull"}, NEW i, i = Regs(op, <<a, b, c>>)
      PROVE  /\ i.op = op /\ i.rs[1].n = a.n /\ Assembles(i) /\ i.op # "cmp" /\ i.op # "csel"
             /\ Result(i, s) = WideProduct(i, s[b.n], s[c.n]) /\ i.rs[2] = b /\ i.rs[3] = c
  <2>1. i.op = op /\ i.n = {} /\ i.rs[1].n = a.n /\ i.rs[2] = b /\ i.rs[3] = c
    BY <1>1, Fields, SMT
  <2>2. i.op # "ldp" /\ i.op # "cmp" /\ i.op # "csel"
    BY <2>1, SMT
  <2>3. Result(i, s) = WideProduct(i, s[b.n], s[c.n])
    BY ResultIs, <2>1, SMT
  <2> QED BY <2>1, <2>2, <2>3, WithoutNumber, Zenon
<1>2. Holds(b, s[b.n]) /\ Holds(c, s[c.n])
  BY DEF Holds
<1>3. Leads(<<Regs("smull", <<a, b, c>>)>>, s, With(s, a.n, s[b.n] * s[c.n]))
  <2> DEFINE i == Regs("smull", <<a, b, c>>)
  <2>1. /\ i.op = "smull" /\ i.rs[1].n = a.n /\ Assembles(i) /\ i.op # "cmp" /\ i.op # "csel"
        /\ Result(i, s) = WideProduct(i, s[b.n], s[c.n]) /\ i.rs[2] = b /\ i.rs[3] = c
    BY <1>1, Zenon
  <2> HIDE DEF i
  <2>2. Result(i, s) = s[b.n] * s[c.n]
    <3>1. "smull" # "umull"
      BY SMT
    <3> QED BY <1>2, <2>1, <3>1, Zenon DEF WideProduct
  <2>3. Leads(<<i>>, s, With(s, a.n, s[b.n] * s[c.n]))
    BY <2>1, <2>2, LineLeads, Zenon
  <2> QED BY <2>3, Zenon DEF i
<1>4. Leads(<<Regs("umull", <<a, b, c>>)>>, s, With(s, a.n, WithoutSign(s[b.n]) * WithoutSign(s[c.n])))
  <2> DEFINE i == Regs("umull", <<a, b, c>>)
  <2>1. /\ i.op = "umull" /\ i.rs[1].n = a.n /\ Assembles(i) /\ i.op # "cmp" /\ i.op # "csel"
        /\ Result(i, s) = WideProduct(i, s[b.n], s[c.n]) /\ i.rs[2] = b /\ i.rs[3] = c
    BY <1>1, Zenon
  <2> HIDE DEF i
  <2>2. Result(i, s) = WithoutSign(s[b.n]) * WithoutSign(s[c.n])
    BY <1>2, <2>1, Zenon DEF WideProduct
  <2>3. Leads(<<i>>, s, With(s, a.n, WithoutSign(s[b.n]) * WithoutSign(s[c.n])))
    BY <2>1, <2>2, LineLeads, Zenon
  <2> QED BY <2>3, Zenon DEF i
<1> QED BY <1>3, <1>4

LEMMA RightLeads ==
  ASSUME NEW s, NEW a, NEW b, NEW k, ShiftFits(a, k), Holds(b, s[b.n])
  PROVE  /\ Leads(<<Imm("asr", <<a, b>>, k)>>, s, With(s, a.n, s[b.n] \div TwoTo[k]))
         /\ s[b.n] >= 0 => Leads(<<Imm("lsr", <<a, b>>, k)>>, s, With(s, a.n, s[b.n] \div TwoTo[k]))
<1>1. ASSUME NEW op \in {"asr", "lsr"}, NEW i, i = Imm(op, <<a, b>>, k)
      PROVE  /\ i.op = op /\ i.rs[1].n = a.n /\ i.rs[2] = b /\ NumberOf(i) = k
             /\ Assembles(i) /\ i.op # "cmp" /\ i.op # "csel"
  <2>1. i.op = op /\ i.n = {k} /\ i.form = "plain" /\ i.rs[1] = a /\ i.rs[2] = b /\ NumberOf(i) = k
    BY <1>1, Fields, SMT
  <2>2. i.op # "ldp" /\ i.op # "cmp" /\ i.op # "csel"
    BY <2>1, SMT
  <2>3. InRange(i, k)
    BY <2>1, SMT DEF InRange, ShiftFits
  <2> QED BY <2>1, <2>2, <2>3, WithNumber, Zenon
<1>2. ShiftedRight(b, s[b.n], k) = s[b.n] \div TwoTo[k]
  BY Zenon DEF ShiftedRight
<1>3. Leads(<<Imm("asr", <<a, b>>, k)>>, s, With(s, a.n, s[b.n] \div TwoTo[k]))
  <2> DEFINE i == Imm("asr", <<a, b>>, k)
  <2>1. /\ i.op = "asr" /\ i.rs[1].n = a.n /\ i.rs[2] = b /\ NumberOf(i) = k
        /\ Assembles(i) /\ i.op # "cmp" /\ i.op # "csel"
    BY <1>1, Zenon
  <2> HIDE DEF i
  <2>2. Result(i, s) = s[b.n] \div TwoTo[k]
    BY <1>2, <2>1, ResultIs, Zenon
  <2>3. Leads(<<i>>, s, With(s, a.n, s[b.n] \div TwoTo[k]))
    BY <2>1, <2>2, LineLeads, Zenon
  <2> QED BY <2>3, Zenon DEF i
<1>4. ASSUME s[b.n] >= 0 PROVE Leads(<<Imm("lsr", <<a, b>>, k)>>, s, With(s, a.n, s[b.n] \div TwoTo[k]))
  <2> DEFINE i == Imm("lsr", <<a, b>>, k)
  <2>1. /\ i.op = "lsr" /\ i.rs[1].n = a.n /\ i.rs[2] = b /\ NumberOf(i) = k
        /\ Assembles(i) /\ i.op # "cmp" /\ i.op # "csel"
    BY <1>1, Zenon
  <2> HIDE DEF i
  <2>2. Result(i, s) = s[b.n] \div TwoTo[k]
    BY <1>2, <1>4, <2>1, ResultIs, Zenon
  <2>3. Leads(<<i>>, s, With(s, a.n, s[b.n] \div TwoTo[k]))
    BY <2>1, <2>2, LineLeads, Zenon
  <2> QED BY <2>3, Zenon DEF i
<1> QED BY <1>3, <1>4
LEMMA SignLeads ==
  ASSUME NEW s, NEW a, NEW b, NEW c, a.bytes = 4, c.bytes = 4, s[c.n] \in Words
  PROVE  Leads(<<Shaped("sub", <<a, b, c>>, "asr", 31)>>, s, With(s, a.n, s[b.n] - (s[c.n] \div TwoTo[31])))
<1> DEFINE i == Shaped("sub", <<a, b, c>>, "asr", 31)
<1>1. i.op = "sub" /\ i.n = {31} /\ i.form = "asr" /\ NumberOf(i) = 31 /\ i.rs[1] = a /\ i.rs[2] = b /\ i.rs[3] = c
  BY Fields, SMT
<1>2. i.n # {} /\ i.op # "ldp" /\ i.op # "cmp" /\ i.op # "csel"
  BY <1>1, SMT
<1> HIDE DEF i
<1>3. InRange(i, 31)
  <2>1. 31 \in Bits(12) /\ 31 \in 0 .. (8 * i.rs[1].bytes - 1)
    BY <1>1, SMT DEF Bits
  <2> QED BY <1>1, <2>1, SMT DEF InRange
<1>4. Operand(i, s) = s[c.n] \div TwoTo[31]
  <2>1. Operand(i, s) = ShiftedRight(i.rs[3], s[i.rs[3].n], NumberOf(i))
    BY <1>1, <1>2, OperandIs, SMT
  <2>2. Operand(i, s) = ShiftedRight(c, s[c.n], 31)
    BY <1>1, <2>1, Zenon
  <2> QED BY <2>2 DEF ShiftedRight, Holds
<1>5. Result(i, s) = s[b.n] - (s[c.n] \div TwoTo[31])
  <2>1. Result(i, s) = s[i.rs[2].n] - Operand(i, s)
    BY <1>1, ResultIs, SMT
  <2> QED BY <1>1, <1>4, <2>1, Zenon
<1>6. Leads(<<i>>, s, With(s, a.n, s[b.n] - (s[c.n] \div TwoTo[31])))
  BY <1>1, <1>2, <1>3, <1>5, WithNumber, LineLeads, Zenon
<1> QED BY <1>6, Zenon DEF i
LEMMA AndLeads ==
  ASSUME NEW s, NEW a, NEW b, NEW k, k + 1 \in {2 ^ j : j \in 1 .. 30}
  PROVE  Leads(<<Imm("and", <<a, b>>, k)>>, s, With(s, a.n, s[b.n] % (k + 1)))
<1> DEFINE i == Imm("and", <<a, b>>, k)
<1>1. i.op = "and" /\ i.n = {k} /\ i.form = "plain" /\ NumberOf(i) = k /\ i.rs[1] = a /\ i.rs[2] = b
  BY Fields, SMT
<1>2. i.op # "ldp" /\ i.op # "cmp" /\ i.op # "csel"
  BY <1>1, SMT
<1> HIDE DEF i
<1>3. InRange(i, k)
  <2> DEFINE width == i.rs[1].bytes
             ones == {2 ^ j : j \in 1 .. 30}
  <2>1. k + 1 \in ones
    OBVIOUS
  <2> HIDE DEF width, ones
  <2> QED BY <1>1, <2>1, SMT DEF InRange, ones
<1>4. Result(i, s) = s[b.n] % (k + 1)
  BY <1>1, ResultIs, Zenon
<1>5. Leads(<<i>>, s, With(s, a.n, s[b.n] % (k + 1)))
  BY <1>1, <1>2, <1>3, <1>4, WithNumber, LineLeads, Zenon
<1> QED BY <1>5, Zenon DEF i
LEMMA PutLeads ==
  ASSUME NEW s, NEW a, NEW k \in Bits(16)
  PROVE  Leads(<<Imm("mov", <<a>>, k)>>, s, With(s, a.n, k))
<1> DEFINE i == Imm("mov", <<a>>, k)
<1>1. i.op = "mov" /\ i.n = {k} /\ i.form = "plain" /\ i.rs[1] = a
  BY Fields, SMT
<1>2. i.n # {} /\ i.op # "ldp" /\ i.op # "cmp" /\ i.op # "csel"
  BY <1>1, SMT
<1>3. Literal(i, s[a.n]) = k
  BY Moves, SMT
<1> HIDE DEF i
<1>4. InRange(i, k)
  <2> DEFINE width == i.rs[1].bytes
  <2> HIDE DEF width
  <2> QED BY <1>1, SMT DEF InRange
<1>5. Result(i, s) = k
  BY <1>1, <1>2, <1>3, ResultIs, Zenon
<1>6. Leads(<<i>>, s, With(s, a.n, k))
  BY <1>1, <1>2, <1>4, <1>5, WithNumber, LineLeads, Zenon
<1> QED BY <1>6, Zenon DEF i

----------------------------------------------------------------------------
(* The numbers in the lines: multipliers, shifts and powers of two.        *)

LEMMA RangesAre == HalfRange = 2147483648 /\ FullRange = 4294967296
BY SMT DEF HalfRange, FullRange
LEMMA WordsAre == /\ \A x : x \in Words <=> x \in Int /\ x >= -HalfRange /\ x < HalfRange
                  /\ \A x : x \in NonNegativeWords <=> x \in Nat /\ x < HalfRange
BY HalfRangeIsNat DEF Words, NonNegativeWords
LEMMA MultipliersFit ==
  \A m \in UnsignedMagic \cup SignedMagic \cup {Three} :
    /\ Multiplier(m) \in Words /\ WithoutSign(Multiplier(m)) = Whole(m)
    /\ Whole(m) \in Nat /\ Whole(m) < FullRange /\ m.shift \in Nat /\ m.shift <= 63
<1> DEFINE Short(m) == m.high \in Nat /\ m.high <= 65535 /\ m.low \in Nat /\ m.low <= 65535
           Low64(m) == m.shift \in Nat /\ m.shift <= 63
<1>1. \A m \in UnsignedMagic : Short(m) /\ Low64(m)
  BY SMT DEF UnsignedMagic, Magic
<1>2. \A m \in SignedMagic : Short(m) /\ Low64(m)
  BY SMT DEF SignedMagic, Magic
<1>3. Short(Three) /\ Low64(Three)
  BY SMT DEF Three, Magic
<1>4. ASSUME NEW h \in Nat, h <= 65535, NEW l \in Nat, l <= 65535,
             NEW n, n = 65536 * Signed16(h) + l, NEW w, w = 65536 * h + l
      PROVE  n \in Words /\ WithoutSign(n) = w /\ w \in Nat /\ w < FullRange
  <2>1. w \in Nat /\ w < FullRange
    BY <1>4, RangesAre, SMT
  <2>2. CASE h <= 32767
    <3>1. n = w
      BY <1>4, <2>2, SMT DEF Signed16
    <3>2. n \in Words
      BY <1>4, <2>2, <3>1, RangesAre, WordsAre, SMT
    <3>3. n % FullRange = w
      BY <2>1, <3>1, RangesAre, SMT
    <3> QED BY <2>1, <3>2, <3>3 DEF WithoutSign
  <2>3. CASE h > 32767
    <3>1. n = w - FullRange
      BY <1>4, <2>3, RangesAre, SMT DEF Signed16
    <3>2. n \in Words
      BY <1>4, <2>3, <3>1, RangesAre, WordsAre, SMT
    <3>3. n % FullRange = w
      BY <2>1, <3>1, RangesAre, SMT
    <3> QED BY <2>1, <3>2, <3>3 DEF WithoutSign
  <2> QED BY <1>4, <2>2, <2>3, SMT
<1>5. ASSUME NEW m, Short(m)
      PROVE  Multiplier(m) \in Words /\ WithoutSign(Multiplier(m)) = Whole(m) /\ Whole(m) \in Nat /\ Whole(m) < FullRange
  <2> DEFINE h == m.high
             l == m.low
             n == Multiplier(m)
             w == Whole(m)
  <2>1. h \in Nat /\ h <= 65535 /\ l \in Nat /\ l <= 65535
    BY <1>5, SMT
  <2>2. n = 65536 * Signed16(h) + l /\ w = 65536 * h + l
    BY SMT DEF Multiplier, Whole
  <2> HIDE DEF h, l, n, w
  <2>3. n \in Words /\ WithoutSign(n) = w /\ w \in Nat /\ w < FullRange
    BY <1>4, <2>1, <2>2, SMT
  <2> QED BY <2>3 DEF n, w
<1>6. \A m \in UnsignedMagic \cup SignedMagic \cup {Three} : Short(m) /\ Low64(m)
  <2> HIDE DEF Short, Low64
  <2> QED BY <1>1, <1>2, <1>3, Zenon
<1> QED
  <2>1. \A m : Low64(m) => m.shift \in Nat /\ m.shift <= 63
    OBVIOUS
  <2> HIDE DEF Short, Low64
  <2> QED BY <1>5, <1>6, <2>1, Zenon

LEMMA WordsAreThemselves ==
  \A x \in NonNegativeWords : x \in Words /\ x \in Int /\ x >= 0 /\ WithoutSign(x) = x
<1>1. ASSUME NEW x \in Nat, x < HalfRange PROVE x >= -HalfRange /\ x % FullRange = x
  BY <1>1, RangesAre, SMT
<1> QED BY <1>1, WordsAre, SMT DEF WithoutSign
LEMMA WordsAreIntegers == \A x \in Words : x \in Int /\ (~(x < 0) => x \in NonNegativeWords)
BY WordsAre, SMT

\* Wide products fit in 64 bits.
LEMMA ProductBelow ==
  ASSUME NEW a \in Nat, NEW b \in Nat, NEW c \in Nat \ {0}, NEW d \in Nat \ {0}, a <= c, b < d
  PROVE  a * b \in Nat /\ a * b < c * d
<1>1. b * a <= b * c
  OBVIOUS
<1>2. b * c < d * c
  OBVIOUS
<1>3. a * b = b * a /\ c * d = d * c /\ a * b \in Nat /\ b * c \in Int /\ d * c \in Int
  OBVIOUS
<1> QED BY <1>1, <1>2, <1>3
LEMMA ProductsFit ==
  /\ \A x \in NonNegativeWords : \A k \in Nat :
       k < FullRange => x * k \in Longs /\ x * k >= 0 /\ x * k \in Int
  /\ \A x \in Words : \A k \in Nat : k < FullRange => x * k \in Longs /\ x * k \in Int
<1> DEFINE H == HalfRange
           F == FullRange
<1>1. H \in Nat \ {0} /\ F \in Nat \ {0}
  BY SMT DEF HalfRange, FullRange
<1>2. Words = -H .. H - 1 /\ NonNegativeWords = 0 .. H - 1 /\ Longs = -(H * F) .. H * F - 1
  BY Zenon DEF Words, NonNegativeWords, Longs
<1> HIDE DEF H, F
<1>3. H * F \in Nat
  BY <1>1
<1>4. ASSUME NEW x \in 0 .. H, NEW k \in Nat, k < F PROVE x * k \in Nat /\ x * k < H * F
  BY <1>1, <1>4, ProductBelow
<1>5. ASSUME NEW x \in -H .. H - 1, NEW k \in Nat, k < F PROVE x * k \in Longs /\ x * k \in Int
  <2>1. CASE x >= 0
    <3>1. x \in 0 .. H
      BY <1>1, <2>1
    <3>2. x * k \in Nat /\ x * k < H * F
      BY <1>4, <1>5, <3>1
    <3> QED BY <1>2, <1>3, <3>2
  <2>2. CASE x < 0
    <3>1. -x \in 0 .. H /\ x * k = -((-x) * k)
      BY <1>1, <2>2
    <3>2. (-x) * k \in Nat /\ (-x) * k < H * F
      BY <1>4, <1>5, <3>1
    <3> QED BY <1>2, <1>3, <3>1, <3>2
  <2> QED BY <2>1, <2>2
<1>6. ASSUME NEW x \in 0 .. H - 1, NEW k \in Nat, k < F
      PROVE  x * k \in Longs /\ x * k >= 0 /\ x * k \in Int
  <2>1. x \in 0 .. H
    BY <1>1
  <2>2. x * k \in Nat /\ x * k < H * F
    BY <1>4, <1>6, <2>1
  <2> QED BY <1>2, <1>3, <2>2
<1>7. F = FullRange
  BY DEF F
<1> QED BY <1>2, <1>5, <1>6, <1>7, Zenon

\* What a shift by ShiftOf divides by, and the shift of a word's sign.
LEMMA PowersAreShifts ==
  /\ \A n \in Powers : /\ n \in Nat /\ n >= 1 /\ n < HalfRange
                       /\ TwoTo[ShiftOf(n)] = n /\ ShiftOf(n) \in 0 .. 31
  /\ TwoTo[31] = HalfRange
<1> DEFINE P(k) == 2 ^ k = TwoTo[k] /\ 2 ^ k \in Nat /\ 2 ^ k >= 1 /\ 2 ^ k < HalfRange
<1>1. TwoTo[0] = 1 /\ \A k \in 0 .. 62 : TwoTo[k + 1] = 2 * TwoTo[k]
  BY TwoToStep
<1>2. /\ TwoTo[0] = 1 /\ TwoTo[1] = 2 /\ TwoTo[2] = 4 /\ TwoTo[3] = 8
      /\ TwoTo[4] = 16 /\ TwoTo[5] = 32 /\ TwoTo[6] = 64 /\ TwoTo[7] = 128
  BY <1>1, SMT
<1>3. /\ TwoTo[8] = 256 /\ TwoTo[9] = 512 /\ TwoTo[10] = 1024 /\ TwoTo[11] = 2048
      /\ TwoTo[12] = 4096 /\ TwoTo[13] = 8192 /\ TwoTo[14] = 16384 /\ TwoTo[15] = 32768
  BY <1>1, <1>2, SMT
<1>4. /\ TwoTo[16] = 65536 /\ TwoTo[17] = 131072 /\ TwoTo[18] = 262144 /\ TwoTo[19] = 524288
      /\ TwoTo[20] = 1048576 /\ TwoTo[21] = 2097152 /\ TwoTo[22] = 4194304 /\ TwoTo[23] = 8388608
  BY <1>1, <1>3, SMT
<1>5. /\ TwoTo[24] = 16777216 /\ TwoTo[25] = 33554432 /\ TwoTo[26] = 67108864 /\ TwoTo[27] = 134217728
      /\ TwoTo[28] = 268435456 /\ TwoTo[29] = 536870912 /\ TwoTo[30] = 1073741824
      /\ TwoTo[31] = 2147483648
  BY <1>1, <1>4, SMT
<1>6. P(0) /\ P(1) /\ P(2) /\ P(3) /\ P(4) /\ P(5) /\ P(6) /\ P(7)
  BY <1>2, RangesAre, SMT
<1>7. P(8) /\ P(9) /\ P(10) /\ P(11) /\ P(12) /\ P(13) /\ P(14) /\ P(15)
  BY <1>3, RangesAre, SMT
<1>8. P(16) /\ P(17) /\ P(18) /\ P(19) /\ P(20) /\ P(21) /\ P(22) /\ P(23)
  BY <1>4, RangesAre, SMT
<1>9. P(24) /\ P(25) /\ P(26) /\ P(27) /\ P(28) /\ P(29) /\ P(30)
  BY <1>5, RangesAre, SMT
<1> HIDE DEF P
<1>10. \A k \in 0 .. 30 : P(k)
  BY <1>6, <1>7, <1>8, <1>9, SMT
<1>11. ASSUME NEW n \in Powers
      PROVE  n \in Nat /\ n >= 1 /\ n < HalfRange /\ TwoTo[ShiftOf(n)] = n /\ ShiftOf(n) \in 0 .. 31
  <2>1. \E k \in 0 .. 30 : 2 ^ k = n
    BY Zenon DEF Powers
  <2>2. ShiftOf(n) \in 0 .. 30 /\ 2 ^ ShiftOf(n) = n
    BY <2>1, Zenon DEF ShiftOf
  <2>3. P(ShiftOf(n))
    BY <1>10, <2>2, Zenon
  <2>4. ShiftOf(n) \in 0 .. 31
    BY <2>2
  <2> QED BY <2>2, <2>3, <2>4, Zenon DEF P
<1>12. TwoTo[31] = HalfRange
  BY <1>5, RangesAre, SMT
<1> QED BY <1>11, <1>12, Zenon

----------------------------------------------------------------------------
(* The quotients, as they are printed.                                     *)

LEMMA Names ==
  /\ w0.n = 0 /\ w1.n = 1 /\ w2.n = 2 /\ x0.n = 0
  /\ w0.bytes = 4 /\ w1.bytes = 4 /\ w2.bytes = 4 /\ x0.bytes = 8
  /\ \A k : Wreg(k).n = k /\ Wreg(k).bytes = 4 /\ Xreg(k).n = k /\ Xreg(k).bytes = 8
BY SMT DEF w0, w1, w2, x0, Wreg, Xreg
LEMMA Numbered == 0 \in 0 .. 31 /\ 1 \in 0 .. 31 /\ 2 \in 0 .. 31 /\ 0 # 1 /\ 0 # 2 /\ 1 # 2
OBVIOUS
LEMMA FourLines ==
  ASSUME NEW a, NEW b, NEW c, NEW d
  PROVE  <<a>> \o <<b, c, d>> = <<a, b, c, d>>
<1> DEFINE T == {a, b, c, d}
<1> DEFINE x == <<a>>
           y == <<b, c, d>>
           z == <<a, b, c, d>>
<1>1. /\ x \in Seq(T) /\ y \in Seq(T) /\ z \in Seq(T) /\ Len(x) = 1 /\ Len(y) = 3 /\ Len(z) = 4
      /\ x[1] = z[1] /\ z[2] = y[1] /\ z[3] = y[2] /\ z[4] = y[3]
  OBVIOUS
<1> HIDE DEF x, y, z, T
<1>2. /\ Len(z) = Len(x) + Len(y) /\ \A k \in 1 .. Len(x) : z[k] = x[k]
      /\ \A k \in 1 .. Len(y) : z[Len(x) + k] = y[k]
  BY <1>1, SMT
<1>3. x \o y = z
  BY <1>1, <1>2, JoinIs, Zenon
<1> QED BY <1>3 DEF x, y, z

\* The quotients are integers, and the shifts of the tables divide by
\* something.
LEMMA QuotientsAreIntegers ==
  ASSUME NEW m, Precise(m), NEW x \in Int
  PROVE  /\ m.divisor \in Nat \ {0} /\ TwoTo[m.shift] \in Nat \ {0}
         /\ x \div TwoTo[m.shift] \in Int /\ Truncated(x, m.divisor) \in Int
<1>1. m.divisor \in Nat \ {0} /\ TwoTo[m.shift] \in Nat \ {0}
  BY Zenon DEF Precise, Exact
<1>2. \A d \in Nat \ {0} : \A y \in Int : y \div d \in Int
  BY SMT
<1>3. -x \in Int
  OBVIOUS
<1>4. (-x) \div m.divisor \in Int /\ x \div m.divisor \in Int /\ x \div TwoTo[m.shift] \in Int
  BY <1>1, <1>2, <1>3, Zenon
<1>5. -((-x) \div m.divisor) \in Int
  BY <1>4
<1> QED BY <1>1, <1>4, <1>5, Zenon DEF Truncated

\* A quotient that the code generator takes with umull and lsr, of a dividend
\* that NonNegative found not to be negative, in any register but the one of
\* the multiplier: there is an instruction for each line of UnsignedQuotient,
\* and they leave the quotient of the language in register 0, for every such
\* dividend and every multiplier of the table (unsignedMagicDivisor,
\* emitImmediateBinary).
THEOREM UnsignedQuotientsAreRight ==
  ASSUME NEW m \in UnsignedMagic, NEW r, r.n \in 0 .. 31, r.n # 1, r.bytes = 4,
         NEW s \in Registers, s[r.n] \in NonNegativeWords
  PROVE  Yields(UnsignedQuotient(m, r), s, 0, Truncated(s[r.n], m.divisor), {1})
<1> DEFINE x == s[r.n]
           k == Multiplier(m)
           p == x * Whole(m)
           q == Truncated(x, m.divisor)
           s1 == With(s, 1, k)
           s2 == With(s1, 0, p)
           t == With(s2, 0, q)
           wide == Regs("umull", <<x0, r, w1>>)
           shift == Imm("lsr", <<x0, x0>>, m.shift)
<1>1. /\ k \in Words /\ WithoutSign(k) = Whole(m) /\ Whole(m) \in Nat /\ Whole(m) < FullRange
      /\ m.shift \in Nat /\ m.shift <= 63 /\ Precise(m)
  BY MultipliersFit, UnsignedPrecise, Zenon
<1>2. x \in Words /\ x \in Int /\ x >= 0 /\ WithoutSign(x) = x /\ k \in Int
  BY <1>1, WordsAreThemselves, WordsAreIntegers, Zenon
<1>3. p \in Longs /\ p >= 0 /\ p \in Int
  BY <1>1, ProductsFit, Zenon
<1>4. p \div TwoTo[m.shift] = q
  BY UnsignedArithmetic, Zenon DEF UnsignedResult
<1>5. q \in Int
  BY <1>1, <1>2, QuotientsAreIntegers, Zenon
<1> HIDE DEF x, k, p, q
<1>6. s1 \in Registers /\ s2 \in Registers /\ t \in Registers
  BY <1>2, <1>3, <1>5, Numbered, SetIn, Zenon
<1>7. s1[r.n] = x /\ s1[1] = k
  <2>1. r.n \in 0 .. 31 \ {1}
    OBVIOUS
  <2>2. s1[r.n] = s[r.n]
    BY <2>1, SetBeside, SMT
  <2>3. s1[1] = k
    BY SetAt, SMT
  <2> QED BY <2>2, <2>3, Zenon DEF x
<1>8. s2[0] = p /\ t[0] = q
  <2> HIDE DEF s1
  <2>1. s2[0] = p
    BY <1>6, SetAt, SMT
  <2> HIDE DEF s2
  <2> QED BY <1>6, <2>1, SetAt, SMT
<1> HIDE DEF s1
<1>9. Leads(<<wide>>, s1, s2)
  <2>1. s1[r.n] \in Words /\ s1[w1.n] \in Words /\ r.bytes = 4 /\ w1.bytes = 4
    BY <1>1, <1>2, <1>7, Names, Zenon
  <2>2. Leads(<<wide>>, s1, With(s1, x0.n, WithoutSign(s1[r.n]) * WithoutSign(s1[w1.n])))
    BY <2>1, WideLeads, Zenon
  <2>3. WithoutSign(s1[r.n]) * WithoutSign(s1[w1.n]) = p
    BY <1>1, <1>2, <1>7, Names, Zenon DEF p
  <2> QED BY <2>2, <2>3, Names, Zenon
<1> HIDE DEF s2
<1>10. Leads(<<shift>>, s2, t)
  <2>1. s2[x0.n] = p /\ Holds(x0, s2[x0.n]) /\ s2[x0.n] >= 0
    <3>1. 4 # 8
      OBVIOUS
    <3> QED BY <1>3, <1>8, <3>1, Names, Zenon DEF Holds
  <2>2. ShiftFits(x0, m.shift)
    BY <1>1, Names, SMT DEF ShiftFits
  <2>3. Leads(<<shift>>, s2, With(s2, x0.n, s2[x0.n] \div TwoTo[m.shift]))
    BY <2>1, <2>2, RightLeads, Zenon
  <2> QED BY <1>4, <2>1, <2>3, Names, Zenon
<1>11. Leads(LoadImmediate32(w1, k), s, s1)
  BY <1>1, Names, Numbered, LeadsLiteral, Zenon DEF s1
<1>12. Leads(UnsignedQuotient(m, r), s, t)
  <2> HIDE DEF wide, shift, t
  <2>1. <<wide>> \o <<shift>> = <<wide, shift>>
    BY Joined, Zenon
  <2>2. UnsignedQuotient(m, r) = LoadImmediate32(w1, k) \o <<wide, shift>>
    BY Zenon DEF UnsignedQuotient, wide, shift, k
  <2>3. Leads(<<wide, shift>>, s1, t)
    BY <1>9, <1>10, <2>1, LeadsBoth, Zenon
  <2> QED BY <1>11, <2>2, <2>3, LeadsBoth, Zenon
<1>13. ASSUME NEW j \in 0 .. 31 \ ({1} \cup {0}) PROVE t[j] = s[j]
  <2>1. j \in 0 .. 31 \ {0} /\ j \in 0 .. 31 \ {1}
    OBVIOUS
  <2>2. t[j] = s2[j]
    BY <1>6, <2>1, SetBeside, SMT
  <2>3. s2[j] = s1[j]
    BY <1>6, <2>1, SetBeside, SMT DEF s2
  <2>4. s1[j] = s[j]
    BY <2>1, SetBeside, SMT DEF s1
  <2> QED BY <2>2, <2>3, <2>4, Zenon
<1> HIDE DEF t
<1> QED BY <1>6, <1>8, <1>12, <1>13, Zenon DEF Yields, q, x

\* A quotient that the code generator takes with smull, asr and the dividend's
\* sign, of a dividend in a register r that the rounded product does not
\* overwrite: there is an instruction for each line of SignedQuotient, and they
\* leave the quotient of the language, rounded towards zero, in the register
\* asked for, for every word, the least one included, and every multiplier of
\* the table (signedMagicDivisor, emitImmediateBinary, and the division by
\* three).
THEOREM SignedQuotientsAreRight ==
  ASSUME NEW m \in SignedMagic \cup {Three},
         NEW r, r.n \in 0 .. 31, r.n # 1, r.bytes = 4, NEW to, to.n \in 0 .. 31, to.bytes = 4,
         NEW by \in 0 .. 31, by # r.n, NEW s \in Registers, s[r.n] \in Words
  PROVE  Yields(SignedQuotient(m, r, to, by), s, to.n, Truncated(s[r.n], m.divisor), {1, by})
<1> DEFINE x == s[r.n]
           k == Multiplier(m)
           p == x * k
           h == p \div TwoTo[m.shift]
           q == Truncated(x, m.divisor)
           s1 == With(s, 1, k)
           s2 == With(s1, by, p)
           s3 == With(s2, by, h)
           t == With(s3, to.n, q)
           wide == Regs("smull", <<Xreg(by), r, w1>>)
           shift == Imm("asr", <<Xreg(by), Xreg(by)>>, m.shift)
           sign == Shaped("sub", <<to, Wreg(by), r>>, "asr", 31)
<1>1. /\ k \in Words /\ k = Whole(m) /\ Whole(m) \in Nat /\ Whole(m) < FullRange
      /\ m.shift \in Nat /\ m.shift <= 63 /\ Precise(m)
  BY MultipliersFit, SignedPrecise, SignedAreWhole, Zenon
<1>2. x \in Words /\ x \in Int /\ k \in Int
  BY <1>1, WordsAreIntegers, Zenon
<1>3. p \in Longs /\ p \in Int
  BY <1>1, ProductsFit, Zenon
<1>4. h - (x \div TwoTo[31]) = q
  BY SignedArithmetic, PowersAreShifts, Zenon DEF SignedResult
<1>5. q \in Int /\ h \in Int
  BY <1>1, <1>2, <1>3, QuotientsAreIntegers, Zenon
<1> HIDE DEF x, k, p, h, q
<1>6. s1 \in Registers /\ s2 \in Registers /\ s3 \in Registers /\ t \in Registers
  BY <1>2, <1>3, <1>5, Numbered, SetIn, Zenon
<1> HIDE DEF s1, s2, s3, t
<1>7. s1[r.n] = x /\ s1[1] = k
  <2>1. s1[r.n] = x
    BY SetBeside, SMT DEF s1, x
  <2>2. s1[1] = k
    BY SetAt, SMT DEF s1
  <2> QED BY <2>1, <2>2, Zenon
<1>8. s2[by] = p /\ s3[by] = h /\ s3[r.n] = x
  <2>1. s2[by] = p
    BY <1>6, SetAt, SMT DEF s2
  <2>2. s3[by] = h
    BY <1>6, SetAt, SMT DEF s3
  <2>3. s2[r.n] = s1[r.n]
    BY <1>6, SetBeside, SMTT(30) DEF s2
  <2>4. s3[r.n] = s2[r.n]
    BY <1>6, SetBeside, SMTT(30) DEF s3
  <2> QED BY <1>7, <2>1, <2>2, <2>3, <2>4, Zenon
<1>9. t[to.n] = q
  BY <1>6, SetAt, SMT DEF t
<1>10. Leads(<<wide>>, s1, s2)
  <2>1. s1[r.n] \in Words /\ s1[w1.n] \in Words /\ r.bytes = 4 /\ w1.bytes = 4
    BY <1>1, <1>2, <1>7, Names, Zenon
  <2>2. Leads(<<wide>>, s1, With(s1, Xreg(by).n, s1[r.n] * s1[w1.n]))
    BY <2>1, WideLeads, Zenon
  <2> QED BY <1>7, <2>2, Names, Zenon DEF s2, p
<1>11. Leads(<<shift>>, s2, s3)
  <2> DEFINE y == Xreg(by)
  <2>1. y.n = by /\ y.bytes = 8
    BY Names, Zenon
  <2> HIDE DEF y
  <2>2. s2[y.n] = p /\ Holds(y, s2[y.n])
    <3>1. 4 # 8
      OBVIOUS
    <3> QED BY <1>3, <1>8, <2>1, <3>1, Zenon DEF Holds
  <2>3. ShiftFits(y, m.shift)
    BY <1>1, <2>1, SMT DEF ShiftFits
  <2>4. Leads(<<Imm("asr", <<y, y>>, m.shift)>>, s2, With(s2, y.n, s2[y.n] \div TwoTo[m.shift]))
    BY <2>2, <2>3, RightLeads, Zenon
  <2> QED BY <2>1, <2>2, <2>4, Zenon DEF y, s3, h
<1>12. Leads(<<sign>>, s3, t)
  <2>1. Wreg(by).n = by
    BY Names, Zenon
  <2>2. s3[r.n] \in Words
    BY <1>2, <1>8, Zenon
  <2>3. Leads(<<sign>>, s3, With(s3, to.n, s3[Wreg(by).n] - (s3[r.n] \div TwoTo[31])))
    BY <2>2, SignLeads, Zenon
  <2> QED BY <1>4, <1>8, <2>1, <2>3, Zenon DEF t
<1>13. Leads(LoadImmediate32(w1, k), s, s1)
  BY <1>1, Names, Numbered, LeadsLiteral, Zenon DEF s1
<1>14. Leads(SignedQuotient(m, r, to, by), s, t)
  <2> HIDE DEF wide, shift, sign
  <2>1. <<wide>> \o <<shift>> = <<wide, shift>> /\ <<wide, shift>> \o <<sign>> = <<wide, shift, sign>>
    BY Joined, Zenon
  <2>2. SignedQuotient(m, r, to, by) = LoadImmediate32(w1, k) \o <<wide, shift, sign>>
    BY Zenon DEF SignedQuotient, wide, shift, sign, k
  <2>3. Leads(<<wide, shift>>, s1, s3)
    BY <1>10, <1>11, <2>1, LeadsBoth, Zenon
  <2>4. Leads(<<wide, shift, sign>>, s1, t)
    BY <1>12, <2>1, <2>3, LeadsBoth, Zenon
  <2> QED BY <1>13, <2>2, <2>4, LeadsBoth, Zenon
<1>15. ASSUME NEW j \in 0 .. 31 \ ({1, by} \cup {to.n}) PROVE t[j] = s[j]
  <2>1. j \in 0 .. 31 \ {to.n} /\ j \in 0 .. 31 \ {1} /\ j \in 0 .. 31 \ {by}
    OBVIOUS
  <2>2. t[j] = s3[j]
    BY <1>6, <2>1, SetBeside, SMT DEF t
  <2>3. s3[j] = s2[j]
    BY <1>6, <2>1, SetBeside, SMT DEF s3
  <2>4. s2[j] = s1[j]
    BY <1>6, <2>1, SetBeside, SMT DEF s2
  <2>5. s1[j] = s[j]
    BY <2>1, SetBeside, SMT DEF s1
  <2> QED BY <2>2, <2>3, <2>4, <2>5, Zenon
<1> QED BY <1>6, <1>9, <1>14, <1>15, Zenon DEF Yields, q, x

\* The sign of the divisor, last.
LEMMA ThenNegated ==
  ASSUME NEW lines, NEW s, NEW v \in Int, NEW scratch, NEW imm \in Int, Yields(lines, s, 0, v, scratch)
  PROVE  Yields(lines \o Negated(imm), s, 0, IF imm < 0 THEN -v ELSE v, scratch)
<1>1. PICK t \in Registers : Leads(lines, s, t) /\ t[0] = v /\ \A j \in 0 .. 31 \ (scratch \cup {0}) : t[j] = s[j]
  BY Zenon DEF Yields
<1>2. CASE imm < 0
  <2> DEFINE u == With(t, 0, -v)
  <2>1. Negated(imm) = <<Regs("neg", <<w0, w0>>)>>
    BY <1>2, Zenon DEF Negated
  <2>2. Leads(<<Regs("neg", <<w0, w0>>)>>, t, u)
    <3>1. Leads(<<Regs("neg", <<w0, w0>>)>>, t, With(t, w0.n, -t[w0.n]))
      BY NegLeads, Zenon
    <3> QED BY <1>1, <3>1, Names, Zenon
  <2>3. Leads(lines \o Negated(imm), s, u)
    BY <1>1, <2>1, <2>2, LeadsBoth, Zenon
  <2>4. u \in Registers
    <3>1. -v \in Int
      OBVIOUS
    <3> QED BY <3>1, Numbered, SetIn, Zenon
  <2>5. u[0] = -v
    BY SetAt, SMT
  <2>6. ASSUME NEW j \in 0 .. 31 \ (scratch \cup {0}) PROVE u[j] = s[j]
    <3>1. j \in 0 .. 31 \ {0}
      OBVIOUS
    <3>2. u[j] = t[j]
      BY <3>1, SetBeside, SMT
    <3> QED BY <1>1, <3>2, Zenon
  <2> HIDE DEF u
  <2> QED BY <1>2, <2>3, <2>4, <2>5, <2>6, Zenon DEF Yields
<1>3. CASE ~(imm < 0)
  <2>1. Negated(imm) = <<>>
    BY <1>3, Zenon DEF Negated
  <2>2. Leads(lines \o Negated(imm), s, t)
    BY <1>1, <2>1, LeadsNone, LeadsBoth, Zenon
  <2> QED BY <1>1, <1>3, <2>2, Zenon DEF Yields
<1> QED BY <1>2, <1>3, Zenon

\* A dividend with one less than a power of two added when it is negative.
LEMMA Rounding ==
  ASSUME NEW n \in Powers, NEW x \in Words
  PROVE  /\ n - 1 \in Words /\ n - 1 \in Int /\ x + (n - 1) \in Int /\ (x < 0 => x + (n - 1) \in Words)
         /\ (IF x < 0 THEN x + (n - 1) ELSE x) \in Words
         /\ (IF x < 0 THEN x + (n - 1) ELSE x) \div TwoTo[ShiftOf(n)] = Truncated(x, n)
         /\ Truncated(x, n) \in Int /\ n \in Words /\ n \in Nat
<1>1. n \in Nat /\ n >= 1 /\ n < HalfRange /\ TwoTo[ShiftOf(n)] = n /\ HalfRange \in Nat
  BY PowersAreShifts, HalfRangeIsNat, Zenon
<1>2. x \in Int /\ x >= -HalfRange /\ x < HalfRange
  BY WordsAre, Zenon
<1>3. n - 1 \in Int /\ n - 1 >= -HalfRange /\ n - 1 < HalfRange /\ n \in Int /\ n >= -HalfRange
  BY <1>1
<1>4. x + (n - 1) \in Int /\ (x < 0 => x + (n - 1) >= -HalfRange /\ x + (n - 1) < HalfRange)
  BY <1>1, <1>2
<1>5. n - 1 \in Words /\ n \in Words /\ (x < 0 => x + (n - 1) \in Words)
  BY <1>1, <1>3, <1>4, WordsAre, Zenon
<1>6. PowerResult(n, x) = Truncated(x, n)
  <2>1. n \in Nat \ {0}
    BY <1>1
  <2> QED BY <1>2, <2>1, PowerArithmetic, Zenon
<1>7. Truncated(x, n) \in Int
  BY <1>1, <1>2, SMT DEF Truncated
<1> QED BY <1>1, <1>3, <1>4, <1>5, <1>6, <1>7, Zenon DEF PowerResult

\* A quotient by a power of two, of any word, or of one that NonNegative found
\* not to be negative: there is an instruction for each line that
\* emitSignedPowerOfTwoDiv prints, and they leave the quotient of the language
\* in register 0 and change no other but number 1, for every power of the
\* model and both signs of the divisor.
THEOREM PowersAreRight ==
  ASSUME NEW imm \in Int, Magnitude(imm) \in Powers, NEW nonNegative \in BOOLEAN,
         NEW s \in Registers, s[0] \in IF nonNegative THEN NonNegativeWords ELSE Words
  PROVE  Yields(PowerOfTwoDiv(imm, nonNegative).lines, s, 0, Quotient(s[0], imm), {1})
<1> DEFINE n == Magnitude(imm)
           x == s[0]
           q == Truncated(x, n)
           c == ShiftOf(n)
           y == IF x < 0 THEN x + (n - 1) ELSE x
<1>1. x \in Words
  BY WordsAreThemselves, Zenon
<1>2. /\ n - 1 \in Words /\ n - 1 \in Int /\ x + (n - 1) \in Int /\ y \in Words
      /\ y \div TwoTo[c] = q /\ q \in Int
  BY <1>1, Rounding, Zenon
<1>3. ShiftFits(w0, c)
  <2>1. c \in 0 .. 31
    BY PowersAreShifts, Zenon
  <2> QED BY <2>1, Names, SMT DEF ShiftFits
<1>4. (IF imm < 0 THEN -q ELSE q) = Quotient(x, imm)
  BY SMT DEF Quotient, Magnitude
<1>5. \A v \in Words : Holds(w0, v)
  BY Names, Zenon DEF Holds
<1> HIDE DEF n, x, q, c, y
<1>6. ASSUME nonNegative
      PROVE  Yields(<<Imm("lsr", <<w0, w0>>, c)>>, s, 0, q, {1})
  <2> DEFINE t == With(s, 0, q)
  <2>1. x >= 0 /\ ~(x < 0)
    <3>1. x \in NonNegativeWords
      BY <1>6, Zenon DEF x
    <3>2. x >= 0 /\ x \in Int
      BY <3>1, WordsAreThemselves, Zenon
    <3> QED BY <3>2
  <2>2. y = x
    BY <2>1, Zenon DEF y
  <2>3. s[w0.n] = x
    BY Names, Zenon DEF x
  <2>4. Leads(<<Imm("lsr", <<w0, w0>>, c)>>, s, With(s, w0.n, s[w0.n] \div TwoTo[c]))
    BY <1>1, <1>3, <1>5, <2>1, <2>3, RightLeads, Zenon
  <2>5. Leads(<<Imm("lsr", <<w0, w0>>, c)>>, s, t)
    BY <1>2, <2>2, <2>3, <2>4, Names, Zenon
  <2>6. t \in Registers
    BY <1>2, Numbered, SetIn, Zenon
  <2>7. t[0] = q
    BY SetAt, SMT
  <2>8. ASSUME NEW j \in 0 .. 31 \ ({1} \cup {0}) PROVE t[j] = s[j]
    BY SetBeside, SMT
  <2> HIDE DEF t
  <2> QED BY <2>5, <2>6, <2>7, <2>8, Zenon DEF Yields
<1>7. Yields(LoadImmediate32(w1, n - 1)
             \o <<Regs("add", <<w1, w0, w1>>), Imm("cmp", <<w0>>, 0),
                  Cond("csel", <<w0, w1, w0>>, "lt"), Imm("asr", <<w0, w0>>, c)>>, s, 0, q, {1})
  <2> DEFINE s1 == With(s, 1, n - 1)
             s2 == With(s1, 1, x + (n - 1))
             s3 == With(s2, 0, y)
             t == With(s3, 0, q)
             sum == Regs("add", <<w1, w0, w1>>)
             test == Imm("cmp", <<w0>>, 0)
             choice == Cond("csel", <<w0, w1, w0>>, "lt")
             shift == Imm("asr", <<w0, w0>>, c)
  <2>1. s1 \in Registers /\ s2 \in Registers /\ s3 \in Registers /\ t \in Registers
    BY <1>2, WordsAreIntegers, Numbered, SetIn, Zenon
  <2> HIDE DEF s1, s2, s3, t
  <2>2. s1[0] = x /\ s1[1] = n - 1
    <3>1. s1[0] = x
      BY SetBeside, SMT DEF s1, x
    <3>2. s1[1] = n - 1
      BY SetAt, SMT DEF s1
    <3> QED BY <3>1, <3>2, Zenon
  <2>3. s2[0] = x /\ s2[1] = x + (n - 1)
    <3>1. s2[0] = s1[0]
      BY <2>1, SetBeside, SMT DEF s2
    <3>2. s2[1] = x + (n - 1)
      BY <2>1, SetAt, SMT DEF s2
    <3> QED BY <2>2, <3>1, <3>2, Zenon
  <2>4. s3[0] = y
    BY <2>1, SetAt, SMT DEF s3
  <2>5. t[0] = q
    BY <2>1, SetAt, SMT DEF t
  <2>6. Leads(LoadImmediate32(w1, n - 1), s, s1)
    BY <1>2, Names, Numbered, LeadsLiteral, Zenon DEF s1
  <2>7. Leads(<<sum>>, s1, s2)
    <3>1. Leads(<<sum>>, s1, With(s1, w1.n, s1[w0.n] + s1[w1.n]))
      BY AddLeads, Zenon
    <3> QED BY <2>2, <3>1, Names, Zenon DEF s2
  <2>8. Leads(<<test, choice>>, s2, s3)
    <3>1. s2[w0.n] = x /\ s2[w1.n] = x + (n - 1)
      BY <2>3, Names, Zenon
    <3>2. s2[w0.n] \in Words /\ w0.bytes = 4
      BY <1>1, <3>1, Names, Zenon
    <3>3. Leads(<<test, choice>>, s2, With(s2, w0.n, IF s2[w0.n] < 0 THEN s2[w1.n] ELSE s2[w0.n]))
      BY <3>2, LeadsChoice, Zenon
    <3> QED BY <3>1, <3>3, Names, Zenon DEF s3, y
  <2>9. Leads(<<shift>>, s3, t)
    <3>1. s3[w0.n] = y
      BY <2>4, Names, Zenon
    <3>2. Leads(<<shift>>, s3, With(s3, w0.n, s3[w0.n] \div TwoTo[c]))
      BY <1>2, <1>3, <1>5, <3>1, RightLeads, Zenon
    <3> QED BY <1>2, <3>1, <3>2, Names, Zenon DEF t
  <2> HIDE DEF sum, test, choice, shift
  <2>10. <<test, choice>> \o <<shift>> = <<test, choice, shift>>
         /\ <<sum>> \o <<test, choice, shift>> = <<sum, test, choice, shift>>
    <3>1. <<test, choice>> \o <<shift>> = <<test, choice, shift>>
      BY Joined, Zenon
    <3>2. <<sum>> \o <<test, choice, shift>> = <<sum, test, choice, shift>>
      BY FourLines, Zenon
    <3> QED BY <3>1, <3>2, Zenon
  <2>11. Leads(<<test, choice, shift>>, s2, t)
    BY <2>8, <2>9, <2>10, LeadsBoth, Zenon
  <2>12. Leads(<<sum, test, choice, shift>>, s1, t)
    BY <2>7, <2>10, <2>11, LeadsBoth, Zenon
  <2>13. Leads(LoadImmediate32(w1, n - 1) \o <<sum, test, choice, shift>>, s, t)
    BY <2>6, <2>12, LeadsBoth, Zenon
  <2>14. ASSUME NEW j \in 0 .. 31 \ ({1} \cup {0}) PROVE t[j] = s[j]
    <3>1. j \in 0 .. 31 \ {0} /\ j \in 0 .. 31 \ {1}
      OBVIOUS
    <3>2. t[j] = s3[j]
      BY <2>1, <3>1, SetBeside, SMT DEF t
    <3>3. s3[j] = s2[j]
      BY <2>1, <3>1, SetBeside, SMT DEF s3
    <3>4. s2[j] = s1[j]
      BY <2>1, <3>1, SetBeside, SMT DEF s2
    <3>5. s1[j] = s[j]
      BY <3>1, SetBeside, SMT DEF s1
    <3> QED BY <3>2, <3>3, <3>4, <3>5, Zenon
  <2> QED BY <2>1, <2>5, <2>13, <2>14, Zenon DEF Yields, sum, test, choice, shift
<1> DEFINE body == IF nonNegative THEN <<Imm("lsr", <<w0, w0>>, c)>>
                   ELSE LoadImmediate32(w1, n - 1)
                        \o <<Regs("add", <<w1, w0, w1>>), Imm("cmp", <<w0>>, 0),
                             Cond("csel", <<w0, w1, w0>>, "lt"), Imm("asr", <<w0, w0>>, c)>>
<1>8. Yields(body, s, 0, q, {1})
  BY <1>6, <1>7, Zenon
<1>9. PowerOfTwoDiv(imm, nonNegative).lines = body \o Negated(imm)
  <2>1. PowerOfTwoDiv(imm, nonNegative) = Way({0}, body \o Negated(imm))
    BY Zenon DEF PowerOfTwoDiv, n, c
  <2> HIDE DEF body
  <2> QED BY <2>1, SMT DEF Way
<1> HIDE DEF body
<1> QED BY <1>2, <1>4, <1>8, <1>9, ThenNegated, Zenon DEF x

LEMMA SameScratch ==
  ASSUME NEW lines, NEW s, NEW k, NEW v, NEW a, NEW b, Yields(lines, s, k, v, a), a \cup {k} \subseteq b \cup {k}
  PROVE  Yields(lines, s, k, v, b)
<1>1. PICK t \in Registers : Leads(lines, s, t) /\ t[k] = v /\ \A j \in 0 .. 31 \ (a \cup {k}) : t[j] = s[j]
  BY Zenon DEF Yields
<1>2. \A j \in 0 .. 31 \ (b \cup {k}) : j \in 0 .. 31 \ (a \cup {k})
  OBVIOUS
<1> QED BY <1>1, <1>2, Zenon DEF Yields

\* The ways to divide, for one constant at a time.
LEMMA DivWaysAre ==
  ASSUME NEW imm \in Int, NEW nonNegative \in BOOLEAN, NEW way \in DivWays(imm, nonNegative)
  PROVE  LET n == Magnitude(imm) IN
         \/ n = 1 /\ way = Way({0}, Negated(imm))
         \/ n \in Powers /\ way = PowerOfTwoDiv(imm, nonNegative)
         \/ nonNegative /\ imm > 1 /\ \E m \in UnsignedMagic :
              m.divisor = imm /\ way = Way({0}, UnsignedQuotient(m, w0))
         \/ \E m \in SignedMagic : m.divisor = n /\ way = Way({0}, SignedQuotient(m, w0, w0, 1) \o Negated(imm))
         \/ n = 3 /\ way = Way({2}, SignedQuotient(Three, w2, w0, 0) \o Negated(imm))
<1> DEFINE n == Magnitude(imm)
           unsigned == IF nonNegative /\ imm > 1 THEN MagicFor(UnsignedMagic, imm) ELSE {}
           signed == MagicFor(SignedMagic, n)
<1>1. \A m \in unsigned : nonNegative /\ imm > 1 /\ m \in UnsignedMagic /\ m.divisor = imm
  BY Zenon DEF MagicFor
<1>2. \A m \in signed : m \in SignedMagic /\ m.divisor = n
  BY Zenon DEF MagicFor
<1>3. way \in (IF n = 1 THEN {Way({0}, Negated(imm))}
               ELSE IF n \in Powers THEN {PowerOfTwoDiv(imm, nonNegative)}
               ELSE IF unsigned # {} THEN {Way({0}, UnsignedQuotient(m, w0)) : m \in unsigned}
               ELSE IF signed # {} THEN {Way({0}, SignedQuotient(m, w0, w0, 1) \o Negated(imm)) : m \in signed}
               ELSE IF n = 3 THEN {Way({2}, SignedQuotient(Three, w2, w0, 0) \o Negated(imm))}
               ELSE {})
  BY Zenon DEF DivWays
<1> HIDE DEF unsigned, signed
<1> QED BY <1>1, <1>2, <1>3, Zenon
LEMMA WayIs == \A w, l : Way(w, l).wanted = w /\ Way(w, l).lines = l
BY SMT DEF Way
LEMMA WayWants ==
  ASSUME NEW way, NEW k, way.wanted = {k}, NEW s, NEW x, Ready(way, s, x)
  PROVE  s[k] = x
BY SMT DEF Ready

\* Dividing by one.
LEMMA ByOne ==
  ASSUME NEW imm \in Int, Magnitude(imm) = 1, NEW x \in Int
  PROVE  Quotient(x, imm) = (IF imm < 0 THEN -x ELSE x) /\ Quotient(x, imm) * imm = x
<1>1. Truncated(x, 1) = x
  BY SMT DEF Truncated
<1>2. CASE imm < 0
  <2>1. -imm = 1
    BY <1>2, Zenon DEF Magnitude
  <2>2. Quotient(x, imm) = -x
    BY <1>1, <1>2, <2>1, Zenon DEF Quotient
  <2>3. ASSUME NEW y \in Int, y = -x PROVE y * imm = x
    BY <2>1, <2>3
  <2>4. -x \in Int
    OBVIOUS
  <2> QED BY <1>2, <2>2, <2>3, <2>4, Zenon
<1>3. CASE ~(imm < 0)
  <2>1. imm = 1
    BY <1>3, Zenon DEF Magnitude
  <2>2. Quotient(x, imm) = x
    BY <1>1, <1>3, <2>1, Zenon DEF Quotient
  <2> QED BY <1>3, <2>1, <2>2, SMT
<1> QED BY <1>2, <1>3, Zenon
LEMMA QuotientBySign ==
  ASSUME NEW imm \in Int, NEW x
  PROVE  Quotient(x, imm) = IF imm < 0 THEN -Truncated(x, Magnitude(imm)) ELSE Truncated(x, Magnitude(imm))
BY SMT DEF Quotient, Magnitude

\* Whatever the constant a program divides by: if emitImmediateBinary has a way
\* of its own to divide by it, the lines it prints assemble and leave the
\* quotient of the language in register 0, and change no other but number 1,
\* for every word the dividend can be and whatever was in the others.
THEOREM QuotientsAreRight ==
  ASSUME NEW imm \in Int, NEW nonNegative \in BOOLEAN, NEW way \in DivWays(imm, nonNegative),
         NEW x \in IF nonNegative THEN NonNegativeWords ELSE Words,
         NEW s \in Registers, Ready(way, s, x)
  PROVE  Yields(way.lines, s, 0, Quotient(x, imm), {1})
<1> DEFINE n == Magnitude(imm)
           q == Truncated(x, n)
<1>1. x \in Words /\ x \in Int
  BY WordsAreThemselves, WordsAreIntegers, Zenon
<1>2. Quotient(x, imm) = IF imm < 0 THEN -q ELSE q
  BY QuotientBySign, Zenon
<1> HIDE DEF q
<1>3. ASSUME n = 1, way = Way({0}, Negated(imm)) PROVE Yields(way.lines, s, 0, Quotient(x, imm), {1})
  <2>1. way.lines = Negated(imm) /\ s[0] = x
    <3>1. way.lines = Negated(imm) /\ way.wanted = {0}
      BY <1>3, WayIs, Zenon
    <3> QED BY <3>1, WayWants, Zenon
  <2>2. Yields(<<>>, s, 0, x, {1})
    BY <2>1, LeadsNone, Zenon DEF Yields
  <2>3. Yields(<<>> \o Negated(imm), s, 0, IF imm < 0 THEN -x ELSE x, {1})
    BY <1>1, <2>2, ThenNegated, Zenon
  <2>4. <<>> \o Negated(imm) = Negated(imm)
    <3>1. <<>> \o <<Regs("neg", <<w0, w0>>)>> = <<Regs("neg", <<w0, w0>>)>> /\ <<>> \o <<>> = <<>>
      BY Joined, Zenon
    <3> QED BY <3>1, Zenon DEF Negated
  <2>5. Quotient(x, imm) = IF imm < 0 THEN -x ELSE x
    BY <1>1, <1>3, ByOne, Zenon
  <2> QED BY <2>1, <2>3, <2>4, <2>5, Zenon
<1>4. ASSUME n \in Powers, way = PowerOfTwoDiv(imm, nonNegative)
      PROVE  Yields(way.lines, s, 0, Quotient(x, imm), {1})
  <2>1. way.wanted = {0}
    BY <1>4, WayIs, Zenon DEF PowerOfTwoDiv
  <2>2. s[0] = x
    BY <2>1, WayWants, Zenon
  <2> QED BY <1>4, <2>2, PowersAreRight, Zenon
<1>5. ASSUME nonNegative, imm > 1, NEW m \in UnsignedMagic, m.divisor = imm, way = Way({0}, UnsignedQuotient(m, w0))
      PROVE  Yields(way.lines, s, 0, Quotient(x, imm), {1})
  <2>1. way.lines = UnsignedQuotient(m, w0) /\ s[0] = x
    <3>1. way.lines = UnsignedQuotient(m, w0) /\ way.wanted = {0}
      BY <1>5, WayIs, Zenon
    <3> QED BY <3>1, WayWants, Zenon
  <2>2. w0.n \in 0 .. 31 /\ w0.n # 1 /\ w0.bytes = 4 /\ s[w0.n] = x /\ x \in NonNegativeWords
    BY <1>5, <2>1, Names, Numbered, Zenon
  <2>3. Yields(UnsignedQuotient(m, w0), s, 0, Truncated(x, m.divisor), {1})
    BY <2>2, UnsignedQuotientsAreRight, Zenon
  <2>4. Truncated(x, m.divisor) = Quotient(x, imm)
    BY <1>5, SMT DEF Quotient
  <2> QED BY <2>1, <2>3, <2>4, Zenon
<1>6. ASSUME NEW m \in SignedMagic, m.divisor = n, way = Way({0}, SignedQuotient(m, w0, w0, 1) \o Negated(imm))
      PROVE  Yields(way.lines, s, 0, Quotient(x, imm), {1})
  <2>1. way.lines = SignedQuotient(m, w0, w0, 1) \o Negated(imm) /\ s[0] = x
    <3>1. way.lines = SignedQuotient(m, w0, w0, 1) \o Negated(imm) /\ way.wanted = {0}
      BY <1>6, WayIs, Zenon
    <3> QED BY <3>1, WayWants, Zenon
  <2>2. w0.n = 0 /\ w0.n \in 0 .. 31 /\ w0.n # 1 /\ w0.bytes = 4 /\ s[w0.n] \in Words /\ 1 \in 0 .. 31 /\ 1 # w0.n
    BY <1>1, <2>1, Names, Numbered, Zenon
  <2>3. Yields(SignedQuotient(m, w0, w0, 1), s, 0, Truncated(x, m.divisor), {1, 1})
    BY <2>1, <2>2, SignedQuotientsAreRight, Zenon
  <2>4. Yields(SignedQuotient(m, w0, w0, 1), s, 0, q, {1}) /\ q \in Int
    <3>1. {1, 1} = {1}
      OBVIOUS
    <3>2. Truncated(x, m.divisor) = q
      BY <1>6, Zenon DEF q
    <3>3. Truncated(x, m.divisor) \in Int
      BY <1>1, SignedPrecise, QuotientsAreIntegers, Zenon
    <3> QED BY <2>3, <3>1, <3>2, <3>3, Zenon
  <2> QED BY <1>2, <2>1, <2>4, ThenNegated, Zenon
<1>7. ASSUME n = 3, way = Way({2}, SignedQuotient(Three, w2, w0, 0) \o Negated(imm))
      PROVE  Yields(way.lines, s, 0, Quotient(x, imm), {1})
  <2>1. way.lines = SignedQuotient(Three, w2, w0, 0) \o Negated(imm) /\ s[2] = x
    <3> DEFINE l == SignedQuotient(Three, w2, w0, 0) \o Negated(imm)
    <3>0. way = Way({2}, l)
      BY <1>7, Zenon
    <3> HIDE DEF l
    <3>1. way.lines = l /\ way.wanted = {2}
      BY <3>0, WayIs, Zenon
    <3> QED BY <3>1, WayWants, Zenon DEF l
  <2>2. /\ w0.n = 0 /\ w0.n \in 0 .. 31 /\ w0.bytes = 4 /\ w2.n = 2 /\ w2.n \in 0 .. 31 /\ w2.n # 1 /\ w2.bytes = 4
        /\ s[w2.n] \in Words /\ 0 \in 0 .. 31 /\ 0 # w2.n
    BY <1>1, <2>1, Names, Numbered, Zenon
  <2>3. Three \in SignedMagic \cup {Three} /\ Three.divisor = n
    <3>1. Three.divisor = 3
      BY SMT DEF Three, Magic
    <3> QED BY <1>7, <3>1, Zenon
  <2>4. Yields(SignedQuotient(Three, w2, w0, 0), s, 0, Truncated(x, Three.divisor), {1, 0})
    BY <2>1, <2>2, <2>3, SignedQuotientsAreRight, Zenon
  <2>5. Yields(SignedQuotient(Three, w2, w0, 0), s, 0, q, {1}) /\ q \in Int
    <3>1. {1, 0} \cup {0} \subseteq {1} \cup {0}
      OBVIOUS
    <3>2. Truncated(x, Three.divisor) = q
      BY <2>3, Zenon DEF q
    <3>3. Truncated(x, Three.divisor) \in Int
      BY <1>1, <2>3, SignedPrecise, QuotientsAreIntegers, Zenon
    <3> QED BY <2>4, <3>1, <3>2, <3>3, SameScratch, Zenon
  <2> QED BY <1>2, <2>1, <2>5, ThenNegated, Zenon
<1> QED BY <1>3, <1>4, <1>5, <1>6, <1>7, DivWaysAre, Zenon

----------------------------------------------------------------------------
(* The remainders, as they are printed.                                    *)

LEMMA RemainderBySign ==
  ASSUME NEW imm \in Int, NEW x \in Int, Truncated(x, Magnitude(imm)) \in Int
  PROVE  Remainder(x, imm) = x - Truncated(x, Magnitude(imm)) * Magnitude(imm)
<1> DEFINE q == Truncated(x, Magnitude(imm))
<1>1. q \in Int /\ Quotient(x, imm) = IF imm < 0 THEN -q ELSE q
  BY QuotientBySign, Zenon
<1> HIDE DEF q
<1>2. (IF imm < 0 THEN -q ELSE q) * imm = q * Magnitude(imm)
  <2>1. CASE imm < 0
    <3>1. (-q) * imm = q * (-imm)
      BY <1>1
    <3> QED BY <2>1, <3>1, Zenon DEF Magnitude
  <2>2. CASE ~(imm < 0)
    BY <2>2, Zenon DEF Magnitude
  <2> QED BY <2>1, <2>2, Zenon
<1> QED BY <1>1, <1>2, Zenon DEF Remainder, q

\* The last lines of a remainder: the divisor d goes into a register, and the
\* product with the quotient comes off the dividend.
Rested(head, literal, s, t, a, b, c, v) ==
  \E u \in Registers :
    /\ Leads((head \o literal) \o <<Regs("msub", <<w0, a, b, c>>)>>, s, u)
    /\ Leads(head \o (literal \o <<Regs("msub", <<w0, a, b, c>>)>>), s, u)
    /\ u[0] = v /\ \A j \in 0 .. 31 \ {0, b.n} : u[j] = t[j]
LEMMA ThenRest ==
  ASSUME NEW head, NEW literal, NEW s, NEW t \in Registers, Leads(head, s, t),
         NEW a, NEW b, NEW c, a.n \in 0 .. 31, b.n \in 0 .. 31, c.n \in 0 .. 31, b.n # a.n, b.n # c.n,
         NEW q \in Int, NEW d \in Int, NEW x \in Int, t[a.n] = q, t[c.n] = x,
         Leads(literal, t, With(t, b.n, d))
  PROVE  Rested(head, literal, s, t, a, b, c, x - q * d)
<1> DEFINE rest == Regs("msub", <<w0, a, b, c>>)
           v == With(t, b.n, d)
           z == x - q * d
           u == With(v, 0, z)
<1>1. z \in Int
  OBVIOUS
<1> HIDE DEF z
<1>2. v \in Registers /\ u \in Registers
  BY <1>1, Numbered, SetIn, Zenon
<1>3. v[a.n] = q /\ v[c.n] = x /\ v[b.n] = d
  <2>1. v[a.n] = q
    BY SetBeside, SMTT(30)
  <2>2. v[c.n] = x
    BY SetBeside, SMTT(30)
  <2>3. v[b.n] = d
    BY SetAt, SMT
  <2> QED BY <2>1, <2>2, <2>3, Zenon
<1> HIDE DEF v
<1>4. Leads(<<rest>>, v, u)
  <2>1. Leads(<<rest>>, v, With(v, w0.n, v[c.n] - v[a.n] * v[b.n]))
    BY MsubLeads, Zenon
  <2> QED BY <1>3, <2>1, Names, Zenon DEF z
<1>5. u[0] = z
  BY <1>2, SetAt, SMT
<1>6. ASSUME NEW j \in 0 .. 31 \ {0, b.n} PROVE u[j] = t[j]
  <2>1. j \in 0 .. 31 \ {0} /\ j \in 0 .. 31 \ {b.n}
    OBVIOUS
  <2>2. u[j] = v[j]
    BY <1>2, <2>1, SetBeside, SMT
  <2>3. v[j] = t[j]
    BY <2>1, SetBeside, SMT DEF v
  <2> QED BY <2>2, <2>3, Zenon
<1> HIDE DEF u, rest
<1>7. Leads(head \o literal, s, v) /\ Leads(literal \o <<rest>>, t, u)
  BY <1>4, LeadsBoth, Zenon DEF v
<1>8. Leads((head \o literal) \o <<rest>>, s, u) /\ Leads(head \o (literal \o <<rest>>), s, u)
  BY <1>4, <1>7, LeadsBoth, Zenon
<1> QED BY <1>2, <1>5, <1>6, <1>8, Zenon DEF rest, z, Rested

\* The mask that is left of a word that is not negative.
LEMMA MaskIs ==
  ASSUME NEW n \in Powers, n # 1, NEW x \in NonNegativeWords
  PROVE  /\ (n - 1) + 1 = n /\ n \in {2 ^ j : j \in 1 .. 30}
         /\ x % n = x - Truncated(x, n) * n /\ x % n \in Int
<1>1. n \in Nat /\ n >= 1 /\ x \in Int /\ x >= 0
  BY PowersAreShifts, WordsAreThemselves, Zenon
<1>2. n \in {2 ^ j : j \in 1 .. 30}
  <2>1. PICK k \in 0 .. 30 : 2 ^ k = n
    BY Zenon DEF Powers
  <2>2. 2 ^ 0 = 1
    BY SMT
  <2>3. k # 0
    BY <2>1, <2>2, Zenon
  <2>4. k \in 1 .. 30
    BY <2>3
  <2> QED BY <2>1, <2>4, Zenon
<1>3. x = n * (x \div n) + (x % n) /\ x \div n \in Nat /\ x % n \in 0 .. n - 1
  BY <1>1, Euclid
<1>4. Truncated(x, n) = x \div n
  BY <1>1, SMT DEF Truncated
<1>5. x % n = x - (x \div n) * n
  <2> DEFINE e == x \div n
             f == x % n
  <2>1. e \in Nat /\ f \in Int /\ x = n * e + f
    BY <1>1, <1>3
  <2> HIDE DEF e, f
  <2>2. f = x - e * n
    BY <1>1, <2>1
  <2> QED BY <2>2, Zenon DEF e, f
<1>6. (n - 1) + 1 = n /\ x % n \in Int
  BY <1>1, <1>3
<1> QED BY <1>2, <1>4, <1>5, <1>6, Zenon

\* A remainder by a power of two.
LEMMA PowerRemainders ==
  ASSUME NEW imm \in Int, Magnitude(imm) \in Powers, Magnitude(imm) # 1, NEW nonNegative \in BOOLEAN,
         NEW s \in Registers, s[0] \in IF nonNegative THEN NonNegativeWords ELSE Words
  PROVE  Yields(PowerOfTwoMod(imm, nonNegative).lines, s, 0, Remainder(s[0], imm), {1, 2})
<1> DEFINE n == Magnitude(imm)
           x == s[0]
           q == Truncated(x, n)
           c == ShiftOf(n)
           y == IF x < 0 THEN x + (n - 1) ELSE x
           z == x - q * n
           mask == <<Imm("and", <<w0, w0>>, n - 1)>>
           sum == Regs("add", <<w0, w0, w1>>)
           test == Imm("cmp", <<w2>>, 0)
           choice == Cond("csel", <<w0, w0, w2>>, "lt")
           shift == Imm("asr", <<w0, w0>>, c)
           copy == <<Regs("mov", <<w2, w0>>)>>
           body == <<sum, test, choice, shift>>
           rest == <<Regs("msub", <<w0, w0, w1, w2>>)>>
           long == copy \o LoadImmediate32(w1, n - 1) \o body \o LoadImmediate32(w1, n) \o rest
<1>1. x \in Words /\ x \in Int
  BY WordsAreThemselves, WordsAreIntegers, Zenon
<1>2. /\ n - 1 \in Words /\ n - 1 \in Int /\ x + (n - 1) \in Int /\ y \in Words
      /\ y \div TwoTo[c] = q /\ q \in Int /\ n \in Words /\ n \in Int
  <2>1. \A k \in Nat : k \in Int
    OBVIOUS
  <2> QED BY <1>1, <2>1, Rounding, Zenon
<1>3. ShiftFits(w0, c)
  <2>1. c \in 0 .. 31
    BY PowersAreShifts, Zenon
  <2> QED BY <2>1, Names, SMT DEF ShiftFits
<1>4. z = Remainder(x, imm)
  BY <1>1, <1>2, RemainderBySign, Zenon
<1>5. \A v \in Words : Holds(w0, v)
  BY Names, Zenon DEF Holds
<1>6. PowerOfTwoMod(imm, nonNegative).lines = IF nonNegative THEN mask ELSE long
  <2>1. PowerOfTwoMod(imm, nonNegative) = Way({0}, IF nonNegative THEN mask ELSE long)
    BY Zenon DEF PowerOfTwoMod
  <2> HIDE DEF mask, long
  <2> QED BY <2>1, WayIs, Zenon
<1>7. ASSUME nonNegative PROVE Yields(mask, s, 0, z, {1, 2})
  <2> DEFINE t == With(s, 0, z)
  <2>1. x \in NonNegativeWords
    BY <1>7, Zenon
  <2>2. (n - 1) + 1 = n /\ n \in {2 ^ j : j \in 1 .. 30} /\ x % n = z /\ z \in Int
    BY <2>1, MaskIs, Zenon
  <2>3. Leads(mask, s, With(s, w0.n, s[w0.n] % ((n - 1) + 1)))
    <3> DEFINE k == n - 1
    <3>1. k + 1 \in {2 ^ j : j \in 1 .. 30}
      BY <2>2, Zenon
    <3> HIDE DEF k
    <3>2. Leads(<<Imm("and", <<w0, w0>>, k)>>, s, With(s, w0.n, s[w0.n] % (k + 1)))
      BY <3>1, AndLeads, Zenon
    <3> QED BY <3>2, Zenon DEF k
  <2>4. Leads(mask, s, t)
    BY <2>2, <2>3, Names, Zenon
  <2> HIDE DEF x, n, q, z, mask
  <2>5. t \in Registers
    BY <2>2, Numbered, SetIn, Zenon
  <2>6. t[0] = z
    BY SetAt, SMT
  <2>7. ASSUME NEW j \in 0 .. 31 \ ({1, 2} \cup {0}) PROVE t[j] = s[j]
    <3>1. j \in 0 .. 31 \ {0}
      OBVIOUS
    <3> QED BY <3>1, SetBeside, SMT
  <2> HIDE DEF t
  <2> QED BY <2>4, <2>5, <2>6, <2>7, Zenon DEF Yields
<1> HIDE DEF n, x, q, c, y, mask, sum, test, choice, shift, copy, rest
<1>8. Yields(long, s, 0, z, {1, 2})
  <2> DEFINE s1 == With(s, 2, x)
             s2 == With(s1, 1, n - 1)
             s3 == With(s2, 0, x + (n - 1))
             s4 == With(s3, 0, y)
             t == With(s4, 0, q)
  <2>1. s1 \in Registers /\ s2 \in Registers /\ s3 \in Registers /\ s4 \in Registers /\ t \in Registers
    BY <1>1, <1>2, WordsAreIntegers, Numbered, SetIn, Zenon
  <2> HIDE DEF s1, s2, s3, s4, t
  <2>2. s1[0] = x /\ s1[2] = x
    <3>1. s1[0] = s[0]
      BY SetBeside, SMT DEF s1
    <3>2. s1[2] = x
      BY SetAt, SMT DEF s1
    <3> QED BY <3>1, <3>2, Zenon DEF x
  <2>3. s2[0] = x /\ s2[1] = n - 1 /\ s2[2] = x
    <3>1. s2[0] = s1[0] /\ s2[2] = s1[2]
      BY <2>1, SetBeside, SMT DEF s2
    <3>2. s2[1] = n - 1
      BY <2>1, SetAt, SMT DEF s2
    <3> QED BY <2>2, <3>1, <3>2, Zenon
  <2>4. s3[0] = x + (n - 1) /\ s3[2] = x
    <3>1. s3[2] = s2[2]
      BY <2>1, SetBeside, SMT DEF s3
    <3>2. s3[0] = x + (n - 1)
      BY <2>1, SetAt, SMT DEF s3
    <3> QED BY <2>3, <3>1, <3>2, Zenon
  <2>5. s4[0] = y /\ s4[2] = x
    <3>1. s4[2] = s3[2]
      BY <2>1, SetBeside, SMT DEF s4
    <3>2. s4[0] = y
      BY <2>1, SetAt, SMT DEF s4
    <3> QED BY <2>4, <3>1, <3>2, Zenon
  <2>6. t[0] = q /\ t[2] = x
    <3>1. t[2] = s4[2]
      BY <2>1, SetBeside, SMT DEF t
    <3>2. t[0] = q
      BY <2>1, SetAt, SMT DEF t
    <3> QED BY <2>5, <3>1, <3>2, Zenon
  <2>7. Leads(copy, s, s1)
    <3>1. Leads(copy, s, With(s, w2.n, s[w0.n]))
      BY MoveLeads, Zenon DEF copy
    <3> QED BY <3>1, Names, Zenon DEF s1, x
  <2>8. Leads(LoadImmediate32(w1, n - 1), s1, s2)
    BY <1>2, <2>1, Names, Numbered, LeadsLiteral, Zenon DEF s2
  <2>9. Leads(<<sum>>, s2, s3)
    <3>1. Leads(<<sum>>, s2, With(s2, w0.n, s2[w0.n] + s2[w1.n]))
      BY AddLeads, Zenon DEF sum
    <3> QED BY <2>3, <3>1, Names, Zenon DEF s3
  <2>10. Leads(<<test, choice>>, s3, s4)
    <3>1. s3[w2.n] = x /\ s3[w0.n] = x + (n - 1)
      BY <2>4, Names, Zenon
    <3>2. s3[w2.n] \in Words /\ w2.bytes = 4
      BY <1>1, <3>1, Names, Zenon
    <3>3. Leads(<<test, choice>>, s3, With(s3, w0.n, IF s3[w2.n] < 0 THEN s3[w0.n] ELSE s3[w2.n]))
      BY <3>2, LeadsChoice, Zenon DEF test, choice
    <3> QED BY <3>1, <3>3, Names, Zenon DEF s4, y
  <2>11. Leads(<<shift>>, s4, t)
    <3>1. s4[w0.n] = y
      BY <2>5, Names, Zenon
    <3>2. Leads(<<shift>>, s4, With(s4, w0.n, s4[w0.n] \div TwoTo[c]))
      BY <1>2, <1>3, <1>5, <3>1, RightLeads, Zenon DEF shift
    <3> QED BY <1>2, <3>1, <3>2, Names, Zenon DEF t
  <2>12. Leads(body, s2, t)
    <3>1. <<test, choice>> \o <<shift>> = <<test, choice, shift>>
      BY Joined, Zenon
    <3>2. <<sum>> \o <<test, choice, shift>> = body
      BY FourLines, Zenon
    <3>3. Leads(<<test, choice, shift>>, s3, t)
      BY <2>10, <2>11, <3>1, LeadsBoth, Zenon
    <3> QED BY <2>9, <3>2, <3>3, LeadsBoth, Zenon
  <2> DEFINE head == copy \o LoadImmediate32(w1, n - 1) \o body
             literal == LoadImmediate32(w1, n)
  <2>13. Leads(head, s, t)
    <3>1. Leads(copy \o LoadImmediate32(w1, n - 1), s, s2)
      BY <2>7, <2>8, LeadsBoth, Zenon
    <3> QED BY <2>12, <3>1, LeadsBoth, Zenon
  <2>14. Leads(literal, t, With(t, w1.n, n))
    BY <1>2, <2>1, Names, Numbered, LeadsLiteral, Zenon
  <2> HIDE DEF head, literal, body
  <2>15. PICK u \in Registers : /\ Leads((head \o literal) \o rest, s, u) /\ u[0] = x - q * n
                                /\ \A j \in 0 .. 31 \ {0, w1.n} : u[j] = t[j]
    <3>1. /\ w0.n \in 0 .. 31 /\ w1.n \in 0 .. 31 /\ w2.n \in 0 .. 31 /\ w1.n # w0.n /\ w1.n # w2.n
          /\ t[w0.n] = q /\ t[w2.n] = x
      BY <2>6, Names, Numbered, Zenon
    <3>2. Rested(head, literal, s, t, w0, w1, w2, x - q * n)
      BY <1>1, <1>2, <2>1, <2>13, <2>14, <3>1, ThenRest, Zenon
    <3> QED BY <3>2, Zenon DEF rest, Rested
  <2>16. Leads(long, s, u)
    BY <2>15, Zenon DEF head, literal, body
  <2>17. ASSUME NEW j \in 0 .. 31 \ ({1, 2} \cup {0}) PROVE u[j] = s[j]
    <3>1. j \in 0 .. 31 \ {0} /\ j \in 0 .. 31 \ {1} /\ j \in 0 .. 31 \ {2} /\ j \in 0 .. 31 \ {0, 1}
      OBVIOUS
    <3>2. u[j] = t[j]
      BY <2>15, <3>1, Names, Zenon
    <3>3. t[j] = s4[j]
      BY <2>1, <3>1, SetBeside, SMT DEF t
    <3>4. s4[j] = s3[j]
      BY <2>1, <3>1, SetBeside, SMT DEF s4
    <3>5. s3[j] = s2[j]
      BY <2>1, <3>1, SetBeside, SMT DEF s3
    <3>6. s2[j] = s1[j]
      BY <2>1, <3>1, SetBeside, SMT DEF s2
    <3>7. s1[j] = s[j]
      BY <3>1, SetBeside, SMT DEF s1
    <3> QED BY <3>2, <3>3, <3>4, <3>5, <3>6, <3>7, Zenon
  <2> HIDE DEF long
  <2> QED BY <2>15, <2>16, <2>17, Zenon DEF Yields
<1> HIDE DEF long, z
<1> QED BY <1>4, <1>6, <1>7, <1>8, Zenon DEF x

\* The ways to get a remainder.
LEMMA ModWaysAre ==
  ASSUME NEW imm \in Int, NEW nonNegative \in BOOLEAN, NEW way \in ModWays(imm, nonNegative)
  PROVE  LET n == Magnitude(imm)
             Rest(q, d, x) == Regs("msub", <<w0, q, d, x>>) IN
         \/ n = 1 /\ way = Way({}, <<Imm("mov", <<w0>>, 0)>>)
         \/ n # 1 /\ n \in Powers /\ way = PowerOfTwoMod(imm, nonNegative)
         \/ nonNegative /\ imm > 1 /\ \E m \in UnsignedMagic :
              /\ m.divisor = imm
              /\ way = Way({2}, UnsignedQuotient(m, w2) \o <<Imm("mov", <<w1>>, imm), Rest(w0, w1, w2)>>)
         \/ \E m \in SignedMagic :
              /\ m.divisor = n
              /\ way = Way({0}, SignedQuotient(m, w0, w1, 1) \o LoadImmediate32(w2, n) \o <<Rest(w1, w2, w0)>>)
         \/ n = 3 /\ way = Way({2}, SignedQuotient(Three, w2, w0, 0) \o <<Imm("mov", <<w1>>, imm), Rest(w0, w1, w2)>>)
<1> DEFINE n == Magnitude(imm)
           Rest(q, d, x) == Regs("msub", <<w0, q, d, x>>)
           unsigned == IF nonNegative /\ imm > 1 THEN MagicFor(UnsignedMagic, imm) ELSE {}
           signed == MagicFor(SignedMagic, n)
           U(m) == Way({2}, UnsignedQuotient(m, w2) \o <<Imm("mov", <<w1>>, imm), Rest(w0, w1, w2)>>)
           S(m) == Way({0}, SignedQuotient(m, w0, w1, 1) \o LoadImmediate32(w2, n) \o <<Rest(w1, w2, w0)>>)
           T == Way({2}, SignedQuotient(Three, w2, w0, 0) \o <<Imm("mov", <<w1>>, imm), Rest(w0, w1, w2)>>)
<1>1. \A m \in unsigned : nonNegative /\ imm > 1 /\ m \in UnsignedMagic /\ m.divisor = imm
  BY Zenon DEF MagicFor
<1>2. \A m \in signed : m \in SignedMagic /\ m.divisor = n
  BY Zenon DEF MagicFor
<1>3. way \in (IF n = 1 THEN {Way({}, <<Imm("mov", <<w0>>, 0)>>)}
               ELSE IF n \in Powers THEN {PowerOfTwoMod(imm, nonNegative)}
               ELSE IF unsigned # {} THEN {U(m) : m \in unsigned}
               ELSE IF signed # {} THEN {S(m) : m \in signed}
               ELSE IF n = 3 THEN {T}
               ELSE {})
  BY Zenon DEF ModWays
<1>4. (\E m \in unsigned : way = U(m)) \/ (\E m \in signed : way = S(m)) \/ (n = 3 /\ way = T)
      \/ (n = 1 /\ way = Way({}, <<Imm("mov", <<w0>>, 0)>>))
      \/ (n # 1 /\ n \in Powers /\ way = PowerOfTwoMod(imm, nonNegative))
  <2> HIDE DEF unsigned, signed, U, S, T, n
  <2> QED BY <1>3, Zenon
<1> HIDE DEF unsigned, signed
<1> QED BY <1>1, <1>2, <1>4, Zenon

LEMMA DivisorsFit ==
  /\ \A m \in UnsignedMagic : m.divisor \in Bits(16)
  /\ \A m \in SignedMagic : m.divisor \in Words
  /\ \A n \in Bits(16) : n \in Int
<1>1. \A k : k \in Bits(16) <=> k \in Int /\ k >= 0 /\ k <= 65535
  BY SMT DEF Bits
<1>2. \A m \in UnsignedMagic : m.divisor \in Int /\ m.divisor >= 0 /\ m.divisor <= 65535
  BY SMT DEF UnsignedMagic, Magic
<1>3. \A m \in SignedMagic : m.divisor \in Int /\ m.divisor >= 0 /\ m.divisor <= 100000007
  BY SMT DEF SignedMagic, Magic
<1>4. ASSUME NEW k \in Int, k >= 0, k <= 100000007 PROVE k \in Words
  <2>1. k >= -HalfRange /\ k < HalfRange
    BY <1>4, RangesAre, SMT
  <2> QED BY <2>1, WordsAre, Zenon
<1>5. \A m \in SignedMagic : m.divisor \in Words
  BY <1>3, <1>4, SMT
<1> QED BY <1>1, <1>2, <1>5, SMT

\* The remainder, after a quotient that is right.
LEMMA RestOfQuotient ==
  ASSUME NEW head, NEW literal, NEW s \in Registers, NEW scratch,
         NEW a, NEW b, NEW c, a.n \in 0 .. 31, b.n \in 0 .. 31, c.n \in 0 .. 31, b.n # a.n, b.n # c.n,
         c.n \notin scratch \cup {a.n}, scratch \cup {a.n, b.n} \subseteq {0, 1, 2},
         NEW q \in Int, NEW d \in Int, NEW x \in Int, s[c.n] = x, Yields(head, s, a.n, q, scratch),
         \A t \in Registers : Leads(literal, t, With(t, b.n, d))
  PROVE  /\ Yields((head \o literal) \o <<Regs("msub", <<w0, a, b, c>>)>>, s, 0, x - q * d, {1, 2})
         /\ Yields(head \o (literal \o <<Regs("msub", <<w0, a, b, c>>)>>), s, 0, x - q * d, {1, 2})
<1> DEFINE rest == Regs("msub", <<w0, a, b, c>>)
           z == x - q * d
<1>1. PICK t \in Registers : Leads(head, s, t) /\ t[a.n] = q /\ \A j \in 0 .. 31 \ (scratch \cup {a.n}) : t[j] = s[j]
  BY Zenon DEF Yields
<1>2. t[c.n] = x
  <2>1. c.n \in 0 .. 31 \ (scratch \cup {a.n})
    OBVIOUS
  <2> QED BY <1>1, <2>1, Zenon
<1>3. Rested(head, literal, s, t, a, b, c, z)
  BY <1>1, <1>2, ThenRest, Zenon
<1> HIDE DEF z
<1>4. PICK u \in Registers : /\ Leads((head \o literal) \o <<rest>>, s, u)
                             /\ Leads(head \o (literal \o <<rest>>), s, u)
                             /\ u[0] = z /\ \A j \in 0 .. 31 \ {0, b.n} : u[j] = t[j]
  BY <1>3, Zenon DEF Rested
<1>5. ASSUME NEW j \in 0 .. 31 \ ({1, 2} \cup {0}) PROVE u[j] = s[j]
  <2>1. j \in 0 .. 31 \ {0, b.n} /\ j \in 0 .. 31 \ (scratch \cup {a.n})
    OBVIOUS
  <2> QED BY <1>1, <1>4, <2>1, Zenon
<1> HIDE DEF rest
<1> QED BY <1>4, <1>5, Zenon DEF Yields, z, rest

\* Whatever the constant a program takes a remainder by, but for minus three,
\* where the lines do not multiply the quotient by the divisor's magnitude: if
\* emitImmediateBinary has a way of its own, the lines it prints assemble and
\* leave the remainder of the language in register 0, with the sign of the
\* dividend, and change no other but numbers 1 and 2, for every word the
\* dividend can be and whatever was in the others.
THEOREM RemaindersAreRight ==
  ASSUME NEW imm \in Int, imm # -3, NEW nonNegative \in BOOLEAN, NEW way \in ModWays(imm, nonNegative),
         NEW x \in IF nonNegative THEN NonNegativeWords ELSE Words,
         NEW s \in Registers, Ready(way, s, x)
  PROVE  Yields(way.lines, s, 0, Remainder(x, imm), {1, 2})
<1> DEFINE n == Magnitude(imm)
           Rest(q, d, y) == Regs("msub", <<w0, q, d, y>>)
<1>1. x \in Words /\ x \in Int
  BY WordsAreThemselves, WordsAreIntegers, Zenon
<1>2. ASSUME n = 1, way = Way({}, <<Imm("mov", <<w0>>, 0)>>)
      PROVE  Yields(way.lines, s, 0, Remainder(x, imm), {1, 2})
  <2> DEFINE t == With(s, 0, 0)
  <2>1. way.lines = <<Imm("mov", <<w0>>, 0)>>
    BY <1>2, WayIs, Zenon
  <2>2. Leads(way.lines, s, t)
    <3>1. 0 \in Bits(16)
      BY SMT DEF Bits
    <3>2. Leads(<<Imm("mov", <<w0>>, 0)>>, s, With(s, w0.n, 0))
      BY <3>1, PutLeads, Zenon
    <3> QED BY <2>1, <3>2, Names, Zenon
  <2>3. Remainder(x, imm) = 0
    <3>1. Quotient(x, imm) * imm = x
      BY <1>1, <1>2, ByOne, Zenon
    <3>2. x - x = 0
      BY <1>1
    <3> QED BY <3>1, <3>2, Zenon DEF Remainder
  <2>4. t \in Registers
    <3>1. 0 \in Int
      OBVIOUS
    <3> QED BY <3>1, Numbered, SetIn, Zenon
  <2>5. t[0] = 0
    BY SetAt, SMT
  <2>6. ASSUME NEW j \in 0 .. 31 \ ({1, 2} \cup {0}) PROVE t[j] = s[j]
    <3>1. j \in 0 .. 31 \ {0}
      OBVIOUS
    <3> QED BY <3>1, SetBeside, SMT
  <2> HIDE DEF t
  <2> QED BY <2>2, <2>3, <2>4, <2>5, <2>6, Zenon DEF Yields
<1>3. ASSUME n # 1, n \in Powers, way = PowerOfTwoMod(imm, nonNegative)
      PROVE  Yields(way.lines, s, 0, Remainder(x, imm), {1, 2})
  <2>1. way.wanted = {0}
    BY <1>3, WayIs, Zenon DEF PowerOfTwoMod
  <2>2. s[0] = x
    BY <2>1, WayWants, Zenon
  <2> QED BY <1>3, <2>2, PowerRemainders, Zenon
<1>4. ASSUME nonNegative, imm > 1, NEW m \in UnsignedMagic, m.divisor = imm,
             way = Way({2}, UnsignedQuotient(m, w2) \o <<Imm("mov", <<w1>>, imm), Rest(w0, w1, w2)>>)
      PROVE  Yields(way.lines, s, 0, Remainder(x, imm), {1, 2})
  <2> DEFINE q == Truncated(x, imm)
             head == UnsignedQuotient(m, w2)
             literal == <<Imm("mov", <<w1>>, imm)>>
             rest == Rest(w0, w1, w2)
  <2>1. way.lines = head \o <<Imm("mov", <<w1>>, imm), rest>> /\ s[2] = x
    <3>1. way.lines = head \o <<Imm("mov", <<w1>>, imm), rest>> /\ way.wanted = {2}
      BY <1>4, WayIs, Zenon
    <3> QED BY <3>1, WayWants, Zenon
  <2>2. /\ w0.n = 0 /\ w1.n = 1 /\ w2.n = 2 /\ w0.n \in 0 .. 31 /\ w1.n \in 0 .. 31 /\ w2.n \in 0 .. 31
        /\ w2.n # 1 /\ w2.bytes = 4 /\ w1.n # w0.n /\ w1.n # w2.n
        /\ s[w2.n] = x /\ x \in NonNegativeWords
    BY <1>4, <2>1, Names, Numbered, Zenon
  <2>3. Yields(head, s, 0, q, {1})
    BY <1>4, <2>2, UnsignedQuotientsAreRight, Zenon
  <2>4. imm \in Bits(16) /\ Magnitude(imm) = imm
    <3>1. ~(imm < 0)
      BY <1>4
    <3> QED BY <1>4, <3>1, DivisorsFit, Zenon DEF Magnitude
  <2>5. q \in Int
    BY <1>1, <1>4, UnsignedPrecise, QuotientsAreIntegers, Zenon
  <2>6. Remainder(x, imm) = x - q * imm
    BY <1>1, <2>4, <2>5, RemainderBySign, Zenon
  <2>7. \A t \in Registers : Leads(literal, t, With(t, w1.n, imm))
    BY <2>4, PutLeads, Zenon
  <2>8. w2.n \notin {1} \cup {w0.n} /\ {1} \cup {w0.n, w1.n} \subseteq {0, 1, 2}
    BY <2>2, SMT
  <2> HIDE DEF q, head, literal
  <2>9. Yields(head \o (literal \o <<rest>>), s, 0, x - q * imm, {1, 2})
    BY <1>1, <2>2, <2>3, <2>5, <2>7, <2>8, RestOfQuotient, Zenon
  <2>10. literal \o <<rest>> = <<Imm("mov", <<w1>>, imm), rest>>
    BY Joined, Zenon DEF literal
  <2> QED BY <2>1, <2>6, <2>9, <2>10, Zenon
<1>5. ASSUME NEW m \in SignedMagic, m.divisor = n,
             way = Way({0}, SignedQuotient(m, w0, w1, 1) \o LoadImmediate32(w2, n) \o <<Rest(w1, w2, w0)>>)
      PROVE  Yields(way.lines, s, 0, Remainder(x, imm), {1, 2})
  <2> DEFINE q == Truncated(x, n)
             head == SignedQuotient(m, w0, w1, 1)
             literal == LoadImmediate32(w2, n)
             rest == Rest(w1, w2, w0)
  <2>1. way.lines = (head \o literal) \o <<rest>> /\ s[0] = x
    <3>1. way.lines = (head \o literal) \o <<rest>> /\ way.wanted = {0}
      BY <1>5, WayIs, Zenon
    <3> QED BY <3>1, WayWants, Zenon
  <2>2. /\ w0.n = 0 /\ w1.n = 1 /\ w2.n = 2 /\ w0.n \in 0 .. 31 /\ w1.n \in 0 .. 31 /\ w2.n \in 0 .. 31
        /\ w0.n # 1 /\ w0.bytes = 4 /\ w1.bytes = 4 /\ w2.n # w1.n /\ w2.n # w0.n
        /\ 1 \in 0 .. 31 /\ 1 # w0.n /\ s[w0.n] = x
    BY <2>1, Names, Numbered, Zenon
  <2>3. Yields(head, s, w1.n, q, {1, 1})
    BY <1>1, <1>5, <2>2, SignedQuotientsAreRight, Zenon
  <2>4. n \in Words /\ n \in Int
    BY <1>5, DivisorsFit, WordsAreIntegers, Zenon
  <2>5. q \in Int
    BY <1>1, <1>5, SignedPrecise, QuotientsAreIntegers, Zenon
  <2>6. Remainder(x, imm) = x - q * n
    BY <1>1, <2>5, RemainderBySign, Zenon
  <2>7. \A t \in Registers : Leads(literal, t, With(t, w2.n, n))
    BY <2>2, <2>4, LeadsLiteral, Zenon
  <2>8. w0.n \notin {1, 1} \cup {w1.n} /\ {1, 1} \cup {w1.n, w2.n} \subseteq {0, 1, 2}
    BY <2>2, SMT
  <2> HIDE DEF q, head, literal, n
  <2>9. Yields((head \o literal) \o <<rest>>, s, 0, x - q * n, {1, 2})
    BY <1>1, <2>2, <2>3, <2>4, <2>5, <2>7, <2>8, RestOfQuotient, Zenon
  <2> QED BY <2>1, <2>6, <2>9, Zenon
<1>6. ASSUME n = 3, way = Way({2}, SignedQuotient(Three, w2, w0, 0) \o <<Imm("mov", <<w1>>, imm), Rest(w0, w1, w2)>>)
      PROVE  Yields(way.lines, s, 0, Remainder(x, imm), {1, 2})
  <2> DEFINE q == Truncated(x, 3)
             head == SignedQuotient(Three, w2, w0, 0)
             literal == <<Imm("mov", <<w1>>, imm)>>
             rest == Rest(w0, w1, w2)
  <2>0. imm = 3
    BY <1>6, SMT DEF Magnitude
  <2>1. way.lines = head \o <<Imm("mov", <<w1>>, imm), rest>> /\ s[2] = x
    <3> DEFINE l == head \o <<Imm("mov", <<w1>>, imm), rest>>
    <3>0. way = Way({2}, l)
      BY <1>6, Zenon
    <3> HIDE DEF l
    <3>1. way.lines = l /\ way.wanted = {2}
      BY <3>0, WayIs, Zenon
    <3> QED BY <3>1, WayWants, Zenon DEF l
  <2>2. /\ w0.n = 0 /\ w1.n = 1 /\ w2.n = 2 /\ w0.n \in 0 .. 31 /\ w1.n \in 0 .. 31 /\ w2.n \in 0 .. 31
        /\ w2.n # 1 /\ w2.bytes = 4 /\ w0.bytes = 4 /\ w1.n # w0.n /\ w1.n # w2.n
        /\ 0 \in 0 .. 31 /\ 0 # w2.n /\ s[w2.n] = x
    BY <2>1, Names, Numbered, Zenon
  <2>3. Three \in SignedMagic \cup {Three} /\ Three.divisor = 3
    <3>1. Three.divisor = 3
      BY SMT DEF Three, Magic
    <3> QED BY <3>1, Zenon
  <2>4. Yields(head, s, w0.n, q, {1, 0})
    BY <1>1, <2>2, <2>3, SignedQuotientsAreRight, Zenon
  <2>5. q \in Int
    BY <1>1, <2>3, SignedPrecise, QuotientsAreIntegers, Zenon
  <2>6. Remainder(x, imm) = x - q * imm
    BY <1>1, <1>6, <2>0, <2>5, RemainderBySign, Zenon
  <2>7. \A t \in Registers : Leads(literal, t, With(t, w1.n, imm))
    <3>1. imm \in Bits(16)
      BY <2>0, SMT DEF Bits
    <3> QED BY <3>1, PutLeads, Zenon
  <2>8. w2.n \notin {1, 0} \cup {w0.n} /\ {1, 0} \cup {w0.n, w1.n} \subseteq {0, 1, 2}
    BY <2>2, SMT
  <2> HIDE DEF q, head, literal
  <2>9. Yields(head \o (literal \o <<rest>>), s, 0, x - q * imm, {1, 2})
    BY <1>1, <2>2, <2>4, <2>5, <2>7, <2>8, RestOfQuotient, Zenon
  <2>10. literal \o <<rest>> = <<Imm("mov", <<w1>>, imm), rest>>
    BY Joined, Zenon DEF literal
  <2> QED BY <2>1, <2>6, <2>9, <2>10, Zenon
<1> QED BY <1>2, <1>3, <1>4, <1>5, <1>6, ModWaysAre, Zenon
=============================================================================
