-------------------------------- MODULE Assembly --------------------------------
(***************************************************************************)
(* What the code generator prints: lines of AArch64 assembly.              *)
(***************************************************************************)
EXTENDS Integers, Sequences

\* Registers: Xreg(n) is the whole of register n, Wreg(n) its lower half.
\* Number 31 is zero as an operand, and the stack pointer in an address.
Wreg(n) == [n |-> n, bytes |-> 4]
Xreg(n) == [n |-> n, bytes |-> 8]
wzr == Wreg(31)
sp == Xreg(31)
x29 == Xreg(29)

\* A line: an operation, its registers in the order they are printed, the
\* immediate operand (a set of at most one), the form of the last operand or
\* the condition, and a label or the name of a symbol.
Line(op, rs, n, form, l) == [op |-> op, rs |-> rs, n |-> n, form |-> form, l |-> l]
Regs(op, rs) == Line(op, rs, {}, "plain", <<>>)
Imm(op, rs, n) == Line(op, rs, {n}, "plain", <<>>)
Shaped(op, rs, form, n) == Line(op, rs, {n}, form, <<>>)
Cond(op, rs, cond) == Line(op, rs, {}, cond, <<>>)
Jump(op, rs, l) == Line(op, rs, {}, "plain", l)
Lab(l) == Jump("label", <<>>, l)

\* An access to memory: the register, the base, and an offset or an index of
\* words.
Transfer(op, r, base, off) == Imm(op, <<r, base>>, off)
Indexed(op, r, base, i) == Shaped(op, <<r, base, i>>, "sxtw", 2)

Loading == {"ldr", "ldur"}
Storing == {"str", "stur"}
NumberOf(i) == CHOOSE n \in i.n : TRUE      \* of a line with an immediate operand

----------------------------------------------------------------------------
(* Literals, of words: the upper half of one has its sign.                 *)

Signed16(n) == IF n > 32767 THEN n - 65536 ELSE n
Constant(i) ==
  CASE i.form = "lsl12" -> 4096 * NumberOf(i)
    [] i.form = "lsl16" -> 65536 * Signed16(NumberOf(i))
    [] OTHER -> NumberOf(i)
\* What a move of a literal leaves in a register that holds old.
Literal(i, old) ==
  CASE i.op = "movk" -> (old % 65536) + Constant(i)
    [] i.op = "movn" -> -1 - Constant(i)
    [] OTHER -> Constant(i)

----------------------------------------------------------------------------
(* Is there an instruction for the line?  Immediate operands have their    *)
(* range, and a pair of loads its own registers.                           *)
Bits(k) == 0 .. (2 ^ k - 1)
InRange(line, n) ==
  LET width == line.rs[1].bytes
      Plain(ops) == line.op \in ops /\ line.form = "plain"
  IN
  /\ line.form \in {"sxtw", "uxtw"} => n \in 0 .. 4
  /\ line.form \in {"lsl", "asr"} \/ Plain({"lsl", "lsr", "asr"}) => n \in 0 .. (8 * width - 1)
  /\ line.op \in {"add", "sub", "cmp", "cmn"} =>
       n \in Bits(12) \/ (line.form = "plain" /\ n % 4096 = 0 /\ n \div 4096 \in Bits(12))
  /\ line.op \in {"movz", "movn", "movk"} => n \in Bits(16)
  /\ line.op = "mov" => n \in Bits(16) \/ -1 - n \in Bits(16)
  /\ Plain({"and", "orr", "eor"}) => n + 1 \in {2 ^ k : k \in 1 .. 30}
  /\ line.op \in {"ldur", "stur"} \/ line.form \in {"pre", "post"} => n \in -256 .. 255
  /\ Plain({"ldp", "stp"}) => n % width = 0 /\ n \div width \in -64 .. 63
  /\ Plain({"ldr", "str"}) => n % width = 0 /\ n \div width \in Bits(12)
Assembles(line) ==
  /\ \A n \in line.n : InRange(line, n)
  /\ line.op = "ldp" => line.rs[1] # line.rs[2]

=================================================================================
