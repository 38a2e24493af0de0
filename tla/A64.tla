---------------------------------- MODULE A64 ----------------------------------
(***************************************************************************)
(* The processor that runs what the code generator prints: the part of     *)
(* AArch64 the generic path uses, on words of W bits and byte addresses,   *)
(* and the runtime library the program is linked with.  Nothing here is    *)
(* code of the compiler.                                                   *)
(*                                                                         *)
(* Memory is a map of 4-byte cells; a pointer takes two.  The machine ends *)
(* "broken" where a real one may do anything: a jump to no label, an       *)
(* access beyond the stack pointer (an interrupt may use that memory) or   *)
(* through a stack pointer that is not a multiple of 16.                   *)
(***************************************************************************)
EXTENDS IRSemantics, Assembly
LOCAL INSTANCE Bitwise

LR == 30
----------------------------------------------------------------------------
StackTop == 1000000
Stops == 0                   \* where main returns to
RegionBytes == 4 * RegionSize
Upper == Junk - 1            \* the second cell of a pointer

Read(m, r) == IF r = sp THEN m.sp ELSE IF r.n = 31 THEN 0 ELSE m.regs[r.n]
Goes(m) == [m EXCEPT !.pc = @ + 1]
Sets(m, r, v) == Goes(IF r = sp THEN [m EXCEPT !.sp = v] ELSE [m EXCEPT !.regs[r.n] = v])
Jumps(m, places, l) == IF l \in DOMAIN places THEN [m EXCEPT !.pc = places[l]] ELSE Halt(m, "broken")

Sound(vs) == Junk \notin vs /\ Upper \notin vs
Power(n) == 2 ^ Min({n, 30})
\* The word as a number without a sign; registers of 8 bytes hold addresses.
Unsigned(v) == v % (2 * HalfRange)
Fits(r, v) == IF r.bytes = 8 THEN v ELSE Wrap(v)

(* The last operand: a register, one shifted, or a constant.               *)
Shifted(m, i) ==
  LET v == Read(m, Last(i.rs))
      n == NumberOf(i)
  IN  CASE i.n = {} -> v
        [] i.form \in {"lsl", "sxtw"} -> v * Power(n)
        [] i.form = "uxtw" -> Unsigned(v) * Power(n)
        [] i.form = "asr" -> v \div Power(n)
        [] OTHER -> Constant(i)

(* What is transferred, where: the base is the register before the offset  *)
(* or the index.  A post-index moves the base afterwards.                  *)
BaseOf(i) == IF i.op \in {"ldp", "stp"} THEN i.rs[3] ELSE i.rs[2]
Address(m, i) ==
  CASE i.form = "sxtw" -> IF Sound({Read(m, i.rs[3])}) THEN Read(m, i.rs[2]) + Shifted(m, i) ELSE Junk
    [] i.form = "post" -> Read(m, BaseOf(i))
    [] OTHER -> Read(m, BaseOf(i)) + NumberOf(i)
Allowed(m, i, a) ==
  /\ BaseOf(i) = sp => m.sp % 16 = 0
  /\ a > StackTop \div 2 => a >= m.sp

Fetch(mem, r, a) ==
  IF a \notin DOMAIN mem \/ (r.bytes = 8 /\ (a + 4 \notin DOMAIN mem \/ mem[a + 4] # Upper))
  THEN Junk ELSE mem[a]
Put(mem, r, a, v) ==
  IF r.bytes = 8 THEN (a :> v) @@ ((a + 4) :> Upper) @@ mem ELSE (a :> v) @@ mem

Rebased(m, i) == IF i.form \notin {"pre", "post"} THEN m
               ELSE LET base == BaseOf(i)
                    IN  [Sets(m, base, Read(m, base) + NumberOf(i)) EXCEPT !.pc = m.pc]
Loads(m, i) ==
  LET a == Address(m, i)
      r == i.rs[1]
  IN  IF ~Allowed(m, i, a) THEN Halt(m, "broken")
      ELSE IF i.op # "ldp" THEN Rebased(Sets(m, r, Fetch(m.mem, r, a)), i)
      ELSE LET one == Sets(m, r, Fetch(m.mem, r, a))
           IN  Rebased([one EXCEPT !.regs[i.rs[2].n] = Fetch(m.mem, r, a + r.bytes)], i)
Stores(m, i) ==
  LET a == Address(m, i)
      r == i.rs[1]
      mem == Put(m.mem, r, a, Read(m, r))
      to == Rebased(m, i)
  IN  IF ~Allowed(to, i, a) THEN Halt(m, "broken")
      ELSE Goes([to EXCEPT !.mem = IF i.op = "stp" THEN Put(mem, r, a + r.bytes, Read(m, i.rs[2]))
                                   ELSE mem])

(* Values.  A product of two words in 8 bytes is kept without its lowest   *)
(* sixteen bits, which nothing reads.                                      *)
WideProduct(op, a, k) ==
  LET x == IF op = "umull" THEN Unsigned(a) ELSE a
      high == IF op = "umull" THEN (k \div 65536) % 65536 ELSE k \div 65536
  IN  x * high + (x * (k % 65536)) \div 65536

PageBytes == 4096
PlaceOf(i, place) == place[i.l[1]]

Copying == {"mov", "movz", "movn", "movk"}
Deciding == {"cset", "csel"}
Decided(m, cond) ==
  IF cond = "ls" THEN Unsigned(m.flags[1]) <= Unsigned(m.flags[2])
  ELSE Compare(cond, m.flags[1], m.flags[2])

OfBits(op, a, b) == CASE op = "and" -> a & b [] op = "orr" -> a | b [] op = "eor" -> a ^^ b
\* Of operands that are known.
Calculated(m, i) ==
  LET r == i.rs[1]
      a == Read(m, i.rs[2])
      b == Read(m, i.rs[3])
      c == Read(m, i.rs[4])
      n == NumberOf(i)
  IN
  CASE i.op = "add" -> Fits(r, a + Shifted(m, i))
    [] i.op = "sub" -> Fits(r, a - Shifted(m, i))
    [] i.op = "mul" -> Wrap(a * b)
    [] i.op = "madd" -> Wrap(c + a * b)
    [] i.op = "msub" -> Wrap(c - a * b)
    [] i.op = "sdiv" -> IF b = 0 THEN 0 ELSE Wrap(TruncDiv(a, b))
    [] i.op \in {"smull", "umull"} -> WideProduct(i.op, a, b)
    [] i.op = "neg" -> Wrap(-a)
    [] i.op = "sxtw" -> a
    [] i.op = "uxtw" -> Unsigned(a)
    [] i.op = "mvn" -> -1 - a
    [] i.op \in {"and", "orr", "eor"} -> Wrap(OfBits(i.op, Unsigned(a), Unsigned(Shifted(m, i))))
    [] i.op \in {"lsl", "asr"} /\ i.n = {} ->
         IF i.op = "lsl" THEN Wrap(a * Power(b % W)) ELSE a \div Power(b % W)
    [] i.op = "lsl" -> Wrap(a * Power(n))
    [] i.op = "lsr" -> IF r.bytes = 8 THEN a \div Power(n - 16) ELSE Wrap(Unsigned(a) \div Power(n))
    [] i.op = "asr" -> IF r.bytes = 8 THEN a \div Power(n - 16) ELSE a \div Power(n)

Value(m, i, place) ==
  CASE i.op \in Copying -> IF i.n = {} THEN Read(m, i.rs[2]) ELSE Literal(i, Read(m, i.rs[1]))
    [] i.op = "adrp" -> PageBytes * (PlaceOf(i, place) \div PageBytes)
    [] i.op = "add" /\ i.form = ":lo12:" -> Read(m, i.rs[2]) + (PlaceOf(i, place) % PageBytes)
    [] i.op \in Deciding /\ ~Sound(Range(m.flags)) -> Junk
    [] i.op = "cset" /\ Sound(Range(m.flags)) -> Truth(Decided(m, i.form))
    [] i.op = "csel" /\ Sound(Range(m.flags)) -> Read(m, IF Decided(m, i.form) THEN i.rs[2] ELSE i.rs[3])
    [] OTHER -> IF Sound({Read(m, i.rs[k]) : k \in 2 .. Len(i.rs)}) THEN Calculated(m, i) ELSE Junk

Compares(m, i) ==
  LET b == IF i.n = {} THEN Read(m, i.rs[2]) ELSE IF i.op = "cmn" THEN -Constant(i) ELSE Constant(i)
  IN  Goes([m EXCEPT !.flags = <<Read(m, i.rs[1]), b>>])

Decides(m, vs, yes, l, places) ==
  IF ~Sound(vs) THEN Halt(m, "undefined") ELSE IF yes THEN Jumps(m, places, l) ELSE Goes(m)

\* The library keeps the registers it must and no others.
Returns(m, v) ==
  Goes([m EXCEPT !.regs = [r \in DOMAIN @ |-> IF r = 0 THEN v ELSE IF r < 18 THEN Junk ELSE @[r]]])
Library(m, f) ==
  CASE m.sp % 16 # 0 -> Halt(m, "broken")
    [] m.sp % 16 = 0 /\ f = "getint" ->
         IF m.in = <<>> THEN Halt(m, "undefined")
         ELSE Returns([m EXCEPT !.in = Tail(@)], Wrap(Head(m.in)))
    [] m.sp % 16 = 0 /\ f = "putint" ->
         Returns([m EXCEPT !.out = Append(@, m.regs[0])], Junk)
    [] m.sp % 16 = 0 /\ f = "memset" ->
         Returns([m EXCEPT !.mem =
                    [k \in {m.regs[0] + 4 * n : n \in 0 .. (m.regs[2] \div 4 - 1)} |-> m.regs[1]]
                      @@ @], m.regs[0])
    [] OTHER -> Halt(m, "broken")

Ends(m) == IF m.sp # StackTop THEN Halt(m, "broken")
           ELSE IF ~Sound({m.regs[0]}) THEN Halt(m, "undefined")
           ELSE [m EXCEPT !.status = "done", !.value = m.regs[0]]

Cycle(code, places, place, m) ==
  LET i == code[m.pc]
  IN
  CASE i.op \in Loading \cup {"ldp"} -> Loads(m, i)
    [] i.op \in Storing \cup {"stp"} -> Stores(m, i)
    [] i.op \in {"cmp", "cmn"} -> Compares(m, i)
    [] i.op = "b" -> Jumps(m, places, i.l)
    [] i.op = "b." -> Decides(m, Range(m.flags), Decided(m, i.form), i.l, places)
    [] i.op \in {"cbz", "cbnz"} ->
         Decides(m, {Read(m, i.rs[1])}, (Read(m, i.rs[1]) = 0) = (i.op = "cbz"), i.l, places)
    [] i.op = "label" -> Goes(m)
    [] i.op = "bl" -> IF i.l \in DOMAIN places
                      THEN [m EXCEPT !.pc = places[i.l], !.regs[LR] = m.pc + 1]
                      ELSE Library(m, i.l[1])
    [] i.op = "ret" -> IF m.regs[LR] = Stops THEN Ends(m) ELSE [m EXCEPT !.pc = m.regs[LR]]
    [] OTHER -> Sets(m, i.rs[1], Value(m, i, place))

\* 2^n cycles, or fewer when the machine stops before.
RECURSIVE Cycles(_, _, _, _, _)
Cycles(code, places, place, m, n) ==
  IF m.status # "run" THEN m
  ELSE IF n = 0 THEN
         IF m.pc \in DOMAIN code THEN Cycle(code, places, place, m) ELSE Halt(m, "broken")
  ELSE Cycles(code, places, place, Cycles(code, places, place, m, n - 1), n - 1)

\* The places of the labels in the code: of a label printed twice, none.
LabelsOf(code) == {code[p].l : p \in {q \in DOMAIN code : code[q].op = "label"}}
PlacesOf(code, l) == {p \in DOMAIN code : code[p].op = "label" /\ code[p].l = l}
Places(code) ==
  LET once == {l \in LabelsOf(code) : Cardinality(PlacesOf(code, l)) = 1}
  IN  Table([l \in once |-> CHOOSE p \in PlacesOf(code, l) : TRUE])

(* What the assembler makes of the data of a global.                       *)
Laid(data) ==
  FlattenSeq([k \in DOMAIN data |-> IF data[k].op = ".word" THEN <<Wrap(NumberOf(data[k]))>>
                                    ELSE [cell \in 1 .. (NumberOf(data[k]) \div 4) |-> 0]])

(* What the code does when it is run on the inputs with this data.         *)
RunCode(code, main, data, in, fuel) ==
  LET globals == [g \in DOMAIN data |-> Laid(data[g])]
      names == SetToSeq(DOMAIN globals)   \* few
      place == [g \in DOMAIN globals |-> RegionBytes * CHOOSE n \in DOMAIN names : names[n] = g]
      cells == UNION {{place[g] + 4 * (n - 1) : n \in DOMAIN globals[g]} : g \in DOMAIN globals}
      places == Places(code)
      start == [pc |-> places[main], regs |-> [r \in 0 .. 30 |-> IF r = LR THEN Stops ELSE Junk],
                sp |-> StackTop, flags |-> <<0, 0>>,
                mem |-> [c \in cells |->
                           globals[names[c \div RegionBytes]][1 + ((c % RegionBytes) \div 4)]],
                in |-> in, out |-> <<>>, status |-> "run", value |-> 0]
      end == Cycles(code, places, place, start, fuel)
  IN  [status |-> end.status, out |-> end.out, value |-> end.value]

================================================================================
