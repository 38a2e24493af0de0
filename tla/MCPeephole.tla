------------------------------- MODULE MCPeephole -------------------------------
(***************************************************************************)
(* The rewritings of the assembly on every text of a few lines: those the  *)
(* specialised kernels print products, accesses and copies with, which     *)
(* the generic path seldom or never puts side by side.  A text begins with *)
(* arguments in registers 0 to 2 and memory at registers 9 and 29, and     *)
(* ends in "ret"; what it returns and leaves in memory is its meaning.     *)
(***************************************************************************)
EXTENDS Peephole, A64

Cells == 4                  \* words of memory at each place
Values == {-3, 0, 1, 100}   \* of the arguments; the words of memory follow the first

w0 == Wreg(0)
w1 == Wreg(1)
w2 == Wreg(2)
w9 == Wreg(9)
x9 == Xreg(9)
L == <<"main", "label">>
Body(lines) == <<Lab(<<"main">>)>> \o lines \o <<Regs("ret", <<>>)>>

\* A product with a constant, and two lines that use its registers or jump.
Factors == {-8, -3, -1, 0, 1, 3, 5, 7, 8}
OfFactor == {Regs("mul", <<w0, w1, w9>>), Regs("mul", <<w9, w9, w1>>), Regs("mul", <<w1, w9, w1>>),
             Regs("madd", <<w0, w9, w1, w9>>), Regs("sub", <<w9, w9, w1>>)}
Using == {Regs("mul", <<w0, w2, w9>>), Regs("add", <<w0, w0, w9>>), Regs("mov", <<w0, w9>>),
          Regs("mov", <<w9, w2>>), Jump("b", <<>>, L), Imm("cmp", <<w0>>, 0), Line("b.", <<>>, {}, "eq", L)}
Products ==
  {Body(<<Imm("mov", <<w9>>, k), product, one, other, Lab(L), last>>) :
     k \in Factors, product \in OfFactor, one \in Using, other \in Using,
     last \in {Regs("add", <<w0, w0, w1>>), Regs("mov", <<w0, w9>>)}}

\* Accesses to neighbouring words and a base that moves.
AccessLines == {Transfer("ldr", w1, x9, 0), Transfer("ldr", w2, x9, 4), Transfer("str", w1, x9, 4),
                Transfer("str", w2, x9, 0), Imm("add", <<x9, x9>>, 4), Regs("mov", <<w1, w2>>),
                Imm("movz", <<w2>>, 0)}
\* Slots of a frame.
SlotLines == {Transfer("stur", w1, x29, -4), Transfer("ldur", w1, x29, -4), Transfer("ldur", w2, x29, -4),
              Regs("mov", <<w1, w2>>), Imm("movz", <<w2>>, 5), Regs("sub", <<w0, w0, w2>>)}
Lists4(lines) == {<<a, b, c, d>> : a \in lines, b \in lines, c \in lines, d \in lines}
\* An index in register 2, widened and scaled.
x1 == Xreg(1)
IndexLines == {Regs("mov", <<w1, w2>>), Regs("sxtw", <<x1, w1>>), Regs("uxtw", <<x1, w1>>),
               Regs("sxtw", <<x1, w2>>), Shaped("add", <<x9, x9, x1>>, "lsl", 2), Regs("add", <<w0, w0, w1>>)}
Indices == {Body(list \o <<Transfer("str", w0, x9, 0)>>) : list \in Lists4(IndexLines)}
Accesses == {Body(list \o <<Regs("add", <<w0, w0, w1>>), Regs("sub", <<w0, w0, w2>>)>>) : list \in Lists4(AccessLines)}
Slots == {Body(list \o <<Regs("add", <<w0, w0, w1>>)>>) : list \in Lists4(SlotLines)}

\* Register 9 points to the first of its cells, register 29 behind the last of its own.
CellsAt == [base \in {RegionBytes, 2 * RegionBytes} |-> {base + 4 * n : n \in 0 .. (Cells - 1)}]
StartWith(args, first) ==
  [pc |-> 1, regs |-> [r \in 0 .. 30 |-> CASE r \in 0 .. 2 -> args[r + 1]
                                           [] r = 9 -> RegionBytes
                                           [] r = 29 -> 2 * RegionBytes + 4 * Cells
                                           [] r = LR -> Stops
                                           [] OTHER -> Junk],
   sp |-> StackTop, flags |-> <<0, 0>>,
   mem |-> [c \in CellsAt[RegionBytes] \cup CellsAt[2 * RegionBytes] |-> first + c \div 4],
   in |-> <<>>, out |-> <<>>, status |-> "run", value |-> 0]
MeaningOf(lines, args, first) ==
  LET end == Cycles(lines, Places(lines), Emptymap, StartWith(args, first), 5)
  IN  [status |-> end.status, value |-> end.value, mem |-> end.mem]

VARIABLE given  \* the text that was given

Init == /\ given \in Products \cup Accesses \cup Slots \cup Indices
        /\ text = given /\ nth = 1 /\ from = 1 /\ round = 1 /\ changed = FALSE
Next == PeepholeNext /\ UNCHANGED given
Spec == Init /\ [][Next]_<<textVars, given>>

\* Each rewriting, and the loop that prints, makes a text that returns and
\* stores what the given one does.
SameMeaning(lines) ==
  \A v1 \in Values, v2 \in Values, v3 \in Values :
    LET args == <<v1, v2, v3>>
        meant == MeaningOf(given, args, v1)
    IN  meant.status = "done" => MeaningOf(lines, args, v1) = meant
TextsKeepTheirMeaning == [][text' # text => SameMeaning(text')]_text

=================================================================================
