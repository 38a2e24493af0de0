-------------------------------- MODULE Backend --------------------------------
(***************************************************************************)
(* The compiler to the text it writes: emitAssembly of                     *)
(* src/src/backend/arm/emit.cpp prints the module and gives the text to    *)
(* optimizeAssemblyPeepholes.                                              *)
(***************************************************************************)
EXTENDS Compiler, Peephole

BackendInit ==
  /\ CompilerInit
  /\ text = <<>> /\ nth = 0 /\ from = 1 /\ round = 0 /\ changed = FALSE

Compile == CompilerNext /\ UNCHANGED textVars

StartRewriting ==
  /\ nth = 0 /\ code # <<>> /\ toPrint = <<>>
  /\ Start(code)
  /\ UNCHANGED <<vars, codeVars>>

RewriteText == PeepholeNext /\ UNCHANGED <<vars, codeVars>>

BackendNext == Compile \/ StartRewriting \/ RewriteText
BackendSpec == BackendInit /\ [][BackendNext]_<<vars, codeVars, textVars>>

----------------------------------------------------------------------------
(* Properties.                                                             *)

\* The rewritings begin when all is printed, and the driver's counters keep
\* to their loops.
BackendTypeOK ==
  /\ nth \in 0 .. (Len(Rewritings) + 2) /\ round \in 0 .. MaxRounds
  /\ from \in 1 .. (Len(text) + 1)
  /\ nth > 0 => code # <<>> /\ toPrint = <<>> /\ round > 0

\* Whatever a rewriting does to the text, and the loop that prints it, the
\* text does what the program as it was written does.
TextMeans(lines) ==
  \A in \in DOMAIN meaning :
    MayReplace(meaning[in], RunCode(lines, FunctionLabel("main"), Data(prog), in, Fuel + 4))
RewritingsKeepTheMeaning == [][nth > 0 /\ text' # text => TextMeans(text')]_text

\* Every line that is written is an instruction: no constant, no offset and
\* no pair is outside what its form has room for, whatever the frame's size.
EveryLineAssembles == Written => \A k \in DOMAIN text : Assembles(text[k])

=================================================================================
