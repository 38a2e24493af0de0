---------------------------- MODULE CallSummary ----------------------------
(***************************************************************************)
(* What the passes of optimize() rely on when they consult a summary of    *)
(* the calls, and nothing of how the summary is found: the functions that  *)
(* may write the user's memory and those that may have any effect are      *)
(* given, a summary names the others in one step, erasing leaves exactly   *)
(* the functions main needs, and every rewriting of bodies may only take   *)
(* writers, effects and needs away.  CallEffects implements it.            *)
(***************************************************************************)
VARIABLES
  funcs,          \* the functions of the module
  writers,        \* those from which a write of user memory can be reached
  effectful,      \* those from which any effect can be reached
  needed,         \* those main reaches
  nonClobbering,  \* the memory summary in use
  pure            \* the purity summary in use

abstract == <<funcs, writers, effectful, needed, nonClobbering, pure>>

WellFormed == /\ writers \subseteq effectful /\ effectful \subseteq funcs
              /\ needed \subseteq funcs

Init == WellFormed /\ nonClobbering = {} /\ pure = {}

SummariseMemory ==
  /\ nonClobbering' = funcs \ writers
  /\ UNCHANGED <<funcs, writers, effectful, needed, pure>>

SummarisePurity ==
  /\ pure' = funcs \ effectful
  /\ UNCHANGED <<funcs, writers, effectful, needed, nonClobbering>>

Erase ==
  /\ funcs' = needed
  /\ writers' = writers \cap needed
  /\ effectful' = effectful \cap needed
  /\ UNCHANGED <<needed, nonClobbering, pure>>

\* Inlining, folding and every pass over one body.
RewriteBodies ==
  /\ writers' \in SUBSET writers
  /\ effectful' \in SUBSET effectful
  /\ writers' \subseteq effectful'
  /\ needed' \in SUBSET needed
  /\ UNCHANGED <<funcs, nonClobbering, pure>>

Next == SummariseMemory \/ SummarisePurity \/ Erase \/ RewriteBodies

Spec == Init /\ [][Next]_abstract

\* A summary in use never vouches for a function that writes, or has an
\* effect, when it is consulted: not even one a later round rewrote.
SummariesSound == nonClobbering \cap writers = {} /\ pure \cap effectful = {}

============================================================================
