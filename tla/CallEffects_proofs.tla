-------------------------- MODULE CallEffects_proofs --------------------------
(* TLAPS proofs about CallEffects, for every set of functions, every call   *)
(* graph among them and every order the sweeps may visit them in; and about *)
(* the search for runtime I/O of IoReachability: that it ends, what         *)
(* reaching I/O means one call at a time, and the answers of the search,    *)
(* the longest way to go last.                                              *)
EXTENDS IoReachability, DataInduction, FiniteSetTheorems

USE MainAssumption, RuntimeAssumption, ProgramsAssumption

(* Clearing the load flag of an effect leaves an effect: the record update  *)
(* of foldReadOnlyGlobalLoads.                                               *)
LEMMA NoLoadEffect == \A d \in Effect : [d EXCEPT !.load = FALSE] \in Effect
<1> SUFFICES ASSUME NEW d \in Effect PROVE [d EXCEPT !.load = FALSE] \in Effect
  OBVIOUS
<1> QED BY DEF Effect

(* Each step of optimize() respects the types.                               *)
LEMMA TypeCorrectStep == TypeOK /\ [Next]_vars => TypeOK'
<1> SUFFICES ASSUME TypeOK, [Next]_vars PROVE TypeOK'
  OBVIOUS
<1> USE DEF TypeOK, Phases
<1>1. CASE StartSweep
  BY <1>1 DEF StartSweep, reachVars
<1>2. ASSUME NEW f \in Functions, Visit(f) PROVE TypeOK'
  BY <1>2 DEF Visit, reachVars
<1>3. CASE FinishMemory
  BY <1>3 DEF FinishMemory, EnterPure, sweepVars, reachVars
<1>4. CASE FinishPure
  BY <1>4 DEF FinishPure, sweepVars, reachVars
<1>5. ASSUME NEW f \in Functions, MarkCallees(f) PROVE TypeOK'
  BY <1>5 DEF MarkCallees, sweepVars
<1>6. CASE EraseUnreachable
  BY <1>6 DEF EraseUnreachable, sweepVars, reachVars
<1>7. ASSUME NEW f \in Functions, InlineInto(f) PROVE TypeOK'
  <2>1. PICK callees \in SUBSET Inlinable(f) :
          eff' = [eff EXCEPT ![f] = Splice(f, callees)]
    BY <1>7 DEF InlineInto
  <2>2. Splice(f, callees) \in Effect
    <3>1. callees \subseteq Functions
      BY DEF Inlinable
    <3>2. eff[f] \in Effect
      OBVIOUS
    <3>3. QED
      BY <3>2 DEF Splice, Effect
  <2>3. eff' \in [Functions -> Effect]
    BY <2>1, <2>2
  <2>4. QED
    BY <1>7, <2>3 DEF InlineInto, sweepVars, reachVars
<1>8. ASSUME NEW f \in Functions, LocalPasses(f) PROVE TypeOK'
  <2>1. PICK e \in Weakenings(eff[f]) : eff' = [eff EXCEPT ![f] = e]
    BY <1>8 DEF LocalPasses
  <2>2. e \in Effect
    <3>1. eff[f] \in Effect
      OBVIOUS
    <3>2. QED
      BY <3>1 DEF Weakenings, Effect
  <2>3. eff' \in [Functions -> Effect]
    BY <2>1, <2>2
  <2>4. QED
    BY <1>8, <2>3 DEF LocalPasses, sweepVars, reachVars
<1>9. CASE FinishInline
  BY <1>9 DEF FinishInline, sweepVars
<1>10. CASE FoldReadOnlyLoads
  <2>1. eff' \in [Functions -> Effect]
    <3>1. \A f \in Functions : [eff[f] EXCEPT !.load = FALSE] \in Effect
      BY NoLoadEffect
    <3>2. QED
      BY <1>10, <3>1 DEF FoldReadOnlyLoads
  <2>2. QED
    BY <1>10, <2>1 DEF FoldReadOnlyLoads, EnterPure, sweepVars, reachVars
<1>11. CASE NextRound
  BY <1>11 DEF NextRound, EnterMemory, reachVars
<1>12. CASE Stop
  BY <1>12 DEF Stop, sweepVars, reachVars
<1>13. CASE UNCHANGED vars
  BY <1>13 DEF vars
<1>14. QED
  BY <1>1, <1>2, <1>3, <1>4, <1>5, <1>6, <1>7, <1>8, <1>9, <1>10, <1>11,
     <1>12, <1>13 DEF Next, Summarise, Mark, Rewrite

(* Every variable keeps its type through all the steps of optimize().        *)
THEOREM TypeCorrect == Spec => []TypeOK
<1>1. Init => TypeOK
  BY DEF Init, TypeOK, Phases, MemoryCandidate
<1>2. QED
  BY <1>1, TypeCorrectStep, PTL DEF Spec

(***************************************************************************)
(* The inductive invariant.  A sweep keeps every call-closed set without   *)
(* offenders among its candidates, and whatever it has visited since the   *)
(* last erasure is closed; the marking keeps inside every call-closed set  *)
(* that holds Main.                                                        *)
(***************************************************************************)
MemorySweep ==
  phase = "memory" =>
    /\ candidates \subseteq {f \in funcs : MemoryCandidate(f)}
    /\ unvisited \subseteq candidates
    /\ \A S \in SUBSET funcs :
         CallClosed(S) /\ S \cap Writers = {} => S \subseteq candidates
    /\ ~changed => \A f \in candidates \ unvisited :
                     eff[f].calls \cap funcs \subseteq candidates

PureSweep ==
  phase = "pure" =>
    /\ candidates \subseteq {f \in funcs : PureCandidateOf(eff[f])}
    /\ unvisited \subseteq candidates
    /\ \A S \in SUBSET funcs :
         CallClosed(S) /\ S \cap Effectful = {} => S \subseteq candidates
    /\ ~changed => \A f \in candidates \ unvisited : eff[f].calls \subseteq candidates

Marking ==
  phase = "reach" =>
    /\ Main \in reachable /\ reachable \subseteq funcs /\ worklist \subseteq reachable
    /\ \A f \in reachable \ worklist : eff[f].calls \cap funcs \subseteq reachable
    /\ \A S \in SUBSET funcs : Main \in S /\ CallClosed(S) => reachable \subseteq S

SummaryClosed ==
  \A f \in nonClobbering \cap funcs :
    /\ MemoryCandidate(f)
    /\ eff[f].calls \cap funcs \subseteq nonClobbering

Inv ==
  /\ TypeOK
  /\ Main \in funcs
  /\ NoDanglingCall
  /\ SummaryClosed
  /\ MemorySweep
  /\ PureSweep
  /\ Marking

(* Entering a sweep afresh establishes its part of the invariant.           *)
LEMMA FreshMemory ==
  ASSUME funcs \in SUBSET Functions, phase = "memory", changed = TRUE, unvisited = {},
         candidates = {f \in funcs : MemoryCandidate(f)}
  PROVE  MemorySweep
BY DEF MemorySweep, Writers

\* A sweep that has just begun has visited nobody it could be wrong about.
LEMMA FreshPure ==
  ASSUME phase = "pure", changed = TRUE, unvisited = {},
         candidates = {f \in funcs : PureCandidateOf(eff[f])}
  PROVE  PureSweep
BY DEF PureSweep, Effectful

\* Before the first analysis nothing is claimed yet.
LEMMA InitInv == Init => Inv
<1> SUFFICES ASSUME Init PROVE Inv
  OBVIOUS
<1>1. TypeOK
  BY DEF Init, TypeOK, Phases, MemoryCandidate
<1>2. NoDanglingCall
  BY <1>1 DEF Init, NoDanglingCall, TypeOK, Effect
<1>3. MemorySweep
  BY FreshMemory DEF Init
<1>4. QED
  BY <1>1, <1>2, <1>3 DEF Init, Inv, SummaryClosed, PureSweep, Marking

(* What the steps that only look at the program leave standing.             *)
LEMMA VisitKeepsInv ==
  ASSUME Inv, NEW f \in Functions, Visit(f) PROVE Inv'
<1> USE DEF Inv
<1>0. /\ TypeOK'
      /\ UNCHANGED <<stage, phase, funcs, eff, nonClobbering, pure, uninlined,
                     reachable, worklist>>
  BY DEF Visit, reachVars, TypeOK
<1>1. /\ Main \in funcs'
      /\ NoDanglingCall'
      /\ SummaryClosed'
  BY <1>0 DEF NoDanglingCall, SummaryClosed, MemoryCandidate
<1>2. Marking'
  BY <1>0 DEF Visit, Marking, Sweeping
<1>3. MemorySweep'
  <2> SUFFICES ASSUME phase = "memory" PROVE MemorySweep'
    BY <1>0 DEF MemorySweep
  <2> USE DEF Visit, Followed
  <2>0. /\ Writers' = Writers
        /\ \A S : CallClosed(S)' <=> CallClosed(S)
        /\ \A g : MemoryCandidate(g)' <=> MemoryCandidate(g)
    BY <1>0 DEF Writers, CallClosed, MemoryCandidate
  <2>1. CASE eff[f].calls \cap funcs \subseteq candidates
    BY <2>0, <2>1, <1>0 DEF MemorySweep
  <2>2. CASE ~(eff[f].calls \cap funcs \subseteq candidates)
    <3>1. candidates' = candidates \ {f} /\ changed' = TRUE
      BY <2>2
    <3>2. ASSUME NEW S \in SUBSET funcs, CallClosed(S), S \cap Writers = {}
          PROVE  S \subseteq candidates'
      <4>1. S \subseteq candidates
        BY <3>2 DEF MemorySweep
      <4>2. f \notin S
        BY <2>2, <3>2, <4>1 DEF CallClosed
      <4>3. QED
        BY <3>1, <4>1, <4>2
    <3>3. QED
      BY <2>0, <3>1, <3>2, <1>0 DEF MemorySweep
  <2>3. QED
    BY <2>1, <2>2
<1>4. PureSweep'
  <2> SUFFICES ASSUME phase = "pure" PROVE PureSweep'
    BY <1>0 DEF PureSweep
  <2> USE DEF Visit, Followed
  <2>0. /\ Effectful' = Effectful
        /\ \A S : CallClosed(S)' <=> CallClosed(S)
    BY <1>0 DEF Effectful, CallClosed
  <2>1. CASE eff[f].calls \subseteq candidates
    BY <2>0, <2>1, <1>0 DEF PureSweep
  <2>2. CASE ~(eff[f].calls \subseteq candidates)
    <3>1. candidates' = candidates \ {f} /\ changed' = TRUE
      BY <2>2
    <3>2. ASSUME NEW S \in SUBSET funcs, CallClosed(S), S \cap Effectful = {}
          PROVE  S \subseteq candidates'
      <4>1. S \subseteq candidates
        BY <3>2 DEF PureSweep
      <4>2. f \notin S
        BY <2>2, <3>2, <4>1 DEF CallClosed, Effectful
      <4>3. QED
        BY <3>1, <4>1, <4>2
    <3>3. QED
      BY <2>0, <3>1, <3>2, <1>0 DEF PureSweep
  <2>3. QED
    BY <2>1, <2>2
<1>5. QED
  BY <1>0, <1>1, <1>2, <1>3, <1>4

\* Another sweep over the candidates has visited nobody yet.
LEMMA StartSweepKeepsInv ==
  ASSUME Inv, StartSweep PROVE Inv'
<1> USE DEF Inv, StartSweep, reachVars
<1>1. TypeOK'
  BY DEF TypeOK
<1>2. Main \in funcs' /\ NoDanglingCall' /\ SummaryClosed'
  BY DEF NoDanglingCall, SummaryClosed, MemoryCandidate
<1>3. MemorySweep'
  BY DEF MemorySweep, MemoryCandidate, Writers, CallClosed
<1>4. PureSweep'
  BY DEF PureSweep, Effectful, CallClosed
<1>5. Marking'
  BY DEF Marking, CallClosed, Sweeping
<1>6. QED
  BY <1>1, <1>2, <1>3, <1>4, <1>5

\* What the memory sweep delivers is closed under calls and has no writer.
LEMMA FinishMemoryKeepsInv ==
  ASSUME Inv, FinishMemory, TypeOK' PROVE Inv'
<1> USE DEF Inv, FinishMemory
<1>1. UNCHANGED <<funcs, eff>> /\ phase' \in {"inline", "pure"}
  BY DEF EnterPure
<1>2. Main \in funcs' /\ NoDanglingCall'
  BY <1>1 DEF NoDanglingCall
<1>3. SummaryClosed'
  BY <1>1 DEF SummaryClosed, MemorySweep, MemoryCandidate, SweepsOver
<1>4. MemorySweep' /\ Marking'
  BY <1>1 DEF MemorySweep, Marking
<1>5. PureSweep'
  BY <1>1 DEF PureSweep, EnterPure, Effectful
<1>6. QED
  BY <1>2, <1>3, <1>4, <1>5

\* A marked function's callees join the worklist or are marked already.
LEMMA MarkingKeepsInv ==
  ASSUME Inv, NEW f \in Functions, MarkCallees(f), TypeOK' PROVE Inv'
<1> USE DEF Inv, MarkCallees
<1>1. UNCHANGED <<phase, funcs, eff, nonClobbering>> /\ phase = "reach"
  OBVIOUS
<1>2. Main \in funcs' /\ NoDanglingCall' /\ SummaryClosed'
  BY <1>1 DEF NoDanglingCall, SummaryClosed, MemoryCandidate
<1>3. MemorySweep' /\ PureSweep'
  BY <1>1 DEF MemorySweep, PureSweep
<1>4. Marking'
  BY <1>1 DEF Marking, CallClosed
<1>5. QED
  BY <1>2, <1>3, <1>4

(* Erasing what main cannot reach cuts no call of what stays.               *)
LEMMA EraseKeepsInv ==
  ASSUME Inv, EraseUnreachable, TypeOK' PROVE Inv'
<1> USE DEF Inv, EraseUnreachable
<1>1. /\ funcs' = reachable /\ reachable \subseteq funcs /\ Main \in reachable
      /\ UNCHANGED <<eff, nonClobbering>> /\ phase' = "fold"
  BY DEF Marking
<1>2. \A f \in reachable : eff[f].calls \cap funcs \subseteq reachable
  BY DEF Marking
<1>3. NoDanglingCall'
  BY <1>1, <1>2, RuntimeAssumption DEF NoDanglingCall
<1>4. \A f \in reachable : eff[f].calls \ reachable = eff[f].calls \ funcs
  BY <1>1, <1>2
<1>5. SummaryClosed'
  BY <1>1, <1>4 DEF SummaryClosed, MemoryCandidate
<1>6. MemorySweep' /\ PureSweep' /\ Marking'
  BY <1>1 DEF MemorySweep, PureSweep, Marking
<1>7. QED
  BY <1>1, <1>3, <1>5, <1>6

(* Splicing a callee into a caller adds no effect a sound summary of the     *)
(* caller did not already allow for.                                         *)
LEMMA InlineKeepsInv ==
  ASSUME Inv, NEW f \in Functions, InlineInto(f), TypeOK' PROVE Inv'
<1> USE DEF Inv, InlineInto
<1>1. /\ UNCHANGED <<phase, funcs, nonClobbering>> /\ phase = "inline"
      /\ eff \in [Functions -> Effect]
  BY DEF TypeOK
<1>2. PICK callees \in SUBSET Inlinable(f) :
        eff' = [eff EXCEPT ![f] = Splice(f, callees)]
  OBVIOUS
<1>3. /\ eff'[f].calls \subseteq eff[f].calls
      /\ eff'[f].store => \E g \in callees \cup {f} : eff[g].store
      /\ \A g \in Functions \ {f} : eff'[g] = eff[g]
  BY <1>1, <1>2 DEF Splice
<1>4. \A g \in Functions : eff'[g].calls \subseteq eff[g].calls
  BY <1>3
<1>5. funcs \subseteq Functions
  BY DEF TypeOK
<1>6. NoDanglingCall'
  BY <1>1, <1>4, <1>5 DEF NoDanglingCall
<1>7. SummaryClosed'
  <2> SUFFICES ASSUME NEW g \in nonClobbering \cap funcs
               PROVE  /\ MemoryCandidate(g)'
                      /\ eff'[g].calls \cap funcs \subseteq nonClobbering
    BY <1>1 DEF SummaryClosed
  <2>1. MemoryCandidate(g) /\ eff[g].calls \cap funcs \subseteq nonClobbering
    BY DEF SummaryClosed
  <2>2. ~eff'[g].store
    <3>1. CASE g # f
      BY <1>3, <1>5, <2>1, <3>1 DEF MemoryCandidate
    <3>2. CASE g = f
      <4>1. callees \subseteq nonClobbering \cap funcs
        BY <2>1, <3>2 DEF Inlinable
      <4>2. QED
        BY <1>3, <2>1, <3>2, <4>1 DEF SummaryClosed, MemoryCandidate
    <3>3. QED
      BY <3>1, <3>2
  <2>3. QED
    BY <1>1, <1>4, <1>5, <2>1, <2>2 DEF MemoryCandidate
<1>8. MemorySweep' /\ PureSweep' /\ Marking'
  BY <1>1 DEF MemorySweep, PureSweep, Marking
<1>9. QED
  BY <1>1, <1>6, <1>7, <1>8

\* Passes that take effects and calls away leave every closed set closed.
LEMMA LocalKeepsInv ==
  ASSUME Inv, NEW f \in Functions, LocalPasses(f), TypeOK' PROVE Inv'
<1> USE DEF Inv, LocalPasses
<1>1. /\ UNCHANGED <<phase, funcs, nonClobbering>> /\ phase = "local"
      /\ eff \in [Functions -> Effect] /\ funcs \subseteq Functions
  BY DEF TypeOK
<1>2. PICK e \in Weakenings(eff[f]) : eff' = [eff EXCEPT ![f] = e]
  OBVIOUS
<1>3. /\ e.calls \subseteq eff[f].calls
      /\ e.store \in {eff[f].store, FALSE}
  BY DEF Weakenings
<1>4. \A g \in Functions : /\ eff'[g].calls \subseteq eff[g].calls
                           /\ ~eff[g].store => ~eff'[g].store
  BY <1>1, <1>2, <1>3
<1>5. NoDanglingCall' /\ SummaryClosed'
  BY <1>1, <1>4 DEF NoDanglingCall, SummaryClosed, MemoryCandidate
<1>6. MemorySweep' /\ PureSweep' /\ Marking'
  BY <1>1 DEF MemorySweep, PureSweep, Marking
<1>7. QED
  BY <1>1, <1>5, <1>6

\* Folding loads of read-only globals takes away loads alone.
LEMMA FoldKeepsInv ==
  ASSUME Inv, FoldReadOnlyLoads, TypeOK' PROVE Inv'
<1> USE DEF Inv, FoldReadOnlyLoads
<1>1. /\ UNCHANGED <<funcs, nonClobbering>> /\ phase' \in {"pure", "local"}
      /\ eff \in [Functions -> Effect] /\ funcs \subseteq Functions
  BY DEF TypeOK, EnterPure
<1>2. \A g \in Functions : /\ eff'[g].calls = eff[g].calls
                           /\ eff'[g].store = eff[g].store
  <2>1. \A d \in Effect : /\ [d EXCEPT !.load = FALSE].calls = d.calls
                          /\ [d EXCEPT !.load = FALSE].store = d.store
    BY DEF Effect
  <2>2. QED
    BY <1>1, <2>1
<1>3. NoDanglingCall' /\ SummaryClosed'
  BY <1>1, <1>2 DEF NoDanglingCall, SummaryClosed, MemoryCandidate
<1>4. MemorySweep' /\ Marking'
  BY <1>1 DEF MemorySweep, Marking
<1>5. PureSweep'
  <2>1. CASE phase' = "pure"
    <3>1. /\ candidates' = {f \in funcs : PureCandidateOf(eff'[f])}
          /\ unvisited' = {} /\ changed' = TRUE
      BY <2>1, Zenon DEF EnterPure
    <3> QED BY <1>1, <2>1, <3>1 DEF PureSweep, Effectful
  <2>2. CASE phase' # "pure"
    BY <2>2 DEF PureSweep
  <2> QED BY <2>1, <2>2
<1>6. QED
  BY <1>1, <1>3, <1>4, <1>5

(* Inv is an invariant of optimize()'s skeleton.                            *)
THEOREM Invariance == Spec => []Inv
<1>1. Inv /\ [Next]_vars => Inv'
  <2> SUFFICES ASSUME Inv, [Next]_vars, TypeOK' PROVE Inv'
    BY TypeCorrectStep DEF Inv
  <2>1. ASSUME NEW f \in Functions, Visit(f) \/ MarkCallees(f) \/ InlineInto(f)
                                      \/ LocalPasses(f)
        PROVE  Inv'
    BY <2>1, VisitKeepsInv, MarkingKeepsInv, InlineKeepsInv, LocalKeepsInv
  <2>2. CASE StartSweep \/ FinishMemory
    BY <2>2, StartSweepKeepsInv, FinishMemoryKeepsInv
  <2>3. CASE EraseUnreachable \/ FoldReadOnlyLoads
    BY <2>3, EraseKeepsInv, FoldKeepsInv
  <2>4. CASE FinishPure \/ Stop
    BY <2>4 DEF FinishPure, Stop, Inv, NoDanglingCall, SummaryClosed,
                MemoryCandidate, MemorySweep, PureSweep, Marking, sweepVars, reachVars
  <2>5. CASE FinishInline
    BY <2>5 DEF FinishInline, Inv, NoDanglingCall, SummaryClosed, MemoryCandidate,
                MemorySweep, PureSweep, Marking, CallClosed, sweepVars
  <2>6. CASE NextRound
    <3>1. UNCHANGED <<funcs, eff, nonClobbering>> /\ phase' = "memory"
      BY <2>6 DEF NextRound, EnterMemory
    <3>2. MemorySweep'
      BY <2>6, <3>1 DEF NextRound, EnterMemory, MemorySweep, Writers,
                        MemoryCandidate, Inv, TypeOK
    <3>3. QED
      BY <3>1, <3>2 DEF Inv, NoDanglingCall, SummaryClosed, MemoryCandidate,
                        PureSweep, Marking
  <2>7. CASE UNCHANGED vars
    BY <2>7 DEF vars, Inv, NoDanglingCall, SummaryClosed, MemoryCandidate,
                MemorySweep, PureSweep, Marking, CallClosed, Writers, Effectful
  <2>8. QED
    BY <2>1, <2>2, <2>3, <2>4, <2>5, <2>6, <2>7 DEF Next, Summarise, Mark, Rewrite
<1>2. QED
  BY InitInv, <1>1, PTL DEF Spec

(* A summary closed under calls and free of writers never reaches one: the   *)
(* step from the inductive invariant to the meaning of the summaries.        *)
LEMMA ClosedSetsDoNotReach ==
  ASSUME NEW S \in SUBSET funcs, CallClosed(S), NEW Bad, S \cap Bad = {},
         NEW f \in S
  PROVE  ~Reaches(f, Bad)
BY DEF Reaches

(* No function the memory summary vouches for can write, however the module  *)
(* was rewritten since the summary was computed.                             *)
THEOREM StaleSummaryIsSound == Spec => []StaleSummarySound
<1>1. Inv => StaleSummarySound
  <2> SUFFICES ASSUME Inv, NEW f \in nonClobbering \cap funcs PROVE ~MayWrite(f)
    BY DEF StaleSummarySound
  <2> DEFINE S == nonClobbering \cap funcs
  <2>1. CallClosed(S) /\ S \cap Writers = {}
    BY DEF Inv, SummaryClosed, CallClosed, Writers
  <2>2. QED
    BY <2>1, ClosedSetsDoNotReach DEF MayWrite
<1>2. QED
  BY <1>1, Invariance, PTL

(* memoryNonClobberingFunctionNames returns the functions that cannot write. *)
THEOREM MemorySummaryIsExact == Spec => MemorySummaryExact
<1>1. Inv => [FinishMemory => nonClobbering' = {f \in funcs : ~MayWrite(f)}]_vars
  <2> SUFFICES ASSUME Inv, FinishMemory
               PROVE  candidates = {f \in funcs : ~MayWrite(f)}
    BY DEF FinishMemory
  <2> USE DEF Inv, FinishMemory, SweepsOver, MemorySweep
  <2>1. ASSUME NEW f \in candidates PROVE f \in funcs /\ ~MayWrite(f)
    <3>1. CallClosed(candidates) /\ candidates \cap Writers = {}
      BY DEF CallClosed, Writers
    <3>2. QED
      BY <3>1, ClosedSetsDoNotReach DEF MayWrite
  <2>2. ASSUME NEW f \in funcs, ~MayWrite(f) PROVE f \in candidates
    BY <2>2 DEF MayWrite, Reaches
  <2>3. QED
    BY <2>1, <2>2
<1>2. QED
  BY <1>1, Invariance, PTL DEF MemorySummaryExact

(* pureFunctionNames returns the functions without any effect.               *)
THEOREM PureSummaryIsExact == Spec => PureSummaryExact
<1>1. Inv => [FinishPure => pure' = {f \in funcs : ~MayHaveEffect(f)}]_vars
  <2> SUFFICES ASSUME Inv, FinishPure
               PROVE  candidates = {f \in funcs : ~MayHaveEffect(f)}
    BY DEF FinishPure
  <2> USE DEF Inv, FinishPure, SweepsOver, PureSweep
  <2>1. ASSUME NEW f \in candidates PROVE f \in funcs /\ ~MayHaveEffect(f)
    <3>1. CallClosed(candidates) /\ candidates \cap Effectful = {}
      BY DEF CallClosed, Effectful
    <3>2. QED
      BY <3>1, ClosedSetsDoNotReach DEF MayHaveEffect
  <2>2. ASSUME NEW f \in funcs, ~MayHaveEffect(f) PROVE f \in candidates
    BY <2>2 DEF MayHaveEffect, Reaches
  <2>3. QED
    BY <2>1, <2>2
<1>2. QED
  BY <1>1, Invariance, PTL DEF PureSummaryExact

(* removeUnreachableFunctions keeps what main reaches, and nothing else.     *)
THEOREM ErasureIsExact == Spec => OnlyUnreachableErased
<1>1. Inv => [EraseUnreachable => funcs' = {f \in funcs : CalledFromMain(f)}]_vars
  <2> SUFFICES ASSUME Inv, EraseUnreachable
               PROVE  funcs \cap reachable = {f \in funcs : CalledFromMain(f)}
    BY DEF EraseUnreachable
  <2> USE DEF Inv, EraseUnreachable, Marking
  <2>1. Main \in reachable /\ CallClosed(reachable) /\ reachable \in SUBSET funcs
    BY DEF CallClosed
  <2>2. QED
    BY <2>1 DEF CalledFromMain
<1>2. QED
  BY <1>1, Invariance, PTL DEF OnlyUnreachableErased

(* No body left in the module calls a function that is no longer there.      *)
THEOREM CallsStayBound == Spec => []NoDanglingCall
BY Invariance, PTL DEF Inv

----------------------------------------------------------------------------
(* The refinement.  First the facts about reaching that the steps need.      *)

(* Every writer has an effect: what the memory summary refuses, the purity   *)
(* summary refuses too.                                                      *)
LEMMA WritersHaveEffects ==
  ASSUME TypeOK, NEW f, MayWrite(f) PROVE MayHaveEffect(f)
<1>1. Writers \subseteq Effectful
  BY DEF Writers, Effectful, MemoryCandidate, PureCandidateOf
<1>2. QED
  BY <1>1 DEF MayWrite, MayHaveEffect, Reaches

(* A step that leaves the set of functions alone, and under which a closed   *)
(* set of harmless functions stays one, makes no function reach more.        *)
LEMMA StepReachesNoMore ==
  ASSUME funcs' = funcs,
         \A S \in SUBSET funcs : CallClosed(S) => CallClosed(S)',
         \A S \in SUBSET funcs :
           CallClosed(S) /\ S \cap Writers = {} => S \cap Writers' = {},
         \A S \in SUBSET funcs :
           CallClosed(S) /\ S \cap Effectful = {} => S \cap Effectful' = {}
  PROVE  /\ {f \in funcs : MayWrite(f)}' \subseteq {f \in funcs : MayWrite(f)}
         /\ {f \in funcs : MayHaveEffect(f)}' \subseteq {f \in funcs : MayHaveEffect(f)}
         /\ {f \in funcs : CalledFromMain(f)}' \subseteq {f \in funcs : CalledFromMain(f)}
<1>1. ASSUME NEW f \in funcs, MayWrite(f)' PROVE MayWrite(f)
  BY <1>1 DEF MayWrite, Reaches
<1>2. ASSUME NEW f \in funcs, MayHaveEffect(f)' PROVE MayHaveEffect(f)
  BY <1>2 DEF MayHaveEffect, Reaches
<1>3. ASSUME NEW f \in funcs, CalledFromMain(f)' PROVE CalledFromMain(f)
  BY <1>3 DEF CalledFromMain
<1>4. QED
  BY <1>1, <1>2, <1>3

(* The premises of the last lemma, for a step that only weakens effects.     *)
LEMMA WeakeningReachesNoMore ==
  ASSUME TypeOK, TypeOK', UNCHANGED <<funcs, nonClobbering, pure>>,
         \A f \in funcs : /\ eff'[f].calls \subseteq eff[f].calls
                          /\ ~eff[f].store => ~eff'[f].store
                          /\ PureCandidateOf(eff[f]) => PureCandidateOf(eff'[f])
  PROVE  Summary!RewriteBodies
<1> USE DEF TypeOK
<1>1. \A S \in SUBSET funcs : CallClosed(S) => CallClosed(S)'
  BY DEF CallClosed
<1>2. Writers' \subseteq Writers
  BY DEF Writers, MemoryCandidate
<1>3. Effectful' \subseteq Effectful
  BY DEF Effectful
<1>4. \A f : MayWrite(f)' => MayHaveEffect(f)'
  <2>1. Writers' \subseteq Effectful'
    BY DEF Writers, Effectful, MemoryCandidate, PureCandidateOf
  <2>2. QED
    BY <2>1 DEF MayWrite, MayHaveEffect, Reaches
<1>5. QED
  BY <1>1, <1>2, <1>3, <1>4, StepReachesNoMore DEF Summary!RewriteBodies

(* A step that leaves program and summaries alone is a stutter.              *)
LEMMA LookingStutters ==
  ASSUME UNCHANGED <<funcs, eff, nonClobbering, pure>>
  PROVE  UNCHANGED Summary!abstract
BY DEF Summary!abstract, MayWrite, MayHaveEffect, CalledFromMain, Reaches, CallClosed,
       Writers, Effectful, MemoryCandidate

(* What a callee that was spliced in brings along was reached before.        *)
LEMMA InlineRefines ==
  ASSUME Inv, NEW f \in Functions, InlineInto(f), TypeOK' PROVE Summary!RewriteBodies
<1> USE DEF Inv, TypeOK
<1>1. UNCHANGED <<funcs, nonClobbering, pure>>
  BY DEF InlineInto
<1>2. PICK callees \in SUBSET Inlinable(f) :
        eff' = [eff EXCEPT ![f] = Splice(f, callees)]
  BY DEF InlineInto
<1>3. /\ eff'[f].calls \subseteq eff[f].calls
      /\ eff'[f].store => \E g \in callees \cup {f} : eff[g].store
      /\ eff'[f].load => \E g \in callees \cup {f} : eff[g].load
      /\ eff'[f].opaque = eff[f].opaque
      /\ \A g \in Functions \ {f} : eff'[g] = eff[g]
      /\ callees \subseteq eff[f].calls \cap funcs
  BY <1>2 DEF Splice, Inlinable
<1>4. \A S \in SUBSET funcs : CallClosed(S) => CallClosed(S)'
  BY <1>1, <1>3 DEF CallClosed
<1>5. ASSUME NEW S \in SUBSET funcs, CallClosed(S), S \cap Writers = {}
      PROVE  S \cap Writers' = {}
  <2>1. \A g \in S : /\ ~eff[g].store
                     /\ eff[g].calls \ funcs \subseteq NonWritingRuntime
    BY <1>5 DEF Writers, MemoryCandidate
  <2>2. ASSUME f \in S PROVE ~eff'[f].store
    <3>1. callees \subseteq S
      BY <1>3, <1>5, <2>2 DEF CallClosed
    <3>2. QED
      BY <1>3, <2>1, <2>2, <3>1
  <2>3. \A g \in S : ~eff'[g].store /\ eff'[g].calls \subseteq eff[g].calls
    BY <1>3, <2>1, <2>2
  <2>4. QED
    BY <1>1, <2>1, <2>3 DEF Writers, MemoryCandidate
<1>6. ASSUME NEW S \in SUBSET funcs, CallClosed(S), S \cap Effectful = {}
      PROVE  S \cap Effectful' = {}
  <2>1. \A g \in S : PureCandidateOf(eff[g]) /\ eff[g].calls \subseteq funcs
    BY <1>6 DEF Effectful
  <2>2. ASSUME f \in S PROVE PureCandidateOf(eff'[f])
    <3>1. callees \subseteq S
      BY <1>3, <1>6, <2>2 DEF CallClosed
    <3>2. QED
      BY <1>3, <2>1, <2>2, <3>1 DEF PureCandidateOf
  <2>3. \A g \in S : PureCandidateOf(eff'[g]) /\ eff'[g].calls \subseteq eff[g].calls
    BY <1>3, <2>1, <2>2
  <2>4. QED
    BY <1>1, <2>1, <2>3 DEF Effectful
<1>7. \A g : MayWrite(g)' => MayHaveEffect(g)'
  <2>1. Writers' \subseteq Effectful'
    BY DEF Writers, Effectful, MemoryCandidate, PureCandidateOf
  <2>2. QED
    BY <2>1 DEF MayWrite, MayHaveEffect, Reaches
<1>8. QED
  BY <1>1, <1>4, <1>5, <1>6, <1>7, StepReachesNoMore DEF Summary!RewriteBodies

(* What main does not reach is no way to anything for what it reaches.       *)
LEMMA ErasureRefines ==
  ASSUME Inv, EraseUnreachable, funcs' = {f \in funcs : CalledFromMain(f)}
  PROVE  Summary!Erase
<1> USE DEF Inv, TypeOK
<1>1. /\ funcs' = reachable /\ reachable \subseteq funcs /\ Main \in reachable
      /\ UNCHANGED <<eff, nonClobbering, pure>>
  BY DEF EraseUnreachable, Marking
<1>2. \A f \in reachable : eff[f].calls \cap funcs \subseteq reachable
  BY <1>1 DEF EraseUnreachable, Marking
<1>3. \A S \in SUBSET reachable : CallClosed(S)' <=> CallClosed(S)
  BY <1>1, <1>2 DEF CallClosed
<1>4. \A S \in SUBSET funcs : CallClosed(S) => CallClosed(S \cap reachable)
  BY <1>2 DEF CallClosed
<1>5. Writers' = Writers \cap reachable
  BY <1>1, <1>2 DEF Writers, MemoryCandidate
<1>6. Effectful' = Effectful \cap reachable
  BY <1>1, <1>2 DEF Effectful
<1>7. \A f \in reachable : MayWrite(f)' <=> MayWrite(f)
  <2>1. ASSUME NEW f \in reachable, MayWrite(f)' PROVE MayWrite(f)
    <3> SUFFICES ASSUME NEW S \in SUBSET funcs, f \in S, CallClosed(S)
                 PROVE  S \cap Writers # {}
      BY DEF MayWrite, Reaches
    <3>1. (S \cap reachable) \cap Writers' # {}
      BY <1>1, <1>3, <1>4, <2>1 DEF MayWrite, Reaches
    <3>2. QED
      BY <1>5, <3>1
  <2>2. ASSUME NEW f \in reachable, MayWrite(f) PROVE MayWrite(f)'
    BY <1>1, <1>3, <1>5, <2>2 DEF MayWrite, Reaches
  <2>3. QED
    BY <2>1, <2>2
<1>8. \A f \in reachable : MayHaveEffect(f)' <=> MayHaveEffect(f)
  <2>1. ASSUME NEW f \in reachable, MayHaveEffect(f)' PROVE MayHaveEffect(f)
    <3> SUFFICES ASSUME NEW S \in SUBSET funcs, f \in S, CallClosed(S)
                 PROVE  S \cap Effectful # {}
      BY DEF MayHaveEffect, Reaches
    <3>1. (S \cap reachable) \cap Effectful' # {}
      BY <1>1, <1>3, <1>4, <2>1 DEF MayHaveEffect, Reaches
    <3>2. QED
      BY <1>6, <3>1
  <2>2. ASSUME NEW f \in reachable, MayHaveEffect(f) PROVE MayHaveEffect(f)'
    BY <1>1, <1>3, <1>6, <2>2 DEF MayHaveEffect, Reaches
  <2>3. QED
    BY <2>1, <2>2
<1>9. \A f \in reachable : CalledFromMain(f)'
  BY <1>1, <1>3 DEF CalledFromMain
<1>10. QED
  BY <1>1, <1>7, <1>8, <1>9 DEF Summary!Erase

(* optimize()'s skeleton implements the abstract specification of its        *)
(* summaries.                                                                *)
THEOREM Refinement == Spec => ImplementsSummary
<1>1. Init => Summary!Init
  BY InitInv, WritersHaveEffects DEF Init, Inv, Summary!Init, Summary!WellFormed
<1>2. ASSUME Inv, Inv', [Next]_vars,
             [FinishMemory => nonClobbering' = {f \in funcs : ~MayWrite(f)}]_vars,
             [FinishPure => pure' = {f \in funcs : ~MayHaveEffect(f)}]_vars,
             [EraseUnreachable => funcs' = {f \in funcs : CalledFromMain(f)}]_vars
      PROVE  [Summary!Next]_(Summary!abstract)
  <2> USE <1>2 DEF Inv
  <2>0. CASE UNCHANGED vars
    BY <2>0, LookingStutters DEF vars
  <2>1. CASE StartSweep \/ NextRound \/ Stop
    <3>1. UNCHANGED <<funcs, eff, nonClobbering, pure>>
      BY <2>1 DEF StartSweep, NextRound, Stop, sweepVars, reachVars
    <3>2. QED
      BY <3>1, LookingStutters
  <2>2. ASSUME NEW f \in Functions, Visit(f) \/ MarkCallees(f)
        PROVE  [Summary!Next]_(Summary!abstract)
    <3>1. UNCHANGED <<funcs, eff, nonClobbering, pure>>
      BY <2>2 DEF Visit, MarkCallees, sweepVars, reachVars
    <3>2. QED
      BY <3>1, LookingStutters
  <2>3. CASE FinishInline
    <3>1. UNCHANGED <<funcs, eff, nonClobbering, pure>>
      BY <2>3 DEF FinishInline, sweepVars
    <3>2. QED
      BY <3>1, LookingStutters
  <2>4. CASE FinishMemory /\ ~UNCHANGED vars
    <3>1. /\ nonClobbering' = {f \in funcs : ~MayWrite(f)}
          /\ UNCHANGED <<funcs, eff, pure>>
      BY <2>4 DEF FinishMemory, EnterPure
    <3>2. Summary!SummariseMemory
      BY <3>1 DEF Summary!SummariseMemory, MayWrite, MayHaveEffect, CalledFromMain,
                  Reaches, CallClosed, Writers, Effectful, MemoryCandidate
    <3>3. QED
      BY <3>2 DEF Summary!Next
  <2>5. CASE FinishPure /\ ~UNCHANGED vars
    <3>1. /\ pure' = {f \in funcs : ~MayHaveEffect(f)}
          /\ UNCHANGED <<funcs, eff, nonClobbering>>
      BY <2>5 DEF FinishPure
    <3>2. Summary!SummarisePurity
      BY <3>1 DEF Summary!SummarisePurity, MayWrite, MayHaveEffect, CalledFromMain,
                  Reaches, CallClosed, Writers, Effectful, MemoryCandidate
    <3>3. QED
      BY <3>2 DEF Summary!Next
  <2>6. CASE EraseUnreachable /\ ~UNCHANGED vars
    BY <2>6, ErasureRefines DEF Summary!Next
  <2>7. ASSUME NEW f \in Functions, InlineInto(f)
        PROVE  [Summary!Next]_(Summary!abstract)
    BY <2>7, InlineRefines DEF Summary!Next
  <2>8. ASSUME NEW f \in Functions, LocalPasses(f)
        PROVE  [Summary!Next]_(Summary!abstract)
    <3>1. PICK e \in Weakenings(eff[f]) : eff' = [eff EXCEPT ![f] = e]
      BY <2>8 DEF LocalPasses
    <3>2. /\ e.calls \subseteq eff[f].calls /\ e.opaque = eff[f].opaque
          /\ e.store \in {eff[f].store, FALSE} /\ e.load \in {eff[f].load, FALSE}
      BY <3>1 DEF Weakenings
    <3>3. \A g \in Functions :
            /\ eff'[g].calls \subseteq eff[g].calls
            /\ ~eff[g].store => ~eff'[g].store
            /\ PureCandidateOf(eff[g]) => PureCandidateOf(eff'[g])
      BY <3>1, <3>2 DEF TypeOK, PureCandidateOf
    <3>4. UNCHANGED <<funcs, nonClobbering, pure>> /\ funcs \subseteq Functions
      BY <2>8 DEF LocalPasses, TypeOK
    <3>5. QED
      BY <3>3, <3>4, WeakeningReachesNoMore DEF Summary!Next
  <2>9. CASE FoldReadOnlyLoads
    <3>1. UNCHANGED <<funcs, nonClobbering, pure>> /\ funcs \subseteq Functions
      BY <2>9 DEF FoldReadOnlyLoads, TypeOK
    <3>2. \A d \in Effect : LET e == [d EXCEPT !.load = FALSE]
                            IN  e.calls = d.calls /\ e.store = d.store
                                /\ e.opaque = d.opaque /\ e.load = FALSE
      BY DEF Effect
    <3>3. \A g \in Functions :
            /\ eff'[g].calls = eff[g].calls /\ eff'[g].store = eff[g].store
            /\ eff'[g].opaque = eff[g].opaque
            /\ eff'[g].load \in {eff[g].load, FALSE}
      BY <2>9, <3>2 DEF FoldReadOnlyLoads, TypeOK
    <3>4. \A g \in Functions :
            PureCandidateOf(eff[g]) => PureCandidateOf(eff'[g])
      BY <3>3 DEF PureCandidateOf
    <3>5. QED
      BY <3>1, <3>3, <3>4, WeakeningReachesNoMore DEF Summary!Next
  <2>10. QED
    BY <2>0, <2>1, <2>2, <2>3, <2>4, <2>5, <2>6, <2>7, <2>8, <2>9
       DEF Next, Summarise, Mark, Rewrite
<1>3. QED
  BY <1>1, <1>2, Invariance, MemorySummaryIsExact, PureSummaryIsExact, ErasureIsExact, PTL
     DEF Spec, ImplementsSummary, Summary!Spec, MemorySummaryExact, PureSummaryExact,
         OnlyUnreachableErased

(* And the abstract specification promises what the passes need: a summary   *)
(* in use is sound although it is never taken back.                          *)
THEOREM SummariesStaySound == Spec => []Summary!SummariesSound
<1>1. Summary!Init => Summary!SummariesSound
  BY DEF Summary!Init, Summary!SummariesSound
<1>2. Summary!SummariesSound /\ [Summary!Next]_(Summary!abstract)
        => Summary!SummariesSound'
  BY DEF Summary!SummariesSound, Summary!Next, Summary!abstract, Summary!SummariseMemory,
         Summary!SummarisePurity, Summary!Erase, Summary!RewriteBodies
<1>3. QED
  BY <1>1, <1>2, Refinement, PTL DEF ImplementsSummary, Summary!Spec


----------------------------------------------------------------------------
(* The search ends.                                                        *)

\* How far the search can go on from a place: it enters every function at most
\* once, and leaves a call behind with every step.
Outside(q) == Cardinality(Functions \ q.visiting)
StepsLeft(order, q) == IF q.at > Len(order) THEN 0 ELSE Len(order) + 1 - q.at
ToGo(order, q) == Outside(q) * (Len(order) + 1) + StepsLeft(order, q)

Bound(order) == Cardinality(Functions) * (Len(order) + 1) + Len(order)

LEMMA PlaceParts ==
  ASSUME NEW q \in Places
  PROVE  /\ q.f \in Functions /\ q.at \in Nat /\ q.at >= 1
         /\ q.memo \in Memos /\ q.visiting \in SUBSET Functions
BY DEF Places

LEMMA AfterType ==
  ASSUME NEW q \in Places, NEW memo \in Memos
  PROVE  /\ After(q, memo) \in Places
         /\ After(q, memo).f = q.f /\ After(q, memo).at = q.at + 1
         /\ After(q, memo).memo = memo /\ After(q, memo).visiting = q.visiting
<1>1. q.at + 1 \in Nat \ {0}
  BY PlaceParts
<1> QED BY <1>1, PlaceParts DEF After, Places

LEMMA EntryType ==
  ASSUME NEW name \in Functions, NEW memo \in Memos, NEW visiting \in SUBSET Functions
  PROVE  /\ Entry(name, memo, visiting) \in Places
         /\ Entry(name, memo, visiting).f = name /\ Entry(name, memo, visiting).at = 1
         /\ Entry(name, memo, visiting).memo = memo
         /\ Entry(name, memo, visiting).visiting = visiting \cup {name}
BY DEF Entry, Places

LEMMA TimesStep ==
  ASSUME NEW a \in Nat, NEW b \in Nat
  PROVE  a * b \in Nat /\ (a + 1) * b = a * b + b
OBVIOUS

LEMMA TimesMore ==
  ASSUME NEW a \in Nat, NEW c \in Nat, a <= c, NEW b \in Nat
  PROVE  a * b <= c * b
<1> DEFINE d == c - a
<1>1. d \in Nat /\ c = a + d
  OBVIOUS
<1>2. d * b \in Nat
  BY <1>1
<1>3. c * b = a * b + d * b
  BY <1>1
<1>4. a * b \in Nat
  OBVIOUS
<1> HIDE DEF d
<1> QED BY <1>2, <1>3, <1>4

LEMMA OutsideType ==
  ASSUME NEW q \in Places
  PROVE  Outside(q) \in Nat /\ Outside(q) <= Cardinality(Functions)
<1>1. IsFiniteSet(Functions) /\ Functions \ q.visiting \in SUBSET Functions
  BY NamesAreFinite
<1> QED BY <1>1, FS_Subset, FS_CardinalityType DEF Outside

LEMMA ToGoType ==
  ASSUME NEW S, NEW order \in Seq(S), NEW q \in Places
  PROVE  ToGo(order, q) \in Nat /\ ToGo(order, q) <= Bound(order)
<1> DEFINE n == Len(order)
           c == Cardinality(Functions)
           o == Outside(q)
<1>1. n \in Nat /\ c \in Nat /\ o \in Nat /\ o <= c
  BY OutsideType, NamesAreFinite, FS_CardinalityType
<1>2. StepsLeft(order, q) \in Nat /\ StepsLeft(order, q) <= n
  BY PlaceParts DEF StepsLeft
<1> HIDE DEF n, c, o
<1>3. o * (n + 1) \in Nat /\ c * (n + 1) \in Nat /\ o * (n + 1) <= c * (n + 1)
  BY <1>1, TimesMore, TimesStep
<1> QED BY <1>1, <1>2, <1>3 DEF ToGo, Bound, n, c, o

\* Both ways on are shorter than the way from here.
LEMMA NextIsNearer ==
  ASSUME NEW S, NEW order \in Seq(S), NEW q \in Places, NEW memo \in Memos,
         q.at <= Len(order)
  PROVE  ToGo(order, After(q, memo)) < ToGo(order, q)
<1> DEFINE p == After(q, memo)
<1>1. p \in Places /\ p.at = q.at + 1 /\ p.visiting = q.visiting
  BY AfterType
<1>2. Outside(p) = Outside(q)
  BY <1>1 DEF Outside
<1>3. StepsLeft(order, p) < StepsLeft(order, q) /\ StepsLeft(order, p) \in Nat
      /\ StepsLeft(order, q) \in Nat
  BY <1>1, PlaceParts DEF StepsLeft
<1>4. Outside(q) * (Len(order) + 1) \in Nat
  BY OutsideType, TimesStep
<1> HIDE DEF p
<1> QED BY <1>2, <1>3, <1>4 DEF ToGo, p

LEMMA EntryIsNearer ==
  ASSUME NEW S, NEW order \in Seq(S), NEW q \in Places, NEW memo \in Memos,
         NEW name \in Functions \ q.visiting
  PROVE  ToGo(order, Entry(name, memo, q.visiting)) < ToGo(order, q)
<1> DEFINE p == Entry(name, memo, q.visiting)
           n == Len(order)
<1>1. p \in Places /\ p.at = 1 /\ p.visiting = q.visiting \cup {name}
  BY EntryType, PlaceParts
<1>2. IsFiniteSet(Functions \ q.visiting)
  BY NamesAreFinite, FS_Subset
<1>3. Functions \ p.visiting = (Functions \ q.visiting) \ {name}
  BY <1>1
<1>4. Cardinality((Functions \ q.visiting) \ {name}) = Cardinality(Functions \ q.visiting) - 1
  BY <1>2, FS_RemoveElement
<1>5. Outside(p) \in Nat /\ Outside(q) = Outside(p) + 1
  <2>1. Outside(p) \in Nat /\ Outside(q) \in Nat
    BY <1>1, OutsideType
  <2>2. Outside(p) = Outside(q) - 1
    BY <1>3, <1>4, Zenon DEF Outside
  <2> HIDE DEF p
  <2> QED BY <2>1, <2>2
<1>6. StepsLeft(order, p) <= n /\ StepsLeft(order, p) \in Nat /\ StepsLeft(order, q) \in Nat
      /\ n \in Nat
  BY <1>1, PlaceParts DEF StepsLeft
<1>7. Outside(p) * (n + 1) \in Nat /\ Outside(q) * (n + 1) = Outside(p) * (n + 1) + (n + 1)
  BY <1>5, <1>6, TimesStep
<1> HIDE DEF p
<1> QED BY <1>6, <1>7 DEF ToGo, p

LEMMA RememberType ==
  ASSUME NEW memo \in Memos, NEW f \in Functions, NEW io \in BOOLEAN
  PROVE  Remember(memo, f, io) \in Memos
<1>1. memo.known \cup {f} \in SUBSET Functions
  BY DEF Memos
<1>2. (IF io THEN memo.io \cup {f} ELSE memo.io \ {f}) \in SUBSET Functions
  BY DEF Memos
<1> QED BY <1>1, <1>2 DEF Remember, Memos

LEMMA AnswerType ==
  ASSUME NEW memo \in Memos, NEW io \in BOOLEAN
  PROVE  Answer(io, memo) \in Answers /\ Answer(io, memo).io = io
         /\ Answer(io, memo).memo = memo
BY DEF Answer, Answers

\* A question is answered from the answers at the entries it leads to.
LEMMA AskType ==
  ASSUME funcs \in SUBSET Functions, NEW Rest, NEW memo \in Memos, NEW visiting \in SUBSET Functions, NEW name,
         name \in funcs \ visiting => Rest[Entry(name, memo, visiting)] \in Answers
  PROVE  AskAbout(Rest, name, memo, visiting) \in Answers
<1> DEFINE body == Rest[Entry(name, memo, visiting)]
<1>1. CASE name \notin funcs \/ name \in visiting \/ name \in IoRuntime \/ name \in memo.known
  <2>1. AskAbout(Rest, name, memo, visiting) \in
          {Answer(TRUE, memo), Answer(name \in memo.io, memo), Answer(FALSE, memo)}
    BY <1>1 DEF AskAbout
  <2>2. \A io \in BOOLEAN : Answer(io, memo) \in Answers
    BY AnswerType
  <2>3. (name \in memo.io) \in BOOLEAN
    OBVIOUS
  <2> QED BY <2>1, <2>2, <2>3
<1>2. CASE ~(name \notin funcs \/ name \in visiting \/ name \in IoRuntime \/ name \in memo.known)
  <2>1. AskAbout(Rest, name, memo, visiting) = Answer(body.io, Remember(body.memo, name, body.io))
    BY <1>2 DEF AskAbout
  <2>2. body \in Answers
    BY <1>2
  <2>3. body.io \in BOOLEAN /\ body.memo \in Memos /\ name \in Functions
    BY <1>2, <2>2 DEF Answers
  <2> HIDE DEF body
  <2>4. Remember(body.memo, name, body.io) \in Memos
    BY <2>3, RememberType
  <2> QED BY <2>1, <2>3, <2>4, AnswerType
<1> QED BY <1>1, <1>2

LEMMA LookType ==
  ASSUME funcs \in SUBSET Functions, NEW S, NEW order \in Seq(S),
         NEW Rest \in [Places -> Answers], NEW q \in Places
  PROVE  LookFrom(order, Rest, q) \in Answers
<1>1. q.memo \in Memos /\ q.visiting \in SUBSET Functions
  BY PlaceParts
<1>2. ASSUME NEW memo \in Memos PROVE Rest[After(q, memo)] \in Answers
  BY AfterType
<1> DEFINE found == AskAbout(Rest, order[q.at], q.memo, q.visiting)
<1>3. found \in Answers
  <2>1. ASSUME order[q.at] \in funcs \ q.visiting
        PROVE  Rest[Entry(order[q.at], q.memo, q.visiting)] \in Answers
    BY <1>1, <2>1, EntryType
  <2> QED BY <1>1, <2>1, AskType
<1>4. Answer(FALSE, q.memo) \in Answers
  BY <1>1, AnswerType
<1>5. found.memo \in Memos
  BY <1>3 DEF Answers
<1>6. LookFrom(order, Rest, q) \in
        {Answer(FALSE, q.memo), Rest[After(q, q.memo)], found, Rest[After(q, found.memo)]}
  BY DEF LookFrom
<1> HIDE DEF found
<1> QED BY <1>1, <1>2, <1>3, <1>4, <1>5, <1>6

\* Nothing but the answers nearer to the end decides the answer of a place.
LEMMA LookIsLocal ==
  ASSUME funcs \in SUBSET Functions, NEW S, NEW order \in Seq(S),
         NEW F \in [Places -> Answers], NEW G \in [Places -> Answers], NEW q \in Places,
         \A p \in Places : ToGo(order, p) < ToGo(order, q) => F[p] = G[p]
  PROVE  LookFrom(order, F, q) = LookFrom(order, G, q)
<1>1. q.memo \in Memos /\ q.visiting \in SUBSET Functions /\ q.at \in Nat
  BY PlaceParts
<1>2. CASE q.at > Len(order)
  BY <1>2 DEF LookFrom
<1>3. CASE ~(q.at > Len(order))
  <2> DEFINE n == order[q.at]
             e == Entry(n, q.memo, q.visiting)
             f == AskAbout(F, n, q.memo, q.visiting)
             g == AskAbout(G, n, q.memo, q.visiting)
  <2>1. q.at <= Len(order)
    BY <1>1, <1>3
  <2>2. ASSUME NEW memo \in Memos PROVE F[After(q, memo)] = G[After(q, memo)]
    <3>1. After(q, memo) \in Places
      BY AfterType
    <3> QED BY <2>1, <3>1, NextIsNearer
  <2>3. f = g
    <3>1. CASE n \in funcs \ q.visiting
      <4>1. e \in Places
        BY <1>1, <3>1, EntryType
      <4>2. ToGo(order, e) < ToGo(order, q)
        BY <1>1, <3>1, EntryIsNearer
      <4>3. F[e] = G[e]
        BY <4>1, <4>2
      <4> QED BY <4>3 DEF AskAbout
    <3>2. CASE n \notin funcs \/ n \in q.visiting
      BY <3>2 DEF AskAbout
    <3> QED BY <3>1, <3>2
  <2>4. f.memo \in Memos
    <3>1. n \in funcs \ q.visiting => F[e] \in Answers
      BY <1>1, EntryType
    <3>2. f \in Answers
      BY <1>1, <3>1, AskType
    <3> QED BY <3>2 DEF Answers
  <2>5. F[After(q, q.memo)] = G[After(q, q.memo)]
    BY <1>1, <2>2
  <2>6. F[After(q, f.memo)] = G[After(q, f.memo)]
    BY <2>2, <2>4
  <2>7. LookFrom(order, F, q) = IF n \notin eff[q.f].calls THEN F[After(q, q.memo)]
                                ELSE IF f.io THEN f ELSE F[After(q, f.memo)]
    BY <1>3, Zenon DEF LookFrom
  <2>8. LookFrom(order, G, q) = IF n \notin eff[q.f].calls THEN G[After(q, q.memo)]
                                ELSE IF g.io THEN g ELSE G[After(q, g.memo)]
    BY <1>3, Zenon DEF LookFrom
  <2> HIDE DEF f, g, n
  <2> QED BY <2>3, <2>5, <2>6, <2>7, <2>8
<1> QED BY <1>2, <1>3

\* Answers that are those of the loops wherever fewer than m steps are left.
RightBelow(order, m, F) ==
  /\ F \in [Places -> Answers]
  /\ \A q \in Places : ToGo(order, q) < m => F[q] = LookFrom(order, F, q)

LEMMA OneStepFurther ==
  ASSUME funcs \in SUBSET Functions, NEW S, NEW order \in Seq(S), NEW m \in Nat,
         NEW F, RightBelow(order, m, F)
  PROVE  \E G : RightBelow(order, m + 1, G)
<1> DEFINE G == [q \in Places |-> IF ToGo(order, q) < m THEN F[q] ELSE LookFrom(order, F, q)]
<1>1. F \in [Places -> Answers]
  BY DEF RightBelow
<1>2. G \in [Places -> Answers]
  BY <1>1, LookType
<1>3. ASSUME NEW p \in Places, ToGo(order, p) < m PROVE G[p] = F[p]
  BY <1>3
<1>4. ASSUME NEW q \in Places, ToGo(order, q) < m + 1 PROVE G[q] = LookFrom(order, G, q)
  <2>1. ASSUME NEW p \in Places, ToGo(order, p) < ToGo(order, q) PROVE G[p] = F[p]
    <3>1. ToGo(order, p) \in Nat /\ ToGo(order, q) \in Nat
      BY ToGoType
    <3>2. ToGo(order, p) < m
      BY <1>4, <2>1, <3>1
    <3> QED BY <1>3, <3>2
  <2>2. LookFrom(order, G, q) = LookFrom(order, F, q)
    <3> HIDE DEF G
    <3> QED BY <1>1, <1>2, <2>1, LookIsLocal
  <2>3. CASE ToGo(order, q) < m
    <3>1. F[q] = LookFrom(order, F, q)
      BY <2>3 DEF RightBelow
    <3> QED BY <1>3, <2>2, <2>3, <3>1
  <2>4. CASE ~(ToGo(order, q) < m)
    <3>1. G[q] = LookFrom(order, F, q)
      BY <2>4
    <3> HIDE DEF G
    <3> QED BY <2>2, <3>1
  <2> QED BY <2>3, <2>4
<1>5. RightBelow(order, m + 1, G)
  <2> HIDE DEF G
  <2> QED BY <1>2, <1>4 DEF RightBelow
<1> QED BY <1>5

\* The recursion has a solution, so the function the model defines is one.
LEMMA SearchDefined ==
  ASSUME funcs \in SUBSET Functions, NEW S, NEW order \in Seq(S)
  PROVE  Search(order) = [q \in Places |-> LookFrom(order, Search(order), q)]
<1> DEFINE T == {m \in Nat : \E F : RightBelow(order, m, F)}
<1>1. 0 \in T
  <2> DEFINE F == [q \in Places |-> Answer(FALSE, NoAnswers)]
  <2>1. NoAnswers \in Memos
    BY DEF NoAnswers, Memos
  <2>2. F \in [Places -> Answers]
    BY <2>1, AnswerType
  <2>3. \A q \in Places : ~(ToGo(order, q) < 0)
    BY ToGoType
  <2>4. RightBelow(order, 0, F)
    <3> HIDE DEF F
    <3> QED BY <2>2, <2>3 DEF RightBelow
  <2> HIDE DEF F
  <2> QED BY <2>4
<1>2. ASSUME NEW m \in Nat, m \in T PROVE m + 1 \in T
  <2>1. PICK F : RightBelow(order, m, F)
    BY <1>2
  <2> QED BY <2>1, OneStepFurther
<1>3. Bound(order) + 1 \in T
  <2>1. Bound(order) + 1 \in Nat
    <3>1. Cardinality(Functions) \in Nat /\ Len(order) \in Nat
      BY NamesAreFinite, FS_CardinalityType
    <3>2. Cardinality(Functions) * (Len(order) + 1) \in Nat
      BY <3>1, TimesStep
    <3> QED BY <3>1, <3>2 DEF Bound
  <2> HIDE DEF T
  <2> QED BY <1>1, <1>2, <2>1, Induction
<1>4. PICK F : RightBelow(order, Bound(order) + 1, F)
  BY <1>3
<1>5. \A q \in Places : F[q] = LookFrom(order, F, q)
  <2> SUFFICES ASSUME NEW q \in Places PROVE ToGo(order, q) < Bound(order) + 1
    BY <1>4 DEF RightBelow
  <2>1. ToGo(order, q) \in Nat /\ ToGo(order, q) <= Bound(order)
    BY ToGoType
  <2>2. Bound(order) \in Int
    BY NamesAreFinite, FS_CardinalityType DEF Bound
  <2> QED BY <2>1, <2>2
<1>6. F = [q \in Places |-> LookFrom(order, F, q)]
  BY <1>4, <1>5 DEF RightBelow
<1> QED BY <1>6, Zenon DEF Search

----------------------------------------------------------------------------
(* What reaching I/O means, one call at a time.                            *)

\* A function reaches I/O if its body calls a routine without a body, or
\* another function that reaches I/O.
LEMMA IoByOneCall ==
  ASSUME NEW f \in funcs
  PROVE  Reaches(f, DoesIo) <=>
           \E g \in eff[f].calls : g \notin funcs \/ (g # f /\ Reaches(g, DoesIo))
<1>1. ASSUME NEW g \in eff[f].calls, g \notin funcs PROVE Reaches(f, DoesIo)
  BY <1>1 DEF Reaches, DoesIo
<1>2. ASSUME NEW g \in eff[f].calls, g \in funcs, Reaches(g, DoesIo)
      PROVE  Reaches(f, DoesIo)
  <2> SUFFICES ASSUME NEW C \in SUBSET funcs, f \in C, CallClosed(C)
               PROVE  C \cap DoesIo # {}
    BY DEF Reaches
  <2>1. g \in C
    BY <1>2 DEF CallClosed
  <2> QED BY <1>2, <2>1 DEF Reaches
<1>3. ASSUME \A g \in eff[f].calls : g \in funcs /\ (g = f \/ ~Reaches(g, DoesIo))
      PROVE  ~Reaches(f, DoesIo)
  <2> DEFINE Quiet == {C \in SUBSET funcs : CallClosed(C) /\ C \cap DoesIo = {}}
             U == {f} \cup UNION Quiet
  <2>1. U \in SUBSET funcs /\ f \in U
    OBVIOUS
  <2>2. \A g \in eff[f].calls : g \in U
    <3> SUFFICES ASSUME NEW g \in eff[f].calls, g # f PROVE g \in UNION Quiet
      OBVIOUS
    <3>1. g \in funcs /\ ~Reaches(g, DoesIo)
      BY <1>3
    <3>2. PICK C \in SUBSET funcs : g \in C /\ CallClosed(C) /\ C \cap DoesIo = {}
      BY <3>1 DEF Reaches
    <3>3. C \in Quiet
      BY <3>2
    <3> QED BY <3>2, <3>3
  <2>3. CallClosed(U)
    <3> SUFFICES ASSUME NEW h \in U PROVE eff[h].calls \cap funcs \subseteq U
      BY DEF CallClosed
    <3>1. CASE h = f
      BY <2>2, <3>1
    <3>2. CASE h # f
      <4>1. PICK C \in Quiet : h \in C
        BY <3>2
      <4>2. eff[h].calls \cap funcs \subseteq C
        BY <4>1 DEF CallClosed
      <4> QED BY <4>1, <4>2
    <3> QED BY <3>1, <3>2
  <2>4. U \cap DoesIo = {}
    <3>1. f \notin DoesIo
      BY <1>3 DEF DoesIo
    <3> QED BY <3>1
  <2> QED BY <2>1, <2>3, <2>4 DEF Reaches
<1> QED BY <1>1, <1>2, <1>3

LEMMA ReachesItself ==
  ASSUME NEW f \in funcs
  PROVE  Reaches(f, {f})
BY DEF Reaches

LEMMA ReachesCallee ==
  ASSUME NEW f \in funcs, NEW g \in eff[f].calls, NEW v, Reaches(v, {f}), g \in funcs
  PROVE  Reaches(v, {g})
<1> SUFFICES ASSUME NEW C \in SUBSET funcs, v \in C, CallClosed(C)
             PROVE  C \cap {g} # {}
  BY DEF Reaches
<1>1. f \in C
  BY DEF Reaches
<1>2. g \in C
  BY <1>1 DEF CallClosed
<1> QED BY <1>2

----------------------------------------------------------------------------
(* The answers of the search.                                              *)

\* What is remembered is true.
TrueSoFar(memo) ==
  /\ memo \in Memos
  /\ \A f \in memo.known : f \in funcs /\ (f \in memo.io <=> Reaches(f, DoesIo))

\* The calls of every body are listed.
Lists(order) ==
  /\ order \in Seq(Functions \cup Runtime)
  /\ \A f \in funcs : \A g \in eff[f].calls : \E i \in 1 .. Len(order) : order[i] = g

\* The module the search looks at.
IsModule ==
  /\ funcs \in SUBSET Functions
  /\ CallsLeadBack

\* A place the search comes to: it is inside functions that all lead to the
\* one it looks at, and has remembered nothing of them yet.
Sound(q) ==
  /\ q \in Places
  /\ q.f \in funcs /\ q.f \in q.visiting /\ q.visiting \subseteq funcs
  /\ \A v \in q.visiting : Reaches(v, {q.f})
  /\ TrueSoFar(q.memo) /\ q.memo.known \cap q.visiting = {}

\* A call of f that does I/O for another reason than f itself.
IoCall(f, g) ==
  /\ g \in eff[f].calls
  /\ g \notin funcs \/ (g # f /\ Reaches(g, DoesIo))

IoAhead(order, q) == \E i \in q.at .. Len(order) : IoCall(q.f, order[i])

\* What a memo becomes: it stays true, forgets nothing and keeps apart.
Extends(memo, later, visiting) ==
  /\ TrueSoFar(later)
  /\ memo.known \subseteq later.known
  /\ later.known \cap visiting = {}

Right(order, q, answer) ==
  /\ answer \in Answers
  /\ answer.io <=> IoAhead(order, q)
  /\ Extends(q.memo, answer.memo, q.visiting)

LEMMA RememberTruth ==
  ASSUME NEW memo, TrueSoFar(memo), NEW f \in funcs, funcs \in SUBSET Functions,
         NEW io \in BOOLEAN, io <=> Reaches(f, DoesIo)
  PROVE  /\ TrueSoFar(Remember(memo, f, io))
         /\ Remember(memo, f, io).known = memo.known \cup {f}
<1> DEFINE m == Remember(memo, f, io)
<1>1. m \in Memos
  BY RememberType DEF TrueSoFar
<1>2. m.known = memo.known \cup {f}
      /\ m.io = IF io THEN memo.io \cup {f} ELSE memo.io \ {f}
  BY DEF Remember
<1> HIDE DEF m
<1>3. ASSUME NEW g \in m.known PROVE g \in funcs /\ (g \in m.io <=> Reaches(g, DoesIo))
  BY <1>2 DEF TrueSoFar
<1> QED BY <1>1, <1>2, <1>3 DEF TrueSoFar, m

\* A function that is not being searched is answered truly if its body is.
LEMMA FunctionRight ==
  ASSUME IsModule, NEW order, Lists(order), NEW Rest, NEW memo, TrueSoFar(memo),
         NEW visiting \in SUBSET funcs, memo.known \cap visiting = {},
         NEW name \in funcs \ visiting,
         name \notin memo.known =>
           Right(order, Entry(name, memo, visiting), Rest[Entry(name, memo, visiting)])
  PROVE  /\ AskAbout(Rest, name, memo, visiting) \in Answers
         /\ AskAbout(Rest, name, memo, visiting).io <=> Reaches(name, DoesIo)
         /\ Extends(memo, AskAbout(Rest, name, memo, visiting).memo, visiting)
         /\ name \in AskAbout(Rest, name, memo, visiting).memo.known
<1>1. memo \in Memos /\ name \in Functions /\ name \notin Runtime /\ name \notin IoRuntime
  BY RuntimeAssumption, IoRuntimeAssumption DEF TrueSoFar, IsModule
<1>2. CASE name \in memo.known
  <2>1. AskAbout(Rest, name, memo, visiting) = Answer(name \in memo.io, memo)
    BY <1>1, <1>2 DEF AskAbout
  <2>2. (name \in memo.io) \in BOOLEAN /\ (name \in memo.io <=> Reaches(name, DoesIo))
    BY <1>2 DEF TrueSoFar
  <2>3. /\ Answer(name \in memo.io, memo) \in Answers
        /\ Answer(name \in memo.io, memo).io = (name \in memo.io)
        /\ Answer(name \in memo.io, memo).memo = memo
    BY <1>1, <2>2, AnswerType, Zenon
  <2>4. Extends(memo, memo, visiting)
    BY DEF Extends
  <2> QED BY <1>2, <2>1, <2>2, <2>3, <2>4, Zenon
<1>3. CASE name \notin memo.known
  <2> DEFINE e == Entry(name, memo, visiting)
             body == Rest[e]
  <2>1. AskAbout(Rest, name, memo, visiting) = Answer(body.io, Remember(body.memo, name, body.io))
    BY <1>1, <1>3 DEF AskAbout
  <2>2. e \in Places /\ e.f = name /\ e.at = 1 /\ e.memo = memo
        /\ e.visiting = visiting \cup {name}
    BY <1>1, EntryType DEF IsModule
  <2>3. body \in Answers /\ (body.io <=> IoAhead(order, e)) /\ Extends(memo, body.memo, visiting \cup {name})
    BY <1>3, <2>2 DEF Right
  <2>4. IoAhead(order, e) <=> \E i \in 1 .. Len(order) : IoCall(name, order[i])
    BY <2>2 DEF IoAhead
  <2>5. (\E i \in 1 .. Len(order) : IoCall(name, order[i])) <=> Reaches(name, DoesIo)
    BY IoByOneCall DEF IoCall, Lists
  <2> HIDE DEF body, e
  <2>6. body.io \in BOOLEAN /\ (body.io <=> Reaches(name, DoesIo)) /\ TrueSoFar(body.memo)
    BY <2>3, <2>4, <2>5 DEF Answers, Extends
  <2> DEFINE m == Remember(body.memo, name, body.io)
  <2>7. TrueSoFar(m) /\ m.known = body.memo.known \cup {name} /\ m \in Memos
    BY <2>6, RememberTruth DEF TrueSoFar, IsModule
  <2> HIDE DEF m
  <2>8. Extends(memo, m, visiting) /\ name \in m.known
    BY <2>3, <2>7 DEF Extends
  <2>9. AskAbout(Rest, name, memo, visiting) = Answer(body.io, m)
    BY <2>1 DEF m
  <2> QED BY <2>6, <2>7, <2>8, <2>9, AnswerType
<1> QED BY <1>2, <1>3

\* A place is answered truly if the places after it are.
LEMMA PlaceRight ==
  ASSUME IsModule, NEW order, Lists(order), NEW Rest, NEW q, Sound(q),
         \A p \in Places : Sound(p) /\ ToGo(order, p) < ToGo(order, q)
                             => Right(order, p, Rest[p])
  PROVE  Right(order, q, LookFrom(order, Rest, q))
<1>1. /\ q \in Places /\ q.f \in funcs /\ q.f \in q.visiting /\ q.visiting \in SUBSET funcs
      /\ \A v \in q.visiting : Reaches(v, {q.f})
      /\ TrueSoFar(q.memo) /\ q.memo.known \cap q.visiting = {}
  BY DEF Sound
<1>2. q.memo \in Memos /\ q.at \in Nat /\ q.at >= 1 /\ Len(order) \in Nat
      /\ order \in Seq(Functions \cup Runtime)
  BY <1>1, PlaceParts DEF Lists
<1>3. Extends(q.memo, q.memo, q.visiting)
  BY <1>1 DEF Extends
<1>4. CASE q.at > Len(order)
  <2>1. LookFrom(order, Rest, q) = Answer(FALSE, q.memo)
    BY <1>4 DEF LookFrom
  <2>2. ~IoAhead(order, q)
    BY <1>2, <1>4 DEF IoAhead
  <2>3. /\ Answer(FALSE, q.memo) \in Answers /\ Answer(FALSE, q.memo).io = FALSE
        /\ Answer(FALSE, q.memo).memo = q.memo
    BY <1>2, AnswerType
  <2> QED BY <1>3, <2>1, <2>2, <2>3 DEF Right
<1>5. CASE q.at <= Len(order)
  <2>0. ~(q.at > Len(order))
    BY <1>2, <1>5
  <2> DEFINE name == order[q.at]
             found == AskAbout(Rest, name, q.memo, q.visiting)
  <2>1. IoAhead(order, q) <=> IoCall(q.f, name) \/ \E i \in q.at + 1 .. Len(order) : IoCall(q.f, order[i])
    <3>1. \A i : i \in q.at .. Len(order) <=> i = q.at \/ i \in q.at + 1 .. Len(order)
      BY <1>2, <1>5
    <3> QED BY <3>1 DEF IoAhead
  \* The instructions after this one.
  <2>2. ASSUME NEW memo, Extends(q.memo, memo, q.visiting),
               ~IoCall(q.f, name)
        PROVE  Right(order, q, Rest[After(q, memo)])
    <3> DEFINE p == After(q, memo)
    <3>1. memo \in Memos
      BY <2>2 DEF Extends, TrueSoFar
    <3>2. p \in Places /\ p.f = q.f /\ p.at = q.at + 1 /\ p.memo = memo /\ p.visiting = q.visiting
      BY <1>1, <3>1, AfterType
    <3>3. ToGo(order, p) < ToGo(order, q)
      BY <1>1, <1>2, <1>5, <3>1, NextIsNearer
    <3> HIDE DEF p
    <3>4. Sound(p)
      BY <1>1, <2>2, <3>2 DEF Sound, Extends
    <3>5. Right(order, p, Rest[p])
      BY <3>2, <3>3, <3>4
    <3>6. IoAhead(order, p) <=> IoAhead(order, q)
      BY <2>1, <2>2, <3>2 DEF IoAhead
    <3>7. \A later : Extends(memo, later, q.visiting) => Extends(q.memo, later, q.visiting)
      BY <2>2 DEF Extends
    <3>8. Right(order, q, Rest[p])
      BY <3>2, <3>5, <3>6, <3>7 DEF Right
    <3> QED BY <3>8 DEF p
  <2>3. CASE name \notin eff[q.f].calls
    <3>1. ~IoCall(q.f, name)
      BY <2>3 DEF IoCall
    <3>2. LookFrom(order, Rest, q) = Rest[After(q, q.memo)]
      BY <2>0, <2>3, Zenon DEF LookFrom
    <3> QED BY <1>3, <2>2, <3>1, <3>2
  <2>4. CASE name \in eff[q.f].calls
    <3>1. /\ found \in Answers
          /\ found.io <=> IoCall(q.f, name)
          /\ Extends(q.memo, found.memo, q.visiting)
      <4>1. CASE name \in funcs /\ name \notin q.visiting
        <5> DEFINE e == Entry(name, q.memo, q.visiting)
        <5>1. ASSUME name \notin q.memo.known PROVE Right(order, e, Rest[e])
          <6>1. e \in Places /\ e.f = name /\ e.at = 1 /\ e.memo = q.memo
                /\ e.visiting = q.visiting \cup {name}
            BY <1>1, <1>2, <4>1, EntryType DEF IsModule
          <6>2. ToGo(order, e) < ToGo(order, q)
            <7>1. name \in Functions \ q.visiting
              BY <4>1 DEF IsModule
            <7> QED BY <1>1, <1>2, <7>1, EntryIsNearer
          <6> HIDE DEF e
          <6>3. \A v \in e.visiting : Reaches(v, {name})
            BY <1>1, <2>4, <4>1, <6>1, ReachesItself, ReachesCallee
          <6>4. Sound(e)
            BY <1>1, <4>1, <5>1, <6>1, <6>3 DEF Sound
          <6> QED BY <6>1, <6>2, <6>4
        <5>2. /\ found \in Answers
              /\ found.io <=> Reaches(name, DoesIo)
              /\ Extends(q.memo, found.memo, q.visiting)
          <6> HIDE DEF name
          <6> QED BY <1>1, <4>1, <5>1, FunctionRight
        <5>3. name # q.f
          BY <1>1, <4>1
        <5> QED BY <2>4, <4>1, <5>2, <5>3 DEF IoCall
      <4>2. CASE name \in funcs /\ name \in q.visiting
        <5>1. name \notin Runtime /\ name \notin IoRuntime /\ name \notin q.memo.known
          BY <1>1, <4>2, RuntimeAssumption, IoRuntimeAssumption DEF IsModule
        <5>2. found = Answer(FALSE, q.memo)
          BY <4>2, <5>1 DEF AskAbout
        <5>3. name = q.f
          <6>1. Reaches(name, {q.f})
            BY <1>1, <4>2
          <6>2. Reaches(q.f, {name})
            BY <1>1, <2>4, <4>2, ReachesItself, ReachesCallee
          <6> QED BY <1>1, <4>2, <6>1, <6>2 DEF IsModule, CallsLeadBack
        <5>4. ~IoCall(q.f, name)
          BY <4>2, <5>3 DEF IoCall
        <5>5. /\ Answer(FALSE, q.memo) \in Answers /\ Answer(FALSE, q.memo).io = FALSE
              /\ Answer(FALSE, q.memo).memo = q.memo
          BY <1>2, AnswerType
        <5> QED BY <1>3, <5>2, <5>4, <5>5
      <4>3. CASE name \notin funcs
        <5>1. name \notin q.memo.known
          BY <1>1, <4>3 DEF TrueSoFar
        <5>2. found = Answer(TRUE, q.memo)
          BY <4>3, <5>1 DEF AskAbout
        <5>3. IoCall(q.f, name)
          BY <2>4, <4>3 DEF IoCall
        <5>4. /\ Answer(TRUE, q.memo) \in Answers /\ Answer(TRUE, q.memo).io = TRUE
              /\ Answer(TRUE, q.memo).memo = q.memo
          BY <1>2, AnswerType
        <5> QED BY <1>3, <5>2, <5>3, <5>4
      <4> QED BY <4>1, <4>2, <4>3
    <3>2. LookFrom(order, Rest, q) = IF found.io THEN found ELSE Rest[After(q, found.memo)]
      BY <2>0, <2>4, Zenon DEF LookFrom
    <3> HIDE DEF found, name
    <3>3. CASE found.io
      BY <2>1, <3>1, <3>2, <3>3 DEF Right
    <3>4. CASE ~found.io
      BY <2>2, <3>1, <3>2, <3>4
    <3> QED BY <3>3, <3>4
  <2> QED BY <2>3, <2>4
<1> QED BY <1>2, <1>4, <1>5

\* Every place the search comes to is answered truly.
LEMMA SearchRight ==
  ASSUME IsModule, NEW order, Lists(order)
  PROVE  \A q \in Places : Sound(q) => Right(order, q, Search(order)[q])
<1> DEFINE Rest == Search(order)
<1>1. order \in Seq(Functions \cup Runtime) /\ funcs \in SUBSET Functions
  BY DEF Lists, IsModule
<1>2. Rest = [q \in Places |-> LookFrom(order, Rest, q)]
  BY <1>1, SearchDefined, Zenon
<1> HIDE DEF Rest
<1>3. \A q \in Places : Rest[q] = LookFrom(order, Rest, q)
  <2> DEFINE G == [q \in Places |-> LookFrom(order, Rest, q)]
  <2>1. \A q \in Places : G[q] = LookFrom(order, Rest, q)
    OBVIOUS
  <2>2. Rest = G
    BY <1>2
  <2> HIDE DEF G
  <2> QED BY <2>1, <2>2
<1> DEFINE T == {m \in Nat : \A q \in Places :
                               Sound(q) /\ ToGo(order, q) < m => Right(order, q, Rest[q])}
<1>4. 0 \in T
  BY <1>1, ToGoType
<1>5. ASSUME NEW m \in Nat, m \in T PROVE m + 1 \in T
  <2> SUFFICES ASSUME NEW q \in Places, Sound(q), ToGo(order, q) < m + 1
               PROVE  Right(order, q, Rest[q])
    OBVIOUS
  <2>1. ASSUME NEW p \in Places, Sound(p), ToGo(order, p) < ToGo(order, q)
        PROVE  Right(order, p, Rest[p])
    <3>1. ToGo(order, p) \in Nat /\ ToGo(order, q) \in Nat
      BY <1>1, ToGoType
    <3>2. ToGo(order, p) < m
      BY <2>1, <3>1
    <3> QED BY <1>5, <2>1, <3>2
  <2>2. Right(order, q, LookFrom(order, Rest, q))
    BY <2>1, PlaceRight
  <2> QED BY <1>3, <2>2
<1>6. \A m \in Nat : m \in T
  <2> HIDE DEF T
  <2> QED BY <1>4, <1>5, Induction
<1>7. ASSUME NEW q \in Places, Sound(q) PROVE Right(order, q, Rest[q])
  <2>1. ToGo(order, q) \in Nat
    BY <1>1, ToGoType
  <2>2. ToGo(order, q) + 1 \in T /\ ToGo(order, q) < ToGo(order, q) + 1
    BY <1>6, <2>1
  <2> QED BY <1>7, <2>2
<1> QED BY <1>7 DEF Rest

\* One question more: the memo stays true and holds the answer.
LEMMA QuestionRight ==
  ASSUME IsModule, NEW order, Lists(order), NEW memo, TrueSoFar(memo), NEW name \in funcs
  PROVE  /\ TrueSoFar(CanReachRuntimeIo(order, name, memo, {}).memo)
         /\ memo.known \subseteq CanReachRuntimeIo(order, name, memo, {}).memo.known
         /\ name \in CanReachRuntimeIo(order, name, memo, {}).memo.known
<1> DEFINE e == Entry(name, memo, {})
           Rest == Search(order)
<1>1. e \in Places /\ e.f = name /\ e.memo = memo /\ e.visiting = {name}
  BY EntryType DEF IsModule, TrueSoFar
<1>2. ASSUME name \notin memo.known PROVE Right(order, e, Rest[e])
  <2> HIDE DEF e, Rest
  <2>1. Sound(e)
    BY <1>1, <1>2, ReachesItself DEF Sound
  <2> QED BY <1>1, <2>1, SearchRight DEF Rest
<1>3. Extends(memo, AskAbout(Rest, name, memo, {}).memo, {})
      /\ name \in AskAbout(Rest, name, memo, {}).memo.known
  <2> HIDE DEF Rest
  <2> QED BY <1>2, FunctionRight
<1> QED BY <1>3, Zenon DEF CanReachRuntimeIo, Extends

\* The memo after every question, from the memo before it.
NextMemo(order, asked, M, n) ==
  IF n = 0 THEN NoAnswers ELSE CanReachRuntimeIo(order, asked[n], M[n - 1], {}).memo

LEMMA MemosDefined ==
  ASSUME NEW order, NEW asked, Len(asked) \in Nat
  PROVE  \E M : /\ M = [n \in 0 .. Len(asked) |-> NextMemo(order, asked, M, n)]
                /\ MemoAfter(order, asked) = M[Len(asked)]
<1> DEFINE L == Len(asked)
           To(m, M) == /\ M = [n \in 0 .. L |-> M[n]]
                       /\ \A n \in 0 .. m : M[n] = NextMemo(order, asked, M, n)
           S == {m \in 0 .. L : \E M : To(m, M)}
<1>0. L \in Nat
  OBVIOUS
<1> HIDE DEF L
<1>1. 0 \in S
  <2> DEFINE M == [n \in 0 .. L |-> NoAnswers]
  <2>1. M = [n \in 0 .. L |-> M[n]]
    OBVIOUS
  <2>2. M[0] = NoAnswers
    BY <1>0
  <2>3. ASSUME NEW n \in 0 .. 0 PROVE M[n] = NextMemo(order, asked, M, n)
    <3>1. n = 0
      OBVIOUS
    <3> HIDE DEF M
    <3> QED BY <2>2, <3>1 DEF NextMemo
  <2>4. To(0, M)
    <3> HIDE DEF M
    <3> QED BY <2>1, <2>3
  <2> HIDE DEF To, M
  <2> QED BY <1>0, <2>4
<1>2. ASSUME NEW m \in 0 .. L - 1, m \in S PROVE m + 1 \in S
  <2>1. PICK F : To(m, F)
    BY <1>2
  <2> DEFINE v == NextMemo(order, asked, F, m + 1)
             M == [n \in 0 .. L |-> IF n = m + 1 THEN v ELSE F[n]]
  <2>2. M = [n \in 0 .. L |-> M[n]]
    OBVIOUS
  <2>3. M[m + 1] = v /\ \A n \in 0 .. m : M[n] = F[n]
    <3> HIDE DEF v
    <3> QED BY <1>0
  <2>4. ASSUME NEW n \in 0 .. m + 1 PROVE M[n] = NextMemo(order, asked, M, n)
    <3> HIDE DEF M
    <3>1. CASE n = m + 1
      <4>1. (m + 1) - 1 = m /\ m \in 0 .. m
        BY <1>0
      <4>2. NextMemo(order, asked, M, m + 1) = NextMemo(order, asked, F, m + 1)
        BY <2>3, <4>1, Zenon DEF NextMemo
      <4> QED BY <2>3, <3>1, <4>2, Zenon
    <3>2. CASE n \in 0 .. m
      <4>1. n # 0 => n - 1 \in 0 .. m
        BY <1>0, <3>2
      <4>2. F[n] = NextMemo(order, asked, F, n)
        BY <2>1, <3>2, Zenon
      <4>3. NextMemo(order, asked, M, n) = NextMemo(order, asked, F, n)
        BY <2>3, <4>1, Zenon DEF NextMemo
      <4> QED BY <2>3, <3>2, <4>2, <4>3, Zenon
    <3>3. n = m + 1 \/ n \in 0 .. m
      BY <1>0
    <3> QED BY <3>1, <3>2, <3>3
  <2>5. To(m + 1, M)
    <3> HIDE DEF M
    <3> QED BY <2>2, <2>4, Zenon
  <2>6. m + 1 \in 0 .. L
    BY <1>0
  <2> HIDE DEF To, M
  <2> QED BY <2>5, <2>6
<1>3. 0 .. L \subseteq S
  <2>1. 0 \in Int /\ L \in Int
    BY <1>0
  <2> HIDE DEF S
  <2> QED BY <1>1, <1>2, <2>1, InductionUpTo, Zenon
<1>4. PICK M : To(L, M)
  <2>1. L \in S
    <3>1. L \in 0 .. L
      BY <1>0
    <3> HIDE DEF S
    <3> QED BY <1>3, <3>1
  <2> HIDE DEF To
  <2> QED BY <2>1
<1>5. M = [n \in 0 .. L |-> NextMemo(order, asked, M, n)]
  BY <1>4
<1> DEFINE C == CHOOSE F : F = [n \in 0 .. Len(asked) |->
                                  IF n = 0 THEN NoAnswers
                                  ELSE CanReachRuntimeIo(order, asked[n], F[n - 1], {}).memo]
<1>6. C = [n \in 0 .. Len(asked) |-> NextMemo(order, asked, C, n)]
  BY <1>5, Zenon DEF NextMemo, L
<1>7. MemoAfter(order, asked) = C[Len(asked)]
  BY Zenon DEF MemoAfter
<1> HIDE DEF C
<1> QED BY <1>6, <1>7

\* After any questions the memo is true and holds all the answers.
LEMMA QuestionsRight ==
  ASSUME IsModule, NEW order, Lists(order), NEW asked \in Seq(funcs)
  PROVE  /\ TrueSoFar(MemoAfter(order, asked))
         /\ \A i \in 1 .. Len(asked) : asked[i] \in MemoAfter(order, asked).known
<1> DEFINE L == Len(asked)
<1>0. L \in Nat
  OBVIOUS
<1>1. PICK M : /\ M = [n \in 0 .. L |-> NextMemo(order, asked, M, n)]
               /\ MemoAfter(order, asked) = M[L]
  BY <1>0, MemosDefined
<1>2. \A n \in 0 .. L : M[n] = NextMemo(order, asked, M, n)
  <2> DEFINE G == [n \in 0 .. L |-> NextMemo(order, asked, M, n)]
  <2>1. \A n \in 0 .. L : G[n] = NextMemo(order, asked, M, n)
    OBVIOUS
  <2>2. M = G
    BY <1>1
  <2> HIDE DEF G
  <2> QED BY <2>1, <2>2
<1> DEFINE T == {n \in 0 .. L : /\ TrueSoFar(M[n])
                                /\ \A i \in 1 .. n : asked[i] \in M[n].known}
<1>3. 0 \in T
  <2>1. M[0] = NoAnswers
    BY <1>0, <1>2 DEF NextMemo
  <2>2. TrueSoFar(NoAnswers)
    BY DEF TrueSoFar, NoAnswers, Memos
  <2> QED BY <1>0, <2>1, <2>2
<1>4. ASSUME NEW n \in 0 .. L - 1, n \in T PROVE n + 1 \in T
  <2>1. n + 1 \in 1 .. L /\ n + 1 \in 0 .. L /\ n + 1 # 0 /\ (n + 1) - 1 = n
    BY <1>0
  <2>2. asked[n + 1] \in funcs
    BY <2>1
  <2>3. M[n + 1] = CanReachRuntimeIo(order, asked[n + 1], M[n], {}).memo
    BY <1>2, <2>1, Zenon DEF NextMemo
  <2>4. TrueSoFar(M[n])
    BY <1>4
  <2>5. TrueSoFar(M[n + 1]) /\ M[n].known \subseteq M[n + 1].known
        /\ asked[n + 1] \in M[n + 1].known
    BY <2>2, <2>3, <2>4, QuestionRight, Zenon
  <2>6. ASSUME NEW i \in 1 .. n + 1 PROVE asked[i] \in M[n + 1].known
    <3>1. i = n + 1 \/ i \in 1 .. n
      BY <1>0
    <3> QED BY <1>4, <2>5, <3>1
  <2> QED BY <2>1, <2>5, <2>6
<1>5. 0 .. L \subseteq T
  <2>1. 0 \in Int /\ L \in Int
    BY <1>0
  <2> HIDE DEF T
  <2> QED BY <1>3, <1>4, <2>1, InductionUpTo, Zenon
<1>6. L \in T
  <2>1. L \in 0 .. L
    BY <1>0
  <2> HIDE DEF T
  <2> QED BY <1>5, <2>1
<1> QED BY <1>1, <1>6

----------------------------------------------------------------------------
(* The property.                                                           *)

\* A listing of a finite set leaves no element out.
LEMMA ListingCovers ==
  ASSUME NEW S, IsFiniteSet(S), NEW s \in SetToSeqs(S)
  PROVE  s \in Seq(S) /\ \A x \in S : \E i \in 1 .. Len(s) : s[i] = x
<1> DEFINE D == 1 .. Cardinality(S)
<1>1. Cardinality(S) \in Nat
  BY FS_CardinalityType
<1>2. s \in [D -> S] /\ \A i, j \in D : i # j => s[i] # s[j]
  BY DEF SetToSeqs
<1>3. s \in Seq(S) /\ Len(s) = Cardinality(S)
  BY <1>1, <1>2
<1>4. s \in Injection(D, S)
  BY <1>2 DEF Injection, IsInjective
<1>5. Cardinality(D) = Cardinality(S)
  BY <1>1, FS_Interval
<1>6. s \in Surjection(D, S)
  BY <1>4, <1>5, FS_Injection
<1>7. \A x \in S : \E i \in D : s[i] = x
  BY <1>6 DEF Surjection
<1> QED BY <1>3, <1>7

\* Listings of the functions and of the routines, one after the other, list
\* every call.
LEMMA BothListed ==
  ASSUME funcs \in SUBSET Functions, NoDanglingCall,
         NEW s, NEW t, s \in Seq(Functions \cup Runtime), t \in Seq(Functions \cup Runtime),
         \A x \in funcs \cup Runtime :
            \/ \E i \in 1 .. Len(s) : s[i] = x
            \/ \E i \in 1 .. Len(t) : t[i] = x
  PROVE  Lists(s \o t)
<1>1. s \o t \in Seq(Functions \cup Runtime) /\ Len(s \o t) = Len(s) + Len(t)
      /\ Len(s) \in Nat /\ Len(t) \in Nat
  OBVIOUS
<1>2. ASSUME NEW x \in funcs \cup Runtime PROVE \E i \in 1 .. Len(s \o t) : (s \o t)[i] = x
  <2>1. CASE \E i \in 1 .. Len(s) : s[i] = x
    <3>1. PICK i \in 1 .. Len(s) : s[i] = x
      BY <2>1
    <3>2. i \in 1 .. Len(s \o t) /\ (s \o t)[i] = x
      BY <1>1, <3>1
    <3> QED BY <3>2
  <2>2. CASE \E i \in 1 .. Len(t) : t[i] = x
    <3>1. PICK i \in 1 .. Len(t) : t[i] = x
      BY <2>2
    <3>2. Len(s) + i \in 1 .. Len(s \o t) /\ (s \o t)[Len(s) + i] = x
      BY <1>1, <3>1
    <3> QED BY <3>2
  <2> QED BY <2>1, <2>2
<1>3. \A f \in funcs : \A g \in eff[f].calls : g \in funcs \cup Runtime
  BY DEF NoDanglingCall
<1> QED BY <1>1, <1>2, <1>3 DEF Lists

\* After questions about all the functions every answer is there and true.
LEMMA AllAsked ==
  ASSUME IsModule, NEW order, Lists(order), NEW asked \in Seq(funcs),
         \A x \in funcs : \E i \in 1 .. Len(asked) : asked[i] = x
  PROVE  AnswersAreTrue(MemoAfter(order, asked))
<1>1. /\ TrueSoFar(MemoAfter(order, asked))
      /\ \A i \in 1 .. Len(asked) : asked[i] \in MemoAfter(order, asked).known
  BY QuestionsRight
<1> QED BY <1>1 DEF TrueSoFar, AnswersAreTrue

(* functionCanReachRuntimeIo tells whether runtime I/O can be reached, of    *)
(* every function of every module without mutual recursion, in the orders of *)
(* calls and questions of IoAnswersAreTrue; AllAsked, from which it follows, *)
(* says it of any order of the two.                                          *)
THEOREM IoAnswersStayTrue == Spec => []IoAnswersAreTrue
<1>1. Inv => IoAnswersAreTrue
  <2> SUFFICES ASSUME Inv, CallsLeadBack,
                      NEW names \in SetToSeqs(funcs), NEW routines \in SetToSeqs(Runtime)
               PROVE  /\ AnswersAreTrue(MemoAfter(names \o routines, Reverse(names)))
                      /\ AnswersAreTrue(MemoAfter(routines \o names, names))
    BY DEF IoAnswersAreTrue
  <2>1. funcs \in SUBSET Functions /\ NoDanglingCall
    BY DEF Inv, TypeOK
  <2>2. IsModule
    BY <2>1 DEF IsModule
  <2>3. IsFiniteSet(funcs) /\ IsFiniteSet(Runtime)
    BY <2>1, NamesAreFinite, FS_Subset
  <2>4. names \in Seq(funcs) /\ \A x \in funcs : \E i \in 1 .. Len(names) : names[i] = x
    BY <2>3, ListingCovers
  <2>5. routines \in Seq(Runtime) /\ \A x \in Runtime : \E i \in 1 .. Len(routines) : routines[i] = x
    BY <2>3, ListingCovers
  <2>6. names \in Seq(Functions \cup Runtime) /\ routines \in Seq(Functions \cup Runtime)
    <3>1. funcs \subseteq Functions \cup Runtime /\ Runtime \subseteq Functions \cup Runtime
      BY <2>1
    <3>2. Seq(funcs) \subseteq Seq(Functions \cup Runtime) /\ Seq(Runtime) \subseteq Seq(Functions \cup Runtime)
      BY <3>1
    <3> QED BY <2>4, <2>5, <3>2
  <2>7. Lists(names \o routines) /\ Lists(routines \o names)
    BY <2>1, <2>4, <2>5, <2>6, BothListed
  <2>8. /\ Reverse(names) \in Seq(funcs)
        /\ \A x \in funcs : \E i \in 1 .. Len(Reverse(names)) : Reverse(names)[i] = x
    <3> DEFINE n == Len(names)
               r == [i \in 1 .. n |-> names[(n - i) + 1]]
    <3>1. n \in Nat
      BY <2>4
    <3>2. Reverse(names) = r
      BY DEF Reverse
    <3>3. \A i \in 1 .. n : (n - i) + 1 \in 1 .. n /\ (n - ((n - i) + 1)) + 1 = i
      BY <3>1
    <3>4. r \in [1 .. n -> funcs]
      BY <2>4, <3>3
    <3>5. r \in Seq(funcs) /\ Len(r) = n
      BY <3>1, <3>4
    <3>6. ASSUME NEW x \in funcs PROVE \E i \in 1 .. n : r[i] = x
      <4>1. PICK i \in 1 .. n : names[i] = x
        BY <2>4
      <4>2. r[(n - i) + 1] = x
        BY <3>3, <4>1
      <4> QED BY <3>3, <4>2
    <3> HIDE DEF r, n
    <3> QED BY <3>2, <3>5, <3>6
  <2> QED BY <2>2, <2>4, <2>7, <2>8, AllAsked
<1>2. QED
  BY <1>1, Invariance, PTL
============================================================================
