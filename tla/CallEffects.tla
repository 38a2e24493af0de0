---------------------------- MODULE CallEffects ----------------------------
(***************************************************************************)
(* The interprocedural skeleton of optimize() (src/src/ir/ir.cpp): the two *)
(* whole-module summaries it computes by erasing candidates until nothing  *)
(* changes, the inliner that merges a callee's effects into its caller,    *)
(* the worklist that deletes functions main cannot reach, and the          *)
(* per-function passes, which may only take effects away.                  *)
(*                                                                         *)
(* A function is reduced to what these steps read of it: whether its body  *)
(* stores or loads, whether its signature bars it from being pure, and     *)
(* which names it calls.  The sets of std::unordered_set are iterated in   *)
(* any order, so a sweep visits its candidates in any order.               *)
(***************************************************************************)
EXTENDS Naturals

CONSTANTS
  Functions,          \* names of the functions the builder emitted
  Main,               \* the entry function; sema's checkMainExists demands it
  Runtime,            \* names of the SysY runtime library
  NonWritingRuntime,  \* those runtimeCallDoesNotWriteUserMemory accepts
  Programs            \* the modules optimize() may be handed

Effect == [store : BOOLEAN, load : BOOLEAN, opaque : BOOLEAN,
           calls : SUBSET (Functions \cup Runtime)]

ASSUME MainAssumption == Main \in Functions
ASSUME RuntimeAssumption == /\ Runtime \cap Functions = {}
                            /\ NonWritingRuntime \subseteq Runtime
ASSUME ProgramsAssumption == Programs \subseteq [Functions -> Effect]

VARIABLES
  stage,           \* 1: the first while loop of optimize(), 2: the SSA loop
  phase,           \* the step of the loop body that runs now
  funcs,           \* names of the functions still in the module
  eff,             \* the effects of every function's body
  candidates,      \* the set a summary is erasing from
  unvisited,       \* candidates the current sweep has not looked at yet
  changed,         \* did the current sweep erase anything
  nonClobbering,   \* the memory summary the rest of the loop body uses
  pure,            \* the purity summary of the last call CSE
  uninlined,       \* callers the inliner has not rewritten yet
  reachable,       \* functions the worklist has marked
  worklist         \* marked functions whose callees are not marked yet

vars == <<stage, phase, funcs, eff, candidates, unvisited, changed,
          nonClobbering, pure, uninlined, reachable, worklist>>

sweepVars == <<candidates, unvisited, changed>>
reachVars == <<reachable, worklist>>

Phases == {"memory", "inline", "reach", "fold", "pure", "local", "done"}

----------------------------------------------------------------------------
(* What a summary starts from and what it follows.                         *)

\* memoryNonClobberingFunctionNames: no store, and no call that leaves the
\* module for a routine that may write user memory.
MemoryCandidate(f) ==
  /\ ~eff[f].store
  /\ eff[f].calls \ funcs \subseteq NonWritingRuntime

\* pureFunctionNames: returns a value, takes no pointer, touches no memory.
PureCandidateOf(e) == ~e.opaque /\ ~e.store /\ ~e.load

\* Mutation: a call that leaves the module is as good as none.
FollowedInside(p, f) == eff[f].calls \cap funcs

\* The callees a summary requires to be candidates too.  The memory summary
\* has already settled its runtime calls; purity accepts none of them.
Followed(p, f) == IF p = "memory" THEN eff[f].calls \cap funcs ELSE eff[f].calls

Sweeping == phase \in {"memory", "pure"}

----------------------------------------------------------------------------
\* The summaries share one loop: while (changed) { for each candidate ... }.
StartSweep ==
  /\ Sweeping /\ changed /\ unvisited = {}
  /\ unvisited' = candidates
  /\ changed' = FALSE
  /\ UNCHANGED <<stage, phase, funcs, eff, candidates, nonClobbering, pure,
                 uninlined, reachVars>>

\* Mutation: an erasure does not ask for another sweep.
VisitOnce(f) ==
  /\ Sweeping /\ f \in unvisited
  /\ unvisited' = unvisited \ {f}
  /\ candidates' = IF Followed(phase, f) \subseteq candidates
                    THEN candidates ELSE candidates \ {f}
  /\ UNCHANGED <<changed, stage, phase, funcs, eff, nonClobbering, pure, uninlined,
                 reachVars>>

\* Mutation: every visit asks for another sweep.
VisitAgain(f) ==
  /\ Sweeping /\ f \in unvisited
  /\ unvisited' = unvisited \ {f}
  /\ candidates' = IF Followed(phase, f) \subseteq candidates
                    THEN candidates ELSE candidates \ {f}
  /\ changed' = TRUE
  /\ UNCHANGED <<stage, phase, funcs, eff, nonClobbering, pure, uninlined, reachVars>>

Visit(f) ==
  /\ Sweeping /\ f \in unvisited
  /\ unvisited' = unvisited \ {f}
  /\ IF Followed(phase, f) \subseteq candidates
     THEN UNCHANGED <<candidates, changed>>
     ELSE candidates' = candidates \ {f} /\ changed' = TRUE
  /\ UNCHANGED <<stage, phase, funcs, eff, nonClobbering, pure, uninlined,
                 reachVars>>

SweepsOver == ~changed /\ unvisited = {}

\* eliminatePureCallCommonSubexpressions begins by computing its own summary.
EnterPure ==
  /\ phase' = "pure"
  /\ candidates' = {f \in funcs : PureCandidateOf(eff'[f])}
  /\ unvisited' = {} /\ changed' = TRUE

\* Mutation: the summary is taken before the sweeps are over.
FinishMemorySoon ==
  /\ phase = "memory"
  /\ nonClobbering' = candidates
  /\ phase' = "inline"
  /\ uninlined' = funcs
  /\ UNCHANGED <<stage, funcs, eff, sweepVars, pure, reachVars>>

FinishMemory ==
  /\ phase = "memory" /\ SweepsOver
  /\ nonClobbering' = candidates
  /\ IF stage = 1
     THEN /\ phase' = "inline"
          /\ uninlined' = funcs
          /\ UNCHANGED <<stage, funcs, eff, sweepVars, pure, reachVars>>
     ELSE /\ UNCHANGED <<stage, funcs, eff, pure, uninlined, reachVars>>
          /\ EnterPure

FinishPure ==
  /\ phase = "pure" /\ SweepsOver
  /\ pure' = candidates
  /\ phase' = IF stage = 1 THEN "local" ELSE "fold"
  /\ UNCHANGED <<stage, funcs, eff, sweepVars, nonClobbering, uninlined,
                 reachVars>>

----------------------------------------------------------------------------
\* inlineSmallFunctions.  Which call sites qualify depends on sizes and
\* operand shapes that are not modelled, so any subset of the callees that
\* canInlineSingleBlock does not reject for calling or for being the caller
\* itself may be spliced in; the callee's body is read as it is NOW, after
\* earlier callers of the same pass were rewritten in place.
Inlinable(caller) ==
  {g \in eff[caller].calls \cap funcs : g # caller /\ eff[g].calls = {}}

Splice(caller, callees) ==
  [store |-> \E g \in callees \cup {caller} : eff[g].store,
   load |-> \E g \in callees \cup {caller} : eff[g].load,
   opaque |-> eff[caller].opaque,
   calls |-> eff[caller].calls \ callees]

\* Mutation: a function whose body was spliced in leaves the module at once.
InlineAndDrop(caller) ==
  /\ phase = "inline" /\ caller \in uninlined
  /\ uninlined' = uninlined \ {caller}
  /\ \E callees \in SUBSET Inlinable(caller) :
       /\ eff' = [eff EXCEPT ![caller] = Splice(caller, callees)]
       /\ funcs' = funcs \ callees
  /\ UNCHANGED <<stage, phase, sweepVars, nonClobbering, pure, reachVars>>

InlineInto(caller) ==
  /\ phase = "inline" /\ caller \in uninlined
  /\ uninlined' = uninlined \ {caller}
  /\ \E callees \in SUBSET Inlinable(caller) :
       eff' = [eff EXCEPT ![caller] = Splice(caller, callees)]
  /\ UNCHANGED <<stage, phase, funcs, sweepVars, nonClobbering, pure, reachVars>>

FinishInline ==
  /\ phase = "inline" /\ uninlined = {}
  /\ phase' = "reach"
  /\ reachable' = {Main} /\ worklist' = {Main}
  /\ UNCHANGED <<stage, funcs, eff, sweepVars, nonClobbering, pure, uninlined>>

----------------------------------------------------------------------------
\* Mutation: a function is marked and its callees are not looked at.
MarkCalleesOnly(f) ==
  /\ phase = "reach" /\ f \in worklist
  /\ reachable' = reachable \cup (eff[f].calls \cap funcs)
  /\ worklist' = worklist \ {f}
  /\ UNCHANGED <<stage, phase, funcs, eff, sweepVars, nonClobbering, pure, uninlined>>

\* removeUnreachableFunctions: pop one name and mark its callees.  The code
\* pops the last one pushed; the order does not matter to what is marked.
MarkCallees(f) ==
  /\ phase = "reach" /\ f \in worklist
  /\ LET fresh == (eff[f].calls \cap funcs) \ reachable
     IN  /\ reachable' = reachable \cup fresh
         /\ worklist' = (worklist \ {f}) \cup fresh
  /\ UNCHANGED <<stage, phase, funcs, eff, sweepVars, nonClobbering, pure,
                 uninlined>>

\* Mutation: the erasing does not wait for the marking.
EraseUnmarked ==
  /\ phase = "reach"
  /\ funcs' = funcs \cap reachable
  /\ phase' = "fold"
  /\ UNCHANGED <<stage, eff, sweepVars, nonClobbering, pure, uninlined, reachVars>>

EraseUnreachable ==
  /\ phase = "reach" /\ worklist = {}
  /\ funcs' = funcs \cap reachable
  /\ phase' = "fold"
  /\ UNCHANGED <<stage, eff, sweepVars, nonClobbering, pure, uninlined,
                 reachVars>>

----------------------------------------------------------------------------
\* foldReadOnlyGlobalLoads, the first user of the summary: it turns loads of
\* globals nobody writes into constants, before the purity summary in the
\* first loop and after it in the SSA loop.
FoldReadOnlyLoads ==
  /\ phase = "fold"
  /\ \E folded \in SUBSET {f \in funcs : eff[f].load} :
       eff' = [f \in Functions |->
                 IF f \in folded THEN [eff[f] EXCEPT !.load = FALSE] ELSE eff[f]]
  /\ UNCHANGED <<stage, funcs, nonClobbering, pure, uninlined, reachVars>>
  /\ IF stage = 1
     THEN EnterPure
     ELSE phase' = "local" /\ UNCHANGED sweepVars

----------------------------------------------------------------------------
\* The per-function passes delete blocks, loads, stores and calls; none of
\* them adds one.  A step is one function's run through them.
Weakenings(e) ==
  [store : {e.store, FALSE}, load : {e.load, FALSE}, opaque : {e.opaque},
   calls : SUBSET e.calls]

LocalPasses(f) ==
  /\ phase = "local" /\ f \in funcs
  /\ \E e \in Weakenings(eff[f]) : eff' = [eff EXCEPT ![f] = e]
  /\ UNCHANGED <<stage, phase, funcs, sweepVars, nonClobbering, pure,
                 uninlined, reachVars>>

EnterMemory ==
  /\ phase' = "memory"
  /\ candidates' = {f \in funcs : MemoryCandidate(f)}
  /\ unvisited' = {} /\ changed' = TRUE

\* Mutation: the SSA loop, once left, is followed by one more.
NextStage ==
  /\ phase = "local"
  /\ stage' \in {stage, stage + 1}
  /\ EnterMemory
  /\ UNCHANGED <<funcs, eff, nonClobbering, pure, uninlined, reachVars>>

\* Another round of the loop (a pass may change code without changing any
\* effect), on to the SSA loop, or out of optimize().
NextRound ==
  /\ phase = "local"
  /\ stage' \in {s \in {1, 2} : s >= stage}
  /\ EnterMemory
  /\ UNCHANGED <<funcs, eff, nonClobbering, pure, uninlined, reachVars>>

Stop ==
  /\ phase = "local" /\ stage = 2
  /\ phase' = "done"
  /\ UNCHANGED <<stage, funcs, eff, sweepVars, nonClobbering, pure, uninlined,
                 reachVars>>

Init ==
  /\ stage = 1 /\ phase = "memory"
  /\ funcs = Functions
  /\ eff \in Programs
  /\ candidates = {f \in funcs : MemoryCandidate(f)}
  /\ unvisited = {} /\ changed = TRUE
  /\ nonClobbering = {} /\ pure = {}
  /\ uninlined = {} /\ reachable = {} /\ worklist = {}

Summarise == StartSweep \/ (\E f \in Functions : Visit(f))
               \/ FinishMemory \/ FinishPure
Mark == (\E f \in Functions : MarkCallees(f)) \/ EraseUnreachable
Rewrite == (\E f \in Functions : InlineInto(f) \/ LocalPasses(f))
             \/ FinishInline \/ FoldReadOnlyLoads

Next == Summarise \/ Mark \/ Rewrite \/ NextRound \/ Stop

Spec == Init /\ [][Next]_vars

\* One thread runs optimize(): an analysis that has a step to take takes it.
FairSpec == Spec /\ WF_vars(Summarise) /\ WF_vars(Mark)

----------------------------------------------------------------------------
(* What the summaries mean, said without the way they are computed.        *)

CallClosed(S) == \A f \in S : eff[f].calls \cap funcs \subseteq S

\* Some function in Bad is reached from f along the calls of the module.
Reaches(f, Bad) ==
  \A S \in SUBSET funcs : f \in S /\ CallClosed(S) => S \cap Bad # {}

Writers == {g \in funcs : ~MemoryCandidate(g)}
Effectful == {g \in funcs : \/ ~PureCandidateOf(eff[g])
                            \/ ~(eff[g].calls \subseteq funcs)}

MayWrite(f) == Reaches(f, Writers)
MayHaveEffect(f) == Reaches(f, Effectful)

CalledFromMain(f) ==
  \A S \in SUBSET funcs : Main \in S /\ CallClosed(S) => f \in S

TypeOK ==
  /\ stage \in {1, 2} /\ phase \in Phases
  /\ funcs \in SUBSET Functions
  /\ eff \in [Functions -> Effect]
  /\ candidates \in SUBSET Functions /\ unvisited \in SUBSET Functions
  /\ changed \in BOOLEAN
  /\ nonClobbering \in SUBSET Functions /\ pure \in SUBSET Functions
  /\ uninlined \in SUBSET Functions
  /\ reachable \in SUBSET Functions /\ worklist \in SUBSET Functions

\* memoryNonClobberingFunctionNames returns exactly the functions from which
\* no store and no writing runtime call can be reached, in whatever order
\* the set is swept and however the calls are knotted into cycles.
MemorySummaryExact ==
  [][FinishMemory => nonClobbering' = {f \in funcs : ~MayWrite(f)}]_vars

\* The same for pureFunctionNames, which the call CSE trusts when it drops
\* a second call with equal arguments.
PureSummaryExact ==
  [][FinishPure => pure' = {f \in funcs : ~MayHaveEffect(f)}]_vars

\* optimize() computes the memory summary once per round and goes on using
\* it after inlining, function removal and the passes have rewritten the
\* very bodies it was computed from: it never becomes too optimistic.
StaleSummarySound ==
  \A f \in nonClobbering \cap funcs : ~MayWrite(f)

\* removeUnreachableFunctions erases every function main cannot reach and
\* no other; in particular emitAssembly never sees a call without a body.
OnlyUnreachableErased ==
  [][EraseUnreachable => funcs' = {f \in funcs : CalledFromMain(f)}]_vars

\* A function some remaining body calls is still in the module, although
\* inlining and erasing both delete what the module holds.
NoDanglingCall ==
  \A f \in funcs : eff[f].calls \subseteq funcs \cup Runtime

\* The abstract specification of the summaries, read off the call graph.
Summary == INSTANCE CallSummary WITH
             writers <- {f \in funcs : MayWrite(f)},
             effectful <- {f \in funcs : MayHaveEffect(f)},
             needed <- {f \in funcs : CalledFromMain(f)}

\* optimize() implements it: sweeps and markings are stutters of the abstract
\* specification until the step that delivers their result, and no inlining,
\* folding or local pass lets a function reach an effect it did not reach.
ImplementsSummary == Summary!Spec

\* Each summary and the marking come to an end, on cyclic call graphs too.
AnalysesEnd ==
  /\ (phase = "memory") ~> (phase # "memory")
  /\ (phase = "pure") ~> (phase # "pure")
  /\ (phase = "reach") ~> (phase # "reach")

============================================================================
