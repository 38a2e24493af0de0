------------------------------ MODULE Optimizer ------------------------------
(***************************************************************************)
(* optimize() of src/src/ir/ir.cpp: the order in which the passes run on a *)
(* module, the two loops that repeat them until a whole round changes      *)
(* nothing, and the facts computed once (the parameters that never alias)  *)
(* or once a round (the calls that write no memory) and used while the     *)
(* passes change the code under them.  One action per pass; the state      *)
(* between two actions is the module between two passes.                   *)
(***************************************************************************)
EXTENDS Builder, CfgPasses, MemoryPasses, ModulePasses, Language

CONSTANT
  Corpus    \* the translation units: [unit |-> syntax tree, inputs |-> set of sequences];
            \* a run of one ends within 2^Fuel steps, or never

VARIABLES
  prog,      \* the module
  phase,     \* "memory", "ssa" (the second loop) or "done"
  todo,      \* the passes left of this round, each with its function
  again,     \* the round has changed something
  harmless,  \* nonClobberingCalls of this round
  apart,     \* noAliasParamPairs, of the module as it was built
  meaning    \* what the unit means, on each input

vars == <<prog, phase, todo, again, harmless, apart, meaning>>

----------------------------------------------------------------------------
(* The order of the passes.                                                *)

Whole == "whole module"
PerFunction == "per function"
OnModule(names) == [k \in DOMAIN names |-> <<names[k], Whole>>]

MemoryRound == OnModule(<<"collapse loops", "inline", "remove functions",
                          "read-only loads", "pure calls", PerFunction>>)
MemoryPassList ==
  <<"truncate", "promote in block", "forward local", "forward slots", "forward exact",
    "dead stores", "fold", "additive", "linear", "negations", "trivial phis", "sccp",
    "local cse", "global cse", "branches", "boolean returns", "unreachable blocks",
    "empty jumps", "merge blocks", "hoist", "dead code", "dead allocas">>

SsaRound == OnModule(<<"pure calls", "read-only loads", PerFunction, "collapse loops">>)
SsaPassList ==
  <<"truncate", "promote to ssa", "forward local", "forward exact", "trivial phis", "fold",
    "additive", "linear", "negations", "trivial phis", "sccp", "local cse", "global cse",
    "branches", "boolean returns", "unreachable blocks", "dead stores", "dead code",
    "dead allocas", "empty jumps", "merge blocks", "hoist">>

Round(p) == IF p = "memory" THEN MemoryRound ELSE SsaRound
PassList(p) == IF p = "memory" THEN MemoryPassList ELSE SsaPassList

Init ==
  /\ \E c \in Corpus :
       /\ prog = Build(c.unit)
       /\ meaning = [in \in c.inputs |-> Meant(c.unit, in)]
  /\ phase = "memory"
  /\ todo = MemoryRound
  /\ again = FALSE
  /\ harmless = HarmlessCalls(prog)
  /\ apart = [f \in DOMAIN prog.funs |-> NoAliasParamPairs(prog.funs, f)]

----------------------------------------------------------------------------
At(name) == todo # <<>> /\ Head(todo)[1] = name

\* A pass is over: the code it leaves, and whether that is a change.
Pass(new) ==
  /\ prog' = new
  /\ todo' = Tail(todo)
  /\ again' = (again \/ new # prog)
  /\ UNCHANGED <<phase, harmless, apart, meaning>>

Rewriting(f, Op(_)) == [prog EXCEPT !.funs[f] = Op(@)]
LocalPass(name, Op(_)) == At(name) /\ Pass(Rewriting(Head(todo)[2], Op))
ModulePass(name, Op(_)) == At(name) /\ Pass(Op(prog))

CollapseLoops == ModulePass("collapse loops", CollapseIdempotentCountedLoops)
Inline == ModulePass("inline", InlineSmallFunctions)
RemoveFunctions == ModulePass("remove functions", RemoveUnreachableFunctions)
PureCalls == ModulePass("pure calls", EliminatePureCalls)
ReadOnlyLoads ==
  ModulePass("read-only loads", LAMBDA p : FoldReadOnlyGlobalLoads(p, harmless))

Truncate == LocalPass("truncate", TruncateAfterTerminators)
PromoteInBlock == LocalPass("promote in block", PromoteSingleBlockAllocas)
PromoteToSsa == LocalPass("promote to ssa", PromoteScalarAllocasToSSA)
ForwardLocal == LocalPass("forward local", LAMBDA fn : ForwardLocalMemory(fn, harmless))
ForwardSlots == LocalPass("forward slots", ForwardCrossBlockMemory)
ForwardExact ==
  LocalPass("forward exact", LAMBDA fn : ForwardCrossBlockExactMemory(fn, harmless))
DeadStoresPass ==
  \E intact \in BOOLEAN :
    LocalPass("dead stores", LAMBDA fn : EliminateLocalDeadStores(fn, intact))
Fold == LocalPass("fold", FoldConstants)
Additive == LocalPass("additive", CombineAdditiveConstants)
Linear == LocalPass("linear", SimplifyLinearI32Expressions)
Negations == LocalPass("negations", SimplifyBooleanNegations)
TrivialPhis == LocalPass("trivial phis", SimplifyTrivialPhis)
Sccp == LocalPass("sccp", SparseConditionalConstantPropagation)
LocalCse == LocalPass("local cse", EliminateCommonSubexpressions)
GlobalCse == LocalPass("global cse", EliminateGlobalCommonSubexpressions)
Branches == LocalPass("branches", SimplifyBranches)
BooleanReturns == LocalPass("boolean returns", SimplifyBooleanReturnBranches)
UnreachableBlocks == LocalPass("unreachable blocks", RemoveUnreachableBlocks)
EmptyJumps == LocalPass("empty jumps", RemoveEmptyJumpBlocks)
MergeBlocks == LocalPass("merge blocks", MergeLinearBlocks)
Hoist ==
  LocalPass("hoist", LAMBDA fn : HoistLoopInvariants(fn, apart[Head(todo)[2]]))
DeadCode == LocalPass("dead code", EliminateDeadCode)
DeadAllocas == LocalPass("dead allocas", EliminateDeadAllocas)

\* The loop over the functions, in the order the module has by then.
EachFunction ==
  /\ At(PerFunction)
  /\ LET On(f) == [k \in DOMAIN PassList(phase) |-> <<PassList(phase)[k], f>>]
     IN  todo' = FlattenSeq([k \in DOMAIN prog.order |-> On(prog.order[k])]) \o Tail(todo)
  /\ UNCHANGED <<prog, phase, again, harmless, apart, meaning>>

\* Mutation: once something has changed, there is always another round.
RoundAfterRound ==
  /\ todo = <<>>
  /\ phase # "done"
  /\ phase' = IF again THEN phase ELSE IF phase = "memory" THEN "ssa" ELSE "done"
  /\ todo' = IF phase' = "done" THEN <<>> ELSE Round(phase')
  /\ harmless' = IF phase' = "done" THEN harmless ELSE HarmlessCalls(prog)
  /\ UNCHANGED <<prog, again, apart, meaning>>

\* The end of a round: another one if it has changed anything.
NextRound ==
  /\ todo = <<>>
  /\ phase # "done"
  /\ phase' = IF again THEN phase ELSE IF phase = "memory" THEN "ssa" ELSE "done"
  /\ todo' = IF phase' = "done" THEN <<>> ELSE Round(phase')
  /\ again' = FALSE
  /\ harmless' = IF phase' = "done" THEN harmless ELSE HarmlessCalls(prog)
  /\ UNCHANGED <<prog, apart, meaning>>

ModuleStep == CollapseLoops \/ Inline \/ RemoveFunctions \/ ReadOnlyLoads \/ PureCalls
MemoryStep == PromoteInBlock \/ PromoteToSsa \/ ForwardLocal \/ ForwardSlots \/ ForwardExact
              \/ DeadStoresPass \/ DeadAllocas \/ Hoist
ScalarStep == Fold \/ Additive \/ Linear \/ Negations \/ TrivialPhis \/ Sccp
              \/ LocalCse \/ GlobalCse \/ DeadCode
CfgStep == Truncate \/ Branches \/ BooleanReturns \/ UnreachableBlocks \/ EmptyJumps
           \/ MergeBlocks
APass == ModuleStep \/ MemoryStep \/ ScalarStep \/ CfgStep

Next == APass \/ EachFunction \/ NextRound

Spec == Init /\ [][Next]_vars
\* The compiler is one thread that does nothing else: WF_vars(Next), written
\* out, for Next is enabled, and changes todo, until phase is "done".
FairSpec == Spec /\ ([]<>(phase = "done") \/ []<><<TRUE>>_vars)

----------------------------------------------------------------------------
(* Properties.                                                             *)

Functions == DOMAIN prog.funs
Everywhere(p, P(_)) == \A f \in DOMAIN p.funs : P(p.funs[f])

\* The steps left are passes this phase has, each on a function of the module.
TypeOK ==
  /\ phase \in {"memory", "ssa", "done"}
  /\ again \in BOOLEAN
  /\ Range(prog.order) = Functions
  /\ \A s \in Range(todo) :
       \/ s \in Range(Round(phase))
       \/ s[1] \in Range(PassList(phase)) /\ s[2] \in Functions

\* No pass leaves a branch to a block it, or another, has deleted: the back
\* end would print a jump to a label that is nowhere.
BranchesHold(p) == Everywhere(p, BranchesBound)
BranchesAreBound == BranchesHold(prog) /\ [][prog' # prog => BranchesHold(prog')]_vars

\* No pass leaves an operand whose instruction was deleted, and none makes
\* two instructions compute the same id.
ResultsUnique(fn) == \A id \in Results(fn) : Cardinality(Defined(fn, id)) = 1
OperandsHold(p) == Everywhere(p, LAMBDA fn : OperandsBound(fn) /\ ResultsUnique(fn))
OperandsAreBound == OperandsHold(prog) /\ [][prog' # prog => OperandsHold(prog')]_vars

\* In every function the dominators are right: see Dominators.
DominatorsHold(p) == Everywhere(p, LAMBDA fn : DominatorsRight(Predecessors(fn), Graph(fn)))
DominatorsAreRight == DominatorsHold(prog) /\ [][prog' # prog => DominatorsHold(prog')]_vars

\* Where control can get to, every operand has been computed on every path
\* to its use; what a phi takes from a predecessor, by that block's end.
ComputedBefore(fn, dom, id, b, k) ==
  \/ id \in Range(fn.params)
  \/ \E j \in 1 .. (k - 1) : fn.blocks[b].insts[j].res = id
  \/ \E c \in dom[b] \ {b} : \E i \in Range(fn.blocks[c].insts) : i.res = id

Variables(args) == {v[2] : v \in {w \in Range(args) : IsVar(w)}}

PhiComputed(fn, dom, b, i) ==
  \A p \in {q \in DOMAIN dom : b \in Successors(fn, q)} :
    LET edges == SelectSeq([n \in DOMAIN i.args |-> n],
                           LAMBDA n : i.labs[n] = fn.blocks[p].label)
        taken == [n \in DOMAIN edges |-> i.args[edges[n]]]
    IN  /\ edges # <<>>
        /\ \A id \in Variables(taken) :
             ComputedBefore(fn, dom, id, p, 1 + Len(fn.blocks[p].insts))

UsesDominated(fn) ==
  LET dom == Table(AllDominators(Graph(fn)))
  IN  \A b \in DOMAIN dom : \A k \in DOMAIN fn.blocks[b].insts :
        LET i == fn.blocks[b].insts[k]
        IN  IF i.op = "phi" THEN PhiComputed(fn, dom, b, i)
            ELSE \A id \in Variables(i.args) : ComputedBefore(fn, dom, id, b, k)

DominanceHolds(p) == Everywhere(p, UsesDominated)
DefinitionsDominateUses == DominanceHolds(prog) /\ [][prog' # prog => DominanceHolds(prog')]_vars

\* Facts computed earlier are still true of the code they are used on: a
\* function taken not to write memory does not, and parameters taken to be
\* different objects are.
MayWriteMemory(f) ==
  \E h \in ReachableFunctions(prog, {f}) :
    \/ "store" \in OpsOf(prog.funs[h])
    \/ ~(Calls(prog.funs[h]) \subseteq Functions \cup QuietRuntime)
FactsStayTrue ==
  /\ \A f \in harmless \cap Functions : ~MayWriteMemory(f)
  /\ \A f \in Functions : CallSites(prog.funs, f) # {} =>
                            apart[f] \subseteq NoAliasParamPairs(prog.funs, f)

\* The module as it is built, and at the beginning of each round, does on
\* every input what the program means: loops and branches in blocks, names in
\* slots, "&&" and "||" in jumps, subscripts in sums.
BuiltAsWritten ==
  todo = Round(phase) =>
    \A in \in DOMAIN meaning : MayReplace(meaning[in], Run(prog, in, Fuel))

\* No pass changes what the program does: on every input it still writes and
\* returns what its source means.
MeaningKept ==
  [][prog' # prog => \A in \in DOMAIN meaning : MayReplace(meaning[in], Run(prog', in, Fuel))]_vars

\* The passes do not undo each other for ever.
OptimizerEnds == <>(phase = "done")

============================================================================
