# Compiler2026: a TLA+ development of the SysY compiler

The repository is a compiler from SysY (a C subset with `int`, `float` and arrays)
to AArch64 assembly: lexer, parser, semantic analysis, IR builder, an optimizer of about
30 passes, a code generator, and a peephole on the text it prints. This directory models all of
these for programs on integers: the front end on every short input of chosen families, the IR and
its optimizer on corpora of programs, the code generator down to the assembly, which a model of
the processor runs, and each rewriting of the assembly. Each stage is held to a reference that
shares nothing with it: the words and the grammar of the language, the rules of what is legal, an
interpreter of syntax trees, one of the IR, the processor. TLC checks the modules; TLAPS proves
theorems about the lexer, the parser, the scopes and counters of semantic analysis, the call-graph
summaries and the search for input and output, dominators, and the code generator's quotients, remainders,
products, literals, distances, frame and copies.

Source lines are cited as they are in the repository; `ir.cpp`, `builder.cpp` and
`emit.cpp` stand for `src/ir/ir.cpp`, `src/ir/builder.cpp` and
`src/backend/arm/emit.cpp`; other files are those of `src/frontend`.

## Inventory

| Component | State it keeps | Operations | What makes it correct |
|---|---|---|---|
| Lexer (`src/frontend/lexer.*`) | position, line, column | next token; comments, numbers, identifiers | every input ends in one EOF token; maximal munch; positions |
| Parser (`src/frontend/parser.*`) | token index, error list | recursive descent, `skipToRecoveryPoint`, an assignment that is tried and read again as an expression | exactly the grammar, and its only tree; recovery ends; a trial that is given up leaves nothing behind |
| Semantic analysis (`src/frontend/sema.*`, `symbol.*`, `type.*`) | scope stack, loop depth, return type, errors | declarations, expressions, constant evaluation, initialisers | scoping; constant values equal those of the builder; accepted programs are those the builder expects |
| IR builder (`src/ir/builder.*`) | blocks so far, next value id, next label, scopes, loop targets, constants | one function per syntax node | the IR means what the tree means; operands are bound; initialisers |
| IR data and CFG (`src/ir/ir.hpp`, `ir.cpp:559-830`) | module, functions, blocks, instructions, targets and phi labels held as text | successors, predecessors, dominators, replacement maps | dominators are what they claim |
| Scalar passes (`ir.cpp:141-450, 1998-2860, 3514-3540`) | replacement map, lattice, expression tables | folding, linear forms, phis, SCCP, two CSEs, dead code | meaning kept; no operand loses its definition |
| Memory passes (`ir.cpp:450-557, 766-795, 1189-1996, 2859-3168, 3542-3676`) | known cells by textual key, slots, liveness, loops | promotion, forwarding, dead stores, hoisting | a remembered cell is the cell's value; nothing moves before what it needs |
| Control-flow passes (`ir.cpp:172-187, 3170-3512`) | redirections | branches, unreachable blocks, empty jumps, merges, boolean returns | branches have targets; phi labels follow edges |
| Module passes (`ir.cpp:831-1187, 3678-4077`) | summaries, call maps | inlining, erasing, pure calls, read-only globals, counted loops | summaries are sound when used; calls have bodies |
| Optimizer driver (`ir.cpp:4343-4590`) | round, `changed`, the facts of the round | two loops until a round changes nothing | it ends; facts are true when they are used |
| Intrinsic lowerings (`ir.cpp:4079-4341`) | none | recognise a whole function | the recognised function computes what the kernel does |
| Code generator (`emit.cpp`) | slots of the frame, results put off until their use, phi copies, where the stack pointer is | one printing function per instruction, after an analysis of the function | slots do not overlap; copies act at once; the assembly does what the program does |
| Peephole (`emit.cpp:100-1848`) | the printed lines; has this round changed one | fourteen rewritings of neighbouring lines, in rounds; the loop that prints what is left | a rewritten text does what it did: no register, slot or flag is still needed that a rewriting drops |
| Driver (`src/main.cpp`) | options | stages in sequence | diagnostics stop the compilation |
| Runtime (`tests/runtime/sylib.c`) | stdin, stdout | input and output routines | external to the compiler |

The components talk by handing over one data structure (text, tokens, tree, module,
text); there are no threads, callbacks, messages or persistent state. What is hard is
of another kind: some thirty rewriting passes, run again and again in two loops, each
of which relies on what the others left; analyses that sweep hash sets in whatever
order these have; facts computed before other passes rewrite the code they speak of;
names of blocks and memory cells kept as text that different passes spell differently.
`PROJECT.json` lists these hazards by line.

## Modules

| Module | Models | Notes |
|---|---|---|
| `Lexer`, `LexerRules` | `lexer.cpp`; the words of the language | an action per token or per round of a loop over blanks |
| `Lexer_proofs` | theorems on the lexer, and on what it reads | TLAPS |
| `Parser`, `ParserRules` | `parser.cpp`; the grammar | the calls that are not over are a list of things to do; tokens are chosen as they are looked at |
| `Parser_proofs` | theorems on the parser's state | TLAPS |
| `Sema`, `SemaRules` | `sema.cpp`, `symbol.cpp`, `type.cpp`; what is legal | the walk over a tree that is chosen piece by piece |
| `Sema_proofs` | theorems on the walk, and on the scopes it keeps | TLAPS |
| `DataInduction` | induction over numbers, for the proofs | TLAPS |
| `Values` | constants, variables, addresses of globals | shared by `IR` and `Frame` |
| `Dominators` | flow graphs: searches, dominators, their tree; what dominators are, by paths | shared by `IR` and its theorem |
| `Dominators_proofs` | the theorem that the two agree | TLAPS |
| `IR` | instructions, blocks, functions; predecessors, successors, replacement | `Sweep` is the loop over all instructions with a replacement map that the passes share |
| `Builder` | `builder.cpp` for integers | syntax trees are records; `Build(unit)` is the module of a translation unit |
| `Language` | what a syntax tree means: an interpreter without blocks, slots or instructions | external to the compiler: the reference the builder, and all behind it, is held to |
| `IRSemantics` | what IR does: a machine over integers of W bits | external to the compiler, with the runtime library |
| `CfgPasses`, `ScalarPasses`, `MemoryPasses`, `ModulePasses` | one operator per pass, function to function or module to module | |
| `Optimizer` | `optimize()`: a state machine whose state is the module between two passes, one action per pass | composes all of the above |
| `CallEffects` | the two summaries, inlining and erasing, step by step on abstracted functions | arbitrary call graphs |
| `CallSummary` | what the passes rely on when they consult a summary: one step to the set it should be | the abstract specification that `CallEffects` implements |
| `IoReachability` | `functionCanReachRuntimeIo`, with its memo and its provisional answer on a cycle | on the call graphs of `CallEffects` |
| `CallEffects_proofs` | theorems on the three, the refinement among them | TLAPS |
| `Assembly` | lines of assembly as records, and what they read and write | shared by the next five |
| `Immediates` | literals, addresses, products, quotients and remainders by constants: powers of two, the magic multipliers and their search | pure operators |
| `BitHelpers` | the functions the code generator takes for one operation on bits, and what it prints for them | recognised by some of their instructions |
| `Frame` | the frame of a function, room below room; the order in which slots are copied | shared by `Emission` and its theorems |
| `Codegen_proofs` | theorems on quotients, remainders, products and literals, on distances, on the frame and on copies | TLAPS |
| `NonNegative` | the inference of values that are not negative, on which shorter divisions rest | iterates as the code does |
| `Emission` | the generic path of `emit.cpp`: analysis of a function, frame, the instructions printed for each instruction of the IR | pure operators |
| `Peephole` | `optimizeAssemblyPeepholes`: one action per rewriting at a place of the text, its rounds, and the printing loop | texts of any origin |
| `Backend` | the text from the last line printed to the text written | composes `Compiler` and `Peephole` |
| `Compiler` | `emitFunction` and its loop over the instructions, behind the optimizer, as `main.cpp` has them | composes `Optimizer` and `Emission` |
| `A64` | the processor, the assembler's labels, the procedure call standard | external to the compiler |
| `MCLexer`, `MCParser`, `MCSema` | families of texts, of token sequences, of programs | |
| `MCOptimizer` | the four corpora the builder and the optimizer run on | |
| `MCPrograms` | how programs are written down for the corpora | shared by `MCOptimizer` and `MCCode`; with the programs of two disagreements, two more are in `MCCode` |
| `MCCode` | twelve programs, chosen by what the code generator and the peephole do with them | |
| `MCPeephole` | families of short texts | `Peephole` and `A64`, no compiler |
| `MCInitialisers` | array initialisers | `Builder` and `IRSemantics`, no optimizer |
| `MCCallEffects` | all call graphs of three functions | |

### How state and actions correspond to the code

* `Lexer`: `pos` and `location` are `pos_`, `line_` and `column_`; an action is one round of
  the loops in `skipWhitespaceAndComments` or one `lexX` function. The reference, `Reading`, says which
  stretches of a text are words, without a position that moves.
* `Parser.todo` is the C++ stack: an entry is a call that has still to be made, or the rest of
  a function after its call; `built` holds the trees that are finished; `pos` is `pos_`. A trial
  (`parseStmt` on an assignment) is an entry that remembers where to go back to. `Read` lets
  the input grow by one token when the parser looks at it, so that a behaviour is one input and all inputs with a
  common beginning share its parsing.
* `Sema`: `scopes` is the chain from the global scope to `current_`, `nest` the nodes around the
  walk, `loopDepth` and `current` are `loopDepth_` and `currentFunction_`. An action is what
  the analyser does on entering or leaving one node; expressions are analysed at once, by a
  function over all expressions that follows `analyzeExpr` case by case.
* `Optimizer.prog` is the `Module` that `optimize()` owns; `todo` the passes that are
  left of the current loop body, each with the function it is run on, so that the
  state between two actions is the module between two calls in `optimize()`; `again`
  is `changed`; `harmless` is `nonClobberingCalls`, which the code computes at the top
  of a round and hands to passes that run after others have rewritten the functions;
  `apart` is `noAliasParamPairs`, computed once before any pass.
* A pass is an operator with the name of its C++ function. Where the code makes a walk
  with a mutable map, the operator folds over the blocks or instructions with the same
  state; where it iterates to a fixpoint, it iterates.
* Values are `<<"const", n>>`, `<<"var", id>>` or `<<"global", name>>`; an opcode's text
  (`Instruction.text`) becomes the field it stands for: labels of branches and phis,
  predicate, callee. The one place where the spelling of that text matters is kept: a
  phi label list written by `replacePhiPredecessorLabel` is told from one written by
  the SSA pass, since `phiPredecessorLabels` reads the two differently.
* `Language.Meant` follows the tree: a state has the visible names, memory, input and output, and
  how it goes on (`flow`), which is how `break`, `continue` and `return` leave what they are in. It is
  the only reader of syntax trees besides `Builder` and has no code in common with it.
* `CallEffects` abstracts a function to what the summaries read: a store, a load, a
  signature that bars purity, and the names it calls. Everything the other passes can
  do to a function is the action `LocalPasses`, which may take away any of these and
  add none; inlining is `InlineInto`, on the callee as it is by then.
* `Compiler.known` is what `emitFunction` has found out about the function at hand before it
  prints (definitions, counts of uses, the results that get no slot, the slots, the copies of
  each edge), `at` the place in its loop over blocks and instructions, `code` the output.
  There is one action per alternative of that loop: a call of the function itself before a
  return, a call and a value returned at once, a terminator, any other instruction. The
  flag `moved` of the operators in `Emission` is `temporarySpDepth_ != 0`.
* `Peephole.text` is the vector of lines, `nth` the rewriting that is at work, `from` the line its loop
  looks at, `changed` its answer so far. An action rewrites the first place from there on at which
  the conditions hold, and goes on where that loop goes on: at the same line, behind it, or one
  before it. What a rewriting asks of the text ahead (is this register dead, can this slot have
  changed) is an operator with the name of the function that asks.

### Abstractions

* Integers are W bits wide (8 in the runs of the optimizer, 16 in those of the code) in the interpreter and the processor; the folding of
  constants is unbounded, as the 64 bits of the code are against its 32. The code does not
  depend on the width except there and in immediates.
* Floats and casts are left out behind the parser, but for the types of `Sema` and its constants.
* Lexer and parser: alphabets, keywords and operators are cut down to one of each kind that is
  treated differently; of an error only the place is kept.
* Where a pass iterates an unordered container and the choice can be seen in the result
  (which of two slots comes first), the model takes the smallest. In `CallEffects`,
  where the order is the point, it takes any.
* Limits that keep passes from huge functions (block and instruction counts, register
  pressure in the CSEs and in the inliner beyond its 24 instructions) do not bind on
  programs of this size and are left out.
* `eliminateLocalDeadStores` reads definitions through pointers into instruction lists
  it has since replaced. What such a pointer yields is undefined; `intact` in
  `DeadStoresPass` chooses between the definition being still readable and not.
* Code generator: functions that are recognised as whole kernels are printed
  like any other; those recognised as a bit operation, and the choice between two scalars, are
  modelled. The data section is the words and zeros of each global, without alignment.
  Labels are tuples. Memory is a map of cells of four bytes, a pointer takes two. Words are W
  bits in the products and quotients too: the magic multipliers are searched for W bits by the code's
  own search.
* Peephole: lines are records, not text, but where the code compares text and gets another answer
  than a comparison of operands would give (an offset written behind the bracket, a
  second register), the model gives the code's answer. Floating point and vector lines are
  left out, and with them the rewritings of these.
* A run of a program is cut after 2^Fuel steps (256 to 512 in the runs of the optimizer, 2048 in
  that of the code, whose loops over 32 bits are the longest). A program that is still running then
  must still be running after a pass, with at least the same output.
* What a program does after undefined behaviour (an uninitialised value decides a branch
  or is returned, a store outside all objects, too little input) is not compared;
  overflow is not undefined here, since the documents ask for wrapping.

The models of the builder and of the passes were compared, pass by pass, with the IR the
compiler itself prints, on the programs under `tests/ir` that are within the fragment and
on the corpora; the analyser's verdicts with those of the compiler on generated programs; and
the code of `MCCode`'s programs with the assembly the compiler prints, with its peephole off and
with it on, from which it differs in the forms named above only.

## Runs

| Run | Question | Instance |
|---|---|---|
| `lexer` | is every text cut into the longest words, with their places, or reported | all texts of up to 4 to 6 characters over five alphabets: 61,780 texts |
| `parser` | is exactly the grammar accepted, with its tree; does recovery end | all short token sequences, and all continuations of eight beginnings, 938,173 states |
| `sema` | are exactly the legal programs accepted; does a name mean what it should; are constants the builder's | four families of programs, 87,735 states |
| `call_effects` | are the summaries exact, do they stay sound while the code changes, do calls keep their bodies, do the sweeps end, are the answers on input and output true; does all of it implement `CallSummary` | every call graph of three functions, twelve kinds of body, 1,116,325 states |
| `optimizer` | does the builder give a tree its meaning; well-formedness, dominance, meaning, facts that get old, termination | 121 programs of control flow on four inputs, 49 on arrays on two, 100 on calls on three, 36 of nested statements on three; 55,538 states |
| `code` | do frames, copies, the assembly as a whole and each rewriting of it do what the program does; can every line be encoded | twelve programs on one to four inputs, from the tree to the text that is written, 3,479 states |
| `peephole` | does a rewriting change what a text returns or stores | 9,403 texts of six to nine lines on 64 choices of registers, 209,362 states |
| `initialisers` | which cell an element of an initialiser list goes to; local against global arrays | 4,805 lists on seven shapes of array |
| `find_*` | the four disagreements below | one program each |

The properties, besides one `TypeOK` a module:

* `ReadsTheLongest`: a text is read without an error exactly if it is made of words, blanks and
  comments, and then as the longest words there are. `PlacesAreRight`: line and column are those
  of the position. `LexerEnds`.
* `ReadsTheLanguage`: an input is accepted exactly if the grammar derives it, the grammar has
  one tree for it then, and the parser has built that tree: precedence, associativity, the else
  of the nearest if, lookahead, and the assignment tried first. `EndsOrMeetsABrace`: the parser
  ends unless the top level meets a closing brace, which it neither takes nor skips.
* `NamesResolve`: as long as nothing is reported, the chain of scopes gives a name the declaration that
  the text as a whole gives it. `VerdictIsTheLanguages`: nothing has been reported exactly as long as every piece
  is legal, by rules that know neither scopes nor reports. `ConstantsAgree`: on accepted
  programs `evalConstExpr` and the builder's `evalConstInt` give a global constant one value, and a
  name has the type of its declaration.
  `CountersFollowTheNest`: scopes, loop depth and current function are those of the nodes
  around the walk.
* `BranchesAreBound`, `OperandsAreBound`, `DefinitionsDominateUses`: well-formedness
  of the IR between any two passes. They are what `emit.cpp` takes for granted, and no
  pass checks them.
* `DominatorsAreRight`: `computeDominators` against a definition by paths, on every graph
  the passes produce on the way, those with unreachable blocks included, where it may
  claim less but never more.
* `BuiltAsWritten`: the module, as the builder made it, does on each input what the tree means by
  `Language`: nested loops and their exits, hidden names, conditions decided in several places,
  calls with rows of arrays. `MeaningKept`: it still does after every pass.
* `FactsStayTrue`: `harmless` and `apart` are still true of the module at hand, whatever
  has been done to it since they were computed.
* `OptimizerEnds`: the two loops reach a round without a change.
* `StaleSummarySound`, `MemorySummaryExact`, `PureSummaryExact`,
  `OnlyUnreachableErased`, `NoDanglingCall`, `AnalysesEnd`: see `CallEffects.tla`. The
  meaning of a summary is stated by closed sets of functions, not by sweeps.
* `ImplementsSummary`: under a mapping that takes a half-done sweep for no summary at all, every
  step of `CallEffects` is one of `CallSummary` or changes nothing of it. `IoAnswersAreTrue`: every
  answer `functionCanReachRuntimeIo` gives, whatever was asked before and in which order a body's calls are
  looked at, is reachability, on the call graphs that inlining and the passes leave.
* `SlotsAreApart`: what lives in a frame shares no byte, is aligned, and fits.
* `CopiesActAtOnce`: the instructions printed for the copies of an edge, or for the arguments of
  a jump to the function's own entry, are run by the processor on a frame in which every slot
  has a value of its own; each target then has its source's old value, no other slot has
  changed, and the stack pointer is back.
* `CodeKeepsTheMeaning`: the assembly, run by the processor from `main`, writes and returns on
  every input what the tree means: builder to last instruction, through all passes.
* `RewritingsKeepTheMeaning`: and so does the text after each single rewriting, and after the loop
  that prints what is left. `TextsKeepTheirMeaning` says the same of texts no program of the corpus leads to: where the
  given text runs to its return, a rewritten one returns the same value and leaves the same memory.
* `EveryLineAssembles`: offsets, shifts and constants fit the fields of their instructions, before
  and after every rewriting.
* `CellsFollowTheBraces`: elements go where the language puts them, for lists whose
  nested lists begin where an element of their dimension begins. Elsewhere the code goes
  by the depth of the braces and differs from C: `int u[4][3][2] = {1,2,3,4,{5},6}` puts
  6 one row of three pairs behind 5, C one pair behind. No document of the
  repository says which is meant, so this is recorded here and not as a finding.
* `LocalLikeGlobal`: what `memset` and the stores leave in a local array is the static
  table of a global one, in particular that `evalConstInt` computes what the program
  would.

Bounds and why they are enough:

* Lexer: the automata of numbers, strings and comments have at most five states on the way to a
  decision, and one character of lookahead; five or six characters of the alphabet that drives one
  of them pass through each. `MCLexer` has the alphabets and lengths.
* Parser: `size` bounds the tokens of an input, `faults` the errors after which it is ended.
  Kinds with `faults` 0 are beginnings of programs and reach depth (thirteen tokens
  for expressions, seventeen for branches); `anything` and `inside` go on after errors, to
  see recovery. Precedence and associativity need two operators, a dangling else two ifs.
* Sema: `size` and `faults` are the same for pieces. A shadowed name needs two scopes and a use
  after one is left; an expression under a further operator in error is enough for what is
  passed over in silence, since a type is the only thing an expression passes up.
* Optimizer: the statements of a corpus are chosen so that every pass
  rewrites something in some program, and all ordered pairs of them are tried, because what
  goes wrong between passes takes two constructs: one that leaves a shape behind and one
  that is read wrongly because of it. The passing corpora leave out the shapes of the disagreements below.
* Summaries: three functions are enough to meet a cycle that leads to a writer and one that does
  not; the theorems cover the rest.
* Builder: what it keeps by hand (loop targets, names, open blocks) goes wrong when one statement is
  inside another; all pairs of six statements that jump, hide or call, in a counting loop.
* Peephole: a rewriting looks at two to four lines and asks about registers ahead; the families put every
  list of four lines of an alphabet around each, with a label, a jump, a branch or a compare behind products. The
  alphabets leave out what the code is known to get wrong (below): a register added to itself
  behind its constant, `cbz` where a constant is still alive, a load of two registers between a
  slot's store and its load, `neg` there.
* Code: every alternative of the printing loop is taken; there are cycles of two and of three
  copies, nine parameters of which one goes by the stack, products and addresses put off, branches
  whose near and far edges copy, and a frame so large that slots are out of reach of both
  pointers (`LargeProgram`); all six operations on bits, called and inlined, with arguments in and
  out of the range of a shift (`BitsProgram`); quotients and remainders
  by constants of every kind, of values inferred not to be negative and of others.

Fairness: the compiler is one thread, so weak fairness of the next step is all that any liveness
property assumes: it does not stop in the middle. `Lexer` and `Parser` state it as `WF_vars(Next)`.
`Optimizer.FairSpec` writes it out as "the phase is `done` again and again, or
steps are taken again and again", which is the same because a step is enabled and changes
`todo` as long as the phase is not `done`; TLC would otherwise compute the successors of
every state, that is, run every pass, once more for each evaluation of `ENABLED`. For `CallEffects`
it is weak fairness of the analyses; the rounds themselves may go on there, since the
abstraction does not know whether a round changed anything. Deadlock is not checked where the
system ends: each of these programs stops when it is done.

## Where the code and its documents disagree

Each is a run that TLC ends with a counterexample, and an entry of `findings`; all were confirmed on
the compiler.

| Run | What happens |
|---|---|
| `find_unknown_index` | a store by one unknown index does not forget the cell of another |
| `find_counting_loop` | a loop with a counting call in it is collapsed to one round |
| `find_shared_frame` | a call of the function itself reuses the frame that its argument points into |
| `find_overwritten_pair` | a slot's value is taken from a register that a load of two registers has overwritten |

Others were seen while modelling, and confirmed on the compiler, without a run of their own.

* Optimizer. A back-edge value that folds to a constant leaves the phi naming a deleted
  instruction (`ir.cpp:1998`). A phi's second label is not read after a merge has rewritten the
  list, and the loop never ends (`ir.cpp:2083`). A folded sum that overflows compares as if it did
  not (`ir.cpp:205`). `if (x) return 1; else return 0;` returns `x` (`ir.cpp:3374`). The second of
  two inlined calls returns the first one's value (`ir.cpp:926`). `while (1) {}` leaves a jump to a
  label that does not exist (`ir.cpp:3291`). A row pointer and a flat index to one cell are taken
  for two cells (`ir.cpp:2859`). A load moves out of a loop that stores to its cell earlier in the
  same block, since the search for stores runs over an instruction list that has been moved from
  (`ir.cpp:1831`). Loads are hoisted although `docs/OPTIMIZATION_HANDOFF.md:188` says they are not;
  and `putint` makes `forwardLocalMemory` forget everything, although line 107 of that document says
  it does not.
* Builder. The dimensions of a local array made of a local constant count as 1 (`builder.cpp:551`);
  a float constant rounds where semantic analysis adds first (`const int n = 1.5 + 1.5` is 3 there
  and 2 here); an octal `08` is let
  through; in a local `const int n = n + 1` semantic analysis takes the value of the outer `n`, the
  builder reads the new one, which has none.
* Builder, where no document speaks: `&&` and `||` outside a condition give the right operand and
  not 0 or 1 (`return 1 && x;` returns `x`, `builder.cpp:349`).
* Code generator. A value computed early for its store is overwritten by the computation of the
  address (`emit.cpp:9380`). A function that stores before it chooses is replaced by the choice
  (`emit.cpp:10208`). `x % -3` is `x` plus three times the
  quotient by 3 (`emitSignedModByThree`, `emit.cpp:9936`). The compiler itself recurses without end on
  `x - 2147483647 - 1`, since the negated constant is itself (`emitAddSubImmediate`, `emit.cpp:9649`). A parameter taken for a length by the
  shape of its function is halved by a logical shift although a caller passes a negative one (`emit.cpp:8846`).
  In `a[i + 5000000]` the constant part is dropped, and `a[i]` read: `emitPointerOffset` prints nothing for a distance of
  sixteen million bytes or more and says so, and the two callers that split an index do not ask (`emit.cpp:9438`, `emit.cpp:10868`).
* Code generator, functions taken for operations on bits (`BitHelpers`). A loop that counts out the
  bits two numbers have in common becomes `eor` if it tests for a bit by `!= 0` (`emit.cpp:2263`). One answer `-1 - x` among others makes
  the whole function `mvn` (`emit.cpp:2184`). A function that divides by powers of two becomes `asr`, which
  rounds odd negative numbers down (`emit.cpp:10160`). The corpus calls such functions where the shape is the meaning.
* Peephole. `docs/OPTIMIZATION_HANDOFF.md:319` says that a slot's load by another register than the
  one stored is left alone; `forwardFrameStoreLoads` makes a move of it. `safeBetweenFrameLoadLoad` does not see
  that `neg` writes its register (`emit.cpp:1473`). A constant moved on to another register is dropped
  though the move still names it, and one added to itself is replaced at one of two places
  (`foldMoveImmediateUses`; the generic path prints neither). `cbz` and `cbnz` are not seen as ways out
  of a straight line (`emit.cpp:182`).
* Semantic analysis accepts more than the language: elements of brace lists are not looked at;
  arrays and functions of one type may be assigned, and elements of constant arrays; `void` may be the type of a
  parameter; an array may be handed over with more dimensions than are asked for. `SemaRules` says what
  it accepts and keeps these laxities, each in a rule of its own.
* Lexer and parser: `0x` without digits and `0x1.8` without exponent are numbers; a brace list may
  end in a comma; any primary may be subscripted; a stray `}` at the top level is parsed for ever.

## Proofs

`CallEffects_proofs` proves, for any sets of functions, runtime routines and programs that satisfy
the three assumptions of `CallEffects` (`MainAssumption`: main is a function;
`RuntimeAssumption`: the runtime's names are not functions of the module;
`ProgramsAssumption`: programs map functions to effects), and for the last theorem the two of
`IoReachability` (`IoRuntimeAssumption`: what does I/O by name is of the runtime; `NamesAreFinite`: a
module is a vector):

| Theorem | States |
|---|---|
| `TypeCorrect` | the type invariant |
| `StaleSummaryIsSound` | the memory summary stays true while the code changes under it |
| `MemorySummaryIsExact`, `PureSummaryIsExact` | what the sweeps arrive at, in any order |
| `ErasureIsExact` | exactly what main does not reach is erased |
| `Refinement` | `CallEffects` implements `CallSummary`: each step is a stutter, a summary delivered, the erasure, or a rewriting that takes writers, effects and needs away |
| `SummariesStaySound` | hence no summary in use vouches for a function that writes or has an effect |
| `CallsStayBound` | no remaining call has lost its body |
| `Invariance` | the inductive invariant `Inv` |
| `IoAnswersStayTrue` | `functionCanReachRuntimeIo` ends, and its remembered answers are reachability |

The argument: none of the five is inductive. While a sweep runs, every call-closed set without an
offender is still among the candidates (so none too many is erased), and every candidate
visited since the last erasure calls candidates only (so, when the sweep is over without an
erasure, the candidates are themselves such a set: none too few). These are `MemorySweep` and
`PureSweep`; `Marking` is the same for the worklist of `removeUnreachableFunctions`. That a
summary survives is `SummaryClosed`: the set is closed under the calls that are there now and
contains no writer; inlining a harmless callee into a caller keeps both, since a caller in the
set has callees in the set. For the refinement, what a rewriting may add to the functions that reach
a writer is nothing, by the closed set of those that did not; a sweep is a stutter until its
last step, which is the abstract step by exactness. One lemma per action shows that it keeps `Inv`; the exactness results follow from `Inv` in the step that ends a
sweep, by taking the candidates themselves as the closed set.

`IoAnswersStayTrue` is about a depth-first search written as a recursive function over the places it can be at
(`Search`), so that it first has to be shown to be one: a step leaves an instruction behind
or enters a function that was not being visited, and so `ToGo` falls and the approximations of the
function meet (`SearchDefined`). At a `Sound` place every function being visited leads to the one at hand and
none of them is remembered; the answer there (`Right`) is whether a call ahead does I/O for another reason than
the function itself. A function that calls itself gets a provisional *no*, which does no harm since its
other calls decide; two functions that call each other would leave a false answer in the
memo. Hence the hypothesis of the property, `CallsLeadBack`: SysY has no forward declarations,
so that a call leads to an earlier function or to the caller. The run meets call graphs with it and without.

`Sema_proofs` proves, for any expressions and any kinds of program that satisfy the three assumptions of
`Sema` (`ExprsAssumption`: an expression's parts are expressions; `KitsAssumption`, `PiecesAssumption`: what
a kind of program is made of):

| Theorem | States |
|---|---|
| `SemaTypeCorrect` | the type invariant |
| `CountersAreRight` | scopes, loop depth and current function are those of the nodes around the walk, at any depth |
| `NamesAreResolved` | as long as nothing is reported, a name looked up in the scopes is the declaration the text gives it, at any depth and after any number of scopes left |

The first two are not inductive: when a function is left, `currentFunction_` becomes none, which is right only
if no node remains. The inductive invariant adds `FunctionFirst`: the first node of the nest is a function
and no other is. The lemmas say what appending, removing and marking a node do to the number of nodes
of a kind (`CountAppend`, `CountOuter`, `EndedKeeps`), and there is one lemma per action of the walk. What the
analyser reports, and the recursion through an expression, play no part.

`NamesAreResolved` goes on from there. The two sides share nothing: the analyser has a stack it pushes and pops; `NamesResolve` counts openers and
closers in the whole text. The invariant, `NamesKept`, brings them together by three sequences: the
pieces that are open, outermost first, are the nest's nodes one by one (`Trail`, `Follows`); those of
them that open a scope, after 0 for the global one, are the places of the scopes (`Ladder`); and each
scope holds exactly the declarations made at its place (`Filed`). It is kept only until something is reported, since a
name declared twice in a scope is not inserted again; reports are never withdrawn. What one more piece does
to the pieces around it is a count (`AroundNext`), and texts that agree so far have the same around
them (`AroundAlike`, `DeclaredAlike`), which is why the text may grow. Where it holds, the innermost scope that has the
name has the declaration of greatest place (`FoundInnermost`).

`Lexer_proofs` proves, for any texts that satisfy `TextsAssumption` (a text is a
sequence of characters without a null character, at which `peek` would see the end of the text):

| Theorem | States |
|---|---|
| `LexerTypeCorrect` | the type invariant: the lexer stays in the text, no token is empty but the last |
| `PlacesRight` | line and column, of the lexer and of errors, are those of a place in the text |
| `ReadsRight` | a text is read without an error exactly if it is made of words, blanks and comments, and then as the longest of them |

The type invariant is made inductive by the types of `source` and `location`. For the
places, each action is shown to move by as many line breaks as it takes (`PlaceInv`). For the reading, the
invariant (`ReadInv`) says that what the rules read of the whole text is what has been read so far, followed by
what they read from here on, and nothing if there has been an error. `Reading` is a function from places to what is read
from there, which is what it is by induction from the end (`Reads`). Each action is then the choice of one word: the stretch the C++ loops stop at is a
word, and no longer one begins there. For identifiers and operators that is a few facts about characters;
numbers take most of the proof, since their automaton decides by what follows an `e` or a point; of strings,
that a backslash hides what comes after it.

`Parser_proofs` proves, for any tokens in any order and any kinds of input that satisfy `KitsAssumption`:

| Theorem | States |
|---|---|
| `ParserTypeCorrect` | the type invariant: the position is in the input, an error is at a token of it, no call takes a tree from an empty list, one tree is there when all calls have returned |

That the trees suffice is a property of the whole list of things to do. The invariant gives each entry the number of trees at
which it will find itself (`Link`): an entry that makes a tree adds at most one, one that needs a tree
has one, an entry that gathers or gives up a trial goes back to a number of trees that are still there. Trials are ordered by
where they go back to, so that giving one up leaves those around it intact; the last entry is the
translation unit. There is one lemma per kind of entry, which is one per function of the parser.

`Codegen_proofs` proves theorems on operators, for all values:

| Theorem | States |
|---|---|
| `UnsignedQuotientsAreRight` | the lines of `UnsignedQuotient` (literal, `umull`, shift) assemble and leave the quotient, for every dividend of 31 bits and every row of the table |
| `SignedQuotientsAreRight` | those of `SignedQuotient` (literal, `smull`, shift, sign) leave the quotient rounded to zero, in the register asked for, for every word of 32 bits and every row, and three |
| `PowersAreRight` | those of `PowerOfTwoDiv` (sum, `cmp`, `csel`, shift, `neg`; one shift for a dividend that is not negative) leave the quotient, for every word and every power of the model, of either sign |
| `QuotientsAreRight` | whatever the constant: the lines of any of `DivWays`, which are all the ways of `emitImmediateBinary` to divide by it, assemble, leave the quotient in register 0 and change no other but number 1 |
| `RemaindersAreRight` | the same of `ModWays` and the remainder, which changes numbers 1 and 2 at most; for every constant but -3 |
| `ProductsAreRight` | the shifts, sums and differences that stand for a product leave the product by the constant, for every constant there are such lines for |
| `LiteralsAreRight` | the moves that load a literal, or a distance, leave that number in the register, for every number |
| `DistancesAreRight` | the lines that set a register beside the frame pointer, move the stack pointer or add a distance to a register leave it at that distance; a compare with a constant is one with that constant |
| `RoomsAreApart` | what asks for room in a frame, any number of rooms of any size, gets bytes of its own in it, aligned |
| `CopiesAreParallel` | any list of copies between slots acts as if all at once: each target gets what its source held before, no other slot changes |

The runs work out quotients with words of 16 bits and a few dividends, the tables of the code being for
32: the first five theorems are about the lines that are printed, with the tables of the code, and about every
dividend. `Leads(lines, s, t)` says that there is an instruction for each of a list of lines of any length (`Assembles`,
as for `A64`) and that they take the registers `s` to the registers `t`, one line after the other, whatever the
last comparison was before. Registers hold integers. Sums, products and shifts to the left are those of integers, which
cutting to 32 or 64 bits respects; a shift to the right, a wide product or a comparison is known only of a number
that the register it reads can hold, and `Unknown` otherwise, so that a proof has to show for each of them that it is. The argument
for the numbers stands apart from the lines (the lemmas `UnsignedArithmetic`, `SignedArithmetic`, `PowerArithmetic`): a
multiplier is `Precise` if, times the divisor, it exceeds a power of two by an
error so small that no dividend can feel it (`PreciseDivides`); each row is then one product of constants. The
powers are those of the model, up to 2^30 (TLC's integers have no 2^31). The remainder by -3 is left out because
the lines printed for it are wrong: they multiply the quotient by the divisor's magnitude, one of the disagreements of the
code generator above.

The next three are about at most three lines, run one after the other on registers (`Ran`) by the same `Literal`, `Shifted`
and `Assembles` by which `A64` runs and assembles the programs of the runs. They say that every field of a line holds what is
put into it (`Encodable`; this is the part `EveryLineAssembles` has of literals, sums and products for the programs that
are run), that the result is in the one register and that no other changes but those that are free for it.
The attempt found two places where the model was not the
code: the two forms of `movn` had been one, and a distance beyond sixteen million bytes had been printed where `emitPointerOffset`
prints nothing and says so. What its callers do with that answer is the last of the disagreements of the code
generator above.

`RoomsAreApart` has in it what `SlotsAreApart` says of every function of the corpus: the depths grow, by induction over
the rooms, each by at least its room's bytes. `CopiesAreParallel` has in it what `CopiesActAtOnce` says of
every edge: one by one, a source that is no other copy's target still holds what it did; by way of the stack, everything is
saved before anything moves (`OneMore` is a step of either). Its hypothesis is that two copies to one target bring the same,
which is so when an edge is there twice. It speaks of the steps of `CopySteps`, which `Emission` spells as
instructions; that these do as the steps say is what the run checks, on the processor. Both are about operators
of `Frame` and not about a run, since the modules of the runs reach recursive definitions (below).

`Dominators_proofs` proves, for any lists of predecessors and sets of successors that are the same edges (`IsGraph`):

| Theorem | States |
|---|---|
| `DominatorsAreExact` | the sweeps of `computeDominators` end; they never claim a block that some path avoids; if control gets to every block they leave exactly the dominators, and every block but the entry has one parent in `computeDominatorTree` |

This is what `DominatorsAreRight` says of each graph a run meets, by the same operator `DominatorsRight`. A search is the least set that
holds its start and what follows its blocks (`ReachLeast`), so that paths need not be spoken of. A sweep takes claims away or
changes nothing (`SweepShrinks`); the pairs of block and claim are finitely many, so the sweeps end
(`SweepsEnd`), and what they leave is the greatest solution of what each sweep asks (`SweepsLeaveTheGreatest`). The blocks without a claim
`c` are closed under every edge that does not enter `c`, so the claims hold (`ClaimsHold`); the dominators
by paths are a solution, so all are claimed (`AllIsClaimed`), provided every block is reached: a loop nobody
enters claims too little. The tree is the order of dominators above one block, which is
linear (`OneAboveTheOther`); the parent is the one with the most dominators of its own. That the repetition of a
step comes to its end is a lemma of its own, shared by searches and sweeps (`RepetitionExists`,
`RepetitionEnds`).

`DataInduction` states induction for sets of numbers, from the library's theorem on minimal
elements of well-founded relations: the library's own induction theorems take an operator, which the installed provers
cannot apply.

Only model-checked:

* the passes, the builder, the code generator beyond the operators named above, the interpreters, the processor, the
  rewritings of the assembly, and initialisers: these modules have recursive operators, or use
  modules that do, and the prover loses its arithmetic in such a module. Many of their properties hold of
  the corpora and not of every program, as the disagreements above show (`MeaningKept`, `CodeKeepsTheMeaning`);
* that the parser reads exactly its grammar with its only tree (`ReadsTheLanguage`), and
  `VerdictIsTheLanguages` and `ConstantsAgree`, since their references are recursive over trees in
  the same way; of `Sema` only its scopes and counters are proved, not its verdicts;
* liveness, which is out of the prover's reach: `LexerEnds`, `EndsOrMeetsABrace`, `AnalysesEnd`, `OptimizerEnds`.

## Not modelled

The two lowerings to intrinsics and the specialised kernels of the back end, which match one
benchmark program each and print fixed text; floats behind
semantic analysis; the driver but for its order of stages, which is input and output.

## Plan

The groups are done but for 10 and parts of 12. In order of importance:

1. `IR`, `Builder`, `IRSemantics`, the passes and `Optimizer`, with the corpora and the findings.
2. `CallEffects` with its proofs; `MCInitialisers`.
3. `Sema` with its rules and its proofs.
4. `Lexer` and `Parser` with their rules.
5. `Emission`, `A64`, `Compiler`: the generic code generator on integers.
6. `CallSummary`, implemented by `CallEffects`, by TLC and by proof; `IoReachability`.
7. `Immediates` and `NonNegative`: what is done with constants, at the width of the words.
8. `Peephole` and `Backend`: the rewriting of the assembly; `BitHelpers`.
9. `Language`: the meaning of a tree, to which the builder and all behind it is held.
10. The short-circuit value used as a number, and floats, in `Builder`, `Language` and the passes.
11. Theorems on the lexer, the parser's state, the names of semantic analysis, quotients and the frame (done).
12. Theorems on what can be written without recursion: the answers of `IoReachability`, dominators, copies, literals, distances and
    products (done). Left: what the parser has read as the yield of its trees, and that an error in
    the analyser is never withdrawn or doubled.
