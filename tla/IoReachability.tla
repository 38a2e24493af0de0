--------------------------- MODULE IoReachability ---------------------------
(* functionCanReachRuntimeIo (src/src/ir/ir.cpp), which                    *)
(* collapseIdempotentCountedLoops asks before it takes the rounds of a     *)
(* loop away: a search of the call graph that remembers its answers across *)
(* questions and answers FALSE, for now, for a function it is inside of.   *)
EXTENDS CallEffects, SequencesExt

CONSTANT IoRuntime   \* the names runtimeIoCall accepts

ASSUME IoRuntimeAssumption == IoRuntime \subseteq Runtime

\* A module is a vector of functions, the runtime library a list of names.
ASSUME NamesAreFinite == IsFiniteSet(Functions) /\ IsFiniteSet(Runtime)

\* The memo: whom an answer is remembered of, and of them who does I/O.
Memos == [known : SUBSET Functions, io : SUBSET Functions]
Answers == [io : BOOLEAN, memo : Memos]

Answer(io, memo) == [io |-> io, memo |-> memo]
Remember(memo, f, io) ==
  [known |-> memo.known \cup {f},
   io |-> IF io THEN memo.io \cup {f} ELSE memo.io \ {f}]

\* A place in the search: the loops over the body of f have come to the
\* instruction at.  Instruction i is a call of order[i] if the body has one:
\* the effects keep the set of the calls, order is one way to list them.
Places == [f : Functions, at : Nat \ {0}, memo : Memos, visiting : SUBSET Functions]

\* Where the search enters a function, and the instruction after a place.
Entry(name, memo, visiting) ==
  [f |-> name, at |-> 1, memo |-> memo, visiting |-> visiting \cup {name}]
After(q, memo) == [f |-> q.f, at |-> q.at + 1, memo |-> memo, visiting |-> q.visiting]

\* The question for one name.  Rest is what the loops return from a place.
AskAbout(Rest, name, memo, visiting) ==
  IF name \in IoRuntime THEN Answer(TRUE, memo)
  ELSE IF name \in memo.known THEN Answer(name \in memo.io, memo)
  ELSE IF name \notin funcs THEN Answer(TRUE, memo)
  ELSE IF name \in visiting THEN Answer(FALSE, memo)
  ELSE LET body == Rest[Entry(name, memo, visiting)]
       IN  Answer(body.io, Remember(body.memo, name, body.io))

\* Mutation: the search goes on after a call that does I/O and keeps the
\* answer of the last one.
LastCallDecides(order, Rest, q) ==
  IF q.at > Len(order) THEN Answer(FALSE, q.memo)
  ELSE IF order[q.at] \notin eff[q.f].calls THEN Rest[After(q, q.memo)]
  ELSE LET found == AskAbout(Rest, order[q.at], q.memo, q.visiting)
       IN  IF \A i \in q.at + 1 .. Len(order) : order[i] \notin eff[q.f].calls
           THEN found
           ELSE Rest[After(q, found.memo)]

\* The loops over blocks and instructions, from a place on.
LookFrom(order, Rest, q) ==
  IF q.at > Len(order) THEN Answer(FALSE, q.memo)
  ELSE IF order[q.at] \notin eff[q.f].calls THEN Rest[After(q, q.memo)]
  ELSE LET found == AskAbout(Rest, order[q.at], q.memo, q.visiting)
       IN  IF found.io THEN found ELSE Rest[After(q, found.memo)]

Search(order) ==
  LET Rest[q \in Places] == LookFrom(order, Rest, q) IN Rest

CanReachRuntimeIo(order, name, memo, visiting) ==
  AskAbout(Search(order), name, memo, visiting)

NoAnswers == [known |-> {}, io |-> {}]

\* One pass asks about one function after the other with the same memo.
MemoAfter(order, asked) ==
  LET Memo[n \in 0 .. Len(asked)] ==
        IF n = 0 THEN NoAnswers
        ELSE CanReachRuntimeIo(order, asked[n], Memo[n - 1], {}).memo
  IN  Memo[Len(asked)]

----------------------------------------------------------------------------
\* SysY declares no function before its body: a call leads to an earlier
\* function or to the caller itself, and inlining and erasing keep it so.
CallsLeadBack ==
  \A f, g \in funcs :
    f # g => ~(Reaches(f, {g}) /\ Reaches(g, {f}))

\* A call of a routine without a body counts as I/O, whatever it does.
DoesIo == {f \in funcs : ~(eff[f].calls \subseteq funcs)}

\* Every one of the functions has an answer, and it is the true one.
AnswersAreTrue(memo) ==
  \A f \in funcs : f \in memo.known /\ (f \in memo.io <=> Reaches(f, DoesIo))

\* Whatever was asked before, the remembered answer is whether runtime I/O can
\* be reached, although a function that calls itself was given a provisional
\* one on the way.  The bodies call the functions in any one order of them,
\* before the routines or after them, and are asked about in an order that
\* goes with it; AllAsked in CallEffects_proofs has every order of both.
IoAnswersAreTrue ==
  phase = "local" /\ stage = 1 /\ CallsLeadBack =>
    \A names \in SetToSeqs(funcs), routines \in SetToSeqs(Runtime) :
      /\ AnswersAreTrue(MemoAfter(names \o routines, Reverse(names)))
      /\ AnswersAreTrue(MemoAfter(routines \o names, names))

============================================================================
