------------------------------- MODULE Parser -------------------------------
(***************************************************************************)
(* The parser (src/src/frontend/parser.cpp).  The calls of the recursive   *)
(* descent that are not over are a list of things to do, first one first;  *)
(* an action is what one function, or one round of its loop, does before   *)
(* it calls another.  The tokens are chosen as the parser comes to them,   *)
(* and of errors_ only the places are kept.                                *)
(***************************************************************************)
EXTENDS Integers, Sequences, FiniteSets

CONSTANTS
  Kits      \* kinds of input: name -> [prelude, tokens, size, faults]

\* Bounds: an input ends when it has size tokens, or when errors have been
\* reported at more than faults tokens.
ASSUME KitsAssumption ==
  \A kt \in DOMAIN Kits :
    /\ DOMAIN Kits[kt] = {"prelude", "tokens", "size", "faults"}
    /\ Kits[kt].size \in Nat /\ Kits[kt].faults \in Nat
    /\ Kits[kt].prelude \in Seq({Kits[kt].prelude[i] : i \in DOMAIN Kits[kt].prelude})

VARIABLES
  kit,      \* the kind of this input
  tokens,   \* tokens_, as far as they are chosen
  pos,      \* pos_, from 1
  todo,     \* what is still to do
  built,    \* syntax trees that are not yet part of another
  errors    \* the tokens that errors_ is about

vars == <<kit, tokens, pos, todo, built, errors>>

----------------------------------------------------------------------------
(* Tokens.                                                                 *)

Ended == tokens # <<>> /\ tokens[Len(tokens)] = "end"
Peek(offset) == IF pos + offset <= Len(tokens) THEN tokens[pos + offset] ELSE "end"
At(t) == Peek(0) = t
TypeStart == {"int", "float", "void"}
IsFunctionDefinition == Peek(0) \in TypeStart /\ Peek(1) = "id" /\ Peek(2) = "("

\* Mutation: the position runs past the last token.
AdvanceAlways == pos' = pos + 1
Advance == pos' = IF pos <= Len(tokens) THEN pos + 1 ELSE pos
Stay == UNCHANGED pos
Report == errors' = errors \cup {IF pos <= Len(tokens) THEN pos ELSE Len(tokens)}
NoError == UNCHANGED errors

----------------------------------------------------------------------------
(* Things to do.                                                           *)

Do(f) == [do |-> f]
Expect(t) == [do |-> "expect", t |-> t]
\* The loops around operators: of all levels from hi, which binds tightest, to lo.
Rest(hi, lo) == [do |-> "rest", hi |-> hi, lo |-> lo]
Brackets(k) == [do |-> "brackets", k |-> k]
Listed(f) == [do |-> "listed", f |-> f]
More(f) == [do |-> "more", f |-> f]
\* A tree of kind k is made of what has been built by then, but for the first
\* base trees.
Gather(k, base) == [do |-> "gather", k |-> k, base |-> base]
Trial(at, base) == [do |-> "trial", at |-> at, base |-> base]

Node(k, kids) == [k |-> k, kids |-> kids]
Leaf(t) == Node(t, <<>>)
Build(tree) == built' = Append(built, tree)
BuildNothing == UNCHANGED built

\* f is at hand, and the tokens it looks at are there.
Lookahead(f) == IF f = "unit" THEN 2 ELSE 0
Sees(offset) == Ended \/ pos + offset <= Len(tokens)
Calls(f) ==
  /\ todo # <<>> /\ todo[1].do = f
  /\ Sees(Lookahead(f))
  /\ UNCHANGED <<kit, tokens>>
Then(items) == todo' = items \o Tail(todo)
Return == Then(<<>>)
\* match(t), and what follows if it succeeds, or nothing.
IfMatch(t, items) ==
  IF At(t) THEN Advance /\ Then(items) ELSE Stay /\ Return

----------------------------------------------------------------------------
(* The functions of the parser.                                            *)

\* expect
ParseExpect ==
  /\ Calls("expect")
  /\ IF At(todo[1].t) THEN Advance /\ NoError ELSE Stay /\ Report
  /\ Return /\ BuildNothing

ParseGather ==
  LET g == todo[1] IN
  /\ Calls("gather")
  /\ built' = Append(SubSeq(built, 1, g.base), Node(g.k, SubSeq(built, g.base + 1, Len(built))))
  /\ Return /\ Stay /\ NoError

\* One round of the loop of parse, with parseTopLevelDecl.
ParseUnit ==
  /\ Calls("unit")
  /\ CASE At("end") ->
            Then(<<Gather("unit", 0)>>) /\ NoError
       [] IsFunctionDefinition ->
            Then(<<Do("function"), Do("unit")>>) /\ NoError
       [] ~ IsFunctionDefinition /\ Peek(0) \in TypeStart \cup {"const"} ->
            Then(<<Do("var"), Do("unit")>>) /\ NoError
       [] OTHER ->
            Then(<<Do("skip"), Do("unit")>>) /\ Report
  /\ Stay /\ BuildNothing

\* skipToRecoveryPoint, token by token.
RecoveryPoint == {"end", ";", "}"}
\* Mutation: the semicolon is not skipped itself.
SkipShort ==
  /\ Calls("skip")
  /\ IF Peek(0) \in RecoveryPoint THEN Stay /\ Return ELSE Advance /\ UNCHANGED todo
  /\ BuildNothing /\ NoError
Skip ==
  /\ Calls("skip")
  /\ IF At(";") THEN Advance /\ Return
     ELSE IF Peek(0) \in RecoveryPoint THEN Stay /\ Return
     ELSE Advance /\ UNCHANGED todo
  /\ BuildNothing /\ NoError

\* parseTypeSpecifier; where it is the type of a variable, void is an error.
ParseType ==
  /\ Calls("type")
  /\ IF Peek(0) \in TypeStart THEN Advance /\ Build(Leaf(Peek(0))) /\ NoError
     ELSE Stay /\ Build(Leaf("int")) /\ Report
  /\ Return
NotVoid ==
  /\ Calls("not void")
  /\ IF built[Len(built)] = Leaf("void") THEN Report ELSE NoError
  /\ Return /\ Stay /\ BuildNothing

ParseName ==
  /\ Calls("name")
  /\ IF At("id") THEN Advance /\ NoError ELSE Stay /\ Report
  /\ Return /\ Build(Leaf("id"))

\* parseVarDecl, parseVarDef, parseInitVal
ParseVarDecl ==
  /\ Calls("var")
  /\ IF At("const") THEN Advance ELSE Stay
  /\ Then(<<Do("type"), Do("not void"), Do("def"), More("def"), Expect(";"),
            Gather(IF At("const") THEN "const" ELSE "var", Len(built))>>)
  /\ BuildNothing /\ NoError
ParseVarDef ==
  /\ Calls("def")
  /\ Then(<<Do("name"), Brackets("dim"), Do("initialiser"), Gather("def", Len(built))>>)
  /\ Stay /\ BuildNothing /\ NoError
ParseInitialiser ==
  /\ Calls("initialiser")
  /\ IfMatch("=", <<Do("init")>>)
  /\ BuildNothing /\ NoError
ParseInitVal ==
  /\ Calls("init")
  /\ IF At("{")
     THEN Advance /\ Then(<<Do("elements"), Expect("}"), Gather("braces", Len(built))>>)
     ELSE Stay /\ Then(<<Do("expr")>>)
  /\ BuildNothing /\ NoError
\* At the beginning and behind a comma, a closing brace ends the list.
ParseElements ==
  /\ Calls("elements")
  /\ Then(IF At("}") THEN <<>> ELSE <<Do("init"), Do("more elements")>>)
  /\ Stay /\ BuildNothing /\ NoError
ParseMoreElements ==
  /\ Calls("more elements")
  /\ IfMatch(",", <<Do("elements")>>)
  /\ BuildNothing /\ NoError

\* The loops over commas: definitions, parameters, arguments.  What stands in
\* parentheses may be nothing.
ParseListed ==
  LET f == todo[1].f IN
  /\ Calls("listed")
  /\ Then(IF At(")") THEN <<>> ELSE <<Do(f), More(f)>>)
  /\ Stay /\ BuildNothing /\ NoError
ParseMore ==
  LET f == todo[1].f IN
  /\ Calls("more")
  /\ IfMatch(",", <<Do(f), More(f)>>)
  /\ BuildNothing /\ NoError

\* The loops over brackets: a dimension is an expression, a subscript makes one
\* of the expression before it.
ParseBrackets ==
  LET k == todo[1].k
      before == IF k = "elem" THEN 1 ELSE 0
  IN  /\ Calls("brackets")
      /\ IfMatch("[", <<Do("expr"), Expect("]"), Gather(k, Len(built) - before), Brackets(k)>>)
      /\ BuildNothing /\ NoError

\* parseFuncDef, parseFuncParam
ParseFuncDef ==
  /\ Calls("function")
  /\ Then(<<Do("type"), Do("name"), Expect("("), Listed("param"), Expect(")"), Do("block"),
            Gather("function", Len(built))>>)
  /\ Stay /\ BuildNothing /\ NoError
ParseFuncParam ==
  /\ Calls("param")
  /\ Then(<<Do("type"), Do("name"), Do("open"), Gather("param", Len(built))>>)
  /\ Stay /\ BuildNothing /\ NoError
ParseOpenDimension ==
  /\ Calls("open")
  /\ IfMatch("[", <<Expect("]"), Gather("open", Len(built)), Brackets("dim")>>)
  /\ BuildNothing /\ NoError

\* parseBlock, parseBlockItem
ParseBlock ==
  /\ Calls("block")
  /\ Then(<<Expect("{"), Do("items"), Expect("}"), Gather("block", Len(built))>>)
  /\ Stay /\ BuildNothing /\ NoError
ParseItems ==
  /\ Calls("items")
  /\ Then(IF Peek(0) \in {"}", "end"} THEN <<>>
          ELSE <<Do(IF Peek(0) \in {"const", "int", "float"} THEN "var" ELSE "stmt"), Do("items")>>)
  /\ Stay /\ BuildNothing /\ NoError

\* parseStmt: first by its keyword, or an expression.
Statement == {"{", "if", "while", "break", "continue", "return", ";", "id"}
ParseStmt ==
  LET base == Len(built)
      Starts(t, items) == At(t) /\ Advance /\ Then(items)
  IN  /\ Calls("stmt")
      /\ \/ At("{") /\ Stay /\ Then(<<Do("block")>>)
         \/ Starts("if", <<Expect("("), Do("expr"), Expect(")"), Do("stmt"), Do("else"), Gather("if", base)>>)
         \/ Starts("while", <<Expect("("), Do("expr"), Expect(")"), Do("stmt"), Gather("while", base)>>)
         \/ Starts("break", <<Expect(";"), Gather("break", base)>>)
         \/ Starts("continue", <<Expect(";"), Gather("continue", base)>>)
         \/ Starts("return", <<Do("result"), Expect(";"), Gather("return", base)>>)
         \/ Starts(";", <<Gather("empty", base)>>)
         \/ At("id") /\ Stay /\ Then(<<Do("name"), Brackets("elem"), Trial(pos, base)>>)
         \/ Peek(0) \notin Statement /\ Stay /\ Then(<<Do("expr"), Expect(";"), Gather("expr", base)>>)
      /\ BuildNothing /\ NoError
ParseElse ==
  /\ Calls("else")
  /\ IfMatch("else", <<Do("stmt")>>)
  /\ BuildNothing /\ NoError
ParseResult ==
  /\ Calls("result")
  /\ Then(IF At(";") THEN <<>> ELSE <<Do("expr")>>)
  /\ Stay /\ BuildNothing /\ NoError
\* What was no assignment is read again, as an expression; its errors stay.
ParseTrial ==
  LET trial == todo[1] IN
  /\ Calls("trial")
  /\ IF At("=")
     THEN /\ Advance
          /\ Then(<<Do("expr"), Expect(";"), Gather("assign", trial.base)>>)
          /\ BuildNothing
     ELSE /\ pos' = trial.at
          /\ Then(<<Do("expr"), Expect(";"), Gather("expr", trial.base)>>)
          /\ built' = SubSeq(built, 1, trial.base)
  /\ NoError

----------------------------------------------------------------------------
(* Expressions.                                                            *)

Levels == <<{"||"}, {"&&"}, {"==", "!="}, {"<", ">", "<=", ">="}, {"+", "-"}, {"*", "/", "%"}>>
Tightest == Len(Levels)

\* parseExpr and the six functions below it, down to parseUnary.
ParseExpr ==
  /\ Calls("expr")
  /\ Then(<<Do("unary"), Rest(Tightest, 1)>>)
  /\ Stay /\ BuildNothing /\ NoError

\* Mutation: the right operand is read at the operator's own level.
ParseRestRightwards ==
  LET rest == todo[1]
      level == {l \in rest.lo .. rest.hi : Peek(0) \in Levels[l]}
  IN  /\ Calls("rest")
      /\ \/ level = {} /\ Stay /\ Return
         \/ \E l \in level :
              /\ Advance
              /\ Then(<<Do("unary"), Rest(Tightest, l), Gather(Peek(0), Len(built) - 1), Rest(l, rest.lo)>>)
      /\ BuildNothing /\ NoError
\* Their loops, those of the tightest level first: an operator of a level takes
\* what the next tighter one gives on its right, and the loop goes on.  The
\* loops of the levels above are over then.
ParseRest ==
  LET rest == todo[1]
      level == {l \in rest.lo .. rest.hi : Peek(0) \in Levels[l]}
  IN  /\ Calls("rest")
      /\ \/ level = {} /\ Stay /\ Return
         \/ \E l \in level :
              /\ Advance
              /\ Then(<<Do("unary"), Rest(Tightest, l + 1), Gather(Peek(0), Len(built) - 1),
                        Rest(l, rest.lo)>>)
      /\ BuildNothing /\ NoError

ParseUnary ==
  /\ Calls("unary")
  /\ IF Peek(0) \in {"+", "-", "!"}
     THEN Advance /\ Then(<<Do("unary"), Gather(Peek(0), Len(built))>>)
     ELSE Stay /\ Then(<<Do("primary"), Brackets("elem")>>)
  /\ BuildNothing /\ NoError

\* parsePostfixOrPrimary, without the loop over its brackets.
Literals == {"1", "1.5", "str"}
ParsePrimary ==
  /\ Calls("primary")
  /\ \/ /\ At("(") /\ Then(<<Do("expr"), Expect(")")>>)
        /\ BuildNothing /\ NoError
     \/ /\ Peek(0) \in Literals /\ Return
        /\ Build(Leaf(Peek(0))) /\ NoError
     \/ /\ At("id") /\ Then(<<Do("call")>>)
        /\ Build(Leaf("id")) /\ NoError
     \/ /\ Peek(0) \notin {"(", "id"} \cup Literals /\ Return
        /\ Build(Leaf("1")) /\ Report
  /\ Advance
ParseCall ==
  /\ Calls("call")
  /\ IfMatch("(", <<Listed("expr"), Expect(")"), Gather("call", Len(built) - 1)>>)
  /\ BuildNothing /\ NoError

----------------------------------------------------------------------------
Init ==
  /\ kit \in DOMAIN Kits
  /\ tokens = <<>>
  /\ pos = 1
  /\ todo = <<Do("unit")>>
  /\ built = <<>>
  /\ errors = {}

\* The lexer's next token.
Offered ==
  IF Cardinality(errors) > Kits[kit].faults \/ Len(tokens) >= Kits[kit].size THEN {"end"}
  ELSE IF Len(tokens) < Len(Kits[kit].prelude) THEN {Kits[kit].prelude[Len(tokens) + 1]}
  ELSE Kits[kit].tokens \cup {"end"}
Read ==
  /\ todo # <<>> /\ ~ Sees(Lookahead(todo[1].do))
  /\ \E t \in Offered : tokens' = Append(tokens, t)
  /\ UNCHANGED <<kit, pos, todo, built, errors>>

Parse ==
  \/ ParseUnit \/ Skip \/ ParseType \/ NotVoid \/ ParseName
  \/ ParseVarDecl \/ ParseVarDef \/ ParseInitialiser \/ ParseInitVal
  \/ ParseElements \/ ParseMoreElements \/ ParseListed \/ ParseMore \/ ParseBrackets
  \/ ParseFuncDef \/ ParseFuncParam \/ ParseOpenDimension
  \/ ParseBlock \/ ParseItems \/ ParseStmt \/ ParseElse \/ ParseResult \/ ParseTrial
  \/ ParseExpr \/ ParseRest \/ ParseUnary \/ ParsePrimary \/ ParseCall
  \/ ParseExpect \/ ParseGather

Next == Read \/ Parse

\* The parser is one loop of one thread, and the lexer's tokens are all there
\* before it starts.
Spec == Init /\ [][Next]_vars
FairSpec == Spec /\ WF_vars(Next)

----------------------------------------------------------------------------
Done == todo = <<>>

\* peek never looks behind the last token but for the one that ends the input,
\* errors are about tokens that are there, and so are the trees that a tree is
\* made of or an attempt falls back to; in the end there is one.
TypeOK ==
  /\ kit \in DOMAIN Kits
  /\ pos \in 1 .. Len(tokens) + 1
  /\ errors \subseteq DOMAIN tokens
  /\ \A i \in DOMAIN todo :
       /\ todo[i].do = "gather" => todo[i].base \in Nat
       /\ todo[i].do = "trial" => todo[i].at \in 1 .. pos /\ todo[i].base \in Nat
  /\ todo # <<>> /\ todo[1].do \in {"gather", "trial"} => todo[1].base \in 0 .. Len(built)
  /\ Done => Len(built) = 1
=============================================================================
