------------------------------- MODULE Lexer -------------------------------
(***************************************************************************)
(* The lexer (src/src/frontend/lexer.cpp).  A text is a sequence of        *)
(* characters; an action is one round of the loop over blanks and          *)
(* comments, or one token.  The names of the single operators are their    *)
(* texts, and of errors_ only the places are kept.                         *)
(***************************************************************************)
EXTENDS Integers, Sequences, FiniteSetsExt, SequencesExt

CONSTANTS
  Texts     \* the texts to read

\* peek gives this character at the end of the text.
Nul == ""
\* A text is a sequence of characters, and it has no null character.
ASSUME TextsAssumption ==
  \A text \in Texts : text \in Seq(STRING) /\ \A p \in DOMAIN text : text[p] # Nul

VARIABLES
  source,   \* source_
  pos,      \* pos_, from 1
  location, \* location_
  tokens,   \* tokens_
  errors,   \* locations of errors_
  phase     \* "gap", "token" or "done": the part of tokenize's loop that is next

vars == <<source, pos, location, tokens, errors, phase>>

----------------------------------------------------------------------------
(* Characters.                                                             *)

Digit == {"0", "1", "8"}
HexDigit == Digit \cup {"a", "b", "e", "f", "E"}
Letter == {"a", "b", "e", "f", "i", "n", "p", "t", "x", "P", "E", "X"}
WordPart == Letter \cup Digit \cup {"_"}
Space == {" ", "\n", "\t"}

Keywords == {<<"i", "f">>, <<"i", "n", "t">>}
Pairs == {<<c, "=">> : c \in {"=", "!", "<", ">"}} \cup {<<"&", "&">>, <<"|", "|">>}
Singles == {"+", "-", "*", "/", "%", "!", "=", "<", ">", ",", ";", "(", ")", "[", "]", "{", "}"}
Quote == "\""
Escapable == {"n", "t", "\\", Quote}

\* peek
At(p) == IF p \in DOMAIN source THEN source[p] ELSE Nul
Eof == pos > Len(source)
\* Where the characters of a class that start at p end.
RunEnd(class, p) == Min({q \in p .. Len(source) + 1 : At(q) \notin class})

\* advance
Start == [line |-> 1, column |-> 1]
\* Mutation: the next line starts at column 0.
AdvancedToZero(l, c) ==
  IF c = "\n" THEN [line |-> l.line + 1, column |-> 0] ELSE [l EXCEPT !.column = @ + 1]
Advanced(l, c) ==
  IF c = "\n" THEN [line |-> l.line + 1, column |-> 1] ELSE [l EXCEPT !.column = @ + 1]
LocationAt(p) == FoldLeft(Advanced, location, SubSeq(source, pos, p - 1))
Move(p) == pos' = p /\ location' = LocationAt(p)

\* add, of the characters before p
Token(kind, p) == [kind |-> kind, text |-> SubSeq(source, pos, p - 1), location |-> location]
Add(kind, p) == tokens' = Append(tokens, Token(kind, p))
Report(places) == errors' = errors \cup {LocationAt(p) : p \in places}
InGap == phase = "gap" /\ ~ Eof /\ UNCHANGED <<source, tokens>>
AtToken == phase = "token" /\ phase' = "gap" /\ UNCHANGED source

----------------------------------------------------------------------------
(* skipWhitespaceAndComments                                               *)

SkipSpace ==
  /\ InGap /\ At(pos) \in Space
  /\ Move(RunEnd(Space, pos))
  /\ UNCHANGED <<errors, phase>>

SkipLineComment ==
  /\ InGap /\ At(pos) = "/" /\ At(pos + 1) = "/"
  /\ Move(Min({q \in pos .. Len(source) + 1 : At(q) \in {"\n", Nul}}))
  /\ UNCHANGED <<errors, phase>>

SkipBlockComment ==
  LET ends == {q \in pos + 2 .. Len(source) : At(q) = "*" /\ At(q + 1) = "/"} IN
  /\ InGap /\ At(pos) = "/" /\ At(pos + 1) = "*"
  /\ IF ends = {} THEN Move(Len(source) + 1) /\ Report({pos}) ELSE Move(Min(ends) + 2) /\ Report({})
  /\ UNCHANGED phase

\* Mutation: the end of the text is not looked for behind the blanks.
GapEndsAnyway ==
  /\ phase = "gap" /\ At(pos) \notin Space
  /\ phase' = "token"
  /\ UNCHANGED <<source, pos, location, tokens, errors>>
GapEnds ==
  /\ InGap
  /\ At(pos) \notin Space /\ ~ (At(pos) = "/" /\ At(pos + 1) \in {"/", "*"})
  /\ phase' = "token"
  /\ UNCHANGED <<pos, location, errors>>

----------------------------------------------------------------------------
(* Tokens.                                                                 *)

LexIdentifierOrKeyword ==
  LET end == RunEnd(WordPart, pos) IN
  /\ AtToken /\ At(pos) \in Letter \cup {"_"}
  /\ Add(IF SubSeq(source, pos, end - 1) \in Keywords THEN "Keyword" ELSE "Identifier", end)
  /\ Move(end) /\ UNCHANGED errors

\* lexNumber, behind the 0x of a hexadecimal number: digits, a fraction, and an
\* exponent behind its mark.
\* Mutation: a sign may stand where the exponent is missing.
NumberFromSigned(p, digits, marks) ==
  LET whole    == RunEnd(digits, p)
      fraction == IF At(whole) = "." THEN RunEnd(digits, whole + 1) ELSE whole
      signed   == IF At(fraction + 1) \in {"+", "-"} THEN fraction + 2 ELSE fraction + 1
      exponent == At(fraction) \in marks /\ (At(signed) \in Digit \/ signed = fraction + 2)
      end      == IF exponent THEN RunEnd(Digit, signed) ELSE fraction
  IN  /\ Add(IF end = whole THEN "IntLiteral" ELSE "FloatLiteral", end)
      /\ Report({})
      /\ Move(end)
NumberFrom(p, digits, marks) ==
  LET whole    == RunEnd(digits, p)
      fraction == IF At(whole) = "." THEN RunEnd(digits, whole + 1) ELSE whole
      exponent == At(fraction) \in marks
      signed   == IF At(fraction + 1) \in {"+", "-"} THEN fraction + 2 ELSE fraction + 1
      end      == IF exponent THEN RunEnd(Digit, signed) ELSE fraction
  IN  /\ Add(IF end = whole THEN "IntLiteral" ELSE "FloatLiteral", end)
      /\ Report(IF exponent /\ At(signed) \notin Digit THEN {signed} ELSE {})
      /\ Move(end)
LexNumber ==
  /\ AtToken
  /\ At(pos) \in Digit \/ (At(pos) = "." /\ At(pos + 1) \in Digit)
  /\ IF At(pos) = "0" /\ At(pos + 1) \in {"x", "X"}
     THEN NumberFrom(pos + 2, HexDigit, {"p", "P"})
     ELSE NumberFrom(pos, Digit, {"e", "E"})

\* lexString: what is read from p on, up to the closing quote, the end of the
\* line or the end of the text.
Read(end, closed, wrong) == [end |-> end, closed |-> closed, wrong |-> wrong]
Quoted ==
  LET From[p \in 2 .. Len(source) + 1] ==
        CASE At(p) = Quote -> Read(p + 1, TRUE, {})
          [] At(p) \in {Nul, "\n"} \/ (At(p) = "\\" /\ At(p + 1) = Nul) -> Read(p, FALSE, {})
          [] At(p) = "\\" /\ At(p + 1) # Nul ->
               IF At(p + 1) \in Escapable THEN From[p + 2]
               ELSE [From[p + 2] EXCEPT !.wrong = @ \cup {p + 1}]
          [] OTHER -> From[p + 1]
  IN  From[pos + 1]
LexString ==
  LET end == IF Quoted.closed \/ At(Quoted.end) = "\n" THEN Quoted.end ELSE Len(source) + 1 IN
  /\ AtToken /\ At(pos) = Quote
  /\ IF Quoted.closed THEN Add("StringLiteral", end) ELSE UNCHANGED tokens
  /\ Report(IF Quoted.closed THEN Quoted.wrong ELSE Quoted.wrong \cup {pos})
  /\ Move(end)

\* The switch of tokenize.
LexOperator ==
  /\ AtToken
  /\ At(pos) \in Singles \cup {"&", "|"}
  /\ IF <<At(pos), At(pos + 1)>> \in Pairs THEN Add("Operator", pos + 2) /\ Move(pos + 2) /\ Report({})
     ELSE /\ Move(pos + 1)
          /\ IF At(pos) \in Singles THEN Add("Operator", pos + 1) /\ Report({})
             ELSE UNCHANGED tokens /\ Report({pos})

\* Mutation: the character is not skipped.
LeaveUnexpected ==
  /\ AtToken
  /\ At(pos) \notin WordPart \cup Singles \cup {"&", "|", Quote}
  /\ ~ (At(pos) = "." /\ At(pos + 1) \in Digit)
  /\ Report({pos}) /\ UNCHANGED <<pos, location, tokens>>
SkipUnexpected ==
  /\ AtToken
  /\ At(pos) \notin WordPart \cup Singles \cup {"&", "|", Quote}
  /\ ~ (At(pos) = "." /\ At(pos + 1) \in Digit)
  /\ Move(pos + 1) /\ Report({pos}) /\ UNCHANGED tokens

Finish ==
  /\ phase = "gap" /\ Eof
  /\ Add("End", pos) /\ phase' = "done"
  /\ UNCHANGED <<source, pos, location, errors>>

----------------------------------------------------------------------------
Init ==
  /\ source \in Texts
  /\ pos = 1 /\ location = Start
  /\ tokens = <<>> /\ errors = {}
  /\ phase = "gap"

Next ==
  \/ SkipSpace \/ SkipLineComment \/ SkipBlockComment \/ GapEnds
  \/ LexIdentifierOrKeyword \/ LexNumber \/ LexString \/ LexOperator \/ SkipUnexpected
  \/ Finish

\* The lexer is one loop of one thread.
Spec == Init /\ [][Next]_vars /\ WF_vars(Next)

----------------------------------------------------------------------------
\* The position never leaves the text but for its end, where the lexer stops
\* with one token that says so, and no other token is empty.
TypeOK ==
  /\ phase \in {"gap", "token", "done"}
  /\ pos \in 1 .. Len(source) + 1
  /\ phase = "token" => ~ Eof
  /\ phase = "done" <=> (tokens # <<>> /\ Last(tokens).kind = "End")
  /\ \A i \in DOMAIN tokens : (tokens[i].text = <<>>) <=> (tokens[i].kind = "End")
=============================================================================
