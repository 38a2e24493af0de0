----------------------------- MODULE LexerRules -----------------------------
(***************************************************************************)
(* The words of the language, each by what its characters are, and what    *)
(* the lexer is to do with a text.                                         *)
(***************************************************************************)
EXTENDS Lexer

\* All of the below is about source[i] .. source[j - 1].
All(class, i, j) == \A p \in i .. j - 1 : source[p] \in class
Some(class, i, j) == i < j /\ All(class, i, j)

Word(i, j) == Some(WordPart, i, j) /\ source[i] \notin Digit
Kept(i, j) == SubSeq(source, i, j - 1) \in Keywords
Operator(i, j) == SubSeq(source, i, j - 1) \in Pairs \cup {<<c>> : c \in Singles}

\* The digits of a number that starts at i, where they start, and the marks of
\* its exponent.  Behind 0x there may be none.
Hexadecimal(i) == At(i) = "0" /\ At(i + 1) \in {"x", "X"}
Digits(i) == IF Hexadecimal(i) THEN HexDigit ELSE Digit
First(i) == IF Hexadecimal(i) THEN i + 2 ELSE i
Marks(i) == IF Hexadecimal(i) THEN {"p", "P"} ELSE {"e", "E"}
Integer(i, j) ==
  IF Hexadecimal(i) THEN j = i + 1 \/ (j >= i + 2 /\ All(HexDigit, i + 2, j)) ELSE Some(Digit, i, j)
Decimal(i, j) ==
  /\ \E p \in First(i) .. j - 1 :
       source[p] = "." /\ All(Digits(i), First(i), p) /\ All(Digits(i), p + 1, j)
  /\ Hexadecimal(i) \/ \E p \in i .. j - 1 : source[p] \in Digit
Exponent(i, m, j) ==
  /\ source[m] \in Marks(i)
  /\ Some(Digit, m + 1, j) \/ (At(m + 1) \in {"+", "-"} /\ Some(Digit, m + 2, j))
Scaled(i, j) == \E m \in i + 1 .. j - 1 : Exponent(i, m, j) /\ (Integer(i, m) \/ Decimal(i, m))
Float(i, j) == Decimal(i, j) \/ Scaled(i, j)
\* A number is not followed by the mark of an exponent it has not got.
Number(i, j) == Integer(i, j) \/ Float(i, j)
Lame(i, j) == Number(i, j) /\ ~ Scaled(i, j) /\ At(j) \in Marks(i)

\* A character of a string is escaped by an odd number of backslashes.
Escaped(i, p) ==
  LET plain == Max({q \in i .. p - 1 : source[q] # "\\"}) IN (p - 1 - plain) % 2 = 1
String(i, j) ==
  /\ j >= i + 2 /\ source[i] = Quote /\ source[j - 1] = Quote /\ ~ Escaped(i, j - 1)
  /\ \A p \in i + 1 .. j - 2 :
       IF Escaped(i, p) THEN source[p] \in Escapable ELSE source[p] \notin {Quote, "\n"}

OpensComment(i) == At(i) = "/" /\ At(i + 1) \in {"/", "*"}
EndsBlock(q) == At(q) = "*" /\ At(q + 1) = "/"
Comment(i, j) ==
  \/ /\ At(i + 1) = "/" /\ At(j) \in {"\n", Nul}
     /\ \A p \in i .. j - 1 : source[p] # "\n"
  \/ /\ At(i + 1) = "*" /\ j - 2 >= i + 2 /\ EndsBlock(j - 2)
     /\ \A q \in i + 2 .. j - 3 : ~ EndsBlock(q)

Kind(i, j) ==
  IF Word(i, j) THEN IF Kept(i, j) THEN "Keyword" ELSE "Identifier"
  ELSE IF Integer(i, j) THEN "IntLiteral"
  ELSE IF Float(i, j) THEN "FloatLiteral"
  ELSE IF String(i, j) THEN "StringLiteral"
  ELSE "Operator"
Lexeme(i, j) == Word(i, j) \/ Number(i, j) \/ String(i, j) \/ Operator(i, j)

\* Line and column of source[i].
Place(i) ==
  LET breaks == {p \in 1 .. i - 1 : source[p] = "\n"}
  IN  [line |-> 1 + Cardinality(breaks), column |-> i - Max(breaks \cup {0})]

\* The tokens of the text, or nothing if it has a part that is no word of the
\* language: each is the longest that starts where it starts.
Reading ==
  LET End == [kind |-> "End", text |-> <<>>, location |-> Place(Len(source) + 1)]
      From[i \in 1 .. Len(source) + 1] ==
        LET ends    == {j \in i + 1 .. Len(source) + 1 : Lexeme(i, j)}
            comment == {j \in i + 2 .. Len(source) + 1 : Comment(i, j)}
            longest == Max(ends)
        IN  IF i > Len(source) THEN {<<End>>}
            ELSE IF source[i] \in Space THEN From[i + 1]
            ELSE IF OpensComment(i) THEN UNION {From[j] : j \in comment}
            ELSE IF ends = {} \/ Lame(i, longest) THEN {}
            ELSE {<<[kind |-> Kind(i, longest), text |-> SubSeq(source, i, longest - 1),
                     location |-> Place(i)]>> \o rest : rest \in From[longest]}
  IN  From[1]

----------------------------------------------------------------------------
\* A text is read without an error exactly when it is made of words of the
\* language, blanks and comments, and then as the longest words there are, each
\* with the line and the column where it stands.
ReadsTheLongest == phase = "done" => (IF errors = {} THEN {tokens} ELSE {}) = Reading

\* Line and column are those of the position, and errors are where something
\* stands in the text.
PlacesAreRight ==
  /\ location = Place(pos)
  /\ errors \subseteq {Place(p) : p \in 1 .. Len(source) + 1}

\* Whatever the text is, the lexer comes to its end.
LexerEnds == <>(phase = "done")
=============================================================================
