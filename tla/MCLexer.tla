------------------------------ MODULE MCLexer ------------------------------
(***************************************************************************)
(* Texts for the lexer: every short text over the characters of numbers,   *)
(* of comments and strings, of escapes, of operators, and of words.        *)
(***************************************************************************)
EXTENDS LexerRules

Over(characters, size) == UNION {[1 .. n -> characters] : n \in 0 .. size}

MCTexts ==
  Over({"0", "1", "x", ".", "e", "p", "-"}, 5) \cup
  Over({"/", "*", "\"", "a", "\n"}, 6) \cup
  Over({"\"", "\\", "n", "x", "\n"}, 6) \cup
  Over({"=", "!", "&", "|", "+", "a"}, 4) \cup
  Over({"i", "f", "_", "1", " ", "@"}, 4)
=============================================================================
