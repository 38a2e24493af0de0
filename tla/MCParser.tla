------------------------------ MODULE MCParser ------------------------------
(***************************************************************************)
(* Inputs for the parser.  "anything" is every short sequence of a few     *)
(* tokens, with all the errors it meets; the other kinds end at the first  *)
(* error, so that they are the beginnings of programs.                     *)
(***************************************************************************)
EXTENDS ParserRules

Kind(prelude, toks, size, faults) ==
  [prelude |-> prelude, tokens |-> toks, size |-> size, faults |-> faults]
Body == <<"int", "id", "(", ")", "{">>

MCKits == [
  anything   |-> Kind(<<>>, {"int", "id", "(", "}", ";"}, 5, 5),
  inside     |-> Kind(Body, {"if", "id", "(", "=", ";", "}"}, 9, 5),
  arithmetic |-> Kind(Body \o <<"return">>, {"id", "-", "*", "<", "(", ")", ";", "}"}, 12, 0),
  logic      |-> Kind(Body \o <<"return">>, {"id", "||", "&&", "==", ">", "!", ";", "}"}, 13, 0),
  calls      |-> Kind(Body \o <<"id">>, {"id", "(", ")", ",", "[", "]", "=", ";", "}"}, 12, 0),
  branches   |-> Kind(Body \o <<"if", "(", "id", ")", "if", "(", "id", ")">>,
                      {"else", "while", "(", "id", ")", ";", "{", "}"}, 17, 0),
  simple     |-> Kind(Body, {"break", "continue", "return", "1", "{", "}", ";"}, 11, 0),
  parameters |-> Kind(<<"int", "id", "(", "float", "id", "[", "]">>,
                      {"void", "int", "id", "[", "]", ",", ")", "{", "}"}, 15, 0),
  declared   |-> Kind(<<>>, {"const", "int", "id", "[", "]", "=", "{", "}", ",", ";", "("}, 8, 0) ]
=============================================================================
