SPECIFICATION Spec
CONSTANTS
  Texts <- MCTexts
INVARIANTS
  TypeOK
  ReadsTheLongest
  PlacesAreRight
PROPERTIES
  LexerEnds
CHECK_DEADLOCK FALSE
