SPECIFICATION BackendSpec
CONSTANTS
  W = 16
  Fuel = 11
  Corpus <- CodeCorpus
INVARIANTS
  CompilerTypeOK
  SlotsAreApart
  CopiesActAtOnce
  CodeKeepsTheMeaning
  BackendTypeOK
  EveryLineAssembles
PROPERTIES
  RewritingsKeepTheMeaning
CHECK_DEADLOCK FALSE
