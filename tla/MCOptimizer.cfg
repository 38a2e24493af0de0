SPECIFICATION FairSpec
CONSTANTS
  W = 8
  Fuel = 9
  Corpus <- MCCorpus
INVARIANTS
  TypeOK
  FactsStayTrue
  BuiltAsWritten
PROPERTIES
  BranchesAreBound
  OperandsAreBound
  DefinitionsDominateUses
  DominatorsAreRight
  MeaningKept
  OptimizerEnds
CHECK_DEADLOCK FALSE
