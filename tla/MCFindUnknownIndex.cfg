SPECIFICATION Spec
CONSTANTS
  W = 8
  Fuel = 8
  Corpus <- UnknownIndex
PROPERTY MeaningKept
CHECK_DEADLOCK FALSE
