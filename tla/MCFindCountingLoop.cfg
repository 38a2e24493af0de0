SPECIFICATION Spec
CONSTANTS
  W = 8
  Fuel = 9
  Corpus <- CountingLoop
PROPERTY MeaningKept
CHECK_DEADLOCK FALSE
