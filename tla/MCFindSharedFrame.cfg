SPECIFICATION BackendSpec
CONSTANTS
  W = 8
  Fuel = 9
  Corpus <- SharedFrame
INVARIANT CodeKeepsTheMeaning
CHECK_DEADLOCK FALSE
