SPECIFICATION BackendSpec
CONSTANTS
  W = 16
  Fuel = 9
  Corpus <- OverwrittenPair
PROPERTY RewritingsKeepTheMeaning
CHECK_DEADLOCK FALSE
