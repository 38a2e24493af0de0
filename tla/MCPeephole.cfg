SPECIFICATION Spec
CONSTANTS
  W = 8
PROPERTY TextsKeepTheirMeaning
CHECK_DEADLOCK FALSE
