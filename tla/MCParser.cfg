SPECIFICATION FairSpec
CONSTANTS
  Kits <- MCKits
INVARIANTS
  TypeOK
  ReadsTheLanguage
PROPERTIES
  EndsOrMeetsABrace
CHECK_DEADLOCK FALSE
