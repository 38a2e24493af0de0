SPECIFICATION Spec
CONSTANTS
  Exprs <- MCExprs
  Kits <- MCKits
INVARIANTS
  TypeOK
  CountersFollowTheNest
  NamesResolve
  VerdictIsTheLanguages
  ConstantsAgree
CHECK_DEADLOCK FALSE
