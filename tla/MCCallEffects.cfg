SPECIFICATION FairSpec
CONSTANTS
  Functions = {main, f, g}
  Main = main
  Runtime = {getint, getarray}
  NonWritingRuntime = {getint}
  IoRuntime = {getint, getarray}
  Programs <- MCPrograms
  MCKinds = {"plain", "store", "load", "opaque"}
  MCOutside = {{}, {getint}, {getarray}}
INVARIANTS TypeOK StaleSummarySound NoDanglingCall IoAnswersAreTrue
PROPERTIES MemorySummaryExact PureSummaryExact OnlyUnreachableErased AnalysesEnd ImplementsSummary
CHECK_DEADLOCK FALSE
