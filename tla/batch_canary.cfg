\* Two rows, two invocations, two faults, and a gateway that may break one promise.
CONSTANTS
  Rows = 2
  Credits = 2000000
  PromptTokens = 3960
  Context = 8192
  MaxCompletion = 64
  InputPrice = 100000
  OutputPrice = 400000
  PerMillion = 1000000
  Completions = {4}
  Twists <- AllTwists
  MaxRuns = 2
  MaxTries = 2
  PageSize = 1
  MaxFaults = 2
SPECIFICATION FairSpec
INVARIANTS
  TypeOK
  ChargedOnce
  RefusalIsHonest
PROPERTIES
  PassedMeansExact
  RunEnds
CHECK_DEADLOCK FALSE
