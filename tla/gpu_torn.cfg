\* A ledger write may fail half way; nobody requests a stand-down, so that the deadline is
\* what the watch must end on.
CONSTANTS
  w1 = w1
  w2 = w2
  cp = cp
  f1 = f1
  Workers = {w1}
  Foreign = {}
  Control = cp
  Rates = {1}
  MaxLive = 1
  HideMax = 0
  MaxTime = 1
  MaxRate = 1
  Ceiling = 1
  Interval = 1
  Unreadable = {}
  MaxCrashes = 0
  TornWrites = TRUE
  StandDowns = FALSE
SPECIFICATION FairSpec
PROPERTY ClosesOut
