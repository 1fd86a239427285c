\* Listings that do not parse, of a pod that is listed at once.
CONSTANTS
  cp = cp
  f1 = f1
  Workers = {}
  Foreign = {f1}
  Control = cp
  Rates = {1}
  MaxLive = 0
  HideMax = 0
  MaxTime = 1
  DiscoverSleep = 1
  ResumeSleep = 1
  MaxReads = 7
  MaxSweeps = 2
  Garbled = {"launch", "resume"}
  MaxKills = 0
SPECIFICATION Spec
INVARIANT NoOrphan
CHECK_DEADLOCK FALSE
