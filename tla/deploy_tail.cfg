\* The launch and the resume: lost calls, outages, one kill, a pod that is listed as
\* late as six empty reads allow.
CONSTANTS
  cp = cp
  f1 = f1
  Workers = {}
  Foreign = {f1}
  Control = cp
  Rates = {1}
  MaxLive = 0
  HideMax = 5
  MaxTime = 6
  DiscoverSleep = 1
  ResumeSleep = 1
  MaxReads = 7
  MaxSweeps = 2
  Garbled = {"resume"}
  MaxKills = 1
SPECIFICATION FairSpec
INVARIANTS
  TypeOK
  NoOrphan
PROPERTIES
  ResolvedMeansGone
  LaunchEnds
  LeftoverIsCleared
CHECK_DEADLOCK FALSE
