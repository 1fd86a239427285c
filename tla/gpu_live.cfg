\* Liveness: one worker of the run, a late listing, outages; and the exit code, with a deadline
\* that a closeout on stand-down can end before.
CONSTANTS
  w1 = w1
  w2 = w2
  cp = cp
  f1 = f1
  Workers = {w1}
  Foreign = {}
  Control = cp
  Rates = {1}
  MaxLive = 1
  HideMax = 1
  MaxTime = 4
  MaxRate = 1
  Ceiling = 4
  Interval = 1
  Unreadable = {}
  MaxCrashes = 0
  TornWrites = FALSE
  StandDowns = TRUE
SPECIFICATION FairSpec
INVARIANT ExitCodeIsHonest
PROPERTY ClosesOut
