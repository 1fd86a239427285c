\* Safety: churn, hidden pods, an account with other pods, a crash, unreadable
\* rates and creation times.
CONSTANTS
  w1 = w1
  w2 = w2
  cp = cp
  f1 = f1
  Workers = {w1, w2}
  Foreign = {f1}
  Control = cp
  Rates = {1}
  MaxLive = 2
  HideMax = 1
  MaxTime = 2
  MaxRate = 2
  Ceiling = 4
  Interval = 1
  Unreadable = {w1, w2}
  MaxCrashes = 1
  TornWrites = FALSE
  StandDowns = TRUE
SYMMETRY Sym
SPECIFICATION Spec
INVARIANTS
  CoreTypeOK
  NeverUnderBooked
  ControlPlaneDiesFirst
  ExitMeansGone
PROPERTIES
  MeterNeverRunsBack
  ImplementsContract
