\* One worker and one outage.
CONSTANTS
  w1 = w1
  cp = cp
  Workers = {w1}
  Foreign = {}
  Control = cp
  Rates = {1}
  MaxLive = 1
  HideMax = 0
  MaxTime = 4
  MaxRate = 1
  Ceiling = 2
  Interval = 1
  Unreadable = {}
  MaxCrashes = 0
  TornWrites = FALSE
  StandDowns = TRUE
  CampaignTime = 4
  ControlModes = {FALSE}
SPECIFICATION Spec
INVARIANT BlindnessNeverBuys
