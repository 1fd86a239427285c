\* A campaign watch over a local control plane or a control-plane pod; one worker, a crash,
\* outages long enough to spend the ceiling before the wall, and the wall itself.
CONSTANTS
  w1 = w1
  cp = cp
  Workers = {w1}
  Foreign = {}
  Control = cp
  Rates = {1}
  MaxLive = 1
  HideMax = 1
  MaxTime = 4
  MaxRate = 1
  Ceiling = 2
  Interval = 1
  Unreadable = {}
  MaxCrashes = 1
  TornWrites = FALSE
  StandDowns = TRUE
  CampaignTime = 4
  ControlModes = {TRUE, FALSE}
SPECIFICATION Spec
INVARIANTS
  ExitCodeIsHonest
  BlindExposureBounded
  NeverUnderBooked
  ControlPlaneDiesFirst
PROPERTY ImplementsContract
