\* Two armers, of one run directory or of two, and two batches; one fault.
CONSTANTS
  a1 = a1
  a2 = a2
  d1 = d1
  d2 = d2
  Armers = {a1, a2}
  NoArmer = NoArmer
  Dirs = {d1, d2}
  Attempts = 2
  Batches = 2
  ReadsBack = {TRUE}
  MaxFaults = 1
SPECIFICATION FairSpec
INVARIANTS
  TypeOK
  DemandIsAuthorised
  RefusedArmsNothing
  OneSeries
  AdmittedInOrder
  CompleteMeansAll
  NoStrayCanary
PROPERTIES
  AuthorityIsKept
  ArmingEnds
  SeriesEnds
CHECK_DEADLOCK FALSE
