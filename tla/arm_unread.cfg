\* As arm_admit; a receipt may be unreadable when it is read back.
CONSTANTS
  a1 = a1
  a2 = a2
  d1 = d1
  d2 = d2
  Armers = {a1, a2}
  NoArmer = NoArmer
  Dirs = {d1, d2}
  Attempts = 2
  Batches = 2
  ReadsBack = {TRUE, FALSE}
  MaxFaults = 1
SPECIFICATION FairSpec
CHECK_DEADLOCK FALSE
PROPERTY AuthorityIsKept
