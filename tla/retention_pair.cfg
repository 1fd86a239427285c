\* One attempt of two arms with two jobs each, and two epochs; two windows, three triggers.
CONSTANTS
  t1 = t1
  t2 = t2
  t3 = t3
  p1 = p1
  p2 = p2
  j1 = j1
  j2 = j2
  Jobs = {j1, j2}
  Pods = {p1, p2}
  Policies = {"parity", "aware"}
  Floor = 1
  MaxCharge = 2
  MaxSeals = 2
  MaxEpoch = 2
  Triggers = {t1, t2, t3}
SYMMETRY Sym
SPECIFICATION Spec
INVARIANTS
  PairTypeOK
  CandidateIsSound
  VerdictIsEarned
  OneOperator
CHECK_DEADLOCK FALSE
