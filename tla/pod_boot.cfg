\* Two versions of the contract, two builds, two starts of the container.
CONSTANTS
  c1 = c1
  c2 = c2
  Contracts <- Versions
  MaxBuilds = 2
  MaxBoots = 2
SPECIFICATION FairSpec
INVARIANTS
  TypeOK
  RegisteredIsSound
PROPERTY ContainerEnds
CHECK_DEADLOCK FALSE
