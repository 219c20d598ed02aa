CONSTANTS
  Hosts = {host}
  Mutator = mutator
  Workers = {worker}
  None = none
  RootSlots = 2
  RootLeases = 2
  MaxDepth = 2
  MaxGeneration = 3
SPECIFICATION FairSpec
INVARIANTS RetiredIsIdle AdmittedIsServed ServedProofIsCurrent
PROPERTY ClosedDrains
CHECK_DEADLOCK FALSE
