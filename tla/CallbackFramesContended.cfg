CONSTANTS
  Threads = {home}
  Home = home
  Workers = {worker}
  None = none
  Kinds = {"bound"}
  MaxDepth = 1
  MaxLeases = 1
  MaxCalls = 1
SPECIFICATION Spec
INVARIANT NeverTraps
CHECK_DEADLOCK FALSE
