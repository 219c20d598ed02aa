SPECIFICATION MCSpec
CONSTANTS
  Threads = {home, sibling}
  Home = home
  Workers = {worker}
  None = none
  Kinds = {"bound", "offline"}
  MaxDepth = 3
  MaxLeases = 2
  MaxCalls = 4
  SharedKinds = {"bound"}
  SharedDepth = 2
  SharedCalls = 2
INVARIANTS FramesAgree AdapterAgrees
PROPERTIES ReturnsToCaller PairedCallbacks DispatchEnds
CHECK_DEADLOCK FALSE
