CONSTANTS
  Clients = {c1, c2}
  Worker = worker
  Units = {}
  Bases = {b1}
  Contexts = {x1}
  None = None
  HostMayFail = FALSE
  MaxEvents = 1
  MaxOperations = 5
  MaxRequests = 0
SPECIFICATION Spec
INVARIANT RetiredIsGone
CHECK_DEADLOCK FALSE
