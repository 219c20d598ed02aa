CONSTANTS
  Clients = {c1}
  Worker = worker
  Units = {2}
  Bases = {b1, b2}
  Contexts = {x1, x2}
  None = None
  HostMayFail = TRUE
  MaxEvents = 2
  MaxOperations = 4
  MaxRequests = 2
SPECIFICATION Spec
INVARIANT ImagesAgree
INVARIANT HooksFollowRuntime
INVARIANT IndexMirrorsImages
PROPERTY CompletedSeesRequest
PROPERTY DestroyEnds
CHECK_DEADLOCK FALSE
