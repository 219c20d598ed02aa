SPECIFICATION Spec
CONSTANTS
  CPUs = {c1, c2, c3}
  MaxDepth = 2
  Policy = "strict"
  Outcomes = {"ok", "never", "after", "recovery"}
  BackupMayLack = TRUE
  CaptureMayFail = TRUE
  MaxRetained = 1
  MaxUnreturned = 1
SYMMETRY Threads
INVARIANTS RecordAgrees TrackedOriginalSafe NoStrayCall NoSelfDeadlock FinishNeverLost
PROPERTY ImplementsLifetime
CHECK_DEADLOCK FALSE
