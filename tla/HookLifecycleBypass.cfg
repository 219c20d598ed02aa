SPECIFICATION Spec
CONSTANTS
  CPUs = {c1, c2}
  MaxDepth = 2
  Policy = "strict"
  Outcomes = {"ok", "never", "after", "recovery"}
  BackupMayLack = TRUE
  CaptureMayFail = TRUE
  MaxRetained = 1
  MaxUnreturned = 1
INVARIANT NoFetchAfterUnhook
CHECK_DEADLOCK FALSE
