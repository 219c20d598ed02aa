SPECIFICATION MCSpec
CONSTANTS
  CPUs = {c1, c2}
  MaxDepth = 2
  Policy = "localGate"
  Outcomes = {"ok", "never"}
  BackupMayLack = FALSE
  CaptureMayFail = FALSE
  MaxRetained = 1
  MaxUnreturned = 1
  Thread1 = t1
  Thread2 = t2
  Listener = l1
  Owner = home
INVARIANT ReturnsIntercepted
PROPERTIES UnhookEnds GateLetsGo QuiesceCompletes
CHECK_DEADLOCK FALSE
