----------------------- MODULE HookLifecycleInvariant -----------------------
(***************************************************************************)
(* The inductive invariant behind the safety properties of HookLifecycle:  *)
(* what the gate, the record, the host and the counters owe each other at  *)
(* every step of the holder of State().mutex.                              *)
(***************************************************************************)
EXTENDS HookLifecycle

InstallSteps == {"host", "capture", "rollback", "rollbackDone"}
UnhookSteps  == {"drain", "check", "close", "recheck", "unhook",
                 "unhookFailed", "bypass", "restore"}

(* The steps during which the gate is closed, and those of them that come  *)
(* after in_flight was seen to be zero behind the closed gate.             *)
ClosedSteps == {"recheck", "unhook", "bypass", "rollback"}
SettledSteps == {"unhook", "bypass", "rollback"}

(* What the holder of State().mutex knows at each of its steps.            *)
StepInv ==
  /\ pc \in InstallSteps => state = "Installing"
  /\ pc = "arm" => state = "Installed"
  /\ pc \in UnhookSteps => state = "Unhooking"
  /\ gate = "CLOSED" <=> pc \in ClosedSteps
  /\ pc = "host" =>
       /\ gate = "INSTALLING" /\ ~backend_installed
       /\ trampoline # "freed" /\ (backup => trampoline = "live")
  /\ pc \in {"capture", "arm"} => gate = "INSTALLING" /\ backend_installed
  /\ pc = "close" \/ pc \in ClosedSteps => backend_installed
  /\ pc \in {"check", "close"} => gate # "ARMED"
  /\ pc = "bypass" => ~patched
  /\ pc = "restore" => ~backend_installed

(* The gate lets calls through only to an installed backend, and an        *)
(* installed backend has the trampoline it handed over.                    *)
BackendInv ==
  /\ gate \in {"ARMED", "DRAINING", "BYPASS_BACKUP"} => backend_installed
  /\ gate \in {"FAILED", "BYPASS_TARGET"} => ~backend_installed
  /\ ~backend_installed /\ pc # "host" /\ state # "None"
       => gate \in {"BYPASS_TARGET", "FAILED"}
  /\ state = "None" => gate \in {"INSTALLING", "FAILED"} /\ ~backend_installed /\ trampoline = "none"
  /\ backend_installed /\ backup /\ pc # "bypass" => trampoline = "live"

(* Nobody is inside while the gate holds everybody back, and nobody is on  *)
(* the way before the entry was ever patched.                              *)
QuietInv ==
  /\ gate \in {"INSTALLING", "FAILED", "CLOSED"} => entrants = 0
  /\ gate \in {"INSTALLING", "FAILED"} \/ pc \in SettledSteps => in_flight = 0
  /\ state = "None" \/ gate = "FAILED" \/ (pc = "host" /\ ~patched)
       => ~patched /\ \A k \in Calls : at[k] = "idle"
  /\ retained = 0 => \A k \in Calls : at[k] # "retained"

(* The inductive invariant: every step of the holder of State().mutex, of  *)
(* the gate stub and of the dispatcher keeps it.                           *)
LifecycleInv ==
  /\ TypeOK
  /\ CountersExact
  /\ StepInv
  /\ BackendInv
  /\ QuietInv
  /\ TrackedOriginalSafe
  /\ NoStrayCall
  /\ EntryNeverLoops
  /\ UnhookedIsQuiet
  /\ FinishNeverLost
=============================================================================
