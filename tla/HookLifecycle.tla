---------------------------- MODULE HookLifecycle ----------------------------
(***************************************************************************)
(* One physical hook on a real Dart entry: the publication gate that the   *)
(* host's patch branches to, the HookRecord behind it, the Dart threads    *)
(* that run through both, and the operations that install, unhook, recover *)
(* and retire the hook under State().mutex.                                *)
(*                                                                         *)
(* A step is one atomic access of the code: a compare-exchange of the gate *)
(* control word, a section under hook->mutex, or a call into the host.     *)
(* State().mutex is held over many such steps; pc says how far its holder  *)
(* has come.  Dart threads never take it except to finish an unhook.       *)
(***************************************************************************)
EXTENDS Naturals, FiniteSets

CONSTANTS
  CPUs,           \* Dart threads
  MaxDepth,       \* bound: nested invocations of the hooked function per thread
  Policy,         \* HostPublicationPolicy of the host: "strict" or "localGate"
  Outcomes,       \* results the host's hook call may have
  BackupMayLack,  \* may the host report a hook but no original trampoline?
  CaptureMayFail, \* may CaptureManagedPatchedBytes fail?
  MaxRetained,    \* bound: gate pins kept for process life
  MaxUnreturned   \* bound: frames whose return is not seen

HostOutcomes == {"ok", "never", "after", "recovery"}

ASSUME LifecycleAssumption ==
  /\ IsFiniteSet(CPUs)
  /\ MaxDepth \in Nat \ {0}
  /\ Policy \in {"strict", "localGate"}
  /\ Outcomes \subseteq HostOutcomes
  /\ Policy = "localGate" => Outcomes \subseteq {"ok", "never"}
  /\ BackupMayLack \in BOOLEAN
  /\ CaptureMayFail \in BOOLEAN
  /\ MaxRetained \in Nat
  /\ MaxUnreturned \in Nat

(* The d-th nested invocation of the hooked function on thread c.          *)
Calls == CPUs \X (1 .. MaxDepth)

VARIABLES
  gate,              \* state half of HostPublicationGate::control
  entrants,          \* entrant half of the same word
  backup,            \* gate.backup is non-null
  backend_installed, \* PublishedHostHook::backend_installed and its HookRecord copy
  state,             \* HookRecord::state, "None" while there is no record
  in_flight,         \* HookRecord::in_flight
  returns,           \* payload_return_consumer: RET interception is installed
  pc,                \* progress of the holder of State().mutex, "free" if none
  at,                \* where each call is
  retained,          \* gate pins that will never be released
  unreturned,        \* in_flight counts that will never be released
  patched,           \* host: target branches to the gate
  trampoline         \* host: "none", "live" or "freed"

gateVars   == <<gate, entrants, backup>>
recordVars == <<backend_installed, state, returns>>
hostVars   == <<patched, trampoline>>
vars == <<gate, entrants, backup, backend_installed, state, in_flight, returns,
          pc, at, retained, unreturned, patched, trampoline>>

GateStates == {"INSTALLING", "ARMED", "DRAINING", "BYPASS_TARGET",
               "BYPASS_BACKUP", "FAILED", "CLOSED"}

RecordStates == {"None", "Installing", "Installed", "Unhooking", "Unhooked",
                 "Failed", "FailedAfterPublished", "Retired"}

MutexSteps == {"free", "host", "capture", "arm", "rollback", "rollbackDone",
               "drain", "check", "close", "recheck", "unhook", "unhookFailed",
               "bypass", "restore"}

(* idle        not in the hooked function                                  *)
(* gate        in the gate stub                                            *)
(* pinned      crossed the gate with an entrant pin, before BeginInvocation*)
(* begun       counted in in_flight, pin still held                        *)
(* original    counted in in_flight, callbacks and original body           *)
(* exiting     last one out while Unhooking, waits for State().mutex       *)
(* finishing   the same call, holding State().mutex                        *)
(* retained    executes the trampoline uncounted, its pin kept for ever    *)
(* bypass      sent to the trampoline by BYPASS_BACKUP, no pin             *)
(* skipped     returned to its caller without executing the original       *)
(* stale       executes the trampoline with neither pin nor count          *)
(* trapped     brk in the gate stub                                        *)
Places == {"idle", "gate", "pinned", "begun", "original", "exiting",
           "finishing", "retained", "bypass", "skipped", "stale", "trapped"}

Bodies == {"original", "retained", "bypass", "stale"}

-----------------------------------------------------------------------------
(* Call structure                                                          *)

(* A call starts when the thread is outside the function or inside the     *)
(* body of its enclosing invocation.                                       *)
CanStart(k) == k[2] # 1 => at[<<k[1], k[2] - 1>>] \in Bodies

(* A call goes on only while no nested call is running on its thread.      *)
OnTop(k) == k[2] # MaxDepth => at[<<k[1], k[2] + 1>>] = "idle"

Move(k, place) == at' = [at EXCEPT ![k] = place]

(* The holder leaves State().mutex; a finishing call returns to its caller.*)
Release ==
  /\ pc' = "free"
  /\ at' = [k \in Calls |-> IF at[k] = "finishing" THEN "idle" ELSE at[k]]

(* The host gives the trampoline back, if it built one.                    *)
Freed == IF trampoline = "live" THEN "freed" ELSE trampoline

(* The holder goes on to its next step.                                    *)
Goto(next) == pc' = next /\ UNCHANGED at

-----------------------------------------------------------------------------
Init ==
  /\ gate = "INSTALLING"
  /\ entrants = 0
  /\ backup = FALSE
  /\ backend_installed = FALSE
  /\ state = "None"
  /\ in_flight = 0
  /\ returns = FALSE
  /\ pc = "free"
  /\ at = [k \in Calls |-> "idle"]
  /\ retained = 0
  /\ unreturned = 0
  /\ patched = FALSE
  /\ trampoline = "none"

-----------------------------------------------------------------------------
(* InstallCallbackHook                                                     *)

(* Creates the record, installs RET interception and prepares the gate,    *)
(* all before the host is called.                                          *)
InstallBegin ==
  /\ pc = "free"
  /\ state = "None"
  /\ state' = "Installing"
  /\ returns' = TRUE
  /\ gate' = "INSTALLING"
  /\ backup' = FALSE
  /\ Goto("host")
  /\ UNCHANGED <<entrants, backend_installed, in_flight, retained, unreturned, hostVars>>

(* The host builds the trampoline; a strict host announces it through      *)
(* backup_ready before it writes the entry.                                *)
HostPrepares ==
  /\ pc = "host"
  /\ trampoline = "none"
  /\ ~patched
  /\ trampoline' = "live"
  /\ backup' = (Policy = "strict")
  /\ UNCHANGED <<gate, entrants, recordVars, in_flight, pc, at, retained, unreturned, patched>>

(* The entry now branches to the gate although hook() has not returned.    *)
HostPublishes ==
  /\ pc = "host"
  /\ ~patched
  /\ trampoline = "live" \/ BackupMayLack
  /\ patched' = TRUE
  /\ UNCHANGED <<gateVars, recordVars, in_flight, pc, at, retained, unreturned, trampoline>>

(* Success with a trampoline.  A local-gate host hands the backup over     *)
(* only now.                                                               *)
HostHooked ==
  /\ pc = "host"
  /\ "ok" \in Outcomes
  /\ patched
  /\ trampoline = "live"
  /\ backup' = TRUE
  /\ backend_installed' = TRUE
  /\ Goto("capture")
  /\ UNCHANGED <<gate, entrants, state, in_flight, returns, retained, unreturned, hostVars>>

(* A failed installation whose gate was reachable keeps the record.  Its   *)
(* RET interception is removed, unless foreign bytes are found there.      *)
KeepFailedInstall ==
  /\ state' = "FailedAfterPublished"
  /\ returns' \in BOOLEAN
  /\ Release

(* Success without a trampoline: the gate stays INSTALLING.                *)
HostHookedWithoutBackup ==
  /\ pc = "host"
  /\ "ok" \in Outcomes
  /\ patched
  /\ trampoline = "none"
  /\ backend_installed' = TRUE
  /\ KeepFailedInstall
  /\ UNCHANGED <<gateVars, in_flight, retained, unreturned, hostVars>>

(* FAILED_NEVER_PUBLISHED: gate, stub and record are destroyed, unless RET *)
(* interception cannot be removed and still needs the record.              *)
HostNeverPublished ==
  /\ pc = "host"
  /\ "never" \in Outcomes
  /\ ~patched
  /\ gate' = "FAILED"
  /\ returns' \in BOOLEAN
  /\ state' = IF returns' THEN "Failed" ELSE "None"
  /\ trampoline' = "none"
  /\ Release
  /\ UNCHANGED <<entrants, backup, backend_installed, in_flight, retained, unreturned, patched>>

(* FAILED_AFTER_PUBLISHED: the host has restored the entry.                *)
HostFailedAfterPublished ==
  /\ pc = "host"
  /\ "after" \in Outcomes
  /\ patched
  /\ patched' = FALSE
  /\ trampoline' = Freed
  /\ gate' = "BYPASS_TARGET"
  /\ KeepFailedInstall
  /\ UNCHANGED <<entrants, backup, backend_installed, in_flight, retained, unreturned>>

(* FAILED_RECOVERY_REQUIRED: the entry may still branch to the gate.       *)
HostRecoveryRequired ==
  /\ pc = "host"
  /\ "recovery" \in Outcomes
  /\ patched
  /\ patched' \in BOOLEAN
  /\ backend_installed' = TRUE
  /\ gate' = IF backup THEN "BYPASS_BACKUP" ELSE gate
  /\ KeepFailedInstall
  /\ UNCHANGED <<entrants, backup, in_flight, retained, unreturned, trampoline>>

(* CaptureManagedPatchedBytes succeeded: the record is published.          *)
CaptureSucceeds ==
  /\ pc = "capture"
  /\ state' = "Installed"
  /\ Goto("arm")
  /\ UNCHANGED <<gateVars, backend_installed, in_flight, returns, retained, unreturned, hostVars>>

Arm ==
  /\ pc = "arm"
  /\ gate' = "ARMED"
  /\ Release
  /\ UNCHANGED <<entrants, backup, recordVars, in_flight, retained, unreturned, hostVars>>

(* It failed: the gate is closed before it was ever armed ...              *)
CaptureFails ==
  /\ pc = "capture"
  /\ CaptureMayFail
  /\ gate' = "CLOSED"
  /\ Goto("rollback")
  /\ UNCHANGED <<entrants, backup, recordVars, in_flight, retained, unreturned, hostVars>>

(* ... the host is asked to restore the entry ...                          *)
RollbackUnhooks ==
  /\ pc = "rollback"
  /\ patched' = FALSE
  /\ trampoline' = Freed
  /\ backend_installed' = FALSE
  /\ gate' = "BYPASS_TARGET"
  /\ Goto("rollbackDone")
  /\ UNCHANGED <<entrants, backup, state, in_flight, returns, retained, unreturned>>

RollbackUnhookFails ==
  /\ pc = "rollback"
  /\ gate' = "DRAINING"
  /\ Goto("rollbackDone")
  /\ UNCHANGED <<entrants, backup, recordVars, in_flight, retained, unreturned, hostVars>>

(* ... and the record is kept as failed, in general without RET            *)
(* interception.                                                           *)
RollbackFinishes ==
  /\ pc = "rollbackDone"
  /\ state' = "Failed"
  /\ returns' \in BOOLEAN
  /\ Release
  /\ UNCHANGED <<gateVars, backend_installed, in_flight, retained, unreturned, hostVars>>

-----------------------------------------------------------------------------
(* UnhookRecordLocked and FinishUnhookLocked                               *)

(* Mutant: RET interception is removed before the hook drains.            *)
UnhookBeginRestoresFirst ==
  /\ pc = "free"
  /\ state \in {"Installed", "Failed", "FailedAfterPublished"}
  /\ state' = "Unhooking"
  /\ returns' = FALSE
  /\ Goto("drain")
  /\ UNCHANGED <<gateVars, backend_installed, in_flight, retained, unreturned, hostVars>>

(* RemoveHook, ResetHooks and the Invalidate and Quiesce sweeps.  A record *)
(* already Unhooking, Unhooked or Retired is left alone.                   *)
UnhookBegin ==
  /\ pc = "free"
  /\ state \in {"Installed", "Failed", "FailedAfterPublished"}
  /\ state' = "Unhooking"
  /\ Goto("drain")
  /\ UNCHANGED <<gateVars, backend_installed, in_flight, returns, retained, unreturned, hostVars>>

(* Mutant: the gate stays armed while the hook drains.                    *)
BeginDrainSkipped ==
  /\ pc = "drain"
  /\ Goto("check")
  /\ UNCHANGED <<gateVars, recordVars, in_flight, retained, unreturned, hostVars>>

(* BeginDrainPublishedHostHook moves an armed gate only.                   *)
BeginDrain ==
  /\ pc = "drain"
  /\ gate' = IF backend_installed /\ gate = "ARMED" THEN "DRAINING" ELSE gate
  /\ Goto("check")
  /\ UNCHANGED <<entrants, backup, recordVars, in_flight, retained, unreturned, hostVars>>

(* Calls are in flight: the last of them will finish the unhook.           *)
DeferToInFlight ==
  /\ pc = "check"
  /\ in_flight # 0
  /\ Release
  /\ UNCHANGED <<gateVars, recordVars, in_flight, retained, unreturned, hostVars>>

InFlightIdle ==
  /\ pc = "check"
  /\ in_flight = 0
  /\ Goto(IF backend_installed THEN "close" ELSE "restore")
  /\ UNCHANGED <<gateVars, recordVars, in_flight, retained, unreturned, hostVars>>

(* Mutant: the close looks at the state half of the word only.            *)
ClosableDespitePins == gate \in {"DRAINING", "INSTALLING", "BYPASS_BACKUP"}

(* ClosePublishedHostHook: state and entrant count are one word.           *)
Closable == gate \in {"DRAINING", "INSTALLING", "BYPASS_BACKUP"} /\ entrants = 0

CloseGate ==
  /\ pc = "close"
  /\ Closable
  /\ gate' = "CLOSED"
  /\ Goto("recheck")
  /\ UNCHANGED <<entrants, backup, recordVars, in_flight, retained, unreturned, hostVars>>

DeferToEntrants ==
  /\ pc = "close"
  /\ ~Closable
  /\ Release
  /\ UNCHANGED <<gateVars, recordVars, in_flight, retained, unreturned, hostVars>>

(* A pin may have become an in_flight count between the two checks.        *)
Reopen ==
  /\ pc = "recheck"
  /\ in_flight # 0
  /\ gate' = "DRAINING"
  /\ Release
  /\ UNCHANGED <<entrants, backup, recordVars, in_flight, retained, unreturned, hostVars>>

(* Mutant: in_flight is not looked at again after the close.              *)
StayClosedUnchecked ==
  /\ pc = "recheck"
  /\ Goto("unhook")
  /\ UNCHANGED <<gateVars, recordVars, in_flight, retained, unreturned, hostVars>>

StayClosed ==
  /\ pc = "recheck"
  /\ in_flight = 0
  /\ Goto("unhook")
  /\ UNCHANGED <<gateVars, recordVars, in_flight, retained, unreturned, hostVars>>

(* UninstallPublishedHostHook: the host restores the entry and reclaims    *)
(* the trampoline ...                                                      *)
HostUnhooks ==
  /\ pc = "unhook"
  /\ patched' = FALSE
  /\ trampoline' = Freed
  /\ Goto("bypass")
  /\ UNCHANGED <<gateVars, recordVars, in_flight, retained, unreturned>>

(* Mutant: a failed host unhook leaves the gate closed.                   *)
HostUnhookFailsClosed ==
  /\ pc = "unhook"
  /\ Goto("unhookFailed")
  /\ UNCHANGED <<gateVars, recordVars, in_flight, retained, unreturned, hostVars>>

(* ... or fails, and the gate is opened to the dispatcher again.           *)
HostUnhookFails ==
  /\ pc = "unhook"
  /\ gate' = "DRAINING"
  /\ Goto("unhookFailed")
  /\ UNCHANGED <<entrants, backup, recordVars, in_flight, retained, unreturned, hostVars>>

UnhookFailed ==
  /\ pc = "unhookFailed"
  /\ state' = "Failed"
  /\ Release
  /\ UNCHANGED <<gateVars, backend_installed, in_flight, returns, retained, unreturned, hostVars>>

(* Mutant: the gate is disposed of as on a failed installation.           *)
BypassTargetAsFailed ==
  /\ pc = "bypass"
  /\ gate' = "FAILED"
  /\ backend_installed' = FALSE
  /\ Goto("restore")
  /\ UNCHANGED <<entrants, backup, state, in_flight, returns, retained, unreturned, hostVars>>

BypassTarget ==
  /\ pc = "bypass"
  /\ gate' = "BYPASS_TARGET"
  /\ backend_installed' = FALSE
  /\ Goto("restore")
  /\ UNCHANGED <<entrants, backup, state, in_flight, returns, retained, unreturned, hostVars>>

(* RestoreArm64ReturnInterception may find foreign bytes and refuse.       *)
RestoreReturns ==
  /\ pc = "restore"
  /\ returns' = FALSE
  /\ state' = "Unhooked"
  /\ Release
  /\ UNCHANGED <<gateVars, backend_installed, in_flight, retained, unreturned, hostVars>>

(* Mutant: the refusal to restore is ignored.                             *)
RestoreReturnsIgnored ==
  /\ pc = "restore"
  /\ returns
  /\ state' = "Unhooked"
  /\ Release
  /\ UNCHANGED <<gateVars, backend_installed, in_flight, returns, retained, unreturned, hostVars>>

RestoreReturnsFails ==
  /\ pc = "restore"
  /\ returns
  /\ state' = "Failed"
  /\ Release
  /\ UNCHANGED <<gateVars, backend_installed, in_flight, returns, retained, unreturned, hostVars>>

(* RetireRuntimeHooks: the target mapping is gone, nothing is restored.    *)
Retire ==
  /\ pc = "free"
  /\ state \notin {"None", "Unhooked", "Retired"}
  /\ state' = "Retired"
  /\ UNCHANGED <<gateVars, backend_installed, in_flight, returns, pc, at, retained,
                 unreturned, hostVars>>

-----------------------------------------------------------------------------
(* The gate stub and the dispatcher                                        *)

(* A Dart call reaches the hooked entry while it branches to the gate.     *)
Call(k) ==
  /\ at[k] = "idle"
  /\ CanStart(k)
  /\ patched
  /\ Move(k, "gate")
  /\ UNCHANGED <<gateVars, recordVars, in_flight, pc, retained, unreturned, hostVars>>

(* ARMED and DRAINING: the pin and the state test are one exclusive store. *)
GatePin(k) ==
  /\ at[k] = "gate"
  /\ gate \in {"ARMED", "DRAINING"}
  /\ entrants' = entrants + 1
  /\ Move(k, "pinned")
  /\ UNCHANGED <<gate, backup, recordVars, in_flight, pc, retained, unreturned, hostVars>>

(* The routes without a pin; INSTALLING and CLOSED spin.                   *)
Route == [BYPASS_TARGET |-> "idle", BYPASS_BACKUP |-> "bypass", FAILED |-> "trapped"]

GateRoute(k) ==
  /\ at[k] = "gate"
  /\ gate \in DOMAIN Route
  /\ Move(k, Route[gate])
  /\ UNCHANGED <<gateVars, recordVars, in_flight, pc, retained, unreturned, hostVars>>

(* The record states for which BeginInvocation counts the call.            *)
Admits ==
  \/ state \in {"Installed", "Unhooking", "FailedAfterPublished"}
  \/ state = "Failed" /\ backend_installed

BeginInvocation(k) ==
  /\ at[k] = "pinned"
  /\ Admits
  /\ in_flight' = in_flight + 1
  /\ Move(k, "begun")
  /\ UNCHANGED <<gateVars, recordVars, pc, retained, unreturned, hostVars>>

(* What a call executes when its dispatch returns gate.backup: a null      *)
(* original takes the skip path of the callback stub.                      *)
Original(place) == IF backup THEN place ELSE "skipped"

(* BeginInvocation refused the call.  With the backend in place the pin is *)
(* kept for ever, otherwise it is released.                                *)
BeginRefused(k) ==
  /\ at[k] = "pinned"
  /\ ~Admits
  /\ IF backend_installed
     THEN /\ retained < MaxRetained
          /\ retained' = retained + 1
          /\ Move(k, Original("retained"))
          /\ UNCHANGED entrants
     ELSE /\ entrants' = entrants - 1
          /\ Move(k, Original("stale"))
          /\ UNCHANGED retained
  /\ UNCHANGED <<gate, backup, recordVars, in_flight, pc, unreturned, hostVars>>

(* No thread-local stack, or 64 frames already: the call goes on uncounted *)
(* and its pin is kept.                                                    *)
DispatchUnavailable(k) ==
  /\ at[k] = "pinned"
  /\ retained < MaxRetained
  /\ retained' = retained + 1
  /\ Move(k, Original("retained"))
  /\ UNCHANGED <<gateVars, recordVars, in_flight, pc, unreturned, hostVars>>

(* Mutant: the error path forgets to give the count back.                 *)
BridgeFailsCounted(k) ==
  /\ at[k] = "begun"
  /\ retained < MaxRetained
  /\ retained' = retained + 1
  /\ Move(k, Original("retained"))
  /\ UNCHANGED <<gateVars, recordVars, in_flight, pc, unreturned, hostVars>>

(* The VM bridge or the exception bridge could not be set up: the count is *)
(* given back and the pin kept.  The unhook this may trigger defers to     *)
(* that very pin, so it changes nothing.                                   *)
BridgeFails(k) ==
  /\ at[k] = "begun"
  /\ retained < MaxRetained
  /\ in_flight' = in_flight - 1
  /\ retained' = retained + 1
  /\ Move(k, Original("retained"))
  /\ UNCHANGED <<gateVars, recordVars, pc, unreturned, hostVars>>

(* Mutant: the pin is released by the callee and by the caller.           *)
EnterOriginalReleasesTwice(k) ==
  /\ at[k] = "begun"
  /\ backup
  /\ entrants' = entrants - 2
  /\ Move(k, "original")
  /\ UNCHANGED <<gate, backup, recordVars, in_flight, pc, retained, unreturned, hostVars>>

(* The bridge is in place: the pin is released, callbacks run, and the     *)
(* original body follows.                                                  *)
EnterOriginal(k) ==
  /\ at[k] = "begun"
  /\ backup
  /\ entrants' = entrants - 1
  /\ Move(k, "original")
  /\ UNCHANGED <<gate, backup, recordVars, in_flight, pc, retained, unreturned, hostVars>>

(* The same with a null original: the stub returns to the caller and the   *)
(* frame stays on the thread's dispatch stack.                             *)
SkipMissingOriginal(k) ==
  /\ at[k] = "begun"
  /\ ~backup
  /\ unreturned < MaxUnreturned
  /\ entrants' = entrants - 1
  /\ unreturned' = unreturned + 1
  /\ Move(k, "skipped")
  /\ UNCHANGED <<gate, backup, recordVars, in_flight, pc, retained, hostVars>>

(* Mutant: the last exit is judged by the count before the decrement.     *)
InvocationExitedOffByOne(k) ==
  /\ at[k] = "original"
  /\ OnTop(k)
  /\ in_flight' = in_flight - 1
  /\ Move(k, IF in_flight = 0 /\ state = "Unhooking" THEN "exiting" ELSE "idle")
  /\ UNCHANGED <<gateVars, recordVars, pc, retained, unreturned, hostVars>>

(* InvocationExited, from an intercepted RET, from skip_original, or from  *)
(* an exception that unwinds the frame.                                    *)
InvocationExited(k) ==
  /\ at[k] = "original"
  /\ OnTop(k)
  /\ in_flight' = in_flight - 1
  /\ Move(k, IF in_flight = 1 /\ state = "Unhooking" THEN "exiting" ELSE "idle")
  /\ UNCHANGED <<gateVars, recordVars, pc, retained, unreturned, hostVars>>

(* The body returns through a RET that is no longer intercepted.           *)
ReturnUnseen(k) ==
  /\ at[k] = "original"
  /\ OnTop(k)
  /\ ~returns
  /\ unreturned < MaxUnreturned
  /\ unreturned' = unreturned + 1
  /\ Move(k, "idle")
  /\ UNCHANGED <<gateVars, recordVars, in_flight, pc, retained, hostVars>>

(* A call that is not counted returns to its caller.                       *)
ReturnUncounted(k) ==
  /\ at[k] \in {"retained", "bypass", "skipped", "stale"}
  /\ OnTop(k)
  /\ Move(k, "idle")
  /\ UNCHANGED <<gateVars, recordVars, in_flight, pc, retained, unreturned, hostVars>>

(* The last call out takes State().mutex and finishes the unhook if nobody *)
(* has done so meanwhile.                                                  *)
FinishUnhook(k) ==
  /\ at[k] = "exiting"
  /\ pc = "free"
  /\ IF state = "Unhooking"
     THEN pc' = "drain" /\ Move(k, "finishing")
     ELSE UNCHANGED pc /\ Move(k, "idle")
  /\ UNCHANGED <<gateVars, recordVars, in_flight, retained, unreturned, hostVars>>

-----------------------------------------------------------------------------
Install ==
  \/ InstallBegin \/ HostPrepares \/ HostPublishes \/ HostHooked
  \/ HostHookedWithoutBackup \/ HostNeverPublished \/ HostFailedAfterPublished
  \/ HostRecoveryRequired \/ CaptureSucceeds \/ Arm \/ CaptureFails
  \/ RollbackUnhooks \/ RollbackUnhookFails \/ RollbackFinishes

(* The steps of FinishUnhookLocked, whoever holds State().mutex.           *)
Finish ==
  \/ BeginDrain \/ DeferToInFlight \/ InFlightIdle \/ CloseGate
  \/ DeferToEntrants \/ Reopen \/ StayClosed \/ HostUnhooks \/ HostUnhookFails
  \/ UnhookFailed \/ BypassTarget \/ RestoreReturns \/ RestoreReturnsFails

(* The steps a running call takes by itself.                               *)
Advance(k) ==
  \/ GatePin(k) \/ GateRoute(k) \/ BeginInvocation(k) \/ BeginRefused(k)
  \/ EnterOriginal(k) \/ SkipMissingOriginal(k) \/ InvocationExited(k)
  \/ ReturnUncounted(k) \/ FinishUnhook(k)

Next ==
  \/ Install
  \/ UnhookBegin
  \/ Finish
  \/ Retire
  \/ \E k \in Calls :
        \/ Call(k)
        \/ Advance(k)
        \/ DispatchUnavailable(k)
        \/ BridgeFails(k)
        \/ ReturnUnseen(k)

Spec == Init /\ [][Next]_vars

(* The holder of State().mutex runs on, every running call runs on, and a  *)
(* call waiting for the mutex gets it when it stays free.  Nothing obliges *)
(* anybody to call the function, to install, to unhook or to retire.       *)
Fairness ==
  /\ WF_vars(Install /\ pc # "free")
  /\ WF_vars(Finish)
  /\ \A k \in Calls : WF_vars(Advance(k))

FairSpec == Spec /\ Fairness

-----------------------------------------------------------------------------
(* Properties                                                              *)

TypeOK ==
  /\ gate \in GateStates
  /\ entrants \in Nat
  /\ backup \in BOOLEAN
  /\ backend_installed \in BOOLEAN
  /\ state \in RecordStates
  /\ in_flight \in Nat
  /\ returns \in BOOLEAN
  /\ pc \in MutexSteps
  /\ at \in [Calls -> Places]
  /\ retained \in Nat
  /\ unreturned \in Nat
  /\ patched \in BOOLEAN
  /\ trampoline \in {"none", "live", "freed"}

(* The calls that hold a gate pin, and those that in_flight counts.        *)
Pinned  == {k \in Calls : at[k] \in {"pinned", "begun"}}
Counted == {k \in Calls : at[k] \in {"begun", "original"}}

(* No pin and no in_flight count is lost or taken twice: both counters     *)
(* agree with the calls behind them, over every error path of the          *)
(* dispatcher (ReleasePublishedHostHookEntrant, BeginInvocation,           *)
(* InvocationExited).                                                      *)
CountersExact ==
  /\ entrants = Cardinality(Pinned) + retained
  /\ in_flight = Cardinality(Counted) + unreturned

(* While a call holds a pin or a count the backend stays in place, and the *)
(* trampoline it executes has not been reclaimed: the close of the gate    *)
(* and the second look at in_flight leave no window (FinishUnhookLocked).  *)
TrackedOriginalSafe ==
  \A k \in Calls :
    /\ at[k] \in {"pinned", "begun", "original", "retained"} => backend_installed
    /\ at[k] \in {"original", "retained"} => trampoline = "live"

(* No call that crossed the gate is sent to a trampoline of a removed      *)
(* backend, and none traps in a gate whose entry is reachable (the refusal *)
(* path of dispatch_enter, kFailed).                                       *)
NoStrayCall == \A k \in Calls : at[k] \notin {"stale", "trapped"}

(* A thread that calls the hooked function again from inside its body does *)
(* not spin at a gate that waits for that very body: when it finds CLOSED, *)
(* the holder of State().mutex has yet to look at in_flight and reopens.   *)
NoSelfDeadlock ==
  \A c \in CPUs, d \in 2 .. MaxDepth :
    at[<<c, d>>] = "gate" /\ at[<<c, d - 1>>] \in {"original", "retained"}
      => /\ gate \notin {"INSTALLING", "FAILED"}
         /\ gate = "CLOSED" => pc = "recheck"

(* An unhook that was put off has somebody left to finish it: a call whose *)
(* exit will find in_flight at zero (UnhookRecordLocked, InvocationExited).*)
(* Pins and counts given up for ever are the exceptions the code accepts.  *)
FinishNeverLost ==
  state = "Unhooking" /\ pc = "free" /\ retained = 0 /\ unreturned = 0
    => \E k \in Calls : at[k] \in {"pinned", "begun", "original", "exiting"}

(* A record is Unhooked only when nothing of the hook is left: no patch,   *)
(* no RET interception, no tracked call, and a gate no call can cross.     *)
(* ReleaseHook frees it on this ground (CanDestroyLocked).                 *)
UnhookedIsQuiet ==
  state = "Unhooked"
    => /\ ~patched /\ ~returns /\ ~backend_installed
       /\ gate \in {"BYPASS_TARGET", "FAILED"}
       /\ \A k \in Calls : at[k] \notin {"pinned", "begun", "original", "retained"}

(* The record, the gate and the counts of the hook agree with its calls.   *)
RecordAgrees == TypeOK /\ CountersExact /\ UnhookedIsQuiet

(* The gate sends calls back to the target entry only when that entry no   *)
(* longer branches to the gate; otherwise they would loop.                 *)
EntryNeverLoops == gate = "BYPASS_TARGET" => ~patched

(* RET interception outlives every counted call, so the return of the body *)
(* is seen.  Installations that fail after publication give this up.       *)
ReturnsIntercepted == \A k \in Calls : at[k] \in {"begun", "original"} => returns

(* The hook keeps the trampoline's promise towards the calls it tracks.    *)
Lifetime == INSTANCE TrampolineLifetime
  WITH users <- {k \in Calls : at[k] \in {"original", "retained"}}

ImplementsLifetime == Lifetime!Spec

(* When calls stop arriving, an unhook ends: done, failed or retired,      *)
(* unless a pin was given up.                                              *)
UnhookEnds ==
  <>[](\A k \in Calls : at[k] # "gate")
    => (state = "Unhooking" ~> state # "Unhooking" \/ retained > 0)

(* When nobody installs or unhooks any more, no thread is left spinning in *)
(* the gate: it is never abandoned INSTALLING or CLOSED.                   *)
GateLetsGo ==
  <>[](pc = "free") => \A k \in Calls : at[k] = "gate" ~> at[k] # "gate"

(* README: "No stale gate fetch can therefore use a backend trampoline     *)
(* after physical unhook", for every call the gate sent there.             *)
NoFetchAfterUnhook == \A k \in Calls : at[k] \in Bodies => trampoline = "live"
=============================================================================
