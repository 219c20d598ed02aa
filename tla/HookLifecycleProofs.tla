------------------------ MODULE HookLifecycleProofs ------------------------
(***************************************************************************)
(* LifecycleInv is inductive for every number of threads, every nesting    *)
(* depth, both publication policies and every outcome of the host's hook   *)
(* call; the safety properties of HookLifecycle follow.                    *)
(***************************************************************************)
EXTENDS HookLifecycleInvariant, FiniteSetTheorems, TLAPS

(* The calls that can run at once are finitely many, so the counters of    *)
(* the gate and of the record can be compared with sets of calls.          *)
LEMMA CallsFinite ==
  /\ IsFiniteSet(Calls)
  /\ \A S \in SUBSET Calls : IsFiniteSet(S) /\ Cardinality(S) \in Nat
<1>1. IsFiniteSet(1 .. MaxDepth)
  BY LifecycleAssumption, FS_Interval
<1>2. IsFiniteSet(Calls)
  BY <1>1, LifecycleAssumption, FS_Product DEF Calls
<1>. QED
  BY <1>2, FS_Subset, FS_CardinalityType

(* A call that moves into a counted set raises its size by one, one that   *)
(* moves out lowers it by one (pins: entrants; counts: in_flight).         *)
LEMMA CallCounts ==
  ASSUME NEW S \in SUBSET Calls, NEW k \in Calls
  PROVE  /\ k \notin S => Cardinality(S \cup {k}) = Cardinality(S) + 1
         /\ k \in S => Cardinality(S \ {k}) = Cardinality(S) - 1 /\ Cardinality(S) > 0
<1>1. IsFiniteSet(S) /\ Cardinality(S) \in Nat
  BY CallsFinite
<1>2. k \in S => Cardinality(S) # 0
  BY <1>1, FS_EmptySet
<1>3. k \notin S => Cardinality(S \cup {k}) = Cardinality(S) + 1
  BY <1>1, FS_AddElement
<1>4. k \in S => Cardinality(S \ {k}) = Cardinality(S) - 1
  BY <1>1, FS_RemoveElement
<1>. QED
  BY <1>1, <1>2, <1>3, <1>4

(* A call that holds a pin or is counted makes the counter positive; a     *)
(* positive counter has a call, or a pin or count given up, behind it.     *)
LEMMA CountsWitness ==
  ASSUME TypeOK, CountersExact
  PROVE  /\ \A k \in Calls : at[k] \in {"pinned", "begun"} => entrants > 0
         /\ \A k \in Calls : at[k] \in {"begun", "original"} => in_flight > 0
         /\ retained <= entrants
         /\ entrants # 0 /\ retained = 0 =>
              \E k \in Calls : at[k] \in {"pinned", "begun"}
         /\ in_flight # 0 /\ unreturned = 0 =>
              \E k \in Calls : at[k] \in {"begun", "original"}
<1>1. Pinned \in SUBSET Calls /\ Counted \in SUBSET Calls
  BY DEF Pinned, Counted
<1>2. /\ IsFiniteSet(Pinned) /\ Cardinality(Pinned) \in Nat
      /\ IsFiniteSet(Counted) /\ Cardinality(Counted) \in Nat
  BY <1>1, CallsFinite
<1>3. (Cardinality(Pinned) = 0 <=> Pinned = {}) /\ (Cardinality(Counted) = 0 <=> Counted = {})
  BY <1>2, FS_EmptySet
<1>4. entrants = Cardinality(Pinned) + retained /\ in_flight = Cardinality(Counted) + unreturned
  BY DEF CountersExact
<1>5. (\E k \in Calls : at[k] \in {"pinned", "begun"}) <=> Pinned # {}
  BY DEF Pinned
<1>6. (\E k \in Calls : at[k] \in {"begun", "original"}) <=> Counted # {}
  BY DEF Counted
<1>7. entrants \in Nat /\ retained \in Nat /\ in_flight \in Nat /\ unreturned \in Nat
  BY DEF TypeOK
<1>8. /\ Pinned # {} => entrants > 0
      /\ Counted # {} => in_flight > 0
      /\ retained <= entrants
      /\ entrants # 0 /\ retained = 0 => Pinned # {}
      /\ in_flight # 0 /\ unreturned = 0 => Counted # {}
  BY <1>2, <1>3, <1>4, <1>7
<1>. QED
  BY <1>5, <1>6, <1>8

(* The same for the state after a step.                                    *)
LEMMA CountedWitness ==
  Cardinality(Counted') # 0 => \E j \in Calls : at'[j] \in {"begun", "original"}
<1>1. Counted' = {} => Cardinality(Counted') = 0
  BY FS_EmptySet
<1>2. Counted' # {} => \E j \in Calls : at'[j] \in {"begun", "original"}
  BY DEF Counted
<1>. QED
  BY <1>1, <1>2

(* What a step of the holder of State().mutex may do to the calls: nothing *)
(* but let a finishing call return to its caller.                          *)
HolderMoves ==
  /\ \/ UNCHANGED at
     \/ at' = [k \in Calls |-> IF at[k] = "finishing" THEN "idle" ELSE at[k]]
  /\ UNCHANGED <<entrants, in_flight, retained, unreturned>>

LEMMA HolderKeepsCalls ==
  ASSUME TypeOK, CountersExact, HolderMoves
  PROVE  /\ at' \in [Calls -> Places]
         /\ CountersExact'
         /\ \A k \in Calls : at'[k] # at[k] => at[k] = "finishing" /\ at'[k] = "idle"
<1>1. at' \in [Calls -> Places]
  BY DEF TypeOK, HolderMoves, Places
<1>2. \A k \in Calls : at'[k] # at[k] => at[k] = "finishing" /\ at'[k] = "idle"
  BY DEF TypeOK, HolderMoves
<1>3. Pinned' = Pinned /\ Counted' = Counted
  BY <1>2 DEF Pinned, Counted
<1>. QED
  BY <1>1, <1>2, <1>3 DEF CountersExact, HolderMoves

(* Every step of InstallCallbackHook keeps the invariant.                  *)
LEMMA InstallKeeps ==
  ASSUME LifecycleInv, Install
  PROVE  LifecycleInv'
<1>1. HolderMoves
  BY DEF LifecycleInv, TypeOK, HolderMoves, InstallBegin, HostPrepares, HostPublishes, HostHooked, HostHookedWithoutBackup, HostNeverPublished, HostFailedAfterPublished, HostRecoveryRequired, CaptureSucceeds, Arm, CaptureFails, RollbackUnhooks, RollbackUnhookFails, RollbackFinishes,
     Install, Finish, KeepFailedInstall, Release, Goto, gateVars, recordVars
<1>2. /\ at' \in [Calls -> Places] /\ CountersExact'
      /\ \A k \in Calls : at'[k] # at[k] => at[k] = "finishing" /\ at'[k] = "idle"
  BY <1>1, HolderKeepsCalls DEF LifecycleInv
<1>3. /\ \A k \in Calls : at[k] \in {"pinned", "begun"} => entrants > 0
      /\ \A k \in Calls : at[k] \in {"begun", "original"} => in_flight > 0
      /\ retained <= entrants
      /\ entrants # 0 /\ retained = 0 => \E k \in Calls : at[k] \in {"pinned", "begun"}
      /\ in_flight # 0 /\ unreturned = 0 => \E k \in Calls : at[k] \in {"begun", "original"}
  BY CountsWitness DEF LifecycleInv
<1>. USE <1>1, <1>2, <1>3 DEF HolderMoves, LifecycleInv, TypeOK, StepInv, BackendInv, QuietInv,
     TrackedOriginalSafe, NoStrayCall, EntryNeverLoops, UnhookedIsQuiet, FinishNeverLost,
     InstallSteps, UnhookSteps, ClosedSteps, SettledSteps, GateStates, RecordStates, MutexSteps,
     KeepFailedInstall, Release, Goto, Freed, Closable, gateVars, recordVars, hostVars
<1>4. CASE InstallBegin
  BY <1>4 DEF InstallBegin
<1>5. CASE HostPrepares
  BY <1>5 DEF HostPrepares
<1>6. CASE HostPublishes
  BY <1>6 DEF HostPublishes
<1>7. CASE HostHooked
  BY <1>7 DEF HostHooked
<1>8. CASE HostHookedWithoutBackup
  BY <1>8 DEF HostHookedWithoutBackup
<1>9. CASE HostNeverPublished
  BY <1>9 DEF HostNeverPublished
<1>10. CASE HostFailedAfterPublished
  BY <1>10 DEF HostFailedAfterPublished
<1>11. CASE HostRecoveryRequired
  BY <1>11 DEF HostRecoveryRequired
<1>12. CASE CaptureSucceeds
  BY <1>12 DEF CaptureSucceeds
<1>13. CASE Arm
  BY <1>13 DEF Arm
<1>14. CASE CaptureFails
  BY <1>14 DEF CaptureFails
<1>15. CASE RollbackUnhooks
  <2>1. entrants = 0 /\ in_flight = 0
    BY <1>15 DEF RollbackUnhooks
  <2>2. \A k \in Calls : at[k] \notin {"pinned", "begun", "original", "retained"}
    BY <2>1
  <2>3. \A k \in Calls : at'[k] \notin {"pinned", "begun", "original", "retained"}
    BY <2>2
  <2>. QED
    BY <1>15, <2>3 DEF RollbackUnhooks
<1>16. CASE RollbackUnhookFails
  BY <1>16 DEF RollbackUnhookFails
<1>17. CASE RollbackFinishes
  BY <1>17 DEF RollbackFinishes
<1>. QED
  BY <1>4, <1>5, <1>6, <1>7, <1>8, <1>9, <1>10, <1>11, <1>12, <1>13, <1>14, <1>15, <1>16, <1>17 DEF Install, Finish

(* Every step of UnhookRecordLocked and FinishUnhookLocked keeps it, and   *)
(* so does the retirement of the record.                                   *)
LEMMA FinishKeeps ==
  ASSUME LifecycleInv, Finish \/ UnhookBegin \/ Retire
  PROVE  LifecycleInv'
<1>1. HolderMoves
  BY DEF LifecycleInv, TypeOK, HolderMoves, BeginDrain, DeferToInFlight, InFlightIdle, CloseGate, DeferToEntrants, Reopen, StayClosed, HostUnhooks, HostUnhookFails, UnhookFailed, BypassTarget, RestoreReturns, RestoreReturnsFails, UnhookBegin, Retire,
     Install, Finish, KeepFailedInstall, Release, Goto, gateVars, recordVars
<1>2. /\ at' \in [Calls -> Places] /\ CountersExact'
      /\ \A k \in Calls : at'[k] # at[k] => at[k] = "finishing" /\ at'[k] = "idle"
  BY <1>1, HolderKeepsCalls DEF LifecycleInv
<1>3. /\ \A k \in Calls : at[k] \in {"pinned", "begun"} => entrants > 0
      /\ \A k \in Calls : at[k] \in {"begun", "original"} => in_flight > 0
      /\ retained <= entrants
      /\ entrants # 0 /\ retained = 0 => \E k \in Calls : at[k] \in {"pinned", "begun"}
      /\ in_flight # 0 /\ unreturned = 0 => \E k \in Calls : at[k] \in {"begun", "original"}
  BY CountsWitness DEF LifecycleInv
<1>. USE <1>1, <1>2, <1>3 DEF HolderMoves, LifecycleInv, TypeOK, StepInv, BackendInv, QuietInv,
     TrackedOriginalSafe, NoStrayCall, EntryNeverLoops, UnhookedIsQuiet, FinishNeverLost,
     InstallSteps, UnhookSteps, ClosedSteps, SettledSteps, GateStates, RecordStates, MutexSteps,
     KeepFailedInstall, Release, Goto, Freed, Closable, gateVars, recordVars, hostVars
<1>4. CASE BeginDrain
  BY <1>4 DEF BeginDrain
<1>5. CASE DeferToInFlight
  BY <1>5 DEF DeferToInFlight
<1>6. CASE InFlightIdle
  BY <1>6 DEF InFlightIdle
<1>7. CASE CloseGate
  BY <1>7 DEF CloseGate
<1>8. CASE DeferToEntrants
  BY <1>8 DEF DeferToEntrants
<1>9. CASE Reopen
  BY <1>9 DEF Reopen
<1>10. CASE StayClosed
  BY <1>10 DEF StayClosed
<1>11. CASE HostUnhooks
  <2>1. entrants = 0 /\ in_flight = 0
    BY <1>11 DEF HostUnhooks
  <2>2. \A k \in Calls : at[k] \notin {"pinned", "begun", "original", "retained"}
    BY <2>1
  <2>3. \A k \in Calls : at'[k] \notin {"pinned", "begun", "original", "retained"}
    BY <2>2
  <2>. QED
    BY <1>11, <2>3 DEF HostUnhooks
<1>12. CASE HostUnhookFails
  BY <1>12 DEF HostUnhookFails
<1>13. CASE UnhookFailed
  BY <1>13 DEF UnhookFailed
<1>14. CASE BypassTarget
  <2>1. entrants = 0 /\ in_flight = 0
    BY <1>14 DEF BypassTarget
  <2>2. \A k \in Calls : at[k] \notin {"pinned", "begun", "original", "retained"}
    BY <2>1
  <2>3. \A k \in Calls : at'[k] \notin {"pinned", "begun", "original", "retained"}
    BY <2>2
  <2>. QED
    BY <1>14, <2>3 DEF BypassTarget
<1>15. CASE RestoreReturns
  BY <1>15 DEF RestoreReturns
<1>16. CASE RestoreReturnsFails
  BY <1>16 DEF RestoreReturnsFails
<1>17. CASE UnhookBegin
  BY <1>17 DEF UnhookBegin
<1>18. CASE Retire
  BY <1>18 DEF Retire
<1>. QED
  BY <1>4, <1>5, <1>6, <1>7, <1>8, <1>9, <1>10, <1>11, <1>12, <1>13, <1>14, <1>15, <1>16, <1>17, <1>18 DEF Install, Finish

(* What a call that moves adds to the two counters.                        *)
PinOf(place)   == IF place \in {"pinned", "begun"} THEN 1 ELSE 0
CountOf(place) == IF place \in {"begun", "original"} THEN 1 ELSE 0

(* A call's move changes the number of pinned and of counted calls by what *)
(* its new place holds less what its old place held.                       *)
LEMMA MoveCounts ==
  ASSUME TypeOK, NEW k \in Calls, NEW place \in Places, Move(k, place)
  PROVE  /\ at' \in [Calls -> Places]
         /\ at'[k] = place
         /\ \A j \in Calls : j # k => at'[j] = at[j]
         /\ Cardinality(Pinned') = Cardinality(Pinned) + PinOf(place) - PinOf(at[k])
         /\ Cardinality(Counted') = Cardinality(Counted) + CountOf(place) - CountOf(at[k])
<1>1. /\ at' \in [Calls -> Places]
      /\ at'[k] = place
      /\ \A j \in Calls : j # k => at'[j] = at[j]
  BY DEF TypeOK, Move
<1>2. /\ Pinned \in SUBSET Calls /\ Pinned' \in SUBSET Calls
      /\ Counted \in SUBSET Calls /\ Counted' \in SUBSET Calls
  BY DEF Pinned, Counted
<1>3. Cardinality(Pinned) \in Nat /\ Cardinality(Counted) \in Nat
  BY <1>2, CallsFinite
<1>4. Cardinality(Pinned') = Cardinality(Pinned) + PinOf(place) - PinOf(at[k])
  <2>1. CASE at[k] \in {"pinned", "begun"} <=> place \in {"pinned", "begun"}
    <3>1. Pinned' = Pinned
      BY <1>1, <2>1 DEF Pinned
    <3>. QED
      BY <1>3, <2>1, <3>1 DEF PinOf
  <2>2. CASE at[k] \in {"pinned", "begun"} /\ place \notin {"pinned", "begun"}
    <3>1. k \in Pinned /\ Pinned' = Pinned \ {k}
      BY <1>1, <2>2 DEF Pinned
    <3>2. Cardinality(Pinned') = Cardinality(Pinned) - 1
      BY <1>2, <3>1, CallCounts
    <3>. QED
      BY <1>3, <2>2, <3>2 DEF PinOf
  <2>3. CASE at[k] \notin {"pinned", "begun"} /\ place \in {"pinned", "begun"}
    <3>1. k \notin Pinned /\ Pinned' = Pinned \cup {k}
      BY <1>1, <2>3 DEF Pinned
    <3>2. Cardinality(Pinned') = Cardinality(Pinned) + 1
      BY <1>2, <3>1, CallCounts
    <3>. QED
      BY <1>3, <2>3, <3>2 DEF PinOf
  <2>. QED
    BY <2>1, <2>2, <2>3
<1>5. Cardinality(Counted') = Cardinality(Counted) + CountOf(place) - CountOf(at[k])
  <2>1. CASE at[k] \in {"begun", "original"} <=> place \in {"begun", "original"}
    <3>1. Counted' = Counted
      BY <1>1, <2>1 DEF Counted
    <3>. QED
      BY <1>3, <2>1, <3>1 DEF CountOf
  <2>2. CASE at[k] \in {"begun", "original"} /\ place \notin {"begun", "original"}
    <3>1. k \in Counted /\ Counted' = Counted \ {k}
      BY <1>1, <2>2 DEF Counted
    <3>2. Cardinality(Counted') = Cardinality(Counted) - 1
      BY <1>2, <3>1, CallCounts
    <3>. QED
      BY <1>3, <2>2, <3>2 DEF CountOf
  <2>3. CASE at[k] \notin {"begun", "original"} /\ place \in {"begun", "original"}
    <3>1. k \notin Counted /\ Counted' = Counted \cup {k}
      BY <1>1, <2>3 DEF Counted
    <3>2. Cardinality(Counted') = Cardinality(Counted) + 1
      BY <1>2, <3>1, CallCounts
    <3>. QED
      BY <1>3, <2>3, <3>2 DEF CountOf
  <2>. QED
    BY <2>1, <2>2, <2>3
<1>. QED
  BY <1>1, <1>4, <1>5

(* The steps of one call.                                                  *)
CallStep(k) ==
  Call(k) \/ Advance(k) \/ DispatchUnavailable(k) \/ BridgeFails(k) \/ ReturnUnseen(k)

(* Every step of a call keeps the counters exact.                          *)
LEMMA CallKeepsCounters ==
  ASSUME TypeOK, CountersExact, NEW k \in Calls, CallStep(k)
  PROVE  /\ at' \in [Calls -> Places] /\ CountersExact'
         /\ \A j \in Calls : j # k => at'[j] = at[j]
<1>. DEFINE Pins == Cardinality(Pinned)  Counts == Cardinality(Counted)
<1>1. Pins \in Nat /\ Counts \in Nat
  <2>1. Pinned \in SUBSET Calls /\ Counted \in SUBSET Calls
    BY DEF Pinned, Counted
  <2>. QED
    BY <2>1, CallsFinite
<1>2. entrants = Pins + retained /\ in_flight = Counts + unreturned
  BY DEF CountersExact
<1>3. /\ \A j \in Calls : at[j] \in {"pinned", "begun"} => entrants > 0
      /\ \A j \in Calls : at[j] \in {"begun", "original"} => in_flight > 0
  BY CountsWitness
<1>4. ASSUME NEW place \in Places, Move(k, place),
             entrants' - retained' = entrants - retained + PinOf(place) - PinOf(at[k]),
             in_flight' - unreturned' =
               in_flight - unreturned + CountOf(place) - CountOf(at[k]),
             entrants' \in Int, retained' \in Int, in_flight' \in Int, unreturned' \in Int
      PROVE  /\ at' \in [Calls -> Places] /\ CountersExact'
             /\ \A j \in Calls : j # k => at'[j] = at[j]
  <2>1. /\ at' \in [Calls -> Places]
        /\ \A j \in Calls : j # k => at'[j] = at[j]
        /\ Cardinality(Pinned') = Pins + PinOf(place) - PinOf(at[k])
        /\ Cardinality(Counted') = Counts + CountOf(place) - CountOf(at[k])
    BY <1>4, MoveCounts
  <2>2. PinOf(place) \in Int /\ PinOf(at[k]) \in Int /\ CountOf(place) \in Int
        /\ CountOf(at[k]) \in Int
    BY DEF PinOf, CountOf
  <2>3. entrants \in Int /\ retained \in Int /\ in_flight \in Int /\ unreturned \in Int
    BY DEF TypeOK
  <2>4. /\ entrants' = Cardinality(Pinned') + retained'
        /\ in_flight' = Cardinality(Counted') + unreturned'
    BY <1>1, <1>2, <1>4, <2>1, <2>2, <2>3
  <2>. QED
    BY <2>1, <2>4 DEF CountersExact
<1>. USE <1>1, <1>2 DEF TypeOK, Places, PinOf, CountOf, Original, gateVars, recordVars, hostVars
<1>5. CASE Call(k)
  <2>. DEFINE place == "gate"
  <2>1. place \in Places /\ Move(k, place)
    BY <1>5 DEF Call
  <2>. QED
    BY <1>5, <1>4, <2>1 DEF Call
<1>6. CASE GatePin(k)
  <2>. DEFINE place == "pinned"
  <2>1. place \in Places /\ Move(k, place)
    BY <1>6 DEF GatePin
  <2>. QED
    BY <1>6, <1>4, <2>1 DEF GatePin
<1>7. CASE GateRoute(k)
  <2>. DEFINE place == Route[gate]
  <2>1. place \in Places /\ Move(k, place)
    BY <1>7 DEF GateRoute, Route
  <2>. QED
    BY <1>7, <1>4, <2>1 DEF GateRoute, Route
<1>8. CASE BeginInvocation(k)
  <2>. DEFINE place == "begun"
  <2>1. place \in Places /\ Move(k, place)
    BY <1>8 DEF BeginInvocation
  <2>. QED
    BY <1>8, <1>4, <2>1 DEF BeginInvocation
<1>9. CASE BeginRefused(k)
  <2>. DEFINE place == Original(IF backend_installed THEN "retained" ELSE "stale")
  <2>1. place \in Places /\ Move(k, place)
    BY <1>9 DEF BeginRefused
  <2>. QED
    BY <1>9, <1>4, <2>1 DEF BeginRefused
<1>10. CASE DispatchUnavailable(k)
  <2>. DEFINE place == Original("retained")
  <2>1. place \in Places /\ Move(k, place)
    BY <1>10 DEF DispatchUnavailable
  <2>. QED
    BY <1>10, <1>4, <2>1 DEF DispatchUnavailable
<1>11. CASE BridgeFails(k)
  <2>. DEFINE place == Original("retained")
  <2>1. place \in Places /\ Move(k, place)
    BY <1>11 DEF BridgeFails
  <2>. QED
    BY <1>11, <1>4, <2>1 DEF BridgeFails
<1>12. CASE EnterOriginal(k)
  <2>. DEFINE place == "original"
  <2>1. place \in Places /\ Move(k, place)
    BY <1>12 DEF EnterOriginal
  <2>. QED
    BY <1>12, <1>4, <2>1 DEF EnterOriginal
<1>13. CASE SkipMissingOriginal(k)
  <2>. DEFINE place == "skipped"
  <2>1. place \in Places /\ Move(k, place)
    BY <1>13 DEF SkipMissingOriginal
  <2>. QED
    BY <1>13, <1>4, <2>1 DEF SkipMissingOriginal
<1>14. CASE InvocationExited(k)
  <2>. DEFINE place == IF in_flight = 1 /\ state = "Unhooking" THEN "exiting" ELSE "idle"
  <2>1. place \in Places /\ Move(k, place)
    BY <1>14 DEF InvocationExited
  <2>. QED
    BY <1>14, <1>4, <2>1 DEF InvocationExited
<1>15. CASE ReturnUnseen(k)
  <2>. DEFINE place == "idle"
  <2>1. place \in Places /\ Move(k, place)
    BY <1>15 DEF ReturnUnseen
  <2>. QED
    BY <1>15, <1>4, <2>1 DEF ReturnUnseen
<1>16. CASE ReturnUncounted(k)
  <2>. DEFINE place == "idle"
  <2>1. place \in Places /\ Move(k, place)
    BY <1>16 DEF ReturnUncounted
  <2>. QED
    BY <1>16, <1>4, <2>1 DEF ReturnUncounted
<1>17. CASE FinishUnhook(k)
  <2>. DEFINE place == IF state = "Unhooking" THEN "finishing" ELSE "idle"
  <2>1. place \in Places /\ Move(k, place)
    BY <1>17 DEF FinishUnhook
  <2>. QED
    BY <1>17, <1>4, <2>1 DEF FinishUnhook
<1>. QED
  BY <1>5, <1>6, <1>7, <1>8, <1>9, <1>10, <1>11, <1>12, <1>13, <1>14, <1>15, <1>16, <1>17 DEF CallStep, Advance

(* Every step of a call keeps the invariant: a pin is taken only at an     *)
(* open gate, and it or a count stands between the call and the unhook.    *)
LEMMA CallKeeps ==
  ASSUME LifecycleInv, NEW k \in Calls, CallStep(k)
  PROVE  LifecycleInv'
<1>1. /\ at' \in [Calls -> Places] /\ CountersExact'
      /\ \A j \in Calls : j # k => at'[j] = at[j]
  BY CallKeepsCounters DEF LifecycleInv
<1>2. /\ \A j \in Calls : at[j] \in {"pinned", "begun"} => entrants > 0
      /\ \A j \in Calls : at[j] \in {"begun", "original"} => in_flight > 0
      /\ retained <= entrants
      /\ entrants # 0 /\ retained = 0 => \E j \in Calls : at[j] \in {"pinned", "begun"}
      /\ in_flight # 0 /\ unreturned = 0 => \E j \in Calls : at[j] \in {"begun", "original"}
  BY CountsWitness DEF LifecycleInv
<1>. USE <1>1, <1>2 DEF LifecycleInv, TypeOK, StepInv, BackendInv, QuietInv,
     TrackedOriginalSafe, NoStrayCall, EntryNeverLoops, UnhookedIsQuiet,
     InstallSteps, UnhookSteps, ClosedSteps, SettledSteps, GateStates, RecordStates, MutexSteps,
     Move, Original, gateVars, recordVars, hostVars
<1>3. CASE Call(k)
  <2>1. FinishNeverLost'
    BY <1>3 DEF Call, FinishNeverLost
  <2>. QED
    BY <1>3, <2>1 DEF Call
<1>4. CASE GatePin(k)
  <2>1. FinishNeverLost'
    BY <1>4 DEF GatePin, FinishNeverLost
  <2>. QED
    BY <1>4, <2>1 DEF GatePin
<1>5. CASE GateRoute(k)
  <2>1. FinishNeverLost'
    BY <1>5 DEF GateRoute, Route, FinishNeverLost
  <2>. QED
    BY <1>5, <2>1 DEF GateRoute, Route
<1>6. CASE BeginInvocation(k)
  <2>1. FinishNeverLost'
    BY <1>6 DEF BeginInvocation, Admits, FinishNeverLost
  <2>. QED
    BY <1>6, <2>1 DEF BeginInvocation, Admits
<1>7. CASE BeginRefused(k)
  <2>1. FinishNeverLost'
    BY <1>7 DEF BeginRefused, Admits, FinishNeverLost
  <2>. QED
    BY <1>7, <2>1 DEF BeginRefused, Admits
<1>8. CASE DispatchUnavailable(k)
  <2>1. FinishNeverLost'
    BY <1>8 DEF DispatchUnavailable, FinishNeverLost
  <2>. QED
    BY <1>8, <2>1 DEF DispatchUnavailable
<1>9. CASE BridgeFails(k)
  <2>1. FinishNeverLost'
    BY <1>9 DEF BridgeFails, FinishNeverLost
  <2>. QED
    BY <1>9, <2>1 DEF BridgeFails
<1>10. CASE EnterOriginal(k)
  <2>1. FinishNeverLost'
    BY <1>10 DEF EnterOriginal, FinishNeverLost
  <2>. QED
    BY <1>10, <2>1 DEF EnterOriginal
<1>11. CASE SkipMissingOriginal(k)
  <2>1. FinishNeverLost'
    BY <1>11 DEF SkipMissingOriginal, FinishNeverLost
  <2>. QED
    BY <1>11, <2>1 DEF SkipMissingOriginal
<1>12. CASE InvocationExited(k)
  <2>1. CASE in_flight = 1
    <3>1. FinishNeverLost'
      BY <1>12, <2>1 DEF InvocationExited, FinishNeverLost
    <3>. QED
      BY <1>12, <3>1 DEF InvocationExited
  <2>2. CASE in_flight # 1
    <3>1. in_flight' \in Nat /\ in_flight' # 0
      BY <1>12, <2>2 DEF InvocationExited
    <3>2. ASSUME unreturned' = 0 PROVE \E j \in Calls : at'[j] \in {"begun", "original"}
      BY <3>1, <3>2, CountedWitness DEF CountersExact
    <3>7. FinishNeverLost'
      BY <3>2 DEF FinishNeverLost
    <3>. QED
      BY <1>12, <3>1, <3>7 DEF InvocationExited
  <2>. QED
    BY <2>1, <2>2
<1>13. CASE ReturnUnseen(k)
  <2>1. FinishNeverLost'
    BY <1>13 DEF ReturnUnseen, FinishNeverLost
  <2>. QED
    BY <1>13, <2>1 DEF ReturnUnseen
<1>14. CASE ReturnUncounted(k)
  <2>1. FinishNeverLost'
    BY <1>14 DEF ReturnUncounted, FinishNeverLost
  <2>. QED
    BY <1>14, <2>1 DEF ReturnUncounted
<1>15. CASE FinishUnhook(k)
  <2>1. FinishNeverLost'
    BY <1>15 DEF FinishUnhook, FinishNeverLost
  <2>. QED
    BY <1>15, <2>1 DEF FinishUnhook
<1>. QED
  BY <1>3, <1>4, <1>5, <1>6, <1>7, <1>8, <1>9, <1>10, <1>11, <1>12, <1>13, <1>14, <1>15 DEF CallStep, Advance

(***************************************************************************)
(* The theorems                                                            *)
(***************************************************************************)

(* The invariant holds before the first hook is installed.                 *)
LEMMA InitEstablishes == Init => LifecycleInv
<1>. SUFFICES ASSUME Init PROVE LifecycleInv
  OBVIOUS
<1>1. Pinned = {} /\ Counted = {}
  BY DEF Init, Pinned, Counted
<1>2. CountersExact
  BY <1>1, FS_EmptySet DEF Init, CountersExact
<1>. QED
  BY <1>2 DEF Init, LifecycleInv, TypeOK, StepInv, BackendInv, QuietInv, TrackedOriginalSafe,
     NoStrayCall, EntryNeverLoops, UnhookedIsQuiet, FinishNeverLost, InstallSteps, UnhookSteps,
     ClosedSteps, GateStates, RecordStates, MutexSteps, Places

(* Every step of the system, and stuttering, keeps it.                     *)
LEMMA StepKeeps == LifecycleInv /\ [Next]_vars => LifecycleInv'
<1>. SUFFICES ASSUME LifecycleInv, [Next]_vars PROVE LifecycleInv'
  OBVIOUS
<1>1. CASE Install
  BY <1>1, InstallKeeps
<1>2. CASE Finish \/ UnhookBegin \/ Retire
  BY <1>2, FinishKeeps
<1>3. CASE \E k \in Calls : CallStep(k)
  BY <1>3, CallKeeps
<1>4. CASE UNCHANGED vars
  <2>1. Pinned' = Pinned /\ Counted' = Counted
    BY <1>4 DEF vars, Pinned, Counted
  <2>. QED
    BY <1>4, <2>1 DEF vars, LifecycleInv, TypeOK, CountersExact, StepInv, BackendInv, QuietInv,
       TrackedOriginalSafe, NoStrayCall, EntryNeverLoops, UnhookedIsQuiet, FinishNeverLost
<1>. QED
  BY <1>1, <1>2, <1>3, <1>4 DEF Next, CallStep

(* LifecycleInv is an invariant of the hook, for all parameters.           *)
THEOREM Lifecycle == Spec => []LifecycleInv
  BY InitEstablishes, StepKeeps, PTL DEF Spec

(* Type correctness.                                                       *)
THEOREM TypeCorrect == Spec => []TypeOK
<1>1. LifecycleInv => TypeOK
  BY DEF LifecycleInv
<1>. QED
  BY <1>1, Lifecycle, PTL

(* Gate pins and in_flight counts are exact on every path.                 *)
THEOREM CountersStayExact == Spec => []CountersExact
<1>1. LifecycleInv => CountersExact
  BY DEF LifecycleInv
<1>. QED
  BY <1>1, Lifecycle, PTL

(* The host never reclaims a trampoline under a tracked call.              *)
THEOREM OriginalSafe == Spec => []TrackedOriginalSafe
<1>1. LifecycleInv => TrackedOriginalSafe
  BY DEF LifecycleInv
<1>. QED
  BY <1>1, Lifecycle, PTL

(* No call strays to a removed backend or traps in the gate.               *)
THEOREM NoCallStrays == Spec => []NoStrayCall
<1>1. LifecycleInv => NoStrayCall
  BY DEF LifecycleInv
<1>. QED
  BY <1>1, Lifecycle, PTL

(* A postponed unhook always has a call left that will finish it.          *)
THEOREM UnhookNotForgotten == Spec => []FinishNeverLost
<1>1. LifecycleInv => FinishNeverLost
  BY DEF LifecycleInv
<1>. QED
  BY <1>1, Lifecycle, PTL

(* An Unhooked record has nothing left that could reach it.                *)
THEOREM UnhookedStaysQuiet == Spec => []UnhookedIsQuiet
<1>1. LifecycleInv => UnhookedIsQuiet
  BY DEF LifecycleInv
<1>. QED
  BY <1>1, Lifecycle, PTL

(* The record, the gate and the counts of the hook agree with its calls.   *)
THEOREM RecordStaysTrue == Spec => []RecordAgrees
<1>1. TypeOK /\ CountersExact /\ UnhookedIsQuiet => RecordAgrees
  BY DEF RecordAgrees
<1>. QED
  BY <1>1, TypeCorrect, CountersStayExact, UnhookedStaysQuiet, PTL

(* The gate never sends a call back to an entry that branches to the gate. *)
THEOREM NoEntryLoop == Spec => []EntryNeverLoops
<1>1. LifecycleInv => EntryNeverLoops
  BY DEF LifecycleInv
<1>. QED
  BY <1>1, Lifecycle, PTL

(* A thread inside a hooked body cannot wait at the gate for itself: its   *)
(* pin or count keeps the gate from being closed for good.                 *)
THEOREM NoSelfWait == Spec => []NoSelfDeadlock
<1>1. LifecycleInv => NoSelfDeadlock
  <2>. SUFFICES ASSUME LifecycleInv, NEW c \in CPUs, NEW d \in 2 .. MaxDepth,
                       at[<<c, d - 1>>] \in {"original", "retained"}
                PROVE  /\ gate \notin {"INSTALLING", "FAILED"}
                       /\ gate = "CLOSED" => pc = "recheck"
    BY DEF NoSelfDeadlock
  <2>1. <<c, d - 1>> \in Calls
    BY LifecycleAssumption DEF Calls
  <2>2. /\ \A k \in Calls : at[k] \in {"begun", "original"} => in_flight > 0
        /\ retained <= entrants
    BY CountsWitness DEF LifecycleInv
  <2>3. CASE at[<<c, d - 1>>] = "original"
    BY <2>1, <2>2, <2>3 DEF LifecycleInv, TypeOK, QuietInv, StepInv, ClosedSteps, SettledSteps
  <2>4. CASE at[<<c, d - 1>>] = "retained"
    BY <2>1, <2>2, <2>4 DEF LifecycleInv, TypeOK, QuietInv
  <2>. QED
    BY <2>3, <2>4
<1>. QED
  BY <1>1, Lifecycle, PTL

(***************************************************************************)
(* The returns of counted calls, for an installation that either succeeds  *)
(* with a trampoline and its bytes captured, or fails unpublished: the     *)
(* others give RET interception up while calls may still arrive            *)
(***************************************************************************)
CleanInstalls == Outcomes \subseteq {"ok", "never"} /\ ~BackupMayLack /\ ~CaptureMayFail

(* RET interception stands from before the host is called until after the  *)
(* backend is gone.                                                        *)
ReturnInv ==
  /\ backend_installed => returns
  /\ pc = "host" => returns
  /\ pc = "host" /\ patched => trampoline # "none"
  /\ pc \notin {"rollback", "rollbackDone"}

(* No step of an installation, of an unhook or of a call takes it away     *)
(* sooner.                                                                 *)
LEMMA ReturnInvKept ==
  ASSUME CleanInstalls, LifecycleInv, ReturnInv, [Next]_vars
  PROVE  ReturnInv'
<1>1. CASE Install
  <2>1. ~HostHookedWithoutBackup /\ ~HostFailedAfterPublished /\ ~HostRecoveryRequired
    BY DEF CleanInstalls, ReturnInv, HostHookedWithoutBackup, HostFailedAfterPublished,
       HostRecoveryRequired
  <2>2. ~CaptureFails /\ ~RollbackUnhooks /\ ~RollbackUnhookFails /\ ~RollbackFinishes
    BY DEF CleanInstalls, ReturnInv, CaptureFails, RollbackUnhooks, RollbackUnhookFails,
       RollbackFinishes
  <2>3. CASE InstallBegin
    BY <2>3 DEF LifecycleInv, BackendInv, UnhookedIsQuiet, ReturnInv, QuietInv, InstallBegin,
       Goto, hostVars
  <2>4. CASE HostPrepares
    BY <2>4 DEF ReturnInv, HostPrepares, recordVars
  <2>5. CASE HostPublishes
    BY <2>5 DEF CleanInstalls, ReturnInv, HostPublishes, gateVars, recordVars
  <2>6. CASE HostHooked
    BY <2>6 DEF ReturnInv, HostHooked, Goto, hostVars
  <2>7. CASE HostNeverPublished
    BY <2>7 DEF LifecycleInv, StepInv, ReturnInv, HostNeverPublished, Release
  <2>8. CASE CaptureSucceeds
    BY <2>8 DEF ReturnInv, CaptureSucceeds, Goto, hostVars
  <2>9. CASE Arm
    BY <2>9 DEF ReturnInv, Arm, Release, recordVars, hostVars
  <2> QED
    BY <1>1, <2>1, <2>2, <2>3, <2>4, <2>5, <2>6, <2>7, <2>8, <2>9 DEF Install
<1>2. CASE Finish \/ UnhookBegin \/ Retire
  <2>1. pc' # "host" /\ pc' \notin {"rollback", "rollbackDone"}
    BY <1>2 DEF ReturnInv, Finish, UnhookBegin, Retire, BeginDrain, DeferToInFlight,
       InFlightIdle, CloseGate, DeferToEntrants, Reopen, StayClosed, HostUnhooks,
       HostUnhookFails, UnhookFailed, BypassTarget, RestoreReturns, RestoreReturnsFails,
       Release, Goto
  <2>2. backend_installed' => backend_installed
    BY <1>2 DEF Finish, UnhookBegin, Retire, BeginDrain, DeferToInFlight,
       InFlightIdle, CloseGate, DeferToEntrants, Reopen, StayClosed, HostUnhooks,
       HostUnhookFails, UnhookFailed, BypassTarget, RestoreReturns, RestoreReturnsFails,
       recordVars
  <2>3. UNCHANGED returns \/ RestoreReturns
    BY <1>2 DEF Finish, UnhookBegin, Retire, BeginDrain, DeferToInFlight,
       InFlightIdle, CloseGate, DeferToEntrants, Reopen, StayClosed, HostUnhooks,
       HostUnhookFails, UnhookFailed, BypassTarget, RestoreReturnsFails, recordVars
  <2>4. RestoreReturns => ~backend_installed
    BY DEF LifecycleInv, StepInv, RestoreReturns
  <2> QED
    BY <2>1, <2>2, <2>3, <2>4 DEF ReturnInv
<1>3. CASE \E k \in Calls : CallStep(k)
  <2>1. UNCHANGED <<backend_installed, returns, patched, trampoline>>
    BY <1>3 DEF CallStep, Advance, Call, GatePin, GateRoute, BeginInvocation, BeginRefused,
       DispatchUnavailable, BridgeFails, EnterOriginal, SkipMissingOriginal, InvocationExited,
       ReturnUnseen, ReturnUncounted, FinishUnhook, recordVars, hostVars
  <2>2. pc' = pc \/ pc' = "drain"
    BY <1>3 DEF CallStep, Advance, Call, GatePin, GateRoute, BeginInvocation, BeginRefused,
       DispatchUnavailable, BridgeFails, EnterOriginal, SkipMissingOriginal, InvocationExited,
       ReturnUnseen, ReturnUncounted, FinishUnhook
  <2> QED
    BY <2>1, <2>2 DEF ReturnInv
<1>4. CASE UNCHANGED vars
  BY <1>4 DEF ReturnInv, vars
<1> QED
  BY <1>1, <1>2, <1>3, <1>4 DEF Next, CallStep

(* The return of a counted call is seen: with clean installations RET      *)
(* interception outlives every one of them.                                *)
THEOREM ReturnsAreSeen ==
  ASSUME CleanInstalls
  PROVE  Spec => []ReturnsIntercepted
<1>1. Init => ReturnInv
  BY DEF Init, ReturnInv
<1>2. LifecycleInv /\ ReturnInv /\ [Next]_vars => ReturnInv'
  BY ReturnInvKept
<1>3. LifecycleInv /\ ReturnInv => ReturnsIntercepted
  BY DEF LifecycleInv, ReturnInv, TrackedOriginalSafe, ReturnsIntercepted
<1> QED
  BY <1>1, <1>2, <1>3, Lifecycle, PTL DEF Spec

(***************************************************************************)
(* Refinement: the hook keeps the promise of TrampolineLifetime            *)
(***************************************************************************)
Users == {k \in Calls : at[k] \in {"original", "retained"}}

(* The abstract step is a build, a discard or a reclaim exactly when the   *)
(* host's part of a step changes the trampoline, and nobody uses it then.  *)
LEMMA HolderRefines ==
  ASSUME LifecycleInv, LifecycleInv', Install \/ Finish \/ UnhookBegin \/ Retire
  PROVE  [Lifetime!Next]_(Lifetime!tlVars)
<1>1. Users' = Users
  <2>1. HolderMoves
    BY DEF LifecycleInv, TypeOK, HolderMoves, Install, Finish, InstallBegin, HostPrepares,
       HostPublishes, HostHooked, HostHookedWithoutBackup, HostNeverPublished,
       HostFailedAfterPublished, HostRecoveryRequired, CaptureSucceeds, Arm, CaptureFails,
       RollbackUnhooks, RollbackUnhookFails, RollbackFinishes, UnhookBegin, Retire, BeginDrain,
       DeferToInFlight, InFlightIdle, CloseGate, DeferToEntrants, Reopen, StayClosed,
       HostUnhooks, HostUnhookFails, UnhookFailed, BypassTarget, RestoreReturns,
       RestoreReturnsFails, KeepFailedInstall, Release, Goto, gateVars, recordVars
  <2>2. \A k \in Calls : at'[k] # at[k] => at[k] = "finishing" /\ at'[k] = "idle"
    BY <2>1, HolderKeepsCalls DEF LifecycleInv
  <2>. QED
    BY <2>2 DEF Users
<1>2. \/ trampoline' = trampoline
      \/ trampoline = "none" /\ trampoline' = "live"
      \/ trampoline = "live" /\ trampoline' = "none" /\ HostNeverPublished
      \/ trampoline = "live" /\ trampoline' = "freed"
  BY DEF LifecycleInv, TypeOK, StepInv, Install, Finish, InstallBegin, HostPrepares,
     HostPublishes, HostHooked, HostHookedWithoutBackup, HostNeverPublished,
     HostFailedAfterPublished, HostRecoveryRequired, CaptureSucceeds, Arm, CaptureFails,
     RollbackUnhooks, RollbackUnhookFails, RollbackFinishes, UnhookBegin, Retire, BeginDrain,
     DeferToInFlight, InFlightIdle, CloseGate, DeferToEntrants, Reopen, StayClosed,
     HostUnhooks, HostUnhookFails, UnhookFailed, BypassTarget, RestoreReturns,
     RestoreReturnsFails, Freed, hostVars
<1>3. trampoline' # "live" => Users' = {}
  BY DEF Users, LifecycleInv, TrackedOriginalSafe
<1>. QED
  BY <1>1, <1>2, <1>3 DEF Users, Lifetime!Next, Lifetime!tlVars, Lifetime!Build,
     Lifetime!Discard, Lifetime!Reclaim

(* A call that enters the body starts to use a live trampoline, and one    *)
(* that leaves it is done.                                                 *)
LEMMA CallRefines ==
  ASSUME LifecycleInv, LifecycleInv', NEW k \in Calls, CallStep(k)
  PROVE  [Lifetime!Next]_(Lifetime!tlVars)
<1>1. \A j \in Calls : j # k => at'[j] = at[j]
  BY CallKeepsCounters DEF LifecycleInv
<1>2. trampoline' = trampoline
  BY DEF CallStep, Advance, Call, GatePin, GateRoute, BeginInvocation, BeginRefused,
     DispatchUnavailable, BridgeFails, EnterOriginal, SkipMissingOriginal, InvocationExited,
     ReturnUnseen, ReturnUncounted, FinishUnhook, hostVars
<1>3. CASE at'[k] \in {"original", "retained"}
  <2>1. Users' = Users \cup {k} /\ trampoline = "live"
    BY <1>1, <1>2, <1>3 DEF Users, LifecycleInv, TrackedOriginalSafe
  <2>. QED
    BY <1>2, <2>1 DEF Users, Lifetime!Next, Lifetime!Use
<1>4. CASE at'[k] \notin {"original", "retained"}
  <2>1. Users' = Users \ {k}
    BY <1>1, <1>4 DEF Users
  <2>. QED
    BY <1>2, <2>1 DEF Users, Lifetime!Next, Lifetime!Done
<1>. QED
  BY <1>3, <1>4

(* Every behaviour of the hook is one of TrampolineLifetime, whose users   *)
(* are the calls that run the original counted, or with a pin kept.        *)
THEOREM HookKeepsTrampoline == Spec => ImplementsLifetime
<1>1. Init => Lifetime!Init
  BY DEF Init, Lifetime!Init
<1>2. LifecycleInv /\ LifecycleInv' /\ [Next]_vars => [Lifetime!Next]_(Lifetime!tlVars)
  <2>. SUFFICES ASSUME LifecycleInv, LifecycleInv', [Next]_vars
                PROVE  [Lifetime!Next]_(Lifetime!tlVars)
    OBVIOUS
  <2>1. CASE Install \/ Finish \/ UnhookBegin \/ Retire
    BY <2>1, HolderRefines
  <2>2. CASE \E k \in Calls : CallStep(k)
    BY <2>2, CallRefines
  <2>3. CASE UNCHANGED vars
    BY <2>3 DEF vars, Lifetime!tlVars
  <2>. QED
    BY <2>1, <2>2, <2>3 DEF Next, CallStep
<1>. QED
  BY <1>1, <1>2, Lifecycle, PTL DEF Spec, ImplementsLifetime, Lifetime!Spec
=============================================================================
