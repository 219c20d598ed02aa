---------------------------- MODULE HookListeners ----------------------------
(***************************************************************************)
(* The logical side of one physical hook: the listener chain of a          *)
(* HookRecord, the handles of its subscribers, the leases the listeners    *)
(* hold on VM adapters, and the snapshots that running invocations take.   *)
(*                                                                         *)
(* A step is one section under hook->mutex, one access to an atomic, or    *)
(* one user callback.  State().mutex is held over several of them; mutex   *)
(* says who holds it.  The gate and the host are HookLifecycle's: here an  *)
(* unhook is done when no invocation is counted.                           *)
(***************************************************************************)
EXTENDS Integers, Sequences, FiniteSets, SequencesExt

CONSTANTS
  Threads,     \* Dart threads, each in at most one invocation of the hook
  Listeners,   \* listener records, each registered at most once
  Owners,      \* runtimes, each with its generation token and its VM adapter
  OwnerOf,     \* [Listeners -> Owners]
  GroupOf,     \* [Threads -> Owners]: the isolate group a thread runs in
  Priority,    \* [Listeners -> Int]
  HostMayFail, \* may the host's unhook fail?
  Swept,       \* owners whose runtime, image or VM adapter may go away
  MayClear     \* may dartplant_reset, or the image, end every subscription?

ASSUME ListenersAssumption ==
  /\ IsFiniteSet(Threads) /\ IsFiniteSet(Listeners) /\ IsFiniteSet(Owners)
  /\ OwnerOf \in [Listeners -> Owners]
  /\ GroupOf \in [Threads -> Owners]
  /\ Priority \in [Listeners -> Int]
  /\ HostMayFail \in BOOLEAN
  /\ Swept \subseteq Owners
  /\ MayClear \in BOOLEAN
  /\ Listeners \cap {"free", "sweep", "none"} = {}

VARIABLES
  mutex,          \* State().mutex: "free", or what its holder is doing
  state,          \* HookRecord::state
  chain,          \* hook->listeners
  hook_in_flight, \* HookRecord::in_flight
  active,         \* DartPlantListenerRecord::active
  in_flight,      \* DartPlantListenerRecord::in_flight
  retained,       \* DartPlantListenerRecord::vm_adapter_retained
  leases,         \* hooks counted by each VM adapter
  admission,      \* of each VM adapter: "open", "closed" or "quiesced"
  current,        \* runtimes whose generation has not moved on
  installer,      \* owner whose listener installed the record
  handle,         \* where the subscriber's handle is
  releasing,      \* handles inside dartplant_release_hook_handle
  phase,          \* of each thread's invocation
  entered,        \* entered_listeners of each thread's frame
  pending,        \* per thread: listeners whose count is still to be given back
  giving          \* per thread: the listener whose count was just given back

ownerVars  == <<admission, current>>
leaseVars  == <<active, in_flight, retained, leases>>
apiVars    == <<installer, handle, releasing>>
frameVars  == <<phase, entered, pending, giving>>
vars == <<mutex, state, chain, hook_in_flight, active, in_flight, retained, leases, admission,
          current, installer, handle, releasing, phase, entered, pending, giving>>

None == "none"

(* none      not subscribed yet                                            *)
(* checked   admitted by the checks of add_listener, not yet in the chain  *)
(* held      subscribed, the subscriber has its handle                     *)
(* erased    remove_listener left hook->mutex, deciding to keep the hook   *)
(* last      the same, deciding to call RemoveHook                         *)
(* unhook    its VM adapter lease is settled, RemoveHook comes next        *)
(* failed    RemoveHook failed and so did unhook_handle                    *)
(* removed   unhook_handle returned OK                                     *)
(* dispose   release_listener removes once more and decides for RemoveHook *)
(* released  handle and listener are deleted                               *)
(* leaked    the handle is deleted, its busy listener is kept for ever     *)
HandleStates == {None, "checked", "held", "erased", "last", "unhook", "failed",
                 "removed", "dispose", "released", "leaked"}

(* out       not in the hooked function                                    *)
(* begun     BeginInvocation took the snapshot                             *)
(* enter     on_enter callbacks of the owner's listeners                   *)
(* body      the original body, then the on_leave callbacks                *)
(* exit      the snapshot is being released, InvocationExited comes last   *)
Phases == {"out", "begun", "enter", "body", "exit"}

-----------------------------------------------------------------------------
(* Listener records                                                        *)

(* The members of s that are in L, in their order (SelectSeq, as a         *)
(* function).                                                              *)
Those(s, L) ==
  LET taken[i \in 0 .. Len(s)] ==
        IF i = 0 THEN <<>>
        ELSE IF s[i] \in L THEN Append(taken[i - 1], s[i]) ELSE taken[i - 1]
  IN taken[Len(s)]

(* Mutant: running frames do not keep the lease.                          *)
ReleaseIfInactive(L, act, flying) ==
  LET idle == {l \in L : ~act[l] /\ retained[l]}
  IN  /\ retained' = [l \in Listeners |-> retained[l] /\ l \notin idle]
      /\ leases' = [o \in Owners |->
                      leases[o] - Cardinality({l \in idle : OwnerOf[l] = o})]

(* ReleaseListenerVmAdapterIfIdle on each listener of L, given the new     *)
(* values of active and in_flight: the exchange of vm_adapter_retained     *)
(* lets one caller only release the lease.                                 *)
ReleaseIfIdle(L, act, flying) ==
  LET idle == {l \in L : ~act[l] /\ flying[l] = 0 /\ retained[l]}
  IN  /\ retained' = [l \in Listeners |-> retained[l] /\ l \notin idle]
      /\ leases' = [o \in Owners |->
                      leases[o] - Cardinality({l \in idle : OwnerOf[l] = o})]

(* InsertListenerLocked: upper_bound by priority, registration order among *)
(* equals.                                                                 *)
InsertSorted(s, l) ==
  LET after == {m \in Listeners : Priority[m] < Priority[l]}
  IN  Those(s, Listeners \ after) \o <<l>> \o Those(s, after)

(* MakeListenerLocked and InsertListenerLocked.                            *)
Subscribe(l) ==
  /\ chain' = InsertSorted(chain, l)
  /\ active' = [active EXCEPT ![l] = TRUE]
  /\ retained' = [retained EXCEPT ![l] = TRUE]
  /\ leases' = [leases EXCEPT ![OwnerOf[l]] = @ + 1]
  /\ handle' = [handle EXCEPT ![l] = "held"]

(* RemoveMatchingListenersLocked and the clearing of the chain.            *)
Unsubscribe(L) ==
  LET act == [l \in Listeners |-> active[l] /\ l \notin L]
  IN  /\ chain' = Those(chain, Listeners \ L)
      /\ active' = act
      /\ ReleaseIfIdle(L, act, in_flight)

-----------------------------------------------------------------------------
Init ==
  /\ mutex = "free"
  /\ state = "None"
  /\ chain = <<>>
  /\ hook_in_flight = 0
  /\ active = [l \in Listeners |-> FALSE]
  /\ in_flight = [l \in Listeners |-> 0]
  /\ retained = [l \in Listeners |-> FALSE]
  /\ leases = [o \in Owners |-> 0]
  /\ admission = [o \in Owners |-> "open"]
  /\ current = [o \in Owners |-> TRUE]
  /\ installer = None
  /\ handle = [l \in Listeners |-> None]
  /\ releasing = [l \in Listeners |-> FALSE]
  /\ phase = [t \in Threads |-> "out"]
  /\ entered = [t \in Threads |-> <<>>]
  /\ pending = [t \in Threads |-> {}]
  /\ giving = [t \in Threads |-> None]

-----------------------------------------------------------------------------
(* Subscribing: dartplant_runtime_add_listener                             *)

(* The generation, and the adapter's admission, are checked first; from    *)
(* here State().mutex is held, and the runtime's own mutex.  After a       *)
(* complete unhook a new record would be made: one record is enough here.  *)
AddChecks(l) ==
  /\ mutex = "free"
  /\ handle[l] = None
  /\ current[OwnerOf[l]] /\ admission[OwnerOf[l]] = "open"
  /\ state # "Unhooked"
  /\ mutex' = l
  /\ handle' = [handle EXCEPT ![l] = "checked"]
  /\ UNCHANGED <<state, chain, hook_in_flight, leaseVars, ownerVars, installer, releasing,
                 frameVars>>

(* Mutant: the state of the record is not looked at again.                *)
AddInsertsUnchecked(l) ==
  /\ mutex = l
  /\ handle[l] = "checked"
  /\ Subscribe(l)
  /\ state' = IF state = "None" THEN "Installed" ELSE state
  /\ installer' = IF state = "None" THEN OwnerOf[l] ELSE installer
  /\ mutex' = "free"
  /\ UNCHANGED <<hook_in_flight, in_flight, ownerVars, releasing, frameVars>>

(* AddCallbackListener enters the chain of an installed hook;              *)
(* InstallCallbackHook installs the hook around its first listener.        *)
AddInserts(l) ==
  /\ mutex = l
  /\ handle[l] = "checked"
  /\ state \in {"None", "Installed"}
  /\ Subscribe(l)
  /\ state' = IF state = "None" THEN "Installed" ELSE state
  /\ installer' = IF state = "None" THEN OwnerOf[l] ELSE installer
  /\ mutex' = "free"
  /\ UNCHANGED <<hook_in_flight, in_flight, ownerVars, releasing, frameVars>>

(* The record is no longer installed: "hook is not active".                *)
AddRefused(l) ==
  /\ mutex = l
  /\ state \notin {"None", "Installed"}
  /\ handle' = [handle EXCEPT ![l] = None]
  /\ mutex' = "free"
  /\ UNCHANGED <<state, chain, hook_in_flight, leaseVars, ownerVars, installer, releasing,
                 frameVars>>

-----------------------------------------------------------------------------
(* UnhookRecordLocked                                                      *)

(* FinishUnhookLocked once nothing is in flight.                           *)
Finished == IF HostMayFail THEN {"Unhooked", "Failed"} ELSE {"Unhooked"}

(* What the sweep, reset or removal that holds State().mutex does to the   *)
(* record.  An Unhooking, Unhooked or Retired record is left alone.  A     *)
(* call that has only crossed the gate puts the unhook off, too.           *)
UnhookRecord ==
  IF state \in {"Installed", "Failed"}
  THEN /\ Unsubscribe(ToSet(chain))
       /\ LET waits == hook_in_flight # 0 \/ \E t \in Threads : phase[t] = "out"
              idle  == IF hook_in_flight = 0 THEN Finished ELSE {}
          IN  state' \in (IF waits THEN {"Unhooking"} ELSE {}) \cup idle
  ELSE UNCHANGED <<state, chain, active, retained, leases>>

(* The last invocation out of an Unhooking record, unless a new call is    *)
(* counted first.                                                          *)
FinishUnhook ==
  /\ mutex = "free"
  /\ state = "Unhooking"
  /\ hook_in_flight = 0
  /\ state' \in Finished
  /\ UNCHANGED <<mutex, chain, hook_in_flight, leaseVars, ownerVars, apiVars, frameVars>>

-----------------------------------------------------------------------------
(* Unsubscribing: unhook_handle and release_hook_handle                    *)

(* dartplant_remove_listener under hook->mutex: it decides here whether    *)
(* the physical hook goes too.                                             *)
Erase(l) ==
  /\ handle[l] \in {"held", "failed"}
  /\ chain' = Those(chain, Listeners \ {l})
  /\ active' = [active EXCEPT ![l] = FALSE]
  /\ handle' = [handle EXCEPT ![l] =
                  IF chain' = <<>> /\ state = "Installed" THEN "last" ELSE "erased"]
  /\ UNCHANGED <<mutex, state, hook_in_flight, in_flight, retained, leases, ownerVars,
                 installer, releasing, frameVars>>

(* After the unlock.                                                       *)
EraseReleases(l) ==
  /\ handle[l] \in {"erased", "last"}
  /\ ReleaseIfIdle({l}, active, in_flight)
  /\ handle' = [handle EXCEPT ![l] = IF @ = "last" THEN "unhook" ELSE "removed"]
  /\ UNCHANGED <<mutex, state, chain, hook_in_flight, active, in_flight, ownerVars,
                 installer, releasing, frameVars>>

(* RemoveHook, on the decision taken above.  A release that fails keeps    *)
(* the handle.                                                             *)
RemoveHook(l) ==
  /\ handle[l] \in {"unhook", "dispose"}
  /\ mutex = "free"
  /\ UnhookRecord
  /\ LET failed == state' \in {"Failed", "Retired"} /\ handle[l] = "unhook"
     IN  /\ handle' = [handle EXCEPT ![l] = IF failed THEN "failed"
                                            ELSE IF @ = "dispose" THEN "released"
                                            ELSE "removed"]
         /\ releasing' = [releasing EXCEPT ![l] = @ /\ ~failed]
  /\ UNCHANGED <<mutex, hook_in_flight, in_flight, ownerVars, installer, frameVars>>

(* dartplant_release_hook_handle goes on when no snapshot names the        *)
(* listener; a handle not yet removed is then removed as above.            *)
ReleaseBegins(l) ==
  /\ handle[l] \in {"held", "failed", "removed"}
  /\ ~releasing[l]
  /\ in_flight[l] = 0
  /\ releasing' = [releasing EXCEPT ![l] = TRUE]
  /\ UNCHANGED <<mutex, state, chain, hook_in_flight, leaseVars, ownerVars, installer, handle,
                 frameVars>>

(* Mutant: a busy listener is deleted like an idle one.                   *)
ReleaseEndsBusy(l) ==
  /\ handle[l] = "removed"
  /\ releasing[l]
  /\ ReleaseIfIdle({l}, active, in_flight)
  /\ handle' = [handle EXCEPT ![l] =
                  IF chain = <<>> /\ state = "Installed" THEN "dispose" ELSE "released"]
  /\ releasing' = [releasing EXCEPT ![l] = FALSE]
  /\ UNCHANGED <<mutex, state, chain, hook_in_flight, active, in_flight, ownerVars, installer,
                 frameVars>>

(* dartplant_release_listener refuses a busy listener, but the handle is   *)
(* deleted either way.  An idle one it removes once more.                  *)
ReleaseEnds(l) ==
  /\ handle[l] = "removed"
  /\ releasing[l]
  /\ ReleaseIfIdle({l}, active, in_flight)
  /\ handle' = [handle EXCEPT ![l] =
                  IF in_flight[l] # 0 THEN "leaked"
                  ELSE IF chain = <<>> /\ state = "Installed" THEN "dispose"
                  ELSE "released"]
  /\ releasing' = [releasing EXCEPT ![l] = FALSE]
  /\ UNCHANGED <<mutex, state, chain, hook_in_flight, active, in_flight, ownerVars, installer,
                 frameVars>>

-----------------------------------------------------------------------------
(* Sweeps by owner                                                         *)

(* The generation of a runtime moves on while no add of its own runs.      *)
Bump(o) ==
  /\ current[o]
  /\ \A l \in Listeners : mutex = l => OwnerOf[l] # o
  /\ current' = [current EXCEPT ![o] = FALSE]
  /\ UNCHANGED <<mutex, state, chain, hook_in_flight, leaseVars, admission, apiVars, frameVars>>

(* dartplant_flutter_vm_adapter_invalidate_artifacts, without the mutex.   *)
CloseAdmission(o) ==
  /\ admission[o] = "open"
  /\ admission' = [admission EXCEPT ![o] = "closed"]
  /\ UNCHANGED <<mutex, state, chain, hook_in_flight, leaseVars, current, apiVars, frameVars>>

OfOwner(o) == {l \in ToSet(chain) : OwnerOf[l] = o}

(* A chain that is empty already is matched by the owner that installed it.*)
Matches(o) == OfOwner(o) # {} \/ (chain = <<>> /\ installer = o)

(* InvalidateRuntimeHooks: the chain section under hook->mutex; when the   *)
(* chain is empty afterwards the sweep unhooks the record.                 *)
Invalidate(o) ==
  /\ mutex = "free"
  /\ state \notin {"None", "Retired"}
  /\ Matches(o)
  /\ Unsubscribe(OfOwner(o))
  /\ mutex' = IF chain' = <<>> THEN "sweep" ELSE "free"
  /\ UNCHANGED <<state, hook_in_flight, in_flight, ownerVars, apiVars, frameVars>>

(* RetireRuntimeHooks: the mapping is gone, the record is never restored.  *)
Retire(o) ==
  /\ mutex = "free"
  /\ state \notin {"None", "Unhooked"}
  /\ Matches(o)
  /\ Unsubscribe(OfOwner(o))
  /\ state' = IF chain' = <<>> THEN "Retired" ELSE state
  /\ UNCHANGED <<mutex, hook_in_flight, in_flight, ownerVars, apiVars, frameVars>>

(* RetireRuntimeImageHooks: one listener of the vanished image ends them   *)
(* all.                                                                    *)
RetireImage(o) ==
  /\ mutex = "free"
  /\ state \notin {"None", "Unhooked"}
  /\ Matches(o)
  /\ Unsubscribe(ToSet(chain))
  /\ state' = "Retired"
  /\ UNCHANGED <<mutex, hook_in_flight, in_flight, ownerVars, apiVars, frameVars>>

(* Mutant: admission closes without State().mutex.                        *)
QuiesceUnserialized(o) ==
  /\ mutex # "sweep"
  /\ admission[o] # "quiesced"
  /\ admission' = [admission EXCEPT ![o] = "quiesced"]
  /\ Unsubscribe(OfOwner(o))
  /\ mutex' = IF chain' = <<>> /\ chain # <<>> THEN "sweep" ELSE mutex
  /\ UNCHANGED <<state, hook_in_flight, in_flight, current, apiVars, frameVars>>

(* QuiesceVmAdapterHooks closes admission and sweeps in one section of     *)
(* State().mutex.  It does not match an empty chain.                       *)
Quiesce(o) ==
  /\ mutex = "free"
  /\ admission[o] # "quiesced"
  /\ admission' = [admission EXCEPT ![o] = "quiesced"]
  /\ Unsubscribe(OfOwner(o))
  /\ mutex' = IF chain' = <<>> /\ chain # <<>> THEN "sweep" ELSE "free"
  /\ UNCHANGED <<state, hook_in_flight, in_flight, current, apiVars, frameVars>>

(* The sweep found the chain empty and unhooks the record.                 *)
SweepUnhooks ==
  /\ mutex = "sweep"
  /\ UnhookRecord
  /\ mutex' = "free"
  /\ UNCHANGED <<hook_in_flight, in_flight, ownerVars, apiVars, frameVars>>

(* ResetHooks.                                                             *)
ResetHooks ==
  /\ mutex = "free"
  /\ state \notin {"None", "Unhooked"}
  /\ UnhookRecord
  /\ UNCHANGED <<mutex, hook_in_flight, in_flight, ownerVars, apiVars, frameVars>>

-----------------------------------------------------------------------------
(* Invocations                                                             *)

Admitted ==
  {l \in Listeners : active[l] /\ current[OwnerOf[l]] /\ admission[OwnerOf[l]] = "open"}

(* BeginInvocation counts the call and snapshots the chain.  The gate      *)
(* still lets calls through while the record drains or has failed.         *)
BeginInvocation(t) ==
  /\ phase[t] = "out"
  /\ state \in {"Installed", "Unhooking", "Failed"}
  /\ LET snapshot == IF state = "Installed" THEN Those(chain, Admitted) ELSE <<>>
     IN  /\ entered' = [entered EXCEPT ![t] = snapshot]
         /\ in_flight' = [l \in Listeners |->
                            in_flight[l] + IF l \in ToSet(snapshot) THEN 1 ELSE 0]
  /\ hook_in_flight' = hook_in_flight + 1
  /\ phase' = [phase EXCEPT ![t] = "begun"]
  /\ UNCHANGED <<mutex, state, chain, active, retained, leases, ownerVars, apiVars, pending, giving>>

(* The frame keeps the listeners of kept and gives the others back.        *)
KeepOnly(t, kept) ==
  /\ entered' = [entered EXCEPT ![t] = kept]
  /\ pending' = [pending EXCEPT ![t] = ToSet(entered[t]) \ ToSet(kept)]

Settled(t) == pending[t] = {} /\ giving[t] = None

InGroup(t) == {l \in Listeners : OwnerOf[l] = GroupOf[t]}

(* Mutant: listeners of other groups are dropped, not given back.         *)
FilterForgets(t) ==
  /\ phase[t] = "begun"
  /\ entered' = [entered EXCEPT ![t] = Those(@, InGroup(t))]
  /\ phase' = [phase EXCEPT ![t] = "enter"]
  /\ UNCHANGED <<mutex, state, chain, hook_in_flight, leaseVars, ownerVars, apiVars, pending,
                 giving>>

(* FilterListenersForCurrentIsolateGroup.                                  *)
Filter(t) ==
  /\ phase[t] = "begun"
  /\ KeepOnly(t, Those(entered[t], InGroup(t)))
  /\ phase' = [phase EXCEPT ![t] = "enter"]
  /\ UNCHANGED <<mutex, state, chain, hook_in_flight, leaseVars, ownerVars, apiVars, giving>>

(* Mutant: the invocation exits here and at the end.                      *)
SetupFailsExitsTwice(t) ==
  /\ phase[t] = "enter"
  /\ Settled(t)
  /\ KeepOnly(t, <<>>)
  /\ hook_in_flight' = hook_in_flight - 1
  /\ phase' = [phase EXCEPT ![t] = "exit"]
  /\ UNCHANGED <<mutex, state, chain, leaseVars, ownerVars, apiVars, giving>>

(* The VM bridge or the exception bridge fails: the call goes on without   *)
(* its frame.                                                              *)
SetupFails(t) ==
  /\ phase[t] = "enter"
  /\ Settled(t)
  /\ KeepOnly(t, <<>>)
  /\ phase' = [phase EXCEPT ![t] = "exit"]
  /\ UNCHANGED <<mutex, state, chain, hook_in_flight, leaseVars, ownerVars, apiVars, giving>>

(* Mutant: the listeners not entered are not given back.                  *)
EnterDoneForgets(t) ==
  /\ phase[t] = "enter"
  /\ Settled(t)
  /\ \E n \in 0 .. Len(entered[t]) : entered' = [entered EXCEPT ![t] = SubSeq(@, 1, n)]
  /\ phase' = [phase EXCEPT ![t] = "body"]
  /\ UNCHANGED <<mutex, state, chain, hook_in_flight, leaseVars, ownerVars, apiVars, pending,
                 giving>>

(* The on_enter callbacks of the first n listeners.  One of them may ask   *)
(* to skip the original, or the code may turn out to be shared: the others *)
(* are given back and will see no on_leave.                                *)
EnterDone(t) ==
  /\ phase[t] = "enter"
  /\ Settled(t)
  /\ \E n \in 0 .. Len(entered[t]) : KeepOnly(t, SubSeq(entered[t], 1, n))
  /\ phase' = [phase EXCEPT ![t] = "body"]
  /\ UNCHANGED <<mutex, state, chain, hook_in_flight, leaseVars, ownerVars, apiVars, giving>>

(* FinishFrame after the on_leave callbacks, or AbandonFrame when an       *)
(* exception unwinds the body: ReleaseSnapshot either way.                 *)
LeaveDone(t) ==
  /\ phase[t] = "body"
  /\ Settled(t)
  /\ KeepOnly(t, <<>>)
  /\ phase' = [phase EXCEPT ![t] = "exit"]
  /\ UNCHANGED <<mutex, state, chain, hook_in_flight, leaseVars, ownerVars, apiVars, giving>>

(* One listener is given back: in_flight.fetch_sub ...                     *)
GiveBack(t, l) ==
  /\ l \in pending[t]
  /\ giving[t] = None
  /\ pending' = [pending EXCEPT ![t] = @ \ {l}]
  /\ in_flight' = [in_flight EXCEPT ![l] = @ - 1]
  /\ giving' = [giving EXCEPT ![t] = l]
  /\ UNCHANGED <<mutex, state, chain, hook_in_flight, active, retained, leases, ownerVars,
                 apiVars, phase, entered>>

(* Mutant: the last frame does not look at the adapter's lease.           *)
GaveBackKeepsLease(t) ==
  /\ giving[t] # None
  /\ giving' = [giving EXCEPT ![t] = None]
  /\ UNCHANGED <<mutex, state, chain, hook_in_flight, leaseVars, ownerVars, apiVars,
                 phase, entered, pending>>

(* ... then its adapter, if it is inactive and idle by now.                *)
GaveBack(t) ==
  /\ giving[t] # None
  /\ ReleaseIfIdle({giving[t]}, active, in_flight)
  /\ giving' = [giving EXCEPT ![t] = None]
  /\ UNCHANGED <<mutex, state, chain, hook_in_flight, active, in_flight, ownerVars, apiVars,
                 phase, entered, pending>>

InvocationExited(t) ==
  /\ phase[t] = "exit"
  /\ Settled(t)
  /\ hook_in_flight' = hook_in_flight - 1
  /\ phase' = [phase EXCEPT ![t] = "out"]
  /\ UNCHANGED <<mutex, state, chain, leaseVars, ownerVars, apiVars, entered, pending, giving>>

-----------------------------------------------------------------------------
(* The steps of whoever holds State().mutex.                               *)
Holder ==
  \/ SweepUnhooks
  \/ \E l \in Listeners : AddInserts(l) \/ AddRefused(l)

(* The steps of an unhook_handle or release_hook_handle that has begun.    *)
ApiStep(l) == EraseReleases(l) \/ RemoveHook(l) \/ ReleaseEnds(l)

(* The steps of an invocation that has begun.                              *)
Advance(t) ==
  \/ Filter(t) \/ SetupFails(t) \/ EnterDone(t) \/ LeaveDone(t)
  \/ \E l \in Listeners : GiveBack(t, l)
  \/ GaveBack(t) \/ InvocationExited(t)

Next ==
  \/ Holder
  \/ FinishUnhook
  \/ \E l \in Listeners : AddChecks(l) \/ Erase(l) \/ ReleaseBegins(l) \/ ApiStep(l)
  \/ \E o \in Swept :
       Bump(o) \/ CloseAdmission(o) \/ Invalidate(o) \/ Retire(o) \/ Quiesce(o)
  \/ MayClear /\ (ResetHooks \/ \E o \in Owners : RetireImage(o))
  \/ \E t \in Threads : BeginInvocation(t) \/ Advance(t)

Spec == Init /\ [][Next]_vars

(* Callbacks and bodies return, and a call into the library that has begun *)
(* runs on; nobody is obliged to call anything.  The mutex may starve      *)
(* RemoveHook.                                                             *)
Fairness ==
  /\ WF_vars(Holder)
  /\ \A l \in Listeners : WF_vars(ApiStep(l))
  /\ \A t \in Threads : WF_vars(Advance(t))

FairSpec == Spec /\ Fairness

-----------------------------------------------------------------------------
(* Properties                                                              *)

(* The type of the state.  The chain holds the active listeners, once each *)
(* and in the order of their priorities (InsertListenerLocked).            *)
TypeOK ==
  /\ mutex \in {"free", "sweep"} \cup Listeners
  /\ state \in {"None", "Installed", "Unhooking", "Unhooked", "Failed", "Retired"}
  /\ chain \in Seq(Listeners) /\ ToSet(chain) = {l \in Listeners : active[l]}
  /\ \A i, j \in DOMAIN chain : i < j =>
       chain[i] # chain[j] /\ Priority[chain[i]] >= Priority[chain[j]]
  /\ hook_in_flight \in Nat
  /\ active \in [Listeners -> BOOLEAN]
  /\ in_flight \in [Listeners -> Nat]
  /\ retained \in [Listeners -> BOOLEAN]
  /\ leases \in [Owners -> Nat]
  /\ admission \in [Owners -> {"open", "closed", "quiesced"}]
  /\ current \in [Owners -> BOOLEAN]
  /\ installer \in Owners \cup {None}
  /\ handle \in [Listeners -> HandleStates]
  /\ releasing \in [Listeners -> BOOLEAN]
  /\ phase \in [Threads -> Phases]
  /\ entered \in [Threads -> Seq(Listeners)]
  /\ pending \in [Threads -> SUBSET Listeners]
  /\ giving \in [Threads -> Listeners \cup {None}]

(* The frame of thread t names listener l: in its snapshot, or among those *)
(* it has yet to give back.                                                *)
Names(t, l) == l \in ToSet(entered[t]) \cup pending[t]

(* Each listener's in_flight counts the frames that name it, through every *)
(* filter, early skip, setup failure and unwind, so is_idle() tells the    *)
(* truth (BeginInvocation, ClearEnteredListeners).                         *)
SnapshotExact ==
  \A l \in Listeners : in_flight[l] = Cardinality({t \in Threads : Names(t, l)})

(* A VM adapter does not become quiescent while a frame names a listener   *)
(* that uses it: VmAdapterCheckQuiescent looks at its lease count.         *)
AdapterOutlivesFrames ==
  \A t \in Threads, l \in Listeners : Names(t, l) => leases[OwnerOf[l]] > 0

(* The two sides that may give a listener's lease back, its removal and    *)
(* its last frame, never both miss it: an inactive idle listener holds its *)
(* lease only while one of them is about to look.                          *)
LeaseReturned ==
  \A l \in Listeners :
    retained[l] /\ ~active[l] /\ in_flight[l] = 0
      => handle[l] \in {"erased", "last"} \/ \E t \in Threads : giving[t] = l

(* The counts of listeners and adapters agree with the frames and with the *)
(* subscriptions behind them (in_flight, vm_adapter_retained, hook_refs).  *)
CountsAgree == TypeOK /\ SnapshotExact /\ LeaseReturned /\ AdapterOutlivesFrames

(* A subscription is never added to a hook that is being taken down, where *)
(* it would be lost without an error (AddCallbackListener).                *)
DeadHookHasNoListener ==
  state \in {"Unhooking", "Unhooked", "Failed", "Retired"} => chain = <<>>

(* After QuiesceVmAdapterHooks no listener of the adapter is active, not   *)
(* even one whose add passed the admission check before.                   *)
QuiescedStaysQuiet ==
  \A l \in Listeners : admission[OwnerOf[l]] = "quiesced" => ~active[l]

(* A listener is deleted only when no frame names it and none will         *)
(* (dartplant_release_listener).                                           *)
ReleasedIsIdle ==
  \A l \in Listeners :
    handle[l] \in {"released", "dispose"}
      => in_flight[l] = 0 /\ l \notin ToSet(chain) /\ ~retained[l]

(* A quiesced adapter becomes quiescent once its callbacks have returned.  *)
QuiesceCompletes ==
  \A o \in Owners : admission[o] = "quiesced" ~> leases[o] = 0

(* hook.h: "The physical trampoline is removed only when the final         *)
(* subscription for its entry target disappears": a held subscription      *)
(* whose owner is not swept, and that no reset ends, stays alive.          *)
SubscriptionSurvives ==
  \A l \in Listeners :
    handle[l] = "held" /\ OwnerOf[l] \notin Swept /\ ~MayClear => active[l]
=============================================================================
