-------------------------- MODULE ArtifactLifecycle --------------------------
(***************************************************************************)
(* One Flutter VM adapter: the state its core bridge keeps (flutter_vm.cpp *)
(* calls object_bridge.cpp, which calls back), the artifact binding, and   *)
(* the hosts that invalidate, quiesce, retire and revalidate it while the  *)
(* mutator runs hooked Dart code and native threads hold scopes, handles   *)
(* and the isolate.                                                        *)
(*                                                                         *)
(* A step is one section under adapter->mutex, under artifact_mutex or     *)
(* under the registry's mutex.  Two things last longer: a safepoint stub,  *)
(* run under both mutexes, and a live heap observation, which keeps        *)
(* artifact_mutex from its begin to its end.  That a mutex is only tried,  *)
(* and what its failure costs, is the subject of CallbackFrames.           *)
(***************************************************************************)
EXTENDS Integers, Sequences

CONSTANTS
  Hosts,         \* threads that call the artifact functions of the adapter
  Mutator,       \* the thread the adapter was created on; it runs the hooks
  Workers,       \* native threads that enter the isolate when it is free
  None,          \* no thread
  RootSlots,     \* kRootSlotCount
  RootLeases,    \* kLeaseCount
  MaxDepth,      \* bound of this model: nested hooked calls
  MaxGeneration  \* bound of this model: invalidations

Threads == {Mutator} \cup Workers

ASSUME LifecycleAssumption ==
  /\ Mutator \notin Workers /\ None \notin Threads
  /\ RootSlots \in Nat /\ RootLeases \in Nat /\ MaxDepth \in Nat
  /\ MaxGeneration \in Nat \ {0}

VARIABLES
  admission,    \* admission_open of the core adapter
  owner,        \* owner_thread
  leases,       \* generated_root_leases
  transitions,  \* generated_native_transitions
  entered,      \* VM scopes that are entered
  isolate,      \* who holds the isolate by dartplant_vm_enter_isolate
  handle,       \* the object handle, if there is one: strong or weak
  observing,    \* live_heap_observation_active
  roots,        \* root slots in use
  core,         \* the artifact generation of the core's abi_binding, or 0
  valid,        \* artifact_valid
  quiescing,    \* artifact_quiescing
  generation,   \* artifact_generation
  transition,   \* is the generated transition verified?
  listener,     \* the subscription that retains the adapter
  frames,       \* calls that captured it; for each the roots it has pinned
  mutator,      \* the mutator: out, generated, ffi, entering, native, leaving
  host,         \* the operation of each host and the step it is at
  mapped,       \* is the artifact mapped?
  retired,      \* retire_artifacts has returned OK since the last revalidation
  poisoned,     \* invalidate_artifacts came while these frames were in flight
  state         \* live, destroyed, or trapped: the bridge aborted the process

bridge == <<admission, owner, leases, transitions, entered, isolate, handle, observing, roots>>
binding == <<core, valid, quiescing, generation, transition>>
calls == <<listener, frames, mutator>>
rest == <<mapped, retired, poisoned, state>>
vars == <<bridge, binding, calls, host, rest>>

Live == state = "live"

-----------------------------------------------------------------------------
(* What the checks of the bridge look at.                                  *)

Stubs == {"entering", "leaving"}

(* A safepoint stub runs under both mutexes.                               *)
AdapterMutexFree == mutator \notin Stubs
ArtifactMutexFree == mutator \notin Stubs /\ ~observing

(* VmAdapterCheckQuiescent; a subscription holds one reference as long as  *)
(* it is active or a frame has captured it.                                *)
Idle ==
  /\ listener = "none" /\ leases = 0 /\ transitions = 0 /\ entered = 0
  /\ isolate = None /\ handle = "none" /\ ~observing

(* CheckAttachedOwnerLocked: a free adapter is taken by the caller.        *)
MayOwn(t) == owner \in {None, t}

Top == frames[Len(frames)]

WithTop(n) == [frames EXCEPT ![Len(frames)] = n]

(* The thread runs native code and has the isolate.                        *)
HasIsolate(t) ==
  IF t = Mutator THEN mutator \in {"ffi", "native"} ELSE isolate = t

(* Scopes and handles are also given to calls that were admitted before.   *)
Admitted == admission \/ transitions # 0

(* Mutant: the ownership is given back although roots are still pinned.    *)
EarlyOwnerMutant(l, x, e) == IF isolate = None THEN None ELSE owner

(* Who owns the adapter once only these leases, transitions and scopes are *)
(* left.                                                                   *)
OwnerWith(l, x, e) ==
  IF l = 0 /\ x = 0 /\ e = 0 /\ isolate = None THEN None ELSE owner

-----------------------------------------------------------------------------
(* The engine runs the isolate on the mutator, or lets a worker have it.   *)

Schedule ==
  /\ Live /\ mutator = "out" /\ isolate = None
  /\ mutator' = "generated"
  /\ UNCHANGED <<bridge, binding, listener, frames, host, rest>>

Unschedule ==
  /\ Live /\ mutator = "generated" /\ frames = <<>>
  /\ mutator' = "out"
  /\ UNCHANGED <<bridge, binding, listener, frames, host, rest>>

FfiCall ==
  /\ Live /\ mutator = "generated"
  /\ mutator' = "ffi"
  /\ UNCHANGED <<bridge, binding, listener, frames, host, rest>>

FfiReturn ==
  /\ Live /\ mutator = "ffi" /\ entered = 0 /\ ~observing
  /\ mutator' = "generated"
  /\ UNCHANGED <<bridge, binding, listener, frames, host, rest>>

-----------------------------------------------------------------------------
(* Subscriptions and hooked calls.                                         *)

(* InstallCallbackHook, AddCallbackListener: under the registry's mutex.   *)
Subscribe ==
  /\ Live /\ AdapterMutexFree /\ admission /\ listener = "none"
  /\ listener' = "active"
  /\ UNCHANGED <<bridge, binding, frames, mutator, host, rest>>

Dropped == IF frames = <<>> THEN "none" ELSE "removed"

Unsubscribe ==
  /\ Live /\ AdapterMutexFree /\ listener = "active"
  /\ listener' = Dropped
  /\ UNCHANGED <<bridge, binding, frames, mutator, host, rest>>

(* The snapshot of a call takes the subscriptions whose adapter admits.    *)
BeginInvocation ==
  /\ Live /\ mutator = "generated" /\ listener = "active" /\ admission
  /\ Len(frames) < MaxDepth
  /\ frames' = Append(frames, 0)
  /\ UNCHANGED <<bridge, binding, listener, mutator, host, rest>>

(* Mutant: the slots of a refused lease are not given back.                *)
RootsAfterMutant(n) == roots + n

(* Root slots in use after PinGeneratedRoots asked for n.                  *)
RootsAfter(n) ==
  IF roots + n <= RootSlots /\ leases < RootLeases THEN roots + n ELSE roots

(* PinGeneratedRoots takes n slots or none, and the adapter in any case.   *)
Pin(n) ==
  /\ Live /\ mutator = "generated" /\ frames # <<>> /\ Top = 0
  /\ MayOwn(Mutator) /\ transitions = 0 /\ entered = 0 /\ ~observing
  /\ owner' = Mutator
  /\ roots' = RootsAfter(n)
  /\ IF roots + n <= RootSlots /\ leases < RootLeases
       THEN frames' = WithTop(n) /\ leases' = leases + 1
       ELSE UNCHANGED <<frames, leases>>
  /\ UNCHANGED <<admission, transitions, entered, isolate, handle, observing,
                 binding, listener, mutator, host, rest>>

(* UnpinGeneratedRoots, from generated state only.                         *)
Unpin ==
  /\ Live /\ mutator = "generated" /\ frames # <<>> /\ Top > 0
  /\ MayOwn(Mutator) /\ transitions = 0 /\ entered = 0 /\ ~observing
  /\ frames' = WithTop(0)
  /\ roots' = roots - Top
  /\ leases' = leases - 1
  /\ owner' = OwnerWith(leases - 1, 0, 0)
  /\ UNCHANGED <<admission, transitions, entered, isolate, handle, observing,
                 binding, listener, mutator, host, rest>>

(* EnterGeneratedToNative: the artifact is valid; the transition is proved *)
(* with its first use in a generation.                                     *)
Enter ==
  /\ Live /\ mutator = "generated" /\ frames # <<>> /\ leases > 0
  /\ MayOwn(Mutator) /\ transitions = 0 /\ entered = 0
  /\ ArtifactMutexFree /\ valid
  /\ mutator' = "entering" /\ transition' = TRUE
  /\ owner' = Mutator
  /\ UNCHANGED <<admission, leases, transitions, entered, isolate, handle, observing, roots,
                 core, valid, quiescing, generation, listener, frames, host, rest>>

Entered ==
  /\ Live /\ mutator = "entering"
  /\ mutator' = "native" /\ transitions' = transitions + 1
  /\ UNCHANGED <<admission, owner, leases, entered, isolate, handle, observing, roots,
                 binding, listener, frames, host, rest>>

(* LeaveNativeToGenerated wants the same verified and valid binding.       *)
MayLeave == valid /\ transition

(* A refusal is fatal: FatalGeneratedBridgeFailure.                        *)
Leave ==
  /\ Live /\ mutator = "native" /\ transitions # 0 /\ leases # 0
  /\ ~observing /\ owner = Mutator /\ entered = 0
  /\ IF MayLeave
       THEN mutator' = "leaving" /\ UNCHANGED state
       ELSE state' = "trapped" /\ UNCHANGED mutator
  /\ UNCHANGED <<bridge, binding, listener, frames, host, mapped, retired, poisoned>>

Left ==
  /\ Live /\ mutator = "leaving"
  /\ mutator' = "generated" /\ transitions' = transitions - 1
  /\ UNCHANGED <<admission, owner, leases, entered, isolate, handle, observing, roots,
                 binding, listener, frames, host, rest>>

(* The last frame of a removed subscription gives its reference back.      *)
EndInvocation ==
  /\ Live /\ mutator = "generated" /\ frames # <<>> /\ Top = 0
  /\ frames' = SubSeq(frames, 1, Len(frames) - 1)
  /\ listener' = IF listener = "removed" /\ Len(frames) = 1 THEN "none" ELSE listener
  /\ poisoned' = (poisoned /\ Len(frames) > 1)
  /\ UNCHANGED <<bridge, binding, mutator, host, mapped, retired, state>>

-----------------------------------------------------------------------------
(* The isolate, scopes, handles, proofs and observations.                  *)

(* dartplant_vm_enter_isolate; Dart_EnterIsolate needs a free isolate.     *)
EnterIsolate(w) ==
  /\ Live /\ AdapterMutexFree /\ mutator = "out"
  /\ admission /\ MayOwn(w) /\ entered = 0 /\ isolate = None /\ ~observing
  /\ isolate' = w /\ owner' = w
  /\ UNCHANGED <<admission, leases, transitions, entered, handle, observing, roots,
                 binding, calls, host, rest>>

LeaveIsolate(w) ==
  /\ Live /\ AdapterMutexFree /\ isolate = w /\ entered = 0 /\ owner = w
  /\ isolate' = None /\ owner' = None
  /\ UNCHANGED <<admission, leases, transitions, entered, handle, observing, roots,
                 binding, calls, host, rest>>

(* The thread has the isolate: the code takes the ownership before it      *)
(* learns that it has not.                                                 *)
EnterScope(t) ==
  /\ Live /\ AdapterMutexFree /\ HasIsolate(t)
  /\ Admitted /\ ~observing /\ entered = 0
  /\ entered' = 1 /\ owner' = t
  /\ UNCHANGED <<admission, leases, transitions, isolate, handle, observing, roots,
                 binding, calls, host, rest>>

(* A client does not leave the scope in which it observes the heap.        *)
LeaveScope(t) ==
  /\ Live /\ AdapterMutexFree /\ entered # 0 /\ owner = t /\ ~observing
  /\ entered' = entered - 1
  /\ owner' = OwnerWith(leases, transitions, entered - 1)
  /\ UNCHANGED <<admission, leases, transitions, isolate, handle, observing, roots,
                 binding, calls, host, rest>>

(* VmAdapterRetainObject: a strong handle keeps a root slot, a weak one    *)
(* only needs one for a moment.                                            *)
RetainObject(t, strength) ==
  /\ Live /\ AdapterMutexFree /\ handle = "none"
  /\ Admitted /\ entered # 0 /\ owner = t
  /\ roots < RootSlots
  /\ handle' = strength
  /\ roots' = IF strength = "strong" THEN roots + 1 ELSE roots
  /\ UNCHANGED <<admission, owner, leases, transitions, entered, isolate, observing,
                 binding, calls, host, rest>>

(* Any thread may give a handle back.                                      *)
ReleaseObject ==
  /\ Live /\ AdapterMutexFree /\ handle # "none"
  /\ handle' = "none"
  /\ roots' = IF handle = "strong" THEN roots - 1 ELSE roots
  /\ UNCHANGED <<admission, owner, leases, transitions, entered, isolate, observing,
                 binding, calls, host, rest>>

(* VmAdapterProveCapability; only a valid artifact that is not quiescing   *)
(* proves anything.                                                        *)
Prove ==
  /\ Live /\ mutator = "ffi" /\ admission /\ MayOwn(Mutator) /\ ~observing
  /\ ArtifactMutexFree /\ valid /\ ~quiescing
  /\ core' = generation
  /\ UNCHANGED <<bridge, valid, quiescing, generation, transition, calls, host, rest>>

(* In a hooked call and in a scope, or in an FFI call outside any scope.   *)
Nested == transitions = 1 /\ leases # 0 /\ entered # 0
Standalone == transitions = 0 /\ entered = 0

BeginLiveHeapObservation ==
  /\ Live /\ mutator \in {"ffi", "native"} /\ admission
  /\ (Nested \/ Standalone) /\ isolate = None /\ ~observing
  /\ MayOwn(Mutator) /\ valid
  /\ observing' = TRUE /\ owner' = Mutator
  /\ UNCHANGED <<admission, leases, transitions, entered, isolate, handle, roots,
                 binding, calls, host, rest>>

(* The end is not refused to a closed adapter.                             *)
EndLiveHeapObservation ==
  /\ Live /\ observing
  /\ observing' = FALSE
  /\ owner' = OwnerWith(leases, transitions, entered)
  /\ UNCHANGED <<admission, leases, transitions, entered, isolate, handle, roots,
                 binding, calls, host, rest>>

-----------------------------------------------------------------------------
(* The artifact functions.                                                 *)

At(h, step) == host[h] = step
Goto(h, step) == host' = [host EXCEPT ![h] = step]

(* InvalidateArtifactBindingLocked                                         *)
InvalidateBinding ==
  /\ valid' = FALSE /\ transition' = FALSE
  /\ generation' = generation + 1

CloseForInvalidate(h) ==
  /\ Live /\ At(h, "idle") /\ generation < MaxGeneration
  /\ admission' = FALSE
  /\ Goto(h, "closed")
  /\ UNCHANGED <<owner, leases, transitions, entered, isolate, handle, observing, roots,
                 binding, calls, rest>>

(* Mutant: the poison does not wait for a running stub.                    *)
MayPoisonMutant == TRUE

MayPoison == ArtifactMutexFree

Poison(h) ==
  /\ Live /\ At(h, "closed") /\ MayPoison
  /\ quiescing' = TRUE /\ InvalidateBinding
  /\ poisoned' = (frames # <<>>)
  /\ Goto(h, "poisoned")
  /\ UNCHANGED <<bridge, core, calls, mapped, retired, state>>

(* Mutant: the core goes on to serve the proofs it has.                    *)
ForgottenMutant == core

Forgotten == 0

(* VmAdapterInvalidateAbiBinding, after a poison and after a retirement.   *)
ForgetProofs(h) ==
  /\ Live /\ host[h] \in {"poisoned", "retiring"} /\ AdapterMutexFree
  /\ core' = Forgotten
  /\ retired' = (retired \/ At(h, "retiring"))
  /\ Goto(h, "idle")
  /\ UNCHANGED <<bridge, valid, quiescing, generation, transition, calls,
                 mapped, poisoned, state>>

(* quiesce_artifacts, alone or as the first part of retire_artifacts.      *)
StartQuiescing(h, operation) ==
  /\ Live /\ At(h, "idle") /\ ArtifactMutexFree /\ generation < MaxGeneration
  /\ quiescing' = TRUE
  /\ Goto(h, operation)
  /\ UNCHANGED <<bridge, core, valid, generation, transition, calls, rest>>

(* Mutant: the sweep closes admission only for subscriptions it removes.   *)
AdmissionAfterSweepMutant == admission /\ listener = "none"

AdmissionAfterSweep == FALSE

SweptStep(h) == IF At(h, "quiesce") THEN "quiesce swept" ELSE "retire swept"

(* QuiesceVmAdapterHooks; the host may fail to unhook, which ends the      *)
(* operation with the subscription gone.                                   *)
SweepHooks(h) ==
  /\ Live /\ host[h] \in {"quiesce", "retire"} /\ AdapterMutexFree
  /\ admission' = AdmissionAfterSweep
  /\ listener' = IF listener = "active" THEN Dropped ELSE listener
  /\ \/ Goto(h, SweptStep(h))
     \/ listener = "active" /\ Goto(h, "idle")
  /\ UNCHANGED <<owner, leases, transitions, entered, isolate, handle, observing, roots,
                 binding, frames, mutator, rest>>

(* Mutant: scopes, the isolate and handles are not looked at.              *)
QuiescentMutant == listener = "none" /\ leases = 0 /\ transitions = 0

Quiescent == Idle

CheckQuiescent(h) ==
  /\ Live /\ host[h] \in {"quiesce swept", "retire swept"} /\ AdapterMutexFree
  /\ Goto(h, IF Quiescent /\ At(h, "retire swept") THEN "checked" ELSE "idle")
  /\ UNCHANGED <<bridge, binding, calls, rest>>

(* A binding that is already poisoned is retired as it is.                 *)
Retire(h) ==
  /\ Live /\ At(h, "checked") /\ ArtifactMutexFree
  /\ IF valid
       THEN InvalidateBinding /\ Goto(h, "retiring") /\ UNCHANGED retired
       ELSE Goto(h, "idle") /\ retired' = TRUE
            /\ UNCHANGED <<valid, transition, generation>>
  /\ UNCHANGED <<bridge, core, quiescing, calls, mapped, poisoned, state>>

(* revalidate_artifacts, all of it under artifact_mutex.  The same         *)
(* incarnation must be mapped; its roots can be proved only while the      *)
(* mutator runs the isolate.  A failure leaves the admission as it was.    *)
Revalidate(h) ==
  /\ Live /\ At(h, "idle") /\ ArtifactMutexFree
  /\ ~(quiescing /\ valid)
  /\ IF mapped /\ mutator # "out"
       THEN /\ valid' = TRUE /\ quiescing' = FALSE
            /\ admission' = TRUE
            /\ retired' = FALSE
       ELSE valid' = FALSE /\ UNCHANGED <<quiescing, admission, retired>>
  /\ UNCHANGED <<owner, leases, transitions, entered, isolate, handle, observing, roots,
                 core, generation, transition, calls, host, mapped, poisoned, state>>

(* dartplant_flutter_vm_adapter_destroy, on the thread of the isolate and  *)
(* when no other thread uses the adapter.  ValidateCurrentOwner needs a    *)
(* binding, so a retired adapter has to be revalidated first.              *)
Destroy ==
  /\ Live /\ mutator = "ffi" /\ valid
  /\ \A h \in Hosts : At(h, "idle")
  /\ Idle
  /\ state' = "destroyed" /\ admission' = FALSE /\ owner' = None
  /\ UNCHANGED <<leases, transitions, entered, isolate, handle, observing, roots,
                 binding, calls, host, mapped, retired, poisoned>>

(* What a retired artifact is retired for: it is unmapped, and perhaps     *)
(* mapped again.                                                           *)
Remap ==
  /\ Live /\ retired
  /\ mapped' = ~mapped
  /\ UNCHANGED <<bridge, binding, calls, host, retired, poisoned, state>>

-----------------------------------------------------------------------------
Init ==
  /\ admission = TRUE /\ owner = None /\ leases = 0 /\ transitions = 0
  /\ entered = 0 /\ isolate = None /\ handle = "none" /\ observing = FALSE /\ roots = 0
  /\ core = 0 /\ valid = TRUE /\ quiescing = FALSE /\ generation = 1
  /\ transition = FALSE
  /\ listener = "none" /\ frames = <<>> /\ mutator = "ffi"
  /\ host = [h \in Hosts |-> "idle"]
  /\ mapped = TRUE /\ retired = FALSE /\ poisoned = FALSE /\ state = "live"

Engine == Schedule \/ Unschedule \/ FfiCall \/ FfiReturn

HookedCall ==
  \/ BeginInvocation \/ (\E n \in 1 .. RootSlots : Pin(n)) \/ Unpin
  \/ Enter \/ Entered \/ Leave \/ Left \/ EndInvocation

Client ==
  \/ Subscribe \/ Unsubscribe \/ ReleaseObject \/ Prove
  \/ BeginLiveHeapObservation \/ EndLiveHeapObservation
  \/ \E w \in Workers : EnterIsolate(w) \/ LeaveIsolate(w)
  \/ \E t \in Threads :
       EnterScope(t) \/ LeaveScope(t) \/ \E s \in {"strong", "weak"} : RetainObject(t, s)

Continue(h) ==
  Poison(h) \/ ForgetProofs(h) \/ SweepHooks(h) \/ CheckQuiescent(h) \/ Retire(h)

Artifacts(h) ==
  \/ CloseForInvalidate(h) \/ StartQuiescing(h, "quiesce") \/ StartQuiescing(h, "retire")
  \/ Revalidate(h) \/ Continue(h)

Next ==
  \/ Engine \/ HookedCall \/ Client \/ Destroy \/ Remap
  \/ \E h \in Hosts : Artifacts(h)

Spec == Init /\ [][Next]_vars

(* Operations that have begun run on; callbacks, bodies and FFI calls      *)
(* return, however often they use the adapter meanwhile; clients give back *)
(* what they hold.                                                         *)
Fairness ==
  /\ \A h \in Hosts : SF_vars(Continue(h))
  /\ WF_vars(Entered \/ Left \/ EndLiveHeapObservation)
  /\ WF_vars(ReleaseObject)
  /\ \A t \in Threads : SF_vars(LeaveScope(t))
  /\ \A w \in Workers : SF_vars(LeaveIsolate(w))
  /\ SF_vars(FfiReturn) /\ SF_vars(Leave) /\ SF_vars(Unpin) /\ SF_vars(EndInvocation)

FairSpec == Spec /\ Fairness

-----------------------------------------------------------------------------
(* Properties                                                              *)

HostSteps == {"idle", "closed", "poisoned", "quiesce", "quiesce swept",
              "retire", "retire swept", "checked", "retiring"}

(* The type of the state.                                                  *)
TypeOK ==
  /\ {admission, observing, valid, quiescing, transition, mapped, retired, poisoned}
       \subseteq BOOLEAN
  /\ owner \in Threads \cup {None} /\ isolate \in Workers \cup {None}
  /\ leases \in 0 .. RootLeases /\ roots \in 0 .. RootSlots
  /\ transitions \in 0 .. 1 /\ entered \in 0 .. 1
  /\ handle \in {"none", "strong", "weak"}
  /\ generation \in 1 .. MaxGeneration /\ core \in 0 .. generation
  /\ listener \in {"none", "active", "removed"}
  /\ frames \in Seq(0 .. RootSlots)
  /\ mutator \in {"out", "generated", "ffi", "native"} \cup Stubs
  /\ host \in [Hosts -> HostSteps]
  /\ state \in {"live", "destroyed", "trapped"}

(* flutter_vm.h: "DARTPLANT_OK means old AOT artifact code is no longer    *)
(* reachable through DartPlant hooks/transitions and may be unmapped": from *)
(* then on, and in a destroyed adapter, nobody is inside, no subscription  *)
(* is left and every root slot is free.                                    *)
RetiredIsIdle ==
  retired \/ state = "destroyed" => Idle /\ frames = <<>> /\ roots = 0

(* No thread runs a safepoint stub, or observes the heap, of an artifact   *)
(* that is poisoned or not mapped, although the mutexes are not common to  *)
(* those who check and those who unmap (EnterGeneratedToNative: "Immediate *)
(* invalidation therefore cannot return while a thread is still inside").  *)
StubsUseValidArtifact ==
  mutator \in Stubs \/ observing => mapped /\ valid

(* flutter_vm.h: "The bound artifact remains valid so already admitted     *)
(* callbacks can finish their generated/native transitions safely": only a *)
(* poison makes the bridge refuse a callback its way back.                 *)
AdmittedCanFinish ==
  transitions # 0 /\ ~poisoned => valid /\ transition

(* What was admitted works on a valid artifact, and is let finish.         *)
AdmittedIsServed == TypeOK /\ StubsUseValidArtifact /\ AdmittedCanFinish

(* A proof that the core serves is one of the current artifact generation  *)
(* (VmAdapterGetCapabilityBinding compares generations with those of the   *)
(* core only, never with the adapter's).                                   *)
ServedProofIsCurrent ==
  admission /\ core # 0 => core = generation

(* An adapter that admits nobody and whose subscription is removed becomes *)
(* quiescent, so that a retirement that is repeated succeeds.              *)
ClosedDrains ==
  ~admission /\ listener # "active" ~> (Idle \/ admission \/ ~Live)
=============================================================================
