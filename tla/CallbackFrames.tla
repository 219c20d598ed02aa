---------------------------- MODULE CallbackFrames ----------------------------
(***************************************************************************)
(* Hooked Dart calls as their threads see them: the dispatch stack of each *)
(* thread, the Dart stack it has to mirror, and the bridge that a frame    *)
(* with callbacks crosses between generated and native state of the VM.    *)
(* The bridge is one DartPlantVmAdapter, shared by the threads of an       *)
(* isolate group and by threads that only use the library's functions.     *)
(*                                                                         *)
(* A step is one section under adapter->mutex or one callback.  The        *)
(* sections of functions that only try the lock take two steps, so that    *)
(* another thread may come in between and find the lock taken.             *)
(***************************************************************************)
EXTENDS Integers, Sequences, FiniteSets, SequencesExt

CONSTANTS
  Threads,    \* threads that run Dart code of the isolate group
  Home,       \* the one whose VM thread the adapter was created for
  Workers,    \* threads that only use the library
  None,       \* no thread
  Kinds,      \* what is called: "bound" to the adapter or "offline"
  MaxDepth,   \* kMaxInvocationDepth
  MaxLeases,  \* kLeaseCount
  MaxCalls    \* bound of this model: activations on one Dart stack

ASSUME FramesAssumption ==
  /\ IsFiniteSet(Threads) /\ IsFiniteSet(Workers) /\ Threads \cap Workers = {}
  /\ Home \in Threads /\ None \notin Threads \cup Workers
  /\ Kinds \subseteq {"bound", "offline"}
  /\ MaxDepth \in Nat \ {0} /\ MaxLeases \in Nat \ {0} /\ MaxCalls \in Nat \ {0}

VARIABLES
  adapter,    \* DartPlantVmAdapter
  subscribed, \* is the listener of the adapter's hook active?
  other,      \* is there an idle listener of another hook on the adapter?
  quiescent,  \* VmAdapterCheckQuiescent returned OK since admission closed
  calls,      \* the Dart stack of each thread
  frames,     \* its DispatchStack
  pc,         \* what each thread is doing
  handler     \* where the exception a thread has thrown is caught

vars == <<adapter, subscribed, other, quiescent, calls, frames, pc, handler>>

Everyone == Threads \cup Workers

AdapterType ==
  [mutex : Everyone \cup {None}, owner_thread : Threads \cup {None},
   admission_open : BOOLEAN, hook_refs : 0..2, live_handles : 0..1,
   generated_root_leases : 0..MaxLeases, generated_native_transitions : 0..1,
   entered : 0..1, observer : Threads \cup {None}]

(* tracked  does the dispatcher keep a frame for the call?                 *)
(* invoked  was it called by a callback, or by the embedder?               *)
CallType == [tracked : BOOLEAN, invoked : BOOLEAN]

(* enter      until the on_enter callbacks are done                        *)
(* body       the original runs                                            *)
(* return     FinishFrame gives back the roots of the arguments            *)
(* leave      FinishFrame goes on to the on_leave callbacks                *)
(* finished   after them                                                   *)
(* failed     the setup failed, the call goes on without a frame           *)
(* exception  AbandonFrame                                                 *)
Phases == {"enter", "body", "return", "leave", "finished", "failed", "exception"}

(* at         the activation it belongs to: LR, SPREG and FP of the entry  *)
(* bound      does it use the adapter?  generated_root_count # 0           *)
(* listening  is entered_listeners not empty?                              *)
(* ran, told  has on_enter run, and one of on_leave and on_exception?      *)
(* lease      generated_root_lease # nullptr                               *)
(* bridge     vm_scope_entered and generated_vm_bridge_active              *)
(* native     invoke_original_native_frame # 0                             *)
(* called     original_called                                              *)
FrameType ==
  [at : 1..MaxCalls, bound : BOOLEAN, listening : BOOLEAN, phase : Phases,
   ran : BOOLEAN, told : BOOLEAN, skip_original : BOOLEAN, lease : BOOLEAN,
   bridge : BOOLEAN, native : BOOLEAN, called : BOOLEAN]

Places == {"dart", "observe", "pin", "pinning", "cross", "crossing", "ensure", "callback",
           "inspect", "uncross", "unpin", "unpinning", "retire", "unwind", "trapped",
           "api", "retaining", "releasing", "freeing", "checking"}

-----------------------------------------------------------------------------
(* The dispatch stack                                                      *)

Top(t) == Last(frames[t])
TopIndex(t) == Len(frames[t])

(* Mutant: the frame on top is taken for that of the activation.           *)
OwnsReturnOnTop(t) == frames[t] # <<>>

(* CurrentFrame and the tests of dartplant_arm64_dispatch_return_from_payload: *)
(* is the frame on top that of the activation that returns?                *)
OwnsReturn(t) == frames[t] # <<>> /\ Top(t).at = Len(calls[t])

(* Addresses of the Dart stack, which grows downward: the frame pointer of *)
(* activation d, and the stack pointer at the entry of activation d + 1.   *)
FramePointer(d) == 2 * (MaxCalls - d) + 2
EntrySp(d) == FramePointer(d) - 1

(* Mutant: the caller's own frame does not count as left.                  *)
UnwoundBeyond(f, target) ==
  \/ target.fp > FramePointer(f.at - 1)
  \/ target.sp > FramePointer(f.at - 1)

(* dartplant_arm64_dispatch_exception_unwind: has the exception left the   *)
(* activation of frame f?                                                  *)
Unwound(f, target) ==
  \/ target.fp >= FramePointer(f.at - 1)
  \/ target.sp > EntrySp(f.at - 1)

(* The outermost activation between the top of the stack and native code.  *)
LastInvoked(t) == CHOOSE i \in DOMAIN calls[t] :
                    /\ calls[t][i].invoked
                    /\ \A j \in (i + 1)..Len(calls[t]) : ~calls[t][j].invoked

(* Who goes on when activation i has ended?                                *)
CallerOf(t, i) == IF calls[t][i].invoked /\ i > 1 THEN "callback" ELSE "dart"

-----------------------------------------------------------------------------
(* The adapter                                                             *)

(* Mutant: any thread may go on.                                           *)
MayOwnAny(t) == TRUE

(* The owner test of CheckAttachedOwnerLocked.                             *)
MayOwn(t) == adapter.owner_thread \in {None, t}

(* Common to pin, unpin and enter_generated_to_native.                     *)
InGeneratedState ==
  /\ adapter.generated_native_transitions = 0
  /\ adapter.entered = 0
  /\ adapter.observer = None

Free == adapter.mutex = None
Lock(t) == Free /\ adapter' = [adapter EXCEPT !.mutex = t]

(* VmAdapterPinGeneratedRoots, holding the lock.  A refused pin may leave  *)
(* its thread as the owner.                                                *)
MayPin(t) == MayOwn(t) /\ InGeneratedState /\ adapter.generated_root_leases < MaxLeases
Pinned(t) == [adapter EXCEPT !.mutex = None, !.owner_thread = t, !.generated_root_leases = @ + 1]
NotPinned(t) == [adapter EXCEPT !.mutex = None, !.owner_thread = IF MayOwn(t) THEN t ELSE @]

(* VmAdapterEnterGeneratedToNative: the adapter knows one VM thread.       *)
MayCross(t) == MayOwn(t) /\ InGeneratedState /\ t = Home

(* Mutant: the owner is not cleared with the last lease.                   *)
UnpinnedOwned(t) ==
  [adapter EXCEPT !.mutex = None, !.generated_root_leases = @ - 1, !.owner_thread = t]

(* VmAdapterUnpinGeneratedRoots.                                           *)
Unpinned(t) ==
  [adapter EXCEPT !.mutex = None,
                  !.generated_root_leases = @ - 1,
                  !.owner_thread = IF adapter.generated_root_leases = 1 THEN None ELSE t]

(* Frames that still count the adapter's listener as in flight.            *)
Listening == {c \in Threads \X (1..MaxCalls) :
                c[2] \in DOMAIN frames[c[1]] /\ frames[c[1]][c[2]].bound}

(* VmAdapterCheckQuiescent.                                                *)
AdapterIdle ==
  /\ adapter.hook_refs = 0 /\ adapter.generated_root_leases = 0
  /\ adapter.generated_native_transitions = 0 /\ adapter.entered = 0
  /\ adapter.live_handles = 0 /\ adapter.observer = None

(* The process lives until a thread reaches FatalGeneratedBridgeFailure.   *)
Alive == \A t \in Threads : pc[t] # "trapped"

Init ==
  /\ adapter = [mutex |-> None, owner_thread |-> None, admission_open |-> TRUE,
                hook_refs |-> 1, live_handles |-> 0, generated_root_leases |-> 0,
                generated_native_transitions |-> 0, entered |-> 0, observer |-> None]
  /\ subscribed = TRUE /\ other = FALSE /\ quiescent = FALSE
  /\ calls = [t \in Threads |-> <<>>]
  /\ frames = [t \in Threads |-> <<>>]
  /\ pc = [t \in Everyone |-> IF t \in Threads THEN "dart" ELSE "api"]
  /\ handler = [t \in Threads |-> [fp |-> 0, sp |-> 0, depth |-> 0]]

Goto(t, place) == pc' = [pc EXCEPT ![t] = place]
UnchangedHooks == UNCHANGED <<subscribed, other, quiescent>>
UnchangedStacks == UNCHANGED <<calls, frames, handler>>

-----------------------------------------------------------------------------
(* dartplant_arm64_dispatch_enter                                          *)

(* Is there room for a call, and is it made from native code?              *)
Called(t, tracked) ==
  /\ pc[t] \in {"dart", "callback"}
  /\ pc[t] = "callback" => Top(t).listening
  /\ Len(calls[t]) < MaxCalls
  /\ calls' = [calls EXCEPT ![t] =
                 Append(@, [tracked |-> tracked, invoked |-> pc[t] = "callback" \/ @ = <<>>])]

(* The hook is inactive, BeginInvocation refuses the call, the stack is    *)
(* full or there is none: the original runs without a frame.               *)
PassThrough(t) ==
  /\ Called(t, FALSE)
  /\ Goto(t, "dart")
  /\ UNCHANGED <<adapter, frames, handler>> /\ UnchangedHooks

(* Mutant: the frame is pushed although the stack is full.                *)
AlwaysRoom(t) == TRUE

(* stack->depth < kMaxInvocationDepth.                                     *)
HasRoom(t) == Len(frames[t]) < MaxDepth

(* Mutant: a listener of the snapshot is entered whatever became of it.    *)
MayEnterAlways(kind) == TRUE

(* BeginInvocation: is the listener active and its adapter open?           *)
MayEnter(kind) == kind = "bound" => subscribed /\ adapter.admission_open

(* BeginInvocation has counted the call; listening says whether it left a  *)
(* listener to enter.                                                      *)
PushFrame(t, kind, listening) ==
  /\ HasRoom(t)
  /\ listening => MayEnter(kind)
  /\ Called(t, TRUE)
  /\ frames' = [frames EXCEPT ![t] =
                  Append(@, [at |-> Len(calls[t]) + 1,
                             bound |-> kind = "bound" /\ listening, listening |-> listening,
                             phase |-> "enter", ran |-> FALSE, told |-> FALSE,
                             skip_original |-> FALSE, lease |-> FALSE, bridge |-> FALSE,
                             native |-> FALSE, called |-> FALSE])]
  /\ Goto(t, IF kind = "bound" /\ listening THEN "pin" ELSE "ensure")
  /\ UNCHANGED <<adapter, handler>> /\ UnchangedHooks

(* EnsureArm64ExceptionBridge; the binding of a bound listener is valid    *)
(* only while admission is open.  Callbacks do not start without it.       *)
EnsureBridge(t) ==
  /\ pc[t] = "ensure"
  /\ \/ /\ Top(t).bound => Free /\ adapter.admission_open
        /\ Goto(t, "callback")
        /\ UNCHANGED frames
     \/ /\ frames' = [frames EXCEPT ![t][TopIndex(t)].phase = "failed"]
        /\ Goto(t, IF Top(t).bridge THEN "uncross" ELSE "retire")
  /\ UNCHANGED <<adapter, calls, handler>> /\ UnchangedHooks

-----------------------------------------------------------------------------
(* The bridge: PinGeneratedRoots, EnterGeneratedVmBridge,                  *)
(* LeaveGeneratedVmBridge and DropPersistentGeneratedRoots                 *)

TryLock(t, from, holding) ==
  /\ pc[t] = from
  /\ Lock(t)
  /\ Goto(t, holding)
  /\ UnchangedStacks /\ UnchangedHooks

(* Mutant: pinning is tried until it succeeds.                             *)
PinRefusedRetries(t) ==
  /\ Goto(t, "pin")
  /\ UNCHANGED <<calls, frames, handler>> /\ UnchangedHooks

(* The roots are not pinned.  Before the callbacks the call goes on        *)
(* without them, after them it is too late for on_leave, and the arguments *)
(* of an original that is about to run cannot do without.                  *)
PinRefused(t) ==
  /\ frames' = [frames EXCEPT ![t][TopIndex(t)].phase =
                  CASE @ = "enter" -> "failed" [] @ = "leave" -> "finished" [] OTHER -> @]
  /\ Goto(t, IF Top(t).phase = "body" THEN "trapped" ELSE "retire")
  /\ UNCHANGED <<calls, handler>> /\ UnchangedHooks

PinBusy(t) ==
  /\ pc[t] = "pin" /\ ~Free
  /\ PinRefused(t)
  /\ UNCHANGED adapter

Pin(t) ==
  /\ pc[t] = "pinning" /\ MayPin(t)
  /\ adapter' = Pinned(t)
  /\ frames' = [frames EXCEPT ![t][TopIndex(t)].lease = TRUE]
  /\ Goto(t, IF Top(t).phase = "body" THEN "dart" ELSE "cross")
  /\ UNCHANGED <<calls, handler>> /\ UnchangedHooks

PinFails(t) ==
  /\ pc[t] = "pinning" /\ ~MayPin(t)
  /\ adapter' = NotPinned(t)
  /\ PinRefused(t)

CrossRefused(t) ==
  /\ frames' = [frames EXCEPT ![t][TopIndex(t)].phase =
                  IF @ = "enter" THEN "failed" ELSE "finished"]
  /\ Goto(t, "unpin")
  /\ UNCHANGED <<calls, handler>> /\ UnchangedHooks

CrossBusy(t) ==
  /\ pc[t] = "cross" /\ ~Free
  /\ CrossRefused(t)
  /\ UNCHANGED adapter

(* The transition, and dartplant_vm_enter_scope behind it, which a thread  *)
(* in transition is always admitted to.                                    *)
Cross(t) ==
  /\ pc[t] = "crossing" /\ MayCross(t)
  /\ adapter' = [adapter EXCEPT !.mutex = None, !.owner_thread = t, !.entered = @ + 1,
                                !.generated_native_transitions = @ + 1]
  /\ frames' = [frames EXCEPT ![t][TopIndex(t)].bridge = TRUE]
  /\ Goto(t, IF Top(t).phase = "enter" THEN "ensure" ELSE "callback")
  /\ UNCHANGED <<calls, handler>> /\ UnchangedHooks

CrossFails(t) ==
  /\ pc[t] = "crossing" /\ ~MayCross(t)
  /\ adapter' = [NotPinned(t) EXCEPT !.mutex = None]
  /\ CrossRefused(t)

(* dartplant_vm_leave_scope and VmAdapterLeaveNativeToGenerated.           *)
Uncross(t) ==
  /\ pc[t] = "uncross" /\ Free
  /\ IF adapter.owner_thread = t /\ adapter.entered = 1 /\ adapter.observer = None
     THEN /\ adapter' = [adapter EXCEPT !.entered = 0,
                                        !.generated_native_transitions = @ - 1]
          /\ frames' = [frames EXCEPT ![t][TopIndex(t)].bridge = FALSE]
          /\ Goto(t, "unpin")
     ELSE Goto(t, "trapped") /\ UNCHANGED <<adapter, frames>>
  /\ UNCHANGED <<calls, handler>> /\ UnchangedHooks

UnpinBusy(t) ==
  /\ pc[t] = "unpin" /\ ~Free
  /\ Goto(t, "trapped")
  /\ UNCHANGED adapter /\ UnchangedStacks /\ UnchangedHooks

(* Mutant: the arguments of the original are not pinned again.             *)
AfterUnpinForgets(f) ==
  CASE f.phase = "enter" /\ f.skip_original -> [phase |-> "leave", go |-> "pin"]
    [] f.phase = "enter" /\ ~f.skip_original -> [phase |-> "body", go |-> "dart"]
    [] f.phase = "return" -> [phase |-> "leave", go |-> "pin"]
    [] OTHER -> [phase |-> f.phase, go |-> "retire"]

(* What a frame does after its roots are given back.                       *)
AfterUnpin(f) ==
  CASE f.phase = "enter" /\ f.skip_original -> [phase |-> "leave", go |-> "pin"]
    [] f.phase = "enter" /\ ~f.skip_original -> [phase |-> "body", go |-> "pin"]
    [] f.phase = "return" -> [phase |-> "leave", go |-> "pin"]
    [] OTHER -> [phase |-> f.phase, go |-> "retire"]

Unpin(t) ==
  /\ pc[t] = "unpinning"
  /\ IF MayOwn(t) /\ InGeneratedState
     THEN /\ adapter' = Unpinned(t)
          /\ frames' = [frames EXCEPT ![t][TopIndex(t)].lease = FALSE,
                                      ![t][TopIndex(t)].phase = AfterUnpin(Top(t)).phase]
          /\ Goto(t, AfterUnpin(Top(t)).go)
     ELSE /\ adapter' = [NotPinned(t) EXCEPT !.mutex = None]
          /\ Goto(t, "trapped")
          /\ UNCHANGED frames
  /\ UNCHANGED <<calls, handler>> /\ UnchangedHooks

-----------------------------------------------------------------------------
(* Callbacks                                                               *)

(* The on_enter callbacks are done, and have skipped the original or not.  *)
(* A bridge is left before the original runs.                              *)
EnterDone(t, skip) ==
  LET f == Top(t)
      skipped == f.skip_original \/ (skip /\ f.listening)
  IN /\ pc[t] = "callback" /\ f.phase = "enter"
     /\ frames' = [frames EXCEPT ![t][TopIndex(t)] =
                     [f EXCEPT !.ran = f.listening, !.skip_original = skipped,
                               !.phase = CASE f.bridge -> "enter"
                                           [] ~f.bridge /\ skipped -> "leave"
                                           [] OTHER -> "body"]]
     /\ Goto(t, CASE f.bridge -> "uncross"
                  [] ~f.bridge /\ skipped -> "callback"
                  [] OTHER -> "dart")
     /\ UNCHANGED <<adapter, calls, handler>> /\ UnchangedHooks

(* Mutant: no on_leave for a call whose on_enter has skipped the original. *)
LeaveDoneUnlessSkipped(t) ==
  /\ pc[t] = "callback" /\ Top(t).phase = "leave"
  /\ frames' = [frames EXCEPT ![t][TopIndex(t)].told =
                  Top(t).listening /\ ~Top(t).skip_original,
                              ![t][TopIndex(t)].phase = "finished"]
  /\ Goto(t, IF Top(t).bridge THEN "uncross" ELSE "retire")
  /\ UNCHANGED <<adapter, calls, handler>> /\ UnchangedHooks

(* The on_leave callbacks of the listeners that entered are done.          *)
LeaveDone(t) ==
  /\ pc[t] = "callback" /\ Top(t).phase = "leave"
  /\ frames' = [frames EXCEPT ![t][TopIndex(t)].told = Top(t).listening,
                              ![t][TopIndex(t)].phase = "finished"]
  /\ Goto(t, IF Top(t).bridge THEN "uncross" ELSE "retire")
  /\ UNCHANGED <<adapter, calls, handler>> /\ UnchangedHooks

(* dartplant_invocation_call_original and                                  *)
(* dartplant_arm64_prepare_invoke_original_frame.                          *)
CallOriginal(t) ==
  LET f == Top(t)
  IN /\ pc[t] = "callback" /\ f.phase = "enter" /\ f.listening
     /\ ~f.called /\ ~f.bridge
     /\ frames' = [frames EXCEPT ![t][TopIndex(t)] =
                     [f EXCEPT !.native = TRUE, !.called = TRUE, !.ran = TRUE]]
     /\ Goto(t, "dart")
     /\ UNCHANGED <<adapter, calls, handler>> /\ UnchangedHooks

(* VmAdapterRetainObject; admission does not matter during a transition.   *)
RetainObject(t) ==
  /\ pc[t] = "callback" /\ Top(t).bridge
  /\ Free /\ adapter.entered = 1 /\ adapter.owner_thread = t /\ adapter.live_handles = 0
  /\ adapter' = [adapter EXCEPT !.live_handles = 1]
  /\ UNCHANGED pc /\ UnchangedStacks /\ UnchangedHooks

(* VmAdapterBeginLiveHeapObservation, by native code that Dart has called  *)
(* or in a callback behind the bridge.                                     *)
Observe(t) ==
  /\ \/ pc[t] = "dart" /\ adapter.generated_native_transitions = 0 /\ adapter.entered = 0
     \/ pc[t] = "callback" /\ Top(t).bridge
  /\ t = Home /\ Free /\ adapter.admission_open /\ adapter.observer = None /\ MayOwn(t)
  /\ adapter' = [adapter EXCEPT !.observer = t, !.owner_thread = t]
  /\ Goto(t, IF pc[t] = "dart" THEN "observe" ELSE "inspect")
  /\ UnchangedStacks /\ UnchangedHooks

(* VmAdapterEndLiveHeapObservation.                                        *)
EndObserve(t) ==
  /\ pc[t] \in {"observe", "inspect"} /\ Free /\ adapter.observer = t
  /\ adapter' = [adapter EXCEPT
                   !.observer = None,
                   !.owner_thread = IF /\ adapter.entered = 0
                                       /\ adapter.generated_root_leases = 0
                                       /\ adapter.generated_native_transitions = 0
                                    THEN None ELSE @]
  /\ Goto(t, IF pc[t] = "observe" THEN "dart" ELSE "callback")
  /\ UnchangedStacks /\ UnchangedHooks

-----------------------------------------------------------------------------
(* Returns and exceptions                                                  *)

(* dartplant_arm64_dispatch_return_from_payload, at every RET of a hooked  *)
(* function: the return of an activation without a frame passes through,   *)
(* that of a synchronous original goes back to the callback, and any other *)
(* starts FinishFrame.                                                     *)
Return(t) ==
  LET f == Top(t)
      here == Len(calls[t])
  IN /\ pc[t] = "dart" /\ here > 0
     /\ \/ /\ ~OwnsReturn(t)
           /\ calls' = [calls EXCEPT ![t] = Front(@)]
           /\ Goto(t, CallerOf(t, here))
           /\ UNCHANGED frames
        \/ /\ OwnsReturn(t) /\ f.native
           /\ frames' = [frames EXCEPT ![t][TopIndex(t)].native = FALSE,
                                       ![t][TopIndex(t)].skip_original = TRUE]
           /\ Goto(t, "callback")
           /\ UNCHANGED calls
        \/ /\ OwnsReturn(t) /\ ~f.native
           /\ frames' = [frames EXCEPT ![t][TopIndex(t)].phase =
                           IF f.lease THEN "return" ELSE "leave"]
           /\ Goto(t, CASE f.lease -> "unpin" [] f.bound /\ ~f.lease -> "pin" [] OTHER -> "callback")
           /\ UNCHANGED calls
     /\ UNCHANGED <<adapter, handler>> /\ UnchangedHooks

(* ReleaseSnapshot: does the adapter lose the reference of a listener that *)
(* was unhooked and has no other call in flight?                           *)
DropsHookRef(t) == Top(t).bound /\ ~subscribed /\ Cardinality(Listening) = 1

(* ReleaseSnapshot and --stack->depth.  A finished frame restores the      *)
(* registers of its entry, and so returns to the caller of that.           *)
Retire(t) ==
  LET f == Top(t)
  IN /\ pc[t] = "retire"
     /\ frames' = [frames EXCEPT ![t] = Front(@)]
     /\ IF DropsHookRef(t)
        THEN Free /\ adapter' = [adapter EXCEPT !.hook_refs = @ - 1]
        ELSE UNCHANGED adapter
     /\ CASE f.phase = "failed" ->
               /\ calls' = [calls EXCEPT ![t][f.at].tracked = FALSE]
               /\ Goto(t, "dart")
          [] f.phase = "finished" ->
               /\ calls' = [calls EXCEPT ![t] = SubSeq(@, 1, f.at - 1)]
               /\ Goto(t, CallerOf(t, f.at))
          [] f.phase = "exception" -> Goto(t, "unwind") /\ UNCHANGED calls
     /\ UNCHANGED handler /\ UnchangedHooks

(* JumpToFrame: Dart code throws, or a callback propagates an error.  The  *)
(* handler is in activation k or, for an error that nothing catches, in    *)
(* the code that has called Dart.                                          *)
Throw(t, k) ==
  /\ \/ pc[t] = "dart" /\ calls[t] # <<>>
     \/ pc[t] = "callback" /\ k < Len(calls[t])
  /\ k \in (LastInvoked(t) - 1)..Len(calls[t])
  /\ \E sp \in {FramePointer(k), FramePointer(k) - 1} :
        handler' = [handler EXCEPT ![t] = [fp |-> FramePointer(k), sp |-> sp, depth |-> k]]
  /\ Goto(t, "unwind")
  /\ UNCHANGED <<adapter, calls, frames>> /\ UnchangedHooks

(* dartplant_arm64_dispatch_exception_unwind: tell the listeners of the    *)
(* frame on top if the exception leaves it, and AbandonFrame; or be done.  *)
Unwind(t) ==
  LET f == Top(t)
      k == handler[t].depth
  IN /\ pc[t] = "unwind"
     /\ IF frames[t] # <<>> /\ Unwound(f, handler[t])
        THEN /\ frames' = [frames EXCEPT ![t][TopIndex(t)].phase = "exception",
                                         ![t][TopIndex(t)].told =
                                           f.listening /\ (f.bound => subscribed)]
             /\ Goto(t, CASE f.bridge -> "uncross"
                          [] ~f.bridge /\ f.lease -> "unpin"
                          [] OTHER -> "retire")
             /\ UNCHANGED <<calls, handler>>
        ELSE /\ calls' = [calls EXCEPT ![t] = SubSeq(@, 1, k)]
             /\ Goto(t, IF k > 0 /\ k = LastInvoked(t) - 1 THEN "callback" ELSE "dart")
             /\ handler' = [handler EXCEPT ![t] = [fp |-> 0, sp |-> 0, depth |-> 0]]
             /\ UNCHANGED frames
     /\ UNCHANGED adapter /\ UnchangedHooks

-----------------------------------------------------------------------------
(* Other threads, through the functions of the library                     *)

UnchangedThreads == UnchangedStacks /\ UNCHANGED quiescent

(* CreateListener and its end for another hook of the adapter: the lock is *)
(* held by VmAdapterRetainHook and VmAdapterReleaseHook.                   *)
RetainBegin(w) ==
  /\ pc[w] = "api" /\ adapter.admission_open /\ ~other
  /\ Lock(w) /\ Goto(w, "retaining")
  /\ UNCHANGED <<subscribed, other>> /\ UnchangedThreads

RetainEnd(w) ==
  /\ pc[w] = "retaining"
  /\ adapter' = [adapter EXCEPT !.mutex = None, !.hook_refs = @ + 1]
  /\ other' = TRUE /\ Goto(w, "api")
  /\ UNCHANGED subscribed /\ UnchangedThreads

ReleaseBegin(w) ==
  /\ pc[w] = "api" /\ other
  /\ Lock(w) /\ Goto(w, "releasing")
  /\ UNCHANGED <<subscribed, other>> /\ UnchangedThreads

ReleaseEnd(w) ==
  /\ pc[w] = "releasing"
  /\ adapter' = [adapter EXCEPT !.mutex = None, !.hook_refs = @ - 1]
  /\ other' = FALSE /\ Goto(w, "api")
  /\ UNCHANGED subscribed /\ UnchangedThreads

(* dartplant_object_release.                                               *)
FreeHandleBegin(w) ==
  /\ pc[w] = "api" /\ adapter.live_handles = 1
  /\ Lock(w) /\ Goto(w, "freeing")
  /\ UNCHANGED <<subscribed, other>> /\ UnchangedThreads

FreeHandleEnd(w) ==
  /\ pc[w] = "freeing"
  /\ adapter' = [adapter EXCEPT !.mutex = None,
                                !.live_handles = IF @ = 0 THEN 0 ELSE @ - 1]
  /\ Goto(w, "api")
  /\ UNCHANGED <<subscribed, other>> /\ UnchangedThreads

(* A new listener of the hook, its reference counted with it.              *)
Subscribe(w) ==
  /\ pc[w] = "api" /\ adapter.admission_open /\ ~subscribed /\ Listening = {} /\ Free
  /\ adapter' = [adapter EXCEPT !.hook_refs = @ + 1]
  /\ subscribed' = TRUE
  /\ UNCHANGED <<other, pc>> /\ UnchangedThreads

(* ReleaseListenerVmAdapterIfIdle of the listener of the hook.             *)
ReleasedIfIdle == IF subscribed /\ Listening = {} THEN 1 ELSE 0

(* QuiesceVmAdapterHooks: no new work, and every listener is unhooked.     *)
Quiesce(w) ==
  /\ pc[w] = "api" /\ adapter.admission_open /\ Free
  /\ adapter' = [adapter EXCEPT
                   !.admission_open = FALSE,
                   !.hook_refs = @ - ReleasedIfIdle - (IF other THEN 1 ELSE 0)]
  /\ subscribed' = FALSE /\ other' = FALSE
  /\ UNCHANGED pc /\ UnchangedThreads

(* VmAdapterCheckQuiescent, once no listener is in flight any more.        *)
CheckBegin(w) ==
  /\ pc[w] = "api" /\ ~adapter.admission_open /\ ~quiescent /\ Listening = {}
  /\ Lock(w) /\ Goto(w, "checking")
  /\ UNCHANGED <<subscribed, other>> /\ UnchangedThreads

CheckEnd(w) ==
  /\ pc[w] = "checking"
  /\ adapter' = [adapter EXCEPT !.mutex = None]
  /\ quiescent' = AdapterIdle
  /\ Goto(w, "api")
  /\ UNCHANGED <<subscribed, other>> /\ UnchangedStacks

(* dartplant_flutter_vm_adapter_revalidate_artifacts after a retirement.   *)
Reopen(w) ==
  /\ pc[w] = "api" /\ quiescent
  /\ adapter' = [adapter EXCEPT !.admission_open = TRUE]
  /\ quiescent' = FALSE
  /\ UNCHANGED <<subscribed, other, pc>> /\ UnchangedStacks

-----------------------------------------------------------------------------

Enter(t) ==
  \/ PassThrough(t)
  \/ \E kind \in Kinds, listening \in BOOLEAN : PushFrame(t, kind, listening)

(* What the dispatcher does without waiting for Dart or for a callback.    *)
Dispatch(t) ==
  \/ EnsureBridge(t)
  \/ TryLock(t, "pin", "pinning") \/ PinBusy(t) \/ Pin(t) \/ PinFails(t)
  \/ TryLock(t, "cross", "crossing") \/ CrossBusy(t) \/ Cross(t) \/ CrossFails(t)
  \/ Uncross(t)
  \/ TryLock(t, "unpin", "unpinning") \/ UnpinBusy(t) \/ Unpin(t)
  \/ Retire(t) \/ Unwind(t)

Callback(t) ==
  \/ \E skip \in BOOLEAN : EnterDone(t, skip)
  \/ LeaveDone(t) \/ CallOriginal(t) \/ RetainObject(t)

Observing(t) == Observe(t) \/ EndObserve(t)

Work(w) ==
  \/ RetainBegin(w) \/ RetainEnd(w) \/ ReleaseBegin(w) \/ ReleaseEnd(w)
  \/ FreeHandleBegin(w) \/ FreeHandleEnd(w)
  \/ Subscribe(w) \/ Quiesce(w) \/ CheckBegin(w) \/ CheckEnd(w) \/ Reopen(w)

Step(t) ==
  \/ Enter(t) \/ Dispatch(t) \/ Callback(t) \/ Observing(t)
  \/ Return(t)
  \/ \E k \in 0..MaxCalls : Throw(t, k)

Next == Alive /\ ((\E t \in Threads : Step(t)) \/ (\E w \in Workers : Work(w)))

Spec == Init /\ [][Next]_vars

-----------------------------------------------------------------------------
(* Properties                                                              *)

(* The types of the state.                                                 *)
TypeOK ==
  /\ adapter \in AdapterType
  /\ subscribed \in BOOLEAN /\ other \in BOOLEAN /\ quiescent \in BOOLEAN
  /\ \A t \in Threads : /\ Len(calls[t]) <= MaxCalls /\ Range(calls[t]) \subseteq CallType
                        /\ Len(frames[t]) <= MaxDepth /\ Range(frames[t]) \subseteq FrameType
  /\ pc \in [Everyone -> Places]
  /\ \A t \in Threads : handler[t].depth \in 0..MaxCalls

(* While Dart code runs, the dispatch stack holds one frame for each call  *)
(* that the dispatcher tracks, in the order of the calls: neither returns, *)
(* nor calls that passed through, nor exceptions that skip several hooked  *)
(* activations leave a frame behind or take one too many.                  *)
FramesMirrorCalls ==
  \A t \in Threads : pc[t] = "dart" =>
    /\ {frames[t][i].at : i \in DOMAIN frames[t]} = {d \in DOMAIN calls[t] : calls[t][d].tracked}
    /\ \A i, j \in DOMAIN frames[t] : i < j => frames[t][i].at < frames[t][j].at

(* A call that returns goes back to its own caller: finishing a frame      *)
(* restores the registers of the entry of the call that returns, never     *)
(* those of a call further out.                                            *)
ReturnsToCaller ==
  [][\A t \in Threads :
       pc[t] \in {"dart", "retire"} /\ Len(calls[t]') < Len(calls[t]) =>
         Len(calls[t]') = Len(calls[t]) - 1]_vars

(* Callbacks that entered are left, or told of the exception, before their *)
(* frame is gone (callback_dispatch.cpp:896).                              *)
TellsBeforeGone ==
  \A t \in Threads :
    Len(frames[t]') < Len(frames[t]) /\ Top(t).ran
      /\ (Top(t).phase = "exception" /\ Top(t).bound => subscribed)
    => Top(t).told

(* No callback ends in FatalGeneratedBridgeFailure: a call that was        *)
(* admitted finishes its transitions.                                      *)
NeverTraps == Alive

(* The roots of the arguments are pinned whenever native code may move     *)
(* objects under a call that uses the adapter: while its original runs and *)
(* in its callbacks.                                                       *)
RootsHeld ==
  \A t \in Threads : \A i \in DOMAIN frames[t] :
    LET f == frames[t][i]
        settled == i < TopIndex(t) \/ pc[t] \in {"dart", "callback", "observe", "inspect"}
    IN f.bound /\ settled /\ f.phase \in {"enter", "body", "leave"} => f.lease

(* Only one thread at a time is native on behalf of the adapter, the one   *)
(* it was created for, and the adapter's counters say so: a scope and a    *)
(* transition for the bridged frame, a lease for each frame with one, all  *)
(* of them of the owner.                                                   *)
CountersMatchFrames ==
  LET all == {c \in Threads \X (1..MaxDepth) : c[2] \in DOMAIN frames[c[1]]}
      bridged == {c \in all : frames[c[1]][c[2]].bridge}
      leased == {c \in all : frames[c[1]][c[2]].lease}
  IN /\ Cardinality(bridged) = adapter.generated_native_transitions
     /\ adapter.entered = adapter.generated_native_transitions
     /\ Cardinality(leased) = adapter.generated_root_leases
     /\ bridged \subseteq leased
     /\ \A c \in bridged : c[1] = Home
     /\ \A c \in leased : c[1] = adapter.owner_thread

(* The adapter does not stay with a thread that has nothing left to do     *)
(* with it, which would refuse it to every other thread for ever.          *)
OwnerHasWork ==
  adapter.owner_thread # None =>
    adapter.generated_root_leases > 0 \/ adapter.observer = adapter.owner_thread

(* After the adapter was found quiescent nothing begins on it before       *)
(* admission opens again: the artifacts can be retired.                    *)
QuiescentStaysIdle == quiescent => AdapterIdle

(* The dispatch stack and the adapter tell the truth about the Dart stack: *)
(* one frame per tracked activation, every root a frame needs pinned.      *)
FramesAgree == TypeOK /\ FramesMirrorCalls /\ RootsHeld

(* The adapter's counters and its owner agree with the frames, and once it *)
(* was found quiescent nothing of it is in use.                            *)
AdapterAgrees == CountersMatchFrames /\ OwnerHasWork /\ QuiescentStaysIdle
=============================================================================
