--------------------------- MODULE MCCallbackFrames ---------------------------
(***************************************************************************)
(* Two settings of CallbackFrames for TLC, one chosen at the start.        *)
(* "deep": Home alone, calls of both kinds, long stacks.  "shared": two    *)
(* threads and a worker contend for the adapter, with short stacks.        *)
(***************************************************************************)
EXTENDS CallbackFrames

CONSTANTS SharedKinds, SharedDepth, SharedCalls  \* those of the second setting

VARIABLE setting

Shared == INSTANCE CallbackFrames
  WITH Kinds <- SharedKinds, MaxDepth <- SharedDepth, MaxCalls <- SharedCalls

Deep == setting = "deep" /\ Alive /\ UNCHANGED setting
DeepDispatch == Deep /\ Dispatch(Home)

MCInit == Init /\ setting \in {"deep", "shared"}

MCNext ==
  \/ Deep /\ Step(Home)
  \/ setting = "shared" /\ UNCHANGED setting /\ Shared!Next

(* A thread inside the dispatcher runs on; Dart code and callbacks may do  *)
(* what they like.                                                         *)
MCSpec == MCInit /\ [][MCNext]_<<vars, setting>> /\ WF_<<vars, setting>>(DeepDispatch)

(* Where nothing contends for the adapter, callbacks that entered are left *)
(* or told of the exception before their frame is gone.  A leave that only *)
(* tries the lock skips them when it is taken (callback_dispatch.cpp:896). *)
PairedCallbacks == [][setting = "deep" => TellsBeforeGone]_vars

(* A thread that nothing contends with and that entered the dispatcher     *)
(* comes out of it, to run Dart code or a callback.                        *)
DispatchEnds ==
  LET outside == {"dart", "callback", "observe", "inspect"}
  IN setting = "deep" => (pc[Home] \notin outside ~> pc[Home] \in outside)
===============================================================================
