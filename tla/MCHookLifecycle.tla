--------------------------- MODULE MCHookLifecycle ---------------------------
(* Small instances of HookLifecycle for TLC.                               *)
EXTENDS HookLifecycleInvariant, TLC

(* Threads are interchangeable; used in the runs without liveness.         *)
Threads == Permutations(CPUs)
=============================================================================
