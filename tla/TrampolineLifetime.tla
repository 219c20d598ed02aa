------------------------- MODULE TrampolineLifetime -------------------------
(***************************************************************************)
(* What the publication gate promises about the original trampoline of one *)
(* hooked entry: the host may reclaim it only while no call that crossed   *)
(* the gate is using it, and a reclaimed trampoline is never used again.   *)
(* The README of the repository states the promise as "No stale gate fetch *)
(* can therefore use a backend trampoline after physical unhook".          *)
(***************************************************************************)
EXTENDS Naturals

CONSTANT Calls      \* the invocations that can run at once

VARIABLES
  trampoline,       \* "none" before the host built it, "live", or "freed"
  users             \* the calls that execute, or may still execute, it

tlVars == <<trampoline, users>>

Init ==
  /\ trampoline = "none"
  /\ users = {}

(* The host builds the trampoline before it can be used.                   *)
Build ==
  /\ trampoline = "none"
  /\ trampoline' = "live"
  /\ UNCHANGED users

(* A hook that was never published gives its trampoline back at once, and  *)
(* the entry may be hooked again later.                                    *)
Discard ==
  /\ trampoline = "live"
  /\ users = {}
  /\ trampoline' = "none"
  /\ UNCHANGED users

Use(k) ==
  /\ trampoline = "live"
  /\ users' = users \cup {k}
  /\ UNCHANGED trampoline

Done(k) ==
  /\ users' = users \ {k}
  /\ UNCHANGED trampoline

(* Physical unhook.                                                        *)
Reclaim ==
  /\ trampoline = "live"
  /\ users = {}
  /\ trampoline' = "freed"
  /\ UNCHANGED users

Next ==
  \/ Build
  \/ Discard
  \/ Reclaim
  \/ \E k \in Calls : Use(k) \/ Done(k)

Spec == Init /\ [][Next]_tlVars
=============================================================================
