---------------------------- MODULE MCHookListeners ----------------------------
(* Small instances of HookListeners for TLC.                               *)
EXTENDS HookListeners

CONSTANTS
  Home, Guest,  \* two owners of the same physical hook
  GuestParts    \* the listeners and the threads of Guest

OwnerFor(part) == IF part \in GuestParts THEN Guest ELSE Home

ListenerOwner == [l \in Listeners |-> OwnerFor(l)]
ThreadGroup   == [t \in Threads |-> OwnerFor(t)]

(* The guest's listeners go first, the home's are ordered by registration. *)
GuestFirst == [l \in Listeners |-> IF l \in GuestParts THEN 1 ELSE 0]
=============================================================================
