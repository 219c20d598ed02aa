---------------------------- MODULE MCProcessTraces ----------------------------
(***************************************************************************)
(* A small instance of ProcessTraces.  As its modules share no state, one  *)
(* of them moves in a behaviour, chosen at the start.                      *)
(***************************************************************************)
EXTENDS ProcessTraces

CONSTANTS h1, h2, h3, e1, e2, own1, both, own2   \* hooks, entries and RETs

VARIABLE part   \* which one moves

(* Two entries with one RET each of their own and one RET they share; the  *)
(* first entry can be hooked twice in turn.                                *)
TwoEntries == [h \in Hooks |-> IF h = h3 THEN e2 ELSE e1]
SharedReturn == [e \in Entries |-> IF e = e1 THEN {own1, both} ELSE {both, own2}]

MCInit ==
  /\ part \in {"returns", "dobby", "shadowhook", "loader", "sampling"}
  /\ TracesInit
  /\ part # "sampling" => claimed = [s \in Sampling!Signals |-> "default"]
  /\ part # "returns" => me = h1

MCNext ==
  /\ UNCHANGED part
  /\ \/ part = "returns"    /\ ReturnsMove
     \/ part = "dobby"      /\ DobbyMoves
     \/ part = "shadowhook" /\ ShadowMoves
     \/ part = "loader"     /\ LoaderMoves
     \/ part = "sampling"   /\ SamplerMoves

MCSpec == MCInit /\ [][MCNext]_<<part, tracesVars>>
===============================================================================
