------------------------------ MODULE MCEvidence ------------------------------
(***************************************************************************)
(* The three modules of Evidence in one run of TLC: which one moves is     *)
(* chosen at the start, the others stay in their initial states.           *)
(***************************************************************************)
EXTENDS Evidence, TLC

VARIABLE part  \* which one moves

-----------------------------------------------------------------------------
(* EntryTargets: the home's mutator calls, its clients ask for both        *)
(* Functions and have a sidecar; the guest only hooks.                     *)

CONSTANTS home, guest, f, g

Index(payload, proof, physical) ==
  [listed |-> {f}, proof |-> proof, physical |-> physical, payload |-> payload]

(* The first is that of an older compiler, which names no payload.         *)
HomeSidecars ==
  [o \in Owners |-> IF o = home THEN {Index("entry", "UNIQUE", 1), Index("payload", "SHARED", 2)}
                               ELSE {}]

HomeLists == [o \in Owners |-> IF o = home THEN {{g}, {f, g}} ELSE {{f}}]

BothAtHome == [o \in Owners |-> IF o = home THEN {f, g} ELSE {f}]

Subscribers == Permutations(Listeners)

-----------------------------------------------------------------------------
(* CapabilityProofs: two rows, of which the second is that of the VM.      *)

Uses == {{"owner", "roots", "stubs", "transition"}, {"owner", "code", "aot"},
         {"owner", "call", "bridge"}, {"owner", "types", "exception"},
         {"owner", "descriptor", "closure"}, {"owner", "type", "closure"}}

-----------------------------------------------------------------------------
(* LiveDirectory: a root unit and two deferred units.  Two Functions of    *)
(* the root share a Code.  Unit "u" has a proven InstructionsTable, and    *)
(* holds a Function that is in no class; a Code of unit "v" has lost its   *)
(* owner, so a delta of "v" is refused.                                    *)

Named == {"main", "alias", "listed", "other"}
Whole == Named \cup {"closure"}

CodesOf ==
  [x \in Whole |-> CASE x \in {"main", "alias"} -> "c1" [] x = "listed" -> "c3"
                     [] x = "closure" -> "c4"           [] x = "other"  -> "c5"]

OwnersOf ==
  [c \in Codes |-> CASE c = "c1" -> "main"  [] c = "c3" -> "listed" [] c = "c4" -> "closure"
                     [] c = "c5" -> "other" [] c = "c6" -> None]

UnitsOf ==
  [c \in Codes |-> CASE c = "c1" -> "root" [] c \in {"c3", "c4"} -> "u" [] OTHER -> "v"]

-----------------------------------------------------------------------------

(* A start of CapabilityProofs for the other two.                          *)
OneStart == scope = {"owner", "call", "bridge"} /\ twins = Abi!Capabilities /\ candidates = {2}

MCInit ==
  /\ part \in {"targets", "proofs", "directory"}
  /\ EvidenceInit
  /\ part # "proofs" => OneStart

MCNext ==
  /\ UNCHANGED part
  /\ \/ part = "targets"   /\ TargetsMove
     \/ part = "proofs"    /\ ProofsMove
     \/ part = "directory" /\ DirectoryMove

MCSpec == MCInit /\ [][MCNext]_<<part, evidenceVars>>
===============================================================================
