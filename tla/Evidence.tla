-------------------------------- MODULE Evidence --------------------------------
(***************************************************************************)
(* What DartPlant knows of a running program: the targets of its entries   *)
(* (EntryTargets), the ABI proofs of the VM adapter (CapabilityProofs) and *)
(* the directory of its live functions (LiveDirectory).  They share no     *)
(* state here: a step is one of a module.                                  *)
(***************************************************************************)
EXTENDS EntryTargets

CONSTANTS
  Rows, Real, Scopes,                                     \* of CapabilityProofs
  Program, Codes, Units, Root, CodeOf, UnitOf, OwnerOf,   \* of LiveDirectory:
  Listed, Closures, Readable, TableUnits,                 \* Functions, ..., Typed, ...
  MaxOwner, MaxContext,
  MaxGeneration                                           \* of both

VARIABLES
  scope, twins, candidates, preferred, roots, binding, selected, verified, failed, record,
  valid, quiescing, artifact_generation, host, reader, reset, admission, core, coreAt,
  call_layout, call,                                              \* of CapabilityProofs
  mapped, loaded, heap, group_generation, images, next_owner, context, index, current
                                                                  \* of LiveDirectory

proofVars == <<scope, twins, candidates, preferred, roots, binding, selected, verified, failed,
               record, valid, quiescing, artifact_generation, host, reader, reset, admission,
               core, coreAt, call_layout, call>>
directoryVars == <<mapped, loaded, heap, group_generation, images, next_owner, context, index,
                   current>>
evidenceVars == <<vars, proofVars, directoryVars>>

Abi == INSTANCE CapabilityProofs WITH hook <- call_layout, generation <- artifact_generation

Live == INSTANCE LiveDirectory
  WITH generation <- group_generation, Functions <- Program, Typed <- Readable

ASSUME AbiAssumption == Abi!TableAssumption

ASSUME ProgramAssumption == Live!DirectoryAssumption

-----------------------------------------------------------------------------

TargetsMove   == Next           /\ UNCHANGED <<proofVars, directoryVars>>
ProofsMove    == Abi!Next       /\ UNCHANGED <<vars, directoryVars>>
DirectoryMove == Live!Next /\ UNCHANGED <<vars, proofVars>>

EvidenceInit == Init /\ Abi!Init /\ Live!Init

EvidenceNext == TargetsMove \/ ProofsMove \/ DirectoryMove

EvidenceSpec == EvidenceInit /\ [][EvidenceNext]_evidenceVars

-----------------------------------------------------------------------------
(* Properties of the instanced modules                                     *)

(* What is recorded agrees with itself and with the program: merged        *)
(* evidence with its sources (EvidenceAgrees of EntryTargets), a verified  *)
(* capability with the VM (ProofsAgree of CapabilityProofs), a kept or     *)
(* extended directory with the images (DirectoryAgrees of LiveDirectory).  *)
RecordedIsTrue == EvidenceAgrees /\ Abi!ProofsAgree /\ Live!DirectoryAgrees

(* What the core serves does not change under its users, and a call starts *)
(* with a current layout.                                                  *)
ServedIsStable == Abi!ServedIsStable /\ Abi!CallIsCurrent

(* A published live directory lists what a full walk would find.           *)
PublishedIsComplete == Live!PublishedIsComplete
===============================================================================
