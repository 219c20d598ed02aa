--------------------------- MODULE CapabilityProofs ---------------------------
(***************************************************************************)
(* How the Flutter VM adapter learns which layouts the running Dart VM     *)
(* has.  A finite table of source-verified rows is narrowed by what can be *)
(* read of the process: a capability is bound to rows that agree on its    *)
(* layout, and verified by evidence from a running call (flutter_vm.cpp,   *)
(* resolver.cpp).  The core bridge keeps the proofs it has been given      *)
(* (object_bridge.cpp), a hook keeps those it was installed with           *)
(* (hook_registry.cpp).                                                    *)
(*                                                                         *)
(* The key of a capability in a row is 1 for the layout of the running VM  *)
(* and 2 for another one.  Evidence is the set of rows whose predicate     *)
(* accepts it.  It is genuine: the row of the running VM accepts it, or    *)
(* nothing does.  Every row has a layout for every capability, as the      *)
(* generated table has.                                                    *)
(***************************************************************************)
EXTENDS Integers, FiniteSets

CONSTANTS
  Rows,          \* rows of the table, by their position
  Real,          \* the row of the running VM
  Scopes,        \* bound of this model: the capabilities that one behaviour uses
  MaxGeneration  \* bound of this model: invalidations

TableAssumption ==
  /\ Rows \subseteq Nat \ {0} /\ IsFiniteSet(Rows) /\ Real \in Rows
  /\ MaxGeneration \in Nat \ {0}

Eager == {"owner", "roots", "stubs"}
Evidenced == {"code", "aot", "call", "descriptor", "type", "closure"}
Unlocked == {"types", "exception"}
Capabilities == Eager \cup Evidenced \cup Unlocked \cup {"transition", "bridge"}

VARIABLES
  scope,       \* the capabilities in play
  twins,       \* capabilities for which all candidates have the same layout
  candidates,  \* abi_candidates: the rows that passed the root proof at the start
  preferred,   \* abi_candidates.representative
  roots,       \* root_compatible_candidates
  binding,     \* capability_bindings: the selected rows
  selected,    \* ... and their representative, or 0
  verified,    \* verified_capabilities
  failed,      \* failed_capabilities
  record,      \* proof_records: their state, domain key and generation
  valid,       \* artifact_valid
  quiescing,   \* artifact_quiescing
  generation,  \* artifact_generation
  host,        \* the step of an invalidation
  reader,      \* the capability that is being read without artifact_mutex
  reset,       \* the binding was invalidated and not revalidated since
  admission,   \* admission_open
  core,        \* abi_binding: for each capability the row that is served, or 0
  coreAt,      \* ... and the generation it is of, or 0
  hook,        \* the call layout of a hook: a row and a generation
  call         \* the one a running call uses

table == <<scope, twins, candidates>>
proofs == <<binding, selected, verified, failed, record>>
artifact == <<valid, quiescing, generation, reset>>
bridge == <<admission, core, coreAt>>
vars == <<table, preferred, roots, proofs, artifact, host, reader, bridge, hook, call>>

Least(S) == CHOOSE r \in S : \A s \in S : r <= s

(* BuildCapabilityAbiKey                                                   *)
Key(c, r) == IF r = Real \/ c \in twins THEN 1 ELSE 2

Keys(c, S) == {Key(c, r) : r \in S}

(* Mutant: rows that disagree are resolved by taking the first of them.    *)
PassesMutant(c, S) == S # {}

(* SelectCapabilityAbiSet: one layout is left.                             *)
Passes(c, S) == Cardinality(Keys(c, S)) = 1

Ambiguous(c, S) == S # {} /\ ~Passes(c, S)

Representative(p, S) == IF p \in S THEN p ELSE Least(S)

(* The capability_mask of ResolveVerifiedBinding.                          *)
Supported == {c \in scope : Passes(c, candidates)}

Genuine == {S \in SUBSET Rows : S = {} \/ Real \in S}

-----------------------------------------------------------------------------
(* The records.  An update maps the proofs, as a record of the five        *)
(* variables, to the proofs after it.                                      *)

Current == [binding |-> binding, selected |-> selected, verified |-> verified,
            failed |-> failed, record |-> record]

Become(p) ==
  /\ binding' = p.binding /\ selected' = p.selected
  /\ verified' = p.verified /\ failed' = p.failed /\ record' = p.record

WithStates(p, C, s) ==
  [p EXCEPT !.record = [c \in Capabilities |->
     IF c \in C THEN [p.record[c] EXCEPT !.state = s, !.at = generation] ELSE p.record[c]]]

Cleared(p, C) ==
  [p EXCEPT !.binding = [c \in Capabilities |-> IF c \in C THEN {} ELSE p.binding[c]],
            !.selected = [c \in Capabilities |-> IF c \in C THEN 0 ELSE p.selected[c]]]

MarkVerified(p, C) ==
  [WithStates(p, C, "verified") EXCEPT !.verified = @ \cup C, !.failed = @ \ C]

(* Mutant: the verified bits stay.                                         *)
MarkFailedMutant(p, C) ==
  [WithStates(Cleared(p, C), C, "failed") EXCEPT !.failed = @ \cup C]

MarkFailed(p, C) ==
  [WithStates(Cleared(p, C), C, "failed") EXCEPT !.verified = @ \ C, !.failed = @ \cup C]

MarkAmbiguous(p, C) == WithStates(MarkFailed(p, C), C, "ambiguous")

(* ResetCapabilityProof of the supported capabilities.                     *)
Reset(p) ==
  [Cleared(p, Supported) EXCEPT
     !.verified = @ \ Supported, !.failed = @ \ Supported,
     !.record = [c \in Capabilities |->
       IF c \in Supported THEN [state |-> "unverified", key |-> 0, at |-> 0]
                          ELSE p.record[c]]]

Bind(p, C, pref, S) ==
  [p EXCEPT !.binding = [c \in Capabilities |-> IF c \in C THEN S ELSE p.binding[c]],
            !.selected = [c \in Capabilities |->
               IF c \in C THEN Representative(pref, S) ELSE p.selected[c]]]

(* SetProofRecordDomains, from the binding.                                *)
SetDomains(p, C) ==
  [p EXCEPT !.record = [c \in Capabilities |->
     IF c \in C THEN [p.record[c] EXCEPT !.key = Key(c, p.selected[c])] ELSE p.record[c]]]

(* Mutant: the generation of the record is not compared.                   *)
HasVerifiedMutant(c) == c \in verified /\ record[c].state = "verified"

HasVerified(c) ==
  c \in verified /\ record[c].state = "verified" /\ record[c].at = generation

(* dartplant_flutter_vm_adapter_capability_state                           *)
Reported(c) ==
  CASE c \notin Supported -> "unsupported"
    [] c \in Supported /\ record[c].state = "ambiguous" -> "ambiguous"
    [] c \in Supported /\ record[c].state # "ambiguous" ->
         IF record[c].at # generation THEN "unverified"
         ELSE IF c \in failed THEN "failed"
         ELSE IF HasVerified(c) THEN "verified" ELSE "unverified"

(* ResolveCapabilityProfile, SelectCapabilityProfile: what selecting and   *)
(* binding c over the rows S makes of the proofs; c is bound if it passed. *)
Select(p, c, S) ==
  IF Passes(c, S) THEN SetDomains(Bind(p, {c}, preferred, S), {c})
  ELSE IF Ambiguous(c, S) THEN MarkAmbiguous(p, {c})
  ELSE MarkFailed(p, {c})

(* What c depends on; what is out of scope counts as verified.             *)
Dependencies(c) ==
  scope \cap CASE c = "aot" -> {"code"}
               [] c = "closure" -> {"call", "descriptor", "type"}
               [] OTHER -> {}

DependenciesVerified(c) == \A d \in Dependencies(c) : HasVerified(d)

(* ProofDomainsMatch for what c depends on, in the selected row.           *)
DomainsMatch(c, r) == \A d \in Dependencies(c) : record[d].key = Key(d, r)

-----------------------------------------------------------------------------
(* The core bridge.                                                        *)

(* Mutant: a proof replaces what was established in its generation.        *)
EstablishesMutant(c, r) == TRUE

(* A generation has one profile for a capability.                          *)
Establishes(c, r) ==
  coreAt # generation \/ core[c] \in {0, r}

(* What VmAdapterProveCapability does with a proof of c by the row r.      *)
Establish(c, r) ==
  /\ coreAt' = generation
  /\ core' = IF ~Establishes(c, r) THEN core
             ELSE [d \in Capabilities |->
                     IF d = c THEN r ELSE IF coreAt = generation THEN core[d] ELSE 0]

(* adapter->mutex is free, the artifact is bound and not quiescing, and    *)
(* ValidateCurrentOwner finds the isolate on this thread.                  *)
MayProve ==
  admission /\ reader = "none" /\ ~quiescing /\ valid /\ selected["owner"] # 0

(* A proof that is published, or what its failure leaves.                  *)
Publish(p, c) ==
  /\ Become(p)
  /\ IF p.record[c].state = "verified" /\ c \in p.verified
       THEN Establish(c, p.selected[c])
       ELSE UNCHANGED <<core, coreAt>>
  /\ UNCHANGED <<table, preferred, roots, artifact, host, reader, admission, hook, call>>

(* Evidence from the heap: a function with its code and entry, arguments   *)
(* of a call.  It may verify what has failed before.                       *)
Proved(c, S) ==
  LET p == Select(Current, c, S) IN
  IF ~DependenciesVerified(c) THEN MarkFailed(Current, {c})
  ELSE IF ~Passes(c, S) THEN p
  ELSE IF ~DomainsMatch(c, p.selected[c]) THEN MarkFailed(p, {c})
  ELSE MarkVerified(p, {c})

ProveEvidence(c, S) ==
  /\ MayProve
  /\ Publish(Proved(c, S \cap roots), c)

(* JumpToFrame: its target belongs to exactly one artifact.                *)
ProveExceptionBridge(S) ==
  /\ MayProve
  /\ Publish(IF "bridge" \notin Supported \/ "bridge" \in failed
               THEN MarkFailed(Current, {"bridge"}) ELSE Proved("bridge", S \cap roots),
             "bridge")

(* A receipt of an observation under a lease: nothing is read again, the   *)
(* binding that was selected before is published.  A refusal changes       *)
(* nothing.                                                                *)
ProveReceipt(c) ==
  /\ MayProve
  /\ c \in Supported \ failed /\ DependenciesVerified(c) /\ binding[c] # {}
  /\ Publish(MarkVerified(SetDomains(Current, {c}), {c}), c)

(* EnterGeneratedToNative, under both mutexes: ProveTransitionCapability,  *)
(* unless it is verified; then the thread's state has to be the one of     *)
(* generated code.                                                         *)
ProveTransition(S, generated) ==
  LET c == "transition"
      p == IF HasVerified(c) THEN Current
           ELSE IF Passes(c, S \cap roots)
             THEN MarkVerified(Select(Current, c, S \cap roots), {c})
             ELSE Select(Current, c, S \cap roots) IN
  /\ reader = "none" /\ valid /\ c \in Supported \ failed /\ HasVerified("stubs")
  /\ Become(IF generated \/ c \notin p.verified THEN p ELSE MarkFailed(p, {c}))
  /\ UNCHANGED <<table, preferred, roots, artifact, host, reader, bridge, hook, call>>

(* ReadTypeArgumentsElement, ReadAndProveActiveExceptionState: the core's  *)
(* mutex is held, artifact_mutex only for each mark.                       *)
BeginRead(c, S) ==
  /\ reader = "none" /\ c \in Supported \ failed
  /\ c = "exception" => selected["owner"] # 0
  /\ Become(Select(Current, c, S \cap roots))
  /\ reader' = IF Passes(c, S \cap roots) THEN c ELSE "none"
  /\ UNCHANGED <<table, preferred, roots, artifact, host, bridge, hook, call>>

EndRead ==
  /\ reader # "none"
  /\ \/ Become(MarkVerified(Current, {reader}))
     \/ Become(MarkFailed(Current, {reader}))
  /\ reader' = "none"
  /\ UNCHANGED <<table, preferred, roots, artifact, host, bridge, hook, call>>

-----------------------------------------------------------------------------
(* The artifact functions, called by one host.                             *)

(* quiesce_artifacts                                                       *)
Quiesce ==
  /\ host = "idle"
  /\ quiescing' = TRUE /\ admission' = FALSE
  /\ UNCHANGED <<table, preferred, roots, proofs, valid, generation, reset, host, reader,
                 core, coreAt, hook, call>>

(* invalidate_artifacts closes the admission first, retire_artifacts with  *)
(* its sweep.                                                              *)
Close ==
  /\ host = "idle" /\ generation < MaxGeneration
  /\ admission' = FALSE /\ host' = "closed"
  /\ UNCHANGED <<table, preferred, roots, proofs, artifact, reader, core, coreAt, hook, call>>

(* InvalidateArtifactBindingLocked                                         *)
Invalidate ==
  /\ host = "closed"
  /\ Become(Reset(Current))
  /\ quiescing' = TRUE /\ valid' = FALSE /\ reset' = TRUE
  /\ generation' = generation + 1
  /\ host' = "invalidated"
  /\ UNCHANGED <<table, preferred, roots, reader, bridge, hook, call>>

(* VmAdapterInvalidateAbiBinding                                           *)
Forget ==
  /\ host = "invalidated" /\ reader = "none"
  /\ core' = [c \in Capabilities |-> 0] /\ coreAt' = 0
  /\ host' = "idle"
  /\ UNCHANGED <<table, preferred, roots, proofs, artifact, reader, admission, hook, call>>

(* Mutant: the eager capabilities are rebound and not verified again.      *)
RevalidatedMutant(p, S) == Bind(p, Supported, Representative(preferred, S), S)

(* ReproveCoreBinding and EstablishEagerCapabilityProofs: every supported  *)
(* capability is bound to the rows that pass the root proof now, and those *)
(* that the root proof covers are verified.                                *)
Revalidated(p, S) ==
  MarkVerified(SetDomains(Bind(p, Supported, Representative(preferred, S), S),
                          Eager \cap Supported),
               Eager \cap Supported)

(* revalidate_artifacts: the same incarnation is mapped, or not; the rows  *)
(* in S pass the root proof.  A failure leaves the admission as it was.    *)
Revalidate(mapped, S) ==
  LET passing == S \cap candidates
      proved == mapped /\ Passes("roots", passing) IN
  /\ host = "idle" /\ ~(quiescing /\ valid)
  /\ valid' = proved
  /\ roots' = IF ~mapped THEN roots ELSE IF proved THEN passing ELSE {}
  /\ IF proved
       THEN /\ preferred' = Representative(preferred, passing)
            /\ Become(Revalidated(Current, passing))
            /\ quiescing' = FALSE /\ admission' = TRUE /\ reset' = FALSE
       ELSE UNCHANGED <<preferred, proofs, quiescing, admission, reset>>
  /\ UNCHANGED <<table, generation, host, reader, core, coreAt, hook, call>>

-----------------------------------------------------------------------------
(* What a hook does with a proof.                                          *)

NoLayout == [row |-> 0, at |-> 0]

(* ProveLiveFunctionBinding: the layout of a new hook.                     *)
InstallHook ==
  /\ admission /\ core["call"] # 0
  /\ hook' = [row |-> core["call"], at |-> coreAt]
  /\ UNCHANGED <<table, preferred, roots, proofs, artifact, host, reader, bridge, call>>

(* Mutant: a call only looks whether the profile is still the same.        *)
ServedMutant(layout) == admission /\ core["call"] = layout.row

(* The binding that is served is still the one of the hook.                *)
Served(layout) ==
  admission /\ core["call"] = layout.row /\ coreAt = layout.at

(* BeginInvocation takes the listener, or passes it over.                  *)
BeginInvocation ==
  /\ hook # NoLayout /\ call = NoLayout /\ Served(hook)
  /\ call' = hook
  /\ UNCHANGED <<table, preferred, roots, proofs, artifact, host, reader, bridge, hook>>

EndInvocation ==
  /\ call # NoLayout
  /\ call' = NoLayout
  /\ UNCHANGED <<table, preferred, roots, proofs, artifact, host, reader, bridge, hook>>

-----------------------------------------------------------------------------
Fresh(c) ==
  IF c \in Supported
    THEN [state |-> IF c \in Eager THEN "verified" ELSE "unverified",
          key |-> IF c \in Eager THEN Key(c, preferred) ELSE 0, at |-> 1]
    ELSE [state |-> "unavailable", key |-> 0, at |-> 0]

(* dartplant_flutter_vm_adapter_create, when ResolveVerifiedBinding has    *)
(* found one core ABI: the rows that have it are the candidates.           *)
Init ==
  /\ scope \in Scopes
  /\ twins \in {Capabilities \ S : S \in SUBSET scope}
  /\ candidates \in {S \in Genuine : S # {}}
  /\ preferred \in candidates
  /\ roots = candidates
  /\ binding = [c \in Capabilities |-> IF c \in Supported THEN candidates ELSE {}]
  /\ selected = [c \in Capabilities |-> IF c \in Supported THEN preferred ELSE 0]
  /\ verified = Eager \cap Supported /\ failed = {}
  /\ record = [c \in Capabilities |-> Fresh(c)]
  /\ valid = TRUE /\ quiescing = FALSE /\ generation = 1 /\ reset = FALSE
  /\ host = "idle" /\ reader = "none"
  /\ admission = TRUE /\ core = [c \in Capabilities |-> 0] /\ coreAt = 0
  /\ hook = NoLayout /\ call = NoLayout

ProveAny(S) ==
  \/ \E c \in Evidenced \cap scope : ProveEvidence(c, S)
  \/ "bridge" \in scope /\ ProveExceptionBridge(S)
  \/ \E generated \in BOOLEAN : ProveTransition(S, generated)
  \/ \E c \in Unlocked : BeginRead(c, S)

Host ==
  \/ Quiesce \/ Close \/ Invalidate \/ Forget
  \/ \E mapped \in BOOLEAN, S \in Genuine : Revalidate(mapped, S)

Next ==
  \/ \E S \in Genuine : ProveAny(S)
  \/ \E c \in Evidenced \ {"descriptor"} : ProveReceipt(c)
  \/ EndRead \/ Host
  \/ InstallHook \/ BeginInvocation \/ EndInvocation

Spec == Init /\ [][Next]_vars

-----------------------------------------------------------------------------
(* Properties                                                              *)

States == {"unavailable", "unverified", "verified", "failed", "ambiguous"}

Layouts == [row : Rows \cup {0}, at : 0 .. MaxGeneration]

(* The type of the state; the masks are those of the records.              *)
TypeOK ==
  /\ candidates \subseteq Rows /\ roots \subseteq candidates /\ preferred \in candidates
  /\ binding \in [Capabilities -> SUBSET candidates]
  /\ selected \in [Capabilities -> Rows \cup {0}]
  /\ record \in [Capabilities -> [state : States, key : 0 .. 2, at : 0 .. MaxGeneration]]
  /\ verified = {c \in Capabilities : record[c].state = "verified"}
  /\ failed = {c \in Capabilities : record[c].state \in {"failed", "ambiguous"}}
  /\ generation \in 1 .. MaxGeneration /\ coreAt \in 0 .. generation
  /\ core \in [Capabilities -> Rows \cup {0}]
  /\ {hook, call} \subseteq Layouts
  /\ host \in {"idle", "closed", "invalidated"} /\ reader \in Unlocked \cup {"none"}

(* A capability that the adapter reports as verified has, in every row it  *)
(* is bound to, the layout of the running VM; while the artifact is valid  *)
(* it is bound (flutter_vm.h: "read-only structural and relational proofs  *)
(* select ABI domains").                                                   *)
VerifiedIsReal ==
  \A c \in Capabilities : Reported(c) = "verified" =>
    /\ Keys(c, binding[c]) \subseteq {1}
    /\ valid => binding[c] # {} /\ selected[c] \in binding[c]

(* After an invalidation nothing is verified until the roots are proved    *)
(* again, but for the two capabilities that are read without               *)
(* artifact_mutex.                                                         *)
ResetIsUnverified ==
  reset => {c \in Capabilities : HasVerified(c)} \subseteq Unlocked

(* While calls are admitted to a valid artifact, everything that the root  *)
(* proof covers is verified in its generation: the safepoint stubs that    *)
(* EnterGeneratedToNative calls among it.                                  *)
AdmittedIsProved ==
  admission /\ valid => \A c \in Eager \cap Supported : HasVerified(c)

(* Every report of a proof is true of the running VM and of the artifact   *)
(* that is bound.                                                          *)
ProofsAgree == TypeOK /\ VerifiedIsReal /\ ResetIsUnverified /\ AdmittedIsProved

(* What the core serves of one generation has the layout of the running VM *)
(* and does not change its profile, whatever evidence comes later          *)
(* (VmAdapterProveCapability: "changed profile within one generation").    *)
ServedIsStable ==
  [][/\ \A c \in Capabilities : core'[c] # 0 => Key(c, core'[c]) = 1
     /\ coreAt' = coreAt /\ coreAt # 0 =>
          \A c \in Capabilities : core[c] \in {0, core'[c]}]_vars

(* A call starts only with the layout of the current artifact generation.  *)
CallIsCurrent ==
  [][call' \notin {call, NoLayout} => call'.at = generation]_vars
=============================================================================
