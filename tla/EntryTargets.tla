------------------------------ MODULE EntryTargets ------------------------------
(* What is known of one physical AOT entry, and what a callback on it is told. *)
(* Several Dart Functions may be compiled to one entry (shared Code).  Each   *)
(* owner (an isolate group with its runtime) has a DartEntryTarget of its own *)
(* that gathers evidence: the live Function directory, the aliases resolved,  *)
(* the compiler's sidecar.  The hook is one for the process.  The evidence    *)
(* arrives while calls are inside the dispatcher.                             *)
EXTENDS Naturals, Sequences, FiniteSets, SequencesExt

CONSTANTS
  Owners,     \* isolate groups that map the entry
  Functions,  \* logical Dart Functions compiled to the entry
  Listeners,  \* identities of subscriptions
  Callers,    \* the owners whose mutators call the entry
  Typed,      \* the Functions whose call layout the compiler's evidence gives
  Listings,   \* per owner, what its live directory may list at this entry
  Wanted,     \* per owner, the Functions its clients ask for
  Sidecars,   \* per owner, the compiler sidecars it may be given
  None

(* What a sidecar takes the payload to be: the "payload" that the VM       *)
(* reports, or the "entry" itself (a V1 or V2 sidecar).                    *)
Payloads == {"payload", "entry"}

Proofs == {"UNKNOWN", "UNIQUE", "SHARED"}

ArtifactIndices ==
  [listed : (SUBSET Functions) \ {{}}, proof : Proofs, physical : 0..Cardinality(Functions),
   payload : Payloads]

Targets == [count : 1..Cardinality(Functions), proof : Proofs, aliases : SUBSET Functions,
            payload : Payloads]

Subscriptions ==
  [id : Listeners, owner : Owners, function : Functions, optIn : BOOLEAN, layout : BOOLEAN]

Hooks == [optIn : BOOLEAN, installed : BOOLEAN, chain : Seq(Subscriptions)]

Steps == {"selecting", "enter", "body", "leaving", "leave", "unwinding", "caught"}

(* What a callback is told, of the listener it belongs to.                 *)
Answers ==
  [listener : Subscriptions \cup {None}, logical : BOOLEAN, typed : BOOLEAN, shared : BOOLEAN]

Frames ==
  [step : Steps, entered : Seq(Subscriptions), at : Nat, layout : BOOLEAN, told : Answers]

ASSUME OwnersAssumption ==
  /\ Callers \subseteq Owners /\ IsFiniteSet(Functions) /\ Typed \subseteq Functions
  /\ Listings \in [Owners -> SUBSET SUBSET Functions]
  /\ Wanted \in [Owners -> SUBSET Functions]
  /\ Sidecars \in [Owners -> SUBSET ArtifactIndices]
  /\ None \notin Targets /\ None \notin Hooks

VARIABLES
  live,      \* per owner: the Functions its published live directory lists here
  sidecar,   \* per owner: its bound artifact index at this entry, or None
  target,    \* per owner: the DartEntryTarget, or None when nothing holds it
  methods,   \* per owner: the Functions with a DartPlantMethod handle
  pinned,    \* owners whose target a hook record holds (records are kept)
  hook,      \* the callback hook of the entry, or None
  frame      \* per owner: the frame of its mutator in the dispatcher, or None

vars == <<live, sidecar, target, methods, pinned, hook, frame>>

Larger(m, n) == IF m > n THEN m ELSE n

-----------------------------------------------------------------------------
(* Evidence                                                                *)

Fresh(count, proof, payload) ==
  [count |-> Larger(1, count), proof |-> IF count > 1 THEN "SHARED" ELSE proof,
   aliases |-> {}, payload |-> payload]

(* MergeEvidence: SHARED is final, UNIQUE only fills a gap.                *)
Merged(t, count, proof) ==
  LET most == Larger(t.count, count) IN
  [t EXCEPT !.count = most,
            !.proof = IF proof = "SHARED" \/ most > 1 THEN "SHARED"
                      ELSE IF proof = "UNIQUE" /\ @ = "UNKNOWN" THEN "UNIQUE" ELSE @]

(* Mutant: an alias is listed and not counted.                             *)
AliasedMutant(t, f) == [t EXCEPT !.aliases = @ \cup {f}]

(* AddAlias.                                                               *)
Aliased(t, f) ==
  LET known == t.aliases \cup {f} IN
  IF Cardinality(known) > 1
    THEN [t EXCEPT !.aliases = known, !.count = Larger(@, Cardinality(known)),
                   !.proof = "SHARED"]
    ELSE [t EXCEPT !.aliases = known]

(* IsShared.                                                               *)
Shared(t) == t # None /\ (t.proof = "SHARED" \/ t.count > 1 \/ Cardinality(t.aliases) > 1)

(* Mutant: a target that is found again keeps its old evidence.            *)
GetOrCreateMutant(t, count, proof, payload) ==
  IF t = None THEN Fresh(count, proof, payload)
  ELSE IF t.payload # payload THEN None ELSE t

(* GetOrCreate with an explicit payload range: a live target with another  *)
(* exact range refuses it.                                                 *)
GetOrCreate(t, count, proof, payload) ==
  IF t = None THEN Fresh(count, proof, payload)
  ELSE IF t.payload # payload THEN None ELSE Merged(t, count, proof)

-----------------------------------------------------------------------------
(* The indices                                                             *)

(* BuildSnapshotIndex refuses a proof that contradicts its own count, and  *)
(* BindArtifactSnapshotIndex one that contradicts the Functions indexed.   *)
Bindable(a) ==
  /\ a.proof = "UNIQUE" => a.physical = 1 /\ Cardinality(a.listed) = 1
  /\ a.proof = "SHARED" => a.physical >= 2 /\ a.physical >= Cardinality(a.listed)

EntryAliasCount(a) == Larger(Cardinality(a.listed), Larger(1, a.physical))

Lists(o, f) == sidecar[o] # None /\ f \in sidecar[o].listed

-----------------------------------------------------------------------------
(* Resolution                                                              *)

(* MergeValidatedArtifactIdentityIntoLiveMethod: UNIQUE against the aliases *)
(* already known.                                                          *)
Conflicts(t, a) ==
  a.proof = "UNIQUE" /\ (EntryAliasCount(a) # 1
                         \/ Larger(t.count, Cardinality(t.aliases)) > 1)

(* An outcome is the target as the lookup leaves it and whether the caller *)
(* gets a method.                                                          *)
Missing(o) == [status |-> "missing", target |-> target[o]]

(* ResolveArtifactIndexedRuntimeMethod.                                    *)
ArtifactMethod(o, f) ==
  IF ~Lists(o, f) THEN Missing(o)
  ELSE LET a == sidecar[o]
           t == GetOrCreate(target[o], EntryAliasCount(a), a.proof, a.payload)
       IN  IF t = None THEN Missing(o)
           ELSE [status |-> "ok", target |-> Aliased(t, f)]

(* ResolveLiveIndexedRuntimeMethod, then the merge of the sidecar.         *)
LiveMethod(o, f) ==
  IF f \notin live[o] THEN Missing(o)
  ELSE LET t == GetOrCreate(target[o], Cardinality(live[o]), "UNKNOWN", "payload")
       IN  IF t = None THEN Missing(o)
           ELSE LET known == Aliased(t, f) IN
                IF ~Lists(o, f) THEN [status |-> "ok", target |-> known]
                ELSE IF Conflicts(known, sidecar[o])
                  THEN [status |-> "refused", target |-> known]
                ELSE [status |-> "ok",
                      target |-> Merged(known, EntryAliasCount(sidecar[o]), sidecar[o].proof)]

(* dartplant_runtime_find_method: the live index first, the sidecar when the *)
(* method is not found.                                                    *)
Found(o, f) ==
  LET answer == LiveMethod(o, f) IN
  IF answer.status = "missing" THEN ArtifactMethod(o, f) ELSE answer

(* Who holds the target of an owner (the registry's pointers are weak).    *)
HeldElsewhere(o) ==
  \/ o \in pinned \/ frame[o] # None
  \/ hook # None /\ \E l \in Range(hook.chain) : l.owner = o

Find(o, f) ==
  LET answer == Found(o, f)
      held   == IF answer.status = "ok" THEN methods[o] \cup {f} ELSE methods[o]
  IN  /\ methods' = [methods EXCEPT ![o] = held]
      /\ target' = [target EXCEPT ![o] = IF held # {} \/ HeldElsewhere(o)
                                           THEN answer.target ELSE None]
      /\ UNCHANGED <<live, sidecar, pinned, hook, frame>>

(* dartplant_release_method.                                               *)
Release(o, f) ==
  /\ f \in methods[o]
  /\ methods' = [methods EXCEPT ![o] = @ \ {f}]
  /\ target' = [target EXCEPT ![o] = IF methods[o] \ {f} # {} \/ HeldElsewhere(o)
                                       THEN @ ELSE None]
  /\ UNCHANGED <<live, sidecar, pinned, hook, frame>>

(* A bootstrap or a refresh publishes a directory that lists more (one that *)
(* lists less after an unload is left out).                                *)
Publish(o, listed) ==
  /\ live[o] \subseteq listed /\ live[o] # listed
  /\ live' = [live EXCEPT ![o] = listed]
  /\ UNCHANGED <<sidecar, target, methods, pinned, hook, frame>>

(* dartplant_runtime_register_snapshot_index.                              *)
BindArtifact(o, a) ==
  /\ sidecar[o] = None /\ Bindable(a)
  /\ sidecar' = [sidecar EXCEPT ![o] = a]
  /\ UNCHANGED <<live, target, methods, pinned, hook, frame>>

-----------------------------------------------------------------------------
(* The hook and its subscriptions                                          *)

InUse(id) ==
  \/ hook # None /\ \E l \in Range(hook.chain) : l.id = id
  \/ \E o \in Owners : frame[o] # None /\ \E l \in Range(frame[o].entered) : l.id = id

(* A layout that the compiler's evidence offers is dropped while the entry *)
(* is shared.                                                              *)
Subscription(id, o, f, optIn) ==
  [id |-> id, owner |-> o, function |-> f, optIn |-> optIn,
   layout |-> f \in Typed /\ ~Shared(target[o])]

(* The shared-code checks of InstallCallbackHook and AddCallbackListener.  *)
Admits(o, optIn) ==
  Shared(target[o]) => optIn /\ (hook # None => hook.optIn)

(* InstallCallbackHook.                                                    *)
Install(o, f, id, optIn) ==
  /\ f \in methods[o] /\ ~InUse(id) /\ hook = None /\ Admits(o, optIn)
  /\ hook' = [optIn |-> optIn, installed |-> TRUE,
              chain |-> <<Subscription(id, o, f, optIn)>>]
  /\ pinned' = pinned \cup {o}
  /\ UNCHANGED <<live, sidecar, target, methods, frame>>

(* AddCallbackListener; the priority puts it anywhere in the chain.        *)
Subscribe(o, f, id, optIn) ==
  /\ f \in methods[o] /\ ~InUse(id) /\ hook # None /\ Admits(o, optIn)
  /\ hook.installed
  /\ \E place \in 1..Len(hook.chain) + 1 :
       hook' = [hook EXCEPT !.chain = InsertAt(@, place, Subscription(id, o, f, optIn))]
  /\ UNCHANGED <<live, sidecar, target, methods, pinned, frame>>

(* RemoveHook: the chain is emptied; frames keep the record.               *)
Removed == [hook EXCEPT !.installed = FALSE, !.chain = <<>>]

(* What holds the target of an owner without a listener in the chain.      *)
Kept(o) == methods[o] # {} \/ o \in pinned \/ frame[o] # None

Forsaken == [o \in Owners |-> IF Kept(o) THEN target[o] ELSE None]

(* dartplant_remove_listener.                                              *)
Unsubscribe(id) ==
  /\ hook # None
  /\ \E place \in DOMAIN hook.chain :
       LET rest == RemoveAt(hook.chain, place) IN
       /\ hook.chain[place].id = id
       /\ hook' = IF rest = <<>> THEN Removed ELSE [hook EXCEPT !.chain = rest]
       /\ target' = [o \in Owners |->
            IF Kept(o) \/ \E l \in Range(rest) : l.owner = o THEN target[o] ELSE None]
  /\ UNCHANGED <<live, sidecar, methods, pinned, frame>>

(* FinishUnhook, once no invocation is in flight.                          *)
Finish ==
  /\ hook # None /\ ~hook.installed /\ \A o \in Owners : frame[o] = None
  /\ hook' = None
  /\ UNCHANGED <<live, sidecar, target, methods, pinned, frame>>

-----------------------------------------------------------------------------
(* The dispatcher                                                          *)

(* Mutant: the frame keeps the target that the hook was installed for.     *)
KnownToFrameMutant(o, l) == \A p \in pinned : Shared(target[p])

(* RefreshIdentityState reads the code_target that                         *)
(* BindInvocationToCurrentOwner took from the execution listener.          *)
KnownToFrame(o, l) == Shared(target[l.owner])

(* FilterListenersForCurrentIsolateGroup and SameExecutionBinding: the     *)
(* places of the owner's listeners whose binding is that of the first.     *)
Bound(o) ==
  LET mine == {p \in DOMAIN hook.chain : hook.chain[p].owner = o} IN
  {p \in mine : \E first \in mine :
     (\A q \in mine : first <= q) /\ hook.chain[p].layout = hook.chain[first].layout}

(* The places in the order of the chain (there is one such sequence).      *)
InOrder(places) ==
  {at \in [1..Cardinality(places) -> places] :
     \A m, n \in 1..Cardinality(places) : m < n => at[m] < at[n]}

Nothing == [listener |-> None, logical |-> FALSE, typed |-> FALSE, shared |-> FALSE]

(* What the invocation tells the callback of l: a logical method and a     *)
(* typed layout, or neither; shared is what was known of l's own target.   *)
Told(l, ambiguous, layout) ==
  [listener |-> l, logical |-> ~ambiguous, typed |-> layout, shared |-> Shared(target[l.owner])]

(* dartplant_arm64_dispatch_enter up to the first callback.                *)
Enter(o) ==
  /\ frame[o] = None /\ hook # None /\ hook.installed
  /\ \E at \in InOrder(Bound(o)) :
       LET bound     == [n \in DOMAIN at |-> hook.chain[at[n]]]
           ambiguous == bound # <<>> /\ KnownToFrame(o, bound[1])
           late      == ambiguous /\ ~hook.optIn
           entered   == IF late THEN <<>> ELSE bound
       IN  frame' = [frame EXCEPT ![o] =
             [step |-> IF entered = <<>> THEN "body" ELSE "selecting", entered |-> entered,
              at |-> 1, layout |-> entered # <<>> /\ bound[1].layout /\ ~ambiguous,
              told |-> Nothing]]
  /\ UNCHANGED <<live, sidecar, target, methods, pinned, hook>>

Selected(o) == frame[o].entered[frame[o].at]

(* SelectListenerIdentity: the flags of the invocation as they are now.    *)
Selection(o) ==
  LET ambiguous == KnownToFrame(o, frame[o].entered[1]) IN
  [ambiguous |-> ambiguous, layout |-> frame[o].layout /\ ~ambiguous]

Move(o, new) ==
  /\ frame' = [frame EXCEPT ![o] = new]
  /\ UNCHANGED <<live, sidecar, target, methods, pinned, hook>>

(* The enter loop stops where the entry has become ambiguous.              *)
StopsHere(o) == Selection(o).ambiguous /\ ~hook.optIn

SelectEnter(o) ==
  /\ frame[o] # None /\ frame[o].step = "selecting"
  /\ LET new == Selection(o) IN
     IF StopsHere(o)
       THEN Move(o, [frame[o] EXCEPT !.step = "body", !.layout = new.layout,
                                     !.entered = SubSeq(@, 1, frame[o].at - 1)])
       ELSE Move(o, [frame[o] EXCEPT !.step = "enter", !.layout = new.layout,
                                     !.told = Told(Selected(o), new.ambiguous, new.layout)])

(* on_enter returns; it may have asked to skip the original.               *)
EnterReturns(o, skip) ==
  /\ frame[o] # None /\ frame[o].step = "enter"
  /\ LET fr == [frame[o] EXCEPT !.told = Nothing] IN
     IF skip
       THEN Move(o, [fr EXCEPT !.step = "leaving", !.entered = SubSeq(@, 1, fr.at)])
     ELSE IF fr.at = Len(fr.entered)
       THEN Move(o, [fr EXCEPT !.step = "body"])
       ELSE Move(o, [fr EXCEPT !.step = "selecting", !.at = @ + 1])

(* The original returns (FinishFrame) or unwinds past the entry.           *)
BodyEnds(o, how) ==
  /\ frame[o] # None /\ frame[o].step = "body"
  /\ Move(o, [frame[o] EXCEPT !.step = how, !.at = Len(frame[o].entered)])

(* The frame goes, and the target with it when nothing else holds it.      *)
Drop(o) ==
  /\ frame' = [frame EXCEPT ![o] = None]
  /\ target' = [target EXCEPT ![o] =
       IF methods[o] # {} \/ o \in pinned \/ \E l \in Range(hook.chain) : l.owner = o
         THEN @ ELSE None]
  /\ UNCHANGED <<live, sidecar, methods, pinned, hook>>

(* The callbacks of those that entered, in reverse order.                  *)
SelectLeave(o) ==
  /\ frame[o] # None /\ frame[o].step = "leaving"
  /\ IF frame[o].at = 0 THEN Drop(o)
     ELSE LET new == Selection(o) IN
          Move(o, [frame[o] EXCEPT !.step = "leave", !.layout = new.layout,
                                   !.told = Told(Selected(o), new.ambiguous, new.layout)])

(* dartplant_arm64_dispatch_exception_unwind: on_exception of the active   *)
(* ones, then AbandonFrame.                                                *)
SelectUnwind(o) ==
  /\ frame[o] # None /\ frame[o].step = "unwinding"
  /\ IF frame[o].at = 0 THEN Drop(o)
     ELSE IF Selected(o) \notin Range(hook.chain)
       THEN Move(o, [frame[o] EXCEPT !.at = @ - 1])
       ELSE LET new == Selection(o) IN
            Move(o, [frame[o] EXCEPT !.step = "caught", !.layout = new.layout,
                                     !.told = Told(Selected(o), new.ambiguous, new.layout)])

CallbackReturns(o) ==
  /\ frame[o] # None /\ frame[o].step \in {"leave", "caught"}
  /\ Move(o, [frame[o] EXCEPT !.step = IF @ = "leave" THEN "leaving" ELSE "unwinding",
                              !.at = @ - 1, !.told = Nothing])

InCallback(o) == frame[o] # None /\ frame[o].step \in {"enter", "leave", "caught"}

(* dartplant_runtime_capture_live_vm from a callback: the directory is     *)
(* rebuilt, the probe's count and the Function it saw become evidence, and *)
(* a hook that did not ask for shared code is removed.                     *)
Capture(o, listed, seen) ==
  /\ InCallback(o) /\ live[o] \subseteq listed /\ seen \in listed
  /\ live' = [live EXCEPT ![o] = listed]
  /\ LET t == Aliased(Merged(target[o], Cardinality(listed), "UNKNOWN"), seen)
         ends == Shared(t) /\ ~hook.optIn
     IN  /\ target' = IF ends THEN [Forsaken EXCEPT ![o] = t] ELSE [target EXCEPT ![o] = t]
         /\ hook' = IF ends THEN Removed ELSE hook
  /\ UNCHANGED <<sidecar, methods, pinned, frame>>

-----------------------------------------------------------------------------
Init ==
  /\ live = [o \in Owners |-> {}]
  /\ sidecar = [o \in Owners |-> None]
  /\ target = [o \in Owners |-> None]
  /\ methods = [o \in Owners |-> {}]
  /\ pinned = {}
  /\ hook = None
  /\ frame = [o \in Owners |-> None]

Dispatch(o) ==
  \/ Enter(o) \/ SelectEnter(o) \/ SelectLeave(o) \/ SelectUnwind(o) \/ CallbackReturns(o)
  \/ \E skip \in BOOLEAN : EnterReturns(o, skip)
  \/ \E how \in {"leaving", "unwinding"} : BodyEnds(o, how)
  \/ \E listed \in Listings[o] : \E seen \in listed : Capture(o, listed, seen)

Resolve(o) ==
  \/ \E f \in Wanted[o] : Find(o, f) \/ Release(o, f)
  \/ \E listed \in Listings[o] : Publish(o, listed)
  \/ \E a \in Sidecars[o] : BindArtifact(o, a)

Hooking(o) ==
  \E f \in Wanted[o], id \in Listeners, optIn \in BOOLEAN :
    Install(o, f, id, optIn) \/ Subscribe(o, f, id, optIn)

Next ==
  \/ \E o \in Callers : Dispatch(o)
  \/ \E o \in Owners : Resolve(o) \/ Hooking(o)
  \/ \E id \in Listeners : Unsubscribe(id)
  \/ Finish

Spec == Init /\ [][Next]_vars

-----------------------------------------------------------------------------
(* Properties                                                              *)

TypeOK ==
  /\ live \in [Owners -> SUBSET Functions]
  /\ sidecar \in [Owners -> ArtifactIndices \cup {None}]
  /\ target \in [Owners -> Targets \cup {None}]
  /\ methods \in [Owners -> SUBSET Functions]
  /\ pinned \subseteq Owners
  /\ hook \in Hooks \cup {None}
  /\ frame \in [Owners -> Frames \cup {None}]

(* The fields of a target never contradict each other, whatever the order  *)
(* in which the live directory, the aliases and the sidecar were merged    *)
(* (MergeEvidence, AddAlias, GetOrCreate): a proof of uniqueness never     *)
(* stands beside a second alias, and whoever holds a Function of the owner *)
(* - a handle, a listener, a listener of a frame - is among its aliases,   *)
(* so the target that the holder relies on was not replaced under it.      *)
EvidenceAgrees ==
  /\ TypeOK
  /\ \A o \in Owners : target[o] # None =>
       /\ target[o].proof = "UNIQUE" => target[o].count = 1 /\ Cardinality(target[o].aliases) <= 1
       /\ target[o].count >= Cardinality(target[o].aliases)
  /\ \A o \in Owners : \A f \in methods[o] : target[o] # None /\ f \in target[o].aliases
  /\ hook # None => \A l \in Range(hook.chain) :
       target[l.owner] # None /\ l.function \in target[l.owner].aliases
  /\ \A o \in Owners : frame[o] # None => \A l \in Range(frame[o].entered) :
       l.owner = o /\ target[o] # None /\ l.function \in target[o].aliases

(* A callback is told a logical method, and given a typed layout, only if  *)
(* the target of its own owner was not known to be shared when it was      *)
(* selected (invocation.h:71-73), and no on_enter starts on a shared entry *)
(* under a hook that did not ask for it (late_shared_fail_closed and the   *)
(* break of the enter loop), although the hook may have been installed by  *)
(* another owner and the evidence may have arrived after the call.         *)
ToldOnlyWhatIsKnown ==
  \A o \in Owners : InCallback(o) =>
    LET told == frame[o].told IN
    /\ told.shared => ~told.logical /\ ~told.typed
    /\ told.typed => told.logical /\ told.listener.layout
    /\ frame[o].step = "enter" /\ told.shared => hook.optIn

(* Evidence only grows while a target lives: what was shared stays shared, *)
(* counts and aliases are not forgotten.  And a method comes out of        *)
(* find_method knowing at least what the owner's live directory counts,    *)
(* unless its target was made from a V1 or V2 sidecar: such a target has   *)
(* another payload than the VM reports, GetOrCreate refuses the directory, *)
(* and the method that is returned knows what the sidecar says.            *)
EvidenceGrows ==
  [][\A o \in Owners :
       /\ target[o] # None /\ target'[o] # None =>
            /\ Shared(target[o]) => Shared(target'[o])
            /\ target'[o].count >= target[o].count
            /\ target[o].aliases \subseteq target'[o].aliases
       /\ \A f \in live[o] :
            f \in methods'[o] \ methods[o] /\ target'[o].payload = "payload"
              => target'[o].count >= Cardinality(live[o])]_vars
=============================================================================
