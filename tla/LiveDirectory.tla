---------------------------- MODULE LiveDirectory ----------------------------
(***************************************************************************)
(* The stable live Function directory of one isolate group: how a          *)
(* bootstrap reuses it, extends it with the Functions of loading units     *)
(* that were loaded since, or builds it from the whole heap, and how a     *)
(* transition of the image set prunes it.                                  *)
(*                                                                         *)
(* Every step of the code is one section under runtime->mutex, and a       *)
(* bootstrap holds an observation of the heap, during which it does not    *)
(* change.  Meanwhile, the loader maps units, the isolate group loads      *)
(* them, and an engine restart gives the group another semantic context.   *)
(*                                                                         *)
(* A Function is known by its Code; the addresses of the heap objects,     *)
(* which move, are not part of the directory.  RuntimeImageId and          *)
(* incarnation epoch are one number, the owner: what the code compares are *)
(* both, or the id of a record whose epoch was compared before.            *)
(***************************************************************************)
EXTENDS Integers, FiniteSets, Functions

CONSTANTS
  Functions,     \* Function objects of the program
  Codes,         \* Code objects of the program
  Units,         \* deferred loading units
  Root,          \* the root loading unit
  CodeOf,        \* the Code of each Function, once its unit is loaded
  UnitOf,        \* the unit whose instructions hold each Code
  OwnerOf,       \* Code.owner: a Function or None
  Listed,        \* Functions that are in Class.functions
  Closures,      \* Functions of a closure kind
  Typed,         \* Functions with a readable FunctionType
  TableUnits,    \* units whose InstructionsTable proves unique
  Rows,          \* ABI rows the two index capabilities can be bound to
  None,          \* no value
  MaxOwner,      \* bound of this model: image owners
  MaxGeneration, \* bound of this model: runtime generations
  MaxContext     \* bound of this model: semantic contexts

DirectoryAssumption ==
  /\ IsFiniteSet(Functions) /\ IsFiniteSet(Codes) /\ IsFiniteSet(Units)
  /\ Root \notin Units /\ None \notin Functions \cup Codes
  /\ CodeOf \in [Functions -> Codes]
  /\ UnitOf \in [Codes -> {Root} \cup Units]
  /\ OwnerOf \in [Codes -> Functions \cup {None}]
  /\ Listed \cup Closures \cup Typed \subseteq Functions
  /\ TableUnits \subseteq Units
  /\ \A c \in Codes : OwnerOf[c] # None => CodeOf[OwnerOf[c]] = c
  /\ MaxOwner \in Nat /\ MaxGeneration \in Nat \ {0} /\ MaxContext \in Nat \ {0}

VARIABLES
  mapped,     \* which mapping of each unit is there, 0 for none
  loaded,     \* units with LoadingUnit.base_objects
  heap,       \* the semantic context of the group in the VM
  generation, \* the generation of the group
  images,     \* RuntimeIsolateGroupState::image_set
  next_owner, \* its allocators
  context,    \* live_vm_context, 0 when it is reset
  index,      \* live_snapshot_index, or None
  current     \* has nothing happened since a bootstrap returned OK?

vm == <<mapped, loaded, heap>>
group == <<generation, images, next_owner, context, index>>
vars == <<vm, group, current>>

ImageType ==
  [unit : {Root} \cup Units, base : Nat, owner : Nat, generation : Nat,
   lifecycle : {"active", "draining"}, live : Nat, hash : BOOLEAN,
   state : {"unbound", "not_loaded", "loaded"}]

Deferred(is) == {i \in is : i.unit # Root}

EntryKinds == {"default", "unchecked", "monomorphic", "monomorphic_unchecked"}

(* A closure is only called through its default entry.                     *)
Kinds(f) == IF f \in Closures THEN {"default"} ELSE EntryKinds

-----------------------------------------------------------------------------
(* Reading the heap.                                                       *)

(* ResolveRuntimeInstructionImage: the image that holds a Code.            *)
Holding(is, c) == {i \in is : i.unit = UnitOf[c] /\ i.base = mapped[i.unit]}

(* A Function of a unit that is not loaded has the Code of a stub.         *)
IsLive(c) == UnitOf[c] \in {Root} \cup loaded

ClassSlot(f) == <<"class", f>>
TableSlot(c) == <<"table", c>>
NoSlot == <<"none", None>>

HasStableOwnerSlot(info) == info.slot # NoSlot

(* CollectProvenLiveFunction: entry, owner and payload of its Code prove,  *)
(* and all of it is in one image.                                          *)
Provable(is, f) ==
  /\ IsLive(CodeOf[f]) /\ Holding(is, CodeOf[f]) # {}
  /\ OwnerOf[CodeOf[f]] # None

FunctionInfo(is, f, slot) ==
  LET i == CHOOSE i \in Holding(is, CodeOf[f]) : TRUE
  IN [function |-> f, slot |-> slot, owner |-> i.owner, generation |-> i.generation]

(* ResolveFunctionOwnerSlot, and what CollectDeferredFunction falls back   *)
(* to.                                                                     *)
OwnerSlot(f, c) ==
  IF f \in Listed THEN ClassSlot(f)
  ELSE IF UnitOf[c] \in TableUnits THEN TableSlot(c) ELSE NoSlot

(* The walk over the classes and the top-level classes.                    *)
ClassWalk(is) == {f \in Listed : Provable(is, f)}

(* The Codes a walk over deferred units visits: in the InstructionsTable   *)
(* of the unit, or among its base_objects.                                 *)
UnitCodes(is, owners) ==
  {c \in Codes : UnitOf[c] \in loaded /\ \E i \in Holding(is, c) : i.owner \in owners}

(* Of each of them, the Function that Code.owner names.                    *)
UnitWalk(is, owners) == {OwnerOf[c] : c \in UnitCodes(is, owners)} \ {None}

Skipped(is, owners) == {c \in UnitCodes(is, owners) : OwnerOf[c] = None}

DeferredOwners(is) == {i.owner : i \in Deferred(is)}

CollectedFunctions(is) == ClassWalk(is) \cup UnitWalk(is, DeferredOwners(is))

CollectAll(is) ==
  {FunctionInfo(is, f, OwnerSlot(f, CodeOf[f])) : f \in CollectedFunctions(is)}

CollectDeferred(is, owners) ==
  {FunctionInfo(is, f, OwnerSlot(f, CodeOf[f])) : f \in UnitWalk(is, owners)}

LoadState(u) == IF u \in loaded THEN "loaded" ELSE "not_loaded"

(* BindDeferredLoadState for what the probe of the loading units says.     *)
Observe(is) ==
  {[i EXCEPT !.state = IF i.unit = Root THEN @ ELSE LoadState(i.unit)] : i \in is}

-----------------------------------------------------------------------------
(* The directory: an info and its semantics for each Function, a record    *)
(* for each of its entries, and how many Functions share each entry.       *)

RecordsOf(infos) == UNION {{[info |-> i, kind |-> k] : k \in Kinds(i.function)} : i \in infos}

(* RecomputeLiveDirectoryAliasMetadata.                                    *)
AliasCounts(infos) ==
  [e \in Codes \X EntryKinds |->
     Cardinality({i \in infos : CodeOf[i.function] = e[1] /\ e[2] \in Kinds(i.function)})]

SemanticsOf(infos) == {i \in infos : i.function \in Typed}

(* AppendLiveSnapshotRecord for each record of a collection.               *)
AppendRecords(base, infos) ==
  [base EXCEPT !.infos     = @ \cup infos,
               !.records   = @ \cup RecordsOf(infos),
               !.semantics = @ \cup SemanticsOf(infos)]

Empty(row) == [row |-> row, infos |-> {}, records |-> {}, semantics |-> {},
               counts |-> AliasCounts({})]

(* Mutant: the aliases are those of the directory that is edited.           *)
RecountedMutant(ix) == ix

Recounted(ix) == [ix EXCEPT !.counts = AliasCounts(ix.infos)]

(* BuildLiveSnapshotIndexForImages.                                        *)
Build(is, row) == Recounted(AppendRecords(Empty(row), CollectAll(is)))

Erase(ix, gone) ==
  [ix EXCEPT !.infos     = @ \ gone,
             !.records   = {r \in @ : r.info \notin gone},
             !.semantics = @ \ gone]

(* The images a record can belong to: id, epochs and generation agree.     *)
SameOwner(info, i) == info.owner = i.owner /\ info.generation = i.generation

LiveCount(infos, i) == Cardinality({x \in infos : x.owner = i.owner})

(* RuntimeImageSet::BindLiveEntries.                                       *)
BindLiveEntries(is, infos) == {[i EXCEPT !.live = LiveCount(infos, i)] : i \in is}

BindProgramHash(is) == {[i EXCEPT !.hash = @ \/ i.unit # Root] : i \in is}

(* Mutant: a unit that was loaded since is no reason to refuse.            *)
UnchangedMutant(is) == \A i \in Deferred(is) : i.state # "unbound"

SameDeferredLoadStates(is) == \A i \in Deferred(is) : i.state = LoadState(i.unit)

(* An image no directory has been bound to yet.                            *)
Pristine(i) == i.live = 0 /\ ~i.hash /\ i.state = "unbound"

(* ValidateReusableLiveSnapshotIndex.                                      *)
Reusable(ix, is, row, additions) ==
  /\ ix # None /\ ix.row = row /\ is # {} /\ ix.infos # {}
  /\ \A x \in ix.infos \cup {r.info : r \in ix.records} \cup ix.semantics :
       \E i \in is : i.lifecycle = "active" /\ SameOwner(x, i)
  /\ \A i \in is : i.lifecycle = "active" /\ i.live = LiveCount(ix.infos, i)
  /\ \A i \in Deferred(is) :
       (i.hash /\ i.state # "unbound") \/ (additions /\ Pristine(i))

(* BindStableLiveSnapshotImageSemantics.                                   *)
CanBindStable(ix, is) ==
  /\ is # {}
  /\ \A x, y \in ix.infos : HasStableOwnerSlot(x) /\ x.slot = y.slot => x = y
  /\ \A x \in ix.infos : \E i \in is : i.lifecycle = "active" /\ SameOwner(x, i)

(* PruneStableLiveSnapshotIndexForImages.                                  *)
Prune(ix, retired) ==
  Recounted(Erase(ix, {x \in ix.infos : \E i \in retired : SameOwner(x, i)}))

CanPrune(ix, retired) ==
  /\ \A i \in retired : i.live = Cardinality({x \in ix.infos : SameOwner(x, i)})
  /\ Prune(ix, retired).infos # {}

(* BuildDeferredLiveSnapshotIndexIncrement: the owner slots of the delta   *)
(* replace those of the directory.                                         *)
Increment(ix, is, owners) ==
  LET delta == CollectDeferred(is, owners)
      replaced == {x \in ix.infos : HasStableOwnerSlot(x) /\ \E d \in delta : d.slot = x.slot}
  IN Recounted(AppendRecords(Erase(ix, replaced), delta))

(* It is refused when a Code of the unit has no Function, or a Function no *)
(* slot.                                                                   *)
CanIncrement(ix, is, owners) ==
  /\ \A x \in ix.infos : x.owner \in owners => HasStableOwnerSlot(x)
  /\ Skipped(is, owners) = {}
  /\ \A d \in CollectDeferred(is, owners) : HasStableOwnerSlot(d)

-----------------------------------------------------------------------------
(* TransitionRuntimeImages.  drained: could the hooks of the affected      *)
(* images be removed?                                                      *)

Affected(staged, whole) ==
  {i \in images : whole \/ ~\E s \in staged : SameOwner(s, i)}

Preserved(staged) ==
  {IF \E i \in images : SameOwner(s, i) /\ s.base = i.base
     THEN LET i == CHOOSE i \in images : SameOwner(s, i)
          IN [s EXCEPT !.live = i.live, !.hash = i.hash, !.state = i.state]
     ELSE s : s \in staged}

Activated(is) == {[i EXCEPT !.lifecycle = "active"] : i \in is}

Closed(affected) ==
  {[i EXCEPT !.lifecycle = IF i \in affected THEN "draining" ELSE @] : i \in images}

Published(staged, whole) ==
  LET affected == Affected(staged, whole)
      fresh    == Activated(IF whole THEN staged ELSE Preserved(staged))
      prunes   == /\ ~whole /\ affected # {} /\ index # None
                  /\ affected = Deferred(affected) /\ CanPrune(index, affected)
                  /\ CanBindStable(Prune(index, affected), fresh)
      keeps    == ~whole /\ affected = {}
  IN /\ images' = IF prunes THEN BindLiveEntries(fresh, Prune(index, affected).infos)
                            ELSE fresh
     /\ index' = IF prunes THEN Prune(index, affected)
                 ELSE IF keeps THEN index ELSE None

Transition(staged, whole, drained) ==
  \/ /\ drained
     /\ Published(staged, whole)
  \/ /\ ~drained
     /\ images' = Closed(Affected(staged, whole))
     /\ UNCHANGED index

NewImage(u, owner) ==
  [unit |-> u, base |-> mapped[u], owner |-> owner, generation |-> generation,
   lifecycle |-> "active", live |-> 0, hash |-> FALSE, state |-> "unbound"]

Present == {u \in DOMAIN mapped : mapped[u] # 0}

StillMapped(i) == i.base = mapped[i.unit]

(* What BuildRuntimeImageSet finds of the units that already have an image. *)
Kept == {NewImage(i.unit, i.owner) : i \in {i \in images : StillMapped(i)}}

Found == Present \ {i.unit : i \in Kept}

(* dartplant_runtime_refresh_modules, when the units that are mapped       *)
(* changed.  Removing the hooks of images whose module is gone cannot      *)
(* fail.                                                                   *)
Refresh(drained) ==
  /\ Found # {} \/ \E i \in images : ~StillMapped(i)
  /\ next_owner + Cardinality(Found) <= MaxOwner + 1
  /\ \E owner \in [Found -> next_owner .. next_owner + Cardinality(Found) - 1] :
       LET staged == Kept \cup {NewImage(u, owner[u]) : u \in Found}
       IN /\ IsInjective(owner)
          /\ drained \/ \E i \in Affected(staged, FALSE) : StillMapped(i)
          /\ Transition(staged, FALSE, drained)
  /\ next_owner' = IF drained THEN next_owner + Cardinality(Found) ELSE next_owner
  /\ current' = FALSE
  /\ UNCHANGED <<vm, generation, context>>

(* dartplant_runtime_on_module_unloading for the module of a unit.         *)
UnloadingUnit(u, drained) ==
  /\ u \in Units /\ \E i \in images : i.unit = u
  /\ Transition({i \in images : i.unit # u}, FALSE, drained)
  /\ current' = FALSE
  /\ UNCHANGED <<vm, generation, next_owner, context>>

(* The same for the app module.  The empty set that is published has       *)
(* allocators of its own.                                                  *)
UnloadingApp(drained) ==
  /\ images # {} /\ generation < MaxGeneration
  /\ generation' = generation + 1
  /\ Transition({}, TRUE, drained)
  /\ context' = IF drained THEN 0 ELSE context
  /\ next_owner' = IF drained THEN 1 ELSE next_owner
  /\ current' = FALSE
  /\ UNCHANGED vm

-----------------------------------------------------------------------------
(* BuildLiveIndexForContext, after the roots are proved.                   *)

SemanticContextChanged == context \notin {0, heap}

(* The generation advances before anything of the new context is           *)
(* published.  The set that is staged is a copy of the old one.            *)
AdvanceGeneration(drained) ==
  /\ SemanticContextChanged /\ generation < MaxGeneration
  /\ generation' = generation + 1
  /\ Transition({[i EXCEPT !.generation = generation + 1] : i \in images}, TRUE, drained)
  /\ context' = IF drained THEN 0 ELSE context
  /\ current' = FALSE
  /\ UNCHANGED <<vm, next_owner>>

CanBootstrap == \E i \in images : i.unit = Root

Publish(is, ix) ==
  /\ images' = Activated({[i EXCEPT !.generation = generation] : i \in is})
  /\ index' = ix

NewlyLoaded(is) ==
  {i.owner : i \in {i \in Deferred(is) : i.state # "loaded" /\ i.unit \in loaded}}

(* From NotLoaded to Loaded, or the first observation of an image.         *)
DeltaEligible(is) ==
  \A i \in Deferred(is) :
    \/ i.state = LoadState(i.unit)
    \/ i.state = "not_loaded"
    \/ Pristine(i)

Extends(row) ==
  /\ ~SameDeferredLoadStates(images) /\ Reusable(index, images, row, TRUE)
  /\ DeltaEligible(images)
  /\ NewlyLoaded(images) = {} \/ CanIncrement(index, images, NewlyLoaded(images))

Reuses(row) == SameDeferredLoadStates(images) /\ Reusable(index, images, row, FALSE)

Extended == IF NewlyLoaded(images) = {} THEN index
                                        ELSE Increment(index, images, NewlyLoaded(images))

ReuseIndex(row) ==
  /\ Reuses(row)
  /\ UNCHANGED <<images, index>>

ExtendIndex(row) ==
  /\ Extends(row) /\ CanBindStable(Extended, Observe(images))
  /\ Publish(BindProgramHash(BindLiveEntries(Observe(images), Extended.infos)), Extended)

RebuildIndex(row) ==
  /\ ~Reuses(row)
  /\ ~(Extends(row) /\ CanBindStable(Extended, Observe(images)))
  /\ CollectAll(images) # {}
  /\ Publish(BindProgramHash(Observe(BindLiveEntries(images, CollectAll(images)))),
             Build(images, row))

Bootstrap(row) ==
  /\ CanBootstrap /\ ~SemanticContextChanged
  /\ ReuseIndex(row) \/ ExtendIndex(row) \/ RebuildIndex(row)
  /\ context' = heap
  /\ current' = TRUE
  /\ UNCHANGED <<vm, generation, next_owner>>

-----------------------------------------------------------------------------
(* The loader and the VM.                                                  *)

Map(u) ==
  /\ u \in Units /\ mapped[u] = 0
  /\ mapped' = [mapped EXCEPT ![u] = heap]
  /\ UNCHANGED <<loaded, heap>>

Load(u) ==
  /\ u \in Units \ loaded /\ mapped[u] # 0
  /\ loaded' = loaded \cup {u}
  /\ UNCHANGED <<mapped, heap>>

(* Another engine: another heap, and the units are mapped again.           *)
Restart ==
  /\ heap < MaxContext
  /\ heap' = heap + 1
  /\ loaded' = {}
  /\ mapped' = [u \in DOMAIN mapped |-> IF u = Root THEN mapped[u] ELSE 0]

Environment ==
  /\ (\E u \in Units : Map(u) \/ Load(u)) \/ Restart
  /\ current' = FALSE
  /\ UNCHANGED group

Init ==
  /\ mapped = [u \in {Root} \cup Units |-> IF u = Root THEN 1 ELSE 0]
  /\ loaded = {}
  /\ heap = 1
  /\ generation = 1
  /\ images = {}
  /\ next_owner = 1
  /\ context = 0
  /\ index = None
  /\ current = FALSE

Next ==
  \/ \E drained \in BOOLEAN : Refresh(drained)
  \/ \E u \in Units, drained \in BOOLEAN : UnloadingUnit(u, drained)
  \/ \E drained \in BOOLEAN : UnloadingApp(drained) \/ AdvanceGeneration(drained)
  \/ \E row \in Rows : Bootstrap(row)
  \/ Environment

Spec == Init /\ [][Next]_vars

-----------------------------------------------------------------------------
(* Properties.                                                             *)

TypeOK ==
  /\ mapped \in [{Root} \cup Units -> 0 .. MaxContext] /\ loaded \subseteq Units
  /\ heap \in 1 .. MaxContext /\ context \in 0 .. MaxContext
  /\ generation \in 1 .. MaxGeneration /\ next_owner \in 1 .. MaxOwner + 1
  /\ images \subseteq ImageType /\ current \in BOOLEAN
  /\ index = None \/ {x.function : x \in index.infos} \subseteq Functions

(* The parts of a directory agree: one info for each Function and each     *)
(* owner slot, its records, its semantics and the aliases of its entries.  *)
PartsAgree ==
  /\ \A x, y \in index.infos :
       x.function = y.function \/ (HasStableOwnerSlot(x) /\ x.slot = y.slot) => x = y
  /\ index.records = RecordsOf(index.infos)
  /\ index.semantics = SemanticsOf(index.infos)
  /\ \A e \in Codes \X EntryKinds :
       index.counts[e] =
         Cardinality({r \in index.records : CodeOf[r.info.function] = e[1] /\ r.kind = e[2]})

(* Each image counts its Functions in the directory, and a record that     *)
(* resolves to an image that is active and still mapped names a Function   *)
(* whose Code is there.                                                    *)
ImagesAgree ==
  \A i \in images :
    /\ i.live = LiveCount(index.infos, i)
    /\ \A x \in index.infos :
         SameOwner(x, i) /\ i.lifecycle = "active" /\ StillMapped(i)
           => UnitOf[CodeOf[x.function]] = i.unit /\ IsLive(CodeOf[x.function])

(* A directory that is kept across a transition of the images, or extended *)
(* by a delta, stays a directory of the images that are there: it is the   *)
(* table every lookup by name reads (PruneStableLiveSnapshotIndexForImages *)
(* and BuildDeferredLiveSnapshotIndexIncrement edit it in place).          *)
DirectoryAgrees == TypeOK /\ (index # None => PartsAgree /\ ImagesAgree)

(* A bootstrap that returns OK has published every Function that a walk    *)
(* over the whole heap would find, although it reused or extended what an  *)
(* earlier one found ("Delta refresh is an optimization only").            *)
PublishedIsComplete ==
  current => {x.function : x \in index.infos} = CollectedFunctions(images)
===============================================================================
