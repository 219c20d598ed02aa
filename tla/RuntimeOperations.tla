-------------------------- MODULE RuntimeOperations --------------------------
(***************************************************************************)
(* One DartPlantRuntime: the operations that hold a lease on it, the       *)
(* thread that refreshes it after loader events, the images it publishes   *)
(* for its isolate group, and the hooks that belong to them.               *)
(*                                                                         *)
(* A step is one section under RuntimeRegistryMutex() or runtime->mutex,   *)
(* or one enumeration of the loaded modules, which is done outside both.   *)
(* Meanwhile the loader maps and unmaps modules as it likes.               *)
(***************************************************************************)
EXTENDS Integers, FiniteSets, Sequences, SequencesExt

CONSTANTS
  Clients,       \* threads that call the functions of the runtime
  Worker,        \* the thread of StartRuntimeModuleRefreshWorker
  Units,         \* deferred loading units; the root is unit 1
  Bases,         \* where a module can be mapped
  Contexts,      \* semantic contexts of the isolate group
  None,          \* no value
  HostMayFail,   \* may the host fail to unhook?
  MaxEvents,     \* bound of this model: loader events
  MaxOperations, \* bound of this model: operations of the clients
  MaxRequests    \* bound of this model: scheduled refreshes

Root == 1
Modules == {Root} \cup Units
Threads == Clients \cup {Worker}

ASSUME OperationsAssumption ==
  /\ IsFiniteSet(Clients) /\ IsFiniteSet(Units) /\ Worker \notin Clients
  /\ Units \subseteq Nat \ {0, Root}
  /\ None \notin Bases \cup Contexts
  /\ HostMayFail \in BOOLEAN
  /\ MaxEvents \in Nat /\ MaxOperations \in Nat /\ MaxRequests \in Nat

VARIABLES
  mapped,   \* where each module is mapped, and by which event of the loader
  events,   \* events of the loader so far
  asked,    \* for each requested epoch that is not completed, the events by then
  runtime,  \* none, creating, live, closing, deleted
  active_operations, \* of its RuntimeRegistration
  pc,       \* what each thread is doing
  seen,     \* what a thread's last EnumerateModules returned, and when
  kept,     \* what a bootstrap has read before it observed the heap
  begun,    \* operations begun so far
  worker,   \* completed_epoch, the requests in hand, what it saw, its lease
  process,  \* RuntimeProcessState: modules and the next group epoch
  group,    \* the active RuntimeIsolateGroupState
  closed,   \* the owners that have left the image set
  method,   \* the last DartPlantMethod that was resolved
  hooks     \* hook records made for methods of the runtime

loader == <<mapped, events, asked>>
threads == <<active_operations, pc, seen, kept, begun>>
vars == <<loader, runtime, threads, worker, process, group, closed, method, hooks>>

-----------------------------------------------------------------------------
(* Images and their owners.  Two mappings with the same base have the same *)
(* SameImageIdentity.  One engine: its epoch is the same for all.          *)

ImageType ==
  [unit : Modules, base : Bases, id : Nat, epoch : Nat, generation : Nat,
   group : Nat, lifecycle : {"active", "draining"}, live : BOOLEAN]

OwnerIdentity(i) ==
  [generation |-> i.generation, group |-> i.group, id |-> i.id, epoch |-> i.epoch]

Owners(images) == {OwnerIdentity(i) : i \in images}

Nowhere == [m \in Modules |-> None]

(* MappingStillPresent                                                     *)
StillPresent(modules, i) == modules[i.unit] = i.base

(* BuildRuntimeImageSet finds no unit without its root.                    *)
Present(modules) ==
  IF modules[Root] = None THEN {} ELSE {m \in Modules : modules[m] # None}

SameIdentity(images, modules) ==
  {<<i.unit, i.base>> : i \in images} = {<<m, modules[m]>> : m \in Present(modules)}

OfUnit(images, m) == CHOOSE i \in images : i.unit = m

Survives(images, modules, m) ==
  \E i \in images : i.unit = m /\ i.base = modules[m]

(* Mutant: the cursors of the fresh set are kept.                          *)
FreshCursorsMutant(g) == [id |-> 1, epoch |-> 1]

(* Mutant: they go on from the largest value that is present.              *)
PresentCursorsMutant(g) ==
  [id    |-> 1 + Cardinality({n \in 1 .. g.next_id : \E i \in g.images : n <= i.id}),
   epoch |-> 1 + Cardinality({n \in 1 .. g.next_epoch : \E i \in g.images : n <= i.epoch})]

(* Where the allocators of a staged set start: an empty set is not         *)
(* reconciled with.                                                        *)
Cursors(g) ==
  IF g.images = {} THEN [id |-> 1, epoch |-> 1]
                   ELSE [id |-> g.next_id, epoch |-> g.next_epoch]

NewIds(g, modules) ==
  {m \in Present(modules) : ~\E i \in g.images : i.unit = m}

NewEpochs(g, modules) ==
  {m \in Present(modules) : ~Survives(g.images, modules, m)}

Rank(m, ms) == Cardinality({k \in ms : k < m})

(* ReconcileOwnershipFrom, BindGeneration and BindOwnerEpochs: survivors   *)
(* keep id and epoch, a unit that was mapped again keeps its id.           *)
Staged(g, modules, generation, epoch) ==
  {[unit |-> m, base |-> modules[m], generation |-> generation, group |-> epoch,
    id |-> IF m \in NewIds(g, modules)
             THEN Cursors(g).id + Rank(m, NewIds(g, modules))
             ELSE OfUnit(g.images, m).id,
    epoch |-> IF m \in NewEpochs(g, modules)
                THEN Cursors(g).epoch + Rank(m, NewEpochs(g, modules))
                ELSE OfUnit(g.images, m).epoch,
    lifecycle |-> "active", live |-> FALSE] : m \in Present(modules)}

-----------------------------------------------------------------------------
(* Hooks.  A record with a failed unhook has no listeners any more, but is *)
(* swept again with the group it was installed for.                        *)

HookType ==
  [token : Nat, unit : Modules, base : Bases, load : Nat, owner : [generation : Nat,
   group : Nat, id : Nat, epoch : Nat], status : {"installed", "failed", "retired"}]

HooksOf(g) == {h \in hooks : h.token = g.token}

(* HookRecords of an image: image id and incarnation epoch.                *)
HooksOfImage(g, i) ==
  {h \in HooksOf(g) : h.owner.id = i.id /\ h.owner.epoch = i.epoch}

(* The images a transition drains.                                         *)
Affected(g, staged, whole) ==
  {i \in g.images : whole \/ OwnerIdentity(i) \notin Owners(staged)}

(* Mutant: only a transition of the whole image set sweeps hooks.          *)
SweptMutant(g, staged, whole) == IF whole THEN HooksOf(g) ELSE {}

(* The hooks that a transition sweeps.                                     *)
Swept(g, staged, whole) ==
  IF whole THEN HooksOf(g)
           ELSE UNION {HooksOfImage(g, i) : i \in Affected(g, staged, whole)}

(* Those of them that are retired: nobody restores code that the given     *)
(* modules no longer contain.                                              *)
Retired(g, staged, modules, whole) ==
  LET gone == {i \in Affected(g, staged, whole) : ~StillPresent(modules, i)}
  IN  IF ~whole THEN UNION {HooksOfImage(g, i) : i \in gone}
      ELSE IF gone # {} /\ gone = Affected(g, staged, whole) THEN HooksOf(g) ELSE {}

Status(hs, s) == {[h EXCEPT !.status = s] : h \in hs}

(* Which hooks the host may fail to unhook.                                *)
Failures(hs) ==
  {f \in SUBSET {h \in hs : h.status # "retired"} : f # {} => HostMayFail}

(* Invalidate... and Retire...: the swept hooks lose their listeners.      *)
Sweep(swept, retired, failed) ==
  hooks' = (hooks \ {h \in swept : h.status # "retired"})
             \cup Status(retired, "retired") \cup Status(failed, "failed")

-----------------------------------------------------------------------------
(* Transitions of the group.                                               *)

(* Mutant: the entries of the images that leave are not pruned.            *)
KeptIndexMutant(g, staged, whole) == IF whole THEN {} ELSE g.index

(* What remains of the live index when owners leave: nothing, unless only  *)
(* deferred units leave and the index is exact about them.                 *)
KeptIndex(g, staged, whole) ==
  LET affected == Affected(g, staged, whole)
      rest == g.index \ Owners(affected)
      prunes == /\ \A i \in affected : i.unit # Root
                /\ \A i \in affected : i.live <=> OwnerIdentity(i) \in g.index
                /\ rest # {} /\ rest \subseteq Owners(staged)
  IN  IF whole \/ g.index = {} \/ (affected # {} /\ ~prunes) THEN {} ELSE rest

(* PreserveSemanticBindingsFrom, BindStableLiveSnapshotImageSemantics      *)
BoundImages(g, staged, whole) ==
  {[i EXCEPT !.lifecycle = "active",
             !.live = ~whole /\ \E j \in g.images : /\ OwnerIdentity(j) = OwnerIdentity(i)
                                                    /\ j.unit = i.unit /\ j.base = i.base
                                                    /\ j.live] : i \in staged}

(* TransitionRuntimeImages has drained the affected images.                *)
PublishedGroup(g, staged, whole) ==
  [g EXCEPT !.images = BoundImages(g, staged, whole),
            !.index  = KeptIndex(g, staged, whole)]

(* TransitionRuntimeImages could not drain them: they stay draining.       *)
DrainingGroup(g, staged, whole) ==
  [g EXCEPT !.images = {IF i \in Affected(g, staged, whole)
                          THEN [i EXCEPT !.lifecycle = "draining"] ELSE i : i \in g.images},
            !.state  = "failed"]

NewGroup(token) ==
  [token |-> token, retired |-> FALSE, generation |-> 1, epoch |-> 0, app |-> None,
   images |-> {}, next_id |-> 1, next_epoch |-> 1, context |-> None, index |-> {},
   state |-> "created", matched |-> FALSE]

NewProcess == [modules |-> Nowhere, engine |-> FALSE, next_epoch |-> 1]

(* The generation pointer of a new group.  A number that no hook and no    *)
(* method has can be given again.                                          *)
NextToken ==
  CHOOSE n \in 1 .. Cardinality(hooks) + 2 :
    /\ n \notin {h.token : h \in hooks} /\ (method # None => method.token # n)
    /\ \A k \in 1 .. n - 1 : k \in {h.token : h \in hooks} \/ (method # None /\ method.token = k)

(* The old generation is closed before anything is drained.               *)
NextGeneration(g) == [g EXCEPT !.generation = @ + 1]

RetiredGroup(g) ==
  [NextGeneration(g) EXCEPT !.images = {}, !.index = {}, !.context = None,
                            !.state = "created", !.matched = FALSE, !.retired = TRUE,
                            !.next_id = 1, !.next_epoch = 1]

(* The given group takes the place of the active one: the history of the   *)
(* owners that have left grows.                                            *)
Publish(g) ==
  /\ group' = g
  /\ closed' = closed \cup (Owners(group.images) \ Owners(g.images))

(* TransitionRuntimeImages on the active group: done is what the caller    *)
(* publishes when the hooks are drained, draining what it leaves if not.   *)
Transition(g, staged, modules, whole, done, draining) ==
  LET swept   == Swept(g, staged, whole)
      retired == Retired(g, staged, modules, whole)
  IN  \E failed \in Failures(swept \ retired) :
        /\ Sweep(swept, retired, failed)
        /\ IF failed = {} THEN done ELSE draining

-----------------------------------------------------------------------------
(* Refresh of the group for a list of modules.                             *)

(* Is every deferred unit of the list usable for its root?                 *)
Usable(modules) ==
  IF Present(modules) \cap Units = {} THEN {TRUE} ELSE BOOLEAN

Changed(g, modules) == ~process.engine \/ modules[Root] # g.app

RefreshedGeneration(g, modules) ==
  IF Changed(g, modules) THEN g.generation + 1 ELSE g.generation

RefreshedImages(g, modules) ==
  Staged(g, modules, RefreshedGeneration(g, modules),
         IF Changed(g, modules) THEN process.next_epoch ELSE g.epoch)

(* TransitionRuntimeImages is called, and has nothing left to drain.       *)
Moved(g, modules) ==
  IF Changed(g, modules) \/ ~SameIdentity(g.images, modules) \/ g.images = {}
    THEN [PublishedGroup(g, RefreshedImages(g, modules), Changed(g, modules))
            EXCEPT !.next_id    = Cursors(g).id + Cardinality(NewIds(g, modules)),
                   !.next_epoch = Cursors(g).epoch + Cardinality(NewEpochs(g, modules))]
    ELSE g

Refreshed(g, modules) ==
  LET changed == Changed(g, modules)
      moved   == [Moved(g, modules) EXCEPT !.generation = RefreshedGeneration(g, modules),
                                           !.context = IF changed THEN None ELSE @]
  IN  IF modules[Root] = None
        THEN [moved EXCEPT !.retired = TRUE, !.state = "created", !.matched = FALSE]
        ELSE [moved EXCEPT !.epoch = IF changed THEN process.next_epoch ELSE @,
                           !.app = modules[Root], !.matched = TRUE,
                           !.state = IF changed \/ ~SameIdentity(g.images, modules) \/ @ # "ready"
                                       THEN "images_ready" ELSE @]

RefreshedProcess(g, modules) ==
  [modules |-> modules, engine |-> TRUE,
   next_epoch |-> IF Changed(g, modules) /\ modules[Root] # None
                    THEN process.next_epoch + 1 ELSE process.next_epoch]

(* RefreshRuntimeModules for a group g that has taken the active place.    *)
(* Only the active group has images and hooks to drain.                    *)
RefreshGroup(g, modules) ==
  \E usable \in Usable(modules) :
    IF ~usable
      THEN /\ Publish([g EXCEPT !.state = "failed"])
           /\ process' = process
      ELSE /\ Publish(Refreshed(g, modules))
           /\ process' = RefreshedProcess(g, modules)

(* RefreshRuntimeModules for the active group                              *)
RefreshActive(modules) ==
  \E usable \in Usable(modules) :
    IF ~usable
      THEN /\ Publish([group EXCEPT !.state = "failed"])
           /\ UNCHANGED <<process, hooks>>
      ELSE IF Changed(group, modules) \/ ~SameIdentity(group.images, modules)
        THEN Transition(group, RefreshedImages(group, modules), modules,
                        Changed(group, modules),
                        Publish(Refreshed(group, modules))
                          /\ process' = RefreshedProcess(group, modules),
                        Publish([DrainingGroup(group, RefreshedImages(group, modules),
                                               Changed(group, modules))
                                   EXCEPT !.generation = RefreshedGeneration(group, modules)])
                          /\ process' = [process EXCEPT !.modules = modules])
        ELSE /\ Publish(Refreshed(group, modules))
             /\ process' = RefreshedProcess(group, modules)
             /\ UNCHANGED hooks

(* EnsureFreshIsolateGroupOwnerLocked and the refresh.  Without an app the *)
(* fresh group is retired at once, and nobody can tell it from the old one.*)
RefreshRuntimeModules(modules) ==
  \/ /\ group.retired /\ modules[Root] = None
     /\ process' = [process EXCEPT !.modules = modules, !.engine = TRUE]
     /\ UNCHANGED <<group, closed, hooks>>
  \/ /\ group.retired /\ modules[Root] # None
     /\ RefreshGroup(NewGroup(NextToken), modules)
     /\ UNCHANGED hooks
  \/ ~group.retired /\ RefreshActive(modules)

(* RetireActiveIsolateGroupOwnerLocked, and then what the caller does.     *)
RetireActive(modules, done) ==
  Transition(group, {}, modules, TRUE, done,
             Publish(DrainingGroup(NextGeneration(group), {}, TRUE)) /\ process' = process)

(* RefreshRuntimeOwnerTree: an app that has been mapped elsewhere retires  *)
(* the group before anything else is looked at.                            *)
Remapped(modules) ==
  ~group.retired /\ group.app # None /\ modules[Root] \notin {None, group.app}

RefreshRuntimeOwnerTree(modules) ==
  IF Remapped(modules)
    THEN RetireActive(modules, RefreshGroup(NewGroup(NextToken), modules))
    ELSE RefreshRuntimeModules(modules)

-----------------------------------------------------------------------------
(* The loader.  It tells the worker of a load, or of nothing.  Bound of    *)
(* this model: it is not watched once the runtime is deleted.              *)

Loads == runtime # "deleted" /\ events < MaxEvents

Map(m, b) ==
  /\ mapped[m] = None /\ Loads
  /\ \A k \in Modules : mapped[k] # None => mapped[k].base # b
  /\ mapped' = [mapped EXCEPT ![m] = [base |-> b, load |-> events + 1]]
  /\ events' = events + 1
  /\ UNCHANGED <<asked, runtime, threads, worker, process, group, closed, method, hooks>>

Unmap(m) ==
  /\ mapped[m] # None /\ Loads
  /\ mapped' = [mapped EXCEPT ![m] = None]
  /\ events' = events + 1
  /\ UNCHANGED <<asked, runtime, threads, worker, process, group, closed, method, hooks>>

(* ScheduleRuntimeModuleRefresh.  OnModuleLoaded calls it on the thread    *)
(* that has loaded something, which then must be seen.  Bounds of this     *)
(* model: nothing is asked for twice, or for no runtime.                   *)
Schedule ==
  /\ worker.completed + Len(asked) < MaxRequests /\ runtime \in {"creating", "live"}
  /\ asked # <<>> => Last(asked) < events
  /\ asked' = Append(asked, events)
  /\ UNCHANGED <<mapped, events, runtime, threads, worker, process, group, closed, method, hooks>>

(* EnumerateModules, outside every lock                                    *)
ModulesNow == [m \in Modules |-> IF mapped[m] = None THEN None ELSE mapped[m].base]

Enumerates(t, from, to) ==
  /\ pc[t] = from
  /\ pc' = [pc EXCEPT ![t] = to]
  /\ seen' = [seen EXCEPT ![t] = ModulesNow]

-----------------------------------------------------------------------------
(* dartplant_runtime_create: it is registered before its first refresh,    *)
(* which holds no lease.                                                   *)

Register(t) ==
  /\ runtime = "none" /\ pc[t] = "idle"
  /\ runtime' = "creating"
  /\ pc' = [pc EXCEPT ![t] = "create"]
  /\ UNCHANGED <<loader, active_operations, seen, kept, begun, worker, process, group, closed,
                 method, hooks>>

EnumerateForCreate(t) ==
  /\ Enumerates(t, "create", "create_seen")
  /\ UNCHANGED <<loader, runtime, active_operations, kept, begun, worker, process, group, closed,
                 method, hooks>>

Create(t) ==
  /\ pc[t] = "create_seen"
  /\ RefreshRuntimeModules(seen[t])
  /\ runtime' = "live"
  /\ pc' = [pc EXCEPT ![t] = "idle"] /\ seen' = [seen EXCEPT ![t] = Nowhere]
  /\ UNCHANGED <<loader, active_operations, kept, begun, worker, method>>

-----------------------------------------------------------------------------
(* Operations with a lease.  AcquireRuntimeOperation finds the runtime in  *)
(* the registry; a function that takes runtime->mutex only once is one     *)
(* step, its lease included.                                               *)

CanBegin(t) == runtime = "live" /\ pc[t] = "idle" /\ begun < MaxOperations

Once(t) ==
  /\ CanBegin(t)
  /\ begun' = begun + 1
  /\ UNCHANGED <<loader, runtime, active_operations, pc, seen, kept, worker>>

Acquire(t, to) ==
  /\ CanBegin(t)
  /\ begun' = begun + 1
  /\ active_operations' = active_operations + 1
  /\ pc' = [pc EXCEPT ![t] = to]

(* Mutant: an operation keeps its lease.                                   *)
ReleaseMutant(t) ==
  /\ active_operations' = active_operations
  /\ pc' = [pc EXCEPT ![t] = "idle"]

Release(t) ==
  /\ active_operations' = active_operations - 1
  /\ pc' = [pc EXCEPT ![t] = "idle"]

(* dartplant_runtime_refresh_modules, dartplant_runtime_on_module_loaded   *)
RefreshBegin(t) ==
  /\ Acquire(t, "refresh")
  /\ UNCHANGED <<loader, runtime, seen, kept, worker, process, group, closed, method, hooks>>

EnumerateForRefresh(t) ==
  /\ Enumerates(t, "refresh", "refresh_seen")
  /\ UNCHANGED <<loader, runtime, active_operations, kept, begun, worker, process, group, closed,
                 method, hooks>>

Refresh(t) ==
  /\ pc[t] = "refresh_seen"
  /\ RefreshRuntimeOwnerTree(seen[t])
  /\ Release(t) /\ seen' = [seen EXCEPT ![t] = Nowhere]
  /\ UNCHANGED <<loader, runtime, kept, begun, worker, method>>

(* dartplant_runtime_on_module_unloading for a deferred unit               *)
UnloadingUnit(t, m) ==
  LET staged == {i \in group.images : i.unit # m}
  IN  /\ Once(t)
      /\ \E i \in group.images : i.unit = m
      /\ Transition(group, staged, process.modules, FALSE,
                    Publish([PublishedGroup(group, staged, FALSE) EXCEPT !.state = "images_ready"]),
                    Publish(DrainingGroup(group, staged, FALSE)))
      /\ UNCHANGED <<process, method>>

(* ... and for the app                                                     *)
UnloadingApp(t) ==
  /\ Once(t)
  /\ group.app # None
  /\ Transition(group, {}, process.modules, TRUE,
                Publish(RetiredGroup(group)),
                Publish(DrainingGroup(NextGeneration(group), {}, TRUE)))
  /\ UNCHANGED <<process, method>>

-----------------------------------------------------------------------------
(* Methods and hooks.                                                      *)

(* dartplant_runtime_resolve_method, from the live index                   *)
Resolve(t) ==
  /\ Once(t)
  /\ group.state = "ready"
  /\ \E i \in group.images :
       /\ OwnerIdentity(i) \in group.index
       /\ i.lifecycle = "active" /\ i.live /\ i.generation = group.generation
       /\ method' = [token |-> group.token, generation |-> group.generation,
                     unit |-> i.unit, base |-> i.base, owner |-> OwnerIdentity(i)]
  /\ UNCHANGED <<process, group, closed, hooks>>

(* IsCurrentRuntimeMethod                                                  *)
IsCurrent(m) ==
  /\ m # None /\ m.token = group.token /\ m.generation = group.generation
  /\ \E i \in group.images : /\ i.lifecycle = "active" /\ m.owner = OwnerIdentity(i)
                             /\ m.unit = i.unit /\ m.base = i.base

(* FindHookLocked: a record at the target that is not unhooked             *)
Hooked(m) == \E h \in hooks : h.unit = m.unit /\ h.base = m.base

(* dartplant_runtime_add_listener and the other hooking functions.  The    *)
(* target has to be mapped: the process does not survive anything else.    *)
Hook(t) ==
  /\ Once(t)
  /\ group.state = "ready" /\ group.matched
  /\ IsCurrent(method) /\ ~Hooked(method)
  /\ mapped[method.unit] # None /\ mapped[method.unit].base = method.base
  /\ hooks' = hooks \cup {[token |-> method.token, unit |-> method.unit, base |-> method.base,
                           load |-> mapped[method.unit].load, owner |-> method.owner,
                           status |-> "installed"]}
  /\ UNCHANGED <<process, group, closed, method>>

-----------------------------------------------------------------------------
(* Binding the live heap.                                                  *)

(* What is published when the heap of context c shows the functions of the *)
(* root and of some deferred units.  The index carries the owners that the *)
(* images had before they were bound to the generation.                    *)
IndexedGroup(g, c, indexed) ==
  [g EXCEPT !.images = {[i EXCEPT !.generation = g.generation, !.group = g.epoch,
                                  !.lifecycle = "active", !.live = i.unit \in indexed] :
                        i \in g.images},
            !.index = Owners({i \in g.images : i.unit \in indexed}),
            !.context = c, !.state = "ready"]

Observed(g, c) ==
  \/ Publish(g)
  \/ /\ Root \in {i.unit : i \in g.images}
     /\ \E units \in SUBSET {i.unit : i \in g.images} :
          Root \in units /\ Publish(IndexedGroup(g, c, units))

(* The group that takes the place of one whose isolate group was replaced. *)
SeededGroup ==
  [NewGroup(NextToken) EXCEPT
     !.app = group.app, !.matched = group.matched, !.epoch = process.next_epoch,
     !.next_id = group.next_id, !.next_epoch = group.next_epoch,
     !.images = {[i EXCEPT !.generation = 1, !.group = process.next_epoch,
                           !.lifecycle = "active", !.live = FALSE] : i \in group.images}]

(* BuildLiveIndexForContext: it may stop at any proof that fails.          *)
BuildLiveIndex(c) ==
  \/ UNCHANGED <<process, group, closed, hooks>>
  \/ /\ ~group.retired /\ group.context \in {None, c}
     /\ Observed(group, c)
     /\ UNCHANGED <<process, hooks>>
  \/ /\ ~group.retired /\ group.context \notin {None, c}
     /\ RetireActive(process.modules,
                     Observed(SeededGroup, c)
                       /\ process' = [process EXCEPT !.next_epoch = @ + 1])

(* dartplant_runtime_capture_live_vm, in a callback of a current method    *)
Capture(t, c) ==
  /\ Once(t)
  /\ \E h \in hooks : /\ h.status = "installed" /\ h.token = group.token
                      /\ h.owner.generation = group.generation
                      /\ \E i \in group.images : i.lifecycle = "active" /\ OwnerIdentity(i) = h.owner
                      /\ mapped[h.unit] # None /\ mapped[h.unit].load = h.load
  /\ BuildLiveIndex(c)
  /\ UNCHANGED method

(* dartplant_runtime_bootstrap_live_vm_from_arm64_registers_with_adapter   *)
BootstrapBegin(t) ==
  /\ Acquire(t, "bootstrap")
  /\ group.matched /\ group.app # None
  /\ kept' = [kept EXCEPT ![t] = [generation |-> group.generation, app |-> group.app]]
  /\ UNCHANGED <<loader, runtime, seen, worker, process, group, closed, method, hooks>>

Bootstrap(t) ==
  /\ pc[t] = "bootstrap"
  /\ Release(t) /\ kept' = [kept EXCEPT ![t] = None]
  /\ IF kept[t] = [generation |-> group.generation, app |-> group.app]
       THEN \E c \in Contexts : BuildLiveIndex(c)
       ELSE UNCHANGED <<process, group, closed, hooks>>
  /\ UNCHANGED <<loader, runtime, seen, begun, worker, method>>

-----------------------------------------------------------------------------
(* dartplant_runtime_destroy: CloseRuntime takes it out of the registry,   *)
(* waits for the leases, and the rest runs alone.                          *)

Close(t) ==
  /\ runtime = "live" /\ pc[t] = "idle"
  /\ runtime' = "closing"
  /\ pc' = [pc EXCEPT ![t] = "close"]
  /\ UNCHANGED <<loader, active_operations, seen, kept, begun, worker, process, group, closed,
                 method, hooks>>

(* Mutant: it does not wait.                                               *)
CloseEndMutant(t) ==
  /\ pc[t] = "close"
  /\ pc' = [pc EXCEPT ![t] = "destroy"]
  /\ UNCHANGED <<loader, runtime, active_operations, seen, kept, begun, worker, process, group,
                 closed, method, hooks>>

CloseEnd(t) ==
  /\ pc[t] = "close" /\ active_operations = 0
  /\ pc' = [pc EXCEPT ![t] = "destroy"]
  /\ UNCHANGED <<loader, runtime, active_operations, seen, kept, begun, worker, process, group,
                 closed, method, hooks>>

EnumerateForDestroy(t) ==
  /\ Enumerates(t, "destroy", "destroy_seen")
  /\ UNCHANGED <<loader, runtime, active_operations, kept, begun, worker, process, group, closed,
                 method, hooks>>

(* The hooks are taken out if the app is mapped, and given up otherwise;   *)
(* what the host answers is not looked at.  What the runtime knew is freed.*)
Destroy(t) ==
  LET retired == IF seen[t][Root] = group.app /\ group.app # None THEN {} ELSE HooksOf(group)
  IN  /\ pc[t] = "destroy_seen"
      /\ \E failed \in Failures(HooksOf(group) \ retired) : Sweep(HooksOf(group), retired, failed)
      /\ runtime' = "deleted"
      /\ pc' = [pc EXCEPT ![t] = "idle"] /\ seen' = [seen EXCEPT ![t] = Nowhere]
      /\ process' = NewProcess /\ group' = NewGroup(1) /\ closed' = {} /\ method' = None
      /\ UNCHANGED <<loader, active_operations, kept, begun, worker>>

-----------------------------------------------------------------------------
(* StartRuntimeModuleRefreshWorker's thread.                               *)

(* PinRuntimeRefreshes takes a lease on a runtime that is registered.      *)
Wake ==
  LET pinned == runtime \in {"creating", "live"}
  IN  /\ pc[Worker] = "idle" /\ asked # <<>>
      /\ pc' = [pc EXCEPT ![Worker] = "refresh"]
      /\ worker' = [worker EXCEPT !.merged = Len(asked), !.lease = pinned]
      /\ active_operations' = active_operations + IF pinned THEN 1 ELSE 0
      /\ UNCHANGED <<loader, runtime, seen, kept, begun, process, group, closed, method, hooks>>

EnumerateForWorker ==
  /\ Enumerates(Worker, "refresh", "refresh_seen")
  /\ worker' = [worker EXCEPT !.saw = events]
  /\ UNCHANGED <<loader, runtime, active_operations, kept, begun, process, group, closed, method,
                 hooks>>

WorkerRefresh ==
  /\ pc[Worker] = "refresh_seen"
  /\ IF worker.lease THEN RefreshRuntimeOwnerTree(seen[Worker])
                     ELSE UNCHANGED <<process, group, closed, hooks>>
  /\ pc' = [pc EXCEPT ![Worker] = "complete"] /\ seen' = [seen EXCEPT ![Worker] = Nowhere]
  /\ UNCHANGED <<loader, runtime, active_operations, kept, begun, worker, method>>

(* Mutant: the epoch is read when the refresh is done.                     *)
CompletedMutant == Len(asked)

(* How many requests are completed: those there were when it woke up.      *)
Completed == worker.merged

Complete ==
  /\ pc[Worker] = "complete"
  /\ asked' = SubSeq(asked, Completed + 1, Len(asked))
  /\ worker' = [worker EXCEPT !.completed = @ + Completed, !.merged = 0, !.saw = 0, !.lease = FALSE]
  /\ pc' = [pc EXCEPT ![Worker] = "idle"]
  /\ active_operations' = active_operations - IF worker.lease THEN 1 ELSE 0
  /\ UNCHANGED <<mapped, events, runtime, seen, kept, begun, process, group, closed, method,
                 hooks>>

-----------------------------------------------------------------------------
Init ==
  /\ mapped = Nowhere /\ events = 0 /\ asked = <<>>
  /\ runtime = "none" /\ active_operations = 0 /\ begun = 0
  /\ pc = [t \in Threads |-> "idle"]
  /\ seen = [t \in Threads |-> Nowhere]
  /\ kept = [t \in Threads |-> None]
  /\ worker = [merged |-> 0, saw |-> 0, lease |-> FALSE, completed |-> 0]
  /\ process = NewProcess
  /\ group = NewGroup(1)
  /\ closed = {} /\ method = None /\ hooks = {}

Loader == (\E m \in Modules : Unmap(m) \/ \E b \in Bases : Map(m, b)) \/ Schedule

(* What a thread does once it has begun                                    *)
Continue(t) ==
  \/ EnumerateForCreate(t) \/ Create(t)
  \/ EnumerateForRefresh(t) \/ Refresh(t)
  \/ Bootstrap(t)
  \/ CloseEnd(t) \/ EnumerateForDestroy(t) \/ Destroy(t)

Begin(t) ==
  \/ Register(t) \/ Close(t)
  \/ RefreshBegin(t) \/ BootstrapBegin(t)
  \/ UnloadingApp(t) \/ \E m \in Units : UnloadingUnit(t, m)
  \/ Resolve(t) \/ Hook(t) \/ \E c \in Contexts : Capture(t, c)

Work == Wake \/ EnumerateForWorker \/ WorkerRefresh \/ Complete

Next == Loader \/ Work \/ \E t \in Clients : Begin(t) \/ Continue(t)

(* Threads run on: none of them waits but for active_operations.           *)
Spec ==
  /\ Init /\ [][Next]_vars
  /\ WF_vars(Work)
  /\ \A t \in Clients : WF_vars(Continue(t))

-----------------------------------------------------------------------------
OwnerType == [generation : Nat, group : Nat, id : Nat, epoch : Nat]

(* The type of the state.  No two images are of the same loading unit, and *)
(* they own each what the index or a hook says they own.                   *)
TypeOK ==
  /\ \A m \in Modules :
       mapped[m] # None => mapped[m].base \in Bases /\ mapped[m].load \in 1 .. events
  /\ Len(asked) \in 0 .. MaxRequests
  /\ runtime \in {"none", "creating", "live", "closing", "deleted"}
  /\ active_operations \in 0 .. Cardinality(Threads)
  /\ \A t \in Threads : seen[t] \in [Modules -> Bases \cup {None}]
  /\ process.modules \in [Modules -> Bases \cup {None}]
  /\ group.images \subseteq ImageType /\ group.index \subseteq OwnerType
  /\ group.state \in {"created", "images_ready", "ready", "failed"}
  /\ \A i, j \in group.images : i.unit = j.unit \/ i.id = j.id => i = j
  /\ hooks \subseteq HookType

(* An owner that has left the image set never comes back: a unit that was  *)
(* mapped again, an app that was mapped at the same address again and an   *)
(* isolate group that was allocated at the same address again are told     *)
(* from their predecessors, over every retirement and every drain that     *)
(* failed.  (ReconcileOwnershipFrom, next_isolate_group_incarnation_epoch) *)
OwnersNeverReused == closed \cap Owners(group.images) = {}

(* The images of the group are those of one history of the process: every  *)
(* unit once, and no owner twice.                                          *)
ImagesAgree == TypeOK /\ OwnersNeverReused

(* A hook that callbacks can still run through, or that the host has yet   *)
(* to take out, was made for the group that is active; an installed one    *)
(* belongs to its generation and to an image that is active.               *)
(* (TransitionRuntimeImages, IsCurrentRuntimeMethod)                       *)
ActiveHooksOwned ==
  runtime # "deleted" =>
    \A h \in hooks :
      /\ h.status # "retired" => h.token = group.token
      /\ h.status = "installed" =>
           /\ h.owner.generation = group.generation
           /\ \E i \in group.images : OwnerIdentity(i) = h.owner /\ i.lifecycle = "active"

(* A runtime is deleted when no thread is in one of its operations any     *)
(* more, and leaves no hook behind that still calls listeners.             *)
(* (CloseRuntime, dartplant_runtime_destroy)                               *)
DestroyedIsIdle ==
  runtime = "deleted" =>
    /\ active_operations = 0 /\ ~worker.lease
    /\ \A t \in Clients : pc[t] = "idle"
    /\ \A h \in hooks : h.status # "installed"

(* Hooks follow the generations of their runtime, and its end.             *)
HooksFollowRuntime == ActiveHooksOwned /\ DestroyedIsIdle

(* A refresh that is reported as complete has enumerated the modules after *)
(* every event that led to a request of that epoch or an earlier one,      *)
(* however the requests were merged.  (requested_epoch, completed_epoch)   *)
CompletedSeesRequest ==
  [][\A e \in 1 .. worker'.completed - worker.completed : asked[e] <= worker.saw]_vars

(* The destruction of a runtime comes to its end.  (CloseRuntime waits for *)
(* active_operations, which the leases of running operations hold up)      *)
DestroyEnds == runtime = "closing" ~> runtime = "deleted"

(* A hook is given up only when what it was placed on is no longer mapped. *)
(* (HookRecordState::kRetired: "The target mapping disappeared before the  *)
(* backend could safely restore its bytes.")                               *)
RetiredIsGone ==
  \A h \in hooks : h.status = "retired" =>
    mapped[h.unit] = None \/ mapped[h.unit].load # h.load

(* The live index speaks of the images there are: it never names an image  *)
(* that has been unloaded, mapped again or replaced, a ready runtime has   *)
(* the functions of its root in it, and the images tell truly which of     *)
(* them have entries in it, over every drain that failed half way.         *)
(* (live_semantic_bound, PruneStableLiveSnapshotIndexForImages)            *)
IndexMirrorsImages ==
  LET indexed(i) == \E o \in group.index : o.id = i.id /\ o.epoch = i.epoch
  IN  /\ \A o \in group.index : \E i \in group.images : o.id = i.id /\ o.epoch = i.epoch
      /\ group.index # {} => \A i \in group.images : i.live <=> indexed(i)
      /\ group.state = "ready" => \E i \in group.images : i.unit = Root /\ indexed(i)
=============================================================================
