# DartPlant in TLA+

DartPlant resolves methods of an AOT-compiled Dart program in a running Android
process and hooks their native entries. A mistake in its hook core does not
raise an exception: a thread executes memory that has been given back, spins in
a stub for ever, or an adapter is torn down under a callback. These modules
model that core from the source (`src/src`, `src/adapters`), check it on small
instances with TLC, and prove its main promises with TLAPS for all instances.

## 1. The system

### Components, their state and their operations

| Component | State | Operations |
|---|---|---|
| Host publication gate (`host/publication_gate.cpp`, `interceptor/arm64_bridge.S`) | one 64-bit word: gate state and entrant count; backup, target, callback entry | prepare, install, arm, begin drain, close, reopen, uninstall, release an entrant; the stub that every hooked call runs through |
| Physical hook life cycle (`core/hook_registry.cpp`) | `HookRecord` state, `in_flight`, `backend_installed`, the global list of records | install, unhook, finish unhook, reset, retire |
| Listeners and sweeps (`core/hook_registry.cpp`, `interceptor/runtime_hook.cpp`) | ordered chain of listener records, each with `active`, `in_flight` and a VM adapter lease | add, remove, release, invalidate, retire, quiesce, snapshot |
| Logical hook handles (`runtime/default_runtime.cpp`) | handle, its `removed` flag | hook, unhook, is_idle, release |
| Callback dispatch (`interceptor/callback_dispatch.cpp`) | per-thread stack of frames, each with its snapshot of listeners and its root lease | enter, return, exception unwind, invoke_original |
| Return interception and exception bridge (`interceptor/arm64_bridge.cpp`) | patched RET sites per code payload with their consumers; one process-wide JumpToFrame hook | install, restore, ensure |
| Hosts (`adapters/dobby`, `adapters/lsposed`, `adapters/shadowhook`) | owned targets, recovery tickets, stubs; the word that gates loader callbacks | hook, unhook, bind, enter, close and drain |
| VM adapter (`vm/object_bridge.cpp`, `adapters/flutter_vm`) | admission, owner, leases, scopes, handles, root slots; validity and generation of the artifact | retain, pin, enter, leave, invalidate, quiesce, retire, revalidate, destroy |
| VM ABI proofs (`adapters/flutter_vm`, `vm/abi`, `vm/object_bridge.cpp`) | candidate rows, bindings, verified and failed capabilities, proof records; the cache of the core | attach, narrow, bind, prove, fail, invalidate, revalidate, fetch |
| Runtime (`runtime/dart_runtime_resolver.cpp`, `runtime_image_set.cpp`, `runtime_image_transition.cpp`) | engines, isolate groups, generations, images, operation leases | refresh, publish, retire, destroy |
| Live directory (`runtime/snapshot_index.cpp`, `vm/live_vm.cpp`) | the Functions of an isolate group by owner and entry, alias counts, load states of deferred units | full walk, delta, prune, publish |
| Entry targets (`core/method_model.h`, `runtime/dart_runtime_resolver.cpp`) | per owner and entry: aliases, count and proof of sharing; methods; sidecars | find, capture, bind a sidecar, merge evidence, tell a callback |
| Process sampler (`vm/live_vm_bootstrap.cpp`, `host/signal_lease.cpp`) | a borrowed signal, one global capture record | lease, send, wait, take, give back |
| Calling convention, evidence solver, ELF, snapshot and metadata parsers, generated tables | none | lookups, decoding |

### How they interact

`dartplant_hook_method` takes the runtime's mutex, checks generation and
admission, takes `State().mutex` and either adds a listener to the record of the
target or installs a new record. Installation creates the gate, intercepts the
RETs of the body and calls the host, which patches the entry. From then on Dart
threads run through the gate stub into `dartplant_arm64_dispatch_enter` without
any lock: they pin the gate word, take `hook->mutex` shortly to be counted and
to snapshot the listeners, drop the pin, run callbacks, run the original through
the host's trampoline, and come back through an intercepted RET or an unwind.
Removal of the last listener, `dartplant_reset`, runtime sweeps and VM adapter
quiescing all end in `UnhookRecordLocked`, which drains, closes and removes the
hook at once when nothing is in flight, and otherwise leaves that to the last
invocation out.

A callback may use the VM only through its adapter: the dispatcher pins roots,
enters a generated-to-native transition (a safepoint stub of the artifact) and
leaves by another one. The adapter has a core half, which counts what is in use
under `adapter->mutex`, and a Flutter half, which owns the artifact under
`artifact_mutex`; each calls into the other. What is known of the VM arrives
slowly: rows of a generated table are narrowed by probes, a live heap is walked or
followed by deltas, and each entry gathers evidence of how many Functions share it.

### What is hard

* A call may be anywhere between the patched entry and the record when the hook
  is removed; two counters in two places (gate word, record) cover it in turn.
* The last call out, not the caller of unhook, may have to finish the unhook.
* A hooked function may call itself: a closed gate must not wait for a body that
  waits for the gate.
* The host may fail before, after or in the middle of publication.
* Handles, sweeps and snapshots touch the same listener under different locks.
* A lease on a VM adapter has two possible releasers and must be given back once.
* Quiescence is one look at counters; validity of an artifact and use of the
  adapter are under different mutexes.
* Proofs, directories and evidence are cached where they are used, and go stale
  one by one.
* Borrowed things must be given back although others act meanwhile: a signal, an
  entry, the RETs of a body, the callbacks of a loader.

### What makes each component correct

* Gate and life cycle: no tracked call executes a reclaimed trampoline; no call
  traps; no deferred unhook is forgotten; an `Unhooked` record has nothing left
  of the hook; a gate never loops, and never holds a thread for ever.
* Listeners: a snapshot is counted exactly; an adapter outlives the frames that
  use it and is given back after them; no subscription is put on a dying hook.
* Handles: idle means idle; release frees only idle listeners.
* Return interception: exact counts, an installed hook keeps its RETs, the table
  tells which RETs are patched, the veneer stays mapped.
* Dispatch: the frames match the calls, every call returns to its caller, every
  `on_enter` has its `on_leave`, roots are held while the heap may move.
* Runtime: a hook belongs to an active image of the active group; owners are
  never reused; the live index names only images there are; a refresh that is
  reported complete has seen what it was asked for; a runtime is deleted only when
  nobody uses it.
* Artifacts: nothing is in use in a retired adapter; stubs run only on a valid
  artifact; what was admitted can finish; a closed adapter drains.
* Proofs: a verified capability has the layout of the running VM; what the core
  serves is of this generation and does not change under its users.
* Directory and targets: what is published is what a full walk would find;
  evidence of sharing only grows; no callback is told of one method where there
  may be others, unless the hook was asked to be shared.
* Hosts, loader and sampler: what is put into the process can be taken out again,
  a caller is told the truth about it, drained callbacks are over, a sample is one
  thread's registers at one moment.

## 2. The modules

| Module | Models | Correspondence |
|---|---|---|
| `TrampolineLifetime` | what the host and the hook owe each other: a trampoline is reclaimed only when nobody uses it and nobody can start | abstract, no code of its own |
| `HookLifecycle` | gate, record, host and calls of one hook | `gate`, `entrants`, `backup` are the gate word and its backup; `state`, `in_flight`, `backend_installed` the record; `returns` RET interception; `pc` how far the holder of `State().mutex` has come; `at[k]` where call `k` is; `patched`, `trampoline` the host |
| `HookListeners` | listeners, handles, leases and snapshots of one record | `chain`, `active`, `in_flight`, `retained` as in the code; `leases` is `hook_refs` of each adapter; `handle[l]` is the position of the API call on it; `entered`, `pending`, `giving` are a frame's `entered_listeners` and its progress in giving them back |
| `ReturnInterception` | the RET patches that the hooks of one code payload share | `consumers` is `return_patches`, `interceptions` and `veneer` the payload's count and `return_entry`; `owned[h]` is `payload_return_sites`; `text` and `foreign` are the code itself; `pc`, `todo`, `newly`, `residual`, `restored` the loops of an install, a rollback or a restore |
| `CallbackFrames` | the dispatch stacks of threads that share a VM adapter | `calls[t]` is the Dart stack of thread `t`, `frames[t]` its `DispatchStack`, `pc[t]` where it is inside the dispatcher, `handler[t]` where an exception it has thrown is caught; the adapter's record has the counters, the owner and the admission of `DartPlantVmAdapter` |
| `RuntimeOperations` | one `DartPlantRuntime` with one engine: its leases, its refreshes and their worker, its isolate group, images, live index and hooks, under a loader that maps and unmaps | `group` is the active `RuntimeIsolateGroupState` (`token` its generation pointer, `images` its `RuntimeImageSet`, `index` the owners named in `live_snapshot_index`), `process` is `RuntimeProcessState`, `active_operations` the registration's; `pc[t]`, `seen[t]` and `kept[t]` say where thread `t` is and what it carries from one lock to the next; `mapped` is the loader, `closed` the history of owners |
| `ArtifactLifecycle` | one Flutter VM adapter with its artifact, its subscription, a mutator, native threads and the hosts that invalidate, quiesce, retire, remap, revalidate and destroy it | `admission`, `owner`, `leases`, `transitions`, `entered`, `observing` are the fields of `DartPlantVmAdapter`; `valid`, `quiescing`, `generation`, `transition` those of the Flutter half; `frames` has the root slots of each nested call; `host[h]` is how far an artifact function has come between its locks |
| `CapabilityProofs` | how layouts of the VM are bound, proved, failed, reset and served | `candidates`, `binding`, `verified`, `failed`, `record` as in the adapter; `core` and `coreAt` are `abi_binding`; `hook` is the call layout of a record |
| `LiveDirectory` | the directory of live Functions over refreshes, unit loads, restarts, deltas and transitions | `images` and `next_owner` are `RuntimeImageSet`; `index` is `live_snapshot_index` with its infos, records and bindings; `loaded` and `heap` are the VM |
| `EntryTargets` | the evidence on one physical entry, and what each callback on it is told | `target[o]` is `DartEntryTarget`, `live[o]` and `sidecar[o]` its sources, `hook` the callback hook with its listeners and their opt-ins, `frame[o]` the call of a mutator |
| `DobbyHost` | the Dobby adapter at one target | `owned` is the entry of `g_owned_hooks`, `reservation` what Dobby holds, `installing[c]` and `result[c]` where a caller is and what Dobby has told it |
| `ShadowHookHost` | the ShadowHook adapter at one target | `stubs` is the entry of the map, `proxied` what ShadowHook has done to the target |
| `LoaderCallbacks` | the LSPosed module and its packed word | `control` is `g_loader_callback_control`, `initialized` `g_initialized` |
| `ThreadSampling` | the sampler and its signal lease | `capture` is `g_capture`, `disposition` the kernel's table, `running[t]` the handler on thread `t`, `sampler` the line the bootstrap is at |
| `Evidence` | what DartPlant knows of a program: the targets, the ABI proofs and the live directory, next to each other | extends `EntryTargets` and has `CapabilityProofs` (as `Abi`) and `LiveDirectory` (as `Live`) as instances; a step is one of a module |
| `HookLifecycleInvariant`, and the modules `...Proofs` except `CapabilityProofs` | inductive invariants, theorems and proofs | |
| `ProcessTraces` | everything DartPlant puts into the process, next to each other: the RETs, an entry in each host, the loader's callbacks, the signal | extends `ReturnInterception` and has `DobbyHost`, `ShadowHookHost`, `LoaderCallbacks` and `ThreadSampling` as instances; their steps interleave |
| `MCHookLifecycle`, `MCHookListeners` | constants of the instances | |
| `MCHookProgress`, `MCProcessTraces`, `MCCallbackFrames`, `MCEvidence` | several modules, or several settings of one, in one run | `part` or `setting` |

Parts of a run. Four MC modules hold several modules, or one module with several
constants, in one run: `part` (or `setting`) is chosen in the initial state and
never changes, and only the chosen module moves. The modules share no state, so that
the run explores each of them alone, one after the other. Nothing is said by that of
how they interact; where components do, they are in one module (`HookListeners` has
the adapter's leases, `CallbackFrames` its owner and its counters,
`ArtifactLifecycle` the calls and the sweeps).

Granularity. In `HookLifecycle` a step is one atomic access: a compare-exchange
of the gate word, one section under `hook->mutex`, or the effect of one host
call. `HookListeners` does not know the gate: there an unhook may complete when
no invocation is counted, and may also be put off by a call that has only
crossed the gate. The two are joined through `hook_in_flight`, which both have.
In `ReturnInterception` a step is one site, its read and its write;
`HookLifecycle` sees the whole patch set as the one flag `returns`, which is
what `InstalledIntercepts` entitles it to. In `CallbackFrames` a step is one
section under `adapter->mutex`. The functions that only try that lock are a step
that takes it and a step that finds it taken; a library thread holds it for two
steps (take, release).

In `RuntimeOperations` a step is one section under `RuntimeRegistryMutex()` or
`runtime->mutex`, or one enumeration of modules, which happens outside both. A
function that takes `runtime->mutex` once is one step with its lease: between its
acquisition and its release nothing of it is visible but the count, which only
`CloseRuntime` waits for. `HookListeners` sees a transition as the sweeps
`Invalidate` and `Retire`; here a hook has one listener and the sweep is a step.

In `ArtifactLifecycle` a step is one section under one of the two mutexes; a
safepoint stub and an observation, which hold theirs for long, are two steps with
the others kept out. In `CapabilityProofs` a binding or a proof is one step, except
the reads of type arguments and of the pending exception, which fetch and record in
two, because they hold no lock. What a probe reads is evidence: a set of rows that
accept it, with the row of the running VM among them, or none. In `LiveDirectory`
a function of the runtime is one section under `runtime->mutex`; increments carry
`base_info.skipped_function_count` forward, an unload publishes an empty set whose
allocators start again at 1, and a refresh always stages the current generation.
In `ThreadSampling` two stores stand for the copy of all registers, in the handler
and in the sampler. In the hosts a step is one section under the adapter's map lock
or one call of the hooking library outside it.

In every module definitions named after a definition that follows them, with a
comment that begins with "Mutant", are bugs one could write into that place.
They are not part of any specification; replacing the definition by its mutant
must break the property it is listed with in `PROJECT.json`.

## 3. The runs

| Run | Question | Bounds | Result |
|---|---|---|---|
| lifecycle | is every safety property of a hook kept, whatever a strict host answers? | 3 threads, calls nested twice, 1 pin given up, 1 unseen return | holds |
| progress | with a host whose replacement is reachable before `hook()` returns: does an unhook end, and does the gate let everybody go? With two threads in a hook: does a quiesced adapter become quiescent? | 2 threads, 1 listener, fair | holds |
| traces | can everything DartPlant puts into the process be taken out again, and is it told the truth about it, when writes fail, transactions break and others act? | RETs: 2 entries with a common RET, 3 hooks; Dobby: 2 callers, 3 transactions; ShadowHook: 2 callers, 3 stubs; loader: 3 threads, 2 entrants; sampler: 2 threads, 2 signals, 2 samples | holds |
| sharing | do listeners of two runtimes on one hook stay consistent under all sweeps? | 1 thread, 2 listeners, 2 owners | holds |
| frames | does a thread's dispatch stack match its Dart stack through nesting, originals and exceptions, and do the adapter's counters and owner stay exact with several threads? | deep: 1 thread, 3 frames, 4 calls, fair; shared: 2 threads, a library thread, 2 frames, 2 calls; 2 leases | holds |
| runtime | do owners, images, index and hooks stay consistent while the loader, a client and the worker interleave and drains fail; does destruction wait, and end? | 1 client and the worker, app and 1 unit, 2 bases, 2 contexts, 2 loader events, 4 operations, 2 requests, fair | holds |
| artifacts | is an adapter idle when it is retired, and valid while it is used; does a closed one drain? | 1 host, the mutator and 1 worker, 2 root slots, 2 leases, 2 nested calls, 3 generations, fair | holds |
| evidence | is what is recorded of the VM true, is it kept, and is nobody told more? | proofs: 2 rows, 2 generations; directory: 5 Functions, a root and 2 units; targets: 2 owners, 2 Functions, 2 listeners | holds |
| bypass_backup | is a trampoline never used after the physical unhook? | 2 threads | violated |
| lost_subscription | is a hook removed only with its last subscription? | 1 thread, 2 listeners | violated |
| frames_contended | can an admitted callback finish its transitions safely? | 1 thread, a library thread | violated |
| stale_refresh | is a hook given up only when its mapping is gone? | 2 clients, 1 loader event, 5 operations | violated |

Why the bounds are enough. Two calls are needed to race a close, a third to
keep the hook in flight meanwhile; nesting twice gives the recursive call and
its enclosing body. `MaxRetained` and `MaxUnreturned` bound pins and counts that
are never given back; one of each is enough, since no guard distinguishes more
than zero from zero. In `HookListeners` two listeners suffice for "the last one
but one", two owners for sharing, and two threads for racing frames; each
listener is registered once. In `ReturnInterception` a site is private to an
entry or shared; two entries with one RET of their own and one in common have
both, and a third record hooks the first entry again. In `CallbackFrames` three
frames give an exception that leaves a middle one, `MaxDepth` stands for the
limit of 64 frames and is reached, two leases for "the last one but one", and
`MaxCalls` bounds the Dart stack one beyond the frames, so that a call without a
frame lies on top of calls with one.

In `RuntimeOperations` the app and one deferred unit give transitions of a part
and of the whole; two bases let an app move and a unit take the place of another;
two contexts, an isolate group that is replaced at the same address. Four
operations bootstrap, resolve, hook and then do anything else; two requests let
the second arrive while the first is served. `MaxEvents`, `MaxOperations` and
`MaxRequests` bound what clients and loader do, no counter of the code; the same
invariants hold with one client, three events, seven operations and no request,
and, with one context and one request, with two clients.

In `ArtifactLifecycle` two slots and two leases let a nested pin fail for lack of
either, two nested calls have an outer one whose lease stays; three generations are
two invalidations with a revalidation between them. In `CapabilityProofs` one of
two rows is that of the running VM, so that each proof may still be the wrong one;
`Scopes` picks groups of capabilities that look at each other, a closure with one of
those it depends on at a time; a behaviour uses one group. In `LiveDirectory` two Functions of the root share a Code, one unit
proves its table unique and one does not, and three owners let both be there or one
come back; the theorems have any number of each. In
`EntryTargets` the home's mutator calls, its directory lists one Function or both,
its sidecar is that of an older compiler, which takes the entry for the payload and
proves uniqueness, or one that proves sharing; the guest only hooks, so that one
subscription is of another owner than the caller. In the hosts a third transaction
(stub) may meet what the first has left while the second is under way. In
`ThreadSampling` one thread is polled and one is not, and the second sample may meet
the handler of the first.

`CHECK_DEADLOCK FALSE` is set because the system may rest: nobody has to call,
install or unhook anything, and a retired hook stays as it is.

Fairness. `HookLifecycle`: the holder of `State().mutex` runs on (it never
waits for a Dart thread), a call in progress runs on, and a call that waits for
the mutex gets it when it stays free. `HookListeners` assumes that callbacks
and bodies return and that a library call that has begun runs on; `MCHookProgress`
takes over both. `CallbackFrames` assumes only that a thread inside the dispatcher
runs on; it takes the adapter's lock by trying and never waits. `MCCallbackFrames`
assumes it of the thread that is alone (`DispatchEnds`). `RuntimeOperations` assumes
that the worker and every operation that has begun run on: both are plain threads
that wait for nothing but `runtime->mutex`, which is never held across a wait,
except for the closing thread, which waits for leases. None assumes that calls
stop; `UnhookEnds` and `GateLetsGo` have that as a premise: while new calls keep
coming, an unhook is put off for ever, in the code too.

`ArtifactLifecycle` (`ClosedDrains`) assumes that an artifact function that has
begun runs on, that stubs and observations end, that callbacks, bodies and FFI calls
return however often they use the adapter meanwhile (strong fairness: the mutator may
be inside and outside of the adapter again and again), and that native threads give
back scopes, handles and the isolate. The first two are the code's; the last is a
duty of the clients, without which a retirement reports VM_ADAPTER_BUSY for ever
(`flutter_vm.h:109`). That the admission stays closed is a premise.

### What the violated runs show

* `bypass_backup`: BYPASS_BACKUP hands out the trampoline without a pin; the
  close that precedes the recovering unhook looks at pins only.
* `lost_subscription`: `dartplant_remove_listener` decides under `hook->mutex`
  and removes the hook later; a subscription added in between is deactivated.
* `frames_contended`: the generated bridge only tries the lock of the adapter
  (`object_bridge.cpp:513`) and takes a failure for corruption
  (`FatalGeneratedBridgeFailure`), but releasing an object handle, a listener or
  a quiescence check on any other thread holds that lock for a moment.
  Without such a thread no callback of the "deep" setting traps.
* `stale_refresh`: a thread enumerates the modules before the app is mapped;
  another refreshes, bootstraps and hooks; the first one then applies its list,
  in which the app is missing, and the hooks are retired with their code mapped
  and patched. Nothing orders the lists by age (`dart_runtime_resolver.cpp:2221`,
  `:1586`).

### Seen while modelling, without a run

* A backend without a trampoline keeps its gate INSTALLING, so that calls wait;
  when `dartplant_reset` retries the unhook and that fails,
  `UninstallPublishedHostHook` reopens to DRAINING (`publication_gate.cpp:242`)
  and they are dispatched with a null original.
* `dartplant_release_hook_handle` checks that the handle is idle and then removes
  the listener (`default_runtime.cpp:804`, `:813`). A call that snapshots it in
  between makes `dartplant_release_listener` refuse it; the handle is deleted all
  the same, though `hook.h:58` says it is retained (`handle[l]` is "leaked").
* After a host that could not unhook, the retry of `dartplant_unhook_handle` finds
  an empty chain and a Failed record, removes nothing and reports success
  (`runtime_hook.cpp:251`).
* After a drain that failed before an unload, the images keep the old generation.
  A bootstrap then publishes an index with the owners from before they are bound
  to the new generation (`dart_runtime_resolver.cpp:2118`): the runtime
  is ready, but `Resolve` finds nothing until the next bootstrap.
* Images that a failed drain has deliberately left draining
  (`runtime_image_transition.cpp:104`) become active again, under the same owner,
  with the next transition that affects others (`:139`).
* When the root is unmapped while a unit still is mapped, the transition of the
  whole set lets the host restore bytes in the root as well (`:88`).
* `FindHookLocked` counts retired records (`hook_registry.cpp:498`): a function
  that is mapped again at its old address cannot be hooked (`Hooked`).
* With a sibling thread in the isolate group, or with a library thread that holds
  the adapter's lock at that moment, `TellsBeforeGone` does not hold: `FinishFrame`
  gives up the adapter between two leases (`callback_dispatch.cpp:889`) and only
  tries to get it back; when that fails `on_leave` is lost. `PairedCallbacks`
  therefore speaks of the "deep" setting.
* `InstallCallbackHook` ignores whether the RETs were restored when the gate
  cannot be prepared (`hook_registry.cpp:1362`), although it keeps the record for
  that reason two steps later (`:1379`): the destroyed record keeps its count, in
  the model `owned[h]` of a record that is "destroyed", and nobody can restore
  the sites any more.
* `WriteExecutableInstruction` may fail after its store. The site it failed at is
  then neither written back nor recorded; `stray` keeps these sites apart.
* The write-back of a failed restore (`arm64_bridge.cpp:1080`) does not look at
  what the site holds, unlike every other write: foreign code written between
  the restore and the write-back is overwritten (`RedoSite`).

Of artifacts and proofs:

* With two hosts in the artifact functions of one adapter at once, every invariant
  of `ArtifactLifecycle` is violated: a retirement that has checked the adapter is
  overtaken by a revalidation that opens admission again, and then unbinds the
  artifact under whoever came in. `flutter_vm.h` does not ask for serialisation; the
  run and the theorems assume it (`HostsSerialised`).
* `dartplant_vm_enter_scope` on a thread without the isolate makes it the owner
  before its callback fails (`object_bridge.cpp:883`). A pin that fails for lack of
  slots or leases also keeps the ownership, as reading type arguments does.
* A retired adapter cannot be destroyed before a revalidation
  (`flutter_vm.cpp:505`, `:2604`); when the artifact was replaced, never.
* Revalidating a live adapter while the mutator is out of the isolate leaves
  admission open with an invalid artifact; a later callback fails at its stub.
* Reads of type arguments and of the pending exception record their proof without
  `artifact_mutex`. A read that races an invalidation verifies its capability in the
  new generation, against the comment at `flutter_vm.cpp:935-938`.
* The core goes on serving a proof that the adapter has since failed, or bound to
  another row of the same layout; the failure of a capability does not revoke those
  proved through it. Direct proofs can verify again what had failed for the
  incarnation, and work for capabilities that invalidation does not reset.
* The six rows of the shipped table have distinct core identities, so that the
  candidates are one row today (`resolver.cpp:443`); the model has two.

Of the directory and of targets:

* A delta visits only `Code.owner` and does not see another Function that shares the
  Code: the alias count published is too low until the next full walk
  (`live_vm.cpp:3131`; the comment at `:3266` promises that nothing is inferred).
  `PublishedIsComplete` is checked for programs whose deferred units do not share.
* A bootstrap admits an owner again that a failed drain has deliberately left
  DRAINING (`dart_runtime_resolver.cpp:2115`, `runtime_image_transition.cpp:105`).
* `hook.h:22-27` says that a callback fails closed on a shared entry unless its
  consumer has opted in. The dispatcher asks the opt-in of the first installer
  only (`callback_dispatch.cpp:1035`), and leave and exception callbacks not at all.
* Of a typed listener and a later raw one the dispatcher drops the raw one, although
  its registration returned OK (`SameExecutionBinding`).
* A target that is made from a V1 or V2 sidecar, before the VM is asked, has the entry
  for its payload (`dart_runtime_resolver.cpp:927`). From then on `GetOrCreate` refuses
  the directory, whose payload is another (`method_model.h:361`), and `find_method`
  answers from the sidecar: its UNIQUE hides the Functions that the directory counts,
  until a capture adds them. `EvidenceGrows` therefore asks for the count of the
  directory only of targets with the payload of the VM. A
  higher count of a republished directory reaches a target only when its method is
  found or captured again; evidence is forgotten when nobody holds the target; an
  alias proved in one owner is unknown to another.

Of hosts, loader and sampler:

* A sample that timed out may be stored and announced by its late handler during the
  next capture (`live_vm_bootstrap.cpp:58-71`, `:134-166`): registers of two threads
  or moments are mixed. `SampleIsWhole` excludes captures that begin with such a
  handler on its way (`overdue`); the candidate is validated afterwards.
* A host action between the probe of a disposition and its restoration is lost, as
  `signal_lease.h` admits (`raced`); a late signal may reach a handler of the host.
* `dartplant_lsposed_native_host_ready` is true once `g_initialized` is claimed,
  before the host is bound (`lsposed_module.cpp:226`, `:229-247`), though the
  comment at `:153` promises the binding. A self-test in that window fails for ever.
* Dobby: a preparation that fails with a ticket whose abort, not looked at, fails too
  leaves a reservation that nobody owns; the target is unchanged but unhookable.
* ShadowHook: a hook that meets the map entry of an unhook under way backs out and
  returns -1, never published (`host_api.h:52`), though its replacement was
  reachable; when the back-out, not looked at, fails, the patch has no owner
  (`abandoned`). Inside DartPlant `State().mutex` keeps hook and unhook apart.

## 4. The proofs

`HookLifecycleProofs` proves, for any finite set of threads, any call depth, both
host policies and any host outcomes: type correctness, `CountersExact`,
`TrackedOriginalSafe`, `NoStrayCall`, `FinishNeverLost`, `UnhookedIsQuiet`,
`EntryNeverLoops`, `NoSelfDeadlock`, and that the hook implements
`TrampolineLifetime`. The only assumption is `LifecycleAssumption`: the set of
threads is finite, the depth is positive, and a host with a local gate never
reports a failure after publication, which is what the code requires of it
(`internal.h:82-89`).

No property is inductive by itself. `TrackedOriginalSafe` says that calls inside
have a backend; that the backend is not removed while they are inside depends on
what the holder of `State().mutex` has seen. `LifecycleInv` adds:

* `StepInv`: the state of record and gate at each step of the holder, in
  particular that the gate is CLOSED exactly between the close and its outcome;
* `BackendInv`: which gate states imply an installed backend, and that an
  installed backend with a backup has a live trampoline;
* `QuietInv`: nobody is pinned behind a closed gate, nobody is counted once
  `in_flight` was seen at zero behind it, and nobody is on the way before the
  entry was ever patched.

The core of the argument: CLOSED with no entrant admits nobody new; a pinned call
that became counted before the close is seen by the second look at `in_flight`;
so in `SettledSteps` both counters are zero and stay so until the host is done.
The counters enter through cardinalities of the sets of calls (`MoveCounts` says
how one moving call changes them), and the last call out is found from a count of
one (`CountsWitness`).

The proof has one lemma per group of actions (`InstallKeeps`, `FinishKeeps`,
`CallKeepsCounters`, `CallKeeps`) and one step per action in it.

One more property needs clean installations. `ReturnsIntercepted` says that the return of
a counted call is seen; the code gives RET interception up when a host loses the
trampoline, fails after publication, or patched bytes that are not found again, while
calls may already be inside. `ReturnsAreSeen` proves it for the other hosts
(`CleanInstalls`, the setting of the run `progress`): `ReturnInv` says that interception
stands from before the host is called until after the backend is gone, and the backend
outlives every counted call.

`ProcessTracesProofs` proves of `ReturnInterception`, for any finite set of hooks, any
entries and any sets of RETs they reach, and any outcome of every write: type
correctness, `ConsumersExact`, `InstalledIntercepts`, `PatchedIffRecorded` and
`VeneerMapped`. The assumption `InterceptionAssumption` types the constants.
`InterceptionInv` adds `LoopInv`, what the loops over sites know (nobody owns a
site that an install patched anew; the restoring hook is the only owner of the
sites it restores), `OwnedInv` (an installed hook owns all its RETs) and
`VeneerInv` (published before written, kept once published). The argument for
`InstalledIntercepts`: a RET is written back only where its count is zero or
one; exact counts make the restoring hook the only owner in the second case
(`ConsumersAndOwners`), and that hook is not installed.

`RecordStaysTrue` and `PayloadStaysTrue` combine these into the invariants of the
runs; `ReturnsMoveAlone` carries the latter to the whole process.

`ArtifactLifecycleProofs` proves `RetiredIsIdle`, `AdmittedIsServed` and
`ServedProofIsCurrent` for any workers, any numbers of slots, leases, nested calls
and generations, assuming `LifecycleAssumption` (the types of the constants) and
`HostsSerialised`: the artifact functions of one adapter are called one at a time.
The latter is a premise of each theorem because the code does not enforce it; with two
hosts the properties fail. `ArtifactInv` adds to the types: `RootsInv`, the slots and
leases of the adapter are those of its frames and of a strong handle, as a sum over the
stack (`AddsUp`, a sequence of partial sums that a push extends and a pop shortens, so
that no recursion is needed); `CallsInv`, a transition belongs to a frame, and a
frame to a subscription; `ClosedInv`, what the steps of a retirement know: from the
check on nothing is in use, and, because the admission is closed, nothing comes
into use; `ValidInv`, an artifact that is in a stub, observed, or in a callback and
not poisoned is valid; `CoreInv`, only a host on its way to forget the proofs leaves
the core with old ones. The heart is `IdleIsUnused`: what `CheckQuiescent`
looks at is zero only if there is no frame.

The rest of `ProcessTracesProofs` is about `ProcessTraces`, where the steps of the RETs, the two
hosts, the loader and the sampler interleave; the run `traces` lets one of them
move, the theorems all of them. Each component has its inductive invariant and is
disturbed by none of the others.

For the sampler, any threads and any number of samples: `SampleIsWhole`
(`SampleStaysWhole`) and `SignalReturned`. `LeaseInv` says who has which disposition at
each step of the lease; `CaptureInv` follows the one handler of an undisturbed
capture: before the signal is sent nobody is on the way, after it only on the thread
that was asked, and `ready` implies both stores. For Dobby, any callers and
transactions: a patched target has its ticket in the map (`PatchStaysOwned`) and the
code returned is true (`OutcomeStaysTrue`), because one caller at a time has the entry of
the map in "preparing", and nobody else touches it then. For ShadowHook: an
unhook that has found a stub erases no other one (`StubsStayOwned`), because that of a
later hook cannot enter the map before the erase; `HostsKeepContract` is both. For the
loader, `CallbacksDrained`: the count is the number of threads inside, "closed" admits
nobody. (`LoaderCounts` is there because a standard operator that comes through an
instance is another symbol to the prover.) `HostsAssumption` says that "nothing" is
no ticket and no stub, and that there are finitely many threads.

`HookListenersProofs` proves `CountsAgree` (`ListenerCountsAgree`),
`DeadHookHasNoListener`, `QuiescedStaysQuiet` and `ReleasedIsIdle` for any finite sets
of threads, listeners and runtimes, any priorities, and any isolate group of a thread
(`ListenersAssumption`; no listener is named like one of the words that `mutex` and
`giving` use). `ListenersInv` adds to the properties: `ChainInv`, the chain has the
active listeners, once each, in the order of their priorities; `LeaseInv`, an adapter
counts the listeners that hold a lease on it; `NeedInv`, a listener that is active or
named by a frame holds its lease, from which `AdapterOutlivesFrames` follows; `FrameInv`,
a frame either enters a listener or has it to give back, never both; `HandleInv`, what
the position of a handle tells of its listener, and that an add which holds
`State().mutex` has seen an adapter that is not quiesced. `Effects` reduces every step
to one of five things it may do to chain and leases, `OneListener` and `OneCount` to
what it may do to one listener. The two sides that may give a lease back
(`LeaseReturned`) never both miss it: a step that makes a listener inactive, or its
count zero, either gives the lease back or leaves a witness that will look.
Filtering of a chain (`Those`) is a recursive function, and what it computes is shown by
induction all the same: the first prefix for which a claim fails would be the least
element of a set of numbers (`Least`, from the well-foundedness of `<` on the naturals),
and its predecessor refutes it (`UpTo`, `ThoseElements`, `ThoseOrdered`).

`RuntimeOperationsProofs` proves `ImagesAgree`, `HooksFollowRuntime`,
`IndexMirrorsImages` and `CompletedSeesRequest` for any finite sets of clients and
deferred units, any bases and contexts, and any number of loader events, operations and
requests (`OperationsAssumption`). `IInv` has seven parts. `ImagesInv`: the images are
distinct, of the group's epoch, and below its allocators. `IndexInv`: the index names
images by owners they have or had, with generations that only grow. `HistoryInv`, the
heart of `ImagesAgree`: what has left is of an earlier group epoch, of an earlier
generation of the same incarnation, or below the allocators. That this survives is one
lemma, `HistoryGoes`, about a group that `Follows` the active one: it has no images, a
new epoch, or images that are either beyond the allocators or the ones that were there
before, in no earlier generation. Every group the code publishes is shown to be one of
these (`RefreshedFollows`, `FreshFollows`, `DrainingFollows`, `SameEpochFollows`); the
allocators are kept over a refresh with images, and an empty image set may start them
again only because no group gets images again in the same epoch. `HooksInv` follows a
sweep of all images (`WholeSwept`) and of some (`PartSwept`). `MethodInv`: a method
carries the generation of its owner. `ThreadsInv`: `active_operations` is the number of
leases, leases exist only while the runtime is registered or closing, and there is one
thread that creates and one that destroys. `WorkerInv`: what the worker has in hand it
has looked at after it was asked for.

`CallbackFramesProofs` proves `FramesAgree`, `AdapterAgrees` and `ReturnsToCaller` for
any finite sets of threads and workers, any kinds of calls, and any depth of the dispatch
stack, of the Dart stack and of the pool of leases (`FramesAssumption`). Threads and
workers interleave as `Next` lets them, so that the proof covers both settings of the run
`frames` and every other one. `IInv` has two halves.

`StacksInv` is about one thread at a time, as a predicate `StackOK` of its two stacks,
its place and its handler. `Ordered`: frames belong to tracked activations, in their
order. `Covers`: every tracked activation that an exception on its way does not leave has
a frame. `Nested` says who has called whom: an activation that a callback has invoked
stands directly on the activation of a frame in that callback, any other one on Dart code;
from this follows that the frame on top, after a return or at a handler, is where the
caller expects it (`CallsCut`). `TopOK` says what the frame on top is like at each place
(`Fits`) or when an exception leaves it (`Abandoned`), and every frame below is `Settled`:
its body runs with the roots it needs, or its callback does behind the bridge. That the
last invoked activation exists (`LastInvoked`, a CHOOSE) comes from the well-foundedness
of `<` (`Innermost`). There is one lemma about sequences for each way the stacks
change (`StackPushed`, `StackReturned`, `StackFailed`, `StackFinished`,
`StackAbandoned`, `StackThrown`, `StackCaught`, `ReplacedHere`, `ReplacedGone`), and one
lemma per action that reduces it to these.

`AdapterInv` relates the adapter to the frames through three sets of slots: frames that
are bridged, that have a lease, that still count the listener. The counters are their
cardinalities (`CountersInv`), every lease is the owner's, an owner has a lease or
observes (`OwnerInv`), `hook_refs` counts the listener while it is subscribed or in
flight (`RefsInv`), and the lock is where the places say (`PlacesInv`), which
keeps two library threads out of each other's sections. `SlotsBut` reduces a step to one
slot that comes or goes. A quiescent adapter stays idle because admission is closed and
nobody listens (`BoundBusy`): without a frame that uses the adapter there is neither a
lease nor a transition, and no new frame is admitted. A refused pin leaves the owner as it
was, because an adapter without an owner refuses nobody (`NobodysAdapter`).

For a thread that nothing contends with, the "deep" setting at any depth and with any
number of leases, two more things are proved of `MCSpec`: `PairedCallbacks`, and that
`NeverTraps` holds (`AloneNeverTraps`), which the run `frames_contended` refutes as soon as
there is a sibling. `AloneInv` is inductive next to `IInv`. Nobody else has the adapter, its
lock or an observation (`HomeOwns`), and above a frame behind the bridge there are no
roots (`BridgesOnTop`), for a callback that calls tracked code again does so in native
state. Therefore, wherever the thread asks for a lease or a transition that it cannot do
without, its lock is free, no transition is counted and the lease it has given up is
still there (`Ready`); only the first pin of a call can be refused, before a callback of
it has run (`PinRefusedAlone`). `FramesPaired` carries the rest: who has entered still
listens until the frame is finished or told of its exception.

`EntryTargetsProofs` proves `EvidenceAgrees` (what `RecordedIsTrue` says of the targets),
`ToldOnlyWhatIsKnown` and `EvidenceGrows` for any owners, listeners and finite set of
Functions, any directories, wishes and sidecars (`OwnersAssumption`). `Consistent` and
`Grows` are lemmas of the operators that merge evidence (`MergedConsistent`,
`AliasedConsistent`, `Obtained`), and from them comes what a lookup may answer
(`LiveAnswer`, `ArtifactAnswer`, `FoundAnswer`). The invariant `Inv` adds to the
properties that every frame has its hook - so that the opt-in that a callback was
selected under is still the one that is asked -, that its index is within the listeners
that entered, and that each of these belongs to the frame's owner and was given the
layout that the frame keeps: only so does what is known of the first listener's target
speak for all of them. `NothingLearnt` is the lemma for steps that make no target and
add no holder, `FrameMoves` the one for steps of the dispatcher.

`EvidenceProofs` proves first `ProofsAgree`, `ServedIsStable` and `CallIsCurrent` of
`CapabilityProofs`, for a finite table of any length, any layouts of its rows, any
capabilities in play and any number of invalidations (`TableAssumption`: the row of the
running VM is in the table, and there is room for the first generation; that it must
say the latter the attempt at the proof showed). That a capability is bound is no proof that it is
bound right: evidence may fail and leave nothing, or leave several rows. `Good` says that
what is bound has, in all its rows, the one layout of the VM, because a set of rows that
evidence leaves has the VM's row or is empty (`OneLayout`). `ProofsInv` adds that, while
the artifact is valid, every supported capability that is verified, or is being read
without the lock, is bound, and that no record is of a later generation: an
unlocked read that records its proof after an invalidation therefore still verifies the
layout of the VM. `HostInv`: admission is open only while no host
is on its way. `ServingInv`: what the core serves is of the current generation, except
between an invalidation and its forgetting; this is what makes a kept profile stable and
a call current. `StepHolds` has one lemma per handler, and below them one per function
that a handler is composed of (`EstablishKept`, `PublishKept`, `EvidenceKept`).

It then proves `DirectoryAgrees` of `LiveDirectory` (`DirectoryAgreement`), for any
program, any deferred units and any number of loads, refreshes, unloads, restarts and
deltas (`DirectoryAssumption`: the program and its units are finite, a Code's owner has
that Code, and the bounds are not zero). `DirectoryInv` has three parts.
`EnvironmentInv`: a deferred unit is mapped where the heap is now, or not at all.
`ImagesInv`: images have distinct units and owners, all below the allocator.
`IndexInv`: the kept index is the one that its infos determine (`Derived`: records,
semantics and alias counts are recomputed, never carried), every image counts its own
infos, and each info has a home - the image of its owner, in whose unit its Code is
(`Home`). The home is what a prune goes by: when an image is retired, the infos that go
are those that lose it, and because owners are not reused no other image can take them.
`EditsDerive` says that erase, append and recount make an index of the infos again, so
that one lemma serves the prune, the delta and the full build; `WholeKept` and
`PartialKept` are the transitions of the images, `PublishedKept` a publication.

`PublishedIsComplete` needs more (`DeltaIsAnOptimization`). `CompleteInv`: within one
context the index has exactly what a walk would find if every unit were loaded exactly
when its image says so; a delta reads the units whose images do not say so yet. It
holds under `Unshared`: a Code of a deferred unit names the one Function that has it, or
none. The hypothesis is needed: a delta reads of each Code only its `owner`, a walk of
the classes finds every Function. With a deferred Code that two listed Functions share
TLC finds in six states a published delta without the second of them; the next full walk
has it. The instance of the run satisfies `Unshared` (its shared Code is in the root).

Last, the composition: a step of `Evidence` is a step or a stutter of each of its modules
(`EachMovesAlone`, `EachIsImplemented`), so that `RecordedIsTrue`, `ServedIsStable` and,
under `Unshared`, `PublishedIsComplete` hold of it as the run states them. Its behaviours
interleave the modules, those of the run take them one at a time.

Only model-checked: liveness (`UnhookEnds`, `GateLetsGo`, `QuiesceCompletes`,
`DispatchEnds`, `DestroyEnds`, `ClosedDrains`), which the proof system does not reach.
`PublishedIsComplete` is proved under `Unshared` only. The other way round,
`EntryNeverLoops` is proved (`NoEntryLoop`) and in no run of its own.

## 5. Not modelled

Byte parsing (ELF, snapshots, metadata, VM heap), instruction decoding and code
generation, register save and restore, generated tables, scripts. The pure
algorithms (argument assignment, the evidence solver, the search for reachable RETs)
appear as constants or outcomes. Memory ordering: every atomic access is a step in a
sequentially consistent order. On arm64 the acquire and release accesses used for
the pair `active` / `in_flight` of a listener are ordered strongly enough for that;
the C++ model alone would let both sides miss each other, until the record's
destructor gives the lease back.

Left out of `HookListeners`: revalidation of artifacts, which opens admission
again (`ArtifactLifecycle` has it); ABI and layout proofs of an add, which only make
it fail earlier (`CapabilityProofs`); a second record at the same target after a
complete unhook.

Left out of `ReturnInterception`: the walk that finds the reachable RETs (the
constant `Returns`); a foreign write between the read of a site and the write
that follows it; retirement of the mapping.

Left out of `CallbackFrames`: which machine locations are roots; stand-alone
scopes and attached threads (`ArtifactLifecycle` has them); hooks of native
fixtures, which go on without a frame where a Dart hook passes through; more than
one listener per frame, which `HookListeners` has; exhaustion of the root pool,
which `ArtifactLifecycle` has.

Left out of `RuntimeOperations`: engine anchors and remapped engines, so that the
engine's epoch is the same for all; profile modules that are ambiguous; unload
events without a name; several isolate groups alive at once; the artifact index
and methods resolved from it (`EntryTargets` has the index as a sidecar);
`WaitForRuntimeModuleRefresh` and its window of results; a root without a usable
snapshot; exhaustion of epochs.

Left out of `ArtifactLifecycle`: a second subscription (`HookListeners`), the locks
that are only tried (`CallbackFrames`), what a handle denotes, the relocation of
roots by the collector, attach. Left out of `CapabilityProofs`: what a probe reads.
Left out of `LiveDirectory`: the decoding of heap objects, lookups by name pattern,
several live isolate groups. Left out of `EntryTargets`: a directory that shrinks
after an unload, names and signatures. Left out of `LoaderCallbacks`: the self-test
of the test build. Left out of `ThreadSampling`: signals sent by others, a second
handler nested in the first, attaching a thread.

## 6. Plan

Done: the components of section 1 that have state, each with its proofs.
Left, in this order:

1. Pure algorithms against reference definitions: the search for reachable RETs, the
   evidence solver, the assignment of arguments.
2. Several engines and isolate groups in `RuntimeOperations`.
