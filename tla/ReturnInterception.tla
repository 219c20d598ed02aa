------------------------- MODULE ReturnInterception -------------------------
(***************************************************************************)
(* The RET patches of one code payload. Every hook of an entry of the      *)
(* payload replaces the RETs that its entry can reach by a branch to one   *)
(* veneer; entries may share RETs, so each patched RET is recorded with    *)
(* the number of its consumers. Installing, rolling back and restoring may *)
(* fail at every site, foreign code may be written over a site at any      *)
(* time, and a CPU may have fetched a branch that is removed meanwhile.    *)
(*                                                                         *)
(* A step is one site: the read of its instruction and the write that      *)
(* follows. State().mutex and payload->mutex are held from the first step  *)
(* of an operation to its last, so operations do not interleave; CPUs and  *)
(* foreign writers do. Sites are visited in any order.                     *)
(***************************************************************************)
EXTENDS Integers, FiniteSets

CONSTANTS
  Hooks,    \* hook records, each installed at most once
  Sites,    \* RET instructions of the payload
  Entries,  \* physical entries in the payload
  EntryOf,  \* hook->code_target->entry
  Returns   \* the RETs an entry reaches, {} when its graph is incomplete

ASSUME InterceptionAssumption ==
  /\ IsFiniteSet(Hooks)
  /\ EntryOf \in [Hooks -> Entries]
  /\ Returns \in [Entries -> SUBSET Sites]

VARIABLES
  text,           \* the instruction at a site, below any foreign code
  foreign,        \* sites overwritten by somebody else
  consumers,      \* payload->return_patches: consumers of a site, 0 if not in it
  interceptions,  \* payload->return_interception_consumers
  veneer,         \* payload->return_entry is mapped
  published,      \* payload->return_entry_published
  inVeneer,       \* a CPU that took no part in any hook runs in the veneer
  record,         \* HookRecord state
  backend,        \* hook->backend_installed
  owned,          \* hook->payload_return_sites; {} is !payload_return_consumer
  stray,          \* history: sites a failed write left in a state nobody records
  pc, me,         \* step and hook of the operation in progress
  todo,           \* sites its current loop has still to visit
  newly,          \* newly_installed
  existing,       \* existing_consumed
  residual,       \* residual
  restored,       \* restored
  after           \* what the caller of RestoreArm64ReturnInterception does next

payloadVars == <<consumers, interceptions>>
codeVars == <<text, foreign, stray>>
veneerVars == <<veneer, published>>
hookVars == <<record, backend, owned>>
loopVars == <<newly, existing, residual, restored>>
vars == <<text, foreign, consumers, interceptions, veneer, published, inVeneer, record,
          backend, owned, stray, pc, me, todo, newly, existing, residual, restored, after>>

(* Records that FindHookLocked does not report: never made, destroyed, or  *)
(* completely unhooked.                                                    *)
Gone == {"new", "destroyed", "unhooked"}
RecordStates == Gone \cup {"installing", "installed", "unhooking", "failed"}
Steps == {"idle", "install", "undo", "publish", "restore", "redo"}
(* drop: the record is destroyed; dropIfRestored: only when the sites were *)
(* restored; keep: it stays as failed; unhook: it becomes unhooked.        *)
Callers == {"none", "drop", "dropIfRestored", "keep", "unhook"}

(* WriteExecutableInstruction: done, refused by the first mprotect, or     *)
(* reported as failed by the second one after the store.                   *)
WriteOutcomes == {"done", "refused", "unsure"}
Stored(outcome) == outcome # "refused"

Current(s) == IF s \in foreign THEN "foreign" ELSE text[s]

Write(s, instruction, outcome) ==
  IF Stored(outcome)
    THEN /\ text' = [text EXCEPT ![s] = instruction]
         /\ foreign' = foreign \ {s}
    ELSE UNCHANGED <<text, foreign>>

Recorded == {s \in Sites : consumers[s] > 0}

Init ==
  /\ text = [s \in Sites |-> "ret"] /\ foreign = {} /\ stray = {}
  /\ consumers = [s \in Sites |-> 0] /\ interceptions = 0
  /\ veneer = FALSE /\ published = FALSE /\ inVeneer = FALSE
  /\ record = [h \in Hooks |-> "new"]
  /\ backend = [h \in Hooks |-> FALSE]
  /\ owned = [h \in Hooks |-> {}]
  /\ pc = "idle" /\ me \in Hooks /\ after = "none"
  /\ todo = {} /\ newly = {} /\ existing = {} /\ residual = {} /\ restored = {}

-----------------------------------------------------------------------------
(* InstallArm64ReturnInterception                                          *)

(* DestroyUnpublishedReturnEntry, when nothing of the payload is patched.  *)
(* Mutant: forgets that a published veneer may still be reached.           *)
VeneerLeftReclaimed(recorded, count) ==
  IF count = 0 /\ recorded = {} THEN FALSE ELSE veneer

VeneerLeft(recorded, count) ==
  IF count = 0 /\ recorded = {} /\ ~published THEN FALSE ELSE veneer

EndOperation ==
  /\ pc' = "idle" /\ after' = "none"
  /\ todo' = {} /\ newly' = {} /\ existing' = {} /\ residual' = {} /\ restored' = {}

(* A new record, at an entry without one. Without a veneer, a complete     *)
(* graph of the entry or memory for the bookkeeping it is given up again.  *)
MayInstall(h) ==
  /\ pc = "idle" /\ record[h] = "new"
  /\ \A g \in Hooks : EntryOf[g] = EntryOf[h] => record[g] \in Gone

InstallRefused(h) ==
  /\ MayInstall(h)
  /\ record' = [record EXCEPT ![h] = "destroyed"]
  /\ veneer' = VeneerLeft(Recorded, interceptions)
  /\ UNCHANGED <<payloadVars, codeVars, published, inVeneer, backend, owned, pc, me, todo,
                 loopVars, after>>

InstallBegins(h) ==
  /\ MayInstall(h)
  /\ Returns[EntryOf[h]] # {}
  /\ record' = [record EXCEPT ![h] = "installing"]
  /\ veneer' = TRUE
  /\ pc' = "install" /\ me' = h /\ todo' = Returns[EntryOf[h]]
  /\ UNCHANGED <<payloadVars, codeVars, published, inVeneer, backend, owned, loopVars, after>>

(* A site that another entry of the payload has patched already.           *)
ShareSite(s) ==
  /\ pc = "install" /\ s \in todo
  /\ consumers[s] > 0 /\ Current(s) = "branch"
  /\ existing' = existing \cup {s} /\ todo' = todo \ {s}
  /\ UNCHANGED <<payloadVars, codeVars, veneerVars, inVeneer, hookVars, pc, me, newly,
                 residual, restored, after>>

PatchSite(s) ==
  /\ pc = "install" /\ s \in todo
  /\ consumers[s] = 0 /\ Current(s) = "ret"
  /\ published' = TRUE
  /\ Write(s, "branch", "done")
  /\ newly' = newly \cup {s} /\ todo' = todo \ {s}
  /\ UNCHANGED <<payloadVars, stray, veneer, inVeneer, hookVars, pc, me, existing, residual,
                 restored, after>>

(* The write fails: the site is not among those the rollback looks at,     *)
(* whether the branch was stored or not.                                   *)
PatchFails(s) ==
  /\ pc = "install" /\ s \in todo
  /\ consumers[s] = 0 /\ Current(s) = "ret"
  /\ published' = TRUE
  /\ \E outcome \in WriteOutcomes \ {"done"} :
       /\ Write(s, "branch", outcome)
       /\ stray' = IF Stored(outcome) THEN stray \cup {s} ELSE stray
  /\ pc' = "undo" /\ todo' = newly
  /\ UNCHANGED <<payloadVars, veneer, inVeneer, hookVars, me, loopVars, after>>

(* The site does not hold what it should, the veneer is out of its reach,  *)
(* or the payload cannot be retained.                                      *)
SiteRefused(s) ==
  /\ pc = "install" /\ s \in todo
  /\ \/ consumers[s] > 0 /\ Current(s) # "branch"
     \/ consumers[s] = 0
  /\ pc' = "undo" /\ todo' = newly
  /\ UNCHANGED <<payloadVars, codeVars, veneerVars, inVeneer, hookVars, me, loopVars, after>>

(* Mutant: does not count the new consumer of a shared site.               *)
InterceptedUncounted ==
  /\ pc = "install" /\ todo = {}
  /\ consumers' = [s \in Sites |-> IF s \in newly THEN 1 ELSE consumers[s]]
  /\ interceptions' = interceptions + 1
  /\ owned' = [owned EXCEPT ![me] = newly \cup existing]
  /\ pc' = "publish" /\ newly' = {} /\ existing' = {}
  /\ UNCHANGED <<codeVars, veneerVars, inVeneer, record, backend, me, todo, residual,
                 restored, after>>

Intercepted ==
  /\ pc = "install" /\ todo = {}
  /\ consumers' = [s \in Sites |-> IF s \in newly THEN 1
                                   ELSE IF s \in existing THEN consumers[s] + 1
                                   ELSE consumers[s]]
  /\ interceptions' = interceptions + 1
  /\ owned' = [owned EXCEPT ![me] = newly \cup existing]
  /\ pc' = "publish" /\ newly' = {} /\ existing' = {}
  /\ UNCHANGED <<codeVars, veneerVars, inVeneer, record, backend, me, todo, residual,
                 restored, after>>

-----------------------------------------------------------------------------
(* rollback_newly_installed                                                *)

(* Mutant: leaves a site it could not write to nobody.                     *)
UndoSiteForgets(s) ==
  /\ pc = "undo" /\ s \in todo
  /\ todo' = todo \ {s}
  /\ \/ /\ Current(s) = "branch"
        /\ \E outcome \in WriteOutcomes : Write(s, "ret", outcome)
        /\ UNCHANGED <<stray, residual>>
     \/ /\ Current(s) = "foreign"
        /\ stray' = stray \cup {s}
        /\ UNCHANGED <<text, foreign, residual>>
  /\ UNCHANGED <<payloadVars, veneerVars, inVeneer, hookVars, pc, me, newly, existing,
                 restored, after>>

(* A site that still holds the branch afterwards is residual; one that     *)
(* holds foreign code is given up. (A site found restored already would be *)
(* skipped; nobody else writes RETs here.)                                 *)
UndoSite(s) ==
  /\ pc = "undo" /\ s \in todo
  /\ todo' = todo \ {s}
  /\ \/ /\ Current(s) = "branch"
        /\ \E outcome \in WriteOutcomes :
             /\ Write(s, "ret", outcome)
             /\ residual' = IF Stored(outcome) THEN residual ELSE residual \cup {s}
        /\ UNCHANGED stray
     \/ /\ Current(s) = "foreign"
        /\ stray' = stray \cup {s}
        /\ UNCHANGED <<text, foreign, residual>>
  /\ UNCHANGED <<payloadVars, veneerVars, inVeneer, hookVars, pc, me, newly, existing,
                 restored, after>>

(* Residual sites get this hook as their only consumer and keep its record *)
(* alive; otherwise the record is destroyed.                               *)
UndoEnds ==
  /\ pc = "undo" /\ todo = {}
  /\ consumers' = [s \in Sites |-> IF s \in residual THEN 1 ELSE consumers[s]]
  /\ interceptions' = IF residual = {} THEN interceptions ELSE interceptions + 1
  /\ owned' = [owned EXCEPT ![me] = residual]
  /\ record' = [record EXCEPT ![me] = IF residual = {} THEN "destroyed" ELSE "failed"]
  /\ veneer' = VeneerLeft(Recorded', interceptions')
  /\ EndOperation
  /\ UNCHANGED <<codeVars, published, inVeneer, backend, me>>

-----------------------------------------------------------------------------
(* InstallCallbackHook after the interception                              *)

HostPublishes ==
  /\ pc = "publish"
  /\ record' = [record EXCEPT ![me] = "installed"]
  /\ backend' = [backend EXCEPT ![me] = TRUE]
  /\ EndOperation
  /\ UNCHANGED <<payloadVars, codeVars, veneerVars, inVeneer, owned, me>>

(* Sites the restoring hook is the last consumer of. Mutant: all of them.  *)
SolelyOwnedAll(h) == owned[h]

SolelyOwned(h) == {s \in owned[h] : consumers[s] = 1}

(* The checks before the first write, all under payload->mutex: every site *)
(* of the hook must still hold the branch. Where they fail there is        *)
(* nothing to redo.                                                        *)
Restorable(h) ==
  /\ interceptions > 0
  /\ \A s \in owned[h] : consumers[s] > 0 /\ Current(s) = "branch"

RestoreBegins(h, caller) ==
  /\ me' = h /\ after' = caller
  /\ IF Restorable(h)
       THEN pc' = "restore" /\ todo' = SolelyOwned(h)
       ELSE pc' = "redo" /\ todo' = {}

(* The gate cannot be built: the record is destroyed whatever becomes of   *)
(* its RET patches.                                                        *)
PrepareFails ==
  /\ pc = "publish"
  /\ RestoreBegins(me, "drop")
  /\ UNCHANGED <<payloadVars, codeVars, veneerVars, inVeneer, hookVars, loopVars>>

(* The host fails: the record is kept when the entry was ever published.   *)
HostFails ==
  /\ pc = "publish"
  /\ \E caller \in {"dropIfRestored", "keep"} : RestoreBegins(me, caller)
  /\ UNCHANGED <<payloadVars, codeVars, veneerVars, inVeneer, hookVars, loopVars>>

(* The host succeeded or left the target to recovery, but the hook does    *)
(* not become usable, and the host does not take it back.                  *)
HostStuck ==
  /\ pc = "publish"
  /\ backend' = [backend EXCEPT ![me] = TRUE]
  /\ RestoreBegins(me, "keep")
  /\ UNCHANGED <<payloadVars, codeVars, veneerVars, inVeneer, record, owned, loopVars>>

-----------------------------------------------------------------------------
(* UnhookRecordLocked and FinishUnhookLocked                               *)

UnhookBegins(h) ==
  /\ pc = "idle" /\ record[h] \in {"installed", "failed"}
  /\ record' = [record EXCEPT ![h] = "unhooking"]
  /\ UNCHANGED <<payloadVars, codeVars, veneerVars, inVeneer, backend, owned, pc, me, todo,
                 loopVars, after>>

HostUnhookFails(h) ==
  /\ pc = "idle" /\ record[h] = "unhooking" /\ backend[h]
  /\ record' = [record EXCEPT ![h] = "failed"]
  /\ UNCHANGED <<payloadVars, codeVars, veneerVars, inVeneer, backend, owned, pc, me, todo,
                 loopVars, after>>

HostUnhooks(h) ==
  /\ pc = "idle" /\ record[h] = "unhooking" /\ owned[h] # {}
  /\ backend' = [backend EXCEPT ![h] = FALSE]
  /\ RestoreBegins(h, "unhook")
  /\ UNCHANGED <<payloadVars, codeVars, veneerVars, inVeneer, record, owned, loopVars>>

(* A record that restored its RETs before: nothing is left to restore.     *)
HostUnhooksRestored(h) ==
  /\ pc = "idle" /\ record[h] = "unhooking" /\ owned[h] = {}
  /\ backend' = [backend EXCEPT ![h] = FALSE]
  /\ record' = [record EXCEPT ![h] = "unhooked"]
  /\ UNCHANGED <<payloadVars, codeVars, veneerVars, inVeneer, owned, pc, me, todo, loopVars,
                 after>>

-----------------------------------------------------------------------------
(* RestoreArm64ReturnInterception                                          *)

RestoreSite(s) ==
  /\ pc = "restore" /\ s \in todo
  /\ Current(s) = "branch"
  /\ Write(s, "ret", "done")
  /\ restored' = restored \cup {s} /\ todo' = todo \ {s}
  /\ UNCHANGED <<payloadVars, stray, veneerVars, inVeneer, hookVars, pc, me, newly, existing,
                 residual, after>>

(* The failed site itself is not among those that are written back.        *)
RestoreSiteFails(s) ==
  /\ pc = "restore" /\ s \in todo
  /\ \/ /\ Current(s) = "foreign"
        /\ UNCHANGED codeVars
     \/ /\ Current(s) = "branch"
        /\ \E outcome \in WriteOutcomes \ {"done"} :
             /\ Write(s, "ret", outcome)
             /\ stray' = IF Stored(outcome) THEN stray \cup {s} ELSE stray
  /\ pc' = "redo" /\ todo' = restored
  /\ UNCHANGED <<payloadVars, veneerVars, inVeneer, hookVars, me, loopVars, after>>

(* Writes the branch back without a look at what the site holds by now.    *)
RedoSite(s) ==
  /\ pc = "redo" /\ s \in todo
  /\ todo' = todo \ {s}
  /\ \E outcome \in WriteOutcomes :
       /\ Write(s, "branch", outcome)
       /\ stray' = IF Stored(outcome) THEN stray ELSE stray \cup {s}
  /\ UNCHANGED <<payloadVars, veneerVars, inVeneer, hookVars, pc, me, loopVars, after>>

RecordAfter(succeeded) ==
  CASE after = "drop" -> "destroyed"
    [] after = "dropIfRestored" -> IF succeeded THEN "destroyed" ELSE "failed"
    [] after = "unhook" -> IF succeeded THEN "unhooked" ELSE "failed"
    [] OTHER -> "failed"

(* Mutant: gives up the consumers although not all sites were restored.    *)
RestoreFailedReleases ==
  /\ pc = "redo" /\ todo = {}
  /\ consumers' = [s \in Sites |-> IF s \in owned[me] THEN consumers[s] - 1 ELSE consumers[s]]
  /\ record' = [record EXCEPT ![me] = RecordAfter(FALSE)]
  /\ EndOperation
  /\ UNCHANGED <<interceptions, codeVars, veneerVars, inVeneer, backend, owned, me>>

RestoreFailed ==
  /\ pc = "redo" /\ todo = {}
  /\ record' = [record EXCEPT ![me] = RecordAfter(FALSE)]
  /\ EndOperation
  /\ UNCHANGED <<payloadVars, codeVars, veneerVars, inVeneer, backend, owned, me>>

Restored ==
  /\ pc = "restore" /\ todo = {}
  /\ consumers' = [s \in Sites |-> IF s \in owned[me] THEN consumers[s] - 1 ELSE consumers[s]]
  /\ interceptions' = interceptions - 1
  /\ owned' = [owned EXCEPT ![me] = {}]
  /\ record' = [record EXCEPT
                  ![me] = RecordAfter(interceptions' > 0 \/ Recorded' = {})]
  /\ veneer' = VeneerLeft(Recorded', interceptions')
  /\ EndOperation
  /\ UNCHANGED <<codeVars, published, inVeneer, backend, me>>

-----------------------------------------------------------------------------
(* Everybody else                                                          *)

ForeignWrites(s) ==
  /\ s \notin foreign
  /\ foreign' = foreign \cup {s}
  /\ UNCHANGED <<payloadVars, text, stray, veneerVars, inVeneer, hookVars, pc, me, todo,
                 loopVars, after>>

(* The other writer puts back what it found.                               *)
ForeignLeaves(s) ==
  /\ s \in foreign
  /\ foreign' = foreign \ {s}
  /\ UNCHANGED <<payloadVars, text, stray, veneerVars, inVeneer, hookVars, pc, me, todo,
                 loopVars, after>>

(* A CPU fetches a branch, and later comes out of the veneer.              *)
Fetch(s) ==
  /\ Current(s) = "branch" /\ ~inVeneer
  /\ inVeneer' = TRUE
  /\ UNCHANGED <<payloadVars, codeVars, veneerVars, hookVars, pc, me, todo, loopVars, after>>

PassThrough ==
  /\ inVeneer
  /\ inVeneer' = FALSE
  /\ UNCHANGED <<payloadVars, codeVars, veneerVars, hookVars, pc, me, todo, loopVars, after>>

InstallSteps ==
  \/ \E h \in Hooks : InstallRefused(h) \/ InstallBegins(h)
  \/ \E s \in Sites : ShareSite(s) \/ PatchSite(s) \/ PatchFails(s) \/ SiteRefused(s)
  \/ Intercepted
  \/ \E s \in Sites : UndoSite(s)
  \/ UndoEnds
PublishSteps == HostPublishes \/ PrepareFails \/ HostFails \/ HostStuck
UnhookSteps ==
  \E h \in Hooks :
    UnhookBegins(h) \/ HostUnhookFails(h) \/ HostUnhooks(h) \/ HostUnhooksRestored(h)
RestoreSteps ==
  \/ \E s \in Sites : RestoreSite(s) \/ RestoreSiteFails(s) \/ RedoSite(s)
  \/ RestoreFailed \/ Restored
OtherSteps ==
  \/ \E s \in Sites : ForeignWrites(s) \/ ForeignLeaves(s) \/ Fetch(s)
  \/ PassThrough

Next == InstallSteps \/ PublishSteps \/ UnhookSteps \/ RestoreSteps \/ OtherSteps

Spec == Init /\ [][Next]_vars

-----------------------------------------------------------------------------
(* Type invariant of the payload, its hooks and the loop in progress.      *)
TypeOK ==
  /\ text \in [Sites -> {"ret", "branch"}]
  /\ foreign \subseteq Sites /\ stray \subseteq Sites
  /\ consumers \in [Sites -> Nat] /\ interceptions \in Nat
  /\ veneer \in BOOLEAN /\ published \in BOOLEAN /\ inVeneer \in BOOLEAN
  /\ record \in [Hooks -> RecordStates]
  /\ backend \in [Hooks -> BOOLEAN]
  /\ owned \in [Hooks -> SUBSET Sites]
  /\ pc \in Steps /\ me \in Hooks /\ after \in Callers
  /\ todo \subseteq Sites /\ newly \subseteq Sites /\ existing \subseteq Sites
  /\ residual \subseteq Sites /\ restored \subseteq Sites

(* The reference counts of a payload (Arm64ReturnPatch::consumers,         *)
(* return_interception_consumers) are the numbers of hooks that own the    *)
(* site, or any site, through failed installs, rollbacks and restores.     *)
ConsumersExact ==
  /\ \A s \in Sites : consumers[s] = Cardinality({h \in Hooks : s \in owned[h]})
  /\ interceptions = Cardinality({h \in Hooks : owned[h] # {}})

(* While a hook is installed every RET its entry can reach branches to the *)
(* veneer (or lies under foreign code), whatever happens to the hooks that *)
(* share the RET: otherwise a tracked invocation would never be finished.  *)
InstalledIntercepts ==
  \A h \in Hooks : record[h] = "installed" =>
    \A s \in Returns[EntryOf[h]] : text[s] = "branch"

(* return_patches tells which RETs are patched: outside the site loops a   *)
(* RET is a branch exactly when it is recorded, except at sites where a    *)
(* write failed after its store, a rollback could not write or met foreign *)
(* code. Entry fingerprints and later installs rely on it.                 *)
PatchedIffRecorded ==
  \A s \in Sites \ (stray \cup newly \cup restored) :
    text[s] = "branch" <=> consumers[s] > 0

(* What the payload records of its RETs agrees with its hooks and with the *)
(* text (Arm64ReturnPatch, return_patches, return_interception_consumers). *)
PayloadAgrees == TypeOK /\ ConsumersExact /\ PatchedIffRecorded

(* The veneer and the cookie in it stay mapped as long as some RET may be  *)
(* a branch to it, and as long as a CPU that no hook counts runs in it     *)
(* (RetainPublishedReturnPayload, DestroyUnpublishedReturnEntry).          *)
VeneerMapped == inVeneer \/ (\E s \in Sites : text[s] = "branch") => veneer
=============================================================================
