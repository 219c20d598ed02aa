-------------------------- MODULE ProcessTracesProofs --------------------------
(***************************************************************************)
(* For any payload, callers, stubs, callbacks and threads: what            *)
(* ReturnInterception, DobbyHost, ShadowHookHost, LoaderCallbacks and      *)
(* ThreadSampling promise of the patches, callbacks and signals they leave *)
(* in the process, however their steps interleave.                         *)
(***************************************************************************)
EXTENDS ProcessTraces, FiniteSetTheorems, TLAPS

-----------------------------------------------------------------------------
(* A step of the composition is a step of each of its modules, or none.    *)
LEMMA StepsOfModules ==
  ASSUME [TracesNext]_tracesVars
  PROVE  /\ [Dobby!Next]_dobbyVars /\ [ShadowHook!Next]_shadowVars
         /\ [Loader!Next]_loaderVars /\ [Sampling!Next]_samplerVars
BY DEF TracesNext, ReturnsMove, DobbyMoves, ShadowMoves, LoaderMoves, SamplerMoves, tracesVars

-----------------------------------------------------------------------------
(* The patched RETs (ReturnInterception): any payload, any number of hooks *)
(* that share its RETs in any way, and any outcome of every write.         *)

Owners(s) == {h \in Hooks : s \in owned[h]}
Holders == {h \in Hooks : owned[h] # {}}

(* What the loops over sites know: nobody owns a site an install patched   *)
(* anew, and the hook of a restore is the only owner of the sites it       *)
(* restores.                                                               *)
LoopInv ==
  /\ pc \notin {"install", "undo"} => newly = {} /\ existing = {} /\ residual = {}
  /\ pc \notin {"restore", "redo"} => restored = {}
  /\ pc = "install" =>
       /\ todo \cup newly \cup existing = Returns[EntryOf[me]]
       /\ residual = {}
       /\ \A s \in newly : text[s] = "branch"
       /\ \A s \in existing : consumers[s] > 0 /\ text[s] = "branch"
  /\ pc = "undo" =>
       /\ todo \cup residual \subseteq newly /\ todo \cap residual = {}
       /\ \A s \in residual : text[s] = "branch"
       /\ \A s \in newly \ (todo \cup residual) : text[s] = "ret" \/ s \in stray
  /\ pc \in {"install", "undo"} =>
       /\ Returns[EntryOf[me]] # {}
       /\ record[me] = "installing" /\ owned[me] = {} /\ veneer
       /\ \A s \in newly : consumers[s] = 0
  /\ pc = "publish" =>
       /\ record[me] = "installing" /\ owned[me] = Returns[EntryOf[me]]
       /\ owned[me] # {}
       /\ \A s \in owned[me] : text[s] = "branch"
  /\ pc = "restore" =>
       /\ owned[me] # {}
       /\ todo \cup restored = {s \in owned[me] : consumers[s] = 1}
       /\ \A s \in restored : text[s] = "ret"
  /\ pc = "redo" =>
       /\ todo \subseteq restored /\ restored \subseteq owned[me]
       /\ \A s \in restored : consumers[s] = 1
       /\ \A s \in restored \ todo : text[s] = "branch" \/ s \in stray
  /\ pc \in {"restore", "redo"} => record[me] \in {"installing", "unhooking"}

(* An installed hook owns every RET of its entry, a new one none.          *)
OwnedInv ==
  \A h \in Hooks :
    /\ record[h] = "installed" => owned[h] = Returns[EntryOf[h]] /\ owned[h] # {}
    /\ record[h] = "new" => owned[h] = {}

(* A branch to the veneer is published before it is written and recorded,  *)
(* and a published veneer is never given back.                             *)
VeneerInv ==
  /\ inVeneer \/ (\E s \in Sites : text[s] = "branch" \/ consumers[s] > 0) => published
  /\ published => veneer

InterceptionInv ==
  /\ TypeOK /\ ConsumersExact /\ InstalledIntercepts /\ PatchedIffRecorded
  /\ LoopInv /\ OwnedInv /\ VeneerInv

-----------------------------------------------------------------------------
(* Sets of hooks and their sizes.                                          *)
LEMMA HookSets ==
  ASSUME NEW S \in SUBSET Hooks, NEW h \in Hooks
  PROVE  /\ IsFiniteSet(S) /\ Cardinality(S) \in Nat
         /\ Cardinality(S) = 0 <=> S = {}
         /\ h \notin S => Cardinality(S \cup {h}) = Cardinality(S) + 1
         /\ h \in S => Cardinality(S \ {h}) = Cardinality(S) - 1
<1>1. IsFiniteSet(S)
  BY InterceptionAssumption, FS_Subset
<1>2. Cardinality(S) \in Nat /\ (Cardinality(S) = 0 <=> S = {})
  BY <1>1, FS_CardinalityType, FS_EmptySet
<1>3. h \notin S => Cardinality(S \cup {h}) = Cardinality(S) + 1
  BY <1>1, FS_AddElement
<1>4. h \in S => Cardinality(S \ {h}) = Cardinality(S) - 1
  BY <1>1, FS_RemoveElement
<1>. QED
  BY <1>1, <1>2, <1>3, <1>4

(* A site without consumer has no owner, an owned one has a consumer, and  *)
(* the owner of a site with one consumer is the only one.                  *)
LEMMA ConsumersAndOwners ==
  ASSUME TypeOK, ConsumersExact, NEW h \in Hooks
  PROVE  /\ \A s \in owned[h] : consumers[s] > 0
         /\ \A s \in owned[h] : consumers[s] = 1 => \A g \in Hooks : s \in owned[g] => g = h
         /\ owned[h] # {} => interceptions > 0
<1>1. \A s \in owned[h] : consumers[s] > 0
  <2>. SUFFICES ASSUME NEW s \in owned[h]
                PROVE  consumers[s] > 0
    OBVIOUS
  <2>1. s \in Sites /\ consumers[s] = Cardinality(Owners(s)) /\ h \in Owners(s)
    BY DEF TypeOK, ConsumersExact, Owners
  <2>2. Cardinality(Owners(s)) \in Nat /\ Cardinality(Owners(s)) # 0
    BY <2>1, HookSets DEF Owners
  <2>. QED
    BY <2>1, <2>2
<1>2. ASSUME NEW s \in owned[h], consumers[s] = 1, NEW g \in Hooks, s \in owned[g]
      PROVE  g = h
  <2>1. s \in Sites /\ Cardinality(Owners(s)) = 1 /\ h \in Owners(s) /\ g \in Owners(s)
    BY <1>2 DEF TypeOK, ConsumersExact, Owners
  <2>2. Cardinality(Owners(s) \ {h}) = 0
    BY <2>1, HookSets DEF Owners
  <2>3. Owners(s) \ {h} \in SUBSET Hooks
    BY DEF Owners
  <2>4. Owners(s) \ {h} = {}
    BY <2>2, <2>3, HookSets
  <2>. QED
    BY <2>1, <2>4
<1>3. owned[h] # {} => interceptions > 0
  <2>1. interceptions = Cardinality(Holders)
    BY DEF ConsumersExact, Holders
  <2>2. Cardinality(Holders) \in Nat /\ (owned[h] # {} => Cardinality(Holders) # 0)
    BY HookSets DEF Holders
  <2>. QED
    BY <2>1, <2>2
<1>. QED
  BY <1>1, <1>2, <1>3

(* Exact counts stay exact when nobody's sites change, when the hook of    *)
(* the operation comes to own sites, and when it gives up what it owns.    *)
LEMMA CountsKept ==
  ASSUME ConsumersExact, UNCHANGED <<consumers, interceptions, owned>>
  PROVE  ConsumersExact'
BY DEF ConsumersExact

LEMMA CountsAcquired ==
  ASSUME TypeOK, ConsumersExact, owned[me] = {}, NEW T \in SUBSET Sites, T # {},
         owned' = [owned EXCEPT ![me] = T],
         consumers' = [s \in Sites |-> IF s \in T THEN consumers[s] + 1 ELSE consumers[s]],
         interceptions' = interceptions + 1
  PROVE  ConsumersExact'
<1>1. me \in Hooks
  BY DEF TypeOK
<1>2. ASSUME NEW s \in Sites
      PROVE  consumers'[s] = Cardinality(Owners(s)')
  <2>1. Owners(s)' = IF s \in T THEN Owners(s) \cup {me} ELSE Owners(s)
    BY <1>1 DEF TypeOK, Owners
  <2>2. me \notin Owners(s) /\ Owners(s) \in SUBSET Hooks
    BY DEF Owners
  <2>3. consumers[s] = Cardinality(Owners(s))
    BY DEF ConsumersExact, Owners
  <2>. QED
    BY <1>1, <2>1, <2>2, <2>3, HookSets
<1>3. interceptions' = Cardinality(Holders')
  <2>1. Holders' = Holders \cup {me}
    BY <1>1 DEF TypeOK, Holders
  <2>2. me \notin Holders /\ Holders \in SUBSET Hooks
    BY DEF Holders
  <2>. QED
    BY <1>1, <2>1, <2>2, HookSets DEF ConsumersExact, Holders
<1>. QED
  BY <1>2, <1>3 DEF ConsumersExact, Owners, Holders

LEMMA CountsGivenUp ==
  ASSUME TypeOK, ConsumersExact, owned[me] # {},
         owned' = [owned EXCEPT ![me] = {}],
         consumers' = [s \in Sites |-> IF s \in owned[me] THEN consumers[s] - 1
                                       ELSE consumers[s]],
         interceptions' = interceptions - 1
  PROVE  ConsumersExact'
<1>1. me \in Hooks
  BY DEF TypeOK
<1>2. ASSUME NEW s \in Sites
      PROVE  consumers'[s] = Cardinality(Owners(s)')
  <2>1. Owners(s)' = IF s \in owned[me] THEN Owners(s) \ {me} ELSE Owners(s)
    BY <1>1 DEF TypeOK, Owners
  <2>2. Owners(s) \in SUBSET Hooks /\ (s \in owned[me] => me \in Owners(s))
    BY <1>1 DEF Owners
  <2>3. consumers[s] = Cardinality(Owners(s))
    BY DEF ConsumersExact, Owners
  <2>. QED
    BY <1>1, <2>1, <2>2, <2>3, HookSets
<1>3. interceptions' = Cardinality(Holders')
  <2>1. Holders' = Holders \ {me}
    BY <1>1 DEF TypeOK, Holders
  <2>2. me \in Holders /\ Holders \in SUBSET Hooks
    BY <1>1 DEF Holders
  <2>. QED
    BY <1>1, <2>1, <2>2, HookSets DEF ConsumersExact, Holders
<1>. QED
  BY <1>2, <1>3 DEF ConsumersExact, Owners, Holders

-----------------------------------------------------------------------------
(* What the writes of a step leave: the next state's instructions.         *)
LEMMA WriteEffect ==
  ASSUME TypeOK, NEW s \in Sites, NEW i \in {"ret", "branch"}, NEW o \in WriteOutcomes,
         Write(s, i, o)
  PROVE  /\ text' \in [Sites -> {"ret", "branch"}] /\ foreign' \subseteq Sites
         /\ \A t \in Sites : text'[t] = IF t = s /\ o # "refused" THEN i ELSE text[t]
BY DEF TypeOK, Write, Stored, WriteOutcomes

(* The steps of an installation that changes no count.                     *)
LEMMA InstallLoopKeeps ==
  ASSUME InterceptionInv, NEW s \in Sites,
         ShareSite(s) \/ PatchSite(s) \/ PatchFails(s) \/ SiteRefused(s) \/ UndoSite(s)
  PROVE  InterceptionInv'
<1>. USE DEF InterceptionInv
<1>1. ConsumersExact'
  BY CountsKept DEF ShareSite, PatchSite, PatchFails, SiteRefused, UndoSite, payloadVars,
     hookVars
<1>2. CASE ShareSite(s)
  BY <1>1, <1>2 DEF ShareSite, TypeOK, LoopInv, OwnedInv, VeneerInv, InstalledIntercepts,
     PatchedIffRecorded, payloadVars, codeVars, veneerVars, hookVars, Current, Steps
<1>3. CASE PatchSite(s)
  <2>1. /\ text' \in [Sites -> {"ret", "branch"}] /\ foreign' \subseteq Sites
        /\ \A t \in Sites : text'[t] = IF t = s THEN "branch" ELSE text[t]
    BY <1>3, WriteEffect DEF PatchSite, WriteOutcomes
  <2>. QED
    BY <1>1, <1>3, <2>1 DEF PatchSite, TypeOK, LoopInv, OwnedInv, VeneerInv,
       InstalledIntercepts, PatchedIffRecorded, payloadVars, hookVars
<1>4. CASE PatchFails(s)
  <2>1. PICK o \in WriteOutcomes \ {"done"} :
          /\ Write(s, "branch", o)
          /\ stray' = IF Stored(o) THEN stray \cup {s} ELSE stray
    BY <1>4 DEF PatchFails
  <2>2. /\ text' \in [Sites -> {"ret", "branch"}] /\ foreign' \subseteq Sites
        /\ \A t \in Sites : text'[t] = IF t = s /\ o # "refused" THEN "branch" ELSE text[t]
    BY <2>1, WriteEffect
  <2>. QED
    BY <1>1, <1>4, <2>1, <2>2 DEF PatchFails, TypeOK, LoopInv, OwnedInv, VeneerInv,
       InstalledIntercepts, PatchedIffRecorded, payloadVars, hookVars, loopVars, Stored, Steps
<1>5. CASE SiteRefused(s)
  BY <1>1, <1>5 DEF SiteRefused, TypeOK, LoopInv, OwnedInv, VeneerInv, InstalledIntercepts,
     PatchedIffRecorded, payloadVars, codeVars, veneerVars, hookVars, loopVars, Steps
<1>6. CASE UndoSite(s)
  <2>1. \A h \in Hooks : record[h] = "installed" => s \notin owned[h]
    BY <1>6, ConsumersAndOwners DEF UndoSite, TypeOK, LoopInv
  <2>2. CASE Current(s) = "branch"
    <3>1. PICK o \in WriteOutcomes :
            /\ Write(s, "ret", o)
            /\ residual' = IF Stored(o) THEN residual ELSE residual \cup {s}
            /\ stray' = stray
      BY <1>6, <2>2 DEF UndoSite
    <3>2. /\ text' \in [Sites -> {"ret", "branch"}] /\ foreign' \subseteq Sites
          /\ \A t \in Sites : text'[t] = IF t = s /\ o # "refused" THEN "ret" ELSE text[t]
      BY <3>1, WriteEffect
    <3>3. text[s] = "branch"
      BY <2>2 DEF Current
    <3>4. TypeOK'
      BY <1>6, <3>1, <3>2 DEF UndoSite, TypeOK, payloadVars, veneerVars, hookVars
    <3>5. LoopInv'
      <4>1. todo' \cup residual' \subseteq newly' /\ todo' \cap residual' = {}
        BY <1>6, <3>1 DEF UndoSite, LoopInv
      <4>2. \A r \in residual' : text'[r] = "branch"
        BY <1>6, <3>1, <3>2, <3>3 DEF UndoSite, TypeOK, LoopInv, Stored
      <4>3. \A r \in newly' \ (todo' \cup residual') : text'[r] = "ret" \/ r \in stray'
        BY <1>6, <3>1, <3>2 DEF UndoSite, TypeOK, LoopInv, Stored, WriteOutcomes
      <4>. QED
        BY <1>6, <4>1, <4>2, <4>3 DEF UndoSite, LoopInv, payloadVars, veneerVars, hookVars
    <3>. QED
      BY <1>1, <1>6, <2>1, <3>1, <3>2, <3>4, <3>5 DEF UndoSite, TypeOK, LoopInv, OwnedInv,
         VeneerInv, InstalledIntercepts, PatchedIffRecorded, payloadVars, veneerVars, hookVars
  <2>3. CASE Current(s) = "foreign"
    BY <1>1, <1>6, <2>3 DEF UndoSite, TypeOK, LoopInv, OwnedInv, VeneerInv,
       InstalledIntercepts, PatchedIffRecorded, payloadVars, veneerVars, hookVars
  <2>. QED
    BY <1>6, <2>2, <2>3 DEF UndoSite
<1>. QED
  BY <1>2, <1>3, <1>4, <1>5, <1>6

(* A veneer is given back only while unpublished.                          *)
LEMMA VeneerLeftKeeps ==
  ASSUME TypeOK, VeneerInv, NEW recorded, NEW count, veneer' = VeneerLeft(recorded, count)
  PROVE  veneer' \in BOOLEAN /\ (published => veneer')
BY DEF TypeOK, VeneerInv, VeneerLeft

(* The beginning and the ends of an installation.                          *)
LEMMA InstallKeeps ==
  ASSUME InterceptionInv, InstallSteps
  PROVE  InterceptionInv'
<1>. USE DEF InterceptionInv
<1>1. ASSUME NEW h \in Hooks, InstallRefused(h)
      PROVE  InterceptionInv'
  <2>1. ConsumersExact'
    BY <1>1, CountsKept DEF InstallRefused, payloadVars
  <2>2. veneer' \in BOOLEAN /\ (published => veneer')
    BY <1>1, VeneerLeftKeeps DEF InstallRefused
  <2>. QED
    BY <1>1, <2>1, <2>2 DEF InstallRefused, MayInstall, TypeOK, LoopInv, OwnedInv,
       VeneerInv, InstalledIntercepts, PatchedIffRecorded, payloadVars, codeVars, loopVars,
       RecordStates, Gone
<1>2. ASSUME NEW h \in Hooks, InstallBegins(h)
      PROVE  InterceptionInv'
  <2>1. ConsumersExact'
    BY <1>2, CountsKept DEF InstallBegins, payloadVars
  <2>2. owned[h] = {}
    BY <1>2 DEF InstallBegins, MayInstall, OwnedInv
  <2>3. Returns[EntryOf[h]] \subseteq Sites
    BY InterceptionAssumption
  <2>4. TypeOK'
    BY <1>2, <2>3 DEF InstallBegins, TypeOK, payloadVars, codeVars, loopVars, RecordStates,
       Gone, Steps
  <2>5. /\ pc' = "install" /\ me' = h /\ todo' = Returns[EntryOf[h]] /\ veneer'
        /\ record'[h] = "installing" /\ owned'[h] = {}
    BY <1>2, <2>2 DEF InstallBegins, TypeOK
  <2>6. newly' = {} /\ existing' = {} /\ residual' = {} /\ restored' = {}
    BY <1>2 DEF InstallBegins, MayInstall, LoopInv, loopVars
  <2>7. LoopInv'
    BY <1>2, <2>5, <2>6 DEF InstallBegins, LoopInv
  <2>. QED
    BY <1>2, <2>1, <2>4, <2>7 DEF InstallBegins, TypeOK, OwnedInv, VeneerInv,
       InstalledIntercepts, PatchedIffRecorded, payloadVars, codeVars, loopVars
<1>3. CASE Intercepted
  <2>1. newly \cup existing = Returns[EntryOf[me]] /\ newly \cup existing # {}
    BY <1>3 DEF Intercepted, LoopInv
  <2>2. consumers' = [s \in Sites |-> IF s \in newly \cup existing THEN consumers[s] + 1
                                      ELSE consumers[s]]
    BY <1>3 DEF Intercepted, LoopInv, TypeOK
  <2>3. ConsumersExact'
    BY <1>3, <2>1, <2>2, CountsAcquired DEF Intercepted, LoopInv, TypeOK
  <2>4. TypeOK'
    BY <1>3, <2>2 DEF Intercepted, TypeOK, codeVars, veneerVars, Steps
  <2>. QED
    BY <1>3, <2>1, <2>2, <2>3, <2>4 DEF Intercepted, TypeOK, LoopInv, OwnedInv, VeneerInv,
       InstalledIntercepts, PatchedIffRecorded, codeVars, veneerVars
<1>4. CASE UndoEnds
  <2>1. consumers' = [s \in Sites |-> IF s \in residual THEN consumers[s] + 1
                                      ELSE consumers[s]]
    BY <1>4 DEF UndoEnds, LoopInv, TypeOK
  <2>2. residual = {} => UNCHANGED <<consumers, interceptions, owned>>
    BY <1>4, <2>1 DEF UndoEnds, LoopInv, TypeOK
  <2>3. ConsumersExact'
    BY <1>4, <2>1, <2>2, CountsKept, CountsAcquired DEF UndoEnds, LoopInv, TypeOK
  <2>4. veneer' \in BOOLEAN /\ (published => veneer')
    BY <1>4, VeneerLeftKeeps DEF UndoEnds
  <2>5. TypeOK'
    BY <1>4, <2>1, <2>4 DEF UndoEnds, EndOperation, TypeOK, codeVars, RecordStates,
       Gone, Steps, Callers
  <2>. QED
    BY <1>4, <2>1, <2>3, <2>4, <2>5 DEF UndoEnds, EndOperation, TypeOK, LoopInv,
       OwnedInv, VeneerInv, InstalledIntercepts, PatchedIffRecorded, codeVars
<1>. QED
  BY <1>1, <1>2, <1>3, <1>4, InstallLoopKeeps DEF InstallSteps

(* A restore begins: either it checked that every site is a branch and     *)
(* picked those it alone consumes, or it fails with nothing written.       *)
LEMMA RestoreBeginKeeps ==
  ASSUME InterceptionInv, NEW h \in Hooks, NEW caller \in Callers, RestoreBegins(h, caller),
         pc \in {"publish", "idle"}, owned[h] # {}, record[h] \in {"installing", "unhooking"},
         backend' \in [Hooks -> BOOLEAN],
         UNCHANGED <<payloadVars, codeVars, veneerVars, inVeneer, record, owned, loopVars>>
  PROVE  InterceptionInv'
<1>. USE DEF InterceptionInv
<1>1. ConsumersExact'
  BY CountsKept DEF payloadVars
<1>. QED
  BY <1>1, ConsumersAndOwners DEF RestoreBegins, Restorable, SolelyOwned, TypeOK, LoopInv,
     OwnedInv, VeneerInv, InstalledIntercepts, PatchedIffRecorded, payloadVars, codeVars,
     veneerVars, loopVars, Steps

LEMMA PublishKeeps ==
  ASSUME InterceptionInv, PublishSteps
  PROVE  InterceptionInv'
<1>. USE DEF InterceptionInv
<1>1. CASE HostPublishes
  <2>1. ConsumersExact'
    BY <1>1, CountsKept DEF HostPublishes, payloadVars
  <2>. QED
    BY <1>1, <2>1 DEF HostPublishes, EndOperation, TypeOK, LoopInv, OwnedInv, VeneerInv,
       InstalledIntercepts, PatchedIffRecorded, payloadVars, codeVars, veneerVars,
       RecordStates, Steps, Callers
<1>2. pc = "publish" => me \in Hooks /\ owned[me] # {} /\ record[me] = "installing"
  BY DEF LoopInv, TypeOK
<1>3. CASE PrepareFails
  BY <1>2, <1>3, RestoreBeginKeeps DEF PrepareFails, Callers, hookVars, TypeOK
<1>4. CASE HostFails
  BY <1>2, <1>4, RestoreBeginKeeps DEF HostFails, Callers, hookVars, TypeOK
<1>5. CASE HostStuck
  BY <1>2, <1>5, RestoreBeginKeeps DEF HostStuck, Callers, TypeOK
<1>. QED
  BY <1>1, <1>3, <1>4, <1>5 DEF PublishSteps

LEMMA UnhookKeeps ==
  ASSUME InterceptionInv, UnhookSteps
  PROVE  InterceptionInv'
<1>. USE DEF InterceptionInv
<1>. PICK h \in Hooks :
       UnhookBegins(h) \/ HostUnhookFails(h) \/ HostUnhooks(h) \/ HostUnhooksRestored(h)
  BY DEF UnhookSteps
<1>1. CASE UnhookBegins(h)
  <2>1. ConsumersExact'
    BY <1>1, CountsKept DEF UnhookBegins, payloadVars
  <2>. QED
    BY <1>1, <2>1 DEF UnhookBegins, TypeOK, LoopInv, OwnedInv, VeneerInv,
       InstalledIntercepts, PatchedIffRecorded, payloadVars, codeVars, veneerVars, loopVars,
       RecordStates
<1>2. CASE HostUnhookFails(h)
  <2>1. ConsumersExact'
    BY <1>2, CountsKept DEF HostUnhookFails, payloadVars
  <2>. QED
    BY <1>2, <2>1 DEF HostUnhookFails, TypeOK, LoopInv, OwnedInv, VeneerInv,
       InstalledIntercepts, PatchedIffRecorded, payloadVars, codeVars, veneerVars, loopVars,
       RecordStates
<1>3. CASE HostUnhooks(h)
  BY <1>3, RestoreBeginKeeps DEF HostUnhooks, Callers, TypeOK
<1>4. CASE HostUnhooksRestored(h)
  <2>1. ConsumersExact'
    BY <1>4, CountsKept DEF HostUnhooksRestored, payloadVars
  <2>. QED
    BY <1>4, <2>1 DEF HostUnhooksRestored, TypeOK, LoopInv, OwnedInv, VeneerInv,
       InstalledIntercepts, PatchedIffRecorded, payloadVars, codeVars, veneerVars, loopVars,
       RecordStates, Gone
<1>. QED
  BY <1>1, <1>2, <1>3, <1>4

(* The steps of a restore.                                                 *)
LEMMA RestoreKeeps ==
  ASSUME InterceptionInv, RestoreSteps
  PROVE  InterceptionInv'
<1>. USE DEF InterceptionInv
<1>1. \A s \in Sites : pc = "restore" /\ s \in todo =>
        \A h \in Hooks : record[h] = "installed" => s \notin owned[h]
  BY ConsumersAndOwners DEF TypeOK, LoopInv
<1>2. ASSUME NEW s \in Sites, RestoreSite(s)
      PROVE  InterceptionInv'
  <2>1. ConsumersExact'
    BY <1>2, CountsKept DEF RestoreSite, payloadVars, hookVars
  <2>2. /\ text' \in [Sites -> {"ret", "branch"}] /\ foreign' \subseteq Sites
        /\ \A t \in Sites : text'[t] = IF t = s THEN "ret" ELSE text[t]
    BY <1>2, WriteEffect DEF RestoreSite, WriteOutcomes
  <2>3. TypeOK' /\ LoopInv' /\ OwnedInv'
    BY <1>2, <2>2 DEF RestoreSite, TypeOK, LoopInv, OwnedInv, payloadVars, veneerVars,
       hookVars
  <2>. QED
    BY <1>1, <1>2, <2>1, <2>2, <2>3 DEF RestoreSite, TypeOK, LoopInv, OwnedInv, VeneerInv,
       InstalledIntercepts, PatchedIffRecorded, payloadVars, veneerVars, hookVars
<1>3. ASSUME NEW s \in Sites, RestoreSiteFails(s)
      PROVE  InterceptionInv'
  <2>1. ConsumersExact'
    BY <1>3, CountsKept DEF RestoreSiteFails, payloadVars, hookVars
  <2>2. PICK o \in WriteOutcomes :
          /\ stray' = IF o # "refused" THEN stray \cup {s} ELSE stray
          /\ text' \in [Sites -> {"ret", "branch"}] /\ foreign' \subseteq Sites
          /\ \A t \in Sites : text'[t] = IF t = s /\ o # "refused" THEN "ret" ELSE text[t]
    <3>1. CASE UNCHANGED codeVars
      BY <3>1 DEF codeVars, TypeOK, WriteOutcomes
    <3>2. CASE \E o \in WriteOutcomes \ {"done"} :
                 /\ Write(s, "ret", o)
                 /\ stray' = IF Stored(o) THEN stray \cup {s} ELSE stray
      <4>1. PICK o \in WriteOutcomes \ {"done"} :
              /\ Write(s, "ret", o)
              /\ stray' = IF Stored(o) THEN stray \cup {s} ELSE stray
        BY <3>2
      <4>2. /\ text' \in [Sites -> {"ret", "branch"}] /\ foreign' \subseteq Sites
            /\ \A t \in Sites : text'[t] = IF t = s /\ o # "refused" THEN "ret" ELSE text[t]
        BY <4>1, WriteEffect
      <4>. QED
        BY <4>1, <4>2 DEF Stored
    <3>. QED
      BY <1>3, <3>1, <3>2 DEF RestoreSiteFails
  <2>3. TypeOK' /\ LoopInv' /\ OwnedInv'
    BY <1>3, <2>2 DEF RestoreSiteFails, TypeOK, LoopInv, OwnedInv, payloadVars, veneerVars,
       hookVars, loopVars, Steps
  <2>. QED
    BY <1>1, <1>3, <2>1, <2>2, <2>3 DEF RestoreSiteFails, TypeOK, LoopInv, OwnedInv,
       VeneerInv, InstalledIntercepts, PatchedIffRecorded, payloadVars, veneerVars, hookVars,
       loopVars
<1>4. ASSUME NEW s \in Sites, RedoSite(s)
      PROVE  InterceptionInv'
  <2>1. ConsumersExact'
    BY <1>4, CountsKept DEF RedoSite, payloadVars, hookVars
  <2>2. PICK o \in WriteOutcomes :
          /\ Write(s, "branch", o)
          /\ stray' = IF Stored(o) THEN stray ELSE stray \cup {s}
    BY <1>4 DEF RedoSite
  <2>3. /\ text' \in [Sites -> {"ret", "branch"}] /\ foreign' \subseteq Sites
        /\ \A t \in Sites : text'[t] = IF t = s /\ o # "refused" THEN "branch" ELSE text[t]
    BY <2>2, WriteEffect
  <2>4. published
    BY <1>4 DEF RedoSite, LoopInv, TypeOK, VeneerInv
  <2>. QED
    BY <1>4, <2>1, <2>2, <2>3, <2>4 DEF RedoSite, TypeOK, LoopInv, OwnedInv, VeneerInv,
       InstalledIntercepts, PatchedIffRecorded, payloadVars, veneerVars, hookVars, loopVars,
       Stored
<1>5. CASE RestoreFailed
  <2>1. ConsumersExact'
    BY <1>5, CountsKept DEF RestoreFailed, payloadVars
  <2>2. RecordAfter(FALSE) \in {"destroyed", "failed"}
    BY DEF RecordAfter, TypeOK, Callers
  <2>3. TypeOK'
    BY <1>5, <2>2 DEF RestoreFailed, EndOperation, TypeOK, payloadVars, codeVars, veneerVars,
       RecordStates, Gone, Steps, Callers
  <2>4. \A s \in restored : text[s] = "branch" \/ s \in stray
    BY <1>5 DEF RestoreFailed, LoopInv
  <2>5. PatchedIffRecorded'
    BY <1>5, <2>4 DEF RestoreFailed, EndOperation, TypeOK, LoopInv, PatchedIffRecorded,
       payloadVars, codeVars
  <2>6. LoopInv'
    BY <1>5 DEF RestoreFailed, EndOperation, LoopInv
  <2>7. OwnedInv' /\ InstalledIntercepts'
    BY <1>5, <2>2 DEF RestoreFailed, TypeOK, OwnedInv, InstalledIntercepts, codeVars
  <2>. QED
    BY <1>5, <2>1, <2>3, <2>5, <2>6, <2>7 DEF RestoreFailed, VeneerInv, payloadVars,
       codeVars, veneerVars
<1>6. CASE Restored
  <2>1. owned[me] # {} /\ me \in Hooks /\ interceptions > 0
        /\ \A s \in owned[me] : consumers[s] > 0
    BY <1>6, ConsumersAndOwners DEF Restored, LoopInv, TypeOK
  <2>2. ConsumersExact'
    BY <1>6, <2>1, CountsGivenUp DEF Restored
  <2>3. veneer' \in BOOLEAN /\ (published => veneer')
    BY <1>6, VeneerLeftKeeps DEF Restored
  <2>4. record' = [record EXCEPT ![me] = record'[me]]
        /\ record'[me] \in {"destroyed", "failed", "unhooked"}
    BY <1>6, <2>1 DEF Restored, RecordAfter, TypeOK, Callers
  <2>5. TypeOK'
    BY <1>6, <2>1, <2>3, <2>4 DEF Restored, EndOperation, TypeOK, codeVars, RecordStates,
       Gone, Steps, Callers
  <2>6. PatchedIffRecorded'
    BY <1>6, <2>1 DEF Restored, EndOperation, TypeOK, LoopInv, PatchedIffRecorded, codeVars
  <2>. QED
    BY <1>6, <2>2, <2>3, <2>4, <2>5, <2>6 DEF Restored, EndOperation, TypeOK, LoopInv,
       OwnedInv, VeneerInv, InstalledIntercepts, codeVars
<1>. QED
  BY <1>2, <1>3, <1>4, <1>5, <1>6 DEF RestoreSteps

(* Foreign writers and CPUs.                                               *)
LEMMA OthersKeep ==
  ASSUME InterceptionInv, OtherSteps
  PROVE  InterceptionInv'
<1>. USE DEF InterceptionInv
<1>1. ConsumersExact'
  BY CountsKept DEF OtherSteps, ForeignWrites, ForeignLeaves, Fetch, PassThrough,
     payloadVars, hookVars
<1>2. TypeOK'
  BY DEF OtherSteps, ForeignWrites, ForeignLeaves, Fetch, PassThrough, TypeOK, payloadVars,
     codeVars, veneerVars, hookVars, loopVars
<1>3. inVeneer' => inVeneer \/ \E s \in Sites : text[s] = "branch"
  BY DEF OtherSteps, ForeignWrites, ForeignLeaves, Fetch, PassThrough, Current
<1>4. UNCHANGED <<text, stray, payloadVars, veneerVars, hookVars, pc, me, todo, loopVars>>
  BY DEF OtherSteps, ForeignWrites, ForeignLeaves, Fetch, PassThrough, codeVars
<1>. QED
  BY <1>1, <1>2, <1>3, <1>4 DEF LoopInv, OwnedInv, VeneerInv, InstalledIntercepts,
     PatchedIffRecorded, payloadVars, veneerVars, hookVars, loopVars

-----------------------------------------------------------------------------
(* The payload starts without hooks and patches.                           *)
LEMMA InterceptionInit == Init => InterceptionInv
<1>. SUFFICES ASSUME Init
              PROVE  InterceptionInv
  OBVIOUS
<1>1. \A s \in Sites : {h \in Hooks : s \in owned[h]} = {}
  BY DEF Init
<1>2. {h \in Hooks : owned[h] # {}} = {}
  BY DEF Init
<1>3. ConsumersExact
  BY <1>1, <1>2, FS_EmptySet DEF Init, ConsumersExact
<1>4. TypeOK
  BY DEF Init, TypeOK, RecordStates, Gone, Steps, Callers
<1>5. VeneerInv
  BY DEF Init, VeneerInv
<1>6. LoopInv /\ OwnedInv /\ InstalledIntercepts /\ PatchedIffRecorded
  BY DEF Init, LoopInv, OwnedInv, InstalledIntercepts, PatchedIffRecorded
<1>. QED
  BY <1>3, <1>4, <1>5, <1>6 DEF InterceptionInv

(* The invariant of the payload's patches is inductive.                    *)
THEOREM Interception == Spec => []InterceptionInv
<1>1. InterceptionInv /\ [Next]_vars => InterceptionInv'
  <2>. SUFFICES ASSUME InterceptionInv, [Next]_vars
                PROVE  InterceptionInv'
    OBVIOUS
  <2>1. CASE UNCHANGED vars
    BY <2>1 DEF vars, InterceptionInv, TypeOK, ConsumersExact, LoopInv, OwnedInv, VeneerInv,
       InstalledIntercepts, PatchedIffRecorded
  <2>. QED
    BY <2>1, InstallKeeps, PublishKeeps, UnhookKeeps, RestoreKeeps, OthersKeep DEF Next
<1>. QED
  BY <1>1, InterceptionInit, PTL DEF Spec

(* The variables keep their types.                                         *)
THEOREM InterceptionTyping == Spec => []TypeOK
<1>1. InterceptionInv => TypeOK
  BY DEF InterceptionInv
<1>. QED
  BY <1>1, Interception, PTL

(* Arm64ReturnPatch::consumers and return_interception_consumers count the *)
(* hooks that own a site exactly, whichever installs and restores fail.    *)
THEOREM PatchCountsExact == Spec => []ConsumersExact
<1>1. InterceptionInv => ConsumersExact
  BY DEF InterceptionInv
<1>. QED
  BY <1>1, Interception, PTL

(* No operation on another hook of the payload takes an interception from  *)
(* an installed hook.                                                      *)
THEOREM InstalledStayIntercepted == Spec => []InstalledIntercepts
<1>1. InterceptionInv => InstalledIntercepts
  BY DEF InterceptionInv
<1>. QED
  BY <1>1, Interception, PTL

(* return_patches lists exactly the RETs that are branches, except where a *)
(* write failed.                                                           *)
THEOREM PatchesRecorded == Spec => []PatchedIffRecorded
<1>1. InterceptionInv => PatchedIffRecorded
  BY DEF InterceptionInv
<1>. QED
  BY <1>1, Interception, PTL

(* No CPU executes a veneer that was given back.                           *)
THEOREM VeneerStaysMapped == Spec => []VeneerMapped
<1>1. InterceptionInv => VeneerMapped
  BY DEF InterceptionInv, VeneerInv, VeneerMapped
<1>. QED
  BY <1>1, Interception, PTL

(* What the payload records of its RETs agrees with its hooks and the text. *)
THEOREM PayloadStaysTrue == Spec => []PayloadAgrees
<1>1. TypeOK /\ ConsumersExact /\ PatchedIffRecorded => PayloadAgrees
  BY DEF PayloadAgrees
<1>. QED
  BY <1>1, InterceptionTyping, PatchCountsExact, PatchesRecorded, PTL

(* The patched RETs of a process move as ReturnInterception says, whatever *)
(* the hosts, the loader and the sampler do between their steps.           *)
THEOREM ReturnsMoveAlone == TracesSpec => Spec
<1>1. TracesInit => Init
  BY DEF TracesInit
<1>2. [TracesNext]_tracesVars => [Next]_vars
  BY DEF TracesNext, ReturnsMove, DobbyMoves, ShadowMoves, LoaderMoves, SamplerMoves, tracesVars
<1> QED
  BY <1>1, <1>2, PTL DEF TracesSpec, Spec

-----------------------------------------------------------------------------
(* The Dobby adapter (DobbyHost)                                           *)

OwnedType == [ticket : Nat, state : Dobby!States]
ReservationType == [ticket : Nat \ {0}, stage : Dobby!Stages]
ResultType == [kept : BOOLEAN, ever_published : BOOLEAN, recovery : BOOLEAN]

DobbyTypeOK ==
  /\ tickets \in Nat
  /\ target_owned \in OwnedType \cup {None}
  /\ reservation \in ReservationType \cup {Dobby!Foreign, None}
  /\ installing \in [Installers -> {"free", "commit", "committed", "failed", "settle"}]
  /\ ticket \in [Installers -> Nat]
  /\ result \in [Installers -> ResultType]

Reserved(t, s) == reservation = [ticket |-> t, stage |-> s]

(* What a caller in Install knows: the transaction in the map is its own,  *)
(* and so is the reservation as long as its handle is kept.                *)
DobbyInstallInv(c) ==
  /\ installing[c] # "free" => /\ ticket[c] # 0
                               /\ target_owned = [ticket |-> ticket[c], state |-> "preparing"]
  /\ installing[c] = "commit" => Reserved(ticket[c], "prepared")
  /\ installing[c] = "committed" => Reserved(ticket[c], "patched")
  /\ installing[c] \in {"failed", "settle"} =>
       IF result[c].kept
       THEN Reserved(ticket[c], IF result[c].ever_published THEN "uncertain" ELSE "prepared")
       ELSE reservation \in {Dobby!Foreign, None}

OneInstalls ==
  \A c, d \in Installers : installing[c] # "free" /\ installing[d] # "free" => c = d

(* A patch that may be in is one the adapter owns.                         *)
PatchInv ==
  reservation # None /\ reservation.stage \in {"patched", "uncertain"}
    => target_owned # None /\ target_owned.ticket = reservation.ticket

ReturnedType == DOMAIN returned = Installers

DobbyInv == DobbyTypeOK /\ (\A c \in Installers : DobbyInstallInv(c)) /\ OneInstalls /\ PatchInv

(* Initially the target belongs to nobody.                                 *)
LEMMA DobbyStarts == Dobby!Init => DobbyInv
<1> SUFFICES ASSUME Dobby!Init PROVE DobbyInv
  OBVIOUS
<1>1. DobbyTypeOK
  <2>1. result \in [Installers -> ResultType]
    BY DEF Dobby!Init, Dobby!NoResult, ResultType
  <2> QED
    BY <2>1 DEF Dobby!Init, DobbyTypeOK
<1>2. (\A c \in Installers : DobbyInstallInv(c)) /\ OneInstalls /\ PatchInv
  BY DEF Dobby!Init, DobbyInstallInv, OneInstalls, PatchInv
<1> QED
  BY <1>1, <1>2 DEF DobbyInv

(* A record is not nothing.                                                *)
LEMMA Records ==
  ASSUME NEW t \in Nat
  PROVE  /\ \A s \in Dobby!States : [ticket |-> t, state |-> s] # None
         /\ \A s \in Dobby!Stages : [ticket |-> t, stage |-> s] # None
         /\ Dobby!Foreign # None /\ "prepared" # None /\ "patched" # None /\ "uncertain" # None
BY HostsAssumption DEF Dobby!TicketsAssumption, Dobby!Stages

(* What a commit does.                                                     *)
LEMMA CommitOutcome ==
  ASSUME NEW c \in Installers, Dobby!Commit(c)
  PROVE  \/ /\ installing' = [installing EXCEPT ![c] = "committed"]
            /\ reservation' = [ticket |-> ticket[c], stage |-> "patched"]
            /\ result' = [result EXCEPT ![c] = Dobby!NoResult]
         \/ /\ installing' = [installing EXCEPT ![c] = "failed"]
            /\ \E r \in ResultType :
                 /\ result' = [result EXCEPT ![c] = r]
                 /\ IF r.kept
                    THEN reservation' = [ticket |-> ticket[c],
                                         stage |-> IF r.ever_published THEN "uncertain"
                                                   ELSE "prepared"]
                    ELSE reservation' = None
<1>1. PICK outcome \in {"ok", "changed", "undone", "restored", "unsure"} :
        LET commit == Dobby!Commits[outcome]
        IN /\ reservation' = IF commit.after = None THEN None
                             ELSE [ticket |-> ticket[c], stage |-> commit.after]
           /\ result' = [result EXCEPT ![c] = commit.result]
           /\ Dobby!Moves(c, IF outcome = "ok" THEN "committed" ELSE "failed")
  BY DEF Dobby!Commit, Dobby!Commits
<1> USE DEF Dobby!Commits, Dobby!Moves, Dobby!NoResult
<1>2. "patched" # None /\ "prepared" # None /\ "uncertain" # None
  BY HostsAssumption DEF Dobby!TicketsAssumption, Dobby!Stages
<1>3. CASE outcome = "ok"
  BY <1>1, <1>2, <1>3
<1>4. CASE outcome = "changed"
  <2> DEFINE r == [kept |-> TRUE, ever_published |-> FALSE, recovery |-> FALSE]
  <2>1. r \in ResultType /\ r.kept /\ ~r.ever_published
    BY DEF ResultType
  <2>2. Dobby!Commits[outcome].result = r /\ Dobby!Commits[outcome].after = "prepared"
    BY <1>4
  <2> QED
    BY <1>1, <1>2, <1>4, <2>1, <2>2
<1>5. CASE outcome = "undone"
  <2>1. Dobby!NoResult \in ResultType /\ ~Dobby!NoResult.kept
    BY DEF ResultType
  <2>2. Dobby!Commits[outcome].result = Dobby!NoResult /\ Dobby!Commits[outcome].after = None
    BY <1>5
  <2> QED
    BY <1>1, <1>5, <2>1, <2>2
<1>6. CASE outcome = "restored"
  <2> DEFINE r == [kept |-> FALSE, ever_published |-> TRUE, recovery |-> FALSE]
  <2>1. r \in ResultType /\ ~r.kept
    BY DEF ResultType
  <2>2. Dobby!Commits[outcome].result = r /\ Dobby!Commits[outcome].after = None
    BY <1>6
  <2> QED
    BY <1>1, <1>6, <2>1, <2>2
<1>7. CASE outcome = "unsure"
  <2> DEFINE r == [kept |-> TRUE, ever_published |-> TRUE, recovery |-> TRUE]
  <2>1. r \in ResultType /\ r.kept /\ r.ever_published
    BY DEF ResultType
  <2>2. Dobby!Commits[outcome].result = r /\ Dobby!Commits[outcome].after = "uncertain"
    BY <1>7
  <2> QED
    BY <1>1, <1>2, <1>7, <2>1, <2>2
<1> QED
  BY <1>1, <1>3, <1>4, <1>5, <1>6, <1>7

(* Every step of the adapter, and every other user of Dobby, keeps it.     *)
LEMMA DobbyKept ==
  DobbyInv /\ [Dobby!Next]_dobbyVars => DobbyInv'
<1> SUFFICES ASSUME DobbyInv, [Dobby!Next]_dobbyVars PROVE DobbyInv'
  OBVIOUS
<1>0. DobbyTypeOK /\ OneInstalls /\ PatchInv /\ \A c \in Installers : DobbyInstallInv(c)
  BY DEF DobbyInv
<1>1. ASSUME NEW c \in Installers, Dobby!Prepare(c) PROVE DobbyInv'
  <2>1. CASE UNCHANGED <<target_owned, reservation, tickets, ticket, result>>
             /\ Dobby!Return(c, Dobby!NeverPublished)
    <3>1. installing' = installing
      BY <1>0, <1>1, <2>1 DEF Dobby!Prepare, Dobby!Return, DobbyTypeOK
    <3> QED
      BY <1>0, <2>1, <3>1
         DEF DobbyInv, DobbyTypeOK, OneInstalls, PatchInv, DobbyInstallInv, Reserved
  <2>2. ASSUME target_owned = None, reservation = None, tickets' = tickets + 1, UNCHANGED result,
               ticket' = [ticket EXCEPT ![c] = tickets + 1],
               target_owned' = [ticket |-> tickets + 1, state |-> "preparing"],
               reservation' = [ticket |-> tickets + 1, stage |-> "prepared"],
               installing' = [installing EXCEPT ![c] = "commit"]
        PROVE  DobbyInv'
    <3>1. tickets + 1 \in Nat \ {0}
      BY <1>0 DEF DobbyTypeOK
    <3>2. \A d \in Installers : installing[d] = "free"
      BY <1>0, <2>2, Records DEF DobbyTypeOK, DobbyInstallInv, Dobby!States
    <3>3. DobbyTypeOK'
      BY <1>0, <2>2, <3>1 DEF DobbyTypeOK, OwnedType, ReservationType, Dobby!States, Dobby!Stages
    <3>4. OneInstalls' /\ \A d \in Installers : DobbyInstallInv(d)'
      BY <1>0, <2>2, <3>1, <3>2 DEF DobbyTypeOK, OneInstalls, DobbyInstallInv, Reserved
    <3>5. PatchInv'
      BY <2>2 DEF PatchInv
    <3> QED
      BY <3>3, <3>4, <3>5 DEF DobbyInv
  <2>3. ASSUME target_owned = None, reservation = None, tickets' = tickets + 1, UNCHANGED result,
               UNCHANGED <<target_owned, ticket>>, installing[c] = "free",
               reservation' \in {None, [ticket |-> tickets + 1, stage |-> "prepared"]},
               installing' = [installing EXCEPT ![c] = "free"]
        PROVE  DobbyInv'
    <3>1. tickets + 1 \in Nat \ {0} /\ installing' = installing
      BY <1>0, <2>3 DEF DobbyTypeOK
    <3>2. \A d \in Installers : installing[d] = "free"
      BY <1>0, <2>3, Records DEF DobbyTypeOK, DobbyInstallInv, Dobby!States
    <3>3. DobbyTypeOK'
      BY <1>0, <2>3, <3>1 DEF DobbyTypeOK, ReservationType, Dobby!Stages
    <3>4. OneInstalls' /\ \A d \in Installers : DobbyInstallInv(d)'
      BY <3>1, <3>2 DEF OneInstalls, DobbyInstallInv
    <3>5. PatchInv'
      BY <2>3 DEF PatchInv
    <3> QED
      BY <3>3, <3>4, <3>5 DEF DobbyInv
  <2> QED
    BY <1>1, <2>1, <2>2, <2>3 DEF Dobby!Prepare, Dobby!Moves, Dobby!Return
<1>2. ASSUME NEW c \in Installers, Dobby!Commit(c) PROVE DobbyInv'
  <2>1. UNCHANGED <<target_owned, tickets, ticket>> /\ installing[c] = "commit"
    BY <1>2 DEF Dobby!Commit
  <2>2. /\ ticket[c] \in Nat \ {0} /\ target_owned = [ticket |-> ticket[c], state |-> "preparing"]
        /\ target_owned # None /\ \A d \in Installers \ {c} : installing[d] = "free"
    BY <1>0, <2>1, Records DEF DobbyTypeOK, DobbyInstallInv, OneInstalls, Dobby!States
  <2>3. CASE /\ installing' = [installing EXCEPT ![c] = "committed"]
             /\ reservation' = [ticket |-> ticket[c], stage |-> "patched"]
             /\ result' = [result EXCEPT ![c] = Dobby!NoResult]
    <3>1. DobbyTypeOK'
      <4>1. result' \in [Installers -> ResultType]
        BY <1>0, <2>3 DEF DobbyTypeOK, Dobby!NoResult, ResultType
      <4> QED
        BY <1>0, <2>1, <2>2, <2>3, <4>1 DEF DobbyTypeOK, ReservationType, Dobby!Stages
    <3>2. OneInstalls' /\ \A d \in Installers : DobbyInstallInv(d)'
      BY <1>0, <2>1, <2>2, <2>3 DEF DobbyTypeOK, OneInstalls, DobbyInstallInv, Reserved
    <3>3. PatchInv'
      BY <2>1, <2>2, <2>3 DEF PatchInv
    <3> QED
      BY <3>1, <3>2, <3>3 DEF DobbyInv
  <2>4. ASSUME NEW r \in ResultType, installing' = [installing EXCEPT ![c] = "failed"],
               result' = [result EXCEPT ![c] = r],
               IF r.kept THEN reservation' = [ticket |-> ticket[c],
                                              stage |-> IF r.ever_published THEN "uncertain"
                                                        ELSE "prepared"]
               ELSE reservation' = None
        PROVE  DobbyInv'
    <3>1. DobbyTypeOK'
      <4>1. result' \in [Installers -> ResultType]
        BY <1>0, <2>4 DEF DobbyTypeOK
      <4>2. reservation' \in ReservationType \cup {None}
        BY <2>2, <2>4 DEF ReservationType, Dobby!Stages
      <4> QED
        BY <1>0, <2>1, <2>2, <2>4, <4>1, <4>2 DEF DobbyTypeOK
    <3>2. OneInstalls' /\ \A d \in Installers \ {c} : DobbyInstallInv(d)'
      BY <1>0, <2>1, <2>2, <2>4 DEF DobbyTypeOK, OneInstalls, DobbyInstallInv
    <3>3. DobbyInstallInv(c)'
      <4>1. installing'[c] = "failed" /\ result'[c] = r
        BY <1>0, <2>4 DEF DobbyTypeOK
      <4> QED
        BY <2>1, <2>2, <2>4, <4>1 DEF DobbyInstallInv, Reserved
    <3>4. PatchInv'
      BY <2>1, <2>2, <2>4 DEF PatchInv
    <3> QED
      BY <3>1, <3>2, <3>3, <3>4 DEF DobbyInv
  <2> QED
    BY <1>2, <2>3, <2>4, CommitOutcome
<1>3. ASSUME NEW c \in Installers, Dobby!MarkInstalled(c) PROVE DobbyInv'
  <2>1. /\ UNCHANGED <<reservation, tickets, ticket, result>> /\ installing[c] = "committed"
        /\ installing' = [installing EXCEPT ![c] = "free"] /\ Dobby!Mark(c, "installed")
    BY <1>3 DEF Dobby!MarkInstalled, Dobby!Return
  <2>2. /\ ticket[c] \in Nat /\ target_owned = [ticket |-> ticket[c], state |-> "preparing"]
        /\ target_owned # None /\ \A d \in Installers \ {c} : installing[d] = "free"
    BY <1>0, <2>1, Records DEF DobbyTypeOK, DobbyInstallInv, OneInstalls, Dobby!States
  <2>3. target_owned' = [ticket |-> ticket[c], state |-> "installed"] /\ target_owned' # None
    BY <2>1, <2>2, Records DEF Dobby!Mark, Dobby!States
  <2>4. DobbyTypeOK'
    BY <1>0, <2>1, <2>2, <2>3 DEF DobbyTypeOK, OwnedType, Dobby!States
  <2>5. OneInstalls' /\ \A d \in Installers : DobbyInstallInv(d)'
    BY <1>0, <2>1, <2>2 DEF DobbyTypeOK, OneInstalls, DobbyInstallInv
  <2>6. PatchInv'
    BY <1>0, <2>1, <2>2, <2>3 DEF PatchInv
  <2> QED
    BY <2>4, <2>5, <2>6 DEF DobbyInv
<1>4. ASSUME NEW c \in Installers, Dobby!AbortFailed(c) PROVE DobbyInv'
  <2>1. /\ UNCHANGED <<target_owned, tickets, ticket>> /\ installing[c] = "failed"
        /\ installing' = [installing EXCEPT ![c] = "settle"]
    BY <1>4 DEF Dobby!AbortFailed, Dobby!Moves
  <2>2. /\ ticket[c] \in Nat /\ target_owned = [ticket |-> ticket[c], state |-> "preparing"]
        /\ target_owned # None /\ \A d \in Installers \ {c} : installing[d] = "free"
    BY <1>0, <2>1, Records DEF DobbyTypeOK, DobbyInstallInv, OneInstalls, Dobby!States
  <2>3. CASE UNCHANGED <<reservation, result>>
    <3>1. DobbyTypeOK'
      BY <1>0, <2>1, <2>3 DEF DobbyTypeOK
    <3>2. OneInstalls' /\ \A d \in Installers : DobbyInstallInv(d)'
      BY <1>0, <2>1, <2>2, <2>3 DEF DobbyTypeOK, OneInstalls, DobbyInstallInv, Reserved
    <3>3. PatchInv'
      BY <1>0, <2>1, <2>3 DEF PatchInv
    <3> QED
      BY <3>1, <3>2, <3>3 DEF DobbyInv
  <2>4. CASE reservation' = None /\ result' = [result EXCEPT ![c].kept = FALSE]
    <3>1. DobbyTypeOK'
      BY <1>0, <2>1, <2>4 DEF DobbyTypeOK, ResultType
    <3>2. OneInstalls' /\ \A d \in Installers \ {c} : DobbyInstallInv(d)'
      BY <1>0, <2>1, <2>2, <2>4 DEF DobbyTypeOK, OneInstalls, DobbyInstallInv
    <3>3. DobbyInstallInv(c)'
      <4>1. installing'[c] = "settle" /\ result'[c].kept = FALSE
        BY <1>0, <2>1, <2>4 DEF DobbyTypeOK, ResultType
      <4>2. ticket[c] # 0
        BY <1>0, <2>1 DEF DobbyInstallInv
      <4> QED
        BY <2>1, <2>2, <2>4, <4>1, <4>2 DEF DobbyInstallInv
    <3>4. PatchInv'
      BY <2>4 DEF PatchInv
    <3> QED
      BY <3>1, <3>2, <3>3, <3>4 DEF DobbyInv
  <2>5. CASE result[c].kept /\ reservation' = reservation
             /\ result' = [result EXCEPT ![c].kept = TRUE]
    <3>1. result' = result
      BY <1>0, <2>5 DEF DobbyTypeOK, ResultType
    <3> QED
      BY <2>3, <2>5, <3>1
  <2> QED
    BY <1>4, <2>3, <2>4, <2>5 DEF Dobby!AbortFailed, Dobby!DobbyAbortHook
<1>5. ASSUME NEW c \in Installers, Dobby!Settle(c) PROVE DobbyInv'
  <2>1. /\ UNCHANGED <<reservation, tickets, ticket, result>> /\ installing[c] = "settle"
        /\ installing' = [installing EXCEPT ![c] = "free"]
    BY <1>5 DEF Dobby!Settle, Dobby!Return
  <2>2. /\ ticket[c] \in Nat /\ target_owned = [ticket |-> ticket[c], state |-> "preparing"]
        /\ target_owned # None /\ \A d \in Installers \ {c} : installing[d] = "free"
    BY <1>0, <2>1, Records DEF DobbyTypeOK, DobbyInstallInv, OneInstalls, Dobby!States
  <2>3. OneInstalls' /\ \A d \in Installers : DobbyInstallInv(d)'
    BY <1>0, <2>1, <2>2 DEF DobbyTypeOK, OneInstalls, DobbyInstallInv
  <2>4. CASE result[c].kept
    <3>1. target_owned' = [ticket |-> ticket[c], state |-> "recovery"] /\ target_owned' # None
      BY <1>5, <2>2, <2>4, Records DEF Dobby!Settle, Dobby!Mark, Dobby!States
    <3>2. DobbyTypeOK'
      BY <1>0, <2>1, <2>2, <3>1 DEF DobbyTypeOK, OwnedType, Dobby!States
    <3>3. PatchInv'
      BY <1>0, <2>1, <2>2, <3>1 DEF PatchInv
    <3> QED
      BY <2>3, <3>2, <3>3 DEF DobbyInv
  <2>5. CASE ~result[c].kept
    <3>1. target_owned' = None
      BY <1>5, <2>5 DEF Dobby!Settle
    <3>2. DobbyTypeOK'
      BY <1>0, <2>1, <3>1 DEF DobbyTypeOK
    <3>3. PatchInv'
      BY <1>0, <2>1, <2>5 DEF PatchInv, DobbyInstallInv, Dobby!Foreign
    <3> QED
      BY <2>3, <3>2, <3>3 DEF DobbyInv
  <2> QED
    BY <2>4, <2>5
<1>6. ASSUME NEW c \in Installers, Dobby!Unhook(c) PROVE DobbyInv'
  <2>1. /\ UNCHANGED <<tickets, installing, ticket, result>>
        /\ target_owned' = None /\ reservation' = None
        /\ target_owned # None /\ target_owned.state # "preparing"
    BY <1>6 DEF Dobby!Unhook
  <2>2. \A d \in Installers : installing[d] = "free"
    BY <1>0, <2>1 DEF DobbyTypeOK, DobbyInstallInv
  <2> QED
    BY <1>0, <2>1, <2>2 DEF DobbyInv, DobbyTypeOK, OneInstalls, DobbyInstallInv, PatchInv
<1>7. CASE Dobby!ForeignUser
  <2>1. /\ UNCHANGED <<target_owned, tickets, installing, ticket, result>>
        /\ reservation \in {Dobby!Foreign, None} /\ reservation' \in {Dobby!Foreign, None}
    BY <1>7 DEF Dobby!ForeignUser
  <2>2. DobbyTypeOK' /\ OneInstalls' /\ PatchInv'
    BY <1>0, <2>1 DEF DobbyTypeOK, OneInstalls, PatchInv, Dobby!Foreign
  <2>3. ASSUME NEW c \in Installers PROVE DobbyInstallInv(c)'
    <3>1. \A s \in Dobby!Stages : ~Reserved(ticket[c], s) \/ ticket[c] = 0
      BY <1>0, <2>1, Records DEF DobbyTypeOK, Reserved, Dobby!Foreign
    <3> QED
      BY <1>0, <2>1, <3>1 DEF DobbyInstallInv, Dobby!Stages
  <2> QED
    BY <2>2, <2>3 DEF DobbyInv
<1>8. CASE UNCHANGED dobbyVars
  BY <1>0, <1>8
     DEF dobbyVars, DobbyInv, DobbyTypeOK, OneInstalls, DobbyInstallInv, PatchInv, Reserved
<1> QED
  BY <1>1, <1>2, <1>3, <1>4, <1>5, <1>6, <1>7, <1>8 DEF Dobby!Next

(* Whatever callers, failures and other users of Dobby interleave, a patch *)
(* the adapter made can be undone by target (Install, Unhook,              *)
(* adapters/dobby/dobby_host.cpp).                                         *)
THEOREM PatchStaysOwned == TracesSpec => []Dobby!PatchIsOwned
<1>1. DobbyInv => Dobby!PatchIsOwned
  <2> SUFFICES ASSUME DobbyInv PROVE Dobby!PatchIsOwned
    OBVIOUS
  <2>1. \A c \in Installers : installing[c] # "free" => target_owned # None
    BY Records DEF DobbyInv, DobbyInstallInv, DobbyTypeOK, Dobby!States
  <2> QED
    BY <2>1 DEF DobbyInv, PatchInv, DobbyInstallInv, Dobby!PatchIsOwned
<1>2. DobbyInv /\ [TracesNext]_tracesVars => DobbyInv'
  BY DobbyKept, StepsOfModules
<1>3. TracesInit => DobbyInv
  BY DobbyStarts DEF TracesInit
<1> QED
  BY <1>1, <1>2, <1>3, PTL DEF TracesSpec

(* Every caller has its own code.                                          *)
LEMMA CodesKept == ReturnedType /\ [Dobby!Next]_dobbyVars => ReturnedType'
<1> SUFFICES ASSUME ReturnedType, [Dobby!Next]_dobbyVars PROVE ReturnedType'
  OBVIOUS
<1> QED
  BY DEF ReturnedType, Dobby!Next, dobbyVars, Dobby!Prepare, Dobby!Commit, Dobby!MarkInstalled,
         Dobby!AbortFailed, Dobby!Settle, Dobby!Unhook, Dobby!ForeignUser, Dobby!Return,
         Dobby!Moves

(* Install reports what is so when it returns (Install, host_api.h:52).    *)
THEOREM OutcomeStaysTrue == TracesSpec => Dobby!OutcomeTrue
<1>1. DobbyInv /\ ReturnedType /\ [Dobby!Next]_dobbyVars => [Dobby!TellsTruth]_dobbyVars
  <2> SUFFICES ASSUME DobbyInv, ReturnedType, [Dobby!Next]_dobbyVars, ~UNCHANGED dobbyVars,
                      NEW c \in Installers, installing[c] # "free", installing'[c] = "free"
               PROVE  LET mine == reservation' # None /\ reservation'.ticket = ticket[c]
                      IN CASE returned'[c] = Dobby!Success          -> mine
                              /\ reservation'.stage = "patched"
                           [] returned'[c] = Dobby!NeverPublished   -> ~mine
                              /\ ~result[c].ever_published
                           [] returned'[c] = Dobby!AfterPublished   -> ~mine
                           [] returned'[c] = Dobby!RecoveryRequired -> mine
                              /\ target_owned'.state = "recovery"
    BY DEF Dobby!TellsTruth
  <2>0. DobbyTypeOK /\ DobbyInstallInv(c)
    BY DEF DobbyInv
  <2>1. Dobby!MarkInstalled(c) \/ Dobby!Settle(c)
    <3>1. ASSUME NEW d \in Installers, Dobby!Prepare(d) \/ Dobby!Commit(d) \/ Dobby!AbortFailed(d)
          PROVE  FALSE
      BY <2>0, <3>1
         DEF DobbyTypeOK, Dobby!Prepare, Dobby!Commit, Dobby!AbortFailed, Dobby!Return,
             Dobby!Moves
    <3>2. ASSUME NEW d \in Installers \ {c}, Dobby!MarkInstalled(d) \/ Dobby!Settle(d) PROVE FALSE
      BY <2>0, <3>2 DEF DobbyTypeOK, Dobby!MarkInstalled, Dobby!Settle, Dobby!Return
    <3>3. ~ \E d \in Installers : Dobby!Unhook(d)
      BY DEF Dobby!Unhook
    <3>4. ~Dobby!ForeignUser /\ ~UNCHANGED dobbyVars
      BY DEF Dobby!ForeignUser, dobbyVars
    <3> QED
      BY <3>1, <3>2, <3>3, <3>4 DEF Dobby!Next
  <2>2. /\ ticket[c] # 0 /\ ticket[c] \in Nat
        /\ target_owned = [ticket |-> ticket[c], state |-> "preparing"] /\ target_owned # None
    BY <2>0, Records DEF DobbyTypeOK, DobbyInstallInv, Dobby!States
  <2>3. CASE Dobby!MarkInstalled(c)
    <3>1. returned'[c] = Dobby!Success
      BY <2>0, <2>3
         DEF Dobby!MarkInstalled, Dobby!Return, ReturnedType, DobbyTypeOK, ResultType,
             Dobby!Success
    <3>2. reservation' # None /\ reservation' = [ticket |-> ticket[c], stage |-> "patched"]
      BY <2>0, <2>2, <2>3, Records DEF Dobby!MarkInstalled, DobbyInstallInv, Reserved, Dobby!Stages
    <3> QED
      BY <3>1, <3>2
         DEF Dobby!Success, Dobby!NeverPublished, Dobby!AfterPublished, Dobby!RecoveryRequired
  <2>4. CASE Dobby!Settle(c) /\ result[c].kept
    <3>1. returned'[c] = Dobby!RecoveryRequired
      <4>1. returned' = [returned EXCEPT ![c] = Dobby!RecoveryRequired]
        BY <2>4 DEF Dobby!Settle, Dobby!Return
      <4> QED
        BY <4>1 DEF ReturnedType
    <3>2. reservation' # None /\ reservation'.ticket = ticket[c]
      BY <2>0, <2>2, <2>4, Records DEF Dobby!Settle, DobbyInstallInv, Reserved, Dobby!Stages
    <3>3. target_owned'.state = "recovery"
      BY <2>2, <2>4 DEF Dobby!Settle, Dobby!Mark
    <3> QED
      BY <3>1, <3>2, <3>3
         DEF Dobby!Success, Dobby!NeverPublished, Dobby!AfterPublished, Dobby!RecoveryRequired
  <2>5. CASE Dobby!Settle(c) /\ ~result[c].kept
    <3>1. returned'[c] = IF result[c].ever_published THEN Dobby!AfterPublished
          ELSE Dobby!NeverPublished
      BY <2>0, <2>5 DEF Dobby!Settle, Dobby!Return, ReturnedType, DobbyTypeOK, ResultType,
             Dobby!AfterPublished, Dobby!NeverPublished
    <3>2. reservation' \in {Dobby!Foreign, None}
      BY <2>0, <2>5 DEF Dobby!Settle, DobbyInstallInv
    <3>3. ~(reservation' # None /\ reservation'.ticket = ticket[c])
      BY <2>2, <3>2 DEF Dobby!Foreign
    <3>4. CASE result[c].ever_published
      BY <3>1, <3>3, <3>4
         DEF Dobby!Success, Dobby!NeverPublished, Dobby!AfterPublished, Dobby!RecoveryRequired
    <3>5. CASE ~result[c].ever_published
      BY <3>1, <3>3, <3>5
         DEF Dobby!Success, Dobby!NeverPublished, Dobby!AfterPublished, Dobby!RecoveryRequired
    <3> QED
      BY <3>4, <3>5
  <2> QED
    BY <2>1, <2>3, <2>4, <2>5
<1> QED
  <2>1. TracesInit => DobbyInv /\ ReturnedType
    BY DobbyStarts DEF TracesInit, Dobby!Init, ReturnedType
  <2>2. (DobbyInv /\ ReturnedType) /\ [TracesNext]_tracesVars => (DobbyInv /\ ReturnedType)'
    BY DobbyKept, CodesKept, StepsOfModules
  <2>3. DobbyInv /\ ReturnedType /\ [TracesNext]_tracesVars => [Dobby!TellsTruth]_dobbyVars
    BY <1>1, StepsOfModules
  <2> QED
    BY <2>1, <2>2, <2>3, PTL DEF TracesSpec, Dobby!OutcomeTrue, Dobby!dobbyVars, dobbyVars

-----------------------------------------------------------------------------
(* The ShadowHook adapter (ShadowHookHost)                                 *)

(* Stubs are numbered in the order in which they are made.                 *)
StubsTypeOK ==
  /\ made \in Nat
  /\ proxied \in 1 .. made \cup {None}
  /\ stubs \in 1 .. made \cup {None}
  /\ stub \in [Clients -> 1 .. made \cup {None}]
  /\ calling \in [Clients -> {"free", "hooked", "backing out", "found", "unhooked"}]

(* A stub that an unhook has found is the one in the map as long as        *)
(* ShadowHook uses it; one that it has taken out stays in the map until    *)
(* the unhook erases it, and no other unhook is as far.                    *)
FoundInv ==
  \A c \in Clients : calling[c] \in {"found", "unhooked"} =>
    /\ stub[c] # None
    /\ stub[c] = proxied => stubs = stub[c]

ErasingInv ==
  \A c \in Clients : calling[c] = "unhooked" =>
    /\ stubs = stub[c] /\ proxied # stub[c]
    /\ \A d \in Clients : calling[d] = "unhooked" => d = c

StubsInv == StubsTypeOK /\ FoundInv /\ ErasingInv /\ ShadowHook!StubIsOwned

(* Initially there is no stub.                                             *)
LEMMA StubsStart == ShadowHook!Init => StubsInv
BY DEF ShadowHook!Init, StubsInv, StubsTypeOK, FoundInv, ErasingInv, ShadowHook!StubIsOwned

(* A new stub has a number of its own.                                     *)
LEMMA NewStub ==
  ASSUME NEW n \in Nat
  PROVE  /\ 1 .. n \subseteq 1 .. (n + 1) /\ n + 1 \in 1 .. (n + 1) /\ n + 1 \notin 1 .. n
         /\ n + 1 \in Nat
OBVIOUS

(* Every step of Hook and Unhook keeps what they know of the stubs.        *)
LEMMA StubsKept ==
  StubsInv /\ [ShadowHook!Next]_shadowVars => StubsInv'
<1> SUFFICES ASSUME StubsInv, [ShadowHook!Next]_shadowVars PROVE StubsInv'
  OBVIOUS
<1> USE HostsAssumption DEF ShadowHook!StubsAssumption, StubsInv, StubsTypeOK, ShadowHook!At
<1>1. ASSUME NEW c \in Clients, ShadowHook!HookEntry(c) PROVE StubsInv'
  <2>0. /\ 1 .. made \subseteq 1 .. (made + 1) /\ made + 1 \in 1 .. (made + 1)
        /\ made + 1 \notin 1 .. made /\ made + 1 \in Nat
    BY NewStub
  <2>1. StubsTypeOK'
    <3>1. /\ made' = made + 1 /\ proxied' = made + 1 /\ stubs' = stubs
          /\ stub' = [stub EXCEPT ![c] = made + 1] /\ calling' = [calling EXCEPT ![c] = "hooked"]
      BY <1>1 DEF ShadowHook!HookEntry
    <3>2. stub' \in [Clients -> 1 .. (made + 1) \cup {None}]
      BY <3>1, <2>0
    <3> QED
      BY <3>1, <3>2, <2>0
  <2>2. FoundInv' /\ ErasingInv'
    <3>1. proxied' = made + 1 /\ stubs' = stubs /\ made + 1 # None
      BY <1>1, <2>0 DEF ShadowHook!HookEntry
    <3>2. /\ calling' = [calling EXCEPT ![c] = "hooked"]
          /\ \A d \in Clients \ {c} : stub'[d] = stub[d] /\ stub[d] # made + 1
      BY <1>1, <2>0, <3>1 DEF ShadowHook!HookEntry
    <3> QED
      BY <3>1, <3>2 DEF FoundInv, ErasingInv
  <2>3. ShadowHook!StubIsOwned'
    BY <1>1 DEF ShadowHook!HookEntry, ShadowHook!StubIsOwned
  <2> QED
    BY <2>1, <2>2, <2>3
<1>2. ASSUME NEW c \in Clients, ShadowHook!Remember(c) PROVE StubsInv'
  <2>1. StubsTypeOK'
    BY <1>2 DEF ShadowHook!Remember
  <2>2. FoundInv' /\ ErasingInv'
    BY <1>2 DEF ShadowHook!Remember, FoundInv, ErasingInv
  <2>3. ShadowHook!StubIsOwned'
    BY <1>2 DEF ShadowHook!Remember, ShadowHook!StubIsOwned
  <2> QED
    BY <2>1, <2>2, <2>3
<1>3. ASSUME NEW c \in Clients, ShadowHook!BackOut(c) PROVE StubsInv'
  <2>1. StubsTypeOK'
    BY <1>3 DEF ShadowHook!BackOut
  <2>2. FoundInv' /\ ErasingInv'
    BY <1>3 DEF ShadowHook!BackOut, FoundInv, ErasingInv
  <2>3. ShadowHook!StubIsOwned'
    BY <1>3 DEF ShadowHook!BackOut, ShadowHook!StubIsOwned
  <2> QED
    BY <2>1, <2>2, <2>3
<1>4. ASSUME NEW c \in Clients, ShadowHook!FindStub(c) PROVE StubsInv'
  <2>1. StubsTypeOK'
    BY <1>4 DEF ShadowHook!FindStub
  <2>2. FoundInv' /\ ErasingInv'
    BY <1>4 DEF ShadowHook!FindStub, FoundInv, ErasingInv
  <2>3. ShadowHook!StubIsOwned'
    BY <1>4 DEF ShadowHook!FindStub, ShadowHook!StubIsOwned
  <2> QED
    BY <2>1, <2>2, <2>3
<1>5. ASSUME NEW c \in Clients, ShadowHook!UnhookEntry(c) PROVE StubsInv'
  <2>1. StubsTypeOK'
    BY <1>5 DEF ShadowHook!UnhookEntry
  <2>0. /\ UNCHANGED <<stubs, stub>> /\ calling[c] = "found" /\ proxied' \in {proxied, None}
        /\ \/ proxied = stub[c] /\ proxied' = None /\ calling' = [calling EXCEPT ![c] = "unhooked"]
           \/ calling' = [calling EXCEPT ![c] = "free"]
    BY <1>5 DEF ShadowHook!UnhookEntry
  <2>2. FoundInv'
    <3>1. \A d \in Clients : calling'[d] \in {"found", "unhooked"}
          => calling[d] \in {"found", "unhooked"}
      BY <2>0
    <3> QED
      BY <2>0, <3>1 DEF FoundInv
  <2>4. ErasingInv'
    <3>1. CASE calling' = [calling EXCEPT ![c] = "free"]
      <4>1. \A d \in Clients : calling'[d] = "unhooked" => calling[d] = "unhooked"
        BY <3>1
      <4> QED
        BY <2>0, <4>1 DEF FoundInv, ErasingInv
    <3>2. CASE proxied = stub[c] /\ proxied' = None /\ calling' = [calling EXCEPT ![c] = "unhooked"]
      <4>1. stubs = stub[c] /\ stub[c] # None
        BY <2>0, <3>2 DEF FoundInv
      <4>2. \A d \in Clients : calling[d] # "unhooked"
        BY <3>2, <4>1 DEF ErasingInv
      <4>3. \A d \in Clients : calling'[d] = "unhooked" => d = c
        BY <3>2, <4>2
      <4> QED
        BY <2>0, <3>2, <4>1, <4>3 DEF ErasingInv
    <3> QED
      BY <2>0, <3>1, <3>2
  <2>3. ShadowHook!StubIsOwned'
    BY <1>5 DEF ShadowHook!UnhookEntry, ShadowHook!StubIsOwned
  <2> QED
    BY <2>1, <2>2, <2>3, <2>4
<1>6. ASSUME NEW c \in Clients, ShadowHook!Forget(c) PROVE StubsInv'
  <2>1. StubsTypeOK'
    BY <1>6 DEF ShadowHook!Forget
  <2>2. FoundInv' /\ ErasingInv'
    BY <1>6 DEF ShadowHook!Forget, FoundInv, ErasingInv
  <2>3. ShadowHook!StubIsOwned'
    BY <1>6 DEF ShadowHook!Forget, ErasingInv, ShadowHook!StubIsOwned
  <2> QED
    BY <2>1, <2>2, <2>3
<1>7. CASE UNCHANGED shadowVars
  BY <1>7 DEF shadowVars, FoundInv, ErasingInv, ShadowHook!StubIsOwned
<1> QED
  BY <1>1, <1>2, <1>3, <1>4, <1>5, <1>6, <1>7 DEF ShadowHook!Next

(* Whatever hooks and unhooks of the target interleave, a stub in use is   *)
(* in the map or in the hands of its maker (Hook, Unhook,                  *)
(* adapters/shadowhook/shadowhook_host.cpp).                               *)
THEOREM StubsStayOwned == TracesSpec => []ShadowHook!StubIsOwned
<1>1. StubsInv => ShadowHook!StubIsOwned
  BY DEF StubsInv
<1>2. StubsInv /\ [TracesNext]_tracesVars => StubsInv'
  BY StubsKept, StepsOfModules
<1>3. TracesInit => StubsInv
  BY StubsStart DEF TracesInit
<1> QED
  BY <1>1, <1>2, <1>3, PTL DEF TracesSpec

(* A patch that DartPlant has put into an entry can be taken out by        *)
(* target, whoever else hooks, and what Install returns is so              *)
(* (adapters/dobby/dobby_host.cpp, adapters/shadowhook/shadowhook_host.cpp).*)
THEOREM HostsStayTrue == TracesSpec => HostsKeepContract
<1>1. Dobby!PatchIsOwned' /\ [Dobby!TellsTruth]_dobbyVars /\ ShadowHook!StubIsOwned'
        => [Dobby!PatchIsOwned' /\ Dobby!TellsTruth /\ ShadowHook!StubIsOwned']_tracesVars
  BY DEF Dobby!TellsTruth, dobbyVars
<1> QED
  BY <1>1, PatchStaysOwned, OutcomeStaysTrue, StubsStayOwned, PTL
     DEF HostsKeepContract, Dobby!OutcomeTrue, Dobby!dobbyVars, dobbyVars

-----------------------------------------------------------------------------
(* The loader callbacks (LoaderCallbacks)                                  *)

Entered == {t \in Loaders : inside[t] # "out"}

LoaderTypeOK ==
  /\ control \in [state : {"active", "draining", "closed"}, entrants : Nat]
  /\ initialized \in BOOLEAN /\ drained \in BOOLEAN /\ bindings \in Nat
  /\ inside \in [Loaders -> {"out", "callback", "init", "binding", "leaving"}]

(* One thread has g_initialized, and binds the host when it comes to it.   *)
BindingInv ==
  /\ ~initialized => bindings = 0
  /\ \A t \in Loaders : inside[t] = "binding" =>
       initialized /\ bindings = 0 /\ \A u \in Loaders : inside[u] = "binding" => u = t
  /\ bindings <= 1

LoaderInv ==
  /\ LoaderTypeOK
  /\ control.entrants = Cardinality(Entered)
  /\ drained => control.state = "closed" /\ control.entrants = 0
  /\ BindingInv

(* LoaderCallbacks counts with the operators of FiniteSets.                *)
LEMMA LoaderCounts ==
  ASSUME NEW S
  PROVE  /\ Loader!IsFiniteSet(S) <=> IsFiniteSet(S)
         /\ Loader!Cardinality(S) = Cardinality(S)
<1>1. Loader!IsFiniteSet(S) <=> IsFiniteSet(S)
  BY DEF Loader!IsFiniteSet, IsFiniteSet
<1>2. Loader!Cardinality(S) = Cardinality(S)
  BY DEF Loader!Cardinality, Cardinality
<1> QED
  BY <1>1, <1>2

(* The count of entrants is zero only when nobody is inside.               *)
LEMMA NobodyInside ==
  /\ IsFiniteSet(Entered) /\ Cardinality(Entered) \in Nat
  /\ Cardinality(Entered) = 0 <=> Entered = {}
<1>1. IsFiniteSet(Entered)
  <2>1. IsFiniteSet(Loaders)
    BY HostsAssumption, LoaderCounts DEF Loader!LoadersAssumption
  <2> QED
    BY <2>1, FS_Subset DEF Entered
<1> QED
  BY <1>1, FS_CardinalityType, FS_EmptySet

(* Initially nobody is inside.                                             *)
LEMMA LoaderStarts == Loader!Init => LoaderInv
<1> SUFFICES ASSUME Loader!Init PROVE LoaderInv
  OBVIOUS
<1>1. Entered = {}
  BY DEF Loader!Init, Entered
<1>2. control.entrants = Cardinality(Entered)
  BY <1>1, FS_EmptySet DEF Loader!Init
<1>3. ~drained /\ BindingInv
  BY DEF Loader!Init, BindingInv
<1>4. LoaderTypeOK
  BY DEF Loader!Init, LoaderTypeOK
<1> QED
  BY <1>2, <1>3, <1>4 DEF LoaderInv

(* Every step keeps the count exact and the host bound once.               *)
LEMMA LoaderKept ==
  LoaderInv /\ [Loader!Next]_loaderVars => LoaderInv'
<1> SUFFICES ASSUME LoaderInv, [Loader!Next]_loaderVars PROVE LoaderInv'
  OBVIOUS
<1>0. IsFiniteSet(Entered) /\ Cardinality(Entered) \in Nat
  BY NobodyInside
<1> USE DEF LoaderInv, LoaderTypeOK
<1>1. ASSUME NEW t \in Loaders, Loader!Enter(t) PROVE LoaderInv'
  <2>1. PICK place \in {"callback", "init"} : inside' = [inside EXCEPT ![t] = place]
    BY <1>1 DEF Loader!Enter
  <2>2. /\ control' = [control EXCEPT !.entrants = @ + 1] /\ control.state = "active"
        /\ inside[t] = "out" /\ UNCHANGED <<initialized, bindings, drained>>
    BY <1>1 DEF Loader!Enter
  <2>3. Entered' = Entered \cup {t} /\ t \notin Entered
    BY <2>1, <2>2 DEF Entered
  <2>4. Cardinality(Entered') = Cardinality(Entered) + 1
    BY <1>0, <2>3, FS_AddElement
  <2>5. BindingInv'
    BY <2>1, <2>2 DEF BindingInv
  <2>6. LoaderTypeOK' /\ ~drained
    BY <2>1, <2>2
  <2> QED
    BY <2>2, <2>4, <2>5, <2>6
<1>2. ASSUME NEW t \in Loaders, Loader!Exit(t) PROVE LoaderInv'
  <2>1. /\ inside' = [inside EXCEPT ![t] = "out"] /\ inside[t] # "out"
        /\ control' = [control EXCEPT !.entrants = @ - 1]
        /\ UNCHANGED <<initialized, bindings, drained>>
    BY <1>2 DEF Loader!Exit
  <2>2. Entered' = Entered \ {t} /\ t \in Entered
    BY <2>1 DEF Entered
  <2>3. Cardinality(Entered') = Cardinality(Entered) - 1
    BY <1>0, <2>2, FS_RemoveElement
  <2>4. Cardinality(Entered) # 0
    BY <2>2, NobodyInside
  <2>5. BindingInv'
    BY <2>1 DEF BindingInv
  <2>6. LoaderTypeOK'
    BY <1>0, <2>1, <2>4
  <2>7. ~drained
    BY <2>4
  <2> QED
    BY <2>1, <2>3, <2>5, <2>6, <2>7
<1>3. ASSUME NEW t \in Loaders, Loader!Claim(t) PROVE LoaderInv'
  <2>1. /\ inside' = [inside EXCEPT ![t] = IF initialized THEN "leaving" ELSE "binding"]
        /\ inside[t] = "init" /\ initialized' = TRUE /\ UNCHANGED <<control, bindings, drained>>
    BY <1>3 DEF Loader!Claim
  <2>2. Entered' = Entered
    BY <2>1 DEF Entered
  <2>3. BindingInv'
    BY <2>1 DEF BindingInv
  <2> QED
    BY <2>1, <2>2, <2>3
<1>4. ASSUME NEW t \in Loaders, Loader!Bind(t) PROVE LoaderInv'
  <2>1. /\ inside' = [inside EXCEPT ![t] = "leaving"] /\ inside[t] = "binding"
        /\ bindings' = bindings + 1 /\ UNCHANGED <<control, initialized, drained>>
    BY <1>4 DEF Loader!Bind
  <2>2. Entered' = Entered
    BY <2>1 DEF Entered
  <2>3. BindingInv'
    BY <2>1 DEF BindingInv
  <2> QED
    BY <2>1, <2>2, <2>3
<1>5. CASE Loader!CloseLoaderCallbackAdmission \/ Loader!FinishLoaderCallbackDrain
  <2>1. /\ UNCHANGED <<initialized, bindings, inside>> /\ control'.entrants = control.entrants
        /\ control' \in [state : {"active", "draining", "closed"}, entrants : Nat]
    BY <1>5 DEF Loader!CloseLoaderCallbackAdmission, Loader!FinishLoaderCallbackDrain
  <2>2. drained' \in BOOLEAN /\ (drained' => control'.state = "closed" /\ control'.entrants = 0)
    <3>1. CASE Loader!CloseLoaderCallbackAdmission
      <4>1. ~drained /\ drained' = drained
        BY <3>1 DEF Loader!CloseLoaderCallbackAdmission
      <4> QED
        BY <4>1
    <3>2. CASE Loader!FinishLoaderCallbackDrain
      <4>1. drained' = TRUE /\ control' = [control EXCEPT !.state = "closed"]
        BY <3>2 DEF Loader!FinishLoaderCallbackDrain
      <4>2. control.entrants = 0
        BY <3>2 DEF Loader!FinishLoaderCallbackDrain
      <4> QED
        BY <4>1, <4>2
    <3> QED
      BY <1>5, <3>1, <3>2
  <2>3. Entered' = Entered /\ BindingInv'
    BY <2>1 DEF Entered, BindingInv
  <2> QED
    BY <2>1, <2>2, <2>3
<1>6. CASE UNCHANGED loaderVars
  BY <1>6 DEF loaderVars, Entered, BindingInv
<1> QED
  BY <1>1, <1>2, <1>3, <1>4, <1>5, <1>6 DEF Loader!Next

(* However callbacks and native_inits interleave with a client that closes *)
(* them: a finished drain leaves nobody inside, ever, and the host is      *)
(* bound once (TryEnterLoaderCallback, FinishLoaderCallbackDrain,          *)
(* native_init, adapters/lsposed/lsposed_module.cpp).                      *)
THEOREM CallbacksStayDrained == TracesSpec => []CallbacksDrained
<1>1. LoaderInv => CallbacksDrained
  BY NobodyInside, LoaderCounts
     DEF LoaderInv, CallbacksDrained, Loader!CallbacksDrained, BindingInv, Entered
<1>2. LoaderInv /\ [TracesNext]_tracesVars => LoaderInv'
  BY LoaderKept, StepsOfModules
<1>3. TracesInit => LoaderInv
  BY LoaderStarts DEF TracesInit
<1> QED
  BY <1>1, <1>2, <1>3, PTL DEF TracesSpec

-----------------------------------------------------------------------------
(* The process sampler (ThreadSampling)                                    *)

RegsType == [thread : Targets \cup {None}, moment : Int]

CaptureType ==
  [active : BOOLEAN, ready : BOOLEAN, expected : Targets \cup {None},
   first : RegsType, second : RegsType]

Places == {"no", "entered", "expected", "first", "second", "ready"}

(* Where the bootstrap is: looking for a signal, putting one back, holding *)
(* one between captures, or in CaptureThread.                              *)
Looking   == {"idle", "probe", "install"}
Returning == {"back out", "restore"}
Before    == {"clear", "activate", "send"}
After     == {"wait", "look", "take", "take second", "taken"}
Holding   == {"round", "release"} \cup Before \cup After

SamplingTypeOK ==
  /\ disposition \in [Sampling!Signals -> {"default", "lease", "host"}]
  /\ claimed \in [Sampling!Signals -> {"default", "host"}]
  /\ raced \in BOOLEAN /\ overdue \in BOOLEAN
  /\ pending \subseteq Sampling!Signals \X Targets
  /\ alive \subseteq Targets /\ targets \subseteq Targets
  /\ running \in [Targets -> Places] /\ regs \in [Targets -> RegsType]
  /\ capture \in CaptureType
  /\ sampler \in Looking \cup Returning \cup Holding
  /\ signal \in Sampling!Signals /\ old \in {"default", "host"}
  /\ asked \in Targets \cup {None} /\ samples \in Int

(* What the lease knows of the dispositions.                               *)
Untouched(s) == disposition[s] # "lease" /\ (~raced => disposition[s] = claimed[s])

LeaseInv ==
  /\ \A s \in Sampling!Signals \ {signal} : Untouched(s)
  /\ sampler \in Looking => Untouched(signal)
  /\ sampler \in Returning => (~raced => old = claimed[signal])
  /\ sampler \in Holding =>
       /\ old = "default"
       /\ \/ Untouched(signal)
          \/ disposition[signal] = "lease" /\ (~raced => claimed[signal] = "default")
  /\ sampler = "restore" => old = "default"

(* The handler of an undisturbed capture: it has not begun before the      *)
(* signal is sent, it runs on one thread only, and once.                   *)
Asked == [thread |-> asked, moment |-> samples]

Nobody == pending = {} /\ \A u \in Targets : running[u] = "no"

HandlerInv ==
  /\ asked \in Targets /\ capture.expected = asked
  /\ sampler \in Before => Nobody
  /\ sampler \in {"activate", "send"} => ~capture.ready
  /\ sampler \in After =>
       /\ \A u \in Targets \ {asked} : running[u] = "no"
       /\ pending # {} => pending = {<<signal, asked>>} /\ running[asked] = "no" /\ ~capture.ready
       /\ running[asked] # "no" => regs[asked] = Asked /\ ~capture.ready
       /\ running[asked] \in {"second", "ready"} => capture.first = Asked
       /\ running[asked] = "ready" => capture.second = Asked
       /\ capture.ready => capture.first = Asked /\ capture.second = Asked

SampleInv ==
  /\ sampler \in {"take", "take second", "taken"} => capture.ready
  /\ sampler = "take second" => sample = [first |-> Asked, second |-> Sampling!NoRegs]
  /\ sampler = "taken" => sample = [first |-> Asked, second |-> Asked]

CaptureInv == sampler \in Before \cup After /\ ~overdue => HandlerInv /\ SampleInv

SamplingInv == SamplingTypeOK /\ LeaseInv /\ CaptureInv

(* Initially everything is idle.                                           *)
LEMMA SamplingStarts == Sampling!Init => SamplingInv
<1> SUFFICES ASSUME Sampling!Init PROVE SamplingInv
  OBVIOUS
<1>1. SamplingTypeOK
  <2>1. disposition \in [Sampling!Signals -> {"default", "lease", "host"}]
        /\ claimed \in [Sampling!Signals -> {"default", "host"}]
    BY DEF Sampling!Init
  <2>2. capture \in CaptureType /\ regs \in [Targets -> RegsType] /\ running \in [Targets -> Places]
    BY DEF Sampling!Init, CaptureType, RegsType, Places, Sampling!NoRegs
  <2>3. raced \in BOOLEAN /\ overdue \in BOOLEAN
    BY DEF Sampling!Init
  <2> QED
    BY <2>1, <2>2, <2>3 DEF Sampling!Init, SamplingTypeOK, Looking, Sampling!Signals
<1>2. LeaseInv
  BY DEF Sampling!Init, LeaseInv, Untouched, Looking, Returning, Holding, Before,
     After, Sampling!Signals
<1>3. CaptureInv
  BY DEF Sampling!Init, CaptureInv, Before, After
<1> QED
  BY <1>1, <1>2, <1>3 DEF SamplingInv

(* What a call of sigaction changes.                                       *)
LEMMA ActionSet ==
  ASSUME SamplingTypeOK, NEW s \in Sampling!Signals, NEW action \in {"default", "lease", "host"},
         Sampling!SetAction(s, action)
  PROVE  /\ disposition' \in [Sampling!Signals -> {"default", "lease", "host"}]
         /\ disposition'[s] = action
         /\ \A x \in Sampling!Signals \ {s} : disposition'[x] = disposition[x]
         /\ pending' \subseteq pending
BY DEF SamplingTypeOK, Sampling!SetAction

(* Another candidate is a signal, too.                                     *)
LEMMA CandidateNext ==
  ASSUME SamplingTypeOK, Sampling!NextCandidate
  PROVE  signal' \in Sampling!Signals /\ sampler' \in {"probe", "idle"}
BY DEF SamplingTypeOK, Sampling!NextCandidate, Sampling!Signals

(* Every step keeps the types. *)
LEMMA TypingKept == SamplingInv /\ [Sampling!Next]_samplerVars => SamplingTypeOK'
<1> SUFFICES ASSUME SamplingInv, [Sampling!Next]_samplerVars PROVE SamplingTypeOK'
  OBVIOUS
<1> USE DEF SamplingInv, SamplingTypeOK, Sampling!leaseVars, Sampling!threadVars,
        Sampling!captureVars, Sampling!Goes, Sampling!Steps
<1>1. CASE Sampling!Bootstrap
  BY <1>1 DEF Sampling!Bootstrap, Sampling!Signals, Looking, Returning, Holding, Before, After
<1>2. CASE Sampling!Probe
  BY <1>2, CandidateNext DEF Sampling!Probe, Looking, Returning, Holding, Before, After
<1>3. CASE Sampling!Install
  BY <1>3, ActionSet
     DEF Sampling!Install, LeaseInv, Untouched, Looking, Returning, Holding, Before, After
<1>4. CASE Sampling!BackOut
  BY <1>4, ActionSet, CandidateNext DEF Sampling!BackOut, Looking, Returning, Holding,
     Before, After
<1>5. CASE Sampling!Release
  BY <1>5 DEF Sampling!Release, Looking, Returning, Holding, Before, After
<1>6. CASE Sampling!Restore
  BY <1>6, ActionSet DEF Sampling!Restore, Looking, Returning, Holding, Before, After
<1>7. CASE Sampling!HostAction
  <2> PICK s \in Sampling!Signals, action \in {"default", "host"} : Sampling!HostSets(s, action)
    BY <1>7 DEF Sampling!HostAction
  <2>1. raced' \in BOOLEAN
    BY DEF Sampling!HostSets
  <2> QED
    BY <2>1, ActionSet DEF Sampling!HostSets
<1>8. CASE Sampling!Round
  BY <1>8 DEF Sampling!Round, Looking, Returning, Holding, Before, After
<1>9. CASE Sampling!Clear
  BY <1>9 DEF Sampling!Clear, CaptureType, Looking, Returning, Holding, Before, After
<1>10. CASE Sampling!Activate
  BY <1>10 DEF Sampling!Activate, CaptureType, Looking, Returning, Holding, Before,
     After
<1>11. CASE Sampling!Send
  <2>1. capture' \in CaptureType
    BY <1>11 DEF Sampling!Send, CaptureType
  <2>2. pending' \subseteq Sampling!Signals \X Targets
    BY <1>11 DEF Sampling!Send
  <2> QED
    BY <1>11, <2>1, <2>2 DEF Sampling!Send, Looking, Returning, Holding, Before, After
<1>12. CASE Sampling!StopWaiting
  BY <1>12 DEF Sampling!StopWaiting, CaptureType, Looking, Returning, Holding, Before,
     After
<1>13. CASE Sampling!Look
  BY <1>13 DEF Sampling!Look, Looking, Returning, Holding, Before, After
<1>14. CASE Sampling!Take
  BY <1>14 DEF Sampling!Take, Looking, Returning, Holding, Before, After
<1>15. CASE Sampling!Judge
  BY <1>15 DEF Sampling!Judge, Looking, Returning, Holding, Before, After
<1>16. ASSUME NEW t \in Targets, Sampling!Deliver(t) PROVE SamplingTypeOK'
  <2>1. pending' \subseteq pending
    BY <1>16 DEF Sampling!Deliver
  <2>2. running' \in [Targets -> Places] /\ regs' \in [Targets -> RegsType]
    BY <1>16 DEF Sampling!Deliver, Places, RegsType
  <2> QED
    BY <1>16, <2>1, <2>2 DEF Sampling!Deliver
<1>17. ASSUME NEW t \in Targets, Sampling!Consider(t) PROVE SamplingTypeOK'
  <2>1. running' \in [Targets -> Places]
    BY <1>17 DEF Sampling!Consider, Places
  <2> QED
    BY <1>17, <2>1 DEF Sampling!Consider
<1>18. ASSUME NEW t \in Targets, Sampling!Store(t) PROVE SamplingTypeOK'
  <2>1. running' \in [Targets -> Places]
    BY <1>18 DEF Sampling!Store, Places
  <2>2. capture' \in CaptureType
    <3>1. capture \in CaptureType /\ regs[t] \in RegsType
      OBVIOUS
    <3>2. capture' \in {[capture EXCEPT !.first = regs[t]], [capture EXCEPT !.second = regs[t]],
                        [capture EXCEPT !.ready = TRUE]}
      BY <1>18 DEF Sampling!Store
    <3> QED
      BY <3>1, <3>2 DEF CaptureType
  <2> QED
    BY <1>18, <2>1, <2>2 DEF Sampling!Store
<1>19. ASSUME NEW t \in Targets, Sampling!Die(t) PROVE SamplingTypeOK'
  <2>1. pending' \subseteq pending /\ alive' \subseteq alive
    BY <1>19 DEF Sampling!Die
  <2> QED
    BY <1>19, <2>1 DEF Sampling!Die
<1>20. ASSUME NEW t \in Targets, Sampling!Skip(t) PROVE SamplingTypeOK'
  BY <1>20 DEF Sampling!Skip
<1>21. ASSUME NEW t \in Targets, Sampling!Expect(t) PROVE SamplingTypeOK'
  BY <1>21 DEF Sampling!Expect, CaptureType, Looking, Returning, Holding, Before, After
<1>22. CASE UNCHANGED samplerVars
  BY <1>22 DEF samplerVars
<1> QED
  BY <1>1, <1>2, <1>3, <1>4, <1>5, <1>6, <1>7, <1>8, <1>9, <1>10, <1>11,
     <1>12, <1>13, <1>14, <1>15, <1>16, <1>17, <1>18, <1>19, <1>20, <1>21,
     <1>22
     DEF Sampling!Next

(* Every step keeps what the lease knows. *)
LEMMA LeaseKept == SamplingInv /\ [Sampling!Next]_samplerVars => LeaseInv'
<1> SUFFICES ASSUME SamplingInv, [Sampling!Next]_samplerVars PROVE LeaseInv'
  OBVIOUS
<1> USE DEF SamplingInv, SamplingTypeOK, LeaseInv, Untouched, Sampling!leaseVars,
        Sampling!threadVars, Sampling!captureVars,
        Sampling!Goes, Sampling!Steps, Looking, Returning, Holding, Before, After
<1>1. CASE Sampling!Bootstrap
  BY <1>1 DEF Sampling!Bootstrap, Sampling!Signals
<1>2. CASE Sampling!Probe
  BY <1>2, CandidateNext DEF Sampling!Probe
<1>3. CASE Sampling!Install
  BY <1>3, ActionSet DEF Sampling!Install
<1>4. CASE Sampling!BackOut
  <2>1. /\ sampler' \in Looking /\ signal' \in Sampling!Signals /\ UNCHANGED <<claimed, raced, old>>
        /\ sampler = "back out" /\ Sampling!SetAction(signal, old)
    BY <1>4, CandidateNext DEF Sampling!BackOut
  <2>2. disposition'[signal] = old
        /\ \A s \in Sampling!Signals \ {signal} : disposition'[s] = disposition[s]
    BY <2>1, ActionSet
  <2>3. \A s \in Sampling!Signals \ {signal} :
          disposition'[s] # "lease" /\ (~raced' => disposition'[s] = claimed'[s])
    BY <2>1, <2>2
  <2>4. disposition'[signal] # "lease" /\ (~raced' => disposition'[signal] = claimed'[signal])
    BY <2>1, <2>2
  <2>5. sampler' \notin Returning \cup Holding /\ sampler' # "restore"
    BY <2>1
  <2> QED
    BY <2>1, <2>3, <2>4, <2>5
<1>5. CASE Sampling!Release
  BY <1>5 DEF Sampling!Release
<1>6. CASE Sampling!Restore
  BY <1>6, ActionSet DEF Sampling!Restore
<1>7. CASE Sampling!HostAction
  <2> PICK s \in Sampling!Signals, action \in {"default", "host"} : Sampling!HostSets(s, action)
    BY <1>7 DEF Sampling!HostAction
  <2>1. ~raced' => ~raced /\ ~(s = signal /\ sampler \in Returning)
    BY DEF Sampling!HostSets
  <2>2. /\ disposition'[s] = action /\ claimed'[s] = action
        /\ \A x \in Sampling!Signals \ {s} :
             disposition'[x] = disposition[x] /\ claimed'[x] = claimed[x]
    BY ActionSet DEF Sampling!HostSets
  <2>3. signal' = signal /\ old' = old /\ sampler' = sampler
    BY DEF Sampling!HostSets
  <2> QED
    BY <2>1, <2>2, <2>3
<1>8. CASE Sampling!Round
  BY <1>8 DEF Sampling!Round
<1>9. CASE Sampling!Clear
  BY <1>9 DEF Sampling!Clear
<1>10. CASE Sampling!Activate
  BY <1>10 DEF Sampling!Activate
<1>11. CASE Sampling!Send
  BY <1>11 DEF Sampling!Send
<1>12. CASE Sampling!StopWaiting
  BY <1>12 DEF Sampling!StopWaiting
<1>13. CASE Sampling!Look
  BY <1>13 DEF Sampling!Look
<1>14. CASE Sampling!Take
  BY <1>14 DEF Sampling!Take
<1>15. CASE Sampling!Judge
  BY <1>15 DEF Sampling!Judge
<1>16. ASSUME NEW t \in Targets, Sampling!Deliver(t) PROVE LeaseInv'
  BY <1>16 DEF Sampling!Deliver
<1>17. ASSUME NEW t \in Targets, Sampling!Consider(t) PROVE LeaseInv'
  BY <1>17 DEF Sampling!Consider
<1>18. ASSUME NEW t \in Targets, Sampling!Store(t) PROVE LeaseInv'
  BY <1>18 DEF Sampling!Store
<1>19. ASSUME NEW t \in Targets, Sampling!Die(t) PROVE LeaseInv'
  BY <1>19 DEF Sampling!Die
<1>20. ASSUME NEW t \in Targets, Sampling!Skip(t) PROVE LeaseInv'
  BY <1>20 DEF Sampling!Skip
<1>21. ASSUME NEW t \in Targets, Sampling!Expect(t) PROVE LeaseInv'
  BY <1>21 DEF Sampling!Expect
<1>22. CASE UNCHANGED samplerVars
  BY <1>22 DEF samplerVars
<1> QED
  BY <1>1, <1>2, <1>3, <1>4, <1>5, <1>6, <1>7, <1>8, <1>9, <1>10, <1>11,
     <1>12, <1>13, <1>14, <1>15, <1>16, <1>17, <1>18, <1>19, <1>20, <1>21,
     <1>22
     DEF Sampling!Next

(* The host may only take pending signals away.                            *)
LEMMA HostDrops ==
  ASSUME SamplingTypeOK, NEW s \in Sampling!Signals, NEW action \in {"default", "host"},
         Sampling!HostSets(s, action)
  PROVE  pending' \subseteq pending
BY ActionSet DEF Sampling!HostSets

(* A step in a capture that does not begin it finds it begun.              *)
LEMMA CaptureUnderWay ==
  ASSUME [Sampling!Next]_samplerVars, sampler' \in Before \cup After, ~overdue',
         ~ \E t \in Targets : Sampling!Expect(t)
  PROVE  sampler \in Before \cup After /\ ~overdue /\ UNCHANGED <<asked, samples>>
<1> USE DEF Before, After, Sampling!Goes, Sampling!captureVars, Sampling!NextCandidate
<1>1. CASE Sampling!Bootstrap
  BY <1>1 DEF Sampling!Bootstrap
<1>2. CASE Sampling!Probe
  BY <1>2 DEF Sampling!Probe
<1>3. CASE Sampling!Install
  BY <1>3 DEF Sampling!Install
<1>4. CASE Sampling!BackOut
  BY <1>4 DEF Sampling!BackOut
<1>5. CASE Sampling!Release
  BY <1>5 DEF Sampling!Release
<1>6. CASE Sampling!Restore
  BY <1>6 DEF Sampling!Restore
<1>7. CASE Sampling!HostAction
  <2> PICK s \in Sampling!Signals, action \in {"default", "host"} : Sampling!HostSets(s, action)
    BY <1>7 DEF Sampling!HostAction
  <2> QED
    BY DEF Sampling!HostSets
<1>8. CASE Sampling!Round
  BY <1>8 DEF Sampling!Round
<1>9. CASE Sampling!Clear
  BY <1>9 DEF Sampling!Clear
<1>10. CASE Sampling!Activate
  BY <1>10 DEF Sampling!Activate
<1>11. CASE Sampling!Send
  BY <1>11 DEF Sampling!Send
<1>12. CASE Sampling!StopWaiting
  BY <1>12 DEF Sampling!StopWaiting
<1>13. CASE Sampling!Look
  BY <1>13 DEF Sampling!Look
<1>14. CASE Sampling!Take
  BY <1>14 DEF Sampling!Take
<1>15. CASE Sampling!Judge
  BY <1>15 DEF Sampling!Judge
<1>16. CASE \E t \in Targets : Sampling!Deliver(t)
  <2> PICK t \in Targets : Sampling!Deliver(t)
    BY <1>16
  <2> QED
    BY DEF Sampling!Deliver
<1>17. CASE \E t \in Targets : Sampling!Consider(t)
  <2> PICK t \in Targets : Sampling!Consider(t)
    BY <1>17
  <2> QED
    BY DEF Sampling!Consider
<1>18. CASE \E t \in Targets : Sampling!Store(t)
  <2> PICK t \in Targets : Sampling!Store(t)
    BY <1>18
  <2> QED
    BY DEF Sampling!Store
<1>19. CASE \E t \in Targets : Sampling!Die(t)
  <2> PICK t \in Targets : Sampling!Die(t)
    BY <1>19
  <2> QED
    BY DEF Sampling!Die
<1>20. CASE \E t \in Targets : Sampling!Skip(t)
  <2> PICK t \in Targets : Sampling!Skip(t)
    BY <1>20
  <2> QED
    BY DEF Sampling!Skip
<1>21. CASE UNCHANGED samplerVars
  BY <1>21 DEF samplerVars
<1> QED
  BY <1>1, <1>2, <1>3, <1>4, <1>5, <1>6, <1>7, <1>8, <1>9, <1>10, <1>11,
     <1>12, <1>13, <1>14, <1>15, <1>16, <1>17, <1>18, <1>19, <1>20, <1>21
     DEF Sampling!Next

(* Every step keeps what a capture knows.                                  *)
LEMMA CaptureKept == SamplingInv /\ [Sampling!Next]_samplerVars => CaptureInv'
<1> SUFFICES ASSUME SamplingInv, [Sampling!Next]_samplerVars, sampler' \in Before \cup After,
                    ~overdue'
             PROVE  HandlerInv' /\ SampleInv'
  BY DEF CaptureInv
<1>a. /\ SamplingTypeOK /\ running \in [Targets -> Places] /\ regs \in [Targets -> RegsType]
      /\ capture \in CaptureType
  BY DEF SamplingInv, SamplingTypeOK
<1>0. ASSUME ~ \E t \in Targets : Sampling!Expect(t)
      PROVE  sampler \in Before \cup After /\ HandlerInv /\ SampleInv
             /\ UNCHANGED <<asked, samples>>
  BY <1>0, CaptureUnderWay DEF SamplingInv, CaptureInv
<1>1. ASSUME NEW t \in Targets, Sampling!Expect(t) PROVE HandlerInv' /\ SampleInv'
  <2>1. /\ sampler' = "clear" /\ asked' = t /\ UNCHANGED <<pending, running>>
        /\ capture' = [capture EXCEPT !.expected = t]
        /\ overdue' = (pending # {} \/ \E u \in Targets : running[u] # "no")
    BY <1>1 DEF Sampling!Expect, Sampling!Goes, Sampling!threadVars
  <2>2. capture'.expected = t
    BY <2>1, <1>a DEF CaptureType
  <2>3. Nobody'
    BY <2>1 DEF Nobody
  <2> QED
    BY <2>1, <2>2, <2>3 DEF HandlerInv, SampleInv, After
<1> SUFFICES ASSUME sampler \in Before \cup After, HandlerInv, SampleInv
             PROVE  HandlerInv' /\ SampleInv'
  BY <1>0, <1>1
<1>2. CASE Sampling!Bootstrap
  BY <1>2 DEF Sampling!Bootstrap, HandlerInv, SampleInv, Asked, Nobody, Sampling!threadVars,
     Sampling!captureVars, Sampling!Goes, Looking, Returning, Holding, Before, After
<1>3. CASE Sampling!Probe
  BY <1>3
     DEF Sampling!Probe, Sampling!NextCandidate, Sampling!threadVars, Sampling!captureVars,
         Looking, Returning, Holding, Before, After
<1>4. CASE Sampling!Install
  BY <1>4 DEF Sampling!Install, HandlerInv, SampleInv, Asked, Nobody, Sampling!threadVars,
     Sampling!captureVars, Sampling!Goes, Looking, Returning, Holding, Before, After
<1>5. CASE Sampling!BackOut
  BY <1>5
     DEF Sampling!BackOut, Sampling!NextCandidate, Sampling!threadVars, Sampling!captureVars,
         Looking, Returning, Holding, Before, After
<1>6. CASE Sampling!Release
  BY <1>6
     DEF Sampling!Release, HandlerInv, SampleInv, Asked, Nobody, Sampling!leaseVars,
         Sampling!threadVars, Sampling!captureVars, Sampling!Goes, Looking, Returning, Holding,
         Before, After
<1>7. CASE Sampling!Restore
  BY <1>7 DEF Sampling!Restore, HandlerInv, SampleInv, Asked, Nobody, Sampling!threadVars,
     Sampling!captureVars, Sampling!Goes, Looking, Returning, Holding, Before, After
<1>8. CASE Sampling!HostAction
  <2> PICK s \in Sampling!Signals, action \in {"default", "host"} : Sampling!HostSets(s, action)
    BY <1>8 DEF Sampling!HostAction
  <2>1. pending' \subseteq pending
    BY HostDrops, <1>a
  <2>2. UNCHANGED <<running, regs, capture, sampler, asked, samples, sample, signal>>
    BY DEF Sampling!HostSets, Sampling!threadVars, Sampling!captureVars
  <2>3. pending # {} \/ pending' = {}
    BY <2>1
  <2> QED
    BY <2>1, <2>2, <2>3 DEF HandlerInv, SampleInv, Asked, Nobody
<1>9. CASE Sampling!Round
  BY <1>9 DEF Sampling!Round, HandlerInv, SampleInv, Asked, Nobody, Sampling!leaseVars,
     Sampling!threadVars, Looking, Returning, Holding, Before, After
<1>10. CASE Sampling!Clear
  BY <1>10, <1>a
     DEF Sampling!Clear, HandlerInv, SampleInv, Asked, Nobody, Sampling!leaseVars,
         Sampling!threadVars, Sampling!captureVars, Sampling!Goes, Looking, Returning, Holding,
         Before, After
<1>11. CASE Sampling!Activate
  BY <1>11, <1>a
     DEF Sampling!Activate, HandlerInv, SampleInv, Asked, Nobody, Sampling!leaseVars,
         Sampling!threadVars, Sampling!captureVars, Sampling!Goes, Looking, Returning, Holding,
         Before, After
<1>12. CASE Sampling!Send
  BY <1>12, <1>a
     DEF Sampling!Send, HandlerInv, SampleInv, Asked, Nobody, Sampling!leaseVars,
         Sampling!threadVars, Sampling!captureVars, Sampling!Goes, Looking, Returning, Holding,
         Before, After
<1>13. CASE Sampling!StopWaiting
  BY <1>13, <1>a
     DEF Sampling!StopWaiting, HandlerInv, SampleInv, Asked, Nobody, Sampling!leaseVars,
         Sampling!threadVars, Sampling!captureVars, Sampling!Goes, Looking, Returning, Holding,
         Before, After
<1>14. CASE Sampling!Look
  BY <1>14
     DEF Sampling!Look, HandlerInv, SampleInv, Asked, Nobody, Sampling!leaseVars,
         Sampling!threadVars, Sampling!captureVars, Sampling!Goes, Looking, Returning, Holding,
         Before, After
<1>15. CASE Sampling!Take
  <2>1. sampler' \in {"take second", "taken"} /\ sampler \in {"take", "take second"}
    BY <1>15 DEF Sampling!Take, Sampling!Goes
  <2>2. UNCHANGED <<capture, pending, running, regs, asked, samples, signal>>
    BY <1>15
       DEF Sampling!Take, Sampling!leaseVars, Sampling!threadVars, Sampling!Goes, Looking,
           Returning, Holding, Before, After
  <2>3. HandlerInv'
    BY <2>1, <2>2 DEF HandlerInv, Asked, Nobody, Before, After
  <2>4. capture.ready /\ capture.first = Asked /\ capture.second = Asked /\ Asked' = Asked
    BY <2>1, <2>2 DEF HandlerInv, SampleInv, Asked, After
  <2>5. CASE sampler = "take"
    BY <2>2, <2>3, <2>4, <2>5, <1>15
       DEF Sampling!Take, Sampling!Goes, SampleInv, Asked, Sampling!NoRegs
  <2>6. CASE sampler = "take second"
    <3>1. sample = [first |-> Asked, second |-> Sampling!NoRegs]
      BY <2>6 DEF SampleInv
    <3>2. sampler' = "taken" /\ sample' = [sample EXCEPT !.second = capture.second]
      BY <2>6, <1>15 DEF Sampling!Take, Sampling!Goes
    <3>3. sample' = [first |-> Asked, second |-> Asked]
      BY <3>1, <3>2, <2>4
    <3> QED
      BY <3>2, <3>3, <2>2, <2>3, <2>4 DEF SampleInv, Asked
  <2> QED
    BY <2>1, <2>5, <2>6
<1>16. CASE Sampling!Judge
  BY <1>16 DEF Sampling!Judge, HandlerInv, SampleInv, Asked, Nobody, Sampling!leaseVars,
     Sampling!threadVars, Looking, Returning, Holding, Before, After
<1>17. ASSUME NEW t \in Targets, Sampling!Deliver(t) PROVE HandlerInv' /\ SampleInv'
  <2>1. UNCHANGED <<capture, sampler, asked, samples, sample, signal>>
    BY <1>17 DEF Sampling!Deliver, Sampling!leaseVars, Sampling!captureVars
  <2>2. PICK s \in Sampling!Signals : <<s, t>> \in pending /\ pending' = pending \ {<<s, t>>}
                             /\ IF disposition[s] = "lease"
                                THEN /\ running' = [running EXCEPT ![t] = "entered"]
                                     /\ regs' = [regs EXCEPT
                                              ![t] = [thread |-> t, moment |-> samples]]
                                ELSE UNCHANGED <<running, regs>>
    BY <1>17 DEF Sampling!Deliver
  <2>3. sampler \in After /\ pending = {<<signal, asked>>} /\ running[asked] = "no"
        /\ ~capture.ready
    BY <2>2 DEF HandlerInv, Nobody
  <2>4. t = asked /\ pending' = {}
    BY <2>2, <2>3
  <2>5. /\ \A u \in Targets \ {asked} : running'[u] = "no"
        /\ running'[asked] \in {"no", "entered"}
        /\ running'[asked] # "no" => regs'[asked] = Asked
    BY <2>2, <2>3, <2>4, <1>a DEF HandlerInv, Asked
  <2>6. SampleInv'
    BY <2>1 DEF SampleInv, Asked
  <2>7. sampler \notin Before
    BY <2>3 DEF Before, After
  <2> QED
    BY <2>1, <2>3, <2>4, <2>5, <2>6, <2>7 DEF HandlerInv, Asked, Before
<1>18. ASSUME NEW t \in Targets, Sampling!Consider(t) PROVE HandlerInv' /\ SampleInv'
  <2>1. UNCHANGED <<capture, pending, regs, sampler, asked, samples, sample, signal>>
    BY <1>18 DEF Sampling!Consider, Sampling!leaseVars, Sampling!captureVars
  <2>2. running[t] \in {"entered", "expected"}
        /\ running' = [running EXCEPT ![t] = running'[t]]
        /\ running'[t] \in {"no", "expected", "first"}
    BY <1>18, <1>a DEF Sampling!Consider, Sampling!Steps
  <2>3. sampler \in After /\ t = asked /\ ~capture.ready /\ regs[asked] = Asked /\ pending = {}
    BY <2>2 DEF HandlerInv, Nobody
  <2>4. \A u \in Targets \ {asked} : running'[u] = "no"
    BY <2>2, <2>3, <1>a DEF HandlerInv
  <2>5. SampleInv'
    BY <2>1 DEF SampleInv, Asked
  <2>6. sampler \notin Before
    BY <2>3 DEF Before, After
  <2> QED
    BY <2>1, <2>2, <2>3, <2>4, <2>5, <2>6 DEF HandlerInv, Asked, Before
<1>19. ASSUME NEW t \in Targets, Sampling!Store(t) PROVE HandlerInv' /\ SampleInv'
  <2>1. UNCHANGED <<pending, regs, sampler, asked, samples, sample, signal>>
    BY <1>19 DEF Sampling!Store, Sampling!leaseVars, Sampling!captureVars
  <2>2. running[t] \in {"first", "second", "ready"}
        /\ running' = [running EXCEPT ![t] = running'[t]]
    BY <1>19, <1>a DEF Sampling!Store, Sampling!Steps
  <2>3. sampler \in After /\ t = asked /\ ~capture.ready /\ regs[asked] = Asked /\ pending = {}
    BY <2>2 DEF HandlerInv, Nobody
  <2>4. \A u \in Targets \ {asked} : running'[u] = "no"
    BY <2>2, <2>3, <1>a DEF HandlerInv
  <2>5. capture'.expected = capture.expected
    BY <1>19, <1>a DEF Sampling!Store, CaptureType
  <2>6. SampleInv'
    BY <2>1, <2>3 DEF SampleInv
  <2>7. sampler \notin Before /\ Asked' = Asked
    BY <2>1, <2>3 DEF Before, After, Asked
  <2>8. CASE running[t] = "first"
    <3>1. capture' = [capture EXCEPT !.first = regs[t]] /\ running'[t] = "second"
      BY <1>19, <2>8, <1>a DEF Sampling!Store, Sampling!Steps
    <3>2. capture'.first = Asked /\ capture'.ready = capture.ready
      BY <3>1, <2>3, <1>a DEF CaptureType
    <3> QED
      BY <3>1, <3>2, <2>1, <2>3, <2>4, <2>5, <2>6, <2>7 DEF HandlerInv, Before
  <2>9. CASE running[t] = "second"
    <3>1. capture' = [capture EXCEPT !.second = regs[t]] /\ running'[t] = "ready"
          /\ capture.first = Asked
      BY <1>19, <2>3, <2>9, <1>a DEF Sampling!Store, Sampling!Steps, HandlerInv
    <3>2. capture'.first = Asked /\ capture'.second = Asked /\ capture'.ready = capture.ready
      BY <3>1, <2>3, <1>a DEF CaptureType
    <3> QED
      BY <3>1, <3>2, <2>1, <2>3, <2>4, <2>5, <2>6, <2>7 DEF HandlerInv, Before
  <2>10. CASE running[t] = "ready"
    <3>1. /\ capture' = [capture EXCEPT !.ready = TRUE] /\ running'[t] = "no"
          /\ capture.first = Asked /\ capture.second = Asked
      BY <1>19, <2>3, <2>10, <1>a DEF Sampling!Store, Sampling!Steps, HandlerInv
    <3>2. capture'.first = Asked /\ capture'.second = Asked
      BY <3>1, <1>a DEF CaptureType
    <3> QED
      BY <3>1, <3>2, <2>1, <2>3, <2>4, <2>5, <2>6, <2>7 DEF HandlerInv, Before
  <2> QED
    BY <2>2, <2>8, <2>9, <2>10
<1>20. ASSUME NEW t \in Targets, Sampling!Die(t) PROVE HandlerInv' /\ SampleInv'
  <2>1. UNCHANGED <<capture, running, regs, sampler, asked, samples, sample, signal>>
    BY <1>20 DEF Sampling!Die, Sampling!leaseVars, Sampling!captureVars
  <2>2. pending' \subseteq pending
    BY <1>20 DEF Sampling!Die
  <2>3. pending # {} \/ pending' = {}
    BY <2>2
  <2> QED
    BY <2>1, <2>2, <2>3 DEF HandlerInv, SampleInv, Asked, Nobody
<1>21. ASSUME NEW t \in Targets, Sampling!Skip(t) PROVE HandlerInv' /\ SampleInv'
  BY <1>21 DEF Sampling!Skip, HandlerInv, SampleInv, Asked, Nobody, Sampling!leaseVars,
     Sampling!threadVars, Looking, Returning, Holding, Before, After
<1>22. CASE UNCHANGED samplerVars
  BY <1>22 DEF samplerVars, HandlerInv, SampleInv, Asked, Nobody
<1> QED
  BY <1>1, <1>2, <1>3, <1>4, <1>5, <1>6, <1>7, <1>8, <1>9, <1>10, <1>11,
     <1>12, <1>13, <1>14, <1>15, <1>16, <1>17, <1>18, <1>19, <1>20, <1>21,
     <1>22
     DEF Sampling!Next

(* The invariant holds throughout.                                         *)
LEMMA SamplingHolds == TracesSpec => []SamplingInv
<1>1. SamplingInv /\ [TracesNext]_tracesVars => SamplingInv'
  BY TypingKept, LeaseKept, CaptureKept, StepsOfModules DEF SamplingInv
<1>2. TracesInit => SamplingInv
  BY SamplingStarts DEF TracesInit
<1> QED
  BY <1>1, <1>2, PTL DEF TracesSpec

(* However the handlers, the deaths of threads and the host interleave     *)
(* with the bootstrap, an undisturbed sample is whole (CaptureThread and   *)
(* CaptureSignalHandler, vm/live_vm_bootstrap.cpp).                        *)
THEOREM SampleStaysWhole == TracesSpec => []SampleIsWhole
<1>1. SamplingInv => SampleIsWhole
  BY DEF SamplingInv, CaptureInv, SampleInv, SampleIsWhole, Sampling!SampleIsWhole, Asked, After
<1> QED
  BY <1>1, SamplingHolds, PTL

(* A lease takes a free signal only and gives it back                      *)
(* (ScopedSignalLease, host/signal_lease.cpp).                             *)
THEOREM SignalStaysReturned == TracesSpec => []SignalReturned
<1>1. ASSUME SamplingInv PROVE SignalReturned
  <2>1. sampler \notin {"idle", "probe", "install", "back out"} => old = "default"
    BY <1>1 DEF SamplingInv, SamplingTypeOK, LeaseInv, Looking, Returning, Holding
  <2>2. sampler = "idle" => \A s \in Sampling!Signals : Untouched(s)
    BY <1>1 DEF SamplingInv, LeaseInv, Looking
  <2>3. disposition \in [Sampling!Signals -> {"default", "lease", "host"}]
        /\ claimed \in [Sampling!Signals -> {"default", "host"}]
    BY <1>1 DEF SamplingInv, SamplingTypeOK
  <2>4. (\A s \in Sampling!Signals : disposition[s] = claimed[s]) => disposition = claimed
    BY <2>3
  <2> QED
    BY <2>1, <2>2, <2>4 DEF SignalReturned, Sampling!SignalReturned, Untouched
<1> QED
  BY <1>1, SamplingHolds, PTL
===============================================================================
