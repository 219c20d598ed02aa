-------------------------- MODULE EntryTargetsProofs --------------------------
(***************************************************************************)
(* What is recorded of an entry agrees with itself and only grows, and no  *)
(* callback is told more than was known when it was selected: the          *)
(* invariants and the action property of EntryTargets, for any number of   *)
(* owners, Functions and listeners, any directories and any sidecars.      *)
(***************************************************************************)
EXTENDS EntryTargets, FiniteSetTheorems, TLAPS

-----------------------------------------------------------------------------
(* The inductive invariant                                                 *)

(* A target that does not contradict itself.                               *)
Consistent(t) ==
  /\ t \in Targets
  /\ t.proof = "UNIQUE" => t.count = 1
  /\ t.count >= Cardinality(t.aliases)

(* Nothing that t records is forgotten in u.                               *)
Grows(t, u) ==
  /\ Shared(t) => Shared(u)
  /\ u.count >= t.count
  /\ t.aliases \subseteq u.aliases

TargetsConsistent == \A o \in Owners : target[o] # None => Consistent(target[o])

(* Function f of owner o is among the aliases of the owner's target.       *)
Known(o, f) == target[o] # None /\ f \in target[o].aliases

HoldersKnown ==
  /\ \A o \in Owners : \A f \in methods[o] : Known(o, f)
  /\ hook # None =>
       \A p \in DOMAIN hook.chain : Known(hook.chain[p].owner, hook.chain[p].function)
  /\ \A o \in Owners : frame[o] # None =>
       \A p \in DOMAIN frame[o].entered :
         frame[o].entered[p].owner = o /\ Known(o, frame[o].entered[p].function)

(* A frame of the dispatcher: the hook is there while it is, its index is  *)
(* within the listeners that entered, and a typed layout is one that each  *)
(* of them was given.                                                      *)
FrameWhole(fr) ==
  /\ fr.step \in {"selecting", "enter", "leave", "caught"} => fr.at \in 1..Len(fr.entered)
  /\ fr.step \in {"leaving", "unwinding"} => fr.at \in 0..Len(fr.entered)
  /\ fr.layout => \A p \in DOMAIN fr.entered : fr.entered[p].layout

FramesWhole == \A o \in Owners : frame[o] # None => hook # None /\ FrameWhole(frame[o])

Inv == TypeOK /\ TargetsConsistent /\ HoldersKnown /\ FramesWhole /\ ToldOnlyWhatIsKnown

-----------------------------------------------------------------------------
(* Evidence                                                                *)

(* There are finitely many Functions.                                      *)
LEMMA AliasesCounted ==
  ASSUME NEW A \in SUBSET Functions
  PROVE  /\ IsFiniteSet(A)
         /\ Cardinality(A) \in 0..Cardinality(Functions)
         /\ A # {} => Cardinality(A) >= 1
         /\ Cardinality(Functions) \in Nat
<1>1. IsFiniteSet(Functions)
  BY OwnersAssumption
<1>2. IsFiniteSet(A) /\ Cardinality(A) <= Cardinality(Functions)
  BY <1>1, FS_Subset
<1>3. Cardinality(A) \in Nat /\ Cardinality(Functions) \in Nat
  BY <1>1, <1>2, FS_CardinalityType
<1>4. A # {} => Cardinality(A) # 0
  BY <1>2, FS_EmptySet
<1> QED
  BY <1>2, <1>3, <1>4

(* A set of aliases counts no more than one that includes it.              *)
LEMMA MoreAliases ==
  ASSUME NEW A \in SUBSET Functions, NEW B \in SUBSET A
  PROVE  Cardinality(B) <= Cardinality(A)
BY AliasesCounted, FS_Subset

(* What can be reported of an entry that somebody lists.                   *)
Counts == 1..Cardinality(Functions)

(* A new target does not contradict itself (GetOrCreate).                  *)
LEMMA FreshConsistent ==
  ASSUME NEW count \in Counts, NEW proof \in Proofs, NEW payload \in Payloads
  PROVE  /\ Consistent(Fresh(count, proof, payload))
         /\ Fresh(count, proof, payload).count = count
         /\ Fresh(count, proof, payload).payload = payload
<1>1. Cardinality({}) = 0 /\ Cardinality(Functions) \in Nat
  BY FS_EmptySet, AliasesCounted
<1>2. Larger(1, count) = count
  BY <1>1 DEF Larger, Counts
<1> QED
  BY <1>1, <1>2 DEF Fresh, Consistent, Targets, Counts, Proofs

(* Merging evidence contradicts nothing and forgets nothing                *)
(* (MergeEvidence).                                                        *)
LEMMA MergedConsistent ==
  ASSUME NEW t, Consistent(t), NEW count \in Counts, NEW proof \in Proofs
  PROVE  /\ Consistent(Merged(t, count, proof)) /\ Grows(t, Merged(t, count, proof))
         /\ Merged(t, count, proof).count >= count
         /\ Merged(t, count, proof).aliases = t.aliases
         /\ Merged(t, count, proof).payload = t.payload
<1> DEFINE u == Merged(t, count, proof)
           n == Cardinality(t.aliases)
<1>1. /\ t \in Targets /\ n \in Nat /\ Cardinality(Functions) \in Nat
      /\ t.count >= n
      /\ t.proof = "UNIQUE" => t.count = 1
  BY AliasesCounted DEF Consistent, Targets
<1>2. /\ u.count = Larger(t.count, count) /\ u.aliases = t.aliases /\ u.payload = t.payload
      /\ u.proof = IF proof = "SHARED" \/ Larger(t.count, count) > 1 THEN "SHARED"
                   ELSE IF proof = "UNIQUE" /\ t.proof = "UNKNOWN" THEN "UNIQUE" ELSE t.proof
  BY <1>1 DEF Merged, Targets
<1>3. /\ u.count \in Counts /\ u.count >= count /\ u.count >= t.count
      /\ u.count > 1 => u.proof = "SHARED"
      /\ t.proof = "SHARED" => u.proof = "SHARED"
  BY <1>1, <1>2 DEF Larger, Counts, Targets
<1>4. u \in Targets
  <2> DEFINE most == Larger(t.count, count)
             now == IF proof = "SHARED" \/ most > 1 THEN "SHARED"
                    ELSE IF proof = "UNIQUE" /\ t.proof = "UNKNOWN" THEN "UNIQUE" ELSE t.proof
  <2>1. u = [t EXCEPT !.count = most, !.proof = now]
    BY <1>1 DEF Merged, Targets
  <2>2. most \in Counts /\ now \in Proofs
    BY <1>1, <1>2, <1>3 DEF Targets, Proofs
  <2> HIDE DEF most, now, u
  <2> QED
    BY <1>1, <2>1, <2>2 DEF Targets, Counts
<1> HIDE DEF u
<1>5. Consistent(u)
  <2>1. u.proof = "UNIQUE" => u.count = 1
    BY <1>3 DEF Counts
  <2>2. u.count >= Cardinality(u.aliases)
    <3> HIDE DEF n
    <3>1. u.count \in Nat /\ t.count \in Nat
      BY <1>1, <1>3 DEF Counts, Targets
    <3>2. u.count >= n
      BY <1>1, <1>3, <3>1
    <3> QED
      BY <1>2, <3>2 DEF n
  <2> QED
    BY <1>4, <2>1, <2>2 DEF Consistent
<1>6. Grows(t, u)
  <2>1. Shared(t) => Shared(u)
    <3>1. u # None
      BY <1>4, OwnersAssumption
    <3>2. t.count > 1 => u.count > 1
      BY <1>1, <1>3 DEF Targets, Counts
    <3> QED
      BY <1>2, <1>3, <3>1, <3>2 DEF Shared
  <2> QED
    BY <1>2, <1>3, <2>1 DEF Grows
<1> QED
  BY <1>2, <1>3, <1>5, <1>6 DEF u

(* Nor does a further alias (AddAlias).                                    *)
LEMMA AliasedConsistent ==
  ASSUME NEW t, Consistent(t), NEW f \in Functions
  PROVE  /\ Consistent(Aliased(t, f)) /\ Grows(t, Aliased(t, f))
         /\ f \in Aliased(t, f).aliases
         /\ Aliased(t, f).payload = t.payload
<1> DEFINE u == Aliased(t, f)
           known == t.aliases \cup {f}
           n == Cardinality(t.aliases)
           m == Cardinality(known)
<1>1. /\ t \in Targets /\ n \in Nat /\ Cardinality(Functions) \in Nat
      /\ t.count >= n
      /\ t.proof = "UNIQUE" => t.count = 1
  BY AliasesCounted DEF Consistent, Targets
<1>2. known \in SUBSET Functions /\ m \in 1..Cardinality(Functions) /\ n <= m
  <2>1. known \in SUBSET Functions /\ t.aliases \in SUBSET known /\ known # {}
    BY <1>1 DEF Targets
  <2> QED
    BY <2>1, AliasesCounted, MoreAliases
<1>3. /\ u.aliases = known /\ u.payload = t.payload
      /\ u.count = IF m > 1 THEN Larger(t.count, m) ELSE t.count
      /\ u.proof = IF m > 1 THEN "SHARED" ELSE t.proof
      /\ u = [count |-> u.count, proof |-> u.proof, aliases |-> u.aliases, payload |-> u.payload]
  BY <1>1 DEF Aliased, Targets
<1> HIDE DEF u, m, n
<1>4. /\ u.count \in Counts /\ u.count >= t.count /\ u.count >= m
      /\ t.proof = "SHARED" => u.proof = "SHARED"
      /\ u.proof = "UNIQUE" => u.count = 1
  BY <1>1, <1>2, <1>3 DEF Larger, Counts, Targets
<1>5. u \in Targets
  BY <1>1, <1>2, <1>3, <1>4 DEF Targets, Counts, Proofs
<1>6. Consistent(u)
  BY <1>3, <1>4, <1>5 DEF Consistent, m
<1>7. Shared(t) => Shared(u)
  <2>1. u # None
    BY <1>5, OwnersAssumption
  <2>2. n > 1 => m > 1
    BY <1>1, <1>2
  <2>3. t.count > 1 => u.count > 1
    BY <1>1, <1>4 DEF Targets, Counts
  <2> QED
    BY <1>3, <1>4, <2>1, <2>2, <2>3 DEF Shared, m, n
<1> QED
  BY <1>3, <1>4, <1>6, <1>7 DEF Grows, u

(* What two steps add to the evidence.                                     *)
LEMMA GrowsFurther ==
  ASSUME NEW t \in Targets, NEW u \in Targets, NEW v \in Targets, Grows(t, u), Grows(u, v)
  PROVE  Grows(t, v)
<1>1. t.count \in Nat /\ u.count \in Nat /\ v.count \in Nat
  BY AliasesCounted DEF Targets
<1> QED
  BY <1>1 DEF Grows

(* A target that is found or made has the evidence that was brought; one   *)
(* is refused only for its payload.                                        *)
LEMMA Obtained ==
  ASSUME NEW t \in Targets \cup {None}, t # None => Consistent(t),
         NEW count \in Counts, NEW proof \in Proofs, NEW payload \in Payloads,
         NEW u, u = GetOrCreate(t, count, proof, payload)
  PROVE  /\ u # None => /\ Consistent(u)
                        /\ u.count >= count
                        /\ u.payload = payload
                        /\ t # None => Grows(t, u)
         /\ u = None => t # None /\ t.payload # payload
<1>1. CASE t = None
  <2>1. u = Fresh(count, proof, payload)
    BY <1>1 DEF GetOrCreate
  <2>2. Consistent(u) /\ u.count = count /\ u.payload = payload
    BY <2>1, FreshConsistent
  <2> QED
    BY <1>1, <2>2, OwnersAssumption DEF Consistent, Counts
<1>2. CASE t # None /\ t.payload # payload
  BY <1>2 DEF GetOrCreate
<1>3. CASE t # None /\ t.payload = payload
  <2>1. u = Merged(t, count, proof)
    BY <1>3 DEF GetOrCreate
  <2>2. Consistent(u) /\ u.count >= count /\ u.payload = payload /\ Grows(t, u)
    BY <1>3, <2>1, MergedConsistent
  <2> QED
    BY <1>3, <2>2, OwnersAssumption DEF Consistent
<1> QED
  BY <1>1, <1>2, <1>3

-----------------------------------------------------------------------------
(* Resolution                                                              *)

(* What a lookup may leave of target t.                                    *)
Left(t, u) ==
  /\ u # None => Consistent(u)
  /\ t # None => u # None /\ Grows(t, u)

(* What a lookup of f by owner o answers: the target keeps what it knew,   *)
(* and one that is returned knows f.                                       *)
Answered(o, f, answer) ==
  /\ Left(target[o], answer.target)
  /\ answer.status = "ok" => answer.target # None /\ f \in answer.target.aliases

(* A target does not grow by itself.                                       *)
LEMMA LeftAlone ==
  ASSUME NEW o \in Owners, NEW f, TypeOK, TargetsConsistent
  PROVE  Answered(o, f, Missing(o))
<1>1. target[o] # None => Grows(target[o], target[o])
  BY AliasesCounted DEF Grows, TypeOK, Targets
<1> QED
  BY <1>1 DEF Answered, Left, Missing, TargetsConsistent

(* The sidecar counts at least one Function and no more than there are.    *)
LEMMA SidecarCounts ==
  ASSUME NEW a \in ArtifactIndices
  PROVE  EntryAliasCount(a) \in Counts
<1>1. /\ a.listed \in SUBSET Functions /\ a.listed # {}
      /\ a.physical \in 0..Cardinality(Functions)
  BY DEF ArtifactIndices
<1>2. Cardinality(a.listed) \in 1..Cardinality(Functions) /\ Cardinality(Functions) \in Nat
  BY <1>1, AliasesCounted
<1> QED
  BY <1>1, <1>2 DEF EntryAliasCount, Larger, Counts

(* ResolveArtifactIndexedRuntimeMethod.                                    *)
LEMMA ArtifactAnswer ==
  ASSUME NEW o \in Owners, NEW f \in Functions, TypeOK, TargetsConsistent
  PROVE  /\ Answered(o, f, ArtifactMethod(o, f))
         /\ ArtifactMethod(o, f).target # None /\ target[o] # None
              => ArtifactMethod(o, f).target.payload = target[o].payload
<1> DEFINE a == sidecar[o]
           t == GetOrCreate(target[o], EntryAliasCount(a), a.proof, a.payload)
           answer == ArtifactMethod(o, f)
<1>1. CASE ~Lists(o, f) \/ t = None
  <2>1. answer = Missing(o)
    BY <1>1 DEF ArtifactMethod
  <2> QED
    BY <2>1, LeftAlone DEF Missing
<1>2. CASE Lists(o, f) /\ t # None
  <2>1. answer = [status |-> "ok", target |-> Aliased(t, f)]
    BY <1>2 DEF ArtifactMethod
  <2>2. a \in ArtifactIndices
    BY <1>2 DEF Lists, TypeOK
  <2>3. a.proof \in Proofs /\ a.payload \in Payloads /\ EntryAliasCount(a) \in Counts
    BY <2>2, SidecarCounts DEF ArtifactIndices
  <2>4. target[o] \in Targets \cup {None} /\ (target[o] # None => Consistent(target[o]))
    BY DEF TypeOK, TargetsConsistent
  <2> DEFINE u == Aliased(t, f)
  <2>5. /\ Consistent(t)
        /\ t.payload = a.payload
        /\ target[o] # None => Grows(target[o], t)
        /\ target[o] # None => target[o].payload = a.payload
    <3>1. target[o] # None /\ target[o].payload # a.payload => t = None
      BY DEF GetOrCreate
    <3> HIDE DEF a
    <3>2. PICK n, p, q : n = EntryAliasCount(a) /\ p = a.proof /\ q = a.payload
      OBVIOUS
    <3>3. t = GetOrCreate(target[o], n, p, q)
      BY <3>2
    <3> HIDE DEF t
    <3> QED
      BY <1>2, <2>3, <2>4, <3>1, <3>2, <3>3, Obtained
  <2> HIDE DEF t, a
  <2>6. /\ Consistent(u) /\ f \in u.aliases /\ u.payload = t.payload
        /\ Grows(t, u)
    BY <2>5, AliasedConsistent
  <2>7. target[o] # None => Grows(target[o], u)
    <3>1. t \in Targets /\ u \in Targets /\ (target[o] # None => target[o] \in Targets)
      BY <2>4, <2>5, <2>6 DEF Consistent
    <3> QED
      BY <2>5, <2>6, <3>1, GrowsFurther
  <2>8. u # None
    BY <2>6, OwnersAssumption DEF Consistent
  <2> HIDE DEF u
  <2> QED
    BY <2>1, <2>5, <2>6, <2>7, <2>8 DEF Answered, Left, u
<1> QED
  BY <1>1, <1>2

(* ResolveLiveIndexedRuntimeMethod and the merge of the sidecar: what is   *)
(* found counts what the live directory counts, and is missing only where  *)
(* the directory does not list f or the target has another payload.        *)
LEMMA LiveAnswer ==
  ASSUME NEW o \in Owners, NEW f \in Functions, TypeOK, TargetsConsistent
  PROVE  /\ Answered(o, f, LiveMethod(o, f))
         /\ LiveMethod(o, f).status = "ok"
              => LiveMethod(o, f).target.count >= Cardinality(live[o])
         /\ LiveMethod(o, f).status = "missing" /\ f \in live[o]
              => target[o] # None /\ target[o].payload # "payload"
<1> DEFINE answer == LiveMethod(o, f)
           n == Cardinality(live[o])
           t == GetOrCreate(target[o], n, "UNKNOWN", "payload")
           known == Aliased(t, f)
           merged == Merged(known, EntryAliasCount(sidecar[o]), sidecar[o].proof)
<1>1. target[o] \in Targets \cup {None} /\ (target[o] # None => Consistent(target[o]))
  BY DEF TypeOK, TargetsConsistent
<1>2. CASE f \notin live[o]
  <2>1. answer = Missing(o)
    BY <1>2 DEF LiveMethod
  <2> QED
    BY <1>2, <2>1, LeftAlone DEF Missing
<1>3. ASSUME f \in live[o]
      PROVE  /\ n \in Counts
             /\ t # None => /\ Consistent(t)
                            /\ t.count >= n
                            /\ target[o] # None => Grows(target[o], t)
             /\ t = None => target[o] # None /\ target[o].payload # "payload"
  <2>1. n \in Counts
    BY <1>3, AliasesCounted DEF TypeOK, Counts
  <2>2. "UNKNOWN" \in Proofs /\ "payload" \in Payloads
    BY DEF Proofs, Payloads
  <2> HIDE DEF n
  <2>3. PICK p, q : p = "UNKNOWN" /\ q = "payload"
    OBVIOUS
  <2>4. t = GetOrCreate(target[o], n, p, q) /\ p \in Proofs /\ q \in Payloads
    BY <2>2, <2>3
  <2> HIDE DEF t
  <2> QED
    BY <1>1, <2>1, <2>3, <2>4, Obtained
<1>4. CASE f \in live[o] /\ t = None
  <2>1. answer = Missing(o)
    BY <1>4 DEF LiveMethod
  <2> QED
    BY <1>3, <1>4, <2>1, LeftAlone DEF Missing
<1>5. ASSUME f \in live[o], t # None
      PROVE  /\ Consistent(known) /\ known.count >= n /\ f \in known.aliases
             /\ target[o] # None => Grows(target[o], known)
  <2> HIDE DEF t, n
  <2>1. Consistent(t) /\ t.count >= n /\ n \in Nat
    BY <1>3, <1>5 DEF Counts
  <2>2. Consistent(known) /\ f \in known.aliases /\ Grows(t, known)
    BY <2>1, AliasedConsistent
  <2>3. known.count >= t.count
    BY <2>2 DEF Grows
  <2>4. t \in Targets /\ known \in Targets
    BY <2>1, <2>2 DEF Consistent
  <2>5. t.count \in Nat /\ known.count \in Nat
    BY <2>4, AliasesCounted DEF Targets
  <2>6. known.count >= n
    BY <2>1, <2>3, <2>5
  <2>7. target[o] # None => Grows(target[o], known)
    BY <1>1, <1>3, <1>5, <2>2, <2>4, GrowsFurther
  <2> QED
    BY <2>2, <2>6, <2>7
<1>6. CASE f \in live[o] /\ t # None /\ (~Lists(o, f) \/ Conflicts(known, sidecar[o]))
  <2>1. answer.target = known /\ answer.status # "missing"
    BY <1>6 DEF LiveMethod
  <2>2. known # None
    BY <1>5, <1>6, OwnersAssumption DEF Consistent
  <2> HIDE DEF answer, known, n
  <2> QED
    BY <1>5, <1>6, <2>1, <2>2 DEF Answered, Left, answer, n
<1>7. CASE f \in live[o] /\ t # None /\ Lists(o, f) /\ ~Conflicts(known, sidecar[o])
  <2>1. answer.target = merged /\ answer.status = "ok"
    BY <1>7 DEF LiveMethod
  <2>2. sidecar[o] \in ArtifactIndices
    BY <1>7 DEF Lists, TypeOK
  <2>3. sidecar[o].proof \in Proofs /\ EntryAliasCount(sidecar[o]) \in Counts
    BY <2>2, SidecarCounts DEF ArtifactIndices
  <2> HIDE DEF known, t, n, answer
  <2>4. /\ Consistent(merged) /\ Grows(known, merged) /\ merged.aliases = known.aliases
    <3>1. PICK m, p : m = EntryAliasCount(sidecar[o]) /\ p = sidecar[o].proof
      OBVIOUS
    <3> QED
      BY <1>5, <1>7, <2>3, <3>1, MergedConsistent
  <2>5. known \in Targets /\ merged \in Targets /\ merged # None
    BY <1>5, <1>7, <2>4, OwnersAssumption DEF Consistent
  <2>6. target[o] # None => Grows(target[o], merged)
    BY <1>1, <1>5, <1>7, <2>4, <2>5, GrowsFurther
  <2>7. merged.count >= n
    <3>1. n \in Nat /\ known.count \in Nat /\ merged.count \in Nat
      BY <1>3, <1>7, <2>5, AliasesCounted DEF Targets, Counts
    <3>2. merged.count >= known.count /\ known.count >= n
      BY <1>5, <1>7, <2>4 DEF Grows
    <3> HIDE DEF merged
    <3> QED
      BY <3>1, <3>2
  <2> HIDE DEF merged
  <2>8. f \in known.aliases
    BY <1>5, <1>7
  <2> QED
    BY <2>1, <2>4, <2>5, <2>6, <2>7, <2>8 DEF Answered, Left, answer, n
<1> QED
  BY <1>2, <1>4, <1>6, <1>7

(* dartplant_runtime_find_method: a method that is returned knows f, and   *)
(* what the live directory counts unless the sidecar made its target.      *)
LEMMA FoundAnswer ==
  ASSUME NEW o \in Owners, NEW f \in Functions, TypeOK, TargetsConsistent
  PROVE  /\ Answered(o, f, Found(o, f))
         /\ /\ Found(o, f).status = "ok"
            /\ f \in live[o]
            /\ Found(o, f).target.payload = "payload"
            => Found(o, f).target.count >= Cardinality(live[o])
<1>1. CASE LiveMethod(o, f).status # "missing"
  BY <1>1, LiveAnswer DEF Found
<1>2. CASE LiveMethod(o, f).status = "missing"
  <2>1. Found(o, f) = ArtifactMethod(o, f)
    BY <1>2 DEF Found
  <2>2. Found(o, f).status = "ok" => Found(o, f).target # None
    BY <2>1, ArtifactAnswer DEF Answered
  <2> QED
    BY <1>2, <2>1, <2>2, LiveAnswer, ArtifactAnswer
<1> QED
  BY <1>1, <1>2

-----------------------------------------------------------------------------
(* Steps                                                                   *)

(* What a step may do to the evidence: the body of EvidenceGrows.          *)
EvidenceStep ==
  \A o \in Owners :
    /\ target[o] # None /\ target'[o] # None => Grows(target[o], target'[o])
    /\ \A f \in live[o] :
         f \in methods'[o] \ methods[o] /\ target'[o].payload = "payload"
           => target'[o].count >= Cardinality(live[o])

(* What ToldOnlyWhatIsKnown says of the frame fr of a callback under h.    *)
ToldRight(fr, h) ==
  /\ fr.told.shared => ~fr.told.logical /\ ~fr.told.typed
  /\ fr.told.typed => fr.told.logical /\ fr.told.listener.layout
  /\ fr.step = "enter" /\ fr.told.shared => h.optIn

(* A listener in the chain is one of the subscriptions.                    *)
LEMMA ChainListener ==
  ASSUME TypeOK, hook # None, NEW p \in DOMAIN hook.chain
  PROVE  /\ hook.chain \in Seq(Subscriptions) /\ hook.chain[p] \in Subscriptions
         /\ hook.chain[p] \in Range(hook.chain)
         /\ hook.chain[p].owner \in Owners /\ hook.chain[p].function \in Functions
<1>1. hook.chain \in Seq(Subscriptions)
  BY DEF TypeOK, Hooks
<1>2. hook.chain[p] \in Subscriptions
  BY <1>1
<1>3. hook.chain[p] \in Range(hook.chain)
  BY DEF Range
<1> QED
  BY <1>1, <1>2, <1>3 DEF Subscriptions

(* A step that makes no target but may drop some, and adds no holder of    *)
(* one, keeps what is known.                                               *)
LEMMA NothingLearnt ==
  ASSUME TypeOK, TargetsConsistent, HoldersKnown,
         \A o \in Owners : target'[o] \in {target[o], None},
         \A o \in Owners :
           methods'[o] \subseteq methods[o] /\ (methods'[o] # {} => target'[o] = target[o]),
         hook' # None => hook # None /\ \A p \in DOMAIN hook'.chain :
           \E q \in DOMAIN hook.chain :
             /\ hook'.chain[p] = hook.chain[q]
             /\ target'[hook.chain[q].owner] = target[hook.chain[q].owner],
         \A o \in Owners : frame'[o] # None =>
           /\ frame[o] # None /\ target'[o] = target[o]
           /\ \A p \in DOMAIN frame'[o].entered :
                p \in DOMAIN frame[o].entered /\ frame'[o].entered[p] = frame[o].entered[p]
  PROVE  TargetsConsistent' /\ HoldersKnown' /\ EvidenceStep
<1>1. TargetsConsistent'
  BY DEF TargetsConsistent
<1>2. \A o \in Owners : \A f \in methods'[o] : Known(o, f)'
  BY DEF HoldersKnown, Known
<1>3. ASSUME hook' # None, NEW p \in DOMAIN hook'.chain
      PROVE  Known(hook.chain[p].owner, hook.chain[p].function)'
  <2>1. PICK q \in DOMAIN hook.chain :
          /\ hook'.chain[p] = hook.chain[q]
          /\ target'[hook.chain[q].owner] = target[hook.chain[q].owner]
    BY <1>3
  <2> QED
    BY <1>3, <2>1 DEF HoldersKnown, Known
<1>4. ASSUME NEW o \in Owners, frame'[o] # None, NEW p \in DOMAIN frame'[o].entered
      PROVE  frame'[o].entered[p].owner = o /\ Known(o, frame[o].entered[p].function)'
  <2>1. /\ frame[o] # None /\ target'[o] = target[o] /\ p \in DOMAIN frame[o].entered
        /\ frame'[o].entered[p] = frame[o].entered[p]
    BY <1>4
  <2> QED
    BY <2>1 DEF HoldersKnown, Known
<1>5. HoldersKnown'
  BY <1>2, <1>3, <1>4 DEF HoldersKnown
<1>6. ASSUME NEW o \in Owners, target[o] # None, target'[o] # None
      PROVE  Grows(target[o], target'[o])
  <2>1. target'[o] = target[o] /\ target[o] \in Targets
    BY <1>6 DEF TypeOK
  <2> QED
    BY <2>1, AliasesCounted DEF Grows, Targets
<1>7. EvidenceStep
  BY <1>6 DEF EvidenceStep
<1> QED
  BY <1>1, <1>5, <1>7

(* A step that moves no frame and leaves the hook tells nothing.           *)
LEMMA NobodyTold ==
  ASSUME FramesWhole, ToldOnlyWhatIsKnown, UNCHANGED <<hook, frame>>
  PROVE  FramesWhole' /\ ToldOnlyWhatIsKnown'
BY DEF FramesWhole, FrameWhole, ToldOnlyWhatIsKnown, InCallback

(* A step of the dispatcher that moves one frame, whose listeners are      *)
(* still those that entered.                                               *)
LEMMA FrameMoves ==
  ASSUME Inv, NEW o \in Owners, frame[o] # None, NEW new \in Frames, Move(o, new),
         \A p \in DOMAIN new.entered :
           p \in DOMAIN frame[o].entered /\ new.entered[p] = frame[o].entered[p],
         FrameWhole(new),
         new.step \in {"enter", "leave", "caught"} => ToldRight(new, hook)
  PROVE  Inv' /\ EvidenceStep
<1>1. /\ frame' = [frame EXCEPT ![o] = new]
      /\ UNCHANGED <<live, sidecar, target, methods, pinned, hook>>
  BY DEF Move
<1>2. /\ frame \in [Owners -> Frames \cup {None}] /\ frame'[o] = new
      /\ \A q \in Owners \ {o} : frame'[q] = frame[q]
  BY <1>1 DEF Inv, TypeOK
<1>3. TypeOK'
  BY <1>1, <1>2 DEF Inv, TypeOK
<1>4. TargetsConsistent' /\ HoldersKnown' /\ EvidenceStep
  <2>1. \A q \in Owners : frame'[q] # None =>
           /\ frame[q] # None /\ target'[q] = target[q]
           /\ \A p \in DOMAIN frame'[q].entered :
                p \in DOMAIN frame[q].entered /\ frame'[q].entered[p] = frame[q].entered[p]
    BY <1>1, <1>2
  <2> QED
    BY <1>1, <2>1, NothingLearnt DEF Inv
<1>5. FramesWhole'
  BY <1>1, <1>2 DEF Inv, FramesWhole, FrameWhole
<1>6. ToldOnlyWhatIsKnown'
  <2> SUFFICES ASSUME NEW q \in Owners, InCallback(q)'
               PROVE  ToldRight(frame'[q], hook')
    BY DEF ToldOnlyWhatIsKnown, ToldRight
  <2>1. CASE q = o
    BY <1>1, <1>2, <2>1 DEF InCallback, ToldRight
  <2>2. CASE q # o
    BY <1>1, <1>2, <2>2 DEF Inv, ToldOnlyWhatIsKnown, InCallback, ToldRight
  <2> QED
    BY <2>1, <2>2
<1> QED
  BY <1>3, <1>4, <1>5, <1>6 DEF Inv

-----------------------------------------------------------------------------
(* Resolution steps                                                        *)

(* dartplant_runtime_find_method.                                          *)
LEMMA FindStep ==
  ASSUME Inv, NEW o \in Owners, NEW f \in Functions, Find(o, f)
  PROVE  Inv' /\ EvidenceStep
<1> DEFINE answer == Found(o, f)
           held == IF answer.status = "ok" THEN methods[o] \cup {f} ELSE methods[o]
<1>1. /\ methods' = [methods EXCEPT ![o] = held]
      /\ target' = [target EXCEPT ![o] = IF held # {} \/ HeldElsewhere(o)
                                           THEN answer.target ELSE None]
      /\ UNCHANGED <<live, sidecar, pinned, hook, frame>>
  BY DEF Find
<1>2. /\ Answered(o, f, answer)
      /\ answer.status = "ok" /\ f \in live[o] /\ answer.target.payload = "payload"
           => answer.target.count >= Cardinality(live[o])
  BY FoundAnswer DEF Inv
<1>3. held \in SUBSET Functions /\ (answer.status = "ok" => f \in held)
  BY DEF Inv, TypeOK
<1>4. \A g \in held : g \in methods[o] \/ (g = f /\ answer.status = "ok")
  OBVIOUS
<1> HIDE DEF answer, held
<1>5. /\ methods'[o] = held
      /\ \A q \in Owners \ {o} : methods'[q] = methods[q] /\ target'[q] = target[q]
      /\ target'[o] \in {answer.target, None}
      /\ held # {} \/ HeldElsewhere(o) => target'[o] = answer.target
  BY <1>1 DEF Inv, TypeOK
<1>6. TypeOK'
  <2>1. target'[o] \in Targets \cup {None}
    BY <1>2, <1>5 DEF Answered, Left, Consistent
  <2>2. target' = [target EXCEPT ![o] = target'[o]]
    BY <1>1 DEF Inv, TypeOK
  <2> QED
    BY <1>1, <1>3, <2>1, <2>2 DEF Inv, TypeOK
<1>7. TargetsConsistent'
  BY <1>2, <1>5 DEF Inv, TargetsConsistent, Answered, Left
<1>8. ASSUME NEW q \in Owners, NEW g, Known(q, g), q = o => held # {} \/ HeldElsewhere(o)
      PROVE  Known(q, g)'
  BY <1>2, <1>5, <1>8 DEF Known, Answered, Left, Grows
<1>9. HoldersKnown'
  <2>1. ASSUME NEW q \in Owners, NEW g \in methods'[q] PROVE Known(q, g)'
    <3>1. CASE g \in methods[q]
      BY <1>5, <1>8, <2>1, <3>1 DEF Inv, HoldersKnown
    <3>2. CASE g \notin methods[q]
      <4>1. q = o /\ g = f /\ answer.status = "ok" /\ held # {}
        BY <1>3, <1>4, <1>5, <2>1, <3>2
      <4> QED
        BY <1>2, <1>5, <4>1 DEF Known, Answered
    <3> QED
      BY <3>1, <3>2
  <2>2. ASSUME hook # None, NEW p \in DOMAIN hook.chain
        PROVE  Known(hook.chain[p].owner, hook.chain[p].function)'
    <3>1. hook.chain[p] \in Range(hook.chain) /\ hook.chain[p].owner \in Owners
      BY <2>2, ChainListener DEF Inv
    <3>2. hook.chain[p].owner = o => HeldElsewhere(o)
      BY <2>2, <3>1 DEF HeldElsewhere
    <3> QED
      BY <1>1, <1>8, <2>2, <3>1, <3>2 DEF Inv, HoldersKnown
  <2>3. ASSUME NEW q \in Owners, frame[q] # None, NEW p \in DOMAIN frame[q].entered
        PROVE  frame[q].entered[p].owner = q /\ Known(q, frame[q].entered[p].function)'
    <3>1. q = o => HeldElsewhere(o)
      BY <2>3 DEF HeldElsewhere
    <3> QED
      BY <1>1, <1>8, <2>3, <3>1 DEF Inv, HoldersKnown
  <2> QED
    BY <1>1, <2>1, <2>2, <2>3 DEF HoldersKnown
<1>10. EvidenceStep
  <2>1. ASSUME NEW q \in Owners, target[q] # None, target'[q] # None
        PROVE  Grows(target[q], target'[q])
    <3>1. CASE q = o
      BY <1>2, <1>5, <2>1, <3>1 DEF Answered, Left
    <3>2. CASE q # o
      BY <1>5, <2>1, <3>2, AliasesCounted DEF Inv, TypeOK, Grows, Targets
    <3> QED
      BY <3>1, <3>2
  <2>2. ASSUME NEW q \in Owners, NEW g \in live[q], g \in methods'[q] \ methods[q],
               target'[q].payload = "payload"
        PROVE  target'[q].count >= Cardinality(live[q])
    <3>1. q = o /\ g = f /\ answer.status = "ok" /\ target'[o] = answer.target
      BY <1>3, <1>4, <1>5, <2>2
    <3> QED
      BY <1>2, <2>2, <3>1
  <2> QED
    BY <2>1, <2>2 DEF EvidenceStep
<1> QED
  BY <1>1, <1>6, <1>7, <1>9, <1>10, NobodyTold DEF Inv

(* dartplant_release_method.                                               *)
LEMMA ReleaseStep ==
  ASSUME Inv, NEW o \in Owners, NEW f \in Functions, Release(o, f)
  PROVE  Inv' /\ EvidenceStep
<1>1. /\ methods' = [methods EXCEPT ![o] = @ \ {f}]
      /\ target' = [target EXCEPT ![o] = IF methods[o] \ {f} # {} \/ HeldElsewhere(o)
                                           THEN @ ELSE None]
      /\ UNCHANGED <<live, sidecar, pinned, hook, frame>>
  BY DEF Release
<1>2. TypeOK'
  BY <1>1 DEF Inv, TypeOK
<1>3. /\ \A q \in Owners : target'[q] \in {target[q], None} /\ methods'[q] \subseteq methods[q]
      /\ \A q \in Owners : methods'[q] # {} \/ HeldElsewhere(q) => target'[q] = target[q]
  BY <1>1 DEF Inv, TypeOK
<1>4. ASSUME hook # None, NEW p \in DOMAIN hook.chain
      PROVE  target'[hook.chain[p].owner] = target[hook.chain[p].owner]
  <2>1. hook.chain[p] \in Range(hook.chain) /\ hook.chain[p].owner \in Owners
    BY <1>4, ChainListener DEF Inv
  <2> QED
    BY <1>3, <1>4, <2>1 DEF HeldElsewhere
<1>5. \A q \in Owners : frame[q] # None => target'[q] = target[q]
  BY <1>3 DEF HeldElsewhere
<1>6. TargetsConsistent' /\ HoldersKnown' /\ EvidenceStep
  BY <1>1, <1>3, <1>4, <1>5, NothingLearnt DEF Inv
<1> QED
  BY <1>1, <1>2, <1>6, NobodyTold DEF Inv

(* A directory is published, a sidecar is bound.                           *)
LEMMA SourceStep ==
  ASSUME Inv, NEW o \in Owners,
         \/ \E listed \in Listings[o] : Publish(o, listed)
         \/ \E a \in Sidecars[o] : BindArtifact(o, a)
  PROVE  Inv' /\ EvidenceStep
<1>1. UNCHANGED <<target, methods, pinned, hook, frame>>
  BY DEF Publish, BindArtifact
<1>2. TypeOK'
  <2>1. CASE \E listed \in Listings[o] : Publish(o, listed)
    <3>1. PICK listed \in Listings[o] : Publish(o, listed)
      BY <2>1
    <3>2. listed \in SUBSET Functions
      BY OwnersAssumption
    <3> QED
      BY <3>1, <3>2 DEF Publish, Inv, TypeOK
  <2>2. CASE \E a \in Sidecars[o] : BindArtifact(o, a)
    BY <2>2, OwnersAssumption DEF BindArtifact, Inv, TypeOK
  <2> QED
    BY <2>1, <2>2
<1>3. TargetsConsistent' /\ HoldersKnown' /\ EvidenceStep
  BY <1>1, NothingLearnt DEF Inv
<1> QED
  BY <1>1, <1>2, <1>3, NobodyTold DEF Inv

-----------------------------------------------------------------------------
(* Hooking steps                                                           *)

(* What a step that only drops or keeps targets, keeps the opt-in of a     *)
(* hook and moves no frame leaves of the frames.                           *)
LEMMA FramesStay ==
  ASSUME FramesWhole, ToldOnlyWhatIsKnown, UNCHANGED frame,
         \A o \in Owners : frame[o] # None => hook' # None /\ hook'.optIn = hook.optIn
  PROVE  FramesWhole' /\ ToldOnlyWhatIsKnown'
<1>1. FramesWhole'
  BY DEF FramesWhole, FrameWhole
<1>2. ASSUME NEW o \in Owners, InCallback(o)'
      PROVE  ToldRight(frame'[o], hook')
  <2>1. InCallback(o) /\ frame'[o] = frame[o] /\ hook'.optIn = hook.optIn
    BY <1>2 DEF InCallback
  <2> QED
    BY <2>1 DEF ToldOnlyWhatIsKnown, ToldRight
<1> QED
  BY <1>1, <1>2 DEF ToldOnlyWhatIsKnown, ToldRight

(* A new subscription.                                                     *)
LEMMA SubscriptionType ==
  ASSUME NEW id \in Listeners, NEW o \in Owners, NEW f \in Functions, NEW optIn \in BOOLEAN
  PROVE  /\ Subscription(id, o, f, optIn) \in Subscriptions
         /\ Subscription(id, o, f, optIn).owner = o
         /\ Subscription(id, o, f, optIn).function = f
<1> DEFINE given == f \in Typed /\ ~Shared(target[o])
<1>1. given \in BOOLEAN
  OBVIOUS
<1>2. Subscription(id, o, f, optIn) =
        [id |-> id, owner |-> o, function |-> f, optIn |-> optIn, layout |-> given]
  BY DEF Subscription
<1> HIDE DEF given
<1> QED
  BY <1>1, <1>2 DEF Subscriptions

(* A subscription is added to the chain; a place in the new chain has the  *)
(* new one or one that was there.                                          *)
LEMMA Inserted ==
  ASSUME NEW s \in Seq(Subscriptions), NEW e \in Subscriptions, NEW place \in 1..Len(s) + 1
  PROVE  /\ InsertAt(s, place, e) \in Seq(Subscriptions)
         /\ \A p \in DOMAIN InsertAt(s, place, e) :
              \/ InsertAt(s, place, e)[p] = e
              \/ \E q \in DOMAIN s : InsertAt(s, place, e)[p] = s[q]
<1> DEFINE a == SubSeq(s, 1, place - 1)
           b == SubSeq(s, place, Len(s))
<1>1. place \in 1..Len(s) + 1 /\ Len(s) \in Nat
  OBVIOUS
<1>2. /\ a \in Seq(Subscriptions)
      /\ Len(a) = place - 1
      /\ \A p \in 1..Len(a) : a[p] = s[p] /\ p \in DOMAIN s
  BY <1>1
<1>3. /\ b \in Seq(Subscriptions)
      /\ Len(b) = Len(s) - place + 1
      /\ \A p \in 1..Len(b) : b[p] = s[place + p - 1] /\ place + p - 1 \in DOMAIN s
  BY <1>1
<1>4. InsertAt(s, place, e) = (a \o <<e>>) \o b
  BY DEF InsertAt
<1> HIDE DEF a, b
<1> DEFINE c == a \o <<e>>
<1>5. /\ c \in Seq(Subscriptions)
      /\ Len(c) = Len(a) + 1
      /\ \A p \in 1..Len(a) + 1 : c[p] = IF p <= Len(a) THEN a[p] ELSE e
  BY <1>2
<1>6. Len(a) \in Nat /\ Len(b) \in Nat /\ Len(c) \in Nat
  BY <1>2, <1>3, <1>5
<1> HIDE DEF c
<1>7. /\ c \o b \in Seq(Subscriptions)
      /\ Len(c \o b) = Len(c) + Len(b)
      /\ \A p \in 1..Len(c) + Len(b) : (c \o b)[p] = IF p <= Len(c) THEN c[p] ELSE b[p - Len(c)]
  <2>1. b \in Seq(Subscriptions) /\ c \in Seq(Subscriptions)
    BY <1>3, <1>5
  <2> QED
    BY <2>1
<1>8. ASSUME NEW p \in DOMAIN (c \o b)
      PROVE  (c \o b)[p] = e \/ \E q \in DOMAIN s : (c \o b)[p] = s[q]
  <2>1. p \in 1..Len(c) + Len(b)
    BY <1>7, <1>8
  <2>2. CASE p <= Len(a)
    <3>1. p \in 1..Len(a) /\ p \in 1..Len(a) + 1 /\ p <= Len(c)
      BY <1>5, <1>6, <2>1, <2>2
    <3> QED
      BY <1>2, <1>5, <1>7, <2>1, <2>2, <3>1
  <2>3. CASE p = Len(c)
    BY <1>5, <1>6, <1>7, <2>1, <2>3
  <2>4. CASE p > Len(c)
    <3>1. p - Len(c) \in 1..Len(b)
      BY <1>6, <2>1, <2>4
    <3>2. (c \o b)[p] = b[p - Len(c)]
      BY <1>6, <1>7, <2>1, <2>4
    <3> QED
      BY <1>3, <3>1, <3>2
  <2> QED
    BY <1>5, <1>6, <2>1, <2>2, <2>3, <2>4
<1> QED
  BY <1>4, <1>7, <1>8 DEF c

(* A listener leaves the chain: the others stay.                           *)
LEMMA Taken ==
  ASSUME NEW s \in Seq(Subscriptions), NEW place \in DOMAIN s
  PROVE  /\ RemoveAt(s, place) \in Seq(Subscriptions)
         /\ \A p \in DOMAIN RemoveAt(s, place) :
              \E q \in DOMAIN s : RemoveAt(s, place)[p] = s[q]
<1> DEFINE a == SubSeq(s, 1, place - 1)
           b == SubSeq(s, place + 1, Len(s))
<1>1. /\ place \in 1..Len(s) /\ Len(s) \in Nat
      /\ \A q \in DOMAIN s : s[q] \in Subscriptions
  OBVIOUS
<1>2. /\ a \in Seq(Subscriptions) /\ Len(a) = place - 1
      /\ \A p \in 1..Len(a) : a[p] = s[p] /\ p \in DOMAIN s
  BY <1>1
<1>3. /\ b \in Seq(Subscriptions) /\ Len(b) = Len(s) - place
      /\ \A p \in 1..Len(b) : b[p] = s[place + p] /\ place + p \in DOMAIN s
  BY <1>1
<1>4. RemoveAt(s, place) = a \o b
  BY DEF RemoveAt
<1> HIDE DEF a, b
<1>5. /\ a \o b \in Seq(Subscriptions) /\ Len(a \o b) = Len(a) + Len(b)
      /\ \A p \in 1..Len(a) + Len(b) : (a \o b)[p] = IF p <= Len(a) THEN a[p] ELSE b[p - Len(a)]
  <2>1. a \in Seq(Subscriptions) /\ b \in Seq(Subscriptions)
    BY <1>2, <1>3
  <2> QED
    BY ONLY <2>1
<1>6. ASSUME NEW p \in DOMAIN (a \o b)
      PROVE  \E q \in DOMAIN s : (a \o b)[p] = s[q]
  <2>1. p \in 1..Len(a) + Len(b) /\ Len(a) \in Nat /\ Len(b) \in Nat
    BY <1>2, <1>3, <1>5, <1>6
  <2>2. CASE p <= Len(a)
    BY <1>2, <1>5, <2>1, <2>2
  <2>3. CASE ~(p <= Len(a))
    <3>1. p - Len(a) \in 1..Len(b)
      BY <2>1, <2>3
    <3> QED
      BY <1>3, <1>5, <2>1, <2>3, <3>1
  <2> QED
    BY <2>2, <2>3
<1> QED
  BY <1>4, <1>5, <1>6

(* A chain that has only the new listener and those that were there is     *)
(* known, when the new one holds a method.                                 *)
LEMMA ChainGrows ==
  ASSUME TypeOK, TargetsConsistent, HoldersKnown,
         NEW o \in Owners, NEW f \in methods[o], NEW new,
         new.owner = o /\ new.function = f,
         UNCHANGED <<live, sidecar, target, methods, frame>>,
         \A p \in DOMAIN hook'.chain :
           \/ hook'.chain[p] = new
           \/ hook # None /\ \E q \in DOMAIN hook.chain : hook'.chain[p] = hook.chain[q]
  PROVE  TargetsConsistent' /\ HoldersKnown' /\ EvidenceStep
<1>1. TargetsConsistent'
  BY DEF TargetsConsistent
<1>2. Known(o, f)
  BY DEF HoldersKnown
<1>3. ASSUME NEW p \in DOMAIN hook'.chain
      PROVE  Known(hook.chain[p].owner, hook.chain[p].function)'
  <2>1. CASE hook'.chain[p] = new
    BY <1>2, <2>1 DEF Known
  <2>2. CASE hook # None /\ \E q \in DOMAIN hook.chain : hook'.chain[p] = hook.chain[q]
    <3>1. PICK q \in DOMAIN hook.chain : hook'.chain[p] = hook.chain[q]
      BY <2>2
    <3> QED
      BY <2>2, <3>1 DEF HoldersKnown, Known
  <2> QED
    BY <2>1, <2>2
<1>4. HoldersKnown'
  <2>1. \A q \in Owners : \A g \in methods'[q] : Known(q, g)'
    BY DEF HoldersKnown, Known
  <2>2. ASSUME NEW q \in Owners, frame'[q] # None, NEW p \in DOMAIN frame'[q].entered
        PROVE  frame'[q].entered[p].owner = q /\ Known(q, frame[q].entered[p].function)'
    BY <2>2 DEF HoldersKnown, Known
  <2> QED
    BY <1>3, <2>1, <2>2 DEF HoldersKnown
<1>5. \A q \in Owners : target[q] # None => Grows(target[q], target[q])
  BY AliasesCounted DEF TypeOK, Grows, Targets
<1> QED
  BY <1>1, <1>4, <1>5 DEF EvidenceStep

(* InstallCallbackHook.                                                    *)
LEMMA InstallStep ==
  ASSUME Inv, NEW o \in Owners, NEW f \in Functions, NEW id \in Listeners,
         NEW optIn \in BOOLEAN, Install(o, f, id, optIn)
  PROVE  Inv' /\ EvidenceStep
<1> DEFINE new == Subscription(id, o, f, optIn)
<1>1. /\ f \in methods[o] /\ hook = None
      /\ hook' = [optIn |-> optIn, installed |-> TRUE, chain |-> <<new>>]
      /\ pinned' = pinned \cup {o}
      /\ UNCHANGED <<live, sidecar, target, methods, frame>>
  BY DEF Install
<1>2. new \in Subscriptions /\ new.owner = o /\ new.function = f
  BY SubscriptionType
<1> HIDE DEF new
<1>3. <<new>> \in Seq(Subscriptions) /\ \A p \in DOMAIN <<new>> : <<new>>[p] = new
  BY <1>2
<1>4. hook' \in Hooks /\ \A p \in DOMAIN hook'.chain : hook'.chain[p] = new
  BY <1>1, <1>3 DEF Hooks
<1>5. TypeOK'
  BY <1>1, <1>4 DEF Inv, TypeOK
<1>6. TargetsConsistent' /\ HoldersKnown' /\ EvidenceStep
  BY <1>1, <1>2, <1>4, ChainGrows DEF Inv
<1>7. \A q \in Owners : frame[q] = None
  BY <1>1 DEF Inv, FramesWhole
<1> QED
  BY <1>1, <1>5, <1>6, <1>7, FramesStay DEF Inv

(* AddCallbackListener.                                                    *)
LEMMA SubscribeStep ==
  ASSUME Inv, NEW o \in Owners, NEW f \in Functions, NEW id \in Listeners,
         NEW optIn \in BOOLEAN, Subscribe(o, f, id, optIn)
  PROVE  Inv' /\ EvidenceStep
<1> DEFINE new == Subscription(id, o, f, optIn)
<1>1. PICK place \in 1..Len(hook.chain) + 1 :
        hook' = [hook EXCEPT !.chain = InsertAt(@, place, new)]
  BY DEF Subscribe
<1>2. f \in methods[o] /\ hook # None /\ UNCHANGED <<live, sidecar, target, methods, pinned, frame>>
  BY DEF Subscribe
<1>3. new \in Subscriptions /\ new.owner = o /\ new.function = f
  BY SubscriptionType
<1> HIDE DEF new
<1>4. hook \in Hooks /\ hook.chain \in Seq(Subscriptions)
  BY <1>2 DEF Inv, TypeOK, Hooks
<1> DEFINE chain == InsertAt(hook.chain, place, new)
<1>5. /\ chain \in Seq(Subscriptions)
      /\ \A p \in DOMAIN chain :
           chain[p] = new \/ \E q \in DOMAIN hook.chain : chain[p] = hook.chain[q]
  BY <1>3, <1>4, Inserted
<1>6. hook' = [hook EXCEPT !.chain = chain]
  BY <1>1
<1> HIDE DEF chain
<1>7. hook' \in Hooks /\ hook'.chain = chain /\ hook'.optIn = hook.optIn
  BY <1>4, <1>5, <1>6 DEF Hooks
<1>8. TypeOK'
  BY <1>2, <1>7 DEF Inv, TypeOK
<1>9. TargetsConsistent' /\ HoldersKnown' /\ EvidenceStep
  BY <1>2, <1>3, <1>5, <1>7, ChainGrows DEF Inv
<1>10. hook' # None
  BY <1>7, OwnersAssumption
<1> QED
  BY <1>2, <1>7, <1>8, <1>9, <1>10, FramesStay DEF Inv

(* A hook that is removed is still a hook.                                 *)
LEMMA ChainReplaced ==
  ASSUME NEW h \in Hooks, NEW chain \in Seq(Subscriptions), NEW on \in BOOLEAN
  PROVE  /\ [h EXCEPT !.installed = on, !.chain = chain] \in Hooks
         /\ [h EXCEPT !.installed = on, !.chain = chain].chain = chain
         /\ [h EXCEPT !.installed = on, !.chain = chain].optIn = h.optIn
BY DEF Hooks

(* RemoveHook.                                                             *)
LEMMA RemovedHook ==
  ASSUME hook \in Hooks
  PROVE  Removed \in Hooks /\ Removed.chain = <<>> /\ Removed.optIn = hook.optIn
<1> DEFINE none == <<>>
           off == FALSE
<1>1. none \in Seq(Subscriptions) /\ none = <<>> /\ off \in BOOLEAN
  OBVIOUS
<1>2. Removed = [hook EXCEPT !.installed = off, !.chain = none]
  BY DEF Removed
<1> HIDE DEF none, off
<1> DEFINE h == [hook EXCEPT !.installed = off, !.chain = none]
<1>3. h \in Hooks /\ h.chain = none /\ h.optIn = hook.optIn
  BY ONLY hook \in Hooks, <1>1, ChainReplaced, ZenonT(30)
<1> QED
  BY <1>1, <1>2, <1>3

(* dartplant_remove_listener.                                              *)
LEMMA UnsubscribeStep ==
  ASSUME Inv, NEW id \in Listeners, Unsubscribe(id)
  PROVE  Inv' /\ EvidenceStep
<1>1. hook # None /\ hook \in Hooks /\ hook.chain \in Seq(Subscriptions)
  BY DEF Unsubscribe, Inv, TypeOK, Hooks
<1>2. PICK place \in DOMAIN hook.chain :
        LET rest == RemoveAt(hook.chain, place) IN
        /\ hook' = IF rest = <<>> THEN Removed ELSE [hook EXCEPT !.chain = rest]
        /\ target' = [o \in Owners |->
             IF Kept(o) \/ \E l \in Range(rest) : l.owner = o THEN target[o] ELSE None]
  BY DEF Unsubscribe
<1> DEFINE rest == RemoveAt(hook.chain, place)
<1>3. /\ rest \in Seq(Subscriptions)
      /\ \A p \in DOMAIN rest : \E q \in DOMAIN hook.chain : rest[p] = hook.chain[q]
  BY <1>1, Taken
<1>4. /\ hook' = IF rest = <<>> THEN Removed ELSE [hook EXCEPT !.chain = rest]
      /\ target' = [o \in Owners |->
           IF Kept(o) \/ \E l \in Range(rest) : l.owner = o THEN target[o] ELSE None]
      /\ UNCHANGED <<live, sidecar, methods, pinned, frame>>
  BY <1>2 DEF Unsubscribe
<1> HIDE DEF rest
<1>5. hook' \in Hooks /\ hook'.chain = rest /\ hook'.optIn = hook.optIn /\ hook' # None
  <2>1. CASE rest = <<>>
    BY <1>1, <1>4, <2>1, RemovedHook, OwnersAssumption
  <2>2. CASE rest # <<>>
    <3>1. hook' = [hook EXCEPT !.chain = rest]
      BY <1>4, <2>2
    <3> DEFINE h == [hook EXCEPT !.chain = rest]
    <3>2. h \in Hooks /\ h.chain = rest /\ h.optIn = hook.optIn
      BY <1>1, <1>3 DEF Hooks
    <3> QED
      BY <3>1, <3>2, OwnersAssumption
  <2> QED
    BY <2>1, <2>2
<1>6. TypeOK'
  BY <1>4, <1>5 DEF Inv, TypeOK
<1>7. \A o \in Owners : target'[o] \in {target[o], None} /\ (Kept(o) => target'[o] = target[o])
  BY <1>4
<1>8. ASSUME NEW p \in DOMAIN hook'.chain
      PROVE  \E q \in DOMAIN hook.chain :
               /\ hook'.chain[p] = hook.chain[q]
               /\ target'[hook.chain[q].owner] = target[hook.chain[q].owner]
  <2>1. PICK q \in DOMAIN hook.chain : rest[p] = hook.chain[q]
    BY <1>3, <1>5, <1>8
  <2>2. rest[p] \in Range(rest) /\ hook.chain[q].owner \in Owners
    BY <1>1, <1>5, <1>8, ChainListener DEF Inv, Range
  <2> QED
    BY <1>4, <1>5, <2>1, <2>2
<1>9. TargetsConsistent' /\ HoldersKnown' /\ EvidenceStep
  <2>1. \A o \in Owners : frame'[o] # None =>
          /\ frame[o] # None /\ target'[o] = target[o]
          /\ \A p \in DOMAIN frame'[o].entered :
               p \in DOMAIN frame[o].entered /\ frame'[o].entered[p] = frame[o].entered[p]
    BY <1>4, <1>7 DEF Kept
  <2>2. \A o \in Owners :
          methods'[o] \subseteq methods[o] /\ (methods'[o] # {} => target'[o] = target[o])
    BY <1>4, <1>7 DEF Kept
  <2> QED
    BY <1>1, <1>7, <1>8, <2>1, <2>2, NothingLearnt DEF Inv
<1> QED
  BY <1>4, <1>5, <1>6, <1>9, FramesStay DEF Inv

(* FinishUnhook.                                                           *)
LEMMA FinishStep ==
  ASSUME Inv, Finish
  PROVE  Inv' /\ EvidenceStep
<1>1. /\ \A o \in Owners : frame[o] = None
      /\ hook' = None
      /\ UNCHANGED <<live, sidecar, target, methods, pinned, frame>>
  BY DEF Finish
<1>2. TypeOK'
  BY <1>1 DEF Inv, TypeOK
<1>3. TargetsConsistent' /\ HoldersKnown' /\ EvidenceStep
  BY <1>1, NothingLearnt DEF Inv
<1> QED
  BY <1>1, <1>2, <1>3, FramesStay DEF Inv

-----------------------------------------------------------------------------
(* Steps of the dispatcher                                                 *)

(* The listeners of the chain that a frame enters: those of its owner that *)
(* have the layout of the first.                                           *)
LEMMA BoundListeners ==
  ASSUME Inv, NEW o \in Owners, hook # None, NEW at \in InOrder(Bound(o)),
         NEW bound, bound = [n \in DOMAIN at |-> hook.chain[at[n]]]
  PROVE  /\ bound \in Seq(Subscriptions)
         /\ \A p \in DOMAIN bound :
              /\ bound[p].owner = o
              /\ Known(o, bound[p].function)
              /\ bound[p].layout = bound[1].layout
<1> DEFINE n == Cardinality(Bound(o))
<1>1. hook.chain \in Seq(Subscriptions) /\ Len(hook.chain) \in Nat
  BY DEF Inv, TypeOK, Hooks
<1>2. Bound(o) \in SUBSET (1..Len(hook.chain))
  BY <1>1 DEF Bound
<1>3. IsFiniteSet(Bound(o)) /\ n \in Nat
  <2>1. IsFiniteSet(1..Len(hook.chain))
    BY <1>1, FS_Interval
  <2>2. IsFiniteSet(Bound(o))
    BY <1>2, <2>1, FS_Subset
  <2> QED
    BY <2>2, FS_CardinalityType
<1> HIDE DEF n
<1>4. at \in [1..n -> Bound(o)]
  BY DEF InOrder, n
<1>5. \A p \in Bound(o) : /\ p \in DOMAIN hook.chain
                          /\ hook.chain[p] \in Subscriptions
                          /\ hook.chain[p].owner = o
                          /\ Known(o, hook.chain[p].function)
  BY <1>1 DEF Bound, Inv, HoldersKnown
<1>6. \A p, q \in Bound(o) : hook.chain[p].layout = hook.chain[q].layout
  <2> SUFFICES ASSUME NEW p \in Bound(o), NEW q \in Bound(o)
               PROVE  hook.chain[p].layout = hook.chain[q].layout
    OBVIOUS
  <2> DEFINE mine == {i \in DOMAIN hook.chain : hook.chain[i].owner = o}
  <2>1. PICK a \in mine : (\A i \in mine : a <= i) /\ hook.chain[p].layout = hook.chain[a].layout
    BY DEF Bound
  <2>2. PICK b \in mine : (\A i \in mine : b <= i) /\ hook.chain[q].layout = hook.chain[b].layout
    BY DEF Bound
  <2>3. a \in Nat /\ b \in Nat /\ a <= b /\ b <= a
    BY <1>1, <2>1, <2>2
  <2>4. a = b
    BY <2>3
  <2> QED
    BY <2>1, <2>2, <2>4
<1>7. bound \in [1..n -> Subscriptions] /\ \A p \in 1..n : bound[p] = hook.chain[at[p]]
  BY <1>4, <1>5
<1>8. bound \in Seq(Subscriptions)
  BY <1>3, <1>7
<1>9. ASSUME NEW p \in 1..n
      PROVE  /\ bound[p].owner = o
             /\ Known(o, bound[p].function)
             /\ bound[p].layout = bound[1].layout
  <2>1. 1 \in 1..n
    BY <1>3, <1>9
  <2> QED
    BY <1>4, <1>5, <1>6, <1>7, <2>1
<1> QED
  BY <1>7, <1>8, <1>9

(* dartplant_arm64_dispatch_enter.                                         *)
LEMMA EnterStep ==
  ASSUME Inv, NEW o \in Owners, Enter(o)
  PROVE  Inv' /\ EvidenceStep
<1>1. /\ frame[o] = None /\ hook # None
      /\ UNCHANGED <<live, sidecar, target, methods, pinned, hook>>
  BY DEF Enter
<1>2. PICK at \in InOrder(Bound(o)) :
       LET bound     == [n \in DOMAIN at |-> hook.chain[at[n]]]
           ambiguous == bound # <<>> /\ KnownToFrame(o, bound[1])
           late      == ambiguous /\ ~hook.optIn
           entered   == IF late THEN <<>> ELSE bound
       IN  frame' = [frame EXCEPT ![o] =
             [step |-> IF entered = <<>> THEN "body" ELSE "selecting", entered |-> entered,
              at |-> 1, layout |-> entered # <<>> /\ bound[1].layout /\ ~ambiguous,
              told |-> Nothing]]
  BY DEF Enter
<1> DEFINE bound     == [n \in DOMAIN at |-> hook.chain[at[n]]]
           ambiguous == bound # <<>> /\ KnownToFrame(o, bound[1])
           late      == ambiguous /\ ~hook.optIn
           entered   == IF late THEN <<>> ELSE bound
           step      == IF entered = <<>> THEN "body" ELSE "selecting"
           layout    == entered # <<>> /\ bound[1].layout /\ ~ambiguous
           new       == [step |-> step, entered |-> entered, at |-> 1, layout |-> layout,
                         told |-> Nothing]
<1>3. frame' = [frame EXCEPT ![o] = new]
  BY <1>2
<1>4. /\ bound \in Seq(Subscriptions)
      /\ \A p \in DOMAIN bound : /\ bound[p].owner = o
                                 /\ Known(o, bound[p].function)
                                 /\ bound[p].layout = bound[1].layout
  BY <1>1, BoundListeners
<1>5. layout \in BOOLEAN /\ step \in Steps /\ (layout => bound[1].layout)
      /\ step \in {"body", "selecting"} /\ (step = "selecting" => entered # <<>>)
      /\ entered \in {<<>>, bound}
  BY DEF Steps
<1>6. Nothing \in Answers
  BY DEF Nothing, Answers
<1> HIDE DEF bound, entered, layout, step
<1>7. /\ entered \in Seq(Subscriptions)
      /\ \A p \in DOMAIN entered : /\ entered[p].owner = o
                                   /\ Known(o, entered[p].function)
                                   /\ layout => entered[p].layout
  <2>1. CASE entered = <<>>
    BY <2>1
  <2>2. CASE entered = bound
    BY <1>4, <1>5, <2>2
  <2> QED
    BY <1>5, <2>1, <2>2
<1>8. new \in Frames
  BY <1>5, <1>6, <1>7 DEF Frames
<1>9. FrameWhole(new)
  <2>1. step = "selecting" => 1 \in 1..Len(entered)
    <3>1. entered # <<>> => Len(entered) \in Nat \ {0}
      BY <1>7
    <3> QED
      BY <1>5, <3>1
  <2> QED
    BY <1>5, <1>7, <2>1 DEF FrameWhole
<1>10. new.step \in {"body", "selecting"} /\ new.entered = entered
  BY <1>5
<1> HIDE DEF new
<1>11. frame'[o] = new /\ \A q \in Owners \ {o} : frame'[q] = frame[q]
  BY <1>3 DEF Inv, TypeOK
<1>12. TypeOK'
  BY <1>1, <1>3, <1>8 DEF Inv, TypeOK
<1>13. TargetsConsistent' /\ EvidenceStep
  <2>1. \A q \in Owners : target[q] # None => Grows(target[q], target[q])
    BY AliasesCounted DEF Inv, TypeOK, Grows, Targets
  <2> QED
    BY <1>1, <2>1 DEF Inv, TargetsConsistent, EvidenceStep
<1>14. HoldersKnown'
  <2>1. ASSUME NEW q \in Owners, frame'[q] # None, NEW p \in DOMAIN frame'[q].entered
        PROVE  frame'[q].entered[p].owner = q /\ Known(q, frame[q].entered[p].function)'
    <3>1. CASE q = o
      BY <1>1, <1>7, <1>10, <1>11, <2>1, <3>1 DEF Known
    <3>2. CASE q # o
      BY <1>1, <1>11, <2>1, <3>2 DEF Inv, HoldersKnown, Known
    <3> QED
      BY <3>1, <3>2
  <2> QED
    BY <1>1, <2>1 DEF Inv, HoldersKnown, Known
<1>15. FramesWhole'
  BY <1>1, <1>9, <1>11 DEF Inv, FramesWhole, FrameWhole
<1>16. ToldOnlyWhatIsKnown'
  BY <1>1, <1>10, <1>11 DEF Inv, ToldOnlyWhatIsKnown, InCallback
<1> QED
  BY <1>12, <1>13, <1>14, <1>15, <1>16 DEF Inv

(* What the invariant says of a frame.                                     *)
LEMMA FrameFacts ==
  ASSUME Inv, NEW o \in Owners, frame[o] # None
  PROVE  /\ frame[o] \in Frames /\ FrameWhole(frame[o])
         /\ frame[o].entered \in Seq(Subscriptions) /\ frame[o].at \in Nat
         /\ hook # None /\ hook \in Hooks
         /\ \A p \in DOMAIN frame[o].entered :
              frame[o].entered[p].owner = o /\ Known(o, frame[o].entered[p].function)
<1>1. frame[o] \in Frames
  BY DEF Inv, TypeOK
<1> QED
  BY <1>1 DEF Inv, TypeOK, Frames, FramesWhole, HoldersKnown

(* The first listeners of a frame.                                         *)
LEMMA Prefix ==
  ASSUME NEW s \in Seq(Subscriptions), NEW n \in 0..Len(s)
  PROVE  /\ SubSeq(s, 1, n) \in Seq(Subscriptions)
         /\ Len(SubSeq(s, 1, n)) = n
         /\ \A p \in DOMAIN SubSeq(s, 1, n) : p \in DOMAIN s /\ SubSeq(s, 1, n)[p] = s[p]
OBVIOUS

(* A frame that goes on to another step or listener and tells nothing: it  *)
(* has the listeners it had, or the first of them, and no other layout.    *)
LEMMA FrameGoesOn ==
  ASSUME Inv, NEW o \in Owners, frame[o] # None,
         NEW s \in Steps \ {"enter", "leave", "caught"},
         NEW n \in 0..Len(frame[o].entered), NEW e,
         \/ e = frame[o].entered /\ n = Len(e)
         \/ e = SubSeq(frame[o].entered, 1, n),
         NEW a \in Nat, NEW l \in BOOLEAN, l => frame[o].layout, NEW t \in Answers,
         s = "selecting" => a \in 1..n,
         s \in {"leaving", "unwinding"} => a \in 0..n,
         Move(o, [frame[o] EXCEPT !.step = s, !.entered = e, !.at = a, !.layout = l, !.told = t])
  PROVE  Inv' /\ EvidenceStep
<1> DEFINE new ==
      [frame[o] EXCEPT !.step = s, !.entered = e, !.at = a, !.layout = l, !.told = t]
<1>1. frame[o] \in Frames /\ frame[o].entered \in Seq(Subscriptions) /\ FrameWhole(frame[o])
  BY FrameFacts
<1>2. /\ e \in Seq(Subscriptions)
      /\ Len(e) = n
      /\ \A p \in DOMAIN e : p \in DOMAIN frame[o].entered /\ e[p] = frame[o].entered[p]
  <2> DEFINE x == frame[o].entered
  <2>1. /\ x \in Seq(Subscriptions) /\ n \in 0..Len(x)
        /\ \/ e = x /\ n = Len(x)
           \/ e = SubSeq(x, 1, n)
    BY <1>1
  <2> HIDE DEF x
  <2>2. CASE e = x /\ n = Len(x)
    BY <2>1, <2>2 DEF x
  <2>3. CASE e = SubSeq(x, 1, n)
    BY <2>1, <2>3, Prefix DEF x
  <2> QED
    BY <2>1, <2>2, <2>3
<1>3. /\ new \in Frames
      /\ new.step = s /\ new.entered = e /\ new.at = a /\ new.layout = l /\ new.told = t
  <2>1. s \in Steps
    OBVIOUS
  <2> DEFINE fr == frame[o]
  <2>2. fr \in Frames
    BY <1>1
  <2>3. new = [fr EXCEPT !.step = s, !.entered = e, !.at = a, !.layout = l, !.told = t]
    OBVIOUS
  <2> HIDE DEF fr, new
  <2> QED
    BY <1>2, <2>1, <2>2, <2>3 DEF Frames
<1>4. Move(o, new)
  OBVIOUS
<1> HIDE DEF new
<1>5. FrameWhole(new)
  BY <1>1, <1>2, <1>3 DEF FrameWhole
<1> QED
  BY <1>2, <1>3, <1>4, <1>5, FrameMoves

(* What a callback is told when it is selected: whether it is ambiguous    *)
(* is what is known of the target of its owner.                            *)
LEMMA SelectionKnows ==
  ASSUME Inv, NEW o \in Owners, frame[o] # None, frame[o].at \in 1..Len(frame[o].entered),
         NEW answer, answer = Told(Selected(o), Selection(o).ambiguous, Selection(o).layout)
  PROVE  /\ Selection(o).ambiguous \in BOOLEAN /\ Selection(o).layout \in BOOLEAN
         /\ Selection(o).layout => frame[o].layout
         /\ answer \in Answers
         /\ answer.shared = Selection(o).ambiguous
         /\ answer.logical = ~Selection(o).ambiguous
         /\ answer.typed = Selection(o).layout
         /\ answer.listener = Selected(o)
         /\ answer.shared => ~answer.logical /\ ~answer.typed
         /\ answer.typed => answer.logical /\ answer.listener.layout
<1> DEFINE ambiguous == Shared(target[o])
           layout == frame[o].layout /\ ~ambiguous
           l == Selected(o)
<1>1. /\ frame[o] \in Frames /\ frame[o].entered \in Seq(Subscriptions) /\ FrameWhole(frame[o])
      /\ \A p \in DOMAIN frame[o].entered : frame[o].entered[p].owner = o
  BY FrameFacts
<1>2. 1 \in DOMAIN frame[o].entered /\ frame[o].at \in DOMAIN frame[o].entered
  BY <1>1
<1>3. /\ l \in Subscriptions /\ l.owner = o /\ (frame[o].layout => l.layout)
      /\ frame[o].entered[1].owner = o
  BY <1>1, <1>2 DEF Selected, FrameWhole
<1>4. Selection(o).ambiguous = ambiguous /\ Selection(o).layout = layout
  BY <1>3 DEF Selection, KnownToFrame
<1>5. ambiguous \in BOOLEAN
  BY DEF Shared
<1>6. layout \in BOOLEAN
  BY <1>1 DEF Frames
<1>7. answer = [listener |-> l, logical |-> ~ambiguous, typed |-> layout, shared |-> ambiguous]
  BY <1>3, <1>4 DEF Told
<1>8. /\ layout => frame[o].layout
      /\ layout => l.layout
      /\ layout => ~ambiguous
  BY <1>3
<1> DEFINE no == ~ambiguous
<1>9. no \in BOOLEAN /\ no = ~ambiguous
  BY <1>5
<1>10. answer = [listener |-> l, logical |-> no, typed |-> layout, shared |-> ambiguous]
  BY <1>7
<1> HIDE DEF no, ambiguous, layout, l
<1>11. answer \in Answers
  BY <1>3, <1>5, <1>6, <1>9, <1>10 DEF Answers
<1>12. /\ answer.listener = l /\ answer.logical = no
       /\ answer.typed = layout /\ answer.shared = ambiguous
  BY <1>10
<1> QED
  BY <1>4, <1>5, <1>6, <1>8, <1>9, <1>11, <1>12 DEF l

(* The dispatcher calls a listener with what it selected.                  *)
LEMMA CallbackStarts ==
  ASSUME Inv, NEW o \in Owners, frame[o] # None, frame[o].at \in 1..Len(frame[o].entered),
         NEW s \in {"enter", "leave", "caught"},
         s = "enter" => ~StopsHere(o),
         Move(o, [frame[o] EXCEPT !.step = s, !.layout = Selection(o).layout,
                    !.told = Told(Selected(o), Selection(o).ambiguous, Selection(o).layout)])
  PROVE  Inv' /\ EvidenceStep
<1> DEFINE l == Selection(o).layout
           t == Told(Selected(o), Selection(o).ambiguous, Selection(o).layout)
           new == [frame[o] EXCEPT !.step = s, !.layout = l, !.told = t]
<1>1. Move(o, new)
  OBVIOUS
<1>2. /\ t \in Answers /\ l \in BOOLEAN /\ Selection(o).ambiguous \in BOOLEAN
      /\ l => frame[o].layout
      /\ t.shared = Selection(o).ambiguous
      /\ t.shared => ~t.logical /\ ~t.typed
      /\ t.typed => t.logical /\ t.listener.layout
  BY SelectionKnows
<1>3. s = "enter" /\ Selection(o).ambiguous => hook.optIn
  BY DEF StopsHere
<1>4. frame[o] \in Frames /\ FrameWhole(frame[o]) /\ s \in Steps
  BY FrameFacts DEF Steps
<1> HIDE DEF l, t
<1>5. /\ new \in Frames
      /\ new.step = s /\ new.entered = frame[o].entered /\ new.at = frame[o].at
      /\ new.layout = l /\ new.told = t
  BY <1>2, <1>4 DEF Frames
<1> HIDE DEF new
<1>6. FrameWhole(new)
  BY <1>2, <1>4, <1>5 DEF FrameWhole
<1>7. ToldRight(new, hook)
  BY <1>2, <1>3, <1>5 DEF ToldRight
<1> QED
  BY <1>1, <1>5, <1>6, <1>7, FrameMoves

(* The enter loop.                                                         *)
LEMMA SelectEnterStep ==
  ASSUME Inv, NEW o \in Owners, SelectEnter(o)
  PROVE  Inv' /\ EvidenceStep
<1> DEFINE l == Selection(o).layout
<1>1. frame[o] # None /\ frame[o].step = "selecting"
  BY DEF SelectEnter
<1>2. /\ frame[o] \in Frames /\ frame[o].entered \in Seq(Subscriptions)
      /\ frame[o].at \in 1..Len(frame[o].entered)
  BY <1>1, FrameFacts DEF FrameWhole
<1>3. CASE StopsHere(o)
  <2> DEFINE n == frame[o].at - 1
             e == SubSeq(frame[o].entered, 1, n)
  <2>1. Move(o, [frame[o] EXCEPT !.step = "body", !.layout = l, !.entered = e])
    BY <1>3 DEF SelectEnter
  <2>2. n \in 0..Len(frame[o].entered) /\ frame[o].at \in Nat /\ frame[o].told \in Answers
    BY <1>2 DEF Frames
  <2>3. l \in BOOLEAN /\ (l => frame[o].layout)
    <3>1. PICK t : t = Told(Selected(o), Selection(o).ambiguous, Selection(o).layout)
      OBVIOUS
    <3> QED
      BY <1>1, <1>2, <3>1, SelectionKnows
  <2> HIDE DEF l
  <2>4. [frame[o] EXCEPT !.step = "body", !.layout = l, !.entered = e] =
          [frame[o] EXCEPT !.step = "body", !.entered = e, !.at = frame[o].at, !.layout = l,
                           !.told = frame[o].told]
    BY <1>2 DEF Frames
  <2>5. "body" \in Steps \ {"enter", "leave", "caught"}
    BY DEF Steps
  <2> DEFINE s == "body"
             a == frame[o].at
             t == frame[o].told
  <2>6. /\ s \in Steps \ {"enter", "leave", "caught"}
        /\ s # "selecting" /\ s \notin {"leaving", "unwinding"}
        /\ Move(o, [frame[o] EXCEPT !.step = s, !.entered = e, !.at = a, !.layout = l, !.told = t])
    BY <2>1, <2>4, <2>5
  <2> HIDE DEF s, a, t, e, n
  <2>7. e = SubSeq(frame[o].entered, 1, n) /\ a \in Nat /\ t \in Answers
    BY <2>2 DEF a, t, e
  <2> QED
    BY <1>1, <2>2, <2>3, <2>6, <2>7, FrameGoesOn
<1>4. CASE ~StopsHere(o)
  <2> DEFINE s == "enter"
  <2>1. s \in {"enter", "leave", "caught"}
    OBVIOUS
  <2>2. Move(o, [frame[o] EXCEPT !.step = s, !.layout = Selection(o).layout,
                   !.told = Told(Selected(o), Selection(o).ambiguous, Selection(o).layout)])
    BY <1>4 DEF SelectEnter
  <2> HIDE DEF s
  <2> QED
    BY <1>1, <1>2, <1>4, <2>1, <2>2, CallbackStarts
<1> QED
  BY <1>3, <1>4

(* on_enter returns.                                                       *)
LEMMA EnterReturnsStep ==
  ASSUME Inv, NEW o \in Owners, NEW skip \in BOOLEAN, EnterReturns(o, skip)
  PROVE  Inv' /\ EvidenceStep
<1> DEFINE fr == [frame[o] EXCEPT !.told = Nothing]
           x == frame[o].entered
           a == frame[o].at
           l == frame[o].layout
           t == Nothing
<1>1. frame[o] # None /\ frame[o].step = "enter"
  BY DEF EnterReturns
<1>2. frame[o] \in Frames /\ x \in Seq(Subscriptions) /\ a \in 1..Len(x) /\ l \in BOOLEAN
  BY <1>1, FrameFacts DEF FrameWhole, Frames
<1>3. t \in Answers
  BY DEF Nothing, Answers
<1>4. fr \in Frames /\ fr.at = a /\ fr.entered = x
  BY <1>2, <1>3 DEF Frames
<1>5. CASE skip
  <2> DEFINE s == "leaving"
             e == SubSeq(x, 1, a)
  <2>1. Move(o, [fr EXCEPT !.step = s, !.entered = e])
    BY <1>4, <1>5 DEF EnterReturns
  <2>2. [fr EXCEPT !.step = s, !.entered = e] =
          [frame[o] EXCEPT !.step = s, !.entered = e, !.at = a, !.layout = l, !.told = t]
    BY <1>2 DEF Frames
  <2>3. s \in Steps \ {"enter", "leave", "caught"} /\ s # "selecting"
    BY DEF Steps
  <2>4. a \in 0..Len(x) /\ a \in 0..a /\ a \in Nat
    BY <1>2
  <2>5. Move(o, [frame[o] EXCEPT !.step = s, !.entered = e, !.at = a, !.layout = l, !.told = t])
    BY <2>1, <2>2
  <2>6. e = SubSeq(x, 1, a)
    OBVIOUS
  <2> HIDE DEF s, e, a, l, t
  <2>7. /\ a \in 0..Len(frame[o].entered)
        /\ e = SubSeq(frame[o].entered, 1, a)
        /\ l => frame[o].layout
        /\ l \in BOOLEAN /\ t \in Answers
    BY <1>2, <1>3, <2>4, <2>6 DEF l, x
  <2> QED
    BY ONLY Inv, o \in Owners, <1>1, <2>3, <2>4, <2>5, <2>7, FrameGoesOn
<1>6. CASE ~skip /\ a = Len(x)
  <2> DEFINE s == "body"
             n == Len(x)
  <2>1. Move(o, [fr EXCEPT !.step = s])
    BY <1>4, <1>6 DEF EnterReturns
  <2>2. [fr EXCEPT !.step = s] =
          [frame[o] EXCEPT !.step = s, !.entered = x, !.at = a, !.layout = l, !.told = t]
    BY <1>2 DEF Frames
  <2>3. s \in Steps \ {"enter", "leave", "caught"} /\ s # "selecting"
        /\ s \notin {"leaving", "unwinding"}
    BY DEF Steps
  <2>4. n \in 0..Len(x) /\ a \in Nat
    BY <1>2
  <2>5. Move(o, [frame[o] EXCEPT !.step = s, !.entered = x, !.at = a, !.layout = l, !.told = t])
    BY <2>1, <2>2
  <2>6. x = frame[o].entered /\ n = Len(x)
    OBVIOUS
  <2> HIDE DEF s, n, x, a, l, t
  <2>7. /\ n \in 0..Len(frame[o].entered)
        /\ x = frame[o].entered /\ n = Len(x)
        /\ l => frame[o].layout
        /\ l \in BOOLEAN /\ t \in Answers /\ s # "selecting"
    BY <1>2, <1>3, <2>3, <2>4, <2>6 DEF l
  <2> QED
    BY ONLY Inv, o \in Owners, <1>1, <2>3, <2>4, <2>5, <2>7, FrameGoesOn
<1>7. CASE ~skip /\ a # Len(x)
  <2> DEFINE s == "selecting"
             n == Len(x)
             b == a + 1
  <2>1. Move(o, [fr EXCEPT !.step = s, !.at = b])
    BY <1>4, <1>7 DEF EnterReturns
  <2>2. [fr EXCEPT !.step = s, !.at = b] =
          [frame[o] EXCEPT !.step = s, !.entered = x, !.at = b, !.layout = l, !.told = t]
    BY <1>2 DEF Frames
  <2>3. s \in Steps \ {"enter", "leave", "caught"} /\ s \notin {"leaving", "unwinding"}
    BY DEF Steps
  <2>4. n \in 0..Len(x) /\ b \in 1..n /\ b \in Nat
    BY <1>2, <1>7
  <2>5. Move(o, [frame[o] EXCEPT !.step = s, !.entered = x, !.at = b, !.layout = l, !.told = t])
    BY <2>1, <2>2
  <2>6. x = frame[o].entered /\ n = Len(x)
    OBVIOUS
  <2> HIDE DEF s, n, b, x, a, l, t
  <2>7. /\ n \in 0..Len(frame[o].entered)
        /\ s = "selecting" => b \in 1..n
        /\ s \in {"leaving", "unwinding"} => b \in 0..n
        /\ l => frame[o].layout
        /\ l \in BOOLEAN /\ t \in Answers
    BY <1>2, <1>3, <2>3, <2>4, <2>6 DEF l
  <2> QED
    BY ONLY Inv, o \in Owners, <1>1, <2>3, <2>4, <2>5, <2>6, <2>7, FrameGoesOn, ZenonT(30)
<1> QED
  BY <1>5, <1>6, <1>7

(* The original returns or unwinds.                                        *)
LEMMA BodyEndsStep ==
  ASSUME Inv, NEW o \in Owners, NEW how \in {"leaving", "unwinding"}, BodyEnds(o, how)
  PROVE  Inv' /\ EvidenceStep
<1> DEFINE x == frame[o].entered
           n == Len(x)
           l == frame[o].layout
           t == frame[o].told
<1>1. frame[o] # None
  BY DEF BodyEnds
<1>2. frame[o] \in Frames /\ x \in Seq(Subscriptions) /\ l \in BOOLEAN /\ t \in Answers
  BY <1>1, FrameFacts DEF Frames
<1>3. Move(o, [frame[o] EXCEPT !.step = how, !.at = n])
  BY DEF BodyEnds
<1>4. [frame[o] EXCEPT !.step = how, !.at = n] =
        [frame[o] EXCEPT !.step = how, !.entered = x, !.at = n, !.layout = l, !.told = t]
  BY <1>2 DEF Frames
<1>5. how \in Steps \ {"enter", "leave", "caught"} /\ how # "selecting"
  BY DEF Steps
<1>6. n \in 0..Len(x) /\ n \in 0..n /\ n \in Nat
  BY <1>2
<1>7. Move(o, [frame[o] EXCEPT !.step = how, !.entered = x, !.at = n, !.layout = l, !.told = t])
  BY <1>3, <1>4
<1>8. x = frame[o].entered /\ n = Len(x)
  OBVIOUS
<1> HIDE DEF x, n, l, t
<1> QED
  BY <1>1, <1>2, <1>5, <1>6, <1>7, <1>8, FrameGoesOn DEF l

(* A callback after the body goes back to the listener before.             *)
LEMMA BackStep ==
  ASSUME Inv, NEW o \in Owners, frame[o] # None, frame[o].at \in 1..Len(frame[o].entered),
         NEW s \in {"leaving", "unwinding"}, NEW t \in Answers,
         Move(o, [frame[o] EXCEPT !.step = s, !.at = @ - 1, !.told = t])
  PROVE  Inv' /\ EvidenceStep
<1> DEFINE x == frame[o].entered
           n == Len(x)
           a == frame[o].at - 1
           l == frame[o].layout
<1>1. frame[o] \in Frames /\ x \in Seq(Subscriptions) /\ l \in BOOLEAN
  BY FrameFacts DEF Frames
<1>2. [frame[o] EXCEPT !.step = s, !.at = @ - 1, !.told = t] =
        [frame[o] EXCEPT !.step = s, !.entered = x, !.at = a, !.layout = l, !.told = t]
  BY <1>1 DEF Frames
<1>3. s \in Steps \ {"enter", "leave", "caught"} /\ s # "selecting"
  BY DEF Steps
<1>4. n \in 0..Len(x) /\ a \in 0..n /\ a \in Nat
  BY <1>1
<1>5. Move(o, [frame[o] EXCEPT !.step = s, !.entered = x, !.at = a, !.layout = l, !.told = t])
  BY <1>2
<1>6. x = frame[o].entered /\ n = Len(x)
  OBVIOUS
<1> HIDE DEF x, n, a, l
<1> QED
  BY <1>1, <1>3, <1>4, <1>5, <1>6, FrameGoesOn DEF l

(* A callback after the body returns.                                      *)
LEMMA CallbackReturnsStep ==
  ASSUME Inv, NEW o \in Owners, CallbackReturns(o)
  PROVE  Inv' /\ EvidenceStep
<1> DEFINE s == IF frame[o].step = "leave" THEN "leaving" ELSE "unwinding"
           t == Nothing
<1>1. /\ frame[o] # None /\ frame[o].step \in {"leave", "caught"}
      /\ Move(o, [frame[o] EXCEPT !.step = IF @ = "leave" THEN "leaving" ELSE "unwinding",
                                  !.at = @ - 1, !.told = Nothing])
  BY DEF CallbackReturns
<1>2. frame[o].at \in 1..Len(frame[o].entered) /\ frame[o] \in Frames
  BY <1>1, FrameFacts DEF FrameWhole
<1>3. Move(o, [frame[o] EXCEPT !.step = s, !.at = @ - 1, !.told = t])
  BY <1>1
<1>4. s \in {"leaving", "unwinding"} /\ t \in Answers
  BY DEF Nothing, Answers
<1> HIDE DEF s, t
<1> QED
  BY <1>1, <1>2, <1>3, <1>4, BackStep

(* A frame goes, and the target with it when nothing else holds it.        *)
LEMMA DropStep ==
  ASSUME Inv, NEW o \in Owners, frame[o] # None, Drop(o)
  PROVE  Inv' /\ EvidenceStep
<1>1. /\ frame' = [frame EXCEPT ![o] = None]
      /\ target' = [target EXCEPT ![o] =
           IF methods[o] # {} \/ o \in pinned \/ \E l \in Range(hook.chain) : l.owner = o
             THEN @ ELSE None]
      /\ UNCHANGED <<live, sidecar, methods, pinned, hook>>
  BY DEF Drop
<1>2. /\ frame'[o] = None
      /\ \A q \in Owners \ {o} : frame'[q] = frame[q] /\ target'[q] = target[q]
      /\ target'[o] \in {target[o], None}
      /\ methods[o] # {} \/ (\E l \in Range(hook.chain) : l.owner = o) => target'[o] = target[o]
  BY <1>1 DEF Inv, TypeOK
<1>3. TypeOK'
  BY <1>1 DEF Inv, TypeOK
<1>4. ASSUME hook # None, NEW p \in DOMAIN hook.chain
      PROVE  target'[hook.chain[p].owner] = target[hook.chain[p].owner]
  <2>1. hook.chain[p] \in Range(hook.chain) /\ hook.chain[p].owner \in Owners
    BY <1>4, ChainListener DEF Inv
  <2> QED
    BY <1>2, <2>1
<1>5. TargetsConsistent' /\ HoldersKnown' /\ EvidenceStep
  <2>1. \A q \in Owners : target'[q] \in {target[q], None}
    BY <1>2
  <2>2. \A q \in Owners :
          methods'[q] \subseteq methods[q] /\ (methods'[q] # {} => target'[q] = target[q])
    BY <1>1, <1>2
  <2>3. \A q \in Owners : frame'[q] # None =>
           /\ frame[q] # None /\ target'[q] = target[q]
           /\ \A p \in DOMAIN frame'[q].entered :
                p \in DOMAIN frame[q].entered /\ frame'[q].entered[p] = frame[q].entered[p]
    BY <1>2
  <2>4. hook' = hook
    BY <1>1
  <2> QED
    BY <1>4, <2>1, <2>2, <2>3, <2>4, NothingLearnt DEF Inv
<1>6. FramesWhole'
  BY <1>1, <1>2 DEF Inv, FramesWhole, FrameWhole
<1>7. ToldOnlyWhatIsKnown'
  BY <1>1, <1>2 DEF Inv, ToldOnlyWhatIsKnown, InCallback
<1> QED
  BY <1>3, <1>5, <1>6, <1>7 DEF Inv

(* The leave loop.                                                         *)
LEMMA SelectLeaveStep ==
  ASSUME Inv, NEW o \in Owners, SelectLeave(o)
  PROVE  Inv' /\ EvidenceStep
<1>1. frame[o] # None /\ frame[o].step = "leaving"
  BY DEF SelectLeave
<1>2. CASE frame[o].at = 0
  BY <1>1, <1>2, DropStep DEF SelectLeave
<1>3. CASE frame[o].at # 0
  <2> DEFINE s == "leave"
  <2>1. frame[o].at \in 1..Len(frame[o].entered)
    BY <1>1, <1>3, FrameFacts DEF FrameWhole
  <2>2. Move(o, [frame[o] EXCEPT !.step = s, !.layout = Selection(o).layout,
                   !.told = Told(Selected(o), Selection(o).ambiguous, Selection(o).layout)])
    BY <1>3 DEF SelectLeave
  <2>3. s \in {"enter", "leave", "caught"} /\ s # "enter"
    OBVIOUS
  <2> HIDE DEF s
  <2> QED
    BY <1>1, <2>1, <2>2, <2>3, CallbackStarts
<1> QED
  BY <1>2, <1>3

(* The unwind loop passes over the listeners that are gone.                *)
LEMMA SelectUnwindStep ==
  ASSUME Inv, NEW o \in Owners, SelectUnwind(o)
  PROVE  Inv' /\ EvidenceStep
<1>1. frame[o] # None /\ frame[o].step = "unwinding"
  BY DEF SelectUnwind
<1>2. CASE frame[o].at = 0
  BY <1>1, <1>2, DropStep DEF SelectUnwind
<1>3. ASSUME frame[o].at # 0
      PROVE  frame[o].at \in 1..Len(frame[o].entered)
  BY <1>1, <1>3, FrameFacts DEF FrameWhole
<1>4. CASE frame[o].at # 0 /\ Selected(o) \notin Range(hook.chain)
  <2> DEFINE s == "unwinding"
             t == frame[o].told
  <2>1. Move(o, [frame[o] EXCEPT !.at = @ - 1])
    BY <1>4 DEF SelectUnwind
  <2>2. frame[o] \in Frames /\ t \in Answers
    BY <1>1, FrameFacts DEF Frames
  <2>3. [frame[o] EXCEPT !.at = @ - 1] = [frame[o] EXCEPT !.step = s, !.at = @ - 1, !.told = t]
    BY <1>1, <2>2 DEF Frames
  <2>4. s \in {"leaving", "unwinding"}
    OBVIOUS
  <2>5. Move(o, [frame[o] EXCEPT !.step = s, !.at = @ - 1, !.told = t])
    BY <2>1, <2>3
  <2> HIDE DEF s, t
  <2> QED
    BY <1>1, <1>3, <1>4, <2>2, <2>4, <2>5, BackStep
<1>5. CASE frame[o].at # 0 /\ Selected(o) \in Range(hook.chain)
  <2> DEFINE s == "caught"
  <2>1. Move(o, [frame[o] EXCEPT !.step = s, !.layout = Selection(o).layout,
                   !.told = Told(Selected(o), Selection(o).ambiguous, Selection(o).layout)])
    BY <1>5 DEF SelectUnwind
  <2>2. s \in {"enter", "leave", "caught"} /\ s # "enter"
    OBVIOUS
  <2> HIDE DEF s
  <2> QED
    BY <1>1, <1>3, <1>5, <2>1, <2>2, CallbackStarts
<1> QED
  BY <1>2, <1>4, <1>5

(* dartplant_runtime_capture_live_vm from a callback: the target of the    *)
(* owner learns, and a hook that did not ask for shared code goes.         *)
LEMMA CaptureStep ==
  ASSUME Inv, NEW o \in Owners, NEW listed \in Listings[o], NEW seen \in listed,
         Capture(o, listed, seen)
  PROVE  Inv' /\ EvidenceStep
<1> DEFINE m == Merged(target[o], Cardinality(listed), "UNKNOWN")
           t == Aliased(m, seen)
           ends == Shared(t) /\ ~hook.optIn
<1>1. /\ InCallback(o)
      /\ live' = [live EXCEPT ![o] = listed]
      /\ target' = IF ends THEN [Forsaken EXCEPT ![o] = t] ELSE [target EXCEPT ![o] = t]
      /\ hook' = IF ends THEN Removed ELSE hook
      /\ UNCHANGED <<sidecar, methods, pinned, frame>>
  BY DEF Capture
<1>2. frame[o] # None /\ hook # None /\ hook \in Hooks /\ target[o] # None
  <2>1. frame[o] # None /\ frame[o].step \in {"enter", "leave", "caught"}
    BY <1>1 DEF InCallback
  <2>2. frame[o].at \in DOMAIN frame[o].entered
    BY <2>1, FrameFacts DEF FrameWhole
  <2> QED
    BY <2>1, <2>2, FrameFacts DEF Known
<1>3. listed \in SUBSET Functions /\ seen \in Functions /\ Cardinality(listed) \in Counts
  <2>1. listed \in SUBSET Functions /\ listed # {}
    BY OwnersAssumption
  <2> QED
    BY <2>1, AliasesCounted DEF Counts
<1>4. Consistent(t) /\ Grows(target[o], t)
  <2>1. Consistent(target[o])
    BY <1>2 DEF Inv, TargetsConsistent
  <2>2. Consistent(m) /\ Grows(target[o], m)
    <3> DEFINE n == Cardinality(listed)
               p == "UNKNOWN"
    <3>1. m = Merged(target[o], n, p) /\ n \in Counts /\ p \in Proofs
      BY <1>3 DEF Proofs
    <3> HIDE DEF n, p, m
    <3> QED
      BY <2>1, <3>1, MergedConsistent
  <2> HIDE DEF m
  <2>3. Consistent(t) /\ Grows(m, t)
    BY <1>3, <2>2, AliasedConsistent
  <2>4. target[o] \in Targets /\ m \in Targets /\ t \in Targets
    BY <2>1, <2>2, <2>3 DEF Consistent
  <2> QED
    BY <2>2, <2>3, <2>4, GrowsFurther
<1>5. t \in Targets /\ t # None
  BY <1>4, OwnersAssumption DEF Consistent
<1>6. hook' \in Hooks /\ hook' # None /\ hook'.optIn = hook.optIn
      /\ (ends => hook'.chain = <<>>) /\ (~ends => hook' = hook)
  BY <1>1, <1>2, RemovedHook, OwnersAssumption
<1> HIDE DEF t, m, ends
<1>7. /\ target \in [Owners -> Targets \cup {None}]
      /\ Forsaken \in [Owners -> Targets \cup {None}]
      /\ \A q \in Owners : Forsaken[q] = IF Kept(q) THEN target[q] ELSE None
  BY DEF Inv, TypeOK, Forsaken
<1>8. /\ target' \in [Owners -> Targets \cup {None}]
      /\ target'[o] = t
      /\ \A q \in Owners \ {o} : /\ target'[q] \in {target[q], None}
                                 /\ Kept(q) \/ ~ends => target'[q] = target[q]
  <2>1. CASE ends
    BY <1>1, <1>5, <1>7, <2>1
  <2>2. CASE ~ends
    BY <1>1, <1>5, <1>7, <2>2
  <2> QED
    BY <2>1, <2>2
<1>9. TypeOK'
  BY <1>1, <1>3, <1>6, <1>8 DEF Inv, TypeOK
<1>10. TargetsConsistent'
  BY <1>4, <1>8 DEF Inv, TargetsConsistent
<1>11. ASSUME NEW q \in Owners, NEW f, Known(q, f), Kept(q) \/ ~ends
       PROVE  Known(q, f)'
  <2>1. CASE q = o
    BY <1>4, <1>5, <1>8, <1>11, <2>1 DEF Known, Grows
  <2>2. CASE q # o
    BY <1>8, <1>11, <2>2 DEF Known
  <2> QED
    BY <2>1, <2>2
<1>12. HoldersKnown'
  <2>1. ASSUME NEW q \in Owners, NEW f \in methods'[q]
        PROVE  Known(q, f)'
    BY <1>1, <1>11, <2>1 DEF Inv, HoldersKnown, Kept
  <2>2. ASSUME NEW p \in DOMAIN hook'.chain
        PROVE  Known(hook.chain[p].owner, hook.chain[p].function)'
    <3>1. ~ends
      BY <1>6, <2>2
    <3>2. hook' = hook /\ hook.chain[p].owner \in Owners
      BY <1>2, <1>6, <2>2, <3>1, ChainListener DEF Inv
    <3> QED
      BY <1>2, <1>11, <2>2, <3>1, <3>2 DEF Inv, HoldersKnown
  <2>3. ASSUME NEW q \in Owners, frame[q] # None, NEW p \in DOMAIN frame[q].entered
        PROVE  frame[q].entered[p].owner = q /\ Known(q, frame[q].entered[p].function)'
    <3>1. Kept(q)
      BY <2>3 DEF Kept
    <3> QED
      BY <1>1, <1>11, <2>3, <3>1 DEF Inv, HoldersKnown
  <2> QED
    BY <1>1, <2>1, <2>2, <2>3 DEF HoldersKnown
<1>13. EvidenceStep
  <2>1. ASSUME NEW q \in Owners, target[q] # None, target'[q] # None
        PROVE  Grows(target[q], target'[q])
    <3>1. CASE q = o
      BY <1>4, <1>8, <3>1
    <3>2. CASE q # o
      <4>1. target'[q] = target[q] /\ target[q] \in Targets
        BY <1>7, <1>8, <2>1, <3>2
      <4> QED
        BY <4>1, AliasesCounted DEF Grows, Targets
    <3> QED
      BY <3>1, <3>2
  <2> QED
    BY <1>1, <2>1 DEF EvidenceStep
<1> QED
  BY <1>1, <1>6, <1>9, <1>10, <1>12, <1>13, FramesStay DEF Inv

-----------------------------------------------------------------------------
(* Theorems                                                                *)

(* Nothing is known at the start.                                          *)
LEMMA InitInv == Init => Inv
<1> SUFFICES ASSUME Init PROVE Inv
  OBVIOUS
<1>1. TypeOK
  BY DEF Init, TypeOK
<1> QED
  BY <1>1 DEF Init, Inv, TargetsConsistent, HoldersKnown, FramesWhole, ToldOnlyWhatIsKnown,
              InCallback

(* A stuttering step.                                                      *)
LEMMA StutterStep ==
  ASSUME Inv, UNCHANGED vars
  PROVE  Inv' /\ EvidenceStep
<1>1. UNCHANGED <<live, sidecar, target, methods, pinned, hook, frame>>
  BY DEF vars
<1>2. TypeOK'
  BY <1>1 DEF Inv, TypeOK
<1>3. TargetsConsistent' /\ HoldersKnown' /\ EvidenceStep
  BY <1>1, NothingLearnt DEF Inv
<1> QED
  BY <1>1, <1>2, <1>3, NobodyTold DEF Inv

(* Every step keeps the invariant and forgets no evidence.                 *)
LEMMA NextStep ==
  ASSUME Inv, [Next]_vars
  PROVE  Inv' /\ EvidenceStep
<1>1. ASSUME NEW o \in Callers, Dispatch(o)
      PROVE  Inv' /\ EvidenceStep
  <2>1. o \in Owners
    BY OwnersAssumption
  <2>2. CASE Enter(o)
    BY <2>1, <2>2, EnterStep
  <2>3. CASE SelectEnter(o)
    BY <2>1, <2>3, SelectEnterStep
  <2>4. CASE SelectLeave(o)
    BY <2>1, <2>4, SelectLeaveStep
  <2>5. CASE SelectUnwind(o)
    BY <2>1, <2>5, SelectUnwindStep
  <2>6. CASE CallbackReturns(o)
    BY <2>1, <2>6, CallbackReturnsStep
  <2>7. CASE \E skip \in BOOLEAN : EnterReturns(o, skip)
    BY <2>1, <2>7, EnterReturnsStep
  <2>8. CASE \E how \in {"leaving", "unwinding"} : BodyEnds(o, how)
    BY <2>1, <2>8, BodyEndsStep
  <2>9. CASE \E listed \in Listings[o] : \E seen \in listed : Capture(o, listed, seen)
    BY <2>1, <2>9, CaptureStep
  <2> QED
    BY <1>1, <2>2, <2>3, <2>4, <2>5, <2>6, <2>7, <2>8, <2>9 DEF Dispatch
<1>2. ASSUME NEW o \in Owners, Resolve(o)
      PROVE  Inv' /\ EvidenceStep
  <2>1. Wanted[o] \in SUBSET Functions
    BY OwnersAssumption
  <2>2. CASE \E f \in Wanted[o] : Find(o, f)
    BY <2>1, <2>2, FindStep
  <2>3. CASE \E f \in Wanted[o] : Release(o, f)
    BY <2>1, <2>3, ReleaseStep
  <2>4. CASE \/ \E listed \in Listings[o] : Publish(o, listed)
             \/ \E a \in Sidecars[o] : BindArtifact(o, a)
    BY <2>4, SourceStep
  <2> QED
    BY <1>2, <2>2, <2>3, <2>4 DEF Resolve
<1>3. ASSUME NEW o \in Owners, Hooking(o)
      PROVE  Inv' /\ EvidenceStep
  <2>1. PICK f \in Wanted[o], id \in Listeners, optIn \in BOOLEAN :
          Install(o, f, id, optIn) \/ Subscribe(o, f, id, optIn)
    BY <1>3 DEF Hooking
  <2>2. f \in Functions
    BY OwnersAssumption
  <2>3. CASE Install(o, f, id, optIn)
    BY <2>2, <2>3, InstallStep
  <2>4. CASE Subscribe(o, f, id, optIn)
    BY <2>2, <2>4, SubscribeStep
  <2> QED
    BY <2>1, <2>3, <2>4
<1>4. ASSUME NEW id \in Listeners, Unsubscribe(id)
      PROVE  Inv' /\ EvidenceStep
  BY <1>4, UnsubscribeStep
<1>5. CASE Finish
  BY <1>5, FinishStep
<1>6. CASE UNCHANGED vars
  BY <1>6, StutterStep
<1> QED
  BY <1>1, <1>2, <1>3, <1>4, <1>5, <1>6 DEF Next

(* The invariant is inductive.                                             *)
THEOREM InvariantHolds == Spec => []Inv
<1>1. Inv /\ [Next]_vars => Inv'
  BY NextStep
<1> QED
  BY InitInv, <1>1, PTL DEF Spec

(* The fields of a target never contradict each other, and whoever holds a *)
(* Function of an owner - a handle, a listener of the chain, a listener of *)
(* a frame - finds it among the aliases of a target that is there, for     *)
(* every order in which MergeEvidence, AddAlias, the sidecar and the       *)
(* captures from callbacks arrive.                                         *)
THEOREM EvidenceAgreesHolds == Spec => []EvidenceAgrees
<1>1. ASSUME Inv PROVE EvidenceAgrees
  <2>1. TypeOK /\ TargetsConsistent /\ HoldersKnown
    BY <1>1 DEF Inv
  <2>2. ASSUME NEW o \in Owners, target[o] # None
        PROVE  /\ target[o].proof = "UNIQUE" =>
                    target[o].count = 1 /\ Cardinality(target[o].aliases) <= 1
               /\ target[o].count >= Cardinality(target[o].aliases)
    <3>1. Consistent(target[o]) /\ target[o] \in Targets
      BY <2>1, <2>2 DEF TargetsConsistent, Consistent
    <3>2. Cardinality(target[o].aliases) \in Nat
      BY <3>1, AliasesCounted DEF Targets
    <3> QED
      BY <3>1, <3>2 DEF Consistent
  <2>3. \A o \in Owners : \A f \in methods[o] : target[o] # None /\ f \in target[o].aliases
    BY <2>1 DEF HoldersKnown, Known
  <2>4. hook # None => \A l \in Range(hook.chain) :
          target[l.owner] # None /\ l.function \in target[l.owner].aliases
    BY <2>1 DEF HoldersKnown, Known, Range
  <2>5. ASSUME NEW o \in Owners, frame[o] # None, NEW l \in Range(frame[o].entered)
        PROVE  l.owner = o /\ target[o] # None /\ l.function \in target[o].aliases
    BY <2>1, <2>5 DEF HoldersKnown, Known, Range
  <2> QED
    BY <2>1, <2>2, <2>3, <2>4, <2>5 DEF EvidenceAgrees
<1>2. Inv => EvidenceAgrees
  BY <1>1
<1> QED
  BY InvariantHolds, <1>2, PTL

(* A callback is told a logical method, or given a typed layout, only if   *)
(* the target of its own owner was not known to be shared when it was      *)
(* selected, and no on_enter starts on a shared entry under a hook that    *)
(* did not ask for it (RefreshIdentityState, SelectListenerIdentity).      *)
THEOREM ToldOnlyWhatIsKnownHolds == Spec => []ToldOnlyWhatIsKnown
<1>1. Inv => ToldOnlyWhatIsKnown
  BY DEF Inv
<1> QED
  BY InvariantHolds, <1>1, PTL

(* While a target lives it forgets no alias, no count and not that it is   *)
(* shared, and a method that find_method returns knows what the owner's    *)
(* live directory counts if its target has the payload of the VM.          *)
THEOREM EvidenceGrowsHolds == Spec => EvidenceGrows
<1>1. Inv /\ [Next]_vars =>
      [\A o \in Owners :
       /\ target[o] # None /\ target'[o] # None =>
            /\ Shared(target[o]) => Shared(target'[o])
            /\ target'[o].count >= target[o].count
            /\ target[o].aliases \subseteq target'[o].aliases
       /\ \A f \in live[o] :
            f \in methods'[o] \ methods[o] /\ target'[o].payload = "payload"
              => target'[o].count >= Cardinality(live[o])]_vars
  <2> SUFFICES ASSUME Inv, [Next]_vars PROVE EvidenceStep
    BY DEF EvidenceStep, Grows
  <2> QED
    BY NextStep
<1> QED
  BY InvariantHolds, <1>1, PTL DEF Spec, EvidenceGrows
=============================================================================
