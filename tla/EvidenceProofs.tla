----------------------------- MODULE EvidenceProofs -----------------------------
(***************************************************************************)
(* What DartPlant records of a running program is true of it, for any      *)
(* table of ABI rows, any program, any deferred units and any number of    *)
(* invalidations, loads, refreshes, unloads and restarts: the properties   *)
(* of CapabilityProofs, of LiveDirectory, and of Evidence, which has both  *)
(* beside EntryTargets.                                                    *)
(***************************************************************************)
EXTENDS Evidence, EntryTargetsProofs, WellFoundedInduction

-----------------------------------------------------------------------------
(* Sets are as finite, and as large, and functions as injective, in the    *)
(* modules that are instanced.                                             *)
LEMMA InstancesCount ==
  ASSUME NEW S
  PROVE  /\ Abi!IsFiniteSet(S) <=> IsFiniteSet(S)
         /\ Abi!Cardinality(S) = Cardinality(S)
         /\ Live!IsFiniteSet(S) <=> IsFiniteSet(S)
         /\ Live!Cardinality(S) = Cardinality(S)
         /\ Live!IsInjective(S) <=> IsInjective(S)
<1>1. (Abi!IsFiniteSet(S) <=> IsFiniteSet(S)) /\ (Live!IsFiniteSet(S) <=> IsFiniteSet(S))
  BY DEF Abi!IsFiniteSet, Live!IsFiniteSet, IsFiniteSet
<1>2. Abi!Cardinality(S) = Cardinality(S) /\ Live!Cardinality(S) = Cardinality(S)
  BY DEF Abi!Cardinality, Live!Cardinality, Cardinality
<1>3. Live!IsInjective(S) <=> IsInjective(S)
  BY DEF Live!IsInjective, IsInjective
<1> QED
  BY <1>1, <1>2, <1>3

-----------------------------------------------------------------------------
(* Rows and layouts                                                        *)

(* A set of rows has a first one (Representative).                         *)
LEMMA LeastIsIn ==
  ASSUME Abi!TableAssumption, NEW S, S \subseteq Rows, S # {}
  PROVE  Abi!Least(S) \in S
<1>1. S \subseteq Nat
  BY DEF Abi!TableAssumption
<1>2. PICK r \in S : \A s \in S : ~ (<<s, r>> \in OpToRel(<, Nat))
  BY <1>1, NatLessThanWellFounded, WFMin
<1>3. \A s \in S : ~ (s < r)
  <2> SUFFICES ASSUME NEW s \in S, s < r PROVE FALSE
    OBVIOUS
  <2>1. <<s, r>> \in Nat \X Nat /\ <<s, r>>[1] < <<s, r>>[2]
    BY <1>1
  <2>2. <<s, r>> \in OpToRel(<, Nat)
    BY <2>1, Zenon DEF OpToRel
  <2> QED
    BY <1>2, <2>2
<1>4. \A s \in S : r <= s
  BY <1>1, <1>3
<1> QED
  BY <1>4 DEF Abi!Least

(* A set that evidence may leave: nothing, or the row of the VM is there.  *)
HasReal(S) == S \subseteq Rows /\ (S = {} \/ Real \in S)

(* One layout is left: then it is that of the running VM.                  *)
LEMMA OneLayout ==
  ASSUME NEW c, NEW S, HasReal(S), Abi!Passes(c, S)
  PROVE  S # {} /\ Abi!Keys(c, S) = {1}
<1>1. S # {}
  <2> SUFFICES ASSUME S = {} PROVE FALSE
    OBVIOUS
  <2>1. Abi!Keys(c, S) = {}
    BY DEF Abi!Keys
  <2> QED
    BY <2>1, FS_EmptySet, InstancesCount DEF Abi!Passes
<1>2. 1 \in Abi!Keys(c, S) /\ Abi!Keys(c, S) \subseteq {1, 2}
  BY <1>1 DEF HasReal, Abi!Keys, Abi!Key
<1>3. 2 \notin Abi!Keys(c, S)
  <2> SUFFICES ASSUME 2 \in Abi!Keys(c, S) PROVE FALSE
    OBVIOUS
  <2>1. Abi!Keys(c, S) = {1} \cup {2}
    BY <1>2
  <2>2. IsFiniteSet({1}) /\ Cardinality({1}) = 1
    BY FS_Singleton
  <2>3. Cardinality({1} \cup {2}) = 2
    BY <2>2, FS_AddElement
  <2> QED
    BY <2>1, <2>3, InstancesCount DEF Abi!Passes
<1> QED
  BY <1>1, <1>2, <1>3

(* A supported capability has one layout in all candidates, and so in any  *)
(* of them.                                                                *)
LEMMA SupportedLayout ==
  ASSUME HasReal(candidates), NEW c \in Abi!Supported, NEW S, S \subseteq candidates
  PROVE  Abi!Keys(c, S) \subseteq {1}
<1>1. Abi!Passes(c, candidates)
  BY DEF Abi!Supported
<1>2. Abi!Keys(c, candidates) = {1}
  BY <1>1, OneLayout
<1> QED
  BY <1>2 DEF Abi!Keys

-----------------------------------------------------------------------------
(* The records of the adapter                                              *)

(* No record is of a later generation than the artifact.                   *)
RecordType == [state : Abi!States, key : 0 .. 2, at : 0 .. artifact_generation]

ProofType ==
  [binding : [Abi!Capabilities -> SUBSET candidates],
   selected : [Abi!Capabilities -> Rows \cup {0}],
   verified : SUBSET Abi!Capabilities, failed : SUBSET Abi!Capabilities,
   record : [Abi!Capabilities -> RecordType]]

(* The masks are those of the records.                                     *)
MasksAgree(p) ==
  /\ p.verified = {c \in Abi!Capabilities : p.record[c].state = "verified"}
  /\ p.failed = {c \in Abi!Capabilities : p.record[c].state \in {"failed", "ambiguous"}}

(* What c is bound to has the layout of the running VM.                    *)
BoundRight(p, c) ==
  /\ Abi!Keys(c, p.binding[c]) \subseteq {1}
  /\ p.binding[c] # {} => p.selected[c] \in p.binding[c]

Good(p) ==
  /\ p \in ProofType
  /\ MasksAgree(p)
  /\ \A c \in Abi!Capabilities : BoundRight(p, c)

Same(p, q, d) ==
  /\ q.binding[d] = p.binding[d]
  /\ q.selected[d] = p.selected[d]
  /\ q.record[d] = p.record[d]

(* The table and the generation the operators read.                        *)
Ambient ==
  /\ HasReal(candidates) /\ preferred \in candidates
  /\ roots \subseteq candidates /\ HasReal(roots)
  /\ artifact_generation \in 1 .. MaxGeneration /\ MaxGeneration \in Nat

(* q is p but for the records of C: state s, of this generation.           *)
Written(p, q, C, s) ==
  /\ q \in ProofType
  /\ q.binding = p.binding /\ q.selected = p.selected
  /\ q.verified = p.verified /\ q.failed = p.failed
  /\ \A d \in Abi!Capabilities \ C : q.record[d] = p.record[d]
  /\ \A c \in C : q.record[c].state = s /\ q.record[c].at = artifact_generation

(* A state and a generation are written to the records of C.               *)
LEMMA StatesWritten ==
  ASSUME Ambient, NEW p, Good(p), NEW C, C \subseteq Abi!Capabilities, NEW s \in Abi!States,
         NEW q, q = Abi!WithStates(p, C, s)
  PROVE  Written(p, q, C, s)
<1> DEFINE written == [c \in Abi!Capabilities |->
       IF c \in C THEN [p.record[c] EXCEPT !.state = s, !.at = artifact_generation]
                  ELSE p.record[c]]
<1>1. p \in ProofType /\ p.record \in [Abi!Capabilities -> RecordType]
  BY DEF Good, ProofType
<1>2. artifact_generation \in 0 .. artifact_generation
  BY DEF Ambient
<1>3. \A c \in Abi!Capabilities : written[c] \in RecordType
  <2> SUFFICES ASSUME NEW c \in Abi!Capabilities PROVE written[c] \in RecordType
    OBVIOUS
  <2> DEFINE r == p.record[c]
  <2>1. r \in RecordType
    BY <1>1
  <2> HIDE DEF r
  <2>2. [r EXCEPT !.state = s, !.at = artifact_generation] \in RecordType
    BY <1>2, <2>1 DEF RecordType
  <2> QED
    BY <2>1, <2>2 DEF r
<1>4. written \in [Abi!Capabilities -> RecordType]
  BY <1>3
<1>5. q = [p EXCEPT !.record = written]
  BY DEF Abi!WithStates
<1>6. /\ \A d \in Abi!Capabilities \ C : written[d] = p.record[d]
      /\ \A c \in C : written[c].state = s /\ written[c].at = artifact_generation
  BY <1>1 DEF RecordType
<1> HIDE DEF written
<1>7. q \in ProofType
  BY <1>1, <1>4, <1>5 DEF ProofType
<1>8. /\ q.record = written /\ q.binding = p.binding /\ q.selected = p.selected
      /\ q.verified = p.verified /\ q.failed = p.failed
  BY <1>1, <1>5 DEF ProofType
<1> QED
  BY <1>6, <1>7, <1>8 DEF Written

(* Bindings of C are cleared.                                              *)
LEMMA BindingsCleared ==
  ASSUME Ambient, NEW p, Good(p), NEW C, NEW q, q = Abi!Cleared(p, C)
  PROVE  /\ Good(q) /\ q.record = p.record
         /\ q.verified = p.verified /\ q.failed = p.failed
         /\ \A d \in Abi!Capabilities \ C : Same(p, q, d)
         /\ \A c \in C \cap Abi!Capabilities : q.binding[c] = {}
<1> DEFINE b == [c \in Abi!Capabilities |-> IF c \in C THEN {} ELSE p.binding[c]]
           t == [c \in Abi!Capabilities |-> IF c \in C THEN 0 ELSE p.selected[c]]
<1>1. /\ p \in ProofType /\ p.binding \in [Abi!Capabilities -> SUBSET candidates]
      /\ p.selected \in [Abi!Capabilities -> Rows \cup {0}]
  BY DEF Good, ProofType
<1>2. b \in [Abi!Capabilities -> SUBSET candidates] /\ t \in [Abi!Capabilities -> Rows \cup {0}]
  BY <1>1
<1>3. /\ \A c \in C \cap Abi!Capabilities : b[c] = {}
      /\ \A d \in Abi!Capabilities \ C : b[d] = p.binding[d] /\ t[d] = p.selected[d]
  OBVIOUS
<1>4. q = [p EXCEPT !.binding = b, !.selected = t]
  BY DEF Abi!Cleared
<1> HIDE DEF b, t
<1>5. /\ q \in ProofType
      /\ q.binding = b /\ q.selected = t /\ q.record = p.record
      /\ q.verified = p.verified /\ q.failed = p.failed
  BY <1>1, <1>2, <1>4 DEF ProofType
<1>6. MasksAgree(q)
  BY <1>5 DEF Good, MasksAgree
<1>7. \A c \in Abi!Capabilities : BoundRight(q, c)
  <2> SUFFICES ASSUME NEW c \in Abi!Capabilities PROVE BoundRight(q, c)
    OBVIOUS
  <2>1. CASE c \in C
    BY <1>3, <1>5, <2>1 DEF BoundRight, Abi!Keys
  <2>2. CASE c \notin C
    BY <1>3, <1>5, <2>2 DEF Good, BoundRight
  <2> QED
    BY <2>1, <2>2
<1> QED
  BY <1>3, <1>5, <1>6, <1>7 DEF Good, Same

(* C is marked verified.                                                   *)
LEMMA VerifiedMarked ==
  ASSUME Ambient, NEW p, Good(p), NEW C, C \subseteq Abi!Capabilities, NEW q,
         q = Abi!MarkVerified(p, C)
  PROVE  /\ Good(q) /\ q.binding = p.binding /\ q.selected = p.selected
         /\ \A d \in Abi!Capabilities \ C : Same(p, q, d)
         /\ \A c \in C : q.record[c].state = "verified" /\ q.record[c].at = artifact_generation
<1> DEFINE w == Abi!WithStates(p, C, "verified")
<1>1. "verified" \in Abi!States
  BY DEF Abi!States
<1>2. Written(p, w, C, "verified")
  BY <1>1, StatesWritten
<1>3. q = [w EXCEPT !.verified = @ \cup C, !.failed = @ \ C]
  BY DEF Abi!MarkVerified
<1> HIDE DEF w
<1>4. /\ q \in ProofType
      /\ q.binding = w.binding /\ q.selected = w.selected /\ q.record = w.record
      /\ q.verified = w.verified \cup C /\ q.failed = w.failed \ C
  BY <1>2, <1>3 DEF ProofType, Written
<1>5. MasksAgree(q)
  <2>1. MasksAgree(p)
    BY DEF Good
  <2> QED
    BY <1>2, <1>4, <2>1 DEF MasksAgree, Written
<1>6. \A c \in Abi!Capabilities : BoundRight(q, c)
  BY <1>2, <1>4 DEF Good, BoundRight, Written
<1> QED
  BY <1>2, <1>4, <1>5, <1>6 DEF Good, Same, Written

(* C is marked failed, and bound to nothing.                               *)
LEMMA FailedMarked ==
  ASSUME Ambient, NEW p, Good(p), NEW C, C \subseteq Abi!Capabilities, NEW q,
         q = Abi!MarkFailed(p, C)
  PROVE  /\ Good(q)
         /\ \A d \in Abi!Capabilities \ C : Same(p, q, d)
         /\ \A c \in C : q.binding[c] = {} /\ q.record[c].state = "failed"
<1> DEFINE k == Abi!Cleared(p, C)
           w == Abi!WithStates(k, C, "failed")
<1>1. "failed" \in Abi!States
  BY DEF Abi!States
<1>2. /\ Good(k) /\ k.record = p.record
      /\ k.verified = p.verified /\ k.failed = p.failed
      /\ \A d \in Abi!Capabilities \ C : Same(p, k, d)
      /\ \A c \in C : k.binding[c] = {}
  BY BindingsCleared
<1> HIDE DEF k
<1>3. Written(k, w, C, "failed")
  BY <1>1, <1>2, StatesWritten
<1>4. q = [w EXCEPT !.verified = @ \ C, !.failed = @ \cup C]
  BY DEF Abi!MarkFailed, k
<1> HIDE DEF w
<1>5. /\ q \in ProofType
      /\ q.binding = w.binding /\ q.selected = w.selected /\ q.record = w.record
      /\ q.verified = w.verified \ C /\ q.failed = w.failed \cup C
  BY <1>3, <1>4 DEF ProofType, Written
<1>6. MasksAgree(q)
  <2>1. MasksAgree(k)
    BY <1>2 DEF Good
  <2> QED
    BY <1>3, <1>5, <2>1 DEF MasksAgree, Written
<1>7. Good(q)
  BY <1>2, <1>3, <1>5, <1>6 DEF Good, BoundRight, Written
<1> QED
  BY <1>2, <1>3, <1>5, <1>7 DEF Same, Written

(* The same when the evidence was ambiguous.                               *)
LEMMA AmbiguousMarked ==
  ASSUME Ambient, NEW p, Good(p), NEW C, C \subseteq Abi!Capabilities, NEW q,
         q = Abi!MarkAmbiguous(p, C)
  PROVE  /\ Good(q)
         /\ \A d \in Abi!Capabilities \ C : Same(p, q, d)
         /\ \A c \in C : q.binding[c] = {} /\ q.record[c].state = "ambiguous"
<1> DEFINE m == Abi!MarkFailed(p, C)
<1>1. "ambiguous" \in Abi!States
  BY DEF Abi!States
<1>2. /\ Good(m)
      /\ \A d \in Abi!Capabilities \ C : Same(p, m, d)
      /\ \A c \in C : m.binding[c] = {} /\ m.record[c].state = "failed"
  BY FailedMarked
<1>3. q = Abi!WithStates(m, C, "ambiguous")
  BY DEF Abi!MarkAmbiguous
<1> HIDE DEF m
<1>4. Written(m, q, C, "ambiguous")
  BY <1>1, <1>2, <1>3, StatesWritten
<1>5. MasksAgree(q)
  <2>1. MasksAgree(m)
    BY <1>2 DEF Good
  <2> QED
    BY <1>2, <1>4, <2>1 DEF MasksAgree, Written
<1>6. Good(q)
  BY <1>2, <1>4, <1>5 DEF Good, BoundRight, Written
<1> QED
  BY <1>2, <1>4, <1>6 DEF Same, Written

(* The rows in S have the layout of the running VM for all of C.           *)
Agree(C, S) == \A c \in C \cap Abi!Capabilities : Abi!Keys(c, S) \subseteq {1}

(* q is p but for the binding of C.                                        *)
BoundTo(p, q, C, S) ==
  /\ Good(q) /\ q.record = p.record
  /\ \A d \in Abi!Capabilities \ C : Same(p, q, d)
  /\ \A c \in C \cap Abi!Capabilities : q.binding[c] = S

(* C is bound to the rows in S, which agree on each layout.                *)
LEMMA RowsBound ==
  ASSUME Ambient, Abi!TableAssumption, NEW p, Good(p), NEW C,
         NEW S, S \subseteq candidates, S # {}, NEW first,
         Agree(C, S), NEW q, q = Abi!Bind(p, C, first, S)
  PROVE  BoundTo(p, q, C, S)
<1> DEFINE r == Abi!Representative(first, S)
           b == [c \in Abi!Capabilities |-> IF c \in C THEN S ELSE p.binding[c]]
           t == [c \in Abi!Capabilities |-> IF c \in C THEN r ELSE p.selected[c]]
<1>1. r \in S /\ r \in Rows
  <2>1. S \subseteq Rows
    BY DEF Ambient, HasReal
  <2> QED
    BY <2>1, LeastIsIn DEF Abi!Representative
<1>2. q = [p EXCEPT !.binding = b, !.selected = t]
  BY DEF Abi!Bind
<1> HIDE DEF r
<1>3. /\ p \in ProofType /\ p.binding \in [Abi!Capabilities -> SUBSET candidates]
      /\ p.selected \in [Abi!Capabilities -> Rows \cup {0}]
  BY DEF Good, ProofType
<1>4. b \in [Abi!Capabilities -> SUBSET candidates] /\ t \in [Abi!Capabilities -> Rows \cup {0}]
  BY <1>1, <1>3
<1>5. /\ \A c \in C \cap Abi!Capabilities : b[c] = S /\ t[c] = r
      /\ \A d \in Abi!Capabilities \ C : b[d] = p.binding[d] /\ t[d] = p.selected[d]
  OBVIOUS
<1> HIDE DEF b, t
<1>6. /\ q \in ProofType
      /\ q.binding = b /\ q.selected = t /\ q.record = p.record
      /\ q.verified = p.verified /\ q.failed = p.failed
  BY <1>2, <1>3, <1>4 DEF ProofType
<1>7. MasksAgree(q)
  BY <1>6 DEF Good, MasksAgree
<1>8. \A c \in Abi!Capabilities : BoundRight(q, c)
  <2> SUFFICES ASSUME NEW c \in Abi!Capabilities PROVE BoundRight(q, c)
    OBVIOUS
  <2>1. CASE c \in C
    BY <1>1, <1>5, <1>6, <2>1 DEF BoundRight, Agree
  <2>2. CASE c \notin C
    BY <1>5, <1>6, <2>2 DEF Good, BoundRight
  <2> QED
    BY <2>1, <2>2
<1> QED
  BY <1>5, <1>6, <1>7, <1>8 DEF Good, Same, BoundTo

(* The domain keys of C are written.                                       *)
LEMMA DomainsWritten ==
  ASSUME Ambient, NEW p, Good(p), NEW C, C \subseteq Abi!Capabilities, NEW q,
         q = Abi!SetDomains(p, C)
  PROVE  /\ Good(q) /\ q.binding = p.binding /\ q.selected = p.selected
         /\ \A d \in Abi!Capabilities \ C : Same(p, q, d)
         /\ \A c \in C : /\ q.record[c].state = p.record[c].state
                         /\ q.record[c].at = p.record[c].at
<1> DEFINE written == [c \in Abi!Capabilities |->
       IF c \in C THEN [p.record[c] EXCEPT !.key = Abi!Key(c, p.selected[c])] ELSE p.record[c]]
<1>1. p \in ProofType /\ p.record \in [Abi!Capabilities -> RecordType]
  BY DEF Good, ProofType
<1>2. \A c \in Abi!Capabilities : written[c] \in RecordType
  <2> SUFFICES ASSUME NEW c \in Abi!Capabilities PROVE written[c] \in RecordType
    OBVIOUS
  <2> DEFINE r == p.record[c]
             k == Abi!Key(c, p.selected[c])
  <2>1. r \in RecordType /\ k \in 0 .. 2
    BY <1>1 DEF Abi!Key
  <2> HIDE DEF r, k
  <2>2. [r EXCEPT !.key = k] \in RecordType
    BY <2>1 DEF RecordType
  <2> QED
    BY <2>1, <2>2 DEF r, k
<1>3. written \in [Abi!Capabilities -> RecordType]
  BY <1>2
<1>4. /\ \A d \in Abi!Capabilities \ C : written[d] = p.record[d]
      /\ \A c \in C : written[c].state = p.record[c].state /\ written[c].at = p.record[c].at
  BY <1>1 DEF RecordType
<1>5. q = [p EXCEPT !.record = written]
  BY DEF Abi!SetDomains
<1> HIDE DEF written
<1>6. /\ q \in ProofType
      /\ q.record = written /\ q.binding = p.binding /\ q.selected = p.selected
      /\ q.verified = p.verified /\ q.failed = p.failed
  BY <1>1, <1>3, <1>5 DEF ProofType
<1>7. MasksAgree(q)
  <2>1. \A c \in Abi!Capabilities : q.record[c].state = p.record[c].state
    BY <1>4, <1>6
  <2> QED
    BY <1>6, <2>1 DEF Good, MasksAgree
<1>8. \A c \in Abi!Capabilities : BoundRight(q, c)
  BY <1>6 DEF Good, BoundRight
<1> QED
  BY <1>4, <1>6, <1>7, <1>8 DEF Good, Same

(* Selecting the rows for a capability binds it to rows that agree, or     *)
(* leaves it unverified.                                                   *)
LEMMA RowsSelected ==
  ASSUME Ambient, Abi!TableAssumption, NEW p, Good(p), NEW c \in Abi!Capabilities,
         NEW S, S \subseteq candidates, HasReal(S), NEW q, q = Abi!Select(p, c, S)
  PROVE  /\ Good(q)
         /\ \A d \in Abi!Capabilities \ {c} : Same(p, q, d)
         /\ Abi!Passes(c, S) => q.binding[c] # {}
         /\ ~Abi!Passes(c, S) => c \notin q.verified
<1>1. {c} \subseteq Abi!Capabilities
  OBVIOUS
<1>2. CASE Abi!Passes(c, S)
  <2> DEFINE b == Abi!Bind(p, {c}, preferred, S)
  <2>1. S # {} /\ Agree({c}, S)
    BY <1>2, OneLayout DEF Agree
  <2>2. BoundTo(p, b, {c}, S)
    BY <2>1, RowsBound
  <2>3. q = Abi!SetDomains(b, {c})
    BY <1>2 DEF Abi!Select
  <2> HIDE DEF b
  <2>4. /\ Good(q) /\ q.binding = b.binding
        /\ \A d \in Abi!Capabilities \ {c} : Same(b, q, d)
    BY <1>1, <2>2, <2>3, DomainsWritten DEF BoundTo
  <2> QED
    BY <1>2, <2>1, <2>2, <2>4 DEF Same, BoundTo
<1>3. CASE ~Abi!Passes(c, S)
  <2>1. q = Abi!MarkAmbiguous(p, {c}) \/ q = Abi!MarkFailed(p, {c})
    BY <1>3 DEF Abi!Select
  <2>2. /\ Good(q) /\ \A d \in Abi!Capabilities \ {c} : Same(p, q, d)
        /\ q.record[c].state \in {"failed", "ambiguous"}
    <3>1. CASE q = Abi!MarkAmbiguous(p, {c})
      BY <1>1, <3>1, AmbiguousMarked
    <3>2. CASE q = Abi!MarkFailed(p, {c})
      BY <1>1, <3>2, FailedMarked
    <3> QED
      BY <2>1, <3>1, <3>2
  <2>3. c \notin q.verified
    BY <2>2 DEF Good, MasksAgree
  <2> QED
    BY <1>3, <2>2, <2>3
<1> QED
  BY <1>2, <1>3

(* The proofs q after an update of one capability c.                       *)
Updates(p, q, c) ==
  /\ Good(q)
  /\ \A d \in Abi!Capabilities \ {c} : Same(p, q, d)
  /\ c \in q.verified => q.binding[c] # {}

(* A mark of failure is such an update.                                    *)
LEMMA FailureUpdates ==
  ASSUME Ambient, NEW p, Good(p), NEW c \in Abi!Capabilities, NEW q, q = Abi!MarkFailed(p, {c})
  PROVE  Updates(p, q, c)
<1>1. {c} \subseteq Abi!Capabilities
  OBVIOUS
<1>2. /\ Good(q) /\ \A d \in Abi!Capabilities \ {c} : Same(p, q, d)
      /\ q.record[c].state = "failed"
  BY <1>1, FailedMarked
<1>3. c \notin q.verified
  BY <1>2 DEF Good, MasksAgree
<1> QED
  BY <1>2, <1>3 DEF Updates

(* A mark of success is, if the capability is bound.                       *)
LEMMA SuccessUpdates ==
  ASSUME Ambient, NEW p, Good(p), NEW c \in Abi!Capabilities, p.binding[c] # {},
         NEW q, q = Abi!MarkVerified(p, {c})
  PROVE  Updates(p, q, c)
<1>1. {c} \subseteq Abi!Capabilities
  OBVIOUS
<1>2. /\ Good(q) /\ \A d \in Abi!Capabilities \ {c} : Same(p, q, d)
      /\ q.binding = p.binding
  BY <1>1, VerifiedMarked
<1> QED
  BY <1>2 DEF Updates

(* Two updates of a capability are one.                                    *)
LEMMA UpdatesTwice ==
  ASSUME NEW p, NEW q, NEW r, NEW c,
         \A d \in Abi!Capabilities \ {c} : Same(p, q, d), Updates(q, r, c)
  PROVE  Updates(p, r, c)
BY DEF Updates, Same

(* What evidence makes of the proofs.                                      *)
LEMMA EvidenceUpdates ==
  ASSUME Ambient, Abi!TableAssumption, Good(Abi!Current), NEW c \in Abi!Capabilities,
         NEW S, S \subseteq candidates, HasReal(S), NEW q, q = Abi!Proved(c, S)
  PROVE  Updates(Abi!Current, q, c)
<1> DEFINE p == Abi!Select(Abi!Current, c, S)
<1>1. /\ Good(p)
      /\ \A d \in Abi!Capabilities \ {c} : Same(Abi!Current, p, d)
      /\ Abi!Passes(c, S) => p.binding[c] # {}
      /\ ~Abi!Passes(c, S) => c \notin p.verified
  BY RowsSelected
<1>2. CASE ~Abi!DependenciesVerified(c)
  <2>1. q = Abi!MarkFailed(Abi!Current, {c})
    BY <1>2 DEF Abi!Proved
  <2> QED
    BY <2>1, FailureUpdates
<1>3. CASE Abi!DependenciesVerified(c) /\ ~Abi!Passes(c, S)
  <2>1. q = p
    BY <1>3 DEF Abi!Proved
  <2> QED
    BY <1>1, <1>3, <2>1 DEF Updates
<1>4. CASE Abi!DependenciesVerified(c) /\ Abi!Passes(c, S)
  <2>1. q = Abi!MarkFailed(p, {c}) \/ q = Abi!MarkVerified(p, {c})
    BY <1>4 DEF Abi!Proved
  <2> HIDE DEF p
  <2>2. Updates(p, q, c)
    BY <1>1, <1>4, <2>1, FailureUpdates, SuccessUpdates
  <2> QED
    BY <1>1, <2>2, UpdatesTwice
<1> QED
  BY <1>2, <1>3, <1>4

(* InvalidateArtifactBindingLocked leaves nothing supported verified.      *)
LEMMA ResetEffect ==
  ASSUME Ambient, NEW p, Good(p), NEW q, q = Abi!Reset(p)
  PROVE  /\ Good(q)
         /\ \A c \in Abi!Capabilities :
              IF c \in Abi!Supported THEN c \notin q.verified ELSE Same(p, q, c)
<1> DEFINE k == Abi!Cleared(p, Abi!Supported)
           cleared == [c \in Abi!Capabilities |->
             IF c \in Abi!Supported THEN [state |-> "unverified", key |-> 0, at |-> 0]
                                ELSE p.record[c]]
<1>1. /\ Good(k) /\ k.record = p.record
      /\ k.verified = p.verified /\ k.failed = p.failed
      /\ \A d \in Abi!Capabilities \ Abi!Supported : Same(p, k, d)
  BY BindingsCleared
<1>2. p.record \in [Abi!Capabilities -> RecordType] /\ artifact_generation \in Nat
  BY DEF Good, ProofType, Ambient
<1>3. cleared \in [Abi!Capabilities -> RecordType]
  <2>1. [state |-> "unverified", key |-> 0, at |-> 0] \in RecordType
    BY <1>2 DEF RecordType, Abi!States
  <2> QED
    BY <1>2, <2>1
<1>4. /\ \A c \in Abi!Capabilities \cap Abi!Supported : cleared[c].state = "unverified"
      /\ \A c \in Abi!Capabilities \ Abi!Supported : cleared[c] = p.record[c]
  OBVIOUS
<1>5. q = [k EXCEPT !.verified = @ \ Abi!Supported, !.failed = @ \ Abi!Supported,
                    !.record = cleared]
  BY DEF Abi!Reset
<1> HIDE DEF k, cleared
<1>6. k \in ProofType
  BY <1>1 DEF Good
<1>7. /\ q \in ProofType
      /\ q.binding = k.binding /\ q.selected = k.selected /\ q.record = cleared
      /\ q.verified = k.verified \ Abi!Supported /\ q.failed = k.failed \ Abi!Supported
  BY <1>3, <1>5, <1>6 DEF ProofType
<1>8. MasksAgree(q)
  <2>1. MasksAgree(p)
    BY DEF Good
  <2> QED
    BY <1>1, <1>4, <1>7, <2>1 DEF MasksAgree
<1>9. Good(q)
  BY <1>1, <1>7, <1>8 DEF Good, BoundRight
<1> QED
  BY <1>1, <1>4, <1>7, <1>9 DEF Same

(* A revalidation binds everything supported and verifies what the root    *)
(* proof covers.                                                           *)
LEMMA RevalidatedEffect ==
  ASSUME Ambient, Abi!TableAssumption, NEW p, Good(p),
         NEW S, S \subseteq candidates, S # {}, NEW q, q = Abi!Revalidated(p, S)
  PROVE  /\ Good(q)
         /\ \A c \in Abi!Supported \cap Abi!Capabilities : q.binding[c] # {}
         /\ \A c \in Abi!Eager \cap Abi!Supported :
             c \in q.verified /\ q.record[c].at = artifact_generation
         /\ \A c \in Abi!Capabilities \ Abi!Supported : Same(p, q, c)
<1> DEFINE E == Abi!Eager \cap Abi!Supported
           b == Abi!Bind(p, Abi!Supported, Abi!Representative(preferred, S), S)
           d == Abi!SetDomains(b, E)
<1>1. E \subseteq Abi!Capabilities /\ E \subseteq Abi!Supported
  BY DEF Abi!Capabilities
<1>2. Agree(Abi!Supported, S)
  <2>1. HasReal(candidates)
    BY DEF Ambient
  <2> QED
    BY <2>1, SupportedLayout DEF Agree
<1>3. BoundTo(p, b, Abi!Supported, S)
  BY <1>2, RowsBound
<1> HIDE DEF E, b
<1>4. /\ Good(d) /\ d.binding = b.binding
      /\ \A c \in Abi!Capabilities \ E : Same(b, d, c)
  BY <1>1, <1>3, DomainsWritten DEF BoundTo
<1>5. q = Abi!MarkVerified(d, E)
  BY DEF Abi!Revalidated, E, b
<1> HIDE DEF d
<1>6. /\ Good(q) /\ q.binding = d.binding
      /\ \A c \in Abi!Capabilities \ E : Same(d, q, c)
      /\ \A c \in E : q.record[c].state = "verified" /\ q.record[c].at = artifact_generation
  BY <1>1, <1>4, <1>5, VerifiedMarked
<1>7. \A c \in E : c \in q.verified
  BY <1>1, <1>6 DEF Good, MasksAgree
<1> QED
  BY <1>1, <1>3, <1>4, <1>6, <1>7 DEF Same, E, BoundTo

-----------------------------------------------------------------------------
(* The inductive invariant of the adapter                                  *)

(* What the adapter knows of its capabilities: those in use are bound, and *)
(* none outlives an invalidation.                                          *)
ProofsInv ==
  /\ Ambient
  /\ Good(Abi!Current)
  /\ valid => \A c \in Abi!Supported \cap Abi!Capabilities :
                c \in verified \/ c = reader => binding[c] # {}
  /\ reset => ~valid
  /\ Abi!ResetIsUnverified
  /\ Abi!AdmittedIsProved

(* The host closes the admission before it invalidates.                    *)
HostInv ==
  /\ host \in {"idle", "closed", "invalidated"}
  /\ host = "closed" => artifact_generation < MaxGeneration
  /\ admission => host = "idle"

(* What the core serves is of this generation, or is to be forgotten.      *)
ServingInv ==
  /\ coreAt \in 0 .. artifact_generation
  /\ core \in [Abi!Capabilities -> Rows \cup {0}]
  /\ call_layout \in Abi!Layouts /\ call \in Abi!Layouts
  /\ reader \in Abi!Unlocked \cup {"none"}
  /\ host # "invalidated" => coreAt \in {0, artifact_generation}
  /\ \A c \in Abi!Capabilities : core[c] # 0 => coreAt # 0 /\ Abi!Key(c, core[c]) = 1
  /\ call_layout # Abi!NoLayout => call_layout.row # 0

AbiInv == ProofsInv /\ HostInv /\ ServingInv

(* The steps that the two action properties allow.                         *)
ServedStep ==
  /\ \A c \in Abi!Capabilities : core'[c] # 0 => Abi!Key(c, core'[c]) = 1
  /\ coreAt' = coreAt /\ coreAt # 0 => \A c \in Abi!Capabilities : core[c] \in {0, core'[c]}

CallStep == call' \notin {call, Abi!NoLayout} => call'.at = artifact_generation

(* The table does not change, nor what it supports.                        *)
LEMMA TableKept ==
  ASSUME UNCHANGED Abi!table
  PROVE  /\ Abi!Supported' = Abi!Supported
         /\ candidates' = candidates /\ twins' = twins /\ scope' = scope
BY DEF Abi!Supported, Abi!Passes, Abi!Keys, Abi!Key, Abi!table

(* The variables hold the proofs they are set to.                          *)
LEMMA ProofsSet ==
  ASSUME NEW q, Good(q), Abi!Become(q), UNCHANGED Abi!table,
         artifact_generation \in Nat, artifact_generation' \in Nat,
         artifact_generation' >= artifact_generation
  PROVE  /\ Abi!Current' = q
         /\ Good(Abi!Current)'
         /\ binding' = q.binding /\ selected' = q.selected /\ record' = q.record
         /\ verified' = q.verified
<1>1. /\ binding' = q.binding /\ selected' = q.selected
      /\ verified' = q.verified /\ failed' = q.failed /\ record' = q.record
  BY DEF Abi!Become
<1>2. Abi!Current' = q
  BY <1>1 DEF Abi!Current, Good, ProofType
<1>3. candidates' = candidates /\ twins' = twins
  BY DEF Abi!table
<1>4. Abi!Current' \in ProofType'
  <2>1. q \in ProofType
    BY DEF Good
  <2>2. 0 .. artifact_generation \subseteq 0 .. artifact_generation'
    OBVIOUS
  <2>3. RecordType \subseteq RecordType'
    BY <2>2 DEF RecordType
  <2>4. q \in ProofType'
    BY <1>3, <2>1, <2>3 DEF ProofType
  <2> QED
    BY <1>2, <2>4
<1>5. MasksAgree(Abi!Current)'
  BY <1>2 DEF Good, MasksAgree
<1>6. (\A c \in Abi!Capabilities : BoundRight(Abi!Current, c))'
  BY <1>2, <1>3 DEF Good, BoundRight, Abi!Keys, Abi!Key
<1> QED
  BY <1>1, <1>2, <1>4, <1>5, <1>6 DEF Good

(* A capability is verified when its record says so.                       *)
LEMMA VerifiedRecord ==
  ASSUME Good(Abi!Current), NEW c \in Abi!Capabilities
  PROVE  Abi!HasVerified(c) <=> record[c].state = "verified" /\ record[c].at = artifact_generation
BY DEF Good, MasksAgree, Abi!Current, Abi!HasVerified

(* The update of a capability that the root proof does not cover keeps     *)
(* what the adapter knows of all of them.                                  *)
LEMMA UpdateKept ==
  ASSUME ProofsInv, NEW c \in Abi!Capabilities \ Abi!Eager, NEW q, Good(q),
         \A d \in Abi!Capabilities \ {c} : Same(Abi!Current, q, d),
         valid /\ c \in Abi!Supported /\ c \in q.verified => q.binding[c] # {},
         Abi!Become(q), UNCHANGED <<Abi!table, preferred, roots, Abi!artifact, admission>>,
         valid \/ c \in Abi!Unlocked,
         reader' = "none" \/ (reader' = c /\ q.binding[c] # {}),
         "none" \notin Abi!Capabilities
  PROVE  ProofsInv'
<1>1. /\ Good(Abi!Current)'
      /\ binding' = q.binding /\ selected' = q.selected /\ record' = q.record
      /\ verified' = q.verified
  <2>1. artifact_generation \in Nat /\ artifact_generation' = artifact_generation
    BY DEF ProofsInv, Ambient, Abi!artifact
  <2> QED
    BY <2>1, ProofsSet
<1>2. /\ Abi!Supported' = Abi!Supported
      /\ UNCHANGED <<candidates, twins, preferred, roots, valid, quiescing, artifact_generation,
                     reset, admission>>
  BY TableKept DEF Abi!artifact, Abi!table
<1>3. Ambient'
  BY <1>2 DEF ProofsInv, Ambient, HasReal
<1>4. \A d \in Abi!Capabilities \ {c} : /\ d \in verified' <=> d \in verified
                                        /\ Abi!HasVerified(d)' <=> Abi!HasVerified(d)
                                        /\ binding'[d] = binding[d]
  <2> SUFFICES ASSUME NEW d \in Abi!Capabilities \ {c}
               PROVE  /\ d \in verified' <=> d \in verified
                      /\ Abi!HasVerified(d)' <=> Abi!HasVerified(d)
                      /\ binding'[d] = binding[d]
    OBVIOUS
  <2>1. Same(Abi!Current, q, d)
    OBVIOUS
  <2>2. binding'[d] = binding[d] /\ record'[d] = record[d]
    BY <1>1, <2>1 DEF Same, Abi!Current
  <2>3. d \in verified' <=> d \in verified
    <3>1. d \in verified <=> record[d].state = "verified"
      BY DEF ProofsInv, Good, MasksAgree, Abi!Current
    <3>2. d \in q.verified <=> q.record[d].state = "verified"
      BY DEF Good, MasksAgree
    <3> QED
      BY <1>1, <2>2, <3>1, <3>2
  <2> QED
    BY <1>2, <2>2, <2>3 DEF Abi!HasVerified
<1>5. (valid => \A d \in Abi!Supported \cap Abi!Capabilities :
                  d \in verified \/ d = reader => binding[d] # {})'
  <2> SUFFICES ASSUME valid, NEW d \in Abi!Supported \cap Abi!Capabilities,
                      d \in verified' \/ d = reader'
               PROVE  binding'[d] # {}
    BY <1>2
  <2>1. CASE d = c
    BY <1>1, <2>1
  <2>2. CASE d # c
    BY <1>4, <2>2 DEF ProofsInv
  <2> QED
    BY <2>1, <2>2
<1>6. (reset => ~valid)'
  BY <1>2 DEF ProofsInv
<1>7. Abi!ResetIsUnverified'
  BY <1>2, <1>4 DEF ProofsInv, Abi!ResetIsUnverified
<1>8. Abi!AdmittedIsProved'
  <2>1. Abi!Eager \subseteq Abi!Capabilities
    BY DEF Abi!Capabilities
  <2> QED
    BY <1>2, <1>4, <2>1 DEF ProofsInv, Abi!AdmittedIsProved
<1> QED
  BY <1>1, <1>3, <1>5, <1>6, <1>7, <1>8 DEF ProofsInv

(* A proof that is established keeps what the core serves.                 *)
LEMMA EstablishKept ==
  ASSUME AbiInv, NEW c \in Abi!Capabilities, NEW r \in Rows, Abi!Key(c, r) = 1, 0 \notin Rows,
         Abi!Establish(c, r), UNCHANGED <<Abi!table, artifact_generation, call_layout, call>>,
         reader' \in Abi!Unlocked \cup {"none"}
  PROVE  ServingInv' /\ ServedStep
<1>1. artifact_generation \in Nat \ {0}
  BY DEF AbiInv, ProofsInv, Ambient
<1>2. /\ core \in [Abi!Capabilities -> Rows \cup {0}] /\ twins' = twins
      /\ UNCHANGED <<call_layout, call>>
  BY DEF AbiInv, ServingInv, Abi!table
<1>3. coreAt' = artifact_generation
  BY DEF Abi!Establish
<1>4. core' \in [Abi!Capabilities -> Rows \cup {0}]
  BY <1>2 DEF Abi!Establish
<1>5. \A d \in Abi!Capabilities : core'[d] # 0 => Abi!Key(d, core'[d]) = 1
  BY <1>2 DEF AbiInv, ServingInv, Abi!Establish
<1>6. coreAt = artifact_generation => \A d \in Abi!Capabilities : core[d] \in {0, core'[d]}
  BY <1>2 DEF Abi!Establish, Abi!Establishes
<1>7. (\A d \in Abi!Capabilities : core[d] # 0 => coreAt # 0 /\ Abi!Key(d, core[d]) = 1)'
  BY <1>1, <1>2, <1>3, <1>5 DEF Abi!Key
<1>8. ServingInv'
  BY <1>1, <1>2, <1>3, <1>4, <1>7 DEF AbiInv, ServingInv
<1> QED
  BY <1>3, <1>5, <1>6, <1>8 DEF ServedStep

(* The core is not touched.                                                *)
LEMMA CoreUntouched ==
  ASSUME AbiInv, UNCHANGED <<Abi!table, artifact_generation, host, core, coreAt>>,
         call_layout' = call_layout /\ call' = call, reader' \in Abi!Unlocked \cup {"none"}
  PROVE  ServingInv' /\ ServedStep /\ CallStep
<1>1. twins' = twins
  BY DEF Abi!table
<1>2. \A c \in Abi!Capabilities : core'[c] # 0 => Abi!Key(c, core'[c]) = 1
  BY DEF AbiInv, ServingInv
<1>3. (\A c \in Abi!Capabilities : core[c] # 0 => coreAt # 0 /\ Abi!Key(c, core[c]) = 1)'
  BY <1>1 DEF AbiInv, ServingInv, Abi!Key
<1>4. ServingInv'
  BY <1>3 DEF AbiInv, ServingInv
<1> QED
  BY <1>2, <1>4 DEF ServedStep, CallStep

-----------------------------------------------------------------------------
(* The steps of the adapter                                                *)

(* Names that are not capabilities, and capabilities not proved eagerly.   *)
LEMMA Names ==
  /\ "none" \notin Abi!Capabilities
  /\ Abi!Eager \subseteq Abi!Capabilities /\ Abi!Unlocked \subseteq Abi!Capabilities \ Abi!Eager
  /\ Abi!Evidenced \subseteq Abi!Capabilities \ Abi!Eager
  /\ {"bridge", "transition"} \subseteq Abi!Capabilities \ Abi!Eager
BY DEF Abi!Capabilities, Abi!Eager, Abi!Evidenced, Abi!Unlocked

(* The rows that pass a predicate and are not ruled out by the roots.      *)
LEMMA EvidenceLeft ==
  ASSUME Ambient, NEW S \in Abi!Genuine
  PROVE  S \cap roots \subseteq candidates /\ HasReal(S \cap roots)
BY DEF Ambient, Abi!Genuine, HasReal

(* A proof that is published.                                              *)
LEMMA PublishKept ==
  ASSUME AbiInv, Abi!TableAssumption, NEW c \in Abi!Capabilities \ Abi!Eager, Abi!MayProve,
         NEW q, Updates(Abi!Current, q, c), Abi!Publish(q, c)
  PROVE  AbiInv' /\ ServedStep /\ CallStep
<1>1. /\ Abi!Become(q) /\ UNCHANGED <<Abi!table, preferred, roots, Abi!artifact, admission>>
      /\ UNCHANGED <<host, reader, call_layout, call>>
      /\ UNCHANGED <<Abi!table, artifact_generation, host>>
  BY DEF Abi!Publish, Abi!artifact
<1>2. Good(q)
  BY DEF Updates
<1>3. reader = "none" /\ valid
  BY DEF Abi!MayProve
<1>4. ProofsInv'
  BY <1>1, <1>2, <1>3, UpdateKept, Names DEF AbiInv, Updates
<1>5. HostInv'
  BY <1>1 DEF AbiInv, HostInv, Abi!artifact
<1>6. CASE q.record[c].state = "verified" /\ c \in q.verified
  <2>1. Abi!Establish(c, q.selected[c])
    BY <1>6 DEF Abi!Publish
  <2>2. q.binding[c] # {} /\ BoundRight(q, c)
    BY <1>2, <1>6 DEF Updates, Good
  <2>3. q.selected[c] \in q.binding[c] /\ Abi!Key(c, q.selected[c]) = 1
    BY <2>2 DEF BoundRight, Abi!Keys
  <2>4. q.selected[c] \in Rows /\ 0 \notin Rows
    <3>1. q.binding[c] \subseteq candidates
      BY <1>2 DEF Good, ProofType
    <3> QED
      BY <2>3, <3>1 DEF AbiInv, ProofsInv, Ambient, HasReal, Abi!TableAssumption
  <2>5. ServingInv' /\ ServedStep
    BY <1>1, <1>3, <2>1, <2>3, <2>4, EstablishKept
  <2> QED
    BY <1>1, <1>4, <1>5, <2>5 DEF AbiInv, CallStep
<1>7. CASE ~(q.record[c].state = "verified" /\ c \in q.verified)
  <2>1. UNCHANGED <<core, coreAt>>
    BY <1>7 DEF Abi!Publish
  <2>2. ServingInv' /\ ServedStep /\ CallStep
    BY <1>1, <1>3, <2>1, CoreUntouched
  <2> QED
    BY <1>4, <1>5, <2>2 DEF AbiInv
<1> QED
  BY <1>6, <1>7

(* An update under artifact_mutex alone, which the core is not told of.    *)
LEMMA QuietUpdateKept ==
  ASSUME AbiInv, NEW c \in Abi!Capabilities \ Abi!Eager, NEW q, Good(q),
         \A d \in Abi!Capabilities \ {c} : Same(Abi!Current, q, d),
         valid /\ c \in Abi!Supported /\ c \in q.verified => q.binding[c] # {},
         Abi!Become(q), UNCHANGED <<Abi!table, preferred, roots, Abi!artifact, host, Abi!bridge,
                                    call_layout, call>>,
         valid \/ c \in Abi!Unlocked,
         reader' = "none" \/ (reader' = c /\ c \in Abi!Unlocked /\ q.binding[c] # {})
  PROVE  AbiInv' /\ ServedStep /\ CallStep
<1>1. /\ UNCHANGED <<Abi!table, preferred, roots, Abi!artifact, admission>>
      /\ UNCHANGED <<Abi!table, artifact_generation, host, core, coreAt>>
      /\ UNCHANGED <<call_layout, call>>
  BY DEF Abi!artifact, Abi!bridge
<1>2. ProofsInv'
  BY <1>1, UpdateKept, Names DEF AbiInv
<1>3. HostInv'
  BY <1>1 DEF AbiInv, HostInv
<1>4. ServingInv' /\ ServedStep /\ CallStep
  BY <1>1, CoreUntouched
<1> QED
  BY <1>2, <1>3, <1>4 DEF AbiInv

(* Evidence from the heap, for a capability or for the exception bridge.   *)
LEMMA EvidenceKept ==
  ASSUME AbiInv, Abi!TableAssumption, NEW S \in Abi!Genuine,
         \/ \E c \in Abi!Evidenced \cap scope : Abi!ProveEvidence(c, S)
         \/ Abi!ProveExceptionBridge(S)
  PROVE  AbiInv' /\ ServedStep /\ CallStep
<1>1. Ambient /\ Good(Abi!Current)
  BY DEF AbiInv, ProofsInv
<1>2. S \cap roots \subseteq candidates /\ HasReal(S \cap roots)
  BY <1>1, EvidenceLeft
<1>3. ASSUME NEW c \in Abi!Evidenced \cap scope, Abi!ProveEvidence(c, S)
      PROVE  AbiInv' /\ ServedStep /\ CallStep
  <2> DEFINE q == Abi!Proved(c, S \cap roots)
  <2>1. c \in Abi!Capabilities \ Abi!Eager
    BY Names
  <2>2. Updates(Abi!Current, q, c)
    BY <1>1, <1>2, <2>1, EvidenceUpdates
  <2>3. Abi!MayProve /\ Abi!Publish(q, c)
    BY <1>3 DEF Abi!ProveEvidence
  <2> HIDE DEF q
  <2> QED
    BY <2>1, <2>2, <2>3, PublishKept
<1>4. CASE Abi!ProveExceptionBridge(S)
  <2> DEFINE c == "bridge"
             q == IF c \notin Abi!Supported \/ c \in failed
                    THEN Abi!MarkFailed(Abi!Current, {c}) ELSE Abi!Proved(c, S \cap roots)
  <2>1. c \in Abi!Capabilities \ Abi!Eager
    BY Names
  <2>2. Updates(Abi!Current, q, c)
    <3>1. CASE c \notin Abi!Supported \/ c \in failed
      BY <1>1, <2>1, <3>1, FailureUpdates
    <3>2. CASE ~(c \notin Abi!Supported \/ c \in failed)
      BY <1>1, <1>2, <2>1, <3>2, EvidenceUpdates
    <3> QED
      BY <3>1, <3>2
  <2>3. Abi!MayProve /\ Abi!Publish(q, c)
    BY <1>4 DEF Abi!ProveExceptionBridge
  <2> HIDE DEF q, c
  <2> QED
    BY <2>1, <2>2, <2>3, PublishKept
<1> QED
  BY <1>3, <1>4

(* A receipt of an earlier observation.                                    *)
LEMMA ReceiptKept ==
  ASSUME AbiInv, Abi!TableAssumption, NEW c \in Abi!Evidenced, Abi!ProveReceipt(c)
  PROVE  AbiInv' /\ ServedStep /\ CallStep
<1> DEFINE d == Abi!SetDomains(Abi!Current, {c})
           q == Abi!MarkVerified(d, {c})
<1>1. Ambient /\ Good(Abi!Current)
  BY DEF AbiInv, ProofsInv
<1>2. c \in Abi!Capabilities \ Abi!Eager /\ {c} \subseteq Abi!Capabilities
  BY Names
<1>3. /\ Good(d) /\ d.binding = Abi!Current.binding
      /\ \A e \in Abi!Capabilities \ {c} : Same(Abi!Current, d, e)
  BY <1>1, <1>2, DomainsWritten
<1>4. d.binding[c] # {}
  BY <1>3 DEF Abi!ProveReceipt, Abi!Current
<1>5. Abi!MayProve /\ Abi!Publish(q, c)
  BY DEF Abi!ProveReceipt
<1> HIDE DEF d
<1>6. Updates(d, q, c)
  BY <1>1, <1>2, <1>3, <1>4, SuccessUpdates
<1> HIDE DEF q
<1>7. Updates(Abi!Current, q, c)
  BY <1>3, <1>6, UpdatesTwice
<1> QED
  BY <1>2, <1>5, <1>7, PublishKept

(* A transition is proved, unless it is verified, and may fail.            *)
LEMMA TransitionKept ==
  ASSUME AbiInv, Abi!TableAssumption, NEW S \in Abi!Genuine, NEW generated \in BOOLEAN,
         Abi!ProveTransition(S, generated)
  PROVE  AbiInv' /\ ServedStep /\ CallStep
<1> DEFINE c == "transition"
           s == Abi!Select(Abi!Current, c, S \cap roots)
           p == IF Abi!HasVerified(c) THEN Abi!Current
                ELSE IF Abi!Passes(c, S \cap roots) THEN Abi!MarkVerified(s, {c}) ELSE s
           q == IF generated \/ c \notin p.verified THEN p ELSE Abi!MarkFailed(p, {c})
<1>1. Ambient /\ Good(Abi!Current)
  BY DEF AbiInv, ProofsInv
<1>2. S \cap roots \subseteq candidates /\ HasReal(S \cap roots)
  BY <1>1, EvidenceLeft
<1>3. c \in Abi!Capabilities \ Abi!Eager
  BY Names
<1>4. reader = "none" /\ valid /\ c \in Abi!Supported
  BY DEF Abi!ProveTransition
<1>5. /\ Abi!Become(q) /\ UNCHANGED <<Abi!table, preferred, roots, Abi!artifact, host,
                                      Abi!bridge, call_layout, call>>
      /\ reader' = "none"
  BY <1>4 DEF Abi!ProveTransition
<1>6. /\ Good(s)
      /\ \A d \in Abi!Capabilities \ {c} : Same(Abi!Current, s, d)
      /\ Abi!Passes(c, S \cap roots) => s.binding[c] # {}
      /\ ~Abi!Passes(c, S \cap roots) => c \notin s.verified
  BY <1>1, <1>2, <1>3, RowsSelected
<1>7. Updates(Abi!Current, p, c)
  <2>1. CASE Abi!HasVerified(c)
    <3>1. binding[c] # {}
      BY <1>3, <1>4, <2>1 DEF AbiInv, ProofsInv, Abi!HasVerified
    <3> QED
      BY <1>1, <2>1, <3>1 DEF Updates, Same, Abi!Current
  <2>2. CASE ~Abi!HasVerified(c) /\ Abi!Passes(c, S \cap roots)
    <3>1. p = Abi!MarkVerified(s, {c})
      BY <2>2
    <3> HIDE DEF s, p
    <3>2. Updates(s, p, c)
      BY <1>1, <1>3, <1>6, <2>2, <3>1, SuccessUpdates
    <3> QED
      BY <1>6, <3>2, UpdatesTwice
  <2>3. CASE ~Abi!HasVerified(c) /\ ~Abi!Passes(c, S \cap roots)
    <3>1. p = s
      BY <2>3
    <3> HIDE DEF s, p
    <3> QED
      BY <1>6, <2>3, <3>1 DEF Updates
  <2> QED
    BY <2>1, <2>2, <2>3
<1> HIDE DEF s, p
<1>8. Updates(Abi!Current, q, c)
  <2>1. CASE generated \/ c \notin p.verified
    BY <1>7, <2>1
  <2>2. CASE ~(generated \/ c \notin p.verified)
    <3>1. q = Abi!MarkFailed(p, {c})
      BY <2>2
    <3>2. Good(p) /\ \A d \in Abi!Capabilities \ {c} : Same(Abi!Current, p, d)
      BY <1>7 DEF Updates
    <3> HIDE DEF q
    <3>3. Updates(p, q, c)
      BY <1>1, <1>3, <3>1, <3>2, FailureUpdates
    <3> QED
      BY <3>2, <3>3, UpdatesTwice
  <2> QED
    BY <2>1, <2>2
<1> HIDE DEF q, c
<1> QED
  BY <1>3, <1>4, <1>5, <1>8, QuietUpdateKept DEF Updates

(* A read without artifact_mutex binds its capability when it begins and   *)
(* marks it when it ends, whatever the host did meanwhile.                 *)
LEMMA ReadsKept ==
  ASSUME AbiInv, Abi!TableAssumption,
         Abi!EndRead \/ \E S \in Abi!Genuine, c \in Abi!Unlocked : Abi!BeginRead(c, S)
  PROVE  AbiInv' /\ ServedStep /\ CallStep
<1>1. Ambient /\ Good(Abi!Current)
  BY DEF AbiInv, ProofsInv
<1>2. ASSUME NEW S \in Abi!Genuine, NEW c \in Abi!Unlocked, Abi!BeginRead(c, S)
      PROVE  AbiInv' /\ ServedStep /\ CallStep
  <2> DEFINE q == Abi!Select(Abi!Current, c, S \cap roots)
  <2>1. S \cap roots \subseteq candidates /\ HasReal(S \cap roots)
    BY <1>1, EvidenceLeft
  <2>2. c \in Abi!Capabilities \ Abi!Eager
    BY Names
  <2>3. /\ Good(q)
        /\ \A d \in Abi!Capabilities \ {c} : Same(Abi!Current, q, d)
        /\ Abi!Passes(c, S \cap roots) => q.binding[c] # {}
        /\ ~Abi!Passes(c, S \cap roots) => c \notin q.verified
    BY <1>1, <2>1, <2>2, RowsSelected
  <2>4. /\ Abi!Become(q)
        /\ UNCHANGED <<Abi!table, preferred, roots, Abi!artifact, host, Abi!bridge, call_layout,
                       call>>
        /\ reader' = IF Abi!Passes(c, S \cap roots) THEN c ELSE "none"
    BY <1>2 DEF Abi!BeginRead
  <2> HIDE DEF q
  <2> QED
    BY <2>2, <2>3, <2>4, QuietUpdateKept
<1>3. CASE Abi!EndRead
  <2> DEFINE c == reader
  <2>1. c \in Abi!Unlocked /\ c \in Abi!Capabilities \ Abi!Eager /\ {c} \subseteq Abi!Capabilities
    BY <1>3, Names DEF Abi!EndRead, AbiInv, ServingInv
  <2>2. /\ UNCHANGED <<Abi!table, preferred, roots, Abi!artifact, host, Abi!bridge, call_layout,
                       call>>
        /\ reader' = "none"
    BY <1>3 DEF Abi!EndRead
  <2>3. CASE Abi!Become(Abi!MarkVerified(Abi!Current, {reader}))
    <3> DEFINE q == Abi!MarkVerified(Abi!Current, {c})
    <3>1. /\ Good(q) /\ q.binding = Abi!Current.binding
          /\ \A d \in Abi!Capabilities \ {c} : Same(Abi!Current, q, d)
      BY <1>1, <2>1, VerifiedMarked
    <3>2. valid /\ c \in Abi!Supported => q.binding[c] # {}
      BY <2>1, <3>1 DEF AbiInv, ProofsInv, Abi!Current
    <3>3. Abi!Become(q)
      BY <2>3
    <3> HIDE DEF q, c
    <3> QED
      BY <2>1, <2>2, <3>1, <3>2, <3>3, QuietUpdateKept
  <2>4. CASE Abi!Become(Abi!MarkFailed(Abi!Current, {reader}))
    <3> DEFINE q == Abi!MarkFailed(Abi!Current, {c})
    <3>1. Updates(Abi!Current, q, c)
      BY <1>1, <2>1, FailureUpdates
    <3>2. Abi!Become(q)
      BY <2>4
    <3> HIDE DEF q, c
    <3> QED
      BY <2>1, <2>2, <3>1, <3>2, QuietUpdateKept DEF Updates
  <2> QED
    BY <1>3, <2>3, <2>4 DEF Abi!EndRead
<1> QED
  BY <1>2, <1>3

-----------------------------------------------------------------------------
(* The steps of the host and of the hooks                                  *)

(* The host closes the admission, to quiesce or to invalidate.             *)
LEMMA ClosingKept ==
  ASSUME AbiInv, Abi!Quiesce \/ Abi!Close
  PROVE  AbiInv' /\ ServedStep /\ CallStep
<1>1. /\ UNCHANGED <<Abi!table, preferred, roots, Abi!proofs, reader, core, coreAt, call_layout,
                     call>>
      /\ UNCHANGED <<valid, artifact_generation, reset>> /\ admission' = FALSE
      /\ \/ host' = host
         \/ host' = "closed" /\ host = "idle" /\ artifact_generation < MaxGeneration
  BY DEF Abi!Quiesce, Abi!Close, Abi!artifact
<1>2. Good(Abi!Current)'
  <2>1. Abi!Become(Abi!Current) /\ Good(Abi!Current)
    BY <1>1 DEF Abi!Become, Abi!Current, Abi!proofs, AbiInv, ProofsInv
  <2>2. artifact_generation \in Nat
    BY DEF AbiInv, ProofsInv, Ambient
  <2> QED
    BY <1>1, <2>1, <2>2, ProofsSet
<1>3. UNCHANGED <<binding, verified, record, candidates>> /\ Abi!Supported' = Abi!Supported
  BY <1>1, TableKept DEF Abi!proofs, Abi!table
<1>4. Ambient'
  BY <1>1, <1>3 DEF AbiInv, ProofsInv, Ambient, HasReal
<1>5. ProofsInv'
  BY <1>1, <1>2, <1>3, <1>4 DEF AbiInv, ProofsInv, Abi!ResetIsUnverified, Abi!AdmittedIsProved,
                                Abi!HasVerified
<1>6. HostInv'
  BY <1>1 DEF AbiInv, HostInv
<1>7. ServingInv'
  BY <1>1 DEF AbiInv, ServingInv, Abi!Key, Abi!table
<1>8. ServedStep /\ CallStep
  BY <1>1 DEF AbiInv, ServingInv, ServedStep, CallStep
<1> QED
  BY <1>5, <1>6, <1>7, <1>8 DEF AbiInv

(* The artifact functions invalidate the binding: nothing of the new       *)
(* generation is verified.                                                 *)
LEMMA InvalidateKept ==
  ASSUME AbiInv, Abi!Invalidate
  PROVE  AbiInv' /\ ServedStep /\ CallStep
<1> DEFINE q == Abi!Reset(Abi!Current)
<1>1. Ambient /\ Good(Abi!Current)
  BY DEF AbiInv, ProofsInv
<1>2. /\ Good(q)
      /\ \A c \in Abi!Capabilities :
           IF c \in Abi!Supported THEN c \notin q.verified ELSE Same(Abi!Current, q, c)
  BY <1>1, ResetEffect
<1>3. /\ Abi!Become(q) /\ UNCHANGED <<Abi!table, preferred, roots, reader, Abi!bridge,
                                      call_layout, call>>
      /\ valid' = FALSE /\ artifact_generation' = artifact_generation + 1 /\ host' = "invalidated"
      /\ host = "closed"
  BY DEF Abi!Invalidate
<1> HIDE DEF q
<1>4. /\ Good(Abi!Current)' /\ record' = q.record /\ verified' = q.verified
  <2>1. artifact_generation \in Nat
    BY <1>1 DEF Ambient
  <2> QED
    BY <1>2, <1>3, <2>1, ProofsSet
<1>5. /\ artifact_generation < MaxGeneration /\ artifact_generation \in 1 .. MaxGeneration
      /\ MaxGeneration \in Nat
  BY <1>1, <1>3 DEF AbiInv, HostInv, Ambient
<1>6. Ambient'
  BY <1>1, <1>3, <1>5 DEF Ambient, HasReal, Abi!table
<1>7. \A c \in Abi!Capabilities : ~Abi!HasVerified(c)'
  <2> SUFFICES ASSUME NEW c \in Abi!Capabilities, Abi!HasVerified(c)' PROVE FALSE
    OBVIOUS
  <2>1. c \in q.verified /\ q.record[c].at = artifact_generation + 1
    BY <1>3, <1>4 DEF Abi!HasVerified
  <2>2. Same(Abi!Current, q, c)
    BY <1>2, <2>1
  <2>3. q.record[c].at \in 0 .. artifact_generation
    BY <2>2, <1>1 DEF Same, Good, ProofType, RecordType, Abi!Current
  <2> QED
    BY <1>5, <2>1, <2>3
<1>8. Abi!ResetIsUnverified'
  BY <1>7 DEF Abi!ResetIsUnverified
<1>9. Abi!AdmittedIsProved'
  BY <1>3 DEF Abi!AdmittedIsProved
<1>10. ProofsInv'
  BY <1>3, <1>4, <1>6, <1>8, <1>9 DEF ProofsInv
<1>11. HostInv'
  BY <1>3 DEF AbiInv, HostInv, Abi!bridge
<1>12. ServingInv'
  BY <1>3, <1>5 DEF AbiInv, ServingInv, Abi!bridge, Abi!Key, Abi!table
<1>13. ServedStep /\ CallStep
  BY <1>3 DEF AbiInv, ServingInv, ServedStep, CallStep, Abi!bridge
<1> QED
  BY <1>10, <1>11, <1>12, <1>13 DEF AbiInv

(* The core forgets what it served.                                        *)
LEMMA ForgetKept ==
  ASSUME AbiInv, Abi!Forget
  PROVE  AbiInv' /\ ServedStep /\ CallStep
<1>1. /\ UNCHANGED <<Abi!table, preferred, roots, Abi!proofs, Abi!artifact, reader, admission,
                     call_layout, call>>
      /\ core' = [c \in Abi!Capabilities |-> 0] /\ coreAt' = 0 /\ host' = "idle"
  BY DEF Abi!Forget
<1>2. artifact_generation \in Nat \ {0} /\ artifact_generation' = artifact_generation
  BY <1>1 DEF AbiInv, ProofsInv, Ambient, Abi!artifact
<1>3. Good(Abi!Current)'
  <2>1. Abi!Become(Abi!Current) /\ Good(Abi!Current)
    BY <1>1 DEF Abi!Become, Abi!Current, Abi!proofs, AbiInv, ProofsInv
  <2> QED
    BY <1>1, <1>2, <2>1, ProofsSet
<1>4. /\ UNCHANGED <<binding, verified, record, candidates, valid, reset, artifact_generation>>
      /\ Abi!Supported' = Abi!Supported
  BY <1>1, TableKept DEF Abi!proofs, Abi!table, Abi!artifact
<1>5. Ambient'
  BY <1>1, <1>4 DEF AbiInv, ProofsInv, Ambient, HasReal
<1>6. ProofsInv'
  BY <1>1, <1>3, <1>4, <1>5 DEF AbiInv, ProofsInv, Abi!ResetIsUnverified, Abi!AdmittedIsProved,
                                Abi!HasVerified
<1>7. HostInv'
  BY <1>1 DEF AbiInv, HostInv
<1>8. ServingInv'
  BY <1>1, <1>2 DEF AbiInv, ServingInv
<1>9. ServedStep /\ CallStep
  BY <1>1 DEF AbiInv, ServingInv, ServedStep, CallStep
<1> QED
  BY <1>6, <1>7, <1>8, <1>9 DEF AbiInv

(* The same incarnation is proved again, or is found to be gone.           *)
LEMMA RevalidateKept ==
  ASSUME AbiInv, Abi!TableAssumption, NEW there \in BOOLEAN, NEW S \in Abi!Genuine,
         Abi!Revalidate(there, S)
  PROVE  AbiInv' /\ ServedStep /\ CallStep
<1> DEFINE passing == S \cap candidates
           proved == there /\ Abi!Passes("roots", passing)
           q == Abi!Revalidated(Abi!Current, passing)
<1>1. /\ UNCHANGED <<Abi!table, artifact_generation, host, reader, core, coreAt, call_layout, call>>
      /\ host = "idle" /\ valid' = proved
      /\ roots' = IF ~there THEN roots ELSE IF proved THEN passing ELSE {}
      /\ IF proved
           THEN /\ preferred' = Abi!Representative(preferred, passing)
                /\ Abi!Become(q) /\ reset' = FALSE
           ELSE UNCHANGED <<preferred, Abi!proofs, quiescing, admission, reset>>
  BY DEF Abi!Revalidate
<1>2. Ambient /\ Good(Abi!Current) /\ artifact_generation \in Nat
  BY DEF AbiInv, ProofsInv, Ambient
<1>3. passing \subseteq candidates /\ HasReal(passing)
  BY <1>2 DEF Ambient, Abi!Genuine, HasReal
<1>4. Abi!Supported' = Abi!Supported /\ candidates' = candidates
  BY <1>1, TableKept
<1>5. HostInv'
  BY <1>1 DEF AbiInv, HostInv
<1>6. ServingInv' /\ ServedStep /\ CallStep
  <2>1. /\ UNCHANGED <<Abi!table, artifact_generation, host, core, coreAt>>
        /\ call_layout' = call_layout /\ call' = call
    BY <1>1
  <2>2. reader' \in Abi!Unlocked \cup {"none"}
    BY <1>1 DEF AbiInv, ServingInv
  <2> QED
    BY <2>1, <2>2, CoreUntouched
<1> HIDE DEF passing, q
<1>7. CASE proved
  <2>1. passing # {}
    BY <1>3, <1>7, OneLayout
  <2>2. preferred' \in candidates
    <3>1. passing \subseteq Rows
      BY <1>3 DEF HasReal
    <3> QED
      BY <1>1, <1>3, <1>7, <2>1, <3>1, LeastIsIn DEF Abi!Representative
  <2>3. Ambient'
    BY <1>1, <1>2, <1>3, <1>4, <1>7, <2>2 DEF Ambient, HasReal
  <2>4. /\ Good(q)
        /\ \A c \in Abi!Supported \cap Abi!Capabilities : q.binding[c] # {}
        /\ \A c \in Abi!Eager \cap Abi!Supported :
             c \in q.verified /\ q.record[c].at = artifact_generation
    BY <1>2, <1>3, <2>1, RevalidatedEffect DEF q
  <2>5. /\ Good(Abi!Current)' /\ binding' = q.binding /\ verified' = q.verified
        /\ record' = q.record
    BY <1>1, <1>2, <1>7, <2>4, ProofsSet
  <2>6. Abi!AdmittedIsProved'
    <3> SUFFICES ASSUME NEW c \in Abi!Eager \cap Abi!Supported PROVE Abi!HasVerified(c)'
      BY <1>4 DEF Abi!AdmittedIsProved
    <3>1. c \in q.verified /\ q.record[c].at = artifact_generation
      BY <2>4
    <3>2. q.record[c].state = "verified"
      BY <2>4, <3>1 DEF Good, MasksAgree
    <3> QED
      BY <1>1, <2>5, <3>1, <3>2 DEF Abi!HasVerified
  <2>7. reset' = FALSE
    BY <1>1, <1>7
  <2>8. ProofsInv'
    BY <1>4, <2>3, <2>4, <2>5, <2>6, <2>7 DEF ProofsInv, Abi!ResetIsUnverified
  <2> QED
    BY <1>5, <1>6, <2>8 DEF AbiInv
<1>8. CASE ~proved
  <2>1. /\ valid' = FALSE /\ roots' \in {roots, {}}
        /\ UNCHANGED <<preferred, Abi!proofs, reset>>
    BY <1>1, <1>8
  <2>2. Good(Abi!Current)'
    <3>1. Abi!Become(Abi!Current)
      BY <2>1 DEF Abi!Become, Abi!Current, Abi!proofs
    <3> QED
      BY <1>1, <1>2, <3>1, ProofsSet
  <2>3. Ambient'
    BY <1>1, <1>2, <1>4, <2>1 DEF Ambient, HasReal
  <2>4. Abi!ResetIsUnverified' /\ Abi!AdmittedIsProved'
    BY <1>1, <2>1 DEF AbiInv, ProofsInv, Abi!ResetIsUnverified, Abi!AdmittedIsProved,
                      Abi!HasVerified, Abi!proofs
  <2>5. ProofsInv'
    BY <2>1, <2>2, <2>3, <2>4 DEF ProofsInv
  <2> QED
    BY <1>5, <1>6, <2>5 DEF AbiInv
<1> QED
  BY <1>7, <1>8

(* A hook takes the layout that is served, and a call that of its hook if  *)
(* it is still served.                                                     *)
LEMMA HooksKept ==
  ASSUME AbiInv, Abi!InstallHook \/ Abi!BeginInvocation \/ Abi!EndInvocation \/ UNCHANGED Abi!vars
  PROVE  AbiInv' /\ ServedStep /\ CallStep
<1>1. /\ UNCHANGED <<Abi!table, preferred, roots, Abi!proofs, Abi!artifact, host, reader,
                     Abi!bridge>>
      /\ \/ UNCHANGED <<call_layout, call>>
         \/ Abi!InstallHook
         \/ Abi!BeginInvocation
         \/ call_layout' = call_layout /\ call' = Abi!NoLayout
  BY DEF Abi!InstallHook, Abi!BeginInvocation, Abi!EndInvocation, Abi!vars
<1>2. /\ artifact_generation \in Nat \ {0} /\ MaxGeneration \in Nat
      /\ artifact_generation <= MaxGeneration
  BY DEF AbiInv, ProofsInv, Ambient
<1>3. Good(Abi!Current)'
  <2>1. Abi!Become(Abi!Current) /\ Good(Abi!Current)
    BY <1>1 DEF Abi!Become, Abi!Current, Abi!proofs, AbiInv, ProofsInv
  <2>2. artifact_generation' = artifact_generation
    BY <1>1 DEF Abi!artifact
  <2> QED
    BY <1>1, <1>2, <2>1, <2>2, ProofsSet
<1>4. /\ UNCHANGED <<binding, verified, record, candidates, twins, valid, reset,
                     artifact_generation, admission, core, coreAt>>
      /\ Abi!Supported' = Abi!Supported
  BY <1>1, TableKept DEF Abi!proofs, Abi!table, Abi!artifact, Abi!bridge
<1>5. Ambient'
  BY <1>1, <1>4 DEF AbiInv, ProofsInv, Ambient, HasReal
<1>6. ProofsInv'
  BY <1>1, <1>3, <1>4, <1>5 DEF AbiInv, ProofsInv, Abi!ResetIsUnverified, Abi!AdmittedIsProved,
                                Abi!HasVerified
<1>7. HostInv'
  BY <1>1, <1>4 DEF AbiInv, HostInv
<1>8. /\ call_layout' \in Abi!Layouts /\ call' \in Abi!Layouts
      /\ (call_layout' # Abi!NoLayout => call_layout'.row # 0)
  <2>1. /\ call_layout \in Abi!Layouts /\ call \in Abi!Layouts
        /\ (call_layout # Abi!NoLayout => call_layout.row # 0)
    BY DEF AbiInv, ServingInv
  <2>2. Abi!NoLayout \in Abi!Layouts
    BY <1>2 DEF Abi!NoLayout, Abi!Layouts
  <2>3. CASE Abi!InstallHook
    <3>1. /\ call_layout' = [row |-> core["call"], at |-> coreAt] /\ call' = call
          /\ core["call"] # 0
      BY <2>3 DEF Abi!InstallHook
    <3>2. "call" \in Abi!Capabilities
      BY DEF Abi!Capabilities, Abi!Evidenced
    <3>3. core["call"] \in Rows \cup {0} /\ coreAt \in 0 .. MaxGeneration
      BY <1>2, <3>2 DEF AbiInv, ServingInv
    <3> QED
      BY <2>1, <3>1, <3>3 DEF Abi!Layouts
  <2>4. CASE ~Abi!InstallHook
    BY <1>1, <2>1, <2>2, <2>4 DEF Abi!BeginInvocation
  <2> QED
    BY <2>3, <2>4
<1>9. ServingInv'
  BY <1>1, <1>4, <1>8 DEF AbiInv, ServingInv, Abi!Key
<1>10. ServedStep
  BY <1>4 DEF AbiInv, ServingInv, ServedStep
<1>11. CallStep
  <2> SUFFICES ASSUME call' \notin {call, Abi!NoLayout} PROVE call'.at = artifact_generation
    BY DEF CallStep
  <2>1. Abi!BeginInvocation
    BY <1>1 DEF Abi!InstallHook
  <2>2. /\ call' = call_layout /\ call_layout # Abi!NoLayout /\ admission
        /\ core["call"] = call_layout.row /\ coreAt = call_layout.at
    BY <2>1 DEF Abi!BeginInvocation, Abi!Served
  <2>3. "call" \in Abi!Capabilities
    BY DEF Abi!Capabilities, Abi!Evidenced
  <2>4. coreAt # 0 /\ coreAt \in {0, artifact_generation}
    BY <2>2, <2>3 DEF AbiInv, ServingInv, HostInv
  <2> QED
    BY <2>2, <2>4
<1> QED
  BY <1>6, <1>7, <1>9, <1>10, <1>11 DEF AbiInv

-----------------------------------------------------------------------------
(* What the adapter keeps                                                  *)

(* An adapter that was created has verified what the root proof covers.    *)
LEMMA CreatedHolds == ASSUME Abi!TableAssumption, Abi!Init PROVE AbiInv
<1>1. Ambient
  BY DEF Abi!Init, Abi!TableAssumption, Ambient, Abi!Genuine, HasReal
<1>2. candidates \subseteq Rows /\ preferred \in candidates /\ artifact_generation = 1
  BY DEF Abi!Init, Abi!Genuine
<1>3. Abi!Eager \subseteq Abi!Capabilities
  BY Names
<1>4. record \in [Abi!Capabilities -> RecordType]
  <2> SUFFICES ASSUME NEW c \in Abi!Capabilities PROVE Abi!Fresh(c) \in RecordType
    BY DEF Abi!Init
  <2> QED
    BY <1>2 DEF Abi!Fresh, RecordType, Abi!States, Abi!Key
<1>5. /\ binding \in [Abi!Capabilities -> SUBSET candidates]
      /\ selected \in [Abi!Capabilities -> Rows \cup {0}]
  BY <1>2 DEF Abi!Init
<1>6. verified = Abi!Eager \cap Abi!Supported /\ failed = {}
  BY DEF Abi!Init
<1>7. Abi!Current \in ProofType
  BY <1>3, <1>4, <1>5, <1>6 DEF Abi!Current, ProofType
<1>8. \A c \in Abi!Capabilities :
        /\ record[c].state = "verified" <=> c \in Abi!Eager \cap Abi!Supported
        /\ record[c].state \notin {"failed", "ambiguous"}
        /\ c \in Abi!Eager \cap Abi!Supported => record[c].at = 1
  BY DEF Abi!Init, Abi!Fresh
<1>9. MasksAgree(Abi!Current)
  BY <1>3, <1>6, <1>8 DEF MasksAgree, Abi!Current
<1>10. \A c \in Abi!Capabilities : BoundRight(Abi!Current, c)
  <2> SUFFICES ASSUME NEW c \in Abi!Capabilities PROVE BoundRight(Abi!Current, c)
    OBVIOUS
  <2>1. CASE c \in Abi!Supported
    <3>1. binding[c] = candidates /\ selected[c] = preferred
      BY <2>1 DEF Abi!Init
    <3>2. Abi!Keys(c, candidates) \subseteq {1}
      BY <1>1, <2>1, SupportedLayout DEF Ambient
    <3> QED
      BY <1>2, <3>1, <3>2 DEF BoundRight, Abi!Current
  <2>2. CASE c \notin Abi!Supported
    <3>1. binding[c] = {}
      BY <2>2 DEF Abi!Init
    <3> QED
      BY <3>1 DEF BoundRight, Abi!Current, Abi!Keys
  <2> QED
    BY <2>1, <2>2
<1>11. Good(Abi!Current)
  BY <1>7, <1>9, <1>10 DEF Good
<1>12. \A c \in Abi!Supported \cap Abi!Capabilities : binding[c] # {}
  BY <1>2 DEF Abi!Init
<1>13. Abi!AdmittedIsProved
  BY <1>2, <1>3, <1>6, <1>8 DEF Abi!AdmittedIsProved, Abi!HasVerified
<1>14. ProofsInv
  BY <1>1, <1>11, <1>12, <1>13 DEF ProofsInv, Abi!ResetIsUnverified, Abi!Init
<1>15. HostInv
  BY DEF Abi!Init, HostInv
<1>16. ServingInv
  BY DEF Abi!Init, ServingInv, Abi!Layouts, Abi!NoLayout, Abi!TableAssumption
<1> QED
  BY <1>14, <1>15, <1>16 DEF AbiInv

(* Every step keeps it, and is one the action properties allow.            *)
LEMMA StepHolds ==
  ASSUME Abi!TableAssumption, AbiInv, [Abi!Next]_(Abi!vars)
  PROVE  AbiInv' /\ ServedStep /\ CallStep
<1>1. ASSUME NEW S \in Abi!Genuine, Abi!ProveAny(S) PROVE AbiInv' /\ ServedStep /\ CallStep
  <2>1. CASE \/ \E c \in Abi!Evidenced \cap scope : Abi!ProveEvidence(c, S)
             \/ Abi!ProveExceptionBridge(S)
    BY <2>1, EvidenceKept
  <2>2. CASE \E generated \in BOOLEAN : Abi!ProveTransition(S, generated)
    BY <2>2, TransitionKept
  <2>3. CASE \E c \in Abi!Unlocked : Abi!BeginRead(c, S)
    BY <2>3, ReadsKept
  <2> QED
    BY <1>1, <2>1, <2>2, <2>3 DEF Abi!ProveAny
<1>2. CASE \E c \in Abi!Evidenced \ {"descriptor"} : Abi!ProveReceipt(c)
  BY <1>2, ReceiptKept
<1>3. CASE Abi!EndRead
  BY <1>3, ReadsKept
<1>4. CASE Abi!Host
  <2>1. CASE \E there \in BOOLEAN, S \in Abi!Genuine : Abi!Revalidate(there, S)
    BY <2>1, RevalidateKept
  <2> QED
    BY <1>4, <2>1, ClosingKept, InvalidateKept, ForgetKept DEF Abi!Host
<1>5. CASE Abi!InstallHook \/ Abi!BeginInvocation \/ Abi!EndInvocation \/ UNCHANGED Abi!vars
  BY <1>5, HooksKept
<1> QED
  BY <1>1, <1>2, <1>3, <1>4, <1>5 DEF Abi!Next

(* The invariant implies every report of ProofsAgree.                      *)
LEMMA ReportsFollow == ASSUME Abi!TableAssumption, AbiInv PROVE Abi!ProofsAgree
<1>1. Ambient /\ Good(Abi!Current)
  BY DEF AbiInv, ProofsInv
<1>2. /\ binding \in [Abi!Capabilities -> SUBSET candidates]
      /\ selected \in [Abi!Capabilities -> Rows \cup {0}]
      /\ record \in [Abi!Capabilities -> RecordType]
  BY <1>1 DEF Good, ProofType, Abi!Current
<1>3. RecordType \subseteq [state : Abi!States, key : 0 .. 2, at : 0 .. MaxGeneration]
  BY <1>1 DEF RecordType, Ambient
<1>4. record \in [Abi!Capabilities -> [state : Abi!States, key : 0 .. 2, at : 0 .. MaxGeneration]]
  BY <1>2, <1>3
<1>5. /\ verified = {c \in Abi!Capabilities : record[c].state = "verified"}
      /\ failed = {c \in Abi!Capabilities : record[c].state \in {"failed", "ambiguous"}}
  BY <1>1 DEF Good, MasksAgree, Abi!Current
<1>6. Abi!TypeOK
  BY <1>1, <1>2, <1>4, <1>5 DEF Abi!TypeOK, AbiInv, HostInv, ServingInv, Ambient, HasReal
<1>7. Abi!VerifiedIsReal
  <2> SUFFICES ASSUME NEW c \in Abi!Capabilities, Abi!Reported(c) = "verified"
               PROVE  /\ Abi!Keys(c, binding[c]) \subseteq {1}
                      /\ valid => binding[c] # {} /\ selected[c] \in binding[c]
    BY DEF Abi!VerifiedIsReal
  <2>1. c \in Abi!Supported /\ c \in verified
    BY DEF Abi!Reported, Abi!HasVerified
  <2>2. BoundRight(Abi!Current, c)
    BY <1>1 DEF Good
  <2> QED
    BY <2>1, <2>2 DEF BoundRight, Abi!Current, AbiInv, ProofsInv
<1> QED
  BY <1>6, <1>7 DEF Abi!ProofsAgree, AbiInv, ProofsInv

(* The inductive invariant holds of every behaviour of the adapter.        *)
THEOREM ProofRecordsHold ==
  ASSUME Abi!TableAssumption
  PROVE  Abi!Spec => []AbiInv
<1>1. Abi!Init => AbiInv
  BY CreatedHolds
<1>2. AbiInv /\ [Abi!Next]_(Abi!vars) => AbiInv'
  BY StepHolds
<1> QED
  BY <1>1, <1>2, PTL DEF Abi!Spec

(* Every report of a proof is true of the running VM and of the artifact   *)
(* that is bound: what is verified has its layout, an invalidation leaves  *)
(* nothing verified, and nothing is admitted before the roots are proved.  *)
THEOREM ProofsAgreeHolds ==
  ASSUME Abi!TableAssumption
  PROVE  Abi!Spec => []Abi!ProofsAgree
<1>1. AbiInv => Abi!ProofsAgree
  BY ReportsFollow
<1> QED
  BY <1>1, ProofRecordsHold, PTL

(* What the core serves of one generation has the layout of the running VM *)
(* and keeps its profile.                                                  *)
THEOREM ServedIsStableHolds ==
  ASSUME Abi!TableAssumption
  PROVE  Abi!Spec => Abi!ServedIsStable
<1>1. AbiInv /\ [Abi!Next]_(Abi!vars) =>
        [/\ \A c \in Abi!Capabilities : core'[c] # 0 => Abi!Key(c, core'[c]) = 1
         /\ coreAt' = coreAt /\ coreAt # 0 =>
              \A c \in Abi!Capabilities : core[c] \in {0, core'[c]}]_(Abi!vars)
  BY StepHolds DEF ServedStep
<1> QED
  BY <1>1, ProofRecordsHold, PTL DEF Abi!Spec, Abi!ServedIsStable

(* A call starts only with the layout of the current artifact generation.  *)
THEOREM CallIsCurrentHolds ==
  ASSUME Abi!TableAssumption
  PROVE  Abi!Spec => Abi!CallIsCurrent
<1>1. AbiInv /\ [Abi!Next]_(Abi!vars) =>
        [call' \notin {call, Abi!NoLayout} => call'.at = artifact_generation]_(Abi!vars)
  BY StepHolds DEF CallStep
<1> QED
  BY <1>1, ProofRecordsHold, PTL DEF Abi!Spec, Abi!CallIsCurrent
-----------------------------------------------------------------------------
(* The parts of a directory                                                *)

(* Where an info comes from: its owner slot is the one of its Function,    *)
(* which is found in its class or as the owner of its Code.                *)
Collected(x) ==
  /\ x.function \in Program /\ x.owner \in Nat /\ x.generation \in Nat
  /\ x.slot = Live!OwnerSlot(x.function, CodeOf[x.function])
  /\ x.function \in Listed \/ OwnerOf[CodeOf[x.function]] = x.function

OneEach(infos) == \A x, y \in infos : x.function = y.function => x = y

Listing(infos) == (\A x \in infos : Collected(x)) /\ OneEach(infos)

FunctionsOf(infos) == {x.function : x \in infos}

(* A directory is what follows from its infos.                             *)
Index(row, infos) ==
  [row |-> row, infos |-> infos, records |-> Live!RecordsOf(infos),
   semantics |-> Live!SemanticsOf(infos), counts |-> Live!AliasCounts(infos)]

Derived(ix) == ix = Index(ix.row, ix.infos)

(* There are no more infos than Functions.                                 *)
LEMMA ListingIsFinite ==
  ASSUME Live!DirectoryAssumption, NEW S, Listing(S)
  PROVE  IsFiniteSet(S)
<1> DEFINE of == [x \in S |-> x.function]
<1>1. of \in [S -> Program]
  BY DEF Listing, Collected
<1>2. IsInjective(of)
  BY DEF Listing, OneEach, IsInjective
<1>3. of \in Injection(S, Program)
  BY <1>1, <1>2 DEF Injection
<1> QED
  BY <1>3, FS_Injection, InstancesCount DEF Live!DirectoryAssumption

(* A part of it is finite, and has a number of members.                    *)
LEMMA PartIsFinite ==
  ASSUME Live!DirectoryAssumption, NEW S, Listing(S), NEW T, T \subseteq S
  PROVE  IsFiniteSet(T) /\ Cardinality(T) \in Nat
BY ListingIsFinite, FS_Subset, FS_CardinalityType

(* Every entry has as many Functions as records.                           *)
LEMMA AliasesAreRecords ==
  ASSUME Live!DirectoryAssumption, NEW S, Listing(S), NEW e \in Codes \X Live!EntryKinds
  PROVE  Live!AliasCounts(S)[e] =
           Cardinality({r \in Live!RecordsOf(S) : CodeOf[r.info.function] = e[1] /\ r.kind = e[2]})
<1> DEFINE Sharing == {i \in S : CodeOf[i.function] = e[1] /\ e[2] \in Live!Kinds(i.function)}
           There == {r \in Live!RecordsOf(S) : CodeOf[r.info.function] = e[1] /\ r.kind = e[2]}
           entry == [i \in Sharing |-> [info |-> i, kind |-> e[2]]]
<1>1. Live!AliasCounts(S)[e] = Cardinality(Sharing)
  BY InstancesCount DEF Live!AliasCounts
<1>2. IsFiniteSet(Sharing)
  BY PartIsFinite
<1>3. entry \in [Sharing -> There]
  <2> SUFFICES ASSUME NEW i \in Sharing PROVE [info |-> i, kind |-> e[2]] \in There
    OBVIOUS
  <2> QED
    BY DEF Live!RecordsOf
<1>4. IsInjective(entry)
  BY DEF IsInjective
<1>5. \A r \in There : \E i \in Sharing : entry[i] = r
  <2> SUFFICES ASSUME NEW r \in There PROVE \E i \in Sharing : entry[i] = r
    OBVIOUS
  <2>1. PICK i \in S : \E k \in Live!Kinds(i.function) : r = [info |-> i, kind |-> k]
    BY DEF Live!RecordsOf
  <2>2. PICK k \in Live!Kinds(i.function) : r = [info |-> i, kind |-> k]
    BY <2>1
  <2>3. i \in Sharing /\ k = e[2]
    BY <2>2
  <2> QED
    BY <2>2, <2>3
<1>6. entry \in Bijection(Sharing, There)
  BY <1>3, <1>4, <1>5 DEF Bijection, Injection, Surjection
<1>7. Cardinality(There) = Cardinality(Sharing)
  BY <1>2, <1>6, FS_Bijection DEF ExistsBijection
<1> QED
  BY <1>1, <1>7

(* Slots name what they are of.                                            *)
LEMMA SlotsDiffer ==
  ASSUME NEW a, NEW b
  PROVE  /\ Live!ClassSlot(a) = Live!ClassSlot(b) => a = b
         /\ Live!TableSlot(a) = Live!TableSlot(b) => a = b
         /\ Live!ClassSlot(a) # Live!TableSlot(b) /\ Live!ClassSlot(a) # Live!NoSlot
         /\ Live!TableSlot(a) # Live!NoSlot
BY DEF Live!ClassSlot, Live!TableSlot, Live!NoSlot

(* A stable owner slot belongs to one Function.                            *)
LEMMA SlotsAreOwn ==
  ASSUME NEW x, NEW y, Collected(x), Collected(y), Live!HasStableOwnerSlot(x), x.slot = y.slot
  PROVE  x.function = y.function
<1>1. CASE x.function \in Listed
  <2>1. x.slot = Live!ClassSlot(x.function)
    BY <1>1 DEF Collected, Live!OwnerSlot
  <2>2. y.slot = Live!ClassSlot(y.function)
    BY <2>1, SlotsDiffer DEF Collected, Live!OwnerSlot
  <2> QED
    BY <2>1, <2>2, SlotsDiffer
<1>2. CASE x.function \notin Listed
  <2>1. x.slot = Live!TableSlot(CodeOf[x.function])
    BY <1>2 DEF Collected, Live!OwnerSlot, Live!HasStableOwnerSlot
  <2>2. y.function \notin Listed
    BY <2>1, SlotsDiffer DEF Collected, Live!OwnerSlot
  <2>3. y.slot = Live!TableSlot(CodeOf[y.function])
    BY <2>1, <2>2, SlotsDiffer DEF Collected, Live!OwnerSlot
  <2>4. CodeOf[x.function] = CodeOf[y.function]
    BY <2>1, <2>3, SlotsDiffer
  <2> QED
    BY <1>2, <2>2, <2>4 DEF Collected
<1> QED
  BY <1>1, <1>2

(* A listing and what is derived from it make parts that agree.            *)
LEMMA PartsFollow ==
  ASSUME Live!DirectoryAssumption, Listing(index.infos), Derived(index)
  PROVE  Live!PartsAgree
<1>1. \A x, y \in index.infos :
        x.function = y.function \/ (Live!HasStableOwnerSlot(x) /\ x.slot = y.slot) => x = y
  BY SlotsAreOwn DEF Listing, OneEach
<1>2. /\ index.records = Live!RecordsOf(index.infos)
      /\ index.semantics = Live!SemanticsOf(index.infos)
      /\ index.counts = Live!AliasCounts(index.infos)
  BY DEF Derived, Index
<1>3. \A e \in Codes \X Live!EntryKinds :
        index.counts[e] =
          Cardinality({r \in index.records : CodeOf[r.info.function] = e[1] /\ r.kind = e[2]})
  BY <1>2, AliasesAreRecords
<1> QED
  BY <1>1, <1>2, <1>3, InstancesCount DEF Live!PartsAgree

(* The records of what is erased, or appended.                             *)
LEMMA RecordsFollow ==
  ASSUME NEW S, NEW T
  PROVE  /\ Live!RecordsOf(S \ T) = {r \in Live!RecordsOf(S) : r.info \notin T}
         /\ Live!RecordsOf(S \cup T) = Live!RecordsOf(S) \cup Live!RecordsOf(T)
<1>1. Live!RecordsOf(S \ T) = {r \in Live!RecordsOf(S) : r.info \notin T}
  <2>1. ASSUME NEW r, r \in Live!RecordsOf(S \ T) PROVE r \in Live!RecordsOf(S) /\ r.info \notin T
    <3>1. PICK i \in S \ T : \E k \in Live!Kinds(i.function) : r = [info |-> i, kind |-> k]
      BY <2>1 DEF Live!RecordsOf
    <3>2. r.info = i
      BY <3>1
    <3>3. r \in Live!RecordsOf(S)
      BY <3>1 DEF Live!RecordsOf
    <3> QED
      BY <3>2, <3>3
  <2>2. ASSUME NEW r \in Live!RecordsOf(S), r.info \notin T PROVE r \in Live!RecordsOf(S \ T)
    <3>1. PICK i \in S : \E k \in Live!Kinds(i.function) : r = [info |-> i, kind |-> k]
      BY <2>2 DEF Live!RecordsOf
    <3>2. i \in S \ T
      BY <2>2, <3>1
    <3> QED
      BY <3>1, <3>2 DEF Live!RecordsOf
  <2> QED
    BY <2>1, <2>2
<1>2. Live!RecordsOf(S \cup T) = Live!RecordsOf(S) \cup Live!RecordsOf(T)
  BY DEF Live!RecordsOf
<1> QED
  BY <1>1, <1>2

(* Writing three fields of a directory leaves the other two.               *)
LEMMA ThreeFields ==
  ASSUME NEW row, NEW i, NEW r, NEW s, NEW c, NEW i2, NEW r2, NEW s2,
         NEW ix, ix = [row |-> row, infos |-> i, records |-> r, semantics |-> s, counts |-> c]
  PROVE  [ix EXCEPT !.infos = i2, !.records = r2, !.semantics = s2]
           = [row |-> row, infos |-> i2, records |-> r2, semantics |-> s2, counts |-> c]
<1> DEFINE e == [ix EXCEPT !.infos = i2, !.records = r2, !.semantics = s2]
<1>1. DOMAIN e = {"row", "infos", "records", "semantics", "counts"}
  OBVIOUS
<1>2. e = [f \in {"row", "infos", "records", "semantics", "counts"} |-> e[f]]
  BY <1>1
<1>3. e.row = row /\ e.infos = i2 /\ e.records = r2 /\ e.semantics = s2 /\ e.counts = c
  OBVIOUS
<1> HIDE DEF e
<1>4. e = [row |-> row, infos |-> i2, records |-> r2, semantics |-> s2, counts |-> c]
  BY <1>2, <1>3
<1> QED
  BY <1>4 DEF e

Edited(S, T, U) == (S \ T) \cup U

(* Editing a directory leaves what follows from its infos.                 *)
LEMMA EditsDerive ==
  ASSUME NEW row, NEW S, NEW T, NEW U
  PROVE  /\ Live!Recounted(Live!Erase(Index(row, S), T)) = Index(row, Edited(S, T, {}))
         /\ Live!Recounted(Live!AppendRecords(Live!Empty(row), U)) = Index(row, U)
         /\ Live!Recounted(Live!AppendRecords(Live!Erase(Index(row, S), T), U)) =
              Index(row, Edited(S, T, U))
<1>1. /\ Live!SemanticsOf(S \ T) = Live!SemanticsOf(S) \ T
      /\ Live!SemanticsOf((S \ T) \cup U) = (Live!SemanticsOf(S) \ T) \cup Live!SemanticsOf(U)
  BY DEF Live!SemanticsOf
<1>2. Live!Erase(Index(row, S), T) =
        [row |-> row, infos |-> S \ T, records |-> Live!RecordsOf(S \ T),
         semantics |-> Live!SemanticsOf(S \ T), counts |-> Live!AliasCounts(S)]
  <2>1. Live!Erase(Index(row, S), T) =
          [row |-> row, infos |-> S \ T, records |-> {r \in Live!RecordsOf(S) : r.info \notin T},
           semantics |-> Live!SemanticsOf(S) \ T, counts |-> Live!AliasCounts(S)]
    <3> DEFINE ix == Index(row, S)
    <3>1. ix = [row |-> row, infos |-> S, records |-> Live!RecordsOf(S),
                semantics |-> Live!SemanticsOf(S), counts |-> Live!AliasCounts(S)]
      BY DEF Index
    <3>2. Live!Erase(ix, T) =
            [ix EXCEPT !.infos = S \ T, !.records = {r \in Live!RecordsOf(S) : r.info \notin T},
                       !.semantics = Live!SemanticsOf(S) \ T]
      BY <3>1 DEF Live!Erase
    <3> HIDE DEF ix
    <3>3. Live!Erase(ix, T) =
            [row |-> row, infos |-> S \ T, records |-> {r \in Live!RecordsOf(S) : r.info \notin T},
             semantics |-> Live!SemanticsOf(S) \ T, counts |-> Live!AliasCounts(S)]
      BY <3>1, <3>2, ThreeFields
    <3> QED
      BY <3>3 DEF ix
  <2>2. Live!RecordsOf(S \ T) = {r \in Live!RecordsOf(S) : r.info \notin T}
    BY RecordsFollow
  <2> QED
    BY <1>1, <2>1, <2>2
<1>3. Live!Recounted(Live!Erase(Index(row, S), T)) = Index(row, S \ T)
  BY <1>2 DEF Live!Recounted, Index
<1>4. Live!AppendRecords(Live!Erase(Index(row, S), T), U) =
        [row |-> row, infos |-> (S \ T) \cup U, records |-> Live!RecordsOf((S \ T) \cup U),
         semantics |-> Live!SemanticsOf((S \ T) \cup U), counts |-> Live!AliasCounts(S)]
  <2>1. Live!AppendRecords(Live!Erase(Index(row, S), T), U) =
          [row |-> row, infos |-> (S \ T) \cup U,
           records |-> Live!RecordsOf(S \ T) \cup Live!RecordsOf(U),
           semantics |-> Live!SemanticsOf(S \ T) \cup Live!SemanticsOf(U),
           counts |-> Live!AliasCounts(S)]
    <3> DEFINE ix == Live!Erase(Index(row, S), T)
    <3>1. Live!AppendRecords(ix, U) =
            [ix EXCEPT !.infos = (S \ T) \cup U,
                       !.records = Live!RecordsOf(S \ T) \cup Live!RecordsOf(U),
                       !.semantics = Live!SemanticsOf(S \ T) \cup Live!SemanticsOf(U)]
      BY <1>2 DEF Live!AppendRecords
    <3>2. ix = [row |-> row, infos |-> S \ T, records |-> Live!RecordsOf(S \ T),
                semantics |-> Live!SemanticsOf(S \ T), counts |-> Live!AliasCounts(S)]
      BY <1>2
    <3> HIDE DEF ix
    <3>3. Live!AppendRecords(ix, U) =
            [row |-> row, infos |-> (S \ T) \cup U,
             records |-> Live!RecordsOf(S \ T) \cup Live!RecordsOf(U),
             semantics |-> Live!SemanticsOf(S \ T) \cup Live!SemanticsOf(U),
           counts |-> Live!AliasCounts(S)]
      BY <3>1, <3>2, ThreeFields
    <3> QED
      BY <3>3 DEF ix
  <2>2. Live!RecordsOf((S \ T) \cup U) = Live!RecordsOf(S \ T) \cup Live!RecordsOf(U)
    BY RecordsFollow
  <2> QED
    BY <1>1, <2>1, <2>2
<1>5. Live!Recounted(Live!AppendRecords(Live!Erase(Index(row, S), T), U)) =
        Index(row, (S \ T) \cup U)
  <2> DEFINE all == (S \ T) \cup U
             ix == Live!AppendRecords(Live!Erase(Index(row, S), T), U)
  <2>1. ix = [row |-> row, infos |-> all, records |-> Live!RecordsOf(all),
              semantics |-> Live!SemanticsOf(all), counts |-> Live!AliasCounts(S)]
    BY <1>4
  <2> HIDE DEF ix, all
  <2>2. Live!Recounted(ix) = [ix EXCEPT !.counts = Live!AliasCounts(all)]
    BY <2>1 DEF Live!Recounted
  <2>3. Live!Recounted(ix) = Index(row, all)
    BY <2>1, <2>2 DEF Index
  <2> QED
    BY <2>3 DEF ix, all
<1>6. Live!AppendRecords(Live!Empty(row), U) =
        [row |-> row, infos |-> U, records |-> Live!RecordsOf(U), semantics |-> Live!SemanticsOf(U),
         counts |-> Live!AliasCounts({})]
  <2>1. Live!AppendRecords(Live!Empty(row), U) =
          [row |-> row, infos |-> {} \cup U, records |-> {} \cup Live!RecordsOf(U),
           semantics |-> {} \cup Live!SemanticsOf(U), counts |-> Live!AliasCounts({})]
    <3> DEFINE ix == Live!Empty(row)
    <3>1. ix = [row |-> row, infos |-> {}, records |-> {}, semantics |-> {},
                counts |-> Live!AliasCounts({})]
      BY DEF Live!Empty
    <3>2. Live!AppendRecords(ix, U) =
            [ix EXCEPT !.infos = {} \cup U, !.records = {} \cup Live!RecordsOf(U),
                       !.semantics = {} \cup Live!SemanticsOf(U)]
      BY <3>1 DEF Live!AppendRecords
    <3> HIDE DEF ix
    <3>3. Live!AppendRecords(ix, U) =
            [row |-> row, infos |-> {} \cup U, records |-> {} \cup Live!RecordsOf(U),
             semantics |-> {} \cup Live!SemanticsOf(U), counts |-> Live!AliasCounts({})]
      BY <3>1, <3>2, ThreeFields
    <3> QED
      BY <3>3 DEF ix
  <2> QED
    BY <2>1
<1>7. Live!Recounted(Live!AppendRecords(Live!Empty(row), U)) = Index(row, U)
  BY <1>6 DEF Live!Recounted, Index
<1> QED
  BY <1>3, <1>5, <1>7 DEF Edited

(* What an image that is pruned took with it.                              *)
Lost(infos, retired) == {x \in infos : \E i \in retired : Live!SameOwner(x, i)}

(* The infos whose owner slots a delta replaces.                           *)
Replaced(infos, delta) ==
  {x \in infos : Live!HasStableOwnerSlot(x) /\ \E d \in delta : d.slot = x.slot}

(* The three ways a directory comes about.                                 *)
LEMMA DirectoriesMade ==
  ASSUME NEW ix, Derived(ix), NEW retired, NEW is, NEW owners, NEW row
  PROVE  /\ Live!Prune(ix, retired) = Index(ix.row, ix.infos \ Lost(ix.infos, retired))
         /\ Live!Increment(ix, is, owners) =
              Index(ix.row, (ix.infos \ Replaced(ix.infos, Live!CollectDeferred(is, owners)))
                              \cup Live!CollectDeferred(is, owners))
         /\ Live!Build(is, row) = Index(row, Live!CollectAll(is))
<1>1. Live!Prune(ix, retired) =
      Live!Recounted(Live!Erase(Index(ix.row, ix.infos), Lost(ix.infos, retired)))
  BY DEF Derived, Live!Prune, Lost
<1>2. Live!Increment(ix, is, owners) =
        Live!Recounted(Live!AppendRecords(Live!Erase(Index(ix.row, ix.infos),
                               Replaced(ix.infos, Live!CollectDeferred(is, owners))),
                         Live!CollectDeferred(is, owners)))
  BY DEF Derived, Live!Increment, Replaced
<1>3. Live!Build(is, row) = Live!Recounted(Live!AppendRecords(Live!Empty(row), Live!CollectAll(is)))
  BY DEF Live!Build
<1> DEFINE delta == Live!CollectDeferred(is, owners)
           row_ix == ix.row
           gone == Replaced(ix.infos, delta)
           old == ix.infos
<1> HIDE DEF delta, row_ix, gone, old
<1>4. Live!Prune(ix, retired) = Index(ix.row, Edited(ix.infos, Lost(ix.infos, retired), {}))
  BY <1>1, EditsDerive
<1>5. Live!Recounted(Live!AppendRecords(Live!Erase(Index(row_ix, old), gone), delta))
        = Index(row_ix, Edited(old, gone, delta))
  BY EditsDerive
<1>6. Live!Recounted(Live!AppendRecords(Live!Empty(row), Live!CollectAll(is))) =
      Index(row, Live!CollectAll(is))
  BY EditsDerive
<1> QED
  BY <1>2, <1>3, <1>4, <1>5, <1>6 DEF delta, row_ix, gone, old, Edited

(* Each of them is one again.                                              *)
LEMMA IndexDerives ==
  ASSUME NEW row, NEW S
  PROVE  Derived(Index(row, S)) /\ Index(row, S).infos = S /\ Index(row, S).row = row
BY DEF Derived, Index

-----------------------------------------------------------------------------
(* Reading the heap                                                        *)

(* A Function that the walks can find, and where an info says it is.       *)
Findable(is, f) ==
  /\ f \in Program
  /\ f \in Listed \/ OwnerOf[CodeOf[f]] = f
  /\ Live!IsLive(CodeOf[f]) /\ Live!Holding(is, CodeOf[f]) # {}

Held(is, x) ==
  \E i \in is : /\ x.owner = i.owner /\ x.generation = i.generation
                /\ i.unit = UnitOf[CodeOf[x.function]]
                /\ Live!StillMapped(i) /\ Live!IsLive(CodeOf[x.function])

Infos(is, F) == {Live!FunctionInfo(is, f, Live!OwnerSlot(f, CodeOf[f])) : f \in F}

(* The info of one Function.                                               *)
LEMMA InfoOfFunction ==
  ASSUME NEW is \in SUBSET Live!ImageType, NEW f, Findable(is, f)
  PROVE  LET x == Live!FunctionInfo(is, f, Live!OwnerSlot(f, CodeOf[f]))
         IN  x.function = f /\ Collected(x) /\ Held(is, x)
<1> DEFINE x == Live!FunctionInfo(is, f, Live!OwnerSlot(f, CodeOf[f]))
           i == CHOOSE i \in Live!Holding(is, CodeOf[f]) : TRUE
<1>1. i \in Live!Holding(is, CodeOf[f])
  BY DEF Findable
<1>2. i \in is /\ i.unit = UnitOf[CodeOf[f]] /\ Live!StillMapped(i)
  BY <1>1 DEF Live!Holding, Live!StillMapped
<1>3. i.owner \in Nat /\ i.generation \in Nat
  BY <1>2 DEF Live!ImageType
<1>4. /\ x.function = f /\ x.slot = Live!OwnerSlot(f, CodeOf[f])
      /\ x.owner = i.owner /\ x.generation = i.generation
  BY DEF Live!FunctionInfo
<1> HIDE DEF x, i
<1>5. Collected(x)
  BY <1>3, <1>4 DEF Collected, Findable
<1>6. Held(is, x)
  BY <1>2, <1>4 DEF Held, Findable
<1> QED
  BY <1>4, <1>5, <1>6 DEF x

(* The infos of the Functions of a walk.                                   *)
LEMMA InfosOfFunctions ==
  ASSUME NEW is \in SUBSET Live!ImageType, NEW F, \A f \in F : Findable(is, f)
  PROVE  /\ Listing(Infos(is, F)) /\ FunctionsOf(Infos(is, F)) = F
         /\ \A x \in Infos(is, F) : Held(is, x)
<1>1. \A f \in F : LET x == Live!FunctionInfo(is, f, Live!OwnerSlot(f, CodeOf[f]))
                   IN  x.function = f /\ Collected(x) /\ Held(is, x)
  BY InfoOfFunction
<1>2. \A x \in Infos(is, F) :
        /\ x.function \in F /\ Collected(x) /\ Held(is, x)
        /\ x = Live!FunctionInfo(is, x.function, Live!OwnerSlot(x.function, CodeOf[x.function]))
  BY <1>1 DEF Infos
<1>3. \A f \in F : Live!FunctionInfo(is, f, Live!OwnerSlot(f, CodeOf[f])) \in Infos(is, F)
  BY DEF Infos
<1>4. F \subseteq FunctionsOf(Infos(is, F))
  <2> SUFFICES ASSUME NEW f \in F PROVE f \in FunctionsOf(Infos(is, F))
    OBVIOUS
  <2> QED
    BY <1>1, <1>3 DEF FunctionsOf
<1>5. FunctionsOf(Infos(is, F)) \subseteq F
  BY <1>2 DEF FunctionsOf
<1>6. OneEach(Infos(is, F))
  BY <1>2 DEF OneEach
<1> QED
  BY <1>2, <1>4, <1>5, <1>6 DEF Listing

(* What a walk over units visits is the Code of the Function it finds.     *)
LEMMA UnitWalkFinds ==
  ASSUME Live!DirectoryAssumption, loaded \subseteq Units,
         NEW is \in SUBSET Live!ImageType, NEW owners, NEW f
  PROVE  f \in Live!UnitWalk(is, owners) <=>
           /\ f \in Program /\ OwnerOf[CodeOf[f]] = f /\ UnitOf[CodeOf[f]] \in loaded
           /\ \E i \in Live!Holding(is, CodeOf[f]) : i.owner \in owners
<1>1. ASSUME f \in Live!UnitWalk(is, owners)
      PROVE  /\ f \in Program /\ OwnerOf[CodeOf[f]] = f /\ UnitOf[CodeOf[f]] \in loaded
             /\ \E i \in Live!Holding(is, CodeOf[f]) : i.owner \in owners
  <2>1. PICK c \in Live!UnitCodes(is, owners) : f = OwnerOf[c] /\ f # None
    BY <1>1 DEF Live!UnitWalk
  <2>2. c \in Codes /\ UnitOf[c] \in loaded /\ \E i \in Live!Holding(is, c) : i.owner \in owners
    BY <2>1 DEF Live!UnitCodes
  <2>3. f \in Program /\ CodeOf[f] = c
    BY <2>1, <2>2 DEF Live!DirectoryAssumption
  <2> QED
    BY <2>1, <2>2, <2>3
<1>2. ASSUME f \in Program, OwnerOf[CodeOf[f]] = f, UnitOf[CodeOf[f]] \in loaded,
             \E i \in Live!Holding(is, CodeOf[f]) : i.owner \in owners
      PROVE  f \in Live!UnitWalk(is, owners)
  <2>1. CodeOf[f] \in Codes /\ f # None
    BY <1>2 DEF Live!DirectoryAssumption
  <2>2. CodeOf[f] \in Live!UnitCodes(is, owners)
    BY <1>2, <2>1 DEF Live!UnitCodes
  <2> QED
    BY <1>2, <2>1, <2>2 DEF Live!UnitWalk
<1> QED
  BY <1>1, <1>2

(* All of a walk can be found.                                             *)
LEMMA WalksFind ==
  ASSUME Live!DirectoryAssumption, loaded \subseteq Units,
         NEW is \in SUBSET Live!ImageType, NEW owners
  PROVE  /\ \A f \in Live!UnitWalk(is, owners) : Findable(is, f)
         /\ \A f \in Live!CollectedFunctions(is) : Findable(is, f)
<1>1. ASSUME NEW o, NEW f \in Live!UnitWalk(is, o) PROVE Findable(is, f)
  BY UnitWalkFinds DEF Findable, Live!IsLive
<1>2. ASSUME NEW f \in Live!ClassWalk(is) PROVE Findable(is, f)
  BY DEF Live!ClassWalk, Live!Provable, Findable, Live!DirectoryAssumption
<1> QED
  BY <1>1, <1>2 DEF Live!CollectedFunctions

(* The two collections.                                                    *)
LEMMA Collections ==
  ASSUME Live!DirectoryAssumption, loaded \subseteq Units,
         NEW is \in SUBSET Live!ImageType, NEW owners
  PROVE  /\ Listing(Live!CollectAll(is))
         /\ FunctionsOf(Live!CollectAll(is)) = Live!CollectedFunctions(is)
         /\ \A x \in Live!CollectAll(is) : Held(is, x)
         /\ Listing(Live!CollectDeferred(is, owners))
         /\ FunctionsOf(Live!CollectDeferred(is, owners)) = Live!UnitWalk(is, owners)
         /\ \A x \in Live!CollectDeferred(is, owners) : Held(is, x)
<1>1. Live!CollectAll(is) = Infos(is, Live!CollectedFunctions(is))
  BY DEF Live!CollectAll, Infos
<1>2. Live!CollectDeferred(is, owners) = Infos(is, Live!UnitWalk(is, owners))
  BY DEF Live!CollectDeferred, Infos
<1> QED
  BY <1>1, <1>2, WalksFind, InfosOfFunctions

-----------------------------------------------------------------------------
(* The inductive invariant of the directory                                *)

(* No two images are of one unit, or have one owner.                       *)
Distinct(is) == \A i, j \in is : i.unit = j.unit \/ i.owner = j.owner => i = j

(* Nothing was mapped twice at one place: an image of a unit that is       *)
(* mapped later is not taken for it.                                       *)
Based(i) ==
  /\ i.base \in 1 .. heap
  /\ i.unit = Root => i.base = 1
  /\ i.unit # Root /\ i.base = heap => mapped[i.unit] = heap

EnvironmentInv ==
  /\ mapped \in [{Root} \cup Units -> 0 .. MaxContext] /\ mapped[Root] = 1
  /\ \A u \in Units : mapped[u] \in {0, heap}
  /\ loaded \subseteq Units
  /\ heap \in 1 .. MaxContext /\ context \in 0 .. heap
  /\ group_generation \in 1 .. MaxGeneration /\ next_owner \in 1 .. MaxOwner + 1
  /\ current \in BOOLEAN

ImagesInv ==
  /\ images \subseteq Live!ImageType /\ Distinct(images)
  /\ \A i \in images : i.owner < next_owner /\ i.generation <= group_generation /\ Based(i)

(* An info belongs to an image, of no earlier generation, and its Code is  *)
(* in the unit of that image; in the context it was collected in the image *)
(* is still mapped.                                                        *)
Home(x, i) ==
  /\ x.owner = i.owner /\ x.generation <= i.generation
  /\ i.unit = UnitOf[CodeOf[x.function]]
  /\ Live!StillMapped(i) => Live!IsLive(CodeOf[x.function])
  /\ context = heap => Live!StillMapped(i)

AtHome(x) == \E i \in images : Home(x, i)

HasRoot(is) == \E i \in is : i.unit = Root

IndexInv ==
  index # None =>
    /\ context # 0 /\ HasRoot(images)
    /\ Listing(index.infos) /\ Derived(index)
    /\ \A i \in images : i.live = Live!LiveCount(index.infos, i)
    /\ \A x \in index.infos : AtHome(x)

DirectoryInv == EnvironmentInv /\ ImagesInv /\ IndexInv

(* Two versions of one image.                                              *)
Like(j, i) == j.unit = i.unit /\ j.base = i.base /\ j.owner = i.owner

(* The images of one set are those of the other, with other fields.        *)
OneForOne(js, is) ==
  /\ js \subseteq Live!ImageType /\ Distinct(js)
  /\ \A j \in js : \E i \in is : Like(j, i)
  /\ \A i \in is : \E j \in js : Like(j, i)

Copied(j, i) == j.generation = i.generation /\ j.live = i.live /\ j.state = i.state

Copies(js, is) == \A j \in js, i \in is : j.owner = i.owner => Copied(j, i)

States == {"unbound", "not_loaded", "loaded"}

(* What writing a field of an image does.                                  *)
LEMMA FieldsWritten ==
  ASSUME NEW i \in Live!ImageType, NEW l \in {"active", "draining"}, NEW h \in BOOLEAN,
         NEW g \in Nat, NEW n \in Nat, NEW s \in States
  PROVE  /\ [i EXCEPT !.lifecycle = l] \in Live!ImageType
         /\ Like([i EXCEPT !.lifecycle = l], i) /\ Copied([i EXCEPT !.lifecycle = l], i)
         /\ [i EXCEPT !.hash = h] \in Live!ImageType
         /\ Like([i EXCEPT !.hash = h], i) /\ Copied([i EXCEPT !.hash = h], i)
         /\ [i EXCEPT !.generation = g] \in Live!ImageType /\ Like([i EXCEPT !.generation = g], i)
         /\ [i EXCEPT !.live = n] \in Live!ImageType /\ Like([i EXCEPT !.live = n], i)
         /\ [i EXCEPT !.state = s] \in Live!ImageType /\ Like([i EXCEPT !.state = s], i)
BY DEF Live!ImageType, Like, Copied, States

(* Writing fields of every image.                                          *)
LEMMA EachWritten ==
  ASSUME NEW is \in SUBSET Live!ImageType, Distinct(is), NEW f,
         \A i \in is : f[i] \in Live!ImageType /\ Like(f[i], i)
  PROVE  /\ OneForOne({f[i] : i \in is}, is)
         /\ \A j \in {f[i] : i \in is}, i \in is : j.owner = i.owner => j = f[i]
BY DEF OneForOne, Distinct, Like

(* Two such changes, one after the other.                                  *)
LEMMA OneForOneFollows ==
  ASSUME NEW ks, NEW js, NEW is, OneForOne(ks, js), OneForOne(js, is)
  PROVE  OneForOne(ks, is)
BY DEF OneForOne, Like

(* Closing, activating and binding the program hash copy the rest.         *)
LEMMA ImagesCopied ==
  ASSUME NEW is \in SUBSET Live!ImageType, Distinct(is), NEW A
  PROVE  /\ OneForOne(Live!Activated(is), is) /\ Copies(Live!Activated(is), is)
         /\ OneForOne(Live!BindProgramHash(is), is) /\ Copies(Live!BindProgramHash(is), is)
         /\ is = images => OneForOne(Live!Closed(A), is) /\ Copies(Live!Closed(A), is)
<1>1. OneForOne(Live!Activated(is), is) /\ Copies(Live!Activated(is), is)
  <2> DEFINE f == [i \in is |-> [i EXCEPT !.lifecycle = "active"]]
  <2>1. \A i \in is : f[i] \in Live!ImageType /\ Like(f[i], i) /\ Copied(f[i], i)
    <3> SUFFICES ASSUME NEW i \in is
                 PROVE  f[i] \in Live!ImageType /\ Like(f[i], i) /\ Copied(f[i], i)
      OBVIOUS
    <3> QED
      BY FieldsWritten DEF States
  <2>2. Live!Activated(is) = {f[i] : i \in is}
    BY DEF Live!Activated
  <2> HIDE DEF f
  <2> QED
    BY <2>1, <2>2, EachWritten DEF Copies
<1>2. OneForOne(Live!BindProgramHash(is), is) /\ Copies(Live!BindProgramHash(is), is)
  <2> DEFINE f == [i \in is |-> [i EXCEPT !.hash = i.hash \/ i.unit # Root]]
  <2>1. \A i \in is : f[i] \in Live!ImageType /\ Like(f[i], i) /\ Copied(f[i], i)
    <3> SUFFICES ASSUME NEW i \in is
                 PROVE  f[i] \in Live!ImageType /\ Like(f[i], i) /\ Copied(f[i], i)
      OBVIOUS
    <3>1. (i.hash \/ i.unit # Root) \in BOOLEAN
      BY DEF Live!ImageType
    <3> QED
      BY <3>1, FieldsWritten DEF States
  <2>2. Live!BindProgramHash(is) = {f[i] : i \in is}
    BY DEF Live!BindProgramHash
  <2> HIDE DEF f
  <2> QED
    BY <2>1, <2>2, EachWritten DEF Copies
<1>3. ASSUME is = images PROVE OneForOne(Live!Closed(A), is) /\ Copies(Live!Closed(A), is)
  <2> DEFINE l(i) == IF i \in A THEN "draining" ELSE i.lifecycle
             f == [i \in is |-> [i EXCEPT !.lifecycle = l(i)]]
  <2>1. \A i \in is : f[i] \in Live!ImageType /\ Like(f[i], i) /\ Copied(f[i], i)
    <3> SUFFICES ASSUME NEW i \in is
                 PROVE  f[i] \in Live!ImageType /\ Like(f[i], i) /\ Copied(f[i], i)
      OBVIOUS
    <3>1. l(i) \in {"active", "draining"}
      BY DEF Live!ImageType
    <3> QED
      BY <3>1, FieldsWritten DEF States
  <2>2. Live!Closed(A) = {f[i] : i \in is}
    BY <1>3 DEF Live!Closed
  <2> HIDE DEF f
  <2> QED
    BY <2>1, <2>2, EachWritten DEF Copies
<1> QED
  BY <1>1, <1>2, <1>3

(* Binding a generation writes one field.                                  *)
LEMMA GenerationBound ==
  ASSUME NEW is \in SUBSET Live!ImageType, Distinct(is), NEW g \in Nat
  PROVE  /\ OneForOne({[i EXCEPT !.generation = g] : i \in is}, is)
         /\ \A j \in {[i EXCEPT !.generation = g] : i \in is}, i \in is :
              j.owner = i.owner =>
                j.generation = g /\ j.live = i.live /\ j.state = i.state
<1> DEFINE f == [i \in is |-> [i EXCEPT !.generation = g]]
<1>1. \A i \in is : /\ f[i] \in Live!ImageType /\ Like(f[i], i)
                    /\ f[i].generation = g /\ f[i].live = i.live /\ f[i].state = i.state
  <2> SUFFICES ASSUME NEW i \in is
               PROVE  /\ f[i] \in Live!ImageType /\ Like(f[i], i)
                      /\ f[i].generation = g /\ f[i].live = i.live /\ f[i].state = i.state
    OBVIOUS
  <2>1. f[i] \in Live!ImageType /\ Like(f[i], i)
    BY FieldsWritten DEF States
  <2> QED
    BY <2>1 DEF Live!ImageType
<1>2. {[i EXCEPT !.generation = g] : i \in is} = {f[i] : i \in is}
  OBVIOUS
<1> HIDE DEF f
<1>3. /\ OneForOne({f[i] : i \in is}, is)
      /\ \A j \in {f[i] : i \in is}, i \in is : j.owner = i.owner => j = f[i]
  BY <1>1, EachWritten
<1> QED
  BY <1>1, <1>2, <1>3

(* So does binding the Functions of a directory, or the load states.       *)
LEMMA ImagesBound ==
  ASSUME Live!DirectoryAssumption, NEW is \in SUBSET Live!ImageType, Distinct(is),
         NEW infos, Listing(infos)
  PROVE  /\ OneForOne(Live!BindLiveEntries(is, infos), is)
         /\ \A j \in Live!BindLiveEntries(is, infos), i \in is :
              j.owner = i.owner =>
                /\ j.generation = i.generation /\ j.live = Live!LiveCount(infos, j)
                /\ j.state = i.state
         /\ OneForOne(Live!Observe(is), is)
         /\ \A j \in Live!Observe(is), i \in is :
              j.owner = i.owner =>
                /\ j.generation = i.generation /\ j.live = i.live
                /\ j.state = IF i.unit = Root THEN i.state ELSE Live!LoadState(i.unit)
<1>1. /\ OneForOne(Live!BindLiveEntries(is, infos), is)
      /\ \A j \in Live!BindLiveEntries(is, infos), i \in is :
           j.owner = i.owner =>
             /\ j.generation = i.generation /\ j.live = Live!LiveCount(infos, j)
             /\ j.state = i.state
  <2> DEFINE f == [i \in is |-> [i EXCEPT !.live = Live!LiveCount(infos, i)]]
  <2>1. \A i \in is : /\ f[i] \in Live!ImageType /\ Like(f[i], i) /\ f[i].generation = i.generation
                      /\ f[i].live = Live!LiveCount(infos, i) /\ f[i].state = i.state
    <3> SUFFICES ASSUME NEW i \in is
                 PROVE  /\ f[i] \in Live!ImageType /\ Like(f[i], i)
                        /\ f[i].generation = i.generation
                        /\ f[i].live = Live!LiveCount(infos, i) /\ f[i].state = i.state
      OBVIOUS
    <3>1. Live!LiveCount(infos, i) \in Nat
      BY PartIsFinite, InstancesCount DEF Live!LiveCount
    <3>2. f[i] \in Live!ImageType /\ Like(f[i], i)
      BY <3>1, FieldsWritten DEF States
    <3> QED
      BY <3>2 DEF Live!ImageType
  <2>2. Live!BindLiveEntries(is, infos) = {f[i] : i \in is}
    BY DEF Live!BindLiveEntries
  <2>3. \A i \in is : Live!LiveCount(infos, f[i]) = Live!LiveCount(infos, i)
    BY <2>1 DEF Live!LiveCount, Like
  <2> HIDE DEF f
  <2> QED
    BY <2>1, <2>2, <2>3, EachWritten
<1>2. /\ OneForOne(Live!Observe(is), is)
      /\ \A j \in Live!Observe(is), i \in is :
           j.owner = i.owner =>
             /\ j.generation = i.generation /\ j.live = i.live
             /\ j.state = IF i.unit = Root THEN i.state ELSE Live!LoadState(i.unit)
  <2> DEFINE s(i) == IF i.unit = Root THEN i.state ELSE Live!LoadState(i.unit)
             f == [i \in is |-> [i EXCEPT !.state = s(i)]]
  <2>1. \A i \in is : /\ f[i] \in Live!ImageType /\ Like(f[i], i) /\ f[i].generation = i.generation
                      /\ f[i].live = i.live /\ f[i].state = s(i)
    <3> SUFFICES ASSUME NEW i \in is
                 PROVE  /\ f[i] \in Live!ImageType /\ Like(f[i], i)
                        /\ f[i].generation = i.generation
                        /\ f[i].live = i.live /\ f[i].state = s(i)
      OBVIOUS
    <3>1. s(i) \in States
      BY DEF Live!ImageType, States, Live!LoadState
    <3>2. f[i] \in Live!ImageType /\ Like(f[i], i)
      BY <3>1, FieldsWritten
    <3> HIDE DEF s
    <3> QED
      BY <3>2 DEF Live!ImageType
  <2>2. Live!Observe(is) = {f[i] : i \in is}
    BY DEF Live!Observe
  <2> HIDE DEF f
  <2>3. /\ OneForOne({f[i] : i \in is}, is)
        /\ \A j \in {f[i] : i \in is}, i \in is : j.owner = i.owner => j = f[i]
    BY <2>1, EachWritten
  <2> QED
    BY <2>1, <2>2, <2>3
<1> QED
  BY <1>1, <1>2

(* Map and Load change nothing for an image, a restart unmaps all of       *)
(* deferred units.                                                         *)
LEMMA EnvironmentKept ==
  ASSUME Live!DirectoryAssumption, DirectoryInv, Live!Environment
  PROVE  DirectoryInv'
<1> USE DEF DirectoryInv
<1>1. UNCHANGED <<group_generation, images, next_owner, context, index>> /\ current' = FALSE
  BY DEF Live!Environment, Live!group
<1>2. \A i \in images : i \in Live!ImageType
  BY DEF ImagesInv
<1>3. CASE \E u \in Units : Live!Map(u)
  <2>1. PICK u \in Units : Live!Map(u)
    BY <1>3
  <2>2. /\ mapped[u] = 0 /\ mapped' = [mapped EXCEPT ![u] = heap]
        /\ loaded' = loaded /\ heap' = heap
    BY <2>1 DEF Live!Map
  <2>3. EnvironmentInv'
    <3>1. heap \in 0 .. MaxContext /\ u # Root
      BY DEF EnvironmentInv, Live!DirectoryAssumption
    <3>2. mapped' \in [{Root} \cup Units -> 0 .. MaxContext] /\ mapped'[Root] = 1
      BY <2>2, <3>1 DEF EnvironmentInv
    <3>3. \A v \in Units : mapped'[v] \in {0, heap'}
      BY <2>2 DEF EnvironmentInv
    <3>4. /\ loaded' \subseteq Units /\ heap' \in 1 .. MaxContext /\ context' \in 0 .. heap'
          /\ group_generation' \in 1 .. MaxGeneration /\ next_owner' \in 1 .. MaxOwner + 1
          /\ current' \in BOOLEAN
      BY <1>1, <2>2 DEF EnvironmentInv
    <3> QED
      BY <3>2, <3>3, <3>4 DEF EnvironmentInv
  <2>4. \A v \in {Root} \cup Units : v # u => mapped'[v] = mapped[v]
    BY <2>2 DEF EnvironmentInv
  <2>5. mapped'[u] = heap
    BY <2>2 DEF EnvironmentInv
  <2>6. \A i \in images : i.unit \in {Root} \cup Units
    BY <1>2 DEF Live!ImageType
  <2>7. ASSUME NEW i \in images PROVE Live!StillMapped(i)' <=> Live!StillMapped(i)
    <3>1. i.unit = u => i.base # heap /\ i.base # 0
      BY <2>2 DEF ImagesInv, Based, EnvironmentInv, Live!DirectoryAssumption
    <3> QED
      BY <2>2, <2>4, <2>5, <2>6, <3>1 DEF Live!StillMapped
  <2>8. ImagesInv'
    <3>1. \A i \in images : Based(i)'
      BY <2>2, <2>4, <2>5, <2>6 DEF ImagesInv, Based
    <3> QED
      BY <1>1, <3>1 DEF ImagesInv
  <2>9. IndexInv'
    <3>1. \A x, i : i \in images /\ Home(x, i) => Home(x, i)'
      BY <1>1, <2>2, <2>7 DEF Home, Live!IsLive
    <3> QED
      BY <1>1, <3>1 DEF IndexInv, AtHome, HasRoot
  <2> QED
    BY <2>3, <2>8, <2>9
<1>4. CASE \E u \in Units : Live!Load(u)
  <2>1. PICK u \in Units : Live!Load(u)
    BY <1>4
  <2>2. loaded' = loaded \cup {u} /\ mapped' = mapped /\ heap' = heap
    BY <2>1 DEF Live!Load
  <2>3. EnvironmentInv'
    BY <1>1, <2>2 DEF EnvironmentInv
  <2>4. ImagesInv'
    BY <1>1, <2>2 DEF ImagesInv, Based
  <2>5. \A x, i : i \in images /\ Home(x, i) => Home(x, i)'
    BY <1>1, <2>2 DEF Home, Live!IsLive, Live!StillMapped
  <2>6. IndexInv'
    BY <1>1, <2>5 DEF IndexInv, AtHome, HasRoot
  <2> QED
    BY <2>3, <2>4, <2>6
<1>5. CASE Live!Restart
  <2>1. /\ heap < MaxContext /\ heap' = heap + 1 /\ loaded' = {}
        /\ mapped' = [u \in DOMAIN mapped |-> IF u = Root THEN mapped[u] ELSE 0]
    BY <1>5 DEF Live!Restart
  <2>2. /\ mapped' \in [{Root} \cup Units -> 0 .. MaxContext] /\ mapped'[Root] = 1
        /\ \A u \in Units : mapped'[u] = 0
    BY <2>1 DEF EnvironmentInv, Live!DirectoryAssumption
  <2>3. EnvironmentInv'
    <3>1. MaxContext \in Nat
      BY DEF Live!DirectoryAssumption
    <3>2. heap' \in 1 .. MaxContext /\ context' \in 0 .. heap'
      BY <1>1, <2>1, <3>1 DEF EnvironmentInv
    <3>3. /\ loaded' \subseteq Units /\ current' \in BOOLEAN
          /\ group_generation' \in 1 .. MaxGeneration /\ next_owner' \in 1 .. MaxOwner + 1
      BY <1>1, <2>1 DEF EnvironmentInv
    <3> QED
      BY <2>2, <3>2, <3>3 DEF EnvironmentInv
  <2>4. ImagesInv'
    <3>1. \A i \in images : Based(i)'
      BY <2>1 DEF ImagesInv, Based, EnvironmentInv, Live!DirectoryAssumption
    <3> QED
      BY <1>1, <3>1 DEF ImagesInv
  <2>5. context' # heap'
    BY <1>1, <2>1 DEF EnvironmentInv, Live!DirectoryAssumption
  <2>6. ASSUME NEW i \in images, Live!StillMapped(i)' PROVE i.unit = Root
    <3>1. i.unit \in {Root} \cup Units /\ i.base # 0
      BY <1>2 DEF Live!ImageType, ImagesInv, Based
    <3> QED
      BY <2>2, <2>6, <3>1 DEF Live!StillMapped
  <2>7. \A x, i : i \in images /\ Home(x, i) => Home(x, i)'
    BY <1>1, <2>5, <2>6 DEF Home, Live!IsLive
  <2>8. IndexInv'
    BY <1>1, <2>7 DEF IndexInv, AtHome, HasRoot
  <2> QED
    BY <2>3, <2>4, <2>8
<1> QED
  BY <1>3, <1>4, <1>5 DEF Live!Environment

-----------------------------------------------------------------------------
(* Transitions of the images                                               *)

(* What a walk finds, were a unit loaded exactly when its image says so.   *)
Finds(i, f) ==
  /\ i.unit = UnitOf[CodeOf[f]] /\ Live!StillMapped(i) /\ OwnerOf[CodeOf[f]] # None
  /\ \/ i.unit = Root /\ f \in Listed
     \/ i.unit # Root /\ i.state = "loaded" /\ (f \in Listed \/ OwnerOf[CodeOf[f]] = f)

Covered(is) == {f \in Program : \E i \in is : Finds(i, f)}

(* The directory of the present context is complete but for what was       *)
(* loaded since.                                                           *)
CompleteInv ==
  index # None /\ context = heap => FunctionsOf(index.infos) = Covered(images)

(* What the images know does not depend on their other fields.             *)
LEMMA CoveredAlike ==
  ASSUME NEW js, NEW is, OneForOne(js, is),
         \A j \in js, i \in is : j.owner = i.owner => j.state = i.state
  PROVE  Covered(js) = Covered(is)
<1>1. ASSUME NEW j \in js, NEW i \in is, NEW f, Like(j, i) PROVE Finds(j, f) <=> Finds(i, f)
  BY <1>1 DEF Like, Finds, Live!StillMapped
<1>2. \A f : (\E j \in js : Finds(j, f)) <=> (\E i \in is : Finds(i, f))
  BY <1>1 DEF OneForOne
<1> QED
  BY <1>2 DEF Covered

(* Images that follow the present ones one for one are as good as these.   *)
LEMMA ImagesFollow ==
  ASSUME ImagesInv, OneForOne(images', images), next_owner' = next_owner,
         UNCHANGED Live!vm, \A j \in images' : j.generation <= group_generation'
  PROVE  ImagesInv'
<1>1. \A j \in images' : j.owner < next_owner' /\ Based(j)'
  BY DEF ImagesInv, OneForOne, Like, Based, Live!vm
<1> QED
  BY <1>1 DEF ImagesInv, OneForOne

(* The group moves on while the VM does not.                               *)
LEMMA EnvironmentFollows ==
  ASSUME EnvironmentInv, UNCHANGED Live!vm, context' \in 0 .. heap,
         group_generation' \in 1 .. MaxGeneration, next_owner' \in 1 .. MaxOwner + 1,
         current' \in BOOLEAN
  PROVE  EnvironmentInv'
BY DEF EnvironmentInv, Live!vm

(* The owners whose hooks could not be removed are left draining; the      *)
(* directory stays.                                                        *)
LEMMA ClosedKept ==
  ASSUME Live!DirectoryAssumption, DirectoryInv, NEW A, images' = Live!Closed(A),
         UNCHANGED <<Live!vm, index, context, next_owner>>, current' = FALSE,
         group_generation' \in group_generation .. MaxGeneration
  PROVE  DirectoryInv' /\ (CompleteInv => CompleteInv')
<1> USE DEF DirectoryInv
<1>1. OneForOne(images', images) /\ Copies(images', images)
  BY ImagesCopied DEF ImagesInv
<1>2. EnvironmentInv'
  <2>1. context' \in 0 .. heap /\ next_owner' \in 1 .. MaxOwner + 1 /\ current' \in BOOLEAN
    BY DEF EnvironmentInv
  <2>2. group_generation' \in 1 .. MaxGeneration
    BY DEF EnvironmentInv, Live!DirectoryAssumption
  <2> QED
    BY <2>1, <2>2, EnvironmentFollows DEF Live!vm
<1>3. group_generation <= group_generation' /\ group_generation \in Nat /\ group_generation' \in Nat
  BY DEF EnvironmentInv, Live!DirectoryAssumption
<1>4. ImagesInv'
  <2>1. \A j \in images' : j.generation <= group_generation'
    <3> SUFFICES ASSUME NEW j \in images' PROVE j.generation <= group_generation'
      OBVIOUS
    <3>1. PICK i \in images : Like(j, i)
      BY <1>1 DEF OneForOne
    <3>2. j.generation = i.generation /\ i.generation \in Nat /\ i.generation <= group_generation
      BY <1>1, <3>1 DEF Copies, Copied, Like, ImagesInv, Live!ImageType
    <3> QED
      BY <1>3, <3>2
  <2> QED
    BY <1>1, <2>1, ImagesFollow
<1>5. ASSUME index # None PROVE IndexInv'
  <2>1. HasRoot(images')
    BY <1>1, <1>5 DEF IndexInv, HasRoot, OneForOne, Like
  <2>2. \A j \in images' : j.live = Live!LiveCount(index.infos, j)
    BY <1>1, <1>5 DEF IndexInv, OneForOne, Copies, Copied, Like, Live!LiveCount
  <2>3. \A x \in index.infos : AtHome(x)'
    <3> SUFFICES ASSUME NEW x \in index.infos PROVE AtHome(x)'
      OBVIOUS
    <3>1. PICK i \in images : Home(x, i)
      BY <1>5 DEF IndexInv, AtHome
    <3>2. PICK j \in images' : Like(j, i)
      BY <1>1 DEF OneForOne
    <3>3. Home(x, j)'
      BY <1>1, <3>1, <3>2 DEF Home, Like, Copies, Copied, Live!StillMapped, Live!IsLive, Live!vm
    <3> QED
      BY <3>2, <3>3 DEF AtHome
  <2> QED
    BY <1>5, <2>1, <2>2, <2>3 DEF IndexInv
<1>6. IndexInv'
  BY <1>5 DEF IndexInv
<1>7. CompleteInv => CompleteInv'
  <2>1. Covered(images') = Covered(images)
    BY <1>1, CoveredAlike DEF Copies, Copied
  <2>2. Covered(images)' = Covered(images')
    BY DEF Covered, Finds, Live!StillMapped, Live!vm
  <2> QED
    BY <2>1, <2>2 DEF CompleteInv, Live!vm
<1> QED
  BY <1>2, <1>4, <1>6, <1>7

(* Without a directory there is nothing to agree with.                     *)
LEMMA ForgottenKept ==
  ASSUME EnvironmentInv', ImagesInv', index' = None
  PROVE  DirectoryInv' /\ CompleteInv'
BY DEF DirectoryInv, IndexInv, CompleteInv

(* What replaces the image set was found by, or copied from, an orderly    *)
(* allocator.                                                              *)
Staged(staged) ==
  /\ staged \subseteq Live!ImageType /\ Distinct(staged)
  /\ \A s \in staged : s.owner < next_owner' /\ s.generation <= group_generation' /\ Based(s)

(* The whole image set is retired or advances a generation.                *)
LEMMA WholeKept ==
  ASSUME Live!DirectoryAssumption, DirectoryInv, NEW staged, NEW drained,
         Live!Transition(staged, TRUE, drained),
         UNCHANGED Live!vm, ~drained => UNCHANGED <<context, next_owner>>, current' = FALSE,
         group_generation < MaxGeneration, group_generation' = group_generation + 1,
         drained => EnvironmentInv' /\ Staged(staged)
  PROVE  DirectoryInv' /\ (CompleteInv => CompleteInv')
<1>1. CASE drained /\ Live!Published(staged, TRUE)
  <2>1. images' = Live!Activated(staged) /\ index' = None
    BY <1>1 DEF Live!Published
  <2>2. OneForOne(images', staged) /\ Copies(images', staged)
    BY <1>1, <2>1, ImagesCopied DEF Staged
  <2>3. \A j \in images' : j.owner < next_owner' /\ j.generation <= group_generation' /\ Based(j)'
    BY <1>1, <2>2 DEF Staged, OneForOne, Copies, Copied, Like, Based, Live!vm
  <2>4. ImagesInv'
    BY <2>2, <2>3 DEF ImagesInv, OneForOne
  <2> QED
    BY <1>1, <2>1, <2>4, ForgottenKept
<1>2. CASE ~drained
  <2>1. images' = Live!Closed(Live!Affected(staged, TRUE)) /\ UNCHANGED index
    BY <1>2 DEF Live!Transition
  <2>2. group_generation' \in group_generation .. MaxGeneration
    BY DEF DirectoryInv, EnvironmentInv, Live!DirectoryAssumption
  <2> QED
    BY <1>2, <2>1, <2>2, ClosedKept
<1> QED
  BY <1>1, <1>2 DEF Live!Transition

(* dartplant_runtime_on_module_unloading for the app.                      *)
LEMMA UnloadingAppKept ==
  ASSUME Live!DirectoryAssumption, DirectoryInv, NEW drained \in BOOLEAN, Live!UnloadingApp(drained)
  PROVE  DirectoryInv' /\ (CompleteInv => CompleteInv')
<1>1. /\ group_generation < MaxGeneration /\ group_generation' = group_generation + 1
      /\ Live!Transition({}, TRUE, drained) /\ UNCHANGED Live!vm /\ current' = FALSE
      /\ context' = IF drained THEN 0 ELSE context
      /\ next_owner' = IF drained THEN 1 ELSE next_owner
  BY DEF Live!UnloadingApp
<1>2. drained => EnvironmentInv'
  <2>1. context' \in 0 .. heap
    BY <1>1 DEF DirectoryInv, EnvironmentInv
  <2>2. group_generation' \in 1 .. MaxGeneration
    BY <1>1 DEF DirectoryInv, EnvironmentInv, Live!DirectoryAssumption
  <2>3. next_owner' \in 1 .. MaxOwner + 1
    BY <1>1 DEF DirectoryInv, EnvironmentInv, Live!DirectoryAssumption
  <2> QED
    BY <1>1, <2>1, <2>2, <2>3, EnvironmentFollows DEF DirectoryInv
<1>3. Staged({})
  BY DEF Staged, Distinct
<1>4. ~drained => UNCHANGED <<context, next_owner>>
  BY <1>1
<1> QED
  BY <1>1, <1>2, <1>3, <1>4, WholeKept

(* The generation advances before a new context is published.              *)
LEMMA AdvanceKept ==
  ASSUME Live!DirectoryAssumption, DirectoryInv, NEW drained \in BOOLEAN,
         Live!AdvanceGeneration(drained)
  PROVE  DirectoryInv' /\ (CompleteInv => CompleteInv')
<1> DEFINE staged == {[i EXCEPT !.generation = group_generation + 1] : i \in images}
<1>1. /\ group_generation < MaxGeneration /\ group_generation' = group_generation + 1
      /\ Live!Transition(staged, TRUE, drained)
      /\ UNCHANGED <<Live!vm, next_owner>> /\ current' = FALSE
      /\ context' = IF drained THEN 0 ELSE context
  BY DEF Live!AdvanceGeneration
<1>2. group_generation + 1 \in Nat
  BY DEF DirectoryInv, EnvironmentInv, Live!DirectoryAssumption
<1>3. /\ OneForOne(staged, images)
      /\ \A j \in staged, i \in images : j.owner = i.owner => j.generation = group_generation + 1
  <2>1. images \in SUBSET Live!ImageType /\ Distinct(images)
    BY DEF DirectoryInv, ImagesInv
  <2>2. /\ OneForOne({[i EXCEPT !.generation = group_generation + 1] : i \in images}, images)
        /\ \A j \in {[i EXCEPT !.generation = group_generation + 1] : i \in images}, i \in images :
             j.owner = i.owner =>
               j.generation = group_generation + 1 /\ j.live = i.live /\ j.state = i.state
    BY <1>2, <2>1, GenerationBound
  <2> QED
    BY <2>2
<1> HIDE DEF staged
<1>4. drained => EnvironmentInv'
  <2>1. context' \in 0 .. heap
    BY <1>1 DEF DirectoryInv, EnvironmentInv
  <2>2. group_generation' \in 1 .. MaxGeneration
    BY <1>1 DEF DirectoryInv, EnvironmentInv, Live!DirectoryAssumption
  <2>3. next_owner' \in 1 .. MaxOwner + 1
    BY <1>1 DEF DirectoryInv, EnvironmentInv, Live!DirectoryAssumption
  <2> QED
    BY <1>1, <2>1, <2>2, <2>3, EnvironmentFollows DEF DirectoryInv
<1>5. Staged(staged)
  <2> SUFFICES ASSUME NEW s \in staged
               PROVE  s.owner < next_owner' /\ s.generation <= group_generation' /\ Based(s)
    BY <1>3 DEF Staged, OneForOne
  <2>1. PICK i \in images : Like(s, i)
    BY <1>3 DEF OneForOne
  <2>2. s.generation = group_generation + 1
    BY <1>3, <2>1 DEF Like
  <2> QED
    BY <1>1, <1>2, <2>1, <2>2 DEF Like, DirectoryInv, ImagesInv, Based
<1> QED
  BY <1>1, <1>4, <1>5, WholeKept

(* An image of a part of the set, and one that is new to it.               *)
FromImages(staged) ==
  \A s \in staged :
    \/ \E i \in images : /\ Like(s, i) /\ i.generation <= s.generation
                         /\ Live!SameOwner(s, i) \/ s.state = "unbound"
    \/ s.owner >= next_owner /\ s.live = 0 /\ s.state = "unbound"

Keeping(s, i) == [s EXCEPT !.live = i.live, !.hash = i.hash, !.state = i.state]

(* Writing what a preserved image keeps.                                   *)
LEMMA ThreeImageFields ==
  ASSUME NEW s \in Live!ImageType, NEW i \in Live!ImageType
  PROVE  /\ Keeping(s, i) \in Live!ImageType /\ Like(Keeping(s, i), s)
         /\ Keeping(s, i).generation = s.generation
         /\ Keeping(s, i).live = i.live /\ Keeping(s, i).state = i.state
<1> DEFINE e == [s EXCEPT !.live = i.live, !.hash = i.hash, !.state = i.state]
           fields == {"unit", "base", "owner", "generation", "lifecycle", "live", "hash", "state"}
<1>1. DOMAIN e = fields
  BY DEF Live!ImageType
<1>2. /\ e.unit = s.unit /\ e.base = s.base /\ e.owner = s.owner
      /\ e.generation = s.generation /\ e.lifecycle = s.lifecycle
      /\ e.live = i.live /\ e.hash = i.hash /\ e.state = i.state
  BY DEF Live!ImageType
<1>3. e = [f \in fields |-> e[f]]
  BY <1>1
<1> HIDE DEF e
<1>4. e = [unit |-> s.unit, base |-> s.base, owner |-> s.owner, generation |-> s.generation,
           lifecycle |-> s.lifecycle, live |-> i.live, hash |-> i.hash, state |-> i.state]
  BY <1>2, <1>3
<1>5. e \in Live!ImageType
  BY <1>4 DEF Live!ImageType
<1>6. /\ e \in Live!ImageType /\ Like(e, s) /\ e.generation = s.generation
      /\ e.live = i.live /\ e.state = i.state
  BY <1>2, <1>5 DEF Like
<1> QED
  BY <1>6 DEF e, Keeping

Stays(s, i) == Live!SameOwner(s, i) /\ s.base = i.base

(* An image that stays keeps its Functions and its load state.             *)
LEMMA PreservedImages ==
  ASSUME ImagesInv, NEW staged \in SUBSET Live!ImageType, Distinct(staged)
  PROVE  /\ OneForOne(Live!Preserved(staged), staged)
         /\ \A j \in Live!Preserved(staged), s \in staged :
              j.owner = s.owner =>
                /\ j.generation = s.generation
                /\ \A i \in images : Stays(s, i) => j.live = i.live /\ j.state = i.state
                /\ (\A i \in images : ~Stays(s, i)) => j.live = s.live /\ j.state = s.state
<1> DEFINE old(s) == CHOOSE i \in images : Live!SameOwner(s, i)
           f == [s \in staged |->
                   IF \E i \in images : Stays(s, i)
                     THEN [s EXCEPT !.live = old(s).live, !.hash = old(s).hash,
                                    !.state = old(s).state]
                     ELSE s]
<1>1. ASSUME NEW s \in staged, NEW i \in images, Stays(s, i) PROVE old(s) = i
  <2>1. Live!SameOwner(s, i)
    BY <1>1 DEF Stays
  <2>2. old(s) \in images /\ Live!SameOwner(s, old(s))
    BY <2>1
  <2> QED
    BY <2>1, <2>2 DEF Live!SameOwner, ImagesInv, Distinct
<1>2. ASSUME NEW s \in staged
      PROVE  /\ f[s] \in Live!ImageType /\ Like(f[s], s) /\ f[s].generation = s.generation
             /\ \A i \in images : Stays(s, i) => f[s].live = i.live /\ f[s].state = i.state
             /\ (\A i \in images : ~Stays(s, i)) => f[s] = s
  <2>1. CASE \E i \in images : Stays(s, i)
    <3>1. PICK i \in images : Stays(s, i)
      BY <2>1
    <3>2. f[s] = [s EXCEPT !.live = i.live, !.hash = i.hash, !.state = i.state]
      BY <1>1, <3>1
    <3>3. i \in Live!ImageType /\ s \in Live!ImageType
      BY DEF ImagesInv
    <3> HIDE DEF f
    <3>4. f[s] = Keeping(s, i)
      BY <3>2 DEF Keeping
    <3>5. /\ f[s] \in Live!ImageType /\ Like(f[s], s) /\ f[s].generation = s.generation
          /\ f[s].live = i.live /\ f[s].state = i.state
      BY <3>3, <3>4, ThreeImageFields
    <3>6. \A k \in images : Stays(s, k) => k = i
      BY <3>1 DEF Stays, Live!SameOwner, ImagesInv, Distinct
    <3> QED
      BY <3>1, <3>5, <3>6
  <2>2. CASE ~\E i \in images : Stays(s, i)
    BY <2>2 DEF Like
  <2> QED
    BY <2>1, <2>2
<1>3. Live!Preserved(staged) = {f[s] : s \in staged}
  BY DEF Live!Preserved, Stays
<1> HIDE DEF f
<1>4. /\ OneForOne({f[s] : s \in staged}, staged)
      /\ \A j \in {f[s] : s \in staged}, s \in staged : j.owner = s.owner => j = f[s]
  BY <1>2, EachWritten
<1> QED
  BY <1>2, <1>3, <1>4

New(j) == j.owner >= next_owner /\ j.live = 0 /\ j.state = "unbound"

Descends(j, i) ==
  /\ Like(j, i) /\ i.generation <= j.generation
  /\ Copied(j, i) \/ (j.generation # i.generation /\ j.state = "unbound")

FreshSet(staged) == Live!Activated(Live!Preserved(staged))

(* Where an image that is published comes from.                            *)
LEMMA FreshImages ==
  ASSUME ImagesInv, next_owner \in Nat, NEW staged, Staged(staged), FromImages(staged)
  PROVE  /\ OneForOne(FreshSet(staged), staged)
         /\ \A j \in FreshSet(staged), s \in staged :
              j.owner = s.owner => j.generation = s.generation
         /\ \A j \in FreshSet(staged) : New(j) \/ \E i \in images : Descends(j, i)
         /\ \A i \in images, s \in staged : Live!SameOwner(s, i) =>
              \E j \in FreshSet(staged) : Like(j, i) /\ Copied(j, i)
<1> DEFINE js == FreshSet(staged)
           ps == Live!Preserved(staged)
<1>1. staged \in SUBSET Live!ImageType /\ Distinct(staged)
  BY DEF Staged
<1>2. OneForOne(ps, staged)
  BY <1>1, PreservedImages
<1>3. OneForOne(js, ps) /\ Copies(js, ps)
  BY <1>2, ImagesCopied DEF OneForOne, FreshSet
<1>4. OneForOne(js, staged)
  BY <1>2, <1>3, OneForOneFollows
<1>5. ASSUME NEW j \in js, NEW s \in staged, j.owner = s.owner
      PROVE  /\ Like(j, s) /\ j.generation = s.generation
             /\ \A i \in images : Stays(s, i) => j.live = i.live /\ j.state = i.state
             /\ (\A i \in images : ~Stays(s, i)) => j.live = s.live /\ j.state = s.state
  <2>1. PICK p \in ps : Like(j, p)
    BY <1>3 DEF OneForOne
  <2>2. j.generation = p.generation /\ j.live = p.live /\ j.state = p.state
    BY <1>3, <2>1 DEF Copies, Copied, Like
  <2>3. p.owner = s.owner
    BY <1>5, <2>1 DEF Like
  <2>4. /\ p.generation = s.generation
        /\ \A i \in images : Stays(s, i) => p.live = i.live /\ p.state = i.state
        /\ (\A i \in images : ~Stays(s, i)) => p.live = s.live /\ p.state = s.state
    BY <1>1, <2>3, PreservedImages
  <2>5. Like(j, s)
    BY <1>1, <1>4, <1>5 DEF OneForOne, Like, Distinct
  <2> QED
    BY <2>2, <2>4, <2>5
<1>6. ASSUME NEW i \in images, NEW s \in staged, Live!SameOwner(s, i)
      PROVE Stays(s, i) /\ Like(s, i)
  <2>1. s.owner < next_owner /\ s.owner \in Nat
    <3>1. s.owner = i.owner /\ i.owner < next_owner
      BY <1>6 DEF Live!SameOwner, ImagesInv
    <3>2. s.owner \in Nat
      BY <1>1 DEF Live!ImageType
    <3> QED
      BY <3>1, <3>2
  <2>2. PICK k \in images : Like(s, k)
    <3>1. ~(s.owner >= next_owner)
      BY <2>1
    <3> QED
      BY <3>1 DEF FromImages
  <2>3. k = i
    BY <1>6, <2>2 DEF Live!SameOwner, Like, ImagesInv, Distinct
  <2> QED
    BY <1>6, <2>2, <2>3 DEF Stays, Like
<1>7. ASSUME NEW j \in js PROVE New(j) \/ \E i \in images : Descends(j, i)
  <2>1. PICK s \in staged : Like(j, s)
    BY <1>4 DEF OneForOne
  <2>2. /\ j.owner = s.owner /\ j.generation = s.generation
        /\ \A i \in images : Stays(s, i) => j.live = i.live /\ j.state = i.state
        /\ (\A i \in images : ~Stays(s, i)) => j.live = s.live /\ j.state = s.state
    BY <1>5, <2>1 DEF Like
  <2>3. CASE \E i \in images : Live!SameOwner(s, i)
    <3>1. PICK i \in images : Live!SameOwner(s, i)
      BY <2>3
    <3>2. Like(j, i) /\ Copied(j, i)
      BY <1>6, <2>1, <2>2, <3>1 DEF Like, Copied, Live!SameOwner
    <3>3. i.generation <= j.generation
      BY <3>2 DEF Copied, ImagesInv, Live!ImageType
    <3> QED
      BY <3>2, <3>3 DEF Descends
  <2>4. CASE ~\E i \in images : Live!SameOwner(s, i)
    <3>1. j.live = s.live /\ j.state = s.state
      BY <2>2, <2>4 DEF Stays
    <3>2. CASE \E i \in images : /\ Like(s, i) /\ i.generation <= s.generation
                                 /\ Live!SameOwner(s, i) \/ s.state = "unbound"
      <4>1. PICK i \in images : /\ Like(s, i) /\ i.generation <= s.generation
                                /\ s.state = "unbound"
        BY <2>4, <3>2
      <4>2. j.generation # i.generation
        BY <2>2, <2>4, <4>1 DEF Live!SameOwner, Like
      <4>3. Descends(j, i)
        BY <2>1, <2>2, <3>1, <4>1, <4>2 DEF Descends, Like
      <4> QED
        BY <4>3
    <3>3. CASE s.owner >= next_owner /\ s.live = 0 /\ s.state = "unbound"
      BY <2>2, <3>1, <3>3 DEF New
    <3> QED
      BY <3>2, <3>3 DEF FromImages
  <2> QED
    BY <2>3, <2>4
<1>8. ASSUME NEW i \in images, NEW s \in staged, Live!SameOwner(s, i)
      PROVE  \E j \in js : Like(j, i) /\ Copied(j, i)
  <2>1. PICK j \in js : Like(j, s)
    BY <1>4 DEF OneForOne
  <2>2. Like(s, i) /\ Stays(s, i)
    BY <1>6, <1>8
  <2>3. j.generation = s.generation /\ j.live = i.live /\ j.state = i.state
    BY <1>5, <2>1, <2>2 DEF Like
  <2> QED
    BY <1>8, <2>1, <2>2, <2>3 DEF Like, Copied, Live!SameOwner
<1> QED
  BY <1>4, <1>5, <1>7, <1>8

(* What a transition of a part of the set starts from.                     *)
Partial(staged) ==
  /\ Staged(staged) /\ FromImages(staged)
  /\ EnvironmentInv' /\ UNCHANGED <<Live!vm, group_generation, context>> /\ current' = FALSE

(* The images that are published are as orderly as those that were staged. *)
LEMMA FreshKept ==
  ASSUME Live!DirectoryAssumption, DirectoryInv, NEW staged, Partial(staged),
         OneForOne(images', FreshSet(staged)),
         \A j \in images', k \in FreshSet(staged) :
           j.owner = k.owner => j.generation = k.generation
  PROVE  ImagesInv'
<1>1. ImagesInv /\ next_owner \in Nat
  BY DEF DirectoryInv, EnvironmentInv, Live!DirectoryAssumption
<1>2. /\ OneForOne(FreshSet(staged), staged)
      /\ \A j \in FreshSet(staged), s \in staged : j.owner = s.owner => j.generation = s.generation
  BY <1>1, FreshImages DEF Partial
<1>3. OneForOne(images', staged)
  BY <1>2, OneForOneFollows
<1>4. ASSUME NEW j \in images'
      PROVE  j.owner < next_owner' /\ j.generation <= group_generation' /\ Based(j)'
  <2>1. PICK k \in FreshSet(staged) : Like(j, k)
    BY DEF OneForOne
  <2>2. PICK s \in staged : Like(k, s)
    BY <1>2 DEF OneForOne
  <2>3. /\ j.owner = s.owner /\ j.unit = s.unit /\ j.base = s.base
        /\ j.generation = s.generation
    BY <1>2, <2>1, <2>2 DEF Like
  <2>4. s.owner < next_owner' /\ s.generation <= group_generation' /\ Based(s)
    BY DEF Partial, Staged
  <2> QED
    BY <2>3, <2>4 DEF Based, Partial, Live!vm
<1> QED
  BY <1>3, <1>4 DEF ImagesInv, OneForOne

(* Where the images of the present set stay, none of them is new to it.    *)
LEMMA KeptIndex ==
  ASSUME Live!DirectoryAssumption, DirectoryInv, NEW staged, Partial(staged),
         Live!Affected(staged, FALSE) = {}, images' = FreshSet(staged), index' = index
  PROVE  DirectoryInv' /\ (CompleteInv => CompleteInv')
<1> USE DEF DirectoryInv
<1>1. next_owner \in Nat
  BY DEF EnvironmentInv, Live!DirectoryAssumption
<1>2. /\ OneForOne(images', staged)
      /\ \A j \in images', s \in staged : j.owner = s.owner => j.generation = s.generation
      /\ \A j \in images' : New(j) \/ \E i \in images : Descends(j, i)
      /\ \A i \in images, s \in staged : Live!SameOwner(s, i) =>
           \E j \in images' : Like(j, i) /\ Copied(j, i)
  BY <1>1, FreshImages DEF Partial
<1>3. Distinct(images')
  BY <1>2 DEF OneForOne
<1>4. \A i \in images : \E j \in images' : Like(j, i) /\ Copied(j, i)
  BY <1>2 DEF Live!Affected
<1>5. \A i \in images : i.owner < next_owner /\ i.owner \in Nat
  BY DEF ImagesInv, Live!ImageType
<1>6. ASSUME NEW j \in images', NEW i \in images, j.owner = i.owner PROVE Like(j, i) /\ Copied(j, i)
  BY <1>3, <1>4, <1>6 DEF Like, Distinct
<1>7. \A j \in images' : New(j) \/ \E i \in images : Like(j, i) /\ Copied(j, i)
  BY <1>2, <1>6 DEF Descends, Like
<1>8. ImagesInv'
  <2>1. OneForOne(images', FreshSet(staged))
    <3>1. images' \subseteq Live!ImageType
      BY <1>2 DEF OneForOne
    <3> QED
      BY <1>3, <3>1 DEF OneForOne, Like
  <2>2. \A j \in images', k \in FreshSet(staged) : j.owner = k.owner => j.generation = k.generation
    BY <1>3 DEF Distinct
  <2> QED
    BY <2>1, <2>2, FreshKept
<1>9. ASSUME index # None PROVE IndexInv'
  <2>1. context' # 0 /\ Listing(index.infos) /\ Derived(index)
    BY <1>9 DEF IndexInv, Partial
  <2>2. HasRoot(images')
    BY <1>4, <1>9 DEF IndexInv, HasRoot, Like
  <2>3. ASSUME NEW x \in index.infos PROVE AtHome(x)'
    <3>1. PICK i \in images : Home(x, i)
      BY <1>9 DEF IndexInv, AtHome
    <3>2. PICK j \in images' : Like(j, i) /\ Copied(j, i)
      BY <1>4
    <3>3. Home(x, j)'
      BY <3>1, <3>2 DEF Home, Like, Copied, Live!StillMapped, Live!IsLive, Partial, Live!vm
    <3> QED
      BY <3>3 DEF AtHome
  <2>4. ASSUME NEW j \in images' PROVE j.live = Live!LiveCount(index.infos, j)
    <3>1. CASE New(j)
      <4>1. \A x \in index.infos : x.owner # j.owner
        BY <1>1, <1>5, <1>9, <3>1 DEF New, IndexInv, AtHome, Home
      <4>2. {x \in index.infos : x.owner = j.owner} = {}
        BY <4>1
      <4>3. Live!LiveCount(index.infos, j) = 0
        BY <4>2, FS_EmptySet, InstancesCount DEF Live!LiveCount
      <4> QED
        BY <3>1, <4>3 DEF New
    <3>2. CASE \E i \in images : Like(j, i) /\ Copied(j, i)
      BY <1>9, <3>2 DEF IndexInv, Live!LiveCount, Like, Copied
    <3> QED
      BY <1>7, <3>1, <3>2
  <2> QED
    BY <1>9, <2>1, <2>2, <2>3, <2>4 DEF IndexInv
<1>10. IndexInv'
  BY <1>9 DEF IndexInv
<1>11. ASSUME CompleteInv, index # None, context = heap
       PROVE  FunctionsOf(index.infos) = Covered(images)'
  <2>1. ASSUME NEW j \in images', NEW f, Finds(j, f)' PROVE \E i \in images : Finds(i, f)
    <3>1. CASE New(j)
      <4>1. j.unit = Root
        BY <2>1, <3>1 DEF New, Finds
      <4>2. PICK r \in images : r.unit = Root
        BY <1>11 DEF IndexInv, HasRoot
      <4>3. PICK k \in images' : Like(k, r)
        BY <1>4
      <4>4. j.owner = r.owner
        BY <1>3, <4>1, <4>2, <4>3 DEF Distinct, Like
      <4> QED
        BY <1>1, <1>5, <3>1, <4>4 DEF New
    <3>2. CASE \E i \in images : Like(j, i) /\ Copied(j, i)
      BY <2>1, <3>2 DEF Finds, Like, Copied, Live!StillMapped, Partial, Live!vm
    <3> QED
      BY <1>7, <3>1, <3>2
  <2>2. ASSUME NEW i \in images, NEW f, Finds(i, f) PROVE \E j \in images' : Finds(j, f)'
    BY <1>4, <2>2 DEF Finds, Like, Copied, Live!StillMapped, Partial, Live!vm
  <2>3. Covered(images)' = Covered(images)
    BY <2>1, <2>2 DEF Covered
  <2> QED
    BY <1>11, <2>3 DEF CompleteInv
<1>12. CompleteInv => CompleteInv'
  BY <1>11 DEF CompleteInv, Partial, Live!vm
<1> QED
  BY <1>8, <1>10, <1>12 DEF Partial

(* A directory that is pruned describes the images that stay: an info that *)
(* survives is bound to an image of its generation, and no image that      *)
(* survives lost one.                                                      *)
LEMMA PrunedIndex ==
  ASSUME Live!DirectoryAssumption, DirectoryInv, NEW staged, Partial(staged), index # None,
         NEW gone, gone = Live!Affected(staged, FALSE), gone = Live!Deferred(gone),
         Live!CanBindStable(Live!Prune(index, gone), FreshSet(staged)),
         index' = Live!Prune(index, gone),
         images' = Live!BindLiveEntries(FreshSet(staged), Live!Prune(index, gone).infos)
  PROVE  DirectoryInv' /\ (CompleteInv => CompleteInv')
<1> USE DEF DirectoryInv
<1> DEFINE ms == FreshSet(staged)
           kept == index.infos \ Lost(index.infos, gone)
<1>1. next_owner \in Nat
  BY DEF EnvironmentInv, Live!DirectoryAssumption
<1>2. /\ OneForOne(ms, staged)
      /\ \A m \in ms, s \in staged : m.owner = s.owner => m.generation = s.generation
      /\ \A m \in ms : New(m) \/ \E i \in images : Descends(m, i)
      /\ \A i \in images, s \in staged : Live!SameOwner(s, i) =>
           \E m \in ms : Like(m, i) /\ Copied(m, i)
  BY <1>1, FreshImages DEF Partial
<1>3. ms \in SUBSET Live!ImageType /\ Distinct(ms) /\ Distinct(images)
  BY <1>2 DEF OneForOne, ImagesInv
<1>4. \A i \in images : i.owner < next_owner /\ i.owner \in Nat /\ i.generation \in Nat
  BY DEF ImagesInv, Live!ImageType
<1>5. Live!Prune(index, gone) = Index(index.row, kept)
  BY DirectoriesMade DEF IndexInv
<1>6. Listing(kept) /\ kept \subseteq index.infos
  BY DEF IndexInv, Listing, OneEach
<1> HIDE DEF kept
<1>7. Live!Prune(index, gone).infos = kept /\ Derived(Live!Prune(index, gone))
  <2>1. Derived(Index(index.row, kept)) /\ Index(index.row, kept).infos = kept
    BY IndexDerives
  <2> QED
    BY <1>5, <2>1
<1>8. /\ OneForOne(images', ms)
      /\ \A j \in images', m \in ms : j.owner = m.owner =>
           /\ j.generation = m.generation /\ j.live = Live!LiveCount(kept, j) /\ j.state = m.state
  <2>1. images' = Live!BindLiveEntries(ms, kept)
    BY <1>7
  <2> HIDE DEF ms
  <2>2. /\ OneForOne(Live!BindLiveEntries(ms, kept), ms)
        /\ \A j \in Live!BindLiveEntries(ms, kept), m \in ms : j.owner = m.owner =>
             /\ j.generation = m.generation /\ j.live = Live!LiveCount(kept, j)
             /\ j.state = m.state
    BY <1>3, <1>6, ImagesBound
  <2> QED
    BY <2>1, <2>2
<1>9. PICK r \in images : r.unit = Root
  BY DEF IndexInv, HasRoot
<1>10. PICK mr \in ms : Like(mr, r) /\ Copied(mr, r)
  BY <1>2, <1>9 DEF Live!Affected, Live!Deferred
<1>11. ASSUME NEW m \in ms, m.unit = Root PROVE Like(m, r) /\ Copied(m, r)
  BY <1>3, <1>9, <1>10, <1>11 DEF Distinct, Like
<1>12. ASSUME NEW x \in kept
       PROVE  \E m \in ms, i \in images : Live!SameOwner(x, m) /\ Home(x, i) /\ Descends(m, i)
  <2>1. PICK i \in images : Home(x, i)
    BY <1>6 DEF IndexInv, AtHome
  <2>2. PICK m \in ms : Live!SameOwner(x, m)
    BY <1>7 DEF Live!CanBindStable
  <2>3. m.owner = i.owner
    BY <2>1, <2>2 DEF Live!SameOwner, Home
  <2>4. ~New(m)
    BY <1>1, <1>4, <2>3 DEF New
  <2>5. PICK k \in images : Descends(m, k)
    BY <1>2, <2>4
  <2>6. k = i
    BY <1>3, <2>3, <2>5 DEF Descends, Like, Distinct
  <2> QED
    BY <2>1, <2>2, <2>5, <2>6
<1> HIDE DEF ms
<1>13. ImagesInv'
  BY <1>8, FreshKept DEF ms
<1>14. IndexInv'
  <2>1. index'.infos = kept /\ Listing(index'.infos) /\ Derived(index')
    BY <1>6, <1>7
  <2>2. HasRoot(images')
    <3>1. PICK j \in images' : Like(j, mr)
      BY <1>8 DEF OneForOne
    <3>2. j.unit = Root
      BY <1>9, <1>10, <3>1 DEF Like
    <3> QED
      BY <3>2 DEF HasRoot
  <2>3. ASSUME NEW x \in kept PROVE AtHome(x)'
    <3>1. PICK m \in ms, i \in images : Live!SameOwner(x, m) /\ Home(x, i) /\ Descends(m, i)
      BY <1>12
    <3>2. PICK j \in images' : Like(j, m)
      BY <1>8 DEF OneForOne
    <3>3. x.generation = j.generation /\ j.generation \in Nat
      BY <1>3, <1>8, <3>1, <3>2 DEF Like, Live!SameOwner, Live!ImageType
    <3>4. Home(x, j)'
      BY <3>1, <3>2, <3>3 DEF Home, Descends, Like, Live!StillMapped, Live!IsLive, Partial, Live!vm
    <3> QED
      BY <3>4 DEF AtHome
  <2>4. ASSUME NEW j \in images' PROVE j.live = Live!LiveCount(kept, j)
    BY <1>8 DEF OneForOne, Like
  <2>5. context' # 0
    BY DEF IndexInv, Partial
  <2> QED
    BY <2>1, <2>2, <2>3, <2>4, <2>5 DEF IndexInv
<1>15. ASSUME CompleteInv, context = heap PROVE FunctionsOf(kept) = Covered(images)'
  <2>1. FunctionsOf(index.infos) = Covered(images)
    BY <1>15 DEF CompleteInv
  <2>2. ASSUME NEW x \in kept PROVE x.function \in Covered(images)'
    <3>1. PICK m \in ms, i \in images : Live!SameOwner(x, m) /\ Home(x, i) /\ Descends(m, i)
      BY <1>12
    <3>2. Copied(m, i)
      <4>1. m.generation \in Nat /\ i.generation \in Nat
        BY <1>3, <1>4 DEF Live!ImageType
      <4> QED
        BY <3>1, <4>1 DEF Home, Descends, Live!SameOwner
    <3>3. PICK k \in images : x.function \in Program /\ Finds(k, x.function)
      BY <1>6, <2>1 DEF FunctionsOf, Covered
    <3>4. k = i
      BY <1>3, <3>1, <3>3 DEF Finds, Home, Distinct
    <3>5. PICK j \in images' : Like(j, m)
      BY <1>8 DEF OneForOne
    <3>6. j.state = i.state /\ Like(j, i)
      BY <1>8, <3>1, <3>2, <3>5 DEF Copied, Descends, Like
    <3>7. Finds(j, x.function)'
      BY <3>3, <3>4, <3>6 DEF Finds, Like, Live!StillMapped, Partial, Live!vm
    <3> QED
      BY <3>3, <3>7 DEF Covered
  <2>3. ASSUME NEW f \in Covered(images)' PROVE f \in FunctionsOf(kept)
    <3>1. PICK j \in images' : f \in Program /\ Finds(j, f)'
      BY <2>3 DEF Covered
    <3>2. PICK m \in ms : Like(j, m)
      BY <1>8 DEF OneForOne
    <3>3. j.state = m.state
      BY <1>8, <3>2 DEF Like
    <3>4. PICK i \in images : Like(m, i) /\ Copied(m, i)
      <4>1. CASE m.unit = Root
        BY <1>11, <4>1
      <4>2. CASE m.unit # Root
        <5>1. m.state # "unbound"
          BY <3>1, <3>2, <3>3, <4>2 DEF Finds, Like
        <5> QED
          BY <1>2, <5>1 DEF New, Descends, ms
      <4> QED
        BY <4>1, <4>2
    <3>5. Finds(i, f)
      BY <3>1, <3>2, <3>3, <3>4 DEF Finds, Like, Copied, Live!StillMapped, Partial, Live!vm
    <3>6. PICK x \in index.infos : x.function = f
      BY <2>1, <3>1, <3>5 DEF Covered, FunctionsOf
    <3>7. PICK h \in images : Home(x, h)
      BY DEF IndexInv, AtHome
    <3>8. h = i
      BY <1>3, <3>5, <3>6, <3>7 DEF Finds, Home, Distinct
    <3>9. ASSUME NEW a \in gone, Live!SameOwner(x, a) PROVE FALSE
      <4>1. a \in images /\ ~\E s \in staged : Live!SameOwner(s, a)
        BY <3>9 DEF Live!Affected
      <4>2. a = i
        BY <1>3, <3>7, <3>8, <3>9, <4>1 DEF Live!SameOwner, Home, Distinct
      <4>3. PICK s \in staged : Like(m, s)
        BY <1>2 DEF OneForOne, ms
      <4>4. m.owner = s.owner /\ m.generation = s.generation
        BY <1>2, <4>3 DEF Like, ms
      <4> QED
        BY <3>4, <4>1, <4>2, <4>4 DEF Live!SameOwner, Like, Copied
    <3>10. x \in kept
      BY <3>9 DEF Lost, kept
    <3> QED
      BY <3>6, <3>10 DEF FunctionsOf
  <2>4. FunctionsOf(kept) \subseteq Covered(images)'
    BY <2>2 DEF FunctionsOf
  <2> QED
    BY <2>3, <2>4
<1>16. CompleteInv => CompleteInv'
  BY <1>7, <1>15 DEF CompleteInv, Partial, Live!vm
<1> QED
  BY <1>13, <1>14, <1>16 DEF Partial

(* A transition of a part of the set.                                      *)
LEMMA PartialKept ==
  ASSUME Live!DirectoryAssumption, DirectoryInv, NEW staged, NEW drained,
         Live!Transition(staged, FALSE, drained),
         UNCHANGED <<Live!vm, group_generation, context>>, current' = FALSE,
         ~drained => next_owner' = next_owner,
         drained => EnvironmentInv' /\ Staged(staged) /\ FromImages(staged)
  PROVE  DirectoryInv' /\ (CompleteInv => CompleteInv')
<1>1. CASE drained /\ Live!Published(staged, FALSE)
  <2>1. Partial(staged)
    BY <1>1 DEF Partial
  <2> DEFINE gone == Live!Affected(staged, FALSE)
             prunes == /\ gone # {} /\ index # None /\ gone = Live!Deferred(gone)
                       /\ Live!CanPrune(index, gone)
                       /\ Live!CanBindStable(Live!Prune(index, gone), FreshSet(staged))
  <2>2. /\ images' = IF prunes
                    THEN Live!BindLiveEntries(FreshSet(staged), Live!Prune(index, gone).infos)
                               ELSE FreshSet(staged)
        /\ index' = IF prunes THEN Live!Prune(index, gone)
                    ELSE IF gone = {} THEN index ELSE None
    BY <1>1 DEF Live!Published, FreshSet
  <2>3. CASE prunes
    BY <2>1, <2>2, <2>3, PrunedIndex
  <2>4. CASE ~prunes /\ gone = {}
    BY <2>1, <2>2, <2>4, KeptIndex
  <2>5. CASE ~prunes /\ gone # {}
    <3>1. images' = FreshSet(staged) /\ index' = None
      BY <2>2, <2>5
    <3>2. ImagesInv /\ next_owner \in Nat
      BY DEF DirectoryInv, EnvironmentInv, Live!DirectoryAssumption
    <3>3. OneForOne(FreshSet(staged), staged)
      BY <2>1, <3>2, FreshImages DEF Partial
    <3>4. OneForOne(images', FreshSet(staged))
      BY <3>1, <3>3 DEF OneForOne, Like
    <3>5. \A j \in images', k \in FreshSet(staged) :
            j.owner = k.owner => j.generation = k.generation
      BY <3>1, <3>3 DEF OneForOne, Distinct
    <3>6. ImagesInv'
      BY <2>1, <3>4, <3>5, FreshKept
    <3> QED
      BY <2>1, <3>1, <3>6, ForgottenKept DEF Partial
  <2> QED
    BY <2>3, <2>4, <2>5
<1>2. CASE ~drained /\ images' = Live!Closed(Live!Affected(staged, FALSE)) /\ UNCHANGED index
  <2>1. group_generation' \in group_generation .. MaxGeneration
    BY DEF DirectoryInv, EnvironmentInv, Live!DirectoryAssumption
  <2>2. UNCHANGED <<Live!vm, index, context, next_owner>>
    BY <1>2
  <2> QED
    BY <1>2, <2>1, <2>2, ClosedKept
<1> QED
  BY <1>1, <1>2 DEF Live!Transition

(* dartplant_runtime_on_module_unloading for a unit: the images of the     *)
(* others stay as they are.                                                *)
LEMMA UnloadingUnitKept ==
  ASSUME Live!DirectoryAssumption, DirectoryInv, NEW u \in Units, NEW drained \in BOOLEAN,
         Live!UnloadingUnit(u, drained)
  PROVE  DirectoryInv' /\ (CompleteInv => CompleteInv')
<1> DEFINE staged == {i \in images : i.unit # u}
<1>1. /\ Live!Transition(staged, FALSE, drained) /\ current' = FALSE
      /\ UNCHANGED <<Live!vm, group_generation, next_owner, context>>
  BY DEF Live!UnloadingUnit
<1>2. EnvironmentInv'
  BY <1>1, EnvironmentFollows DEF DirectoryInv, EnvironmentInv
<1>3. Staged(staged)
  BY <1>1 DEF Staged, DirectoryInv, ImagesInv, Distinct, Based
<1>4. FromImages(staged)
  <2> SUFFICES ASSUME NEW s \in staged
               PROVE  /\ s \in images /\ Like(s, s) /\ s.generation <= s.generation
                      /\ Live!SameOwner(s, s)
    BY DEF FromImages
  <2> QED
    BY DEF Like, Live!SameOwner, DirectoryInv, ImagesInv, Live!ImageType
<1> QED
  BY <1>1, <1>2, <1>3, <1>4, PartialKept

(* What NewImage makes.                                                    *)
LEMMA NewImageMade ==
  ASSUME Live!DirectoryAssumption, EnvironmentInv, NEW u \in {Root} \cup Units, NEW o \in Nat,
         mapped[u] # 0
  PROVE  /\ Live!NewImage(u, o) \in Live!ImageType /\ Based(Live!NewImage(u, o))
         /\ Live!NewImage(u, o).unit = u /\ Live!NewImage(u, o).base = mapped[u]
         /\ Live!NewImage(u, o).owner = o /\ Live!NewImage(u, o).generation = group_generation
         /\ Live!NewImage(u, o).live = 0 /\ Live!NewImage(u, o).state = "unbound"
<1> DEFINE i == Live!NewImage(u, o)
<1>1. /\ i.unit = u /\ i.base = mapped[u] /\ i.owner = o /\ i.generation = group_generation
      /\ i.live = 0 /\ i.state = "unbound"
  BY DEF Live!NewImage
<1>2. mapped[u] \in Nat /\ group_generation \in Nat /\ heap \in Nat
  BY DEF EnvironmentInv, Live!DirectoryAssumption
<1>3. i \in Live!ImageType
  BY <1>2 DEF Live!NewImage, Live!ImageType
<1> HIDE DEF i
<1>4. Based(i)
  BY <1>1, <1>2 DEF Based, EnvironmentInv
<1> QED
  BY <1>1, <1>3, <1>4 DEF i

(* The units that are found are finitely many units that are mapped.       *)
LEMMA FoundUnits ==
  ASSUME Live!DirectoryAssumption, EnvironmentInv
  PROVE  /\ \A u \in Live!Found : u \in {Root} \cup Units /\ mapped[u] # 0
         /\ Cardinality(Live!Found) \in Nat
<1>1. \A u \in Live!Found : u \in {Root} \cup Units /\ mapped[u] # 0
  BY DEF Live!Found, Live!Present, EnvironmentInv
<1>2. IsFiniteSet(Units \cup {Root})
  BY FS_AddElement, InstancesCount DEF Live!DirectoryAssumption
<1>3. Live!Found \subseteq Units \cup {Root}
  BY <1>1
<1>4. Cardinality(Live!Found) \in Nat
  BY <1>2, <1>3, FS_Subset, FS_CardinalityType
<1> QED
  BY <1>1, <1>4

(* dartplant_runtime_refresh_modules: an image of a unit that is still     *)
(* mapped keeps its owner, one of a unit that is found has a new one.      *)
LEMMA RefreshKept ==
  ASSUME Live!DirectoryAssumption, DirectoryInv, NEW drained \in BOOLEAN, Live!Refresh(drained)
  PROVE  DirectoryInv' /\ (CompleteInv => CompleteInv')
<1> USE DEF DirectoryInv
<1>0. Live!Cardinality(Live!Found) = Cardinality(Live!Found)
  BY InstancesCount
<1>1. PICK owner \in [Live!Found ->
                       next_owner .. next_owner + Cardinality(Live!Found) - 1] :
        /\ IsInjective(owner)
        /\ Live!Transition(Live!Kept \cup {Live!NewImage(u, owner[u]) : u \in Live!Found},
                           FALSE, drained)
  <2>1. PICK owner \in [Live!Found ->
                         next_owner .. next_owner + Live!Cardinality(Live!Found) - 1] :
          /\ Live!IsInjective(owner)
          /\ Live!Transition(Live!Kept \cup {Live!NewImage(u, owner[u]) : u \in Live!Found},
                             FALSE, drained)
    BY DEF Live!Refresh
  <2>2. IsInjective(owner)
    BY <2>1, InstancesCount
  <2> QED
    BY <1>0, <2>1, <2>2
<1>2. /\ next_owner + Cardinality(Live!Found) <= MaxOwner + 1
      /\ next_owner' = IF drained THEN next_owner + Cardinality(Live!Found) ELSE next_owner
      /\ current' = FALSE /\ UNCHANGED <<Live!vm, group_generation, context>>
  <2>1. /\ next_owner + Live!Cardinality(Live!Found) <= MaxOwner + 1
        /\ next_owner' = IF drained THEN next_owner + Live!Cardinality(Live!Found)
                                    ELSE next_owner
        /\ current' = FALSE /\ UNCHANGED <<Live!vm, group_generation, context>>
    BY DEF Live!Refresh
  <2> QED
    BY <1>0, <2>1
<1>3. /\ \A u \in Live!Found : u \in {Root} \cup Units /\ mapped[u] # 0
      /\ Cardinality(Live!Found) \in Nat
  BY FoundUnits
<1>4. next_owner \in Nat \ {0} /\ group_generation \in Nat /\ MaxOwner \in Nat
  BY DEF EnvironmentInv, Live!DirectoryAssumption
<1>5. \A u \in Live!Found : /\ owner[u] \in Nat /\ owner[u] >= next_owner
                            /\ owner[u] < next_owner + Cardinality(Live!Found)
  BY <1>3, <1>4
<1> DEFINE new == {Live!NewImage(u, owner[u]) : u \in Live!Found}
           staged == Live!Kept \cup new
<1>6. ASSUME NEW s \in Live!Kept
      PROVE  \E i \in images : /\ Like(s, i) /\ i.generation <= s.generation
                               /\ s \in Live!ImageType /\ Based(s)
                               /\ s.generation = group_generation /\ s.state = "unbound"
                               /\ s.owner < next_owner
  <2>1. PICK i \in images : Live!StillMapped(i) /\ s = Live!NewImage(i.unit, i.owner)
    BY DEF Live!Kept
  <2>2. /\ i \in Live!ImageType /\ i.owner < next_owner
        /\ i.generation <= group_generation /\ Based(i)
    BY DEF ImagesInv
  <2>3. i.unit \in {Root} \cup Units /\ i.owner \in Nat /\ mapped[i.unit] # 0
    BY <2>1, <2>2 DEF Live!ImageType, Live!StillMapped, Based
  <2>4. /\ s \in Live!ImageType /\ Based(s) /\ s.unit = i.unit /\ s.base = mapped[i.unit]
        /\ s.owner = i.owner /\ s.generation = group_generation /\ s.state = "unbound"
    BY <2>1, <2>3, NewImageMade
  <2> QED
    BY <2>1, <2>2, <2>4 DEF Like, Live!StillMapped
<1>7. ASSUME NEW s \in new
      PROVE  \E u \in Live!Found :
               /\ s.unit = u /\ s.owner = owner[u] /\ s \in Live!ImageType /\ Based(s)
               /\ s.generation = group_generation /\ s.live = 0 /\ s.state = "unbound"
  <2>1. PICK u \in Live!Found : s = Live!NewImage(u, owner[u])
    OBVIOUS
  <2> QED
    BY <1>3, <1>5, <2>1, NewImageMade
<1> HIDE DEF new
<1>8. Distinct(staged)
  <2>1. ASSUME NEW s \in Live!Kept, NEW t \in Live!Kept, s.unit = t.unit \/ s.owner = t.owner
        PROVE s = t
    <3>1. PICK i \in images : Live!StillMapped(i) /\ s = Live!NewImage(i.unit, i.owner)
      BY DEF Live!Kept
    <3>2. PICK k \in images : Live!StillMapped(k) /\ t = Live!NewImage(k.unit, k.owner)
      BY DEF Live!Kept
    <3>3. i.unit = k.unit \/ i.owner = k.owner
      BY <2>1, <3>1, <3>2 DEF Live!NewImage
    <3> QED
      BY <3>1, <3>2, <3>3 DEF ImagesInv, Distinct
  <2>2. ASSUME NEW s \in new, NEW t \in new, s.unit = t.unit \/ s.owner = t.owner PROVE s = t
    <3>1. PICK u \in Live!Found : s = Live!NewImage(u, owner[u])
      BY DEF new
    <3>2. PICK v \in Live!Found : t = Live!NewImage(v, owner[v])
      BY DEF new
    <3>3. u = v \/ owner[u] = owner[v]
      BY <2>2, <3>1, <3>2 DEF Live!NewImage
    <3>4. u = v
      BY <1>1, <3>3 DEF IsInjective
    <3> QED
      BY <3>1, <3>2, <3>4
  <2>3. ASSUME NEW s \in Live!Kept, NEW t \in new PROVE s.unit # t.unit /\ s.owner # t.owner
    <3>1. PICK u \in Live!Found : t.unit = u /\ t.owner = owner[u]
      BY <1>7
    <3>2. s.unit # u
      BY <3>1 DEF Live!Found
    <3>3. s.owner < next_owner /\ s.owner \in Nat
      BY <1>6 DEF Live!ImageType
    <3>4. owner[u] >= next_owner /\ owner[u] \in Nat
      BY <1>5
    <3> QED
      BY <1>4, <3>1, <3>2, <3>3, <3>4
  <2> QED
    BY <2>1, <2>2, <2>3 DEF Distinct
<1>9. ASSUME drained PROVE Staged(staged)
  <2>1. next_owner' = next_owner + Cardinality(Live!Found) /\ group_generation' = group_generation
    BY <1>2, <1>9
  <2>2. ASSUME NEW s \in staged
        PROVE  /\ s \in Live!ImageType /\ s.owner < next_owner'
               /\ s.generation <= group_generation' /\ Based(s)
    <3>1. CASE s \in Live!Kept
      <4>1. /\ s \in Live!ImageType /\ s.owner < next_owner
            /\ s.generation = group_generation /\ Based(s)
        BY <1>6, <3>1
      <4>2. s.owner \in Nat
        BY <4>1 DEF Live!ImageType
      <4> QED
        BY <1>3, <1>4, <2>1, <4>1, <4>2
    <3>2. CASE s \in new
      <4>1. PICK u \in Live!Found : /\ s.owner = owner[u] /\ s \in Live!ImageType /\ Based(s)
                                    /\ s.generation = group_generation
        BY <1>7, <3>2
      <4> QED
        BY <1>4, <1>5, <2>1, <4>1
    <3> QED
      BY <3>1, <3>2
  <2> QED
    BY <1>8, <2>2 DEF Staged
<1>10. FromImages(staged)
  <2>1. ASSUME NEW s \in new PROVE s.owner >= next_owner /\ s.live = 0 /\ s.state = "unbound"
    BY <1>5, <1>7
  <2> QED
    BY <1>6, <2>1 DEF FromImages
<1>11. drained => EnvironmentInv'
  <2>1. context' \in 0 .. heap /\ group_generation' \in 1 .. MaxGeneration /\ current' \in BOOLEAN
    BY <1>2 DEF EnvironmentInv
  <2>2. next_owner' \in 1 .. MaxOwner + 1
    BY <1>2, <1>3, <1>4 DEF EnvironmentInv
  <2> QED
    BY <1>2, <2>1, <2>2, EnvironmentFollows
<1>12. Live!Transition(staged, FALSE, drained)
  BY <1>1 DEF new
<1> HIDE DEF staged
<1> QED
  BY <1>2, <1>9, <1>10, <1>11, <1>12, PartialKept

-----------------------------------------------------------------------------
(* A bootstrap                                                             *)

(* What a bootstrap binds to the images: the generation, the number of     *)
(* their Functions, and whether their units are loaded.                    *)
BoundBy(infos) ==
  /\ OneForOne(images', images)
  /\ \A j \in images', i \in images : j.owner = i.owner =>
       /\ j.generation = group_generation /\ j.live = Live!LiveCount(infos, j)
       /\ j.state = IF i.unit = Root THEN i.state ELSE Live!LoadState(i.unit)

(* The sets of images that are staged for it.                              *)
StagedFor(infos) ==
  {Live!BindProgramHash(Live!BindLiveEntries(Live!Observe(images), infos)),
   Live!BindProgramHash(Live!Observe(Live!BindLiveEntries(images, infos)))}

(* Fields that are written one after the other.                            *)
LEMMA ImagesStaged ==
  ASSUME Live!DirectoryAssumption, DirectoryInv, NEW infos, Listing(infos),
         NEW is, is \in StagedFor(infos)
  PROVE  /\ OneForOne(is, images)
         /\ \A j \in is, i \in images : j.owner = i.owner =>
              /\ j.live = Live!LiveCount(infos, j)
              /\ j.state = IF i.unit = Root THEN i.state ELSE Live!LoadState(i.unit)
<1>1. images \in SUBSET Live!ImageType /\ Distinct(images)
  BY DEF DirectoryInv, ImagesInv
<1>2. CASE is = Live!BindProgramHash(Live!BindLiveEntries(Live!Observe(images), infos))
  <2> DEFINE os == Live!Observe(images)
             bs == Live!BindLiveEntries(os, infos)
  <2>1. /\ OneForOne(os, images)
        /\ \A j \in os, i \in images : j.owner = i.owner =>
             j.state = IF i.unit = Root THEN i.state ELSE Live!LoadState(i.unit)
    BY <1>1, ImagesBound
  <2> HIDE DEF os
  <2>2. os \in SUBSET Live!ImageType /\ Distinct(os)
    BY <2>1 DEF OneForOne
  <2>3. /\ OneForOne(bs, os)
        /\ \A j \in bs, i \in os : j.owner = i.owner =>
             j.live = Live!LiveCount(infos, j) /\ j.state = i.state
    BY <2>2, ImagesBound
  <2> HIDE DEF bs
  <2>4. bs \in SUBSET Live!ImageType /\ Distinct(bs)
    BY <2>3 DEF OneForOne
  <2>5. OneForOne(Live!BindProgramHash(bs), bs) /\ Copies(Live!BindProgramHash(bs), bs)
    BY <2>4, ImagesCopied
  <2>6. OneForOne(is, bs) /\ Copies(is, bs)
    BY <1>2, <2>5 DEF bs, os
  <2>7. OneForOne(is, images)
    BY <2>1, <2>3, <2>6, OneForOneFollows
  <2>8. ASSUME NEW j \in is, NEW i \in images, j.owner = i.owner
        PROVE  /\ j.live = Live!LiveCount(infos, j)
               /\ j.state = IF i.unit = Root THEN i.state ELSE Live!LoadState(i.unit)
    <3>1. PICK b \in bs : Like(j, b)
      BY <2>6 DEF OneForOne
    <3>2. PICK o \in os : Like(b, o)
      BY <2>3 DEF OneForOne
    <3>3. j.live = b.live /\ j.state = b.state
      BY <2>6, <3>1 DEF Copies, Copied, Like
    <3>4. b.live = Live!LiveCount(infos, b) /\ b.state = o.state
      BY <2>3, <3>2 DEF Like
    <3>5. o.owner = i.owner
      BY <2>8, <3>1, <3>2 DEF Like
    <3>6. o.state = IF i.unit = Root THEN i.state ELSE Live!LoadState(i.unit)
      BY <2>1, <3>5
    <3>7. Live!LiveCount(infos, j) = Live!LiveCount(infos, b)
      BY <3>1 DEF Live!LiveCount, Like
    <3> QED
      BY <3>3, <3>4, <3>6, <3>7
  <2> QED
    BY <2>7, <2>8
<1>3. CASE is = Live!BindProgramHash(Live!Observe(Live!BindLiveEntries(images, infos)))
  <2> DEFINE bs == Live!BindLiveEntries(images, infos)
             os == Live!Observe(bs)
  <2>1. /\ OneForOne(bs, images)
        /\ \A j \in bs, i \in images : j.owner = i.owner =>
             j.live = Live!LiveCount(infos, j) /\ j.state = i.state
    BY <1>1, ImagesBound
  <2> HIDE DEF bs
  <2>2. bs \in SUBSET Live!ImageType /\ Distinct(bs)
    BY <2>1 DEF OneForOne
  <2>3. /\ OneForOne(os, bs)
        /\ \A j \in os, i \in bs : j.owner = i.owner =>
             /\ j.live = i.live
             /\ j.state = IF i.unit = Root THEN i.state ELSE Live!LoadState(i.unit)
    BY <2>2, ImagesBound
  <2> HIDE DEF os
  <2>4. os \in SUBSET Live!ImageType /\ Distinct(os)
    BY <2>3 DEF OneForOne
  <2>5. OneForOne(Live!BindProgramHash(os), os) /\ Copies(Live!BindProgramHash(os), os)
    BY <2>4, ImagesCopied
  <2>6. OneForOne(is, os) /\ Copies(is, os)
    BY <1>3, <2>5 DEF bs, os
  <2>7. OneForOne(is, images)
    BY <2>1, <2>3, <2>6, OneForOneFollows
  <2>8. ASSUME NEW j \in is, NEW i \in images, j.owner = i.owner
        PROVE  /\ j.live = Live!LiveCount(infos, j)
               /\ j.state = IF i.unit = Root THEN i.state ELSE Live!LoadState(i.unit)
    <3>1. PICK o \in os : Like(j, o)
      BY <2>6 DEF OneForOne
    <3>2. PICK b \in bs : Like(o, b)
      BY <2>3 DEF OneForOne
    <3>3. j.live = o.live /\ j.state = o.state
      BY <2>6, <3>1 DEF Copies, Copied, Like
    <3>4. /\ o.live = b.live
          /\ o.state = IF b.unit = Root THEN b.state ELSE Live!LoadState(b.unit)
      BY <2>3, <3>2 DEF Like
    <3>5. b.owner = i.owner /\ b.unit = i.unit
      <4>1. b.owner = i.owner
        BY <2>8, <3>1, <3>2 DEF Like
      <4>2. PICK k \in images : Like(b, k)
        BY <2>1 DEF OneForOne
      <4>3. k = i
        BY <1>1, <4>1, <4>2 DEF Distinct, Like
      <4> QED
        BY <4>1, <4>2, <4>3 DEF Like
    <3>6. b.live = Live!LiveCount(infos, b) /\ b.state = i.state
      BY <2>1, <3>5
    <3>7. Live!LiveCount(infos, j) = Live!LiveCount(infos, b)
      BY <3>1, <3>2 DEF Live!LiveCount, Like
    <3> QED
      BY <3>3, <3>4, <3>5, <3>6, <3>7
  <2> QED
    BY <2>7, <2>8
<1> QED
  BY <1>2, <1>3 DEF StagedFor

(* What is published is what was staged, in the present generation.        *)
LEMMA ImagesPublished ==
  ASSUME Live!DirectoryAssumption, DirectoryInv, NEW infos, Listing(infos),
         NEW is, is \in StagedFor(infos),
         images' = Live!Activated({[i EXCEPT !.generation = group_generation] : i \in is})
  PROVE  BoundBy(infos)
<1> DEFINE gs == {[i EXCEPT !.generation = group_generation] : i \in is}
<1>1. /\ OneForOne(is, images)
      /\ \A j \in is, i \in images : j.owner = i.owner =>
           /\ j.live = Live!LiveCount(infos, j)
           /\ j.state = IF i.unit = Root THEN i.state ELSE Live!LoadState(i.unit)
  BY ImagesStaged
<1>2. is \in SUBSET Live!ImageType /\ Distinct(is)
  BY <1>1 DEF OneForOne
<1>3. group_generation \in Nat
  BY DEF DirectoryInv, EnvironmentInv, Live!DirectoryAssumption
<1>4. /\ OneForOne(gs, is)
      /\ \A j \in gs, i \in is : j.owner = i.owner =>
           j.generation = group_generation /\ j.live = i.live /\ j.state = i.state
  <2>1. /\ OneForOne({[i EXCEPT !.generation = group_generation] : i \in is}, is)
        /\ \A j \in {[i EXCEPT !.generation = group_generation] : i \in is}, i \in is :
             j.owner = i.owner =>
               j.generation = group_generation /\ j.live = i.live /\ j.state = i.state
    BY <1>2, <1>3, GenerationBound
  <2> QED
    BY <2>1
<1> HIDE DEF gs
<1>5. gs \in SUBSET Live!ImageType /\ Distinct(gs)
  BY <1>4 DEF OneForOne
<1>6. OneForOne(images', gs) /\ Copies(images', gs)
  <2>1. OneForOne(Live!Activated(gs), gs) /\ Copies(Live!Activated(gs), gs)
    BY <1>5, ImagesCopied
  <2> QED
    BY <2>1 DEF gs
<1>7. OneForOne(images', images)
  BY <1>1, <1>4, <1>6, OneForOneFollows
<1>8. ASSUME NEW j \in images', NEW i \in images, j.owner = i.owner
      PROVE  /\ j.generation = group_generation /\ j.live = Live!LiveCount(infos, j)
             /\ j.state = IF i.unit = Root THEN i.state ELSE Live!LoadState(i.unit)
  <2>1. PICK g \in gs : Like(j, g)
    BY <1>6 DEF OneForOne
  <2>2. PICK k \in is : Like(g, k)
    BY <1>4 DEF OneForOne
  <2>3. j.generation = g.generation /\ j.live = g.live /\ j.state = g.state
    BY <1>6, <2>1 DEF Copies, Copied, Like
  <2>4. g.generation = group_generation /\ g.live = k.live /\ g.state = k.state
    BY <1>4, <2>2 DEF Like
  <2>5. k.owner = i.owner
    BY <1>8, <2>1, <2>2 DEF Like
  <2>6. /\ k.live = Live!LiveCount(infos, k)
        /\ k.state = IF i.unit = Root THEN i.state ELSE Live!LoadState(i.unit)
    BY <1>1, <2>5
  <2>7. Live!LiveCount(infos, j) = Live!LiveCount(infos, k)
    BY <2>1, <2>2 DEF Live!LiveCount, Like
  <2> QED
    BY <2>3, <2>4, <2>6, <2>7
<1> QED
  BY <1>7, <1>8 DEF BoundBy

(* The load states of the images are those of the units.                   *)
StatesObserved(is) == \A i \in is : i.unit # Root => i.state = Live!LoadState(i.unit)

(* Then a walk of the heap finds what the images cover.                    *)
LEMMA CollectedIsCovered ==
  ASSUME Live!DirectoryAssumption, loaded \subseteq Units, NEW is \in SUBSET Live!ImageType,
         Distinct(is), StatesObserved(is)
  PROVE  Live!CollectedFunctions(is) = Covered(is)
<1>1. ASSUME NEW f \in Covered(is) PROVE f \in Live!CollectedFunctions(is)
  <2>1. f \in Program /\ CodeOf[f] \in Codes
    BY DEF Covered, Live!DirectoryAssumption
  <2>2. PICK i \in is : Finds(i, f)
    BY DEF Covered
  <2>3. i \in Live!Holding(is, CodeOf[f])
    BY <2>2 DEF Finds, Live!Holding, Live!StillMapped
  <2>4. i.unit # Root => UnitOf[CodeOf[f]] \in loaded
    BY <2>2 DEF Finds, StatesObserved, Live!LoadState
  <2>5. CASE f \in Listed
    <3>1. Live!Provable(is, f)
      BY <2>2, <2>3, <2>4 DEF Live!Provable, Live!IsLive, Finds
    <3> QED
      BY <2>5, <3>1 DEF Live!ClassWalk, Live!CollectedFunctions
  <2>6. CASE f \notin Listed
    <3>1. i.unit # Root /\ OwnerOf[CodeOf[f]] = f
      BY <2>2, <2>6 DEF Finds
    <3>2. i.owner \in Live!DeferredOwners(is)
      BY <3>1 DEF Live!DeferredOwners, Live!Deferred
    <3>3. f \in Live!UnitWalk(is, Live!DeferredOwners(is))
      BY <2>1, <2>3, <2>4, <3>1, <3>2, UnitWalkFinds
    <3> QED
      BY <3>3 DEF Live!CollectedFunctions
  <2> QED
    BY <2>5, <2>6
<1>2. ASSUME NEW f \in Live!ClassWalk(is) PROVE f \in Covered(is)
  <2>1. f \in Listed /\ f \in Program /\ Live!Provable(is, f)
    BY DEF Live!ClassWalk, Live!DirectoryAssumption
  <2>2. PICK i \in is : i.unit = UnitOf[CodeOf[f]] /\ Live!StillMapped(i)
    BY <2>1 DEF Live!Provable, Live!Holding, Live!StillMapped
  <2>3. i.unit # Root => i.state = "loaded"
    BY <2>1, <2>2 DEF Live!Provable, Live!IsLive, StatesObserved, Live!LoadState
  <2>4. Finds(i, f)
    BY <2>1, <2>2, <2>3 DEF Finds, Live!Provable
  <2> QED
    BY <2>1, <2>4 DEF Covered
<1>3. ASSUME NEW f \in Live!UnitWalk(is, Live!DeferredOwners(is)) PROVE f \in Covered(is)
  <2>1. /\ f \in Program /\ OwnerOf[CodeOf[f]] = f /\ UnitOf[CodeOf[f]] \in loaded
        /\ \E i \in Live!Holding(is, CodeOf[f]) : i.owner \in Live!DeferredOwners(is)
    BY UnitWalkFinds
  <2>2. PICK i \in is : i.unit = UnitOf[CodeOf[f]] /\ Live!StillMapped(i)
    BY <2>1 DEF Live!Holding, Live!StillMapped
  <2>3. i.unit # Root /\ i.state = "loaded" /\ f # None
    BY <2>1, <2>2 DEF StatesObserved, Live!LoadState, Live!DirectoryAssumption
  <2>4. Finds(i, f)
    BY <2>1, <2>2, <2>3 DEF Finds
  <2> QED
    BY <2>1, <2>4 DEF Covered
<1> QED
  BY <1>1, <1>2, <1>3 DEF Live!CollectedFunctions

(* A walk does not look at what is bound to the images.                    *)
LEMMA CollectedAlike ==
  ASSUME Live!DirectoryAssumption, loaded \subseteq Units, NEW js, NEW is \in SUBSET Live!ImageType,
         OneForOne(js, is)
  PROVE  Live!CollectedFunctions(js) = Live!CollectedFunctions(is)
<1>1. js \in SUBSET Live!ImageType
  BY DEF OneForOne
<1>2. ASSUME NEW c PROVE (Live!Holding(js, c) = {}) <=> (Live!Holding(is, c) = {})
  BY DEF Live!Holding, OneForOne, Like
<1>3. Live!ClassWalk(js) = Live!ClassWalk(is)
  BY <1>2 DEF Live!ClassWalk, Live!Provable
<1>4. Live!DeferredOwners(js) = Live!DeferredOwners(is)
  BY DEF Live!DeferredOwners, Live!Deferred, OneForOne, Like
<1>5. ASSUME NEW f
      PROVE  (\E j \in Live!Holding(js, CodeOf[f]) : j.owner \in Live!DeferredOwners(js))
               <=> (\E i \in Live!Holding(is, CodeOf[f]) : i.owner \in Live!DeferredOwners(is))
  BY <1>4 DEF Live!Holding, OneForOne, Like
<1>6. \A f : f \in Live!UnitWalk(js, Live!DeferredOwners(js)) <=>
                f \in Live!UnitWalk(is, Live!DeferredOwners(is))
  BY <1>1, <1>5, UnitWalkFinds
<1> QED
  BY <1>3, <1>6 DEF Live!CollectedFunctions

(* A record of the walk that is in an image of no later generation.        *)
Proven(x) == \E i \in images : Home(x, i) /\ Live!StillMapped(i)

(* What a bootstrap publishes agrees when its infos are listed and proven. *)
LEMMA PublishedKept ==
  ASSUME Live!DirectoryAssumption, DirectoryInv, HasRoot(images), NEW infos, Listing(infos),
         \A x \in infos : Proven(x), BoundBy(infos),
         Derived(index'), index'.infos = infos,
         context' = heap, current' = TRUE, UNCHANGED <<Live!vm, group_generation, next_owner>>
  PROVE  /\ DirectoryInv' /\ StatesObserved(images')
         /\ Live!CollectedFunctions(images)' = Covered(images)'
<1> USE DEF DirectoryInv
<1>1. heap \in Nat \ {0} /\ group_generation \in Nat
  BY DEF EnvironmentInv, Live!DirectoryAssumption
<1>2. EnvironmentInv'
  <2>1. context' \in 0 .. heap
    BY <1>1
  <2>2. /\ group_generation' \in 1 .. MaxGeneration /\ next_owner' \in 1 .. MaxOwner + 1
        /\ current' \in BOOLEAN
    BY DEF EnvironmentInv
  <2> QED
    BY <2>1, <2>2, EnvironmentFollows
<1>3. \A j \in images' : j.generation = group_generation /\ j.live = Live!LiveCount(infos, j)
  BY DEF BoundBy, OneForOne, Like
<1>4. ImagesInv'
  BY <1>1, <1>3, ImagesFollow DEF BoundBy
<1>5. StatesObserved(images')
  BY DEF BoundBy, StatesObserved, OneForOne, Like
<1>6. IndexInv'
  <2>1. HasRoot(images')
    BY DEF HasRoot, BoundBy, OneForOne, Like
  <2>2. ASSUME NEW x \in infos PROVE AtHome(x)'
    <3>1. PICK i \in images : Home(x, i) /\ Live!StillMapped(i)
      BY DEF Proven
    <3>2. PICK j \in images' : Like(j, i)
      BY DEF BoundBy, OneForOne
    <3>3. x.generation <= j.generation
      <4>1. i.generation <= group_generation /\ i.generation \in Nat
        BY DEF ImagesInv, Live!ImageType
      <4>2. x.generation <= i.generation /\ x.generation \in Nat
        BY <3>1 DEF Home, Listing, Collected
      <4> QED
        BY <1>1, <1>3, <4>1, <4>2
    <3>4. Home(x, j)'
      BY <3>1, <3>2, <3>3 DEF Home, Like, Live!StillMapped, Live!IsLive, Live!vm
    <3> QED
      BY <3>4 DEF AtHome
  <2>3. \A j \in images' : j.live = Live!LiveCount(index'.infos, j)
    BY <1>3
  <2>4. context' # 0
    BY <1>1
  <2> QED
    BY <2>1, <2>2, <2>3, <2>4 DEF IndexInv
<1>7. Live!CollectedFunctions(images)' = Covered(images)'
  <2>1. loaded \subseteq Units /\ images' \in SUBSET Live!ImageType /\ Distinct(images')
    BY DEF EnvironmentInv, BoundBy, OneForOne
  <2>2. Live!CollectedFunctions(images') = Covered(images')
    BY <1>5, <2>1, CollectedIsCovered
  <2>3. Covered(images)' = Covered(images')
    BY DEF Covered, Finds, Live!StillMapped, Live!vm
  <2>4. Live!CollectedFunctions(images)' = Live!CollectedFunctions(images')
    BY DEF Live!CollectedFunctions, Live!ClassWalk, Live!Provable, Live!IsLive, Live!Holding,
           Live!UnitWalk, Live!UnitCodes, Live!DeferredOwners, Live!Deferred, Live!vm
  <2> QED
    BY <2>2, <2>3, <2>4
<1> QED
  BY <1>2, <1>4, <1>5, <1>6, <1>7

(* The Codes of a deferred unit are those of the Functions they name.      *)
Unshared ==
  \A f \in Program : UnitOf[CodeOf[f]] \in Units => OwnerOf[CodeOf[f]] \in {f, None}

(* An info of a walk is proven.                                            *)
LEMMA HeldIsProven ==
  ASSUME DirectoryInv, NEW x, Collected(x), Held(images, x)
  PROVE  Proven(x)
<1>1. PICK i \in images : /\ x.owner = i.owner /\ x.generation = i.generation
                          /\ i.unit = UnitOf[CodeOf[x.function]]
                          /\ Live!StillMapped(i) /\ Live!IsLive(CodeOf[x.function])
  BY DEF Held
<1>2. x.generation <= i.generation
  BY <1>1 DEF Collected
<1> QED
  BY <1>1, <1>2 DEF Proven, Home

(* BuildLiveSnapshotIndexForImages.                                        *)
LEMMA RebuildKept ==
  ASSUME Live!DirectoryAssumption, DirectoryInv, NEW row, Live!CanBootstrap, Live!RebuildIndex(row),
         context' = heap, current' = TRUE, UNCHANGED <<Live!vm, group_generation, next_owner>>
  PROVE  DirectoryInv' /\ CompleteInv' /\ Live!PublishedIsComplete'
<1> DEFINE infos == Live!CollectAll(images)
           is == Live!BindProgramHash(Live!Observe(Live!BindLiveEntries(images, infos)))
<1>1. /\ images' = Live!Activated({[i EXCEPT !.generation = group_generation] : i \in is})
      /\ index' = Live!Build(images, row)
  BY DEF Live!RebuildIndex, Live!Publish
<1>2. loaded \subseteq Units /\ images \in SUBSET Live!ImageType
  BY DEF DirectoryInv, EnvironmentInv, ImagesInv
<1>3. /\ Listing(infos) /\ FunctionsOf(infos) = Live!CollectedFunctions(images)
      /\ \A x \in infos : Held(images, x)
  BY <1>2, Collections
<1>4. is \in StagedFor(infos)
  BY DEF StagedFor
<1>5. Live!Build(images, row) = Live!Recounted(Live!AppendRecords(Live!Empty(row), infos))
  BY DEF Live!Build
<1> HIDE DEF infos
<1>6. index' = Index(row, infos)
  BY <1>1, <1>5, EditsDerive
<1>7. Derived(index') /\ index'.infos = infos
  BY <1>6, IndexDerives
<1> HIDE DEF is
<1>8. BoundBy(infos)
  BY <1>1, <1>3, <1>4, ImagesPublished
<1>9. \A x \in infos : Proven(x)
  BY <1>3, HeldIsProven DEF Listing
<1>10. HasRoot(images)
  BY DEF Live!CanBootstrap, HasRoot
<1>11. DirectoryInv' /\ Live!CollectedFunctions(images)' = Covered(images)'
  BY <1>3, <1>7, <1>8, <1>9, <1>10, PublishedKept
<1>12. Live!CollectedFunctions(images') = Live!CollectedFunctions(images)
  BY <1>2, <1>8, CollectedAlike DEF BoundBy
<1>13. Live!CollectedFunctions(images)' = Live!CollectedFunctions(images')
  BY DEF Live!CollectedFunctions, Live!ClassWalk, Live!Provable, Live!IsLive, Live!Holding,
         Live!UnitWalk, Live!UnitCodes, Live!DeferredOwners, Live!Deferred, Live!vm
<1>14. FunctionsOf(index'.infos) = Live!CollectedFunctions(images)'
  BY <1>3, <1>7, <1>12, <1>13
<1> QED
  BY <1>11, <1>14 DEF CompleteInv, Live!PublishedIsComplete, FunctionsOf

(* Both indices an extension can end with are edits of the present one.    *)
LEMMA ExtendedDerives ==
  ASSUME Live!DirectoryAssumption, DirectoryInv, NEW row, Live!Extends(row)
  PROVE  /\ index # None /\ context # 0
         /\ \A d \in Live!CollectDeferred(images, Live!NewlyLoaded(images)) :
              Live!HasStableOwnerSlot(d)
         /\ Live!Extended =
              Index(index.row,
                    Edited(index.infos,
                           Replaced(index.infos,
                                   Live!CollectDeferred(images, Live!NewlyLoaded(images))),
                           Live!CollectDeferred(images, Live!NewlyLoaded(images))))
<1> DEFINE owners == Live!NewlyLoaded(images)
           delta == Live!CollectDeferred(images, owners)
<1>1. index # None
  BY DEF Live!Extends, Live!Reusable
<1>2. context # 0 /\ Derived(index)
  BY <1>1 DEF DirectoryInv, IndexInv
<1>3. CASE owners = {}
  <2>1. delta = {}
    BY <1>3 DEF Live!CollectDeferred, Live!UnitWalk, Live!UnitCodes
  <2>2. Edited(index.infos, Replaced(index.infos, delta), delta) = index.infos
    BY <2>1 DEF Edited, Replaced
  <2>3. Live!Extended = index
    BY <1>3 DEF Live!Extended
  <2>4. Live!Extended = Index(index.row, index.infos)
    BY <1>2, <2>3 DEF Derived
  <2> QED
    BY <1>1, <1>2, <2>1, <2>2, <2>4
<1>4. CASE owners # {}
  <2>1. \A d \in delta : Live!HasStableOwnerSlot(d)
    BY <1>4 DEF Live!Extends, Live!CanIncrement
  <2>2. Live!Extended = Live!Increment(index, images, owners)
    BY <1>4 DEF Live!Extended
  <2> HIDE DEF owners
  <2>3. Live!Increment(index, images, owners) =
          Index(index.row, (index.infos \ Replaced(index.infos, delta)) \cup delta)
    BY <1>2, DirectoriesMade
  <2>4. (index.infos \ Replaced(index.infos, delta)) \cup delta =
          Edited(index.infos, Replaced(index.infos, delta), delta)
    BY DEF Edited
  <2>5. Live!Extended = Index(index.row, Edited(index.infos, Replaced(index.infos, delta), delta))
    BY <2>2, <2>3, <2>4
  <2> QED
    BY <1>1, <1>2, <2>1, <2>5 DEF owners
<1> QED
  BY <1>3, <1>4

(* A delta replaces the infos of the Functions it found, and no other.     *)
LEMMA ListingEdited ==
  ASSUME NEW infos, NEW delta, Listing(infos), Listing(delta),
         \A d \in delta : Live!HasStableOwnerSlot(d)
  PROVE  /\ Listing(Edited(infos, Replaced(infos, delta), delta))
         /\ FunctionsOf(Edited(infos, Replaced(infos, delta), delta))
              = FunctionsOf(infos) \cup FunctionsOf(delta)
<1> DEFINE S == Edited(infos, Replaced(infos, delta), delta)
<1>1. \A x \in S : x \in delta \/ (x \in infos /\ x \notin Replaced(infos, delta))
  BY DEF Edited
<1>2. delta \subseteq S
  BY DEF Edited
<1>3. \A x \in infos : x \in S \/ x \in Replaced(infos, delta)
  BY DEF Edited
<1>4. ASSUME NEW x \in infos, NEW d \in delta, x.function = d.function
      PROVE  x \in Replaced(infos, delta)
  <2>1. x.slot = d.slot /\ Live!HasStableOwnerSlot(x)
    BY <1>4 DEF Listing, Collected, Live!HasStableOwnerSlot
  <2> QED
    BY <2>1 DEF Replaced
<1>5. ASSUME NEW x \in Replaced(infos, delta)
      PROVE  x.function \in FunctionsOf(delta) /\ x.function \in FunctionsOf(infos)
  <2>1. PICK d \in delta : x \in infos /\ Live!HasStableOwnerSlot(x) /\ d.slot = x.slot
    BY DEF Replaced
  <2>2. x.function = d.function
    BY <2>1, SlotsAreOwn DEF Listing
  <2> QED
    BY <2>1, <2>2 DEF FunctionsOf
<1> HIDE DEF S
<1>6. \A x \in S : Collected(x)
  BY <1>1 DEF Listing
<1>7. OneEach(S)
  BY <1>1, <1>4 DEF OneEach, Listing
<1>8. FunctionsOf(S) \subseteq FunctionsOf(infos) \cup FunctionsOf(delta)
  BY <1>1 DEF FunctionsOf
<1>9. ASSUME NEW x \in infos PROVE x.function \in FunctionsOf(S)
  BY <1>2, <1>3, <1>5 DEF FunctionsOf
<1>10. ASSUME NEW x \in delta PROVE x.function \in FunctionsOf(S)
  BY <1>2 DEF FunctionsOf
<1>11. FunctionsOf(S) = FunctionsOf(infos) \cup FunctionsOf(delta)
  BY <1>8, <1>9, <1>10 DEF FunctionsOf
<1>12. Listing(S)
  BY <1>6, <1>7 DEF Listing
<1> QED
  BY <1>11, <1>12 DEF S

(* What a delta over the units that were loaded since adds to what the     *)
(* directory covered is what the images cover once that is observed.       *)
LEMMA DeltaCovers ==
  ASSUME Live!DirectoryAssumption, DirectoryInv, Unshared, Live!DeltaEligible(images),
         NEW infos, BoundBy(infos), UNCHANGED Live!vm
  PROVE  Covered(images) \cup Live!UnitWalk(images, Live!NewlyLoaded(images)) = Covered(images)'
<1> USE DEF DirectoryInv
<1> DEFINE owners == Live!NewlyLoaded(images)
<1>1. /\ loaded \subseteq Units /\ images \in SUBSET Live!ImageType /\ Distinct(images)
      /\ Root \notin Units /\ None \notin Program
  BY DEF EnvironmentInv, ImagesInv, Live!DirectoryAssumption
<1>2. \A i \in images : \E j \in images' :
        Like(j, i) /\ (i.unit # Root => j.state = Live!LoadState(i.unit))
  BY DEF BoundBy, OneForOne, Like
<1>3. \A j \in images' : \E i \in images :
        Like(j, i) /\ (i.unit # Root => j.state = Live!LoadState(i.unit))
  BY DEF BoundBy, OneForOne, Like
<1>4. ASSUME NEW f \in Covered(images) PROVE f \in Covered(images)'
  <2>1. PICK i \in images : f \in Program /\ Finds(i, f)
    BY DEF Covered
  <2>2. i.unit # Root => Live!LoadState(i.unit) = "loaded"
    BY <2>1 DEF Finds, Live!DeltaEligible, Live!Deferred, Live!Pristine
  <2>3. PICK j \in images' : Like(j, i) /\ (i.unit # Root => j.state = Live!LoadState(i.unit))
    BY <1>2
  <2>4. Finds(j, f)'
    BY <2>1, <2>2, <2>3 DEF Finds, Like, Live!StillMapped, Live!vm
  <2> QED
    BY <2>1, <2>4 DEF Covered
<1>5. ASSUME NEW f \in Live!UnitWalk(images, owners) PROVE f \in Covered(images)'
  <2>1. /\ f \in Program /\ OwnerOf[CodeOf[f]] = f /\ UnitOf[CodeOf[f]] \in loaded
        /\ \E i \in Live!Holding(images, CodeOf[f]) : i.owner \in owners
    BY <1>1, UnitWalkFinds
  <2>2. PICK i \in images : i.unit = UnitOf[CodeOf[f]] /\ Live!StillMapped(i)
    BY <2>1 DEF Live!Holding, Live!StillMapped
  <2>3. i.unit # Root /\ Live!LoadState(i.unit) = "loaded"
    BY <1>1, <2>1, <2>2 DEF Live!LoadState
  <2>4. PICK j \in images' : Like(j, i) /\ (i.unit # Root => j.state = Live!LoadState(i.unit))
    BY <1>2
  <2>5. Finds(j, f)'
    BY <1>1, <2>1, <2>2, <2>3, <2>4 DEF Finds, Like, Live!StillMapped, Live!vm
  <2> QED
    BY <2>1, <2>5 DEF Covered
<1>6. ASSUME NEW f \in Covered(images)', f \notin Covered(images)
      PROVE  f \in Live!UnitWalk(images, owners)
  <2>1. PICK j \in images' : f \in Program /\ Finds(j, f)'
    BY DEF Covered
  <2>2. PICK i \in images : Like(j, i) /\ (i.unit # Root => j.state = Live!LoadState(i.unit))
    BY <1>3
  <2>3. /\ i.unit = UnitOf[CodeOf[f]] /\ Live!StillMapped(i) /\ OwnerOf[CodeOf[f]] # None
        /\ ~Finds(i, f)
    BY <1>6, <2>1, <2>2 DEF Covered, Finds, Like, Live!StillMapped, Live!vm
  <2>4. i.unit # Root /\ j.state = "loaded" /\ i.state # "loaded"
    BY <2>1, <2>2, <2>3 DEF Finds, Like
  <2>5. i.unit \in loaded
    BY <2>2, <2>4 DEF Live!LoadState
  <2>6. OwnerOf[CodeOf[f]] = f
    BY <1>1, <2>1, <2>3, <2>5 DEF Unshared
  <2>7. i.owner \in owners
    BY <2>4, <2>5 DEF Live!NewlyLoaded, Live!Deferred
  <2>8. i \in Live!Holding(images, CodeOf[f])
    BY <2>3 DEF Live!Holding, Live!StillMapped
  <2> QED
    BY <1>1, <2>1, <2>3, <2>5, <2>6, <2>7, <2>8, UnitWalkFinds
<1> QED
  BY <1>4, <1>5, <1>6

(* BuildDeferredLiveSnapshotIndexIncrement.                                *)
LEMMA ExtendKept ==
  ASSUME Live!DirectoryAssumption, DirectoryInv, NEW row, Live!CanBootstrap,
         ~Live!SemanticContextChanged,
         Live!ExtendIndex(row), context' = heap, current' = TRUE,
         UNCHANGED <<Live!vm, group_generation, next_owner>>
  PROVE  /\ DirectoryInv'
         /\ Unshared /\ CompleteInv => CompleteInv' /\ Live!PublishedIsComplete'
<1> USE DEF DirectoryInv
<1> DEFINE delta == Live!CollectDeferred(images, Live!NewlyLoaded(images))
           infos == Edited(index.infos, Replaced(index.infos, delta), delta)
           is == Live!BindProgramHash(Live!BindLiveEntries(Live!Observe(images), infos))
<1>1. /\ Live!Extends(row) /\ index' = Live!Extended
      /\ images' = Live!Activated(
                     {[i EXCEPT !.generation = group_generation] :
                        i \in Live!BindProgramHash(
                                Live!BindLiveEntries(Live!Observe(images), Live!Extended.infos))})
  BY DEF Live!ExtendIndex, Live!Publish
<1>2. /\ index # None /\ context # 0
      /\ \A d \in delta : Live!HasStableOwnerSlot(d)
      /\ Live!Extended = Index(index.row, infos)
  BY <1>1, ExtendedDerives
<1>3. context = heap
  BY <1>2 DEF Live!SemanticContextChanged
<1>4. loaded \subseteq Units /\ images \in SUBSET Live!ImageType
  BY DEF EnvironmentInv, ImagesInv
<1>5. /\ Listing(delta) /\ FunctionsOf(delta) = Live!UnitWalk(images, Live!NewlyLoaded(images))
      /\ \A x \in delta : Held(images, x)
  BY <1>4, Collections
<1>6. Listing(index.infos) /\ \A x \in index.infos : AtHome(x)
  BY <1>2 DEF IndexInv
<1> HIDE DEF delta
<1>7. /\ Listing(infos) /\ FunctionsOf(infos) = FunctionsOf(index.infos) \cup FunctionsOf(delta)
      /\ \A x \in infos : x \in index.infos \/ x \in delta
  <2>1. \A x \in infos : x \in index.infos \/ x \in delta
    BY DEF Edited
  <2> QED
    BY <1>2, <1>5, <1>6, <2>1, ListingEdited
<1> HIDE DEF infos
<1>8. Derived(index') /\ index'.infos = infos /\ Live!Extended.infos = infos
  BY <1>1, <1>2, IndexDerives
<1>9. is \in StagedFor(infos)
  BY DEF StagedFor
<1>10. images' = Live!Activated({[i EXCEPT !.generation = group_generation] : i \in is})
  BY <1>1, <1>8
<1> HIDE DEF is
<1>11. BoundBy(infos)
  BY <1>7, <1>9, <1>10, ImagesPublished
<1>12. ASSUME NEW x \in infos PROVE Proven(x)
  <2>1. CASE x \in delta
    BY <1>5, <2>1, HeldIsProven DEF Listing
  <2>2. CASE x \in index.infos
    BY <1>3, <1>6, <2>2 DEF AtHome, Home, Proven
  <2> QED
    BY <1>7, <2>1, <2>2
<1>13. HasRoot(images)
  BY DEF Live!CanBootstrap, HasRoot
<1>14. DirectoryInv' /\ Live!CollectedFunctions(images)' = Covered(images)'
  BY <1>7, <1>8, <1>11, <1>12, <1>13, PublishedKept
<1>15. ASSUME Unshared, CompleteInv PROVE CompleteInv' /\ Live!PublishedIsComplete'
  <2>1. FunctionsOf(index.infos) = Covered(images)
    BY <1>2, <1>3, <1>15 DEF CompleteInv
  <2>2. Live!DeltaEligible(images)
    BY <1>1 DEF Live!Extends
  <2>3. Covered(images) \cup Live!UnitWalk(images, Live!NewlyLoaded(images)) = Covered(images)'
    BY <1>11, <1>15, <2>2, DeltaCovers
  <2>4. FunctionsOf(index'.infos) = Covered(images)'
    BY <1>5, <1>7, <1>8, <2>1, <2>3
  <2> QED
    BY <1>14, <2>4 DEF CompleteInv, Live!PublishedIsComplete, FunctionsOf
<1> QED
  BY <1>14, <1>15

(* The directory is reused as it is.                                       *)
LEMMA ReuseKept ==
  ASSUME Live!DirectoryAssumption, DirectoryInv, NEW row, ~Live!SemanticContextChanged,
         Live!ReuseIndex(row), context' = heap, current' = TRUE,
         UNCHANGED <<Live!vm, group_generation, next_owner>>
  PROVE  DirectoryInv' /\ (CompleteInv => CompleteInv' /\ Live!PublishedIsComplete')
<1> USE DEF DirectoryInv
<1>1. /\ UNCHANGED <<images, index>> /\ index # None /\ Live!SameDeferredLoadStates(images)
  BY DEF Live!ReuseIndex, Live!Reuses, Live!Reusable
<1>2. context = heap
  BY <1>1 DEF IndexInv, Live!SemanticContextChanged
<1>3. EnvironmentInv'
  BY <1>2, EnvironmentFollows DEF EnvironmentInv
<1>4. ImagesInv'
  BY <1>1 DEF ImagesInv, Based, Live!vm
<1>5. IndexInv'
  <2>1. \A x, i : Home(x, i) => Home(x, i)'
    BY <1>2 DEF Home, Live!StillMapped, Live!IsLive, Live!vm
  <2>2. \A x : AtHome(x) => AtHome(x)'
    BY <1>1, <2>1 DEF AtHome
  <2> QED
    BY <1>1, <1>2, <2>2 DEF IndexInv, HasRoot
<1>6. ASSUME CompleteInv PROVE CompleteInv' /\ Live!PublishedIsComplete'
  <2>1. FunctionsOf(index.infos) = Covered(images)
    BY <1>1, <1>2, <1>6 DEF CompleteInv
  <2>2. StatesObserved(images)
    BY <1>1 DEF Live!SameDeferredLoadStates, Live!Deferred, StatesObserved
  <2>3. Live!CollectedFunctions(images) = Covered(images)
    BY <2>2, CollectedIsCovered DEF EnvironmentInv, ImagesInv
  <2>4. Covered(images)' = Covered(images)
    BY <1>1 DEF Covered, Finds, Live!StillMapped, Live!vm
  <2>5. Live!CollectedFunctions(images)' = Live!CollectedFunctions(images)
    BY <1>1 DEF Live!CollectedFunctions, Live!ClassWalk, Live!Provable, Live!IsLive,
                Live!Holding, Live!UnitWalk, Live!UnitCodes,
                Live!DeferredOwners, Live!Deferred, Live!vm
  <2> QED
    BY <1>1, <2>1, <2>3, <2>4, <2>5 DEF CompleteInv, Live!PublishedIsComplete, FunctionsOf
<1> QED
  BY <1>3, <1>4, <1>5, <1>6

-----------------------------------------------------------------------------
(* What the directory keeps                                                *)

(* The inductive invariant holds initially.                                *)
LEMMA DirectoryInit ==
  ASSUME Live!DirectoryAssumption, Live!Init
  PROVE  DirectoryInv /\ CompleteInv /\ Live!PublishedIsComplete
<1>1. /\ 1 \in 1 .. MaxContext /\ 1 \in 1 .. MaxGeneration /\ 1 \in 1 .. MaxOwner + 1
      /\ 0 \in 0 .. MaxContext /\ 1 \in 0 .. MaxContext /\ 0 \in 0 .. 1
  BY DEF Live!DirectoryAssumption
<1>2. mapped \in [{Root} \cup Units -> 0 .. MaxContext]
  <2>1. mapped = [u \in {Root} \cup Units |-> IF u = Root THEN 1 ELSE 0]
    BY DEF Live!Init
  <2>2. \A u \in {Root} \cup Units : (IF u = Root THEN 1 ELSE 0) \in 0 .. MaxContext
    BY <1>1
  <2> QED
    BY <2>1, <2>2
<1>3. mapped[Root] = 1 /\ \A u \in Units : mapped[u] = 0
  BY DEF Live!Init, Live!DirectoryAssumption
<1>4. EnvironmentInv
  <2>1. /\ heap = 1 /\ context = 0 /\ group_generation = 1 /\ next_owner = 1
        /\ loaded = {} /\ current = FALSE
    BY DEF Live!Init
  <2>2. \A u \in Units : mapped[u] \in {0, heap}
    BY <1>3
  <2> QED
    BY <1>1, <1>2, <1>3, <2>1, <2>2 DEF EnvironmentInv
<1>5. ImagesInv
  BY DEF ImagesInv, Live!Init, Distinct
<1> QED
  BY <1>4, <1>5 DEF DirectoryInv, IndexInv, CompleteInv, Live!PublishedIsComplete, Live!Init

(* A bootstrap keeps it, and is complete where no Code is shared.          *)
LEMMA BootstrapKept ==
  ASSUME Live!DirectoryAssumption, DirectoryInv, NEW row, Live!Bootstrap(row)
  PROVE  /\ DirectoryInv'
         /\ Unshared /\ CompleteInv => CompleteInv' /\ Live!PublishedIsComplete'
<1>1. /\ Live!CanBootstrap /\ ~Live!SemanticContextChanged /\ context' = heap /\ current' = TRUE
      /\ UNCHANGED <<Live!vm, group_generation, next_owner>>
  BY DEF Live!Bootstrap
<1>2. CASE Live!ReuseIndex(row)
  BY <1>1, <1>2, ReuseKept
<1>3. CASE Live!ExtendIndex(row)
  BY <1>1, <1>3, ExtendKept
<1>4. CASE Live!RebuildIndex(row)
  BY <1>1, <1>4, RebuildKept
<1> QED
  BY <1>2, <1>3, <1>4 DEF Live!Bootstrap

(* What the loader and the VM do leaves what is covered: a unit that is    *)
(* loaded is not observed yet, and a restart ends the context.             *)
LEMMA EnvironmentCovers ==
  ASSUME Live!DirectoryAssumption, DirectoryInv, CompleteInv, Live!Environment
  PROVE  CompleteInv'
<1> USE DEF DirectoryInv
<1>1. UNCHANGED <<group_generation, images, next_owner, context, index>>
  BY DEF Live!Environment, Live!group
<1>2. CASE Live!Restart
  <2>1. context' # heap'
    BY <1>1, <1>2 DEF Live!Restart, EnvironmentInv, Live!DirectoryAssumption
  <2> QED
    BY <2>1 DEF CompleteInv
<1>3. CASE \E u \in Units : Live!Map(u) \/ Live!Load(u)
  <2>1. PICK u \in Units : Live!Map(u) \/ Live!Load(u)
    BY <1>3
  <2>2. heap' = heap
    BY <2>1 DEF Live!Map, Live!Load
  <2>3. ASSUME NEW i \in images PROVE Live!StillMapped(i)' <=> Live!StillMapped(i)
    <3>1. CASE Live!Load(u)
      BY <3>1 DEF Live!Load, Live!StillMapped
    <3>2. CASE Live!Map(u)
      <4>1. mapped[u] = 0 /\ mapped' = [mapped EXCEPT ![u] = heap]
        BY <3>2 DEF Live!Map
      <4>2. i.unit \in {Root} \cup Units
        BY DEF ImagesInv, Live!ImageType
      <4>3. i.unit = u => i.base # heap /\ i.base # 0
        BY <4>1 DEF ImagesInv, Based, EnvironmentInv, Live!DirectoryAssumption
      <4>4. mapped'[i.unit] = IF i.unit = u THEN heap ELSE mapped[i.unit]
        BY <4>1, <4>2 DEF EnvironmentInv
      <4> QED
        BY <4>1, <4>3, <4>4 DEF Live!StillMapped
    <3> QED
      BY <2>1, <3>1, <3>2
  <2>4. Covered(images)' = Covered(images)
    BY <1>1, <2>3 DEF Covered, Finds
  <2> QED
    BY <1>1, <2>2, <2>4 DEF CompleteInv
<1> QED
  BY <1>2, <1>3 DEF Live!Environment

(* Every step keeps it.                                                    *)
LEMMA StepKept ==
  ASSUME Live!DirectoryAssumption, DirectoryInv, Live!Next
  PROVE  /\ DirectoryInv'
         /\ Unshared /\ CompleteInv => CompleteInv' /\ Live!PublishedIsComplete'
<1>1. CASE \E drained \in BOOLEAN : Live!Refresh(drained)
  <2>1. DirectoryInv' /\ (CompleteInv => CompleteInv')
    BY <1>1, RefreshKept
  <2>2. current' = FALSE
    BY <1>1 DEF Live!Refresh
  <2> QED
    BY <2>1, <2>2 DEF Live!PublishedIsComplete
<1>2. CASE \E u \in Units, drained \in BOOLEAN : Live!UnloadingUnit(u, drained)
  <2>1. DirectoryInv' /\ (CompleteInv => CompleteInv')
    BY <1>2, UnloadingUnitKept
  <2>2. current' = FALSE
    BY <1>2 DEF Live!UnloadingUnit
  <2> QED
    BY <2>1, <2>2 DEF Live!PublishedIsComplete
<1>3. CASE \E drained \in BOOLEAN : Live!UnloadingApp(drained)
  <2>1. DirectoryInv' /\ (CompleteInv => CompleteInv')
    BY <1>3, UnloadingAppKept
  <2>2. current' = FALSE
    BY <1>3 DEF Live!UnloadingApp
  <2> QED
    BY <2>1, <2>2 DEF Live!PublishedIsComplete
<1>4. CASE \E drained \in BOOLEAN : Live!AdvanceGeneration(drained)
  <2>1. DirectoryInv' /\ (CompleteInv => CompleteInv')
    BY <1>4, AdvanceKept
  <2>2. current' = FALSE
    BY <1>4 DEF Live!AdvanceGeneration
  <2> QED
    BY <2>1, <2>2 DEF Live!PublishedIsComplete
<1>5. CASE \E row \in Rows : Live!Bootstrap(row)
  BY <1>5, BootstrapKept
<1>6. CASE Live!Environment
  <2>1. DirectoryInv' /\ (CompleteInv => CompleteInv')
    BY <1>6, EnvironmentKept, EnvironmentCovers
  <2>2. current' = FALSE
    BY <1>6 DEF Live!Environment
  <2> QED
    BY <2>1, <2>2 DEF Live!PublishedIsComplete
<1> QED
  BY <1>1, <1>2, <1>3, <1>4, <1>5, <1>6 DEF Live!Next

(* So does a step that changes nothing.                                    *)
LEMMA StutterKept ==
  ASSUME UNCHANGED Live!vars
  PROVE  /\ DirectoryInv => DirectoryInv'
         /\ CompleteInv => CompleteInv'
         /\ Live!PublishedIsComplete => Live!PublishedIsComplete'
<1>1. UNCHANGED <<mapped, loaded, heap, group_generation, images, next_owner, context, index,
                  current>>
  BY DEF Live!vars, Live!vm, Live!group
<1>2. EnvironmentInv => EnvironmentInv'
  BY <1>1 DEF EnvironmentInv
<1>3. ImagesInv => ImagesInv'
  BY <1>1 DEF ImagesInv, Based
<1>4. IndexInv => IndexInv'
  BY <1>1 DEF IndexInv, AtHome, Home, Live!StillMapped, Live!IsLive
<1>5. CompleteInv => CompleteInv'
  BY <1>1 DEF CompleteInv, Covered, Finds, Live!StillMapped
<1>6. Live!PublishedIsComplete => Live!PublishedIsComplete'
  BY <1>1 DEF Live!PublishedIsComplete, Live!CollectedFunctions, Live!ClassWalk, Live!Provable,
              Live!IsLive, Live!Holding, Live!UnitWalk, Live!UnitCodes,
              Live!DeferredOwners, Live!Deferred
<1> QED
  BY <1>2, <1>3, <1>4, <1>5, <1>6 DEF DirectoryInv

(* The invariant says what the directory is checked for.                   *)
LEMMA DirectoryInvImplies ==
  ASSUME Live!DirectoryAssumption, DirectoryInv
  PROVE  Live!DirectoryAgrees
<1> USE DEF DirectoryInv
<1>1. Live!TypeOK
  <2>1. heap \in 1 .. MaxContext /\ context \in 0 .. MaxContext
    BY DEF EnvironmentInv, Live!DirectoryAssumption
  <2>2. index = None \/ {x.function : x \in index.infos} \subseteq Program
    BY DEF IndexInv, Listing, Collected
  <2> QED
    BY <2>1, <2>2 DEF Live!TypeOK, EnvironmentInv, ImagesInv
<1>2. ASSUME index # None PROVE Live!PartsAgree
  BY <1>2, PartsFollow DEF IndexInv
<1>3. ASSUME index # None, NEW i \in images
      PROVE  /\ i.live = Live!LiveCount(index.infos, i)
             /\ \A x \in index.infos :
                  Live!SameOwner(x, i) /\ i.lifecycle = "active" /\ Live!StillMapped(i)
                    => UnitOf[CodeOf[x.function]] = i.unit /\ Live!IsLive(CodeOf[x.function])
  <2>1. i.live = Live!LiveCount(index.infos, i)
    BY <1>3 DEF IndexInv
  <2>2. ASSUME NEW x \in index.infos, Live!SameOwner(x, i), Live!StillMapped(i)
        PROVE  UnitOf[CodeOf[x.function]] = i.unit /\ Live!IsLive(CodeOf[x.function])
    <3>1. PICK h \in images : Home(x, h)
      BY <1>3 DEF IndexInv, AtHome
    <3>2. h = i
      BY <2>2, <3>1 DEF Live!SameOwner, Home, ImagesInv, Distinct
    <3> QED
      BY <2>2, <3>1, <3>2 DEF Home
  <2> QED
    BY <2>1, <2>2
<1> QED
  BY <1>1, <1>2, <1>3 DEF Live!DirectoryAgrees, Live!ImagesAgree

(* The directory that is kept across refreshes and unloads, or extended by *)
(* a delta, is one of the images that are there: one info for each         *)
(* Function and owner slot, its records, semantics and alias counts, and   *)
(* every image counts its own Functions.                                   *)
THEOREM DirectoryAgreement ==
  ASSUME Live!DirectoryAssumption PROVE Live!Spec => []Live!DirectoryAgrees
<1>1. Live!Init => DirectoryInv
  BY DirectoryInit
<1>2. DirectoryInv /\ [Live!Next]_(Live!vars) => DirectoryInv'
  BY StepKept, StutterKept
<1>3. DirectoryInv => Live!DirectoryAgrees
  BY DirectoryInvImplies
<1> QED
  BY <1>1, <1>2, <1>3, PTL DEF Live!Spec

(* Reusing or extending what an earlier bootstrap found is as good as      *)
(* walking the whole heap, where the Codes of the deferred units are those *)
(* of the Functions they name.                                             *)
THEOREM DeltaIsAnOptimization ==
  ASSUME Live!DirectoryAssumption, Unshared PROVE Live!Spec => []Live!PublishedIsComplete
<1> DEFINE All == DirectoryInv /\ CompleteInv /\ Live!PublishedIsComplete
<1>1. Live!Init => All
  BY DirectoryInit
<1>2. All /\ [Live!Next]_(Live!vars) => All'
  BY StepKept, StutterKept
<1>3. All => Live!PublishedIsComplete
  OBVIOUS
<1> QED
  BY <1>1, <1>2, <1>3, PTL DEF Live!Spec

-----------------------------------------------------------------------------
(* The composition                                                         *)

(* A step of one module changes no variable of another.                    *)
LEMMA EachMovesAlone ==
  ASSUME [EvidenceNext]_evidenceVars
  PROVE  [Next]_vars /\ [Abi!Next]_(Abi!vars) /\ [Live!Next]_(Live!vars)
<1>1. UNCHANGED proofVars => UNCHANGED Abi!vars
  BY DEF proofVars, Abi!vars, Abi!table, Abi!proofs, Abi!artifact, Abi!bridge
<1>2. UNCHANGED directoryVars => UNCHANGED Live!vars
  BY DEF directoryVars, Live!vars, Live!vm, Live!group
<1>3. CASE TargetsMove
  BY <1>1, <1>2, <1>3 DEF TargetsMove
<1>4. CASE ProofsMove
  BY <1>1, <1>2, <1>4 DEF ProofsMove
<1>5. CASE DirectoryMove
  BY <1>1, <1>2, <1>5 DEF DirectoryMove
<1>6. CASE UNCHANGED evidenceVars
  BY <1>1, <1>2, <1>6 DEF evidenceVars
<1> QED
  BY <1>3, <1>4, <1>5, <1>6 DEF EvidenceNext

(* The composition implements each of its modules.                         *)
THEOREM EachIsImplemented == EvidenceSpec => Spec /\ Abi!Spec /\ Live!Spec
<1>1. EvidenceInit => Init /\ Abi!Init /\ Live!Init
  BY DEF EvidenceInit
<1>2. [EvidenceNext]_evidenceVars =>
        [Next]_vars /\ [Abi!Next]_(Abi!vars) /\ [Live!Next]_(Live!vars)
  BY EachMovesAlone
<1> QED
  BY <1>1, <1>2, PTL DEF EvidenceSpec, Spec, Abi!Spec, Live!Spec

(* The records that evidence is merged into, that ABI proofs are kept in   *)
(* and that a live directory is reused from stay true.                     *)
THEOREM RecordedStaysTrue == EvidenceSpec => []RecordedIsTrue
<1>1. Spec => []EvidenceAgrees
  BY EvidenceAgreesHolds
<1>2. Abi!Spec => []Abi!ProofsAgree
  BY AbiAssumption, ProofsAgreeHolds
<1>3. Live!Spec => []Live!DirectoryAgrees
  BY ProgramAssumption, DirectoryAgreement
<1>4. EvidenceAgrees /\ Abi!ProofsAgree /\ Live!DirectoryAgrees => RecordedIsTrue
  BY DEF RecordedIsTrue
<1> QED
  BY <1>1, <1>2, <1>3, <1>4, EachIsImplemented, PTL

(* What the core serves of one generation keeps its profile, and no call   *)
(* of the adapter starts with the layout of an artifact that was replaced. *)
THEOREM ServedStaysStable == EvidenceSpec => ServedIsStable
<1>1. Abi!Spec => Abi!ServedIsStable
  BY AbiAssumption, ServedIsStableHolds
<1>2. Abi!Spec => Abi!CallIsCurrent
  BY AbiAssumption, CallIsCurrentHolds
<1> QED
  BY <1>1, <1>2, EachIsImplemented, PTL DEF ServedIsStable

(* A published live directory lists what a walk of the whole heap would    *)
(* find, where the Codes of the deferred units are those of the Functions  *)
(* they name.                                                              *)
THEOREM PublishedStaysComplete ==
  ASSUME Unshared PROVE EvidenceSpec => []PublishedIsComplete
<1>1. Live!Spec => []Live!PublishedIsComplete
  BY ProgramAssumption, DeltaIsAnOptimization
<1>2. Live!PublishedIsComplete => PublishedIsComplete
  BY DEF PublishedIsComplete
<1> QED
  BY <1>1, <1>2, EachIsImplemented, PTL
=============================================================================
