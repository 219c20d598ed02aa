-------------------------- MODULE HookListenersProofs --------------------------
(***************************************************************************)
(* Proofs about HookListeners: the counts of listeners, frames and         *)
(* adapters agree, a hook that is taken down has no listener, a quiesced   *)
(* adapter stays quiet, and a deleted listener is idle.                    *)
(***************************************************************************)
EXTENDS HookListeners, FiniteSetTheorems, SequenceTheorems, WellFoundedInduction, TLAPS

-----------------------------------------------------------------------------
(* Selecting from a sequence                                               *)

(* A set of numbers has a least one.                                       *)
LEMMA Least ==
  ASSUME NEW S, S \subseteq Nat, S # {}
  PROVE  \E n \in S : \A m \in S : n <= m
<1> DEFINE R == OpToRel(<, Nat)
<1>1. IsWellFoundedOn(R, Nat)
  BY NatLessThanWellFounded
<1>2. R = {p \in Nat \X Nat : p[1] < p[2]}
  BY DEF OpToRel
<1>3. PICK n \in S : \A m \in S : <<m, n>> \notin R
  <2> HIDE DEF R
  <2> QED
    BY <1>1, WFMin
<1>4. \A m \in S : <<m, n>> \in Nat \X Nat
  OBVIOUS
<1> HIDE DEF R
<1>5. \A m \in S : ~(m < n)
  BY <1>2, <1>3, <1>4
<1> QED
  BY <1>5

(* A set that has 0, and with a number the next one, has all up to n.      *)
LEMMA UpTo ==
  ASSUME NEW n \in Nat, NEW S, 0 \in S, \A i \in 1 .. n : i - 1 \in S => i \in S
  PROVE  \A i \in 0 .. n : i \in S
<1> DEFINE Rest == (0 .. n) \ S
<1>1. ASSUME Rest # {} PROVE FALSE
  <2>1. Rest \subseteq Nat
    OBVIOUS
  <2>2. PICK m \in Rest : \A k \in Rest : m <= k
    <3> HIDE DEF Rest
    <3> QED
      BY <1>1, <2>1, Least
  <2>3. m \in 1 .. n /\ m - 1 \in 0 .. n /\ ~(m <= m - 1)
    OBVIOUS
  <2>4. m - 1 \notin Rest
    <3> HIDE DEF Rest
    <3> QED
      BY <2>2, <2>3
  <2>5. m - 1 \in S
    BY <2>3, <2>4
  <2> QED
    BY <2>3, <2>5
<1> QED
  BY <1>1

(* What is taken of s, after each of its elements.                         *)
Taken(f, s, L, n) ==
  /\ f[0] = <<>>
  /\ \A i \in 1 .. n :
       f[i] = IF s[i] \in L THEN Append(f[i - 1], s[i]) ELSE f[i - 1]

(* The function that defines Those exists.                                 *)
LEMMA ThoseTaken ==
  ASSUME NEW T, NEW L, NEW s \in Seq(T)
  PROVE  \E f \in [0 .. Len(s) -> Seq(T)] : Taken(f, s, L, Len(s)) /\ Those(s, L) = f[Len(s)]
<1> DEFINE S == {n \in 0 .. Len(s) : \E f \in [0 .. n -> Seq(T)] : Taken(f, s, L, n)}
<1> DEFINE Step(f) == [i \in 0 .. Len(s) |->
        IF i = 0 THEN <<>> ELSE IF s[i] \in L THEN Append(f[i - 1], s[i]) ELSE f[i - 1]]
<1>1. 0 \in S
  <2>1. [i \in 0 .. 0 |-> <<>>] \in [0 .. 0 -> Seq(T)]
    BY EmptySeq
  <2>2. Taken([i \in 0 .. 0 |-> <<>>], s, L, 0)
    BY DEF Taken
  <2>3. \E f \in [0 .. 0 -> Seq(T)] : Taken(f, s, L, 0)
    BY <2>1, <2>2
  <2>4. 0 \in 0 .. Len(s)
    OBVIOUS
  <2> QED
    BY <2>3, <2>4
<1>2. ASSUME NEW n \in 1 .. Len(s), n - 1 \in S PROVE n \in S
  <2>1. PICK f \in [0 .. n - 1 -> Seq(T)] : Taken(f, s, L, n - 1)
    BY <1>2
  <2> DEFINE last == IF s[n] \in L THEN Append(f[n - 1], s[n]) ELSE f[n - 1]
  <2> DEFINE g == [i \in 0 .. n |-> IF i = n THEN last ELSE f[i]]
  <2>2. s[n] \in T
    BY ElementOfSeq
  <2>3. last \in Seq(T)
    BY <2>1, <2>2
  <2>4. g \in [0 .. n -> Seq(T)]
    BY <2>1, <2>3
  <2>5. g[0] = <<>>
    BY <2>1 DEF Taken
  <2>6. ASSUME NEW i \in 1 .. n
        PROVE  g[i] = IF s[i] \in L THEN Append(g[i - 1], s[i]) ELSE g[i - 1]
    <3>1. g[i - 1] = f[i - 1]
      OBVIOUS
    <3>2. CASE i = n
      <4>1. g[n] = last
        OBVIOUS
      <4> HIDE DEF g
      <4> QED
        BY <3>1, <3>2, <4>1
    <3>3. CASE i # n
      <4>1. i \in 1 .. n - 1 /\ g[i] = f[i]
        BY <3>3
      <4> HIDE DEF g
      <4> QED
        BY <2>1, <3>1, <4>1 DEF Taken
    <3> QED
      BY <3>2, <3>3
  <2>7. Taken(g, s, L, n)
    <3> HIDE DEF g
    <3> QED
      BY <2>5, <2>6 DEF Taken
  <2> HIDE DEF g
  <2> QED
    BY <2>4, <2>7
<1>3. Len(s) \in S
  <2>1. Len(s) \in Nat
    OBVIOUS
  <2> HIDE DEF S
  <2>2. \A i \in 0 .. Len(s) : i \in S
    BY <1>1, <1>2, <2>1, UpTo
  <2> QED
    BY <2>1, <2>2
<1>4. PICK f \in [0 .. Len(s) -> Seq(T)] : Taken(f, s, L, Len(s))
  BY <1>3
<1>5. f = Step(f)
  <2>1. \A i \in 0 .. Len(s) : f[i] = Step(f)[i]
    <3>1. f[0] = Step(f)[0]
      BY <1>4 DEF Taken
    <3>2. \A i \in 1 .. Len(s) : f[i] = Step(f)[i]
      BY <1>4 DEF Taken
    <3> HIDE DEF Step
    <3> QED
      BY <3>1, <3>2
  <2>2. f = [i \in 0 .. Len(s) |-> f[i]]
    BY <1>4
  <2>3. Step(f) = [i \in 0 .. Len(s) |-> Step(f)[i]]
    OBVIOUS
  <2> HIDE DEF Step
  <2> QED
    BY <2>1, <2>2, <2>3
<1> DEFINE F == CHOOSE g : g = Step(g)
<1>6. F = Step(F)
  BY <1>5
<1>7. Those(s, L) = F[Len(s)]
  BY DEF Those
<1> HIDE DEF F
<1>8. Taken(F, s, L, Len(s))
  <2>1. F[0] = <<>>
    BY <1>6
  <2>2. ASSUME NEW i \in 1 .. Len(s)
        PROVE  F[i] = IF s[i] \in L THEN Append(F[i - 1], s[i]) ELSE F[i - 1]
    <3>1. Step(F)[i] = IF s[i] \in L THEN Append(F[i - 1], s[i]) ELSE F[i - 1]
      OBVIOUS
    <3>2. F[i] = Step(F)[i]
      <4> HIDE DEF Step
      <4> QED
        BY <1>6
    <3> HIDE DEF Step
    <3> QED
      BY <3>1, <3>2
  <2> HIDE DEF Step
  <2> QED
    BY <2>1, <2>2 DEF Taken
<1> DEFINE G == {i \in 0 .. Len(s) : F[i] \in Seq(T)}
<1>9. 0 \in G
  <2>1. F[0] \in Seq(T)
    BY <1>8, EmptySeq DEF Taken
  <2>2. 0 \in 0 .. Len(s)
    OBVIOUS
  <2> QED
    BY <2>1, <2>2
<1>10. ASSUME NEW i \in 1 .. Len(s), i - 1 \in G PROVE i \in G
  <2>1. s[i] \in T
    BY ElementOfSeq
  <2>2. F[i] = IF s[i] \in L THEN Append(F[i - 1], s[i]) ELSE F[i - 1]
    BY <1>8 DEF Taken
  <2>3. F[i - 1] \in Seq(T)
    BY <1>10
  <2>4. Append(F[i - 1], s[i]) \in Seq(T)
    BY <2>1, <2>3
  <2>5. F[i] \in Seq(T)
    BY <2>2, <2>3, <2>4
  <2>6. i \in 0 .. Len(s)
    OBVIOUS
  <2> QED
    BY <2>5, <2>6
<1>11. \A i \in 0 .. Len(s) : i \in G
  <2>1. Len(s) \in Nat
    OBVIOUS
  <2> HIDE DEF G
  <2> QED
    BY <1>9, <1>10, <2>1, UpTo
<1>12. F \in [0 .. Len(s) -> Seq(T)]
  <2>1. F = [i \in 0 .. Len(s) |-> F[i]]
    BY <1>6
  <2>2. \A i \in 0 .. Len(s) : F[i] \in Seq(T)
    BY <1>11
  <2> HIDE DEF Step, G
  <2> QED
    BY <2>1, <2>2
<1> HIDE DEF Step, G, S
<1> QED
  BY <1>7, <1>8, <1>12

(* Those has the elements of s that are in L.                              *)
LEMMA ThoseElements ==
  ASSUME NEW T, NEW L, NEW s \in Seq(T)
  PROVE  Those(s, L) \in Seq(T) /\ ToSet(Those(s, L)) = ToSet(s) \cap L
<1>1. PICK f \in [0 .. Len(s) -> Seq(T)] :
           Taken(f, s, L, Len(s)) /\ Those(s, L) = f[Len(s)]
  BY ThoseTaken, ZenonT(30)
<1> DEFINE First(i) == {s[j] : j \in 1 .. i}
<1> DEFINE S == {i \in 0 .. Len(s) : ToSet(f[i]) = First(i) \cap L}
<1>2. 0 \in S
  <2>1. ToSet(f[0]) = {}
    BY <1>1 DEF Taken, ToSet
  <2>2. First(0) = {}
    OBVIOUS
  <2> QED
    BY <2>1, <2>2
<1>3. ASSUME NEW i \in 1 .. Len(s), i - 1 \in S PROVE i \in S
  <2>1. First(i) = First(i - 1) \cup {s[i]}
    <3>1. 1 .. i = (1 .. i - 1) \cup {i}
      OBVIOUS
    <3> QED
      BY <3>1
  <2>2. s[i] \in T /\ f[i - 1] \in Seq(T)
    BY <1>1, ElementOfSeq
  <2>3. ToSet(Append(f[i - 1], s[i])) = ToSet(f[i - 1]) \cup {s[i]}
    <3> DEFINE q == f[i - 1]
    <3>1. DOMAIN Append(q, s[i]) = DOMAIN q \cup {Len(q) + 1}
      BY <2>2
    <3>2. \A k \in DOMAIN q : Append(q, s[i])[k] = q[k]
      BY <2>2
    <3>3. Append(q, s[i])[Len(q) + 1] = s[i]
      BY <2>2
    <3> HIDE DEF q
    <3>4. ToSet(Append(q, s[i])) = ToSet(q) \cup {s[i]}
      BY <3>1, <3>2, <3>3 DEF ToSet
    <3> QED
      BY <3>4 DEF q
  <2>4. f[i] = IF s[i] \in L THEN Append(f[i - 1], s[i]) ELSE f[i - 1]
    BY <1>1 DEF Taken
  <2>5. ToSet(f[i - 1]) = First(i - 1) \cap L
    BY <1>3
  <2> HIDE DEF First
  <2> QED
    BY <2>1, <2>3, <2>4, <2>5
<1>4. Len(s) \in S
  <2>1. Len(s) \in Nat
    OBVIOUS
  <2> HIDE DEF S
  <2>2. \A i \in 0 .. Len(s) : i \in S
    BY <1>2, <1>3, <2>1, UpTo
  <2> QED
    BY <2>1, <2>2
<1>5. ToSet(s) = First(Len(s))
  BY DEF ToSet
<1>6. f[Len(s)] \in Seq(T)
  BY <1>1
<1> HIDE DEF First
<1> QED
  BY <1>1, <1>4, <1>5, <1>6

(* A sequence whose elements are, in their order, in the relation R.       *)
Ordered(s, R) == \A i, j \in DOMAIN s : i < j => <<s[i], s[j]>> \in R

(* Those keeps an order.                                                   *)
LEMMA ThoseOrdered ==
  ASSUME NEW T, NEW L, NEW R, NEW s \in Seq(T), Ordered(s, R)
  PROVE  Ordered(Those(s, L), R)
<1>1. PICK f \in [0 .. Len(s) -> Seq(T)] :
           Taken(f, s, L, Len(s)) /\ Those(s, L) = f[Len(s)]
  BY ThoseTaken, ZenonT(30)
<1> DEFINE Upto(q, i) == \A k \in DOMAIN q : \E j \in 1 .. i : q[k] = s[j]
<1> DEFINE S == {i \in 0 .. Len(s) : Ordered(f[i], R) /\ Upto(f[i], i)}
<1>2. 0 \in S
  BY <1>1 DEF Taken, Ordered
<1>3. ASSUME NEW i \in 1 .. Len(s), i - 1 \in S PROVE i \in S
  <2> DEFINE q == f[i - 1]
  <2> DEFINE p == Append(q, s[i])
  <2>1. q \in Seq(T) /\ s[i] \in T
    BY <1>1, ElementOfSeq
  <2>2. Ordered(q, R) /\ Upto(q, i - 1)
    BY <1>3
  <2>3. DOMAIN p = DOMAIN q \cup {Len(q) + 1} /\ DOMAIN q = 1 .. Len(q) /\ Len(q) \in Nat
    BY <2>1
  <2>4. \A k \in DOMAIN q : p[k] = q[k]
    BY <2>1
  <2>5. p[Len(q) + 1] = s[i]
    BY <2>1
  <2> HIDE DEF q, p
  <2>6. \A k \in DOMAIN q : <<q[k], s[i]>> \in R
    <3> SUFFICES ASSUME NEW k \in DOMAIN q PROVE <<q[k], s[i]>> \in R
      OBVIOUS
    <3>1. PICK j \in 1 .. i - 1 : q[k] = s[j]
      BY <2>2
    <3>2. j \in DOMAIN s /\ i \in DOMAIN s /\ j < i
      OBVIOUS
    <3> QED
      BY <3>1, <3>2 DEF Ordered
  <2>7. Ordered(p, R)
    <3> SUFFICES ASSUME NEW k \in DOMAIN p, NEW m \in DOMAIN p, k < m
                 PROVE  <<p[k], p[m]>> \in R
      BY DEF Ordered
    <3>1. CASE m \in DOMAIN q
      BY <2>2, <2>3, <2>4, <3>1 DEF Ordered
    <3>2. CASE m = Len(q) + 1
      BY <2>3, <2>4, <2>5, <2>6, <3>2
    <3> QED
      BY <2>3, <3>1, <3>2
  <2>8. Upto(p, i)
    <3> SUFFICES ASSUME NEW k \in DOMAIN p PROVE \E j \in 1 .. i : p[k] = s[j]
      OBVIOUS
    <3>1. CASE k \in DOMAIN q
      <4>1. PICK j \in 1 .. i - 1 : q[k] = s[j]
        BY <2>2, <3>1
      <4> QED
        BY <2>4, <3>1, <4>1
    <3>2. CASE k = Len(q) + 1
      BY <2>5, <3>2
    <3> QED
      BY <2>3, <3>1, <3>2
  <2>9. Upto(q, i)
    BY <2>2
  <2>10. f[i] = IF s[i] \in L THEN p ELSE q
    BY <1>1 DEF Taken, p, q
  <2> QED
    BY <2>2, <2>7, <2>8, <2>9, <2>10
<1>4. Len(s) \in S
  <2>1. Len(s) \in Nat
    OBVIOUS
  <2> HIDE DEF S
  <2>2. \A i \in 0 .. Len(s) : i \in S
    BY <1>2, <1>3, <2>1, UpTo
  <2> QED
    BY <2>1, <2>2
<1> QED
  BY <1>1, <1>4

-----------------------------------------------------------------------------
(* The inductive invariant                                                 *)

(* The chain has the active listeners, once each, the first of the highest *)
(* priority.                                                               *)
Order == {p \in Listeners \X Listeners : p[1] # p[2] /\ Priority[p[1]] >= Priority[p[2]]}

ChainInv ==
  /\ chain \in Seq(Listeners) /\ active \in [Listeners -> BOOLEAN]
  /\ ToSet(chain) = {l \in Listeners : active[l]}
  /\ Ordered(chain, Order)

(* An adapter counts the listeners that hold a lease on it.                *)
Holding(o) == {l \in Listeners : retained[l] /\ OwnerOf[l] = o}

LeaseInv ==
  /\ retained \in [Listeners -> BOOLEAN] /\ leases \in [Owners -> Nat]
  /\ \A o \in Owners : leases[o] = Cardinality(Holding(o))

(* A listener that is active or named has its lease.                       *)
NeedInv == \A l \in Listeners : active[l] \/ in_flight[l] # 0 => retained[l]

FrameTypes ==
  /\ hook_in_flight \in Nat /\ in_flight \in [Listeners -> Nat]
  /\ phase \in [Threads -> Phases]
  /\ entered \in [Threads -> Seq(Listeners)]
  /\ pending \in [Threads -> SUBSET Listeners]
  /\ giving \in [Threads -> Listeners \cup {None}]

(* A frame either enters a listener or has it to give back.                *)
FrameInv ==
  /\ hook_in_flight = Cardinality({t \in Threads : phase[t] # "out"})
  /\ SnapshotExact
  /\ \A t \in Threads :
       /\ ToSet(entered[t]) \cap pending[t] = {}
       /\ phase[t] \in {"out", "begun"} => pending[t] = {}
       /\ phase[t] \in {"out", "exit"} => entered[t] = <<>>

OtherTypes ==
  /\ mutex \in {"free", "sweep"} \cup Listeners
  /\ state \in {"None", "Installed", "Unhooking", "Unhooked", "Failed", "Retired"}
  /\ admission \in [Owners -> {"open", "closed", "quiesced"}]
  /\ current \in [Owners -> BOOLEAN]
  /\ installer \in Owners \cup {None}
  /\ handle \in [Listeners -> HandleStates]
  /\ releasing \in [Listeners -> BOOLEAN]

(* What a handle tells of its listener; an add that holds the mutex has    *)
(* passed the admission check.                                             *)
HandleInv ==
  \A l \in Listeners :
    /\ handle[l] \in {None, "checked"} => ~retained[l]
    /\ handle[l] \notin {None, "checked", "held"} => ~active[l]
    /\ handle[l] \in {"released", "dispose"} => in_flight[l] = 0 /\ ~retained[l]
    /\ mutex = l => handle[l] = "checked" /\ admission[OwnerOf[l]] # "quiesced"

ListenersInv ==
  /\ OtherTypes /\ FrameTypes /\ ChainInv /\ LeaseInv /\ NeedInv /\ FrameInv /\ HandleInv
  /\ LeaseReturned /\ DeadHookHasNoListener /\ QuiescedStaysQuiet

-----------------------------------------------------------------------------
(* What the steps do to chain and leases                                   *)

(* A lease is given back for each listener that is idle, and for no other. *)
LEMMA LeasesReleased ==
  ASSUME LeaseInv, NEW act, NEW flying, NEW L \in SUBSET Listeners,
         ReleaseIfIdle(L, act, flying)
  PROVE  /\ LeaseInv'
         /\ \A l \in Listeners :
              retained'[l] <=> retained[l] /\ ~(l \in L /\ ~act[l] /\ flying[l] = 0)
<1> DEFINE idle == {l \in L : ~act[l] /\ flying[l] = 0 /\ retained[l]}
<1> DEFINE idleOf(o) == {l \in idle : OwnerOf[l] = o}
<1>1. retained' = [l \in Listeners |-> retained[l] /\ l \notin idle]
  BY DEF ReleaseIfIdle
<1>2. leases' = [o \in Owners |-> leases[o] - Cardinality(idleOf(o))]
  BY DEF ReleaseIfIdle
<1>3. retained \in [Listeners -> BOOLEAN]
  BY DEF LeaseInv
<1>4. \A l \in Listeners : retained'[l] <=> retained[l] /\ l \notin idle
  <2> HIDE DEF idle
  <2> QED
    BY <1>1
<1>5. retained' \in [Listeners -> BOOLEAN]
  <2> HIDE DEF idle
  <2> QED
    BY <1>1
<1>6. ASSUME NEW o \in Owners
      PROVE  leases'[o] \in Nat /\ leases'[o] = Cardinality(Holding(o)')
  <2>1. idleOf(o) \subseteq Holding(o)
    BY DEF Holding
  <2>2. Holding(o)' = Holding(o) \ idleOf(o)
    <3> HIDE DEF idle
    <3> QED
      BY <1>4 DEF Holding
  <2>3. IsFiniteSet(Holding(o))
    <3>1. Holding(o) \in SUBSET Listeners
      BY DEF Holding
    <3> QED
      BY <3>1, FS_Subset, ListenersAssumption
  <2>4. leases[o] = Cardinality(Holding(o))
    BY DEF LeaseInv
  <2>5. leases'[o] = leases[o] - Cardinality(idleOf(o))
    <3> HIDE DEF idleOf, idle
    <3> QED
      BY <1>2
  <2>6. Holding(o) \cap idleOf(o) = idleOf(o)
    BY <2>1
  <2> HIDE DEF idleOf, idle
  <2>7. /\ IsFiniteSet(Holding(o)')
        /\ Cardinality(Holding(o)') = Cardinality(Holding(o)) - Cardinality(idleOf(o))
    BY <2>2, <2>3, <2>6, FS_Difference
  <2> QED
    BY <2>4, <2>5, <2>7, FS_CardinalityType
<1>7. leases' \in [Owners -> Nat]
  <2> HIDE DEF idleOf
  <2> QED
    BY <1>2, <1>6
<1>8. LeaseInv'
  BY <1>5, <1>6, <1>7 DEF LeaseInv
<1> QED
  BY <1>4, <1>8

(* Unsubscribing takes the listeners of L from the chain, and the leases   *)
(* of those that no frame names.                                           *)
LEMMA Unsubscribed ==
  ASSUME ChainInv, LeaseInv, NeedInv, NEW L \in SUBSET Listeners, Unsubscribe(L)
  PROVE  /\ ChainInv' /\ LeaseInv'
         /\ \A l \in Listeners :
              /\ active'[l] <=> active[l] /\ l \notin L
              /\ retained'[l] <=> retained[l] /\ ~(l \in L /\ in_flight[l] = 0)
         /\ ToSet(chain) \subseteq L => chain' = <<>>
<1> DEFINE act == [l \in Listeners |-> active[l] /\ l \notin L]
<1>1. chain' = Those(chain, Listeners \ L) /\ active' = act /\ ReleaseIfIdle(L, act, in_flight)
  BY DEF Unsubscribe
<1>2. \A l \in Listeners : act[l] <=> active[l] /\ l \notin L
  OBVIOUS
<1>3. active' \in [Listeners -> BOOLEAN]
  BY <1>1
<1> HIDE DEF act
<1>4. LeaseInv' /\ \A l \in Listeners :
        retained'[l] <=> retained[l] /\ ~(l \in L /\ ~act[l] /\ in_flight[l] = 0)
  BY <1>1, LeasesReleased
<1>5. chain' \in Seq(Listeners) /\ ToSet(chain') = ToSet(chain) \cap (Listeners \ L)
  BY <1>1, ThoseElements DEF ChainInv
<1>6. Ordered(chain', Order)
  BY <1>1, ThoseOrdered DEF ChainInv
<1>7. ToSet(chain') = {l \in Listeners : active'[l]}
  BY <1>1, <1>2, <1>5 DEF ChainInv
<1>8. ChainInv'
  BY <1>3, <1>5, <1>6, <1>7 DEF ChainInv, Order
<1>9. ASSUME ToSet(chain) \subseteq L PROVE chain' = <<>>
  <2>1. ToSet(chain') = {}
    BY <1>5, <1>9
  <2>2. \A i \in 1 .. Len(chain') : chain'[i] \in ToSet(chain')
    BY <1>5 DEF ToSet
  <2>3. Len(chain') = 0
    BY <1>5, <2>1, <2>2
  <2> QED
    BY <1>5, <2>3
<1> QED
  BY <1>1, <1>2, <1>4, <1>8, <1>9

(* What is inserted goes behind those of its priority.                     *)
LEMMA InsertKeepsOrder ==
  ASSUME NEW s \in Seq(Listeners), Ordered(s, Order), NEW l \in Listeners, l \notin ToSet(s)
  PROVE  /\ InsertSorted(s, l) \in Seq(Listeners)
         /\ ToSet(InsertSorted(s, l)) = ToSet(s) \cup {l}
         /\ Ordered(InsertSorted(s, l), Order)
<1> DEFINE after == {m \in Listeners : Priority[m] < Priority[l]}
<1> DEFINE p == Those(s, Listeners \ after)
<1> DEFINE q == Those(s, after)
<1> DEFINE r == p \o <<l>> \o q
<1>1. p \in Seq(Listeners) /\ ToSet(p) = ToSet(s) \cap (Listeners \ after)
  BY ThoseElements
<1>2. q \in Seq(Listeners) /\ ToSet(q) = ToSet(s) \cap after
  BY ThoseElements
<1>3. Ordered(p, Order) /\ Ordered(q, Order)
  BY ThoseOrdered
<1>4. InsertSorted(s, l) = r
  BY DEF InsertSorted
<1>5. ToSet(s) \subseteq Listeners
  BY ElementOfSeq DEF ToSet
<1>6. Priority \in [Listeners -> Int]
  BY ListenersAssumption
<1>7. \A m \in ToSet(p) : m \in Listeners /\ m # l /\ Priority[m] >= Priority[l]
  BY <1>1, <1>5, <1>6
<1>8. \A m \in ToSet(q) : m \in Listeners /\ m # l /\ Priority[m] < Priority[l]
  BY <1>2, <1>5
<1> HIDE DEF p, q, after
<1>9. /\ r \in Seq(Listeners)
      /\ DOMAIN r = 1 .. Len(p) + 1 + Len(q)
      /\ \A i \in 1 .. Len(p) : r[i] = p[i]
      /\ r[Len(p) + 1] = l
      /\ \A i \in Len(p) + 2 .. Len(p) + 1 + Len(q) : r[i] = q[i - Len(p) - 1]
  BY <1>1, <1>2
<1>10. Len(p) \in Nat /\ Len(q) \in Nat /\ DOMAIN p = 1 .. Len(p) /\ DOMAIN q = 1 .. Len(q)
  BY <1>1, <1>2
<1> HIDE DEF r
<1>11. \A i \in DOMAIN p : p[i] \in ToSet(p)
  BY DEF ToSet
<1>12. \A i \in DOMAIN q : q[i] \in ToSet(q)
  BY DEF ToSet
<1>13. ToSet(r) = ToSet(s) \cup {l}
  <2>1. ToSet(r) \subseteq ToSet(p) \cup {l} \cup ToSet(q)
    <3> SUFFICES ASSUME NEW i \in DOMAIN r PROVE r[i] \in ToSet(p) \cup {l} \cup ToSet(q)
      BY DEF ToSet
    <3>1. CASE i <= Len(p)
      BY <1>9, <1>10, <1>11, <3>1
    <3>2. CASE i = Len(p) + 1
      BY <1>9, <3>2
    <3>3. CASE i > Len(p) + 1
      <4>1. i - Len(p) - 1 \in DOMAIN q /\ r[i] = q[i - Len(p) - 1]
        BY <1>9, <1>10, <3>3
      <4> QED
        BY <1>12, <4>1
    <3> QED
      BY <1>9, <1>10, <3>1, <3>2, <3>3
  <2>2. ToSet(p) \subseteq ToSet(r)
    <3> SUFFICES ASSUME NEW i \in DOMAIN p PROVE p[i] \in ToSet(r)
      BY DEF ToSet
    <3>1. i \in DOMAIN r /\ r[i] = p[i]
      BY <1>9, <1>10
    <3> QED
      BY <3>1 DEF ToSet
  <2>3. ToSet(q) \subseteq ToSet(r)
    <3> SUFFICES ASSUME NEW i \in DOMAIN q PROVE q[i] \in ToSet(r)
      BY DEF ToSet
    <3> DEFINE j == i + Len(p) + 1
    <3>1. j \in DOMAIN r /\ j \in Len(p) + 2 .. Len(p) + 1 + Len(q) /\ j - Len(p) - 1 = i
      BY <1>9, <1>10
    <3>2. r[j] = q[i]
      BY <1>9, <3>1
    <3> HIDE DEF j
    <3> QED
      BY <3>1, <3>2 DEF ToSet
  <2>4. l \in ToSet(r)
    <3>1. Len(p) + 1 \in DOMAIN r
      BY <1>9, <1>10
    <3> QED
      BY <1>9, <3>1 DEF ToSet
  <2>5. ToSet(p) \cup ToSet(q) = ToSet(s)
    BY <1>1, <1>2, <1>5
  <2> QED
    BY <2>1, <2>2, <2>3, <2>4, <2>5
<1>14. Ordered(r, Order)
  <2> SUFFICES ASSUME NEW i \in DOMAIN r, NEW j \in DOMAIN r, i < j
               PROVE  <<r[i], r[j]>> \in Order
    BY DEF Ordered
  <2>1. CASE j <= Len(p)
    <3>1. i \in DOMAIN p /\ j \in DOMAIN p /\ r[i] = p[i] /\ r[j] = p[j]
      BY <1>9, <1>10, <2>1
    <3> QED
      BY <1>3, <3>1 DEF Ordered
  <2>2. CASE j = Len(p) + 1
    <3>1. i \in DOMAIN p /\ r[i] = p[i] /\ r[j] = l
      BY <1>9, <1>10, <2>2
    <3> QED
      BY <1>7, <1>11, <3>1 DEF Order
  <2>3. CASE j > Len(p) + 1
    <3> DEFINE k == j - Len(p) - 1
    <3>1. k \in DOMAIN q /\ r[j] = q[k]
      BY <1>9, <1>10, <2>3, SMTT(30)
    <3>2. q[k] \in Listeners /\ q[k] # l /\ Priority[q[k]] < Priority[l]
      BY <1>8, <1>12, <3>1
    <3>3. CASE i <= Len(p)
      <4>1. i \in DOMAIN p /\ r[i] = p[i]
        BY <1>9, <1>10, <3>3
      <4>2. p[i] \in Listeners /\ Priority[p[i]] >= Priority[l]
        BY <1>7, <1>11, <4>1
      <4> HIDE DEF k
      <4>3. Priority[p[i]] > Priority[q[k]]
        BY <1>6, <3>2, <4>2
      <4> QED
        BY <1>6, <3>1, <3>2, <4>1, <4>2, <4>3 DEF Order
    <3>4. CASE i = Len(p) + 1
      <4>1. r[i] = l
        BY <1>9, <3>4
      <4> HIDE DEF k
      <4> QED
        BY <1>6, <3>1, <3>2, <4>1 DEF Order
    <3>5. CASE i > Len(p) + 1
      <4> DEFINE m == i - Len(p) - 1
      <4>1. m \in DOMAIN q /\ r[i] = q[m] /\ m < k
        BY <1>9, <1>10, <3>5
      <4> HIDE DEF m, k
      <4> QED
        BY <1>3, <3>1, <4>1 DEF Ordered
    <3> QED
      BY <1>9, <1>10, <3>3, <3>4, <3>5
  <2> QED
    BY <1>9, <1>10, <2>1, <2>2, <2>3
<1> QED
  BY <1>4, <1>9, <1>13, <1>14


(* How a step may change the chain, the leases and the counts of frames.   *)
LEMMA Effects ==
  ASSUME ListenersInv, [Next]_vars
  PROVE  \/ UNCHANGED <<chain, active, retained, leases>>
         \/ in_flight' = in_flight /\ \E L \in SUBSET Listeners : Unsubscribe(L)
         \/ in_flight' = in_flight /\ \E l \in Listeners : handle[l] = "checked" /\ Subscribe(l)
         \/ \E l \in Listeners : Erase(l)
         \/ /\ UNCHANGED <<chain, active, in_flight>>
            /\ \E L \in SUBSET Listeners : ReleaseIfIdle(L, active, in_flight)
<1>1. ToSet(chain) \in SUBSET Listeners /\ \A o \in Owners : OfOwner(o) \in SUBSET Listeners
  BY DEF ListenersInv, ChainInv, OfOwner
<1>2. CASE UNCHANGED vars
  BY <1>2 DEF vars
<1>3. CASE Holder
  <2>1. CASE SweepUnhooks
    BY <1>1, <2>1 DEF SweepUnhooks, UnhookRecord
  <2>2. CASE \E l \in Listeners : AddInserts(l)
    BY <2>2 DEF AddInserts
  <2>3. CASE \E l \in Listeners : AddRefused(l)
    BY <2>3 DEF AddRefused, leaseVars
  <2> QED
    BY <1>3, <2>1, <2>2, <2>3 DEF Holder
<1>4. CASE FinishUnhook
  BY <1>4 DEF FinishUnhook, leaseVars
<1>5. ASSUME NEW l \in Listeners, AddChecks(l) \/ ReleaseBegins(l)
      PROVE  UNCHANGED <<chain, active, retained, leases>>
  BY <1>5 DEF AddChecks, ReleaseBegins, leaseVars
<1>6. ASSUME NEW l \in Listeners, EraseReleases(l) \/ ReleaseEnds(l)
      PROVE  /\ UNCHANGED <<chain, active, in_flight>>
             /\ ReleaseIfIdle({l}, active, in_flight)
  BY <1>6 DEF EraseReleases, ReleaseEnds
<1>7. ASSUME NEW l \in Listeners, RemoveHook(l)
      PROVE  in_flight' = in_flight
             /\ (Unsubscribe(ToSet(chain)) \/ UNCHANGED <<chain, active, retained, leases>>)
  BY <1>7 DEF RemoveHook, UnhookRecord
<1>8. ASSUME NEW o \in Owners, Bump(o) \/ CloseAdmission(o)
      PROVE  UNCHANGED <<chain, active, retained, leases>>
  BY <1>8 DEF Bump, CloseAdmission, leaseVars
<1>9. ASSUME NEW o \in Owners, Invalidate(o) \/ Retire(o) \/ Quiesce(o)
      PROVE  in_flight' = in_flight /\ Unsubscribe(OfOwner(o))
  BY <1>9 DEF Invalidate, Retire, Quiesce
<1>10. ASSUME NEW o \in Owners, RetireImage(o)
       PROVE  in_flight' = in_flight /\ Unsubscribe(ToSet(chain))
  BY <1>10 DEF RetireImage
<1>11. ASSUME ResetHooks
       PROVE  in_flight' = in_flight
              /\ (Unsubscribe(ToSet(chain)) \/ UNCHANGED <<chain, active, retained, leases>>)
  BY <1>11 DEF ResetHooks, UnhookRecord
<1>12. ASSUME NEW t \in Threads, BeginInvocation(t) \/ (Advance(t) /\ ~GaveBack(t))
       PROVE  UNCHANGED <<chain, active, retained, leases>>
  BY <1>12 DEF BeginInvocation, Advance, Filter, SetupFails, EnterDone, LeaveDone, GiveBack,
               InvocationExited, leaseVars
<1>13. ASSUME NEW t \in Threads, GaveBack(t)
       PROVE  /\ UNCHANGED <<chain, active, in_flight>>
              /\ \E L \in SUBSET Listeners : ReleaseIfIdle(L, active, in_flight)
  <2>1. giving[t] \in Listeners
    BY <1>13 DEF GaveBack, ListenersInv, FrameTypes
  <2>2. {giving[t]} \in SUBSET Listeners
    BY <2>1
  <2> QED
    BY <1>13, <2>2 DEF GaveBack
<1>14. Swept \subseteq Owners
  BY ListenersAssumption
<1>15. CASE \E l \in Listeners : AddChecks(l) \/ Erase(l) \/ ReleaseBegins(l) \/ ApiStep(l)
  <2> PICK l \in Listeners : AddChecks(l) \/ Erase(l) \/ ReleaseBegins(l) \/ ApiStep(l)
    BY <1>15
  <2>1. {l} \in SUBSET Listeners
    OBVIOUS
  <2> QED
    BY <1>1, <1>5, <1>6, <1>7, <2>1 DEF ApiStep
<1>16. CASE \E o \in Swept :
              Bump(o) \/ CloseAdmission(o) \/ Invalidate(o) \/ Retire(o) \/ Quiesce(o)
  BY <1>1, <1>8, <1>9, <1>14, <1>16
<1>17. CASE ResetHooks \/ \E o \in Owners : RetireImage(o)
  BY <1>1, <1>10, <1>11, <1>17
<1>18. CASE \E t \in Threads : BeginInvocation(t) \/ Advance(t)
  BY <1>12, <1>13, <1>18
<1> QED
  BY <1>2, <1>3, <1>4, <1>15, <1>16, <1>17, <1>18 DEF Next

(* A subscription adds its listener, once, and its lease.                  *)
LEMMA Subscribed ==
  ASSUME ChainInv, LeaseInv, NEW l \in Listeners, ~retained[l], ~active[l], Subscribe(l)
  PROVE  /\ ChainInv' /\ LeaseInv'
         /\ \A m \in Listeners : /\ active'[m] <=> active[m] \/ m = l
                                 /\ retained'[m] <=> retained[m] \/ m = l
<1>1. l \notin ToSet(chain)
  BY DEF ChainInv
<1>2. /\ chain' \in Seq(Listeners) /\ ToSet(chain') = ToSet(chain) \cup {l}
      /\ Ordered(chain', Order)
  BY <1>1, InsertKeepsOrder DEF ChainInv, Subscribe
<1>3. active' = [active EXCEPT ![l] = TRUE] /\ retained' = [retained EXCEPT ![l] = TRUE]
      /\ leases' = [leases EXCEPT ![OwnerOf[l]] = @ + 1]
  BY DEF Subscribe
<1>4. active' \in [Listeners -> BOOLEAN] /\ \A m \in Listeners : active'[m] <=> active[m] \/ m = l
  BY <1>3 DEF ChainInv
<1>5. retained' \in [Listeners -> BOOLEAN]
      /\ \A m \in Listeners : retained'[m] <=> retained[m] \/ m = l
  BY <1>3 DEF LeaseInv
<1>6. ChainInv'
  BY <1>2, <1>4 DEF ChainInv, Order
<1>7. OwnerOf[l] \in Owners
  BY ListenersAssumption
<1>8. leases' \in [Owners -> Nat]
  BY <1>3, <1>7 DEF LeaseInv
<1>9. ASSUME NEW o \in Owners PROVE leases'[o] = Cardinality(Holding(o)')
  <2>1. IsFiniteSet(Holding(o)) /\ leases[o] = Cardinality(Holding(o))
    <3>1. Holding(o) \in SUBSET Listeners
      BY DEF Holding
    <3> QED
      BY <3>1, FS_Subset, ListenersAssumption DEF LeaseInv
  <2>2. CASE o = OwnerOf[l]
    <3>1. Holding(o)' = Holding(o) \cup {l} /\ l \notin Holding(o)
      BY <1>5, <2>2 DEF Holding
    <3>2. leases'[o] = leases[o] + 1
      BY <1>3, <1>7, <2>2 DEF LeaseInv
    <3> QED
      BY <2>1, <3>1, <3>2, FS_AddElement
  <2>3. CASE o # OwnerOf[l]
    <3>1. Holding(o)' = Holding(o)
      BY <1>5, <2>3 DEF Holding
    <3>2. leases'[o] = leases[o]
      BY <1>3, <1>7, <2>3 DEF LeaseInv
    <3> QED
      BY <2>1, <3>1, <3>2
  <2> QED
    BY <2>2, <2>3
<1> QED
  BY <1>4, <1>5, <1>6, <1>8, <1>9 DEF LeaseInv

(* Erasing a listener takes it, and only it, from the chain.               *)
LEMMA Erased ==
  ASSUME ChainInv, NEW l \in Listeners, Erase(l)
  PROVE  /\ ChainInv'
         /\ \A m \in Listeners : active'[m] <=> active[m] /\ m # l
         /\ chain = <<>> => chain' = <<>>
<1>1. chain' = Those(chain, Listeners \ {l}) /\ active' = [active EXCEPT ![l] = FALSE]
  BY DEF Erase
<1>2. chain' \in Seq(Listeners) /\ ToSet(chain') = ToSet(chain) \cap (Listeners \ {l})
  BY <1>1, ThoseElements DEF ChainInv
<1>3. Ordered(chain', Order)
  BY <1>1, ThoseOrdered DEF ChainInv
<1>4. active' \in [Listeners -> BOOLEAN] /\ \A m \in Listeners : active'[m] <=> active[m] /\ m # l
  BY <1>1 DEF ChainInv
<1>5. ChainInv'
  BY <1>2, <1>3, <1>4 DEF ChainInv, Order
<1>6. ASSUME chain = <<>> PROVE chain' = <<>>
  <2>1. ToSet(chain') = {}
    BY <1>2, <1>6 DEF ToSet
  <2>2. \A i \in 1 .. Len(chain') : chain'[i] \in ToSet(chain')
    BY <1>2 DEF ToSet
  <2>3. Len(chain') = 0
    BY <1>2, <2>1, <2>2
  <2> QED
    BY <1>2, <2>3
<1> QED
  BY <1>4, <1>5, <1>6

-----------------------------------------------------------------------------
(* The chain and the leases                                                *)

(* Only an admitted add makes a listener active or gives it a lease, and   *)
(* an empty chain grows by nothing else.                                   *)
LEMMA ChainKept ==
  ASSUME ListenersInv, [Next]_vars
  PROVE  ChainInv' /\ LeaseInv'
<1> USE DEF ListenersInv
<1>1. CASE UNCHANGED <<chain, active, retained, leases>>
  <2>1. \A o \in Owners : Holding(o)' = Holding(o)
    BY <1>1 DEF Holding
  <2> QED
    BY <1>1, <2>1 DEF ChainInv, LeaseInv, Order
<1>2. CASE \E L \in SUBSET Listeners : Unsubscribe(L)
  BY <1>2, Unsubscribed
<1>3. ASSUME NEW l \in Listeners, handle[l] = "checked", Subscribe(l)
      PROVE  ChainInv' /\ LeaseInv'
  <2>1. ~retained[l] /\ ~active[l]
    BY <1>3 DEF HandleInv, NeedInv
  <2> QED
    BY <1>3, <2>1, Subscribed
<1>4. ASSUME NEW l \in Listeners, Erase(l) PROVE ChainInv' /\ LeaseInv'
  <2>1. ChainInv'
    BY <1>4, Erased
  <2>2. UNCHANGED <<retained, leases>>
    BY <1>4 DEF Erase
  <2>3. \A o \in Owners : Holding(o)' = Holding(o)
    BY <2>2 DEF Holding
  <2> QED
    BY <2>1, <2>2, <2>3 DEF LeaseInv
<1>5. ASSUME UNCHANGED <<chain, active, in_flight>>, NEW L \in SUBSET Listeners,
             ReleaseIfIdle(L, active, in_flight)
      PROVE  ChainInv' /\ LeaseInv'
  <2>1. LeaseInv'
    BY <1>5, LeasesReleased
  <2> QED
    BY <1>5, <2>1 DEF ChainInv, Order
<1> QED
  BY <1>1, <1>2, <1>3, <1>4, <1>5, Effects

(* What a step may do to one listener.                                     *)
LEMMA OneListener ==
  ASSUME ListenersInv, [Next]_vars, NEW l \in Listeners
  PROVE  /\ \/ handle[l] = "checked" /\ Subscribe(l) /\ in_flight' = in_flight
            \/ (active'[l] => active[l]) /\ (retained'[l] => retained[l])
         /\ retained[l] /\ ~retained'[l]
              => ~active'[l] /\ in_flight[l] = 0 /\ in_flight' = in_flight
         /\ active[l] /\ ~active'[l]
              => Erase(l) \/ (in_flight' = in_flight /\ ~(retained'[l] /\ in_flight[l] = 0))
<1> USE DEF ListenersInv
<1>1. CASE UNCHANGED <<chain, active, retained, leases>>
  BY <1>1
<1>2. ASSUME in_flight' = in_flight, NEW L \in SUBSET Listeners, Unsubscribe(L)
      PROVE  /\ (active'[l] => active[l]) /\ (retained'[l] => retained[l])
             /\ retained[l] /\ ~retained'[l] => ~active'[l] /\ in_flight[l] = 0
             /\ active[l] /\ ~active'[l] => ~(retained'[l] /\ in_flight[l] = 0)
  BY <1>2, Unsubscribed
<1>3. ASSUME in_flight' = in_flight, NEW m \in Listeners, handle[m] = "checked", Subscribe(m)
      PROVE  /\ m = l \/ ((active'[l] => active[l]) /\ (retained'[l] => retained[l]))
             /\ (active[l] => active'[l]) /\ (retained[l] => retained'[l])
  <2>1. ~retained[m] /\ ~active[m]
    BY <1>3 DEF HandleInv, NeedInv
  <2> QED
    BY <1>3, <2>1, Subscribed
<1>4. ASSUME NEW m \in Listeners, Erase(m)
      PROVE  /\ (active'[l] => active[l]) /\ retained'[l] = retained[l]
             /\ active[l] /\ ~active'[l] => m = l
  <2>1. retained' = retained
    BY <1>4 DEF Erase
  <2> QED
    BY <1>4, <2>1, Erased
<1>5. ASSUME UNCHANGED <<chain, active, in_flight>>, NEW L \in SUBSET Listeners,
             ReleaseIfIdle(L, active, in_flight)
      PROVE  /\ active'[l] = active[l] /\ (retained'[l] => retained[l])
             /\ retained[l] /\ ~retained'[l] => ~active'[l] /\ in_flight[l] = 0
  BY <1>5, LeasesReleased
<1> QED
  BY <1>1, <1>2, <1>3, <1>4, <1>5, Effects

-----------------------------------------------------------------------------
(* The frames                                                              *)

(* The steps outside of the invocations leave the frames alone.            *)
LEMMA OnlyFramesMove ==
  ASSUME [Next]_vars, ~ \E t \in Threads : BeginInvocation(t) \/ Advance(t)
  PROVE  UNCHANGED <<hook_in_flight, in_flight, frameVars>>
<1>1. CASE UNCHANGED vars
  BY <1>1 DEF vars, frameVars
<1>2. CASE Holder
  BY <1>2 DEF Holder, SweepUnhooks, AddInserts, AddRefused, leaseVars
<1>3. CASE FinishUnhook
  BY <1>3 DEF FinishUnhook, leaseVars
<1>4. CASE \E l \in Listeners : AddChecks(l) \/ Erase(l) \/ ReleaseBegins(l) \/ ApiStep(l)
  BY <1>4 DEF AddChecks, Erase, ReleaseBegins, ApiStep, EraseReleases, RemoveHook, ReleaseEnds,
              leaseVars
<1>5. CASE \E o \in Swept :
             Bump(o) \/ CloseAdmission(o) \/ Invalidate(o) \/ Retire(o) \/ Quiesce(o)
  BY <1>5 DEF Bump, CloseAdmission, Invalidate, Retire, Quiesce, leaseVars
<1>6. CASE ResetHooks \/ \E o \in Owners : RetireImage(o)
  BY <1>6 DEF ResetHooks, RetireImage
<1> QED
  BY <1>1, <1>2, <1>3, <1>4, <1>5, <1>6 DEF Next

(* The calls that are counted, and the frames that name a listener.        *)
Calls == {t \in Threads : phase[t] # "out"}
Naming(l) == {t \in Threads : Names(t, l)}

(* Both sets are finite.                                                   *)
LEMMA FrameSetsFinite ==
  IsFiniteSet(Calls) /\ \A l \in Listeners : IsFiniteSet(Naming(l))
<1>1. Calls \in SUBSET Threads /\ \A l \in Listeners : Naming(l) \in SUBSET Threads
  BY DEF Calls, Naming
<1> QED
  BY <1>1, FS_Subset, ListenersAssumption

(* BeginInvocation counts the call, and the frame of each listener of its  *)
(* snapshot.                                                               *)
LEMMA BeginCounts ==
  ASSUME FrameTypes, FrameInv, ChainInv, NEW t \in Threads, BeginInvocation(t)
  PROVE  /\ FrameTypes' /\ FrameInv'
         /\ \A l \in Listeners : ~active[l] => in_flight'[l] = in_flight[l]
         /\ \A l \in Listeners : in_flight'[l] >= in_flight[l]
<1> DEFINE snapshot == IF state = "Installed" THEN Those(chain, Admitted) ELSE <<>>
<1>1. /\ entered' = [entered EXCEPT ![t] = snapshot]
      /\ in_flight' = [l \in Listeners |-> in_flight[l] + IF l \in ToSet(snapshot) THEN 1 ELSE 0]
      /\ hook_in_flight' = hook_in_flight + 1
      /\ phase[t] = "out" /\ phase' = [phase EXCEPT ![t] = "begun"]
      /\ UNCHANGED <<pending, giving>>
  BY DEF BeginInvocation
<1>2. snapshot \in Seq(Listeners) /\ ToSet(snapshot) \subseteq {l \in Listeners : active[l]}
  <2>1. Those(chain, Admitted) \in Seq(Listeners)
        /\ ToSet(Those(chain, Admitted)) = ToSet(chain) \cap Admitted
    BY ThoseElements DEF ChainInv
  <2>2. <<>> \in Seq(Listeners) /\ ToSet(<<>>) = {}
    BY DEF ToSet
  <2> QED
    BY <2>1, <2>2 DEF ChainInv
<1> HIDE DEF snapshot
<1>3. pending[t] = {} /\ entered[t] = <<>>
  BY <1>1 DEF FrameInv
<1>4. FrameTypes'
  BY <1>1, <1>2 DEF FrameTypes, Phases
<1>5. hook_in_flight' = Cardinality(Calls')
  <2>1. Calls' = Calls \cup {t} /\ t \notin Calls
    BY <1>1 DEF Calls, FrameTypes
  <2> QED
    BY <1>1, <2>1, FrameSetsFinite, FS_AddElement DEF FrameInv, Calls
<1>6. ASSUME NEW l \in Listeners PROVE in_flight'[l] = Cardinality(Naming(l)')
  <2>1. in_flight[l] = Cardinality(Naming(l)) /\ IsFiniteSet(Naming(l)) /\ t \notin Naming(l)
    <3>1. ToSet(<<>>) = {}
      BY DEF ToSet
    <3> QED
      BY <1>3, <3>1, FrameSetsFinite DEF FrameInv, SnapshotExact, Naming, Names
  <2>2. ASSUME NEW u \in Threads
        PROVE  Names(u, l)' <=> (Names(u, l) \/ (u = t /\ l \in ToSet(snapshot)))
    BY <1>1, <1>3, <2>1 DEF Names, FrameTypes, Naming
  <2>3. CASE l \in ToSet(snapshot)
    <3>1. Naming(l)' = Naming(l) \cup {t}
      BY <2>2, <2>3 DEF Naming
    <3>2. in_flight'[l] = in_flight[l] + 1
      BY <1>1, <2>3 DEF FrameTypes
    <3> QED
      BY <2>1, <3>1, <3>2, FS_AddElement
  <2>4. CASE l \notin ToSet(snapshot)
    <3>1. Naming(l)' = Naming(l)
      BY <2>2, <2>4 DEF Naming
    <3>2. in_flight'[l] = in_flight[l]
      BY <1>1, <2>4 DEF FrameTypes
    <3> QED
      BY <2>1, <3>1, <3>2
  <2> QED
    BY <2>3, <2>4
<1>7. \A u \in Threads :
        /\ ToSet(entered'[u]) \cap pending'[u] = {}
        /\ phase'[u] \in {"out", "begun"} => pending'[u] = {}
        /\ phase'[u] \in {"out", "exit"} => entered'[u] = <<>>
  BY <1>1, <1>3 DEF FrameTypes, FrameInv
<1>8. FrameInv'
  BY <1>5, <1>6, <1>7 DEF FrameInv, SnapshotExact, Calls, Naming
<1> QED
  BY <1>1, <1>2, <1>4, <1>8 DEF FrameTypes

(* A frame that gives up some of its listeners still names them all.       *)
LEMMA KeepOnlyCounts ==
  ASSUME FrameTypes, FrameInv, NEW t \in Threads, NEW kept \in Seq(Listeners),
         ToSet(kept) \subseteq ToSet(entered[t]), KeepOnly(t, kept), pending[t] = {},
         phase[t] # "out", UNCHANGED <<hook_in_flight, in_flight, giving>>,
         NEW next \in {"enter", "body", "exit"}, phase' = [phase EXCEPT ![t] = next],
         next = "exit" => kept = <<>>
  PROVE  FrameTypes' /\ FrameInv'
<1>1. /\ entered' = [entered EXCEPT ![t] = kept]
      /\ pending' = [pending EXCEPT ![t] = ToSet(entered[t]) \ ToSet(kept)]
  BY DEF KeepOnly
<1>2. ToSet(entered[t]) \subseteq Listeners
  BY ElementOfSeq DEF FrameTypes, ToSet
<1>3. FrameTypes'
  BY <1>1, <1>2 DEF FrameTypes, Phases
<1>4. Calls' = Calls
  BY DEF Calls, FrameTypes
<1>5. \A l \in Listeners, u \in Threads : Names(u, l)' <=> Names(u, l)
  BY <1>1 DEF Names, FrameTypes
<1>6. \A l \in Listeners : Naming(l)' = Naming(l)
  BY <1>5 DEF Naming
<1>7. SnapshotExact'
  BY <1>6 DEF FrameInv, SnapshotExact, Naming
<1>8. \A u \in Threads :
        /\ ToSet(entered'[u]) \cap pending'[u] = {}
        /\ phase'[u] \in {"out", "begun"} => pending'[u] = {}
        /\ phase'[u] \in {"out", "exit"} => entered'[u] = <<>>
  BY <1>1 DEF FrameTypes, FrameInv
<1> QED
  BY <1>3, <1>4, <1>7, <1>8 DEF FrameInv, Calls

(* A listener given back is no longer named by this frame.                 *)
LEMMA GiveBackCounts ==
  ASSUME FrameTypes, FrameInv, NEW t \in Threads, NEW l \in Listeners, GiveBack(t, l)
  PROVE  /\ FrameTypes' /\ FrameInv'
         /\ in_flight[l] > 0 /\ in_flight'[l] = in_flight[l] - 1
         /\ \A m \in Listeners : m # l => in_flight'[m] = in_flight[m]
<1>1. /\ l \in pending[t]
      /\ pending' = [pending EXCEPT ![t] = @ \ {l}]
      /\ in_flight' = [in_flight EXCEPT ![l] = @ - 1]
      /\ giving' = [giving EXCEPT ![t] = l]
      /\ UNCHANGED <<hook_in_flight, phase, entered>>
  BY DEF GiveBack
<1>2. t \in Naming(l) /\ IsFiniteSet(Naming(l)) /\ in_flight[l] = Cardinality(Naming(l))
  BY <1>1, FrameSetsFinite DEF Naming, Names, FrameInv, SnapshotExact
<1>3. Naming(l)' = Naming(l) \ {t}
  BY <1>1 DEF Naming, Names, FrameTypes, FrameInv
<1>4. \A m \in Listeners : m # l => Naming(m)' = Naming(m)
  BY <1>1 DEF Naming, Names, FrameTypes
<1>5. Cardinality(Naming(l)') = Cardinality(Naming(l)) - 1
  BY <1>2, <1>3, FS_RemoveElement
<1>6. in_flight[l] > 0
  BY <1>2, FS_EmptySet DEF FrameTypes
<1>7. /\ in_flight'[l] = in_flight[l] - 1
      /\ \A m \in Listeners : m # l => in_flight'[m] = in_flight[m]
  BY <1>1 DEF FrameTypes
<1>8. FrameTypes'
  BY <1>1, <1>6 DEF FrameTypes
<1>9. SnapshotExact'
  BY <1>2, <1>4, <1>5, <1>7 DEF FrameInv, SnapshotExact, Naming
<1>10. \A u \in Threads :
         /\ ToSet(entered'[u]) \cap pending'[u] = {}
         /\ phase'[u] \in {"out", "begun"} => pending'[u] = {}
         /\ phase'[u] \in {"out", "exit"} => entered'[u] = <<>>
  BY <1>1 DEF FrameTypes, FrameInv
<1> QED
  BY <1>1, <1>6, <1>7, <1>8, <1>9, <1>10 DEF FrameInv

(* Every step keeps the counts of calls and frames.                        *)
LEMMA FrameKept ==
  ASSUME ListenersInv, [Next]_vars
  PROVE  FrameTypes' /\ FrameInv'
<1> USE DEF ListenersInv
<1>1. CASE ~ \E t \in Threads : BeginInvocation(t) \/ Advance(t)
  <2>1. UNCHANGED <<hook_in_flight, in_flight, phase, entered, pending, giving>>
    BY <1>1, OnlyFramesMove DEF frameVars
  <2> QED
    BY <2>1 DEF FrameTypes, FrameInv, SnapshotExact, Names
<1>2. ASSUME NEW t \in Threads, BeginInvocation(t) PROVE FrameTypes' /\ FrameInv'
  BY <1>2, BeginCounts
<1>3. <<>> \in Seq(Listeners) /\ ToSet(<<>>) = {}
  BY DEF ToSet
<1>4. ASSUME NEW t \in Threads, Filter(t) PROVE FrameTypes' /\ FrameInv'
  <2> DEFINE kept == Those(entered[t], InGroup(t))
  <2>1. kept \in Seq(Listeners) /\ ToSet(kept) \subseteq ToSet(entered[t])
    BY ThoseElements DEF FrameTypes
  <2>2. phase[t] = "begun" /\ KeepOnly(t, kept) /\ phase' = [phase EXCEPT ![t] = "enter"]
        /\ UNCHANGED <<hook_in_flight, in_flight, giving>>
    BY <1>4 DEF Filter, leaseVars
  <2>3. pending[t] = {}
    BY <2>2 DEF FrameInv
  <2> HIDE DEF kept
  <2> QED
    BY <2>1, <2>2, <2>3, KeepOnlyCounts
<1>5. ASSUME NEW t \in Threads, SetupFails(t) \/ LeaveDone(t) PROVE FrameTypes' /\ FrameInv'
  <2>1. /\ phase[t] # "out" /\ KeepOnly(t, <<>>) /\ phase' = [phase EXCEPT ![t] = "exit"]
        /\ UNCHANGED <<hook_in_flight, in_flight, giving>> /\ pending[t] = {}
    BY <1>5 DEF SetupFails, LeaveDone, Settled, leaseVars
  <2> QED
    BY <1>3, <2>1, KeepOnlyCounts
<1>6. ASSUME NEW t \in Threads, EnterDone(t) PROVE FrameTypes' /\ FrameInv'
  <2>1. PICK n \in 0 .. Len(entered[t]) : KeepOnly(t, SubSeq(entered[t], 1, n))
    BY <1>6 DEF EnterDone
  <2> DEFINE kept == SubSeq(entered[t], 1, n)
  <2>2. entered[t] \in Seq(Listeners)
    BY DEF FrameTypes
  <2>3. kept \in Seq(Listeners) /\ DOMAIN kept = 1 .. n
        /\ \A i \in 1 .. n : kept[i] = entered[t][i] /\ i \in DOMAIN entered[t]
    BY <2>2
  <2> HIDE DEF kept
  <2>4. ToSet(kept) \subseteq ToSet(entered[t])
    BY <2>3 DEF ToSet
  <2>5. phase[t] = "enter" /\ phase' = [phase EXCEPT ![t] = "body"]
        /\ UNCHANGED <<hook_in_flight, in_flight, giving>> /\ pending[t] = {}
    BY <1>6 DEF EnterDone, Settled, leaseVars
  <2>6. KeepOnly(t, kept)
    BY <2>1 DEF kept
  <2> QED
    BY <2>3, <2>4, <2>5, <2>6, KeepOnlyCounts
<1>7. ASSUME NEW t \in Threads, NEW l \in Listeners, GiveBack(t, l) PROVE FrameTypes' /\ FrameInv'
  BY <1>7, GiveBackCounts
<1>8. ASSUME NEW t \in Threads, GaveBack(t) PROVE FrameTypes' /\ FrameInv'
  <2>1. giving' = [giving EXCEPT ![t] = None]
        /\ UNCHANGED <<hook_in_flight, in_flight, phase, entered, pending>>
    BY <1>8 DEF GaveBack
  <2>2. FrameTypes'
    BY <2>1 DEF FrameTypes
  <2> QED
    BY <2>1, <2>2 DEF FrameInv, SnapshotExact, Names
<1>9. ASSUME NEW t \in Threads, InvocationExited(t) PROVE FrameTypes' /\ FrameInv'
  <2>1. /\ phase[t] = "exit" /\ pending[t] = {}
        /\ hook_in_flight' = hook_in_flight - 1 /\ phase' = [phase EXCEPT ![t] = "out"]
        /\ UNCHANGED <<in_flight, entered, pending, giving>>
    BY <1>9 DEF InvocationExited, Settled, leaseVars
  <2>2. Calls' = Calls \ {t} /\ t \in Calls /\ hook_in_flight = Cardinality(Calls)
    BY <2>1 DEF Calls, FrameTypes, FrameInv
  <2>3. hook_in_flight' = Cardinality(Calls') /\ hook_in_flight > 0
    <3>1. IsFiniteSet(Calls)
      BY FrameSetsFinite
    <3>2. Cardinality(Calls \ {t}) = Cardinality(Calls) - 1
      BY <2>2, <3>1, FS_RemoveElement
    <3>3. Cardinality(Calls) # 0
      BY <2>2, <3>1, FS_EmptySet
    <3> QED
      BY <2>1, <2>2, <3>2, <3>3 DEF FrameTypes
  <2>4. FrameTypes'
    BY <2>1, <2>3 DEF FrameTypes, Phases
  <2>5. SnapshotExact'
    BY <2>1 DEF FrameInv, SnapshotExact, Names
  <2>6. \A u \in Threads :
          /\ ToSet(entered'[u]) \cap pending'[u] = {}
          /\ phase'[u] \in {"out", "begun"} => pending'[u] = {}
          /\ phase'[u] \in {"out", "exit"} => entered'[u] = <<>>
    BY <2>1 DEF FrameTypes, FrameInv
  <2> QED
    BY <2>3, <2>4, <2>5, <2>6 DEF FrameInv, Calls
<1> QED
  BY <1>1, <1>2, <1>4, <1>5, <1>6, <1>7, <1>8, <1>9 DEF Advance

-----------------------------------------------------------------------------
(* Who moves what                                                          *)

(* A listener's count moves with an invocation that begins while it is     *)
(* active, or with a frame that gives it back.                             *)
LEMMA OneCount ==
  ASSUME ListenersInv, [Next]_vars, NEW l \in Listeners
  PROVE  \/ in_flight'[l] = in_flight[l]
         \/ active[l] /\ UNCHANGED <<active, retained>> /\ in_flight'[l] > in_flight[l]
         \/ /\ UNCHANGED <<active, retained>> /\ in_flight[l] > 0
            /\ \E t \in Threads : giving'[t] = l
<1> USE DEF ListenersInv
<1>1. CASE ~ \E t \in Threads : BeginInvocation(t) \/ Advance(t)
  BY <1>1, OnlyFramesMove
<1>2. ASSUME NEW t \in Threads, BeginInvocation(t)
      PROVE  \/ in_flight'[l] = in_flight[l]
             \/ active[l] /\ UNCHANGED <<active, retained>> /\ in_flight'[l] > in_flight[l]
  <2>1. UNCHANGED <<active, retained>>
    BY <1>2 DEF BeginInvocation
  <2>2. FrameTypes' /\ in_flight'[l] >= in_flight[l]
        /\ (~active[l] => in_flight'[l] = in_flight[l])
    BY <1>2, BeginCounts
  <2> QED
    BY <2>1, <2>2 DEF FrameTypes
<1>3. ASSUME NEW t \in Threads, NEW m \in Listeners, GiveBack(t, m)
      PROVE  \/ in_flight'[l] = in_flight[l]
             \/ /\ UNCHANGED <<active, retained>> /\ in_flight[l] > 0
                /\ \E u \in Threads : giving'[u] = l
  <2>1. UNCHANGED <<active, retained>> /\ giving'[t] = m
    BY <1>3 DEF GiveBack, FrameTypes
  <2>2. in_flight[m] > 0 /\ (m # l => in_flight'[l] = in_flight[l])
    BY <1>3, GiveBackCounts
  <2> QED
    BY <2>1, <2>2
<1>4. ASSUME NEW t \in Threads, Advance(t), ~ \E m \in Listeners : GiveBack(t, m)
      PROVE  in_flight' = in_flight
  BY <1>4 DEF Advance, Filter, SetupFails, EnterDone, LeaveDone, GaveBack, InvocationExited,
              leaseVars
<1> QED
  BY <1>1, <1>2, <1>3, <1>4

(* A handle moves only by the operations of its subscriber.                *)
LEMMA HandleMoves ==
  ASSUME ListenersInv, [Next]_vars, NEW l \in Listeners
  PROVE  \/ handle'[l] = handle[l]
         \/ AddChecks(l) \/ AddInserts(l) \/ AddRefused(l) \/ Erase(l) \/ EraseReleases(l)
         \/ RemoveHook(l) \/ ReleaseEnds(l)
<1>1. handle \in [Listeners -> HandleStates]
  BY DEF ListenersInv, OtherTypes
<1>2. CASE UNCHANGED vars
  BY <1>2 DEF vars
<1>3. CASE Holder
  <2>1. CASE SweepUnhooks
    BY <2>1 DEF SweepUnhooks, apiVars
  <2>2. ASSUME NEW m \in Listeners, AddInserts(m) \/ AddRefused(m), m # l
        PROVE  handle'[l] = handle[l]
    BY <1>1, <2>2 DEF AddInserts, AddRefused, Subscribe
  <2> QED
    BY <1>3, <2>1, <2>2 DEF Holder
<1>4. CASE FinishUnhook
  BY <1>4 DEF FinishUnhook, apiVars
<1>5. ASSUME NEW m \in Listeners, AddChecks(m) \/ Erase(m) \/ ReleaseBegins(m) \/ ApiStep(m),
             m # l \/ ReleaseBegins(m)
      PROVE  handle'[l] = handle[l]
  <2>1. CASE ReleaseBegins(m)
    BY <2>1 DEF ReleaseBegins
  <2>2. CASE m # l /\ AddChecks(m)
    BY <1>1, <2>2 DEF AddChecks
  <2>3. CASE m # l /\ Erase(m)
    BY <1>1, <2>3 DEF Erase
  <2>4. CASE m # l /\ EraseReleases(m)
    BY <1>1, <2>4 DEF EraseReleases
  <2>5. CASE m # l /\ RemoveHook(m)
    BY <1>1, <2>5 DEF RemoveHook
  <2>6. CASE m # l /\ ReleaseEnds(m)
    BY <1>1, <2>6 DEF ReleaseEnds
  <2> QED
    BY <1>5, <2>1, <2>2, <2>3, <2>4, <2>5, <2>6 DEF ApiStep
<1>6. CASE \E o \in Swept :
             Bump(o) \/ CloseAdmission(o) \/ Invalidate(o) \/ Retire(o) \/ Quiesce(o)
  BY <1>6 DEF Bump, CloseAdmission, Invalidate, Retire, Quiesce, apiVars
<1>7. CASE ResetHooks \/ \E o \in Owners : RetireImage(o)
  BY <1>7 DEF ResetHooks, RetireImage, apiVars
<1>8. CASE \E t \in Threads : BeginInvocation(t) \/ Advance(t)
  BY <1>8 DEF BeginInvocation, Advance, Filter, SetupFails, EnterDone, LeaveDone, GiveBack,
              GaveBack, InvocationExited, apiVars
<1> QED
  BY <1>2, <1>3, <1>4, <1>5, <1>6, <1>7, <1>8 DEF Next, ApiStep

(* The mutex passes to an add with the checks, and an adapter is quiesced  *)
(* by its sweep.                                                           *)
LEMMA MutexMoves ==
  ASSUME ListenersInv, [Next]_vars, NEW l \in Listeners, NEW o \in Owners
  PROVE  /\ mutex' = l => mutex = l \/ AddChecks(l)
         /\ admission'[o] = "quiesced" => admission[o] = "quiesced" \/ Quiesce(o)
<1>1. l # "free" /\ l # "sweep" /\ Swept \subseteq Owners
  BY ListenersAssumption
<1>2. admission \in [Owners -> {"open", "closed", "quiesced"}]
  BY DEF ListenersInv, OtherTypes
<1>3. CASE UNCHANGED vars
  BY <1>3 DEF vars
<1>4. CASE Holder
  BY <1>1, <1>4 DEF Holder, SweepUnhooks, AddInserts, AddRefused, ownerVars
<1>5. CASE FinishUnhook
  BY <1>5 DEF FinishUnhook, ownerVars
<1>6. CASE \E m \in Listeners : AddChecks(m) \/ Erase(m) \/ ReleaseBegins(m) \/ ApiStep(m)
  BY <1>6 DEF AddChecks, Erase, ReleaseBegins, ApiStep, EraseReleases, RemoveHook, ReleaseEnds,
              ownerVars
<1>7. ASSUME NEW p \in Owners, Bump(p) \/ CloseAdmission(p) \/ Invalidate(p) \/ Retire(p)
      PROVE  /\ mutex' = l => mutex = l
             /\ admission'[o] = "quiesced" => admission[o] = "quiesced"
  BY <1>1, <1>2, <1>7 DEF Bump, CloseAdmission, Invalidate, Retire, ownerVars
<1>8. ASSUME NEW p \in Owners, Quiesce(p)
      PROVE  mutex' # l /\ (p # o => admission'[o] = admission[o])
  BY <1>1, <1>2, <1>8 DEF Quiesce
<1>9. CASE ResetHooks \/ \E p \in Owners : RetireImage(p)
  BY <1>9 DEF ResetHooks, RetireImage, ownerVars
<1>10. CASE \E t \in Threads : BeginInvocation(t) \/ Advance(t)
  BY <1>10 DEF BeginInvocation, Advance, Filter, SetupFails, EnterDone, LeaveDone, GiveBack,
               GaveBack, InvocationExited, ownerVars
<1> QED
  BY <1>1, <1>3, <1>4, <1>5, <1>6, <1>7, <1>8, <1>9, <1>10 DEF Next

-----------------------------------------------------------------------------
(* The handles and their leases                                            *)

(* A frame, or the chain, never loses the lease of a listener it uses.     *)
LEMMA NeedKept ==
  ASSUME ListenersInv, [Next]_vars
  PROVE  NeedInv'
<1> SUFFICES ASSUME NEW l \in Listeners, active'[l] \/ in_flight'[l] # 0
             PROVE  retained'[l]
  BY DEF NeedInv
<1>1. CASE handle[l] = "checked" /\ Subscribe(l)
  BY <1>1 DEF Subscribe, ListenersInv, LeaseInv
<1>2. CASE (active'[l] => active[l]) /\ (retained'[l] => retained[l])
  <2>1. active[l] \/ in_flight[l] # 0
    BY <1>2, OneCount DEF ListenersInv, FrameTypes
  <2>2. retained[l]
    BY <2>1 DEF ListenersInv, NeedInv
  <2> QED
    BY <2>2, OneListener
<1> QED
  BY <1>1, <1>2, OneListener

(* What a handle tells of its listener stays true.                         *)
LEMMA HandleKept ==
  ASSUME ListenersInv, [Next]_vars
  PROVE  HandleInv'
<1> SUFFICES ASSUME NEW l \in Listeners
             PROVE  /\ handle'[l] \in {None, "checked"} => ~retained'[l]
                    /\ handle'[l] \notin {None, "checked", "held"} => ~active'[l]
                    /\ handle'[l] \in {"released", "dispose"}
                         => in_flight'[l] = 0 /\ ~retained'[l]
                    /\ mutex' = l
                         => handle'[l] = "checked" /\ admission'[OwnerOf[l]] # "quiesced"
  BY DEF HandleInv
<1> DEFINE Was == /\ handle[l] \in {None, "checked"} => ~retained[l]
                  /\ handle[l] \notin {None, "checked", "held"} => ~active[l]
                  /\ handle[l] \in {"released", "dispose"} => in_flight[l] = 0 /\ ~retained[l]
                  /\ mutex = l => handle[l] = "checked" /\ admission[OwnerOf[l]] # "quiesced"
<1>1. Was
  BY DEF ListenersInv, HandleInv
<1>2. /\ handle \in [Listeners -> HandleStates] /\ active \in [Listeners -> BOOLEAN]
      /\ retained \in [Listeners -> BOOLEAN] /\ in_flight \in [Listeners -> Nat]
      /\ admission \in [Owners -> {"open", "closed", "quiesced"}]
  BY DEF ListenersInv, OtherTypes, ChainInv, LeaseInv, FrameTypes
<1>3. OwnerOf[l] \in Owners /\ l # "free" /\ l # "sweep"
  BY ListenersAssumption
<1>4. CASE Subscribe(l) /\ handle[l] = "checked"
  <2>1. AddInserts(l)
    <3>1. handle'[l] = "held"
      BY <1>2, <1>4 DEF Subscribe
    <3> QED
      BY <1>2, <1>4, <3>1, HandleMoves DEF AddChecks, AddRefused, Erase, EraseReleases, RemoveHook,
         ReleaseEnds, None
  <2> QED
    BY <1>2, <1>3, <2>1 DEF AddInserts, Subscribe, None
<1>5. CASE (active'[l] => active[l]) /\ (retained'[l] => retained[l])
  <2>1. ASSUME handle'[l] = handle[l]
        PROVE  /\ handle'[l] \in {None, "checked"} => ~retained'[l]
               /\ handle'[l] \notin {None, "checked", "held"} => ~active'[l]
               /\ handle'[l] \in {"released", "dispose"} => in_flight'[l] = 0 /\ ~retained'[l]
    BY <1>1, <1>2, <1>5, <2>1, OneCount DEF None
  <2>2. ASSUME AddChecks(l) \/ AddRefused(l) \/ AddInserts(l)
        PROVE  /\ handle'[l] \in {None, "checked"} => ~retained'[l]
               /\ handle'[l] \in {None, "checked", "held"}
    BY <1>1, <1>2, <1>5, <2>2 DEF AddChecks, AddRefused, AddInserts, Subscribe, None
  <2>3. ASSUME Erase(l) PROVE handle'[l] \in {"erased", "last"} /\ ~active'[l]
    BY <1>2, <2>3 DEF Erase
  <2>4. ASSUME EraseReleases(l) \/ RemoveHook(l) \/ ReleaseEnds(l)
        PROVE  handle'[l] \notin {None, "checked", "held"} /\ ~active'[l]
    BY <1>1, <1>2, <1>5, <2>4 DEF EraseReleases, RemoveHook, ReleaseEnds, None
  <2>5. ASSUME EraseReleases(l) PROVE handle'[l] \notin {"released", "dispose"}
    BY <1>2, <2>5 DEF EraseReleases
  <2>6. ASSUME RemoveHook(l), handle'[l] \in {"released", "dispose"}
        PROVE  in_flight'[l] = 0 /\ ~retained'[l]
    BY <1>1, <1>2, <1>5, <2>6 DEF RemoveHook
  <2>7. ASSUME ReleaseEnds(l), handle'[l] \in {"released", "dispose"}
        PROVE  in_flight'[l] = 0 /\ ~retained'[l]
    <3>1. handle[l] = "removed" /\ in_flight[l] = 0 /\ in_flight' = in_flight
          /\ ReleaseIfIdle({l}, active, in_flight)
      BY <1>2, <2>7 DEF ReleaseEnds
    <3>2. ~active[l] /\ {l} \in SUBSET Listeners
      BY <1>1, <3>1 DEF None
    <3>3. ~retained'[l]
      BY <3>1, <3>2, LeasesReleased DEF ListenersInv
    <3> QED
      BY <3>1, <3>3
  <2>8. ASSUME mutex' = l
        PROVE  handle'[l] = "checked" /\ admission'[OwnerOf[l]] # "quiesced"
    <3>1. CASE AddChecks(l)
      BY <1>2, <1>3, <3>1 DEF AddChecks, ownerVars
    <3>2. CASE mutex = l
      <4>1. handle[l] = "checked" /\ admission[OwnerOf[l]] # "quiesced"
        BY <1>1, <3>2
      <4>2. handle'[l] = handle[l]
        BY <1>3, <2>8, <4>1, HandleMoves DEF AddChecks, AddInserts, AddRefused, Erase,
           EraseReleases, RemoveHook, ReleaseEnds, None
      <4>3. ~Quiesce(OwnerOf[l])
        BY <1>3, <3>2 DEF Quiesce
      <4> QED
        BY <1>3, <4>1, <4>2, <4>3, MutexMoves
    <3> QED
      BY <2>8, <3>1, <3>2, <1>3, MutexMoves
  <2>9. {"erased", "last"} \cap {None, "checked", "held", "released", "dispose"} = {}
    BY DEF None
  <2> QED
    BY <2>1, <2>2, <2>3, <2>4, <2>5, <2>6, <2>7, <2>8, <2>9, HandleMoves DEF None
<1> QED
  BY <1>4, <1>5, OneListener

(* A frame that has given a listener back looks at its adapter.            *)
LEMMA GivingMoves ==
  ASSUME ListenersInv, [Next]_vars, NEW l \in Listeners, NEW t \in Threads, giving[t] = l
  PROVE  giving'[t] = l \/ (GaveBack(t) /\ ReleaseIfIdle({l}, active, in_flight))
<1>1. giving \in [Threads -> Listeners \cup {None}] /\ l # None
  BY ListenersAssumption DEF ListenersInv, FrameTypes, None
<1>2. CASE ~ \E u \in Threads : BeginInvocation(u) \/ Advance(u)
  BY <1>2, OnlyFramesMove DEF frameVars
<1>3. ASSUME NEW u \in Threads, BeginInvocation(u) PROVE giving' = giving
  BY <1>3 DEF BeginInvocation
<1>4. ASSUME NEW u \in Threads, NEW m \in Listeners, GiveBack(u, m) PROVE giving'[t] = l
  BY <1>1, <1>4 DEF GiveBack
<1>5. ASSUME NEW u \in Threads, GaveBack(u), u # t PROVE giving'[t] = l
  BY <1>1, <1>5 DEF GaveBack
<1>6. ASSUME GaveBack(t) PROVE ReleaseIfIdle({l}, active, in_flight)
  BY <1>6 DEF GaveBack
<1>7. ASSUME NEW u \in Threads, Filter(u) \/ SetupFails(u) \/ EnterDone(u) \/ LeaveDone(u)
                                \/ InvocationExited(u)
      PROVE  giving' = giving
  BY <1>7 DEF Filter, SetupFails, EnterDone, LeaveDone, InvocationExited
<1> QED
  BY <1>2, <1>3, <1>4, <1>5, <1>6, <1>7 DEF Advance

(* An idle, inactive listener is not forgotten with its lease.             *)
LEMMA ReturnedKept ==
  ASSUME ListenersInv, [Next]_vars
  PROVE  LeaseReturned'
<1> SUFFICES ASSUME NEW l \in Listeners, retained'[l], ~active'[l], in_flight'[l] = 0
             PROVE  handle'[l] \in {"erased", "last"} \/ \E t \in Threads : giving'[t] = l
  BY DEF LeaseReturned
<1>1. /\ handle \in [Listeners -> HandleStates] /\ active \in [Listeners -> BOOLEAN]
      /\ retained \in [Listeners -> BOOLEAN] /\ in_flight \in [Listeners -> Nat]
  BY DEF ListenersInv, OtherTypes, ChainInv, LeaseInv, FrameTypes
<1>2. ~(handle[l] = "checked" /\ Subscribe(l))
  BY <1>1 DEF Subscribe
<1>3. retained[l]
  BY <1>2, OneListener
<1>4. ASSUME ReleaseIfIdle({l}, active, in_flight), UNCHANGED <<active, in_flight>> PROVE FALSE
  <2>1. {l} \in SUBSET Listeners
    OBVIOUS
  <2> QED
    BY <1>4, <2>1, LeasesReleased DEF ListenersInv
<1>5. ASSUME Erase(l) PROVE handle'[l] \in {"erased", "last"}
  BY <1>1, <1>5 DEF Erase
<1>6. CASE in_flight[l] # 0
  BY <1>1, <1>6, OneCount
<1>7. CASE in_flight[l] = 0 /\ active[l]
  BY <1>5, <1>7, OneListener
<1>8. CASE in_flight[l] = 0 /\ ~active[l]
  <2>1. handle[l] \in {"erased", "last"} \/ \E t \in Threads : giving[t] = l
    BY <1>3, <1>8 DEF ListenersInv, LeaseReturned
  <2>2. ASSUME NEW t \in Threads, giving[t] = l PROVE giving'[t] = l
    <3>1. ASSUME GaveBack(t) PROVE UNCHANGED <<active, in_flight>>
      BY <3>1 DEF GaveBack
    <3> QED
      BY <1>4, <2>2, <3>1, GivingMoves
  <2>3. ASSUME handle[l] \in {"erased", "last"} PROVE handle'[l] = handle[l]
    <3>1. ~EraseReleases(l)
      BY <1>4 DEF EraseReleases
    <3>2. handle[l] # "checked" /\ handle[l] # None
      BY <2>3 DEF None
    <3>3. ASSUME mutex = l PROVE FALSE
      BY <3>2, <3>3 DEF ListenersInv, HandleInv
    <3> QED
      BY <2>3, <3>1, <3>2, <3>3, HandleMoves DEF AddChecks, AddInserts, AddRefused, Erase,
         RemoveHook, ReleaseEnds
  <2> QED
    BY <2>1, <2>2, <2>3
<1> QED
  BY <1>6, <1>7, <1>8

-----------------------------------------------------------------------------
(* The hook, and the adapters                                              *)

(* Only an add puts a listener into an empty chain.                        *)
LEMMA EmptyStays ==
  ASSUME ListenersInv, [Next]_vars, chain = <<>>
  PROVE  chain' = <<>> \/ \E l \in Listeners : AddInserts(l)
<1>1. ToSet(chain) = {}
  BY DEF ToSet
<1>2. ASSUME NEW l \in Listeners, handle[l] = "checked", Subscribe(l) PROVE AddInserts(l)
  <2>1. handle'[l] = "held"
    BY <1>2 DEF Subscribe, ListenersInv, OtherTypes
  <2> QED
    BY <1>2, <2>1, HandleMoves DEF AddChecks, AddRefused, Erase, EraseReleases, RemoveHook,
       ReleaseEnds, None, ListenersInv, OtherTypes
<1>3. ASSUME NEW L \in SUBSET Listeners, Unsubscribe(L) PROVE chain' = <<>>
  BY <1>1, <1>3, Unsubscribed DEF ListenersInv
<1>4. ASSUME NEW l \in Listeners, Erase(l) PROVE chain' = <<>>
  BY <1>4, Erased DEF ListenersInv
<1> QED
  BY <1>2, <1>3, <1>4, Effects

(* UnhookRecord takes every listener of a record that it takes down.       *)
LEMMA UnhookEmpties ==
  ASSUME ListenersInv, UnhookRecord, state \in {"Installed", "Failed"}
  PROVE  chain' = <<>>
<1>1. ToSet(chain) \in SUBSET Listeners /\ Unsubscribe(ToSet(chain))
  BY DEF UnhookRecord, ListenersInv, ChainInv
<1> QED
  BY <1>1, Unsubscribed DEF ListenersInv

(* A record that is taken down has lost its listeners.                     *)
LEMMA DeadKept ==
  ASSUME ListenersInv, [Next]_vars
  PROVE  DeadHookHasNoListener'
<1> DEFINE Dead == {"Unhooking", "Unhooked", "Failed", "Retired"}
<1> SUFFICES ASSUME state' \in Dead PROVE chain' = <<>>
  BY DEF DeadHookHasNoListener
<1>1. state \in Dead => chain = <<>>
  BY DEF ListenersInv, DeadHookHasNoListener
<1>2. ASSUME NEW l \in Listeners, AddInserts(l) PROVE FALSE
  BY <1>2 DEF AddInserts
<1>3. CASE state \in Dead
  BY <1>1, <1>2, <1>3, EmptyStays
<1>4. CASE state \notin Dead
  <2>1. state # state'
    BY <1>4
  <2>2. CASE UNCHANGED vars
    BY <2>1, <2>2 DEF vars
  <2>3. ASSUME UnhookRecord PROVE chain' = <<>>
    BY <2>1, <2>3, UnhookEmpties DEF UnhookRecord
  <2>4. CASE Holder
    BY <1>2, <2>1, <2>3, <2>4 DEF Holder, SweepUnhooks, AddRefused
  <2>5. CASE FinishUnhook
    BY <1>4, <2>5 DEF FinishUnhook
  <2>6. CASE \E l \in Listeners : AddChecks(l) \/ Erase(l) \/ ReleaseBegins(l) \/ ApiStep(l)
    BY <2>1, <2>3, <2>6 DEF AddChecks, Erase, ReleaseBegins, ApiStep, EraseReleases, RemoveHook,
       ReleaseEnds
  <2>7. CASE \E o \in Swept :
               Bump(o) \/ CloseAdmission(o) \/ Invalidate(o) \/ Retire(o) \/ Quiesce(o)
    BY <2>1, <2>7 DEF Bump, CloseAdmission, Invalidate, Retire, Quiesce
  <2>8. CASE ResetHooks
    BY <2>3, <2>8 DEF ResetHooks
  <2>9. ASSUME NEW o \in Owners, RetireImage(o) PROVE chain' = <<>>
    <3>1. ToSet(chain) \in SUBSET Listeners /\ Unsubscribe(ToSet(chain))
      BY <2>9 DEF RetireImage, ListenersInv, ChainInv
    <3> QED
      BY <3>1, Unsubscribed DEF ListenersInv
  <2>10. CASE \E t \in Threads : BeginInvocation(t) \/ Advance(t)
    BY <2>1, <2>10 DEF BeginInvocation, Advance, Filter, SetupFails, EnterDone, LeaveDone,
       GiveBack, GaveBack, InvocationExited
  <2> QED
    BY <2>2, <2>4, <2>5, <2>6, <2>7, <2>8, <2>9, <2>10 DEF Next
<1> QED
  BY <1>3, <1>4

(* A quiesced adapter gets no active listener.                             *)
LEMMA QuietKept ==
  ASSUME ListenersInv, [Next]_vars
  PROVE  QuiescedStaysQuiet'
<1> SUFFICES ASSUME NEW l \in Listeners, admission'[OwnerOf[l]] = "quiesced", active'[l]
             PROVE  FALSE
  BY DEF QuiescedStaysQuiet
<1>1. OwnerOf[l] \in Owners /\ l # "free" /\ l # "sweep"
  BY ListenersAssumption
<1>2. CASE Quiesce(OwnerOf[l])
  <2>1. OfOwner(OwnerOf[l]) \in SUBSET Listeners /\ Unsubscribe(OfOwner(OwnerOf[l]))
    BY <1>2 DEF Quiesce, OfOwner, ListenersInv, ChainInv
  <2>2. active[l] /\ l \notin OfOwner(OwnerOf[l])
    BY <2>1, Unsubscribed DEF ListenersInv
  <2> QED
    BY <2>2 DEF OfOwner, ListenersInv, ChainInv
<1>3. CASE admission[OwnerOf[l]] = "quiesced"
  <2>1. ~active[l]
    BY <1>3 DEF ListenersInv, QuiescedStaysQuiet
  <2>2. handle[l] = "checked" /\ Subscribe(l)
    BY <2>1, OneListener
  <2>3. handle'[l] = "held"
    BY <2>2 DEF Subscribe, ListenersInv, OtherTypes
  <2>4. AddInserts(l)
    BY <2>2, <2>3, HandleMoves DEF AddChecks, AddRefused, Erase, EraseReleases, RemoveHook,
       ReleaseEnds, None, ListenersInv, OtherTypes
  <2> QED
    BY <1>3, <2>4 DEF AddInserts, ListenersInv, HandleInv
<1> QED
  BY <1>1, <1>2, <1>3, MutexMoves

(* The rest of the state keeps its type.                                   *)
LEMMA OthersKept ==
  ASSUME ListenersInv, [Next]_vars
  PROVE  OtherTypes'
<1> USE DEF ListenersInv, OtherTypes
<1>1. OwnerOf \in [Listeners -> Owners] /\ Swept \subseteq Owners /\ HostMayFail \in BOOLEAN
  BY ListenersAssumption
<1>2. CASE UNCHANGED vars
  BY <1>2 DEF vars
<1>3. ASSUME UnhookRecord
      PROVE  state' \in {"None", "Installed", "Unhooking", "Unhooked", "Failed", "Retired"}
  BY <1>1, <1>3 DEF UnhookRecord, Finished
<1>4. CASE Holder
  <2>1. CASE SweepUnhooks
    BY <1>3, <2>1 DEF SweepUnhooks, ownerVars, apiVars
  <2>2. ASSUME NEW l \in Listeners, AddInserts(l) PROVE OtherTypes'
    BY <1>1, <2>2 DEF AddInserts, Subscribe, ownerVars, HandleStates, None
  <2>3. ASSUME NEW l \in Listeners, AddRefused(l) PROVE OtherTypes'
    BY <2>3 DEF AddRefused, ownerVars, HandleStates
  <2> QED
    BY <1>4, <2>1, <2>2, <2>3 DEF Holder
<1>5. CASE FinishUnhook
  BY <1>1, <1>5 DEF FinishUnhook, Finished, ownerVars, apiVars
<1>6. ASSUME NEW l \in Listeners, AddChecks(l) PROVE OtherTypes'
  BY <1>6 DEF AddChecks, ownerVars, HandleStates
<1>7. ASSUME NEW l \in Listeners, Erase(l) PROVE OtherTypes'
  BY <1>7 DEF Erase, ownerVars, HandleStates
<1>8. ASSUME NEW l \in Listeners, ReleaseBegins(l) PROVE OtherTypes'
  BY <1>8 DEF ReleaseBegins, ownerVars
<1>9. ASSUME NEW l \in Listeners, EraseReleases(l) PROVE OtherTypes'
  BY <1>9 DEF EraseReleases, ownerVars, HandleStates
<1>10. ASSUME NEW l \in Listeners, RemoveHook(l) PROVE OtherTypes'
  <2>1. mutex' = mutex /\ installer' = installer /\ UNCHANGED <<admission, current>>
    BY <1>10 DEF RemoveHook, ownerVars
  <2>2. handle' \in [Listeners -> HandleStates]
    BY <1>10 DEF RemoveHook, HandleStates
  <2>3. releasing' \in [Listeners -> BOOLEAN]
    BY <1>10 DEF RemoveHook
  <2>4. UnhookRecord
    BY <1>10 DEF RemoveHook
  <2> QED
    BY <1>3, <2>1, <2>2, <2>3, <2>4
<1>11. ASSUME NEW l \in Listeners, ReleaseEnds(l) PROVE OtherTypes'
  BY <1>11 DEF ReleaseEnds, ownerVars, HandleStates
<1>12. ASSUME NEW o \in Owners, Bump(o) \/ CloseAdmission(o) PROVE OtherTypes'
  BY <1>12 DEF Bump, CloseAdmission, apiVars
<1>13. ASSUME NEW o \in Owners, Invalidate(o) PROVE OtherTypes'
  BY <1>13 DEF Invalidate, ownerVars, apiVars
<1>14. ASSUME NEW o \in Owners, Retire(o) \/ RetireImage(o) PROVE OtherTypes'
  BY <1>14 DEF Retire, RetireImage, ownerVars, apiVars
<1>15. ASSUME NEW o \in Owners, Quiesce(o) PROVE OtherTypes'
  BY <1>15 DEF Quiesce, apiVars
<1>16. CASE ResetHooks
  BY <1>3, <1>16 DEF ResetHooks, ownerVars, apiVars
<1>17. CASE \E t \in Threads : BeginInvocation(t) \/ Advance(t)
  BY <1>17 DEF BeginInvocation, Advance, Filter, SetupFails, EnterDone, LeaveDone,
     GiveBack, GaveBack, InvocationExited, ownerVars, apiVars
<1> QED
  BY <1>1, <1>2, <1>4, <1>5, <1>6, <1>7, <1>8, <1>9, <1>10, <1>11, <1>12, <1>13, <1>14, <1>15,
     <1>16, <1>17 DEF Next, ApiStep

-----------------------------------------------------------------------------
(* The theorems                                                            *)

(* The initial state satisfies the invariant.                              *)
LEMMA InitListeners == Init => ListenersInv
<1> SUFFICES ASSUME Init PROVE ListenersInv
  OBVIOUS
<1> USE DEF Init
<1>1. OtherTypes
  BY DEF OtherTypes, HandleStates, None
<1>2. <<>> \in Seq(Listeners) /\ ToSet(<<>>) = {}
  BY DEF ToSet
<1>3. FrameTypes
  BY <1>2 DEF FrameTypes, Phases
<1>4. ChainInv
  BY <1>2 DEF ChainInv, Ordered
<1>5. \A o \in Owners : Holding(o) = {}
  BY DEF Holding
<1>6. LeaseInv
  BY <1>5, FS_EmptySet DEF LeaseInv
<1>7. NeedInv
  BY DEF NeedInv
<1>8. {t \in Threads : phase[t] # "out"} = {}
  OBVIOUS
<1>9. \A l \in Listeners : {t \in Threads : Names(t, l)} = {}
  BY <1>2 DEF Names
<1>10. FrameInv
  BY <1>8, <1>9, FS_EmptySet DEF FrameInv, SnapshotExact
<1>11. HandleInv
  BY ListenersAssumption DEF HandleInv
<1>12. LeaseReturned /\ DeadHookHasNoListener /\ QuiescedStaysQuiet
  BY DEF LeaseReturned, DeadHookHasNoListener, QuiescedStaysQuiet
<1> QED
  BY <1>1, <1>3, <1>4, <1>6, <1>7, <1>10, <1>11, <1>12 DEF ListenersInv

(* The chain, the leases, the frames and the handles of one hook agree in  *)
(* every reachable state (hook_registry.cpp, callback_dispatch.cpp).       *)
THEOREM ListenersHold == Spec => []ListenersInv
<1>1. Init => ListenersInv
  BY InitListeners
<1>2. ListenersInv /\ [Next]_vars => ListenersInv'
  BY OthersKept, ChainKept, NeedKept, FrameKept, HandleKept, ReturnedKept, DeadKept, QuietKept
     DEF ListenersInv
<1> QED
  BY <1>1, <1>2, PTL DEF Spec

(* A frame that names a listener keeps its adapter's lease.                *)
LEMMA NamedHasLease ==
  ASSUME ListenersInv, NEW t \in Threads, NEW l \in Listeners, Names(t, l)
  PROVE  leases[OwnerOf[l]] > 0
<1> DEFINE o == OwnerOf[l]
<1>1. o \in Owners
  BY ListenersAssumption
<1>2. t \in Naming(l) /\ IsFiniteSet(Naming(l)) /\ in_flight[l] = Cardinality(Naming(l))
  BY FrameSetsFinite DEF ListenersInv, FrameInv, SnapshotExact, Naming
<1>3. in_flight[l] # 0
  BY <1>2, FS_EmptySet
<1>4. l \in Holding(o)
  BY <1>3 DEF ListenersInv, NeedInv, Holding
<1>5. IsFiniteSet(Holding(o))
  <2>1. Holding(o) \in SUBSET Listeners
    BY DEF Holding
  <2> QED
    BY <2>1, FS_Subset, ListenersAssumption
<1>6. Cardinality(Holding(o)) # 0
  BY <1>4, <1>5, FS_EmptySet
<1>7. leases[o] \in Nat /\ leases[o] = Cardinality(Holding(o))
  BY <1>1 DEF ListenersInv, LeaseInv
<1> QED
  BY <1>6, <1>7

(* The types, and what the chain says, are parts of the invariant.         *)
LEMMA InvType == ListenersInv => TypeOK
<1> SUFFICES ASSUME ListenersInv PROVE TypeOK
  OBVIOUS
<1>1. ASSUME NEW i \in DOMAIN chain, NEW j \in DOMAIN chain, i < j
      PROVE  chain[i] # chain[j] /\ Priority[chain[i]] >= Priority[chain[j]]
  BY <1>1 DEF ListenersInv, ChainInv, Ordered, Order
<1> QED
  BY <1>1 DEF TypeOK, ListenersInv, OtherTypes, FrameTypes, ChainInv, LeaseInv

(* Each listener's in_flight counts the frames that name it, each adapter  *)
(* that a frame needs is kept by a lease, and every lease is given back    *)
(* (BeginInvocation, ClearEnteredListeners, vm_adapter_retained).          *)
THEOREM ListenerCountsAgree == Spec => []CountsAgree
<1>1. ListenersInv => CountsAgree
  BY InvType, NamedHasLease
     DEF CountsAgree, ListenersInv, FrameInv, AdapterOutlivesFrames
<1> QED
  BY <1>1, ListenersHold, PTL

(* AddCallbackListener never leaves a subscription on a hook that is being *)
(* taken down.                                                             *)
THEOREM DeadHookStaysEmpty == Spec => []DeadHookHasNoListener
<1>1. ListenersInv => DeadHookHasNoListener
  BY DEF ListenersInv
<1> QED
  BY <1>1, ListenersHold, PTL

(* QuiesceVmAdapterHooks leaves no listener of its adapter active, and no  *)
(* add that had passed the admission check brings one back.                *)
THEOREM QuiescedAdapterQuiet == Spec => []QuiescedStaysQuiet
<1>1. ListenersInv => QuiescedStaysQuiet
  BY DEF ListenersInv
<1> QED
  BY <1>1, ListenersHold, PTL

(* dartplant_release_listener deletes a listener that no frame names, that *)
(* is not in the chain, and that holds no lease.                           *)
THEOREM ReleasedListenerIdle == Spec => []ReleasedIsIdle
<1>1. ListenersInv => ReleasedIsIdle
  <2> SUFFICES ASSUME ListenersInv, NEW l \in Listeners, handle[l] \in {"released", "dispose"}
               PROVE  in_flight[l] = 0 /\ l \notin ToSet(chain) /\ ~retained[l]
    BY DEF ReleasedIsIdle
  <2>1. in_flight[l] = 0 /\ ~retained[l] /\ ~active[l]
    BY DEF ListenersInv, HandleInv, NeedInv
  <2> QED
    BY <2>1 DEF ListenersInv, ChainInv
<1> QED
  BY <1>1, ListenersHold, PTL
=============================================================================
