----------------------- MODULE ArtifactLifecycleProofs -----------------------
(***************************************************************************)
(* For any workers, root slots, leases, depth of calls and number of       *)
(* invalidations, and one host at a time in the artifact functions: what   *)
(* is retired is idle, what was admitted is served, and a proof that is    *)
(* served is current.                                                      *)
(***************************************************************************)
EXTENDS ArtifactLifecycle, SequenceTheorems, TLAPS

(* With two hosts at a time in the artifact functions nothing below holds. *)
HostsSerialised == \A g, h \in Hosts : g = h

-----------------------------------------------------------------------------
(* Root slots and leases belong to frames: the weights of the frames of a  *)
(* stack q add up to n, where sums[i] is what the first i weigh.           *)
AddsUp(q, weight, n) ==
  \E sums \in [0 .. Len(q) -> Nat] :
    /\ sums[0] = 0
    /\ \A i \in 1 .. Len(q) : sums[i] = sums[i - 1] + weight[q[i]]
    /\ n = sums[Len(q)]

Weights == [0 .. RootSlots -> Nat]

SlotsOf == [n \in 0 .. RootSlots |-> n]
LeasesOf == [n \in 0 .. RootSlots |-> IF n > 0 THEN 1 ELSE 0]

HandleSlots == IF handle = "strong" THEN 1 ELSE 0

RootsInv ==
  /\ AddsUp(frames, SlotsOf, roots - HandleSlots)
  /\ AddsUp(frames, LeasesOf, leases)

Typed ==
  /\ owner \in Threads \cup {None} /\ isolate \in Workers \cup {None}
  /\ leases \in 0 .. RootLeases /\ roots \in 0 .. RootSlots
  /\ transitions \in 0 .. 1 /\ entered \in 0 .. 1
  /\ handle \in {"none", "strong", "weak"}
  /\ generation \in 1 .. MaxGeneration /\ core \in 0 .. generation
  /\ listener \in {"none", "active", "removed"}
  /\ frames \in Seq(0 .. RootSlots)
  /\ mutator \in {"out", "generated", "ffi", "native"} \cup Stubs
  /\ host \in [Hosts -> HostSteps]
  /\ state \in {"live", "destroyed", "trapped"}

Flags ==
  /\ admission \in BOOLEAN /\ observing \in BOOLEAN /\ valid \in BOOLEAN
  /\ quiescing \in BOOLEAN /\ transition \in BOOLEAN /\ mapped \in BOOLEAN
  /\ retired \in BOOLEAN /\ poisoned \in BOOLEAN

(* A transition is between its two stubs; it belongs to a frame, and the   *)
(* frame to a subscription.                                                *)
InCallback == mutator \in {"entering", "native", "leaving"}

CallsInv ==
  /\ frames # <<>> => listener # "none"
  /\ transitions = IF mutator \in {"native", "leaving"} THEN 1 ELSE 0
  /\ InCallback => frames # <<>>

(* Nothing of the adapter is in use, and without admission that stays so.  *)
Unused == Idle /\ frames = <<>> /\ ~InCallback /\ roots = 0

ClosedInv ==
  /\ \A h \in Hosts :
       /\ host[h] \in {"closed", "poisoned", "retire swept", "checked", "retiring"} => ~admission
       /\ host[h] \in {"closed", "retire", "retire swept", "checked"}
            => generation < MaxGeneration
       /\ host[h] \in {"checked", "retiring"} => Unused
       /\ host[h] = "retiring" => ~valid
  /\ retired => ~admission /\ Unused /\ ~valid
  /\ state = "destroyed" => Unused

(* Only a retired artifact is unmapped; the stubs and an observation keep  *)
(* it valid, and a callback its transition, unless a poison has come.      *)
ValidInv ==
  /\ ~mapped => retired
  /\ mutator \in Stubs \/ observing => valid
  /\ InCallback /\ ~poisoned => valid /\ transition

(* The core has old proofs only until the host lets it forget them.        *)
CoreInv ==
  core \in {0, generation} \/ \E h \in Hosts : host[h] \in {"poisoned", "retiring"}

ArtifactInv ==
  /\ Typed /\ Flags /\ RootsInv /\ CallsInv /\ ClosedInv /\ ValidInv /\ CoreInv

-----------------------------------------------------------------------------
(* Sums over a stack                                                       *)

(* No frame weighs anything.                                               *)
LEMMA EmptySum ==
  ASSUME NEW weight PROVE \A n : AddsUp(<<>>, weight, n) <=> n = 0
<1>1. AddsUp(<<>>, weight, 0)
  <2> DEFINE sums == [i \in 0 .. 0 |-> 0]
  <2>1. sums \in [0 .. Len(<<>>) -> Nat] /\ sums[0] = 0 /\ sums[Len(<<>>)] = 0
    OBVIOUS
  <2>2. \A i \in 1 .. Len(<<>>) : sums[i] = sums[i - 1] + weight[<<>>[i]]
    OBVIOUS
  <2> QED
    BY <2>1, <2>2 DEF AddsUp
<1>2. ASSUME NEW n, AddsUp(<<>>, weight, n) PROVE n = 0
  BY <1>2 DEF AddsUp
<1> QED
  BY <1>1, <1>2

(* The last frame of a stack.                                              *)
LEMMA LastFrame ==
  ASSUME NEW q \in Seq(0 .. RootSlots), q # <<>>
  PROVE  Len(q) \in Nat \ {0} /\ Len(q) \in 1 .. Len(q) /\ q[Len(q)] \in 0 .. RootSlots
<1>1. Len(q) \in Nat \ {0}
  BY EmptySeq
<1>2. Len(q) \in 1 .. Len(q)
  BY <1>1
<1> QED
  BY <1>1, <1>2, ElementOfSeq

(* A sum is a natural number.                                              *)
LEMMA SumIsNatural ==
  ASSUME NEW q \in Seq(0 .. RootSlots), NEW weight, NEW n, AddsUp(q, weight, n)
  PROVE  n \in Nat
BY LenProperties DEF AddsUp

(* A new frame adds its weight.                                            *)
LEMMA PushSum ==
  ASSUME NEW q \in Seq(0 .. RootSlots), NEW weight \in Weights, NEW n \in Nat,
         NEW x \in 0 .. RootSlots, AddsUp(q, weight, n)
  PROVE  AddsUp(Append(q, x), weight, n + weight[x])
<1>1. PICK sums \in [0 .. Len(q) -> Nat] :
        /\ sums[0] = 0 /\ n = sums[Len(q)]
        /\ \A i \in 1 .. Len(q) : sums[i] = sums[i - 1] + weight[q[i]]
  BY DEF AddsUp
<1> DEFINE p == Append(q, x)
           more == [i \in 0 .. Len(p) |-> IF i = Len(p) THEN n + weight[x] ELSE sums[i]]
<1>2. /\ Len(q) \in Nat /\ Len(p) = Len(q) + 1 /\ p[Len(p)] = x
      /\ \A i \in 1 .. Len(q) : p[i] = q[i]
  OBVIOUS
<1>3. weight[x] \in Nat
  BY DEF Weights
<1>4. more \in [0 .. Len(p) -> Nat]
  BY <1>1, <1>2, <1>3
<1>5. ASSUME NEW i \in 1 .. Len(p) PROVE more[i] = more[i - 1] + weight[p[i]]
  <2>1. CASE i = Len(p)
    BY <1>1, <1>2, <1>3, <2>1
  <2>2. CASE i # Len(p)
    <3>1. i \in 1 .. Len(q) /\ i - 1 \in 0 .. Len(p) /\ i - 1 # Len(p)
      BY <1>2, <2>2
    <3>2. more[i] = sums[i] /\ more[i - 1] = sums[i - 1]
      BY <1>2, <2>2, <3>1
    <3> QED
      BY <1>1, <1>2, <3>1, <3>2
  <2> QED
    BY <2>1, <2>2
<1>6. more[0] = 0 /\ more[Len(p)] = n + weight[x]
  BY <1>1, <1>2
<1> HIDE DEF more, p
<1> QED
  BY <1>4, <1>5, <1>6 DEF AddsUp, p

(* Without its last frame a stack weighs that much less.                   *)
LEMMA PopSum ==
  ASSUME NEW q \in Seq(0 .. RootSlots), q # <<>>, NEW weight \in Weights, NEW n \in Nat,
         AddsUp(q, weight, n)
  PROVE  /\ AddsUp(SubSeq(q, 1, Len(q) - 1), weight, n - weight[q[Len(q)]])
         /\ n >= weight[q[Len(q)]]
<1>1. PICK sums \in [0 .. Len(q) -> Nat] :
        /\ sums[0] = 0 /\ n = sums[Len(q)]
        /\ \A i \in 1 .. Len(q) : sums[i] = sums[i - 1] + weight[q[i]]
  BY DEF AddsUp
<1>0. Len(q) \in Nat \ {0} /\ Len(q) \in 1 .. Len(q) /\ q[Len(q)] \in 0 .. RootSlots
  BY LastFrame
<1> DEFINE p == SubSeq(q, 1, Len(q) - 1)
           less == [i \in 0 .. Len(p) |-> sums[i]]
<1>2. /\ Len(q) \in Nat \ {0} /\ Len(p) = Len(q) - 1
      /\ \A i \in 1 .. Len(p) : p[i] = q[i]
  OBVIOUS
<1>3. less \in [0 .. Len(p) -> Nat] /\ less[0] = 0
  BY <1>1, <1>2
<1>4. \A i \in 1 .. Len(p) : less[i] = less[i - 1] + weight[p[i]]
  BY <1>1, <1>2
<1>5. less[Len(p)] = n - weight[q[Len(q)]] /\ n >= weight[q[Len(q)]]
  <2>1. q[Len(q)] \in 0 .. RootSlots
    BY <1>0
  <2>2. n = sums[Len(q) - 1] + weight[q[Len(q)]] /\ sums[Len(q) - 1] \in Nat
    <3>1. sums[Len(q)] = sums[Len(q) - 1] + weight[q[Len(q)]]
      BY <1>0, <1>1
    <3>2. Len(q) - 1 \in 0 .. Len(q)
      BY <1>0
    <3> QED
      BY <1>1, <3>1, <3>2
  <2> QED
    BY <1>2, <2>1, <2>2 DEF Weights
<1> HIDE DEF less, p
<1> QED
  BY <1>3, <1>4, <1>5 DEF AddsUp, p

(* A last frame that changes its weight changes the sum by as much.        *)
LEMMA TopSum ==
  ASSUME NEW q \in Seq(0 .. RootSlots), q # <<>>, NEW weight \in Weights, NEW n \in Nat,
         NEW x \in 0 .. RootSlots, AddsUp(q, weight, n)
  PROVE  AddsUp([q EXCEPT ![Len(q)] = x], weight, n - weight[q[Len(q)]] + weight[x])
<1>1. PICK sums \in [0 .. Len(q) -> Nat] :
        /\ sums[0] = 0 /\ n = sums[Len(q)]
        /\ \A i \in 1 .. Len(q) : sums[i] = sums[i - 1] + weight[q[i]]
  BY DEF AddsUp
<1> DEFINE p == [q EXCEPT ![Len(q)] = x]
           m == n - weight[q[Len(q)]] + weight[x]
           other == [i \in 0 .. Len(p) |-> IF i = Len(q) THEN m ELSE sums[i]]
<1>2. Len(q) \in Nat \ {0} /\ Len(q) \in 1 .. Len(q) /\ q[Len(q)] \in 0 .. RootSlots
  BY LastFrame
<1>3. Len(p) = Len(q) /\ p[Len(q)] = x /\ \A i \in 1 .. Len(q) - 1 : p[i] = q[i]
  BY <1>2, ExceptSeq
<1>4. weight[x] \in Nat /\ weight[q[Len(q)]] \in Nat /\ m \in Nat
  <2>1. n = sums[Len(q) - 1] + weight[q[Len(q)]] /\ sums[Len(q) - 1] \in Nat
    BY <1>1, <1>2
  <2> QED
    BY <1>2, <2>1 DEF Weights
<1> HIDE DEF p
<1>5. other \in [0 .. Len(p) -> Nat] /\ other[0] = 0 /\ other[Len(p)] = m
  BY <1>1, <1>2, <1>3, <1>4
<1>6. ASSUME NEW i \in 1 .. Len(p) PROVE other[i] = other[i - 1] + weight[p[i]]
  <2>1. CASE i = Len(q)
    <3>1. n = sums[i - 1] + weight[q[i]] /\ sums[i - 1] \in Nat
      BY <1>1, <1>2, <2>1
    <3>2. i \in 0 .. Len(p) /\ i - 1 \in 0 .. Len(p) /\ i - 1 # Len(q)
      BY <1>2, <1>3, <2>1
    <3>3. p[i] = x /\ other[i] = m /\ other[i - 1] = sums[i - 1]
      BY <1>3, <2>1, <3>2
    <3>4. m = sums[i - 1] + weight[x]
      BY <1>4, <2>1, <3>1
    <3> HIDE DEF other, m
    <3> QED
      BY <3>3, <3>4
  <2>2. CASE i # Len(q)
    <3>1. i \in 1 .. Len(q) - 1 /\ i - 1 \in 0 .. Len(p) /\ i - 1 # Len(q)
      BY <1>2, <1>3, <2>2
    <3>2. other[i] = sums[i] /\ other[i - 1] = sums[i - 1]
      BY <1>3, <2>2, <3>1
    <3> QED
      BY <1>1, <1>3, <3>1, <3>2
  <2> QED
    BY <2>1, <2>2
<1> HIDE DEF other, m
<1>7. AddsUp(p, weight, m)
  BY <1>5, <1>6 DEF AddsUp
<1> QED
  BY <1>7 DEF p, m

(* What a quantifier over one host is about.                               *)
LEMMA OneHost ==
  ASSUME HostsSerialised, NEW h \in Hosts, NEW step, Typed, host' = [host EXCEPT ![h] = step]
  PROVE  host'[h] = step /\ \A g \in Hosts : g = h
BY DEF HostsSerialised, Typed

(* An adapter that is idle is unused: no frame holds a root.               *)
LEMMA IdleIsUnused == ArtifactInv /\ Idle => Unused
<1> SUFFICES ASSUME ArtifactInv, Idle PROVE Unused
  OBVIOUS
<1>1. frames = <<>> /\ ~InCallback
  BY DEF ArtifactInv, CallsInv, Idle
<1>2. AddsUp(<<>>, SlotsOf, roots - HandleSlots)
  BY <1>1 DEF ArtifactInv, RootsInv
<1>3. roots - HandleSlots = 0 /\ HandleSlots = 0
  <2>1. HandleSlots = 0
    BY DEF Idle, HandleSlots
  <2> QED
    BY <1>2, <2>1, EmptySum
<1>4. roots = 0
  BY <1>3 DEF ArtifactInv, Typed
<1> QED
  BY <1>1, <1>4 DEF Unused

(* Every step keeps the flags.                                             *)
LEMMA FlagsKept ==
  ASSUME HostsSerialised PROVE ArtifactInv /\ [Next]_vars => Flags'
<1> SUFFICES ASSUME ArtifactInv, [Next]_vars PROVE Flags'
  OBVIOUS
<1>a. Flags
  BY DEF ArtifactInv
<1> USE DEF bridge, binding, calls, rest
<1>1. CASE \/ Schedule \/ Unschedule \/ FfiCall \/ FfiReturn
  BY <1>a, <1>1 DEF Schedule, Unschedule, FfiCall, FfiReturn, Flags
<1>2. CASE EndInvocation
  BY <1>a, <1>2 DEF EndInvocation, Flags, InvalidateBinding,
     AdmissionAfterSweep
<1>3. CASE \/ BeginInvocation
           \/ \E n \in 1 .. RootSlots : Pin(n)
           \/ Unpin \/ Enter \/ Entered \/ Leave \/ Left
  <2>1. CASE BeginInvocation
    BY <1>a, <2>1 DEF BeginInvocation, Flags
  <2>2. ASSUME NEW n \in 1 .. RootSlots, Pin(n) PROVE Flags'
    BY <1>a, <2>2 DEF Pin, Flags
  <2>3. CASE Unpin
    BY <1>a, <2>3 DEF Unpin, Flags
  <2>4. CASE Enter
    BY <1>a, <2>4 DEF Enter, Flags
  <2>5. CASE Entered
    BY <1>a, <2>5 DEF Entered, Flags
  <2>6. CASE Leave
    BY <1>a, <2>6 DEF Leave, Flags
  <2>7. CASE Left
    BY <1>a, <2>7 DEF Left, Flags
  <2> QED
    BY <1>3, <2>1, <2>2, <2>3, <2>4, <2>5, <2>6, <2>7
<1>4. CASE BeginLiveHeapObservation
  BY <1>a, <1>4 DEF BeginLiveHeapObservation, Flags, InvalidateBinding,
     AdmissionAfterSweep
<1>5. CASE \/ Subscribe \/ Unsubscribe \/ ReleaseObject \/ Prove
           \/ EndLiveHeapObservation
           \/ \E w \in Workers : EnterIsolate(w)
           \/ \E w \in Workers : LeaveIsolate(w)
           \/ \E t \in Threads : EnterScope(t)
           \/ \E t \in Threads : LeaveScope(t)
           \/ \E t \in Threads, s \in {"strong", "weak"} : RetainObject(t, s)
  <2>1. CASE Subscribe \/ Unsubscribe \/ ReleaseObject
    BY <1>a, <2>1 DEF Subscribe, Unsubscribe, ReleaseObject, Flags
  <2>2. CASE Prove
    BY <1>a, <2>2 DEF Prove, Flags
  <2>3. CASE EndLiveHeapObservation
    BY <1>a, <2>3 DEF EndLiveHeapObservation, Flags
  <2>4. ASSUME NEW w \in Workers, EnterIsolate(w) PROVE Flags'
    BY <1>a, <2>4 DEF EnterIsolate, Flags
  <2>5. ASSUME NEW w \in Workers, LeaveIsolate(w) PROVE Flags'
    BY <1>a, <2>5 DEF LeaveIsolate, Flags
  <2>6. ASSUME NEW u \in Threads, EnterScope(u) PROVE Flags'
    BY <1>a, <2>6 DEF EnterScope, Flags
  <2>7. ASSUME NEW u \in Threads, LeaveScope(u) PROVE Flags'
    BY <1>a, <2>7 DEF LeaveScope, Flags
  <2>8. ASSUME NEW u \in Threads, NEW s \in {"strong", "weak"}, RetainObject(u, s) PROVE Flags'
    BY <1>a, <2>8 DEF RetainObject, Flags
  <2> QED
    BY <1>5, <2>1, <2>2, <2>3, <2>4, <2>5, <2>6, <2>7, <2>8
<1>6. ASSUME NEW h \in Hosts, Poison(h) PROVE Flags'
  BY <1>a, <1>6 DEF Poison, Flags, InvalidateBinding, AdmissionAfterSweep
<1>7. ASSUME NEW h \in Hosts, ForgetProofs(h) PROVE Flags'
  BY <1>a, <1>7 DEF ForgetProofs, Flags, InvalidateBinding, AdmissionAfterSweep
<1>8. ASSUME NEW h \in Hosts, SweepHooks(h) PROVE Flags'
  BY <1>a, <1>8 DEF SweepHooks, Flags, InvalidateBinding, AdmissionAfterSweep
<1>9. ASSUME NEW h \in Hosts, Retire(h) PROVE Flags'
  BY <1>a, <1>9 DEF Retire, Flags, InvalidateBinding, AdmissionAfterSweep
<1>10. ASSUME NEW h \in Hosts, CloseForInvalidate(h) PROVE Flags'
  BY <1>a, <1>10 DEF CloseForInvalidate, Flags, InvalidateBinding,
     AdmissionAfterSweep
<1>11. ASSUME NEW h \in Hosts, Revalidate(h) PROVE Flags'
  BY <1>a, <1>11 DEF Revalidate, Flags, InvalidateBinding, AdmissionAfterSweep
<1>12. CASE \/ \E h \in Hosts : CheckQuiescent(h)
            \/ \E h \in Hosts, operation \in {"quiesce", "retire"} : StartQuiescing(h, operation)
  <2>1. ASSUME NEW h \in Hosts, CheckQuiescent(h) PROVE Flags'
    BY <1>a, <2>1 DEF CheckQuiescent, Flags
  <2>2. ASSUME NEW h \in Hosts, NEW operation \in {"quiesce", "retire"},
               StartQuiescing(h, operation)
        PROVE  Flags'
    BY <1>a, <2>2 DEF StartQuiescing, Flags
  <2> QED
    BY <1>12, <2>1, <2>2
<1>13. CASE Destroy
  BY <1>a, <1>13 DEF Destroy, Flags, InvalidateBinding, AdmissionAfterSweep
<1>14. CASE Remap
  BY <1>a, <1>14 DEF Remap, Flags, InvalidateBinding, AdmissionAfterSweep
<1>15. CASE UNCHANGED vars
  BY <1>a, <1>15 DEF vars, Flags, InvalidateBinding, AdmissionAfterSweep
<1> QED
  BY <1>1, <1>2, <1>3, <1>4, <1>5, <1>6, <1>7, <1>8, <1>9, <1>10, <1>11,
     <1>12, <1>13, <1>14, <1>15
     DEF Next, Engine, HookedCall, Client, Artifacts, Continue

(* Every step keeps what a call knows.                                     *)
LEMMA CallsKept ==
  ASSUME HostsSerialised PROVE ArtifactInv /\ [Next]_vars => CallsInv'
<1> SUFFICES ASSUME ArtifactInv, [Next]_vars PROVE CallsInv'
  OBVIOUS
<1>a. CallsInv /\ Typed
  BY DEF ArtifactInv
<1> USE DEF bridge, binding, calls, rest
<1>1. CASE \/ Schedule \/ Unschedule \/ FfiCall \/ FfiReturn
  BY <1>a, <1>1 DEF Schedule, Unschedule, FfiCall, FfiReturn, CallsInv, Typed,
     InCallback, Stubs
<1>2. CASE BeginInvocation
  BY <1>a, <1>2 DEF BeginInvocation, CallsInv, Typed, InCallback, Stubs
<1>3. ASSUME NEW n \in 1 .. RootSlots, Pin(n) PROVE CallsInv'
  BY <1>a, <1>3 DEF Pin, CallsInv, Typed, InCallback, WithTop, Stubs
<1>4. CASE Unpin
  BY <1>a, <1>4 DEF Unpin, CallsInv, Typed, InCallback, WithTop, Stubs
<1>5. CASE Entered
  BY <1>a, <1>5 DEF Entered, CallsInv, Typed, InCallback, Stubs
<1>6. CASE Leave
  BY <1>a, <1>6 DEF Leave, CallsInv, Typed, InCallback, Stubs
<1>7. CASE Left
  BY <1>a, <1>7 DEF Left, CallsInv, Typed, InCallback, Stubs
<1>8. CASE EndInvocation
  BY <1>a, <1>8 DEF EndInvocation, CallsInv, Typed, InCallback, Stubs
<1>9. CASE Enter
  BY <1>a, <1>9 DEF Enter, CallsInv, Typed, InCallback, Stubs
<1>10. CASE Unsubscribe
  BY <1>a, <1>10 DEF Unsubscribe, CallsInv, Typed, InCallback, Dropped, Stubs
<1>11. CASE \/ Subscribe \/ ReleaseObject \/ Prove \/ BeginLiveHeapObservation
            \/ EndLiveHeapObservation
            \/ \E w \in Workers : EnterIsolate(w)
            \/ \E w \in Workers : LeaveIsolate(w)
            \/ \E t \in Threads : EnterScope(t)
            \/ \E t \in Threads : LeaveScope(t)
            \/ \E t \in Threads, s \in {"strong", "weak"} : RetainObject(t, s)
  BY <1>a, <1>11 DEF Subscribe, ReleaseObject, Prove,
     BeginLiveHeapObservation, EndLiveHeapObservation, EnterIsolate,
     LeaveIsolate, EnterScope, LeaveScope, RetainObject, CallsInv, Typed,
     InCallback, Stubs
<1>12. ASSUME NEW h \in Hosts, SweepHooks(h) PROVE CallsInv'
  BY <1>a, <1>12 DEF SweepHooks, CallsInv, Typed, InCallback, Dropped, Stubs
<1>13. CASE \/ \E h \in Hosts : Poison(h)
            \/ \E h \in Hosts : ForgetProofs(h)
            \/ \E h \in Hosts : CheckQuiescent(h)
            \/ \E h \in Hosts : Retire(h)
            \/ \E h \in Hosts : CloseForInvalidate(h)
            \/ \E h \in Hosts, operation \in {"quiesce", "retire"} : StartQuiescing(h, operation)
            \/ \E h \in Hosts : Revalidate(h)
  BY <1>a, <1>13 DEF Poison, ForgetProofs, CheckQuiescent, Retire,
     CloseForInvalidate, StartQuiescing, Revalidate, CallsInv, Typed,
     InCallback, InvalidateBinding, Stubs
<1>14. CASE \/ Destroy \/ Remap
  BY <1>a, <1>14 DEF Destroy, Remap, CallsInv, Typed, InCallback, Stubs
<1>15. CASE UNCHANGED vars
  BY <1>a, <1>15 DEF vars, CallsInv, Typed, InCallback, Dropped, WithTop,
     InvalidateBinding, Stubs
<1> QED
  BY <1>1, <1>2, <1>3, <1>4, <1>5, <1>6, <1>7, <1>8, <1>9, <1>10, <1>11,
     <1>12, <1>13, <1>14, <1>15
     DEF Next, Engine, HookedCall, Client, Artifacts, Continue

(* Every step keeps what the core knows.                                   *)
LEMMA CoreKept ==
  ASSUME HostsSerialised PROVE ArtifactInv /\ [Next]_vars => CoreInv'
<1> SUFFICES ASSUME ArtifactInv, [Next]_vars PROVE CoreInv'
  OBVIOUS
<1>a. CoreInv /\ Typed
  BY DEF ArtifactInv
<1> USE DEF bridge, binding, calls, rest
<1>1. CASE \/ Schedule \/ Unschedule \/ FfiCall \/ FfiReturn
  BY HostsSerialised, <1>a, <1>1 DEF Schedule, Unschedule, FfiCall, FfiReturn,
     CoreInv, Typed, HostsSerialised
<1>2. CASE \/ BeginInvocation
           \/ \E n \in 1 .. RootSlots : Pin(n)
           \/ Unpin \/ Enter \/ Entered \/ Leave \/ Left \/ EndInvocation
  BY HostsSerialised, <1>a, <1>2 DEF BeginInvocation, Pin, Unpin, Enter,
     Entered, Leave, Left, EndInvocation, CoreInv, Typed, HostsSerialised
<1>3. CASE Prove
  BY HostsSerialised, <1>a, <1>3 DEF Prove, CoreInv, Typed, HostsSerialised
<1>4. CASE \/ Subscribe \/ Unsubscribe \/ ReleaseObject
           \/ BeginLiveHeapObservation \/ EndLiveHeapObservation
           \/ \E w \in Workers : EnterIsolate(w)
           \/ \E w \in Workers : LeaveIsolate(w)
           \/ \E t \in Threads : EnterScope(t)
           \/ \E t \in Threads : LeaveScope(t)
           \/ \E t \in Threads, s \in {"strong", "weak"} : RetainObject(t, s)
  BY HostsSerialised, <1>a, <1>4 DEF Subscribe, Unsubscribe, ReleaseObject,
     BeginLiveHeapObservation, EndLiveHeapObservation, EnterIsolate,
     LeaveIsolate, EnterScope, LeaveScope, RetainObject, CoreInv, Typed,
     HostsSerialised
<1>5. ASSUME NEW h \in Hosts, Poison(h) PROVE CoreInv'
  BY HostsSerialised, <1>a, <1>5 DEF Poison, CoreInv, Typed, HostsSerialised,
     InvalidateBinding, At, Goto
<1>6. ASSUME NEW h \in Hosts, ForgetProofs(h) PROVE CoreInv'
  BY HostsSerialised, <1>a, <1>6 DEF ForgetProofs, CoreInv, Typed,
     HostsSerialised, At, Goto, Forgotten
<1>7. ASSUME NEW h \in Hosts, SweepHooks(h) PROVE CoreInv'
  BY HostsSerialised, <1>a, <1>7 DEF SweepHooks, CoreInv, Typed,
     HostsSerialised, At, Goto, SweptStep
<1>8. ASSUME NEW h \in Hosts, CheckQuiescent(h) PROVE CoreInv'
  BY HostsSerialised, <1>a, <1>8 DEF CheckQuiescent, CoreInv, Typed,
     HostsSerialised, At, Goto
<1>9. ASSUME NEW h \in Hosts, Retire(h) PROVE CoreInv'
  BY HostsSerialised, <1>a, <1>9 DEF Retire, CoreInv, Typed, HostsSerialised,
     InvalidateBinding, At, Goto
<1>10. ASSUME NEW h \in Hosts, CloseForInvalidate(h) PROVE CoreInv'
  BY HostsSerialised, <1>a, <1>10 DEF CloseForInvalidate, CoreInv, Typed,
     HostsSerialised, At, Goto
<1>11. ASSUME NEW h \in Hosts, NEW operation \in {"quiesce", "retire"}, StartQuiescing(h, operation)
       PROVE  CoreInv'
  BY HostsSerialised, <1>a, <1>11 DEF StartQuiescing, CoreInv, Typed,
     HostsSerialised, At, Goto
<1>12. ASSUME NEW h \in Hosts, Revalidate(h) PROVE CoreInv'
  BY HostsSerialised, <1>a, <1>12 DEF Revalidate, CoreInv, Typed,
     HostsSerialised, At
<1>13. CASE \/ Destroy \/ Remap
  BY HostsSerialised, <1>a, <1>13 DEF Destroy, Remap, CoreInv, Typed,
     HostsSerialised, At
<1>14. CASE UNCHANGED vars
  BY HostsSerialised, <1>a, <1>14 DEF vars, CoreInv, Typed, HostsSerialised,
     InvalidateBinding, At, Goto, Forgotten, SweptStep
<1> QED
  BY <1>1, <1>2, <1>3, <1>4, <1>5, <1>6, <1>7, <1>8, <1>9, <1>10, <1>11,
     <1>12, <1>13, <1>14
     DEF Next, Engine, HookedCall, Client, Artifacts, Continue

(* Every step keeps the artifact valid while it is in use.                 *)
LEMMA ValidKept ==
  ASSUME HostsSerialised PROVE ArtifactInv /\ [Next]_vars => ValidInv'
<1> SUFFICES ASSUME ArtifactInv, [Next]_vars PROVE ValidInv'
  OBVIOUS
<1>a. ValidInv
  BY DEF ArtifactInv
<1>b. ClosedInv /\ CallsInv /\ Typed
  BY DEF ArtifactInv
<1> USE DEF bridge, binding, calls, rest
<1>1. CASE \/ Schedule \/ Unschedule \/ FfiCall \/ FfiReturn
  BY <1>a, <1>1 DEF Schedule, Unschedule, FfiCall, FfiReturn, ValidInv,
     InCallback, Stubs
<1>2. CASE Enter
  BY <1>a, <1>b, <1>2 DEF Enter, ValidInv, ClosedInv, CallsInv, Unused, Idle,
     InCallback, Typed, ArtifactMutexFree, Stubs
<1>3. CASE Leave
  BY <1>a, <1>b, <1>3 DEF Leave, ValidInv, ClosedInv, CallsInv, Unused, Idle,
     InCallback, Typed, Stubs, MayLeave
<1>4. CASE EndInvocation
  BY <1>a, <1>b, <1>4 DEF EndInvocation, ValidInv, ClosedInv, CallsInv,
     Unused, Idle, InCallback, Typed, Stubs
<1>5. CASE \/ BeginInvocation
           \/ \E n \in 1 .. RootSlots : Pin(n)
           \/ Unpin \/ Entered \/ Left
  BY <1>a, <1>5 DEF BeginInvocation, Pin, Unpin, Entered, Left, ValidInv,
     InCallback, Stubs
<1>6. CASE BeginLiveHeapObservation
  BY <1>a, <1>b, <1>6 DEF BeginLiveHeapObservation, ValidInv, ClosedInv,
     CallsInv, Unused, Idle, InCallback, Typed, Stubs
<1>7. CASE \/ Subscribe \/ Unsubscribe \/ ReleaseObject \/ Prove
           \/ EndLiveHeapObservation
           \/ \E w \in Workers : EnterIsolate(w)
           \/ \E w \in Workers : LeaveIsolate(w)
           \/ \E t \in Threads : EnterScope(t)
           \/ \E t \in Threads : LeaveScope(t)
           \/ \E t \in Threads, s \in {"strong", "weak"} : RetainObject(t, s)
  BY <1>a, <1>7 DEF Subscribe, Unsubscribe, ReleaseObject, Prove,
     EndLiveHeapObservation, EnterIsolate, LeaveIsolate, EnterScope,
     LeaveScope, RetainObject, ValidInv, InCallback, Stubs
<1>8. ASSUME NEW h \in Hosts, Poison(h) PROVE ValidInv'
  <2>1. mutator \notin Stubs /\ ~observing /\ UNCHANGED <<mutator, observing, mapped, retired>>
    BY <1>8 DEF Poison, MayPoison, ArtifactMutexFree
  <2>2. poisoned' = (frames # <<>>)
    BY <1>8 DEF Poison
  <2>3. InCallback' => poisoned'
    BY <1>b, <2>1, <2>2 DEF CallsInv, InCallback
  <2> QED
    BY <1>a, <2>1, <2>3 DEF ValidInv
<1>9. ASSUME NEW h \in Hosts, ForgetProofs(h) PROVE ValidInv'
  <2>1. UNCHANGED <<mutator, observing, mapped, valid, transition, poisoned>>
    BY <1>9 DEF ForgetProofs
  <2>2. retired => retired'
    BY <1>9 DEF ForgetProofs
  <2> QED
    BY <1>a, <2>1, <2>2 DEF ValidInv, InCallback
<1>10. ASSUME NEW h \in Hosts, SweepHooks(h) PROVE ValidInv'
  BY <1>a, <1>b, <1>10 DEF SweepHooks, ValidInv, ClosedInv, CallsInv, Unused,
     Idle, InCallback, Typed, Stubs, At
<1>11. ASSUME NEW h \in Hosts, CheckQuiescent(h) PROVE ValidInv'
  BY <1>a, <1>b, <1>11 DEF CheckQuiescent, ValidInv, ClosedInv, CallsInv,
     Unused, Idle, InCallback, Typed, Stubs, At
<1>12. ASSUME NEW h \in Hosts, Retire(h) PROVE ValidInv'
  BY <1>a, <1>b, <1>12 DEF Retire, ValidInv, ClosedInv, CallsInv, Unused,
     Idle, InCallback, Typed, InvalidateBinding, ArtifactMutexFree, Stubs, At
<1>13. ASSUME NEW h \in Hosts, CloseForInvalidate(h) PROVE ValidInv'
  BY <1>a, <1>b, <1>13 DEF CloseForInvalidate, ValidInv, ClosedInv, CallsInv,
     Unused, Idle, InCallback, Typed, Stubs, At
<1>14. ASSUME NEW h \in Hosts, NEW operation \in {"quiesce", "retire"}, StartQuiescing(h, operation)
       PROVE  ValidInv'
  BY <1>a, <1>b, <1>14 DEF StartQuiescing, ValidInv, ClosedInv, CallsInv,
     Unused, Idle, InCallback, Typed, ArtifactMutexFree, Stubs, At
<1>15. ASSUME NEW h \in Hosts, Revalidate(h) PROVE ValidInv'
  BY <1>a, <1>b, <1>15 DEF Revalidate, ValidInv, ClosedInv, CallsInv, Unused,
     Idle, InCallback, Typed, ArtifactMutexFree, Stubs, At
<1>16. CASE Remap
  BY <1>a, <1>b, <1>16 DEF Remap, ValidInv, ClosedInv, CallsInv, Unused, Idle,
     InCallback, Typed, Stubs
<1>17. CASE Destroy
  BY <1>a, <1>17 DEF Destroy, ValidInv, InCallback, Stubs
<1>18. CASE UNCHANGED vars
  BY <1>a, <1>18 DEF vars, ValidInv, InCallback, Stubs
<1> QED
  BY <1>1, <1>2, <1>3, <1>4, <1>5, <1>6, <1>7, <1>8, <1>9, <1>10, <1>11,
     <1>12, <1>13, <1>14, <1>15, <1>16, <1>17, <1>18
     DEF Next, Engine, HookedCall, Client, Artifacts, Continue

(* Every step keeps what is closed closed.                                 *)
LEMMA ClosedKept ==
  ASSUME HostsSerialised PROVE ArtifactInv /\ [Next]_vars => ClosedInv'
<1> SUFFICES ASSUME ArtifactInv, [Next]_vars PROVE ClosedInv'
  OBVIOUS
<1>a. ClosedInv /\ CallsInv /\ Typed
  BY DEF ArtifactInv
<1> USE DEF bridge, binding, calls, rest
<1>1. CASE Schedule
  <2>1. /\ UNCHANGED <<bridge, binding, listener, frames, host, rest>>
        /\ Live /\ ~InCallback'
    BY <1>1 DEF Schedule, InCallback
  <2> QED
    BY <1>a, <2>1 DEF ClosedInv, Unused, Idle, Live
<1>2. CASE Unschedule
  <2>1. /\ UNCHANGED <<bridge, binding, listener, frames, host, rest>>
        /\ Live /\ ~InCallback'
    BY <1>2 DEF Unschedule, InCallback
  <2> QED
    BY <1>a, <2>1 DEF ClosedInv, Unused, Idle, Live
<1>3. CASE FfiCall
  <2>1. /\ UNCHANGED <<bridge, binding, listener, frames, host, rest>>
        /\ Live /\ ~InCallback'
    BY <1>3 DEF FfiCall, InCallback
  <2> QED
    BY <1>a, <2>1 DEF ClosedInv, Unused, Idle, Live
<1>4. CASE FfiReturn
  <2>1. /\ UNCHANGED <<bridge, binding, listener, frames, host, rest>>
        /\ Live /\ ~InCallback'
    BY <1>4 DEF FfiReturn, InCallback
  <2> QED
    BY <1>a, <2>1 DEF ClosedInv, Unused, Idle, Live
<1>5. CASE BeginInvocation
  BY HostsSerialised, <1>a, <1>5 DEF BeginInvocation, HostsSerialised,
     ClosedInv, CallsInv, Unused, Idle, InCallback, Typed, Stubs, Live
<1>6. ASSUME NEW n \in 1 .. RootSlots, Pin(n) PROVE ClosedInv'
  BY HostsSerialised, <1>a, <1>6 DEF Pin, HostsSerialised, ClosedInv,
     CallsInv, Unused, Idle, InCallback, Typed, Stubs, Live
<1>7. CASE Unpin
  BY HostsSerialised, <1>a, <1>7 DEF Unpin, HostsSerialised, ClosedInv,
     CallsInv, Unused, Idle, InCallback, Typed, Stubs, Live
<1>8. CASE Enter
  BY HostsSerialised, <1>a, <1>8 DEF Enter, HostsSerialised, ClosedInv,
     CallsInv, Unused, Idle, InCallback, Typed, ArtifactMutexFree, Stubs, Live
<1>9. CASE Entered
  BY HostsSerialised, <1>a, <1>9 DEF Entered, HostsSerialised, ClosedInv,
     CallsInv, Unused, Idle, InCallback, Typed, Stubs, Live
<1>10. CASE Leave
  BY HostsSerialised, <1>a, <1>10 DEF Leave, HostsSerialised, ClosedInv,
     CallsInv, Unused, Idle, InCallback, Typed, Stubs, Live
<1>11. CASE Left
  BY HostsSerialised, <1>a, <1>11 DEF Left, HostsSerialised, ClosedInv,
     CallsInv, Unused, Idle, InCallback, Typed, Stubs, Live
<1>12. CASE EndInvocation
  BY HostsSerialised, <1>a, <1>12 DEF EndInvocation, HostsSerialised,
     ClosedInv, CallsInv, Unused, Idle, InCallback, Typed, Stubs, Live
<1>13. CASE Subscribe
  BY HostsSerialised, <1>a, <1>13 DEF Subscribe, HostsSerialised, ClosedInv,
     CallsInv, Unused, Idle, InCallback, Typed, AdapterMutexFree, Stubs, Live
<1>14. CASE Unsubscribe
  BY HostsSerialised, <1>a, <1>14 DEF Unsubscribe, HostsSerialised, ClosedInv,
     CallsInv, Unused, Idle, InCallback, Typed, AdapterMutexFree, Stubs, Live
<1>15. CASE ReleaseObject
  BY HostsSerialised, <1>a, <1>15 DEF ReleaseObject, HostsSerialised,
     ClosedInv, CallsInv, Unused, Idle, InCallback, Typed, AdapterMutexFree,
     Stubs, Live
<1>16. CASE Prove
  BY HostsSerialised, <1>a, <1>16 DEF Prove, HostsSerialised, ClosedInv,
     CallsInv, Unused, Idle, InCallback, Typed, ArtifactMutexFree, Stubs, Live
<1>17. CASE BeginLiveHeapObservation
  BY HostsSerialised, <1>a, <1>17 DEF BeginLiveHeapObservation,
     HostsSerialised, ClosedInv, CallsInv, Unused, Idle, InCallback, Typed,
     Stubs, Live
<1>18. CASE EndLiveHeapObservation
  BY HostsSerialised, <1>a, <1>18 DEF EndLiveHeapObservation, HostsSerialised,
     ClosedInv, CallsInv, Unused, Idle, InCallback, Typed, Stubs, Live
<1>19. ASSUME NEW w \in Workers, EnterIsolate(w) PROVE ClosedInv'
  BY HostsSerialised, <1>a, <1>19 DEF EnterIsolate, HostsSerialised,
     ClosedInv, CallsInv, Unused, Idle, InCallback, Typed, AdapterMutexFree,
     Stubs, Live
<1>20. ASSUME NEW w \in Workers, LeaveIsolate(w) PROVE ClosedInv'
  BY HostsSerialised, <1>a, <1>20 DEF LeaveIsolate, HostsSerialised,
     ClosedInv, CallsInv, Unused, Idle, InCallback, Typed, AdapterMutexFree,
     Stubs, Live
<1>21. ASSUME NEW t \in Threads, EnterScope(t) PROVE ClosedInv'
  BY HostsSerialised, <1>a, <1>21 DEF EnterScope, HostsSerialised, ClosedInv,
     CallsInv, Unused, Idle, InCallback, Typed, AdapterMutexFree, Stubs, Live,
     Admitted, HasIsolate
<1>22. ASSUME NEW t \in Threads, LeaveScope(t) PROVE ClosedInv'
  BY HostsSerialised, <1>a, <1>22 DEF LeaveScope, HostsSerialised, ClosedInv,
     CallsInv, Unused, Idle, InCallback, Typed, AdapterMutexFree, Stubs, Live
<1>23. ASSUME NEW t \in Threads, NEW s \in {"strong", "weak"}, RetainObject(t, s)
       PROVE  ClosedInv'
  BY HostsSerialised, <1>a, <1>23 DEF RetainObject, HostsSerialised,
     ClosedInv, CallsInv, Unused, Idle, InCallback, Typed, AdapterMutexFree,
     Stubs, Live, Admitted
<1>24. ASSUME NEW h \in Hosts, Poison(h) PROVE ClosedInv'
  BY HostsSerialised, <1>a, <1>24 DEF Poison, HostsSerialised, ClosedInv,
     CallsInv, Unused, Idle, InCallback, Typed, InvalidateBinding,
     ArtifactMutexFree, Stubs, At, Goto, Live
<1>25. ASSUME NEW h \in Hosts, ForgetProofs(h) PROVE ClosedInv'
  BY HostsSerialised, <1>a, <1>25 DEF ForgetProofs, HostsSerialised,
     ClosedInv, CallsInv, Unused, Idle, InCallback, Typed, AdapterMutexFree,
     Stubs, At, Goto, Live
<1>26. ASSUME NEW h \in Hosts, SweepHooks(h) PROVE ClosedInv'
  BY HostsSerialised, <1>a, <1>26 DEF SweepHooks, HostsSerialised, ClosedInv,
     CallsInv, Unused, Idle, InCallback, Typed, AdapterMutexFree, Stubs, At,
     Goto, Live, AdmissionAfterSweep, SweptStep
<1>27. ASSUME NEW h \in Hosts, CheckQuiescent(h) PROVE ClosedInv'
  <2>1. /\ UNCHANGED <<bridge, binding, calls, rest>> /\ host[h] \in {"quiesce swept", "retire swept"}
        /\ host' = [host EXCEPT ![h] = IF Idle /\ host[h] = "retire swept" THEN "checked" ELSE "idle"]
    BY <1>27 DEF CheckQuiescent, Quiescent, Goto, At
  <2>2. \A g \in Hosts : g = h
    BY HostsSerialised DEF HostsSerialised
  <2>3. Unused' = Unused
    BY <2>1 DEF Unused, Idle, InCallback
  <2>4. CASE Idle /\ host[h] = "retire swept"
    <3>1. host'[h] = "checked" /\ Unused
      BY <1>a, <2>1, <2>4, IdleIsUnused DEF Typed
    <3> QED
      BY <1>a, <2>1, <2>2, <2>3, <2>4, <3>1 DEF ClosedInv
  <2>5. CASE ~(Idle /\ host[h] = "retire swept")
    <3>1. host'[h] = "idle"
      BY <1>a, <2>1, <2>5 DEF Typed
    <3> QED
      BY <1>a, <2>1, <2>2, <2>3, <3>1 DEF ClosedInv
  <2> QED
    BY <2>4, <2>5
<1>28. ASSUME NEW h \in Hosts, Retire(h) PROVE ClosedInv'
  BY HostsSerialised, <1>a, <1>28 DEF Retire, HostsSerialised, ClosedInv,
     CallsInv, Unused, Idle, InCallback, Typed, InvalidateBinding,
     ArtifactMutexFree, Stubs, At, Goto, Live
<1>29. ASSUME NEW h \in Hosts, CloseForInvalidate(h) PROVE ClosedInv'
  BY HostsSerialised, <1>a, <1>29 DEF CloseForInvalidate, HostsSerialised,
     ClosedInv, CallsInv, Unused, Idle, InCallback, Typed, Stubs, At, Goto,
     Live
<1>30. ASSUME NEW h \in Hosts, NEW operation \in {"quiesce", "retire"}, StartQuiescing(h, operation)
       PROVE  ClosedInv'
  BY HostsSerialised, <1>a, <1>30 DEF StartQuiescing, HostsSerialised,
     ClosedInv, CallsInv, Unused, Idle, InCallback, Typed, ArtifactMutexFree,
     Stubs, At, Goto, Live
<1>31. ASSUME NEW h \in Hosts, Revalidate(h) PROVE ClosedInv'
  BY HostsSerialised, <1>a, <1>31 DEF Revalidate, HostsSerialised, ClosedInv,
     CallsInv, Unused, Idle, InCallback, Typed, ArtifactMutexFree, Stubs, At,
     Live
<1>32. CASE Destroy
  <2>1. /\ UNCHANGED <<listener, frames, mutator, leases, transitions, entered, isolate, handle,
                        observing, roots, host, valid, generation, retired>>
        /\ admission' = FALSE /\ Idle
    BY <1>32 DEF Destroy
  <2>2. Unused' /\ Unused
    BY <2>1, IdleIsUnused DEF Unused, Idle, InCallback
  <2> QED
    BY <1>a, <2>1, <2>2 DEF ClosedInv
<1>33. CASE Remap
  BY HostsSerialised, <1>a, <1>33 DEF Remap, HostsSerialised, ClosedInv,
     CallsInv, Unused, Idle, InCallback, Typed, Stubs, Live
<1>34. CASE UNCHANGED vars
  BY HostsSerialised, <1>a, <1>34 DEF vars, HostsSerialised, ClosedInv,
     CallsInv, Unused, Idle, InCallback, Typed, InvalidateBinding,
     AdapterMutexFree, ArtifactMutexFree, Stubs, At, Goto, Live, Admitted,
     AdmissionAfterSweep, SweptStep, Quiescent, HasIsolate
<1> QED
  BY <1>1, <1>2, <1>3, <1>4, <1>5, <1>6, <1>7, <1>8, <1>9, <1>10, <1>11,
     <1>12, <1>13, <1>14, <1>15, <1>16, <1>17, <1>18, <1>19, <1>20, <1>21,
     <1>22, <1>23, <1>24, <1>25, <1>26, <1>27, <1>28, <1>29, <1>30, <1>31,
     <1>32, <1>33, <1>34
     DEF Next, Engine, HookedCall, Client, Artifacts, Continue

(* Every step keeps the books of slots and leases.                         *)
LEMMA RootsKept ==
  ASSUME HostsSerialised PROVE ArtifactInv /\ [Next]_vars => RootsInv'
<1> SUFFICES ASSUME ArtifactInv, [Next]_vars PROVE RootsInv'
  OBVIOUS
<1>a. Typed /\ RootsInv /\ RootSlots \in Nat
  BY LifecycleAssumption DEF ArtifactInv
<1>b. /\ SlotsOf \in Weights /\ LeasesOf \in Weights
      /\ \A n \in 0 .. RootSlots : SlotsOf[n] = n /\ LeasesOf[n] = IF n > 0 THEN 1 ELSE 0
      /\ 0 \in 0 .. RootSlots
  BY <1>a DEF SlotsOf, LeasesOf, Weights
<1>c. frames \in Seq(0 .. RootSlots) /\ leases \in Int /\ roots \in Int /\ HandleSlots \in Int
  BY <1>a DEF Typed, HandleSlots
<1>d. AddsUp(frames, SlotsOf, roots - HandleSlots) /\ AddsUp(frames, LeasesOf, leases)
  BY <1>a DEF RootsInv
<1>e. ASSUME frames # <<>>
      PROVE  Len(frames) \in Nat \ {0} /\ Len(frames) \in 1 .. Len(frames) /\ Top \in 0 .. RootSlots
  BY <1>c, <1>e, LastFrame DEF Top
<1>f. roots - HandleSlots \in Nat /\ leases \in Nat
  BY <1>c, <1>d, SumIsNatural
<1> USE DEF bridge, binding, calls, rest
<1>1. CASE \/ Schedule \/ Unschedule \/ FfiCall \/ FfiReturn
  BY <1>a, <1>1 DEF Schedule, Unschedule, FfiCall, FfiReturn, RootsInv,
     HandleSlots
<1>2. CASE BeginInvocation
  <2>1. frames' = Append(frames, 0) /\ UNCHANGED <<leases, roots, handle>>
    BY <1>2 DEF BeginInvocation
  <2>2. /\ AddsUp(Append(frames, 0), SlotsOf, (roots - HandleSlots) + SlotsOf[0])
        /\ AddsUp(Append(frames, 0), LeasesOf, leases + LeasesOf[0])
    BY <1>b, <1>c, <1>d, <1>f, PushSum
  <2>3. (roots - HandleSlots) + SlotsOf[0] = roots - HandleSlots /\ leases + LeasesOf[0] = leases
    BY <1>b, <1>c
  <2> QED
    BY <2>1, <2>2, <2>3 DEF RootsInv, HandleSlots
<1>3. ASSUME NEW n \in 1 .. RootSlots, Pin(n) PROVE RootsInv'
  <2>1. /\ frames # <<>> /\ Top = 0 /\ UNCHANGED handle /\ n \in 0 .. RootSlots /\ n > 0
        /\ \/ frames' = WithTop(n) /\ leases' = leases + 1 /\ roots' = roots + n
           \/ UNCHANGED <<frames, leases, roots>>
    BY <1>a, <1>3 DEF Pin, RootsAfter
  <2>2. /\ AddsUp(WithTop(n), SlotsOf, (roots - HandleSlots) - SlotsOf[Top] + SlotsOf[n])
        /\ AddsUp(WithTop(n), LeasesOf, leases - LeasesOf[Top] + LeasesOf[n])
    <3>1. AddsUp(WithTop(n), SlotsOf, (roots - HandleSlots) - SlotsOf[Top] + SlotsOf[n])
      BY <1>b, <1>c, <1>d, <1>f, <2>1, TopSum DEF Top, WithTop
    <3>2. AddsUp(WithTop(n), LeasesOf, leases - LeasesOf[Top] + LeasesOf[n])
      BY <1>b, <1>c, <1>d, <1>f, <2>1, TopSum DEF Top, WithTop
    <3> QED
      BY <3>1, <3>2
  <2>3. /\ (roots - HandleSlots) - SlotsOf[Top] + SlotsOf[n] = (roots + n) - HandleSlots
        /\ leases - LeasesOf[Top] + LeasesOf[n] = leases + 1
    BY <1>b, <1>c, <2>1
  <2> QED
    BY <1>d, <2>1, <2>2, <2>3 DEF RootsInv, HandleSlots
<1>4. CASE Unpin
  <2>1. /\ frames # <<>> /\ Top > 0 /\ UNCHANGED handle
        /\ frames' = WithTop(0) /\ leases' = leases - 1 /\ roots' = roots - Top
    BY <1>4 DEF Unpin
  <2>2. /\ AddsUp(WithTop(0), SlotsOf, (roots - HandleSlots) - SlotsOf[Top] + SlotsOf[0])
        /\ AddsUp(WithTop(0), LeasesOf, leases - LeasesOf[Top] + LeasesOf[0])
    <3>1. AddsUp(WithTop(0), SlotsOf, (roots - HandleSlots) - SlotsOf[Top] + SlotsOf[0])
      BY <1>b, <1>c, <1>d, <1>f, <2>1, TopSum DEF Top, WithTop
    <3>2. AddsUp(WithTop(0), LeasesOf, leases - LeasesOf[Top] + LeasesOf[0])
      BY <1>b, <1>c, <1>d, <1>f, <2>1, TopSum DEF Top, WithTop
    <3> QED
      BY <3>1, <3>2
  <2>3. /\ (roots - HandleSlots) - SlotsOf[Top] + SlotsOf[0] = (roots - Top) - HandleSlots
        /\ leases - LeasesOf[Top] + LeasesOf[0] = leases - 1
    BY <1>b, <1>c, <1>e, <2>1
  <2> QED
    BY <2>1, <2>2, <2>3 DEF RootsInv, HandleSlots
<1>5. CASE EndInvocation
  <2>1. /\ frames' = SubSeq(frames, 1, Len(frames) - 1) /\ frames # <<>> /\ Top = 0
        /\ UNCHANGED <<leases, roots, handle>>
    BY <1>5 DEF EndInvocation
  <2>2. /\ AddsUp(frames', SlotsOf, (roots - HandleSlots) - SlotsOf[Top])
        /\ AddsUp(frames', LeasesOf, leases - LeasesOf[Top])
    BY <1>b, <1>c, <1>d, <1>f, <2>1, PopSum DEF Top
  <2>3. (roots - HandleSlots) - SlotsOf[Top] = roots - HandleSlots /\ leases - LeasesOf[Top] = leases
    BY <1>b, <1>c, <2>1
  <2> QED
    BY <2>1, <2>2, <2>3 DEF RootsInv, HandleSlots
<1>6. CASE \/ Enter \/ Entered \/ Leave \/ Left
  BY <1>a, <1>6 DEF Enter, Entered, Leave, Left, RootsInv, HandleSlots
<1>7. CASE ReleaseObject
  <2>1. UNCHANGED <<frames, leases>> /\ roots' - HandleSlots' = roots - HandleSlots
    BY <1>c, <1>7 DEF ReleaseObject, HandleSlots
  <2> QED
    BY <1>d, <2>1 DEF RootsInv
<1>8. ASSUME NEW t \in Threads, NEW s \in {"strong", "weak"}, RetainObject(t, s)
      PROVE  RootsInv'
  <2>1. UNCHANGED <<frames, leases>> /\ roots' - HandleSlots' = roots - HandleSlots
    BY <1>c, <1>8 DEF RetainObject, HandleSlots
  <2> QED
    BY <1>d, <2>1 DEF RootsInv
<1>9. CASE \/ Subscribe \/ Unsubscribe \/ Prove \/ BeginLiveHeapObservation
           \/ EndLiveHeapObservation
           \/ \E w \in Workers : EnterIsolate(w)
           \/ \E w \in Workers : LeaveIsolate(w)
           \/ \E t \in Threads : EnterScope(t)
           \/ \E t \in Threads : LeaveScope(t)
  BY <1>a, <1>9 DEF Subscribe, Unsubscribe, Prove, BeginLiveHeapObservation,
     EndLiveHeapObservation, EnterIsolate, LeaveIsolate, EnterScope,
     LeaveScope, RootsInv, HandleSlots
<1>10. CASE \/ \E h \in Hosts : Poison(h)
            \/ \E h \in Hosts : ForgetProofs(h)
            \/ \E h \in Hosts : SweepHooks(h)
            \/ \E h \in Hosts : CheckQuiescent(h)
            \/ \E h \in Hosts : Retire(h)
            \/ \E h \in Hosts : CloseForInvalidate(h)
            \/ \E h \in Hosts, operation \in {"quiesce", "retire"} : StartQuiescing(h, operation)
            \/ \E h \in Hosts : Revalidate(h)
  BY <1>a, <1>10 DEF Poison, ForgetProofs, SweepHooks, CheckQuiescent, Retire,
     CloseForInvalidate, StartQuiescing, Revalidate, RootsInv, HandleSlots,
     InvalidateBinding
<1>11. CASE \/ Destroy \/ Remap
  BY <1>a, <1>11 DEF Destroy, Remap, RootsInv, HandleSlots
<1>12. CASE UNCHANGED vars
  BY <1>a, <1>12 DEF vars, RootsInv, HandleSlots, InvalidateBinding
<1> QED
  BY <1>1, <1>2, <1>3, <1>4, <1>5, <1>6, <1>7, <1>8, <1>9, <1>10, <1>11, <1>12 DEF
     Next, Engine, HookedCall, Client, Artifacts, Continue

(* What the books say of the frame on top: its slots are in use.           *)
LEMMA TopIsHeld ==
  ASSUME Typed, RootsInv
  PROVE  /\ handle = "strong" => roots > 0
         /\ frames # <<>> /\ Top > 0 => roots >= Top /\ leases > 0
<1>a. RootSlots \in Nat
  BY LifecycleAssumption
<1>b. /\ SlotsOf \in Weights /\ LeasesOf \in Weights
      /\ \A n \in 0 .. RootSlots : SlotsOf[n] = n /\ LeasesOf[n] = IF n > 0 THEN 1 ELSE 0
      /\ 0 \in 0 .. RootSlots
  BY <1>a DEF SlotsOf, LeasesOf, Weights
<1>c. frames \in Seq(0 .. RootSlots) /\ leases \in Int /\ roots \in Int /\ HandleSlots \in Int
  BY DEF Typed, HandleSlots
<1>d. AddsUp(frames, SlotsOf, roots - HandleSlots) /\ AddsUp(frames, LeasesOf, leases)
  BY DEF RootsInv
<1>e. ASSUME frames # <<>>
      PROVE  Len(frames) \in Nat \ {0} /\ Len(frames) \in 1 .. Len(frames) /\ Top \in 0 .. RootSlots
  BY <1>c, <1>e, LastFrame DEF Top
<1>f. roots - HandleSlots \in Nat /\ leases \in Nat
  BY <1>c, <1>d, SumIsNatural
<1>1. roots >= HandleSlots
  BY <1>c, <1>f
<1>2. ASSUME frames # <<>>
      PROVE  roots - HandleSlots >= SlotsOf[Top] /\ leases >= LeasesOf[Top]
  BY <1>b, <1>c, <1>d, <1>f, <1>2, PopSum DEF Top
<1> QED
  BY <1>b, <1>c, <1>e, <1>1, <1>2 DEF HandleSlots

(* Every step keeps the types.                                             *)
LEMMA TypingKept ==
  ASSUME HostsSerialised PROVE ArtifactInv /\ [Next]_vars => Typed'
<1> SUFFICES ASSUME ArtifactInv, [Next]_vars PROVE Typed'
  OBVIOUS
<1>a. Typed /\ RootSlots \in Nat /\ RootLeases \in Nat /\ MaxGeneration \in Nat
  BY LifecycleAssumption DEF ArtifactInv
<1>b. frames \in Seq(0 .. RootSlots)
  BY <1>a DEF Typed
<1> USE DEF bridge, binding, calls, rest
<1>1. CASE \/ Schedule \/ Unschedule \/ FfiCall \/ FfiReturn
  BY <1>a, <1>1 DEF Schedule, Unschedule, FfiCall, FfiReturn, Typed, Stubs,
     Threads, HostSteps
<1>2. CASE BeginInvocation
  <2>1. frames' \in Seq(0 .. RootSlots)
    BY <1>a, <1>b, <1>2 DEF BeginInvocation
  <2> QED
    BY <1>a, <2>1, <1>2 DEF BeginInvocation, Typed
<1>3. ASSUME NEW n \in 1 .. RootSlots, Pin(n) PROVE Typed'
  <2>1. frames' \in Seq(0 .. RootSlots)
    <3>1. n \in 0 .. RootSlots /\ frames # <<>> /\ (frames' = frames \/ frames' = WithTop(n))
      BY <1>a, <1>3 DEF Pin
    <3>2. WithTop(n) \in Seq(0 .. RootSlots)
      BY <1>b, <3>1, LastFrame, ExceptSeq DEF WithTop
    <3> QED
      BY <1>b, <3>1, <3>2
  <2>2. roots' \in 0 .. RootSlots /\ leases' \in 0 .. RootLeases
    BY <1>a, <1>3 DEF Pin, RootsAfter, Typed
  <2> QED
    BY <1>a, <2>1, <2>2, <1>3 DEF Pin, Typed, Threads
<1>4. CASE Unpin
  <2>1. frames' \in Seq(0 .. RootSlots)
    <3>1. 0 \in 0 .. RootSlots /\ frames # <<>> /\ frames' = WithTop(0)
      BY <1>a, <1>4 DEF Unpin
    <3> QED
      BY <1>b, <3>1, LastFrame, ExceptSeq DEF WithTop
  <2>2. roots' \in 0 .. RootSlots /\ leases' \in 0 .. RootLeases
    <3>1. roots >= Top /\ leases > 0 /\ Top \in 0 .. RootSlots
      BY <1>b, <1>4, TopIsHeld, LastFrame DEF Unpin, ArtifactInv, Top
    <3> QED
      BY <1>a, <1>4, <3>1 DEF Unpin, Typed
  <2> QED
    BY <1>a, <2>1, <2>2, <1>4 DEF Unpin, Typed, Threads, OwnerWith
<1>5. CASE Enter
  BY <1>a, <1>5 DEF Enter, Typed, Stubs, Threads, HostSteps
<1>6. CASE Entered
  <2>1. transitions = 0
    BY <1>6 DEF Entered, ArtifactInv, CallsInv
  <2> QED
    BY <1>a, <2>1, <1>6 DEF Entered, Typed
<1>7. CASE Leave
  BY <1>a, <1>7 DEF Leave, Typed, Stubs, Threads, HostSteps
<1>8. CASE Left
  <2>1. transitions = 1
    BY <1>8 DEF Left, ArtifactInv, CallsInv
  <2> QED
    BY <1>a, <2>1, <1>8 DEF Left, Typed
<1>9. CASE EndInvocation
  <2>1. frames' \in Seq(0 .. RootSlots)
    BY <1>a, <1>b, <1>9 DEF EndInvocation
  <2> QED
    BY <1>a, <2>1, <1>9 DEF EndInvocation, Typed
<1>10. CASE Subscribe
  BY <1>a, <1>10 DEF Subscribe, Typed, Stubs, Threads, HostSteps
<1>11. CASE Unsubscribe
  BY <1>a, <1>11 DEF Unsubscribe, Typed, Stubs, Threads, HostSteps, Dropped
<1>12. CASE ReleaseObject
  <2>1. handle = "strong" => roots > 0
    BY TopIsHeld DEF ArtifactInv
  <2> QED
    BY <1>a, <2>1, <1>12 DEF ReleaseObject, Typed
<1>13. CASE Prove
  <2>1. core' = generation /\ UNCHANGED generation /\ core' \in 0 .. generation
    BY <1>a, <1>13 DEF Prove, Forgotten, Typed
  <2> QED
    BY <1>a, <2>1, <1>13 DEF Prove, Typed, HostSteps, Goto
<1>14. CASE BeginLiveHeapObservation
  BY <1>a, <1>14 DEF BeginLiveHeapObservation, Typed, Stubs, Threads, HostSteps
<1>15. CASE EndLiveHeapObservation
  BY <1>a, <1>15 DEF EndLiveHeapObservation, Typed, Stubs, Threads, HostSteps,
     OwnerWith
<1>16. ASSUME NEW w \in Workers, EnterIsolate(w) PROVE Typed'
  BY <1>a, <1>16 DEF EnterIsolate, Typed, Stubs, Threads, HostSteps
<1>17. ASSUME NEW w \in Workers, LeaveIsolate(w) PROVE Typed'
  BY <1>a, <1>17 DEF LeaveIsolate, Typed, Stubs, Threads, HostSteps
<1>18. ASSUME NEW t \in Threads, EnterScope(t) PROVE Typed'
  BY <1>a, <1>18 DEF EnterScope, Typed, OwnerWith
<1>19. ASSUME NEW t \in Threads, LeaveScope(t) PROVE Typed'
  BY <1>a, <1>19 DEF LeaveScope, Typed, OwnerWith
<1>20. ASSUME NEW t \in Threads, NEW s \in {"strong", "weak"}, RetainObject(t, s)
       PROVE  Typed'
  <2>1. roots' \in 0 .. RootSlots
    BY <1>a, <1>20 DEF RetainObject, Typed
  <2> QED
    BY <1>a, <2>1, <1>20 DEF RetainObject, Typed
<1>21. ASSUME NEW h \in Hosts, Poison(h) PROVE Typed'
  <2>0. host[h] = "closed" /\ generation < MaxGeneration
    BY <1>21 DEF Poison, At, ArtifactInv, ClosedInv
  <2>1. generation + 1 \in 1 .. MaxGeneration /\ core \in 0 .. generation + 1
    BY <1>a, <2>0 DEF Typed
  <2> QED
    BY <1>a, <2>1, <1>21, ZenonT(30) DEF Poison, Typed, InvalidateBinding, Stubs, Threads,
       HostSteps, Goto, At
<1>22. ASSUME NEW h \in Hosts, ForgetProofs(h) PROVE Typed'
  <2>1. core' = 0 /\ UNCHANGED generation /\ core' \in 0 .. generation
    BY <1>a, <1>22 DEF ForgetProofs, Forgotten, Typed
  <2> QED
    BY <1>a, <2>1, <1>22 DEF ForgetProofs, Typed, HostSteps, Goto
<1>23. ASSUME NEW h \in Hosts, SweepHooks(h) PROVE Typed'
  <2>1. \E step \in HostSteps : host' = [host EXCEPT ![h] = step]
    BY <1>23 DEF SweepHooks, Goto, SweptStep, HostSteps
  <2>2. host' \in [Hosts -> HostSteps]
    BY <1>a, <2>1 DEF Typed
  <2>3. listener' \in {"none", "active", "removed"}
    BY <1>a, <1>23 DEF SweepHooks, Typed, Dropped
  <2> QED
    BY <1>a, <1>23, <2>2, <2>3 DEF SweepHooks, Typed
<1>24. ASSUME NEW h \in Hosts, CheckQuiescent(h) PROVE Typed'
  <2>1. \E step \in HostSteps : host' = [host EXCEPT ![h] = step]
    BY <1>24 DEF CheckQuiescent, Goto, HostSteps
  <2>2. host' \in [Hosts -> HostSteps]
    BY <1>a, <2>1 DEF Typed
  <2> QED
    BY <1>a, <1>24, <2>2 DEF CheckQuiescent, Typed
<1>25. ASSUME NEW h \in Hosts, Retire(h) PROVE Typed'
  <2>0. host[h] = "checked" /\ generation < MaxGeneration
    BY <1>25 DEF Retire, At, ArtifactInv, ClosedInv
  <2>1. generation + 1 \in 1 .. MaxGeneration /\ core \in 0 .. generation + 1
    BY <1>a, <2>0 DEF Typed
  <2>2. \E step \in HostSteps : host' = [host EXCEPT ![h] = step]
    BY <1>25 DEF Retire, Goto, HostSteps
  <2>3. host' \in [Hosts -> HostSteps]
    BY <1>a, <2>2 DEF Typed
  <2>4. generation' \in {generation, generation + 1} /\ UNCHANGED <<bridge, core, calls, state>>
    BY <1>25 DEF Retire, InvalidateBinding
  <2>5. generation' \in 1 .. MaxGeneration /\ core' \in 0 .. generation'
    BY <1>a, <2>1, <2>4 DEF Typed
  <2> QED
    BY <1>a, <2>3, <2>4, <2>5 DEF Typed
<1>26. ASSUME NEW h \in Hosts, CloseForInvalidate(h) PROVE Typed'
  BY <1>a, <1>26 DEF CloseForInvalidate, Typed, Stubs, Threads, HostSteps,
     Goto, At
<1>27. ASSUME NEW h \in Hosts, NEW operation \in {"quiesce", "retire"}, StartQuiescing(h, operation)
       PROVE  Typed'
  <2>1. host' = [host EXCEPT ![h] = operation]
    BY <1>27 DEF StartQuiescing, Goto
  <2>2. host' \in [Hosts -> HostSteps]
    BY <1>a, <2>1 DEF Typed, HostSteps
  <2> QED
    BY <1>a, <1>27, <2>2 DEF StartQuiescing, Typed
<1>28. ASSUME NEW h \in Hosts, Revalidate(h) PROVE Typed'
  BY <1>a, <1>28 DEF Revalidate, Typed
<1>29. CASE Destroy
  BY <1>a, <1>29 DEF Destroy, Typed, Stubs, Threads, HostSteps, At
<1>30. CASE Remap
  BY <1>a, <1>30 DEF Remap, Typed
<1>31. CASE UNCHANGED vars
  BY <1>a, <1>31 DEF vars, Typed
<1> QED
  BY <1>1, <1>2, <1>3, <1>4, <1>5, <1>6, <1>7, <1>8, <1>9, <1>10, <1>11,
     <1>12, <1>13, <1>14, <1>15, <1>16, <1>17, <1>18, <1>19, <1>20, <1>21,
     <1>22, <1>23, <1>24, <1>25, <1>26, <1>27, <1>28, <1>29, <1>30, <1>31
     DEF Next, Engine, HookedCall, Client, Artifacts, Continue

(* Initially the adapter is live and unused.                               *)
LEMMA ArtifactStarts == Init => ArtifactInv
<1> SUFFICES ASSUME Init PROVE ArtifactInv
  OBVIOUS
<1>1. Typed
  BY LifecycleAssumption DEF Init, Typed, HostSteps
<1>2. Flags
  BY DEF Init, Flags
<1>3. RootsInv
  <2>1. frames = <<>> /\ HandleSlots = 0 /\ roots = 0 /\ leases = 0
    BY DEF Init, HandleSlots
  <2> QED
    BY <2>1, EmptySum DEF RootsInv
<1>4. CallsInv /\ ClosedInv /\ ValidInv /\ CoreInv
  BY DEF Init, CallsInv, ClosedInv, ValidInv, CoreInv, InCallback, Stubs
<1> QED
  BY <1>1, <1>2, <1>3, <1>4 DEF ArtifactInv

(* The invariant holds throughout.                                         *)
LEMMA ArtifactStays == ASSUME HostsSerialised PROVE Spec => []ArtifactInv
<1>1. ArtifactInv /\ [Next]_vars => ArtifactInv'
  BY TypingKept, FlagsKept, RootsKept, CallsKept, ClosedKept, ValidKept,
     CoreKept
     DEF ArtifactInv
<1> QED
  BY <1>1, ArtifactStarts, PTL DEF Spec

(* flutter_vm.h: an adapter that was retired or destroyed has no           *)
(* subscription, frame, scope, handle, observation or root left, whatever  *)
(* the mutator and the workers do (dartplant_flutter_vm_adapter_retire_-   *)
(* artifacts).                                                             *)
THEOREM RetiredStaysIdle == ASSUME HostsSerialised PROVE Spec => []RetiredIsIdle
<1>1. ArtifactInv => RetiredIsIdle
  BY DEF ArtifactInv, ClosedInv, Unused, RetiredIsIdle
<1> QED
  BY <1>1, ArtifactStays, PTL

(* A stub and an observation run on a valid, mapped artifact, and only a   *)
(* poison takes an admitted callback its way back                          *)
(* (EnterGeneratedToNative, LeaveNativeToGenerated, RevalidateArtifacts).  *)
THEOREM AdmittedStaysServed == ASSUME HostsSerialised PROVE Spec => []AdmittedIsServed
<1>1. ASSUME ArtifactInv PROVE AdmittedIsServed
  <2>1. TypeOK
    <3>1. {admission, observing, valid, quiescing, transition, mapped, retired, poisoned}
            \subseteq BOOLEAN
      BY <1>1 DEF ArtifactInv, Flags
    <3> QED
      BY <1>1, <3>1 DEF ArtifactInv, Typed, TypeOK
  <2>2. StubsUseValidArtifact
    BY <1>1 DEF ArtifactInv, ValidInv, ClosedInv, StubsUseValidArtifact
  <2>3. AdmittedCanFinish
    BY <1>1 DEF ArtifactInv, ValidInv, CallsInv, InCallback, AdmittedCanFinish
  <2> QED
    BY <2>1, <2>2, <2>3 DEF AdmittedIsServed
<1> QED
  BY <1>1, ArtifactStays, PTL

(* What the core serves was proved in the current generation               *)
(* (VmAdapterGetCapabilityBinding, InvalidateArtifactBindingLocked).       *)
THEOREM ServedProofStaysCurrent ==
  ASSUME HostsSerialised PROVE Spec => []ServedProofIsCurrent
<1>1. ArtifactInv => ServedProofIsCurrent
  BY DEF ArtifactInv, ClosedInv, CoreInv, ServedProofIsCurrent
<1> QED
  BY <1>1, ArtifactStays, PTL
===============================================================================
