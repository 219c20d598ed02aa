------------------------ MODULE CallbackFramesProofs ------------------------
(***************************************************************************)
(* For any threads, kinds of calls, depths and numbers of leases: the      *)
(* dispatch stacks mirror the Dart stacks over returns, exceptions and     *)
(* refused bridges, calls return to their callers, and the counters and    *)
(* the owner of the adapter are those of the frames.  A thread that        *)
(* nothing contends with is never trapped and pairs its callbacks.         *)
(***************************************************************************)
EXTENDS MCCallbackFrames, FiniteSetTheorems, SequenceTheorems, WellFoundedInduction, TLAPS

-----------------------------------------------------------------------------
(* One stack                                                               *)

(* Dart code runs in the activation of frame f: its body, or its original  *)
(* for the callback.                                                       *)
InDart(f) ==
  \/ f.phase = "body" /\ ~f.native /\ ~f.bridge /\ (f.bound => f.lease)
  \/ f.phase = "enter" /\ f.native /\ ~f.bound

(* A callback of frame f runs, behind the bridge if it needs one.          *)
InCallback(f) == f.phase \in {"enter", "leave"} /\ ~f.native /\ (f.bound => f.bridge)

Settled(f) == InDart(f) \/ InCallback(f)

FrameOK(f) == (f.lease => f.bound) /\ (f.bridge => f.lease)

Outside == {"dart", "observe"}
Inside == {"pin", "pinning", "cross", "crossing", "ensure", "callback", "inspect", "uncross",
           "unpin", "unpinning", "retire"}

(* What the frame on top is like when its thread is at place p             *)
Fits(f, p) ==
  /\ p \in {"pin", "pinning"} =>
       f.bound /\ ~f.lease /\ ~f.native /\ f.phase \in {"enter", "body", "leave"}
  /\ p \in {"cross", "crossing"} =>
       f.lease /\ ~f.bridge /\ ~f.native /\ f.phase \in {"enter", "leave"}
  /\ p = "ensure" => f.phase = "enter" /\ ~f.native /\ (f.bound => f.bridge)
  /\ p \in {"callback", "inspect"} => InCallback(f) /\ (p = "inspect" => f.bridge)
  /\ p = "uncross" => f.bridge /\ ~f.native /\ f.phase \in {"enter", "failed", "finished"}
  /\ p \in {"unpin", "unpinning"} =>
       f.lease /\ ~f.bridge /\ ~f.native /\ f.phase \in {"enter", "return", "failed", "finished"}
  /\ p = "retire" => ~f.lease /\ f.phase \in {"failed", "finished"}

(* ... and when an exception leaves its activation                         *)
Abandoned(f, p) ==
  /\ f.phase = "exception"
  /\ \/ p = "uncross" /\ f.bridge
     \/ p \in {"unpin", "unpinning"} /\ f.lease /\ ~f.bridge
     \/ p = "retire" /\ ~f.lease

TopOK(cs, fs, p, h) ==
  LET f == Last(fs)
  IN  /\ p \in Outside /\ fs # <<>> => Settled(f) /\ (f.at = Len(cs) => InDart(f))
      /\ p = "unwind" /\ fs # <<>> =>
           Settled(f) /\ (f.at = Len(cs) /\ h.depth = Len(cs) => InDart(f))
      /\ p \in Inside => /\ fs # <<>>
                         /\ \/ f.at = Len(cs) /\ Fits(f, p)
                            \/ h.depth < f.at /\ Abandoned(f, p)

(* An exception is on its way to its handler.                              *)
Unwinding(fs, p) == p = "unwind" \/ (fs # <<>> /\ Last(fs).phase = "exception")

(* The activations that it does not leave                                  *)
Reach(cs, fs, p, h) == IF Unwinding(fs, p) THEN h.depth ELSE Len(cs)

(* The frames are those of tracked activations, in their order.            *)
Ordered(cs, fs) ==
  /\ \A i \in DOMAIN fs : i <= fs[i].at /\ fs[i].at <= Len(cs) /\ cs[fs[i].at].tracked
  /\ \A i, j \in DOMAIN fs : i < j => fs[i].at < fs[j].at

(* Every tracked activation up to b has a frame.                           *)
Covers(cs, fs, b) ==
  \A d \in DOMAIN cs : d <= b /\ cs[d].tracked => \E i \in DOMAIN fs : fs[i].at = d

(* A callback has called what is invoked, Dart code what is not.           *)
Nested(cs, fs, b) ==
  /\ \A d \in DOMAIN cs : d + 1 \in DOMAIN cs /\ d <= b /\ cs[d + 1].invoked =>
       \E i \in DOMAIN fs : fs[i].at = d /\ InCallback(fs[i])
  /\ \A d \in DOMAIN cs, i \in DOMAIN fs :
       d + 1 \in DOMAIN cs /\ ~cs[d + 1].invoked /\ fs[i].at = d =>
         InDart(fs[i]) \/ fs[i].phase = "exception"

(* The handler is not beyond the last call from native code.               *)
HandlerOK(cs, h) ==
  /\ h.depth <= Len(cs) /\ h.fp = FramePointer(h.depth)
  /\ h.sp \in {FramePointer(h.depth), FramePointer(h.depth) - 1}
  /\ \A d \in DOMAIN cs : cs[d].invoked => d <= h.depth + 1

StackType(cs, fs, p, h) ==
  /\ cs \in Seq(CallType) /\ Len(cs) <= MaxCalls
  /\ fs \in Seq(FrameType) /\ Len(fs) <= MaxDepth
  /\ p \in Places /\ h.depth \in 0 .. MaxCalls

StackOK(cs, fs, p, h) ==
  /\ StackType(cs, fs, p, h)
  /\ Ordered(cs, fs)
  /\ cs # <<>> => cs[1].invoked
  /\ \A i \in DOMAIN fs : FrameOK(fs[i]) /\ (i # Len(fs) => Settled(fs[i]))
  /\ Covers(cs, fs, Reach(cs, fs, p, h))
  /\ Nested(cs, fs, Reach(cs, fs, p, h))
  /\ Unwinding(fs, p) => HandlerOK(cs, h)
  /\ TopOK(cs, fs, p, h)

StacksInv ==
  /\ calls = [t \in Threads |-> calls[t]] /\ frames = [t \in Threads |-> frames[t]]
  /\ handler = [t \in Threads |-> handler[t]] /\ pc \in [Everyone -> Places]
  /\ \A t \in Threads : StackOK(calls[t], frames[t], pc[t], handler[t])

-----------------------------------------------------------------------------
(* The adapter                                                             *)

Holding == {"pinning", "crossing", "unpinning", "retaining", "releasing", "freeing", "checking"}
Working == {"api", "retaining", "releasing", "freeing", "checking"}

Slots == Threads \X (1 .. MaxDepth)
BridgedIn(fr) == {c \in Slots : c[2] \in DOMAIN fr[c[1]] /\ fr[c[1]][c[2]].bridge}
PinningIn(fr) == {c \in Slots : c[2] \in DOMAIN fr[c[1]] /\ fr[c[1]][c[2]].lease}
ListeningIn(fr) ==
  {c \in Threads \X (1 .. MaxCalls) : c[2] \in DOMAIN fr[c[1]] /\ fr[c[1]][c[2]].bound}
Bridged == BridgedIn(frames)
Pinning == PinningIn(frames)

CountersInv ==
  /\ Cardinality(Bridged) = adapter.generated_native_transitions
  /\ adapter.entered = adapter.generated_native_transitions
  /\ Cardinality(Pinning) = adapter.generated_root_leases
  /\ \A c \in Bridged : c[1] = Home
  /\ \A c \in Pinning : c[1] = adapter.owner_thread

OwnerInv ==
  /\ adapter.observer # None => adapter.owner_thread = adapter.observer
  /\ adapter.owner_thread # None =>
       adapter.generated_root_leases > 0 \/ adapter.observer = adapter.owner_thread

One(b) == IF b THEN 1 ELSE 0

RefsInv ==
  /\ adapter.hook_refs = One(subscribed \/ Listening # {}) + One(other)
  /\ quiescent => ~adapter.admission_open /\ AdapterIdle

PlacesInv ==
  /\ \A w \in Workers : pc[w] \in Working
  /\ \A e \in Everyone : pc[e] \in Holding => adapter.mutex = e
  /\ \A w \in Workers : /\ pc[w] = "retaining" => adapter.admission_open /\ ~other
                        /\ pc[w] = "releasing" => other
                        /\ pc[w] = "checking" => ~adapter.admission_open /\ ~quiescent

AdapterInv ==
  /\ adapter \in AdapterType
  /\ subscribed \in BOOLEAN /\ other \in BOOLEAN /\ quiescent \in BOOLEAN
  /\ CountersInv /\ OwnerInv /\ RefsInv /\ PlacesInv

IInv == StacksInv /\ AdapterInv

-----------------------------------------------------------------------------
(* Sequences                                                               *)

(* The end of a sequence is its element at its length (Top, TopIndex).     *)
LEMMA TopIs ==
  ASSUME NEW S, NEW s \in Seq(S), s # <<>>
  PROVE  /\ Len(s) \in Nat \ {0} /\ Len(s) \in DOMAIN s /\ DOMAIN s = 1 .. Len(s)
         /\ Last(s) = s[Len(s)] /\ Last(s) \in S
BY DEF Last

(* The elements of a sequence are where its indices are.                   *)
LEMMA SeqIs ==
  ASSUME NEW S, NEW s \in Seq(S)
  PROVE  /\ Len(s) \in Nat /\ DOMAIN s = 1 .. Len(s)
         /\ \A i \in DOMAIN s : s[i] \in S
         /\ s = <<>> <=> Len(s) = 0
OBVIOUS

(* Pushing changes nothing below the new top.                              *)
LEMMA AppendIs ==
  ASSUME NEW S, NEW s \in Seq(S), NEW e \in S, NEW g, g = Append(s, e)
  PROVE  /\ g \in Seq(S) /\ Len(g) = Len(s) + 1 /\ DOMAIN g = 1 .. Len(s) + 1 /\ g # <<>>
         /\ Last(g) = e /\ g[Len(s) + 1] = e
         /\ \A i \in DOMAIN s : g[i] = s[i]
<1>1. g \in Seq(S) /\ Len(g) = Len(s) + 1 /\ g[Len(s) + 1] = e
  OBVIOUS
<1>2. DOMAIN g = 1 .. Len(s) + 1 /\ g # <<>>
  BY <1>1
<1>3. \A i \in DOMAIN s : g[i] = s[i]
  OBVIOUS
<1> QED BY <1>1, <1>2, <1>3 DEF Last

(* A prefix of a sequence has its first elements.                          *)
LEMMA PrefixIs ==
  ASSUME NEW S, NEW s \in Seq(S), NEW k \in 0 .. Len(s), NEW g, g = SubSeq(s, 1, k)
  PROVE  /\ g \in Seq(S) /\ Len(g) = k /\ DOMAIN g = 1 .. k
         /\ \A i \in 1 .. k : g[i] = s[i]
<1>1. g \in Seq(S) /\ Len(g) = k
  BY SubSeqProperties
<1>2. \A i \in 1 .. k : g[i] = s[i]
  BY SubSeqProperties
<1> QED BY <1>1, <1>2

(* Popping leaves the elements below the top.                              *)
LEMMA FrontIs ==
  ASSUME NEW S, NEW s \in Seq(S), s # <<>>, NEW g, g = Front(s)
  PROVE  /\ g \in Seq(S) /\ Len(g) = Len(s) - 1 /\ DOMAIN g = 1 .. Len(s) - 1
         /\ \A i \in 1 .. Len(s) - 1 : g[i] = s[i]
<1> DEFINE k == Len(s) - 1
<1>1. k \in 0 .. Len(s) /\ g = SubSeq(s, 1, k)
  BY TopIs DEF Front
<1> HIDE DEF k
<1>2. /\ g \in Seq(S) /\ Len(g) = k /\ DOMAIN g = 1 .. k
      /\ \A i \in 1 .. k : g[i] = s[i]
  BY <1>1, PrefixIs
<1> QED BY <1>2 DEF k

(* A set of activations that is not empty has an innermost one, the last   *)
(* that native code has called (LastInvoked).                              *)
LEMMA Innermost ==
  ASSUME NEW A \in SUBSET Nat, A # {}, NEW b \in Nat, \A a \in A : a <= b
  PROVE  \E m \in A : \A a \in A : a <= m
<1> DEFINE R == OpToRel(<, Nat)
<1> DEFINE D == {b - a : a \in A}
<1>1. IsWellFoundedOn(R, Nat)
  BY NatLessThanWellFounded
<1>2. R = {p \in Nat \X Nat : p[1] < p[2]}
  BY DEF OpToRel
<1>3. D \subseteq Nat /\ D # {}
  <2>1. \A a \in A : a \in Nat /\ a <= b
    OBVIOUS
  <2>2. \A a \in A : b - a \in Nat
    BY <2>1
  <2> QED BY <2>2
<1>4. PICK d \in D : \A e \in D : <<e, d>> \notin R
  <2> HIDE DEF R, D
  <2> QED
    BY <1>1, <1>3, WFMin
<1>5. \A e \in D : <<e, d>> \in Nat \X Nat
  BY <1>3
<1> HIDE DEF R
<1>6. \A e \in D : ~(e < d)
  BY <1>2, <1>4, <1>5
<1>7. PICK m \in A : d = b - m
  OBVIOUS
<1>8. \A a \in A : b - a \in D
  OBVIOUS
<1>9. \A a \in A : a <= m
  <2> TAKE a \in A
  <2>1. a \in Nat /\ m \in Nat
    BY <1>7
  <2>2. ~(b - a < b - m)
    BY <1>6, <1>7, <1>8
  <2> QED BY <2>1, <2>2
<1> QED
  BY <1>7, <1>9

-----------------------------------------------------------------------------
(* One stack, step by step                                                 *)

(* Indices, elements and the top of the two stacks of a thread.            *)
LEMMA StackFacts ==
  ASSUME NEW cs, NEW fs, NEW p, NEW h, StackOK(cs, fs, p, h)
  PROVE  /\ Len(cs) \in Nat /\ DOMAIN cs = 1 .. Len(cs) /\ Len(cs) <= MaxCalls
         /\ \A d \in DOMAIN cs : cs[d] \in CallType
         /\ Len(fs) \in Nat /\ DOMAIN fs = 1 .. Len(fs) /\ (fs = <<>> <=> Len(fs) = 0)
         /\ \A i \in DOMAIN fs : fs[i] \in FrameType /\ fs[i].at \in 1 .. Len(cs)
         /\ h.depth \in Nat /\ cs \in Seq(CallType) /\ fs \in Seq(FrameType)
<1>1. StackType(cs, fs, p, h) /\ Ordered(cs, fs)
  BY DEF StackOK
<1>2. cs \in Seq(CallType) /\ fs \in Seq(FrameType) /\ h.depth \in Nat /\ Len(cs) <= MaxCalls
  BY <1>1 DEF StackType
<1>3. /\ Len(cs) \in Nat /\ DOMAIN cs = 1 .. Len(cs)
      /\ \A d \in DOMAIN cs : cs[d] \in CallType
  BY <1>2, SeqIs
<1>4. /\ Len(fs) \in Nat /\ DOMAIN fs = 1 .. Len(fs) /\ (fs = <<>> <=> Len(fs) = 0)
      /\ \A i \in DOMAIN fs : fs[i] \in FrameType
  BY <1>2, SeqIs
<1>5. \A i \in DOMAIN fs : fs[i].at \in 1 .. Len(cs)
  <2> TAKE i \in DOMAIN fs
  <2>1. fs[i].at \in Nat /\ i <= fs[i].at /\ fs[i].at <= Len(cs) /\ i \in Nat /\ 1 <= i
    BY <1>1, <1>4, FramesAssumption DEF Ordered, FrameType
  <2> QED BY <2>1, <1>3
<1> QED BY <1>2, <1>3, <1>4, <1>5

(* The frame on top is that of the innermost tracked activation with one.  *)
LEMMA TopFacts ==
  ASSUME NEW cs, NEW fs, NEW p, NEW h, StackOK(cs, fs, p, h), fs # <<>>
  PROVE  /\ Len(fs) \in DOMAIN fs /\ Last(fs) = fs[Len(fs)] /\ Last(fs) \in FrameType
         /\ FrameOK(Last(fs)) /\ Last(fs).at \in 1 .. Len(cs)
         /\ \A i \in DOMAIN fs : i # Len(fs) => fs[i].at < Last(fs).at
<1>1. Len(fs) \in DOMAIN fs /\ Last(fs) = fs[Len(fs)]
  BY StackFacts, TopIs
<1>2. FrameOK(Last(fs))
  BY <1>1 DEF StackOK
<1>3. \A i \in DOMAIN fs : i # Len(fs) => fs[i].at < Last(fs).at
  <2>1. \A i \in DOMAIN fs : i # Len(fs) => i < Len(fs)
    BY StackFacts
  <2> QED BY <1>1, <2>1 DEF StackOK, Ordered
<1> QED BY <1>1, <1>2, <1>3, StackFacts

(* A thread that goes on with the same stacks.                             *)
LEMMA PlaceMoved ==
  ASSUME NEW cs, NEW fs, NEW p, NEW h, StackOK(cs, fs, p, h), p # "unwind",
         NEW q \in Places \ {"unwind"}, TopOK(cs, fs, q, h)
  PROVE  StackOK(cs, fs, q, h)
<1>1. Reach(cs, fs, q, h) = Reach(cs, fs, p, h)
  BY DEF Reach, Unwinding
<1>2. Unwinding(fs, q) => Unwinding(fs, p)
  BY DEF Unwinding
<1>3. StackType(cs, fs, q, h)
  BY DEF StackOK, StackType
<1> QED BY <1>1, <1>2, <1>3 DEF StackOK

(* The frame on top changes while its own activation is the innermost one. *)
LEMMA ReplacedHere ==
  ASSUME NEW cs, NEW fs, NEW p, NEW h, StackOK(cs, fs, p, h), fs # <<>>,
         ~Unwinding(fs, p), Last(fs).at = Len(cs),
         NEW e \in FrameType, e.at = Len(cs), FrameOK(e), e.phase # "exception",
         NEW q \in Outside \cup Inside \cup {"trapped"},
         q \in Outside => InDart(e), q \in Inside => Fits(e, q),
         NEW g, g = [fs EXCEPT ![Len(fs)] = e]
  PROVE  StackOK(cs, g, q, h)
<1> DEFINE n == Len(fs)
<1>0. fs \in Seq(FrameType)
  BY StackFacts
<1>1. /\ g \in Seq(FrameType) /\ Len(g) = n /\ DOMAIN g = DOMAIN fs /\ g # <<>>
      /\ Last(g) = e /\ g[n] = e /\ \A i \in DOMAIN fs : i # n => g[i] = fs[i]
  BY <1>0 DEF Last
<1>2. n \in DOMAIN fs /\ Last(fs) = fs[n] /\ fs[n].at = Len(cs)
  BY TopFacts
<1> HIDE DEF n
<1>3. \A i \in DOMAIN fs : g[i].at = fs[i].at
  BY <1>1, <1>2
<1>4. StackType(cs, g, q, h)
  BY <1>1, FramesAssumption DEF StackOK, StackType, n, Outside, Inside, Places
<1>5. Ordered(cs, g)
  BY <1>1, <1>3 DEF StackOK, Ordered
<1>6. \A i \in DOMAIN g : FrameOK(g[i]) /\ (i # Len(g) => Settled(g[i]))
  BY <1>1 DEF StackOK, n
<1>7. ~Unwinding(g, q)
  BY <1>1 DEF Unwinding, Outside, Inside
<1>8. Covers(cs, g, Reach(cs, g, q, h))
  BY <1>1, <1>3, <1>7 DEF StackOK, Covers, Reach
<1>9. Nested(cs, g, Reach(cs, g, q, h))
  <2>1. Nested(cs, fs, Len(cs)) /\ Reach(cs, g, q, h) = Len(cs)
    BY <1>7 DEF StackOK, Reach
  <2>2. \A d \in DOMAIN cs : d + 1 \in DOMAIN cs => d # Len(cs)
    BY StackFacts
  <2>3. \A i \in DOMAIN fs : fs[i].at # Len(cs) => g[i] = fs[i]
    BY <1>1, <1>2
  <2>4. ASSUME NEW d \in DOMAIN cs, d + 1 \in DOMAIN cs, cs[d + 1].invoked
        PROVE  \E i \in DOMAIN g : g[i].at = d /\ InCallback(g[i])
    <3>1. d <= Len(cs) /\ d # Len(cs)
      BY <2>2, <2>4, StackFacts
    <3>2. PICK i \in DOMAIN fs : fs[i].at = d /\ InCallback(fs[i])
      BY <2>1, <2>4, <3>1 DEF Nested
    <3>3. i \in DOMAIN g /\ g[i] = fs[i]
      BY <1>1, <2>3, <3>1, <3>2
    <3> QED BY <3>2, <3>3
  <2>5. ASSUME NEW d \in DOMAIN cs, NEW i \in DOMAIN g,
               d + 1 \in DOMAIN cs, ~cs[d + 1].invoked, g[i].at = d
        PROVE  InDart(g[i]) \/ g[i].phase = "exception"
    BY <1>1, <1>3, <2>1, <2>2, <2>3, <2>5 DEF Nested
  <2> QED BY <2>1, <2>4, <2>5 DEF Nested
<1>10. TopOK(cs, g, q, h)
  BY <1>1 DEF TopOK, Settled, Outside, Inside
<1> QED BY <1>4, <1>5, <1>6, <1>7, <1>8, <1>9, <1>10 DEF StackOK

(* The frame on top is abandoned, step by step.                            *)
LEMMA ReplacedGone ==
  ASSUME NEW cs, NEW fs, NEW p, NEW h, StackOK(cs, fs, p, h), fs # <<>>,
         Unwinding(fs, p), h.depth < Last(fs).at,
         NEW e \in FrameType, e.at = Last(fs).at, FrameOK(e), e.phase = "exception",
         NEW q \in Inside \cup {"trapped"}, q \in Inside => Abandoned(e, q),
         NEW g, g = [fs EXCEPT ![Len(fs)] = e]
  PROVE  StackOK(cs, g, q, h)
<1> DEFINE n == Len(fs)
<1>0. fs \in Seq(FrameType)
  BY StackFacts
<1>1. /\ g \in Seq(FrameType) /\ Len(g) = n /\ DOMAIN g = DOMAIN fs /\ g # <<>>
      /\ Last(g) = e /\ g[n] = e /\ \A i \in DOMAIN fs : i # n => g[i] = fs[i]
  BY <1>0 DEF Last
<1>2. n \in DOMAIN fs /\ Last(fs) = fs[n]
  BY TopFacts
<1> HIDE DEF n
<1>3. \A i \in DOMAIN fs : g[i].at = fs[i].at
  BY <1>1, <1>2
<1>4. StackType(cs, g, q, h)
  BY <1>1, FramesAssumption DEF StackOK, StackType, n, Inside, Places
<1>5. Ordered(cs, g)
  BY <1>1, <1>3 DEF StackOK, Ordered
<1>6. \A i \in DOMAIN g : FrameOK(g[i]) /\ (i # Len(g) => Settled(g[i]))
  BY <1>1 DEF StackOK, n
<1>7. Unwinding(g, q) /\ Reach(cs, g, q, h) = h.depth /\ Reach(cs, fs, p, h) = h.depth
  BY <1>1 DEF Unwinding, Reach
<1>8. Covers(cs, g, h.depth)
  BY <1>1, <1>3, <1>7 DEF StackOK, Covers
<1>9. Nested(cs, g, h.depth)
  <2>1. Nested(cs, fs, h.depth)
    BY <1>7 DEF StackOK
  <2>2. \A i \in DOMAIN fs : fs[i].at <= h.depth => i # n
    BY <1>2, StackFacts
  <2>3. ASSUME NEW d \in DOMAIN cs, d + 1 \in DOMAIN cs, d <= h.depth, cs[d + 1].invoked
        PROVE  \E i \in DOMAIN g : g[i].at = d /\ InCallback(g[i])
    BY <1>1, <2>1, <2>2, <2>3 DEF Nested
  <2>4. ASSUME NEW d \in DOMAIN cs, NEW i \in DOMAIN g,
               d + 1 \in DOMAIN cs, ~cs[d + 1].invoked, g[i].at = d
        PROVE  InDart(g[i]) \/ g[i].phase = "exception"
    BY <1>1, <1>3, <2>1, <2>4 DEF Nested
  <2> QED BY <2>3, <2>4 DEF Nested
<1>10. TopOK(cs, g, q, h)
  BY <1>1 DEF TopOK, Outside, Inside
<1>11. HandlerOK(cs, h)
  BY DEF StackOK
<1> QED BY <1>4, <1>5, <1>6, <1>7, <1>8, <1>9, <1>10, <1>11 DEF StackOK

(* Dart code runs in the frame on top when it is that of the innermost     *)
(* activation, and a callback only runs then.                              *)
LEMMA RunningFacts ==
  ASSUME NEW cs, NEW fs, NEW p, NEW h, StackOK(cs, fs, p, h), p \in {"dart", "callback"}
  PROVE  /\ ~Unwinding(fs, p)
         /\ \A i \in DOMAIN fs : Settled(fs[i])
         /\ p = "callback" => fs # <<>> /\ Last(fs).at = Len(cs) /\ InCallback(Last(fs))
         /\ p = "dart" /\ fs # <<>> /\ Last(fs).at = Len(cs) => InDart(Last(fs))
<1>1. TopOK(cs, fs, p, h) /\ \A i \in DOMAIN fs : i # Len(fs) => Settled(fs[i])
  BY DEF StackOK
<1>2. CASE p = "callback"
  <2>1. fs # <<>> /\ Last(fs).at = Len(cs) /\ Fits(Last(fs), p)
    BY <1>1, <1>2 DEF TopOK, Inside, Abandoned
  <2>2. InCallback(Last(fs))
    BY <1>2, <2>1 DEF Fits
  <2>3. Last(fs).phase # "exception" /\ Settled(Last(fs))
    BY <2>2 DEF InCallback, Settled
  <2> QED BY <1>1, <1>2, <2>1, <2>2, <2>3, TopFacts DEF Unwinding
<1>3. CASE p = "dart"
  <2>1. fs # <<>> => Settled(Last(fs)) /\ (Last(fs).at = Len(cs) => InDart(Last(fs)))
    BY <1>1, <1>3 DEF TopOK, Outside
  <2>2. fs # <<>> => Last(fs).phase # "exception"
    BY <2>1 DEF Settled, InDart, InCallback
  <2>3. \A i \in DOMAIN fs : fs # <<>>
    BY StackFacts
  <2> QED BY <1>1, <1>3, <2>1, <2>2, <2>3, TopFacts DEF Unwinding
<1> QED BY <1>2, <1>3

(* What a call leaves on the stacks before its own frame is there          *)
CallSeen(cs, fs, c, ds) ==
  /\ ds \in Seq(CallType) /\ Len(ds) = Len(cs) + 1 /\ DOMAIN ds = 1 .. Len(cs) + 1
  /\ ds[Len(cs) + 1] = c /\ ds[1].invoked
  /\ Ordered(ds, fs) /\ Covers(ds, fs, Len(cs)) /\ Nested(ds, fs, Len(ds))

(* A call from Dart code or from a callback, as far as it does not depend  *)
(* on the frame of the call.                                               *)
LEMMA CallAdded ==
  ASSUME NEW cs, NEW fs, NEW p, NEW h, StackOK(cs, fs, p, h), p \in {"dart", "callback"},
         Len(cs) < MaxCalls, NEW c \in CallType, c.invoked <=> p = "callback" \/ cs = <<>>,
         NEW ds, ds = Append(cs, c)
  PROVE  CallSeen(cs, fs, c, ds)
<1>1. cs \in Seq(CallType) /\ Len(cs) \in Nat /\ DOMAIN cs = 1 .. Len(cs)
  BY StackFacts
<1>2. /\ ds \in Seq(CallType) /\ Len(ds) = Len(cs) + 1 /\ DOMAIN ds = 1 .. Len(cs) + 1
      /\ ds[Len(cs) + 1] = c /\ \A d \in DOMAIN cs : ds[d] = cs[d]
  BY <1>1
<1>3. ds[1].invoked
  BY <1>1, <1>2 DEF StackOK
<1>4. Ordered(ds, fs)
  <2>1. \A i \in DOMAIN fs : fs[i].at \in DOMAIN cs /\ fs[i].at <= Len(ds)
    BY <1>1, <1>2, StackFacts
  <2> QED BY <1>2, <2>1 DEF StackOK, Ordered
<1>5. Reach(cs, fs, p, h) = Len(cs)
  BY RunningFacts DEF Reach
<1>6. Covers(ds, fs, Len(cs))
  BY <1>1, <1>2, <1>5 DEF StackOK, Covers
<1>7. ASSUME NEW d \in DOMAIN ds, d + 1 \in DOMAIN ds, ds[d + 1].invoked
      PROVE  \E i \in DOMAIN fs : fs[i].at = d /\ InCallback(fs[i])
  <2>1. CASE d = Len(cs)
    <3>1. p = "callback"
      BY <1>1, <1>2, <1>7, <2>1
    <3> QED BY <2>1, <3>1, RunningFacts, TopFacts
  <2>2. CASE d # Len(cs)
    <3>1. d \in DOMAIN cs /\ d + 1 \in DOMAIN cs /\ d <= Len(cs)
      BY <1>1, <1>2, <1>7, <2>2
    <3> QED BY <1>2, <1>5, <1>7, <3>1 DEF StackOK, Nested
  <2> QED BY <2>1, <2>2
<1>8. ASSUME NEW d \in DOMAIN ds, NEW i \in DOMAIN fs,
             d + 1 \in DOMAIN ds, ~ds[d + 1].invoked, fs[i].at = d
      PROVE  InDart(fs[i]) \/ fs[i].phase = "exception"
  <2>1. CASE d = Len(cs)
    <3>1. p = "dart"
      BY <1>2, <1>8, <2>1
    <3>2. fs # <<>> /\ i = Len(fs)
      <4>1. fs # <<>>
        BY StackFacts
      <4>2. Last(fs).at <= Len(cs)
        BY <1>1, <4>1, TopFacts
      <4> QED BY <1>1, <1>8, <2>1, <4>1, <4>2, TopFacts
    <3> QED BY <1>8, <2>1, <3>1, <3>2, RunningFacts, TopFacts
  <2>2. CASE d # Len(cs)
    <3>1. d \in DOMAIN cs /\ d + 1 \in DOMAIN cs
      BY <1>1, <1>2, <1>8, <2>2
    <3> QED BY <1>2, <1>8, <3>1 DEF StackOK, Nested
  <2> QED BY <2>1, <2>2
<1>9. Nested(ds, fs, Len(ds))
  BY <1>7, <1>8 DEF Nested
<1> QED BY <1>2, <1>3, <1>4, <1>6, <1>9 DEF CallSeen

(* A call that passes through has no frame (PassThrough).                  *)
LEMMA StackPassed ==
  ASSUME NEW cs, NEW fs, NEW p, NEW h, StackOK(cs, fs, p, h), p \in {"dart", "callback"},
         Len(cs) < MaxCalls, NEW c \in CallType, c.invoked <=> p = "callback" \/ cs = <<>>,
         ~c.tracked, NEW ds, ds = Append(cs, c)
  PROVE  StackOK(ds, fs, "dart", h)
<1>1. /\ ds \in Seq(CallType) /\ Len(ds) = Len(cs) + 1 /\ DOMAIN ds = 1 .. Len(cs) + 1
      /\ ds[Len(cs) + 1] = c /\ ds[1].invoked
      /\ Ordered(ds, fs) /\ Covers(ds, fs, Len(cs)) /\ Nested(ds, fs, Len(ds))
  <2>1. CallSeen(cs, fs, c, ds)
    BY CallAdded
  <2> QED BY <2>1 DEF CallSeen
<1>2. ~Unwinding(fs, "dart")
  BY RunningFacts DEF Unwinding
<1>3. Len(cs) \in Nat
  BY StackFacts
<1>4. StackType(ds, fs, "dart", h)
  BY <1>1, <1>3, FramesAssumption DEF StackOK, StackType, Places
<1>5. Covers(ds, fs, Len(ds))
  BY <1>1, <1>3 DEF Covers
<1>6. TopOK(ds, fs, "dart", h)
  <2>1. ASSUME fs # <<>>
        PROVE  Settled(Last(fs)) /\ Last(fs).at # Len(ds)
    BY <1>1, <1>3, <2>1, TopFacts, RunningFacts
  <2> QED BY <2>1 DEF TopOK, Inside
<1>7. \A i \in DOMAIN fs : FrameOK(fs[i]) /\ Settled(fs[i])
  BY RunningFacts DEF StackOK
<1> QED BY <1>1, <1>2, <1>4, <1>5, <1>6, <1>7 DEF StackOK, Reach

(* A call with a frame of its own (PushFrame).                             *)
LEMMA StackPushed ==
  ASSUME NEW cs, NEW fs, NEW p, NEW h, StackOK(cs, fs, p, h), p \in {"dart", "callback"},
         Len(cs) < MaxCalls, NEW c \in CallType, c.invoked <=> p = "callback" \/ cs = <<>>,
         c.tracked, NEW ds, ds = Append(cs, c),
         Len(fs) < MaxDepth, NEW e \in FrameType, e.at = Len(cs) + 1, FrameOK(e),
         e.phase # "exception", NEW q \in Inside, Fits(e, q), NEW g, g = Append(fs, e)
  PROVE  StackOK(ds, g, q, h)
<1>1. /\ ds \in Seq(CallType) /\ Len(ds) = Len(cs) + 1 /\ DOMAIN ds = 1 .. Len(cs) + 1
      /\ ds[Len(cs) + 1] = c /\ ds[1].invoked
      /\ Ordered(ds, fs) /\ Covers(ds, fs, Len(cs)) /\ Nested(ds, fs, Len(ds))
  <2>1. CallSeen(cs, fs, c, ds)
    BY CallAdded
  <2> QED BY <2>1 DEF CallSeen
<1>2. /\ Len(cs) \in Nat /\ Len(fs) \in Nat /\ fs \in Seq(FrameType)
      /\ DOMAIN fs = 1 .. Len(fs)
  BY StackFacts
<1>3. /\ g \in Seq(FrameType) /\ Len(g) = Len(fs) + 1 /\ DOMAIN g = 1 .. Len(fs) + 1
      /\ g # <<>> /\ Last(g) = e /\ g[Len(fs) + 1] = e /\ \A i \in DOMAIN fs : g[i] = fs[i]
  BY <1>2 DEF Last
<1>4. ~Unwinding(g, q)
  BY <1>3 DEF Unwinding, Inside
<1>5. StackType(ds, g, q, h)
  BY <1>1, <1>2, <1>3, FramesAssumption DEF StackOK, StackType, Inside, Places
<1>6. Ordered(ds, g)
  <2>1. \A i \in DOMAIN fs : i <= fs[i].at /\ fs[i].at \in 1 .. Len(cs) /\ ds[fs[i].at].tracked
    BY <1>1, StackFacts DEF Ordered
  <2>2. Len(fs) <= Len(cs)
    <3>1. CASE Len(fs) = 0
      BY <1>2, <3>1
    <3>2. CASE Len(fs) # 0
      <4>1. Len(fs) \in DOMAIN fs
        BY <1>2, <3>2
      <4> QED BY <1>2, <2>1, <4>1
    <3> QED BY <3>1, <3>2
  <2>3. \A i \in DOMAIN g : i <= g[i].at /\ g[i].at <= Len(ds) /\ ds[g[i].at].tracked
    <3> TAKE i \in DOMAIN g
    <3>1. CASE i = Len(fs) + 1
      BY <1>1, <1>2, <1>3, <2>2, <3>1
    <3>2. CASE i # Len(fs) + 1
      <4>1. i \in DOMAIN fs
        BY <1>2, <1>3, <3>2
      <4> QED BY <1>1, <1>2, <1>3, <2>1, <4>1
    <3> QED BY <3>1, <3>2
  <2>4. \A i, j \in DOMAIN g : i < j => g[i].at < g[j].at
    <3> TAKE i, j \in DOMAIN g
    <3>1. CASE j = Len(fs) + 1
      BY <1>1, <1>2, <1>3, <2>1, <3>1
    <3>2. CASE j # Len(fs) + 1
      <4>1. i < j => i \in DOMAIN fs /\ j \in DOMAIN fs
        BY <1>2, <1>3, <3>2
      <4> QED BY <1>1, <1>3, <4>1 DEF Ordered
    <3> QED BY <3>1, <3>2
  <2> QED BY <2>3, <2>4 DEF Ordered
<1>7. Covers(ds, g, Len(ds))
  <2> SUFFICES ASSUME NEW d \in DOMAIN ds, ds[d].tracked
               PROVE  \E i \in DOMAIN g : g[i].at = d
    BY DEF Covers
  <2>1. CASE d = Len(cs) + 1
    <3>1. Len(fs) + 1 \in DOMAIN g /\ g[Len(fs) + 1].at = d
      BY <1>2, <1>3, <2>1
    <3> QED BY <3>1
  <2>2. CASE d # Len(cs) + 1
    <3>1. d <= Len(cs)
      BY <1>1, <1>2, <2>2
    <3>2. PICK i \in DOMAIN fs : fs[i].at = d
      BY <1>1, <3>1 DEF Covers
    <3>3. i \in DOMAIN g /\ g[i] = fs[i]
      BY <1>2, <1>3
    <3> QED BY <3>2, <3>3
  <2> QED BY <2>1, <2>2
<1>8. Nested(ds, g, Len(ds))
  <2>1. ASSUME NEW d \in DOMAIN ds, d + 1 \in DOMAIN ds, ds[d + 1].invoked
        PROVE  \E i \in DOMAIN g : g[i].at = d /\ InCallback(g[i])
    <3>1. PICK i \in DOMAIN fs : fs[i].at = d /\ InCallback(fs[i])
      BY <1>1, <1>2, <2>1 DEF Nested
    <3>2. i \in DOMAIN g /\ g[i] = fs[i]
      BY <1>2, <1>3
    <3> QED BY <3>1, <3>2
  <2>2. ASSUME NEW d \in DOMAIN ds, NEW i \in DOMAIN g,
               d + 1 \in DOMAIN ds, ~ds[d + 1].invoked, g[i].at = d
        PROVE  InDart(g[i]) \/ g[i].phase = "exception"
    <3>1. i # Len(fs) + 1
      BY <1>1, <1>2, <1>3, <2>2
    <3>2. i \in DOMAIN fs /\ g[i] = fs[i]
      BY <1>2, <1>3, <3>1
    <3> QED BY <1>1, <2>2, <3>2 DEF Nested
  <2> QED BY <2>1, <2>2 DEF Nested
<1>9. TopOK(ds, g, q, h)
  BY <1>1, <1>3 DEF TopOK, Inside, Outside
<1>10. \A i \in DOMAIN g : FrameOK(g[i]) /\ (i # Len(g) => Settled(g[i]))
  <2>1. \A i \in DOMAIN g : i # Len(g) => i \in DOMAIN fs
    BY <1>2, <1>3
  <2> QED BY <1>3, <2>1, RunningFacts DEF StackOK
<1> QED BY <1>1, <1>4, <1>5, <1>6, <1>7, <1>8, <1>9, <1>10 DEF StackOK, Reach

(* Shortening the Dart stack to the frames that are left                   *)
LEMMA CallsCut ==
  ASSUME NEW cs, NEW fs, NEW p, NEW h, StackOK(cs, fs, p, h), NEW k \in 0 .. Len(cs),
         k <= Reach(cs, fs, p, h), \A i \in DOMAIN fs : fs[i].at <= k /\ Settled(fs[i]),
         NEW q \in {"dart", "callback"}, NEW h2, h2.depth \in 0 .. MaxCalls,
         q = "dart" /\ fs # <<>> /\ Last(fs).at = k => InDart(Last(fs)),
         q = "callback" => fs # <<>> /\ Last(fs).at = k /\ InCallback(Last(fs)),
         NEW ds, ds = SubSeq(cs, 1, k)
  PROVE  StackOK(ds, fs, q, h2)
<1>1. cs \in Seq(CallType) /\ Len(cs) \in Nat /\ DOMAIN cs = 1 .. Len(cs) /\ Len(cs) <= MaxCalls
  BY StackFacts
<1>2. /\ ds \in Seq(CallType) /\ Len(ds) = k /\ DOMAIN ds = 1 .. k
      /\ \A d \in 1 .. k : ds[d] = cs[d]
  BY <1>1, PrefixIs
<1> DEFINE b == Reach(cs, fs, p, h)
<1>3. b \in Nat /\ k <= b
  BY StackFacts DEF Reach
<1>4. Ordered(cs, fs) /\ Covers(cs, fs, b) /\ Nested(cs, fs, b) /\ StackType(cs, fs, p, h)
  BY DEF StackOK
<1> HIDE DEF b
<1>5. StackType(ds, fs, q, h2)
  BY <1>1, <1>2, <1>4, FramesAssumption DEF StackType, Places
<1>6. ~Unwinding(fs, q)
  <2>1. fs # <<>> => Settled(Last(fs))
    BY TopFacts
  <2> QED BY <2>1 DEF Unwinding, Settled, InDart, InCallback
<1>7. Ordered(ds, fs)
  <2>1. \A i \in DOMAIN fs : fs[i].at \in 1 .. k
    BY StackFacts
  <2> QED BY <1>2, <1>4, <2>1 DEF Ordered
<1>8. Covers(ds, fs, Len(ds))
  <2>1. \A d \in DOMAIN ds : d \in DOMAIN cs /\ d <= b /\ ds[d] = cs[d]
    BY <1>1, <1>2, <1>3
  <2> QED BY <1>4, <2>1 DEF Covers
<1>9. Nested(ds, fs, Len(ds))
  <2>1. \A d \in DOMAIN ds : d \in DOMAIN cs /\ d <= b
    BY <1>1, <1>2, <1>3
  <2>2. \A d \in DOMAIN ds : d + 1 \in DOMAIN ds => d + 1 \in DOMAIN cs /\ ds[d + 1] = cs[d + 1]
    BY <1>1, <1>2
  <2> QED BY <1>4, <2>1, <2>2 DEF Nested
<1>10. ds # <<>> => ds[1].invoked
  <2>1. ds # <<>> => 1 \in 1 .. k /\ cs # <<>>
    BY <1>1, <1>2
  <2> QED BY <1>2, <2>1 DEF StackOK
<1>11. TopOK(ds, fs, q, h2)
  <2>1. fs # <<>> => Settled(Last(fs))
    BY TopFacts
  <2>2. q = "callback" => Fits(Last(fs), q)
    BY DEF Fits
  <2> QED BY <1>2, <2>1, <2>2 DEF TopOK, Inside, Outside
<1>12. \A i \in DOMAIN fs : FrameOK(fs[i])
  BY DEF StackOK
<1> QED BY <1>5, <1>6, <1>7, <1>8, <1>9, <1>10, <1>11, <1>12 DEF StackOK, Reach

(* Who goes on when the innermost activation has ended (CallerOf)          *)
CallerIn(cs, i) == IF cs[i].invoked /\ i > 1 THEN "callback" ELSE "dart"

(* A return without a frame of its own goes back to the caller.            *)
LEMMA StackReturned ==
  ASSUME NEW cs, NEW fs, NEW h, StackOK(cs, fs, "dart", h), Len(cs) > 0,
         fs # <<>> => Last(fs).at # Len(cs), NEW ds, ds = SubSeq(cs, 1, Len(cs) - 1)
  PROVE  StackOK(ds, fs, CallerIn(cs, Len(cs)), h)
<1> DEFINE k == Len(cs) - 1
           q == CallerIn(cs, Len(cs))
<1>1. Len(cs) \in Nat /\ DOMAIN cs = 1 .. Len(cs)
  BY StackFacts
<1>2. k \in 0 .. Len(cs) /\ ds = SubSeq(cs, 1, k) /\ Len(cs) = k + 1 /\ k \in Nat
  BY <1>1
<1>3. Reach(cs, fs, "dart", h) = Len(cs)
  BY RunningFacts DEF Reach
<1>4. ASSUME NEW i \in DOMAIN fs
      PROVE  fs[i].at <= k /\ Settled(fs[i])
  <2>1. fs # <<>>
    BY StackFacts
  <2>2. Last(fs).at \in 1 .. Len(cs) /\ Last(fs).at # Len(cs) /\ fs[i].at <= Last(fs).at
    BY <2>1, TopFacts, StackFacts
  <2>3. fs[i].at \in Nat
    BY StackFacts
  <2> QED BY <1>1, <2>2, <2>3, RunningFacts
<1>5. Nested(cs, fs, Len(cs))
  BY <1>3 DEF StackOK
<1> HIDE DEF k
<1>6. q = "callback" => fs # <<>> /\ Last(fs).at = k /\ InCallback(Last(fs))
  <2> HAVE q = "callback"
  <2>1. cs[k + 1].invoked /\ k \in DOMAIN cs /\ k + 1 \in DOMAIN cs /\ k <= Len(cs)
    BY <1>1, <1>2 DEF CallerIn
  <2>2. PICK i \in DOMAIN fs : fs[i].at = k /\ InCallback(fs[i])
    BY <1>5, <2>1 DEF Nested
  <2>3. fs # <<>>
    BY StackFacts
  <2>4. Last(fs) = fs[Len(fs)] /\ Len(fs) \in DOMAIN fs
    BY <2>3, TopFacts
  <2>5. Last(fs).at <= k /\ Last(fs).at \in Nat
    BY <1>4, <2>4, StackFacts
  <2>6. i = Len(fs)
    BY <1>2, <2>2, <2>3, <2>5, TopFacts
  <2> QED BY <2>2, <2>3, <2>4, <2>6
<1>7. q = "dart" /\ fs # <<>> /\ Last(fs).at = k => InDart(Last(fs))
  <2> HAVE q = "dart" /\ fs # <<>> /\ Last(fs).at = k
  <2>1. Last(fs) = fs[Len(fs)] /\ Len(fs) \in DOMAIN fs /\ k \in 1 .. Len(cs)
    BY TopFacts
  <2>2. ~cs[k + 1].invoked /\ k + 1 \in DOMAIN cs /\ k \in DOMAIN cs
    BY <1>1, <1>2, <2>1 DEF CallerIn
  <2>3. InDart(Last(fs)) \/ Last(fs).phase = "exception"
    BY <1>5, <2>1, <2>2 DEF Nested
  <2>4. Settled(Last(fs))
    BY <1>4, <2>1
  <2> QED BY <2>3, <2>4 DEF Settled, InDart, InCallback
<1>8. q \in {"dart", "callback"}
  BY DEF CallerIn
<1>9. h.depth \in 0 .. MaxCalls
  BY DEF StackOK, StackType
<1>10. k <= Reach(cs, fs, "dart", h)
  BY <1>2, <1>3
<1> HIDE DEF q
<1>11. StackOK(ds, fs, q, h)
  BY <1>2, <1>4, <1>6, <1>7, <1>8, <1>9, <1>10, CallsCut
<1> QED BY <1>11 DEF q

(* A frame whose setup failed is dropped and its call goes on without.     *)
LEMMA StackFailed ==
  ASSUME NEW cs, NEW fs, NEW h, StackOK(cs, fs, "retire", h),
         NEW ph \in {"failed", "finished"}, Last(fs).phase = ph,
         NEW ds, ds = [cs EXCEPT ![Last(fs).at].tracked = FALSE], NEW g, g = Front(fs)
  PROVE  StackOK(ds, g, "dart", h) /\ (g # <<>> => Last(g).at < Len(cs)) /\ Last(fs).at = Len(cs)
<1> DEFINE a == Last(fs).at
<1>1. /\ cs \in Seq(CallType) /\ Len(cs) \in Nat /\ DOMAIN cs = 1 .. Len(cs)
      /\ fs \in Seq(FrameType) /\ Len(fs) \in Nat /\ DOMAIN fs = 1 .. Len(fs)
  BY StackFacts
<1>2. fs # <<>> /\ a = Len(cs) /\ ~Unwinding(fs, "retire")
  <2>1. fs # <<>> /\ (a = Len(cs) \/ Abandoned(Last(fs), "retire"))
    BY DEF StackOK, TopOK, Inside
  <2> QED BY <2>1 DEF Abandoned, Unwinding
<1>3. /\ Last(fs) = fs[Len(fs)] /\ Len(fs) \in DOMAIN fs /\ a \in DOMAIN cs
      /\ \A i \in DOMAIN fs : i # Len(fs) => fs[i].at < a
  BY <1>1, <1>2, TopFacts
<1>4. /\ g \in Seq(FrameType) /\ Len(g) = Len(fs) - 1 /\ DOMAIN g = 1 .. Len(fs) - 1
      /\ \A i \in 1 .. Len(fs) - 1 : g[i] = fs[i]
  BY <1>1, <1>2, FrontIs
<1>5. \A i \in DOMAIN g : i \in DOMAIN fs /\ i # Len(fs) /\ g[i] = fs[i] /\ fs[i].at < a
  BY <1>1, <1>3, <1>4
<1>6. /\ ds \in Seq(CallType) /\ Len(ds) = Len(cs) /\ DOMAIN ds = DOMAIN cs
      /\ \A d \in DOMAIN cs : d # a => ds[d] = cs[d]
      /\ \A d \in DOMAIN cs : ds[d].invoked = cs[d].invoked
      /\ ~ds[a].tracked
  <2> DEFINE c == [cs[a] EXCEPT !.tracked = FALSE]
  <2>1. c \in CallType /\ c.invoked = cs[a].invoked /\ ~c.tracked /\ ds = [cs EXCEPT ![a] = c]
    <3>1. cs[a] \in CallType
      BY <1>1, <1>3
    <3> QED BY <3>1 DEF CallType
  <2>2. a \in DOMAIN cs
    BY <1>3
  <2> HIDE DEF c, a
  <2>3. ds \in Seq(CallType) /\ Len(ds) = Len(cs) /\ DOMAIN ds = DOMAIN cs
    <3>1. cs \in Seq(CallType) /\ a \in 1 .. Len(cs) /\ c \in CallType
      BY <1>1, <2>1, <2>2
    <3>2. [cs EXCEPT ![a] = c] \in Seq(CallType) /\ Len([cs EXCEPT ![a] = c]) = Len(cs)
      BY ONLY <3>1, ExceptSeq
    <3> QED BY <2>1, <3>2
  <2>4. ds[a] = c /\ \A d \in DOMAIN cs : d # a => ds[d] = cs[d]
    BY <1>1, <2>1, <2>2
  <2>5. \A d \in DOMAIN cs : ds[d].invoked = cs[d].invoked
    BY <2>1, <2>4
  <2> QED BY <2>1, <2>3, <2>4, <2>5
<1> HIDE DEF a
<1>7. Ordered(cs, fs) /\ Covers(cs, fs, Len(cs)) /\ Nested(cs, fs, Len(cs))
  BY <1>2 DEF StackOK, Reach
<1>8. \A i \in DOMAIN g : FrameOK(g[i]) /\ Settled(g[i])
  BY <1>5 DEF StackOK
<1>9. g # <<>> => Len(g) \in DOMAIN g /\ Last(g) = g[Len(g)]
  BY <1>4, TopIs
<1>10. ~Unwinding(g, "dart")
  BY <1>8, <1>9 DEF Unwinding, Settled, InDart, InCallback
<1>11. StackType(ds, g, "dart", h)
  BY <1>1, <1>4, <1>6, FramesAssumption DEF StackOK, StackType, Places
<1>12. Ordered(ds, g)
  <2>1. \A i \in DOMAIN g : fs[i].at \in DOMAIN cs /\ fs[i].at # a
    BY <1>1, <1>5, StackFacts
  <2>2. ASSUME NEW i \in DOMAIN g
        PROVE  i <= g[i].at /\ g[i].at <= Len(ds) /\ ds[g[i].at].tracked
    <3>1. i \in DOMAIN fs /\ g[i] = fs[i] /\ fs[i].at \in DOMAIN cs /\ fs[i].at # a
      BY <1>5, <2>1
    <3>2. i <= fs[i].at /\ fs[i].at <= Len(cs) /\ cs[fs[i].at].tracked
      BY <1>7, <3>1 DEF Ordered
    <3>3. ds[fs[i].at] = cs[fs[i].at] /\ Len(ds) = Len(cs)
      BY <1>6, <3>1
    <3> QED BY <3>1, <3>2, <3>3
  <2>3. \A i, j \in DOMAIN g : i < j => g[i].at < g[j].at
    BY <1>5, <1>7 DEF Ordered
  <2> QED BY <2>2, <2>3 DEF Ordered
<1>13. Covers(ds, g, Len(ds))
  <2> SUFFICES ASSUME NEW d \in DOMAIN ds, ds[d].tracked
               PROVE  \E i \in DOMAIN g : g[i].at = d
    BY DEF Covers
  <2>1. d # a /\ d \in DOMAIN cs /\ cs[d].tracked /\ d <= Len(cs)
    BY <1>1, <1>6
  <2>2. PICK i \in DOMAIN fs : fs[i].at = d
    BY <1>7, <2>1 DEF Covers
  <2>3. i # Len(fs)
    BY <1>3, <2>1, <2>2 DEF a
  <2>4. i \in DOMAIN g
    BY <1>1, <1>4, <2>3
  <2> QED BY <1>5, <2>2, <2>4
<1>14. Nested(ds, g, Len(ds))
  <2>1. ASSUME NEW d \in DOMAIN ds, d + 1 \in DOMAIN ds, ds[d + 1].invoked
        PROVE  \E i \in DOMAIN g : g[i].at = d /\ InCallback(g[i])
    <3>1. cs[d + 1].invoked /\ d \in DOMAIN cs /\ d + 1 \in DOMAIN cs /\ d <= Len(cs)
      BY <1>1, <1>6, <2>1
    <3>2. PICK i \in DOMAIN fs : fs[i].at = d /\ InCallback(fs[i])
      BY <1>7, <3>1 DEF Nested
    <3>3. i # Len(fs)
      BY <1>3, <3>2 DEF InCallback
    <3>4. i \in DOMAIN g
      BY <1>1, <1>4, <3>3
    <3> QED BY <1>5, <3>2, <3>4
  <2>2. ASSUME NEW d \in DOMAIN ds, NEW i \in DOMAIN g,
               d + 1 \in DOMAIN ds, ~ds[d + 1].invoked, g[i].at = d
        PROVE  InDart(g[i]) \/ g[i].phase = "exception"
    BY <1>5, <1>6, <1>7, <2>2 DEF Nested
  <2> QED BY <2>1, <2>2 DEF Nested
<1>15. ds # <<>> => ds[1].invoked
  <2>1. 1 \in DOMAIN cs /\ cs # <<>>
    BY <1>1, <1>3
  <2> QED BY <1>6, <2>1 DEF StackOK
<1>16. g # <<>> => Last(g).at < Len(cs)
  BY <1>2, <1>5, <1>9
<1>17. TopOK(ds, g, "dart", h)
  <2>1. g # <<>> => Settled(Last(g)) /\ Last(g).at # Len(ds)
    BY <1>6, <1>8, <1>9, <1>16, <1>1, <1>5, StackFacts
  <2> QED BY <2>1 DEF TopOK, Inside
<1>18. StackOK(ds, g, "dart", h)
  BY <1>8, <1>10, <1>11, <1>12, <1>13, <1>14, <1>15, <1>17 DEF StackOK, Reach
<1> QED BY <1>2, <1>16, <1>18 DEF a

(* A finished frame returns to the caller of its call.                     *)
LEMMA StackFinished ==
  ASSUME NEW cs, NEW fs, NEW h, StackOK(cs, fs, "retire", h), Last(fs).phase = "finished",
         NEW ds, ds = SubSeq(cs, 1, Last(fs).at - 1), NEW g, g = Front(fs)
  PROVE  StackOK(ds, g, CallerIn(cs, Last(fs).at), h) /\ Len(ds) = Len(cs) - 1
<1> DEFINE es == [cs EXCEPT ![Last(fs).at].tracked = FALSE]
           n == Len(cs)
<1>1. /\ StackOK(es, g, "dart", h) /\ (g # <<>> => Last(g).at < Len(cs))
      /\ Last(fs).at = Len(cs)
  BY StackFailed
<1>2. fs # <<>>
  BY DEF StackOK, TopOK, Inside
<1>3. n \in Nat /\ n > 0 /\ DOMAIN cs = 1 .. n /\ cs \in Seq(CallType)
  BY <1>1, <1>2, StackFacts, TopFacts
<1>4. Len(es) = n /\ DOMAIN es = DOMAIN cs /\ es \in Seq(CallType)
  <2>1. DOMAIN es = DOMAIN cs
    OBVIOUS
  <2>2. es \in Seq(CallType) /\ Len(es) \in Nat /\ DOMAIN es = 1 .. Len(es)
    BY <1>1, StackFacts
  <2> HIDE DEF es
  <2> QED BY <1>3, <2>1, <2>2
<1>5. \A d \in DOMAIN cs : es[d].invoked = cs[d].invoked
  <2>1. \A d \in DOMAIN cs : cs[d] \in CallType
    BY <1>3
  <2> QED BY <2>1 DEF CallType
<1>6. \A d \in DOMAIN cs : d # n => es[d] = cs[d]
  BY <1>1
<1> HIDE DEF es
<1> DEFINE k == n - 1
<1>7. k \in 0 .. n /\ k \in Nat
  BY <1>3
<1>8. SubSeq(es, 1, k) = SubSeq(cs, 1, k)
  <2>1. \A d \in 1 .. k : es[d] = cs[d]
    BY <1>3, <1>6
  <2> HIDE DEF k
  <2>2. \A d \in 1 .. k : d \in DOMAIN cs
    BY <1>3, <1>7
  <2>3. /\ SubSeq(cs, 1, k) \in Seq(CallType) /\ Len(SubSeq(cs, 1, k)) = k
        /\ \A d \in 1 .. k : SubSeq(cs, 1, k)[d] = cs[d]
    BY <1>3, <1>7, PrefixIs
  <2>4. /\ SubSeq(es, 1, k) \in Seq(CallType) /\ Len(SubSeq(es, 1, k)) = k
        /\ \A d \in 1 .. k : SubSeq(es, 1, k)[d] = es[d]
    BY <1>4, <1>7, PrefixIs
  <2> QED BY <2>1, <2>3, <2>4, SeqEqual
<1>9. ds = SubSeq(es, 1, Len(es) - 1)
  BY <1>1, <1>4, <1>8
<1>10. g # <<>> => Last(g).at # Len(es)
  <2>1. g # <<>> => Last(g).at \in Nat
    BY <1>1, TopFacts, <1>3
  <2> QED BY <1>1, <1>3, <1>4, <2>1
<1>11. StackOK(ds, g, CallerIn(es, Len(es)), h)
  BY <1>1, <1>3, <1>4, <1>9, <1>10, StackReturned
<1>12. CallerIn(es, Len(es)) = CallerIn(cs, Last(fs).at)
  BY <1>1, <1>3, <1>4, <1>5 DEF CallerIn
<1>13. Len(ds) = Len(cs) - 1
  BY <1>1, <1>3, <1>7, PrefixIs
<1> QED BY <1>11, <1>12, <1>13

(* An abandoned frame is dropped and the exception goes on.                *)
LEMMA StackAbandoned ==
  ASSUME NEW cs, NEW fs, NEW h, StackOK(cs, fs, "retire", h), Last(fs).phase = "exception",
         NEW g, g = Front(fs)
  PROVE  StackOK(cs, g, "unwind", h)
<1> DEFINE a == Last(fs).at
           n == Len(fs)
<1>1. /\ cs \in Seq(CallType) /\ Len(cs) \in Nat /\ DOMAIN cs = 1 .. Len(cs)
      /\ fs \in Seq(FrameType) /\ n \in Nat /\ DOMAIN fs = 1 .. n /\ h.depth \in Nat
  BY StackFacts
<1>2. fs # <<>> /\ h.depth < a /\ Unwinding(fs, "retire")
  <2>1. fs # <<>> /\ (Fits(Last(fs), "retire") \/ h.depth < a)
    BY DEF StackOK, TopOK, Inside
  <2> QED BY <2>1 DEF Fits, Unwinding
<1>3. /\ Last(fs) = fs[n] /\ n \in DOMAIN fs /\ a \in 1 .. Len(cs)
      /\ \A i \in DOMAIN fs : i # n => fs[i].at < a
  BY <1>2, TopFacts
<1>4. /\ g \in Seq(FrameType) /\ Len(g) = n - 1 /\ DOMAIN g = 1 .. n - 1
      /\ \A i \in 1 .. n - 1 : g[i] = fs[i]
  BY <1>1, <1>2, FrontIs
<1>5. \A i \in DOMAIN g : i \in DOMAIN fs /\ i # n /\ g[i] = fs[i] /\ fs[i].at < a
  BY <1>1, <1>3, <1>4
<1>6. \A i \in DOMAIN fs : fs[i].at <= h.depth => i \in DOMAIN g
  BY <1>1, <1>2, <1>3, <1>4
<1>7. Ordered(cs, fs) /\ Covers(cs, fs, h.depth) /\ Nested(cs, fs, h.depth) /\ HandlerOK(cs, h)
  BY <1>2 DEF StackOK, Reach
<1>8. \A i \in DOMAIN g : FrameOK(g[i]) /\ Settled(g[i])
  BY <1>5 DEF StackOK
<1>9. g # <<>> => Len(g) \in DOMAIN g /\ Last(g) = g[Len(g)]
  BY <1>4, TopIs
<1>10. StackType(cs, g, "unwind", h)
  BY <1>1, <1>4, FramesAssumption DEF StackOK, StackType, Places
<1>11. Unwinding(g, "unwind") /\ Reach(cs, g, "unwind", h) = h.depth
  BY DEF Unwinding, Reach
<1> HIDE DEF n
<1>12. Ordered(cs, g)
  BY <1>5, <1>7 DEF Ordered
<1>13. Covers(cs, g, h.depth)
  <2> SUFFICES ASSUME NEW d \in DOMAIN cs, d <= h.depth, cs[d].tracked
               PROVE  \E i \in DOMAIN g : g[i].at = d
    BY DEF Covers
  <2>1. PICK i \in DOMAIN fs : fs[i].at = d
    BY <1>7 DEF Covers
  <2>2. i \in DOMAIN g
    BY <1>6, <2>1
  <2> QED BY <1>5, <2>1, <2>2
<1>14. Nested(cs, g, h.depth)
  <2>1. ASSUME NEW d \in DOMAIN cs, d + 1 \in DOMAIN cs, d <= h.depth, cs[d + 1].invoked
        PROVE  \E i \in DOMAIN g : g[i].at = d /\ InCallback(g[i])
    <3>1. PICK i \in DOMAIN fs : fs[i].at = d /\ InCallback(fs[i])
      BY <1>7, <2>1 DEF Nested
    <3>2. i \in DOMAIN g
      BY <1>6, <2>1, <3>1
    <3> QED BY <1>5, <3>1, <3>2
  <2>2. ASSUME NEW d \in DOMAIN cs, NEW i \in DOMAIN g,
               d + 1 \in DOMAIN cs, ~cs[d + 1].invoked, g[i].at = d
        PROVE  InDart(g[i]) \/ g[i].phase = "exception"
    BY <1>5, <1>7, <2>2 DEF Nested
  <2> QED BY <2>1, <2>2 DEF Nested
<1>15. TopOK(cs, g, "unwind", h)
  <2>1. g # <<>> => Settled(Last(g)) /\ Last(g).at # Len(cs)
    BY <1>1, <1>3, <1>5, <1>8, <1>9, StackFacts
  <2> QED BY <2>1 DEF TopOK, Inside, Outside
<1> QED BY <1>7, <1>8, <1>10, <1>11, <1>12, <1>13, <1>14, <1>15 DEF StackOK

(* The innermost activation that native code has called (LastInvoked)      *)
IsLastInvoked(cs, m) ==
  /\ m \in DOMAIN cs /\ cs[m].invoked
  /\ \A d \in DOMAIN cs : cs[d].invoked => d <= m

(* An exception is thrown, to a handler no further out than the last call  *)
(* from native code.                                                       *)
LEMMA StackThrown ==
  ASSUME NEW cs, NEW fs, NEW p, NEW h, StackOK(cs, fs, p, h), p \in {"dart", "callback"},
         NEW m, IsLastInvoked(cs, m), NEW k \in (m - 1) .. Len(cs),
         p = "callback" => k < Len(cs),
         NEW h2, h2.depth = k, h2.fp = FramePointer(k),
         h2.sp \in {FramePointer(k), FramePointer(k) - 1}
  PROVE  StackOK(cs, fs, "unwind", h2)
<1>1. Len(cs) \in Nat /\ DOMAIN cs = 1 .. Len(cs) /\ Len(cs) <= MaxCalls
  BY StackFacts
<1>2. m \in 1 .. Len(cs) /\ k \in 0 .. Len(cs)
  BY <1>1 DEF IsLastInvoked
<1>3. Covers(cs, fs, Len(cs)) /\ Nested(cs, fs, Len(cs))
  BY RunningFacts DEF StackOK, Reach
<1>4. Unwinding(fs, "unwind") /\ Reach(cs, fs, "unwind", h2) = k
  BY DEF Unwinding, Reach
<1>5. Covers(cs, fs, k) /\ Nested(cs, fs, k)
  <2>1. \A d \in DOMAIN cs : d <= Len(cs)
    BY <1>1
  <2> QED BY <1>3, <2>1 DEF Covers, Nested
<1>6. HandlerOK(cs, h2)
  <2>1. \A d \in DOMAIN cs : cs[d].invoked => d <= k + 1
    BY <1>1, <1>2 DEF IsLastInvoked
  <2> QED BY <1>2, <2>1 DEF HandlerOK
<1>7. StackType(cs, fs, "unwind", h2)
  BY <1>1, <1>2, FramesAssumption DEF StackOK, StackType, Places
<1>8. TopOK(cs, fs, "unwind", h2)
  <2>1. ASSUME fs # <<>>
        PROVE  Settled(Last(fs)) /\ (Last(fs).at = Len(cs) /\ k = Len(cs) => InDart(Last(fs)))
    <3>1. Settled(Last(fs)) /\ (p = "dart" /\ Last(fs).at = Len(cs) => InDart(Last(fs)))
      BY <2>1, RunningFacts, TopFacts
    <3>2. p = "callback" => k # Len(cs)
      <4> DEFINE n == Len(cs)
      <4>1. n \in Nat /\ k \in 0 .. n /\ (p = "callback" => k < n)
        BY <1>1, <1>2
      <4> HIDE DEF n
      <4>2. p = "callback" => k # n
        BY <4>1
      <4> QED BY <4>2 DEF n
    <3> QED BY <3>1, <3>2
  <2> QED BY <2>1 DEF TopOK, Inside, Outside
<1> QED BY <1>4, <1>5, <1>6, <1>7, <1>8 DEF StackOK

(* Comparing stack addresses tells whether an activation is left (Unwound).*)
LEMMA UnwoundIs ==
  ASSUME NEW f, f.at \in Nat, NEW h, h.depth \in Nat, h.fp = FramePointer(h.depth),
         h.sp \in {FramePointer(h.depth), FramePointer(h.depth) - 1}
  PROVE  Unwound(f, h) <=> h.depth < f.at
<1> DEFINE k == h.depth
           a == f.at
<1>1. MaxCalls \in Nat /\ k \in Nat /\ a \in Nat
  BY FramesAssumption
<1>2. h.fp = 2 * (MaxCalls - k) + 2 /\ FramePointer(a - 1) = 2 * (MaxCalls - (a - 1)) + 2
  BY DEF FramePointer
<1>3. h.sp \in {2 * (MaxCalls - k) + 2, 2 * (MaxCalls - k) + 1}
  <2>1. FramePointer(k) = 2 * (MaxCalls - k) + 2
    BY DEF FramePointer
  <2>2. FramePointer(k) - 1 = 2 * (MaxCalls - k) + 1
    BY <1>1, <2>1
  <2> QED BY <2>1, <2>2
<1>4. EntrySp(a - 1) = 2 * (MaxCalls - (a - 1)) + 1
  BY <1>1, <1>2 DEF EntrySp
<1>5. Unwound(f, h) <=> h.fp >= FramePointer(a - 1) \/ h.sp > EntrySp(a - 1)
  BY DEF Unwound
<1> HIDE DEF k, a
<1>6. Unwound(f, h) <=> k < a
  BY <1>1, <1>2, <1>3, <1>4, <1>5
<1> QED BY <1>6 DEF k, a

(* The exception has reached its handler.                                  *)
LEMMA StackCaught ==
  ASSUME NEW cs, NEW fs, NEW h, StackOK(cs, fs, "unwind", h),
         fs # <<>> => ~(h.depth < Last(fs).at),
         NEW ds, ds = SubSeq(cs, 1, h.depth), NEW h2, h2.depth = 0,
         NEW q, NEW m, cs # <<>> => IsLastInvoked(cs, m),
         q = IF h.depth > 0 /\ h.depth = m - 1 THEN "callback" ELSE "dart",
         cs # <<>> => m \in Nat
  PROVE  StackOK(ds, fs, q, h2)
<1> DEFINE k == h.depth
<1>1. Len(cs) \in Nat /\ DOMAIN cs = 1 .. Len(cs) /\ cs \in Seq(CallType)
  BY StackFacts
<1>2. Unwinding(fs, "unwind") /\ Reach(cs, fs, "unwind", h) = k
  BY DEF Unwinding, Reach
<1>3. HandlerOK(cs, h) /\ Nested(cs, fs, k) /\ TopOK(cs, fs, "unwind", h)
  BY <1>2 DEF StackOK
<1>4. k \in 0 .. Len(cs)
  BY <1>1, <1>3, StackFacts DEF HandlerOK
<1> HIDE DEF k
<1>5. fs # <<>> => Settled(Last(fs)) /\ Last(fs).at <= k /\ Last(fs).at \in Nat
  <2>1. fs # <<>> => Settled(Last(fs))
    BY <1>3 DEF TopOK, Outside, Inside
  <2>2. fs # <<>> => Last(fs).at \in Nat
    BY TopFacts, <1>1
  <2> QED BY <1>4, <2>1, <2>2 DEF k
<1>6. ASSUME NEW i \in DOMAIN fs
      PROVE  fs[i].at <= k /\ Settled(fs[i])
  <2>1. fs # <<>>
    BY StackFacts
  <2>2. fs[i].at \in Nat
    BY <1>1, StackFacts
  <2>3. i = Len(fs) \/ (fs[i].at < Last(fs).at /\ Settled(fs[i]))
    BY <2>1, TopFacts DEF StackOK
  <2>4. Last(fs) = fs[Len(fs)]
    BY <2>1, TopFacts
  <2> QED BY <1>4, <1>5, <2>1, <2>2, <2>3, <2>4
<1>7. q = "callback" => fs # <<>> /\ Last(fs).at = k /\ InCallback(Last(fs))
  <2> HAVE q = "callback"
  <2>1. k > 0 /\ k = m - 1
    BY DEF k
  <2>2. cs # <<>> /\ m \in DOMAIN cs /\ cs[m].invoked
    <3>1. cs # <<>>
      BY <1>1, <1>4, <2>1
    <3> QED BY <3>1 DEF IsLastInvoked
  <2>3. k \in DOMAIN cs /\ k + 1 \in DOMAIN cs /\ cs[k + 1].invoked
    BY <1>1, <1>4, <2>1, <2>2
  <2>4. PICK i \in DOMAIN fs : fs[i].at = k /\ InCallback(fs[i])
    BY <1>3, <1>4, <2>3 DEF Nested
  <2>5. fs # <<>>
    BY StackFacts
  <2>6. i = Len(fs)
    BY <1>4, <1>5, <2>4, <2>5, TopFacts
  <2> QED BY <2>4, <2>5, <2>6, TopFacts
<1>8. q = "dart" /\ fs # <<>> /\ Last(fs).at = k => InDart(Last(fs))
  <2> HAVE q = "dart" /\ fs # <<>> /\ Last(fs).at = k
  <2>1. CASE k = Len(cs)
    BY <1>3, <2>1 DEF TopOK, k, Inside, Outside
  <2>2. CASE k # Len(cs)
    <3>1. Last(fs) = fs[Len(fs)] /\ Len(fs) \in DOMAIN fs /\ k \in 1 .. Len(cs)
      BY TopFacts
    <3>2. k \in DOMAIN cs /\ k + 1 \in DOMAIN cs /\ k > 0 /\ cs # <<>>
      <4> DEFINE n == Len(cs)
      <4>1. n \in Nat /\ k \in 1 .. n /\ k # n /\ DOMAIN cs = 1 .. n
        BY <1>1, <2>2, <3>1
      <4>2. cs = <<>> => n = 0
        OBVIOUS
      <4> HIDE DEF n
      <4> QED BY <4>1, <4>2
    <3>3. m \in DOMAIN cs /\ m <= k + 1 /\ (cs[k + 1].invoked => k + 1 <= m) /\ m # k + 1
      BY <1>1, <1>3, <3>2 DEF HandlerOK, IsLastInvoked, k
    <3>4. ~cs[k + 1].invoked
      BY <1>1, <3>2, <3>3
    <3>5. InDart(Last(fs)) \/ Last(fs).phase = "exception"
      BY <1>3, <3>1, <3>2, <3>4 DEF Nested
    <3> QED BY <1>5, <3>5 DEF Settled, InDart, InCallback
  <2> QED BY <2>1, <2>2
<1>9. q \in {"dart", "callback"} /\ h2.depth \in 0 .. MaxCalls /\ k <= Reach(cs, fs, "unwind", h)
  BY <1>2, <1>4, FramesAssumption
<1>10. ds = SubSeq(cs, 1, k)
  BY DEF k
<1> QED BY <1>4, <1>6, <1>7, <1>8, <1>9, <1>10, CallsCut

-----------------------------------------------------------------------------
(* The stacks of all threads                                               *)

(* The stack of thread t becomes that of the arguments.                    *)
StackBecomes(t, cs, fs, p, h) ==
  /\ calls' = [calls EXCEPT ![t] = cs] /\ frames' = [frames EXCEPT ![t] = fs]
  /\ pc' = [pc EXCEPT ![t] = p] /\ handler' = [handler EXCEPT ![t] = h]

(* The frame on top of t's stack is written: its roots, its bridge.        *)
Rewrites(t, lease, bridge) ==
  /\ frames[t] # <<>>
  /\ \E e \in FrameType :
       /\ frames' = [frames EXCEPT ![t] = [frames[t] EXCEPT ![Len(frames[t])] = e]]
       /\ (e.lease <=> lease) /\ (e.bridge <=> bridge) /\ (e.bound <=> Top(t).bound)

(* No frame gains or loses roots or a bridge.                              *)
KeepsBridges(t) == UNCHANGED frames \/ Rewrites(t, Top(t).lease, Top(t).bridge)

(* What a thread leaves alone is what it was.                              *)
LEMMA StackKept ==
  ASSUME StacksInv, NEW t \in Threads
  PROVE  /\ StackOK(calls[t], frames[t], pc[t], handler[t])
         /\ calls = [calls EXCEPT ![t] = calls[t]] /\ frames = [frames EXCEPT ![t] = frames[t]]
         /\ handler = [handler EXCEPT ![t] = handler[t]] /\ pc = [pc EXCEPT ![t] = pc[t]]
BY DEF StacksInv

(* A thread that keeps its own stack in order keeps all of them in order.  *)
LEMMA StackStep ==
  ASSUME StacksInv, NEW t \in Threads, NEW cs, NEW fs, NEW p, NEW h,
         StackOK(cs, fs, p, h), StackBecomes(t, cs, fs, p, h)
  PROVE  StacksInv'
<1>1. /\ \A u \in Threads : /\ calls'[u] = IF u = t THEN cs ELSE calls[u]
                            /\ frames'[u] = IF u = t THEN fs ELSE frames[u]
                            /\ handler'[u] = IF u = t THEN h ELSE handler[u]
                            /\ pc'[u] = IF u = t THEN p ELSE pc[u]
  BY DEF StacksInv, StackBecomes, Everyone
<1>2. /\ calls' = [u \in Threads |-> calls'[u]] /\ frames' = [u \in Threads |-> frames'[u]]
      /\ handler' = [u \in Threads |-> handler'[u]]
  BY DEF StacksInv, StackBecomes
<1>3. p \in Places
  BY DEF StackOK, StackType
<1>4. pc' \in [Everyone -> Places]
  BY <1>3 DEF StacksInv, StackBecomes
<1>5. \A u \in Threads : StackOK(calls'[u], frames'[u], pc'[u], handler'[u])
  BY <1>1 DEF StacksInv
<1> QED BY <1>2, <1>4, <1>5 DEF StacksInv

(* The top of a stack that belongs to a dispatcher at work.                *)
LEMMA WorkingTop ==
  ASSUME StacksInv, NEW t \in Threads, pc[t] \in Inside \cup {"unwind"},
         pc[t] = "unwind" => frames[t] # <<>>
  PROVE  /\ frames[t] # <<>> /\ Top(t) = Last(frames[t]) /\ Top(t) \in FrameType
         /\ FrameOK(Top(t)) /\ frames[t] \in Seq(FrameType)
         /\ TopIndex(t) = Len(frames[t]) /\ TopIndex(t) \in DOMAIN frames[t]
         /\ Top(t) = frames[t][TopIndex(t)]
         /\ pc[t] \in Inside => \/ /\ Top(t).at = Len(calls[t]) /\ Fits(Top(t), pc[t])
                                   /\ ~Unwinding(frames[t], pc[t])
                                \/ /\ handler[t].depth < Top(t).at /\ Abandoned(Top(t), pc[t])
                                   /\ Unwinding(frames[t], pc[t])
<1>1. StackOK(calls[t], frames[t], pc[t], handler[t])
  BY StackKept
<1>2. frames[t] # <<>>
  BY <1>1 DEF StackOK, TopOK
<1>3. /\ Last(frames[t]) \in FrameType /\ FrameOK(Last(frames[t]))
      /\ Len(frames[t]) \in DOMAIN frames[t] /\ Last(frames[t]) = frames[t][Len(frames[t])]
  BY <1>1, <1>2, TopFacts
<1>4. ASSUME pc[t] \in Inside, Fits(Last(frames[t]), pc[t])
      PROVE  ~Unwinding(frames[t], pc[t])
  BY <1>4 DEF Fits, Unwinding, Inside, InCallback
<1>5. Abandoned(Last(frames[t]), pc[t]) => Unwinding(frames[t], pc[t])
  BY <1>2 DEF Abandoned, Unwinding
<1>6. frames[t] \in Seq(FrameType)
  BY <1>1, StackFacts
<1>7. pc[t] \in Inside =>
        \/ Last(frames[t]).at = Len(calls[t]) /\ Fits(Last(frames[t]), pc[t])
        \/ handler[t].depth < Last(frames[t]).at /\ Abandoned(Last(frames[t]), pc[t])
  BY <1>1 DEF StackOK, TopOK
<1> QED BY <1>2, <1>3, <1>4, <1>5, <1>6, <1>7 DEF Top, TopIndex

(* The thread goes on with the same stacks (TryLock, Observe, traps).      *)
LEMMA PlaceStep ==
  ASSUME StacksInv, NEW t \in Threads, pc[t] # "unwind", NEW q \in Places \ {"unwind"},
         TopOK(calls[t], frames[t], q, handler[t]), Goto(t, q), UnchangedStacks
  PROVE  StacksInv' /\ KeepsBridges(t)
<1>1. StackOK(calls[t], frames[t], q, handler[t])
  BY StackKept, PlaceMoved
<1>2. StackBecomes(t, calls[t], frames[t], q, handler[t])
  BY StackKept DEF StackBecomes, Goto, UnchangedStacks
<1> QED BY <1>1, <1>2, StackStep DEF KeepsBridges, UnchangedStacks

(* The thread writes the frame on top and goes on.                         *)
LEMMA FrameStep ==
  ASSUME StacksInv, NEW t \in Threads, frames[t] # <<>>, NEW e \in FrameType,
         e.at = Top(t).at, FrameOK(e), e.bound <=> Top(t).bound,
         NEW q, Goto(t, q), UNCHANGED <<calls, handler>>,
         frames' = [frames EXCEPT ![t] = [frames[t] EXCEPT ![Len(frames[t])] = e]],
         \/ /\ ~Unwinding(frames[t], pc[t]) /\ Top(t).at = Len(calls[t])
            /\ e.phase # "exception" /\ q \in Outside \cup Inside \cup {"trapped"}
            /\ (q \in Outside => InDart(e)) /\ (q \in Inside => Fits(e, q))
         \/ /\ Unwinding(frames[t], pc[t]) /\ handler[t].depth < Top(t).at
            /\ e.phase = "exception" /\ q \in Inside \cup {"trapped"}
            /\ (q \in Inside => Abandoned(e, q))
  PROVE  StacksInv' /\ Rewrites(t, e.lease, e.bridge)
<1> DEFINE g == [frames[t] EXCEPT ![Len(frames[t])] = e]
<1>1. StackOK(calls[t], frames[t], pc[t], handler[t])
  BY StackKept
<1>2. StackOK(calls[t], g, q, handler[t])
  <2>1. CASE ~Unwinding(frames[t], pc[t])
    BY <1>1, <2>1, ReplacedHere DEF Top
  <2>2. CASE Unwinding(frames[t], pc[t])
    BY <1>1, <2>2, ReplacedGone DEF Top
  <2> QED BY <2>1, <2>2
<1>3. StackBecomes(t, calls[t], g, q, handler[t])
  BY StackKept DEF StackBecomes, Goto
<1>4. StacksInv'
  BY <1>2, <1>3, StackStep
<1>5. Rewrites(t, e.lease, e.bridge)
  BY DEF Rewrites
<1> QED BY <1>4, <1>5

(* A thread with a frame goes on to where that frame fits.                 *)
LEMMA FittingStep ==
  ASSUME StacksInv, NEW t \in Threads, pc[t] \in Inside, NEW q \in Inside \cup {"trapped"},
         q \in Inside => (Fits(Top(t), pc[t]) => Fits(Top(t), q)),
         q \in Inside => (Abandoned(Top(t), pc[t]) => Abandoned(Top(t), q)),
         Goto(t, q), UnchangedStacks
  PROVE  StacksInv' /\ KeepsBridges(t)
<1>1. StackOK(calls[t], frames[t], pc[t], handler[t])
  BY StackKept
<1>2. TopOK(calls[t], frames[t], pc[t], handler[t])
  BY <1>1 DEF StackOK
<1>3. pc[t] # "unwind" /\ q \in Places \ {"unwind"}
  BY DEF Inside, Places
<1>4. TopOK(calls[t], frames[t], q, handler[t])
  BY <1>2 DEF TopOK, Inside, Outside, Top
<1> QED BY <1>3, <1>4, PlaceStep

(* TryLock changes the place only.                                         *)
LEMMA TryLockStacks ==
  ASSUME StacksInv, NEW t \in Threads, NEW from, NEW holding,
         <<from, holding>> \in
           {<<"pin", "pinning">>, <<"cross", "crossing">>, <<"unpin", "unpinning">>},
         TryLock(t, from, holding)
  PROVE  StacksInv' /\ KeepsBridges(t)
<1>1. pc[t] \in Inside /\ holding \in Inside
  BY DEF TryLock, Inside
<1>2. /\ Fits(Top(t), pc[t]) => Fits(Top(t), holding)
      /\ Abandoned(Top(t), pc[t]) => Abandoned(Top(t), holding)
  BY DEF TryLock, Fits, Abandoned
<1> QED BY <1>1, <1>2, FittingStep DEF TryLock

(* UnpinBusy ends in FatalGeneratedBridgeFailure.                          *)
LEMMA UnpinBusyStacks ==
  ASSUME StacksInv, NEW t \in Threads, UnpinBusy(t)
  PROVE  StacksInv' /\ KeepsBridges(t)
BY FittingStep DEF UnpinBusy, Inside

(* EnsureBridge goes on to the callbacks, or gives the frame up.           *)
LEMMA EnsureBridgeStacks ==
  ASSUME StacksInv, NEW t \in Threads, EnsureBridge(t)
  PROVE  StacksInv' /\ KeepsBridges(t)
<1>1. pc[t] = "ensure" /\ pc[t] \in Inside
  BY DEF EnsureBridge, Inside
<1>2. /\ frames[t] # <<>> /\ Top(t) \in FrameType /\ FrameOK(Top(t))
      /\ Top(t) = Last(frames[t]) /\ TopIndex(t) = Len(frames[t])
      /\ TopIndex(t) \in DOMAIN frames[t] /\ Top(t) = frames[t][TopIndex(t)]
      /\ Top(t).at = Len(calls[t]) /\ Fits(Top(t), pc[t]) /\ ~Unwinding(frames[t], pc[t])
  BY <1>1, WorkingTop DEF Abandoned
<1>3. CASE Goto(t, "callback") /\ UNCHANGED <<frames, calls, handler>>
  <2>1. Fits(Top(t), pc[t]) => Fits(Top(t), "callback")
    BY <1>1 DEF Fits, InCallback
  <2>2. ~Abandoned(Top(t), pc[t]) /\ "callback" \in Inside
    BY <1>1 DEF Abandoned, Inside
  <2> QED BY <1>1, <1>3, <2>1, <2>2, FittingStep DEF UnchangedStacks
<1>4. CASE /\ frames' = [frames EXCEPT ![t][TopIndex(t)].phase = "failed"]
           /\ Goto(t, IF Top(t).bridge THEN "uncross" ELSE "retire")
           /\ UNCHANGED <<calls, handler>>
  <2> DEFINE e == [Top(t) EXCEPT !.phase = "failed"]
             q == IF Top(t).bridge THEN "uncross" ELSE "retire"
  <2>1. /\ e \in FrameType /\ e.phase = "failed" /\ e.at = Top(t).at
        /\ (e.bound <=> Top(t).bound) /\ (e.lease <=> Top(t).lease)
        /\ (e.bridge <=> Top(t).bridge) /\ (e.native <=> Top(t).native)
    BY <1>2 DEF FrameType, Phases
  <2>2. frames' = [frames EXCEPT ![t] = [frames[t] EXCEPT ![Len(frames[t])] = e]]
    BY <1>2, <1>4 DEF StacksInv
  <2> HIDE DEF e
  <2>3. FrameOK(e)
    BY <1>2, <2>1 DEF FrameOK
  <2>4. q \in Inside /\ Fits(e, q)
    BY <1>1, <1>2, <2>1 DEF Fits, Inside, FrameOK
  <2>5. q \notin Outside /\ Goto(t, q)
    BY <1>4 DEF Outside
  <2> HIDE DEF q
  <2>6. StacksInv' /\ Rewrites(t, e.lease, e.bridge)
    BY <1>2, <1>4, <2>1, <2>2, <2>3, <2>4, <2>5, FrameStep
  <2> QED BY <2>1, <2>6 DEF KeepsBridges, Rewrites
<1> QED BY <1>3, <1>4 DEF EnsureBridge

(* PinRefused gives up the callbacks, or traps.                            *)
LEMMA PinRefusedStacks ==
  ASSUME StacksInv, NEW t \in Threads, pc[t] \in {"pin", "pinning"}, PinRefused(t)
  PROVE  StacksInv' /\ KeepsBridges(t)
<1>1. pc[t] \in Inside
  BY DEF Inside
<1>2. /\ frames[t] # <<>> /\ Top(t) \in FrameType /\ FrameOK(Top(t))
      /\ Top(t) = Last(frames[t]) /\ TopIndex(t) = Len(frames[t])
      /\ TopIndex(t) \in DOMAIN frames[t] /\ Top(t) = frames[t][TopIndex(t)]
      /\ Top(t).at = Len(calls[t]) /\ Fits(Top(t), pc[t]) /\ ~Unwinding(frames[t], pc[t])
  BY <1>1, WorkingTop DEF Abandoned
<1> DEFINE ph == CASE Top(t).phase = "enter" -> "failed"
                   [] Top(t).phase = "leave" -> "finished" [] OTHER -> Top(t).phase
           e == [Top(t) EXCEPT !.phase = ph]
           q == IF Top(t).phase = "body" THEN "trapped" ELSE "retire"
<1>3. /\ ~Top(t).lease /\ Top(t).phase \in {"enter", "body", "leave"}
      /\ ~Top(t).native
  BY <1>2 DEF Fits
<1>4. /\ ph \in Phases /\ ph # "exception"
      /\ Top(t).phase # "body" => ph \in {"failed", "finished"}
  BY <1>3 DEF Phases
<1>5. frames' = [frames EXCEPT ![t] = [frames[t] EXCEPT ![Len(frames[t])] = e]]
  BY <1>2 DEF StacksInv, PinRefused
<1> HIDE DEF ph
<1>6. /\ e \in FrameType /\ e.phase = ph /\ e.at = Top(t).at
      /\ (e.bound <=> Top(t).bound) /\ (e.lease <=> Top(t).lease)
      /\ (e.bridge <=> Top(t).bridge) /\ (e.native <=> Top(t).native)
  BY <1>2, <1>4 DEF FrameType
<1> HIDE DEF e
<1>7. FrameOK(e)
  BY <1>2, <1>6 DEF FrameOK
<1>8. q \in Inside => Fits(e, q)
  BY <1>3, <1>4, <1>6 DEF Fits, Inside
<1>9. /\ q \in Inside \cup {"trapped"} /\ q \notin Outside
      /\ Goto(t, q) /\ UNCHANGED <<calls, handler>>
  BY DEF PinRefused, Outside, Inside
<1> HIDE DEF q
<1>10. StacksInv' /\ Rewrites(t, e.lease, e.bridge)
  BY <1>2, <1>4, <1>5, <1>6, <1>7, <1>8, <1>9, FrameStep
<1> QED BY <1>6, <1>10 DEF KeepsBridges, Rewrites

(* CrossRefused gives up the callbacks and then the roots.                 *)
LEMMA CrossRefusedStacks ==
  ASSUME StacksInv, NEW t \in Threads, pc[t] \in {"cross", "crossing"}, CrossRefused(t)
  PROVE  StacksInv' /\ KeepsBridges(t)
<1>1. pc[t] \in Inside
  BY DEF Inside
<1>2. /\ frames[t] # <<>> /\ Top(t) \in FrameType /\ FrameOK(Top(t))
      /\ Top(t) = Last(frames[t]) /\ TopIndex(t) = Len(frames[t])
      /\ TopIndex(t) \in DOMAIN frames[t] /\ Top(t) = frames[t][TopIndex(t)]
      /\ Top(t).at = Len(calls[t]) /\ Fits(Top(t), pc[t]) /\ ~Unwinding(frames[t], pc[t])
  BY <1>1, WorkingTop DEF Abandoned
<1> DEFINE ph == IF Top(t).phase = "enter" THEN "failed" ELSE "finished"
           e == [Top(t) EXCEPT !.phase = ph]
<1>3. Top(t).lease /\ ~Top(t).bridge /\ ~Top(t).native
  BY <1>2 DEF Fits
<1>4. ph \in {"failed", "finished"}
  OBVIOUS
<1>5. frames' = [frames EXCEPT ![t] = [frames[t] EXCEPT ![Len(frames[t])] = e]]
  BY <1>2 DEF StacksInv, CrossRefused
<1> HIDE DEF ph
<1>6. /\ e \in FrameType /\ e.phase = ph /\ e.at = Top(t).at
      /\ (e.bound <=> Top(t).bound) /\ (e.lease <=> Top(t).lease)
      /\ (e.bridge <=> Top(t).bridge) /\ (e.native <=> Top(t).native)
  BY <1>2, <1>4 DEF FrameType, Phases
<1> HIDE DEF e
<1>7. FrameOK(e)
  BY <1>2, <1>6 DEF FrameOK
<1>8. Fits(e, "unpin") /\ "unpin" \in Inside \ Outside
  BY <1>3, <1>4, <1>6 DEF Fits, Inside, Outside
<1>9. Goto(t, "unpin") /\ UNCHANGED <<calls, handler>>
  BY DEF CrossRefused
<1>10. StacksInv' /\ Rewrites(t, e.lease, e.bridge)
  BY <1>2, <1>4, <1>5, <1>6, <1>7, <1>8, <1>9, FrameStep
<1> QED BY <1>6, <1>10 DEF KeepsBridges, Rewrites

(* Pin: the frame has its roots, and its callbacks or its original go on.  *)
LEMMA PinStacks ==
  ASSUME StacksInv, NEW t \in Threads, Pin(t), NEW yes \in BOOLEAN, yes
  PROVE  StacksInv' /\ Rewrites(t, yes, Top(t).bridge) /\ ~Top(t).lease /\ Top(t).bound
<1>1. pc[t] = "pinning" /\ pc[t] \in Inside
  BY DEF Pin, Inside
<1>2. /\ frames[t] # <<>> /\ Top(t) \in FrameType /\ FrameOK(Top(t))
      /\ Top(t) = Last(frames[t]) /\ TopIndex(t) = Len(frames[t])
      /\ TopIndex(t) \in DOMAIN frames[t] /\ Top(t) = frames[t][TopIndex(t)]
      /\ Top(t).at = Len(calls[t]) /\ Fits(Top(t), pc[t]) /\ ~Unwinding(frames[t], pc[t])
  BY <1>1, WorkingTop DEF Abandoned
<1> DEFINE e == [Top(t) EXCEPT !.lease = TRUE]
           q == IF Top(t).phase = "body" THEN "dart" ELSE "cross"
<1>3. /\ ~Top(t).lease /\ ~Top(t).native /\ Top(t).bound
      /\ Top(t).phase \in {"enter", "body", "leave"}
  BY <1>1, <1>2 DEF Fits
<1>4. frames' = [frames EXCEPT ![t] = [frames[t] EXCEPT ![Len(frames[t])] = e]]
  BY <1>2 DEF StacksInv, Pin
<1>5. /\ e \in FrameType /\ e.phase = Top(t).phase /\ e.at = Top(t).at /\ e.lease
      /\ (e.bound <=> Top(t).bound) /\ (e.bridge <=> Top(t).bridge)
      /\ (e.native <=> Top(t).native)
  BY <1>2 DEF FrameType
<1> HIDE DEF e
<1>6. FrameOK(e) /\ ~e.bridge
  BY <1>2, <1>3, <1>5 DEF FrameOK
<1>7. q \in Outside \cup Inside /\ (q \in Inside => Fits(e, q)) /\ (q \in Outside => InDart(e))
  BY <1>3, <1>5, <1>6 DEF Fits, Inside, Outside, InDart
<1>8. Goto(t, q) /\ UNCHANGED <<calls, handler>> /\ e.phase # "exception"
  BY <1>3, <1>5 DEF Pin
<1> HIDE DEF q
<1>9. StacksInv' /\ Rewrites(t, e.lease, e.bridge)
  BY <1>2, <1>4, <1>5, <1>6, <1>7, <1>8, FrameStep
<1> QED BY <1>3, <1>5, <1>9 DEF Rewrites

(* Cross: the frame is native behind the bridge, before its callbacks.     *)
LEMMA CrossStacks ==
  ASSUME StacksInv, NEW t \in Threads, Cross(t), NEW yes \in BOOLEAN, yes
  PROVE  /\ StacksInv' /\ Rewrites(t, Top(t).lease, yes)
         /\ Top(t).lease /\ ~Top(t).bridge
<1>1. pc[t] = "crossing" /\ pc[t] \in Inside
  BY DEF Cross, Inside
<1>2. /\ frames[t] # <<>> /\ Top(t) \in FrameType /\ FrameOK(Top(t))
      /\ Top(t) = Last(frames[t]) /\ TopIndex(t) = Len(frames[t])
      /\ TopIndex(t) \in DOMAIN frames[t] /\ Top(t) = frames[t][TopIndex(t)]
      /\ Top(t).at = Len(calls[t]) /\ Fits(Top(t), pc[t]) /\ ~Unwinding(frames[t], pc[t])
  BY <1>1, WorkingTop DEF Abandoned
<1> DEFINE e == [Top(t) EXCEPT !.bridge = TRUE]
           q == IF Top(t).phase = "enter" THEN "ensure" ELSE "callback"
<1>3. /\ Top(t).lease /\ ~Top(t).bridge /\ ~Top(t).native
      /\ Top(t).phase \in {"enter", "leave"}
  BY <1>1, <1>2 DEF Fits
<1>4. frames' = [frames EXCEPT ![t] = [frames[t] EXCEPT ![Len(frames[t])] = e]]
  BY <1>2 DEF StacksInv, Cross
<1>5. /\ e \in FrameType /\ e.phase = Top(t).phase /\ e.at = Top(t).at /\ e.bridge
      /\ (e.bound <=> Top(t).bound) /\ (e.lease <=> Top(t).lease)
      /\ (e.native <=> Top(t).native)
  BY <1>2 DEF FrameType
<1> HIDE DEF e
<1>6. FrameOK(e)
  BY <1>2, <1>3, <1>5 DEF FrameOK
<1>7. q \in Inside \ Outside /\ Fits(e, q)
  BY <1>3, <1>5, <1>6 DEF Fits, Inside, Outside, InCallback
<1>8. Goto(t, q) /\ UNCHANGED <<calls, handler>> /\ e.phase # "exception"
  BY <1>3, <1>5 DEF Cross
<1> HIDE DEF q
<1>9. StacksInv' /\ Rewrites(t, e.lease, e.bridge)
  BY <1>2, <1>4, <1>5, <1>6, <1>7, <1>8, FrameStep
<1> QED BY <1>3, <1>5, <1>9 DEF Rewrites

(* Uncross: the frame is out of the bridge again, or the process traps.    *)
LEMMA UncrossStacks ==
  ASSUME StacksInv, NEW t \in Threads, Uncross(t), NEW no \in BOOLEAN, ~no
  PROVE  /\ StacksInv' /\ Top(t).bridge
         /\ IF adapter.owner_thread = t /\ adapter.entered = 1 /\ adapter.observer = None
            THEN Rewrites(t, Top(t).lease, no) ELSE KeepsBridges(t)
<1>1. pc[t] = "uncross" /\ pc[t] \in Inside
  BY DEF Uncross, Inside
<1>2. /\ frames[t] # <<>> /\ Top(t) \in FrameType /\ FrameOK(Top(t))
      /\ Top(t) = Last(frames[t]) /\ TopIndex(t) = Len(frames[t])
      /\ TopIndex(t) \in DOMAIN frames[t] /\ Top(t) = frames[t][TopIndex(t)]
      /\ \/ /\ Top(t).at = Len(calls[t]) /\ Fits(Top(t), pc[t])
            /\ ~Unwinding(frames[t], pc[t])
         \/ /\ handler[t].depth < Top(t).at /\ Abandoned(Top(t), pc[t])
            /\ Unwinding(frames[t], pc[t])
  BY <1>1, WorkingTop
<1>3. Top(t).bridge /\ Top(t).lease
  BY <1>1, <1>2 DEF Fits, Abandoned, FrameOK
<1> DEFINE able == adapter.owner_thread = t /\ adapter.entered = 1 /\ adapter.observer = None
<1>4. CASE able
  <2> DEFINE e == [Top(t) EXCEPT !.bridge = FALSE]
  <2>1. frames' = [frames EXCEPT ![t] = [frames[t] EXCEPT ![Len(frames[t])] = e]]
    BY <1>2, <1>4 DEF StacksInv, Uncross
  <2>2. /\ e \in FrameType /\ e.phase = Top(t).phase /\ e.at = Top(t).at /\ ~e.bridge
        /\ (e.bound <=> Top(t).bound) /\ (e.lease <=> Top(t).lease)
        /\ (e.native <=> Top(t).native)
    BY <1>2 DEF FrameType
  <2> HIDE DEF e
  <2>3. FrameOK(e)
    BY <1>2, <1>3, <2>2 DEF FrameOK
  <2>4. /\ Fits(Top(t), pc[t]) => Fits(e, "unpin") /\ e.phase # "exception"
        /\ Abandoned(Top(t), pc[t]) => Abandoned(e, "unpin") /\ e.phase = "exception"
    BY <1>1, <1>3, <2>2 DEF Fits, Abandoned
  <2>5. Goto(t, "unpin") /\ UNCHANGED <<calls, handler>> /\ "unpin" \in Inside \ Outside
    BY <1>4 DEF Uncross, Inside, Outside
  <2>6. StacksInv' /\ Rewrites(t, e.lease, e.bridge)
    BY <1>2, <2>1, <2>2, <2>3, <2>4, <2>5, FrameStep
  <2> QED BY <1>3, <1>4, <2>2, <2>6 DEF Rewrites
<1>5. CASE ~able
  <2>1. Goto(t, "trapped") /\ UnchangedStacks
    BY <1>5 DEF Uncross, UnchangedStacks
  <2>2. "trapped" \notin Inside
    BY DEF Inside
  <2>3. StacksInv' /\ KeepsBridges(t)
    BY <1>1, <2>1, <2>2, FittingStep
  <2> QED BY <1>3, <1>5, <2>3
<1> QED BY <1>4, <1>5

(* Unpin: the frame gives its roots back and goes on as its phase says.    *)
LEMMA UnpinStacks ==
  ASSUME StacksInv, NEW t \in Threads, Unpin(t), NEW no \in BOOLEAN, ~no
  PROVE  /\ StacksInv' /\ Top(t).lease /\ ~Top(t).bridge
         /\ IF MayOwn(t) /\ InGeneratedState
            THEN Rewrites(t, no, Top(t).bridge) ELSE KeepsBridges(t)
<1>1. pc[t] = "unpinning" /\ pc[t] \in Inside
  BY DEF Unpin, Inside
<1>2. /\ frames[t] # <<>> /\ Top(t) \in FrameType /\ FrameOK(Top(t))
      /\ Top(t) = Last(frames[t]) /\ TopIndex(t) = Len(frames[t])
      /\ TopIndex(t) \in DOMAIN frames[t] /\ Top(t) = frames[t][TopIndex(t)]
      /\ \/ /\ Top(t).at = Len(calls[t]) /\ Fits(Top(t), pc[t])
            /\ ~Unwinding(frames[t], pc[t])
         \/ /\ handler[t].depth < Top(t).at /\ Abandoned(Top(t), pc[t])
            /\ Unwinding(frames[t], pc[t])
  BY <1>1, WorkingTop
<1>3. Top(t).lease /\ ~Top(t).bridge /\ Top(t).bound
  BY <1>1, <1>2 DEF Fits, Abandoned, FrameOK
<1>4. CASE MayOwn(t) /\ InGeneratedState
  <2> DEFINE ph == AfterUnpin(Top(t)).phase
             q == AfterUnpin(Top(t)).go
             e == [Top(t) EXCEPT !.lease = FALSE, !.phase = ph]
  <2>1. frames' = [frames EXCEPT ![t] = [frames[t] EXCEPT ![Len(frames[t])] = e]]
    BY <1>2, <1>4 DEF StacksInv, Unpin
  <2>2. \/ Top(t).phase \in {"enter", "return"} /\ ph \in {"leave", "body"} /\ q = "pin"
        \/ Top(t).phase \notin {"enter", "return"} /\ ph = Top(t).phase /\ q = "retire"
    <3>1. Top(t).skip_original \in BOOLEAN
      BY <1>2 DEF FrameType
    <3> QED BY <3>1 DEF AfterUnpin
  <2>3. ph \in Phases
    BY <1>2, <2>2 DEF FrameType, Phases
  <2>4. Goto(t, q) /\ UNCHANGED <<calls, handler>> /\ q \in Inside \ Outside
    BY <1>4, <2>2 DEF Unpin, Inside, Outside
  <2> HIDE DEF ph, q
  <2>5. /\ e \in FrameType /\ e.phase = ph /\ e.at = Top(t).at /\ ~e.lease
        /\ (e.bound <=> Top(t).bound) /\ (e.bridge <=> Top(t).bridge)
        /\ (e.native <=> Top(t).native)
    BY <1>2, <2>3 DEF FrameType
  <2> HIDE DEF e
  <2>6. FrameOK(e)
    BY <1>2, <1>3, <2>5 DEF FrameOK
  <2>7. /\ Fits(Top(t), pc[t]) => Fits(e, q) /\ e.phase # "exception"
        /\ Abandoned(Top(t), pc[t]) => Abandoned(e, q) /\ e.phase = "exception"
    <3>1. Fits(Top(t), pc[t]) =>
            ~Top(t).native /\ Top(t).phase \in {"enter", "return", "failed", "finished"}
      BY <1>1 DEF Fits
    <3>2. Fits(Top(t), pc[t]) => Fits(e, q) /\ e.phase # "exception"
      BY <1>3, <2>2, <2>5, <3>1 DEF Fits
    <3>3. Abandoned(Top(t), pc[t]) => Abandoned(e, q) /\ e.phase = "exception"
      BY <1>3, <2>2, <2>5 DEF Abandoned
    <3> QED BY <3>2, <3>3
  <2>8. StacksInv' /\ Rewrites(t, e.lease, e.bridge)
    BY <1>2, <2>1, <2>4, <2>5, <2>6, <2>7, FrameStep
  <2> QED BY <1>3, <1>4, <2>5, <2>8 DEF Rewrites
<1>5. CASE ~(MayOwn(t) /\ InGeneratedState)
  <2>1. Goto(t, "trapped") /\ UnchangedStacks
    BY <1>5 DEF Unpin, UnchangedStacks
  <2>2. "trapped" \notin Inside
    BY DEF Inside
  <2>3. StacksInv' /\ KeepsBridges(t)
    BY <1>1, <2>1, <2>2, FittingStep
  <2> QED BY <1>3, <1>5, <2>3
<1> QED BY <1>4, <1>5

(* EnterDone: the original runs or is skipped, behind the bridge neither.  *)
LEMMA EnterDoneStacks ==
  ASSUME StacksInv, NEW t \in Threads, NEW skip \in BOOLEAN, EnterDone(t, skip)
  PROVE  StacksInv' /\ KeepsBridges(t)
<1>1. pc[t] = "callback" /\ pc[t] \in Inside /\ Top(t).phase = "enter"
  BY DEF EnterDone, Inside
<1>2. /\ frames[t] # <<>> /\ Top(t) \in FrameType /\ FrameOK(Top(t))
      /\ Top(t) = Last(frames[t]) /\ TopIndex(t) = Len(frames[t])
      /\ TopIndex(t) \in DOMAIN frames[t] /\ Top(t) = frames[t][TopIndex(t)]
      /\ Top(t).at = Len(calls[t]) /\ Fits(Top(t), pc[t]) /\ ~Unwinding(frames[t], pc[t])
  BY <1>1, WorkingTop DEF Abandoned
<1> DEFINE r == Top(t).listening
           s == Top(t).skip_original \/ (skip /\ Top(t).listening)
           ph == CASE Top(t).bridge -> "enter"
                   [] ~Top(t).bridge /\ s -> "leave" [] OTHER -> "body"
           q == CASE Top(t).bridge -> "uncross"
                  [] ~Top(t).bridge /\ s -> "callback" [] OTHER -> "dart"
           e == [Top(t) EXCEPT !.ran = r, !.skip_original = s, !.phase = ph]
<1>3. InCallback(Top(t)) /\ ~Top(t).native
  BY <1>1, <1>2 DEF Fits, InCallback
<1>4. r \in BOOLEAN /\ s \in BOOLEAN
  BY <1>2 DEF FrameType
<1>5. frames' = [frames EXCEPT ![t] = [frames[t] EXCEPT ![Len(frames[t])] = e]]
  BY <1>2 DEF StacksInv, EnterDone
<1>6. Goto(t, q) /\ UNCHANGED <<calls, handler>>
  BY DEF EnterDone
<1>7. \/ Top(t).bridge /\ ph = "enter" /\ q = "uncross"
      \/ ~Top(t).bridge /\ ph = "leave" /\ q = "callback"
      \/ ~Top(t).bridge /\ ph = "body" /\ q = "dart"
  BY <1>2, <1>4 DEF FrameType
<1> HIDE DEF r, s, ph, q
<1>8. /\ e \in FrameType /\ e.phase = ph /\ e.at = Top(t).at
      /\ (e.bound <=> Top(t).bound) /\ (e.lease <=> Top(t).lease)
      /\ (e.bridge <=> Top(t).bridge) /\ (e.native <=> Top(t).native)
  BY <1>2, <1>4, <1>7 DEF FrameType, Phases
<1> HIDE DEF e
<1>9. FrameOK(e) /\ e.phase # "exception" /\ q \in Outside \cup Inside
  BY <1>2, <1>7, <1>8 DEF FrameOK, Inside, Outside
<1>10. q \in Inside => Fits(e, q)
  BY <1>3, <1>7, <1>8 DEF Fits, InCallback, Inside
<1>11. q \in Outside => InDart(e)
  BY <1>3, <1>7, <1>8 DEF InCallback, InDart, Outside
<1>12. StacksInv' /\ Rewrites(t, e.lease, e.bridge)
  BY <1>2, <1>5, <1>6, <1>8, <1>9, <1>10, <1>11, FrameStep
<1> QED BY <1>8, <1>12 DEF KeepsBridges, Rewrites

(* LeaveDone: the frame is finished.                                       *)
LEMMA LeaveDoneStacks ==
  ASSUME StacksInv, NEW t \in Threads, LeaveDone(t)
  PROVE  StacksInv' /\ KeepsBridges(t)
<1>1. pc[t] = "callback" /\ pc[t] \in Inside /\ Top(t).phase = "leave"
  BY DEF LeaveDone, Inside
<1>2. /\ frames[t] # <<>> /\ Top(t) \in FrameType /\ FrameOK(Top(t))
      /\ Top(t) = Last(frames[t]) /\ TopIndex(t) = Len(frames[t])
      /\ TopIndex(t) \in DOMAIN frames[t] /\ Top(t) = frames[t][TopIndex(t)]
      /\ Top(t).at = Len(calls[t]) /\ Fits(Top(t), pc[t]) /\ ~Unwinding(frames[t], pc[t])
  BY <1>1, WorkingTop DEF Abandoned
<1> DEFINE r == Top(t).listening
           q == IF Top(t).bridge THEN "uncross" ELSE "retire"
           e == [Top(t) EXCEPT !.told = r, !.phase = "finished"]
<1>3. InCallback(Top(t)) /\ ~Top(t).native
  BY <1>1, <1>2 DEF Fits, InCallback
<1>4. r \in BOOLEAN
  BY <1>2 DEF FrameType
<1>5. frames' = [frames EXCEPT ![t] = [frames[t] EXCEPT ![Len(frames[t])] = e]]
  BY <1>2, ZenonT(30) DEF StacksInv, LeaveDone
<1>6. Goto(t, q) /\ UNCHANGED <<calls, handler>>
  BY DEF LeaveDone
<1>7. \/ Top(t).bridge /\ q = "uncross"
      \/ ~Top(t).bridge /\ q = "retire"
  OBVIOUS
<1> HIDE DEF r, q
<1>8. /\ e \in FrameType /\ e.phase = "finished" /\ e.at = Top(t).at
      /\ (e.bound <=> Top(t).bound) /\ (e.lease <=> Top(t).lease)
      /\ (e.bridge <=> Top(t).bridge) /\ (e.native <=> Top(t).native)
  BY <1>2, <1>4 DEF FrameType, Phases
<1> HIDE DEF e
<1>9. FrameOK(e) /\ e.phase # "exception" /\ q \in Inside \ Outside
  BY <1>2, <1>7, <1>8 DEF FrameOK, Inside, Outside
<1>10. Fits(e, q)
  BY <1>2, <1>3, <1>7, <1>8 DEF Fits, InCallback, FrameOK
<1>11. StacksInv' /\ Rewrites(t, e.lease, e.bridge)
  BY <1>2, <1>5, <1>6, <1>8, <1>9, <1>10, FrameStep
<1> QED BY <1>8, <1>11 DEF KeepsBridges, Rewrites

(* CallOriginal: Dart code runs for the callback.                          *)
LEMMA CallOriginalStacks ==
  ASSUME StacksInv, NEW t \in Threads, CallOriginal(t)
  PROVE  StacksInv' /\ KeepsBridges(t)
<1>1. /\ pc[t] = "callback" /\ pc[t] \in Inside /\ Top(t).phase = "enter"
      /\ ~Top(t).bridge
  BY DEF CallOriginal, Inside
<1>2. /\ frames[t] # <<>> /\ Top(t) \in FrameType /\ FrameOK(Top(t))
      /\ Top(t) = Last(frames[t]) /\ TopIndex(t) = Len(frames[t])
      /\ TopIndex(t) \in DOMAIN frames[t] /\ Top(t) = frames[t][TopIndex(t)]
      /\ Top(t).at = Len(calls[t]) /\ Fits(Top(t), pc[t]) /\ ~Unwinding(frames[t], pc[t])
  BY <1>1, WorkingTop DEF Abandoned
<1> DEFINE e == [Top(t) EXCEPT !.native = TRUE, !.called = TRUE, !.ran = TRUE]
<1>3. ~Top(t).bound
  BY <1>1, <1>2 DEF Fits, InCallback
<1>4. frames' = [frames EXCEPT ![t] = [frames[t] EXCEPT ![Len(frames[t])] = e]]
  BY <1>2 DEF StacksInv, CallOriginal
<1>5. /\ e \in FrameType /\ e.phase = "enter" /\ e.at = Top(t).at
      /\ (e.bound <=> Top(t).bound) /\ (e.lease <=> Top(t).lease)
      /\ (e.bridge <=> Top(t).bridge) /\ e.native
  BY <1>1, <1>2 DEF FrameType
<1> HIDE DEF e
<1>6. FrameOK(e) /\ InDart(e) /\ "dart" \in Outside \ Inside
  BY <1>2, <1>3, <1>5 DEF FrameOK, InDart, Outside, Inside
<1>7. Goto(t, "dart") /\ UNCHANGED <<calls, handler>> /\ e.phase # "exception"
  BY <1>5 DEF CallOriginal
<1>8. StacksInv' /\ Rewrites(t, e.lease, e.bridge)
  BY <1>2, <1>4, <1>5, <1>6, <1>7, FrameStep
<1> QED BY <1>5, <1>8 DEF KeepsBridges, Rewrites

(* An observation starts and ends between Dart code and callbacks.         *)
LEMMA ObservingStacks ==
  ASSUME StacksInv, NEW t \in Threads, Observing(t)
  PROVE  StacksInv' /\ UNCHANGED frames
<1>1. UnchangedStacks /\ UNCHANGED frames
  BY DEF Observing, Observe, EndObserve, UnchangedStacks
<1>2. CASE /\ Goto(t, "inspect") /\ pc[t] = "callback" /\ Top(t).bridge
  <2>1. Fits(Top(t), "callback") => Fits(Top(t), "inspect")
    BY <1>2 DEF Fits
  <2>2. pc[t] \in Inside /\ "inspect" \in Inside /\ ~Abandoned(Top(t), pc[t])
    BY <1>2 DEF Inside, Abandoned
  <2> QED BY <1>1, <1>2, <2>1, <2>2, FittingStep
<1>3. CASE Goto(t, "callback") /\ pc[t] = "inspect"
  <2>1. Fits(Top(t), "inspect") => Fits(Top(t), "callback")
    BY <1>3 DEF Fits
  <2>2. pc[t] \in Inside /\ "callback" \in Inside /\ ~Abandoned(Top(t), pc[t])
    BY <1>3 DEF Inside, Abandoned
  <2> QED BY <1>1, <1>3, <2>1, <2>2, FittingStep
<1>4. ASSUME NEW q \in Outside, pc[t] \in Outside, Goto(t, q)
      PROVE  StacksInv'
  <2>1. TopOK(calls[t], frames[t], pc[t], handler[t])
    BY StackKept DEF StackOK
  <2>2. TopOK(calls[t], frames[t], q, handler[t])
    BY <1>4, <2>1 DEF TopOK, Outside, Inside
  <2>3. pc[t] # "unwind" /\ q \in Places \ {"unwind"}
    BY <1>4 DEF Outside, Places
  <2> QED BY <1>1, <1>4, <2>2, <2>3, PlaceStep
<1>5. CASE Observe(t)
  <2>1. \/ pc[t] = "dart" /\ Goto(t, "observe")
        \/ pc[t] = "callback" /\ Top(t).bridge /\ Goto(t, "inspect")
    BY <1>5 DEF Observe
  <2> QED BY <1>1, <1>2, <1>4, <2>1 DEF Outside
<1>6. CASE EndObserve(t)
  <2>1. \/ pc[t] = "observe" /\ Goto(t, "dart")
        \/ pc[t] = "inspect" /\ Goto(t, "callback")
    BY <1>6 DEF EndObserve
  <2> QED BY <1>1, <1>3, <1>4, <2>1 DEF Outside
<1> QED BY <1>5, <1>6 DEF Observing

(* Workers, and what a callback does on the adapter, leave stacks alone.   *)
LEMMA OtherStacks ==
  ASSUME StacksInv, UnchangedStacks, pc' \in [Everyone -> Places],
         \A t \in Threads : pc'[t] = pc[t]
  PROVE  StacksInv' /\ UNCHANGED frames
BY DEF StacksInv, UnchangedStacks

(* PassThrough: a call without a frame.                                    *)
LEMMA PassThroughStacks ==
  ASSUME StacksInv, NEW t \in Threads, PassThrough(t)
  PROVE  /\ StacksInv' /\ UNCHANGED frames
         /\ \A u \in Threads : Len(calls[u]') >= Len(calls[u])
<1> DEFINE no == FALSE
           inv == pc[t] = "callback" \/ calls[t] = <<>>
           c == [tracked |-> no, invoked |-> inv]
           ds == Append(calls[t], c)
<1>1. no \in BOOLEAN /\ ~no /\ inv \in BOOLEAN
  OBVIOUS
<1>2. /\ pc[t] \in {"dart", "callback"} /\ Len(calls[t]) < MaxCalls
      /\ calls' = [calls EXCEPT ![t] = ds] /\ UNCHANGED <<frames, handler>> /\ Goto(t, "dart")
  BY DEF PassThrough, Called, StacksInv
<1>3. inv <=> pc[t] = "callback" \/ calls[t] = <<>>
  OBVIOUS
<1> HIDE DEF no, inv
<1>4. c \in CallType /\ ~c.tracked /\ (c.invoked <=> pc[t] = "callback" \/ calls[t] = <<>>)
  BY <1>1, <1>3 DEF CallType
<1> HIDE DEF c
<1>5. StackOK(calls[t], frames[t], pc[t], handler[t])
  BY StackKept
<1>6. StackOK(ds, frames[t], "dart", handler[t])
  BY <1>2, <1>4, <1>5, StackPassed
<1>7. StackBecomes(t, ds, frames[t], "dart", handler[t])
  BY <1>2, StackKept DEF StackBecomes, Goto
<1>8. StacksInv'
  BY <1>6, <1>7, StackStep
<1>9. ASSUME NEW u \in Threads
      PROVE  Len(calls[u]') >= Len(calls[u])
  <2>1. calls[u] \in Seq(CallType) /\ Len(calls[u]) \in Nat
    <3>1. StackOK(calls[u], frames[u], pc[u], handler[u])
      BY StackKept
    <3> QED BY <3>1, StackFacts
  <2>2. calls'[u] = IF u = t THEN ds ELSE calls[u]
    BY <1>2 DEF StacksInv
  <2>3. Len(Append(calls[u], c)) = Len(calls[u]) + 1
    BY <1>4, <2>1
  <2> QED BY <2>1, <2>2, <2>3
<1> QED BY <1>2, <1>8, <1>9

(* PushFrame: a call with a frame on top of the others.                    *)
LEMMA PushFrameStacks ==
  ASSUME StacksInv, NEW t \in Threads, NEW kind \in Kinds, NEW listening \in BOOLEAN,
         PushFrame(t, kind, listening)
  PROVE  /\ StacksInv'
         /\ \E e \in FrameType : /\ frames' = [frames EXCEPT ![t] = Append(frames[t], e)]
                                 /\ ~e.lease /\ ~e.bridge
                                 /\ e.bound <=> kind = "bound" /\ listening
         /\ \A u \in Threads : Len(calls[u]') >= Len(calls[u])
<1> DEFINE yes == TRUE
           no == FALSE
           inv == pc[t] = "callback" \/ calls[t] = <<>>
           c == [tracked |-> yes, invoked |-> inv]
           ds == Append(calls[t], c)
           bd == kind = "bound" /\ listening
           n == Len(calls[t]) + 1
           e == [at |-> n, bound |-> bd, listening |-> listening,
                 phase |-> "enter", ran |-> no, told |-> no,
                 skip_original |-> no, lease |-> no, bridge |-> no,
                 native |-> no, called |-> no]
           g == Append(frames[t], e)
           q == IF bd THEN "pin" ELSE "ensure"
<1>1. no \in BOOLEAN /\ ~no /\ inv \in BOOLEAN /\ yes \in BOOLEAN /\ yes /\ bd \in BOOLEAN
  OBVIOUS
<1>2. /\ pc[t] \in {"dart", "callback"} /\ Len(calls[t]) < MaxCalls
      /\ calls' = [calls EXCEPT ![t] = ds] /\ UNCHANGED handler
  BY DEF PushFrame, Called, StacksInv
<1>3. Goto(t, q) /\ frames' = [frames EXCEPT ![t] = g]
  BY DEF PushFrame, StacksInv
<1>4. inv <=> pc[t] = "callback" \/ calls[t] = <<>>
  OBVIOUS
<1>5. StackOK(calls[t], frames[t], pc[t], handler[t])
  BY StackKept
<1>6. /\ Len(calls[t]) \in Nat /\ calls[t] \in Seq(CallType)
  BY <1>5, StackFacts
<1>7. n \in 1 .. MaxCalls /\ n = Len(calls[t]) + 1
  BY <1>2, <1>6, FramesAssumption
<1>9. bd <=> kind = "bound" /\ listening
  OBVIOUS
<1> HIDE DEF no, yes, inv, bd, n
<1>8. (bd => q = "pin") /\ (~bd => q = "ensure")
  OBVIOUS
<1> HIDE DEF q
<1>10. c \in CallType /\ c.tracked /\ (c.invoked <=> pc[t] = "callback" \/ calls[t] = <<>>)
  BY <1>1, <1>4 DEF CallType
<1>11. /\ e \in FrameType /\ e.at = n /\ (e.bound <=> bd) /\ e.phase = "enter"
       /\ ~e.lease /\ ~e.bridge /\ ~e.native
  BY <1>1, <1>7 DEF FrameType, Phases
<1> HIDE DEF c, e
<1>12. FrameOK(e) /\ e.phase # "exception" /\ q \in Inside
  BY <1>8, <1>11 DEF FrameOK, Inside
<1>13. Fits(e, q)
  BY <1>8, <1>11 DEF Fits
<1>14. Len(frames[t]) < MaxDepth
  BY DEF PushFrame, HasRoom
<1>15. StackOK(ds, g, q, handler[t])
  BY <1>2, <1>5, <1>7, <1>10, <1>11, <1>12, <1>13, <1>14, StackPushed
<1>16. StackBecomes(t, ds, g, q, handler[t])
  BY <1>2, <1>3, StackKept DEF StackBecomes, Goto
<1>17. StacksInv'
  BY <1>15, <1>16, StackStep
<1>18. ASSUME NEW u \in Threads
       PROVE  Len(calls[u]') >= Len(calls[u])
  <2>1. calls[u] \in Seq(CallType) /\ Len(calls[u]) \in Nat
    <3>1. StackOK(calls[u], frames[u], pc[u], handler[u])
      BY StackKept
    <3> QED BY <3>1, StackFacts
  <2>2. calls'[u] = IF u = t THEN ds ELSE calls[u]
    BY <1>2 DEF StacksInv
  <2>3. Len(Append(calls[u], c)) = Len(calls[u]) + 1
    BY <1>10, <2>1
  <2> QED BY <2>1, <2>2, <2>3
<1>19. \E x \in FrameType : /\ frames' = [frames EXCEPT ![t] = Append(frames[t], x)]
                            /\ ~x.lease /\ ~x.bridge
                            /\ x.bound <=> kind = "bound" /\ listening
  BY <1>3, <1>9, <1>11
<1> QED BY <1>17, <1>18, <1>19

(* There is a last call from native code on a stack that is not empty.     *)
LEMMA LastInvokedIs ==
  ASSUME StacksInv, NEW t \in Threads, calls[t] # <<>>
  PROVE  IsLastInvoked(calls[t], LastInvoked(t)) /\ LastInvoked(t) \in Nat
<1> DEFINE cs == calls[t]
           A == {d \in DOMAIN cs : cs[d].invoked}
<1>1. StackOK(cs, frames[t], pc[t], handler[t])
  BY StackKept
<1>2. /\ Len(cs) \in Nat /\ DOMAIN cs = 1 .. Len(cs) /\ cs \in Seq(CallType)
      /\ cs[1].invoked /\ cs # <<>>
  BY <1>1, StackFacts DEF StackOK
<1> HIDE DEF cs
<1>3. 1 \in DOMAIN cs
  <2>1. Len(cs) # 0
    BY <1>2
  <2> QED BY <1>2, <2>1
<1>4. A \in SUBSET Nat /\ A # {} /\ \A a \in A : a <= Len(cs)
  BY <1>2, <1>3
<1>5. PICK m \in A : \A a \in A : a <= m
  <2> HIDE DEF A
  <2> QED BY <1>2, <1>4, Innermost
<1>6. IsLastInvoked(cs, m)
  BY <1>5 DEF IsLastInvoked
<1>7. ASSUME NEW i \in DOMAIN cs
      PROVE  IsLastInvoked(cs, i) <=>
               cs[i].invoked /\ \A j \in (i + 1) .. Len(cs) : ~cs[j].invoked
  <2>1. i \in 1 .. Len(cs)
    BY <1>2
  <2>2. \A j \in DOMAIN cs : j \in (i + 1) .. Len(cs) <=> ~(j <= i)
    BY <1>2, <2>1
  <2>3. \A j \in (i + 1) .. Len(cs) : j \in DOMAIN cs
    BY <1>2, <2>1
  <2> QED BY <2>2, <2>3 DEF IsLastInvoked
<1>8. \E i \in DOMAIN cs : cs[i].invoked /\ \A j \in (i + 1) .. Len(cs) : ~cs[j].invoked
  BY <1>6, <1>7 DEF IsLastInvoked
<1>9. /\ LastInvoked(t) \in DOMAIN cs /\ cs[LastInvoked(t)].invoked
      /\ \A j \in (LastInvoked(t) + 1) .. Len(cs) : ~cs[j].invoked
  BY <1>8 DEF LastInvoked, cs
<1>10. IsLastInvoked(cs, LastInvoked(t))
  BY <1>7, <1>9
<1>11. LastInvoked(t) \in Nat
  BY <1>2, <1>9
<1> QED BY <1>10, <1>11 DEF cs

(* Throw: an exception is on its way.                                      *)
LEMMA ThrowStacks ==
  ASSUME StacksInv, NEW t \in Threads, NEW k \in 0 .. MaxCalls, Throw(t, k)
  PROVE  StacksInv' /\ UNCHANGED frames
<1>1. StackOK(calls[t], frames[t], pc[t], handler[t])
  BY StackKept
<1>2. pc[t] \in {"dart", "callback"} /\ UNCHANGED <<calls, frames>> /\ Goto(t, "unwind")
  BY DEF Throw
<1>3. calls[t] # <<>>
  <2>1. CASE pc[t] = "dart"
    BY <2>1 DEF Throw
  <2>2. CASE pc[t] = "callback"
    <3>1. frames[t] # <<>>
      BY <1>1, <2>2, RunningFacts
    <3>2. Last(frames[t]).at \in 1 .. Len(calls[t])
      BY <1>1, <3>1, TopFacts
    <3> QED BY <3>2
  <2> QED BY <1>2, <2>1, <2>2
<1>4. IsLastInvoked(calls[t], LastInvoked(t))
  BY <1>3, LastInvokedIs
<1>5. k \in (LastInvoked(t) - 1) .. Len(calls[t]) /\ (pc[t] = "callback" => k < Len(calls[t]))
  BY DEF Throw
<1>6. PICK sp \in {FramePointer(k), FramePointer(k) - 1} :
        handler' = [handler EXCEPT ![t] = [fp |-> FramePointer(k), sp |-> sp, depth |-> k]]
  BY DEF Throw
<1> DEFINE h2 == [fp |-> FramePointer(k), sp |-> sp, depth |-> k]
<1>7. h2.depth = k /\ h2.fp = FramePointer(k) /\ h2.sp \in {FramePointer(k), FramePointer(k) - 1}
  OBVIOUS
<1>8. handler' = [handler EXCEPT ![t] = h2]
  BY <1>6
<1> HIDE DEF h2
<1>9. StackOK(calls[t], frames[t], "unwind", h2)
  BY <1>1, <1>2, <1>4, <1>5, <1>7, StackThrown
<1>10. StackBecomes(t, calls[t], frames[t], "unwind", h2)
  BY <1>2, <1>8, StackKept DEF StackBecomes, Goto
<1> QED BY <1>2, <1>9, <1>10, StackStep

(* Dart stacks lose one activation at a time, but for an exception.        *)
OneByOne ==
  \A u \in Threads : \/ Len(calls[u]') >= Len(calls[u])
                     \/ Len(calls[u]') = Len(calls[u]) - 1
                     \/ pc[u] = "unwind"

(* A step of t that writes calls[t] so                                     *)
LEMMA OneByOneIs ==
  ASSUME StacksInv, NEW t \in Threads, NEW cs, calls' = [calls EXCEPT ![t] = cs],
         Len(cs) = Len(calls[t]) \/ Len(cs) = Len(calls[t]) - 1 \/ pc[t] = "unwind"
  PROVE  OneByOne
<1> SUFFICES ASSUME NEW u \in Threads
             PROVE  \/ Len(calls[u]') >= Len(calls[u])
                    \/ Len(calls[u]') = Len(calls[u]) - 1
                    \/ pc[u] = "unwind"
  BY DEF OneByOne
<1>1. Len(calls[u]) \in Nat
  <2>1. StackOK(calls[u], frames[u], pc[u], handler[u])
    BY StackKept
  <2> QED BY <2>1, StackFacts
<1>2. calls'[u] = IF u = t THEN cs ELSE calls[u]
  BY DEF StacksInv
<1> QED BY <1>1, <1>2

(* Return: to the caller, to the callback, or to FinishFrame.              *)
LEMMA ReturnStacks ==
  ASSUME StacksInv, NEW t \in Threads, Return(t)
  PROVE  StacksInv' /\ KeepsBridges(t) /\ OneByOne
<1>1. StackOK(calls[t], frames[t], pc[t], handler[t])
  BY StackKept
<1>2. /\ pc[t] = "dart" /\ Len(calls[t]) > 0 /\ UNCHANGED handler
      /\ ~Unwinding(frames[t], pc[t])
  BY <1>1, RunningFacts DEF Return
<1>3. CASE /\ ~OwnsReturn(t) /\ calls' = [calls EXCEPT ![t] = Front(calls[t])]
           /\ Goto(t, CallerOf(t, Len(calls[t]))) /\ UNCHANGED frames
  <2> DEFINE ds == SubSeq(calls[t], 1, Len(calls[t]) - 1)
             q == CallerIn(calls[t], Len(calls[t]))
  <2>1. frames[t] # <<>> => Last(frames[t]).at # Len(calls[t])
    BY <1>3 DEF OwnsReturn, Top
  <2>2. calls[t] \in Seq(CallType) /\ Len(calls[t]) \in Nat /\ calls[t] # <<>>
    BY <1>1, <1>2, StackFacts
  <2>3. calls' = [calls EXCEPT ![t] = ds] /\ Goto(t, q)
    BY <1>3 DEF Front, CallerOf, CallerIn
  <2>4. Len(ds) = Len(calls[t]) - 1
    <3>1. ds = Front(calls[t])
      BY DEF Front
    <3> HIDE DEF ds
    <3> QED BY <2>2, <3>1, FrontIs
  <2>5. StackOK(ds, frames[t], q, handler[t])
    BY <1>1, <1>2, <2>1, StackReturned
  <2> HIDE DEF ds, q
  <2>6. StackBecomes(t, ds, frames[t], q, handler[t])
    BY <1>2, <1>3, <2>3, StackKept DEF StackBecomes, Goto
  <2>7. StacksInv'
    BY <2>5, <2>6, StackStep
  <2>8. OneByOne
    BY <2>3, <2>4, OneByOneIs
  <2> QED BY <1>3, <2>7, <2>8 DEF KeepsBridges
<1>4. ASSUME OwnsReturn(t), UNCHANGED calls
      PROVE  /\ frames[t] # <<>> /\ Top(t) \in FrameType /\ FrameOK(Top(t))
             /\ Top(t) = Last(frames[t]) /\ TopIndex(t) = Len(frames[t])
             /\ TopIndex(t) \in DOMAIN frames[t] /\ Top(t) = frames[t][TopIndex(t)]
             /\ Top(t).at = Len(calls[t]) /\ InDart(Top(t)) /\ OneByOne
  <2>1. frames[t] # <<>> /\ Top(t).at = Len(calls[t]) /\ Top(t) = Last(frames[t])
    BY <1>4 DEF OwnsReturn, Top
  <2>2. InDart(Top(t))
    BY <1>1, <1>2, <2>1, RunningFacts
  <2>3. /\ Top(t) \in FrameType /\ FrameOK(Top(t))
        /\ Len(frames[t]) \in DOMAIN frames[t] /\ Top(t) = frames[t][Len(frames[t])]
    BY <1>1, <2>1, TopFacts
  <2>4. calls' = [calls EXCEPT ![t] = calls[t]]
    BY <1>4, StackKept
  <2>5. OneByOne
    BY <2>4, OneByOneIs
  <2> QED BY <2>1, <2>2, <2>3, <2>5 DEF TopIndex
<1>5. CASE /\ OwnsReturn(t) /\ Top(t).native /\ Goto(t, "callback") /\ UNCHANGED calls
           /\ frames' = [frames EXCEPT ![t][TopIndex(t)].native = FALSE,
                                       ![t][TopIndex(t)].skip_original = TRUE]
  <2> DEFINE e == [Top(t) EXCEPT !.native = FALSE, !.skip_original = TRUE]
  <2>1. frames' = [frames EXCEPT ![t] = [frames[t] EXCEPT ![Len(frames[t])] = e]]
    <3> DEFINE n == Len(frames[t])
               w == [frames EXCEPT ![t][n].native = FALSE]
    <3>1. TopIndex(t) = n /\ frames[t][n] = Top(t) /\ n \in DOMAIN frames[t]
          /\ t \in DOMAIN frames
      BY <1>4, <1>5, StacksInv, t \in Threads DEF StacksInv
    <3>2. frames' = [w EXCEPT ![t][n].skip_original = TRUE]
      BY <1>5, <3>1
    <3>3. w = [frames EXCEPT ![t] = [frames[t] EXCEPT ![n] = [Top(t) EXCEPT !.native = FALSE]]]
      BY <3>1
    <3> QED BY <3>1, <3>2, <3>3
  <2>2. /\ e \in FrameType /\ e.phase = Top(t).phase /\ e.at = Top(t).at
        /\ (e.bound <=> Top(t).bound) /\ (e.lease <=> Top(t).lease)
        /\ (e.bridge <=> Top(t).bridge) /\ ~e.native
    BY <1>4, <1>5 DEF FrameType
  <2> HIDE DEF e
  <2>3. FrameOK(e) /\ InCallback(e) /\ e.phase # "exception"
    BY <1>4, <1>5, <2>2 DEF FrameOK, InDart, InCallback
  <2>4. Fits(e, "callback") /\ "callback" \in Inside \ Outside
    BY <2>3 DEF Fits, Inside, Outside
  <2>5. StacksInv' /\ Rewrites(t, e.lease, e.bridge)
    BY <1>2, <1>4, <1>5, <2>1, <2>2, <2>3, <2>4, FrameStep
  <2> QED BY <1>4, <1>5, <2>2, <2>5 DEF KeepsBridges, Rewrites
<1>6. CASE /\ OwnsReturn(t) /\ ~Top(t).native /\ UNCHANGED calls
           /\ Goto(t, CASE Top(t).lease -> "unpin"
                        [] Top(t).bound /\ ~Top(t).lease -> "pin" [] OTHER -> "callback")
           /\ frames' = [frames EXCEPT ![t][TopIndex(t)].phase =
                           IF Top(t).lease THEN "return" ELSE "leave"]
  <2> DEFINE ph == IF Top(t).lease THEN "return" ELSE "leave"
             q == IF Top(t).lease THEN "unpin" ELSE "callback"
             e == [Top(t) EXCEPT !.phase = ph]
  <2>1. frames' = [frames EXCEPT ![t] = [frames[t] EXCEPT ![Len(frames[t])] = e]]
    BY <1>4, <1>6 DEF StacksInv
  <2>2. ~Top(t).bridge /\ (Top(t).bound => Top(t).lease)
    BY <1>4, <1>6 DEF InDart
  <2>3. Goto(t, q)
    <3>1. Top(t).lease \in BOOLEAN /\ Top(t).bound \in BOOLEAN
      BY <1>4, <1>6 DEF FrameType
    <3> QED BY <1>6, <2>2, <3>1
  <2>4. /\ Top(t).lease => ph = "return" /\ q = "unpin"
        /\ ~Top(t).lease => ph = "leave" /\ q = "callback"
    OBVIOUS
  <2>5. ph \in {"return", "leave"} /\ q \in Inside \ Outside
    BY DEF Inside, Outside
  <2> HIDE DEF ph, q
  <2>6. /\ e \in FrameType /\ e.phase = ph /\ e.at = Top(t).at
        /\ (e.bound <=> Top(t).bound) /\ (e.lease <=> Top(t).lease)
        /\ (e.bridge <=> Top(t).bridge) /\ (e.native <=> Top(t).native)
    BY <1>4, <1>6, <2>5 DEF FrameType, Phases
  <2> HIDE DEF e
  <2>7. FrameOK(e) /\ e.phase # "exception"
    BY <1>4, <1>6, <2>5, <2>6 DEF FrameOK
  <2>8. Fits(e, q)
    BY <1>6, <2>2, <2>4, <2>6 DEF Fits, InCallback
  <2>9. StacksInv' /\ Rewrites(t, e.lease, e.bridge)
    BY <1>2, <1>4, <1>6, <2>1, <2>3, <2>5, <2>6, <2>7, <2>8, FrameStep
  <2> QED BY <1>4, <1>6, <2>6, <2>9 DEF KeepsBridges, Rewrites
<1> QED BY <1>3, <1>5, <1>6 DEF Return

(* Retire: the frame on top is gone, and its roots were given back.        *)
LEMMA RetireStacks ==
  ASSUME StacksInv, NEW t \in Threads, Retire(t)
  PROVE  /\ StacksInv' /\ OneByOne /\ frames[t] # <<>>
         /\ ~Top(t).lease /\ ~Top(t).bridge
         /\ frames' = [frames EXCEPT ![t] = Front(frames[t])]
<1>1. StackOK(calls[t], frames[t], pc[t], handler[t])
  BY StackKept
<1>2. pc[t] = "retire" /\ pc[t] \in Inside /\ UNCHANGED handler
  BY DEF Retire, Inside
<1>3. /\ frames[t] # <<>> /\ Top(t) = Last(frames[t]) /\ FrameOK(Top(t))
      /\ Top(t) \in FrameType
      /\ \/ Top(t).at = Len(calls[t]) /\ Fits(Top(t), pc[t])
         \/ handler[t].depth < Top(t).at /\ Abandoned(Top(t), pc[t])
  BY <1>2, WorkingTop
<1>4. /\ ~Top(t).lease /\ ~Top(t).bridge
      /\ Top(t).phase \in {"failed", "finished", "exception"}
  <2>1. ~Top(t).lease /\ Top(t).phase \in {"failed", "finished", "exception"}
    BY <1>2, <1>3 DEF Fits, Abandoned
  <2> QED BY <1>3, <2>1 DEF FrameOK
<1> DEFINE g == Front(frames[t])
<1>5. frames' = [frames EXCEPT ![t] = g]
  BY DEF Retire, StacksInv
<1>9. StackOK(calls[t], frames[t], "retire", handler[t]) /\ g = Front(frames[t])
  BY <1>1, <1>2
<1> HIDE DEF g
<1>6. CASE Top(t).phase = "failed"
  <2> DEFINE ds == [calls[t] EXCEPT ![Last(frames[t]).at].tracked = FALSE]
  <2>1. calls' = [calls EXCEPT ![t] = ds] /\ Goto(t, "dart")
    BY <1>3, <1>6 DEF Retire, StacksInv
  <2>6. Last(frames[t]).phase = "failed"
    BY <1>3, <1>6
  <2>2. StackOK(ds, g, "dart", handler[t])
    BY <1>9, <2>6, StackFailed
  <2>3. Len(ds) = Len(calls[t])
    <3>1. DOMAIN ds = DOMAIN calls[t]
      OBVIOUS
    <3> HIDE DEF ds
    <3>2. DOMAIN ds = 1 .. Len(ds) /\ Len(ds) \in Nat
      BY <2>2, StackFacts
    <3>3. DOMAIN calls[t] = 1 .. Len(calls[t]) /\ Len(calls[t]) \in Nat
      BY <1>1, StackFacts
    <3> DEFINE a == Len(ds)
               b == Len(calls[t])
    <3>4. a \in Nat /\ b \in Nat /\ 1 .. a = 1 .. b
      BY <3>1, <3>2, <3>3
    <3> HIDE DEF a, b
    <3>5. a = b
      BY <3>4
    <3> QED BY <3>5 DEF a, b
  <2> HIDE DEF ds
  <2>4. StackBecomes(t, ds, g, "dart", handler[t])
    BY <1>2, <1>5, <2>1, StackKept DEF StackBecomes, Goto
  <2>5. OneByOne
    BY <2>1, <2>3, OneByOneIs
  <2> QED BY <1>3, <1>4, <1>5, <2>2, <2>4, <2>5, StackStep DEF g
<1>7. CASE Top(t).phase = "finished"
  <2> DEFINE ds == SubSeq(calls[t], 1, Last(frames[t]).at - 1)
             q == CallerIn(calls[t], Last(frames[t]).at)
  <2>1. calls' = [calls EXCEPT ![t] = ds] /\ Goto(t, q)
    BY <1>3, <1>7 DEF Retire, StacksInv, CallerIn, CallerOf
  <2>5. Last(frames[t]).phase = "finished"
    BY <1>3, <1>7
  <2>2. StackOK(ds, g, q, handler[t]) /\ Len(ds) = Len(calls[t]) - 1
    BY <1>9, <2>5, StackFinished
  <2> HIDE DEF ds, q
  <2>3. StackBecomes(t, ds, g, q, handler[t])
    BY <1>2, <1>5, <2>1, StackKept DEF StackBecomes, Goto
  <2>4. OneByOne
    BY <2>1, <2>2, OneByOneIs
  <2> QED BY <1>3, <1>4, <1>5, <2>2, <2>3, <2>4, StackStep DEF g
<1>8. CASE Top(t).phase = "exception"
  <2>1. UNCHANGED calls /\ Goto(t, "unwind")
    BY <1>8 DEF Retire
  <2>2. StackOK(calls[t], g, "unwind", handler[t])
    BY <1>1, <1>2, <1>3, <1>8, StackAbandoned DEF g
  <2>3. calls' = [calls EXCEPT ![t] = calls[t]]
    BY <2>1, StackKept
  <2>4. StackBecomes(t, calls[t], g, "unwind", handler[t])
    BY <1>2, <1>5, <2>1, <2>3, StackKept DEF StackBecomes, Goto
  <2>5. OneByOne
    BY <2>3, OneByOneIs
  <2> QED BY <1>3, <1>4, <1>5, <2>2, <2>4, <2>5, StackStep DEF g
<1> QED BY <1>4, <1>6, <1>7, <1>8

(* Unwind: one frame abandoned, or the handler is reached.                 *)
LEMMA UnwindStacks ==
  ASSUME StacksInv, NEW t \in Threads, Unwind(t)
  PROVE  StacksInv' /\ KeepsBridges(t) /\ OneByOne
<1> DEFINE cs == calls[t]
           fs == frames[t]
           h == handler[t]
<1>1. StackOK(cs, fs, pc[t], h)
  BY StackKept
<1>2. pc[t] = "unwind" /\ Unwinding(fs, pc[t])
  BY DEF Unwind, Unwinding
<1>3. HandlerOK(cs, h) /\ TopOK(cs, fs, "unwind", h) /\ h.depth \in Nat
  BY <1>1, <1>2, StackFacts DEF StackOK
<1>4. fs # <<>> => (Unwound(Top(t), h) <=> h.depth < Top(t).at)
  <2>1. fs # <<>> => Top(t).at \in Nat
    BY <1>1, TopFacts, StackFacts DEF Top
  <2> QED BY <1>3, <2>1, UnwoundIs DEF HandlerOK
<1>5. CASE fs # <<>> /\ Unwound(Top(t), h)
  <2>1. /\ Top(t) \in FrameType /\ FrameOK(Top(t))
        /\ Top(t) = Last(fs) /\ TopIndex(t) = Len(fs)
        /\ TopIndex(t) \in DOMAIN fs /\ Top(t) = fs[TopIndex(t)]
    BY <1>2, <1>5, WorkingTop
  <2> DEFINE b == Top(t).listening /\ (Top(t).bound => subscribed)
             q == CASE Top(t).bridge -> "uncross"
                    [] ~Top(t).bridge /\ Top(t).lease -> "unpin" [] OTHER -> "retire"
             e == [Top(t) EXCEPT !.phase = "exception", !.told = b]
  <2>2. b \in BOOLEAN
    BY <2>1 DEF FrameType
  <2>3. frames' = [frames EXCEPT ![t] = [frames[t] EXCEPT ![Len(frames[t])] = e]]
    BY <1>5, <2>1 DEF StacksInv, Unwind
  <2>4. Goto(t, q) /\ UNCHANGED <<calls, handler>>
    BY <1>5 DEF Unwind
  <2>5. \/ Top(t).bridge /\ q = "uncross"
        \/ ~Top(t).bridge /\ Top(t).lease /\ q = "unpin"
        \/ ~Top(t).bridge /\ ~Top(t).lease /\ q = "retire"
    BY <2>1 DEF FrameType
  <2> HIDE DEF b, q
  <2>6. /\ e \in FrameType /\ e.phase = "exception" /\ e.at = Top(t).at
        /\ (e.bound <=> Top(t).bound) /\ (e.lease <=> Top(t).lease)
        /\ (e.bridge <=> Top(t).bridge)
    BY <2>1, <2>2 DEF FrameType, Phases
  <2> HIDE DEF e
  <2>7. FrameOK(e)
    BY <2>1, <2>6 DEF FrameOK
  <2>8. q \in Inside \ Outside /\ Abandoned(e, q)
    BY <2>5, <2>6 DEF Abandoned, Inside, Outside
  <2>9. StacksInv' /\ Rewrites(t, e.lease, e.bridge)
    BY <1>2, <1>4, <1>5, <2>1, <2>3, <2>4, <2>6, <2>7, <2>8, FrameStep
  <2>10. OneByOne
    BY <1>2, <2>4, StackKept, OneByOneIs
  <2> QED BY <2>6, <2>9, <2>10 DEF KeepsBridges, Rewrites
<1>6. CASE ~(fs # <<>> /\ Unwound(Top(t), h))
  <2> DEFINE ds == SubSeq(cs, 1, h.depth)
             h2 == [fp |-> 0, sp |-> 0, depth |-> 0]
             m == LastInvoked(t)
             q == IF h.depth > 0 /\ h.depth = m - 1 THEN "callback" ELSE "dart"
  <2>1. calls' = [calls EXCEPT ![t] = ds] /\ UNCHANGED frames
    BY <1>6 DEF Unwind, StacksInv
  <2>2. Goto(t, q) /\ handler' = [handler EXCEPT ![t] = h2]
    BY <1>6 DEF Unwind
  <2>3. fs # <<>> => ~(h.depth < Last(fs).at)
    BY <1>4, <1>6 DEF Top
  <2>4. h2.depth = 0
    OBVIOUS
  <2>5. cs # <<>> => IsLastInvoked(cs, m) /\ m \in Nat
    BY LastInvokedIs
  <2> HIDE DEF h2, m
  <2>10. StackOK(cs, fs, "unwind", h)
    BY <1>1, <1>2
  <2>6. StackOK(ds, fs, q, h2)
    BY <2>3, <2>4, <2>5, <2>10, StackCaught
  <2> HIDE DEF ds, q
  <2>7. StackBecomes(t, ds, fs, q, h2)
    BY <2>1, <2>2, StackKept DEF StackBecomes, Goto
  <2>8. StacksInv'
    BY <2>6, <2>7, StackStep
  <2>9. OneByOne
    BY <1>2, <2>1, OneByOneIs
  <2> QED BY <2>1, <2>8, <2>9 DEF KeepsBridges
<1> QED BY <1>5, <1>6

(* What leaves the Dart stacks alone                                       *)
LEMMA OneByOneKept ==
  ASSUME StacksInv, UNCHANGED calls
  PROVE  OneByOne
<1>1. \A u \in Threads : Len(calls[u]) \in Nat
  <2> TAKE u \in Threads
  <2>1. StackOK(calls[u], frames[u], pc[u], handler[u])
    BY StackKept
  <2> QED BY <2>1, StackFacts
<1> QED BY <1>1 DEF OneByOne

(* The dispatcher keeps the stacks in order and shortens them one by one.  *)
LEMMA DispatchStacks ==
  ASSUME StacksInv, NEW t \in Threads, Dispatch(t)
  PROVE  StacksInv' /\ OneByOne
<1>1. CASE EnsureBridge(t)
  BY <1>1, EnsureBridgeStacks, OneByOneKept DEF EnsureBridge
<1>2. CASE TryLock(t, "pin", "pinning")
  BY <1>2, TryLockStacks, OneByOneKept DEF TryLock, UnchangedStacks
<1>3. CASE PinBusy(t)
  BY <1>3, PinRefusedStacks, OneByOneKept DEF PinBusy, PinRefused
<1>4. CASE Pin(t)
  <2> DEFINE yes == TRUE
  <2>1. yes \in BOOLEAN /\ yes
    OBVIOUS
  <2> HIDE DEF yes
  <2> QED BY <1>4, <2>1, PinStacks, OneByOneKept DEF Pin
<1>5. CASE PinFails(t)
  BY <1>5, PinRefusedStacks, OneByOneKept DEF PinFails, PinRefused
<1>6. CASE TryLock(t, "cross", "crossing")
  BY <1>6, TryLockStacks, OneByOneKept DEF TryLock, UnchangedStacks
<1>7. CASE CrossBusy(t)
  BY <1>7, CrossRefusedStacks, OneByOneKept DEF CrossBusy, CrossRefused
<1>8. CASE Cross(t)
  <2> DEFINE yes == TRUE
  <2>1. yes \in BOOLEAN /\ yes
    OBVIOUS
  <2> HIDE DEF yes
  <2> QED BY <1>8, <2>1, CrossStacks, OneByOneKept DEF Cross
<1>9. CASE CrossFails(t)
  BY <1>9, CrossRefusedStacks, OneByOneKept DEF CrossFails, CrossRefused
<1>10. CASE Uncross(t)
  <2> DEFINE no == FALSE
  <2>1. no \in BOOLEAN /\ ~no
    OBVIOUS
  <2> HIDE DEF no
  <2> QED BY <1>10, <2>1, UncrossStacks, OneByOneKept DEF Uncross
<1>11. CASE TryLock(t, "unpin", "unpinning")
  BY <1>11, TryLockStacks, OneByOneKept DEF TryLock, UnchangedStacks
<1>12. CASE UnpinBusy(t)
  BY <1>12, UnpinBusyStacks, OneByOneKept DEF UnpinBusy, UnchangedStacks
<1>13. CASE Unpin(t)
  <2> DEFINE no == FALSE
  <2>1. no \in BOOLEAN /\ ~no
    OBVIOUS
  <2> HIDE DEF no
  <2> QED BY <1>13, <2>1, UnpinStacks, OneByOneKept DEF Unpin
<1>14. CASE Retire(t)
  BY <1>14, RetireStacks
<1>15. CASE Unwind(t)
  BY <1>15, UnwindStacks
<1> QED BY <1>1, <1>2, <1>3, <1>4, <1>5, <1>6, <1>7, <1>8, <1>9, <1>10, <1>11, <1>12, <1>13,
           <1>14, <1>15 DEF Dispatch

(* So do calls, callbacks, observations, returns and exceptions,           *)
LEMMA StepStacks ==
  ASSUME StacksInv, NEW t \in Threads, Step(t)
  PROVE  StacksInv' /\ OneByOne
<1>1. CASE PassThrough(t)
  BY <1>1, PassThroughStacks DEF OneByOne
<1>2. ASSUME NEW kind \in Kinds, NEW listening \in BOOLEAN, PushFrame(t, kind, listening)
      PROVE  StacksInv' /\ OneByOne
  BY <1>2, PushFrameStacks DEF OneByOne
<1>3. CASE Dispatch(t)
  BY <1>3, DispatchStacks
<1>4. ASSUME NEW skip \in BOOLEAN, EnterDone(t, skip)
      PROVE  StacksInv' /\ OneByOne
  <2>1. UNCHANGED calls
    BY <1>4 DEF EnterDone
  <2> QED BY <1>4, <2>1, EnterDoneStacks, OneByOneKept
<1>5. CASE LeaveDone(t)
  BY <1>5, LeaveDoneStacks, OneByOneKept DEF LeaveDone
<1>6. CASE CallOriginal(t)
  <2>1. UNCHANGED calls
    BY <1>6 DEF CallOriginal
  <2> QED BY <1>6, <2>1, CallOriginalStacks, OneByOneKept
<1>7. CASE RetainObject(t)
  <2>1. UNCHANGED pc /\ UnchangedStacks /\ UNCHANGED calls
    BY <1>7 DEF RetainObject, UnchangedStacks
  <2>2. pc' \in [Everyone -> Places]
    BY <2>1 DEF StacksInv
  <2> QED BY <2>1, <2>2, OtherStacks, OneByOneKept
<1>8. CASE Observing(t)
  <2>1. UNCHANGED calls
    BY <1>8 DEF Observing, Observe, EndObserve, UnchangedStacks
  <2> QED BY <1>8, <2>1, ObservingStacks, OneByOneKept
<1>9. CASE Return(t)
  BY <1>9, ReturnStacks
<1>10. ASSUME NEW k \in 0 .. MaxCalls, Throw(t, k)
       PROVE  StacksInv' /\ OneByOne
  <2>1. UNCHANGED calls
    BY <1>10 DEF Throw
  <2> QED BY <1>10, <2>1, ThrowStacks, OneByOneKept
<1> QED BY <1>1, <1>2, <1>3, <1>4, <1>5, <1>6, <1>7, <1>8, <1>9, <1>10 DEF Step, Enter, Callback

(* and the functions of the library.                                       *)
LEMMA WorkStacks ==
  ASSUME StacksInv, NEW w \in Workers, Work(w)
  PROVE  StacksInv' /\ UNCHANGED frames /\ OneByOne /\ \A u \in Everyone \ {w} : pc'[u] = pc[u]
<1>1. UnchangedStacks
  BY DEF Work, RetainBegin, RetainEnd, ReleaseBegin, ReleaseEnd, FreeHandleBegin, FreeHandleEnd,
         Subscribe, Quiesce, CheckBegin, CheckEnd, Reopen, UnchangedThreads
<1>2. UNCHANGED pc \/ \E p \in Places : Goto(w, p)
  BY DEF Work, RetainBegin, RetainEnd, ReleaseBegin, ReleaseEnd, FreeHandleBegin, FreeHandleEnd,
         Subscribe, Quiesce, CheckBegin, CheckEnd, Reopen, Places
<1>3. pc' \in [Everyone -> Places] /\ \A u \in Everyone \ {w} : pc'[u] = pc[u]
  BY <1>2 DEF Goto, StacksInv
<1>4. \A t \in Threads : pc'[t] = pc[t]
  BY <1>3, FramesAssumption DEF Everyone
<1> QED BY <1>1, <1>3, <1>4, OtherStacks, OneByOneKept DEF UnchangedStacks

(* The stacks stay in order over every step.                               *)
LEMMA StacksNext ==
  ASSUME StacksInv, [Next]_vars
  PROVE  StacksInv' /\ OneByOne
<1>1. CASE \E t \in Threads : Step(t)
  BY <1>1, StepStacks
<1>2. CASE \E w \in Workers : Work(w)
  BY <1>2, WorkStacks
<1>3. CASE UNCHANGED vars
  <2>1. UNCHANGED <<calls, frames, pc, handler>>
    BY <1>3 DEF vars
  <2> QED BY <2>1, OneByOneKept DEF StacksInv
<1> QED BY <1>1, <1>2, <1>3 DEF Next

(* No thread has called anything at the start.                             *)
LEMMA StacksInit ==
  ASSUME Init
  PROVE  StacksInv
<1>1. ASSUME NEW t \in Threads
      PROVE  StackOK(calls[t], frames[t], pc[t], handler[t])
  <2>1. calls[t] = <<>> /\ frames[t] = <<>> /\ pc[t] = "dart" /\ handler[t].depth = 0
    BY DEF Init, Everyone
  <2> DEFINE h == handler[t]
  <2>2. StackType(<<>>, <<>>, "dart", h)
    BY <2>1, FramesAssumption DEF StackType, Places
  <2>3. ~Unwinding(<<>>, "dart") /\ DOMAIN <<>> = {}
    BY DEF Unwinding
  <2>4. TopOK(<<>>, <<>>, "dart", h)
    BY DEF TopOK, Inside
  <2> HIDE DEF h
  <2>5. StackOK(<<>>, <<>>, "dart", h)
    BY <2>2, <2>3, <2>4 DEF StackOK, Ordered, Covers, Nested
  <2> QED BY <2>1, <2>5 DEF h
<1>2. /\ calls = [t \in Threads |-> calls[t]] /\ frames = [t \in Threads |-> frames[t]]
      /\ handler = [t \in Threads |-> handler[t]]
  BY DEF Init
<1>3. pc \in [Everyone -> Places]
  BY DEF Init, Places
<1> QED BY <1>1, <1>2, <1>3 DEF StacksInv

-----------------------------------------------------------------------------
(* The slots of the adapter                                                *)

(* The frames are those of finitely many threads.                          *)
LEMMA SlotsFinite ==
  /\ IsFiniteSet(Bridged) /\ IsFiniteSet(Pinning) /\ IsFiniteSet(Listening)
  /\ Cardinality(Bridged) \in Nat /\ Cardinality(Pinning) \in Nat
  /\ Cardinality(Listening) \in Nat
<1>1. IsFiniteSet(1 .. MaxDepth) /\ IsFiniteSet(1 .. MaxCalls) /\ IsFiniteSet(Threads)
  BY FramesAssumption, FS_Interval
<1>2. IsFiniteSet(Slots) /\ IsFiniteSet(Threads \X (1 .. MaxCalls))
  BY <1>1, FS_Product DEF Slots
<1>3. Bridged \subseteq Slots /\ Pinning \subseteq Slots
  BY DEF Bridged, Pinning, BridgedIn, PinningIn
<1>4. Listening \subseteq Threads \X (1 .. MaxCalls)
  BY DEF Listening
<1>5. IsFiniteSet(Bridged) /\ IsFiniteSet(Pinning) /\ IsFiniteSet(Listening)
  BY <1>2, <1>3, <1>4, FS_Subset
<1> QED BY <1>5, FS_CardinalityType

(* A set is empty if and only if it counts nothing.                        *)
LEMMA CountsNothing ==
  ASSUME NEW S, IsFiniteSet(S)
  PROVE  Cardinality(S) \in Nat /\ (Cardinality(S) = 0 <=> S = {})
BY FS_EmptySet, FS_CardinalityType

(* Where the frames of the threads are                                     *)
LEMMA SlotsAre ==
  ASSUME NEW fr, NEW t \in Threads, NEW cs, NEW p, NEW h, StackOK(cs, fr[t], p, h), NEW i
  PROVE  /\ <<t, i>> \in BridgedIn(fr) <=> i \in DOMAIN fr[t] /\ fr[t][i].bridge
         /\ <<t, i>> \in PinningIn(fr) <=> i \in DOMAIN fr[t] /\ fr[t][i].lease
         /\ <<t, i>> \in ListeningIn(fr) <=> i \in DOMAIN fr[t] /\ fr[t][i].bound
<1> DEFINE fs == fr[t]
<1>1. /\ Len(fs) \in Nat /\ DOMAIN fs = 1 .. Len(fs)
      /\ \A j \in DOMAIN fs : fs[j].at \in 1 .. Len(cs)
      /\ Len(cs) \in Nat /\ Len(cs) <= MaxCalls
  BY StackFacts
<1>2. Len(fs) <= MaxDepth /\ \A j \in DOMAIN fs : j <= fs[j].at
  BY DEF StackOK, StackType, Ordered
<1>3. ASSUME i \in DOMAIN fs
      PROVE  i \in 1 .. MaxDepth /\ i \in 1 .. MaxCalls
  <2>1. i \in 1 .. Len(fs) /\ i <= fs[i].at
    BY <1>1, <1>2, <1>3
  <2>2. fs[i].at \in 1 .. Len(cs)
    BY <1>1, <1>3
  <2> HIDE DEF fs
  <2> QED BY <1>1, <1>2, <2>1, <2>2, FramesAssumption
<1> QED BY <1>3 DEF BridgedIn, PinningIn, ListeningIn, Slots

(* The members of Bridged, Pinning and Listening are slots.                *)
LEMMA SlotsOnly ==
  ASSUME NEW fr, NEW c, c \in BridgedIn(fr) \/ c \in PinningIn(fr) \/ c \in ListeningIn(fr)
  PROVE  c = <<c[1], c[2]>> /\ c[1] \in Threads
BY DEF BridgedIn, PinningIn, ListeningIn, Slots

(* What the slots are after a step in which only those of one thread       *)
(* change                                                                  *)
SlotsSame(c) ==
  /\ c \in Bridged' <=> c \in Bridged
  /\ c \in Pinning' <=> c \in Pinning
  /\ c \in Listening' <=> c \in Listening

(* A slot is as before if its frame is.                                    *)
LEMMA SlotKept ==
  ASSUME StacksInv, StacksInv', NEW u \in Threads, NEW i,
         i \in DOMAIN frames'[u] <=> i \in DOMAIN frames[u],
         i \in DOMAIN frames[u] => frames'[u][i] = frames[u][i]
  PROVE  SlotsSame(<<u, i>>)
<1>1. StackOK(calls[u], frames[u], pc[u], handler[u])
  BY DEF StacksInv
<1>2. StackOK(calls'[u], frames'[u], pc'[u], handler'[u])
  BY DEF StacksInv
<1>3. /\ <<u, i>> \in BridgedIn(frames) <=> i \in DOMAIN frames[u] /\ frames[u][i].bridge
      /\ <<u, i>> \in PinningIn(frames) <=> i \in DOMAIN frames[u] /\ frames[u][i].lease
      /\ <<u, i>> \in ListeningIn(frames) <=> i \in DOMAIN frames[u] /\ frames[u][i].bound
  BY <1>1, SlotsAre
<1>4. /\ <<u, i>> \in BridgedIn(frames') <=> i \in DOMAIN frames'[u] /\ frames'[u][i].bridge
      /\ <<u, i>> \in PinningIn(frames') <=> i \in DOMAIN frames'[u] /\ frames'[u][i].lease
      /\ <<u, i>> \in ListeningIn(frames') <=> i \in DOMAIN frames'[u] /\ frames'[u][i].bound
  BY <1>2, SlotsAre
<1>5. /\ Bridged = BridgedIn(frames) /\ Bridged' = BridgedIn(frames')
      /\ Pinning = PinningIn(frames) /\ Pinning' = PinningIn(frames')
      /\ Listening = ListeningIn(frames) /\ Listening' = ListeningIn(frames')
  BY DEF Bridged, Pinning, Listening, ListeningIn
<1> QED BY <1>3, <1>4, <1>5 DEF SlotsSame

(* If only slot c changes, it is added, removed or left.                   *)
LEMMA SlotsBut ==
  ASSUME NEW c, \A u \in Threads : \A i : <<u, i>> # c => SlotsSame(<<u, i>>)
  PROVE  /\ c \in Bridged' => Bridged' = Bridged \cup {c}
         /\ c \notin Bridged' => Bridged' = Bridged \ {c}
         /\ c \in Pinning' => Pinning' = Pinning \cup {c}
         /\ c \notin Pinning' => Pinning' = Pinning \ {c}
         /\ c \in Listening' => Listening' = Listening \cup {c}
         /\ c \notin Listening' => Listening' = Listening \ {c}
<1>1. \A d : d # c => SlotsSame(d)
  <2> SUFFICES ASSUME NEW d, d # c
               PROVE  SlotsSame(d)
    OBVIOUS
  <2>1. /\ Bridged = BridgedIn(frames) /\ Bridged' = BridgedIn(frames')
        /\ Pinning = PinningIn(frames) /\ Pinning' = PinningIn(frames')
        /\ Listening = ListeningIn(frames) /\ Listening' = ListeningIn(frames')
    BY DEF Bridged, Pinning, Listening, ListeningIn
  <2>2. CASE d = <<d[1], d[2]>> /\ d[1] \in Threads
    BY <2>2
  <2>3. CASE ~(d = <<d[1], d[2]>> /\ d[1] \in Threads)
    BY <2>1, <2>3, SlotsOnly DEF SlotsSame
  <2> QED BY <2>2, <2>3
<1> QED BY <1>1 DEF SlotsSame

(* Writing the frame on top gives or takes its slot.                       *)
LEMMA SlotsRewritten ==
  ASSUME StacksInv, StacksInv', NEW t \in Threads, NEW lease, NEW bridge,
         Rewrites(t, lease, bridge), NEW c, c = <<t, Len(frames[t])>>
  PROVE  /\ c \in Bridged <=> Top(t).bridge
         /\ c \in Pinning <=> Top(t).lease
         /\ c \in Listening <=> Top(t).bound
         /\ bridge => Bridged' = Bridged \cup {c}
         /\ ~bridge => Bridged' = Bridged \ {c}
         /\ lease => Pinning' = Pinning \cup {c}
         /\ ~lease => Pinning' = Pinning \ {c}
         /\ Listening' = Listening
<1> DEFINE n == Len(frames[t])
<1>1. StackOK(calls[t], frames[t], pc[t], handler[t]) /\ frames[t] # <<>>
  BY StackKept DEF Rewrites
<1>2. n \in DOMAIN frames[t] /\ Top(t) = frames[t][n] /\ frames[t] \in Seq(FrameType)
  BY <1>1, TopFacts, StackFacts DEF Top
<1>3. PICK e \in FrameType :
        /\ frames' = [frames EXCEPT ![t] = [frames[t] EXCEPT ![n] = e]]
        /\ (e.lease <=> lease) /\ (e.bridge <=> bridge) /\ (e.bound <=> Top(t).bound)
  BY DEF Rewrites
<1>4. c = <<t, n>>
  OBVIOUS
<1> HIDE DEF n
<1>5. /\ \A u \in Threads \ {t} : frames'[u] = frames[u]
      /\ DOMAIN frames'[t] = DOMAIN frames[t] /\ frames'[t][n] = e
      /\ \A i \in DOMAIN frames[t] : i # n => frames'[t][i] = frames[t][i]
  BY <1>2, <1>3 DEF StacksInv
<1>6. ASSUME NEW u \in Threads, NEW i, <<u, i>> # c
      PROVE  SlotsSame(<<u, i>>)
  <2>1. u # t \/ i # n
    BY <1>4, <1>6
  <2> QED BY <1>5, <2>1, SlotKept
<1>7. /\ c \in Bridged <=> Top(t).bridge
      /\ c \in Pinning <=> Top(t).lease
      /\ c \in Listening <=> Top(t).bound
  <2>1. Listening = ListeningIn(frames)
    BY DEF Listening, ListeningIn
  <2>2. /\ <<t, n>> \in BridgedIn(frames) <=> n \in DOMAIN frames[t] /\ frames[t][n].bridge
        /\ <<t, n>> \in PinningIn(frames) <=> n \in DOMAIN frames[t] /\ frames[t][n].lease
        /\ <<t, n>> \in ListeningIn(frames) <=> n \in DOMAIN frames[t] /\ frames[t][n].bound
    BY <1>1, SlotsAre
  <2> QED BY <1>2, <1>4, <2>1, <2>2 DEF Bridged, Pinning
<1>8. /\ c \in Bridged' <=> bridge
      /\ c \in Pinning' <=> lease
      /\ c \in Listening' <=> Top(t).bound
  <2>1. Listening' = ListeningIn(frames') /\ n \in DOMAIN frames'[t]
    BY <1>2, <1>5 DEF Listening, ListeningIn
  <2>2. StackOK(calls'[t], frames'[t], pc'[t], handler'[t])
    BY DEF StacksInv
  <2>3. /\ <<t, n>> \in BridgedIn(frames') <=> n \in DOMAIN frames'[t] /\ frames'[t][n].bridge
        /\ <<t, n>> \in PinningIn(frames') <=> n \in DOMAIN frames'[t] /\ frames'[t][n].lease
        /\ <<t, n>> \in ListeningIn(frames') <=> n \in DOMAIN frames'[t] /\ frames'[t][n].bound
    BY <2>2, SlotsAre
  <2> QED BY <1>3, <1>4, <1>5, <2>1, <2>3 DEF Bridged, Pinning
<1>9. /\ c \in Bridged' => Bridged' = Bridged \cup {c}
      /\ c \notin Bridged' => Bridged' = Bridged \ {c}
      /\ c \in Pinning' => Pinning' = Pinning \cup {c}
      /\ c \notin Pinning' => Pinning' = Pinning \ {c}
      /\ c \in Listening' => Listening' = Listening \cup {c}
      /\ c \notin Listening' => Listening' = Listening \ {c}
  BY <1>6, SlotsBut
<1> QED BY <1>7, <1>8, <1>9

(* No slot changes                                                         *)
SlotsStill == Bridged' = Bridged /\ Pinning' = Pinning /\ Listening' = Listening

(* A step that leaves the roots and bridges of its frame leaves the slots. *)
LEMMA SlotsKept ==
  ASSUME StacksInv, StacksInv', NEW t \in Threads, KeepsBridges(t)
  PROVE  SlotsStill
<1>1. CASE UNCHANGED frames
  BY <1>1 DEF SlotsStill, Bridged, Pinning, Listening
<1>2. CASE Rewrites(t, Top(t).lease, Top(t).bridge)
  <2> DEFINE c == <<t, Len(frames[t])>>
             l == Top(t).lease
             b == Top(t).bridge
  <2>1. c = <<t, Len(frames[t])>> /\ Rewrites(t, l, b)
    BY <1>2
  <2> HIDE DEF c, l, b
  <2>2. /\ c \in Bridged <=> Top(t).bridge
        /\ c \in Pinning <=> Top(t).lease
        /\ b => Bridged' = Bridged \cup {c}
        /\ ~b => Bridged' = Bridged \ {c}
        /\ l => Pinning' = Pinning \cup {c}
        /\ ~l => Pinning' = Pinning \ {c}
        /\ Listening' = Listening
    BY <2>1, SlotsRewritten
  <2>3. Bridged' = Bridged
    <3>1. CASE c \in Bridged
      BY <2>2, <3>1 DEF b
    <3>2. CASE c \notin Bridged
      BY <2>2, <3>2 DEF b
    <3> QED BY <3>1, <3>2
  <2>4. Pinning' = Pinning
    <3>1. CASE c \in Pinning
      BY <2>2, <3>1 DEF l
    <3>2. CASE c \notin Pinning
      BY <2>2, <3>2 DEF l
    <3> QED BY <3>1, <3>2
  <2> QED BY <2>2, <2>3, <2>4 DEF SlotsStill
<1> QED BY <1>1, <1>2 DEF KeepsBridges

(* A new frame has neither roots nor a bridge, but may listen.             *)
LEMMA SlotsPushed ==
  ASSUME StacksInv, StacksInv', NEW t \in Threads, NEW e \in FrameType, ~e.lease, ~e.bridge,
         frames' = [frames EXCEPT ![t] = Append(frames[t], e)],
         NEW c, c = <<t, Len(frames[t]) + 1>>
  PROVE  /\ Bridged' = Bridged /\ Pinning' = Pinning
         /\ e.bound => Listening' = Listening \cup {c}
         /\ ~e.bound => Listening' = Listening
<1> DEFINE n == Len(frames[t]) + 1
<1>1. /\ StackOK(calls[t], frames[t], pc[t], handler[t])
      /\ StackOK(calls'[t], frames'[t], pc'[t], handler'[t])
  BY DEF StacksInv
<1>2. /\ frames[t] \in Seq(FrameType) /\ Len(frames[t]) \in Nat
      /\ DOMAIN frames[t] = 1 .. Len(frames[t])
  BY <1>1, StackFacts
<1>3. /\ DOMAIN frames'[t] = 1 .. n /\ frames'[t][n] = e
      /\ \A i \in DOMAIN frames[t] : frames'[t][i] = frames[t][i]
  <2>1. frames'[t] = Append(frames[t], e)
    BY DEF StacksInv
  <2> QED BY <1>2, <2>1, AppendIs
<1>4. \A u \in Threads \ {t} : frames'[u] = frames[u]
  BY DEF StacksInv
<1>5. n \in Nat /\ n \notin DOMAIN frames[t] /\ n \in DOMAIN frames'[t] /\ c = <<t, n>>
  BY <1>2, <1>3
<1>6. \A i : i # n => (i \in DOMAIN frames'[t] <=> i \in DOMAIN frames[t])
  BY <1>2, <1>3
<1> HIDE DEF n
<1>7. ASSUME NEW u \in Threads, NEW i, <<u, i>> # c
      PROVE  SlotsSame(<<u, i>>)
  <2>1. u # t \/ i # n
    BY <1>5, <1>7
  <2> QED BY <1>3, <1>4, <1>6, <2>1, SlotKept
<1>8. Listening = ListeningIn(frames) /\ Listening' = ListeningIn(frames')
  BY DEF Listening, ListeningIn
<1>9. /\ <<t, n>> \in BridgedIn(frames) <=> n \in DOMAIN frames[t] /\ frames[t][n].bridge
      /\ <<t, n>> \in PinningIn(frames) <=> n \in DOMAIN frames[t] /\ frames[t][n].lease
      /\ <<t, n>> \in ListeningIn(frames) <=> n \in DOMAIN frames[t] /\ frames[t][n].bound
  BY <1>1, SlotsAre
<1>10. /\ <<t, n>> \in BridgedIn(frames') <=> n \in DOMAIN frames'[t] /\ frames'[t][n].bridge
       /\ <<t, n>> \in PinningIn(frames') <=> n \in DOMAIN frames'[t] /\ frames'[t][n].lease
       /\ <<t, n>> \in ListeningIn(frames') <=> n \in DOMAIN frames'[t] /\ frames'[t][n].bound
  BY <1>1, SlotsAre
<1>11. /\ c \notin Bridged /\ c \notin Bridged' /\ c \notin Pinning /\ c \notin Pinning'
       /\ c \notin Listening /\ (c \in Listening' <=> e.bound)
  BY <1>3, <1>5, <1>8, <1>9, <1>10 DEF Bridged, Pinning
<1>12. /\ c \notin Bridged' => Bridged' = Bridged \ {c}
       /\ c \notin Pinning' => Pinning' = Pinning \ {c}
       /\ c \in Listening' => Listening' = Listening \cup {c}
       /\ c \notin Listening' => Listening' = Listening \ {c}
  BY <1>7, SlotsBut
<1> QED BY <1>11, <1>12

(* A frame that is gone does not listen any more.                          *)
LEMMA SlotsPopped ==
  ASSUME StacksInv, StacksInv', NEW t \in Threads, frames[t] # <<>>,
         ~Top(t).lease, ~Top(t).bridge, frames' = [frames EXCEPT ![t] = Front(frames[t])],
         NEW c, c = <<t, Len(frames[t])>>
  PROVE  /\ Bridged' = Bridged /\ Pinning' = Pinning
         /\ Listening' = Listening \ {c} /\ (c \in Listening <=> Top(t).bound)
<1> DEFINE n == Len(frames[t])
<1>1. /\ StackOK(calls[t], frames[t], pc[t], handler[t])
      /\ StackOK(calls'[t], frames'[t], pc'[t], handler'[t])
  BY DEF StacksInv
<1>2. /\ frames[t] \in Seq(FrameType) /\ n \in Nat /\ DOMAIN frames[t] = 1 .. n
      /\ n \in DOMAIN frames[t] /\ Top(t) = frames[t][n]
  BY <1>1, StackFacts, TopFacts DEF Top
<1>3. /\ DOMAIN frames'[t] = 1 .. n - 1
      /\ \A i \in 1 .. n - 1 : frames'[t][i] = frames[t][i]
  <2>1. frames'[t] = Front(frames[t])
    BY DEF StacksInv
  <2> QED BY <1>2, <2>1, FrontIs
<1>4. \A u \in Threads \ {t} : frames'[u] = frames[u]
  BY DEF StacksInv
<1>5. c = <<t, n>>
  OBVIOUS
<1> HIDE DEF n
<1>6. /\ n \notin DOMAIN frames'[t]
      /\ \A i : i # n => (i \in DOMAIN frames'[t] <=> i \in DOMAIN frames[t])
      /\ \A i \in DOMAIN frames[t] : i # n => frames'[t][i] = frames[t][i]
  BY <1>2, <1>3
<1>7. ASSUME NEW u \in Threads, NEW i, <<u, i>> # c
      PROVE  SlotsSame(<<u, i>>)
  <2>1. u # t \/ i # n
    BY <1>5, <1>7
  <2> QED BY <1>4, <1>6, <2>1, SlotKept
<1>8. Listening = ListeningIn(frames) /\ Listening' = ListeningIn(frames')
  BY DEF Listening, ListeningIn
<1>9. /\ <<t, n>> \in BridgedIn(frames) <=> n \in DOMAIN frames[t] /\ frames[t][n].bridge
      /\ <<t, n>> \in PinningIn(frames) <=> n \in DOMAIN frames[t] /\ frames[t][n].lease
      /\ <<t, n>> \in ListeningIn(frames) <=> n \in DOMAIN frames[t] /\ frames[t][n].bound
  BY <1>1, SlotsAre
<1>10. /\ <<t, n>> \in BridgedIn(frames') <=> n \in DOMAIN frames'[t] /\ frames'[t][n].bridge
       /\ <<t, n>> \in PinningIn(frames') <=> n \in DOMAIN frames'[t] /\ frames'[t][n].lease
       /\ <<t, n>> \in ListeningIn(frames') <=> n \in DOMAIN frames'[t] /\ frames'[t][n].bound
  BY <1>1, SlotsAre
<1>11. /\ c \notin Bridged /\ c \notin Bridged' /\ c \notin Pinning /\ c \notin Pinning'
       /\ (c \in Listening <=> Top(t).bound) /\ c \notin Listening'
  BY <1>2, <1>5, <1>6, <1>8, <1>9, <1>10 DEF Bridged, Pinning
<1>12. /\ c \notin Bridged' => Bridged' = Bridged \ {c}
       /\ c \notin Pinning' => Pinning' = Pinning \ {c}
       /\ c \notin Listening' => Listening' = Listening \ {c}
  BY <1>7, SlotsBut
<1> QED BY <1>11, <1>12

-----------------------------------------------------------------------------
(* The adapter, step by step                                               *)

(* What the slots say of the adapter, and the adapter of the slots.        *)
LEMMA AdapterFacts ==
  ASSUME IInv
  PROVE  /\ Bridged \subseteq Pinning
         /\ adapter.generated_root_leases = 0 <=> Pinning = {}
         /\ adapter.generated_native_transitions = 0 <=> Bridged = {}
         /\ adapter.generated_native_transitions > 0 => adapter.generated_root_leases > 0
         /\ adapter.owner_thread = None =>
              /\ Pinning = {} /\ Bridged = {} /\ adapter.observer = None
              /\ adapter.generated_root_leases = 0 /\ adapter.entered = 0
              /\ adapter.generated_native_transitions = 0
         /\ quiescent => Listening = {} /\ ~subscribed /\ ~other /\ ~adapter.admission_open
         /\ Listening = {} => Pinning = {}
<1>1. /\ StacksInv /\ adapter \in AdapterType /\ CountersInv /\ OwnerInv /\ RefsInv
  BY DEF IInv, AdapterInv
<1>2. /\ Bridged = BridgedIn(frames) /\ Pinning = PinningIn(frames)
      /\ Listening = ListeningIn(frames)
  BY DEF Bridged, Pinning, Listening, ListeningIn
<1>3. ASSUME NEW c
      PROVE  (c \in Bridged => c \in Pinning) /\ (c \in Pinning => c \in Listening)
  <2> SUFFICES ASSUME c \in Bridged \/ c \in Pinning
               PROVE  (c \in Bridged => c \in Pinning) /\ (c \in Pinning => c \in Listening)
    OBVIOUS
  <2> DEFINE t == c[1]
             i == c[2]
  <2>1. c = <<t, i>> /\ t \in Threads
    BY <1>2, SlotsOnly
  <2> HIDE DEF t, i
  <2>2. StackOK(calls[t], frames[t], pc[t], handler[t])
    BY <1>1, <2>1 DEF StacksInv
  <2>3. /\ <<t, i>> \in BridgedIn(frames) <=> i \in DOMAIN frames[t] /\ frames[t][i].bridge
        /\ <<t, i>> \in PinningIn(frames) <=> i \in DOMAIN frames[t] /\ frames[t][i].lease
        /\ <<t, i>> \in ListeningIn(frames) <=> i \in DOMAIN frames[t] /\ frames[t][i].bound
    BY <2>1, <2>2, SlotsAre
  <2>4. i \in DOMAIN frames[t] => FrameOK(frames[t][i])
    BY <2>2 DEF StackOK
  <2> QED BY <1>2, <2>1, <2>3, <2>4 DEF FrameOK
<1>4. Bridged \subseteq Pinning /\ Pinning \subseteq Listening
  BY <1>3
<1>5. /\ adapter.generated_root_leases = 0 <=> Pinning = {}
      /\ adapter.generated_native_transitions = 0 <=> Bridged = {}
  BY <1>1, SlotsFinite, CountsNothing DEF CountersInv
<1>6. /\ adapter.generated_root_leases \in Nat /\ adapter.generated_native_transitions \in Nat
      /\ adapter.entered = adapter.generated_native_transitions
      /\ adapter.observer \in Threads \cup {None} /\ adapter.hook_refs \in Nat
  BY <1>1, FramesAssumption DEF AdapterType, CountersInv
<1>7. adapter.generated_native_transitions > 0 => adapter.generated_root_leases > 0
  <2>1. adapter.generated_native_transitions > 0 => adapter.generated_root_leases # 0
    BY <1>4, <1>5, <1>6
  <2> QED BY <1>6, <2>1
<1>8. adapter.owner_thread = None => Pinning = {} /\ adapter.observer = None
  <2>1. \A c \in Pinning : c[1] \in Threads
    BY <1>2, SlotsOnly
  <2> QED BY <1>1, <2>1, FramesAssumption DEF CountersInv, OwnerInv
<1>9. quiescent => Listening = {} /\ ~subscribed /\ ~other /\ ~adapter.admission_open
  <2>1. quiescent => ~adapter.admission_open /\ adapter.hook_refs = 0
    BY <1>1 DEF RefsInv, AdapterIdle
  <2>2. /\ One(subscribed \/ Listening # {}) \in {0, 1} /\ One(other) \in {0, 1}
        /\ subscribed \/ Listening # {} => One(subscribed \/ Listening # {}) = 1
        /\ other => One(other) = 1
    BY DEF One
  <2>3. adapter.hook_refs = One(subscribed \/ Listening # {}) + One(other)
    BY <1>1 DEF RefsInv
  <2> QED BY <2>1, <2>2, <2>3
<1> QED BY <1>4, <1>5, <1>6, <1>7, <1>8, <1>9

(* A thread that may own the adapter has all the leases there are.         *)
LEMMA OwnLeases ==
  ASSUME IInv, NEW t \in Threads, MayOwn(t)
  PROVE  \A c \in Pinning : c[1] = t
BY AdapterFacts DEF MayOwn, IInv, AdapterInv, CountersInv

(* A thread whose frame has a lease is the owner.                          *)
LEMMA LeaseOwner ==
  ASSUME IInv, NEW t \in Threads, frames[t] # <<>>, Top(t).lease
  PROVE  adapter.owner_thread = t /\ MayOwn(t) /\ Pinning # {} /\ Listening # {}
<1>1. StackOK(calls[t], frames[t], pc[t], handler[t])
  BY DEF IInv, StacksInv
<1> DEFINE n == Len(frames[t])
<1>2. n \in DOMAIN frames[t] /\ Top(t) = frames[t][n]
  BY <1>1, TopFacts DEF Top
<1> HIDE DEF n
<1>3. /\ <<t, n>> \in PinningIn(frames) <=> n \in DOMAIN frames[t] /\ frames[t][n].lease
  BY <1>1, SlotsAre
<1>4. <<t, n>> \in Pinning
  BY <1>2, <1>3 DEF Pinning
<1>5. adapter.owner_thread = t
  BY <1>4 DEF IInv, AdapterInv, CountersInv
<1> QED BY <1>4, <1>5, AdapterFacts DEF MayOwn

(* A thread whose frame uses the adapter keeps it from being quiescent.    *)
LEMMA BoundBusy ==
  ASSUME IInv, NEW t \in Threads, frames[t] # <<>>, Top(t).bound
  PROVE  Listening # {} /\ ~quiescent
<1>1. StackOK(calls[t], frames[t], pc[t], handler[t])
  BY DEF IInv, StacksInv
<1> DEFINE n == Len(frames[t])
<1>2. n \in DOMAIN frames[t] /\ Top(t) = frames[t][n]
  BY <1>1, TopFacts DEF Top
<1> HIDE DEF n
<1>3. /\ <<t, n>> \in ListeningIn(frames) <=> n \in DOMAIN frames[t] /\ frames[t][n].bound
  BY <1>1, SlotsAre
<1>4. <<t, n>> \in Listening
  BY <1>2, <1>3 DEF Listening, ListeningIn
<1> QED BY <1>4, AdapterFacts DEF IInv, AdapterInv

(* The lock goes with the places that hold it.                             *)
MutexStep(e, q) ==
  \/ adapter'.mutex = adapter.mutex /\ q \notin Holding
  \/ adapter.mutex = None /\ adapter'.mutex = e
  \/ pc[e] \in Holding /\ adapter'.mutex = None /\ q \notin Holding

(* A thread moves, and takes or releases the lock.                         *)
LEMMA ThreadPlaces ==
  ASSUME IInv, NEW t \in Threads, NEW q, Goto(t, q), MutexStep(t, q), UnchangedHooks,
         adapter'.admission_open = adapter.admission_open
  PROVE  PlacesInv'
<1>1. PlacesInv /\ pc \in [Everyone -> Places]
  BY DEF IInv, AdapterInv, StacksInv
<1>2. /\ \A e \in Everyone : e # t => pc'[e] = pc[e]
      /\ pc'[t] = q /\ t \in Everyone /\ t # None /\ None \notin Everyone /\ t \notin Workers
  BY <1>1, FramesAssumption DEF Goto, Everyone
<1>3. \A w \in Workers : w \in Everyone /\ pc'[w] = pc[w]
  BY <1>2 DEF Everyone
<1>4. \A e \in Everyone : pc'[e] \in Holding => adapter'.mutex = e
  BY <1>1, <1>2 DEF MutexStep, PlacesInv
<1> QED BY <1>1, <1>3, <1>4 DEF PlacesInv, UnchangedHooks

(* The adapter as it was, but for the lock                                 *)
Unmoved ==
  /\ adapter' \in AdapterType
  /\ adapter'.owner_thread = adapter.owner_thread
  /\ adapter'.admission_open = adapter.admission_open
  /\ adapter'.hook_refs = adapter.hook_refs /\ adapter'.live_handles = adapter.live_handles
  /\ adapter'.generated_root_leases = adapter.generated_root_leases
  /\ adapter'.generated_native_transitions = adapter.generated_native_transitions
  /\ adapter'.entered = adapter.entered /\ adapter'.observer = adapter.observer

(* Taking and releasing the lock changes nothing else.                     *)
LEMMA LockOnly ==
  ASSUME adapter \in AdapterType, NEW m \in Everyone \cup {None},
         adapter' = [adapter EXCEPT !.mutex = m]
  PROVE  Unmoved /\ adapter'.mutex = m
BY DEF AdapterType, Unmoved

(* Nor does a step without the adapter.                                    *)
LEMMA LockKept ==
  ASSUME adapter \in AdapterType, UNCHANGED adapter
  PROVE  Unmoved /\ adapter'.mutex = adapter.mutex
BY DEF Unmoved

(* A step that changes no slot and nothing but the lock.                   *)
LEMMA QuietStep ==
  ASSUME IInv, SlotsStill, UnchangedHooks, Unmoved
  PROVE  /\ adapter' \in AdapterType
         /\ subscribed' \in BOOLEAN /\ other' \in BOOLEAN /\ quiescent' \in BOOLEAN
         /\ CountersInv' /\ OwnerInv' /\ RefsInv'
<1>1. /\ adapter \in AdapterType
      /\ subscribed \in BOOLEAN /\ other \in BOOLEAN /\ quiescent \in BOOLEAN
      /\ CountersInv /\ OwnerInv /\ RefsInv
  BY DEF IInv, AdapterInv
<1>2. CountersInv'
  BY <1>1 DEF CountersInv, SlotsStill, Unmoved
<1>3. OwnerInv'
  BY <1>1 DEF OwnerInv, Unmoved
<1>4. RefsInv'
  BY <1>1 DEF RefsInv, Unmoved, UnchangedHooks, SlotsStill, AdapterIdle
<1> QED BY <1>1, <1>2, <1>3, <1>4 DEF Unmoved, UnchangedHooks

(* Such a step of a thread keeps the adapter in order.                     *)
LEMMA QuietThread ==
  ASSUME IInv, SlotsStill, UnchangedHooks, Unmoved, NEW t \in Threads, NEW q, Goto(t, q),
         MutexStep(t, q)
  PROVE  AdapterInv'
<1>1. PlacesInv'
  BY ThreadPlaces DEF Unmoved
<1> QED BY <1>1, QuietStep DEF AdapterInv

(* Steps without the adapter: a thread goes to a place that does not hold  *)
(* the lock.                                                               *)
LEMMA QuietMove ==
  ASSUME IInv, StacksInv', NEW t \in Threads, KeepsBridges(t), UNCHANGED adapter,
         UnchangedHooks, NEW q, Goto(t, q), q \notin Holding
  PROVE  AdapterInv'
<1>1. StacksInv /\ adapter \in AdapterType
  BY DEF IInv, AdapterInv
<1>2. SlotsStill
  BY <1>1, SlotsKept
<1>3. Unmoved /\ MutexStep(t, q)
  BY <1>1, LockKept DEF MutexStep
<1> QED BY <1>2, <1>3, QuietThread

(* TryLock takes the lock.                                                 *)
LEMMA TryLockAdapter ==
  ASSUME IInv, StacksInv', NEW t \in Threads, KeepsBridges(t), NEW from, NEW holding,
         TryLock(t, from, holding)
  PROVE  AdapterInv'
<1>1. StacksInv /\ adapter \in AdapterType /\ t \in Everyone
  BY DEF IInv, AdapterInv, Everyone
<1>2. /\ SlotsStill /\ UnchangedHooks /\ Goto(t, holding)
      /\ adapter.mutex = None /\ adapter' = [adapter EXCEPT !.mutex = t]
  BY <1>1, SlotsKept DEF TryLock, Lock, Free
<1>3. Unmoved /\ MutexStep(t, holding)
  BY <1>1, <1>2, LockOnly DEF MutexStep
<1> QED BY <1>2, <1>3, QuietThread

(* A refused pin, or crossing, gives the lock back, and the owner is the   *)
(* one it was.                                                             *)
LEMMA RefusedAdapter ==
  ASSUME IInv, StacksInv', NEW t \in Threads, KeepsBridges(t), UnchangedHooks,
         pc[t] \in Holding, NEW q, Goto(t, q), q \notin Holding,
         adapter' = NotPinned(t) \/ adapter' = [NotPinned(t) EXCEPT !.mutex = None],
         MayOwn(t) => adapter.owner_thread = t
  PROVE  AdapterInv'
<1>1. StacksInv /\ adapter \in AdapterType
  BY DEF IInv, AdapterInv
<1>2. SlotsStill
  BY <1>1, SlotsKept
<1>3. adapter' = [adapter EXCEPT !.mutex = None]
  BY <1>1 DEF NotPinned, AdapterType
<1>4. Unmoved /\ MutexStep(t, q)
  BY <1>1, <1>3, LockOnly DEF MutexStep
<1> QED BY <1>2, <1>4, QuietThread

(* A thread that nobody keeps from owning the adapter may pin.             *)
LEMMA NobodysAdapter ==
  ASSUME IInv, NEW t \in Threads, adapter.owner_thread = None
  PROVE  MayPin(t)
BY AdapterFacts, FramesAssumption DEF MayPin, MayOwn, InGeneratedState

(* The steps of the dispatcher that leave roots and bridges alone.         *)
LEMMA QuietDispatch ==
  ASSUME IInv, StacksInv', NEW t \in Threads,
         \/ EnsureBridge(t) \/ PinBusy(t) \/ PinFails(t) \/ CrossBusy(t) \/ CrossFails(t)
         \/ TryLock(t, "pin", "pinning") \/ TryLock(t, "cross", "crossing")
         \/ TryLock(t, "unpin", "unpinning") \/ UnpinBusy(t) \/ Unwind(t)
  PROVE  AdapterInv'
<1>0. StacksInv
  BY DEF IInv
<1>1. CASE EnsureBridge(t)
  <2>1. KeepsBridges(t)
    BY <1>0, <1>1, EnsureBridgeStacks
  <2>2. UNCHANGED adapter /\ UnchangedHooks
    BY <1>1 DEF EnsureBridge
  <2>3. PICK q \in {"callback", "uncross", "retire"} : Goto(t, q)
    BY <1>1 DEF EnsureBridge
  <2> QED BY <2>1, <2>2, <2>3, QuietMove DEF Holding
<1>2. CASE TryLock(t, "pin", "pinning")
  BY <1>0, <1>2, TryLockStacks, TryLockAdapter
<1>3. CASE TryLock(t, "cross", "crossing")
  BY <1>0, <1>3, TryLockStacks, TryLockAdapter
<1>4. CASE TryLock(t, "unpin", "unpinning")
  BY <1>0, <1>4, TryLockStacks, TryLockAdapter
<1>5. CASE PinBusy(t)
  <2>1. KeepsBridges(t)
    BY <1>0, <1>5, PinRefusedStacks DEF PinBusy
  <2>2. UNCHANGED adapter /\ UnchangedHooks
    BY <1>5 DEF PinBusy, PinRefused
  <2>3. PICK q \in {"trapped", "retire"} : Goto(t, q)
    BY <1>5 DEF PinBusy, PinRefused
  <2> QED BY <2>1, <2>2, <2>3, QuietMove DEF Holding
<1>6. CASE PinFails(t)
  <2>1. KeepsBridges(t) /\ pc[t] \in Holding /\ UnchangedHooks /\ adapter' = NotPinned(t)
    BY <1>0, <1>6, PinRefusedStacks DEF PinFails, PinRefused, Holding
  <2>2. PICK q \in {"trapped", "retire"} : Goto(t, q)
    BY <1>6 DEF PinFails, PinRefused
  <2>3. MayOwn(t) => adapter.owner_thread = t
    BY <1>6, NobodysAdapter DEF PinFails, MayOwn
  <2>4. q \notin Holding
    BY DEF Holding
  <2> QED BY <2>1, <2>2, <2>3, <2>4, RefusedAdapter
<1>7. CASE CrossBusy(t)
  <2>1. KeepsBridges(t)
    BY <1>0, <1>7, CrossRefusedStacks DEF CrossBusy
  <2>2. UNCHANGED adapter /\ UnchangedHooks /\ Goto(t, "unpin") /\ "unpin" \notin Holding
    BY <1>7 DEF CrossBusy, CrossRefused, Holding
  <2> QED BY <2>1, <2>2, QuietMove
<1>8. CASE CrossFails(t)
  <2>1. /\ KeepsBridges(t) /\ pc[t] \in Holding /\ UnchangedHooks /\ Goto(t, "unpin")
        /\ adapter' = [NotPinned(t) EXCEPT !.mutex = None] /\ "unpin" \notin Holding
    BY <1>0, <1>8, CrossRefusedStacks DEF CrossFails, CrossRefused, Holding
  <2>2. frames[t] # <<>> /\ Top(t).lease
    BY <1>0, <1>8, WorkingTop DEF CrossFails, Inside, Fits, Abandoned
  <2>3. adapter.owner_thread = t
    BY <2>2, LeaseOwner
  <2> QED BY <2>1, <2>3, RefusedAdapter
<1>9. CASE UnpinBusy(t)
  <2>1. KeepsBridges(t)
    BY <1>0, <1>9, UnpinBusyStacks
  <2>2. UNCHANGED adapter /\ UnchangedHooks /\ Goto(t, "trapped") /\ "trapped" \notin Holding
    BY <1>9 DEF UnpinBusy, Holding
  <2> QED BY <2>1, <2>2, QuietMove
<1>10. CASE Unwind(t)
  <2>1. KeepsBridges(t)
    BY <1>0, <1>10, UnwindStacks
  <2>2. UNCHANGED adapter /\ UnchangedHooks
    BY <1>10 DEF Unwind
  <2>3. PICK q \in {"uncross", "unpin", "retire", "callback", "dart"} : Goto(t, q)
    BY <1>10 DEF Unwind
  <2> QED BY <2>1, <2>2, <2>3, QuietMove DEF Holding
<1> QED BY <1>1, <1>2, <1>3, <1>4, <1>5, <1>6, <1>7, <1>8, <1>9, <1>10

(* So do callbacks that are done, calls without a frame, returns and       *)
(* exceptions.                                                             *)
LEMMA QuietCalls ==
  ASSUME IInv, StacksInv', NEW t \in Threads,
         \/ PassThrough(t) \/ (\E skip \in BOOLEAN : EnterDone(t, skip)) \/ LeaveDone(t)
         \/ CallOriginal(t) \/ Return(t) \/ (\E k \in 0 .. MaxCalls : Throw(t, k))
  PROVE  AdapterInv'
<1>0. StacksInv
  BY DEF IInv
<1>1. CASE PassThrough(t)
  <2>1. KeepsBridges(t)
    BY <1>0, <1>1, PassThroughStacks DEF KeepsBridges
  <2>2. UNCHANGED adapter /\ UnchangedHooks /\ Goto(t, "dart") /\ "dart" \notin Holding
    BY <1>1 DEF PassThrough, Holding
  <2> QED BY <2>1, <2>2, QuietMove
<1>2. ASSUME NEW skip \in BOOLEAN, EnterDone(t, skip)
      PROVE  AdapterInv'
  <2>1. KeepsBridges(t)
    BY <1>0, <1>2, EnterDoneStacks
  <2>2. UNCHANGED adapter /\ UnchangedHooks
    BY <1>2 DEF EnterDone
  <2>3. PICK q \in {"uncross", "callback", "dart"} : Goto(t, q)
    BY <1>2 DEF EnterDone
  <2> QED BY <2>1, <2>2, <2>3, QuietMove DEF Holding
<1>3. CASE LeaveDone(t)
  <2>1. KeepsBridges(t)
    BY <1>0, <1>3, LeaveDoneStacks
  <2>2. UNCHANGED adapter /\ UnchangedHooks
    BY <1>3 DEF LeaveDone
  <2>3. PICK q \in {"uncross", "retire"} : Goto(t, q)
    BY <1>3 DEF LeaveDone
  <2> QED BY <2>1, <2>2, <2>3, QuietMove DEF Holding
<1>4. CASE CallOriginal(t)
  <2>1. KeepsBridges(t)
    BY <1>0, <1>4, CallOriginalStacks
  <2>2. UNCHANGED adapter /\ UnchangedHooks /\ Goto(t, "dart") /\ "dart" \notin Holding
    BY <1>4 DEF CallOriginal, Holding
  <2> QED BY <2>1, <2>2, QuietMove
<1>5. CASE Return(t)
  <2>1. KeepsBridges(t)
    BY <1>0, <1>5, ReturnStacks
  <2>2. UNCHANGED adapter /\ UnchangedHooks
    BY <1>5 DEF Return
  <2>3. PICK q \in {"callback", "dart", "unpin", "pin"} : Goto(t, q)
    BY <1>5 DEF Return, CallerOf
  <2> QED BY <2>1, <2>2, <2>3, QuietMove DEF Holding
<1>6. ASSUME NEW k \in 0 .. MaxCalls, Throw(t, k)
      PROVE  AdapterInv'
  <2>1. KeepsBridges(t)
    BY <1>0, <1>6, ThrowStacks DEF KeepsBridges
  <2>2. UNCHANGED adapter /\ UnchangedHooks /\ Goto(t, "unwind") /\ "unwind" \notin Holding
    BY <1>6 DEF Throw, Holding
  <2> QED BY <2>1, <2>2, QuietMove
<1> QED BY <1>1, <1>2, <1>3, <1>4, <1>5, <1>6

(* Pin: one more lease for one more frame, all of them of this thread.     *)
LEMMA PinAdapter ==
  ASSUME IInv, StacksInv', NEW t \in Threads, Pin(t)
  PROVE  AdapterInv'
<1> DEFINE c == <<t, Len(frames[t])>>
           yes == TRUE
           b == Top(t).bridge
<1>0. /\ StacksInv /\ adapter \in AdapterType /\ CountersInv /\ RefsInv
      /\ subscribed \in BOOLEAN /\ other \in BOOLEAN /\ quiescent \in BOOLEAN
  BY DEF IInv, AdapterInv
<1>1. /\ pc[t] = "pinning" /\ MayPin(t) /\ adapter' = Pinned(t) /\ UnchangedHooks
  BY DEF Pin
<1>2. c = <<t, Len(frames[t])>> /\ yes \in BOOLEAN /\ yes /\ (b <=> Top(t).bridge)
  OBVIOUS
<1>3. frames[t] # <<>> /\ FrameOK(Top(t))
  BY <1>0, <1>1, WorkingTop DEF Inside
<1> HIDE DEF c, yes
<1>4. Rewrites(t, yes, b) /\ ~Top(t).lease /\ Top(t).bound
  BY <1>0, <1>2, PinStacks
<1> HIDE DEF b
<1>5. /\ c \in Bridged <=> Top(t).bridge
      /\ c \in Pinning <=> Top(t).lease
      /\ ~b => Bridged' = Bridged \ {c}
      /\ yes => Pinning' = Pinning \cup {c}
      /\ Listening' = Listening
  BY <1>0, <1>2, <1>4, SlotsRewritten
<1>6. /\ c \notin Pinning /\ Pinning' = Pinning \cup {c}
      /\ Bridged' = Bridged /\ Listening' = Listening
  BY <1>2, <1>3, <1>4, <1>5 DEF FrameOK
<1>7. Cardinality(Pinning') = Cardinality(Pinning) + 1
  BY <1>6, SlotsFinite, FS_AddElement
<1>8. /\ adapter' \in AdapterType /\ adapter'.mutex = None /\ adapter'.owner_thread = t
      /\ adapter'.generated_root_leases = adapter.generated_root_leases + 1
      /\ adapter'.generated_native_transitions = adapter.generated_native_transitions
      /\ adapter'.entered = adapter.entered /\ adapter'.observer = None
      /\ adapter'.hook_refs = adapter.hook_refs
      /\ adapter'.admission_open = adapter.admission_open
  <2> DEFINE n == adapter.generated_root_leases + 1
  <2>1. n \in 0 .. MaxLeases /\ adapter.observer = None
    BY <1>0, <1>1, FramesAssumption DEF MayPin, InGeneratedState, AdapterType
  <2>2. adapter' = [adapter EXCEPT !.mutex = None, !.owner_thread = t,
                                   !.generated_root_leases = n]
    BY <1>1 DEF Pinned
  <2> HIDE DEF n
  <2>3. /\ adapter' \in AdapterType /\ adapter'.mutex = None /\ adapter'.owner_thread = t
        /\ adapter'.generated_root_leases = n
        /\ adapter'.generated_native_transitions = adapter.generated_native_transitions
        /\ adapter'.entered = adapter.entered /\ adapter'.observer = adapter.observer
        /\ adapter'.hook_refs = adapter.hook_refs
        /\ adapter'.admission_open = adapter.admission_open
    BY <1>0, <2>1, <2>2 DEF AdapterType
  <2> QED BY <2>1, <2>3 DEF n
<1>9. ~quiescent
  BY <1>3, <1>4, BoundBusy
<1>10. CountersInv'
  <2>1. \A d \in Pinning' : d[1] = t
    BY <1>1, <1>2, <1>6, OwnLeases DEF MayPin
  <2> QED BY <1>0, <1>6, <1>7, <1>8, <2>1 DEF CountersInv
<1>11. OwnerInv'
  BY <1>0, <1>8 DEF OwnerInv, AdapterType
<1>12. RefsInv'
  BY <1>0, <1>1, <1>6, <1>8, <1>9 DEF RefsInv, UnchangedHooks
<1>13. PlacesInv'
  <2>1. PICK q \in {"dart", "cross"} : Goto(t, q)
    BY DEF Pin
  <2>2. MutexStep(t, q)
    BY <1>1, <1>8 DEF MutexStep, Holding
  <2> QED BY <1>1, <1>8, <2>1, <2>2, ThreadPlaces
<1> QED BY <1>0, <1>1, <1>8, <1>10, <1>11, <1>12, <1>13 DEF AdapterInv, UnchangedHooks

(* Cross: the first transition, of the thread that the adapter knows.      *)
LEMMA CrossAdapter ==
  ASSUME IInv, StacksInv', NEW t \in Threads, Cross(t)
  PROVE  AdapterInv'
<1> DEFINE c == <<t, Len(frames[t])>>
           yes == TRUE
           l == Top(t).lease
<1>0. /\ StacksInv /\ adapter \in AdapterType /\ CountersInv /\ RefsInv /\ OwnerInv
      /\ subscribed \in BOOLEAN /\ other \in BOOLEAN /\ quiescent \in BOOLEAN
  BY DEF IInv, AdapterInv
<1>1. pc[t] = "crossing" /\ MayCross(t) /\ UnchangedHooks
  BY DEF Cross
<1>2. c = <<t, Len(frames[t])>> /\ yes \in BOOLEAN /\ yes /\ (l <=> Top(t).lease)
  OBVIOUS
<1>3. frames[t] # <<>> /\ FrameOK(Top(t))
  BY <1>0, <1>1, WorkingTop DEF Inside
<1> HIDE DEF c, yes
<1>4. Rewrites(t, l, yes) /\ Top(t).lease /\ ~Top(t).bridge
  BY <1>0, <1>2, CrossStacks
<1> HIDE DEF l
<1>5. /\ c \in Bridged <=> Top(t).bridge
      /\ c \in Pinning <=> Top(t).lease
      /\ yes => Bridged' = Bridged \cup {c}
      /\ l => Pinning' = Pinning \cup {c}
      /\ Listening' = Listening
  BY <1>0, <1>2, <1>4, SlotsRewritten
<1>6. /\ c \notin Bridged /\ Bridged' = Bridged \cup {c}
      /\ Pinning' = Pinning /\ Listening' = Listening
  BY <1>2, <1>4, <1>5
<1>7. Cardinality(Bridged') = Cardinality(Bridged) + 1
  BY <1>6, SlotsFinite, FS_AddElement
<1>8. adapter.owner_thread = t /\ t = Home /\ ~quiescent
  BY <1>1, <1>3, <1>4, LeaseOwner, BoundBusy DEF MayCross, FrameOK
<1>9. /\ adapter' \in AdapterType /\ adapter'.mutex = None /\ adapter'.owner_thread = t
      /\ adapter'.generated_root_leases = adapter.generated_root_leases
      /\ adapter'.generated_native_transitions = adapter.generated_native_transitions + 1
      /\ adapter'.entered = adapter.entered + 1 /\ adapter'.observer = adapter.observer
      /\ adapter'.hook_refs = adapter.hook_refs
      /\ adapter'.admission_open = adapter.admission_open
  <2>1. adapter.generated_native_transitions = 0 /\ adapter.entered = 0
    BY <1>1 DEF MayCross, InGeneratedState
  <2> DEFINE one == 1
  <2>2. adapter' = [adapter EXCEPT !.mutex = None, !.owner_thread = t, !.entered = one,
                                   !.generated_native_transitions = one]
    BY <2>1 DEF Cross
  <2>3. one \in 0 .. 1 /\ one = 0 + 1
    OBVIOUS
  <2> HIDE DEF one
  <2>4. /\ adapter' \in AdapterType /\ adapter'.mutex = None /\ adapter'.owner_thread = t
        /\ adapter'.generated_root_leases = adapter.generated_root_leases
        /\ adapter'.generated_native_transitions = one
        /\ adapter'.entered = one /\ adapter'.observer = adapter.observer
        /\ adapter'.hook_refs = adapter.hook_refs
        /\ adapter'.admission_open = adapter.admission_open
    BY <1>0, <2>2, <2>3 DEF AdapterType
  <2> QED BY <2>1, <2>3, <2>4
<1>10. CountersInv'
  <2>1. \A d \in Bridged' : d[1] = Home
    BY <1>0, <1>2, <1>6, <1>8 DEF CountersInv
  <2> QED BY <1>0, <1>6, <1>7, <1>8, <1>9, <2>1 DEF CountersInv
<1>11. OwnerInv'
  BY <1>0, <1>8, <1>9 DEF OwnerInv
<1>12. RefsInv'
  BY <1>0, <1>1, <1>6, <1>8, <1>9 DEF RefsInv, UnchangedHooks
<1>13. PlacesInv'
  <2>1. PICK q \in {"ensure", "callback"} : Goto(t, q)
    BY DEF Cross
  <2>2. MutexStep(t, q)
    BY <1>1, <1>9 DEF MutexStep, Holding
  <2> QED BY <1>1, <1>9, <2>1, <2>2, ThreadPlaces
<1> QED BY <1>0, <1>1, <1>9, <1>10, <1>11, <1>12, <1>13 DEF AdapterInv, UnchangedHooks

(* Uncross: the transition ends with the bridge of its frame.              *)
LEMMA UncrossAdapter ==
  ASSUME IInv, StacksInv', NEW t \in Threads, Uncross(t)
  PROVE  AdapterInv'
<1> DEFINE c == <<t, Len(frames[t])>>
           no == FALSE
           l == Top(t).lease
<1>0. /\ StacksInv /\ adapter \in AdapterType /\ CountersInv /\ RefsInv /\ OwnerInv
      /\ subscribed \in BOOLEAN /\ other \in BOOLEAN /\ quiescent \in BOOLEAN
  BY DEF IInv, AdapterInv
<1>1. pc[t] = "uncross" /\ adapter.mutex = None /\ UnchangedHooks
  BY DEF Uncross, Free
<1>2. c = <<t, Len(frames[t])>> /\ no \in BOOLEAN /\ ~no /\ (l <=> Top(t).lease)
  OBVIOUS
<1>3. frames[t] # <<>> /\ FrameOK(Top(t))
  BY <1>0, <1>1, WorkingTop DEF Inside
<1> HIDE DEF c, no
<1>4. /\ Top(t).bridge
      /\ IF adapter.owner_thread = t /\ adapter.entered = 1 /\ adapter.observer = None
         THEN Rewrites(t, l, no) ELSE KeepsBridges(t)
  BY <1>0, <1>2, UncrossStacks
<1> HIDE DEF l
<1>5. CASE ~(adapter.owner_thread = t /\ adapter.entered = 1 /\ adapter.observer = None)
  <2>1. UNCHANGED adapter /\ Goto(t, "trapped") /\ "trapped" \notin Holding
    BY <1>5 DEF Uncross, Holding
  <2> QED BY <1>1, <1>4, <1>5, <2>1, QuietMove
<1>6. CASE adapter.owner_thread = t /\ adapter.entered = 1 /\ adapter.observer = None
  <2>1. Top(t).lease /\ ~quiescent
    BY <1>3, <1>4, BoundBusy DEF FrameOK
  <2>2. /\ c \in Bridged <=> Top(t).bridge
        /\ c \in Pinning <=> Top(t).lease
        /\ ~no => Bridged' = Bridged \ {c}
        /\ l => Pinning' = Pinning \cup {c}
        /\ Listening' = Listening
    BY <1>0, <1>2, <1>4, <1>6, SlotsRewritten
  <2>3. /\ c \in Bridged /\ Bridged' = Bridged \ {c}
        /\ Pinning' = Pinning /\ Listening' = Listening
    BY <1>2, <1>4, <2>1, <2>2
  <2>4. Cardinality(Bridged') = Cardinality(Bridged) - 1
    BY <2>3, SlotsFinite, FS_RemoveElement
  <2>5. /\ adapter' \in AdapterType /\ adapter'.mutex = adapter.mutex
        /\ adapter'.owner_thread = t
        /\ adapter'.generated_root_leases = adapter.generated_root_leases
        /\ adapter'.generated_native_transitions = 0
        /\ adapter'.entered = 0 /\ adapter'.observer = None
        /\ adapter'.hook_refs = adapter.hook_refs
        /\ adapter'.admission_open = adapter.admission_open
    <3>1. adapter.generated_native_transitions = 1
      BY <1>0, <1>6 DEF CountersInv
    <3> DEFINE zero == 0
    <3>2. adapter' = [adapter EXCEPT !.entered = zero, !.generated_native_transitions = zero]
      BY <1>6, <3>1 DEF Uncross
    <3>3. zero \in 0 .. 1 /\ zero = 0
      OBVIOUS
    <3> HIDE DEF zero
    <3>4. /\ adapter' \in AdapterType /\ adapter'.mutex = adapter.mutex
          /\ adapter'.owner_thread = adapter.owner_thread
          /\ adapter'.generated_root_leases = adapter.generated_root_leases
          /\ adapter'.generated_native_transitions = zero
          /\ adapter'.entered = zero /\ adapter'.observer = adapter.observer
          /\ adapter'.hook_refs = adapter.hook_refs
          /\ adapter'.admission_open = adapter.admission_open
      BY <1>0, <3>2, <3>3 DEF AdapterType
    <3> QED BY <1>6, <3>3, <3>4
  <2>6. CountersInv'
    <3>1. Cardinality(Bridged) = 1
      BY <1>0, <1>6 DEF CountersInv
    <3>2. Cardinality(Bridged') = 0
      BY <2>4, <3>1
    <3> QED BY <1>0, <1>6, <2>3, <2>5, <3>2 DEF CountersInv
  <2>7. OwnerInv'
    BY <1>0, <1>6, <2>5, FramesAssumption DEF OwnerInv
  <2>8. RefsInv'
    BY <1>0, <1>1, <2>1, <2>3, <2>5 DEF RefsInv, UnchangedHooks
  <2>9. PlacesInv'
    <3>1. Goto(t, "unpin") /\ MutexStep(t, "unpin")
      BY <1>6, <2>5 DEF Uncross, MutexStep, Holding
    <3> QED BY <1>1, <2>5, <3>1, ThreadPlaces
  <2> QED BY <1>0, <1>1, <2>5, <2>6, <2>7, <2>8, <2>9 DEF AdapterInv, UnchangedHooks
<1> QED BY <1>5, <1>6

(* Unpin: one lease less for one frame less; with the last the owner goes. *)
LEMMA UnpinAdapter ==
  ASSUME IInv, StacksInv', NEW t \in Threads, Unpin(t)
  PROVE  AdapterInv'
<1> DEFINE c == <<t, Len(frames[t])>>
           no == FALSE
           b == Top(t).bridge
<1>0. /\ StacksInv /\ adapter \in AdapterType /\ CountersInv /\ RefsInv /\ OwnerInv
      /\ subscribed \in BOOLEAN /\ other \in BOOLEAN /\ quiescent \in BOOLEAN
  BY DEF IInv, AdapterInv
<1>1. pc[t] = "unpinning" /\ pc[t] \in Holding /\ UnchangedHooks
  BY DEF Unpin, Holding
<1>2. c = <<t, Len(frames[t])>> /\ no \in BOOLEAN /\ ~no /\ (b <=> Top(t).bridge)
  OBVIOUS
<1>3. frames[t] # <<>> /\ FrameOK(Top(t))
  BY <1>0, <1>1, WorkingTop DEF Inside
<1> HIDE DEF c, no
<1>4. /\ Top(t).lease /\ ~Top(t).bridge
      /\ IF MayOwn(t) /\ InGeneratedState THEN Rewrites(t, no, b) ELSE KeepsBridges(t)
  BY <1>0, <1>2, UnpinStacks
<1> HIDE DEF b
<1>5. adapter.owner_thread = t /\ MayOwn(t) /\ ~quiescent
  BY <1>3, <1>4, LeaseOwner, BoundBusy DEF FrameOK
<1>6. CASE ~(MayOwn(t) /\ InGeneratedState)
  <2>1. /\ adapter' = [NotPinned(t) EXCEPT !.mutex = None]
        /\ Goto(t, "trapped") /\ "trapped" \notin Holding
    BY <1>6 DEF Unpin, Holding
  <2> QED BY <1>1, <1>4, <1>5, <1>6, <2>1, RefusedAdapter
<1>7. CASE MayOwn(t) /\ InGeneratedState
  <2>1. /\ c \in Bridged <=> Top(t).bridge
        /\ c \in Pinning <=> Top(t).lease
        /\ ~b => Bridged' = Bridged \ {c}
        /\ ~no => Pinning' = Pinning \ {c}
        /\ Listening' = Listening
    BY <1>0, <1>2, <1>4, <1>7, SlotsRewritten
  <2>2. /\ c \in Pinning /\ Pinning' = Pinning \ {c}
        /\ Bridged' = Bridged /\ Listening' = Listening
    BY <1>2, <1>4, <2>1
  <2>3. Cardinality(Pinning') = Cardinality(Pinning) - 1 /\ Cardinality(Pinning) \in Nat
    BY <2>2, SlotsFinite, FS_RemoveElement
  <2>4. adapter.generated_root_leases \in Nat \ {0} /\ adapter.generated_root_leases <= MaxLeases
    <3>1. adapter.generated_root_leases # 0
      BY <2>2, AdapterFacts
    <3> QED BY <1>0, <3>1, FramesAssumption DEF AdapterType
  <2>5. /\ adapter' \in AdapterType /\ adapter'.mutex = None
        /\ adapter'.owner_thread = IF adapter.generated_root_leases = 1 THEN None ELSE t
        /\ adapter'.generated_root_leases = adapter.generated_root_leases - 1
        /\ adapter'.generated_native_transitions = adapter.generated_native_transitions
        /\ adapter'.entered = adapter.entered /\ adapter'.observer = None
        /\ adapter'.hook_refs = adapter.hook_refs
        /\ adapter'.admission_open = adapter.admission_open
    <3> DEFINE n == adapter.generated_root_leases - 1
               o == IF adapter.generated_root_leases = 1 THEN None ELSE t
    <3>1. n \in 0 .. MaxLeases /\ o \in Threads \cup {None} /\ adapter.observer = None
      BY <1>7, <2>4, FramesAssumption DEF InGeneratedState
    <3>2. adapter' = [adapter EXCEPT !.mutex = None, !.generated_root_leases = n,
                                     !.owner_thread = o]
      BY <1>7 DEF Unpin, Unpinned
    <3> HIDE DEF n, o
    <3>3. /\ adapter' \in AdapterType /\ adapter'.mutex = None /\ adapter'.owner_thread = o
          /\ adapter'.generated_root_leases = n
          /\ adapter'.generated_native_transitions = adapter.generated_native_transitions
          /\ adapter'.entered = adapter.entered /\ adapter'.observer = adapter.observer
          /\ adapter'.hook_refs = adapter.hook_refs
          /\ adapter'.admission_open = adapter.admission_open
      BY <1>0, <3>1, <3>2 DEF AdapterType
    <3> QED BY <3>1, <3>3 DEF n, o
  <2>6. CountersInv'
    <3>1. Cardinality(Pinning') = adapter'.generated_root_leases
      BY <1>0, <2>3, <2>5 DEF CountersInv
    <3>2. adapter.generated_root_leases = 1 => Pinning' = {}
      <4>1. IsFiniteSet(Pinning')
        BY <2>2, SlotsFinite, FS_RemoveElement
      <4>2. Cardinality(Pinning') = 0 <=> Pinning' = {}
        BY <4>1, CountsNothing
      <4> QED BY <2>5, <3>1, <4>2
    <3>3. \A d \in Pinning' : d[1] = adapter'.owner_thread
      <4>1. CASE adapter.generated_root_leases = 1
        BY <3>2, <4>1
      <4>2. CASE adapter.generated_root_leases # 1
        BY <1>0, <1>5, <2>2, <2>5, <4>2 DEF CountersInv
      <4> QED BY <4>1, <4>2
    <3> QED BY <1>0, <2>2, <2>5, <3>1, <3>3 DEF CountersInv
  <2>7. OwnerInv'
    BY <2>4, <2>5, FramesAssumption DEF OwnerInv
  <2>8. RefsInv'
    BY <1>0, <1>1, <1>5, <2>2, <2>5 DEF RefsInv, UnchangedHooks
  <2>9. PlacesInv'
    <3>1. PICK q \in {"pin", "dart", "retire"} : Goto(t, q)
      BY <1>7 DEF Unpin, AfterUnpin
    <3>2. MutexStep(t, q)
      BY <1>1, <2>5 DEF MutexStep, Holding
    <3> QED BY <1>1, <2>5, <3>1, <3>2, ThreadPlaces
  <2> QED BY <1>0, <1>1, <2>5, <2>6, <2>7, <2>8, <2>9 DEF AdapterInv, UnchangedHooks
<1> QED BY <1>6, <1>7

(* Observe: the thread owns the adapter as long as it observes the heap.   *)
LEMMA ObserveAdapter ==
  ASSUME IInv, StacksInv', NEW t \in Threads, Observe(t)
  PROVE  AdapterInv'
<1>0. /\ StacksInv /\ adapter \in AdapterType /\ CountersInv /\ RefsInv
      /\ subscribed \in BOOLEAN /\ other \in BOOLEAN /\ quiescent \in BOOLEAN
  BY DEF IInv, AdapterInv
<1>1. /\ UNCHANGED frames /\ UnchangedHooks /\ adapter.admission_open /\ MayOwn(t)
      /\ adapter' = [adapter EXCEPT !.observer = t, !.owner_thread = t]
  BY DEF Observe, UnchangedStacks
<1>2. SlotsStill
  BY <1>0, <1>1, SlotsKept DEF KeepsBridges
<1>3. /\ adapter' \in AdapterType /\ adapter'.mutex = adapter.mutex
      /\ adapter'.owner_thread = t /\ adapter'.observer = t
      /\ adapter'.generated_root_leases = adapter.generated_root_leases
      /\ adapter'.generated_native_transitions = adapter.generated_native_transitions
      /\ adapter'.entered = adapter.entered
      /\ adapter'.hook_refs = adapter.hook_refs
      /\ adapter'.admission_open = adapter.admission_open
  BY <1>0, <1>1 DEF AdapterType
<1>4. CountersInv'
  <2>1. \A d \in Pinning : d[1] = t
    BY <1>1, OwnLeases
  <2> QED BY <1>0, <1>2, <1>3, <2>1 DEF CountersInv, SlotsStill
<1>5. OwnerInv'
  BY <1>3 DEF OwnerInv
<1>6. RefsInv'
  BY <1>0, <1>1, <1>2, <1>3 DEF RefsInv, UnchangedHooks, SlotsStill
<1>7. PlacesInv'
  <2>1. PICK q \in {"observe", "inspect"} : Goto(t, q)
    BY DEF Observe
  <2>2. MutexStep(t, q)
    BY <1>3 DEF MutexStep, Holding
  <2> QED BY <1>1, <1>3, <2>1, <2>2, ThreadPlaces
<1> QED BY <1>0, <1>1, <1>3, <1>4, <1>5, <1>6, <1>7 DEF AdapterInv, UnchangedHooks

(* EndObserve: the owner stays for its leases only.                        *)
LEMMA EndObserveAdapter ==
  ASSUME IInv, StacksInv', NEW t \in Threads, EndObserve(t)
  PROVE  AdapterInv'
<1> DEFINE o == IF /\ adapter.entered = 0 /\ adapter.generated_root_leases = 0
                   /\ adapter.generated_native_transitions = 0
                THEN None ELSE adapter.owner_thread
<1>0. /\ StacksInv /\ adapter \in AdapterType /\ CountersInv /\ RefsInv /\ OwnerInv
      /\ subscribed \in BOOLEAN /\ other \in BOOLEAN /\ quiescent \in BOOLEAN
  BY DEF IInv, AdapterInv
<1>1. UNCHANGED frames /\ UnchangedHooks /\ adapter.observer = t
  BY DEF EndObserve, UnchangedStacks
<1>2. SlotsStill
  BY <1>0, <1>1, SlotsKept DEF KeepsBridges
<1>3. adapter' = [adapter EXCEPT !.observer = None, !.owner_thread = o]
  BY DEF EndObserve
<1>4. t # None /\ adapter.owner_thread = t /\ ~quiescent
  BY <1>0, <1>1, FramesAssumption DEF OwnerInv, RefsInv, AdapterIdle
<1>5. /\ o \in {None, t}
      /\ o = None <=> /\ adapter.entered = 0 /\ adapter.generated_root_leases = 0
                      /\ adapter.generated_native_transitions = 0
  BY <1>4
<1> HIDE DEF o
<1>6. /\ adapter' \in AdapterType /\ adapter'.mutex = adapter.mutex
      /\ adapter'.owner_thread = o /\ adapter'.observer = None
      /\ adapter'.generated_root_leases = adapter.generated_root_leases
      /\ adapter'.generated_native_transitions = adapter.generated_native_transitions
      /\ adapter'.entered = adapter.entered
      /\ adapter'.hook_refs = adapter.hook_refs
      /\ adapter'.admission_open = adapter.admission_open
  BY <1>0, <1>3, <1>5 DEF AdapterType
<1>7. CountersInv'
  <2>1. \A d \in Pinning : d[1] = o
    BY <1>0, <1>4, <1>5, AdapterFacts DEF CountersInv
  <2> QED BY <1>0, <1>2, <1>6, <2>1 DEF CountersInv, SlotsStill
<1>8. o # None => adapter.generated_root_leases > 0
  <2>1. /\ adapter.generated_root_leases \in Nat /\ adapter.generated_native_transitions \in Nat
        /\ adapter.entered = adapter.generated_native_transitions
    BY <1>0, FramesAssumption DEF AdapterType, CountersInv
  <2> QED BY <1>5, <2>1, AdapterFacts
<1>9. OwnerInv'
  BY <1>6, <1>8 DEF OwnerInv
<1>10. RefsInv'
  BY <1>0, <1>1, <1>2, <1>4, <1>6 DEF RefsInv, UnchangedHooks, SlotsStill
<1>11. PlacesInv'
  <2>1. PICK q \in {"dart", "callback"} : Goto(t, q)
    BY DEF EndObserve
  <2>2. MutexStep(t, q)
    BY <1>6 DEF MutexStep, Holding
  <2> QED BY <1>1, <1>6, <2>1, <2>2, ThreadPlaces
<1> QED BY <1>0, <1>1, <1>6, <1>7, <1>9, <1>10, <1>11 DEF AdapterInv, UnchangedHooks

(* The places where nobody moves and the lock stays                        *)
LEMMA SamePlaces ==
  ASSUME IInv, UNCHANGED pc, adapter'.mutex = adapter.mutex, UnchangedHooks,
         adapter'.admission_open = adapter.admission_open
  PROVE  PlacesInv'
BY DEF IInv, AdapterInv, PlacesInv, UnchangedHooks

(* RetainObject: a handle of a callback behind the bridge.                 *)
LEMMA RetainObjectAdapter ==
  ASSUME IInv, StacksInv', NEW t \in Threads, RetainObject(t)
  PROVE  AdapterInv'
<1> DEFINE one == 1
<1>0. /\ StacksInv /\ adapter \in AdapterType /\ CountersInv /\ RefsInv /\ OwnerInv
      /\ subscribed \in BOOLEAN /\ other \in BOOLEAN /\ quiescent \in BOOLEAN
  BY DEF IInv, AdapterInv
<1>1. /\ UNCHANGED <<frames, pc>> /\ UnchangedHooks /\ adapter.entered = 1
      /\ adapter' = [adapter EXCEPT !.live_handles = one]
  BY DEF RetainObject, UnchangedStacks
<1>2. one \in 0 .. 1
  OBVIOUS
<1> HIDE DEF one
<1>3. SlotsStill
  BY <1>0, <1>1, SlotsKept DEF KeepsBridges
<1>4. /\ adapter' \in AdapterType /\ adapter'.mutex = adapter.mutex
      /\ adapter'.owner_thread = adapter.owner_thread /\ adapter'.observer = adapter.observer
      /\ adapter'.generated_root_leases = adapter.generated_root_leases
      /\ adapter'.generated_native_transitions = adapter.generated_native_transitions
      /\ adapter'.entered = adapter.entered
      /\ adapter'.hook_refs = adapter.hook_refs
      /\ adapter'.admission_open = adapter.admission_open
  BY <1>0, <1>1, <1>2 DEF AdapterType
<1>5. CountersInv'
  BY <1>0, <1>3, <1>4 DEF CountersInv, SlotsStill
<1>6. OwnerInv'
  BY <1>0, <1>4 DEF OwnerInv
<1>7. RefsInv'
  <2>1. ~quiescent
    BY <1>0, <1>1 DEF RefsInv, AdapterIdle
  <2> QED BY <1>0, <1>1, <1>3, <1>4, <2>1 DEF RefsInv, UnchangedHooks, SlotsStill
<1>8. PlacesInv'
  BY <1>1, <1>4, SamePlaces
<1> QED BY <1>0, <1>1, <1>4, <1>5, <1>6, <1>7, <1>8 DEF AdapterInv, UnchangedHooks

(* PushFrame: a frame that uses the adapter is pushed for a subscribed     *)
(* listener while admission is open.                                       *)
LEMMA PushFrameAdapter ==
  ASSUME IInv, StacksInv', NEW t \in Threads, NEW kind \in Kinds, NEW listening \in BOOLEAN,
         PushFrame(t, kind, listening)
  PROVE  AdapterInv'
<1> DEFINE c == <<t, Len(frames[t]) + 1>>
<1>0. /\ StacksInv /\ adapter \in AdapterType /\ CountersInv /\ RefsInv /\ OwnerInv
      /\ subscribed \in BOOLEAN /\ other \in BOOLEAN /\ quiescent \in BOOLEAN
  BY DEF IInv, AdapterInv
<1>1. UNCHANGED adapter /\ UnchangedHooks /\ (listening => MayEnter(kind))
  BY DEF PushFrame
<1>2. PICK e \in FrameType : /\ frames' = [frames EXCEPT ![t] = Append(frames[t], e)]
                             /\ ~e.lease /\ ~e.bridge
                             /\ e.bound <=> kind = "bound" /\ listening
  BY <1>0, PushFrameStacks
<1>3. c = <<t, Len(frames[t]) + 1>>
  OBVIOUS
<1> HIDE DEF c
<1>4. /\ Bridged' = Bridged /\ Pinning' = Pinning
      /\ e.bound => Listening' = Listening \cup {c}
      /\ ~e.bound => Listening' = Listening
  BY <1>0, <1>2, <1>3, SlotsPushed
<1>5. e.bound => subscribed
  BY <1>1, <1>2 DEF MayEnter
<1>6. CountersInv'
  BY <1>0, <1>1, <1>4 DEF CountersInv
<1>7. OwnerInv'
  BY <1>0, <1>1 DEF OwnerInv
<1>8. RefsInv'
  <2>1. (subscribed \/ Listening' # {}) <=> (subscribed \/ Listening # {})
    BY <1>4, <1>5
  <2>2. One(subscribed \/ Listening' # {}) = One(subscribed \/ Listening # {})
    BY <2>1 DEF One
  <2> QED BY <1>0, <1>1, <2>2 DEF RefsInv, UnchangedHooks, AdapterIdle
<1>9. PlacesInv'
  <2>1. PICK q \in {"pin", "ensure"} : Goto(t, q)
    BY DEF PushFrame
  <2>2. MutexStep(t, q)
    BY <1>1 DEF MutexStep, Holding
  <2> QED BY <1>1, <2>1, <2>2, ThreadPlaces
<1> QED BY <1>0, <1>1, <1>6, <1>7, <1>8, <1>9 DEF AdapterInv, UnchangedHooks

(* Retire: the reference of an unhooked listener goes with the last of its *)
(* calls in flight.                                                        *)
LEMMA RetireAdapter ==
  ASSUME IInv, StacksInv', NEW t \in Threads, Retire(t)
  PROVE  AdapterInv'
<1> DEFINE c == <<t, Len(frames[t])>>
<1>0. /\ StacksInv /\ adapter \in AdapterType /\ CountersInv /\ RefsInv /\ OwnerInv
      /\ subscribed \in BOOLEAN /\ other \in BOOLEAN /\ quiescent \in BOOLEAN
  BY DEF IInv, AdapterInv
<1>1. /\ UnchangedHooks /\ pc[t] = "retire"
      /\ IF DropsHookRef(t) THEN adapter' = [adapter EXCEPT !.hook_refs = @ - 1]
                            ELSE UNCHANGED adapter
  BY DEF Retire
<1>2. /\ frames[t] # <<>> /\ ~Top(t).lease /\ ~Top(t).bridge
      /\ frames' = [frames EXCEPT ![t] = Front(frames[t])]
  BY <1>0, RetireStacks
<1>3. c = <<t, Len(frames[t])>>
  OBVIOUS
<1> HIDE DEF c
<1>4. /\ Bridged' = Bridged /\ Pinning' = Pinning
      /\ Listening' = Listening \ {c} /\ (c \in Listening <=> Top(t).bound)
  BY <1>0, <1>2, <1>3, SlotsPopped
<1>5. PICK q \in {"dart", "callback", "unwind"} : Goto(t, q)
  <2>1. Top(t).phase \in {"failed", "finished", "exception"}
    BY <1>0, <1>1, WorkingTop DEF Inside, Fits, Abandoned
  <2> QED BY <2>1 DEF Retire, CallerOf
<1>6. q \notin Holding
  BY DEF Holding
<1>7. /\ IsFiniteSet(Listening) /\ IsFiniteSet(Listening')
      /\ Cardinality(Listening) \in Nat
      /\ c \in Listening => Cardinality(Listening') = Cardinality(Listening) - 1
  <2>1. IsFiniteSet(Listening) /\ Cardinality(Listening) \in Nat
    BY SlotsFinite
  <2> QED BY <1>4, <2>1, FS_RemoveElement
<1>8. c \in Listening => (Cardinality(Listening) = 1 <=> Listening' = {})
  <2>1. IsFiniteSet(Listening')
    BY <1>7
  <2>2. Cardinality(Listening') = 0 <=> Listening' = {}
    BY <2>1, CountsNothing
  <2> DEFINE m == Cardinality(Listening)
             n == Cardinality(Listening')
  <2>3. /\ c \in Listening => n = m - 1
        /\ n = 0 <=> Listening' = {}
        /\ m \in Nat
    BY <1>7, <2>2
  <2> HIDE DEF m, n
  <2>4. c \in Listening => (m = 1 <=> Listening' = {})
    BY <2>3
  <2> QED BY <2>4 DEF m
<1>9. CASE ~DropsHookRef(t)
  <2>1. UNCHANGED adapter
    BY <1>1, <1>9
  <2>2. (subscribed \/ Listening' # {}) <=> (subscribed \/ Listening # {})
    <3>1. CASE subscribed
      BY <3>1
    <3>2. CASE ~Top(t).bound
      BY <1>4, <3>2
    <3>3. CASE Top(t).bound /\ ~subscribed /\ Cardinality(Listening) # 1
      BY <1>4, <1>8, <3>3
    <3> QED BY <1>9, <3>1, <3>2, <3>3 DEF DropsHookRef
  <2>3. One(subscribed \/ Listening' # {}) = One(subscribed \/ Listening # {})
    BY <2>2 DEF One
  <2>4. CountersInv'
    BY <1>0, <1>4, <2>1 DEF CountersInv
  <2>5. OwnerInv'
    BY <1>0, <2>1 DEF OwnerInv
  <2>6. RefsInv'
    BY <1>0, <1>1, <2>1, <2>3 DEF RefsInv, UnchangedHooks, AdapterIdle
  <2>7. PlacesInv'
    <3>1. MutexStep(t, q)
      BY <1>6, <2>1 DEF MutexStep
    <3> QED BY <1>1, <1>5, <2>1, <3>1, ThreadPlaces
  <2> QED BY <1>0, <1>1, <2>1, <2>4, <2>5, <2>6, <2>7 DEF AdapterInv, UnchangedHooks
<1>10. CASE DropsHookRef(t)
  <2>1. Top(t).bound /\ ~subscribed /\ Cardinality(Listening) = 1
    BY <1>10 DEF DropsHookRef
  <2>2. Listening # {} /\ ~quiescent
    BY <1>2, <2>1, BoundBusy
  <2>3. Listening' = {}
    BY <1>4, <1>8, <2>1
  <2> DEFINE n == adapter.hook_refs - 1
  <2>4. n = One(other) /\ n \in 0 .. 2
    <3>1. adapter.hook_refs = 1 + One(other)
      BY <1>0, <2>2 DEF RefsInv, One
    <3>2. One(other) \in 0 .. 1
      BY DEF One
    <3> QED BY <3>1, <3>2
  <2>5. adapter' = [adapter EXCEPT !.hook_refs = n]
    BY <1>1, <1>10
  <2> HIDE DEF n
  <2>6. /\ adapter' \in AdapterType /\ adapter'.mutex = adapter.mutex
        /\ adapter'.owner_thread = adapter.owner_thread
        /\ adapter'.observer = adapter.observer
        /\ adapter'.generated_root_leases = adapter.generated_root_leases
        /\ adapter'.generated_native_transitions = adapter.generated_native_transitions
        /\ adapter'.entered = adapter.entered /\ adapter'.hook_refs = n
        /\ adapter'.admission_open = adapter.admission_open
    BY <1>0, <2>4, <2>5 DEF AdapterType
  <2>7. CountersInv'
    BY <1>0, <1>4, <2>6 DEF CountersInv
  <2>8. OwnerInv'
    BY <1>0, <2>6 DEF OwnerInv
  <2>9. RefsInv'
    <3>1. One(subscribed' \/ Listening' # {}) = 0
      BY <1>1, <2>1, <2>3 DEF One, UnchangedHooks
    <3>2. One(other) \in 0 .. 1 /\ other' = other /\ ~quiescent'
      BY <1>1, <2>2 DEF One, UnchangedHooks
    <3> QED BY <2>4, <2>6, <3>1, <3>2 DEF RefsInv
  <2>10. PlacesInv'
    <3>1. MutexStep(t, q)
      BY <1>6, <2>6 DEF MutexStep
    <3> QED BY <1>1, <1>5, <2>6, <3>1, ThreadPlaces
  <2> QED BY <1>0, <1>1, <2>6, <2>7, <2>8, <2>9, <2>10 DEF AdapterInv, UnchangedHooks
<1> QED BY <1>9, <1>10

(* A worker moves; the others that hold the lock are not there.            *)
LEMMA WorkerPlaces ==
  ASSUME IInv, NEW w \in Workers, NEW q \in Working, MutexStep(w, q),
         pc'[w] = q, \A e \in Everyone \ {w} : pc'[e] = pc[e],
         \/ UNCHANGED <<other, quiescent>> /\ adapter'.admission_open = adapter.admission_open
         \/ adapter.mutex \in {None, w},
         q = "retaining" => adapter'.admission_open /\ ~other',
         q = "releasing" => other',
         q = "checking" => ~adapter'.admission_open /\ ~quiescent'
  PROVE  PlacesInv'
<1>1. PlacesInv /\ w \in Everyone /\ w # None /\ None \notin Everyone
  BY FramesAssumption DEF IInv, AdapterInv, Everyone
<1>2. \A e \in Everyone : pc'[e] \in Holding => adapter'.mutex = e
  BY <1>1 DEF MutexStep, PlacesInv
<1>3. ASSUME NEW u \in Workers
      PROVE  /\ pc'[u] \in Working
             /\ pc'[u] = "retaining" => adapter'.admission_open /\ ~other'
             /\ pc'[u] = "releasing" => other'
             /\ pc'[u] = "checking" => ~adapter'.admission_open /\ ~quiescent'
  <2>1. CASE u = w
    BY <2>1
  <2>2. CASE u # w
    <3>1. u \in Everyone /\ pc'[u] = pc[u] /\ pc[u] \in Working /\ u # None
      BY <1>1, <2>2 DEF PlacesInv, Everyone
    <3>2. CASE UNCHANGED <<other, quiescent>> /\ adapter'.admission_open = adapter.admission_open
      BY <1>1, <3>1, <3>2 DEF PlacesInv
    <3>3. CASE adapter.mutex \in {None, w}
      <4>1. pc[u] \notin Holding
        BY <1>1, <2>2, <3>1, <3>3 DEF PlacesInv
      <4> QED BY <3>1, <4>1 DEF Holding
    <3> QED BY <3>2, <3>3
  <2> QED BY <2>1, <2>2
<1> QED BY <1>2, <1>3 DEF PlacesInv

(* The functions of the library take the lock,                             *)
LEMMA BeginAdapter ==
  ASSUME IInv, StacksInv', NEW w \in Workers,
         RetainBegin(w) \/ ReleaseBegin(w) \/ FreeHandleBegin(w) \/ CheckBegin(w)
  PROVE  AdapterInv'
<1>1. /\ StacksInv /\ adapter \in AdapterType /\ w \in Everyone /\ Work(w)
      /\ pc \in [Everyone -> Places]
  BY DEF IInv, AdapterInv, Everyone, Work, StacksInv
<1>2. UNCHANGED frames /\ \A e \in Everyone \ {w} : pc'[e] = pc[e]
  BY <1>1, WorkStacks
<1>3. SlotsStill
  BY <1>2 DEF SlotsStill, Bridged, Pinning, Listening
<1>4. /\ UnchangedHooks /\ adapter.mutex = None /\ adapter' = [adapter EXCEPT !.mutex = w]
  BY DEF RetainBegin, ReleaseBegin, FreeHandleBegin, CheckBegin, Lock, Free, UnchangedThreads,
         UnchangedHooks
<1>5. Unmoved /\ adapter'.mutex = w
  BY <1>1, <1>4, LockOnly
<1>6. PICK q \in Working : /\ Goto(w, q)
                           /\ q = "retaining" => adapter.admission_open /\ ~other
                           /\ q = "releasing" => other
                           /\ q = "checking" => ~adapter.admission_open /\ ~quiescent
  BY DEF RetainBegin, ReleaseBegin, FreeHandleBegin, CheckBegin, Working
<1>7. pc'[w] = q /\ MutexStep(w, q)
  BY <1>1, <1>4, <1>5, <1>6 DEF Goto, MutexStep
<1>8. PlacesInv'
  <2>1. adapter'.admission_open = adapter.admission_open /\ UNCHANGED <<other, quiescent>>
    BY <1>4, <1>5 DEF Unmoved, UnchangedHooks
  <2> QED BY <1>2, <1>6, <1>7, <2>1, WorkerPlaces
<1> QED BY <1>3, <1>4, <1>5, <1>8, QuietStep DEF AdapterInv

(* and give it back.                                                       *)
LEMMA GivenBack ==
  ASSUME IInv, StacksInv', NEW w \in Workers, pc[w] \in Holding, Work(w), Goto(w, "api"),
         adapter'.mutex = None
  PROVE  PlacesInv'
<1>1. /\ StacksInv /\ w \in Everyone /\ pc \in [Everyone -> Places] /\ adapter.mutex = w
  BY DEF IInv, AdapterInv, Everyone, StacksInv, PlacesInv
<1>2. \A e \in Everyone \ {w} : pc'[e] = pc[e]
  BY <1>1, WorkStacks
<1>3. pc'[w] = "api"
  BY <1>1 DEF Goto
<1> DEFINE q == "api"
<1>4. /\ q \in Working /\ MutexStep(w, q) /\ pc'[w] = q
      /\ q # "retaining" /\ q # "releasing" /\ q # "checking"
  BY <1>3 DEF Working, MutexStep, Holding
<1> HIDE DEF q
<1> QED BY <1>1, <1>2, <1>4, WorkerPlaces

(* The adapter as it was, but for the lock, the references and the handles *)
UsedAsBefore ==
  /\ adapter' \in AdapterType
  /\ adapter'.owner_thread = adapter.owner_thread /\ adapter'.observer = adapter.observer
  /\ adapter'.generated_root_leases = adapter.generated_root_leases
  /\ adapter'.generated_native_transitions = adapter.generated_native_transitions
  /\ adapter'.entered = adapter.entered

(* What no worker changes                                                  *)
LEMMA WorkKeeps ==
  ASSUME IInv, NEW w \in Workers, Work(w), UsedAsBefore
  PROVE  CountersInv' /\ OwnerInv' /\ SlotsStill
<1>1. StacksInv /\ CountersInv /\ OwnerInv
  BY DEF IInv, AdapterInv
<1>2. UNCHANGED frames
  BY <1>1, WorkStacks
<1>3. SlotsStill
  BY <1>2 DEF SlotsStill, Bridged, Pinning, Listening
<1>4. CountersInv'
  BY <1>1, <1>3 DEF CountersInv, SlotsStill, UsedAsBefore
<1>5. OwnerInv'
  BY <1>1 DEF OwnerInv, UsedAsBefore
<1> QED BY <1>3, <1>4, <1>5

(* RetainHook and ReleaseHook count the references.                        *)
LEMMA HookRefsAdapter ==
  ASSUME IInv, StacksInv', NEW w \in Workers, RetainEnd(w) \/ ReleaseEnd(w)
  PROVE  AdapterInv'
<1> DEFINE d == IF pc[w] = "retaining" THEN 1 ELSE -1
           n == adapter.hook_refs + d
<1>0. /\ adapter \in AdapterType /\ RefsInv /\ PlacesInv /\ Work(w)
      /\ subscribed \in BOOLEAN /\ other \in BOOLEAN /\ quiescent \in BOOLEAN
  BY DEF IInv, AdapterInv, Work
<1>1. /\ pc[w] \in {"retaining", "releasing"} /\ pc[w] \in Holding /\ Goto(w, "api")
      /\ adapter' = [adapter EXCEPT !.mutex = None, !.hook_refs = n]
      /\ UNCHANGED <<subscribed, quiescent>>
      /\ other' \in BOOLEAN /\ (other' <=> pc[w] = "retaining")
      /\ (other <=> pc[w] = "releasing")
      /\ pc[w] = "retaining" => ~quiescent
  <2>1. CASE RetainEnd(w)
    BY <1>0, <2>1 DEF RetainEnd, PlacesInv, RefsInv, Holding, UnchangedThreads
  <2>2. CASE ReleaseEnd(w)
    <3>1. adapter' = [adapter EXCEPT !.mutex = None, !.hook_refs = n]
      <4>1. adapter.hook_refs \in Int
        BY <1>0 DEF AdapterType
      <4>2. n = adapter.hook_refs - 1
        BY <2>2, <4>1 DEF ReleaseEnd
      <4> QED BY <2>2, <4>2 DEF ReleaseEnd
    <3> QED BY <1>0, <2>2, <3>1 DEF ReleaseEnd, PlacesInv, RefsInv, Holding, UnchangedThreads
  <2> QED BY <2>1, <2>2
<1>2. n = One(subscribed \/ Listening # {}) + One(other') /\ n \in 0 .. 2
  <2>1. adapter.hook_refs = One(subscribed \/ Listening # {}) + One(other)
    BY <1>0 DEF RefsInv
  <2>2. One(subscribed \/ Listening # {}) \in 0 .. 1
    BY DEF One
  <2>3. /\ pc[w] = "retaining" => One(other) = 0 /\ One(other') = 1 /\ d = 1
        /\ pc[w] # "retaining" => One(other) = 1 /\ One(other') = 0 /\ d = -1
    BY <1>1 DEF One
  <2> QED BY <2>1, <2>2, <2>3
<1> HIDE DEF n
<1>3. /\ UsedAsBefore /\ adapter'.mutex = None /\ adapter'.hook_refs = n
      /\ adapter'.admission_open = adapter.admission_open
  BY <1>0, <1>1, <1>2 DEF AdapterType, UsedAsBefore
<1>4. CountersInv' /\ OwnerInv' /\ SlotsStill
  BY <1>0, <1>3, WorkKeeps
<1>5. ~quiescent
  BY <1>0, <1>1, AdapterFacts
<1>6. RefsInv'
  BY <1>1, <1>2, <1>3, <1>4, <1>5 DEF RefsInv, SlotsStill
<1>7. PlacesInv'
  BY <1>0, <1>1, <1>3, GivenBack
<1> QED BY <1>0, <1>1, <1>3, <1>4, <1>6, <1>7 DEF AdapterInv, UsedAsBefore

(* A handle is freed.                                                      *)
LEMMA FreeHandleAdapter ==
  ASSUME IInv, StacksInv', NEW w \in Workers, FreeHandleEnd(w)
  PROVE  AdapterInv'
<1> DEFINE n == IF adapter.live_handles = 0 THEN 0 ELSE adapter.live_handles - 1
<1>0. /\ adapter \in AdapterType /\ RefsInv /\ Work(w)
      /\ subscribed \in BOOLEAN /\ other \in BOOLEAN /\ quiescent \in BOOLEAN
  BY DEF IInv, AdapterInv, Work
<1>1. /\ pc[w] \in Holding /\ Goto(w, "api") /\ UnchangedHooks
      /\ adapter' = [adapter EXCEPT !.mutex = None, !.live_handles = n]
  BY DEF FreeHandleEnd, Holding, UnchangedThreads, UnchangedHooks
<1>2. n = 0 /\ n \in 0 .. 1
  BY <1>0 DEF AdapterType
<1> HIDE DEF n
<1>3. /\ UsedAsBefore /\ adapter'.mutex = None /\ adapter'.hook_refs = adapter.hook_refs
      /\ adapter'.admission_open = adapter.admission_open /\ adapter'.live_handles = n
  BY <1>0, <1>1, <1>2 DEF AdapterType, UsedAsBefore
<1>4. CountersInv' /\ OwnerInv' /\ SlotsStill
  BY <1>0, <1>3, WorkKeeps
<1>5. RefsInv'
  BY <1>0, <1>1, <1>2, <1>3, <1>4
     DEF RefsInv, SlotsStill, UsedAsBefore, AdapterIdle, UnchangedHooks
<1>6. PlacesInv'
  BY <1>0, <1>1, <1>3, GivenBack
<1> QED BY <1>0, <1>1, <1>3, <1>4, <1>5, <1>6 DEF AdapterInv, UsedAsBefore, UnchangedHooks

(* CheckQuiescent tells the truth: nothing is in use while it holds the    *)
(* lock and finds the counters so.                                         *)
LEMMA CheckAdapter ==
  ASSUME IInv, StacksInv', NEW w \in Workers, CheckEnd(w)
  PROVE  AdapterInv'
<1>0. /\ adapter \in AdapterType /\ RefsInv /\ PlacesInv /\ Work(w)
      /\ subscribed \in BOOLEAN /\ other \in BOOLEAN /\ quiescent \in BOOLEAN
  BY DEF IInv, AdapterInv, Work
<1>1. /\ pc[w] = "checking" /\ pc[w] \in Holding /\ Goto(w, "api")
      /\ UNCHANGED <<subscribed, other>> /\ (quiescent' <=> AdapterIdle)
      /\ quiescent' \in BOOLEAN
      /\ adapter' = [adapter EXCEPT !.mutex = None]
  BY DEF CheckEnd, Holding, AdapterIdle
<1>2. Unmoved /\ adapter'.mutex = None
  BY <1>0, <1>1, LockOnly
<1>3. UsedAsBefore
  BY <1>2 DEF UsedAsBefore, Unmoved
<1>4. CountersInv' /\ OwnerInv' /\ SlotsStill
  BY <1>0, <1>3, WorkKeeps
<1>5. RefsInv'
  <2>1. ~adapter.admission_open
    BY <1>0, <1>1 DEF PlacesInv
  <2>2. AdapterIdle => AdapterIdle'
    BY <1>2 DEF AdapterIdle, Unmoved
  <2> QED BY <1>0, <1>1, <1>2, <1>4, <2>1, <2>2 DEF RefsInv, SlotsStill, Unmoved
<1>6. PlacesInv'
  BY <1>0, <1>1, <1>2, GivenBack
<1> QED BY <1>0, <1>1, <1>3, <1>4, <1>5, <1>6 DEF AdapterInv, UsedAsBefore

(* A worker that only needs the lock to be free goes on at once.           *)
LEMMA AtOnce ==
  ASSUME IInv, NEW w \in Workers, pc[w] = "api", UNCHANGED pc, adapter'.mutex = adapter.mutex,
         \/ adapter.mutex = None
         \/ UNCHANGED <<other, quiescent>> /\ adapter'.admission_open = adapter.admission_open
  PROVE  PlacesInv'
<1> DEFINE q == pc[w]
<1>1. /\ q \in Working /\ MutexStep(w, q) /\ pc'[w] = q
      /\ q # "retaining" /\ q # "releasing" /\ q # "checking"
  BY DEF Working, MutexStep, Holding
<1>2. \A e \in Everyone \ {w} : pc'[e] = pc[e]
  OBVIOUS
<1> HIDE DEF q
<1> QED BY <1>1, <1>2, WorkerPlaces

(* Subscribe: a listener comes with its reference.                         *)
LEMMA SubscribeAdapter ==
  ASSUME IInv, StacksInv', NEW w \in Workers, Subscribe(w)
  PROVE  AdapterInv'
<1> DEFINE n == adapter.hook_refs + 1
<1>0. /\ adapter \in AdapterType /\ RefsInv /\ Work(w)
      /\ subscribed \in BOOLEAN /\ other \in BOOLEAN /\ quiescent \in BOOLEAN
  BY DEF IInv, AdapterInv, Work
<1>1. /\ pc[w] = "api" /\ adapter.admission_open /\ ~subscribed /\ Listening = {}
      /\ adapter.mutex = None /\ adapter' = [adapter EXCEPT !.hook_refs = n]
      /\ subscribed' /\ subscribed' \in BOOLEAN /\ UNCHANGED <<other, pc, quiescent>>
  BY DEF Subscribe, Free, UnchangedThreads
<1>2. n = 1 + One(other) /\ n \in 0 .. 2 /\ ~quiescent
  <2>1. adapter.hook_refs = One(other) /\ One(other) \in 0 .. 1
    BY <1>0, <1>1 DEF RefsInv, One
  <2> QED BY <1>0, <1>1, <2>1 DEF RefsInv
<1> HIDE DEF n
<1>3. /\ UsedAsBefore /\ adapter'.mutex = adapter.mutex /\ adapter'.hook_refs = n
  BY <1>0, <1>1, <1>2 DEF AdapterType, UsedAsBefore
<1>4. CountersInv' /\ OwnerInv' /\ SlotsStill
  BY <1>0, <1>3, WorkKeeps
<1>5. RefsInv'
  <2>1. One(subscribed' \/ Listening' # {}) = 1
    BY <1>1 DEF One
  <2> QED BY <1>1, <1>2, <1>3, <2>1 DEF RefsInv
<1>6. PlacesInv'
  BY <1>1, <1>3, AtOnce
<1> QED BY <1>0, <1>1, <1>3, <1>4, <1>5, <1>6 DEF AdapterInv, UsedAsBefore

(* Quiesce: listeners in flight keep their reference.                      *)
LEMMA QuiesceAdapter ==
  ASSUME IInv, StacksInv', NEW w \in Workers, Quiesce(w)
  PROVE  AdapterInv'
<1> DEFINE n == adapter.hook_refs - ReleasedIfIdle - (IF other THEN 1 ELSE 0)
           no == FALSE
<1>0. /\ adapter \in AdapterType /\ RefsInv /\ Work(w)
      /\ subscribed \in BOOLEAN /\ other \in BOOLEAN /\ quiescent \in BOOLEAN
  BY DEF IInv, AdapterInv, Work
<1>1. /\ pc[w] = "api" /\ adapter.admission_open /\ adapter.mutex = None
      /\ adapter' = [adapter EXCEPT !.admission_open = no, !.hook_refs = n]
      /\ ~subscribed' /\ subscribed' \in BOOLEAN /\ ~other' /\ other' \in BOOLEAN
      /\ UNCHANGED <<pc, quiescent>>
  BY DEF Quiesce, Free, UnchangedThreads
<1>2. no \in BOOLEAN
  OBVIOUS
<1>3. n = One(Listening # {}) /\ n \in 0 .. 2 /\ ~quiescent
  <2>1. adapter.hook_refs = One(subscribed \/ Listening # {}) + One(other)
    BY <1>0 DEF RefsInv
  <2>2. One(other) = IF other THEN 1 ELSE 0
    BY DEF One
  <2>3. One(subscribed \/ Listening # {}) = ReleasedIfIdle + One(Listening # {})
    BY <1>0 DEF One, ReleasedIfIdle
  <2>4. /\ One(other) \in 0 .. 1 /\ One(Listening # {}) \in 0 .. 1 /\ ReleasedIfIdle \in 0 .. 1
    BY DEF One, ReleasedIfIdle
  <2>5. ~quiescent
    BY <1>0, <1>1 DEF RefsInv
  <2> QED BY <2>1, <2>2, <2>3, <2>4, <2>5
<1> HIDE DEF n, no
<1>4. /\ UsedAsBefore /\ adapter'.mutex = adapter.mutex /\ adapter'.hook_refs = n
  BY <1>0, <1>1, <1>2, <1>3 DEF AdapterType, UsedAsBefore
<1>5. CountersInv' /\ OwnerInv' /\ SlotsStill
  BY <1>0, <1>4, WorkKeeps
<1>6. RefsInv'
  <2>1. One(subscribed' \/ Listening' # {}) = One(Listening # {}) /\ One(other') = 0
    BY <1>1, <1>5 DEF One, SlotsStill
  <2>2. One(Listening # {}) \in 0 .. 1
    BY DEF One
  <2> QED BY <1>1, <1>3, <1>4, <2>1, <2>2 DEF RefsInv
<1>7. PlacesInv'
  BY <1>1, <1>4, AtOnce
<1> QED BY <1>0, <1>1, <1>4, <1>5, <1>6, <1>7 DEF AdapterInv, UsedAsBefore

(* Reopen: admission opens again for an adapter that nobody uses.          *)
LEMMA ReopenAdapter ==
  ASSUME IInv, StacksInv', NEW w \in Workers, Reopen(w)
  PROVE  AdapterInv'
<1> DEFINE yes == TRUE
<1>0. /\ adapter \in AdapterType /\ RefsInv /\ PlacesInv /\ Work(w)
      /\ subscribed \in BOOLEAN /\ other \in BOOLEAN /\ quiescent \in BOOLEAN
  BY DEF IInv, AdapterInv, Work
<1>1. /\ quiescent /\ ~quiescent' /\ quiescent' \in BOOLEAN
      /\ adapter' = [adapter EXCEPT !.admission_open = yes]
      /\ UNCHANGED <<subscribed, other, pc>>
  BY DEF Reopen
<1>2. yes \in BOOLEAN /\ yes
  OBVIOUS
<1> HIDE DEF yes
<1>3. /\ UsedAsBefore /\ adapter'.mutex = adapter.mutex
      /\ adapter'.hook_refs = adapter.hook_refs /\ (adapter'.admission_open <=> yes)
  BY <1>0, <1>1, <1>2 DEF AdapterType, UsedAsBefore
<1>4. CountersInv' /\ OwnerInv' /\ SlotsStill
  BY <1>0, <1>3, WorkKeeps
<1>5. RefsInv'
  BY <1>0, <1>1, <1>3, <1>4 DEF RefsInv, SlotsStill
<1>6. PlacesInv'
  <2>1. \A u \in Workers : pc[u] # "retaining" /\ pc[u] # "checking"
    BY <1>0, <1>1, AdapterFacts DEF PlacesInv
  <2> QED BY <1>0, <1>1, <1>3, <2>1 DEF PlacesInv
<1> QED BY <1>0, <1>1, <1>3, <1>4, <1>5, <1>6 DEF AdapterInv, UsedAsBefore

-----------------------------------------------------------------------------
(* The inductive invariant                                                 *)

(* At the start the adapter has one listener and no user.                  *)
LEMMA AdapterInit ==
  ASSUME Init
  PROVE  AdapterInv
<1> DEFINE yes == TRUE
<1>1. /\ adapter = [mutex |-> None, owner_thread |-> None, admission_open |-> yes,
                    hook_refs |-> 1, live_handles |-> 0, generated_root_leases |-> 0,
                    generated_native_transitions |-> 0, entered |-> 0, observer |-> None]
      /\ subscribed /\ ~other /\ ~quiescent
      /\ subscribed \in BOOLEAN /\ other \in BOOLEAN /\ quiescent \in BOOLEAN
      /\ \A t \in Threads : frames[t] = <<>>
  BY DEF Init
<1>2. yes \in BOOLEAN
  OBVIOUS
<1> HIDE DEF yes
<1>3. /\ adapter \in AdapterType /\ adapter.owner_thread = None /\ adapter.observer = None
      /\ adapter.hook_refs = 1 /\ adapter.generated_root_leases = 0
      /\ adapter.generated_native_transitions = 0 /\ adapter.entered = 0
  BY <1>1, <1>2, FramesAssumption DEF AdapterType
<1>4. Bridged = {} /\ Pinning = {}
  BY <1>1 DEF Bridged, Pinning, BridgedIn, PinningIn, Slots
<1>5. CountersInv
  BY <1>3, <1>4, FS_EmptySet DEF CountersInv
<1>6. OwnerInv
  BY <1>3 DEF OwnerInv
<1>7. RefsInv
  BY <1>1, <1>3 DEF RefsInv, One
<1>8. PlacesInv
  <2>1. \A e \in Everyone : pc[e] = IF e \in Threads THEN "dart" ELSE "api"
    BY DEF Init
  <2>2. \A e \in Everyone : pc[e] \notin Holding
    BY <2>1 DEF Holding
  <2>3. \A w \in Workers : pc[w] = "api"
    BY <2>1, FramesAssumption DEF Everyone
  <2> QED BY <2>2, <2>3 DEF PlacesInv, Working
<1> QED BY <1>1, <1>3, <1>5, <1>6, <1>7, <1>8 DEF AdapterInv

(* Every step of a thread keeps the adapter in order,                      *)
LEMMA StepAdapter ==
  ASSUME IInv, StacksInv', NEW t \in Threads, Step(t)
  PROVE  AdapterInv'
<1>1. ASSUME NEW kind \in Kinds, NEW listening \in BOOLEAN, PushFrame(t, kind, listening)
      PROVE  AdapterInv'
  BY <1>1, PushFrameAdapter
<1>2. CASE Pin(t)
  BY <1>2, PinAdapter
<1>3. CASE Cross(t)
  BY <1>3, CrossAdapter
<1>4. CASE Uncross(t)
  BY <1>4, UncrossAdapter
<1>5. CASE Unpin(t)
  BY <1>5, UnpinAdapter
<1>6. CASE Retire(t)
  BY <1>6, RetireAdapter
<1>7. CASE RetainObject(t)
  BY <1>7, RetainObjectAdapter
<1>8. CASE Observing(t)
  BY <1>8, ObserveAdapter, EndObserveAdapter DEF Observing
<1>9. CASE \/ EnsureBridge(t) \/ PinBusy(t) \/ PinFails(t) \/ CrossBusy(t) \/ CrossFails(t)
           \/ TryLock(t, "pin", "pinning") \/ TryLock(t, "cross", "crossing")
           \/ TryLock(t, "unpin", "unpinning") \/ UnpinBusy(t) \/ Unwind(t)
  BY <1>9, QuietDispatch
<1>10. CASE \/ PassThrough(t) \/ (\E skip \in BOOLEAN : EnterDone(t, skip)) \/ LeaveDone(t)
            \/ CallOriginal(t) \/ Return(t) \/ (\E k \in 0 .. MaxCalls : Throw(t, k))
  BY <1>10, QuietCalls
<1> QED BY <1>1, <1>2, <1>3, <1>4, <1>5, <1>6, <1>7, <1>8, <1>9, <1>10
        DEF Step, Enter, Dispatch, Callback

(* and every step of a worker.                                             *)
LEMMA WorkAdapter ==
  ASSUME IInv, StacksInv', NEW w \in Workers, Work(w)
  PROVE  AdapterInv'
<1>1. CASE RetainBegin(w) \/ ReleaseBegin(w) \/ FreeHandleBegin(w) \/ CheckBegin(w)
  BY <1>1, BeginAdapter
<1>2. CASE RetainEnd(w) \/ ReleaseEnd(w)
  BY <1>2, HookRefsAdapter
<1>3. CASE FreeHandleEnd(w)
  BY <1>3, FreeHandleAdapter
<1>4. CASE CheckEnd(w)
  BY <1>4, CheckAdapter
<1>5. CASE Subscribe(w)
  BY <1>5, SubscribeAdapter
<1>6. CASE Quiesce(w)
  BY <1>6, QuiesceAdapter
<1>7. CASE Reopen(w)
  BY <1>7, ReopenAdapter
<1> QED BY <1>1, <1>2, <1>3, <1>4, <1>5, <1>6, <1>7 DEF Work

(* The invariant is inductive.                                             *)
LEMMA IInvNext ==
  ASSUME IInv, [Next]_vars
  PROVE  IInv' /\ OneByOne
<1>1. StacksInv' /\ OneByOne
  BY StacksNext DEF IInv
<1>2. AdapterInv'
  <2>1. CASE \E t \in Threads : Step(t)
    BY <1>1, <2>1, StepAdapter
  <2>2. CASE \E w \in Workers : Work(w)
    BY <1>1, <2>2, WorkAdapter
  <2>3. CASE UNCHANGED vars
    <3>1. AdapterInv
      BY DEF IInv
    <3>2. UNCHANGED <<adapter, subscribed, other, quiescent, frames, pc>>
      BY <2>3 DEF vars
    <3> QED BY <3>1, <3>2 DEF AdapterInv, CountersInv, OwnerInv, RefsInv, PlacesInv, AdapterIdle,
                              Bridged, Pinning, Listening
  <2> QED BY <2>1, <2>2, <2>3 DEF Next
<1> QED BY <1>1, <1>2 DEF IInv

(* Stacks and adapter are in order as long as the process lives.           *)
THEOREM InvariantHolds == Spec => []IInv
<1>1. Init => IInv
  BY StacksInit, AdapterInit DEF IInv
<1>2. IInv /\ [Next]_vars => IInv'
  BY IInvNext
<1> QED BY <1>1, <1>2, PTL DEF Spec

(* What the invariant says of the types                                    *)
LEMMA TypesHold ==
  ASSUME IInv
  PROVE  TypeOK
<1>1. ASSUME NEW t \in Threads
      PROVE  /\ Len(calls[t]) <= MaxCalls /\ Range(calls[t]) \subseteq CallType
             /\ Len(frames[t]) <= MaxDepth /\ Range(frames[t]) \subseteq FrameType
             /\ handler[t].depth \in 0 .. MaxCalls
  <2>1. StackOK(calls[t], frames[t], pc[t], handler[t])
    BY DEF IInv, StacksInv
  <2>2. StackType(calls[t], frames[t], pc[t], handler[t])
    BY <2>1 DEF StackOK
  <2>3. /\ \A d \in DOMAIN calls[t] : calls[t][d] \in CallType
        /\ \A i \in DOMAIN frames[t] : frames[t][i] \in FrameType
    BY <2>1, StackFacts
  <2> QED BY <2>2, <2>3 DEF StackType, Range
<1> QED BY <1>1 DEF TypeOK, IInv, StacksInv, AdapterInv

(* While Dart code runs every tracked call has its frame.                  *)
LEMMA FramesMirror ==
  ASSUME IInv
  PROVE  FramesMirrorCalls
<1> SUFFICES ASSUME NEW t \in Threads, pc[t] = "dart"
             PROVE  /\ {frames[t][i].at : i \in DOMAIN frames[t]}
                         = {d \in DOMAIN calls[t] : calls[t][d].tracked}
                    /\ \A i, j \in DOMAIN frames[t] : i < j => frames[t][i].at < frames[t][j].at
  BY DEF FramesMirrorCalls
<1> DEFINE cs == calls[t]
           fs == frames[t]
           h == handler[t]
<1>1. StackOK(cs, fs, "dart", h)
  BY DEF IInv, StacksInv
<1>2. /\ Ordered(cs, fs) /\ Covers(cs, fs, Reach(cs, fs, "dart", h))
      /\ DOMAIN cs = 1 .. Len(cs) /\ Len(cs) \in Nat
      /\ \A i \in DOMAIN fs : fs[i].at \in 1 .. Len(cs)
  BY <1>1, StackFacts DEF StackOK
<1>3. Reach(cs, fs, "dart", h) = Len(cs)
  BY <1>1, RunningFacts DEF Reach
<1>4. \A d \in DOMAIN cs : cs[d].tracked => \E i \in DOMAIN fs : fs[i].at = d
  BY <1>2, <1>3 DEF Covers
<1>5. \A i \in DOMAIN fs : fs[i].at \in DOMAIN cs /\ cs[fs[i].at].tracked
  BY <1>2 DEF Ordered
<1> QED BY <1>2, <1>4, <1>5 DEF Ordered

(* A frame that uses the adapter has its roots pinned wherever code runs.  *)
LEMMA RootsAreHeld ==
  ASSUME IInv
  PROVE  RootsHeld
<1> SUFFICES ASSUME NEW t \in Threads, NEW i \in DOMAIN frames[t],
                    frames[t][i].bound,
                    i < TopIndex(t) \/ pc[t] \in {"dart", "callback", "observe", "inspect"},
                    frames[t][i].phase \in {"enter", "body", "leave"}
             PROVE  frames[t][i].lease
  BY DEF RootsHeld
<1> DEFINE fs == frames[t]
<1>1. StackOK(calls[t], fs, pc[t], handler[t])
  BY DEF IInv, StacksInv
<1>2. FrameOK(fs[i]) /\ (i # Len(fs) => Settled(fs[i]))
  BY <1>1 DEF StackOK
<1>3. /\ Len(fs) \in Nat /\ DOMAIN fs = 1 .. Len(fs) /\ fs # <<>>
      /\ Last(fs) = fs[Len(fs)] /\ fs[i] \in FrameType
  BY <1>1, StackFacts, TopFacts
<1>4. Settled(fs[i])
  <2>1. CASE i # Len(fs)
    BY <1>2, <2>1
  <2>2. CASE i = Len(fs)
    <3>1. pc[t] \in {"dart", "callback", "observe", "inspect"}
      BY <1>3, <2>2 DEF TopIndex
    <3>2. TopOK(calls[t], fs, pc[t], handler[t])
      BY <1>1 DEF StackOK
    <3> QED BY <1>3, <2>2, <3>1, <3>2 DEF TopOK, Outside, Inside, Fits, Abandoned, Settled
  <2> QED BY <2>1, <2>2
<1> QED BY <1>2, <1>4 DEF Settled, InDart, InCallback, FrameOK

(* FramesAgree: whatever returns, throws, traps and is refused, while Dart *)
(* code runs the dispatch stack is that of its tracked calls, and native   *)
(* code that moves objects never runs under a frame whose roots are gone.  *)
THEOREM FramesAgreeHolds == Spec => []FramesAgree
<1>1. IInv => FramesAgree
  BY TypesHold, FramesMirror, RootsAreHeld DEF FramesAgree
<1> QED BY <1>1, InvariantHolds, PTL

(* AdapterAgrees: the transitions and leases that the adapter counts are   *)
(* those of the frames, all of its owner; an owner has something to give   *)
(* back; and an adapter found quiescent is idle until admission reopens.   *)
THEOREM AdapterAgreesHolds == Spec => []AdapterAgrees
<1>1. IInv => AdapterAgrees
  <2> SUFFICES ASSUME IInv
               PROVE  CountersMatchFrames /\ OwnerHasWork /\ QuiescentStaysIdle
    BY DEF AdapterAgrees
  <2> DEFINE all == {c \in Threads \X (1 .. MaxDepth) : c[2] \in DOMAIN frames[c[1]]}
  <2>1. /\ Bridged = {c \in all : frames[c[1]][c[2]].bridge}
        /\ Pinning = {c \in all : frames[c[1]][c[2]].lease}
    BY DEF Bridged, Pinning, BridgedIn, PinningIn, Slots
  <2>2. CountersInv /\ OwnerInv /\ RefsInv /\ Bridged \subseteq Pinning
    BY AdapterFacts DEF IInv, AdapterInv
  <2>3. CountersMatchFrames
    BY <2>1, <2>2 DEF CountersMatchFrames, CountersInv
  <2>4. OwnerHasWork /\ QuiescentStaysIdle
    BY <2>2 DEF OwnerHasWork, QuiescentStaysIdle, OwnerInv, RefsInv
  <2> QED BY <2>3, <2>4
<1> QED BY <1>1, InvariantHolds, PTL

(* ReturnsToCaller: a call that returns, or whose frame is finished, goes  *)
(* back to the activation that has called it.                              *)
THEOREM ReturnsToCallerHolds == Spec => ReturnsToCaller
<1>1. IInv /\ [Next]_vars =>
        [\A t \in Threads :
           pc[t] \in {"dart", "retire"} /\ Len(calls[t]') < Len(calls[t]) =>
             Len(calls[t]') = Len(calls[t]) - 1]_vars
  <2> SUFFICES ASSUME IInv, [Next]_vars, NEW t \in Threads, pc[t] \in {"dart", "retire"},
                      Len(calls[t]') < Len(calls[t])
               PROVE  Len(calls[t]') = Len(calls[t]) - 1
    OBVIOUS
  <2>1. IInv' /\ OneByOne
    BY IInvNext
  <2>2. StackOK(calls'[t], frames'[t], pc'[t], handler'[t])
    BY <2>1 DEF IInv, StacksInv
  <2>3. StackOK(calls[t], frames[t], pc[t], handler[t])
    BY DEF IInv, StacksInv
  <2>4. Len(calls[t]) \in Nat /\ Len(calls'[t]) \in Nat
    BY <2>2, <2>3, StackFacts
  <2>5. \/ Len(calls'[t]) >= Len(calls[t])
        \/ Len(calls'[t]) = Len(calls[t]) - 1
    BY <2>1 DEF OneByOne
  <2> QED BY <2>4, <2>5
<1> QED BY <1>1, InvariantHolds, PTL DEF Spec, ReturnsToCaller

-----------------------------------------------------------------------------
(* A thread that nothing contends with                                     *)

(* What becomes of the callbacks of a frame that has entered them          *)
PairedFrame(f) ==
  /\ f.ran => f.listening
  /\ f.phase = "failed" => ~f.ran
  /\ f.phase = "finished" /\ f.ran => f.told
  /\ f.phase = "exception" /\ f.ran /\ (f.bound => subscribed) => f.told

FramesPaired == \A i \in DOMAIN frames[Home] : PairedFrame(frames[Home][i])

(* Above a frame behind the bridge there are no roots.                     *)
BridgesOnTop ==
  \A i, j \in DOMAIN frames[Home] :
    i < j /\ frames[Home][i].bridge => ~frames[Home][j].lease

(* Nobody else has the adapter, its lock or an observation.                *)
HomeOwns ==
  /\ adapter.owner_thread \in {None, Home}
  /\ adapter.mutex # None => pc[Home] \in Holding
  /\ adapter.observer # None => pc[Home] \in {"observe", "inspect"}

SettingUp == {"pin", "pinning", "cross", "crossing", "ensure"}

(* No callback has run before the setup of the frame f on top; after it    *)
(* there is a lease to get the roots back.                                 *)
Ready(f, p, a) ==
  /\ p \in SettingUp /\ f.phase = "enter" => ~f.ran
  /\ p \in {"pin", "pinning"} /\ f.phase # "enter" =>
       a.generated_root_leases < MaxLeases /\ a.generated_native_transitions = 0

AloneInv ==
  /\ NeverTraps /\ HomeOwns /\ BridgesOnTop /\ FramesPaired
  /\ Ready(Top(Home), pc[Home], adapter)

(* The frames of Home are a sequence with Top(Home) at its end.            *)
LEMMA HomeFrames ==
  ASSUME StacksInv
  PROVE  /\ Home \in Threads /\ frames[Home] \in Seq(FrameType)
         /\ Len(frames[Home]) \in Nat /\ DOMAIN frames[Home] = 1 .. Len(frames[Home])
         /\ frames[Home] # <<>> => /\ Len(frames[Home]) \in DOMAIN frames[Home]
                                   /\ Top(Home) = frames[Home][Len(frames[Home])]
                                   /\ Top(Home) \in FrameType /\ FrameOK(Top(Home))
<1>1. Home \in Threads
  BY FramesAssumption
<1>2. StackOK(calls[Home], frames[Home], pc[Home], handler[Home])
  BY <1>1, StackKept
<1> QED BY <1>1, <1>2, StackFacts, TopFacts DEF Top

(* The stacks of the others are left alone, and none of them shrinks.      *)
LEMMA OnlyHomeShrinks ==
  ASSUME StacksInv, NEW fs, frames' = [frames EXCEPT ![Home] = fs],
         /\ Len(fs) < Len(frames[Home]) /\ Top(Home).ran
            /\ (Top(Home).phase = "exception" /\ Top(Home).bound => subscribed)
         => Top(Home).told
  PROVE  TellsBeforeGone
<1> SUFFICES ASSUME NEW t \in Threads, t # Home, Len(frames[t]') < Len(frames[t])
             PROVE  FALSE
  BY HomeFrames DEF TellsBeforeGone, StacksInv
<1>1. StackOK(calls[t], frames[t], pc[t], handler[t])
  BY StackKept
<1>2. Len(frames[t]) \in Nat /\ frames'[t] = frames[t]
  BY <1>1, StackFacts DEF StacksInv
<1> QED BY <1>2

(* A thread that leaves its frames alone.                                  *)
LEMMA AloneMoves ==
  ASSUME StacksInv, AloneInv, UNCHANGED frames, UnchangedHooks, HomeOwns',
         NEW q, q # "trapped", Goto(Home, q), Ready(Top(Home), q, adapter')
  PROVE  AloneInv' /\ TellsBeforeGone
<1>1. BridgesOnTop' /\ FramesPaired' /\ Top(Home)' = Top(Home)
  BY DEF AloneInv, BridgesOnTop, FramesPaired, PairedFrame, UnchangedHooks, Top
<1>2. TellsBeforeGone
  <2> DEFINE fs == frames[Home]
  <2>1. frames' = [frames EXCEPT ![Home] = fs] /\ ~(Len(fs) < Len(frames[Home]))
    BY HomeFrames DEF StacksInv
  <2> HIDE DEF fs
  <2> QED BY <2>1, OnlyHomeShrinks
<1>3. pc'[Home] = q /\ NeverTraps'
  BY HomeFrames DEF AloneInv, NeverTraps, Alive, Goto, StacksInv, Everyone
<1> QED BY <1>1, <1>2, <1>3 DEF AloneInv

(* A thread that writes its frame on top.                                  *)
LEMMA AloneRewrites ==
  ASSUME StacksInv, AloneInv, frames[Home] # <<>>, UnchangedHooks, HomeOwns', NEW e,
         frames' = [frames EXCEPT ![Home] =
                      [frames[Home] EXCEPT ![Len(frames[Home])] = e]],
         PairedFrame(e), e.lease => Top(Home).lease \/ Bridged = {},
         NEW q, q # "trapped", Goto(Home, q), Ready(e, q, adapter')
  PROVE  AloneInv' /\ TellsBeforeGone
<1> DEFINE n == Len(frames[Home])
           g == [frames[Home] EXCEPT ![n] = e]
<1>1. /\ n \in DOMAIN frames[Home] /\ DOMAIN frames[Home] = 1 .. n /\ n \in Nat
      /\ Top(Home) = frames[Home][n] /\ Home \in Threads /\ frames[Home] \in Seq(FrameType)
  BY HomeFrames
<1>2. frames'[Home] = g
  BY <1>1 DEF StacksInv
<1>3. /\ DOMAIN g = 1 .. n /\ g[n] = e
      /\ \A i \in 1 .. n : i # n => g[i] = frames[Home][i]
  BY <1>1
<1>4. Len(g) = n /\ ~(Len(g) < Len(frames[Home])) /\ frames' = [frames EXCEPT ![Home] = g]
  BY <1>1, <1>3, LenProperties
<1> HIDE DEF n, g
<1>5. Top(Home)' = e
  BY <1>2, <1>3, <1>4 DEF Top, Last
<1>6. FramesPaired'
  BY <1>1, <1>2, <1>3 DEF AloneInv, FramesPaired, PairedFrame, UnchangedHooks
<1>7. BridgesOnTop'
  <2> SUFFICES ASSUME NEW i \in 1 .. n, NEW j \in 1 .. n, i < j, g[i].bridge, g[j].lease
               PROVE  FALSE
    BY <1>2, <1>3 DEF BridgesOnTop
  <2>1. i # n /\ frames[Home][i].bridge /\ i \in DOMAIN frames[Home]
    BY <1>1, <1>3
  <2>2. ~frames[Home][j].lease
    BY <1>1, <2>1 DEF AloneInv, BridgesOnTop
  <2>3. j = n /\ e.lease /\ ~Top(Home).lease
    BY <1>1, <1>3, <2>2
  <2>4. StackOK(calls[Home], frames[Home], pc[Home], handler[Home])
    BY <1>1, StackKept
  <2>5. <<Home, i>> \in Bridged
    BY <1>1, <2>1, <2>4, SlotsAre DEF Bridged
  <2> QED BY <2>3, <2>5
<1>8. TellsBeforeGone
  BY <1>4, OnlyHomeShrinks
<1>9. pc'[Home] = q /\ NeverTraps'
  BY <1>1 DEF AloneInv, NeverTraps, Alive, Goto, StacksInv, Everyone
<1> QED BY <1>5, <1>6, <1>7, <1>8, <1>9 DEF AloneInv

(* A frame with roots and no bridge has no bridge below it either, and the *)
(* adapter is free for the thread that is alone with it.                   *)
LEMMA NoneBridged ==
  ASSUME IInv, AloneInv, frames[Home] # <<>>, Top(Home).lease, ~Top(Home).bridge
  PROVE  Bridged = {} /\ adapter.generated_native_transitions = 0 /\ adapter.entered = 0
<1>1. /\ Home \in Threads /\ Len(frames[Home]) \in Nat
      /\ DOMAIN frames[Home] = 1 .. Len(frames[Home])
      /\ Top(Home) = frames[Home][Len(frames[Home])]
  BY HomeFrames DEF IInv
<1>2. StackOK(calls[Home], frames[Home], pc[Home], handler[Home])
  BY <1>1, StackKept DEF IInv
<1>3. ASSUME NEW c \in Bridged
      PROVE  FALSE
  <2> DEFINE i == c[2]
  <2>1. c = <<Home, i>>
    BY <1>3, SlotsOnly DEF IInv, AdapterInv, CountersInv, Bridged
  <2> HIDE DEF i
  <2>2. i \in DOMAIN frames[Home] /\ frames[Home][i].bridge
    BY <1>1, <1>2, <1>3, <2>1, SlotsAre DEF Bridged
  <2>3. i < Len(frames[Home])
    BY <1>1, <2>2
  <2> QED BY <1>1, <2>2, <2>3 DEF AloneInv, BridgesOnTop
<1>4. Bridged = {}
  BY <1>3
<1> QED BY <1>4, AdapterFacts DEF IInv, AdapterInv, CountersInv

(* Nothing refuses the adapter to Home where it asks for it.               *)
LEMMA NothingRefused ==
  ASSUME IInv, AloneInv, NEW p, p = pc[Home]
  PROVE  /\ p \notin Holding => Free
         /\ p \in {"unpin", "unpinning"} => MayOwn(Home) /\ InGeneratedState
         /\ p \in {"cross", "crossing"} => MayCross(Home)
         /\ p = "uncross" => /\ adapter.owner_thread = Home
                             /\ adapter.entered = 1 /\ adapter.observer = None
         /\ p \in {"pin", "pinning"} /\ Top(Home).phase # "enter" => MayPin(Home)
<1>1. MayOwn(Home) /\ (p \notin Holding => Free)
  BY DEF AloneInv, HomeOwns, MayOwn, Free
<1>2. p \notin {"observe", "inspect"} => adapter.observer = None
  BY DEF AloneInv, HomeOwns
<1>3. ASSUME p \in Inside
      PROVE  /\ frames[Home] # <<>> /\ FrameOK(Top(Home))
             /\ Fits(Top(Home), p) \/ Abandoned(Top(Home), p)
  <2>1. pc[Home] \in Inside /\ pc[Home] # "unwind" /\ Home \in Threads /\ StacksInv
    BY <1>3, HomeFrames DEF Inside, IInv
  <2> QED BY <2>1, WorkingTop
<1>4. CASE p \in {"unpin", "unpinning", "cross", "crossing"}
  <2>1. p \in Inside /\ p \notin {"observe", "inspect"}
    BY <1>4 DEF Inside
  <2>2. Top(Home).lease /\ ~Top(Home).bridge
    BY <1>3, <1>4, <2>1 DEF Fits, Abandoned
  <2>3. InGeneratedState
    BY <1>2, <1>3, <2>1, <2>2, NoneBridged DEF InGeneratedState
  <2> QED BY <1>1, <1>4, <2>3 DEF MayCross
<1>5. CASE p = "uncross"
  <2>1. p \in Inside
    BY <1>5 DEF Inside
  <2>2. frames[Home] # <<>> /\ Top(Home).bridge /\ Top(Home).lease
    BY <1>3, <1>5, <2>1 DEF Fits, Abandoned, FrameOK
  <2>3. adapter.owner_thread = Home
    BY <2>2, HomeFrames, LeaseOwner DEF IInv
  <2>4. Bridged # {}
    <3> DEFINE n == Len(frames[Home])
    <3>1. n \in DOMAIN frames[Home] /\ frames[Home][n].bridge /\ Home \in Threads
      BY <2>2, HomeFrames DEF IInv
    <3>2. StackOK(calls[Home], frames[Home], pc[Home], handler[Home])
      BY <3>1, StackKept DEF IInv
    <3> HIDE DEF n
    <3>3. <<Home, n>> \in Bridged
      BY <3>1, <3>2, SlotsAre DEF Bridged
    <3> QED BY <3>3
  <2>5. adapter.entered = 1
    BY <2>4, AdapterFacts DEF IInv, AdapterInv, CountersInv, AdapterType
  <2> QED BY <1>1, <1>2, <1>5, <2>3, <2>5
<1>6. CASE p \in {"pin", "pinning"} /\ Top(Home).phase # "enter"
  <2>1. /\ adapter.generated_root_leases < MaxLeases
        /\ adapter.generated_native_transitions = 0 /\ adapter.entered = 0
    BY <1>6 DEF AloneInv, Ready, IInv, AdapterInv, CountersInv
  <2> QED BY <1>1, <1>2, <1>6, <2>1 DEF MayPin, InGeneratedState
<1> QED BY <1>1, <1>4, <1>5, <1>6

(* A step that does not touch the adapter, and holds no lock.              *)
LEMMA StaysOwner ==
  ASSUME AloneInv, StacksInv, UNCHANGED adapter, NEW q, Goto(Home, q),
         pc[Home] \notin Holding \cup {"observe", "inspect"}
  PROVE  HomeOwns'
BY HomeFrames DEF AloneInv, HomeOwns, Goto, StacksInv, Everyone

(* The lock is taken for a section.                                        *)
LEMMA TryLockAlone ==
  ASSUME IInv, AloneInv, NEW p, NEW q, TryLock(Home, p, q),
         <<p, q>> \in {<<"pin", "pinning">>, <<"cross", "crossing">>, <<"unpin", "unpinning">>}
  PROVE  AloneInv' /\ TellsBeforeGone
<1>1. /\ pc[Home] = p /\ adapter' = [adapter EXCEPT !.mutex = Home] /\ Goto(Home, q)
      /\ UNCHANGED frames /\ UnchangedHooks /\ StacksInv /\ adapter \in AdapterType
      /\ pc \in [Everyone -> Places] /\ Home \in Everyone
  BY HomeFrames DEF TryLock, Lock, UnchangedStacks, IInv, AdapterInv, StacksInv, Everyone
<1>2. /\ adapter'.owner_thread = adapter.owner_thread /\ adapter'.observer = adapter.observer
      /\ adapter'.generated_root_leases = adapter.generated_root_leases
      /\ adapter'.generated_native_transitions = adapter.generated_native_transitions
  BY <1>1 DEF AdapterType
<1>3. pc'[Home] = q /\ q \in Holding /\ q # "trapped" /\ p \notin {"observe", "inspect"}
  BY <1>1 DEF Goto, Holding
<1>4. HomeOwns'
  BY <1>1, <1>2, <1>3 DEF AloneInv, HomeOwns
<1>5. Ready(Top(Home), q, adapter')
  BY <1>1, <1>2 DEF AloneInv, Ready, SettingUp
<1> QED BY <1>1, <1>3, <1>4, <1>5, AloneMoves

(* EnsureBridge: a frame it fails has entered nothing.                     *)
LEMMA EnsureBridgeAlone ==
  ASSUME IInv, AloneInv, EnsureBridge(Home)
  PROVE  AloneInv' /\ TellsBeforeGone
<1>1. /\ pc[Home] = "ensure" /\ UNCHANGED adapter /\ UnchangedHooks /\ StacksInv
      /\ Home \in Threads
  BY HomeFrames DEF EnsureBridge, IInv
<1>2. /\ frames[Home] # <<>> /\ Top(Home) \in FrameType
      /\ TopIndex(Home) = Len(frames[Home]) /\ TopIndex(Home) \in DOMAIN frames[Home]
      /\ Top(Home) = frames[Home][TopIndex(Home)] /\ Fits(Top(Home), "ensure")
  BY <1>1, WorkingTop DEF Inside, Abandoned
<1>3. ~Top(Home).ran
  BY <1>1, <1>2 DEF AloneInv, Ready, SettingUp, Fits
<1>4. CASE UNCHANGED frames /\ Goto(Home, "callback")
  <2> DEFINE q == "callback"
  <2>1. q # "trapped" /\ Goto(Home, q) /\ Ready(Top(Home), q, adapter')
    BY <1>4 DEF Ready, SettingUp
  <2> HIDE DEF q
  <2>2. HomeOwns'
    BY <1>1, <2>1, StaysOwner DEF Holding
  <2> QED BY <1>1, <1>4, <2>1, <2>2, AloneMoves
<1>5. CASE /\ frames' = [frames EXCEPT ![Home][TopIndex(Home)].phase = "failed"]
           /\ Goto(Home, IF Top(Home).bridge THEN "uncross" ELSE "retire")
  <2> DEFINE e == [Top(Home) EXCEPT !.phase = "failed"]
             q == IF Top(Home).bridge THEN "uncross" ELSE "retire"
  <2>1. /\ e.phase = "failed" /\ (e.ran <=> Top(Home).ran) /\ (e.lease <=> Top(Home).lease)
    BY <1>2 DEF FrameType
  <2>2. frames' = [frames EXCEPT ![Home] = [frames[Home] EXCEPT ![Len(frames[Home])] = e]]
    BY <1>1, <1>2, <1>5 DEF StacksInv
  <2>3. q # "trapped" /\ Goto(Home, q) /\ Ready(e, q, adapter')
    BY <1>5 DEF Ready, SettingUp
  <2>4. PairedFrame(e)
    BY <1>3, <2>1 DEF PairedFrame
  <2> HIDE DEF e, q
  <2>5. HomeOwns'
    BY <1>1, <2>3, StaysOwner DEF Holding
  <2> QED BY <1>1, <1>2, <2>1, <2>2, <2>3, <2>4, <2>5, AloneRewrites
<1> QED BY <1>4, <1>5 DEF EnsureBridge

(* PinRefused happens only before anything was entered.                    *)
LEMMA PinRefusedAlone ==
  ASSUME IInv, AloneInv, PinBusy(Home) \/ PinFails(Home)
  PROVE  AloneInv' /\ TellsBeforeGone
<1>1. /\ pc[Home] = "pinning" /\ PinFails(Home) /\ PinRefused(Home) /\ ~MayPin(Home)
      /\ adapter' = NotPinned(Home) /\ UnchangedHooks /\ StacksInv /\ Home \in Threads
      /\ adapter \in AdapterType /\ pc' = [pc EXCEPT ![Home] = pc'[Home]]
  <2>1. ~PinBusy(Home)
    BY NothingRefused DEF PinBusy, Holding
  <2> QED BY <2>1, HomeFrames DEF PinFails, PinRefused, Goto, IInv, AdapterInv, StacksInv, Everyone
<1>2. /\ frames[Home] # <<>> /\ Top(Home) \in FrameType
      /\ TopIndex(Home) = Len(frames[Home]) /\ TopIndex(Home) \in DOMAIN frames[Home]
      /\ Top(Home) = frames[Home][TopIndex(Home)]
  BY <1>1, WorkingTop DEF Inside
<1>3. Top(Home).phase = "enter" /\ ~Top(Home).ran
  <2>1. Top(Home).phase = "enter"
    BY <1>1, NothingRefused
  <2> QED BY <1>1, <2>1 DEF AloneInv, Ready, SettingUp
<1> DEFINE e == [Top(Home) EXCEPT !.phase = "failed"]
           q == "retire"
<1>4. /\ e.phase = "failed" /\ (e.ran <=> Top(Home).ran) /\ (e.lease <=> Top(Home).lease)
  BY <1>2 DEF FrameType
<1>5. frames' = [frames EXCEPT ![Home] = [frames[Home] EXCEPT ![Len(frames[Home])] = e]]
  <2>1. frames' = [frames EXCEPT ![Home][TopIndex(Home)].phase = "failed"]
    <3>1. frames[Home][TopIndex(Home)].phase = "enter" /\ frames = [t \in Threads |-> frames[t]]
      BY <1>1, <1>2, <1>3 DEF StacksInv
    <3> QED BY <1>1, <1>2, <3>1 DEF PinRefused
  <2> QED BY <1>1, <1>2, <2>1 DEF StacksInv
<1>6. q # "trapped" /\ Goto(Home, q) /\ Ready(e, q, adapter')
  BY <1>1, <1>3 DEF Ready, SettingUp, PinRefused
<1>7. PairedFrame(e)
  BY <1>3, <1>4 DEF PairedFrame
<1> HIDE DEF e, q
<1>8. HomeOwns'
  <2>1. /\ adapter'.mutex = None /\ adapter'.observer = adapter.observer
        /\ adapter'.owner_thread \in {Home, adapter.owner_thread}
    BY <1>1 DEF NotPinned, AdapterType
  <2> QED BY <1>1, <2>1 DEF AloneInv, HomeOwns
<1> QED BY <1>1, <1>2, <1>4, <1>5, <1>6, <1>7, <1>8, AloneRewrites

(* Pin: no frame is behind a bridge when another one gets its roots.       *)
LEMMA PinAlone ==
  ASSUME IInv, AloneInv, Pin(Home)
  PROVE  AloneInv' /\ TellsBeforeGone
<1>1. /\ pc[Home] = "pinning" /\ MayPin(Home) /\ adapter' = Pinned(Home) /\ UnchangedHooks
      /\ StacksInv /\ Home \in Threads /\ adapter \in AdapterType
  BY HomeFrames DEF Pin, IInv, AdapterInv
<1>2. /\ frames[Home] # <<>> /\ Top(Home) \in FrameType
      /\ TopIndex(Home) = Len(frames[Home]) /\ TopIndex(Home) \in DOMAIN frames[Home]
      /\ Top(Home) = frames[Home][TopIndex(Home)] /\ Fits(Top(Home), "pinning")
  BY <1>1, WorkingTop DEF Inside, Abandoned
<1>3. Bridged = {}
  BY <1>1, AdapterFacts DEF MayPin, InGeneratedState
<1> DEFINE e == [Top(Home) EXCEPT !.lease = TRUE]
           q == IF Top(Home).phase = "body" THEN "dart" ELSE "cross"
<1>4. /\ e.phase = Top(Home).phase /\ (e.ran <=> Top(Home).ran) /\ (e.told <=> Top(Home).told)
      /\ (e.listening <=> Top(Home).listening) /\ (e.bound <=> Top(Home).bound)
  BY <1>2 DEF FrameType
<1>5. frames' = [frames EXCEPT ![Home] = [frames[Home] EXCEPT ![Len(frames[Home])] = e]]
  BY <1>1, <1>2 DEF StacksInv, Pin
<1>6. q # "trapped" /\ Goto(Home, q)
  BY DEF Pin
<1>7. Ready(e, q, adapter')
  BY <1>1, <1>4 DEF AloneInv, Ready, SettingUp
<1>8. PairedFrame(e)
  <2>1. PairedFrame(Top(Home))
    BY <1>2 DEF AloneInv, FramesPaired
  <2> QED BY <1>4, <2>1 DEF PairedFrame
<1> HIDE DEF e, q
<1>9. HomeOwns'
  <2>1. /\ adapter'.mutex = None /\ adapter'.observer = adapter.observer
        /\ adapter'.owner_thread = Home
    BY <1>1 DEF Pinned, AdapterType
  <2> QED BY <1>1, <2>1 DEF AloneInv, HomeOwns
<1> QED BY <1>1, <1>2, <1>3, <1>5, <1>6, <1>7, <1>8, <1>9, AloneRewrites

(* Cross: it is not refused, neither before the callbacks nor after.       *)
LEMMA CrossAlone ==
  ASSUME IInv, AloneInv, CrossBusy(Home) \/ Cross(Home) \/ CrossFails(Home)
  PROVE  AloneInv' /\ TellsBeforeGone
<1>1. Cross(Home)
  BY NothingRefused DEF CrossBusy, CrossFails, Holding
<1>2. /\ pc[Home] = "crossing" /\ UnchangedHooks
      /\ StacksInv /\ Home \in Threads /\ adapter \in AdapterType
  BY <1>1, HomeFrames DEF Cross, IInv, AdapterInv
<1>3. /\ frames[Home] # <<>> /\ Top(Home) \in FrameType
      /\ TopIndex(Home) = Len(frames[Home]) /\ TopIndex(Home) \in DOMAIN frames[Home]
      /\ Top(Home) = frames[Home][TopIndex(Home)] /\ Fits(Top(Home), "crossing")
  BY <1>2, WorkingTop DEF Inside, Abandoned
<1> DEFINE e == [Top(Home) EXCEPT !.bridge = TRUE]
           q == IF Top(Home).phase = "enter" THEN "ensure" ELSE "callback"
<1>4. /\ e.phase = Top(Home).phase /\ (e.ran <=> Top(Home).ran) /\ (e.told <=> Top(Home).told)
      /\ (e.listening <=> Top(Home).listening) /\ (e.bound <=> Top(Home).bound)
      /\ (e.lease <=> Top(Home).lease)
  BY <1>3 DEF FrameType
<1>5. frames' = [frames EXCEPT ![Home] = [frames[Home] EXCEPT ![Len(frames[Home])] = e]]
  BY <1>1, <1>2, <1>3 DEF StacksInv, Cross
<1>6. q # "trapped" /\ Goto(Home, q)
  BY <1>1 DEF Cross
<1>7. Ready(e, q, adapter')
  BY <1>2, <1>4 DEF AloneInv, Ready, SettingUp
<1>8. PairedFrame(e)
  <2>1. PairedFrame(Top(Home))
    BY <1>3 DEF AloneInv, FramesPaired
  <2> QED BY <1>4, <2>1 DEF PairedFrame
<1> HIDE DEF e, q
<1>9. HomeOwns'
  <2>1. /\ adapter'.mutex = None /\ adapter'.observer = adapter.observer
        /\ adapter'.owner_thread = Home
    BY <1>1, <1>2 DEF Cross, AdapterType
  <2> QED BY <1>2, <2>1 DEF AloneInv, HomeOwns
<1> QED BY <1>2, <1>3, <1>4, <1>5, <1>6, <1>7, <1>8, <1>9, AloneRewrites

(* Uncross: nothing keeps the frame behind the bridge.                     *)
LEMMA UncrossAlone ==
  ASSUME IInv, AloneInv, Uncross(Home)
  PROVE  AloneInv' /\ TellsBeforeGone
<1>1. /\ pc[Home] = "uncross" /\ UnchangedHooks
      /\ StacksInv /\ Home \in Threads /\ adapter \in AdapterType
      /\ adapter.owner_thread = Home /\ adapter.entered = 1 /\ adapter.observer = None
  BY HomeFrames, NothingRefused DEF Uncross, IInv, AdapterInv
<1>2. /\ frames[Home] # <<>> /\ Top(Home) \in FrameType
      /\ TopIndex(Home) = Len(frames[Home]) /\ TopIndex(Home) \in DOMAIN frames[Home]
      /\ Top(Home) = frames[Home][TopIndex(Home)]
  BY <1>1, WorkingTop DEF Inside
<1> DEFINE e == [Top(Home) EXCEPT !.bridge = FALSE]
           q == "unpin"
<1>3. /\ e.phase = Top(Home).phase /\ (e.ran <=> Top(Home).ran) /\ (e.told <=> Top(Home).told)
      /\ (e.listening <=> Top(Home).listening) /\ (e.bound <=> Top(Home).bound)
      /\ (e.lease <=> Top(Home).lease)
  BY <1>2 DEF FrameType
<1>4. frames' = [frames EXCEPT ![Home] = [frames[Home] EXCEPT ![Len(frames[Home])] = e]]
  BY <1>1, <1>2 DEF StacksInv, Uncross
<1>5. q # "trapped" /\ Goto(Home, q) /\ Ready(e, q, adapter')
  BY <1>1 DEF Uncross, Ready, SettingUp
<1>6. PairedFrame(e)
  <2>1. PairedFrame(Top(Home))
    BY <1>2 DEF AloneInv, FramesPaired
  <2> QED BY <1>3, <2>1 DEF PairedFrame
<1> HIDE DEF e, q
<1>7. HomeOwns'
  <2>1. /\ adapter'.mutex = adapter.mutex /\ adapter'.observer = None
        /\ adapter'.owner_thread = Home
    BY <1>1 DEF Uncross, AdapterType
  <2> QED BY <1>1, <2>1 DEF AloneInv, HomeOwns, Holding
<1> QED BY <1>1, <1>2, <1>3, <1>4, <1>5, <1>6, <1>7, AloneRewrites

(* Unpin: the roots are given back, and there is a lease to pin again.     *)
LEMMA UnpinAlone ==
  ASSUME IInv, AloneInv, Unpin(Home) \/ UnpinBusy(Home)
  PROVE  AloneInv' /\ TellsBeforeGone
<1>1. /\ Unpin(Home) /\ pc[Home] = "unpinning" /\ MayOwn(Home) /\ InGeneratedState
      /\ adapter' = Unpinned(Home) /\ UnchangedHooks
      /\ StacksInv /\ Home \in Threads /\ adapter \in AdapterType
  <2>1. Unpin(Home)
    BY NothingRefused DEF UnpinBusy, Holding
  <2>2. pc[Home] = "unpinning" /\ MayOwn(Home) /\ InGeneratedState
    BY <2>1, NothingRefused DEF Unpin
  <2> QED BY <2>1, <2>2, HomeFrames DEF Unpin, IInv, AdapterInv
<1>2. /\ frames[Home] # <<>> /\ Top(Home) \in FrameType
      /\ TopIndex(Home) = Len(frames[Home]) /\ TopIndex(Home) \in DOMAIN frames[Home]
      /\ Top(Home) = frames[Home][TopIndex(Home)]
  BY <1>1, WorkingTop DEF Inside
<1> DEFINE ph == AfterUnpin(Top(Home)).phase
           q == AfterUnpin(Top(Home)).go
           e == [Top(Home) EXCEPT !.lease = FALSE, !.phase = ph]
<1>3. \/ Top(Home).phase \in {"enter", "return"} /\ ph \in {"leave", "body"} /\ q = "pin"
      \/ Top(Home).phase \notin {"enter", "return"} /\ ph = Top(Home).phase /\ q = "retire"
  <2>1. Top(Home).skip_original \in BOOLEAN
    BY <1>2 DEF FrameType
  <2> QED BY <2>1 DEF AfterUnpin
<1>4. frames' = [frames EXCEPT ![Home] = [frames[Home] EXCEPT ![Len(frames[Home])] = e]]
  BY <1>1, <1>2 DEF StacksInv, Unpin
<1>5. q # "trapped" /\ Goto(Home, q)
  BY <1>1, <1>3 DEF Unpin
<1> HIDE DEF ph, q
<1>6. /\ e.phase = ph /\ (e.ran <=> Top(Home).ran) /\ (e.told <=> Top(Home).told)
      /\ (e.listening <=> Top(Home).listening) /\ (e.bound <=> Top(Home).bound) /\ ~e.lease
  BY <1>2 DEF FrameType
<1>7. PairedFrame(e)
  <2>1. PairedFrame(Top(Home))
    BY <1>2 DEF AloneInv, FramesPaired
  <2> QED BY <1>3, <1>6, <2>1 DEF PairedFrame
<1> HIDE DEF e
<1>8. Ready(e, q, adapter')
  <2>1. /\ adapter.generated_root_leases \in 0 .. MaxLeases
        /\ adapter'.generated_root_leases = adapter.generated_root_leases - 1
        /\ adapter'.generated_native_transitions = 0 /\ MaxLeases \in Nat
    BY <1>1, FramesAssumption DEF Unpinned, InGeneratedState, AdapterType
  <2>2. adapter'.generated_root_leases < MaxLeases
    BY <2>1
  <2> QED BY <1>3, <1>6, <2>1, <2>2 DEF Ready, SettingUp
<1>9. HomeOwns'
  <2>1. /\ adapter'.mutex = None /\ adapter'.observer = adapter.observer
        /\ adapter'.owner_thread \in {None, Home}
    BY <1>1 DEF Unpinned, AdapterType
  <2> QED BY <1>1, <2>1 DEF AloneInv, HomeOwns
<1> QED BY <1>1, <1>2, <1>4, <1>5, <1>6, <1>7, <1>8, <1>9, AloneRewrites

(* What the callbacks do: on_enter and on_leave are done, or one of them   *)
(* calls the original.                                                     *)
LEMMA CallbackAlone ==
  ASSUME IInv, AloneInv,
         (\E skip \in BOOLEAN : EnterDone(Home, skip)) \/ LeaveDone(Home) \/ CallOriginal(Home)
  PROVE  AloneInv' /\ TellsBeforeGone
<1>1. /\ pc[Home] = "callback" /\ UnchangedHooks /\ UNCHANGED adapter
      /\ StacksInv /\ Home \in Threads
  BY HomeFrames DEF EnterDone, LeaveDone, CallOriginal, IInv
<1>2. /\ frames[Home] # <<>> /\ Top(Home) \in FrameType
      /\ TopIndex(Home) = Len(frames[Home]) /\ TopIndex(Home) \in DOMAIN frames[Home]
      /\ Top(Home) = frames[Home][TopIndex(Home)] /\ Fits(Top(Home), "callback")
  BY <1>1, WorkingTop DEF Inside, Abandoned
<1>3. ASSUME NEW q, q \in {"uncross", "callback", "dart", "retire"}, Goto(Home, q), NEW e,
             frames' = [frames EXCEPT ![Home] =
                          [frames[Home] EXCEPT ![Len(frames[Home])] = e]],
             PairedFrame(e), e.lease <=> Top(Home).lease
      PROVE  AloneInv' /\ TellsBeforeGone
  <2>1. q # "trapped" /\ Ready(e, q, adapter')
    BY <1>3 DEF Ready, SettingUp
  <2>2. HomeOwns'
    BY <1>1, <1>3, StaysOwner DEF Holding
  <2> QED BY <1>1, <1>2, <1>3, <2>1, <2>2, AloneRewrites
<1>4. ASSUME NEW skip \in BOOLEAN, EnterDone(Home, skip)
      PROVE  AloneInv' /\ TellsBeforeGone
  <2> DEFINE r == Top(Home).listening
             s == Top(Home).skip_original \/ (skip /\ Top(Home).listening)
             ph == CASE Top(Home).bridge -> "enter"
                     [] ~Top(Home).bridge /\ s -> "leave" [] OTHER -> "body"
             q == CASE Top(Home).bridge -> "uncross"
                    [] ~Top(Home).bridge /\ s -> "callback" [] OTHER -> "dart"
             e == [Top(Home) EXCEPT !.ran = r, !.skip_original = s, !.phase = ph]
  <2>1. frames' = [frames EXCEPT ![Home] = [frames[Home] EXCEPT ![Len(frames[Home])] = e]]
    BY <1>1, <1>2, <1>4 DEF StacksInv, EnterDone
  <2>2. Goto(Home, q)
    BY <1>4 DEF EnterDone
  <2>3. Top(Home).bridge \in BOOLEAN /\ s \in BOOLEAN /\ (r <=> Top(Home).listening)
    BY <1>2 DEF FrameType
  <2>4. q \in {"uncross", "callback", "dart", "retire"} /\ ph \in {"enter", "leave", "body"}
    BY <2>3
  <2> HIDE DEF r, s, ph, q
  <2>5. /\ e.phase = ph /\ (e.ran <=> r) /\ (e.listening <=> Top(Home).listening)
        /\ (e.lease <=> Top(Home).lease)
    BY <1>2 DEF FrameType
  <2>6. PairedFrame(e)
    BY <2>3, <2>4, <2>5 DEF PairedFrame
  <2> HIDE DEF e
  <2> QED BY <1>3, <2>1, <2>2, <2>4, <2>5, <2>6
<1>5. CASE LeaveDone(Home)
  <2> DEFINE r == Top(Home).listening
             q == IF Top(Home).bridge THEN "uncross" ELSE "retire"
             e == [Top(Home) EXCEPT !.told = r, !.phase = "finished"]
  <2>1. frames' = [frames EXCEPT ![Home] = [frames[Home] EXCEPT ![Len(frames[Home])] = e]]
    <3> DEFINE n == Len(frames[Home])
               w == [frames EXCEPT ![Home][n].told = r]
    <3>1. frames' = [w EXCEPT ![Home][n].phase = "finished"]
      BY <1>2, <1>5 DEF LeaveDone
    <3>2. w = [frames EXCEPT ![Home] = [frames[Home] EXCEPT ![n] = [Top(Home) EXCEPT !.told = r]]]
      BY <1>2
    <3> QED BY <1>1, <1>2, <3>1, <3>2 DEF StacksInv
  <2>2. Goto(Home, q) /\ q \in {"uncross", "callback", "dart", "retire"}
    BY <1>5 DEF LeaveDone
  <2>3. r <=> Top(Home).listening
    OBVIOUS
  <2> HIDE DEF r, q
  <2>4. /\ e.phase = "finished" /\ (e.told <=> r) /\ (e.listening <=> Top(Home).listening)
        /\ (e.ran <=> Top(Home).ran) /\ (e.lease <=> Top(Home).lease)
    BY <1>2 DEF FrameType
  <2>5. PairedFrame(Top(Home))
    BY <1>2 DEF AloneInv, FramesPaired
  <2>6. PairedFrame(e)
    BY <2>3, <2>4, <2>5 DEF PairedFrame
  <2> HIDE DEF e
  <2> QED BY <1>3, <2>1, <2>2, <2>4, <2>6
<1>6. CASE CallOriginal(Home)
  <2> DEFINE q == "dart"
             e == [Top(Home) EXCEPT !.native = TRUE, !.called = TRUE, !.ran = TRUE]
  <2>1. frames' = [frames EXCEPT ![Home] = [frames[Home] EXCEPT ![Len(frames[Home])] = e]]
    BY <1>1, <1>2, <1>6 DEF StacksInv, CallOriginal
  <2>2. /\ Goto(Home, q) /\ q \in {"uncross", "callback", "dart", "retire"}
        /\ Top(Home).phase = "enter" /\ Top(Home).listening
    BY <1>6 DEF CallOriginal
  <2> HIDE DEF q
  <2>3. /\ e.phase = "enter" /\ e.listening /\ (e.lease <=> Top(Home).lease)
    BY <1>2, <2>2 DEF FrameType
  <2>4. PairedFrame(e)
    BY <2>3 DEF PairedFrame
  <2> HIDE DEF e
  <2> QED BY <1>3, <2>1, <2>2, <2>3, <2>4
<1> QED BY <1>4, <1>5, <1>6

(* What leaves the frames and their thread's place alone, or only moves    *)
(* between Dart code, callbacks and observations.                          *)
LEMMA QuietAlone ==
  ASSUME IInv, AloneInv,
         \/ PassThrough(Home) \/ RetainObject(Home) \/ Observing(Home)
         \/ \E k \in 0 .. MaxCalls : Throw(Home, k)
  PROVE  AloneInv' /\ TellsBeforeGone
<1>1. StacksInv /\ Home \in Threads /\ adapter \in AdapterType /\ pc \in [Everyone -> Places]
  BY HomeFrames DEF IInv, AdapterInv, StacksInv
<1>2. /\ UNCHANGED frames /\ UnchangedHooks
      /\ pc[Home] \in {"dart", "callback", "observe", "inspect"}
  BY DEF PassThrough, Called, RetainObject, Observing, Observe, EndObserve, Throw, UnchangedStacks
<1>3. PICK q \in {"dart", "callback", "observe", "inspect", "unwind"} :
             /\ Goto(Home, q)
             /\ \/ UNCHANGED adapter /\ pc[Home] \notin {"observe", "inspect"}
                \/ /\ adapter'.mutex = adapter.mutex /\ adapter'.observer = adapter.observer
                   /\ adapter'.owner_thread = adapter.owner_thread /\ q = pc[Home]
                \/ /\ adapter'.mutex = adapter.mutex /\ adapter'.observer = Home
                   /\ adapter'.owner_thread = Home /\ q \in {"observe", "inspect"}
                \/ /\ adapter'.mutex = adapter.mutex /\ adapter'.observer = None
                   /\ adapter'.owner_thread \in {None, adapter.owner_thread}
  <2>1. CASE PassThrough(Home) \/ \E k \in 0 .. MaxCalls : Throw(Home, k)
    BY <2>1 DEF PassThrough, Called, Throw
  <2>2. CASE RetainObject(Home)
    <3>1. Goto(Home, pc[Home]) /\ pc[Home] = "callback"
      BY <1>1, <2>2 DEF RetainObject, Goto
    <3>2. /\ adapter'.mutex = adapter.mutex /\ adapter'.observer = adapter.observer
          /\ adapter'.owner_thread = adapter.owner_thread
      BY <1>1, <2>2 DEF RetainObject, AdapterType
    <3> QED BY <3>1, <3>2
  <2>3. CASE Observe(Home)
    <3>1. /\ Goto(Home, "observe") \/ Goto(Home, "inspect")
          /\ adapter' = [adapter EXCEPT !.observer = Home, !.owner_thread = Home]
      BY <2>3 DEF Observe
    <3>2. /\ adapter'.mutex = adapter.mutex /\ adapter'.observer = Home
          /\ adapter'.owner_thread = Home
      BY <1>1, <3>1 DEF AdapterType
    <3> QED BY <3>1, <3>2
  <2>4. CASE EndObserve(Home)
    <3>1. Goto(Home, "dart") \/ Goto(Home, "callback")
      BY <2>4 DEF EndObserve
    <3>2. /\ adapter'.mutex = adapter.mutex /\ adapter'.observer = None
          /\ adapter'.owner_thread \in {None, adapter.owner_thread}
      BY <1>1, <2>4 DEF EndObserve, AdapterType
    <3> QED BY <3>1, <3>2
  <2> QED BY <2>1, <2>2, <2>3, <2>4 DEF Observing
<1>4. HomeOwns'
  <2>1. pc'[Home] = q /\ pc[Home] \notin Holding
    BY <1>1, <1>2, <1>3 DEF Goto, Holding, Everyone
  <2> QED BY <1>3, <2>1 DEF AloneInv, HomeOwns
<1>5. q # "trapped" /\ Ready(Top(Home), q, adapter')
  BY <1>3 DEF Ready, SettingUp
<1> QED BY <1>1, <1>2, <1>3, <1>4, <1>5, AloneMoves

(* PushFrame: a frame that has entered nothing, without roots.             *)
LEMMA PushFrameAlone ==
  ASSUME IInv, AloneInv, NEW kind \in Kinds, NEW listening \in BOOLEAN,
         PushFrame(Home, kind, listening)
  PROVE  AloneInv' /\ TellsBeforeGone
<1>1. /\ StacksInv /\ Home \in Threads /\ frames[Home] \in Seq(FrameType)
      /\ Len(frames[Home]) \in Nat /\ DOMAIN frames[Home] = 1 .. Len(frames[Home])
      /\ pc[Home] \in {"dart", "callback"} /\ UNCHANGED adapter /\ UnchangedHooks
  BY HomeFrames DEF PushFrame, Called, IInv
<1> DEFINE no == FALSE
           bd == kind = "bound" /\ listening
           n == Len(calls[Home]) + 1
           e == [at |-> n, bound |-> bd, listening |-> listening,
                 phase |-> "enter", ran |-> no, told |-> no,
                 skip_original |-> no, lease |-> no, bridge |-> no,
                 native |-> no, called |-> no]
           g == Append(frames[Home], e)
           q == IF bd THEN "pin" ELSE "ensure"
<1>2. Goto(Home, q) /\ frames' = [frames EXCEPT ![Home] = g]
  BY <1>1 DEF PushFrame, StacksInv
<1>3. e.phase = "enter" /\ ~e.ran /\ ~e.lease /\ ~e.bridge
  OBVIOUS
<1>4. q # "trapped"
  OBVIOUS
<1> HIDE DEF e, q
<1>5. /\ Len(g) = Len(frames[Home]) + 1 /\ g[Len(frames[Home]) + 1] = e
      /\ DOMAIN g = 1 .. Len(frames[Home]) + 1
      /\ \A i \in 1 .. Len(frames[Home]) : g[i] = frames[Home][i]
  BY <1>1
<1>6. frames'[Home] = g
  BY <1>1, <1>2 DEF StacksInv
<1> HIDE DEF g
<1>7. Top(Home)' = e
  BY <1>5, <1>6 DEF Top, Last
<1>8. FramesPaired'
  <2>1. PairedFrame(e)
    BY <1>3 DEF PairedFrame
  <2>2. \A i \in 1 .. Len(frames[Home]) : PairedFrame(g[i])
    BY <1>1, <1>5 DEF AloneInv, FramesPaired
  <2>3. \A i \in DOMAIN g : PairedFrame(g[i])
    BY <1>1, <1>5, <2>1, <2>2
  <2>4. \A f : PairedFrame(f)' <=> PairedFrame(f)
    BY <1>1 DEF PairedFrame, UnchangedHooks
  <2> QED BY <1>6, <2>3, <2>4 DEF FramesPaired
<1>9. BridgesOnTop'
  <2> SUFFICES ASSUME NEW i \in DOMAIN g, NEW j \in DOMAIN g, i < j, g[i].bridge, g[j].lease
               PROVE  FALSE
    BY <1>6 DEF BridgesOnTop
  <2>1. j # Len(frames[Home]) + 1
    BY <1>3, <1>5
  <2>2. i \in 1 .. Len(frames[Home]) /\ j \in 1 .. Len(frames[Home])
    BY <1>1, <1>5, <2>1
  <2> QED BY <1>1, <1>5, <2>2 DEF AloneInv, BridgesOnTop
<1>10. TellsBeforeGone
  <2>1. ~(Len(g) < Len(frames[Home]))
    BY <1>1, <1>5
  <2> QED BY <1>1, <1>2, <2>1, OnlyHomeShrinks
<1>11. HomeOwns'
  BY <1>1, <1>2, StaysOwner DEF Holding
<1>12. pc'[Home] = q /\ NeverTraps'
  BY <1>1, <1>2, <1>4 DEF AloneInv, NeverTraps, Alive, Goto, StacksInv, Everyone
<1>13. Ready(Top(Home), pc[Home], adapter)'
  BY <1>3, <1>7 DEF Ready
<1> QED BY <1>8, <1>9, <1>10, <1>11, <1>12, <1>13 DEF AloneInv

(* Return: to the caller, to a callback, or to the end of the frame.       *)
LEMMA ReturnAlone ==
  ASSUME IInv, AloneInv, Return(Home)
  PROVE  AloneInv' /\ TellsBeforeGone
<1>1. /\ pc[Home] = "dart" /\ UNCHANGED adapter /\ UnchangedHooks
      /\ StacksInv /\ Home \in Threads
  BY HomeFrames DEF Return, IInv
<1>2. ASSUME NEW q \in {"dart", "callback", "unpin"}, Goto(Home, q)
      PROVE  q # "trapped" /\ HomeOwns' /\ \A f : Ready(f, q, adapter')
  <2>1. HomeOwns'
    BY <1>1, <1>2, StaysOwner DEF Holding
  <2> QED BY <1>2, <2>1 DEF Ready, SettingUp
<1>3. CASE /\ UNCHANGED frames /\ Goto(Home, CallerOf(Home, Len(calls[Home])))
  <2> DEFINE q == CallerOf(Home, Len(calls[Home]))
  <2>1. q \in {"dart", "callback", "unpin"} /\ Goto(Home, q)
    BY <1>3 DEF CallerOf
  <2> HIDE DEF q
  <2> QED BY <1>1, <1>2, <1>3, <2>1, AloneMoves
<1>4. ASSUME OwnsReturn(Home)
      PROVE  /\ frames[Home] # <<>> /\ Top(Home) \in FrameType
             /\ TopIndex(Home) = Len(frames[Home]) /\ TopIndex(Home) \in DOMAIN frames[Home]
             /\ Top(Home) = frames[Home][TopIndex(Home)] /\ InDart(Top(Home))
             /\ PairedFrame(Top(Home))
  <2>1. frames[Home] # <<>> /\ Top(Home).at = Len(calls[Home]) /\ Top(Home) = Last(frames[Home])
    BY <1>4 DEF OwnsReturn, Top
  <2>2. StackOK(calls[Home], frames[Home], "dart", handler[Home])
    BY <1>1, StackKept
  <2>3. InDart(Top(Home))
    BY <2>1, <2>2 DEF StackOK, TopOK, Outside
  <2> QED BY <1>1, <2>1, <2>3, HomeFrames DEF TopIndex, AloneInv, FramesPaired
<1>5. CASE /\ OwnsReturn(Home) /\ Goto(Home, "callback")
           /\ frames' = [frames EXCEPT ![Home][TopIndex(Home)].native = FALSE,
                                       ![Home][TopIndex(Home)].skip_original = TRUE]
  <2> DEFINE e == [Top(Home) EXCEPT !.native = FALSE, !.skip_original = TRUE]
             q == "callback"
             n == Len(frames[Home])
             w == [frames EXCEPT ![Home][n].native = FALSE]
  <2>1. frames' = [w EXCEPT ![Home][n].skip_original = TRUE]
    BY <1>4, <1>5
  <2>2. w = [frames EXCEPT ![Home] =
               [frames[Home] EXCEPT ![n] = [Top(Home) EXCEPT !.native = FALSE]]]
    BY <1>4, <1>5
  <2>3. frames' = [frames EXCEPT ![Home] = [frames[Home] EXCEPT ![n] = e]]
    <3>1. n \in DOMAIN frames[Home] /\ frames[Home][n] = Top(Home) /\ Home \in DOMAIN frames
      BY <1>1, <1>4, <1>5 DEF StacksInv
    <3> QED BY <2>1, <2>2, <3>1
  <2>4. /\ e.phase = Top(Home).phase /\ (e.ran <=> Top(Home).ran) /\ (e.told <=> Top(Home).told)
        /\ (e.listening <=> Top(Home).listening) /\ (e.bound <=> Top(Home).bound)
        /\ (e.lease <=> Top(Home).lease)
    BY <1>4, <1>5 DEF FrameType
  <2>5. PairedFrame(e)
    BY <1>4, <1>5, <2>4 DEF PairedFrame
  <2>6. q \in {"dart", "callback", "unpin"} /\ Goto(Home, q)
    BY <1>5
  <2> HIDE DEF e, q
  <2> QED BY <1>1, <1>2, <1>4, <1>5, <2>3, <2>4, <2>5, <2>6, AloneRewrites
<1>6. CASE /\ OwnsReturn(Home) /\ ~Top(Home).native
           /\ Goto(Home, CASE Top(Home).lease -> "unpin"
                           [] Top(Home).bound /\ ~Top(Home).lease -> "pin" [] OTHER -> "callback")
           /\ frames' = [frames EXCEPT ![Home][TopIndex(Home)].phase =
                           IF Top(Home).lease THEN "return" ELSE "leave"]
  <2> DEFINE ph == IF Top(Home).lease THEN "return" ELSE "leave"
             q == IF Top(Home).lease THEN "unpin" ELSE "callback"
             e == [Top(Home) EXCEPT !.phase = ph]
  <2>1. frames' = [frames EXCEPT ![Home] = [frames[Home] EXCEPT ![Len(frames[Home])] = e]]
    BY <1>1, <1>4, <1>6 DEF StacksInv
  <2>2. Goto(Home, q)
    <3>1. Top(Home).lease \in BOOLEAN /\ Top(Home).bound \in BOOLEAN
      BY <1>4, <1>6 DEF FrameType
    <3> QED BY <1>4, <1>6, <3>1 DEF InDart
  <2>3. ph \in {"return", "leave"} /\ q \in {"dart", "callback", "unpin"}
    OBVIOUS
  <2> HIDE DEF ph, q
  <2>4. /\ e.phase = ph /\ (e.ran <=> Top(Home).ran) /\ (e.told <=> Top(Home).told)
        /\ (e.listening <=> Top(Home).listening) /\ (e.bound <=> Top(Home).bound)
        /\ (e.lease <=> Top(Home).lease)
    BY <1>4, <1>6 DEF FrameType
  <2>5. PairedFrame(e)
    BY <1>4, <1>6, <2>3, <2>4 DEF PairedFrame
  <2> HIDE DEF e
  <2> QED BY <1>1, <1>2, <1>4, <1>6, <2>1, <2>2, <2>3, <2>4, <2>5, AloneRewrites
<1> QED BY <1>3, <1>5, <1>6 DEF Return

(* Unwind: the listeners that are still subscribed are told.               *)
LEMMA UnwindAlone ==
  ASSUME IInv, AloneInv, Unwind(Home)
  PROVE  AloneInv' /\ TellsBeforeGone
<1>1. /\ pc[Home] = "unwind" /\ UNCHANGED adapter /\ UnchangedHooks
      /\ StacksInv /\ Home \in Threads
  BY HomeFrames DEF Unwind, IInv
<1>2. ASSUME NEW q \in {"dart", "callback", "uncross", "unpin", "retire"}, Goto(Home, q)
      PROVE  q # "trapped" /\ HomeOwns' /\ \A f : Ready(f, q, adapter')
  <2>1. HomeOwns'
    BY <1>1, <1>2, StaysOwner DEF Holding
  <2> QED BY <1>2, <2>1 DEF Ready, SettingUp
<1>3. CASE frames[Home] # <<>> /\ Unwound(Top(Home), handler[Home])
  <2>1. /\ Top(Home) \in FrameType /\ TopIndex(Home) = Len(frames[Home])
        /\ TopIndex(Home) \in DOMAIN frames[Home] /\ Top(Home) = frames[Home][TopIndex(Home)]
        /\ PairedFrame(Top(Home))
    BY <1>1, <1>3, WorkingTop DEF AloneInv, FramesPaired
  <2> DEFINE b == Top(Home).listening /\ (Top(Home).bound => subscribed)
             q == CASE Top(Home).bridge -> "uncross"
                    [] ~Top(Home).bridge /\ Top(Home).lease -> "unpin" [] OTHER -> "retire"
             e == [Top(Home) EXCEPT !.phase = "exception", !.told = b]
  <2>2. frames' = [frames EXCEPT ![Home] = [frames[Home] EXCEPT ![Len(frames[Home])] = e]]
    <3> DEFINE n == Len(frames[Home])
               w == [frames EXCEPT ![Home][n].phase = "exception"]
    <3>1. frames' = [w EXCEPT ![Home][n].told = b]
      BY <1>3, <2>1 DEF Unwind
    <3>2. w = [frames EXCEPT ![Home] =
                 [frames[Home] EXCEPT ![n] = [Top(Home) EXCEPT !.phase = "exception"]]]
      BY <2>1
    <3> QED BY <1>1, <2>1, <3>1, <3>2 DEF StacksInv
  <2>3. Goto(Home, q)
    BY <1>3 DEF Unwind
  <2>4. q \in {"dart", "callback", "uncross", "unpin", "retire"}
    BY <2>1 DEF FrameType
  <2>5. b <=> Top(Home).listening /\ (Top(Home).bound => subscribed)
    OBVIOUS
  <2> HIDE DEF b, q
  <2>6. /\ e.phase = "exception" /\ (e.ran <=> Top(Home).ran) /\ (e.told <=> b)
        /\ (e.listening <=> Top(Home).listening) /\ (e.bound <=> Top(Home).bound)
        /\ (e.lease <=> Top(Home).lease)
    BY <2>1 DEF FrameType
  <2>7. PairedFrame(e)
    BY <2>1, <2>5, <2>6 DEF PairedFrame
  <2> HIDE DEF e
  <2> QED BY <1>1, <1>2, <1>3, <2>2, <2>3, <2>4, <2>6, <2>7, AloneRewrites
<1>4. CASE ~(frames[Home] # <<>> /\ Unwound(Top(Home), handler[Home]))
  <2> DEFINE q == IF handler[Home].depth > 0 /\ handler[Home].depth = LastInvoked(Home) - 1
                  THEN "callback" ELSE "dart"
  <2>1. UNCHANGED frames /\ Goto(Home, q)
    BY <1>4 DEF Unwind
  <2>2. q \in {"dart", "callback", "uncross", "unpin", "retire"}
    OBVIOUS
  <2> HIDE DEF q
  <2> QED BY <1>1, <1>2, <2>1, <2>2, AloneMoves
<1> QED BY <1>3, <1>4

(* Retire: the frame that goes has told what had entered.                  *)
LEMMA RetireAlone ==
  ASSUME IInv, AloneInv, Retire(Home)
  PROVE  AloneInv' /\ TellsBeforeGone
<1>1. /\ pc[Home] = "retire" /\ UnchangedHooks /\ StacksInv /\ Home \in Threads
      /\ adapter \in AdapterType /\ pc \in [Everyone -> Places]
      /\ frames[Home] \in Seq(FrameType)
  BY HomeFrames DEF Retire, IInv, AdapterInv, StacksInv
<1>2. /\ frames[Home] # <<>> /\ Top(Home) = frames[Home][Len(frames[Home])]
      /\ Len(frames[Home]) \in DOMAIN frames[Home]
      /\ frames' = [frames EXCEPT ![Home] = Front(frames[Home])]
  BY <1>1, RetireStacks, HomeFrames
<1>3. Top(Home).phase \in {"failed", "finished", "exception"} /\ PairedFrame(Top(Home))
  <2>1. Fits(Top(Home), "retire") \/ Abandoned(Top(Home), "retire")
    BY <1>1, WorkingTop DEF Inside
  <2> QED BY <1>2, <2>1 DEF Fits, Abandoned, AloneInv, FramesPaired
<1> DEFINE g == Front(frames[Home])
<1>4. frames'[Home] = g
  BY <1>1, <1>2 DEF StacksInv
<1>5. /\ Len(g) = Len(frames[Home]) - 1 /\ DOMAIN g = 1 .. Len(frames[Home]) - 1
      /\ Len(frames[Home]) \in Nat /\ DOMAIN frames[Home] = 1 .. Len(frames[Home])
      /\ \A i \in 1 .. Len(frames[Home]) - 1 : g[i] = frames[Home][i]
  BY <1>1, <1>2, FrontIs, HomeFrames
<1> HIDE DEF g
<1>6. \A i \in DOMAIN g : i \in DOMAIN frames[Home] /\ g[i] = frames[Home][i]
  BY <1>5
<1>7. FramesPaired'
  BY <1>1, <1>4, <1>6 DEF AloneInv, FramesPaired, PairedFrame, UnchangedHooks
<1>8. BridgesOnTop'
  BY <1>4, <1>6 DEF AloneInv, BridgesOnTop
<1>9. TellsBeforeGone
  <2>1. /\ Top(Home).ran /\ (Top(Home).phase = "exception" /\ Top(Home).bound => subscribed)
        => Top(Home).told
    BY <1>3 DEF PairedFrame
  <2> QED BY <1>1, <1>2, <2>1, OnlyHomeShrinks
<1>10. PICK q \in {"dart", "callback", "unwind"} : Goto(Home, q)
  BY <1>3 DEF Retire, CallerOf
<1>11. /\ adapter'.mutex = adapter.mutex /\ adapter'.observer = adapter.observer
       /\ adapter'.owner_thread = adapter.owner_thread
  <2>1. adapter' = [adapter EXCEPT !.hook_refs = @ - 1] \/ UNCHANGED adapter
    BY DEF Retire
  <2> QED BY <1>1, <2>1 DEF AdapterType
<1>12. pc'[Home] = q /\ NeverTraps'
  BY <1>1, <1>10 DEF AloneInv, NeverTraps, Alive, Goto, Everyone
<1>13. HomeOwns'
  BY <1>1, <1>11 DEF AloneInv, HomeOwns, Holding
<1>14. Ready(Top(Home), pc[Home], adapter)'
  BY <1>10, <1>12 DEF Ready, SettingUp
<1> QED BY <1>7, <1>8, <1>9, <1>12, <1>13, <1>14 DEF AloneInv

(* The invariant of a thread alone is inductive under its own steps.       *)
LEMMA AloneNext ==
  ASSUME IInv, AloneInv, Step(Home)
  PROVE  IInv' /\ AloneInv' /\ TellsBeforeGone
<1>1. IInv'
  <2>1. Home \in Threads /\ StacksInv /\ StacksInv'
    BY HomeFrames, StepStacks DEF IInv
  <2> QED BY <2>1, StepAdapter DEF IInv
<1> SUFFICES AloneInv' /\ TellsBeforeGone
  BY <1>1
<1>2. ASSUME NEW kind \in Kinds, NEW listening \in BOOLEAN, PushFrame(Home, kind, listening)
      PROVE  AloneInv' /\ TellsBeforeGone
  BY <1>2, PushFrameAlone
<1>3. CASE Dispatch(Home)
  <2>1. CASE EnsureBridge(Home)
    BY <2>1, EnsureBridgeAlone
  <2>2. ASSUME NEW p, NEW q, TryLock(Home, p, q),
               <<p, q>> \in {<<"pin", "pinning">>, <<"cross", "crossing">>,
                             <<"unpin", "unpinning">>}
        PROVE  AloneInv' /\ TellsBeforeGone
    BY <2>2, TryLockAlone
  <2>3. CASE PinBusy(Home) \/ PinFails(Home)
    BY <2>3, PinRefusedAlone
  <2>4. CASE Pin(Home)
    BY <2>4, PinAlone
  <2>5. CASE CrossBusy(Home) \/ Cross(Home) \/ CrossFails(Home)
    BY <2>5, CrossAlone
  <2>6. CASE Uncross(Home)
    BY <2>6, UncrossAlone
  <2>7. CASE Unpin(Home) \/ UnpinBusy(Home)
    BY <2>7, UnpinAlone
  <2>8. CASE Retire(Home)
    BY <2>8, RetireAlone
  <2>9. CASE Unwind(Home)
    BY <2>9, UnwindAlone
  <2> QED BY <1>3, <2>1, <2>2, <2>3, <2>4, <2>5, <2>6, <2>7, <2>8, <2>9 DEF Dispatch
<1>4. CASE \/ (\E skip \in BOOLEAN : EnterDone(Home, skip)) \/ LeaveDone(Home)
           \/ CallOriginal(Home)
  BY <1>4, CallbackAlone
<1>5. CASE \/ PassThrough(Home) \/ RetainObject(Home) \/ Observing(Home)
           \/ \E k \in 0 .. MaxCalls : Throw(Home, k)
  BY <1>5, QuietAlone
<1>6. CASE Return(Home)
  BY <1>6, ReturnAlone
<1> QED BY <1>2, <1>3, <1>4, <1>5, <1>6 DEF Step, Enter, Callback

(* In the "deep" setting of the runs, with whatever bounds, both           *)
(* invariants hold.                                                        *)
LEMMA AloneHolds == MCSpec => [](setting = "deep" => IInv /\ AloneInv)
<1>1. MCInit => (setting = "deep" => IInv /\ AloneInv)
  <2> SUFFICES ASSUME Init
               PROVE  IInv /\ AloneInv
    BY DEF MCInit
  <2>1. IInv
    BY StacksInit, AdapterInit DEF IInv
  <2>2. /\ Home \in Threads /\ frames[Home] = <<>> /\ pc[Home] = "dart"
        /\ \A t \in Threads : pc[t] = "dart"
    BY FramesAssumption DEF Init, Everyone
  <2>3. adapter.owner_thread = None /\ adapter.mutex = None /\ adapter.observer = None
    BY DEF Init
  <2>4. DOMAIN frames[Home] = {}
    BY <2>2
  <2> QED BY <2>1, <2>2, <2>3, <2>4
          DEF AloneInv, NeverTraps, Alive, HomeOwns, BridgesOnTop, FramesPaired, Ready, SettingUp
<1>2. (setting = "deep" => IInv /\ AloneInv) /\ [MCNext]_<<vars, setting>>
        => (setting = "deep" => IInv /\ AloneInv)'
  <2> SUFFICES ASSUME setting = "deep" => IInv /\ AloneInv, [MCNext]_<<vars, setting>>,
                      setting' = "deep"
               PROVE  IInv' /\ AloneInv'
    OBVIOUS
  <2>1. CASE MCNext
    <3>1. setting = "deep" /\ Step(Home)
      BY <2>1 DEF MCNext, Deep
    <3> QED BY <3>1, AloneNext
  <2>2. CASE UNCHANGED <<vars, setting>>
    <3>1. IInv /\ AloneInv /\ UNCHANGED vars
      BY <2>2
    <3>2. IInv'
      BY <3>1, IInvNext
    <3>3. UNCHANGED <<adapter, subscribed, frames, pc>>
      BY <3>1 DEF vars
    <3> QED BY <3>1, <3>2, <3>3 DEF AloneInv, NeverTraps, Alive, HomeOwns, BridgesOnTop,
                FramesPaired, PairedFrame, Ready, Top
  <2> QED BY <2>1, <2>2
<1> QED BY <1>1, <1>2, PTL DEF MCSpec

(* PairedCallbacks: with nothing to contend with, callbacks that entered   *)
(* are left or told of the exception before their frame is gone: the       *)
(* second lease and the second transition of FinishFrame are not refused.  *)
THEOREM PairedCallbacksHold == MCSpec => PairedCallbacks
<1>1. (setting = "deep" => IInv /\ AloneInv) /\ [MCNext]_<<vars, setting>>
        => [setting = "deep" => TellsBeforeGone]_vars
  <2> SUFFICES ASSUME setting = "deep", IInv, AloneInv, [MCNext]_<<vars, setting>>,
                      ~UNCHANGED vars
               PROVE  TellsBeforeGone
    OBVIOUS
  <2>1. Step(Home)
    BY DEF MCNext, Deep
  <2> QED BY <2>1, AloneNext
<1> QED BY <1>1, AloneHolds, PTL DEF MCSpec, PairedCallbacks

(* NeverTraps, without contention: a thread alone gets through every       *)
(* transition it was admitted to, however its calls are nested, whatever   *)
(* they throw and however few leases there are.                            *)
THEOREM AloneNeverTraps == MCSpec => [](setting = "deep" => NeverTraps)
<1>1. (setting = "deep" => IInv /\ AloneInv) => (setting = "deep" => NeverTraps)
  BY DEF AloneInv
<1> QED BY <1>1, AloneHolds, PTL
=============================================================================
