----------------------- MODULE RuntimeOperationsProofs -----------------------
(***************************************************************************)
(* For any clients, loading units, bases and contexts, and any number of   *)
(* loader events, operations and requests: the images of a runtime are     *)
(* those of one history, its hooks and its live index follow them, and a   *)
(* refresh that is reported complete has seen what it was asked for.       *)
(***************************************************************************)
EXTENDS RuntimeOperations, FiniteSetTheorems, SequenceTheorems, WellFoundedInduction, TLAPS

-----------------------------------------------------------------------------
(* The images of a group                                                   *)

ModuleMaps == [Modules -> Bases \cup {None}]

GroupType ==
  [token : Nat, retired : BOOLEAN, generation : Nat, epoch : Nat, app : Bases \cup {None},
   images : SUBSET ImageType, next_id : Nat, next_epoch : Nat,
   context : Contexts \cup {None}, index : SUBSET OwnerType,
   state : {"created", "images_ready", "ready", "failed"}, matched : BOOLEAN]

(* No two images have a unit, an id or an epoch in common.                 *)
Distinct(images) ==
  \A i, j \in images : (i.unit = j.unit \/ i.id = j.id \/ i.epoch = j.epoch) => i = j

(* The images are the group's and below its allocators; only a group with  *)
(* an app, and with its root, has any.                                     *)
ImagesInv(g) ==
  /\ Distinct(g.images)
  /\ \A i \in g.images : /\ i.id < g.next_id /\ i.epoch < g.next_epoch
                         /\ i.group = g.epoch /\ i.generation <= g.generation
  /\ g.images # {} => ~g.retired /\ g.app # None /\ \E i \in g.images : i.unit = Root
  /\ g.images = {} => g.retired \/ (g.app = None /\ g.context = None)

(* Image o is the one that i was, perhaps in an earlier generation.        *)
Same(o, i) == o.id = i.id /\ o.epoch = i.epoch

Indexed(index, i) == \E o \in index : Same(o, i)

(* The index names images of the group, by owners they have or have had.   *)
IndexInv(g) ==
  /\ \A o \in g.index : \E i \in g.images : Same(o, i)
  /\ \A o \in g.index, i \in g.images :
       Same(o, i) => o.group = i.group /\ o.generation <= i.generation
  /\ g.index # {} => \A i \in g.images : i.live <=> Indexed(g.index, i)
  /\ g.state = "ready" => \E i \in g.images : i.unit = Root /\ Indexed(g.index, i)

(* What has left is older than what there is: of an earlier group epoch, of*)
(* an earlier generation, or below the allocators.                         *)
HistoryInv(g, next, gone) ==
  /\ gone \subseteq OwnerType /\ next \in Nat /\ g.epoch < next
  /\ \A o \in gone : o.group < next
  /\ \A o \in gone, i \in g.images :
       o.group = g.epoch /\ o.epoch = i.epoch => o.generation < i.generation
  /\ g.images # {} => \A o \in gone : o.group = g.epoch => o.epoch < g.next_epoch

GroupOK(g) == g \in GroupType /\ ImagesInv(g) /\ IndexInv(g)

(* Group h can take the place of g.                                        *)
Follows(g, h, next, then) ==
  /\ then \in Nat /\ next <= then /\ h.epoch < then
  /\ \/ h.images = {}
     \/ next <= h.epoch
     \/ /\ h.epoch = g.epoch /\ g.images # {} /\ g.next_epoch <= h.next_epoch
        /\ \A i \in h.images :
             \/ g.next_epoch <= i.epoch
             \/ \E j \in g.images : Same(j, i) /\ j.generation <= i.generation

(* What the fields of an image are.                                        *)
LEMMA ImageFields ==
  ASSUME NEW g \in GroupType, NEW i \in g.images
  PROVE  /\ i \in ImageType /\ g.epoch \in Nat /\ g.generation \in Nat /\ g.next_epoch \in Nat
         /\ i.unit \in Modules /\ i.base \in Bases /\ i.id \in Nat /\ i.epoch \in Nat
         /\ i.generation \in Nat /\ i.group \in Nat /\ i.live \in BOOLEAN
         /\ g.next_id \in Nat
BY DEF GroupType, ImageType

(* The fields of an owner                                                  *)
LEMMA OwnerFields ==
  ASSUME NEW i
  PROVE  /\ OwnerIdentity(i).generation = i.generation /\ OwnerIdentity(i).group = i.group
         /\ OwnerIdentity(i).id = i.id /\ OwnerIdentity(i).epoch = i.epoch
         /\ i \in ImageType => OwnerIdentity(i) \in OwnerType
BY DEF OwnerIdentity, ImageType, OwnerType

(* Two images with the same owner fields have the same owner.              *)
LEMMA OwnersEqual ==
  ASSUME NEW i, NEW j, i.generation = j.generation, i.group = j.group, i.id = j.id,
         i.epoch = j.epoch
  PROVE  OwnerIdentity(i) = OwnerIdentity(j)
BY DEF OwnerIdentity

(* The history of owners grows truly when a group follows another.         *)
LEMMA HistoryGoes ==
  ASSUME NEW g, NEW h, NEW next, NEW then, NEW gone,
         GroupOK(g), GroupOK(h), HistoryInv(g, next, gone), Follows(g, h, next, then)
  PROVE  HistoryInv(h, then, gone \cup (Owners(g.images) \ Owners(h.images)))
<1> DEFINE left == Owners(g.images) \ Owners(h.images)
<1> USE DEF GroupOK
<1>1. \A o \in left : \E j \in g.images : o = OwnerIdentity(j) /\ o \notin Owners(h.images)
  BY DEF Owners
<1>2. \A i \in h.images : OwnerIdentity(i) \in Owners(h.images)
  BY DEF Owners
<1> HIDE DEF left
<1>3. \A o \in left : /\ o \in OwnerType /\ o.group = g.epoch /\ o.epoch < g.next_epoch
                      /\ \E j \in g.images : o = OwnerIdentity(j)
  BY <1>1, ImageFields, OwnerFields DEF ImagesInv
<1>4. next \in Nat /\ then \in Nat /\ g.epoch \in Nat /\ h.epoch \in Nat /\ g.next_epoch \in Nat
      /\ h.next_epoch \in Nat
  BY DEF GroupType, HistoryInv, Follows
<1>5. gone \cup left \subseteq OwnerType
  BY <1>3 DEF HistoryInv
<1>6. \A o \in gone \cup left : o.group \in Nat /\ o.epoch \in Nat /\ o.generation \in Nat
  BY <1>5 DEF OwnerType
<1>7. \A o \in gone \cup left : o.group < next
  BY <1>3 DEF HistoryInv
<1>8. \A o \in gone \cup left : g.images # {} /\ o.group = g.epoch => o.epoch < g.next_epoch
  BY <1>3 DEF HistoryInv
<1>9. ASSUME NEW o \in gone \cup left, NEW i \in h.images,
             o.group = h.epoch, o.epoch = i.epoch
      PROVE  o.generation < i.generation
  <2>1. h.epoch = g.epoch /\ g.images # {}
    BY <1>4, <1>6, <1>7, <1>9 DEF Follows
  <2>2. i.epoch \in Nat /\ i.generation \in Nat /\ i.group = h.epoch
    BY ImageFields DEF ImagesInv
  <2>3. ~(g.next_epoch <= i.epoch)
    BY <1>4, <1>6, <1>8, <1>9, <2>1, <2>2
  <2>4. PICK j \in g.images : Same(j, i) /\ j.generation <= i.generation
    BY <1>4, <1>6, <1>7, <1>9, <2>3 DEF Follows
  <2>5. j.generation \in Nat /\ j.epoch = i.epoch /\ j.id = i.id /\ j.group = g.epoch
    BY <2>4, ImageFields DEF Same, ImagesInv
  <2>6. CASE o \in gone
    <3>1. o.generation < j.generation
      BY <1>9, <2>1, <2>5, <2>6 DEF HistoryInv
    <3> QED
      BY <1>6, <2>2, <2>4, <2>5, <3>1
  <2>7. CASE o \in left
    <3>1. PICK k \in g.images : o = OwnerIdentity(k)
      BY <1>3, <2>7
    <3>2. k = j
      BY <1>9, <2>5, <3>1, OwnerFields DEF ImagesInv, Distinct
    <3>3. i.generation # j.generation
      BY <1>1, <1>2, <2>1, <2>2, <2>5, <2>7, <3>1, <3>2, OwnersEqual
    <3> QED
      BY <2>2, <2>4, <2>5, <3>1, <3>2, <3>3, OwnerFields
  <2> QED
    BY <2>6, <2>7
<1>10. ASSUME h.images # {}, NEW o \in gone \cup left, o.group = h.epoch
       PROVE  o.epoch < h.next_epoch
  <2>1. h.epoch = g.epoch /\ g.images # {} /\ g.next_epoch <= h.next_epoch
    BY <1>4, <1>6, <1>7, <1>10 DEF Follows
  <2> QED
    BY <1>4, <1>6, <1>8, <1>10, <2>1
<1>11. h.epoch < then /\ \A o \in gone \cup left : o.group < then
  BY <1>4, <1>6, <1>7 DEF Follows
<1> QED
  BY <1>4, <1>5, <1>9, <1>10, <1>11 DEF HistoryInv, left

-----------------------------------------------------------------------------
(* Staged images                                                           *)

(* There are finitely many modules, and their names are numbers.           *)
LEMMA ModulesFinite ==
  IsFiniteSet(Modules) /\ Modules \subseteq Nat /\ Root \in Modules
<1>1. IsFiniteSet({Root}) /\ IsFiniteSet(Units)
  BY FS_Singleton, OperationsAssumption
<1>2. IsFiniteSet({Root} \cup Units)
  BY <1>1, FS_Union
<1> QED
  BY <1>2, OperationsAssumption DEF Modules, Root

(* The rank of a module in a set numbers it.                               *)
LEMMA Ranks ==
  ASSUME NEW S \in SUBSET Modules
  PROVE  /\ Cardinality(S) \in Nat
         /\ \A m \in S : Rank(m, S) \in Nat /\ Rank(m, S) < Cardinality(S)
         /\ \A m, n \in S : Rank(m, S) = Rank(n, S) => m = n
<1> DEFINE Below(m) == {k \in S : k < m}
<1>1. IsFiniteSet(S) /\ S \subseteq Nat
  BY ModulesFinite, FS_Subset
<1>2. Cardinality(S) \in Nat
  BY <1>1, FS_CardinalityType
<1>3. ASSUME NEW m \in S
      PROVE  /\ IsFiniteSet(Below(m)) /\ Cardinality(Below(m)) \in Nat
             /\ Cardinality(Below(m)) < Cardinality(S)
  <2>1. Below(m) \in SUBSET (S \ {m})
    BY <1>1
  <2>2. IsFiniteSet(S \ {m}) /\ Cardinality(S \ {m}) = Cardinality(S) - 1
    BY <1>1, FS_RemoveElement
  <2> HIDE DEF Below
  <2>3. IsFiniteSet(Below(m)) /\ Cardinality(Below(m)) <= Cardinality(S) - 1
    BY <2>1, <2>2, FS_Subset
  <2> QED
    BY <1>2, <2>3, FS_CardinalityType
<1>4. ASSUME NEW m \in S, NEW n \in S, m < n
      PROVE  Cardinality(Below(m)) < Cardinality(Below(n))
  <2>1. m \in Nat /\ n \in Nat /\ \A k \in S : k \in Nat /\ (k < m => k < n)
    BY <1>1, <1>4
  <2>2. m \notin Below(m) /\ m \in Below(n) /\ \A k \in Below(m) : k \in Below(n)
    BY <1>4, <2>1
  <2>3. Below(m) \cup {m} \in SUBSET Below(n)
    BY <2>2
  <2> HIDE DEF Below
  <2>4. Cardinality(Below(m) \cup {m}) = Cardinality(Below(m)) + 1
    BY <1>3, <2>2, FS_AddElement
  <2>5. Cardinality(Below(m) \cup {m}) <= Cardinality(Below(n))
    BY <1>3, <2>3, FS_Subset
  <2> QED
    BY <1>3, <2>4, <2>5
<1>5. \A m \in S : Rank(m, S) = Cardinality(Below(m))
  BY DEF Rank
<1> HIDE DEF Below
<1>6. ASSUME NEW m \in S, NEW n \in S, Rank(m, S) = Rank(n, S)
      PROVE  m = n
  <2>1. m \in Nat /\ n \in Nat
    BY <1>1
  <2>2. ~(m < n) /\ ~(n < m)
    BY <1>3, <1>4, <1>5, <1>6
  <2> QED
    BY <2>1, <2>2
<1> QED
  BY <1>2, <1>3, <1>5, <1>6

(* The image of a unit                                                     *)
LEMMA OfUnitIs ==
  ASSUME NEW g, Distinct(g.images), NEW i \in g.images
  PROVE  OfUnit(g.images, i.unit) = i
BY DEF OfUnit, Distinct

(* The id and the epoch of the image that is staged for module m           *)
StagedId(g, modules, m) ==
  IF m \in NewIds(g, modules) THEN Cursors(g).id + Rank(m, NewIds(g, modules))
                              ELSE OfUnit(g.images, m).id

StagedEpoch(g, modules, m) ==
  IF m \in NewEpochs(g, modules) THEN Cursors(g).epoch + Rank(m, NewEpochs(g, modules))
                                 ELSE OfUnit(g.images, m).epoch

NextId(g, modules) == Cursors(g).id + Cardinality(NewIds(g, modules))
NextEpoch(g, modules) == Cursors(g).epoch + Cardinality(NewEpochs(g, modules))

(* The allocators of a staged set start at numbers.                        *)
LEMMA CursorsAre ==
  ASSUME NEW g \in GroupType
  PROVE  /\ Cursors(g).id \in Nat /\ Cursors(g).epoch \in Nat
         /\ g.images # {} => Cursors(g).id = g.next_id /\ Cursors(g).epoch = g.next_epoch
BY DEF Cursors, GroupType

(* A staged id is new, at or above the allocator, or that of the image of  *)
(* the same unit.                                                          *)
LEMMA StagedIds ==
  ASSUME NEW g \in GroupType, ImagesInv(g), NEW modules \in ModuleMaps
  PROVE  /\ NextId(g, modules) \in Nat /\ Cursors(g).id <= NextId(g, modules)
         /\ \A m \in Present(modules) :
              /\ StagedId(g, modules, m) \in Nat
              /\ StagedId(g, modules, m) < NextId(g, modules)
              /\ IF m \in NewIds(g, modules)
                   THEN Cursors(g).id <= StagedId(g, modules, m)
                   ELSE \E j \in g.images : j.unit = m /\ StagedId(g, modules, m) = j.id
         /\ \A m, n \in Present(modules) :
              StagedId(g, modules, m) = StagedId(g, modules, n) => m = n
<1> DEFINE New == NewIds(g, modules)
<1>1. New \in SUBSET Modules
  BY DEF NewIds, Present
<1>2. Cursors(g).id \in Nat
  BY CursorsAre
<1>3. Cardinality(New) \in Nat
  BY <1>1, Ranks
<1>4. ASSUME NEW m \in Present(modules), m \notin New
      PROVE  \E j \in g.images : j.unit = m /\ StagedId(g, modules, m) = j.id
  BY <1>4, OfUnitIs DEF NewIds, StagedId, ImagesInv
<1>5. \A m \in New : StagedId(g, modules, m) = Cursors(g).id + Rank(m, New)
  BY DEF StagedId
<1> HIDE DEF New
<1>6. \A m \in New : /\ StagedId(g, modules, m) \in Nat /\ Cursors(g).id <= StagedId(g, modules, m)
                     /\ StagedId(g, modules, m) < Cursors(g).id + Cardinality(New)
  BY <1>1, <1>2, <1>3, <1>5, Ranks
<1>7. ASSUME NEW m \in Present(modules), m \notin New
      PROVE  StagedId(g, modules, m) \in Nat /\ StagedId(g, modules, m) < Cursors(g).id
  <2>1. PICK j \in g.images : StagedId(g, modules, m) = j.id
    BY <1>4, <1>7
  <2> QED
    BY <2>1, CursorsAre, ImageFields DEF ImagesInv
<1>8. ASSUME NEW m \in Present(modules), NEW n \in Present(modules),
             StagedId(g, modules, m) = StagedId(g, modules, n)
      PROVE  m = n
  <2>1. CASE m \in New /\ n \in New
    <3>1. Rank(m, New) \in Nat /\ Rank(n, New) \in Nat
      BY <1>1, <2>1, Ranks
    <3>2. Rank(m, New) = Rank(n, New)
      BY <1>2, <1>5, <1>8, <2>1, <3>1
    <3> QED
      BY <1>1, <2>1, <3>2, Ranks
  <2>2. CASE m \notin New /\ n \notin New
    BY <1>4, <1>8, <2>2 DEF ImagesInv, Distinct
  <2>3. CASE ~(m \in New <=> n \in New)
    BY <1>2, <1>6, <1>7, <1>8, <2>3
  <2> QED
    BY <2>1, <2>2, <2>3
<1>9. NextId(g, modules) = Cursors(g).id + Cardinality(New)
  BY DEF NextId, New
<1>10. ASSUME NEW m \in Present(modules)
       PROVE  /\ StagedId(g, modules, m) \in Nat
              /\ StagedId(g, modules, m) < NextId(g, modules)
  BY <1>2, <1>3, <1>6, <1>7, <1>9
<1> QED
  BY <1>2, <1>3, <1>4, <1>6, <1>8, <1>9, <1>10 DEF New

(* A staged epoch is new, or that of the image of the same unit, mapped    *)
(* where it is now.                                                        *)
LEMMA StagedEpochs ==
  ASSUME NEW g \in GroupType, ImagesInv(g), NEW modules \in ModuleMaps
  PROVE  /\ NextEpoch(g, modules) \in Nat /\ Cursors(g).epoch <= NextEpoch(g, modules)
         /\ \A m \in Present(modules) :
              /\ StagedEpoch(g, modules, m) \in Nat
              /\ StagedEpoch(g, modules, m) < NextEpoch(g, modules)
              /\ IF m \in NewEpochs(g, modules)
                   THEN Cursors(g).epoch <= StagedEpoch(g, modules, m)
                   ELSE \E j \in g.images : /\ j.unit = m /\ j.base = modules[m]
                                            /\ StagedEpoch(g, modules, m) = j.epoch
         /\ \A m, n \in Present(modules) :
              StagedEpoch(g, modules, m) = StagedEpoch(g, modules, n) => m = n
<1> DEFINE New == NewEpochs(g, modules)
<1>1. New \in SUBSET Modules
  BY DEF NewEpochs, Present
<1>2. Cursors(g).epoch \in Nat
  BY CursorsAre
<1>3. Cardinality(New) \in Nat
  BY <1>1, Ranks
<1>4. ASSUME NEW m \in Present(modules), m \notin New
      PROVE  \E j \in g.images : j.unit = m /\ j.base = modules[m]
                                 /\ StagedEpoch(g, modules, m) = j.epoch
  BY <1>4, OfUnitIs DEF NewEpochs, Survives, StagedEpoch, ImagesInv
<1>5. \A m \in New : StagedEpoch(g, modules, m) = Cursors(g).epoch + Rank(m, New)
  BY DEF StagedEpoch
<1> HIDE DEF New
<1>6. \A m \in New : /\ StagedEpoch(g, modules, m) \in Nat
                     /\ Cursors(g).epoch <= StagedEpoch(g, modules, m)
                     /\ StagedEpoch(g, modules, m) < Cursors(g).epoch + Cardinality(New)
  BY <1>1, <1>2, <1>3, <1>5, Ranks
<1>7. ASSUME NEW m \in Present(modules), m \notin New
      PROVE  StagedEpoch(g, modules, m) \in Nat /\ StagedEpoch(g, modules, m) < Cursors(g).epoch
  <2>1. PICK j \in g.images : StagedEpoch(g, modules, m) = j.epoch
    BY <1>4, <1>7
  <2> QED
    BY <2>1, CursorsAre, ImageFields DEF ImagesInv
<1>8. ASSUME NEW m \in Present(modules), NEW n \in Present(modules),
             StagedEpoch(g, modules, m) = StagedEpoch(g, modules, n)
      PROVE  m = n
  <2>1. CASE m \in New /\ n \in New
    <3>1. Rank(m, New) \in Nat /\ Rank(n, New) \in Nat
      BY <1>1, <2>1, Ranks
    <3>2. Rank(m, New) = Rank(n, New)
      BY <1>2, <1>5, <1>8, <2>1, <3>1
    <3> QED
      BY <1>1, <2>1, <3>2, Ranks
  <2>2. CASE m \notin New /\ n \notin New
    BY <1>4, <1>8, <2>2 DEF ImagesInv, Distinct
  <2>3. CASE ~(m \in New <=> n \in New)
    BY <1>2, <1>6, <1>7, <1>8, <2>3
  <2> QED
    BY <2>1, <2>2, <2>3
<1>9. NextEpoch(g, modules) = Cursors(g).epoch + Cardinality(New)
  BY DEF NextEpoch, New
<1>10. ASSUME NEW m \in Present(modules)
       PROVE  /\ StagedEpoch(g, modules, m) \in Nat
              /\ StagedEpoch(g, modules, m) < NextEpoch(g, modules)
  BY <1>2, <1>3, <1>6, <1>7, <1>9
<1> QED
  BY <1>2, <1>3, <1>4, <1>6, <1>8, <1>9, <1>10 DEF New

(* Each module that is present has one staged image.                       *)
LEMMA StagedImages ==
  ASSUME NEW g \in GroupType, ImagesInv(g), NEW modules \in ModuleMaps,
         NEW generation \in Nat, NEW epoch \in Nat
  PROVE  /\ \A i \in Staged(g, modules, generation, epoch) :
              /\ i \in ImageType /\ i.unit \in Present(modules) /\ i.base = modules[i.unit]
              /\ i.id = StagedId(g, modules, i.unit) /\ i.epoch = StagedEpoch(g, modules, i.unit)
              /\ i.generation = generation /\ i.group = epoch /\ i.lifecycle = "active"
         /\ \A m \in Present(modules) :
              \E i \in Staged(g, modules, generation, epoch) : i.unit = m
         /\ \A i, j \in Staged(g, modules, generation, epoch) : i.unit = j.unit => i = j
<1> DEFINE Image(m) ==
      [unit |-> m, base |-> modules[m], generation |-> generation, group |-> epoch,
       id |-> StagedId(g, modules, m), epoch |-> StagedEpoch(g, modules, m),
       lifecycle |-> "active", live |-> FALSE]
<1>1. Staged(g, modules, generation, epoch) = {Image(m) : m \in Present(modules)}
  BY DEF Staged, StagedId, StagedEpoch
<1>2. ASSUME NEW m \in Present(modules)
      PROVE  /\ Image(m) \in ImageType /\ Image(m).unit = m /\ Image(m).base = modules[m]
             /\ Image(m).id = StagedId(g, modules, m) /\ Image(m).epoch = StagedEpoch(g, modules, m)
             /\ Image(m).generation = generation /\ Image(m).group = epoch
             /\ Image(m).lifecycle = "active"
  <2>1. m \in Modules /\ modules[m] \in Bases
    BY DEF Present, ModuleMaps
  <2>2. StagedId(g, modules, m) \in Nat /\ StagedEpoch(g, modules, m) \in Nat
    BY StagedIds, StagedEpochs
  <2> QED
    BY <2>1, <2>2 DEF ImageType
<1> HIDE DEF Image
<1> QED
  BY <1>1, <1>2

(* Images S that are staged for a group: what has the epoch of one of its  *)
(* images is the same image, in the same place and no older.               *)
Succeeds(g, S) ==
  /\ S \subseteq ImageType /\ Distinct(S)
  /\ \A i \in S, j \in g.images :
       i.epoch = j.epoch => /\ i.unit = j.unit /\ i.base = j.base /\ i.id = j.id
                            /\ j.generation <= i.generation
  /\ \A i \in S : \/ g.images = {} \/ g.next_epoch <= i.epoch
                  \/ \E j \in g.images : Same(j, i) /\ j.generation <= i.generation

(* The staged images of a refresh succeed those of the group.              *)
LEMMA StagedSucceed ==
  ASSUME NEW g \in GroupType, ImagesInv(g), NEW modules \in ModuleMaps,
         NEW generation \in Nat, NEW epoch \in Nat, g.generation <= generation
  PROVE  Succeeds(g, Staged(g, modules, generation, epoch))
<1> DEFINE S == Staged(g, modules, generation, epoch)
<1>1. \A i \in S : /\ i \in ImageType /\ i.unit \in Present(modules) /\ i.base = modules[i.unit]
                   /\ i.id = StagedId(g, modules, i.unit)
                   /\ i.epoch = StagedEpoch(g, modules, i.unit) /\ i.generation = generation
  BY StagedImages
<1>2. \A i, j \in S : i.unit = j.unit => i = j
  BY StagedImages
<1> HIDE DEF S
<1>3. Distinct(S)
  BY <1>1, <1>2, StagedIds, StagedEpochs DEF Distinct
<1>4. \A j \in g.images : j.generation \in Nat /\ j.generation <= generation
  BY ImageFields DEF ImagesInv
<1>5. ASSUME NEW i \in S
      PROVE  IF i.unit \in NewEpochs(g, modules)
               THEN Cursors(g).epoch <= i.epoch
               ELSE \E j \in g.images : j.unit = i.unit /\ j.base = i.base /\ i.epoch = j.epoch
  BY <1>1, StagedEpochs
<1>6. ASSUME NEW i \in S, NEW j \in g.images, i.unit = j.unit
      PROVE  i.id = j.id
  <2>1. i.unit \notin NewIds(g, modules)
    BY <1>6 DEF NewIds
  <2>2. \E k \in g.images : k.unit = i.unit /\ i.id = k.id
    BY <1>1, <2>1, StagedIds
  <2> QED
    BY <1>6, <2>2 DEF ImagesInv, Distinct
<1>7. ASSUME NEW i \in S, NEW j \in g.images, i.epoch = j.epoch
      PROVE  i.unit = j.unit /\ i.base = j.base
  <2>1. Cursors(g).epoch = g.next_epoch /\ j.epoch < g.next_epoch /\ j.epoch \in Nat
        /\ g.next_epoch \in Nat
    BY CursorsAre, ImageFields DEF ImagesInv
  <2>2. PICK k \in g.images : k.unit = i.unit /\ k.base = i.base /\ i.epoch = k.epoch
    BY <1>5, <1>7, <2>1
  <2> QED
    BY <1>7, <2>2 DEF ImagesInv, Distinct
<1>8. ASSUME NEW i \in S, g.images # {}, ~(g.next_epoch <= i.epoch)
      PROVE  \E j \in g.images : Same(j, i) /\ j.generation <= i.generation
  <2>1. PICK j \in g.images : j.unit = i.unit /\ i.epoch = j.epoch
    BY <1>5, <1>8, CursorsAre
  <2> QED
    BY <1>1, <1>4, <1>6, <2>1 DEF Same
<1>9. S \subseteq ImageType
  BY <1>1
<1>10. \A i \in S, j \in g.images :
         i.epoch = j.epoch => /\ i.unit = j.unit /\ i.base = j.base /\ i.id = j.id
                              /\ j.generation <= i.generation
  BY <1>1, <1>4, <1>6, <1>7
<1> QED
  BY <1>3, <1>8, <1>9, <1>10 DEF Succeeds, S

(* The images that stay succeed those of the group.                        *)
LEMMA PartSucceeds ==
  ASSUME NEW g \in GroupType, ImagesInv(g), NEW S \in SUBSET g.images
  PROVE  Succeeds(g, S)
<1>1. \A i \in g.images : i \in ImageType /\ i.generation <= i.generation
  BY ImageFields
<1> QED
  BY <1>1 DEF Succeeds, ImagesInv, Distinct, Same

(* A bound image is live if the one of the same owner was, in the same     *)
(* place.                                                                  *)
StaysLive(g, i, whole) ==
  ~whole /\ \E j \in g.images : /\ OwnerIdentity(j) = OwnerIdentity(i)
                                /\ j.unit = i.unit /\ j.base = i.base /\ j.live

(* The bound images are the staged ones, active, and live if they were.    *)
LEMMA Bound ==
  ASSUME NEW g, NEW S \in SUBSET ImageType, Distinct(S), NEW whole
  PROVE  /\ \A b \in BoundImages(g, S, whole) : \E i \in S :
              /\ b \in ImageType /\ b.unit = i.unit /\ b.base = i.base /\ b.id = i.id
              /\ b.epoch = i.epoch /\ b.generation = i.generation /\ b.group = i.group
              /\ b.lifecycle = "active"
              /\ b.live <=> StaysLive(g, i, whole)
         /\ \A i \in S : \E b \in BoundImages(g, S, whole) :
              /\ b.unit = i.unit /\ OwnerIdentity(b) = OwnerIdentity(i)
              /\ b.lifecycle = "active"
         /\ \A b, c \in BoundImages(g, S, whole) : b.unit = c.unit => b = c
<1> DEFINE F(i) == [i EXCEPT !.lifecycle = "active", !.live = StaysLive(g, i, whole)]
<1>1. BoundImages(g, S, whole) = {F(i) : i \in S}
  BY DEF BoundImages, StaysLive
<1>2. \A i : StaysLive(g, i, whole) \in BOOLEAN
  BY DEF StaysLive
<1>3. ASSUME NEW i \in S
      PROVE  /\ F(i) \in ImageType /\ F(i).unit = i.unit /\ F(i).base = i.base /\ F(i).id = i.id
             /\ F(i).epoch = i.epoch /\ F(i).generation = i.generation /\ F(i).group = i.group
             /\ F(i).lifecycle = "active" /\ F(i).live = StaysLive(g, i, whole)
  BY <1>2 DEF ImageType
<1>4. \A i \in S : OwnerIdentity(F(i)) = OwnerIdentity(i)
  BY <1>3, OwnersEqual
<1> HIDE DEF F
<1>5. \A b \in BoundImages(g, S, whole) : \E i \in S :
        /\ b \in ImageType /\ b.unit = i.unit /\ b.base = i.base /\ b.id = i.id
        /\ b.epoch = i.epoch /\ b.generation = i.generation /\ b.group = i.group
        /\ b.lifecycle = "active" /\ (b.live <=> StaysLive(g, i, whole))
  BY <1>1, <1>3
<1>6. \A i \in S : \E b \in BoundImages(g, S, whole) :
        b.unit = i.unit /\ OwnerIdentity(b) = OwnerIdentity(i) /\ b.lifecycle = "active"
  BY <1>1, <1>3, <1>4
<1>7. \A b, c \in BoundImages(g, S, whole) : b.unit = c.unit => b = c
  BY <1>1, <1>3 DEF Distinct
<1> QED
  BY <1>5, <1>6, <1>7

(* So they succeed the images of the group as the staged ones do.          *)
LEMMA BoundSucceed ==
  ASSUME NEW g \in GroupType, NEW S, Succeeds(g, S), NEW whole
  PROVE  Succeeds(g, BoundImages(g, S, whole))
<1> DEFINE B == BoundImages(g, S, whole)
<1> S \in SUBSET ImageType /\ Distinct(S)
  BY DEF Succeeds
<1>1. \A b \in B : \E i \in S :
        /\ b \in ImageType /\ b.unit = i.unit /\ b.base = i.base /\ b.id = i.id
        /\ b.epoch = i.epoch /\ b.generation = i.generation
  BY Bound
<1>2. \A b, c \in B : b.unit = c.unit => b = c
  BY Bound
<1> HIDE DEF B
<1>3. Distinct(B)
  BY <1>1, <1>2 DEF Distinct, Succeeds
<1>4. \A b \in B, j \in g.images :
        b.epoch = j.epoch => /\ b.unit = j.unit /\ b.base = j.base /\ b.id = j.id
                             /\ j.generation <= b.generation
  BY <1>1 DEF Succeeds
<1>5. \A b \in B : \/ g.images = {} \/ g.next_epoch <= b.epoch
                   \/ \E j \in g.images : Same(j, b) /\ j.generation <= b.generation
  BY <1>1 DEF Succeeds, Same
<1> QED
  BY <1>1, <1>3, <1>4, <1>5 DEF Succeeds, B

(* What remains of the index speaks of the images that are published.      *)
LEMMA IndexKept ==
  ASSUME NEW g, GroupOK(g), NEW S, Succeeds(g, S), NEW whole,
         ~whole => \A i \in S : i.group = g.epoch
  PROVE  LET X == KeptIndex(g, S, whole)
             B == BoundImages(g, S, whole)
         IN  /\ X \subseteq g.index
             /\ \A o \in X : \E b \in B : Same(o, b)
             /\ \A o \in X, b \in B :
                  Same(o, b) => o.group = b.group /\ o.generation <= b.generation
             /\ X # {} => \A b \in B : b.live <=> Indexed(X, b)
<1> DEFINE X == KeptIndex(g, S, whole)
           B == BoundImages(g, S, whole)
           A == Affected(g, S, whole)
<1> USE DEF GroupOK
<1>1. /\ X \subseteq g.index
      /\ X # {} => /\ ~whole /\ X = g.index \ Owners(A)
                   /\ A = {} \/ X \subseteq Owners(S)
  BY DEF KeptIndex
<1>2. ~whole => A = {i \in g.images : OwnerIdentity(i) \notin Owners(S)}
  BY DEF Affected
<1> HIDE DEF X, A
<1>3. ASSUME X # {}, NEW o \in X, NEW i \in S, Same(o, i)
      PROVE  \E j \in g.images : /\ OwnerIdentity(j) = OwnerIdentity(i) /\ Same(o, j)
                                 /\ j.unit = i.unit /\ j.base = i.base /\ j.live
  <2>1. PICK j \in g.images : Same(o, j)
    BY <1>1, <1>3 DEF IndexInv
  <2>2. j.live
    BY <1>1, <1>3, <2>1 DEF IndexInv, Indexed
  <2>3. j.unit = i.unit /\ j.base = i.base /\ j.id = i.id /\ j.epoch = i.epoch
        /\ j.generation <= i.generation
    BY <1>3, <2>1 DEF Succeeds, Same
  <2>4. CASE OwnerIdentity(j) \in Owners(S)
    <3>1. PICK k \in S : OwnerIdentity(k) = OwnerIdentity(j)
      BY <2>4 DEF Owners
    <3>2. k = i
      BY <2>3, <3>1, OwnerFields DEF Succeeds, Distinct
    <3> QED
      BY <2>1, <2>2, <2>3, <3>1, <3>2
  <2>5. CASE OwnerIdentity(j) \notin Owners(S)
    <3>1. A # {} /\ o \in Owners(S)
      BY <1>1, <1>2, <1>3, <2>5
    <3>2. PICK k \in S : OwnerIdentity(k) = o
      BY <3>1 DEF Owners
    <3>3. k = i
      BY <1>3, <3>2, OwnerFields DEF Succeeds, Distinct, Same
    <3>4. o.generation = i.generation /\ o.group = i.group /\ o.generation <= j.generation
          /\ o.group = j.group
      BY <1>1, <1>3, <2>1, <3>2, <3>3, OwnerFields DEF IndexInv
    <3>5. i.generation \in Nat /\ j.generation \in Nat
      BY ImageFields DEF Succeeds, ImageType
    <3>6. j.generation = i.generation
      BY <2>3, <3>4, <3>5
    <3>7. OwnerIdentity(j) = OwnerIdentity(i)
      BY <2>3, <3>4, <3>6, OwnersEqual
    <3> QED
      BY <2>5, <3>7 DEF Owners
  <2> QED
    BY <2>4, <2>5
<1>4. ASSUME X # {}, NEW i \in S, NEW j \in g.images, OwnerIdentity(j) = OwnerIdentity(i), j.live
      PROVE  Indexed(X, i)
  <2>1. PICK o \in g.index : Same(o, j)
    BY <1>1, <1>4 DEF IndexInv, Indexed
  <2>2. OwnerIdentity(j) \in Owners(S)
    BY <1>4 DEF Owners
  <2>3. ASSUME o \in Owners(A) PROVE FALSE
    <3>1. PICK k \in A : o = OwnerIdentity(k)
      BY <2>3 DEF Owners
    <3>2. k \in g.images /\ k.epoch = j.epoch /\ OwnerIdentity(k) \notin Owners(S)
      BY <1>1, <1>2, <1>4, <2>1, <3>1, OwnerFields DEF Same
    <3> QED
      BY <2>2, <3>2 DEF ImagesInv, Distinct
  <2>4. Same(o, i)
    BY <1>4, <2>1, OwnerFields DEF Same
  <2> QED
    BY <1>1, <1>4, <2>1, <2>3, <2>4 DEF Indexed
<1>5. ASSUME X # {}, NEW o \in X
      PROVE  \E i \in S : Same(o, i)
  <2>1. PICK j \in g.images : Same(o, j)
    BY <1>1 DEF IndexInv
  <2>2. CASE A = {}
    <3>1. OwnerIdentity(j) \in Owners(S)
      BY <1>1, <1>2, <1>5, <2>2
    <3>2. PICK i \in S : OwnerIdentity(i) = OwnerIdentity(j)
      BY <3>1 DEF Owners
    <3> QED
      BY <2>1, <3>2, OwnerFields DEF Same
  <2>3. CASE X \subseteq Owners(S)
    <3>1. PICK i \in S : o = OwnerIdentity(i)
      BY <2>3 DEF Owners
    <3> QED
      BY <3>1, OwnerFields DEF Same
  <2> QED
    BY <1>1, <1>5, <2>2, <2>3
<1>6. S \in SUBSET ImageType /\ Distinct(S)
  BY DEF Succeeds
<1>7. \A i \in S : \E b \in B : OwnerIdentity(b) = OwnerIdentity(i)
  BY <1>6, Bound
<1>8. \A b \in B : \E i \in S :
        /\ b.unit = i.unit /\ b.base = i.base /\ b.id = i.id /\ b.epoch = i.epoch
        /\ b.generation = i.generation /\ b.group = i.group
        /\ b.live <=> StaysLive(g, i, whole)
  BY <1>6, Bound
<1> HIDE DEF B
<1>9. ASSUME NEW o \in X PROVE \E b \in B : Same(o, b)
  <2>1. PICK i \in S : Same(o, i)
    BY <1>5
  <2>2. PICK b \in B : OwnerIdentity(b) = OwnerIdentity(i)
    BY <1>7
  <2> QED
    BY <2>1, <2>2, OwnerFields DEF Same
<1>10. ASSUME NEW o \in X, NEW b \in B, Same(o, b)
       PROVE  o.group = b.group /\ o.generation <= b.generation
  <2>1. PICK i \in S : /\ b.id = i.id /\ b.epoch = i.epoch /\ b.generation = i.generation
                       /\ b.group = i.group
    BY <1>8
  <2>2. PICK j \in g.images : OwnerIdentity(j) = OwnerIdentity(i) /\ Same(o, j)
    BY <1>3, <1>10, <2>1 DEF Same
  <2>3. j.group = b.group /\ j.generation = b.generation
    BY <2>1, <2>2, OwnerFields
  <2> QED
    BY <1>1, <2>2, <2>3 DEF IndexInv
<1>11. ASSUME X # {}, NEW b \in B
       PROVE  b.live <=> Indexed(X, b)
  <2>1. PICK i \in S :
        /\ b.unit = i.unit /\ b.base = i.base /\ b.id = i.id /\ b.epoch = i.epoch
        /\ b.live <=> StaysLive(g, i, whole)
    BY <1>8
  <2>2. Indexed(X, b) <=> Indexed(X, i)
    BY <2>1 DEF Indexed, Same
  <2>3. b.live => Indexed(X, i)
    BY <1>4, <1>11, <2>1 DEF StaysLive
  <2>4. Indexed(X, i) => b.live
    BY <1>1, <1>3, <1>11, <2>1 DEF Indexed, StaysLive
  <2> QED
    BY <2>2, <2>3, <2>4
<1> QED
  BY <1>1, <1>9, <1>10, <1>11 DEF X, B

-----------------------------------------------------------------------------
(* The groups that a step can publish                                      *)

(* What the fields of a group are.                                         *)
LEMMA GroupFields ==
  ASSUME NEW g \in GroupType
  PROVE  /\ g.token \in Nat /\ g.retired \in BOOLEAN /\ g.generation \in Nat /\ g.epoch \in Nat
         /\ g.app \in Bases \cup {None} /\ g.images \subseteq ImageType /\ g.next_id \in Nat
         /\ g.next_epoch \in Nat /\ g.context \in Contexts \cup {None}
         /\ g.index \subseteq OwnerType /\ g.matched \in BOOLEAN
         /\ g.state \in {"created", "images_ready", "ready", "failed"}
BY DEF GroupType

(* An owner of the old group, in the same or a later generation, makes a   *)
(* group follow another of the same epoch.                                 *)
LEMMA SameEpochFollows ==
  ASSUME NEW g, NEW h, NEW next, NEW gone, GroupOK(g), GroupOK(h), HistoryInv(g, next, gone),
         h.epoch = g.epoch, g.next_epoch <= h.next_epoch,
         \A i \in h.images : \E j \in g.images : Same(j, i) /\ j.generation <= i.generation
  PROVE  Follows(g, h, next, next)
BY DEF GroupOK, HistoryInv, Follows, GroupType

(* A new group                                                             *)
LEMMA NewGroupOK ==
  ASSUME NEW token \in Nat
  PROVE  LET n == NewGroup(token)
         IN  /\ GroupOK(n) /\ n.images = {} /\ n.epoch = 0 /\ ~n.retired /\ n.app = None
             /\ n.generation = 1 /\ n.token = token /\ n.index = {} /\ n.context = None
<1> DEFINE n == NewGroup(token)
<1>1. /\ n \in GroupType /\ n.images = {} /\ n.epoch = 0 /\ ~n.retired /\ n.app = None
      /\ n.generation = 1 /\ n.token = token /\ n.index = {} /\ n.context = None
      /\ n.state = "created"
  BY DEF NewGroup, GroupType
<1> HIDE DEF n
<1>2. ImagesInv(n) /\ IndexInv(n)
  BY <1>1 DEF ImagesInv, IndexInv, Distinct
<1> QED
  BY <1>1, <1>2 DEF GroupOK, n

(* A group whose refresh has failed                                        *)
LEMMA FailedOK ==
  ASSUME NEW g, GroupOK(g)
  PROVE  LET f == [g EXCEPT !.state = "failed"]
         IN  /\ GroupOK(f) /\ f.images = g.images /\ f.epoch = g.epoch
             /\ f.next_epoch = g.next_epoch /\ f.token = g.token /\ f.app = g.app
             /\ f.retired = g.retired /\ f.generation = g.generation
<1> DEFINE f == [g EXCEPT !.state = "failed"]
<1>1. /\ f \in GroupType /\ f.images = g.images /\ f.epoch = g.epoch /\ f.next_epoch = g.next_epoch
      /\ f.next_id = g.next_id /\ f.token = g.token /\ f.app = g.app /\ f.retired = g.retired
      /\ f.generation = g.generation /\ f.index = g.index /\ f.context = g.context
      /\ f.state = "failed"
  BY DEF GroupOK, GroupType
<1> HIDE DEF f
<1>2. ImagesInv(f) /\ IndexInv(f)
  BY <1>1 DEF GroupOK, ImagesInv, IndexInv
<1> QED
  BY <1>1, <1>2 DEF GroupOK, f

(* A group of a later generation                                           *)
LEMMA LaterOK ==
  ASSUME NEW g, GroupOK(g), NEW n \in Nat, g.generation <= n
  PROVE  LET f == [g EXCEPT !.generation = n]
         IN  /\ GroupOK(f) /\ f.images = g.images /\ f.epoch = g.epoch
             /\ f.next_epoch = g.next_epoch /\ f.token = g.token /\ f.app = g.app
             /\ f.retired = g.retired /\ f.generation = n
<1> DEFINE f == [g EXCEPT !.generation = n]
<1>1. /\ f \in GroupType /\ f.images = g.images /\ f.epoch = g.epoch /\ f.next_epoch = g.next_epoch
      /\ f.next_id = g.next_id /\ f.token = g.token /\ f.app = g.app /\ f.retired = g.retired
      /\ f.generation = n /\ f.index = g.index /\ f.context = g.context
      /\ f.state = g.state
  BY DEF GroupOK, GroupType
<1> HIDE DEF f
<1>2. \A i \in f.images : i.generation <= f.generation
  BY <1>1, ImageFields DEF GroupOK, ImagesInv
<1>3. ImagesInv(f) /\ IndexInv(f)
  BY <1>1, <1>2 DEF GroupOK, ImagesInv, IndexInv
<1> QED
  BY <1>1, <1>3 DEF GroupOK, f

(* A group that could not be drained                                       *)
LEMMA DrainingOK ==
  ASSUME NEW g, GroupOK(g), NEW S, NEW whole
  PROVE  LET d == DrainingGroup(g, S, whole)
         IN  /\ GroupOK(d) /\ d.epoch = g.epoch /\ d.next_epoch = g.next_epoch
             /\ d.token = g.token /\ d.app = g.app /\ d.retired = g.retired
             /\ d.generation = g.generation
             /\ \A i \in d.images : \E j \in g.images : OwnerIdentity(i) = OwnerIdentity(j)
             /\ \A j \in g.images : j \in Affected(g, S, whole) \/ j \in d.images
<1> DEFINE d == DrainingGroup(g, S, whole)
           F(i) == IF i \in Affected(g, S, whole) THEN [i EXCEPT !.lifecycle = "draining"] ELSE i
<1>1. d = [g EXCEPT !.images = {F(i) : i \in g.images}, !.state = "failed"]
  BY DEF DrainingGroup
<1>2. ASSUME NEW i \in g.images
      PROVE  /\ F(i) \in ImageType /\ F(i).unit = i.unit /\ F(i).base = i.base /\ F(i).id = i.id
             /\ F(i).epoch = i.epoch /\ F(i).generation = i.generation /\ F(i).group = i.group
             /\ F(i).live = i.live /\ (i \notin Affected(g, S, whole) => F(i) = i)
  BY ImageFields DEF ImageType, GroupOK
<1>3. \A i \in g.images : OwnerIdentity(F(i)) = OwnerIdentity(i)
  BY <1>2, OwnersEqual
<1> HIDE DEF F
<1>4. {F(i) : i \in g.images} \in SUBSET ImageType
  BY <1>2
<1>5. /\ d \in GroupType /\ d.images = {F(i) : i \in g.images} /\ d.epoch = g.epoch
      /\ d.next_epoch = g.next_epoch /\ d.next_id = g.next_id /\ d.token = g.token
      /\ d.app = g.app /\ d.retired = g.retired /\ d.generation = g.generation
      /\ d.index = g.index /\ d.context = g.context /\ d.state = "failed"
  BY <1>1, <1>4 DEF GroupOK, GroupType
<1> HIDE DEF d
<1>6. ImagesInv(d)
  BY <1>2, <1>5 DEF GroupOK, ImagesInv, Distinct
<1>7. \A o, i : i \in g.images => (Same(o, F(i)) <=> Same(o, i))
  BY <1>2 DEF Same
<1>8. \A i \in g.images : Indexed(d.index, F(i)) <=> Indexed(g.index, i)
  BY <1>5, <1>7 DEF Indexed
<1>9. IndexInv(d)
  BY <1>2, <1>5, <1>7, <1>8 DEF GroupOK, IndexInv
<1>10. /\ \A i \in d.images : \E j \in g.images : OwnerIdentity(i) = OwnerIdentity(j)
       /\ \A j \in g.images : j \in Affected(g, S, whole) \/ j \in d.images
  BY <1>2, <1>3, <1>5
<1> QED
  BY <1>5, <1>6, <1>9, <1>10 DEF GroupOK, d

(* It follows the one that was to be drained.                              *)
LEMMA DrainingFollows ==
  ASSUME NEW g, NEW h, NEW next, NEW gone, GroupOK(g), GroupOK(h), HistoryInv(g, next, gone),
         h.epoch = g.epoch, h.next_epoch = g.next_epoch,
         \A i \in h.images : \E j \in g.images : OwnerIdentity(i) = OwnerIdentity(j)
  PROVE  Follows(g, h, next, next)
<1>1. \A i, j : j \in g.images /\ OwnerIdentity(i) = OwnerIdentity(j)
                => Same(j, i) /\ j.generation <= i.generation
  BY ImageFields, OwnerFields DEF Same, GroupOK
<1>2. g.next_epoch \in Nat
  BY GroupFields DEF GroupOK
<1> QED
  BY <1>1, <1>2, SameEpochFollows

(* A retired group                                                         *)
LEMMA RetiredOK ==
  ASSUME NEW g, GroupOK(g)
  PROVE  GroupOK(RetiredGroup(g)) /\ RetiredGroup(g).images = {} /\ RetiredGroup(g).epoch = g.epoch
<1> DEFINE r == RetiredGroup(g)
<1>1. NextGeneration(g) \in GroupType /\ NextGeneration(g).epoch = g.epoch
  BY DEF NextGeneration, GroupOK, GroupType
<1>2. /\ r \in GroupType /\ r.images = {} /\ r.epoch = g.epoch /\ r.retired /\ r.index = {}
      /\ r.state = "created"
  BY <1>1 DEF RetiredGroup, GroupType
<1> HIDE DEF r
<1>3. ImagesInv(r) /\ IndexInv(r)
  BY <1>2 DEF ImagesInv, IndexInv, Distinct
<1> QED
  BY <1>2, <1>3 DEF GroupOK, r

(* A group one of whose deferred units is unloaded                         *)
Staying(g, m) == {i \in g.images : i.unit # m}

Unloaded(g, m) == [PublishedGroup(g, Staying(g, m), FALSE) EXCEPT !.state = "images_ready"]

(* Its images are some of those there were, and what is left of the index. *)
LEMMA UnloadedOK ==
  ASSUME NEW g, GroupOK(g), NEW m \in Units, NEW k \in g.images, k.unit = m
  PROVE  LET h == Unloaded(g, m)
         IN  /\ GroupOK(h) /\ h.images = BoundImages(g, Staying(g, m), FALSE)
             /\ h.epoch = g.epoch /\ h.next_epoch = g.next_epoch /\ h.token = g.token
             /\ h.generation = g.generation /\ h.app = g.app /\ h.retired = g.retired
             /\ \A i \in h.images : \E j \in g.images : OwnerIdentity(i) = OwnerIdentity(j)
<1> DEFINE h == Unloaded(g, m)
           S == Staying(g, m)
           whole == FALSE
           B == BoundImages(g, S, whole)
           X == KeptIndex(g, S, whole)
<1> USE DEF GroupOK
<1>1. S \in SUBSET g.images /\ \A i \in g.images : i.unit # m => i \in S
  BY DEF Staying
<1> HIDE DEF S, whole
<1>2. Succeeds(g, S)
  BY <1>1, PartSucceeds
<1>3. \A i \in S : i.group = g.epoch
  BY <1>1 DEF ImagesInv
<1>4. /\ X \subseteq g.index
      /\ \A o \in X : \E b \in B : Same(o, b)
      /\ \A o \in X, b \in B : Same(o, b) => o.group = b.group /\ o.generation <= b.generation
      /\ X # {} => \A b \in B : b.live <=> Indexed(X, b)
  BY <1>2, <1>3, IndexKept
<1>5. Succeeds(g, B)
  BY <1>2, BoundSucceed
<1>6. S \in SUBSET ImageType /\ Distinct(S)
  BY <1>2 DEF Succeeds
<1>7. \A b \in B : \E i \in S :
        /\ b.id = i.id /\ b.epoch = i.epoch /\ b.generation = i.generation /\ b.group = i.group
  BY <1>6, Bound
<1>8. \A i \in S : \E b \in B : b.unit = i.unit
  BY <1>6, Bound
<1> HIDE DEF X, B
<1>9. X \in SUBSET OwnerType /\ B \in SUBSET ImageType
  BY <1>4, <1>5, GroupFields DEF Succeeds
<1>10. /\ h \in GroupType /\ h.images = B /\ h.index = X /\ h.state = "images_ready"
       /\ h.token = g.token /\ h.retired = g.retired /\ h.generation = g.generation
       /\ h.epoch = g.epoch /\ h.app = g.app /\ h.next_id = g.next_id
       /\ h.next_epoch = g.next_epoch /\ h.context = g.context
  <2>1. h = [g EXCEPT !.images = B, !.index = X, !.state = "images_ready"]
    BY DEF Unloaded, PublishedGroup, B, X, S, whole, GroupType
  <2> QED
    BY <1>9, <2>1, ZenonT(30) DEF GroupType
<1> HIDE DEF h
<1>11. m # Root
  BY OperationsAssumption DEF Root
<1>12. \E b \in B : b.unit = Root
  BY <1>1, <1>8, <1>11 DEF ImagesInv
<1>13. \A b \in B : /\ b.id < g.next_id /\ b.epoch < g.next_epoch
                    /\ b.group = g.epoch /\ b.generation <= g.generation
  BY <1>1, <1>7 DEF ImagesInv
<1>14. ImagesInv(h)
  BY <1>5, <1>10, <1>12, <1>13 DEF ImagesInv, Succeeds
<1>15. IndexInv(h)
  BY <1>4, <1>10 DEF IndexInv
<1>16. \A b \in B : \E j \in g.images : OwnerIdentity(b) = OwnerIdentity(j)
  BY <1>1, <1>7, OwnersEqual
<1> QED
  BY <1>10, <1>14, <1>15, <1>16 DEF h, B, S, whole

(* Does TransitionRuntimeImages build a new image set?                     *)
Moves(g, modules) == Changed(g, modules) \/ ~SameIdentity(g.images, modules) \/ g.images = {}

(* The fields of a group whose images have been transitioned               *)
LEMMA MovedFields ==
  ASSUME NEW g, GroupOK(g), NEW modules \in ModuleMaps, process.next_epoch \in Nat
  PROVE  LET M == Moved(g, modules)
             S == RefreshedImages(g, modules)
             c == Changed(g, modules)
         IN  /\ M \in GroupType /\ M.token = g.token /\ M.retired = g.retired
             /\ M.epoch = g.epoch /\ M.app = g.app /\ M.state = g.state
             /\ M.context = g.context /\ M.generation = g.generation
             /\ ~Moves(g, modules) => M = g
             /\ Moves(g, modules) =>
                  /\ M.images = BoundImages(g, S, c) /\ M.index = KeptIndex(g, S, c)
                  /\ M.next_id = NextId(g, modules) /\ M.next_epoch = NextEpoch(g, modules)
<1> DEFINE M == Moved(g, modules)
           S == RefreshedImages(g, modules)
           c == Changed(g, modules)
           B == BoundImages(g, S, c)
           X == KeptIndex(g, S, c)
           I == NextId(g, modules)
           E == NextEpoch(g, modules)
<1> USE DEF GroupOK
<1>1. g.generation \in Nat /\ RefreshedGeneration(g, modules) \in Nat
      /\ g.generation <= RefreshedGeneration(g, modules) /\ g.epoch \in Nat
  BY GroupFields DEF RefreshedGeneration
<1>2. Succeeds(g, S)
  BY <1>1, StagedSucceed DEF RefreshedImages
<1>3. B \in SUBSET ImageType
  BY <1>2, BoundSucceed DEF Succeeds
<1>4. X \in SUBSET OwnerType
  BY GroupFields DEF KeptIndex
<1>5. I \in Nat /\ E \in Nat
  BY StagedIds, StagedEpochs
<1>6. CASE Moves(g, modules)
  <2>1. M = [PublishedGroup(g, S, c) EXCEPT !.next_id = I, !.next_epoch = E]
    BY <1>6 DEF Moved, Moves, NextId, NextEpoch
  <2> HIDE DEF I, E, M
  <2>2. PublishedGroup(g, S, c) = [g EXCEPT !.images = B, !.index = X]
    BY DEF PublishedGroup
  <2> HIDE DEF B, X, S, c
  <2>3. M = [g EXCEPT !.images = B, !.index = X, !.next_id = I, !.next_epoch = E]
    BY <2>1, <2>2 DEF GroupType
  <2>4. /\ M \in GroupType /\ M.token = g.token /\ M.retired = g.retired
        /\ M.epoch = g.epoch /\ M.app = g.app /\ M.state = g.state
        /\ M.context = g.context /\ M.generation = g.generation
        /\ M.images = B /\ M.index = X /\ M.next_id = I /\ M.next_epoch = E
    BY <1>3, <1>4, <1>5, <2>3 DEF GroupType
  <2> QED
    BY <1>6, <2>4 DEF B, X, S, c, I, E, M
<1>7. CASE ~Moves(g, modules)
  BY <1>7 DEF Moved, Moves
<1> QED
  BY <1>6, <1>7

(* The fields of a refreshed group                                         *)
LEMMA RefreshedFields ==
  ASSUME NEW g, GroupOK(g), NEW modules \in ModuleMaps, process.next_epoch \in Nat
  PROVE  LET R == Refreshed(g, modules)
             M == Moved(g, modules)
             c == Changed(g, modules)
         IN  /\ R \in GroupType /\ R.token = g.token /\ R.images = M.images
             /\ R.index = M.index /\ R.next_id = M.next_id /\ R.next_epoch = M.next_epoch
             /\ R.generation = RefreshedGeneration(g, modules)
             /\ R.context = IF c THEN None ELSE g.context
             /\ modules[Root] = None =>
                  /\ R.retired /\ R.epoch = g.epoch /\ R.state = "created" /\ R.app = g.app
             /\ modules[Root] # None =>
                  /\ R.retired = g.retired /\ R.app = modules[Root]
                  /\ R.epoch = IF c THEN process.next_epoch ELSE g.epoch
                  /\ R.state = "ready" => /\ ~c /\ SameIdentity(g.images, modules)
                                          /\ g.state = "ready"
<1> DEFINE R == Refreshed(g, modules)
           M == Moved(g, modules)
           c == Changed(g, modules)
           n == RefreshedGeneration(g, modules)
           x == IF c THEN None ELSE g.context
           e == IF c THEN process.next_epoch ELSE g.epoch
           N == [M EXCEPT !.generation = n, !.context = x]
<1>1. M \in GroupType /\ M.token = g.token /\ M.retired = g.retired /\ M.epoch = g.epoch
      /\ M.app = g.app /\ M.state = g.state /\ M.context = g.context
  BY MovedFields
<1>2. n \in Nat /\ x \in Contexts \cup {None} /\ e \in Nat
  BY GroupFields DEF RefreshedGeneration, GroupOK
<1>3. modules[Root] \in Bases \cup {None}
  BY ModulesFinite DEF ModuleMaps
<1> DEFINE s == IF c \/ ~SameIdentity(g.images, modules) \/ M.state # "ready"
                  THEN "images_ready" ELSE M.state
<1>4. R = IF modules[Root] = None
            THEN [N EXCEPT !.retired = TRUE, !.state = "created", !.matched = FALSE]
            ELSE [N EXCEPT !.epoch = e, !.app = modules[Root], !.matched = TRUE, !.state = s]
  <2>1. N = [M EXCEPT !.generation = n, !.context = IF c THEN None ELSE @]
    BY <1>1
  <2>2. N.epoch = M.epoch /\ N.state = M.state
    BY <1>1 DEF GroupType
  <2> QED
    BY <1>1, <2>1, <2>2 DEF Refreshed, GroupType
<1>5. /\ s \in {"created", "images_ready", "ready", "failed"}
      /\ s = "ready" => ~c /\ SameIdentity(g.images, modules) /\ g.state = "ready"
  BY <1>1, GroupFields
<1> HIDE DEF R, M, c, n, x, e, s
<1>6. /\ N \in GroupType /\ N.token = M.token /\ N.retired = M.retired /\ N.epoch = M.epoch
      /\ N.app = M.app /\ N.images = M.images /\ N.index = M.index
      /\ N.next_id = M.next_id /\ N.next_epoch = M.next_epoch
      /\ N.generation = n /\ N.context = x
  BY <1>1, <1>2 DEF GroupType
<1> HIDE DEF N
<1>7. CASE modules[Root] = None
  <2>1. R = [N EXCEPT !.retired = TRUE, !.state = "created", !.matched = FALSE]
    BY <1>4, <1>7
  <2>2. /\ R \in GroupType /\ R.token = N.token /\ R.images = N.images /\ R.index = N.index
        /\ R.next_id = N.next_id /\ R.next_epoch = N.next_epoch /\ R.generation = N.generation
        /\ R.context = N.context /\ R.retired /\ R.epoch = N.epoch /\ R.state = "created"
        /\ R.app = N.app
    BY <1>6, <2>1 DEF GroupType
  <2> QED
    BY <1>1, <1>6, <1>7, <2>2 DEF R, M, c, n, x
<1>8. CASE modules[Root] # None
  <2>1. R = [N EXCEPT !.epoch = e, !.app = modules[Root], !.matched = TRUE, !.state = s]
    BY <1>4, <1>8
  <2>2. /\ R \in GroupType /\ R.token = N.token /\ R.images = N.images /\ R.index = N.index
        /\ R.next_id = N.next_id /\ R.next_epoch = N.next_epoch /\ R.generation = N.generation
        /\ R.context = N.context /\ R.retired = N.retired /\ R.epoch = e /\ R.state = s
        /\ R.app = modules[Root]
    BY <1>2, <1>3, <1>5, <1>6, <2>1 DEF GroupType
  <2> QED
    BY <1>1, <1>5, <1>6, <1>8, <2>2 DEF R, M, c, n, x, e
<1> QED
  BY <1>7, <1>8

(* A refreshed group: retired without an app, with its images otherwise,   *)
(* and of a fresh epoch if what the epoch stands for has changed.          *)
LEMMA RefreshedOK ==
  ASSUME NEW g, GroupOK(g), ~g.retired, NEW modules \in ModuleMaps,
         process.next_epoch \in Nat, g.epoch < process.next_epoch
  PROVE  LET R == Refreshed(g, modules)
             c == Changed(g, modules)
         IN  /\ GroupOK(R) /\ R.token = g.token
             /\ R.generation = RefreshedGeneration(g, modules)
             /\ R.retired \/ R.app = None => modules[Root] = None
             /\ modules[Root] = None => R.images = {} /\ R.epoch = g.epoch
             /\ modules[Root] # None => R.epoch = IF c THEN process.next_epoch ELSE g.epoch
             /\ Moves(g, modules) => R.images = BoundImages(g, RefreshedImages(g, modules), c)
             /\ ~Moves(g, modules) => R.images = g.images
             /\ g.images # {} => g.next_epoch <= R.next_epoch
<1> DEFINE R == Refreshed(g, modules)
           S == RefreshedImages(g, modules)
           n == RefreshedGeneration(g, modules)
           whole == Changed(g, modules)
           B == BoundImages(g, S, whole)
           X == KeptIndex(g, S, whole)
<1> USE DEF GroupOK
<1>1. /\ g.generation \in Nat /\ n \in Nat /\ g.generation <= n /\ g.epoch \in Nat
      /\ ~whole => n = g.generation
  BY GroupFields DEF RefreshedGeneration
<1>2. /\ R \in GroupType /\ R.token = g.token /\ R.generation = n
      /\ R.context = IF whole THEN None ELSE g.context
      /\ modules[Root] = None =>
           /\ R.retired /\ R.epoch = g.epoch /\ R.state = "created" /\ R.app = g.app
      /\ modules[Root] # None =>
           /\ R.retired = g.retired /\ R.app = modules[Root]
           /\ R.epoch = IF whole THEN process.next_epoch ELSE g.epoch
           /\ R.state = "ready" => ~whole /\ SameIdentity(g.images, modules) /\ g.state = "ready"
  BY RefreshedFields
<1>3. ~Moves(g, modules) =>
        /\ R.images = g.images /\ R.index = g.index /\ R.next_id = g.next_id
        /\ R.next_epoch = g.next_epoch
  BY MovedFields, RefreshedFields
<1>4. Moves(g, modules) =>
        /\ R.images = B /\ R.index = X /\ R.next_id = NextId(g, modules)
        /\ R.next_epoch = NextEpoch(g, modules)
  BY MovedFields, RefreshedFields
<1>5. ~whole => modules[Root] = g.app
  BY DEF Changed
<1>6. Succeeds(g, S)
  BY <1>1, StagedSucceed DEF RefreshedImages
<1>7. \A i \in S : /\ i.unit \in Present(modules) /\ i.id = StagedId(g, modules, i.unit)
                   /\ i.epoch = StagedEpoch(g, modules, i.unit) /\ i.generation = n
                   /\ i.group = IF whole THEN process.next_epoch ELSE g.epoch
  <2> DEFINE e == IF whole THEN process.next_epoch ELSE g.epoch
  <2>1. e \in Nat /\ S = Staged(g, modules, n, e)
    BY <1>1 DEF RefreshedImages
  <2> HIDE DEF e, n, S, whole
  <2>2. \A i \in S : /\ i.unit \in Present(modules) /\ i.id = StagedId(g, modules, i.unit)
                     /\ i.epoch = StagedEpoch(g, modules, i.unit) /\ i.generation = n
                     /\ i.group = e
    BY <1>1, <2>1, StagedImages
  <2> QED
    BY <2>2 DEF e
<1>8. modules[Root] = None => S = {}
  BY <1>7 DEF Present
<1>9. modules[Root] # None => \E i \in S : i.unit = Root
  <2>1. modules[Root] # None => Root \in Present(modules)
    BY ModulesFinite DEF Present
  <2> QED
    BY <1>1, <2>1, StagedImages DEF RefreshedImages
<1> HIDE DEF S, n, whole
<1>10. ~whole => \A i \in S : i.group = g.epoch
  BY <1>7
<1>11. /\ X \subseteq g.index
       /\ \A o \in X : \E b \in B : Same(o, b)
       /\ \A o \in X, b \in B : Same(o, b) => o.group = b.group /\ o.generation <= b.generation
       /\ X # {} => \A b \in B : b.live <=> Indexed(X, b)
  BY <1>6, <1>10, IndexKept
<1>12. Succeeds(g, B)
  BY <1>6, BoundSucceed
<1>13. S \in SUBSET ImageType /\ Distinct(S)
  BY <1>6 DEF Succeeds
<1>14. \A b \in B : \E i \in S :
         /\ b.unit = i.unit /\ b.id = i.id /\ b.epoch = i.epoch
         /\ b.generation = i.generation /\ b.group = i.group
  BY <1>13, Bound
<1>15. \A i \in S : \E b \in B : b.unit = i.unit
  BY <1>13, Bound
<1> HIDE DEF X, B, R
<1>16. modules[Root] = None => B = {}
  BY <1>8, <1>14
<1>17. Distinct(R.images)
  BY <1>3, <1>4, <1>12 DEF ImagesInv, Succeeds
<1>18. ASSUME NEW i \in R.images
       PROVE  /\ i.id < R.next_id /\ i.epoch < R.next_epoch
              /\ i.group = R.epoch /\ i.generation <= R.generation
  <2>1. CASE Moves(g, modules)
    <3>1. PICK j \in S : i.unit = j.unit /\ i.id = j.id /\ i.epoch = j.epoch
                         /\ i.generation = j.generation /\ i.group = j.group
      BY <1>4, <1>14, <2>1
    <3>2. modules[Root] # None
      BY <1>8
    <3> QED
      BY <1>1, <1>2, <1>4, <1>7, <2>1, <3>1, <3>2, StagedIds, StagedEpochs
  <2>2. CASE ~Moves(g, modules)
    <3>1. i \in g.images /\ g.app # None
      BY <1>3, <2>2 DEF ImagesInv
    <3>2. modules[Root] # None /\ ~whole
      BY <1>5, <2>2, <3>1 DEF Moves, whole
    <3> QED
      BY <1>1, <1>2, <1>3, <2>2, <3>1, <3>2 DEF ImagesInv
  <2> QED
    BY <2>1, <2>2
<1>19. ~Moves(g, modules) => modules[Root] # None
  BY <1>5 DEF Moves, whole, ImagesInv
<1>20. R.images # {} => ~R.retired /\ R.app # None /\ \E i \in R.images : i.unit = Root
  <2>1. R.images # {} => modules[Root] # None
    BY <1>4, <1>16, <1>19
  <2>2. modules[Root] # None => \E i \in R.images : i.unit = Root
    BY <1>3, <1>4, <1>9, <1>15 DEF ImagesInv, Moves
  <2> QED
    BY <1>2, <2>1, <2>2
<1>21. R.images = {} => R.retired \/ (R.app = None /\ R.context = None)
  <2>1. CASE modules[Root] = None
    BY <1>2, <2>1
  <2>2. CASE modules[Root] # None
    BY <1>3, <1>4, <1>9, <1>15, <2>2 DEF Moves
  <2> QED
    BY <2>1, <2>2
<1>22. ImagesInv(R)
  BY <1>17, <1>18, <1>20, <1>21 DEF ImagesInv
<1>23. IndexInv(R)
  <2>1. CASE Moves(g, modules)
    <3>1. R.state # "ready"
      BY <1>2, <2>1 DEF Moves, IndexInv, whole
    <3> QED
      BY <1>4, <1>11, <2>1, <3>1 DEF IndexInv
  <2>2. CASE ~Moves(g, modules)
    BY <1>2, <1>3, <1>19, <2>2 DEF IndexInv
  <2> QED
    BY <2>1, <2>2
<1>24. g.images # {} => g.next_epoch <= R.next_epoch
  <2>1. g.next_epoch \in Nat
    BY GroupFields
  <2>2. g.images # {} => Cursors(g).epoch = g.next_epoch
    BY CursorsAre
  <2>3. Cursors(g).epoch <= NextEpoch(g, modules)
    BY StagedEpochs
  <2> QED
    BY <1>3, <1>4, <2>1, <2>2, <2>3
<1>25. R.retired \/ R.app = None => modules[Root] = None
  BY <1>2
<1>26. modules[Root] = None => R.images = {} /\ R.epoch = g.epoch
  BY <1>2, <1>4, <1>16, <1>19
<1> QED
  BY <1>2, <1>3, <1>4, <1>22, <1>23, <1>24, <1>25, <1>26 DEF R, S, B, n, whole

(* It follows the group it was refreshed from.                             *)
LEMMA RefreshedFollows ==
  ASSUME NEW g, GroupOK(g), ~g.retired, NEW modules \in ModuleMaps, NEW gone,
         HistoryInv(g, process.next_epoch, gone)
  PROVE  Follows(g, Refreshed(g, modules), process.next_epoch,
                 RefreshedProcess(g, modules).next_epoch)
<1> DEFINE R == Refreshed(g, modules)
           S == RefreshedImages(g, modules)
           whole == Changed(g, modules)
           B == BoundImages(g, S, whole)
           next == process.next_epoch
           then == RefreshedProcess(g, modules).next_epoch
<1> SUFFICES Follows(g, R, next, then)
  OBVIOUS
<1> USE DEF GroupOK
<1>1. next \in Nat /\ g.epoch \in Nat /\ g.epoch < next
  BY GroupFields DEF HistoryInv
<1>2. then = IF whole /\ modules[Root] # None THEN next + 1 ELSE next
  BY DEF RefreshedProcess
<1>3. /\ modules[Root] = None => R.images = {} /\ R.epoch = g.epoch
      /\ modules[Root] # None => R.epoch = IF whole THEN next ELSE g.epoch
      /\ Moves(g, modules) => R.images = B
      /\ ~Moves(g, modules) => R.images = g.images
      /\ g.images # {} => g.next_epoch <= R.next_epoch
  BY <1>1, RefreshedOK
<1>4. Succeeds(g, B)
  <2>1. /\ g.generation \in Nat /\ RefreshedGeneration(g, modules) \in Nat
        /\ g.generation <= RefreshedGeneration(g, modules)
    BY GroupFields DEF RefreshedGeneration
  <2>2. Succeeds(g, S)
    BY <1>1, <2>1, StagedSucceed DEF RefreshedImages
  <2> HIDE DEF S, whole
  <2> QED
    BY <2>2, BoundSucceed
<1>5. ~whole => modules[Root] = g.app
  BY DEF Changed
<1>6. \A i \in g.images : i.generation <= i.generation
  BY ImageFields
<1> HIDE DEF R, S, B, whole, next, then
<1>7. next \in Nat /\ then \in Nat /\ next <= then /\ R.epoch < then
  BY <1>1, <1>2, <1>3
<1>8. CASE modules[Root] = None \/ whole
  BY <1>1, <1>3, <1>7, <1>8 DEF Follows
<1>9. CASE modules[Root] # None /\ ~whole
  <2>1. g.images # {} /\ R.epoch = g.epoch
    BY <1>3, <1>5, <1>9 DEF ImagesInv, HistoryInv
  <2>2. \A i \in R.images :
          \/ g.next_epoch <= i.epoch
          \/ \E j \in g.images : Same(j, i) /\ j.generation <= i.generation
    BY <1>3, <1>4, <1>6, <2>1 DEF Succeeds, Same
  <2> QED
    BY <1>3, <1>7, <2>1, <2>2 DEF Follows
<1> QED
  BY <1>8, <1>9

(* A new group that is refreshed follows any other.                        *)
LEMMA FreshFollows ==
  ASSUME NEW g, GroupOK(g), NEW modules \in ModuleMaps, NEW gone, NEW token \in Nat,
         HistoryInv(g, process.next_epoch, gone)
  PROVE  LET R == Refreshed(NewGroup(token), modules)
         IN  /\ GroupOK(R)
             /\ Follows(g, R, process.next_epoch,
                        RefreshedProcess(NewGroup(token), modules).next_epoch)
<1> DEFINE n == NewGroup(token)
           R == Refreshed(n, modules)
           then == RefreshedProcess(n, modules).next_epoch
<1>1. GroupOK(n) /\ ~n.retired /\ n.epoch = 0 /\ n.app = None
  BY NewGroupOK
<1> HIDE DEF n
<1>2. g.epoch \in Nat /\ process.next_epoch \in Nat /\ g.epoch < process.next_epoch
  BY GroupFields DEF GroupOK, HistoryInv
<1>3. /\ GroupOK(R)
      /\ modules[Root] = None => R.images = {} /\ R.epoch = n.epoch
      /\ modules[Root] # None =>
           R.epoch = IF Changed(n, modules) THEN process.next_epoch ELSE n.epoch
  BY <1>1, <1>2, RefreshedOK
<1>4. modules[Root] # None => Changed(n, modules)
  BY <1>1 DEF Changed
<1>5. then = IF Changed(n, modules) /\ modules[Root] # None
               THEN process.next_epoch + 1 ELSE process.next_epoch
  BY DEF RefreshedProcess
<1> HIDE DEF R, then
<1>6. Follows(g, R, process.next_epoch, then)
  BY <1>1, <1>2, <1>3, <1>4, <1>5 DEF Follows
<1> QED
  BY <1>3, <1>6 DEF R, then, n

(* A group whose live heap has been indexed: images and hooks keep their   *)
(* identity, and only their generation can be younger.                     *)
LEMMA IndexedOK ==
  ASSUME NEW g, GroupOK(g), NEW c \in Contexts, NEW units, Root \in units,
         Root \in {i.unit : i \in g.images}
  PROVE  LET h == IndexedGroup(g, c, units)
         IN  /\ GroupOK(h) /\ h.epoch = g.epoch /\ h.next_epoch = g.next_epoch
             /\ h.token = g.token /\ h.generation = g.generation /\ h.app = g.app
             /\ h.retired = g.retired
             /\ \A b \in h.images : \E i \in g.images : Same(i, b) /\ i.generation <= b.generation
             /\ \A i \in g.images : i.generation = g.generation =>
                  \E b \in h.images : b.lifecycle = "active" /\ OwnerIdentity(b) = OwnerIdentity(i)
<1> DEFINE h == IndexedGroup(g, c, units)
           F(i) == [i EXCEPT !.generation = g.generation, !.group = g.epoch,
                             !.lifecycle = "active", !.live = i.unit \in units]
           B == {F(i) : i \in g.images}
           P == {i \in g.images : i.unit \in units}
           X == Owners(P)
<1> USE DEF GroupOK
<1>1. ASSUME NEW i \in g.images
      PROVE  /\ F(i) \in ImageType /\ F(i).unit = i.unit /\ F(i).id = i.id /\ F(i).epoch = i.epoch
             /\ F(i).generation = g.generation /\ F(i).group = i.group /\ F(i).base = i.base
             /\ F(i).lifecycle = "active" /\ (F(i).live <=> i.unit \in units)
  <2>1. i \in ImageType /\ g.generation \in Nat /\ g.epoch \in Nat /\ i.group = g.epoch
    BY ImageFields DEF ImagesInv
  <2> DEFINE l == i.unit \in units
  <2>2. l \in BOOLEAN
    OBVIOUS
  <2> HIDE DEF l
  <2>3. /\ F(i) \in ImageType /\ F(i).unit = i.unit /\ F(i).id = i.id /\ F(i).epoch = i.epoch
        /\ F(i).generation = g.generation /\ F(i).group = i.group /\ F(i).base = i.base
        /\ F(i).lifecycle = "active" /\ F(i).live = l
    BY <2>1, <2>2 DEF ImageType, l
  <2> QED
    BY <2>3 DEF l
<1> HIDE DEF F
<1>2. B \in SUBSET ImageType
  BY <1>1
<1>3. /\ \A o \in X : \E i \in g.images : i.unit \in units /\ o = OwnerIdentity(i)
      /\ \A i \in g.images : i.unit \in units => OwnerIdentity(i) \in X
  BY DEF Owners
<1>4. X \in SUBSET OwnerType
  BY <1>3, OwnerFields, ImageFields
<1>5. /\ h \in GroupType /\ h.images = B /\ h.index = X /\ h.state = "ready" /\ h.context = c
      /\ h.token = g.token /\ h.retired = g.retired /\ h.generation = g.generation
      /\ h.epoch = g.epoch /\ h.app = g.app /\ h.next_id = g.next_id
      /\ h.next_epoch = g.next_epoch
  <2>1. h = [g EXCEPT !.images = B, !.index = X, !.context = c, !.state = "ready"]
    BY DEF IndexedGroup, F
  <2> HIDE DEF h, B, X
  <2> QED
    BY <1>2, <1>4, <2>1 DEF GroupType
<1>6. \A b \in B : \E i \in g.images : b = F(i)
  OBVIOUS
<1>7. \A i \in g.images : F(i) \in B
  OBVIOUS
<1> HIDE DEF h, B, X
<1>8. \A b \in B : \E i \in g.images : Same(i, b) /\ i.generation <= b.generation
  BY <1>1, <1>6 DEF ImagesInv, Same
<1>9. \A i \in g.images : i.generation = g.generation =>
        \E b \in B : b.lifecycle = "active" /\ OwnerIdentity(b) = OwnerIdentity(i)
  BY <1>1, <1>7, OwnersEqual
<1>10. PICK r \in g.images : r.unit = Root
  OBVIOUS
<1>11. Distinct(B)
  BY <1>1, <1>6 DEF ImagesInv, Distinct
<1>12. \A b \in B : /\ b.id < g.next_id /\ b.epoch < g.next_epoch
                    /\ b.group = g.epoch /\ b.generation <= g.generation
  <2>1. g.generation <= g.generation
    BY GroupFields
  <2> QED
    BY <1>1, <1>6, <2>1 DEF ImagesInv
<1>13. F(r) \in B /\ F(r).unit = Root
  BY <1>1, <1>7, <1>10
<1>14. ImagesInv(h)
  BY <1>5, <1>10, <1>11, <1>12, <1>13 DEF ImagesInv
<1>15. ASSUME NEW o \in X, NEW i \in g.images, Same(o, F(i))
       PROVE  i.unit \in units /\ o = OwnerIdentity(i)
  <2>1. PICK j \in g.images : j.unit \in units /\ o = OwnerIdentity(j)
    BY <1>3
  <2>2. j.epoch = i.epoch
    BY <1>1, <1>15, <2>1, OwnerFields DEF Same
  <2> QED
    BY <2>1, <2>2 DEF ImagesInv, Distinct
<1>16. \A i \in g.images : Same(OwnerIdentity(i), F(i))
  BY <1>1, OwnerFields DEF Same
<1>17. \A b \in B : b.live <=> Indexed(X, b)
  <2>1. ASSUME NEW i \in g.images
        PROVE  Indexed(X, F(i)) <=> i.unit \in units
    BY <1>3, <1>15, <1>16 DEF Indexed
  <2> QED
    BY <1>1, <1>6, <2>1
<1>18. ASSUME NEW o \in X, NEW b \in B, Same(o, b)
       PROVE  o.group = b.group /\ o.generation <= b.generation
  <2>1. PICK i \in g.images : b = F(i)
    BY <1>6
  <2>2. o = OwnerIdentity(i)
    BY <1>15, <1>18, <2>1
  <2> QED
    BY <1>1, <2>1, <2>2, OwnerFields DEF ImagesInv
<1>19. \A o \in X : \E b \in B : Same(o, b)
  BY <1>3, <1>7, <1>16
<1>20. Indexed(X, F(r))
  BY <1>3, <1>10, <1>16 DEF Indexed
<1>21. IndexInv(h)
  BY <1>5, <1>13, <1>17, <1>18, <1>19, <1>20 DEF IndexInv
<1> QED
  BY <1>5, <1>8, <1>9, <1>14, <1>21 DEF h

(* A set of numbers has a least one.                                       *)
LEMMA Least ==
  ASSUME NEW S, S \subseteq Nat, S # {}
  PROVE  \E n \in S : \A m \in S : n <= m
<1> DEFINE R == OpToRel(<, Nat)
<1>1. IsWellFoundedOn(R, Nat)
  BY NatLessThanWellFounded
<1>2. R = {p \in Nat \X Nat : p[1] < p[2]}
  BY DEF OpToRel
<1>3. PICK n \in S : \A m \in S : <<m, n>> \notin R
  <2> HIDE DEF R
  <2> QED
    BY <1>1, WFMin
<1>4. \A m \in S : <<m, n>> \in Nat \X Nat
  OBVIOUS
<1> HIDE DEF R
<1>5. \A m \in S : ~(m < n)
  BY <1>2, <1>3, <1>4
<1> QED
  BY <1>5

(* A set has at most one element more with x than without.                 *)
LEMMA OneMore ==
  ASSUME NEW S, IsFiniteSet(S), NEW x
  PROVE  IsFiniteSet(S \cup {x}) /\ Cardinality(S \cup {x}) <= Cardinality(S) + 1
<1>1. IsFiniteSet(S \cup {x})
  BY FS_AddElement
<1>2. Cardinality(S \cup {x}) = IF x \in S THEN Cardinality(S) ELSE Cardinality(S) + 1
  BY FS_AddElement
<1>3. Cardinality(S) \in Nat
  BY FS_CardinalityType
<1> QED
  BY <1>1, <1>2, <1>3

(* There is a token that no hook and no method has.                        *)
LEMMA NextTokenIs ==
  ASSUME IsFiniteSet(hooks)
  PROVE  NextToken \in Nat
<1> DEFINE f == [h \in hooks |-> h.token]
           T == {h.token : h \in hooks}
           U == IF method = None THEN T ELSE T \cup {method.token}
           C == Cardinality(hooks)
           N == 1 .. C + 2
<1>1. C \in Nat
  BY FS_CardinalityType
<1>2. f \in Surjection(hooks, T)
  BY DEF Surjection
<1>3. IsFiniteSet(T) /\ Cardinality(T) <= C
  BY <1>2, FS_Surjection
<1> HIDE DEF T
<1>4. IsFiniteSet(U) /\ Cardinality(U) \in Nat /\ Cardinality(U) <= C + 1
  <2>1. Cardinality(T) \in Nat
    BY <1>3, FS_CardinalityType
  <2>2. CASE method = None
    BY <1>1, <1>3, <2>1, <2>2
  <2>3. CASE method # None
    <3>1. U = T \cup {method.token}
      BY <2>3
    <3> HIDE DEF U, C, f, N
    <3>2. IsFiniteSet(U) /\ Cardinality(U) <= Cardinality(T) + 1
      BY <1>3, <3>1, OneMore
    <3> QED
      BY <1>1, <1>3, <2>1, <3>2, FS_CardinalityType
  <2> QED
    BY <2>2, <2>3
<1>5. IsFiniteSet(N) /\ Cardinality(N) = C + 2
  BY <1>1, FS_Interval
<1> HIDE DEF U, N, C, f
<1>6. ~(N \subseteq U)
  BY <1>1, <1>4, <1>5, FS_Subset
<1>7. N \ U # {} /\ N \ U \subseteq Nat
  BY <1>1, <1>6 DEF N
<1>8. PICK n \in N \ U : \A m \in N \ U : n <= m
  BY <1>7, Least
<1>9. \A k \in 1 .. n - 1 : k \in U
  BY <1>1, <1>8 DEF N
<1>10. \A k : k \in U <=> (k \in T \/ (method # None /\ method.token = k))
  BY DEF U
<1>11. \E m \in N : /\ m \notin T /\ (method # None => method.token # m)
                    /\ \A k \in 1 .. m - 1 : k \in T \/ (method # None /\ method.token = k)
  BY <1>8, <1>9, <1>10
<1>12. NextToken \in N
  BY <1>11 DEF NextToken, N, T, C
<1> QED
  BY <1>1, <1>12 DEF N

(* The group that takes the place of one whose isolate group was replaced  *)
LEMMA SeededOK ==
  ASSUME GroupOK(group), ~group.retired, group.context # None, process.next_epoch \in Nat,
         NextToken \in Nat
  PROVE  GroupOK(SeededGroup) /\ SeededGroup.epoch = process.next_epoch
<1> DEFINE n == NewGroup(NextToken)
           F(i) == [i EXCEPT !.generation = 1, !.group = process.next_epoch,
                             !.lifecycle = "active", !.live = FALSE]
           B == {F(i) : i \in group.images}
           s == SeededGroup
<1> USE DEF GroupOK
<1>1. ASSUME NEW i \in group.images
      PROVE  /\ F(i) \in ImageType /\ F(i).unit = i.unit /\ F(i).id = i.id /\ F(i).epoch = i.epoch
             /\ F(i).generation = 1 /\ F(i).group = process.next_epoch
  BY ImageFields DEF ImageType
<1> HIDE DEF F
<1>2. B \in SUBSET ImageType
  BY <1>1
<1>3. \A b \in B : \E i \in group.images : b = F(i)
  OBVIOUS
<1>4. \A i \in group.images : F(i) \in B
  OBVIOUS
<1>5. /\ n \in GroupType /\ n.index = {} /\ n.generation = 1 /\ n.retired = FALSE
      /\ n.state = "created" /\ n.context = None
  BY NewGroupOK DEF NewGroup
<1>6. /\ s \in GroupType /\ s.app = group.app /\ s.epoch = process.next_epoch
      /\ s.next_id = group.next_id /\ s.next_epoch = group.next_epoch /\ s.images = B
      /\ s.index = {} /\ s.generation = 1 /\ s.retired = FALSE /\ s.state = "created"
  <2>1. s = [n EXCEPT !.app = group.app, !.matched = group.matched,
                      !.epoch = process.next_epoch, !.next_id = group.next_id,
                      !.next_epoch = group.next_epoch, !.images = B]
    BY DEF SeededGroup, F
  <2>2. /\ group.app \in Bases \cup {None} /\ group.matched \in BOOLEAN
        /\ group.next_id \in Nat /\ group.next_epoch \in Nat
    BY GroupFields
  <2> HIDE DEF s, n, B
  <2> QED
    BY <1>2, <1>5, <2>1, <2>2 DEF GroupType
<1> HIDE DEF s, n, B
<1>7. Distinct(B)
  BY <1>1, <1>3 DEF ImagesInv, Distinct
<1>8. group.images # {} /\ group.app # None
  BY DEF ImagesInv
<1>9. \E b \in B : b.unit = Root
  BY <1>1, <1>4, <1>8 DEF ImagesInv
<1>10. ImagesInv(s)
  BY <1>1, <1>3, <1>6, <1>7, <1>8, <1>9 DEF ImagesInv
<1>11. IndexInv(s)
  BY <1>6 DEF IndexInv
<1> QED
  BY <1>6, <1>10, <1>11 DEF s

-----------------------------------------------------------------------------
(* Hooks and the group                                                     *)

(* What can still be called, or taken out, is the group's; what is         *)
(* installed belongs to its generation and to an active image.             *)
HooksOK(hs, g) ==
  \A h \in hs :
    /\ h.status # "retired" => h.token = g.token /\ ~g.retired /\ g.app # None
    /\ h.status = "installed" =>
         /\ h.owner.generation = g.generation
         /\ \E i \in g.images : OwnerIdentity(i) = h.owner /\ i.lifecycle = "active"

HooksInv ==
  /\ hooks \subseteq HookType /\ IsFiniteSet(hooks)
  /\ runtime # "deleted" => HooksOK(hooks, group)
  /\ runtime = "deleted" => \A h \in hooks : h.status # "installed"

(* A status changes nothing else.                                          *)
LEMMA StatusIs ==
  ASSUME NEW hs \in SUBSET HookType, IsFiniteSet(hs), NEW s \in {"installed", "failed", "retired"}
  PROVE  /\ Status(hs, s) \subseteq HookType /\ IsFiniteSet(Status(hs, s))
         /\ \A h \in Status(hs, s) : h.status = s /\ \E k \in hs : k.token = h.token
<1> DEFINE F(h) == [h EXCEPT !.status = s]
           f == [h \in hs |-> F(h)]
<1>1. Status(hs, s) = {F(h) : h \in hs}
  BY DEF Status
<1>2. \A h \in hs : F(h) \in HookType /\ F(h).status = s /\ F(h).token = h.token
  BY DEF HookType
<1> HIDE DEF F
<1>3. f \in Surjection(hs, Status(hs, s))
  BY <1>1 DEF Surjection
<1>4. IsFiniteSet(Status(hs, s))
  BY <1>3, FS_Surjection
<1> QED
  BY <1>1, <1>2, <1>4

(* What a transition sweeps, retires and fails to unhook are hooks of the  *)
(* group.                                                                  *)
LEMMA SweptAre ==
  ASSUME NEW g, NEW S, NEW modules, NEW whole,
         NEW failed \in Failures(Swept(g, S, whole) \ Retired(g, S, modules, whole))
  PROVE  /\ Swept(g, S, whole) \subseteq HooksOf(g) /\ HooksOf(g) \subseteq hooks
         /\ Retired(g, S, modules, whole) \subseteq HooksOf(g)
         /\ failed \subseteq HooksOf(g) /\ \A h \in failed : h.status # "retired"
         /\ whole => Swept(g, S, whole) = HooksOf(g)
<1>1. HooksOf(g) \subseteq hooks /\ \A i : HooksOfImage(g, i) \subseteq HooksOf(g)
  BY DEF HooksOf, HooksOfImage
<1>2. Swept(g, S, whole) \subseteq HooksOf(g)
  BY <1>1 DEF Swept
<1>3. Retired(g, S, modules, whole) \subseteq HooksOf(g)
  BY <1>1 DEF Retired
<1>4. failed \subseteq Swept(g, S, whole) /\ \A h \in failed : h.status # "retired"
  BY DEF Failures
<1>5. whole => Swept(g, S, whole) = HooksOf(g)
  BY DEF Swept
<1> QED
  BY <1>1, <1>2, <1>3, <1>4, <1>5

(* After a sweep there are the hooks that were not swept, hooks that are   *)
(* given up, and hooks that could not be taken out.                        *)
LEMMA SweepLeaves ==
  ASSUME hooks \subseteq HookType, IsFiniteSet(hooks), NEW g, NEW swept,
         NEW retired \in SUBSET HooksOf(g), NEW failed \in SUBSET HooksOf(g),
         Sweep(swept, retired, failed)
  PROVE  /\ hooks' \subseteq HookType /\ IsFiniteSet(hooks')
         /\ \A h \in hooks' : \/ h \in hooks /\ (h \in swept => h.status = "retired")
                              \/ h.status = "retired"
                              \/ h.status = "failed" /\ h.token = g.token /\ failed # {}
<1> DEFINE left == hooks \ {h \in swept : h.status # "retired"}
<1>1. HooksOf(g) \subseteq hooks /\ \A h \in HooksOf(g) : h.token = g.token
  BY DEF HooksOf
<1>2. hooks' = left \cup Status(retired, "retired") \cup Status(failed, "failed")
  BY DEF Sweep
<1>3. left \in SUBSET hooks /\ retired \in SUBSET hooks /\ failed \in SUBSET hooks
  BY <1>1
<1>4. \A h \in left : h \in hooks /\ (h \in swept => h.status = "retired")
  OBVIOUS
<1> HIDE DEF left
<1>5. IsFiniteSet(left) /\ IsFiniteSet(retired) /\ IsFiniteSet(failed)
  BY <1>3, FS_Subset
<1>6. /\ Status(retired, "retired") \subseteq HookType /\ IsFiniteSet(Status(retired, "retired"))
      /\ \A h \in Status(retired, "retired") : h.status = "retired"
  BY <1>3, <1>5, StatusIs
<1>7. /\ Status(failed, "failed") \subseteq HookType /\ IsFiniteSet(Status(failed, "failed"))
      /\ \A h \in Status(failed, "failed") :
           h.status = "failed" /\ \E k \in failed : k.token = h.token
  BY <1>3, <1>5, StatusIs
<1>8. IsFiniteSet(left \cup Status(retired, "retired"))
  BY <1>5, <1>6, FS_Union
<1>9. IsFiniteSet(hooks')
  BY <1>2, <1>7, <1>8, FS_Union
<1>10. \A h \in Status(failed, "failed") : h.token = g.token /\ failed # {}
  BY <1>1, <1>7
<1> QED
  BY <1>2, <1>3, <1>4, <1>6, <1>7, <1>9, <1>10

(* A transition of all images that drains them leaves no hook that can be  *)
(* called; one that fails leaves hooks that cannot, of the same group.     *)
LEMMA WholeSwept ==
  ASSUME HooksInv, runtime # "deleted", NEW S, NEW modules, NEW whole, whole,
         NEW failed \in Failures(Swept(group, S, whole) \ Retired(group, S, modules, whole)),
         Sweep(Swept(group, S, whole), Retired(group, S, modules, whole), failed)
  PROVE  /\ hooks' \subseteq HookType /\ IsFiniteSet(hooks')
         /\ failed = {} => \A h \in hooks' : h.status = "retired"
         /\ \A h \in hooks' : h.status # "installed"
         /\ \A g : g.token = group.token /\ g.retired = group.retired /\ g.app = group.app
                   => HooksOK(hooks', g)
<1>1. /\ Swept(group, S, whole) = HooksOf(group) /\ failed \subseteq HooksOf(group)
      /\ Retired(group, S, modules, whole) \subseteq HooksOf(group)
      /\ HooksOf(group) \subseteq hooks
      /\ \A h \in failed : h.status # "retired"
  BY SweptAre
<1>2. HooksOK(hooks, group)
  BY DEF HooksInv
<1>3. \A h \in hooks : h \notin HooksOf(group) => h.status = "retired"
  BY <1>2 DEF HooksOK, HooksOf
<1>4. /\ hooks' \subseteq HookType /\ IsFiniteSet(hooks')
      /\ \A h \in hooks' :
           \/ h \in hooks /\ (h \in Swept(group, S, whole) => h.status = "retired")
           \/ h.status = "retired"
           \/ h.status = "failed" /\ h.token = group.token /\ failed # {}
  <2>1. hooks \subseteq HookType /\ IsFiniteSet(hooks)
    BY DEF HooksInv
  <2> DEFINE swept == Swept(group, S, whole)
             retired == Retired(group, S, modules, whole)
  <2>2. /\ retired \in SUBSET HooksOf(group) /\ failed \in SUBSET HooksOf(group)
        /\ Sweep(swept, retired, failed)
    BY <1>1
  <2> HIDE DEF swept, retired
  <2>3. /\ hooks' \subseteq HookType /\ IsFiniteSet(hooks')
        /\ \A h \in hooks' : \/ h \in hooks /\ (h \in swept => h.status = "retired")
                             \/ h.status = "retired"
                             \/ h.status = "failed" /\ h.token = group.token /\ failed # {}
    BY <2>1, <2>2, SweepLeaves
  <2> QED
    BY <2>3 DEF swept
<1>5. \A h \in hooks' : \/ h.status = "retired"
                        \/ h.status = "failed" /\ h.token = group.token /\ failed # {}
  BY <1>1, <1>3, <1>4
<1>6. failed # {} => ~group.retired /\ group.app # None
  BY <1>1, <1>2 DEF HooksOK
<1>7. \A g : g.token = group.token /\ g.retired = group.retired /\ g.app = group.app
             => HooksOK(hooks', g)
  BY <1>5, <1>6 DEF HooksOK
<1> QED
  BY <1>4, <1>5, <1>7

(* A transition of some images leaves the hooks of the others.             *)
LEMMA PartSwept ==
  ASSUME HooksInv, runtime # "deleted", NEW S, NEW modules, NEW whole, ~whole,
         NEW failed \in Failures(Swept(group, S, whole) \ Retired(group, S, modules, whole)),
         Sweep(Swept(group, S, whole), Retired(group, S, modules, whole), failed)
  PROVE  /\ hooks' \subseteq HookType /\ IsFiniteSet(hooks')
         /\ \A g :
              /\ g.token = group.token /\ g.generation = group.generation
              /\ g.retired \/ g.app = None => group.retired \/ group.app = None
              /\ \A i \in group.images :
                   i.lifecycle = "active" /\ i \notin Affected(group, S, whole) =>
                     \E b \in g.images : /\ b.lifecycle = "active"
                                         /\ OwnerIdentity(b) = OwnerIdentity(i)
              => HooksOK(hooks', g)
<1> DEFINE swept == Swept(group, S, whole)
<1>1. /\ failed \subseteq HooksOf(group) /\ HooksOf(group) \subseteq hooks
      /\ Retired(group, S, modules, whole) \subseteq HooksOf(group)
      /\ \A h \in failed : h.status # "retired"
  BY SweptAre
<1>2. HooksOK(hooks, group)
  BY DEF HooksInv
<1>3. swept = UNION {HooksOfImage(group, i) : i \in Affected(group, S, whole)}
  BY DEF Swept
<1> HIDE DEF swept
<1>4. /\ hooks' \subseteq HookType /\ IsFiniteSet(hooks')
      /\ \A h \in hooks' : \/ h \in hooks /\ (h \in swept => h.status = "retired")
                           \/ h.status = "retired"
                           \/ h.status = "failed" /\ h.token = group.token /\ failed # {}
  BY <1>1, SweepLeaves DEF HooksInv, swept
<1>5. failed # {} => ~group.retired /\ group.app # None
  BY <1>1, <1>2 DEF HooksOK
<1>6. ASSUME NEW h \in hooks', h.status # "retired"
      PROVE  h.token = group.token /\ ~group.retired /\ group.app # None
  BY <1>2, <1>4, <1>5, <1>6 DEF HooksOK
<1>7. ASSUME NEW h \in hooks', h.status = "installed"
      PROVE  /\ h.owner.generation = group.generation
             /\ \E i \in group.images : /\ OwnerIdentity(i) = h.owner /\ i.lifecycle = "active"
                                        /\ i \notin Affected(group, S, whole)
  <2>1. h \in hooks /\ h \notin swept
    BY <1>4, <1>7
  <2>2. h.owner.generation = group.generation
    BY <1>2, <1>7, <2>1 DEF HooksOK
  <2>3. PICK i \in group.images : OwnerIdentity(i) = h.owner /\ i.lifecycle = "active"
    BY <1>2, <1>7, <2>1 DEF HooksOK
  <2>4. h \in HooksOfImage(group, i)
    BY <1>6, <1>7, <2>1, <2>3, OwnerFields DEF HooksOfImage, HooksOf
  <2>5. i \notin Affected(group, S, whole)
    BY <1>3, <2>1, <2>4
  <2> QED
    BY <2>2, <2>3, <2>5
<1> QED
  BY <1>4, <1>6, <1>7 DEF HooksOK

-----------------------------------------------------------------------------
(* What the steps on the group preserve                                    *)

ProcessType == [modules : ModuleMaps, engine : BOOLEAN, next_epoch : Nat]

GroupInv ==
  /\ GroupOK(group) /\ process \in ProcessType
  /\ HistoryInv(group, process.next_epoch, closed)

(* A group is published that can follow the active one.                    *)
LEMMA PublishKeeps ==
  ASSUME GroupInv, NEW g, GroupOK(g), Publish(g), process' \in ProcessType,
         Follows(group, g, process.next_epoch, process'.next_epoch)
  PROVE  GroupInv' /\ group' = g
<1>1. group' = g /\ closed' = closed \cup (Owners(group.images) \ Owners(g.images))
  BY DEF Publish
<1>2. HistoryInv(g, process'.next_epoch, closed')
  BY <1>1, HistoryGoes DEF GroupInv
<1>3. GroupOK(group') /\ HistoryInv(group', process'.next_epoch, closed')
  BY <1>1, <1>2
<1> QED
  BY <1>1, <1>3 DEF GroupInv

(* The active group is published again, or remains.                        *)
LEMMA SameGroupKeeps ==
  ASSUME GroupInv, UNCHANGED <<group, closed>> \/ Publish(group), process' \in ProcessType,
         process'.next_epoch = process.next_epoch
  PROVE  GroupInv' /\ group' = group
<1>1. group' = group /\ closed' = closed
  BY DEF Publish
<1> QED
  BY <1>1 DEF GroupInv

(* Without hooks that can be called there is nothing to check.             *)
LEMMA GivenUpKeeps ==
  ASSUME hooks' \subseteq HookType, IsFiniteSet(hooks'), \A h \in hooks' : h.status = "retired"
  PROVE  HooksInv'
BY DEF HooksInv, HooksOK

(* The process after a refresh                                             *)
LEMMA RefreshedProcessIs ==
  ASSUME NEW g, NEW modules \in ModuleMaps, process \in ProcessType
  PROVE  RefreshedProcess(g, modules) \in ProcessType
BY DEF RefreshedProcess, ProcessType

(* The group is drained, or stays draining.                                *)
LEMMA RetireFails ==
  ASSUME GroupInv, Publish(DrainingGroup(NextGeneration(group), {}, TRUE)), process' = process
  PROVE  /\ GroupInv' /\ group'.token = group.token /\ group'.retired = group.retired
         /\ group'.app = group.app
<1> DEFINE n == NextGeneration(group)
           whole == TRUE
           d == DrainingGroup(n, {}, whole)
<1>1. group.generation \in Nat
  BY GroupFields DEF GroupInv, GroupOK
<1>2. /\ GroupOK(n) /\ n.images = group.images /\ n.epoch = group.epoch
      /\ n.next_epoch = group.next_epoch /\ n.token = group.token /\ n.app = group.app
      /\ n.retired = group.retired
  <2>1. n = [group EXCEPT !.generation = group.generation + 1]
    BY DEF NextGeneration
  <2> HIDE DEF n
  <2>2. group.generation + 1 \in Nat /\ group.generation <= group.generation + 1
    BY <1>1
  <2> QED
    BY <2>1, <2>2, LaterOK DEF GroupInv
<1> HIDE DEF n, whole
<1>3. /\ GroupOK(d) /\ d.epoch = n.epoch /\ d.next_epoch = n.next_epoch
      /\ d.token = n.token /\ d.app = n.app /\ d.retired = n.retired
      /\ \A i \in d.images : \E j \in n.images : OwnerIdentity(i) = OwnerIdentity(j)
  BY <1>2, DrainingOK
<1> HIDE DEF d
<1>4. Follows(group, d, process.next_epoch, process.next_epoch)
  BY <1>2, <1>3, DrainingFollows DEF GroupInv
<1>5. GroupInv' /\ group' = d
  BY <1>3, <1>4, PublishKeeps DEF d, n, whole, GroupInv
<1> QED
  BY <1>2, <1>3, <1>5

(* RefreshGroup for a new group when no hook is left                       *)
LEMMA RefreshNewKeeps ==
  ASSUME GroupInv, NEW modules \in ModuleMaps, NextToken \in Nat,
         RefreshGroup(NewGroup(NextToken), modules)
  PROVE  GroupInv'
<1> DEFINE n == NewGroup(NextToken)
<1>1. GroupOK(n) /\ n.images = {} /\ n.epoch = 0 /\ ~n.retired
  BY NewGroupOK
<1> HIDE DEF n
<1>2. /\ GroupOK(group) /\ group.epoch \in Nat /\ process.next_epoch \in Nat
      /\ group.epoch < process.next_epoch /\ process \in ProcessType
      /\ HistoryInv(group, process.next_epoch, closed)
  BY GroupFields DEF GroupInv, GroupOK, HistoryInv
<1>3. CASE Publish([n EXCEPT !.state = "failed"]) /\ process' = process
  <2> DEFINE f == [n EXCEPT !.state = "failed"]
  <2>1. GroupOK(f) /\ f.images = {} /\ f.epoch = 0
    BY <1>1, FailedOK
  <2> HIDE DEF f
  <2>2. Follows(group, f, process.next_epoch, process.next_epoch)
    BY <1>2, <2>1 DEF Follows
  <2> QED
    BY <1>2, <1>3, <2>1, <2>2, PublishKeeps DEF f
<1>4. CASE Publish(Refreshed(n, modules)) /\ process' = RefreshedProcess(n, modules)
  <2> DEFINE R == Refreshed(n, modules)
  <2>1. /\ GroupOK(R)
        /\ Follows(group, R, process.next_epoch, RefreshedProcess(n, modules).next_epoch)
    BY <1>2, FreshFollows DEF n
  <2>2. process' \in ProcessType
    BY <1>2, <1>4, RefreshedProcessIs
  <2> HIDE DEF R
  <2> QED
    BY <1>4, <2>1, <2>2, PublishKeeps DEF R
<1> QED
  BY <1>3, <1>4 DEF RefreshGroup, n

(* A refresh of the active group that is not usable                        *)
LEMMA RefreshFails ==
  ASSUME GroupInv, HooksInv, runtime # "deleted", runtime' # "deleted",
         Publish([group EXCEPT !.state = "failed"]), UNCHANGED <<process, hooks>>
  PROVE  GroupInv' /\ HooksInv'
<1> DEFINE f == [group EXCEPT !.state = "failed"]
<1>1. /\ GroupOK(f) /\ f.images = group.images /\ f.epoch = group.epoch
      /\ f.next_epoch = group.next_epoch /\ f.token = group.token /\ f.app = group.app
      /\ f.retired = group.retired /\ f.generation = group.generation
  BY FailedOK DEF GroupInv
<1> HIDE DEF f
<1>2. Follows(group, f, process.next_epoch, process.next_epoch)
  BY <1>1, DrainingFollows DEF GroupInv
<1>3. GroupInv' /\ group' = f
  BY <1>1, <1>2, PublishKeeps DEF f, GroupInv
<1>4. HooksOK(hooks', group')
  BY <1>1, <1>3 DEF HooksInv, HooksOK
<1> QED
  BY <1>3, <1>4 DEF HooksInv

(* A refresh of the active group that has nothing to drain                 *)
LEMMA RefreshUndisturbed ==
  ASSUME GroupInv, HooksInv, runtime # "deleted", runtime' # "deleted", ~group.retired,
         NEW modules \in ModuleMaps, ~Changed(group, modules),
         SameIdentity(group.images, modules), Publish(Refreshed(group, modules)),
         process' = RefreshedProcess(group, modules), UNCHANGED hooks
  PROVE  GroupInv' /\ HooksInv'
<1> DEFINE R == Refreshed(group, modules)
<1>1. /\ GroupOK(group) /\ process \in ProcessType /\ process.next_epoch \in Nat
      /\ group.epoch < process.next_epoch /\ HistoryInv(group, process.next_epoch, closed)
  BY DEF GroupInv, HistoryInv
<1>2. /\ GroupOK(R) /\ R.token = group.token /\ R.generation = group.generation
      /\ R.retired \/ R.app = None => modules[Root] = None
      /\ ~Moves(group, modules) => R.images = group.images
  BY <1>1, RefreshedOK DEF RefreshedGeneration
<1>3. Follows(group, R, process.next_epoch, RefreshedProcess(group, modules).next_epoch)
  BY <1>1, RefreshedFollows
<1>4. process' \in ProcessType
  BY <1>1, RefreshedProcessIs
<1> HIDE DEF R
<1>5. GroupInv' /\ group' = R
  BY <1>2, <1>3, <1>4, PublishKeeps DEF R
<1>6. modules[Root] = group.app
  BY DEF Changed
<1>7. HooksOK(hooks, group)
  BY DEF HooksInv
<1>8. group.images # {} => R.images = group.images
  BY <1>2 DEF Moves
<1>9. HooksOK(hooks, R)
  BY <1>2, <1>6, <1>7, <1>8 DEF HooksOK
<1> QED
  BY <1>5, <1>9 DEF HooksInv

(* A refresh of the active group that drains what has changed, or fails to *)
LEMMA RefreshDrains ==
  ASSUME GroupInv, HooksInv, runtime # "deleted", runtime' # "deleted", ~group.retired,
         NEW modules \in ModuleMaps,
         Changed(group, modules) \/ ~SameIdentity(group.images, modules),
         Transition(group, RefreshedImages(group, modules), modules, Changed(group, modules),
                    Publish(Refreshed(group, modules))
                      /\ process' = RefreshedProcess(group, modules),
                    Publish([DrainingGroup(group, RefreshedImages(group, modules),
                                           Changed(group, modules))
                               EXCEPT !.generation = RefreshedGeneration(group, modules)])
                      /\ process' = [process EXCEPT !.modules = modules])
  PROVE  GroupInv' /\ HooksInv'
<1> DEFINE S == RefreshedImages(group, modules)
           whole == Changed(group, modules)
           R == Refreshed(group, modules)
           n == RefreshedGeneration(group, modules)
           d == DrainingGroup(group, S, whole)
           D == [d EXCEPT !.generation = n]
           next == process.next_epoch
<1>1. /\ GroupOK(group) /\ process \in ProcessType /\ next \in Nat
      /\ group.epoch < next /\ HistoryInv(group, next, closed)
  BY DEF GroupInv, HistoryInv
<1>2. /\ group.generation \in Nat /\ n \in Nat /\ group.generation <= n
      /\ ~whole => n = group.generation
  BY <1>1, GroupFields DEF RefreshedGeneration, GroupOK
<1>3. /\ GroupOK(R) /\ R.token = group.token /\ R.generation = n
      /\ R.retired \/ R.app = None => modules[Root] = None
      /\ R.images = BoundImages(group, S, whole)
  BY <1>1, RefreshedOK DEF Moves
<1>4. Follows(group, R, next, RefreshedProcess(group, modules).next_epoch)
  BY <1>1, RefreshedFollows
<1>5. RefreshedProcess(group, modules) \in ProcessType
  BY <1>1, RefreshedProcessIs
<1>6. ~whole => modules[Root] = group.app
  BY DEF Changed
<1>7. Succeeds(group, S)
  BY <1>1, <1>2, GroupFields, StagedSucceed DEF RefreshedImages, GroupOK
<1>8. PICK failed \in Failures(Swept(group, S, whole) \ Retired(group, S, modules, whole)) :
        /\ Sweep(Swept(group, S, whole), Retired(group, S, modules, whole), failed)
        /\ IF failed = {} THEN Publish(R) /\ process' = RefreshedProcess(group, modules)
                          ELSE Publish(D) /\ process' = [process EXCEPT !.modules = modules]
  BY DEF Transition
<1> HIDE DEF S, whole, R, n
<1>9. /\ GroupOK(d) /\ d.epoch = group.epoch /\ d.next_epoch = group.next_epoch
      /\ d.token = group.token /\ d.app = group.app /\ d.retired = group.retired
      /\ d.generation = group.generation
      /\ \A i \in d.images : \E j \in group.images : OwnerIdentity(i) = OwnerIdentity(j)
      /\ \A j \in group.images : j \in Affected(group, S, whole) \/ j \in d.images
  BY <1>1, DrainingOK
<1> HIDE DEF d
<1>10. /\ GroupOK(D) /\ D.images = d.images /\ D.epoch = d.epoch
       /\ D.next_epoch = d.next_epoch /\ D.token = d.token /\ D.app = d.app
       /\ D.retired = d.retired /\ D.generation = n
  BY <1>2, <1>9, LaterOK
<1> HIDE DEF D, next
<1>11. Follows(group, D, next, next)
  BY <1>1, <1>9, <1>10, DrainingFollows
<1>12. [process EXCEPT !.modules = modules] \in ProcessType
       /\ [process EXCEPT !.modules = modules].next_epoch = next
  BY <1>1 DEF ProcessType, next
<1>13. GroupInv' /\ group' = IF failed = {} THEN R ELSE D
  <2>1. CASE failed = {}
    BY <1>3, <1>4, <1>5, <1>8, <2>1, PublishKeeps DEF next
  <2>2. CASE failed # {}
    BY <1>8, <1>10, <1>11, <1>12, <2>2, PublishKeeps DEF next
  <2> QED
    BY <2>1, <2>2
<1>14. CASE whole
  <2>1. /\ hooks' \subseteq HookType /\ IsFiniteSet(hooks')
        /\ failed = {} => \A h \in hooks' : h.status = "retired"
        /\ \A g : g.token = group.token /\ g.retired = group.retired /\ g.app = group.app
                  => HooksOK(hooks', g)
    BY <1>8, <1>14, WholeSwept
  <2>2. CASE failed = {}
    BY <1>13, <2>1, <2>2, GivenUpKeeps
  <2>3. CASE failed # {}
    BY <1>9, <1>10, <1>13, <2>1, <2>3 DEF HooksInv
  <2> QED
    BY <1>13, <2>2, <2>3
<1>15. CASE ~whole
  <2>1. /\ hooks' \subseteq HookType /\ IsFiniteSet(hooks')
        /\ \A g :
             /\ g.token = group.token /\ g.generation = group.generation
             /\ g.retired \/ g.app = None => group.retired \/ group.app = None
             /\ \A i \in group.images :
                  i.lifecycle = "active" /\ i \notin Affected(group, S, whole) =>
                    \E b \in g.images : /\ b.lifecycle = "active"
                                        /\ OwnerIdentity(b) = OwnerIdentity(i)
             => HooksOK(hooks', g)
    BY <1>8, <1>15, PartSwept
  <2>2. ASSUME NEW i \in group.images, i \notin Affected(group, S, whole)
        PROVE  \E b \in R.images : b.lifecycle = "active" /\ OwnerIdentity(b) = OwnerIdentity(i)
    <3>1. OwnerIdentity(i) \in Owners(S)
      BY <1>15, <2>2 DEF Affected
    <3>2. PICK j \in S : OwnerIdentity(j) = OwnerIdentity(i)
      BY <3>1 DEF Owners
    <3>3. S \in SUBSET ImageType /\ Distinct(S)
      BY <1>7 DEF Succeeds
    <3>4. \E b \in BoundImages(group, S, whole) :
            OwnerIdentity(b) = OwnerIdentity(j) /\ b.lifecycle = "active"
      BY <3>3, Bound
    <3> QED
      BY <1>3, <3>2, <3>4
  <2>3. HooksOK(hooks', R)
    BY <1>2, <1>3, <1>6, <1>15, <2>1, <2>2
  <2>4. HooksOK(hooks', D)
    BY <1>2, <1>9, <1>10, <1>15, <2>1
  <2> QED
    BY <1>13, <2>1, <2>3, <2>4 DEF HooksInv
<1> QED
  BY <1>14, <1>15

(* RefreshRuntimeModules                                                   *)
LEMMA RefreshKeeps ==
  ASSUME GroupInv, HooksInv, runtime # "deleted", runtime' # "deleted",
         NEW modules \in ModuleMaps, RefreshRuntimeModules(modules)
  PROVE  GroupInv' /\ HooksInv'
<1>1. CASE /\ group.retired /\ modules[Root] = None
           /\ process' = [process EXCEPT !.modules = modules, !.engine = TRUE]
           /\ UNCHANGED <<group, closed, hooks>>
  <2>1. process' \in ProcessType /\ process'.next_epoch = process.next_epoch
    BY <1>1 DEF GroupInv, ProcessType
  <2>2. GroupInv' /\ group' = group
    BY <1>1, <2>1, SameGroupKeeps
  <2> QED
    BY <1>1, <2>2 DEF HooksInv
<1>2. CASE /\ group.retired /\ modules[Root] # None
           /\ RefreshGroup(NewGroup(NextToken), modules)
           /\ UNCHANGED hooks
  <2>1. GroupInv'
    BY <1>2, NextTokenIs, RefreshNewKeeps DEF HooksInv
  <2>2. \A h \in hooks : h.status = "retired"
    BY <1>2 DEF HooksInv, HooksOK
  <2> QED
    BY <1>2, <2>1, <2>2, GivenUpKeeps DEF HooksInv
<1>3. CASE ~group.retired /\ RefreshActive(modules)
  <2>1. CASE Publish([group EXCEPT !.state = "failed"]) /\ UNCHANGED <<process, hooks>>
    BY <2>1, RefreshFails
  <2>2. CASE /\ Changed(group, modules) \/ ~SameIdentity(group.images, modules)
             /\ Transition(group, RefreshedImages(group, modules), modules,
                           Changed(group, modules),
                           Publish(Refreshed(group, modules))
                             /\ process' = RefreshedProcess(group, modules),
                           Publish([DrainingGroup(group, RefreshedImages(group, modules),
                                                  Changed(group, modules))
                                      EXCEPT !.generation = RefreshedGeneration(group, modules)])
                             /\ process' = [process EXCEPT !.modules = modules])
    BY <1>3, <2>2, RefreshDrains
  <2>3. CASE /\ ~Changed(group, modules) /\ SameIdentity(group.images, modules)
             /\ Publish(Refreshed(group, modules))
             /\ process' = RefreshedProcess(group, modules)
             /\ UNCHANGED hooks
    BY <1>3, <2>3, RefreshUndisturbed
  <2> QED
    BY <1>3, <2>1, <2>2, <2>3 DEF RefreshActive
<1> QED
  BY <1>1, <1>2, <1>3 DEF RefreshRuntimeModules

(* RetireActiveIsolateGroupOwnerLocked when the host fails to unhook       *)
LEMMA RetireStops ==
  ASSUME GroupInv, HooksInv, runtime # "deleted", runtime' # "deleted", NEW modules, NEW whole,
         whole, NEW failed \in Failures(Swept(group, {}, whole)
                                          \ Retired(group, {}, modules, whole)),
         Sweep(Swept(group, {}, whole), Retired(group, {}, modules, whole), failed),
         Publish(DrainingGroup(NextGeneration(group), {}, TRUE)), process' = process
  PROVE  GroupInv' /\ HooksInv'
<1>1. /\ GroupInv' /\ group'.token = group.token /\ group'.retired = group.retired
      /\ group'.app = group.app
  BY RetireFails
<1>2. /\ hooks' \subseteq HookType /\ IsFiniteSet(hooks')
      /\ \A g : g.token = group.token /\ g.retired = group.retired /\ g.app = group.app
                => HooksOK(hooks', g)
  BY WholeSwept
<1> QED
  BY <1>1, <1>2 DEF HooksInv

(* RefreshRuntimeOwnerTree                                                 *)
LEMMA RefreshTreeKeeps ==
  ASSUME GroupInv, HooksInv, runtime # "deleted", runtime' # "deleted",
         NEW modules \in ModuleMaps, RefreshRuntimeOwnerTree(modules)
  PROVE  GroupInv' /\ HooksInv'
<1> DEFINE whole == TRUE
           swept == Swept(group, {}, whole)
           retired == Retired(group, {}, modules, whole)
<1>1. CASE Remapped(modules)
  <2>1. PICK failed \in Failures(swept \ retired) :
          /\ Sweep(swept, retired, failed)
          /\ IF failed = {} THEN RefreshGroup(NewGroup(NextToken), modules)
             ELSE Publish(DrainingGroup(NextGeneration(group), {}, TRUE)) /\ process' = process
    BY <1>1 DEF RefreshRuntimeOwnerTree, RetireActive, Transition
  <2>2. whole
    OBVIOUS
  <2> HIDE DEF whole
  <2>3. CASE failed = {}
    <3>1. GroupInv'
      BY <2>1, <2>3, NextTokenIs, RefreshNewKeeps DEF HooksInv
    <3>2. /\ hooks' \subseteq HookType /\ IsFiniteSet(hooks')
          /\ \A h \in hooks' : h.status = "retired"
      BY <2>1, <2>2, <2>3, WholeSwept
    <3> QED
      BY <3>1, <3>2, GivenUpKeeps
  <2>4. CASE failed # {}
    BY <2>1, <2>2, <2>4, RetireStops
  <2> QED
    BY <2>3, <2>4
<1>2. CASE ~Remapped(modules)
  BY <1>2, RefreshKeeps DEF RefreshRuntimeOwnerTree
<1> QED
  BY <1>1, <1>2

(* The observation of the heap for a group with the images of the active   *)
(* one                                                                     *)
LEMMA ObservedKeeps ==
  ASSUME GroupInv, HooksInv, runtime # "deleted", runtime' # "deleted", NEW c \in Contexts,
         Observed(group, c), UNCHANGED <<process, hooks>>
  PROVE  GroupInv' /\ HooksInv'
<1>1. /\ GroupOK(group) /\ process \in ProcessType
      /\ HistoryInv(group, process.next_epoch, closed) /\ HooksOK(hooks, group)
  BY DEF GroupInv, HooksInv
<1>2. CASE Publish(group)
  <2>1. GroupInv' /\ group' = group
    BY <1>1, <1>2, SameGroupKeeps
  <2> QED
    BY <2>1 DEF HooksInv
<1>3. ASSUME Root \in {i.unit : i \in group.images}, NEW units, Root \in units,
             Publish(IndexedGroup(group, c, units))
      PROVE  GroupInv' /\ HooksInv'
  <2> DEFINE h == IndexedGroup(group, c, units)
  <2>1. /\ GroupOK(h) /\ h.epoch = group.epoch /\ h.next_epoch = group.next_epoch
        /\ h.token = group.token /\ h.generation = group.generation /\ h.app = group.app
        /\ h.retired = group.retired
        /\ \A b \in h.images : \E i \in group.images : Same(i, b) /\ i.generation <= b.generation
        /\ \A i \in group.images : i.generation = group.generation =>
             \E b \in h.images : b.lifecycle = "active" /\ OwnerIdentity(b) = OwnerIdentity(i)
    BY <1>1, <1>3, IndexedOK
  <2>2. Publish(h)
    BY <1>3
  <2> HIDE DEF h
  <2>3. h.next_epoch \in Nat
    BY <2>1, GroupFields DEF GroupOK
  <2>4. Follows(group, h, process.next_epoch, process.next_epoch)
    BY <1>1, <2>1, <2>3, SameEpochFollows
  <2>5. GroupInv' /\ group' = h
    BY <1>1, <2>1, <2>2, <2>4, PublishKeeps
  <2>6. ASSUME NEW k \in hooks, k.status = "installed"
        PROVE  \E b \in h.images : OwnerIdentity(b) = k.owner /\ b.lifecycle = "active"
    <3>1. PICK i \in group.images : OwnerIdentity(i) = k.owner
      BY <1>1, <2>6 DEF HooksOK
    <3>2. i.generation = group.generation
      BY <1>1, <2>6, <3>1, OwnerFields DEF HooksOK
    <3> QED
      BY <2>1, <3>1, <3>2
  <2>7. HooksOK(hooks, h)
    BY <1>1, <2>1, <2>6 DEF HooksOK
  <2> QED
    BY <2>5, <2>7 DEF HooksInv
<1> QED
  BY <1>2, <1>3 DEF Observed

(* The observation of the heap for the group that takes the place of the   *)
(* active one                                                              *)
LEMMA SeededKeeps ==
  ASSUME GroupInv, NextToken \in Nat, ~group.retired, group.context # None, NEW c \in Contexts,
         Observed(SeededGroup, c), process' = [process EXCEPT !.next_epoch = @ + 1]
  PROVE  GroupInv'
<1> DEFINE s == SeededGroup
<1>1. /\ GroupOK(group) /\ process \in ProcessType /\ process.next_epoch \in Nat
      /\ HistoryInv(group, process.next_epoch, closed)
  BY DEF GroupInv, HistoryInv
<1>2. process' \in ProcessType /\ process'.next_epoch = process.next_epoch + 1
  BY <1>1 DEF ProcessType
<1>3. GroupOK(s) /\ s.epoch = process.next_epoch
  BY <1>1, SeededOK
<1> HIDE DEF s
<1>4. CASE Publish(s)
  <2>1. Follows(group, s, process.next_epoch, process'.next_epoch)
    BY <1>1, <1>2, <1>3 DEF Follows
  <2> QED
    BY <1>2, <1>3, <1>4, <2>1, PublishKeeps
<1>5. ASSUME Root \in {i.unit : i \in s.images}, NEW units, Root \in units,
             Publish(IndexedGroup(s, c, units))
      PROVE  GroupInv'
  <2> DEFINE h == IndexedGroup(s, c, units)
  <2>1. GroupOK(h) /\ h.epoch = s.epoch
    BY <1>3, <1>5, IndexedOK
  <2>2. Publish(h)
    BY <1>5
  <2> HIDE DEF h
  <2>3. Follows(group, h, process.next_epoch, process'.next_epoch)
    BY <1>1, <1>2, <1>3, <2>1 DEF Follows
  <2> QED
    BY <1>2, <2>1, <2>2, <2>3, PublishKeeps
<1> QED
  BY <1>4, <1>5 DEF Observed, s

(* BuildLiveIndexForContext                                                *)
LEMMA BuildKeeps ==
  ASSUME GroupInv, HooksInv, runtime # "deleted", runtime' # "deleted", NEW c \in Contexts,
         BuildLiveIndex(c)
  PROVE  GroupInv' /\ HooksInv'
<1> DEFINE whole == TRUE
           swept == Swept(group, {}, whole)
           retired == Retired(group, {}, process.modules, whole)
<1>1. CASE UNCHANGED <<process, group, closed, hooks>>
  <2>1. GroupInv' /\ group' = group
    BY <1>1, SameGroupKeeps DEF GroupInv
  <2> QED
    BY <1>1, <2>1 DEF HooksInv
<1>2. CASE Observed(group, c) /\ UNCHANGED <<process, hooks>>
  BY <1>2, ObservedKeeps
<1>3. CASE /\ ~group.retired /\ group.context \notin {None, c}
           /\ RetireActive(process.modules,
                           Observed(SeededGroup, c)
                             /\ process' = [process EXCEPT !.next_epoch = @ + 1])
  <2>1. PICK failed \in Failures(swept \ retired) :
          /\ Sweep(swept, retired, failed)
          /\ IF failed = {}
             THEN Observed(SeededGroup, c) /\ process' = [process EXCEPT !.next_epoch = @ + 1]
             ELSE Publish(DrainingGroup(NextGeneration(group), {}, TRUE)) /\ process' = process
    BY <1>3 DEF RetireActive, Transition
  <2>2. whole
    OBVIOUS
  <2> HIDE DEF whole
  <2>3. CASE failed = {}
    <3>1. NextToken \in Nat
      BY NextTokenIs DEF HooksInv
    <3>2. GroupInv'
      BY <1>3, <2>1, <2>3, <3>1, SeededKeeps
    <3>3. /\ hooks' \subseteq HookType /\ IsFiniteSet(hooks')
          /\ \A h \in hooks' : h.status = "retired"
      BY <2>1, <2>2, <2>3, WholeSwept
    <3> QED
      BY <3>2, <3>3, GivenUpKeeps
  <2>4. CASE failed # {}
    BY <2>1, <2>2, <2>4, RetireStops
  <2> QED
    BY <2>3, <2>4
<1> QED
  BY <1>1, <1>2, <1>3 DEF BuildLiveIndex

(* A deferred unit is unloaded.                                            *)
LEMMA UnloadingUnitKeeps ==
  ASSUME GroupInv, HooksInv, runtime # "deleted", runtime' # "deleted", NEW m \in Units, NEW t,
         UnloadingUnit(t, m)
  PROVE  GroupInv' /\ HooksInv'
<1> DEFINE whole == FALSE
           S == Staying(group, m)
           h == Unloaded(group, m)
           d == DrainingGroup(group, S, whole)
<1>1. PICK k \in group.images : k.unit = m
  BY DEF UnloadingUnit
<1>2. S = {i \in group.images : i.unit # m} /\ process' = process
  BY DEF Staying, UnloadingUnit
<1>3. PICK failed \in Failures(Swept(group, S, whole)
                                 \ Retired(group, S, process.modules, whole)) :
        /\ Sweep(Swept(group, S, whole), Retired(group, S, process.modules, whole), failed)
        /\ IF failed = {} THEN Publish(h) ELSE Publish(d)
  BY <1>2 DEF UnloadingUnit, Transition, Unloaded
<1>4. ~whole
  OBVIOUS
<1>5. /\ GroupOK(group) /\ process \in ProcessType
      /\ HistoryInv(group, process.next_epoch, closed) /\ group.next_epoch \in Nat
  BY GroupFields DEF GroupInv, GroupOK
<1>6. /\ GroupOK(h) /\ h.images = BoundImages(group, S, whole)
      /\ h.epoch = group.epoch /\ h.next_epoch = group.next_epoch /\ h.token = group.token
      /\ h.generation = group.generation /\ h.app = group.app /\ h.retired = group.retired
      /\ \A i \in h.images : \E j \in group.images : OwnerIdentity(i) = OwnerIdentity(j)
  BY <1>1, <1>5, UnloadedOK
<1> HIDE DEF whole, h, S
<1>7. /\ GroupOK(d) /\ d.epoch = group.epoch /\ d.next_epoch = group.next_epoch
      /\ d.token = group.token /\ d.app = group.app /\ d.retired = group.retired
      /\ d.generation = group.generation
      /\ \A i \in d.images : \E j \in group.images : OwnerIdentity(i) = OwnerIdentity(j)
      /\ \A j \in group.images : j \in Affected(group, S, whole) \/ j \in d.images
  BY <1>5, DrainingOK
<1> HIDE DEF d
<1>8. /\ Follows(group, h, process.next_epoch, process.next_epoch)
      /\ Follows(group, d, process.next_epoch, process.next_epoch)
  BY <1>5, <1>6, <1>7, DrainingFollows
<1>9. GroupInv' /\ group' = IF failed = {} THEN h ELSE d
  BY <1>2, <1>3, <1>5, <1>6, <1>7, <1>8, PublishKeeps
<1>10. /\ hooks' \subseteq HookType /\ IsFiniteSet(hooks')
       /\ \A g :
            /\ g.token = group.token /\ g.generation = group.generation
            /\ g.retired \/ g.app = None => group.retired \/ group.app = None
            /\ \A i \in group.images :
                 i.lifecycle = "active" /\ i \notin Affected(group, S, whole) =>
                   \E b \in g.images : /\ b.lifecycle = "active"
                                       /\ OwnerIdentity(b) = OwnerIdentity(i)
            => HooksOK(hooks', g)
  BY <1>3, <1>4, PartSwept
<1>11. ASSUME NEW i \in group.images, i \notin Affected(group, S, whole)
       PROVE  \E b \in h.images : b.lifecycle = "active" /\ OwnerIdentity(b) = OwnerIdentity(i)
  <2>1. OwnerIdentity(i) \in Owners(S)
    BY <1>4, <1>11 DEF Affected
  <2>2. PICK j \in S : OwnerIdentity(j) = OwnerIdentity(i)
    BY <2>1 DEF Owners
  <2>3. S \in SUBSET ImageType /\ Distinct(S)
    BY <1>2, <1>5, GroupFields DEF GroupOK, ImagesInv, Distinct
  <2>4. \E b \in BoundImages(group, S, whole) :
          OwnerIdentity(b) = OwnerIdentity(j) /\ b.lifecycle = "active"
    BY <2>2, <2>3, Bound
  <2> QED
    BY <1>6, <2>2, <2>4
<1>12. HooksOK(hooks', h)
  BY <1>6, <1>10, <1>11
<1>13. HooksOK(hooks', d)
  BY <1>7, <1>10
<1> QED
  BY <1>9, <1>10, <1>12, <1>13 DEF HooksInv

(* The app is unloaded.                                                    *)
LEMMA UnloadingAppKeeps ==
  ASSUME GroupInv, HooksInv, runtime # "deleted", runtime' # "deleted", NEW t, UnloadingApp(t)
  PROVE  GroupInv' /\ HooksInv'
<1> DEFINE whole == TRUE
           swept == Swept(group, {}, whole)
           retired == Retired(group, {}, process.modules, whole)
           r == RetiredGroup(group)
<1>1. PICK failed \in Failures(swept \ retired) :
        /\ Sweep(swept, retired, failed)
        /\ IF failed = {} THEN Publish(r)
                          ELSE Publish(DrainingGroup(NextGeneration(group), {}, TRUE))
  BY DEF UnloadingApp, Transition
<1>2. whole
  OBVIOUS
<1> HIDE DEF whole
<1>3. process' = process
  BY DEF UnloadingApp
<1>4. /\ GroupOK(group) /\ process \in ProcessType
      /\ HistoryInv(group, process.next_epoch, closed)
  BY DEF GroupInv
<1>5. CASE failed = {}
  <2>1. GroupOK(r) /\ r.images = {} /\ r.epoch = group.epoch
    BY <1>4, RetiredOK
  <2> HIDE DEF r
  <2>2. Follows(group, r, process.next_epoch, process.next_epoch)
    BY <1>4, <2>1 DEF Follows, HistoryInv
  <2>3. GroupInv'
    BY <1>1, <1>3, <1>4, <1>5, <2>1, <2>2, PublishKeeps
  <2>4. /\ hooks' \subseteq HookType /\ IsFiniteSet(hooks')
        /\ \A h \in hooks' : h.status = "retired"
    BY <1>1, <1>2, <1>5, WholeSwept
  <2> QED
    BY <2>3, <2>4, GivenUpKeeps
<1>6. CASE failed # {}
  BY <1>1, <1>2, <1>3, <1>6, RetireStops
<1> QED
  BY <1>5, <1>6

-----------------------------------------------------------------------------
(* Threads and their leases                                                *)

Leasing == {"refresh", "refresh_seen", "bootstrap"}
Creating == {"create", "create_seen"}
Destroying == {"destroy", "destroy_seen"}
Closing == {"close"} \cup Destroying
ClientStates == {"idle"} \cup Leasing \cup Creating \cup Closing
WorkerStates == {"idle", "refresh", "refresh_seen", "complete"}
RuntimeStates == {"none", "creating", "live", "closing", "deleted"}

Holds(t) == IF t = Worker THEN worker.lease ELSE pc[t] \in Leasing

Leased == {t \in Threads : Holds(t)}

(* active_operations counts the leases; while one is held the runtime is   *)
(* registered, or is closing and waits; nobody else destroys it.           *)
ThreadsInv ==
  /\ pc \in [Threads -> ClientStates \cup WorkerStates] /\ pc[Worker] \in WorkerStates
  /\ \A t \in Clients : pc[t] \in ClientStates
  /\ runtime \in RuntimeStates
  /\ worker.lease \in BOOLEAN /\ (pc[Worker] = "idle" => ~worker.lease)
  /\ active_operations = Cardinality(Leased)
  /\ Leased # {} => runtime \in {"creating", "live", "closing"}
  /\ \A t \in Clients : /\ pc[t] \in Creating => runtime = "creating"
                        /\ pc[t] \in Closing => runtime = "closing"
                        /\ pc[t] \in Destroying => Leased = {}
  /\ \A t, u \in Clients : \/ pc[t] \in Creating /\ pc[u] \in Creating
                           \/ pc[t] \in Closing /\ pc[u] \in Closing
                           => t = u

WorkerType == [merged : Nat, saw : Nat, lease : BOOLEAN, completed : Nat]

(* The worker has in hand requests that there are; it has enumerated the   *)
(* modules after the events that they were made for.                       *)
WorkerInv ==
  /\ worker \in WorkerType /\ asked \in Seq(Nat) /\ events \in Nat
  /\ worker.completed + Len(asked) <= MaxRequests /\ worker.merged <= Len(asked)
  /\ \A e \in 1 .. Len(asked) : asked[e] <= events
  /\ pc[Worker] \in {"refresh_seen", "complete"} =>
       \A e \in 1 .. worker.merged : asked[e] <= worker.saw

(* There are finitely many threads.                                        *)
LEMMA ThreadsFinite ==
  /\ IsFiniteSet(Threads) /\ Worker \in Threads /\ Clients \subseteq Threads
  /\ Worker \notin Clients
  /\ IsFiniteSet(Leased) /\ Cardinality(Leased) \in Nat
  /\ Cardinality(Leased) <= Cardinality(Threads) /\ Cardinality(Threads) \in Nat
<1>1. IsFiniteSet(Clients \cup {Worker})
  BY OperationsAssumption, FS_AddElement
<1>2. IsFiniteSet(Threads) /\ Leased \in SUBSET Threads
  BY <1>1 DEF Threads, Leased
<1>3. Worker \in Threads /\ Clients \subseteq Threads /\ Worker \notin Clients
  BY OperationsAssumption DEF Threads
<1> HIDE DEF Leased
<1> QED
  BY <1>2, <1>3, FS_Subset, FS_CardinalityType

(* The leases after one thread has taken or given back one                 *)
LEMMA LeasesMove ==
  ASSUME NEW t \in Threads, \A u \in Threads : u # t => (Holds(u)' <=> Holds(u))
  PROVE  /\ (Holds(t)' <=> Holds(t)) => Leased' = Leased
         /\ Holds(t)' /\ ~Holds(t) =>
              Leased' = Leased \cup {t} /\ Cardinality(Leased') = Cardinality(Leased) + 1
         /\ ~Holds(t)' /\ Holds(t) =>
              Leased' = Leased \ {t} /\ Cardinality(Leased') = Cardinality(Leased) - 1
<1>1. \A u \in Threads : (u \in Leased' <=> Holds(u)') /\ (u \in Leased <=> Holds(u))
  BY DEF Leased, Threads
<1>2. Leased \subseteq Threads /\ Leased' \subseteq Threads
  BY DEF Leased, Threads
<1> HIDE DEF Leased, Holds
<1>3. ASSUME Holds(t)', ~Holds(t)
      PROVE  Leased' = Leased \cup {t} /\ Cardinality(Leased') = Cardinality(Leased) + 1
  <2>1. Leased' = Leased \cup {t} /\ t \notin Leased
    BY <1>1, <1>2, <1>3
  <2> QED
    BY <2>1, ThreadsFinite, FS_AddElement
<1>4. ASSUME ~Holds(t)', Holds(t)
      PROVE  Leased' = Leased \ {t} /\ Cardinality(Leased') = Cardinality(Leased) - 1
  <2>1. Leased' = Leased \ {t} /\ t \in Leased
    BY <1>1, <1>2, <1>4
  <2> QED
    BY <2>1, ThreadsFinite, FS_RemoveElement
<1>5. ASSUME Holds(t)' <=> Holds(t)
      PROVE  Leased' = Leased
  BY <1>1, <1>2, <1>5
<1> QED
  BY <1>3, <1>4, <1>5

(* A client goes on.                                                       *)
LEMMA ClientMoves ==
  ASSUME ThreadsInv, NEW t \in Clients, NEW to \in ClientStates, pc' = [pc EXCEPT ![t] = to],
         UNCHANGED worker
  PROVE  /\ pc' \in [Threads -> ClientStates \cup WorkerStates] /\ pc'[Worker] = pc[Worker]
         /\ \A u \in Clients : pc'[u] = IF u = t THEN to ELSE pc[u]
         /\ pc[t] \in Leasing <=> to \in Leasing => Leased' = Leased
         /\ pc[t] \notin Leasing /\ to \in Leasing =>
              Leased' = Leased \cup {t} /\ Cardinality(Leased') = Cardinality(Leased) + 1
         /\ pc[t] \in Leasing /\ to \notin Leasing =>
              Leased' = Leased \ {t} /\ Cardinality(Leased') = Cardinality(Leased) - 1
<1>1. /\ pc' \in [Threads -> ClientStates \cup WorkerStates]
      /\ \A u \in Threads : pc'[u] = IF u = t THEN to ELSE pc[u]
  BY ThreadsFinite DEF ThreadsInv
<1>2. t # Worker /\ t \in Threads
  BY ThreadsFinite
<1>3. /\ \A u \in Threads : u # t => (Holds(u)' <=> Holds(u))
      /\ (Holds(t) <=> pc[t] \in Leasing) /\ (Holds(t)' <=> to \in Leasing)
  BY <1>1, <1>2 DEF Holds
<1> QED
  BY <1>1, <1>2, <1>3, LeasesMove, ThreadsFinite

(* The worker goes on.                                                     *)
LEMMA WorkerMoves ==
  ASSUME ThreadsInv, NEW to \in WorkerStates, pc' = [pc EXCEPT ![Worker] = to],
         worker'.lease \in BOOLEAN
  PROVE  /\ pc' \in [Threads -> ClientStates \cup WorkerStates] /\ pc'[Worker] = to
         /\ \A u \in Clients : pc'[u] = pc[u]
         /\ (worker'.lease <=> worker.lease) => Leased' = Leased
         /\ worker'.lease /\ ~worker.lease =>
              Leased' = Leased \cup {Worker} /\ Cardinality(Leased') = Cardinality(Leased) + 1
         /\ ~worker'.lease /\ worker.lease =>
              Leased' = Leased \ {Worker} /\ Cardinality(Leased') = Cardinality(Leased) - 1
<1>1. /\ pc' \in [Threads -> ClientStates \cup WorkerStates]
      /\ \A u \in Threads : pc'[u] = IF u = Worker THEN to ELSE pc[u]
  BY ThreadsFinite DEF ThreadsInv
<1>2. /\ \A u \in Threads : u # Worker => (Holds(u)' <=> Holds(u))
      /\ (Holds(Worker) <=> worker.lease) /\ (Holds(Worker)' <=> worker'.lease)
  BY <1>1 DEF Holds
<1>3. Worker \in Threads
  BY ThreadsFinite
<1>4. /\ (worker'.lease <=> worker.lease) => Leased' = Leased
      /\ worker'.lease /\ ~worker.lease =>
           Leased' = Leased \cup {Worker} /\ Cardinality(Leased') = Cardinality(Leased) + 1
      /\ ~worker'.lease /\ worker.lease =>
           Leased' = Leased \ {Worker} /\ Cardinality(Leased') = Cardinality(Leased) - 1
  BY <1>2, <1>3, LeasesMove
<1> QED
  BY <1>1, <1>4, ThreadsFinite

(* Nothing of it changes.                                                  *)
LEMMA ThreadsRest ==
  ASSUME ThreadsInv, UNCHANGED <<active_operations, pc, runtime, worker>>
  PROVE  ThreadsInv'
<1>1. Leased' = Leased
  BY DEF Leased, Holds
<1> QED
  BY <1>1 DEF ThreadsInv

(* A client goes on: what it is doing agrees with the runtime, and its     *)
(* lease is counted.                                                       *)
LEMMA ClientKeeps ==
  ASSUME ThreadsInv, NEW t \in Clients, NEW to \in ClientStates, pc' = [pc EXCEPT ![t] = to],
         UNCHANGED worker, runtime' \in RuntimeStates,
         runtime' = runtime \/ \A u \in Clients : u # t => pc[u] \notin Creating \cup Closing,
         to \in Creating => /\ runtime' = "creating"
                            /\ pc[t] \in Creating \/ \A u \in Clients : pc[u] \notin Creating,
         to \in Closing => /\ runtime' = "closing"
                           /\ pc[t] \in Closing \/ \A u \in Clients : pc[u] \notin Closing,
         to \in Destroying => Leased = {},
         to \in Leasing => pc[t] \in Leasing \/ runtime' = "live",
         Leased # {} => runtime' \in {"creating", "live", "closing"},
         active_operations' = IF pc[t] \in Leasing
                                THEN IF to \in Leasing THEN active_operations
                                                       ELSE active_operations - 1
                                ELSE IF to \in Leasing THEN active_operations + 1
                                                       ELSE active_operations
  PROVE  ThreadsInv'
<1>1. /\ pc' \in [Threads -> ClientStates \cup WorkerStates] /\ pc'[Worker] = pc[Worker]
      /\ \A u \in Clients : pc'[u] = IF u = t THEN to ELSE pc[u]
      /\ pc[t] \in Leasing <=> to \in Leasing => Leased' = Leased
      /\ pc[t] \notin Leasing /\ to \in Leasing =>
           Leased' = Leased \cup {t} /\ Cardinality(Leased') = Cardinality(Leased) + 1
      /\ pc[t] \in Leasing /\ to \notin Leasing =>
           Leased' = Leased \ {t} /\ Cardinality(Leased') = Cardinality(Leased) - 1
  BY ClientMoves
<1>2. active_operations' = Cardinality(Leased')
  BY <1>1 DEF ThreadsInv
<1>3. pc[t] \in Leasing => Leased # {}
  BY ThreadsFinite DEF Leased, Holds
<1>4. /\ Leased' # {} => runtime' \in {"creating", "live", "closing"}
      /\ Leased = {} /\ to \notin Leasing => Leased' = {}
  BY <1>1, <1>3
<1>5. \A u \in Clients : u # t => /\ pc[u] \in Creating => runtime' = "creating"
                                  /\ pc[u] \in Closing => runtime' = "closing"
  BY DEF ThreadsInv
<1>6. ASSUME NEW u \in Clients
      PROVE  /\ pc'[u] \in ClientStates
             /\ pc'[u] \in Creating => runtime' = "creating"
             /\ pc'[u] \in Closing => runtime' = "closing"
  BY <1>1, <1>5 DEF ThreadsInv
<1>7. ASSUME NEW u \in Clients, pc'[u] \in Destroying
      PROVE  Leased' = {}
  <2>1. CASE u = t
    <3>1. to \in Destroying /\ to \notin Leasing
      BY <1>1, <1>7, <2>1 DEF Destroying, Leasing
    <3> QED
      BY <1>4, <3>1
  <2>2. CASE u # t
    <3>1. pc[u] \in Destroying /\ pc[u] \in Closing /\ Leased = {}
      BY <1>1, <1>7, <2>2 DEF ThreadsInv, Closing
    <3>2. runtime' = "closing"
      BY <1>5, <2>2, <3>1
    <3> QED
      BY <1>3, <1>4, <3>1, <3>2
  <2> QED
    BY <2>1, <2>2
<1>8. ASSUME NEW u \in Clients, NEW v \in Clients,
             \/ pc'[u] \in Creating /\ pc'[v] \in Creating
             \/ pc'[u] \in Closing /\ pc'[v] \in Closing
      PROVE  u = v
  BY <1>1, <1>8 DEF ThreadsInv
<1>9. worker'.lease = worker.lease
  OBVIOUS
<1> QED
  BY <1>1, <1>2, <1>4, <1>6, <1>7, <1>8, <1>9 DEF ThreadsInv

(* The steps of the threads keep the leases counted.                       *)
LEMMA ThreadsKeep ==
  ASSUME ThreadsInv, WorkerInv, [Next]_vars
  PROVE  ThreadsInv'
<1> USE DEF Leasing, Creating, Destroying, Closing, ClientStates, WorkerStates, RuntimeStates
<1>1. ASSUME NEW t \in Clients, Register(t) PROVE ThreadsInv'
  <2>1. pc[t] = "idle" /\ pc' = [pc EXCEPT ![t] = "create"] /\ runtime = "none"
        /\ runtime' = "creating" /\ UNCHANGED <<worker, active_operations>>
    BY <1>1 DEF Register
  <2> QED
    BY <2>1, ClientKeeps DEF ThreadsInv
<1>2. ASSUME NEW t \in Clients, EnumerateForCreate(t) PROVE ThreadsInv'
  <2>1. pc[t] = "create" /\ pc' = [pc EXCEPT ![t] = "create_seen"]
        /\ UNCHANGED <<worker, active_operations, runtime>>
    BY <1>2 DEF EnumerateForCreate, Enumerates
  <2> QED
    BY <2>1, ClientKeeps DEF ThreadsInv
<1>3. ASSUME NEW t \in Clients, Create(t) PROVE ThreadsInv'
  <2>1. pc[t] = "create_seen" /\ pc' = [pc EXCEPT ![t] = "idle"] /\ runtime' = "live"
        /\ UNCHANGED <<worker, active_operations>>
    BY <1>3 DEF Create
  <2> QED
    BY <2>1, ClientKeeps DEF ThreadsInv
<1>4. ASSUME NEW t \in Clients, NEW to \in Leasing, Acquire(t, to), UNCHANGED <<worker, runtime>>
      PROVE  ThreadsInv'
  <2>1. pc[t] = "idle" /\ pc' = [pc EXCEPT ![t] = to] /\ runtime = "live"
        /\ active_operations' = active_operations + 1
    BY <1>4 DEF Acquire, CanBegin
  <2> QED
    BY <1>4, <2>1, ClientKeeps DEF ThreadsInv
<1>5. ASSUME NEW t \in Clients, EnumerateForRefresh(t) PROVE ThreadsInv'
  <2>1. pc[t] = "refresh" /\ pc' = [pc EXCEPT ![t] = "refresh_seen"]
        /\ UNCHANGED <<worker, active_operations, runtime>>
    BY <1>5 DEF EnumerateForRefresh, Enumerates
  <2> QED
    BY <2>1, ClientKeeps DEF ThreadsInv
<1>6. ASSUME NEW t \in Clients, pc[t] \in Leasing, Release(t), UNCHANGED <<worker, runtime>>
      PROVE  ThreadsInv'
  <2>1. pc' = [pc EXCEPT ![t] = "idle"] /\ active_operations' = active_operations - 1
    BY <1>6 DEF Release
  <2> QED
    BY <1>6, <2>1, ClientKeeps DEF ThreadsInv
<1>7. ASSUME NEW t \in Clients, Close(t) PROVE ThreadsInv'
  <2>1. pc[t] = "idle" /\ pc' = [pc EXCEPT ![t] = "close"] /\ runtime = "live"
        /\ runtime' = "closing" /\ UNCHANGED <<worker, active_operations>>
    BY <1>7 DEF Close
  <2> QED
    BY <2>1, ClientKeeps DEF ThreadsInv
<1>8. ASSUME NEW t \in Clients, CloseEnd(t) PROVE ThreadsInv'
  <2>1. pc[t] = "close" /\ pc' = [pc EXCEPT ![t] = "destroy"] /\ active_operations = 0
        /\ UNCHANGED <<worker, active_operations, runtime>>
    BY <1>8 DEF CloseEnd
  <2>2. Leased = {}
    BY <2>1, ThreadsFinite, FS_EmptySet DEF ThreadsInv
  <2> QED
    BY <2>1, <2>2, ClientKeeps DEF ThreadsInv
<1>9. ASSUME NEW t \in Clients, EnumerateForDestroy(t) PROVE ThreadsInv'
  <2>1. pc[t] = "destroy" /\ pc' = [pc EXCEPT ![t] = "destroy_seen"]
        /\ UNCHANGED <<worker, active_operations, runtime>>
    BY <1>9 DEF EnumerateForDestroy, Enumerates
  <2> QED
    BY <2>1, ClientKeeps DEF ThreadsInv
<1>10. ASSUME NEW t \in Clients, Destroy(t) PROVE ThreadsInv'
  <2>1. pc[t] = "destroy_seen" /\ pc' = [pc EXCEPT ![t] = "idle"] /\ runtime' = "deleted"
        /\ UNCHANGED <<worker, active_operations>>
    BY <1>10 DEF Destroy
  <2> QED
    BY <2>1, ClientKeeps DEF ThreadsInv
<1>11. CASE Wake
  <2> DEFINE pinned == runtime \in {"creating", "live"}
  <2>1. /\ pc[Worker] = "idle" /\ pc' = [pc EXCEPT ![Worker] = "refresh"] /\ UNCHANGED runtime
        /\ worker' = [worker EXCEPT !.merged = Len(asked), !.lease = pinned]
        /\ active_operations' = active_operations + IF pinned THEN 1 ELSE 0
    BY <1>11 DEF Wake
  <2>2. pinned \in BOOLEAN
    OBVIOUS
  <2>3. pinned => runtime \in {"creating", "live"}
    OBVIOUS
  <2> HIDE DEF pinned
  <2>4. (worker'.lease <=> pinned) /\ worker'.lease \in BOOLEAN
    BY <2>1, <2>2 DEF WorkerInv, WorkerType
  <2>5. /\ pc' \in [Threads -> ClientStates \cup WorkerStates] /\ pc'[Worker] = "refresh"
        /\ \A u \in Clients : pc'[u] = pc[u]
        /\ ~pinned => Leased' = Leased
        /\ pinned => /\ Leased' = Leased \cup {Worker}
                     /\ Cardinality(Leased') = Cardinality(Leased) + 1
    BY <2>1, <2>4, WorkerMoves DEF ThreadsInv
  <2>6. active_operations' = Cardinality(Leased')
    BY <2>1, <2>5, ThreadsFinite DEF ThreadsInv
  <2> QED
    BY <2>1, <2>3, <2>4, <2>5, <2>6 DEF ThreadsInv
<1>12. CASE EnumerateForWorker
  <2>1. pc[Worker] = "refresh" /\ pc' = [pc EXCEPT ![Worker] = "refresh_seen"]
        /\ worker'.lease = worker.lease /\ UNCHANGED <<runtime, active_operations>>
    BY <1>12 DEF EnumerateForWorker, Enumerates
  <2> QED
    BY <2>1, WorkerMoves DEF ThreadsInv
<1>13. CASE WorkerRefresh
  <2>1. pc[Worker] = "refresh_seen" /\ pc' = [pc EXCEPT ![Worker] = "complete"]
        /\ UNCHANGED <<runtime, active_operations, worker>>
    BY <1>13 DEF WorkerRefresh
  <2> QED
    BY <2>1, WorkerMoves DEF ThreadsInv
<1>14. CASE Complete
  <2>1. pc[Worker] = "complete" /\ pc' = [pc EXCEPT ![Worker] = "idle"] /\ UNCHANGED runtime
        /\ ~worker'.lease /\ worker'.lease \in BOOLEAN
        /\ active_operations' = active_operations - IF worker.lease THEN 1 ELSE 0
    BY <1>14 DEF Complete, WorkerInv, WorkerType
  <2>2. /\ pc' \in [Threads -> ClientStates \cup WorkerStates] /\ pc'[Worker] = "idle"
        /\ \A u \in Clients : pc'[u] = pc[u]
        /\ ~worker.lease => Leased' = Leased
        /\ worker.lease =>
             Leased' = Leased \ {Worker} /\ Cardinality(Leased') = Cardinality(Leased) - 1
    BY <2>1, WorkerMoves
  <2>3. active_operations' = Cardinality(Leased')
    BY <2>1, <2>2, ThreadsFinite DEF ThreadsInv
  <2> QED
    BY <2>1, <2>2, <2>3 DEF ThreadsInv
<1>15. ASSUME NEW t \in Clients, Begin(t) PROVE ThreadsInv'
  <2>1. CASE Register(t) \/ Close(t)
    BY <1>1, <1>7, <2>1
  <2>2. CASE RefreshBegin(t)
    BY <1>4, <2>2 DEF RefreshBegin
  <2>3. CASE BootstrapBegin(t)
    BY <1>4, <2>3 DEF BootstrapBegin
  <2>4. CASE Once(t)
    BY <2>4, ThreadsRest DEF Once
  <2>5. CASE UnloadingApp(t) \/ Resolve(t) \/ Hook(t)
    BY <2>4, <2>5 DEF UnloadingApp, Resolve, Hook
  <2>6. CASE \E m \in Units : UnloadingUnit(t, m)
    BY <2>4, <2>6 DEF UnloadingUnit
  <2>7. CASE \E c \in Contexts : Capture(t, c)
    BY <2>4, <2>7 DEF Capture
  <2> QED
    BY <1>15, <2>1, <2>2, <2>3, <2>5, <2>6, <2>7 DEF Begin
<1>16. ASSUME NEW t \in Clients, Continue(t) PROVE ThreadsInv'
  <2>1. CASE Refresh(t)
    BY <1>6, <2>1 DEF Refresh
  <2>2. CASE Bootstrap(t)
    BY <1>6, <2>2 DEF Bootstrap
  <2> QED
    BY <1>2, <1>3, <1>5, <1>8, <1>9, <1>10, <1>16, <2>1, <2>2 DEF Continue
<1>17. CASE Loader
  <2>1. UNCHANGED <<active_operations, pc, runtime, worker>>
    BY <1>17 DEF Loader, Map, Unmap, Schedule, threads
  <2> QED
    BY <2>1, ThreadsRest
<1>18. CASE UNCHANGED vars
  BY <1>18, ThreadsRest DEF vars, threads
<1> QED
  BY <1>11, <1>12, <1>13, <1>14, <1>15, <1>16, <1>17, <1>18 DEF Next, Work

-----------------------------------------------------------------------------
(* The loader and the worker                                               *)

(* What is mapped was mapped by an event, and what a thread has seen are   *)
(* modules where they were.                                                *)
LoaderInv ==
  /\ mapped \in [Modules -> {None} \cup [base : Bases, load : Nat]] /\ events \in Nat
  /\ \A m \in Modules : mapped[m] # None => mapped[m].load \in 1 .. events
  /\ seen \in [Threads -> ModuleMaps]

(* Nothing of it changes but what a thread has seen.                       *)
LEMMA LoaderRest ==
  ASSUME LoaderInv, UNCHANGED <<mapped, events>>,
         \/ UNCHANGED seen
         \/ \E t : seen' = [seen EXCEPT ![t] = ModulesNow] \/ seen' = [seen EXCEPT ![t] = Nowhere]
  PROVE  LoaderInv'
<1>1. ModulesNow \in ModuleMaps /\ Nowhere \in ModuleMaps
  BY DEF LoaderInv, ModulesNow, ModuleMaps, Nowhere
<1>2. seen' \in [Threads -> ModuleMaps]
  <2> HIDE DEF ModulesNow, Nowhere, ModuleMaps
  <2> QED
    BY <1>1 DEF LoaderInv
<1> QED
  BY <1>2 DEF LoaderInv

(* An event of the loader                                                  *)
LEMMA LoaderMoves ==
  ASSUME LoaderInv, NEW m \in Modules, Unmap(m) \/ \E b \in Bases : Map(m, b)
  PROVE  LoaderInv'
<1>1. events' = events + 1 /\ UNCHANGED seen /\ events \in Nat
  BY DEF Unmap, Map, threads, LoaderInv
<1>2. CASE Unmap(m)
  BY <1>1, <1>2 DEF LoaderInv, Unmap
<1>3. ASSUME NEW b \in Bases, Map(m, b)
      PROVE  LoaderInv'
  <2> DEFINE r == [base |-> b, load |-> events + 1]
  <2>1. r \in [base : Bases, load : Nat] /\ r.load = events + 1
    BY <1>1
  <2>2. mapped' = [mapped EXCEPT ![m] = r]
    BY <1>3 DEF Map
  <2> HIDE DEF r
  <2> QED
    BY <1>1, <2>1, <2>2 DEF LoaderInv
<1> QED
  BY <1>2, <1>3

(* What each step does to the loader, and to what the threads have seen    *)
LEMMA LoaderKeeps ==
  ASSUME LoaderInv, [Next]_vars
  PROVE  LoaderInv'
<1>1. CASE Loader
  <2>1. CASE Schedule
    BY <2>1, LoaderRest DEF Schedule, threads
  <2> QED
    BY <1>1, <2>1, LoaderMoves DEF Loader
<1>2. CASE Work
  BY <1>2, LoaderRest DEF Work, Wake, EnumerateForWorker, Enumerates, WorkerRefresh, Complete,
                          loader
<1>3. ASSUME NEW t \in Clients, Begin(t) PROVE LoaderInv'
  <2>1. UNCHANGED <<mapped, events, seen>>
    <3>1. CASE Once(t)
      BY <3>1 DEF Once, loader
    <3>2. CASE Register(t) \/ Close(t) \/ RefreshBegin(t) \/ BootstrapBegin(t)
      BY <3>2 DEF Register, Close, RefreshBegin, BootstrapBegin, loader
    <3>3. CASE UnloadingApp(t) \/ Resolve(t) \/ Hook(t)
      BY <3>1, <3>3 DEF UnloadingApp, Resolve, Hook
    <3>4. CASE \E m \in Units : UnloadingUnit(t, m)
      BY <3>1, <3>4 DEF UnloadingUnit
    <3>5. CASE \E c \in Contexts : Capture(t, c)
      BY <3>1, <3>5 DEF Capture
    <3> QED
      BY <1>3, <3>2, <3>3, <3>4, <3>5 DEF Begin
  <2> QED
    BY <2>1, LoaderRest
<1>4. ASSUME NEW t \in Clients, Continue(t) PROVE LoaderInv'
  <2>1. CASE EnumerateForCreate(t) \/ EnumerateForRefresh(t) \/ EnumerateForDestroy(t)
    BY <2>1, LoaderRest DEF EnumerateForCreate, EnumerateForRefresh, EnumerateForDestroy,
                            Enumerates, loader
  <2>2. CASE Create(t) \/ Refresh(t) \/ Destroy(t)
    BY <2>2, LoaderRest DEF Create, Refresh, Destroy, loader
  <2>3. CASE Bootstrap(t) \/ CloseEnd(t)
    BY <2>3, LoaderRest DEF Bootstrap, CloseEnd, loader
  <2> QED
    BY <1>4, <2>1, <2>2, <2>3 DEF Continue
<1>5. CASE UNCHANGED vars
  BY <1>5, LoaderRest DEF vars, loader, threads
<1> QED
  BY <1>1, <1>2, <1>3, <1>4, <1>5 DEF Next

(* Nothing of it changes.                                                  *)
LEMMA WorkerRest ==
  ASSUME WorkerInv, UNCHANGED <<asked, events, worker>>, pc'[Worker] = pc[Worker]
  PROVE  WorkerInv'
BY DEF WorkerInv

(* A client that begins or goes on leaves the worker alone.                *)
LEMMA ClientLeaves ==
  ASSUME ThreadsInv, NEW t \in Clients, Begin(t) \/ Continue(t)
  PROVE  UNCHANGED <<asked, events, worker>> /\ pc'[Worker] = pc[Worker]
<1>1. /\ t # Worker
      /\ UNCHANGED pc \/ (\E to : pc' = [pc EXCEPT ![t] = to]) => pc'[Worker] = pc[Worker]
  BY ThreadsFinite DEF ThreadsInv
<1>2. CASE Once(t)
  BY <1>1, <1>2 DEF Once, loader
<1>3. CASE Register(t) \/ Close(t)
  BY <1>1, <1>3 DEF Register, Close, loader
<1>4. CASE RefreshBegin(t) \/ BootstrapBegin(t)
  BY <1>1, <1>4 DEF RefreshBegin, BootstrapBegin, Acquire, loader
<1>5. CASE UnloadingApp(t) \/ Resolve(t) \/ Hook(t)
  BY <1>2, <1>5 DEF UnloadingApp, Resolve, Hook
<1>6. CASE \E m \in Units : UnloadingUnit(t, m)
  BY <1>2, <1>6 DEF UnloadingUnit
<1>7. CASE \E c \in Contexts : Capture(t, c)
  BY <1>2, <1>7 DEF Capture
<1>8. CASE EnumerateForCreate(t) \/ EnumerateForRefresh(t) \/ EnumerateForDestroy(t)
  BY <1>1, <1>8 DEF EnumerateForCreate, EnumerateForRefresh, EnumerateForDestroy, Enumerates,
                    loader
<1>9. CASE Create(t) \/ CloseEnd(t) \/ Destroy(t)
  BY <1>1, <1>9 DEF Create, CloseEnd, Destroy, loader
<1>10. CASE Refresh(t) \/ Bootstrap(t)
  BY <1>1, <1>10 DEF Refresh, Bootstrap, Release, loader
<1> QED
  BY <1>3, <1>4, <1>5, <1>6, <1>7, <1>8, <1>9, <1>10 DEF Begin, Continue

(* The requests that the worker has in hand                                *)
LEMMA WorkerKeeps ==
  ASSUME WorkerInv, ThreadsInv, [Next]_vars
  PROVE  WorkerInv'
<1>1. CASE Schedule
  <2>1. /\ asked' = Append(asked, events) /\ worker.completed + Len(asked) < MaxRequests
        /\ UNCHANGED <<events, worker, pc>>
    BY <1>1 DEF Schedule, threads
  <2>2. /\ asked \in Seq(Nat) /\ events \in Nat /\ Len(asked) \in Nat /\ worker \in WorkerType
    BY DEF WorkerInv
  <2>3. /\ asked' \in Seq(Nat) /\ Len(asked') = Len(asked) + 1
        /\ \A e \in 1 .. Len(asked) : asked'[e] = asked[e]
        /\ asked'[Len(asked) + 1] = events
    BY <2>1, <2>2
  <2>4. \A e \in 1 .. Len(asked') : asked'[e] <= events
    <3> TAKE e \in 1 .. Len(asked')
    <3>1. e \in 1 .. Len(asked) \/ e = Len(asked) + 1
      BY <2>2, <2>3
    <3>2. CASE e \in 1 .. Len(asked)
      <4>1. asked[e] <= events
        BY <3>2 DEF WorkerInv
      <4> QED
        BY <2>3, <3>2, <4>1
    <3>3. CASE e = Len(asked) + 1
      BY <2>2, <2>3, <3>3
    <3> QED
      BY <3>1, <3>2, <3>3
  <2>5. worker.merged \in Nat /\ worker.completed \in Nat /\ MaxRequests \in Nat
    BY <2>2, OperationsAssumption DEF WorkerType
  <2>6. \A e \in 1 .. worker.merged : e \in 1 .. Len(asked)
    BY <2>2, <2>5 DEF WorkerInv
  <2>7. worker.completed + Len(asked') <= MaxRequests /\ worker.merged <= Len(asked')
    BY <2>1, <2>2, <2>3, <2>5 DEF WorkerInv
  <2> QED
    BY <2>1, <2>2, <2>3, <2>4, <2>6, <2>7 DEF WorkerInv
<1>2. ASSUME NEW m \in Modules, Unmap(m) \/ \E b \in Bases : Map(m, b)
      PROVE  WorkerInv'
  <2>1. events' = events + 1 /\ UNCHANGED <<asked, worker, pc>>
    BY <1>2 DEF Unmap, Map, threads
  <2>2. \A e \in 1 .. Len(asked) : asked[e] \in Nat
    BY DEF WorkerInv
  <2> QED
    BY <2>1, <2>2 DEF WorkerInv
<1>3. CASE Wake
  <2> DEFINE pinned == runtime \in {"creating", "live"}
  <2>1. /\ worker' = [worker EXCEPT !.merged = Len(asked), !.lease = pinned]
        /\ pc' = [pc EXCEPT ![Worker] = "refresh"] /\ UNCHANGED <<asked, events>>
    BY <1>3 DEF Wake, loader
  <2>2. pinned \in BOOLEAN /\ Len(asked) \in Nat
    BY DEF WorkerInv
  <2> HIDE DEF pinned
  <2>3. /\ worker' \in WorkerType /\ worker'.merged = Len(asked)
        /\ worker'.completed = worker.completed
    BY <2>1, <2>2 DEF WorkerInv, WorkerType
  <2>4. pc'[Worker] = "refresh"
    BY <2>1, ThreadsFinite DEF ThreadsInv
  <2> QED
    BY <2>1, <2>2, <2>3, <2>4 DEF WorkerInv
<1>4. CASE EnumerateForWorker
  <2>1. worker' = [worker EXCEPT !.saw = events] /\ UNCHANGED <<asked, events>>
    BY <1>4 DEF EnumerateForWorker, loader
  <2>2. /\ worker' \in WorkerType /\ worker'.merged = worker.merged
        /\ worker'.completed = worker.completed /\ worker'.saw = events
        /\ worker.merged \in Nat /\ Len(asked) \in Nat
    BY <2>1 DEF WorkerInv, WorkerType
  <2>3. \A e \in 1 .. worker.merged : e \in 1 .. Len(asked)
    BY <2>2 DEF WorkerInv
  <2> QED
    BY <2>1, <2>2, <2>3 DEF WorkerInv
<1>5. CASE WorkerRefresh
  <2>1. /\ pc[Worker] = "refresh_seen" /\ pc' = [pc EXCEPT ![Worker] = "complete"]
        /\ UNCHANGED <<asked, events, worker>>
    BY <1>5 DEF WorkerRefresh, loader
  <2> QED
    BY <2>1 DEF WorkerInv
<1>6. CASE Complete
  <2> DEFINE n == worker.merged
  <2>1. /\ asked' = SubSeq(asked, n + 1, Len(asked)) /\ UNCHANGED events
        /\ worker' = [worker EXCEPT !.completed = @ + n, !.merged = 0, !.saw = 0, !.lease = FALSE]
        /\ pc' = [pc EXCEPT ![Worker] = "idle"]
    BY <1>6 DEF Complete, Completed
  <2>2. /\ asked \in Seq(Nat) /\ Len(asked) \in Nat /\ n \in Nat /\ worker.completed \in Nat
        /\ n <= Len(asked) /\ MaxRequests \in Nat
    BY OperationsAssumption DEF WorkerInv, WorkerType
  <2> DEFINE sum == worker.completed + n
             none == FALSE
  <2>3. /\ worker' \in WorkerType /\ worker'.merged = 0 /\ worker'.completed = worker.completed + n
    <3>1. sum \in Nat /\ none \in BOOLEAN /\ sum = worker.completed + n
      BY <2>2
    <3>2. /\ worker \in WorkerType
          /\ worker' = [worker EXCEPT !.completed = sum, !.merged = 0, !.saw = 0, !.lease = none]
      BY <2>1 DEF WorkerInv
    <3> HIDE DEF sum, none, n
    <3> QED
      BY <3>1, <3>2 DEF WorkerType
  <2>4. pc'[Worker] = "idle"
    BY <2>1, ThreadsFinite DEF ThreadsInv
  <2> HIDE DEF n, sum, none
  <2>5. /\ asked' \in Seq(Nat) /\ Len(asked') = Len(asked) - n
        /\ \A e \in 1 .. Len(asked) - n : asked'[e] = asked[n + e]
    <3>1. \A e \in n + 1 .. Len(asked) : e \in 1 .. Len(asked)
      BY <2>2
    <3>2. n + 1 \in Nat /\ \A e \in n + 1 .. Len(asked) : asked[e] \in Nat
      BY <2>2, <3>1
    <3>3. Len(asked') = Len(asked) - n
      BY <2>1, <2>2
    <3>4. \A e \in 1 .. Len(asked) - n : asked'[e] = asked[n + e]
      BY <2>1, <2>2
    <3> DEFINE first == n + 1
               last == Len(asked)
    <3>5. /\ first \in Int /\ last \in Int /\ \A e \in first .. last : asked[e] \in Nat
          /\ asked' = SubSeq(asked, first, last)
      BY <2>1, <2>2, <3>2
    <3> HIDE DEF first, last
    <3>6. asked' \in Seq(Nat)
      BY <3>5, SubSeqProperties
    <3> QED
      BY <3>3, <3>4, <3>6
  <2>6. \A e \in 1 .. Len(asked) - n : n + e \in 1 .. Len(asked)
    BY <2>2
  <2>7. \A e \in 1 .. Len(asked') : asked'[e] <= events
    BY <2>5, <2>6 DEF WorkerInv
  <2>8. worker'.completed + Len(asked') <= MaxRequests /\ worker'.merged <= Len(asked')
    BY <2>2, <2>3, <2>5 DEF WorkerInv
  <2> QED
    BY <2>1, <2>3, <2>4, <2>5, <2>7, <2>8 DEF WorkerInv
<1>7. ASSUME NEW t \in Clients, Begin(t) \/ Continue(t)
      PROVE  WorkerInv'
  BY <1>7, ClientLeaves, WorkerRest
<1>8. CASE UNCHANGED vars
  BY <1>8, WorkerRest DEF vars, loader, threads
<1> QED
  BY <1>1, <1>2, <1>3, <1>4, <1>5, <1>6, <1>7, <1>8 DEF Next, Loader, Work

(* A refresh that a step reports as complete has seen what was asked for.  *)
LEMMA CompleteSees ==
  ASSUME WorkerInv, ThreadsInv, [Next]_vars
  PROVE  \A e \in 1 .. worker'.completed - worker.completed : asked[e] <= worker.saw
<1>1. worker.completed \in Nat /\ worker.merged \in Nat
  BY DEF WorkerInv, WorkerType
<1>2. CASE Complete
  <2>1. worker'.completed = worker.completed + worker.merged /\ pc[Worker] = "complete"
    BY <1>2 DEF Complete, Completed, WorkerInv, WorkerType
  <2>2. worker'.completed - worker.completed = worker.merged
    BY <1>1, <2>1
  <2> QED
    BY <2>1, <2>2 DEF WorkerInv
<1>3. ASSUME worker'.completed = worker.completed
      PROVE  \A e \in 1 .. worker'.completed - worker.completed : asked[e] <= worker.saw
  BY <1>1, <1>3
<1>4. CASE Wake \/ EnumerateForWorker \/ WorkerRefresh
  <2>1. worker'.completed = worker.completed
    BY <1>4 DEF Wake, EnumerateForWorker, WorkerRefresh, WorkerInv, WorkerType
  <2> QED
    BY <1>3, <2>1
<1>5. CASE Loader \/ UNCHANGED vars
  <2>1. UNCHANGED worker
    BY <1>5 DEF Loader, Map, Unmap, Schedule, vars
  <2> QED
    BY <1>3, <2>1
<1>6. CASE \E t \in Clients : Begin(t) \/ Continue(t)
  BY <1>3, <1>6, ClientLeaves
<1> QED
  BY <1>2, <1>4, <1>5, <1>6 DEF Next, Work

-----------------------------------------------------------------------------
(* The steps on the group, its hooks and its method                        *)

(* A method was resolved for the owner of an image.                        *)
MethodInv ==
  method # None =>
    /\ method.token \in Nat /\ method.unit \in Modules /\ method.base \in Bases
    /\ method.owner \in OwnerType /\ method.owner.generation = method.generation

RuntimeInv == GroupInv /\ HooksInv /\ MethodInv

(* Nothing of it changes.                                                  *)
LEMMA GroupRest ==
  ASSUME RuntimeInv, UNCHANGED <<process, group, closed, hooks, method>>,
         runtime = "deleted" <=> runtime' = "deleted"
  PROVE  RuntimeInv'
<1>1. GroupInv'
  BY SameGroupKeeps DEF RuntimeInv, GroupInv
<1>2. HooksInv'
  BY DEF RuntimeInv, HooksInv
<1> QED
  BY <1>1, <1>2 DEF RuntimeInv, MethodInv

(* While a thread holds a lease, the runtime is not deleted.               *)
LEMMA LeaseHolds ==
  ASSUME ThreadsInv, NEW t \in Threads, Holds(t)
  PROVE  runtime # "deleted"
BY DEF ThreadsInv, Leased

(* dartplant_runtime_resolve_method                                        *)
LEMMA ResolveKeeps ==
  ASSUME RuntimeInv, NEW t, Resolve(t)
  PROVE  RuntimeInv'
<1>1. UNCHANGED <<process, group, closed, hooks, runtime>>
  BY DEF Resolve, Once
<1>2. PICK i \in group.images :
        /\ i.generation = group.generation
        /\ method' = [token |-> group.token, generation |-> group.generation,
                      unit |-> i.unit, base |-> i.base, owner |-> OwnerIdentity(i)]
  BY DEF Resolve
<1>3. group \in GroupType /\ group.token \in Nat
  BY GroupFields DEF RuntimeInv, GroupInv, GroupOK
<1>4. MethodInv'
  BY <1>2, <1>3, ImageFields, OwnerFields DEF MethodInv
<1>5. GroupInv'
  BY <1>1, SameGroupKeeps DEF RuntimeInv, GroupInv
<1>6. HooksInv'
  BY <1>1 DEF RuntimeInv, HooksInv
<1> QED
  BY <1>4, <1>5, <1>6 DEF RuntimeInv

(* A hook is installed for a current method.                               *)
LEMMA HookKeeps ==
  ASSUME RuntimeInv, LoaderInv, NEW t, Hook(t)
  PROVE  RuntimeInv'
<1> DEFINE h == [token |-> method.token, unit |-> method.unit, base |-> method.base,
                 load |-> mapped[method.unit].load, owner |-> method.owner,
                 status |-> "installed"]
<1>1. /\ UNCHANGED <<process, group, closed, method, runtime>> /\ runtime = "live"
      /\ hooks' = hooks \cup {h}
  BY DEF Hook, Once, CanBegin
<1>2. method # None /\ method.token = group.token /\ method.generation = group.generation
  BY DEF Hook, IsCurrent
<1>3. PICK i \in group.images : i.lifecycle = "active" /\ method.owner = OwnerIdentity(i)
  BY DEF Hook, IsCurrent
<1>4. /\ method.token \in Nat /\ method.unit \in Modules /\ method.base \in Bases
      /\ method.owner \in OwnerType /\ method.owner.generation = method.generation
  BY <1>2 DEF RuntimeInv, MethodInv
<1>5. mapped[method.unit].load \in Nat
  BY <1>4 DEF Hook, LoaderInv
<1>6. /\ h \in HookType /\ h.token = group.token /\ h.owner = method.owner
      /\ h.owner.generation = group.generation
  BY <1>2, <1>4, <1>5 DEF HookType, OwnerType
<1> HIDE DEF h
<1>7. ~group.retired /\ group.app # None
  BY <1>3 DEF RuntimeInv, GroupInv, GroupOK, ImagesInv
<1>8. hooks \subseteq HookType /\ IsFiniteSet(hooks) /\ HooksOK(hooks, group)
  BY <1>1 DEF RuntimeInv, HooksInv
<1>9. IsFiniteSet(hooks')
  BY <1>1, <1>8, FS_AddElement
<1>10. HooksOK(hooks', group)
  BY <1>1, <1>3, <1>6, <1>7, <1>8 DEF HooksOK
<1>11. HooksInv'
  BY <1>1, <1>6, <1>8, <1>9, <1>10 DEF HooksInv
<1>12. GroupInv'
  BY <1>1, SameGroupKeeps DEF RuntimeInv, GroupInv
<1> QED
  BY <1>1, <1>11, <1>12 DEF RuntimeInv, MethodInv

(* dartplant_runtime_destroy                                               *)
LEMMA DestroyKeeps ==
  ASSUME RuntimeInv, ThreadsInv, NEW t \in Clients, Destroy(t)
  PROVE  RuntimeInv'
<1>1. PICK retired \in SUBSET HooksOf(group) :
        \E failed \in Failures(HooksOf(group) \ retired) : Sweep(HooksOf(group), retired, failed)
  BY DEF Destroy
<1>2. PICK failed \in Failures(HooksOf(group) \ retired) : Sweep(HooksOf(group), retired, failed)
  BY <1>1
<1>3. failed \in SUBSET HooksOf(group)
  BY <1>2 DEF Failures
<1>4. runtime # "deleted"
  BY DEF Destroy, ThreadsInv, Closing, Destroying
<1>5. hooks \subseteq HookType /\ IsFiniteSet(hooks) /\ HooksOK(hooks, group)
  BY <1>4 DEF RuntimeInv, HooksInv
<1>6. /\ hooks' \subseteq HookType /\ IsFiniteSet(hooks')
      /\ \A h \in hooks' : \/ h \in hooks /\ (h \in HooksOf(group) => h.status = "retired")
                           \/ h.status = "retired"
                           \/ h.status = "failed" /\ h.token = group.token /\ failed # {}
  BY <1>1, <1>2, <1>3, <1>5, SweepLeaves
<1>7. \A h \in hooks' : h.status # "installed"
  BY <1>5, <1>6 DEF HooksOK, HooksOf
<1>8. runtime' = "deleted" /\ process' = NewProcess /\ group' = NewGroup(1) /\ closed' = {}
      /\ method' = None
  BY DEF Destroy
<1>9. HooksInv'
  BY <1>6, <1>7, <1>8 DEF HooksInv
<1>10. GroupOK(group') /\ group'.epoch = 0
  BY <1>8, NewGroupOK
<1>11. process' \in ProcessType /\ process'.next_epoch = 1
  BY <1>8 DEF NewProcess, ProcessType, Nowhere, ModuleMaps
<1>12. HistoryInv(group', process'.next_epoch, closed')
  BY <1>8, <1>10, <1>11 DEF HistoryInv
<1> QED
  BY <1>8, <1>9, <1>10, <1>11, <1>12 DEF RuntimeInv, GroupInv, MethodInv

(* What each step does to the group, its hooks and its method              *)
LEMMA RuntimeKeeps ==
  ASSUME RuntimeInv, ThreadsInv, LoaderInv, [Next]_vars
  PROVE  RuntimeInv'
<1>1. ASSUME NEW t \in Clients, Begin(t) PROVE RuntimeInv'
  <2>1. ASSUME Once(t) PROVE runtime # "deleted" /\ runtime' # "deleted"
    BY <2>1 DEF Once, CanBegin
  <2>2. CASE Register(t) \/ Close(t)
    BY <2>2, GroupRest DEF Register, Close
  <2>3. CASE RefreshBegin(t) \/ BootstrapBegin(t)
    BY <2>3, GroupRest DEF RefreshBegin, BootstrapBegin
  <2>4. CASE UnloadingApp(t)
    <3>1. Once(t) /\ UNCHANGED method
      BY <2>4 DEF UnloadingApp
    <3> QED
      BY <2>1, <2>4, <3>1, UnloadingAppKeeps DEF RuntimeInv, MethodInv
  <2>5. ASSUME NEW m \in Units, UnloadingUnit(t, m) PROVE RuntimeInv'
    <3>1. Once(t) /\ UNCHANGED method
      BY <2>5 DEF UnloadingUnit
    <3> QED
      BY <2>1, <2>5, <3>1, UnloadingUnitKeeps DEF RuntimeInv, MethodInv
  <2>6. CASE Resolve(t)
    BY <2>6, ResolveKeeps
  <2>7. CASE Hook(t)
    BY <2>7, HookKeeps
  <2>8. ASSUME NEW c \in Contexts, Capture(t, c) PROVE RuntimeInv'
    <3>1. Once(t) /\ UNCHANGED method /\ BuildLiveIndex(c)
      BY <2>8 DEF Capture
    <3> QED
      BY <2>1, <3>1, BuildKeeps DEF RuntimeInv, MethodInv
  <2> QED
    BY <1>1, <2>2, <2>3, <2>4, <2>5, <2>6, <2>7, <2>8 DEF Begin
<1>2. ASSUME NEW t \in Clients, Continue(t) PROVE RuntimeInv'
  <2>1. t \in Threads /\ t # Worker /\ seen[t] \in ModuleMaps
    BY ThreadsFinite DEF LoaderInv
  <2>2. CASE EnumerateForCreate(t) \/ EnumerateForRefresh(t) \/ EnumerateForDestroy(t)
    BY <2>2, GroupRest DEF EnumerateForCreate, EnumerateForRefresh, EnumerateForDestroy
  <2>3. CASE Create(t)
    <3>1. runtime # "deleted" /\ runtime' # "deleted" /\ UNCHANGED method
      BY <2>3 DEF Create, ThreadsInv, Creating
    <3> QED
      BY <2>1, <2>3, <3>1, RefreshKeeps DEF Create, RuntimeInv, MethodInv
  <2>4. CASE Refresh(t)
    <3>1. Holds(t) /\ UNCHANGED <<method, runtime>>
      BY <2>1, <2>4 DEF Refresh, Holds, Leasing
    <3>2. runtime # "deleted" /\ runtime' # "deleted"
      BY <2>1, <3>1, LeaseHolds
    <3> QED
      BY <2>1, <2>4, <3>1, <3>2, RefreshTreeKeeps DEF Refresh, RuntimeInv, MethodInv
  <2>5. CASE Bootstrap(t)
    <3>1. Holds(t) /\ UNCHANGED <<method, runtime>>
      BY <2>1, <2>5 DEF Bootstrap, Holds, Leasing
    <3>2. runtime # "deleted" /\ runtime' # "deleted"
      BY <2>1, <3>1, LeaseHolds
    <3>3. CASE \E c \in Contexts : BuildLiveIndex(c)
      BY <3>1, <3>2, <3>3, BuildKeeps DEF RuntimeInv, MethodInv
    <3>4. CASE UNCHANGED <<process, group, closed, hooks>>
      BY <3>1, <3>4, GroupRest
    <3> QED
      BY <2>5, <3>3, <3>4 DEF Bootstrap
  <2>6. CASE CloseEnd(t)
    BY <2>6, GroupRest DEF CloseEnd
  <2>7. CASE Destroy(t)
    BY <2>7, DestroyKeeps
  <2> QED
    BY <1>2, <2>2, <2>3, <2>4, <2>5, <2>6, <2>7 DEF Continue
<1>3. CASE Wake \/ EnumerateForWorker \/ Complete
  BY <1>3, GroupRest DEF Wake, EnumerateForWorker, Complete
<1>4. CASE WorkerRefresh
  <2>1. UNCHANGED <<method, runtime>> /\ Worker \in Threads
    BY <1>4, ThreadsFinite DEF WorkerRefresh
  <2>2. CASE worker.lease
    <3>1. RefreshRuntimeOwnerTree(seen[Worker]) /\ seen[Worker] \in ModuleMaps
      BY <1>4, <2>1, <2>2 DEF WorkerRefresh, LoaderInv
    <3>2. runtime # "deleted" /\ runtime' # "deleted"
      BY <2>1, <2>2, LeaseHolds DEF Holds
    <3> QED
      BY <2>1, <3>1, <3>2, RefreshTreeKeeps DEF RuntimeInv, MethodInv
  <2>3. CASE ~worker.lease
    BY <1>4, <2>1, <2>3, GroupRest DEF WorkerRefresh
  <2> QED
    BY <2>2, <2>3
<1>5. CASE Loader
  BY <1>5, GroupRest DEF Loader, Map, Unmap, Schedule
<1>6. CASE UNCHANGED vars
  BY <1>6, GroupRest DEF vars
<1> QED
  BY <1>1, <1>2, <1>3, <1>4, <1>5, <1>6 DEF Next, Work

-----------------------------------------------------------------------------
(* The inductive invariant and what follows from it                        *)

IInv == RuntimeInv /\ ThreadsInv /\ LoaderInv /\ WorkerInv

(* A runtime that has not been created                                     *)
LEMMA InitHolds ==
  Init => IInv
<1> SUFFICES ASSUME Init PROVE IInv
  OBVIOUS
<1>1. GroupInv
  <2>1. GroupOK(group) /\ group.epoch = 0 /\ group.images = {}
    BY NewGroupOK DEF Init
  <2>2. process \in ProcessType /\ process.next_epoch = 1
    BY DEF Init, NewProcess, ProcessType, Nowhere, ModuleMaps
  <2>3. HistoryInv(group, process.next_epoch, closed)
    BY <2>1, <2>2 DEF Init, HistoryInv
  <2> QED
    BY <2>1, <2>2, <2>3 DEF GroupInv
<1>2. HooksInv /\ MethodInv
  BY FS_EmptySet DEF Init, HooksInv, HooksOK, MethodInv
<1>3. LoaderInv
  BY DEF Init, LoaderInv, Nowhere, ModuleMaps
<1>4. ThreadsInv
  <2>1. /\ pc = [t \in Threads |-> "idle"] /\ runtime = "none" /\ active_operations = 0
        /\ worker.lease \in BOOLEAN /\ ~worker.lease
    BY DEF Init
  <2>2. Leased = {}
    BY <2>1 DEF Leased, Holds, Leasing
  <2>3. /\ pc \in [Threads -> ClientStates \cup WorkerStates]
        /\ \A t \in Threads : pc[t] = "idle"
    BY <2>1 DEF ClientStates
  <2> QED
    BY <2>1, <2>2, <2>3, ThreadsFinite, FS_EmptySet
       DEF ThreadsInv, ClientStates, WorkerStates, RuntimeStates, Creating, Closing, Destroying
<1>5. WorkerInv
  BY OperationsAssumption DEF Init, WorkerInv, WorkerType
<1> QED
  BY <1>1, <1>2, <1>3, <1>4, <1>5 DEF IInv, RuntimeInv

(* The runtime, its threads, the loader and the worker, in every state     *)
LEMMA Invariance ==
  Spec => []IInv
<1>1. IInv /\ [Next]_vars => IInv'
  BY RuntimeKeeps, ThreadsKeep, LoaderKeeps, WorkerKeeps DEF IInv
<1> QED
  BY <1>1, InitHolds, PTL DEF Spec

(* The images of the group are those of one history of the process: no     *)
(* owner that has left comes back, however often modules are mapped again, *)
(* isolate groups replaced, and drains failed.  (ReconcileOwnershipFrom,   *)
(* BindOwnerEpochs, next_isolate_group_incarnation_epoch)                  *)
THEOREM ImagesStayOfOneHistory ==
  Spec => []ImagesAgree
<1>1. IInv => ImagesAgree
  <2> SUFFICES ASSUME IInv PROVE ImagesAgree
    OBVIOUS
  <2>1. /\ GroupOK(group) /\ process \in ProcessType
        /\ HistoryInv(group, process.next_epoch, closed) /\ hooks \subseteq HookType
    BY DEF IInv, RuntimeInv, GroupInv, HooksInv
  <2>2. /\ \A m \in Modules : mapped[m] # None =>
             mapped[m].base \in Bases /\ mapped[m].load \in 1 .. events
        /\ \A t \in Threads : seen[t] \in ModuleMaps
    BY DEF IInv, LoaderInv
  <2>3. Len(asked) \in 0 .. MaxRequests
    BY OperationsAssumption DEF IInv, WorkerInv, WorkerType
  <2>4. active_operations \in 0 .. Cardinality(Threads) /\ runtime \in RuntimeStates
    BY ThreadsFinite DEF IInv, ThreadsInv
  <2>5. /\ group.images \subseteq ImageType /\ group.index \subseteq OwnerType
        /\ group.state \in {"created", "images_ready", "ready", "failed"}
        /\ \A i, j \in group.images : i.unit = j.unit \/ i.id = j.id => i = j
    BY <2>1, GroupFields DEF GroupOK, ImagesInv, Distinct
  <2>6. TypeOK
    BY <2>1, <2>2, <2>3, <2>4, <2>5 DEF TypeOK, RuntimeStates, ProcessType, ModuleMaps
  <2>7. ASSUME NEW o \in closed, o \in Owners(group.images) PROVE FALSE
    <3>1. PICK i \in group.images : o = OwnerIdentity(i)
      BY <2>7 DEF Owners
    <3>2. i.generation \in Nat /\ i.group = group.epoch
      BY <2>1, ImageFields DEF GroupOK, ImagesInv
    <3>3. o.group = i.group /\ o.epoch = i.epoch /\ o.generation = i.generation
      BY <3>1, OwnerFields
    <3> QED
      BY <2>1, <3>2, <3>3 DEF HistoryInv
  <2> QED
    BY <2>6, <2>7 DEF ImagesAgree, OwnersNeverReused
<1> QED
  BY <1>1, Invariance, PTL

(* Hooks follow the generations of their runtime, and its end: an installed*)
(* one belongs to an active image of the active group, and a deleted       *)
(* runtime has no thread in it and no hook that calls listeners.           *)
(* (TransitionRuntimeImages, IsCurrentRuntimeMethod, CloseRuntime)         *)
THEOREM HooksStayWithRuntime ==
  Spec => []HooksFollowRuntime
<1>1. IInv => HooksFollowRuntime
  <2> SUFFICES ASSUME IInv PROVE HooksFollowRuntime
    OBVIOUS
  <2>1. ActiveHooksOwned
    BY DEF IInv, RuntimeInv, HooksInv, HooksOK, ActiveHooksOwned
  <2>2. ASSUME runtime = "deleted"
        PROVE  /\ active_operations = 0 /\ ~worker.lease
               /\ \A t \in Clients : pc[t] = "idle"
    <3>1. ThreadsInv /\ Leased = {}
      BY <2>2 DEF IInv, ThreadsInv
    <3>2. active_operations = 0
      BY <3>1, FS_EmptySet DEF ThreadsInv
    <3>3. \A t \in Threads : ~Holds(t)
      BY <3>1 DEF Leased
    <3>4. ~worker.lease /\ \A t \in Clients : pc[t] \notin Leasing
      BY <3>3, ThreadsFinite DEF Holds
    <3>5. \A t \in Clients : pc[t] \notin Creating /\ pc[t] \notin Closing
      BY <2>2, <3>1 DEF ThreadsInv
    <3> QED
      BY <3>1, <3>2, <3>4, <3>5 DEF ThreadsInv, ClientStates
  <2>3. DestroyedIsIdle
    BY <2>2 DEF IInv, RuntimeInv, HooksInv, DestroyedIsIdle
  <2> QED
    BY <2>1, <2>3 DEF HooksFollowRuntime
<1> QED
  BY <1>1, Invariance, PTL

(* The live index never names an image that has left, and the images tell  *)
(* truly which of them it names, over every drain that failed half way.    *)
(* (PruneStableLiveSnapshotIndexForImages, live_semantic_bound)            *)
THEOREM IndexStaysMirror ==
  Spec => []IndexMirrorsImages
<1>1. IInv => IndexMirrorsImages
  <2> SUFFICES ASSUME IInv PROVE IndexMirrorsImages
    OBVIOUS
  <2>1. IndexInv(group)
    BY DEF IInv, RuntimeInv, GroupInv, GroupOK
  <2> QED
    BY <2>1 DEF IndexInv, Indexed, Same, IndexMirrorsImages
<1> QED
  BY <1>1, Invariance, PTL

(* A refresh that is reported complete has enumerated the modules after    *)
(* all that was asked for, however the requests were merged.               *)
(* (requested_epoch, completed_epoch of the refresh worker)                *)
THEOREM CompletedHasSeen ==
  Spec => CompletedSeesRequest
<1>1. IInv /\ [Next]_vars =>
        [\A e \in 1 .. worker'.completed - worker.completed : asked[e] <= worker.saw]_vars
  BY CompleteSees DEF IInv
<1> QED
  BY <1>1, Invariance, PTL DEF Spec, CompletedSeesRequest
=============================================================================
