---------------------------- MODULE Views_proofs ----------------------------
(***************************************************************************)
(* Proofs about views and canvases: whatever becomes of the connections,   *)
(* the differences add up to what the publisher shows.                     *)
(*                                                                         *)
(* ViewsInv says what the server and each follower will have when they     *)
(* have handled the messages on their way.  A step of the publisher adds a *)
(* message (BringsMore), a step of the server takes one off (WhollyTail)   *)
(* and adds a batch for each follower (ShowTold), which takes it off again.*)
(***************************************************************************)
EXTENDS Views, ServerStore_proofs, FiniteSetTheorems

----------------------------------------------------------------------------
(* Sets.                                                                   *)

LEMMA PartialMap ==
    ASSUME NEW S, NEW T, NEW f
    PROVE  f \in Partial(S, T) <=> DOMAIN f \subseteq S /\ f \in [DOMAIN f -> T]
BY DEF Partial

LEMMA PlacesFromOne ==
    /\ Place \subseteq Nat \ {0}
    /\ \A i \in Place : \A j \in 1 .. i : j \in Place
<1>1. \A d \in Drawing : \E n \in Nat : DOMAIN d.components = 1 .. n
  BY ViewAssumption
<1>. QED  BY <1>1 DEF Place

LEMMA ListIs ==
    ASSUME NEW T, NEW s \in Lists(T)
    PROVE  /\ s \in Seq(T) /\ Len(s) \in {0} \cup Place /\ Len(s) \in Nat
           /\ DOMAIN s = 1 .. Len(s) /\ s \in [1 .. Len(s) -> T]
           /\ DOMAIN s \subseteq Place
<1>1. PICK k \in {0} \cup Place : s \in [1 .. k -> T]
  BY DEF Lists
<1>2. k \in Nat
  BY PlacesFromOne
<1>3. s \in Seq(T) /\ Len(s) = k
  BY <1>1, <1>2
<1>4. 1 .. k \subseteq Place
  BY PlacesFromOne
<1>. QED  BY <1>1, <1>2, <1>3, <1>4

LEMMA IsList ==
    ASSUME NEW T, NEW k \in {0} \cup Place, NEW s \in [1 .. k -> T]
    PROVE  s \in Lists(T) /\ Len(s) = k
<1>1. k \in Nat
  BY PlacesFromOne
<1>. QED  BY <1>1 DEF Lists

LEMMA ListOver ==
    ASSUME NEW T, NEW U, NEW s \in Lists(T), NEW f, DOMAIN f = DOMAIN s, f \in [DOMAIN f -> U]
    PROVE  f \in Lists(U) /\ Len(f) = Len(s)
BY ListIs, IsList

LEMMA CountBelow ==
    ASSUME NEW i \in Nat \ {0}, NEW A \in SUBSET (1 .. i - 1)
    PROVE  Cardinality(A) \in 0 .. i - 1
<1>1. IsFiniteSet(1 .. i - 1) /\ Cardinality(1 .. i - 1) = i - 1
  BY FS_Interval
<1>2. IsFiniteSet(A) /\ Cardinality(A) <= i - 1
  BY <1>1, FS_Subset
<1>3. Cardinality(A) \in Nat
  BY <1>2, FS_CardinalityType
<1>. QED  BY <1>2, <1>3

LEMMA CountedId ==
    ASSUME NEW x \in Look, NEW i \in Place, NEW n \in 0 .. i - 1
    PROVE  <<x.type, n>> \in Id
<1>1. PICK c \in Component : x = [type |-> c.type, text |-> c.text]
  BY DEF Look
<1>2. n + 1 \in Place /\ n + 1 - 1 = n
  BY PlacesFromOne
<1>3. <<c.type, n + 1 - 1>> \in Id
  BY <1>2 DEF Id
<1>. QED  BY <1>1, <1>2, <1>3

LEMMA GreatestOf ==
    ASSUME NEW b \in Nat, NEW S \in SUBSET (0 .. b), S # {}
    PROVE  \E x \in S : \A y \in S : y <= x
<1> DEFINE D == {b - y : y \in S}
<1>1. D \in SUBSET Nat /\ D # {}
  <2>1. \A y \in S : y \in Nat /\ b - y \in Nat
    OBVIOUS
  <2>2. PICK y : y \in S
    OBVIOUS
  <2>3. b - y \in D
    BY <2>2
  <2>. QED  BY <2>1, <2>3
<1>2. PICK e \in D : \A y \in D : e <= y
  BY <1>1, SmallestOf
<1>3. PICK x \in S : e = b - x
  BY <1>2
<1>4. \A y \in S : b - x <= b - y
  BY <1>2, <1>3
<1>5. \A y \in S : y <= x
  BY <1>4
<1>. QED  BY <1>3, <1>5

----------------------------------------------------------------------------
(* Views and messages.                                                     *)

LEMMA OverwriteType ==
    ASSUME NEW S, NEW T, NEW f \in Partial(S, T), NEW g \in Partial(S, T)
    PROVE  /\ Overwrite(f, g) \in Partial(S, T)
           /\ DOMAIN Overwrite(f, g) = DOMAIN f \cup DOMAIN g
           /\ \A k \in DOMAIN f \cup DOMAIN g :
                 Overwrite(f, g)[k] = IF k \in DOMAIN g THEN g[k] ELSE f[k]
<1>1. /\ DOMAIN Overwrite(f, g) = DOMAIN f \cup DOMAIN g
      /\ \A k \in DOMAIN f \cup DOMAIN g :
                 Overwrite(f, g)[k] = IF k \in DOMAIN g THEN g[k] ELSE f[k]
  BY DEF Overwrite
<1>2. DOMAIN f \subseteq S /\ f \in [DOMAIN f -> T] /\ DOMAIN g \subseteq S /\ g \in [DOMAIN g -> T]
  BY PartialMap
<1>3. Overwrite(f, g) \in [DOMAIN f \cup DOMAIN g -> T]
  BY <1>2 DEF Overwrite
<1>. QED  BY <1>1, <1>2, <1>3, PartialMap

LEMMA EmptyWhole == Empty \in WholeView /\ Empty \in View /\ Empty \in OldView /\ Empty.data_ids = <<>>
                    /\ Empty.size = NoSize /\ Empty.components = NoMap
<1>1. NoMap \in [{} -> Look] /\ DOMAIN NoMap = {}
  BY DEF NoMap
<1>2. NoMap \in [{} -> Look \cup {Garbage}]
  BY DEF NoMap
<1>3. NoMap \in Partial(Id, Look) /\ NoMap \in Partial(Place, Look \cup {Garbage})
  BY <1>1, <1>2, PartialMap
<1>4. <<>> \in [1 .. 0 -> Id] /\ <<>> \in [1 .. 0 -> Place]
  OBVIOUS
<1>5. <<>> \in Lists(Id) /\ <<>> \in Lists(Place)
  BY <1>4, IsList
<1>6. NoSize \in Size /\ 0 \in Nat
  BY DEF Size
<1>7. Empty \in View /\ Empty \in OldView
  BY <1>3, <1>5, <1>6 DEF Empty, ViewData, View, OldView
<1>8. DOMAIN Empty.data_ids = {}
  BY DEF Empty, ViewData
<1>. QED  BY <1>7, <1>8 DEF WholeView, Empty, ViewData

LEMMA MergeType ==
    ASSUME NEW v \in View, NEW m \in ViewMsg, NEW size \in Size
    PROVE  Merge(v, m, size) \in View
<1>1. Overwrite(v.components, m.diff) \in Partial(Id, Look)
  BY OverwriteType DEF View, ViewMsg
<1>2. (IF m.data_ids = Unchanged THEN v.data_ids ELSE m.data_ids) \in Lists(Id)
  BY DEF View, ViewMsg
<1>. QED  BY <1>1, <1>2 DEF Merge, ViewData, View, ViewMsg

LEMMA PictureType ==
    ASSUME NEW v \in View
    PROVE  /\ Picture(v) \in Lists(Look \cup {Garbage}) /\ DOMAIN Picture(v) = DOMAIN v.data_ids
           /\ Len(Picture(v)) = Len(v.data_ids)
           /\ v \in WholeView => Picture(v) \in Lists(Look)
<1>1. /\ v.data_ids \in Lists(Id) /\ DOMAIN Picture(v) = DOMAIN v.data_ids
      /\ \A i \in DOMAIN v.data_ids : Picture(v)[i] = At(v.components, v.data_ids[i])
      /\ v.components \in [DOMAIN v.components -> Look]
  BY PartialMap DEF View, Picture
<1>2. Picture(v) \in [DOMAIN v.data_ids -> Look \cup {Garbage}]
  BY <1>1 DEF Picture, At
<1>3. v \in WholeView => Picture(v) \in [DOMAIN v.data_ids -> Look]
  BY <1>1 DEF Picture, At, WholeView
<1>. QED  BY <1>1, <1>2, <1>3, ListOver

\* onSync gives every component an id, and every id a component.
LEMMA DrawnWhole ==
    ASSUME NEW d \in Drawing, NEW size \in Size
    PROVE  onSync(d.components, size) \in WholeView
<1> DEFINE cs == d.components
           ids == [i \in DOMAIN cs |-> lockTmp(cs, i)]
           all == {ids[i] : i \in DOMAIN ids}
           comps == [k \in all |-> Shows(cs[CHOOSE i \in DOMAIN ids : ids[i] = k])]
<1>1. PICK k \in Nat : cs \in Seq(Component) /\ DOMAIN cs = 1 .. k
  BY ViewAssumption
<1>2. k \in {0} \cup Place
  BY <1>1 DEF Place
<1>3. ASSUME NEW i \in DOMAIN cs PROVE lockTmp(cs, i) \in Id /\ Shows(cs[i]) \in Look
  <2>1. cs[i] \in Component /\ i \in Place /\ i \in Nat \ {0}
    BY <1>1 DEF Place
  <2>2. Shows(cs[i]) \in Look /\ Shows(cs[i]).type = cs[i].type
    BY <2>1 DEF Look, Shows
  <2> DEFINE A == {j \in 1 .. i - 1 : cs[j].type = cs[i].type}
  <2>3. Cardinality(A) \in 0 .. i - 1
    BY <2>1, CountBelow
  <2>4. <<cs[i].type, Cardinality(A)>> \in Id
    BY <2>1, <2>2, <2>3, CountedId
  <2>5. cs[i].id \in Id
    BY <2>1 DEF Id
  <2>. QED  BY <2>2, <2>4, <2>5 DEF lockTmp
<1>4. ids \in [1 .. k -> Id] /\ DOMAIN ids = 1 .. k
  BY <1>1, <1>3
<1>5. ids \in Lists(Id)
  BY <1>2, <1>4, IsList
<1>6. ASSUME NEW x \in all PROVE comps[x] \in Look /\ x \in Id
  <2> DEFINE i == CHOOSE i \in DOMAIN ids : ids[i] = x
  <2>1. i \in DOMAIN ids /\ ids[i] = x
    <3>1. \E j \in DOMAIN ids : ids[j] = x
      OBVIOUS
    <3>. QED  BY <3>1
  <2>2. comps[x] = Shows(cs[i])
    OBVIOUS
  <2> HIDE DEF i, comps, all, ids
  <2>3. i \in DOMAIN cs /\ x \in Id
    BY <1>1, <1>4, <2>1
  <2>. QED  BY <1>3, <2>2, <2>3
<1>7. DOMAIN comps = all
  OBVIOUS
<1>8. comps \in [all -> Look]
  <2> HIDE DEF all
  <2>. QED  BY <1>6
<1>9. all \subseteq Id
  BY <1>6
<1>10. comps \in Partial(Id, Look)
  <2> HIDE DEF comps, all
  <2>. QED  BY <1>7, <1>8, <1>9, PartialMap
<1>11. \A i \in DOMAIN ids : ids[i] \in all
  OBVIOUS
<1>12. onSync(cs, size) = ViewData(size, comps, ids, 0)
  BY DEF onSync
<1> HIDE DEF comps, all, ids, cs
<1> DEFINE v == ViewData(size, comps, ids, 0)
<1>13. v \in View
  BY <1>5, <1>10 DEF ViewData, View
<1>14. v.data_ids = ids /\ v.components = comps
  BY DEF ViewData
<1> HIDE DEF v
<1>15. v \in WholeView
  <2>1. \A i \in DOMAIN v.data_ids : v.data_ids[i] \in DOMAIN v.components
    BY <1>7, <1>11, <1>14
  <2>. QED  BY <1>13, <2>1 DEF WholeView
<1>. QED  BY <1>12, <1>15 DEF v, cs

---------------------------------------------------------------------------
(* What the protocol chooses.                                              *)

SizeOf(m) == IF kind = "canvas2d" THEN m.size ELSE NoSize
OrEmpty(v) == IF v = NoView THEN Empty ELSE v
KindOK == kind \in {"view", "canvas3d", "canvas2d"}

LEMMA Kinds ==
    ASSUME ViewsTypes PROVE KindOK
BY ViewAssumption DEF ViewsTypes, KindOK

LEMMA ServeIs ==
    ASSUME KindOK, NEW v, NEW m
    PROVE  /\ Publisher \notin old => Serve(v, m) = Put(OrEmpty(v), m, SizeOf(m))
           /\ Publisher \in old => Serve(v, m) = PutOld(OrEmpty(v), m, SizeOf(m))
<1>1. CASE Publisher \in old
  BY <1>1 DEF KindOK, Serve, SizeOf, OrEmpty, view_old, canvas3d_old, canvas2d_old
<1>2. CASE Publisher \notin old
  BY <1>2 DEF KindOK, Serve, SizeOf, OrEmpty, view, canvas3d, canvas2d
<1>. QED  BY <1>1, <1>2

LEMMA ReceivedIs ==
    ASSUME KindOK, NEW p, NEW v, NEW m
    PROVE  Received(p, v, m) = IF p \in old THEN resOld(OrEmpty(v), m) ELSE Merge(OrEmpty(v), m, SizeOf(m))
<1>1. CASE p \in old
  BY <1>1 DEF Received, OrEmpty
<1>2. CASE p \notin old
  BY <1>2 DEF KindOK, Received, SizeOf, OrEmpty, resView, resCanvas3D, resCanvas2D
<1>. QED  BY <1>1, <1>2

LEMMA AnsweredIs ==
    ASSUME KindOK, NEW p
    PROVE  Answered(p) = IF Current = NoView THEN NoMsg
                         ELSE IF p \in old THEN AnswerOld(Current, SizeOf(Current))
                         ELSE Answer(Current, SizeOf(Current))
<1>1. CASE p \in old
  BY <1>1 DEF KindOK, Answered, SizeOf, reqViewOld, reqCanvas3DOld, reqCanvas2DOld
<1>2. CASE p \notin old
  BY <1>2 DEF KindOK, Answered, SizeOf, reqView, reqCanvas3D, reqCanvas2D
<1>. QED  BY <1>1, <1>2

LEMMA DiffIs ==
    ASSUME KindOK, NEW prev, NEW now, NEW n, now # NoView
    PROVE  Diff(prev, now, n) = IF Publisher \in old THEN diffOld(prev, now, n)
                                ELSE diff(prev, now, SizeOf(now), n)
<1>1. CASE Publisher \in old
  BY <1>1 DEF Diff
<1>2. CASE Publisher \notin old
  BY <1>2 DEF KindOK, Diff, SizeOf, diffView, diffCanvas3D, diffCanvas2D
<1>. QED  BY <1>1, <1>2

LEMMA OrEmptyWhole ==
    ASSUME NEW v
    PROVE  /\ v \in View \cup {NoView} => OrEmpty(v) \in View
           /\ v \in WholeView \cup {NoView} => OrEmpty(v) \in WholeView
           /\ v \in OldView \cup {NoView} => OrEmpty(v) \in OldView
BY EmptyWhole, DistinctAssumption DEF OrEmpty, WholeView

---------------------------------------------------------------------------
(* Differences.                                                            *)

LEMMA SizeType ==
    ASSUME NEW m, m.size \in Size
    PROVE  SizeOf(m) \in Size /\ (kind # "canvas2d" => SizeOf(m) = NoSize)
BY DEF SizeOf, Size

LEMMA DiffNew ==
    ASSUME NEW prev \in WholeView \cup {NoView}, NEW now \in WholeView, NEW size \in Size, NEW n \in Nat
    PROVE  LET d == diff(prev, now, size, n) IN
           /\ d = NoMsg => /\ prev # NoView /\ prev.data_ids = now.data_ids
                           /\ \A k \in DOMAIN now.components :
                                 k \in DOMAIN prev.components /\ prev.components[k] = now.components[k]
           /\ d # NoMsg =>
                 /\ d \in ViewMsg
                 /\ d.data_ids \in {Unchanged, now.data_ids}
                 /\ d.data_ids = Unchanged => prev # NoView /\ prev.data_ids = now.data_ids
                 /\ DOMAIN d.diff \subseteq DOMAIN now.components
                 /\ \A k \in DOMAIN d.diff : d.diff[k] = now.components[k]
                 /\ \A k \in DOMAIN now.components \ DOMAIN d.diff :
                       prev # NoView /\ k \in DOMAIN prev.components
                       /\ prev.components[k] = now.components[k]
<1> DEFINE before == IF prev = NoView THEN NoMap ELSE prev.components
           V == {k \in DOMAIN now.components : k \in DOMAIN before => before[k] # now.components[k]}
           same == prev # NoView /\ prev.data_ids = now.data_ids
           part == [k \in V |-> now.components[k]]
           d == Msg(size, part, IF same THEN Unchanged ELSE now.data_ids, n)
<1>1. diff(prev, now, size, n) = IF V = {} /\ same THEN NoMsg ELSE d
  BY DEF diff
<1>2. /\ now.components \in [DOMAIN now.components -> Look] /\ DOMAIN now.components \subseteq Id
      /\ now.data_ids \in Lists(Id)
  BY PartialMap DEF WholeView, View
<1>3. \A k \in DOMAIN now.components \ V : prev # NoView /\ k \in DOMAIN prev.components
                                           /\ prev.components[k] = now.components[k]
  <2>1. DOMAIN NoMap = {}
    BY DEF NoMap
  <2>. QED  BY <2>1
<1>4. part \in Partial(Id, Look) /\ DOMAIN part = V /\ V \subseteq DOMAIN now.components
      /\ \A k \in V : part[k] = now.components[k]
  <2>1. DOMAIN part = V /\ V \subseteq DOMAIN now.components /\ \A k \in V : part[k] = now.components[k]
    OBVIOUS
  <2>2. part \in [V -> Look]
    <3> HIDE DEF V
    <3>. QED  BY <1>2, <2>1
  <2> HIDE DEF part, V
  <2>. QED  BY <1>2, <2>1, <2>2, PartialMap
<1> HIDE DEF part, V, same, before
<1>5. d \in ViewMsg
  BY <1>2, <1>4 DEF Msg, ViewMsg
<1>6. d # NoMsg
  BY <1>5, DistinctAssumption
<1>7. d.data_ids = (IF same THEN Unchanged ELSE now.data_ids) /\ d.diff = part
  BY DEF Msg
<1>8. now.data_ids # Unchanged
  BY <1>2, DistinctAssumption
<1> HIDE DEF d
<1>9. CASE V = {} /\ same
  BY <1>1, <1>3, <1>9 DEF same
<1>10. CASE ~(V = {} /\ same)
  <2>1. diff(prev, now, size, n) = d
    BY <1>1, <1>10
  <2>2. d.data_ids = Unchanged => prev # NoView /\ prev.data_ids = now.data_ids
    BY <1>7, <1>8 DEF same
  <2>3. d.data_ids \in {Unchanged, now.data_ids}
    BY <1>7
  <2>. QED  BY <1>3, <1>4, <1>5, <1>6, <1>7, <2>1, <2>2, <2>3
<1>. QED  BY <1>9, <1>10

LEMMA DiffOldType ==
    ASSUME NEW prev \in WholeView \cup {NoView}, NEW now \in WholeView, NEW n \in Nat
    PROVE  LET d == diffOld(prev, now, n) IN
           d # NoMsg => d \in OldViewMsg /\ \A i \in DOMAIN d.diff : i <= d.length /\ d.diff[i] \in Look
<1> DEFINE list == Picture(now)
           before == IF prev = NoView THEN <<>> ELSE Picture(prev)
           V == {i \in DOMAIN list : i \in DOMAIN before => before[i] # list[i]}
           part == [i \in V |-> list[i]]
           d == OldMsg(now.size, part, Len(list), n)
<1>1. diffOld(prev, now, n) = IF V = {} /\ Len(before) = Len(list) THEN NoMsg ELSE d
  BY DEF diffOld
<1>2. now \in View /\ list \in Lists(Look)
  BY PictureType DEF WholeView
<1> HIDE DEF list
<1>3. /\ Len(list) \in {0} \cup Place /\ DOMAIN list \subseteq Place
      /\ DOMAIN list = 1 .. Len(list) /\ list \in [1 .. Len(list) -> Look]
  BY <1>2, ListIs
<1>4. DOMAIN part = V /\ V \subseteq Place /\ \A i \in V : part[i] = list[i] /\ list[i] \in Look
  BY <1>3
<1>5. part \in [V -> Look \cup {Garbage}]
  <2> HIDE DEF V
  <2>. QED  BY <1>4
<1> HIDE DEF V, part, before
<1>6. part \in Partial(Place, Look \cup {Garbage})
  BY <1>4, <1>5, PartialMap
<1>7. d \in OldViewMsg /\ d.diff = part /\ d.length = Len(list)
  BY <1>2, <1>3, <1>6 DEF OldMsg, OldViewMsg, View
<1>8. Len(list) \in Nat /\ \A i \in V : i <= Len(list)
  BY <1>2, <1>3, ListIs DEF V
<1>. QED  BY <1>1, <1>4, <1>7, <1>8

LEMMA DiffType ==
    ASSUME KindOK, NEW prev \in WholeView \cup {NoView}, NEW now \in WholeView \cup {NoView}, NEW n \in Nat
    PROVE  Diff(prev, now, n) \in FromPublisher \cup {NoMsg}
<1>1. CASE now = NoView
  BY <1>1 DEF Diff
<1>2. CASE now # NoView
  <2>1. now \in WholeView /\ SizeOf(now) \in Size
    BY <1>2, SizeType DEF WholeView, View
  <2>2. CASE Publisher \in old
    BY <1>2, <2>1, <2>2, DiffIs, DiffOldType DEF FromPublisher
  <2>3. CASE Publisher \notin old
    BY <1>2, <2>1, <2>3, DiffIs, DiffNew DEF FromPublisher
  <2>. QED  BY <2>2, <2>3
<1>. QED  BY <1>1, <1>2

LEMMA ServeNow ==
    ASSUME KindOK, Publisher \notin old, NEW v, NEW m
    PROVE  Serve(v, m).now = Merge(OrEmpty(v), m, SizeOf(m))
<1>1. Serve(v, m) = Put(OrEmpty(v), m, SizeOf(m))
  BY ServeIs
<1>2. \A x, size : Put(x, m, size).now = Merge(x, m, size)
  BY DEF Put, Served
<1>. QED  BY <1>1, <1>2

\* What is made of a difference is what it was made from.
LEMMA DiffCarries ==
    ASSUME KindOK, Publisher \notin old, NEW v \in WholeView \cup {NoView}, NEW w \in WholeView \cup {NoView},
           Carries(v, w), NEW prev \in {NoView, w}, NEW now \in WholeView, NEW n \in Nat
    PROVE  LET d == Diff(prev, now, n) IN
           /\ d = NoMsg => Carries(v, now)
           /\ d # NoMsg => Serve(v, d).now \in WholeView /\ Carries(Serve(v, d).now, now)
<1>0. PICK e : e = Diff(prev, now, n)
  OBVIOUS
<1> DEFINE v2 == Merge(OrEmpty(v), e, SizeOf(e))
<1>1. now # NoView /\ SizeOf(now) \in Size
  BY SizeType, DistinctAssumption DEF WholeView, View
<1>2. e = diff(prev, now, SizeOf(now), n)
  BY <1>0, <1>1, DiffIs
<1>3. /\ e = NoMsg => /\ prev # NoView /\ prev.data_ids = now.data_ids
                      /\ \A k \in DOMAIN now.components :
                            k \in DOMAIN prev.components /\ prev.components[k] = now.components[k]
      /\ e # NoMsg =>
            /\ e \in ViewMsg
            /\ e.data_ids \in {Unchanged, now.data_ids}
            /\ e.data_ids = Unchanged => prev # NoView /\ prev.data_ids = now.data_ids
            /\ DOMAIN e.diff \subseteq DOMAIN now.components
            /\ \A k \in DOMAIN e.diff : e.diff[k] = now.components[k]
            /\ \A k \in DOMAIN now.components \ DOMAIN e.diff :
                  prev # NoView /\ k \in DOMAIN prev.components
                  /\ prev.components[k] = now.components[k]
  BY <1>1, <1>2, DiffNew
<1>4. ASSUME e = NoMsg PROVE Carries(v, now)
  BY <1>1, <1>3, <1>4 DEF Carries
<1>5. ASSUME e # NoMsg PROVE v2 \in WholeView /\ Carries(v2, now)
  <2>0. e \in ViewMsg /\ e.size \in Size
    BY <1>3, <1>5 DEF ViewMsg
  <2>1. e \in ViewMsg /\ SizeOf(e) \in Size
    BY <2>0 DEF SizeOf, Size
  <2>2. OrEmpty(v) \in View
    BY OrEmptyWhole DEF WholeView
  <2>3. v2 \in View
    BY <2>1, <2>2, MergeType
  <2>4. OrEmpty(v).components \in Partial(Id, Look) /\ e.diff \in Partial(Id, Look)
    BY <2>1, <2>2 DEF View, ViewMsg
  <2>5. /\ DOMAIN v2.components = DOMAIN OrEmpty(v).components \cup DOMAIN e.diff
        /\ \A k \in DOMAIN v2.components :
              v2.components[k] = IF k \in DOMAIN e.diff THEN e.diff[k] ELSE OrEmpty(v).components[k]
    BY DEF Merge, ViewData, Overwrite
  <2>6. v2.data_ids = IF e.data_ids = Unchanged THEN OrEmpty(v).data_ids ELSE e.data_ids
    BY DEF Merge, ViewData
  <2>7. v2 # NoView
    BY <2>3, DistinctAssumption
  <2> HIDE DEF v2
  <2>8. prev # NoView => prev = w /\ v # NoView /\ OrEmpty(v) = v
    BY DEF Carries, OrEmpty
  <2>9. v2.data_ids = now.data_ids
    BY <1>3, <1>5, <2>6, <2>8 DEF Carries
  <2>10. ASSUME NEW k \in DOMAIN now.components
         PROVE  k \in DOMAIN v2.components /\ v2.components[k] = now.components[k]
    <3>1. CASE k \in DOMAIN e.diff
      BY <1>3, <1>5, <2>5, <3>1
    <3>2. CASE k \notin DOMAIN e.diff
      <4>1. prev # NoView /\ k \in DOMAIN prev.components /\ prev.components[k] = now.components[k]
        BY <1>3, <1>5, <3>2
      <4>2. k \in DOMAIN v.components /\ v.components[k] = now.components[k]
        BY <2>8, <4>1 DEF Carries
      <4>. QED  BY <2>5, <2>8, <3>2, <4>1, <4>2
    <3>. QED  BY <3>1, <3>2
  <2>11. \A i \in DOMAIN v2.data_ids : v2.data_ids[i] \in DOMAIN v2.components
    BY <2>9, <2>10 DEF WholeView
  <2>. QED  BY <1>1, <2>3, <2>7, <2>9, <2>10, <2>11 DEF WholeView, Carries
<1>6. Serve(v, e).now = v2
  BY ServeNow
<1>. QED  BY <1>0, <1>4, <1>5, <1>6

\* What is seen of it is the same.
LEMMA CarriesSeen ==
    ASSUME NEW v \in View \cup {NoView}, NEW w \in WholeView \cup {NoView}, Carries(v, w)
    PROVE  Seen(v) = Seen(w)
<1>1. CASE w = NoView
  BY <1>1 DEF Carries, Seen
<1>2. CASE w # NoView
  <2>1. v # NoView /\ v.data_ids = w.data_ids
    BY <1>2 DEF Carries
  <2>2. \A i \in DOMAIN w.data_ids : At(v.components, w.data_ids[i]) = At(w.components, w.data_ids[i])
    BY <1>2 DEF Carries, At, WholeView
  <2>3. Picture(v) = Picture(w)
    BY <2>1, <2>2 DEF Picture
  <2>. QED  BY <1>2, <2>1, <2>3 DEF Seen
<1>. QED  BY <1>1, <1>2

---------------------------------------------------------------------------
(* What the server makes of a message.                                     *)

LEMMA PutType ==
    ASSUME NEW v \in View, NEW m \in ViewMsg, NEW size \in Size
    PROVE  LET s == Put(v, m, size) IN
           s.now \in View /\ s.now.size = size /\ s.res \in ViewMsg /\ s.oldRes \in OldViewMsg
<1>0. PICK now : now = Merge(v, m, size)
  OBVIOUS
<1> DEFINE moved(i) == m.data_ids # Unchanged
                       /\ (i \in DOMAIN v.data_ids => v.data_ids[i] # now.data_ids[i])
           D == {i \in DOMAIN now.data_ids :
                        /\ now.data_ids[i] \in DOMAIN m.diff \/ moved(i)
                        /\ now.data_ids[i] \in DOMAIN now.components}
           part == [i \in D |-> now.components[now.data_ids[i]]]
<1>1. Put(v, m, size) = Served(now, Msg(size, m.diff, m.data_ids, m.n),
                               OldMsg(size, part, Len(now.data_ids), m.n))
  BY <1>0 DEF Put
<1>2. now \in View /\ now.size = size
  BY <1>0, MergeType DEF Merge, ViewData
<1>3. now.data_ids \in Lists(Id) /\ now.components \in [DOMAIN now.components -> Look]
  BY <1>2, PartialMap DEF View
<1>4. DOMAIN now.data_ids \subseteq Place /\ Len(now.data_ids) \in {0} \cup Place
  BY <1>3, ListIs
<1>5. D \subseteq Place /\ \A i \in D : now.components[now.data_ids[i]] \in Look
  BY <1>3, <1>4
<1> HIDE DEF D
<1>6. part \in [D -> Look \cup {Garbage}] /\ DOMAIN part = D
  BY <1>5
<1> HIDE DEF part
<1>7. part \in Partial(Place, Look \cup {Garbage})
  BY <1>5, <1>6, PartialMap
<1>8. OldMsg(size, part, Len(now.data_ids), m.n) \in OldViewMsg
  BY <1>4, <1>7 DEF OldMsg, OldViewMsg, ViewMsg
<1>9. Msg(size, m.diff, m.data_ids, m.n) \in ViewMsg
  BY DEF Msg, ViewMsg
<1>. QED  BY <1>1, <1>2, <1>8, <1>9 DEF Served

LEMMA PutOldType ==
    ASSUME NEW v \in View, NEW m \in OldViewMsg, NEW size \in Size,
           \A i \in DOMAIN m.diff : i <= m.length /\ m.diff[i] \in Look
    PROVE  LET s == PutOld(v, m, size) IN
           /\ s.now \in View /\ s.now.size = size /\ s.res \in ViewMsg /\ s.oldRes \in OldViewMsg
           /\ s.res.data_ids # Unchanged /\ s.now = Merge(v, s.res, size)
<1> DEFINE id(i) == <<m.diff[i].type,
                      Cardinality({j \in DOMAIN m.diff : j < i /\ m.diff[j].type = m.diff[i].type})>>
           new == {id(i) : i \in DOMAIN m.diff}
           part == [k \in new |-> m.diff[CHOOSE i \in DOMAIN m.diff : id(i) = k]]
           S == DOMAIN v.data_ids \cup DOMAIN m.diff \cup {0}
           last == CHOOSE n \in S : \A i \in DOMAIN v.data_ids \cup DOMAIN m.diff : i <= n
           ids == [i \in 1 .. last |-> IF i \in DOMAIN m.diff THEN id(i)
                                       ELSE IF i \in DOMAIN v.data_ids THEN v.data_ids[i]
                                       ELSE NoId]
<1>1. PutOld(v, m, size) = Served(ViewData(size, Overwrite(v.components, part), ids, m.n),
                                  Msg(size, part, ids, m.n), OldMsg(size, m.diff, last, m.n))
  BY DEF PutOld
<1>2. /\ DOMAIN m.diff \subseteq Place /\ m.length \in {0} \cup Place /\ m.length \in Nat /\ m.n \in Nat
      /\ v.data_ids \in Lists(Id) /\ v.components \in Partial(Id, Look)
      /\ m.diff \in Partial(Place, Look \cup {Garbage})
  BY PartialMap, PlacesFromOne DEF OldViewMsg, View
<1>3. ASSUME NEW i \in DOMAIN m.diff PROVE id(i) \in Id
  <2> DEFINE A == {j \in DOMAIN m.diff : j < i /\ m.diff[j].type = m.diff[i].type}
  <2>1. i \in Nat \ {0} /\ A \in SUBSET (1 .. i - 1)
    <3>1. i \in Nat \ {0} /\ \A j \in DOMAIN m.diff : j \in Nat \ {0}
      BY <1>2, PlacesFromOne
    <3>2. \A j \in A : j \in 1 .. i - 1
      BY <3>1
    <3>. QED  BY <3>1, <3>2
  <2> HIDE DEF A
  <2>2. Cardinality(A) \in 0 .. i - 1
    BY <2>1, CountBelow
  <2>3. <<m.diff[i].type, Cardinality(A)>> \in Id
    BY <1>2, <2>2, CountedId
  <2>. QED  BY <2>3 DEF A
<1> HIDE DEF id
<1>4. new \subseteq Id
  BY <1>3
<1>5. ASSUME NEW k \in new PROVE part[k] \in Look
  <2> DEFINE i == CHOOSE i \in DOMAIN m.diff : id(i) = k
  <2>1. i \in DOMAIN m.diff
    <3>1. \E j \in DOMAIN m.diff : id(j) = k
      OBVIOUS
    <3>. QED  BY <3>1
  <2>2. part[k] = m.diff[i]
    OBVIOUS
  <2>. QED  BY <2>1, <2>2
<1>6. DOMAIN part = new
  OBVIOUS
<1>7. part \in [new -> Look]
  <2> HIDE DEF new
  <2>. QED  BY <1>5
<1> HIDE DEF part, new
<1>8. part \in Partial(Id, Look)
  BY <1>4, <1>6, <1>7, PartialMap
<1>9. last \in S /\ \A i \in DOMAIN v.data_ids \cup DOMAIN m.diff : i <= last
  <2> DEFINE b == Len(v.data_ids) + m.length
  <2>1. b \in Nat /\ S \in SUBSET (0 .. b) /\ 0 \in S
    BY <1>2, ListIs, PlacesFromOne
  <2>2. \E x \in S : \A y \in S : y <= x
    BY <2>1, GreatestOf
  <2>3. \E n \in S : \A i \in DOMAIN v.data_ids \cup DOMAIN m.diff : i <= n
    BY <2>2
  <2> HIDE DEF S
  <2>. QED  BY <2>3
<1>10. last \in {0} \cup Place
  BY <1>2, <1>9, ListIs
<1> HIDE DEF last
<1>11. ids \in [1 .. last -> Id]
  <2>1. NoId \in Id /\ \A i \in DOMAIN v.data_ids : v.data_ids[i] \in Id
    BY <1>2, ListIs DEF Id
  <2>. QED  BY <1>3, <2>1
<1> HIDE DEF ids
<1>12. ids \in Lists(Id) /\ ids # Unchanged
  BY <1>10, <1>11, IsList, DistinctAssumption
<1>13. Msg(size, part, ids, m.n) \in ViewMsg
  BY <1>2, <1>8, <1>12 DEF Msg, ViewMsg
<1>14. OldMsg(size, m.diff, last, m.n) \in OldViewMsg
  BY <1>2, <1>10 DEF OldMsg, OldViewMsg
<1>15. Overwrite(v.components, part) \in Partial(Id, Look)
  BY <1>2, <1>8, OverwriteType
<1>16. ViewData(size, Overwrite(v.components, part), ids, m.n) \in View
  BY <1>2, <1>12, <1>15 DEF ViewData, View
<1>17. Merge(v, Msg(size, part, ids, m.n), size) = ViewData(size, Overwrite(v.components, part), ids, m.n)
  BY <1>12 DEF Merge, Msg
<1>18. Msg(size, part, ids, m.n).data_ids = ids
  BY DEF Msg
<1>19. ViewData(size, Overwrite(v.components, part), ids, m.n).size = size
  BY DEF ViewData
<1>. QED  BY <1>1, <1>12, <1>13, <1>14, <1>16, <1>17, <1>18, <1>19 DEF Served

LEMMA ServeType ==
    ASSUME KindOK, NEW v \in View \cup {NoView}, NEW m \in FromPublisher
    PROVE  LET s == Serve(v, m) IN
           /\ s.now \in View /\ s.res \in ViewMsg /\ s.oldRes \in OldViewMsg
           /\ kind # "canvas2d" => s.now.size = NoSize
<1>1. OrEmpty(v) \in View
  BY OrEmptyWhole
<1>2. m.size \in Size
  BY DEF FromPublisher, ViewMsg, OldViewMsg
<1>3. SizeOf(m) \in Size /\ (kind # "canvas2d" => SizeOf(m) = NoSize)
  BY <1>2, SizeType
<1>4. CASE Publisher \in old
  <2>1. m \in OldViewMsg /\ \A i \in DOMAIN m.diff : i <= m.length /\ m.diff[i] \in Look
    BY <1>4 DEF FromPublisher
  <2>2. LET s == PutOld(OrEmpty(v), m, SizeOf(m)) IN
        s.now \in View /\ s.now.size = SizeOf(m) /\ s.res \in ViewMsg /\ s.oldRes \in OldViewMsg
    BY <1>1, <1>3, <2>1, PutOldType
  <2>. QED  BY <1>3, <1>4, <2>2, ServeIs
<1>5. CASE Publisher \notin old
  <2>1. m \in ViewMsg
    BY <1>5 DEF FromPublisher
  <2>2. LET s == Put(OrEmpty(v), m, SizeOf(m)) IN
        s.now \in View /\ s.now.size = SizeOf(m) /\ s.res \in ViewMsg /\ s.oldRes \in OldViewMsg
    BY <1>1, <1>3, <2>1, PutType
  <2>. QED  BY <1>3, <1>5, <2>2, ServeIs
<1>. QED  BY <1>4, <1>5

LEMMA AnswerType ==
    ASSUME KindOK, NEW p, Current \in View \cup {NoView}
    PROVE  Answered(p) \in {NoMsg} \cup (IF p \in old THEN OldViewMsg ELSE ViewMsg)
<1>1. CASE Current = NoView
  BY <1>1, AnsweredIs
<1>2. CASE Current # NoView
  <2>0. PICK v : v = Current
    OBVIOUS
  <2>1. v \in View /\ v.size \in Size
    BY <1>2, <2>0 DEF View
  <2>2. SizeOf(v) \in Size
    BY <2>1, SizeType
  <2>3. Answer(v, SizeOf(v)) \in ViewMsg
    BY <2>1, <2>2 DEF Answer, Msg, ViewMsg, View
  <2>4. Picture(v) \in Lists(Look \cup {Garbage}) /\ v.data_ids \in Lists(Id)
    BY <2>1, PictureType DEF View
  <2>5. Picture(v) \in Partial(Place, Look \cup {Garbage}) /\ Len(v.data_ids) \in {0} \cup Place
    BY <2>4, ListIs, PartialMap
  <2>6. AnswerOld(v, SizeOf(v)) \in OldViewMsg
    BY <2>1, <2>2, <2>5 DEF AnswerOld, OldMsg, OldViewMsg, View
  <2>. QED  BY <1>2, <2>0, <2>3, <2>6, AnsweredIs
<1>. QED  BY <1>1, <1>2

LEMMA ReceiveType ==
    ASSUME KindOK, NEW p, NEW v \in {NoView} \cup (IF p \in old THEN OldView ELSE View),
           NEW m \in IF p \in old THEN OldViewMsg ELSE ViewMsg
    PROVE  Received(p, v, m) \in IF p \in old THEN OldView ELSE View
<1>1. CASE p \in old
  <2>1. OrEmpty(v) \in OldView /\ m \in OldViewMsg
    BY <1>1, OrEmptyWhole
  <2> DEFINE ids == [i \in 1 .. m.length |-> i]
  <2>2. m.length \in {0} \cup Place /\ ids \in [1 .. m.length -> Place]
    <3>0. m.length \in {0} \cup Place
      BY <2>1 DEF OldViewMsg
    <3>1. \A k \in {0} \cup Place : k \in Nat
      BY PlacesFromOne
    <3>2. m.length \in {0} \cup Place /\ m.length \in Nat
      BY <3>0, <3>1
    <3>3. \A i \in 1 .. m.length : i \in Place
      BY <3>2, PlacesFromOne
    <3>. QED  BY <3>2, <3>3
  <2>3. ids \in Lists(Place)
    BY <2>2, IsList
  <2>4. Overwrite(OrEmpty(v).components, m.diff) \in Partial(Place, Look \cup {Garbage})
    BY <2>1, OverwriteType DEF OldView, OldViewMsg
  <2>5. resOld(OrEmpty(v), m) \in OldView
    BY <2>1, <2>3, <2>4 DEF resOld, ViewData, OldView, OldViewMsg
  <2>. QED  BY <1>1, <2>5, ReceivedIs
<1>2. CASE p \notin old
  <2>1. OrEmpty(v) \in View /\ m \in ViewMsg /\ m.size \in Size
    BY <1>2, OrEmptyWhole DEF ViewMsg
  <2>2. Merge(OrEmpty(v), m, SizeOf(m)) \in View
    BY <2>1, SizeType, MergeType
  <2>. QED  BY <1>2, <2>2, ReceivedIs
<1>. QED  BY <1>1, <1>2

---------------------------------------------------------------------------
(* What a follower makes of it.                                            *)

NewsOf(p, s) == IF p \in old THEN s.oldRes ELSE s.res

LEMMA ServeCopied ==
    ASSUME KindOK, NEW p, NEW v \in View \cup {NoView}, NEW m \in FromPublisher, NEW u, Copies(p, u, v),
           Publisher \in old => p \notin old,
           Publisher \notin old => v \in WholeView \cup {NoView} /\ Serve(v, m).now \in WholeView
    PROVE  /\ NewsOf(p, Serve(v, m)) # NoMsg
           /\ Copies(p, Received(p, u, NewsOf(p, Serve(v, m))), Serve(v, m).now)
<1>0. PICK s : s = Serve(v, m)
  OBVIOUS
<1>1. s.now \in View /\ s.res \in ViewMsg /\ s.oldRes \in OldViewMsg
  BY <1>0, ServeType
<1>2. NewsOf(p, s) # NoMsg
  BY <1>1, DistinctAssumption DEF NewsOf
<1>3. OrEmpty(v) \in View /\ m.size \in Size
  BY OrEmptyWhole DEF FromPublisher, ViewMsg, OldViewMsg
<1>4. SizeOf(m) \in Size
  BY <1>3, SizeType
<1>5. CASE p \notin old
  <2>1. u = v
    BY <1>5 DEF Copies
  <2>2. s.now = Merge(OrEmpty(v), s.res, SizeOf(m)) /\ SizeOf(s.res) = SizeOf(m)
    <3>1. CASE Publisher \in old
      <4>1. m \in OldViewMsg /\ \A i \in DOMAIN m.diff : i <= m.length /\ m.diff[i] \in Look
        BY <3>1 DEF FromPublisher
      <4>2. s = PutOld(OrEmpty(v), m, SizeOf(m))
        BY <1>0, <3>1, ServeIs
      <4>3. s.now = Merge(OrEmpty(v), s.res, SizeOf(m))
        BY <1>3, <1>4, <4>1, <4>2, PutOldType
      <4>4. s.res.size = SizeOf(m)
        BY <4>2 DEF PutOld, Served, Msg
      <4>. QED  BY <4>3, <4>4 DEF SizeOf
    <3>2. CASE Publisher \notin old
      <4>1. s = Put(OrEmpty(v), m, SizeOf(m))
        BY <1>0, <3>2, ServeIs
      <4>2. s.now = Merge(OrEmpty(v), m, SizeOf(m)) /\ s.res = Msg(SizeOf(m), m.diff, m.data_ids, m.n)
        BY <4>1 DEF Put, Served
      <4>3. Merge(OrEmpty(v), m, SizeOf(m)) = Merge(OrEmpty(v), s.res, SizeOf(m)) /\ s.res.size = SizeOf(m)
        BY <4>2 DEF Merge, Msg
      <4>. QED  BY <4>2, <4>3 DEF SizeOf
    <3>. QED  BY <3>1, <3>2
  <2>3. Received(p, u, s.res) = s.now
    BY <1>5, <2>1, <2>2, ReceivedIs
  <2>. QED  BY <1>0, <1>2, <1>5, <2>3 DEF NewsOf, Copies
<1>6. CASE p \in old
  <2>1. Publisher \notin old /\ v \in WholeView \cup {NoView} /\ s.now \in WholeView
    BY <1>0, <1>6
  <2>2. PICK now : now = s.now
    OBVIOUS
  <2>3. m \in ViewMsg
    BY <2>1 DEF FromPublisher
  <2> DEFINE w == OrEmpty(v)
             o == s.oldRes
             x == OrEmpty(u)
             r == Received(p, u, o)
  <2>4. s = Put(w, m, SizeOf(m))
    BY <1>0, <2>1, ServeIs
  <2>5. now = Merge(w, m, SizeOf(m))
    BY <2>2, <2>4 DEF Put, Served
  <2>6. w \in WholeView
    BY <2>1, OrEmptyWhole
  <2>7. u \in OldView \cup {NoView} /\ x \in OldView
    BY <1>6, OrEmptyWhole DEF Copies
  <2>8. r \in OldView /\ r = resOld(x, o)
    BY <1>1, <1>6, <2>7, ReceiveType, ReceivedIs
  <2>9. o.length = Len(now.data_ids)
    BY <2>4, <2>5 DEF Put, Served, OldMsg
  <2>10. r.data_ids = [i \in 1 .. Len(now.data_ids) |-> i]
    BY <2>8, <2>9 DEF resOld, ViewData
  <2>11. ASSUME NEW i \in DOMAIN now.data_ids
         PROVE  /\ i \in DOMAIN r.components
                /\ r.components[i] = At(now.components, now.data_ids[i])
    <3>1. now.data_ids[i] \in DOMAIN now.components
      BY <2>1, <2>2 DEF WholeView
    <3>2. At(now.components, now.data_ids[i]) = now.components[now.data_ids[i]]
      BY <3>1 DEF At
    <3>3. r.components = Overwrite(x.components, o.diff)
      BY <2>8 DEF resOld, ViewData
    <3> DEFINE moved == m.data_ids # Unchanged
                        /\ (i \in DOMAIN w.data_ids => w.data_ids[i] # now.data_ids[i])
    <3>4. CASE now.data_ids[i] \in DOMAIN m.diff \/ moved
      <4>1. i \in DOMAIN o.diff /\ o.diff[i] = now.components[now.data_ids[i]]
        BY <2>4, <2>5, <3>1, <3>4 DEF Put, Served, OldMsg
      <4>. QED  BY <3>2, <3>3, <4>1 DEF Overwrite
    <3>5. CASE ~(now.data_ids[i] \in DOMAIN m.diff \/ moved)
      <4>1. i \notin DOMAIN o.diff
        BY <2>4, <2>5, <3>5 DEF Put, Served, OldMsg
      <4>2. i \in DOMAIN w.data_ids /\ w.data_ids[i] = now.data_ids[i]
        BY <2>5, <3>5 DEF Merge, ViewData
      <4>3. v # NoView /\ w = v
        BY <4>2, EmptyWhole DEF OrEmpty
      <4>4. u # NoView /\ x = u
        BY <1>6, <4>3 DEF Copies, OrEmpty
      <4>5. i \in DOMAIN u.components /\ u.components[i] = At(v.components, v.data_ids[i])
        BY <1>6, <4>2, <4>3 DEF Copies
      <4>6. v.data_ids[i] \in DOMAIN v.components
        BY <2>6, <4>2, <4>3 DEF WholeView
      <4>7. now.components[now.data_ids[i]] = v.components[v.data_ids[i]]
        BY <2>5, <3>1, <3>5, <4>2, <4>3 DEF Merge, ViewData, Overwrite
      <4>8. r.components[i] = u.components[i] /\ i \in DOMAIN r.components
        BY <3>3, <4>1, <4>4, <4>5 DEF Overwrite
      <4>. QED  BY <3>2, <4>5, <4>6, <4>7, <4>8 DEF At
    <3>. QED  BY <3>4, <3>5
  <2>12. r # NoView /\ now # NoView
    BY <1>1, <2>2, <2>8, DistinctAssumption
  <2> HIDE DEF r, o
  <2>13. Copies(p, r, now)
    BY <1>6, <2>8, <2>10, <2>11, <2>12 DEF Copies
  <2>. QED  BY <1>0, <1>2, <1>6, <2>2, <2>13 DEF r, o, NewsOf
<1>. QED  BY <1>5, <1>6

\* The answer to a request, which may be one too many.
LEMMA AnswerCopied ==
    ASSUME KindOK, NEW p, Current \in View, kind # "canvas2d" => Current.size = NoSize, NEW u,
           Copies(p, u, Current) \/ Copies(p, u, NoView)
    PROVE  Answered(p) # NoMsg /\ Copies(p, Received(p, u, Answered(p)), Current)
<1>0. PICK w : w = Current
  OBVIOUS
<1>1. w \in View /\ w # NoView /\ w.size \in Size
  BY <1>0, DistinctAssumption DEF View
<1>2. SizeOf(w) = w.size
  BY <1>0 DEF SizeOf
<1>3. PICK a : a = Answered(p)
  OBVIOUS
<1>4. a \in {NoMsg} \cup (IF p \in old THEN OldViewMsg ELSE ViewMsg)
  BY <1>0, <1>1, <1>3, AnswerType
<1>5. a = IF p \in old THEN AnswerOld(w, w.size) ELSE Answer(w, w.size)
  BY <1>0, <1>1, <1>2, <1>3, AnsweredIs
<1>6. CASE p \notin old
  <2>1. a = Msg(w.size, w.components, w.data_ids, w.n) /\ u \in {NoView, w}
    BY <1>0, <1>5, <1>6 DEF Answer, Copies
  <2>2. w.components \in Partial(Id, Look) /\ w.data_ids \in Lists(Id) /\ w.n \in Nat
    BY <1>1 DEF View
  <2>3. a \in ViewMsg
    BY <1>1, <2>1, <2>2 DEF Msg, ViewMsg
  <2>4. a # NoMsg
    BY <2>3, DistinctAssumption
  <2>5. Received(p, u, a) = Merge(OrEmpty(u), a, w.size)
    <3>1. SizeOf(a) = w.size
      BY <1>2, <2>1 DEF SizeOf, Msg
    <3>. QED  BY <1>6, <3>1, ReceivedIs
  <2>6. Overwrite(OrEmpty(u).components, w.components) = w.components
    <3>1. OrEmpty(u).components = NoMap \/ OrEmpty(u).components = w.components
      BY <2>1, EmptyWhole DEF OrEmpty
    <3>2. DOMAIN NoMap = {}
      BY DEF NoMap
    <3>3. w.components = [k \in DOMAIN w.components |-> w.components[k]]
      BY <2>2, PartialMap
    <3>4. DOMAIN OrEmpty(u).components \cup DOMAIN w.components = DOMAIN w.components
      BY <3>1, <3>2
    <3>. QED  BY <3>3, <3>4 DEF Overwrite
  <2>7. Merge(OrEmpty(u), a, w.size) = ViewData(w.size, w.components, w.data_ids, w.n)
    <3>1. w.data_ids # Unchanged
      BY <2>2, DistinctAssumption
    <3>. QED  BY <2>1, <2>6, <3>1 DEF Merge, Msg
  <2>8. ViewData(w.size, w.components, w.data_ids, w.n) = w
    BY <1>1 DEF ViewData, View
  <2>. QED  BY <1>0, <1>3, <1>6, <2>4, <2>5, <2>7, <2>8 DEF Copies
<1>7. CASE p \in old
  <2>1. a = OldMsg(w.size, Picture(w), Len(w.data_ids), w.n)
    BY <1>5, <1>7 DEF AnswerOld
  <2>2. w.data_ids \in Lists(Id) /\ w.n \in Nat
    BY <1>1 DEF View
  <2>3. Picture(w) \in Lists(Look \cup {Garbage}) /\ DOMAIN Picture(w) = DOMAIN w.data_ids
    BY <1>1, PictureType
  <2>4. Picture(w) \in Partial(Place, Look \cup {Garbage}) /\ Len(w.data_ids) \in {0} \cup Place
    BY <2>2, <2>3, ListIs, PartialMap
  <2>5. a \in OldViewMsg
    BY <1>1, <2>1, <2>2, <2>4 DEF OldMsg, OldViewMsg
  <2>6. a # NoMsg
    BY <2>5, DistinctAssumption
  <2> DEFINE x == OrEmpty(u)
             r == Received(p, u, a)
  <2>7. u \in OldView \cup {NoView}
    BY <1>7 DEF Copies
  <2>8. r \in OldView /\ r = resOld(x, a)
    BY <1>7, <2>5, <2>7, ReceiveType, ReceivedIs
  <2>9. r.data_ids = [i \in 1 .. Len(w.data_ids) |-> i] /\ r.components = Overwrite(x.components, Picture(w))
    BY <2>1, <2>8 DEF resOld, ViewData, OldMsg
  <2>10. r # NoView
    BY <2>8, DistinctAssumption
  <2>11. ASSUME NEW i \in DOMAIN w.data_ids
         PROVE  i \in DOMAIN r.components /\ r.components[i] = At(w.components, w.data_ids[i])
    <3>1. i \in DOMAIN Picture(w) /\ Picture(w)[i] = At(w.components, w.data_ids[i])
      BY DEF Picture
    <3>. QED  BY <2>9, <3>1 DEF Overwrite
  <2> HIDE DEF r, x
  <2>12. Copies(p, r, w)
    BY <1>1, <1>7, <2>8, <2>9, <2>10, <2>11 DEF Copies
  <2>. QED  BY <1>0, <1>3, <2>6, <2>12 DEF r
<1>. QED  BY <1>6, <1>7

LEMMA CopiesSeen ==
    ASSUME NEW p, NEW u, NEW w \in View \cup {NoView}, Copies(p, u, w)
    PROVE  Seen(u) = Seen(w)
<1>1. CASE p \notin old
  BY <1>1 DEF Copies
<1>2. CASE p \in old /\ w = NoView
  BY <1>2 DEF Copies, Seen
<1>3. CASE p \in old /\ w # NoView
  <2>1. /\ u # NoView /\ u.data_ids = [i \in 1 .. Len(w.data_ids) |-> i]
        /\ \A i \in DOMAIN w.data_ids :
              i \in DOMAIN u.components /\ u.components[i] = At(w.components, w.data_ids[i])
    BY <1>3 DEF Copies
  <2>2. DOMAIN w.data_ids = 1 .. Len(w.data_ids)
    BY <1>3, ListIs DEF View
  <2>3. DOMAIN u.data_ids = DOMAIN w.data_ids /\ \A i \in DOMAIN w.data_ids : u.data_ids[i] = i
    BY <2>1, <2>2
  <2>4. \A i \in DOMAIN w.data_ids : At(u.components, u.data_ids[i]) = At(w.components, w.data_ids[i])
    BY <2>1, <2>3 DEF At
  <2>5. Picture(u) = Picture(w)
    BY <2>3, <2>4 DEF Picture
  <2>. QED  BY <1>3, <2>1, <2>5 DEF Seen
<1>. QED  BY <1>1, <1>2, <1>3

---------------------------------------------------------------------------
(* The messages on their way to the server.                                *)

LEMMA QueueMore ==
    ASSUME NEW S, NEW q \in Seq(S), NEW m \in S
    PROVE  /\ Len(q) \in Nat /\ Append(q, m) \in Seq(S) /\ Len(Append(q, m)) = Len(q) + 1
           /\ Append(q, m)[Len(q) + 1] = m /\ \A i \in 1 .. Len(q) : Append(q, m)[i] = q[i]
           /\ q \o <<m>> = Append(q, m) /\ q \o <<>> = q
OBVIOUS

LEMMA QueueLess ==
    ASSUME NEW S, NEW q \in Seq(S), q # <<>>
    PROVE  /\ Len(q) \in Nat \ {0} /\ Tail(q) \in Seq(S) /\ Len(Tail(q)) = Len(q) - 1
           /\ Head(q) = q[1] /\ q[1] \in S /\ \A i \in 1 .. Len(q) - 1 : Tail(q)[i] = q[i + 1]
OBVIOUS

LEMMA WhollyNothing ==
    ASSUME NEW v \in WholeView \cup {NoView}
    PROVE  \E s : Wholly(v, <<>>, s) /\ s[Len(<<>>)] = v
<1> DEFINE s == [i \in 0 .. 0 |-> v]
<1>1. s[0] = v /\ \A i \in 0 .. 0 : s[i] = v
  OBVIOUS
<1> HIDE DEF s
<1>2. Len(<<>>) = 0 /\ 1 .. 0 = {}
  OBVIOUS
<1>3. Wholly(v, <<>>, s)
  BY <1>1, <1>2 DEF Wholly, Becomes
<1>. QED  BY <1>1, <1>2, <1>3

LEMMA WhollyAppend ==
    ASSUME NEW S, NEW q \in Seq(S), NEW m \in S, NEW v, NEW s, Wholly(v, q, s),
           Puts(s[Len(q)], m) \in WholeView \cup {NoView}
    PROVE  \E t : /\ Wholly(v, Append(q, m), t)
                  /\ t[Len(Append(q, m))] = Puts(s[Len(q)], m)
<1>0. PICK p : p = Append(q, m)
  OBVIOUS
<1>1. PICK n \in Nat : n = Len(q) /\ Len(p) = n + 1 /\ p[n + 1] = m /\ \A i \in 1 .. n : p[i] = q[i]
  BY <1>0, QueueMore
<1>2. PICK x \in WholeView \cup {NoView} : x = Puts(s[n], m)
  BY <1>1
<1> DEFINE t == [i \in 0 .. n + 1 |-> IF i <= n THEN s[i] ELSE x]
<1>3. t[n + 1] = x /\ \A i \in 0 .. n : t[i] = s[i]
  OBVIOUS
<1> HIDE DEF t
<1>4. s[0] = v /\ (\A i \in 1 .. n : s[i] = Puts(s[i - 1], q[i]))
      /\ \A i \in 0 .. n : s[i] \in WholeView \cup {NoView}
  BY <1>1 DEF Wholly, Becomes
<1>5. ASSUME NEW i \in 1 .. n + 1 PROVE t[i] = Puts(t[i - 1], p[i])
  <2>1. CASE i = n + 1
    <3>1. t[i] = x /\ p[i] = m /\ i - 1 = n /\ t[n] = s[n]
      BY <1>1, <1>3, <2>1
    <3>2. t[i - 1] = s[n]
      BY <3>1
    <3>. QED  BY <1>2, <3>1, <3>2
  <2>2. CASE i \in 1 .. n
    <3>1. PICK j \in 0 .. n : j = i - 1
      BY <2>2
    <3>2. t[i] = s[i] /\ t[j] = s[j] /\ p[i] = q[i] /\ s[i] = Puts(s[j], q[i])
      BY <1>1, <1>3, <1>4, <2>2, <3>1
    <3>. QED  BY <3>1, <3>2
  <2>. QED  BY <2>1, <2>2
<1>6. \A i \in 0 .. n + 1 : t[i] \in WholeView \cup {NoView}
  <2>1. \A i \in 0 .. n + 1 : i \in 0 .. n \/ i = n + 1
    OBVIOUS
  <2>. QED  BY <1>2, <1>3, <1>4, <2>1
<1>7. t[0] = v
  BY <1>3, <1>4
<1>8. Wholly(v, p, t)
  BY <1>1, <1>5, <1>6, <1>7 DEF Wholly, Becomes
<1>. QED  BY <1>0, <1>1, <1>2, <1>3, <1>8

LEMMA WhollyTail ==
    ASSUME NEW S, NEW q \in Seq(S), q # <<>>, NEW v, NEW s, Wholly(v, q, s)
    PROVE  /\ Puts(v, Head(q)) = s[1] /\ s[1] \in WholeView \cup {NoView} /\ v \in WholeView \cup {NoView}
           /\ \E t : Wholly(s[1], Tail(q), t) /\ t[Len(Tail(q))] = s[Len(q)]
<1>0. PICK p : p = Tail(q)
  OBVIOUS
<1>1. PICK n \in Nat \ {0} : n = Len(q) /\ Len(p) = n - 1 /\ Head(q) = q[1]
                             /\ \A i \in 1 .. n - 1 : p[i] = q[i + 1]
  BY <1>0, QueueLess
<1> DEFINE t == [i \in 0 .. n - 1 |-> s[i + 1]]
<1>2. \A i \in 0 .. n - 1 : t[i] = s[i + 1]
  OBVIOUS
<1> HIDE DEF t
<1>3. s[0] = v /\ (\A i \in 1 .. n : s[i] = Puts(s[i - 1], q[i]))
      /\ \A i \in 0 .. n : s[i] \in WholeView \cup {NoView}
  BY <1>1 DEF Wholly, Becomes
<1>4. s[1] = Puts(v, q[1])
  <2>1. s[1] = Puts(s[1 - 1], q[1]) /\ 1 - 1 = 0
    BY <1>3
  <2>. QED  BY <1>3, <2>1
<1>5. ASSUME NEW i \in 1 .. n - 1 PROVE t[i] = Puts(t[i - 1], p[i])
  <2>1. PICK j \in 0 .. n - 1 : j = i - 1 /\ j + 1 = i
    OBVIOUS
  <2>2. PICK k \in 1 .. n : k = i + 1 /\ k - 1 = i
    OBVIOUS
  <2>3. t[i] = s[k] /\ t[j] = s[i] /\ p[i] = q[k]
    BY <1>1, <1>2, <2>1, <2>2
  <2>4. s[k] = Puts(s[i], q[k])
    BY <1>3, <2>2
  <2>. QED  BY <2>1, <2>3, <2>4
<1>6. \A i \in 0 .. n - 1 : t[i] \in WholeView \cup {NoView}
  BY <1>2, <1>3
<1>7. t[0] = s[1] /\ t[n - 1] = s[n]
  BY <1>2
<1>8. Wholly(s[1], p, t)
  BY <1>1, <1>5, <1>6, <1>7 DEF Wholly, Becomes
<1>9. s[1] \in WholeView \cup {NoView} /\ s[0] \in WholeView \cup {NoView}
  BY <1>3
<1>. QED  BY <1>0, <1>1, <1>3, <1>4, <1>7, <1>8, <1>9

LEMMA WhollyBefore ==
    ASSUME NEW q, NEW p, Len(q) \in Nat, Len(p) \in Nat, Len(p) <= Len(q), \A i \in 1 .. Len(p) : p[i] = q[i],
           NEW v, NEW s, Wholly(v, q, s)
    PROVE  Wholly(v, p, s)
BY DEF Wholly, Becomes

LEMMA PutsSame ==
    ASSUME UNCHANGED protocol
    PROVE  \A v, q, s : Wholly(v, q, s)' <=> Wholly(v, q, s)
<1>1. \A v, m : Puts(v, m)' = Puts(v, m)
  BY DEF protocol, Puts, Serve, view, canvas3d, canvas2d, view_old, canvas3d_old, canvas2d_old
<1>. QED  BY <1>1 DEF Wholly, Becomes

\* A message that the publisher adds brings what it has now.
LEMMA BringsMore ==
    ASSUME KindOK, Publisher \notin old, NEW S, NEW q \in Seq(S), NEW m \in S, NEW v, NEW s, Wholly(v, q, s),
           NEW w \in WholeView \cup {NoView}, Carries(s[Len(q)], w),
           NEW prev \in {NoView, w}, NEW now \in WholeView, NEW n \in Nat, m.msg = Diff(prev, now, n)
    PROVE  /\ m.msg = NoMsg => Carries(s[Len(q)], now)
           /\ \E t : Wholly(v, Append(q, m), t) /\ Carries(t[Len(Append(q, m))], now)
<1>1. PICK x : x = s[Len(q)]
  OBVIOUS
<1>2. x \in WholeView \cup {NoView}
  <2>1. Len(q) \in 0 .. Len(q)
    OBVIOUS
  <2>. QED  BY <1>1, <2>1 DEF Wholly
<1>3. PICK d : d = Diff(prev, now, n)
  OBVIOUS
<1>4. /\ d = NoMsg => Carries(x, now)
      /\ d # NoMsg => Serve(x, d).now \in WholeView /\ Carries(Serve(x, d).now, now)
  BY <1>1, <1>2, <1>3, DiffCarries
<1>5. Puts(x, m) \in WholeView \cup {NoView} /\ Carries(Puts(x, m), now)
  BY <1>2, <1>3, <1>4 DEF Puts
<1>6. \E t : Wholly(v, Append(q, m), t) /\ t[Len(Append(q, m))] = Puts(x, m)
  BY <1>1, <1>5, WhollyAppend
<1>. QED  BY <1>1, <1>3, <1>4, <1>5, <1>6

---------------------------------------------------------------------------
(* The batches on their way to a follower.                                 *)

LEMMA FollowsNothing ==
    ASSUME NEW p, NEW x PROVE \E s : Follows(p, x, <<>>, s) /\ s[Len(<<>>)] = x
<1> DEFINE s == [i \in 0 .. 0 |-> x]
<1>1. s[0] = x
  OBVIOUS
<1> HIDE DEF s
<1>2. Len(<<>>) = 0 /\ 1 .. 0 = {}
  OBVIOUS
<1>. QED  BY <1>1, <1>2 DEF Follows

LEMMA FollowsAppend ==
    ASSUME NEW S, NEW q \in Seq(S), NEW b \in S, NEW p, NEW v, NEW s, Follows(p, v, q, s)
    PROVE  \E t : /\ Follows(p, v, Append(q, b), t)
                  /\ t[Len(Append(q, b))] = Reads(p, s[Len(q)], b)
<1>0. PICK r : r = Append(q, b)
  OBVIOUS
<1>1. PICK n \in Nat : n = Len(q) /\ Len(r) = n + 1 /\ r[n + 1] = b /\ \A i \in 1 .. n : r[i] = q[i]
  BY <1>0, QueueMore
<1>2. PICK x : x = Reads(p, s[n], b)
  OBVIOUS
<1> DEFINE t == [i \in 0 .. n + 1 |-> IF i <= n THEN s[i] ELSE x]
<1>3. t[n + 1] = x /\ \A i \in 0 .. n : t[i] = s[i]
  OBVIOUS
<1> HIDE DEF t
<1>4. s[0] = v /\ \A i \in 1 .. n : s[i] = Reads(p, s[i - 1], q[i])
  BY <1>1 DEF Follows
<1>5. ASSUME NEW i \in 1 .. n + 1 PROVE t[i] = Reads(p, t[i - 1], r[i])
  <2>1. CASE i = n + 1
    <3>1. t[i] = x /\ r[i] = b /\ i - 1 = n /\ t[n] = s[n]
      BY <1>1, <1>3, <2>1
    <3>2. t[i - 1] = s[n]
      BY <3>1
    <3>. QED  BY <1>2, <3>1, <3>2
  <2>2. CASE i \in 1 .. n
    <3>1. PICK j \in 0 .. n : j = i - 1
      BY <2>2
    <3>2. t[i] = s[i] /\ t[j] = s[j] /\ r[i] = q[i] /\ s[i] = Reads(p, s[j], q[i])
      BY <1>1, <1>3, <1>4, <2>2, <3>1
    <3>. QED  BY <3>1, <3>2
  <2>. QED  BY <2>1, <2>2
<1>6. t[0] = v
  BY <1>3, <1>4
<1>7. Follows(p, v, r, t)
  BY <1>1, <1>5, <1>6 DEF Follows
<1>. QED  BY <1>0, <1>1, <1>2, <1>3, <1>7

LEMMA FollowsTail ==
    ASSUME NEW S, NEW q \in Seq(S), q # <<>>, NEW p, NEW v, NEW s, Follows(p, v, q, s)
    PROVE  \E t : Follows(p, Reads(p, v, Head(q)), Tail(q), t) /\ t[Len(Tail(q))] = s[Len(q)]
<1>0. PICK r : r = Tail(q)
  OBVIOUS
<1>1. PICK n \in Nat \ {0} : n = Len(q) /\ Len(r) = n - 1 /\ Head(q) = q[1]
                             /\ \A i \in 1 .. n - 1 : r[i] = q[i + 1]
  BY <1>0, QueueLess
<1> DEFINE t == [i \in 0 .. n - 1 |-> s[i + 1]]
<1>2. \A i \in 0 .. n - 1 : t[i] = s[i + 1]
  OBVIOUS
<1> HIDE DEF t
<1>3. s[0] = v /\ \A i \in 1 .. n : s[i] = Reads(p, s[i - 1], q[i])
  BY <1>1 DEF Follows
<1>4. s[1] = Reads(p, v, q[1])
  <2>1. s[1] = Reads(p, s[1 - 1], q[1]) /\ 1 - 1 = 0
    BY <1>3
  <2>. QED  BY <1>3, <2>1
<1>5. ASSUME NEW i \in 1 .. n - 1 PROVE t[i] = Reads(p, t[i - 1], r[i])
  <2>1. PICK j \in 0 .. n - 1 : j = i - 1 /\ j + 1 = i
    OBVIOUS
  <2>2. PICK k \in 1 .. n : k = i + 1 /\ k - 1 = i
    OBVIOUS
  <2>3. t[i] = s[k] /\ t[j] = s[i] /\ r[i] = q[k]
    BY <1>1, <1>2, <2>1, <2>2
  <2>4. s[k] = Reads(p, s[i], q[k])
    BY <1>3, <2>2
  <2>. QED  BY <2>1, <2>3, <2>4
<1>6. t[0] = s[1] /\ t[n - 1] = s[n]
  BY <1>2
<1>7. Follows(p, s[1], r, t)
  BY <1>1, <1>5, <1>6 DEF Follows
<1>. QED  BY <1>0, <1>1, <1>4, <1>6, <1>7

LEMMA ReadsSame ==
    ASSUME UNCHANGED protocol
    PROVE  /\ \A p, x, q, s : Follows(p, x, q, s)' <=> Follows(p, x, q, s)
           /\ \A p, u, w : Copies(p, u, w)' <=> Copies(p, u, w)
<1>1. \A p, x, b : Reads(p, x, b)' = Reads(p, x, b)
  BY DEF protocol, Reads, Received, resOld, resView, resCanvas3D, resCanvas2D
<1>2. \A p, u, w : Copies(p, u, w)' <=> Copies(p, u, w)
  BY DEF protocol, Copies
<1>. QED  BY <1>1, <1>2 DEF Follows

---------------------------------------------------------------------------
(* The registry.                                                           *)

LEMMA ViewsStoreStep == [ViewsNext]_viewsVars => [StoreNext]_storeVars
<1> SUFFICES ASSUME [ViewsNext]_viewsVars PROVE [StoreNext]_storeVars
  OBVIOUS
<1>1. CASE UNCHANGED viewsVars
  BY <1>1 DEF viewsVars
<1>2. ASSUME NEW d \in Drawing, draw(d) PROVE UNCHANGED storeVars
  BY <1>2 DEF draw
<1>3. CASE sync \/ sendQueue
  BY <1>3 DEF sync, sendQueue
<1>4. ASSUME NEW p \in Client, request(p) \/ Disconnect(p) \/ Recv(p) PROVE UNCHANGED storeVars
  BY <1>4 DEF request, Disconnect, disconnect, Recv
<1>5. ASSUME NEW p \in Client, NEW c \in Conn, Connect(p, c) PROVE StoreNext
  BY <1>5 DEF Connect, connect, StoreNext
<1>6. ASSUME NEW c \in Conn, SyncInit(c) PROVE StoreNext
  BY <1>6, ClientAssumption DEF SyncInit, syncInit, OwnName, StoreNext
<1>7. ASSUME NEW c \in Conn, ServeData(c) \/ ServeReq(c) PROVE UNCHANGED storeVars
  BY <1>7 DEF ServeData, ServeReq
<1>8. ASSUME NEW c \in Conn, Close(c) PROVE StoreNext
  BY <1>8 DEF Close, onClose, StoreNext
<1>. QED  BY <1>1, <1>2, <1>3, <1>4, <1>5, <1>6, <1>7, <1>8 DEF ViewsNext

\* The server, as publisher and followers drive it, implements the registry.
THEOREM ViewsImplementStore == ViewsSpec => StoreSpec
<1>1. ViewsInit => StoreInit
  BY DEF ViewsInit, LinkInit
<1>. QED  BY <1>1, ViewsStoreStep, PTL DEF ViewsSpec, StoreSpec

LEMMA Names ==
    /\ Publisher \in Client /\ PublisherName \in Name
    /\ \A c \in Conn : owner[c] \in Client /\ OwnName(c) \in MName
    /\ \A c \in Conn : OwnName(c) = PublisherName <=> owner[c] = Publisher
BY ClientAssumption, ViewAssumption DEF PublisherName, OwnName, MName

LEMMA Links ==
    ASSUME LinkTypeOK, NEW p \in Client, conn_of[p] # NoConn
    PROVE  conn_of[p] \in Conn /\ owner[conn_of[p]] = p
BY DEF LinkTypeOK

LEMMA CurrentType ==
    ASSUME StoreInv, ViewsTypes
    PROVE  /\ Current \in View \cup {NoView}
           /\ kind # "canvas2d" /\ Current # NoView => Current.size = NoSize
           /\ Current # NoView => Known
<1>1. CASE Known
  <2>1. EntryOf(PublisherName) \in Conn
    BY <1>1, Names, FoundEntry DEF Known
  <2>. QED  BY <1>1, <2>1 DEF Current, ViewsTypes
<1>2. CASE ~Known
  BY <1>2 DEF Current
<1>. QED  BY <1>1, <1>2

LEMMA SameCurrent ==
    ASSUME UNCHANGED <<clients_by_id, name, sync_init>>
    PROVE  /\ Known' = Known /\ EntryOf(PublisherName)' = EntryOf(PublisherName)
           /\ data' = data => Current' = Current
<1>1. PublisherName' = PublisherName
  BY DEF PublisherName
<1>2. \A n : FoundName(n)' = FoundName(n) /\ EntryOf(n)' = EntryOf(n)
  BY SameEntry
<1>3. Known' = Known /\ EntryOf(PublisherName)' = EntryOf(PublisherName)
  BY <1>1, <1>2 DEF Known
<1>. QED  BY <1>3 DEF Current

\* What the server reads of the publisher comes from a connection that has an entry.
LEMMA PublisherKnown ==
    ASSUME StoreInv, Begun, NEW c \in Conn, owner[c] = Publisher, sync_init[c], c \in clients
    PROVE  /\ Known
           /\ clients_by_id[member_id[c]] = c => EntryOf(PublisherName) = c
<1>1. name[c] = PublisherName
  BY Names DEF Begun
<1>2. member_id[c] \in DOMAIN clients_by_id /\ name[clients_by_id[member_id[c]]] = PublisherName
  BY <1>1 DEF StoreInv, Reachable, ForEach
<1>3. FoundName(PublisherName) = {member_id[c]} /\ EntryOf(PublisherName) = clients_by_id[member_id[c]]
  BY <1>2, Names, EntryFound
<1>. QED  BY <1>3 DEF Known

---------------------------------------------------------------------------
(* The publisher.                                                          *)

LEMMA LatestType ==
    ASSUME ViewsTypes
    PROVE  /\ Latest \in WholeView \cup {NoView}
           /\ Changed => Latest \in WholeView
           /\ ~Changed => Latest = recv_self
           /\ (recv_self' = Latest /\ data_send_prev' \in {NoView, Latest} /\ data_send' = <<>>
               /\ shown' = IF Changed THEN Append(shown, Picture(Latest)) ELSE shown) =>
                 /\ recv_self' \in WholeView \cup {NoView} /\ data_send_prev' \in {NoView, recv_self'}
                 /\ data_send' \in Seq(WholeView) /\ shown' \in Seq(Lists(Look)) /\ Len(shown') \in Nat
<1>1. /\ data_send \in Seq(WholeView) /\ shown \in Seq(Lists(Look))
      /\ recv_self \in WholeView \cup {NoView}
  BY DEF ViewsTypes
<1>2. ASSUME Changed PROVE Latest \in WholeView
  <2>1. Len(data_send) \in DOMAIN data_send
    BY <1>1, <1>2 DEF Changed
  <2>2. Latest = data_send[Len(data_send)]
    BY <1>2 DEF Latest
  <2>. QED  BY <1>1, <2>1, <2>2
<1>3. ASSUME ~Changed PROVE Latest = recv_self
  BY <1>3 DEF Latest
<1>4. ASSUME Changed PROVE Picture(Latest) \in Lists(Look)
  BY <1>2, <1>4, PictureType DEF WholeView
<1>5. \A x \in Lists(Look) : Append(shown, x) \in Seq(Lists(Look))
  BY <1>1
<1>6. \A q \in Seq(Lists(Look)) : Len(q) \in Nat
  OBVIOUS
<1>7. <<>> \in Seq(WholeView)
  OBVIOUS
<1>. QED  BY <1>1, <1>2, <1>3, <1>4, <1>5, <1>6, <1>7

LEMMA Transferred ==
    ASSUME ViewsTypes, NEW f \in BOOLEAN, transferSend(f)
    PROVE  /\ recv_self' = Latest
           /\ recv_self' \in WholeView \cup {NoView} /\ data_send_prev' \in {NoView, recv_self'}
           /\ data_send' \in Seq(WholeView) /\ shown' \in Seq(Lists(Look)) /\ Len(shown') \in Nat
<1>1. /\ recv_self' = Latest /\ data_send_prev' \in {NoView, Latest} /\ data_send' = <<>>
      /\ shown' = IF Changed THEN Append(shown, Picture(Latest)) ELSE shown
  BY DEF transferSend
<1>. QED  BY <1>1, LatestType

LEMMA FirstType ==
    ASSUME ViewsTypes, NEW f \in BOOLEAN, transferSend(f)
    PROVE  First \in PublisherMsg /\ First.kind = "first" /\ First.msg = Diff(NoView, Latest, Len(shown'))
<1>1. Latest \in WholeView \cup {NoView} /\ Len(shown') \in Nat
  BY Transferred, LatestType
<1>2. Diff(NoView, Latest, Len(shown')) \in FromPublisher \cup {NoMsg}
  BY <1>1, Kinds, DiffType
<1>3. (Publisher \in req) = FALSE
  BY DEF ViewsTypes
<1>. QED  BY <1>2, <1>3 DEF First, FirstMsg, PublisherMsg

LEMMA SnapshotType ==
    ASSUME ViewsTypes, NEW f \in BOOLEAN, transferSend(f)
    PROVE  /\ Snapshot.msg = IF Changed THEN Diff(data_send_prev, Latest, Len(shown')) ELSE NoMsg
           /\ Snapshot.msg # NoMsg => Snapshot \in PublisherMsg
<1>1. Latest \in WholeView \cup {NoView} /\ Len(shown') \in Nat
      /\ data_send_prev \in WholeView \cup {NoView}
  BY Transferred, LatestType DEF ViewsTypes
<1>2. Diff(data_send_prev, Latest, Len(shown')) \in FromPublisher \cup {NoMsg}
  BY <1>1, Kinds, DiffType
<1>3. Snapshot.msg = (IF Changed THEN Diff(data_send_prev, Latest, Len(shown')) ELSE NoMsg)
      /\ Snapshot = [kind |-> "data", msg |-> Snapshot.msg]
  BY DEF Snapshot, DataMsg
<1>4. PICK x \in FromPublisher \cup {NoMsg} : x = Snapshot.msg /\ Snapshot = [kind |-> "data", msg |-> x]
  BY <1>2, <1>3
<1>5. ASSUME x # NoMsg PROVE Snapshot \in PublisherMsg
  <2>1. [kind |-> "data", msg |-> x] \in [kind : {"data"}, msg : FromPublisher]
    BY <1>5
  <2>. QED  BY <1>4, <2>1 DEF PublisherMsg
<1>. QED  BY <1>3, <1>4, <1>5

\* The first message of a connection brings everything.
LEMMA BringsFirst ==
    ASSUME KindOK, Publisher \notin old, NEW now \in WholeView \cup {NoView}, NEW n \in Nat,
           NEW m, m.msg = Diff(NoView, now, n)
    PROVE  \E t : Wholly(NoView, <<m>>, t) /\ Carries(t[Len(<<m>>)], now)
<1>0. PICK S : S = {m}
  OBVIOUS
<1>1. PICK q \in Seq(S) : q = <<>> /\ Append(q, m) = <<m>> /\ m \in S
  <2>1. <<>> \in Seq(S) /\ Append(<<>>, m) = <<m>> /\ m \in S
    BY <1>0
  <2>. QED  BY <2>1
<1>2. PICK s : Wholly(NoView, q, s) /\ s[Len(q)] = NoView
  BY <1>1, WhollyNothing
<1>3. Carries(NoView, NoView)
  BY DEF Carries
<1>4. CASE now = NoView
  <2>1. m.msg = NoMsg
    BY <1>4 DEF Diff
  <2>2. Puts(NoView, m) = NoView
    BY <2>1 DEF Puts
  <2>3. PICK v : v = NoView
    OBVIOUS
  <2>4. \E t : Wholly(v, Append(q, m), t) /\ t[Len(Append(q, m))] = Puts(s[Len(q)], m)
    <3>1. m \in S
      BY <1>1
    <3>2. Wholly(v, q, s)
      BY <1>2, <2>3
    <3>3. Puts(s[Len(q)], m) \in WholeView \cup {NoView}
      BY <1>2, <2>2
    <3>. QED  BY <3>1, <3>2, <3>3, WhollyAppend
  <2>5. \E t : Wholly(NoView, <<m>>, t) /\ t[Len(<<m>>)] = NoView
    BY <1>1, <1>2, <2>2, <2>3, <2>4
  <2>. QED  BY <1>3, <1>4, <2>5
<1>5. CASE now # NoView
  <2>1. now \in WholeView /\ NoView \in {NoView, NoView} /\ NoView \in WholeView \cup {NoView}
    BY <1>5
  <2>2. Carries(s[Len(q)], NoView)
    BY <1>2, <1>3
  <2>3. \E t : Wholly(NoView, Append(q, m), t) /\ Carries(t[Len(Append(q, m))], now)
    BY <1>2, <1>1, <2>1, <2>2, BringsMore
  <2>. QED  BY <1>1, <2>3
<1>. QED  BY <1>4, <1>5

---------------------------------------------------------------------------
(* What the server will have (WillKeep).                                    *)

LEMMA Concatenated ==
    ASSUME NEW S, NEW q \in Seq(S), NEW r \in Seq(S)
    PROVE  /\ q \o r \in Seq(S) /\ q \o <<>> = q /\ Len(q \o r) = Len(q) + Len(r)
           /\ \A i \in 1 .. Len(q) : (q \o r)[i] = q[i]
           /\ \A m \in S : q \o Append(r, m) = Append(q \o r, m)
           /\ q # <<>> => q \o r # <<>> /\ Head(q \o r) = Head(q) /\ Tail(q \o r) = Tail(q) \o r
<1>1. q \o r \in Seq(S) /\ q \o <<>> = q /\ Len(q \o r) = Len(q) + Len(r)
      /\ \A i \in 1 .. Len(q) : (q \o r)[i] = q[i]
  OBVIOUS
<1>2. ASSUME NEW m \in S PROVE q \o Append(r, m) = Append(q \o r, m)
  OBVIOUS
<1>3. ASSUME q # <<>> PROVE q \o r # <<>> /\ Head(q \o r) = Head(q) /\ Tail(q \o r) = Tail(q) \o r
  <2>1. q \o r # <<>> /\ Head(q \o r) = Head(q)
    BY <1>3
  <2>2. Tail(q \o r) = Tail(q) \o r
    BY <1>3
  <2>. QED  BY <2>1, <2>2
<1>. QED  BY <1>1, <1>2, <1>3

LEMMA ConcatenatedTail ==
    ASSUME NEW S, NEW q \in Seq(S), NEW r \in Seq(S), q # <<>>
    PROVE  q \o r \in Seq(S) /\ q \o r # <<>> /\ Head(q \o r) = Head(q) /\ Tail(q \o r) = Tail(q) \o r
BY Concatenated

LEMMA SubSeqAppend ==
    ASSUME NEW S, NEW q \in Seq(S), NEW m \in S, NEW k \in 0 .. Len(q)
    PROVE  SubSeq(Append(q, m), k + 1, Len(q) + 1) = Append(SubSeq(q, k + 1, Len(q)), m)
<1>1. PICK n \in Nat : n = Len(q)
  BY LenProperties
<1>2. PICK u \in Seq(S) : u = Append(q, m)
  BY AppendProperties
<1>3. Len(u) = n + 1 /\ u[n + 1] = m /\ \A i \in 1 .. n : u[i] = q[i]
  BY <1>1, <1>2, AppendProperties
<1>4. (\A i \in k + 1 .. n + 1 : u[i] \in S) /\ \A i \in k + 1 .. n : q[i] \in S
  BY <1>1, <1>3
<1>5. k + 1 \in Int /\ n + 1 \in Int /\ n \in Int /\ k <= n
  BY <1>1
<1>6. PICK a \in Seq(S) : a = SubSeq(u, k + 1, n + 1)
  BY <1>4, <1>5, SubSeqProperties
<1>7. Len(a) = n + 1 - k /\ \A i \in 1 .. n + 1 - k : a[i] = u[k + i]
  <2>1. Len(a) = (IF k + 1 <= n + 1 THEN n + 1 - (k + 1) + 1 ELSE 0)
        /\ \A i \in 1 .. n + 1 - (k + 1) + 1 : a[i] = u[k + 1 + i - 1]
    BY <1>4, <1>5, <1>6, SubSeqProperties
  <2>2. n + 1 - (k + 1) + 1 = n + 1 - k /\ \A i \in Int : k + 1 + i - 1 = k + i
    BY <1>5
  <2>. QED  BY <1>5, <2>1, <2>2
<1>8. PICK r \in Seq(S) : r = SubSeq(q, k + 1, n)
  BY <1>4, <1>5, SubSeqProperties
<1>9. Len(r) = n - k /\ \A i \in 1 .. n - k : r[i] = q[k + i]
  <2>1. Len(r) = (IF k + 1 <= n THEN n - (k + 1) + 1 ELSE 0)
        /\ \A i \in 1 .. n - (k + 1) + 1 : r[i] = q[k + 1 + i - 1]
    BY <1>4, <1>5, <1>8, SubSeqProperties
  <2>2. n - (k + 1) + 1 = n - k /\ \A i \in Int : k + 1 + i - 1 = k + i
    BY <1>5
  <2>3. (IF k + 1 <= n THEN n - (k + 1) + 1 ELSE 0) = n - k
    BY <1>5
  <2>. QED  BY <2>1, <2>2, <2>3
<1>10. PICK b \in Seq(S) : b = Append(r, m)
  BY AppendProperties
<1>11. Len(b) = n - k + 1 /\ b[n - k + 1] = m /\ \A i \in 1 .. n - k : b[i] = r[i]
  BY <1>9, <1>10, AppendProperties
<1>12. ASSUME NEW i \in 1 .. n + 1 - k PROVE a[i] = b[i]
  <2>1. CASE i = n + 1 - k
    <3>1. k + i = n + 1 /\ i = n - k + 1
      BY <1>5, <2>1
    <3>. QED  BY <1>3, <1>7, <1>11, <3>1
  <2>2. CASE i # n + 1 - k
    <3>1. i \in 1 .. n - k /\ k + i \in 1 .. n
      BY <1>5, <2>2
    <3>. QED  BY <1>3, <1>7, <1>9, <1>11, <3>1
  <2>. QED  BY <2>1, <2>2
<1>13. Len(a) = Len(b)
  BY <1>5, <1>7, <1>11
<1>14. a = b
  BY <1>7, <1>12, <1>13, SeqEqual
<1>. QED  BY <1>1, <1>2, <1>6, <1>8, <1>10, <1>14

LEMMA OneMessage ==
    ASSUME NEW S, NEW m \in S
    PROVE  \E q \in Seq(S) : q = <<m>> /\ q \o <<>> = q /\ Len(q) = 1 /\ q[1] = m /\ Len(q) \in Nat \ {0}
<1>1. PICK q \in Seq(S) : q = <<m>> /\ Len(q) = 1 /\ q[1] = m
  <2>1. <<m>> \in Seq(S) /\ Len(<<m>>) = 1 /\ <<m>>[1] = m
    OBVIOUS
  <2>. QED  BY <2>1
<1>2. q \o <<>> = q
  BY ConcatEmptySeq
<1>. QED  BY <1>1, <1>2

LEMMA FirstOnes ==
    ASSUME NEW S, NEW q \in Seq(S), NEW k \in 0 .. Len(q)
    PROVE  \E r \in Seq(S) : /\ r = SubSeq(q, 1, k) /\ Len(r) = k /\ Len(q) \in Nat /\ Len(r) \in Nat
                             /\ Len(r) <= Len(q) /\ \A i \in 1 .. Len(r) : r[i] = q[i]
<1>1. Len(q) \in Nat /\ k \in Nat /\ k <= Len(q) /\ \A i \in 1 .. k : q[i] \in S
  BY LenProperties
<1>2. PICK r : r = SubSeq(q, 1, k)
  OBVIOUS
<1>3. r \in Seq(S) /\ Len(r) = (IF 1 <= k THEN k - 1 + 1 ELSE 0)
      /\ \A i \in 1 .. k - 1 + 1 : r[i] = q[1 + i - 1]
  BY <1>1, <1>2, SubSeqProperties
<1>4. (IF 1 <= k THEN k - 1 + 1 ELSE 0) = k /\ k - 1 + 1 = k /\ \A i \in Int : 1 + i - 1 = i
  BY <1>1
<1>5. Len(r) = k /\ \A i \in 1 .. k : r[i] = q[i]
  BY <1>3, <1>4
<1>. QED  BY <1>1, <1>2, <1>3, <1>5

LEMMA RestIs ==
    ASSUME ViewsTypes
    PROVE  /\ Rest \in Seq(PublisherMsg)
           /\ leftover = 0 => Rest = sync_queue
           /\ leftover' = Len(sync_queue) /\ sync_queue' = sync_queue => Rest' = <<>>
           /\ leftover' = 0 /\ sync_queue' = <<>> => Rest' = <<>>
           /\ \A m \in PublisherMsg : leftover' = leftover /\ sync_queue' = Append(sync_queue, m) =>
                                         Rest' = Append(Rest, m)
<1>1. sync_queue \in Seq(PublisherMsg) /\ leftover \in 0 .. Len(sync_queue)
  BY DEF ViewsTypes
<1>2. Rest \in Seq(PublisherMsg) /\ (leftover = 0 => Rest = sync_queue)
  BY <1>1 DEF Rest
<1>3. leftover' = Len(sync_queue) /\ sync_queue' = sync_queue => Rest' = <<>>
  BY <1>1 DEF Rest
<1>4. leftover' = 0 /\ sync_queue' = <<>> => Rest' = <<>>
  BY DEF Rest
<1>5. ASSUME NEW m \in PublisherMsg, leftover' = leftover, sync_queue' = Append(sync_queue, m)
      PROVE  Rest' = Append(Rest, m)
  <2>1. PICK q \in Seq(PublisherMsg) : q = sync_queue
    BY <1>1
  <2>2. PICK k \in 0 .. Len(q) : k = leftover
    BY <1>1, <2>1
  <2>3. SubSeq(Append(q, m), k + 1, Len(q) + 1) = Append(SubSeq(q, k + 1, Len(q)), m)
    BY <2>2, SubSeqAppend
  <2>4. Len(Append(q, m)) = Len(q) + 1
    OBVIOUS
  <2>. QED  BY <1>5, <2>1, <2>2, <2>3, <2>4 DEF Rest
<1>. QED  BY <1>2, <1>3, <1>4, <1>5

\* A step that is not about what the publisher has sent.
LEMMA KeepSame ==
    ASSUME WillKeep, ViewsTypes, UNCHANGED <<protocol, recv_self, sync_first, sync_queue, leftover>>,
           conn_of'[Publisher] = conn_of[Publisher], trusted' => trusted,
           \A c \in Conn : owner[c] = Publisher => data'[c] = data[c] /\ sent'[c] = sent[c]
    PROVE  WillKeep'
<1> SUFFICES ASSUME trusted', (Publisher \notin old)' PROVE
        /\ \A c \in Conn : owner[c] = Publisher => \E s : Wholly(data[c], sent[c], s)'
        /\ conn_of'[Publisher] # NoConn =>
              Brings(data[conn_of[Publisher]], sent[conn_of[Publisher]] \o Rest)'
        /\ conn_of'[Publisher] = NoConn /\ sync_first' # NoFirst =>
              Brings(NoView, <<sync_first>> \o Rest)'
  BY DEF WillKeep
<1>1. trusted /\ Publisher \notin old /\ Rest' = Rest
  BY DEF protocol, Rest
<1>2. \A v, q : Brings(v, q)' <=> Brings(v, q)
  BY PutsSame DEF Brings, Carries
<1>3. \A c \in Conn : owner[c] = Publisher => \E s : Wholly(data[c], sent[c], s)'
  BY <1>1, PutsSame DEF WillKeep
<1>4. ASSUME conn_of[Publisher] # NoConn
      PROVE  Brings(data[conn_of[Publisher]], sent[conn_of[Publisher]] \o Rest)'
  <2>1. data'[conn_of[Publisher]] = data[conn_of[Publisher]] /\ sent'[conn_of[Publisher]] = sent[conn_of[Publisher]]
    BY <1>4, Links, Names DEF ViewsTypes
  <2>2. Brings(data[conn_of[Publisher]], sent[conn_of[Publisher]] \o Rest)
    BY <1>1, <1>4 DEF WillKeep
  <2>. QED  BY <1>1, <1>2, <2>1, <2>2
<1>5. ASSUME conn_of[Publisher] = NoConn, sync_first # NoFirst
      PROVE  Brings(NoView, <<sync_first>> \o Rest)'
  BY <1>1, <1>2, <1>5 DEF WillKeep
<1>. QED  BY <1>3, <1>4, <1>5

\* The server reads a message of the publisher.
LEMMA KeepRead ==
    ASSUME WillKeep, ViewsTypes, UNCHANGED <<protocol, recv_self, sync_first, sync_queue, leftover, conn_of>>,
           trusted' => trusted, NEW c \in Conn, owner[c] = Publisher, sent[c] # <<>>,
           sent' = [sent EXCEPT ![c] = Tail(@)], data' = [data EXCEPT ![c] = Puts(data[c], Head(sent[c]))]
    PROVE  WillKeep'
<1> SUFFICES ASSUME trusted', (Publisher \notin old)' PROVE
        /\ \A d \in Conn : owner[d] = Publisher => \E s : Wholly(data[d], sent[d], s)'
        /\ conn_of'[Publisher] # NoConn =>
              Brings(data[conn_of[Publisher]], sent[conn_of[Publisher]] \o Rest)'
        /\ conn_of'[Publisher] = NoConn /\ sync_first' # NoFirst =>
              Brings(NoView, <<sync_first>> \o Rest)'
  BY DEF WillKeep
<1>1. trusted /\ Publisher \notin old /\ Rest' = Rest
  BY DEF protocol, Rest
<1>2. \A v, q : Brings(v, q)' <=> Brings(v, q)
  BY PutsSame DEF Brings, Carries
<1>3. /\ sent'[c] = Tail(sent[c]) /\ data'[c] = Puts(data[c], Head(sent[c])) /\ sent[c] \in Seq(PublisherMsg)
      /\ \A d \in Conn \ {c} : sent'[d] = sent[d] /\ data'[d] = data[d]
  BY DEF ViewsTypes
<1>4. ASSUME NEW d \in Conn, owner[d] = Publisher PROVE \E s : Wholly(data[d], sent[d], s)'
  <2>1. PICK s : Wholly(data[d], sent[d], s)
    BY <1>1, <1>4 DEF WillKeep
  <2>2. CASE d = c
    BY <1>3, <2>1, <2>2, WhollyTail, PutsSame
  <2>3. CASE d # c
    BY <1>3, <2>1, <2>3, PutsSame
  <2>. QED  BY <2>2, <2>3
<1>5. ASSUME conn_of[Publisher] # NoConn
      PROVE  Brings(data[conn_of[Publisher]], sent[conn_of[Publisher]] \o Rest)'
  <2>0. PICK d \in Conn : d = conn_of[Publisher]
    BY <1>5, Links, Names DEF ViewsTypes
  <2>1. Brings(data[d], sent[d] \o Rest)
    BY <1>1, <1>5, <2>0 DEF WillKeep
  <2>2. CASE d = c
    <3>1. PICK q : q = sent[c] \o Rest
      OBVIOUS
    <3>2. q \in Seq(PublisherMsg) /\ q # <<>> /\ Head(q) = Head(sent[c]) /\ Tail(q) = Tail(sent[c]) \o Rest
      <4>1. PICK u \in Seq(PublisherMsg), r \in Seq(PublisherMsg) : u = sent[c] /\ r = Rest /\ u # <<>>
        BY <1>3, RestIs
      <4>2. u \o r \in Seq(PublisherMsg) /\ u \o r # <<>> /\ Head(u \o r) = Head(u) /\ Tail(u \o r) = Tail(u) \o r
        BY <4>1, ConcatenatedTail
      <4>. QED  BY <3>1, <4>1, <4>2
    <3>3. PICK s : Wholly(data[c], q, s) /\ Carries(s[Len(q)], recv_self)
      BY <2>1, <2>2, <3>1 DEF Brings
    <3>4. \E t : Wholly(data'[c], Tail(q), t) /\ t[Len(Tail(q))] = s[Len(q)]
      BY <1>3, <3>2, <3>3, WhollyTail
    <3>5. PICK v, p : v = data'[c] /\ p = sent'[c] \o Rest'
      OBVIOUS
    <3>6. p = Tail(q)
      BY <1>1, <1>3, <3>2, <3>5
    <3>7. Brings(v, p)
      BY <3>3, <3>4, <3>5, <3>6 DEF Brings
    <3>8. Brings(v, p)'
      BY <1>2, <3>7
    <3>9. d = conn_of'[Publisher]
      BY <2>0
    <3>. QED  BY <2>2, <3>5, <3>8, <3>9
  <2>3. CASE d # c
    BY <1>1, <1>2, <1>3, <2>0, <2>1, <2>3
  <2>. QED  BY <2>2, <2>3
<1>6. ASSUME conn_of[Publisher] = NoConn, sync_first # NoFirst
      PROVE  Brings(NoView, <<sync_first>> \o Rest)'
  BY <1>1, <1>2, <1>6 DEF WillKeep
<1>. QED  BY <1>4, <1>5, <1>6

LEMMA SyncKeeps ==
    ASSUME WillKeep, ViewsTypes, sync
    PROVE  WillKeep'
<1> SUFFICES ASSUME trusted', (Publisher \notin old)' PROVE
        /\ \A d \in Conn : owner[d] = Publisher => \E s : Wholly(data[d], sent[d], s)'
        /\ conn_of'[Publisher] # NoConn =>
              Brings(data[conn_of[Publisher]], sent[conn_of[Publisher]] \o Rest)'
        /\ conn_of'[Publisher] = NoConn /\ sync_first' # NoFirst =>
              Brings(NoView, <<sync_first>> \o Rest)'
  BY DEF WillKeep
<1>0. UNCHANGED <<protocol, conn_of, sent, data>>
  BY DEF sync, linkVars, serverVars
<1>1. trusted /\ Publisher \notin old /\ KindOK
  BY Kinds DEF sync, protocol
<1>2. \A v, q, s : Wholly(v, q, s)' <=> Wholly(v, q, s)
  BY <1>0, PutsSame
<1>3. ASSUME NEW v, NEW q, NEW s, Wholly(v, q, s), Carries(s[Len(q)], recv_self') PROVE Brings(v, q)'
  BY <1>2, <1>3 DEF Brings, Carries
<1>4. \A d \in Conn : owner[d] = Publisher => \E s : Wholly(data[d], sent[d], s)'
  BY <1>0, <1>1, <1>2 DEF WillKeep
<1>5. CASE conn_of[Publisher] = NoConn /\ sync_first = NoFirst
  <2>1. transferSend(TRUE) /\ sync_first' = First /\ leftover' = Len(sync_queue) /\ sync_queue' = sync_queue
    BY <1>5 DEF sync
  <2>2. recv_self' = Latest /\ Latest \in WholeView \cup {NoView} /\ Len(shown') \in Nat
        /\ First.msg = Diff(NoView, Latest, Len(shown')) /\ First \in PublisherMsg
    BY <2>1, Transferred, LatestType, FirstType
  <2>3. \E t : Wholly(NoView, <<First>>, t) /\ Carries(t[Len(<<First>>)], Latest)
    BY <1>1, <2>2, BringsFirst
  <2>4. <<sync_first'>> \o Rest' = <<First>>
    <3>1. Rest' = <<>>
      BY <2>1, RestIs
    <3>. QED  BY <2>1, <2>2, <3>1
  <2>5. Brings(NoView, <<sync_first>> \o Rest)'
    BY <1>3, <2>2, <2>3, <2>4
  <2>. QED  BY <1>0, <1>4, <1>5, <2>5
<1>6. CASE ~(conn_of[Publisher] = NoConn /\ sync_first = NoFirst)
  <2>1. transferSend(FALSE) /\ UNCHANGED <<sync_first, leftover>>
        /\ sync_queue' = IF Snapshot.msg = NoMsg THEN sync_queue ELSE Append(sync_queue, Snapshot)
    BY <1>6 DEF sync
  <2>2. PICK m : m = Snapshot
    OBVIOUS
  <2>3. /\ recv_self' = Latest /\ Len(shown') \in Nat /\ (Changed => Latest \in WholeView)
        /\ (~Changed => Latest = recv_self)
        /\ m.msg = (IF Changed THEN Diff(data_send_prev, Latest, Len(shown')) ELSE NoMsg)
        /\ (m.msg # NoMsg => m \in PublisherMsg)
    BY <2>1, <2>2, Transferred, LatestType, SnapshotType
  <2>4. data_send_prev \in {NoView, recv_self} /\ recv_self \in WholeView \cup {NoView}
    BY DEF ViewsTypes
  <2>5. Rest' = IF m.msg = NoMsg THEN Rest ELSE Append(Rest, m)
    BY <2>1, <2>2, <2>3, RestIs DEF Rest
  <2>6. ASSUME NEW v, NEW q \in Seq(PublisherMsg), Brings(v, q \o Rest) PROVE Brings(v, q \o Rest)'
    <3>1. PICK p \in Seq(PublisherMsg) : p = q \o Rest
      BY RestIs, Concatenated
    <3>2. PICK s : Wholly(v, p, s) /\ Carries(s[Len(p)], recv_self)
      BY <2>6, <3>1 DEF Brings
    <3>3. CASE ~Changed
      <4>1. Rest' = Rest /\ recv_self' = recv_self
        BY <2>3, <2>5, <3>3
      <4>. QED  BY <1>3, <3>1, <3>2, <4>1
    <3>4. CASE Changed /\ m.msg = NoMsg
      <4>0. PICK x : x = s[Len(p)]
        OBVIOUS
      <4>1. x \in WholeView \cup {NoView}
        <5>1. Len(p) \in 0 .. Len(p)
          BY <3>1
        <5>. QED  BY <3>2, <4>0, <5>1 DEF Wholly
      <4>2. Carries(x, Latest)
        BY <1>1, <2>3, <2>4, <3>2, <3>4, <4>0, <4>1, DiffCarries
      <4>3. q \o Rest' = p
        BY <2>5, <3>1, <3>4
      <4>. QED  BY <1>3, <2>3, <3>2, <4>0, <4>2, <4>3
    <3>5. CASE Changed /\ m.msg # NoMsg
      <4>1. m \in PublisherMsg /\ q \o Rest' = Append(p, m)
        BY <2>3, <2>5, <3>1, <3>5, RestIs, Concatenated
      <4>2. \E t : Wholly(v, Append(p, m), t) /\ Carries(t[Len(Append(p, m))], Latest)
        BY <1>1, <2>3, <2>4, <3>2, <3>5, <4>1, BringsMore
      <4>. QED  BY <1>3, <2>3, <4>1, <4>2
    <3>. QED  BY <3>3, <3>4, <3>5
  <2>7. ASSUME conn_of[Publisher] # NoConn
        PROVE  Brings(data[conn_of[Publisher]], sent[conn_of[Publisher]] \o Rest)'
    <3>0. PICK d \in Conn : d = conn_of[Publisher] /\ owner[d] = Publisher
      BY <2>7, Links, Names DEF ViewsTypes
    <3>1. sent[d] \in Seq(PublisherMsg) /\ Brings(data[d], sent[d] \o Rest)
      BY <1>1, <2>7, <3>0 DEF ViewsTypes, WillKeep
    <3>2. PICK q \in Seq(PublisherMsg) : q = sent[d]
      BY <3>1
    <3>3. PICK v : v = data[d] /\ Brings(v, q \o Rest)'
      BY <2>6, <3>1, <3>2
    <3>4. v = data'[conn_of'[Publisher]] /\ q = sent'[conn_of'[Publisher]]
      BY <1>0, <3>0, <3>2, <3>3
    <3>. QED  BY <3>3, <3>4
  <2>8. ASSUME conn_of[Publisher] = NoConn, sync_first # NoFirst
        PROVE  Brings(NoView, <<sync_first>> \o Rest)'
    <3>1. <<sync_first>> \in Seq(PublisherMsg) /\ Brings(NoView, <<sync_first>> \o Rest)
      BY <1>1, <2>8 DEF ViewsTypes, WillKeep
    <3>2. PICK q \in Seq(PublisherMsg) : q = <<sync_first>>
      BY <3>1
    <3>3. Brings(NoView, q \o Rest)'
      BY <2>6, <3>1, <3>2
    <3>4. q = <<sync_first'>>
      BY <2>1, <3>2
    <3>. QED  BY <3>3, <3>4
  <2>. QED  BY <1>0, <1>4, <2>1, <2>7, <2>8
<1>. QED  BY <1>5, <1>6

LEMMA SendKeeps ==
    ASSUME WillKeep, ViewsTypes, sendQueue
    PROVE  WillKeep'
<1> SUFFICES ASSUME trusted', (Publisher \notin old)' PROVE
        /\ \A d \in Conn : owner[d] = Publisher => \E s : Wholly(data[d], sent[d], s)'
        /\ conn_of'[Publisher] # NoConn =>
              Brings(data[conn_of[Publisher]], sent[conn_of[Publisher]] \o Rest)'
        /\ conn_of'[Publisher] = NoConn /\ sync_first' # NoFirst =>
              Brings(NoView, <<sync_first>> \o Rest)'
  BY DEF WillKeep
<1>0. PICK c \in Conn : c = conn_of[Publisher] /\ owner[c] = Publisher /\ c # NoConn
  BY Links, Names DEF sendQueue, ViewsTypes
<1>1. /\ trusted /\ leftover = 0 /\ sync_queue' = <<>> /\ leftover' = 0
      /\ UNCHANGED <<protocol, conn_of, data, recv_self>>
      /\ sent' = [sent EXCEPT ![c] = @ \o sync_queue]
  BY <1>0 DEF sendQueue, linkVars, serverVars
<1>2. Publisher \notin old /\ Rest = sync_queue /\ Rest' = <<>> /\ Rest \in Seq(PublisherMsg)
  BY <1>1, RestIs DEF protocol
<1>3. sent[c] \in Seq(PublisherMsg) /\ sent'[c] = sent[c] \o Rest
      /\ \A d \in Conn \ {c} : sent'[d] = sent[d]
  BY <1>0, <1>1, <1>2 DEF ViewsTypes
<1>4. PICK q \in Seq(PublisherMsg) : q = sent[c] \o Rest /\ q \o <<>> = q
  BY <1>2, <1>3, Concatenated
<1>5. PICK v : v = data[c] /\ Brings(v, q)
  BY <1>0, <1>1, <1>2, <1>4 DEF WillKeep
<1>6. Brings(v, q)' /\ \E s : Wholly(v, q, s)'
  BY <1>1, <1>5, PutsSame DEF Brings, Carries
<1>7. ASSUME NEW d \in Conn, owner[d] = Publisher PROVE \E s : Wholly(data[d], sent[d], s)'
  <2>1. CASE d = c
    BY <1>1, <1>3, <1>4, <1>5, <1>6, <2>1
  <2>2. CASE d # c
    <3>1. \E s : Wholly(data[d], sent[d], s)
      BY <1>1, <1>2, <1>7 DEF WillKeep
    <3>. QED  BY <1>1, <1>3, <2>2, <3>1, PutsSame
  <2>. QED  BY <2>1, <2>2
<1>8. conn_of'[Publisher] = c /\ v = data'[c] /\ q = sent'[c] \o Rest'
  BY <1>0, <1>1, <1>2, <1>3, <1>4, <1>5
<1>. QED  BY <1>0, <1>6, <1>7, <1>8

LEMMA DisconnectKeeps ==
    ASSUME WillKeep, ViewsTypes, NEW p \in Client, Disconnect(p)
    PROVE  WillKeep'
<1>0. PICK c \in Conn : c = conn_of[p] /\ owner[c] = p
  BY Links DEF Disconnect, disconnect, ViewsTypes
<1>1. PICK k \in 0 .. Len(sent[c]) : sent' = [sent EXCEPT ![c] = SubSeq(@, 1, k)]
  BY <1>0 DEF Disconnect
<1>2. /\ UNCHANGED <<protocol, recv_self, sync_queue, leftover, data, trusted>>
      /\ conn_of' = [conn_of EXCEPT ![p] = NoConn]
      /\ sync_first' = IF p = Publisher THEN NoFirst ELSE sync_first
  BY DEF Disconnect, disconnect, serverVars
<1>3. DOMAIN sent = Conn /\ conn_of \in [Client -> Conn \cup {NoConn}] /\ Publisher \in Client
  BY Names DEF ViewsTypes, LinkTypeOK
<1>4. CASE p # Publisher
  <2>1. conn_of'[Publisher] = conn_of[Publisher] /\ sync_first' = sync_first
    BY <1>2, <1>3, <1>4
  <2>2. \A d \in Conn : owner[d] = Publisher => data'[d] = data[d] /\ sent'[d] = sent[d]
    BY <1>0, <1>1, <1>2, <1>3, <1>4
  <2>. QED  BY <1>2, <2>1, <2>2, KeepSame
<1>5. CASE p = Publisher
  <2> SUFFICES ASSUME trusted', (Publisher \notin old)', NEW d \in Conn, owner[d] = Publisher
               PROVE  \E s : Wholly(data[d], sent[d], s)'
    BY <1>2, <1>3, <1>5 DEF WillKeep
  <2>1. PICK s : Wholly(data[d], sent[d], s)
    BY <1>2 DEF WillKeep, protocol
  <2>2. CASE d = c
    <3>1. PICK q \in Seq(PublisherMsg) : q = sent[c]
      BY <1>0, <1>5 DEF ViewsTypes
    <3>2. PICK r \in Seq(PublisherMsg) :
             /\ r = SubSeq(q, 1, k) /\ Len(q) \in Nat /\ Len(r) \in Nat
             /\ Len(r) <= Len(q) /\ \A i \in 1 .. Len(r) : r[i] = q[i]
      <4>1. k \in 0 .. Len(q)
        BY <1>1, <3>1
      <4>. QED  BY <4>1, FirstOnes
    <3>4. sent'[c] = r /\ data'[c] = data[c]
      BY <1>1, <1>2, <1>3, <3>1, <3>2
    <3>5. Wholly(data[c], r, s)
      BY <2>1, <2>2, <3>1, <3>2, WhollyBefore
    <3>. QED  BY <1>2, <2>2, <3>4, <3>5, PutsSame
  <2>3. CASE d # c
    <3>1. sent'[d] = sent[d] /\ data'[d] = data[d]
      BY <1>1, <1>2, <1>3, <2>3
    <3>. QED  BY <1>2, <2>1, <3>1, PutsSame
  <2>. QED  BY <2>2, <2>3
<1>. QED  BY <1>4, <1>5

LEMMA ConnectKeeps ==
    ASSUME StoreInv, WillKeep, ViewsTypes, Begun, NEW p \in Client, NEW c \in Conn, Connect(p, c)
    PROVE  WillKeep'
<1>1. /\ conn_of[p] = NoConn /\ owner[c] = p /\ member_id[c] = 0
      /\ conn_of' = [conn_of EXCEPT ![p] = c] /\ UNCHANGED <<protocol, data, trusted>>
      /\ sent' = [sent EXCEPT ![c] = <<IF p = Publisher THEN sync_first' ELSE FirstMsg(p, NoMsg)>>]
  BY DEF Connect, connect, newClient, serverVars
<1>2. data[c] = NoView
  BY <1>1 DEF StoreInv, IdsBelowLast, Begun
<1>3. DOMAIN sent = Conn /\ conn_of \in [Client -> Conn \cup {NoConn}] /\ Publisher \in Client /\ c # NoConn
  BY Names, ClientAssumption DEF ViewsTypes, LinkTypeOK
<1>4. CASE p # Publisher
  <2>1. conn_of'[Publisher] = conn_of[Publisher] /\ UNCHANGED <<recv_self, sync_first, sync_queue, leftover>>
    BY <1>1, <1>3, <1>4 DEF Connect, publisherVars
  <2>2. \A d \in Conn : owner[d] = Publisher => data'[d] = data[d] /\ sent'[d] = sent[d]
    BY <1>1, <1>3, <1>4
  <2>. QED  BY <1>1, <2>1, <2>2, KeepSame
<1>5. CASE p = Publisher
  <2> SUFFICES ASSUME trusted', (Publisher \notin old)' PROVE
        /\ \A d \in Conn : owner[d] = Publisher => \E s : Wholly(data[d], sent[d], s)'
        /\ conn_of'[Publisher] # NoConn =>
              Brings(data[conn_of[Publisher]], sent[conn_of[Publisher]] \o Rest)'
        /\ conn_of'[Publisher] = NoConn /\ sync_first' # NoFirst =>
              Brings(NoView, <<sync_first>> \o Rest)'
    BY DEF WillKeep
  <2>0. trusted /\ Publisher \notin old /\ KindOK
    BY <1>1, Kinds DEF protocol
  <2>1. conn_of'[Publisher] = c /\ sent'[c] = <<sync_first'>> /\ data'[c] = NoView
        /\ \A d \in Conn \ {c} : sent'[d] = sent[d] /\ data'[d] = data[d]
    BY <1>1, <1>2, <1>3, <1>5
  <2>2. ASSUME NEW v, NEW q, NEW s, Wholly(v, q, s), Carries(s[Len(q)], recv_self') PROVE Brings(v, q)'
    BY <1>1, <2>2, PutsSame DEF Brings, Carries
  <2>3. PICK q \in Seq(PublisherMsg) : /\ q = <<sync_first'>> \o Rest' /\ Len(q) \in Nat \ {0}
                                      /\ q[1] = sync_first' /\ Brings(NoView, q)'
    <3>1. CASE sync_first = NoFirst
      <4>1. transferSend(TRUE) /\ sync_first' = First /\ leftover' = Len(sync_queue) /\ sync_queue' = sync_queue
        BY <1>5, <3>1 DEF Connect
      <4>2. recv_self' = Latest /\ Latest \in WholeView \cup {NoView} /\ Len(shown') \in Nat
            /\ First.msg = Diff(NoView, Latest, Len(shown')) /\ First \in PublisherMsg
        BY <4>1, Transferred, LatestType, FirstType
      <4>3. Rest' = <<>>
        BY <4>1, RestIs
      <4>4. PICK q \in Seq(PublisherMsg) : /\ q = <<First>> /\ q \o <<>> = q
                                           /\ Len(q) \in Nat \ {0} /\ q[1] = First
        BY <4>2, OneMessage
      <4>5. \E t : Wholly(NoView, q, t) /\ Carries(t[Len(q)], recv_self')
        <5>1. PICK m : m = First
          OBVIOUS
        <5>2. \E t : Wholly(NoView, <<m>>, t) /\ Carries(t[Len(<<m>>)], Latest)
          BY <2>0, <4>2, <5>1, BringsFirst
        <5>. QED  BY <4>2, <4>4, <5>1, <5>2
      <4>6. Brings(NoView, q)'
        BY <2>2, <4>5
      <4>. QED  BY <4>1, <4>3, <4>4, <4>6
    <3>2. CASE sync_first # NoFirst
      <4>1. UNCHANGED <<recv_self, sync_first, sync_queue, leftover>>
        BY <3>2 DEF Connect, publisherVars
      <4>2. sync_first \in PublisherMsg /\ Rest' = Rest /\ Rest \in Seq(PublisherMsg)
        BY <3>2, <4>1, RestIs DEF ViewsTypes, Rest
      <4>3. PICK u \in Seq(PublisherMsg) : u = <<sync_first>> /\ Len(u) = 1 /\ u[1] = sync_first
        BY <4>2, OneMessage
      <4>4. PICK r \in Seq(PublisherMsg) : r = Rest /\ Len(r) \in Nat
        BY <4>2
      <4>5. u \o r \in Seq(PublisherMsg) /\ Len(u \o r) = 1 + Len(r) /\ (u \o r)[1] = u[1]
        BY <4>3, <4>4, Concatenated
      <4>6. PICK q \in Seq(PublisherMsg) : q = u \o r
        BY <4>5
      <4>7. Brings(NoView, q)
        <5>1. Brings(NoView, <<sync_first>> \o Rest)
          BY <1>1, <1>5, <2>0, <3>2 DEF WillKeep
        <5>. QED  BY <4>3, <4>4, <4>6, <5>1
      <4>8. Brings(NoView, q)'
        <5>1. PICK s : Wholly(NoView, q, s) /\ Carries(s[Len(q)], recv_self)
          BY <4>7 DEF Brings
        <5>. QED  BY <2>2, <4>1, <5>1
      <4>9. q = <<sync_first'>> \o Rest'
        BY <4>1, <4>2, <4>3, <4>4, <4>6
      <4>10. Len(q) \in Nat \ {0} /\ q[1] = sync_first'
        BY <4>1, <4>3, <4>4, <4>5, <4>6
      <4>. QED  BY <4>8, <4>9, <4>10
    <3>. QED  BY <3>1, <3>2
  <2>4. ASSUME NEW d \in Conn, owner[d] = Publisher PROVE \E s : Wholly(data[d], sent[d], s)'
    <3>1. CASE d = c
      <4>1. PICK u : u = sent'[c] /\ Len(u) = 1 /\ u[1] = q[1]
        BY <2>1, <2>3
      <4>2. PICK s : Wholly(NoView, q, s)'
        BY <2>3 DEF Brings
      <4>3. Wholly(NoView, q, s)
        BY <1>1, <4>2, PutsSame
      <4>4. Wholly(NoView, u, s)
        <5>1. Len(q) \in Nat /\ Len(u) \in Nat /\ Len(u) <= Len(q) /\ \A i \in 1 .. Len(u) : u[i] = q[i]
          BY <2>3, <4>1
        <5>. QED  BY <4>3, <5>1, WhollyBefore
      <4>5. Wholly(NoView, u, s)'
        BY <1>1, <4>4, PutsSame
      <4>. QED  BY <2>1, <3>1, <4>1, <4>5
    <3>2. CASE d # c
      <4>1. \E s : Wholly(data[d], sent[d], s)
        BY <2>0, <2>4 DEF WillKeep
      <4>. QED  BY <1>1, <2>1, <3>2, <4>1, PutsSame
    <3>. QED  BY <3>1, <3>2
  <2>. QED  BY <1>3, <2>1, <2>3, <2>4
<1>. QED  BY <1>4, <1>5

---------------------------------------------------------------------------
(* What the followers will have (WillFollow).                               *)

LEMMA ReadsIs ==
    ASSUME NEW p, NEW x, NEW b
    PROVE  /\ Reads(p, x, b).view =
                 LET v == IF b.init THEN NoView ELSE x.view IN
                 IF b.res = NoMsg THEN v ELSE Received(p, v, b.res)
           /\ Reads(p, x, b).entry <=> b.entry \/ (~b.init /\ x.entry)
BY DEF Reads

\* A step that p is not told of.
LEMMA ShowSame ==
    ASSUME NEW p \in Client \ {Publisher}, WillShow(p), UNCHANGED protocol,
           Has(p)' = Has(p), recv_queue'[p] = recv_queue[p],
           conn_of'[p] \in ForEach' =>
               /\ conn_of'[p] = conn_of[p] /\ conn_of[p] \in ForEach /\ Current' = Current
               /\ conn_of[p] \in data_req' <=> conn_of[p] \in data_req
    PROVE  WillShow(p)'
<1>1. PICK s : /\ Follows(p, Has(p), recv_queue[p], s)
               /\ conn_of[p] \in ForEach /\ (Publisher \in old => p \notin old) =>
                     UpToDate(p, s[Len(recv_queue[p])])
  BY DEF WillShow
<1>2. PICK x, q : x = Has(p) /\ q = recv_queue[p]
  OBVIOUS
<1>3. Follows(p, x, q, s)'
  BY <1>1, <1>2, ReadsSame
<1>4. ASSUME conn_of'[p] \in ForEach', (Publisher \in old => p \notin old)'
      PROVE  UpToDate(p, s[Len(q)])'
  <2>1. UpToDate(p, s[Len(q)])
    BY <1>1, <1>2, <1>4 DEF protocol
  <2>. QED  BY <1>4, <2>1, ReadsSame DEF UpToDate
<1>. QED  BY <1>2, <1>3, <1>4 DEF WillShow

\* A step that p is told of with the batch b.
LEMMA ShowTold ==
    ASSUME ViewsTypes, NEW p \in Client \ {Publisher}, WillShow(p), UNCHANGED protocol,
           Has(p)' = Has(p), NEW b \in BatchFor(p),
           recv_queue'[p] \in {recv_queue[p] \o OneBatch(b), Append(recv_queue[p], b)},
           ASSUME conn_of'[p] \in ForEach', (Publisher \in old => p \notin old)',
                  NEW x, conn_of[p] \in ForEach => UpToDate(p, x)
           PROVE  UpToDate(p, Reads(p, x, b))'
    PROVE  WillShow(p)'
<1>1. PICK s : /\ Follows(p, Has(p), recv_queue[p], s)
               /\ conn_of[p] \in ForEach /\ (Publisher \in old => p \notin old) =>
                     UpToDate(p, s[Len(recv_queue[p])])
  BY DEF WillShow
<1>2. PICK q \in Seq(BatchFor(p)) : q = recv_queue[p]
  BY DEF ViewsTypes
<1>3. PICK x, v : x = Has(p) /\ v = s[Len(q)]
  OBVIOUS
<1>4. ASSUME conn_of'[p] \in ForEach', (Publisher \in old => p \notin old)'
      PROVE  UpToDate(p, Reads(p, v, b))'
  BY <1>1, <1>2, <1>3, <1>4 DEF protocol
<1>5. \A y : Reads(p, y, b)' = Reads(p, y, b)
  BY DEF protocol, Reads, Received, resOld, resView, resCanvas3D, resCanvas2D
<1>6. CASE recv_queue'[p] = Append(q, b)
  <2>1. PICK t : Follows(p, x, Append(q, b), t) /\ t[Len(Append(q, b))] = Reads(p, v, b)
    BY <1>1, <1>2, <1>3, FollowsAppend
  <2>2. PICK r : r = Append(q, b)
    OBVIOUS
  <2>3. Follows(p, x, r, t)'
    BY <2>1, <2>2, ReadsSame
  <2>4. conn_of'[p] \in ForEach' /\ (Publisher \in old => p \notin old)' => UpToDate(p, t[Len(r)])'
    BY <1>4, <1>5, <2>1, <2>2
  <2>. QED  BY <1>3, <1>6, <2>2, <2>3, <2>4 DEF WillShow
<1>7. CASE recv_queue'[p] # Append(q, b)
  <2>1. b = EmptyBatch /\ recv_queue'[p] = q
    <3>1. recv_queue'[p] = q \o OneBatch(b)
      BY <1>2, <1>7
    <3>2. q \o <<b>> = Append(q, b) /\ q \o <<>> = q
      BY <1>2, QueueMore
    <3>. QED  BY <1>7, <3>1, <3>2 DEF OneBatch
  <2>2. Follows(p, x, q, s)'
    BY <1>1, <1>2, <1>3, ReadsSame
  <2>3. PICK y : y = Reads(p, v, b)
    OBVIOUS
  <2>4. y.view = v.view /\ (y.entry <=> v.entry)
    BY <2>1, <2>3, ReadsIs DEF EmptyBatch, Batch
  <2>5. conn_of'[p] \in ForEach' /\ (Publisher \in old => p \notin old)' => UpToDate(p, v)'
    <3>1. UpToDate(p, y)' => UpToDate(p, v)'
      BY <2>4 DEF UpToDate
    <3>. QED  BY <1>4, <1>5, <2>3, <3>1
  <2>. QED  BY <1>3, <2>1, <2>2, <2>5 DEF WillShow
<1>. QED  BY <1>2, <1>6, <1>7

LEMMA HeadIs ==
    ASSUME ViewsTypes, NEW c \in Conn, sent[c] # <<>>
    PROVE  LET m == Head(sent[c]) IN
           /\ m.kind = "data" => owner[c] = Publisher /\ m.msg \in FromPublisher
           /\ m.kind = "req" => owner[c] # Publisher
           /\ m.kind = "first" => /\ m.req \in BOOLEAN
                                  /\ owner[c] = Publisher => m.req = FALSE /\ m.msg \in FromPublisher \cup {NoMsg}
                                  /\ owner[c] # Publisher => m.msg = NoMsg
<1>1. PICK m : m = Head(sent[c])
  OBVIOUS
<1>2. CASE owner[c] = Publisher
  <2>1. sent[c] \in Seq(PublisherMsg)
    BY <1>2 DEF ViewsTypes
  <2>2. m \in PublisherMsg
    BY <1>1, <2>1
  <2>. QED  BY <1>1, <1>2, <2>2 DEF PublisherMsg
<1>3. CASE owner[c] # Publisher
  <2>1. sent[c] \in Seq(FollowerMsg)
    BY <1>3 DEF ViewsTypes
  <2>2. m \in FollowerMsg
    BY <1>1, <2>1
  <2>. QED  BY <1>1, <1>3, <2>2 DEF FollowerMsg
<1>. QED  BY <1>2, <1>3

LEMMA FromPublisherIs == NoMsg \notin FromPublisher
BY DistinctAssumption DEF FromPublisher

LEMMA ServedWhole ==
    ASSUME WillKeep, ViewsTypes, trusted, Publisher \notin old, NEW c \in Conn, owner[c] = Publisher, sent[c] # <<>>
    PROVE  /\ data[c] \in WholeView \cup {NoView}
           /\ Puts(data[c], Head(sent[c])) \in WholeView \cup {NoView}
<1>1. PICK s : Wholly(data[c], sent[c], s)
  BY DEF WillKeep
<1>2. sent[c] \in Seq(PublisherMsg)
  BY DEF ViewsTypes
<1>. QED  BY <1>1, <1>2, WhollyTail

LEMMA NewsType ==
    ASSUME ViewsTypes, NEW c \in Conn, NEW d \in Conn, NEW m \in FromPublisher
    PROVE  News(c, d, m) \in BatchFor(owner[d])
<1>1. KindOK /\ data[c] \in View \cup {NoView}
  BY Kinds DEF ViewsTypes
<1>2. PICK s : s = Serve(data[c], m)
  OBVIOUS
<1>3. s.res \in ViewMsg /\ s.oldRes \in OldViewMsg
  BY <1>1, <1>2, ServeType
<1>4. PICK r : r = IF d \notin data_req THEN NoMsg ELSE IF owner[d] \in old THEN s.oldRes ELSE s.res
  OBVIOUS
<1>5. r \in ResFor(owner[d])
  BY <1>3, <1>4 DEF ResFor
<1>6. News(c, d, m) = [init |-> FALSE, entry |-> (data[c] = NoView /\ owner[d] # Publisher), res |-> r]
  BY <1>2, <1>4 DEF News, Batch
<1>. QED  BY <1>5, <1>6 DEF BatchFor

\* What a follower has of v and of the message that makes it the data of the publisher.
LEMMA NewsCopied ==
    ASSUME ViewsTypes, WillKeep, trusted, NEW c \in Conn, owner[c] = Publisher, sent[c] # <<>>,
           Head(sent[c]).msg \in FromPublisher, NEW d \in Conn, d \in data_req, owner[d] # Publisher,
           Publisher \in old => owner[d] \notin old, NEW u, Copies(owner[d], u, data[c])
    PROVE  LET m == Head(sent[c]).msg
               r == News(c, d, m).res
           IN  r # NoMsg /\ Copies(owner[d], Received(owner[d], u, r), Serve(data[c], m).now)
<1>1. KindOK /\ data[c] \in View \cup {NoView}
  BY Kinds DEF ViewsTypes
<1>2. PICK m \in FromPublisher : m = Head(sent[c]).msg
  OBVIOUS
<1>3. News(c, d, m).res = NewsOf(owner[d], Serve(data[c], m))
  BY DEF News, Batch, NewsOf
<1>4. ASSUME Publisher \notin old
      PROVE  data[c] \in WholeView \cup {NoView} /\ Serve(data[c], m).now \in WholeView
  <2>1. Serve(data[c], m).now \in View
    BY <1>1, ServeType
  <2>2. Serve(data[c], m).now # NoView
    BY <2>1, DistinctAssumption
  <2>3. Puts(data[c], Head(sent[c])) = Serve(data[c], m).now
    BY <1>2, FromPublisherIs DEF Puts
  <2>. QED  BY <1>4, <2>2, <2>3, ServedWhole
<1>5. PICK q, v : q = owner[d] /\ v = data[c]
  OBVIOUS
<1>6. /\ NewsOf(q, Serve(v, m)) # NoMsg
      /\ Copies(q, Received(q, u, NewsOf(q, Serve(v, m))), Serve(v, m).now)
  BY <1>1, <1>2, <1>4, <1>5, ServeCopied
<1>. QED  BY <1>2, <1>3, <1>5, <1>6

LEMMA RecvShows ==
    ASSUME ViewsTypes, WillFollow, NEW p \in Client, Recv(p)
    PROVE  WillFollow'
<1> SUFFICES ASSUME trusted', NEW d \in Client \ {Publisher} PROVE WillShow(d)'
  BY DEF WillFollow
<1>1. /\ UNCHANGED <<storeVars, conn_of, protocol, serverVars, trusted>>
      /\ recv_queue[p] # <<>> /\ recv_queue' = [recv_queue EXCEPT ![p] = Tail(@)]
      /\ \A q \in Client \ {p} : data_recv'[q] = data_recv[q] /\ (q \in entry' <=> q \in entry)
  BY DEF Recv, ViewsTypes
<1>2. Current' = Current /\ ForEach' = ForEach /\ data_req' = data_req /\ WillShow(d)
  BY <1>1, SameCurrent DEF storeVars, serverVars, ForEach, WillFollow
<1>3. CASE d # p
  <2>1. recv_queue'[d] = recv_queue[d] /\ Has(d)' = Has(d)
    BY <1>1, <1>3 DEF ViewsTypes, Has
  <2>. QED  BY <1>1, <1>2, <2>1, ShowSame
<1>4. CASE d = p
  <2>1. PICK q \in Seq(BatchFor(p)) : q = recv_queue[p] /\ q # <<>> /\ recv_queue'[p] = Tail(q)
    BY <1>1 DEF ViewsTypes
  <2>2. PICK m \in BatchFor(p) : m = Head(q)
    BY <2>1
  <2>3. PICK x, y : x = Has(p) /\ y = Reads(p, x, m)
    OBVIOUS
  <2>4. Has(p)' = y
    <3>1. data_recv'[p] = y.view
      BY <2>1, <2>2, <2>3, ReadsIs DEF Recv, ViewsTypes, Has
    <3>2. (p \in entry') = (m.entry \/ (~m.init /\ p \in entry))
      <4>1. m.init \in BOOLEAN /\ m.entry \in BOOLEAN
        BY <2>2 DEF BatchFor
      <4>2. entry' = IF m.entry THEN entry \cup {p} ELSE IF m.init THEN entry \ {p} ELSE entry
        BY <2>1, <2>2 DEF Recv
      <4>. QED  BY <4>1, <4>2
    <3>3. y = [view |-> y.view, entry |-> (m.entry \/ (~m.init /\ p \in entry))]
      BY <2>3 DEF Reads, Has
    <3>. QED  BY <3>1, <3>2, <3>3 DEF Has
  <2>5. PICK s : /\ Follows(p, x, q, s)
                 /\ conn_of[p] \in ForEach /\ (Publisher \in old => p \notin old) => UpToDate(p, s[Len(q)])
    BY <1>2, <1>4, <2>1, <2>3 DEF WillShow
  <2>6. PICK t : Follows(p, y, Tail(q), t) /\ t[Len(Tail(q))] = s[Len(q)]
    BY <2>1, <2>2, <2>3, <2>5, FollowsTail
  <2>7. PICK r, z : r = Tail(q) /\ z = t[Len(r)] /\ z = s[Len(q)]
    BY <2>6
  <2>8. Follows(p, y, r, t)'
    BY <1>1, <2>6, <2>7, ReadsSame
  <2>9. conn_of'[p] \in ForEach' /\ (Publisher \in old => p \notin old)' => UpToDate(p, z)'
    <3>1. UpToDate(p, z) => UpToDate(p, z)'
      BY <1>1, <1>2, ReadsSame DEF UpToDate
    <3>. QED  BY <1>1, <1>2, <2>5, <2>7, <3>1 DEF protocol
  <2>. QED  BY <1>4, <2>1, <2>4, <2>7, <2>8, <2>9 DEF WillShow
<1>. QED  BY <1>3, <1>4

LEMMA ServeDataShows ==
    ASSUME StoreInv, ViewsTypes, Begun, WillKeep, WillFollow, NEW c \in Conn, ServeData(c)
    PROVE  WillFollow'
<1> SUFFICES ASSUME trusted', NEW p \in Client \ {Publisher} PROVE WillShow(p)'
  BY DEF WillFollow
<1>0. PICK m : m = Head(sent[c]).msg
  OBVIOUS
<1>1. /\ UNCHANGED <<storeVars, conn_of, protocol, data_recv, entry, data_req>>
      /\ c \in clients /\ sync_init[c] /\ sent[c] # <<>> /\ Head(sent[c]).kind = "data"
      /\ trusted /\ clients_by_id[member_id[c]] = c
      /\ data' = [data EXCEPT ![c] = Serve(@, m).now]
      /\ SendEach([d \in Conn |-> IF d \in ForEach THEN OneBatch(News(c, d, m)) ELSE <<>>])
  BY <1>0 DEF ServeData, Read, followerVars
<1>2. owner[c] = Publisher /\ m \in FromPublisher
  BY <1>0, <1>1, HeadIs
<1>3. Known /\ EntryOf(PublisherName) = c
  BY <1>1, <1>2, PublisherKnown
<1>4. Current = data[c] /\ data[c] \in View \cup {NoView} /\ KindOK
  BY <1>3, Kinds DEF Current, ViewsTypes
<1>5. Current' = Serve(data[c], m).now /\ Serve(data[c], m).now \in View
  <2>1. Known' /\ EntryOf(PublisherName)' = c
    BY <1>1, <1>3, SameCurrent DEF storeVars
  <2>2. data'[c] = Serve(data[c], m).now
    BY <1>1 DEF ViewsTypes
  <2>3. Serve(data[c], m).now \in View
    BY <1>2, <1>4, ServeType
  <2>. QED  BY <2>1, <2>2, <2>3 DEF Current
<1>6. ForEach' = ForEach /\ Has(p)' = Has(p) /\ WillShow(p)
  BY <1>1 DEF storeVars, ForEach, Has, WillFollow
<1>7. recv_queue[p] \in Seq(BatchFor(p))
  BY DEF ViewsTypes
<1>8. CASE conn_of[p] \notin ForEach
  <2>1. recv_queue'[p] = recv_queue[p]
    <3>1. conn_of[p] = NoConn \/ conn_of[p] \in Conn
      BY DEF ViewsTypes, LinkTypeOK
    <3>2. recv_queue[p] \o <<>> = recv_queue[p]
      BY <1>7, ConcatEmptySeq
    <3>. QED  BY <1>1, <1>8, <3>1, <3>2 DEF SendEach
  <2>. QED  BY <1>1, <1>6, <1>8, <2>1, ShowSame
<1>9. CASE conn_of[p] \in ForEach
  <2>1. PICK d \in Conn : d = conn_of[p] /\ owner[d] = p /\ d \in ForEach
    BY <1>9, Links, ClientAssumption DEF ForEach, ViewsTypes, LinkTypeOK, StoreTypeOK
  <2>2. PICK b \in BatchFor(p) : b = News(c, d, m)
    BY <1>2, <2>1, NewsType
  <2>3. recv_queue'[p] = recv_queue[p] \o OneBatch(b)
    BY <1>1, <2>1, <2>2, ClientAssumption DEF SendEach
  <2>4. ASSUME NEW x, UpToDate(p, x), Publisher \in old => p \notin old
        PROVE  UpToDate(p, Reads(p, x, b))'
    <3>1. b.init = FALSE /\ b.entry = (data[c] = NoView /\ owner[d] # Publisher)
      BY <2>2 DEF News, Batch
    <3>2. PICK y : y = Reads(p, x, b)
      OBVIOUS
    <3>3. y.entry
      BY <1>4, <2>1, <2>4, <3>1, <3>2, ReadsIs DEF UpToDate
    <3>4. Current' # NoView
      BY <1>5, DistinctAssumption
    <3>5. CASE d \notin data_req
      <4>1. b.res = NoMsg
        BY <2>2, <3>5 DEF News, Batch
      <4>2. y.view = x.view
        BY <3>1, <3>2, <4>1, ReadsIs
      <4>3. Copies(p, y.view, NoView)
        BY <2>1, <2>4, <3>5, <4>2 DEF UpToDate
      <4>4. Copies(p, y.view, NoView)'
        BY <1>1, <4>3, ReadsSame
      <4>5. UpToDate(p, y)'
        BY <1>1, <2>1, <3>3, <3>4, <3>5, <4>4 DEF UpToDate
      <4>. QED  BY <1>1, <3>2, <4>5 DEF protocol, Reads, Received, resOld, resView, resCanvas3D, resCanvas2D
    <3>6. CASE d \in data_req
      <4>1. Copies(p, x.view, data[c])
        BY <1>4, <2>1, <2>4, <3>6 DEF UpToDate
      <4>2. PICK u : u = x.view
        OBVIOUS
      <4>3. b.res # NoMsg /\ Copies(p, Received(p, u, b.res), Serve(data[c], m).now)
        BY <1>0, <1>1, <1>2, <2>1, <2>2, <2>4, <3>6, <4>1, <4>2, NewsCopied
      <4>4. y.view = Received(p, u, b.res)
        BY <3>1, <3>2, <4>2, <4>3, ReadsIs
      <4>5. PICK w : w = Serve(data[c], m).now
        OBVIOUS
      <4>6. Copies(p, y.view, w)'
        BY <1>1, <4>3, <4>4, <4>5, ReadsSame
      <4>7. UpToDate(p, y)'
        BY <1>1, <1>5, <2>1, <3>3, <3>4, <3>6, <4>5, <4>6 DEF UpToDate
      <4>. QED  BY <1>1, <3>2, <4>7 DEF protocol, Reads, Received, resOld, resView, resCanvas3D, resCanvas2D
    <3>. QED  BY <3>5, <3>6
  <2>. QED  BY <1>1, <1>6, <1>9, <2>2, <2>3, <2>4, ShowTold DEF protocol
<1>. QED  BY <1>8, <1>9

LEMMA ServeReqShows ==
    ASSUME StoreInv, ViewsTypes, WillFollow, NEW c \in Conn, ServeReq(c)
    PROVE  WillFollow'
<1> SUFFICES ASSUME trusted', NEW p \in Client \ {Publisher} PROVE WillShow(p)'
  BY DEF WillFollow
<1>1. /\ UNCHANGED <<storeVars, conn_of, protocol, data_recv, entry, data>>
      /\ trusted /\ data_req' = data_req \cup {c}
      /\ SendEach([d \in Conn |-> IF d # c THEN <<>>
                     ELSE OneBatch(Batch(FALSE, FALSE, Answered(owner[c])))])
  BY DEF ServeReq, followerVars
<1>2. Current' = Current /\ ForEach' = ForEach /\ Has(p)' = Has(p) /\ WillShow(p)
  BY <1>1, SameCurrent DEF storeVars, ForEach, Has, WillFollow
<1>3. recv_queue[p] \in Seq(BatchFor(p)) /\ KindOK
  BY Kinds DEF ViewsTypes
<1>4. PICK w : w = Current
  OBVIOUS
<1>5. w \in View \cup {NoView} /\ (kind # "canvas2d" /\ w # NoView => w.size = NoSize)
  BY <1>4, CurrentType
<1>6. CASE conn_of[p] # c
  <2>1. recv_queue'[p] = recv_queue[p]
    <3>1. conn_of[p] = NoConn \/ conn_of[p] \in Conn
      BY DEF ViewsTypes, LinkTypeOK
    <3>2. recv_queue[p] \o <<>> = recv_queue[p]
      BY <1>3, ConcatEmptySeq
    <3>. QED  BY <1>1, <1>6, <3>1, <3>2 DEF SendEach
  <2>. QED  BY <1>1, <1>2, <1>6, <2>1, ShowSame
<1>7. CASE conn_of[p] = c
  <2>1. owner[c] = p /\ c # NoConn
    BY <1>7, Links, ClientAssumption DEF ViewsTypes
  <2>2. Answered(p) \in ResFor(p)
    BY <1>3, <1>4, <1>5, AnswerType DEF ResFor
  <2>3. PICK b \in BatchFor(p) : b = Batch(FALSE, FALSE, Answered(p))
    BY <2>2 DEF BatchFor, Batch
  <2>4. recv_queue'[p] = recv_queue[p] \o OneBatch(b)
    BY <1>1, <1>7, <2>1, <2>3 DEF SendEach
  <2>5. ASSUME NEW x, UpToDate(p, x) PROVE UpToDate(p, Reads(p, x, b))'
    <3>1. b.init = FALSE /\ b.entry = FALSE /\ b.res = Answered(p)
      BY <2>3 DEF Batch
    <3>2. PICK y, u : y = Reads(p, x, b) /\ u = x.view
      OBVIOUS
    <3>3. (y.entry <=> x.entry) /\ y.view = IF b.res = NoMsg THEN u ELSE Received(p, u, b.res)
      BY <3>1, <3>2, ReadsIs
    <3>4. Copies(p, u, w) \/ Copies(p, u, NoView)
      BY <1>4, <2>5, <3>2 DEF UpToDate
    <3>5. Copies(p, y.view, w)
      <4>1. CASE w = NoView
        <5>1. b.res = NoMsg
          BY <1>3, <1>4, <3>1, <4>1, AnsweredIs
        <5>. QED  BY <3>3, <3>4, <4>1, <5>1
      <4>2. CASE w # NoView
        <5>1. Answered(p) # NoMsg /\ Copies(p, Received(p, u, Answered(p)), w)
          BY <1>3, <1>4, <1>5, <3>4, <4>2, AnswerCopied
        <5>. QED  BY <3>1, <3>3, <5>1
      <4>. QED  BY <4>1, <4>2
    <3>6. Copies(p, y.view, w)'
      BY <1>1, <3>5, ReadsSame
    <3>7. UpToDate(p, y)'
      BY <1>1, <1>2, <1>4, <1>7, <2>5, <3>3, <3>6 DEF UpToDate
    <3>. QED  BY <1>1, <3>2, <3>7 DEF protocol, Reads, Received, resOld, resView, resCanvas3D, resCanvas2D
  <2>6. ASSUME conn_of'[p] \in ForEach', NEW x, conn_of[p] \in ForEach => UpToDate(p, x)
        PROVE  UpToDate(p, Reads(p, x, b))'
    BY <1>1, <1>2, <2>5, <2>6
  <2>. QED  BY <1>1, <1>2, <2>3, <2>4, <2>6, ShowTold
<1>. QED  BY <1>6, <1>7

LEMMA FirstFollowerShows ==
    ASSUME StoreInv, StoreInv', ViewsTypes, Begun, WillFollow, NEW c \in Conn, SyncInit(c), owner[c] # Publisher
    PROVE  WillFollow'
<1> SUFFICES ASSUME trusted', NEW p \in Client \ {Publisher} PROVE WillShow(p)'
  BY DEF WillFollow
<1>0. PICK m : m = Head(sent[c])
  OBVIOUS
<1>1. /\ UNCHANGED <<conn_of, protocol, data_recv, entry>> /\ trusted
      /\ c \in clients /\ ~sync_init[c] /\ sent[c] # <<>> /\ m.kind = "first"
      /\ data_req' = IF m.req THEN data_req \cup {c} ELSE data_req
      /\ data' = IF m.msg = NoMsg THEN data ELSE [data EXCEPT ![c] = Serve(@, m.msg).now]
      /\ SendEach([d \in Conn |-> IF d # c THEN <<>>
                     ELSE OneBatch(Batch(Known, Current # NoView,
                                         IF m.req THEN Answered(owner[c]) ELSE NoMsg))])
  BY <1>0 DEF SyncInit, Read, followerVars, syncInit, registerClient
<1>2. data' = data /\ m.req \in BOOLEAN
  BY <1>0, <1>1, HeadIs
<1>3. PICK id \in AssignableId(c, OwnName(c)) : syncInit(c, id)
  BY DEF SyncInit
<1>4. /\ clients' = clients /\ sync_init' = [sync_init EXCEPT ![c] = TRUE] /\ sync_init \in [Conn -> BOOLEAN]
      /\ clients \subseteq Conn
  BY <1>3 DEF syncInit, registerClient, StoreInv, StoreTypeOK
<1>5. ForEach' = ForEach \cup {c} /\ c \notin ForEach
  BY <1>1, <1>4 DEF ForEach
<1>6. Current' = Current
  <2>1. PublisherName # OwnName(c) /\ OwnName(c) \in MName /\ PublisherName \in Name
    BY Names
  <2>2. FoundName(PublisherName)' = FoundName(PublisherName)
        /\ (FoundName(PublisherName) # {} => EntryOf(PublisherName)' = EntryOf(PublisherName))
    BY <1>3, <2>1, RegisteredEntry DEF syncInit
  <2>3. PublisherName' = PublisherName
    BY DEF PublisherName
  <2>. QED  BY <1>2, <2>2, <2>3 DEF Current, Known
<1>7. Has(p)' = Has(p) /\ WillShow(p) /\ recv_queue[p] \in Seq(BatchFor(p)) /\ KindOK
  BY <1>1, Kinds DEF Has, WillFollow, ViewsTypes
<1>8. PICK w : w = Current
  OBVIOUS
<1>9. /\ w \in View \cup {NoView} /\ (kind # "canvas2d" /\ w # NoView => w.size = NoSize)
      /\ (w # NoView => Known)
  BY <1>8, CurrentType
<1>10. CASE conn_of[p] # c
  <2>1. recv_queue'[p] = recv_queue[p]
    <3>1. conn_of[p] = NoConn \/ conn_of[p] \in Conn
      BY DEF ViewsTypes, LinkTypeOK
    <3>2. recv_queue[p] \o <<>> = recv_queue[p]
      BY <1>7, ConcatEmptySeq
    <3>. QED  BY <1>1, <1>10, <3>1, <3>2 DEF SendEach
  <2>2. conn_of[p] \in data_req' <=> conn_of[p] \in data_req
    BY <1>1, <1>10
  <2>. QED  BY <1>1, <1>5, <1>6, <1>7, <1>10, <2>1, <2>2, ShowSame
<1>11. CASE conn_of[p] = c
  <2>1. owner[c] = p /\ c # NoConn /\ c \notin data_req
    BY <1>1, <1>11, Links, ClientAssumption DEF ViewsTypes, Begun
  <2>2. c \in data_req' <=> m.req
    BY <1>1, <2>1
  <2>3. PICK r \in ResFor(p) : r = IF m.req THEN Answered(p) ELSE NoMsg
    BY <1>7, <1>8, <1>9, AnswerType DEF ResFor
  <2>12. PICK k \in BOOLEAN, e \in BOOLEAN : k = Known /\ e = (w # NoView)
    BY DEF Known
  <2>4. PICK b \in BatchFor(p) : b = Batch(k, e, r)
    BY <2>3 DEF BatchFor, Batch
  <2>5. recv_queue'[p] = recv_queue[p] \o OneBatch(b)
    BY <1>1, <1>8, <1>11, <2>1, <2>3, <2>12, <2>4 DEF SendEach
  <2>6. b.init = k /\ b.entry = e /\ b.res = r
    BY <2>4 DEF Batch
  <2>7. Copies(p, NoView, NoView)
    BY DEF Copies
  <2>8. w = NoView => r = NoMsg
    BY <1>7, <1>8, <2>3, AnsweredIs
  <2>9. CASE Known
    <3>1. ASSUME NEW x PROVE UpToDate(p, Reads(p, x, b))'
      <4>1. PICK y : y = Reads(p, x, b)
        OBVIOUS
      <4>2. (y.entry <=> w # NoView) /\ y.view = IF r = NoMsg THEN NoView ELSE Received(p, NoView, r)
        <5>1. b.init = TRUE /\ b.entry = e /\ b.res = r /\ (e <=> w # NoView)
          BY <2>6, <2>9, <2>12
        <5>2. (y.entry <=> e) /\ y.view = IF r = NoMsg THEN NoView ELSE Received(p, NoView, r)
          BY <4>1, <5>1, ReadsIs
        <5>. QED  BY <5>1, <5>2
      <4>3. Copies(p, y.view, IF m.req THEN w ELSE NoView)
        <5>1. CASE ~m.req \/ w = NoView
          BY <2>3, <2>7, <2>8, <4>2, <5>1
        <5>2. CASE m.req /\ w # NoView
          <6>1. Answered(p) # NoMsg /\ Copies(p, Received(p, NoView, Answered(p)), w)
            BY <1>7, <1>8, <1>9, <2>7, <5>2, AnswerCopied
          <6>. QED  BY <2>3, <4>2, <5>2, <6>1
        <5>. QED  BY <5>1, <5>2
      <4>4. Copies(p, y.view, IF m.req THEN w ELSE NoView)'
        <5>1. PICK v : v = IF m.req THEN w ELSE NoView
          OBVIOUS
        <5>2. Copies(p, y.view, v)'
          BY <1>1, <4>3, <5>1, ReadsSame
        <5>. QED  BY <5>1, <5>2
      <4>5. UpToDate(p, y)'
        BY <1>1, <1>6, <1>8, <1>11, <2>2, <4>2, <4>4 DEF UpToDate
      <4>. QED  BY <1>1, <4>1, <4>5 DEF protocol, Reads, Received, resOld, resView, resCanvas3D, resCanvas2D
    <3>. QED  BY <1>1, <1>7, <2>4, <2>5, <3>1, ShowTold
  <2>10. CASE ~Known
    <3>1. w = NoView /\ r = NoMsg /\ recv_queue[p] = <<>> /\ data_recv[p] = NoView /\ p \notin entry
      BY <1>9, <2>8, <2>10 DEF Begun
    <3>2. b = EmptyBatch
      <4>1. k = FALSE /\ e = FALSE
        BY <2>12, <2>10, <3>1
      <4>. QED  BY <2>4, <3>1, <4>1 DEF EmptyBatch
    <3>3. recv_queue'[p] = <<>>
      <4>1. OneBatch(b) = <<>>
        BY <3>2 DEF OneBatch
      <4>2. recv_queue'[p] = recv_queue[p] \o <<>>
        BY <2>5, <4>1
      <4>3. recv_queue[p] \o <<>> = recv_queue[p]
        BY <1>7, ConcatEmptySeq
      <4>. QED  BY <3>1, <4>2, <4>3
    <3>4. PICK x : x = Has(p) /\ x.view = NoView /\ ~x.entry
      <4>1. Has(p).view = NoView /\ ~Has(p).entry
        BY <3>1 DEF Has
      <4>. QED  BY <4>1
    <3>5. PICK s : Follows(p, x, <<>>, s) /\ s[Len(<<>>)] = x
      BY FollowsNothing
    <3>6. Follows(p, x, <<>>, s)'
      BY <1>1, <3>5, ReadsSame
    <3>7. Copies(p, NoView, NoView)'
      BY DEF Copies
    <3>8. UpToDate(p, x)'
      BY <1>6, <1>8, <3>1, <3>4, <3>7 DEF UpToDate
    <3>. QED  BY <1>7, <3>3, <3>4, <3>5, <3>6, <3>8 DEF WillShow
  <2>. QED  BY <2>9, <2>10
<1>. QED  BY <1>10, <1>11

LEMMA FirstPublisherShows ==
    ASSUME StoreInv, StoreInv', ViewsTypes, Begun, WillKeep, WillFollow,
           NEW c \in Conn, SyncInit(c), owner[c] = Publisher
    PROVE  WillFollow'
<1> SUFFICES ASSUME trusted', NEW p \in Client \ {Publisher} PROVE WillShow(p)'
  BY DEF WillFollow
<1>0. PICK m : m = Head(sent[c]).msg
  OBVIOUS
<1>1. /\ UNCHANGED <<conn_of, protocol, data_recv, entry>> /\ trusted
      /\ c \in clients /\ ~sync_init[c] /\ sent[c] # <<>> /\ Head(sent[c]).kind = "first"
      /\ data_req' = IF Head(sent[c]).req THEN data_req \cup {c} ELSE data_req
      /\ data' = IF m = NoMsg THEN data ELSE [data EXCEPT ![c] = Serve(@, m).now]
      /\ SendEach([d \in Conn |->
            IF d = c \/ d \notin ForEach \/ owner[d] = Publisher THEN <<>>
            ELSE <<[IF m = NoMsg THEN EmptyBatch ELSE News(c, d, m) EXCEPT !.init = TRUE]>>])
  BY <1>0 DEF SyncInit, Read, followerVars, syncInit, registerClient
<1>2. Head(sent[c]).req = FALSE /\ m \in FromPublisher \cup {NoMsg}
  BY <1>0, <1>1, HeadIs
<1>3. PICK id \in AssignableId(c, OwnName(c)) : syncInit(c, id)
  BY DEF SyncInit
<1>4. /\ clients' = clients /\ sync_init' = [sync_init EXCEPT ![c] = TRUE] /\ sync_init \in [Conn -> BOOLEAN]
      /\ clients \subseteq Conn
  BY <1>3 DEF syncInit, registerClient, StoreInv, StoreTypeOK
<1>5. ForEach' = ForEach \cup {c} /\ data_req' = data_req
  BY <1>1, <1>2, <1>4 DEF ForEach
<1>6. Current' = data'[c]
  <2>1. PublisherName = OwnName(c) /\ OwnName(c) \in MName /\ PublisherName \in Name
    BY Names
  <2>2. FoundName(PublisherName)' # {} /\ EntryOf(PublisherName)' = c
    BY <1>3, <2>1, RegisteredEntry DEF syncInit
  <2>3. PublisherName' = PublisherName
    BY DEF PublisherName
  <2>. QED  BY <2>2, <2>3 DEF Current, Known
<1>7. Has(p)' = Has(p) /\ WillShow(p) /\ recv_queue[p] \in Seq(BatchFor(p)) /\ KindOK
  BY <1>1, Kinds DEF Has, WillFollow, ViewsTypes
<1>8. data[c] = NoView /\ data'[c] = IF m = NoMsg THEN NoView ELSE Serve(data[c], m).now
  BY <1>1 DEF Begun, ViewsTypes
<1>9. conn_of[p] # c
  BY Links, ClientAssumption DEF ViewsTypes
<1>10. CASE conn_of[p] \notin ForEach
  <2>1. recv_queue'[p] = recv_queue[p]
    <3>1. conn_of[p] = NoConn \/ conn_of[p] \in Conn
      BY DEF ViewsTypes, LinkTypeOK
    <3>2. recv_queue[p] \o <<>> = recv_queue[p]
      BY <1>7, ConcatEmptySeq
    <3>. QED  BY <1>1, <1>10, <3>1, <3>2 DEF SendEach
  <2>. QED  BY <1>1, <1>5, <1>7, <1>9, <1>10, <2>1, ShowSame
<1>11. CASE conn_of[p] \in ForEach
  <2>1. PICK d \in Conn : d = conn_of[p] /\ owner[d] = p /\ d \in ForEach /\ d # c
    BY <1>9, <1>11, Links, ClientAssumption DEF ForEach, ViewsTypes, LinkTypeOK, StoreInv, StoreTypeOK
  <2>2. PICK a \in BatchFor(p) : a = IF m = NoMsg THEN EmptyBatch ELSE News(c, d, m)
    <3>1. EmptyBatch \in BatchFor(p)
      BY DEF EmptyBatch, Batch, BatchFor, ResFor
    <3>. QED  BY <1>2, <2>1, <3>1, NewsType
  <2>3. PICK b \in BatchFor(p) : /\ b = [a EXCEPT !.init = TRUE]
                                 /\ b.init = TRUE /\ b.entry = a.entry /\ b.res = a.res
    <3>1. /\ [a EXCEPT !.init = TRUE] \in BatchFor(p)
          /\ [a EXCEPT !.init = TRUE].init = TRUE /\ [a EXCEPT !.init = TRUE].entry = a.entry
          /\ [a EXCEPT !.init = TRUE].res = a.res
      BY DEF BatchFor
    <3>. QED  BY <3>1
  <2>4. recv_queue'[p] = Append(recv_queue[p], b)
    <3>1. recv_queue'[p] = recv_queue[p] \o <<b>>
      BY <1>1, <2>1, <2>2, <2>3, ClientAssumption DEF SendEach
    <3>. QED  BY <1>7, <3>1, QueueMore
  <2>5. ASSUME NEW x, Publisher \in old => p \notin old PROVE UpToDate(p, Reads(p, x, b))'
    <3>1. PICK y : y = Reads(p, x, b)
      OBVIOUS
    <3>2. (y.entry <=> a.entry) /\ y.view = IF a.res = NoMsg THEN NoView ELSE Received(p, NoView, a.res)
      BY <2>3, <3>1, ReadsIs
    <3>3. Copies(p, NoView, NoView)
      BY DEF Copies
    <3>4. PICK w : w = Current'
      OBVIOUS
    <3>5. (y.entry <=> w # NoView) /\ Copies(p, y.view, IF d \in data_req THEN w ELSE NoView)
      <4>1. CASE m = NoMsg
        <5>1. a.entry = FALSE /\ a.res = NoMsg /\ w = NoView
          BY <1>6, <1>8, <2>2, <3>4, <4>1 DEF EmptyBatch, Batch
        <5>. QED  BY <3>2, <3>3, <5>1
      <4>2. CASE m # NoMsg
        <5>0. m \in FromPublisher /\ w = Serve(data[c], m).now /\ a = News(c, d, m)
          BY <1>2, <1>6, <1>8, <2>2, <3>4, <4>2
        <5>1. w \in View /\ w # NoView
          <6>1. NoView \in View \cup {NoView}
            OBVIOUS
          <6>2. w \in View
            BY <1>7, <1>8, <5>0, <6>1, ServeType
          <6>. QED  BY <6>2, DistinctAssumption
        <5>2. a.entry = TRUE
          BY <1>8, <2>1, <5>0 DEF News, Batch
        <5>3. CASE d \notin data_req
          <6>1. a.res = NoMsg
            BY <5>0, <5>3 DEF News, Batch
          <6>. QED  BY <3>2, <3>3, <5>1, <5>2, <5>3, <6>1
        <5>4. CASE d \in data_req
          <6>1. Copies(p, NoView, data[c])
            BY <1>8, <3>3
          <6>2. a.res # NoMsg /\ Copies(p, Received(p, NoView, a.res), w)
            BY <1>0, <1>1, <2>1, <2>5, <5>0, <5>4, <6>1, NewsCopied
          <6>. QED  BY <3>2, <5>1, <5>2, <5>4, <6>2
        <5>. QED  BY <5>3, <5>4
      <4>. QED  BY <4>1, <4>2
    <3>6. PICK v : v = IF d \in data_req THEN w ELSE NoView
      OBVIOUS
    <3>7. Copies(p, y.view, v)'
      BY <1>1, <3>5, <3>6, ReadsSame
    <3>8. UpToDate(p, y)'
      BY <1>1, <1>5, <2>1, <3>4, <3>5, <3>6, <3>7 DEF UpToDate
    <3>. QED  BY <1>1, <3>1, <3>8 DEF protocol, Reads, Received, resOld, resView, resCanvas3D, resCanvas2D
  <2>. QED  BY <1>1, <1>7, <2>3, <2>4, <2>5, ShowTold DEF protocol
<1>. QED  BY <1>10, <1>11

\* The steps that no follower is told of.
LEMMA QuietShows ==
    ASSUME WillFollow, ViewsTypes, UNCHANGED <<protocol, recv_queue, data_recv, entry, data_req>>,
           trusted' => trusted,
           \A p \in Client \ {Publisher} : conn_of'[p] \in ForEach' => conn_of'[p] = conn_of[p] /\ conn_of[p] \in ForEach,
           Current' = Current
    PROVE  WillFollow'
<1> SUFFICES ASSUME trusted', NEW p \in Client \ {Publisher} PROVE WillShow(p)'
  BY DEF WillFollow
<1>1. WillShow(p) /\ Has(p)' = Has(p)
  BY DEF WillFollow, Has
<1>. QED  BY <1>1, ShowSame

----------------------------------------------------------------------------
(* Types.                                                                  *)

PublisherTypes ==
    /\ data_send \in Seq(WholeView) /\ shown \in Seq(Lists(Look))
    /\ recv_self \in WholeView \cup {NoView} /\ data_send_prev \in {NoView, recv_self}
    /\ sync_first \in {NoFirst} \cup PublisherMsg /\ sync_queue \in Seq(PublisherMsg)
    /\ sync_first # NoFirst => sync_first.kind = "first"
    /\ leftover \in 0 .. Len(sync_queue)
ConnTypes ==
    /\ LinkTypeOK
    /\ conn_of[Publisher] # NoConn => sync_first # NoFirst
    /\ data_req \subseteq Conn /\ trusted \in BOOLEAN
MsgFor(c) == IF owner[c] = Publisher THEN PublisherMsg ELSE FollowerMsg
SentTypes == DOMAIN sent = Conn /\ \A c \in Conn : sent[c] \in Seq(MsgFor(c))
DataTypes ==
    /\ data \in [Conn -> View \cup {NoView}]
    /\ \A c \in Conn : kind # "canvas2d" /\ data[c] # NoView => data[c].size = NoSize
QueueTypes == DOMAIN recv_queue = Client /\ \A p \in Client : recv_queue[p] \in Seq(BatchFor(p))
FollowerTypes ==
    /\ DOMAIN data_recv = Client /\ req \subseteq Client \ {Publisher}
    /\ \A p \in Client : data_recv[p] \in {NoView} \cup (IF p \in old THEN OldView ELSE View)

TypeParts ==
    /\ PublisherTypes /\ ConnTypes /\ SentTypes /\ DataTypes /\ QueueTypes /\ FollowerTypes
    /\ <<kind, old>> \in Protocols

LEMMA TypesAre == (ViewsTypes <=> TypeParts) /\ (ViewsTypes' <=> TypeParts')
<1>1. ViewsTypes => TypeParts
  <2> SUFFICES ASSUME ViewsTypes PROVE TypeParts
    OBVIOUS
  <2>1. PublisherTypes /\ ConnTypes /\ DataTypes /\ <<kind, old>> \in Protocols
    BY DEF ViewsTypes, PublisherTypes, ConnTypes, DataTypes
  <2>2. SentTypes
    BY DEF ViewsTypes, SentTypes, MsgFor
  <2>3. QueueTypes /\ FollowerTypes
    BY DEF ViewsTypes, QueueTypes, FollowerTypes
  <2>. QED  BY <2>1, <2>2, <2>3 DEF TypeParts
<1>2. TypeParts => ViewsTypes
  <2> SUFFICES ASSUME TypeParts PROVE ViewsTypes
    OBVIOUS
  <2>1. \A c \in Conn : sent[c] \in Seq(IF owner[c] = Publisher THEN PublisherMsg ELSE FollowerMsg)
    BY DEF TypeParts, SentTypes, MsgFor
  <2>. QED  BY <2>1 DEF TypeParts, PublisherTypes, ConnTypes, SentTypes, DataTypes, QueueTypes, FollowerTypes, ViewsTypes
<1>3. (ViewsTypes <=> TypeParts)'
  BY <1>1, <1>2, PTL
<1>. QED  BY <1>1, <1>2, <1>3

LEMMA TypesSame ==
    ASSUME ViewsTypes, UNCHANGED protocol
    PROVE  /\ UNCHANGED publisherVars => PublisherTypes'
           /\ UNCHANGED sent => SentTypes'
           /\ UNCHANGED data => DataTypes'
           /\ UNCHANGED recv_queue => QueueTypes'
           /\ UNCHANGED followerVars => FollowerTypes'
           /\ PublisherMsg' = PublisherMsg /\ \A p : BatchFor(p)' = BatchFor(p)
           /\ \A c : MsgFor(c)' = MsgFor(c)
           /\ (<<kind, old>> \in Protocols)' /\ KindOK
<1>1. kind' = kind /\ old' = old /\ KindOK /\ (<<kind, old>> \in Protocols)'
  BY Kinds DEF protocol, ViewsTypes
<1>2. PublisherMsg' = PublisherMsg
  BY <1>1 DEF PublisherMsg, FromPublisher
<1>3. \A p : BatchFor(p)' = BatchFor(p)
  BY <1>1 DEF BatchFor, ResFor
<1>4. \A c : MsgFor(c)' = MsgFor(c)
  BY <1>2 DEF MsgFor
<1>5. UNCHANGED publisherVars => PublisherTypes'
  BY <1>2, TypesAre DEF TypeParts, publisherVars, PublisherTypes
<1>6. UNCHANGED sent => SentTypes'
  BY <1>4, TypesAre DEF TypeParts, SentTypes
<1>7. UNCHANGED data => DataTypes'
  BY <1>1, TypesAre DEF TypeParts, DataTypes
<1>8. UNCHANGED recv_queue => QueueTypes'
  BY <1>3, TypesAre DEF TypeParts, QueueTypes
<1>9. UNCHANGED followerVars => FollowerTypes'
  BY <1>1, TypesAre DEF TypeParts, FollowerTypes, followerVars
<1>. QED  BY <1>1, <1>2, <1>3, <1>4, <1>5, <1>6, <1>7, <1>8, <1>9

LEMMA ConnSame ==
    ASSUME ViewsTypes, StoreInv', conn_of' = conn_of, sync_first' = sync_first,
           data_req' = data_req, trusted' \in BOOLEAN
    PROVE  ConnTypes'
BY TypesAre DEF TypeParts, ConnTypes, StoreInv, LinkTypeOK

LEMMA SentType ==
    ASSUME ViewsTypes, UNCHANGED protocol, NEW c \in Conn, NEW q \in Seq(MsgFor(c)), sent' = [sent EXCEPT ![c] = q]
    PROVE  SentTypes'
BY TypesAre, TypesSame DEF TypeParts, SentTypes

LEMMA ReadType ==
    ASSUME ViewsTypes, UNCHANGED protocol, NEW c \in Conn, NEW k, Read(c, k)
    PROVE  SentTypes'
<1>1. PICK q \in Seq(MsgFor(c)) : q = sent[c]
  BY TypesAre DEF TypeParts, SentTypes
<1>2. Tail(q) \in Seq(MsgFor(c))
  BY <1>1, QueueLess DEF Read
<1>. QED  BY <1>1, <1>2, SentType DEF Read

LEMMA DataType ==
    ASSUME ViewsTypes, UNCHANGED protocol, NEW c \in Conn, NEW m \in FromPublisher,
           data' = [data EXCEPT ![c] = Serve(@, m).now]
    PROVE  DataTypes'
<1>1. DataTypes /\ KindOK /\ kind' = kind
  BY TypesAre, TypesSame DEF TypeParts, protocol
<1>2. PICK s : s = Serve(data[c], m).now
  OBVIOUS
<1>3. s \in View /\ (kind # "canvas2d" => s.size = NoSize)
  BY <1>1, <1>2, ServeType DEF DataTypes
<1>. QED  BY <1>1, <1>2, <1>3 DEF DataTypes

LEMMA QueueType ==
    ASSUME ViewsTypes, UNCHANGED protocol, NEW msgs, SendEach(msgs),
           \A d \in Conn : msgs[d] \in Seq(BatchFor(owner[d]))
    PROVE  QueueTypes'
<1>1. QueueTypes /\ \A p : BatchFor(p)' = BatchFor(p)
  BY TypesAre, TypesSame DEF TypeParts
<1>2. DOMAIN recv_queue' = Client
  BY DEF SendEach
<1>3. ASSUME NEW p \in Client PROVE recv_queue'[p] \in Seq(BatchFor(p))
  <2>1. recv_queue[p] \in Seq(BatchFor(p))
    BY <1>1 DEF QueueTypes
  <2>2. CASE conn_of[p] = NoConn
    BY <2>1, <2>2 DEF SendEach
  <2>3. CASE conn_of[p] # NoConn
    <3>1. PICK r \in Seq(BatchFor(p)) : r = msgs[conn_of[p]]
      BY <2>3, Links DEF ViewsTypes
    <3>2. recv_queue[p] \o r \in Seq(BatchFor(p))
      BY <2>1, <3>1
    <3>. QED  BY <2>3, <3>1, <3>2 DEF SendEach
  <2>. QED  BY <2>2, <2>3
<1>. QED  BY <1>1, <1>2, <1>3 DEF QueueTypes

LEMMA BatchType ==
    ASSUME NEW p, NEW b \in BatchFor(p)
    PROVE  OneBatch(b) \in Seq(BatchFor(p)) /\ <<b>> \in Seq(BatchFor(p)) /\ <<>> \in Seq(BatchFor(p))
BY DEF OneBatch

LEMMA TransferTypes ==
    ASSUME ViewsTypes, UNCHANGED protocol, NEW f \in BOOLEAN, transferSend(f),
           \/ sync_first' = sync_first \/ sync_first' = First,
           \/ leftover' = Len(sync_queue) /\ sync_queue' = sync_queue
           \/ leftover' = leftover /\ sync_queue' = sync_queue
           \/ leftover' = leftover /\ Snapshot.msg # NoMsg /\ sync_queue' = Append(sync_queue, Snapshot)
    PROVE  PublisherTypes'
<1>1. PublisherTypes /\ PublisherMsg' = PublisherMsg
  BY TypesAre, TypesSame DEF TypeParts
<1>2. /\ recv_self' \in WholeView \cup {NoView} /\ data_send_prev' \in {NoView, recv_self'}
      /\ data_send' \in Seq(WholeView) /\ shown' \in Seq(Lists(Look))
  BY Transferred
<1>3. sync_first' \in {NoFirst} \cup PublisherMsg /\ (sync_first' # NoFirst => sync_first'.kind = "first")
  BY <1>1, FirstType DEF PublisherTypes
<1>4. sync_queue' \in Seq(PublisherMsg) /\ leftover' \in 0 .. Len(sync_queue')
  <2>1. PICK q \in Seq(PublisherMsg) : q = sync_queue /\ Len(q) \in Nat /\ leftover \in 0 .. Len(q)
    BY <1>1 DEF PublisherTypes
  <2>2. Snapshot.msg # NoMsg => Append(q, Snapshot) \in Seq(PublisherMsg) /\ Len(Append(q, Snapshot)) = Len(q) + 1
    BY SnapshotType, QueueMore
  <2>. QED  BY <2>1, <2>2
<1>. QED  BY <1>1, <1>2, <1>3, <1>4 DEF PublisherTypes

LEMMA DrawTypes ==
    ASSUME ViewsTypes, StoreInv', NEW d \in Drawing, draw(d)
    PROVE  ViewsTypes'
<1>1. /\ UNCHANGED <<storeVars, linkVars, protocol, recv_self, data_send_prev, sync_first, sync_queue,
                     shown, leftover, followerVars, sent, serverVars, trusted>>
      /\ KindOK /\ PublisherTypes /\ ConnTypes /\ PublisherMsg' = PublisherMsg
  BY TypesAre, TypesSame DEF draw, TypeParts
<1>2. PICK v \in WholeView : data_send' = Append(data_send, v)
  <2>1. onSyncView(d) \in WholeView /\ onSyncCanvas3D(d) \in WholeView /\ onSyncCanvas2D(d) \in WholeView
    BY DrawnWhole DEF onSyncView, onSyncCanvas3D, onSyncCanvas2D, Size
  <2>2. kind = "view" \/ kind = "canvas3d" \/ kind = "canvas2d"
    BY <1>1 DEF KindOK
  <2>3. CASE kind = "view"
    BY <2>1, <2>3 DEF draw
  <2>4. CASE kind = "canvas3d"
    BY <2>1, <2>4 DEF draw
  <2>5. CASE kind = "canvas2d"
    BY <2>1, <2>5 DEF draw
  <2>. QED  BY <2>2, <2>3, <2>4, <2>5
<1>3. PublisherTypes'
  <2>1. data_send' \in Seq(WholeView)
    BY <1>1, <1>2, QueueMore DEF PublisherTypes
  <2>. QED  BY <1>1, <2>1 DEF PublisherTypes
<1>4. ConnTypes'
  BY <1>1, ConnSame DEF ConnTypes, linkVars, serverVars
<1>. QED  BY <1>1, <1>3, <1>4, TypesSame, TypesAre DEF TypeParts, linkVars, serverVars

LEMMA SyncTypes ==
    ASSUME ViewsTypes, StoreInv', sync
    PROVE  ViewsTypes'
<1>1. /\ UNCHANGED <<storeVars, linkVars, protocol, followerVars, sent, serverVars, trusted>>
      /\ PublisherTypes /\ ConnTypes
  BY TypesAre DEF sync, TypeParts
<1>2. PublisherTypes'
  <2>1. CASE conn_of[Publisher] = NoConn /\ sync_first = NoFirst
    <3>1. transferSend(TRUE) /\ sync_first' = First /\ leftover' = Len(sync_queue) /\ sync_queue' = sync_queue
      BY <2>1 DEF sync
    <3>. QED  BY <1>1, <3>1, TransferTypes
  <2>2. CASE ~(conn_of[Publisher] = NoConn /\ sync_first = NoFirst)
    <3>1. /\ transferSend(FALSE) /\ sync_first' = sync_first /\ leftover' = leftover
          /\ sync_queue' = IF Snapshot.msg = NoMsg THEN sync_queue ELSE Append(sync_queue, Snapshot)
      BY <2>2 DEF sync
    <3>. QED  BY <1>1, <3>1, TransferTypes
  <2>. QED  BY <2>1, <2>2
<1>3. ConnTypes'
  <2>1. LinkTypeOK'
    BY <1>1 DEF linkVars, ConnTypes, LinkTypeOK, StoreInv
  <2>2. conn_of'[Publisher] # NoConn => sync_first' # NoFirst
    BY <1>1 DEF sync, linkVars, ConnTypes
  <2>. QED  BY <1>1, <2>1, <2>2 DEF ConnTypes, serverVars
<1>. QED  BY <1>1, <1>2, <1>3, TypesSame, TypesAre DEF TypeParts, linkVars, serverVars

LEMMA SendTypes ==
    ASSUME ViewsTypes, StoreInv', sendQueue
    PROVE  ViewsTypes'
<1>1. /\ UNCHANGED <<storeVars, linkVars, protocol, data_send, recv_self, data_send_prev, sync_first,
                     shown, followerVars, serverVars>>
      /\ sync_queue' = <<>> /\ leftover' = 0 /\ trusted' = (trusted /\ leftover = 0)
      /\ PublisherTypes /\ ConnTypes /\ SentTypes /\ PublisherMsg' = PublisherMsg
  BY TypesAre, TypesSame DEF sendQueue, TypeParts
<1>2. PICK c \in Conn : /\ c = conn_of[Publisher] /\ owner[c] = Publisher
                        /\ sent' = [sent EXCEPT ![c] = @ \o sync_queue]
  BY Links, Names DEF sendQueue, ViewsTypes
<1>3. SentTypes'
  <2>1. sent[c] \o sync_queue \in Seq(MsgFor(c))
    BY <1>1, <1>2 DEF SentTypes, PublisherTypes, MsgFor
  <2>. QED  BY <1>1, <1>2, <2>1, SentType
<1>4. PublisherTypes'
  BY <1>1 DEF PublisherTypes
<1>5. ConnTypes'
  BY <1>1, ConnSame DEF ConnTypes, linkVars, serverVars
<1>. QED  BY <1>1, <1>3, <1>4, <1>5, TypesSame, TypesAre DEF TypeParts, linkVars, serverVars

LEMMA RequestTypes ==
    ASSUME ViewsTypes, StoreInv', NEW p \in Client, request(p)
    PROVE  ViewsTypes'
<1>1. /\ UNCHANGED <<storeVars, linkVars, protocol, publisherVars, data_recv, entry, serverVars, trusted>>
      /\ ConnTypes /\ SentTypes /\ FollowerTypes /\ p # Publisher /\ req' = req \cup {p}
  BY TypesAre DEF request, TypeParts
<1>2. SentTypes'
  <2>1. CASE conn_of[p] = NoConn
    BY <1>1, <2>1, TypesSame DEF request
  <2>2. CASE conn_of[p] # NoConn
    <3>1. PICK c \in Conn : c = conn_of[p] /\ owner[c] = p /\ sent' = [sent EXCEPT ![c] = Append(@, ReqMsg)]
      BY <2>2, Links DEF request, ViewsTypes
    <3>2. ReqMsg \in MsgFor(c)
      BY <1>1, <3>1 DEF MsgFor, FollowerMsg, ReqMsg
    <3>3. Append(sent[c], ReqMsg) \in Seq(MsgFor(c))
      BY <1>1, <3>2 DEF SentTypes
    <3>. QED  BY <1>1, <3>1, <3>3, SentType
  <2>. QED  BY <2>1, <2>2
<1>3. FollowerTypes'
  BY <1>1 DEF FollowerTypes, protocol
<1>4. ConnTypes'
  BY <1>1, ConnSame DEF ConnTypes, linkVars, serverVars, publisherVars
<1>. QED  BY <1>1, <1>2, <1>3, <1>4, TypesSame, TypesAre DEF TypeParts, linkVars, serverVars

LEMMA DisconnectTypes ==
    ASSUME ViewsTypes, StoreInv', NEW p \in Client, Disconnect(p)
    PROVE  ViewsTypes'
<1>1. /\ UNCHANGED <<storeVars, recv_queue, protocol, data_send, recv_self, data_send_prev, sync_queue, shown,
                     leftover, followerVars, serverVars, trusted>>
      /\ conn_of' = [conn_of EXCEPT ![p] = NoConn]
      /\ sync_first' = IF p = Publisher THEN NoFirst ELSE sync_first
      /\ PublisherTypes /\ ConnTypes /\ SentTypes /\ PublisherMsg' = PublisherMsg
  BY TypesAre, TypesSame DEF Disconnect, disconnect, TypeParts
<1>2. PICK c \in Conn : c = conn_of[p] /\ owner[c] = p
  BY Links DEF Disconnect, disconnect, ViewsTypes
<1>3. SentTypes'
  <2>1. PICK k \in 0 .. Len(sent[c]) : sent' = [sent EXCEPT ![c] = SubSeq(@, 1, k)]
    BY <1>2 DEF Disconnect
  <2>2. PICK q \in Seq(MsgFor(c)) : q = sent[c]
    BY <1>1 DEF SentTypes
  <2>3. k \in 0 .. Len(q)
    BY <2>1, <2>2
  <2>4. SubSeq(q, 1, k) \in Seq(MsgFor(c))
    BY <2>3, FirstOnes
  <2>. QED  BY <1>1, <2>1, <2>2, <2>4, SentType
<1>4. PublisherTypes'
  BY <1>1 DEF PublisherTypes
<1>5. ConnTypes'
  <2>1. LinkTypeOK'
    BY <1>1 DEF ConnTypes, LinkTypeOK, StoreInv
  <2>. QED  BY <1>1, <2>1 DEF ConnTypes, LinkTypeOK, serverVars
<1>. QED  BY <1>1, <1>3, <1>4, <1>5, TypesSame, TypesAre DEF TypeParts, serverVars

LEMMA RecvTypes ==
    ASSUME ViewsTypes, StoreInv', NEW p \in Client, Recv(p)
    PROVE  ViewsTypes'
<1>1. /\ UNCHANGED <<storeVars, conn_of, protocol, publisherVars, req, sent, serverVars, trusted>>
      /\ ConnTypes /\ QueueTypes /\ FollowerTypes /\ KindOK /\ \A d : BatchFor(d)' = BatchFor(d)
      /\ recv_queue' = [recv_queue EXCEPT ![p] = Tail(@)]
  BY TypesAre, TypesSame DEF Recv, TypeParts
<1>2. PICK q \in Seq(BatchFor(p)) : q = recv_queue[p] /\ q # <<>>
  BY <1>1 DEF Recv, QueueTypes
<1>3. Tail(q) \in Seq(BatchFor(p)) /\ Head(q) \in BatchFor(p)
  BY <1>2, QueueLess
<1>4. QueueTypes'
  BY <1>1, <1>2, <1>3 DEF QueueTypes
<1>5. PICK m \in BatchFor(p) : m = Head(q)
  BY <1>3
<1>6. FollowerTypes'
  <2>1. PICK v : v = IF m.init THEN NoView ELSE data_recv[p]
    OBVIOUS
  <2>2. v \in {NoView} \cup (IF p \in old THEN OldView ELSE View)
    BY <1>1, <2>1 DEF FollowerTypes
  <2>3. data_recv' = [data_recv EXCEPT ![p] = IF m.res = NoMsg THEN v ELSE Received(p, v, m.res)]
    BY <1>2, <1>5, <2>1 DEF Recv
  <2>4. m.res # NoMsg => Received(p, v, m.res) \in IF p \in old THEN OldView ELSE View
    BY <1>1, <1>5, <2>2, ReceiveType DEF BatchFor, ResFor
  <2>. QED  BY <1>1, <2>2, <2>3, <2>4 DEF FollowerTypes, protocol
<1>7. ConnTypes'
  BY <1>1, ConnSame DEF ConnTypes, serverVars, publisherVars
<1>. QED  BY <1>1, <1>4, <1>6, <1>7, TypesSame, TypesAre DEF TypeParts, serverVars

LEMMA ConnectTypes ==
    ASSUME ViewsTypes, StoreInv', NEW p \in Client, NEW c \in Conn, Connect(p, c)
    PROVE  ViewsTypes'
<1>1. /\ UNCHANGED <<recv_queue, protocol, followerVars, serverVars, trusted>>
      /\ conn_of' = [conn_of EXCEPT ![p] = c] /\ owner[c] = p
      /\ sent' = [sent EXCEPT ![c] = <<IF p = Publisher THEN sync_first' ELSE FirstMsg(p, NoMsg)>>]
      /\ PublisherTypes /\ ConnTypes /\ SentTypes /\ FollowerTypes /\ PublisherMsg' = PublisherMsg
  BY TypesAre, TypesSame DEF Connect, connect, TypeParts
<1>2. PublisherTypes' /\ (p = Publisher => sync_first' # NoFirst) /\ (p # Publisher => sync_first' = sync_first)
  <2>1. CASE p = Publisher /\ sync_first = NoFirst
    <3>1. transferSend(TRUE) /\ sync_first' = First /\ leftover' = Len(sync_queue) /\ sync_queue' = sync_queue
      BY <2>1 DEF Connect
    <3>2. First # NoFirst
      <4>1. First \in [kind : {"first"}, req : BOOLEAN, msg : ViewMsg \cup OldViewMsg \cup {NoMsg}]
        BY <3>1, FirstType DEF PublisherMsg, FromPublisher, First, FirstMsg
      <4>. QED  BY <4>1, DistinctAssumption
    <3>. QED  BY <1>1, <2>1, <3>1, <3>2, TransferTypes
  <2>2. CASE ~(p = Publisher /\ sync_first = NoFirst)
    <3>1. UNCHANGED publisherVars
      BY <2>2 DEF Connect
    <3>. QED  BY <1>1, <2>2, <3>1, TypesSame DEF publisherVars
  <2>. QED  BY <2>1, <2>2
<1>3. SentTypes'
  <2>1. CASE p = Publisher
    <3>1. sync_first' \in MsgFor(c)
      BY <1>1, <1>2, <2>1 DEF PublisherTypes, MsgFor
    <3>2. PICK m \in MsgFor(c) : m = sync_first'
      BY <3>1
    <3>3. <<m>> \in Seq(MsgFor(c))
      OBVIOUS
    <3>. QED  BY <1>1, <2>1, <3>2, <3>3, SentType
  <2>2. CASE p # Publisher
    <3>1. FirstMsg(p, NoMsg) \in MsgFor(c)
      BY <1>1, <2>2 DEF MsgFor, FollowerMsg, FirstMsg
    <3>2. PICK m \in MsgFor(c) : m = FirstMsg(p, NoMsg)
      BY <3>1
    <3>3. <<m>> \in Seq(MsgFor(c))
      OBVIOUS
    <3>. QED  BY <1>1, <2>2, <3>2, <3>3, SentType
  <2>. QED  BY <2>1, <2>2
<1>4. ConnTypes'
  <2>1. LinkTypeOK'
    BY <1>1, ClientAssumption DEF ConnTypes, LinkTypeOK, StoreInv
  <2>2. conn_of'[Publisher] # NoConn => sync_first' # NoFirst
    BY <1>1, <1>2 DEF ConnTypes, LinkTypeOK
  <2>. QED  BY <1>1, <2>1, <2>2 DEF ConnTypes, serverVars
<1>. QED  BY <1>1, <1>2, <1>3, <1>4, TypesSame, TypesAre DEF TypeParts, serverVars

LEMMA ServeDataTypes ==
    ASSUME ViewsTypes, StoreInv', NEW c \in Conn, ServeData(c)
    PROVE  ViewsTypes'
<1>0. PICK m : m = Head(sent[c]).msg
  OBVIOUS
<1>1. /\ UNCHANGED <<storeVars, conn_of, protocol, publisherVars, followerVars, data_req>>
      /\ Read(c, "data") /\ sent[c] # <<>> /\ Head(sent[c]).kind = "data"
      /\ data' = [data EXCEPT ![c] = Serve(@, m).now]
      /\ SendEach([d \in Conn |-> IF d \in ForEach THEN OneBatch(News(c, d, m)) ELSE <<>>])
      /\ ConnTypes /\ trusted' = (trusted /\ clients_by_id[member_id[c]] = c)
  BY <1>0, TypesAre DEF ServeData, Read, TypeParts
<1>2. m \in FromPublisher
  BY <1>0, <1>1, HeadIs
<1>3. DataTypes' /\ SentTypes'
  BY <1>1, <1>2, DataType, ReadType
<1>4. QueueTypes'
  <2> DEFINE msgs == [d \in Conn |-> IF d \in ForEach THEN OneBatch(News(c, d, m)) ELSE <<>>]
  <2>1. ASSUME NEW d \in Conn PROVE msgs[d] \in Seq(BatchFor(owner[d]))
    <3>1. PICK b \in BatchFor(owner[d]) : b = News(c, d, m)
      BY <1>2, NewsType
    <3>. QED  BY <3>1, BatchType
  <2>2. SendEach(msgs)
    BY <1>1
  <2> HIDE DEF msgs
  <2>. QED  BY <1>1, <2>1, <2>2, QueueType
<1>5. ConnTypes'
  BY <1>1, ConnSame DEF ConnTypes, publisherVars
<1>. QED  BY <1>1, <1>3, <1>4, <1>5, TypesSame, TypesAre DEF TypeParts

LEMMA ServeReqTypes ==
    ASSUME StoreInv, ViewsTypes, StoreInv', NEW c \in Conn, ServeReq(c)
    PROVE  ViewsTypes'
<1>1. /\ UNCHANGED <<storeVars, conn_of, protocol, publisherVars, followerVars, data, trusted>>
      /\ Read(c, "req") /\ data_req' = data_req \cup {c}
      /\ SendEach([d \in Conn |-> IF d # c THEN <<>>
                     ELSE OneBatch(Batch(FALSE, FALSE, Answered(owner[c])))])
      /\ ConnTypes /\ KindOK
  BY TypesAre, TypesSame DEF ServeReq, TypeParts
<1>2. SentTypes'
  BY <1>1, ReadType
<1>3. QueueTypes'
  <2> DEFINE msgs == [d \in Conn |-> IF d # c THEN <<>>
                        ELSE OneBatch(Batch(FALSE, FALSE, Answered(owner[c])))]
  <2>1. ASSUME NEW d \in Conn PROVE msgs[d] \in Seq(BatchFor(owner[d]))
    <3>0. PICK r \in ResFor(owner[c]) : r = Answered(owner[c])
      BY <1>1, CurrentType, AnswerType DEF ResFor
    <3>1. PICK b \in BatchFor(owner[c]) : b = Batch(FALSE, FALSE, r)
      BY DEF BatchFor, Batch
    <3>2. CASE d = c
      BY <3>0, <3>1, <3>2, BatchType
    <3>3. CASE d # c
      BY <3>3
    <3>. QED  BY <3>2, <3>3
  <2>2. SendEach(msgs)
    BY <1>1
  <2> HIDE DEF msgs
  <2>. QED  BY <1>1, <2>1, <2>2, QueueType
<1>4. ConnTypes'
  <2>1. LinkTypeOK'
    BY <1>1 DEF ConnTypes, LinkTypeOK, StoreInv
  <2>. QED  BY <1>1, <2>1 DEF ConnTypes, publisherVars
<1>. QED  BY <1>1, <1>2, <1>3, <1>4, TypesSame, TypesAre DEF TypeParts

LEMMA CloseTypes ==
    ASSUME ViewsTypes, StoreInv', NEW c \in Conn, Close(c)
    PROVE  ViewsTypes'
<1>1. /\ UNCHANGED <<conn_of, recv_queue, protocol, publisherVars, followerVars, sent, serverVars, trusted>>
      /\ ConnTypes
  BY TypesAre DEF Close, onClose, TypeParts
<1>2. ConnTypes'
  BY <1>1, ConnSame DEF ConnTypes, publisherVars, serverVars
<1>. QED  BY <1>1, <1>2, TypesSame, TypesAre DEF TypeParts, serverVars

LEMMA SyncInitTypes ==
    ASSUME StoreInv, ViewsTypes, StoreInv', NEW c \in Conn, SyncInit(c)
    PROVE  ViewsTypes'
<1>0. PICK m : m = Head(sent[c])
  OBVIOUS
<1>1. /\ UNCHANGED <<conn_of, protocol, publisherVars, followerVars>>
      /\ Read(c, "first") /\ sent[c] # <<>> /\ m.kind = "first"
      /\ data_req' = IF m.req THEN data_req \cup {c} ELSE data_req
      /\ data' = IF m.msg = NoMsg THEN data ELSE [data EXCEPT ![c] = Serve(@, m.msg).now]
      /\ trusted' = (trusted /\ (owner[c] = Publisher => InOrder(c)))
      /\ ConnTypes /\ KindOK
  BY <1>0, TypesAre, TypesSame DEF SyncInit, Read, syncInit, TypeParts
<1>2. m.req \in BOOLEAN /\ (owner[c] = Publisher => m.msg \in FromPublisher \cup {NoMsg})
      /\ (owner[c] # Publisher => m.msg = NoMsg)
  BY <1>0, <1>1, HeadIs, FromPublisherIs
<1>3. DataTypes' /\ SentTypes'
  <2>1. DataTypes'
    <3>1. CASE m.msg = NoMsg
      BY <1>1, <3>1, TypesSame
    <3>2. CASE m.msg # NoMsg
      <4>1. PICK k \in FromPublisher : k = m.msg
        BY <1>2, <3>2
      <4>. QED  BY <1>1, <3>2, <4>1, DataType
    <3>. QED  BY <3>1, <3>2
  <2>. QED  BY <1>1, <2>1, ReadType
<1>4. QueueTypes'
  <2>1. CASE owner[c] # Publisher
    <3> DEFINE msgs == [d \in Conn |-> IF d # c THEN <<>>
                          ELSE OneBatch(Batch(Known, Current # NoView,
                                              IF m.req THEN Answered(owner[c]) ELSE NoMsg))]
    <3>1. ASSUME NEW d \in Conn PROVE msgs[d] \in Seq(BatchFor(owner[d]))
      <4>1. PICK r \in ResFor(owner[c]) : r = IF m.req THEN Answered(owner[c]) ELSE NoMsg
        BY <1>1, CurrentType, AnswerType DEF ResFor
      <4>2. PICK k \in BOOLEAN, e \in BOOLEAN : k = Known /\ e = (Current # NoView)
        BY DEF Known
      <4>3. PICK b \in BatchFor(owner[c]) : b = Batch(k, e, r)
        BY DEF BatchFor, Batch
      <4>4. CASE d = c
        BY <4>1, <4>2, <4>3, <4>4, BatchType
      <4>5. CASE d # c
        BY <4>5
      <4>. QED  BY <4>4, <4>5
    <3>2. SendEach(msgs)
      BY <1>0, <2>1 DEF SyncInit
    <3> HIDE DEF msgs
    <3>. QED  BY <1>1, <3>1, <3>2, QueueType
  <2>2. CASE owner[c] = Publisher
    <3> DEFINE msgs == [d \in Conn |->
                          IF d = c \/ d \notin ForEach \/ owner[d] = Publisher THEN <<>>
                          ELSE <<[IF m.msg = NoMsg THEN EmptyBatch ELSE News(c, d, m.msg) EXCEPT !.init = TRUE]>>]
    <3>1. ASSUME NEW d \in Conn PROVE msgs[d] \in Seq(BatchFor(owner[d]))
      <4>1. PICK a \in BatchFor(owner[d]) : a = IF m.msg = NoMsg THEN EmptyBatch ELSE News(c, d, m.msg)
        <5>1. EmptyBatch \in BatchFor(owner[d])
          BY DEF EmptyBatch, Batch, BatchFor, ResFor
        <5>. QED  BY <1>2, <2>2, <5>1, NewsType
      <4>2. PICK b \in BatchFor(owner[d]) : b = [a EXCEPT !.init = TRUE]
        BY DEF BatchFor
      <4>. QED  BY <4>1, <4>2, BatchType
    <3>2. SendEach(msgs)
      BY <1>0, <2>2 DEF SyncInit
    <3> HIDE DEF msgs
    <3>. QED  BY <1>1, <3>1, <3>2, QueueType
  <2>. QED  BY <2>1, <2>2
<1>5. ConnTypes'
  <2>1. LinkTypeOK'
    BY <1>1 DEF ConnTypes, LinkTypeOK, StoreInv
  <2>2. trusted' \in BOOLEAN
    BY <1>1 DEF InOrder
  <2>. QED  BY <1>1, <1>2, <2>1, <2>2 DEF ConnTypes, publisherVars
<1>. QED  BY <1>1, <1>3, <1>4, <1>5, TypesSame, TypesAre DEF TypeParts

----------------------------------------------------------------------------
(* What a follower has requested reaches the server.                       *)

Asks(m) == m.kind = "req" \/ (m.kind = "first" /\ m.req)

LEMMA RequestedIs ==
    LET Is == Requested <=> \A p \in req : conn_of[p] # NoConn =>
                  \/ conn_of[p] \in data_req
                  \/ \E i \in DOMAIN sent[conn_of[p]] : Asks(sent[conn_of[p]][i])
    IN  Is /\ Is'
BY DEF Requested, Asks

LEMMA RequestedSame ==
    ASSUME Requested, UNCHANGED req, data_req \subseteq data_req',
           \A p \in req : conn_of'[p] # NoConn => conn_of'[p] = conn_of[p] /\ sent'[conn_of[p]] = sent[conn_of[p]]
    PROVE  Requested'
BY RequestedIs DEF Asks

LEMMA OwnConnection ==
    ASSUME ViewsTypes
    PROVE  /\ \A p \in req : p \in Client /\ p # Publisher
           /\ \A p, q \in Client : conn_of[p] # NoConn /\ p # q => conn_of[p] # conn_of[q]
           /\ \A p \in Client, c \in Conn : owner[c] # p => conn_of[p] # c
BY Links, ClientAssumption DEF ViewsTypes

LEMMA RequestedRead ==
    ASSUME Requested, ViewsTypes, NEW c \in Conn, NEW k, Read(c, k), UNCHANGED <<conn_of, req>>,
           data_req \subseteq data_req',
           (\E p \in req : conn_of[p] = c) /\ Asks(Head(sent[c])) => c \in data_req'
    PROVE  Requested'
<1> SUFFICES ASSUME NEW p \in req, conn_of[p] # NoConn, conn_of[p] \notin data_req'
             PROVE  \E i \in DOMAIN sent'[conn_of[p]] : Asks(sent'[conn_of[p]][i])
  BY RequestedIs DEF Asks
<1>1. PICK i \in DOMAIN sent[conn_of[p]] : Asks(sent[conn_of[p]][i])
  BY RequestedIs
<1>2. CASE conn_of[p] # c
  BY <1>1, <1>2, TypesAre DEF Read, TypeParts, SentTypes
<1>3. CASE conn_of[p] = c
  <2>1. PICK q \in Seq(MsgFor(c)) : q = sent[c] /\ q # <<>> /\ sent'[c] = Tail(q)
    BY TypesAre DEF Read, TypeParts, SentTypes
  <2>2. i \in 1 .. Len(q) /\ i # 1 /\ Asks(q[i])
    BY <1>1, <1>3, <2>1, QueueLess
  <2>3. i - 1 \in 1 .. Len(Tail(q)) /\ Tail(q)[i - 1] = q[i]
    BY <2>1, <2>2, QueueLess
  <2>4. i - 1 \in DOMAIN Tail(q)
    BY <2>1, <2>3, QueueLess
  <2>. QED  BY <1>3, <2>1, <2>2, <2>3, <2>4
<1>. QED  BY <1>2, <1>3

----------------------------------------------------------------------------
(* What there is before the first message of the publisher.                *)

LEMMA BegunSame ==
    ASSUME Begun, UNCHANGED <<sync_init, name, data, data_req>>, Known => Known',
           ~Known => \A p \in Client \ {Publisher} :
                        /\ recv_queue'[p] = recv_queue[p] /\ data_recv'[p] = data_recv[p]
                        /\ p \in entry' <=> p \in entry
    PROVE  Begun'
<1>1. (\A c \in Conn : ~sync_init[c] => data[c] = NoView /\ c \notin data_req)'
  BY DEF Begun
<1>2. (\A c \in Conn : sync_init[c] => name[c] = OwnName(c))'
  BY DEF Begun, OwnName
<1>3. (\A c \in Conn : owner[c] # Publisher => data[c] = NoView)'
  BY DEF Begun
<1>4. ASSUME ~Known', NEW p \in Client \ {Publisher}
      PROVE  recv_queue'[p] = <<>> /\ data_recv'[p] = NoView /\ p \notin entry'
  BY <1>4 DEF Begun
<1>. QED  BY <1>1, <1>2, <1>3, <1>4 DEF Begun

----------------------------------------------------------------------------
(* The steps.                                                              *)

LEMMA DrawStep ==
    ASSUME StoreInv', ViewsInv, NEW d \in Drawing, draw(d)
    PROVE  ViewsInv'
<1>1. UNCHANGED <<storeVars, linkVars, protocol, recv_self, data_send_prev, sync_first, sync_queue,
                  shown, leftover, followerVars, sent, serverVars, trusted>>
  BY DEF draw
<1>2. ViewsTypes'
  BY DrawTypes DEF ViewsInv
<1>3. Known' = Known /\ Current' = Current
  BY <1>1, SameCurrent DEF storeVars, serverVars
<1>4. Begun'
  BY <1>1, <1>3, BegunSame DEF ViewsInv, storeVars, serverVars, followerVars, linkVars
<1>5. Requested'
  BY <1>1, RequestedSame DEF ViewsInv, linkVars, followerVars, serverVars
<1>6. WillKeep'
  BY <1>1, KeepSame DEF ViewsInv, linkVars, serverVars
<1>7. WillFollow'
  BY <1>1, <1>3, QuietShows DEF ViewsInv, linkVars, serverVars, followerVars, storeVars, ForEach
<1>. QED  BY <1>2, <1>4, <1>5, <1>6, <1>7 DEF ViewsInv

LEMMA SyncStep ==
    ASSUME StoreInv', ViewsInv, sync
    PROVE  ViewsInv'
<1>1. UNCHANGED <<storeVars, linkVars, protocol, followerVars, sent, serverVars, trusted>>
  BY DEF sync
<1>2. ViewsTypes'
  BY SyncTypes DEF ViewsInv
<1>3. Known' = Known /\ Current' = Current
  BY <1>1, SameCurrent DEF storeVars, serverVars
<1>4. Begun'
  BY <1>1, <1>3, BegunSame DEF ViewsInv, storeVars, serverVars, followerVars, linkVars
<1>5. Requested'
  BY <1>1, RequestedSame DEF ViewsInv, linkVars, followerVars, serverVars
<1>6. WillKeep'
  BY SyncKeeps DEF ViewsInv
<1>7. WillFollow'
  BY <1>1, <1>3, QuietShows DEF ViewsInv, linkVars, serverVars, followerVars, storeVars, ForEach
<1>. QED  BY <1>2, <1>4, <1>5, <1>6, <1>7 DEF ViewsInv

LEMMA SendStep ==
    ASSUME StoreInv', ViewsInv, sendQueue
    PROVE  ViewsInv'
<1>1. /\ UNCHANGED <<storeVars, linkVars, protocol, followerVars, serverVars>>
      /\ trusted' => trusted
      /\ sent' = [sent EXCEPT ![conn_of[Publisher]] = @ \o sync_queue]
  BY DEF sendQueue
<1>2. ViewsTypes'
  BY SendTypes DEF ViewsInv
<1>3. Known' = Known /\ Current' = Current
  BY <1>1, SameCurrent DEF storeVars, serverVars
<1>4. Begun'
  BY <1>1, <1>3, BegunSame DEF ViewsInv, storeVars, serverVars, followerVars, linkVars
<1>5. Requested'
  <2>1. ASSUME NEW p \in req, conn_of[p] # NoConn PROVE sent'[conn_of[p]] = sent[conn_of[p]]
    <3>1. conn_of[p] # conn_of[Publisher] /\ conn_of[p] \in Conn
      BY <2>1, OwnConnection, Links, Names DEF ViewsInv, ViewsTypes
    <3>. QED  BY <1>1, <3>1 DEF ViewsInv, ViewsTypes
  <2>. QED  BY <1>1, <2>1, RequestedSame DEF ViewsInv, linkVars, followerVars, serverVars
<1>6. WillKeep'
  BY SendKeeps DEF ViewsInv
<1>7. WillFollow'
  BY <1>1, <1>3, QuietShows DEF ViewsInv, linkVars, serverVars, followerVars, storeVars, ForEach
<1>. QED  BY <1>2, <1>4, <1>5, <1>6, <1>7 DEF ViewsInv

LEMMA RequestStep ==
    ASSUME StoreInv', ViewsInv, NEW p \in Client, request(p)
    PROVE  ViewsInv'
<1>1. /\ UNCHANGED <<storeVars, linkVars, protocol, publisherVars, data_recv, entry, serverVars, trusted>>
      /\ p # Publisher /\ req' = req \cup {p} /\ ViewsTypes
      /\ sent' = IF conn_of[p] = NoConn THEN sent ELSE [sent EXCEPT ![conn_of[p]] = Append(@, ReqMsg)]
  BY DEF request, ViewsInv
<1>2. ViewsTypes'
  BY RequestTypes DEF ViewsInv
<1>3. Known' = Known /\ Current' = Current
  BY <1>1, SameCurrent DEF storeVars, serverVars
<1>4. Begun'
  BY <1>1, <1>3, BegunSame DEF ViewsInv, storeVars, serverVars, linkVars
<1>5. \A c \in Conn : conn_of[p] # c => sent'[c] = sent[c]
  BY <1>1
<1>6. Requested'
  <2> SUFFICES ASSUME NEW d \in req', conn_of[d] # NoConn, conn_of[d] \notin data_req
               PROVE  \E i \in DOMAIN sent'[conn_of[d]] : Asks(sent'[conn_of[d]][i])
    BY <1>1, RequestedIs DEF linkVars, serverVars
  <2>0. conn_of[d] \in Conn /\ d \in Client
    BY <1>1, OwnConnection, Links DEF ViewsTypes
  <2>1. CASE d # p
    <3>1. sent'[conn_of[d]] = sent[conn_of[d]]
      BY <1>1, <1>5, <2>0, <2>1, OwnConnection
    <3>. QED  BY <1>1, <2>1, <3>1, RequestedIs DEF ViewsInv
  <2>2. CASE d = p
    <3>1. PICK S : S = MsgFor(conn_of[p])
      OBVIOUS
    <3>2. PICK q \in Seq(S), m \in S : q = sent[conn_of[p]] /\ m = ReqMsg
      <4>1. sent[conn_of[p]] \in Seq(S)
        BY <1>1, <2>0, <2>2, <3>1, TypesAre DEF TypeParts, SentTypes
      <4>2. ReqMsg \in S
        BY <1>1, <2>0, <2>2, <3>1, Links DEF MsgFor, FollowerMsg, ReqMsg, ViewsTypes
      <4>. QED  BY <4>1, <4>2
    <3>3. PICK r \in Seq(S), n \in Nat : r = Append(q, m) /\ n = Len(q) /\ Len(r) = n + 1 /\ r[n + 1] = m
      <4>1. /\ Append(q, m) \in Seq(S) /\ Len(q) \in Nat /\ Len(Append(q, m)) = Len(q) + 1
            /\ Append(q, m)[Len(q) + 1] = m
        BY QueueMore
      <4>. QED  BY <4>1
    <3>4. n + 1 \in DOMAIN r /\ r[n + 1] = ReqMsg
      <4>1. DOMAIN r = 1 .. n + 1
        BY <3>3
      <4>. QED  BY <3>2, <3>3, <4>1
    <3>5. sent'[conn_of[p]] = r
      BY <1>1, <2>0, <2>2, <3>2, <3>3 DEF ViewsTypes
    <3>6. Asks(ReqMsg)
      BY DEF Asks, ReqMsg
    <3>. QED  BY <2>2, <3>4, <3>5, <3>6
  <2>. QED  BY <2>1, <2>2
<1>7. WillKeep'
  <2>1. \A c \in Conn : owner[c] = Publisher => sent'[c] = sent[c]
    BY <1>1, <1>5, OwnConnection
  <2>. QED  BY <1>1, <2>1, KeepSame DEF ViewsInv, linkVars, serverVars, publisherVars
<1>8. WillFollow'
  BY <1>1, <1>3, QuietShows DEF ViewsInv, linkVars, serverVars, storeVars, ForEach
<1>. QED  BY <1>2, <1>4, <1>6, <1>7, <1>8 DEF ViewsInv

LEMMA DisconnectStep ==
    ASSUME StoreInv', ViewsInv, NEW p \in Client, Disconnect(p)
    PROVE  ViewsInv'
<1>1. /\ UNCHANGED <<storeVars, recv_queue, protocol, followerVars, serverVars, trusted>>
      /\ conn_of' = [conn_of EXCEPT ![p] = NoConn] /\ ViewsTypes
      /\ \A c \in Conn : conn_of[p] # c => sent'[c] = sent[c]
  BY DEF Disconnect, disconnect, ViewsInv
<1>2. ViewsTypes'
  BY DisconnectTypes DEF ViewsInv
<1>3. Known' = Known /\ Current' = Current
  BY <1>1, SameCurrent DEF storeVars, serverVars
<1>4. Begun'
  BY <1>1, <1>3, BegunSame DEF ViewsInv, storeVars, serverVars, followerVars
<1>5. \A d \in Client : conn_of'[d] # NoConn => d # p /\ conn_of'[d] = conn_of[d]
  BY <1>1 DEF ViewsTypes, LinkTypeOK
<1>6. Requested'
  <2>1. ASSUME NEW d \in req, conn_of'[d] # NoConn
        PROVE  conn_of'[d] = conn_of[d] /\ sent'[conn_of[d]] = sent[conn_of[d]]
    <3>1. d \in Client
      BY <1>1, OwnConnection
    <3>2. d # p /\ conn_of'[d] = conn_of[d] /\ conn_of[d] # NoConn
      BY <1>5, <2>1, <3>1
    <3>3. conn_of[d] \in Conn /\ conn_of[d] # conn_of[p]
      BY <1>1, <3>1, <3>2, OwnConnection, Links DEF ViewsTypes
    <3>. QED  BY <1>1, <3>2, <3>3
  <2>. QED  BY <1>1, <2>1, RequestedSame DEF ViewsInv, followerVars, serverVars
<1>7. WillKeep'
  BY DisconnectKeeps DEF ViewsInv
<1>8. WillFollow'
  <2>1. ASSUME NEW d \in Client, conn_of'[d] \in ForEach' PROVE conn_of'[d] = conn_of[d] /\ conn_of[d] \in ForEach
    <3>1. conn_of'[d] # NoConn
      BY <1>1, <2>1, ClientAssumption DEF ForEach, storeVars, StoreInv, StoreTypeOK
    <3>. QED  BY <1>1, <1>5, <2>1, <3>1 DEF storeVars, ForEach
  <2>. QED  BY <1>1, <1>3, <2>1, QuietShows DEF ViewsInv, serverVars, followerVars
<1>. QED  BY <1>2, <1>4, <1>6, <1>7, <1>8 DEF ViewsInv

LEMMA RecvStep ==
    ASSUME StoreInv', ViewsInv, NEW p \in Client, Recv(p)
    PROVE  ViewsInv'
<1>1. /\ UNCHANGED <<storeVars, conn_of, protocol, publisherVars, req, sent, serverVars, trusted>>
      /\ recv_queue[p] # <<>> /\ ViewsTypes
      /\ \A d \in Client \ {p} : /\ recv_queue'[d] = recv_queue[d] /\ data_recv'[d] = data_recv[d]
                                 /\ d \in entry' <=> d \in entry
  BY DEF Recv, ViewsInv, ViewsTypes
<1>2. ViewsTypes'
  BY RecvTypes DEF ViewsInv
<1>3. Known' = Known
  BY <1>1, SameCurrent DEF storeVars
<1>4. Begun'
  <2>1. ~Known => p = Publisher
    BY <1>1 DEF ViewsInv, Begun
  <2>. QED  BY <1>1, <1>3, <2>1, BegunSame DEF ViewsInv, storeVars, serverVars
<1>5. Requested'
  BY <1>1, RequestedSame DEF ViewsInv, serverVars
<1>6. WillKeep'
  BY <1>1, KeepSame DEF ViewsInv, serverVars, publisherVars
<1>7. WillFollow'
  BY RecvShows DEF ViewsInv
<1>. QED  BY <1>2, <1>4, <1>5, <1>6, <1>7 DEF ViewsInv

LEMMA ConnectStep ==
    ASSUME StoreInv', ViewsInv, NEW p \in Client, NEW c \in Conn, Connect(p, c)
    PROVE  ViewsInv'
<1>1. /\ UNCHANGED <<clients_by_id, name, sync_init, recv_queue, protocol, followerVars, serverVars, trusted>>
      /\ conn_of' = [conn_of EXCEPT ![p] = c] /\ ViewsTypes /\ conn_of \in [Client -> Conn \cup {NoConn}]
      /\ sent' = [sent EXCEPT ![c] = <<IF p = Publisher THEN sync_first' ELSE FirstMsg(p, NoMsg)>>]
      /\ owner[c] = p /\ conn_of[p] = NoConn /\ clients' = clients \cup {c} /\ member_id[c] = 0
  BY DEF Connect, connect, newClient, ViewsInv, ViewsTypes, LinkTypeOK
<1>2. ViewsTypes'
  BY ConnectTypes DEF ViewsInv
<1>3. Known' = Known /\ Current' = Current
  BY <1>1, SameCurrent DEF serverVars
<1>4. Begun'
  BY <1>1, <1>3, BegunSame DEF ViewsInv, serverVars, followerVars
<1>5. Requested'
  <2> SUFFICES ASSUME NEW d \in req, conn_of'[d] # NoConn, conn_of'[d] \notin data_req
               PROVE  \E i \in DOMAIN sent'[conn_of'[d]] : Asks(sent'[conn_of'[d]][i])
    BY <1>1, RequestedIs DEF followerVars, serverVars
  <2>0. d \in Client /\ d # Publisher
    BY <1>1, OwnConnection
  <2>1. CASE d # p
    <3>1. conn_of'[d] = conn_of[d] /\ sent'[conn_of[d]] = sent[conn_of[d]]
      BY <1>1, <2>0, <2>1, OwnConnection DEF ViewsTypes
    <3>. QED  BY <3>1, RequestedIs DEF ViewsInv
  <2>2. CASE d = p
    <3>1. PICK m : m = FirstMsg(p, NoMsg) /\ Asks(m)
      <4>1. PICK r \in BOOLEAN : r = (p \in req) /\ r
        BY <2>2
      <4>2. [kind |-> "first", req |-> r, msg |-> NoMsg].req
        BY <4>1
      <4>. QED  BY <4>1, <4>2 DEF FirstMsg, Asks
    <3>2. conn_of'[d] = c /\ sent'[c] = <<m>>
      BY <1>1, <2>0, <2>2, <3>1 DEF ViewsTypes
    <3>3. 1 \in DOMAIN <<m>> /\ <<m>>[1] = m
      OBVIOUS
    <3>. QED  BY <3>1, <3>2, <3>3
  <2>. QED  BY <2>1, <2>2
<1>6. WillKeep'
  BY ConnectKeeps DEF ViewsInv
<1>7. WillFollow'
  <2>1. ~sync_init[c]
    BY <1>1 DEF ViewsInv, StoreInv, IdsBelowLast
  <2>2. ASSUME NEW d \in Client, conn_of'[d] \in ForEach' PROVE conn_of'[d] = conn_of[d] /\ conn_of[d] \in ForEach
    <3>1. conn_of'[d] # c /\ conn_of'[d] \in ForEach
      BY <1>1, <2>1, <2>2 DEF ForEach
    <3>. QED  BY <1>1, <3>1
  <2>. QED  BY <1>1, <1>3, <2>2, QuietShows DEF ViewsInv, serverVars, followerVars
<1>. QED  BY <1>2, <1>4, <1>5, <1>6, <1>7 DEF ViewsInv

LEMMA ServeDataStep ==
    ASSUME StoreInv', ViewsInv, NEW c \in Conn, ServeData(c)
    PROVE  ViewsInv'
<1>0. PICK m : m = Head(sent[c])
  OBVIOUS
<1>1. /\ UNCHANGED <<storeVars, conn_of, protocol, publisherVars, followerVars, data_req>>
      /\ Read(c, "data") /\ c \in clients /\ sync_init[c] /\ sent[c] # <<>> /\ m.kind = "data"
      /\ data' = [data EXCEPT ![c] = Serve(@, m.msg).now] /\ sent' = [sent EXCEPT ![c] = Tail(@)]
      /\ (trusted' => trusted) /\ ViewsTypes /\ data \in [Conn -> View \cup {NoView}]
  BY <1>0 DEF ServeData, Read, ViewsInv, ViewsTypes
<1>2. owner[c] = Publisher /\ m.msg # NoMsg
  BY <1>0, <1>1, HeadIs, FromPublisherIs
<1>3. ViewsTypes'
  BY ServeDataTypes DEF ViewsInv
<1>4. Known /\ Known'
  BY <1>1, <1>2, PublisherKnown, SameCurrent DEF ViewsInv, storeVars
<1>5. Begun'
  <2>1. sync_init' = sync_init /\ name' = name /\ \A d \in Conn \ {c} : data'[d] = data[d]
    BY <1>1 DEF storeVars
  <2>2. \A d \in Conn : ~sync_init'[d] => data'[d] = NoView /\ d \notin data_req'
    BY <1>1, <2>1 DEF ViewsInv, Begun
  <2>3. (\A d \in Conn : sync_init[d] => name[d] = OwnName(d))'
    BY <2>1 DEF ViewsInv, Begun, OwnName
  <2>4. \A d \in Conn : owner[d] # Publisher => data'[d] = NoView
    BY <1>2, <2>1 DEF ViewsInv, Begun
  <2>. QED  BY <1>4, <2>2, <2>3, <2>4 DEF Begun
<1>6. Requested'
  <2>1. \A p \in req : conn_of[p] # c
    BY <1>1, <1>2, OwnConnection
  <2>. QED  BY <1>1, <2>1, RequestedRead DEF ViewsInv, followerVars
<1>7. WillKeep'
  <2>1. data' = [data EXCEPT ![c] = Puts(data[c], Head(sent[c]))]
    BY <1>0, <1>1, <1>2 DEF Puts
  <2>. QED  BY <1>1, <1>2, <2>1, KeepRead DEF ViewsInv, publisherVars
<1>8. WillFollow'
  BY ServeDataShows DEF ViewsInv
<1>. QED  BY <1>3, <1>5, <1>6, <1>7, <1>8 DEF ViewsInv

\* One client is sent one batch, if there is anything in it.
LEMMA SentOne ==
    ASSUME ViewsTypes, NEW c \in Conn, NEW b, SendEach([d \in Conn |-> IF d # c THEN <<>> ELSE OneBatch(b)]),
           b = EmptyBatch
    PROVE  \A p \in Client : recv_queue'[p] = recv_queue[p]
<1> SUFFICES ASSUME NEW p \in Client PROVE recv_queue'[p] = recv_queue[p]
  OBVIOUS
<1>1. OneBatch(b) = <<>>
  BY DEF OneBatch
<1>2. recv_queue[p] \o <<>> = recv_queue[p]
  BY ConcatEmptySeq DEF ViewsTypes
<1>3. conn_of[p] = NoConn \/ conn_of[p] \in Conn
  BY DEF ViewsTypes, LinkTypeOK
<1>. QED  BY <1>1, <1>2, <1>3 DEF SendEach

LEMMA ServeReqStep ==
    ASSUME StoreInv', ViewsInv, NEW c \in Conn, ServeReq(c)
    PROVE  ViewsInv'
<1>0. PICK b : b = Batch(FALSE, FALSE, Answered(owner[c]))
  OBVIOUS
<1>1. /\ UNCHANGED <<storeVars, conn_of, protocol, publisherVars, followerVars, data, trusted>>
      /\ Read(c, "req") /\ sync_init[c] /\ data_req' = data_req \cup {c}
      /\ SendEach([d \in Conn |-> IF d # c THEN <<>> ELSE OneBatch(b)])
      /\ sent[c] # <<>> /\ Head(sent[c]).kind = "req" /\ sent' = [sent EXCEPT ![c] = Tail(@)] /\ ViewsTypes /\ KindOK
  BY <1>0, Kinds DEF ServeReq, Read, ViewsInv
<1>2. owner[c] # Publisher
  BY <1>1, HeadIs
<1>3. ViewsTypes'
  BY ServeReqTypes DEF ViewsInv
<1>4. Known' = Known
  BY <1>1, SameCurrent DEF storeVars
<1>5. Begun'
  <2>1. sync_init' = sync_init /\ name' = name /\ data' = data
    BY <1>1 DEF storeVars
  <2>2. \A d \in Conn : ~sync_init'[d] => data'[d] = NoView /\ d \notin data_req'
    BY <1>1, <2>1 DEF ViewsInv, Begun
  <2>3. (\A d \in Conn : sync_init[d] => name[d] = OwnName(d))'
    BY <2>1 DEF ViewsInv, Begun, OwnName
  <2>4. \A d \in Conn : owner[d] # Publisher => data'[d] = NoView
    BY <2>1 DEF ViewsInv, Begun
  <2>5. ASSUME ~Known, NEW p \in Client \ {Publisher}
        PROVE  recv_queue'[p] = <<>> /\ data_recv'[p] = NoView /\ p \notin entry'
    <3>1. b = EmptyBatch
      BY <1>0, <1>1, <2>5, AnsweredIs DEF Current, EmptyBatch
    <3>2. recv_queue'[p] = recv_queue[p]
      BY <1>1, <3>1, SentOne
    <3>. QED  BY <1>1, <2>5, <3>2 DEF followerVars, ViewsInv, Begun
  <2>. QED  BY <1>4, <2>2, <2>3, <2>4, <2>5 DEF Begun
<1>6. Requested'
  BY <1>1, RequestedRead DEF ViewsInv, followerVars
<1>7. WillKeep'
  <2>1. \A d \in Conn : owner[d] = Publisher => data'[d] = data[d] /\ sent'[d] = sent[d]
    BY <1>1, <1>2
  <2>. QED  BY <1>1, <2>1, KeepSame DEF ViewsInv, publisherVars
<1>8. WillFollow'
  BY ServeReqShows DEF ViewsInv
<1>. QED  BY <1>3, <1>5, <1>6, <1>7, <1>8 DEF ViewsInv

LEMMA CloseStep ==
    ASSUME StoreInv', ViewsInv, NEW c \in Conn, Close(c)
    PROVE  ViewsInv'
<1>1. /\ UNCHANGED <<conn_of, recv_queue, protocol, publisherVars, followerVars, sent, serverVars, trusted>>
      /\ removeClient(c) /\ name' = name /\ sync_init' = sync_init /\ clients' = clients \ {c} /\ ViewsTypes
  BY DEF Close, onClose, removeClient, ViewsInv
<1>2. ViewsTypes'
  BY CloseTypes DEF ViewsInv
<1>3. Known' = Known /\ Current' = Current
  <2>1. /\ FoundName(PublisherName)' = FoundName(PublisherName)
        /\ FoundName(PublisherName) # {} => EntryOf(PublisherName)' = EntryOf(PublisherName)
    BY <1>1, Names, RemovedEntry DEF ViewsInv
  <2>2. PublisherName' = PublisherName
    BY DEF PublisherName
  <2>. QED  BY <1>1, <2>1, <2>2 DEF Known, Current, serverVars
<1>4. Begun'
  BY <1>1, <1>3, BegunSame DEF ViewsInv, serverVars, followerVars
<1>5. Requested'
  BY <1>1, RequestedSame DEF ViewsInv, followerVars, serverVars
<1>6. WillKeep'
  BY <1>1, KeepSame DEF ViewsInv, serverVars, publisherVars
<1>7. WillFollow'
  <2>1. ForEach' \subseteq ForEach
    BY <1>1 DEF ForEach
  <2>. QED  BY <1>1, <1>3, <2>1, QuietShows DEF ViewsInv, serverVars, followerVars
<1>. QED  BY <1>2, <1>4, <1>5, <1>6, <1>7 DEF ViewsInv

\* The first message of a connection, which files the client under its name.
LEMMA SyncInitBegins ==
    ASSUME StoreInv, StoreInv', ViewsTypes, Begun, NEW c \in Conn, SyncInit(c)
    PROVE  Begun'
<1>0. PICK m : m = Head(sent[c])
  OBVIOUS
<1>1. /\ UNCHANGED <<conn_of, protocol, publisherVars, followerVars>>
      /\ sent[c] # <<>> /\ m.kind = "first"
      /\ data_req' = IF m.req THEN data_req \cup {c} ELSE data_req
      /\ data' = IF m.msg = NoMsg THEN data ELSE [data EXCEPT ![c] = Serve(@, m.msg).now]
      /\ KindOK
  BY <1>0, Kinds DEF SyncInit, Read, syncInit
<1>2. owner[c] # Publisher => m.msg = NoMsg
  BY <1>0, <1>1, HeadIs
<1>3. PICK id \in AssignableId(c, OwnName(c)) : registerClient(c, OwnName(c), id)
  BY DEF SyncInit, syncInit
<1>4. /\ name' = [name EXCEPT ![c] = OwnName(c)] /\ sync_init' = [sync_init EXCEPT ![c] = TRUE]
      /\ name \in [Conn -> MName] /\ sync_init \in [Conn -> BOOLEAN] /\ data \in [Conn -> View \cup {NoView}]
      /\ PublisherName' = PublisherName
  BY <1>3 DEF registerClient, StoreInv, StoreTypeOK, ViewsTypes, PublisherName
<1>5. \A d \in Conn : ~sync_init'[d] => data'[d] = NoView /\ d \notin data_req'
  BY <1>1, <1>4 DEF Begun
<1>6. (\A d \in Conn : sync_init[d] => name[d] = OwnName(d))'
  <2> SUFFICES ASSUME NEW d \in Conn, sync_init'[d] PROVE name'[d] = OwnName(d)
    BY DEF OwnName
  <2>. QED  BY <1>4 DEF Begun
<1>7. \A d \in Conn : owner[d] # Publisher => data'[d] = NoView
  <2> SUFFICES ASSUME NEW d \in Conn, owner[d] # Publisher PROVE data'[d] = NoView
    OBVIOUS
  <2>1. data'[d] = data[d]
    BY <1>1, <1>2
  <2>. QED  BY <2>1 DEF Begun
<1>8. ASSUME ~Known', NEW p \in Client \ {Publisher}
      PROVE  recv_queue'[p] = <<>> /\ data_recv'[p] = NoView /\ p \notin entry'
  <2>1. owner[c] # Publisher
    <3>1. owner[c] = Publisher => FoundName(PublisherName)' # {}
      BY <1>3, Names, RegisteredEntry
    <3>. QED  BY <1>4, <1>8, <3>1 DEF Known
  <2>2. ~Known
    <3>1. FoundName(PublisherName)' = FoundName(PublisherName)
      BY <1>3, <2>1, Names, RegisteredEntry
    <3>. QED  BY <1>4, <1>8, <3>1 DEF Known
  <2>3. PICK b : b = Batch(Known, Current # NoView, IF m.req THEN Answered(owner[c]) ELSE NoMsg)
    OBVIOUS
  <2>4. b = EmptyBatch
    <3>1. Current = NoView
      BY <2>2 DEF Current
    <3>2. Answered(owner[c]) = NoMsg
      BY <1>1, <3>1, AnsweredIs
    <3>3. PICK k \in BOOLEAN, e \in BOOLEAN : k = Known /\ e = (Current # NoView)
      BY DEF Known
    <3>4. k = FALSE /\ e = FALSE
      BY <2>2, <3>1, <3>3
    <3>5. b = Batch(k, e, NoMsg)
      BY <2>3, <3>2, <3>3
    <3>. QED  BY <3>4, <3>5 DEF EmptyBatch
  <2>5. SendEach([d \in Conn |-> IF d # c THEN <<>> ELSE OneBatch(b)])
    BY <1>0, <2>1, <2>3 DEF SyncInit
  <2>6. recv_queue'[p] = recv_queue[p]
    BY <2>4, <2>5, SentOne
  <2>. QED  BY <1>1, <2>2, <2>6 DEF followerVars, Begun
<1>. QED  BY <1>5, <1>6, <1>7, <1>8 DEF Begun

LEMMA SyncInitStep ==
    ASSUME StoreInv', ViewsInv, NEW c \in Conn, SyncInit(c)
    PROVE  ViewsInv'
<1>0. PICK m : m = Head(sent[c])
  OBVIOUS
<1>1. /\ UNCHANGED <<conn_of, protocol, publisherVars, followerVars>>
      /\ Read(c, "first") /\ sent[c] # <<>> /\ m.kind = "first" /\ sent' = [sent EXCEPT ![c] = Tail(@)]
      /\ data_req' = IF m.req THEN data_req \cup {c} ELSE data_req
      /\ data' = IF m.msg = NoMsg THEN data ELSE [data EXCEPT ![c] = Serve(@, m.msg).now]
      /\ trusted' => trusted
      /\ ViewsTypes /\ data \in [Conn -> View \cup {NoView}]
  BY <1>0 DEF SyncInit, Read, syncInit, ViewsInv, ViewsTypes
<1>2. owner[c] # Publisher => m.msg = NoMsg
  BY <1>0, <1>1, HeadIs
<1>3. ViewsTypes'
  BY SyncInitTypes DEF ViewsInv
<1>4. Begun'
  BY SyncInitBegins DEF ViewsInv
<1>5. Requested'
  <2>1. Asks(m) => c \in data_req'
    BY <1>1 DEF Asks
  <2>. QED  BY <1>0, <1>1, <2>1, RequestedRead DEF ViewsInv, followerVars
<1>6. WillKeep'
  <2>1. CASE owner[c] # Publisher
    <3>1. \A d \in Conn : owner[d] = Publisher => data'[d] = data[d] /\ sent'[d] = sent[d]
      BY <1>1, <1>2, <2>1
    <3>. QED  BY <1>1, <3>1, KeepSame DEF ViewsInv, publisherVars
  <2>2. CASE owner[c] = Publisher
    <3>1. data' = [data EXCEPT ![c] = Puts(data[c], Head(sent[c]))]
      BY <1>0, <1>1 DEF Puts
    <3>. QED  BY <1>1, <2>2, <3>1, KeepRead DEF ViewsInv, publisherVars
  <2>. QED  BY <2>1, <2>2
<1>7. WillFollow'
  BY FirstFollowerShows, FirstPublisherShows DEF ViewsInv
<1>. QED  BY <1>3, <1>4, <1>5, <1>6, <1>7 DEF ViewsInv

LEMMA ViewsInvFirst == ViewsInit => ViewsInv
<1> SUFFICES ASSUME ViewsInit PROVE ViewsInv
  OBVIOUS
<1>1. /\ StoreInit /\ conn_of = [p \in Client |-> NoConn] /\ recv_queue = [p \in Client |-> <<>>]
      /\ data_send = <<>> /\ recv_self = NoView /\ data_send_prev = NoView
      /\ sync_first = NoFirst /\ sync_queue = <<>>
      /\ sent = [c \in Conn |-> <<>>] /\ data = [c \in Conn |-> NoView] /\ data_req = {}
      /\ req = {} /\ data_recv = [p \in Client |-> NoView] /\ entry = {}
      /\ shown = <<>> /\ leftover = 0 /\ trusted = TRUE
  BY DEF ViewsInit, LinkInit
<1>2. StoreInv
  BY <1>1, InitStoreInv
<1>3. <<kind, old>> \in Protocols
  <2>1. PICK pr \in Protocols : kind = pr[1] /\ old = pr[2]
    BY DEF ViewsInit
  <2>2. pr = <<pr[1], pr[2]>>
    BY ViewAssumption
  <2>. QED  BY <2>1, <2>2
<1>4. ViewsTypes
  <2>1. PublisherTypes
    BY <1>1 DEF PublisherTypes
  <2>2. ConnTypes
    BY <1>1, <1>2, Names DEF ConnTypes, LinkTypeOK, StoreInv
  <2>3. SentTypes /\ DataTypes /\ QueueTypes /\ FollowerTypes
    BY <1>1 DEF SentTypes, DataTypes, QueueTypes, FollowerTypes
  <2>. QED  BY <1>3, <2>1, <2>2, <2>3, TypesAre DEF TypeParts
<1>5. ~Known /\ Current = NoView
  BY <1>1 DEF StoreInit, Known, Current, FoundName, SameName
<1>6. Begun
  BY <1>1, <1>5 DEF StoreInit, Begun
<1>7. Requested
  BY <1>1 DEF Requested
<1>8. WillKeep
  <2>1. \E s : Wholly(NoView, <<>>, s)
    BY WhollyNothing
  <2>. QED  BY <1>1, <2>1, Names DEF WillKeep
<1>9. WillFollow
  <2> SUFFICES ASSUME NEW p \in Client \ {Publisher} PROVE WillShow(p)
    BY DEF WillFollow
  <2>1. PICK s : Follows(p, Has(p), <<>>, s)
    BY FollowsNothing
  <2>2. conn_of[p] \notin ForEach /\ recv_queue[p] = <<>>
    BY <1>1 DEF StoreInit, ForEach
  <2>. QED  BY <2>1, <2>2 DEF WillShow
<1>. QED  BY <1>2, <1>4, <1>6, <1>7, <1>8, <1>9 DEF ViewsInv

LEMMA ViewsInvNext == ViewsInv /\ [ViewsNext]_viewsVars => ViewsInv'
<1> SUFFICES ASSUME ViewsInv, [ViewsNext]_viewsVars PROVE ViewsInv'
  OBVIOUS
<1>0. StoreInv'
  BY ViewsStoreStep, NextStoreInv DEF ViewsInv
<1>1. CASE ViewsNext
  <2>1. ASSUME NEW d \in Drawing, draw(d) PROVE ViewsInv'
    BY <1>0, <2>1, DrawStep
  <2>2. CASE sync
    BY <1>0, <2>2, SyncStep
  <2>3. CASE sendQueue
    BY <1>0, <2>3, SendStep
  <2>4. ASSUME NEW p \in Client, request(p) \/ Disconnect(p) \/ Recv(p) PROVE ViewsInv'
    BY <1>0, <2>4, RequestStep, DisconnectStep, RecvStep
  <2>5. ASSUME NEW p \in Client, NEW c \in Conn, Connect(p, c) PROVE ViewsInv'
    BY <1>0, <2>5, ConnectStep
  <2>6. ASSUME NEW c \in Conn, SyncInit(c) \/ ServeData(c) \/ ServeReq(c) \/ Close(c) PROVE ViewsInv'
    BY <1>0, <2>6, SyncInitStep, ServeDataStep, ServeReqStep, CloseStep
  <2>. QED  BY <1>1, <2>1, <2>2, <2>3, <2>4, <2>5, <2>6 DEF ViewsNext
<1>2. CASE UNCHANGED viewsVars
  <2>1. UNCHANGED <<storeVars, linkVars, protocol, publisherVars, followerVars, sent, serverVars, trusted>>
    BY <1>2 DEF viewsVars
  <2>2. ViewsTypes /\ ViewsTypes'
    <3>1. ConnTypes'
      BY <1>0, <2>1, ConnSame, TypesAre DEF ViewsInv, TypeParts, ConnTypes, linkVars, publisherVars, serverVars
    <3>. QED  BY <2>1, <3>1, TypesSame, TypesAre DEF ViewsInv, TypeParts, linkVars, serverVars
  <2>3. Known' = Known /\ Current' = Current
    BY <2>1, SameCurrent DEF storeVars, serverVars
  <2>4. Begun'
    BY <2>1, <2>3, BegunSame DEF ViewsInv, storeVars, serverVars, followerVars, linkVars
  <2>5. Requested'
    BY <2>1, RequestedSame DEF ViewsInv, linkVars, followerVars, serverVars
  <2>6. WillKeep'
    BY <2>1, KeepSame DEF ViewsInv, linkVars, serverVars, publisherVars
  <2>7. WillFollow'
    BY <2>1, <2>3, QuietShows DEF ViewsInv, linkVars, serverVars, followerVars, storeVars, ForEach
  <2>. QED  BY <1>0, <2>2, <2>4, <2>5, <2>6, <2>7 DEF ViewsInv
<1>. QED  BY <1>1, <1>2

\* Whatever connects, reconnects, requests or shows something: the messages on their way to
\* the server are whole differences that bring it what the publisher has, and the batches on
\* their way to a follower bring it what the server has (WillKeep, WillFollow).
THEOREM ViewsConsistent == ViewsSpec => []ViewsInv
BY ViewsInvFirst, ViewsInvNext, PTL DEF ViewsSpec

LEMMA KeptFollows == ViewsInv => Kept
<1> SUFFICES ASSUME ViewsInv, trusted, Publisher \notin old, Settled(Publisher), sync_queue = <<>>
             PROVE  Seen(data[conn_of[Publisher]]) = Seen(recv_self)
  BY DEF Kept
<1>1. PICK c \in Conn : /\ c = conn_of[Publisher] /\ c # NoConn /\ sent[c] = <<>>
  <2>1. conn_of[Publisher] \in Conn
    BY DEF Settled, ViewsInv, StoreInv, StoreTypeOK
  <2>. QED  BY <2>1, ClientAssumption DEF Settled
<1>2. Rest = <<>>
  <2>1. leftover = 0
    BY DEF ViewsInv, ViewsTypes
  <2>. QED  BY <2>1, RestIs DEF ViewsInv
<1>3. Brings(data[c], <<>>)
  <2>1. <<>> \o <<>> = <<>>
    OBVIOUS
  <2>2. Brings(data[c], sent[c] \o Rest)
    BY <1>1 DEF ViewsInv, WillKeep
  <2>. QED  BY <1>1, <1>2, <2>1, <2>2
<1>4. PICK s : Wholly(data[c], <<>>, s) /\ Carries(s[Len(<<>>)], recv_self)
  BY <1>3 DEF Brings
<1>5. s[0] = data[c] /\ Len(<<>>) = 0
  BY <1>4 DEF Wholly, Becomes
<1>6. data[c] \in View \cup {NoView} /\ recv_self \in WholeView \cup {NoView}
  BY DEF ViewsInv, ViewsTypes
<1>. QED  BY <1>1, <1>4, <1>5, <1>6, CarriesSeen

LEMMA FollowedFollows == ViewsInv => Followed
<1> SUFFICES ASSUME ViewsInv, NEW p \in Client \ {Publisher}, trusted, Settled(p),
                    Publisher \in old => p \notin old
             PROVE  /\ p \in req => Seen(data_recv[p]) = Seen(Current)
                    /\ p \in entry <=> Current # NoView
  BY DEF Followed
<1>1. conn_of[p] \in ForEach /\ conn_of[p] # NoConn /\ sent[conn_of[p]] = <<>> /\ recv_queue[p] = <<>>
  BY ClientAssumption DEF Settled, ForEach, ViewsInv, StoreInv, StoreTypeOK
<1>2. PICK s : Follows(p, Has(p), <<>>, s) /\ UpToDate(p, s[Len(<<>>)])
  BY <1>1 DEF ViewsInv, WillFollow, WillShow
<1>3. s[Len(<<>>)] = Has(p)
  BY <1>2 DEF Follows
<1>4. UpToDate(p, Has(p))
  BY <1>2, <1>3
<1>5. Has(p).view = data_recv[p] /\ (Has(p).entry <=> p \in entry)
  BY DEF Has
<1>6. Current \in View \cup {NoView}
  BY CurrentType DEF ViewsInv
<1>7. ASSUME p \in req PROVE Seen(data_recv[p]) = Seen(Current)
  <2>1. conn_of[p] \in data_req
    BY <1>1, <1>7 DEF ViewsInv, Requested
  <2>2. Copies(p, data_recv[p], Current)
    BY <1>4, <1>5, <2>1 DEF UpToDate
  <2>. QED  BY <1>6, <2>2, CopiesSeen
<1>. QED  BY <1>4, <1>5, <1>7 DEF UpToDate

\* The server puts the differences together to what the publisher has last shown, and every
\* follower shows what the server has, in either protocol, when the messages on their way have
\* been handled.
THEOREM ViewsFollowed == ViewsSpec => []ViewsAgree
<1>1. ViewsInv => ViewsAgree
  BY KeptFollows, FollowedFollows DEF ViewsAgree
<1>. QED  BY <1>1, ViewsConsistent, PTL
=============================================================================
