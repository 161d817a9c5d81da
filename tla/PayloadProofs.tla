---------------------------- MODULE PayloadProofs ----------------------------
(***************************************************************************)
(* A reader finds every push where the builder put it, and its drop leaves *)
(* no object behind: for every mix of objects and every number of pushes.  *)
(***************************************************************************)
EXTENDS Payload, TLAPS, SequenceTheorems, FiniteSetTheorems,
        NaturalsInduction, WellFoundedInduction

Kinds == {"binder", "gone", "fd", "fd_array", "buffer"}
Entries == [what : Kinds \cup {"bytes"}, at : Nat, len : Nat]

\* The shape of the state, with what TypeOK leaves to the builder.
ShapeInv ==
  /\ TypeOK
  /\ layout \in Seq(Entries)
  /\ objects \in Seq(Entries)
  /\ next_offset_index \in Nat
  /\ taken \in Seq(Nat)
  /\ IsFiniteSet(lost)
  /\ echo \in [objects : Seq(Entries), len : Nat]

\* Where the i-th push ends; the one before the first ends at zero.
PushEnd(i) == IF i = 0 THEN 0 ELSE layout[i].at + layout[i].len

\* Where an entry lies that is pushed behind n units.
PlaceOf(what, n) == IF what = "bytes" THEN n ELSE Aligned(n)

\* The pushes lie behind each other, each right behind the one before it, and fill the
\* data.
LayoutInv ==
  /\ \A i \in 1..Len(layout) :
       /\ layout[i].at = PlaceOf(layout[i].what, PushEnd(i - 1))
       /\ layout[i].what # "bytes" => layout[i].len = ObjectSize[layout[i].what]
       /\ layout[i].len > 0
       /\ PushEnd(i) <= data_len
  /\ \A i, j \in 1..Len(layout) : i < j => PushEnd(i) <= layout[j].at
  /\ data_len = PushEnd(Len(layout))

\* The objects are those of the layout, in the order of their places.
ObjectsInv ==
  /\ \A n \in 1..Len(objects) :
       \E i \in 1..Len(layout) : layout[i].what # "bytes" /\ objects[n] = layout[i]
  /\ \A i \in 1..Len(layout) : layout[i].what # "bytes" =>
       \E n \in 1..Len(objects) : objects[n] = layout[i]
  /\ \A n, m \in 1..Len(objects) : n < m => objects[n].at + objects[n].len <= objects[m].at

\* Nothing is read of a payload that is being built.
BuildingInv ==
  phase = "building" =>
    /\ next_offset_index = 0 /\ next_data_index = 0 /\ followed = 0
    /\ taken = <<>> /\ lost = {}

\* A reader that mirrors the pushes is where the last of them ends, and past just the
\* objects before that.
MirrorInv ==
  phase = "reading" /\ followed >= 0 =>
    /\ next_data_index = PushEnd(followed)
    /\ \A n \in 1..Len(objects) : n <= next_offset_index <=> objects[n].at < next_data_index

\* Each object that the reader is past was handed out or drained, once.
TakenInv ==
  /\ Range(taken) \cup lost = 1..next_offset_index
  /\ Len(taken) + Cardinality(lost) = next_offset_index
  /\ phase = "freed" => next_offset_index = Len(objects)

\* Where the object after the first n starts; after the last one, the data ends.
NextPlace(n) == IF n < Len(objects) THEN objects[n + 1].at ELSE data_len

\* The reply of bench's handler is the message up to the object that comes next.
EchoInv ==
  /\ phase \in {"building", "reading"} => echo = [objects |-> <<>>, len |-> 0]
  /\ phase = "echoing" =>
       /\ IsMessage
       /\ echo.len = NextPlace(next_offset_index)
       /\ Len(echo.objects) = next_offset_index
       /\ \A n \in 1..next_offset_index : echo.objects[n] = objects[n]
  /\ phase \in {"scanning", "scanned"} /\ objects = <<>> =>
       /\ echo = [objects |-> <<>>, len |-> next_data_index]
       /\ phase = "scanned" => next_data_index = data_len
  /\ EchoFaithful

IInv ==
  /\ ShapeInv
  /\ LayoutInv
  /\ ObjectsInv
  /\ BuildingInv
  /\ MirrorInv
  /\ TakenInv
  /\ EchoInv
-----------------------------------------------------------------------------
(* Arithmetic of the layout.                                               *)

\* A set of numbers has a minimum.
LEMMA MinType ==
  ASSUME NEW S \in SUBSET Nat, S # {}
  PROVE  Min(S) \in S /\ \A k \in S : Min(S) <= k
<1>1. PICK m \in S : \A k \in S : <<k, m>> \notin OpToRel(<, Nat)
  BY WFMin, NatLessThanWellFounded, Zenon
<1>2. \A k \in S : ~(k < m)
  BY <1>1, Zenon DEF OpToRel
<1>3. \A k \in S : m =< k
  BY <1>2
<1>4. QED
  BY <1>3 DEF Min

\* Padding adds what is wanting, and nothing to what is aligned.
LEMMA AlignedEven ==
  ASSUME NEW n \in Nat
  PROVE  /\ Aligned(n) \in Nat
         /\ n <= Aligned(n)
         /\ Aligned(n) % 2 = 0
         /\ n % 2 = 0 => Aligned(n) = n
BY DEF Aligned

\* The structs are not empty and keep the alignment.
LEMMA SizesEven ==
  ASSUME NEW k \in Kinds
  PROVE  /\ ObjectSize[k] \in Nat
         /\ ObjectSize[k] > 0
         /\ ObjectSize[k] % 2 = 0
<1>1. k = "binder" \/ k = "gone" \/ k = "fd" \/ k = "fd_array" \/ k = "buffer"
  BY DEF Kinds
<1>2. QED
  BY <1>1 DEF ObjectSize

LEMMA KindsOfObjects == ObjectKinds \subseteq Kinds
BY KindsAssumption DEF ObjectSize, Kinds

\* An object behind n units of data.
LEMMA PlacedShape ==
  ASSUME NEW k \in Kinds, NEW n \in Nat
  PROVE  /\ Placed(k, n) \in Entries
         /\ Placed(k, n).what = k
         /\ Placed(k, n).at = Aligned(n)
         /\ Placed(k, n).len = ObjectSize[k]
         /\ k # "bytes"
BY AlignedEven, SizesEven DEF Placed, Entries, Kinds

\* Two aligned places add up to one.
LEMMA EvenSum ==
  ASSUME NEW a \in Nat, NEW b \in Nat, a % 2 = 0, b % 2 = 0
  PROVE  (a + b) % 2 = 0
OBVIOUS
-----------------------------------------------------------------------------
(* Where objects lie.                                                      *)

LEMMA EntryTypes ==
  ASSUME ShapeInv
  PROVE  /\ Len(layout) \in Nat /\ Len(objects) \in Nat
         /\ \A i \in 1..Len(layout) : layout[i] \in Entries
         /\ \A n \in 1..Len(objects) : objects[n] \in Entries
<1>1. layout \in Seq(Entries) /\ objects \in Seq(Entries)
  BY DEF ShapeInv
<1>2. QED
  BY <1>1, ElementOfSeq

LEMMA PushEndType ==
  ASSUME ShapeInv, NEW i \in 0..Len(layout)
  PROVE  PushEnd(i) \in Nat
<1>1. CASE i = 0
  BY <1>1 DEF PushEnd
<1>2. CASE i # 0
  <2>1. i \in 1..Len(layout)
    BY <1>2, EntryTypes
  <2>2. layout[i].at \in Nat /\ layout[i].len \in Nat
    BY <2>1, EntryTypes DEF Entries
  <2>3. QED
    BY <1>2, <2>2 DEF PushEnd
<1>3. QED
  BY <1>1, <1>2

\* Objects are aligned and inside the data, and keep to their places.
LEMMA ObjectPlaces ==
  ASSUME ShapeInv, LayoutInv, ObjectsInv, NEW n \in 1..Len(objects)
  PROVE  /\ objects[n] \in Entries
         /\ objects[n].what \in Kinds
         /\ objects[n].len = ObjectSize[objects[n].what]
         /\ objects[n].len > 0
         /\ objects[n].at % 2 = 0
         /\ (objects[n].at + objects[n].len) % 2 = 0
         /\ objects[n].at + objects[n].len <= data_len
<1>1. objects[n] \in Entries /\ objects[n].at \in Nat /\ objects[n].len \in Nat
  BY EntryTypes DEF Entries
<1>2. PICK i \in 1..Len(layout) : layout[i].what # "bytes" /\ objects[n] = layout[i]
  BY DEF ObjectsInv
<1>3. objects[n].what \in Kinds
  BY <1>1, <1>2 DEF Entries
<1>4. objects[n].len = ObjectSize[objects[n].what] /\ objects[n].len > 0
      /\ PushEnd(i) <= data_len
  BY <1>2 DEF LayoutInv
<1>5. PushEnd(i) = objects[n].at + objects[n].len
  BY <1>2 DEF PushEnd
<1>6. objects[n].at = Aligned(PushEnd(i - 1))
  BY <1>2 DEF LayoutInv, PlaceOf
<1>7. i - 1 \in 0..Len(layout)
  BY DEF ShapeInv
<1>8. PushEnd(i - 1) \in Nat
  BY <1>7, PushEndType
<1>9. objects[n].at % 2 = 0
  BY <1>6, <1>8, AlignedEven
<1>10. (objects[n].at + objects[n].len) % 2 = 0
  BY <1>1, <1>3, <1>4, <1>9, SizesEven, EvenSum
<1>11. QED
  BY <1>1, <1>3, <1>4, <1>5, <1>9, <1>10

\* An object ends before the next one starts.
LEMMA ObjectsApart ==
  ASSUME ShapeInv, LayoutInv, ObjectsInv, NEW n \in 1..Len(objects)
  PROVE  /\ NextPlace(n) \in Nat
         /\ NextPlace(n) <= data_len
         /\ objects[n].at + objects[n].len <= NextPlace(n)
<1>1. data_len \in Nat /\ Len(objects) \in Nat
  BY DEF ShapeInv, TypeOK
<1>2. CASE n = Len(objects)
  BY <1>1, <1>2, ObjectPlaces DEF NextPlace
<1>3. CASE n < Len(objects)
  <2>1. n + 1 \in 1..Len(objects) /\ n < n + 1
    BY <1>1, <1>3
  <2>2. objects[n + 1].at \in Nat /\ objects[n + 1].len \in Nat
        /\ objects[n + 1].at + objects[n + 1].len <= data_len
    BY <2>1, ObjectPlaces DEF Entries
  <2>3. objects[n].at + objects[n].len <= objects[n + 1].at
    BY <2>1 DEF ObjectsInv
  <2>4. QED
    BY <1>1, <1>3, <2>2, <2>3 DEF NextPlace
<1>4. QED
  BY <1>1, <1>2, <1>3

LEMMA DisjointObjects ==
  ASSUME ShapeInv, LayoutInv, ObjectsInv
  PROVE  ObjectsDisjoint
BY ObjectPlaces, ObjectsApart DEF ObjectsDisjoint, NextPlace

\* A later object starts later, and an object that starts later is a later one.
LEMMA ObjectsSorted ==
  ASSUME ShapeInv, LayoutInv, ObjectsInv,
         NEW n \in 1..Len(objects), NEW m \in 1..Len(objects)
  PROVE  n < m <=> objects[n].at < objects[m].at
<1>1. /\ objects[n].at \in Nat /\ objects[n].len \in Nat /\ objects[n].len > 0
      /\ objects[m].at \in Nat /\ objects[m].len \in Nat /\ objects[m].len > 0
  BY ObjectPlaces DEF Entries
<1>2. n < m => objects[n].at + objects[n].len <= objects[m].at
  BY DEF ObjectsInv
<1>3. m < n => objects[m].at + objects[m].len <= objects[n].at
  BY DEF ObjectsInv
<1>4. n = m => objects[n].at = objects[m].at
  OBVIOUS
<1>5. n \in Nat /\ m \in Nat
  BY DEF ShapeInv
<1>6. QED
  BY <1>1, <1>2, <1>3, <1>4, <1>5

\* What lies in front of the cursor: the bytes up to the next object, or to the end.
LEMMA BytesAhead ==
  ASSUME ShapeInv, LayoutInv, ObjectsInv
  PROVE  /\ BytesUntilNextObj \in Nat
         /\ objects = <<>> => BytesUntilNextObj = data_len - next_data_index
         /\ objects # <<>> /\ next_data_index < objects[1].at =>
              BytesUntilNextObj = objects[1].at - next_data_index
<1> DEFINE past == OffsetsPast(next_data_index)
<1>1. next_data_index \in Nat /\ data_len \in Nat /\ next_data_index <= data_len
      /\ Len(objects) \in Nat
  BY DEF ShapeInv, TypeOK
<1>2. past \in SUBSET Nat /\ \A q \in past : q > next_data_index
  BY ObjectPlaces DEF OffsetsPast, Entries
<1>3. past # {} => Min(past) \in past /\ \A q \in past : Min(past) <= q
  BY <1>2, MinType
<1>4. BytesUntilNextObj \in Nat
  BY <1>1, <1>2, <1>3 DEF BytesUntilNextObj
<1>5. ASSUME objects = <<>>
      PROVE  BytesUntilNextObj = data_len - next_data_index
  BY <1>5 DEF BytesUntilNextObj, OffsetsPast
<1>6. ASSUME objects # <<>>, next_data_index < objects[1].at
      PROVE  BytesUntilNextObj = objects[1].at - next_data_index
  <2>1. 1 \in 1..Len(objects)
    BY <1>1, <1>6, EmptySeq DEF ShapeInv
  <2>2. objects[1].at \in past /\ objects[1].at \in Nat
    BY <1>6, <2>1, ObjectPlaces DEF OffsetsPast, Entries
  <2>3. \A q \in past : objects[1].at <= q
    <3>1. SUFFICES ASSUME NEW i \in 1..Len(objects)
                   PROVE  objects[1].at <= objects[i].at
      BY DEF OffsetsPast
    <3>2. objects[i].at \in Nat
      BY ObjectPlaces DEF Entries
    <3>3. QED
      BY <1>1, <2>1, <2>2, <3>2, ObjectsSorted
  <2>4. Min(past) = objects[1].at
    BY <1>2, <1>3, <2>2, <2>3
  <2>5. QED
    BY <2>2, <2>4 DEF BytesUntilNextObj
<1>7. QED
  BY <1>4, <1>5, <1>6
-----------------------------------------------------------------------------
(* The builder.                                                            *)

LEMMA InitIInv == Init => IInv
<1> SUFFICES ASSUME Init PROVE IInv
  OBVIOUS
<1> USE DEF Init
<1>1. Len(layout) = 0 /\ Len(objects) = 0 /\ Len(taken) = 0 /\ Range(taken) = {}
  BY DEF Range
<1>2. IsFiniteSet(lost) /\ Cardinality(lost) = 0
  BY FS_EmptySet
<1>3. ShapeInv
  <2>1. TypeOK
    BY <1>1, PushAssumption DEF TypeOK
  <2>2. echo \in [objects : Seq(Entries), len : Nat]
    OBVIOUS
  <2>3. QED
    BY <1>2, <2>1, <2>2 DEF ShapeInv
<1>4. LayoutInv /\ ObjectsInv
  BY <1>1 DEF LayoutInv, ObjectsInv, PushEnd
<1>5. BuildingInv /\ MirrorInv /\ TakenInv /\ EchoInv
  BY <1>1, <1>2 DEF BuildingInv, MirrorInv, TakenInv, EchoInv, EchoFaithful
<1>6. QED
  BY <1>3, <1>4, <1>5 DEF IInv

\* A push goes behind all others, and no push and no object moves.
LEMMA PushIInv ==
  ASSUME IInv, phase = "building", Len(layout) < MaxPushes,
         NEW e \in Entries, e.len > 0, e.at = PlaceOf(e.what, data_len),
         e.what # "bytes" => e.len = ObjectSize[e.what],
         layout' = Append(layout, e),
         data_len' = e.at + e.len,
         objects' = IF e.what = "bytes" THEN objects ELSE Append(objects, e),
         UNCHANGED <<phase, reader_vars, echo>>
  PROVE  IInv'
<1> USE DEF reader_vars
<1>a. PICK last : last = Len(layout)
  OBVIOUS
<1>b. PICK count : count = Len(objects)
  OBVIOUS
<1> USE <1>a, <1>b
<1>1. /\ ShapeInv /\ LayoutInv /\ ObjectsInv /\ last \in Nat /\ count \in Nat
      /\ data_len \in Nat /\ layout \in Seq(Entries) /\ objects \in Seq(Entries)
  BY EntryTypes DEF IInv, ShapeInv, TypeOK
<1>2. /\ e.at \in Nat /\ e.len \in Nat /\ data_len <= e.at /\ data_len' \in Nat
      /\ data_len <= data_len'
  <2>1. e.at \in Nat /\ e.len \in Nat
    BY DEF Entries
  <2>2. data_len <= PlaceOf(e.what, data_len)
    BY <1>1, AlignedEven DEF PlaceOf
  <2>3. QED
    BY <1>1, <2>1, <2>2
<1>3. /\ layout' \in Seq(Entries) /\ Len(layout') = last + 1
      /\ \A i \in 1..last : layout'[i] = layout[i]
      /\ layout'[last + 1] = e
  BY <1>1, AppendProperties
<1>4. /\ objects' \in Seq(Entries) /\ count <= Len(objects')
      /\ Len(objects') = IF e.what = "bytes" THEN count ELSE count + 1
      /\ \A n \in 1..count : objects'[n] = objects[n]
      /\ e.what # "bytes" => objects'[count + 1] = e
  BY <1>1, AppendProperties
<1>5. /\ \A i \in 0..last : PushEnd(i)' = PushEnd(i) /\ PushEnd(i) \in Nat
      /\ PushEnd(last + 1)' = e.at + e.len
  <2>1. \A i \in 0..last : i = 0 \/ i \in 1..last
    BY <1>1
  <2>2. ASSUME NEW i \in 0..last
        PROVE  PushEnd(i)' = PushEnd(i) /\ PushEnd(i) \in Nat
    BY <1>1, <1>3, <2>1, PushEndType DEF PushEnd
  <2>3. last + 1 # 0
    BY <1>1
  <2>4. PushEnd(last + 1)' = layout'[last + 1].at + layout'[last + 1].len
    BY <2>3 DEF PushEnd
  <2>5. QED
    BY <1>3, <2>2, <2>4
<1>6. \A i \in 1..last : i - 1 \in 0..last /\ i \in 0..last
  BY <1>1
<1>7. ShapeInv'
  <2>1. TypeOK'
    BY <1>1, <1>2, <1>3, <1>4, PushAssumption DEF IInv, ShapeInv, TypeOK, BuildingInv
  <2>2. QED
    BY <1>1, <1>3, <1>4, <2>1 DEF IInv, ShapeInv
<1>8. LayoutInv'
  <2>1. ASSUME NEW i \in 1..last
        PROVE  (/\ layout[i].at = PlaceOf(layout[i].what, PushEnd(i - 1))
                /\ layout[i].what # "bytes" => layout[i].len = ObjectSize[layout[i].what]
                /\ layout[i].len > 0
                /\ PushEnd(i) <= data_len)'
    <3>1. layout'[i] = layout[i] /\ PushEnd(i)' = PushEnd(i)
          /\ PushEnd(i - 1)' = PushEnd(i - 1) /\ PushEnd(i) \in Nat
      BY <1>3, <1>5, <1>6
    <3>2. PushEnd(i) <= data_len'
      BY <1>1, <1>2, <3>1 DEF LayoutInv
    <3>3. QED
      BY <1>1, <3>1, <3>2 DEF LayoutInv, PlaceOf
  <2>2. (/\ layout[last + 1].at = PlaceOf(layout[last + 1].what, PushEnd(last))
         /\ layout[last + 1].what # "bytes" =>
              layout[last + 1].len = ObjectSize[layout[last + 1].what]
         /\ layout[last + 1].len > 0
         /\ PushEnd(last + 1) <= data_len)'
    <3>1. last \in 0..last
      BY <1>1
    <3>2. PushEnd(last)' = data_len
      BY <1>1, <1>5, <3>1 DEF LayoutInv
    <3>3. PushEnd(last + 1)' <= data_len'
      BY <1>2, <1>5
    <3>4. layout'[last + 1].at = PlaceOf(layout'[last + 1].what, PushEnd(last)')
      BY <1>3, <3>2
    <3>5. QED
      BY <1>3, <3>3, <3>4 DEF PlaceOf
  <2>3. ASSUME NEW i \in 1..last + 1, NEW j \in 1..last + 1, i < j
        PROVE  PushEnd(i)' <= layout'[j].at
    <3>1. i \in 1..last /\ PushEnd(i)' = PushEnd(i) /\ PushEnd(i) \in Nat
          /\ PushEnd(i) <= data_len
      BY <1>1, <1>5, <1>6, <2>3 DEF LayoutInv
    <3>2. CASE j \in 1..last
      BY <1>1, <1>3, <2>3, <3>1, <3>2 DEF LayoutInv
    <3>3. CASE j = last + 1
      BY <1>1, <1>2, <1>3, <3>1, <3>3
    <3>4. QED
      BY <1>1, <3>2, <3>3
  <2>4. data_len' = PushEnd(Len(layout))'
    BY <1>3, <1>5 DEF PushEnd
  <2>5. \A i \in 1..last + 1 : i \in 1..last \/ i = last + 1
    BY <1>1
  <2>6. last + 1 - 1 = last
    BY <1>1
  <2>7. ASSUME NEW i \in 1..last + 1
        PROVE  (/\ layout[i].at = PlaceOf(layout[i].what, PushEnd(i - 1))
                /\ layout[i].what # "bytes" => layout[i].len = ObjectSize[layout[i].what]
                /\ layout[i].len > 0
                /\ PushEnd(i) <= data_len)'
    <3>1. CASE i \in 1..last
      BY <2>1, <3>1
    <3>2. CASE i = last + 1
      BY <2>2, <2>6, <3>2
    <3>3. QED
      BY <2>5, <3>1, <3>2
  <2>8. QED
    BY <1>3, <2>3, <2>4, <2>7 DEF LayoutInv
<1>9. ObjectsInv'
  <2>1. \A i \in 1..last : i \in 1..Len(layout')
    BY <1>1, <1>3
  <2>2. \A n \in 1..count : n \in 1..Len(objects')
    BY <1>1, <1>4
  <2>3. last + 1 \in 1..Len(layout')
    BY <1>1, <1>3
  <2>4. e.what # "bytes" => count + 1 \in 1..Len(objects')
    BY <1>1, <1>4
  <2>5. \A n \in 1..Len(objects') :
          n \in 1..count \/ (n = count + 1 /\ e.what # "bytes")
    BY <1>1, <1>4
  <2>6. \A i \in 1..Len(layout') : i \in 1..last \/ i = last + 1
    BY <1>1, <1>3
  <2>7. ASSUME NEW n \in 1..Len(objects')
        PROVE  \E i \in 1..Len(layout') : layout'[i].what # "bytes" /\ objects'[n] = layout'[i]
    <3>1. CASE n \in 1..count
      BY <1>1, <1>3, <1>4, <2>1, <3>1 DEF ObjectsInv
    <3>2. CASE n = count + 1 /\ e.what # "bytes"
      BY <1>3, <1>4, <2>3, <3>2
    <3>3. QED
      BY <2>5, <3>1, <3>2
  <2>8. ASSUME NEW i \in 1..Len(layout'), layout'[i].what # "bytes"
        PROVE  \E n \in 1..Len(objects') : objects'[n] = layout'[i]
    <3>1. CASE i \in 1..last
      BY <1>1, <1>3, <1>4, <2>2, <2>8, <3>1 DEF ObjectsInv
    <3>2. CASE i = last + 1
      BY <1>3, <1>4, <2>4, <2>8, <3>2
    <3>3. QED
      BY <2>6, <3>1, <3>2
  <2>9. ASSUME NEW n \in 1..Len(objects'), NEW m \in 1..Len(objects'), n < m
        PROVE  objects'[n].at + objects'[n].len <= objects'[m].at
    <3>1. CASE m \in 1..count
      <4>1. n \in 1..count
        BY <1>1, <2>9, <3>1, <2>5
      <4>2. QED
        BY <1>1, <1>4, <2>9, <3>1, <4>1 DEF ObjectsInv
    <3>2. CASE m = count + 1 /\ e.what # "bytes"
      <4>1. n \in 1..count
        BY <1>1, <2>9, <3>2, <2>5
      <4>2. objects[n].at + objects[n].len <= data_len
            /\ objects[n].at \in Nat /\ objects[n].len \in Nat
        BY <1>1, <4>1, ObjectPlaces DEF Entries
      <4>3. QED
        BY <1>1, <1>2, <1>4, <3>2, <4>1, <4>2
    <3>3. QED
      BY <2>5, <3>1, <3>2
  <2>10. QED
    BY <2>7, <2>8, <2>9 DEF ObjectsInv
<1>10. BuildingInv' /\ MirrorInv' /\ TakenInv' /\ EchoInv'
  BY DEF IInv, BuildingInv, MirrorInv, TakenInv, EchoInv, EchoFaithful
<1>11. QED
  BY <1>7, <1>8, <1>9, <1>10 DEF IInv

LEMMA PushBytesIInv ==
  ASSUME IInv, NEW n \in 1..MaxBytes, PushBytes(n)
  PROVE  IInv'
<1> DEFINE e == [what |-> "bytes", at |-> data_len, len |-> n]
<1>1. data_len \in Nat /\ n \in Nat /\ n > 0
  BY PushAssumption DEF IInv, ShapeInv, TypeOK
<1>2. /\ e \in Entries /\ e.what = "bytes" /\ e.at = data_len /\ e.len = n
      /\ e.at = PlaceOf(e.what, data_len)
  BY <1>1 DEF Entries, PlaceOf
<1>3. /\ phase = "building" /\ Len(layout) < MaxPushes /\ layout' = Append(layout, e)
      /\ data_len' = e.at + e.len /\ objects' = objects
      /\ UNCHANGED <<phase, reader_vars, echo>>
  BY DEF PushBytes
<1> HIDE DEF e
<1>4. QED
  BY <1>1, <1>2, <1>3, PushIInv

LEMMA PushObjectIInv ==
  ASSUME IInv, NEW k \in ObjectKinds, PushObject(k)
  PROVE  IInv'
<1> DEFINE e == Placed(k, data_len)
<1>1. data_len \in Nat /\ k \in Kinds
  BY KindsOfObjects DEF IInv, ShapeInv, TypeOK
<1>2. /\ e \in Entries /\ e.what = k /\ e.what # "bytes" /\ e.at = Aligned(data_len)
      /\ e.len = ObjectSize[k] /\ e.len > 0 /\ e.at = PlaceOf(e.what, data_len)
  BY <1>1, PlacedShape, SizesEven DEF PlaceOf
<1>3. /\ phase = "building" /\ Len(layout) < MaxPushes /\ layout' = Append(layout, e)
      /\ data_len' = e.at + e.len /\ objects' = Append(objects, e)
      /\ UNCHANGED <<phase, reader_vars, echo>>
  BY <1>2 DEF PushObject, PushStruct
<1> HIDE DEF e
<1>4. QED
  BY <1>2, <1>3, PushIInv
-----------------------------------------------------------------------------
(* The reader.                                                             *)

\* The reader writes nothing into the payload.
LEMMA PayloadKept ==
  ASSUME IInv, UNCHANGED build_vars
  PROVE  LayoutInv' /\ ObjectsInv' /\ layout' \in Seq(Entries) /\ objects' \in Seq(Entries)
<1> USE DEF build_vars
<1>1. \A i : PushEnd(i)' = PushEnd(i)
  BY DEF PushEnd
<1>2. LayoutInv'
  BY <1>1 DEF IInv, LayoutInv, PlaceOf
<1>3. QED
  BY <1>2 DEF IInv, ObjectsInv, ShapeInv

LEMMA SendIInv ==
  ASSUME IInv, Send \/ SendLocally
  PROVE  IInv'
<1> USE DEF Send, SendLocally, reader_vars
<1>1. UNCHANGED build_vars /\ UNCHANGED reader_vars /\ UNCHANGED echo
      /\ phase = "building" /\ phase' \in {"reading", "panicked"}
  OBVIOUS
<1>2. ShapeInv'
  BY <1>1 DEF IInv, ShapeInv, TypeOK, build_vars
<1>3. MirrorInv'
  <2>1. followed' = 0 /\ next_data_index' = 0 /\ next_offset_index' = 0
    BY <1>1 DEF IInv, BuildingInv
  <2>2. PushEnd(followed)' = 0
    BY <2>1 DEF PushEnd
  <2>3. ASSUME NEW n \in 1..Len(objects')
        PROVE  n <= next_offset_index' <=> objects'[n].at < next_data_index'
    <3>1. objects'[n].at \in Nat
      BY <1>1, EntryTypes DEF IInv, Entries, build_vars
    <3>2. n \in Nat /\ n > 0
      BY <1>1, EntryTypes DEF IInv, build_vars
    <3>3. QED
      BY <2>1, <3>1, <3>2
  <2>4. QED
    BY <2>1, <2>2, <2>3 DEF MirrorInv
<1>4. BuildingInv' /\ TakenInv' /\ EchoInv'
  BY <1>1 DEF IInv, BuildingInv, TakenInv, EchoInv, EchoFaithful, build_vars
<1>5. QED
  BY <1>1, <1>2, <1>3, <1>4, PayloadKept DEF IInv

\* A push starts before the end of another one just if it comes no later.
LEMMA PushOrder ==
  ASSUME IInv, NEW i \in 1..Len(layout), NEW f \in 0..Len(layout)
  PROVE  IF i <= f THEN layout[i].at < PushEnd(f) ELSE PushEnd(f) <= layout[i].at
<1>1. Len(layout) \in Nat /\ i \in Nat /\ f \in Nat /\ i > 0
  BY EntryTypes DEF IInv
<1>2. layout[i].at \in Nat /\ layout[i].len \in Nat /\ layout[i].len > 0
      /\ PushEnd(i) = layout[i].at + layout[i].len
  BY <1>1, EntryTypes DEF IInv, Entries, LayoutInv, PushEnd
<1>3. f # 0 => /\ f \in 1..Len(layout)
               /\ layout[f].at \in Nat /\ layout[f].len \in Nat
               /\ PushEnd(f) = layout[f].at + layout[f].len
  BY <1>1, EntryTypes DEF IInv, Entries, PushEnd
<1>4. CASE f = 0
  BY <1>1, <1>2, <1>4 DEF PushEnd
<1>5. CASE f # 0 /\ i < f
  <2>1. PushEnd(i) <= layout[f].at
    BY <1>3, <1>5 DEF IInv, LayoutInv
  <2>2. QED
    BY <1>1, <1>2, <1>3, <1>5, <2>1
<1>6. CASE f # 0 /\ i = f
  BY <1>1, <1>2, <1>6
<1>7. CASE f # 0 /\ f < i
  BY <1>1, <1>3, <1>7 DEF IInv, LayoutInv
<1>8. QED
  BY <1>1, <1>4, <1>5, <1>6, <1>7

\* A reader that has mirrored the first pushes finds the next one.
LEMMA MirrorNext ==
  ASSUME IInv, phase = "reading", followed \in 0..Len(layout) - 1
  PROVE  LET next == layout[followed + 1] IN
         /\ followed + 1 \in 1..Len(layout)
         /\ next.what = "bytes" =>
              next_data_index = next.at /\ BytesReadable(next.len)
         /\ next.what # "bytes" =>
              next_offset_index < Len(objects) /\ objects[next_offset_index + 1] = next
<1> DEFINE next == layout[followed + 1]
<1>1. /\ Len(layout) \in Nat /\ Len(objects) \in Nat /\ followed \in Nat
      /\ followed + 1 \in 1..Len(layout) /\ followed \in 0..Len(layout)
      /\ followed + 1 \in 0..Len(layout)
      /\ next_offset_index \in Nat /\ data_len \in Nat /\ next_data_index \in Nat
  BY EntryTypes DEF IInv, ShapeInv, TypeOK
<1>2. /\ next.at \in Nat /\ next.len \in Nat /\ next.len > 0
      /\ next.at + next.len <= data_len
      /\ PushEnd(followed + 1) = next.at + next.len
  BY <1>1, EntryTypes DEF IInv, LayoutInv, Entries, PushEnd
<1>3. /\ next_data_index = PushEnd(followed)
      /\ \A n \in 1..Len(objects) : n <= next_offset_index <=> objects[n].at < next_data_index
  BY <1>1 DEF IInv, MirrorInv
<1>4. ASSUME NEW n \in 1..Len(objects), objects[n].at >= next_data_index
      PROVE  \E i \in followed + 1..Len(layout) :
               layout[i].what # "bytes" /\ objects[n] = layout[i]
  <2>1. PICK i \in 1..Len(layout) : layout[i].what # "bytes" /\ objects[n] = layout[i]
    BY DEF IInv, ObjectsInv
  <2>2. layout[i].at \in Nat
    BY EntryTypes DEF IInv, Entries
  <2>3. ~(i <= followed)
    <3>1. i <= followed => layout[i].at < PushEnd(followed)
      BY <1>1, PushOrder
    <3>2. QED
      BY <1>1, <1>3, <1>4, <2>1, <2>2, <3>1
  <2>4. i \in followed + 1..Len(layout)
    BY <1>1, <2>3
  <2>5. QED
    BY <2>1, <2>4
<1>5. ASSUME next.what = "bytes"
      PROVE  next_data_index = next.at /\ BytesReadable(next.len)
  <2>1. next_data_index = next.at
    <3>1. followed + 1 - 1 = followed
      BY <1>1
    <3>2. next.at = PushEnd(followed)
      BY <1>1, <1>5, <3>1 DEF IInv, LayoutInv, PlaceOf
    <3>3. QED
      BY <1>3, <3>2
  <2>2. ASSUME NEW n \in 1..Len(objects), objects[n].at > next_data_index
        PROVE  next_data_index + next.len <= objects[n].at
    <3>1. PICK i \in followed + 1..Len(layout) :
            layout[i].what # "bytes" /\ objects[n] = layout[i]
      BY <1>2, <1>4, <2>1, <2>2, EntryTypes DEF IInv, Entries
    <3>2. i \in 1..Len(layout) /\ ~(i <= followed + 1)
      BY <1>1, <1>5, <3>1
    <3>3. PushEnd(followed + 1) <= layout[i].at
      BY <1>1, <3>2, PushOrder
    <3>4. QED
      BY <1>2, <2>1, <3>1, <3>3
  <2>3. QED
    BY <1>2, <2>1, <2>2 DEF BytesReadable, OffsetsPast
<1>6. ASSUME next.what # "bytes"
      PROVE  next_offset_index < Len(objects) /\ objects[next_offset_index + 1] = next
  <2>1. PICK n \in 1..Len(objects) : objects[n] = next
    BY <1>1, <1>6 DEF IInv, ObjectsInv
  <2>2. next_data_index <= next.at /\ next_data_index \in Nat
    <3>1. ~(followed + 1 <= followed)
      BY <1>1
    <3>2. QED
      BY <1>1, <1>3, <3>1, PushOrder DEF IInv, ShapeInv, TypeOK
  <2>3. ~(n <= next_offset_index)
    BY <1>2, <1>3, <2>1, <2>2
  <2>4. next_offset_index + 1 \in 1..Len(objects) /\ next_offset_index + 1 <= n
    BY <1>1, <2>3
  <2>5. objects[next_offset_index + 1].at \in Nat
        /\ ~(objects[next_offset_index + 1].at < next_data_index)
    BY <1>1, <1>3, <2>4, EntryTypes DEF IInv, Entries
  <2>6. PICK i \in followed + 1..Len(layout) : objects[next_offset_index + 1] = layout[i]
    BY <1>4, <2>2, <2>4, <2>5
  <2>7. layout[i].at >= next.at
    <3>1. CASE i = followed + 1
      BY <1>2, <3>1
    <3>2. CASE i # followed + 1
      <4>1. i \in 1..Len(layout) /\ ~(i <= followed + 1)
        BY <1>1, <3>2
      <4>2. PushEnd(followed + 1) <= layout[i].at
        BY <1>1, <4>1, PushOrder
      <4>3. layout[i].at \in Nat
        BY <4>1, EntryTypes DEF IInv, Entries
      <4>4. QED
        BY <1>2, <4>2, <4>3
    <3>3. QED
      BY <3>1, <3>2
  <2>8. ~(next_offset_index + 1 < n)
    BY <1>2, <2>1, <2>4, <2>5, <2>6, <2>7, ObjectsSorted DEF IInv
  <2>9. next_offset_index + 1 = n
    BY <1>1, <2>4, <2>8
  <2>10. QED
    BY <1>1, <2>1, <2>9
<1>7. QED
  BY <1>1, <1>5, <1>6

LEMMA MirrorFinds ==
  ASSUME IInv
  PROVE  RoundTrip
<1>1. SUFFICES ASSUME phase = "reading", followed \in 0..Len(layout) - 1
               PROVE  RoundTrip
  BY DEF RoundTrip, NextPush
<1>2. NextPush = layout[followed + 1] /\ layout[followed + 1] \in Entries
  BY <1>1, MirrorNext, EntryTypes DEF IInv, NextPush
<1>3. CASE layout[followed + 1].what = "bytes"
  BY <1>1, <1>2, <1>3, MirrorNext DEF RoundTrip
<1>4. CASE layout[followed + 1].what # "bytes"
  <2>1. NextPush.what # "none" /\ NextPush.what # "bytes"
    BY <1>2, <1>4 DEF Entries, Kinds
  <2>2. /\ next_offset_index < Len(objects)
        /\ objects[next_offset_index + 1] = NextPush
    BY <1>1, <1>2, <1>4, MirrorNext
  <2>3. QED
    BY <2>1, <2>2 DEF RoundTrip, NextObject
<1>5. QED
  BY <1>3, <1>4

LEMMA ReadBytesIInv ==
  ASSUME IInv, NEW n \in (1..MaxBytes) \cup {BytesUntilNextObj}, ReadBytes(n)
  PROVE  IInv'
<1>1. /\ n \in Nat /\ data_len \in Nat /\ next_data_index \in Nat
      /\ Len(layout) \in Nat /\ followed \in -1..Len(layout)
  <2>1. n \in 1..MaxBytes => n \in Nat
    BY PushAssumption
  <2>2. QED
    BY <2>1, BytesAhead, EntryTypes DEF IInv, ShapeInv, TypeOK
<1>2. /\ phase = "reading" /\ BytesReadable(n) /\ next_data_index' = next_data_index + n
      /\ UNCHANGED <<phase, build_vars, next_offset_index, taken, lost, echo>>
      /\ Follow(NextPush.what = "bytes" /\ NextPush.len = n)
  BY DEF ReadBytes
<1>3. /\ followed' = -1 \/ followed' = followed + 1
      /\ followed' >= 0 => /\ followed \in 0..Len(layout) - 1
                           /\ followed' = followed + 1
                           /\ layout[followed + 1].what = "bytes"
                           /\ layout[followed + 1].len = n
  <2>1. ~(followed \in 0..Len(layout) - 1) => NextPush.what # "bytes"
    BY DEF NextPush
  <2>2. QED
    BY <1>1, <1>2, <2>1 DEF Follow, NextPush
<1>4. ShapeInv'
  <2>1. next_data_index' \in 0..data_len
    BY <1>1, <1>2 DEF BytesReadable
  <2>2. followed' \in -1..Len(layout)
    BY <1>1, <1>3
  <2>3. QED
    BY <1>2, <2>1, <2>2 DEF IInv, ShapeInv, TypeOK, build_vars
<1>5. MirrorInv'
  <2>1. SUFFICES ASSUME followed' >= 0
                 PROVE  /\ next_data_index' = PushEnd(followed)'
                        /\ \A m \in 1..Len(objects) :
                             m <= next_offset_index <=> objects[m].at < next_data_index'
    BY <1>2 DEF MirrorInv, build_vars
  <2>2. /\ followed \in 0..Len(layout) - 1 /\ followed' = followed + 1
        /\ followed + 1 \in 1..Len(layout) /\ followed + 1 \in 0..Len(layout)
        /\ followed + 1 # 0 /\ followed >= 0
    BY <1>1, <1>3, <2>1
  <2>3. /\ layout[followed + 1].what = "bytes" /\ layout[followed + 1].len = n
        /\ next_data_index = layout[followed + 1].at
    BY <1>2, <1>3, <2>1, <2>2, MirrorNext
  <2>4. PushEnd(followed + 1) = next_data_index'
    BY <1>2, <2>2, <2>3 DEF PushEnd
  <2>5. PushEnd(followed)' = PushEnd(followed + 1)
    BY <1>2, <2>2 DEF PushEnd, build_vars
  <2>6. ASSUME NEW m \in 1..Len(objects)
        PROVE  m <= next_offset_index <=> objects[m].at < next_data_index'
    <3>1. m <= next_offset_index <=> objects[m].at < next_data_index
      BY <1>2, <2>2 DEF IInv, MirrorInv
    <3>2. PICK i \in 1..Len(layout) : layout[i].what # "bytes" /\ objects[m] = layout[i]
      BY DEF IInv, ObjectsInv
    <3>3. layout[i].at \in Nat /\ i # followed + 1 /\ followed \in 0..Len(layout)
          /\ i \in Nat
      BY <1>1, <2>2, <2>3, <3>2, EntryTypes DEF IInv, Entries
    <3>4. i <= followed => layout[i].at < PushEnd(followed)
      BY <3>3, PushOrder
    <3>5. PushEnd(followed) = next_data_index
      BY <1>2, <2>2 DEF IInv, MirrorInv
    <3>6. ~(i <= followed + 1) => PushEnd(followed + 1) <= layout[i].at
      BY <2>2, PushOrder
    <3>7. CASE i <= followed
      BY <1>1, <1>2, <3>1, <3>2, <3>3, <3>4, <3>5, <3>7
    <3>8. CASE ~(i <= followed)
      <4>1. ~(i <= followed + 1)
        BY <1>1, <2>2, <3>3, <3>8
      <4>2. next_data_index' <= layout[i].at
        BY <2>4, <3>6, <4>1
      <4>3. QED
        BY <1>1, <1>2, <3>1, <3>2, <3>3, <4>2
    <3>9. QED
      BY <3>7, <3>8
  <2>7. QED
    BY <2>4, <2>5, <2>6
<1>6. BuildingInv' /\ TakenInv' /\ EchoInv'
  BY <1>2 DEF IInv, BuildingInv, TakenInv, EchoInv, EchoFaithful, build_vars
<1>7. QED
  BY <1>2, <1>4, <1>5, <1>6, PayloadKept DEF IInv

\* An object that is taken was not taken before, and lies inside the data.
LEMMA TakeObjectKeeps ==
  ASSUME IInv, TakeObject, UNCHANGED build_vars,
         next_offset_index < Len(objects), phase # "freed"
  PROVE  /\ next_offset_index' = next_offset_index + 1
         /\ next_offset_index' \in Nat /\ next_offset_index' \in 0..Len(objects)
         /\ next_offset_index + 1 \in 1..Len(objects)
         /\ next_data_index' = objects[next_offset_index + 1].at
                                + objects[next_offset_index + 1].len
         /\ next_data_index' \in 0..data_len
         /\ taken' \in Seq(Nat)
         /\ IsFiniteSet(lost')
         /\ Range(taken') \cup lost' = 1..next_offset_index'
         /\ Len(taken') + Cardinality(lost') = next_offset_index'
<1> USE DEF TakeObject, build_vars
<1>1. /\ next_offset_index \in Nat /\ Len(objects) \in Nat /\ data_len \in Nat
      /\ taken \in Seq(Nat) /\ IsFiniteSet(lost)
  BY EntryTypes DEF IInv, ShapeInv, TypeOK
<1>2. next_offset_index + 1 \in 1..Len(objects) /\ next_offset_index + 1 \in Nat
  BY <1>1
<1>3. /\ objects[next_offset_index + 1].at \in Nat
      /\ objects[next_offset_index + 1].len \in Nat
      /\ objects[next_offset_index + 1].at + objects[next_offset_index + 1].len <= data_len
  BY <1>2, ObjectPlaces DEF IInv, Entries
<1>4. /\ taken' \in Seq(Nat) /\ Len(taken') = Len(taken) + 1
      /\ \A i \in 1..Len(taken) : taken'[i] = taken[i]
      /\ taken'[Len(taken) + 1] = next_offset_index + 1
  BY <1>1, <1>2, AppendProperties
<1>5. Range(taken') = Range(taken) \cup {next_offset_index + 1}
  <2>1. /\ DOMAIN taken = 1..Len(taken) /\ DOMAIN taken' = 1..Len(taken')
        /\ Len(taken) \in Nat
    BY <1>1, <1>4, LenProperties
  <2>2. \A i \in 1..Len(taken') : i \in 1..Len(taken) \/ i = Len(taken) + 1
    BY <1>4, <2>1
  <2>3. Len(taken) + 1 \in 1..Len(taken') /\ \A i \in 1..Len(taken) : i \in 1..Len(taken')
    BY <1>4, <2>1
  <2>4. QED
    BY <1>4, <2>1, <2>2, <2>3 DEF Range
<1>6. Range(taken') \cup lost' = 1..next_offset_index'
  <2>1. Range(taken) \cup lost = 1..next_offset_index
    BY DEF IInv, TakenInv
  <2>2. 1..next_offset_index + 1 = (1..next_offset_index) \cup {next_offset_index + 1}
    BY <1>1
  <2>3. QED
    BY <1>5, <2>1, <2>2
<1>7. Len(taken') + Cardinality(lost') = next_offset_index'
  <2>1. Cardinality(lost) \in Nat /\ Len(taken) \in Nat
    BY <1>1, FS_CardinalityType, LenProperties
  <2>2. QED
    BY <1>1, <1>4, <2>1 DEF IInv, TakenInv
<1>8. QED
  BY <1>1, <1>2, <1>3, <1>4, <1>6, <1>7

LEMMA ReadObjectIInv ==
  ASSUME IInv, ReadObject
  PROVE  IInv'
<1>1. /\ phase = "reading" /\ NextObject \in {"binder", "fd"} /\ TakeObject
      /\ UNCHANGED <<phase, build_vars, echo>>
      /\ Follow(NextPush.what = NextObject)
  BY DEF ReadObject
<1>2. /\ next_offset_index < Len(objects)
      /\ NextObject = objects[next_offset_index + 1].what
  BY <1>1 DEF NextObject
<1>3. Len(layout) \in Nat /\ followed \in -1..Len(layout)
  BY EntryTypes DEF IInv, ShapeInv, TypeOK
<1>4. /\ followed' = -1 \/ followed' = followed + 1
      /\ followed' >= 0 => /\ followed \in 0..Len(layout) - 1
                           /\ followed' = followed + 1
                           /\ layout[followed + 1].what # "bytes"
  <2>1. ~(followed \in 0..Len(layout) - 1) => NextPush.what = "none"
    BY DEF NextPush
  <2>2. QED
    BY <1>1, <1>3, <2>1 DEF Follow, NextPush
<1>5. ShapeInv'
  <2>1. followed' \in -1..Len(layout)
    BY <1>3, <1>4
  <2>2. QED
    BY <1>1, <1>2, <2>1, TakeObjectKeeps DEF IInv, ShapeInv, TypeOK, build_vars
<1>6. MirrorInv'
  <2>1. SUFFICES ASSUME followed' >= 0
                 PROVE  /\ next_data_index' = PushEnd(followed)'
                        /\ \A m \in 1..Len(objects) :
                             m <= next_offset_index' <=> objects[m].at < next_data_index'
    BY <1>1 DEF MirrorInv, build_vars
  <2>2. /\ followed \in 0..Len(layout) - 1 /\ followed' = followed + 1 /\ followed + 1 # 0
        /\ objects[next_offset_index + 1] = layout[followed + 1]
    BY <1>1, <1>3, <1>4, <2>1, MirrorNext
  <2>3. next_data_index' = PushEnd(followed)'
    BY <1>1, <1>2, <2>2, TakeObjectKeeps DEF PushEnd, build_vars
  <2>4. ASSUME NEW m \in 1..Len(objects)
        PROVE  m <= next_offset_index' <=> objects[m].at < next_data_index'
    <3> DEFINE o == next_offset_index + 1
    <3>1. /\ o \in 1..Len(objects) /\ o \in Nat /\ m \in Nat /\ next_offset_index' = o
          /\ next_data_index' = objects[o].at + objects[o].len
      BY <1>1, <1>2, TakeObjectKeeps, EntryTypes DEF IInv
    <3> HIDE DEF o
    <3>2. /\ objects[o].at \in Nat /\ objects[o].len \in Nat /\ objects[o].len > 0
          /\ objects[m].at \in Nat
      BY <3>1, ObjectPlaces DEF IInv, Entries
    <3>3. m < o => objects[m].at < objects[o].at
      BY <3>1, ObjectsSorted DEF IInv
    <3>4. o < m => objects[o].at + objects[o].len <= objects[m].at
      BY <3>1 DEF IInv, ObjectsInv
    <3>5. QED
      BY <3>1, <3>2, <3>3, <3>4
  <2>5. QED
    BY <2>3, <2>4
<1>7. TakenInv'
  BY <1>1, <1>2, TakeObjectKeeps DEF TakenInv
<1>8. BuildingInv' /\ EchoInv'
  BY <1>1 DEF IInv, BuildingInv, EchoInv, EchoFaithful, build_vars
<1>9. QED
  BY <1>1, <1>5, <1>6, <1>7, <1>8, PayloadKept DEF IInv

LEMMA StartDropIInv ==
  ASSUME IInv, StartDrop
  PROVE  IInv'
<1>1. /\ UNCHANGED build_vars /\ UNCHANGED reader_vars /\ UNCHANGED echo
      /\ phase' = "dropping"
  BY DEF StartDrop
<1>2. ShapeInv'
  BY <1>1 DEF IInv, ShapeInv, TypeOK, build_vars, reader_vars
<1>3. BuildingInv' /\ MirrorInv' /\ TakenInv' /\ EchoInv'
  BY <1>1 DEF IInv, BuildingInv, MirrorInv, TakenInv, EchoInv, EchoFaithful, reader_vars
<1>4. QED
  BY <1>1, <1>2, <1>3, PayloadKept DEF IInv

LEMMA DrainIInv ==
  ASSUME IInv, DrainObject \/ DrainUnknown
  PROVE  IInv'
<1>1. /\ phase = "dropping" /\ UNCHANGED <<phase, build_vars, followed, echo>>
      /\ next_offset_index < Len(objects)
  BY DEF DrainObject, DrainUnknown, NextObject
<1>2. ShapeInv' /\ TakenInv'
  <2>1. CASE DrainObject
    BY <1>1, <2>1, TakeObjectKeeps
       DEF IInv, ShapeInv, TypeOK, TakenInv, build_vars, DrainObject
  <2>2. CASE DrainUnknown
    <3>1. /\ lost' = lost \cup {next_offset_index + 1}
          /\ next_offset_index' = next_offset_index + 1
          /\ UNCHANGED <<next_data_index, taken>>
      BY <2>2 DEF DrainUnknown
    <3>2. /\ next_offset_index \in Nat /\ Len(objects) \in Nat
          /\ IsFiniteSet(lost) /\ Range(taken) \cup lost = 1..next_offset_index
          /\ Len(taken) \in Nat /\ Cardinality(lost) \in Nat
          /\ Len(taken) + Cardinality(lost) = next_offset_index
      BY FS_CardinalityType, LenProperties, EntryTypes DEF IInv, ShapeInv, TakenInv
    <3>3. next_offset_index + 1 \notin lost
      BY <3>2
    <3>4. IsFiniteSet(lost') /\ Cardinality(lost') = Cardinality(lost) + 1
      BY <3>1, <3>2, <3>3, FS_AddElement
    <3>5. Range(taken') \cup lost' = 1..next_offset_index'
      <4>1. 1..next_offset_index + 1 = (1..next_offset_index) \cup {next_offset_index + 1}
        BY <3>2
      <4>2. QED
        BY <3>1, <3>2, <4>1
    <3>6. next_offset_index' \in 0..Len(objects) /\ next_offset_index' \in Nat
          /\ Len(taken) + Cardinality(lost') = next_offset_index'
      BY <1>1, <3>1, <3>2, <3>4
    <3>7. QED
      BY <1>1, <3>1, <3>4, <3>5, <3>6 DEF IInv, ShapeInv, TypeOK, TakenInv, build_vars
  <2>3. QED
    BY <2>1, <2>2
<1>3. BuildingInv' /\ MirrorInv' /\ EchoInv'
  BY <1>1 DEF IInv, BuildingInv, MirrorInv, EchoInv, EchoFaithful
<1>4. QED
  BY <1>1, <1>2, <1>3, PayloadKept DEF IInv

LEMMA FreeIInv ==
  ASSUME IInv, Free
  PROVE  IInv'
<1>1. /\ UNCHANGED build_vars /\ UNCHANGED reader_vars /\ UNCHANGED echo
      /\ phase = "dropping" /\ phase' = "freed" /\ NextObject = "none"
  BY DEF Free
<1>2. next_offset_index = Len(objects)
  <2>1. next_offset_index \in 0..Len(objects) /\ Len(objects) \in Nat
        /\ next_offset_index \in Nat
    BY EntryTypes DEF IInv, ShapeInv, TypeOK
  <2>2. ASSUME next_offset_index < Len(objects) PROVE FALSE
    <3>1. next_offset_index + 1 \in 1..Len(objects)
      BY <2>1, <2>2
    <3>2. objects[next_offset_index + 1].what \in Kinds
      BY <3>1, ObjectPlaces DEF IInv
    <3>3. QED
      BY <1>1, <2>2, <3>2 DEF NextObject, Kinds
  <2>3. QED
    BY <2>1, <2>2
<1>3. ShapeInv'
  BY <1>1 DEF IInv, ShapeInv, TypeOK, build_vars, reader_vars
<1>4. BuildingInv' /\ MirrorInv' /\ TakenInv' /\ EchoInv'
  BY <1>1, <1>2
     DEF IInv, BuildingInv, MirrorInv, TakenInv, EchoInv, EchoFaithful, build_vars, reader_vars
<1>5. QED
  BY <1>1, <1>3, <1>4, PayloadKept DEF IInv
-----------------------------------------------------------------------------
(* Handlers that echo.                                                     *)

\* In a message of the benchmark the objects follow the header and the data without a
\* gap, the references before the descriptors.
LEMMA MessageObjects ==
  ASSUME IInv, IsMessage, NEW n \in 1..Len(objects)
  PROVE  /\ objects[n].what \in {"binder", "fd"}
         /\ objects[n].at >= 2
         /\ objects[n].at + objects[n].len = NextPlace(n)
         /\ \A m \in 1..Len(objects) :
              n < m /\ objects[n].what = "fd" => objects[m].what = "fd"
<1>1. PICK k \in 2..Len(layout), l \in 2..Len(layout) :
        \A i \in 3..Len(layout) :
          layout[i].what = IF i <= k THEN "bytes" ELSE IF i <= l THEN "binder" ELSE "fd"
  BY DEF IsMessage
<1>2. /\ Len(layout) >= 2
      /\ layout[1].what = "bytes" /\ layout[1].len = 1
      /\ layout[2].what = "bytes" /\ layout[2].len = 1
  BY DEF IsMessage
<1>3. /\ Len(layout) \in Nat /\ Len(objects) \in Nat /\ data_len \in Nat
      /\ k \in Nat /\ l \in Nat
      /\ 1 \in 1..Len(layout) /\ 2 \in 1..Len(layout) /\ 2 \in 0..Len(layout)
  BY <1>2, EntryTypes DEF IInv, ShapeInv, TypeOK
<1>4. ASSUME NEW m \in 1..Len(objects)
      PROVE  \E i \in 3..Len(layout) : i > k /\ objects[m] = layout[i]
  <2>1. PICK i \in 1..Len(layout) : layout[i].what # "bytes" /\ objects[m] = layout[i]
    BY DEF IInv, ObjectsInv
  <2>2. i \in Nat /\ i # 1 /\ i # 2
    BY <1>2, <1>3, <2>1
  <2>3. i \in 3..Len(layout)
    BY <1>3, <2>2
  <2>4. QED
    BY <1>1, <1>3, <2>1, <2>2, <2>3
<1>5. PICK i \in 3..Len(layout) : i > k /\ objects[n] = layout[i]
  BY <1>4
<1>6. i \in 1..Len(layout) /\ i \in Nat /\ i # 0 /\ i \in 0..Len(layout)
  BY <1>3
<1>7. objects[n].what \in {"binder", "fd"}
  BY <1>1, <1>3, <1>5, <1>6
<1>8. objects[n].at >= 2
  <2>1. layout[1].at \in Nat /\ layout[2].at \in Nat /\ layout[i].at \in Nat
    BY <1>3, <1>6, EntryTypes DEF IInv, Entries
  <2>2. PushEnd(1) <= layout[2].at
    BY <1>3 DEF IInv, LayoutInv
  <2>3. PushEnd(1) = layout[1].at + 1 /\ PushEnd(2) = layout[2].at + 1
    BY <1>2 DEF PushEnd
  <2>4. PushEnd(2) <= layout[i].at
    BY <1>3, <1>6, PushOrder
  <2>5. QED
    BY <1>5, <2>1, <2>2, <2>3, <2>4
<1>9. objects[n].at + objects[n].len = NextPlace(n)
  <2>1. /\ PushEnd(i) = objects[n].at + objects[n].len
        /\ objects[n].at \in Nat /\ objects[n].len \in Nat
        /\ PushEnd(i) \in Nat /\ PushEnd(i) % 2 = 0
    BY <1>5, <1>6, ObjectPlaces DEF IInv, Entries, PushEnd
  <2>2. PushEnd(i) <= NextPlace(n) /\ NextPlace(n) \in Nat /\ NextPlace(n) <= data_len
    BY <2>1, ObjectsApart DEF IInv
  <2>3. CASE i = Len(layout)
    BY <1>3, <2>1, <2>2, <2>3 DEF IInv, LayoutInv
  <2>4. CASE i < Len(layout)
    <3>1. /\ i + 1 \in 3..Len(layout) /\ i + 1 \in 1..Len(layout) /\ ~(i + 1 <= k)
          /\ i + 1 - 1 = i
      BY <1>3, <1>5, <1>6, <2>4
    <3>2. layout[i + 1].what # "bytes"
      BY <1>1, <3>1
    <3>3. layout[i + 1].at = Aligned(PushEnd(i))
      BY <3>1, <3>2 DEF IInv, LayoutInv, PlaceOf
    <3>4. layout[i + 1].at = PushEnd(i)
      BY <2>1, <3>3, AlignedEven
    <3>5. PICK m \in 1..Len(objects) : objects[m] = layout[i + 1]
      BY <3>1, <3>2 DEF IInv, ObjectsInv
    <3>6. /\ objects[n].at < objects[m].at /\ objects[m].at \in Nat
      BY <2>1, <3>4, <3>5, ObjectPlaces DEF IInv
    <3>7. n < m /\ n \in Nat /\ m \in Nat
      BY <1>3, <3>6, ObjectsSorted DEF IInv
    <3>8. n + 1 \in 1..Len(objects) /\ n < Len(objects)
      BY <1>3, <3>7
    <3>9. objects[n + 1].at <= objects[m].at
      <4>1. ~(m < n + 1)
        BY <3>7
      <4>2. objects[n + 1].at \in Nat
        BY <3>8, ObjectPlaces DEF IInv, Entries
      <4>3. QED
        BY <3>6, <3>8, <4>1, <4>2, ObjectsSorted DEF IInv
    <3>10. QED
      BY <2>1, <2>2, <3>4, <3>5, <3>8, <3>9 DEF NextPlace
  <2>5. QED
    BY <1>3, <1>6, <2>3, <2>4
<1>10. ASSUME NEW m \in 1..Len(objects), n < m, objects[n].what = "fd"
       PROVE  objects[m].what = "fd"
  <2>1. PICK j \in 3..Len(layout) : j > k /\ objects[m] = layout[j]
    BY <1>4
  <2>2. j \in 1..Len(layout) /\ j \in Nat
    BY <1>3
  <2>3. ~(i <= l)
    BY <1>1, <1>3, <1>5, <1>6, <1>10
  <2>4. objects[n].at < objects[m].at
    BY <1>10, ObjectsSorted DEF IInv
  <2>5. ~(j < i)
    <3>1. SUFFICES ASSUME j < i PROVE FALSE
      OBVIOUS
    <3>2. PushEnd(j) <= layout[i].at
      BY <1>6, <2>2, <3>1 DEF IInv, LayoutInv
    <3>3. /\ layout[j].at \in Nat /\ layout[j].len \in Nat /\ layout[i].at \in Nat
          /\ PushEnd(j) = layout[j].at + layout[j].len
      BY <1>6, <2>2, EntryTypes DEF IInv, Entries, PushEnd
    <3>4. QED
      BY <1>5, <2>1, <2>4, <3>2, <3>3
  <2>6. ~(j <= k) /\ ~(j <= l)
    BY <1>3, <1>6, <2>1, <2>2, <2>3, <2>5
  <2>7. QED
    BY <1>1, <2>1, <2>6
<1>11. QED
  BY <1>7, <1>8, <1>9, <1>10

\* The objects of a kind in a list of objects.
Of(k, objs) == {i \in 1..Len(objs) : objs[i].what = k}

LEMMA OfFinite ==
  ASSUME NEW k, NEW objs, Len(objs) \in Nat
  PROVE  IsFiniteSet(Of(k, objs)) /\ Cardinality(Of(k, objs)) \in Nat
<1>1. IsFiniteSet(1..Len(objs))
  BY FS_Interval
<1>2. Of(k, objs) \subseteq 1..Len(objs)
  BY DEF Of
<1>3. IsFiniteSet(Of(k, objs))
  BY <1>1, <1>2, FS_Subset
<1>4. QED
  BY <1>3, FS_CardinalityType

\* While an object is left, the header's counts say that it is due, and the references
\* before the descriptors.
LEMMA DueNext ==
  ASSUME IInv, phase = "echoing", next_offset_index < Len(objects)
  PROVE  LET k == objects[next_offset_index + 1].what IN
         /\ k \in {"binder", "fd"}
         /\ Due(k) > 0
         /\ k = "fd" => ~(Due("binder") > 0)
<1> DEFINE next == next_offset_index + 1
           k == objects[next].what
<1>1. /\ IsMessage /\ Len(objects) \in Nat /\ next_offset_index \in Nat
      /\ next \in 1..Len(objects) /\ next \in Nat
  BY EntryTypes DEF IInv, ShapeInv, EchoInv
<1>2. /\ echo.len = NextPlace(next_offset_index)
      /\ Len(echo.objects) = next_offset_index
      /\ \A n \in 1..next_offset_index : echo.objects[n] = objects[n]
      /\ echo.objects \in Seq(Entries)
  BY DEF IInv, ShapeInv, EchoInv
<1>3. k \in {"binder", "fd"}
  BY <1>1, MessageObjects
<1>4. (IF echo.objects = <<>> THEN echo.len ELSE echo.objects[1].at) >= 2
  <2>1. 1 \in 1..Len(objects) /\ objects[1].at >= 2
    BY <1>1, MessageObjects
  <2>2. CASE echo.objects = <<>>
    <3>1. next_offset_index = 0
      BY <1>2, <2>2
    <3>2. echo.len = objects[1].at
      BY <1>1, <1>2, <3>1 DEF NextPlace
    <3>3. QED
      BY <2>1, <2>2, <3>2
  <2>3. CASE echo.objects # <<>>
    <3>1. 1 \in 1..next_offset_index
      BY <1>1, <1>2, <2>3, EmptySeq
    <3>2. QED
      BY <1>2, <2>1, <2>3, <3>1
  <2>4. QED
    BY <2>2, <2>3
<1>5. ASSUME NEW c
      PROVE  Due(c) = Cardinality(Of(c, objects)) - Cardinality(Of(c, echo.objects))
  <2>1. ~((IF echo.objects = <<>> THEN echo.len ELSE echo.objects[1].at) < 2)
    <3>1. (IF echo.objects = <<>> THEN echo.len ELSE echo.objects[1].at) \in Nat
      <4>1. echo.len \in Nat
        BY DEF IInv, ShapeInv
      <4>2. echo.objects # <<>> => 1 \in 1..Len(echo.objects)
        BY <1>1, <1>2, EmptySeq
      <4>3. echo.objects # <<>> => echo.objects[1] \in Entries
        BY <1>2, <4>2, ElementOfSeq
      <4>4. QED
        BY <4>1, <4>3 DEF Entries
    <3>2. QED
      BY <1>4, <3>1
  <2>2. QED
    BY <2>1 DEF Due, Of
<1>6. ASSUME NEW c
      PROVE  /\ Of(c, echo.objects) = {n \in 1..next_offset_index : objects[n].what = c}
             /\ Of(c, echo.objects) \subseteq Of(c, objects)
  <2>1. Of(c, echo.objects) = {n \in 1..next_offset_index : objects[n].what = c}
    BY <1>2 DEF Of
  <2>2. 1..next_offset_index \subseteq 1..Len(objects)
    BY <1>1
  <2>3. QED
    BY <2>1, <2>2 DEF Of
<1>7. Due(k) > 0
  <2>1. next \in Of(k, objects) /\ next \notin Of(k, echo.objects)
    <3>1. next \notin 1..next_offset_index
      BY <1>1
    <3>2. QED
      BY <1>1, <1>6, <3>1 DEF Of
  <2>2. /\ IsFiniteSet(Of(k, objects))
        /\ Cardinality(Of(k, objects)) \in Nat
        /\ Cardinality(Of(k, echo.objects)) \in Nat
    BY <1>1, <1>2, OfFinite
  <2>3. Cardinality(Of(k, echo.objects)) < Cardinality(Of(k, objects))
    BY <1>6, <2>1, <2>2, FS_Subset
  <2>4. QED
    BY <1>5, <2>2, <2>3
<1>8. ASSUME k = "fd"
      PROVE  ~(Due("binder") > 0)
  <2>1. ASSUME NEW n \in 1..Len(objects), objects[n].what = "binder"
        PROVE  n \in 1..next_offset_index
    <3>1. ~(next < n) /\ n # next
      BY <1>1, <1>8, <2>1, MessageObjects
    <3>2. QED
      BY <1>1, <3>1
  <2>2. Of("binder", objects) = Of("binder", echo.objects)
    BY <1>6, <2>1 DEF Of
  <2>3. Cardinality(Of("binder", objects)) \in Nat
    BY <1>1, OfFinite
  <2>4. QED
    BY <1>5, <2>2, <2>3
<1>9. QED
  BY <1>3, <1>7, <1>8

LEMMA EchoBlockIInv ==
  ASSUME IInv, EchoBlock
  PROVE  IInv'
<1>1. /\ phase = "reading" /\ followed = 0 /\ IsMessage
      /\ BytesReadable(BytesUntilNextObj) /\ phase' = "echoing"
      /\ next_data_index' = next_data_index + BytesUntilNextObj
      /\ UNCHANGED <<build_vars, next_offset_index, taken, lost, followed>>
      /\ echo' = [echo EXCEPT !.len = @ + BytesUntilNextObj]
  BY DEF EchoBlock, TakeBytes, EchoBytes
<1>2. /\ next_offset_index \in Nat /\ Len(objects) \in Nat /\ data_len \in Nat
      /\ next_data_index \in Nat /\ BytesUntilNextObj \in Nat
  BY BytesAhead, EntryTypes DEF IInv, ShapeInv, TypeOK
<1>3. next_data_index = 0
  BY <1>1 DEF IInv, MirrorInv, PushEnd
<1>4. next_offset_index = 0
  <2>1. SUFFICES ASSUME next_offset_index > 0 PROVE FALSE
    BY <1>2
  <2>2. 1 \in 1..Len(objects)
    BY <1>2, <2>1 DEF IInv, ShapeInv, TypeOK
  <2>3. objects[1].at \in Nat
    BY <2>2, EntryTypes DEF IInv, Entries
  <2>4. objects[1].at < next_data_index
    BY <1>1, <1>2, <2>1, <2>2 DEF IInv, MirrorInv
  <2>5. QED
    BY <1>3, <2>3, <2>4
<1>5. echo = [objects |-> <<>>, len |-> 0]
  BY <1>1 DEF IInv, EchoInv
<1>6. echo' = [objects |-> <<>>, len |-> BytesUntilNextObj]
  BY <1>1, <1>2, <1>5
<1>7. BytesUntilNextObj = NextPlace(0)
  <2>1. CASE objects = <<>>
    <3>1. BytesUntilNextObj = data_len - next_data_index
      BY <2>1, BytesAhead DEF IInv
    <3>2. QED
      BY <1>2, <1>3, <2>1, <3>1 DEF NextPlace
  <2>2. CASE objects # <<>>
    <3>1. 1 \in 1..Len(objects) /\ 0 < Len(objects)
      BY <1>2, <2>2, EmptySeq DEF IInv, ShapeInv
    <3>2. objects[1].at \in Nat /\ objects[1].at >= 2
      BY <1>1, <3>1, MessageObjects, EntryTypes DEF IInv, Entries
    <3>3. BytesUntilNextObj = objects[1].at
      BY <1>3, <2>2, <3>2, BytesAhead DEF IInv
    <3>4. QED
      BY <3>1, <3>3 DEF NextPlace
  <2>3. QED
    BY <2>1, <2>2
<1>8. ShapeInv'
  <2>1. next_data_index' \in 0..data_len
    BY <1>1, <1>2 DEF BytesReadable
  <2>2. echo' \in [objects : Seq(Entries), len : Nat]
    BY <1>2, <1>6
  <2>3. QED
    BY <1>1, <2>1, <2>2 DEF IInv, ShapeInv, TypeOK, build_vars
<1>9. EchoInv'
  <2>1. IsMessage' /\ NextPlace(next_offset_index)' = NextPlace(0)
    BY <1>1, <1>4 DEF IsMessage, NextPlace, build_vars
  <2>2. Len(echo'.objects) = next_offset_index' /\ echo'.len = NextPlace(next_offset_index)'
        /\ next_offset_index' = 0
    BY <1>1, <1>4, <1>6, <1>7, <2>1
  <2>3. QED
    BY <1>1, <2>1, <2>2 DEF EchoInv, EchoFaithful
<1>10. BuildingInv' /\ MirrorInv' /\ TakenInv'
  BY <1>1 DEF IInv, BuildingInv, MirrorInv, TakenInv
<1>11. QED
  BY <1>1, <1>8, <1>9, <1>10, PayloadKept DEF IInv

\* An object more in a reply.
LEMMA EchoObjectType ==
  ASSUME IInv, NEW k \in Kinds, EchoObject(k)
  PROVE  /\ echo' \in [objects : Seq(Entries), len : Nat]
         /\ echo'.len = Aligned(echo.len) + ObjectSize[k]
         /\ Len(echo'.objects) = Len(echo.objects) + 1
         /\ \A n \in 1..Len(echo.objects) : echo'.objects[n] = echo.objects[n]
         /\ echo'.objects[Len(echo.objects) + 1] = Placed(k, echo.len)
<1>1. echo.objects \in Seq(Entries) /\ echo.len \in Nat
  BY DEF IInv, ShapeInv
<1>2. Placed(k, echo.len) \in Entries
  BY <1>1, PlacedShape
<1>3. Aligned(echo.len) + ObjectSize[k] \in Nat
  BY <1>1, AlignedEven, SizesEven
<1>4. /\ echo'.objects = Append(echo.objects, Placed(k, echo.len))
      /\ echo'.len = Aligned(echo.len) + ObjectSize[k]
      /\ echo' = [objects |-> echo'.objects, len |-> echo'.len]
  BY DEF EchoObject
<1>5. echo'.objects \in Seq(Entries)
  BY <1>1, <1>2, <1>4, AppendProperties
<1>6. /\ Len(echo'.objects) = Len(echo.objects) + 1
      /\ \A n \in 1..Len(echo.objects) : echo'.objects[n] = echo.objects[n]
      /\ echo'.objects[Len(echo.objects) + 1] = Placed(k, echo.len)
  BY <1>1, <1>2, <1>4, AppendProperties
<1>7. echo' \in [objects : Seq(Entries), len : Nat]
  BY <1>3, <1>4, <1>5
<1>8. QED
  BY <1>4, <1>6, <1>7

LEMMA EchoRestIInv ==
  ASSUME IInv, EchoRest
  PROVE  IInv'
<1>1. phase = "echoing" /\ UNCHANGED build_vars /\ UNCHANGED followed
  BY DEF EchoRest
<1>2. /\ IsMessage /\ echo.len = NextPlace(next_offset_index)
      /\ Len(echo.objects) = next_offset_index
      /\ \A n \in 1..next_offset_index : echo.objects[n] = objects[n]
      /\ next_offset_index \in Nat /\ Len(objects) \in Nat
      /\ next_offset_index \in 0..Len(objects)
  BY <1>1, EntryTypes DEF IInv, EchoInv, ShapeInv, TypeOK
<1>3. CASE /\ TakeObject /\ phase' = phase /\ next_offset_index < Len(objects)
           /\ EchoObject(NextObject)
  <2> DEFINE o == next_offset_index + 1
             k == objects[o].what
  <2>1. /\ NextObject = k /\ k \in Kinds /\ o \in 1..Len(objects)
        /\ next_offset_index' = o /\ o \in Nat
    BY <1>1, <1>3, TakeObjectKeeps, ObjectPlaces DEF NextObject, IInv
  <2>2. /\ objects[o] \in Entries /\ objects[o].at \in Nat /\ objects[o].at % 2 = 0
        /\ objects[o].len = ObjectSize[k]
        /\ objects[o].at + objects[o].len = NextPlace(o)
    BY <1>2, <2>1, ObjectPlaces, MessageObjects DEF IInv, Entries
  <2>3. echo.len = objects[o].at /\ Aligned(echo.len) = objects[o].at
    BY <1>2, <1>3, <2>2, AlignedEven DEF NextPlace
  <2>4. Placed(k, echo.len) = objects[o]
    <3>1. objects[o] = [what |-> objects[o].what, at |-> objects[o].at, len |-> objects[o].len]
      BY <2>2 DEF Entries
    <3>2. QED
      BY <2>2, <2>3, <3>1 DEF Placed
  <2>5. /\ echo' \in [objects : Seq(Entries), len : Nat]
        /\ echo'.len = NextPlace(o)
        /\ Len(echo'.objects) = o
        /\ \A n \in 1..next_offset_index : echo'.objects[n] = objects[n]
        /\ echo'.objects[o] = objects[o]
    BY <1>2, <1>3, <2>1, <2>2, <2>3, <2>4, EchoObjectType
  <2>6. \A n \in 1..o : echo'.objects[n] = objects[n]
    <3>1. \A n \in 1..o : n \in 1..next_offset_index \/ n = o
      BY <1>2
    <3>2. QED
      BY <2>5, <3>1
  <2>7. ShapeInv' /\ TakenInv'
    BY <1>1, <1>3, <2>5, TakeObjectKeeps DEF IInv, ShapeInv, TypeOK, TakenInv, build_vars
  <2>8. EchoInv'
    <3>1. /\ IsMessage' /\ echo'.len = NextPlace(next_offset_index)'
          /\ Len(echo'.objects) = next_offset_index'
          /\ \A n \in 1..next_offset_index' : echo'.objects[n] = objects'[n]
      BY <1>1, <1>2, <2>1, <2>5, <2>6 DEF IsMessage, NextPlace, build_vars
    <3>2. QED
      BY <1>1, <1>3, <3>1 DEF EchoInv, EchoFaithful
  <2>9. BuildingInv' /\ MirrorInv'
    BY <1>1, <1>3 DEF BuildingInv, MirrorInv
  <2>10. QED
    BY <1>1, <2>7, <2>8, <2>9, PayloadKept DEF IInv
<1>4. CASE /\ phase' = "echoed" /\ UNCHANGED <<reader_vars, echo>>
           /\ next_offset_index = Len(objects)
  <2>1. echo = [objects |-> objects, len |-> data_len]
    <3>1. echo.len = data_len
      BY <1>2, <1>4 DEF NextPlace
    <3>2. echo.objects = objects
      BY <1>2, <1>4, SeqEqual DEF IInv, ShapeInv
    <3>3. echo = [objects |-> echo.objects, len |-> echo.len]
      BY DEF IInv, ShapeInv
    <3>4. QED
      BY <3>1, <3>2, <3>3
  <2>2. ShapeInv'
    BY <1>1, <1>4 DEF IInv, ShapeInv, TypeOK, build_vars, reader_vars
  <2>3. BuildingInv' /\ MirrorInv' /\ TakenInv' /\ EchoInv'
    BY <1>1, <1>4, <2>1
       DEF IInv, BuildingInv, MirrorInv, TakenInv, EchoInv, EchoFaithful, build_vars,
           reader_vars
  <2>4. QED
    BY <1>1, <2>2, <2>3, PayloadKept DEF IInv
<1>5. <1>3!1 \/ <1>4!1
  <2> DEFINE k == IF Due("binder") > 0 THEN "binder" ELSE "fd"
  <2>1. CASE Due(k) > 0 /\ NextObject = k
    <3>1. TakeObject /\ EchoObject(k) /\ phase' = phase
      BY <2>1 DEF EchoRest
    <3>2. next_offset_index < Len(objects)
      BY <2>1 DEF NextObject
    <3>3. QED
      BY <2>1, <3>1, <3>2
  <2>2. CASE ~(Due(k) > 0 /\ NextObject = k)
    <3>1. phase' = "echoed" /\ UNCHANGED <<reader_vars, echo>>
      BY <1>1, <2>2 DEF EchoRest, reader_vars
    <3>2. ~(next_offset_index < Len(objects))
      BY <1>1, <2>2, DueNext DEF NextObject
    <3>3. QED
      BY <1>2, <3>1, <3>2
  <2>3. QED
    BY <2>1, <2>2
<1>6. QED
  BY <1>3, <1>4, <1>5

LEMMA StartWalkIInv ==
  ASSUME IInv, StartWalk
  PROVE  IInv'
<1>1. /\ phase = "reading" /\ followed = 0 /\ phase' = "scanning"
      /\ UNCHANGED build_vars /\ UNCHANGED reader_vars /\ UNCHANGED echo
  BY DEF StartWalk
<1>2. ShapeInv'
  BY <1>1 DEF IInv, ShapeInv, TypeOK, build_vars, reader_vars
<1>3. next_data_index = 0 /\ echo = [objects |-> <<>>, len |-> 0]
  BY <1>1 DEF IInv, MirrorInv, EchoInv, PushEnd
<1>4. EchoInv'
  BY <1>1, <1>3 DEF EchoInv, EchoFaithful, reader_vars
<1>5. BuildingInv' /\ MirrorInv' /\ TakenInv'
  BY <1>1 DEF IInv, BuildingInv, MirrorInv, TakenInv, reader_vars
<1>6. QED
  BY <1>1, <1>2, <1>4, <1>5, PayloadKept DEF IInv

LEMMA WalkOnIInv ==
  ASSUME IInv, WalkOn
  PROVE  IInv'
<1>1. phase = "scanning" /\ UNCHANGED build_vars /\ UNCHANGED followed
  BY DEF WalkOn, Walk
<1>2. /\ next_data_index \in 0..data_len /\ next_data_index \in Nat /\ data_len \in Nat
      /\ BytesUntilNextObj \in Nat
      /\ objects = <<>> => /\ echo = [objects |-> <<>>, len |-> next_data_index]
                           /\ BytesUntilNextObj = data_len - next_data_index
  BY <1>1, BytesAhead DEF IInv, ShapeInv, TypeOK, EchoInv
<1>3. CASE /\ BytesReadable(BytesUntilNextObj) /\ TakeBytes
           /\ EchoBytes(BytesUntilNextObj) /\ UNCHANGED phase
  <2>1. /\ next_data_index' = next_data_index + BytesUntilNextObj
        /\ next_data_index' \in 0..data_len
        /\ UNCHANGED <<next_offset_index, taken, lost>>
        /\ echo' = [echo EXCEPT !.len = @ + BytesUntilNextObj]
    BY <1>2, <1>3 DEF TakeBytes, EchoBytes, BytesReadable
  <2>2. echo' \in [objects : Seq(Entries), len : Nat]
    <3>1. echo \in [objects : Seq(Entries), len : Nat]
      BY DEF IInv, ShapeInv
    <3>2. echo.len + BytesUntilNextObj \in Nat
      BY <1>2, <3>1
    <3>3. QED
      BY <2>1, <3>1, <3>2
  <2>3. ShapeInv'
    BY <1>1, <1>3, <2>1, <2>2 DEF IInv, ShapeInv, TypeOK, build_vars
  <2>4. objects = <<>> => echo' = [objects |-> <<>>, len |-> next_data_index']
    BY <1>2, <2>1
  <2>5. EchoInv'
    BY <1>1, <1>3, <2>4 DEF EchoInv, EchoFaithful, build_vars
  <2>6. BuildingInv' /\ MirrorInv' /\ TakenInv'
    BY <1>1, <1>3, <2>1 DEF IInv, BuildingInv, MirrorInv, TakenInv
  <2>7. QED
    BY <1>1, <2>3, <2>5, <2>6, PayloadKept DEF IInv
<1>4. CASE /\ NextObject \in {"binder", "fd"} /\ TakeObject
           /\ EchoObject(NextObject) /\ UNCHANGED phase
  <2>1. next_offset_index < Len(objects) /\ NextObject \in Kinds
    BY <1>4 DEF NextObject, Kinds
  <2>2. ShapeInv' /\ TakenInv'
    BY <1>1, <1>4, <2>1, TakeObjectKeeps, EchoObjectType
       DEF IInv, ShapeInv, TypeOK, TakenInv, build_vars
  <2>3. objects # <<>>
    BY <2>1, EntryTypes DEF IInv, ShapeInv, TypeOK
  <2>4. BuildingInv' /\ MirrorInv' /\ EchoInv'
    BY <1>1, <1>4, <2>3 DEF BuildingInv, MirrorInv, EchoInv, EchoFaithful, build_vars
  <2>5. QED
    BY <1>1, <2>2, <2>4, PayloadKept DEF IInv
<1>5. CASE /\ BytesUntilNextObj = 0 /\ phase' \in {"panicked", "scanned"}
           /\ UNCHANGED <<reader_vars, echo>>
  <2>1. ShapeInv'
    BY <1>1, <1>5 DEF IInv, ShapeInv, TypeOK, build_vars, reader_vars
  <2>2. objects = <<>> => next_data_index = data_len
    BY <1>2, <1>5
  <2>3. BuildingInv' /\ MirrorInv' /\ TakenInv' /\ EchoInv'
    BY <1>1, <1>2, <1>5, <2>2
       DEF IInv, BuildingInv, MirrorInv, TakenInv, EchoInv, EchoFaithful, build_vars,
           reader_vars
  <2>4. QED
    BY <1>1, <2>1, <2>3, PayloadKept DEF IInv
<1>6. QED
  BY <1>1, <1>3, <1>4, <1>5 DEF WalkOn, Walk, reader_vars
-----------------------------------------------------------------------------
(* Theorems.                                                               *)

LEMMA NextIInv ==
  ASSUME IInv, [Next]_vars
  PROVE  IInv'
<1>1. CASE \E n \in 1..MaxBytes : PushBytes(n)
  BY <1>1, PushBytesIInv
<1>2. CASE \E k \in ObjectKinds : PushObject(k)
  BY <1>2, PushObjectIInv
<1>3. CASE Send \/ SendLocally
  BY <1>3, SendIInv
<1>4. CASE \E n \in (1..MaxBytes) \cup {BytesUntilNextObj} : ReadBytes(n)
  BY <1>4, ReadBytesIInv
<1>5. CASE ReadObject
  BY <1>5, ReadObjectIInv
<1>6. CASE EchoBlock
  BY <1>6, EchoBlockIInv
<1>7. CASE EchoRest
  BY <1>7, EchoRestIInv
<1>8. CASE StartWalk
  BY <1>8, StartWalkIInv
<1>9. CASE WalkOn
  BY <1>9, WalkOnIInv
<1>10. CASE StartDrop
  BY <1>10, StartDropIInv
<1>11. CASE DrainObject \/ DrainUnknown
  BY <1>11, DrainIInv
<1>12. CASE Free
  BY <1>12, FreeIInv
<1>13. CASE DrainUnsupported \/ UNCHANGED vars
  <2>1. UNCHANGED vars
    BY <1>13 DEF DrainUnsupported
  <2>2. UNCHANGED build_vars /\ UNCHANGED reader_vars /\ UNCHANGED phase /\ UNCHANGED echo
    BY <2>1 DEF vars
  <2>3. ShapeInv'
    BY <2>2 DEF IInv, ShapeInv, TypeOK, build_vars, reader_vars
  <2>4. PushEnd(followed)' = PushEnd(followed) /\ IsMessage' = IsMessage
        /\ NextPlace(next_offset_index)' = NextPlace(next_offset_index)
    BY <2>2 DEF PushEnd, IsMessage, NextPlace, build_vars, reader_vars
  <2>5. BuildingInv' /\ MirrorInv' /\ TakenInv' /\ EchoInv'
    BY <2>2, <2>4
       DEF IInv, BuildingInv, MirrorInv, TakenInv, EchoInv, EchoFaithful, build_vars,
           reader_vars
  <2>6. QED
    BY <2>2, <2>3, <2>5, PayloadKept DEF IInv
<1>14. QED
  BY <1>1, <1>2, <1>3, <1>4, <1>5, <1>6, <1>7, <1>8, <1>9, <1>10, <1>11, <1>12, <1>13
     DEF Next, Drain

\* The pushes, the objects among them and both cursors of the reader keep to the places
\* that the builder gave out.
THEOREM PayloadInvariant == Spec => []IInv
<1>1. Init => IInv
  BY InitIInv
<1>2. IInv /\ [Next]_vars => IInv'
  BY NextIInv
<1>3. QED
  BY <1>1, <1>2, PTL DEF Spec

\* The cursors of a reader stay inside the data and the offsets, for every mix of
\* objects, every order of reads and every drop.
THEOREM PayloadTypeCorrect == Spec => []TypeOK
<1>1. IInv => TypeOK
  BY DEF IInv, ShapeInv
<1>2. QED
  BY <1>1, PayloadInvariant, PTL

\* read_bytes, read_binder_ref and read_fd, called in the order of the pushes, find
\* each of them, whatever padding lies between.
THEOREM ReadsMirrorPushes == Spec => []RoundTrip
<1>1. IInv => RoundTrip
  BY MirrorFinds
<1>2. QED
  BY <1>1, PayloadInvariant, PTL

\* PayloadBuilder aligns every object and lays none over another.
THEOREM ObjectsApartInData == Spec => []ObjectsDisjoint
<1>1. IInv => ObjectsDisjoint
  BY DisjointObjects DEF IInv
<1>2. QED
  BY <1>1, PayloadInvariant, PTL

\* When PayloadReader::drop frees the buffer, each object was handed out or drained,
\* once, however far the application has read.
THEOREM ObjectsTakenOnce == Spec => []EachObjectOnce
<1>1. IInv => EachObjectOnce
  BY DEF IInv, TakenInv, EachObjectOnce
<1>2. QED
  BY <1>1, PayloadInvariant, PTL

\* echo_into of the benchmark sends every message back as it came, with any number of
\* references and descriptors.
THEOREM EchoesAreFaithful == Spec => []EchoFaithful
<1>1. IInv => EchoFaithful
  BY DEF IInv, EchoInv
<1>2. QED
  BY <1>1, PayloadInvariant, PTL
=============================================================================
