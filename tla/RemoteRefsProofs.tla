-------------------------- MODULE RemoteRefsProofs --------------------------
(***************************************************************************)
(* What the lookups, copies and destructors of BinderRef and WeakBinderRef *)
(* keep, whatever overlaps: for every finite set of holders and of values, *)
(* and every set of nodes.                                                 *)
(***************************************************************************)
EXTENDS RemoteRefs, TLAPS, FiniteSetTheorems

\* Where a holder has an Arc<BinderRef>, where it has an Arc<WeakBinderRef>, and
\* where it makes or destroys a WeakBinderRef.
HasStrong == {"holdS", "release", "removeS"}
HasWeak == {"holdW", "acquire", "publishS"}
Making == {"incref", "request", "publishW"}
Unmaking == {"clear", "forget", "decref", "removeW"}

\* Somebody is at one of these places with w.
At(w, places) == \E h \in Holders : pc[h] \in places /\ wref[h] = w

\* What a holder has, place by place.
PlaceInv ==
  \A h \in Holders :
    /\ sref[h] # None <=> pc[h] \in HasStrong
    /\ wref[h] # None <=> pc[h] \in HasWeak \cup Making \cup Unmaking
    /\ h \in wants => pc[h] \in Reading
    /\ pc[h] \in {"findS", "acquire", "publishS"} => h \in wants

\* A BinderRef exists as long as somebody has it, and its destructor has it alone.
StrongInv ==
  /\ \A b \in Strongs : weak_of[b] # None <=> \E h \in Holders : sref[h] = b
  /\ \A h, g \in Holders :
       pc[h] \in {"release", "removeS"} /\ g # h => sref[g] # sref[h]

\* The constructor and the destructor of a WeakBinderRef have it alone.
WeakInv ==
  \A h \in Holders :
    pc[h] \in Making \cup Unmaking =>
      ~WeakAlive(wref[h]) /\ \A g \in Holders \ {h} : wref[g] # wref[h]

\* The driver counts one ACQUIRE for each BinderRef up to its RELEASE, and for each
\* holder between the ACQUIRE and the BinderRef that it is for; and one INCREFS for
\* each WeakBinderRef up to its DECREFS.
StrongUnits ==
  {b \in Strongs : weak_of[b] # None /\ ~\E h \in Holders : pc[h] = "removeS" /\ sref[h] = b}
Acquired == {h \in Holders : pc[h] = "publishS"}
WeakUnits ==
  {w \in Weaks : WeakAlive(w) \/ At(w, {"request", "publishW", "clear", "forget", "decref"})}
CountInv ==
  /\ kstrong = Cardinality(StrongUnits) + Cardinality(Acquired)
  /\ kweak = Cardinality(WeakUnits)

\* The handle names a node while a count or a buffer holds it, and it is the node of
\* every value that is counted.
NodeInv ==
  /\ knode = None <=> kstrong = 0 /\ kweak = 0 /\ Buffers(Holders) = {}
  /\ \A b \in Strongs : weak_of[b] # None => node_of[b] = knode
  /\ \A w \in Weaks : w \in WeakUnits \/ At(w, {"incref"}) => node_of[w] = knode

\* An entry of a table is there for a value that exists, or is being destroyed; and a
\* WeakBinderRef has its token, unless that is cancelled.
TableInv ==
  /\ refs # None => weak_of[refs] # None
  /\ weak_refs # None => WeakAlive(weak_refs) \/ At(weak_refs, Unmaking)
  /\ \A w \in death_notifications : WeakAlive(w) \/ At(w, Making \cup {"clear", "forget"})
  /\ \A w \in Weaks :
       WeakAlive(w) \/ At(w, Making \cup {"clear", "forget"})
         => w \in death_notifications \cup cancelled

\* A cancelled token, and a BR_DEAD_BINDER in the queue, are of a dead node, or of a
\* value that no longer exists.
Exists(w) == WeakAlive(w) \/ At(w, Making \cup Unmaking)
DeathInv ==
  /\ kdeath # None => WeakAlive(kdeath) \/ At(kdeath, {"publishW", "clear"})
  /\ \A w \in cancelled : Exists(w) /\ node_of[w] \in kdead
  /\ \A w \in kqueue : Exists(w) => node_of[w] \in kdead

\* Without overlap, one holder at most is in a lookup or a destructor; all others
\* have the same values, those in the tables; none is there while one is made or
\* destroyed; and the driver has the notification of the WeakBinderRef there is.
Quiet == {"idle", "holdS", "holdW"}
OneBusy == \A h, g \in Holders : h # g => pc[h] \in Quiet \/ pc[g] \in Quiet
OneStrong ==
  /\ \A g \in Holders : pc[g] = "holdS" => refs = sref[g]
  /\ \A h \in Holders :
       pc[h] \in {"release", "removeS"} \/ (h \in wants /\ pc[h] # "findS")
         => \A g \in Holders : pc[g] # "holdS"
OneWeak ==
  /\ \A w \in Weaks : WeakAlive(w) => weak_refs = w
  /\ \A h \in Holders : pc[h] \in Making \cup Unmaking => \A w \in Weaks : ~WeakAlive(w)
Armed ==
  \A w \in Weaks :
    WeakAlive(w) \/ At(w, {"publishW"}) =>
      kdeath = w /\ (node_of[w] \in kdead => w \in kqueue \cup cancelled)
SoloInv == ~overlapping => OneBusy /\ OneStrong /\ OneWeak /\ Armed

IInv ==
  /\ TypeOK /\ PlaceInv /\ StrongInv /\ WeakInv
  /\ CountInv /\ NodeInv /\ TableInv /\ DeathInv /\ SoloInv
-----------------------------------------------------------------------------
(* Counting.                                                               *)

\* One more, and one less.
LEMMA AddOne ==
  ASSUME NEW S, IsFiniteSet(S), NEW x, x \notin S
  PROVE  Cardinality(S \cup {x}) = Cardinality(S) + 1
BY FS_AddElement

LEMMA RemoveOne ==
  ASSUME NEW S, IsFiniteSet(S), NEW x \in S
  PROVE  Cardinality(S \ {x}) = Cardinality(S) - 1
BY FS_RemoveElement

\* What is counted is finite.
LEMMA FiniteUnits ==
  /\ IsFiniteSet(StrongUnits) /\ IsFiniteSet(Acquired) /\ IsFiniteSet(WeakUnits)
  /\ /\ Cardinality(StrongUnits) \in Nat
     /\ Cardinality(Acquired) \in Nat
     /\ Cardinality(WeakUnits) \in Nat
<1>1. IsFiniteSet(StrongUnits) /\ IsFiniteSet(Acquired) /\ IsFiniteSet(WeakUnits)
  BY FS_Subset, ValuesAssumption DEF StrongUnits, Acquired, WeakUnits
<1>2. QED
  BY <1>1, FS_CardinalityType

\* A count of the driver is zero when there is nothing that it counts.
LEMMA ZeroCounts ==
  ASSUME CountInv
  PROVE  /\ kstrong = 0 <=> StrongUnits = {} /\ Acquired = {}
         /\ kweak = 0 <=> WeakUnits = {}
BY FiniteUnits, FS_EmptySet DEF CountInv

\* A step that neither counts nor changes what is counted.
LEMMA CountKept ==
  ASSUME CountInv, StrongUnits' = StrongUnits, Acquired' = Acquired,
         WeakUnits' = WeakUnits, kstrong' = kstrong, kweak' = kweak
  PROVE  CountInv'
BY DEF CountInv

\* No buffer is left when nobody reads.
LEMMA NoBuffers == Buffers(Holders) = {} <=> \A h \in Holders : pc[h] \notin Reading
BY DEF Buffers
-----------------------------------------------------------------------------
USE DEF Places, Reading, Dropping, HasStrong, HasWeak, Making, Unmaking

\* read_binder_ref begins with a payload that holds the handle: its buffer keeps the
\* handle's node, the one that all counted values were made for.
LEMMA ReceiveIInv ==
  ASSUME IInv, NEW h \in Holders, NEW n \in Nodes, Receive(h, n)
  PROVE  IInv'
<1> USE NoneAssumption DEF IInv, TypeOK, Receive, Goto, MayBegin, value_vars, table_vars
<1>1. TypeOK'
  OBVIOUS
<1>2. PlaceInv'
  BY DEF PlaceInv
<1>3. StrongInv'
  BY DEF StrongInv
<1>4. WeakInv'
  BY DEF WeakInv, WeakUsed, WeakAlive
<1>5. CountInv'
  <2>1. StrongUnits' = StrongUnits /\ Acquired' = Acquired
    BY DEF StrongUnits, Acquired
  <2>2. WeakUnits' = WeakUnits
    BY DEF WeakUnits, WeakUsed, At, WeakAlive
  <2>3. QED
    BY <2>1, <2>2, CountKept
<1>6. NodeInv'
  BY <1>5, ZeroCounts DEF NodeInv, Buffers, WeakUnits, WeakUsed, At, WeakAlive
<1>7. TableInv'
  BY DEF TableInv, WeakUsed, At, WeakAlive
<1>8. DeathInv'
  BY DEF DeathInv, WeakUsed, At, Exists, WeakAlive
<1>9. SoloInv'
  BY DEF SoloInv, OneBusy, OneStrong, OneWeak, Armed, WeakUsed, At, Quiet, WeakAlive
<1>10. QED
  BY <1>1, <1>2, <1>3, <1>4, <1>5, <1>6, <1>7, <1>8, <1>9

\* get_and_dedup_from_raw finds a BinderRef that somebody still has and shares it, or
\* goes on; the buffer that kept the handle may be the last thing that did.
LEMMA FindStrongIInv ==
  ASSUME IInv, NEW h \in Holders, FindStrong(h)
  PROVE  IInv'
<1> USE NoneAssumption
      DEF IInv, TypeOK, FindStrong, Goto, EndRead, SetCounts, value_vars, table_vars,
          kernel_vars
<1>1. TypeOK'
  OBVIOUS
<1>2. PlaceInv'
  BY DEF PlaceInv
<1>3. StrongInv'
  BY DEF PlaceInv, StrongInv, StrongAlive
<1>4. WeakInv'
  BY DEF WeakInv, WeakUsed, WeakAlive
<1>5. CountInv'
  <2>1. StrongUnits' = StrongUnits /\ Acquired' = Acquired
    BY DEF StrongUnits, Acquired
  <2>2. WeakUnits' = WeakUnits
    BY DEF WeakUnits, WeakUsed, At, WeakAlive
  <2>3. QED
    BY <2>1, <2>2, CountKept
<1>6. NodeInv'
  BY <1>5, ZeroCounts DEF NodeInv, Buffers, WeakUnits, WeakUsed, At, WeakAlive
<1>7. TableInv'
  BY DEF TableInv, WeakUsed, At, WeakAlive
<1>8. DeathInv'
  BY DEF DeathInv, WeakUsed, At, Exists, WeakAlive
<1>9. SoloInv'
  <2> SUFFICES ASSUME ~overlapping PROVE OneBusy' /\ OneStrong' /\ OneWeak' /\ Armed'
    BY DEF SoloInv
  <2> USE DEF SoloInv
  <2>1. OneBusy'
    BY DEF OneBusy, Quiet
  <2>2. OneStrong'
    BY DEF PlaceInv, OneStrong, StrongAlive
  <2>3. OneWeak'
    BY DEF OneWeak, WeakUsed, WeakAlive
  <2>4. Armed'
    BY ZeroCounts DEF WeakUnits, Armed, WeakUsed, At, WeakAlive
  <2>5. QED
    BY <2>1, <2>2, <2>3, <2>4
<1>10. QED
  BY <1>1, <1>2, <1>3, <1>4, <1>5, <1>6, <1>7, <1>8, <1>9

\* The lookup of weak_refs shares the WeakBinderRef that is there, or makes one of a
\* cookie that is nowhere else, whose token is in death_notifications from the start.
LEMMA FindWeakIInv ==
  ASSUME IInv, NEW h \in Holders, FindWeak(h)
  PROVE  IInv'
<1> USE NoneAssumption
      DEF IInv, TypeOK, FindWeak, Goto, FreshWeak, EndRead, SetCounts, kernel_vars
<1>1. TypeOK'
  OBVIOUS
<1>2. PlaceInv'
  BY DEF PlaceInv
<1>3. StrongInv'
  BY DEF StrongInv
<1>4. WeakInv'
  BY DEF WeakInv, WeakUsed, WeakAlive
<1>5. CountInv'
  <2>1. StrongUnits' = StrongUnits /\ Acquired' = Acquired
    BY DEF StrongUnits, Acquired
  <2>2. WeakUnits' = WeakUnits
    BY DEF WeakUnits, WeakUsed, At, WeakAlive
  <2>3. QED
    BY <2>1, <2>2, CountKept
<1>6. NodeInv'
  BY <1>5, ZeroCounts DEF NodeInv, Buffers, WeakUnits, WeakUsed, At, WeakAlive
<1>7. TableInv'
  BY DEF TableInv, WeakUsed, At, WeakAlive
<1>8. DeathInv'
  BY DEF DeathInv, WeakUsed, At, Exists, WeakAlive
<1>9. SoloInv'
  <2> SUFFICES ASSUME ~overlapping PROVE OneBusy' /\ OneStrong' /\ OneWeak' /\ Armed'
    BY DEF SoloInv
  <2> USE DEF SoloInv
  <2>1. OneBusy'
    BY DEF OneBusy, Quiet
  <2>2. OneStrong'
    BY DEF OneStrong
  <2>3. OneWeak'
    BY DEF OneWeak, WeakUsed, WeakAlive
  <2>4. Armed'
    BY ZeroCounts DEF WeakUnits, Armed, WeakUsed, At, WeakAlive
  <2>5. QED
    BY <2>1, <2>2, <2>3, <2>4
<1>10. QED
  BY <1>1, <1>2, <1>3, <1>4, <1>5, <1>6, <1>7, <1>8, <1>9

\* BC_INCREFS: the new WeakBinderRef counts from now on.
LEMMA IncRefsIInv ==
  ASSUME IInv, NEW h \in Holders, IncRefs(h)
  PROVE  IInv'
<1> USE NoneAssumption DEF IInv, TypeOK, IncRefs, Goto, SetCounts, value_vars, table_vars
<1>1. TypeOK'
  OBVIOUS
<1>2. PlaceInv'
  BY DEF PlaceInv
<1>3. StrongInv'
  BY DEF StrongInv
<1>4. WeakInv'
  BY DEF WeakInv, WeakUsed, WeakAlive
<1>5. CountInv'
  <2>1. StrongUnits' = StrongUnits /\ Acquired' = Acquired
    BY DEF StrongUnits, Acquired
  <2>2. WeakUnits' = WeakUnits \cup {wref[h]} /\ wref[h] \notin WeakUnits
    BY DEF PlaceInv, WeakInv, WeakUnits, WeakUsed, At, WeakAlive
  <2>3. Cardinality(WeakUnits') = Cardinality(WeakUnits) + 1
    BY <2>2, FiniteUnits, AddOne
  <2>4. QED
    BY <2>1, <2>3 DEF CountInv
<1>6. NodeInv'
  BY <1>5, NoBuffers DEF NodeInv, WeakUnits, WeakUsed, At, WeakAlive
<1>7. TableInv'
  BY DEF TableInv, WeakUsed, At, WeakAlive
<1>8. DeathInv'
  BY DEF DeathInv, WeakUsed, At, Exists, WeakAlive
<1>9. SoloInv'
  BY DEF SoloInv, OneBusy, OneStrong, OneWeak, Armed, WeakUsed, At, Quiet, WeakAlive
<1>10. QED
  BY <1>1, <1>2, <1>3, <1>4, <1>5, <1>6, <1>7, <1>8, <1>9

\* BC_REQUEST_DEATH_NOTIFICATION: the driver takes the cookie of the new WeakBinderRef,
\* or has one already, which without overlap it cannot.
LEMMA RequestDeathIInv ==
  ASSUME IInv, NEW h \in Holders, RequestDeath(h)
  PROVE  IInv'
<1> USE NoneAssumption DEF IInv, TypeOK, RequestDeath, Goto, value_vars, table_vars
<1>1. TypeOK'
  BY DEF PlaceInv
<1>2. PlaceInv'
  BY DEF PlaceInv
<1>3. StrongInv'
  BY DEF StrongInv
<1>4. WeakInv'
  BY DEF WeakInv, WeakUsed, WeakAlive
<1>5. CountInv'
  <2>1. StrongUnits' = StrongUnits /\ Acquired' = Acquired
    BY DEF StrongUnits, Acquired
  <2>2. WeakUnits' = WeakUnits
    BY DEF WeakUnits, WeakUsed, At, WeakAlive
  <2>3. QED
    BY <2>1, <2>2, CountKept
<1>6. NodeInv'
  BY <1>5, ZeroCounts DEF PlaceInv, NodeInv, WeakUnits, WeakUsed, At, WeakAlive
<1>7. TableInv'
  BY DEF TableInv, WeakUsed, At, WeakAlive
<1>8. DeathInv'
  BY DEF PlaceInv, NodeInv, DeathInv, WeakUsed, At, Exists, WeakUnits, WeakAlive
<1>9. SoloInv'
  BY
     DEF NodeInv, DeathInv, SoloInv, OneBusy, OneStrong, OneWeak, Armed, WeakUsed, At,
         WeakUnits, Quiet, WeakAlive
<1>10. QED
  BY <1>1, <1>2, <1>3, <1>4, <1>5, <1>6, <1>7, <1>8, <1>9

\* weak_refs.insert: the WeakBinderRef is finished, and its maker goes on to the
\* BinderRef or is done.
LEMMA PublishWeakIInv ==
  ASSUME IInv, NEW h \in Holders, PublishWeak(h)
  PROVE  IInv'
<1> USE NoneAssumption
      DEF IInv, TypeOK, PublishWeak, Goto, EndRead, SetCounts, value_vars, kernel_vars
<1>1. TypeOK'
  OBVIOUS
<1>2. PlaceInv'
  BY DEF PlaceInv
<1>3. StrongInv'
  BY DEF StrongInv
<1>4. WeakInv'
  BY DEF WeakInv, WeakUsed, WeakAlive
<1>5. CountInv'
  <2>1. StrongUnits' = StrongUnits /\ Acquired' = Acquired
    BY DEF StrongUnits, Acquired
  <2>2. WeakUnits' = WeakUnits
    BY DEF WeakUnits, WeakUsed, At, WeakAlive
  <2>3. QED
    BY <2>1, <2>2, CountKept
<1>6. NodeInv'
  BY <1>5, ZeroCounts DEF PlaceInv, NodeInv, WeakUnits, WeakUsed, At, WeakAlive
<1>7. TableInv'
  BY DEF TableInv, WeakUsed, At, WeakAlive
<1>8. DeathInv'
  BY DEF DeathInv, WeakUsed, At, Exists, WeakAlive
<1>9. SoloInv'
  <2> SUFFICES ASSUME ~overlapping PROVE OneBusy' /\ OneStrong' /\ OneWeak' /\ Armed'
    BY DEF SoloInv
  <2> USE DEF SoloInv
  <2>1. OneBusy'
    BY DEF OneBusy, Quiet
  <2>2. OneStrong'
    BY DEF OneStrong
  <2>3. OneWeak'
    BY DEF OneBusy, OneWeak, WeakUsed, Quiet, WeakAlive
  <2>4. Armed'
    BY ZeroCounts DEF WeakUnits, Armed, WeakUsed, At, WeakAlive
  <2>5. QED
    BY <2>1, <2>2, <2>3, <2>4
<1>10. QED
  BY <1>1, <1>2, <1>3, <1>4, <1>5, <1>6, <1>7, <1>8, <1>9

\* BC_ACQUIRE: counted for its caller until the BinderRef exists.
LEMMA AcquireIInv ==
  ASSUME IInv, NEW h \in Holders, Acquire(h)
  PROVE  IInv'
<1> USE NoneAssumption DEF IInv, TypeOK, Acquire, Goto, SetCounts, value_vars, table_vars
<1>1. TypeOK'
  OBVIOUS
<1>2. PlaceInv'
  BY DEF PlaceInv
<1>3. StrongInv'
  BY DEF StrongInv
<1>4. WeakInv'
  BY DEF WeakInv, WeakUsed, WeakAlive
<1>5. CountInv'
  <2>1. StrongUnits' = StrongUnits
    BY DEF StrongUnits
  <2>2. WeakUnits' = WeakUnits
    BY DEF WeakUnits, WeakUsed, At, WeakAlive
  <2>3. Acquired' = Acquired \cup {h} /\ h \notin Acquired
    BY DEF Acquired
  <2>4. Cardinality(Acquired') = Cardinality(Acquired) + 1
    BY <2>3, FiniteUnits, AddOne
  <2>5. QED
    BY <2>1, <2>2, <2>4, FiniteUnits DEF CountInv
<1>6. NodeInv'
  BY <1>5, NoBuffers DEF NodeInv, WeakUnits, WeakUsed, At, WeakAlive
<1>7. TableInv'
  BY DEF TableInv, WeakUsed, At, WeakAlive
<1>8. DeathInv'
  BY DEF DeathInv, WeakUsed, At, Exists, WeakAlive
<1>9. SoloInv'
  BY DEF SoloInv, OneBusy, OneStrong, OneWeak, Armed, WeakUsed, At, Quiet, WeakAlive
<1>10. QED
  BY <1>1, <1>2, <1>3, <1>4, <1>5, <1>6, <1>7, <1>8, <1>9

\* refs.insert: the count passes from the caller to the BinderRef it made.
LEMMA PublishStrongIInv ==
  ASSUME IInv, NEW h \in Holders, PublishStrong(h)
  PROVE  IInv'
<1> USE NoneAssumption DEF IInv, TypeOK, PublishStrong, Goto, FreshStrong, EndRead, SetCounts
<1>1. TypeOK'
  OBVIOUS
<1>2. PlaceInv'
  BY DEF PlaceInv
<1>3. StrongInv'
  BY DEF PlaceInv, StrongInv
<1>4. WeakInv'
  BY DEF WeakInv, WeakUsed, WeakAlive
<1>5. CountInv'
  <2>1. PICK b \in Strongs : weak_of[b] = None /\ weak_of' = [weak_of EXCEPT ![b] = wref[h]]
                             /\ sref' = [sref EXCEPT ![h] = b]
    OBVIOUS
  <2>2. StrongUnits' = StrongUnits \cup {b} /\ b \notin StrongUnits
    BY <2>1 DEF PlaceInv, StrongInv, StrongUnits
  <2>3. Acquired' = Acquired \ {h} /\ h \in Acquired
    BY DEF Acquired
  <2>4. WeakUnits' = WeakUnits
    BY DEF WeakUnits, WeakUsed, At, WeakAlive
  <2>5. /\ Cardinality(StrongUnits') = Cardinality(StrongUnits) + 1
        /\ Cardinality(Acquired') = Cardinality(Acquired) - 1
    BY <2>2, <2>3, FiniteUnits, AddOne, RemoveOne
  <2>6. QED
    BY <2>4, <2>5, FiniteUnits DEF CountInv
<1>6. NodeInv'
  BY <1>5, ZeroCounts DEF PlaceInv, NodeInv, WeakUnits, WeakUsed, At, WeakAlive
<1>7. TableInv'
  BY DEF PlaceInv, TableInv, WeakUsed, At, WeakAlive
<1>8. DeathInv'
  BY ZeroCounts, ValuesAssumption DEF DeathInv, WeakUnits, WeakUsed, At, Exists, WeakAlive
<1>9. SoloInv'
  <2> SUFFICES ASSUME ~overlapping PROVE OneBusy' /\ OneStrong' /\ OneWeak' /\ Armed'
    BY DEF SoloInv
  <2> USE DEF SoloInv
  <2>1. OneBusy'
    BY DEF OneBusy, Quiet
  <2>2. OneStrong'
    BY DEF PlaceInv, OneBusy, OneStrong, Quiet
  <2>3. OneWeak'
    BY DEF OneWeak, WeakUsed, WeakAlive
  <2>4. Armed'
    BY ZeroCounts, ValuesAssumption DEF WeakUnits, Armed, WeakUsed, At, WeakAlive
  <2>5. QED
    BY <2>1, <2>2, <2>3, <2>4
<1>10. QED
  BY <1>1, <1>2, <1>3, <1>4, <1>5, <1>6, <1>7, <1>8, <1>9

\* Arc::clone and BinderRef::downgrade: one more has what exists already.
LEMMA ShareIInv ==
  ASSUME IInv, NEW h \in Holders, NEW g \in Holders, Share(h, g)
  PROVE  IInv'
<1> USE NoneAssumption DEF IInv, TypeOK, Share, Goto, value_vars, table_vars, kernel_vars
<1>1. TypeOK'
  BY DEF PlaceInv
<1>2. PlaceInv'
  BY DEF PlaceInv, StrongInv
<1>3. StrongInv'
  BY DEF PlaceInv, StrongInv
<1>4. WeakInv'
  BY DEF PlaceInv, WeakInv, WeakUsed, WeakAlive
<1>5. CountInv'
  <2>1. StrongUnits' = StrongUnits /\ Acquired' = Acquired
    BY DEF StrongUnits, Acquired
  <2>2. WeakUnits' = WeakUnits
    BY DEF PlaceInv, WeakUnits, WeakUsed, At, WeakAlive
  <2>3. QED
    BY <2>1, <2>2, CountKept
<1>6. NodeInv'
  BY <1>5, ZeroCounts DEF PlaceInv, StrongInv, NodeInv, WeakUnits, WeakUsed, At, WeakAlive
<1>7. TableInv'
  BY DEF PlaceInv, TableInv, WeakUsed, At, WeakAlive
<1>8. DeathInv'
  BY DEF PlaceInv, DeathInv, WeakUsed, At, Exists, WeakAlive
<1>9. SoloInv'
  BY DEF PlaceInv, SoloInv, OneBusy, OneStrong, OneWeak, Armed, WeakUsed, At, Quiet, WeakAlive
<1>10. QED
  BY <1>1, <1>2, <1>3, <1>4, <1>5, <1>6, <1>7, <1>8, <1>9

\* WeakBinderRef::upgrade finds a BinderRef that somebody still has.
LEMMA UpgradeIInv ==
  ASSUME IInv, NEW h \in Holders, NEW g \in Holders, Upgrade(h, g)
  PROVE  IInv'
<1> USE NoneAssumption
      DEF IInv, TypeOK, Upgrade, Goto, StrongAlive, value_vars, table_vars, kernel_vars
<1>1. TypeOK'
  OBVIOUS
<1>2. PlaceInv'
  BY DEF PlaceInv
<1>3. StrongInv'
  BY DEF PlaceInv, StrongInv
<1>4. WeakInv'
  BY DEF WeakInv, WeakUsed, WeakAlive
<1>5. CountInv'
  <2>1. StrongUnits' = StrongUnits /\ Acquired' = Acquired
    BY DEF StrongUnits, Acquired
  <2>2. WeakUnits' = WeakUnits
    BY DEF WeakUnits, WeakUsed, At, WeakAlive
  <2>3. QED
    BY <2>1, <2>2, CountKept
<1>6. NodeInv'
  BY <1>5, ZeroCounts DEF StrongInv, NodeInv, WeakUnits, WeakUsed, At, WeakAlive
<1>7. TableInv'
  BY DEF TableInv, WeakUsed, At, WeakAlive
<1>8. DeathInv'
  BY DEF DeathInv, WeakUsed, At, Exists, WeakAlive
<1>9. SoloInv'
  BY DEF SoloInv, OneBusy, OneStrong, OneWeak, Armed, WeakUsed, At, Quiet, WeakAlive
<1>10. QED
  BY <1>1, <1>2, <1>3, <1>4, <1>5, <1>6, <1>7, <1>8, <1>9

\* The drop of an Arc<BinderRef>, which starts the destructor if it was the last one.
LEMMA DropStrongIInv ==
  ASSUME IInv, NEW h \in Holders, DropStrong(h)
  PROVE  IInv'
<1> USE NoneAssumption
      DEF IInv, TypeOK, DropStrong, Goto, MayBegin, value_vars, table_vars, kernel_vars
<1>1. TypeOK'
  OBVIOUS
<1>2. PlaceInv'
  BY DEF PlaceInv
<1>3. StrongInv'
  BY DEF PlaceInv, StrongInv
<1>4. WeakInv'
  BY DEF WeakInv, WeakUsed, WeakAlive
<1>5. CountInv'
  <2>1. StrongUnits' = StrongUnits /\ Acquired' = Acquired
    BY DEF StrongUnits, Acquired
  <2>2. WeakUnits' = WeakUnits
    BY DEF WeakUnits, WeakUsed, At, WeakAlive
  <2>3. QED
    BY <2>1, <2>2, CountKept
<1>6. NodeInv'
  BY <1>5, ZeroCounts DEF PlaceInv, StrongInv, NodeInv, WeakUnits, WeakUsed, At, WeakAlive
<1>7. TableInv'
  BY DEF TableInv, WeakUsed, At, WeakAlive
<1>8. DeathInv'
  BY DEF DeathInv, WeakUsed, At, Exists, WeakAlive
<1>9. SoloInv'
  BY DEF SoloInv, OneBusy, OneStrong, OneWeak, Armed, WeakUsed, At, Quiet, WeakAlive
<1>10. QED
  BY <1>1, <1>2, <1>3, <1>4, <1>5, <1>6, <1>7, <1>8, <1>9

\* BC_RELEASE: the BinderRef counts no more, and its destructor still has it.
LEMMA ReleaseIInv ==
  ASSUME IInv, NEW h \in Holders, Release(h)
  PROVE  IInv'
<1> USE NoneAssumption DEF IInv, TypeOK, Release, Goto, SetCounts, value_vars, table_vars
<1>1. TypeOK'
  BY ZeroCounts DEF PlaceInv, StrongInv, StrongUnits
<1>2. PlaceInv'
  BY DEF PlaceInv
<1>3. StrongInv'
  BY DEF StrongInv
<1>4. WeakInv'
  BY DEF WeakInv, WeakUsed, WeakAlive
<1>5. CountInv'
  <2>1. StrongUnits' = StrongUnits \ {sref[h]} /\ sref[h] \in StrongUnits
    BY DEF PlaceInv, StrongInv, StrongUnits
  <2>2. Acquired' = Acquired
    BY DEF Acquired
  <2>3. WeakUnits' = WeakUnits
    BY DEF WeakUnits, WeakUsed, At, WeakAlive
  <2>4. Cardinality(StrongUnits') = Cardinality(StrongUnits) - 1
    BY <2>1, FiniteUnits, RemoveOne
  <2>5. QED
    BY <2>2, <2>3, <2>4, FiniteUnits DEF CountInv
<1>6. NodeInv'
  BY <1>5, ZeroCounts DEF PlaceInv, StrongInv, NodeInv, WeakUnits, WeakUsed, At, WeakAlive
<1>7. TableInv'
  BY DEF TableInv, WeakUsed, At, WeakAlive
<1>8. DeathInv'
  BY DEF DeathInv, WeakUsed, At, Exists, WeakAlive
<1>9. SoloInv'
  <2> SUFFICES ASSUME ~overlapping PROVE OneBusy' /\ OneStrong' /\ OneWeak' /\ Armed'
    BY DEF SoloInv
  <2> USE DEF SoloInv
  <2>1. OneBusy'
    BY DEF OneBusy, Quiet
  <2>2. OneStrong'
    BY DEF OneStrong
  <2>3. OneWeak'
    BY DEF OneWeak, WeakUsed, WeakAlive
  <2>4. Armed'
    BY ZeroCounts DEF WeakUnits, Armed, WeakUsed, At, WeakAlive
  <2>5. QED
    BY <2>1, <2>2, <2>3, <2>4
<1>10. QED
  BY <1>1, <1>2, <1>3, <1>4, <1>5, <1>6, <1>7, <1>8, <1>9

\* refs.remove_if takes no living entry out; the field `weak` is dropped, and its own
\* destructor starts if nobody else has it.
LEMMA RemoveStrongIInv ==
  ASSUME IInv, NEW h \in Holders, RemoveStrong(h)
  PROVE  IInv'
<1> USE NoneAssumption DEF IInv, TypeOK, RemoveStrong, Goto, kernel_vars
<1>1. TypeOK'
  BY DEF PlaceInv
<1>2. PlaceInv'
  BY DEF PlaceInv, StrongInv
<1>3. StrongInv'
  BY DEF PlaceInv, StrongInv
<1>4. WeakInv'
  BY DEF PlaceInv, StrongInv, WeakInv, WeakUsed, WeakAlive
<1>5. CountInv'
  <2>1. StrongUnits' = StrongUnits /\ Acquired' = Acquired
    BY DEF StrongUnits, Acquired
  <2>2. WeakUnits' = WeakUnits
    BY DEF PlaceInv, WeakUnits, WeakUsed, At, WeakAlive
  <2>3. QED
    BY <2>1, <2>2, CountKept
<1>6. NodeInv'
  BY <1>5, ZeroCounts, ValuesAssumption
     DEF PlaceInv, StrongInv, NodeInv, WeakUnits, WeakUsed, At, WeakAlive
<1>7. TableInv'
  BY DEF PlaceInv, StrongInv, TableInv, WeakUsed, StrongAlive, At, WeakAlive
<1>8. DeathInv'
  BY ValuesAssumption DEF PlaceInv, DeathInv, WeakUsed, At, Exists, WeakAlive
<1>9. SoloInv'
  BY
     DEF PlaceInv, StrongInv, SoloInv, OneBusy, OneStrong, OneWeak, Armed, WeakUsed, At,
         StrongAlive, Quiet, WeakAlive
<1>10. QED
  BY <1>1, <1>2, <1>3, <1>4, <1>5, <1>6, <1>7, <1>8, <1>9

\* The drop of an Arc<WeakBinderRef>, which starts the destructor if it was the last one.
LEMMA DropWeakIInv ==
  ASSUME IInv, NEW h \in Holders, DropWeak(h)
  PROVE  IInv'
<1> USE NoneAssumption
      DEF IInv, TypeOK, DropWeak, Goto, MayBegin, value_vars, table_vars, kernel_vars
<1>1. TypeOK'
  OBVIOUS
<1>2. PlaceInv'
  BY DEF PlaceInv
<1>3. StrongInv'
  BY DEF StrongInv
<1>4. WeakInv'
  BY DEF PlaceInv, WeakInv, WeakUsed, WeakAlive
<1>5. CountInv'
  <2>1. StrongUnits' = StrongUnits /\ Acquired' = Acquired
    BY DEF StrongUnits, Acquired
  <2>2. WeakUnits' = WeakUnits
    BY DEF WeakUnits, WeakUsed, At, WeakAlive
  <2>3. QED
    BY <2>1, <2>2, CountKept
<1>6. NodeInv'
  BY <1>5, ZeroCounts DEF PlaceInv, NodeInv, WeakUnits, WeakUsed, At, WeakAlive
<1>7. TableInv'
  BY DEF TableInv, WeakUsed, At, WeakAlive
<1>8. DeathInv'
  BY DEF DeathInv, WeakUsed, At, Exists, WeakAlive
<1>9. SoloInv'
  BY DEF PlaceInv, SoloInv, OneBusy, OneStrong, OneWeak, Armed, WeakUsed, At, Quiet, WeakAlive
<1>10. QED
  BY <1>1, <1>2, <1>3, <1>4, <1>5, <1>6, <1>7, <1>8, <1>9

\* BC_CLEAR_DEATH_NOTIFICATION: the driver forgets the cookie, if it is the one it has.
LEMMA ClearDeathIInv ==
  ASSUME IInv, NEW h \in Holders, ClearDeath(h)
  PROVE  IInv'
<1> USE NoneAssumption DEF IInv, TypeOK, ClearDeath, Goto, value_vars, table_vars
<1>1. TypeOK'
  OBVIOUS
<1>2. PlaceInv'
  BY DEF PlaceInv
<1>3. StrongInv'
  BY DEF StrongInv
<1>4. WeakInv'
  BY DEF WeakInv, WeakUsed, WeakAlive
<1>5. CountInv'
  <2>1. StrongUnits' = StrongUnits /\ Acquired' = Acquired
    BY DEF StrongUnits, Acquired
  <2>2. WeakUnits' = WeakUnits
    BY DEF WeakUnits, WeakUsed, At, WeakAlive
  <2>3. QED
    BY <2>1, <2>2, CountKept
<1>6. NodeInv'
  BY <1>5, ZeroCounts DEF PlaceInv, NodeInv, WeakUnits, WeakUsed, At, WeakAlive
<1>7. TableInv'
  BY DEF TableInv, WeakUsed, At, WeakAlive
<1>8. DeathInv'
  BY DEF DeathInv, WeakUsed, At, Exists, WeakAlive
<1>9. SoloInv'
  BY DEF SoloInv, OneBusy, OneStrong, OneWeak, Armed, WeakUsed, At, Quiet, WeakAlive
<1>10. QED
  BY <1>1, <1>2, <1>3, <1>4, <1>5, <1>6, <1>7, <1>8, <1>9

\* death_notifications.remove: the token goes with the value it was for.
LEMMA ForgetIInv ==
  ASSUME IInv, NEW h \in Holders, Forget(h)
  PROVE  IInv'
<1> USE NoneAssumption DEF IInv, TypeOK, Forget, Goto, value_vars, kernel_vars
<1>1. TypeOK'
  OBVIOUS
<1>2. PlaceInv'
  BY DEF PlaceInv
<1>3. StrongInv'
  BY DEF StrongInv
<1>4. WeakInv'
  BY DEF WeakInv, WeakUsed, WeakAlive
<1>5. CountInv'
  <2>1. StrongUnits' = StrongUnits /\ Acquired' = Acquired
    BY DEF StrongUnits, Acquired
  <2>2. WeakUnits' = WeakUnits
    BY DEF WeakUnits, WeakUsed, At, WeakAlive
  <2>3. QED
    BY <2>1, <2>2, CountKept
<1>6. NodeInv'
  BY <1>5, ZeroCounts DEF PlaceInv, NodeInv, WeakUnits, WeakUsed, At, WeakAlive
<1>7. TableInv'
  BY DEF WeakInv, TableInv, WeakUsed, At, WeakAlive
<1>8. DeathInv'
  BY DEF DeathInv, WeakUsed, At, Exists, WeakAlive
<1>9. SoloInv'
  BY DEF SoloInv, OneBusy, OneStrong, OneWeak, Armed, WeakUsed, At, Quiet, WeakAlive
<1>10. QED
  BY <1>1, <1>2, <1>3, <1>4, <1>5, <1>6, <1>7, <1>8, <1>9

\* BC_DECREFS: the WeakBinderRef counts no more, and with the last count the handle goes.
LEMMA DecRefsIInv ==
  ASSUME IInv, NEW h \in Holders, DecRefs(h)
  PROVE  IInv'
<1> USE NoneAssumption DEF IInv, TypeOK, DecRefs, Goto, SetCounts, value_vars, table_vars
<1>1. TypeOK'
  BY ZeroCounts DEF PlaceInv, WeakUnits, At
<1>2. PlaceInv'
  BY DEF PlaceInv
<1>3. StrongInv'
  BY DEF StrongInv
<1>4. WeakInv'
  BY DEF WeakInv, WeakUsed, WeakAlive
<1>5. CountInv'
  <2>1. StrongUnits' = StrongUnits /\ Acquired' = Acquired
    BY DEF StrongUnits, Acquired
  <2>2. WeakUnits' = WeakUnits \ {wref[h]} /\ wref[h] \in WeakUnits
    BY DEF PlaceInv, WeakInv, WeakUnits, WeakUsed, At, WeakAlive
  <2>3. Cardinality(WeakUnits') = Cardinality(WeakUnits) - 1
    BY <2>2, FiniteUnits, RemoveOne
  <2>4. QED
    BY <2>1, <2>3 DEF CountInv
<1>6. NodeInv'
  <2>1. WeakUnits' = WeakUnits \ {wref[h]}
    BY DEF WeakInv, WeakUnits, WeakUsed, At, WeakAlive
  <2>2. IsFiniteSet(WeakUnits')
    BY <2>1, FiniteUnits, FS_RemoveElement
  <2>3. kweak' = 0 => WeakUnits' = {}
    BY <1>5, <2>2, FS_EmptySet DEF CountInv
  <2>4. knode' = knode \/ (WeakUnits' = {} /\ Buffers(Holders) = {} /\ kstrong = 0)
    BY <2>3
  <2>5. QED
    BY <1>5, <2>1, <2>3, <2>4, ZeroCounts
       DEF PlaceInv, NodeInv, Buffers, WeakUnits, WeakUsed, At, WeakAlive
<1>7. TableInv'
  BY DEF TableInv, WeakUsed, At, WeakAlive
<1>8. DeathInv'
  BY DEF DeathInv, WeakUsed, At, Exists, WeakAlive
<1>9. SoloInv'
  BY DEF SoloInv, OneBusy, OneStrong, OneWeak, Armed, WeakUsed, At, Quiet, WeakAlive
<1>10. QED
  BY <1>1, <1>2, <1>3, <1>4, <1>5, <1>6, <1>7, <1>8, <1>9

\* weak_refs.remove_if takes no living entry out, and the WeakBinderRef is gone.
LEMMA RemoveWeakIInv ==
  ASSUME IInv, NEW h \in Holders, RemoveWeak(h)
  PROVE  IInv'
<1> USE NoneAssumption DEF IInv, TypeOK, RemoveWeak, Goto, kernel_vars
<1>1. TypeOK'
  OBVIOUS
<1>2. PlaceInv'
  BY DEF PlaceInv
<1>3. StrongInv'
  BY DEF StrongInv
<1>4. WeakInv'
  BY DEF PlaceInv, WeakInv, WeakUsed, WeakAlive
<1>5. CountInv'
  <2>1. StrongUnits' = StrongUnits /\ Acquired' = Acquired
    BY DEF StrongUnits, Acquired
  <2>2. WeakUnits' = WeakUnits
    BY DEF WeakUnits, WeakUsed, At, WeakAlive
  <2>3. QED
    BY <2>1, <2>2, CountKept
<1>6. NodeInv'
  BY ValuesAssumption DEF WeakInv, NodeInv, Buffers, WeakUnits, WeakUsed, At, WeakAlive
<1>7. TableInv'
  BY DEF WeakInv, TableInv, WeakUsed, At, WeakAlive
<1>8. DeathInv'
  BY DEF WeakInv, DeathInv, WeakUsed, At, Exists, WeakAlive
<1>9. SoloInv'
  BY DEF SoloInv, OneBusy, OneStrong, OneWeak, Armed, WeakUsed, At, Quiet, WeakAlive
<1>10. QED
  BY <1>1, <1>2, <1>3, <1>4, <1>5, <1>6, <1>7, <1>8, <1>9

\* A process dies: what the driver queues is the cookie of the handle's own node.
LEMMA DieIInv ==
  ASSUME IInv, NEW n \in Nodes, Die(n)
  PROVE  IInv'
<1> USE NoneAssumption DEF IInv, TypeOK, Die, holder_vars, value_vars, table_vars
<1>1. TypeOK'
  OBVIOUS
<1>2. PlaceInv'
  BY DEF PlaceInv
<1>3. StrongInv'
  BY DEF StrongInv
<1>4. WeakInv'
  BY DEF WeakInv, WeakUsed, WeakAlive
<1>5. CountInv'
  <2>1. StrongUnits' = StrongUnits /\ Acquired' = Acquired
    BY DEF StrongUnits, Acquired
  <2>2. WeakUnits' = WeakUnits
    BY DEF WeakUnits, WeakUsed, At, WeakAlive
  <2>3. QED
    BY <2>1, <2>2, CountKept
<1>6. NodeInv'
  BY <1>5 DEF NodeInv, Buffers, WeakUnits, WeakUsed, At, WeakAlive
<1>7. TableInv'
  BY DEF TableInv, WeakUsed, At, WeakAlive
<1>8. DeathInv'
  BY DEF NodeInv, DeathInv, WeakUsed, At, Exists, WeakUnits, WeakAlive
<1>9. SoloInv'
  BY
     DEF NodeInv, SoloInv, OneBusy, OneStrong, OneWeak, Armed, WeakUsed, At, WeakUnits,
         WeakAlive
<1>10. QED
  BY <1>1, <1>2, <1>3, <1>4, <1>5, <1>6, <1>7, <1>8, <1>9

\* BR_DEAD_BINDER cancels the token of a node that is dead, or finds none.
LEMMA DeadBinderIInv ==
  ASSUME IInv, NEW w \in Weaks, DeadBinder(w)
  PROVE  IInv'
<1> USE NoneAssumption DEF IInv, TypeOK, DeadBinder, holder_vars, value_vars
<1>1. TypeOK'
  OBVIOUS
<1>2. PlaceInv'
  BY DEF PlaceInv
<1>3. StrongInv'
  BY DEF StrongInv
<1>4. WeakInv'
  BY DEF WeakInv, WeakUsed, WeakAlive
<1>5. CountInv'
  <2>1. StrongUnits' = StrongUnits /\ Acquired' = Acquired
    BY DEF StrongUnits, Acquired
  <2>2. WeakUnits' = WeakUnits
    BY DEF WeakUnits, WeakUsed, At, WeakAlive
  <2>3. QED
    BY <2>1, <2>2, CountKept
<1>6. NodeInv'
  BY <1>5 DEF NodeInv, Buffers, WeakUnits, WeakUsed, At, WeakAlive
<1>7. TableInv'
  BY DEF TableInv, WeakUsed, At, WeakAlive
<1>8. DeathInv'
  BY DEF TableInv, DeathInv, WeakUsed, At, Exists, WeakAlive
<1>9. SoloInv'
  BY DEF TableInv, SoloInv, OneBusy, OneStrong, OneWeak, Armed, WeakUsed, At, WeakAlive
<1>10. QED
  BY <1>1, <1>2, <1>3, <1>4, <1>5, <1>6, <1>7, <1>8, <1>9
-----------------------------------------------------------------------------
\* Nobody has anything, and the driver knows no node by the handle.
LEMMA InitIInv == Init => IInv
<1> SUFFICES ASSUME Init PROVE IInv
  OBVIOUS
<1> USE DEF Init
<1>1. TypeOK
  BY DEF TypeOK
<1>2. PlaceInv /\ StrongInv /\ WeakInv
  BY NoneAssumption DEF PlaceInv, StrongInv, WeakInv
<1>3. CountInv
  <2>1. StrongUnits = {} /\ Acquired = {} /\ WeakUnits = {}
    BY NoneAssumption DEF StrongUnits, Acquired, WeakUnits, WeakUsed, At, WeakAlive
  <2>2. QED
    BY <2>1, FS_EmptySet DEF CountInv
<1>4. NodeInv /\ TableInv /\ DeathInv
  BY NoneAssumption DEF NodeInv, TableInv, DeathInv, Buffers, WeakUsed, At, WeakAlive
<1>5. SoloInv
  BY DEF SoloInv, OneBusy, OneStrong, OneWeak, Armed, Quiet, WeakUsed, At, WeakAlive
<1>6. QED
  BY <1>1, <1>2, <1>3, <1>4, <1>5 DEF IInv

\* A step of something else.
LEMMA StutterIInv == IInv /\ UNCHANGED vars => IInv'
BY
   DEF vars, holder_vars, value_vars, table_vars, kernel_vars, IInv, TypeOK, PlaceInv,
       StrongInv, WeakInv, CountInv, NodeInv, TableInv, DeathInv, SoloInv, OneBusy, OneStrong,
       OneWeak, Armed, Buffers, StrongUnits, Acquired, WeakUnits, WeakUsed, At, Exists,
       WeakAlive

\* Every step keeps it, also when lookups and destructors overlap.
LEMMA NextIInv == IInv /\ [Next]_vars => IInv'
<1> SUFFICES ASSUME IInv, [Next]_vars PROVE IInv'
  OBVIOUS
<1>1. ASSUME NEW h \in Holders, HolderNext(h) PROVE IInv'
  <2>1. CASE \E n \in Nodes : Receive(h, n)
    BY <2>1, ReceiveIInv
  <2>2. CASE ReadNext(h)
    BY <2>2, FindStrongIInv, FindWeakIInv, IncRefsIInv, RequestDeathIInv, PublishWeakIInv,
       AcquireIInv, PublishStrongIInv
       DEF ReadNext
  <2>3. CASE \E g \in Holders : Share(h, g) \/ Upgrade(h, g)
    BY <2>3, ShareIInv, UpgradeIInv
  <2>4. CASE DropStrong(h) \/ DropWeak(h)
    BY <2>4, DropStrongIInv, DropWeakIInv
  <2>5. CASE DestroyNext(h)
    BY <2>5, ReleaseIInv, RemoveStrongIInv, ClearDeathIInv, ForgetIInv, DecRefsIInv,
       RemoveWeakIInv
       DEF DestroyNext
  <2>6. QED
    BY <1>1, <2>1, <2>2, <2>3, <2>4, <2>5 DEF HolderNext
<1>2. ASSUME NEW n \in Nodes, Die(n) PROVE IInv'
  BY <1>2, DieIInv
<1>3. ASSUME NEW w \in Weaks, DeadBinder(w) PROVE IInv'
  BY <1>3, DeadBinderIInv
<1>4. QED
  BY <1>1, <1>2, <1>3, StutterIInv DEF Next
-----------------------------------------------------------------------------
(* What a step is from outside.                                            *)

ref_vars == <<KindOf, NodeOf, knode, kdead, Told>>
RefStep == [Simple!Next]_ref_vars

\* What a holder at place p has.
KindAt(p, wanted) ==
  CASE p = "holdS" -> "strong"
    [] p = "holdW" -> "weak"
    [] p \in Reading -> IF wanted THEN "getS" ELSE "getW"
    [] OTHER -> "none"
Holds(h) == pc[h] \in {"holdS", "holdW"}

LEMMA KindValue ==
  ASSUME NEW h \in Holders
  PROVE  KindOf[h] = KindAt(pc[h], h \in wants)
BY DEF KindOf, KindAt

LEMMA KindValueNext ==
  ASSUME NEW h \in Holders
  PROVE  KindOf'[h] = KindAt(pc'[h], h \in wants')
BY DEF KindOf, KindAt

\* Everything that a holder has is for the node of the handle, and so is its
\* WeakBinderRef; and it has reported a death only if that node died.
LEMMA HeldFacts ==
  ASSUME IInv, NEW h \in Holders, Holds(h)
  PROVE  /\ WeakOf(h) \in Weaks /\ WeakAlive(WeakOf(h))
         /\ NodeOf[h] = knode /\ knode # None
         /\ h \in Told => knode \in kdead
<1> USE NoneAssumption DEF IInv, TypeOK, PlaceInv, Holds
<1>1. /\ pc[h] = "holdS" => sref[h] \in Strongs /\ weak_of[sref[h]] \in Weaks
      /\ pc[h] = "holdW" => wref[h] \in Weaks
  BY DEF StrongInv
<1>2. WeakOf(h) \in Weaks /\ WeakAlive(WeakOf(h))
  BY <1>1 DEF WeakOf, WeakUsed, WeakAlive
<1>3. WeakOf(h) \in WeakUnits /\ node_of[WeakOf(h)] = knode
  BY <1>2 DEF WeakUnits, NodeInv
<1>4. knode # None
  BY <1>3, ZeroCounts DEF NodeInv
<1>5. NodeOf[h] = knode
  BY <1>1, <1>3 DEF NodeOf, WeakOf, NodeInv
<1>6. h \in Told => knode \in kdead
  BY <1>3 DEF Told, DeathInv
<1>7. QED
  BY <1>2, <1>4, <1>5, <1>6

\* A reader's buffer holds the handle.
LEMMA ReadingFacts ==
  ASSUME IInv, NEW h \in Holders, pc[h] \in Reading
  PROVE  NodeOf[h] = knode /\ knode # None
BY NoBuffers DEF IInv, NodeInv, NodeOf

LEMMA OthersFacts ==
  ASSUME NEW h \in Holders, ~Holds(h), pc[h] \notin Reading
  PROVE  NodeOf[h] = None /\ KindOf[h] = "none" /\ h \notin Told
BY DEF NodeOf, KindOf, Told, Holds

\* Whatever the holders have, it is for the one node that the handle names.
View ==
  /\ NodeOf = [h \in Holders |-> IF KindOf[h] = "none" THEN None ELSE knode]
  /\ (\E h \in Holders : KindOf[h] # "none") => knode # None
  /\ \A h \in Told : KindOf[h] \in {"strong", "weak"} /\ knode \in kdead
LEMMA NodeView == IInv => View
<1> SUFFICES ASSUME IInv PROVE View
  OBVIOUS
<1>1. ASSUME NEW h \in Holders
      PROVE  /\ NodeOf[h] = IF KindOf[h] = "none" THEN None ELSE knode
             /\ KindOf[h] # "none" => knode # None
             /\ h \in Told => KindOf[h] \in {"strong", "weak"} /\ knode \in kdead
  <2>1. CASE Holds(h)
    <3>1. KindOf[h] \in {"strong", "weak"}
      BY <2>1, KindValue DEF Holds, KindAt
    <3>2. QED
      BY <2>1, <3>1, HeldFacts
  <2>2. CASE pc[h] \in Reading
    <3>1. KindOf[h] # "none" /\ h \notin Told
      BY <2>2, KindValue DEF KindAt, Told
    <3>2. QED
      BY <2>2, <3>1, ReadingFacts
  <2>3. CASE ~Holds(h) /\ pc[h] \notin Reading
    BY <2>3, OthersFacts
  <2>4. QED
    BY <2>1, <2>2, <2>3
<1>2. NodeOf = [h \in Holders |-> NodeOf[h]] /\ Told \subseteq Holders
  BY DEF NodeOf, Told
<1>3. NodeOf = [h \in Holders |-> IF KindOf[h] = "none" THEN None ELSE knode]
  BY <1>1, <1>2
<1>4. QED
  BY <1>1, <1>2, <1>3 DEF View

\* One holder goes to another place.
LEMMA GiveStep ==
  ASSUME IInv, IInv', NEW h \in Holders, NEW p, Goto(h, p),
         \A g \in Holders \ {h} : g \in wants' <=> g \in wants,
         knode' = knode \/ knode' = None \/ knode = None
  PROVE  LET k == KindAt(p, h \in wants') IN
         /\ Simple!Give(h, k, IF k = "none" THEN None ELSE knode')
         /\ k # "none" => knode' # None
         /\ KindOf'[h] = k
         /\ \A g \in Holders \ {h} : KindOf'[g] = KindOf[g]
<1> DEFINE k == KindAt(p, h \in wants')
<1>1. pc'[h] = p /\ \A g \in Holders : g # h => pc'[g] = pc[g]
  BY DEF Goto, IInv, TypeOK
<1>2. KindOf'[h] = k
  BY <1>1, KindValueNext
<1>3. \A g \in Holders : g # h => KindOf'[g] = KindOf[g]
  BY <1>1, KindValue, KindValueNext
<1>4. KindOf = [g \in Holders |-> KindOf[g]] /\ KindOf' = [g \in Holders |-> KindOf'[g]]
  BY DEF KindOf
<1> HIDE DEF k
<1>5. KindOf' = [KindOf EXCEPT ![h] = k]
  BY <1>2, <1>3, <1>4
<1>6. View /\ View'
  BY NodeView, PTL
<1>7. \A g \in Holders : g # h /\ KindOf[g] # "none" => knode' = knode
  BY <1>3, <1>6 DEF View
<1>8. NodeOf' = [NodeOf EXCEPT ![h] = IF k = "none" THEN None ELSE knode']
  BY <1>2, <1>3, <1>6, <1>7 DEF View
<1>9. k # "none" => knode' # None
  BY <1>2, <1>6 DEF View
<1>10. QED
  BY <1>2, <1>3, <1>5, <1>8, <1>9 DEF Simple!Give, k

\* A step in the middle of a lookup, or in a destructor: invisible, or the handle goes.
LEMMA SilentStep ==
  ASSUME IInv, IInv', NEW h \in Holders, NEW p, Goto(h, p), wants' = wants,
         KindAt(p, h \in wants) = KindAt(pc[h], h \in wants),
         knode' = knode \/ knode' = None, UNCHANGED <<kdead, Told>>
  PROVE  RefStep
<1>1. /\ KindOf'[h] = KindAt(p, h \in wants)
      /\ \A g \in Holders \ {h} : KindOf'[g] = KindOf[g]
  BY GiveStep
<1>2. \A g \in Holders : KindOf'[g] = KindOf[g]
  BY <1>1, KindValue
<1>3. KindOf' = KindOf
  BY <1>2 DEF KindOf
<1>4. View /\ View'
  BY NodeView, PTL
<1>5. CASE knode' = knode
  BY <1>3, <1>4, <1>5 DEF View, RefStep, ref_vars
<1>6. CASE knode' = None /\ knode # None
  <2>1. \A g \in Holders : KindOf[g] = "none"
    BY <1>3, <1>4, <1>6 DEF View
  <2>2. NodeOf' = NodeOf
    BY <1>3, <1>4, <2>1 DEF View
  <2>3. Simple!FreeHandle
    BY <1>3, <1>6, <2>1, <2>2 DEF Simple!FreeHandle
  <2>4. QED
    BY <2>3 DEF RefStep, Simple!Next
<1>7. QED
  BY <1>5, <1>6

\* What the other holders have does not change.
Same(g) ==
  /\ Holds(g)' <=> Holds(g)
  /\ Holds(g) =>
       WeakOf(g)' = WeakOf(g) /\ (WeakOf(g) \in cancelled' <=> WeakOf(g) \in cancelled)

LEMMA ToldSame ==
  ASSUME NEW g \in Holders, Same(g)
  PROVE  g \in Told' <=> g \in Told
BY DEF Same, Told, Holds

\* Nobody hears of a death when a holder goes on that has no reference, or not yet.
LEMMA ToldKept ==
  ASSUME NEW h \in Holders, \A g \in Holders \ {h} : Same(g), ~Holds(h), ~Holds(h)'
  PROVE  UNCHANGED Told
<1>1. h \notin Told /\ h \notin Told'
  BY DEF Told, Holds
<1>2. Told \subseteq Holders /\ Told' \subseteq Holders
  BY DEF Told
<1>3. QED
  BY <1>1, <1>2, ToldSame

\* A payload arrives.
LEMMA ReceiveRef ==
  ASSUME IInv, IInv', NEW h \in Holders, NEW n \in Nodes, Receive(h, n)
  PROVE  RefStep
<1>1. PICK p \in {"findS", "findW"} : Goto(h, p) /\ (h \in wants' <=> p = "findS")
  <2>1. h \notin wants
    BY DEF Receive, IInv, PlaceInv
  <2>2. QED
    BY <2>1 DEF Receive
<1>2. /\ pc[h] = "idle" /\ knode \in {None, n} /\ knode' = n
      /\ \A g \in Holders \ {h} : g \in wants' <=> g \in wants
      /\ UNCHANGED <<sref, wref, weak_of, cancelled, kdead>>
  BY DEF Receive, value_vars, table_vars
<1>3. KindAt(p, h \in wants') \in {"getS", "getW"}
  BY <1>1 DEF KindAt
<1>4. Simple!Give(h, KindAt(p, h \in wants'), n)
  BY <1>1, <1>2, <1>3, GiveStep
<1>5. UNCHANGED Told
  <2>1. \A g \in Holders \ {h} : Same(g)
    BY <1>1, <1>2 DEF Same, Holds, WeakOf, Goto, IInv, TypeOK
  <2>2. ~Holds(h) /\ ~Holds(h)'
    BY <1>1, <1>2 DEF Holds, Goto, IInv, TypeOK
  <2>3. QED
    BY <2>1, <2>2, ToldKept
<1>6. KindOf[h] = "none"
  BY <1>2, KindValue DEF KindAt
<1>7. Simple!Receive(h, n)
  BY <1>2, <1>3, <1>4, <1>5, <1>6 DEF Simple!Receive
<1>8. QED
  BY <1>7 DEF RefStep, Simple!Next

\* A lookup ends: the reference is for the node that the payload named.
LEMMA GetRef ==
  ASSUME IInv, IInv', NEW h \in Holders, pc[h] \in Reading,
         NEW p \in {"holdS", "holdW"}, Goto(h, p), p = "holdS" <=> h \in wants,
         \A g \in Holders \ {h} : g \in wants' <=> g \in wants,
         knode' = knode \/ knode' = None, UNCHANGED kdead,
         \A g \in Holders \ {h} : Same(g)
  PROVE  RefStep
<1> DEFINE k == KindAt(p, h \in wants')
<1>1. k = IF p = "holdS" THEN "strong" ELSE "weak"
  BY DEF KindAt
<1>2. k # "none" /\ KindOf[h] = IF p = "holdS" THEN "getS" ELSE "getW"
  BY <1>1, KindValue DEF KindAt
<1>3. Simple!Give(h, k, knode') /\ knode' # None
  BY <1>2, GiveStep
<1> HIDE DEF k
<1>4. knode' = knode /\ NodeOf[h] = knode
  BY <1>3, ReadingFacts
<1>5. h \notin Told /\ Told \subseteq Holders /\ Told' \subseteq Holders
  BY DEF Told
<1>6. \A g \in Holders \ {h} : g \in Told' <=> g \in Told
  BY ToldSame
<1>7. Told' = Told \/ (h \in Told' /\ Told' = Told \cup {h})
  BY <1>5, <1>6
<1>8. View'
  BY NodeView, PTL
<1>9. Simple!MayTell(h, knode)
  BY <1>4, <1>7, <1>8 DEF View, Simple!MayTell
<1>10. Simple!Get(h)
  BY <1>1, <1>2, <1>3, <1>4, <1>9 DEF Simple!Get
<1>11. QED
  BY <1>10 DEF RefStep, Simple!Next

\* The steps of a lookup.
LEMMA FindStrongRef ==
  ASSUME IInv, IInv', NEW h \in Holders, FindStrong(h)
  PROVE  RefStep
<1>1. /\ pc[h] = "findS" /\ h \in wants
      /\ UNCHANGED <<wref, weak_of, cancelled, kdead>>
      /\ knode' = knode \/ knode' = None
      /\ \A g \in Holders \ {h} : sref'[g] = sref[g]
  BY DEF FindStrong, IInv, TypeOK, PlaceInv, value_vars, table_vars, kernel_vars, EndRead, SetCounts
<1>2. PICK p \in {"holdS", "findW"} :
        Goto(h, p) /\ wants' = IF p = "holdS" THEN wants \ {h} ELSE wants
  BY DEF FindStrong
<1>3. \A g \in Holders \ {h} : Same(g)
  BY <1>1, <1>2 DEF Same, Holds, WeakOf, Goto, IInv, TypeOK
<1>4. CASE p = "holdS"
  BY <1>1, <1>2, <1>3, <1>4, GetRef
<1>5. CASE p = "findW"
  <2>1. ~Holds(h) /\ ~Holds(h)'
    BY <1>1, <1>2, <1>5 DEF Holds, Goto, IInv, TypeOK
  <2>2. UNCHANGED Told
    BY <1>3, <2>1, ToldKept
  <2>3. QED
    BY <1>1, <1>2, <1>5, <2>2, SilentStep DEF KindAt
<1>6. QED
  BY <1>4, <1>5

\* One step of a lookup that keeps the tables of values.
LEMMA LookupRef ==
  ASSUME IInv, IInv', NEW h \in Holders, pc[h] \in Reading, wants' = wants,
         NEW p \in Reading \cup {"holdW"}, Goto(h, p), p = "holdW" => h \notin wants,
         UNCHANGED <<sref, weak_of, cancelled, kdead>>,
         knode' = knode \/ knode' = None, \A g \in Holders \ {h} : wref'[g] = wref[g]
  PROVE  RefStep
<1>1. \A g \in Holders \ {h} : Same(g)
  BY DEF Same, Holds, WeakOf, Goto, IInv, TypeOK
<1>2. CASE p = "holdW"
  BY <1>1, <1>2, GetRef
<1>3. CASE p \in Reading
  <2>1. ~Holds(h) /\ ~Holds(h)'
    BY <1>3 DEF Holds, Goto, IInv, TypeOK
  <2>2. UNCHANGED Told
    BY <1>1, <2>1, ToldKept
  <2>3. KindAt(p, h \in wants) = KindAt(pc[h], h \in wants)
    BY <1>3 DEF KindAt
  <2>4. QED
    BY <2>2, <2>3, SilentStep
<1>4. QED
  BY <1>2, <1>3

LEMMA FindWeakRef ==
  ASSUME IInv, IInv', NEW h \in Holders, FindWeak(h)
  PROVE  RefStep
<1>1. /\ pc[h] = "findW" /\ wants' = wants /\ UNCHANGED <<sref, weak_of, cancelled, kdead>>
      /\ knode' = knode \/ knode' = None
      /\ \A g \in Holders \ {h} : wref'[g] = wref[g]
  BY DEF FindWeak, IInv, TypeOK, kernel_vars, EndRead, SetCounts
<1>2. PICK p \in {"acquire", "holdW", "incref"} : Goto(h, p) /\ (p = "holdW" => h \notin wants)
  BY DEF FindWeak
<1>3. QED
  BY <1>1, <1>2, LookupRef

LEMMA CommandRef ==
  ASSUME IInv, IInv', NEW h \in Holders, IncRefs(h) \/ RequestDeath(h) \/ Acquire(h)
  PROVE  RefStep
<1>1. /\ pc[h] \in Reading /\ wants' = wants
      /\ UNCHANGED <<sref, wref, weak_of, cancelled, kdead>>
      /\ knode' = knode \/ knode' = None
  BY DEF IncRefs, RequestDeath, Acquire, SetCounts, value_vars, table_vars
<1>2. PICK p \in {"request", "publishW", "publishS"} : Goto(h, p)
  BY DEF IncRefs, RequestDeath, Acquire
<1>3. QED
  BY <1>1, <1>2, LookupRef

LEMMA PublishWeakRef ==
  ASSUME IInv, IInv', NEW h \in Holders, PublishWeak(h)
  PROVE  RefStep
<1>1. /\ pc[h] = "publishW" /\ wants' = wants
      /\ UNCHANGED <<sref, wref, weak_of, cancelled, kdead>>
      /\ knode' = knode \/ knode' = None
  BY DEF PublishWeak, EndRead, SetCounts, value_vars, kernel_vars
<1>2. PICK p \in {"acquire", "holdW"} : Goto(h, p) /\ (p = "holdW" => h \notin wants)
  BY DEF PublishWeak
<1>3. QED
  BY <1>1, <1>2, LookupRef

LEMMA PublishStrongRef ==
  ASSUME IInv, IInv', NEW h \in Holders, PublishStrong(h)
  PROVE  RefStep
<1>1. /\ pc[h] = "publishS" /\ h \in wants /\ Goto(h, "holdS") /\ wants' = wants \ {h}
      /\ UNCHANGED <<cancelled, kdead>> /\ (knode' = knode \/ knode' = None)
  BY DEF PublishStrong, EndRead, SetCounts, IInv, PlaceInv
<1>2. PICK b \in Strongs : /\ weak_of[b] = None
                           /\ weak_of' = [weak_of EXCEPT ![b] = wref[h]]
  BY DEF PublishStrong, FreshStrong
<1>3. \A g \in Holders \ {h} : sref'[g] = sref[g] /\ wref'[g] = wref[g]
  BY DEF PublishStrong, IInv, TypeOK
<1>4. ASSUME NEW g \in Holders, g # h PROVE Same(g)
  <2>1. pc'[g] = pc[g]
    BY <1>1, <1>4 DEF Goto, IInv, TypeOK
  <2>2. pc[g] = "holdS" => sref[g] \in Strongs /\ sref[g] # b
    BY <1>2, NoneAssumption DEF IInv, TypeOK, PlaceInv, StrongInv
  <2>3. Holds(g) => WeakOf(g)' = WeakOf(g)
    BY <1>2, <1>3, <1>4, <2>1, <2>2 DEF WeakOf, Holds, IInv, TypeOK
  <2>4. QED
    BY <1>1, <2>1, <2>3 DEF Same, Holds
<1>5. QED
  BY <1>1, <1>4, GetRef

\* Copies and upgrades have the node, and copies the news, of what they are made from.
LEMMA ShareRef ==
  ASSUME IInv, IInv', NEW h \in Holders, NEW g \in Holders, Share(h, g)
  PROVE  RefStep
<1>1. PICK p \in {"holdS", "holdW"} : Goto(h, p) /\ (p = "holdS" => pc[g] = "holdS")
  BY DEF Share
<1>2. /\ pc[h] = "idle" /\ Holds(g) /\ g # h /\ WeakOf(h)' = WeakOf(g)
      /\ UNCHANGED <<wants, weak_of, cancelled, knode, kdead>>
      /\ \A f \in Holders \ {h} : sref'[f] = sref[f] /\ wref'[f] = wref[f]
  BY DEF Share, Goto, Holds, WeakOf, IInv, TypeOK, value_vars, table_vars, kernel_vars
<1>3. \A f \in Holders \ {h} : Same(f)
  BY <1>1, <1>2 DEF Same, Holds, WeakOf, Goto, IInv, TypeOK
<1>4. KindAt(p, h \in wants') = IF p = "holdS" THEN "strong" ELSE "weak"
  BY <1>1 DEF KindAt
<1>5. /\ NodeOf[g] = knode /\ KindOf[h] = "none"
      /\ KindOf[g] = IF pc[g] = "holdS" THEN "strong" ELSE "weak"
  BY <1>2, HeldFacts, KindValue DEF KindAt, Holds
<1>6. Simple!Give(h, IF p = "holdS" THEN "strong" ELSE "weak", knode)
  BY <1>1, <1>2, <1>4, GiveStep
<1>7. Told' = IF g \in Told THEN Told \cup {h} ELSE Told
  <2>1. \A f \in Holders \ {h} : f \in Told' <=> f \in Told
    BY <1>3, ToldSame
  <2>2. Holds(h)' /\ ~Holds(h)
    BY <1>1, <1>2 DEF Holds, Goto, IInv, TypeOK
  <2>3. h \notin Told /\ (h \in Told' <=> g \in Told)
    BY <1>2, <2>2 DEF Told, Holds
  <2>4. Told \subseteq Holders /\ Told' \subseteq Holders
    BY DEF Told
  <2>5. QED
    BY <2>1, <2>3, <2>4
<1>8. Simple!Copy(h, g)
  BY <1>1, <1>2, <1>5, <1>6, <1>7 DEF Simple!Copy, Simple!Held, Holds
<1>9. QED
  BY <1>8 DEF RefStep, Simple!Next

LEMMA UpgradeRef ==
  ASSUME IInv, IInv', NEW h \in Holders, NEW g \in Holders, Upgrade(h, g)
  PROVE  RefStep
<1>1. /\ pc[h] = "idle" /\ pc[g] = "holdW" /\ Goto(h, "holdS") /\ StrongAlive(refs)
      /\ UNCHANGED <<wants, wref, weak_of, cancelled, knode, kdead>>
      /\ \A f \in Holders \ {h} : sref'[f] = sref[f]
  BY DEF Upgrade, IInv, TypeOK, value_vars, table_vars, kernel_vars
<1>2. \A f \in Holders \ {h} : Same(f)
  BY <1>1 DEF Same, Holds, WeakOf, Goto, IInv, TypeOK
<1>3. NodeOf[g] = knode /\ KindOf[h] = "none" /\ KindOf[g] = "weak"
  BY <1>1, HeldFacts, KindValue DEF KindAt, Holds
<1>4. \E b \in Holders : KindOf[b] = "strong"
  BY <1>1, KindValue DEF KindAt, StrongAlive
<1>5. Simple!Give(h, "strong", knode)
  BY <1>1, GiveStep DEF KindAt
<1>6. Simple!MayTell(h, knode)
  <2>1. \A f \in Holders \ {h} : f \in Told' <=> f \in Told
    BY <1>2, ToldSame
  <2>2. h \notin Told /\ Told \subseteq Holders /\ Told' \subseteq Holders
    BY <1>1 DEF Told
  <2>3. Told' = Told \/ (h \in Told' /\ Told' = Told \cup {h})
    BY <2>1, <2>2
  <2>4. View'
    BY NodeView, PTL
  <2>5. QED
    BY <1>1, <2>3, <2>4 DEF View, Simple!MayTell
<1>7. Simple!Upgrade(h, g)
  BY <1>1, <1>3, <1>4, <1>5, <1>6 DEF Simple!Upgrade
<1>8. QED
  BY <1>7 DEF RefStep, Simple!Next

\* A drop takes effect at once, whatever the destructor then does.
LEMMA DropRef ==
  ASSUME IInv, IInv', NEW h \in Holders, DropStrong(h) \/ DropWeak(h)
  PROVE  RefStep
<1>1. PICK p \in {"idle", "release", "clear"} : Goto(h, p)
  BY DEF DropStrong, DropWeak
<1>2. /\ Holds(h) /\ UNCHANGED <<wants, weak_of, cancelled, knode, kdead>>
      /\ \A g \in Holders \ {h} : sref'[g] = sref[g] /\ wref'[g] = wref[g]
  BY DEF DropStrong, DropWeak, Holds, IInv, TypeOK, value_vars, table_vars, kernel_vars
<1>3. \A g \in Holders \ {h} : Same(g)
  BY <1>1, <1>2 DEF Same, Holds, WeakOf, Goto, IInv, TypeOK
<1>4. KindAt(p, h \in wants') = "none" /\ KindOf[h] \in {"strong", "weak"}
  BY <1>1, <1>2, KindValue DEF KindAt, Holds
<1>5. Simple!Give(h, "none", None)
  BY <1>1, <1>2, <1>4, GiveStep
<1>6. Told' = Told \ {h}
  <2>1. \A g \in Holders \ {h} : g \in Told' <=> g \in Told
    BY <1>3, ToldSame
  <2>2. h \notin Told'
    BY <1>1 DEF Told, Goto, IInv, TypeOK
  <2>3. Told \subseteq Holders /\ Told' \subseteq Holders
    BY DEF Told
  <2>4. QED
    BY <2>1, <2>2, <2>3
<1>7. Simple!Drop(h)
  BY <1>2, <1>4, <1>5, <1>6 DEF Simple!Drop, Simple!Held
<1>8. QED
  BY <1>7 DEF RefStep, Simple!Next

\* One step of a destructor.
LEMMA DestroyRef ==
  ASSUME IInv, IInv', NEW h \in Holders, pc[h] \in Dropping, wants' = wants,
         NEW p \in Dropping \cup {"idle"}, Goto(h, p), UNCHANGED kdead,
         knode' = knode \/ knode' = None, \A g \in Holders \ {h} : Same(g)
  PROVE  RefStep
<1>1. ~Holds(h) /\ ~Holds(h)'
  BY DEF Holds, Goto, IInv, TypeOK
<1>2. UNCHANGED Told
  BY <1>1, ToldKept
<1>3. KindAt(p, h \in wants) = KindAt(pc[h], h \in wants)
  BY DEF KindAt
<1>4. QED
  BY <1>2, <1>3, SilentStep

LEMMA GiveBackRef ==
  ASSUME IInv, IInv', NEW h \in Holders,
         Release(h) \/ ClearDeath(h) \/ Forget(h) \/ DecRefs(h)
  PROVE  RefStep
<1>1. /\ pc[h] \in Dropping /\ wants' = wants
      /\ UNCHANGED <<sref, wref, weak_of, cancelled, kdead>>
      /\ knode' = knode \/ knode' = None
  BY DEF Release, ClearDeath, Forget, DecRefs, SetCounts, value_vars, table_vars, kernel_vars
<1>2. PICK p \in Dropping : Goto(h, p)
  BY DEF Release, ClearDeath, Forget, DecRefs
<1>3. \A g \in Holders \ {h} : Same(g)
  BY <1>1, <1>2 DEF Same, Holds, WeakOf, Goto, IInv, TypeOK
<1>4. QED
  BY <1>1, <1>2, <1>3, DestroyRef

\* The destructor of a BinderRef has it alone.
LEMMA RemoveStrongRef ==
  ASSUME IInv, IInv', NEW h \in Holders, RemoveStrong(h)
  PROVE  RefStep
<1>1. /\ pc[h] = "removeS" /\ wants' = wants /\ UNCHANGED <<cancelled, knode, kdead>>
      /\ weak_of' = [weak_of EXCEPT ![sref[h]] = None]
      /\ \A g \in Holders \ {h} : sref'[g] = sref[g] /\ wref'[g] = wref[g]
  BY DEF RemoveStrong, kernel_vars, IInv, TypeOK
<1>2. PICK p \in {"idle", "clear"} : Goto(h, p)
  BY DEF RemoveStrong
<1>3. ASSUME NEW g \in Holders, g # h PROVE Same(g)
  <2>1. pc'[g] = pc[g]
    BY <1>2, <1>3 DEF Goto, IInv, TypeOK
  <2>2. pc[g] = "holdS" => sref[g] \in Strongs /\ sref[g] # sref[h]
    BY <1>1, <1>3, NoneAssumption DEF IInv, TypeOK, PlaceInv, StrongInv
  <2>3. Holds(g) => WeakOf(g)' = WeakOf(g)
    BY <1>1, <1>3, <2>1, <2>2 DEF WeakOf, Holds, IInv, TypeOK
  <2>4. QED
    BY <1>1, <2>1, <2>3 DEF Same, Holds
<1>4. QED
  BY <1>1, <1>2, <1>3, DestroyRef

\* The destructor of a WeakBinderRef takes the token of nobody else with it.
LEMMA RemoveWeakRef ==
  ASSUME IInv, IInv', NEW h \in Holders, RemoveWeak(h)
  PROVE  RefStep
<1>1. /\ pc[h] = "removeW" /\ wants' = wants /\ UNCHANGED <<sref, weak_of, knode, kdead>>
      /\ Goto(h, "idle") /\ cancelled' = cancelled \ {wref[h]}
      /\ \A g \in Holders \ {h} : wref'[g] = wref[g]
  BY DEF RemoveWeak, kernel_vars, IInv, TypeOK
<1>2. ASSUME NEW g \in Holders, g # h PROVE Same(g)
  <2>1. pc'[g] = pc[g]
    BY <1>1, <1>2 DEF Goto, IInv, TypeOK
  <2>2. Holds(g) => WeakOf(g)' = WeakOf(g)
    BY <1>1, <1>2, <2>1 DEF WeakOf, Holds
  <2>3. Holds(g) => WeakOf(g) # wref[h]
    BY <1>1, HeldFacts DEF IInv, WeakInv
  <2>4. QED
    BY <1>1, <2>1, <2>2, <2>3 DEF Same, Holds
<1>3. QED
  BY <1>1, <1>2, DestroyRef

\* A death, and the driver's report of it.
LEMMA DeathRef ==
  ASSUME IInv, IInv',
         (\E n \in Nodes : Die(n)) \/ (\E w \in Weaks : DeadBinder(w)) \/ UNCHANGED vars
  PROVE  RefStep
<1>1. UNCHANGED <<pc, wants, sref, wref, weak_of, node_of, knode>>
  BY DEF Die, DeadBinder, vars, holder_vars, value_vars, kernel_vars
<1>2. UNCHANGED <<KindOf, NodeOf>>
  BY <1>1 DEF KindOf, NodeOf
<1>3. \A g \in Holders : WeakOf(g)' = WeakOf(g)
  BY <1>1 DEF WeakOf
<1>4. ASSUME NEW n \in Nodes, Die(n) PROVE RefStep
  <2>1. Simple!Die(n)
    BY <1>1, <1>2, <1>3, <1>4 DEF Die, table_vars, Simple!Die, Told
  <2>2. QED
    BY <2>1 DEF RefStep, Simple!Next
<1>5. ASSUME NEW w \in Weaks, DeadBinder(w) PROVE RefStep
  <2>1. cancelled \subseteq cancelled' /\ UNCHANGED kdead
    BY <1>5 DEF DeadBinder
  <2>2. Told \subseteq Told' /\ Told' \subseteq Holders
    BY <1>1, <1>3, <2>1 DEF Told
  <2>3. View'
    BY NodeView, PTL
  <2>4. \A h \in Told' : KindOf[h] \in {"strong", "weak"} /\ NodeOf[h] \in kdead
    BY <1>2, <2>1, <2>2, <2>3 DEF View
  <2>5. Simple!Tell
    BY <1>1, <1>2, <2>1, <2>2, <2>4 DEF Simple!Tell, Simple!Held
  <2>6. QED
    BY <2>5 DEF RefStep, Simple!Next
<1>6. CASE UNCHANGED vars
  BY <1>1, <1>2, <1>3, <1>6 DEF RefStep, ref_vars, Told, vars, table_vars, kernel_vars
<1>7. QED
  BY <1>4, <1>5, <1>6

\* Every step is one of the references seen from outside, or invisible.
LEMMA NextRef ==
  ASSUME IInv, IInv', [Next]_vars
  PROVE  RefStep
<1>1. ASSUME NEW h \in Holders, HolderNext(h) PROVE RefStep
  <2>1. CASE \E n \in Nodes : Receive(h, n)
    BY <2>1, ReceiveRef
  <2>2. CASE ReadNext(h)
    BY <2>2, FindStrongRef, FindWeakRef, CommandRef, PublishWeakRef, PublishStrongRef
       DEF ReadNext
  <2>3. CASE \E g \in Holders : Share(h, g) \/ Upgrade(h, g)
    BY <2>3, ShareRef, UpgradeRef
  <2>4. CASE DropStrong(h) \/ DropWeak(h)
    BY <2>4, DropRef
  <2>5. CASE DestroyNext(h)
    BY <2>5, GiveBackRef, RemoveStrongRef, RemoveWeakRef DEF DestroyNext
  <2>6. QED
    BY <1>1, <2>1, <2>2, <2>3, <2>4, <2>5 DEF HolderNext
<1>2. QED
  BY <1>1, DeathRef DEF Next

\* At first nobody has anything.
LEMMA InitRef == Init => Simple!Init
<1> SUFFICES ASSUME Init PROVE Simple!Init
  OBVIOUS
<1>1. KindOf = [h \in Holders |-> "none"] /\ NodeOf = [h \in Holders |-> None] /\ Told = {}
  BY DEF Init, KindOf, NodeOf, Told
<1>2. QED
  BY <1>1 DEF Init, Simple!Init
-----------------------------------------------------------------------------
\* The invariant holds whatever lookups and destructors overlap: it is inductive.
THEOREM RefsInvariant == Spec => []IInv
BY InitIInv, NextIInv, PTL DEF Spec

\* The state keeps its type; in particular no count of the driver is taken below
\* zero by a destructor.
THEOREM RefsTypeCorrect == Spec => []TypeOK
<1>1. IInv => TypeOK
  BY DEF IInv
<1>2. QED
  BY <1>1, RefsInvariant, PTL

\* A transaction on a BinderRef or a WeakBinderRef reaches the node that the reference
\* was received for, and the driver counts a reference for it, whoever looks up,
\* copies or drops the same handle at the same time.
THEOREM HandlesNameNodes == Spec => []HandleNamesNode
<1>1. IInv => HandleNamesNode
  <2> SUFFICES ASSUME IInv, NEW h \in Holders
               PROVE  /\ pc[h] = "holdS" => kstrong > 0 /\ knode = node_of[sref[h]]
                      /\ pc[h] = "holdW" => kweak > 0 /\ knode = node_of[wref[h]]
    BY DEF HandleNamesNode
  <2> USE DEF IInv, TypeOK, PlaceInv, NodeInv, WeakUnits, WeakAlive, WeakUsed
  <2>1. pc[h] = "holdS" => sref[h] \in StrongUnits /\ knode = node_of[sref[h]]
    BY DEF StrongInv, StrongUnits
  <2>2. pc[h] = "holdW" => wref[h] \in WeakUnits /\ knode = node_of[wref[h]]
    OBVIOUS
  <2>3. QED
    BY <2>1, <2>2, ZeroCounts
<1>2. QED
  BY <1>1, RefsInvariant, PTL

\* Every INCREFS, ACQUIRE, table entry and cookie is given back: with the last
\* reference, the handle, both entries and every token are gone.
THEOREM RefsGivenBack == Spec => []NothingLeaked
<1>1. IInv => NothingLeaked
  <2> SUFFICES ASSUME IInv, \A h \in Holders : pc[h] = "idle"
               PROVE  /\ knode = None /\ refs = None /\ weak_refs = None
                      /\ death_notifications = {}
    BY DEF NothingLeaked
  <2> USE DEF IInv, TypeOK
  <2>1. \A b \in Strongs : weak_of[b] = None
    BY NoneAssumption DEF PlaceInv, StrongInv
  <2>2. \A w \in Weaks : ~WeakAlive(w)
    BY <2>1, NoneAssumption DEF WeakUsed, WeakAlive
  <2>3. StrongUnits = {} /\ Acquired = {} /\ WeakUnits = {}
    BY <2>1, <2>2 DEF StrongUnits, Acquired, WeakUnits, At
  <2>4. knode = None
    BY <2>3, ZeroCounts, NoBuffers DEF NodeInv
  <2>5. refs = None /\ weak_refs = None /\ death_notifications = {}
    BY <2>1, <2>2 DEF TableInv, At
  <2>6. QED
    BY <2>4, <2>5
<1>2. QED
  BY <1>1, RefsInvariant, PTL

\* alive() reports no death that did not happen, although handles are reused, and a
\* BR_DEAD_BINDER may arrive after the notification was cleared.
THEOREM DeathsAreTrue == Spec => []NoFalseDeath
<1>1. IInv => NoFalseDeath
  BY DEF IInv, DeathInv, NoFalseDeath
<1>2. QED
  BY <1>1, RefsInvariant, PTL

\* Without overlap WeakBinderRef::upgrade finds the strong reference that there is.
THEOREM UpgradesFind == Spec => []UpgradeFinds
<1>1. IInv => UpgradeFinds
  BY DEF IInv, PlaceInv, SoloInv, OneStrong, StrongAlive, UpgradeFinds
<1>2. QED
  BY <1>1, RefsInvariant, PTL

\* Without overlap every reference has been told of a death once the driver's queue
\* is read: the notification is in the driver's hands before the reference is.
THEOREM DeathsReachAll == Spec => []DeathReported
<1>1. IInv => DeathReported
  <2> SUFFICES ASSUME IInv, ~overlapping, kqueue = {}, NEW h \in Holders,
                      pc[h] \in {"holdS", "holdW"}, node_of[WeakOf(h)] \in kdead
               PROVE  WeakOf(h) \in cancelled
    BY DEF DeathReported
  <2>1. WeakOf(h) \in Weaks /\ WeakAlive(WeakOf(h))
    BY DEF IInv, TypeOK, PlaceInv, StrongInv, WeakOf, WeakUsed, WeakAlive
  <2>2. QED
    BY <2>1 DEF IInv, SoloInv, Armed
<1>2. QED
  BY <1>1, RefsInvariant, PTL

\* Lookups and destructors of many steps, overlapping in any way, amount to references
\* that are made, copied, upgraded and dropped at once: each for the node that its
\* payload named, with a handle that stays theirs, and told of no death but their node's.
THEOREM ReferencesImplemented == Spec => ActsAsReferences
<1>1. Init => IInv /\ Simple!Init
  BY InitIInv, InitRef
<1>2. IInv /\ [Next]_vars => IInv' /\ [Simple!Next]_<<KindOf, NodeOf, knode, kdead, Told>>
  BY NextIInv, NextRef DEF RefStep, ref_vars
<1>3. QED
  BY <1>1, <1>2, PTL DEF Spec, ActsAsReferences, Simple!Spec
=============================================================================
