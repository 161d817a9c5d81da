------------------------- MODULE BinderObjectProofs -------------------------
(***************************************************************************)
(* Proofs about BinderObject, for every finite set of handles and every    *)
(* value of the bounds.                                                    *)
(***************************************************************************)
EXTENDS BinderObject, FiniteSetTheorems, TLAPS

\* What the driver's own state says about the messages under way.
KernelInv ==
  /\ kstrong > 0 => kHas \/ todo # NoThread
  /\ todo # NoThread => kstrong > 0 /\ ~kHas
  /\ acquiring # NoThread => kHas

\* A thread that has work queued or being applied is inside its send, and so
\* still owns the payload, unless a send has left work behind.
SenderInv ==
  /\ todo \in Handles => handle[todo] \in {"sent", "failed"}
  /\ acquiring \in Handles => handle[acquiring] \in {"sent", "failed"}
  /\ ~unread => todo # Leftover /\ acquiring # Leftover

\* Before registration nobody can have a handle and the driver knows no node.
FreshInv ==
  guard = "none" =>
    /\ ~objects
    /\ counts = NoCounts
    /\ \A h \in Handles : handle[h] = "free"
    /\ kstrong = 0 /\ ~kHas /\ releasing = 0

\* A guard is never outstanding next to a confirmed remote unit.
GuardInv == object_refcounts /\ counts.pending > 0 => counts.remote = 0

IInv ==
  /\ TypeOK
  /\ LocalAccounting
  /\ RemoteAccounting
  /\ KernelInv
  /\ SenderInv
  /\ FreshInv
  /\ GuardInv
  /\ NoStuckGuard

-----------------------------------------------------------------------------
\* Counting one handle more: what a constructor does to the set of handles
\* that owe a local unit, and a mark to the set of sends that can roll back.
LEMMA AddHandle ==
  ASSUME NEW S \in SUBSET Handles, NEW h \in Handles, h \notin S
  PROVE  /\ Cardinality(S) \in Nat
         /\ Cardinality(S \cup {h}) = Cardinality(S) + 1
<1>1. IsFiniteSet(S)
  BY HandlesAssumption, FS_Subset
<1>2. QED
  BY <1>1, FS_AddElement, FS_CardinalityType

\* Counting one handle less: drop and rollback; there was one to take.
LEMMA RemoveHandle ==
  ASSUME NEW S \in SUBSET Handles, NEW h \in S
  PROVE  /\ Cardinality(S) \in Nat
         /\ Cardinality(S) >= 1
         /\ Cardinality(S \ {h}) = Cardinality(S) - 1
<1>1. IsFiniteSet(S) /\ IsFiniteSet(S \ {h})
  BY HandlesAssumption, FS_Subset
<1>2. Cardinality(S \ {h}) = Cardinality(S) - 1
  BY <1>1, FS_RemoveElement
<1>3. QED
  BY <1>1, <1>2, FS_CardinalityType

\* The sets that are counted are finite.
LEMMA HandleSets ==
  ASSUME NEW S \in SUBSET Handles
  PROVE  Cardinality(S) \in Nat /\ (Cardinality(S) = 0 <=> S = {})
<1>1. IsFiniteSet(S)
  BY HandlesAssumption, FS_Subset
<1>2. QED
  BY <1>1, FS_EmptySet, FS_CardinalityType

\* increase_remote: one unit more, no guard left, the local count untouched.
LEMMA IncreaseRemoteFields ==
  ASSUME NEW c \in RefCountsType
  PROVE  /\ IncreaseRemote(c) \in RefCountsType
         /\ IncreaseRemote(c).local = c.local
         /\ IncreaseRemote(c).remote = c.remote + 1
         /\ IncreaseRemote(c).pending = 0
BY DEF IncreaseRemote, RefCountsType

\* Init establishes the inductive invariant.
LEMMA InitIInv == Init => IInv
<1> SUFFICES ASSUME Init PROVE IInv
  OBVIOUS
<1>1. TypeOK
  BY DEF Init, TypeOK, RefCountsType, NoCounts, GuardStates, HandleStates, Kinds, Threads
<1>2. QED
  BY <1>1, HandlesAssumption DEF Init, IInv, LocalAccounting, RemoteAccounting, KernelInv,
     SenderInv, FreshInv, GuardInv, NoStuckGuard

\* Registration: the entry starts with counts that account for nobody.
LEMMA RegisterIInv == IInv /\ Register => IInv'
<1> SUFFICES ASSUME IInv, Register PROVE IInv'
  OBVIOUS
<1> USE DEF IInv, Register, handle_vars, kernel_vars
<1>1. TypeOK'
  BY DEF TypeOK, GuardStates
<1>2. LocalAccounting'
  <2>1. Counted' = {}
    BY DEF FreshInv, Counted, Alive
  <2>2. QED
    BY <2>1, FS_EmptySet DEF LocalAccounting, FreshInv, NoCounts, Alive
<1>3. RemoteAccounting'
  BY DEF RemoteAccounting, FreshInv, KernelInv, NoCounts, Unit
<1>4. KernelInv' /\ SenderInv' /\ FreshInv'
  BY DEF KernelInv, SenderInv, FreshInv
<1>5. GuardInv'
  BY DEF GuardInv, FreshInv, NoCounts
<1>6. NoStuckGuard'
  <2>1. Rollbackable' \in SUBSET Handles
    BY DEF Rollbackable
  <2>2. QED
    BY <2>1, HandleSets DEF NoStuckGuard, FreshInv, NoCounts
<1>7. QED
  BY <1>1, <1>2, <1>3, <1>4, <1>5, <1>6

\* The guard's other moves disturb no count; the last one takes the entry away.
LEMMA GuardMovesIInv == IInv /\ (CleanupSee \/ DropGuard \/ RemoveRefcounts) => IInv'
<1> SUFFICES ASSUME IInv, CleanupSee \/ DropGuard \/ RemoveRefcounts PROVE IInv'
  OBVIOUS
<1> USE DEF IInv, handle_vars, kernel_vars
<1>1. TypeOK' /\ UNCHANGED handle_vars /\ UNCHANGED kernel_vars
  <2>1. UNCHANGED handle_vars /\ UNCHANGED kernel_vars
    BY DEF CleanupSee, DropGuard, RemoveRefcounts
  <2>2. /\ guard' \in GuardStates
        /\ objects' \in BOOLEAN
        /\ object_refcounts' \in BOOLEAN
        /\ counts' \in RefCountsType
    <3>1. CASE CleanupSee
      BY <3>1 DEF TypeOK, GuardStates, CleanupSee
    <3>2. CASE DropGuard
      BY <3>2 DEF TypeOK, GuardStates, DropGuard
    <3>3. CASE RemoveRefcounts
      BY <3>3 DEF TypeOK, GuardStates, RemoveRefcounts, NoCounts, RefCountsType
    <3>4. QED
      BY <3>1, <3>2, <3>3
  <2>3. QED
    BY <2>1, <2>2 DEF TypeOK
<1>2. \/ object_refcounts' = object_refcounts /\ counts' = counts
      \/ object_refcounts' = FALSE
  BY DEF CleanupSee, DropGuard, RemoveRefcounts
<1>3. Counted' = Counted /\ Rollbackable' = Rollbackable
  BY <1>1 DEF Counted, Rollbackable
<1>4. LocalAccounting'
  BY <1>1, <1>2, <1>3 DEF LocalAccounting
<1>5. RemoteAccounting' /\ GuardInv'
  BY <1>1, <1>2 DEF RemoteAccounting, GuardInv
<1>6. KernelInv' /\ SenderInv'
  BY <1>1 DEF KernelInv, SenderInv
<1>7. FreshInv'
  BY <1>1 DEF FreshInv, CleanupSee, DropGuard, RemoveRefcounts
<1>8. NoStuckGuard'
  BY <1>1, <1>2, <1>3 DEF NoStuckGuard, AcquireDue
<1>9. QED
  BY <1>1, <1>4, <1>5, <1>6, <1>7, <1>8

\* Every way to make a handle counts it exactly when there is an entry.
LEMMA NewHandleIInv ==
  ASSUME IInv, NEW h \in Handles,
         ToService(h) \/ GuardBorrow(h) \/ (\E g \in Handles : Clone(h, g)) \/ Count(h)
  PROVE  IInv'
<1> USE DEF IInv, kernel_vars
<1>1. /\ handle[h] \in {"free", "found"}
      /\ handle' = [handle EXCEPT ![h] = handle'[h]]
      /\ handle'[h] \in {"free", "live"}
      /\ object_refcounts => handle'[h] = "live"
      /\ counted' = [counted EXCEPT ![h] = object_refcounts]
      /\ counts' = IF object_refcounts THEN IncreaseLocal(counts) ELSE counts
      /\ objects' = objects
      /\ object_refcounts' = object_refcounts
      /\ UNCHANGED kernel_vars
      /\ guard' \in GuardStates
      /\ guard' = "none" => guard = "none"
      /\ kind' \in [Handles -> Kinds]
  BY DEF TypeOK, ToService, GuardBorrow, Clone, Count, OnEntry, Kinds, GuardStates
<1>2. TypeOK'
  BY <1>1 DEF TypeOK, IncreaseLocal, RefCountsType, HandleStates
<1>3. LocalAccounting'
  <2>1. CASE object_refcounts
    <3>1. Counted' = Counted \cup {h} /\ h \notin Counted
      BY <1>1, <2>1 DEF Counted, Alive, TypeOK
    <3>2. Cardinality(Counted') = Cardinality(Counted) + 1
      BY <3>1, AddHandle DEF Counted
    <3>3. counts'.local = counts.local + 1
      BY <1>1, <2>1 DEF IncreaseLocal, TypeOK, RefCountsType
    <3>4. QED
      BY <1>1, <2>1, <3>2, <3>3 DEF LocalAccounting, TypeOK
  <2>2. CASE ~object_refcounts
    BY <1>1, <2>2 DEF LocalAccounting
  <2>3. QED
    BY <2>1, <2>2
<1>4. counts'.remote = counts.remote /\ counts'.pending = counts.pending
  BY <1>1 DEF IncreaseLocal, TypeOK, RefCountsType
<1>5. RemoteAccounting' /\ GuardInv'
  BY <1>1, <1>4 DEF RemoteAccounting, GuardInv
<1>6. KernelInv' /\ SenderInv'
  BY <1>1 DEF KernelInv, SenderInv, TypeOK
<1>7. FreshInv'
  <2>1. guard # "none"
    BY DEF FreshInv, ToService, GuardBorrow, Clone, Count
  <2>2. QED
    BY <1>1, <2>1 DEF FreshInv
<1>8. NoStuckGuard'
  <2>1. Rollbackable' = Rollbackable
    BY <1>1 DEF Rollbackable, TypeOK
  <2>2. QED
    BY <1>1, <1>4, <2>1 DEF NoStuckGuard, AcquireDue
<1>9. QED
  BY <1>2, <1>3, <1>5, <1>6, <1>7, <1>8

\* A lookup that has not counted yet owes nothing.
LEMMA FindIInv ==
  ASSUME IInv, NEW h \in Handles, NEW k \in Kinds, Find(h, k)
  PROVE  IInv'
<1> USE DEF IInv, Find, local_vars, kernel_vars
<1>1. TypeOK'
  BY DEF TypeOK, HandleStates
<1>2. Counted' = Counted /\ Rollbackable' = Rollbackable
  BY DEF Counted, Rollbackable, Alive, TypeOK
<1>3. LocalAccounting'
  BY <1>2 DEF LocalAccounting, Alive, TypeOK
<1>4. RemoteAccounting' /\ GuardInv' /\ KernelInv' /\ SenderInv'
  BY DEF RemoteAccounting, GuardInv, KernelInv, SenderInv, TypeOK
<1>5. FreshInv'
  BY DEF FreshInv
<1>6. NoStuckGuard'
  BY <1>2 DEF NoStuckGuard, AcquireDue
<1>7. QED
  BY <1>1, <1>3, <1>4, <1>5, <1>6

\* A drop gives back a unit the entry has: local never underflows.
LEMMA DropIInv ==
  ASSUME IInv, NEW h \in Handles, Drop(h)
  PROVE  IInv'
<1> USE DEF IInv, Drop, kernel_vars
<1>1. /\ object_refcounts => h \in Counted
      /\ counts' = IF object_refcounts THEN DecreaseLocal(counts) ELSE counts
  BY DEF LocalAccounting, Counted, Alive, OnEntry
<1>2. object_refcounts => /\ counts.local >= 1
                          /\ Counted' = Counted \ {h}
                          /\ Cardinality(Counted') = counts.local - 1
  <2>1. SUFFICES ASSUME object_refcounts
                 PROVE  /\ counts.local >= 1
                        /\ Counted' = Counted \ {h}
                        /\ Cardinality(Counted') = counts.local - 1
    OBVIOUS
  <2>2. Counted' = Counted \ {h}
    BY DEF Counted, Alive, TypeOK
  <2>3. Counted \in SUBSET Handles
    BY DEF Counted
  <2>4. QED
    BY <1>1, <2>1, <2>2, <2>3, RemoveHandle DEF LocalAccounting
<1>3. TypeOK'
  BY <1>1, <1>2 DEF TypeOK, DecreaseLocal, RefCountsType, HandleStates, Kinds
<1>4. LocalAccounting'
  BY <1>1, <1>2 DEF LocalAccounting, DecreaseLocal, TypeOK, RefCountsType, Alive
<1>5. counts'.remote = counts.remote /\ counts'.pending = counts.pending
  BY <1>1 DEF DecreaseLocal, TypeOK, RefCountsType
<1>6. RemoteAccounting' /\ GuardInv' /\ KernelInv' /\ SenderInv'
  BY <1>5 DEF RemoteAccounting, GuardInv, KernelInv, SenderInv, TypeOK
<1>7. FreshInv'
  BY <1>1 DEF FreshInv
<1>8. NoStuckGuard'
  <2>1. Rollbackable' = Rollbackable
    BY DEF Rollbackable, TypeOK
  <2>2. QED
    BY <1>5, <2>1 DEF NoStuckGuard, AcquireDue
<1>9. QED
  BY <1>3, <1>4, <1>6, <1>7, <1>8

\* A handle that moves on inside its send stays alive and counted.
LEMMA SendStepCounted ==
  ASSUME IInv, NEW h \in Handles, handle[h] \in Alive,
         handle'[h] \in Alive, handle' = [handle EXCEPT ![h] = handle'[h]],
         counted' = counted, object_refcounts' = object_refcounts,
         counts'.local = counts.local
  PROVE  LocalAccounting'
<1>1. Counted' = Counted
  BY DEF IInv, TypeOK, Counted
<1>2. QED
  BY <1>1 DEF IInv, TypeOK, LocalAccounting

\* A mark adds a guard only together with a send that can roll it back.
LEMMA MarkIInv ==
  ASSUME IInv, NEW h \in Handles, Mark(h)
  PROVE  IInv'
<1> USE DEF IInv, Mark, kernel_vars
<1>1. /\ counts' \in RefCountsType
      /\ counts'.local = counts.local
      /\ counts'.remote = counts.remote
      /\ counts'.pending \in {counts.pending, counts.pending + 1}
      /\ object_refcounts /\ counts'.pending # counts.pending => counts.remote = 0
  BY DEF TypeOK, OnEntry, MarkPendingRemote, RefCountsType
<1>2. TypeOK'
  BY <1>1 DEF TypeOK, HandleStates
<1>3. LocalAccounting'
  BY <1>1, SendStepCounted DEF TypeOK, Alive
<1>4. RemoteAccounting' /\ KernelInv'
  BY <1>1 DEF RemoteAccounting, KernelInv
<1>5. GuardInv'
  BY <1>1 DEF GuardInv, TypeOK, RefCountsType
<1>6. SenderInv' /\ FreshInv'
  BY DEF SenderInv, FreshInv, TypeOK
<1>7. NoStuckGuard'
  <2>1. Rollbackable' = Rollbackable \cup {h} /\ h \notin Rollbackable
    BY DEF Rollbackable, TypeOK
  <2>2. Rollbackable \in SUBSET Handles
    BY DEF Rollbackable
  <2>3. /\ Cardinality(Rollbackable) \in Nat
        /\ Cardinality(Rollbackable') = Cardinality(Rollbackable) + 1
    BY <2>1, <2>2, AddHandle
  <2>4. QED
    BY <1>1, <2>3 DEF NoStuckGuard, AcquireDue, TypeOK, RefCountsType
<1>8. QED
  BY <1>2, <1>3, <1>4, <1>5, <1>6, <1>7

\* An accepted write brings an acquire with it, or one is already confirmed or
\* being applied; in the first and the last case it will reset every guard, in
\* the middle one there is no guard (GuardInv).
LEMMA WriteIInv ==
  ASSUME IInv, NEW h \in Handles, Write(h)
  PROVE  IInv'
<1> USE DEF IInv, Write, local_vars
<1>1. TypeOK'
  BY DEF TypeOK, HandleStates, Threads
<1>2. LocalAccounting'
  BY SendStepCounted DEF TypeOK, Alive
<1>3. RemoteAccounting' /\ GuardInv'
  BY DEF RemoteAccounting, GuardInv
<1>4. KernelInv'
  BY HandlesAssumption DEF KernelInv, TypeOK
<1>5. SenderInv'
  BY HandlesAssumption DEF SenderInv, TypeOK
<1>6. FreshInv'
  BY DEF FreshInv
<1>7. NoStuckGuard'
  <2>1. SUFFICES ASSUME object_refcounts, ~AcquireDue'
                 PROVE  counts.pending <= Cardinality(Rollbackable')
    BY DEF NoStuckGuard
  <2>2. kHas /\ acquiring = NoThread
    BY <2>1, HandlesAssumption DEF AcquireDue
  <2>3. counts.remote = 1 + releasing
    BY <2>1, <2>2 DEF RemoteAccounting, Unit, TypeOK, RefCountsType
  <2>4. counts.pending = 0
    BY <2>1, <2>3 DEF GuardInv, TypeOK, RefCountsType
  <2>5. Rollbackable' \in SUBSET Handles
    BY DEF Rollbackable
  <2>6. QED
    BY <2>4, <2>5, HandleSets
<1>8. QED
  BY <1>1, <1>2, <1>3, <1>4, <1>5, <1>6, <1>7

\* A refused write moves at most undelivered work to the thread of the send.
LEMMA WriteFailIInv ==
  ASSUME IInv, NEW h \in Handles, WriteFail(h)
  PROVE  IInv'
<1> USE DEF IInv, WriteFail, local_vars
<1>1. todo' = todo \/ (todo # NoThread /\ todo' = h)
  OBVIOUS
<1>2. TypeOK'
  BY <1>1 DEF TypeOK, HandleStates, Threads
<1>3. LocalAccounting'
  BY SendStepCounted DEF TypeOK, Alive
<1>4. RemoteAccounting' /\ GuardInv' /\ FreshInv'
  BY DEF RemoteAccounting, GuardInv, FreshInv
<1>5. KernelInv' /\ SenderInv'
  BY <1>1, HandlesAssumption DEF KernelInv, SenderInv, TypeOK
<1>6. NoStuckGuard'
  <2>1. Rollbackable' = Rollbackable
    BY DEF Rollbackable, TypeOK
  <2>2. AcquireDue' <=> AcquireDue
    BY <1>1, HandlesAssumption DEF AcquireDue
  <2>3. QED
    BY <2>1, <2>2 DEF NoStuckGuard
<1>7. QED
  BY <1>2, <1>3, <1>4, <1>5, <1>6

\* An error after the write makes one more send that will roll back.
LEMMA LateFailIInv ==
  ASSUME IInv, NEW h \in Handles, LateFail(h)
  PROVE  IInv'
<1> USE DEF IInv, LateFail, local_vars, kernel_vars
<1>1. TypeOK'
  BY DEF TypeOK, HandleStates
<1>2. LocalAccounting'
  BY SendStepCounted DEF TypeOK, Alive
<1>3. RemoteAccounting' /\ GuardInv' /\ FreshInv' /\ KernelInv' /\ SenderInv'
  BY DEF RemoteAccounting, GuardInv, FreshInv, KernelInv, SenderInv, TypeOK
<1>4. NoStuckGuard'
  <2>1. Rollbackable' = Rollbackable \cup {h} /\ h \notin Rollbackable
    BY DEF Rollbackable, TypeOK
  <2>2. Rollbackable \in SUBSET Handles
    BY DEF Rollbackable
  <2>3. /\ Cardinality(Rollbackable) \in Nat
        /\ Cardinality(Rollbackable') = Cardinality(Rollbackable) + 1
    BY <2>1, <2>2, AddHandle
  <2>4. QED
    BY <2>3 DEF NoStuckGuard, AcquireDue, TypeOK, RefCountsType
<1>5. QED
  BY <1>1, <1>2, <1>3, <1>4

\* A rollback takes one guard and one send that could roll back.
LEMMA UnmarkIInv ==
  ASSUME IInv, NEW h \in Handles, Unmark(h)
  PROVE  IInv'
<1> USE DEF IInv, Unmark, kernel_vars
<1>1. /\ counts' \in RefCountsType
      /\ counts'.local = counts.local
      /\ counts'.remote = counts.remote
      /\ counts'.pending <= counts.pending
      /\ object_refcounts => counts'.pending = 0 \/ counts'.pending = counts.pending - 1
  BY DEF TypeOK, OnEntry, ClearPendingRemote, RefCountsType
<1>2. TypeOK'
  BY <1>1 DEF TypeOK, HandleStates
<1>3. LocalAccounting'
  BY <1>1, SendStepCounted DEF TypeOK, Alive
<1>4. RemoteAccounting' /\ KernelInv'
  BY <1>1 DEF RemoteAccounting, KernelInv
<1>5. GuardInv'
  BY <1>1 DEF GuardInv, TypeOK, RefCountsType
<1>6. SenderInv' /\ FreshInv'
  BY DEF SenderInv, FreshInv, OutcomeRead, TypeOK
<1>7. NoStuckGuard'
  <2>1. Rollbackable' = Rollbackable \ {h} /\ h \in Rollbackable
    BY DEF Rollbackable, TypeOK
  <2>2. Rollbackable \in SUBSET Handles
    BY DEF Rollbackable
  <2>3. /\ Cardinality(Rollbackable) \in Nat
        /\ Cardinality(Rollbackable) >= 1
        /\ Cardinality(Rollbackable') = Cardinality(Rollbackable) - 1
    BY <2>1, <2>2, RemoveHandle
  <2>4. QED
    BY <1>1, <2>3 DEF NoStuckGuard, AcquireDue, TypeOK, RefCountsType
<1>8. QED
  BY <1>2, <1>3, <1>4, <1>5, <1>6, <1>7

\* A successful send returns; unread work stays behind only if reads may stop
\* short.
LEMMA FinishIInv ==
  ASSUME IInv, NEW h \in Handles, Finish(h)
  PROVE  IInv'
<1> USE DEF IInv, Finish, local_vars
<1>1. todo' = todo \/ (todo = h /\ todo' = Leftover)
  OBVIOUS
<1>2. TypeOK'
  BY <1>1 DEF TypeOK, HandleStates, Threads
<1>3. LocalAccounting'
  BY SendStepCounted DEF TypeOK, Alive
<1>4. RemoteAccounting' /\ GuardInv' /\ FreshInv'
  BY DEF RemoteAccounting, GuardInv, FreshInv
<1>5. KernelInv'
  BY <1>1, HandlesAssumption DEF KernelInv
<1>6. SenderInv'
  BY HandlesAssumption DEF SenderInv, TypeOK
<1>7. NoStuckGuard'
  <2>1. Rollbackable' = Rollbackable
    BY DEF Rollbackable, TypeOK
  <2>2. AcquireDue' <=> AcquireDue
    BY <1>1, HandlesAssumption DEF AcquireDue
  <2>3. QED
    BY <2>1, <2>2 DEF NoStuckGuard
<1>8. QED
  BY <1>2, <1>3, <1>4, <1>5, <1>6, <1>7

\* A step that leaves every handle alone leaves both counted sets alone.
LEMMA SameHandles ==
  UNCHANGED handle_vars => Counted' = Counted /\ Rollbackable' = Rollbackable
BY DEF handle_vars, Counted, Rollbackable

\* Reading: the queued acquire becomes the one being applied, on its thread.
LEMMA ReadAcquireIInv == IInv /\ ReadAcquire => IInv'
<1> SUFFICES ASSUME IInv, ReadAcquire PROVE IInv'
  OBVIOUS
<1> USE DEF IInv, ReadAcquire, local_vars, handle_vars
<1>0. Counted' = Counted /\ Rollbackable' = Rollbackable
  BY SameHandles
<1>1. TypeOK'
  BY DEF TypeOK, Threads
<1>2. LocalAccounting'
  BY <1>0 DEF LocalAccounting
<1>3. acquiring = NoThread /\ ~kHas
  BY DEF KernelInv
<1>4. RemoteAccounting'
  <2>1. acquiring' # NoThread /\ kHas' = TRUE
    OBVIOUS
  <2>2. Unit(acquiring' # NoThread) = Unit(kHas') /\ Unit(acquiring # NoThread) = Unit(kHas)
    BY <1>3, <2>1 DEF Unit
  <2>3. object_refcounts => counts.remote = releasing
    BY <1>3, <2>2 DEF RemoteAccounting, Unit, TypeOK, RefCountsType
  <2>4. QED
    BY <2>1, <2>3 DEF RemoteAccounting, Unit, TypeOK, RefCountsType
<1>5. KernelInv' /\ SenderInv' /\ FreshInv' /\ GuardInv'
  BY <1>3, HandlesAssumption DEF KernelInv, SenderInv, FreshInv, GuardInv, TypeOK
<1>6. NoStuckGuard'
  BY DEF NoStuckGuard, AcquireDue
<1>7. QED
  BY <1>1, <1>2, <1>4, <1>5, <1>6

\* An applied acquire confirms a remote unit and voids every guard.
LEMMA ApplyAcquireIInv == IInv /\ ApplyAcquire => IInv'
<1> SUFFICES ASSUME IInv, ApplyAcquire PROVE IInv'
  OBVIOUS
<1> USE DEF IInv, ApplyAcquire, handle_vars
<1>0. Counted' = Counted /\ Rollbackable' = Rollbackable
  BY SameHandles
<1>1. /\ counts' \in RefCountsType
      /\ counts'.local = counts.local
      /\ object_refcounts => counts'.remote = counts.remote + 1 /\ counts'.pending = 0
  <2>1. CASE object_refcounts
    <3>1. counts' = IncreaseRemote(counts)
      BY <2>1 DEF OnEntry
    <3>2. QED
      BY <2>1, <3>1, IncreaseRemoteFields DEF TypeOK
  <2>2. CASE ~object_refcounts
    BY <2>2 DEF OnEntry, TypeOK
  <2>3. QED
    BY <2>1, <2>2
<1>2. TypeOK'
  BY <1>1 DEF TypeOK, Threads
<1>3. LocalAccounting'
  BY <1>0, <1>1 DEF LocalAccounting
<1>4. RemoteAccounting'
  BY <1>1 DEF RemoteAccounting, Unit, TypeOK, RefCountsType
<1>5. KernelInv' /\ SenderInv'
  BY HandlesAssumption DEF KernelInv, SenderInv
<1>6. FreshInv'
  BY DEF FreshInv, KernelInv
<1>7. GuardInv'
  BY <1>1 DEF GuardInv
<1>8. NoStuckGuard'
  <2>1. Rollbackable' \in SUBSET Handles
    BY DEF Rollbackable
  <2>2. QED
    BY <1>1, <2>1, HandleSets DEF NoStuckGuard
<1>9. QED
  BY <1>2, <1>3, <1>4, <1>5, <1>6, <1>7, <1>8

\* A peer's drop takes undelivered work along, and then it is on record.
LEMMA RemoteDropIInv == IInv /\ RemoteDrop => IInv'
<1> SUFFICES ASSUME IInv, RemoteDrop PROVE IInv'
  OBVIOUS
<1> USE DEF IInv, RemoteDrop, local_vars, handle_vars
<1>0. Counted' = Counted /\ Rollbackable' = Rollbackable
  BY SameHandles
<1>1. TypeOK'
  <2>1. kstrong' \in Nat
    BY DEF TypeOK
  <2>2. todo' \in Threads /\ withdrawn' \in BOOLEAN
    BY DEF TypeOK, Threads
  <2>3. QED
    BY <2>1, <2>2 DEF TypeOK
<1>2. LocalAccounting'
  BY <1>0 DEF LocalAccounting
<1>3. RemoteAccounting' /\ GuardInv' /\ FreshInv'
  BY DEF RemoteAccounting, GuardInv, FreshInv, TypeOK
<1>4. KernelInv' /\ SenderInv'
  BY HandlesAssumption DEF KernelInv, SenderInv, TypeOK
<1>5. NoStuckGuard'
  <2>1. CASE kstrong = 1 /\ todo # NoThread
    BY <2>1 DEF NoStuckGuard
  <2>2. CASE ~(kstrong = 1 /\ todo # NoThread)
    BY <1>0, <2>2 DEF NoStuckGuard, AcquireDue
  <2>3. QED
    BY <2>1, <2>2
<1>6. QED
  BY <1>1, <1>2, <1>3, <1>4, <1>5

\* A release that is read is owed to the entry until it is applied.
LEMMA ReadReleaseIInv == IInv /\ ReadRelease => IInv'
<1> SUFFICES ASSUME IInv, ReadRelease PROVE IInv'
  OBVIOUS
<1> USE DEF IInv, ReadRelease, local_vars, handle_vars
<1>0. Counted' = Counted /\ Rollbackable' = Rollbackable
  BY SameHandles
<1>1. TypeOK'
  <2>1. releasing \in Nat
    BY DEF TypeOK
  <2>2. releasing' \in Nat
    BY <2>1
  <2>3. kHas' \in BOOLEAN
    OBVIOUS
  <2>4. QED
    BY <2>2, <2>3 DEF TypeOK
<1>2. LocalAccounting'
  BY <1>0 DEF LocalAccounting
<1>3. RemoteAccounting'
  BY DEF RemoteAccounting, Unit, TypeOK, RefCountsType
<1>4. KernelInv' /\ SenderInv' /\ FreshInv' /\ GuardInv'
  BY DEF KernelInv, SenderInv, FreshInv, GuardInv, TypeOK
<1>5. NoStuckGuard'
  BY <1>0 DEF NoStuckGuard, AcquireDue
<1>6. QED
  BY <1>1, <1>2, <1>3, <1>4, <1>5

\* A release is applied to an entry that has a remote unit: remote never
\* underflows.
LEMMA ApplyReleaseIInv == IInv /\ ApplyRelease => IInv'
<1> SUFFICES ASSUME IInv, ApplyRelease PROVE IInv'
  OBVIOUS
<1> USE DEF IInv, ApplyRelease, handle_vars
<1>0. Counted' = Counted /\ Rollbackable' = Rollbackable
  BY SameHandles
<1>1. object_refcounts => counts.remote >= 1
  BY DEF RemoteAccounting, KernelInv, Unit, TypeOK, RefCountsType
<1>2. /\ counts' \in RefCountsType
      /\ counts'.local = counts.local
      /\ counts'.pending = counts.pending
      /\ object_refcounts => counts'.remote = counts.remote - 1
  BY <1>1 DEF TypeOK, OnEntry, DecreaseRemote, RefCountsType
<1>3. TypeOK'
  BY <1>2 DEF TypeOK
<1>4. LocalAccounting'
  BY <1>0, <1>2 DEF LocalAccounting
<1>5. RemoteAccounting'
  BY <1>2 DEF RemoteAccounting, Unit, TypeOK, RefCountsType
<1>6. KernelInv' /\ SenderInv' /\ FreshInv'
  BY DEF KernelInv, SenderInv, FreshInv, TypeOK
<1>7. GuardInv'
  BY <1>1, <1>2 DEF GuardInv
<1>8. NoStuckGuard'
  BY <1>0, <1>2 DEF NoStuckGuard, AcquireDue
<1>9. QED
  BY <1>3, <1>4, <1>5, <1>6, <1>7, <1>8

\* Every step preserves the inductive invariant.
LEMMA NextIInv == IInv /\ [Next]_vars => IInv'
<1> SUFFICES ASSUME IInv, [Next]_vars PROVE IInv'
  OBVIOUS
<1>1. CASE GuardNext
  BY <1>1, RegisterIInv, GuardMovesIInv DEF GuardNext
<1>2. ASSUME NEW h \in Handles, HandleNext(h) PROVE IInv'
  BY <1>2, NewHandleIInv, FindIInv, DropIInv DEF HandleNext
<1>3. ASSUME NEW h \in Handles, SendNext(h) PROVE IInv'
  BY <1>3, MarkIInv, WriteIInv, WriteFailIInv, LateFailIInv, UnmarkIInv,
     FinishIInv DEF SendNext
<1>4. CASE KernelNext
  BY <1>4, ReadAcquireIInv, ApplyAcquireIInv, RemoteDropIInv, ReadReleaseIInv,
     ApplyReleaseIInv DEF KernelNext
<1>5. CASE UNCHANGED vars
  BY <1>5 DEF vars, local_vars, handle_vars, kernel_vars, IInv, TypeOK,
     LocalAccounting, RemoteAccounting, KernelInv, SenderInv, FreshInv, GuardInv,
     NoStuckGuard, AcquireDue, Counted, Rollbackable
<1>6. QED
  BY <1>1, <1>2, <1>3, <1>4, <1>5 DEF Next

LEMMA InductiveInvariant == Spec => []IInv
BY InitIInv, NextIInv, PTL DEF Spec
-----------------------------------------------------------------------------
\* No count ever underflows, and the state keeps its shape: for any number of
\* handles, loopers and remote references, whatever the driver does.
THEOREM TypeCorrect == Spec => []TypeOK
<1>1. IInv => TypeOK
  BY DEF IInv
<1>2. QED
  BY <1>1, InductiveInvariant, PTL

\* `local` is exactly the number of handles and payloads alive in the process.
THEOREM LocalIsAccounted == Spec => []LocalAccounting
<1>1. IInv => LocalAccounting
  BY DEF IInv
<1>2. QED
  BY <1>1, InductiveInvariant, PTL

\* `remote` is exactly what the driver delivered and the device applied.
THEOREM RemoteIsAccounted == Spec => []RemoteAccounting
<1>1. IInv => RemoteAccounting
  BY DEF IInv
<1>2. QED
  BY <1>1, InductiveInvariant, PTL

\* The invariant behind "Zero means genuinely no strong refs outstanding": with
\* nobody alive in the process nothing is queued or being applied, so a remote
\* reference has been confirmed and `remote` is above zero.
LEMMA ZeroFromInvariant == IInv => ZeroMeansUnreferenced
<1> SUFFICES ASSUME IInv, ~unread, object_refcounts, Total(counts) = 0
             PROVE  Unreferenced
  BY DEF ZeroMeansUnreferenced
<1>1. counts.local = 0 /\ counts.remote = 0
  BY DEF IInv, TypeOK, RefCountsType, Total
<1>2. Counted = {}
  <2>1. Counted \in SUBSET Handles
    BY DEF Counted
  <2>2. QED
    BY <1>1, <2>1, HandleSets DEF IInv, LocalAccounting
<1>3. \A h \in Handles : handle[h] \notin Alive
  BY <1>2 DEF IInv, LocalAccounting, Counted
<1>4. todo = NoThread /\ acquiring = NoThread
  BY <1>3 DEF IInv, SenderInv, TypeOK, Threads, Alive
<1>5. ~kHas
  BY <1>1, <1>4 DEF IInv, RemoteAccounting, TypeOK, Unit, RefCountsType
<1>6. kstrong = 0
  BY <1>4, <1>5 DEF IInv, KernelInv, TypeOK
<1>7. QED
  BY <1>3, <1>6 DEF Unreferenced

\* As long as every send has read its own acquire, zero is never published while a
\* handle, a payload or another process has the object.
THEOREM ZeroIsGenuine == Spec => []ZeroMeansUnreferenced
  BY ZeroFromInvariant, InductiveInvariant, PTL

\* mark_pending_remote leaves no guard behind that neither a rollback nor a
\* BR_ACQUIRE will take back, except when the driver has withdrawn the acquire
\* that was due: for any number of racing sends, whether or not their reads reach
\* their own acquires.
THEOREM GuardsAreConsumed == Spec => []NoStuckGuard
<1>1. IInv => NoStuckGuard
  BY DEF IInv
<1>2. QED
  BY <1>1, InductiveInvariant, PTL
=============================================================================
