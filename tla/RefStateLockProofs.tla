------------------------- MODULE RefStateLockProofs -------------------------
(***************************************************************************)
(* ObjectRefState::update implements the atomic update of PublishedCounts, *)
(* for every set of threads and every bound on the counts.                 *)
(***************************************************************************)
EXTENDS RefStateLock, TLAPS

\* The mutex: a thread is inside update exactly when it is the holder.
MutexInv == \A t \in Threads : pc[t] # "idle" <=> holder = t

\* Between a mutation and its publish the watchers are entitled to `before`;
\* at every other time the published total is that of the counts.
PublishInv ==
  /\ \A t \in Threads :
       pc[t] = "mutated" => /\ snapshot[t] = counts
                            /\ counts \in UpdateResults(before)
  /\ published = Total(PublishedView)

IInv == TypeOK /\ MutexInv /\ PublishInv
-----------------------------------------------------------------------------
\* No closure that update is called with makes a count negative.
LEMMA UpdateResultsType ==
  ASSUME NEW c \in RefCountsType
  PROVE  UpdateResults(c) \subseteq RefCountsType
<1>1. /\ IncreaseLocal(c) \in RefCountsType
      /\ IncreaseRemote(c) \in RefCountsType
      /\ MarkPendingRemote(c) \in RefCountsType
      /\ ClearPendingRemote(c) \in RefCountsType
  BY DEF RefCountsType, IncreaseLocal, IncreaseRemote, MarkPendingRemote,
     ClearPendingRemote
<1>2. /\ c.local > 0 => DecreaseLocal(c) \in RefCountsType
      /\ c.remote > 0 => DecreaseRemote(c) \in RefCountsType
  BY DEF RefCountsType, DecreaseLocal, DecreaseRemote
<1>3. QED
  BY <1>1, <1>2 DEF UpdateResults

\* The total of well-typed counts is a natural number.
LEMMA TotalType == ASSUME NEW c \in RefCountsType PROVE Total(c) \in Nat
BY DEF RefCountsType, Total

\* The view changes only when a mutation starts or is published.
LEMMA SameView ==
  ASSUME counts' = counts, before' = before,
         \A t \in Threads : pc'[t] = "mutated" <=> pc[t] = "mutated"
  PROVE  PublishedView' = PublishedView
BY DEF PublishedView

LEMMA InitIInv == Init => IInv
<1> SUFFICES ASSUME Init PROVE IInv
  OBVIOUS
<1>1. NoCounts \in RefCountsType /\ Total(NoCounts) \in Nat
  BY DEF NoCounts, RefCountsType, Total
<1>2. PublishedView = NoCounts
  BY DEF Init, PublishedView
<1>3. QED
  BY <1>1, <1>2, NoThreadAssumption DEF Init, IInv, TypeOK, MutexInv, PublishInv,
     Places, WaiterStates

\* A thread enters update only when the mutex is free.
LEMMA LockIInv ==
  ASSUME IInv, NEW t \in Threads, Lock(t)
  PROVE  IInv' /\ PublishedView' = PublishedView /\ published' = published
<1> USE DEF IInv, Lock, watch_vars
<1>1. TypeOK'
  BY DEF TypeOK, Places
<1>2. MutexInv'
  BY NoThreadAssumption DEF MutexInv, TypeOK
<1>3. PublishedView' = PublishedView
  BY SameView DEF TypeOK
<1>4. PublishInv'
  BY <1>3 DEF PublishInv, TypeOK
<1>5. QED
  BY <1>1, <1>2, <1>3, <1>4

\* A mutation is invisible to watchers: they keep the counts it replaced.
LEMMA MutateIInv ==
  ASSUME IInv, NEW t \in Threads, Mutate(t)
  PROVE  IInv' /\ PublishedView' = PublishedView /\ published' = published
<1> USE DEF IInv, Mutate, watch_vars
<1>1. counts' \in UpdateResults(counts) /\ counts' \in RefCountsType
  BY UpdateResultsType DEF TypeOK
<1>2. TypeOK'
  BY <1>1 DEF TypeOK, Places
<1>3. MutexInv'
  BY DEF MutexInv, TypeOK
<1>4. \A u \in Threads : pc[u] # "mutated"
  BY DEF MutexInv
<1>5. PublishedView = counts /\ PublishedView' = counts
  BY <1>4 DEF PublishedView, TypeOK
<1>6. \A u \in Threads : pc'[u] = "mutated" => u = t
  BY <1>4 DEF TypeOK
<1>7. PublishInv'
  BY <1>1, <1>5, <1>6 DEF PublishInv, TypeOK
<1>8. QED
  BY <1>2, <1>3, <1>5, <1>7

\* A publish is the atomic update: nobody else mutated since.
LEMMA PublishIInv ==
  ASSUME IInv, NEW t \in Threads, Publish(t)
  PROVE  IInv' /\ Atomic!Update
<1> USE DEF IInv, Publish
<1>1. TypeOK'
  BY TotalType DEF TypeOK, Places
<1>2. MutexInv'
  BY DEF MutexInv, TypeOK
<1>3. \A u \in Threads : pc'[u] # "mutated"
  BY DEF MutexInv, TypeOK
<1>4. PublishedView = before /\ PublishedView' = counts
  BY <1>3 DEF PublishedView
<1>5. published' = Total(counts) /\ counts \in UpdateResults(before)
  BY DEF PublishInv
<1>6. PublishInv'
  BY <1>3, <1>4, <1>5 DEF PublishInv
<1>7. Atomic!Update
  BY <1>4, <1>5 DEF Atomic!Update, Atomic!UpdateResults, Atomic!Total,
     Atomic!IncreaseLocal, Atomic!IncreaseRemote, Atomic!MarkPendingRemote,
     Atomic!ClearPendingRemote, Atomic!DecreaseLocal, Atomic!DecreaseRemote,
     UpdateResults, Total, IncreaseLocal, IncreaseRemote, MarkPendingRemote,
     ClearPendingRemote, DecreaseLocal, DecreaseRemote
<1>8. QED
  BY <1>1, <1>2, <1>6, <1>7

LEMMA UnlockIInv ==
  ASSUME IInv, NEW t \in Threads, Unlock(t)
  PROVE  IInv' /\ PublishedView' = PublishedView /\ published' = published
<1> USE DEF IInv, Unlock, watch_vars
<1>1. TypeOK'
  BY DEF TypeOK, Places
<1>2. MutexInv'
  BY NoThreadAssumption DEF MutexInv, TypeOK
<1>3. PublishedView' = PublishedView
  BY SameView DEF TypeOK
<1>4. PublishInv'
  BY <1>3 DEF PublishInv, TypeOK
<1>5. QED
  BY <1>1, <1>2, <1>3, <1>4

\* The watch side and the removal of the entry touch neither counts nor total.
LEMMA WatchIInv ==
  ASSUME IInv, Close \/ Subscribe \/ Check \/ Wake \/ UNCHANGED vars
  PROVE  IInv' /\ PublishedView' = PublishedView /\ published' = published
<1> USE DEF IInv
<1>1. UNCHANGED lock_vars /\ published' = published
  BY DEF Close, Subscribe, Check, Wake, vars, watch_vars
<1>2. open' \in BOOLEAN /\ waiter' \in WaiterStates /\ unseen' \in BOOLEAN
  <2>1. CASE Close \/ Wake
    BY <2>1 DEF Close, Wake, TypeOK, WaiterStates
  <2>2. CASE Subscribe
    BY <2>2 DEF Subscribe, TypeOK, WaiterStates
  <2>3. CASE Check
    BY <2>3 DEF Check, TypeOK, WaiterStates
  <2>4. CASE UNCHANGED vars
    BY <2>4 DEF vars, watch_vars, TypeOK
  <2>5. QED
    BY <2>1, <2>2, <2>3, <2>4
<1>3. TypeOK'
  BY <1>1, <1>2 DEF TypeOK, lock_vars
<1>4. PublishedView' = PublishedView
  BY <1>1, SameView DEF lock_vars
<1>5. MutexInv' /\ PublishInv'
  BY <1>1, <1>4 DEF MutexInv, PublishInv, lock_vars
<1>6. QED
  BY <1>1, <1>3, <1>4, <1>5

\* Every step keeps the invariant and is an atomic update or invisible.
LEMMA StepSimulation ==
  ASSUME IInv, [Next]_vars
  PROVE  IInv' /\ [Atomic!Update]_<<PublishedView, published>>
<1>1. ASSUME NEW t \in Threads, Lock(t) \/ Mutate(t) \/ Publish(t) \/ Unlock(t)
      PROVE  IInv' /\ [Atomic!Update]_<<PublishedView, published>>
  BY <1>1, LockIInv, MutateIInv, PublishIInv, UnlockIInv
<1>2. CASE Close \/ Subscribe \/ Check \/ Wake \/ UNCHANGED vars
  BY <1>2, WatchIInv
<1>3. QED
  BY <1>1, <1>2 DEF Next

LEMMA InitSimulation == Init => Atomic!Init
<1> SUFFICES ASSUME Init PROVE Atomic!Init
  OBVIOUS
<1>1. PublishedView = NoCounts
  BY DEF Init, PublishedView
<1>2. QED
  BY <1>1 DEF Init, Atomic!Init, Atomic!NoCounts, Atomic!Total, NoCounts, Total
-----------------------------------------------------------------------------
\* The mutex and the watch channel keep their shape, no count is negative.
THEOREM LockTypeCorrect == Spec => []TypeOK
<1>1. IInv => TypeOK
  BY DEF IInv
<1>2. QED
  BY <1>1, InitIInv, StepSimulation, PTL DEF Spec

\* update, with its lock held across the publish, implements the atomic update:
\* what watchers see moves through the totals in the order of the mutations.
THEOREM UpdateIsAtomic == Spec => PublishesInOrder
<1>1. Init => IInv /\ Atomic!Init
  BY InitIInv, InitSimulation
<1>2. IInv /\ [Next]_vars => IInv' /\ [Atomic!Update]_<<PublishedView, published>>
  BY StepSimulation
<1>3. QED
  BY <1>1, <1>2, PTL DEF Spec, PublishesInOrder, Atomic!Spec
=============================================================================
