---------------------------- MODULE RefStateLock ----------------------------
(***************************************************************************)
(* ObjectRefState::update step by step - lock, mutate, publish, unlock -   *)
(* by several threads at once, and one future waiting for zero on the      *)
(* watch channel (strong_refs_hit_zero, or to_service's cleanup task).     *)
(* The watch channel is tokio's: send_replace and a receiver's look at the *)
(* current value are each atomic under the channel's own lock.             *)
(***************************************************************************)
EXTENDS RefCounts

CONSTANTS
  Threads,   \* threads of the process that update this object's counts
  NoThread,  \* the mutex is free
  MaxTotal   \* bound: the total that the counts may reach

ASSUME NoThreadAssumption == NoThread \notin Threads
ASSUME MaxTotalAssumption == MaxTotal \in Nat

VARIABLES
  counts,     \* the RefCounts behind the mutex
  holder,     \* the thread that holds the mutex
  pc,         \* each thread's place in update
  snapshot,   \* each thread's copy of the counts it made
  before,     \* history: the counts that the latest mutation replaced
  published,  \* the value in the watch channel
  open,       \* the entry, and with it the channel's sender, still exists
  waiter,     \* the future's place in wait_for
  unseen      \* the channel's version moved since the future last looked

lock_vars == <<counts, holder, pc, snapshot, before>>
watch_vars == <<published, open, waiter, unseen>>
vars == <<lock_vars, watch_vars>>

Places == {"idle", "locked", "mutated", "published"}

\* zero, closed: wait_for returned Ok, or Err because the sender is gone.
WaiterStates == {"idle", "checking", "asleep", "zero", "closed"}

Init ==
  /\ counts = NoCounts
  /\ holder = NoThread
  /\ pc = [t \in Threads |-> "idle"]
  /\ snapshot = [t \in Threads |-> NoCounts]
  /\ before = NoCounts
  /\ published = Total(NoCounts)
  /\ open = TRUE
  /\ waiter = "idle"
  /\ unseen = FALSE
-----------------------------------------------------------------------------
(* update.                                                                 *)

\* counts.lock(), by a thread that found the entry in object_refcounts.
Lock(t) ==
  /\ open
  /\ pc[t] = "idle"
  /\ holder = NoThread
  /\ holder' = t
  /\ pc' = [pc EXCEPT ![t] = "locked"]
  /\ UNCHANGED <<counts, snapshot, before, watch_vars>>

\* Faulty: the lock is released before the publish.
MutateAndUnlock(t) ==
  /\ pc[t] = "locked"
  /\ counts' \in {c \in UpdateResults(counts) : Total(c) <= MaxTotal}
  /\ snapshot' = [snapshot EXCEPT ![t] = counts']
  /\ before' = counts
  /\ pc' = [pc EXCEPT ![t] = "mutated"]
  /\ holder' = NoThread
  /\ UNCHANGED watch_vars

\* f(&mut counts), and the snapshot.
Mutate(t) ==
  /\ pc[t] = "locked"
  /\ counts' \in {c \in UpdateResults(counts) : Total(c) <= MaxTotal}
  /\ snapshot' = [snapshot EXCEPT ![t] = counts']
  /\ before' = counts
  /\ pc' = [pc EXCEPT ![t] = "mutated"]
  /\ UNCHANGED <<holder, watch_vars>>

\* strong_count.send_replace: the value and a new version.
Publish(t) ==
  /\ pc[t] = "mutated"
  /\ published' = Total(snapshot[t])
  /\ unseen' = TRUE
  /\ pc' = [pc EXCEPT ![t] = "published"]
  /\ UNCHANGED <<counts, holder, snapshot, before, open, waiter>>

\* The mutex guard goes out of scope.
Unlock(t) ==
  /\ pc[t] = "published"
  /\ holder' = IF holder = t THEN NoThread ELSE holder
  /\ pc' = [pc EXCEPT ![t] = "idle"]
  /\ UNCHANGED <<counts, snapshot, before, watch_vars>>

\* object_refcounts.remove: it waits for the threads that are using the entry.
Close ==
  /\ open
  /\ \A t \in Threads : pc[t] = "idle"
  /\ open' = FALSE
  /\ UNCHANGED <<lock_vars, published, waiter, unseen>>
-----------------------------------------------------------------------------
(* The future.                                                             *)

\* Faulty: the future starts by waiting for the next change, as it did when it
\* was built on Notify.
SubscribeToEdges ==
  /\ waiter = "idle"
  /\ waiter' = "asleep"
  /\ unseen' = FALSE
  /\ UNCHANGED <<lock_vars, published, open>>

\* subscribe, and the first poll of wait_for; without an entry there is
\* nothing to wait for.
Subscribe ==
  /\ waiter = "idle"
  /\ waiter' = IF open THEN "checking" ELSE "closed"
  /\ unseen' = FALSE
  /\ UNCHANGED <<lock_vars, published, open>>

\* wait_for looks at the current value first, then at whether the sender is
\* gone, and only then goes to sleep.
Check ==
  /\ waiter = "checking"
  /\ waiter' = IF published = 0 THEN "zero" ELSE IF ~open THEN "closed" ELSE "asleep"
  /\ unseen' = FALSE
  /\ UNCHANGED <<lock_vars, published, open>>

\* A new version, or the sender's drop, wakes it.
Wake ==
  /\ waiter = "asleep"
  /\ unseen \/ ~open
  /\ waiter' = "checking"
  /\ UNCHANGED <<lock_vars, published, open, unseen>>
-----------------------------------------------------------------------------
Next ==
  \/ \E t \in Threads : Lock(t) \/ Mutate(t) \/ Publish(t) \/ Unlock(t)
  \/ Close
  \/ Subscribe
  \/ Check
  \/ Wake

Spec == Init /\ [][Next]_vars

\* A thread inside update runs to its end, and the runtime polls a woken
\* future.  Nobody has to start an update, to subscribe or to drop the entry.
Fairness ==
  /\ \A t \in Threads : WF_vars(Mutate(t)) /\ WF_vars(Publish(t)) /\ WF_vars(Unlock(t))
  /\ WF_vars(Check)
  /\ WF_vars(Wake)

FairSpec == Spec /\ Fairness
-----------------------------------------------------------------------------
(* Properties.                                                             *)

\* The shape of the state.
TypeOK ==
  /\ counts \in RefCountsType
  /\ holder \in Threads \cup {NoThread}
  /\ pc \in [Threads -> Places]
  /\ snapshot \in [Threads -> RefCountsType]
  /\ before \in RefCountsType
  /\ published \in Nat
  /\ open \in BOOLEAN
  /\ waiter \in WaiterStates
  /\ unseen \in BOOLEAN

\* An update takes effect when it publishes: until then watchers are entitled
\* to the counts that the mutation under way replaced.
PublishedView == IF \E t \in Threads : pc[t] = "mutated" THEN before ELSE counts

Atomic == INSTANCE PublishedCounts WITH counts <- PublishedView

\* update: "Publishing inside the lock forces publish order to match mutation
\* order."  Every step is an atomic update or invisible, so an older total
\* never overwrites a more recent one.
PublishesInOrder == Atomic!Spec

\* strong_count: "subscribing late still observes the right outcome instead of
\* hanging".  If the counts stay at zero, a future that waits for zero returns,
\* whenever it subscribed.
ZeroIsNoticed ==
  <>[](Total(counts) = 0 /\ waiter # "idle") => <>(waiter \in {"zero", "closed"})
=============================================================================
