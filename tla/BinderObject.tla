---------------------------- MODULE BinderObject ----------------------------
(***************************************************************************)
(* The life of one locally registered binder object: its entries in the    *)
(* device's tables, the handles the process holds on it, the sends that    *)
(* embed it in an outgoing payload, and the BR_ACQUIRE/BR_RELEASE traffic  *)
(* that tells the device about references in other processes.              *)
(*                                                                         *)
(* Every table of BinderDevice is keyed by an id that object_id_counter    *)
(* never hands out twice, and no operation below touches two entries, so   *)
(* objects do not interact and one object is the whole system here.        *)
(*                                                                         *)
(* The kernel driver is external.  It is modelled from what device.rs      *)
(* relies on: a send whose object has no delivered strong reference puts   *)
(* (or moves) the node's work on the sending thread's own list, that work  *)
(* is read as one BR_ACQUIRE, and BR_RELEASE is delivered only after the   *)
(* acquire was acknowledged by ACQUIRE_DONE.  Work that nobody has read by *)
(* the time the last target lets go is withdrawn: there is no reference    *)
(* left to report.                                                         *)
(***************************************************************************)
EXTENDS Integers, FiniteSets, RefCounts

CONSTANTS
  Handles,          \* values of BorrowedBinderObject and BinderObjectRef
  NoThread,         \* "no thread": nothing queued, nothing being applied
  Leftover,         \* a thread whose send returned before it read its work
  MaxRemote,        \* bound: references the other processes hold
  MaxPending,       \* bound: guards taken out and not consumed
  MaxReleasing      \* bound: loopers that have read a BR_RELEASE

ASSUME HandlesAssumption ==
  /\ IsFiniteSet(Handles)
  /\ NoThread \notin Handles
  /\ Leftover \notin Handles
  /\ NoThread # Leftover

ASSUME BoundsAssumption ==
  MaxRemote \in Nat /\ MaxPending \in Nat /\ MaxReleasing \in Nat

VARIABLES
  guard,            \* where the BinderObject capability guard is
  objects,          \* BinderDevice::objects has the id
  object_refcounts, \* BinderDevice::object_refcounts has the id
  counts,           \* the RefCounts of that entry
  handle,           \* each handle's progress
  kind,             \* each handle's Rust type
  counted,          \* increased_local_ref (of a typed ref: was it counted)
  kstrong,          \* kernel: strong references held by other processes
  kHas,             \* kernel: has_strong_ref, an acquire was delivered
  todo,             \* kernel: the thread whose list holds the node's work
  withdrawn,        \* history: work was withdrawn, and none was read since
  unread,           \* history: a send returned before it read its work
  acquiring,        \* the thread that read BR_ACQUIRE and has not applied it
  releasing         \* BR_RELEASEs read by loopers and not yet applied

local_vars == <<guard, objects, object_refcounts, counts>>
handle_vars == <<handle, kind, counted>>
kernel_vars == <<kstrong, kHas, todo, withdrawn, unread, acquiring, releasing>>
vars == <<local_vars, handle_vars, kernel_vars>>

\* The guard is held by the application, or retained by the device (service
\* mode); zeroSeen is a cleanup task past its wait_for.  Dropping it unlists
\* the id in two steps, and the two ways of dropping it are told apart.
GuardStates == {"none", "held", "retained", "zeroSeen",
                "dropping", "dropped", "reclaiming", "reclaimed"}

\* found: from_id has its handler, the counts come next.  live: an application
\* value.  marked, sent, failed, done: a borrowed value inside an outgoing
\* payload, by the progress of its send.
HandleStates == {"free", "found", "live", "marked", "sent", "failed", "done"}

Alive == {"live", "marked", "sent", "failed", "done"}

Kinds == {"borrowed", "ref"}

Threads == Handles \cup {NoThread, Leftover}

\* What "if let Some(refstate) = object_refcounts.get(id)" does to the counts.
OnEntry(c) == IF object_refcounts THEN c ELSE counts
-----------------------------------------------------------------------------
(* The capability guard: BinderDevice::register_object, to_service and the *)
(* drop of a BinderObject.                                                 *)

Init ==
  /\ guard = "none"
  /\ objects = FALSE
  /\ object_refcounts = FALSE
  /\ counts = NoCounts
  /\ handle = [h \in Handles |-> "free"]
  /\ kind = [h \in Handles |-> "borrowed"]
  /\ counted = [h \in Handles |-> FALSE]
  /\ kstrong = 0
  /\ kHas = FALSE
  /\ todo = NoThread
  /\ withdrawn = FALSE
  /\ unread = FALSE
  /\ acquiring = NoThread
  /\ releasing = 0

\* register_object: nobody knows the id before the guard is returned.
Register ==
  /\ guard = "none"
  /\ guard' = "held"
  /\ objects' = TRUE
  /\ object_refcounts' = TRUE
  /\ UNCHANGED <<counts, handle_vars, kernel_vars>>

\* to_service: the guard moves to retained_services and the caller gets a
\* typed ref, counted before the cleanup task subscribes to the count.
ToService(h) ==
  /\ guard = "held"
  /\ handle[h] = "free"
  /\ guard' = "retained"
  /\ counts' = OnEntry(IncreaseLocal(counts))
  /\ handle' = [handle EXCEPT ![h] = "live"]
  /\ kind' = [kind EXCEPT ![h] = "ref"]
  /\ counted' = [counted EXCEPT ![h] = object_refcounts]
  /\ UNCHANGED <<objects, object_refcounts, kernel_vars>>

\* The cleanup task's wait_for returns: the published total is zero.
CleanupSee ==
  /\ guard = "retained"
  /\ Total(counts) = 0
  /\ guard' = "zeroSeen"
  /\ UNCHANGED <<objects, object_refcounts, counts, handle_vars, kernel_vars>>

\* Drop of the guard, first half of remove_binder_object: by the application,
\* or by the cleanup task taking it out of retained_services.
DropGuard ==
  /\ \/ guard = "held" /\ guard' = "dropping"
     \/ guard = "zeroSeen" /\ guard' = "reclaiming"
  /\ objects' = FALSE
  /\ UNCHANGED <<object_refcounts, counts, handle_vars, kernel_vars>>

\* The second half of remove_binder_object.
RemoveRefcounts ==
  /\ \/ guard = "dropping" /\ guard' = "dropped"
     \/ guard = "reclaiming" /\ guard' = "reclaimed"
  /\ object_refcounts' = FALSE
  /\ counts' = NoCounts
  /\ UNCHANGED <<objects, handle_vars, kernel_vars>>
-----------------------------------------------------------------------------
(* Handles: from_id, to_binder_object_or_ref, clone and drop.              *)

\* from_id, first half: get_handler.  It is how a weak object is upgraded, a
\* payload's BINDER entry is read, and one kind of handle is made of another.
Find(h, k) ==
  /\ handle[h] = "free"
  /\ objects
  /\ handle' = [handle EXCEPT ![h] = "found"]
  /\ kind' = [kind EXCEPT ![h] = k]
  /\ counted' = [counted EXCEPT ![h] = FALSE]
  /\ UNCHANGED <<local_vars, kernel_vars>>

\* from_id, second half: without an entry a typed ref is refused (None), a
\* borrowed one is handed out uncounted.
Count(h) ==
  /\ handle[h] = "found"
  /\ handle' = [handle EXCEPT ![h] =
                  IF object_refcounts \/ kind[h] = "borrowed"
                  THEN "live" ELSE "free"]
  /\ counted' = [counted EXCEPT ![h] = object_refcounts]
  /\ counts' = OnEntry(IncreaseLocal(counts))
  /\ UNCHANGED <<guard, objects, object_refcounts, kind, kernel_vars>>

\* BinderObject::to_binder_object_or_ref: the guard has the handler at hand.
GuardBorrow(h) ==
  /\ guard = "held"
  /\ handle[h] = "free"
  /\ handle' = [handle EXCEPT ![h] = "live"]
  /\ kind' = [kind EXCEPT ![h] = "borrowed"]
  /\ counted' = [counted EXCEPT ![h] = object_refcounts]
  /\ counts' = OnEntry(IncreaseLocal(counts))
  /\ UNCHANGED <<guard, objects, object_refcounts, kernel_vars>>

\* Faulty: a clone that copies increased_local_ref without counting.
CloneUncounted(h, g) ==
  /\ handle[h] = "free"
  /\ handle[g] = "live"
  /\ handle' = [handle EXCEPT ![h] = "live"]
  /\ kind' = [kind EXCEPT ![h] = kind[g]]
  /\ counted' = [counted EXCEPT ![h] = counted[g]]
  /\ UNCHANGED <<local_vars, kernel_vars>>

\* Clone of a live handle, of either type.
Clone(h, g) ==
  /\ handle[h] = "free"
  /\ handle[g] = "live"
  /\ handle' = [handle EXCEPT ![h] = "live"]
  /\ kind' = [kind EXCEPT ![h] = kind[g]]
  /\ counted' = [counted EXCEPT ![h] = object_refcounts]
  /\ counts' = OnEntry(IncreaseLocal(counts))
  /\ UNCHANGED <<guard, objects, object_refcounts, kernel_vars>>

\* Drop: a borrowed handle gives back only what it took, a typed ref gives
\* one unit back whenever there is an entry.
Drop(h) ==
  /\ handle[h] \in {"live", "done"}
  /\ handle' = [handle EXCEPT ![h] = "free"]
  /\ counts' = IF counted[h] \/ kind[h] = "ref"
               THEN OnEntry(DecreaseLocal(counts)) ELSE counts
  /\ counted' = [counted EXCEPT ![h] = FALSE]
  /\ kind' = [kind EXCEPT ![h] = "borrowed"]
  /\ UNCHANGED <<guard, objects, object_refcounts, kernel_vars>>
-----------------------------------------------------------------------------
(* Sends: a borrowed handle inside the payload of an outgoing call         *)
(* (remote_transact_blocking, remote_transact_one_way) or of a reply.      *)

\* mark_objects_as_pending_remote, before the write.
Mark(h) ==
  /\ handle[h] = "live"
  /\ kind[h] = "borrowed"
  /\ counts.pending < MaxPending
  /\ handle' = [handle EXCEPT ![h] = "marked"]
  /\ counts' = OnEntry(MarkPendingRemote(counts))
  /\ UNCHANGED <<guard, objects, object_refcounts, kind, counted, kernel_vars>>

\* The driver accepts BC_TRANSACTION or BC_REPLY: another process now has a
\* strong reference, and unless an acquire was delivered before, the node's
\* work is put on, or moved to, the list of the thread of this send.
Write(h) ==
  /\ handle[h] = "marked"
  /\ kstrong < MaxRemote
  /\ handle' = [handle EXCEPT ![h] = "sent"]
  /\ kstrong' = kstrong + 1
  /\ todo' = IF kHas THEN todo ELSE h
  /\ UNCHANGED <<local_vars, kind, counted, kHas, withdrawn, unread, acquiring, releasing>>

\* The driver refuses it.  When it does so after translating the payload,
\* undelivered work of an earlier send has been moved to this thread.
WriteFail(h) ==
  /\ handle[h] = "marked"
  /\ handle' = [handle EXCEPT ![h] = "failed"]
  /\ todo' \in IF todo = NoThread THEN {todo} ELSE {todo, h}
  /\ UNCHANGED <<local_vars, kind, counted, kstrong, kHas, withdrawn,
                 unread, acquiring, releasing>>

\* A thread's list is read in order and each message is applied as it is read,
\* so a thread that has read the outcome of its send has applied the acquire
\* that was queued before it.
OutcomeRead(h) == acquiring # h /\ todo # h

\* The write went through and the call still ends in an error: a dead, failed
\* or frozen reply, or ObjectNotFound of a nested transaction.
LateFail(h) ==
  /\ handle[h] = "sent"
  /\ OutcomeRead(h)
  /\ handle' = [handle EXCEPT ![h] = "failed"]
  /\ UNCHANGED <<local_vars, kind, counted, kernel_vars>>

\* Faulty: an error path that forgets the rollback.
UnmarkForgotten(h) ==
  /\ handle[h] = "failed"
  /\ OutcomeRead(h)
  /\ handle' = [handle EXCEPT ![h] = "done"]
  /\ UNCHANGED <<local_vars, kind, counted, kernel_vars>>

\* unmark_objects_as_pending_remote on every error path.
Unmark(h) ==
  /\ handle[h] = "failed"
  /\ OutcomeRead(h)
  /\ handle' = [handle EXCEPT ![h] = "done"]
  /\ counts' = OnEntry(ClearPendingRemote(counts))
  /\ UNCHANGED <<guard, objects, object_refcounts, kind, counted, kernel_vars>>

\* Faulty: a reply written by a read-less ioctl, so that its own BR_ACQUIRE
\* stays behind on the thread's list.
FinishUnread(h) ==
  /\ handle[h] = "sent"
  /\ acquiring # h
  /\ todo' = IF todo = h THEN Leftover ELSE todo
  /\ handle' = [handle EXCEPT ![h] = "done"]
  /\ UNCHANGED <<local_vars, kind, counted, kstrong, kHas, withdrawn,
                 unread, acquiring, releasing>>

\* The send succeeded; its payload is dropped next.  A one-way send and a reply
\* return after one read, whose 256 bytes may not reach the send's own acquire:
\* it then stays on the thread's list.
Finish(h) ==
  /\ handle[h] = "sent"
  /\ acquiring # h
  /\ todo' = IF todo = h THEN Leftover ELSE todo
  /\ unread' = (unread \/ todo = h)
  /\ handle' = [handle EXCEPT ![h] = "done"]
  /\ UNCHANGED <<local_vars, kind, counted, kstrong, kHas, withdrawn,
                 acquiring, releasing>>
-----------------------------------------------------------------------------
(* The driver and the threads that read from it.                           *)

\* A thread reads its list: the node's work becomes BR_ACQUIRE.
ReadAcquire ==
  /\ todo # NoThread
  /\ kHas' = TRUE
  /\ acquiring' = todo
  /\ todo' = NoThread
  /\ withdrawn' = FALSE
  /\ UNCHANGED <<local_vars, handle_vars, kstrong, unread, releasing>>

\* The BR_ACQUIRE arm: increase_remote if there is an entry, then ACQUIRE_DONE.
ApplyAcquire ==
  /\ acquiring # NoThread
  /\ counts' = OnEntry(IncreaseRemote(counts))
  /\ acquiring' = NoThread
  /\ UNCHANGED <<guard, objects, object_refcounts, handle_vars,
                 kstrong, kHas, todo, withdrawn, unread, releasing>>

\* Another process drops a reference, or its buffer is freed.  The last one to
\* go takes unread work with it.
RemoteDrop ==
  /\ kstrong > 0
  /\ kstrong' = kstrong - 1
  /\ IF kstrong = 1 /\ todo # NoThread
     THEN todo' = NoThread /\ withdrawn' = TRUE
     ELSE UNCHANGED <<todo, withdrawn>>
  /\ UNCHANGED <<local_vars, handle_vars, kHas, unread, acquiring, releasing>>

\* A looper reads BR_RELEASE.  The driver keeps a reference of its own from
\* BR_ACQUIRE to ACQUIRE_DONE, so a release never overtakes its acquire.
ReadRelease ==
  /\ kHas
  /\ kstrong = 0
  /\ acquiring = NoThread
  /\ releasing < MaxReleasing
  /\ kHas' = FALSE
  /\ releasing' = releasing + 1
  /\ UNCHANGED <<local_vars, handle_vars, kstrong, todo, withdrawn, unread, acquiring>>

\* The BR_RELEASE arm: decrease_remote if there is an entry.
ApplyRelease ==
  /\ releasing > 0
  /\ counts' = OnEntry(DecreaseRemote(counts))
  /\ releasing' = releasing - 1
  /\ UNCHANGED <<guard, objects, object_refcounts, handle_vars,
                 kstrong, kHas, todo, withdrawn, unread, acquiring>>
-----------------------------------------------------------------------------
GuardNext == Register \/ CleanupSee \/ DropGuard \/ RemoveRefcounts

HandleNext(h) ==
  \/ ToService(h)
  \/ \E k \in Kinds : Find(h, k)
  \/ Count(h)
  \/ GuardBorrow(h)
  \/ \E g \in Handles : Clone(h, g)
  \/ Drop(h)

SendNext(h) ==
  Mark(h) \/ Write(h) \/ WriteFail(h) \/ LateFail(h) \/ Unmark(h) \/ Finish(h)

KernelNext ==
  ReadAcquire \/ ApplyAcquire \/ RemoteDrop \/ ReadRelease \/ ApplyRelease

Next ==
  \/ GuardNext
  \/ \E h \in Handles : HandleNext(h) \/ SendNext(h)
  \/ KernelNext

Spec == Init /\ [][Next]_vars

\* The loopers and sending threads keep reading and applying what they read,
\* the cleanup task is polled, and a started drop is run to its end.  Nobody
\* has to drop a handle, and no peer has to drop a reference.
Fairness ==
  /\ WF_vars(ReadAcquire)
  /\ WF_vars(ApplyAcquire)
  /\ WF_vars(ReadRelease)
  /\ WF_vars(ApplyRelease)
  /\ WF_vars(CleanupSee)
  /\ WF_vars(guard = "zeroSeen" /\ DropGuard)
  /\ WF_vars(RemoveRefcounts)

FairSpec == Spec /\ Fairness
-----------------------------------------------------------------------------
(* Properties.                                                             *)

\* The shape of the state; counts in Nat means that no `-= 1` of
\* decrease_local or decrease_remote ever underflows its u32.
TypeOK ==
  /\ guard \in GuardStates
  /\ objects \in BOOLEAN
  /\ object_refcounts \in BOOLEAN
  /\ counts \in RefCountsType
  /\ handle \in [Handles -> HandleStates]
  /\ kind \in [Handles -> Kinds]
  /\ counted \in [Handles -> BOOLEAN]
  /\ kstrong \in Nat
  /\ kHas \in BOOLEAN
  /\ todo \in Threads
  /\ withdrawn \in BOOLEAN /\ unread \in BOOLEAN
  /\ acquiring \in Threads
  /\ releasing \in Nat

\* The handles that still owe the entry one local unit.
Counted == {h \in Handles : handle[h] \in Alive /\ counted[h]}

\* While the entry exists, `local` is the number of handles and payloads alive
\* in this process, whichever of the constructors made them and although a
\* typed ref's drop does not look at a flag.
LocalAccounting ==
  object_refcounts =>
    /\ counts.local = Cardinality(Counted)
    /\ \A h \in Handles : handle[h] \in Alive => counted[h]

Unit(b) == IF b THEN 1 ELSE 0

\* While the entry exists, `remote` differs from what the driver believes the
\* process holds (has_strong_ref) exactly by the messages read and not applied.
RemoteAccounting ==
  object_refcounts =>
    counts.remote + Unit(acquiring # NoThread) = Unit(kHas) + releasing

\* Nobody has the object: no handle, no payload, no other process.
Unreferenced ==
  /\ kstrong = 0
  /\ \A h \in Handles : handle[h] \notin Alive

\* The field comment of strong_count: "Zero means genuinely no strong refs
\* outstanding."  While the entry exists a total of zero is never published
\* when a handle, a payload or another process still has the object, if every
\* send has read its own BR_ACQUIRE: "the kernel processes this thread's own
\* queued BR_ACQUIRE immediately, in this call".
ZeroMeansUnreferenced ==
  object_refcounts /\ Total(counts) = 0 /\ ~unread => Unreferenced

\* The sends that have yet to take their guard back or to reach the driver.
Rollbackable == {h \in Handles : handle[h] \in {"marked", "failed"}}

AcquireDue == todo # NoThread \/ acquiring # NoThread

\* mark_pending_remote's guard is consumed by the BR_ACQUIRE of a send or by a
\* rollback.  Guards outnumber the sends that can still roll back only while a
\* BR_ACQUIRE is on its way to reset them, or when the last one due was withdrawn:
\* that is the one way to lose a guard.
NoStuckGuard ==
  object_refcounts /\ ~AcquireDue /\ ~withdrawn =>
    counts.pending <= Cardinality(Rollbackable)

\* The acquire that a guard waits for was withdrawn.
GuardLost == withdrawn /\ counts.pending > Cardinality(Rollbackable)

\* to_service: "device holds the guard until strong refs hit zero".  A service
\* whose handles, payloads and remote references are gone is reclaimed, unless
\* somebody picks it up again first, or a guard of it was lost.
ServiceReclaimed ==
  (guard = "retained" /\ Unreferenced) ~>
    (guard = "reclaimed" \/ ~Unreferenced \/ GuardLost)

\* The tests of a reference that is sent and dropped at once wait for zero:
\* "strong_refs_hit_zero did not fire within 2s".  When nobody has a registered
\* object any more, and no send has left its work unread, zero is published, unless
\* somebody picks the object up again.
HitZeroFires ==
  (object_refcounts /\ Unreferenced /\ ~unread) ~>
    (Total(counts) = 0 \/ ~object_refcounts \/ ~Unreferenced)

\* as_erased: expect("holding the same refs as expected, should be
\* unreachable").  In service mode the guard is the device's, so a live typed
\* ref should always find the object's handler.
AsErasedFindsHandler ==
  guard \in {"reclaiming", "reclaimed"} =>
    ~ \E h \in Handles : handle[h] = "live" /\ kind[h] = "ref"
=============================================================================
