# Verification of binderbinder

binderbinder is a Rust library on top of Linux's binder driver. It gives a
process typed objects that other processes can call, keeps the reference counts
that the driver's protocol asks for, and runs the threads that serve incoming
transactions. This directory holds TLA+ models of the parts where concurrency
and protocol order matter, TLC runs on small instances, and TLAPS proofs for
every instance. `PROJECT.json` lists the components, the runs, the mutants that
show each property to have teeth, the source lines behind each definition, the
hazards and the theorems. Line numbers without a directory are those of
`src/*.rs` of the repository.

## 1. The system

### Components

| component | state | operations | modelled in |
|---|---|---|---|
| Object reference counts (`device.rs` 60-230) | `RefCounts {local, remote, pending}` behind a mutex, a `watch` channel with their total | `increase_local` ... `clear_pending_remote`, `update`, `strong_count` | `RefCounts`, `RefStateLock`, `PublishedCounts` |
| Local objects and their handles (`binder_object.rs` 280-800) | `objects`, `object_refcounts`, `retained_services`, `increased_local_ref` of each handle | register, `to_service` and its cleanup task, `from_id`, upgrade, clone, drop | `BinderObject` |
| Objects inside outgoing payloads (`device.rs` 534-700, 782-1120) | the `pending` count, the handles inside the payload | mark before the write, unmark on every error, BR_ACQUIRE, BR_RELEASE | `BinderObject` |
| References to remote objects (`binder_object.rs` 72-280) | `refs`, `weak_refs` (tables of `Weak`), `death_notifications` | lookup with deduplication, clone, upgrade, downgrade, both destructors, BR_DEAD_BINDER | `RemoteRefs`, `NodeReferences` |
| Two-way transactions (`device.rs` 338-497, 735-1120) | the Rust call stack of each thread, `write_data` | `remote_transact_blocking`, `binder_write_read`, `looper` | `Transact` |
| Payloads (`payload.rs`, handlers of `examples/bench.rs` and `examples/self_transaction.rs`) | data, offsets, two cursors | push, read, drop; echo | `Payload` |
| One-way transactions (`device.rs` 354-368, 534-600, 831-907) | the message of each send, the payload a handler owns | `remote_transact_one_way` and its retry, `handle_one_way`, the payload's drop | `OneWay`, `Mailbox`; the marks of embedded objects in `BinderObject` |
| Looper pool (`device.rs` 257-303, 735-780, 1059) | `started`, the threads, the weak reference to the device of each | start, register, BR_SPAWN_LOOPER, loop, end | `OneWay` |
| Transactions within the process (`device.rs` 411-428, 499-528) | a frame of the calling thread | `self_transact_blocking` | `Transact` |
| Context manager (`device.rs` 370-397, `binder_object.rs` 604-615) | `ctx_manager`, the driver's one manager per context | `set_context_manager`, `context_manager` | `TestPool` |
| Test pool (`test_pool.rs`, `examples/setup_test_pool.rs`, `tests/support/mod.rs`) | a lock file per device node | make the nodes, claim one, fork a service, end | `TestPool` |
| binderfs (`fs.rs`) | the mount | `mount`, `create_device` | as steps of the set-up in `TestPool` |
| Driver interface, errors | none | layouts, conversions | no |
| Examples, benchmark and tests | none | programs that use the library | how they claim, fork, call and end: `TestPool`; their handlers: `Payload`, `OneWay` |

### How they interact

* An application thread and a looper share one `Arc<BinderDevice>`; all tables
  of it are concurrent maps (`DashMap`), so an operation that touches two maps,
  or one map twice, is several steps.
* A reference count changes in three ways: handles of the process (`local`),
  messages of the driver (`remote`), and sends that have not been acquired yet
  (`pending`). The mutex orders the changes; the `watch` channel tells
  `strong_refs_hit_zero` and the cleanup task of `to_service`.
* A call blocks its thread in `binder_write_read`. While it waits, the driver may
  give the same thread a transaction of the callee, whose handler may call again:
  activations nest on the Rust stack, transactions nest on the driver's stack of
  that thread, and the two must stay aligned.
* A reader of a payload turns driver entries into objects through `from_id` (own
  objects) or `get_and_dedup_from_raw` (others' objects). Its drop must consume
  what the application left, and frees the buffer; for a one-way payload that is
  what lets the driver deliver the node's next message.
* A looper holds the device weakly and the file descriptor strongly: it outlives
  the device until it next reads something.
* Programs meet in the pool of binderfs nodes. A node has a context, a context has
  one manager, and a lock file per node keeps others from trying to become it.

### What is hard here, and what makes each part correct

* **Counts.** A count may not underflow; a published total may not be
  overtaken by an older one; *zero means genuinely no strong refs outstanding*
  (the comment on `strong_count`), although the sender's own reference is dropped
  while the driver's BR_ACQUIRE is under way; and a guard taken for a send may
  not outlive everything that could take it back, or zero never comes.
* **Handles.** The object is unlisted from two maps in two steps while `from_id`
  reads the same two maps in two steps; service mode drops the guard on the
  strength of a zero seen earlier.
* **Remote references.** Lookup and insertion are not atomic, destructors run on
  any thread, the driver reuses handle numbers, BR_DEAD_BINDER may come late.
  A reference must go on naming the node it was made for, and every reference
  taken from the driver must be given back.
* **Transactions.** A call must return, and return its own reply; a handler's
  reply must answer the transaction it was called for.
* **Payloads.** Two cursors, padding and strict comparisons: every object is
  handed out or drained once, and the drop must end.
* **One-way transactions.** Several loopers read the messages of one object;
  buffers fill up while handlers send to each other; objects and devices go while
  messages are queued. Messages must be handled once and in order, buffers must
  be freed, senders must get on.
* **Pool.** Programs are killed, children outlive parents, the driver gives the role
  of context manager back late, and the nodes may be made anew meanwhile.

## 2. Modules

### RefCounts, PublishedCounts, RefStateLock

`RefCounts` holds one operator per closure that the code passes to
`ObjectRefState::update`. The code stores `u32`; the model uses integers, so that
an underflow is a negative number that `TypeOK` rejects. `increase_remote` resets
`pending` to zero, `mark_pending_remote` does nothing when `remote` is not zero,
`clear_pending_remote` saturates: all three asymmetries are in the model.

`RefStateLock` runs `update` step by step: `Lock`, `Mutate` (with the snapshot),
`Publish`, `Unlock` per thread, and one future on the watch channel: `Subscribe`,
`Check`, `Wake`. `Close` is the removal of the entry, which the shard lock of the
map keeps away from threads that are using it. `PublishedCounts` is what `update`
promises: counts and published total change in one step. `PublishesInOrder` is
`PublishedCounts!Spec` under the mapping that shows a watcher the counts *before*
the mutation until the publish.

### BinderObject

One locally registered object. Tables are keyed by an id that
`object_id_counter` never repeats, and no operation touches two entries, so
objects do not interact. Actions and code:

| action | code |
|---|---|
| `Register`, `ToService` | `register_object`, `BinderObject::to_service` |
| `CleanupSee`, `DropGuard`, `RemoveRefcounts` | the cleanup task past `wait_for`; the two removals of `remove_binder_object` |
| `Find`, `Count` | `from_id`: `get_handler`, then the counts; also `upgrade`, a payload's BINDER entry and a conversion between handle types |
| `GuardBorrow` | `to_binder_object_or_ref` of the guard |
| `Clone`, `Drop` | `Clone` and `Drop` of `BorrowedBinderObject` and `BinderObjectRef` |
| `Mark`, `Unmark` | `mark_` and `unmark_objects_as_pending_remote` |
| `Write`, `WriteFail`, `LateFail`, `Finish` | the outcomes of a send |
| `ReadAcquire`, `ApplyAcquire`, `ReadRelease`, `ApplyRelease` | reading BR_ACQUIRE / BR_RELEASE, and the arm of `binder_write_read` |
| `RemoteDrop` | another process drops a reference (external) |

`handle` is the life of one Rust value. `live` is a value of the application;
`marked`, `sent`, `failed`, `done` are a borrowed value inside a payload, by the
progress of its send. A handle slot is reused after its drop, so the number of
sends in a behaviour is unbounded and only the number at one time is bounded.

The driver is external and modelled by what `device.rs` relies on, which the long
comment at `device.rs` 949-965 spells out. A target may drop its reference at any time,
also before the owner has read the node's work: when that was the only reference, the
driver has nothing left to report and delivers no BR_ACQUIRE (`RemoteDrop`, which notes
it in the history variable `withdrawn`). A one-way send and a reply do one read of 256
bytes (`device.rs` 788), so a send may return with its own BR_ACQUIRE still on the thread's
list (`Finish`, with `Leftover` for a thread that reads it later; the history variable
`unread` notes that this has happened). Neither is ever excluded. `ZeroMeansUnreferenced`
is about behaviours in which every send has read its own acquire, which is what the
comment claims; `NoStuckGuard` about every state but those after a withdrawal.

### RemoteRefs, NodeReferences

One handle of the driver, the values made for it, and the threads' variables that
hold them. `Receive` is a payload arriving; `FindStrong`, `FindWeak`, `IncRefs`,
`RequestDeath`, `PublishWeak`, `Acquire`, `PublishStrong` are the steps of the two
`get_and_dedup_from_raw`; `Share`, `Upgrade`, `DropStrong`, `DropWeak` are what a
program does with an Arc; `Release`, `RemoveStrong` are the drop of `BinderRef`;
`ClearDeath`, `Forget`, `DecRefs`, `RemoveWeak` that of `WeakBinderRef`.
`DeadBinder` is the arm of `binder_write_read`. The driver keeps a handle while
it has counts or a payload buffer that names it; afterwards the number may name
another node. It keeps one death notification per handle and refuses a second.
`overlapping`, chosen at the start, says whether two threads may be inside a lookup
or a destructor at once; `UpgradeFinds` and `DeathReported` are about behaviours
without.

`NodeReferences` is what the two types promise a program, without tables, values or
counts: a payload that names a node becomes a reference in one step (`Get`), which is
copied, downgraded or upgraded (`Copy`, `Upgrade`) for the same node and dropped in one
step; the handle is free for another node only when nobody has it (`FreeHandle`); and a
reference reports the death of its own node, keeps reporting it, and passes the report on
to its copies. It leaves open whether a lookup finds an old value or makes a new one,
and so whether the new reference knows of a death already. `ActsAsReferences` is
`NodeReferences!Spec` under the mapping in which a lookup takes effect at its last step
and a drop at its first (`KindOf`, `NodeOf`, `Told`), in all behaviours, with and without
`overlapping`. That a death is reported at all is not part of it (finding 2).

### Transact

Threads as stacks of frames: `call` (inside `remote_transact_blocking`), `serve`
(inside a handler), `reply` (the read that goes with BC_REPLY) and `loop`.
`StartCall`, `ReturnReply`, `ReturnError`, `RetryRead`, `ReadTransaction`,
`ReadProcTransaction`, `WriteReply`, `EndReply`, `DiscardWithReply` and
`DiscardInLoop` are the arms of `binder_write_read` and the loops around it, by
the frame that runs. `CallBack`, `Arrive`, `Answer` are peers. The driver keeps
`kstack`, its transaction stack of each thread, and refuses a call on a thread
that waits and a reply that does not answer the top. `StartLocal` and `EndLocal` are
`self_transact_blocking`, a frame that the driver does not see. (A handler that
calls anything blocking has to leave its runtime context first, with
`block_in_place`: `block_on` at `device.rs` 426, 902 or 910 panics inside another
one.) `trouble`, chosen at the start among `Troubles`, says what may go wrong:
`missing` (peers may address an object that is not registered; `Serve` then returns
`ObjectNotFound`), `full` (a call may find the target's buffer full), `ahead` (the
read of a BC_REPLY may return more than that reply's own completion).

### Payload

`PushBytes`, `PushObject`, then `Send` (`from_kernel_raw`) or `SendLocally`
(`from_builder`, which panics at a buffer), `ReadBytes`, `ReadObject`, and the drop:
`StartDrop`, `DrainObject`, `DrainUnknown`, `DrainUnsupported`, `Free`. Lengths are in
units of four bytes, which keeps the alignment to eight and the three struct sizes (24,
32, 40 bytes). `objects` is what `obj_offsets` lists, in its order; `layout` adds the
pushes of bytes, for a reader that mirrors the pushes (`followed`). The kind `gone` is a
binder object of this process that is unregistered by the time the reader comes to it.
Two handlers read in their own way and build a reply in `echo`, with its own objects and
length: `EchoBlock`, `EchoRest` are `echo_into` of the benchmark, which takes the
numbers of objects from a header; `StartWalk`, `WalkOn` are the loop of
`examples/self_transaction.rs` (and of `tests/echo_combos.rs`), which asks for bytes
before each object.

### OneWay, Mailbox

Processes with a device, one registered object and loopers each. `sent` is the
progress of every send through the loop of `remote_transact_one_way`: `Begin`,
`Write`, `Retry` (AsyncBufferFull) and `ReturnOk`. `Read` is the one-way arm of
`binder_write_read` with both its early returns (no device, no handler), `Handle`
and `ForwardOn` are a handler that uses its data and may send a message on,
`DropPayload` is the reader's drop and `Return` the way back to `looper`'s loop.
`FinishFromFd`, `SeeStarted` and `EnterLoop` are the start of the pool. `ReadWith` is
the BR_SPAWN_LOOPER that a read, of a looper or of a sender, may bring along.
`DropObject`, `DropDevice` and `Unmap` take a process's object, device and mapping
away at any time. The driver is external: `held` is the room taken in a mapping,
`async_todo` what waits for the node's current message to be freed, `proc_todo` what
a looper may read, `requested` and `registered` its two thread counters.

`early`, chosen at the start, is whether handlers heed the doc of `handle_one_way`
(`device.rs` 1157: "copy the data out as soon as absolutly possible and drop the
payload, else this will cause deadlocks and freeze"). The two liveness properties
are about handlers that do. That is not quite enough: where all loopers of both
processes are in sends to each other, nobody is left to read (`AllSending`), which both
properties name as the one exception. The exception is needed, and so is `early`: without
either of them both properties fail in the instance of the run. A requested looper may
fail to be spawned (`failed`, a choice of `ReadWith`), and the driver then waits for it.

`Mailbox` is what a send and a handler promise together: each object has a mailbox of
limited room. A call waits until its message is taken, once, or until the process is
gone; a message taken is used in its turn, while the process is there, and its room is
nobody else's before. `ActsAsMailbox` is `Mailbox!Spec` under the mapping that shows a
message as taken when the driver accepts it, as used when its payload is dropped or
discarded, and a call as waiting while the retry loop runs (`CallOf`, `Gone`). Queues,
loopers, the pool and the refusals of a full buffer are steps that the mailbox does not
see.

### TestPool

This module composes the pool's lock, binderfs, `set_context_manager` and
`context_manager()` with the programs that use them. A program is a process, and
the kinds are: `combo` (`fork_combo`), `parked` (`fork_service`), `bench`
(`examples/bench.rs`) and `solo` (one process that is service and client, as
`local_self_transact_echo`). `Start`, `TryClaim`, `EndScan` and `BlockClaim` are
`PoolNode::acquire`; `Fork`, `OpenService`, `Serve` and `LeaveService` are the child, which in `parked` does
not notice the end of its parent;
`OpenClient`, `KillChild`, `EndCalls` and `Reap` the parent; `OpenSolo` to `ExitSolo`
a solo program; `TakeRaw` the benchmark's thread that makes itself the manager of a
second node, for which it holds no lock. `Panic` is every `expect` and `assert` on
the way, `Die` a SIGKILL. `Mount`, `RemoveStale`, `CreateDevice` and
`SetPermissions` are `setup_test_pool`, which may run while programs do. The system
is external: `CloseLock` frees a lock when parent and child have closed it,
`ReleaseRole` is the driver's deferred release of a process that has gone.

## 3. Runs

| run | question and answer |
|---|---|
| `BinderObject_counts` | The counts are exact under every interleaving of three handles and three concurrent sends, also when a read ends early, and a published zero is genuine when none does. A guard that nothing takes back is left in one case only: the acquire that was due has been withdrawn. But for that, a service nobody refers to is reclaimed. |
| `BinderObject_withdrawn` | *Violation*: finding 5, that one case. |
| `BinderObject_as_erased` | *Violation*: see finding 1. |
| `RefStateLock_update` | `update` by three threads refines the atomic update; a waiter is never left hanging at zero. |
| `RemoteRefs_lookup` | Every interleaving of lookups, copies and destructors: a reference names its node, everything is given back, no false death. Without overlap also: `upgrade` finds a living strong reference, and a death that the driver's queue no longer holds has reached every reference. The whole implements `NodeReferences`. |
| `RemoteRefs_lost_death` | *Violation*: finding 2. |
| `Payload_walk` | Every payload of up to four pushes, read and dropped in every way, and echoed by two handlers: that of the benchmark returns what it got. |
| `Transact_nest` | Calls, local calls and transactions nested on a thread, in quiet and in trouble. A call returns its own reply, and the driver never refuses a reply of a handler, unless peers address missing objects; every call returns, unless buffers are full or reads run ahead; every transaction is answered if there is no trouble at all. |
| `Transact_stale_reply` | *Violation*: finding 3. |
| `Transact_full` | *Violation*: finding 4. |
| `OneWay_delivery` | Objects are mailboxes: messages are used once and in the driver's order, and a retry neither repeats nor gives up a message, although full buffers face each other, handlers of both sides send into them and one process goes away. No buffer leaks, a looper stays while its device lives, the driver's counters match the threads, also when one could not be spawned. With handlers that drop their payload early every send returns and what was sent is handled, unless all loopers of the target are in sends themselves. |
| `TestPool_share` | Programs of all four kinds, two of which may be killed. Who is about to become manager finds the role free, but for three named holders; no two programs work on one node, nor one on the node of a service that was left behind; a call reaches the program's own service; the nodes are usable after a set-up. `acquire` returns a node, with three exceptions: the program itself is killed, the nodes are missing or made anew under it, or the one node it blocks on belongs to a parked service whose parent is dead. |

### Findings

1. **`as_erased` can panic in service mode.** The cleanup task's `wait_for` returns
   on a zero; before it removes the guard, a weak object is upgraded or a payload
   is read, which hands out a live ref. The guard goes nevertheless, and
   `as_erased` finds no handler, although its message says "should be
   unreachable" (`binder_object.rs` 744).
2. **A death notification can be lost.** Two threads look up the same handle, both
   miss and both make a `WeakBinderRef`; the driver has room for one
   notification, the second request is refused without an error, and the future
   of the second value never returns. Overlap of a lookup with the last
   destructor does the same.
3. **A stale reply.** A transaction for an unregistered object, nested in a call,
   ends that call with `ObjectNotFound`; its reply comes later and is taken for
   the reply to the next call of the thread.
4. **A call that never returns.** After `AsyncBufferFull` the loop of the blocking
   call reads again, but `write_data` was taken by the first ioctl.
5. **A count that never reaches zero.** The target of a send drops what it got before
   the sender's ioctl has read the node's work. The driver has no reference to report
   any more and delivers no BR_ACQUIRE; the send has succeeded, so that nothing is rolled
   back either. The guard stays in `pending`, `strong_refs_hit_zero` does not return and
   a service is not reclaimed, until a later send of the object is acquired. The
   tests `dropped_ref_releases_promptly` (`tests/refcount_combos.rs` 170-191) and
   `oneway_dropped_ref_releases_promptly` (`tests/oneway_refcount_combos.rs` 113-131) aim
   at this race and wait two seconds for the zero; the window is one ioctl wide.
   `NoStuckGuard` and `ServiceReclaimed` show that there is no other way to lose a guard.
### Observations without a run of their own

* Once a send has returned with its acquire unread, a zero need not be genuine: without
  `~unread`, `ZeroMeansUnreferenced` fails. The shortest way: the
  acquire that a first send left behind is applied while a second send is marked
  and not written, and voids its guard; the target lets go, BR_RELEASE is read;
  the second send is written, returns before its own acquire is read, and drops
  the sender's reference; then the release is applied, and the total is zero
  while the target of the second send has the object. The comment at `device.rs`
  949-965 says that the read picks the acquire up; whether 256 bytes are enough
  for it depends on what else is queued.
* `clear_pending_remote` can take back the unit of another send after an acquire
  voided its own; `BinderObject_counts` shows that no false zero comes of it
  while every send has read its own acquire.
* `strong_refs_hit_zero` returns when the channel closes too
  (`binder_object.rs` 482), whatever the last count.
* `UpgradeFinds` fails in behaviours with `overlapping`: the entry of a dying duplicate
  hides a living reference (`binder_object.rs` 202).
* The reader hands out the bytes of an object when the object starts at the byte
  cursor (`payload.rs` 239 and 355: the next offset is looked for strictly past it).
  `examples/bench.rs` 261-265 describes it for two adjacent objects; one object
  behind bytes is enough, as the read of the bytes leaves the cursor on it. The walk
  of `examples/self_transaction.rs` therefore echoes every object as bytes first and
  as an object again later; its caller, like that of `tests/echo_combos.rs`, sends
  bytes only.
* The drop of a reader never leaves a buffer or an fd array (`payload.rs` 481).
  `DropEnds` is stated for payloads without them.
* Handlers that keep their payload while they send into full buffers yield forever
  (`device.rs` 568), as the doc of `handle_one_way` warns. Early drops do not
  exclude it: when the pools of both processes are at their limit and every looper is
  in such a send, nobody is left to read what fills the buffers. `SendReturns` and
  `Delivered` name just this case (`AllSending`).
* The read that goes with a nested BC_REPLY may return more than that reply's own
  completion: the reply to the call below it. The looper logs it as unexpected and drops
  it (`device.rs` 969), and the call waits for ever. `CallReturnsGivenRoom` is therefore
  about behaviours without `ahead`.
* A one-way payload larger than half the mapping is refused like one that meets a
  full buffer, and is retried forever.
* The benchmark's count of rejected one-way sends can only be zero, since
  `transact_one_way` retries a full buffer itself (`examples/bench.rs` 855-862), and
  its drain ends when the count stands still for one poll, which a busy service
  may do (881).
* After the device is gone a looper stays in its ioctl, with the file descriptor and
  so with the role of context manager, until the process exits; a message that
  wakes it is read and dropped without a reply (`device.rs` 813).
* The result of spawning a requested looper is ignored (`device.rs` 1063). When it
  fails, the driver waits for that thread and never asks again: this is how a pool below
  its limit gets into `AllSending`.
* What a handler does after it has dropped its payload overlaps with the handler of
  the next message; `ActsAsMailbox` is about the use of the data.
  `self_transact_one_way` spawns a task per message and promises no order.
* The holder of a node may find the role taken: a test without a fork drops its
  `PoolNode` while its loopers still have the device open, the driver releases a process
  some time after it has gone, and the benchmark takes the role of a second node without
  its lock (`examples/bench.rs` 987-991). `set_context_manager` then gets EBUSY, and the
  `expect` of the caller panics (`tests/echo_combos.rs` 66). These are the three exceptions
  of `RoleIsFree`, which shows that nobody else can be in the way.
* `test_pool.rs` 51-52 says that the kernel releases the lock if the holding process dies.
  The child of `fork_service` shares the open file and parks for ever
  (`tests/support/mod.rs` 189-194): when its parent dies before `kill_child`, lock and role
  stay taken until somebody kills the child. This is the last exception of
  `AcquireReturns`, which fails without it.
* `block_claim` waits for one node while others become free, and panics if that node
  is missing, which needs a set-up meanwhile.

### Bounds

* Handles, `MaxPending` = 3: three sends are enough for one to be acquired, one to
  fail and one to be in between, and for the rollback of one to take the guard of
  another; the accounting lemmas add and remove one handle at a time.
  `MaxPending` leaves room for a guard of every handle at once; what it cuts off
  is a fourth guard on top of those left behind by sends that returned. The
  proofs hold for every bound.
* `MaxRemote` = 2 tells "the last reference goes" from "one goes and another
  stays". `MaxReleasing` = 2: one looper still to apply a release while a second
  one has been read.
* `RefStateLock`: three threads, one mutating, one waiting and one publishing;
  `MaxTotal` = 2 has every closure enabled at a zero and at a non-zero count.
* `RemoteRefs`: three holders (one to keep, one to drop, one to look up), as many
  values of each kind so that none is ever wanting, and two nodes for a reuse
  of the handle. `RemoteRefs_lost_death`, which checks liveness, has two.
* `Transact`: a caller, a looper, two calls and two transactions: a call, a
  transaction nested in it, a call by its handler, a transaction nested in that.
  `MaxLocal` = 1: a call to an own object anywhere between those. `Troubles`: none,
  missing objects, and full buffers together with reads ahead.
* `Payload`: four pushes, bytes of one or two units (aligned and not), three
  sizes of objects (two of them in the run: `fd_array` behaves like `buffer`). A
  message of the benchmark has a header of two pushes, which leaves two objects or
  data and one object.
* `OneWay`: two processes, `Space` = 2 and messages of one and two units, so that a
  message meets a buffer with too little room as well as an empty one. The
  application of each process sends two messages, the first is answered by its handler,
  and each answer fills the mapping it goes to: both mappings are full at once while
  handlers of both sides send. There is one looper of `from_fd` (`Initial`) for each, and
  one on request for `p2` (`MaxThreads`), which may fail to be spawned; `p1` is at its
  limit from the start. So the loopers of one side, of both, or of neither can all be in
  sends. The same `p2` (`Closing`) drops its object and its device at any time.
* `TestPool`: two nodes (`Size`) and a program of each kind, so that a program
  finds none free and blocks on the node that its `Pid` picks; each runs once; the two
  kinds of tests with a forked service may be killed (`Mortal`), the one whose child
  notices and the one whose child does not. `MaxMeanwhile` = 1 program runs while the
  pool is set up, any number before and after.
* The runs of violations are small: two handles and one reference are enough for
  `BinderObject_withdrawn`.

`SYMMETRY` is used in safety runs only (`ActsAsReferences` is about initial states and
single steps); the runs with liveness properties have none. `CHECK_DEADLOCK FALSE` is
set where a behaviour may end: an unregistered object with no handle left, an entry that
is closed, a payload that is freed, threads with nothing to read, and programs that have
ended. The `RemoteRefs` runs do check for deadlock.

### Fairness

* `BinderObject`: threads that read from the driver go on reading and applying,
  and the cleanup task is polled. Loopers are endless loops and a sending thread
  blocks in its own read, so both hold while the process lives. No handle has
  to be dropped and no peer has to let go.
* `RefStateLock`: a thread inside `update` runs on (there is no blocking call
  inside), and the runtime polls a woken future. The mutex needs no fairness, as
  only threads already inside are obliged to move.
* `RemoteRefs` (`RemoteRefs_lost_death` only): started lookups and destructors run on,
  and loopers read.
* `Transact`: threads run, handlers return, and peers answer calls they serve.
* `Payload`: a drop that has begun runs.
* `OneWay`: threads that exist run: a looper waits for `started`, enters, reads what
  there is, handles it and returns; a send that was begun writes again after each
  refusal (`yield_now` gives the others a turn). Loopers and destructors share one
  condition, as they take finitely many steps and so cannot pass one of them over for
  ever; each send has its own, as it may retry without end. Nobody has to send, to
  register or to drop an object or a device.
* `TestPool`: processes run to their end, the driver releases those that have gone,
  a set-up that was begun goes on, and a program that blocks on a free lock gets it. This
  is one condition on all such steps (`GoOn`): each program runs once, so that there are
  finitely many and nobody is passed over for ever. Nobody has to start or to be killed.

## 4. Proofs

`BinderObjectProofs` proves, for every finite set of handles and every bound:

* `TypeCorrect`: `Spec => []TypeOK`, in particular no count underflows.
* `LocalIsAccounted`, `RemoteIsAccounted`: the counts are exact while the entry
  exists.
* `ZeroIsGenuine`: `Spec => []ZeroMeansUnreferenced`.
* `GuardsAreConsumed`: `Spec => []NoStuckGuard`, also after reads that ended early and
  although targets let go at any time.

They rest on one inductive invariant, `IInv`. None of the properties is inductive
by itself: that `remote` does not underflow needs `RemoteAccounting`; that needs
to know when an acquire can be read (`KernelInv`); a genuine zero needs to know
that the thread an acquire is queued on still owns the payload (`SenderInv`), so
that `local` is not zero in between; and a handle that is found before it is
counted is never found before registration (`FreshInv`). `GuardInv` says that a
guard is never outstanding next to a confirmed remote unit. There is a lemma per
action, `NextIInv` puts them together, and the theorems follow. Sets of handles
are counted with `AddHandle` and `RemoveHandle`, from `FiniteSetTheorems`.

`RefStateLockProofs` proves `LockTypeCorrect` and `UpdateIsAtomic`, the refinement
`Spec => PublishesInOrder`, for every set of threads: `MutexInv` (a thread is inside
`update` exactly when it holds the mutex) and `PublishInv` (the published total is
that of the view) give a simulation in which `Publish` is the atomic update and
every other step stutters.

`TestPoolProofs` proves `PoolExclusive`, `LockCoversUse` and `PoolTypeCorrect`, for
every set of programs, every pool size and every choice of who is killed. That a
node is exclusive is not inductive: it needs to know that the node's lock lies with the
program that uses it, and that the lock of a service whose parent has died is the one
that the parent had. `Covered` says both: whoever has a `PoolNode`, or a
service that lives, has the lock of its node. `LockIInv` shows that a claim takes the
lock from nobody, `CloseLockKeeps` that an end frees only what the program itself had
and nothing while its service lives; the type of the benchmark's second node needs
`MinType`, that a set of numbers has a minimum.

On top of that, `ServiceInv` gives `PoolStaysReady`, `RoleFree` and `CallsOwnService`:
`FileInv` (how far a set-up is, and which nodes are there by then), `StageInv` (how far a
service may be at each stage of its parent), `DeviceInv` (a service has a device of the
program's node, in the context the node has now if no set-up came in between) and the
two halves of who is the manager of a context. Who serves is its manager (`RoleInv`);
and a manager serves on its own node, or is a benchmark on its second one, or is gone
(`ManagerInv`). `RoleIsFree` with its three exceptions is what that and exclusive nodes
leave.

`RemoteRefsProofs` proves all six safety properties of `RemoteRefs`, for every finite
set of holders and of values and every set of nodes. `HandleNamesNode` asks why a handle
cannot go to another node while a `WeakBinderRef` exists: because the driver's counts
are exactly the values that have an ACQUIRE or INCREFS to their name, plus the holders
that are between the ACQUIRE and its value (`CountInv`), and the handle goes when both
counts and all buffers are gone (`NodeInv`). `PlaceInv`, `StrongInv` and `WeakInv` say
who has what at which step, in particular that a destructor has its value alone;
`TableInv` and `DeathInv` say which entries, tokens and queued deaths may be about a
value that is being destroyed. `NothingLeaked` is then counting to zero. The two
properties about behaviours without `overlapping` rest on `SoloInv`: one holder is busy,
everybody else has the values in the tables, and the driver has the notification of the
`WeakBinderRef` there is. `ReferencesImplemented` is the refinement `Spec =>
ActsAsReferences`: there is a lemma per action, which names the step of `NodeReferences`
that it is or shows that it is none. What these need of the invariant is `View`:
whatever the holders have is for the one node that the handle names, and what they report
is its death. So the handle goes (`FreeHandle`) in a step that leaves nobody anything, and
all the other steps within a lookup or a destructor cannot be seen.

`OneWayProofs` proves, for every set of processes, threads and messages, that no buffer
is lost (`BuffersAccounted`), that loopers stay (`LoopersGoOn`), that the driver's counters
are those of the threads (`PoolCounted`), `DeliveryTypeCorrect`, and the refinement `Spec
=> ActsAsMailbox` (`ObjectsAreMailboxes`). Two consequences of the same invariant are
theorems about states: payloads are used in order (`PayloadsInOrder`), and a retry sends
once (`TakenOnce`). The order is not inductive: it comes from the fact that a node has at
most one message that is delivered and not freed.
`QueueOf` says where that one is, for a device that lives or is yet to come: it waits
for a looper (`Waiting`), one looper has its payload (`Owned`), or there is none
(`Drained`); all before it are settled, all behind it are in `async_todo`, and the
mapping holds just these. `SentInv` says that what was accepted is what was sent, each
once; `PoolInv` counts loopers by how they were started. `BoxInv` is about room, and it
is inductive only on top of that: what a mapping holds fits into it (`RoomInv`),
everything that was accepted and not used is held (`UnusedInv`), so that the mailbox has
room whenever the driver finds some, and nothing of a device is used after it is gone
(`GoneInv`). The room in use is the cardinality of a set of pairs, a message and a unit
of it, rather than a sum: the facts about finite sets then give what one more message
or one less does to it.

`TransactProofs` proves, for every set of threads, calls and transactions and every
depth of nesting, `TransactTypeCorrect`, `RepliesMatch` and `RepliesAccepted`. The
invariant is the agreement of two stacks that nobody compares in the code: the frames
of a thread and the driver's transaction stack (`Agrees`: the driver has just the
frames that serve a transaction or wait for an answer, in their order). That an answer
finds the innermost call needs `NestOK`: above a call that waits there are only replies
already written, or the one transaction that its own peer has sent and not been
answered. `TodoOK` says that a thread is left at most one message, for its innermost
call; `OneServer` and `ProcInv` that a transaction is with one thread. `trouble` does not
change in a behaviour, and where peers address missing objects nothing but the shape is
claimed: finding 3 is what happens there.

`PayloadProofs` proves all five safety properties of `Payload`, for any number and length
of pushes and every mix of objects. `LayoutInv` places each push right behind the one
before it, `ObjectsInv` says that the offsets list the objects of the layout in order.
A reader that mirrors the pushes is where the last of them ends and past just the
objects before that (`MirrorInv`); `TakenInv` counts what was handed out and drained. That
bench's echo is faithful comes from `MessageObjects`, that the objects of a message
leave no gap, and `DueNext`, that the header's counts name the object that comes next.

Each of these invariants was checked by TLC on the instance of the module's run before
it was proved.

Assumptions: the named `ASSUME`s of the modules, which say that sets are finite, names
are distinct (the two kinds of reference in `RemoteRefs` too),
bounds are numbers, and, in `OneWay`, that a message is sent by one thread.

Model-checked only: every liveness property (`ServiceReclaimed`, `ZeroIsNoticed`,
`CallReturnsGivenRoom`, `IncomingAnswered`, `DropEnds`, `SendReturns`, `Delivered`,
`AcquireReturns`), which are out of the prover's reach, and the violations. Every invariant
of the passing runs and each of the three refinements is a theorem.

## 5. Not modelled

* The contents of payloads, ownership of descriptors, parents of buffers.
* A payload that embeds one object twice. Its two marks behave like two sends, but
  fail together.
* Ioctl failures other than a refused send, and frozen replies (they take the
  path of dead ones).
* The read buffer: an early return of `binder_write_read` drops the messages
  behind the one that ended it (`device.rs` 896). The models read message by
  message.
* The reference counts of the context manager's node, which the driver references
  from the start, so that a guard for it is never consumed (`device.rs` 176).
* `self_transact_one_way`: a task on the runtime, without order or answer. Errors of a
  one-way send other than a full buffer and a gone target.
* Two-way transactions during shutdown.
* Measuring and reporting of the benchmark, `sys.rs`, `error.rs`, `new_device.rs`: no
  behaviour to check.

## 6. Plan

1. *Done*: `RefCounts`, `RefStateLock`, `BinderObject`, `RemoteRefs`, `Transact`, `Payload`,
   `OneWay` and `TestPool` with their runs, and proofs of every safety property of them;
   abstract specifications of an update of the counts (`PublishedCounts`), of references
   (`NodeReferences`) and of one-way transactions (`Mailbox`), with proofs that they are
   implemented.
2. Extending the model. A read buffer with several messages per read, and what an
   early return of `binder_write_read` loses with it. A context manager's node in
   `BinderObject`, as a node with `has_strong_ref` and no BR_ACQUIRE.
3. Proving more. `Transact` as procedure calls: of every thread a stack of calls, of which
   the innermost returns what it was given, where no peer addresses a missing object.
