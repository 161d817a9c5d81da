------------------------------ MODULE TestPool ------------------------------
(***************************************************************************)
(* Programs that share the pool of binderfs nodes: how each claims a node  *)
(* (PoolNode), forks a service that becomes the node's context manager     *)
(* (fork_combo, fork_service, bench's main), calls it through              *)
(* context_manager(), and ends; and setup_test_pool, which makes the nodes.*)
(*                                                                         *)
(* The system is external.  A lock belongs to an open file, which a forked *)
(* child shares: it is free when both have closed it.  A node has a context*)
(* with at most one manager, and a node made anew has another context.  The*)
(* role ends some time after the manager's process has: the driver releases*)
(* a process in the background.                                            *)
(***************************************************************************)
EXTENDS Integers, FiniteSets, FiniteSetsExt

CONSTANTS
  Programs,  \* test and benchmark processes
  Kind,      \* of each: combo (fork_combo), parked (fork_service), solo (one
             \* process), bench (examples/bench.rs)
  Pid,       \* the process ids of the programs
  Size,      \* pool_size
  Mortal,    \* the programs that may be killed
  MaxMeanwhile, \* bound on the programs that run while the pool is set up
  None

Nodes == 0..(Size - 1)
Contexts == Nodes \X {"old", "new"}

ASSUME ProgramsAssumption ==
  /\ None \notin Programs \cup Nodes
  /\ Kind \in [Programs -> {"combo", "parked", "solo", "bench"}]
  /\ Pid \in [Programs -> Nat] /\ Mortal \subseteq Programs
  /\ Size \in Nat \ {0} /\ MaxMeanwhile \in Nat

VARIABLES
  setup,    \* setup_test_pool: off, on, done
  turn,     \* the node it is at
  file,     \* each node's path: missing, old, private (made anew), new
  stage,    \* each program: idle, probe, block, claimed, set, await, client,
            \* killed, reap, closing, ended
  at,       \* the offset of its scan
  node,     \* the node it claimed
  child,    \* its forked service: none, new, opened, serving, failing,
            \* exiting, gone
  dev,      \* the context that the service opened
  stored,   \* ctx_manager is not 0 in the device of the service
  raw,      \* bench: the second node it uses
  calm,     \* history: the pool is ready since the program started
  lock,     \* the program that has a node's lock file locked
  manager   \* driver: the program whose process is a context's manager

setup_vars == <<setup, turn, file>>
program_vars == <<stage, at, node, child, dev, stored, raw>>
vars == <<setup_vars, program_vars, calm, lock, manager>>

Context(n) == <<n, IF file[n] = "old" THEN "old" ELSE "new">>
CanOpen(n) == file[n] \in {"old", "new"}
ChildLives(t) == child[t] \in {"new", "opened", "serving", "failing", "exiting"}

\* The process that has the device of t's service, and its loopers.
ServiceLives(t) ==
  ChildLives(t) \/ (Kind[t] = "solo" /\ stage[t] \in {"set", "client", "closing"})

\* The programs that run, with their services.
Active == {t \in Programs : stage[t] \notin {"idle", "ended"} \/ ChildLives(t)}

\* Without this run of setup, the nodes are there or the directory is not.
Init ==
  /\ setup = "off" /\ turn = 0
  /\ file \in {[n \in Nodes |-> "missing"], [n \in Nodes |-> "old"]}
  /\ stage = [t \in Programs |-> "idle"]
  /\ at = [t \in Programs |-> 0]
  /\ node = [t \in Programs |-> None]
  /\ child = [t \in Programs |-> "none"]
  /\ dev = [t \in Programs |-> None]
  /\ stored = [t \in Programs |-> FALSE]
  /\ raw = [t \in Programs |-> None]
  /\ calm = [t \in Programs |-> FALSE]
  /\ lock = [n \in Nodes |-> None]
  /\ manager = [c \in Contexts |-> None]
-----------------------------------------------------------------------------
(* setup_test_pool.                                                        *)

\* Binderfs::mount_default.
Mount ==
  /\ setup = "off" /\ Cardinality(Active) <= MaxMeanwhile
  /\ setup' = "on"
  /\ calm' = [t \in Programs |-> FALSE]
  /\ UNCHANGED <<turn, file, program_vars, lock, manager>>

RemoveStale ==
  /\ setup = "on" /\ file[turn] = "old"
  /\ file' = [file EXCEPT ![turn] = "missing"]
  /\ UNCHANGED <<setup, turn, program_vars, calm, lock, manager>>

\* Binderfs::create_device.
CreateDevice ==
  /\ setup = "on" /\ file[turn] = "missing"
  /\ file' = [file EXCEPT ![turn] = "private"]
  /\ UNCHANGED <<setup, turn, program_vars, calm, lock, manager>>

\* Faulty: one node too many.
SetPermissionsBeyond ==
  /\ setup = "on" /\ file[turn] = "private"
  /\ file' = [file EXCEPT ![turn] = "new"]
  /\ IF turn = Size THEN setup' = "done" /\ UNCHANGED turn
     ELSE turn' = turn + 1 /\ UNCHANGED setup
  /\ UNCHANGED <<program_vars, calm, lock, manager>>

\* Faulty: the last node keeps the mode it was made with.
SetPermissionsButLast ==
  /\ setup = "on" /\ file[turn] = "private"
  /\ IF turn = Size - 1 THEN setup' = "done" /\ UNCHANGED <<turn, file>>
     ELSE /\ turn' = turn + 1
          /\ file' = [file EXCEPT ![turn] = "new"]
          /\ UNCHANGED setup
  /\ UNCHANGED <<program_vars, calm, lock, manager>>

\* set_permissions, and on to the next node.
SetPermissions ==
  /\ setup = "on" /\ file[turn] = "private"
  /\ file' = [file EXCEPT ![turn] = "new"]
  /\ IF turn = Size - 1 THEN setup' = "done" /\ UNCHANGED turn
     ELSE turn' = turn + 1 /\ UNCHANGED setup
  /\ UNCHANGED <<program_vars, calm, lock, manager>>
-----------------------------------------------------------------------------
(* PoolNode.                                                               *)

\* acquire; without the directory it panics.
Start(t) ==
  /\ stage[t] = "idle"
  /\ setup = "on" => Cardinality(Active) < MaxMeanwhile
  /\ IF setup = "off" /\ \A n \in Nodes : file[n] = "missing"
     THEN stage' = [stage EXCEPT ![t] = "ended"] /\ UNCHANGED calm
     ELSE stage' = [stage EXCEPT ![t] = "probe"] /\ calm' = [calm EXCEPT ![t] = setup # "on"]
  /\ UNCHANGED <<setup_vars, at, node, child, dev, stored, raw, lock, manager>>

Lock(t, n) ==
  /\ lock' = [lock EXCEPT ![n] = t]
  /\ node' = [node EXCEPT ![t] = n]
  /\ stage' = [stage EXCEPT ![t] = "claimed"]
  /\ at' = [at EXCEPT ![t] = 0]

First(t) == Pid[t] % Size

\* Faulty: WouldBlock is taken for success.
TryClaimLocked(t) ==
  LET n == (Pid[t] + at[t]) % Size IN
  /\ stage[t] = "probe" /\ at[t] < Size
  /\ IF file[n] # "missing"
     THEN Lock(t, n)
     ELSE at' = [at EXCEPT ![t] = @ + 1] /\ UNCHANGED <<lock, node, stage>>
  /\ UNCHANGED <<setup_vars, child, dev, stored, raw, calm, manager>>

\* try_claim of the next node of the scan.
TryClaim(t) ==
  LET n == (Pid[t] + at[t]) % Size IN
  /\ stage[t] = "probe" /\ at[t] < Size
  /\ IF file[n] # "missing" /\ lock[n] = None
     THEN Lock(t, n)
     ELSE at' = [at EXCEPT ![t] = @ + 1] /\ UNCHANGED <<lock, node, stage>>
  /\ UNCHANGED <<setup_vars, child, dev, stored, raw, calm, manager>>

\* The scan found none: block_claim, which panics if its one node is missing.
EndScan(t) ==
  /\ stage[t] = "probe" /\ at[t] = Size
  /\ stage' = [stage EXCEPT ![t] = IF file[First(t)] = "missing" THEN "ended" ELSE "block"]
  /\ at' = [at EXCEPT ![t] = 0]
  /\ UNCHANGED <<setup_vars, node, child, dev, stored, raw, calm, lock, manager>>

BlockClaim(t) ==
  /\ stage[t] = "block" /\ lock[First(t)] = None
  /\ Lock(t, First(t))
  /\ UNCHANGED <<setup_vars, child, dev, stored, raw, calm, manager>>

Unlock(t) == lock' = [n \in Nodes |-> IF n = node[t] /\ lock[n] = t THEN None ELSE lock[n]]

\* Faulty: the child does not inherit the lock.
CloseLockAlone(t) == Unlock(t)

\* The program's process closes the lock file, which its child may have open still.
CloseLock(t) == IF ChildLives(t) THEN UNCHANGED lock ELSE Unlock(t)

\* What a process holds is gone with it.
ServiceGone(t) ==
  /\ dev' = [dev EXCEPT ![t] = None]
  /\ stored' = [stored EXCEPT ![t] = FALSE]
  /\ raw' = [raw EXCEPT ![t] = None]
ProgramGone(t) ==
  /\ node' = IF ChildLives(t) THEN node ELSE [node EXCEPT ![t] = None]
  /\ calm' = [calm EXCEPT ![t] = FALSE]
-----------------------------------------------------------------------------
(* The service: a forked child, or a solo program's own process.           *)

\* fork; bench has looked for a second node before.
Fork(t) ==
  /\ stage[t] = "claimed" /\ Kind[t] # "solo"
  /\ stage' = [stage EXCEPT ![t] = "await"]
  /\ child' = [child EXCEPT ![t] = "new"]
  /\ LET others == {n \in Nodes \ {node[t]} : file[n] # "missing"} IN
     raw' = IF Kind[t] = "bench" /\ others # {} THEN [raw EXCEPT ![t] = Min(others)] ELSE raw
  /\ UNCHANGED <<setup_vars, at, node, dev, stored, calm, lock, manager>>

\* BinderDevice::new.
OpenService(t) ==
  /\ child[t] = "new"
  /\ IF CanOpen(node[t])
     THEN /\ child' = [child EXCEPT ![t] = "opened"]
          /\ dev' = [dev EXCEPT ![t] = Context(node[t])]
     ELSE child' = [child EXCEPT ![t] = "failing"] /\ UNCHANGED dev
  /\ UNCHANGED <<setup_vars, stage, at, node, stored, raw, calm, lock, manager>>

\* set_context_manager: the id is stored, whatever the driver says then.
SetContextManager(t) ==
  /\ stored' = [stored EXCEPT ![t] = TRUE]
  /\ manager' = IF manager[dev[t]] = None THEN [manager EXCEPT ![dev[t]] = t] ELSE manager

\* Faulty: the result of set_context_manager is ignored.
ServeAnyway(t) ==
  /\ child[t] = "opened"
  /\ SetContextManager(t)
  /\ child' = [child EXCEPT ![t] = "serving"]
  /\ UNCHANGED <<setup_vars, stage, at, node, dev, raw, calm, lock>>

\* service_role, and the signal that it is ready; its expect panics.
Serve(t) ==
  /\ child[t] = "opened"
  /\ SetContextManager(t)
  /\ child' = [child EXCEPT ![t] = IF manager[dev[t]] = None THEN "serving" ELSE "failing"]
  /\ UNCHANGED <<setup_vars, stage, at, node, dev, raw, calm, lock>>

\* raw_binder_service, on a thread of bench's service: no lock, and no harm done
\* if the driver refuses.
TakeRaw(t) ==
  /\ child[t] = "serving" /\ raw[t] # None
  /\ raw' = [raw EXCEPT ![t] = None]
  /\ manager' = IF CanOpen(raw[t]) /\ manager[Context(raw[t])] = None
                THEN [manager EXCEPT ![Context(raw[t])] = t] ELSE manager
  /\ UNCHANGED <<setup_vars, stage, at, node, child, dev, stored, calm, lock>>

\* Faulty: the child keeps its copy of the pipe's writing end, so that the end of
\* its client goes unnoticed.
LeaveServiceDeaf(t) ==
  /\ \/ child[t] = "failing"
     \/ child[t] = "serving" /\ Kind[t] = "combo" /\ stage[t] = "reap"
     \/ ChildLives(t) /\ Kind[t] = "bench" /\ stage[t] = "ended"
     \/ child[t] = "exiting"
  /\ child' = [child EXCEPT ![t] = "gone"]
  /\ ServiceGone(t)
  /\ IF stage[t] = "ended"
     THEN Unlock(t) /\ node' = [node EXCEPT ![t] = None]
     ELSE UNCHANGED <<lock, node>>
  /\ UNCHANGED <<setup_vars, stage, at, calm, manager>>

\* The service leaves: it failed, its client is done or gone (which a parked one
\* does not notice), or it was killed.
LeaveService(t) ==
  /\ \/ child[t] = "failing"
     \/ child[t] = "serving" /\ Kind[t] = "combo" /\ stage[t] \in {"reap", "ended"}
     \/ ChildLives(t) /\ Kind[t] = "bench" /\ stage[t] = "ended"
     \/ child[t] = "exiting"
  /\ child' = [child EXCEPT ![t] = "gone"]
  /\ ServiceGone(t)
  /\ IF stage[t] = "ended"
     THEN Unlock(t) /\ node' = [node EXCEPT ![t] = None]
     ELSE UNCHANGED <<lock, node>>
  /\ UNCHANGED <<setup_vars, stage, at, calm, manager>>

\* A solo program opens the device and makes itself the manager.
OpenSolo(t) ==
  /\ stage[t] = "claimed" /\ Kind[t] = "solo" /\ CanOpen(node[t])
  /\ stage' = [stage EXCEPT ![t] = "set"]
  /\ dev' = [dev EXCEPT ![t] = Context(node[t])]
  /\ UNCHANGED <<setup_vars, at, node, child, stored, raw, calm, lock, manager>>

ServeSolo(t) ==
  /\ stage[t] = "set" /\ manager[dev[t]] = None
  /\ SetContextManager(t)
  /\ stage' = [stage EXCEPT ![t] = "client"]
  /\ UNCHANGED <<setup_vars, at, node, child, dev, raw, calm, lock>>

\* The driver is done with a process that is gone.
ReleaseRole(c) ==
  /\ manager[c] # None /\ ~ServiceLives(manager[c])
  /\ manager' = [manager EXCEPT ![c] = None]
  /\ UNCHANGED <<setup_vars, program_vars, calm, lock>>
-----------------------------------------------------------------------------
(* The client.                                                             *)

\* The ready signal, and BinderDevice::new.
OpenClient(t) ==
  /\ stage[t] = "await" /\ child[t] = "serving" /\ CanOpen(node[t])
  /\ stage' = [stage EXCEPT ![t] = "client"]
  /\ UNCHANGED <<setup_vars, at, node, child, dev, stored, raw, calm, lock, manager>>

\* kill_child, after which the client calls once more; shutdown of bench.
KillChild(t) ==
  /\ stage[t] = "client" /\ Kind[t] \in {"parked", "bench"}
  /\ stage' = [stage EXCEPT ![t] = "killed"]
  /\ child' = [child EXCEPT ![t] = "exiting"]
  /\ UNCHANGED <<setup_vars, at, node, dev, stored, raw, calm, lock, manager>>

\* The calls are over: signal done, and waitpid.
EndCalls(t) ==
  /\ stage[t] = IF Kind[t] = "combo" THEN "client" ELSE "killed"
  /\ stage' = [stage EXCEPT ![t] = "reap"]
  /\ UNCHANGED <<setup_vars, at, node, child, dev, stored, raw, calm, lock, manager>>

Reap(t) ==
  /\ stage[t] = "reap" /\ child[t] = "gone"
  /\ stage' = [stage EXCEPT ![t] = "ended"]
  /\ CloseLock(t) /\ ProgramGone(t)
  /\ UNCHANGED <<setup_vars, at, child, dev, stored, raw, manager>>

\* A solo program's locals are dropped, the PoolNode last; then it exits.
CloseSolo(t) ==
  /\ stage[t] = "client" /\ Kind[t] = "solo"
  /\ stage' = [stage EXCEPT ![t] = "closing"]
  /\ CloseLock(t)
  /\ UNCHANGED <<setup_vars, at, node, child, dev, stored, raw, calm, manager>>

ExitSolo(t) ==
  /\ stage[t] = "closing"
  /\ stage' = [stage EXCEPT ![t] = "ended"]
  /\ ServiceGone(t) /\ ProgramGone(t)
  /\ UNCHANGED <<setup_vars, at, child, lock, manager>>

\* A panic: a device that does not open, a service that is not ready, a refusal.
Panics(t) ==
  \/ stage[t] = "claimed" /\ Kind[t] = "solo" /\ ~CanOpen(node[t])
  \/ stage[t] = "set" /\ manager[dev[t]] # None
  \/ stage[t] = "await" /\ child[t] \in {"failing", "gone"}
  \/ stage[t] = "await" /\ child[t] = "serving" /\ ~CanOpen(node[t])
Fail(t) ==
  /\ stage' = [stage EXCEPT ![t] = "ended"]
  /\ at' = [at EXCEPT ![t] = 0]
  /\ CloseLock(t) /\ ProgramGone(t)
  /\ IF ChildLives(t) THEN UNCHANGED <<dev, stored, raw>> ELSE ServiceGone(t)
  /\ UNCHANGED <<setup_vars, child, manager>>
Panic(t) == Panics(t) /\ Fail(t)

\* SIGKILL of the program itself.
Die(t) ==
  /\ t \in Mortal /\ stage[t] \notin {"idle", "ended"}
  /\ Fail(t)
-----------------------------------------------------------------------------
SetupNext == RemoveStale \/ CreateDevice \/ SetPermissions
ServiceNext(t) == OpenService(t) \/ Serve(t) \/ TakeRaw(t) \/ LeaveService(t)
ProgramNext(t) ==
  \/ TryClaim(t) \/ EndScan(t) \/ Fork(t) \/ OpenSolo(t) \/ ServeSolo(t)
  \/ OpenClient(t) \/ KillChild(t) \/ EndCalls(t) \/ Reap(t)
  \/ CloseSolo(t) \/ ExitSolo(t) \/ Panic(t)

Next ==
  \/ Mount \/ SetupNext
  \/ \E t \in Programs :
       Start(t) \/ BlockClaim(t) \/ Die(t) \/ ProgramNext(t) \/ ServiceNext(t)
  \/ \E c \in Contexts : ReleaseRole(c)

Spec == Init /\ [][Next]_vars

\* What was started runs to its end.  Nobody has to start, to set the pool up or to be
\* killed.  Each program runs once and each role is given back once, so that nobody
\* who can go on, or who blocks on a free lock, is passed over for ever.
GoOn ==
  \/ SetupNext
  \/ \E t \in Programs : BlockClaim(t) \/ ProgramNext(t) \/ ServiceNext(t)
  \/ \E c \in Contexts : ReleaseRole(c)

Fairness == WF_vars(GoOn)

FairSpec == Spec /\ Fairness
-----------------------------------------------------------------------------
(* Properties.                                                             *)

TypeOK ==
  /\ setup \in {"off", "on", "done"} /\ turn \in Nodes
  /\ file \in [Nodes -> {"missing", "old", "private", "new"}]
  /\ stage \in [Programs -> {"idle", "probe", "block", "claimed", "set", "await", "client",
                             "killed", "reap", "closing", "ended"}]
  /\ at \in [Programs -> 0..Size]
  /\ node \in [Programs -> Nodes \cup {None}] /\ raw \in [Programs -> Nodes \cup {None}]
  /\ child \in [Programs -> {"none", "new", "opened", "serving", "failing", "exiting", "gone"}]
  /\ dev \in [Programs -> Contexts \cup {None}]
  /\ stored \in [Programs -> BOOLEAN] /\ calm \in [Programs -> BOOLEAN]
  /\ lock \in [Nodes -> Programs \cup {None}]
  /\ manager \in [Contexts -> Programs \cup {None}]

\* PoolNode "holds an exclusive lock ... so no other test process/thread will try
\* to become context manager on the same node at the same time".  A program that
\* is about to call set_context_manager finds the role free, but for what bench
\* does without a lock, and for the role of a program that has given the lock back
\* and whose process, or the driver's record of it, is not gone yet.
AboutToSet(t) == child[t] = "opened" \/ stage[t] = "set"
RoleIsFree ==
  \A t \in Programs : AboutToSet(t) /\ manager[dev[t]] # None =>
    LET m == manager[dev[t]] IN
    \/ ~ServiceLives(m) \/ stage[m] = "closing"
    \/ Kind[m] = "bench" /\ node[m] # node[t]

\* "The lock is released automatically on drop, and also by the kernel if the holding
\* process dies", but not too early: until a program drops its PoolNode, and the
\* service that it may leave behind is gone, nobody else works on its node.
Uses(t) ==
  \/ stage[t] \in {"claimed", "set", "await", "client", "killed", "reap"}
  \/ ChildLives(t)
NodeIsExclusive ==
  \A t, u \in Programs : Uses(t) /\ Uses(u) /\ node[t] = node[u] => t = u

\* A call to context_manager() is served by the own object of the process if an
\* id is stored, and otherwise by the manager of the context that was opened.
Server(t) == IF Kind[t] = "solo" /\ stored[t] THEN t ELSE manager[Context(node[t])]

\* It reaches the service that the program started, whoever else uses the pool;
\* in particular the id that a failed set_context_manager leaves stored misleads
\* nobody, as everyone who fails there gives up.
OwnService ==
  \A t \in Programs :
    calm[t] /\ stage[t] = "client" => Server(t) = t /\ manager[Context(node[t])] = t

\* The nodes that setup_test_pool leaves are all there and can be opened by anyone.
PoolReady == \A t \in Programs : calm[t] /\ node[t] # None => CanOpen(node[t])

\* A parked service whose parent ended before kill_child serves on, with the lock of
\* its node.
Orphaned(n) ==
  \E u \in Programs :
    Kind[u] = "parked" /\ stage[u] = "ended" /\ child[u] = "serving" /\ lock[n] = u

\* PoolNode::acquire: "Claims a free node from the pool, blocking if every node is
\* currently held".  A program that has started gets one, although it blocks on a single
\* node and others are killed meanwhile, except in the three cases named here: it is
\* killed, or panics because the nodes are missing or made anew under it (otherwise it is
\* calm until it ends with a node); or that single node belongs to an orphaned service, even
\* if another node is free.
AcquireReturns ==
  <>[] \A t \in Programs :
    \/ stage[t] = "idle" \/ node[t] # None
    \/ stage[t] = "ended" /\ ~calm[t]
    \/ stage[t] = "block" /\ Orphaned(First(t))
=============================================================================
