--------------------------- MODULE TestPoolProofs ---------------------------
(***************************************************************************)
(* The lock of a pool node lies with the program that works on it, and     *)
(* stays until its forked service is gone; so who serves on a node finds   *)
(* the role of its manager free, and is the one that its client calls: for *)
(* every set of programs, every size of the pool and every choice of the   *)
(* programs that are killed.                                               *)
(***************************************************************************)
EXTENDS TestPool, TLAPS, WellFoundedInduction

\* Whoever has returned from PoolNode::acquire and not dropped its PoolNode, or has a
\* service that lives, has the lock of its node.
Covered == \A t \in Programs : Uses(t) => node[t] \in Nodes /\ lock[node[t]] = t

IInv == TypeOK /\ Covered
-----------------------------------------------------------------------------
(* The nodes that a program computes.                                      *)

\* The scan stays within the pool.
LEMMA ScanType ==
  ASSUME NEW t \in Programs, NEW k \in 0..Size
  PROVE  (Pid[t] + k) % Size \in Nodes /\ First(t) \in Nodes
<1>1. Pid[t] \in Nat /\ Size \in Nat \ {0}
  BY ProgramsAssumption
<1>2. \A i \in Nat : i % Size \in 0..(Size - 1)
  BY <1>1
<1>3. QED
  BY <1>1, <1>2 DEF Nodes, First

\* A non-empty set of natural numbers has a minimum, and Min is in it.
LEMMA MinType ==
  ASSUME NEW S \in SUBSET Nat, S # {}
  PROVE  Min(S) \in S
<1>1. PICK m \in S : \A k \in S : <<k, m>> \notin OpToRel(<, Nat)
  BY WFMin, NatLessThanWellFounded, Zenon
<1>2. \A k \in S : ~(k < m)
  BY <1>1, Zenon DEF OpToRel
<1>3. \A k \in S : m =< k
  BY <1>2
<1>4. QED
  BY <1>3 DEF Min
-----------------------------------------------------------------------------
(* The lock.                                                               *)

\* A free node is locked: nobody else loses a lock.
LEMMA LockIInv ==
  ASSUME IInv, NEW t \in Programs, NEW n \in Nodes, lock[n] = None, Lock(t, n),
         UNCHANGED <<setup_vars, child, dev, stored, raw, calm, manager>>
  PROVE  IInv'
<1> USE DEF Lock, setup_vars
<1>1. TypeOK'
  BY ProgramsAssumption DEF IInv, TypeOK
<1>2. Covered'
  BY ProgramsAssumption DEF IInv, TypeOK, Covered, Uses, ChildLives
<1>3. QED
  BY <1>1, <1>2 DEF IInv

\* The lock of a program is dropped: the others keep theirs.
LEMMA UnlockKeeps ==
  ASSUME IInv, NEW t \in Programs, Unlock(t)
  PROVE  /\ lock' \in [Nodes -> Programs \cup {None}]
         /\ \A u \in Programs \ {t} :
              Uses(u) => lock'[node[u]] = u
BY DEF IInv, TypeOK, Covered, Unlock

\* A program closes the lock file, and leaves what is locked to its service.
LEMMA CloseLockKeeps ==
  ASSUME IInv, NEW t \in Programs, CloseLock(t)
  PROVE  /\ lock' \in [Nodes -> Programs \cup {None}]
         /\ \A u \in Programs \ {t} :
              Uses(u) => lock'[node[u]] = u
         /\ ChildLives(t) => lock' = lock
BY UnlockKeeps DEF IInv, TypeOK, Covered, CloseLock
-----------------------------------------------------------------------------
LEMMA InitIInv == Init => IInv
<1> SUFFICES ASSUME Init PROVE IInv
  OBVIOUS
<1>1. 0 \in Nodes /\ 0 \in 0..Size
  BY ProgramsAssumption DEF Nodes
<1>2. TypeOK
  BY <1>1 DEF Init, TypeOK
<1>3. Covered
  BY DEF Init, Covered, Uses, ChildLives
<1>4. QED
  BY <1>2, <1>3 DEF IInv

\* setup_test_pool touches no program and no lock.
LEMMA SetupIInv == IInv /\ (Mount \/ SetupNext) => IInv'
<1> SUFFICES ASSUME IInv, Mount \/ SetupNext PROVE IInv'
  OBVIOUS
<1> USE DEF Mount, SetupNext, RemoveStale, CreateDevice, SetPermissions, program_vars
<1>1. setup' \in {"off", "on", "done"} /\ turn' \in Nodes
  BY ProgramsAssumption DEF IInv, TypeOK, Nodes
<1>2. /\ file' \in [Nodes -> {"missing", "old", "private", "new"}]
      /\ calm' \in [Programs -> BOOLEAN]
  BY DEF IInv, TypeOK
<1>3. UNCHANGED <<program_vars, lock, manager>>
  OBVIOUS
<1>4. QED
  BY <1>1, <1>2, <1>3 DEF IInv, TypeOK, Covered, Uses, ChildLives
-----------------------------------------------------------------------------
(* One lemma per action of a program.                                      *)

\* An action that leaves every node and lock, and lets no program into the use of a
\* node that it had not locked.
LEMMA KeepsCovered ==
  ASSUME IInv, UNCHANGED <<node, lock>>,
         \A t \in Programs :
           Uses(t)' => Uses(t)
  PROVE  Covered'
BY DEF IInv, Covered

LEMMA ScanIInv ==
  ASSUME IInv, NEW t \in Programs, Start(t) \/ TryClaim(t) \/ EndScan(t) \/ BlockClaim(t)
  PROVE  IInv'
<1>1. CASE Start(t) \/ EndScan(t)
  <2> USE <1>1 DEF Start, EndScan, setup_vars
  <2>1. at' \in [Programs -> 0..Size]
    BY ProgramsAssumption DEF IInv, TypeOK
  <2>2. TypeOK'
    BY <2>1 DEF IInv, TypeOK
  <2>3. Covered'
    BY DEF IInv, TypeOK, Covered, Uses, ChildLives
  <2>4. QED
    BY <2>2, <2>3 DEF IInv
<1>2. CASE TryClaim(t)
  <2> DEFINE n == (Pid[t] + at[t]) % Size
  <2>1. n \in Nodes
    BY ScanType DEF IInv, TypeOK
  <2>2. CASE file[n] # "missing" /\ lock[n] = None
    <3> HIDE DEF n
    <3>1. Lock(t, n) /\ UNCHANGED <<setup_vars, child, dev, stored, raw, calm, manager>>
      BY <1>2, <2>2 DEF TryClaim, n
    <3>2. QED
      BY <2>1, <2>2, <3>1, LockIInv
  <2>3. CASE ~(file[n] # "missing" /\ lock[n] = None)
    <3>1. /\ at[t] < Size /\ at' = [at EXCEPT ![t] = @ + 1]
          /\ UNCHANGED <<lock, node, stage>>
          /\ UNCHANGED <<setup_vars, child, dev, stored, raw, calm, manager>>
      BY <1>2, <2>3 DEF TryClaim
    <3>2. at' \in [Programs -> 0..Size]
      BY <3>1, ProgramsAssumption DEF IInv, TypeOK
    <3>3. QED
      BY <3>1, <3>2 DEF IInv, TypeOK, Covered, Uses, ChildLives, setup_vars
  <2>4. QED
    BY <2>2, <2>3
<1>3. CASE BlockClaim(t)
  <2>1. First(t) \in Nodes
    BY ScanType, ProgramsAssumption
  <2>2. QED
    BY <1>3, <2>1, LockIInv DEF BlockClaim
<1>4. QED
  BY <1>1, <1>2, <1>3

\* The service starts under the lock that its program has.
LEMMA ForkIInv ==
  ASSUME IInv, NEW t \in Programs, Fork(t)
  PROVE  IInv'
<1>1. raw' \in [Programs -> Nodes \cup {None}]
  <2> DEFINE others == {n \in Nodes \ {node[t]} : file[n] # "missing"}
  <2>1. others # {} => Min(others) \in Nodes
    <3>1. others \in SUBSET Nat
      BY ProgramsAssumption DEF Nodes
    <3>2. QED
      BY <3>1, MinType
  <2>2. QED
    BY <2>1 DEF Fork, IInv, TypeOK
<1>2. TypeOK'
  BY <1>1 DEF Fork, IInv, TypeOK, setup_vars
<1>3. Covered'
  BY DEF Fork, IInv, TypeOK, Covered, Uses, ChildLives
<1>4. QED
  BY <1>2, <1>3 DEF IInv

\* Opening the device, the role and the signals leave the lock alone.
LEMMA WorkIInv ==
  ASSUME IInv, NEW t \in Programs,
         \/ OpenService(t) \/ Serve(t) \/ TakeRaw(t) \/ OpenSolo(t) \/ ServeSolo(t)
         \/ OpenClient(t) \/ KillChild(t) \/ EndCalls(t)
  PROVE  IInv'
<1> USE DEF OpenService, Serve, TakeRaw, OpenSolo, ServeSolo, OpenClient, KillChild,
            EndCalls, SetContextManager, setup_vars
<1>1. OpenService(t) \/ OpenSolo(t) => node[t] \in Nodes
  BY DEF IInv, Covered, Uses, ChildLives
<1>2. node[t] \in Nodes => Context(node[t]) \in Contexts
  BY DEF Context, Contexts
<1>3. dev' \in [Programs -> Contexts \cup {None}]
  BY <1>1, <1>2 DEF IInv, TypeOK
<1>4. manager' \in [Contexts -> Programs \cup {None}]
  BY DEF IInv, TypeOK
<1>5. /\ stage' \in [Programs -> {"idle", "probe", "block", "claimed", "set", "await",
                                  "client", "killed", "reap", "closing", "ended"}]
      /\ child' \in [Programs -> {"none", "new", "opened", "serving", "failing",
                                  "exiting", "gone"}]
  BY DEF IInv, TypeOK
<1>6. /\ stored' \in [Programs -> BOOLEAN]
      /\ raw' \in [Programs -> Nodes \cup {None}]
  BY DEF IInv, TypeOK
<1>7. UNCHANGED <<setup_vars, at, node, calm, lock>>
  OBVIOUS
<1>8. TypeOK'
  BY <1>3, <1>4, <1>5, <1>6, <1>7 DEF IInv, TypeOK
<1>9. Covered'
  <2>1. \A u \in Programs :
          Uses(u)' => Uses(u)
    BY DEF IInv, TypeOK, Uses, ChildLives
  <2>2. QED
    BY <1>7, <2>1, KeepsCovered
<1>10. QED
  BY <1>8, <1>9 DEF IInv

\* The last process that has the lock file open drops the lock.
LEMMA LeaveServiceIInv ==
  ASSUME IInv, NEW t \in Programs, LeaveService(t)
  PROVE  IInv'
<1> USE DEF LeaveService, ServiceGone, setup_vars
<1>1. /\ lock' \in [Nodes -> Programs \cup {None}]
      /\ \A u \in Programs \ {t} : Uses(u) => lock'[node[u]] = u
  BY UnlockKeeps DEF IInv, TypeOK, Covered
<1>2. TypeOK'
  BY <1>1 DEF IInv, TypeOK
<1>3. Covered'
  BY <1>1 DEF IInv, TypeOK, Covered, Uses, ChildLives
<1>4. QED
  BY <1>2, <1>3 DEF IInv

\* So does a program that ends, unless its service lives on.
LEMMA EndIInv ==
  ASSUME IInv, NEW t \in Programs,
         Reap(t) \/ CloseSolo(t) \/ ExitSolo(t) \/ Fail(t)
  PROVE  IInv'
<1> USE DEF Reap, CloseSolo, ExitSolo, Fail, ProgramGone, ServiceGone, setup_vars
<1>1. /\ lock' \in [Nodes -> Programs \cup {None}]
      /\ \A u \in Programs \ {t} : Uses(u) => lock'[node[u]] = u
      /\ ChildLives(t) => lock' = lock
  BY CloseLockKeeps DEF IInv, TypeOK, Covered
<1>2. at' \in [Programs -> 0..Size]
  BY ProgramsAssumption DEF IInv, TypeOK
<1>3. TypeOK'
  <2>1. CASE Reap(t)
    BY <1>1, <1>2, <2>1 DEF IInv, TypeOK
  <2>2. CASE CloseSolo(t)
    BY <1>1, <1>2, <2>2 DEF IInv, TypeOK
  <2>3. CASE ExitSolo(t)
    BY <1>1, <1>2, <2>3 DEF IInv, TypeOK
  <2>4. CASE Fail(t)
    BY <1>1, <1>2, <2>4 DEF IInv, TypeOK
  <2>5. QED
    BY <2>1, <2>2, <2>3, <2>4
<1>4. Covered'
  <2>1. Uses(t)' => ChildLives(t)
    BY DEF IInv, TypeOK, Uses, ChildLives
  <2>2. ChildLives(t) => node' = node /\ lock' = lock
    BY <1>1 DEF ChildLives
  <2>3. \A u \in Programs \ {t} :
          /\ Uses(u)' <=> Uses(u)
          /\ node'[u] = node[u]
    BY DEF IInv, TypeOK, Uses, ChildLives
  <2>4. QED
    BY <1>1, <2>1, <2>2, <2>3 DEF IInv, Covered, Uses
<1>5. QED
  BY <1>3, <1>4 DEF IInv

\* The driver takes a role back; no lock depends on it.
LEMMA ReleaseRoleIInv ==
  ASSUME IInv, NEW c \in Contexts, ReleaseRole(c)
  PROVE  IInv'
BY DEF ReleaseRole, setup_vars, program_vars, IInv, TypeOK, Covered, Uses, ChildLives

LEMMA NextIInv == IInv /\ [Next]_vars => IInv'
<1> SUFFICES ASSUME IInv, [Next]_vars PROVE IInv'
  OBVIOUS
<1>1. CASE Mount \/ SetupNext
  BY <1>1, SetupIInv
<1>2. ASSUME NEW t \in Programs, Start(t) \/ BlockClaim(t) \/ Die(t)
      PROVE  IInv'
  BY <1>2, ScanIInv, EndIInv DEF Die
<1>3. ASSUME NEW t \in Programs, ProgramNext(t)
      PROVE  IInv'
  BY <1>3, ScanIInv, ForkIInv, WorkIInv, EndIInv DEF ProgramNext, Panic
<1>4. ASSUME NEW t \in Programs, ServiceNext(t)
      PROVE  IInv'
  BY <1>4, WorkIInv, LeaveServiceIInv DEF ServiceNext
<1>5. ASSUME NEW c \in Contexts, ReleaseRole(c)
      PROVE  IInv'
  BY <1>5, ReleaseRoleIInv
<1>6. CASE UNCHANGED vars
  BY <1>6 DEF vars, setup_vars, program_vars, IInv, TypeOK, Covered, Uses, ChildLives
<1>7. QED
  BY <1>1, <1>2, <1>3, <1>4, <1>5, <1>6 DEF Next
-----------------------------------------------------------------------------
(* The files, the services and the role.                                   *)

\* Without setup the nodes are all there, or all missing and nobody has got past its
\* start.  Setup leaves new nodes behind it, and nobody is calm while it is on.
FileInv ==
  /\ setup = "off" =>
       /\ turn = 0
       /\ \/ \A n \in Nodes : file[n] = "old"
          \/ /\ \A n \in Nodes : file[n] = "missing"
             /\ \A t \in Programs : stage[t] \in {"idle", "ended"} /\ node[t] = None
  /\ setup = "on" =>
       /\ \A n \in Nodes : n < turn => file[n] = "new"
       /\ \A t \in Programs : ~calm[t]
  /\ setup = "done" => \A n \in Nodes : file[n] = "new"

\* How far a program is, and how far its service is by then.
StageInv ==
  \A t \in Programs :
    /\ stage[t] \in {"idle", "probe", "block"} => node[t] = None
    /\ stage[t] \in {"idle", "probe", "block", "claimed"} => child[t] = "none"
    /\ IF Kind[t] = "solo"
       THEN child[t] = "none" /\ stage[t] \notin {"await", "killed", "reap"}
       ELSE /\ stage[t] \notin {"set", "closing"}
            /\ stage[t] = "client" => child[t] = "serving"

\* A service has a device of its program's node: of the context that the node has now, if
\* the pool has been ready since.  The second node of a benchmark is another one.
HasDevice(t) ==
  \/ child[t] \in {"opened", "serving", "exiting"}
  \/ Kind[t] = "solo" /\ stage[t] \in {"set", "client", "closing"}
DeviceInv ==
  \A t \in Programs :
    /\ HasDevice(t) =>
         /\ node[t] \in Nodes /\ dev[t] \in Contexts /\ dev[t][1] = node[t]
         /\ calm[t] => dev[t] = Context(node[t])
    /\ raw[t] # None => Kind[t] = "bench" /\ raw[t] # node[t] /\ ChildLives(t)

\* Who serves is the manager of the context that it has opened.
Serving(t) == child[t] = "serving" \/ (Kind[t] = "solo" /\ stage[t] = "client")
RoleInv == \A t \in Programs : Serving(t) => manager[dev[t]] = t

\* A manager serves on its own node, or it is a benchmark's and has the other one; or its
\* process is gone, and never comes back.
ManagerInv ==
  \A c \in Contexts : manager[c] # None =>
    LET m == manager[c] IN
    IF Kind[m] = "solo"
    THEN stage[m] = "ended" \/ (stage[m] \in {"client", "closing"} /\ dev[m] = c)
    ELSE \/ child[m] = "gone"
         \/ /\ child[m] \in {"serving", "exiting"}
            /\ dev[m] = c \/ (Kind[m] = "bench" /\ node[m] # c[1])

ServiceInv == IInv /\ FileInv /\ StageInv /\ DeviceInv /\ RoleInv /\ ManagerInv

\* A program is of one kind, and a context is known by its node and its age.
LEMMA Kinds ==
  /\ \A t \in Programs : Kind[t] \in {"combo", "parked", "solo", "bench"}
  /\ \A n \in Nodes : Context(n) \in Contexts /\ Context(n)[1] = n
  /\ None \notin Programs /\ None \notin Nodes
BY ProgramsAssumption DEF Context, Contexts

\* At first no program has started, so none has a device or a role.
LEMMA InitServiceInv == Init => ServiceInv
<1> SUFFICES ASSUME Init PROVE ServiceInv
  OBVIOUS
<1>1. IInv
  BY InitIInv
<1>2. FileInv
  BY DEF Init, FileInv
<1>3. StageInv
  BY DEF Init, StageInv
<1>4. DeviceInv
  BY DEF Init, DeviceInv, HasDevice
<1>5. RoleInv /\ ManagerInv
  BY DEF Init, RoleInv, Serving, ManagerInv
<1>6. QED
  BY <1>1, <1>2, <1>3, <1>4, <1>5 DEF ServiceInv

\* Only setup touches the files, and only a start makes a program calm.
LEMMA FileNext == ServiceInv /\ [Next]_vars => FileInv'
<1> SUFFICES ASSUME ServiceInv, [Next]_vars PROVE FileInv'
  OBVIOUS
<1>1. TypeOK /\ FileInv /\ StageInv
  BY DEF ServiceInv, IInv
<1>2. CASE Mount
  BY <1>1, <1>2, ProgramsAssumption DEF Mount, Nodes, FileInv, TypeOK
<1>3. CASE SetupNext
  <2>1. CASE RemoveStale \/ CreateDevice
    BY <1>1, <2>1 DEF RemoveStale, CreateDevice, FileInv, TypeOK, Nodes
  <2>2. CASE SetPermissions
    BY <1>1, <2>2, ProgramsAssumption DEF SetPermissions, FileInv, TypeOK, Nodes
  <2>3. QED
    BY <1>3, <2>1, <2>2 DEF SetupNext
<1>4. ASSUME NEW t \in Programs, Start(t) PROVE FileInv'
  BY <1>1, <1>4, ProgramsAssumption DEF Start, setup_vars, FileInv, TypeOK
<1>5. ASSUME NEW t \in Programs,
             TryClaim(t) \/ EndScan(t) \/ BlockClaim(t)
      PROVE  FileInv'
  BY <1>1, <1>5, Kinds DEF TryClaim, EndScan, BlockClaim, Lock, setup_vars, FileInv, TypeOK
<1>6. ASSUME NEW t \in Programs,
             \/ Fork(t) \/ OpenSolo(t) \/ ServeSolo(t) \/ OpenClient(t) \/ KillChild(t)
             \/ EndCalls(t) \/ ServiceNext(t)
      PROVE  FileInv'
  BY <1>1, <1>6, Kinds
  DEF Fork, OpenSolo, ServeSolo, OpenClient, KillChild, EndCalls, ServiceNext, OpenService,
      Serve, TakeRaw, LeaveService, setup_vars, FileInv, TypeOK
<1>7. ASSUME NEW t \in Programs, Reap(t) \/ CloseSolo(t) \/ ExitSolo(t) \/ Panic(t) \/ Die(t)
      PROVE  FileInv'
  BY <1>1, <1>7, Kinds
  DEF Reap, CloseSolo, ExitSolo, Panic, Panics, Die, Fail, ProgramGone, setup_vars, FileInv,
     TypeOK
<1>8. ASSUME NEW c \in Contexts, ReleaseRole(c) PROVE FileInv'
  BY <1>1, <1>8 DEF ReleaseRole, setup_vars, program_vars, FileInv
<1>9. CASE UNCHANGED vars
  BY <1>1, <1>9 DEF vars, setup_vars, program_vars, FileInv
<1>10. QED
  BY <1>2, <1>3, <1>4, <1>5, <1>6, <1>7, <1>8, <1>9 DEF Next, ProgramNext

\* Each step of a program takes it one stage on, and its service with it.
LEMMA StageNext == ServiceInv /\ [Next]_vars => StageInv'
<1> SUFFICES ASSUME ServiceInv, [Next]_vars PROVE StageInv'
  OBVIOUS
<1>1. TypeOK /\ StageInv
  BY DEF ServiceInv, IInv
<1>2. CASE Mount \/ SetupNext
  BY <1>1, <1>2
  DEF Mount, SetupNext, RemoveStale, CreateDevice, SetPermissions, program_vars, StageInv
<1>3. ASSUME NEW t \in Programs,
             Start(t) \/ TryClaim(t) \/ EndScan(t) \/ BlockClaim(t)
      PROVE  StageInv'
  BY <1>1, <1>3, Kinds DEF Start, TryClaim, EndScan, BlockClaim, Lock, StageInv, TypeOK
<1>4. ASSUME NEW t \in Programs,
             \/ Fork(t) \/ OpenSolo(t) \/ ServeSolo(t)
             \/ OpenClient(t) \/ KillChild(t) \/ EndCalls(t)
      PROVE  StageInv'
  BY <1>1, <1>4, Kinds
  DEF Fork, OpenSolo, ServeSolo, OpenClient, KillChild, EndCalls, StageInv, TypeOK
<1>5. ASSUME NEW t \in Programs, ServiceNext(t) PROVE StageInv'
  BY <1>1, <1>5
  DEF ServiceNext, OpenService, Serve, TakeRaw, LeaveService, StageInv, TypeOK, ChildLives
<1>6. ASSUME NEW t \in Programs, Reap(t) \/ CloseSolo(t) \/ ExitSolo(t) \/ Panic(t) \/ Die(t)
      PROVE  StageInv'
  BY <1>1, <1>6
  DEF Reap, CloseSolo, ExitSolo, Panic, Panics, Die, Fail, ProgramGone, StageInv, TypeOK
<1>7. ASSUME NEW c \in Contexts, ReleaseRole(c) PROVE StageInv'
  BY <1>1, <1>7 DEF ReleaseRole, program_vars, StageInv
<1>8. CASE UNCHANGED vars
  BY <1>1, <1>8 DEF vars, program_vars, StageInv
<1>9. QED
  BY <1>2, <1>3, <1>4, <1>5, <1>6, <1>7, <1>8 DEF Next, ProgramNext

\* A service keeps the device that it has opened, and who has none holds no role.
LEMMA DeviceNext == ServiceInv /\ [Next]_vars => DeviceInv'
<1> SUFFICES ASSUME ServiceInv, [Next]_vars PROVE DeviceInv'
  OBVIOUS
<1> USE DEF HasDevice, ChildLives
<1>1. TypeOK /\ Covered /\ FileInv /\ StageInv /\ DeviceInv
  BY DEF ServiceInv, IInv
<1>2. CASE Mount
  BY <1>1, <1>2 DEF Mount, program_vars, DeviceInv, TypeOK
<1>3. CASE SetupNext
  <2>1. \A t \in Programs : ~calm'[t]
    BY <1>1, <1>3 DEF SetupNext, RemoveStale, CreateDevice, SetPermissions, FileInv
  <2>2. UNCHANGED program_vars
    BY <1>3 DEF SetupNext, RemoveStale, CreateDevice, SetPermissions
  <2>3. QED
    BY <1>1, <2>1, <2>2 DEF program_vars, DeviceInv
<1>4. ASSUME NEW t \in Programs,
             Start(t) \/ TryClaim(t) \/ EndScan(t) \/ BlockClaim(t)
      PROVE  DeviceInv'
  <2>1. ~HasDevice(t) /\ ~HasDevice(t)' /\ raw[t] = None /\ UNCHANGED <<file, child, dev, raw>>
    BY <1>1, <1>4
    DEF Start, TryClaim, EndScan, BlockClaim, Lock, setup_vars, StageInv, DeviceInv, TypeOK
  <2>2. \A u \in Programs \ {t} : /\ stage'[u] = stage[u] /\ node'[u] = node[u]
                                  /\ calm'[u] = calm[u]
    BY <1>1, <1>4 DEF Start, TryClaim, EndScan, BlockClaim, Lock, TypeOK
  <2>3. QED
    BY <1>1, <2>1, <2>2 DEF DeviceInv, Context
<1>5. ASSUME NEW t \in Programs, Fork(t) PROVE DeviceInv'
  <2> DEFINE others == {n \in Nodes \ {node[t]} : file[n] # "missing"}
  <2>1. others # {} => Min(others) \in Nodes \ {node[t]}
    <3>1. others \in SUBSET Nat
      BY ProgramsAssumption DEF Nodes
    <3>2. QED
      BY <3>1, MinType
  <2>2. ~HasDevice(t)'
    BY <1>1, <1>5, Kinds DEF Fork, StageInv, TypeOK
  <2>3. raw'[t] # None => Kind[t] = "bench" /\ raw'[t] # node[t] /\ ChildLives(t)'
    BY <1>1, <1>5, <2>1, Kinds DEF Fork, StageInv, DeviceInv, TypeOK
  <2>4. /\ \A u \in Programs \ {t} : /\ stage'[u] = stage[u] /\ child'[u] = child[u]
                                     /\ raw'[u] = raw[u]
        /\ UNCHANGED <<file, node, dev, calm>>
    BY <1>1, <1>5 DEF Fork, setup_vars, TypeOK
  <2>5. QED
    BY <1>1, <2>2, <2>3, <2>4 DEF DeviceInv, Context
<1>6. ASSUME NEW t \in Programs, OpenService(t) \/ OpenSolo(t) PROVE DeviceInv'
  <2>1. node[t] \in Nodes
    BY <1>1, <1>6 DEF OpenService, OpenSolo, Covered, Uses
  <2>2. QED
    BY <1>1, <1>6, <2>1, Kinds
    DEF OpenService, OpenSolo, setup_vars, Context, StageInv, DeviceInv, TypeOK
<1>7. ASSUME NEW t \in Programs,
             \/ Serve(t) \/ TakeRaw(t) \/ ServeSolo(t) \/ OpenClient(t) \/ KillChild(t)
             \/ EndCalls(t)
      PROVE  DeviceInv'
  BY <1>1, <1>7, Kinds
  DEF Serve, TakeRaw, ServeSolo, OpenClient, KillChild, EndCalls, SetContextManager,
      setup_vars, Context, StageInv, DeviceInv, TypeOK
<1>8. ASSUME NEW t \in Programs, LeaveService(t) PROVE DeviceInv'
  BY <1>1, <1>8
  DEF LeaveService, ServiceGone, setup_vars, Context, StageInv, DeviceInv, TypeOK
<1>9. ASSUME NEW t \in Programs, Reap(t) \/ CloseSolo(t) \/ ExitSolo(t) \/ Panic(t) \/ Die(t)
      PROVE  DeviceInv'
  BY <1>1, <1>9
  DEF Reap, CloseSolo, ExitSolo, Panic, Die, Fail, ProgramGone, ServiceGone,
      setup_vars, Context, StageInv, DeviceInv, TypeOK
<1>10. ASSUME NEW c \in Contexts, ReleaseRole(c) PROVE DeviceInv'
  BY <1>1, <1>10 DEF ReleaseRole, setup_vars, program_vars, Context, DeviceInv
<1>11. CASE UNCHANGED vars
  BY <1>1, <1>11 DEF vars, setup_vars, program_vars, Context, DeviceInv
<1>12. QED
  BY <1>2, <1>3, <1>4, <1>5, <1>6, <1>7, <1>8, <1>9, <1>10, <1>11
  DEF Next, ProgramNext, ServiceNext

\* A role is given to nobody who has not asked, and taken from nobody whose process lives.
LEMMA RoleNext == ServiceInv /\ [Next]_vars => RoleInv' /\ ManagerInv'
<1> SUFFICES ASSUME ServiceInv, [Next]_vars PROVE RoleInv' /\ ManagerInv'
  OBVIOUS
<1> USE DEF Serving
<1>1. TypeOK /\ StageInv /\ DeviceInv /\ RoleInv /\ ManagerInv
  BY DEF ServiceInv, IInv
<1>2. CASE Mount \/ SetupNext
  BY <1>1, <1>2
  DEF Mount, SetupNext, RemoveStale, CreateDevice, SetPermissions, program_vars, RoleInv,
     ManagerInv
<1>3. ASSUME NEW t \in Programs,
             \/ Start(t) \/ TryClaim(t) \/ EndScan(t) \/ BlockClaim(t) \/ Fork(t)
             \/ OpenSolo(t) \/ OpenService(t)
      PROVE  RoleInv' /\ ManagerInv'
  <2>1. /\ \A u \in Programs \ {t} : /\ stage'[u] = stage[u] /\ child'[u] = child[u]
                                     /\ node'[u] = node[u] /\ dev'[u] = dev[u]
        /\ UNCHANGED manager
    BY <1>1, <1>3
    DEF Start, TryClaim, EndScan, BlockClaim, Lock, Fork, OpenSolo, OpenService, TypeOK
  <2>2. ~Serving(t)' /\ child[t] \notin {"serving", "exiting", "gone"}
    BY <1>1, <1>3, Kinds
    DEF Start, TryClaim, EndScan, BlockClaim, Lock, Fork, OpenSolo, OpenService, StageInv,
       TypeOK
  <2>3. Kind[t] = "solo" => stage[t] \notin {"client", "closing", "ended"}
    BY <1>1, <1>3
       DEF Start, TryClaim, EndScan, BlockClaim, Fork, OpenSolo, OpenService, StageInv
  <2>4. \A c \in Contexts : manager[c] # t
    BY <1>1, <2>2, <2>3, Kinds DEF ManagerInv
  <2>5. QED
    BY <1>1, <2>1, <2>2, <2>4, Kinds DEF RoleInv, ManagerInv, TypeOK
<1>4. ASSUME NEW t \in Programs, Serve(t) \/ ServeSolo(t)
      PROVE  RoleInv' /\ ManagerInv'
  <2>1. dev[t] \in Contexts
    BY <1>1, <1>4 DEF Serve, ServeSolo, DeviceInv, HasDevice, StageInv
  <2>2. QED
    BY <1>1, <1>4, <2>1, Kinds
    DEF Serve, ServeSolo, SetContextManager, StageInv, DeviceInv, HasDevice, RoleInv,
       ManagerInv, TypeOK
<1>5. ASSUME NEW t \in Programs, TakeRaw(t)
      PROVE  RoleInv' /\ ManagerInv'
  <2>1. raw[t] \in Nodes /\ raw[t] # node[t] /\ Kind[t] = "bench"
    BY <1>1, <1>5 DEF TakeRaw, DeviceInv, TypeOK
  <2>2. Context(raw[t]) \in Contexts /\ Context(raw[t])[1] = raw[t]
    BY <2>1, Kinds
  <2>3. QED
    BY <1>1, <1>5, <2>1, <2>2, Kinds
       DEF TakeRaw, DeviceInv, HasDevice, RoleInv, ManagerInv, TypeOK
<1>6. ASSUME NEW t \in Programs, OpenClient(t) \/ KillChild(t) \/ EndCalls(t)
      PROVE  RoleInv' /\ ManagerInv'
  BY <1>1, <1>6 DEF OpenClient, KillChild, EndCalls, StageInv, RoleInv, ManagerInv, TypeOK
<1>7. ASSUME NEW t \in Programs, LeaveService(t)
      PROVE  RoleInv' /\ ManagerInv'
  BY <1>1, <1>7
  DEF LeaveService, ServiceGone, ChildLives, StageInv, RoleInv, ManagerInv, TypeOK
<1>8. ASSUME NEW t \in Programs, Reap(t) \/ CloseSolo(t) \/ ExitSolo(t) \/ Panic(t) \/ Die(t)
      PROVE  RoleInv' /\ ManagerInv'
  BY <1>1, <1>8
  DEF Reap, CloseSolo, ExitSolo, Panic, Die, Fail, ProgramGone, ServiceGone, ChildLives,
      StageInv, RoleInv, ManagerInv, TypeOK
<1>9. ASSUME NEW c \in Contexts, ReleaseRole(c)
      PROVE  RoleInv' /\ ManagerInv'
  BY <1>1, <1>9, Kinds
  DEF ReleaseRole, program_vars, ServiceLives, ChildLives, RoleInv, ManagerInv, DeviceInv,
     HasDevice, TypeOK
<1>10. CASE UNCHANGED vars
  BY <1>1, <1>10 DEF vars, program_vars, RoleInv, ManagerInv
<1>11. QED
  BY <1>2, <1>3, <1>4, <1>5, <1>6, <1>7, <1>8, <1>9, <1>10 DEF Next, ProgramNext, ServiceNext

\* Whatever a program, its service, setup or the driver does, the invariant is kept.
LEMMA NextServiceInv == ServiceInv /\ [Next]_vars => ServiceInv'
BY NextIInv, FileNext, StageNext, DeviceNext, RoleNext DEF ServiceInv
-----------------------------------------------------------------------------
\* IInv holds whatever the programs do and whoever is killed: it is inductive.
THEOREM PoolInvariant == Spec => []IInv
BY InitIInv, NextIInv, PTL DEF Spec

\* The state keeps its type: in particular every scan stays within the pool, and the
\* second node that a benchmark takes is one of the pool's.
THEOREM PoolTypeCorrect == Spec => []TypeOK
<1>1. IInv => TypeOK
  BY DEF IInv
<1>2. QED
  BY <1>1, PoolInvariant, PTL

\* The lock of a node lies with the program that works on it, and the kernel does not
\* release it while the forked service of a program that has gone still uses the node.
THEOREM LockCoversUse == Spec => []Covered
<1>1. IInv => Covered
  BY DEF IInv
<1>2. QED
  BY <1>1, PoolInvariant, PTL

\* PoolNode::acquire gives no node to two programs, nor one that is still in use by
\* the service of a program that is gone.
THEOREM PoolExclusive == Spec => []NodeIsExclusive
<1>1. IInv => NodeIsExclusive
  BY DEF IInv, Covered, NodeIsExclusive
<1>2. QED
  BY <1>1, PoolInvariant, PTL

\* Who claims a node, opens a device, serves or has a role, and of which context: with the
\* above it is inductive.
THEOREM ServiceInvariant == Spec => []ServiceInv
BY InitServiceInv, NextServiceInv, PTL DEF Spec

\* The nodes that setup_test_pool has left, or that were there before, are all there for
\* who has started since, and can be opened.
THEOREM PoolStaysReady == Spec => []PoolReady
<1>1. ServiceInv => PoolReady
  <2> SUFFICES ASSUME ServiceInv, NEW t \in Programs, calm[t], node[t] # None
               PROVE  CanOpen(node[t])
    BY DEF PoolReady
  <2>1. TypeOK /\ FileInv
    BY DEF ServiceInv, IInv
  <2>2. QED
    BY <2>1 DEF TypeOK, FileInv, CanOpen
<1>2. QED
  BY <1>1, ServiceInvariant, PTL

\* set_context_manager finds the role free, whatever the other programs do: they are on
\* other nodes, but for a benchmark's second device and for who is about to be gone.
THEOREM RoleFree == Spec => []RoleIsFree
<1>1. ServiceInv /\ NodeIsExclusive => RoleIsFree
  <2> SUFFICES ASSUME ServiceInv, NodeIsExclusive, NEW t \in Programs, AboutToSet(t),
                      manager[dev[t]] # None, ServiceLives(manager[dev[t]]),
                      stage[manager[dev[t]]] # "closing"
               PROVE  /\ Kind[manager[dev[t]]] = "bench"
                      /\ node[manager[dev[t]]] # node[t]
    BY DEF RoleIsFree
  <2> DEFINE m == manager[dev[t]]
  <2>1. TypeOK /\ StageInv /\ DeviceInv /\ ManagerInv
    BY DEF ServiceInv, IInv
  <2>2. HasDevice(t) /\ Uses(t)
    BY <2>1, Kinds DEF AboutToSet, HasDevice, Uses, ChildLives, StageInv
  <2>3. dev[t] \in Contexts /\ dev[t][1] = node[t] /\ m \in Programs
    BY <2>1, <2>2 DEF DeviceInv, TypeOK
  <2>4. CASE Kind[m] = "bench" /\ node[m] # node[t]
    BY <2>4
  <2>5. CASE /\ dev[m] = dev[t] /\ HasDevice(m)
             /\ child[m] \in {"serving", "exiting"} \/ stage[m] = "client"
    <3>1. node[m] = node[t]
      BY <2>1, <2>3, <2>5 DEF DeviceInv
    <3>2. Uses(m)
      BY <2>5 DEF Uses, ChildLives
    <3>3. m = t
      BY <2>2, <2>3, <3>1, <3>2 DEF NodeIsExclusive
    <3>4. QED
      BY <2>1, <2>5, <3>3 DEF AboutToSet, StageInv
  <2>6. QED
    BY <2>1, <2>3, <2>4, <2>5 DEF ManagerInv, ServiceLives, ChildLives, HasDevice, StageInv
<1>2. QED
  BY <1>1, ServiceInvariant, PoolExclusive, PTL

\* Whoever calls context_manager() reaches the service of its own program.
THEOREM CallsOwnService == Spec => []OwnService
<1>1. ServiceInv => OwnService
  <2> SUFFICES ASSUME ServiceInv, NEW t \in Programs, calm[t], stage[t] = "client"
               PROVE  Server(t) = t /\ manager[Context(node[t])] = t
    BY DEF OwnService
  <2>1. StageInv /\ DeviceInv /\ RoleInv
    BY DEF ServiceInv
  <2>2. Serving(t) /\ HasDevice(t)
    BY <2>1 DEF StageInv, Serving, HasDevice
  <2>3. QED
    BY <2>1, <2>2 DEF DeviceInv, RoleInv, Server
<1>2. QED
  BY <1>1, ServiceInvariant, PTL
=============================================================================
