------------------------------ MODULE Mailbox ------------------------------
(***************************************************************************)
(* What remote_transact_one_way and handle_one_way promise together: the   *)
(* object of every process has a mailbox of limited room.  A call puts its *)
(* message there once, when there is room, and fails only if the process   *)
(* has gone.  A handler uses the messages one by one, in the order of the  *)
(* mailbox and while the process is there; the room of a message is        *)
(* nobody else's until it is used.                                         *)
(***************************************************************************)
EXTENDS Naturals, FiniteSets, Sequences

CONSTANTS
  Procs,   \* processes, each with one object
  Msgs,    \* messages, each for one call
  Target,  \* the process that a message goes to
  Size,    \* the room it takes
  Space    \* the room of a mailbox

VARIABLES
  call,  \* each message: unsent, waiting, taken, ok, error
  taken, \* what each mailbox has taken so far
  used,  \* what has been used of that so far
  gone   \* processes that are not there any more

Waiting(p) == {taken[p][i] : i \in (Len(used[p]) + 1)..Len(taken[p])}
RoomOf(ms) == Cardinality(UNION {{m} \X (1..Size[m]) : m \in ms})

Init ==
  /\ call = [m \in Msgs |-> "unsent"]
  /\ taken = [p \in Procs |-> <<>>]
  /\ used = [p \in Procs |-> <<>>]
  /\ gone = {}

Call(m) ==
  /\ call[m] = "unsent"
  /\ call' = [call EXCEPT ![m] = "waiting"]
  /\ UNCHANGED <<taken, used, gone>>

Take(m) ==
  LET p == Target[m] IN
  /\ call[m] = "waiting" /\ p \notin gone
  /\ RoomOf(Waiting(p) \cup {m}) <= Space
  /\ call' = [call EXCEPT ![m] = "taken"]
  /\ taken' = [taken EXCEPT ![p] = Append(@, m)]
  /\ UNCHANGED <<used, gone>>

Return(m) ==
  /\ call[m] = "taken"
  /\ call' = [call EXCEPT ![m] = "ok"]
  /\ UNCHANGED <<taken, used, gone>>

Fail(m) ==
  /\ call[m] = "waiting" /\ Target[m] \in gone
  /\ call' = [call EXCEPT ![m] = "error"]
  /\ UNCHANGED <<taken, used, gone>>

Use(p) ==
  /\ p \notin gone /\ Len(used[p]) < Len(taken[p])
  /\ used' = [used EXCEPT ![p] = Append(@, taken[p][Len(@) + 1])]
  /\ UNCHANGED <<call, taken, gone>>

Leave(p) ==
  /\ gone' = gone \cup {p}
  /\ UNCHANGED <<call, taken, used>>

Next ==
  \/ \E m \in Msgs : Call(m) \/ Take(m) \/ Return(m) \/ Fail(m)
  \/ \E p \in Procs : Use(p) \/ Leave(p)

Spec == Init /\ [][Next]_<<call, taken, used, gone>>
=============================================================================
