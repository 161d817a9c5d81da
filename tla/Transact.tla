------------------------------ MODULE Transact ------------------------------
(***************************************************************************)
(* Two-way transactions of one process: the calls its threads make         *)
(* (remote_transact_blocking), the transactions its threads serve          *)
(* (binder_write_read, looper), and how the two nest on one thread.        *)
(*                                                                         *)
(* A thread is a stack of frames, the activations of binder_write_read's   *)
(* callers; the top one runs.  The driver and the peers are external.  The *)
(* driver keeps a transaction stack per thread: it queues the reply to a   *)
(* call, and transactions that a peer makes while it serves that call, on  *)
(* the calling thread; it refuses a new call on a thread that still waits  *)
(* for one, and a reply that does not answer the top of the stack.         *)
(***************************************************************************)
EXTENDS Integers, Sequences, SequencesExt

CONSTANTS
  Callers,        \* application threads that make calls
  Loopers,        \* threads of the binder thread pool
  Calls,          \* outgoing two-way calls
  Incoming,       \* transactions that peers send to this process
  NoThread,       \* a call that no thread made yet
  Troubles,       \* what trouble may be
  MaxLocal        \* bound on the calls to own objects

Threads == Callers \cup Loopers

ASSUME ThreadsAssumption == Callers \cap Loopers = {} /\ NoThread \notin Threads
ASSUME BoundsAssumption ==
  Troubles \subseteq SUBSET {"missing", "full", "ahead"} /\ MaxLocal \in Nat

VARIABLES
  trouble,    \* what may happen in this behaviour.  missing: peers address
              \* objects that are not registered; full: a call finds the
              \* target's buffer full; ahead: the read that follows a BC_REPLY
              \* returns more than that reply's own TRANSACTION_COMPLETE
  stack,      \* each thread's frames, the running one last
  todo,       \* driver: each thread's queue of messages
  proc_todo,  \* driver: transactions for whichever looper comes first
  kstack,     \* driver: each thread's transaction stack, the top one last
  call,       \* each call: unused, sent, full (refused for space), over
  owner,      \* the thread that made the call
  result,     \* what each call returned: none, error, or a call's reply
  incoming,   \* each transaction: unused, queued, served, answered, refused
  nested,     \* the calls that a peer was serving when it sent a transaction
  missing,    \* the transactions that address no registered object
  locals      \* the number of calls to own objects so far

thread_vars == <<stack, result>>
kernel_vars == <<todo, proc_todo, kstack, call, owner, incoming, nested, missing>>
vars == <<trouble, locals, thread_vars, kernel_vars>>

Frame(op, id) == [op |-> op, id |-> id]
Message(msg, id) == [msg |-> msg, id |-> id]

\* The looper function's own activation, at the bottom of a looper's stack.
LoopFrame == Frame("loop", NoThread)

\* What the running frame of t does; "app" is a thread outside this library.
Running(t) == IF stack[t] = <<>> THEN "app" ELSE Last(stack[t]).op

Push(t, f) == stack' = [stack EXCEPT ![t] = Append(@, f)]
Pop(t) == stack' = [stack EXCEPT ![t] = Front(@)]
Top(t, f) == stack' = [stack EXCEPT ![t] = Append(Front(@), f)]

\* A message for t, and a message of t consumed.
Queue(t, m) == todo' = [todo EXCEPT ![t] = Append(@, m)]
Dequeue(t) == todo' = [todo EXCEPT ![t] = Tail(@)]
HeadIs(t, msgs) == todo[t] # <<>> /\ Head(todo[t]).msg \in msgs

Entry(dir, id) == [dir |-> dir, id |-> id]
KTopIs(t, e) == IF kstack[t] = <<>> THEN FALSE ELSE Last(kstack[t]) = e
KPush(t, e) == kstack' = [kstack EXCEPT ![t] = Append(@, e)]
\* The driver has the thread wait for a call of its own.
Waiting(t) == IF kstack[t] = <<>> THEN FALSE ELSE Last(kstack[t]).dir = "out"
KPop(t) == kstack' = [kstack EXCEPT ![t] = Front(@)]

Init ==
  /\ trouble \in Troubles
  /\ stack = [t \in Threads |-> IF t \in Loopers THEN <<LoopFrame>> ELSE <<>>]
  /\ todo = [t \in Threads |-> <<>>]
  /\ proc_todo = <<>>
  /\ kstack = [t \in Threads |-> <<>>]
  /\ call = [c \in Calls |-> "unused"]
  /\ owner = [c \in Calls |-> NoThread]
  /\ result = [c \in Calls |-> "none"]
  /\ incoming = [i \in Incoming |-> "unused"]
  /\ nested = [i \in Incoming |-> {}]
  /\ missing = {}
  /\ locals = 0
-----------------------------------------------------------------------------
(* Calls.                                                                  *)

\* remote_transact_blocking, by the application or by a handler: write
\* BC_TRANSACTION and start to read.  The driver refuses it (BR_FAILED_REPLY)
\* on a thread that still waits for a call, or for want of space (ENOSPC).
StartCall(t, c) ==
  /\ Running(t) \in {"app", "serve", "local"}
  /\ call[c] = "unused"
  /\ Push(t, Frame("call", c))
  /\ owner' = [owner EXCEPT ![c] = t]
  /\ \/ /\ Waiting(t)
        /\ call' = [call EXCEPT ![c] = "over"]
        /\ Queue(t, Message("FAILED_REPLY", c))
        /\ UNCHANGED kstack
     \/ /\ "full" \in trouble /\ ~Waiting(t)
        /\ call' = [call EXCEPT ![c] = "full"]
        /\ Queue(t, Message("NOSPC", c))
        /\ UNCHANGED kstack
     \/ /\ ~Waiting(t)
        /\ call' = [call EXCEPT ![c] = "sent"]
        /\ KPush(t, Entry("out", c))
        /\ UNCHANGED todo
  /\ UNCHANGED <<trouble, locals, proc_todo, result, incoming, nested, missing>>

\* BR_REPLY while a call reads: it is taken for the reply to that call.
ReturnReply(t) ==
  /\ Running(t) = "call"
  /\ HeadIs(t, {"REPLY"})
  /\ result' = [result EXCEPT ![Last(stack[t]).id] = Head(todo[t]).id]
  /\ Pop(t)
  /\ Dequeue(t)
  /\ UNCHANGED <<trouble, locals, proc_todo, kstack, call, owner, incoming, nested,
                 missing>>

\* Faulty: a dead reply does not end the call.
ReturnErrorUnlessDead(t) ==
  /\ Running(t) = "call"
  /\ HeadIs(t, {"DEAD_REPLY", "FAILED_REPLY"})
  /\ IF Head(todo[t]).msg = "DEAD_REPLY" THEN UNCHANGED thread_vars
     ELSE result' = [result EXCEPT ![Last(stack[t]).id] = "error"] /\ Pop(t)
  /\ Dequeue(t)
  /\ UNCHANGED <<trouble, locals, proc_todo, kstack, call, owner, incoming, nested,
                 missing>>

\* BR_DEAD_REPLY, BR_FROZEN_REPLY, BR_FAILED_REPLY: the call returns an error.
ReturnError(t) ==
  /\ Running(t) = "call"
  /\ HeadIs(t, {"DEAD_REPLY", "FAILED_REPLY"})
  /\ result' = [result EXCEPT ![Last(stack[t]).id] = "error"]
  /\ Pop(t)
  /\ Dequeue(t)
  /\ UNCHANGED <<trouble, locals, proc_todo, kstack, call, owner, incoming, nested,
                 missing>>

\* AsyncBufferFull: sleep, and read again; write_data was taken the first time.
RetryRead(t) ==
  /\ Running(t) = "call"
  /\ HeadIs(t, {"NOSPC"})
  /\ Dequeue(t)
  /\ UNCHANGED <<trouble, locals, thread_vars, proc_todo, kstack, call, owner, incoming,
                 nested, missing>>

\* self_transact_blocking: the handler of an own object runs as a function, and
\* the driver knows nothing of it.  (One of an unknown object returns at once;
\* self_transact_one_way has another thread run the handler.)
StartLocal(t) ==
  /\ Running(t) \in {"app", "serve", "local"}
  /\ locals < MaxLocal
  /\ locals' = locals + 1
  /\ Push(t, Frame("local", NoThread))
  /\ UNCHANGED <<trouble, result, kernel_vars>>

EndLocal(t) ==
  /\ Running(t) = "local"
  /\ Pop(t)
  /\ UNCHANGED <<trouble, locals, result, kernel_vars>>
-----------------------------------------------------------------------------
(* Transactions served.                                                    *)

\* The TRANSACTION arm, for transaction i read by t.
Serve(t, i) ==
  IF i \in missing
  THEN /\ incoming' = [incoming EXCEPT ![i] = "answered"]
       /\ kstack' = kstack
       /\ CASE Running(t) = "call" ->
                 /\ result' = [result EXCEPT ![Last(stack[t]).id] = "error"]
                 /\ Pop(t)
            [] Running(t) = "reply" -> Pop(t) /\ UNCHANGED result
            [] OTHER -> UNCHANGED thread_vars
  ELSE /\ incoming' = [incoming EXCEPT ![i] = "served"]
       /\ KPush(t, Entry("in", i))
       /\ Push(t, Frame("serve", i))
       /\ UNCHANGED result

\* The frames whose read takes any message: the loops of a call and a looper,
\* and the one read that follows a BC_REPLY if it reads ahead.
Reads(t) == Running(t) \in {"call", "loop"} \/ (Running(t) = "reply" /\ "ahead" \in trouble)

\* A transaction for this very thread.
ReadTransaction(t) ==
  /\ Reads(t)
  /\ HeadIs(t, {"TRANSACTION"})
  /\ Serve(t, Head(todo[t]).id)
  /\ Dequeue(t)
  /\ UNCHANGED <<trouble, locals, proc_todo, call, owner, nested, missing>>

\* A transaction for the process: taken by a thread that waits for nothing
\* else, a looper or a call that the driver knows nothing of.
ReadProcTransaction(t) ==
  /\ Running(t) \in {"call", "loop"}
  /\ todo[t] = <<>> /\ kstack[t] = <<>>
  /\ proc_todo # <<>>
  /\ Serve(t, Head(proc_todo))
  /\ proc_todo' = Tail(proc_todo)
  /\ UNCHANGED <<trouble, locals, todo, call, owner, nested, missing>>

\* The handler returned: write BC_REPLY and start the read that goes with it.
\* The driver refuses a reply that does not answer the top of its stack.
WriteReply(t) ==
  /\ Running(t) = "serve"
  /\ LET i == Last(stack[t]).id IN
     /\ Top(t, Frame("reply", i))
     /\ IF KTopIs(t, Entry("in", i))
        THEN /\ incoming' = [incoming EXCEPT ![i] = "answered"]
             /\ KPop(t)
             /\ UNCHANGED todo
        ELSE /\ incoming' = [incoming EXCEPT ![i] = "refused"]
             /\ Queue(t, Message("FAILED_REPLY", i))
             /\ UNCHANGED kstack
  /\ UNCHANGED <<trouble, locals, proc_todo, call, owner, result, nested, missing>>

\* Faulty: the end of a nested transaction ends the call that waits below it.
EndReplyAndCall(t) ==
  /\ Running(t) = "reply"
  /\ LET rest == Front(stack[t]) IN
     IF rest # <<>> /\ Last(rest).op = "call"
     THEN /\ stack' = [stack EXCEPT ![t] = Front(rest)]
          /\ result' = [result EXCEPT ![Last(rest).id] = "error"]
     ELSE Pop(t) /\ UNCHANGED result
  /\ UNCHANGED <<trouble, locals, kernel_vars>>

\* Faulty: the read of a reply leaves the loop it was called from, too.
EndReplyAndLoop(t) ==
  /\ Running(t) = "reply"
  /\ stack' = [stack EXCEPT ![t] = Front(Front(@))]
  /\ UNCHANGED <<trouble, locals, result, kernel_vars>>

\* That read returned nothing but the reply's own completion.
EndReply(t) ==
  /\ Running(t) = "reply"
  /\ Pop(t)
  /\ UNCHANGED <<trouble, locals, result, kernel_vars>>

\* It returned somebody's reply, "ignoring", or an error, which rolls the marks
\* of the reply back.  An error for this very reply is always read.
DiscardWithReply(t) ==
  /\ Running(t) = "reply"
  /\ HeadIs(t, {"REPLY", "DEAD_REPLY", "FAILED_REPLY"})
  /\ "ahead" \in trouble \/ Head(todo[t]).msg = "FAILED_REPLY"
  /\ Pop(t)
  /\ Dequeue(t)
  /\ UNCHANGED <<trouble, locals, result, proc_todo, kstack, call, owner, incoming,
                 nested, missing>>

\* A looper ignores replies and errors.
DiscardInLoop(t) ==
  /\ Running(t) = "loop"
  /\ HeadIs(t, {"REPLY", "DEAD_REPLY", "FAILED_REPLY"})
  /\ Dequeue(t)
  /\ UNCHANGED <<trouble, locals, thread_vars, proc_todo, kstack, call, owner, incoming,
                 nested, missing>>
-----------------------------------------------------------------------------
(* Peers and driver.                                                       *)

\* No transaction that the peer sent while it serves c is still unanswered.
PeerIsFree(c) ==
  \A i \in Incoming : c \in nested[i] => incoming[i] \in {"answered", "unused"}

\* The peer that serves c calls back: to the thread that waits for c.
CallBack(c, i) ==
  /\ call[c] = "sent"
  /\ PeerIsFree(c)
  /\ incoming[i] = "unused"
  /\ incoming' = [incoming EXCEPT ![i] = "queued"]
  /\ nested' = [nested EXCEPT ![i] = {c}]
  /\ missing' \in IF "missing" \in trouble THEN {missing, missing \cup {i}} ELSE {missing}
  /\ Queue(owner[c], Message("TRANSACTION", i))
  /\ UNCHANGED <<trouble, locals, thread_vars, proc_todo, kstack, call, owner>>

\* A peer sends a transaction of its own accord.
Arrive(i) ==
  /\ incoming[i] = "unused"
  /\ incoming' = [incoming EXCEPT ![i] = "queued"]
  /\ missing' \in IF "missing" \in trouble THEN {missing, missing \cup {i}} ELSE {missing}
  /\ proc_todo' = Append(proc_todo, i)
  /\ UNCHANGED <<trouble, locals, thread_vars, todo, kstack, call, owner, nested>>

\* The peer replies to c, or dies.
Answer(c) ==
  /\ call[c] = "sent"
  /\ PeerIsFree(c)
  /\ call' = [call EXCEPT ![c] = "over"]
  /\ \E m \in {"REPLY", "DEAD_REPLY"} : Queue(owner[c], Message(m, c))
  /\ KPop(owner[c])
  /\ UNCHANGED <<trouble, locals, thread_vars, proc_todo, owner, incoming, nested, missing>>
-----------------------------------------------------------------------------
ThreadNext(t) ==
  \/ EndLocal(t)
  \/ ReturnReply(t) \/ ReturnError(t) \/ RetryRead(t)
  \/ ReadTransaction(t) \/ ReadProcTransaction(t)
  \/ WriteReply(t) \/ EndReply(t) \/ DiscardWithReply(t) \/ DiscardInLoop(t)

Next ==
  \/ \E t \in Threads : ThreadNext(t) \/ StartLocal(t) \/ \E c \in Calls : StartCall(t, c)
  \/ \E c \in Calls : Answer(c) \/ \E i \in Incoming : CallBack(c, i)
  \/ \E i \in Incoming : Arrive(i)

Spec == Init /\ [][Next]_vars

\* Threads read what is queued for them, handlers return, peers answer the
\* calls they serve.  Nobody has to call, and no peer has to send anything.
Fairness ==
  /\ \A t \in Threads : WF_vars(ThreadNext(t))
  /\ \A c \in Calls : WF_vars(Answer(c))

FairSpec == Spec /\ Fairness
-----------------------------------------------------------------------------
(* Properties.                                                             *)

\* What a frame may be called from: the application and the handlers make
\* calls, calls and loopers serve transactions.
CallerOf(op) ==
  CASE op = "loop" -> {"none"}
    [] op \in {"call", "local"} -> {"none", "serve", "local"}
    [] op \in {"serve", "reply"} -> {"call", "loop", "reply"}

\* The shape of the state; a looper never leaves its loop.
TypeOK ==
  /\ \A t \in Threads : \A k \in 1..Len(stack[t]) :
       (IF k = 1 THEN "none" ELSE stack[t][k - 1].op) \in CallerOf(stack[t][k].op)
  /\ \A t \in Loopers : stack[t] # <<>> /\ Head(stack[t]) = LoopFrame
  /\ \A t \in Threads : \A k \in 1..Len(todo[t]) :
       todo[t][k].msg \in {"TRANSACTION", "REPLY", "DEAD_REPLY", "FAILED_REPLY", "NOSPC"}
  /\ \A t \in Threads : \A k \in 1..Len(kstack[t]) : kstack[t][k].dir \in {"in", "out"}
  /\ call \in [Calls -> {"unused", "sent", "full", "over"}]
  /\ owner \in [Calls -> Threads \cup {NoThread}]
  /\ result \in [Calls -> {"none", "error"} \cup Calls]
  /\ incoming \in [Incoming -> {"unused", "queued", "served", "answered", "refused"}]
  /\ locals \in 0..MaxLocal

\* transact_blocking: "Send a two-way transaction and wait for reply."  What a
\* call returns is the reply to that call and to no other.
ReplyMatchesCall == \A c \in Calls : result[c] \in {"none", "error", c}

\* So it is, whatever nests and with full buffers and reads ahead, as long as
\* peers address registered objects.
ReplyMatchesRegistered == "missing" \notin trouble => ReplyMatchesCall

\* The frames of a thread and the driver's transaction stack agree: what a
\* handler replies to is always the transaction on top, however deep calls and
\* transactions nest, so the driver never refuses a reply.
ReplyAccepted ==
  "missing" \notin trouble => \A i \in Incoming : incoming[i] # "refused"

\* The other half of transact_blocking: a call that was started returns, when
\* every peer answers and every handler returns.
CallReturns == \A c \in Calls : call[c] # "unused" ~> result[c] # "none"

\* So it does when there is room for it, and no read returns more than its own.
CallReturnsGivenRoom == trouble \subseteq {"missing"} => CallReturns

\* Every transaction that is queued for this process is answered, whatever it
\* and the calls of its handler nest in, as long as peers address registered
\* objects.
IncomingAnswered ==
  trouble = {} =>
    \A i \in Incoming : incoming[i] = "queued" ~> incoming[i] = "answered"
=============================================================================
