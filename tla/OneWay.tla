------------------------------- MODULE OneWay -------------------------------
(***************************************************************************)
(* One-way transactions between processes, and the looper threads that     *)
(* serve them.  Every process has a device and one registered object, and  *)
(* sends to the objects of others: its application threads send a script   *)
(* of messages (remote_transact_one_way), and the handler of a message may *)
(* send one on.                                                            *)
(*                                                                         *)
(* The driver is external.  It gives one-way payloads half of the target's *)
(* mapping, refuses what does not fit (BR_FAILED_REPLY with ENOSPC), and   *)
(* delivers the one-way transactions of a node one at a time: the next one *)
(* follows when the buffer of the last one is freed.  It asks a process    *)
(* for one more looper when a thread takes work and no other one waits.    *)
(***************************************************************************)
EXTENDS Integers, FiniteSets, Sequences, SequencesExt

CONSTANTS
  Procs,      \* processes
  Apps,       \* application threads that send
  Loopers,    \* looper threads
  Initial,    \* those that from_fd starts
  Home,       \* the process of each thread
  Msgs,       \* one-way transactions
  Target,     \* the process that a message goes to
  Size,       \* the room its payload takes
  Script,     \* the messages that an application thread sends, in order
  Forward,    \* the message that the handler of a message sends on, or None
  Space,      \* room for one-way payloads in a mapping
  Closing,    \* processes whose application drops its object and device
  MaxThreads, \* loopers the driver may ask a process for (SetMaxThreads)
  None

ASSUME ThreadsAssumption ==
  /\ IsFiniteSet(Loopers) /\ Initial \subseteq Loopers
  /\ Home \in [Apps \cup Loopers -> Procs]
  /\ Closing \subseteq Procs /\ MaxThreads \in [Procs -> Nat]
ASSUME MessagesAssumption ==
  /\ IsFiniteSet(Msgs) /\ None \notin Msgs
  /\ Target \in [Msgs -> Procs]
  /\ Space \in Nat /\ Size \in [Msgs -> 1..Space]
  /\ DOMAIN Script = Apps /\ \A a \in Apps : Script[a] \in Seq(Msgs)
  /\ Forward \in [Msgs -> Msgs \cup {None}]
\* A message stands for one call, so one thread sends it.
ASSUME SendersAssumption ==
  \A a \in Apps : \A m \in ToSet(Script[a]) :
    /\ \A b \in Apps \ {a} : m \notin ToSet(Script[b])
    /\ \A x \in Msgs : Forward[x] # m

VARIABLES
  early,      \* handlers drop their payload before they send
  device,     \* of each process: new, open, closed, unmapped
  object,     \* its object: unregistered, registered, dropped
  looper,     \* each looper: none, failed (not spawned), parked, fresh, reading,
              \* handling, discarding, exited
  serving,    \* the message it serves
  payload,    \* that message's payload is not dropped yet
  sent,       \* each message: unsent, writing, full, queued, ok, error
  async_todo, \* driver: messages a node may not deliver yet
  proc_todo,  \* driver: messages for the next looper of a process
  held,       \* driver: messages whose buffer is not freed
  requested,  \* driver: requested_threads
  registered, \* driver: requested_threads_started
  accepted,   \* history: messages in the order the driver took them
  settled     \* history: messages in the order they were handled or discarded

looper_vars == <<looper, serving, payload>>
queue_vars == <<async_todo, proc_todo, held, accepted>>
pool_vars == <<requested, registered>>
vars == <<early, device, object, looper_vars, sent, queue_vars, pool_vars, settled>>

LoopersOf(p) == {l \in Loopers : Home[l] = p}
Serves(l) == looper[l] \in {"handling", "discarding"}

\* Device.upgrade succeeds: the application holds the device, or a looper that
\* runs a message does.
Alive(p) == device[p] = "open" \/ \E l \in LoopersOf(p) : Serves(l)

\* Driver: the units of room taken in a mapping, how many they are, and whether the
\* node's current message is not freed yet.
Room(p) == UNION {{m} \X (1..Size[m]) : m \in held[p]}
Used(p) == Cardinality(Room(p))
Busy(p) == held[p] # ToSet(async_todo[p])

\* from_fd has mapped the fd and spawned its loopers, which busy-wait.
Init ==
  /\ early \in BOOLEAN
  /\ device = [p \in Procs |-> "new"]
  /\ object = [p \in Procs |-> "unregistered"]
  /\ looper = [l \in Loopers |-> IF l \in Initial THEN "parked" ELSE "none"]
  /\ serving = [l \in Loopers |-> None]
  /\ payload = [l \in Loopers |-> FALSE]
  /\ sent = [m \in Msgs |-> "unsent"]
  /\ async_todo = [p \in Procs |-> <<>>]
  /\ proc_todo = [p \in Procs |-> <<>>]
  /\ held = [p \in Procs |-> {}]
  /\ requested = [p \in Procs |-> 0]
  /\ registered = [p \in Procs |-> 0]
  /\ accepted = [p \in Procs |-> <<>>]
  /\ settled = [p \in Procs |-> <<>>]
-----------------------------------------------------------------------------
(* The device and its threads.                                             *)

\* The end of from_fd: SetMaxThreads, then started.
FinishFromFd(p) ==
  /\ device[p] = "new"
  /\ device' = [device EXCEPT ![p] = "open"]
  /\ UNCHANGED <<early, object, looper_vars, sent, queue_vars, pool_vars, settled>>

Register(p) ==
  /\ device[p] = "open" /\ object[p] = "unregistered"
  /\ object' = [object EXCEPT ![p] = "registered"]
  /\ UNCHANGED <<early, device, looper_vars, sent, queue_vars, pool_vars, settled>>

\* The object's handle is dropped: unlisted, though others still refer to it.
DropObject(p) ==
  /\ p \in Closing /\ object[p] = "registered"
  /\ object' = [object EXCEPT ![p] = "dropped"]
  /\ UNCHANGED <<early, device, looper_vars, sent, queue_vars, pool_vars, settled>>

\* The application drops its last reference to the device.  Objects and sends
\* in progress hold one.
Sending(p) ==
  \E a \in Apps : Home[a] = p /\ \E m \in ToSet(Script[a]) :
    sent[m] \in {"writing", "full", "queued"}
DropDevice(p) ==
  /\ p \in Closing /\ device[p] = "open" /\ object[p] # "registered" /\ ~Sending(p)
  /\ device' = [device EXCEPT ![p] = "closed"]
  /\ UNCHANGED <<early, object, looper_vars, sent, queue_vars, pool_vars, settled>>

\* The last reference is gone: the backing is unmapped.  The loopers keep the fd.
Unmap(p) ==
  /\ device[p] = "closed" /\ ~Alive(p)
  /\ device' = [device EXCEPT ![p] = "unmapped"]
  /\ UNCHANGED <<early, object, looper_vars, sent, queue_vars, pool_vars, settled>>

\* Faulty: it looks only once.
SeeStartedAtOnce(l) ==
  /\ looper[l] = "parked"
  /\ looper' = [looper EXCEPT ![l] = IF device[Home[l]] = "new" THEN "exited" ELSE "fresh"]
  /\ UNCHANGED <<early, device, object, serving, payload, sent, queue_vars, pool_vars, settled>>

\* A looper of from_fd sees started.
SeeStarted(l) ==
  /\ looper[l] = "parked" /\ device[Home[l]] # "new"
  /\ looper' = [looper EXCEPT ![l] = "fresh"]
  /\ UNCHANGED <<early, device, object, serving, payload, sent, queue_vars, pool_vars, settled>>

\* Faulty: every looper enters with BC_ENTER_LOOPER.
EnterLoopUncounted(l) ==
  /\ looper[l] = "fresh"
  /\ looper' = [looper EXCEPT ![l] = "reading"]
  /\ UNCHANGED <<early, device, object, serving, payload, sent, queue_vars, pool_vars, settled>>

\* The first write of looper: BC_ENTER_LOOPER, or BC_REGISTER_LOOPER when it was
\* spawned on request, which the driver counts.
EnterLoop(l) ==
  /\ looper[l] = "fresh"
  /\ looper' = [looper EXCEPT ![l] = "reading"]
  /\ IF l \in Initial THEN UNCHANGED pool_vars
     ELSE /\ requested' = [requested EXCEPT ![Home[l]] = @ - 1]
          /\ registered' = [registered EXCEPT ![Home[l]] = @ + 1]
  /\ UNCHANGED <<early, device, object, serving, payload, sent, queue_vars, settled>>

\* Every read of process p may bring BR_SPAWN_LOOPER first, and does when no looper
\* waits in the driver (one that is about to read does not wait yet): one more
\* thread, if it can be spawned; nobody looks at the result.  ls are the loopers after
\* the rest of that read.
ReadWith(p, ls) ==
  \/ /\ \/ requested[p] = 1 \/ registered[p] = MaxThreads[p]
        \/ \E k \in LoopersOf(p) : ls[k] = "reading"
     /\ looper' = ls
     /\ UNCHANGED requested
  \/ /\ requested[p] = 0 /\ registered[p] < MaxThreads[p]
     /\ requested' = [requested EXCEPT ![p] = 1]
     /\ \E k \in LoopersOf(p), s \in {"fresh", "failed"} :
          ls[k] = "none" /\ looper' = [ls EXCEPT ![k] = s]

\* A looper reads a message.  Without a device it leaves the loop, and whatever it
\* read is lost; without a handler it drops the payload only.
Read(l) ==
  LET p == Home[l] IN
  /\ looper[l] = "reading" /\ proc_todo[p] # <<>>
  /\ proc_todo' = [proc_todo EXCEPT ![p] = Tail(@)]
  /\ IF ~Alive(p)
     THEN /\ looper' = [looper EXCEPT ![l] = "exited"]
          /\ UNCHANGED <<serving, payload, settled, requested>>
     ELSE /\ serving' = [serving EXCEPT ![l] = Head(proc_todo[p])]
          /\ payload' = [payload EXCEPT ![l] = TRUE]
          /\ IF object[p] = "registered"
             THEN /\ ReadWith(p, [looper EXCEPT ![l] = "handling"])
                  /\ UNCHANGED settled
             ELSE /\ ReadWith(p, [looper EXCEPT ![l] = "discarding"])
                  /\ settled' = [settled EXCEPT ![p] = Append(@, Head(proc_todo[p]))]
  /\ UNCHANGED <<early, device, object, sent, async_todo, held, accepted, registered>>
-----------------------------------------------------------------------------
(* Handlers.                                                               *)

\* handle_one_way copies the data out, or uses it in place.
Handled(l) == serving[l] \in ToSet(settled[Home[l]])
Handle(l) ==
  /\ looper[l] = "handling" /\ ~Handled(l)
  /\ settled' = [settled EXCEPT ![Home[l]] = Append(@, serving[l])]
  /\ UNCHANGED <<early, device, object, looper_vars, sent, queue_vars, pool_vars>>

\* The message that a handler still has to send, to an object it knows.
Published(p) == object[p] # "unregistered"
ToForward(l) ==
  {m \in {Forward[serving[l]]} \ {None} : sent[m] = "unsent" /\ Published(Target[m])}
Forwarding(l) ==
  Forward[serving[l]] # None /\ sent[Forward[serving[l]]] \in {"writing", "full", "queued"}

ForwardOn(l) ==
  /\ looper[l] = "handling" /\ Handled(l)
  /\ early => ~payload[l]
  /\ \E m \in ToForward(l) : sent' = [sent EXCEPT ![m] = "writing"]
  /\ UNCHANGED <<early, device, object, looper_vars, queue_vars, pool_vars, settled>>

\* BC_FREE_BUFFER; the driver then delivers the node's next message.
FreeBuffer(p, m) ==
  /\ held' = [held EXCEPT ![p] = @ \ {m}]
  /\ IF async_todo[p] = <<>> THEN UNCHANGED <<async_todo, proc_todo>>
     ELSE /\ async_todo' = [async_todo EXCEPT ![p] = Tail(@)]
          /\ proc_todo' = [proc_todo EXCEPT ![p] = Append(@, Head(async_todo[p]))]

\* Faulty: the reader is dropped before the handler is done with the data.
DropPayloadUnhandled(l) ==
  /\ payload[l]
  /\ payload' = [payload EXCEPT ![l] = FALSE]
  /\ FreeBuffer(Home[l], serving[l])
  /\ UNCHANGED <<early, device, object, looper, serving, sent, accepted, pool_vars, settled>>

\* Faulty: without a handler no reader is made.
DropPayloadHandled(l) ==
  /\ payload[l]
  /\ looper[l] = "handling" =>
       Handled(l) /\ (early \/ (ToForward(l) = {} /\ ~Forwarding(l)))
  /\ payload' = [payload EXCEPT ![l] = FALSE]
  /\ IF looper[l] = "handling" THEN FreeBuffer(Home[l], serving[l])
     ELSE UNCHANGED <<held, async_todo, proc_todo>>
  /\ UNCHANGED <<early, device, object, looper, serving, sent, accepted, pool_vars, settled>>

\* The payload is dropped: at once, by a handler that heeds the doc; when the
\* handler returns, otherwise.
DropPayload(l) ==
  /\ payload[l]
  /\ looper[l] = "handling" =>
       Handled(l) /\ (early \/ (ToForward(l) = {} /\ ~Forwarding(l)))
  /\ payload' = [payload EXCEPT ![l] = FALSE]
  /\ FreeBuffer(Home[l], serving[l])
  /\ UNCHANGED <<early, device, object, looper, serving, sent, accepted, pool_vars, settled>>

\* Faulty: the reader outlives the message.
ReturnWithPayload(l) ==
  /\ Serves(l)
  /\ looper[l] = "handling" => Handled(l) /\ ToForward(l) = {} /\ ~Forwarding(l)
  /\ looper' = [looper EXCEPT ![l] = "reading"]
  /\ serving' = [serving EXCEPT ![l] = None]
  /\ UNCHANGED <<early, device, object, payload, sent, queue_vars, pool_vars, settled>>

\* Faulty: ObjectNotFound ends the loop.
ReturnIfFound(l) ==
  /\ Serves(l) /\ ~payload[l]
  /\ looper[l] = "handling" => ToForward(l) = {} /\ ~Forwarding(l)
  /\ looper' = [looper EXCEPT ![l] = IF @ = "handling" THEN "reading" ELSE "exited"]
  /\ serving' = [serving EXCEPT ![l] = None]
  /\ UNCHANGED <<early, device, object, payload, sent, queue_vars, pool_vars, settled>>

\* Back to the loop of looper.
Return(l) ==
  /\ Serves(l) /\ ~payload[l]
  /\ looper[l] = "handling" => ToForward(l) = {} /\ ~Forwarding(l)
  /\ looper' = [looper EXCEPT ![l] = "reading"]
  /\ serving' = [serving EXCEPT ![l] = None]
  /\ UNCHANGED <<early, device, object, payload, sent, queue_vars, pool_vars, settled>>
-----------------------------------------------------------------------------
(* Senders: remote_transact_one_way.                                       *)

\* An application thread starts on the next message of its script.
Begin(a) ==
  /\ device[Home[a]] = "open"
  /\ \E k \in 1..Len(Script[a]) :
       /\ sent[Script[a][k]] = "unsent" /\ Published(Target[Script[a][k]])
       /\ \A j \in 1..(k - 1) : sent[Script[a][j]] \in {"ok", "error"}
       /\ sent' = [sent EXCEPT ![Script[a][k]] = "writing"]
  /\ UNCHANGED <<early, device, object, looper_vars, queue_vars, pool_vars, settled>>

\* The ioctl.  The driver takes the message, refuses it for want of room, or finds
\* no mapping (BR_DEAD_REPLY).
Write(m) ==
  LET p == Target[m] IN
  /\ sent[m] = "writing"
  /\ \/ /\ device[p] = "unmapped"
        /\ sent' = [sent EXCEPT ![m] = "error"]
        /\ UNCHANGED queue_vars
     \/ /\ device[p] # "unmapped" /\ Used(p) + Size[m] > Space
        /\ sent' = [sent EXCEPT ![m] = "full"]
        /\ UNCHANGED queue_vars
     \/ /\ device[p] # "unmapped" /\ Used(p) + Size[m] <= Space
        /\ sent' = [sent EXCEPT ![m] = "queued"]
        /\ held' = [held EXCEPT ![p] = @ \cup {m}]
        /\ accepted' = [accepted EXCEPT ![p] = Append(@, m)]
        /\ IF Busy(p)
           THEN /\ async_todo' = [async_todo EXCEPT ![p] = Append(@, m)]
                /\ UNCHANGED proc_todo
           ELSE /\ proc_todo' = [proc_todo EXCEPT ![p] = Append(@, m)]
                /\ UNCHANGED async_todo
  /\ UNCHANGED <<early, device, object, looper_vars, pool_vars, settled>>

\* The process of the thread that sends m.
SenderOf(m) ==
  Home[CHOOSE t \in Apps \cup Loopers :
         \/ t \in Apps /\ m \in ToSet(Script[t])
         \/ t \in Loopers /\ Serves(t) /\ Forward[serving[t]] = m]

\* Faulty: a full buffer fails the send.
RetryFails(m) ==
  /\ sent[m] = "full"
  /\ sent' = [sent EXCEPT ![m] = "error"]
  /\ ReadWith(SenderOf(m), looper)
  /\ UNCHANGED <<early, device, object, serving, payload, queue_vars, registered, settled>>

\* Faulty: only the read is repeated.
RetryReads(m) ==
  /\ sent[m] = "full"
  /\ ReadWith(SenderOf(m), looper)
  /\ UNCHANGED <<early, device, object, sent, serving, payload, queue_vars, registered, settled>>

\* AsyncBufferFull: yield, and write the same bytes again.
Retry(m) ==
  /\ sent[m] = "full"
  /\ sent' = [sent EXCEPT ![m] = "writing"]
  /\ ReadWith(SenderOf(m), looper)
  /\ UNCHANGED <<early, device, object, serving, payload, queue_vars, registered, settled>>

\* Anything else that the read returned: Ok.
ReturnOk(m) ==
  /\ sent[m] = "queued"
  /\ sent' = [sent EXCEPT ![m] = "ok"]
  /\ ReadWith(SenderOf(m), looper)
  /\ UNCHANGED <<early, device, object, serving, payload, queue_vars, registered, settled>>
-----------------------------------------------------------------------------
LooperNext(l) ==
  \/ SeeStarted(l) \/ EnterLoop(l) \/ Read(l)
  \/ Handle(l) \/ ForwardOn(l) \/ DropPayload(l) \/ Return(l)
SendNext(m) == Write(m) \/ Retry(m) \/ ReturnOk(m)
DeviceNext(p) == FinishFromFd(p) \/ Register(p) \/ DropObject(p) \/ DropDevice(p) \/ Unmap(p)

Next ==
  \/ \E p \in Procs : DeviceNext(p)
  \/ \E l \in Loopers : LooperNext(l)
  \/ \E a \in Apps : Begin(a)
  \/ \E m \in Msgs : SendNext(m)

Spec == Init /\ [][Next]_vars

\* Loopers and sends run on, and so does the destructor of the device.  Loopers and
\* destructors take finitely many steps, so that none of them is passed over for ever;
\* a send may retry without end.  Nobody has to send, to register or to drop anything.
Fairness ==
  /\ WF_vars((\E l \in Loopers : LooperNext(l)) \/ (\E p \in Procs : Unmap(p)))
  /\ \A m \in Msgs : WF_vars(SendNext(m))

FairSpec == Spec /\ Fairness
-----------------------------------------------------------------------------
(* Properties.                                                             *)

TypeOK ==
  /\ device \in [Procs -> {"new", "open", "closed", "unmapped"}]
  /\ object \in [Procs -> {"unregistered", "registered", "dropped"}]
  /\ looper \in [Loopers -> {"none", "failed", "parked", "fresh", "reading",
                             "handling", "discarding", "exited"}]
  /\ \A l \in Loopers : IF Serves(l) THEN serving[l] \in Msgs
                        ELSE serving[l] = None /\ ~payload[l]
  /\ sent \in [Msgs -> {"unsent", "writing", "full", "queued", "ok", "error"}]
  /\ \A p \in Procs : held[p] \subseteq Msgs /\ Used(p) \in 0..Space
  /\ requested \in [Procs -> 0..1]
  /\ \A p \in Procs : registered[p] \in 0..MaxThreads[p]

\* How far the call of each message is, for its caller.
CallOf ==
  [m \in Msgs |-> CASE sent[m] \in {"writing", "full"} -> "waiting"
                    [] sent[m] = "queued" -> "taken"
                    [] OTHER -> sent[m]]

Gone == {p \in Procs : device[p] = "unmapped"}

Box == INSTANCE Mailbox WITH
  call <- CallOf, taken <- accepted, used <- settled, gone <- Gone

\* Objects are mailboxes.  Their payloads are used once, in the order in which the
\* driver took them, whichever loopers read them and although handlers run side by
\* side; never after the mapping is gone, and their room is not given away before.
\* A retry neither sends again what the driver took nor gives up what it may take.
ActsAsMailbox == Box!Spec

\* "Create payload_reader before the handler lookup so its Drop always sends
\* FREE_BUFFER": while a device lives, a buffer is queued or some looper owns it.
NothingLeaks ==
  \A p \in Procs : Alive(p) =>
    \A m \in held[p] :
      \/ m \in ToSet(async_todo[p]) \cup ToSet(proc_todo[p])
      \/ \E l \in LoopersOf(p) : payload[l] /\ serving[l] = m

\* Whatever a looper reads, it goes on while its device lives.
LoopersStay == \A l \in Loopers : looper[l] = "exited" => ~Alive(Home[l])

\* The driver's two counters agree with the threads that the process started on
\* its request, so that a request is never outstanding without a thread to
\* answer it, or one that could not be spawned.
PoolAccounted ==
  \A p \in Procs : Alive(p) =>
    LET more == LoopersOf(p) \ Initial IN
    /\ requested[p] = Cardinality({l \in more : looper[l] \in {"fresh", "failed"}})
    /\ registered[p] =
         Cardinality({l \in more : looper[l] \notin {"none", "fresh", "failed"}})

\* Every looper that a process has is in a send of its handler.
AllSending(p) ==
  \A l \in LoopersOf(p) :
    looper[l] \in {"none", "failed"} \/ (looper[l] = "handling" /\ Forwarding(l))

\* The doc of handle_one_way: drop the payload, "else this will cause deadlocks and
\* freeze".  If handlers drop it before they send, each send returns in the end, also
\* one into a full buffer, while full buffers face each other, or into a process that
\* goes away; it yields for ever only if its target has no looper but in sends.
SendReturns ==
  <>[](early => \A m \in Msgs :
         sent[m] \notin {"writing", "full"} \/ AllSending(Target[m]))

\* And what was sent has been handled or discarded in the end, unless its target went
\* away, or has no looper left for it.
Delivered ==
  <>[](early => \A m \in Msgs :
         sent[m] = "ok" => \/ m \in ToSet(settled[Target[m]])
                           \/ device[Target[m]] # "open"
                           \/ AllSending(Target[m]))
=============================================================================
