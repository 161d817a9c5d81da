--------------------------- MODULE TransactProofs ---------------------------
(***************************************************************************)
(* The frames of a thread and the driver's transaction stack agree, however*)
(* deep calls and transactions nest: so the driver refuses no reply, and a *)
(* call returns the reply to that call.  For every set of threads, calls   *)
(* and transactions.                                                       *)
(***************************************************************************)
EXTENDS Transact, TLAPS, SequenceTheorems

\* What a frame, a message and an entry of the driver's stack are about.
Frames ==
  {Frame("loop", NoThread), Frame("local", NoThread)}
    \cup {Frame("call", c) : c \in Calls}
    \cup {Frame(op, i) : op \in {"serve", "reply"}, i \in Incoming}
Messages ==
  {Message(m, c) : m \in {"REPLY", "DEAD_REPLY", "FAILED_REPLY", "NOSPC"}, c \in Calls}
    \cup {Message(m, i) : m \in {"TRANSACTION", "FAILED_REPLY"}, i \in Incoming}
Entries == {Entry("out", c) : c \in Calls} \cup {Entry("in", i) : i \in Incoming}

\* What a frame is called from, and that a looper never leaves its loop.
StackOK ==
  /\ stack \in [Threads -> Seq(Frames)]
  /\ \A t \in Threads : \A k \in 1..Len(stack[t]) :
       (IF k = 1 THEN "none" ELSE stack[t][k - 1].op) \in CallerOf(stack[t][k].op)
  /\ \A t \in Loopers : stack[t] # <<>> /\ stack[t][1] = LoopFrame

\* The shape of the rest of the state.
KernelOK ==
  /\ todo \in [Threads -> Seq(Messages)]
  /\ kstack \in [Threads -> Seq(Entries)]
  /\ proc_todo \in Seq(Incoming)
  /\ call \in [Calls -> {"unused", "sent", "full", "over"}]
  /\ owner \in [Calls -> Threads \cup {NoThread}]
  /\ incoming \in [Incoming -> {"unused", "queued", "served", "answered", "refused"}]
  /\ nested \in [Incoming -> SUBSET Calls] /\ missing \subseteq Incoming
Shape ==
  /\ StackOK /\ KernelOK
  /\ result \in [Calls -> {"none", "error"} \cup Calls]
  /\ locals \in 0..MaxLocal

\* An entry of the driver's stack stands for a frame: a transaction that is served, or a
\* call that is not answered yet.
Match(e, f) == f = Frame(IF e.dir = "in" THEN "serve" ELSE "call", e.id)
Counts(f) == f.op = "serve" \/ (f.op = "call" /\ call[f.id] = "sent")

\* The driver's stack of a thread holds just the frames that count, in the same order.
Agrees(t) ==
  /\ \A a \in 1..Len(kstack[t]) : kstack[t][a].dir = "out" => call[kstack[t][a].id] = "sent"
  /\ \A a \in 1..Len(kstack[t]) : \E k \in 1..Len(stack[t]) : Match(kstack[t][a], stack[t][k])
  /\ \A k \in 1..Len(stack[t]) :
       Counts(stack[t][k]) => \E a \in 1..Len(kstack[t]) : Match(kstack[t][a], stack[t][k])
  /\ \A a, b \in 1..Len(kstack[t]), j, k \in 1..Len(stack[t]) :
       Match(kstack[t][a], stack[t][j]) /\ Match(kstack[t][b], stack[t][k])
         => (a < b <=> j < k)

\* Every call in progress is a frame of its thread, and so is every transaction served.
FrameOK(t) ==
  \A k \in 1..Len(stack[t]) :
    /\ stack[t][k].op = "call" => call[stack[t][k].id] # "unused" /\ owner[stack[t][k].id] = t
    /\ stack[t][k].op = "serve" => incoming[stack[t][k].id] = "served"
HasFrame(c) == \E k \in 1..Len(stack[owner[c]]) : stack[owner[c]][k] = Frame("call", c)
SentInv == \A c \in Calls : call[c] = "sent" => owner[c] \in Threads /\ HasFrame(c)

\* One thread serves a transaction.
OneServer ==
  \A t, u \in Threads : \A j \in 1..Len(stack[t]), k \in 1..Len(stack[u]) :
    stack[t][j].op = "serve" /\ stack[u][k] = stack[t][j] => t = u

\* Above a call that waits for its answer are only replies that are written, or on those
\* the transaction that its peer has sent, unanswered.
RepliesAbove(t, k, j) == \A n \in (k + 1)..(j - 1) : stack[t][n].op = "reply"
TopCall(t, k) == stack[t][k].op = "call" /\ RepliesAbove(t, k, Len(stack[t]) + 1)
NestsIn(t, k, j) ==
  /\ RepliesAbove(t, k, j) /\ stack[t][j].op = "serve"
  /\ nested[stack[t][j].id] = {stack[t][k].id}
NestOK(t) ==
  \A k \in 1..Len(stack[t]) :
    stack[t][k].op = "call" /\ call[stack[t][k].id] = "sent" =>
      TopCall(t, k) \/ \E j \in (k + 1)..Len(stack[t]) : NestsIn(t, k, j)

\* A thread has one message at most, which is for its innermost call.
MessageFor(m, c) ==
  CASE m.msg = "TRANSACTION" ->
         call[c] = "sent" /\ nested[m.id] = {c} /\ incoming[m.id] = "queued"
    [] m.msg = "NOSPC" -> m.id = c /\ call[c] = "full"
    [] OTHER -> m.id = c /\ call[c] = "over"
TodoOK(t) ==
  todo[t] # <<>> =>
    /\ Len(todo[t]) = 1
    /\ \E k \in 1..Len(stack[t]) : TopCall(t, k) /\ MessageFor(todo[t][1], stack[t][k].id)

ThreadInv(t) == Agrees(t) /\ FrameOK(t) /\ NestOK(t) /\ TodoOK(t)

\* A transaction for the process is there once, and is nested in no call.
ProcInv ==
  /\ \A a \in 1..Len(proc_todo) :
       /\ incoming[proc_todo[a]] = "queued" /\ nested[proc_todo[a]] = {}
       /\ \A b \in 1..Len(proc_todo) : proc_todo[a] = proc_todo[b] => a = b
  /\ \A i \in Incoming : incoming[i] = "unused" => nested[i] = {}

NestedInv ==
  /\ \A t \in Threads : ThreadInv(t)
  /\ SentInv /\ OneServer /\ ProcInv
  /\ missing = {} /\ ReplyMatchesCall /\ \A i \in Incoming : incoming[i] # "refused"

\* With a transaction for an object that is not registered, none of this holds.
IInv == Shape /\ ("missing" \notin trouble => NestedInv)
-----------------------------------------------------------------------------
(* Sequences.                                                              *)

\* One element more at the end.
LEMMA PushFacts ==
  ASSUME NEW S, NEW s \in Seq(S), NEW x \in S
  PROVE  /\ Append(s, x) \in Seq(S) /\ Len(Append(s, x)) = Len(s) + 1
         /\ \A k \in 1..Len(s) : Append(s, x)[k] = s[k]
         /\ Append(s, x)[Len(s) + 1] = x
BY AppendProperties

\* The last element, and what is left without it.
LEMMA PopFacts ==
  ASSUME NEW S, NEW s \in Seq(S), s # <<>>
  PROVE  /\ Len(s) \in Nat /\ Len(s) >= 1 /\ Last(s) = s[Len(s)] /\ Last(s) \in S
         /\ Front(s) \in Seq(S) /\ Len(Front(s)) = Len(s) - 1
         /\ \A k \in 1..(Len(s) - 1) : Front(s)[k] = s[k]
<1>1. Len(s) \in Nat /\ Len(s) # 0
  BY LenProperties, EmptySeq
<1>2. Last(s) = s[Len(s)] /\ Last(s) \in S
  BY <1>1, ElementOfSeq DEF Last
<1>3. \A k \in 1..(Len(s) - 1) : k \in 1..Len(s) /\ s[k] \in S
  BY <1>1, ElementOfSeq
<1>4. /\ SubSeq(s, 1, Len(s) - 1) \in Seq(S)
      /\ Len(SubSeq(s, 1, Len(s) - 1)) =
           (IF 1 <= Len(s) - 1 THEN Len(s) - 1 - 1 + 1 ELSE 0)
      /\ \A k \in 1..(Len(s) - 1 - 1 + 1) : SubSeq(s, 1, Len(s) - 1)[k] = s[1 + k - 1]
  <2>1. \A k \in 1..(Len(s) - 1) : s[k] \in S
    BY <1>3
  <2>2. 1 \in Int /\ Len(s) - 1 \in Int
    BY <1>1
  <2>3. QED
    BY <1>1, <2>1, <2>2, SubSeqProperties
<1>5. /\ (IF 1 <= Len(s) - 1 THEN Len(s) - 1 - 1 + 1 ELSE 0) = Len(s) - 1
      /\ Len(s) - 1 - 1 + 1 = Len(s) - 1
      /\ \A k \in 1..(Len(s) - 1) : 1 + k - 1 = k
  BY <1>1
<1>6. Front(s) = SubSeq(s, 1, Len(s) - 1) /\ Len(s) >= 1
  BY <1>1 DEF Front
<1>7. /\ Front(s) \in Seq(S) /\ Len(Front(s)) = Len(s) - 1
      /\ \A k \in 1..(Len(s) - 1) : Front(s)[k] = s[k]
  BY <1>4, <1>5, <1>6
<1>8. QED
  BY <1>1, <1>2, <1>6, <1>7

\* A queue without its first message.
LEMMA TailFacts ==
  ASSUME NEW S, NEW s \in Seq(S), s # <<>>
  PROVE  /\ Len(s) \in Nat /\ Len(s) >= 1 /\ Head(s) = s[1] /\ Head(s) \in S
         /\ Tail(s) \in Seq(S) /\ Len(Tail(s)) = Len(s) - 1
         /\ \A k \in 1..(Len(s) - 1) : Tail(s)[k] = s[k + 1]
<1>1. Len(s) \in Nat /\ Len(s) # 0
  BY LenProperties, EmptySeq
<1>2. QED
  BY <1>1, HeadTailProperties
-----------------------------------------------------------------------------
(* The shape of the state.                                                 *)

\* The frame that runs.
LEMMA RunningFacts ==
  ASSUME StackOK, NEW t \in Threads
  PROVE  /\ stack[t] \in Seq(Frames) /\ Len(stack[t]) \in Nat
         /\ stack[t] = <<>> <=> Len(stack[t]) = 0
         /\ Running(t) = "app" <=> stack[t] = <<>>
         /\ stack[t] # <<>> => /\ Last(stack[t]) = stack[t][Len(stack[t])]
                               /\ Last(stack[t]) \in Frames
                               /\ Running(t) = stack[t][Len(stack[t])].op
<1>1. stack[t] \in Seq(Frames) /\ Len(stack[t]) \in Nat
  BY LenProperties DEF StackOK
<1>2. stack[t] = <<>> <=> Len(stack[t]) = 0
  BY <1>1, EmptySeq
<1>3. stack[t] # <<>> => Last(stack[t]) = stack[t][Len(stack[t])] /\ Last(stack[t]) \in Frames
  BY <1>1, PopFacts
<1>4. \A f \in Frames : f.op # "app"
  BY DEF Frames, Frame
<1>5. QED
  BY <1>1, <1>2, <1>3, <1>4 DEF Running

\* A frame is called from one that may call it.
LEMMA PushStack ==
  ASSUME StackOK, NEW t \in Threads, NEW f \in Frames, Push(t, f),
         IF stack[t] = <<>> THEN "none" \in CallerOf(f.op)
                            ELSE Last(stack[t]).op \in CallerOf(f.op)
  PROVE  /\ StackOK'
         /\ stack'[t] \in Seq(Frames) /\ Len(stack'[t]) = Len(stack[t]) + 1
         /\ \A k \in 1..Len(stack[t]) : stack'[t][k] = stack[t][k]
         /\ stack'[t][Len(stack[t]) + 1] = f
         /\ \A u \in Threads \ {t} : stack'[u] = stack[u]
<1> DEFINE s == stack[t]
           r == stack'[t]
<1>1. r = Append(s, f) /\ \A u \in Threads \ {t} : stack'[u] = stack[u]
  BY DEF Push, StackOK
<1>2. /\ s \in Seq(Frames) /\ Len(s) \in Nat
      /\ s = <<>> <=> Len(s) = 0
      /\ s # <<>> => Last(s) = s[Len(s)]
  BY RunningFacts
<1>3. /\ r \in Seq(Frames) /\ Len(r) = Len(s) + 1
      /\ \A k \in 1..Len(s) : r[k] = s[k]
      /\ r[Len(s) + 1] = f
  <2>1. s \in Seq(Frames)
    BY <1>2
  <2>2. /\ Append(s, f) \in Seq(Frames) /\ Len(Append(s, f)) = Len(s) + 1
        /\ \A k \in 1..Len(s) : Append(s, f)[k] = s[k]
        /\ Append(s, f)[Len(s) + 1] = f
    BY <2>1, PushFacts
  <2>3. QED
    BY <1>1, <2>2
<1>4. stack' \in [Threads -> Seq(Frames)]
  BY <1>1, <1>3 DEF Push, StackOK
<1>5. \A k \in 1..Len(r) : (IF k = 1 THEN "none" ELSE r[k - 1].op) \in CallerOf(r[k].op)
  <2>1. \A k \in 1..Len(s) : (IF k = 1 THEN "none" ELSE s[k - 1].op) \in CallerOf(s[k].op)
    BY DEF StackOK
  <2>2. SUFFICES ASSUME NEW k \in 1..Len(r)
                 PROVE  (IF k = 1 THEN "none" ELSE r[k - 1].op) \in CallerOf(r[k].op)
    OBVIOUS
  <2>3. CASE k \in 1..Len(s)
    <3>1. k # 1 => k - 1 \in 1..Len(s)
      BY <1>2, <2>3
    <3>2. r[k] = s[k] /\ (k # 1 => r[k - 1] = s[k - 1])
      BY <1>3, <2>3, <3>1
    <3>3. QED
      BY <2>1, <2>3, <3>2
  <2>4. CASE k = Len(s) + 1
    <3>1. k # 1 => Len(s) \in 1..Len(s) /\ k - 1 = Len(s)
      BY <1>2, <2>4
    <3>2. r[k] = f /\ (k # 1 => s # <<>> /\ r[k - 1] = Last(s))
      BY <1>2, <1>3, <2>4, <3>1
    <3>3. k = 1 => s = <<>>
      BY <1>2, <2>4
    <3>4. QED
      BY <3>2, <3>3
  <2>5. QED
    BY <1>2, <1>3, <2>3, <2>4
<1>6. t \in Loopers => r # <<>> /\ r[1] = LoopFrame
  <2>1. t \in Loopers => 1 \in 1..Len(s) /\ s[1] = LoopFrame
    BY <1>2 DEF StackOK
  <2>2. r # <<>>
    BY <1>2, <1>3, EmptySeq
  <2>3. QED
    BY <1>3, <2>1, <2>2
<1>7. StackOK'
  BY <1>1, <1>4, <1>5, <1>6 DEF StackOK, Threads
<1>8. QED
  BY <1>1, <1>3, <1>7

\* Another frame than a looper's own is left.
LEMMA PopStack ==
  ASSUME StackOK, NEW t \in Threads, Pop(t), Running(t) \notin {"app", "loop"}
  PROVE  /\ StackOK'
         /\ stack'[t] \in Seq(Frames) /\ Len(stack'[t]) = Len(stack[t]) - 1
         /\ \A k \in 1..(Len(stack[t]) - 1) : stack'[t][k] = stack[t][k]
         /\ \A u \in Threads \ {t} : stack'[u] = stack[u]
<1> DEFINE s == stack[t]
           r == stack'[t]
<1>1. r = Front(s) /\ \A u \in Threads \ {t} : stack'[u] = stack[u]
  BY DEF Pop, StackOK
<1>2. /\ s \in Seq(Frames) /\ Len(s) \in Nat /\ s # <<>> /\ Len(s) >= 1
      /\ s[Len(s)].op # "loop"
  BY RunningFacts
<1>3. /\ r \in Seq(Frames) /\ Len(r) = Len(s) - 1
      /\ \A k \in 1..(Len(s) - 1) : r[k] = s[k]
  <2>1. /\ Front(s) \in Seq(Frames) /\ Len(Front(s)) = Len(s) - 1
        /\ \A k \in 1..(Len(s) - 1) : Front(s)[k] = s[k]
    BY <1>2, PopFacts
  <2>2. QED
    BY <1>1, <2>1
<1>4. stack' \in [Threads -> Seq(Frames)]
  BY <1>1, <1>3 DEF Pop, StackOK
<1>5. \A k \in 1..Len(r) : (IF k = 1 THEN "none" ELSE r[k - 1].op) \in CallerOf(r[k].op)
  <2>1. \A k \in 1..Len(s) : (IF k = 1 THEN "none" ELSE s[k - 1].op) \in CallerOf(s[k].op)
    BY DEF StackOK
  <2>2. \A k \in 1..Len(r) : /\ k \in 1..Len(s) /\ r[k] = s[k]
                             /\ k # 1 => r[k - 1] = s[k - 1]
    BY <1>2, <1>3
  <2>3. QED
    BY <2>1, <2>2
<1>6. t \in Loopers => r # <<>> /\ r[1] = LoopFrame
  <2>1. t \in Loopers => s[1] = LoopFrame /\ LoopFrame.op = "loop"
    BY DEF StackOK, LoopFrame, Frame
  <2>2. t \in Loopers => Len(s) # 1
    BY <1>2, <2>1
  <2>3. Len(s) # 1 => 1 \in 1..(Len(s) - 1) /\ Len(r) # 0
    <3>1. \A n \in Nat : n >= 1 /\ n # 1 => 1 \in 1..(n - 1) /\ n - 1 # 0
      OBVIOUS
    <3>2. Len(s) \in Nat /\ Len(s) >= 1 /\ Len(r) = Len(s) - 1
      BY <1>2, <1>3
    <3>3. QED
      BY <3>1, <3>2
  <2>4. QED
    BY <1>3, <2>1, <2>2, <2>3, EmptySeq
<1>7. StackOK'
  BY <1>1, <1>4, <1>5, <1>6 DEF StackOK, Threads
<1>8. QED
  BY <1>1, <1>3, <1>7

\* A handler's frame becomes that of its reply.
LEMMA TopStack ==
  ASSUME StackOK, NEW t \in Threads, NEW i \in Incoming, Top(t, Frame("reply", i)),
         Running(t) = "serve"
  PROVE  /\ StackOK'
         /\ stack'[t] \in Seq(Frames) /\ Len(stack'[t]) = Len(stack[t])
         /\ \A k \in 1..(Len(stack[t]) - 1) : stack'[t][k] = stack[t][k]
         /\ stack'[t][Len(stack[t])] = Frame("reply", i)
         /\ \A u \in Threads \ {t} : stack'[u] = stack[u]
<1> DEFINE s == stack[t]
           r == stack'[t]
           f == Frame("reply", i)
<1>1. r = Append(Front(s), f) /\ \A u \in Threads \ {t} : stack'[u] = stack[u]
  BY DEF Top, StackOK
<1>2. /\ s \in Seq(Frames) /\ Len(s) \in Nat /\ s # <<>> /\ Len(s) >= 1
      /\ s[Len(s)].op = "serve"
  BY RunningFacts
<1>3. /\ Front(s) \in Seq(Frames) /\ Len(Front(s)) = Len(s) - 1
      /\ \A k \in 1..(Len(s) - 1) : Front(s)[k] = s[k]
  BY <1>2, PopFacts
<1>4. f \in Frames /\ f.op = "reply"
  BY DEF Frames, Frame
<1>5. /\ r \in Seq(Frames) /\ Len(r) = Len(s)
      /\ \A k \in 1..(Len(s) - 1) : r[k] = s[k]
      /\ r[Len(s)] = f
  <2>1. /\ r \in Seq(Frames) /\ Len(r) = Len(Front(s)) + 1
        /\ \A k \in 1..Len(Front(s)) : r[k] = Front(s)[k]
        /\ r[Len(Front(s)) + 1] = f
    BY <1>1, <1>3, <1>4, PushFacts
  <2>2. QED
    BY <1>2, <1>3, <2>1
<1>6. stack' \in [Threads -> Seq(Frames)]
  BY <1>1, <1>5 DEF Top, StackOK
<1>7. \A k \in 1..Len(r) : (IF k = 1 THEN "none" ELSE r[k - 1].op) \in CallerOf(r[k].op)
  <2>1. \A k \in 1..Len(s) : (IF k = 1 THEN "none" ELSE s[k - 1].op) \in CallerOf(s[k].op)
    BY DEF StackOK
  <2>2. CallerOf("reply") = CallerOf("serve")
    BY DEF CallerOf
  <2>3. \A k \in 1..Len(r) : /\ k \in 1..Len(s) /\ CallerOf(r[k].op) = CallerOf(s[k].op)
                             /\ k # 1 => r[k - 1] = s[k - 1]
    BY <1>2, <1>4, <1>5, <2>2
  <2>4. QED
    BY <2>1, <2>3
<1>8. t \in Loopers => r # <<>> /\ r[1] = LoopFrame
  <2>1. t \in Loopers => s[1] = LoopFrame /\ LoopFrame.op = "loop"
    BY DEF StackOK, LoopFrame, Frame
  <2>2. t \in Loopers => Len(s) # 1
    BY <1>2, <2>1
  <2>3. Len(s) # 1 => 1 \in 1..(Len(s) - 1)
    <3>1. \A n \in Nat : n >= 1 /\ n # 1 => 1 \in 1..(n - 1)
      OBVIOUS
    <3>2. Len(s) \in Nat /\ Len(s) >= 1
      BY <1>2
    <3>3. QED
      BY <3>1, <3>2
  <2>4. r # <<>>
    BY <1>2, <1>5, EmptySeq
  <2>5. QED
    BY <1>5, <2>1, <2>2, <2>3, <2>4
<1>9. StackOK'
  BY <1>1, <1>6, <1>7, <1>8 DEF StackOK, Threads
<1>10. QED
  BY <1>1, <1>5, <1>9
-----------------------------------------------------------------------------
(* The driver's queues.                                                    *)

\* A message for a thread.
LEMMA QueueFacts ==
  ASSUME KernelOK, NEW u, NEW m \in Messages, Queue(u, m)
  PROVE  /\ todo' \in [Threads -> Seq(Messages)]
         /\ u \in Threads => todo'[u] = Append(todo[u], m)
         /\ \A t \in Threads : t # u => todo'[t] = todo[t]
<1>1. todo \in [Threads -> Seq(Messages)]
  BY DEF KernelOK
<1>2. \A t \in Threads : Append(todo[t], m) \in Seq(Messages)
  BY <1>1, PushFacts
<1>3. QED
  BY <1>1, <1>2 DEF Queue

\* The message that a thread reads.
LEMMA HeadFacts ==
  ASSUME KernelOK, NEW t \in Threads, NEW msgs, HeadIs(t, msgs)
  PROVE  /\ todo[t] # <<>> /\ Head(todo[t]) = todo[t][1]
         /\ Head(todo[t]) \in Messages /\ Head(todo[t]).msg \in msgs
         /\ Len(todo[t]) = 1 => Tail(todo[t]) = <<>>
<1>1. todo[t] \in Seq(Messages) /\ todo[t] # <<>>
  BY DEF KernelOK, HeadIs
<1>2. /\ Head(todo[t]) = todo[t][1] /\ Head(todo[t]) \in Messages
      /\ Tail(todo[t]) \in Seq(Messages) /\ Len(Tail(todo[t])) = Len(todo[t]) - 1
  BY <1>1, TailFacts
<1>3. Len(todo[t]) = 1 => Tail(todo[t]) = <<>>
  <2>1. Len(todo[t]) = 1 => Len(Tail(todo[t])) = 0
    BY <1>2
  <2>2. QED
    BY <1>2, <2>1, EmptySeq
<1>4. QED
  BY <1>1, <1>2, <1>3 DEF HeadIs

\* It is taken off the queue.
LEMMA DequeueFacts ==
  ASSUME KernelOK, NEW t \in Threads, todo[t] # <<>>, Dequeue(t)
  PROVE  /\ todo' \in [Threads -> Seq(Messages)]
         /\ todo'[t] = Tail(todo[t])
         /\ \A u \in Threads : u # t => todo'[u] = todo[u]
<1>1. todo \in [Threads -> Seq(Messages)] /\ todo[t] \in Seq(Messages)
  BY DEF KernelOK
<1>2. Tail(todo[t]) \in Seq(Messages)
  BY <1>1, TailFacts
<1>3. QED
  BY <1>1, <1>2 DEF Dequeue

\* An entry more on the driver's stack.
LEMMA KPushFacts ==
  ASSUME KernelOK, NEW t \in Threads, NEW e \in Entries, KPush(t, e)
  PROVE  /\ kstack' \in [Threads -> Seq(Entries)]
         /\ kstack'[t] = Append(kstack[t], e)
         /\ \A u \in Threads : u # t => kstack'[u] = kstack[u]
<1>1. kstack \in [Threads -> Seq(Entries)] /\ kstack[t] \in Seq(Entries)
  BY DEF KernelOK
<1>2. Append(kstack[t], e) \in Seq(Entries)
  BY <1>1, PushFacts
<1>3. QED
  BY <1>1, <1>2 DEF KPush

\* One less.
LEMMA KPopFacts ==
  ASSUME KernelOK, NEW u, KPop(u)
  PROVE  /\ kstack' \in [Threads -> Seq(Entries)]
         /\ u \in Threads => kstack'[u] = Front(kstack[u])
         /\ \A t \in Threads : t # u => kstack'[t] = kstack[t]
<1>1. kstack \in [Threads -> Seq(Entries)]
  BY DEF KernelOK
<1>2. ASSUME NEW s \in Seq(Entries) PROVE Front(s) \in Seq(Entries)
  <2>1. CASE s # <<>>
    BY <2>1, PopFacts
  <2>2. CASE s = <<>>
    <3>1. Len(s) = 0
      BY <2>2
    <3>2. \A k \in 1..(0 - 1) : s[k] \in Entries
      OBVIOUS
    <3>3. SubSeq(s, 1, 0 - 1) \in Seq(Entries)
      BY <3>2, SubSeqProperties
    <3>4. QED
      BY <3>1, <3>3 DEF Front
  <2>3. QED
    BY <2>1, <2>2
<1>3. QED
  BY <1>1, <1>2 DEF KPop

\* What a message and a frame are about.
LEMMA Kinds ==
  /\ \A m \in Messages :
       /\ m.msg \in {"TRANSACTION", "REPLY", "DEAD_REPLY", "FAILED_REPLY", "NOSPC"}
       /\ m.msg = "TRANSACTION" => m.id \in Incoming
       /\ m.msg \in {"REPLY", "DEAD_REPLY", "NOSPC"} => m.id \in Calls
  /\ \A f \in Frames :
       /\ f.op \in {"loop", "local", "call", "serve", "reply"}
       /\ f.op = "call" => f.id \in Calls /\ f = Frame("call", f.id)
       /\ f.op = "serve" => f.id \in Incoming /\ f = Frame("serve", f.id)
  /\ \A e \in Entries : /\ e.dir = "out" => e.id \in Calls /\ e = Entry("out", e.id)
                        /\ e.dir = "in" => e.id \in Incoming /\ e = Entry("in", e.id)
                        /\ e.dir \in {"in", "out"}
  /\ \A c \in Calls : /\ Frame("call", c) \in Frames /\ Entry("out", c) \in Entries
                      /\ \A m \in {"REPLY", "DEAD_REPLY", "FAILED_REPLY", "NOSPC"} :
                           Message(m, c) \in Messages
  /\ \A i \in Incoming : /\ Frame("serve", i) \in Frames /\ Frame("reply", i) \in Frames
                         /\ Entry("in", i) \in Entries
                         /\ Message("TRANSACTION", i) \in Messages
                         /\ Message("FAILED_REPLY", i) \in Messages
  /\ Frame("local", NoThread) \in Frames
<1>1. \A m \in Messages :
        /\ m.msg \in {"TRANSACTION", "REPLY", "DEAD_REPLY", "FAILED_REPLY", "NOSPC"}
        /\ m.msg = "TRANSACTION" => m.id \in Incoming
        /\ m.msg \in {"REPLY", "DEAD_REPLY", "NOSPC"} => m.id \in Calls
  BY DEF Messages, Message
<1>2. \A f \in Frames :
        /\ f.op \in {"loop", "local", "call", "serve", "reply"}
        /\ f.op = "call" => f.id \in Calls /\ f = Frame("call", f.id)
        /\ f.op = "serve" => f.id \in Incoming /\ f = Frame("serve", f.id)
  BY DEF Frames, Frame
<1>3. \A e \in Entries : /\ e.dir = "out" => e.id \in Calls /\ e = Entry("out", e.id)
                         /\ e.dir = "in" => e.id \in Incoming /\ e = Entry("in", e.id)
                         /\ e.dir \in {"in", "out"}
  BY DEF Entries, Entry
<1>4. \A c \in Calls : /\ Frame("call", c) \in Frames /\ Entry("out", c) \in Entries
                       /\ \A m \in {"REPLY", "DEAD_REPLY", "FAILED_REPLY", "NOSPC"} :
                            Message(m, c) \in Messages
  BY DEF Frames, Entries, Messages
<1>5. \A i \in Incoming : /\ Frame("serve", i) \in Frames /\ Frame("reply", i) \in Frames
                          /\ Entry("in", i) \in Entries
                          /\ Message("TRANSACTION", i) \in Messages
                          /\ Message("FAILED_REPLY", i) \in Messages
  BY DEF Frames, Entries, Messages
<1>6. Frame("local", NoThread) \in Frames
  BY DEF Frames
<1>7. QED
  BY <1>1, <1>2, <1>3, <1>4, <1>5, <1>6
-----------------------------------------------------------------------------
(* A step keeps the shape.                                                 *)

\* A read transaction starts a handler on top of the frame that read it; one for an
\* object that is not there ends the call that read it.
LEMMA ServeShape ==
  ASSUME Shape, NEW t \in Threads, NEW i \in Incoming, Serve(t, i),
         Running(t) \in {"call", "loop", "reply"}
  PROVE  /\ StackOK' /\ kstack' \in [Threads -> Seq(Entries)]
         /\ incoming' \in [Incoming -> {"unused", "queued", "served", "answered", "refused"}]
         /\ result' \in [Calls -> {"none", "error"} \cup Calls]
<1>1. incoming' \in [Incoming -> {"unused", "queued", "served", "answered", "refused"}]
  BY DEF Serve, Shape, KernelOK
<1>2. result' \in [Calls -> {"none", "error"} \cup Calls]
  BY DEF Serve, Shape, thread_vars
<1>3. CASE i \in missing
  <2>1. kstack' = kstack
    BY <1>3 DEF Serve
  <2>2. \/ Running(t) \in {"call", "reply"} /\ Pop(t)
        \/ UNCHANGED stack
    BY <1>3 DEF Serve, thread_vars
  <2>3. StackOK'
    <3>1. CASE UNCHANGED stack
      BY <3>1 DEF Shape, StackOK
    <3>2. CASE Running(t) \in {"call", "reply"} /\ Pop(t)
      BY <3>2, PopStack DEF Shape
    <3>3. QED
      BY <2>2, <3>1, <3>2
  <2>4. QED
    BY <1>1, <1>2, <2>1, <2>3 DEF Shape, KernelOK
<1>4. CASE i \notin missing
  <2>1. KPush(t, Entry("in", i)) /\ Push(t, Frame("serve", i))
    BY <1>4 DEF Serve
  <2>2. kstack' \in [Threads -> Seq(Entries)]
    BY <2>1, KPushFacts, Kinds DEF Shape
  <2>3. stack[t] # <<>> /\ Last(stack[t]).op \in {"call", "loop", "reply"}
    BY RunningFacts DEF Shape
  <2>4. Frame("serve", i).op = "serve" /\ CallerOf("serve") = {"call", "loop", "reply"}
    BY DEF Frame, CallerOf
  <2>5. StackOK'
    BY <2>1, <2>3, <2>4, PushStack, Kinds DEF Shape
  <2>6. QED
    BY <1>1, <1>2, <2>2, <2>5
<1>5. QED
  BY <1>3, <1>4

\* What a thread of the library does.
LEMMA ThreadShape ==
  ASSUME Shape, NEW t \in Threads, ThreadNext(t)
  PROVE  Shape'
<1> USE Kinds
<1>1. CASE EndLocal(t) \/ EndReply(t)
  <2>1. StackOK'
    BY <1>1, PopStack DEF Shape, EndLocal, EndReply
  <2>2. UNCHANGED <<kernel_vars, result, locals>>
    BY <1>1 DEF EndLocal, EndReply
  <2>3. QED
    BY <2>1, <2>2 DEF Shape, KernelOK, kernel_vars
<1>2. CASE ReturnReply(t) \/ ReturnError(t) \/ DiscardWithReply(t)
  <2>1. StackOK'
    BY <1>2, PopStack DEF Shape, ReturnReply, ReturnError, DiscardWithReply
  <2>2. todo' \in [Threads -> Seq(Messages)]
    BY <1>2, HeadFacts, DequeueFacts DEF Shape, ReturnReply, ReturnError, DiscardWithReply
  <2>3. result' \in [Calls -> {"none", "error"} \cup Calls]
    <3>1. CASE ReturnReply(t)
      <4>1. Head(todo[t]) \in Messages /\ Head(todo[t]).msg = "REPLY"
        BY <3>1, HeadFacts DEF Shape, ReturnReply
      <4>2. Head(todo[t]).id \in Calls
        BY <4>1
      <4>3. QED
        BY <3>1, <4>2 DEF Shape, ReturnReply
    <3>2. CASE ReturnError(t) \/ DiscardWithReply(t)
      BY <3>2 DEF Shape, ReturnError, DiscardWithReply
    <3>3. QED
      BY <1>2, <3>1, <3>2
  <2>4. UNCHANGED <<locals, proc_todo, kstack, call, owner, incoming, nested, missing>>
    BY <1>2 DEF ReturnReply, ReturnError, DiscardWithReply
  <2>5. QED
    BY <2>1, <2>2, <2>3, <2>4 DEF Shape, KernelOK
<1>3. CASE RetryRead(t) \/ DiscardInLoop(t)
  <2>1. todo' \in [Threads -> Seq(Messages)]
    BY <1>3, HeadFacts, DequeueFacts DEF Shape, RetryRead, DiscardInLoop
  <2>2. UNCHANGED <<locals, thread_vars, proc_todo, kstack, call, owner, incoming, nested,
                    missing>>
    BY <1>3 DEF RetryRead, DiscardInLoop
  <2>3. QED
    BY <2>1, <2>2 DEF Shape, StackOK, KernelOK, thread_vars
<1>4. CASE ReadTransaction(t)
  <2>1. Head(todo[t]) \in Messages /\ Head(todo[t]).msg = "TRANSACTION" /\ todo[t] # <<>>
    BY <1>4, HeadFacts DEF Shape, ReadTransaction
  <2>2. Head(todo[t]).id \in Incoming
    BY <2>1
  <2>3. Running(t) \in {"call", "loop", "reply"} /\ Serve(t, Head(todo[t]).id)
    BY <1>4 DEF ReadTransaction, Reads
  <2>4. todo' \in [Threads -> Seq(Messages)]
    BY <1>4, <2>1, DequeueFacts DEF Shape, ReadTransaction
  <2>5. UNCHANGED <<locals, proc_todo, call, owner, nested, missing>>
    BY <1>4 DEF ReadTransaction
  <2>6. QED
    BY <2>2, <2>3, <2>4, <2>5, ServeShape DEF Shape, KernelOK
<1>5. CASE ReadProcTransaction(t)
  <2>1. proc_todo \in Seq(Incoming) /\ proc_todo # <<>>
    BY <1>5 DEF ReadProcTransaction, Shape, KernelOK
  <2>2. Head(proc_todo) \in Incoming /\ Tail(proc_todo) \in Seq(Incoming)
    BY <2>1, TailFacts
  <2>3. Running(t) \in {"call", "loop", "reply"} /\ Serve(t, Head(proc_todo))
    BY <1>5 DEF ReadProcTransaction
  <2>4. /\ proc_todo' = Tail(proc_todo)
        /\ UNCHANGED <<locals, todo, call, owner, nested, missing>>
    BY <1>5 DEF ReadProcTransaction
  <2>5. QED
    BY <2>2, <2>3, <2>4, ServeShape DEF Shape, KernelOK
<1>6. CASE WriteReply(t)
  <2> DEFINE i == Last(stack[t]).id
  <2>1. Running(t) = "serve" /\ Top(t, Frame("reply", i))
    BY <1>6 DEF WriteReply
  <2>2. i \in Incoming
    BY <2>1, RunningFacts DEF Shape
  <2>3. \/ KPop(t) /\ UNCHANGED todo
        \/ Queue(t, Message("FAILED_REPLY", i)) /\ UNCHANGED kstack
    BY <1>6 DEF WriteReply
  <2>4. incoming' \in [Incoming -> {"unused", "queued", "served", "answered", "refused"}]
    BY <1>6 DEF WriteReply, Shape, KernelOK
  <2>5. UNCHANGED <<locals, proc_todo, call, owner, result, nested, missing>>
    BY <1>6 DEF WriteReply
  <2> HIDE DEF i
  <2>6. StackOK'
    BY <2>1, <2>2, TopStack DEF Shape
  <2>7. /\ todo' \in [Threads -> Seq(Messages)]
        /\ kstack' \in [Threads -> Seq(Entries)]
    BY <2>2, <2>3, QueueFacts, KPopFacts DEF Shape, KernelOK
  <2>8. QED
    BY <2>4, <2>5, <2>6, <2>7 DEF Shape, KernelOK
<1>7. QED
  BY <1>1, <1>2, <1>3, <1>4, <1>5, <1>6 DEF ThreadNext

\* What the application and the handlers start.
LEMMA StartShape ==
  ASSUME Shape, NEW t \in Threads,
         StartLocal(t) \/ \E c \in Calls : StartCall(t, c)
  PROVE  Shape'
<1>1. ASSUME NEW op \in {"local", "call"}, Running(t) \in {"app", "serve", "local"}
      PROVE  IF stack[t] = <<>> THEN "none" \in CallerOf(op)
                                ELSE Last(stack[t]).op \in CallerOf(op)
  <2>1. CallerOf(op) = {"none", "serve", "local"}
    BY DEF CallerOf
  <2>2. stack[t] # <<>> => Last(stack[t]).op \in {"serve", "local"}
    BY <1>1, RunningFacts, Kinds DEF Shape
  <2>3. QED
    BY <2>1, <2>2
<1>2. CASE StartLocal(t)
  <2>1. /\ Running(t) \in {"app", "serve", "local"} /\ Push(t, Frame("local", NoThread))
        /\ Frame("local", NoThread).op = "local"
    BY <1>2 DEF StartLocal, Frame
  <2>2. StackOK'
    BY <1>1, <2>1, PushStack, Kinds DEF Shape
  <2>3. locals' \in 0..MaxLocal /\ UNCHANGED <<result, kernel_vars>>
    BY <1>2, BoundsAssumption DEF StartLocal, Shape
  <2>4. QED
    BY <2>2, <2>3 DEF Shape, KernelOK, kernel_vars
<1>3. ASSUME NEW c \in Calls, StartCall(t, c) PROVE Shape'
  <2>1. /\ Running(t) \in {"app", "serve", "local"} /\ Push(t, Frame("call", c))
        /\ Frame("call", c).op = "call"
    BY <1>3 DEF StartCall, Frame
  <2>2. StackOK'
    BY <1>1, <2>1, PushStack, Kinds DEF Shape
  <2>3. /\ call' \in [Calls -> {"unused", "sent", "full", "over"}]
        /\ owner' \in [Calls -> Threads \cup {NoThread}]
    <3>1. owner' = [owner EXCEPT ![c] = t] /\ owner \in [Calls -> Threads \cup {NoThread}]
      BY <1>3 DEF StartCall, Shape, KernelOK
    <3>2. call' \in [Calls -> {"unused", "sent", "full", "over"}]
      <4>1. \E v \in {"over", "full", "sent"} : call' = [call EXCEPT ![c] = v]
        BY <1>3 DEF StartCall
      <4>2. call \in [Calls -> {"unused", "sent", "full", "over"}]
        BY DEF Shape, KernelOK
      <4>3. QED
        BY <4>1, <4>2
    <3>3. QED
      BY <3>1, <3>2
  <2>4. \/ UNCHANGED kstack /\ \E m \in {"FAILED_REPLY", "NOSPC"} : Queue(t, Message(m, c))
        \/ KPush(t, Entry("out", c)) /\ UNCHANGED todo
    BY <1>3 DEF StartCall
  <2>5. todo' \in [Threads -> Seq(Messages)] /\ kstack' \in [Threads -> Seq(Entries)]
    BY <2>4, QueueFacts, KPushFacts, Kinds DEF Shape, KernelOK
  <2>6. UNCHANGED <<locals, proc_todo, result, incoming, nested, missing>>
    BY <1>3 DEF StartCall
  <2>7. QED
    BY <2>2, <2>3, <2>5, <2>6 DEF Shape, KernelOK
<1>4. QED
  BY <1>2, <1>3

\* What peers and the driver do.
LEMMA PeerShape ==
  ASSUME Shape,
         \/ \E c \in Calls : Answer(c) \/ \E i \in Incoming : CallBack(c, i)
         \/ \E i \in Incoming : Arrive(i)
  PROVE  Shape'
<1>1. ASSUME NEW c \in Calls, Answer(c) PROVE Shape'
  <2>1. todo' \in [Threads -> Seq(Messages)]
    BY <1>1, QueueFacts, Kinds DEF Answer, Shape
  <2>2. kstack' \in [Threads -> Seq(Entries)]
    BY <1>1, KPopFacts DEF Answer, Shape
  <2>3. call' \in [Calls -> {"unused", "sent", "full", "over"}]
    BY <1>1 DEF Answer, Shape, KernelOK
  <2>4. UNCHANGED <<locals, thread_vars, proc_todo, owner, incoming, nested, missing>>
    BY <1>1 DEF Answer
  <2>5. QED
    BY <2>1, <2>2, <2>3, <2>4 DEF Shape, StackOK, KernelOK, thread_vars
<1>2. ASSUME NEW c \in Calls, NEW i \in Incoming, CallBack(c, i) PROVE Shape'
  <2>1. todo' \in [Threads -> Seq(Messages)]
    BY <1>2, QueueFacts, Kinds DEF CallBack, Shape
  <2>2. /\ incoming' \in [Incoming -> {"unused", "queued", "served", "answered", "refused"}]
        /\ nested' \in [Incoming -> SUBSET Calls] /\ missing' \subseteq Incoming
    BY <1>2 DEF CallBack, Shape, KernelOK
  <2>3. UNCHANGED <<locals, thread_vars, proc_todo, kstack, call, owner>>
    BY <1>2 DEF CallBack
  <2>4. QED
    BY <2>1, <2>2, <2>3 DEF Shape, StackOK, KernelOK, thread_vars
<1>3. ASSUME NEW i \in Incoming, Arrive(i) PROVE Shape'
  <2>1. proc_todo' \in Seq(Incoming)
    BY <1>3, PushFacts DEF Arrive, Shape, KernelOK
  <2>2. /\ incoming' \in [Incoming -> {"unused", "queued", "served", "answered", "refused"}]
        /\ missing' \subseteq Incoming
    BY <1>3 DEF Arrive, Shape, KernelOK
  <2>3. UNCHANGED <<locals, thread_vars, todo, kstack, call, owner, nested>>
    BY <1>3 DEF Arrive
  <2>4. QED
    BY <2>1, <2>2, <2>3 DEF Shape, StackOK, KernelOK, thread_vars
<1>4. QED
  BY <1>1, <1>2, <1>3

\* Whatever happens, also with objects that are missing.
LEMMA ShapeNext == Shape /\ [Next]_vars => Shape'
<1> SUFFICES ASSUME Shape, [Next]_vars PROVE Shape'
  OBVIOUS
<1>1. CASE UNCHANGED vars
  BY <1>1 DEF vars, thread_vars, kernel_vars, Shape, StackOK, KernelOK
<1>2. QED
  BY <1>1, ThreadShape, StartShape, PeerShape DEF Next
-----------------------------------------------------------------------------
(* The frames and the driver's stack.                                      *)

\* What is sent on the frames of t stays so.
SameCalls(t) ==
  \A k \in 1..Len(stack[t]) :
    stack[t][k].op = "call" =>
      (call'[stack[t][k].id] = "sent" <=> call[stack[t][k].id] = "sent")

\* What a frame counts for after the step.
StillCounts(f) == f.op = "serve" \/ (f.op = "call" /\ call'[f.id] = "sent")

\* An entry is for one frame only, which counts.
LEMMA MatchFacts ==
  ASSUME KernelOK, NEW t \in Threads, Agrees(t), NEW a \in 1..Len(kstack[t]), NEW f,
         Match(kstack[t][a], f)
  PROVE  /\ Counts(f)
         /\ kstack[t][a].dir = "in" => f.op = "serve" /\ f.id = kstack[t][a].id
         /\ kstack[t][a].dir = "out" => f.op = "call" /\ f.id = kstack[t][a].id
<1>1. kstack[t] \in Seq(Entries) /\ kstack[t][a] \in Entries
  BY ElementOfSeq DEF KernelOK
<1>2. kstack[t][a].dir \in {"in", "out"}
  BY <1>1, Kinds
<1>3. QED
  BY <1>2 DEF Agrees, Match, Counts, Frame

\* The last entry is that of the innermost frame that counts.
LEMMA TopEntry ==
  ASSUME KernelOK, NEW t \in Threads, Agrees(t), NEW k \in 1..Len(stack[t]),
         Counts(stack[t][k]), \A j \in 1..Len(stack[t]) : j > k => ~Counts(stack[t][j])
  PROVE  /\ kstack[t] # <<>> /\ Len(kstack[t]) \in 1..Len(kstack[t])
         /\ Last(kstack[t]) = kstack[t][Len(kstack[t])]
         /\ Match(Last(kstack[t]), stack[t][k])
<1>1. kstack[t] \in Seq(Entries) /\ Len(kstack[t]) \in Nat
  BY LenProperties DEF KernelOK
<1>2. PICK a \in 1..Len(kstack[t]) : Match(kstack[t][a], stack[t][k])
  BY DEF Agrees
<1> DEFINE b == Len(kstack[t])
<1>3. b \in 1..b
  BY <1>1, <1>2
<1>4. PICK j \in 1..Len(stack[t]) : Match(kstack[t][b], stack[t][j])
  BY <1>3 DEF Agrees
<1>5. Counts(stack[t][j])
  BY <1>3, <1>4, MatchFacts
<1>6. a < b <=> k < j
  BY <1>2, <1>3, <1>4 DEF Agrees
<1>7. k < j => j > k
  BY LenProperties
<1>8. a = b
  BY <1>1, <1>2, <1>5, <1>6, <1>7
<1>9. kstack[t] # <<>>
  BY <1>1, <1>3, EmptySeq
<1>10. QED
  BY <1>1, <1>2, <1>3, <1>8, <1>9, PopFacts

\* Nothing happens to the frames and the entries of t.
LEMMA AgreesKept ==
  ASSUME KernelOK, NEW t \in Threads, Agrees(t), stack'[t] = stack[t], kstack'[t] = kstack[t],
         SameCalls(t)
  PROVE  Agrees(t)'
<1>1. \A k \in 1..Len(stack[t]) : StillCounts(stack[t][k]) <=> Counts(stack[t][k])
  BY DEF SameCalls, Counts, StillCounts
<1>2. \A a \in 1..Len(kstack[t]) :
        kstack[t][a].dir = "out" => call'[kstack[t][a].id] = "sent"
  <2>1. SUFFICES ASSUME NEW a \in 1..Len(kstack[t]), kstack[t][a].dir = "out"
                 PROVE  call'[kstack[t][a].id] = "sent"
    OBVIOUS
  <2>2. PICK k \in 1..Len(stack[t]) : Match(kstack[t][a], stack[t][k])
    BY DEF Agrees
  <2>3. Counts(stack[t][k]) /\ stack[t][k].op = "call" /\ stack[t][k].id = kstack[t][a].id
    BY <2>1, <2>2, MatchFacts
  <2>4. call[kstack[t][a].id] = "sent"
    BY <2>1 DEF Agrees
  <2>5. call'[stack[t][k].id] = "sent" <=> call[stack[t][k].id] = "sent"
    BY <2>3 DEF SameCalls
  <2>6. QED
    BY <2>3, <2>4, <2>5
<1>3. QED
  BY <1>1, <1>2 DEF Agrees, Match, Counts, StillCounts

\* A frame that does not count is put on top.
LEMMA AgreesPush ==
  ASSUME KernelOK, NEW t \in Threads, Agrees(t), SameCalls(t), NEW f,
         Len(stack[t]) \in Nat, Len(stack'[t]) = Len(stack[t]) + 1,
         \A k \in 1..Len(stack[t]) : stack'[t][k] = stack[t][k],
         stack'[t][Len(stack[t]) + 1] = f, kstack'[t] = kstack[t],
         ~StillCounts(f), \A a \in 1..Len(kstack[t]) : ~Match(kstack[t][a], f)
  PROVE  Agrees(t)'
<1> DEFINE n == Len(stack[t])
<1>1. \A k \in 1..Len(stack'[t]) : k \in 1..n \/ k = n + 1
  OBVIOUS
<1>2. \A k \in 1..n : k \in 1..Len(stack'[t])
  OBVIOUS
<1>3. \A k \in 1..n : StillCounts(stack[t][k]) <=> Counts(stack[t][k])
  BY DEF SameCalls, Counts, StillCounts
<1>4. \A a \in 1..Len(kstack[t]) :
        kstack[t][a].dir = "out" => call'[kstack[t][a].id] = "sent"
  <2>1. SUFFICES ASSUME NEW a \in 1..Len(kstack[t]), kstack[t][a].dir = "out"
                 PROVE  call'[kstack[t][a].id] = "sent"
    OBVIOUS
  <2>2. PICK k \in 1..n : Match(kstack[t][a], stack[t][k])
    BY DEF Agrees
  <2>3. Counts(stack[t][k]) /\ stack[t][k].op = "call" /\ stack[t][k].id = kstack[t][a].id
    BY <2>1, <2>2, MatchFacts
  <2>4. call[kstack[t][a].id] = "sent"
    BY <2>1 DEF Agrees
  <2>5. call'[stack[t][k].id] = "sent" <=> call[stack[t][k].id] = "sent"
    BY <2>3 DEF SameCalls
  <2>6. QED
    BY <2>3, <2>4, <2>5
<1> HIDE DEF n
<1>5. \A a \in 1..Len(kstack[t]) :
        \E k \in 1..Len(stack'[t]) : Match(kstack[t][a], stack'[t][k])
  BY <1>2 DEF Agrees, n
<1>6. \A k \in 1..Len(stack'[t]) :
        StillCounts(stack'[t][k]) =>
          \E a \in 1..Len(kstack[t]) : Match(kstack[t][a], stack'[t][k])
  BY <1>1, <1>3 DEF Agrees, n
<1>7. \A a, b \in 1..Len(kstack[t]), j, k \in 1..Len(stack'[t]) :
        Match(kstack[t][a], stack'[t][j]) /\ Match(kstack[t][b], stack'[t][k])
          => (a < b <=> j < k)
  BY <1>1 DEF Agrees, n
<1>8. QED
  BY <1>4, <1>5, <1>6, <1>7 DEF Agrees, Match, Counts, StillCounts

\* A frame that counts is put on top, and an entry for it.
LEMMA AgreesPushBoth ==
  ASSUME KernelOK, NEW t \in Threads, Agrees(t), SameCalls(t), NEW f, NEW e,
         Len(stack[t]) \in Nat, Len(stack'[t]) = Len(stack[t]) + 1,
         \A k \in 1..Len(stack[t]) : stack'[t][k] = stack[t][k] /\ stack[t][k] # f,
         stack'[t][Len(stack[t]) + 1] = f,
         Len(kstack[t]) \in Nat, Len(kstack'[t]) = Len(kstack[t]) + 1,
         \A a \in 1..Len(kstack[t]) : kstack'[t][a] = kstack[t][a] /\ ~Match(kstack[t][a], f),
         kstack'[t][Len(kstack[t]) + 1] = e,
         Match(e, f), e.dir = "out" => call'[e.id] = "sent"
  PROVE  Agrees(t)'
<1> DEFINE s == stack[t]
           r == stack'[t]
           p == kstack[t]
           q == kstack'[t]
<1>1. /\ \A k \in 1..Len(r) : k \in 1..Len(s) \/ k = Len(s) + 1
      /\ \A k \in 1..Len(s) : k \in 1..Len(r) /\ k < Len(s) + 1
      /\ Len(s) + 1 \in 1..Len(r) /\ ~(Len(s) + 1 < Len(s) + 1)
      /\ \A k \in 1..Len(s) : ~(Len(s) + 1 < k)
  OBVIOUS
<1>2. /\ \A a \in 1..Len(q) : a \in 1..Len(p) \/ a = Len(p) + 1
      /\ \A a \in 1..Len(p) : a \in 1..Len(q) /\ a < Len(p) + 1
      /\ Len(p) + 1 \in 1..Len(q) /\ ~(Len(p) + 1 < Len(p) + 1)
      /\ \A a \in 1..Len(p) : ~(Len(p) + 1 < a)
  OBVIOUS
<1>3. \A k \in 1..Len(s) : StillCounts(s[k]) <=> Counts(s[k])
  BY DEF SameCalls, Counts, StillCounts
<1>4. \A a \in 1..Len(p) : p[a].dir = "out" => call'[p[a].id] = "sent"
  <2>1. SUFFICES ASSUME NEW a \in 1..Len(p), p[a].dir = "out"
                 PROVE  call'[p[a].id] = "sent"
    OBVIOUS
  <2>2. PICK k \in 1..Len(s) : Match(p[a], s[k])
    BY DEF Agrees
  <2>3. Counts(s[k]) /\ s[k].op = "call" /\ s[k].id = p[a].id
    BY <2>1, <2>2, MatchFacts
  <2>4. call[p[a].id] = "sent"
    BY <2>1 DEF Agrees
  <2>5. call'[s[k].id] = "sent" <=> call[s[k].id] = "sent"
    BY <2>3 DEF SameCalls
  <2>6. QED
    BY <2>3, <2>4, <2>5
<1>5. \A k \in 1..Len(s) : ~Match(e, s[k])
  BY DEF Match
<1>6. /\ \A a \in 1..Len(p) : \E k \in 1..Len(s) : Match(p[a], s[k])
      /\ \A k \in 1..Len(s) : Counts(s[k]) => \E a \in 1..Len(p) : Match(p[a], s[k])
      /\ \A a, b \in 1..Len(p), j, k \in 1..Len(s) :
           Match(p[a], s[j]) /\ Match(p[b], s[k]) => (a < b <=> j < k)
  BY DEF Agrees
<1>7. /\ \A k \in 1..Len(s) : r[k] = s[k]
      /\ r[Len(s) + 1] = f /\ q[Len(p) + 1] = e
      /\ \A a \in 1..Len(p) : q[a] = p[a] /\ ~Match(p[a], f)
  OBVIOUS
<1> HIDE DEF s, r, p, q
<1>8. \A a \in 1..Len(q) : q[a].dir = "out" => call'[q[a].id] = "sent"
  <2>1. SUFFICES ASSUME NEW a \in 1..Len(q), q[a].dir = "out"
                 PROVE  call'[q[a].id] = "sent"
    OBVIOUS
  <2>2. CASE a \in 1..Len(p)
    BY <1>4, <1>7, <2>1, <2>2
  <2>3. CASE a = Len(p) + 1
    BY <1>7, <2>1, <2>3
  <2>4. QED
    BY <1>2, <2>2, <2>3
<1>9. \A a \in 1..Len(q) : \E k \in 1..Len(r) : Match(q[a], r[k])
  <2>1. SUFFICES ASSUME NEW a \in 1..Len(q) PROVE \E k \in 1..Len(r) : Match(q[a], r[k])
    OBVIOUS
  <2>2. CASE a \in 1..Len(p)
    <3>1. PICK k \in 1..Len(s) : Match(p[a], s[k])
      BY <1>6, <2>2
    <3>2. k \in 1..Len(r) /\ r[k] = s[k] /\ q[a] = p[a]
      BY <1>1, <1>7, <2>2
    <3>3. QED
      BY <3>1, <3>2
  <2>3. CASE a = Len(p) + 1
    BY <1>1, <1>7, <2>3
  <2>4. QED
    BY <1>2, <2>2, <2>3
<1>10. \A k \in 1..Len(r) : StillCounts(r[k]) => \E a \in 1..Len(q) : Match(q[a], r[k])
  <2>1. SUFFICES ASSUME NEW k \in 1..Len(r), StillCounts(r[k])
                 PROVE  \E a \in 1..Len(q) : Match(q[a], r[k])
    OBVIOUS
  <2>2. CASE k \in 1..Len(s)
    <3>1. r[k] = s[k] /\ Counts(s[k])
      BY <1>3, <1>7, <2>1, <2>2
    <3>2. PICK a \in 1..Len(p) : Match(p[a], s[k])
      BY <1>6, <2>2, <3>1
    <3>3. a \in 1..Len(q) /\ q[a] = p[a]
      BY <1>2, <1>7
    <3>4. QED
      BY <3>1, <3>2, <3>3
  <2>3. CASE k = Len(s) + 1
    BY <1>2, <1>7, <2>3
  <2>4. QED
    BY <1>1, <2>2, <2>3
<1>11. \A a, b \in 1..Len(q), j, k \in 1..Len(r) :
         Match(q[a], r[j]) /\ Match(q[b], r[k]) => (a < b <=> j < k)
  <2>1. SUFFICES ASSUME NEW a \in 1..Len(q), NEW b \in 1..Len(q),
                        NEW j \in 1..Len(r), NEW k \in 1..Len(r),
                        Match(q[a], r[j]), Match(q[b], r[k])
                 PROVE  a < b <=> j < k
    OBVIOUS
  <2>0. ASSUME NEW x \in 1..Len(q), NEW y \in 1..Len(r), Match(q[x], r[y])
        PROVE  x \in 1..Len(p) <=> y \in 1..Len(s)
    <3>1. CASE x \in 1..Len(p)
      <4>1. ~Match(p[x], r[Len(s) + 1]) /\ q[x] = p[x]
        BY <1>7, <3>1
      <4>2. QED
        BY <1>1, <2>0, <3>1, <4>1
    <3>2. CASE x = Len(p) + 1
      <4>1. q[x] = e /\ x \notin 1..Len(p)
        BY <1>2, <1>7, <3>2
      <4>2. y \in 1..Len(s) => r[y] = s[y] /\ ~Match(e, s[y])
        BY <1>5, <1>7
      <4>3. QED
        BY <2>0, <4>1, <4>2
    <3>3. QED
      BY <1>2, <3>1, <3>2
  <2>2. a \in 1..Len(p) <=> j \in 1..Len(s)
    BY <2>0, <2>1
  <2>3. b \in 1..Len(p) <=> k \in 1..Len(s)
    BY <2>0, <2>1
  <2>4. CASE a \in 1..Len(p) /\ b \in 1..Len(p)
    BY <1>6, <1>7, <2>1, <2>2, <2>3, <2>4
  <2>5. CASE a \in 1..Len(p) /\ b = Len(p) + 1
    BY <1>1, <1>2, <2>2, <2>3, <2>5
  <2>6. CASE a = Len(p) + 1
    BY <1>1, <1>2, <2>2, <2>3, <2>6
  <2>7. QED
    BY <1>2, <2>4, <2>5, <2>6
<1>12. QED
  BY <1>8, <1>9, <1>10, <1>11 DEF Agrees, Match, Counts, StillCounts, r, q

\* A frame that has no entry is left.
LEMMA AgreesPop ==
  ASSUME KernelOK, NEW t \in Threads, Agrees(t), SameCalls(t),
         Len(stack[t]) \in Nat, Len(stack'[t]) = Len(stack[t]) - 1,
         \A k \in 1..(Len(stack[t]) - 1) : stack'[t][k] = stack[t][k],
         kstack'[t] = kstack[t],
         \A a \in 1..Len(kstack[t]) : ~Match(kstack[t][a], stack[t][Len(stack[t])])
  PROVE  Agrees(t)'
<1> DEFINE s == stack[t]
           r == stack'[t]
           p == kstack[t]
<1>1. /\ \A k \in 1..Len(r) : k \in 1..Len(s) /\ r[k] = s[k]
      /\ \A k \in 1..Len(s) : k \in 1..Len(r) \/ k = Len(s)
  OBVIOUS
<1>2. \A k \in 1..Len(s) : StillCounts(s[k]) <=> Counts(s[k])
  BY DEF SameCalls, Counts, StillCounts
<1>3. \A a \in 1..Len(p) : p[a].dir = "out" => call'[p[a].id] = "sent"
  <2>1. SUFFICES ASSUME NEW a \in 1..Len(p), p[a].dir = "out"
                 PROVE  call'[p[a].id] = "sent"
    OBVIOUS
  <2>2. PICK k \in 1..Len(s) : Match(p[a], s[k])
    BY DEF Agrees
  <2>3. Counts(s[k]) /\ s[k].op = "call" /\ s[k].id = p[a].id
    BY <2>1, <2>2, MatchFacts
  <2>4. call[kstack[t][a].id] = "sent"
    BY <2>1 DEF Agrees
  <2>5. call'[stack[t][k].id] = "sent" <=> call[stack[t][k].id] = "sent"
    BY <2>3 DEF SameCalls
  <2>6. QED
    BY <2>3, <2>4, <2>5
<1>4. /\ \A a \in 1..Len(p) : \E k \in 1..Len(s) : Match(p[a], s[k])
      /\ \A k \in 1..Len(s) : Counts(s[k]) => \E a \in 1..Len(p) : Match(p[a], s[k])
      /\ \A a, b \in 1..Len(p), j, k \in 1..Len(s) :
           Match(p[a], s[j]) /\ Match(p[b], s[k]) => (a < b <=> j < k)
      /\ \A a \in 1..Len(p) : ~Match(p[a], s[Len(s)])
  BY DEF Agrees
<1> HIDE DEF s, r, p
<1>5. \A a \in 1..Len(p) : \E k \in 1..Len(r) : Match(p[a], r[k])
  BY <1>1, <1>4
<1>6. \A k \in 1..Len(r) : StillCounts(r[k]) => \E a \in 1..Len(p) : Match(p[a], r[k])
  BY <1>1, <1>2, <1>4
<1>7. \A a, b \in 1..Len(p), j, k \in 1..Len(r) :
        Match(p[a], r[j]) /\ Match(p[b], r[k]) => (a < b <=> j < k)
  BY <1>1, <1>4
<1>8. QED
  BY <1>3, <1>5, <1>6, <1>7 DEF Agrees, Match, Counts, StillCounts, r, p

\* A handler's frame on top becomes that of its reply, and its entry is gone.
LEMMA AgreesReply ==
  ASSUME KernelOK, NEW t \in Threads, Agrees(t), SameCalls(t),
         Len(stack[t]) \in Nat, Len(stack[t]) >= 1, Len(stack'[t]) = Len(stack[t]),
         \A k \in 1..(Len(stack[t]) - 1) : stack'[t][k] = stack[t][k],
         stack'[t][Len(stack[t])].op = "reply",
         Len(kstack[t]) \in Nat, Len(kstack[t]) >= 1, Len(kstack'[t]) = Len(kstack[t]) - 1,
         \A a \in 1..(Len(kstack[t]) - 1) : kstack'[t][a] = kstack[t][a],
         Match(kstack[t][Len(kstack[t])], stack[t][Len(stack[t])])
  PROVE  Agrees(t)'
<1> DEFINE s == stack[t]
           r == stack'[t]
           p == kstack[t]
           q == kstack'[t]
<1>1. /\ \A k \in 1..Len(r) : k \in 1..Len(s) /\ (r[k] = s[k] \/ k = Len(s))
      /\ \A k \in 1..Len(s) : k \in 1..Len(r) /\ (k < Len(s) \/ k = Len(s))
      /\ Len(s) \in 1..Len(s) /\ ~(Len(s) < Len(s))
  OBVIOUS
<1>2. /\ \A a \in 1..Len(q) : a \in 1..Len(p) /\ a < Len(p) /\ q[a] = p[a]
      /\ \A a \in 1..Len(p) : a \in 1..Len(q) \/ a = Len(p)
      /\ Len(p) \in 1..Len(p) /\ ~(Len(p) < Len(p))
  OBVIOUS
<1>3. \A k \in 1..Len(s) : StillCounts(s[k]) <=> Counts(s[k])
  BY DEF SameCalls, Counts, StillCounts
<1>4. \A a \in 1..Len(p) : p[a].dir = "out" => call'[p[a].id] = "sent"
  <2>1. SUFFICES ASSUME NEW a \in 1..Len(p), p[a].dir = "out"
                 PROVE  call'[p[a].id] = "sent"
    OBVIOUS
  <2>2. PICK k \in 1..Len(s) : Match(p[a], s[k])
    BY DEF Agrees
  <2>3. Counts(s[k]) /\ s[k].op = "call" /\ s[k].id = p[a].id
    BY <2>1, <2>2, MatchFacts
  <2>4. call[kstack[t][a].id] = "sent"
    BY <2>1 DEF Agrees
  <2>5. call'[stack[t][k].id] = "sent" <=> call[stack[t][k].id] = "sent"
    BY <2>3 DEF SameCalls
  <2>6. QED
    BY <2>3, <2>4, <2>5
<1>5. ~StillCounts(r[Len(s)]) /\ \A e : ~Match(e, r[Len(s)])
  BY DEF StillCounts, Match, Frame
<1>6. /\ \A a \in 1..Len(p) : \E k \in 1..Len(s) : Match(p[a], s[k])
      /\ \A k \in 1..Len(s) : Counts(s[k]) => \E a \in 1..Len(p) : Match(p[a], s[k])
      /\ \A a, b \in 1..Len(p), j, k \in 1..Len(s) :
           Match(p[a], s[j]) /\ Match(p[b], s[k]) => (a < b <=> j < k)
      /\ Match(p[Len(p)], s[Len(s)])
  BY DEF Agrees
<1>7. \A k \in 1..Len(s) : k # Len(s) => r[k] = s[k]
  OBVIOUS
<1> HIDE DEF s, r, p, q
<1>8. \A a \in 1..Len(q) : \E k \in 1..Len(r) : Match(q[a], r[k])
  <2>1. SUFFICES ASSUME NEW a \in 1..Len(q) PROVE \E k \in 1..Len(r) : Match(q[a], r[k])
    OBVIOUS
  <2>2. PICK k \in 1..Len(s) : Match(p[a], s[k])
    BY <1>2, <1>6
  <2>3. k # Len(s)
    <3>1. SUFFICES ASSUME k = Len(s) PROVE FALSE
      OBVIOUS
    <3>2. \A b \in 1..Len(p) : Match(p[b], s[k]) => (a < b <=> k < k)
      <4>1. a \in 1..Len(p)
        BY <1>2
      <4>2. QED
        BY <1>6, <2>2, <4>1
    <3>3. a < Len(p) /\ Len(p) \in 1..Len(p) /\ Match(p[Len(p)], s[k])
      BY <1>2, <1>6, <3>1
    <3>4. k < k
      BY <3>2, <3>3
    <3>5. QED
      BY <1>1, <3>1, <3>4
  <2>4. QED
    BY <1>1, <1>2, <1>7, <2>2, <2>3
<1>9. \A k \in 1..Len(r) : StillCounts(r[k]) => \E a \in 1..Len(q) : Match(q[a], r[k])
  <2>1. SUFFICES ASSUME NEW k \in 1..Len(r), StillCounts(r[k])
                 PROVE  \E a \in 1..Len(q) : Match(q[a], r[k])
    OBVIOUS
  <2>2. k \in 1..Len(s) /\ k # Len(s) /\ r[k] = s[k] /\ k < Len(s)
    BY <1>1, <1>5, <2>1
  <2>3. PICK a \in 1..Len(p) : Match(p[a], s[k])
    BY <1>3, <1>6, <2>1, <2>2
  <2>4. a # Len(p)
    BY <1>1, <1>2, <1>6, <2>2, <2>3
  <2>5. QED
    BY <1>2, <2>2, <2>3, <2>4
<1>10. \A a, b \in 1..Len(q), j, k \in 1..Len(r) :
         Match(q[a], r[j]) /\ Match(q[b], r[k]) => (a < b <=> j < k)
  BY <1>1, <1>2, <1>5, <1>6
<1>11. \A a \in 1..Len(q) : q[a].dir = "out" => call'[q[a].id] = "sent"
  BY <1>2, <1>4
<1>12. QED
  BY <1>8, <1>9, <1>10, <1>11 DEF Agrees, Match, Counts, StillCounts, r, q

\* A call is answered: its frame counts no more, and its entry is gone.
LEMMA AgreesAnswer ==
  ASSUME KernelOK, NEW t \in Threads, Agrees(t), NEW c, NEW n \in 1..Len(stack[t]),
         stack'[t] = stack[t], stack[t][n] = Frame("call", c),
         Len(kstack[t]) \in Nat, Len(kstack[t]) >= 1, Len(kstack'[t]) = Len(kstack[t]) - 1,
         \A a \in 1..(Len(kstack[t]) - 1) : kstack'[t][a] = kstack[t][a],
         kstack[t][Len(kstack[t])] = Entry("out", c),
         call'[c] # "sent",
         \A k \in 1..Len(stack[t]) :
           stack[t][k].op = "call" /\ stack[t][k].id # c =>
             (call'[stack[t][k].id] = "sent" <=> call[stack[t][k].id] = "sent")
  PROVE  Agrees(t)'
<1> DEFINE s == stack[t]
           p == kstack[t]
           q == kstack'[t]
<1>1. /\ \A a \in 1..Len(q) : a \in 1..Len(p) /\ a < Len(p) /\ q[a] = p[a]
      /\ \A a \in 1..Len(p) : a \in 1..Len(q) \/ a = Len(p)
      /\ Len(p) \in 1..Len(p)
  OBVIOUS
<1>2. ~(n < n)
  OBVIOUS
<1>3. \A f : Match(p[Len(p)], f) <=> f = Frame("call", c)
  BY DEF Match, Entry
<1>4. /\ \A a \in 1..Len(p) : \E k \in 1..Len(s) : Match(p[a], s[k])
      /\ \A k \in 1..Len(s) : Counts(s[k]) => \E a \in 1..Len(p) : Match(p[a], s[k])
      /\ \A a, b \in 1..Len(p), j, k \in 1..Len(s) :
           Match(p[a], s[j]) /\ Match(p[b], s[k]) => (a < b <=> j < k)
  BY DEF Agrees
<1>5. \A a \in 1..Len(q) : ~Match(p[a], s[n])
  <2>1. SUFFICES ASSUME NEW a \in 1..Len(q), Match(p[a], s[n]) PROVE FALSE
    OBVIOUS
  <2>2. a \in 1..Len(p) /\ a < Len(p) /\ Len(p) \in 1..Len(p) /\ Match(p[Len(p)], s[n])
    BY <1>1, <1>3
  <2>3. \A b \in 1..Len(p) : Match(p[b], s[n]) => (a < b <=> n < n)
    BY <1>4, <2>1, <2>2
  <2>4. n < n
    BY <2>2, <2>3
  <2>5. QED
    BY <1>2, <2>4
<1>6. \A k \in 1..Len(s) : StillCounts(s[k]) => Counts(s[k]) /\ s[k] # Frame("call", c)
  BY DEF Counts, StillCounts, Frame
<1>7. \A a \in 1..Len(q) : q[a].dir = "out" => call'[q[a].id] = "sent"
  <2>1. SUFFICES ASSUME NEW a \in 1..Len(q), q[a].dir = "out"
                 PROVE  call'[q[a].id] = "sent"
    OBVIOUS
  <2>2. PICK k \in 1..Len(s) : Match(p[a], s[k])
    BY <1>1, <1>4
  <2>3. a \in 1..Len(p) /\ p[a].dir = "out"
    BY <1>1, <2>1
  <2>4. Counts(s[k]) /\ s[k].op = "call" /\ s[k].id = p[a].id
    BY <2>2, <2>3, MatchFacts
  <2>5. p[a].id # c
    <3>1. SUFFICES ASSUME p[a].id = c PROVE FALSE
      OBVIOUS
    <3>2. Match(p[a], s[n])
      BY <2>3, <3>1 DEF Match
    <3>3. QED
      BY <1>5, <3>2
  <2>6. QED
    BY <1>1, <2>4, <2>5 DEF Counts
<1> HIDE DEF s, p, q
<1>8. \A a \in 1..Len(q) : \E k \in 1..Len(s) : Match(q[a], s[k])
  BY <1>1, <1>4
<1>9. \A k \in 1..Len(s) : StillCounts(s[k]) => \E a \in 1..Len(q) : Match(q[a], s[k])
  BY <1>1, <1>3, <1>4, <1>6
<1>10. \A a, b \in 1..Len(q), j, k \in 1..Len(s) :
         Match(q[a], s[j]) /\ Match(q[b], s[k]) => (a < b <=> j < k)
  BY <1>1, <1>4
<1>11. QED
  BY <1>7, <1>8, <1>9, <1>10 DEF Agrees, Match, Counts, StillCounts, s, q
-----------------------------------------------------------------------------
(* The innermost call of a thread.                                         *)

\* It runs, or a reply that is written above it does.
LEMMA TopCallFacts ==
  ASSUME StackOK, NEW t \in Threads, NEW k \in 1..Len(stack[t]), TopCall(t, k)
  PROVE  /\ stack[t] # <<>> /\ Running(t) \in {"call", "reply"}
         /\ Running(t) = "call" => k = Len(stack[t])
         /\ Running(t) = "reply" => k \in 1..(Len(stack[t]) - 1)
<1>1. Len(stack[t]) \in Nat /\ stack[t] # <<>> /\ Running(t) = stack[t][Len(stack[t])].op
  BY RunningFacts
<1>2. k # Len(stack[t]) => Len(stack[t]) \in (k + 1)..((Len(stack[t]) + 1) - 1)
  BY <1>1
<1>3. k # Len(stack[t]) => Running(t) = "reply" /\ k \in 1..(Len(stack[t]) - 1)
  BY <1>1, <1>2 DEF TopCall, RepliesAbove
<1>4. k = Len(stack[t]) => Running(t) = "call"
  BY <1>1 DEF TopCall
<1>5. QED
  BY <1>1, <1>3, <1>4

\* What is queued for a thread is for that call.
LEMMA TodoFacts ==
  ASSUME Shape, NEW t \in Threads, TodoOK(t), todo[t] # <<>>
  PROVE  /\ Running(t) \in {"call", "reply"} /\ stack[t] # <<>>
         /\ Running(t) = "call" => MessageFor(todo[t][1], Last(stack[t]).id)
         /\ Len(todo[t]) = 1
         /\ Head(todo[t]) = todo[t][1] /\ Head(todo[t]) \in Messages /\ Tail(todo[t]) = <<>>
<1>1. PICK k \in 1..Len(stack[t]) : TopCall(t, k) /\ MessageFor(todo[t][1], stack[t][k].id)
  BY DEF TodoOK
<1>2. /\ Running(t) \in {"call", "reply"} /\ stack[t] # <<>>
      /\ Running(t) = "call" => k = Len(stack[t])
  BY <1>1, TopCallFacts DEF Shape
<1>3. Last(stack[t]) = stack[t][Len(stack[t])]
  BY <1>2, RunningFacts DEF Shape
<1>4. HeadIs(t, {Head(todo[t]).msg}) /\ Len(todo[t]) = 1
  BY DEF HeadIs, TodoOK
<1>5. QED
  BY <1>1, <1>2, <1>3, <1>4, HeadFacts DEF Shape

\* A thread that does not take part in a step.
LEMMA Untouched ==
  ASSUME Shape, NEW t \in Threads, ThreadInv(t),
         stack'[t] = stack[t], kstack'[t] = kstack[t], todo'[t] = todo[t],
         \A k \in 1..Len(stack[t]) :
           /\ stack[t][k].op = "call" =>
                /\ call'[stack[t][k].id] = call[stack[t][k].id]
                /\ owner'[stack[t][k].id] = owner[stack[t][k].id]
           /\ stack[t][k].op = "serve" =>
                /\ incoming'[stack[t][k].id] = incoming[stack[t][k].id]
                /\ nested'[stack[t][k].id] = nested[stack[t][k].id],
         todo[t] # <<>> /\ todo[t][1].msg = "TRANSACTION" =>
           /\ incoming'[todo[t][1].id] = incoming[todo[t][1].id]
           /\ nested'[todo[t][1].id] = nested[todo[t][1].id]
  PROVE  ThreadInv(t)'
<1>1. Agrees(t)'
  <2>1. SameCalls(t)
    BY DEF SameCalls
  <2>2. QED
    BY <2>1, AgreesKept DEF Shape, ThreadInv
<1>2. FrameOK(t)'
  BY DEF ThreadInv, FrameOK
<1>3. NestOK(t)'
  <2>1. SUFFICES ASSUME NEW k \in 1..Len(stack[t]), stack[t][k].op = "call",
                        call'[stack[t][k].id] = "sent"
                 PROVE  TopCall(t, k)' \/ \E j \in (k + 1)..Len(stack[t]) : NestsIn(t, k, j)'
    BY DEF NestOK
  <2>2. TopCall(t, k) \/ \E j \in (k + 1)..Len(stack[t]) : NestsIn(t, k, j)
    BY <2>1 DEF ThreadInv, NestOK
  <2>3. TopCall(t, k) => TopCall(t, k)'
    BY DEF TopCall, RepliesAbove
  <2>4. ASSUME NEW j \in (k + 1)..Len(stack[t]), NestsIn(t, k, j) PROVE NestsIn(t, k, j)'
    <3>1. j \in 1..Len(stack[t]) /\ stack[t][j].op = "serve"
      BY <2>4 DEF NestsIn
    <3>2. QED
      BY <2>4, <3>1 DEF NestsIn, RepliesAbove
  <2>5. QED
    BY <2>2, <2>3, <2>4
<1>4. TodoOK(t)'
  <2>1. SUFFICES ASSUME todo[t] # <<>> PROVE TodoOK(t)'
    BY DEF TodoOK
  <2>2. PICK k \in 1..Len(stack[t]) : TopCall(t, k) /\ MessageFor(todo[t][1], stack[t][k].id)
    BY <2>1 DEF ThreadInv, TodoOK
  <2>3. TopCall(t, k)' /\ stack[t][k].op = "call"
    BY <2>2 DEF TopCall, RepliesAbove
  <2>4. MessageFor(todo[t][1], stack[t][k].id)'
    BY <2>1, <2>2, <2>3 DEF MessageFor
  <2>5. QED
    BY <2>1, <2>3, <2>4 DEF ThreadInv, TodoOK
<1>5. QED
  BY <1>1, <1>2, <1>3, <1>4 DEF ThreadInv

\* No handler is put on a stack.
LEMMA FewerServers ==
  ASSUME OneServer,
         \A u \in Threads : \A k \in 1..Len(stack'[u]) :
           stack'[u][k].op = "serve" => \E j \in 1..Len(stack[u]) : stack[u][j] = stack'[u][k]
  PROVE  OneServer'
<1> SUFFICES ASSUME NEW t \in Threads, NEW u \in Threads,
                    NEW j \in 1..Len(stack'[t]), NEW k \in 1..Len(stack'[u]),
                    stack'[t][j].op = "serve", stack'[u][k] = stack'[t][j]
             PROVE  t = u
  BY DEF OneServer
<1>1. PICK a \in 1..Len(stack[t]) : stack[t][a] = stack'[t][j]
  OBVIOUS
<1>2. PICK b \in 1..Len(stack[u]) : stack[u][b] = stack'[u][k]
  OBVIOUS
<1>3. QED
  BY <1>1, <1>2 DEF OneServer
-----------------------------------------------------------------------------
(* Frames that are left.                                                   *)

\* What the driver knows stays: a call that is not answered is still a frame.
LEMMA PopInv ==
  ASSUME Shape, NestedInv, NEW t \in Threads, Pop(t),
         Running(t) \in {"call", "reply", "local"},
         Running(t) = "call" => call[Last(stack[t]).id] # "sent",
         UNCHANGED <<kstack, call, owner, incoming, nested, proc_todo>>,
         todo'[t] = <<>> \/ (todo'[t] = todo[t] /\ Running(t) # "call"),
         \A u \in Threads \ {t} : todo'[u] = todo[u]
  PROVE  (\A u \in Threads : ThreadInv(u)') /\ SentInv' /\ OneServer' /\ ProcInv'
<1> DEFINE n == Len(stack[t])
<1>1. /\ StackOK /\ StackOK' /\ KernelOK /\ n \in Nat /\ n >= 1 /\ stack[t] # <<>>
      /\ Last(stack[t]) = stack[t][n] /\ Running(t) = stack[t][n].op
  BY RunningFacts, PopStack DEF Shape
<1>2. /\ Len(stack'[t]) = n - 1 /\ \A k \in 1..(n - 1) : stack'[t][k] = stack[t][k]
      /\ \A u \in Threads \ {t} : stack'[u] = stack[u]
  BY PopStack DEF Shape
<1>3. \A k \in 1..(n - 1) : k \in 1..n /\ k < n
  BY <1>1
<1>4. ~Counts(stack[t][n])
  BY <1>1 DEF Counts
<1>5. n \in 1..n /\ \A k \in 1..n : k \in 1..(n - 1) \/ k = n
  BY <1>1
<1>6. SentInv'
  <2>1. SUFFICES ASSUME NEW c \in Calls, call[c] = "sent"
                 PROVE  owner[c] \in Threads /\ HasFrame(c)'
    BY DEF SentInv
  <2>2. owner[c] \in Threads /\ HasFrame(c)
    BY <2>1 DEF NestedInv, SentInv
  <2>3. CASE owner[c] # t
    BY <1>2, <2>2, <2>3 DEF HasFrame
  <2>4. CASE owner[c] = t
    <3>1. PICK k \in 1..n : stack[t][k] = Frame("call", c)
      BY <2>2, <2>4 DEF HasFrame
    <3>2. k # n
      BY <1>4, <2>1, <3>1 DEF Counts, Frame
    <3>3. QED
      BY <1>1, <1>2, <1>5, <2>4, <3>1, <3>2 DEF HasFrame
  <2>5. QED
    BY <2>2, <2>3, <2>4
<1>7. Agrees(t)'
  <2>1. SameCalls(t) /\ Agrees(t)
    BY DEF SameCalls, NestedInv, ThreadInv
  <2>2. \A a \in 1..Len(kstack[t]) : ~Match(kstack[t][a], stack[t][n])
    BY <1>1, <1>4, <2>1, MatchFacts
  <2>3. QED
    BY <1>1, <1>2, <2>1, <2>2, AgreesPop
<1>8. FrameOK(t)'
  <2>1. FrameOK(t)
    BY DEF NestedInv, ThreadInv
  <2>2. SUFFICES ASSUME NEW k \in 1..(n - 1)
                 PROVE  /\ stack[t][k].op = "call" =>
                             call[stack[t][k].id] # "unused" /\ owner[stack[t][k].id] = t
                        /\ stack[t][k].op = "serve" => incoming[stack[t][k].id] = "served"
    BY <1>2 DEF FrameOK
  <2>3. k \in 1..n
    BY <1>3
  <2>4. QED
    BY <2>1, <2>3 DEF FrameOK
<1>9. ASSUME NEW k \in 1..(n - 1), TopCall(t, k) PROVE TopCall(t, k)'
  <2>1. \A m \in (k + 1)..((n - 1 + 1) - 1) : m \in (k + 1)..((n + 1) - 1) /\ m \in 1..(n - 1)
    BY <1>1
  <2>2. QED
    BY <1>2, <1>9, <2>1 DEF TopCall, RepliesAbove
<1>10. NestOK(t)'
  <2>1. SUFFICES ASSUME NEW k \in 1..(n - 1), stack[t][k].op = "call",
                        call[stack[t][k].id] = "sent"
                 PROVE  TopCall(t, k)' \/ \E j \in (k + 1)..(n - 1) : NestsIn(t, k, j)'
    BY <1>2 DEF NestOK
  <2>2. TopCall(t, k) \/ \E j \in (k + 1)..n : NestsIn(t, k, j)
    BY <1>3, <2>1 DEF NestedInv, ThreadInv, NestOK
  <2>3. ASSUME NEW j \in (k + 1)..n, NestsIn(t, k, j)
        PROVE  j \in (k + 1)..(n - 1) /\ NestsIn(t, k, j)'
    <3>1. j # n
      BY <1>1, <2>3 DEF NestsIn
    <3>2. j \in (k + 1)..(n - 1) /\ j \in 1..(n - 1)
      BY <1>1, <3>1
    <3>3. \A m \in (k + 1)..(j - 1) : m \in 1..(n - 1)
      BY <1>1, <3>2
    <3>4. QED
      BY <1>2, <2>3, <3>2, <3>3 DEF NestsIn, RepliesAbove
  <2>4. QED
    BY <1>9, <2>2, <2>3
<1>11. TodoOK(t)'
  <2>1. SUFFICES ASSUME todo[t] # <<>>, todo'[t] = todo[t], Running(t) # "call"
                 PROVE  TodoOK(t)'
    BY DEF TodoOK
  <2>2. PICK k \in 1..n : TopCall(t, k) /\ MessageFor(todo[t][1], stack[t][k].id)
    BY <2>1 DEF NestedInv, ThreadInv, TodoOK
  <2>3. k \in 1..(n - 1)
    BY <1>1, <2>1, <2>2, TopCallFacts
  <2>4. TopCall(t, k)' /\ stack'[t][k] = stack[t][k]
    BY <1>2, <1>9, <2>2, <2>3
  <2>5. MessageFor(todo[t][1], stack[t][k].id)'
    BY <2>1, <2>2, <2>4 DEF MessageFor
  <2>6. QED
    BY <1>2, <2>1, <2>3, <2>4, <2>5 DEF NestedInv, ThreadInv, TodoOK
<1>12. ProcInv'
  BY DEF NestedInv, ProcInv
<1>13. \A u \in Threads \ {t} : ThreadInv(u)'
  BY <1>2, Untouched DEF NestedInv
<1>14. OneServer'
  <2>1. \A u \in Threads : \A k \in 1..Len(stack'[u]) :
          k \in 1..Len(stack[u]) /\ stack[u][k] = stack'[u][k]
    BY <1>2, <1>3
  <2>2. QED
    BY <2>1, FewerServers DEF NestedInv
<1>15. QED
  BY <1>6, <1>7, <1>8, <1>10, <1>11, <1>12, <1>13, <1>14 DEF ThreadInv

\* A handler of an own object returns.
LEMMA EndLocalInv ==
  ASSUME Shape, NestedInv, NEW t \in Threads, EndLocal(t)
  PROVE  NestedInv'
<1>1. (\A u \in Threads : ThreadInv(u)') /\ SentInv' /\ OneServer' /\ ProcInv'
  <2>1. todo[t] = <<>>
    BY TodoFacts DEF EndLocal, NestedInv, ThreadInv
  <2>2. QED
    BY <2>1, PopInv DEF EndLocal, kernel_vars
<1>2. QED
  BY <1>1 DEF EndLocal, kernel_vars, NestedInv, ReplyMatchesCall

\* A call returns its reply, or an error.
LEMMA ReturnInv ==
  ASSUME Shape, NestedInv, NEW t \in Threads, ReturnReply(t) \/ ReturnError(t)
  PROVE  NestedInv'
<1> DEFINE c == Last(stack[t]).id
           m == Head(todo[t])
<1>1. /\ Running(t) = "call" /\ todo[t] # <<>> /\ Dequeue(t) /\ Pop(t)
      /\ m.msg \in {"REPLY", "DEAD_REPLY", "FAILED_REPLY"}
  BY DEF ReturnReply, ReturnError, HeadIs
<1>2. UNCHANGED <<kstack, call, owner, incoming, nested, proc_todo, missing>>
  BY DEF ReturnReply, ReturnError
<1>3. m.id = c /\ call[c] = "over" /\ Tail(todo[t]) = <<>>
  BY <1>1, TodoFacts DEF NestedInv, ThreadInv, MessageFor
<1>4. todo'[t] = <<>> /\ \A u \in Threads \ {t} : todo'[u] = todo[u]
  BY <1>1, <1>3, DequeueFacts DEF Shape
<1>5. (\A u \in Threads : ThreadInv(u)') /\ SentInv' /\ OneServer' /\ ProcInv'
  BY <1>1, <1>2, <1>3, <1>4, PopInv
<1>6. ReplyMatchesCall'
  <2>1. result' = [result EXCEPT ![c] = m.id] \/ result' = [result EXCEPT ![c] = "error"]
    BY DEF ReturnReply, ReturnError
  <2>2. QED
    BY <1>3, <2>1 DEF NestedInv, ReplyMatchesCall, Shape
<1>7. QED
  BY <1>2, <1>5, <1>6 DEF NestedInv

\* The read that goes with a reply ends.
LEMMA EndReplyInv ==
  ASSUME Shape, NestedInv, NEW t \in Threads, EndReply(t) \/ DiscardWithReply(t)
  PROVE  NestedInv'
<1>1. /\ Running(t) = "reply" /\ Pop(t)
      /\ UNCHANGED <<kstack, call, owner, incoming, nested, proc_todo, missing, result>>
      /\ todo' = todo \/ (todo[t] # <<>> /\ Dequeue(t))
  BY DEF EndReply, DiscardWithReply, kernel_vars, HeadIs
<1>2. todo[t] # <<>> => Tail(todo[t]) = <<>>
  BY TodoFacts DEF NestedInv, ThreadInv
<1>3. todo'[t] \in {todo[t], <<>>} /\ \A u \in Threads \ {t} : todo'[u] = todo[u]
  BY <1>1, <1>2, DequeueFacts DEF Shape
<1>4. (\A u \in Threads : ThreadInv(u)') /\ SentInv' /\ OneServer' /\ ProcInv'
  BY <1>1, <1>3, PopInv
<1>5. QED
  BY <1>1, <1>4 DEF NestedInv, ReplyMatchesCall

\* A call that was refused for want of space reads on; a looper ignores what is queued.
LEMMA ReadOnInv ==
  ASSUME Shape, NestedInv, NEW t \in Threads, RetryRead(t) \/ DiscardInLoop(t)
  PROVE  NestedInv'
<1>1. /\ UNCHANGED <<thread_vars, proc_todo, kstack, call, owner, incoming, nested, missing>>
      /\ todo[t] # <<>> /\ Dequeue(t)
  BY DEF RetryRead, DiscardInLoop, HeadIs
<1>2. todo'[t] = <<>> /\ \A u \in Threads \ {t} : todo'[u] = todo[u]
  BY <1>1, TodoFacts, DequeueFacts DEF NestedInv, ThreadInv, Shape
<1>3. \A u \in Threads \ {t} : ThreadInv(u)'
  BY <1>1, <1>2, Untouched DEF NestedInv, thread_vars
<1>4. ThreadInv(t)'
  <2>1. Agrees(t)'
    <3>1. SameCalls(t) /\ stack' = stack
      BY <1>1 DEF SameCalls, thread_vars
    <3>2. QED
      BY <1>1, <3>1, AgreesKept DEF NestedInv, ThreadInv, Shape
  <2>2. FrameOK(t)' /\ NestOK(t)'
    <3>1. FrameOK(t) /\ NestOK(t) /\ UNCHANGED <<stack, call, owner, incoming, nested>>
      BY <1>1 DEF NestedInv, ThreadInv, thread_vars
    <3>2. FrameOK(t)'
      BY <3>1 DEF FrameOK
    <3>3. \A k, j : /\ TopCall(t, k)' <=> TopCall(t, k)
                    /\ NestsIn(t, k, j)' <=> NestsIn(t, k, j)
      BY <3>1 DEF TopCall, NestsIn, RepliesAbove
    <3>4. QED
      BY <3>1, <3>2, <3>3 DEF NestOK
  <2>3. TodoOK(t)'
    BY <1>2 DEF TodoOK
  <2>4. QED
    BY <2>1, <2>2, <2>3 DEF ThreadInv
<1>5. SentInv' /\ ProcInv' /\ ReplyMatchesCall'
  BY <1>1 DEF thread_vars, NestedInv, SentInv, HasFrame, ProcInv, ReplyMatchesCall
<1>6. OneServer'
  BY <1>1, FewerServers DEF NestedInv, thread_vars
<1>7. QED
  BY <1>1, <1>3, <1>4, <1>5, <1>6 DEF NestedInv
-----------------------------------------------------------------------------
(* Transactions that are read.                                             *)

\* There is one innermost call.
LEMMA TopCallUnique ==
  ASSUME StackOK, NEW t \in Threads, NEW j \in 1..Len(stack[t]), NEW k \in 1..Len(stack[t]),
         TopCall(t, j), TopCall(t, k)
  PROVE  j = k
<1>1. Len(stack[t]) \in Nat
  BY RunningFacts
<1>2. ASSUME NEW a \in 1..Len(stack[t]), NEW b \in 1..Len(stack[t]), a < b
      PROVE  b \in (a + 1)..((Len(stack[t]) + 1) - 1)
  BY <1>1, <1>2
<1>3. ~(j < k) /\ ~(k < j)
  BY <1>2 DEF TopCall, RepliesAbove
<1>4. QED
  BY <1>1, <1>3

\* A handler starts on top of the call that its peer serves, or of none.
LEMMA ServeInv ==
  ASSUME Shape, NestedInv, NEW t \in Threads, Running(t) \in {"call", "loop", "reply"},
         NEW i \in Incoming, Serve(t, i), incoming[i] = "queued",
         UNCHANGED <<call, owner, nested>>,
         todo'[t] = <<>>, \A u \in Threads \ {t} : todo'[u] = todo[u],
         \A k \in 1..Len(stack[t]) :
           TopCall(t, k) /\ call[stack[t][k].id] = "sent" => nested[i] = {stack[t][k].id},
         \A u \in Threads \ {t} :
           todo[u] # <<>> /\ todo[u][1].msg = "TRANSACTION" => todo[u][1].id # i
  PROVE  /\ \A u \in Threads : ThreadInv(u)'
         /\ SentInv' /\ OneServer' /\ result' = result
         /\ incoming' = [incoming EXCEPT ![i] = "served"]
<1> DEFINE n == Len(stack[t])
           f == Frame("serve", i)
           e == Entry("in", i)
<1>1. /\ incoming' = [incoming EXCEPT ![i] = "served"] /\ result' = result
      /\ KPush(t, e) /\ Push(t, f)
  BY DEF Serve, NestedInv
<1>2. /\ n \in Nat /\ Len(stack'[t]) = n + 1 /\ \A k \in 1..n : stack'[t][k] = stack[t][k]
      /\ stack'[t][n + 1] = f /\ \A u \in Threads \ {t} : stack'[u] = stack[u]
  <2>1. stack[t] # <<>> /\ Last(stack[t]).op \in {"call", "loop", "reply"}
    BY RunningFacts DEF Shape
  <2>2. f.op = "serve" /\ CallerOf("serve") = {"call", "loop", "reply"} /\ f \in Frames
    BY Kinds DEF Frame, CallerOf
  <2>3. QED
    BY <1>1, <2>1, <2>2, PushStack, RunningFacts DEF Shape
<1>3. /\ kstack[t] \in Seq(Entries) /\ Len(kstack[t]) \in Nat
      /\ kstack'[t] = Append(kstack[t], e) /\ \A u \in Threads \ {t} : kstack'[u] = kstack[u]
  BY <1>1, KPushFacts, Kinds, LenProperties DEF Shape, KernelOK
<1>4. /\ Len(kstack'[t]) = Len(kstack[t]) + 1 /\ kstack'[t][Len(kstack[t]) + 1] = e
      /\ \A a \in 1..Len(kstack[t]) : kstack'[t][a] = kstack[t][a]
  BY <1>3, PushFacts, Kinds
<1>5. /\ f.op = "serve" /\ f.id = i /\ Match(e, f) /\ e.dir = "in"
      /\ incoming'[i] = "served" /\ \A j \in Incoming \ {i} : incoming'[j] = incoming[j]
  BY <1>1 DEF Frame, Entry, Match, Shape, KernelOK
<1>6. \A u \in Threads : \A k \in 1..Len(stack[u]) :
        stack[u][k].op = "serve" => stack[u][k].id \in Incoming \ {i}
  <2>1. \A u \in Threads : \A k \in 1..Len(stack[u]) : stack[u][k] \in Frames
    BY ElementOfSeq DEF Shape, StackOK
  <2>2. QED
    BY <2>1, Kinds DEF NestedInv, ThreadInv, FrameOK
<1>7. \A k \in 1..(n + 1) : k \in 1..n \/ k = n + 1
  BY <1>2
<1>8. Agrees(t)'
  <2>1. SameCalls(t) /\ KernelOK /\ Agrees(t)
    BY DEF SameCalls, Shape, NestedInv, ThreadInv
  <2>2. \A k \in 1..n : stack[t][k] # f
    BY <1>5, <1>6
  <2>3. \A a \in 1..Len(kstack[t]) : ~Match(kstack[t][a], f)
    <3>1. SUFFICES ASSUME NEW a \in 1..Len(kstack[t]), Match(kstack[t][a], f) PROVE FALSE
      OBVIOUS
    <3>2. PICK k \in 1..n : Match(kstack[t][a], stack[t][k])
      BY <2>1 DEF Agrees
    <3>3. QED
      BY <2>2, <3>1, <3>2 DEF Match
  <2>4. QED
    BY <1>2, <1>3, <1>4, <1>5, <2>1, <2>2, <2>3, AgreesPushBoth
<1>9. FrameOK(t)'
  <2>1. FrameOK(t)
    BY DEF NestedInv, ThreadInv
  <2>2. SUFFICES ASSUME NEW k \in 1..(n + 1)
                 PROVE  /\ stack'[t][k].op = "call" =>
                             call[stack'[t][k].id] # "unused" /\ owner[stack'[t][k].id] = t
                        /\ stack'[t][k].op = "serve" => incoming'[stack'[t][k].id] = "served"
    BY <1>2 DEF FrameOK
  <2>3. CASE k = n + 1
    BY <1>2, <1>5, <2>3
  <2>4. CASE k \in 1..n
    <3>1. stack'[t][k] = stack[t][k]
      BY <1>2, <2>4
    <3>2. QED
      BY <1>5, <1>6, <2>1, <2>4, <3>1 DEF FrameOK
  <2>5. QED
    BY <1>7, <2>3, <2>4
<1>10. NestOK(t)'
  <2>1. SUFFICES ASSUME NEW k \in 1..n, stack[t][k].op = "call", call[stack[t][k].id] = "sent"
                 PROVE  \E j \in (k + 1)..(n + 1) : NestsIn(t, k, j)'
    BY <1>2, <1>5, <1>7 DEF NestOK
  <2>2. TopCall(t, k) \/ \E j \in (k + 1)..n : NestsIn(t, k, j)
    BY <2>1 DEF NestedInv, ThreadInv, NestOK
  <2>3. CASE TopCall(t, k)
    <3>1. PICK j \in (k + 1)..(n + 1) : j = n + 1
      BY <1>2
    <3>2. \A m \in (k + 1)..(j - 1) : m \in 1..n /\ m \in (k + 1)..((n + 1) - 1)
      BY <1>2, <3>1
    <3>3. RepliesAbove(t, k, j)'
      BY <1>2, <2>3, <3>2 DEF TopCall, RepliesAbove
    <3>4. nested[i] = {stack[t][k].id}
      BY <2>1, <2>3
    <3>5. NestsIn(t, k, j)'
      BY <1>2, <1>5, <3>1, <3>3, <3>4 DEF NestsIn
    <3>6. QED
      BY <3>5
  <2>4. ASSUME NEW j \in (k + 1)..n, NestsIn(t, k, j)
        PROVE  j \in (k + 1)..(n + 1) /\ NestsIn(t, k, j)'
    <3>1. j \in (k + 1)..(n + 1) /\ j \in 1..n /\ \A m \in (k + 1)..(j - 1) : m \in 1..n
      BY <1>2
    <3>2. QED
      BY <1>2, <2>4, <3>1 DEF NestsIn, RepliesAbove
  <2>5. QED
    BY <2>2, <2>3, <2>4
<1>11. TodoOK(t)'
  BY DEF TodoOK
<1>12. ASSUME NEW u \in Threads \ {t} PROVE ThreadInv(u)'
  <2>1. todo[u] # <<>> /\ todo[u][1].msg = "TRANSACTION" => todo[u][1].id \in Incoming \ {i}
    <3>1. todo[u] # <<>> => todo[u][1] \in Messages
      BY TodoFacts DEF NestedInv, ThreadInv
    <3>2. QED
      BY <3>1, Kinds
  <2>2. QED
    BY <1>2, <1>3, <1>5, <1>6, <2>1, Untouched DEF NestedInv
<1>13. SentInv'
  <2>1. SUFFICES ASSUME NEW c \in Calls, owner[c] \in Threads, HasFrame(c) PROVE HasFrame(c)'
    BY DEF NestedInv, SentInv
  <2>2. \A k \in 1..n : k \in 1..(n + 1)
    BY <1>2
  <2>3. QED
    BY <1>2, <2>1, <2>2 DEF HasFrame
<1>14. OneServer'
  <2>1. SUFFICES ASSUME NEW u \in Threads, NEW v \in Threads,
                        NEW j \in 1..Len(stack'[u]), NEW k \in 1..Len(stack'[v]),
                        stack'[u][j].op = "serve", stack'[v][k] = stack'[u][j]
                 PROVE  u = v
    BY DEF OneServer
  <2>2. ASSUME NEW w \in Threads, NEW m \in 1..Len(stack'[w]), stack'[w][m].op = "serve"
        PROVE  IF stack'[w][m].id = i THEN w = t
               ELSE m \in 1..Len(stack[w]) /\ stack[w][m] = stack'[w][m]
    <3>1. CASE w # t
      BY <1>2, <1>6, <2>2, <3>1
    <3>2. CASE w = t
      BY <1>2, <1>5, <1>6, <1>7, <2>2, <3>2
    <3>3. QED
      BY <3>1, <3>2
  <2>3. CASE stack'[u][j].id = i
    BY <2>1, <2>2, <2>3
  <2>4. CASE stack'[u][j].id # i
    BY <2>1, <2>2, <2>4 DEF NestedInv, OneServer
  <2>5. QED
    BY <2>3, <2>4
<1>15. QED
  BY <1>1, <1>8, <1>9, <1>10, <1>11, <1>12, <1>13, <1>14 DEF ThreadInv

\* A thread reads a transaction of the peer that serves its innermost call.
LEMMA ReadTransactionInv ==
  ASSUME Shape, NestedInv, NEW t \in Threads, ReadTransaction(t)
  PROVE  NestedInv'
<1> DEFINE i == Head(todo[t]).id
<1>1. /\ Running(t) \in {"call", "loop", "reply"} /\ Serve(t, i) /\ Dequeue(t)
      /\ todo[t] # <<>> /\ Head(todo[t]).msg = "TRANSACTION"
      /\ UNCHANGED <<call, owner, nested, proc_todo, missing>>
  BY DEF ReadTransaction, Reads, HeadIs
<1>2. Head(todo[t]) = todo[t][1] /\ Head(todo[t]) \in Messages /\ Tail(todo[t]) = <<>>
  BY <1>1, TodoFacts DEF NestedInv, ThreadInv
<1>3. i \in Incoming
  BY <1>1, <1>2, Kinds
<1>4. todo'[t] = <<>> /\ \A u \in Threads \ {t} : todo'[u] = todo[u]
  BY <1>1, <1>2, DequeueFacts DEF Shape
<1>5. ASSUME NEW u \in Threads, todo[u] # <<>>, todo[u][1].msg = "TRANSACTION"
      PROVE  \E k \in 1..Len(stack[u]) :
               /\ TopCall(u, k) /\ owner[stack[u][k].id] = u
               /\ nested[todo[u][1].id] = {stack[u][k].id}
               /\ incoming[todo[u][1].id] = "queued"
  <2>1. PICK k \in 1..Len(stack[u]) : TopCall(u, k) /\ MessageFor(todo[u][1], stack[u][k].id)
    BY <1>5 DEF NestedInv, ThreadInv, TodoOK
  <2>2. owner[stack[u][k].id] = u
    BY <2>1 DEF NestedInv, ThreadInv, FrameOK, TopCall
  <2>3. QED
    BY <1>5, <2>1, <2>2 DEF MessageFor
<1>6. PICK k \in 1..Len(stack[t]) :
        /\ TopCall(t, k) /\ owner[stack[t][k].id] = t
        /\ nested[i] = {stack[t][k].id} /\ incoming[i] = "queued"
  BY <1>1, <1>2, <1>5
<1>7. \A j \in 1..Len(stack[t]) : TopCall(t, j) => nested[i] = {stack[t][j].id}
  BY <1>6, TopCallUnique DEF Shape
<1>8. \A u \in Threads \ {t} :
        todo[u] # <<>> /\ todo[u][1].msg = "TRANSACTION" => todo[u][1].id # i
  <2>1. SUFFICES ASSUME NEW u \in Threads, u # t, todo[u] # <<>>,
                        todo[u][1].msg = "TRANSACTION", todo[u][1].id = i
                 PROVE  FALSE
    OBVIOUS
  <2>2. PICK j \in 1..Len(stack[u]) :
          owner[stack[u][j].id] = u /\ nested[todo[u][1].id] = {stack[u][j].id}
    BY <1>5, <2>1
  <2>3. stack[u][j].id = stack[t][k].id
    BY <1>6, <2>1, <2>2
  <2>4. QED
    BY <1>6, <2>1, <2>2, <2>3
<1>9. /\ \A u \in Threads : ThreadInv(u)'
      /\ SentInv' /\ OneServer' /\ result' = result
      /\ incoming' = [incoming EXCEPT ![i] = "served"]
  <2>1. \A j \in 1..Len(stack[t]) :
          TopCall(t, j) /\ call[stack[t][j].id] = "sent" => nested[i] = {stack[t][j].id}
    BY <1>7
  <2>2. incoming[i] = "queued" /\ UNCHANGED <<call, owner, nested>>
    BY <1>1, <1>6
  <2> HIDE DEF i
  <2>3. QED
    BY <1>1, <1>3, <1>4, <1>8, <2>1, <2>2, ServeInv
<1>10. ProcInv'
  <2>1. \A a \in 1..Len(proc_todo) : proc_todo[a] \in Incoming \ {i}
    <3>1. \A a \in 1..Len(proc_todo) : proc_todo[a] \in Incoming
      BY ElementOfSeq DEF Shape, KernelOK
    <3>2. QED
      BY <1>6, <3>1 DEF NestedInv, ProcInv
  <2>2. incoming'[i] = "served" /\ \A j \in Incoming \ {i} : incoming'[j] = incoming[j]
    BY <1>3, <1>9 DEF Shape, KernelOK
  <2>3. QED
    BY <1>1, <2>1, <2>2 DEF NestedInv, ProcInv
<1>11. QED
  BY <1>1, <1>9, <1>10 DEF NestedInv, ReplyMatchesCall, Shape, KernelOK

\* A thread for which the driver has nothing reads a transaction for the process.
LEMMA ReadProcTransactionInv ==
  ASSUME Shape, NestedInv, NEW t \in Threads, ReadProcTransaction(t)
  PROVE  NestedInv'
<1> DEFINE i == Head(proc_todo)
<1>1. /\ Running(t) \in {"call", "loop"} /\ Serve(t, i)
      /\ todo[t] = <<>> /\ kstack[t] = <<>> /\ todo' = todo
      /\ proc_todo # <<>> /\ proc_todo' = Tail(proc_todo)
      /\ UNCHANGED <<call, owner, nested, missing>>
  BY DEF ReadProcTransaction
<1>2. /\ proc_todo \in Seq(Incoming) /\ Len(proc_todo) \in Nat /\ Len(proc_todo) >= 1
      /\ i = proc_todo[1] /\ i \in Incoming /\ Len(Tail(proc_todo)) = Len(proc_todo) - 1
      /\ \A a \in 1..(Len(proc_todo) - 1) : Tail(proc_todo)[a] = proc_todo[a + 1]
  BY <1>1, TailFacts DEF Shape, KernelOK
<1>3. incoming[i] = "queued" /\ nested[i] = {}
  BY <1>2 DEF NestedInv, ProcInv
<1>4. \A k \in 1..Len(stack[t]) : ~(TopCall(t, k) /\ call[stack[t][k].id] = "sent")
  <2>1. \A k \in 1..Len(stack[t]) : ~Counts(stack[t][k])
    BY <1>1 DEF NestedInv, ThreadInv, Agrees
  <2>2. QED
    BY <2>1 DEF Counts, TopCall
<1>5. \A u \in Threads \ {t} :
        todo[u] # <<>> /\ todo[u][1].msg = "TRANSACTION" => todo[u][1].id # i
  <2>1. SUFFICES ASSUME NEW u \in Threads, todo[u] # <<>>, todo[u][1].msg = "TRANSACTION"
                 PROVE  todo[u][1].id # i
    OBVIOUS
  <2>2. PICK k \in 1..Len(stack[u]) : MessageFor(todo[u][1], stack[u][k].id)
    BY <2>1 DEF NestedInv, ThreadInv, TodoOK
  <2>3. nested[todo[u][1].id] = {stack[u][k].id}
    BY <2>1, <2>2 DEF MessageFor
  <2>4. QED
    BY <1>3, <2>3
<1>6. /\ \A u \in Threads : ThreadInv(u)'
      /\ SentInv' /\ OneServer' /\ result' = result
      /\ incoming' = [incoming EXCEPT ![i] = "served"]
  BY <1>1, <1>2, <1>3, <1>4, <1>5, ServeInv
<1>7. ProcInv'
  <2>1. \A a \in 1..Len(proc_todo') : /\ a + 1 \in 1..Len(proc_todo) /\ a + 1 # 1
                                      /\ proc_todo'[a] = proc_todo[a + 1]
    BY <1>1, <1>2
  <2>2. 1 \in 1..Len(proc_todo)
    BY <1>2
  <2>3. \A a \in 1..Len(proc_todo') : proc_todo'[a] # i
    BY <1>2, <2>1, <2>2 DEF NestedInv, ProcInv
  <2>4. incoming'[i] = "served" /\ \A j \in Incoming \ {i} : incoming'[j] = incoming[j]
    BY <1>2, <1>6 DEF Shape, KernelOK
  <2>5. \A a \in 1..Len(proc_todo') :
          incoming'[proc_todo'[a]] = "queued" /\ nested'[proc_todo'[a]] = {}
    <3>1. \A a \in 1..Len(proc_todo') : proc_todo'[a] \in Incoming \ {i}
      BY <1>2, <2>1, <2>3, ElementOfSeq
    <3>2. \A a \in 1..Len(proc_todo) :
            incoming[proc_todo[a]] = "queued" /\ nested[proc_todo[a]] = {}
      BY DEF NestedInv, ProcInv
    <3>3. QED
      BY <1>1, <2>1, <2>4, <3>1, <3>2
  <2>6. \A a, b \in 1..Len(proc_todo') : proc_todo'[a] = proc_todo'[b] => a = b
    <3>1. SUFFICES ASSUME NEW a \in 1..Len(proc_todo'), NEW b \in 1..Len(proc_todo'),
                          proc_todo'[a] = proc_todo'[b]
                   PROVE  a = b
      OBVIOUS
    <3>2. a + 1 = b + 1
      BY <2>1, <3>1 DEF NestedInv, ProcInv
    <3>3. QED
      BY <3>2
  <2>7. \A j \in Incoming : incoming'[j] = "unused" => nested'[j] = {}
    BY <1>1, <1>3, <2>4 DEF NestedInv, ProcInv
  <2>8. QED
    BY <2>5, <2>6, <2>7 DEF ProcInv
<1>8. QED
  BY <1>1, <1>6, <1>7 DEF NestedInv, ReplyMatchesCall, Shape, KernelOK
-----------------------------------------------------------------------------
(* Calls that are made.                                                    *)

\* A frame of this process's own is put on top.
LEMMA OwnFrame ==
  ASSUME Shape, NestedInv, NEW t \in Threads, Running(t) \in {"app", "serve", "local"},
         NEW f \in Frames, f.op \in {"call", "local"}, Push(t, f),
         f.op = "local" => UNCHANGED <<call, owner>>,
         f.op = "call" =>
           /\ call[f.id] = "unused" /\ call'[f.id] # "unused"
           /\ owner' = [owner EXCEPT ![f.id] = t]
           /\ \A c \in Calls \ {f.id} : call'[c] = call[c],
         \A u \in Threads \ {t} : todo'[u] = todo[u] /\ kstack'[u] = kstack[u],
         UNCHANGED <<incoming, nested, proc_todo>>
  PROVE  /\ Len(stack[t]) \in Nat /\ Len(stack'[t]) = Len(stack[t]) + 1
         /\ \A k \in 1..Len(stack[t]) : stack'[t][k] = stack[t][k]
         /\ f.op = "call" => \A k \in 1..Len(stack[t]) : stack[t][k] # f
         /\ stack'[t][Len(stack[t]) + 1] = f /\ todo[t] = <<>> /\ SameCalls(t)
         /\ FrameOK(t)' /\ NestOK(t)' /\ \A u \in Threads \ {t} : ThreadInv(u)'
         /\ SentInv' /\ OneServer' /\ ProcInv'
<1> DEFINE n == Len(stack[t])
<1>1. /\ n \in Nat /\ Len(stack'[t]) = n + 1 /\ \A k \in 1..n : stack'[t][k] = stack[t][k]
      /\ stack'[t][n + 1] = f /\ \A u \in Threads \ {t} : stack'[u] = stack[u]
  <2>1. CallerOf("call") = {"none", "serve", "local"} /\ CallerOf("local") = CallerOf("call")
    BY DEF CallerOf
  <2>2. IF stack[t] = <<>> THEN "none" \in CallerOf(f.op)
                           ELSE Last(stack[t]).op \in CallerOf(f.op)
    BY <2>1, RunningFacts DEF Shape
  <2>3. QED
    BY <2>2, PushStack, RunningFacts DEF Shape
<1>2. todo[t] = <<>>
  BY TodoFacts DEF NestedInv, ThreadInv
<1>3. \A k \in 1..(n + 1) : k \in 1..n \/ k = n + 1
  BY <1>1
<1>4. f.op = "call" => f.id \in Calls /\ f = Frame("call", f.id)
  BY Kinds
<1>5. \A u \in Threads : \A k \in 1..Len(stack[u]) :
        stack[u][k].op = "call" =>
          /\ stack[u][k].id \in Calls /\ (f.op = "call" => stack[u][k].id # f.id)
          /\ call'[stack[u][k].id] = call[stack[u][k].id]
          /\ owner'[stack[u][k].id] = owner[stack[u][k].id]
  <2>1. SUFFICES ASSUME NEW u \in Threads, NEW k \in 1..Len(stack[u]), stack[u][k].op = "call"
                 PROVE  /\ stack[u][k].id \in Calls /\ (f.op = "call" => stack[u][k].id # f.id)
                        /\ call'[stack[u][k].id] = call[stack[u][k].id]
                        /\ owner'[stack[u][k].id] = owner[stack[u][k].id]
    OBVIOUS
  <2>2. stack[u][k].id \in Calls
    <3>1. stack[u][k] \in Frames
      BY ElementOfSeq DEF Shape, StackOK
    <3>2. QED
      BY <2>1, <3>1, Kinds
  <2>3. call[stack[u][k].id] # "unused"
    BY <2>1 DEF NestedInv, ThreadInv, FrameOK
  <2>4. QED
    BY <2>2, <2>3 DEF Shape, KernelOK
<1>6. SameCalls(t)
  BY <1>5 DEF SameCalls
<1>7. FrameOK(t)'
  <2>1. FrameOK(t)
    BY DEF NestedInv, ThreadInv
  <2>2. f.op = "call" => owner'[f.id] = t
    BY <1>4 DEF Shape, KernelOK
  <2>3. SUFFICES ASSUME NEW k \in 1..(n + 1)
                 PROVE  /\ stack'[t][k].op = "call" =>
                             call'[stack'[t][k].id] # "unused" /\ owner'[stack'[t][k].id] = t
                        /\ stack'[t][k].op = "serve" => incoming[stack'[t][k].id] = "served"
    BY <1>1 DEF FrameOK
  <2>4. CASE k = n + 1
    BY <1>1, <2>2, <2>4
  <2>5. CASE k \in 1..n
    <3>1. stack'[t][k] = stack[t][k]
      BY <1>1, <2>5
    <3>2. QED
      BY <1>5, <2>1, <2>5, <3>1 DEF FrameOK
  <2>6. QED
    BY <1>3, <2>4, <2>5
<1>8. NestOK(t)'
  <2>1. SUFFICES ASSUME NEW k \in 1..(n + 1), stack'[t][k].op = "call",
                        call'[stack'[t][k].id] = "sent"
                 PROVE  TopCall(t, k)' \/ \E j \in (k + 1)..(n + 1) : NestsIn(t, k, j)'
    BY <1>1 DEF NestOK
  <2>2. CASE k = n + 1
    <3>1. \A m : m \notin (k + 1)..((n + 1 + 1) - 1)
      BY <1>1, <2>2
    <3>2. TopCall(t, k)'
      BY <1>1, <2>1, <3>1 DEF TopCall, RepliesAbove
    <3>3. QED
      BY <3>2
  <2>3. CASE k \in 1..n
    <3>1. stack[t][k].op = "call" /\ call[stack[t][k].id] = "sent"
      BY <1>1, <1>5, <2>1, <2>3
    <3>2. PICK j \in (k + 1)..n : NestsIn(t, k, j)
      BY <2>3, <3>1, TopCallFacts DEF NestedInv, ThreadInv, NestOK, Shape
    <3>3. j \in (k + 1)..(n + 1) /\ j \in 1..n /\ \A m \in (k + 1)..(j - 1) : m \in 1..n
      BY <1>1, <2>3
    <3>4. NestsIn(t, k, j)'
      BY <1>1, <2>3, <3>2, <3>3 DEF NestsIn, RepliesAbove
    <3>5. QED
      BY <3>3, <3>4
  <2>4. QED
    BY <1>3, <2>2, <2>3
<1>9. \A u \in Threads \ {t} : ThreadInv(u)'
  BY <1>1, <1>5, Untouched DEF NestedInv
<1>10. SentInv'
  <2>1. SUFFICES ASSUME NEW c \in Calls, call'[c] = "sent"
                 PROVE  owner'[c] \in Threads /\ HasFrame(c)'
    BY DEF SentInv
  <2>2. CASE f.op = "call" /\ c = f.id
    <3>1. owner'[c] = t /\ n + 1 \in 1..Len(stack'[t])
      BY <1>1, <2>2 DEF Shape, KernelOK
    <3>2. QED
      BY <1>1, <1>4, <2>2, <3>1 DEF HasFrame
  <2>3. CASE f.op # "call" \/ c # f.id
    <3>1. call'[c] = call[c] /\ owner'[c] = owner[c]
      BY <2>3 DEF Shape, KernelOK
    <3>2. owner[c] \in Threads /\ HasFrame(c)
      BY <2>1, <3>1 DEF NestedInv, SentInv
    <3>3. \A k \in 1..n : k \in 1..(n + 1)
      BY <1>1
    <3>4. QED
      BY <1>1, <3>1, <3>2, <3>3 DEF HasFrame
  <2>4. QED
    BY <2>2, <2>3
<1>11. OneServer'
  <2>1. \A u \in Threads : \A k \in 1..Len(stack'[u]) :
          stack'[u][k].op = "serve" => \E j \in 1..Len(stack[u]) : stack[u][j] = stack'[u][k]
    BY <1>1, <1>3
  <2>2. QED
    BY <2>1, FewerServers DEF NestedInv
<1>12. ProcInv'
  BY DEF NestedInv, ProcInv
<1>13. f.op = "call" => \A k \in 1..n : stack[t][k] # f
  BY <1>5
<1>14. QED
  BY <1>1, <1>2, <1>6, <1>7, <1>8, <1>9, <1>10, <1>11, <1>12, <1>13

\* A handler of an own object starts.
LEMMA StartLocalInv ==
  ASSUME Shape, NestedInv, NEW t \in Threads, StartLocal(t)
  PROVE  NestedInv'
<1> DEFINE f == Frame("local", NoThread)
<1>1. /\ Running(t) \in {"app", "serve", "local"}
      /\ f \in Frames /\ f.op = "local" /\ Push(t, f)
      /\ UNCHANGED <<call, owner, todo, kstack, incoming, nested, proc_todo, missing, result>>
  BY Kinds DEF StartLocal, Frame, kernel_vars
<1>2. /\ Len(stack[t]) \in Nat /\ Len(stack'[t]) = Len(stack[t]) + 1
      /\ \A k \in 1..Len(stack[t]) : stack'[t][k] = stack[t][k]
      /\ stack'[t][Len(stack[t]) + 1] = f /\ todo[t] = <<>> /\ SameCalls(t)
      /\ FrameOK(t)' /\ NestOK(t)' /\ \A u \in Threads \ {t} : ThreadInv(u)'
      /\ SentInv' /\ OneServer' /\ ProcInv'
  BY <1>1, OwnFrame
<1>3. Agrees(t)'
  <2>1. ~StillCounts(f) /\ \A e : ~Match(e, f)
    BY <1>1 DEF StillCounts, Match, Frame
  <2>2. QED
    BY <1>1, <1>2, <2>1, AgreesPush DEF Shape, NestedInv, ThreadInv
<1>4. TodoOK(t)'
  BY <1>1, <1>2 DEF TodoOK
<1>5. QED
  BY <1>1, <1>2, <1>3, <1>4 DEF NestedInv, ThreadInv, ReplyMatchesCall

\* A call is sent, or refused at once by the driver.
LEMMA StartCallInv ==
  ASSUME Shape, NestedInv, NEW t \in Threads, NEW c \in Calls, StartCall(t, c)
  PROVE  NestedInv'
<1> DEFINE f == Frame("call", c)
<1>1. /\ Running(t) \in {"app", "serve", "local"} /\ Push(t, f) /\ call[c] = "unused"
      /\ owner' = [owner EXCEPT ![c] = t]
      /\ UNCHANGED <<incoming, nested, proc_todo, missing, result>>
  BY DEF StartCall
<1>2. f \in Frames /\ f.op = "call" /\ f.id = c
  BY Kinds DEF Frame
<1>3. \/ \E m \in Messages :
           /\ Queue(t, m) /\ kstack' = kstack
           /\ \/ call' = [call EXCEPT ![c] = "over"] /\ m.msg = "FAILED_REPLY" /\ m.id = c
              \/ call' = [call EXCEPT ![c] = "full"] /\ m.msg = "NOSPC" /\ m.id = c
      \/ todo' = todo /\ call' = [call EXCEPT ![c] = "sent"] /\ KPush(t, Entry("out", c))
  <2>1. Message("FAILED_REPLY", c) \in Messages /\ Message("NOSPC", c) \in Messages
    BY Kinds
  <2>2. /\ Message("FAILED_REPLY", c).msg = "FAILED_REPLY" /\ Message("FAILED_REPLY", c).id = c
        /\ Message("NOSPC", c).msg = "NOSPC" /\ Message("NOSPC", c).id = c
    BY DEF Message
  <2>3. QED
    BY <2>1, <2>2 DEF StartCall
<1>4. \A u \in Threads \ {t} : todo'[u] = todo[u] /\ kstack'[u] = kstack[u]
  BY <1>3, QueueFacts, KPushFacts, Kinds DEF Shape
<1>5. call'[c] \in {"over", "full", "sent"} /\ \A d \in Calls \ {c} : call'[d] = call[d]
  BY <1>3 DEF Shape, KernelOK
<1>6. /\ Len(stack[t]) \in Nat /\ Len(stack'[t]) = Len(stack[t]) + 1
      /\ \A k \in 1..Len(stack[t]) : stack'[t][k] = stack[t][k] /\ stack[t][k] # f
      /\ stack'[t][Len(stack[t]) + 1] = f /\ todo[t] = <<>> /\ SameCalls(t)
      /\ FrameOK(t)' /\ NestOK(t)' /\ \A u \in Threads \ {t} : ThreadInv(u)'
      /\ SentInv' /\ OneServer' /\ ProcInv'
  BY <1>1, <1>2, <1>4, <1>5, OwnFrame
<1>7. KernelOK /\ Agrees(t)
  BY DEF Shape, NestedInv, ThreadInv
<1>8. \A a \in 1..Len(kstack[t]) : ~Match(kstack[t][a], f)
  BY <1>1, <1>2, <1>7, MatchFacts DEF Counts
<1>9. CASE todo' = todo /\ call' = [call EXCEPT ![c] = "sent"] /\ KPush(t, Entry("out", c))
  <2> DEFINE e == Entry("out", c)
  <2>1. e \in Entries /\ e.dir = "out" /\ e.id = c /\ Match(e, f) /\ call'[c] = "sent"
    BY <1>9, Kinds DEF Entry, Match, Shape, KernelOK
  <2>2. /\ kstack[t] \in Seq(Entries) /\ Len(kstack[t]) \in Nat
        /\ kstack'[t] = Append(kstack[t], e)
    BY <1>9, <2>1, KPushFacts, LenProperties DEF Shape, KernelOK
  <2>3. /\ Len(kstack'[t]) = Len(kstack[t]) + 1 /\ kstack'[t][Len(kstack[t]) + 1] = e
        /\ \A a \in 1..Len(kstack[t]) : kstack'[t][a] = kstack[t][a]
    BY <2>1, <2>2, PushFacts
  <2>4. Agrees(t)'
    BY <1>6, <1>7, <1>8, <2>1, <2>2, <2>3, AgreesPushBoth
  <2>5. TodoOK(t)'
    BY <1>6, <1>9 DEF TodoOK
  <2>6. QED
    BY <1>1, <1>6, <2>4, <2>5 DEF NestedInv, ThreadInv, ReplyMatchesCall
<1>10. ASSUME NEW m \in Messages, Queue(t, m), kstack' = kstack,
              m.id = c, \/ call'[c] = "over" /\ m.msg = "FAILED_REPLY"
                        \/ call'[c] = "full" /\ m.msg = "NOSPC"
       PROVE  NestedInv'
  <2>1. ~StillCounts(f)
    BY <1>2, <1>10 DEF StillCounts
  <2>2. Agrees(t)'
    BY <1>6, <1>7, <1>8, <1>10, <2>1, AgreesPush
  <2>3. Len(todo'[t]) = 1 /\ todo'[t][1] = m
    <3>1. todo'[t] = Append(<<>>, m)
      BY <1>6, <1>10, QueueFacts DEF Shape
    <3>2. QED
      BY <3>1
  <2>4. TodoOK(t)'
    <3>1. PICK k \in 1..Len(stack'[t]) : k = Len(stack[t]) + 1
      BY <1>6
    <3>2. \A j : j \notin (k + 1)..((Len(stack'[t]) + 1) - 1)
      BY <1>6, <3>1
    <3>3. TopCall(t, k)' /\ stack'[t][k].id = c
      BY <1>2, <1>6, <3>1, <3>2 DEF TopCall, RepliesAbove
    <3>4. MessageFor(m, c)'
      BY <1>10 DEF MessageFor
    <3>5. QED
      BY <2>3, <3>3, <3>4 DEF TodoOK
  <2>5. QED
    BY <1>1, <1>6, <2>2, <2>4 DEF NestedInv, ThreadInv, ReplyMatchesCall
<1>11. QED
  <2>1. \A v \in {"over", "full"} : call' = [call EXCEPT ![c] = v] => call'[c] = v
    BY DEF Shape, KernelOK
  <2>2. QED
    BY <1>3, <1>9, <1>10, <2>1
-----------------------------------------------------------------------------
(* Transactions that are answered.                                         *)

\* A handler replies to the transaction on top of the driver's stack.
LEMMA WriteReplyInv ==
  ASSUME Shape, NestedInv, NEW t \in Threads, WriteReply(t)
  PROVE  NestedInv'
<1> DEFINE n == Len(stack[t])
           i == Last(stack[t]).id
           f == Frame("reply", i)
<1>1. /\ n \in Nat /\ n >= 1 /\ n \in 1..n /\ Last(stack[t]) = stack[t][n]
      /\ stack[t][n].op = "serve" /\ stack[t][n].id = i /\ i \in Incoming
      /\ stack[t][n] = Frame("serve", i) /\ Running(t) = "serve"
  <2>1. Running(t) = "serve" /\ stack[t] # <<>>
    BY RunningFacts DEF WriteReply, Shape
  <2>2. /\ n \in Nat /\ n # 0 /\ Last(stack[t]) = stack[t][n] /\ Last(stack[t]) \in Frames
        /\ stack[t][n].op = "serve"
    BY <2>1, RunningFacts DEF Shape
  <2>3. QED
    BY <2>1, <2>2, Kinds
<1>2. KernelOK /\ Agrees(t) /\ FrameOK(t) /\ NestOK(t) /\ TodoOK(t)
  BY DEF Shape, NestedInv, ThreadInv
<1>3. /\ kstack[t] # <<>> /\ Last(kstack[t]) = kstack[t][Len(kstack[t])]
      /\ Len(kstack[t]) \in 1..Len(kstack[t]) /\ Match(Last(kstack[t]), stack[t][n])
  <2>1. Counts(stack[t][n]) /\ \A j \in 1..n : ~(j > n)
    BY <1>1 DEF Counts
  <2>2. QED
    BY <1>1, <1>2, <2>1, TopEntry
<1>4. kstack[t] \in Seq(Entries) /\ Len(kstack[t]) \in Nat /\ Last(kstack[t]) \in Entries
  BY <1>2, <1>3, PopFacts DEF KernelOK
<1>5. KTopIs(t, Entry("in", i))
  <2>1. Last(kstack[t]).dir = "in" /\ Last(kstack[t]).id = i
    <3>1. \A op, id, p, j : Frame(op, id) = Frame(p, j) => op = p /\ id = j
      BY DEF Frame
    <3>3. CASE Last(kstack[t]).dir = "in"
      <4>1. Frame("serve", i) = Frame("serve", Last(kstack[t]).id)
        BY <1>1, <1>3, <3>3 DEF Match
      <4>2. QED
        BY <3>1, <3>3, <4>1
    <3>4. CASE Last(kstack[t]).dir # "in"
      <4>1. Frame("serve", i) = Frame("call", Last(kstack[t]).id)
        BY <1>1, <1>3, <3>4 DEF Match
      <4>2. QED
        BY <3>1, <4>1
    <3>5. QED
      BY <3>3, <3>4
  <2>2. QED
    BY <1>3, <1>4, <2>1, Kinds DEF KTopIs
<1>6. /\ Top(t, f) /\ KPop(t) /\ incoming' = [incoming EXCEPT ![i] = "answered"]
      /\ UNCHANGED <<todo, proc_todo, call, owner, result, nested, missing>>
  BY <1>5 DEF WriteReply
<1>7. /\ Len(stack'[t]) = n /\ \A k \in 1..(n - 1) : stack'[t][k] = stack[t][k]
      /\ stack'[t][n] = f /\ f.op = "reply"
      /\ \A u \in Threads \ {t} : stack'[u] = stack[u]
  BY <1>1, <1>6, TopStack DEF Shape, Frame
<1>8. /\ Len(kstack'[t]) = Len(kstack[t]) - 1
      /\ \A a \in 1..(Len(kstack[t]) - 1) : kstack'[t][a] = kstack[t][a]
      /\ \A u \in Threads \ {t} : kstack'[u] = kstack[u]
  BY <1>2, <1>3, <1>4, <1>6, KPopFacts, PopFacts
<1>9. /\ incoming[i] = "served" /\ incoming'[i] = "answered"
      /\ \A j \in Incoming \ {i} : incoming'[j] = incoming[j]
  <2>1. incoming[i] = "served"
    BY <1>1, <1>2 DEF FrameOK
  <2>2. QED
    BY <1>1, <1>2, <1>6, <2>1 DEF KernelOK
<1>10. \A k \in 1..n : k \in 1..(n - 1) \/ k = n
  BY <1>1
<1>11. \A k \in 1..(n - 1) : k \in 1..n /\ k # n
  BY <1>1
<1>12. Agrees(t)'
  <2>1. SameCalls(t)
    BY <1>6 DEF SameCalls
  <2>2. Len(kstack[t]) >= 1
    BY <1>3, <1>4
  <2>3. QED
    BY <1>1, <1>2, <1>3, <1>4, <1>7, <1>8, <2>1, <2>2, AgreesReply
<1>13. \A u \in Threads : \A k \in 1..Len(stack[u]) :
         stack[u][k].op = "serve" /\ stack[u][k].id = i => u = t /\ k = n
  <2>1. SUFFICES ASSUME NEW u \in Threads, NEW k \in 1..Len(stack[u]),
                        stack[u][k].op = "serve", stack[u][k].id = i
                 PROVE  u = t /\ k = n
    OBVIOUS
  <2>2. stack[u][k] = stack[t][n]
    <3>1. stack[u][k] \in Frames
      BY ElementOfSeq DEF Shape, StackOK
    <3>2. QED
      BY <1>1, <2>1, <3>1, Kinds
  <2>3. u = t
    BY <1>1, <2>1, <2>2 DEF NestedInv, OneServer
  <2>4. ~(k < n)
    <3>1. ~(Len(kstack[t]) < Len(kstack[t]))
      BY <1>4
    <3>2. Match(kstack[t][Len(kstack[t])], stack[t][k]) /\ k \in 1..n
      BY <1>3, <2>2, <2>3
    <3>3. \A a, b \in 1..Len(kstack[t]), j, m \in 1..n :
            Match(kstack[t][a], stack[t][j]) /\ Match(kstack[t][b], stack[t][m])
              => (a < b <=> j < m)
      BY <1>2, Zenon DEF Agrees
    <3>4. Match(kstack[t][Len(kstack[t])], stack[t][n])
      BY <1>3
    <3>5. Len(kstack[t]) < Len(kstack[t]) <=> k < n
      BY <1>1, <1>3, <3>2, <3>3, <3>4, Zenon
    <3>6. QED
      BY <3>1, <3>5
  <2>5. QED
    BY <1>1, <2>3, <2>4
<1>14. FrameOK(t)'
  <2>1. SUFFICES ASSUME NEW k \in 1..n
                 PROVE  /\ stack'[t][k].op = "call" =>
                             call[stack'[t][k].id] # "unused" /\ owner[stack'[t][k].id] = t
                        /\ stack'[t][k].op = "serve" => incoming'[stack'[t][k].id] = "served"
    BY <1>6, <1>7 DEF FrameOK
  <2>2. CASE k = n
    BY <1>7, <2>2
  <2>3. CASE k \in 1..(n - 1)
    <3>1. stack'[t][k] = stack[t][k] /\ k \in 1..n /\ k # n
      BY <1>7, <1>11, <2>3
    <3>2. stack[t][k].op = "serve" => stack[t][k].id \in Incoming \ {i}
      <4>1. stack[t][k] \in Frames
        BY <3>1, ElementOfSeq DEF Shape, StackOK
      <4>2. QED
        BY <1>13, <3>1, <4>1, Kinds
    <3>3. QED
      BY <1>2, <1>9, <3>1, <3>2 DEF FrameOK
  <2>4. QED
    BY <1>10, <2>2, <2>3
<1>15. NestOK(t)'
  <2>1. SUFFICES ASSUME NEW k \in 1..n, stack'[t][k].op = "call",
                        call[stack'[t][k].id] = "sent"
                 PROVE  TopCall(t, k)' \/ \E j \in (k + 1)..n : NestsIn(t, k, j)'
    BY <1>6, <1>7 DEF NestOK
  <2>2. k \in 1..(n - 1) /\ stack'[t][k] = stack[t][k]
    BY <1>7, <1>10, <2>1
  <2>3. PICK j \in (k + 1)..n : NestsIn(t, k, j)
    BY <1>1, <1>2, <2>1, <2>2, TopCallFacts DEF NestOK, Shape
  <2>4. \A m \in (k + 1)..(j - 1) : m \in 1..(n - 1)
    BY <1>1, <2>2
  <2>5. CASE j = n
    <3>1. \A m \in (k + 1)..((n + 1) - 1) : m \in (k + 1)..(j - 1) \/ m = n
      BY <1>1, <2>5
    <3>2. \A m \in (k + 1)..((n + 1) - 1) : stack'[t][m].op = "reply"
      BY <1>7, <2>3, <2>4, <3>1 DEF NestsIn, RepliesAbove
    <3>3. TopCall(t, k)'
      BY <1>7, <2>1, <3>2 DEF TopCall, RepliesAbove
    <3>4. QED
      BY <3>3
  <2>6. CASE j # n
    <3>1. j \in 1..(n - 1)
      BY <1>1, <2>2, <2>6
    <3>2. NestsIn(t, k, j)'
      BY <1>6, <1>7, <2>2, <2>3, <2>4, <3>1 DEF NestsIn, RepliesAbove
    <3>3. QED
      BY <3>2
  <2>7. QED
    BY <2>5, <2>6
<1>16. TodoOK(t)'
  BY <1>1, <1>2, <1>6, TodoFacts DEF TodoOK
<1>17. ASSUME NEW u \in Threads \ {t} PROVE ThreadInv(u)'
  <2>1. \A k \in 1..Len(stack[u]) :
          stack[u][k].op = "serve" => stack[u][k].id \in Incoming \ {i}
    <3>1. \A k \in 1..Len(stack[u]) : stack[u][k] \in Frames
      BY ElementOfSeq DEF Shape, StackOK
    <3>2. QED
      BY <1>13, <3>1, Kinds
  <2>2. todo[u] # <<>> /\ todo[u][1].msg = "TRANSACTION" => todo[u][1].id \in Incoming \ {i}
    <3>1. todo[u] # <<>> => todo[u][1] \in Messages
      BY TodoFacts DEF NestedInv, ThreadInv
    <3>2. todo[u] # <<>> /\ todo[u][1].msg = "TRANSACTION" => todo[u][1].id # i
      BY <1>9 DEF NestedInv, ThreadInv, TodoOK, MessageFor
    <3>3. QED
      BY <3>1, <3>2, Kinds
  <2>3. QED
    BY <1>6, <1>7, <1>8, <1>9, <2>1, <2>2, Untouched DEF NestedInv
<1>18. SentInv'
  <2>1. SUFFICES ASSUME NEW c \in Calls, owner[c] \in Threads, HasFrame(c)
                 PROVE  HasFrame(c)'
    BY <1>6 DEF NestedInv, SentInv
  <2>2. CASE owner[c] # t
    BY <1>6, <1>7, <2>1, <2>2 DEF HasFrame
  <2>3. CASE owner[c] = t
    <3>1. PICK k \in 1..n : stack[t][k] = Frame("call", c)
      BY <2>1, <2>3 DEF HasFrame
    <3>2. Frame("call", c) # Frame("serve", i)
      BY DEF Frame
    <3>3. k \in 1..(n - 1)
      BY <1>1, <1>10, <3>1, <3>2
    <3>4. k \in 1..n
      OBVIOUS
    <3>5. QED
      BY <1>6, <1>7, <2>3, <3>1, <3>3, <3>4 DEF HasFrame
  <2>4. QED
    BY <2>2, <2>3
<1>19. OneServer'
  <2>1. \A u \in Threads : \A k \in 1..Len(stack'[u]) :
          stack'[u][k].op = "serve" => \E j \in 1..Len(stack[u]) : stack[u][j] = stack'[u][k]
    BY <1>7, <1>10
  <2>2. QED
    BY <2>1, FewerServers DEF NestedInv
<1>20. ProcInv'
  <2>1. \A a \in 1..Len(proc_todo) : proc_todo[a] \in Incoming \ {i}
    <3>1. \A a \in 1..Len(proc_todo) : proc_todo[a] \in Incoming
      BY ElementOfSeq DEF Shape, KernelOK
    <3>2. QED
      BY <1>9, <3>1 DEF NestedInv, ProcInv
  <2>2. QED
    BY <1>6, <1>9, <2>1 DEF NestedInv, ProcInv
<1>21. QED
  BY <1>6, <1>9, <1>12, <1>14, <1>15, <1>16, <1>17, <1>18, <1>19, <1>20
  DEF NestedInv, ThreadInv, ReplyMatchesCall

\* A call that is not answered, while its peer has nothing unanswered here, is the
\* innermost call of its thread, and nothing is queued for that thread.
LEMMA CallerFacts ==
  ASSUME Shape, NestedInv, NEW c \in Calls, call[c] = "sent", PeerIsFree(c)
  PROVE  /\ owner[c] \in Threads /\ todo[owner[c]] = <<>>
         /\ \E k \in 1..Len(stack[owner[c]]) :
              stack[owner[c]][k] = Frame("call", c) /\ TopCall(owner[c], k)
<1> DEFINE t == owner[c]
<1>1. t \in Threads /\ HasFrame(c)
  BY DEF NestedInv, SentInv
<1>2. PICK k \in 1..Len(stack[t]) : stack[t][k] = Frame("call", c)
  BY <1>1 DEF HasFrame
<1>3. stack[t][k].op = "call" /\ stack[t][k].id = c
  BY <1>2 DEF Frame
<1>4. ASSUME NEW i \in Incoming, nested[i] = {c} PROVE incoming[i] \in {"answered", "unused"}
  BY <1>4 DEF PeerIsFree
<1>5. ASSUME NEW j \in (k + 1)..Len(stack[t]) PROVE ~NestsIn(t, k, j)
  <2>1. j \in 1..Len(stack[t]) /\ stack[t][j] \in Frames
    <3>1. j \in 1..Len(stack[t])
      BY <1>1, RunningFacts DEF Shape
    <3>2. QED
      BY <1>1, <3>1, ElementOfSeq DEF Shape, StackOK
  <2>2. stack[t][j].op = "serve" =>
          stack[t][j].id \in Incoming /\ incoming[stack[t][j].id] = "served"
    BY <1>1, <2>1, Kinds DEF NestedInv, ThreadInv, FrameOK
  <2>3. QED
    BY <1>3, <1>4, <2>2 DEF NestsIn
<1>6. TopCall(t, k)
  BY <1>1, <1>3, <1>5 DEF NestedInv, ThreadInv, NestOK
<1>7. todo[t] = <<>>
  <2>1. SUFFICES ASSUME todo[t] # <<>> PROVE FALSE
    OBVIOUS
  <2>2. PICK j \in 1..Len(stack[t]) : TopCall(t, j) /\ MessageFor(todo[t][1], stack[t][j].id)
    BY <1>1, <2>1 DEF NestedInv, ThreadInv, TodoOK
  <2>3. j = k
    BY <1>1, <1>6, <2>2, TopCallUnique DEF Shape
  <2>4. MessageFor(todo[t][1], c)
    BY <1>3, <2>2, <2>3
  <2>5. todo[t][1].msg = "TRANSACTION" => todo[t][1].id \in Incoming
    <3>1. todo[t][1] \in Messages
      BY <1>1, <2>1, TodoFacts DEF NestedInv, ThreadInv
    <3>2. QED
      BY <3>1, Kinds
  <2>6. QED
    BY <1>4, <2>4, <2>5 DEF MessageFor
<1>8. QED
  BY <1>1, <1>2, <1>6, <1>7
-----------------------------------------------------------------------------
(* Peers and driver.                                                       *)

\* The peer of a call calls back, to the thread that waits for it.
LEMMA CallBackInv ==
  ASSUME Shape, NestedInv, "missing" \notin trouble, NEW c \in Calls, NEW i \in Incoming,
         CallBack(c, i)
  PROVE  NestedInv'
<1> DEFINE t == owner[c]
           m == Message("TRANSACTION", i)
<1>1. /\ call[c] = "sent" /\ PeerIsFree(c) /\ incoming[i] = "unused"
      /\ incoming' = [incoming EXCEPT ![i] = "queued"] /\ nested' = [nested EXCEPT ![i] = {c}]
      /\ missing' = missing /\ Queue(t, m)
      /\ UNCHANGED <<thread_vars, proc_todo, kstack, call, owner>>
  BY DEF CallBack
<1>2. /\ incoming'[i] = "queued" /\ nested'[i] = {c}
      /\ \A j \in Incoming \ {i} : incoming'[j] = incoming[j] /\ nested'[j] = nested[j]
  BY <1>1 DEF Shape, KernelOK
<1>3. PICK k \in 1..Len(stack[t]) : stack[t][k] = Frame("call", c) /\ TopCall(t, k)
  BY <1>1, CallerFacts
<1>4. t \in Threads /\ todo[t] = <<>> /\ stack[t][k].id = c /\ stack' = stack
  BY <1>1, <1>3, CallerFacts DEF Frame, thread_vars
<1>5. m \in Messages /\ m.msg = "TRANSACTION" /\ m.id = i
  BY Kinds DEF Message
<1>6. todo'[t] = <<m>> /\ \A u \in Threads \ {t} : todo'[u] = todo[u]
  <2>1. todo'[t] = Append(<<>>, m) /\ \A u \in Threads \ {t} : todo'[u] = todo[u]
    BY <1>1, <1>4, <1>5, QueueFacts DEF Shape
  <2>2. QED
    BY <2>1
<1>7. \A u \in Threads : \A j \in 1..Len(stack[u]) :
        stack[u][j].op = "serve" => stack[u][j].id \in Incoming \ {i}
  <2>1. \A u \in Threads : \A j \in 1..Len(stack[u]) : stack[u][j] \in Frames
    BY ElementOfSeq DEF Shape, StackOK
  <2>2. QED
    BY <1>1, <2>1, Kinds DEF NestedInv, ThreadInv, FrameOK
<1>8. ASSUME NEW u \in Threads \ {t} PROVE ThreadInv(u)'
  <2>1. todo[u] # <<>> /\ todo[u][1].msg = "TRANSACTION" => todo[u][1].id \in Incoming \ {i}
    <3>1. todo[u] # <<>> => todo[u][1] \in Messages
      BY TodoFacts DEF NestedInv, ThreadInv
    <3>2. todo[u] # <<>> /\ todo[u][1].msg = "TRANSACTION" => todo[u][1].id # i
      BY <1>1 DEF NestedInv, ThreadInv, TodoOK, MessageFor
    <3>3. QED
      BY <3>1, <3>2, Kinds
  <2>2. QED
    BY <1>1, <1>2, <1>4, <1>6, <1>7, <2>1, Untouched DEF NestedInv
<1>9. Agrees(t)'
  <2>1. SameCalls(t)
    BY <1>1 DEF SameCalls
  <2>2. QED
    BY <1>1, <1>4, <2>1, AgreesKept DEF Shape, NestedInv, ThreadInv
<1>10. FrameOK(t)' /\ NestOK(t)'
  <2>1. FrameOK(t) /\ NestOK(t)
    BY <1>4 DEF NestedInv, ThreadInv
  <2>2. FrameOK(t)'
    BY <1>1, <1>2, <1>4, <1>7, <2>1 DEF FrameOK
  <2>3. ASSUME NEW j \in 1..Len(stack[t]), TopCall(t, j) PROVE TopCall(t, j)'
    BY <1>4, <2>3, <1>1 DEF TopCall, RepliesAbove
  <2>4. ASSUME NEW j \in 1..Len(stack[t]), NEW n \in (j + 1)..Len(stack[t]), NestsIn(t, j, n)
        PROVE  NestsIn(t, j, n)'
    <3>1. n \in 1..Len(stack[t])
      BY <1>4, RunningFacts DEF Shape
    <3>2. QED
      BY <1>1, <1>2, <1>4, <1>7, <2>4, <3>1 DEF NestsIn, RepliesAbove
  <2>5. QED
    BY <1>1, <1>4, <2>1, <2>2, <2>3, <2>4 DEF NestOK
<1>11. TodoOK(t)'
  <2>1. TopCall(t, k)' /\ MessageFor(m, c)'
    BY <1>1, <1>2, <1>3, <1>4, <1>5 DEF TopCall, RepliesAbove, MessageFor
  <2>2. QED
    BY <1>1, <1>4, <1>6, <2>1 DEF TodoOK
<1>12. ProcInv'
  <2>1. \A a \in 1..Len(proc_todo) : proc_todo[a] \in Incoming
    BY ElementOfSeq DEF Shape, KernelOK
  <2>2. \A a \in 1..Len(proc_todo) : proc_todo[a] \in Incoming \ {i}
    BY <1>1, <2>1 DEF NestedInv, ProcInv
  <2>3. QED
    BY <1>1, <1>2, <2>2 DEF NestedInv, ProcInv
<1>13. SentInv' /\ OneServer'
  BY <1>1, <1>4, FewerServers DEF NestedInv, SentInv, HasFrame
<1>14. (\A j \in Incoming : incoming'[j] # "refused") /\ ReplyMatchesCall' /\ missing' = {}
  BY <1>1, <1>2 DEF NestedInv, ReplyMatchesCall, thread_vars
<1>15. QED
  BY <1>1, <1>4, <1>8, <1>9, <1>10, <1>11, <1>12, <1>13, <1>14 DEF NestedInv, ThreadInv

\* A peer sends a transaction to the process.
LEMMA ArriveInv ==
  ASSUME Shape, NestedInv, "missing" \notin trouble, NEW i \in Incoming, Arrive(i)
  PROVE  NestedInv'
<1>1. /\ incoming[i] = "unused" /\ incoming' = [incoming EXCEPT ![i] = "queued"]
      /\ missing' = missing /\ proc_todo' = Append(proc_todo, i)
      /\ UNCHANGED <<thread_vars, todo, kstack, call, owner, nested>>
  BY DEF Arrive
<1>2. /\ incoming'[i] = "queued" /\ nested[i] = {}
      /\ \A j \in Incoming \ {i} : incoming'[j] = incoming[j]
  BY <1>1 DEF Shape, KernelOK, NestedInv, ProcInv
<1>3. stack' = stack
  BY <1>1 DEF thread_vars
<1>4. ASSUME NEW u \in Threads PROVE ThreadInv(u)'
  <2>1. \A j \in 1..Len(stack[u]) :
          stack[u][j].op = "serve" => stack[u][j].id \in Incoming \ {i}
    <3>1. \A j \in 1..Len(stack[u]) : stack[u][j] \in Frames
      BY ElementOfSeq DEF Shape, StackOK
    <3>2. QED
      BY <1>1, <3>1, Kinds DEF NestedInv, ThreadInv, FrameOK
  <2>2. todo[u] # <<>> /\ todo[u][1].msg = "TRANSACTION" => todo[u][1].id \in Incoming \ {i}
    <3>1. todo[u] # <<>> => todo[u][1] \in Messages
      BY TodoFacts DEF NestedInv, ThreadInv
    <3>2. todo[u] # <<>> /\ todo[u][1].msg = "TRANSACTION" => todo[u][1].id # i
      BY <1>1 DEF NestedInv, ThreadInv, TodoOK, MessageFor
    <3>3. QED
      BY <3>1, <3>2, Kinds
  <2>3. QED
    BY <1>1, <1>2, <1>3, <2>1, <2>2, Untouched DEF NestedInv
<1>5. ProcInv'
  <2> DEFINE p == proc_todo
             q == proc_todo'
  <2>1. p \in Seq(Incoming) /\ Len(p) \in Nat
    BY LenProperties DEF Shape, KernelOK
  <2>2. /\ Len(q) = Len(p) + 1 /\ q[Len(p) + 1] = i
        /\ \A a \in 1..Len(p) : q[a] = p[a]
    BY <1>1, <2>1, PushFacts
  <2>3. \A a \in 1..Len(q) : a \in 1..Len(p) \/ a = Len(p) + 1
    BY <2>1, <2>2
  <2>4. \A a \in 1..Len(p) : p[a] \in Incoming \ {i}
    <3>1. \A a \in 1..Len(p) : p[a] \in Incoming
      BY <2>1, ElementOfSeq
    <3>2. QED
      BY <1>1, <3>1 DEF NestedInv, ProcInv
  <2>5. /\ \A a \in 1..Len(p) : incoming[p[a]] = "queued" /\ nested[p[a]] = {}
        /\ \A a, b \in 1..Len(p) : p[a] = p[b] => a = b
    BY DEF NestedInv, ProcInv
  <2> HIDE DEF p, q
  <2>6. \A a \in 1..Len(q) : incoming'[q[a]] = "queued" /\ nested'[q[a]] = {}
    <3>1. SUFFICES ASSUME NEW a \in 1..Len(q)
                   PROVE  incoming'[q[a]] = "queued" /\ nested'[q[a]] = {}
      OBVIOUS
    <3>2. CASE a \in 1..Len(p)
      <4>1. q[a] = p[a] /\ p[a] \in Incoming \ {i}
        BY <2>2, <2>4, <3>2
      <4>2. QED
        BY <1>1, <1>2, <2>5, <3>2, <4>1
    <3>3. CASE a = Len(p) + 1
      BY <1>1, <1>2, <2>2, <3>3
    <3>4. QED
      BY <2>3, <3>2, <3>3
  <2>7. \A a, b \in 1..Len(q) : q[a] = q[b] => a = b
    BY <2>2, <2>3, <2>4, <2>5
  <2>8. \A j \in Incoming : incoming'[j] = "unused" => nested'[j] = {}
    BY <1>1, <1>2 DEF NestedInv, ProcInv
  <2>9. QED
    BY <2>6, <2>7, <2>8 DEF ProcInv, q
<1>6. SentInv' /\ OneServer'
  BY <1>1, <1>3, FewerServers DEF NestedInv, SentInv, HasFrame
<1>7. (\A j \in Incoming : incoming'[j] # "refused") /\ ReplyMatchesCall' /\ missing' = {}
  BY <1>1, <1>2 DEF NestedInv, ReplyMatchesCall, thread_vars
<1>8. QED
  BY <1>4, <1>5, <1>6, <1>7 DEF NestedInv

\* A call is answered, or its peer dies.
LEMMA AnswerInv ==
  ASSUME Shape, NestedInv, NEW c \in Calls, Answer(c)
  PROVE  NestedInv'
<1>0. PICK t \in Threads : t = owner[c]
  BY CallerFacts DEF Answer
<1>1. /\ call[c] = "sent" /\ PeerIsFree(c) /\ call' = [call EXCEPT ![c] = "over"]
      /\ KPop(t)
      /\ UNCHANGED <<thread_vars, proc_todo, owner, incoming, nested, missing>>
  BY <1>0 DEF Answer
<1>2. PICK k \in 1..Len(stack[t]) : stack[t][k] = Frame("call", c) /\ TopCall(t, k)
  BY <1>0, <1>1, CallerFacts
<1>3. /\ t \in Threads /\ todo[t] = <<>> /\ stack[t][k].id = c /\ stack[t][k].op = "call"
      /\ stack' = stack
  BY <1>0, <1>1, <1>2, CallerFacts DEF Frame, thread_vars
<1>4. call'[c] = "over" /\ \A d \in Calls \ {c} : call'[d] = call[d]
  BY <1>1 DEF Shape, KernelOK
<1>5. \A u \in Threads : \A j \in 1..Len(stack[u]) :
        stack[u][j].op = "call" => stack[u][j].id \in Calls
  <2>1. \A u \in Threads : \A j \in 1..Len(stack[u]) : stack[u][j] \in Frames
    BY ElementOfSeq DEF Shape, StackOK
  <2>2. QED
    BY <2>1, Kinds
<1>6. PICK m \in Messages : Queue(t, m) /\ m.msg \in {"REPLY", "DEAD_REPLY"} /\ m.id = c
  <2>1. \A w \in {"REPLY", "DEAD_REPLY"} :
          Message(w, c) \in Messages /\ Message(w, c).msg = w /\ Message(w, c).id = c
    BY Kinds DEF Message
  <2>2. QED
    BY <1>0, <2>1 DEF Answer
<1>7. todo'[t] = <<m>> /\ \A u \in Threads \ {t} : todo'[u] = todo[u]
  <2>1. todo'[t] = Append(<<>>, m) /\ \A u \in Threads \ {t} : todo'[u] = todo[u]
    BY <1>3, <1>6, QueueFacts DEF Shape
  <2>2. QED
    BY <2>1
<1>8. KernelOK /\ Agrees(t) /\ FrameOK(t) /\ NestOK(t)
  BY <1>3 DEF Shape, NestedInv, ThreadInv
<1>9. /\ kstack[t] # <<>> /\ Last(kstack[t]) = kstack[t][Len(kstack[t])]
      /\ Len(kstack[t]) \in 1..Len(kstack[t]) /\ Match(Last(kstack[t]), stack[t][k])
  <2>1. Counts(stack[t][k])
    BY <1>1, <1>3 DEF Counts
  <2>2. \A j \in 1..Len(stack[t]) : j > k => ~Counts(stack[t][j])
    <3>1. \A j \in 1..Len(stack[t]) : j > k => j \in (k + 1)..((Len(stack[t]) + 1) - 1)
      BY <1>3, RunningFacts DEF Shape
    <3>2. QED
      BY <1>2, <3>1 DEF TopCall, RepliesAbove, Counts
  <2>3. QED
    BY <1>3, <1>8, <2>1, <2>2, TopEntry
<1>10. kstack[t] \in Seq(Entries) /\ Len(kstack[t]) \in Nat /\ Last(kstack[t]) \in Entries
  BY <1>3, <1>8, <1>9, PopFacts DEF KernelOK
<1>11. kstack[t][Len(kstack[t])] = Entry("out", c)
  <2>1. Last(kstack[t]).dir = "out" /\ Last(kstack[t]).id = c
    BY <1>3, <1>8, <1>9, <1>10, MatchFacts, Kinds
  <2>2. QED
    BY <1>9, <1>10, <2>1, Kinds
<1>12. /\ Len(kstack'[t]) = Len(kstack[t]) - 1
       /\ \A a \in 1..(Len(kstack[t]) - 1) : kstack'[t][a] = kstack[t][a]
       /\ \A u \in Threads \ {t} : kstack'[u] = kstack[u]
  BY <1>1, <1>3, <1>8, <1>9, <1>10, KPopFacts, PopFacts
<1>13. ASSUME NEW u \in Threads \ {t} PROVE ThreadInv(u)'
  <2>1. \A j \in 1..Len(stack[u]) : stack[u][j].op = "call" => stack[u][j].id \in Calls \ {c}
    BY <1>0, <1>5 DEF NestedInv, ThreadInv, FrameOK
  <2>2. QED
    BY <1>1, <1>3, <1>4, <1>7, <1>12, <2>1, Untouched DEF NestedInv
<1>14. Agrees(t)'
  <2>1. Len(kstack[t]) >= 1
    BY <1>9, <1>10
  <2>2. \A j \in 1..Len(stack[t]) :
          stack[t][j].op = "call" /\ stack[t][j].id # c =>
            (call'[stack[t][j].id] = "sent" <=> call[stack[t][j].id] = "sent")
    BY <1>3, <1>4, <1>5
  <2>3. /\ stack'[t] = stack[t] /\ stack[t][k] = Frame("call", c) /\ call'[c] # "sent"
        /\ Len(kstack[t]) \in Nat /\ Len(kstack'[t]) = Len(kstack[t]) - 1
    BY <1>2, <1>3, <1>4, <1>10, <1>12
  <2>4. \A a \in 1..(Len(kstack[t]) - 1) : kstack'[t][a] = kstack[t][a]
    BY <1>12
  <2>5. t \in Threads /\ k \in 1..Len(stack[t])
    BY <1>3
  <2>6. QED
    BY <1>8, <1>11, <2>1, <2>2, <2>3, <2>4, <2>5, AgreesAnswer
<1>15. FrameOK(t)'
  BY <1>1, <1>3, <1>4, <1>5, <1>8 DEF FrameOK
<1>16. NestOK(t)'
  <2>1. SUFFICES ASSUME NEW j \in 1..Len(stack[t]), stack[t][j].op = "call",
                        call'[stack[t][j].id] = "sent"
                 PROVE  TopCall(t, j)' \/ \E n \in (j + 1)..Len(stack[t]) : NestsIn(t, j, n)'
    BY <1>1, <1>3 DEF NestOK
  <2>2. call[stack[t][j].id] = "sent"
    BY <1>3, <1>4, <1>5, <2>1
  <2>3. TopCall(t, j) => TopCall(t, j)'
    BY <1>1, <1>3 DEF TopCall, RepliesAbove
  <2>4. \A n \in (j + 1)..Len(stack[t]) : NestsIn(t, j, n) => NestsIn(t, j, n)'
    BY <1>1, <1>3 DEF NestsIn, RepliesAbove
  <2>5. QED
    BY <1>8, <2>1, <2>2, <2>3, <2>4 DEF NestOK
<1>17. TodoOK(t)'
  <2>1. TopCall(t, k)' /\ MessageFor(m, c)'
    BY <1>1, <1>2, <1>3, <1>4, <1>6 DEF TopCall, RepliesAbove, MessageFor
  <2>2. QED
    BY <1>1, <1>3, <1>7, <2>1 DEF TodoOK
<1>18. SentInv'
  <2>1. \A d \in Calls : call'[d] = "sent" => call[d] = "sent"
    BY <1>4
  <2>2. QED
    BY <1>1, <1>3, <2>1 DEF NestedInv, SentInv, HasFrame
<1>19. OneServer' /\ ProcInv' /\ ReplyMatchesCall'
  BY <1>1, <1>3, FewerServers DEF NestedInv, ProcInv, ReplyMatchesCall, thread_vars
<1>20. QED
  BY <1>1, <1>3, <1>13, <1>14, <1>15, <1>16, <1>17, <1>18, <1>19 DEF NestedInv, ThreadInv
-----------------------------------------------------------------------------
(* The invariant.                                                          *)

\* Nothing is called and nothing served yet.
LEMMA InitIInv == Init => IInv
<1> SUFFICES ASSUME Init PROVE IInv
  OBVIOUS
<1>1. \A t \in Threads : /\ todo[t] = <<>> /\ kstack[t] = <<>>
                         /\ stack[t] = IF t \in Loopers THEN <<LoopFrame>> ELSE <<>>
  BY DEF Init
<1>2. LoopFrame \in Frames /\ LoopFrame.op = "loop" /\ CallerOf("loop") = {"none"}
  BY DEF LoopFrame, Frames, Frame, CallerOf
<1>3. \A t \in Threads : Len(stack[t]) \in {0, 1} /\ Len(todo[t]) = 0 /\ Len(kstack[t]) = 0
  BY <1>1
<1>4. \A t \in Threads : \A k \in 1..Len(stack[t]) :
        t \in Loopers /\ k = 1 /\ stack[t][k] = LoopFrame
  <2>1. SUFFICES ASSUME NEW t \in Threads, NEW k \in 1..Len(stack[t])
                 PROVE  t \in Loopers /\ k = 1 /\ stack[t][k] = LoopFrame
    OBVIOUS
  <2>2. CASE t \in Loopers
    <3>1. stack[t] = <<LoopFrame>>
      BY <1>1, <2>2
    <3>2. Len(stack[t]) = 1 /\ stack[t][1] = LoopFrame
      BY <3>1
    <3>3. QED
      BY <2>2, <3>2
  <2>3. CASE t \notin Loopers
    BY <1>1, <2>3
  <2>4. QED
    BY <2>2, <2>3
<1>5. StackOK
  <2>1. <<>> \in Seq(Frames) /\ <<LoopFrame>> \in Seq(Frames)
    BY <1>2
  <2>2. stack \in [Threads -> Seq(Frames)]
    BY <2>1 DEF Init
  <2>3. \A t \in Loopers : stack[t] # <<>> /\ stack[t][1] = LoopFrame
    BY <1>1 DEF Threads
  <2>4. QED
    BY <1>2, <1>4, <2>2, <2>3 DEF StackOK
<1>6. KernelOK
  <2>1. <<>> \in Seq(Messages) /\ <<>> \in Seq(Entries) /\ <<>> \in Seq(Incoming)
    OBVIOUS
  <2>2. QED
    BY <2>1 DEF Init, KernelOK
<1>7. Shape
  BY <1>5, <1>6, BoundsAssumption DEF Init, Shape
<1>8. NestedInv
  <2>1. ASSUME NEW t \in Threads PROVE ThreadInv(t)
    <3>1. \A k \in 1..Len(stack[t]) : stack[t][k].op = "loop"
      BY <1>2, <1>4
    <3>2. \A a : a \notin 1..Len(kstack[t])
      BY <1>3
    <3>3. QED
      BY <1>1, <3>1, <3>2 DEF ThreadInv, Agrees, Counts, FrameOK, NestOK, TodoOK
  <2>2. /\ SentInv /\ ReplyMatchesCall /\ missing = {}
        /\ \A i \in Incoming : incoming[i] # "refused"
    BY DEF Init, SentInv, ReplyMatchesCall
  <2>3. OneServer
    BY <1>2, <1>4 DEF OneServer
  <2>4. ProcInv
    BY DEF Init, ProcInv
  <2>5. QED
    BY <2>1, <2>2, <2>3, <2>4 DEF NestedInv
<1>9. QED
  BY <1>7, <1>8 DEF IInv

\* Every step keeps it; what trouble there is does not change.
LEMMA NextIInv == IInv /\ [Next]_vars => IInv'
<1> SUFFICES ASSUME IInv, [Next]_vars PROVE IInv'
  OBVIOUS
<1>1. Shape /\ Shape'
  BY ShapeNext DEF IInv
<1>2. trouble' = trouble
  BY
     DEF Next, vars, ThreadNext, EndLocal, ReturnReply, ReturnError, RetryRead,
         ReadTransaction,
         ReadProcTransaction, WriteReply, EndReply, DiscardWithReply, DiscardInLoop,
         StartLocal, StartCall, Answer, CallBack, Arrive
<1>3. SUFFICES ASSUME NestedInv, "missing" \notin trouble PROVE NestedInv'
  BY <1>1, <1>2 DEF IInv
<1>4. ASSUME NEW t \in Threads, ThreadNext(t) PROVE NestedInv'
  BY <1>1, <1>3, <1>4, EndLocalInv, ReturnInv, ReadOnInv, ReadTransactionInv,
     ReadProcTransactionInv,
     WriteReplyInv, EndReplyInv DEF ThreadNext
<1>5. CASE UNCHANGED vars
  <2>1. ASSUME NEW t \in Threads PROVE ThreadInv(t)'
    BY <1>1, <1>3, <1>5, Untouched DEF NestedInv, vars, thread_vars, kernel_vars
  <2>2. SentInv' /\ ProcInv' /\ ReplyMatchesCall' /\ OneServer'
    BY <1>3, <1>5 DEF NestedInv, vars, thread_vars, kernel_vars, SentInv, HasFrame, ProcInv,
                      ReplyMatchesCall, OneServer
  <2>3. QED
    BY <1>3, <1>5, <2>1, <2>2 DEF NestedInv, vars, kernel_vars
<1>6. QED
  BY <1>1, <1>3, <1>4, <1>5, StartLocalInv, StartCallInv, AnswerInv, CallBackInv, ArriveInv
     DEF Next

\* The frames of every thread and the driver's transaction stack agree, always.
THEOREM NestingInvariant == Spec => []IInv
<1>1. QED
  BY InitIInv, NextIInv, PTL DEF Spec

\* The shape of the state; a looper's stack always starts with its loop, whatever it
\* reads and whatever its handlers call.
THEOREM TransactTypeCorrect == Spec => []TypeOK
<1>1. IInv => TypeOK
  <2>1. SUFFICES ASSUME Shape PROVE TypeOK
    BY DEF IInv
  <2>2. \A t \in Loopers : stack[t] # <<>> /\ Head(stack[t]) = LoopFrame
    <3>1. SUFFICES ASSUME NEW t \in Loopers PROVE Head(stack[t]) = stack[t][1]
      BY <2>1 DEF Shape, StackOK
    <3>2. stack[t] \in Seq(Frames) /\ stack[t] # <<>>
      BY <2>1 DEF Shape, StackOK, Threads
    <3>3. QED
      BY <3>2, TailFacts
  <2>3. \A t \in Threads : \A k \in 1..Len(todo[t]) :
          todo[t][k].msg \in {"TRANSACTION", "REPLY", "DEAD_REPLY", "FAILED_REPLY", "NOSPC"}
    <3>1. \A t \in Threads : \A k \in 1..Len(todo[t]) : todo[t][k] \in Messages
      BY <2>1, ElementOfSeq DEF Shape, KernelOK
    <3>2. QED
      BY <3>1, Kinds
  <2>4. \A t \in Threads : \A k \in 1..Len(kstack[t]) : kstack[t][k].dir \in {"in", "out"}
    <3>1. \A t \in Threads : \A k \in 1..Len(kstack[t]) : kstack[t][k] \in Entries
      BY <2>1, ElementOfSeq DEF Shape, KernelOK
    <3>2. QED
      BY <3>1, Kinds
  <2>5. QED
    BY <2>1, <2>2, <2>3, <2>4 DEF Shape, StackOK, KernelOK, TypeOK
<1>2. QED
  BY <1>1, NestingInvariant, PTL

\* What remote_transact_blocking returns is the reply to that call and to no other,
\* whatever nests in it, if peers address registered objects.
THEOREM RepliesMatch == Spec => []ReplyMatchesRegistered
<1>1. IInv => ReplyMatchesRegistered
  BY DEF IInv, NestedInv, ReplyMatchesRegistered
<1>2. QED
  BY <1>1, NestingInvariant, PTL

\* The BC_REPLY that binder_write_read writes is always for the transaction on top of the
\* driver's stack, if peers address registered objects: the driver refuses none.
THEOREM RepliesAccepted == Spec => []ReplyAccepted
<1>1. IInv => ReplyAccepted
  BY DEF IInv, NestedInv, ReplyAccepted
<1>2. QED
  BY <1>1, NestingInvariant, PTL
=============================================================================
