---------------------------- MODULE OneWayProofs ----------------------------
(***************************************************************************)
(* One-way messages are settled once and in order, and no payload, message *)
(* or looper is lost: for every set of processes, threads and messages.    *)
(***************************************************************************)
EXTENDS OneWay, TLAPS, SequenceTheorems, FiniteSetTheorems

\* The device is there, or will be: what its loopers read is not lost.
Live(p) == device[p] = "new" \/ Alive(p)

\* The loopers whose payload is not dropped yet, and how many messages the driver has
\* delivered so far.
Owners(p) == {l \in LoopersOf(p) : payload[l]}
Given(p) == Len(accepted[p]) - Len(async_todo[p])

States == {"none", "failed", "parked", "fresh", "reading", "handling", "discarding", "exited"}

\* The shape of the state.
Shape ==
  /\ device \in [Procs -> {"new", "open", "closed", "unmapped"}]
  /\ object \in [Procs -> {"unregistered", "registered", "dropped"}]
  /\ looper \in [Loopers -> States]
  /\ serving \in [Loopers -> Msgs \cup {None}]
  /\ payload \in [Loopers -> BOOLEAN]
  /\ \A l \in Loopers : IF Serves(l) THEN serving[l] \in Msgs
                        ELSE serving[l] = None /\ ~payload[l]
  /\ sent \in [Msgs -> {"unsent", "writing", "full", "queued", "ok", "error"}]
  /\ async_todo \in [Procs -> Seq(Msgs)]
  /\ proc_todo \in [Procs -> Seq(Msgs)]
  /\ held \in [Procs -> SUBSET Msgs]
  /\ requested \in [Procs -> 0..1]
  /\ registered \in [Procs -> Nat]
  /\ \A p \in Procs : registered[p] \in 0..MaxThreads[p]
  /\ accepted \in [Procs -> Seq(Msgs)]
  /\ settled \in [Procs -> Seq(Msgs)]

\* The driver has taken exactly what was sent, each message once.
SentInv ==
  /\ \A p \in Procs : IsInjective(accepted[p])
  /\ \A p \in Procs, m \in Msgs :
       m \in ToSet(accepted[p]) <=> Target[m] = p /\ sent[m] \in {"queued", "ok"}
  /\ \A m \in Msgs : sent[m] = "error" => device[Target[m]] = "unmapped"

\* Nothing starts before from_fd is done, and a looper leaves only a device that is gone.
StartInv ==
  /\ \A l \in Loopers :
       /\ looper[l] \notin {"none", "parked"} => device[Home[l]] # "new"
       /\ looper[l] = "exited" => ~Alive(Home[l])
  /\ \A t \in Apps : \A m \in ToSet(Script[t]) :
       sent[m] # "unsent" => device[Home[t]] # "new"

\* Every send in progress has a thread in it.
InSend(m) == sent[m] \in {"writing", "full", "queued"}
HasSender(m) ==
  \/ \E a \in Apps : m \in ToSet(Script[a])
  \/ \E l \in Loopers : looper[l] = "handling" /\ Forward[serving[l]] = m
SenderInv == \A m \in Msgs : InSend(m) => HasSender(m)

\* The driver counts the threads that were spawned on its request.
Asked(p) == {l \in LoopersOf(p) \ Initial : looper[l] \in {"fresh", "failed"}}
Counted(p) == {l \in LoopersOf(p) \ Initial : looper[l] \notin {"none", "fresh", "failed"}}
PoolInv ==
  /\ \A l \in Loopers : /\ looper[l] = "none" => l \notin Initial
                        /\ looper[l] = "parked" => l \in Initial
  /\ \A p \in Procs :
       /\ requested[p] = Cardinality(Asked(p))
       /\ registered[p] = Cardinality(Counted(p))
       /\ requested[p] + registered[p] <= MaxThreads[p]

\* What a looper serves, it owns or has settled.
ServeInv ==
  \A l \in Loopers : Serves(l) =>
    /\ serving[l] \in ToSet(accepted[Home[l]])
    /\ (payload[l] /\ looper[l] = "handling") \/ Handled(l)

\* What is settled is what was taken first.
OrderInv ==
  \A p \in Procs :
    /\ Len(settled[p]) <= Len(accepted[p])
    /\ \A i \in 1..Len(settled[p]) : settled[p][i] = accepted[p][i]

\* A message is delivered and no looper has read it; or a looper has its payload; or
\* there is none left.  The last message given is the one that waits or is owned.
Waiting(p) ==
  /\ Len(proc_todo[p]) = 1 /\ Owners(p) = {}
  /\ Given(p) >= 1 /\ proc_todo[p][1] = accepted[p][Given(p)]
  /\ Len(settled[p]) = Given(p) - 1
Owned(p) ==
  /\ proc_todo[p] = <<>>
  /\ \E l \in LoopersOf(p) :
       /\ Owners(p) = {l}
       /\ Given(p) >= 1 /\ serving[l] = accepted[p][Given(p)]
       /\ Len(settled[p]) = IF Handled(l) THEN Given(p) ELSE Given(p) - 1
Drained(p) ==
  /\ proc_todo[p] = <<>> /\ Owners(p) = {} /\ async_todo[p] = <<>>
  /\ Len(settled[p]) = Len(accepted[p])

\* While its device is there, a process has one message at most that is delivered and
\* not freed.  All before it are settled, all after it wait with the node.
QueueOf(p) ==
  /\ Len(async_todo[p]) <= Len(accepted[p])
  /\ \A i \in 1..Len(async_todo[p]) : async_todo[p][i] = accepted[p][Given(p) + i]
  /\ held[p] = ToSet(async_todo[p]) \cup ToSet(proc_todo[p]) \cup {serving[l] : l \in Owners(p)}
  /\ Waiting(p) \/ Owned(p) \/ Drained(p)
QueueInv == \A p \in Procs : Live(p) => QueueOf(p)

IInv ==
  /\ Shape /\ SentInv /\ StartInv /\ SenderInv
  /\ PoolInv /\ ServeInv /\ OrderInv /\ QueueInv
-----------------------------------------------------------------------------
(* Sequences.                                                              *)

\* The elements of a sequence.
LEMMA SeqFacts ==
  ASSUME NEW s \in Seq(Msgs)
  PROVE  /\ Len(s) \in Nat /\ DOMAIN s = 1..Len(s)
         /\ ToSet(s) = {s[i] : i \in 1..Len(s)} /\ ToSet(s) \subseteq Msgs
         /\ s = <<>> <=> Len(s) = 0
         /\ s = <<>> <=> ToSet(s) = {}
<1>1. Len(s) \in Nat /\ DOMAIN s = 1..Len(s) /\ \A i \in 1..Len(s) : s[i] \in Msgs
  BY LenProperties, ElementOfSeq
<1>2. s = <<>> <=> Len(s) = 0
  BY <1>1, EmptySeq
<1>3. ToSet(s) = {s[i] : i \in 1..Len(s)} /\ ToSet(s) \subseteq Msgs
  BY <1>1 DEF ToSet
<1>4. Len(s) > 0 => s[1] \in ToSet(s)
  BY <1>1, <1>3
<1>5. Len(s) = 0 => ToSet(s) = {}
  BY <1>1, <1>3
<1>6. QED
  BY <1>1, <1>2, <1>3, <1>4, <1>5

\* One message more at the end.
LEMMA AppendFacts ==
  ASSUME NEW s \in Seq(Msgs), NEW m \in Msgs
  PROVE  /\ Append(s, m) \in Seq(Msgs)
         /\ Len(Append(s, m)) = Len(s) + 1
         /\ \A i \in 1..Len(s) : Append(s, m)[i] = s[i]
         /\ Append(s, m)[Len(s) + 1] = m
         /\ ToSet(Append(s, m)) = ToSet(s) \cup {m}
<1> DEFINE t == Append(s, m)
<1>1. /\ t \in Seq(Msgs) /\ Len(t) = Len(s) + 1
      /\ \A i \in 1..Len(s) : t[i] = s[i]
      /\ t[Len(s) + 1] = m
  BY AppendProperties
<1>2. /\ Len(s) \in Nat /\ ToSet(s) = {s[i] : i \in 1..Len(s)}
      /\ ToSet(t) = {t[i] : i \in 1..(Len(s) + 1)}
  BY <1>1, SeqFacts
<1> HIDE DEF t
<1>3. 1..(Len(s) + 1) = 1..Len(s) \cup {Len(s) + 1}
  BY <1>2
<1>4. ToSet(t) = ToSet(s) \cup {m}
  BY <1>1, <1>2, <1>3
<1>5. QED
  BY <1>1, <1>4 DEF t

\* The first message taken off.
LEMMA TailFacts ==
  ASSUME NEW s \in Seq(Msgs), s # <<>>
  PROVE  /\ Head(s) = s[1] /\ Head(s) \in Msgs
         /\ Tail(s) \in Seq(Msgs)
         /\ Len(Tail(s)) = Len(s) - 1
         /\ \A i \in 1..(Len(s) - 1) : Tail(s)[i] = s[i + 1]
         /\ ToSet(s) = {s[1]} \cup ToSet(Tail(s))
<1> DEFINE t == Tail(s)
<1>1. /\ t \in Seq(Msgs) /\ Len(t) = Len(s) - 1
      /\ \A i \in 1..Len(t) : t[i] = s[i + 1]
      /\ Head(s) = s[1] /\ Head(s) \in Msgs
  BY HeadTailProperties
<1> HIDE DEF t
<1>2. /\ Len(s) \in Nat /\ Len(s) >= 1 /\ ToSet(s) = {s[i] : i \in 1..Len(s)}
      /\ ToSet(t) = {t[i] : i \in 1..Len(t)}
  <2>1. Len(s) \in Nat /\ Len(s) # 0 /\ ToSet(s) = {s[i] : i \in 1..Len(s)}
    BY SeqFacts
  <2>2. ToSet(t) = {t[i] : i \in 1..Len(t)}
    BY <1>1, SeqFacts
  <2>3. QED
    BY <2>1, <2>2
<1>3. \A i \in 1..Len(s) : i = 1 \/ (i - 1 \in 1..Len(t) /\ t[i - 1] = s[i])
  BY <1>1, <1>2
<1>4. \A i \in 1..Len(t) : i + 1 \in 1..Len(s)
  BY <1>1, <1>2
<1>5. ToSet(s) \subseteq {s[1]} \cup ToSet(t)
  BY <1>2, <1>3
<1>6. {s[1]} \cup ToSet(t) \subseteq ToSet(s)
  BY <1>1, <1>2, <1>4
<1>7. QED
  BY <1>1, <1>5, <1>6 DEF t

\* Messages that are all different have one place each.
LEMMA PlaceOf ==
  ASSUME NEW s \in Seq(Msgs), IsInjective(s),
         NEW i \in 1..Len(s), NEW j \in 1..Len(s), s[i] = s[j]
  PROVE  i = j
BY SeqFacts DEF IsInjective

\* A message that is not there yet keeps the messages all different.
LEMMA AppendDistinct ==
  ASSUME NEW s \in Seq(Msgs), IsInjective(s), NEW m \in Msgs, m \notin ToSet(s)
  PROVE  IsInjective(Append(s, m))
<1> DEFINE t == Append(s, m)
<1>1. /\ DOMAIN t = 1..(Len(s) + 1) /\ Len(s) \in Nat /\ DOMAIN s = 1..Len(s)
      /\ \A i \in 1..Len(s) : t[i] = s[i] /\ s[i] \in ToSet(s)
      /\ t[Len(s) + 1] = m
  BY AppendFacts, SeqFacts DEF ToSet
<1> HIDE DEF t
<1>2. IsInjective(t)
  BY <1>1 DEF IsInjective
<1>3. QED
  BY <1>2 DEF t
-----------------------------------------------------------------------------
(* What a step leaves alone.                                               *)

\* A looper has a process, and its own only.
LEMMA Homes ==
  /\ \A l \in Loopers : Home[l] \in Procs
  /\ \A a \in Apps : Home[a] \in Procs
  /\ \A p \in Procs : \A l \in LoopersOf(p) : l \in Loopers /\ Home[l] = p
  /\ \A p \in Procs : IsFiniteSet(LoopersOf(p))
<1>1. \A p \in Procs : IsFiniteSet(LoopersOf(p))
  BY FS_Subset, ThreadsAssumption DEF LoopersOf
<1>2. QED
  BY <1>1, ThreadsAssumption DEF LoopersOf

\* A thread sends messages.
LEMMA Scripts == \A a \in Apps : ToSet(Script[a]) \subseteq Msgs
BY MessagesAssumption, SeqFacts

\* No message is taken or given up.
LEMMA SentKept ==
  ASSUME SentInv, accepted' = accepted,
         \A p \in Procs : device[p] = "unmapped" => device'[p] = "unmapped",
         \A m \in Msgs : /\ sent'[m] \in {"queued", "ok"} <=> sent[m] \in {"queued", "ok"}
                         /\ sent'[m] = "error" => sent[m] = "error"
  PROVE  SentInv'
BY MessagesAssumption DEF SentInv

\* Handlers go on, and no send begins that has no thread.
LEMMA SenderKept ==
  ASSUME SenderInv,
         \A l \in Loopers :
           looper[l] = "handling" => looper'[l] = "handling" /\ serving'[l] = serving[l],
         \A m \in Msgs : InSend(m)' => InSend(m) \/ HasSender(m)
  PROVE  SenderInv'
<1>1. \A m \in Msgs : HasSender(m) => HasSender(m)'
  BY DEF HasSender
<1>2. QED
  BY <1>1 DEF SenderInv

\* No looper is spawned, and none that was spawned on request enters.
LEMMA PoolKept ==
  ASSUME PoolInv, requested' = requested, registered' = registered,
         \A l \in Loopers :
           \/ \A s \in {"none", "failed", "parked", "fresh"} : looper'[l] = s <=> looper[l] = s
           \/ l \in Initial /\ looper'[l] # "none"
  PROVE  PoolInv'
<1>1. \A p \in Procs : Asked(p)' = Asked(p) /\ Counted(p)' = Counted(p)
  BY DEF Asked, Counted, LoopersOf
<1>2. QED
  BY <1>1 DEF PoolInv

\* No looper begins to serve.
LEMMA ServeKept ==
  ASSUME ServeInv, settled' = settled, accepted' = accepted,
         \A l \in Loopers : Serves(l)' =>
           /\ Serves(l) /\ looper'[l] = looper[l]
           /\ serving'[l] = serving[l] /\ payload'[l] = payload[l]
  PROVE  ServeInv'
BY DEF ServeInv, Handled

\* No message moves.
LEMMA OrderKept ==
  ASSUME OrderInv, settled' = settled, accepted' = accepted
  PROVE  OrderInv'
BY DEF OrderInv

\* Nothing happens in process p.
LEMMA QueueOfKept ==
  ASSUME NEW p \in Procs, QueueOf(p),
         async_todo'[p] = async_todo[p], proc_todo'[p] = proc_todo[p], held'[p] = held[p],
         accepted'[p] = accepted[p], settled'[p] = settled[p],
         \A l \in LoopersOf(p) : /\ payload'[l] = payload[l]
                                 /\ payload[l] => serving'[l] = serving[l]
  PROVE  QueueOf(p)'
<1>1. LoopersOf(p)' = LoopersOf(p) /\ Owners(p)' = Owners(p) /\ Given(p)' = Given(p)
  BY DEF Owners, Given, LoopersOf
<1>2. \A l \in Owners(p) : serving'[l] = serving[l] /\ Handled(l)' = Handled(l)
  BY DEF Owners, LoopersOf, Handled
<1>3. {serving[l] : l \in Owners(p)}' = {serving[l] : l \in Owners(p)}
  BY <1>1, <1>2
<1>4. (Waiting(p) => Waiting(p)') /\ (Owned(p) => Owned(p)') /\ (Drained(p) => Drained(p)')
  BY <1>1, <1>2 DEF Waiting, Owned, Drained
<1>5. QED
  BY <1>1, <1>3, <1>4 DEF QueueOf

\* The queues stay as they are, and so does what the loopers own.
LEMMA QueueKept ==
  ASSUME QueueInv, UNCHANGED <<payload, queue_vars, settled>>,
         \A l \in Loopers : payload[l] => serving'[l] = serving[l],
         \A p \in Procs : Live(p)' => Live(p)
  PROVE  QueueInv'
BY QueueOfKept DEF QueueInv, queue_vars, LoopersOf

\* The last message given is not with the node any more, and it is settled or not as the
\* number of those that are settled says.
LEMMA LastGiven ==
  ASSUME Shape, SentInv, OrderInv, NEW p \in Procs, QueueOf(p), Given(p) >= 1
  PROVE  /\ accepted[p][Given(p)] \in ToSet(accepted[p])
         /\ accepted[p][Given(p)] \notin ToSet(async_todo[p])
         /\ Len(settled[p]) = Given(p) - 1 => accepted[p][Given(p)] \notin ToSet(settled[p])
         /\ Len(settled[p]) = Given(p) => accepted[p][Given(p)] \in ToSet(settled[p])
<1> DEFINE acc == accepted[p]
           asy == async_todo[p]
           set == settled[p]
           g == Given(p)
<1>1. acc \in Seq(Msgs) /\ asy \in Seq(Msgs) /\ set \in Seq(Msgs) /\ IsInjective(acc)
  BY DEF Shape, SentInv
<1>2. /\ Len(acc) \in Nat /\ ToSet(acc) = {acc[i] : i \in 1..Len(acc)}
      /\ Len(asy) \in Nat /\ ToSet(asy) = {asy[i] : i \in 1..Len(asy)}
      /\ Len(set) \in Nat /\ ToSet(set) = {set[i] : i \in 1..Len(set)}
  BY <1>1, SeqFacts
<1>3. /\ g = Len(acc) - Len(asy) /\ Len(asy) <= Len(acc) /\ g >= 1
      /\ \A i \in 1..Len(asy) : asy[i] = acc[g + i]
      /\ Len(set) <= Len(acc) /\ \A i \in 1..Len(set) : set[i] = acc[i]
  BY DEF QueueOf, Given, OrderInv
<1> HIDE DEF acc, asy, set, g
<1>4. \A i, j \in 1..Len(acc) : acc[i] = acc[j] => i = j
  BY <1>1, PlaceOf
<1>5. g \in 1..Len(acc) /\ acc[g] \in ToSet(acc)
  BY <1>2, <1>3
<1>6. acc[g] \notin ToSet(asy)
  <2>1. SUFFICES ASSUME NEW i \in 1..Len(asy), asy[i] = acc[g] PROVE FALSE
    BY <1>2
  <2>2. g + i \in 1..Len(acc) /\ acc[g + i] = acc[g]
    BY <1>2, <1>3, <2>1
  <2>3. QED
    BY <1>2, <1>4, <1>5, <2>2
<1>7. Len(set) = g - 1 => acc[g] \notin ToSet(set)
  <2>1. SUFFICES ASSUME Len(set) = g - 1, NEW i \in 1..Len(set), set[i] = acc[g] PROVE FALSE
    BY <1>2
  <2>2. i \in 1..Len(acc) /\ acc[i] = acc[g]
    BY <1>2, <1>3, <2>1
  <2>3. QED
    BY <1>2, <1>4, <1>5, <2>1, <2>2
<1>8. Len(set) = g => acc[g] \in ToSet(set)
  BY <1>2, <1>3
<1>9. QED
  BY <1>5, <1>6, <1>7, <1>8 DEF acc, asy, set, g

\* One more is counted.
LEMMA AddOne ==
  ASSUME NEW S, IsFiniteSet(S), NEW x, x \notin S
  PROVE  Cardinality(S \cup {x}) = Cardinality(S) + 1
BY FS_AddElement

\* One less is counted.
LEMMA RemoveOne ==
  ASSUME NEW S, IsFiniteSet(S), NEW x \in S
  PROVE  Cardinality(S \ {x}) = Cardinality(S) - 1
BY FS_RemoveElement

\* What the driver counts is finite, a part of the loopers of one process.
LEMMA PoolFinite ==
  ASSUME NEW p \in Procs
  PROVE  /\ IsFiniteSet(Asked(p)) /\ Cardinality(Asked(p)) \in Nat
         /\ IsFiniteSet(Counted(p)) /\ Cardinality(Counted(p)) \in Nat
<1>1. IsFiniteSet(Asked(p)) /\ IsFiniteSet(Counted(p))
  BY Homes, FS_Subset DEF Asked, Counted
<1>2. QED
  BY <1>1, FS_CardinalityType

\* A read may spawn a looper, and nothing else.
LEMMA ReadWithEffect ==
  ASSUME NEW p \in Procs, NEW ls \in [Loopers -> States], ReadWith(p, ls)
  PROVE  /\ looper' \in [Loopers -> States]
         /\ \A k \in Loopers :
              \/ looper'[k] = ls[k]
              \/ Home[k] = p /\ ls[k] = "none" /\ looper'[k] \in {"fresh", "failed"}
<1>1. CASE looper' = ls
  BY <1>1
<1>2. CASE \E k \in LoopersOf(p), s \in {"fresh", "failed"} :
             ls[k] = "none" /\ looper' = [ls EXCEPT ![k] = s]
  BY <1>2 DEF LoopersOf, States
<1>3. QED
  BY <1>1, <1>2 DEF ReadWith

\* The looper that it spawns is the one that the driver then waits for.
LEMMA ReadWithPool ==
  ASSUME Shape, PoolInv, NEW p \in Procs, NEW ls \in [Loopers -> States], ReadWith(p, ls),
         registered' = registered,
         \A l \in Loopers : \A s \in {"none", "failed", "parked", "fresh"} :
           ls[l] = s <=> looper[l] = s
  PROVE  PoolInv' /\ requested' \in [Procs -> 0..1]
<1>1. CASE looper' = ls /\ UNCHANGED requested
  BY <1>1, PoolKept DEF Shape
<1>2. CASE /\ requested[p] = 0 /\ registered[p] < MaxThreads[p]
           /\ requested' = [requested EXCEPT ![p] = 1]
           /\ \E k \in LoopersOf(p), s \in {"fresh", "failed"} :
                ls[k] = "none" /\ looper' = [ls EXCEPT ![k] = s]
  <2>1. PICK k \in LoopersOf(p), s \in {"fresh", "failed"} :
               ls[k] = "none" /\ looper' = [ls EXCEPT ![k] = s]
    BY <1>2
  <2>2. k \in Loopers /\ Home[k] = p /\ p \in Procs /\ looper[k] = "none" /\ k \notin Initial
    BY <2>1, Homes DEF LoopersOf, PoolInv
  <2>3. \A q \in Procs : /\ Asked(q)' = IF q = p THEN Asked(q) \cup {k} ELSE Asked(q)
                         /\ Counted(q)' = Counted(q)
    BY <2>1, <2>2 DEF Asked, Counted, LoopersOf, States
  <2>4. k \notin Asked(p)
    BY <2>2 DEF Asked
  <2>5. Cardinality(Asked(p)') = Cardinality(Asked(p)) + 1
    BY <2>2, <2>3, <2>4, PoolFinite, AddOne
  <2>6. requested' \in [Procs -> 0..1]
    <3>1. requested \in [Procs -> 0..1]
      BY DEF Shape
    <3>2. requested' = [requested EXCEPT ![p] = 1]
      BY <1>2
    <3>3. QED
      BY <3>1, <3>2
  <2>7. \A l \in Loopers : /\ looper'[l] = "none" => l \notin Initial
                           /\ looper'[l] = "parked" => l \in Initial
    BY <2>1, <2>2 DEF PoolInv, States
  <2>8. \A q \in Procs : /\ requested'[q] = Cardinality(Asked(q)')
                         /\ registered'[q] = Cardinality(Counted(q)')
                         /\ requested'[q] + registered'[q] <= MaxThreads[q]
    <3> SUFFICES ASSUME NEW q \in Procs
                 PROVE  /\ requested'[q] = Cardinality(Asked(q)')
                        /\ registered'[q] = Cardinality(Counted(q)')
                        /\ requested'[q] + registered'[q] <= MaxThreads[q]
      OBVIOUS
    <3>1. /\ requested[q] = Cardinality(Asked(q)) /\ registered[q] = Cardinality(Counted(q))
          /\ requested[q] + registered[q] <= MaxThreads[q]
          /\ requested[q] \in 0..1 /\ registered[q] \in Nat /\ MaxThreads[q] \in Nat
      BY ThreadsAssumption DEF PoolInv, Shape
    <3>2. registered'[q] = registered[q] /\ Counted(q)' = Counted(q)
      BY <2>3
    <3>3. CASE q = p
      <4>1. requested'[q] = 1 /\ Asked(q)' = Asked(p)'
        BY <1>2, <3>3 DEF Shape
      <4>2. requested[q] = 0 /\ registered[q] < MaxThreads[q]
        BY <1>2, <3>3
      <4>3. Cardinality(Asked(q)') = 1
        BY <2>5, <3>1, <3>3, <4>1, <4>2
      <4>4. QED
        BY <3>1, <3>2, <4>1, <4>2, <4>3
    <3>4. CASE q # p
      <4>1. requested'[q] = requested[q]
        BY <1>2, <3>4 DEF Shape
      <4>2. Asked(q)' = Asked(q)
        BY <2>3, <3>4
      <4>3. QED
        BY <3>1, <3>2, <4>1, <4>2
    <3>5. QED
      BY <3>3, <3>4
  <2>9. QED
    BY <2>6, <2>7, <2>8 DEF PoolInv
<1>3. QED
  BY <1>1, <1>2 DEF ReadWith

\* The thread of a send in progress is past from_fd.
LEMMA SenderStarted ==
  ASSUME Shape, StartInv, SenderInv, NEW m \in Msgs,
         sent[m] \in {"writing", "full", "queued"}
  PROVE  SenderOf(m) \in Procs /\ device[SenderOf(m)] # "new"
<1> DEFINE S(t) == \/ t \in Apps /\ m \in ToSet(Script[t])
                   \/ t \in Loopers /\ Serves(t) /\ Forward[serving[t]] = m
           c == CHOOSE t \in Apps \cup Loopers : S(t)
<1>1. \E t \in Apps \cup Loopers : S(t)
  BY DEF SenderInv, InSend, HasSender, Serves
<1>2. c \in Apps \cup Loopers /\ S(c)
  BY <1>1
<1>3. SenderOf(m) = Home[c]
  BY DEF SenderOf
<1> HIDE DEF c
<1>4. Home[c] \in Procs /\ device[Home[c]] # "new"
  BY <1>2, Homes DEF StartInv, Serves
<1>5. QED
  BY <1>3, <1>4

\* What the owner of a payload knows.
LEMMA OwnerFacts ==
  ASSUME Shape, QueueInv, NEW l \in Loopers, payload[l]
  PROVE  /\ Home[l] \in Procs /\ Live(Home[l]) /\ QueueOf(Home[l])
         /\ Serves(l) /\ serving[l] \in Msgs
         /\ Owners(Home[l]) = {l} /\ proc_todo[Home[l]] = <<>>
         /\ Given(Home[l]) >= 1 /\ serving[l] = accepted[Home[l]][Given(Home[l])]
         /\ Len(settled[Home[l]]) = IF Handled(l) THEN Given(Home[l]) ELSE Given(Home[l]) - 1
<1>1. Home[l] \in Procs /\ Serves(l) /\ serving[l] \in Msgs /\ l \in Owners(Home[l])
  BY Homes DEF Shape, Owners, LoopersOf
<1>2. Live(Home[l]) /\ QueueOf(Home[l])
  BY <1>1 DEF QueueInv, Live, Alive, LoopersOf
<1>3. Owned(Home[l])
  BY <1>1, <1>2 DEF QueueOf, Waiting, Drained
<1>4. QED
  BY <1>1, <1>2, <1>3 DEF Owned

\* The queues of a process.
LEMMA QueueFacts ==
  ASSUME Shape, NEW p \in Procs
  PROVE  /\ accepted[p] \in Seq(Msgs) /\ async_todo[p] \in Seq(Msgs)
         /\ proc_todo[p] \in Seq(Msgs) /\ settled[p] \in Seq(Msgs)
         /\ Len(accepted[p]) \in Nat /\ Len(async_todo[p]) \in Nat
         /\ Len(proc_todo[p]) \in Nat /\ Len(settled[p]) \in Nat
         /\ Given(p) \in Int /\ Given(p) = Len(accepted[p]) - Len(async_todo[p])
         /\ Given(p) <= Len(accepted[p])
<1>1. /\ accepted[p] \in Seq(Msgs) /\ async_todo[p] \in Seq(Msgs)
      /\ proc_todo[p] \in Seq(Msgs) /\ settled[p] \in Seq(Msgs)
  BY DEF Shape
<1>2. /\ Len(accepted[p]) \in Nat /\ Len(async_todo[p]) \in Nat
      /\ Len(proc_todo[p]) \in Nat /\ Len(settled[p]) \in Nat
  BY <1>1, SeqFacts
<1>3. /\ Given(p) \in Int /\ Given(p) = Len(accepted[p]) - Len(async_todo[p])
      /\ Given(p) <= Len(accepted[p])
  <2> DEFINE a == Len(accepted[p])
             t == Len(async_todo[p])
  <2>1. a \in Nat /\ t \in Nat /\ Given(p) = a - t
    BY <1>2 DEF Given
  <2> HIDE DEF a, t
  <2>2. Given(p) \in Int /\ Given(p) = a - t /\ Given(p) <= a
    BY <2>1
  <2>3. QED
    BY <2>2 DEF a, t
<1>4. QED
  BY <1>1, <1>2, <1>3

\* A queue of one message.
LEMMA OneFacts ==
  ASSUME NEW m \in Msgs
  PROVE  /\ Append(<<>>, m) \in Seq(Msgs) /\ Len(Append(<<>>, m)) = 1
         /\ Append(<<>>, m)[1] = m /\ ToSet(Append(<<>>, m)) = {m}
<1> DEFINE e == <<>>
<1>1. e \in Seq(Msgs) /\ Len(e) = 0 /\ ToSet(e) = {}
  BY EmptySeq, SeqFacts
<1> HIDE DEF e
<1>2. /\ Append(e, m) \in Seq(Msgs) /\ Len(Append(e, m)) = Len(e) + 1
      /\ Append(e, m)[Len(e) + 1] = m /\ ToSet(Append(e, m)) = ToSet(e) \cup {m}
  BY <1>1, AppendFacts
<1>3. Len(e) + 1 = 1 /\ ToSet(e) \cup {m} = {m}
  BY <1>1
<1>4. QED
  BY <1>2, <1>3 DEF e

\* The node's next message is delivered when the last one given is settled and freed.
LEMMA NextDelivered ==
  ASSUME Shape, NEW p \in Procs, QueueOf(p), Len(settled[p]) = Given(p), Given(p) >= 1,
         accepted'[p] = accepted[p], settled'[p] = settled[p], Owners(p)' = {},
         held'[p] = ToSet(async_todo[p]), async_todo[p] # <<>>,
         async_todo'[p] = Tail(async_todo[p]),
         proc_todo'[p] = Append(<<>>, Head(async_todo[p]))
  PROVE  /\ async_todo'[p] \in Seq(Msgs) /\ proc_todo'[p] \in Seq(Msgs)
         /\ QueueOf(p)'
<1> DEFINE n == Len(accepted[p])
           s == async_todo[p]
           k == Len(s)
           t == async_todo'[p]
           g == Given(p)
           h == Given(p)'
           u == Len(t)
<1>1. /\ Head(s) = s[1] /\ Head(s) \in Msgs /\ t \in Seq(Msgs) /\ Len(t) = k - 1
      /\ \A i \in 1..(k - 1) : t[i] = s[i + 1]
      /\ ToSet(s) = {Head(s)} \cup ToSet(t)
  BY QueueFacts, TailFacts
<1>2. /\ proc_todo'[p] \in Seq(Msgs) /\ Len(proc_todo'[p]) = 1
      /\ proc_todo'[p][1] = s[1] /\ ToSet(proc_todo'[p]) = {Head(s)}
  BY <1>1, OneFacts
<1>3. n \in Nat /\ k \in Nat /\ g \in Int /\ g = n - k /\ g <= n
  BY QueueFacts
<1>4. k # 0
  BY QueueFacts, SeqFacts
<1>5. h = n - u /\ u = k - 1
  BY <1>1 DEF Given
<1>6. k <= n /\ \A i \in 1..k : s[i] = accepted[p][g + i]
  BY DEF QueueOf
<1> HIDE DEF n, k, g, h, u
<1>7. h = g + 1 /\ u <= n /\ k >= 1
  BY <1>3, <1>4, <1>5, <1>6
<1>8. s[1] = accepted[p][g + 1]
  BY <1>3, <1>6, <1>7
<1>9. Waiting(p)'
  <2>1. Len(settled[p]) = (g + 1) - 1 /\ g + 1 >= 1
    BY <1>3 DEF g
  <2>2. QED
    BY <1>2, <1>7, <1>8, <2>1 DEF Waiting, h
<1>10. \A i \in 1..u : t[i] = accepted[p][h + i]
  <2>1. TAKE i \in 1..u
  <2>2. i \in 1..(k - 1) /\ i + 1 \in 1..k /\ g + (i + 1) = (g + 1) + i
    BY <1>3, <1>5
  <2>3. QED
    BY <1>1, <1>6, <1>7, <2>2
<1>11. held'[p] = ToSet(t) \cup ToSet(proc_todo'[p])
  BY <1>1, <1>2
<1>12. QED
  BY <1>1, <1>2, <1>7, <1>9, <1>10, <1>11 DEF QueueOf, n, h, u

\* A message comes to a node that has one delivered already.
LEMMA NodeQueued ==
  ASSUME Shape, NEW p \in Procs, QueueOf(p), Waiting(p) \/ Owned(p), NEW m \in Msgs,
         accepted'[p] = Append(accepted[p], m), async_todo'[p] = Append(async_todo[p], m),
         UNCHANGED <<proc_todo, settled, payload, serving>>,
         held'[p] = held[p] \cup {m}
  PROVE  QueueOf(p)'
<1> DEFINE a == accepted[p]
           b == accepted'[p]
           s == async_todo[p]
           t == async_todo'[p]
           n == Len(a)
           k == Len(s)
           g == Given(p)
           h == Given(p)'
<1>1. /\ Len(b) = n + 1 /\ b[n + 1] = m /\ \A i \in 1..n : b[i] = a[i]
      /\ Len(t) = k + 1 /\ t[k + 1] = m /\ \A i \in 1..k : t[i] = s[i]
      /\ ToSet(t) = ToSet(s) \cup {m}
  <2>1. a \in Seq(Msgs) /\ s \in Seq(Msgs)
    BY QueueFacts
  <2> HIDE DEF a, s
  <2>2. /\ Len(b) = n + 1 /\ b[n + 1] = m /\ \A i \in 1..n : b[i] = a[i]
    BY <2>1, AppendFacts DEF a
  <2>3. /\ Len(t) = k + 1 /\ t[k + 1] = m /\ \A i \in 1..k : t[i] = s[i]
        /\ ToSet(t) = ToSet(s) \cup {m}
    BY <2>1, AppendFacts DEF s
  <2>4. QED
    BY <2>2, <2>3
<1>2. n \in Nat /\ k \in Nat /\ g = n - k /\ k <= n /\ g >= 1
  BY QueueFacts DEF QueueOf, Waiting, Owned
<1>3. h = Len(b) - Len(t) /\ \A i \in 1..k : s[i] = a[g + i]
  BY DEF Given, QueueOf
<1>4. LoopersOf(p)' = LoopersOf(p) /\ Owners(p)' = Owners(p)
  BY DEF Owners, LoopersOf
<1> HIDE DEF a, b, s, t, n, k, g, h
<1>5. h = g /\ Len(t) <= Len(b) /\ g \in 1..n
  BY <1>1, <1>2, <1>3
<1>6. \A i \in 1..Len(t) : t[i] = b[h + i]
  <2>1. TAKE i \in 1..Len(t)
  <2>2. CASE i \in 1..k
    <3>1. g + i \in 1..n
      BY <1>2, <2>2
    <3>2. QED
      BY <1>1, <1>3, <1>5, <2>2, <3>1
  <2>3. CASE i = k + 1
    <3>1. g + i = n + 1
      BY <1>2, <2>3
    <3>2. QED
      BY <1>1, <1>5, <2>3, <3>1
  <2>4. QED
    BY <1>1, <1>2, <2>2, <2>3
<1>7. b[g] = a[g]
  BY <1>1, <1>5
<1>8. Waiting(p) => Waiting(p)'
  BY <1>4, <1>5, <1>7 DEF Waiting, a, b, g, h
<1>9. Owned(p) => Owned(p)'
  BY <1>4, <1>5, <1>7 DEF Owned, Handled, a, b, g, h
<1>10. held'[p] = ToSet(t) \cup ToSet(proc_todo'[p]) \cup {serving[l] : l \in Owners(p)}'
  BY <1>1, <1>4 DEF QueueOf, s
<1>11. QED
  BY <1>5, <1>6, <1>8, <1>9, <1>10 DEF QueueOf, b, t, h

\* A message comes to a node that has none.
LEMMA NodeDelivered ==
  ASSUME Shape, NEW p \in Procs, QueueOf(p), Drained(p), NEW m \in Msgs,
         accepted'[p] = Append(accepted[p], m), proc_todo'[p] = Append(proc_todo[p], m),
         UNCHANGED <<async_todo, settled, payload, serving>>,
         held'[p] = held[p] \cup {m}
  PROVE  QueueOf(p)'
<1> DEFINE n == Len(accepted[p])
           h == Given(p)'
<1>1. /\ Len(accepted'[p]) = n + 1 /\ accepted'[p][n + 1] = m /\ n \in Nat
  BY QueueFacts, AppendFacts
<1>2. Len(async_todo[p]) = 0 /\ ToSet(async_todo[p]) = {} /\ ToSet(proc_todo[p]) = {}
  BY QueueFacts, SeqFacts DEF Drained
<1>3. /\ Len(proc_todo'[p]) = 1 /\ proc_todo'[p][1] = m /\ ToSet(proc_todo'[p]) = {m}
  BY OneFacts DEF Drained
<1>4. Owners(p) = {} /\ Owners(p)' = {}
  BY DEF Drained, Owners, LoopersOf
<1>5. h = n + 1
  BY <1>1, <1>2 DEF Given
<1>6. Len(settled[p]) = n
  BY DEF Drained
<1> HIDE DEF n, h
<1>7. h >= 1 /\ Len(settled[p]) = h - 1
  BY <1>1, <1>5, <1>6
<1>8. Waiting(p)'
  BY <1>1, <1>3, <1>4, <1>5, <1>7 DEF Waiting, h
<1>9. held'[p] = {m}
  BY <1>2, <1>4 DEF QueueOf
<1>10. QED
  BY <1>1, <1>2, <1>3, <1>4, <1>8, <1>9 DEF QueueOf

\* What a write may do.
LEMMA WriteMoves ==
  ASSUME Shape, NEW m \in Msgs, Write(m)
  PROVE  \/ /\ UNCHANGED queue_vars
            /\ \/ device[Target[m]] = "unmapped" /\ sent' = [sent EXCEPT ![m] = "error"]
               \/ sent' = [sent EXCEPT ![m] = "full"]
         \/ accepted' # accepted
<1> DEFINE p == Target[m]
<1>1. p \in Procs /\ accepted[p] \in Seq(Msgs) /\ Len(accepted[p]) \in Nat
  BY QueueFacts, MessagesAssumption
<1>2. Append(accepted[p], m) # accepted[p]
  <2>1. Len(Append(accepted[p], m)) = Len(accepted[p]) + 1
    BY <1>1, AppendFacts
  <2>2. QED
    BY <1>1, <2>1
<1>3. CASE accepted' = [accepted EXCEPT ![p] = Append(@, m)]
  BY <1>1, <1>2, <1>3 DEF Shape
<1>4. QED
  BY <1>3 DEF Write
-----------------------------------------------------------------------------
(* The steps.                                                              *)

\* from_fd is done: what its loopers wait for.
LEMMA FinishFromFdIInv ==
  ASSUME IInv, NEW p \in Procs, FinishFromFd(p)
  PROVE  IInv'
<1> USE DEF IInv, FinishFromFd, looper_vars, queue_vars, pool_vars
<1>1. \A q \in Procs : Live(q)' => Live(q)
  BY DEF Live, Alive, LoopersOf, Serves, Shape
<1>2. Shape'
  BY DEF Shape, Serves, States
<1>3. SentInv'
  BY SentKept DEF Shape
<1>4. StartInv'
  BY Homes DEF Shape, StartInv, Alive, Serves, LoopersOf
<1>5. SenderInv'
  BY SenderKept DEF InSend, Shape
<1>6. PoolInv'
  BY PoolKept DEF Shape
<1>7. ServeInv'
  BY ServeKept DEF Shape, Serves
<1>8. OrderInv'
  BY OrderKept
<1>9. QueueInv'
  BY <1>1, QueueKept DEF Shape
<1>10. QED
  BY <1>2, <1>3, <1>4, <1>5, <1>6, <1>7, <1>8, <1>9

\* An object is registered; nothing is delivered by that.
LEMMA RegisterIInv ==
  ASSUME IInv, NEW p \in Procs, Register(p)
  PROVE  IInv'
<1> USE DEF IInv, Register, looper_vars, queue_vars, pool_vars
<1>1. \A q \in Procs : Live(q)' => Live(q)
  BY DEF Live, Alive, LoopersOf, Serves, Shape
<1>2. Shape'
  BY DEF Shape, Serves, States
<1>3. SentInv'
  BY SentKept DEF Shape
<1>4. StartInv'
  BY Homes DEF Shape, StartInv, Alive, Serves, LoopersOf
<1>5. SenderInv'
  BY SenderKept DEF InSend, Shape
<1>6. PoolInv'
  BY PoolKept DEF Shape
<1>7. ServeInv'
  BY ServeKept DEF Shape, Serves
<1>8. OrderInv'
  BY OrderKept
<1>9. QueueInv'
  BY <1>1, QueueKept DEF Shape
<1>10. QED
  BY <1>2, <1>3, <1>4, <1>5, <1>6, <1>7, <1>8, <1>9

\* An object goes; what is delivered to it from then on is discarded.
LEMMA DropObjectIInv ==
  ASSUME IInv, NEW p \in Procs, DropObject(p)
  PROVE  IInv'
<1> USE DEF IInv, DropObject, looper_vars, queue_vars, pool_vars
<1>1. \A q \in Procs : Live(q)' => Live(q)
  BY DEF Live, Alive, LoopersOf, Serves, Shape
<1>2. Shape'
  BY DEF Shape, Serves, States
<1>3. SentInv'
  BY SentKept DEF Shape
<1>4. StartInv'
  BY Homes DEF Shape, StartInv, Alive, Serves, LoopersOf
<1>5. SenderInv'
  BY SenderKept DEF InSend, Shape
<1>6. PoolInv'
  BY PoolKept DEF Shape
<1>7. ServeInv'
  BY ServeKept DEF Shape, Serves
<1>8. OrderInv'
  BY OrderKept
<1>9. QueueInv'
  BY <1>1, QueueKept DEF Shape
<1>10. QED
  BY <1>2, <1>3, <1>4, <1>5, <1>6, <1>7, <1>8, <1>9

\* The application drops the device: the loopers that serve hold it on.
LEMMA DropDeviceIInv ==
  ASSUME IInv, NEW p \in Procs, DropDevice(p)
  PROVE  IInv'
<1> USE DEF IInv, DropDevice, looper_vars, queue_vars, pool_vars
<1>1. \A q \in Procs : Live(q)' => Live(q)
  BY DEF Live, Alive, LoopersOf, Serves, Shape
<1>2. Shape'
  BY DEF Shape, Serves, States
<1>3. SentInv'
  BY SentKept DEF Shape
<1>4. StartInv'
  BY Homes DEF Shape, StartInv, Alive, Serves, LoopersOf
<1>5. SenderInv'
  BY SenderKept DEF InSend, Shape
<1>6. PoolInv'
  BY PoolKept DEF Shape
<1>7. ServeInv'
  BY ServeKept DEF Shape, Serves
<1>8. OrderInv'
  BY OrderKept
<1>9. QueueInv'
  BY <1>1, QueueKept DEF Shape
<1>10. QED
  BY <1>2, <1>3, <1>4, <1>5, <1>6, <1>7, <1>8, <1>9

\* The backing is unmapped, so that sends fail from then on.
LEMMA UnmapIInv ==
  ASSUME IInv, NEW p \in Procs, Unmap(p)
  PROVE  IInv'
<1> USE DEF IInv, Unmap, looper_vars, queue_vars, pool_vars
<1>1. \A q \in Procs : Live(q)' => Live(q)
  BY DEF Live, Alive, LoopersOf, Serves, Shape
<1>2. Shape'
  BY DEF Shape, Serves, States
<1>3. SentInv'
  BY SentKept DEF Shape
<1>4. StartInv'
  BY Homes DEF Shape, StartInv, Alive, Serves, LoopersOf
<1>5. SenderInv'
  BY SenderKept DEF InSend, Shape
<1>6. PoolInv'
  BY PoolKept DEF Shape
<1>7. ServeInv'
  BY ServeKept DEF Shape, Serves
<1>8. OrderInv'
  BY OrderKept
<1>9. QueueInv'
  BY <1>1, QueueKept DEF Shape
<1>10. QED
  BY <1>2, <1>3, <1>4, <1>5, <1>6, <1>7, <1>8, <1>9

\* A looper of from_fd goes on.
LEMMA SeeStartedIInv ==
  ASSUME IInv, NEW l \in Loopers, SeeStarted(l)
  PROVE  IInv'
<1> USE DEF IInv, SeeStarted, looper_vars, queue_vars, pool_vars
<1>1. \A q \in Procs : Live(q)' => Live(q)
  BY DEF Live, Alive, LoopersOf, Serves, Shape
<1>2. Shape'
  BY DEF Shape, Serves, States
<1>3. SentInv'
  BY SentKept DEF Shape
<1>4. StartInv'
  BY Homes DEF Shape, StartInv, Alive, Serves, LoopersOf
<1>5. SenderInv'
  BY SenderKept DEF InSend, Shape
<1>6. PoolInv'
  BY PoolKept DEF Shape, PoolInv
<1>7. ServeInv'
  BY ServeKept DEF Shape, Serves
<1>8. OrderInv'
  BY OrderKept
<1>9. QueueInv'
  BY <1>1, QueueKept DEF Shape
<1>10. QED
  BY <1>2, <1>3, <1>4, <1>5, <1>6, <1>7, <1>8, <1>9

\* A looper enters; one that was spawned on request is counted.
LEMMA EnterLoopIInv ==
  ASSUME IInv, NEW l \in Loopers, EnterLoop(l)
  PROVE  IInv'
<1> USE DEF IInv, EnterLoop, looper_vars, queue_vars, pool_vars
<1>1. Shape' /\ PoolInv'
  <2> USE DEF States
  <2>1. CASE l \in Initial
    <3>1. Shape'
      BY <2>1 DEF Shape, Serves
    <3>2. QED
      BY <2>1, <3>1, PoolKept DEF Shape
  <2>2. CASE l \notin Initial
    <3> DEFINE p == Home[l]
    <3>1. p \in Procs /\ l \in Asked(p) /\ l \notin Counted(p)
      BY <2>2, Homes DEF Asked, Counted, LoopersOf
    <3>2. \A q \in Procs :
            /\ Asked(q)' = IF q = p THEN Asked(q) \ {l} ELSE Asked(q)
            /\ Counted(q)' = IF q = p THEN Counted(q) \cup {l} ELSE Counted(q)
      BY <2>2 DEF Asked, Counted, LoopersOf, Shape
    <3>3. /\ Cardinality(Asked(p)') = Cardinality(Asked(p)) - 1
          /\ Cardinality(Counted(p)') = Cardinality(Counted(p)) + 1
      BY <3>1, <3>2, PoolFinite, AddOne, RemoveOne
    <3>4. /\ requested' = [requested EXCEPT ![p] = @ - 1]
          /\ registered' = [registered EXCEPT ![p] = @ + 1]
      BY <2>2
    <3>5. /\ requested \in [Procs -> 0..1] /\ registered \in [Procs -> Nat]
          /\ \A q \in Procs : registered[q] \in 0..MaxThreads[q]
          /\ requested[p] = Cardinality(Asked(p)) /\ registered[p] = Cardinality(Counted(p))
          /\ requested[p] + registered[p] <= MaxThreads[p]
      BY <3>1 DEF Shape, PoolInv
    <3>6. Cardinality(Asked(p)') \in Nat /\ Cardinality(Counted(p)') \in Nat
      <4>1. IsFiniteSet(Asked(p) \ {l})
        BY <3>1, PoolFinite, FS_RemoveElement
      <4>2. IsFiniteSet(Counted(p) \cup {l})
        BY <3>1, PoolFinite, FS_AddElement
      <4>3. Asked(p)' = Asked(p) \ {l} /\ Counted(p)' = Counted(p) \cup {l}
        BY <3>1, <3>2
      <4>4. QED
        BY <4>1, <4>2, <4>3, FS_CardinalityType
    <3> HIDE DEF p
    <3>7. requested[p] = 1 /\ registered[p] + 1 \in 0..MaxThreads[p]
      BY <3>1, <3>3, <3>5, <3>6, ThreadsAssumption
    <3>8. requested' \in [Procs -> 0..1] /\ registered' \in [Procs -> Nat]
          /\ \A q \in Procs : registered'[q] \in 0..MaxThreads[q]
      BY <3>1, <3>4, <3>5, <3>7
    <3>9. Shape'
      BY <3>8 DEF Shape, Serves
    <3>10. \A q \in Procs : /\ requested'[q] = Cardinality(Asked(q)')
                            /\ registered'[q] = Cardinality(Counted(q)')
                            /\ requested'[q] + registered'[q] <= MaxThreads[q]
      <4>1. SUFFICES ASSUME NEW q \in Procs
                     PROVE  /\ requested'[q] = Cardinality(Asked(q)')
                            /\ registered'[q] = Cardinality(Counted(q)')
                            /\ requested'[q] + registered'[q] <= MaxThreads[q]
        OBVIOUS
      <4>2. CASE q = p
        BY <3>3, <3>4, <3>5, <3>7, <4>2, ThreadsAssumption
      <4>3. CASE q # p
        <5>1. requested'[q] = requested[q] /\ registered'[q] = registered[q]
          BY <3>4, <3>5, <4>3
        <5>2. Asked(q)' = Asked(q) /\ Counted(q)' = Counted(q)
          BY <3>2, <4>3
        <5>3. QED
          BY <5>1, <5>2 DEF PoolInv
      <4>4. QED
        BY <4>2, <4>3
    <3>11. QED
      BY <3>9, <3>10 DEF PoolInv, Shape
  <2>3. QED
    BY <2>1, <2>2
<1>2. \A q \in Procs : Live(q)' => Live(q)
  BY DEF Live, Alive, LoopersOf, Serves, Shape
<1>3. Shape'
  BY <1>1
<1>4. SentInv'
  BY SentKept DEF Shape
<1>5. StartInv'
  BY Homes DEF Shape, StartInv, Alive, Serves, LoopersOf
<1>6. SenderInv'
  BY SenderKept DEF InSend, Shape
<1>7. PoolInv'
  BY <1>1
<1>8. ServeInv'
  BY ServeKept DEF Shape, Serves
<1>9. OrderInv'
  BY OrderKept
<1>10. QueueInv'
  BY <1>2, QueueKept DEF Shape
<1>11. QED
  BY <1>3, <1>4, <1>5, <1>6, <1>7, <1>8, <1>9, <1>10

\* A handler sends on: the send has its looper behind it.
LEMMA ForwardOnIInv ==
  ASSUME IInv, NEW l \in Loopers, ForwardOn(l)
  PROVE  IInv'
<1> USE DEF IInv, ForwardOn, looper_vars, queue_vars, pool_vars
<1>1. PICK m \in Msgs : /\ m = Forward[serving[l]] /\ sent[m] = "unsent"
                        /\ sent' = [sent EXCEPT ![m] = "writing"]
  <2>1. serving[l] \in Msgs
    BY DEF Shape, Serves
  <2>2. PICK m \in ToForward(l) : sent' = [sent EXCEPT ![m] = "writing"]
    OBVIOUS
  <2>3. m = Forward[serving[l]] /\ m # None /\ sent[m] = "unsent"
    BY <2>2 DEF ToForward
  <2>4. QED
    BY <2>1, <2>2, <2>3, MessagesAssumption
<1>2. \A q \in Procs : Live(q)' => Live(q)
  BY DEF Live, Alive, LoopersOf, Serves, Shape
<1>3. Shape'
  BY <1>1 DEF Shape, Serves
<1>4. SentInv'
  BY <1>1, SentKept DEF Shape
<1>5. StartInv'
  BY <1>1, SendersAssumption, Scripts DEF Shape, StartInv, Alive, Serves, LoopersOf
<1>6. SenderInv'
  BY <1>1, SenderKept DEF InSend, HasSender, Shape
<1>7. PoolInv'
  BY PoolKept DEF Shape
<1>8. ServeInv'
  BY ServeKept DEF Shape, Serves
<1>9. OrderInv'
  BY OrderKept
<1>10. QueueInv'
  BY <1>2, QueueKept DEF Shape
<1>11. QED
  BY <1>3, <1>4, <1>5, <1>6, <1>7, <1>8, <1>9, <1>10

\* A looper is done with a message, whose payload it has dropped.
LEMMA ReturnIInv ==
  ASSUME IInv, NEW l \in Loopers, Return(l)
  PROVE  IInv'
<1> USE DEF IInv, Return, looper_vars, queue_vars, pool_vars
<1>1. \A q \in Procs : Live(q)' => Live(q)
  BY DEF Live, Alive, LoopersOf, Serves, Shape
<1>2. Shape'
  BY DEF Shape, Serves, States
<1>3. SentInv'
  BY SentKept DEF Shape
<1>4. StartInv'
  BY Homes DEF Shape, StartInv, Alive, Serves, LoopersOf
<1>5. SenderInv'
  <2>1. looper[l] = "handling" => ~InSend(Forward[serving[l]]) \/ Forward[serving[l]] = None
    BY DEF Forwarding, InSend
  <2>2. \A m \in Msgs : InSend(m) /\ HasSender(m) => HasSender(m)'
    BY <2>1, MessagesAssumption DEF HasSender
  <2>3. QED
    BY <2>2 DEF SenderInv, InSend
<1>6. PoolInv'
  BY PoolKept DEF Shape, Serves
<1>7. ServeInv'
  BY ServeKept DEF Shape, Serves
<1>8. OrderInv'
  BY OrderKept
<1>9. QueueInv'
  BY <1>1, QueueKept DEF Shape
<1>10. QED
  BY <1>2, <1>3, <1>4, <1>5, <1>6, <1>7, <1>8, <1>9

\* An application thread starts a send; no other thread ever sends that message.
LEMMA BeginIInv ==
  ASSUME IInv, NEW a \in Apps, Begin(a)
  PROVE  IInv'
<1> USE DEF IInv, Begin, looper_vars, queue_vars, pool_vars
<1>1. PICK m \in ToSet(Script[a]) : /\ sent[m] = "unsent" 
                                    /\ sent' = [sent EXCEPT ![m] = "writing"]
  <2>1. PICK k \in 1..Len(Script[a]) : /\ sent[Script[a][k]] = "unsent"
                                       /\ sent' = [sent EXCEPT ![Script[a][k]] = "writing"]
    OBVIOUS
  <2>2. Script[a][k] \in ToSet(Script[a])
    BY MessagesAssumption, SeqFacts
  <2>3. QED
    BY <2>1, <2>2
<1>2. m \in Msgs
  BY MessagesAssumption, SeqFacts
<1>3. \A q \in Procs : Live(q)' => Live(q)
  BY DEF Live, Alive, LoopersOf, Serves, Shape
<1>4. Shape'
  BY <1>1, <1>2 DEF Shape, Serves
<1>5. SentInv'
  BY <1>1, <1>2, SentKept DEF Shape
<1>6. StartInv'
  <2>1. \A t \in Apps : m \in ToSet(Script[t]) => t = a
    BY SendersAssumption
  <2>2. \A x \in Msgs : x # m => sent'[x] = sent[x]
    BY <1>1 DEF Shape
  <2>3. \A t \in Apps : \A x \in ToSet(Script[t]) : sent'[x] # "unsent" => device[Home[t]] # "new"
    BY <2>1, <2>2, Scripts DEF StartInv
  <2>4. QED
    BY <2>3 DEF StartInv, Alive, LoopersOf, Serves
<1>7. SenderInv'
  BY <1>1, <1>2, SenderKept DEF InSend, HasSender, Shape
<1>8. PoolInv'
  BY PoolKept DEF Shape
<1>9. ServeInv'
  BY ServeKept DEF Shape, Serves
<1>10. OrderInv'
  BY OrderKept
<1>11. QueueInv'
  BY <1>3, QueueKept DEF Shape
<1>12. QED
  BY <1>4, <1>5, <1>6, <1>7, <1>8, <1>9, <1>10, <1>11

\* A send is repeated, and its read may spawn a looper.
LEMMA RetryIInv ==
  ASSUME IInv, NEW m \in Msgs, Retry(m)
  PROVE  IInv'
<1> USE DEF IInv, Retry, looper_vars, queue_vars, pool_vars
<1>1. SenderOf(m) \in Procs /\ device[SenderOf(m)] # "new"
  BY SenderStarted
<1>2. looper \in [Loopers -> States] /\ PoolInv' /\ requested' \in [Procs -> 0..1]
  BY <1>1, ReadWithPool DEF Shape
<1>3. /\ looper' \in [Loopers -> States]
      /\ \A k \in Loopers :
           \/ looper'[k] = looper[k]
           \/ Home[k] = SenderOf(m) /\ looper[k] = "none" /\ looper'[k] \in {"fresh", "failed"}
  BY <1>1, <1>2, ReadWithEffect
<1>4. \A k \in Loopers : Serves(k)' <=> Serves(k)
  BY <1>3 DEF Serves
<1>5. \A q \in Procs : Live(q)' => Live(q)
  BY <1>3, <1>4 DEF Live, Alive, LoopersOf
<1>6. Shape'
  BY <1>2, <1>3, <1>4 DEF Shape
<1>7. SentInv'
  BY SentKept DEF Shape
<1>8. StartInv'
  BY <1>1, <1>3, <1>4, Scripts DEF Shape, StartInv, Alive, LoopersOf
<1>9. SenderInv'
  BY <1>3, SenderKept DEF InSend, Shape
<1>10. PoolInv'
  BY <1>2
<1>11. ServeInv'
  BY <1>3, <1>4, ServeKept DEF Serves
<1>12. OrderInv'
  BY OrderKept
<1>13. QueueInv'
  BY <1>5, QueueKept DEF Shape
<1>14. QED
  BY <1>6, <1>7, <1>8, <1>9, <1>10, <1>11, <1>12, <1>13

\* A send returns, and its read may have spawned a looper.
LEMMA ReturnOkIInv ==
  ASSUME IInv, NEW m \in Msgs, ReturnOk(m)
  PROVE  IInv'
<1> USE DEF IInv, ReturnOk, looper_vars, queue_vars, pool_vars
<1>1. SenderOf(m) \in Procs /\ device[SenderOf(m)] # "new"
  BY SenderStarted
<1>2. looper \in [Loopers -> States] /\ PoolInv' /\ requested' \in [Procs -> 0..1]
  BY <1>1, ReadWithPool DEF Shape
<1>3. /\ looper' \in [Loopers -> States]
      /\ \A k \in Loopers :
           \/ looper'[k] = looper[k]
           \/ Home[k] = SenderOf(m) /\ looper[k] = "none" /\ looper'[k] \in {"fresh", "failed"}
  BY <1>1, <1>2, ReadWithEffect
<1>4. \A k \in Loopers : Serves(k)' <=> Serves(k)
  BY <1>3 DEF Serves
<1>5. \A q \in Procs : Live(q)' => Live(q)
  BY <1>3, <1>4 DEF Live, Alive, LoopersOf
<1>6. Shape'
  BY <1>2, <1>3, <1>4 DEF Shape
<1>7. SentInv'
  BY SentKept DEF Shape
<1>8. StartInv'
  BY <1>1, <1>3, <1>4, Scripts DEF Shape, StartInv, Alive, LoopersOf
<1>9. SenderInv'
  BY <1>3, SenderKept DEF InSend, Shape
<1>10. PoolInv'
  BY <1>2
<1>11. ServeInv'
  BY <1>3, <1>4, ServeKept DEF Serves
<1>12. OrderInv'
  BY OrderKept
<1>13. QueueInv'
  BY <1>5, QueueKept DEF Shape
<1>14. QED
  BY <1>6, <1>7, <1>8, <1>9, <1>10, <1>11, <1>12, <1>13

\* A handler uses a payload: the one that was given last, and it is the next to be used.
LEMMA HandleIInv ==
  ASSUME IInv, NEW l \in Loopers, Handle(l)
  PROVE  IInv'
<1> USE DEF IInv, Handle, looper_vars, queue_vars, pool_vars
<1> DEFINE p == Home[l]
<1>1. payload[l]
  BY DEF ServeInv, Serves
<1>2. /\ p \in Procs /\ QueueOf(p) /\ serving[l] \in Msgs
      /\ Owners(p) = {l} /\ proc_todo[p] = <<>>
      /\ Given(p) >= 1 /\ serving[l] = accepted[p][Given(p)]
      /\ Len(settled[p]) = Given(p) - 1
  BY <1>1, OwnerFacts
<1>3. /\ settled'[p] = Append(settled[p], serving[l])
      /\ \A q \in Procs : q # p => settled'[q] = settled[q]
  BY <1>2 DEF Shape
<1>4. /\ settled'[p] \in Seq(Msgs) /\ Len(settled'[p]) = Given(p)
      /\ \A i \in 1..(Given(p) - 1) : settled'[p][i] = settled[p][i]
      /\ settled'[p][Given(p)] = accepted[p][Given(p)]
      /\ ToSet(settled'[p]) = ToSet(settled[p]) \cup {serving[l]}
  <2>1. settled[p] \in Seq(Msgs) /\ Len(settled[p]) \in Nat /\ Given(p) \in Int
    BY <1>2, QueueFacts
  <2>2. /\ Append(settled[p], serving[l]) \in Seq(Msgs)
        /\ Len(Append(settled[p], serving[l])) = Len(settled[p]) + 1
        /\ \A i \in 1..Len(settled[p]) : Append(settled[p], serving[l])[i] = settled[p][i]
        /\ Append(settled[p], serving[l])[Len(settled[p]) + 1] = serving[l]
        /\ ToSet(Append(settled[p], serving[l])) = ToSet(settled[p]) \cup {serving[l]}
    BY <1>2, <2>1, AppendFacts
  <2>3. Len(settled[p]) + 1 = Given(p)
    BY <1>2, <2>1
  <2>4. QED
    BY <1>2, <1>3, <2>2, <2>3
<1>5. \A k \in Loopers : Handled(k) => Handled(k)'
  BY <1>3, <1>4, Homes DEF Handled
<1>6. Shape'
  <2>1. settled' \in [Procs -> Seq(Msgs)]
    BY <1>2, <1>4 DEF Shape
  <2>2. QED
    BY <2>1 DEF Shape, Serves
<1>7. SentInv'
  BY SentKept DEF Shape
<1>8. StartInv'
  BY Homes DEF Shape, StartInv, Alive, Serves, LoopersOf
<1>9. SenderInv'
  BY SenderKept DEF InSend, Shape
<1>10. PoolInv'
  BY PoolKept DEF Shape
<1>11. ServeInv'
  BY <1>5 DEF ServeInv, Serves
<1>12. OrderInv'
  <2>1. Given(p) <= Len(accepted[p]) /\ Given(p) \in Int
    BY <1>2, QueueFacts
  <2>2. \A i \in 1..Given(p) : i = Given(p) \/ i \in 1..(Given(p) - 1)
    BY <2>1
  <2>3. QED
    BY <1>2, <1>3, <1>4, <2>1, <2>2 DEF OrderInv
<1>13. QueueInv'
  <2>1. \A q \in Procs : Live(q)' => Live(q)
    BY DEF Live, Alive, LoopersOf, Serves
  <2>2. ASSUME NEW q \in Procs, q # p, QueueOf(q) PROVE QueueOf(q)'
    BY <1>3, <2>2, QueueOfKept
  <2>3. QueueOf(p)'
    <3>1. /\ Owners(p)' = {l} /\ Given(p)' = Given(p) /\ LoopersOf(p)' = LoopersOf(p)
          /\ l \in LoopersOf(p) /\ Handled(l)'
      BY <1>2, <1>4 DEF Owners, Given, LoopersOf, Handled
    <3>2. Owned(p)'
      BY <1>2, <1>4, <3>1 DEF Owned
    <3>3. {serving[k] : k \in Owners(p)}' = {serving[k] : k \in Owners(p)}
      BY <1>2, <3>1
    <3>4. QED
      BY <1>2, <3>1, <3>2, <3>3 DEF QueueOf
  <2>4. QED
    BY <2>1, <2>2, <2>3 DEF QueueInv
<1>14. QED
  BY <1>6, <1>7, <1>8, <1>9, <1>10, <1>11, <1>12, <1>13

\* A payload is dropped after its message is settled, and the driver delivers the next one.
LEMMA DropPayloadIInv ==
  ASSUME IInv, NEW l \in Loopers, DropPayload(l)
  PROVE  IInv'
<1> USE DEF IInv, DropPayload, looper_vars, queue_vars, pool_vars
<1> DEFINE p == Home[l]
<1>1. /\ p \in Procs /\ QueueOf(p) /\ Serves(l) /\ serving[l] \in Msgs
      /\ Owners(p) = {l} /\ proc_todo[p] = <<>>
      /\ Given(p) >= 1 /\ serving[l] = accepted[p][Given(p)]
      /\ Len(settled[p]) = IF Handled(l) THEN Given(p) ELSE Given(p) - 1
  BY OwnerFacts
<1>2. Handled(l) /\ Len(settled[p]) = Given(p)
  BY <1>1 DEF ServeInv, Serves
<1>3. /\ accepted[p] \in Seq(Msgs) /\ async_todo[p] \in Seq(Msgs)
      /\ Len(accepted[p]) \in Nat /\ Len(async_todo[p]) \in Nat
      /\ Given(p) \in Int /\ Given(p) = Len(accepted[p]) - Len(async_todo[p])
  BY <1>1, QueueFacts
<1>4. /\ held'[p] = held[p] \ {serving[l]}
      /\ \A q \in Procs : q # p =>
           /\ held'[q] = held[q] /\ async_todo'[q] = async_todo[q]
           /\ proc_todo'[q] = proc_todo[q]
  BY <1>1 DEF FreeBuffer, Shape
<1>5. held' \in [Procs -> SUBSET Msgs]
  BY <1>1 DEF FreeBuffer, Shape
<1>6. \/ /\ async_todo[p] = <<>> /\ UNCHANGED <<async_todo, proc_todo>>
      \/ /\ async_todo[p] # <<>>
         /\ async_todo' = [async_todo EXCEPT ![p] = Tail(async_todo[p])]
         /\ proc_todo' = [proc_todo EXCEPT ![p] = Append(<<>>, Head(async_todo[p]))]
  BY <1>1 DEF FreeBuffer, Shape
<1>7. \A q \in Procs : q # p => \A k \in LoopersOf(q) : payload'[k] = payload[k]
  BY DEF Shape, LoopersOf
<1>8. Owners(p)' = {}
  BY <1>1 DEF Owners, LoopersOf, Shape
<1>9. /\ async_todo' \in [Procs -> Seq(Msgs)] /\ proc_todo' \in [Procs -> Seq(Msgs)]
      /\ QueueOf(p)'
  <2>1. held[p] \ {serving[l]} = ToSet(async_todo[p])
    <3>1. ToSet(proc_todo[p]) = {}
      BY <1>1, SeqFacts, EmptySeq
    <3>2. held[p] = ToSet(async_todo[p]) \cup {serving[l]}
      BY <1>1, <3>1 DEF QueueOf
    <3>3. QED
      BY <1>1, <3>2, LastGiven
  <2>2. CASE async_todo[p] = <<>> /\ UNCHANGED <<async_todo, proc_todo>>
    <3>1. Len(async_todo[p]) = 0 /\ ToSet(async_todo[p]) = {}
      BY <1>3, <2>2, SeqFacts
    <3>2. Drained(p)'
      BY <1>1, <1>2, <1>3, <1>8, <2>2, <3>1 DEF Drained
    <3>3. ToSet(proc_todo[p]) = {}
      BY <1>1, SeqFacts, EmptySeq
    <3>4. held'[p] = {}
      BY <1>4, <2>1, <3>1
    <3>5. QueueOf(p)'
      BY <1>8, <2>2, <3>1, <3>2, <3>3, <3>4, <1>1 DEF QueueOf, Given
    <3>6. QED
      BY <2>2, <3>5 DEF Shape
  <2>3. CASE /\ async_todo[p] # <<>>
             /\ async_todo' = [async_todo EXCEPT ![p] = Tail(async_todo[p])]
             /\ proc_todo' = [proc_todo EXCEPT ![p] = Append(<<>>, Head(async_todo[p]))]
    <3>1. /\ async_todo'[p] = Tail(async_todo[p])
          /\ proc_todo'[p] = Append(<<>>, Head(async_todo[p]))
          /\ held'[p] = ToSet(async_todo[p])
      BY <1>1, <1>4, <2>1, <2>3 DEF Shape
    <3>2. /\ async_todo'[p] \in Seq(Msgs) /\ proc_todo'[p] \in Seq(Msgs)
          /\ QueueOf(p)'
      BY <1>1, <1>2, <1>8, <2>3, <3>1, NextDelivered
    <3>3. async_todo' \in [Procs -> Seq(Msgs)] /\ proc_todo' \in [Procs -> Seq(Msgs)]
      BY <1>1, <2>3, <3>2 DEF Shape
    <3>4. QED
      BY <3>2, <3>3
  <2>4. QED
    BY <1>6, <2>2, <2>3
<1>10. Shape'
  BY <1>1, <1>5, <1>9 DEF Shape, Serves
<1>11. SentInv'
  BY SentKept DEF Shape
<1>12. StartInv'
  BY DEF Shape, StartInv, Alive, Serves, LoopersOf
<1>13. SenderInv'
  BY SenderKept DEF InSend, Shape
<1>14. PoolInv'
  BY PoolKept DEF Shape
<1>15. ServeInv'
  BY <1>2 DEF ServeInv, Serves, Handled, Shape
<1>16. OrderInv'
  BY OrderKept
<1>17. QueueInv'
  <2>1. \A q \in Procs : Live(q)' => Live(q)
    BY DEF Live, Alive, LoopersOf, Serves
  <2>2. ASSUME NEW q \in Procs, q # p, QueueOf(q) PROVE QueueOf(q)'
    BY <1>4, <1>7, <2>2, QueueOfKept
  <2>3. QED
    BY <1>9, <2>1, <2>2 DEF QueueInv
<1>18. QED
  BY <1>10, <1>11, <1>12, <1>13, <1>14, <1>15, <1>16, <1>17

\* A looper finds its device gone: it leaves, and what it has read is lost.
LEMMA ReadLostIInv ==
  ASSUME IInv, NEW l \in Loopers, Read(l), ~Alive(Home[l])
  PROVE  IInv'
<1> USE DEF IInv, Read
<1> DEFINE p == Home[l]
<1>1. /\ p \in Procs /\ looper[l] = "reading" /\ device[p] # "new" /\ ~payload[l]
      /\ looper' = [looper EXCEPT ![l] = "exited"]
      /\ UNCHANGED <<serving, payload, settled, requested>>
  BY Homes DEF StartInv, Shape, Serves
<1>2. proc_todo' \in [Procs -> Seq(Msgs)] /\ \A q \in Procs : q # p => proc_todo'[q] = proc_todo[q]
  BY <1>1, TailFacts DEF Shape
<1>3. \A k \in Loopers : Serves(k)' <=> Serves(k)
  BY <1>1 DEF Serves, Shape
<1>4. \A q \in Procs : Live(q)' => q # p /\ Live(q)
  BY <1>1, <1>3 DEF Live, Alive, LoopersOf
<1>5. Shape'
  BY <1>1, <1>2, <1>3 DEF Shape, States
<1>6. SentInv'
  BY SentKept
<1>7. StartInv'
  BY <1>1, <1>3 DEF Shape, StartInv, Alive, LoopersOf
<1>8. SenderInv'
  BY <1>1, SenderKept DEF InSend, Shape
<1>9. PoolInv'
  BY <1>1, PoolKept DEF Shape
<1>10. ServeInv'
  BY <1>1, <1>3, ServeKept DEF Shape, Serves
<1>11. OrderInv'
  BY <1>1, OrderKept
<1>12. QueueInv'
  <2>1. ASSUME NEW q \in Procs, q # p, QueueOf(q) PROVE QueueOf(q)'
    BY <1>1, <1>2, <2>1, QueueOfKept
  <2>2. QED
    BY <1>4, <2>1 DEF QueueInv
<1>13. QED
  BY <1>5, <1>6, <1>7, <1>8, <1>9, <1>10, <1>11, <1>12

\* A looper reads the message that waits, to handle it or to discard it.
LEMMA ReadServedIInv ==
  ASSUME IInv, NEW l \in Loopers, Read(l), Alive(Home[l])
  PROVE  IInv'
<1> DEFINE p == Home[l]
           m == Head(proc_todo[p])
<1> USE DEF IInv
<1>1. /\ p \in Procs /\ looper[l] = "reading" /\ device[p] # "new" /\ ~payload[l]
      /\ proc_todo[p] # <<>>
  BY Homes DEF StartInv, Shape, Serves, Read
<1>2. /\ proc_todo' = [proc_todo EXCEPT ![p] = Tail(@)]
      /\ serving' = [serving EXCEPT ![l] = m] /\ payload' = [payload EXCEPT ![l] = TRUE]
      /\ UNCHANGED <<early, device, object, sent, async_todo, held, accepted, registered>>
  BY DEF Read
<1>3. PICK st \in {"handling", "discarding"} :
        /\ ReadWith(p, [looper EXCEPT ![l] = st])
        /\ st = "handling" => settled' = settled
        /\ st = "discarding" => settled' = [settled EXCEPT ![p] = Append(@, m)]
  BY DEF Read
<1>4. /\ QueueOf(p) /\ Owners(p) = {} /\ Given(p) >= 1 /\ Len(proc_todo[p]) = 1
      /\ proc_todo[p][1] = accepted[p][Given(p)] /\ Len(settled[p]) = Given(p) - 1
  BY <1>1 DEF QueueInv, Live, QueueOf, Waiting, Owned, Drained
<1>5. /\ m \in Msgs /\ m = accepted[p][Given(p)] /\ ToSet(proc_todo[p]) = {m}
      /\ Tail(proc_todo[p]) \in Seq(Msgs) /\ Tail(proc_todo[p]) = <<>>
  <2> DEFINE s == proc_todo[p]
             t == Tail(s)
  <2>1. /\ m = s[1] /\ m \in Msgs /\ t \in Seq(Msgs) /\ Len(t) = Len(s) - 1
        /\ ToSet(s) = {s[1]} \cup ToSet(t)
    BY <1>1, QueueFacts, TailFacts
  <2>2. Len(t) = 0
    BY <1>4, <2>1
  <2>3. t = <<>> /\ ToSet(t) = {}
    BY <2>1, <2>2, SeqFacts
  <2>4. QED
    BY <1>4, <2>1, <2>3
<1>6. m \in ToSet(accepted[p]) /\ m \notin ToSet(settled[p])
  BY <1>1, <1>4, <1>5, LastGiven
<1>7. /\ settled'[p] \in Seq(Msgs) /\ \A q \in Procs : q # p => settled'[q] = settled[q]
      /\ st = "handling" => settled'[p] = settled[p]
      /\ st = "discarding" =>
           /\ Len(settled'[p]) = Given(p) /\ settled'[p][Given(p)] = m
           /\ \A i \in 1..(Given(p) - 1) : settled'[p][i] = settled[p][i]
           /\ ToSet(settled'[p]) = ToSet(settled[p]) \cup {m}
  <2>1. settled[p] \in Seq(Msgs) /\ Given(p) \in Int
    BY <1>1, QueueFacts
  <2>2. /\ Append(settled[p], m) \in Seq(Msgs)
        /\ Len(Append(settled[p], m)) = Len(settled[p]) + 1
        /\ \A i \in 1..Len(settled[p]) : Append(settled[p], m)[i] = settled[p][i]
        /\ Append(settled[p], m)[Len(settled[p]) + 1] = m
        /\ ToSet(Append(settled[p], m)) = ToSet(settled[p]) \cup {m}
    BY <1>5, <2>1, AppendFacts
  <2>3. Len(settled[p]) + 1 = Given(p)
    BY <1>4, <2>1
  <2>4. settled'[p] = IF st = "handling" THEN settled[p] ELSE Append(settled[p], m)
    BY <1>1, <1>3 DEF Shape
  <2>5. QED
    BY <1>1, <1>3, <1>4, <2>1, <2>2, <2>3, <2>4 DEF Shape
<1>8. /\ [looper EXCEPT ![l] = st] \in [Loopers -> States]
      /\ \A k \in Loopers : \A s \in {"none", "failed", "parked", "fresh"} :
           [looper EXCEPT ![l] = st][k] = s <=> looper[k] = s
  BY <1>1 DEF Shape, States
<1>9. PoolInv' /\ requested' \in [Procs -> 0..1]
  BY <1>1, <1>2, <1>3, <1>8, ReadWithPool
<1>10. /\ looper' \in [Loopers -> States] /\ looper'[l] = st
       /\ \A k \in Loopers : k # l =>
            \/ looper'[k] = looper[k]
            \/ Home[k] = p /\ looper[k] = "none" /\ looper'[k] \in {"fresh", "failed"}
  <2> DEFINE ls == [looper EXCEPT ![l] = st]
  <2>1. /\ looper' \in [Loopers -> States]
        /\ \A k \in Loopers :
             \/ looper'[k] = ls[k]
             \/ Home[k] = p /\ ls[k] = "none" /\ looper'[k] \in {"fresh", "failed"}
    <3>1. p \in Procs /\ ls \in [Loopers -> States] /\ ReadWith(p, ls)
      BY <1>1, <1>3, <1>8
    <3> HIDE DEF ls, p
    <3>2. QED
      BY <3>1, ReadWithEffect
  <2>2. QED
    BY <2>1 DEF Shape
<1>11. /\ Serves(l)' /\ serving'[l] = m /\ payload'[l]
       /\ \A k \in Loopers : k # l =>
            /\ Serves(k)' <=> Serves(k)
            /\ serving'[k] = serving[k] /\ payload'[k] = payload[k]
  BY <1>2, <1>10 DEF Serves, Shape
<1>12. \A k \in Loopers : k # l /\ Handled(k) => Handled(k)'
  <2>1. \A q \in Procs : ToSet(settled[q]) \subseteq ToSet(settled'[q])
    BY <1>7
  <2>2. QED
    BY <1>11, <2>1, Homes DEF Handled
<1>13. Handled(l)' <=> st = "discarding"
  BY <1>6, <1>7, <1>11 DEF Handled
<1>14. Shape'
  <2>1. settled' \in [Procs -> Seq(Msgs)]
    BY <1>1, <1>3, <1>7 DEF Shape
  <2>2. proc_todo' \in [Procs -> Seq(Msgs)]
    BY <1>1, <1>2, <1>5 DEF Shape
  <2>3. serving' \in [Loopers -> Msgs \cup {None}] /\ payload' \in [Loopers -> BOOLEAN]
    BY <1>2, <1>5 DEF Shape
  <2>4. QED
    BY <1>2, <1>5, <1>9, <1>10, <1>11, <2>1, <2>2, <2>3 DEF Shape
<1>15. SentInv'
  BY <1>2, SentKept
<1>16. StartInv'
  <2>1. \A q \in Procs : q # p => (Alive(q)' <=> Alive(q))
    BY <1>2, <1>11 DEF Alive, LoopersOf
  <2>2. \A k \in Loopers :
          /\ looper'[k] = "exited" => looper[k] = "exited"
          /\ looper'[k] = looper[k] \/ Home[k] = p
    BY <1>10
  <2>3. \A k \in Loopers : looper'[k] = "exited" => Home[k] # p /\ ~Alive(Home[k])'
    <3>1. TAKE k \in Loopers
    <3>2. HAVE looper'[k] = "exited"
    <3>3. looper[k] = "exited"
      BY <2>2, <3>2
    <3>4. Home[k] \in Procs /\ ~Alive(Home[k])
      BY <3>3, Homes DEF StartInv
    <3>5. Home[k] # p
      BY <3>4
    <3>6. QED
      BY <2>1, <3>4, <3>5
  <2>4. \A k \in Loopers : looper'[k] \notin {"none", "parked"} => device'[Home[k]] # "new"
    BY <1>1, <1>2, <2>2 DEF StartInv
  <2>5. QED
    BY <1>2, <2>3, <2>4 DEF StartInv
<1>17. SenderInv'
  BY <1>1, <1>2, <1>10, <1>11, SenderKept DEF InSend, Shape
<1>18. ServeInv'
  BY <1>2, <1>6, <1>10, <1>11, <1>12, <1>13 DEF ServeInv, Serves
<1>19. OrderInv'
  <2>1. Given(p) <= Len(accepted[p]) /\ Given(p) \in Int
    BY <1>1, QueueFacts
  <2>2. \A i \in 1..Given(p) : i = Given(p) \/ i \in 1..(Given(p) - 1)
    BY <2>1
  <2>3. QED
    <3>1. CASE st = "handling"
      BY <1>1, <1>2, <1>7, <3>1 DEF OrderInv
    <3>2. CASE st = "discarding"
      <4>1. /\ Len(settled'[p]) <= Len(accepted[p])
            /\ \A i \in 1..Len(settled'[p]) : settled'[p][i] = accepted[p][i]
        BY <1>1, <1>4, <1>5, <1>7, <2>1, <2>2, <3>2 DEF OrderInv
      <4>2. QED
        BY <1>2, <1>7, <4>1 DEF OrderInv
    <3>3. QED
      BY <3>1, <3>2
<1>20. QueueInv'
  <2>1. \A q \in Procs : Live(q)' => Live(q)
    BY <1>1, <1>2, <1>11 DEF Live, Alive, LoopersOf
  <2>2. ASSUME NEW q \in Procs, q # p, QueueOf(q) PROVE QueueOf(q)'
    <3>1. \A k \in LoopersOf(q) : k # l /\ k \in Loopers
      BY <2>2 DEF LoopersOf
    <3>2. /\ async_todo'[q] = async_todo[q] /\ proc_todo'[q] = proc_todo[q] /\ held'[q] = held[q]
          /\ accepted'[q] = accepted[q] /\ settled'[q] = settled[q]
      BY <1>1, <1>2, <1>7, <2>2 DEF Shape
    <3>3. QED
      BY <1>11, <2>2, <3>1, <3>2, QueueOfKept
  <2>3. QueueOf(p)'
    <3>1. proc_todo'[p] = <<>> /\ ToSet(proc_todo'[p]) = {}
      BY <1>1, <1>2, <1>5, SeqFacts DEF Shape
    <3>2. Owners(p)' = {l} /\ l \in LoopersOf(p)'
      BY <1>1, <1>4, <1>11 DEF Owners, LoopersOf
    <3>3. Given(p)' = Given(p)
      BY <1>2 DEF Given
    <3>4. Owned(p)'
      BY <1>2, <1>4, <1>5, <1>7, <1>11, <1>13, <3>1, <3>2, <3>3 DEF Owned
    <3>5. {serving[k] : k \in Owners(p)}' = {m}
      BY <1>11, <3>2
    <3>6. held'[p] = ToSet(async_todo'[p]) \cup ToSet(proc_todo'[p]) \cup {m}
      BY <1>2, <1>4, <1>5, <3>1 DEF QueueOf
    <3>7. QED
      BY <1>2, <1>4, <3>3, <3>4, <3>5, <3>6 DEF QueueOf
  <2>4. QED
    BY <2>1, <2>2, <2>3 DEF QueueInv
<1>21. QED
  BY <1>9, <1>14, <1>15, <1>16, <1>17, <1>18, <1>19, <1>20

\* The driver refuses a message for want of room, or has no mapping to put it in.
LEMMA WriteRefusedIInv ==
  ASSUME IInv, NEW m \in Msgs, Write(m), UNCHANGED queue_vars,
         \/ device[Target[m]] = "unmapped" /\ sent' = [sent EXCEPT ![m] = "error"]
         \/ sent' = [sent EXCEPT ![m] = "full"]
  PROVE  IInv'
<1> USE DEF IInv, Write, looper_vars, queue_vars, pool_vars
<1>1. Shape'
  BY DEF Shape, Serves
<1>2. SentInv'
  BY DEF Shape, SentInv
<1>3. StartInv'
  BY Scripts DEF Shape, StartInv, Alive, LoopersOf, Serves
<1>4. SenderInv'
  BY SenderKept DEF InSend, Shape
<1>5. PoolInv'
  BY PoolKept
<1>6. ServeInv'
  BY ServeKept DEF Serves
<1>7. OrderInv'
  BY OrderKept
<1>8. \A q \in Procs : Live(q)' => Live(q)
  BY DEF Live, Alive, LoopersOf, Serves
<1>9. QueueInv'
  BY <1>8, QueueKept
<1>10. QED
  BY <1>1, <1>2, <1>3, <1>4, <1>5, <1>6, <1>7, <1>9

\* The driver takes a message, behind the one it has delivered, if any.
LEMMA WriteTakenIInv ==
  ASSUME IInv, NEW m \in Msgs, Write(m), ~UNCHANGED accepted
  PROVE  IInv'
<1> DEFINE p == Target[m]
<1> USE DEF IInv
<1>1. /\ p \in Procs /\ sent[m] = "writing"
      /\ sent' = [sent EXCEPT ![m] = "queued"]
      /\ held' = [held EXCEPT ![p] = @ \cup {m}]
      /\ accepted' = [accepted EXCEPT ![p] = Append(@, m)]
      /\ \/ /\ Busy(p)
            /\ async_todo' = [async_todo EXCEPT ![p] = Append(@, m)]
            /\ UNCHANGED proc_todo
         \/ /\ ~Busy(p)
            /\ proc_todo' = [proc_todo EXCEPT ![p] = Append(@, m)]
            /\ UNCHANGED async_todo
      /\ UNCHANGED <<early, device, object, looper, serving, payload, requested, registered, settled>>
  BY MessagesAssumption DEF Write, queue_vars, looper_vars, pool_vars
<1>2. /\ accepted'[p] = Append(accepted[p], m) /\ held'[p] = held[p] \cup {m}
      /\ \A q \in Procs : q # p =>
           /\ accepted'[q] = accepted[q] /\ held'[q] = held[q]
           /\ async_todo'[q] = async_todo[q] /\ proc_todo'[q] = proc_todo[q]
  BY <1>1 DEF Shape
<1>3. /\ accepted'[p] \in Seq(Msgs) /\ Len(accepted'[p]) = Len(accepted[p]) + 1
      /\ \A i \in 1..Len(accepted[p]) : accepted'[p][i] = accepted[p][i]
      /\ ToSet(accepted'[p]) = ToSet(accepted[p]) \cup {m}
      /\ Len(accepted[p]) \in Nat /\ Len(settled[p]) \in Nat
  <2>1. accepted[p] \in Seq(Msgs) /\ Len(accepted[p]) \in Nat /\ Len(settled[p]) \in Nat
    BY <1>1, QueueFacts
  <2>2. QED
    BY <1>2, <2>1, AppendFacts
<1>4. m \notin ToSet(accepted[p])
  BY <1>1 DEF SentInv
<1>5. async_todo' \in [Procs -> Seq(Msgs)] /\ proc_todo' \in [Procs -> Seq(Msgs)]
  <2>1. Append(async_todo[p], m) \in Seq(Msgs) /\ Append(proc_todo[p], m) \in Seq(Msgs)
    BY <1>1, QueueFacts, AppendFacts
  <2>2. QED
    BY <1>1, <2>1 DEF Shape
<1>6. Shape'
  BY <1>1, <1>3, <1>5 DEF Shape, Serves
<1>7. SentInv'
  <2>1. \A q \in Procs : IsInjective(accepted'[q])
    <3>1. accepted[p] \in Seq(Msgs) /\ IsInjective(accepted[p])
      BY <1>1 DEF Shape, SentInv
    <3>2. IsInjective(accepted'[p])
      BY <1>2, <1>4, <3>1, AppendDistinct
    <3>3. QED
      BY <1>2, <3>2 DEF SentInv
  <2>2. \A q \in Procs, x \in Msgs :
          x \in ToSet(accepted'[q]) <=> x \in ToSet(accepted[q]) \/ (q = p /\ x = m)
    BY <1>2, <1>3
  <2>3. \A x \in Msgs : x # m => sent'[x] = sent[x]
    BY <1>1 DEF Shape
  <2>4. sent'[m] = "queued"
    BY <1>1 DEF Shape
  <2>5. QED
    BY <1>1, <2>1, <2>2, <2>3, <2>4 DEF SentInv
<1>8. StartInv'
  BY <1>1, Scripts DEF Shape, StartInv, Alive, LoopersOf, Serves
<1>9. SenderInv'
  BY <1>1, SenderKept DEF InSend, Shape
<1>10. PoolInv'
  BY <1>1, PoolKept
<1>11. ServeInv'
  <2>1. \A q \in Procs : ToSet(accepted[q]) \subseteq ToSet(accepted'[q])
    BY <1>2, <1>3
  <2>2. QED
    BY <1>1, <2>1, Homes DEF ServeInv, Serves, Handled
<1>12. OrderInv'
  <2>1. /\ Len(settled[p]) <= Len(accepted[p])
        /\ \A i \in 1..Len(settled[p]) : settled[p][i] = accepted[p][i]
    BY <1>1 DEF OrderInv
  <2>2. /\ Len(settled[p]) <= Len(accepted'[p])
        /\ \A i \in 1..Len(settled[p]) : settled[p][i] = accepted'[p][i]
    BY <1>3, <2>1
  <2>3. QED
    BY <1>1, <1>2, <2>2 DEF OrderInv
<1>13. QueueInv'
  <2>1. \A q \in Procs : Live(q)' => Live(q)
    BY <1>1 DEF Live, Alive, LoopersOf, Serves
  <2>2. ASSUME NEW q \in Procs, q # p, QueueOf(q) PROVE QueueOf(q)'
    BY <1>1, <1>2, <2>2, QueueOfKept
  <2>3. ASSUME QueueOf(p) PROVE QueueOf(p)'
    <3>1. Busy(p) => Waiting(p) \/ Owned(p)
      <4>1. SUFFICES ASSUME Drained(p) PROVE held[p] = ToSet(async_todo[p])
        BY <2>3 DEF QueueOf, Busy
      <4>2. ToSet(proc_todo[p]) = {} /\ Owners(p) = {}
        BY <1>1, <4>1, QueueFacts, SeqFacts DEF Drained
      <4>3. QED
        BY <2>3, <4>2 DEF QueueOf
    <3>2. ~Busy(p) => Drained(p)
      <4>1. SUFFICES ASSUME Waiting(p) \/ Owned(p) PROVE held[p] # ToSet(async_todo[p])
        BY <2>3 DEF QueueOf, Busy
      <4>2. Given(p) >= 1
        BY <4>1 DEF Waiting, Owned
      <4>3. accepted[p][Given(p)] \notin ToSet(async_todo[p])
        BY <1>1, <2>3, <4>2, LastGiven
      <4>4. accepted[p][Given(p)] \in held[p]
        <5>1. CASE Waiting(p)
          <6>1. proc_todo[p][1] \in ToSet(proc_todo[p])
            <7>1. /\ Len(proc_todo[p]) = 1
                  /\ ToSet(proc_todo[p]) = {proc_todo[p][i] : i \in 1..Len(proc_todo[p])}
              BY <1>1, <5>1, QueueFacts, SeqFacts DEF Waiting
            <7>2. QED
              BY <7>1
          <6>2. QED
            BY <2>3, <5>1, <6>1 DEF QueueOf, Waiting
        <5>2. CASE Owned(p)
          BY <2>3, <5>2 DEF QueueOf, Owned
        <5>3. QED
          BY <4>1, <5>1, <5>2
      <4>5. QED
        BY <4>3, <4>4
    <3>3. CASE Busy(p)
      <4>1. async_todo'[p] = Append(async_todo[p], m) /\ UNCHANGED proc_todo
        BY <1>1, <3>3 DEF Shape
      <4>2. QED
        BY <1>1, <1>2, <2>3, <3>1, <3>3, <4>1, NodeQueued
    <3>4. CASE ~Busy(p)
      <4>1. proc_todo'[p] = Append(proc_todo[p], m) /\ UNCHANGED async_todo
        BY <1>1, <3>4 DEF Shape
      <4>2. QED
        BY <1>1, <1>2, <2>3, <3>2, <3>4, <4>1, NodeDelivered
    <3>5. QED
      BY <3>3, <3>4
  <2>4. QED
    BY <2>1, <2>2, <2>3 DEF QueueInv
<1>14. QED
  BY <1>6, <1>7, <1>8, <1>9, <1>10, <1>11, <1>12, <1>13

-----------------------------------------------------------------------------
\* A process starts with its own loopers waiting for from_fd.
LEMMA InitIInv == Init => IInv
<1> SUFFICES ASSUME Init PROVE IInv
  OBVIOUS
<1> USE DEF Init
<1>1. <<>> \in Seq(Msgs) /\ Len(<<>>) = 0 /\ ToSet(<<>>) = {}
  BY EmptySeq, SeqFacts
<1>2. Shape
  BY <1>1, ThreadsAssumption DEF Shape, States, Serves
<1>3. SentInv
  <2>1. DOMAIN <<>> = {}
    BY <1>1, SeqFacts
  <2>2. IsInjective(<<>>)
    BY <2>1 DEF IsInjective
  <2>3. QED
    BY <1>1, <2>2 DEF SentInv
<1>4. StartInv
  BY Scripts DEF StartInv
<1>5. SenderInv
  BY DEF SenderInv, InSend
<1>6. PoolInv
  <2>1. \A p \in Procs : Asked(p) = {} /\ Counted(p) = {}
    BY DEF Asked, Counted, LoopersOf
  <2>2. \A p \in Procs : Cardinality(Asked(p)) = 0 /\ Cardinality(Counted(p)) = 0
    BY <2>1, FS_EmptySet
  <2>3. QED
    BY <2>2, ThreadsAssumption DEF PoolInv
<1>7. ServeInv
  BY DEF ServeInv, Serves
<1>8. OrderInv
  BY <1>1 DEF OrderInv
<1>9. QueueInv
  <2> SUFFICES ASSUME NEW p \in Procs PROVE QueueOf(p)
    BY DEF QueueInv
  <2>1. Owners(p) = {}
    BY DEF Owners, LoopersOf
  <2>2. Drained(p)
    BY <2>1 DEF Drained
  <2>3. QED
    BY <1>1, <2>1, <2>2 DEF QueueOf
<1>10. QED
  BY <1>2, <1>3, <1>4, <1>5, <1>6, <1>7, <1>8, <1>9 DEF IInv

\* A step that changes nothing keeps the invariant.
LEMMA StutterIInv == IInv /\ UNCHANGED vars => IInv'
<1> SUFFICES ASSUME IInv, UNCHANGED vars PROVE IInv'
  OBVIOUS
<1> USE DEF IInv, vars, looper_vars, queue_vars, pool_vars
<1>1. Shape'
  BY DEF Shape, Serves
<1>2. SentInv'
  BY SentKept
<1>3. StartInv'
  BY DEF StartInv, Alive, LoopersOf, Serves
<1>4. SenderInv'
  BY SenderKept DEF InSend
<1>5. PoolInv'
  BY PoolKept
<1>6. ServeInv'
  BY ServeKept DEF Serves
<1>7. OrderInv'
  BY OrderKept
<1>8. \A p \in Procs : Live(p)' => Live(p)
  BY DEF Live, Alive, LoopersOf, Serves
<1>9. QueueInv'
  BY <1>8, QueueKept
<1>10. QED
  BY <1>1, <1>2, <1>3, <1>4, <1>5, <1>6, <1>7, <1>9

\* Whatever a thread or the driver does, the invariant is kept.
LEMMA NextIInv == IInv /\ [Next]_vars => IInv'
<1> SUFFICES ASSUME IInv, [Next]_vars PROVE IInv'
  OBVIOUS
<1>1. ASSUME NEW p \in Procs, DeviceNext(p) PROVE IInv'
  BY <1>1, FinishFromFdIInv, RegisterIInv, DropObjectIInv, DropDeviceIInv, UnmapIInv
     DEF DeviceNext
<1>2. ASSUME NEW l \in Loopers, LooperNext(l) PROVE IInv'
  BY <1>2, SeeStartedIInv, EnterLoopIInv, ReadLostIInv, ReadServedIInv, HandleIInv,
     ForwardOnIInv, DropPayloadIInv, ReturnIInv DEF LooperNext
<1>3. ASSUME NEW a \in Apps, Begin(a) PROVE IInv'
  BY <1>3, BeginIInv
<1>4. ASSUME NEW m \in Msgs, SendNext(m) PROVE IInv'
  <2>1. CASE Write(m)
    BY <2>1, WriteMoves, WriteRefusedIInv, WriteTakenIInv DEF IInv
  <2>2. QED
    BY <1>4, <2>1, RetryIInv, ReturnOkIInv DEF SendNext
<1>5. QED
  BY <1>1, <1>2, <1>3, <1>4, StutterIInv DEF Next
-----------------------------------------------------------------------------
\* The invariant of the queues, the loopers and the sends is inductive.
THEOREM DeliveryInvariant == Spec => []IInv
BY InitIInv, NextIInv, PTL DEF Spec

\* The driver never gives out more room than a mapping has, a message keeps its room
\* until it is used, and no looper serves once the mapping is gone.
RoomInv == \A p \in Procs : IsFiniteSet(Room(p)) /\ Used(p) <= Space
UnusedInv == \A p \in Procs : ToSet(accepted[p]) \ ToSet(settled[p]) \subseteq held[p]
GoneInv == \A p \in Procs : device[p] = "unmapped" => ~Alive(p)
BoxInv == RoomInv /\ UnusedInv /\ GoneInv

\* A message takes no more units than its size.
LEMMA SizeBound ==
  ASSUME NEW m \in Msgs
  PROVE  IsFiniteSet({m} \X (1..Size[m])) /\ Cardinality({m} \X (1..Size[m])) <= Size[m]
<1> DEFINE n == Size[m]
           f == [i \in 1..n |-> <<m, i>>]
<1>1. n \in Nat /\ n \in Int
  BY MessagesAssumption
<1>2. f \in Surjection(1..n, {m} \X (1..n))
  BY DEF Surjection
<1>3. IsFiniteSet(1..n) /\ Cardinality(1..n) = n
  BY <1>1, FS_Interval
<1> HIDE DEF n, f
<1>4. IsFiniteSet({m} \X (1..n)) /\ Cardinality({m} \X (1..n)) <= Cardinality(1..n)
  BY <1>2, <1>3, FS_Surjection
<1>5. QED
  BY <1>3, <1>4 DEF n

\* Less takes no more room.
LEMMA LessRoom ==
  ASSUME NEW A, NEW B, A \subseteq B,
         IsFiniteSet(UNION {{m} \X (1..Size[m]) : m \in B})
  PROVE  /\ IsFiniteSet(UNION {{m} \X (1..Size[m]) : m \in A})
         /\ Cardinality(UNION {{m} \X (1..Size[m]) : m \in A})
              <= Cardinality(UNION {{m} \X (1..Size[m]) : m \in B})
<1>1. UNION {{m} \X (1..Size[m]) : m \in A} \in SUBSET UNION {{m} \X (1..Size[m]) : m \in B}
  OBVIOUS
<1>2. QED
  BY <1>1, FS_Subset

\* The room of one message more.
LEMMA MoreRoom ==
  ASSUME NEW A, NEW x \in Msgs,
         IsFiniteSet(UNION {{m} \X (1..Size[m]) : m \in A})
  PROVE  /\ IsFiniteSet(UNION {{m} \X (1..Size[m]) : m \in A \cup {x}})
         /\ Cardinality(UNION {{m} \X (1..Size[m]) : m \in A \cup {x}})
              <= Cardinality(UNION {{m} \X (1..Size[m]) : m \in A}) + Size[x]
<1> DEFINE U == UNION {{m} \X (1..Size[m]) : m \in A}
           V == {x} \X (1..Size[x])
<1>1. UNION {{m} \X (1..Size[m]) : m \in A \cup {x}} = U \cup V
  OBVIOUS
<1>2. IsFiniteSet(V) /\ Cardinality(V) <= Size[x]
  BY SizeBound
<1> HIDE DEF U, V
<1>3. /\ IsFiniteSet(U \cup V)
      /\ Cardinality(U \cup V) = Cardinality(U) + Cardinality(V) - Cardinality(U \cap V)
  BY <1>2, FS_Union DEF U
<1>4. IsFiniteSet(U \cap V)
  BY <1>2, FS_Intersection
<1>5. /\ Cardinality(U) \in Nat /\ Cardinality(V) \in Nat /\ Cardinality(U \cap V) \in Nat
  BY <1>2, <1>4, FS_CardinalityType DEF U
<1>6. Size[x] \in Nat
  BY MessagesAssumption
<1>7. Cardinality(U \cup V) <= Cardinality(U) + Size[x]
  BY <1>2, <1>3, <1>5, <1>6
<1>8. QED
  BY <1>1, <1>3, <1>7 DEF U

\* A mapping is empty at first.
LEMMA InitBoxInv == Init => BoxInv
<1> SUFFICES ASSUME Init PROVE BoxInv
  OBVIOUS
<1>1. \A p \in Procs : Room(p) = {}
  BY DEF Init, Room
<1>2. RoomInv
  <2>1. IsFiniteSet({}) /\ Cardinality({}) <= Space
    BY FS_EmptySet, MessagesAssumption
  <2>2. QED
    BY <1>1, <2>1 DEF RoomInv, Used
<1>3. ToSet(<<>>) = {}
  BY EmptySeq, SeqFacts
<1>4. UnusedInv
  BY <1>3 DEF Init, UnusedInv
<1>5. GoneInv
  BY DEF Init, GoneInv
<1>6. QED
  BY <1>2, <1>4, <1>5 DEF BoxInv

\* The room, the unused messages and the mapping stay as they are.
LEMMA BoxKept ==
  ASSUME BoxInv, UNCHANGED <<held, accepted, settled>>,
         \A p \in Procs : device'[p] = "unmapped" =>
           device[p] = "unmapped" /\ (Alive(p)' => Alive(p))
  PROVE  BoxInv'
<1>1. RoomInv'
  <2>1. \A p \in Procs : Room(p)' = Room(p)
    BY DEF Room
  <2>2. QED
    BY <2>1 DEF BoxInv, RoomInv, Used
<1>2. UnusedInv' /\ GoneInv'
  BY DEF BoxInv, UnusedInv, GoneInv
<1>3. QED
  BY <1>1, <1>2 DEF BoxInv
\* What a step does to the mailboxes.
box_vars == <<CallOf, accepted, settled, Gone>>
BoxStep == [Box!Next]_box_vars

\* A call goes from one stage to the next.
LEMMA CallMoves ==
  ASSUME Shape, NEW m \in Msgs, NEW s \in {"unsent", "writing", "full", "queued", "ok", "error"},
         sent' = [sent EXCEPT ![m] = s]
  PROVE  /\ CallOf' = [CallOf EXCEPT ![m] = CASE s \in {"writing", "full"} -> "waiting"
                                              [] s = "queued" -> "taken"
                                              [] OTHER -> s]
         /\ CallOf[m] = CASE sent[m] \in {"writing", "full"} -> "waiting"
                          [] sent[m] = "queued" -> "taken"
                          [] OTHER -> sent[m]
<1>1. sent'[m] = s /\ \A x \in Msgs : x # m => sent'[x] = sent[x]
  BY DEF Shape
<1>2. QED
  BY <1>1 DEF CallOf

\* The mailboxes and the calls stay as they are.
LEMMA SilentStep ==
  ASSUME UNCHANGED <<CallOf, accepted, settled>>,
         \A p \in Procs : device'[p] = "unmapped" <=> device[p] = "unmapped"
  PROVE  BoxStep
BY DEF BoxStep, box_vars, Gone

\* from_fd, registration and the application's drops.
LEMMA DeviceBox ==
  ASSUME IInv, BoxInv, NEW p \in Procs,
         FinishFromFd(p) \/ Register(p) \/ DropObject(p) \/ DropDevice(p)
  PROVE  BoxInv' /\ BoxStep
<1>1. /\ UNCHANGED <<looper, sent, held, accepted, settled>>
      /\ device' = device \/ \E s \in {"open", "closed"} : device' = [device EXCEPT ![p] = s]
      /\ device[p] # "unmapped" \/ device' = device
  BY DEF FinishFromFd, Register, DropObject, DropDevice, looper_vars, queue_vars
<1>2. \A q \in Procs : /\ device'[q] = "unmapped" <=> device[q] = "unmapped"
                       /\ device'[q] = "unmapped" => (Alive(q)' => Alive(q))
  BY <1>1 DEF IInv, Shape, Alive, LoopersOf, Serves
<1>3. UNCHANGED CallOf
  BY <1>1 DEF CallOf
<1>4. QED
  BY <1>1, <1>2, <1>3, BoxKept, SilentStep

\* The mapping goes when nobody serves.
LEMMA UnmapBox ==
  ASSUME IInv, BoxInv, NEW p \in Procs, Unmap(p)
  PROVE  BoxInv' /\ BoxStep
<1>1. /\ UNCHANGED <<looper, sent, held, accepted, settled>>
      /\ device' = [device EXCEPT ![p] = "unmapped"] /\ ~Alive(p)
  BY DEF Unmap, looper_vars, queue_vars
<1>2. \A q \in Procs : /\ device'[q] = "unmapped" <=> q = p \/ device[q] = "unmapped"
                       /\ Alive(q)' => Alive(q)
  BY <1>1 DEF IInv, Shape, Alive, LoopersOf, Serves
<1>3. RoomInv'
  <2>1. \A q \in Procs : Room(q)' = Room(q)
    BY <1>1 DEF Room
  <2>2. QED
    BY <2>1 DEF BoxInv, RoomInv, Used
<1>4. UnusedInv' /\ GoneInv'
  BY <1>1, <1>2 DEF BoxInv, UnusedInv, GoneInv
<1>5. Box!Leave(p)
  <2>1. Gone' = Gone \cup {p}
    BY <1>2 DEF Gone
  <2>2. UNCHANGED CallOf
    BY <1>1 DEF CallOf
  <2>3. QED
    BY <1>1, <2>1, <2>2 DEF Box!Leave
<1>6. QED
  BY <1>3, <1>4, <1>5 DEF BoxInv, BoxStep, Box!Next

\* Loopers that start, and those that return to the loop.
LEMMA LooperBox ==
  ASSUME IInv, BoxInv, NEW l \in Loopers, SeeStarted(l) \/ EnterLoop(l) \/ Return(l)
  PROVE  BoxInv' /\ BoxStep
<1>1. /\ UNCHANGED <<device, sent, held, accepted, settled>>
      /\ \E s \in {"fresh", "reading"} : looper' = [looper EXCEPT ![l] = s]
  BY DEF SeeStarted, EnterLoop, Return, queue_vars
<1>2. \A q \in Procs : Alive(q)' => Alive(q)
  BY <1>1 DEF IInv, Shape, Alive, LoopersOf, Serves
<1>3. UNCHANGED CallOf
  BY <1>1 DEF CallOf
<1>4. QED
  BY <1>1, <1>2, <1>3, BoxKept, SilentStep

\* A looper that serves has a mapping, and what is settled next is the next message.
LEMMA UseNext ==
  ASSUME IInv, IInv', GoneInv, NEW p \in Procs, NEW m \in Msgs, Alive(p),
         settled' = [settled EXCEPT ![p] = Append(@, m)],
         UNCHANGED <<sent, device, accepted>>
  PROVE  Box!Use(p)
<1> DEFINE n == Len(settled[p])
<1>1. settled[p] \in Seq(Msgs) /\ settled'[p] = Append(settled[p], m) /\ n \in Nat
  BY QueueFacts DEF IInv, Shape
<1>2. Len(settled'[p]) = n + 1 /\ settled'[p][n + 1] = m
  BY <1>1, AppendFacts
<1>3. /\ Len(settled'[p]) <= Len(accepted[p])
      /\ \A i \in 1..Len(settled'[p]) : settled'[p][i] = accepted[p][i]
  BY DEF IInv, OrderInv
<1>4. Len(accepted[p]) \in Nat
  BY QueueFacts DEF IInv
<1> HIDE DEF n
<1>5. n < Len(accepted[p]) /\ m = accepted[p][n + 1]
  BY <1>1, <1>2, <1>3, <1>4
<1>6. p \notin Gone /\ UNCHANGED <<CallOf, Gone>>
  BY DEF GoneInv, Gone, CallOf
<1>7. settled' = [settled EXCEPT ![p] = Append(@, accepted[p][Len(@) + 1])]
  BY <1>5 DEF n
<1>8. QED
  BY <1>5, <1>6, <1>7 DEF Box!Use, n

\* One message more is used: it keeps its room for a while.
LEMMA SettleKeeps ==
  ASSUME IInv, BoxInv, NEW p \in Procs, NEW m \in Msgs,
         settled' = [settled EXCEPT ![p] = Append(@, m)],
         UNCHANGED <<held, accepted>>
  PROVE  RoomInv' /\ UnusedInv'
<1>1. \A q \in Procs : Room(q)' = Room(q)
  BY DEF Room
<1>2. RoomInv'
  BY <1>1 DEF BoxInv, RoomInv, Used
<1>3. \A q \in Procs : ToSet(settled[q]) \subseteq ToSet(settled'[q])
  <2>1. ToSet(Append(settled[p], m)) = ToSet(settled[p]) \cup {m}
    BY QueueFacts, AppendFacts DEF IInv
  <2>2. QED
    BY <2>1 DEF IInv, Shape
<1>4. QED
  BY <1>2, <1>3 DEF BoxInv, UnusedInv

\* handle_one_way uses the next message.
LEMMA HandleBox ==
  ASSUME IInv, IInv', BoxInv, NEW l \in Loopers, Handle(l)
  PROVE  BoxInv' /\ BoxStep
<1> DEFINE p == Home[l]
<1>1. p \in Procs /\ serving[l] \in Msgs /\ Alive(p)
  BY Homes DEF Handle, IInv, Shape, Alive, LoopersOf, Serves
<1>2. /\ settled' = [settled EXCEPT ![p] = Append(@, serving[l])]
      /\ UNCHANGED <<looper, device, sent, held, accepted>>
  BY DEF Handle, looper_vars, queue_vars
<1> HIDE DEF p
<1>3. Box!Use(p)
  BY <1>1, <1>2, UseNext DEF BoxInv
<1>4. RoomInv' /\ UnusedInv'
  BY <1>1, <1>2, SettleKeeps
<1>5. GoneInv'
  BY <1>2 DEF BoxInv, GoneInv, Alive, LoopersOf, Serves
<1>6. QED
  BY <1>1, <1>3, <1>4, <1>5 DEF BoxInv, BoxStep, Box!Next

\* The loopers after a read: no other one begins to serve.
LEMMA ReadLoopers ==
  ASSUME IInv, NEW l \in Loopers, Read(l), Alive(Home[l])
  PROVE  \A k \in Loopers : k # l => (Serves(k)' => Serves(k))
<1>1. Home[l] \in Procs
  BY Homes
<1>2. PICK st \in {"handling", "discarding"} : ReadWith(Home[l], [looper EXCEPT ![l] = st])
  BY DEF Read
<1> DEFINE ls == [looper EXCEPT ![l] = st]
<1>3. ls \in [Loopers -> States] /\ \A k \in Loopers : k # l => ls[k] = looper[k]
  BY DEF IInv, Shape, States
<1>4. ReadWith(Home[l], ls)
  BY <1>2
<1> HIDE DEF ls
<1>5. \A k \in Loopers : looper'[k] = ls[k] \/ looper'[k] \in {"fresh", "failed"}
  BY <1>1, <1>3, <1>4, ReadWithEffect
<1>6. QED
  BY <1>3, <1>5 DEF Serves

\* What a looper reads is for the handler; without an object it is used up, and without
\* a device nothing is.
LEMMA ReadBox ==
  ASSUME IInv, IInv', BoxInv, NEW l \in Loopers, Read(l)
  PROVE  BoxInv' /\ BoxStep
<1> DEFINE p == Home[l]
<1>1. p \in Procs /\ UNCHANGED <<device, sent, held, accepted>>
  BY Homes DEF Read
<1>2. UNCHANGED CallOf
  BY <1>1 DEF CallOf
<1>3. CASE ~Alive(p)
  <2>1. UNCHANGED settled /\ looper' = [looper EXCEPT ![l] = "exited"]
    BY <1>3 DEF Read
  <2>2. \A q \in Procs : Alive(q)' => Alive(q)
    BY <1>1, <2>1 DEF IInv, Shape, Alive, LoopersOf, Serves
  <2>3. QED
    BY <1>1, <1>2, <2>1, <2>2, BoxKept, SilentStep
<1>4. CASE Alive(p)
  <2>1. \A q \in Procs : Alive(q)' => Alive(q)
    BY <1>1, <1>4, ReadLoopers DEF Alive, LoopersOf
  <2>2. CASE UNCHANGED settled
    BY <1>1, <1>2, <2>1, <2>2, BoxKept, SilentStep
  <2>3. CASE settled' = [settled EXCEPT ![p] = Append(@, Head(proc_todo[p]))]
    <3>1. Head(proc_todo[p]) \in Msgs
      BY <1>1, QueueFacts, TailFacts DEF IInv, Read
    <3>2. Box!Use(p)
      BY <1>1, <1>4, <2>3, <3>1, UseNext DEF BoxInv
    <3>3. RoomInv' /\ UnusedInv'
      BY <1>1, <2>3, <3>1, SettleKeeps
    <3>4. GoneInv'
      BY <1>1, <2>1 DEF BoxInv, GoneInv
    <3>5. QED
      BY <1>1, <3>2, <3>3, <3>4 DEF BoxInv, BoxStep, Box!Next
  <2>4. QED
    BY <1>4, <2>2, <2>3 DEF Read
<1>5. QED
  BY <1>3, <1>4

\* Only what is used gives its room back.
LEMMA DropPayloadBox ==
  ASSUME IInv, BoxInv, NEW l \in Loopers, DropPayload(l)
  PROVE  BoxInv' /\ BoxStep
<1> DEFINE p == Home[l]
           m == serving[l]
<1>1. /\ UNCHANGED <<device, looper, sent, accepted, settled>>
      /\ held' = [held EXCEPT ![p] = @ \ {m}] /\ p \in Procs
  BY Homes DEF DropPayload, FreeBuffer
<1>2. m \in ToSet(settled[p])
  <2>1. Serves(l) /\ (looper[l] = "handling" => Handled(l))
    BY DEF DropPayload, IInv, Shape
  <2>2. QED
    BY <2>1 DEF IInv, ServeInv, Handled
<1> HIDE DEF p, m
<1>3. \A q \in Procs : held'[q] = IF q = p THEN held[q] \ {m} ELSE held[q]
  BY <1>1 DEF IInv, Shape
<1>4. RoomInv'
  <2> SUFFICES ASSUME NEW q \in Procs PROVE (IsFiniteSet(Room(q)) /\ Used(q) <= Space)'
    BY DEF RoomInv
  <2>1. held'[q] \subseteq held[q]
    BY <1>3
  <2>2. IsFiniteSet(Room(q)) /\ Used(q) <= Space
    BY DEF BoxInv, RoomInv
  <2>3. IsFiniteSet(Room(q)') /\ Cardinality(Room(q)') <= Cardinality(Room(q))
    BY <2>1, <2>2, LessRoom DEF Room
  <2>4. Cardinality(Room(q)) \in Nat /\ Cardinality(Room(q)') \in Nat /\ Space \in Nat
    BY <2>2, <2>3, FS_CardinalityType, MessagesAssumption
  <2>5. QED
    BY <2>2, <2>3, <2>4 DEF Used
<1>5. UnusedInv'
  BY <1>1, <1>2, <1>3 DEF BoxInv, UnusedInv
<1>6. GoneInv'
  BY <1>1 DEF BoxInv, GoneInv, Alive, LoopersOf, Serves
<1>7. UNCHANGED CallOf
  BY <1>1 DEF CallOf
<1>8. QED
  BY <1>1, <1>4, <1>5, <1>6, <1>7, SilentStep DEF BoxInv

\* A thread begins to send.
LEMMA CallBox ==
  ASSUME IInv, BoxInv, NEW m \in Msgs, sent[m] = "unsent",
         sent' = [sent EXCEPT ![m] = "writing"],
         UNCHANGED <<device, looper, held, accepted, settled>>
  PROVE  BoxInv' /\ BoxStep
<1>1. CallOf' = [CallOf EXCEPT ![m] = "waiting"] /\ CallOf[m] = "unsent"
  BY CallMoves DEF IInv
<1>2. UNCHANGED Gone
  BY DEF Gone
<1>3. Box!Call(m)
  BY <1>1, <1>2 DEF Box!Call
<1>4. BoxInv'
  BY BoxKept DEF Alive, LoopersOf, Serves
<1>5. QED
  BY <1>3, <1>4 DEF BoxStep, Box!Next

\* ForwardOn and Begin.
LEMMA BeginBox ==
  ASSUME IInv, BoxInv,
         (\E l \in Loopers : ForwardOn(l)) \/ (\E a \in Apps : Begin(a))
  PROVE  BoxInv' /\ BoxStep
<1>1. /\ UNCHANGED <<device, looper, held, accepted, settled>>
      /\ \E m \in Msgs : sent[m] = "unsent" /\ sent' = [sent EXCEPT ![m] = "writing"]
  <2>1. ASSUME NEW l \in Loopers, ForwardOn(l) PROVE <1>1!1 /\ <1>1!2
    <3>1. serving[l] \in Msgs
      BY <2>1 DEF ForwardOn, IInv, Shape, Serves
    <3>2. ToForward(l) \subseteq Msgs /\ \A m \in ToForward(l) : sent[m] = "unsent"
      BY <3>1, MessagesAssumption DEF ToForward
    <3>3. QED
      BY <2>1, <3>2 DEF ForwardOn, looper_vars, queue_vars
  <2>2. ASSUME NEW a \in Apps, Begin(a) PROVE <1>1!1 /\ <1>1!2
    <3>1. PICK k \in 1..Len(Script[a]) :
            /\ sent[Script[a][k]] = "unsent" /\ sent' = [sent EXCEPT ![Script[a][k]] = "writing"]
      BY <2>2 DEF Begin
    <3>2. Script[a][k] \in Msgs
      BY <3>1, MessagesAssumption, ElementOfSeq
    <3>3. QED
      BY <2>2, <3>1, <3>2 DEF Begin, looper_vars, queue_vars
  <2>3. QED
    BY <2>1, <2>2
<1>2. QED
  BY <1>1, CallBox

\* A retry is invisible; a send returns Ok when its message was taken.
LEMMA ReturnBox ==
  ASSUME IInv, BoxInv, NEW m \in Msgs, Retry(m) \/ ReturnOk(m)
  PROVE  BoxInv' /\ BoxStep
<1>1. /\ UNCHANGED <<device, held, accepted, settled>> /\ ReadWith(SenderOf(m), looper)
      /\ \/ sent[m] = "full" /\ sent' = [sent EXCEPT ![m] = "writing"]
         \/ sent[m] = "queued" /\ sent' = [sent EXCEPT ![m] = "ok"]
  BY DEF Retry, ReturnOk, queue_vars
<1>2. SenderOf(m) \in Procs /\ looper \in [Loopers -> States]
  BY <1>1, SenderStarted DEF IInv, Shape, InSend
<1>3. \A k \in Loopers : looper'[k] = looper[k] \/ looper'[k] \in {"fresh", "failed"}
  BY <1>1, <1>2, ReadWithEffect
<1>4. \A q \in Procs : Alive(q)' => Alive(q)
  BY <1>1, <1>3 DEF Alive, LoopersOf, Serves
<1>5. BoxInv'
  BY <1>1, <1>4, BoxKept
<1>6. UNCHANGED Gone
  BY <1>1 DEF Gone
<1>7. CASE sent[m] = "full" /\ sent' = [sent EXCEPT ![m] = "writing"]
  <2>1. CallOf' = [CallOf EXCEPT ![m] = "waiting"] /\ CallOf[m] = "waiting"
    BY <1>7, CallMoves DEF IInv
  <2>2. CallOf' = CallOf
    BY <2>1 DEF CallOf
  <2>3. QED
    BY <1>1, <1>5, <2>2, SilentStep
<1>8. CASE sent[m] = "queued" /\ sent' = [sent EXCEPT ![m] = "ok"]
  <2>1. CallOf' = [CallOf EXCEPT ![m] = "ok"] /\ CallOf[m] = "taken"
    BY <1>8, CallMoves DEF IInv
  <2>2. Box!Return(m)
    BY <1>1, <1>6, <2>1 DEF Box!Return
  <2>3. QED
    BY <1>5, <2>2 DEF BoxStep, Box!Next
<1>9. QED
  BY <1>1, <1>7, <1>8

\* The messages of a mailbox that are not used yet are those taken and not settled.
LEMMA BoxWaiting ==
  ASSUME IInv, UnusedInv, NEW p \in Procs
  PROVE  Box!Waiting(p) \subseteq held[p]
<1> DEFINE acc == accepted[p]
           set == settled[p]
<1>1. /\ acc \in Seq(Msgs) /\ set \in Seq(Msgs) /\ IsInjective(acc)
      /\ Len(acc) \in Nat /\ Len(set) \in Nat
  BY QueueFacts DEF IInv, SentInv
<1>2. Len(set) <= Len(acc) /\ \A i \in 1..Len(set) : set[i] = acc[i]
  BY DEF IInv, OrderInv
<1>3. /\ ToSet(acc) = {acc[i] : i \in 1..Len(acc)}
      /\ ToSet(set) = {set[i] : i \in 1..Len(set)}
  BY <1>1, SeqFacts
<1>4. ToSet(acc) \ ToSet(set) \subseteq held[p]
  BY DEF UnusedInv
<1>5. Box!Waiting(p) = {acc[i] : i \in (Len(set) + 1)..Len(acc)}
  BY DEF Box!Waiting
<1> HIDE DEF acc, set
<1>6. ASSUME NEW i \in (Len(set) + 1)..Len(acc) PROVE acc[i] \in ToSet(acc) \ ToSet(set)
  <2>1. i \in 1..Len(acc)
    BY <1>1, <1>6
  <2>2. ASSUME NEW j \in 1..Len(set), set[j] = acc[i] PROVE FALSE
    <3>1. j \in 1..Len(acc) /\ acc[j] = acc[i]
      BY <1>1, <1>2, <2>2
    <3>2. j = i
      BY <1>1, <2>1, <3>1, PlaceOf
    <3>3. QED
      BY <1>1, <1>6, <2>2, <3>2
  <2>3. QED
    BY <1>3, <2>1, <2>2
<1>7. QED
  BY <1>4, <1>5, <1>6

\* Mailbox counts with the same Cardinality.
LEMMA BoxCardinality == \A S : Box!Cardinality(S) = Cardinality(S)
BY DEF Box!Cardinality, Cardinality

\* A write takes its message when there is room, fails when the target is gone, and
\* waits otherwise.
LEMMA WriteBox ==
  ASSUME IInv, BoxInv, NEW m \in Msgs, Write(m)
  PROVE  BoxInv' /\ BoxStep
<1> DEFINE p == Target[m]
<1>1. /\ p \in Procs /\ sent[m] = "writing"
      /\ UNCHANGED <<device, looper, settled>> /\ UNCHANGED Gone
  BY MessagesAssumption DEF Write, looper_vars, Gone
<1>2. CASE device[p] = "unmapped" /\ sent' = [sent EXCEPT ![m] = "error"] /\ UNCHANGED queue_vars
  <2>1. CallOf' = [CallOf EXCEPT ![m] = "error"] /\ CallOf[m] = "waiting"
    BY <1>1, <1>2, CallMoves DEF IInv
  <2>2. Box!Fail(m)
    BY <1>1, <1>2, <2>1 DEF Box!Fail, Gone, queue_vars
  <2>3. BoxInv'
    BY <1>1, <1>2, BoxKept DEF queue_vars, Alive, LoopersOf, Serves
  <2>4. QED
    BY <2>2, <2>3 DEF BoxStep, Box!Next
<1>3. CASE sent' = [sent EXCEPT ![m] = "full"] /\ UNCHANGED queue_vars
  <2>1. CallOf' = [CallOf EXCEPT ![m] = "waiting"] /\ CallOf[m] = "waiting"
    BY <1>1, <1>3, CallMoves DEF IInv
  <2>2. CallOf' = CallOf
    BY <2>1 DEF CallOf
  <2>3. BoxInv'
    BY <1>1, <1>3, BoxKept DEF queue_vars, Alive, LoopersOf, Serves
  <2>4. QED
    BY <1>1, <1>3, <2>2, <2>3, SilentStep DEF queue_vars
<1>4. CASE /\ device[p] # "unmapped" /\ Used(p) + Size[m] <= Space
           /\ sent' = [sent EXCEPT ![m] = "queued"]
           /\ held' = [held EXCEPT ![p] = @ \cup {m}]
           /\ accepted' = [accepted EXCEPT ![p] = Append(@, m)]
  <2>1. CallOf' = [CallOf EXCEPT ![m] = "taken"] /\ CallOf[m] = "waiting"
    BY <1>1, <1>4, CallMoves DEF IInv
  <2>2. \A q \in Procs : held'[q] = IF q = p THEN held[q] \cup {m} ELSE held[q]
    BY <1>4 DEF IInv, Shape
  <2>3. IsFiniteSet(Room(p)) /\ Cardinality(Room(p)) + Size[m] <= Space
    BY <1>1, <1>4 DEF BoxInv, RoomInv, Used
  <2>4. /\ IsFiniteSet(UNION {{x} \X (1..Size[x]) : x \in held[p] \cup {m}})
        /\ Cardinality(UNION {{x} \X (1..Size[x]) : x \in held[p] \cup {m}})
             <= Cardinality(Room(p)) + Size[m]
    BY <2>3, MoreRoom DEF Room
  <2>5. /\ Cardinality(Room(p)) \in Nat /\ Size[m] \in Nat /\ Space \in Nat
        /\ Cardinality(UNION {{x} \X (1..Size[x]) : x \in held[p] \cup {m}}) \in Nat
    BY <2>3, <2>4, FS_CardinalityType, MessagesAssumption
  <2>6. Cardinality(UNION {{x} \X (1..Size[x]) : x \in held[p] \cup {m}}) <= Space
    BY <2>3, <2>4, <2>5
  <2>7. RoomInv'
    <3>1. Room(p)' = UNION {{x} \X (1..Size[x]) : x \in held[p] \cup {m}}
      BY <1>1, <2>2 DEF Room
    <3>2. \A q \in Procs : q # p => Room(q)' = Room(q)
      BY <2>2 DEF Room
    <3>3. QED
      BY <2>4, <2>6, <3>1, <3>2 DEF BoxInv, RoomInv, Used
  <2>8. UnusedInv'
    <3>1. ToSet(Append(accepted[p], m)) = ToSet(accepted[p]) \cup {m}
      BY <1>1, QueueFacts, AppendFacts DEF IInv
    <3>2. \A q \in Procs : ToSet(accepted'[q]) \subseteq
            IF q = p THEN ToSet(accepted[q]) \cup {m} ELSE ToSet(accepted[q])
      BY <1>4, <3>1 DEF IInv, Shape
    <3>3. QED
      BY <1>1, <2>2, <3>2 DEF BoxInv, UnusedInv
  <2>9. GoneInv'
    BY <1>1 DEF BoxInv, GoneInv, Alive, LoopersOf, Serves
  <2>10. Box!RoomOf(Box!Waiting(p) \cup {m}) <= Space
    <3>1. Box!Waiting(p) \cup {m} \subseteq held[p] \cup {m}
      BY <1>1, BoxWaiting DEF BoxInv
    <3>2. /\ IsFiniteSet(UNION {{x} \X (1..Size[x]) : x \in Box!Waiting(p) \cup {m}})
          /\ Cardinality(UNION {{x} \X (1..Size[x]) : x \in Box!Waiting(p) \cup {m}})
               <= Cardinality(UNION {{x} \X (1..Size[x]) : x \in held[p] \cup {m}})
      BY <2>4, <3>1, LessRoom
    <3>3. Cardinality(UNION {{x} \X (1..Size[x]) : x \in Box!Waiting(p) \cup {m}}) \in Nat
      BY <3>2, FS_CardinalityType
    <3>4. Cardinality(UNION {{x} \X (1..Size[x]) : x \in Box!Waiting(p) \cup {m}}) <= Space
      BY <2>5, <2>6, <3>2, <3>3
    <3>5. QED
      BY <3>4, BoxCardinality DEF Box!RoomOf
  <2>11. Box!Take(m)
    BY <1>1, <1>4, <2>1, <2>10 DEF Box!Take, Gone
  <2>12. QED
    BY <2>7, <2>8, <2>9, <2>11 DEF BoxInv, BoxStep, Box!Next
<1>5. QED
  BY <1>2, <1>3, <1>4 DEF Write

\* Every step keeps the room and is a step of the mailboxes, or invisible to them.
LEMMA NextBox ==
  ASSUME IInv, IInv', BoxInv, [Next]_vars
  PROVE  BoxInv' /\ BoxStep
<1>1. ASSUME NEW p \in Procs, DeviceNext(p) PROVE BoxInv' /\ BoxStep
  BY <1>1, DeviceBox, UnmapBox DEF DeviceNext
<1>2. ASSUME NEW l \in Loopers, LooperNext(l) PROVE BoxInv' /\ BoxStep
  BY <1>2, LooperBox, ReadBox, HandleBox, BeginBox, DropPayloadBox DEF LooperNext
<1>3. ASSUME NEW a \in Apps, Begin(a) PROVE BoxInv' /\ BoxStep
  BY <1>3, BeginBox
<1>4. ASSUME NEW m \in Msgs, SendNext(m) PROVE BoxInv' /\ BoxStep
  BY <1>4, WriteBox, ReturnBox DEF SendNext
<1>5. CASE UNCHANGED vars
  <2>1. UNCHANGED <<device, looper, sent, held, accepted, settled>>
    BY <1>5 DEF vars, looper_vars, queue_vars
  <2>2. UNCHANGED CallOf /\ BoxInv'
    BY <2>1, BoxKept DEF CallOf, Alive, LoopersOf, Serves
  <2>3. QED
    BY <2>1, <2>2, SilentStep
<1>6. QED
  BY <1>1, <1>2, <1>3, <1>4, <1>5 DEF Next

\* The mailboxes are empty at first.
LEMMA InitBox == Init => Box!Init
<1> SUFFICES ASSUME Init PROVE Box!Init
  OBVIOUS
<1>1. CallOf = [m \in Msgs |-> "unsent"] /\ Gone = {}
  BY DEF Init, CallOf, Gone
<1>2. QED
  BY <1>1 DEF Init, Box!Init
-----------------------------------------------------------------------------
\* Room, unused messages and mappings agree in every state.
THEOREM RoomInvariant == Spec => []BoxInv
<1>1. Init => IInv /\ BoxInv
  BY InitIInv, InitBoxInv
<1>2. IInv /\ BoxInv /\ [Next]_vars => IInv' /\ BoxInv'
  BY NextIInv, NextBox
<1>3. QED
  BY <1>1, <1>2, PTL DEF Spec

\* One-way transactions are mailboxes: the loops of senders, the driver's queues and any
\* number of loopers that read, handle and free side by side amount to taking and using
\* one message at a time.
THEOREM ObjectsAreMailboxes == Spec => ActsAsMailbox
<1>1. Init => IInv /\ BoxInv /\ Box!Init
  BY InitIInv, InitBoxInv, InitBox
<1>2. IInv /\ BoxInv /\ [Next]_vars => IInv' /\ BoxInv' /\ [Box!Next]_box_vars
  BY NextIInv, NextBox DEF BoxStep
<1>3. [Box!Next]_box_vars <=> [Box!Next]_<<CallOf, accepted, settled, Gone>>
  BY DEF box_vars
<1>4. QED
  BY <1>1, <1>2, <1>3, PTL DEF Spec, ActsAsMailbox, Box!Spec

\* The shape of the state: the driver's counters stay within what the process allowed,
\* and the payloads within the room that a mapping has.
THEOREM DeliveryTypeCorrect == Spec => []TypeOK
<1>1. IInv /\ BoxInv => TypeOK
  <2> SUFFICES ASSUME IInv, BoxInv PROVE TypeOK
    OBVIOUS
  <2>1. \A p \in Procs : held[p] \subseteq Msgs /\ Used(p) \in 0..Space
    <3>1. \A p \in Procs : Used(p) \in Nat
      BY FS_CardinalityType DEF BoxInv, RoomInv, Used
    <3>2. QED
      BY <3>1, MessagesAssumption DEF IInv, Shape, BoxInv, RoomInv
  <2>2. QED
    BY <2>1 DEF IInv, Shape, States, TypeOK
<1>2. QED
  BY <1>1, DeliveryInvariant, RoomInvariant, PTL

\* What is used of a node is the beginning of what the driver took.
SettledInOrder == \A p \in Procs : IsPrefix(settled[p], accepted[p])

\* The payloads that reach an object are used once and in the order in which the driver
\* took them, whichever loopers read them and although handlers run side by side.
THEOREM PayloadsInOrder == Spec => []SettledInOrder
<1>1. IInv => SettledInOrder
  <2> SUFFICES ASSUME IInv, NEW p \in Procs PROVE IsPrefix(settled[p], accepted[p])
    BY DEF SettledInOrder
  <2> DEFINE s == settled[p]
             a == accepted[p]
             n == Len(s)
  <2>1. /\ s \in Seq(Msgs) /\ a \in Seq(Msgs) /\ n \in Nat /\ Len(a) \in Nat /\ n <= Len(a)
        /\ \A i \in 1..n : s[i] = a[i] /\ s[i] \in Msgs /\ a[i] \in Msgs
    <3>1. s \in Seq(Msgs) /\ a \in Seq(Msgs) /\ n \in Nat /\ Len(a) \in Nat
      BY QueueFacts DEF IInv
    <3>2. n <= Len(a) /\ \A i \in 1..n : s[i] = a[i]
      BY DEF IInv, OrderInv
    <3>3. \A i \in 1..n : s[i] \in Msgs
      BY <3>1, ElementOfSeq
    <3>4. QED
      BY <3>1, <3>2, <3>3
  <2> HIDE DEF s, a, n
  <2>2. /\ SubSeq(s, 1, n) \in Seq(Msgs) /\ Len(SubSeq(s, 1, n)) = (IF 1 <= n THEN n - 1 + 1 ELSE 0)
        /\ \A i \in 1..(n - 1 + 1) : SubSeq(s, 1, n)[i] = s[1 + i - 1]
    BY <2>1, SubSeqProperties
  <2>3. /\ SubSeq(a, 1, n) \in Seq(Msgs) /\ Len(SubSeq(a, 1, n)) = (IF 1 <= n THEN n - 1 + 1 ELSE 0)
        /\ \A i \in 1..(n - 1 + 1) : SubSeq(a, 1, n)[i] = a[1 + i - 1]
    BY <2>1, SubSeqProperties
  <2>4. SubSeq(s, 1, n) = SubSeq(a, 1, n)
    <3>1. Len(SubSeq(s, 1, n)) = n /\ Len(SubSeq(a, 1, n)) = n
      BY <2>1, <2>2, <2>3
    <3>2. \A i \in 1..n : SubSeq(s, 1, n)[i] = SubSeq(a, 1, n)[i]
      BY <2>1, <2>2, <2>3
    <3>3. QED
      BY <2>2, <2>3, <3>1, <3>2, SeqEqual
  <2>5. QED
    BY <2>1, <2>4 DEF IsPrefix, s, a, n
<1>2. QED
  BY <1>1, DeliveryInvariant, PTL

\* Every buffer of a device that lives is queued for a looper, or a looper has it: also
\* when no handler is found.
THEOREM BuffersAccounted == Spec => []NothingLeaks
<1>1. IInv => NothingLeaks
  <2> SUFFICES ASSUME IInv, NEW p \in Procs, Alive(p), NEW m \in held[p]
               PROVE  \/ m \in ToSet(async_todo[p]) \cup ToSet(proc_todo[p])
                      \/ \E l \in LoopersOf(p) : payload[l] /\ serving[l] = m
    BY DEF NothingLeaks
  <2>1. QueueOf(p)
    BY DEF IInv, QueueInv, Live
  <2>2. QED
    BY <2>1 DEF QueueOf, Owners
<1>2. QED
  BY <1>1, DeliveryInvariant, PTL

\* A looper leaves its loop for no other reason than that its device is gone.
THEOREM LoopersGoOn == Spec => []LoopersStay
<1>1. IInv => LoopersStay
  BY DEF IInv, StartInv, LoopersStay
<1>2. QED
  BY <1>1, DeliveryInvariant, PTL

\* The driver's counters are those of the threads that were started on its request, so
\* that no request is outstanding without a thread to answer it, or one not spawned.
THEOREM PoolCounted == Spec => []PoolAccounted
<1>1. IInv => PoolAccounted
  <2> SUFFICES ASSUME IInv, NEW p \in Procs
               PROVE  LET more == LoopersOf(p) \ Initial IN
                      /\ requested[p] =
                           Cardinality({l \in more : looper[l] \in {"fresh", "failed"}})
                      /\ registered[p] =
                           Cardinality({l \in more : looper[l] \notin {"none", "fresh", "failed"}})
    BY DEF PoolAccounted
  <2>1. QED
    BY DEF IInv, PoolInv, Asked, Counted
<1>2. QED
  BY <1>1, DeliveryInvariant, PTL

\* What was taken was sent, once, and a send has failed only if the mapping is gone.
SentOnce ==
  /\ \A p \in Procs : IsInjective(accepted[p])
  /\ \A m \in Msgs :
       /\ m \in ToSet(accepted[Target[m]]) <=> sent[m] \in {"queued", "ok"}
       /\ sent[m] = "error" => device[Target[m]] = "unmapped"

\* A send that is repeated for want of room is taken once, and given up only when the
\* target has no mapping.
THEOREM TakenOnce == Spec => []SentOnce
<1>1. IInv => SentOnce
  BY MessagesAssumption DEF IInv, SentInv, SentOnce
<1>2. QED
  BY <1>1, DeliveryInvariant, PTL
=============================================================================
