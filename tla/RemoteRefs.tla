----------------------------- MODULE RemoteRefs -----------------------------
(***************************************************************************)
(* BinderRef and WeakBinderRef: the references this process holds on one   *)
(* handle of the driver.  read_binder_ref looks the handle up in two       *)
(* tables of Weak pointers and makes what it does not find; the last Arc   *)
(* to go runs the destructors.  Neither is atomic, and any thread may do   *)
(* either at any time.                                                     *)
(*                                                                         *)
(* The driver is external.  A handle names one node while its strong and   *)
(* weak counts are not both zero, or a payload buffer holds it; then the   *)
(* number is free for another node.  A handle has room for one death       *)
(* notification: a second request, and a clear with another cookie, are    *)
(* refused without an error.                                               *)
(*                                                                         *)
(* Handles do not interact - every table is keyed by the handle or by a    *)
(* cookie that death_counter never hands out twice - so one handle is the  *)
(* whole system here.                                                      *)
(***************************************************************************)
EXTENDS Integers, FiniteSets

CONSTANTS
  Holders,     \* variables of the program, on any thread, that hold an Arc
  Strongs,     \* BinderRef values
  Weaks,       \* WeakBinderRef values; each stands for its death cookie too
  Nodes,       \* objects of other processes
  None,        \* no value, no node, no cookie
  Overlaps     \* what overlapping may be

ASSUME NoneAssumption == None \notin Strongs \cup Weaks \cup Nodes
ASSUME ValuesAssumption ==
  /\ Strongs \cap Weaks = {}
  /\ IsFiniteSet(Strongs) /\ IsFiniteSet(Weaks) /\ IsFiniteSet(Holders)
ASSUME OverlapsAssumption == Overlaps \subseteq BOOLEAN

VARIABLES
  overlapping, \* lookups and destructors of several threads may overlap
  pc,         \* what each holder does: see Places
  wants,      \* the holders whose read is of a HANDLE, not of a WEAK_HANDLE
  sref,       \* the BinderRef the holder has or is dropping
  wref,       \* the WeakBinderRef the holder has, is making or is dropping
  weak_of,    \* BinderRef::weak
  node_of,    \* history: the node each value was made for
  refs,       \* BinderDevice::refs, the entry of this handle
  weak_refs,  \* BinderDevice::weak_refs, the entry of this handle
  death_notifications,  \* the cookies in BinderDevice::death_notifications
  cancelled,  \* the WeakBinderRefs whose death token is cancelled
  knode,      \* kernel: the node that the handle names
  kstrong,    \* kernel: strong count of the handle
  kweak,      \* kernel: weak count of the handle
  kdeath,     \* kernel: the cookie of the handle's death notification
  kdead,      \* kernel: nodes whose process died
  kqueue      \* kernel: BR_DEAD_BINDERs not read yet, by cookie

holder_vars == <<pc, wants, sref, wref>>
value_vars == <<weak_of, node_of>>
table_vars == <<refs, weak_refs, death_notifications, cancelled>>
kernel_vars == <<knode, kstrong, kweak, kdeath, kdead, kqueue>>
vars == <<overlapping, holder_vars, value_vars, table_vars, kernel_vars>>

Reading == {"findS", "findW", "incref", "request", "publishW", "acquire", "publishS"}

Dropping == {"release", "removeS", "clear", "forget", "decref", "removeW"}

Places == {"idle", "holdS", "holdW"} \cup Reading \cup Dropping

\* Arc::strong_count is not zero: what Weak::upgrade succeeds on.
StrongAlive(b) == \E h \in Holders : pc[h] = "holdS" /\ sref[h] = b

WeakUsed(w, hs, bs) ==
  \/ \E h \in hs : pc[h] \in {"holdW", "acquire", "publishS"} /\ wref[h] = w
  \/ \E b \in bs : weak_of[b] = w

WeakAlive(w) == WeakUsed(w, Holders, Strongs)

\* A value nobody uses, whose cookie is nowhere any more.
FreshStrong(b) == weak_of[b] = None
FreshWeak(w) ==
  /\ ~WeakAlive(w)
  /\ \A h \in Holders : wref[h] # w
  /\ w # kdeath /\ w \notin kqueue

Goto(h, p) == pc' = [pc EXCEPT ![h] = p]

\* h may begin a lookup or a destructor.
MayBegin(h) ==
  overlapping \/ \A g \in Holders \ {h} : pc[g] \in {"idle", "holdS", "holdW"}

Init ==
  /\ overlapping \in Overlaps
  /\ pc = [h \in Holders |-> "idle"]
  /\ wants = {}
  /\ sref = [h \in Holders |-> None]
  /\ wref = [h \in Holders |-> None]
  /\ weak_of = [b \in Strongs |-> None]
  /\ node_of = [v \in Strongs \cup Weaks |-> None]
  /\ refs = None
  /\ weak_refs = None
  /\ death_notifications = {}
  /\ cancelled = {}
  /\ knode = None
  /\ kstrong = 0
  /\ kweak = 0
  /\ kdeath = None
  /\ kdead = {}
  /\ kqueue = {}
-----------------------------------------------------------------------------
(* The driver's side of a change to the counts.                            *)

\* The payload buffers that hold the handle: those being read by hs.
Buffers(hs) == {h \in hs : pc[h] \in Reading}

\* The counts become s and w while the buffers of hs are outstanding; without
\* any of them the reference, with its death notification, goes away.
SetCounts(s, w, hs) ==
  /\ kstrong' = s
  /\ kweak' = w
  /\ LET gone == s = 0 /\ w = 0 /\ Buffers(hs) = {} IN
     /\ knode' = IF gone THEN None ELSE knode
     /\ kdeath' = IF gone THEN None ELSE kdeath

\* h got what it read; its payload is dropped.
EndRead(h) == SetCounts(kstrong, kweak, Holders \ {h}) /\ UNCHANGED <<kdead, kqueue>>
-----------------------------------------------------------------------------
(* read_binder_ref: BinderRef::get_and_dedup_from_raw and                  *)
(* WeakBinderRef::get_and_dedup_from_raw.                                  *)

\* A payload with the handle arrives, and its reader comes to the entry.
Receive(h, n) ==
  /\ pc[h] = "idle"
  /\ MayBegin(h)
  /\ knode \in {None, n}
  /\ knode' = n
  /\ \/ wants' = wants \cup {h} /\ Goto(h, "findS")
     \/ wants' = wants /\ Goto(h, "findW")
  /\ UNCHANGED <<overlapping, sref, wref, value_vars, table_vars, kstrong, kweak,
                 kdeath, kdead, kqueue>>

\* Faulty: a new BinderRef for every HANDLE read.
FindStrongNever(h) ==
  /\ pc[h] = "findS"
  /\ Goto(h, "findW")
  /\ UNCHANGED <<overlapping, wants, sref, wref, value_vars, table_vars,
                 kernel_vars>>

\* refs.get(handle).upgrade().
FindStrong(h) ==
  /\ pc[h] = "findS"
  /\ \/ /\ refs # None /\ StrongAlive(refs)
        /\ sref' = [sref EXCEPT ![h] = refs]
        /\ wants' = wants \ {h}
        /\ Goto(h, "holdS")
        /\ EndRead(h)
     \/ /\ refs = None \/ ~StrongAlive(refs)
        /\ Goto(h, "findW")
        /\ UNCHANGED <<wants, sref, kernel_vars>>
  /\ UNCHANGED <<overlapping, wref, value_vars, table_vars>>

\* weak_refs.get(handle).upgrade(); failing that, a new cookie and its token.
FindWeak(h) ==
  /\ pc[h] = "findW"
  /\ \/ /\ weak_refs # None /\ WeakAlive(weak_refs)
        /\ wref' = [wref EXCEPT ![h] = weak_refs]
        /\ \/ h \in wants /\ Goto(h, "acquire") /\ UNCHANGED kernel_vars
           \/ h \notin wants /\ Goto(h, "holdW") /\ EndRead(h)
        /\ UNCHANGED <<node_of, death_notifications>>
     \/ /\ weak_refs = None \/ ~WeakAlive(weak_refs)
        /\ \E w \in Weaks :
             /\ FreshWeak(w)
             /\ wref' = [wref EXCEPT ![h] = w]
             /\ node_of' = [node_of EXCEPT ![w] = knode]
             /\ death_notifications' = death_notifications \cup {w}
        /\ Goto(h, "incref")
        /\ UNCHANGED kernel_vars
  /\ UNCHANGED <<overlapping, wants, sref, weak_of, refs, weak_refs, cancelled>>

\* BC_INCREFS.
IncRefs(h) ==
  /\ pc[h] = "incref"
  /\ SetCounts(kstrong, kweak + 1, Holders)
  /\ Goto(h, "request")
  /\ UNCHANGED <<overlapping, wants, sref, wref, value_vars, table_vars, kdead,
                 kqueue>>

\* BC_REQUEST_DEATH_NOTIFICATION; of a dead node it is answered at once.
RequestDeath(h) ==
  /\ pc[h] = "request"
  /\ \/ /\ kdeath = None
        /\ kdeath' = wref[h]
        /\ kqueue' = IF knode \in kdead THEN kqueue \cup {wref[h]} ELSE kqueue
     \/ kdeath # None /\ UNCHANGED <<kdeath, kqueue>>
  /\ Goto(h, "publishW")
  /\ UNCHANGED <<overlapping, wants, sref, wref, value_vars, table_vars, knode,
                 kstrong, kweak, kdead>>

\* weak_refs.insert.
PublishWeak(h) ==
  /\ pc[h] = "publishW"
  /\ weak_refs' = wref[h]
  /\ \/ h \in wants /\ Goto(h, "acquire") /\ UNCHANGED kernel_vars
     \/ h \notin wants /\ Goto(h, "holdW") /\ EndRead(h)
  /\ UNCHANGED <<overlapping, wants, sref, wref, value_vars, refs,
                 death_notifications, cancelled>>

\* Faulty: another BinderRef's ACQUIRE is taken to cover this one.
AcquireUnlessListed(h) ==
  /\ pc[h] = "acquire"
  /\ SetCounts(IF refs = None THEN kstrong + 1 ELSE kstrong, kweak, Holders)
  /\ Goto(h, "publishS")
  /\ UNCHANGED <<overlapping, wants, sref, wref, value_vars, table_vars, kdead,
                 kqueue>>

\* BC_ACQUIRE.
Acquire(h) ==
  /\ pc[h] = "acquire"
  /\ SetCounts(kstrong + 1, kweak, Holders)
  /\ Goto(h, "publishS")
  /\ UNCHANGED <<overlapping, wants, sref, wref, value_vars, table_vars, kdead,
                 kqueue>>

\* The new BinderRef takes the weak one over; refs.insert.
PublishStrong(h) ==
  /\ pc[h] = "publishS"
  /\ \E b \in Strongs :
       /\ FreshStrong(b)
       /\ weak_of' = [weak_of EXCEPT ![b] = wref[h]]
       /\ node_of' = [node_of EXCEPT ![b] = knode]
       /\ sref' = [sref EXCEPT ![h] = b]
       /\ refs' = b
  /\ wref' = [wref EXCEPT ![h] = None]
  /\ wants' = wants \ {h}
  /\ Goto(h, "holdS")
  /\ EndRead(h)
  /\ UNCHANGED <<overlapping, weak_refs, death_notifications, cancelled>>
-----------------------------------------------------------------------------
(* Copies, and the destructors of the last one.                            *)

\* Arc::clone, and BinderRef::downgrade.
Share(h, g) ==
  /\ pc[h] = "idle"
  /\ \/ /\ pc[g] = "holdS"
        /\ \/ sref' = [sref EXCEPT ![h] = sref[g]] /\ Goto(h, "holdS") /\ UNCHANGED wref
           \/ /\ wref' = [wref EXCEPT ![h] = weak_of[sref[g]]]
              /\ Goto(h, "holdW")
              /\ UNCHANGED sref
     \/ /\ pc[g] = "holdW"
        /\ wref' = [wref EXCEPT ![h] = wref[g]]
        /\ Goto(h, "holdW")
        /\ UNCHANGED sref
  /\ UNCHANGED <<overlapping, wants, value_vars, table_vars, kernel_vars>>

\* WeakBinderRef::upgrade, which only ever asks the table.
Upgrade(h, g) ==
  /\ pc[h] = "idle"
  /\ pc[g] = "holdW"
  /\ refs # None /\ StrongAlive(refs)
  /\ sref' = [sref EXCEPT ![h] = refs]
  /\ Goto(h, "holdS")
  /\ UNCHANGED <<overlapping, wants, wref, value_vars, table_vars, kernel_vars>>

\* Faulty: every Arc gives a reference back, not only the last.
DropStrongEach(h) ==
  /\ pc[h] = "holdS"
  /\ MayBegin(h)
  /\ Goto(h, "release")
  /\ UNCHANGED <<overlapping, wants, sref, wref, value_vars, table_vars,
                 kernel_vars>>

\* The drop of an Arc<BinderRef>; the last one runs its destructor.
DropStrong(h) ==
  /\ pc[h] = "holdS"
  /\ IF \E g \in Holders \ {h} : pc[g] = "holdS" /\ sref[g] = sref[h]
     THEN Goto(h, "idle") /\ sref' = [sref EXCEPT ![h] = None]
     ELSE MayBegin(h) /\ Goto(h, "release") /\ UNCHANGED sref
  /\ UNCHANGED <<overlapping, wants, wref, value_vars, table_vars, kernel_vars>>

\* BC_RELEASE.
Release(h) ==
  /\ pc[h] = "release"
  /\ SetCounts(kstrong - 1, kweak, Holders)
  /\ Goto(h, "removeS")
  /\ UNCHANGED <<overlapping, wants, sref, wref, value_vars, table_vars, kdead,
                 kqueue>>

\* refs.remove_if(dead), and the drop of the field `weak`.
RemoveStrong(h) ==
  /\ pc[h] = "removeS"
  /\ LET w == weak_of[sref[h]] IN
     /\ weak_of' = [weak_of EXCEPT ![sref[h]] = None]
     /\ node_of' = [node_of EXCEPT ![sref[h]] = None]
     /\ refs' = IF refs # None /\ StrongAlive(refs) THEN refs ELSE None
     /\ IF WeakUsed(w, Holders, Strongs \ {sref[h]})
        THEN Goto(h, "idle") /\ UNCHANGED wref
        ELSE Goto(h, "clear") /\ wref' = [wref EXCEPT ![h] = w]
     /\ sref' = [sref EXCEPT ![h] = None]
  /\ UNCHANGED <<overlapping, wants, weak_refs, death_notifications, cancelled,
                 kernel_vars>>

\* The drop of an Arc<WeakBinderRef>.
DropWeak(h) ==
  /\ pc[h] = "holdW"
  /\ IF WeakUsed(wref[h], Holders \ {h}, Strongs)
     THEN Goto(h, "idle") /\ wref' = [wref EXCEPT ![h] = None]
     ELSE MayBegin(h) /\ Goto(h, "clear") /\ UNCHANGED wref
  /\ UNCHANGED <<overlapping, wants, sref, value_vars, table_vars, kernel_vars>>

\* BC_CLEAR_DEATH_NOTIFICATION.
ClearDeath(h) ==
  /\ pc[h] = "clear"
  /\ kdeath' = IF kdeath = wref[h] THEN None ELSE kdeath
  /\ Goto(h, "forget")
  /\ UNCHANGED <<overlapping, wants, sref, wref, value_vars, table_vars, knode,
                 kstrong, kweak, kdead, kqueue>>

\* Faulty: the token is left for BR_DEAD_BINDER to remove.
ForgetNothing(h) ==
  /\ pc[h] = "forget"
  /\ Goto(h, "decref")
  /\ UNCHANGED <<overlapping, wants, sref, wref, value_vars, table_vars,
                 kernel_vars>>

\* death_notifications.remove.
Forget(h) ==
  /\ pc[h] = "forget"
  /\ death_notifications' = death_notifications \ {wref[h]}
  /\ Goto(h, "decref")
  /\ UNCHANGED <<overlapping, wants, sref, wref, value_vars, refs, weak_refs,
                 cancelled, kernel_vars>>

\* BC_DECREFS.
DecRefs(h) ==
  /\ pc[h] = "decref"
  /\ SetCounts(kstrong, kweak - 1, Holders)
  /\ Goto(h, "removeW")
  /\ UNCHANGED <<overlapping, wants, sref, wref, value_vars, table_vars, kdead,
                 kqueue>>

\* weak_refs.remove_if(dead).
RemoveWeak(h) ==
  /\ pc[h] = "removeW"
  /\ weak_refs' = IF weak_refs # None /\ WeakAlive(weak_refs) THEN weak_refs ELSE None
  /\ wref' = [wref EXCEPT ![h] = None]
  /\ node_of' = [node_of EXCEPT ![wref[h]] = None]
  /\ cancelled' = cancelled \ {wref[h]}
  /\ Goto(h, "idle")
  /\ UNCHANGED <<overlapping, wants, sref, weak_of, refs, death_notifications,
                 kernel_vars>>
-----------------------------------------------------------------------------
(* Death.                                                                  *)

\* The process of n dies; the driver queues what was asked for.
Die(n) ==
  /\ n \notin kdead
  /\ kdead' = kdead \cup {n}
  /\ kqueue' = IF knode = n /\ kdeath # None THEN kqueue \cup {kdeath} ELSE kqueue
  /\ UNCHANGED <<overlapping, holder_vars, value_vars, table_vars, knode, kstrong,
                 kweak, kdeath>>

\* Faulty: the reference is looked up by its handle, not by the cookie.
DeadBinderByHandle(w) ==
  /\ w \in kqueue
  /\ kqueue' = kqueue \ {w}
  /\ death_notifications' = death_notifications \ {weak_refs}
  /\ cancelled' = cancelled \cup ({weak_refs} \ {None})
  /\ UNCHANGED <<overlapping, holder_vars, value_vars, refs, weak_refs, knode,
                 kstrong, kweak, kdeath, kdead>>

\* The DEAD_BINDER arm of binder_write_read.
DeadBinder(w) ==
  /\ w \in kqueue
  /\ kqueue' = kqueue \ {w}
  /\ death_notifications' = death_notifications \ {w}
  /\ cancelled' = IF w \in death_notifications THEN cancelled \cup {w} ELSE cancelled
  /\ UNCHANGED <<overlapping, holder_vars, value_vars, refs, weak_refs, knode,
                 kstrong, kweak, kdeath, kdead>>
-----------------------------------------------------------------------------
ReadNext(h) ==
  \/ FindStrong(h) \/ FindWeak(h) \/ IncRefs(h) \/ RequestDeath(h)
  \/ PublishWeak(h) \/ Acquire(h) \/ PublishStrong(h)

DestroyNext(h) ==
  Release(h) \/ RemoveStrong(h) \/ ClearDeath(h) \/ Forget(h) \/ DecRefs(h) \/ RemoveWeak(h)

HolderNext(h) ==
  \/ \E n \in Nodes : Receive(h, n)
  \/ ReadNext(h)
  \/ \E g \in Holders : Share(h, g) \/ Upgrade(h, g)
  \/ DropStrong(h) \/ DropWeak(h)
  \/ DestroyNext(h)

Next ==
  \/ \E h \in Holders : HolderNext(h)
  \/ \E n \in Nodes : Die(n)
  \/ \E w \in Weaks : DeadBinder(w)

Spec == Init /\ [][Next]_vars

\* A lookup or destructor that has begun runs to its end, and loopers read
\* what the driver has queued.  Nobody has to receive, drop or die.
Fairness ==
  /\ \A h \in Holders : WF_vars(ReadNext(h)) /\ WF_vars(DestroyNext(h))
  /\ \A w \in Weaks : WF_vars(DeadBinder(w))

FairSpec == Spec /\ Fairness
-----------------------------------------------------------------------------
(* Properties.                                                             *)

\* The shape of the state.
TypeOK ==
  /\ overlapping \in Overlaps
  /\ pc \in [Holders -> Places]
  /\ wants \subseteq Holders
  /\ sref \in [Holders -> Strongs \cup {None}]
  /\ wref \in [Holders -> Weaks \cup {None}]
  /\ weak_of \in [Strongs -> Weaks \cup {None}]
  /\ node_of \in [Strongs \cup Weaks -> Nodes \cup {None}]
  /\ refs \in Strongs \cup {None}
  /\ weak_refs \in Weaks \cup {None}
  /\ death_notifications \subseteq Weaks
  /\ cancelled \subseteq Weaks
  /\ knode \in Nodes \cup {None}
  /\ kstrong \in Nat
  /\ kweak \in Nat
  /\ kdeath \in Weaks \cup {None}
  /\ kdead \subseteq Nodes
  /\ kqueue \subseteq Weaks

\* What a reference is used for: a transaction on its handle reaches the node
\* the reference was received for, and the driver still counts a reference for
\* it - whoever drops, duplicates or looks up the same handle meanwhile.
HandleNamesNode ==
  \A h \in Holders :
    /\ pc[h] = "holdS" => kstrong > 0 /\ knode = node_of[sref[h]]
    /\ pc[h] = "holdW" => kweak > 0 /\ knode = node_of[wref[h]]

\* Every INCREFS, ACQUIRE, table entry and cookie is given back: when nobody
\* has a reference, the driver has freed the handle and the tables are empty.
NothingLeaked ==
  (\A h \in Holders : pc[h] = "idle") =>
    /\ knode = None
    /\ refs = None
    /\ weak_refs = None
    /\ death_notifications = {}

\* alive() never reports a death that did not happen, although handles are
\* reused and a BR_DEAD_BINDER may come after the clear.
NoFalseDeath ==
  \A w \in Weaks : WeakAlive(w) /\ w \in cancelled => node_of[w] \in kdead

\* WeakBinderRef::upgrade finds a strong reference while there is one, unless a
\* second one was made for the same handle at some time.
UpgradeFinds ==
  ~overlapping /\ (\E h \in Holders : pc[h] = "holdS") => refs # None /\ StrongAlive(refs)

\* The WeakBinderRef behind what a holder has.
WeakOf(h) == IF pc[h] = "holdS" THEN weak_of[sref[h]] ELSE wref[h]

\* Once the driver's queue is read, every death has reached every reference: no
\* constructor came too late for it, and none has a cookie the driver never took.
DeathReported ==
  ~overlapping /\ kqueue = {} =>
    \A h \in Holders :
      pc[h] \in {"holdS", "holdW"} /\ node_of[WeakOf(h)] \in kdead => WeakOf(h) \in cancelled

\* What a holder has, from outside: a destructor that has begun has nothing left.
KindOf ==
  [h \in Holders |-> CASE pc[h] = "holdS" -> "strong"
                       [] pc[h] = "holdW" -> "weak"
                       [] pc[h] \in Reading -> IF h \in wants THEN "getS" ELSE "getW"
                       [] OTHER -> "none"]
NodeOf ==
  [h \in Holders |-> CASE pc[h] = "holdS" -> node_of[sref[h]]
                       [] pc[h] = "holdW" -> node_of[wref[h]]
                       [] pc[h] \in Reading -> knode
                       [] OTHER -> None]
Told == {h \in Holders : pc[h] \in {"holdS", "holdW"} /\ WeakOf(h) \in cancelled}

Simple == INSTANCE NodeReferences WITH
  kind <- KindOf, node <- NodeOf, handle <- knode, dead <- kdead, told <- Told

\* For all its steps a lookup takes effect at once, and so does a drop: a reference is
\* for the node its payload named and stays there, a copy or an upgrade is for the same
\* node, a handle is free only when nobody uses it, and no report of a death is false
\* or lost through another reference's destructor.
ActsAsReferences == Simple!Spec

\* death_notification: "future returns when the remote object died".
DeathNoticed ==
  \A w \in Weaks :
    WeakAlive(w) /\ node_of[w] \in kdead ~> w \in cancelled \/ ~WeakAlive(w)
=============================================================================
