--------------------------- MODULE NodeReferences ---------------------------
(***************************************************************************)
(* What BinderRef and WeakBinderRef promise of one handle.  A payload that *)
(* names a node is turned into a reference on that node, which keeps it    *)
(* until it is dropped, and with it the handle.  Copies, downgrades and    *)
(* upgrades lead to the same node.  A reference reports the death of its   *)
(* node only when it died, and never takes the report back.                *)
(***************************************************************************)
CONSTANTS Holders, Nodes, None

VARIABLES
  kind,   \* what each holder has: none, getS or getW (a payload with the handle
          \* or the weak handle), strong, weak
  node,   \* the node that it is for
  handle, \* the node that the driver's handle names
  dead,   \* nodes that died
  told    \* holders whose reference reports a death

Held(h) == kind[h] \in {"strong", "weak"}
Give(h, k, n) == kind' = [kind EXCEPT ![h] = k] /\ node' = [node EXCEPT ![h] = n]
MayTell(h, n) == told' = told \/ (n \in dead /\ told' = told \cup {h})

Init ==
  /\ kind = [h \in Holders |-> "none"]
  /\ node = [h \in Holders |-> None]
  /\ handle = None
  /\ dead = {}
  /\ told = {}

Receive(h, n) ==
  /\ kind[h] = "none" /\ handle \in {None, n}
  /\ handle' = n
  /\ \E k \in {"getS", "getW"} : Give(h, k, n)
  /\ UNCHANGED <<dead, told>>

Get(h) ==
  /\ \/ kind[h] = "getS" /\ Give(h, "strong", node[h])
     \/ kind[h] = "getW" /\ Give(h, "weak", node[h])
  /\ MayTell(h, node[h])
  /\ UNCHANGED <<handle, dead>>

Copy(h, g) ==
  /\ kind[h] = "none" /\ Held(g)
  /\ \/ kind[g] = "strong" /\ Give(h, "strong", node[g])
     \/ Give(h, "weak", node[g])
  /\ told' = IF g \in told THEN told \cup {h} ELSE told
  /\ UNCHANGED <<handle, dead>>

Upgrade(h, g) ==
  /\ kind[h] = "none" /\ kind[g] = "weak"
  /\ \E b \in Holders : kind[b] = "strong"
  /\ Give(h, "strong", node[g])
  /\ MayTell(h, node[g])
  /\ UNCHANGED <<handle, dead>>

Drop(h) ==
  /\ Held(h)
  /\ Give(h, "none", None)
  /\ told' = told \ {h}
  /\ UNCHANGED <<handle, dead>>

FreeHandle ==
  /\ \A h \in Holders : kind[h] = "none"
  /\ handle' = None
  /\ UNCHANGED <<kind, node, dead, told>>

Die(n) ==
  /\ dead' = dead \cup {n}
  /\ UNCHANGED <<kind, node, handle, told>>

Tell ==
  /\ told \subseteq told'
  /\ told' \subseteq told \cup {h \in Holders : Held(h) /\ node[h] \in dead}
  /\ UNCHANGED <<kind, node, handle, dead>>

Next ==
  \/ \E h \in Holders :
       \/ \E n \in Nodes : Receive(h, n)
       \/ Get(h)
       \/ \E g \in Holders : Copy(h, g) \/ Upgrade(h, g)
       \/ Drop(h)
  \/ FreeHandle
  \/ \E n \in Nodes : Die(n)
  \/ Tell

Spec == Init /\ [][Next]_<<kind, node, handle, dead, told>>
=============================================================================
