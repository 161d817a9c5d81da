------------------------------ MODULE MCOneWay ------------------------------
(***************************************************************************)
(* Two processes that send to each other, from applications and from       *)
(* handlers.  The messages of a handler take all the room that its target  *)
(* has for them.                                                           *)
(***************************************************************************)
EXTENDS OneWay, TLC

CONSTANTS p1, p2, a, b, l1, l2, l2b, m1, m2, r1, n1, n2, s1

MCHome ==
  a :> p1 @@ l1 :> p1 @@ b :> p2 @@ l2 :> p2 @@ l2b :> p2

\* The application of each process sends, the first message of each is answered.
MCTarget == m1 :> p2 @@ m2 :> p2 @@ s1 :> p2 @@ n1 :> p1 @@ n2 :> p1 @@ r1 :> p1
MCSize == [m \in Msgs |-> IF m \in {m1, n1, m2} THEN 1 ELSE 2]
MCForward == [m \in Msgs |-> CASE m = m1 -> r1 [] m = n1 -> s1 [] OTHER -> None]
MCScript == a :> <<m1, m2>>
         @@ b :> <<n1, n2>>

MCHomeOf == [t \in Apps \cup Loopers |-> MCHome[t]]
MCTargetOf == [m \in Msgs |-> MCTarget[m]]

\* As many as there are.
MCMaxThreads == [p \in Procs |-> Cardinality(LoopersOf(p) \ Initial)]
=============================================================================
