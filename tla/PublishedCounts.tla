-------------------------- MODULE PublishedCounts --------------------------
(***************************************************************************)
(* What ObjectRefState promises to its callers and to the watchers of      *)
(* strong_count: an update changes all three counts and the published      *)
(* total in one step, so what a watcher sees is always the latest total.   *)
(***************************************************************************)
EXTENDS RefCounts

VARIABLES counts, published

Init == counts = NoCounts /\ published = Total(NoCounts)

Update ==
  /\ counts' \in UpdateResults(counts)
  /\ published' = Total(counts')

Spec == Init /\ [][Update]_<<counts, published>>
=============================================================================
