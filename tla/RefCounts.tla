----------------------------- MODULE RefCounts -----------------------------
(***************************************************************************)
(* RefCounts of device.rs: the three strong counts the device keeps for    *)
(* one locally registered object, and the closures that                    *)
(* ObjectRefState::update applies to them under the mutex.                 *)
(*                                                                         *)
(* The code stores u32 and subtracts without a check.  Here the counts are *)
(* integers, so an underflow is a negative count that a type invariant     *)
(* rejects instead of a wrapped one that looks healthy.                    *)
(***************************************************************************)
EXTENDS Integers

\* What one RefCounts value holds when no subtraction ever underflows.
RefCountsType == [local : Nat, remote : Nat, pending : Nat]

\* RefCounts::default(): what ObjectRefState::new starts from.
NoCounts == [local |-> 0, remote |-> 0, pending |-> 0]

\* RefCounts::total: the value published to every strong_count watcher.
Total(c) == c.local + c.remote + c.pending

IncreaseLocal(c) == [c EXCEPT !.local = @ + 1]

DecreaseLocal(c) == [c EXCEPT !.local = @ - 1]

DecreaseRemote(c) == [c EXCEPT !.remote = @ - 1]

\* Faulty: remote kept as a flag rather than as a count.
IncreaseRemoteFlag(c) ==
  [local |-> c.local, remote |-> 1, pending |-> 0]

\* Faulty: a decrement by one where the code resets, the variant the comment
\* in increase_remote warns of.
IncreaseRemoteByOne(c) ==
  [c EXCEPT !.remote = @ + 1, !.pending = IF @ = 0 THEN 0 ELSE @ - 1]

\* BR_ACQUIRE landed: one more remote unit, and every guard is void at once.
IncreaseRemote(c) ==
  [local |-> c.local, remote |-> c.remote + 1, pending |-> 0]

\* Faulty: a guard is taken out although a remote unit is established.
MarkAlways(c) == [c EXCEPT !.pending = @ + 1]

\* A guard unit is only taken out while there is no remote unit.
MarkPendingRemote(c) ==
  IF c.remote = 0 THEN [c EXCEPT !.pending = @ + 1] ELSE c

\* Faulty: a plain subtraction where the code saturates.
ClearUnsaturated(c) == [c EXCEPT !.pending = @ - 1]

\* The rollback of a failed send: saturating_sub(1).
ClearPendingRemote(c) ==
  [c EXCEPT !.pending = IF @ = 0 THEN 0 ELSE @ - 1]

\* Faulty: units are given back that nobody took.
UpdateResultsUnchecked(c) ==
  {IncreaseLocal(c), DecreaseLocal(c), IncreaseRemote(c), DecreaseRemote(c)}

\* What one call of update can make of c: its callers pass one of the closures
\* above, and give back only what they took (BinderObject shows that they do).
UpdateResults(c) ==
  {IncreaseLocal(c), IncreaseRemote(c), MarkPendingRemote(c), ClearPendingRemote(c)}
    \cup {d \in {DecreaseLocal(c)} : c.local > 0}
    \cup {d \in {DecreaseRemote(c)} : c.remote > 0}
=============================================================================
