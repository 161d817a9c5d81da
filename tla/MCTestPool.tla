----------------------------- MODULE MCTestPool -----------------------------
(***************************************************************************)
(* Programs of each kind, and the process ids that place their scans.      *)
(***************************************************************************)
EXTENDS TestPool, TLC

CONSTANTS combo, parked, solo, bench

KindOf == combo :> "combo" @@ parked :> "parked" @@ solo :> "solo" @@ bench :> "bench"
PidOf == combo :> 2 @@ parked :> 4 @@ solo :> 6 @@ bench :> 5

MCKind == [t \in Programs |-> KindOf[t]]
MCPid == [t \in Programs |-> PidOf[t]]
=============================================================================
