\* Tests with a forked service, either kind of which may be killed, one without, and
\* the benchmark; two nodes.
SPECIFICATION FairSpec
CONSTANTS
  combo = combo  parked = parked  solo = solo  bench = bench
  None = None
  Programs = {combo, parked, bench, solo}
  Kind <- MCKind
  Pid <- MCPid
  Size = 2
  Mortal = {combo, parked}
  MaxMeanwhile = 1
INVARIANTS TypeOK RoleIsFree NodeIsExclusive OwnService PoolReady
PROPERTY AcquireReturns
CHECK_DEADLOCK FALSE
