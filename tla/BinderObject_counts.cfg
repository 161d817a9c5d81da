\* Three sends at once; reads may end early, and targets let go at any time.
SPECIFICATION FairSpec
CONSTANTS
  Handles = {h1, h2, h3}
  NoThread = NoThread
  Leftover = Leftover
  MaxRemote = 2
  MaxPending = 3
  MaxReleasing = 2
INVARIANTS TypeOK LocalAccounting RemoteAccounting ZeroMeansUnreferenced NoStuckGuard
PROPERTY ServiceReclaimed
CHECK_DEADLOCK FALSE
