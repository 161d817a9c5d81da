\* A target drops what it was sent before the sender has read the acquire.
SPECIFICATION FairSpec
CONSTANTS
  Handles = {h1, h2}
  NoThread = NoThread
  Leftover = Leftover
  MaxRemote = 1
  MaxPending = 2
  MaxReleasing = 1
PROPERTY HitZeroFires
CHECK_DEADLOCK FALSE
