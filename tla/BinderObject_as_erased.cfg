SPECIFICATION Spec
CONSTANTS
  Handles = {h1, h2, h3}
  NoThread = NoThread
  Leftover = Leftover
  MaxRemote = 2
  MaxPending = 3
  MaxReleasing = 2
SYMMETRY HandleSymmetry
INVARIANT AsErasedFindsHandler
CHECK_DEADLOCK FALSE
