\* The target's buffer is full when a call is written.
SPECIFICATION FairSpec
CONSTANTS
  Callers = {t1}
  Loopers = {l1}
  Calls = {c1, c2}
  Incoming = {i1, i2}
  NoThread = NoThread
  Troubles = {{"full"}}
  MaxLocal = 0
PROPERTY CallReturns
CHECK_DEADLOCK FALSE
