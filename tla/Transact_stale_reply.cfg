\* A nested transaction for an unregistered object.
SPECIFICATION Spec
CONSTANTS
  Callers = {t1}
  Loopers = {l1}
  Calls = {c1, c2}
  Incoming = {i1, i2}
  NoThread = NoThread
  Troubles = {{"missing"}}
  MaxLocal = 0
INVARIANT ReplyMatchesCall
CHECK_DEADLOCK FALSE
