\* Missing objects, or full buffers and reads ahead, or none of them.
SPECIFICATION FairSpec
CONSTANTS
  Callers = {t1}
  Loopers = {l1}
  Calls = {c1, c2}
  Incoming = {i1, i2}
  NoThread = NoThread
  Troubles = {{}, {"missing"}, {"full", "ahead"}}
  MaxLocal = 1
INVARIANTS TypeOK ReplyMatchesRegistered ReplyAccepted
PROPERTIES CallReturnsGivenRoom IncomingAnswered
CHECK_DEADLOCK FALSE
