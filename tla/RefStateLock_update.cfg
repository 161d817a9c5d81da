\* Three threads in update at once, and a waiter that may subscribe any time.
SPECIFICATION FairSpec
CONSTANTS
  Threads = {t1, t2, t3}
  NoThread = NoThread
  MaxTotal = 2
INVARIANT TypeOK
PROPERTIES PublishesInOrder ZeroIsNoticed
CHECK_DEADLOCK FALSE
