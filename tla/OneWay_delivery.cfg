\* Two processes that send to each other; one has a second looper on request, and
\* drops its object and its device.
SPECIFICATION FairSpec
CONSTANTS
  p1 = p1  p2 = p2  a = a  b = b  l1 = l1  l2 = l2  l2b = l2b
  m1 = m1  m2 = m2  r1 = r1  n1 = n1  n2 = n2  s1 = s1
  None = None
  Procs = {p1, p2}
  Apps = {a, b}
  Loopers = {l1, l2, l2b}
  Initial = {l1, l2}
  Msgs = {m1, m2, r1, n1, n2, s1}
  Home <- MCHomeOf
  Target <- MCTargetOf
  Size <- MCSize
  Script <- MCScript
  Forward <- MCForward
  Space = 2
  Closing = {p2}
  MaxThreads <- MCMaxThreads
INVARIANTS TypeOK NothingLeaks LoopersStay PoolAccounted
PROPERTIES ActsAsMailbox SendReturns Delivered
CHECK_DEADLOCK FALSE
