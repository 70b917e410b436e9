SPECIFICATION Spec
CONSTANTS
  t1 = t1
  t2 = t2
  t3 = t3
  l1 = l1
  l2 = l2
  b1 = b1
  b2 = b2
  Threads <- MCThreads
  Listeners <- MCListeners
  Broadcasters <- MCBroadcasters
SYMMETRY Symmetry
INVARIANT NoDeadlock
CHECK_DEADLOCK FALSE
