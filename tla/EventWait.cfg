SPECIFICATION Spec
CONSTANTS
  b1 = b1
  l1 = l1
  l2 = l2
  t1 = t1
  t2 = t2
  t3 = t3
  x = x
  y = y
  AnyBroadcaster = AnyBroadcaster
  Broadcasters <- OneBroadcaster
  Listeners <- OneListener
  Threads <- ThreeThreads
  Bits <- TwoBits
  MaxEvents = 3
  MaxChanges = 1
  MaxWaits = 2
SYMMETRY Symmetry
INVARIANTS UniqueOnce NoLostWakeup
CHECK_DEADLOCK FALSE
