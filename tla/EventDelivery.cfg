SPECIFICATION Spec
CONSTANTS
  b1 = b1
  l1 = l1
  l2 = l2
  t1 = t1
  t2 = t2
  t3 = t3
  x = x
  y = y
  AnyBroadcaster = AnyBroadcaster
  Broadcasters <- OneBroadcaster
  Listeners <- TwoListeners
  Threads <- TwoThreads
  Bits <- TwoBits
  MaxEvents = 2
  MaxChanges = 3
  MaxWaits = 0
SYMMETRY Symmetry
INVARIANTS TypeOK SameOrder
PROPERTY DeliverySubscribed
CHECK_DEADLOCK FALSE
