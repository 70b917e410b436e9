SPECIFICATION Spec
CONSTANTS
  l1 = l1
  l2 = l2
  b1 = b1
  b2 = b2
  c1 = c1
  c2 = c2
  x = x
  y = y
  z = z
  Listeners <- MCListeners
  Broadcasters <- MCBroadcasters
  Classes <- MCClasses
  Bits <- MCBits
  ClassOf <- MCClassOf
  MaxOps = 6
SYMMETRY Symmetry
INVARIANTS BitsExclusive SignedUpOnce
CHECK_DEADLOCK FALSE
