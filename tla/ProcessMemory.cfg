SPECIFICATION Spec
CONSTANTS
  Size = 8
  LineSize = 2
  Values = {zero, one}
  Trap = Trap
  OpcodeSize = 2
  SiteAddrs = {2, 4}
  Owners = {owner1, owner2}
  SiteTypes = {"software"}
  Reads <- CodeReads
  Writes <- CodeWrites
  Stores = {2}
  Expedited <- Stack
INVARIANTS TypeOK MemoryIntact ReadsCurrent
SYMMETRY Symmetry
CHECK_DEADLOCK FALSE
