SPECIFICATION Spec
CONSTANTS
  Size = 8
  LineSize = 2
  Values = {zero, one}
  Trap = Trap
  OpcodeSize = 2
  SiteAddrs = {0}
  Owners = {owner1, owner2}
  SiteTypes = {"software"}
  Reads <- NestedReads
  Writes <- LastWrite
  Stores = {1, 2, 7}
  Expedited <- Stack
INVARIANT ReadsProgram
SYMMETRY Symmetry
CHECK_DEADLOCK FALSE
