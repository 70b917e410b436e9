SPECIFICATION Spec
CONSTANTS
  Calls = {"Resume", "Interrupt"}
  Continues = {"action"}
  ResumeFaults = {}
  ContinueFaults = {}
  HaltMayFail = FALSE
  MaxCalls = 2
  MaxStops = 2
  MaxLooks = 1
INVARIANT LookersSeeStopped
CHECK_DEADLOCK FALSE
