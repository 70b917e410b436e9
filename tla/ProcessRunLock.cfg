SPECIFICATION Spec
CONSTANTS
  Calls = {"Resume", "ResumeSynchronous", "Interrupt", "Halt", "Destroy", "Exit"}
  Continues = {"silent", "reported", "action"}
  ResumeFaults = {"error", "timeout", "fake"}
  ContinueFaults = {"error", "timeout", "fake"}
  HaltMayFail = TRUE
  MaxCalls = 3
  MaxStops = 1
  MaxLooks = 1
INVARIANTS TypeOK ExitOnce
PROPERTY KeepsRunLock
CHECK_DEADLOCK FALSE
