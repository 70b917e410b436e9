SPECIFICATION Spec
CONSTANTS
  Calls = {"Resume", "ResumeSynchronous", "Interrupt", "Halt", "Destroy", "Exit"}
  Continues = {"silent", "reported", "action"}
  ResumeFaults = {"error", "timeout", "fake"}
  ContinueFaults = {"error", "timeout", "fake"}
  HaltMayFail = TRUE
  MaxCalls = 2
  MaxStops = 1
  MaxLooks = 1
PROPERTIES ImplementsStopAccess InterruptStops CallReturns
CHECK_DEADLOCK FALSE
