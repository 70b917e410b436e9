SPECIFICATION FairSpec
CONSTANTS
  a1 = a1
  a2 = a2
  Cont = Cont
  AsyncThreads <- MCThreads
  Ops <- LiveOps
  EchoLateInterrupt = FALSE
  SpontaneousInt = FALSE
  EndlessOutput = FALSE
  MaxCalls = 3
  MaxOutput = 1
  MaxPending = 2
PROPERTIES AsyncCallsReturn ContinueLockReturns
CHECK_DEADLOCK FALSE
