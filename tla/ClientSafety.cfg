SPECIFICATION Spec
CONSTANTS
  a1 = a1
  a2 = a2
  Cont = Cont
  AsyncThreads <- MCThreads
  Ops <- StreamOps
  EchoLateInterrupt = FALSE
  SpontaneousInt = TRUE
  EndlessOutput = FALSE
  MaxCalls = 4
  MaxOutput = 1
  MaxPending = 3
SYMMETRY MCSymmetry
INVARIANTS TypeOK ConnectionExclusive AsyncCountAccurate RequestsOnlyWhileStopped ResponseMatchesRequest
PROPERTY ResumeWaitsForAsync
CHECK_DEADLOCK FALSE
