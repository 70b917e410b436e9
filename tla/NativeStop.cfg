SPECIFICATION Spec
CONSTANTS
  Tids = {t1, t2, t3}
  Main = t1
  NoThread = NoThread
  Causes = {"trap", "ignored", "clone", "exit"}
  LeaderExits = FALSE
  LastRunnerExits = FALSE
  MaxEvents = 2
  MaxResumes = 2
  MaxInterrupts = 1
INVARIANTS TypeOK StatesAgree StopsAreComplete
PROPERTIES StopNamesCause StopCompletes ExitReported
CHECK_DEADLOCK FALSE
