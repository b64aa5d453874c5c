CONSTANTS
  Requests = {q1, q2}
  ExecutionTimeout = 4
  ForceExit = 2
  CloseTimeout = 2
  Delay = 1
  RequestTimeout = 2
  UserTexts = {"timed out", "Module import failed", "Function execution error"}
SPECIFICATION FairSpec
CHECK_DEADLOCK FALSE
INVARIANTS IndInv CodeTellsCause
PROPERTIES ExitZeroIsClean EveryRequestAnswered ShutdownEnds
