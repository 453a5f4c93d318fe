SPECIFICATION FairSpec
CONSTANTS
  Callers = {c1, c2}
  Procs = {p1, p2}
  Handles = {h1}
  Ids = {i1}
  Paths = {f1}
  None = None
  Starter = Starter
  WatchRace = FALSE
PROPERTIES LockReturns CrashHandled CrashEndsConnecting ExitEnds
CHECK_DEADLOCK FALSE
