SPECIFICATION FairSpec
CONSTANTS
  Callers = {c1}
  Procs = {p1}
  Handles = {h1}
  Ids = {i1}
  Paths = {f1}
  None = None
  Starter = Starter
  WatchRace = TRUE
PROPERTIES ExitEnds
CHECK_DEADLOCK FALSE
