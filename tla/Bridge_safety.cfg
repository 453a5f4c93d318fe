SPECIFICATION Spec
CONSTANTS
  Callers = {c1, c2}
  Procs = {p1, p2, p3}
  Handles = {h1, h2}
  Ids = {i1, i2}
  Paths = {f1, f2}
  None = None
  Starter = Starter
  WatchRace = TRUE
SYMMETRY Sym
INVARIANTS TypeOK TablesAgree NoOrphan
PROPERTIES KillsOnlyTheDead
CHECK_DEADLOCK FALSE
