SPECIFICATION FairSpec
CONSTANTS
  Clients = {c1, c2}
  Pipes = {p1, p2}
  MaxCalls = 2
  Strangers = {c2}
  None = None
INVARIANTS TypeOK NoFault
PROPERTIES RpcSpec CallEnds DestroyEnds
CHECK_DEADLOCK FALSE
