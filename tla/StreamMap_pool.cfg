SPECIFICATION Spec
CONSTANTS
  Paths = {p1, p2}
  Files = {f1, f2}
  NoFile = NoFile
  Streams = {s1, s2, s3}
  NoStream = NoStream
  Postfixed = {}
  Mode = "pool"
  NeedPostfix = FALSE
  KeepLength = 2
  MaxKey = 3
  MaxVer = 1
  Times = {1, 2}
SYMMETRY FullSymmetry
INVARIANTS SoleOwner
PROPERTIES LruEviction HandleTableSpec
CHECK_DEADLOCK FALSE
