SPECIFICATION Spec
CONSTANTS
  Paths = {p1, p2}
  Files = {f1, f2}
  NoFile = NoFile
  Streams = {s1, s2, s3}
  NoStream = NoStream
  Postfixed = {}
  Mode = "cache"
  NeedPostfix = FALSE
  KeepLength = 1
  MaxKey = 3
  MaxVer = 2
  Times = {1, 2}
SYMMETRY FullSymmetry
INVARIANTS TypeOK RefCountExact OneStreamPerFile FreshInfo
CHECK_DEADLOCK FALSE
