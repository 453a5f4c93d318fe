SPECIFICATION FairSpec
CONSTANTS
  a = a
  b = b
  Cap = 2
  StartTime = 0
  LastPts = 6
  Files <- AllFiles
  Second = 3
  Near = 2
  Viewers = {a, b}
  Reach <- TwoParts
  NoPts = NoPts
  Blank = Blank
  Garbage = Garbage
INVARIANTS TypeOK RightFrame GopTrue
PROPERTIES NoThrash ReadEnds
