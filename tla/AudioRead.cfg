SPECIFICATION FairSpec
CONSTANTS
  a = a
  b = b
  Cap = 2
  Handles = {a, b}
  Files <- EvenFiles
  Second = 3
  Reach <- TwoParts
  Sizes = {1, 3}
  NoPts = NoPts
  Silence = Silence
INVARIANTS TypeOK SamplesInPlace NoNeedlessSilence
PROPERTIES NoThrash ReadEnds
