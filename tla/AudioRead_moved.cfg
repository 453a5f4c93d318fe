SPECIFICATION Spec
CONSTANTS
  a = a
  b = b
  Cap = 2
  Handles = {a}
  Files <- ShortEnd
  Second = 3
  Reach <- Anywhere
  Sizes = {1, 3}
  NoPts = NoPts
  Silence = Silence
INVARIANT SamplesInPlace
