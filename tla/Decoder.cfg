SPECIFICATION FairSpec
CONSTANTS
  d1 = d1
  d2 = d2
  d3 = d3
  Codecs = {d1, d2, d3}
  Default = d3
  None = None
  Packets = 6
  Files <- SomeFiles
  Lists <- SomeLists
  MaxDelay = 2
INVARIANT TypeOK
PROPERTIES FrameSourceSpec CallsReturn
