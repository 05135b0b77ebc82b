CONSTANTS
  Streams <- MCStreams
  BufSize = 4
  ReadSizes <- MCReadSizes
  FwdSize = 2
  StaleLens <- MCStaleLens
SPECIFICATION FairSpec
INVARIANTS BufferSound InOrder 
PROPERTY ConnectionEnds
