CONSTANTS
  Sessions <- MCSessions
  Room = 14
  MemSize = 3
  CloseLen = 2
  MaxShort = 2
  Radix = 4
  ContentLens <- AnyLength
  Failures <- AnyFailures
SPECIFICATION FairSpec
INVARIANTS FramesInOrder ReplyInStep AbortCauses
PROPERTY FramesDelivered
