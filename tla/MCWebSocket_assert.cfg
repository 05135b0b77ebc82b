CONSTANTS
  Sessions <- MCSessions
  Room = 14
  MemSize = 3
  CloseLen = 2
  MaxShort = 2
  Radix = 4
  ContentLens = {0}
  Failures <- AnyFailures
SPECIFICATION Spec
INVARIANT AssertionsHold
