CONSTANTS
  EnvSize = 9
  MaxVars = 4
  Workers = {1}
  Scenarios <- EofScenarios
  Cap = 1
  BufSize = 2
  MaxFd = 6
  Faults = {}
SPECIFICATION FairSpec
CHECK_DEADLOCK FALSE
PROPERTY ChildGetsEof
