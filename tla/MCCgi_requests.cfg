CONSTANTS
  EnvSize = 9
  MaxVars = 4
  Workers = {1, 2}
  Scenarios <- MCScenarios
  Cap = 1
  BufSize = 2
  MaxFd = 6
  Faults = {"fork", "fdopen", "client", "stop"}
SPECIFICATION FairSpec
CHECK_DEADLOCK FALSE
INVARIANTS EnvAsserts OwnDescriptors NothingLeaks AnsweredOnce
PROPERTY PoliteEnds
