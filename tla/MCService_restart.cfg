SPECIFICATION Spec
CONSTANTS
  Pids <- MCPids
  Scripts <- MCScripts
  Scenarios <- MCScenarios
INVARIANTS
  PidLatest OneWins StartFailsCleanly FollowsIntent
PROPERTY StopEnds
