SPECIFICATION Spec
CONSTANTS
  w1 = w1
  w2 = w2
  e1 = e1
  e2 = e2
  Workers = {w1, w2}
  Editors = {e1, e2}
  Index <- MCIndex
  Paths <- MCPaths
  Scenarios <- TwoEdits
  Crashes = 0
INVARIANTS EditsMade
