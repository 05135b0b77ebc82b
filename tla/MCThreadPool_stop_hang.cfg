CONSTANTS
  w1 = w1
  w2 = w2
  c1 = c1
  Workers = {w1, w2}
  Clients = {c1}
  Denied = {}
  QSize = 1
  NumListeners = 1
  Faults = {}
SPECIFICATION EndingSpec
PROPERTIES StopReturns
