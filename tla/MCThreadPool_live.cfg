CONSTANTS
  w1 = w1
  w2 = w2
  c1 = c1
  c2 = c2
  c3 = c3
  Workers = {w1, w2}
  Clients = {c1, c2, c3}
  Denied = {}
  QSize = 1
  NumListeners = 1
  Faults = {"pthread_create"}
SPECIFICATION FairSpec
INVARIANTS ContextOutlivesThreads NumThreadsAssert
PROPERTIES EveryConnectionServed StopReturnsOrMissed
