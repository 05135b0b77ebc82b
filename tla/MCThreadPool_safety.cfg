CONSTANTS
  w1 = w1
  w2 = w2
  c1 = c1
  c2 = c2
  c3 = c3
  c4 = c4
  Workers = {w1, w2}
  Clients = {c1, c2, c3, c4}
  Denied = {c4}
  QSize = 2
  NumListeners = 1
  Faults = {"accept", "calloc", "pthread_create"}
SPECIFICATION Spec
SYMMETRY Symmetry
INVARIANTS TypeOK RingBounds OneOwner NoLostSocket
PROPERTY ImplementsQueue
