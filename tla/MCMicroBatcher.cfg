CONSTANTS
  c1 = c1
  c2 = c2
  c3 = c3
  x1 = x1
  x2 = x2
  ka = ka
  kb = kb
  Callers <- MCCallers
  Closers <- MCClosers
  Keys <- MCKeys
  Args <- MCArgs
  MaxBatch = 2
  MaxDepth = 2
  Epochs = 1
SPECIFICATION Spec
INVARIANTS NoLostCall QuiescentAfterShutdown
PROPERTIES ImplementsService FullCohortLaunches ShutdownEnds EveryCallAnswered
