CONSTANTS
  s1 = s1
  s2 = s2
  e1 = e1
  e2 = e2
  pred = pred
  joint = joint
  Streams <- MCStreams
  Executors <- MCExecutors
  Ops <- MCOps
  Cohorts <- MCCohorts
  MaxBatch = 2
  MaxDepth = 2
SPECIFICATION Spec
INVARIANTS JobsAccounted NobodySleepsOnWork
PROPERTIES EveryCallAnswered ShutdownEnds ImplementsService
