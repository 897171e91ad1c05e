CONSTANTS
  r1 = r1
  r2 = r2
  w1 = w1
  w2 = w2
  Requests <- ClientAndJobs
  Cancellable <- OneClient
  Warmup <- TwoJobs
  MaxDepth = 2
SPECIFICATION Spec
INVARIANTS EveryRequestHeld CancelledOnRequest
PROPERTIES EveryRequestAnswered ShutdownEnds ImplementsService
