CONSTANTS
  r1 = r1
  r2 = r2
  w1 = w1
  w2 = w2
  Requests <- TwoClients
  Cancellable <- TwoClients
  Warmup <- NoJobs
  MaxDepth = 2
SPECIFICATION Spec
INVARIANTS FinishedTicketsAreIgnored
