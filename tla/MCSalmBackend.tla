---------------------------- MODULE MCSalmBackend ----------------------------
(* One client that can go away beside a warm-up of two jobs, which fill    *)
(* the queue; or two clients that can go away.                             *)
EXTENDS SalmBackend, TLC

CONSTANTS r1, r2, w1, w2

OneClient     == {r1}
TwoClients    == {r1, r2}
ClientAndJobs == {r1, w1, w2}
TwoJobs       == {w1, w2}
NoJobs        == {}
=============================================================================
