---- MODULE MCTtsServer ----
(* Small instances of TtsServer: a few settings of the codec, and frames    *)
(* enough to fill the queue and leave a partial chunk.                      *)
EXTENDS TtsServer

CONSTANTS r1, r2, r3

Stateful ==
    [stateful |-> TRUE, history |-> 0, future |-> 0, window |-> TRUE, flush |-> TRUE,
     exclusive |-> FALSE, preempt |-> FALSE]

\* The defaults; neither window nor flush, an exclusive decoder and preemption; the rolling
\* codec that looks far ahead; the rolling codec without flush, with preemption.
AllModes == {
    Stateful,
    [Stateful EXCEPT !.window = FALSE, !.flush = FALSE, !.exclusive = TRUE,
                     !.preempt = TRUE],
    [Stateful EXCEPT !.stateful = FALSE, !.future = 2, !.exclusive = TRUE],
    [Stateful EXCEPT !.stateful = FALSE, !.history = 1, !.future = 1, !.window = FALSE,
                     !.flush = FALSE, !.preempt = TRUE] }
====
