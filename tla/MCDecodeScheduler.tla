------------------------- MODULE MCDecodeScheduler -------------------------
(* Two streams, each of which enters its steps alone or in a wave with the *)
(* other, two queues and two executors.                                    *)
EXTENDS DecodeScheduler, TLC

CONSTANTS s1, s2, e1, e2, pred, joint

MCStreams   == {s1, s2}
MCExecutors == {e1, e2}
MCOps       == {pred, joint}
MCCohorts   == [c \in MCStreams |-> {0, 1}]
=============================================================================
