--------------------------- MODULE MCMicroBatcher ---------------------------
(* Two keys, a queue that fills up, hints below, at and above the physical *)
(* maximum, and two threads that race to shut the batcher down.            *)
EXTENDS MicroBatcher, TLC

CONSTANTS c1, c2, c3, x1, x2, ka, kb

MCCallers == {c1, c2, c3}
MCClosers == {x1, x2}
MCKeys    == {ka, kb}
MCArgs    == (c1 :> {<<ka, 0>>, <<ka, 1>>}) @@ (c2 :> {<<ka, 3>>, <<kb, 0>>})
             @@ (c3 :> {<<kb, 0>>, <<ka, 0>>})
=============================================================================
