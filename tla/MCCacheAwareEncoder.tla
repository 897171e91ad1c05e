------------------------ MODULE MCCacheAwareEncoder ------------------------
(* Three streams compete for two rows; chunks are encoded inline (a cohort *)
(* hint of 1, or no worker) and batched (no hint).                         *)
EXTENDS CacheAwareEncoder, TLC

CONSTANTS s1, s2, s3

MCCallers == {s1, s2, s3}
MCKeys    == {First, Next_}
MCArgs    == [c \in MCCallers |-> MCKeys \X {0, 1}]
MCNone    == {}
Symmetric == Permutations(MCCallers)
=============================================================================
