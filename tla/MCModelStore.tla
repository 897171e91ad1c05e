---------------------------- MODULE MCModelStore ----------------------------
(* Two processes and two releases that pin different revisions, both kinds *)
(* of artifact, chunks enough to be interrupted in the middle.             *)
EXTENDS ModelStore
=============================================================================
