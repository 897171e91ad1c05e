----------------------------- MODULE MCStreaming -----------------------------
(***************************************************************************)
(* Streaming recognition in two views, as a behaviour is one or the other. *)
(*                                                                         *)
(* "waves": four streams that arrive at the ingress coordinator, in waves  *)
(* of at most three: a wave may be oversubscribed, short, formed with a    *)
(* stale count, and may overlap the next one.                              *)
(*                                                                         *)
(* "audio": one stream with the audio it is given, from the first push to  *)
(* the last final.                                                         *)
(*                                                                         *)
(* A stream shares nothing with the coordinator but its arrival, and what  *)
(* it decodes does not depend on its wave, so that their product would     *)
(* show nothing more.                                                      *)
(***************************************************************************)
EXTENDS IngressBatchCoordinator, StreamRunner

CONSTANTS p1, p2, p3, p4

VARIABLE view

MCParticipants == {p1, p2, p3, p4}
Symmetric      == Permutations(MCParticipants)

MCInit ==
  \/ view = "waves" /\ Init /\ StreamInit /\ voice = {}
     /\ cfg = [head |-> "ctc", right |-> 0, signal |-> "off"]
  \/ view = "audio" /\ Init /\ StreamInit /\ config = "disabled"

MCNext ==
  /\ UNCHANGED view
  /\ \/ view = "waves" /\ Next /\ UNCHANGED streamVars
     \/ view = "audio" /\ StreamNext /\ UNCHANGED vars

MCSpec == MCInit /\ [][MCNext]_<<view, vars, streamVars>>
=============================================================================
