---------------------------- MODULE MCVoiceChat ----------------------------
(* Two sessions, one of which uses tools, and a pipeline of one stream: a  *)
(* creation meets a teardown at every resource. A request, its timeout, an *)
(* acknowledgement and a response each take more than one chunk.           *)
EXTENDS VoiceChat

CONSTANTS a, b

MCSessions   == {a, b}
MCTools      == {a}
MCPredictors == {Eou, Display}
=============================================================================
