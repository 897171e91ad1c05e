----------------------------- MODULE TtsServer -----------------------------
(***************************************************************************)
(* POST /v1/audio/speech (server/http/http_server.cpp) in front of one     *)
(* MagpieTTS runtime, whose mutex lets one synthesis run at a time.  With  *)
(* tts.preempt a request first claims the synthesis from the coordinator:  *)
(* it waits until the active request has let go, and gives up when a newer *)
(* one has claimed meanwhile; the active one is stopped at its next audio, *)
(* which its callback refuses.                                             *)
(*                                                                         *)
(* Every request is a thread of the HTTP server.  The synthesis itself is  *)
(* that of CodecWorker.                                                    *)
(***************************************************************************)
EXTENDS CodecWorker, FiniteSets

CONSTANT Requests

VARIABLES
    phase,      \* of each request: "idle", "claim", "lock", "synth", "reply", "lease", "done"
    gen,        \* generation
    newest,     \* newest_generation_
    active,     \* active_
    sleepers,   \* the requests that sleep on ready_
    answer      \* of each request: "none", "audio", "refused" (409), "error" (500)

vars == <<workVars, phase, gen, newest, active, sleepers, answer>>
coordinator == <<newest, active, sleepers>>

TypeOK ==
    /\ phase \in [Requests -> {"idle", "claim", "lock", "synth", "reply", "lease", "done"}]
    /\ gen \in [Requests -> 0 .. newest]
    /\ newest \in 0 .. Cardinality(Requests)
    /\ active \in BOOLEAN
    /\ sleepers \subseteq Requests
    /\ answer \in [Requests -> {"none", "audio", "refused", "error"}]

Init ==
    /\ WorkInit
    /\ phase = [r \in Requests |-> "idle"]
    /\ gen = [r \in Requests |-> 0]
    /\ newest = 0 /\ active = FALSE /\ sleepers = {}
    /\ answer = [r \in Requests |-> "none"]

\* superseded()
Superseded(r) == gen[r] # newest

\* claim(), up to its wait.
Arrive(r) ==
    /\ phase[r] = "idle"
    /\ IF mode.preempt
       THEN /\ newest' = newest + 1
            /\ gen' = [gen EXCEPT ![r] = newest + 1]
            /\ sleepers' = {}
            /\ phase' = [phase EXCEPT ![r] = "claim"]
       ELSE /\ phase' = [phase EXCEPT ![r] = "lock"]
            /\ UNCHANGED <<newest, gen, sleepers>>
    /\ UNCHANGED <<workVars, active, answer>>

\* The wait: it ends when nobody is active or a newer request has come.
Claim(r) ==
    /\ phase[r] = "claim" /\ r \notin sleepers
    /\ \/ /\ active /\ gen[r] = newest
          /\ sleepers' = sleepers \cup {r}
          /\ UNCHANGED <<phase, active, answer>>
       \/ /\ gen[r] # newest
          /\ answer' = [answer EXCEPT ![r] = "refused"]
          /\ phase' = [phase EXCEPT ![r] = "done"]
          /\ UNCHANGED <<active, sleepers>>
       \/ /\ ~active /\ gen[r] = newest
          /\ active' = TRUE
          /\ phase' = [phase EXCEPT ![r] = "lock"]
          /\ UNCHANGED <<sleepers, answer>>
    /\ UNCHANGED <<workVars, gen, newest>>

\* synthesize_impl takes the mutex of the runtime.
Enter(r) ==
    /\ phase[r] = "lock" /\ \A q \in Requests : phase[q] # "synth"
    /\ Begin
    /\ phase' = [phase EXCEPT ![r] = "synth"]
    /\ UNCHANGED <<gen, coordinator, answer>>

\* A step of the producer; with the last one the mutex is free again.
Synthesize(r) ==
    /\ phase[r] = "synth"
    /\ Produce
    /\ phase' = IF producer' = "off" THEN [phase EXCEPT ![r] = "reply"] ELSE phase
    /\ answer' = IF producer' = "off" /\ ~(good /\ ~failed)
                 THEN [answer EXCEPT ![r] = "error"] ELSE answer
    /\ UNCHANGED <<gen, coordinator>>

\* A step of the worker, whose callback refuses the audio of a superseded request.
Deliver(r) ==
    /\ phase[r] = "synth"
    /\ Work(~(mode.preempt /\ Superseded(r)))
    /\ UNCHANGED <<phase, gen, coordinator, answer>>

\* Mutant of Held: a refused request keeps no lease to release.
HeldWhenNewest(r) == mode.preempt /\ ~Superseded(r)

Held(r) == mode.preempt

\* What the handler makes of the result.
Reply(r) ==
    /\ phase[r] = "reply"
    /\ answer' = [answer EXCEPT ![r] = IF mode.preempt /\ Superseded(r) THEN "refused"
                                       ELSE IF answer[r] = "error" THEN "error" ELSE "audio"]
    /\ phase' = [phase EXCEPT ![r] = IF Held(r) THEN "lease" ELSE "done"]
    /\ UNCHANGED <<workVars, gen, coordinator>>

\* The destructor of the lease.
Release(r) ==
    /\ phase[r] = "lease"
    /\ active' = FALSE /\ sleepers' = {}
    /\ phase' = [phase EXCEPT ![r] = "done"]
    /\ UNCHANGED <<workVars, gen, newest, answer>>

Handle(r) == Claim(r) \/ Enter(r) \/ Synthesize(r) \/ Reply(r) \/ Release(r)

Next == \E r \in Requests : Arrive(r) \/ Handle(r) \/ Deliver(r)

\* The threads run; clients owe nothing.
Spec ==
    /\ Init /\ [][Next]_vars
    /\ \A r \in Requests : WF_vars(Handle(r))
    /\ WF_vars(\E r \in Requests : Deliver(r))
------------------------------------------------------------------------------
(* While a request holds the lease, and only then, the coordinator says so; *)
(* two requests never synthesize at a time.                                 *)
Holders == {r \in Requests : phase[r] \in {"lock", "synth", "reply", "lease"}}

OneLease ==
    /\ mode.preempt => /\ active <=> Holders # {}
                       /\ \A q, r \in Holders : q = r
    /\ \A q, r \in Requests : phase[q] = "synth" /\ phase[r] = "synth" => q = r

(* A worker thread runs only within the synthesis that started it: the next *)
(* one finds codec and callback unused (every path out joins, magpietts.cpp).*)
WorkerJoined == worker # "end" => \E r \in Requests : phase[r] = "synth"

(* When a synthesis succeeds the callback has taken the audio of the frames *)
(* in their order, none twice and none left out in between, and nothing is  *)
(* held back any more.  With the flush of partial chunks it has taken all   *)
(* that were generated; without it the last ones may be missing, but less   *)
(* than a chunk, or what the look-ahead lacks.                              *)
SuccessIsWhole ==
    [][\A r \in Requests : phase[r] = "synth" /\ phase'[r] = "reply" /\ answer'[r] # "error" =>
          /\ pending = <<>>
          /\ \E kept \in 0 .. generated :
               /\ heard = Frames(0, kept)
               /\ mode.flush => kept = generated
               /\ generated - kept < Chunk \/ generated - kept <= mode.future]_vars

(* Every request is answered, whatever comes after it: no claim, producer   *)
(* or worker sleeps for ever.                                               *)
EveryRequestAnswered == \A r \in Requests : phase[r] # "idle" ~> phase[r] = "done"
==============================================================================
