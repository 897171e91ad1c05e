----------------------------- MODULE VoiceChat -----------------------------
(***************************************************************************)
(* Full-duplex voicechat: the websocket sessions of                        *)
(* server/http/s2s_realtime.cpp over the streams of src/src/s2s/           *)
(* pipeline.cpp.  Each session is a server thread that reads messages,     *)
(* creates a stream (its place among max_streams, a TTS pair, two          *)
(* predictor rows, an LLM sequence), feeds it chunks and tears it down.    *)
(* While a tool call is extracted or its response injected, a thread of    *)
(* the stream runs ahead of the audio and the session answers silence.     *)
(*                                                                         *)
(* A chunk is a few model steps. Of the step budget only its end matters,  *)
(* of a tool call the state machine of its stream: the text of a request   *)
(* is left out but for whether it can be parsed, and the tokens of an      *)
(* acknowledgement or a response are counted.                              *)
(*                                                                         *)
(* Left out: audio, text and turn taking; a prompt that is empty; the      *)
(* cancellation by barge-in, which needs a step of the chunk loop while a  *)
(* flag is set that closes its gate; an LLM call that throws in the        *)
(* stream's own thread, which ends the process.                            *)
(***************************************************************************)
EXTENDS DecoderArena, Sequences, SequencesExt

CONSTANTS MaxStreams,      \* cfg_.max_streams
          ToolUsers,       \* the sessions that configure tools
          MaxPending,      \* realtime_s2s_max_pending_function_responses
          StepsPerCall,    \* cfg_.steps_per_call
          FnTimeout,       \* cfg_.fn_call_timeout_frames
          MaxToolTokens,   \* cfg_.max_tool_tokens
          AckLen, ResponseLen   \* tokens of an acknowledgement and of a framed response

Sessions == Threads
Display == "display"
Eou == "eou"

ASSUME VoiceChatAssumption ==
    /\ IsFiniteSet(Sessions)
    /\ MaxStreams \in Nat \ {0} /\ ArenaSlots = 2 * MaxStreams
    /\ Predictors = {Eou, Display}
    /\ ToolUsers \subseteq Sessions
    /\ {StepsPerCall, MaxToolTokens} \subseteq Nat \ {0}
    /\ {AckLen, ResponseLen, FnTimeout} \subseteq {n \in Nat : n > StepsPerCall}
    /\ MaxPending \in Nat

VARIABLES
    pc,         \* where the session's thread is
    plan,       \* why it ends a stream: "serve" (it does not), "renew", "finish"
    heard,      \* chunks_received_ # 0
    outputs,    \* the size of function_responses_
    given,      \* the chunk under way carries a function response
    toks,       \* the function tokens of its steps
    active,     \* active_streams_
    pair,       \* the sessions that hold a TTS pair
    seq,        \* the sessions with an LLM sequence
    told,       \* the sessions whose client has read session.end
    call,       \* the tool call of each stream: fn_state and what goes with it
    extracting, injecting, cancelled,   \* the flags shared with the stream's thread
    fast,       \* that thread: "none", "extract", "inject", "sync", "done" (to be joined)
    iter,       \* its iteration
    exhausted   \* steps_exhausted

sessionVars == <<pc, plan, heard, outputs, given, toks, told>>
poolVars    == <<active, pair, seq>>
flagVars    == <<extracting, injecting, cancelled>>
streamVars  == <<call, flagVars, fast, iter, exhausted>>
vars == <<arenaVars, sessionVars, poolVars, streamVars>>
-----------------------------------------------------------------------------
(* The tool call of a stream.                                              *)

\* reset_fn_call_state
NoCall == [state |-> "Idle", frames |-> 0, pending |-> FALSE, acks |-> 0, resp |-> 0,
           takenEarly |-> FALSE]   \* history: see TakeResponse

\* A complete request: it is acknowledged first when its tool has messages.
Complete(k, acked) ==
    IF acked THEN [k EXCEPT !.state = "SpeakingAck", !.acks = AckLen]
             ELSE [k EXCEPT !.state = "WaitingForResponse"]

\* A chunk takes in the function response that goes with it: takenEarly records
\* that no complete request was there. When the client sent it nobody looks at;
\* it may have been queued for longer than this request exists.
TakeResponse(k) ==
    LET stored == [k EXCEPT !.resp = ResponseLen,
                            !.takenEarly = k.state \in {"Idle", "WaitingForRequest"}]
    IN IF k.state = "WaitingForResponse"
       THEN [stored EXCEPT !.state = "ProcessResponse", !.frames = 0]
       ELSE stored

\* What a step of the LLM does to the call: it speaks a token of the
\* acknowledgement or feeds one of the response.
ModelStep(k) ==
    CASE k.state = "SpeakingAck" /\ k.acks > 1 -> [k EXCEPT !.acks = @ - 1]
      [] k.state = "SpeakingAck" /\ k.acks <= 1 ->
           [k EXCEPT !.acks = 0, !.frames = 0,
                     !.state = IF k.resp = 0 THEN "WaitingForResponse" ELSE "ProcessResponse"]
      [] k.state = "ProcessResponse" -> IF k.resp <= 1 THEN NoCall ELSE [k EXCEPT !.resp = @ - 1]
      [] OTHER -> k

\* The function token of a step, if the model may choose it.
Tokens(s) ==
    IF s \notin ToolUsers \/ (call[s].state = "ProcessResponse" /\ call[s].resp > 0)
    THEN {"pad"} ELSE {"pad", "sotc", "eotc"}

\* Mutant of ReadToken: a request begins on top of what is left of the last.
ReadTokenKeeps(k, tok, valid) ==
    CASE tok = "sotc" /\ k.state = "Idle" -> [k EXCEPT !.state = "WaitingForRequest"]
      [] tok = "eotc" /\ k.state = "WaitingForRequest" ->
           IF valid THEN [k EXCEPT !.state = "RequestReceived", !.frames = 0] ELSE NoCall
      [] OTHER -> k

ReadToken(k, tok, valid) ==
    CASE tok = "sotc" /\ k.state = "Idle" -> [NoCall EXCEPT !.state = "WaitingForRequest"]
      [] tok = "eotc" /\ k.state = "WaitingForRequest" ->
           IF valid THEN [k EXCEPT !.state = "RequestReceived", !.frames = 0] ELSE NoCall
      [] OTHER -> k

\* Mutant of Waited: only a request that is not complete is timed.
WaitedRequest(k, n) == IF k.state = "WaitingForRequest" THEN [k EXCEPT !.frames = @ + n] ELSE k

\* The frames of the chunk count while the call waits.
Waited(k, n) ==
    IF k.state \in {"WaitingForRequest", "WaitingForResponse"}
    THEN [k EXCEPT !.frames = @ + n] ELSE k

TimesOut(k) == k.state \in {"WaitingForRequest", "WaitingForResponse"} /\ k.frames >= FnTimeout

\* parse_function_tokens
Parse(k, ts, valid, acked) ==
    LET waited == Waited(k, Len(ts))
        read[i \in 0..Len(ts)] ==
            IF i = 0 THEN waited ELSE ReadToken(read[i - 1], ts[i], valid)
        last == read[Len(ts)]
    IN IF TimesOut(waited) THEN NoCall
       ELSE IF last.state = "RequestReceived" THEN Complete(last, acked) ELSE last
-----------------------------------------------------------------------------
(* The session: connection, messages, end.                                 *)

At(s, l)   == pc[s] = l
Goto(s, l) == pc' = [pc EXCEPT ![s] = l]
HasStream(s) == s \in pair

Init ==
    /\ ArenaInit
    /\ pc = [s \in Sessions |-> "out"] /\ plan = [s \in Sessions |-> "serve"]
    /\ heard = [s \in Sessions |-> FALSE]
    /\ outputs = [s \in Sessions |-> 0] /\ given = [s \in Sessions |-> FALSE]
    /\ toks = [s \in Sessions |-> <<>>] /\ told = Sessions
    /\ active = 0 /\ pair = {} /\ seq = {}
    /\ call = [s \in Sessions |-> NoCall]
    /\ extracting = [s \in Sessions |-> FALSE] /\ injecting = [s \in Sessions |-> FALSE]
    /\ cancelled = [s \in Sessions |-> FALSE]
    /\ fast = [s \in Sessions |-> "none"] /\ iter = [s \in Sessions |-> 0]
    /\ exhausted = [s \in Sessions |-> FALSE]

Connect(s) ==
    /\ At(s, "out") /\ Goto(s, "reading")
    /\ told' = told \ {s}
    /\ UNCHANGED <<arenaVars, poolVars, streamVars, plan, heard, outputs, given, toks>>

\* session.update, before the first audio: a new prompt needs a new stream.
Update(s) ==
    /\ At(s, "reading") /\ ~heard[s]
    /\ IF HasStream(s)
       THEN Goto(s, "end") /\ plan' = [plan EXCEPT ![s] = "renew"]
       ELSE Goto(s, "admit") /\ UNCHANGED plan
    /\ UNCHANGED <<arenaVars, poolVars, streamVars, heard, outputs, given, toks, told>>

\* conversation.item.create; one more than the limit is answered with an error.
FunctionOutput(s) ==
    /\ At(s, "reading") /\ s \in ToolUsers /\ outputs[s] < MaxPending
    /\ outputs' = [outputs EXCEPT ![s] = @ + 1]
    /\ UNCHANGED <<arenaVars, poolVars, streamVars, pc, plan, heard, given, toks, told>>

\* input_audio_buffer.append with the audio of a chunk.
Audio(s) ==
    /\ At(s, "reading")
    /\ Goto(s, IF HasStream(s) THEN "check" ELSE "admit")
    /\ heard' = [heard EXCEPT ![s] = TRUE]
    /\ UNCHANGED <<arenaVars, poolVars, streamVars, plan, outputs, given, toks, told>>

\* session.close, or a client that is gone or over its limits.
Close(s) ==
    /\ At(s, "reading")
    /\ IF HasStream(s) THEN Goto(s, "finish") \/ Goto(s, "end") ELSE Goto(s, "bye")
    /\ plan' = [plan EXCEPT ![s] = "finish"]
    /\ UNCHANGED <<arenaVars, poolVars, streamVars, heard, outputs, given, toks, told>>

\* send_session_end; the session is over.
Farewell(s) ==
    /\ At(s, "bye") /\ Goto(s, "out")
    /\ told' = told \cup {s}
    /\ plan' = [plan EXCEPT ![s] = "serve"]
    /\ heard' = [heard EXCEPT ![s] = FALSE]
    /\ outputs' = [outputs EXCEPT ![s] = 0]
    /\ UNCHANGED <<arenaVars, poolVars, streamVars, given, toks>>
-----------------------------------------------------------------------------
(* create_stream and prefill_system_prompt.                                *)

Over(s) == Goto(s, "bye") /\ plan' = [plan EXCEPT ![s] = "finish"]

\* active_streams_ is raised unless it is at its limit.
Admit(s) ==
    /\ At(s, "admit") /\ active < MaxStreams
    /\ active' = active + 1
    /\ Goto(s, "pair")
    /\ plan' = [plan EXCEPT ![s] = "serve"]
    /\ UNCHANGED <<arenaVars, streamVars, heard, outputs, given, toks, told, pair, seq>>

\* "maximum concurrent streams reached"
RefuseStream(s) ==
    /\ At(s, "admit") /\ active >= MaxStreams /\ Over(s)
    /\ UNCHANGED <<arenaVars, poolVars, streamVars, heard, outputs, given, toks, told>>

AllocatePair(s) ==
    /\ At(s, "pair") /\ Cardinality(pair) < MaxStreams
    /\ pair' = pair \cup {s}
    /\ Goto(s, "eou")
    /\ UNCHANGED <<arenaVars, streamVars, plan, heard, outputs, given, toks, told, active, seq>>

\* "no free seq slots for cond+uncond pair"
RefusePair(s) ==
    /\ At(s, "pair") /\ Cardinality(pair) >= MaxStreams /\ Over(s)
    /\ active' = active - 1
    /\ UNCHANGED <<arenaVars, streamVars, heard, outputs, given, toks, told, pair, seq>>

\* The rows of the two predictors, then that of a display that starts anew.
Wanted(s) == CASE At(s, "eou") -> Eou [] OTHER -> Display
WantsRow(s) == pc[s] \in {"eou", "display", "show"}

GetRow(s) ==
    /\ WantsRow(s) /\ Acquire(s, Wanted(s))
    /\ Goto(s, CASE At(s, "eou") -> "display"
                 [] At(s, "display") -> "prefill"
                 [] OTHER -> IF plan[s] = "serve" THEN "steps" ELSE "end")
    /\ UNCHANGED <<poolVars, streamVars, plan, heard, outputs, given, toks, told>>

WaitForRow(s) ==
    /\ WantsRow(s) /\ FallAsleep(s)
    /\ UNCHANGED <<sessionVars, poolVars, streamVars>>

RowTimer(s) ==
    /\ WantsRow(s) /\ Ring(s)
    /\ UNCHANGED <<sessionVars, poolVars, streamVars>>

RefuseRow(s) ==
    /\ WantsRow(s) /\ GiveUp(s)
    /\ plan' = [plan EXCEPT ![s] = "finish"]
    /\ Goto(s, IF At(s, "show") THEN "end" ELSE "unwind")
    /\ toks' = [toks EXCEPT ![s] = <<>>]
    /\ UNCHANGED <<poolVars, streamVars, heard, outputs, given, told>>

\* The handler of create_stream: first the pair, then the count. The rows go
\* when the stream dies.
Unwind(s) ==
    /\ \/ /\ At(s, "unwind") /\ Goto(s, "unwound")
          /\ pair' = pair \ {s}
          /\ UNCHANGED active
       \/ /\ At(s, "unwound") /\ Goto(s, "drop")
          /\ active' = active - 1
          /\ UNCHANGED pair
    /\ UNCHANGED <<arenaVars, streamVars, plan, heard, outputs, given, toks, told, seq>>

\* The sequence is mapped before the prompt is decoded, which may fail; it
\* throws too when no sequence is free.
Prefill(s) ==
    /\ At(s, "prefill")
    /\ \/ Cardinality(seq) < MaxStreams /\ UNCHANGED plan
          /\ Goto(s, IF heard[s] THEN "check" ELSE "reading")
       \/ Goto(s, "end") /\ plan' = [plan EXCEPT ![s] = "finish"]
    /\ seq' = IF Cardinality(seq) < MaxStreams THEN seq \cup {s} ELSE seq
    /\ UNCHANGED <<arenaVars, streamVars, heard, outputs, given, toks, told, active, pair>>
-----------------------------------------------------------------------------
(* process_step and process_chunk.                                         *)

\* A queued response goes with the chunk. An exhausted stream throws.
Check(s) ==
    /\ At(s, "check")
    /\ outputs' = [outputs EXCEPT ![s] = IF @ > 0 THEN @ - 1 ELSE 0]
    /\ IF exhausted[s]
       THEN Goto(s, "end") /\ plan' = [plan EXCEPT ![s] = "finish"] /\ UNCHANGED given
       ELSE Goto(s, "gate") /\ given' = [given EXCEPT ![s] = outputs[s] > 0] /\ UNCHANGED plan
    /\ UNCHANGED <<arenaVars, poolVars, streamVars, heard, toks, told>>

\* Mutant of Gated: an injection is not waited for.
GatedExtracting(s) == extracting[s]

Gated(s) == extracting[s] \/ injecting[s]

\* While the stream's thread is at work the chunk is dropped, and its response.
Gate(s) ==
    /\ At(s, "gate")
    /\ IF Gated(s) THEN Goto(s, "reading") /\ given' = [given EXCEPT ![s] = FALSE]
                   ELSE Goto(s, "intake") /\ UNCHANGED given
    /\ UNCHANGED <<arenaVars, poolVars, streamVars, plan, heard, outputs, toks, told>>

\* A thread that has finished is joined, unless the call is over.
Intake(s) ==
    /\ At(s, "intake")
    /\ IF call[s].state # "Idle"
       THEN fast[s] \in {"none", "done"} /\ fast' = [fast EXCEPT ![s] = "none"]
       ELSE UNCHANGED fast
    /\ call' = [call EXCEPT ![s] = IF given[s] THEN TakeResponse(@) ELSE @]
    /\ given' = [given EXCEPT ![s] = FALSE]
    /\ Goto(s, "steps")
    /\ UNCHANGED <<arenaVars, poolVars, plan, heard, outputs, toks, told, flagVars, iter, exhausted>>

StepsDone(s) == exhausted[s] \/ Len(toks[s]) = StepsPerCall

\* One step: the LLM, then both predictors. It may be the last of the budget,
\* and the display may start anew on another row.
Step(s) ==
    /\ At(s, "steps") /\ ~StepsDone(s)
    /\ \E tok \in Tokens(s) : toks' = [toks EXCEPT ![s] = Append(@, tok)]
    /\ call' = [call EXCEPT ![s] = ModelStep(@)]
    /\ Predict(s, Predictors)
    /\ exhausted' \in {exhausted, [exhausted EXCEPT ![s] = TRUE]}
    /\ Goto(s, "steps") \/ Goto(s, "hide")
    /\ UNCHANGED <<poolVars, plan, heard, outputs, given, told, flagVars, fast, iter>>

\* The LLM or a predictor throws: the session ends.
StepFails(s) ==
    /\ At(s, "steps") /\ ~StepsDone(s)
    /\ \E ps \in SUBSET Predictors : Predict(s, ps)
    /\ Goto(s, "end") /\ plan' = [plan EXCEPT ![s] = "finish"]
    /\ toks' = [toks EXCEPT ![s] = <<>>]
    /\ UNCHANGED <<poolVars, streamVars, heard, outputs, given, told>>

\* decode_outputs, which also publishes the request of an extraction.
Decode(s) ==
    /\ At(s, "steps") /\ StepsDone(s)
    /\ \E valid, acked \in BOOLEAN :
         call' = [call EXCEPT ![s] = [Parse(@, toks[s], valid, acked) EXCEPT !.pending = FALSE]]
    /\ toks' = [toks EXCEPT ![s] = <<>>]
    /\ Goto(s, "start")
    /\ UNCHANGED <<arenaVars, poolVars, plan, heard, outputs, given, told, flagVars, fast, iter,
                   exhausted>>

\* maybe_start_fast_paths, which joins the thread before.
Start(s) ==
    /\ At(s, "start") /\ Goto(s, "reading")
    /\ LET extract == ~exhausted[s] /\ call[s].state = "WaitingForRequest" /\ ~extracting[s]
           inject  == /\ ~exhausted[s] /\ call[s].state = "ProcessResponse"
                      /\ call[s].resp > 0 /\ ~injecting[s]
       IN /\ extracting' = [extracting EXCEPT ![s] = @ \/ extract]
          /\ injecting' = [injecting EXCEPT ![s] = @ \/ inject]
          /\ IF extract \/ inject
             THEN /\ fast[s] \in {"none", "done"}
                  /\ fast' = [fast EXCEPT ![s] = IF extract THEN "extract" ELSE "inject"]
                  /\ cancelled' = [cancelled EXCEPT ![s] = FALSE]
             ELSE UNCHANGED <<fast, cancelled>>
    /\ UNCHANGED <<arenaVars, poolVars, plan, heard, outputs, given, toks, told, call, iter,
                   exhausted>>

\* reset_rnnt_display gives its row back, then asks for one.
Hide(s) ==
    /\ \/ At(s, "hide") /\ Release(s, Display) /\ Goto(s, "hidden")
       \/ At(s, "hidden") /\ NotifyOne /\ Goto(s, "show")
    /\ UNCHANGED <<poolVars, streamVars, plan, heard, outputs, given, toks, told>>
-----------------------------------------------------------------------------
(* The stream's own thread.                                                *)

\* fast_extract_tool_tokens: one iteration.
Extract(s) ==
    /\ fast[s] = "extract"
    /\ \/ /\ cancelled[s]
          /\ fast' = [fast EXCEPT ![s] = "sync"]
          /\ UNCHANGED <<call, iter, exhausted>>
       \/ /\ ~cancelled[s]   \* the budget is spent
          /\ exhausted' = [exhausted EXCEPT ![s] = TRUE]
          /\ call' = [call EXCEPT ![s] = NoCall]
          /\ fast' = [fast EXCEPT ![s] = "sync"]
          /\ UNCHANGED iter
       \/ /\ ~cancelled[s]   \* the end of the request
          /\ \/ \E acked \in BOOLEAN :
                  call' = [call EXCEPT ![s] = [Complete(@, acked) EXCEPT !.pending = TRUE]]
             \/ call' = [call EXCEPT ![s] = NoCall]
          /\ fast' = [fast EXCEPT ![s] = "sync"]
          /\ UNCHANGED <<iter, exhausted>>
       \/ /\ ~cancelled[s]   \* another token of it
          /\ iter' = [iter EXCEPT ![s] = @ + 1]
          /\ IF iter[s] = MaxToolTokens - 1
             THEN /\ call' = [call EXCEPT ![s] = NoCall]
                  /\ fast' = [fast EXCEPT ![s] = "sync"]
             ELSE UNCHANGED <<call, fast>>
          /\ UNCHANGED exhausted
    /\ UNCHANGED <<arenaVars, sessionVars, poolVars, flagVars>>

\* fast_inject_response_tokens: one iteration.
Inject(s) ==
    /\ fast[s] = "inject"
    /\ \/ /\ call[s].state # "ProcessResponse"
          /\ fast' = [fast EXCEPT ![s] = "sync"]
          /\ UNCHANGED <<call, exhausted>>
       \/ /\ call[s].state = "ProcessResponse"
          /\ \/ ~cancelled[s] /\ UNCHANGED call
             \/ cancelled[s] /\ call' = [call EXCEPT ![s] = NoCall]
          /\ exhausted' \in IF cancelled[s] THEN {exhausted}
                            ELSE {[exhausted EXCEPT ![s] = TRUE]}
          /\ fast' = [fast EXCEPT ![s] = "sync"]
       \/ /\ call[s].state = "ProcessResponse" /\ ~cancelled[s]
          /\ call' = [call EXCEPT ![s] = ModelStep(@)]
          /\ UNCHANGED <<fast, exhausted>>
    /\ UNCHANGED <<arenaVars, sessionVars, poolVars, flagVars, iter>>

\* The audio is padded to the step that was reached; the flag goes down last.
Sync(s) ==
    /\ fast[s] = "sync"
    /\ extracting' = [extracting EXCEPT ![s] = FALSE]
    /\ injecting' = [injecting EXCEPT ![s] = FALSE]
    /\ fast' = [fast EXCEPT ![s] = "done"]
    /\ iter' = [iter EXCEPT ![s] = 0]
    /\ UNCHANGED <<arenaVars, sessionVars, poolVars, call, cancelled, exhausted>>
-----------------------------------------------------------------------------
(* finish_stream, end_stream and the end of the stream object.             *)

Stopped(s) == fast[s] \in {"none", "done"}

\* finish_stream stops and joins the thread, then publishes the transcript,
\* whose display may start anew.
Finish(s) ==
    /\ \/ /\ At(s, "finish") /\ Goto(s, "joinFinish")
          /\ cancelled' = [cancelled EXCEPT ![s] = TRUE]
          /\ UNCHANGED fast
       \/ /\ At(s, "joinFinish") /\ Stopped(s)
          /\ Goto(s, "end") \/ Goto(s, "hide")
          /\ fast' = [fast EXCEPT ![s] = "none"]
          /\ UNCHANGED cancelled
    /\ UNCHANGED <<arenaVars, poolVars, plan, heard, outputs, given, toks, told, call,
                   extracting, injecting, iter, exhausted>>

\* Mutant of End: the client is told before anything is released.
EndTold(s) ==
    /\ \/ /\ At(s, "end") /\ Goto(s, "join")
          /\ active' = active - 1
          /\ told' = told \cup {s}
          /\ cancelled' = [cancelled EXCEPT ![s] = TRUE]
          /\ UNCHANGED fast
       \/ /\ At(s, "join") /\ Stopped(s) /\ Goto(s, "cleanup")
          /\ fast' = [fast EXCEPT ![s] = "none"]
          /\ UNCHANGED <<active, told, cancelled>>
    /\ UNCHANGED <<arenaVars, plan, heard, outputs, given, toks, pair, seq, call,
                   extracting, injecting, iter, exhausted>>

\* end_stream up to its join: its place is free before anything else is.
End(s) ==
    /\ \/ /\ At(s, "end") /\ Goto(s, "join")
          /\ active' = active - 1
          /\ cancelled' = [cancelled EXCEPT ![s] = TRUE]
          /\ UNCHANGED fast
       \/ /\ At(s, "join") /\ Stopped(s) /\ Goto(s, "cleanup")
          /\ fast' = [fast EXCEPT ![s] = "none"]
          /\ UNCHANGED <<active, cancelled>>
    /\ UNCHANGED <<arenaVars, plan, heard, outputs, given, toks, told, pair, seq, call,
                   extracting, injecting, iter, exhausted>>

\* The sequence, the pair, then the stream itself.
Cleanup(s) ==
    /\ \/ /\ At(s, "cleanup") /\ Goto(s, "free")
          /\ seq' = seq \ {s}
          /\ UNCHANGED <<pair, call, exhausted, cancelled>>
       \/ /\ At(s, "free") /\ Goto(s, "drop")
          /\ pair' = pair \ {s}
          /\ call' = [call EXCEPT ![s] = NoCall]
          /\ exhausted' = [exhausted EXCEPT ![s] = FALSE]
          /\ cancelled' = [cancelled EXCEPT ![s] = FALSE]
          /\ UNCHANGED seq
    /\ UNCHANGED <<arenaVars, plan, heard, outputs, given, toks, told, active,
                   extracting, injecting, fast, iter>>

\* The stream's states are destroyed, the last first: a row each.
Drop(s) ==
    /\ \/ /\ At(s, "drop") /\ slot[s][Display] # NoRow
          /\ Release(s, Display) /\ Goto(s, "dropped")
       \/ /\ At(s, "drop") /\ slot[s][Display] = NoRow
          /\ Release(s, Eou) /\ Goto(s, "dropped")
       \/ /\ At(s, "dropped") /\ NotifyOne /\ Goto(s, "drop")
       \/ /\ At(s, "drop") /\ Held(s) = {}
          /\ Goto(s, IF plan[s] = "renew" THEN "admit" ELSE "bye")
          /\ UNCHANGED arenaVars
    /\ UNCHANGED <<poolVars, streamVars, plan, heard, outputs, given, toks, told>>
-----------------------------------------------------------------------------
Thread(s) ==
    \/ Farewell(s) \/ Admit(s) \/ RefuseStream(s) \/ AllocatePair(s) \/ RefusePair(s)
    \/ GetRow(s) \/ WaitForRow(s) \/ RefuseRow(s) \/ Unwind(s) \/ Prefill(s)
    \/ Check(s) \/ Gate(s) \/ Intake(s) \/ Step(s) \/ StepFails(s) \/ Decode(s) \/ Start(s)
    \/ Hide(s) \/ Finish(s) \/ End(s) \/ Cleanup(s) \/ Drop(s)

Client(s) == Connect(s) \/ Update(s) \/ FunctionOutput(s) \/ Audio(s) \/ Close(s)

FastPath(s) == Extract(s) \/ Inject(s) \/ Sync(s)

Next == \E s \in Sessions : Thread(s) \/ Client(s) \/ FastPath(s) \/ RowTimer(s)

Fairness ==
    /\ \A s \in Sessions : WF_vars(Thread(s)) /\ WF_vars(FastPath(s))
    /\ \A s \in Sessions : WF_vars(HasStream(s) /\ Audio(s))

Spec == Init /\ [][Next]_vars /\ Fairness
-----------------------------------------------------------------------------
(* The sessions that have taken a place and not given everything back, as  *)
(* far as their clients know.                                              *)
Occupies(s) ==
    /\ s \notin told
    /\ \/ HasStream(s) \/ Held(s) # {}
       \/ pc[s] \in {"pair", "eou", "unwound", "drop", "dropped"}

\* What makes each of the four steps of a creation throw.
NoRoom(s) ==
    \/ At(s, "admit") /\ active >= MaxStreams
    \/ At(s, "pair") /\ Cardinality(pair) >= MaxStreams
    \/ WantsRow(s) /\ sleep[s] = "late" /\ FreeRows = {}
    \/ At(s, "prefill") /\ Cardinality(seq) >= MaxStreams

(* A session is refused a stream, at any of the four resources that one    *)
(* takes, only while as many others as may be live still occupy one: a     *)
(* client that connects after it has read session.end is let in, however   *)
(* creations fail and teardowns overlap.                                   *)
RefusedOnlyWhenFull ==
    \A s \in Sessions :
      NoRoom(s) => Cardinality({t \in Sessions \ {s} : Occupies(t)}) >= MaxStreams

(* While the stream's own thread is at work, the session's thread is at    *)
(* none of the places that use the stream or tear it down, and the chunk   *)
(* loop never starts a second thread.                                      *)
StreamHasOneOwner ==
    \A s \in Sessions :
      fast[s] \in {"extract", "inject", "sync"} =>
        /\ pc[s] \in {"reading", "check", "gate", "finish", "joinFinish", "end", "join"}
        /\ extracting[s] # injecting[s]

(* The response that is spoken or waits for its turn was taken in, with a  *)
(* chunk, after the request it answers was complete, and a call that waits *)
(* for a response has none: one taken in before is forgotten when the call *)
(* begins, one taken in during the acknowledgement is kept. Nothing is     *)
(* said of when the client sent it, since its call_id is not looked at: a  *)
(* response still queued when the request is complete can be the answer to *)
(* an earlier call.                                                        *)
ResponseTakenAfterRequest ==
    \A s \in Sessions :
      /\ call[s].state \in {"SpeakingAck", "ProcessResponse"} /\ call[s].resp > 0 =>
           ~call[s].takenEarly
      /\ call[s].state = "WaitingForResponse" => call[s].resp = 0

(* A tool call ends as long as audio comes, though the client need not     *)
(* answer nor the model complete the request. And a session's thread comes *)
(* back to its socket or is over without the 60 s timer: no join and no    *)
(* wait for a row is for ever.                                             *)
EveryWaitEnds ==
    /\ \A s \in ToolUsers : (call[s].state # "Idle") ~> (call[s].state = "Idle")
    /\ \A s \in Sessions : (pc[s] \notin {"out", "reading"}) ~> (pc[s] \in {"out", "reading"})
=============================================================================
