---------------------------- MODULE CodecWorker ----------------------------
(***************************************************************************)
(* One streaming synthesis (src/src/tts/magpietts/magpietts.cpp): a        *)
(* producer generates codec frames and hands them to a worker thread       *)
(* through a bounded queue; the worker decodes them in chunks and writes   *)
(* the audio to a callback, which may refuse it.  The rolling codec looks  *)
(* some frames ahead, so the last ones are followed by padding; the audio  *)
(* of a chunk is held back until the next one is there to overlap with     *)
(* (audio_pp.cpp).  On every path out the worker is joined.                *)
(*                                                                         *)
(* A frame is its position in the queue.  The waits on the condition       *)
(* variables are explicit: who sleeps goes on only when it is notified.    *)
(***************************************************************************)
EXTENDS Integers, Sequences, SequencesExt

CONSTANTS
    Modes,      \* the settings of the codec, see Mode
    Chunk,      \* chunk_frames
    Depth,      \* codec_queue_depth
    Stack,      \* frame_stacking_factor, frames of a decoder step
    MaxFrames   \* bound on the frames of a synthesis

\* A stateful codec or the rolling one with its history and future frames; an
\* overlap window; flush_partial_chunk; a decoder that wants the accelerator
\* for itself (fusedStepExclusive); requests that preempt one another.
Mode == [stateful : BOOLEAN, history : Nat, future : Nat, window : BOOLEAN, flush : BOOLEAN,
         exclusive : BOOLEAN, preempt : BOOLEAN]

ASSUME WorkerAssumption ==
    /\ Modes \subseteq Mode
    /\ \A m \in Modes : m.stateful => m.history = 0 /\ m.future = 0
    /\ {Chunk, Depth, Stack, MaxFrames} \subseteq Nat \ {0}

VARIABLES
    mode,
    producer,   \* where the producer is, "off" without a synthesis
    lanes,      \* frames of its step it has still to write
    generated,  \* frames_generated
    firstPending, \* first_audio_pending
    good,       \* no path to `return false` was taken
    written, read, last,            \* write_idx, read_idx, last_token_id (-1: not yet)
    closed, aborted, failed,        \* input_closed, abort_requested, failed
    sendFinal, finalSent,           \* send_final_audio, final_audio_sent
    firstTaken, firstDone,          \* first_chunk_taken, first_chunk_done
    worker,     \* where the worker thread is, "end" when it has returned
    item,       \* the chunk it works on: frames, final_read
    pending,    \* the audio held back, as frames
    heard,      \* the audio the callback has taken, as frames
    asleep      \* the condition variables somebody sleeps on

queue == <<written, read, last>>
flags == <<closed, aborted, failed>>
final == <<sendFinal, finalSent>>
first == <<firstTaken, firstDone>>
producerVars == <<producer, lanes, generated, firstPending, good>>
workerVars == <<worker, item, pending, heard>>
workVars == <<mode, producerVars, queue, flags, final, first, workerVars, asleep>>

NoItem == [frames |-> <<>>, final |-> FALSE]
Frames(from, to) == [i \in 1 .. to - from |-> from + i - 1]
Ended == last >= 0
Buffered == written - read

\* Mutant of MaxBuffered: no room for the frames that are looked ahead.
MaxBufferedChunks == Depth * Chunk

\* max_buffered_frames
MaxBuffered == Depth * Chunk + mode.history + mode.future + 1

WorkInit ==
    /\ mode \in Modes
    /\ producer = "off" /\ lanes = 0 /\ generated = 0 /\ firstPending = TRUE /\ good = TRUE
    /\ written = 0 /\ read = 0 /\ last = -1
    /\ closed = FALSE /\ aborted = FALSE /\ failed = FALSE
    /\ sendFinal = FALSE /\ finalSent = FALSE /\ firstTaken = FALSE /\ firstDone = FALSE
    /\ worker = "end" /\ item = NoItem /\ pending = <<>> /\ heard = <<>>
    /\ asleep = {}

\* A call of synthesize, which starts the worker.
Begin ==
    /\ producer = "off"
    /\ producer' = "step" /\ worker' = "next"
    /\ UNCHANGED <<mode, lanes, generated, firstPending, good, queue, flags, final, first,
                   item, pending, heard, asleep>>
------------------------------------------------------------------------------
(* The producer.                                                           *)

\* cancel(): the worker gives up after the chunk it is working on.
CancelWorker ==
    /\ aborted' = TRUE /\ closed' = TRUE /\ asleep' = {}
    /\ good' = FALSE /\ producer' = "join"
    /\ UNCHANGED failed

\* join(), which closes the input first.
GiveUp ==
    /\ closed' = TRUE /\ asleep' = asleep \ {"work"}
    /\ good' = FALSE /\ producer' = "join"
    /\ UNCHANGED <<aborted, failed>>

\* One step of the decoder; its frames may be suppressed, it may be the last.
\* At the boundary of two texts it is frames of silence that are written.
Generate ==
    /\ producer = "step"
    /\ \/ /\ failed
          /\ GiveUp /\ UNCHANGED lanes
       \/ /\ ~failed /\ CancelWorker /\ UNCHANGED lanes
       \/ /\ ~failed
          /\ \E n \in 0 .. Stack :
              /\ generated + n <= MaxFrames
              /\ lanes' = n /\ producer' = IF n = 0 THEN "step" ELSE "write"
          /\ UNCHANGED <<flags, asleep, good>>
       \/ /\ ~failed /\ producer' = "close"
          /\ UNCHANGED <<flags, asleep, good, lanes>>
    /\ UNCHANGED <<mode, generated, firstPending, queue, final, first, workerVars>>

\* write_frame(): waits for room.
WriteFrame ==
    /\ producer = "write" /\ "room" \notin asleep
    /\ LET refused == failed \/ aborted \/ closed IN
       \/ /\ ~refused /\ Buffered >= MaxBuffered
          /\ asleep' = asleep \cup {"room"}
          /\ UNCHANGED <<producer, lanes, good, generated, written, flags>>
       \/ /\ refused /\ GiveUp
          /\ UNCHANGED <<lanes, generated, written>>
       \/ /\ ~refused /\ Buffered < MaxBuffered
          /\ written' = written + 1 /\ generated' = generated + 1
          /\ lanes' = lanes - 1
          /\ producer' \in IF lanes > 1 THEN {"write"}
                          ELSE IF firstPending THEN {"first", "step"} ELSE {"step"}
          /\ asleep' = asleep \ {"work"}
          /\ UNCHANGED <<good, flags>>
    /\ UNCHANGED <<mode, firstPending, read, last, final, first, workerVars>>

HasTokens ==
    IF mode.stateful
    THEN Buffered > 0 /\ (Ended \/ closed \/ Buffered >= Chunk)
    ELSE Buffered > mode.future /\ (read <= 1 \/ Ended \/ Buffered >= Chunk)

\* wait_first_audio(): an exclusive decoder lets the first chunk be decoded,
\* once there is one.
FirstAudio ==
    /\ producer = "first" /\ "audio" \notin asleep
    /\ LET go == firstDone \/ failed \/ aborted \/ closed \/ (~firstTaken /\ ~HasTokens) IN
       IF ~mode.exclusive \/ go
       THEN /\ firstPending' = (mode.exclusive /\ ~firstDone)
            /\ producer' = "step" /\ UNCHANGED asleep
       ELSE asleep' = asleep \cup {"audio"} /\ UNCHANGED <<firstPending, producer>>
    /\ UNCHANGED <<mode, lanes, generated, good, queue, flags, final, first, workerVars>>

\* finish_tokens() pads the input for the look-ahead, close_input() does not.
Close ==
    /\ producer = "close"
    /\ \/ /\ generated = 0 /\ CancelWorker /\ UNCHANGED queue
       \/ /\ generated > 0
          /\ IF mode.flush
             THEN last' = written /\ written' = written + mode.future
             ELSE UNCHANGED <<last, written>>
          /\ closed' = TRUE /\ asleep' = asleep \ {"work"}
          /\ producer' = "join"
          /\ UNCHANGED <<read, aborted, failed, good>>
    /\ UNCHANGED <<mode, lanes, generated, firstPending, final, first, workerVars>>

\* Mutant of Joined: who gives up does not wait for the thread.
JoinedWhenGood == good => worker = "end"

Joined == worker = "end"

\* The way out of stream_magpie_to_audio; the result is good /\ ~failed, and
\* the worker with all its state is gone.
Return ==
    /\ producer = "join" /\ Joined
    /\ producer' = "off" /\ lanes' = 0 /\ generated' = 0 /\ firstPending' = TRUE /\ good' = TRUE
    /\ written' = 0 /\ read' = 0 /\ last' = -1
    /\ closed' = FALSE /\ aborted' = FALSE /\ failed' = FALSE
    /\ sendFinal' = FALSE /\ finalSent' = FALSE /\ firstTaken' = FALSE /\ firstDone' = FALSE
    /\ item' = NoItem /\ pending' = <<>> /\ heard' = <<>> /\ asleep' = {}
    /\ UNCHANGED <<mode, worker>>
------------------------------------------------------------------------------
(* The worker.                                                             *)

SetFailed ==
    /\ failed' = TRUE /\ closed' = TRUE /\ asleep' = {}
    /\ worker' = "end"
    /\ UNCHANGED aborted

\* read_tokens_locked(): the frames the audio of a chunk is for, without the
\* history before them and the future behind.
\* Mutant of ChunkEnd: the frames looked ahead count as read.
ChunkEndAll == IF mode.stateful /\ read + Chunk < written THEN read + Chunk ELSE written

ChunkEnd ==
    IF ~mode.stateful THEN written - mode.future
    ELSE IF read + Chunk < written THEN read + Chunk ELSE written

NextWork ==
    /\ worker = "next" /\ "work" \notin asleep
    /\ \/ /\ aborted
          /\ worker' = "tail"
          /\ UNCHANGED <<item, read, final, firstTaken, asleep>>
       \/ /\ ~aborted /\ HasTokens
          /\ item' = [frames |-> Frames(read, ChunkEnd),
                      final |-> Ended /\ last <= (IF mode.stateful THEN ChunkEnd ELSE written)]
          /\ read' = ChunkEnd /\ firstTaken' = TRUE
          /\ asleep' = asleep \ {"room"}
          /\ worker' = "decode" /\ UNCHANGED final
       \/ /\ ~aborted /\ ~HasTokens /\ sendFinal
          /\ sendFinal' = FALSE /\ finalSent' = TRUE
          /\ worker' = "flush"
          /\ UNCHANGED <<item, read, firstTaken, asleep>>
       \/ /\ ~aborted /\ ~HasTokens /\ ~sendFinal
          /\ IF closed THEN worker' = "tail" /\ UNCHANGED asleep
             ELSE asleep' = asleep \cup {"work"} /\ UNCHANGED worker
          /\ UNCHANGED <<item, read, final, firstTaken>>
    /\ UNCHANGED <<mode, producerVars, written, last, flags, firstDone, pending, heard>>

\* AudioPostProcessor::writeDecodedAudio: straight through, or what was held back.
Direct == ~mode.window /\ mode.future = 0
Output == IF Direct THEN item.frames ELSE pending

\* The chunk is decoded and written to the callback, which takes it or not.
Decoded(takes) ==
    /\ worker = "decode"
    /\ IF Output = <<>> \/ takes
       THEN /\ heard' = heard \o Output
            /\ pending' = IF Direct THEN <<>> ELSE item.frames
            /\ firstDone' = TRUE
            /\ asleep' = IF firstDone THEN asleep ELSE asleep \ {"audio"}
            /\ sendFinal' = (sendFinal \/ item.final)
            /\ worker' = "next" /\ item' = NoItem
            /\ UNCHANGED flags
       ELSE SetFailed /\ UNCHANGED <<item, pending, heard, firstDone, sendFinal>>
    /\ UNCHANGED <<mode, producerVars, queue, finalSent, firstTaken>>

\* The codec fails, or an exception.
DecodeFails ==
    /\ worker = "decode" /\ SetFailed
    /\ UNCHANGED <<mode, producerVars, queue, final, first, item, pending, heard>>

\* AudioPostProcessor::flush, after the final chunk or at the end of the thread.
Flush(takes) ==
    /\ worker \in {"flush", "tail"}
    /\ IF worker = "tail" /\ (aborted \/ failed \/ finalSent)
       THEN worker' = "end" /\ UNCHANGED <<pending, heard, flags, asleep>>
       ELSE /\ pending' = <<>>
            /\ IF pending = <<>> \/ takes
               THEN /\ heard' = heard \o pending
                    /\ worker' = IF worker = "flush" THEN "next" ELSE "end"
                    /\ UNCHANGED <<flags, asleep>>
               ELSE SetFailed /\ UNCHANGED heard
    /\ UNCHANGED <<mode, producerVars, queue, final, first, item>>

Produce == Generate \/ WriteFrame \/ FirstAudio \/ Close \/ Return
Work(takes) == NextWork \/ Decoded(takes) \/ DecodeFails \/ Flush(takes)
=============================================================================
