---------------------------- MODULE StreamRunner ----------------------------
(***************************************************************************)
(* One streaming recognition: the runner that turns audio into mel frames, *)
(* chunks, encoder frames, words and utterances                            *)
(* (src/src/asr/runner.cpp), under the push / next / force_endpoint /      *)
(* finish calls of RecognitionStream (src/src/asr/recognizer.cpp). The     *)
(* head decides the runner: a transducer gets the CacheStreamRunner, a CTC *)
(* model the BufferedStreamRunner, which decodes overlapping windows.      *)
(*                                                                         *)
(* Audio is counted in samples. A mel frame is its global index, Pad when  *)
(* it is synthetic zeros, Bad when it was computed from samples that the   *)
(* buffer no longer has. A word is the encoder frame it was spoken in. One *)
(* action is one turn of the loop in step() or finalize(); a runner is     *)
(* used by one thread.                                                     *)
(***************************************************************************)
EXTENDS Integers, Sequences, SequencesExt

CONSTANTS
  Hop, Half,   \* hop_length and n_fft / 2, in samples
  Sub,         \* subsampling_factor, mel frames per encoder frame
  Rights,      \* the right contexts of the transducer
  Chunk, Left, RightPad,  \* chunk_samples_, left_samples_, right_samples_
  VadWindow,   \* window_size of the VAD, in samples
  Silence,     \* stop_history_eou, in encoder frames
  Feeds,       \* bound: the sizes of a push
  MaxAudio,    \* bound: the samples of a stream
  MaxVoice     \* bound: speech is in the first MaxVoice encoder frames

\* Samples of an encoder frame: enc_frame_samples_.
FrameSamples == Sub * Hop

\* The constructor of Recognizer refuses an empty chunk and a padding below 0.
ASSUME RunnerAssumption ==
  /\ {Hop, Half, Sub, Chunk, VadWindow, Silence} \subseteq Nat \ {0}
  /\ {Left, RightPad, MaxAudio, MaxVoice} \subseteq Nat
  /\ Rights \subseteq Nat /\ Feeds \subseteq Nat \ {0}

\* Chunk and left context of whole encoder frames, and a look-ahead that with
\* the last frame of the chunk covers the window of a mel frame: so is every
\* default. The code does not ask for it, it truncates (chunk_out_frames_).
WholeFrameWindows ==
  Chunk % FrameSamples = 0 /\ Left % FrameSamples = 0 /\ FrameSamples + RightPad >= Half

VARIABLES
  cfg,      \* [head, right, signal]: the model and the endpointing signal
  voice,    \* the encoder frames in which something is said
  phase,    \* where the stream's thread is
  ending,   \* finalizing_
  audio,    \* [base, end, vad]: audio_base_, its end, audio_fed_to_vad_
  mel,      \* [base, off, made, buf]: mel_base_frame_, mel_offset_,
            \* total_mel_frames_produced_, mel_buf_
  dec,      \* [first, frames, start]: first_chunk_, total_frames_emitted_, emit_start_
  words,    \* all_tokens_ (and the transcript)
  heard,    \* last_speech_frame of the head
  scan,     \* [next, seen]: vad_scan_frame_, vad_speech_seen_frame_
  ep,       \* [armed, last, forced, pending]: VadEndpointer, force_eou_pending_
  progress, \* last_processed_sec_, in samples
  result,   \* what next() returned last, "fed" after a push
  decoded,   \* history: what the head was given, frame by frame
  published, \* history: the words of the final results, one after the other
  final      \* history: the last final result and the clock it fired at

input    == <<cfg, voice>>
buffers  == <<audio, mel>>
decoding == <<dec, words, heard, decoded>>
endpoint == <<scan, ep, published, final>>
streamVars == <<input, phase, ending, buffers, decoding, endpoint, progress, result>>

Pad == -1
Bad == -2
Larger(a, b)  == IF a > b THEN a ELSE b
Smaller(a, b) == IF a < b THEN a ELSE b

Configs ==
  [head : {"rnnt"}, right : Rights, signal : {"off", "tokens", "vad"}]
  \cup [head : {"ctc"}, right : {0}, signal : {"off", "tokens", "vad"}]
IsCache == cfg.head = "rnnt"
HasVad  == cfg.signal = "vad"

NewAudio    == [base |-> 0, end |-> 0, vad |-> 0]
NewMel      == [base |-> 0, off |-> 0, made |-> 0, buf |-> <<>>]
NewDecoding == [first |-> TRUE, frames |-> 0, start |-> 0]
NewScan     == [next |-> 0, seen |-> -1]
NewEndpoint == [armed |-> FALSE, last |-> 0, forced |-> FALSE, pending |-> FALSE]
NoFinal     == [words |-> <<>>, why |-> "none", at |-> 0, fed |-> 0]

StreamInit ==
  /\ cfg \in Configs
  /\ voice \in SUBSET (0 .. MaxVoice - 1)
  /\ phase = "idle" /\ ending = FALSE
  /\ audio = NewAudio /\ mel = NewMel /\ dec = NewDecoding
  /\ words = <<>> /\ heard = -1
  /\ scan = NewScan /\ ep = NewEndpoint
  /\ progress = -1 /\ result = "fed"
  /\ decoded = <<>> /\ published = <<>> /\ final = NoFinal
-----------------------------------------------------------------------------
(* The front end: produce_new_mel_frames.                                  *)

FramesOf(end) == IF end >= Half THEN (end - Half) \div Hop + 1 ELSE 0

\* At the start of the stream the extractor reads the buffer from sample 0;
\* later from the left edge of the first new frame. Both edges of a frame
\* have to be in the buffer.
Readable(i) == LET edge == mel.made * Hop - Half
               IN  audio.base <= Larger(edge, 0) /\ i * Hop + Half <= audio.end

NewFrames == [k \in 1 .. FramesOf(audio.end) - mel.made |->
                LET i == mel.made + k - 1 IN IF Readable(i) THEN i ELSE Bad]

WithNewFrames == [mel EXCEPT !.buf = @ \o NewFrames, !.made = @ + Len(NewFrames)]
-----------------------------------------------------------------------------
(* CacheStreamRunner: chunks that overlap by the pre-encode cache.         *)

\* pre_encode_cache_size_ (9 for a factor of 8).
PreEncode == Sub + 1
ChunkFrames == 1 + cfg.right

NextChunkMel == IF dec.first THEN 1 + Sub * cfg.right ELSE PreEncode + Sub * ChunkFrames

\* cache_decoded_mel_frames
DecodedMel(frames) == IF frames > 0 THEN 1 + (frames - 1) * Sub ELSE 0

\* What the causal subsampling sees for frame k of window w; the frames that
\* are only overlap are dropped.
Field(w, k) ==
  LET end  == IF dec.first THEN k * Sub ELSE PreEncode - 1 + (k + 1) * Sub
      span == 2 * Sub - 1
  IN  [j \in 1 .. span |-> LET i == end - span + j IN IF i < 0 THEN Pad ELSE w[i + 1]]

CacheFrames ==
  LET w == SubSeq(mel.buf, mel.off + 1, mel.off + NextChunkMel)
  IN  [k \in 1 .. ChunkFrames |->
         [at |-> dec.frames + k - 1, sees |-> Field(w, k - 1)]]

\* The buffer keeps the overlap at its head; a first chunk shorter than it is
\* preceded by zeros from now on.
AfterChunkMel ==
  IF ~dec.first
  THEN [mel EXCEPT !.off = Smaller(@ + Sub * ChunkFrames, Len(mel.buf))]
  ELSE IF NextChunkMel < PreEncode
  THEN [mel EXCEPT !.off = 0,
                   !.buf = [i \in 1 .. PreEncode - NextChunkMel |-> Pad]
                           \o SubSeq(@, mel.off + 1, Len(@))]
  ELSE [mel EXCEPT !.off = @ + NextChunkMel - PreEncode]
-----------------------------------------------------------------------------
(* BufferedStreamRunner: windows of audio around the emit cursor.          *)

LeftEdge == Larger(0, dec.start - Left)

\* process_window(win_start, win_end): only the frames past the cursor are
\* emitted, one chunk of them unless the window is the last.
Skip(lo) == ((dec.start - lo) * (Chunk \div FrameSamples)) \div Chunk

WindowFrames(lo, hi, last) ==
  LET m     == WithNewFrames
      g0    == lo \div Hop
      n     == Larger(0, Smaller((hi - lo) \div Hop + 1, m.made - g0))
      avail == Larger(0, (n + Sub - 1) \div Sub - Skip(lo))
      count == IF last THEN avail ELSE Smaller(Chunk \div FrameSamples, avail)
  IN  [t \in 1 .. count |->
         [at   |-> dec.start \div FrameSamples + t - 1,
          sees |-> <<m.buf[g0 - m.base + (Skip(lo) + t - 1) * Sub + 1]>>]]
-----------------------------------------------------------------------------
(* The head and the endpointer.                                            *)

\* The encoder frame that a frame given to the head is the output of.
Source(frame) == IF Last(frame.sees) < 0 THEN -1 ELSE Last(frame.sees) \div Sub
Spoken(frame) == Source(frame) \in voice

WordsOf(frames) ==
  LET upTo[k \in 0 .. Len(frames)] ==
        IF k = 0 THEN <<>>
        ELSE IF Spoken(frames[k]) THEN Append(upTo[k - 1], Source(frames[k]))
        ELSE upTo[k - 1]
  IN  upTo[Len(frames)]

\* head_->step: the words of these frames, and where it last heard speech.
Decode(frames) ==
  /\ decoded' = decoded \o frames
  /\ heard' = LET S == {k \in 1 .. Len(frames) : Spoken(frames[k])}
              IN  IF S = {} THEN heard ELSE frames[Max(S)].at

\* Window k of the VAD decides these mel frames (binarize_window).
WindowMel(k) == (k * VadWindow) \div Hop .. ((k + 1) * VadWindow) \div Hop - 1
Committed(fed) == ((fed \div VadWindow) * VadWindow) \div Hop
FrameSpeech(g) == \E k \in 0 .. MaxAudio \div VadWindow :
                    /\ g \in WindowMel(k)
                    /\ \E h \in WindowMel(k) : (h + Sub - 1) \div Sub \in voice

\* The decode clock after d, in mel frames.
ClockMel(d) == IF IsCache THEN DecodedMel(d.frames) ELSE d.start \div Hop

\* scan_vad_speech: never past what the VAD has decided.
ScanVad(d) ==
  LET end  == Smaller(ClockMel(d), Committed(audio.vad))
      seen == {g \in scan.next .. end - 1 : FrameSpeech(g)}
  IN  [next |-> Larger(scan.next, end),
       seen |-> IF seen = {} THEN scan.seen ELSE CHOOSE g \in seen : \A h \in seen : h <= g]

\* Mutant of Now: the audio frontier instead of the decode clock.
NowFrontier(d) == IF HasVad THEN audio.end \div Hop ELSE audio.end \div FrameSamples

\* The two clocks of poll_endpoint, in mel frames for the VAD and in encoder
\* frames for the decoder's own silence.
Now(d) == IF HasVad THEN ClockMel(d)
          ELSE IF IsCache THEN d.frames ELSE d.start \div FrameSamples
LastSpeech == (IF HasVad THEN scan'.seen ELSE heard') + 1
Threshold  == IF HasVad THEN Silence * Sub ELSE Silence

\* The utterance is over: fire_eou publishes ws and clears them.
Publish(ws, why, d) ==
  /\ published' = published \o ws
  /\ final' = [words |-> ws, why |-> why, at |-> Now(d), fed |-> audio.vad]
  /\ words' = <<>>

Armed == ep.armed \/ LastSpeech > ep.last

\* poll_endpoint with the words ws decoded so far; "fired" is where the thread
\* goes when it ends the utterance.
Poll(ws, d, fired, otherwise) ==
  /\ scan' = IF HasVad THEN ScanVad(d) ELSE scan
  /\ LET last  == Larger(ep.last, LastSpeech)
         quiet == cfg.signal # "off" /\ Armed /\ Now(d) - last >= Threshold
     IN  IF ep.forced \/ quiet
         THEN /\ ep' = [armed |-> FALSE, last |-> last, forced |-> FALSE, pending |-> FALSE]
              /\ Publish(ws, IF ep.forced THEN "forced" ELSE "silence", d)
              /\ phase' = fired
         ELSE /\ ep' = [ep EXCEPT !.armed = Armed, !.last = last]
              /\ words' = ws /\ phase' = otherwise
              /\ UNCHANGED <<published, final>>

NoPoll(ws, to) == words' = ws /\ phase' = to /\ UNCHANGED endpoint
-----------------------------------------------------------------------------
(* The calls on the stream.                                                *)

\* push(): buffers only.
Push(n) ==
  /\ phase = "idle" /\ audio.end + n <= MaxAudio
  /\ audio' = [audio EXCEPT !.end = @ + n]
  /\ result' = "fed"
  /\ UNCHANGED <<input, phase, ending, mel, decoding, endpoint, progress>>

ForceEndpoint ==
  /\ phase = "idle"
  /\ ep' = [ep EXCEPT !.forced = TRUE, !.pending = IsCache]
  /\ result' = "fed"
  /\ UNCHANGED <<input, phase, ending, buffers, decoding, scan, published, final, progress>>

\* The head of step(): the cache runner makes its mel frames here. The VAD
\* observes the new audio, under the cache runner only when that made a frame
\* or the stream ends.
BeginStep ==
  /\ audio' = IF HasVad /\ (IsCache => ending' \/ NewFrames # <<>>)
              THEN [audio EXCEPT !.vad = audio.end] ELSE audio
  /\ mel' = IF IsCache THEN WithNewFrames ELSE mel
  /\ phase' = "chunks"
  /\ UNCHANGED <<input, decoding, endpoint, progress, result>>

Next_ == phase = "idle" /\ UNCHANGED ending /\ BeginStep
Finish == phase = "idle" /\ ending' = TRUE /\ BeginStep

ChunkReady ==
  IF IsCache THEN Len(mel.buf) - mel.off >= NextChunkMel
             ELSE dec.start + Chunk + RightPad <= audio.end

\* One turn of the loop in step(). A forced endpoint of the cache runner waits
\* for the end of the loop, and nothing fires in finalize().
ProcessChunk ==
  /\ phase = "chunks" /\ ChunkReady
  /\ LET frames == IF IsCache THEN CacheFrames
                   ELSE WindowFrames(LeftEdge, dec.start + Chunk + RightPad, FALSE)
         ws     == words \o WordsOf(frames)
     IN  /\ dec' = IF IsCache
                   THEN [dec EXCEPT !.first = FALSE, !.frames = @ + ChunkFrames]
                   ELSE [dec EXCEPT !.start = @ + Chunk]
         /\ mel' = IF IsCache THEN AfterChunkMel ELSE WithNewFrames
         /\ Decode(frames)
         /\ IF ending \/ ep.pending
            THEN NoPoll(ws, "chunks")
            ELSE Poll(ws, dec', "fired", "chunks")
  /\ UNCHANGED <<input, ending, audio, progress, result>>

\* The loop is over; a forced endpoint fires without a chunk too.
LastPoll ==
  /\ phase = "chunks" /\ ~ChunkReady
  /\ UNCHANGED <<input, ending, buffers, dec, heard, decoded, progress, result>>
  /\ IF ending THEN NoPoll(words, "trim") ELSE Poll(words, dec, "fired", "trim")

\* Mutant of KeepFrom: what the front end still reads is forgotten.
KeepFromCursor == IF IsCache THEN mel.made * Hop ELSE LeftEdge

KeepFrom ==
  LET fe == Larger(0, mel.made * Hop - Half)
      kept == IF IsCache THEN fe ELSE Smaller(LeftEdge, fe)
  IN  IF HasVad THEN Smaller(kept, audio.vad) ELSE kept

\* trim_buffers
TrimmedMel ==
  IF IsCache
  THEN [mel EXCEPT !.buf = SubSeq(@, mel.off + 1, Len(@)), !.off = 0]
  ELSE LET keep == LeftEdge \div Hop
           drop == keep - mel.base
       IN  IF drop > 0 /\ drop <= Len(mel.buf)
           THEN [mel EXCEPT !.buf = SubSeq(@, drop + 1, Len(@)), !.base = keep]
           ELSE mel

\* Decoded progress, as next() compares it.
Processed == IF IsCache THEN Smaller(DecodedMel(dec.frames) * Hop, audio.end) ELSE dec.start

\* step() trims and returns, and next() with it; finish() goes on to the tail.
EndStep ==
  /\ phase \in {"fired", "trim"}
  /\ audio' = [audio EXCEPT !.base = Larger(@, KeepFrom)]
  /\ mel' = TrimmedMel
  /\ IF ending
     THEN phase' = "tail" /\ UNCHANGED <<progress, result>>
     ELSE /\ phase' = "idle"
          /\ progress' = Larger(progress, Processed)
          /\ result' = IF phase = "fired" THEN "final"
                       ELSE IF Processed > progress /\ words # <<>> THEN "interim" ELSE "none"
  /\ UNCHANGED <<input, ending, decoding, endpoint>>

FlushPad == PreEncode + Sub * ChunkFrames + Sub * ChunkFrames

\* finalize() of the cache runner pads what is left, if anything is.
PadTail ==
  /\ phase = "tail" /\ IsCache
  /\ mel' = IF Len(mel.buf) > mel.off
            THEN [mel EXCEPT !.buf = @ \o [i \in 1 .. FlushPad |-> Pad]]
            ELSE mel
  /\ phase' = "flush"
  /\ UNCHANGED <<input, ending, audio, decoding, endpoint, progress, result>>

FlushChunk ==
  /\ phase = "flush" /\ ChunkReady
  /\ dec' = [dec EXCEPT !.first = FALSE, !.frames = @ + ChunkFrames]
  /\ mel' = AfterChunkMel
  /\ Decode(CacheFrames)
  /\ words' = words \o WordsOf(CacheFrames)
  /\ UNCHANGED <<input, phase, ending, audio, endpoint, progress, result>>

\* finish() returns what is left as the last final; the transcript stays.
Close(ws, d) ==
  /\ phase' = "closed"
  /\ Publish(ws, "end", d)
  /\ result' = "final"

FlushDone ==
  /\ phase = "flush" /\ ~ChunkReady
  /\ Close(words, dec)
  /\ UNCHANGED <<input, ending, buffers, dec, heard, decoded, scan, ep, progress>>

\* finalize() of the buffered runner decodes the rest in a window of its own.
TailWindow ==
  /\ phase = "tail" /\ ~IsCache
  /\ IF dec.start < audio.end
     THEN LET frames == WindowFrames(LeftEdge, audio.end, TRUE)
          IN  /\ mel' = WithNewFrames
              /\ dec' = [dec EXCEPT !.start = audio.end]
              /\ Decode(frames)
              /\ Close(words \o WordsOf(frames), dec')
     ELSE Close(words, dec) /\ UNCHANGED <<mel, dec, heard, decoded>>
  /\ UNCHANGED <<input, ending, audio, scan, ep, progress>>

\* reset(): the runner starts over, for another stream with a high-water mark
\* of its own.
Reset ==
  /\ phase \in {"idle", "closed"}
  /\ phase' = "idle" /\ ending' = FALSE
  /\ audio' = NewAudio /\ mel' = NewMel /\ dec' = NewDecoding
  /\ words' = <<>> /\ heard' = -1
  /\ scan' = NewScan /\ ep' = NewEndpoint
  /\ progress' = -1 /\ result' = "fed"
  /\ decoded' = <<>> /\ published' = <<>> /\ final' = NoFinal
  /\ UNCHANGED input

StreamNext ==
  \/ \E n \in Feeds : Push(n)
  \/ ForceEndpoint \/ Next_ \/ Finish
  \/ ProcessChunk \/ LastPoll \/ EndStep
  \/ PadTail \/ FlushChunk \/ FlushDone \/ TailWindow
  \/ Reset

StreamSpec == StreamInit /\ [][StreamNext]_streamVars
-----------------------------------------------------------------------------
\* Encoder frames that end in real audio: real_encoder_frames.
RealFrames == IF mel.made > 0 THEN (mel.made - 1) \div Sub + 1 ELSE 0

\* What frame f of the stream has to be computed from.
RightField(f) ==
  IF IsCache
  THEN [j \in 1 .. 2 * Sub - 1 |->
          LET m == f * Sub - (2 * Sub - 1) + j
          IN  IF m \in 0 .. mel.made - 1 THEN m ELSE Pad]
  ELSE <<f * Sub>>

(* The head is given every encoder frame of the stream once, in order,     *)
(* under its own number and computed from its own mel frames, however the  *)
(* audio arrived and whatever was trimmed between. Nothing is left behind: *)
(* when next() says that it needs more audio, or returns an interim result *)
(* at which its callers stop, no chunk could be decoded; when the stream   *)
(* is closed, all real frames were, and a transducer that was given any    *)
(* has had a frame of zeros to commit its last word.                       *)
FramesInOrder ==
  /\ \A i \in DOMAIN decoded :
       decoded[i].at = i - 1 /\ decoded[i].sees = RightField(i - 1)
  /\ phase = "idle" /\ result \in {"none", "interim"} =>
       ~ChunkReady /\ (IsCache => FramesOf(audio.end) = mel.made)
  /\ phase = "closed" =>
       Len(decoded) >= RealFrames + (IF IsCache /\ mel.made > 0 THEN 1 ELSE 0)

\* All that was said so far, published or not.
AllWords == published \o words

(* Every word is published exactly once and in order: the finals and what  *)
(* is still open are together all that was said in the decoded audio. A    *)
(* final that silence ended has something said in it (with the decoder's   *)
(* own signal) and the whole threshold of decoded silence after it.        *)
FinalsAreUtterances ==
  /\ ToSet(AllWords) = {f \in voice : f < Len(decoded) /\ f < RealFrames}
  /\ \A i, j \in DOMAIN AllWords : i < j => AllWords[i] < AllWords[j]
  /\ final.why = "silence" =>
       IF HasVad
       THEN \A g \in final.at - Threshold .. Smaller(final.at, Committed(final.fed)) - 1 :
              ~FrameSpeech(g)
       ELSE /\ final.words # <<>>
            /\ voice \cap (final.at - Threshold .. final.at - 1) = {}
=============================================================================
