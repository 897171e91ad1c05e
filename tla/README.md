# A TLA+ model of NeMo-Speech.cpp

NeMo-Speech.cpp is a C++ runtime that serves speech models (recognition,
diarization, translation, synthesis, full-duplex voicechat) from one process to
many concurrent clients. Most of its bytes are tensor graphs, which a model
checker has nothing to say about. What is hard is how the threads of many
clients share one device: how their work is gathered into batches, how rows of
device memory are owned, and how a call always gets its own answer while other
calls fail, time out, are cancelled, or the server shuts down; and how several
processes share a cache of downloaded models. That is what is modelled here. All paths below are relative to the root of the repository.

`PROJECT.json` is the index: the components, the runs, the mutants (one
plausible bug per property, which the property must catch), the source lines
behind each definition, the hazards, the findings and the theorems.

## 1. Inventory

### Recognition: sharing the device

| component | state | operations | hard behaviour | correct when |
|---|---|---|---|---|
| `MicroBatcher` (`src/asr/batching.h`), instantiated by the encoder, the feature front end, VAD, diarization, punctuation, the decoder front ends and the speech-to-speech pipeline | a queue of jobs, a worker thread, the stopping flag, a lifecycle lock | `run`, the worker loop, `shutdown` | producers notify after unlocking; the worker walks and edits the queue; a callback throws; shutdown races calls and another shutdown; queue limit | every accepted call gets one answer, its own; nothing is accepted after the drain; a complete cohort does not wait for the timer |
| `IngressBatchCoordinator` (`src/asr/batching.h`) | the current group; per group: waiters, target, released | `arrive`, deadline, release | participant counts are stale when used; a deadline races the last arrival; streams end while others wait | the cohort announced downstream is the number of streams in the wave; nobody sleeps in a released wave |
| `CacheAwareEncoder` (`src/asr/encoder/cache_aware_encoder.cpp`) | an arena of rows on the device, the used map; per stream a `CacheAwareState` | `make_state`, move, `reset_state`, destruction, `encode` (inline or batched) | claim and release from many threads; a state that is moved, reset, destroyed in any order; a chunk that fails and is retried | no row has two owners or none for ever; a chunk sees the audio of its own session only |
| `RnntModel` decoding (`src/asr/model.cpp`): `begin/end_decode_step`, `SharedDecoderScheduler`, `DecoderBatchers` | admitted steps, the admission wave; a ready queue per operation, the task queue, items in flight, executors | `begin_decode_step`, `predict`/`joint`/`fused` calls, the scheduler loop, the executor loop, `shutdown` | an atomic counter outside the mutex; two condition variables; a batch is launched when all admitted steps are blocked | counters exact; each call in exactly one place; no lost wakeup; no operation starves |
| decoder rows (`src/asr/model.cpp:2011`) | used and needs-reset maps | acquire (waits up to 60 s), release, zero | a release races a timeout; a row given back in mid-session | as for the encoder rows; a wait ends without its timer |
| `CacheStreamRunner`, `BufferedStreamRunner` under a `RecognitionStream` (`src/asr/runner.cpp`, `src/asr/recognizer.cpp`), with the mel frames of `features/fe.cpp` and the endpointer of `vad/` | audio and mel stores that slide under global indices, the decode cursor, the words of the open utterance, endpoint state | `push`, `next`, `force_endpoint`, `finish`, `reset` | four cursors on one stream; what one of them still reads must not be trimmed; a loop that an endpoint leaves half-way; a clock that must not run ahead of decoding; a first chunk and a tail unlike the rest | every encoder frame is decoded once, in order, from its own audio; every word is in one final result; a reset keeps nothing |
| decoders, VAD network, diarization, punctuation, post-processing | per stream | sequential | numeric code | outside the model |

The pieces meet in one stream's `push`: it arrives at the ingress coordinator,
whose answer becomes the *cohort target* (`ScopedBatchCohort`) that every
`MicroBatcher` below it uses to decide when a batch is complete; the encoder
calls its batcher with the row the stream owns; the decoder is admitted to a
decode step (again in a wave of that size) and calls the decode scheduler.

### Speech-LLM

`SalmRecognitionBackend` (`src/speechlm/salm_recognizer.cpp`) keeps a queue of
jobs, one thread that runs `SalmEngine::serve`, and a ticket per pulled job;
operations are submit, cancel, pull, done and the restart after an engine
failure. `SalmEngine` (`src/speechlm/salm_engine.cpp`) keeps a row per live
request, encoder and alignment jobs in threads of their own, decode slots, a
pool of KV cells with reservations, a prompt cache and the posted
cancellations; it pulls, encodes, admits, decodes, grows, preempts, delivers and
cancels in one loop. Hard: cancellation races delivery, failure and restart; a
cache that is full in mid-step; a step that is prepared while another runs.
Correct when each request is answered once, a cancellation reaches only its own
request, a preempted request still ends, and no step writes outside what its
sequence reserved. `salm_policy`, `salm_guards` and the timestamp aligner are
pure functions.

### Synthesis

`TtsPreemptionCoordinator` (`server/http/http_server.cpp:334`) keeps a
generation number and an active flag; the newest claim must win and exactly one
synthesis runs. `magpietts.cpp` runs generation with a codec worker thread
behind a bounded frame queue, and a prefetch thread for long texts; end of
stream must not overtake a frame, nobody may wait for a thread that is gone, and
no worker may outlive the synthesis whose buffers and callback it uses.
Tokenizers and normalisation are pure.

### Full-duplex voicechat

`S2SPipeline` (`src/s2s/pipeline.cpp`) keeps a count of streams, and hands each
stream a pair of TTS slots, two predictor rows and an LLM sequence, from pools
of different modules. It steps a stream per chunk and runs tool calls on a
background *fast path* that owns the stream while a flag is set; timeouts end a
tool call. `server/http/s2s_realtime.cpp` drives it from a websocket. Correct
when the two threads never touch the stream together, a tool response is
injected into a call that was complete when a chunk took it in, and a client that
has been told its session ended finds room for the next one.

### Model store

`app/model_store.cpp` downloads with resume, verifies, installs by rename and
writes markers, under a lock file shared between processes. It may be killed
between any two file-system steps. Correct when a file is used only if it was
verified and a resumed download never mixes revisions.

### Adapters and utilities

HTTP, chat API, gRPC, the C interface, the engine registry, the command line,
the ggml layer, translation, audio and text utilities: protocol adapters and
sequential code over the engines above; see `PROJECT.json` for each.

## 2. Plan

| step | modules | question | state |
|---|---|---|---|
| A | `BatchService`, `MicroBatcher`, `CacheAwareEncoder` | the batcher every stage uses, and the encoder rows on top of it | done, proved |
| B | `IngressBatchCoordinator` | is the cohort real | done, proved |
| C | `DecodeScheduler` | counters, wakeups, fairness, same service as A | done, safety and refinement proved |
| D1 | `ServeContract`, `SalmBackend` | speech-LLM backend over an abstract engine: one answer per request; whose ticket is cancelled | done, safety and refinement proved |
| D2 | `SalmEngine` | the serve loop refines `ServeContract`: rows, KV growth, preemption, a step prepared ahead, an engine failure | done, safety and refinement proved |
| E | `ModelStore` | crashes between file-system steps, processes that share the cache | done, safety proved |
| F | `CodecWorker`, `TtsServer` | newest wins, no frame lost, no worker left behind | done, safety proved |
| G | `DecoderArena`, `VoiceChat` | ownership of the stream, tool responses, resources of a session | done, safety proved |
| H | proofs about C, D1, D2, F, G, I | the invariants the runs check, for every instance | done: every safety property of the runs |
| I | `StreamRunner` | is every frame and every word of a stream there once | done, safety proved |

Every invariant, action property and refinement of a passing run is a theorem;
the liveness properties are left to TLC (section 5).

`BatchService` is the abstract specification of every batched stage, so that A,
C and D1 are shown to offer their callers the same thing. `ServeContract` is the
abstract engine: D1 is composed with it and D2 is shown to implement it, so that
together they cover a request from its thread to the decode step and back.

## 3. The modules

One convention holds throughout. An action is what a thread does between two
points where another thread can interfere: one hold of a mutex, one atomic
access outside one, one notification. `pc` variables say where each thread is.
A condition variable is explicit: a notification moves threads that are
*asleep* and is lost on all others. Spurious wakeups are left out: they only
re-evaluate a predicate earlier, and liveness must not depend on them. Metrics
counters, logging and the tensors are left out; a graph run is a step that
succeeds or throws.

**`BatchService`** -- the promise to a caller: an accepted call is answered
once, with the result of that call or an error; the stage closes only when it
owes nobody an answer and accepts nothing afterwards.

**`MicroBatcher`** (`src/asr/batching.h`) -- callers (`pc`, `key`, `hint`,
`answer`), the queue, the worker (`wpc`, `batch`, `results`, the key and target
it collects for) and closers. The shared lifecycle lock is
`Exclusive`/`NoInline`, the queue mutex `MuFree`. A call takes the inline path
when the batcher has no worker or its target is 1, as `run` does. `Collect` is
the walk of the loop at 368, `Execute` the callback with its three outcomes
(results, exception, wrong number of results, which the code turns into an
exception), `Resolve` one promise at a time. `run_inline` has no caller in the
repository.

**`CacheAwareEncoder`** extends `MicroBatcher` with the rows: `used`, what each
`row` holds (the sessions whose audio is in it), and per stream the state
object. The stream's side (make, encode, fail, retry, reset, destroy) is
how `src/asr/runner.cpp` uses it. The ring position inside a row is abstracted.

**`IngressBatchCoordinator`** -- participants that register, read the count,
arrive, wait with a deadline, leave. A stream reads the count in its step; an
offline request reads it once when it registers, which is the same action taken
early. A group object dies with its last reference, so group ids are reused.

**`StreamRunner`** (`src/asr/runner.cpp`, `src/asr/recognizer.cpp`) -- one
stream and the thread that uses it. An action is a call that only buffers, or one
turn of the loop in `step()` or `finalize()`: `Next_`, then `ProcessChunk` until
an endpoint fires or no chunk is ready, `LastPoll`, `EndStep` (trim, and the
answer of `next()`); after `Finish` also `PadTail`, `FlushChunk` or `TailWindow`.
`cfg.head` says which runner it is, as the head of the model does. Audio is
counted in samples and the geometry is small but keeps its shape: hop, half of
an FFT window that is longer than a hop, subsampling, overlap, right context. A
mel frame is its index, `Pad` for synthetic zeros, or `Bad` when its window has
left the buffer. What the head is given is, per frame, the number it is told
(`at`) and the mel frames it was computed from (`sees`: the receptive field of
the causal subsampling, or the frame's position in a window). A word is the
encoder frame it is spoken in, decoded where that frame is; the VAD is right
about the mel frames of its windows, so that the clocks and not the networks are
in question. `decoded`, `published` and `final` are history. Times in
milliseconds are mel or encoder frames, since each clock is an exact multiple of
one of the two. `MCStreaming` runs it beside the coordinator.

**`DecodeScheduler`** (`src/asr/model.cpp`) -- streams (admission in waves, one
call at a time), the scheduler thread, the executors, the destructor. `queue`
has the ready queue of each operation, whose jobs are named by their streams;
`older` is the order of the `queued_at` stamps, which are taken before the lock,
so that a job may be queued behind a younger one. The scheduler holds its mutex from `SchedulerCheck` to the end of the
turn, and the read of `admitted_decode_steps_` inside it is an action of its
own (`ReadAdmitted`), since the streams change that number without the mutex.
Assumed: batching enabled with a positive queue delay and a maximum batch above
one (otherwise no scheduler thread exists and calls run inline). The
device-resident calls (`predict_joint_rnnt_device` and its like) bypass the
scheduler and are left out. The destructor runs when no stream is left, so that
the `Shutdown` dispatch and the refusals after shutdown cannot be reached.

**`ServeContract`** -- the speech-LLM engine as its caller sees it
(`src/speechlm/salm_engine.h`, `serve` and `cancel` in `salm_engine.cpp`):
requests are numbered in pull order, each is delivered once, a posted ticket is
noticed at a step boundary and reaches only a request that is still owed,
tickets posted between two `serve` calls are dropped when the next one starts.
How the engine comes to a result is not in it.

**`SalmBackend`** (`src/speechlm/salm_recognizer.cpp`) -- request threads (`pc`,
the promise `answer`, `ticket`), `queue`, the worker (`wpc`) with the locals of
`serve` (`inflight`, `next`), the destructor (`closer`), composed with
`ServeContract`: each step of the engine is conjoined with what `pull` or `done`
does in the backend. `holds` is what the engine reads for its own number of a
request, so that the two numberings can disagree. A poll of the client is one
action (`Poll`) and the cancellation that follows another, since the lock is
taken in between. The failure handler and the drain answer one job per action
while the mutex is held. `warmup` queues its jobs together, without looking at
`max_queue_depth`. `failed` and `asked` are history.

**`SalmEngine`** (`src/speechlm/salm_engine.cpp`) -- `Impl::serve` on its fast
path, an action per stage of the loop between two reads of the cancellation
flag: harvest of alignment and encoder jobs, delivery, cancellation, pulls and
encoder launches, admission round (`Poll`, `Weigh`, `Admit`, `Place`), step,
commit, growth (`Grow`, `Preempt`, `DropPromptCache`), requeue. A request is a
*kind*, which says what its results will be; a token is text, a tag that shows
nothing, or the end of the turn. Cells of the cache are counted: `pos` and
`cells` of a slot, `reserved`, `cached`, the shares held back for preempted
rows. What is prepared ahead (`pend_*`) is a member of the engine and survives a
call that throws; everything else of `serve` is local to it. Left out: MTP
drafts, `encoder_ahead_seconds` (its budget is the KV budget over again), the
path without a batched encoder, the growth of the context itself.

**`ModelStore`** (`app/model_store.cpp`) -- `materialize` for artifacts of type
`file` and `tar-ranges` on POSIX, one file-system call per action: the lock, the
verification marker, the partial file and its revision marker, ranges, curl as a
child process, checksum, extraction, installation by rename, discarding. A file
is `Absent` or the sequence of its chunks, each named after the revision it
belongs to, or "bad". The descriptor of the lock is inherited by curl: when the
parent dies alone, its child holds the lock and goes on writing. Faults are a
crash (with or without curl), a call that fails, a server that sends other bytes
or no partial content, and bytes of the cache damaged between two pulls;
`MaxFaults` bounds their number. A matching SHA-256 is equality of contents; the
size and time stamp of a marker are one flag, `fresh`.

**`CodecWorker`** (`src/tts/magpietts/magpietts.cpp`, `audio_pp.cpp`) -- one
streaming synthesis: the producer (generate, `write_frame`, wait for the first
audio, `close`, `join`) and the worker (`next_work`, decode, write, flush, end).
A frame is its number. The condition variables are explicit; `asleep` says which
of them (work, room, first audio) somebody sleeps on. The audio a chunk holds back for the overlap window is
`pending`, what the callback took is `heard`. A *mode* is a setting of the codec:
stateful or rolling with history and future frames, with or without a window
and the flush of partial chunks, with a decoder that needs the device for itself.

**`TtsServer`** (`server/http/http_server.cpp`) extends it with the requests of
one owner: `claim` with its wait, the mutex of the runtime, the callback that
refuses audio once a newer request has claimed, the reply, the lease and its
destructor. One request synthesizes at a time, so one set of worker variables
serves all.

**`DecoderArena`** (`src/asr/model.cpp`) -- the rows of predictor state: used
and needs-reset maps, acquisition with its bounded wait, release in two steps
(under the lock, and the notification after it), the first prediction that
zeroes the row.

**`VoiceChat`** extends it with the sessions of `server/http/s2s_realtime.cpp`
and the streams of `src/s2s/pipeline.cpp`. A session is a server thread (`pc`)
that reads a message and does all it asks for; a step is the part between two
points another session or the stream's own thread can see. A stream takes its
place (`active_streams_`), a TTS pair, two rows and an LLM sequence, in this
order, from pools of the same size; each step may fail, and what was taken is
given back in the order of the handlers. `call` is the state machine of a tool
call: the text of a request is left out but for whether it parses, the tokens of
an acknowledgement or a response are counted. `takenEarly` is history: a chunk
took the response in before the request it waits beside was complete; the time at
which the client sent it is not part of the state, as the code does not look at
it. The thread that
extracts or injects is `fast`. The cancellation of these threads by barge-in is
not modelled since it cannot happen: its test is in the chunk loop, behind the
gate the flag closes. A chunk is one audio message; a residual chunk at the end
of a session is the same as one more message before it. That a session whose
finish throws ends without `session.end` is not told apart.

## 4. The runs

| run | instance | shows |
|---|---|---|
| `batcher` | 3 callers, 2 keys, hints 0..3, batch 2, queue 2, 2 closers | `NoLostCall`, `QuiescentAfterShutdown`, `ImplementsService`, `FullCohortLaunches` (a complete cohort starts **without** the timer), `ShutdownEnds`, `EveryCallAnswered` (with the timer) |
| `encoder` | 3 streams, 2 rows, 2 sessions each, inline and batched | `SlotOwnership`, `ContextIsOwn` |
| `streaming` | 4 participants, waves of 3, all three configurations; and one stream: both runners, right contexts 0 and 1, no, token and VAD endpointing, every set of voiced frames among the first 4, pushes of 5 or 10 samples up to 25 | `CohortIsReal`, `SleepersWaitInCurrent`; `FramesInOrder`, `FinalsAreUtterances` |
| `decode` | 2 streams, alone or in a wave, 2 operations, 2 executors, batch 2, depth 2 | `JobsAccounted`, `NobodySleepsOnWork`, `EveryCallAnswered`, `ShutdownEnds`, `ImplementsService` |
| `decode_ready_set` | as `decode` | finding 1: `ReadySetNeedsNoTimer` is violated |
| `salm_backend` | 1 client that can go away, a warm-up of 2 jobs, queue 2, an engine that may fail | `EveryRequestHeld`, `CancelledOnRequest`, `EveryRequestAnswered`, `ShutdownEnds`, `ImplementsService` |
| `salm_tickets` | 2 clients that can go away | finding 2: `FinishedTicketsAreIgnored` is violated |
| `salm_engine` | 2 slots, groups of 1, six loads of 2 or 3 requests of every kind, pools too small for their growth, any of some cancelled | `RowsAccounted`, `PoolSuffices`, `ImplementsContract` (the refinement of `ServeContract`), `EveryTicketDelivered` |
| `salm_prepared` | the first of these loads, 2 calls | finding 3: `PreparedIsCurrent` is violated |
| `model_store` | 2 processes that pin the same or different revisions, both kinds of artifact, 2 chunks, 3 faults | `ReturnedIsVerified`, `NeverSpliced`, `OneWriter`, `PullEnds`, `Recovers` |
| `tts` | 3 requests, 4 modes of the codec, chunks of 2 frames, depth 1, 2 frames per step, up to 4 frames | `OneLease`, `WorkerJoined`, `SuccessIsWhole`, `EveryRequestAnswered` |
| `voicechat` | 2 sessions, 1 with tools, 1 stream, 2 rows, 2 steps per chunk, timeout 3, 2 tool tokens, acknowledgements and responses of 3, up to 2 function outputs queued | `RowsAreOwn`, `StreamHasOneOwner`, `ResponseTakenAfterRequest`, `RefusedOnlyWhenFull`, `EveryWaitEnds` |

**Bounds and why they are enough.** Callers and streams never synchronise with
each other except through the shared object, so three give every interference
of two with a third. A batch of 2 with three callers makes batches short, full
and oversubscribed; a queue of 2 makes the third call find it full; one row
less than streams makes a claim fail; four participants and waves of three make
a wave overlap the next. `Epochs` counts calls modulo a bound: in the runs it is
1 (a repeated call is the same call), and the theorems hold for any. The streams
of `decode` are two since every claim is about a wave against one that is not in
it, or one stream's notification against another's; two operations and two
executors, of the three in the code (`kExecutorCount`), make one busy and one
free, or both busy. Three
requests of the speech-LLM backend make one queued, one in flight and one
arriving possible at once; the engine may fail, and be restarted, as often as
there are requests.

The loads of `salm_engine` are chosen so that each way through the loop is
taken: `contended` admits two sequences that cannot both grow, `tight` leaves one
that needs even the cells of the prompt cache, `again` fails in the encoder when
a preempted request is encoded anew, `aligned`, `oversized` and `encoded` mix the
kinds of requests that end elsewhere (at the validation, the encoder, the
admission, the alignment). `MaxCalls` is 1 there, since a call that throws takes
all its state with it but what is prepared; that is the subject of
`salm_prepared`. `MaxFaults` = 3 in `model_store` is a crash in a download, one in
the discarding or installation that follows, and damage or a bad transfer; two
chunks make a partial file differ from a complete one, and both processes may
pin either revision. In `tts` the frame queue fills (`Depth` 1), a partial chunk
is left (4 frames or fewer, in chunks of 2 with 2 looked ahead), and the newest
of three claims passes one that sleeps. In `voicechat` one stream means that each
of the four resources is contended by the session that comes and the one that
goes; two streams and three sessions, where two threads wait for rows at a time,
were beyond reach (more than eleven million states), so that which of two
sleepers a notification wakes is not explored. The lengths are the least that
need more than one chunk; of two queued function outputs (the code allows 64) one
is older than a call that the other answers.

In `streaming` a hop is 2 samples, half of the FFT window 3, an encoder frame 2
mel frames, and a chunk, its left context and its look-ahead 4 samples each;
silence of 2 encoder frames ends an utterance. 25 samples are 12 mel frames:
enough for two utterances that silence ends, an endpoint that leaves chunks in
the loop, trims in between, and a tail of every length, which pushes of 5 put at
all offsets. The VAD windows (7) divide neither. Pushes shorter than a hop, which
make no mel frame and leave the cache runner's VAD for a later step, are in the
model but not in this instance, where every push makes one. The two views share
a run and no variable.

Programs that loop for ever have no counter that grows: a session number is
modulo `Sessions`, an order is kept as a sequence of the jobs present. Nothing is
cut off by a state constraint.

**Symmetry** is used in runs of invariants only, over streams with identical
arguments and participants.

**Fairness.** Threads that can run do (`WF` on the steps of the worker, the
scheduler, the executors, and on the part of a call that must follow its
enqueue). A mutex that is free again and again is eventually obtained (`SF` on
the two executor actions that take the scheduler's mutex, and on a process that
takes the lock of an artifact). Callers need not call and nobody needs to shut
down. The timer is a separate assumption, `TimerFires`,
so that a property states whether it needs it: `WF` for the batcher; `SF` for
the decode scheduler, where a deadline is a point in time that the loop compares
with the clock every turn, and other notifications cannot put it off. The
coordinator's and encoder's runs are about safety and assume none. In
`SalmBackend` the worker runs, which includes that the engine progresses
(`serve` runs steps until it owes nothing), and who owes a notification delivers
it; cancellation is never needed for progress, and a failure of the engine is
possible but not fair. `SalmEngine` shows that the engine does progress: its
serving thread runs, and encoder and alignment jobs come to an end; the source
need never have another request. In `ModelStore` a process and a curl that live
go on. In `TtsServer` each request's thread and the worker run. In `VoiceChat`
the session's thread and the stream's thread run, and audio keeps coming while a
stream is open, which is what the timeouts of a tool call are counted in; the
60 s timer of the rows is not fair, so that no wait needs it.

**Deadlock** is checked in every run but those of `SalmEngine`, `ModelStore` and
`TtsServer`, whose programs really stop: calls, faults and requests are bounded
and each request is made once. There `EveryTicketDelivered`, `PullEnds` and
`EveryRequestAnswered` say that nobody is left waiting. In
`DecodeScheduler` the destructor is the end of the program, and `Terminated` lets
that state repeat; in `SalmBackend` `Quiet` does so when every request has
returned and the worker waits or has ended.

### Findings

1. *A step that ends can leave a ready set to the timer.* `end_decode_step`
   (`src/asr/model.cpp:1894`) lowers the number of admitted steps and notifies
   without the scheduler's mutex. Between the scheduler's read of that number
   (1004) and its wait (1030) the notification finds nobody asleep; the remaining
   steps are then all blocked in the ready queues, and the batch starts only at
   `max_queue_delay_us`. The comment at 571 promises the wakeup so that this does
   *not* happen. No call is lost (`EveryCallAnswered` holds with the timer); it
   costs latency.

2. *A late cancellation can reach a request of the next `serve` call.* A
   delivered job keeps its ticket: `done` (`src/speechlm/salm_recognizer.cpp:449`)
   does not reset it, and the failure handler (463) resets only the tickets of
   jobs in flight. A thread whose poll found its client gone just before the
   delivery may get the lock for `cancel` (389) after the engine has failed and
   the worker has started a new `serve` call, which counts from 0: the ticket it
   posts names another client's request. The comment at 392 says that finished
   tickets are ignored and tickets are reset when a call ends. Without an engine
   failure it cannot happen (`CancelledOnRequest`).

3. *A step prepared in a call that throws is launched by the next one.*
   `pend_ready` and `pend_lanes` are members of the engine
   (`src/speechlm/salm_engine.cpp:358`). When `llama_decode_launch` fails (1849)
   they stay set, and `serve` (2019-2043) initialises everything else. The
   backend restarts the engine; the first turn of the new call takes the branch
   of a pending step (2493), before anything was admitted, and launches lanes
   that point into the slots of the old call.

**Observations** that no run is about, but that a reader of the models will
meet:

* With `flush_partial_chunk` off the code and its docs disagree about a stateful
  codec. `src/tts/magpietts/config.cpp:274` says "Drop final partial codec chunk",
  `docs/tts/configuration.md:175` that the option decides whether to "emit a final
  partial codec chunk". But without the flush the producer calls `close_input()`
  (`src/tts/magpietts/magpietts.cpp:2012`), which sets `input_closed`, and
  `has_tokens_locked` of a stateful codec then takes whatever is left (980): the
  partial chunk is decoded and heard. `SuccessIsWhole` takes neither side: it asks
  for the last frames only with the flush, and without it allows less than a
  chunk, or the look-ahead, to be missing.
* A function output that arrives while a fast path runs is taken from its queue
  and dropped with the chunk (`src/s2s/pipeline.cpp:1609`); the call then ends by
  its timeout. Neither the `call_id` of an output nor the time it was sent at is
  looked at (1625-1633): one that comes after its call has timed out, or was sent
  while the request was still being extracted, or has been queued since before
  the call began (`server/http/s2s_realtime.cpp:759-777` queues up to 64), answers
  the call that is complete when a chunk takes it in.
  `ResponseTakenAfterRequest` is about that moment only: what was taken in before
  the request was complete is never injected.
* Barge-in cannot cancel a fast path: the comment at 1437 describes it, but its
  test is behind the gate. The cancel flags are raised when a stream ends.
* With a CTC model `FramesInOrder` needs `WholeFrameWindows`, which every default
  is but the code does not enforce (`src/asr/recognizer.cpp:179` only asks for a
  chunk above 0 and paddings of at least 0). A chunk or left context that is not a
  whole number of encoder frames makes the cursor advance by more audio than the
  frames that are emitted, or the skipped frames be fewer than the context
  (`chunk_out_frames_` and `skip_out` are truncated, `src/asr/runner.cpp:204`, 568);
  a look-ahead that with the last encoder frame does not cover half an FFT window
  makes a window emit less than its chunk. Audio is then skipped: TLC finds
  `FramesInOrder` violated with `Chunk` 5, `Left` 3, or `Half` 5 with `RightPad` 0
  in place of the values of the run, and not with `Half` 4 and `RightPad` 0.
* With `ctc_right_padding` 0 the last window may be too short for a mel frame;
  `process_window` then returns before `head_->finalize()` (559, 596), which the
  comment at 455 takes for done.
* `steps_exhausted` is a plain `bool` that the fast path writes and
  `process_chunk` reads before its gate (1605). Either outcome of the race is a
  chunk that is dropped or a session that ends, and the model has both.

## 5. What is proved

### The batcher

`EncoderProofs` begins with the batcher and proves for **every** set of callers, closers and keys,
every hint, batch size, queue depth and call numbering allowed by
`ConfigAssumption`, the configuration that `BatchingConfig` sanitises to:

* `Invariance`: `Spec => []IInv`;
* `TypeCorrect`, `NoCallIsLost`, `ShutdownLeavesNothing`: the type invariant and
  the two invariants of the run;
* `Implementation`: `Spec => Service!Spec`, the refinement of the run.

`NoLostCall` is not inductive. That a blocked caller's job is in the queue or in
the worker's hands must survive `Resolve`, which answers the head of the batch:
so results must belong to jobs position by position (`ResultsMatch`), a job must
be there once (`JobsAreDistinct`) and be the *current* call of its caller
(`JobsAreCurrent`), and a call that is in neither place must not be blocked
(`CallPhases`). That shutdown leaves nothing needs the worker's absence to imply
an empty queue (`WorkerPhases`) and no inline call to run while a closer holds
the lifecycle lock (`ShutdownPhases`). `IInv` is the conjunction of these with
`TypeOK`. The proof has a lemma per action, on a few
lemmas about appending to and filtering sequences; the refinement needs the
invariant to show that a promise is resolved once and that the abstract stage is
closed only when nobody is owed an answer.

### The encoder rows

The rest of `EncoderProofs` builds on that: every step of the encoder is a step
of the batcher or leaves it alone (`StepIsBatcherStep`), so `IInv` of the batcher
holds of it, and with it, for any streams, rows, chunk keys and batching:
`EncoderInvariance`, `EncoderTypeCorrect`, `RowsAreOwned` (`SlotOwnership`) and
`ContextBelongsToTheStream` (`ContextIsOwn`). That the graph meets only its own
context is not inductive. A row that nobody holds must be dirty
(`FreeRowsAreDirty`), a stream that owes no reset must have nothing foreign in its
row, and one past its first chunk must have settled its reset (`RowsAreSettled`);
a stream cannot die or reset in a call (`Occupied`), a call that was zeroed still
runs (`PreparedCalls`), and a success on its way from the worker to its caller
means that the row was written (`SuccessIsWritten`): this is what lets
`EncodeReturn` clear `needs_reset_`. What the graph leaves in the rows of others
is the lemma `RunSessionRows`, from the ownership of the rows.

### The ingress coordinator

`StreamingProofs` begins with the coordinator and proves for any participants,
groups and batch size allowed by `IngressAssumption`: `Invariance`,
`CohortIsTheWave` (`CohortIsReal`) and
`SleepersAreInTheOpenWave` (`SleepersWaitInCurrent`). The participant count may be
any number, since it is stale when it is used: the proof asks of it only that
`TargetOf` lies between 1 and the batch size. `IInv` says that the open wave
counts exactly those in it and is not yet full (`OpenWave`), that a released one
keeps its size until the last has left, so that its id is not reused under them
(`ReleasedWaves`), and which wave each place of `arrive` is in (`Places`).

### The streaming runner

The rest of `StreamingProofs` is about one stream, for any audio and any words:
`StreamInvariance`, `FramesStayInOrder` (`FramesInOrder`) and
`FinalsStayUtterances` (`FinalsAreUtterances`). `RunnerAssumption` asks for no more
than the constructor of `Recognizer` does: sizes above 0, paddings of at least 0.
The theorems hold for a transducer in each such geometry. For a CTC model they
have the hypothesis `WholeFrameWindows` in their statements (chunk and left
context of whole encoder frames, a look-ahead that with one encoder frame covers
half a window); the code does not enforce it, and without it they are false (see
the observations).

`StreamInv` ties three cursors together that the code advances apart: the audio
that is fed, the mel frames that were made of it, the encoder frames that were
decoded. `FrontEnd` says that the audio the next mel frame is computed from is
still buffered: trimming must not outrun the half window. `CacheHead` is for the
runner with a cache: its buffer `Holds` the frames from the overlap on, `Unpadded`
until `finalize()` and ending with the flush's zeros afterwards (`Padded`), so the
trimmed prefix is exactly what was decoded less the overlap. `BufferedHead` is for
the runner with windows: the buffer starts no later than the left edge of the
next `Window`, and the cursor is the decoded frames in samples; this is where
`WholeFrameWindows` is needed. `Given` is then what the head was told,
frame by frame, and `NothingLeft` that the loop ends, and `next()` returns, with no
chunk that is ready. The geometry is products, quotients and remainders of
constants. The solvers do badly on those, so each fact about them is a lemma
(`Distribute`, `TimesCancels`, `QuotientIs`, `WholeFrames`, `InHops`), cited by name.

`FinalsAreUtterances` needs `WordsInv` beside it. Published and pending words are
together an increasing enumeration (`Enumerates`) of what was said in the real
audio decoded so far. That is an induction over the frames of a chunk
(`WordsEnumerate`), by the least frame that would be an exception, and for this
`WordsOf` is a recursive function. Before `finalize()` only real audio is decoded
(`OnlyReal`). That silence does lie behind a final (`QuietBehind`) must survive
later audio: the last word the decoder signalled is not before any word
(`HeardLast`), the scan of the VAD has passed every frame before its position
(`Covers`), and the clock that silence is measured by counts the decoded frames
(`ClockIsDecoded`), not those that are merely buffered. An endpointer without a
VAD that can fire has a word to end, so a final that its silence ends is not empty.

### The model store

`ModelStoreProofs` proves for any processes, revisions, kinds of artifact, length
and number of faults (`StoreAssumption`: the names of processes are not those of
the other holders of the lock):

* `OneWriterAtATime`, from `LockInv`: who works holds the lock, and a curl
  belongs to a process that waits for it or has inherited the lock. The many
  steps that neither fork nor release are one case, `Inside`.
* `Invariance` and `ReturnsVerified`, from `LockInv` with `MarkerInv` (a fresh
  marker names the revision that is installed) and `PlaceInv` (what a process
  knows of the files at each place of `materialize`). Since one process works at
  a time, a step of it cannot spoil what another knows: the others know nothing
  (`OthersKnowNothing`).
* `RevisionsAreNotSpliced`, from `LockInv` with `SpliceInv`: besides the partial
  file under its revision marker, the curl that runs appends bytes of that
  revision, and a process between the removal of the old marker and the writing
  of the new one has no bytes of the old revision left.

### The speech requests

`TtsServerProofs` proves for any requests, modes and sizes allowed by
`WorkerAssumption`: `Invariance`, `LeaseIsExclusive` (`OneLease`) and
`WorkerIsJoined` (`WorkerJoined`). `IInv` adds to `OneLease` that the producer is
off exactly when no request synthesizes, and that a worker runs only beside a
producer (`RuntimeInUse`); that every way out joins the worker is the lemma
`ProducerStep`.

`SynthesisIsWhole` (`SuccessIsWhole`) is about a step, from success to the next
state, so it needs what has become of every frame until then. `AudioInv` says
that what was heard, what is held back for the overlap and what the worker has
in its hands are consecutive `Pieces` of the frames up to the last one read
(`Intact`), that the end of the input is announced once all frames are written
(`InputEnds`), and that nothing of one synthesis is left for the next
(`Reset`). It says so only of a worker that has not failed: that a failure always
reaches the producer, which then does not succeed, is part of `InputEnds`. At the
end of a success the worker has nothing left to read (`~HasTokens`): that bounds
what may be missing without the flush, and with it nothing is (`WholeOnSuccess`).

### The voicechat sessions

`VoiceChatProofs` proves for any number of sessions and any `max_streams`, from
`ArenaAssumption` and `VoiceChatAssumption` (two rows per stream, as the server
sizes the arena): `RowsBelongToOne` (`RowsAreOwn`), `OneOwner`
(`StreamHasOneOwner`) and `AdmittedUnlessFull` (`RefusedOnlyWhenFull`).

The arena comes first, as lemmas about its four operations (`AcquireInv`,
`ReleaseInv`, `PredictInv`, `SleepInv`): `ArenaInv` adds that rows are apart by
predictor, not only by thread, and that a *free* stale row has its flag up.
`AcquireInv` needs that the caller has no row yet, or one would leak; that is what
`RowPlaces` knows of each place of a session. `PairPlaces` says where it has a
pair, a sequence and a client that has not read `session.end`, `Owner` who runs
the stream, `ActiveIsExact` that `active_streams_` is the number of sessions
between their admission and the first step of their end. A step of a session
leaves these facts about all others alone (`Elsewhere`) and moves the count by the
session it adds or removes (`ActiveMoves`); the lemmas by kind of step prove that,
`GoodSteps` puts it together. The last theorem then compares sets: who is counted,
has a pair or a sequence is among those who occupy a stream. For the rows, two to
a stream, it is the pigeonhole principle (`RowsAreHeldByOthers`).

`ResponsesFollowTheRequest` (`ResponseTakenAfterRequest`) is about the conversation
of one session: what is injected was taken in by a chunk once the request was
complete, whenever it was sent. Its invariant, `Conversations`, says what a tool call may hold in each of
its states (`Sound`) and, since a request that is incomplete must not meet a
response, which places of the session and of its fast path allow one to be
incomplete (`Conversation`). A chunk's tokens are read one after the other by a
recursive function, so the proof is an induction over them: a set of numbers
that is not empty has a least member (`LeastNatural`), so there is no first token
after which the call is not sound (`ParseSound`).

### The decode scheduler

`DecodeSchedulerProofs` proves for any streams, executors, operations, cohorts,
batch size and depth allowed by `ConfigAssumption`: `Invariance`, `TypeCorrect`,
`JobsAreAccounted` (`JobsAccounted`), `NoLostWakeup` (`NobodySleepsOnWork`) and
`Implementation`, the refinement of `BatchService`.

The counters are exact only because a job is in one place. `QueuesHoldBlocked`,
`TasksHoldBlocked` and `WorkersHoldBlocked` say that a ready queue, a task and an
executor have jobs of blocked streams, each once and in no two places;
`WorkIsOfPhase` and `AnswersAreOwn` that an executor's results belong to its jobs
position by position, so that a promise is resolved once and by its own result;
`Counters` is then a sum over the places that every step moves by as much as it
moves jobs. That the scheduler does not doze over a full batch needs that there is
an oldest of the full queues, or `Choose` would refuse them all: `AgesAreOrder`
has `queued_at` a strict total order of the jobs that wait, and `OldestExists` finds
its least member by well-founded induction over finite sets. The
wakeups are three facts with a lemma each (`StepDozesOwed`, `StepSleepsOwed`,
`StepTasksOwed`); the last counts the executors that are awake, since one
notification wakes only one of them.

### The speech-LLM backend

`SalmBackendProofs` proves for any requests, warm-up jobs and depth allowed by
`BackendAssumption`: `Invariance`, `TypeCorrect`, `RequestsAreHeld`
(`EveryRequestHeld`), `CancelledIsAsked` (`CancelledOnRequest`) and
`Implementation`. `JobsHeld` is the first theorem without its counting: queue and
tickets in flight share no job, hold none twice and none but those of blocked
threads, and miss none. `EngineAgrees` says that backend and engine number alike
while a call runs. A ticket alone does not name a request: until a call
has thrown there is one call, tickets are not reused, and each posted one
belongs to a request that asked (`TicketsAreOwn`). Finding 2 is what happens
after that, and the reason for the hypothesis `~failed`. `DepthKept` is
there because `warmup` passes over the limit of the queue.

### The speech-LLM engine

`SalmEngineProofs` proves for any loads, slots, admission group, encoder jobs and
margin allowed by `EngineAssumption`: `Invariance`, `TypeCorrect`, `RowsAreAccounted`
(`RowsAccounted`), `PoolAlwaysSuffices` (`PoolSuffices`) and `Implementation`
(`ImplementsContract`).

The property counts in how many places a row is; the invariant says it with sets.
Each of the eleven places lists rows, no place lists one twice (`Apart`), and a
row is in one of them exactly if it is live, else in none (`Placed`, `Accounted`):
a step that moves rows is then an equation between sets of rows. Three things are
needed beside it. Rows are numbered without gaps, those that are not live are the
free ones and live ones have tickets of their own (`Numbered`): this is what lets
`Take` reuse a row and `ByTicket` put any set of rows in an order. The
counters are sums over what the rows keep, and stay exact since a preempted row
is on its way through the encoder, or ready, or in the admission round, but never
in a slot or among the results (`KeptInv`). And the locals of one part of the loop
are empty in the others, with the good entries of a round never more than the free
slots (`Phases`), or `Place` would seat two rows in one slot. The
operators of the model that recurse (`Total`, `Sorted`, `Only`) have a lemma each
for what a step needs: that a sum splits at a set, that the sorted rows list the
set, that filtering keeps the elements and their order apart. Each goes by the
least set or prefix that would be a counterexample.

The refinement needs to know which rows carry a cancellation (`CancelInv`).
`process_cancels` ends every row it can reach, so one that is live and still
flagged is inside a job, in the alignment, or has its result (`Cancellations`);
a token's result, an encoder error or an invalid request is then never that of a
flagged row (`MoreEnded`), as a row is in one place. A delivery ends the request
of its ticket only because live tickets are distinct. And serve() returns owing
nothing because what it saw idle stays empty while it drains (`Settled`) and a
live row is in some place.

That the cells of the pool always suffice is about a reservation made at admission
and a sequence that grows under it much later. `PoolInv` says that each slot has
written a cell for its prompt, for each token but the last, and for the steps
under way or prepared ahead, that these are inside its reservation, and that the
reservation has room for the next step except while `grow` is about to see to it
(`SlotsFit`); that the reservations fit the pool, with one allowance for the
prefix however many slots copied it (`PoolFits`); that the round being admitted
fits beside them, and none is admitted while a step is prepared (`RoundFits`); that a
prepared step has a lane for every active slot (`LanesRide`), or the cells it
writes would not be those that are counted; and that a preempted row has not used
up its budget (`KeptShort`), so that the share it comes back for is one it may ask.

### What is only model-checked

Liveness, since fairness and `ENABLED` are beyond the prover: `EveryCallAnswered`
and `ShutdownEnds` of the batcher and the scheduler, `FullCohortLaunches`,
`EveryRequestAnswered`, `EveryTicketDelivered`, `PullEnds` and `Recovers` of the
model store, `EveryWaitEnds` of the speech requests.

The induction theorems of the library take an operator as a parameter, which none
of the provers can instantiate. Where a proof needs induction it goes through the
well-ordering of the numbers or of finite sets, which are statements about sets.
A queue of a batcher is not shown to keep the order of a
key, which nothing in the code promises but which follows from the walk.

## 6. Not modelled

The numeric code (feature extraction, encoders, decoders, vocoders, samplers,
tensor graphs, GPU kernels and the ggml layer) is the larger part of the
repository. It has no state that outlives a call but the tensors, and a checker
of interleavings has nothing to say about it; in the models a graph run is a
step that succeeds or throws. Text processing (tokenizers, normalisation,
punctuation, inverse text normalisation, chat templates) is sequential and
pure. HTTP and gRPC adapters, the chat API, the C interface, the command line
and the engine registry translate requests for the engines above. Offline
conversion, clients and vendored code are outside.

Not modelled within the modelled parts, each named at its module: metrics,
`run_inline`, the device calls of the decoder, the offline runner, the VAD
masker, resampling and the text of streaming results, MTP drafts and the encoder's
look-ahead budget in the speech-LLM engine, artifacts of type `tar-prefix` and
the Windows build of the model store, the prefetch thread of long-form synthesis, audio,
text and turn taking of the voicechat; spurious wakeups, allocation failures,
and exceptions of the standard library other than those the code throws or
catches itself.
