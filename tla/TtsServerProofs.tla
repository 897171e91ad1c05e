--------------------------- MODULE TtsServerProofs ---------------------------
(* Proofs about TtsServer, for any requests and any settings of the codec:  *)
(* the lease is held by at most one request and given back by it, a codec   *)
(* worker lives only within the synthesis that started it, and a synthesis  *)
(* that succeeds has sent the audio of all its frames.                      *)
EXTENDS TtsServer, TLAPS

Phases == {"idle", "claim", "lock", "synth", "reply", "lease", "done"}

(* The producer is off exactly while no request synthesizes, and a worker   *)
(* runs only beside a producer.                                             *)
RuntimeInUse ==
    /\ producer # "off" <=> \E r \in Requests : phase[r] = "synth"
    /\ worker # "end" => producer # "off"

PhasesOK == phase \in [Requests -> Phases] /\ active \in BOOLEAN

IInv == PhasesOK /\ OneLease /\ RuntimeInUse

LEMMA InitIInv == Init => IInv
BY DEF Init, WorkInit, IInv, PhasesOK, Phases, OneLease, Holders, RuntimeInUse

(* What the producer and the worker do to the two facts the server sees.    *)
LEMMA ProducerStep ==
    ASSUME RuntimeInUse, producer # "off", Produce
    PROVE  /\ mode' = mode
           /\ worker' = worker
           /\ producer' = "off" => worker = "end"
<1>1. CASE Generate
  BY <1>1 DEF Generate, GiveUp, CancelWorker, workerVars
<1>2. CASE WriteFrame
  BY <1>2 DEF WriteFrame, GiveUp, workerVars
<1>3. CASE FirstAudio
  BY <1>3 DEF FirstAudio, workerVars
<1>4. CASE Close
  BY <1>4 DEF Close, CancelWorker, workerVars
<1>5. CASE Return
  BY <1>5 DEF Return, Joined
<1> QED BY <1>1, <1>2, <1>3, <1>4, <1>5 DEF Produce

LEMMA WorkerStep ==
    ASSUME NEW takes \in BOOLEAN, Work(takes)
    PROVE  mode' = mode /\ producer' = producer
<1>1. CASE NextWork
  BY <1>1 DEF NextWork, producerVars
<1>2. CASE Decoded(takes)
  BY <1>2 DEF Decoded, producerVars
<1>3. CASE DecodeFails
  BY <1>3 DEF DecodeFails, producerVars
<1>4. CASE Flush(takes)
  BY <1>4 DEF Flush, producerVars
<1> QED BY <1>1, <1>2, <1>3, <1>4 DEF Work

LEMMA StepIInv == IInv /\ [Next]_vars => IInv'
<1> SUFFICES ASSUME IInv, [Next]_vars PROVE IInv'
  OBVIOUS
<1> USE DEF IInv, PhasesOK, Phases
<1>1. ASSUME NEW r \in Requests, Arrive(r) PROVE IInv'
  BY <1>1 DEF Arrive, workVars, producerVars, workerVars, OneLease, Holders, RuntimeInUse
<1>2. ASSUME NEW r \in Requests, Claim(r) PROVE IInv'
  <2>1. PhasesOK' BY <1>2 DEF Claim
  <2>2. OneLease' BY <1>2 DEF Claim, workVars, OneLease, Holders
  <2>3. RuntimeInUse'
    BY <1>2 DEF Claim, workVars, producerVars, workerVars, RuntimeInUse
  <2> QED BY <2>1, <2>2, <2>3
<1>3. ASSUME NEW r \in Requests, Enter(r) PROVE IInv'
  <2>1. PhasesOK' BY <1>3 DEF Enter, coordinator
  <2>2. OneLease' BY <1>3 DEF Enter, Begin, coordinator, OneLease, Holders
  <2>3. RuntimeInUse' BY <1>3 DEF Enter, Begin, RuntimeInUse
  <2> QED BY <2>1, <2>2, <2>3
<1>4. ASSUME NEW r \in Requests, Synthesize(r) PROVE IInv'
  <2>1. /\ phase[r] = "synth" /\ Produce
        /\ phase' = IF producer' = "off" THEN [phase EXCEPT ![r] = "reply"] ELSE phase
        /\ active' = active
    BY <1>4 DEF Synthesize, coordinator
  <2>2. producer # "off" BY <2>1 DEF RuntimeInUse
  <2>3. mode' = mode /\ worker' = worker /\ (producer' = "off" => worker = "end")
    BY <2>1, <2>2, ProducerStep
  <2>4. PhasesOK' BY <2>1
  <2>5. OneLease' BY <2>1, <2>3 DEF OneLease, Holders
  <2>6. RuntimeInUse'
    BY <2>1, <2>2, <2>3 DEF RuntimeInUse, OneLease
  <2> QED BY <2>4, <2>5, <2>6
<1>5. ASSUME NEW r \in Requests, Deliver(r) PROVE IInv'
  <2>1. phase[r] = "synth" /\ phase' = phase /\ active' = active
    BY <1>5 DEF Deliver, coordinator
  <2>2. mode' = mode /\ producer' = producer
    BY <1>5, WorkerStep DEF Deliver
  <2>3. PhasesOK' BY <2>1
  <2>4. OneLease' BY <2>1, <2>2 DEF OneLease, Holders
  <2>5. RuntimeInUse' BY <2>1, <2>2 DEF RuntimeInUse
  <2> QED BY <2>3, <2>4, <2>5
<1>6. ASSUME NEW r \in Requests, Reply(r) PROVE IInv'
  <2>1. PhasesOK' BY <1>6 DEF Reply, coordinator, Held
  <2>2. OneLease' BY <1>6 DEF Reply, coordinator, workVars, Held, OneLease, Holders
  <2>3. RuntimeInUse'
    BY <1>6 DEF Reply, Held, workVars, producerVars, workerVars, RuntimeInUse
  <2> QED BY <2>1, <2>2, <2>3
<1>7. ASSUME NEW r \in Requests, Release(r) PROVE IInv'
  <2>1. PhasesOK' BY <1>7 DEF Release
  <2>2. OneLease' BY <1>7 DEF Release, workVars, OneLease, Holders
  <2>3. RuntimeInUse'
    BY <1>7 DEF Release, workVars, producerVars, workerVars, RuntimeInUse
  <2> QED BY <2>1, <2>2, <2>3
<1>8. ASSUME UNCHANGED vars PROVE IInv'
  BY <1>8 DEF vars, workVars, producerVars, workerVars, OneLease, Holders, RuntimeInUse
<1> QED BY <1>1, <1>2, <1>3, <1>4, <1>5, <1>6, <1>7, <1>8 DEF Next, Handle

(* The inductive invariant holds in every reachable state.                  *)
THEOREM Invariance == Spec => []IInv
BY InitIInv, StepIInv, PTL DEF Spec

(* At most one request holds the lease of the preemption coordinator, which *)
(* is marked active exactly then, and one synthesis runs at a time.         *)
THEOREM LeaseIsExclusive == Spec => []OneLease
BY Invariance, PTL DEF IInv

(* A codec worker runs only within the synthesis that started it.           *)
THEOREM WorkerIsJoined == Spec => []WorkerJoined
<1>1. IInv => WorkerJoined
  BY DEF IInv, RuntimeInUse, WorkerJoined
<1> QED BY <1>1, Invariance, PTL

-----------------------------------------------------------------------------
(* The audio of a synthesis.                                                *)

(* Frames that the callback has taken, that are held back and that are in   *)
(* the hands of the worker follow one another up to the last one read.      *)
Pieces(h, p, f, r) ==
    \E a, b \in Nat : /\ a <= b /\ b <= r
                      /\ h = Frames(0, a) /\ p = Frames(a, b) /\ f = Frames(b, r)

AudioTypes ==
    /\ mode \in Modes
    /\ producer \in {"off", "step", "write", "first", "close", "join"}
    /\ worker \in {"next", "decode", "flush", "tail", "end"}
    /\ closed \in BOOLEAN /\ aborted \in BOOLEAN /\ failed \in BOOLEAN /\ good \in BOOLEAN
    /\ sendFinal \in BOOLEAN /\ finalSent \in BOOLEAN
    /\ generated \in Nat /\ written \in Nat /\ read \in Nat
    /\ last \in Nat \cup {-1}
    /\ item.final \in BOOLEAN

(* Between two syntheses everything is as at the start.                     *)
Reset ==
    producer = "off" =>
      /\ ~closed /\ ~aborted /\ ~failed /\ ~sendFinal /\ ~finalSent /\ good
      /\ generated = 0 /\ written = 0 /\ read = 0 /\ last = -1
      /\ heard = <<>> /\ pending = <<>> /\ item = NoItem

(* What the producer has said, and to whom.                                 *)
InputEnds ==
    /\ failed => closed
    /\ aborted => closed /\ ~good
    /\ closed /\ ~failed => producer = "join"
    /\ ~good => producer = "join"
    /\ producer = "join" /\ good => closed /\ (mode.flush => Ended)
    /\ Ended => producer = "join" /\ closed /\ last = generated /\ written = generated + mode.future
    /\ ~Ended => written = generated
    /\ read <= written /\ (read > 0 => read + mode.future <= written)

(* Nothing is left behind: until the worker ends the frames it has taken    *)
(* are in pieces, one chunk at most is held back for the overlap, and it    *)
(* ends when it has nothing left to decode and the tail was given out.      *)
Intact ==
    ~failed =>
      /\ Pieces(heard, pending, item.frames, read)
      /\ worker # "decode" => item = NoItem
      /\ Direct => pending = <<>>
      /\ worker = "decode" => ~finalSent
      /\ sendFinal \/ item.final \/ finalSent => Ended
      /\ finalSent => ~HasTokens
      /\ worker = "flush" => finalSent
      /\ finalSent /\ worker # "flush" => pending = <<>>
      /\ worker \in {"tail", "end"} /\ producer # "off" /\ ~aborted => closed /\ ~HasTokens
      /\ worker = "end" /\ ~aborted => pending = <<>>

AudioInv == AudioTypes /\ Reset /\ InputEnds /\ Intact

LEMMA ModeFacts ==
    ASSUME mode \in Modes
    PROVE  /\ mode.future \in Nat /\ mode.history \in Nat
           /\ mode.stateful \in BOOLEAN /\ mode.flush \in BOOLEAN
           /\ mode.stateful => mode.future = 0
           /\ Chunk \in Nat \ {0}
BY WorkerAssumption DEF Mode

LEMMA FramesJoin ==
    ASSUME NEW a \in Nat, NEW b \in Nat, NEW c \in Nat, a <= b, b <= c
    PROVE  Frames(a, b) \o Frames(b, c) = Frames(a, c)
BY DEF Frames

LEMMA FramesEmpty ==
    ASSUME NEW a \in Nat, NEW b \in Nat, a <= b
    PROVE  Frames(a, b) = <<>> <=> a = b
BY DEF Frames

LEMMA NoPieces == Pieces(<<>>, <<>>, <<>>, 0)
BY FramesEmpty DEF Pieces

(* A chunk is read behind what was read before.                             *)
LEMMA PiecesRead ==
    ASSUME NEW h, NEW p, NEW r \in Nat, NEW e \in Nat, r <= e, Pieces(h, p, <<>>, r)
    PROVE  Pieces(h, p, Frames(r, e), e)
<1>1. PICK a \in Nat, b \in Nat :
        a <= b /\ b <= r /\ h = Frames(0, a) /\ p = Frames(a, b) /\ <<>> = Frames(b, r)
  BY DEF Pieces
<1>2. b = r
  BY <1>1, FramesEmpty
<1> QED
  BY <1>1, <1>2 DEF Pieces

(* What is held back goes out and the chunk is held back, or goes out too.  *)
LEMMA PiecesMove ==
    ASSUME NEW h, NEW p, NEW f, NEW r \in Nat, Pieces(h, p, f, r)
    PROVE  /\ Pieces(h \o p, f, <<>>, r)
           /\ p = <<>> => Pieces(h \o f, <<>>, <<>>, r)
           /\ f = <<>> => Pieces(h \o p, <<>>, <<>>, r)
           /\ p = <<>> /\ f = <<>> => h = Frames(0, r)
<1>1. PICK a \in Nat, b \in Nat :
        a <= b /\ b <= r /\ h = Frames(0, a) /\ p = Frames(a, b) /\ f = Frames(b, r)
  BY DEF Pieces
<1>2. <<>> = Frames(r, r)
  BY FramesEmpty
<1>3. h \o p = Frames(0, b)
  <2>1. Frames(0, a) \o Frames(a, b) = Frames(0, b)
    BY <1>1, FramesJoin, 0 \in Nat, 0 <= a
  <2> QED BY <1>1, <2>1
<1>4. Pieces(h \o p, f, <<>>, r)
  BY <1>1, <1>2, <1>3 DEF Pieces
<1>5. ASSUME p = <<>> PROVE Pieces(h \o f, <<>>, <<>>, r)
  <2>1. a = b
    BY <1>1, <1>5, FramesEmpty
  <2>2. Frames(0, b) \o Frames(b, r) = Frames(0, r)
    BY <1>1, FramesJoin, 0 \in Nat, 0 <= b
  <2>3. h \o f = Frames(0, r)
    BY <1>1, <2>1, <2>2
  <2> QED BY <1>2, <2>3 DEF Pieces
<1>6. ASSUME f = <<>> PROVE Pieces(h \o p, <<>>, <<>>, r)
  BY <1>4, <1>6
<1>7. ASSUME p = <<>>, f = <<>> PROVE h = Frames(0, r)
  <2>1. a = b /\ b = r
    BY <1>1, <1>7, FramesEmpty
  <2> QED BY <1>1, <2>1
<1> QED
  BY <1>4, <1>5, <1>6, <1>7

LEMMA InitAudio == Init => AudioInv
<1> SUFFICES ASSUME Init PROVE AudioInv
  OBVIOUS
<1>1. Pieces(heard, pending, item.frames, read)
  BY NoPieces DEF Init, WorkInit, NoItem
<1>2. AudioTypes /\ Reset
  BY DEF Init, WorkInit, AudioTypes, Reset, NoItem
<1>3. InputEnds
  BY ModeFacts DEF Init, WorkInit, InputEnds, Ended
<1>4. Intact
  BY <1>1 DEF Init, WorkInit, Intact, Ended, NoItem
<1> QED
  BY <1>2, <1>3, <1>4 DEF AudioInv

(* A synthesis begins with nothing read.                                    *)
LEMMA BeginKeepsAudio == AudioInv /\ Begin => AudioInv'
<1> SUFFICES ASSUME AudioInv, Begin PROVE AudioInv'
  OBVIOUS
<1> USE DEF Begin, queue, flags, final, first, AudioInv
<1>1. ~closed /\ ~aborted /\ ~failed /\ ~sendFinal /\ ~finalSent /\ good
  BY DEF Reset
<1>2. /\ generated = 0 /\ written = 0 /\ read = 0 /\ last = -1
      /\ heard = <<>> /\ pending = <<>> /\ item = NoItem
  BY DEF Reset
<1>3. AudioTypes' /\ Reset'
  BY DEF AudioTypes, Reset
<1>4. InputEnds'
  BY <1>1, <1>2, ModeFacts DEF InputEnds, Ended, AudioTypes
<1>5. Intact'
  BY <1>1, <1>2, NoPieces DEF Intact, Ended, NoItem
<1> QED
  BY <1>3, <1>4, <1>5

(* The steps of the producer that leave the queue alone but for its end.    *)
LEMMA ReturnKeepsAudio == AudioInv /\ Return => AudioInv'
<1> SUFFICES ASSUME AudioInv, Return PROVE AudioInv'
  OBVIOUS
<1>1. AudioTypes' /\ Reset'
  BY DEF Return, AudioInv, AudioTypes, Reset, NoItem
<1>2. InputEnds'
  BY ModeFacts DEF Return, InputEnds, Ended, AudioInv, AudioTypes
<1>3. Pieces(heard', pending', item'.frames, read')
  BY NoPieces DEF Return, NoItem
<1>4. Intact'
  BY <1>3 DEF Return, Intact, Ended, Joined, NoItem
<1> QED
  BY <1>1, <1>2, <1>4 DEF AudioInv

(* HasTokens does not change while nobody writes, reads or ends the input.  *)
LEMMA SameTokens ==
    ASSUME UNCHANGED <<mode, queue, closed>>
    PROVE  (HasTokens' <=> HasTokens) /\ (Ended' <=> Ended)
BY DEF HasTokens, Buffered, Ended, queue

(* Whoever gives up closes the input: what the worker still reads does not  *)
(* count, for the result is an error.                                       *)
LEMMA GiveUpKeepsAudio ==
    ASSUME AudioInv, producer \in {"step", "write", "close"}, GiveUp \/ CancelWorker,
           generated' = generated,
           UNCHANGED <<mode, queue, final, workerVars>>
    PROVE  AudioInv'
<1> USE DEF AudioInv, queue, final, workerVars
<1>1. /\ closed' = TRUE /\ good' = FALSE /\ producer' = "join" /\ failed' = failed
      /\ aborted' \in BOOLEAN /\ (aborted => aborted')
  BY DEF GiveUp, CancelWorker, AudioTypes
<1>2. AudioTypes' /\ Reset'
  BY <1>1 DEF AudioTypes, Reset
<1>3. ~Ended /\ ~Ended'
  BY DEF InputEnds, Ended
<1>4. InputEnds'
  BY <1>1, <1>3 DEF InputEnds
<1>5. closed /\ ~failed => FALSE
  BY DEF InputEnds
<1>6. Intact'
  <2> SUFFICES ASSUME ~failed PROVE Intact'
    BY <1>1 DEF Intact
  <2>1. worker \notin {"tail", "end"} \/ aborted
    BY <1>5 DEF Intact, InputEnds
  <2>2. ~finalSent /\ ~sendFinal /\ ~item.final
    BY <1>3 DEF Intact
  <2> QED BY <1>1, <1>3, <2>1, <2>2 DEF Intact, Direct
<1> QED
  BY <1>2, <1>4, <1>6

LEMMA GenerateKeepsAudio == AudioInv /\ Generate => AudioInv'
<1> SUFFICES ASSUME AudioInv, Generate PROVE AudioInv'
  OBVIOUS
<1>1. producer = "step" /\ UNCHANGED <<mode, generated, queue, final, workerVars>>
  BY DEF Generate
<1>2. CASE GiveUp \/ CancelWorker
  BY <1>1, <1>2, GiveUpKeepsAudio
<1>3. CASE ~GiveUp /\ ~CancelWorker
  <2>1. /\ ~failed /\ producer' \in {"step", "write", "close"} /\ UNCHANGED <<flags, good>>
    BY <1>3 DEF Generate
  <2>2. ~closed /\ good
    BY <1>1, <2>1 DEF AudioInv, InputEnds
  <2>3. AudioTypes' /\ Reset'
    BY <1>1, <2>1 DEF AudioInv, AudioTypes, Reset, queue, final, flags, workerVars
  <2>4. InputEnds'
    BY <1>1, <2>1, <2>2 DEF AudioInv, InputEnds, Ended, queue, flags
  <2>5. (HasTokens' <=> HasTokens) /\ (Ended' <=> Ended)
    BY <1>1, <2>1, SameTokens DEF flags
  <2>6. Intact'
    BY <1>1, <2>1, <2>5 DEF AudioInv, Intact, Direct, queue, final, flags, workerVars
  <2> QED BY <2>3, <2>4, <2>6 DEF AudioInv
<1> QED
  BY <1>2, <1>3

LEMMA WriteKeepsAudio == AudioInv /\ WriteFrame => AudioInv'
<1> SUFFICES ASSUME AudioInv, WriteFrame PROVE AudioInv'
  OBVIOUS
<1>1. producer = "write" /\ UNCHANGED <<mode, read, last, final, workerVars>>
  BY DEF WriteFrame
<1>2. CASE GiveUp
  <2>1. generated' = generated /\ written' = written
    BY <1>2 DEF WriteFrame, GiveUp, AudioInv, AudioTypes
  <2> QED BY <1>1, <1>2, <2>1, GiveUpKeepsAudio DEF queue
<1>3. CASE ~GiveUp
  <2>1. /\ ~failed /\ ~closed /\ producer' \in {"write", "first", "step"}
        /\ UNCHANGED <<flags, good>>
        /\ \/ written' = written /\ generated' = generated
           \/ written' = written + 1 /\ generated' = generated + 1
    BY <1>1, <1>3 DEF WriteFrame
  <2>2. good /\ ~Ended /\ ~Ended'
    BY <1>1 DEF AudioInv, InputEnds, Ended
  <2>3. AudioTypes' /\ Reset'
    BY <1>1, <2>1 DEF AudioInv, AudioTypes, Reset, final, flags, workerVars
  <2>4. InputEnds'
    BY <1>1, <2>1, <2>2, ModeFacts DEF AudioInv, AudioTypes, InputEnds, flags
  <2>5. ~finalSent /\ (worker \in {"tail", "end"} => aborted)
    BY <1>1, <2>1, <2>2 DEF AudioInv, Intact
  <2>6. Intact'
    BY <1>1, <2>1, <2>2, <2>5 DEF AudioInv, Intact, Direct, final, flags, workerVars
  <2> QED BY <2>3, <2>4, <2>6 DEF AudioInv
<1> QED
  BY <1>2, <1>3

LEMMA FirstKeepsAudio == AudioInv /\ FirstAudio => AudioInv'
<1> SUFFICES ASSUME AudioInv, FirstAudio PROVE AudioInv'
  OBVIOUS
<1>1. /\ producer = "first" /\ producer' \in {"first", "step"}
      /\ UNCHANGED <<mode, generated, good, queue, flags, final, workerVars>>
  BY DEF FirstAudio
<1>2. (HasTokens' <=> HasTokens) /\ (Ended' <=> Ended)
  BY <1>1, SameTokens DEF flags
<1>3. AudioTypes' /\ Reset'
  BY <1>1 DEF AudioInv, AudioTypes, Reset, queue, final, flags, workerVars
<1>4. InputEnds'
  BY <1>1 DEF AudioInv, InputEnds, Ended, queue, flags
<1>5. Intact'
  BY <1>1, <1>2 DEF AudioInv, Intact, Direct, queue, final, flags, workerVars
<1> QED
  BY <1>3, <1>4, <1>5 DEF AudioInv

(* The end of the frames closes the input, with padding behind them.        *)
LEMMA CloseKeepsAudio == AudioInv /\ Close => AudioInv'
<1> SUFFICES ASSUME AudioInv, Close PROVE AudioInv'
  OBVIOUS
<1>1. producer = "close" /\ UNCHANGED <<mode, generated, final, workerVars>>
  BY DEF Close
<1>2. CASE CancelWorker /\ UNCHANGED queue
  BY <1>1, <1>2, GiveUpKeepsAudio
<1>3. CASE ~(CancelWorker /\ UNCHANGED queue)
  <2>1. /\ generated > 0
        /\ IF mode.flush THEN last' = written /\ written' = written + mode.future
                         ELSE UNCHANGED <<last, written>>
        /\ closed' = TRUE /\ producer' = "join"
        /\ UNCHANGED <<read, aborted, failed, good>>
    BY <1>3 DEF Close
  <2>2. good /\ ~Ended /\ (closed => failed)
    BY <1>1 DEF AudioInv, InputEnds
  <2>3. mode.future \in Nat /\ mode.flush \in BOOLEAN
    BY ModeFacts DEF AudioInv, AudioTypes
  <2>4. AudioTypes'
    BY <1>1, <2>1, <2>3 DEF AudioInv, AudioTypes, final, workerVars
  <2>5. Reset'
    BY <2>1 DEF Reset
  <2>6. InputEnds'
    BY <1>1, <2>1, <2>2, <2>3 DEF AudioInv, AudioTypes, InputEnds, Ended
  <2>7. Intact'
    <3> SUFFICES ASSUME ~failed PROVE Intact'
      BY <2>1 DEF Intact
    <3>1. ~finalSent /\ ~sendFinal /\ ~item.final /\ (worker \in {"tail", "end"} => aborted)
      BY <1>1, <2>2 DEF AudioInv, Intact
    <3> QED BY <1>1, <2>1, <3>1 DEF AudioInv, Intact, Direct, final, workerVars
  <2> QED BY <2>4, <2>5, <2>6, <2>7 DEF AudioInv
<1> QED
  BY <1>2, <1>3

(* The worker.                                                              *)
LEMMA FailKeepsAudio ==
    ASSUME AudioInv, producer # "off", SetFailed,
           UNCHANGED <<mode, producerVars, written, last, read>>,
           finalSent' = finalSent, sendFinal' = sendFinal,
           item'.final \in BOOLEAN
    PROVE  AudioInv'
<1> USE DEF SetFailed, producerVars
<1>1. AudioTypes' /\ Reset'
  BY DEF AudioInv, AudioTypes, Reset
<1>2. InputEnds'
  BY DEF AudioInv, InputEnds, Ended
<1>3. Intact'
  BY DEF Intact
<1> QED
  BY <1>1, <1>2, <1>3 DEF AudioInv

LEMMA NextWorkKeepsAudio == AudioInv /\ producer # "off" /\ NextWork => AudioInv'
<1> SUFFICES ASSUME AudioInv, producer # "off", NextWork PROVE AudioInv'
  OBVIOUS
<1>1. /\ worker = "next"
      /\ UNCHANGED <<mode, producerVars, written, last, flags, pending, heard>>
  BY DEF NextWork
<1> DEFINE Takes == /\ ~aborted /\ HasTokens
                    /\ item' = [frames |-> Frames(read, ChunkEnd),
                          final |-> Ended /\ last <= (IF mode.stateful THEN ChunkEnd ELSE written)]
                    /\ read' = ChunkEnd
                    /\ worker' = "decode" /\ UNCHANGED final
<1>2. CASE Takes
  <2>1. ChunkEnd \in Nat /\ read <= ChunkEnd /\ ChunkEnd + mode.future <= written
    BY <1>2, ModeFacts DEF ChunkEnd, HasTokens, Buffered, AudioInv, AudioTypes, InputEnds
  <2>2. item'.final \in BOOLEAN /\ (item'.final => Ended) /\ item'.frames = Frames(read, ChunkEnd)
    BY <1>2
  <2>3. Ended' <=> Ended
    BY <1>1 DEF Ended
  <2>4. AudioTypes' /\ Reset'
    <3>1. /\ read' \in Nat /\ item'.final \in BOOLEAN /\ worker' = "decode" /\ producer' # "off"
          /\ UNCHANGED <<mode, producer, closed, aborted, failed, good, sendFinal, finalSent,
                        generated, written, last>>
      BY <1>1, <1>2, <2>1, <2>2 DEF producerVars, flags, final
    <3> HIDE DEF Takes
    <3>2. Reset'
      BY <3>1 DEF Reset
    <3>3. AudioTypes'
      BY <3>1 DEF AudioInv, AudioTypes
    <3> QED BY <3>2, <3>3
  <2>5. InputEnds'
    <3>1. read' <= written /\ read' + mode.future <= written
      BY <1>2, <2>1, ModeFacts DEF AudioInv, AudioTypes
    <3>2. UNCHANGED <<mode, producer, closed, aborted, failed, good, generated, written, last>>
      BY <1>1 DEF producerVars, flags
    <3> QED BY <2>3, <3>1, <3>2 DEF AudioInv, InputEnds
  <2>6. Intact'
    <3> SUFFICES ASSUME ~failed PROVE Intact'
      BY <1>1 DEF Intact, flags
    <3>1. Pieces(heard, pending, <<>>, read)
      BY <1>1 DEF AudioInv, Intact, NoItem
    <3>2. Pieces(heard, pending, Frames(read, ChunkEnd), ChunkEnd)
      BY <2>1, <3>1, PiecesRead DEF AudioInv, AudioTypes
    <3>3. ~finalSent
      BY <1>2 DEF AudioInv, Intact
    <3>4. Pieces(heard', pending', item'.frames, read')
      BY <1>1, <1>2, <2>2, <3>2
    <3> QED BY <1>1, <1>2, <2>2, <2>3, <3>3, <3>4 DEF AudioInv, Intact, Direct, final
  <2> QED BY <2>4, <2>5, <2>6 DEF AudioInv
<1>3. CASE ~Takes
  <2>1. /\ UNCHANGED <<item, read>>
        /\ \/ aborted /\ worker' = "tail" /\ UNCHANGED final
           \/ /\ ~HasTokens /\ sendFinal /\ sendFinal' = FALSE /\ finalSent' = TRUE
              /\ worker' = "flush"
           \/ /\ ~HasTokens /\ worker' = (IF closed THEN "tail" ELSE "next")
              /\ UNCHANGED final
    BY <1>1, <1>3 DEF NextWork, AudioInv, AudioTypes
  <2>2. (HasTokens' <=> HasTokens) /\ (Ended' <=> Ended)
    BY <1>1, <2>1, SameTokens DEF flags, queue
  <2>3. AudioTypes' /\ Reset'
    BY <1>1, <2>1 DEF AudioInv, AudioTypes, Reset, producerVars, flags, final
  <2>4. InputEnds'
    BY <1>1, <2>1 DEF AudioInv, InputEnds, Ended, producerVars, flags
  <2>5. Intact'
    BY <1>1, <2>1, <2>2 DEF AudioInv, Intact, Direct, producerVars, flags, final
  <2> QED BY <2>3, <2>4, <2>5 DEF AudioInv
<1> QED
  BY <1>2, <1>3

LEMMA DecodedKeepsAudio ==
    ASSUME AudioInv, producer # "off", NEW takes \in BOOLEAN, Decoded(takes) \/ DecodeFails
    PROVE  AudioInv'
<1>1. /\ worker = "decode" /\ UNCHANGED <<mode, producerVars, queue, finalSent>>
  BY DEF Decoded, DecodeFails, final
<1>2. CASE SetFailed
  <2>1. sendFinal' = sendFinal /\ item' = item
    BY <1>1, <1>2 DEF Decoded, DecodeFails, SetFailed, final
  <2> QED BY <1>1, <1>2, <2>1, FailKeepsAudio DEF queue, AudioInv, AudioTypes
<1>3. CASE ~SetFailed
  <2>1. /\ heard' = heard \o Output
        /\ pending' = IF Direct THEN <<>> ELSE item.frames
        /\ sendFinal' = (sendFinal \/ item.final)
        /\ worker' = "next" /\ item' = NoItem /\ UNCHANGED flags
    BY <1>3 DEF Decoded, DecodeFails
  <2>2. (HasTokens' <=> HasTokens) /\ (Ended' <=> Ended)
    BY <1>1, <2>1, SameTokens DEF flags
  <2>3. AudioTypes' /\ Reset'
    BY <1>1, <2>1 DEF AudioInv, AudioTypes, Reset, producerVars, queue, flags, NoItem
  <2>4. InputEnds'
    BY <1>1, <2>1 DEF AudioInv, InputEnds, Ended, producerVars, queue, flags
  <2>5. Intact'
    <3> SUFFICES ASSUME ~failed PROVE Intact'
      BY <2>1 DEF Intact, flags
    <3>1. Pieces(heard, pending, item.frames, read) /\ (Direct => pending = <<>>) /\ ~finalSent
      BY <1>1 DEF AudioInv, Intact
    <3>2. Direct' <=> Direct
      BY <1>1 DEF Direct
    <3>3. Pieces(heard', pending', <<>>, read)
      <4>1. CASE Direct
        BY <2>1, <3>1, <4>1, PiecesMove DEF Output, AudioInv, AudioTypes
      <4>2. CASE ~Direct
        BY <2>1, <3>1, <4>2, PiecesMove DEF Output, AudioInv, AudioTypes
      <4> QED BY <4>1, <4>2
    <3>4. read' = read /\ item'.frames = <<>> /\ ~item'.final
      BY <1>1, <2>1 DEF queue, NoItem
    <3>5. sendFinal' => Ended'
      BY <2>1, <2>2 DEF AudioInv, Intact
    <3> QED BY <1>1, <2>1, <3>1, <3>2, <3>3, <3>4, <3>5 DEF Intact
  <2> QED BY <2>3, <2>4, <2>5 DEF AudioInv
<1> QED
  BY <1>2, <1>3

LEMMA FlushKeepsAudio ==
    ASSUME AudioInv, producer # "off", NEW takes \in BOOLEAN, Flush(takes)
    PROVE  AudioInv'
<1>1. /\ worker \in {"flush", "tail"} /\ UNCHANGED <<mode, producerVars, queue, final, item>>
  BY DEF Flush
<1>2. CASE SetFailed
  BY <1>1, <1>2, FailKeepsAudio DEF queue, final, AudioInv, AudioTypes
<1>3. CASE ~SetFailed
  <2>1. /\ UNCHANGED flags
        /\ \/ /\ worker = "tail" /\ (aborted \/ failed \/ finalSent)
              /\ worker' = "end" /\ UNCHANGED <<pending, heard>>
           \/ /\ pending' = <<>> /\ heard' = heard \o pending
              /\ worker' = IF worker = "flush" THEN "next" ELSE "end"
    BY <1>3 DEF Flush
  <2>2. (HasTokens' <=> HasTokens) /\ (Ended' <=> Ended)
    BY <1>1, <2>1, SameTokens DEF flags
  <2>3. AudioTypes' /\ Reset'
    BY <1>1, <2>1 DEF AudioInv, AudioTypes, Reset, producerVars, queue, flags, final
  <2>4. InputEnds'
    BY <1>1, <2>1 DEF AudioInv, InputEnds, Ended, producerVars, queue, flags
  <2>5. Intact'
    <3> SUFFICES ASSUME ~failed PROVE Intact'
      BY <2>1 DEF Intact, flags
    <3>1. Pieces(heard, pending, <<>>, read) /\ item = NoItem
      BY <1>1 DEF AudioInv, Intact, NoItem
    <3>2. Pieces(heard', pending', <<>>, read)
      <4>1. Pieces(heard \o pending, <<>>, <<>>, read)
        BY <3>1, PiecesMove DEF AudioInv, AudioTypes
      <4> QED BY <2>1, <3>1, <4>1
    <3>3. Pieces(heard', pending', item'.frames, read')
      BY <1>1, <3>1, <3>2 DEF queue, NoItem
    <3>4. Direct => pending' = <<>>
      BY <2>1 DEF AudioInv, Intact
    <3>5. Direct' <=> Direct
      BY <1>1 DEF Direct
    <3>6. worker' \notin {"decode", "flush"}
      BY <2>1
    <3>7. finalSent' => pending' = <<>>
      BY <1>1, <2>1 DEF AudioInv, Intact, final
    <3>8. worker' \in {"tail", "end"} /\ ~aborted' => closed' /\ ~HasTokens' /\ pending' = <<>>
      <4>1. worker' \in {"tail", "end"} => worker = "tail"
        BY <1>1, <2>1
      <4> QED BY <1>1, <2>1, <2>2, <3>7, <4>1 DEF AudioInv, Intact, flags, final
    <3> QED BY <1>1, <2>2, <3>1, <3>3, <3>4, <3>5, <3>6, <3>7, <3>8
               DEF AudioInv, Intact, final
  <2> QED BY <2>3, <2>4, <2>5 DEF AudioInv
<1> QED
  BY <1>2, <1>3

LEMMA StepAudio == IInv /\ AudioInv /\ [Next]_vars => AudioInv'
<1> SUFFICES ASSUME IInv, AudioInv, [Next]_vars PROVE AudioInv'
  OBVIOUS
<1>1. CASE UNCHANGED workVars
  <2>1. UNCHANGED <<mode, queue, closed>>
    BY <1>1 DEF workVars, flags
  <2>2. (HasTokens' <=> HasTokens) /\ (Ended' <=> Ended)
    BY <2>1, SameTokens
  <2>3. AudioTypes' /\ Reset'
    BY <1>1 DEF AudioInv, AudioTypes, Reset, workVars, producerVars, workerVars, queue, flags, final
  <2>4. InputEnds'
    BY <1>1 DEF AudioInv, InputEnds, Ended, workVars, producerVars, queue, flags
  <2>5. Intact'
    BY <1>1, <2>2 DEF AudioInv, Intact, Direct, workVars, producerVars, workerVars, queue, flags,
                      final
  <2> QED BY <2>3, <2>4, <2>5 DEF AudioInv
<1>2. ASSUME NEW r \in Requests, Enter(r) PROVE AudioInv'
  BY <1>2, BeginKeepsAudio DEF Enter
<1>3. ASSUME NEW r \in Requests, Synthesize(r) PROVE AudioInv'
  BY <1>3, GenerateKeepsAudio, WriteKeepsAudio, FirstKeepsAudio, CloseKeepsAudio,
     ReturnKeepsAudio DEF Synthesize, Produce
<1>4. ASSUME NEW r \in Requests, Deliver(r) PROVE AudioInv'
  <2>1. producer # "off"
    BY <1>4 DEF Deliver, IInv, RuntimeInUse
  <2>2. PICK takes \in BOOLEAN : Work(takes)
    BY <1>4 DEF Deliver
  <2> QED BY <2>1, <2>2, NextWorkKeepsAudio, DecodedKeepsAudio, FlushKeepsAudio DEF Work
<1>5. CASE UNCHANGED vars
  BY <1>1, <1>5 DEF vars
<1> QED
  BY <1>1, <1>2, <1>3, <1>4, <1>5 DEF Next, Handle, Arrive, Claim, Reply, Release

AnswersOK == answer \in [Requests -> {"none", "audio", "refused", "error"}]

LEMMA AnswerSteps == (Init => AnswersOK) /\ (AnswersOK /\ [Next]_vars => AnswersOK')
BY DEF Init, AnswersOK, Next, Handle, vars, Arrive, Claim, Enter, Synthesize, Deliver, Reply,
       Release

(* What a synthesis that succeeds leaves behind.                            *)
Kept == \E kept \in 0 .. generated :
          /\ heard = Frames(0, kept)
          /\ mode.flush => kept = generated
          /\ generated - kept < Chunk \/ generated - kept <= mode.future

LEMMA WholeOnSuccess ==
    ASSUME AudioInv, Return, good, ~failed
    PROVE  pending = <<>> /\ Kept
<1>1. /\ producer = "join" /\ worker = "end" /\ ~aborted /\ closed /\ (mode.flush => Ended)
  BY DEF Return, Joined, AudioInv, InputEnds
<1>2. /\ Pieces(heard, pending, <<>>, read) /\ ~HasTokens /\ pending = <<>>
  BY <1>1 DEF AudioInv, Intact, NoItem
<1>3. heard = Frames(0, read)
  BY <1>2, PiecesMove DEF AudioInv, AudioTypes
<1>4. /\ read \in Nat /\ written \in Nat /\ generated \in Nat
      /\ mode.future \in Nat /\ Chunk \in Nat \ {0}
  BY ModeFacts DEF AudioInv, AudioTypes
<1>5. read \in 0 .. generated
  BY <1>4 DEF AudioInv, InputEnds
<1>6. mode.flush => read = generated
  BY <1>1, <1>2, <1>5, ModeFacts DEF AudioInv, AudioTypes, InputEnds, HasTokens, Buffered, Ended
<1>7. generated - read < Chunk \/ generated - read <= mode.future
  <2>1. Ended => generated - read <= mode.future
    BY <1>1, <1>2, <1>4, ModeFacts DEF AudioInv, InputEnds, HasTokens, Buffered
  <2>2. ~Ended => generated - read < Chunk \/ generated - read <= mode.future
    BY <1>1, <1>2, <1>4, ModeFacts DEF AudioInv, InputEnds, HasTokens, Buffered
  <2> QED BY <2>1, <2>2
<1> QED
  BY <1>2, <1>3, <1>5, <1>6, <1>7 DEF Kept

(* When a synthesis succeeds the callback has taken a first part of its     *)
(* frames, in order and without a gap; with the flush of partial chunks all *)
(* of them, without it all but less than a chunk or the look-ahead: for any *)
(* codec, chunk size and queue depth, however producer and worker           *)
(* interleave, fail or are stopped (finish_tokens, close_input, join).      *)
THEOREM SynthesisIsWhole == Spec => SuccessIsWhole
<1>1. ASSUME AudioInv, [Next]_vars, NEW r \in Requests,
             phase[r] = "synth", phase'[r] = "reply", answer'[r] # "error", IInv, AnswersOK
      PROVE  pending = <<>> /\ Kept
  <2>1. Synthesize(r)
    <3>1. \/ \E q \in Requests : Arrive(q) \/ Claim(q) \/ Enter(q) \/ Reply(q) \/ Release(q)
          \/ \E q \in Requests : Synthesize(q)
          \/ \E q \in Requests : Deliver(q)
          \/ UNCHANGED vars
      BY <1>1 DEF Next, Handle
    <3>2. CASE \E q \in Requests : Arrive(q) \/ Claim(q) \/ Enter(q) \/ Reply(q) \/ Release(q)
      BY <1>1, <3>2 DEF Arrive, Claim, Enter, Reply, Release, IInv, PhasesOK, Phases, Held
    <3>3. CASE \E q \in Requests : Synthesize(q)
      BY <1>1, <3>3 DEF Synthesize, IInv, OneLease
    <3>4. CASE (\E q \in Requests : Deliver(q)) \/ UNCHANGED vars
      BY <1>1, <3>4 DEF Deliver, vars
    <3> QED BY <3>1, <3>2, <3>3, <3>4
  <2>2. /\ Produce /\ producer' = "off"
        /\ answer' = IF ~(good /\ ~failed) THEN [answer EXCEPT ![r] = "error"] ELSE answer
    BY <1>1, <2>1 DEF Synthesize
  <2>3. Return
    BY <2>2 DEF Produce, Generate, WriteFrame, FirstAudio, Close, GiveUp, CancelWorker,
                AudioInv, AudioTypes
  <2>4. good /\ ~failed
    BY <1>1, <2>2 DEF AnswersOK
  <2> QED BY <1>1, <2>3, <2>4, WholeOnSuccess
<1>2. IInv /\ AnswersOK /\ AudioInv /\ [Next]_vars =>
        [\A r \in Requests : phase[r] = "synth" /\ phase'[r] = "reply" /\ answer'[r] # "error" =>
          /\ pending = <<>>
          /\ \E kept \in 0 .. generated :
               /\ heard = Frames(0, kept)
               /\ mode.flush => kept = generated
               /\ generated - kept < Chunk \/ generated - kept <= mode.future]_vars
  BY <1>1 DEF Kept
<1> QED
  BY <1>2, InitIInv, StepIInv, InitAudio, StepAudio, AnswerSteps, PTL DEF Spec, SuccessIsWhole
==============================================================================
