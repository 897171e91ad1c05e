-------------------------- MODULE CacheAwareEncoder --------------------------
(***************************************************************************)
(* The cache-aware streaming encoder: streams that own a row of the        *)
(* device-resident cache arena and encode their chunks through a shared    *)
(* MicroBatcher (src/src/asr/encoder/cache_aware_encoder.cpp), driven by   *)
(* CacheStreamRunner (src/src/asr/runner.cpp).                             *)
(*                                                                         *)
(* A row is the set of the sessions whose activations it holds; a session  *)
(* is one life of a stream between make_state or reset and the next. The   *)
(* batcher's callback is two critical sections of the compute mutex: it    *)
(* zeroes the rows that ask for it, then runs the graph.                   *)
(***************************************************************************)
EXTENDS MicroBatcher, Integers

CONSTANTS ArenaSlots,   \* arena_slots_
          First, Next_, \* the two chunk shapes, as batch keys
          Sessions      \* bound: sessions are counted modulo Sessions

ASSUME EncoderAssumption ==
  /\ ArenaSlots \in Nat \ {0}
  /\ {First, Next_} \subseteq Keys /\ First # Next_
  /\ Sessions \in Nat /\ Sessions >= 2

VARIABLES
  used,        \* slots_used_
  needReset,   \* slots_need_reset_
  slot,        \* slot[c]: State::slot_ of stream c
  needsReset,  \* needsReset[c]: State::needs_reset_
  row,         \* row[s]: whose activations the K/V/conv row s holds
  first,       \* first[c]: first_chunk_ of its runner
  session,     \* session[c]: number of its session
  prepared     \* calls whose row has been through zero_slots

stateVars == <<used, needReset, slot, needsReset>>
encoderVars == <<stateVars, row, first, session, prepared>>
allVars == <<vars, encoderVars>>

Slots  == 0 .. ArenaSlots - 1
NoSlot == -1

Open(c)    == slot[c] # NoSlot
Session(c) == <<c, session[c]>>
InBatch    == {batch[i][1] : i \in DOMAIN batch}

EncoderInit ==
  /\ Init
  /\ used = [s \in Slots |-> FALSE]
  /\ needReset = [s \in Slots |-> TRUE]
  /\ slot = [c \in Callers |-> NoSlot]
  /\ needsReset = [c \in Callers |-> FALSE]
  /\ row = [s \in Slots |-> {}]
  /\ first = [c \in Callers |-> TRUE]
  /\ session = [c \in Callers |-> 0]
  /\ prepared = {}

-----------------------------------------------------------------------------
(* The stream's own thread, outside a call.                                *)

\* Mutant of Acquire: the temporary that make_state returned still releases
\* the slot when it dies.
AcquireMovedFrom(c, s) ==
  /\ needReset' = [needReset EXCEPT ![s] = TRUE]
  /\ needsReset' = [needsReset EXCEPT ![c] = needReset[s]]
  /\ slot' = [slot EXCEPT ![c] = s]
  /\ UNCHANGED used

Acquire(c, s) ==
  /\ used' = [used EXCEPT ![s] = TRUE]
  /\ needReset' = [needReset EXCEPT ![s] = FALSE]
  /\ needsReset' = [needsReset EXCEPT ![c] = needReset[s]]
  /\ slot' = [slot EXCEPT ![c] = s]

FreeSlots == {s \in Slots : ~used[s]}

\* make_state hands out the lowest free slot; it throws, and changes nothing,
\* when there is none.
MakeState(c) ==
  /\ pc[c] = "idle" /\ ~Open(c)
  /\ \E s \in FreeSlots : (\A t \in FreeSlots : s <= t) /\ Acquire(c, s)
  /\ UNCHANGED <<vars, row, first, session, prepared>>

\* Mutant of Release: the next owner is not told to reset the row.
ReleaseDirty(s) ==
  /\ used' = [used EXCEPT ![s] = FALSE]
  /\ UNCHANGED needReset

Release(s) ==
  /\ needReset' = [needReset EXCEPT ![s] = TRUE]
  /\ used' = [used EXCEPT ![s] = FALSE]

\* ~State: the runner dies and another stream takes its name.
Destroy(c) ==
  /\ pc[c] = "idle" /\ Open(c)
  /\ Release(slot[c])
  /\ slot' = [slot EXCEPT ![c] = NoSlot]
  /\ needsReset' = [needsReset EXCEPT ![c] = FALSE]
  /\ first' = [first EXCEPT ![c] = TRUE]
  /\ session' = [session EXCEPT ![c] = (@ + 1) % Sessions]
  /\ UNCHANGED <<vars, row, prepared>>

\* CacheStreamRunner::reset on a stream that has encoded: reset_state.
ResetState(c) ==
  /\ pc[c] = "idle" /\ Open(c)
  /\ row' = [row EXCEPT ![slot[c]] = {}]
  /\ needsReset' = [needsReset EXCEPT ![c] = FALSE]
  /\ first' = [first EXCEPT ![c] = TRUE]
  /\ session' = [session EXCEPT ![c] = (@ + 1) % Sessions]
  /\ UNCHANGED <<vars, used, needReset, slot, prepared>>

\* process_one_chunk calls encode; the first chunk is shorter than the others,
\* so that it has a batch key of its own.
EncodeChunk(c) ==
  /\ Open(c)
  /\ Begin(c)
  /\ key'[c] = IF first[c] THEN First ELSE Next_
  /\ UNCHANGED encoderVars

\* encode() returns or throws. Only a success settles the reset.
EncodeReturn(c) ==
  /\ Return(c)
  /\ IF answer[c].kind = "value"
     THEN /\ needsReset' = [needsReset EXCEPT ![c] = FALSE]
          /\ first' = [first EXCEPT ![c] = FALSE]
     ELSE UNCHANGED <<needsReset, first>>
  /\ UNCHANGED <<used, needReset, slot, row, session, prepared>>
-----------------------------------------------------------------------------
(* The callback, on the caller's thread (inline) or on the worker.         *)

\* zero_slots for the requests in cs that carry the reset flag.
ZeroSlots(cs) ==
  /\ ~(cs \subseteq prepared)
  /\ row' = [s \in Slots |->
               IF \E c \in cs : needsReset[c] /\ slot[c] = s THEN {} ELSE row[s]]
  /\ prepared' = prepared \cup cs
  /\ UNCHANGED <<vars, stateVars, first, session>>

\* The graph appends the activations of each request to its row. One that
\* fails may do so before or after it has written them.
RunSession(cs, ok) ==
  /\ \E wrote \in {ok, TRUE} :
       row' = [s \in Slots |->
                 row[s] \cup {Session(c) : c \in {d \in cs : wrote /\ slot[d] = s}}]
  /\ prepared' = prepared \ cs
  /\ UNCHANGED <<stateVars, first, session>>

ZeroInline(c) == pc[c] = "inline" /\ ZeroSlots({c})

EncodeInline(c) ==
  /\ c \in prepared
  /\ InlineDone(c)
  /\ RunSession({c}, answer'[c].kind = "value")

ZeroBatch == wpc = "run" /\ ZeroSlots(InBatch)

EncodeBatch ==
  /\ InBatch \subseteq prepared
  /\ Execute
  /\ RunSession(InBatch, Head(results').kind = "value")
-----------------------------------------------------------------------------
StreamNext(c) ==
  \/ MakeState(c) \/ Destroy(c) \/ ResetState(c) \/ EncodeChunk(c) \/ EncodeReturn(c)
  \/ ZeroInline(c) \/ EncodeInline(c)

\* The steps of the batcher that do not touch the encoder.
BatcherStep ==
  /\ \/ \E c \in Callers : EnterInline(c) \/ EnterQueued(c) \/ Enqueue(c) \/ NotifyWorker(c)
     \/ WorkerCheck \/ WorkerRecheck \/ Deadline \/ Collect \/ Collected
     \/ Resolve \/ NextRound
     \/ \E x \in Closers : CloserNext(x)
  /\ UNCHANGED encoderVars

EncoderNext ==
  \/ \E c \in Callers : StreamNext(c)
  \/ ZeroBatch \/ EncodeBatch
  \/ BatcherStep

EncoderSpec == EncoderInit /\ [][EncoderNext]_allVars
-----------------------------------------------------------------------------
(* Every variable of the encoder keeps its type: no slot index ever points *)
(* outside the arena.                                                      *)
EncoderTypeOK ==
  /\ used \in [Slots -> BOOLEAN] /\ needReset \in [Slots -> BOOLEAN]
  /\ slot \in [Callers -> Slots \cup {NoSlot}]
  /\ needsReset \in [Callers -> BOOLEAN]
  /\ row \in [Slots -> SUBSET (Callers \X (0 .. Sessions - 1))]
  /\ first \in [Callers -> BOOLEAN]
  /\ session \in [Callers -> 0 .. Sessions - 1]
  /\ prepared \subseteq Callers

(* The arena's rows are owned: no two live streams share one, and a row is *)
(* marked used exactly while a live stream holds it, so none leaks.        *)
SlotOwnership ==
  /\ \A c, d \in Callers : Open(c) /\ slot[c] = slot[d] => c = d
  /\ \A s \in Slots : used[s] <=> \E c \in Callers : slot[c] = s

(* Whenever the graph may run for a stream, its row holds the context of   *)
(* that stream's session and of no other: nothing of an earlier owner or   *)
(* of the time before a reset, and nothing lost once a chunk succeeded,    *)
(* whatever failed, was retried, closed or ran on another thread between.  *)
ContextIsOwn ==
  \A c \in prepared :
    /\ row[slot[c]] \subseteq {Session(c)}
    /\ ~first[c] => Session(c) \in row[slot[c]]
=============================================================================
