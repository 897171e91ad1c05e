---------------------------- MODULE DecoderArena ----------------------------
(***************************************************************************)
(* The arena of predictor states of the transducer decoder                 *)
(* (RnntModel::acquire_decoder_slot, release_decoder_slot and predict_rnnt *)
(* in src/src/asr/model.cpp).  A thread claims a row for each of its       *)
(* predictors, waits up to 60 s when there is none, and its first          *)
(* prediction zeroes a row that an earlier owner has used.                 *)
(*                                                                         *)
(* A row is "clean" (zeroed), "own" (written by its owner) or "stale"      *)
(* (written by an earlier one). The wait on decoder_slots_cv_ is explicit: *)
(* only a sleeping thread hears notify_one, which follows the unlock.      *)
(***************************************************************************)
EXTENDS Naturals, FiniteSets

CONSTANTS Threads,     \* the threads that decode
          Predictors,  \* the predictor states each of them may own
          ArenaSlots   \* decoder_arena_slots_

ASSUME ArenaAssumption == ArenaSlots \in Nat \ {0}

VARIABLES
    used,        \* decoder_slots_used_
    needReset,   \* decoder_slots_need_reset_
    content,     \* of each row: "clean", "own", "stale"
    slot,        \* slot[t][p]: RnntDecoderState::slot, or NoRow
    dirty,       \* dirty[t][p]: RnntDecoderState::needs_reset
    sleep        \* of each thread: "no", "asleep", "awake" (notified), "late" (60 s are over)

arenaVars == <<used, needReset, content, slot, dirty, sleep>>

Rows  == 0 .. ArenaSlots - 1
NoRow == ArenaSlots

ArenaInit ==
    /\ used = [r \in Rows |-> FALSE]
    /\ needReset = [r \in Rows |-> FALSE]
    /\ content = [r \in Rows |-> "clean"]
    /\ slot = [t \in Threads |-> [p \in Predictors |-> NoRow]]
    /\ dirty = [t \in Threads |-> [p \in Predictors |-> FALSE]]
    /\ sleep = [t \in Threads |-> "no"]

Held(t)  == {slot[t][p] : p \in Predictors} \ {NoRow}
FreeRows == {r \in Rows : ~used[r]}

\* Mutant of Claim: the flag stays with the row and is not handed over.
ClaimUnflagged(t, p) ==
    \E r \in FreeRows :
        /\ \A q \in FreeRows : r <= q
        /\ used' = [used EXCEPT ![r] = TRUE]
        /\ slot' = [slot EXCEPT ![t][p] = r]
        /\ UNCHANGED <<needReset, dirty>>

\* claim_free: the lowest free row, with the flag that asks for zeroing it.
Claim(t, p) ==
    \E r \in FreeRows :
        /\ \A q \in FreeRows : r <= q
        /\ used' = [used EXCEPT ![r] = TRUE]
        /\ needReset' = [needReset EXCEPT ![r] = FALSE]
        /\ slot' = [slot EXCEPT ![t][p] = r]
        /\ dirty' = [dirty EXCEPT ![t][p] = needReset[r]]

\* The wait finds a row, at once, after a notification or at the last moment.
Acquire(t, p) ==
    /\ sleep[t] # "asleep"
    /\ Claim(t, p)
    /\ sleep' = [sleep EXCEPT ![t] = "no"]
    /\ UNCHANGED content

\* No row: the thread goes to sleep, the lock is dropped in the same step.
FallAsleep(t) ==
    /\ sleep[t] \in {"no", "awake"} /\ FreeRows = {}
    /\ sleep' = [sleep EXCEPT ![t] = "asleep"]
    /\ UNCHANGED <<used, needReset, content, slot, dirty>>

\* The 60 s are over. Before the thread has the lock again a row may be freed.
Ring(t) ==
    /\ sleep[t] = "asleep"
    /\ sleep' = [sleep EXCEPT ![t] = "late"]
    /\ UNCHANGED <<used, needReset, content, slot, dirty>>

\* "predictor-state arena is full"
GiveUp(t) ==
    /\ sleep[t] = "late" /\ FreeRows = {}
    /\ sleep' = [sleep EXCEPT ![t] = "no"]
    /\ UNCHANGED <<used, needReset, content, slot, dirty>>

\* release_decoder_slot, under the lock.
Release(t, p) ==
    LET r == slot[t][p] IN
    /\ r # NoRow
    /\ needReset' = [needReset EXCEPT ![r] = TRUE]
    /\ used' = [used EXCEPT ![r] = FALSE]
    /\ content' = [content EXCEPT ![r] = IF @ = "own" THEN "stale" ELSE @]
    /\ slot' = [slot EXCEPT ![t][p] = NoRow]
    /\ dirty' = [dirty EXCEPT ![t][p] = FALSE]
    /\ UNCHANGED sleep

\* release_decoder_slot, after the unlock.
NotifyOne ==
    /\ \/ \E t \in Threads : /\ sleep[t] = "asleep"
                             /\ sleep' = [sleep EXCEPT ![t] = "awake"]
       \/ (\A t \in Threads : sleep[t] # "asleep") /\ UNCHANGED sleep
    /\ UNCHANGED <<used, needReset, content, slot, dirty>>

\* predict_rnnt for the predictors in ps, each of which zeroes its row if the
\* flag says so and writes it; a predictor that fails keeps its flag.
Predict(t, ps) ==
    /\ content' = [r \in Rows |->
                     IF \E p \in ps : slot[t][p] = r /\ (dirty[t][p] \/ content[r] # "stale")
                     THEN "own" ELSE content[r]]
    /\ dirty' = [dirty EXCEPT ![t] = [p \in Predictors |-> @[p] /\ p \notin ps]]
    /\ UNCHANGED <<used, needReset, slot, sleep>>

(* A row belongs to one predictor of one thread, is marked used exactly    *)
(* then, and a prediction never sees what an earlier owner left in it.     *)
RowsAreOwn ==
    /\ \A t, u \in Threads : t # u => Held(t) \cap Held(u) = {}
    /\ \A r \in Rows : used[r] <=> \E t \in Threads : r \in Held(t)
    /\ \A t \in Threads, p \in Predictors :
          LET r == slot[t][p] IN r # NoRow /\ content[r] = "stale" => dirty[t][p]
=============================================================================
