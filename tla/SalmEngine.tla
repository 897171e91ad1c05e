----------------------------- MODULE SalmEngine -----------------------------
(***************************************************************************)
(* SalmEngine::serve on its fast path (src/src/speechlm/salm_engine.cpp):  *)
(* one thread that pulls requests, has them encoded by jobs beside it,     *)
(* admits them to decode slots while the KV pool has room, decodes a token *)
(* of every active slot per step, and delivers the results.  A sequence    *)
(* reserves cells as it grows; when the pool is short the newest one is    *)
(* preempted, encoded again and resumed.                                   *)
(*                                                                         *)
(* A request is known by its ticket to the caller and by its row inside;   *)
(* rows are used again.  The locals of serve() and the members of Impl are *)
(* one state: a call that throws loses the locals only.  Left out: MTP     *)
(* drafts (a step commits one token), the budget of encoded audio ahead of *)
(* admission (encoder_ahead_seconds 0), and the text itself: a token is    *)
(* "text", a "tag" that shows none, or the "end" of the turn.              *)
(***************************************************************************)
EXTENDS Integers, Sequences, FiniteSets, SequencesExt, FiniteSetsExt

CONSTANTS
    Loads,          \* what is asked of a call, see Load
    MaxCalls,       \* bound on the serve() calls
    NumSlots,       \* cfg.max_sequences
    Group,          \* slots of an admission group
    EncoderAhead,   \* kEncoderAhead
    MaxJobs,        \* encoder calls in flight
    Margin,         \* kPrepareMargin
    StartPrepared   \* serve() is called again after a throw left a step prepared

\* What becomes of a request: "fallback" ones are decoded again when their
\* response is empty, those without a voice end at their encoder output ("mute"
\* ones are aligned even so), "flaky" ones fail in the encoder the second time,
\* "long" ones exceed the cache.
Kinds == {"plain", "timestamps", "fallback", "diarization", "voiceless", "mute",
          "invalid", "unencodable", "flaky", "long"}

\* The requests by ticket and the tickets that are cancelled; the cells of a
\* prompt and of its prefix, which the prompt cache keeps; the tokens a request
\* may generate; kKvGrowCells; kv_pool.
Load == [kinds : Seq(Kinds), cancels : SUBSET Nat, prompt : Nat, prefix : Nat, budget : Nat,
         grow : Nat, pool : Nat]

ASSUME EngineAssumption ==
    /\ \A l \in Loads :
        /\ l \in [kinds : Seq(Kinds), cancels : {l.cancels}, prompt : Nat \ {0}, prefix : 1 .. l.prompt,
                  budget : Nat \ {0}, grow : Nat, pool : Nat]
        /\ l.cancels \subseteq 0 .. Len(l.kinds) - 1
        /\ l.prompt + l.budget + 1 <= l.pool
    /\ {NumSlots, Group, EncoderAhead, MaxJobs, MaxCalls} \subseteq Nat \ {0}
    /\ Margin \in Nat

VARIABLES
    pc,         \* where serve() is, "off" between calls
    call,       \* serve() calls so far
    load,       \* what is asked of the calls, and the size of the cache
    open, next, \* the source may have more; next_ticket
    row,        \* reqs, tickets, row_live, row_cancel, results' first_attempt
    freeRows,   \* free_rows
    waiting,    \* rows pulled, not yet encoded
    jobs,       \* aheads: [rows, done]
    ready,      \* encoded rows: [row, error]
    taken,      \* the admission round: [row, error, need, full]
    slot, order,\* the decode slots; the active ones, oldest admission first
    kept,       \* preempted: what a row keeps until it is admitted again
    reencode,   \* preempted rows for the encoder
    reencoding, resuming,       \* reencoding, kv_resuming
    reserved, cached,           \* kv_reserved, kv_cached
    growing,    \* slots grow_kv() has still to look at
    fallbackReady, preemptedReady,   \* rows that go back to `ready` after the step
    pendReady, pendLanes, pendCall,  \* the prepared step and the call that prepared it
    tsReady, aligning,          \* timestamp_ready; the alignment job: [rows, done]
    finished,   \* finished_reqs with their results
    posted      \* cancel_posted_tickets

source == <<open, next>>
rowVars == <<row, freeRows>>
queues == <<waiting, jobs, ready, taken>>
kv == <<slot, order, kept, reencode, reencoding, resuming, reserved, cached>>
growth == <<growing, fallbackReady, preemptedReady>>
pend == <<pendReady, pendLanes, pendCall>>
ends == <<tsReady, aligning, finished>>
vars == <<pc, call, load, source, rowVars, queues, kv, growth, pend, ends, posted>>

Slots == 1 .. NumSlots
NotKept == [on |-> FALSE, gen |-> 0, share |-> 0, armed |-> FALSE]
NoJob == [rows |-> <<>>, done |-> FALSE]
Idle == [row |-> 0, gen |-> 0, pos |-> 0, cells |-> 0, full |-> 0,
         armed |-> FALSE, shares |-> FALSE]

MaxTickets == Len(load.kinds)
Prompt == load.prompt
Prefix == load.prefix
Budget == load.budget
GrowCells == load.grow
Pool == load.pool

Least(a, b) == IF a < b THEN a ELSE b
Kind(r) == load.kinds[row[r].ticket + 1]
Active == ToSet(order)
\* Mutant of StepRows: the cell of the step that is prepared is forgotten.
StepRowsAtOnce == 1

StepRows == 2                                   \* kv_step_rows without drafts
Full(r) == IF Kind(r) = "long" THEN Pool + 1 ELSE Prompt + Budget + 1
FirstShare(full, gen) == Least(full, Prompt + gen + StepRows + GrowCells)
Busy == pc # "off"

\* The locals and members as serve() sets them up.
Fresh(more) ==
    /\ open' = more /\ next' = 0
    /\ row' = <<>> /\ freeRows' = <<>>
    /\ waiting' = <<>> /\ jobs' = <<>> /\ ready' = <<>> /\ taken' = <<>>
    /\ slot' = [s \in Slots |-> Idle] /\ order' = <<>>
    /\ kept' = [r \in 1 .. MaxTickets |-> NotKept]
    /\ reencode' = <<>> /\ reencoding' = 0 /\ resuming' = 0
    /\ reserved' = 0 /\ cached' = 0
    /\ growing' = <<>> /\ fallbackReady' = <<>> /\ preemptedReady' = <<>>
    /\ tsReady' = <<>> /\ aligning' = NoJob /\ finished' = <<>>

Init ==
    /\ pc = "off" /\ call = 0
    /\ load \in Loads
    /\ open = FALSE /\ next = 0
    /\ row = <<>> /\ freeRows = <<>>
    /\ waiting = <<>> /\ jobs = <<>> /\ ready = <<>> /\ taken = <<>>
    /\ slot = [s \in Slots |-> Idle] /\ order = <<>>
    /\ kept = [r \in 1 .. MaxTickets |-> NotKept]
    /\ reencode = <<>> /\ reencoding = 0 /\ resuming = 0
    /\ reserved = 0 /\ cached = 0
    /\ growing = <<>> /\ fallbackReady = <<>> /\ preemptedReady = <<>>
    /\ pendReady = FALSE /\ pendLanes = {} /\ pendCall = 0
    /\ tsReady = <<>> /\ aligning = NoJob /\ finished = <<>>
    /\ posted = {}

Start ==
    /\ pc = "off" /\ call < MaxCalls
    /\ pendReady => StartPrepared
    /\ Fresh(TRUE)
    /\ pc' = "top" /\ call' = call + 1 /\ posted' = {}
    /\ UNCHANGED <<load, pend>>

\* An exception of the decoder, the encoder or a callback; futures are
\* joined on the way out, the locals are gone, and of the members only the
\* prepared step and the posted tickets outlive what serve() sets up again.
Throw ==
    /\ Busy
    /\ Fresh(FALSE)
    /\ pc' = "off"
    /\ UNCHANGED <<call, load, pend, posted>>

\* SalmEngine::cancel, by any thread at any time, for any ticket.
Cancel(t) ==
    /\ posted' = posted \cup {t}
    /\ UNCHANGED <<pc, call, load, source, rowVars, queues, kv, growth, pend, ends>>

\* An encoder call or the alignment ends, in a thread of its own.
EncoderDone ==
    /\ \E i \in DOMAIN jobs : ~jobs[i].done /\ jobs' = [jobs EXCEPT ![i].done = TRUE]
    /\ UNCHANGED <<pc, call, load, source, rowVars, waiting, ready, taken, kv, growth, pend, ends, posted>>

AlignmentDone ==
    /\ aligning.rows # <<>> /\ ~aligning.done
    /\ aligning' = [aligning EXCEPT !.done = TRUE]
    /\ UNCHANGED <<pc, call, load, source, rowVars, queues, kv, growth, pend, tsReady, finished, posted>>
------------------------------------------------------------------------------
Results(rows, kind) == [i \in DOMAIN rows |-> [row |-> rows[i], kind |-> kind]]
\* Mutant of Outcome: a row cancelled inside a job ends with its value.
OutcomeOfJob(r) == "value"

Outcome(r) == IF row[r].cancel THEN "cancelled" ELSE "value"
Endings(rows) == [i \in DOMAIN rows |-> [row |-> rows[i], kind |-> Outcome(rows[i])]]

\* The sum of v over S; the members of S in the order of a key; the elements
\* of seq that are in S, and those that are not.
Total(v, S) == MapThenSumSet(LAMBDA x : v[x], S)
Sorted(S, key(_)) ==
    [k \in 1 .. Cardinality(S) |->
        CHOOSE x \in S : Cardinality({y \in S : key(y) < key(x)}) = k - 1]
InOrder(S) == Sorted(S, LAMBDA s : s)
Only(seq, S) ==
    LET only[i \in 0 .. Len(seq)] ==
            IF i = 0 THEN <<>>
            ELSE IF seq[i] \in S THEN Append(only[i - 1], seq[i]) ELSE only[i - 1]
    IN only[Len(seq)]
Without(seq, S) == Only(seq, ToSet(seq) \ S)

Cells(sl, S) == Total([s \in S |-> sl[s].cells], S)
Shares(rows) == Total([r \in rows |-> kept[r].share], rows)
ByTicket(rows) == Sorted(rows, LAMBDA r : row[r].ticket)
Encoded(rows) == [i \in DOMAIN rows |-> [row |-> rows[i], error |-> FALSE]]

\* Mutant of RowFor: the rows are read from the other end than they are dropped.
RowForOldest(i) == IF i <= Len(freeRows) THEN freeRows[i] ELSE Len(row) + i - Len(freeRows)

\* take(): n requests pulled into rows, freed ones first, the last freed first.
RowFor(i) ==
    IF i <= Len(freeRows) THEN freeRows[Len(freeRows) - i + 1]
    ELSE Len(row) + i - Len(freeRows)

Take(n) ==
    LET new == [i \in 1 .. n |-> RowFor(i)]
        bad == {new[i] : i \in {j \in 1 .. n : load.kinds[next + j] = "invalid"}}
        size == Len(row) + n - Least(n, Len(freeRows))
    IN
    /\ next + n <= MaxTickets
    /\ next' = next + n
    /\ open' \in BOOLEAN
    /\ row' = [r \in 1 .. size |->
           IF r \in ToSet(new)
           THEN [ticket |-> next + (CHOOSE i \in 1 .. n : new[i] = r) - 1,
                 live |-> TRUE, cancel |-> FALSE, second |-> FALSE]
           ELSE row[r]]
    /\ freeRows' = SubSeq(freeRows, 1, Len(freeRows) - Least(n, Len(freeRows)))
    /\ waiting' = waiting \o Without(new, bad)
    /\ finished' = finished \o Results(Only(new, bad), "error")


\* flush(): the results are handed out one by one, the rows are free again.
FlushPhases == {"flush", "cancelled", "idleflush", "lastflush"}

Deliver ==
    /\ pc \in FlushPhases /\ finished # <<>>
    /\ LET r == Head(finished).row IN
       /\ row' = [row EXCEPT ![r].live = FALSE]
       /\ freeRows' = Append(freeRows, r)
    /\ finished' = Tail(finished)
    /\ UNCHANGED <<pc, call, load, source, queues, kv, growth, pend, tsReady, aligning, posted>>

Flushed ==
    /\ pc \in FlushPhases \ {"lastflush"} /\ finished = <<>>
    /\ pc' = CASE pc = "flush"     -> "cancel"
               [] pc = "cancelled" -> "harvest"
               [] pc = "idleflush" -> "idletake"
    /\ UNCHANGED <<call, load, source, rowVars, queues, kv, growth, pend, ends, posted>>

Return ==
    /\ pc = "lastflush" /\ finished = <<>>
    /\ pc' = "off" /\ next' = 0
    /\ row' = <<>> /\ freeRows' = <<>>
    /\ UNCHANGED <<call, load, open, queues, kv, growth, pend, ends, posted>>

\* harvest_timestamps: a finished alignment job is delivered, the next begun.
\* (In the wait that follows the loop there is none left to be waited for.)
HarvestTimestamps ==
    /\ \/ pc = "top" /\ pc' = "flush"
       \/ /\ pc = "drain" /\ UNCHANGED pc
          /\ aligning.done \/ (aligning = NoJob /\ tsReady # <<>>)
    /\ finished' = finished \o Endings(IF aligning.done THEN aligning.rows ELSE <<>>)
    /\ IF aligning.done \/ aligning = NoJob
       THEN aligning' = [rows |-> tsReady, done |-> FALSE] /\ tsReady' = <<>>
       ELSE UNCHANGED <<aligning, tsReady>>
    /\ UNCHANGED <<call, load, source, rowVars, queues, kv, growth, pend, posted>>

Drained ==
    /\ pc = "drain" /\ aligning = NoJob /\ tsReady = <<>>
    /\ pc' = "lastflush"
    /\ UNCHANGED <<call, load, source, rowVars, queues, kv, growth, pend, ends, posted>>

\* process_cancels: what waits is dropped, a decoding row gives its slot back
\* (commit), one inside a job is marked and dropped when the job is done.
NothingPosted ==
    /\ pc = "cancel" /\ posted = {}
    /\ pc' = "harvest"
    /\ UNCHANGED <<call, load, source, rowVars, queues, kv, growth, pend, ends, posted>>

Recoding(rows) == rows \cap ToSet(reencode)

ProcessCancels ==
    /\ pc = "cancel" /\ posted # {}
    /\ LET hit == {r \in DOMAIN row : row[r].live /\ row[r].ticket \in posted /\ ~row[r].cancel}
           again == Recoding(hit)
           encoded == {r \in hit : \E i \in DOMAIN ready : ready[i].row = r}
           queued == again \cup encoded \cup (hit \cap (ToSet(waiting) \cup ToSet(tsReady)))
           stop == {s \in Active : slot[s].row \in hit}
       IN
       /\ row' = [r \in DOMAIN row |-> [row[r] EXCEPT !.cancel = @ \/ r \in hit]]
       /\ waiting' = Without(waiting, hit)
       /\ reencode' = Without(reencode, hit)
       /\ reencoding' = reencoding - Cardinality(again)
       /\ ready' = Without(ready, {e \in ToSet(ready) : e.row \in hit})
       /\ tsReady' = Without(tsReady, hit)
       /\ resuming' = resuming - Shares(queued)
       /\ kept' = [r \in DOMAIN kept |-> IF r \in queued THEN NotKept ELSE kept[r]]
       /\ reserved' = reserved - Cells(slot, stop)
       /\ slot' = [s \in Slots |-> IF s \in stop THEN Idle ELSE slot[s]]
       /\ order' = Without(order, stop)
       /\ finished' = Results(ByTicket(queued \cup {slot[s].row : s \in stop}), "cancelled")
    /\ posted' = {} /\ pc' = "cancelled"
    /\ UNCHANGED <<call, load, source, freeRows, jobs, taken, cached, growth, pend, aligning>>

\* harvest(): finished encoder calls, in the order of their submission; the
\* first is waited for when there is nothing better to do.
Cold == order = <<>> /\ ready = <<>>
Starved == ready = <<>> /\ jobs # <<>> /\ 2 * Len(order) < NumSlots
Resuming == order = <<>> /\ reencoding > 0
Block == ~pendReady /\ (Cold \/ Starved \/ Resuming)

\* deliver(): preempted rows go to the front, whatever they held back from
\* admission is given up; some requests end here.
HarvestJob ==
    /\ pc \in {"harvest", "reap"} /\ jobs # <<>> /\ jobs[1].done
    /\ LET rows == jobs[1].rows
           again == {r \in ToSet(rows) : kept[r].on}
           over == {r \in ToSet(rows) : \/ row[r].cancel
                                        \/ Kind(r) = "diarization"
                                        \/ Kind(r) = "voiceless" /\ r \notin again}
           mute == {r \in ToSet(rows) \ (over \cup again) : Kind(r) = "mute"}
           fails(r) == Kind(r) = "unencodable" \/ (Kind(r) = "flaky" /\ r \in again)
           queue(q) == [i \in DOMAIN q |-> [row |-> q[i], error |-> fails(q[i])]]
       IN
       /\ reencoding' = reencoding - Cardinality(again)
       /\ resuming' = resuming - Shares(again)
       /\ kept' = [r \in DOMAIN kept |->
              IF r \in over THEN NotKept
              ELSE IF r \in again THEN [kept[r] EXCEPT !.share = 0] ELSE kept[r]]
       /\ finished' = finished \o Endings(Only(rows, over))
       /\ tsReady' = tsReady \o Only(rows, mute)
       /\ ready' = queue(ByTicket(again \ over)) \o ready
                      \o queue(Without(rows, again \cup over \cup mute))
    /\ jobs' = Tail(jobs)
    /\ pc' = "reap"
    /\ UNCHANGED <<call, load, source, rowVars, waiting, taken, slot, order, reencode, reserved,
                   cached, growth, pend, aligning, posted>>

Harvested ==
    /\ \/ pc \in {"harvest", "reap"} /\ jobs = <<>>
       \/ pc = "harvest" /\ jobs # <<>> /\ ~jobs[1].done /\ ~Block
       \/ pc = "reap" /\ jobs # <<>> /\ ~jobs[1].done
    /\ pc' = "launch"
    /\ UNCHANGED <<call, load, source, rowVars, queues, kv, growth, pend, ends, posted>>
------------------------------------------------------------------------------
\* launch(), also called in the middle of an admission round: preempted rows
\* first, then new ones as long as the queue of encoded ones is short.
Launched == IF taken = <<>> THEN "idle" ELSE "place"

LaunchResumed ==
    /\ pc = "launch" /\ reencode # <<>> /\ Len(jobs) < MaxJobs
    /\ jobs' = Append(jobs, [rows |-> reencode, done |-> FALSE])
    /\ reencode' = <<>>
    /\ UNCHANGED <<pc, call, load, source, rowVars, waiting, ready, taken, slot, order, kept,
                   reencoding, resuming, reserved, cached, growth, pend, ends, posted>>

RoomAhead == Len(jobs) < MaxJobs /\ Len(ready) < Group * Len(jobs) + (IF jobs = <<>> THEN Group ELSE 0)
Wanted == Max({EncoderAhead, IF Cold THEN NumSlots ELSE Group})

LaunchTake ==
    /\ pc = "launch" /\ (reencode = <<>> \/ Len(jobs) = MaxJobs)
    /\ IF RoomAhead
       THEN /\ pc' = "submit"
            /\ \/ /\ open /\ \E n \in 0 .. Wanted - Len(waiting) : Take(n)
               \/ /\ ~open \/ Len(waiting) >= Wanted
                  /\ UNCHANGED <<source, rowVars, waiting, finished>>
       ELSE /\ pc' = Launched
            /\ UNCHANGED <<source, rowVars, waiting, finished>>
    /\ UNCHANGED <<call, load, jobs, ready, taken, kv, growth, pend, tsReady, aligning, posted>>

Submit ==
    /\ pc = "submit"
    /\ LET count == Least(Wanted, Len(waiting)) IN
       IF count = 0
       THEN pc' = Launched /\ UNCHANGED <<jobs, waiting>>
       ELSE /\ pc' = "launch"
            /\ jobs' = Append(jobs, [rows |-> SubSeq(waiting, 1, count), done |-> FALSE])
            /\ waiting' = SubSeq(waiting, count + 1, Len(waiting))
    /\ UNCHANGED <<call, load, source, rowVars, ready, taken, kv, growth, pend, ends, posted>>

\* Nothing to encode, decode or launch: only alignments, or nothing at all.
Unoccupied ==
    order = <<>> /\ ready = <<>> /\ waiting = <<>> /\ jobs = <<>> /\ ~pendReady /\ reencode = <<>>
\* Mutant of OnlyAlignment: what waits for an alignment job is overlooked.
OnlyAlignmentRunning == aligning # NoJob

OnlyAlignment == aligning # NoJob \/ tsReady # <<>>

Idling ==
    /\ pc = "idle"
    /\ ~(Unoccupied /\ OnlyAlignment /\ open)
    /\ pc' = CASE ~Unoccupied                             -> "admit"
               [] Unoccupied /\ OnlyAlignment            -> "top"
               [] Unoccupied /\ ~OnlyAlignment /\ ~open  -> "drain"
               [] Unoccupied /\ ~OnlyAlignment /\ open   -> "idleflush"
    /\ UNCHANGED <<call, load, source, rowVars, queues, kv, growth, pend, ends, posted>>

\* The source is asked without blocking while alignments are in flight (the
\* millisecond it waits for them is the harvest at the top of the loop); with
\* nothing to do at all serve() blocks for work or closure.
Poll ==
    /\ pc = "idle" /\ Unoccupied /\ OnlyAlignment /\ open
    /\ \E n \in 0 .. NumSlots : Take(n)
    /\ pc' = "top"
    /\ UNCHANGED <<call, load, jobs, ready, taken, kv, growth, pend, tsReady, aligning, posted>>

AwaitWork ==
    /\ pc = "idletake"
    /\ \E n \in 0 .. NumSlots : Take(n) /\ (n = 0 => ~open')
    /\ pc' = "top"
    /\ UNCHANGED <<call, load, jobs, ready, taken, kv, growth, pend, tsReady, aligning, posted>>
------------------------------------------------------------------------------
\* One encoded row of an admission round: `a` is the round so far. With nothing
\* in flight the prompt cache is dropped for it, and if that does not help it ends.
Alone(a) == reserved + a.round = 0

Weigh(a, e) ==
    LET full == Full(e.row)
        need == FirstShare(full, kept[e.row].gen)
        alone == Alone(a)
        held == IF ~e.error /\ a.cached + full > Pool /\ alone THEN 0 ELSE a.cached
        entry(err) == [row |-> e.row, error |-> err, need |-> IF err THEN 0 ELSE need,
                       full |-> IF err THEN 0 ELSE full]
        tooLong == held + full > Pool
        short == held + reserved + resuming + a.round + need + a.spare > Pool
    IN CASE a.stop \/ a.free = 0 -> [a EXCEPT !.stop = TRUE]
         [] ~a.stop /\ a.free > 0 /\ e.error ->
              [a EXCEPT !.taken = Append(@, entry(TRUE))]
         [] ~a.stop /\ a.free > 0 /\ ~e.error /\ tooLong /\ alone ->
              [a EXCEPT !.taken = Append(@, entry(TRUE)), !.cached = held]
         [] ~a.stop /\ a.free > 0 /\ ~e.error /\ ((tooLong /\ ~alone) \/ (~tooLong /\ short)) ->
              [a EXCEPT !.stop = TRUE, !.cached = held]
         [] OTHER ->
              [a EXCEPT !.taken = Append(@, entry(FALSE)), !.cached = held, !.free = @ - 1,
                        !.round = @ + need, !.spare = @ + Least(GrowCells, full - need)]

Spare == Total([s \in Active |-> Least(GrowCells, slot[s].full - slot[s].cells)], Active)

Round ==
    LET round[i \in 0 .. Len(ready)] ==
            IF i = 0 THEN [taken |-> <<>>, stop |-> FALSE, round |-> 0, spare |-> Spare,
                           cached |-> cached, free |-> NumSlots - Len(order)]
            ELSE Weigh(round[i - 1], ready[i])
    IN round[Len(ready)]

\* Ready rows are admitted in order while each gets a slot and its first share
\* of the pool, leaving every sequence in flight one more share.
Admit ==
    /\ pc = "admit"
    /\ LET free == NumSlots - Len(order)
           now == ~pendReady /\ ready # <<>> /\ free > 0 /\ (order = <<>> \/ free >= Group)
           onward == IF order = <<>> /\ ~pendReady THEN "top" ELSE "step"
       IN
       IF now
       THEN /\ taken' = Round.taken
            /\ ready' = SubSeq(ready, Len(taken') + 1, Len(ready))
            /\ cached' = Round.cached
            /\ pc' = IF taken' = <<>> THEN onward ELSE "launch"
       ELSE pc' = onward /\ UNCHANGED <<taken, ready, cached>>
    /\ UNCHANGED <<call, load, source, rowVars, waiting, jobs, slot, order, kept, reencode,
                   reencoding, resuming, reserved, growth, pend, ends, posted>>

Outcomes(sl, S) ==
    {o \in [S -> {"text", "tag", "end"}] : \A s \in S : o[s] = "tag" => sl[s].armed}

\* commit(): the token of each sampled slot; a finished sequence gives its slot
\* and its cells back and is answered, aligned or decoded again.
Over(rec, token) == token = "end" \/ rec.gen + 1 >= Budget
Armed(rec, token) == rec.armed /\ token # "text"

Commit(sl, ord, res, sampled, token) ==
    LET over == {s \in sampled : Over(sl[s], token[s])}
        again == {s \in over : Armed(sl[s], token[s])}
        align == {s \in over \ again : Kind(sl[s].row) = "timestamps"}
        rows(S) == [i \in 1 .. Cardinality(S) |-> sl[InOrder(S)[i]].row]
    IN [slot |-> [s \in Slots |->
            IF s \in over THEN Idle
            ELSE IF s \in sampled THEN [sl[s] EXCEPT !.gen = @ + 1, !.armed = Armed(sl[s], token[s])]
            ELSE sl[s]],
        order |-> Without(ord, over),
        reserved |-> res - Cells(sl, over),
        again |-> rows(again), align |-> rows(align), done |-> rows(over \ (again \cup align))]

Seconded(rows) == [r \in DOMAIN row |-> [row[r] EXCEPT !.second = @ \/ r \in ToSet(rows)]]

\* The round's rows get slots and are prefilled, and their first token is
\* committed; a row whose encoding failed ends.
Place ==
    /\ pc = "place"
    /\ LET failed == Only(taken, {e \in ToSet(taken) : e.error})
           good == Without(taken, ToSet(failed))
           free == InOrder(Slots \ Active)
           at(s) == CHOOSE i \in DOMAIN good : free[i] = s
           new == {free[i] : i \in DOMAIN good}
           rec(e) == [row |-> e.row, gen |-> kept[e.row].gen, pos |-> Prompt + kept[e.row].gen,
                      cells |-> e.need, full |-> e.full, shares |-> TRUE,
                      armed |-> /\ Kind(e.row) = "fallback" /\ ~row[e.row].second
                                /\ kept[e.row].on => kept[e.row].armed]
           placed == [s \in Slots |-> IF s \in new THEN rec(good[at(s)]) ELSE slot[s]]
           ended(e) == [row |-> e.row, kind |-> IF row[e.row].second THEN "value" ELSE "error"]
       IN
       /\ kept' = [r \in DOMAIN kept |->
              IF \E i \in DOMAIN taken : taken[i].row = r THEN NotKept ELSE kept[r]]
       /\ cached' = IF good = <<>> THEN cached ELSE Prefix
       /\ \E token \in Outcomes(placed, new) :
           LET c == Commit(placed, order \o SubSeq(free, 1, Len(good)), reserved + Cells(placed, new),
                           new, token)
           IN /\ slot' = c.slot /\ order' = c.order /\ reserved' = c.reserved
              /\ ready' = Encoded(c.again) \o ready
              /\ row' = Seconded(c.again)
              /\ tsReady' = tsReady \o c.align
              /\ finished' = finished \o [i \in DOMAIN failed |-> ended(failed[i])]
                                      \o Results(c.done, "value")
    /\ taken' = <<>> /\ pc' = "top"
    /\ UNCHANGED <<call, load, source, freeRows, waiting, jobs, reencode, reencoding, resuming,
                   growth, pend, aligning, posted>>
------------------------------------------------------------------------------
\* step(): the prepared step is launched, or the active slots are decoded; the
\* following step may be prepared for the lanes still live (llama_decode_prepare
\* may decline). Lanes that finish meanwhile ride along.
PrepareOk == NumSlots - Len(order) + Margin < Group

Step ==
    /\ pc = "step"
    /\ LET lanes == IF pendReady THEN pendLanes ELSE Active
           live == lanes \cap Active
           forward(S, sl) == [s \in Slots |-> IF s \in S THEN [sl[s] EXCEPT !.pos = @ + 1] ELSE sl[s]]
           run == IF pendReady THEN slot ELSE forward(Active, slot)
       IN
       \/ /\ PrepareOk /\ live # {}
          /\ slot' = forward(live, run)
          /\ pendReady' = TRUE /\ pendLanes' = live /\ pendCall' = call
       \/ /\ slot' = run
          /\ pendReady' = FALSE /\ pendLanes' = {} /\ UNCHANGED pendCall
    /\ pc' = "commit"
    /\ UNCHANGED <<call, load, source, rowVars, queues, order, kept, reencode, reencoding,
                   resuming, reserved, cached, growth, ends, posted>>

\* commit() of the step; a sequence decoded again waits for the step to end.
CommitStep ==
    /\ pc = "commit"
    /\ \E token \in Outcomes(slot, Active) :
        LET c == Commit(slot, order, reserved, Active, token)
        IN /\ slot' = c.slot /\ order' = c.order /\ growing' = c.order
           /\ reserved' = c.reserved
           /\ fallbackReady' = c.again
           /\ row' = Seconded(c.again)
           /\ tsReady' = tsReady \o c.align
           /\ finished' = finished \o Results(c.done, "value")
    /\ pc' = "grow"
    /\ UNCHANGED <<call, load, source, freeRows, queues, kept, reencode, reencoding, resuming,
                   cached, preemptedReady, pend, aligning, posted>>

\* grow_kv(): the slots, oldest admission first, get the cells of their next
\* step and of some more when the pool has them.
Growing == Head(growing)
Need(s) == Least(slot[s].full, slot[s].pos + StepRows)
Short(s) == s \in Active /\ slot[s].cells < Need(s)
Fits(s, cells) == cached + reserved + cells - slot[s].cells <= Pool

Grow ==
    /\ pc = "grow" /\ growing # <<>>
    /\ Short(Growing) => Fits(Growing, Need(Growing))
    /\ LET want == Least(slot[Growing].full, Need(Growing) + GrowCells)
           grant == IF Fits(Growing, want) THEN want ELSE Need(Growing)
       IN IF Short(Growing)
          THEN /\ reserved' = reserved + grant - slot[Growing].cells
               /\ slot' = [slot EXCEPT ![Growing].cells = grant]
          ELSE UNCHANGED <<reserved, slot>>
    /\ growing' = Tail(growing)
    /\ UNCHANGED <<pc, call, load, source, rowVars, queues, order, kept, reencode, reencoding,
                   resuming, cached, fallbackReady, preemptedReady, pend, ends, posted>>

\* preempt(): the newest sequence makes room, be it the one that grows. Its row
\* keeps its tokens and is encoded again, unless it still holds its encoder
\* output for the fallback decode.
Preempt ==
    /\ pc = "grow" /\ growing # <<>>
    /\ Short(Growing) /\ ~Fits(Growing, Need(Growing)) /\ Len(order) > 1
    /\ LET rec == slot[Last(order)]
           share == IF rec.armed THEN 0 ELSE FirstShare(rec.full, rec.gen)
       IN
       /\ kept' = [kept EXCEPT ![rec.row] =
              [on |-> TRUE, gen |-> rec.gen, share |-> share, armed |-> rec.armed]]
       /\ IF rec.armed
          THEN /\ preemptedReady' = Append(preemptedReady, rec.row)
               /\ UNCHANGED <<reencode, reencoding>>
          ELSE /\ reencode' = Append(reencode, rec.row) /\ reencoding' = reencoding + 1
               /\ UNCHANGED preemptedReady
       /\ resuming' = resuming + share
       /\ reserved' = reserved - rec.cells
       /\ slot' = [slot EXCEPT ![Last(order)] = Idle]
       /\ order' = Front(order)
    /\ UNCHANGED <<pc, call, load, source, rowVars, queues, cached, growing, fallbackReady, pend,
                   ends, posted>>

\* The last sequence takes the cells of the prompt cache; what it copied of
\* them is its own now.
DropPromptCache ==
    /\ pc = "grow" /\ growing # <<>>
    /\ Short(Growing) /\ ~Fits(Growing, Need(Growing)) /\ Len(order) = 1 /\ cached > 0
    /\ cached' = 0
    /\ slot' = [s \in Slots |-> [slot[s] EXCEPT !.shares = FALSE]]
    /\ UNCHANGED <<pc, call, load, source, rowVars, queues, order, kept, reencode, reencoding,
                   resuming, reserved, growing, fallbackReady, preemptedReady, pend, ends, posted>>

Requeue ==
    /\ pc = "grow" /\ growing = <<>>
    /\ ready' = Encoded(fallbackReady) \o Encoded(ByTicket(ToSet(preemptedReady))) \o ready
    /\ fallbackReady' = <<>> /\ preemptedReady' = <<>>
    /\ pc' = "top"
    /\ UNCHANGED <<call, load, source, rowVars, waiting, jobs, taken, slot, order, kept, reencode,
                   reencoding, resuming, reserved, cached, growing, pend, ends, posted>>
------------------------------------------------------------------------------
EngineStep ==
    \/ HarvestTimestamps \/ Deliver \/ Flushed \/ NothingPosted \/ ProcessCancels
    \/ HarvestJob \/ Harvested \/ LaunchResumed \/ LaunchTake \/ Submit
    \/ Idling \/ Poll \/ Admit \/ Place \/ Step \/ CommitStep
    \/ Grow \/ Preempt \/ DropPromptCache \/ Requeue
    \/ Drained \/ Return

Next ==
    \/ Start \/ EngineStep \/ AwaitWork \/ Throw
    \/ EncoderDone \/ AlignmentDone
    \/ \E t \in load.cancels : Cancel(t)

(* The serving thread runs and the jobs beside it come to an end; the      *)
(* source need never have another request, nor close.                      *)
Fairness == WF_vars(EngineStep) /\ WF_vars(EncoderDone) /\ WF_vars(AlignmentDone)

Spec == Init /\ [][Next]_vars /\ Fairness
------------------------------------------------------------------------------
Count(r, rows) == Cardinality({i \in DOMAIN rows : rows[i] = r})
RowsOf(entries) == [i \in DOMAIN entries |-> entries[i].row]
Coding(r) == Total([i \in DOMAIN jobs |-> Count(r, jobs[i].rows)], DOMAIN jobs) + Count(r, reencode)
Decoding(r) == Cardinality({s \in Active : slot[s].row = r})
Ended(r) == Count(r, RowsOf(finished))
Places(r) == Count(r, waiting) + Coding(r) + Count(r, RowsOf(ready)) + Count(r, RowsOf(taken))
             + Count(r, fallbackReady) + Count(r, preemptedReady)
             + Decoding(r) + Count(r, tsReady) + Count(r, aligning.rows) + Ended(r)

(* Every live row is in exactly one place of the engine, a free row in     *)
(* none: no request is lost or handled twice, whatever is cancelled,       *)
(* preempted, decoded again or fails. And the counters admission relies on *)
(* are exact: cells reserved by the active slots, shares held back for     *)
(* preempted rows on their way through the encoder, and how many those     *)
(* are. Between calls there are no rows.                                   *)
RowsAccounted ==
    Busy => LET back == {r \in DOMAIN row : kept[r].on}
                coding == {r \in back : Coding(r) > 0}
            IN /\ \A r \in DOMAIN row :
                    /\ Places(r) = IF row[r].live THEN 1 ELSE 0
                    /\ row[r].live = (r \notin ToSet(freeRows))
               /\ IsInjective(freeRows)
               /\ reserved = Cells(slot, Active)
               /\ reencoding = Cardinality(coding)
               /\ resuming = Shares(coding)
               /\ \A r \in DOMAIN kept \ coding : kept[r].share = 0
               /\ \A r \in DOMAIN kept \ DOMAIN row : ~kept[r].on
               /\ \A r \in back : row[r].live /\ Decoding(r) + Ended(r) = 0

(* A decode step never runs out of cells: every row that a slot has        *)
(* written, or will with the step that is prepared, is inside its          *)
(* reservation, and all reservations fit the pool, the prefix they copied  *)
(* from the prompt cache counted once.                                     *)
PoolSuffices ==
    /\ \A s \in Active : slot[s].pos <= slot[s].cells
    /\ Cells(slot, Active) + cached
         - (IF \E s \in Active : slot[s].shares THEN Prefix ELSE 0) <= Pool

(* The step that is launched was prepared for slots of this call, as the   *)
(* comment on pend_lanes says.                                             *)
PreparedIsCurrent == pc = "step" /\ pendReady => pendCall = call

(* The engine keeps the promise its caller builds on, delivery by delivery *)
(* with the kind of the result: "cancelled" for those that are, and only   *)
(* for those.                                                              *)
TicketsOf(S) == {row[r].ticket : r \in S}
Contract == INSTANCE ServeContract WITH
    Tickets <- UNION {0 .. Len(l.kinds) : l \in Loads},
    running <- Busy, issued <- next,
    owed <- TicketsOf({r \in DOMAIN row : row[r].live}),
    marked <- TicketsOf({r \in DOMAIN row : row[r].live /\ row[r].cancel})
ImplementsContract ==
    /\ Contract!Spec
    /\ [][Deliver => LET d == Head(finished)
                     IN Contract!Deliver(row[d.row].ticket, d.kind)]_vars

(* Every request pulled is delivered (or its call throws), although the    *)
(* newest sequences make way for older ones and start over again: as the   *)
(* tickets are bounded, that is to owe nothing again and again.            *)
EveryTicketDelivered == []<>(\A r \in DOMAIN row : ~row[r].live)
=============================================================================
