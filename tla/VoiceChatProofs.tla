--------------------------- MODULE VoiceChatProofs ---------------------------
(* Proofs about VoiceChat, for any number of sessions and any size of the    *)
(* pipeline: predictor rows are owned and never read stale, a stream has one *)
(* owner at a time, a session is refused a stream only when the pipeline is  *)
(* full, and the response of a tool call was sent after its request.         *)
EXTENDS VoiceChat, FiniteSetTheorems, TLAPS

-----------------------------------------------------------------------------
(* The invariants.                                                           *)

ArenaTypes ==
  /\ used \in [Rows -> BOOLEAN] /\ needReset \in [Rows -> BOOLEAN]
  /\ content \in [Rows -> {"clean", "own", "stale"}]
  /\ slot \in [Threads -> [Predictors -> Rows \cup {NoRow}]]
  /\ dirty \in [Threads -> [Predictors -> BOOLEAN]]
  /\ sleep \in [Threads -> {"no", "asleep", "awake", "late"}]

(* A row has one predictor at most, and is used when it has one.             *)
Apart ==
  \A t, u \in Threads, p, q \in Predictors :
    slot[t][p] # NoRow /\ slot[t][p] = slot[u][q] => t = u /\ p = q

UsedIsHeld ==
  \A r \in Rows : used[r] <=> \E t \in Threads, p \in Predictors : slot[t][p] = r

(* Whoever has a stale row, or will have it, is told to zero it.             *)
StaleIsFlagged ==
  /\ \A r \in Rows : ~used[r] /\ content[r] = "stale" => needReset[r]
  /\ \A t \in Threads, p \in Predictors :
       slot[t][p] # NoRow /\ content[slot[t][p]] = "stale" => dirty[t][p]

ArenaInv == ArenaTypes /\ Apart /\ UsedIsHeld /\ StaleIsFlagged

Places == {"out", "reading", "admit", "pair", "eou", "display", "prefill", "unwind",
           "unwound", "drop", "dropped", "check", "gate", "intake", "steps", "start",
           "hide", "hidden", "show", "finish", "joinFinish", "end", "join", "cleanup",
           "free", "bye"}

Types ==
  /\ pc \in [Sessions -> Places]
  /\ fast \in [Sessions -> {"none", "extract", "inject", "sync", "done"}]
  /\ extracting \in [Sessions -> BOOLEAN] /\ injecting \in [Sessions -> BOOLEAN]
  /\ pair \subseteq Sessions /\ seq \subseteq Sessions

Rowless(s) == \A p \in Predictors : slot[s][p] = NoRow

(* Where a session holds rows, a TTS pair and a sequence.                    *)
RowPlaces(s) ==
  /\ pc[s] \in {"out", "admit", "pair", "eou", "bye"} => Rowless(s)
  /\ pc[s] = "reading" /\ s \notin pair => Rowless(s)
  /\ pc[s] \in {"display", "hidden", "show"} => slot[s][Display] = NoRow

PairPlaces(s) ==
  /\ pc[s] \in {"out", "admit", "pair", "unwound", "drop", "dropped", "bye"} => s \notin pair
  /\ pc[s] \in {"eou", "display", "prefill", "unwind", "check", "gate", "intake", "steps",
                "start", "hide", "hidden", "show", "finish", "joinFinish", "end", "join",
                "cleanup", "free"} => s \in pair
  /\ s \in seq => s \in pair /\ pc[s] \notin {"eou", "display", "prefill", "unwind", "free"}
  /\ s \in told => pc[s] = "out"

(* Who owns the stream: its thread, which exists with the stream only.       *)
Running(s) == fast[s] \in {"extract", "inject", "sync"}

Owner(s) ==
  /\ Running(s) =>
       /\ pc[s] \in {"reading", "check", "gate", "finish", "joinFinish", "end", "join"}
       /\ s \in pair /\ extracting[s] # injecting[s]
  /\ ~Running(s) => ~extracting[s] /\ ~injecting[s]

Local(s) == RowPlaces(s) /\ PairPlaces(s) /\ Owner(s)

(* active_streams_ counts the sessions between their admission and the first *)
(* step of their end.                                                        *)
Counts(s) ==
  pc[s] \in {"pair", "unwound"} \/ (s \in pair /\ pc[s] \notin {"join", "cleanup", "free"})

Counted == {s \in Sessions : Counts(s)}

ActiveIsExact == active = Cardinality(Counted)

IInv == ArenaInv /\ Types /\ (\A s \in Sessions : Local(s)) /\ ActiveIsExact

LEMMA NoRowIsNoRow == NoRow \notin Rows
BY ArenaAssumption DEF NoRow, Rows

LEMMA PredictorsAre == Predictors = {Eou, Display} /\ Eou # Display
BY VoiceChatAssumption DEF Eou, Display

-----------------------------------------------------------------------------
(* The arena, for whoever calls it as its callers do.                        *)

LEMMA InitArena == ArenaInit => ArenaInv
<1> SUFFICES ASSUME ArenaInit PROVE ArenaInv
  OBVIOUS
<1>1. ArenaTypes
  BY DEF ArenaInit, ArenaTypes
<1>2. Apart /\ UsedIsHeld /\ StaleIsFlagged
  BY NoRowIsNoRow DEF ArenaInit, Apart, UsedIsHeld, StaleIsFlagged
<1> QED
  BY <1>1, <1>2 DEF ArenaInv

(* A thread without a row for p gets one that is free.                       *)
LEMMA AcquireInv ==
  ASSUME ArenaInv, NEW t \in Threads, NEW p \in Predictors,
         slot[t][p] = NoRow, Acquire(t, p)
  PROVE  /\ ArenaInv'
         /\ \E r \in Rows : slot' = [slot EXCEPT ![t][p] = r]
<1>1. PICK r \in Rows :
        /\ ~used[r]
        /\ used' = [used EXCEPT ![r] = TRUE]
        /\ needReset' = [needReset EXCEPT ![r] = FALSE]
        /\ slot' = [slot EXCEPT ![t][p] = r]
        /\ dirty' = [dirty EXCEPT ![t][p] = needReset[r]]
  BY DEF Acquire, Claim, FreeRows
<1>2. content' = content /\ sleep' = [sleep EXCEPT ![t] = "no"]
  BY DEF Acquire
<1>3. ArenaTypes'
  BY <1>1, <1>2 DEF ArenaInv, ArenaTypes
<1>4. \A u \in Threads, q \in Predictors : slot[u][q] # r
  BY <1>1 DEF ArenaInv, UsedIsHeld
<1>5. \A u \in Threads, q \in Predictors :
        /\ slot'[u][q] = IF u = t /\ q = p THEN r ELSE slot[u][q]
        /\ dirty'[u][q] = IF u = t /\ q = p THEN needReset[r] ELSE dirty[u][q]
  BY <1>1 DEF ArenaInv, ArenaTypes
<1>6. Apart'
  BY <1>4, <1>5 DEF ArenaInv, Apart
<1>7. UsedIsHeld'
  <2> SUFFICES ASSUME NEW v \in Rows
               PROVE  used'[v] <=> \E u \in Threads, q \in Predictors : slot'[u][q] = v
    BY DEF UsedIsHeld, Rows
  <2>1. CASE v = r
    BY <2>1, <1>1, <1>5 DEF ArenaInv, ArenaTypes
  <2>2. CASE v # r
    <3>1. used'[v] = used[v]
      BY <2>2, <1>1 DEF ArenaInv, ArenaTypes
    <3>2. \A u \in Threads, q \in Predictors : slot'[u][q] = v <=> slot[u][q] = v
      BY <2>2, <1>5, NoRowIsNoRow
    <3> QED
      BY <3>1, <3>2 DEF ArenaInv, UsedIsHeld
  <2> QED
    BY <2>1, <2>2
<1>8. StaleIsFlagged'
  <2>1. ASSUME NEW v \in Rows, ~used'[v], content'[v] = "stale" PROVE needReset'[v]
    BY <2>1, <1>1, <1>2 DEF ArenaInv, ArenaTypes, StaleIsFlagged
  <2>2. ASSUME NEW u \in Threads, NEW q \in Predictors,
               slot'[u][q] # NoRow, content'[slot'[u][q]] = "stale"
        PROVE  dirty'[u][q]
    BY <2>2, <1>1, <1>2, <1>5 DEF ArenaInv, StaleIsFlagged
  <2> QED
    BY <2>1, <2>2 DEF StaleIsFlagged, Rows, NoRow
<1> QED
  BY <1>1, <1>3, <1>6, <1>7, <1>8 DEF ArenaInv

LEMMA ReleaseInv ==
  ASSUME ArenaInv, NEW t \in Threads, NEW p \in Predictors, Release(t, p)
  PROVE  /\ ArenaInv'
         /\ slot' = [slot EXCEPT ![t][p] = NoRow]
<1> DEFINE r == slot[t][p]
<1>1. /\ r # NoRow
      /\ needReset' = [needReset EXCEPT ![r] = TRUE]
      /\ used' = [used EXCEPT ![r] = FALSE]
      /\ content' = [content EXCEPT ![r] = IF content[r] = "own" THEN "stale" ELSE content[r]]
      /\ slot' = [slot EXCEPT ![t][p] = NoRow]
      /\ dirty' = [dirty EXCEPT ![t][p] = FALSE]
      /\ UNCHANGED sleep
  BY DEF Release
<1>2. r \in Rows
  BY <1>1 DEF ArenaInv, ArenaTypes
<1> HIDE DEF r
<1>3. ArenaTypes'
  BY <1>1, <1>2 DEF ArenaInv, ArenaTypes, Rows, NoRow
<1>4. \A u \in Threads, q \in Predictors :
        /\ slot'[u][q] = IF u = t /\ q = p THEN NoRow ELSE slot[u][q]
        /\ ~(u = t /\ q = p) => (dirty'[u][q] <=> dirty[u][q])
        /\ slot[u][q] = r => u = t /\ q = p
  <2>1. slot[t][p] = r
    BY DEF r
  <2>2. \A u \in Threads, q \in Predictors :
          slot'[u][q] = IF u = t /\ q = p THEN NoRow ELSE slot[u][q]
    BY <1>1 DEF ArenaInv, ArenaTypes
  <2>3. \A u \in Threads, q \in Predictors :
          ~(u = t /\ q = p) => (dirty'[u][q] <=> dirty[u][q])
    BY <1>1 DEF ArenaInv, ArenaTypes
  <2>4. \A u \in Threads, q \in Predictors : slot[u][q] = r => u = t /\ q = p
    BY <2>1, <1>1 DEF ArenaInv, Apart
  <2> QED
    BY <2>2, <2>3, <2>4
<1>5. Apart'
  BY <1>4 DEF ArenaInv, Apart
<1>6. UsedIsHeld'
  <2> SUFFICES ASSUME NEW v \in Rows
               PROVE  used'[v] <=> \E u \in Threads, q \in Predictors : slot'[u][q] = v
    BY DEF UsedIsHeld, Rows
  <2>1. CASE v = r
    BY <2>1, <1>1, <1>2, <1>4, NoRowIsNoRow DEF ArenaInv, ArenaTypes
  <2>2. CASE v # r
    <3>1. used'[v] = used[v]
      BY <2>2, <1>1 DEF ArenaInv, ArenaTypes
    <3>2. \A u \in Threads, q \in Predictors : slot'[u][q] = v <=> slot[u][q] = v
      <4>1. slot[t][p] = r
        BY DEF r
      <4> QED
        BY <4>1, <2>2, <1>4, NoRowIsNoRow
    <3> QED
      BY <3>1, <3>2 DEF ArenaInv, UsedIsHeld
  <2> QED
    BY <2>1, <2>2
<1>7. StaleIsFlagged'
  <2>1. ASSUME NEW v \in Rows, ~used'[v], content'[v] = "stale" PROVE needReset'[v]
    <3>1. CASE v = r
      BY <3>1, <1>1, <1>2 DEF ArenaInv, ArenaTypes
    <3>2. CASE v # r
      BY <2>1, <3>2, <1>1 DEF ArenaInv, ArenaTypes, StaleIsFlagged
    <3> QED
      BY <3>1, <3>2
  <2>2. ASSUME NEW u \in Threads, NEW q \in Predictors,
               slot'[u][q] # NoRow, content'[slot'[u][q]] = "stale"
        PROVE  dirty'[u][q]
    <3>1. ~(u = t /\ q = p) /\ slot'[u][q] = slot[u][q] /\ slot[u][q] # r
      BY <2>2, <1>4
    <3>2. slot[u][q] \in Rows
      BY <2>2, <3>1 DEF ArenaInv, ArenaTypes
    <3>3. content'[slot[u][q]] = content[slot[u][q]]
      BY <3>1, <3>2, <1>1 DEF ArenaInv, ArenaTypes
    <3> QED
      BY <2>2, <3>1, <3>3, <1>4 DEF ArenaInv, StaleIsFlagged
  <2> QED
    BY <2>1, <2>2 DEF StaleIsFlagged, Rows, NoRow
<1> QED
  BY <1>1, <1>3, <1>5, <1>6, <1>7 DEF ArenaInv

LEMMA PredictInv ==
  ASSUME ArenaInv, NEW t \in Threads, NEW ps \in SUBSET Predictors, Predict(t, ps)
  PROVE  ArenaInv' /\ slot' = slot
<1>1. /\ content' = [r \in Rows |->
                      IF \E p \in ps : slot[t][p] = r /\ (dirty[t][p] \/ content[r] # "stale")
                      THEN "own" ELSE content[r]]
      /\ dirty' = [dirty EXCEPT ![t] = [p \in Predictors |-> dirty[t][p] /\ p \notin ps]]
      /\ UNCHANGED <<used, needReset, slot, sleep>>
  BY DEF Predict
<1>2. ArenaTypes'
  BY <1>1 DEF ArenaInv, ArenaTypes, Rows, NoRow
<1>3. Apart' /\ UsedIsHeld'
  BY <1>1 DEF ArenaInv, Apart, UsedIsHeld, Rows, NoRow
<1>4. \A r \in Rows : content'[r] = "stale" => content[r] = "stale"
  BY <1>1
<1>5. StaleIsFlagged'
  <2>1. ASSUME NEW v \in Rows, ~used'[v], content'[v] = "stale" PROVE needReset'[v]
    BY <2>1, <1>1, <1>4 DEF ArenaInv, StaleIsFlagged
  <2>2. ASSUME NEW u \in Threads, NEW q \in Predictors,
               slot'[u][q] # NoRow, content'[slot'[u][q]] = "stale"
        PROVE  dirty'[u][q]
    <3>1. slot[u][q] \in Rows /\ slot'[u][q] = slot[u][q]
      BY <2>2, <1>1 DEF ArenaInv, ArenaTypes
    <3>2. content[slot[u][q]] = "stale" /\ dirty[u][q]
      BY <2>2, <3>1, <1>4, NoRowIsNoRow DEF ArenaInv, StaleIsFlagged
    <3>3. ~(u = t /\ q \in ps)
      BY <2>2, <3>1, <3>2, <1>1
    <3> QED
      BY <3>2, <3>3, <1>1 DEF ArenaInv, ArenaTypes
  <2> QED
    BY <2>1, <2>2 DEF StaleIsFlagged, Rows, NoRow
<1> QED
  BY <1>1, <1>2, <1>3, <1>5 DEF ArenaInv

(* The steps that only sleep, wake or give up.                               *)
LEMMA SleepInv ==
  ASSUME ArenaInv, NEW t \in Threads, FallAsleep(t) \/ Ring(t) \/ GiveUp(t) \/ NotifyOne
  PROVE  ArenaInv' /\ slot' = slot
<1>1. UNCHANGED <<used, needReset, content, slot, dirty>>
  BY DEF FallAsleep, Ring, GiveUp, NotifyOne
<1>2. sleep' \in [Threads -> {"no", "asleep", "awake", "late"}]
  BY DEF ArenaInv, ArenaTypes, FallAsleep, Ring, GiveUp, NotifyOne
<1> QED
  BY <1>1, <1>2
     DEF ArenaInv, ArenaTypes, Apart, UsedIsHeld, StaleIsFlagged, Rows, NoRow

LEMMA ArenaFrame == ArenaInv /\ UNCHANGED arenaVars => ArenaInv'
BY DEF arenaVars, ArenaInv, ArenaTypes, Apart, UsedIsHeld, StaleIsFlagged, Rows, NoRow

(* What the arena promises, in the words of the specification.               *)
LEMMA ArenaRowsAreOwn == ArenaInv => RowsAreOwn
<1> SUFFICES ASSUME ArenaInv PROVE RowsAreOwn
  OBVIOUS
<1>1. \A t, u \in Threads : t # u => Held(t) \cap Held(u) = {}
  BY DEF ArenaInv, Apart, Held
<1>2. \A r \in Rows : used[r] <=> \E t \in Threads : r \in Held(t)
  BY NoRowIsNoRow DEF ArenaInv, UsedIsHeld, Held
<1>3. \A t \in Threads, p \in Predictors :
        slot[t][p] # NoRow /\ content[slot[t][p]] = "stale" => dirty[t][p]
  BY DEF ArenaInv, StaleIsFlagged
<1> QED
  BY <1>1, <1>2, <1>3 DEF RowsAreOwn
-----------------------------------------------------------------------------
(* A step of a session: what it may do to the others and to the count.       *)

Elsewhere(s) ==
  \A t \in Sessions \ {s} :
    /\ pc'[t] = pc[t] /\ fast'[t] = fast[t] /\ slot'[t] = slot[t]
    /\ (extracting'[t] <=> extracting[t]) /\ (injecting'[t] <=> injecting[t])
    /\ (t \in pair' <=> t \in pair) /\ (t \in seq' <=> t \in seq)
    /\ (t \in told' <=> t \in told)

ActiveMoves(s) ==
  \/ active' = active /\ (Counts(s)' <=> Counts(s))
  \/ active' = active + 1 /\ ~Counts(s) /\ Counts(s)'
  \/ active' = active - 1 /\ Counts(s) /\ ~Counts(s)'

Good(s) == Types' /\ Local(s)' /\ Elsewhere(s) /\ ActiveMoves(s)

(* Steps that leave rows, pairs, sequences and flags alone.                  *)
LEMMA PlainSteps ==
  ASSUME IInv, NEW s \in Sessions,
         \/ Connect(s) \/ Update(s) \/ FunctionOutput(s) \/ Audio(s) \/ Close(s)
         \/ Farewell(s) \/ RefuseStream(s) \/ Check(s) \/ Gate(s) \/ Decode(s)
  PROVE  Good(s) /\ ArenaInv'
<1> USE DEF IInv, Types, Places, arenaVars, poolVars, streamVars, flagVars, At, Goto,
            HasStream, Over
<1>1. UNCHANGED <<arenaVars, pair, seq, active, fast, extracting, injecting>>
  BY DEF Connect, Update, FunctionOutput, Audio, Close, Farewell, RefuseStream,
     Check, Gate, Decode
<1>2. ArenaInv'
  BY <1>1, ArenaFrame
<1>3. PICK l \in Places : pc' = [pc EXCEPT ![s] = l]
  BY DEF Connect, Update, FunctionOutput, Audio, Close, Farewell, RefuseStream,
     Check, Gate, Decode
<1>4. Types' /\ Elsewhere(s)
  BY <1>1, <1>3
     DEF Elsewhere, Connect, Update, FunctionOutput, Audio, Close, Farewell, RefuseStream,
         Check, Gate, Decode
<1>5. RowPlaces(s)' /\ PairPlaces(s)'
  BY <1>1 DEF Local, RowPlaces, PairPlaces, Rowless,
     Connect, Update, FunctionOutput, Audio, Close, Farewell, RefuseStream,
     Check, Gate, Decode
<1>6. Owner(s)'
  BY <1>1 DEF Local, Owner, Running, Gated,
     Connect, Update, FunctionOutput, Audio, Close, Farewell, RefuseStream,
     Check, Gate, Decode
<1>7. ActiveMoves(s)
  BY <1>1 DEF ActiveMoves, Counts, Local, PairPlaces,
     Connect, Update, FunctionOutput, Audio, Close, Farewell, RefuseStream,
     Check, Gate, Decode
<1> QED
  BY <1>2, <1>4, <1>5, <1>6, <1>7 DEF Good, Local
(* Steps that take or give back a place, a pair or a sequence.               *)
LEMMA ResourceSteps ==
  ASSUME IInv, NEW s \in Sessions,
         \/ Admit(s) \/ AllocatePair(s) \/ RefusePair(s) \/ Unwind(s)
         \/ Prefill(s) \/ End(s) \/ Cleanup(s)
  PROVE  Good(s) /\ ArenaInv'
<1> USE DEF IInv, Types, Places, arenaVars, poolVars, streamVars, flagVars, At, Goto,
            HasStream, Over
<1>1. UNCHANGED <<arenaVars, extracting, injecting>>
  BY DEF Admit, AllocatePair, RefusePair, Unwind, Prefill, End, Cleanup
<1>2. ArenaInv'
  BY <1>1, ArenaFrame
<1>3. Types' /\ Elsewhere(s)
  BY <1>1 DEF Elsewhere, Admit, AllocatePair, RefusePair, Unwind, Prefill, End, Cleanup
<1>4. RowPlaces(s)' /\ PairPlaces(s)'
  BY <1>1 DEF Local, RowPlaces, PairPlaces, Rowless, Owner, Running, Stopped,
     Admit, AllocatePair, RefusePair, Unwind, Prefill, End, Cleanup
<1>5. Owner(s)'
  BY <1>1 DEF Local, PairPlaces, Owner, Running, Stopped,
     Admit, AllocatePair, RefusePair, Unwind, Prefill, End, Cleanup
<1>6. ActiveMoves(s)
  BY <1>1 DEF ActiveMoves, Counts, Local, PairPlaces, Stopped,
     Admit, AllocatePair, RefusePair, Unwind, Prefill, End, Cleanup
<1> QED
  BY <1>2, <1>3, <1>4, <1>5, <1>6 DEF Good, Local

(* The thread of the stream: all it does outside the call is to lower the    *)
(* flags when it is done.                                                    *)
LEMMA FastPathSteps ==
  ASSUME IInv, NEW s \in Sessions, FastPath(s)
  PROVE  Good(s) /\ ArenaInv'
<1> USE DEF IInv, Types
<1>1. UNCHANGED <<arenaVars, pc, pair, seq, told, active>>
  BY DEF FastPath, Extract, Inject, Sync, sessionVars, poolVars
<1>2. /\ Running(s)
      /\ \/ fast' = fast /\ UNCHANGED <<extracting, injecting>>
         \/ fast' = [fast EXCEPT ![s] = "sync"] /\ UNCHANGED <<extracting, injecting>>
         \/ /\ fast' = [fast EXCEPT ![s] = "done"]
            /\ extracting' = [extracting EXCEPT ![s] = FALSE]
            /\ injecting' = [injecting EXCEPT ![s] = FALSE]
  <2>1. CASE Extract(s)
    <3>1. fast[s] = "extract" /\ UNCHANGED <<extracting, injecting>>
      BY <2>1 DEF Extract, flagVars
    <3>2. fast' = fast \/ fast' = [fast EXCEPT ![s] = "sync"]
      BY <2>1 DEF Extract
    <3> QED BY <3>1, <3>2 DEF Running
  <2>2. CASE Inject(s)
    BY <2>2 DEF Inject, flagVars, Running
  <2>3. CASE Sync(s)
    BY <2>3 DEF Sync, Running
  <2> QED BY <2>1, <2>2, <2>3 DEF FastPath
<1>3. ArenaInv'
  BY <1>1, ArenaFrame
<1>4. Types' /\ Elsewhere(s)
  BY <1>1, <1>2 DEF Elsewhere, arenaVars
<1>5. RowPlaces(s)' /\ PairPlaces(s)' /\ ActiveMoves(s)
  BY <1>1 DEF Local, RowPlaces, PairPlaces, Rowless, ActiveMoves, Counts, arenaVars
<1>6. Owner(s)'
  BY <1>1, <1>2 DEF Local, Owner, Running
<1> QED
  BY <1>3, <1>4, <1>5, <1>6 DEF Good, Local

(* The session's thread takes the stream back, or gives it up.               *)
LEMMA JoinSteps ==
  ASSUME IInv, NEW s \in Sessions, Intake(s) \/ Finish(s)
  PROVE  Good(s) /\ ArenaInv'
<1> USE DEF IInv, Types
<1>1. UNCHANGED <<arenaVars, pair, seq, told, active, extracting, injecting>>
  BY DEF Intake, Finish, poolVars, flagVars
<1>2. \/ fast' = fast
      \/ fast' = [fast EXCEPT ![s] = "none"] /\ ~Running(s)
  <2>1. CASE Intake(s)
    <3>1. ~Running(s)
      BY <2>1 DEF Intake, At, Local, Owner
    <3>2. fast' = fast \/ fast' = [fast EXCEPT ![s] = "none"]
      BY <2>1 DEF Intake
    <3> QED BY <3>1, <3>2
  <2>2. CASE Finish(s)
    BY <2>2 DEF Finish, Stopped, Running
  <2> QED BY <2>1, <2>2
<1>3. \/ pc[s] = "intake" /\ pc' = [pc EXCEPT ![s] = "steps"]
      \/ pc[s] = "finish" /\ pc' = [pc EXCEPT ![s] = "joinFinish"]
      \/ pc[s] = "joinFinish" /\ pc' = [pc EXCEPT ![s] = "end"]
      \/ pc[s] = "joinFinish" /\ pc' = [pc EXCEPT ![s] = "hide"] /\ ~Running(s)
  BY DEF Intake, Finish, At, Goto, Stopped, Running
<1>4. ArenaInv'
  BY <1>1, ArenaFrame
<1>5. Types' /\ Elsewhere(s)
  BY <1>1, <1>2, <1>3 DEF Elsewhere, Places, arenaVars
<1>6. RowPlaces(s)' /\ PairPlaces(s)' /\ ActiveMoves(s)
  BY <1>1, <1>3 DEF Local, RowPlaces, PairPlaces, Rowless, ActiveMoves, Counts, arenaVars
<1>7. Owner(s)'
  BY <1>1, <1>2, <1>3 DEF Local, Owner, Running, PairPlaces
<1> QED
  BY <1>4, <1>5, <1>6, <1>7 DEF Good, Local

(* maybe_start_fast_paths finds nobody at work: one flag is raised at most.  *)
LEMMA StartStep ==
  ASSUME IInv, NEW s \in Sessions, Start(s)
  PROVE  Good(s) /\ ArenaInv'
<1> USE DEF IInv, Types
<1> DEFINE extract == ~exhausted[s] /\ call[s].state = "WaitingForRequest" /\ ~extracting[s]
           inject  == /\ ~exhausted[s] /\ call[s].state = "ProcessResponse"
                      /\ call[s].resp > 0 /\ ~injecting[s]
<1>1. UNCHANGED <<arenaVars, pair, seq, told, active>>
  BY DEF Start, poolVars
<1>2. /\ pc[s] = "start" /\ pc' = [pc EXCEPT ![s] = "reading"]
      /\ s \in pair /\ ~Running(s) /\ ~extracting[s] /\ ~injecting[s]
  BY DEF Start, At, Goto, Local, Owner, PairPlaces
<1>3. /\ extracting' = [extracting EXCEPT ![s] = extracting[s] \/ extract]
      /\ injecting' = [injecting EXCEPT ![s] = injecting[s] \/ inject]
      /\ fast' = IF extract \/ inject
                 THEN [fast EXCEPT ![s] = IF extract THEN "extract" ELSE "inject"]
                 ELSE fast
  BY DEF Start
<1>4. ~(extract /\ inject)
  OBVIOUS
<1> HIDE DEF extract, inject
<1>5. ArenaInv'
  BY <1>1, ArenaFrame
<1>6. /\ (extracting'[s] <=> extract) /\ (injecting'[s] <=> inject)
      /\ extract \/ inject => fast'[s] \in {"extract", "inject"}
      /\ ~extract /\ ~inject => fast' = fast
      /\ extracting' \in [Sessions -> BOOLEAN] /\ injecting' \in [Sessions -> BOOLEAN]
  <2>1. extracting'[s] <=> extract BY <1>2, <1>3
  <2>2. injecting'[s] <=> inject BY <1>2, <1>3
  <2>3. extracting' \in [Sessions -> BOOLEAN] /\ injecting' \in [Sessions -> BOOLEAN]
    BY <1>3, <2>1, <2>2
  <2>4. extract \/ inject => fast'[s] \in {"extract", "inject"} BY <1>3
  <2>5. ~extract /\ ~inject => fast' = fast BY <1>3
  <2> QED BY <2>1, <2>2, <2>3, <2>4, <2>5
<1>7. Types'
  <2>1. fast' \in [Sessions -> {"none", "extract", "inject", "sync", "done"}] BY <1>3
  <2>2. pc' \in [Sessions -> Places] BY <1>2 DEF Places
  <2> QED BY <1>1, <1>6, <2>1, <2>2
<1>8. Elsewhere(s)
  <2> SUFFICES ASSUME NEW t \in Sessions \ {s}
               PROVE  /\ pc'[t] = pc[t] /\ fast'[t] = fast[t]
                      /\ (extracting'[t] <=> extracting[t]) /\ (injecting'[t] <=> injecting[t])
    BY <1>1 DEF Elsewhere, arenaVars
  <2>1. pc'[t] = pc[t] /\ fast'[t] = fast[t] BY <1>2, <1>3
  <2>2. extracting'[t] <=> extracting[t] BY <1>3
  <2>3. injecting'[t] <=> injecting[t] BY <1>3
  <2> QED BY <2>1, <2>2, <2>3
<1>9. RowPlaces(s)' /\ PairPlaces(s)' /\ ActiveMoves(s)
  BY <1>1, <1>2 DEF Local, RowPlaces, PairPlaces, Rowless, ActiveMoves, Counts, arenaVars
<1>10. Owner(s)'
  <2>1. pc'[s] = "reading" /\ s \in pair' BY <1>1, <1>2
  <2>2. Running(s)' => extracting'[s] # injecting'[s]
    BY <1>2, <1>4, <1>6 DEF Running
  <2>3. ~Running(s)' => ~extracting'[s] /\ ~injecting'[s]
    BY <1>6 DEF Running
  <2> QED BY <2>1, <2>2, <2>3 DEF Owner, Running
<1> QED
  BY <1>5, <1>7, <1>8, <1>9, <1>10 DEF Good, Local

(* Steps on the rows of the predictors: from where to where they lead.       *)
Hop(s, to) ==
  /\ pc' = [pc EXCEPT ![s] = to]
  /\ \/ pc[s] = "eou" /\ to \in {"eou", "display", "unwind"}
     \/ pc[s] = "display" /\ to \in {"display", "prefill", "unwind"}
     \/ pc[s] = "steps" /\ to \in {"steps", "hide", "end"}
     \/ pc[s] = "hide" /\ to = "hidden"
     \/ pc[s] = "hidden" /\ to = "show"
     \/ pc[s] = "show" /\ to \in {"show", "steps", "end"}
     \/ pc[s] = "drop" /\ to \in {"dropped", "admit", "bye"}
     \/ pc[s] = "dropped" /\ to = "drop"

LEMMA RowHop ==
  ASSUME IInv, NEW s \in Sessions, NEW to, Hop(s, to), RowPlaces(s)',
         UNCHANGED <<pair, seq, told, active, fast, extracting, injecting>>,
         \A t \in Sessions \ {s} : slot'[t] = slot[t]
  PROVE  Good(s)
<1> USE DEF IInv, Types
<1>1. PairPlaces(s) /\ Owner(s)
  BY DEF Local
<1>2. pc' = [pc EXCEPT ![s] = to] /\ to \in Places
  BY DEF Hop, Places
<1>3. Types' /\ Elsewhere(s)
  BY <1>2 DEF Elsewhere
<1>4. pc'[s] = to
  BY <1>2
<1>5. PairPlaces(s)' /\ Owner(s)' /\ ActiveMoves(s)
  BY <1>1, <1>4 DEF Hop, PairPlaces, Owner, Running, ActiveMoves, Counts
<1> QED
  BY <1>3, <1>5 DEF Good, Local

(* Steps on the rows of the predictors.                                      *)
LEMMA RowSteps ==
  ASSUME IInv, NEW s \in Sessions,
         \/ GetRow(s) \/ WaitForRow(s) \/ RowTimer(s) \/ RefuseRow(s)
         \/ Step(s) \/ StepFails(s) \/ Hide(s) \/ Drop(s)
  PROVE  Good(s) /\ ArenaInv'
<1> USE DEF IInv, Types
<1>1. UNCHANGED <<pair, seq, told, active, fast, extracting, injecting>>
  BY DEF GetRow, WaitForRow, RowTimer, RefuseRow, Step, StepFails, Hide, Drop,
         sessionVars, poolVars, streamVars, flagVars
<1>r. RowPlaces(s) /\ PairPlaces(s) /\ Owner(s)
  BY DEF Local
<1> DEFINE Effect(to) ==
      /\ Hop(s, to) /\ RowPlaces(s)' /\ ArenaInv'
      /\ \A t \in Sessions \ {s} : slot'[t] = slot[t]
<1>2. ASSUME GetRow(s) PROVE \E to : Effect(to)
  <2>1. pc[s] \in {"eou", "display", "show"} /\ Wanted(s) \in Predictors
        /\ Wanted(s) = IF pc[s] = "eou" THEN Eou ELSE Display
    BY <1>2, PredictorsAre DEF GetRow, WantsRow, Wanted, At
  <2>2. slot[s][Wanted(s)] = NoRow
    BY <1>r, <2>1 DEF RowPlaces, Rowless
  <2>3. ArenaInv' /\ \E r \in Rows : slot' = [slot EXCEPT ![s][Wanted(s)] = r]
    <3>1. Acquire(s, Wanted(s)) /\ s \in Threads
      BY <1>2 DEF GetRow, Sessions
    <3> HIDE DEF Wanted
    <3> QED BY <2>1, <2>2, <3>1, AcquireInv
  <2>4. \/ pc[s] = "eou" /\ pc' = [pc EXCEPT ![s] = "display"]
        \/ pc[s] = "display" /\ pc' = [pc EXCEPT ![s] = "prefill"]
        \/ pc[s] = "show" /\ pc' = [pc EXCEPT ![s] = "steps"]
        \/ pc[s] = "show" /\ pc' = [pc EXCEPT ![s] = "end"]
    BY <1>2, <2>1 DEF GetRow, At, Goto
  <2>5. \A t \in Sessions \ {s} : slot'[t] = slot[t]
    BY <2>3 DEF ArenaInv, ArenaTypes, Sessions
  <2>6. pc[s] = "eou" => slot'[s][Display] = NoRow
    <3>1. pc[s] = "eou" => slot[s][Display] = NoRow /\ Wanted(s) # Display
      BY <1>r, <2>1, PredictorsAre DEF RowPlaces, Rowless
    <3> QED BY <2>3, <3>1, PredictorsAre DEF ArenaInv, ArenaTypes, Sessions
  <2>7. RowPlaces(s)'
    BY <2>4, <2>6 DEF RowPlaces
  <2>8. \E to : Hop(s, to)
    BY <2>4 DEF Hop
  <2> QED BY <2>3, <2>5, <2>7, <2>8
<1>3. ASSUME WaitForRow(s) \/ RowTimer(s) \/ RefuseRow(s) PROVE \E to : Effect(to)
  <2>1. FallAsleep(s) \/ Ring(s) \/ GiveUp(s)
    BY <1>3 DEF WaitForRow, RowTimer, RefuseRow
  <2>2. ArenaInv' /\ slot' = slot
    BY <2>1, SleepInv DEF Sessions
  <2>3. /\ pc[s] \in {"eou", "display", "show"}
        /\ \/ pc' = pc
           \/ pc[s] = "show" /\ pc' = [pc EXCEPT ![s] = "end"]
           \/ pc[s] # "show" /\ pc' = [pc EXCEPT ![s] = "unwind"]
    BY <1>3 DEF WaitForRow, RowTimer, RefuseRow, WantsRow, At, Goto, sessionVars
  <2>4. \E to : Hop(s, to)
    <3>1. pc' = [pc EXCEPT ![s] = pc[s]] \/ pc' # pc
      OBVIOUS
    <3> QED BY <2>3, <3>1 DEF Hop
  <2>5. RowPlaces(s)'
    BY <1>r, <2>2, <2>3 DEF RowPlaces, Rowless
  <2> QED BY <2>2, <2>4, <2>5
<1>4. ASSUME Step(s) \/ StepFails(s) PROVE \E to : Effect(to)
  <2>1. \E ps \in SUBSET Predictors : Predict(s, ps)
    BY <1>4 DEF Step, StepFails
  <2>2. ArenaInv' /\ slot' = slot
    BY <2>1, PredictInv DEF Sessions
  <2>3. pc[s] = "steps" /\ \E l \in {"steps", "hide", "end"} : pc' = [pc EXCEPT ![s] = l]
    BY <1>4 DEF Step, StepFails, At, Goto
  <2>4. RowPlaces(s)'
    BY <2>3 DEF RowPlaces
  <2>5. \E to : Hop(s, to)
    BY <2>3 DEF Hop
  <2> QED BY <2>2, <2>4, <2>5
<1>5. ASSUME Hide(s) PROVE \E to : Effect(to)
  <2>1. CASE At(s, "hide") /\ Release(s, Display) /\ Goto(s, "hidden")
    <3>1. ArenaInv' /\ slot' = [slot EXCEPT ![s][Display] = NoRow]
      BY <2>1, ReleaseInv, PredictorsAre DEF Sessions
    <3>2. slot'[s][Display] = NoRow /\ \A t \in Sessions \ {s} : slot'[t] = slot[t]
      BY <3>1, PredictorsAre DEF ArenaInv, ArenaTypes, Sessions
    <3>3. pc[s] = "hide" /\ pc' = [pc EXCEPT ![s] = "hidden"]
      BY <2>1 DEF At, Goto
    <3>4. RowPlaces(s)'
      BY <3>2, <3>3 DEF RowPlaces
    <3>5. \E to : Hop(s, to)
      BY <3>3 DEF Hop
    <3> QED BY <3>1, <3>2, <3>3, <3>4, <3>5
  <2>2. CASE At(s, "hidden") /\ NotifyOne /\ Goto(s, "show")
    <3>1. ArenaInv' /\ slot' = slot
      BY <2>2, SleepInv DEF Sessions
    <3>2. pc[s] = "hidden" /\ pc' = [pc EXCEPT ![s] = "show"]
      BY <2>2 DEF At, Goto
    <3>3. RowPlaces(s)'
      BY <1>r, <3>1, <3>2 DEF RowPlaces
    <3>4. \E to : Hop(s, to)
      BY <3>2 DEF Hop
    <3> QED BY <3>1, <3>2, <3>3, <3>4
  <2> QED BY <1>5, <2>1, <2>2 DEF Hide
<1>6. ASSUME Drop(s) PROVE \E to : Effect(to)
  <2>1. CASE At(s, "drop") /\ Goto(s, "dropped")
             /\ (Release(s, Display) \/ Release(s, Eou))
    <3>1. ArenaInv' /\ \E p \in Predictors : slot' = [slot EXCEPT ![s][p] = NoRow]
      BY <2>1, ReleaseInv, PredictorsAre DEF Sessions
    <3>2. \A t \in Sessions \ {s} : slot'[t] = slot[t]
      BY <3>1 DEF ArenaInv, ArenaTypes, Sessions
    <3>3. pc[s] = "drop" /\ pc' = [pc EXCEPT ![s] = "dropped"]
      BY <2>1 DEF At, Goto
    <3>4. RowPlaces(s)'
      BY <3>3 DEF RowPlaces
    <3>5. \E to : Hop(s, to)
      BY <3>3 DEF Hop
    <3> QED BY <3>1, <3>2, <3>3, <3>4, <3>5
  <2>2. CASE At(s, "dropped") /\ NotifyOne /\ Goto(s, "drop")
    <3>1. ArenaInv' /\ slot' = slot
      BY <2>2, SleepInv DEF Sessions
    <3>2. pc[s] = "dropped" /\ pc' = [pc EXCEPT ![s] = "drop"]
      BY <2>2 DEF At, Goto
    <3>3. RowPlaces(s)'
      BY <3>2 DEF RowPlaces
    <3>4. \E to : Hop(s, to)
      BY <3>2 DEF Hop
    <3> QED BY <3>1, <3>2, <3>3, <3>4
  <2>3. CASE /\ At(s, "drop") /\ Held(s) = {} /\ UNCHANGED arenaVars
             /\ Goto(s, IF plan[s] = "renew" THEN "admit" ELSE "bye")
    <3>1. ArenaInv' /\ slot' = slot
      BY <2>3, ArenaFrame DEF arenaVars
    <3>2. pc[s] = "drop" /\ \E l \in {"admit", "bye"} : pc' = [pc EXCEPT ![s] = l]
      BY <2>3 DEF At, Goto
    <3>3. Rowless(s)'
      BY <2>3, <3>1 DEF Held, Rowless
    <3>4. RowPlaces(s)'
      BY <3>2, <3>3 DEF RowPlaces
    <3>5. \E to : Hop(s, to)
      BY <3>2 DEF Hop
    <3> QED BY <3>1, <3>4, <3>5
  <2> QED BY <1>6, <2>1, <2>2, <2>3 DEF Drop
<1>7. PICK to : Effect(to)
  BY <1>2, <1>3, <1>4, <1>5, <1>6
<1>8. Good(s)
  BY <1>1, <1>7, RowHop
<1> QED
  BY <1>7, <1>8
-----------------------------------------------------------------------------
(* All sessions together.                                                    *)

LEMMA CountedIsFinite == IsFiniteSet(Counted)
BY FS_Subset, VoiceChatAssumption DEF Counted

LEMMA InitIInv == Init => IInv
<1> SUFFICES ASSUME Init PROVE IInv
  OBVIOUS
<1>1. ArenaInv
  BY InitArena DEF Init
<1>2. Types
  BY DEF Init, Types, Places
<1>3. \A s \in Sessions : Local(s)
  BY PredictorsAre DEF Init, ArenaInit, Local, RowPlaces, PairPlaces, Owner, Running, Rowless,
                       Sessions
<1>4. Counted = {}
  BY DEF Init, Counted, Counts
<1> QED
  BY <1>1, <1>2, <1>3, <1>4, FS_EmptySet DEF Init, IInv, ActiveIsExact

(* What a session does leaves the others' part of the invariant alone, and   *)
(* active_streams_ follows the set of those it counts.                       *)
LEMMA GoodSteps ==
  ASSUME IInv, NEW s \in Sessions, Good(s), ArenaInv'
  PROVE  IInv'
<1>1. ASSUME NEW t \in Sessions \ {s} PROVE Local(t)'
  <2>1. RowPlaces(t)' /\ PairPlaces(t)'
    BY DEF IInv, Good, Elsewhere, Local, RowPlaces, PairPlaces, Rowless
  <2>2. Owner(t)'
    <3>1. /\ Owner(t) /\ Running(t)' = Running(t) /\ pc'[t] = pc[t]
          /\ (t \in pair' <=> t \in pair)
      BY DEF IInv, Good, Elsewhere, Local, Running
    <3>2. /\ extracting[t] \in BOOLEAN /\ injecting[t] \in BOOLEAN
          /\ extracting'[t] \in BOOLEAN /\ injecting'[t] \in BOOLEAN
      BY DEF IInv, Good, Types
    <3>3. extracting'[t] = extracting[t] /\ injecting'[t] = injecting[t]
      BY <3>2 DEF Good, Elsewhere
    <3> QED BY <3>1, <3>3 DEF Owner
  <2> QED BY <2>1, <2>2 DEF Local
<1>2. \A t \in Sessions \ {s} : Counts(t)' <=> Counts(t)
  BY DEF Good, Elsewhere, Counts
<1>3. ActiveIsExact'
  <2>1. active = Cardinality(Counted)
    BY DEF IInv, ActiveIsExact
  <2>2. CASE active' = active /\ (Counts(s)' <=> Counts(s))
    <3>1. Counted' = Counted BY <1>2, <2>2 DEF Counted
    <3> QED BY <2>1, <2>2, <3>1 DEF ActiveIsExact
  <2>3. CASE active' = active + 1 /\ ~Counts(s) /\ Counts(s)'
    <3>1. Counted' = Counted \cup {s} /\ s \notin Counted BY <1>2, <2>3 DEF Counted
    <3> QED BY <2>1, <2>3, <3>1, CountedIsFinite, FS_AddElement DEF ActiveIsExact
  <2>4. CASE active' = active - 1 /\ Counts(s) /\ ~Counts(s)'
    <3>1. Counted' = Counted \ {s} /\ s \in Counted BY <1>2, <2>4 DEF Counted
    <3> QED BY <2>1, <2>4, <3>1, CountedIsFinite, FS_RemoveElement DEF ActiveIsExact
  <2> QED BY <2>2, <2>3, <2>4 DEF Good, ActiveMoves
<1> QED
  BY <1>1, <1>3 DEF IInv, Good

LEMMA StepIInv == IInv /\ [Next]_vars => IInv'
<1> SUFFICES ASSUME IInv, [Next]_vars PROVE IInv'
  OBVIOUS
<1>1. CASE UNCHANGED vars
  <2>1. ArenaInv'
    BY <1>1, ArenaFrame DEF IInv, vars
  <2>2. Types' /\ \A s \in Sessions : Local(s)'
    BY <1>1 DEF vars, arenaVars, sessionVars, poolVars, streamVars, flagVars, IInv, Types,
                Local, RowPlaces, PairPlaces, Owner, Running, Rowless
  <2>3. ActiveIsExact'
    <3>1. Counted' = Counted
      BY <1>1 DEF vars, sessionVars, poolVars, Counted, Counts
    <3> QED BY <1>1, <3>1 DEF vars, poolVars, IInv, ActiveIsExact
  <2> QED BY <2>1, <2>2, <2>3 DEF IInv
<1>2. ASSUME NEW s \in Sessions, Thread(s) \/ Client(s) \/ FastPath(s) \/ RowTimer(s)
      PROVE  IInv'
  <2>1. Good(s) /\ ArenaInv'
    BY <1>2, PlainSteps, ResourceSteps, FastPathSteps, JoinSteps, StartStep, RowSteps
       DEF Thread, Client
  <2> QED BY <2>1, GoodSteps
<1> QED
  BY <1>1, <1>2 DEF Next

(* The inductive invariant of the sessions and their streams, for any number *)
(* of them: rows, pairs, sequences, the count, and who owns each stream.     *)
THEOREM Invariance == Spec => []IInv
<1> QED
  BY InitIInv, StepIInv, PTL DEF Spec

(* A predictor row belongs to one predictor of one stream and is marked used *)
(* exactly then, and what an earlier owner left in it is never read.         *)
THEOREM RowsBelongToOne == Spec => []RowsAreOwn
<1>1. IInv => RowsAreOwn
  BY ArenaRowsAreOwn DEF IInv
<1> QED
  BY <1>1, Invariance, PTL

(* While the thread of a fast path works, process_chunk and end_stream are   *)
(* nowhere near the stream, and no second thread is started.                 *)
THEOREM OneOwner == Spec => []StreamHasOneOwner
<1>1. IInv => StreamHasOneOwner
  BY DEF IInv, Local, Owner, Running, StreamHasOneOwner
<1> QED
  BY <1>1, Invariance, PTL

-----------------------------------------------------------------------------
(* Admission. The rows are counted by a map to who holds them.               *)

LEMMA RowsAreHeldByOthers ==
  ASSUME IInv, NEW s \in Sessions, WantsRow(s), FreeRows = {}
  PROVE  Cardinality({t \in Sessions \ {s} : Occupies(t)}) >= MaxStreams
<1> DEFINE Others == {t \in Sessions \ {s} : Occupies(t)}
           Owners == (Others \X Predictors) \cup {<<s, Eou>>}
<1>1. \A r \in Rows : \E x \in Owners : slot[x[1]][x[2]] = r
  <2> SUFFICES ASSUME NEW r \in Rows PROVE \E x \in Owners : slot[x[1]][x[2]] = r
    OBVIOUS
  <2>1. PICK t \in Threads, p \in Predictors : slot[t][p] = r
    BY DEF FreeRows, IInv, ArenaInv, UsedIsHeld
  <2>2. r # NoRow
    BY NoRowIsNoRow
  <2>3. CASE t = s
    <3>1. p = Eou
      BY <2>1, <2>2, <2>3, PredictorsAre
         DEF IInv, Local, RowPlaces, Rowless, WantsRow, Sessions
    <3>2. <<s, Eou>> \in Owners
      OBVIOUS
    <3> HIDE DEF Owners
    <3> QED BY <2>1, <2>3, <3>1, <3>2
  <2>4. CASE t # s
    <3>1. pc[t] # "out"
      BY <2>1, <2>2 DEF IInv, Local, RowPlaces, Rowless, Sessions
    <3>2. t \notin told /\ Held(t) # {}
      BY <2>1, <2>2, <3>1 DEF IInv, Local, PairPlaces, Held, Sessions
    <3>3. t \in Others
      BY <2>4, <3>2 DEF Occupies, Sessions
    <3>4. <<t, p>> \in Owners
      BY <3>3
    <3> HIDE DEF Owners
    <3> QED BY <2>1, <3>4
  <2> QED BY <2>3, <2>4
<1>2. IsFiniteSet(Others) /\ Cardinality(Others) \in Nat
  BY FS_Subset, FS_CardinalityType, VoiceChatAssumption
<1>3. IsFiniteSet(Predictors) /\ Cardinality(Predictors) = 2
  <2>1. Predictors = {Eou} \cup {Display} /\ Display \notin {Eou}
    BY PredictorsAre
  <2>2. IsFiniteSet({Eou}) /\ Cardinality({Eou}) = 1
    BY FS_Singleton
  <2> QED BY <2>1, <2>2, FS_AddElement
<1>4. IsFiniteSet(Owners) /\ Cardinality(Owners) <= 2 * Cardinality(Others) + 1
  <2> DEFINE places == Others \X Predictors
  <2> HIDE DEF Others
  <2>1. IsFiniteSet(places) /\ Cardinality(places) = Cardinality(Others) * 2
    BY <1>2, <1>3, FS_Product
  <2>2. Owners = places \cup {<<s, Eou>>}
    BY DEF Others
  <2> HIDE DEF places, Owners
  <2>3. IsFiniteSet(Owners)
        /\ Cardinality(Owners) = IF <<s, Eou>> \in places THEN Cardinality(places)
                                 ELSE Cardinality(places) + 1
    BY <2>1, <2>2, FS_AddElement
  <2>4. Cardinality(Owners) = Cardinality(places) \/ Cardinality(Owners) = Cardinality(places) + 1
    BY <2>3
  <2> QED BY <2>1, <2>3, <2>4, <1>2
<1>5. IsFiniteSet(Rows) /\ Cardinality(Rows) = 2 * MaxStreams /\ MaxStreams \in Nat
  <2>1. ArenaSlots \in Nat \ {0} /\ ArenaSlots = 2 * MaxStreams /\ MaxStreams \in Nat
    BY ArenaAssumption, VoiceChatAssumption
  <2>2. IsFiniteSet(0 .. ArenaSlots - 1) /\ Cardinality(0 .. ArenaSlots - 1) = ArenaSlots
    <3>1. 0 \in Int /\ ArenaSlots - 1 \in Int /\ ~(0 > ArenaSlots - 1)
          /\ (ArenaSlots - 1) - 0 + 1 = ArenaSlots
      BY <2>1
    <3> QED BY <3>1, FS_Interval
  <2> QED BY <2>1, <2>2 DEF Rows
<1>6. Cardinality(Rows) <= Cardinality(Owners)
  <2> DEFINE holder == [r \in Rows |-> CHOOSE x \in Owners : slot[x[1]][x[2]] = r]
  <2>1. \A r \in Rows : holder[r] \in Owners /\ slot[holder[r][1]][holder[r][2]] = r
    BY <1>1
  <2>2. holder \in [Rows -> Owners]
    BY <2>1
  <2> HIDE DEF holder, Owners
  <2>3. \A q, r \in Rows : holder[q] = holder[r] => q = r
    BY <2>1
  <2>4. ~(Cardinality(Owners) < Cardinality(Rows))
    BY <1>4, <1>5, <2>2, <2>3, FS_PigeonHole
  <2>5. Cardinality(Owners) \in Nat /\ Cardinality(Rows) \in Nat
    BY <1>4, <1>5, FS_CardinalityType
  <2> QED BY <2>4, <2>5
<1> HIDE DEF Others, Owners
<1>7. Cardinality(Owners) \in Nat
  BY <1>4, FS_CardinalityType
<1>8. Cardinality(Others) >= MaxStreams
  BY <1>2, <1>4, <1>5, <1>6, <1>7
<1> QED
  BY <1>8 DEF Others

(* A session is refused a stream only while as many others as may be live    *)
(* occupy one, as far as their clients know: for any number of sessions,     *)
(* however creations fail at each of the four resources and teardowns        *)
(* overlap.                                                                  *)
THEOREM AdmittedUnlessFull == Spec => []RefusedOnlyWhenFull
<1>1. IInv => RefusedOnlyWhenFull
  <2> SUFFICES ASSUME IInv, NEW s \in Sessions, NoRoom(s)
               PROVE  Cardinality({t \in Sessions \ {s} : Occupies(t)}) >= MaxStreams
    BY DEF RefusedOnlyWhenFull
  <2> DEFINE Others == {t \in Sessions \ {s} : Occupies(t)}
  <2>1. IsFiniteSet(Others) /\ Cardinality(Others) \in Nat /\ MaxStreams \in Nat
    BY FS_Subset, FS_CardinalityType, VoiceChatAssumption
  <2>2. \A S \in SUBSET Others :
          Cardinality(S) >= MaxStreams => Cardinality(Others) >= MaxStreams
    <3> HIDE DEF Others
    <3> QED BY <2>1, FS_Subset, FS_CardinalityType
  <2>3. CASE At(s, "admit") /\ active >= MaxStreams
    <3>1. Counted \subseteq Others
      BY <2>3 DEF IInv, Local, PairPlaces, Counted, Counts, Occupies, HasStream, At
    <3>2. Cardinality(Counted) >= MaxStreams
      BY <2>3 DEF IInv, ActiveIsExact
    <3> QED BY <2>2, <3>1, <3>2
  <2>4. CASE At(s, "pair") /\ Cardinality(pair) >= MaxStreams
    <3>1. pair \subseteq Others
      BY <2>4 DEF IInv, Types, Local, PairPlaces, Occupies, HasStream, At
    <3> QED BY <2>2, <2>4, <3>1
  <2>5. CASE WantsRow(s) /\ sleep[s] = "late" /\ FreeRows = {}
    BY <2>5, RowsAreHeldByOthers
  <2>6. CASE At(s, "prefill") /\ Cardinality(seq) >= MaxStreams
    <3>1. seq \subseteq Others
      BY <2>6 DEF IInv, Types, Local, PairPlaces, Occupies, HasStream, At
    <3> QED BY <2>2, <2>6, <3>1
  <2> QED
    BY <2>3, <2>4, <2>5, <2>6 DEF NoRoom
<1> QED
  BY <1>1, Invariance, PTL

-----------------------------------------------------------------------------
(* Tool calls.                                                               *)

CallStates == {"Idle", "WaitingForRequest", "SpeakingAck", "WaitingForResponse",
               "ProcessResponse"}

Calls == [state : CallStates \cup {"RequestReceived"}, frames : Nat, pending : BOOLEAN,
          acks : Nat, resp : Nat, takenEarly : BOOLEAN]

FunctionTokens == {"pad", "sotc", "eotc"}

(* A request has no response while it is read, and a call none while it      *)
(* waits for one; what is spoken next was not taken in early.                *)
Sound(k) ==
  /\ k \in Calls
  /\ k.state \in {"WaitingForRequest", "RequestReceived", "WaitingForResponse"} => k.resp = 0
  /\ k.state \in {"SpeakingAck", "ProcessResponse"} /\ k.resp > 0 => ~k.takenEarly

Asking(s) == call[s].state = "WaitingForRequest"

(* A request that is not complete is the business of the stream's thread: the *)
(* chunk loop never takes in a response then. Only a session that ends its    *)
(* stream cancels that thread before the request is complete.                 *)
Conversation(s) ==
  /\ Sound(call[s]) /\ call[s].state \in CallStates
  /\ fast[s] = "extract" => extracting[s] /\ Asking(s)
  /\ Asking(s) =>
       /\ s \in pair /\ pc[s] \notin {"eou", "display", "prefill", "unwind", "intake"}
       /\ pc[s] = "gate" => fast[s] = "extract"
       /\ pc[s] \in {"reading", "check"} => fast[s] = "extract" \/ exhausted[s]
  /\ cancelled[s] => pc[s] \in {"joinFinish", "end", "join", "cleanup", "free",
                                "hide", "hidden", "show"}
  /\ pc[s] \in {"finish", "joinFinish"} => plan[s] # "serve"
  /\ cancelled[s] /\ pc[s] \in {"hide", "hidden", "show"} => plan[s] # "serve"

CallTypes ==
  /\ call \in [Sessions -> Calls] /\ toks \in [Sessions -> Seq(FunctionTokens)]
  /\ plan \in [Sessions -> {"serve", "renew", "finish"}]
  /\ cancelled \in [Sessions -> BOOLEAN] /\ exhausted \in [Sessions -> BOOLEAN]

Conversations == CallTypes /\ \A s \in Sessions : Conversation(s)

LEMMA LengthsAreNat == AckLen \in Nat /\ ResponseLen \in Nat
BY VoiceChatAssumption

LEMMA NoCallSound == Sound(NoCall) /\ NoCall.state = "Idle"
BY DEF Calls, Sound, NoCall, CallStates

LEMMA CompleteSound ==
  ASSUME NEW k, Sound(k), k.state \in {"WaitingForRequest", "RequestReceived"},
         NEW acked \in BOOLEAN
  PROVE  /\ Sound(Complete(k, acked)) /\ Sound([Complete(k, acked) EXCEPT !.pending = TRUE])
         /\ Complete(k, acked).state \in {"SpeakingAck", "WaitingForResponse"}
         /\ [Complete(k, acked) EXCEPT !.pending = TRUE].state = Complete(k, acked).state
<1>1. CASE acked
  <2>1. Complete(k, acked) = [k EXCEPT !.state = "SpeakingAck", !.acks = AckLen]
    BY <1>1 DEF Complete
  <2>2. Sound([k EXCEPT !.state = "SpeakingAck", !.acks = AckLen])
    <3>1. k.resp = 0
      BY DEF Calls, Sound
    <3>2. [k EXCEPT !.state = "SpeakingAck", !.acks = AckLen]
            \in Calls
      BY LengthsAreNat DEF Calls, Sound, CallStates
    <3>3. /\ [k EXCEPT !.state = "SpeakingAck", !.acks = AckLen].state = "SpeakingAck"
          /\ [k EXCEPT !.state = "SpeakingAck", !.acks = AckLen].resp = 0
      BY <3>1 DEF Calls, Sound
    <3> QED BY <3>2, <3>3 DEF Calls, Sound
  <2>3. \A c : Sound(c) => Sound([c EXCEPT !.pending = TRUE])
    BY DEF Calls, Sound, CallStates
  <2> QED BY <2>1, <2>2, <2>3 DEF Calls, Sound
<1>2. CASE ~acked
  <2>1. Complete(k, acked) = [k EXCEPT !.state = "WaitingForResponse"]
    BY <1>2 DEF Complete
  <2>2. Sound([k EXCEPT !.state = "WaitingForResponse"])
    BY DEF Calls, Sound, CallStates
  <2>3. \A c : Sound(c) => Sound([c EXCEPT !.pending = TRUE])
    BY DEF Calls, Sound, CallStates
  <2> QED BY <2>1, <2>2, <2>3 DEF Calls, Sound
<1> QED
  BY <1>1, <1>2

LEMMA TakeResponseSound ==
  ASSUME NEW k, Sound(k), k.state \in CallStates, k.state # "WaitingForRequest"
  PROVE  /\ Sound(TakeResponse(k)) /\ TakeResponse(k).state \in CallStates
         /\ TakeResponse(k).state # "WaitingForRequest"
<1> DEFINE early  == k.state \in {"Idle", "WaitingForRequest"}
           stored == [k EXCEPT !.resp = ResponseLen, !.takenEarly = early]
           taken  == [stored EXCEPT !.state = "ProcessResponse", !.frames = 0]
<1>1. TakeResponse(k) = IF k.state = "WaitingForResponse" THEN taken ELSE stored
  BY DEF TakeResponse
<1>2. early \in BOOLEAN /\ (k.state # "Idle" => early = FALSE)
  OBVIOUS
<1> HIDE DEF early
<1>3. stored \in Calls /\ stored.state = k.state /\ stored.takenEarly = early
  BY <1>2, LengthsAreNat DEF Calls, Sound
<1> HIDE DEF stored
<1>4. taken \in Calls /\ taken.state = "ProcessResponse" /\ taken.takenEarly = early
  BY <1>3, LengthsAreNat DEF Calls, CallStates
<1> HIDE DEF taken
<1>5. CASE k.state = "WaitingForResponse"
  BY <1>1, <1>2, <1>4, <1>5 DEF Calls, Sound, CallStates
<1>6. CASE k.state # "WaitingForResponse"
  BY <1>1, <1>2, <1>3, <1>6 DEF Calls, Sound, CallStates
<1> QED
  BY <1>5, <1>6

LEMMA ModelStepSound ==
  ASSUME NEW k, Sound(k), k.state \in CallStates
  PROVE  /\ Sound(ModelStep(k)) /\ ModelStep(k).state \in CallStates
         /\ ModelStep(k).state = "WaitingForRequest" => k.state = "WaitingForRequest"
<1>1. CASE k.state = "SpeakingAck" /\ k.acks > 1
  BY <1>1 DEF Calls, Sound, ModelStep, CallStates
<1>2. CASE k.state = "SpeakingAck" /\ ~(k.acks > 1)
  BY <1>2 DEF Calls, Sound, ModelStep, CallStates
<1>3. CASE k.state = "ProcessResponse"
  BY <1>3, NoCallSound DEF Calls, Sound, ModelStep, CallStates
<1>4. CASE k.state \notin {"SpeakingAck", "ProcessResponse"}
  BY <1>4 DEF ModelStep
<1> QED
  BY <1>1, <1>2, <1>3, <1>4

LEMMA WaitedSound ==
  ASSUME NEW k, Sound(k), NEW n \in Nat
  PROVE  Sound(Waited(k, n)) /\ Waited(k, n).state = k.state
BY DEF Calls, Sound, Waited, CallStates

LEMMA ReadTokenSound ==
  ASSUME NEW k, Sound(k), NEW tok, NEW valid \in BOOLEAN
  PROVE  Sound(ReadToken(k, tok, valid))
<1>1. CASE tok = "sotc" /\ k.state = "Idle"
  BY <1>1 DEF Calls, Sound, ReadToken, NoCall, CallStates
<1>2. CASE tok = "eotc" /\ k.state = "WaitingForRequest"
  BY <1>2, NoCallSound DEF Calls, Sound, ReadToken, CallStates
<1>3. CASE ~(tok = "sotc" /\ k.state = "Idle") /\ ~(tok = "eotc" /\ k.state = "WaitingForRequest")
  BY <1>3 DEF ReadToken
<1> QED
  BY <1>1, <1>2, <1>3

(* Every set of numbers has a least one: the induction that the calls below  *)
(* rest on.                                                                  *)
LEMMA LeastNatural ==
  ASSUME NEW S \in SUBSET Nat, S # {}
  PROVE  \E n \in S : \A m \in S : n <= m
<1> DEFINE T == {0..n : n \in S}
<1>1. IsWellFoundedOn(StrictSubsetOrdering(Nat), FiniteSubsetsOf(Nat))
  BY FS_StrictSubsetOrderingWellFounded
<1>2. \A n \in S : IsFiniteSet(0..n)
  BY FS_Interval
<1>3. T \subseteq FiniteSubsetsOf(Nat) /\ T # {}
  <2>1. \A n \in S : 0..n \in SUBSET Nat
    OBVIOUS
  <2>2. T \subseteq FiniteSubsetsOf(Nat)
    BY <1>2, <2>1, Zenon DEF FiniteSubsetsOf
  <2> QED BY <2>2
<1> HIDE DEF T
<1>4. \E x \in T : \A y \in T : ~ (<<y, x>> \in StrictSubsetOrdering(Nat))
  BY <1>1, <1>3, WFMin
<1>5. PICK n \in S : \A m \in S : ~ (<<0..m, 0..n>> \in StrictSubsetOrdering(Nat))
  BY <1>4 DEF T
<1>6. \A m \in S : m < n => <<0..m, 0..n>> \in StrictSubsetOrdering(Nat)
  <2> SUFFICES ASSUME NEW m \in S, m < n
               PROVE  <<0..m, 0..n>> \in StrictSubsetOrdering(Nat)
    OBVIOUS
  <2>1. 0..m \in SUBSET Nat /\ 0..n \in SUBSET Nat
    OBVIOUS
  <2>2. 0..m \subseteq 0..n
    OBVIOUS
  <2>3. n \in 0..n /\ n \notin 0..m
    OBVIOUS
  <2> QED BY <2>1, <2>2, <2>3, Zenon DEF StrictSubsetOrdering
<1>7. \A m \in S : ~(m < n)
  BY <1>5, <1>6
<1>8. \A m \in S : ~(m < n) => n <= m
  OBVIOUS
<1> QED BY <1>7, <1>8, Zenon

(* However the tokens of a chunk are, reading them keeps the call sound.     *)
LEMMA ParseSound ==
  ASSUME NEW k, Sound(k), NEW ts \in Seq(FunctionTokens),
         NEW valid \in BOOLEAN, NEW acked \in BOOLEAN
  PROVE  Sound(Parse(k, ts, valid, acked)) /\ Parse(k, ts, valid, acked).state \in CallStates
<1> DEFINE waited == Waited(k, Len(ts))
           Reads(f, n) == f = [i \in 0..n |-> IF i = 0 THEN waited
                                              ELSE ReadToken(f[i - 1], ts[i], valid)]
           read == CHOOSE f : Reads(f, Len(ts))
           last == read[Len(ts)]
<1>1. Len(ts) \in Nat /\ Sound(waited)
  BY WaitedSound
<1>2. Parse(k, ts, valid, acked) = IF TimesOut(waited) THEN NoCall
                                   ELSE IF last.state = "RequestReceived"
                                        THEN Complete(last, acked) ELSE last
  BY DEF Parse
<1>3. \A n \in Nat : \E f : Reads(f, n)
  <2> DEFINE None == {n \in Nat : ~\E f : Reads(f, n)}
  <2> SUFFICES ASSUME None # {} PROVE FALSE
    OBVIOUS
  <2>1. PICK n \in None : \A m \in None : n <= m
    BY LeastNatural
  <2>2. CASE n = 0
    <3>1. Reads([i \in 0..0 |-> waited], 0)
      OBVIOUS
    <3> QED BY <2>2, <3>1
  <2>3. CASE n # 0
    <3> HIDE DEF None
    <3>1. n \in Nat /\ n - 1 \in Nat /\ ~(n <= n - 1)
      BY <2>3 DEF None
    <3>2. n - 1 \notin None
      BY <2>1, <3>1
    <3>3. PICK f : Reads(f, n - 1)
      BY <3>1, <3>2 DEF None
    <3> DEFINE g == [i \in 0..n |-> IF i = n THEN ReadToken(f[n - 1], ts[n], valid) ELSE f[i]]
    <3>4. Reads(g, n)
      BY <2>3, <3>1, <3>3
    <3> QED BY <3>1, <3>4 DEF None
  <2> QED BY <2>2, <2>3
<1>4. Reads(read, Len(ts))
  BY <1>1, <1>3
<1> HIDE DEF read
<1>5. \A n \in 0..Len(ts) : Sound(read[n])
  <2> DEFINE Bad == {n \in 0..Len(ts) : ~Sound(read[n])}
  <2> SUFFICES ASSUME Bad # {} PROVE FALSE
    OBVIOUS
  <2>1. PICK n \in Bad : \A m \in Bad : n <= m
    <3>1. Bad \in SUBSET Nat
      OBVIOUS
    <3> HIDE DEF Bad
    <3> QED BY <3>1, LeastNatural
  <2>2. read[0] = waited /\ \A i \in 1..Len(ts) : read[i] = ReadToken(read[i - 1], ts[i], valid)
    BY <1>1, <1>4
  <2>3. n # 0
    BY <1>1, <2>1, <2>2
  <2>4. n - 1 \in 0..Len(ts) /\ n - 1 \notin Bad
    BY <1>1, <2>1, <2>3
  <2>5. Sound(ReadToken(read[n - 1], ts[n], valid))
    BY <2>4, ReadTokenSound
  <2> QED BY <1>1, <2>1, <2>2, <2>3, <2>5
<1>6. Sound(last)
  BY <1>1, <1>5
<1> HIDE DEF last, waited
<1>7. CASE TimesOut(waited)
  BY <1>2, <1>7, NoCallSound DEF CallStates
<1>8. CASE ~TimesOut(waited) /\ last.state = "RequestReceived"
  BY <1>2, <1>6, <1>8, CompleteSound DEF CallStates
<1>9. CASE ~TimesOut(waited) /\ last.state # "RequestReceived"
  BY <1>2, <1>6, <1>9 DEF Calls, Sound
<1> QED
  BY <1>7, <1>8, <1>9

-----------------------------------------------------------------------------
(* What a session does to its conversation, and to no other.                 *)

OthersTalk(s) ==
  \A t \in Sessions \ {s} :
    /\ call'[t] = call[t] /\ toks'[t] = toks[t] /\ plan'[t] = plan[t]
    /\ exhausted'[t] = exhausted[t] /\ cancelled'[t] = cancelled[t]

Talks(s) == CallTypes' /\ Conversation(s)' /\ OthersTalk(s)

LEMMA InitTalk == Init => Conversations
<1> SUFFICES ASSUME Init PROVE CallTypes /\ \A s \in Sessions : Conversation(s)
  BY DEF Conversations
<1>1. CallTypes
  BY NoCallSound DEF Init, CallTypes, Sound
<1> SUFFICES ASSUME NEW s \in Sessions PROVE Conversation(s)
  BY <1>1
<1>2. call[s] = NoCall /\ toks[s] = <<>> /\ pc[s] = "out" /\ fast[s] = "none" /\ ~cancelled[s]
  BY DEF Init
<1>3. Conversation(s)
  BY <1>2, NoCallSound DEF Conversation, Asking, CallStates
<1> QED
  BY <1>1, <1>3

(* Steps that move the session's thread and may drop the tokens of a chunk.  *)
LEMMA WalkSteps ==
  ASSUME IInv, IInv', Conversations, NEW s \in Sessions,
         \/ Connect(s) \/ Update(s) \/ FunctionOutput(s) \/ Audio(s) \/ Close(s)
         \/ Farewell(s) \/ Admit(s) \/ RefuseStream(s) \/ AllocatePair(s) \/ RefusePair(s)
         \/ GetRow(s) \/ WaitForRow(s) \/ RowTimer(s) \/ RefuseRow(s) \/ Unwind(s)
         \/ Prefill(s) \/ Check(s) \/ Gate(s) \/ StepFails(s) \/ Hide(s) \/ Drop(s)
  PROVE  Talks(s)
<1> USE DEF Conversations, CallTypes
<1>1. UNCHANGED <<call, fast, extracting, cancelled, exhausted>>
  BY DEF Connect, Update, FunctionOutput, Audio, Close, Farewell, Admit, RefuseStream,
         AllocatePair, RefusePair, GetRow, WaitForRow, RowTimer, RefuseRow, Unwind, Prefill,
         Check, Gate, StepFails, Hide, Drop, streamVars, flagVars
<1>2. toks' = toks \/ toks' = [toks EXCEPT ![s] = <<>>]
  BY DEF Connect, Update, FunctionOutput, Audio, Close, Farewell, Admit, RefuseStream,
         AllocatePair, RefusePair, GetRow, WaitForRow, RowTimer, RefuseRow, Unwind, Prefill,
         Check, Gate, StepFails, Hide, Drop, sessionVars
<1>3. plan' = plan \/ \E w \in {"serve", "renew", "finish"} : plan' = [plan EXCEPT ![s] = w]
  BY DEF Connect, Update, FunctionOutput, Audio, Close, Farewell, Admit, RefuseStream,
         AllocatePair, RefusePair, GetRow, WaitForRow, RowTimer, RefuseRow, Unwind, Prefill,
         Check, Gate, StepFails, Hide, Drop, sessionVars, Over
<1>4. CallTypes' /\ OthersTalk(s)
  <2>1. toks' \in [Sessions -> Seq(FunctionTokens)]
    <3>1. <<>> \in Seq(FunctionTokens)
      OBVIOUS
    <3> QED BY <1>2, <3>1
  <2>2. plan' \in [Sessions -> {"serve", "renew", "finish"}]
    BY <1>3
  <2>3. CallTypes'
    BY <1>1, <2>1, <2>2
  <2>4. OthersTalk(s)
    BY <1>1, <1>2, <1>3 DEF OthersTalk
  <2> QED BY <2>3, <2>4
<1>6. Asking(s)' = Asking(s)
  BY <1>1 DEF Asking
<1>7. PairPlaces(s) /\ PairPlaces(s)' /\ Owner(s) /\ Owner(s)'
  BY DEF IInv, Local
<1>8. Asking(s) =>
       /\ s \in pair' /\ pc'[s] \notin {"eou", "display", "prefill", "unwind", "intake"}
       /\ pc'[s] = "gate" => fast[s] = "extract"
       /\ pc'[s] \in {"reading", "check"} => fast[s] = "extract" \/ exhausted[s]
  <2> USE <1>7 DEF Conversation, IInv, Types, Places, At, Goto, HasStream
  <2>1. CASE Connect(s) \/ Update(s) \/ FunctionOutput(s) \/ Audio(s) \/ Close(s) \/ Farewell(s)
    BY <2>1 DEF Connect, Update, FunctionOutput, Audio, Close, Farewell, PairPlaces, poolVars
  <2>2. CASE Admit(s) \/ RefuseStream(s) \/ AllocatePair(s) \/ RefusePair(s)
    BY <2>2 DEF Admit, RefuseStream, AllocatePair, RefusePair, Over, PairPlaces, poolVars
  <2>3. CASE GetRow(s) \/ WaitForRow(s) \/ RowTimer(s) \/ RefuseRow(s)
    BY <2>3 DEF GetRow, WaitForRow, RowTimer, RefuseRow, WantsRow, PairPlaces, poolVars,
                sessionVars
  <2>4. CASE Unwind(s) \/ Prefill(s)
    BY <2>4 DEF Unwind, Prefill, PairPlaces
  <2>5. CASE Check(s) \/ Gate(s)
    BY <2>5 DEF Check, Gate, Gated, PairPlaces, poolVars
  <2>6. CASE StepFails(s) \/ Hide(s) \/ Drop(s)
    BY <2>6 DEF StepFails, Hide, Drop, PairPlaces, poolVars
  <2> QED BY <2>1, <2>2, <2>3, <2>4, <2>5, <2>6
<1>9. /\ cancelled[s] => pc'[s] \in {"joinFinish", "end", "join", "cleanup", "free",
                                    "hide", "hidden", "show"}
      /\ pc'[s] \in {"finish", "joinFinish"} => plan'[s] # "serve"
      /\ cancelled[s] /\ pc'[s] \in {"hide", "hidden", "show"} => plan'[s] # "serve"
  <2>0. /\ cancelled[s] => pc[s] \in {"joinFinish", "end", "join", "cleanup", "free",
                                       "hide", "hidden", "show"}
        /\ pc[s] \in {"finish", "joinFinish"} => plan[s] # "serve"
        /\ cancelled[s] /\ pc[s] \in {"hide", "hidden", "show"} => plan[s] # "serve"
    BY DEF Conversation
  <2> USE <2>0 DEF IInv, Types, Places, At, Goto, HasStream
  <2>1. CASE Connect(s) \/ Update(s) \/ FunctionOutput(s) \/ Audio(s) \/ Close(s) \/ Farewell(s)
    BY <2>1 DEF Connect, Update, FunctionOutput, Audio, Close, Farewell
  <2>2. CASE Admit(s) \/ RefuseStream(s) \/ AllocatePair(s) \/ RefusePair(s)
    BY <2>2 DEF Admit, RefuseStream, AllocatePair, RefusePair, Over
  <2>3. CASE GetRow(s) \/ WaitForRow(s) \/ RowTimer(s) \/ RefuseRow(s)
    BY <2>3 DEF GetRow, WaitForRow, RowTimer, RefuseRow, WantsRow, sessionVars
  <2>4. CASE Unwind(s) \/ Prefill(s)
    BY <2>4 DEF Unwind, Prefill
  <2>5. CASE Check(s) \/ Gate(s)
    BY <2>5 DEF Check, Gate
  <2>6. CASE StepFails(s) \/ Hide(s) \/ Drop(s)
    BY <2>6 DEF StepFails, Hide, Drop
  <2> QED BY <2>1, <2>2, <2>3, <2>4, <2>5, <2>6
<1> QED
  BY <1>1, <1>4, <1>6, <1>8, <1>9 DEF Talks, Conversation


(* Intake takes in a response only when no request is being read.            *)
LEMMA IntakeTalks ==
  ASSUME IInv, IInv', Conversations, NEW s \in Sessions, Intake(s)
  PROVE  Talks(s)
<1> USE DEF Conversations, CallTypes
<1>1. /\ pc[s] = "intake" /\ pc' = [pc EXCEPT ![s] = "steps"]
      /\ call' = [call EXCEPT ![s] = IF given[s] THEN TakeResponse(@) ELSE @]
      /\ UNCHANGED <<toks, plan, exhausted, cancelled>>
  BY DEF Intake, At, Goto, flagVars
<1>2. /\ Sound(call[s]) /\ call[s].state \in CallStates /\ ~Asking(s) /\ ~cancelled[s]
  BY <1>1 DEF Conversation
<1>3. ~Running(s)' /\ fast'[s] # "extract" /\ pc'[s] = "steps"
  BY <1>1 DEF IInv, Types, Local, Owner, Running
<1>4. /\ Sound(call'[s]) /\ call'[s].state \in CallStates
      /\ call'[s].state # "WaitingForRequest" /\ call'[s] \in Calls
  BY <1>1, <1>2, TakeResponseSound DEF Asking, Sound
<1>5. CallTypes' /\ OthersTalk(s)
  BY <1>1, <1>4 DEF OthersTalk
<1> QED
  BY <1>1, <1>2, <1>3, <1>4, <1>5 DEF Talks, Conversation, Asking

LEMMA StepTalks ==
  ASSUME IInv, IInv', Conversations, NEW s \in Sessions, Step(s)
  PROVE  Talks(s)
<1> USE DEF Conversations, CallTypes
<1>1. /\ pc[s] = "steps" /\ pc'[s] \in {"steps", "hide"}
      /\ \E tok \in Tokens(s) : toks' = [toks EXCEPT ![s] = Append(@, tok)]
      /\ call' = [call EXCEPT ![s] = ModelStep(@)]
      /\ exhausted' \in {exhausted, [exhausted EXCEPT ![s] = TRUE]}
      /\ UNCHANGED <<plan, cancelled>>
  BY DEF Step, At, Goto, flagVars, IInv, Types
<1>2. Tokens(s) \subseteq FunctionTokens
  BY DEF Tokens, FunctionTokens
<1>3. /\ Sound(call[s]) /\ call[s].state \in CallStates /\ ~cancelled[s]
      /\ Asking(s) => s \in pair
  BY <1>1 DEF Conversation
<1>4. ~Running(s)' /\ fast'[s] # "extract"
  BY <1>1 DEF IInv, Types, Local, Owner, Running
<1>5. /\ Sound(call'[s]) /\ call'[s].state \in CallStates /\ call'[s] \in Calls
      /\ Asking(s)' => Asking(s)
  BY <1>1, <1>3, ModelStepSound DEF Asking, Sound
<1>6. toks' \in [Sessions -> Seq(FunctionTokens)]
  <2>1. PICK tok \in FunctionTokens : toks' = [toks EXCEPT ![s] = Append(@, tok)]
    BY <1>1, <1>2
  <2>2. Append(toks[s], tok) \in Seq(FunctionTokens)
    OBVIOUS
  <2> QED BY <2>1, <2>2
<1>7. CallTypes' /\ OthersTalk(s)
  BY <1>1, <1>5, <1>6 DEF OthersTalk
<1>8. s \in pair'
  BY <1>1 DEF IInv, Local, PairPlaces
<1> QED
  BY <1>1, <1>3, <1>4, <1>5, <1>7, <1>8 DEF Talks, Conversation

LEMMA DecodeTalks ==
  ASSUME IInv, IInv', Conversations, NEW s \in Sessions, Decode(s)
  PROVE  Talks(s)
<1> USE DEF Conversations, CallTypes
<1>1. /\ pc[s] = "steps" /\ pc'[s] = "start"
      /\ toks' = [toks EXCEPT ![s] = <<>>]
      /\ UNCHANGED <<plan, cancelled, exhausted, fast>>
  BY DEF Decode, At, Goto, flagVars, IInv, Types
<1>2. PICK valid \in BOOLEAN, acked \in BOOLEAN :
        call' = [call EXCEPT ![s] = [Parse(@, toks[s], valid, acked) EXCEPT !.pending = FALSE]]
  BY DEF Decode
<1>3. Sound(call[s]) /\ ~cancelled[s] /\ toks[s] \in Seq(FunctionTokens)
  BY <1>1 DEF Conversation
<1>4. ~Running(s)' /\ fast'[s] # "extract" /\ s \in pair'
  BY <1>1 DEF IInv, Types, Local, Owner, Running, PairPlaces
<1>5. /\ Sound(Parse(call[s], toks[s], valid, acked))
      /\ Parse(call[s], toks[s], valid, acked).state \in CallStates
  BY <1>3, ParseSound
<1>6. \A k : Sound(k) /\ k.state \in CallStates =>
             /\ Sound([k EXCEPT !.pending = FALSE]) /\ [k EXCEPT !.pending = FALSE] \in Calls
             /\ [k EXCEPT !.pending = FALSE].state \in CallStates
  BY DEF Sound, Calls, CallStates
<1>7. Sound(call'[s]) /\ call'[s] \in Calls /\ call'[s].state \in CallStates
  BY <1>2, <1>5, <1>6
<1>8. toks' \in [Sessions -> Seq(FunctionTokens)]
  <2>1. <<>> \in Seq(FunctionTokens)
    OBVIOUS
  <2> QED BY <1>1, <2>1
<1>9. CallTypes' /\ OthersTalk(s)
  BY <1>1, <1>2, <1>7, <1>8 DEF OthersTalk
<1> QED
  BY <1>1, <1>3, <1>4, <1>7, <1>9 DEF Talks, Conversation

(* A request that is not complete is handed to the stream's thread, unless   *)
(* the stream is exhausted and its next chunk ends it.                       *)
LEMMA StartTalks ==
  ASSUME IInv, IInv', Conversations, NEW s \in Sessions, Start(s)
  PROVE  Talks(s)
<1> USE DEF Conversations, CallTypes
<1> DEFINE extract == ~exhausted[s] /\ call[s].state = "WaitingForRequest" /\ ~extracting[s]
<1>1. /\ pc[s] = "start" /\ pc'[s] = "reading"
      /\ UNCHANGED <<plan, exhausted, call, toks>>
  BY DEF Start, At, Goto, IInv, Types
<1>2. ~cancelled[s] /\ Sound(call[s]) /\ call[s].state \in CallStates
  BY <1>1 DEF Conversation
<1>3. ~Running(s) /\ ~extracting[s] /\ fast[s] # "extract"
  BY <1>1 DEF IInv, Types, Local, Owner, Running
<1>4. cancelled' = cancelled \/ cancelled' = [cancelled EXCEPT ![s] = FALSE]
  BY DEF Start
<1>5. extract => fast'[s] = "extract" /\ extracting'[s]
  BY DEF Start, IInv, Types
<1>6. ~extract => fast'[s] # "extract"
  BY <1>3 DEF Start, IInv, Types
<1>7. Asking(s) => s \in pair'
  BY <1>1 DEF Conversation, Start, poolVars
<1>8. CallTypes' /\ OthersTalk(s) /\ ~cancelled'[s]
  BY <1>1, <1>2, <1>4 DEF OthersTalk
<1>9. fast'[s] = "extract" => extracting'[s] /\ Asking(s)
  BY <1>5, <1>6 DEF Asking
<1>10. Asking(s) => exhausted[s] \/ fast'[s] = "extract"
  BY <1>3, <1>5 DEF Asking
<1>11. Asking(s)' = Asking(s)
  BY <1>1 DEF Asking
<1> QED
  BY <1>1, <1>2, <1>7, <1>8, <1>9, <1>10, <1>11 DEF Talks, Conversation

(* What the stream's thread does to a call it extracts or answers.           *)
LEMMA ExtractTalks ==
  ASSUME IInv, IInv', Conversations, NEW s \in Sessions, Extract(s)
  PROVE  Talks(s)
<1> USE DEF Conversations, CallTypes
<1>1. /\ fast[s] = "extract" /\ fast' \in {fast, [fast EXCEPT ![s] = "sync"]}
      /\ UNCHANGED <<pc, pair, plan, toks, extracting, cancelled>>
  BY DEF Extract, sessionVars, poolVars, flagVars
<1>2. /\ Sound(call[s]) /\ Asking(s) /\ extracting[s]
  BY <1>1 DEF Conversation
<1>3. \/ /\ cancelled[s] /\ call' = call /\ fast'[s] = "sync"
      \/ /\ \E acked \in BOOLEAN :
              call' = [call EXCEPT ![s] = [Complete(@, acked) EXCEPT !.pending = TRUE]]
         /\ fast'[s] = "sync"
      \/ call' = [call EXCEPT ![s] = NoCall] /\ fast'[s] = "sync"
      \/ call' = call /\ fast' = fast /\ ~cancelled[s]
  BY DEF Extract, IInv, Types
<1>4. exhausted' \in {exhausted, [exhausted EXCEPT ![s] = TRUE]}
  BY DEF Extract
<1>5. \A acked \in BOOLEAN :
        /\ Sound([Complete(call[s], acked) EXCEPT !.pending = TRUE])
        /\ [Complete(call[s], acked) EXCEPT !.pending = TRUE].state
             \in {"SpeakingAck", "WaitingForResponse"}
  BY <1>2, CompleteSound DEF Asking
<1>6. /\ Sound(call'[s]) /\ call'[s] \in Calls /\ call'[s].state \in CallStates
      /\ Asking(s)' => call' = call
  <2>1. CASE call' = call
    BY <1>2, <2>1 DEF Conversation, Sound
  <2>2. CASE \E acked \in BOOLEAN :
               call' = [call EXCEPT ![s] = [Complete(@, acked) EXCEPT !.pending = TRUE]]
    BY <1>5, <2>2 DEF CallStates, Asking, Sound
  <2>3. CASE call' = [call EXCEPT ![s] = NoCall]
    BY <2>3, NoCallSound DEF CallStates, Asking, Sound
  <2> QED BY <1>3, <2>1, <2>2, <2>3
<1>7. CallTypes' /\ OthersTalk(s)
  <2>1. call' \in [Sessions -> Calls] /\ \A t \in Sessions \ {s} : call'[t] = call[t]
    <3>1. call' = call \/ \E k : call' = [call EXCEPT ![s] = k]
      BY <1>3
    <3> QED BY <1>6, <3>1
  <2> QED BY <1>1, <1>4, <2>1 DEF OthersTalk
<1>8. Asking(s)' => (cancelled[s] /\ fast'[s] = "sync") \/ (~cancelled[s] /\ fast'[s] = "extract")
  BY <1>1, <1>3, <1>6, NoCallSound, <1>5 DEF Asking
<1>9. fast'[s] = "extract" => Asking(s)' /\ extracting'[s]
  BY <1>1, <1>2, <1>3 DEF Asking
<1>10. /\ Asking(s)' => /\ s \in pair' /\ pc'[s] \notin {"eou", "display", "prefill", "unwind", "intake"}
                        /\ pc'[s] = "gate" => fast'[s] = "extract"
                        /\ pc'[s] \in {"reading", "check"} => fast'[s] = "extract" \/ exhausted'[s]
  BY <1>1, <1>2, <1>8 DEF Conversation
<1> QED
  BY <1>1, <1>6, <1>7, <1>9, <1>10 DEF Talks, Conversation

LEMMA InjectTalks ==
  ASSUME IInv, IInv', Conversations, NEW s \in Sessions, Inject(s) \/ Sync(s)
  PROVE  Talks(s)
<1> USE DEF Conversations, CallTypes
<1>1. /\ UNCHANGED <<pc, pair, plan, toks, cancelled>>
      /\ exhausted' = exhausted \/ exhausted' = [exhausted EXCEPT ![s] = TRUE]
      /\ fast[s] \in {"inject", "sync"} /\ fast'[s] # "extract"
  BY DEF Inject, Sync, sessionVars, poolVars, flagVars, IInv, Types
<1>2. \/ call' = call
      \/ call' = [call EXCEPT ![s] = ModelStep(@)]
      \/ call' = [call EXCEPT ![s] = NoCall]
  BY DEF Inject, Sync
<1>3. Sound(call[s]) /\ call[s].state \in CallStates
  BY DEF Conversation
<1>4. /\ Sound(call'[s]) /\ call'[s] \in Calls /\ call'[s].state \in CallStates
      /\ Asking(s)' => Asking(s)
  <2>1. CASE call' = call
    BY <1>3, <2>1 DEF Asking, Sound
  <2>2. CASE call' = [call EXCEPT ![s] = ModelStep(@)]
    BY <1>3, <2>2, ModelStepSound DEF Asking, Sound
  <2>3. CASE call' = [call EXCEPT ![s] = NoCall]
    BY <2>3, NoCallSound DEF Asking, Sound, CallStates
  <2> QED BY <1>2, <2>1, <2>2, <2>3
<1>5. CallTypes' /\ OthersTalk(s)
  BY <1>1, <1>2, <1>4 DEF OthersTalk
<1>6. exhausted[s] => exhausted'[s]
  BY <1>1
<1> QED
  BY <1>1, <1>4, <1>5, <1>6 DEF Talks, Conversation

(* The end of a stream.                                                      *)
LEMMA EndTalks ==
  ASSUME IInv, IInv', Conversations, NEW s \in Sessions, Finish(s) \/ End(s) \/ Cleanup(s)
  PROVE  Talks(s)
<1> USE DEF Conversations, CallTypes
<1>1. /\ UNCHANGED <<plan, toks, extracting>>
      /\ exhausted' = exhausted \/ exhausted' = [exhausted EXCEPT ![s] = FALSE]
      /\ fast' = fast \/ fast' = [fast EXCEPT ![s] = "none"]
  BY DEF Finish, End, Cleanup
<1>2. call' = call \/ call' = [call EXCEPT ![s] = NoCall]
  BY DEF Finish, End, Cleanup
<1>3. cancelled' = cancelled \/ \E b \in BOOLEAN : cancelled' = [cancelled EXCEPT ![s] = b]
  BY DEF Finish, End, Cleanup
<1>4. Sound(call[s]) /\ call[s].state \in CallStates
  BY DEF Conversation
<1>5. /\ Sound(call'[s]) /\ call'[s] \in Calls /\ call'[s].state \in CallStates
      /\ Asking(s)' => Asking(s) /\ call' = call
  BY <1>2, <1>4, NoCallSound DEF Asking, Sound, CallStates
<1>6. CallTypes' /\ OthersTalk(s)
  BY <1>1, <1>2, <1>3, <1>5 DEF OthersTalk
<1>7. pc'[s] \in {"joinFinish", "end", "hide", "join", "cleanup", "free", "drop"}
  BY DEF Finish, End, Cleanup, Goto, IInv, Types
<1>8. Asking(s)' => s \in pair'
  <2>1. CASE Finish(s) \/ End(s)
    BY <1>5, <2>1 DEF Finish, End, Conversation, poolVars
  <2>2. CASE Cleanup(s)
    BY <1>5, <2>2, NoCallSound DEF Cleanup, Conversation, Asking
  <2> QED BY <2>1, <2>2
<1>9. fast'[s] = "extract" => extracting'[s] /\ Asking(s)'
  <2>1. fast'[s] = "extract" => fast[s] = "extract"
    BY <1>1 DEF IInv, Types
  <2>2. CASE call' = call
    BY <1>1, <2>1, <2>2 DEF Conversation, Asking
  <2>3. CASE call' # call
    BY <2>3, <2>1 DEF Finish, End, Cleanup, At, IInv, Local, Owner, Running
  <2> QED BY <2>2, <2>3
<1>10. cancelled'[s] => pc'[s] # "drop"
  BY DEF Finish, End, Cleanup, Goto, IInv, Types
<1>11. /\ pc'[s] = "joinFinish" => plan'[s] # "serve"
       /\ cancelled'[s] /\ pc'[s] = "hide" => plan'[s] # "serve"
  BY <1>1 DEF Finish, End, Cleanup, At, Goto, IInv, Types, Conversation
<1> QED
  BY <1>5, <1>6, <1>7, <1>8, <1>9, <1>10, <1>11 DEF Talks, Conversation

LEMMA TalksAreOwn ==
  ASSUME IInv, IInv', Conversations, NEW s \in Sessions, Good(s), Talks(s)
  PROVE  Conversations'
<1>1. ASSUME NEW t \in Sessions \ {s} PROVE Conversation(t)'
  <2>1. /\ pc'[t] = pc[t] /\ fast'[t] = fast[t] /\ (t \in pair' <=> t \in pair)
        /\ extracting'[t] <=> extracting[t]
    BY DEF Good, Elsewhere
  <2>2. /\ call'[t] = call[t] /\ plan'[t] = plan[t]
        /\ exhausted'[t] = exhausted[t] /\ cancelled'[t] = cancelled[t]
    BY DEF Talks, OthersTalk
  <2>3. Conversation(t)
    BY DEF Conversations
  <2> QED BY <2>1, <2>2, <2>3 DEF Conversation, Asking
<1> QED
  BY <1>1 DEF Talks, Conversations

LEMMA StepTalk == IInv /\ IInv' /\ Conversations /\ [Next]_vars => Conversations'
<1> SUFFICES ASSUME IInv, IInv', Conversations, [Next]_vars PROVE Conversations'
  OBVIOUS
<1>1. CASE UNCHANGED vars
  BY <1>1 DEF vars, sessionVars, poolVars, streamVars, flagVars, Conversations, CallTypes,
              Conversation, Asking
<1>2. ASSUME NEW s \in Sessions, Thread(s) \/ Client(s) \/ FastPath(s) \/ RowTimer(s)
      PROVE  Conversations'
  <2>1. Good(s)
    BY <1>2, PlainSteps, ResourceSteps, FastPathSteps, JoinSteps, StartStep, RowSteps
       DEF Thread, Client
  <2>2. Talks(s)
    BY <1>2, WalkSteps, IntakeTalks, StepTalks, DecodeTalks, StartTalks, ExtractTalks,
       InjectTalks, EndTalks DEF Thread, Client, FastPath
  <2> QED BY <2>1, <2>2, TalksAreOwn
<1> QED
  BY <1>1, <1>2 DEF Next

(* The response that is spoken or waits for its turn was taken in by a chunk  *)
(* after its request was complete, and a call that waits for a response has   *)
(* none (process_chunk, parse_function_tokens): for any number of sessions    *)
(* and of queued responses, and chunks of any length.                         *)
THEOREM ResponsesFollowTheRequest == Spec => []ResponseTakenAfterRequest
<1>1. Conversations => ResponseTakenAfterRequest
  BY DEF Conversations, Conversation, Sound, ResponseTakenAfterRequest
<1> QED
  BY <1>1, InitIInv, StepIInv, InitTalk, StepTalk, PTL DEF Spec
=============================================================================
