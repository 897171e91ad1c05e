---------------------------- MODULE EncoderProofs ----------------------------
(* Proofs about MicroBatcher and about CacheAwareEncoder, which runs over it. *)
(*                                                                           *)
(* For every set of callers, closers and keys, every batch size, queue depth *)
(* and argument table the batcher loses no call, is quiescent once a         *)
(* shutdown has returned, and implements BatchService.                       *)
(*                                                                           *)
(* For any streams and arena over such a batcher no two streams share a row, *)
(* none leaks, and the graph only ever runs on a row that holds the context  *)
(* of its stream's session: every step of the encoder is one of the batcher  *)
(* or leaves it alone, so the invariant of the batcher is at hand.           *)
EXTENDS CacheAwareEncoder, TLAPS

-----------------------------------------------------------------------------
(* The batcher.                                                              *)

(* Removing position i shifts the later elements down by one.              *)
LEMMA RemoveAtShape ==
  ASSUME NEW S, NEW s \in Seq(S), NEW i \in DOMAIN s
  PROVE  /\ RemoveAt(s, i) \in Seq(S)
         /\ Len(RemoveAt(s, i)) = Len(s) - 1
         /\ \A j \in 1 .. Len(s) - 1 :
              RemoveAt(s, i)[j] = IF j < i THEN s[j] ELSE s[j + 1]
<1> DEFINE front == SubSeq(s, 1, i - 1)
           back  == SubSeq(s, i + 1, Len(s))
<1>1. /\ front \in Seq(S) /\ Len(front) = i - 1
      /\ \A j \in 1 .. i - 1 : front[j] = s[j]
  OBVIOUS
<1>2. /\ back \in Seq(S) /\ Len(back) = Len(s) - i
      /\ \A j \in 1 .. Len(s) - i : back[j] = s[i + j]
  OBVIOUS
<1> HIDE DEF front, back
<1>3. /\ front \o back \in Seq(S)
      /\ Len(front \o back) = Len(s) - 1
      /\ \A j \in 1 .. Len(s) - 1 :
           (front \o back)[j] = IF j < i THEN s[j] ELSE s[j + 1]
  BY <1>1, <1>2
<1>4. QED
  BY <1>3 DEF RemoveAt, front, back

LEMMA DefaultKeyIsKey == DefaultKey \in Keys
BY ConfigAssumption DEF DefaultKey

LEMMA NextCall ==
  ASSUME NEW n \in 0 .. Epochs - 1
  PROVE  (n + 1) % Epochs \in 0 .. Epochs - 1
<1>1. Epochs \in Nat /\ Epochs > 0
  BY ConfigAssumption
<1>2. QED
  BY <1>1

LEMMA TargetInNat ==
  ASSUME TypeOK, NEW c \in Callers
  PROVE  TargetOf(c) \in Nat
BY ConfigAssumption DEF TypeOK, TargetOf

-----------------------------------------------------------------------------
(* Type correctness.                                                       *)

LEMMA InitTypeOK == Init => TypeOK
<1> SUFFICES ASSUME Init PROVE TypeOK
  OBVIOUS
<1>1. \A c \in Callers : <<c, 0>> \in Request
  BY ConfigAssumption DEF Request
<1>2. answer \in [Callers -> Answer]
  BY <1>1 DEF Init, Answer
<1>3. /\ queue \in Seq(Request) /\ Len(queue) <= MaxDepth
      /\ batch \in Seq(Request) /\ Len(batch) <= MaxBatch
      /\ results \in Seq(Answer)
  BY ConfigAssumption DEF Init
<1>4. wpc \in {"check", "absent"}
  BY DEF Init
<1>5. call \in [Callers -> 0 .. Epochs - 1]
  BY ConfigAssumption DEF Init
<1>6. /\ pc \in [Callers -> {"idle", "enter", "inline", "enqueue", "notify", "waiting"}]
      /\ closer \in [Closers -> {"idle", "notify", "join", "returned"}]
      /\ stopping \in BOOLEAN
  BY DEF Init
<1>7. /\ key \in [Callers -> Keys] /\ hint \in [Callers -> Nat]
      /\ wkey \in Keys /\ wtarget \in Nat /\ scan \in Nat \ {0}
  BY DefaultKeyIsKey DEF Init
<1>8. QED
  BY <1>2, <1>3, <1>4, <1>5, <1>6, <1>7 DEF TypeOK

LEMMA StepTypeOK == TypeOK /\ ResultsMatch /\ [Next]_vars => TypeOK'
<1> SUFFICES ASSUME TypeOK, ResultsMatch, [Next]_vars PROVE TypeOK'
  OBVIOUS
<1> USE DEF TypeOK, callVars, workVars
<1>1. CASE UNCHANGED vars
  BY <1>1 DEF vars
<1>2. ASSUME NEW c \in Callers, Begin(c) PROVE TypeOK'
  <2>1. call' \in [Callers -> 0 .. Epochs - 1]
    BY <1>2, NextCall DEF Begin
  <2>2. Pending(c)' \in Answer
    BY <2>1 DEF Pending, Current, Answer, Request
  <2>3. key' \in [Callers -> Keys] /\ hint' \in [Callers -> Nat]
    <3>1. PICK a \in Args[c] : key' = [key EXCEPT ![c] = a[1]] /\ hint' = [hint EXCEPT ![c] = a[2]]
      BY <1>2 DEF Begin
    <3>2. a \in Keys \X Nat
      BY <3>1, ConfigAssumption
    <3>3. QED
      BY <3>1, <3>2
  <2>4. QED
    BY <1>2, <2>1, <2>2, <2>3 DEF Begin
<1>3. ASSUME NEW c \in Callers PROVE Value(c) \in Answer /\ Error(c) \in Answer /\ Pending(c) \in Answer /\ Current(c) \in Request
  BY DEF Value, Error, Pending, Current, Answer, Request
<1>4. ASSUME NEW c \in Callers, EnterInline(c) PROVE TypeOK'
  BY <1>4, <1>3 DEF EnterInline, Refuse
<1>5. ASSUME NEW c \in Callers, InlineDone(c) PROVE TypeOK'
  BY <1>5, <1>3 DEF InlineDone
<1>6. ASSUME NEW c \in Callers, EnterQueued(c) PROVE TypeOK'
  BY <1>6 DEF EnterQueued
<1>7. ASSUME NEW c \in Callers, Enqueue(c) PROVE TypeOK'
  <2>1. CASE stopping \/ Len(queue) >= MaxDepth
    BY <1>7, <1>3, <2>1 DEF Enqueue, Refuse
  <2>2. CASE ~(stopping \/ Len(queue) >= MaxDepth)
    <3>1. Append(queue, Current(c)) \in Seq(Request) /\ Len(Append(queue, Current(c))) <= MaxDepth
      BY <1>3, <2>2, ConfigAssumption
    <3>2. QED
      BY <1>7, <2>2, <3>1 DEF Enqueue
  <2>3. QED
    BY <2>1, <2>2
<1>8. ASSUME NEW c \in Callers, NotifyWorker(c) PROVE TypeOK'
  BY <1>8 DEF NotifyWorker, Wake
<1>9. ASSUME NEW c \in Callers, Return(c) PROVE TypeOK'
  BY <1>9, <1>3, DefaultKeyIsKey DEF Return
<1>10. CASE WorkerCheck
  <2>1. CASE queue = <<>>
    BY <1>10, <2>1 DEF WorkerCheck
  <2>2. CASE queue # <<>>
    <3>1. Head(queue)[1] \in Callers
      BY <2>2 DEF Request
    <3>2. QED
      BY <1>10, <2>2, <3>1, TargetInNat DEF WorkerCheck
  <2>3. QED
    BY <2>1, <2>2
<1>11. CASE WorkerRecheck
  BY <1>11 DEF WorkerRecheck
<1>12. CASE Deadline
  BY <1>12 DEF Deadline
<1>13. CASE Collect
  <2>1. scan \in DOMAIN queue
    BY <1>13 DEF Collect
  <2>2. /\ RemoveAt(queue, scan) \in Seq(Request)
        /\ Len(RemoveAt(queue, scan)) = Len(queue) - 1
    BY <2>1, RemoveAtShape
  <2>3. queue' \in Seq(Request) /\ Len(queue') <= MaxDepth
    BY <1>13, <2>2, ConfigAssumption DEF Collect
  <2>4. batch' \in Seq(Request) /\ Len(batch') <= MaxBatch
    <3>1. /\ Append(batch, queue[scan]) \in Seq(Request)
          /\ Len(Append(batch, queue[scan])) = Len(batch) + 1
      BY <2>1
    <3>2. Len(batch) < MaxBatch /\ (batch' = batch \/ batch' = Append(batch, queue[scan]))
      BY <1>13 DEF Collect
    <3>3. Len(batch) + 1 <= MaxBatch
      BY <3>2, ConfigAssumption
    <3>4. QED
      BY <3>1, <3>2, <3>3
  <2>5. scan' \in Nat \ {0}
    BY <1>13 DEF Collect
  <2>6. QED
    BY <1>13, <2>3, <2>4, <2>5 DEF Collect
<1>14. CASE Collected
  BY <1>14 DEF Collected
<1>15. CASE Execute
  <2>1. PICK kind \in {"value", "error"} :
          results' = [i \in DOMAIN batch |-> [kind |-> kind, req |-> batch[i]]]
    BY <1>15 DEF Execute
  <2>2. \A i \in DOMAIN batch : [kind |-> kind, req |-> batch[i]] \in Answer
    BY DEF Answer
  <2>3. results' \in Seq(Answer)
    BY <2>1, <2>2
  <2>4. QED
    BY <1>15, <2>3 DEF Execute
<1>16. CASE Resolve
  <2>1. results # <<>> /\ batch # <<>>
    BY <1>16 DEF Resolve, ResultsMatch
  <2>2. Head(results) \in Answer /\ Tail(results) \in Seq(Answer)
    BY <2>1
  <2>3. Tail(batch) \in Seq(Request) /\ Len(Tail(batch)) <= MaxBatch
    BY <2>1, ConfigAssumption
  <2>4. QED
    BY <1>16, <2>2, <2>3 DEF Resolve
<1>17. CASE NextRound
  BY <1>17, DefaultKeyIsKey DEF NextRound
<1>18. ASSUME NEW x \in Closers, CloserNext(x) PROVE TypeOK'
  BY <1>18 DEF CloserNext, BeginShutdown, NotifyShutdown, Join, Wake
<1>19. QED
  BY <1>1, <1>2, <1>4, <1>5, <1>6, <1>7, <1>8, <1>9, <1>10, <1>11, <1>12, <1>13, <1>14,
     <1>15, <1>16, <1>17, <1>18 DEF Next, CallerNext, WorkerStep

-----------------------------------------------------------------------------
(* The inductive invariant.                                                *)

LEMMA InitIInv == Init => IInv
<1> SUFFICES ASSUME Init PROVE IInv
  OBVIOUS
<1>1. TypeOK
  BY InitTypeOK
<1>2. /\ NoLostCall /\ JobsAreCurrent /\ JobsAreDistinct
      /\ ResultsMatch /\ WorkerPhases /\ CallPhases
  BY DEF Init, NoLostCall, JobsAreCurrent, JobsAreDistinct, ResultsMatch,
         WorkerPhases, CallPhases, Queued, Batched, Blocked
<1>3. ShutdownPhases
  BY DEF Init, ShutdownPhases, Exclusive, NoInline
<1>4. QED
  BY <1>1, <1>2, <1>3 DEF IInv

JobsInv   == NoLostCall /\ JobsAreCurrent /\ JobsAreDistinct
PhasesInv == ResultsMatch /\ WorkerPhases /\ CallPhases /\ ShutdownPhases

LEMMA JobShape ==
  ASSUME NEW s \in Seq(Request), NEW i \in DOMAIN s
  PROVE  s[i] \in Request /\ s[i][1] \in Callers
<1>1. s[i] \in Request
  OBVIOUS
<1>2. QED
  BY <1>1 DEF Request

(* A step that leaves the queue and the batch alone, and nobody's blocked  *)
(* call, keeps every fact about the jobs.                                  *)
LEMMA JobsFrame ==
  ASSUME TypeOK, JobsInv, queue' = queue, batch' = batch,
         \A d \in Callers : Blocked(d)' <=> Blocked(d),
         \A d \in Callers : Blocked(d) => call'[d] = call[d]
  PROVE  JobsInv'
<1>1. /\ \A i \in DOMAIN queue : queue[i][1] \in Callers
      /\ \A i \in DOMAIN batch : batch[i][1] \in Callers
  BY JobShape DEF TypeOK
<1>2. JobsAreCurrent'
  BY <1>1 DEF JobsInv, JobsAreCurrent, Current
<1>3. JobsAreDistinct'
  BY DEF JobsInv, JobsAreDistinct
<1>4. NoLostCall'
  <2> SUFFICES ASSUME NEW c \in Callers
               PROVE  /\ (Blocked(c) => Queued(c) \/ Batched(c))'
                      /\ ~(Queued(c) /\ Batched(c))'
    BY DEF NoLostCall
  <2>1. (Blocked(c) => Queued(c) \/ Batched(c))'
    BY DEF JobsInv, NoLostCall, Queued, Batched, Current
  <2>2. ~(Queued(c) /\ Batched(c))'
    BY DEF JobsInv, JobsAreDistinct, Queued, Batched
  <2>3. QED
    BY <2>1, <2>2
<1>5. QED
  BY <1>2, <1>3, <1>4 DEF JobsInv

LEMMA StepIInv == IInv /\ [Next]_vars => IInv'
<1> SUFFICES ASSUME IInv, [Next]_vars PROVE IInv'
  OBVIOUS
<1> USE DEF callVars, workVars
<1>t. TypeOK /\ TypeOK'
  BY StepTypeOK DEF IInv
<1>i. JobsInv /\ PhasesInv
  BY DEF IInv, JobsInv, PhasesInv
<1> SUFFICES JobsInv' /\ PhasesInv'
  BY <1>t, <1>i DEF IInv, JobsInv, PhasesInv
<1> USE DEF PhasesInv
<1>1. CASE UNCHANGED vars
  <2>1. JobsInv'
    BY <1>1, <1>t, <1>i, JobsFrame DEF vars, Blocked
  <2>2. PhasesInv'
    BY <1>1, <1>i DEF vars, ResultsMatch, WorkerPhases, CallPhases, ShutdownPhases,
       Current, Pending, Exclusive, NoInline
  <2>3. QED
    BY <2>1, <2>2
<1>2. ASSUME NEW c \in Callers, Begin(c) PROVE JobsInv' /\ PhasesInv'
  <2>1. JobsInv'
    BY <1>2, <1>t, <1>i, JobsFrame DEF Begin, TypeOK, Blocked
  <2>2. PhasesInv'
    BY <1>2, <1>t, <1>i DEF Begin, IInv, TypeOK, ResultsMatch, WorkerPhases, CallPhases, ShutdownPhases,
       Current, Pending, Exclusive, NoInline
  <2>3. QED
    BY <2>1, <2>2
<1>3. ASSUME NEW c \in Callers, EnterInline(c) PROVE JobsInv' /\ PhasesInv'
  <2>1. CASE stopping
    <3>1. Refuse(c) /\ UNCHANGED <<callVars, stopping, wpc, workVars, closer>>
      BY <1>3, <2>1 DEF EnterInline
    <3>2. ~Blocked(c) /\ ~Blocked(c)'
      BY <1>3, <1>t, <3>1 DEF EnterInline, Refuse, Error, TypeOK, Blocked
    <3>3. JobsInv'
      BY <3>1, <3>2, <1>t, <1>i, JobsFrame DEF Refuse, TypeOK, Blocked
    <3>4. PhasesInv'
      BY <3>1, <1>t, <1>i DEF Refuse, TypeOK, ResultsMatch, WorkerPhases, CallPhases,
         ShutdownPhases, Current, Pending, Exclusive, NoInline
    <3>5. QED
      BY <3>3, <3>4
  <2>2. CASE ~stopping
    <3>1. pc' = [pc EXCEPT ![c] = "inline"] /\ UNCHANGED <<answer, queue>>
      BY <1>3, <2>2 DEF EnterInline
    <3>2. JobsInv'
      BY <1>3, <3>1, <1>t, <1>i, JobsFrame DEF EnterInline, TypeOK, Blocked
    <3>3. ResultsMatch' /\ WorkerPhases' /\ CallPhases'
      BY <1>3, <3>1, <1>t, <1>i DEF EnterInline, TypeOK, ResultsMatch, WorkerPhases,
         CallPhases, Current, Pending
    <3>4. ShutdownPhases'
      BY <1>3, <2>2, <3>1, <1>t, <1>i DEF EnterInline, TypeOK, ShutdownPhases, Exclusive, NoInline
    <3>5. QED
      BY <3>2, <3>3, <3>4
  <2>3. QED
    BY <2>1, <2>2
<1>4. ASSUME NEW c \in Callers, InlineDone(c) PROVE JobsInv' /\ PhasesInv'
  <2>1. JobsInv'
    BY <1>4, <1>t, <1>i, JobsFrame DEF InlineDone, Value, Error, TypeOK, Blocked
  <2>2. ResultsMatch' /\ WorkerPhases' /\ CallPhases'
    BY <1>4, <1>t, <1>i DEF InlineDone, TypeOK, ResultsMatch, WorkerPhases, CallPhases, Current, Pending
  <2>3. ShutdownPhases'
    BY <1>4, <1>t, <1>i DEF InlineDone, TypeOK, ShutdownPhases, Exclusive, NoInline
  <2>4. QED
    BY <2>1, <2>2, <2>3
<1>5. ASSUME NEW c \in Callers, EnterQueued(c) PROVE JobsInv' /\ PhasesInv'
  <2>1. JobsInv'
    BY <1>5, <1>t, <1>i, JobsFrame DEF EnterQueued, TypeOK, Blocked
  <2>2. PhasesInv'
    BY <1>5, <1>t, <1>i DEF EnterQueued, IInv, TypeOK, ResultsMatch, WorkerPhases, CallPhases, ShutdownPhases,
       Current, Pending, Exclusive, NoInline, WorkerJoinable
  <2>3. QED
    BY <2>1, <2>2
<1>6. ASSUME NEW c \in Callers, Enqueue(c) PROVE JobsInv' /\ PhasesInv'
  <2>1. CASE stopping \/ Len(queue) >= MaxDepth
    <3>1. Refuse(c) /\ UNCHANGED <<callVars, stopping, wpc, workVars, closer>>
      BY <1>6, <2>1 DEF Enqueue
    <3>2. ~Blocked(c) /\ ~Blocked(c)'
      BY <1>6, <1>t, <3>1 DEF Enqueue, Refuse, Error, TypeOK, Blocked
    <3>3. JobsInv'
      BY <3>1, <3>2, <1>t, <1>i, JobsFrame DEF Refuse, TypeOK, Blocked
    <3>4. PhasesInv'
      BY <3>1, <1>t, <1>i DEF Refuse, TypeOK, ResultsMatch, WorkerPhases, CallPhases,
         ShutdownPhases, Current, Pending, Exclusive, NoInline
    <3>5. QED
      BY <3>3, <3>4
  <2>2. CASE ~(stopping \/ Len(queue) >= MaxDepth)
    <3>1. /\ pc[c] = "enqueue" /\ MuFree
          /\ queue' = Append(queue, Current(c))
          /\ pc' = [pc EXCEPT ![c] = "notify"]
          /\ UNCHANGED <<answer, callVars, stopping, wpc, workVars, closer>>
      BY <1>6, <2>2 DEF Enqueue
    <3>2. /\ ~Blocked(c) /\ Blocked(c)'
          /\ \A d \in Callers : d # c => (Blocked(d)' <=> Blocked(d))
      BY <3>1, <1>t, <1>i DEF TypeOK, Blocked, CallPhases, Pending
    <3>3. /\ Len(queue') = Len(queue) + 1
          /\ queue'[Len(queue) + 1] = Current(c)
          /\ \A i \in DOMAIN queue : queue'[i] = queue[i]
          /\ DOMAIN queue' = 1 .. Len(queue) + 1 /\ DOMAIN queue = 1 .. Len(queue)
          /\ Len(queue) \in Nat
      BY <3>1, <1>t DEF TypeOK
    <3>4. /\ \A i \in DOMAIN queue : queue[i][1] \in Callers \ {c}
          /\ \A i \in DOMAIN batch : batch[i][1] \in Callers \ {c}
      BY <3>2, <1>i, <1>t, JobShape DEF JobsInv, JobsAreCurrent, TypeOK
    <3>5. Current(c)[1] = c /\ \A d \in Callers : Current(d)' = Current(d)
      BY <3>1 DEF Current
    <3>6. JobsAreCurrent'
      BY <3>1, <3>2, <3>3, <3>4, <3>5, <1>i DEF JobsInv, JobsAreCurrent
    <3>7. JobsAreDistinct'
      BY <3>1, <3>3, <3>4, <3>5, <1>i DEF JobsInv, JobsAreDistinct
    <3>8. NoLostCall'
      <4>1. ASSUME NEW d \in Callers, Blocked(d)' PROVE (Queued(d) \/ Batched(d))'
        <5>1. CASE d = c
          BY <5>1, <3>3, <3>5 DEF Queued
        <5>2. CASE d # c
          BY <5>2, <4>1, <3>1, <3>2, <3>3, <3>5, <1>i DEF JobsInv, NoLostCall, Queued, Batched
        <5>3. QED
          BY <5>1, <5>2
      <4>2. ASSUME NEW d \in Callers PROVE ~(Queued(d) /\ Batched(d))'
        BY <3>7 DEF JobsAreDistinct, Queued, Batched
      <4>3. QED
        BY <4>1, <4>2 DEF NoLostCall
    <3>9. PhasesInv'
      BY <2>2, <3>1, <1>t, <1>i DEF TypeOK, ResultsMatch, WorkerPhases, CallPhases, MuFree,
         ShutdownPhases, Current, Pending, Exclusive, NoInline
    <3>10. QED
      BY <3>6, <3>7, <3>8, <3>9 DEF JobsInv
  <2>3. QED
    BY <2>1, <2>2
<1>7. ASSUME NEW c \in Callers, NotifyWorker(c) PROVE JobsInv' /\ PhasesInv'
  <2>1. JobsInv'
    BY <1>7, <1>t, <1>i, JobsFrame DEF NotifyWorker, TypeOK, Blocked
  <2>2. PhasesInv'
    BY <1>7, <1>t, <1>i DEF NotifyWorker, Wake, IInv, TypeOK, ResultsMatch, WorkerPhases, CallPhases, ShutdownPhases,
       Current, Pending, Exclusive, NoInline
  <2>3. QED
    BY <2>1, <2>2
<1>8. ASSUME NEW c \in Callers, Return(c) PROVE JobsInv' /\ PhasesInv'
  <2>1. JobsInv'
    BY <1>8, <1>t, <1>i, JobsFrame DEF Return, Pending, TypeOK, Blocked
  <2>2. PhasesInv'
    BY <1>8, <1>t, <1>i DEF Return, IInv, TypeOK, ResultsMatch, WorkerPhases, CallPhases, ShutdownPhases,
       Current, Pending, Exclusive, NoInline
  <2>3. QED
    BY <2>1, <2>2
<1>9. CASE WorkerCheck \/ WorkerRecheck \/ Deadline \/ Collected \/ NextRound
  <2>1. JobsInv'
    BY <1>9, <1>t, <1>i, JobsFrame DEF WorkerCheck, WorkerRecheck, Deadline, Collected, NextRound,
       Blocked
  <2>2. PhasesInv'
    BY <1>9, <1>t, <1>i DEF WorkerCheck, WorkerRecheck, Deadline, Collected, NextRound, IInv,
       ResultsMatch, WorkerPhases, CallPhases, ShutdownPhases, Current, Pending, Exclusive, NoInline
  <2>3. QED
    BY <2>1, <2>2
<1>10. CASE Collect
  <2>a. /\ scan \in DOMAIN queue /\ Len(batch) < MaxBatch /\ wpc = "scan"
        /\ UNCHANGED <<pc, callVars, answer, stopping, wpc, wkey, wtarget, results, closer>>
    BY <1>10, <1>t DEF Collect, TypeOK
  <2>1. PhasesInv'
    BY <2>a, <1>t, <1>i DEF ResultsMatch, WorkerPhases, CallPhases, ShutdownPhases,
       Current, Pending, Exclusive, NoInline
  <2>2. CASE KeyOf(queue[scan]) # wkey
    BY <1>10, <2>1, <2>2, <1>t, <1>i, JobsFrame DEF Collect, Blocked
  <2>3. CASE KeyOf(queue[scan]) = wkey
    <3>1. batch' = Append(batch, queue[scan]) /\ queue' = RemoveAt(queue, scan)
      BY <1>10, <2>3 DEF Collect
    <3>2. /\ Len(queue) \in Nat /\ DOMAIN queue = 1 .. Len(queue)
          /\ DOMAIN queue' = 1 .. Len(queue) - 1
          /\ \A j \in DOMAIN queue' : queue'[j] = IF j < scan THEN queue[j] ELSE queue[j + 1]
      <4>1. queue \in Seq(Request)
        BY <1>t DEF TypeOK
      <4>2. /\ queue' \in Seq(Request) /\ Len(queue') = Len(queue) - 1
            /\ \A j \in 1 .. Len(queue) - 1 :
                 queue'[j] = IF j < scan THEN queue[j] ELSE queue[j + 1]
        BY <3>1, <2>a, <4>1, RemoveAtShape
      <4>3. DOMAIN queue = 1 .. Len(queue) /\ Len(queue) \in Nat
        BY <4>1
      <4>4. DOMAIN queue' = 1 .. Len(queue')
        BY <4>2
      <4>5. QED
        BY <4>2, <4>3, <4>4
    <3>3. /\ Len(batch) \in Nat /\ DOMAIN batch = 1 .. Len(batch)
          /\ DOMAIN batch' = 1 .. Len(batch) + 1
          /\ batch'[Len(batch) + 1] = queue[scan]
          /\ \A j \in DOMAIN batch : batch'[j] = batch[j]
      BY <3>1, <2>a, <1>t, JobShape DEF TypeOK
    <3>4. \A d \in Callers : (Blocked(d)' <=> Blocked(d)) /\ Current(d)' = Current(d)
      BY <2>a DEF Blocked, Current
    <3>5. /\ \A i \in DOMAIN queue : queue[i][1] \in Callers
          /\ \A i \in DOMAIN batch : batch[i][1] \in Callers
      BY <1>t, JobShape DEF TypeOK
    <3>6. \A j \in DOMAIN queue' : \E i \in DOMAIN queue : i # scan /\ queue'[j] = queue[i]
      BY <3>2, <2>a
    <3>7. JobsAreCurrent'
      <4>1. \A j \in DOMAIN queue' : (queue[j] = Current(queue[j][1]) /\ Blocked(queue[j][1]))'
        BY <3>4, <3>5, <3>6, <1>i DEF JobsInv, JobsAreCurrent
      <4>2. \A j \in DOMAIN batch' : (batch[j] = Current(batch[j][1]) /\ Blocked(batch[j][1]))'
        BY <2>a, <3>3, <3>4, <3>5, <1>i DEF JobsInv, JobsAreCurrent
      <4>3. QED
        BY <4>1, <4>2 DEF JobsAreCurrent
    <3>8. JobsAreDistinct'
      <4>1. \A i, j \in DOMAIN queue' : queue'[i][1] = queue'[j][1] => i = j
        BY <2>a, <3>2, <1>i DEF JobsInv, JobsAreDistinct
      <4>2. \A i, j \in DOMAIN batch' : batch'[i][1] = batch'[j][1] => i = j
        BY <2>a, <3>3, <1>i DEF JobsInv, JobsAreDistinct
      <4>3. \A i \in DOMAIN queue', j \in DOMAIN batch' : queue'[i][1] # batch'[j][1]
        BY <2>a, <3>3, <3>6, <1>i DEF JobsInv, JobsAreDistinct
      <4>4. QED
        BY <4>1, <4>2, <4>3 DEF JobsAreDistinct
    <3>9. NoLostCall'
      <4>1. ASSUME NEW d \in Callers, Blocked(d)' PROVE (Queued(d) \/ Batched(d))'
        <5>1. CASE Batched(d)
          BY <5>1, <3>3, <3>4 DEF Batched
        <5>2. ASSUME NEW i \in DOMAIN queue, queue[i] = Current(d) PROVE (Queued(d) \/ Batched(d))'
          <6>1. CASE i = scan
            BY <5>2, <6>1, <3>3, <3>4 DEF Batched
          <6>2. CASE i < scan
            BY <5>2, <6>2, <2>a, <3>2, <3>4 DEF Queued
          <6>3. CASE i > scan
            <7>1. i - 1 \in DOMAIN queue' /\ queue'[i - 1] = queue[i]
              BY <6>3, <2>a, <3>2
            <7>2. QED
              BY <5>2, <7>1, <3>4 DEF Queued
          <6>4. QED
            BY <6>1, <6>2, <6>3, <2>a, <3>2
        <5>3. QED
          BY <4>1, <3>4, <5>1, <5>2, <1>i DEF JobsInv, NoLostCall, Queued
      <4>2. ASSUME NEW d \in Callers PROVE ~(Queued(d) /\ Batched(d))'
        BY <3>8 DEF JobsAreDistinct, Queued, Batched
      <4>3. QED
        BY <4>1, <4>2 DEF NoLostCall
    <3>10. QED
      BY <2>1, <3>7, <3>8, <3>9 DEF JobsInv
  <2>4. QED
    BY <2>2, <2>3
<1>11. CASE Execute
  <2>1. JobsInv'
    BY <1>11, <1>t, <1>i, JobsFrame DEF Execute, Blocked
  <2>2. PhasesInv'
    BY <1>11, <1>t, <1>i DEF Execute, IInv, TypeOK, ResultsMatch, WorkerPhases, CallPhases, ShutdownPhases,
       Current, Pending, Exclusive, NoInline
  <2>3. QED
    BY <2>1, <2>2
<1>12. CASE Resolve
  <2>0. batch \in Seq(Request) /\ batch # <<>> /\ batch' = Tail(batch)
    BY <1>12, <1>t DEF Resolve, TypeOK
  <2>1. PICK o \in Callers :
          /\ Len(batch) \in Nat /\ Len(batch) >= 1 /\ 1 \in DOMAIN batch
          /\ DOMAIN batch = 1 .. Len(batch) /\ DOMAIN batch' = 1 .. Len(batch) - 1
          /\ o = batch[1][1] /\ Head(batch) = batch[1]
          /\ \A j \in DOMAIN batch' : j + 1 \in DOMAIN batch /\ batch'[j] = batch[j + 1]
    <3>1. /\ Len(batch) \in Nat /\ Len(batch) >= 1 /\ 1 \in DOMAIN batch
          /\ DOMAIN batch = 1 .. Len(batch) /\ DOMAIN batch' = 1 .. Len(batch) - 1
          /\ Head(batch) = batch[1]
          /\ \A j \in DOMAIN batch' : j + 1 \in DOMAIN batch /\ batch'[j] = batch[j + 1]
      BY <2>0
    <3>2. batch[1][1] \in Callers
      BY <2>0, <3>1, JobShape
    <3>3. QED
      BY <3>1, <3>2
  <2>2. /\ Len(results) = Len(batch) /\ Head(results) = results[1]
        /\ results' = Tail(results)
        /\ \A j \in DOMAIN batch' : results'[j] = results[j + 1]
        /\ Len(results') = Len(batch')
    BY <1>12, <2>1, <1>t, <1>i DEF Resolve, TypeOK, ResultsMatch
  <2>3. /\ answer' = [answer EXCEPT ![o] = results[1]]
        /\ results[1].kind \in {"value", "error"}
        /\ UNCHANGED <<pc, callVars, queue, stopping, wpc, wkey, wtarget, scan, closer>>
    BY <1>12, <2>1, <2>2, <1>i DEF Resolve, ResultsMatch
  <2>4. /\ ~Blocked(o)'
        /\ \A d \in Callers : d # o => (Blocked(d)' <=> Blocked(d))
        /\ \A d \in Callers : Current(d)' = Current(d)
    <3>1. answer \in [Callers -> Answer]
      BY <1>t DEF TypeOK
    <3>2. answer'[o] = results[1] /\ \A d \in Callers : d # o => answer'[d] = answer[d]
      BY <2>3, <3>1
    <3>3. ~Blocked(o)'
      BY <2>3, <3>2 DEF Blocked
    <3>4. \A d \in Callers : d # o => (Blocked(d)' <=> Blocked(d))
      BY <2>3, <3>2 DEF Blocked
    <3>5. \A d \in Callers : Current(d)' = Current(d)
      BY <2>3 DEF Current
    <3>6. QED
      BY <3>3, <3>4, <3>5
  <2>5. /\ \A i \in DOMAIN queue : queue[i][1] \in Callers \ {o}
        /\ \A i \in DOMAIN batch : batch[i][1] \in Callers
        /\ \A i \in DOMAIN batch : i # 1 => batch[i][1] # o
    <3>1. /\ \A i \in DOMAIN queue : queue[i][1] \in Callers
          /\ \A i \in DOMAIN batch : batch[i][1] \in Callers
      BY <1>t, JobShape DEF TypeOK
    <3>2. \A i \in DOMAIN queue : queue[i][1] # o
      BY <2>1, <1>i DEF JobsInv, JobsAreDistinct
    <3>3. \A i \in DOMAIN batch : i # 1 => batch[i][1] # o
      BY <2>1, <1>i DEF JobsInv, JobsAreDistinct
    <3>4. QED
      BY <3>1, <3>2, <3>3
  <2>6. JobsAreCurrent'
    <3>1. \A j \in DOMAIN queue' : (queue[j] = Current(queue[j][1]) /\ Blocked(queue[j][1]))'
      BY <2>3, <2>4, <2>5, <1>i DEF JobsInv, JobsAreCurrent
    <3>2. \A j \in DOMAIN batch' : (batch[j] = Current(batch[j][1]) /\ Blocked(batch[j][1]))'
      BY <2>1, <2>4, <2>5, <1>i DEF JobsInv, JobsAreCurrent
    <3>3. QED
      BY <3>1, <3>2 DEF JobsAreCurrent
  <2>7. JobsAreDistinct'
    BY <2>1, <2>3, <1>i DEF JobsInv, JobsAreDistinct
  <2>8. NoLostCall'
    <3>1. ASSUME NEW d \in Callers, Blocked(d)' PROVE (Queued(d) \/ Batched(d))'
      <4>1. d # o /\ Blocked(d)
        <5>1. d # o
          BY <3>1, <2>4
        <5>2. QED
          BY <3>1, <5>1, <2>4
      <4>2. CASE Queued(d)
        BY <4>2, <2>3, <2>4 DEF Queued
      <4>3. ASSUME NEW i \in DOMAIN batch, batch[i] = Current(d) PROVE (Queued(d) \/ Batched(d))'
        <5>1. i # 1
          BY <4>1, <4>3, <2>1 DEF Current
        <5>2. i - 1 \in DOMAIN batch' /\ batch'[i - 1] = batch[i]
          BY <5>1, <2>1
        <5>3. QED
          BY <4>3, <5>2, <2>4 DEF Batched
      <4>4. QED
        BY <4>1, <4>2, <4>3, <1>i DEF JobsInv, NoLostCall, Batched
    <3>2. ASSUME NEW d \in Callers PROVE ~(Queued(d) /\ Batched(d))'
      BY <2>7 DEF JobsAreDistinct, Queued, Batched
    <3>3. QED
      BY <3>1, <3>2 DEF NoLostCall
  <2>9. ResultsMatch'
    BY <2>1, <2>2, <2>3, <1>i DEF ResultsMatch
  <2>10. CallPhases'
    <3>1. pc[o] \in {"notify", "waiting"}
      BY <2>1, <1>i DEF JobsInv, JobsAreCurrent, Blocked
    <3>2. QED
      BY <2>1, <2>3, <3>1, <1>t, <1>i DEF CallPhases, Pending, Current, TypeOK
  <2>11. WorkerPhases' /\ ShutdownPhases'
    BY <1>12, <2>3, <1>i DEF Resolve, WorkerPhases, ShutdownPhases, Exclusive, NoInline
  <2>12. QED
    BY <2>6, <2>7, <2>8, <2>9, <2>10, <2>11 DEF JobsInv
<1>13. ASSUME NEW x \in Closers, CloserNext(x) PROVE JobsInv' /\ PhasesInv'
  <2>1. JobsInv'
    BY <1>13, <1>t, <1>i, JobsFrame DEF CloserNext, BeginShutdown, NotifyShutdown, Join, Blocked
  <2>2. PhasesInv'
    BY <1>13, <1>t, <1>i DEF CloserNext, BeginShutdown, NotifyShutdown, Join, Wake, IInv, TypeOK,
       ResultsMatch, WorkerPhases, CallPhases, ShutdownPhases, Current, Pending, Exclusive, NoInline
  <2>3. QED
    BY <2>1, <2>2
<1>14. QED
  BY <1>1, <1>2, <1>3, <1>4, <1>5, <1>6, <1>7, <1>8, <1>9, <1>10, <1>11, <1>12, <1>13
     DEF Next, CallerNext, WorkerStep

-----------------------------------------------------------------------------
(* The inductive invariant holds in every reachable state.                 *)
THEOREM Invariance == Spec => []IInv
BY InitIInv, StepIInv, PTL DEF Spec

(* Type correctness: in particular the queue never exceeds                 *)
(* max_queue_depth and no batch handed to run_batch_ exceeds               *)
(* max_batch_size, whatever the callers ask for.                           *)
THEOREM TypeCorrect == Spec => []TypeOK
<1>1. IInv => TypeOK
  BY DEF IInv
<1>2. QED
  BY <1>1, Invariance, PTL

(* No hand-over between run(), queue_ and the worker loses or duplicates a *)
(* job: a caller blocked on its future is queued or in the batch.          *)
THEOREM NoCallIsLost == Spec => []NoLostCall
<1>1. IInv => NoLostCall
  BY DEF IInv
<1>2. QED
  BY <1>1, Invariance, PTL

(* When shutdown() has returned to any thread, no callback is running and  *)
(* no caller is blocked, so that the owner may be destroyed.               *)
THEOREM ShutdownLeavesNothing == Spec => []QuiescentAfterShutdown
<1>1. ASSUME IInv PROVE QuiescentAfterShutdown
  <2> SUFFICES ASSUME \E x \in Closers : closer[x] = "returned"
               PROVE  /\ wpc \in {"exited", "absent"}
                      /\ \A c \in Callers : pc[c] # "inline" /\ ~Blocked(c)
    BY DEF QuiescentAfterShutdown
  <2>1. wpc \in {"exited", "absent"} /\ NoInline
    BY <1>1 DEF IInv, ShutdownPhases
  <2>2. queue = <<>> /\ batch = <<>>
    BY <1>1, <2>1 DEF IInv, WorkerPhases
  <2>3. \A c \in Callers : ~Queued(c) /\ ~Batched(c)
    BY <2>2 DEF Queued, Batched
  <2>4. \A c \in Callers : ~Blocked(c)
    BY <1>1, <2>3 DEF IInv, NoLostCall
  <2>5. QED
    BY <2>1, <2>4 DEF NoInline
<1>2. QED
  BY <1>1, Invariance, PTL

-----------------------------------------------------------------------------
(* The microbatcher implements the service its callers see.                *)

LEMMA InitImplements == Init => Service!Init
BY DEF Init, Service!Init, status

LEMMA StepImplements == IInv /\ IInv' /\ [Next]_vars => [Service!Next]_(Service!vars)
<1> SUFFICES ASSUME IInv, IInv', [Next]_vars
             PROVE  [Service!Next]_(Service!vars)
  OBVIOUS
<1> DEFINE closed == \E x \in Closers : closer[x] = "returned"
<1> USE DEF callVars, workVars
<1>t. TypeOK /\ TypeOK'
  BY DEF IInv
<1>s. status = [c \in Callers |-> status[c]] /\ status' = [c \in Callers |-> status'[c]]
  BY DEF status
<1>1. ASSUME UNCHANGED <<pc, call, answer, closer>> PROVE UNCHANGED Service!vars
  BY <1>1 DEF Service!vars, status
<1>2. CASE UNCHANGED vars
  BY <1>1, <1>2 DEF vars
<1>3. ASSUME NEW c \in Callers, Begin(c) PROVE Service!Offer(c)
  BY <1>3, <1>t DEF Begin, Pending, Current, Service!Offer, Service!Current, status, TypeOK
<1>4. ASSUME NEW c \in Callers, Refuse(c), pc[c] \in {"enter", "enqueue"}, UNCHANGED <<call, closer>>
      PROVE  Service!Refuse(c)
  BY <1>4, <1>t DEF Refuse, Error, Current, Service!Refuse, Service!Current, status, TypeOK
<1>5. ASSUME NEW c \in Callers, pc[c] \in {"enter", "enqueue"}, answer[c] = Pending(c), ~closed,
             \E p \in {"inline", "notify"} : pc' = [pc EXCEPT ![c] = p],
             UNCHANGED <<call, answer, closer>>
      PROVE  Service!Accept({c})
  <2>1. answer[c].kind = "pending"
    BY <1>5 DEF Pending
  <2>2. status[c] = "offered"
    BY <1>5 DEF status
  <2>3. PICK p \in {"inline", "notify"} : pc' = [pc EXCEPT ![c] = p]
    BY <1>5
  <2>4. status' = [status EXCEPT ![c] = "accepted"]
    BY <1>5, <2>1, <2>3, <1>t DEF status, TypeOK
  <2>5. status' = [x \in Callers |-> IF x \in {c} THEN "accepted" ELSE status[x]]
    BY <2>4, <1>s
  <2>6. QED
    BY <1>5, <2>2, <2>5 DEF Service!Accept
<1>6. ASSUME ~stopping PROVE ~closed
  BY <1>6 DEF IInv, ShutdownPhases
<1>7. ASSUME NEW c \in Callers, EnterInline(c) PROVE Service!Refuse(c) \/ Service!Accept({c})
  BY <1>4, <1>5, <1>6, <1>7 DEF EnterInline, IInv, CallPhases
<1>8. ASSUME NEW c \in Callers, Enqueue(c) PROVE Service!Refuse(c) \/ Service!Accept({c})
  BY <1>4, <1>5, <1>6, <1>8 DEF Enqueue, IInv, CallPhases
<1>b. ASSUME NEW c \in Callers, Service!Accept({c}) PROVE Service!Next
  <2>1. {c} \in SUBSET Callers
    OBVIOUS
  <2>2. QED
    BY <1>b, <2>1 DEF Service!Next
<1>9. ASSUME NEW c \in Callers, InlineDone(c) PROVE Service!AnswerCall(c)
  <2>a. pc[c] = "inline" /\ answer[c].kind = "pending"
    <3>1. pc[c] = "inline"
      BY <1>9 DEF InlineDone
    <3>2. answer[c] = Pending(c)
      BY <3>1 DEF IInv, CallPhases
    <3>3. QED
      BY <3>1, <3>2 DEF Pending
  <2>1. status[c] = "accepted"
    BY <2>a DEF status
  <2>b. PICK a \in Answer : /\ a.kind # "pending"
                            /\ pc' = [pc EXCEPT ![c] = "waiting"]
                            /\ answer' = [answer EXCEPT ![c] = a]
    <3>1. PICK a \in {Value(c), Error(c)} : answer' = [answer EXCEPT ![c] = a]
      BY <1>9 DEF InlineDone
    <3>2. a \in Answer /\ a.kind # "pending"
      BY <1>t DEF Value, Error, Current, Answer, Request, TypeOK
    <3>3. QED
      BY <1>9, <3>1, <3>2 DEF InlineDone
  <2>2. status' = [status EXCEPT ![c] = "answered"]
    BY <2>b, <1>t DEF status, TypeOK
  <2>3. QED
    BY <1>9, <2>1, <2>2 DEF InlineDone, Value, Error, Current, Service!AnswerCall, Service!Current
<1>10. ASSUME NEW c \in Callers, EnterQueued(c) PROVE UNCHANGED Service!vars
  BY <1>10, <1>t DEF EnterQueued, Service!vars, status, TypeOK
<1>11. ASSUME NEW c \in Callers, NotifyWorker(c) PROVE UNCHANGED Service!vars
  BY <1>11, <1>t DEF NotifyWorker, Service!vars, status, TypeOK
<1>12. ASSUME NEW c \in Callers, Return(c) PROVE Service!Return(c)
  BY <1>12, <1>t DEF Return, Pending, Current, Service!Return, Service!Current, status, TypeOK
<1>13. CASE WorkerCheck \/ WorkerRecheck \/ Deadline \/ Collect \/ Collected \/ Execute \/ NextRound
  BY <1>1, <1>13 DEF WorkerCheck, WorkerRecheck, Deadline, Collect, Collected, Execute, NextRound
<1>14. CASE Resolve
  <2>1. batch \in Seq(Request) /\ batch # <<>> /\ 1 \in DOMAIN batch /\ Head(batch) = batch[1]
        /\ Head(results) = results[1]
    <3>1. batch \in Seq(Request) /\ batch # <<>>
      BY <1>14, <1>t DEF Resolve, TypeOK
    <3>2. Len(results) = Len(batch) /\ results \in Seq(Answer)
      BY <1>14, <1>t DEF Resolve, TypeOK, IInv, ResultsMatch
    <3>3. QED
      BY <3>1, <3>2
  <2>2. PICK c \in Callers : batch[1][1] = c
    BY <2>1, JobShape
  <2>3. batch[1] = Current(c) /\ Blocked(c)
    BY <2>1, <2>2 DEF IInv, JobsAreCurrent
  <2>4. PICK kind \in {"value", "error"} : results[1] = [kind |-> kind, req |-> Current(c)]
    BY <1>14, <2>1, <2>3 DEF Resolve, IInv, ResultsMatch
  <2>5. answer' = [answer EXCEPT ![c] = [kind |-> kind, req |-> Current(c)]] /\ UNCHANGED <<pc, call, closer>>
    BY <1>14, <2>1, <2>2, <2>4 DEF Resolve
  <2>6. status[c] = "accepted"
    BY <2>3 DEF Blocked, status
  <2>7. status' = [status EXCEPT ![c] = "answered"]
    BY <2>3, <2>5, <1>t DEF Blocked, status, TypeOK
  <2>8. Service!AnswerCall(c)
    BY <2>5, <2>6, <2>7 DEF Current, Service!AnswerCall, Service!Current
  <2>9. QED
    BY <2>8 DEF Service!Next
<1>15. ASSUME NEW x \in Closers, CloserNext(x) PROVE Service!Close \/ UNCHANGED Service!vars
  <2>1. UNCHANGED <<pc, call, answer, status>>
    BY <1>15 DEF CloserNext, BeginShutdown, NotifyShutdown, Join, status
  <2>2. closed => closed'
    BY <1>15, <1>t DEF CloserNext, BeginShutdown, NotifyShutdown, Join, TypeOK
  <2>3. CASE closed' = closed
    BY <2>1, <2>3 DEF Service!vars
  <2>4. CASE closed'
    <3>1. QuiescentAfterShutdown'
      <4>1. wpc' \in {"exited", "absent"} /\ NoInline'
        BY <2>4 DEF IInv, ShutdownPhases
      <4>2. queue' = <<>> /\ batch' = <<>>
        BY <4>1 DEF IInv, WorkerPhases
      <4>3. \A c \in Callers : ~Queued(c)' /\ ~Batched(c)'
        BY <4>2 DEF Queued, Batched
      <4>4. \A c \in Callers : ~Blocked(c)'
        BY <4>3 DEF IInv, NoLostCall
      <4>5. QED
        BY <4>1, <4>4 DEF QuiescentAfterShutdown, NoInline
    <3>2. \A c \in Callers : status'[c] # "accepted"
      BY <3>1, <2>4, <1>t DEF QuiescentAfterShutdown, Blocked, status, TypeOK
    <3>3. QED
      BY <2>1, <2>4, <3>2 DEF Service!Close
  <2>5. QED
    BY <2>2, <2>3, <2>4
<1>16. QED
  BY <1>2, <1>3, <1>7, <1>8, <1>b, <1>9, <1>10, <1>11, <1>12, <1>13, <1>14, <1>15
     DEF Next, CallerNext, WorkerStep, Service!Next

(* Safety refinement: a call that was accepted is answered once, with the  *)
(* result of that very call or an error, and the batcher closes only when  *)
(* it owes nobody an answer.                                               *)
THEOREM Implementation == Spec => ImplementsService
<1>1. Init => Service!Init
  BY InitImplements
<1>2. IInv /\ IInv' /\ [Next]_vars => [Service!Next]_(Service!vars)
  BY StepImplements
<1>3. QED
  BY <1>1, <1>2, Invariance, PTL DEF Spec, ImplementsService, Service!Spec

-----------------------------------------------------------------------------
(* The encoder.                                                              *)

Written(c) == row[slot[c]] = {Session(c)}

(* Only an open stream is in a call: it cannot die in one.                   *)
Occupied == \A c \in Callers : pc[c] # "idle" => Open(c)

(* Whoever gets a free row is told to reset it.                              *)
FreeRowsAreDirty == \A s \in Slots : ~used[s] => needReset[s]

(* A stream that owes no reset has nothing foreign in its row, and one that  *)
(* is past its first chunk has settled its reset and lost nothing.           *)
RowsAreSettled ==
  \A c \in Callers :
    /\ Open(c) /\ ~needsReset[c] => row[slot[c]] \subseteq {Session(c)}
    /\ ~first[c] => Open(c) /\ ~needsReset[c] /\ Session(c) \in row[slot[c]]

(* A call is prepared only while its callback runs, on a row of its own.     *)
PreparedCalls ==
  \A c \in prepared :
    /\ pc[c] = "inline" \/ (wpc = "run" /\ c \in InBatch)
    /\ row[slot[c]] \subseteq {Session(c)}

(* A success, returned or on its way, means that the row was written.        *)
SuccessIsWritten ==
  /\ \A c \in Callers :
       pc[c] \in {"notify", "waiting"} /\ answer[c].kind = "value" => Written(c)
  /\ wpc = "resolve" =>
       \A i \in DOMAIN batch : results[i].kind = "value" => Written(batch[i][1])

EncoderInv ==
  /\ EncoderTypeOK /\ SlotOwnership /\ Occupied /\ FreeRowsAreDirty
  /\ RowsAreSettled /\ PreparedCalls /\ SuccessIsWritten

LEMMA InitEncoderInv == EncoderInit => EncoderInv
<1> SUFFICES ASSUME EncoderInit PROVE EncoderInv
  OBVIOUS
<1> USE EncoderAssumption DEF EncoderInit
<1>1. NoSlot \notin Slots
  BY DEF NoSlot, Slots
<1>2. EncoderTypeOK
  BY DEF EncoderTypeOK
<1>3. SlotOwnership /\ FreeRowsAreDirty
  BY <1>1 DEF SlotOwnership, FreeRowsAreDirty, Open
<1>4. Occupied /\ RowsAreSettled /\ PreparedCalls /\ SuccessIsWritten
  BY DEF Init, Occupied, RowsAreSettled, PreparedCalls, SuccessIsWritten, Open
<1> QED
  BY <1>2, <1>3, <1>4 DEF EncoderInv

(* Every step of the encoder is a step of the batcher or leaves it alone.    *)
LEMMA StepIsBatcherStep == [EncoderNext]_allVars => [Next]_vars
<1> SUFFICES ASSUME EncoderNext PROVE [Next]_vars
  BY DEF allVars, vars
<1>1. ASSUME NEW c \in Callers, StreamNext(c) PROVE [Next]_vars
  BY <1>1 DEF StreamNext, MakeState, Destroy, ResetState, EncodeChunk, EncodeReturn,
     ZeroInline, EncodeInline, ZeroSlots, Next, CallerNext, vars
<1>2. CASE ZeroBatch
  BY <1>2 DEF ZeroBatch, ZeroSlots, vars
<1>3. CASE EncodeBatch
  BY <1>3 DEF EncodeBatch, Next, WorkerStep
<1>4. CASE BatcherStep
  BY <1>4 DEF BatcherStep, Next, CallerNext, WorkerStep
<1> QED
  BY <1>1, <1>2, <1>3, <1>4 DEF EncoderNext

(* The jobs in the worker's hands are calls of streams that wait for them.   *)
LEMMA BatchIsBlocked ==
  ASSUME IInv
  PROVE  /\ InBatch \subseteq Callers
         /\ \A i \in DOMAIN batch : batch[i][1] \in InBatch
         /\ \A c \in InBatch :
              pc[c] \in {"notify", "waiting"} /\ answer[c].kind = "pending"
<1>1. \A i \in DOMAIN batch : batch[i][1] \in Callers
  BY JobShape DEF IInv, TypeOK
<1>2. \A i \in DOMAIN batch : Blocked(batch[i][1])
  BY DEF IInv, JobsAreCurrent
<1> QED
  BY <1>1, <1>2 DEF InBatch, Blocked

(* Streams that are open have rows of their own.                             *)
LEMMA RowsApart ==
  ASSUME EncoderInv, NEW c \in Callers, NEW d \in Callers, c # d, Open(c)
  PROVE  slot[c] \in Slots /\ slot[c] # slot[d]
BY DEF EncoderInv, EncoderTypeOK, SlotOwnership, Open

LEMMA NextSession ==
  ASSUME NEW n \in 0 .. Sessions - 1
  PROVE  (n + 1) % Sessions \in 0 .. Sessions - 1
<1>1. Sessions \in Nat /\ Sessions > 0
  BY EncoderAssumption
<1> QED
  BY <1>1

(* The part of the invariant that is about the encoder alone.                *)
OwnedRows == EncoderTypeOK /\ SlotOwnership /\ FreeRowsAreDirty /\ RowsAreSettled

LEMMA RowsFrame == OwnedRows /\ UNCHANGED encoderVars => OwnedRows'
BY DEF OwnedRows, encoderVars, stateVars, EncoderTypeOK, SlotOwnership,
   FreeRowsAreDirty, RowsAreSettled, Open, Session

-----------------------------------------------------------------------------
(* The stream's thread, outside a call.                                      *)

LEMMA MakeStateInv ==
  ASSUME IInv, EncoderInv, NEW c \in Callers, MakeState(c)
  PROVE  EncoderInv'
<1>1. pc[c] = "idle" /\ ~Open(c) /\ UNCHANGED <<vars, row, first, session, prepared>>
  BY DEF MakeState
<1>2. PICK s \in Slots : ~used[s] /\ Acquire(c, s)
  BY DEF MakeState, FreeSlots
<1>3. EncoderTypeOK'
  BY <1>1, <1>2 DEF EncoderInv, EncoderTypeOK, Acquire
<1>4. \A d \in Callers : slot[d] # s
  BY <1>2 DEF EncoderInv, SlotOwnership
<1>5. slot' = [slot EXCEPT ![c] = s] /\ used' = [used EXCEPT ![s] = TRUE] /\ s # NoSlot
      /\ slot \in [Callers -> Slots \cup {NoSlot}] /\ used \in [Slots -> BOOLEAN]
  BY <1>2 DEF Acquire, NoSlot, Slots, EncoderInv, EncoderTypeOK
<1>6. SlotOwnership'
  <2>1. ASSUME NEW d \in Callers, NEW e \in Callers, Open(d)', slot'[d] = slot'[e]
        PROVE  d = e
    BY <2>1, <1>4, <1>5 DEF EncoderInv, SlotOwnership, Open
  <2>2. ASSUME NEW t \in Slots PROVE used'[t] <=> \E d \in Callers : slot'[d] = t
    <3>1. CASE t = s
      BY <3>1, <1>5
    <3>2. CASE t # s
      <4>1. used'[t] = used[t] BY <3>2, <1>5
      <4>2. \A d \in Callers : slot'[d] = t <=> slot[d] = t
        BY <3>2, <1>5, <1>1 DEF Open, NoSlot, Slots
      <4> QED BY <4>1, <4>2 DEF EncoderInv, SlotOwnership
    <3> QED BY <3>1, <3>2
  <2> QED BY <2>1, <2>2 DEF SlotOwnership, Open
<1>7. needReset[s] /\ needReset' = [needReset EXCEPT ![s] = FALSE]
      /\ needsReset' = [needsReset EXCEPT ![c] = needReset[s]]
  BY <1>2 DEF Acquire, EncoderInv, FreeRowsAreDirty
<1>8. FreeRowsAreDirty'
  BY <1>5, <1>7 DEF EncoderInv, EncoderTypeOK, FreeRowsAreDirty
<1>9. \A d \in Callers : d # c => slot'[d] = slot[d] /\ needsReset'[d] = needsReset[d]
  BY <1>5, <1>7 DEF EncoderInv, EncoderTypeOK
<1>10. slot'[c] = s /\ needsReset'[c] /\ first[c]
  BY <1>1, <1>5, <1>7 DEF EncoderInv, EncoderTypeOK, RowsAreSettled
<1>11. RowsAreSettled'
  BY <1>1, <1>9, <1>10 DEF EncoderInv, RowsAreSettled, Open, Session
<1>12. Occupied'
  BY <1>1, <1>9 DEF EncoderInv, Occupied, Open, vars
<1>13. c \notin InBatch /\ InBatch' = InBatch /\ c \notin prepared
  BY <1>1, BatchIsBlocked DEF EncoderInv, PreparedCalls, InBatch, vars
<1>14. PreparedCalls'
  BY <1>1, <1>9, <1>13
     DEF EncoderInv, EncoderTypeOK, PreparedCalls, Session, vars
<1>15. SuccessIsWritten'
  BY <1>1, <1>9, <1>13, BatchIsBlocked
     DEF EncoderInv, SuccessIsWritten, Written, Session, vars
<1> QED
  BY <1>3, <1>6, <1>8, <1>11, <1>12, <1>14, <1>15 DEF EncoderInv

LEMMA DestroyInv ==
  ASSUME IInv, EncoderInv, NEW c \in Callers, Destroy(c)
  PROVE  EncoderInv'
<1>1. pc[c] = "idle" /\ Open(c) /\ UNCHANGED <<vars, row, prepared>>
  BY DEF Destroy
<1>2. slot[c] \in Slots /\ NoSlot \notin Slots
  BY <1>1 DEF EncoderInv, EncoderTypeOK, Open, NoSlot, Slots
<1>3. /\ used' = [used EXCEPT ![slot[c]] = FALSE]
      /\ needReset' = [needReset EXCEPT ![slot[c]] = TRUE]
      /\ slot' = [slot EXCEPT ![c] = NoSlot]
      /\ needsReset' = [needsReset EXCEPT ![c] = FALSE]
      /\ first' = [first EXCEPT ![c] = TRUE]
      /\ session' = [session EXCEPT ![c] = (session[c] + 1) % Sessions]
  BY DEF Destroy, Release
<1>4. EncoderTypeOK'
  <2>1. session' \in [Callers -> 0 .. Sessions - 1]
    BY <1>3, NextSession DEF EncoderInv, EncoderTypeOK
  <2> QED
    BY <2>1, <1>1, <1>2, <1>3 DEF EncoderInv, EncoderTypeOK
<1>5. /\ slot'[c] = NoSlot /\ first'[c]
      /\ \A d \in Callers \ {c} :
           /\ slot'[d] = slot[d] /\ needsReset'[d] = needsReset[d]
           /\ first'[d] = first[d] /\ session'[d] = session[d]
           /\ slot[d] # slot[c]
  BY <1>1, <1>3, RowsApart DEF EncoderInv, EncoderTypeOK
<1>6. SlotOwnership'
  <2>1. ASSUME NEW d \in Callers, NEW e \in Callers, Open(d)', slot'[d] = slot'[e]
        PROVE  d = e
    BY <2>1, <1>5 DEF EncoderInv, SlotOwnership, Open
  <2>2. ASSUME NEW t \in Slots PROVE used'[t] <=> \E d \in Callers : slot'[d] = t
    <3>1. CASE t = slot[c]
      BY <3>1, <1>2, <1>3, <1>5 DEF EncoderInv, EncoderTypeOK
    <3>2. CASE t # slot[c]
      <4>1. used'[t] = used[t]
        BY <3>2, <1>3 DEF EncoderInv, EncoderTypeOK
      <4>2. \A d \in Callers : slot'[d] = t <=> slot[d] = t
        BY <3>2, <1>2, <1>5
      <4> QED BY <4>1, <4>2 DEF EncoderInv, SlotOwnership
    <3> QED BY <3>1, <3>2
  <2> QED BY <2>1, <2>2 DEF SlotOwnership, Open
<1>7. FreeRowsAreDirty'
  BY <1>2, <1>3 DEF EncoderInv, EncoderTypeOK, FreeRowsAreDirty
<1>8. RowsAreSettled'
  BY <1>1, <1>5 DEF EncoderInv, RowsAreSettled, Open, Session
<1>9. Occupied'
  BY <1>1, <1>5 DEF EncoderInv, Occupied, Open, vars
<1>10. c \notin InBatch /\ InBatch' = InBatch /\ c \notin prepared
  BY <1>1, BatchIsBlocked DEF EncoderInv, PreparedCalls, InBatch, vars
<1>11. PreparedCalls'
  BY <1>1, <1>5, <1>10
     DEF EncoderInv, EncoderTypeOK, PreparedCalls, Session, vars
<1>12. SuccessIsWritten'
  BY <1>1, <1>5, <1>10, BatchIsBlocked
     DEF EncoderInv, SuccessIsWritten, Written, Session, vars
<1> QED
  BY <1>4, <1>6, <1>7, <1>8, <1>9, <1>11, <1>12 DEF EncoderInv

LEMMA ResetStateInv ==
  ASSUME IInv, EncoderInv, NEW c \in Callers, ResetState(c)
  PROVE  EncoderInv'
<1>1. /\ pc[c] = "idle" /\ Open(c)
      /\ UNCHANGED <<vars, used, needReset, slot, prepared>>
  BY DEF ResetState
<1>2. /\ row' = [row EXCEPT ![slot[c]] = {}]
      /\ needsReset' = [needsReset EXCEPT ![c] = FALSE]
      /\ first' = [first EXCEPT ![c] = TRUE]
      /\ session' = [session EXCEPT ![c] = (session[c] + 1) % Sessions]
  BY DEF ResetState
<1>3. EncoderTypeOK'
  <2>1. session' \in [Callers -> 0 .. Sessions - 1]
    BY <1>2, NextSession DEF EncoderInv, EncoderTypeOK
  <2> QED
    BY <2>1, <1>1, <1>2 DEF EncoderInv, EncoderTypeOK
<1>4. SlotOwnership' /\ FreeRowsAreDirty' /\ Occupied'
  BY <1>1 DEF EncoderInv, SlotOwnership, FreeRowsAreDirty, Occupied, Open, vars
<1>5. /\ row'[slot[c]] = {} /\ first'[c]
      /\ \A d \in Callers \ {c} :
           /\ needsReset'[d] = needsReset[d]
           /\ first'[d] = first[d] /\ session'[d] = session[d]
           /\ slot[d] \in Slots => row'[slot[d]] = row[slot[d]]
  <2>1. slot[c] \in Slots
    BY <1>1 DEF EncoderInv, EncoderTypeOK, Open
  <2> QED
    BY <1>1, <1>2, <2>1, RowsApart DEF EncoderInv, EncoderTypeOK
<1>6. \A d \in Callers : Open(d) => slot[d] \in Slots
  BY DEF EncoderInv, EncoderTypeOK, Open
<1>7. RowsAreSettled'
  BY <1>1, <1>5, <1>6 DEF EncoderInv, RowsAreSettled, Open, Session
<1>8. c \notin InBatch /\ InBatch' = InBatch /\ c \notin prepared
  BY <1>1, BatchIsBlocked DEF EncoderInv, PreparedCalls, InBatch, vars
<1>9. \A d \in Callers : pc[d] # "idle" => slot[d] \in Slots
  BY <1>6 DEF EncoderInv, Occupied
<1>10. PreparedCalls'
  <2>1. \A d \in prepared : d \in Callers /\ d # c /\ slot[d] \in Slots
    BY <1>8, <1>9, BatchIsBlocked DEF EncoderInv, EncoderTypeOK, PreparedCalls
  <2> QED
    BY <1>1, <1>5, <1>8, <2>1 DEF EncoderInv, PreparedCalls, Session, vars
<1>11. SuccessIsWritten'
  <2>1. \A i \in DOMAIN batch :
          batch[i][1] \in Callers \ {c} /\ slot[batch[i][1]] \in Slots
    BY <1>8, <1>9, BatchIsBlocked
  <2>2. \A d \in Callers : pc[d] \in {"notify", "waiting"} => d # c /\ slot[d] \in Slots
    BY <1>1, <1>9
  <2> QED
    BY <1>1, <1>5, <2>1, <2>2
       DEF EncoderInv, SuccessIsWritten, Written, Session, vars
<1> QED
  BY <1>3, <1>4, <1>7, <1>10, <1>11 DEF EncoderInv

-----------------------------------------------------------------------------
(* The callback: it zeroes the rows of its calls, then runs the graph.       *)

LEMMA ZeroSlotsInv ==
  ASSUME IInv, EncoderInv, NEW cs \in SUBSET Callers, ZeroSlots(cs),
         \A c \in cs : pc[c] = "inline" \/ (wpc = "run" /\ c \in InBatch)
  PROVE  EncoderInv'
<1>1. /\ row' = [s \in Slots |->
                  IF \E c \in cs : needsReset[c] /\ slot[c] = s THEN {} ELSE row[s]]
      /\ prepared' = prepared \cup cs
      /\ UNCHANGED <<vars, stateVars, first, session>>
  BY DEF ZeroSlots
<1>2. EncoderTypeOK'
  BY <1>1 DEF EncoderInv, EncoderTypeOK, stateVars
<1>3. SlotOwnership' /\ FreeRowsAreDirty' /\ Occupied'
  BY <1>1 DEF EncoderInv, SlotOwnership, FreeRowsAreDirty, Occupied, Open, vars, stateVars
<1>4. \A d \in Callers : Open(d) => slot[d] \in Slots
  BY DEF EncoderInv, EncoderTypeOK, Open
<1>5. \A d \in cs : Open(d) /\ pc[d] # "idle"
  BY BatchIsBlocked DEF EncoderInv, Occupied
<1>6. ASSUME NEW d \in Callers, Open(d)
      PROVE  /\ row'[slot[d]] \subseteq row[slot[d]]
             /\ d \notin cs \/ ~needsReset[d] => row'[slot[d]] = row[slot[d]]
             /\ d \in cs /\ needsReset[d] => row'[slot[d]] = {}
  <2>1. slot[d] \in Slots
    BY <1>4, <1>6
  <2>2. \A c \in cs : slot[c] = slot[d] => c = d
    BY <1>6, RowsApart
  <2> QED
    BY <1>1, <2>1, <2>2
<1>7. RowsAreSettled'
  BY <1>1, <1>6 DEF EncoderInv, RowsAreSettled, Open, Session, stateVars
<1>8. InBatch' = InBatch
  BY <1>1 DEF InBatch, vars
<1>9. PreparedCalls'
  <2>1. \A c \in prepared' : pc'[c] = "inline" \/ (wpc' = "run" /\ c \in InBatch')
    BY <1>1, <1>8 DEF EncoderInv, PreparedCalls, vars
  <2>2. ASSUME NEW c \in prepared' PROVE row'[slot[c]] \subseteq {Session(c)}
    <3>1. c \in Callers /\ Open(c)
      <4>1. c \in Callers /\ pc[c] # "idle"
        BY <1>1, <2>1, BatchIsBlocked, <1>8 DEF vars, EncoderInv, EncoderTypeOK
      <4> QED
        BY <4>1 DEF EncoderInv, Occupied
    <3>2. CASE c \in cs
      BY <3>1, <3>2, <1>6 DEF EncoderInv, RowsAreSettled
    <3>3. CASE c \notin cs
      BY <3>1, <3>3, <1>1, <1>6 DEF EncoderInv, PreparedCalls
    <3> QED
      BY <3>2, <3>3
  <2>3. \A c \in prepared' : slot'[c] = slot[c] /\ Session(c)' = Session(c)
    BY <1>1 DEF Session, stateVars
  <2> QED
    BY <2>1, <2>2, <2>3 DEF PreparedCalls
<1>10. SuccessIsWritten'
  <2>1. \A d \in Callers : d \notin cs /\ Open(d) /\ Written(d) => Written(d)'
    BY <1>1, <1>6 DEF Written, Session, stateVars
  <2>2. wpc # "resolve" \/ \A d \in cs : pc[d] = "inline"
    OBVIOUS
  <2>3. \A d \in Callers : pc[d] \in {"notify", "waiting"} /\ answer[d].kind = "value"
          => d \notin cs /\ Open(d)
    BY BatchIsBlocked DEF EncoderInv, Occupied
  <2>4. wpc = "resolve" =>
          \A i \in DOMAIN batch :
            batch[i][1] \in Callers /\ batch[i][1] \notin cs /\ Open(batch[i][1])
    BY <2>2, BatchIsBlocked DEF EncoderInv, Occupied
  <2> QED
    BY <1>1, <2>1, <2>3, <2>4 DEF EncoderInv, SuccessIsWritten, vars
<1> QED
  BY <1>2, <1>3, <1>7, <1>9, <1>10 DEF EncoderInv

(* What the graph leaves in the rows, of the streams it ran and of others.   *)
LEMMA RunSessionRows ==
  ASSUME IInv, EncoderInv, NEW cs \in SUBSET prepared, NEW ok \in BOOLEAN,
         RunSession(cs, ok)
  PROVE  /\ OwnedRows'
         /\ prepared' = prepared \ cs
         /\ UNCHANGED <<stateVars, first, session>>
         /\ \A d \in Callers \ cs : Open(d) => row'[slot[d]] = row[slot[d]]
         /\ \A d \in cs : ok => row'[slot[d]] = {Session(d)}
<1>1. PICK wrote \in {ok, TRUE} :
        row' = [s \in Slots |->
                 row[s] \cup {Session(c) : c \in {d \in cs : wrote /\ slot[d] = s}}]
  BY DEF RunSession
<1>2. prepared' = prepared \ cs /\ UNCHANGED <<stateVars, first, session>>
  BY DEF RunSession
<1>3. cs \subseteq Callers
  BY DEF EncoderInv, EncoderTypeOK
<1>4. \A d \in cs : Open(d)
  BY <1>3, BatchIsBlocked DEF EncoderInv, PreparedCalls, Occupied
<1>5. \A d \in Callers : Session(d) \in Callers \X (0 .. Sessions - 1)
  BY DEF EncoderInv, EncoderTypeOK, Session
<1>6. EncoderTypeOK'
  <2>1. row' \in [Slots -> SUBSET (Callers \X (0 .. Sessions - 1))]
    BY <1>1, <1>3, <1>5 DEF EncoderInv, EncoderTypeOK
  <2> QED
    BY <2>1, <1>2 DEF EncoderInv, EncoderTypeOK, stateVars
<1>7. ASSUME NEW d \in Callers, Open(d)
      PROVE  row'[slot[d]] = row[slot[d]] \cup (IF d \in cs /\ wrote THEN {Session(d)} ELSE {})
  <2>1. slot[d] \in Slots
    BY <1>7 DEF EncoderInv, EncoderTypeOK, Open
  <2>2. \A c \in cs : slot[c] = slot[d] => c = d
    BY <1>3, <1>7, RowsApart
  <2>3. {Session(c) : c \in {e \in cs : wrote /\ slot[e] = slot[d]}}
          = IF d \in cs /\ wrote THEN {Session(d)} ELSE {}
    BY <2>2
  <2> QED
    BY <1>1, <2>1, <2>3
<1>8. SlotOwnership' /\ FreeRowsAreDirty'
  BY <1>2 DEF EncoderInv, SlotOwnership, FreeRowsAreDirty, Open, stateVars
<1>9. RowsAreSettled'
  BY <1>2, <1>7 DEF EncoderInv, RowsAreSettled, Open, Session, stateVars
<1>10. \A d \in Callers \ cs : Open(d) => row'[slot[d]] = row[slot[d]]
  BY <1>7
<1>11. \A d \in cs : ok => row'[slot[d]] = {Session(d)}
  BY <1>3, <1>4, <1>7, <1>1 DEF EncoderInv, PreparedCalls
<1> QED
  BY <1>2, <1>6, <1>8, <1>9, <1>10, <1>11 DEF OwnedRows
LEMMA EncodeInlineInv ==
  ASSUME IInv, EncoderInv, NEW c \in Callers, EncodeInline(c)
  PROVE  EncoderInv'
<1>1. /\ c \in prepared /\ pc[c] = "inline" /\ pc' = [pc EXCEPT ![c] = "waiting"]
      /\ answer' \in {[answer EXCEPT ![c] = Value(c)], [answer EXCEPT ![c] = Error(c)]}
      /\ UNCHANGED <<callVars, queue, stopping, wpc, workVars, closer>>
      /\ RunSession({c}, answer'[c].kind = "value")
  BY DEF EncodeInline, InlineDone
<1>2. /\ OwnedRows' /\ prepared' = prepared \ {c}
      /\ UNCHANGED <<stateVars, first, session>>
      /\ \A d \in Callers \ {c} : Open(d) => row'[slot[d]] = row[slot[d]]
      /\ answer'[c].kind = "value" => row'[slot[c]] = {Session(c)}
  <2>1. (answer'[c].kind = "value") \in BOOLEAN /\ {c} \in SUBSET prepared
    BY <1>1
  <2> QED
    BY <1>1, <2>1, RunSessionRows
<1>3. InBatch' = InBatch
  BY <1>1 DEF InBatch, workVars
<1>4. c \notin InBatch
  BY <1>1, BatchIsBlocked
<1>5. \A d \in Callers \ {c} : pc'[d] = pc[d] /\ answer'[d] = answer[d]
  BY <1>1 DEF IInv, TypeOK
<1>6. \A d \in Callers : slot'[d] = slot[d] /\ Session(d)' = Session(d)
  BY <1>2 DEF stateVars, Session
<1>7. Occupied'
  BY <1>1, <1>5, <1>6 DEF EncoderInv, Occupied, Open
<1>8. PreparedCalls'
  <2>1. \A d \in prepared' : d \in Callers \ {c} /\ Open(d)
    BY <1>2, BatchIsBlocked DEF EncoderInv, EncoderTypeOK, PreparedCalls, Occupied
  <2> QED
    BY <1>1, <1>2, <1>3, <1>5, <1>6, <2>1 DEF EncoderInv, PreparedCalls
<1>9. SuccessIsWritten'
  <2>1. \A d \in Callers \ {c} : Open(d) /\ Written(d) => Written(d)'
    BY <1>2, <1>6 DEF Written
  <2>2. answer'[c].kind = "value" => Written(c)'
    BY <1>1, <1>2, <1>6 DEF Written, EncoderInv, EncoderTypeOK
  <2>3. \A i \in DOMAIN batch : batch[i][1] \in Callers \ {c} /\ Open(batch[i][1])
    BY <1>4, BatchIsBlocked DEF EncoderInv, Occupied
  <2>4. ASSUME NEW d \in Callers, pc'[d] \in {"notify", "waiting"}, answer'[d].kind = "value"
        PROVE  Written(d)'
    BY <2>1, <2>2, <2>4, <1>5 DEF EncoderInv, SuccessIsWritten, Occupied
  <2>5. wpc' = "resolve" =>
          \A i \in DOMAIN batch' : results'[i].kind = "value" => Written(batch[i][1])'
    BY <1>1, <2>1, <2>3 DEF EncoderInv, SuccessIsWritten, workVars
  <2> QED
    BY <1>1, <2>4, <2>5 DEF SuccessIsWritten, workVars
<1> QED
  BY <1>2, <1>7, <1>8, <1>9 DEF EncoderInv, OwnedRows

LEMMA EncodeBatchInv ==
  ASSUME IInv, EncoderInv, EncodeBatch
  PROVE  EncoderInv'
<1>1. /\ InBatch \subseteq prepared /\ wpc = "run" /\ wpc' = "resolve"
      /\ UNCHANGED <<pc, callVars, answer, queue, stopping, wkey, wtarget, scan, batch, closer>>
      /\ RunSession(InBatch, Head(results').kind = "value")
  BY DEF EncodeBatch, Execute
<1>2. PICK kind \in {"value", "error"} :
        results' = [i \in DOMAIN batch |-> [kind |-> kind, req |-> batch[i]]]
  BY DEF EncodeBatch, Execute
<1>3. /\ OwnedRows' /\ prepared' = prepared \ InBatch
      /\ UNCHANGED <<stateVars, first, session>>
      /\ \A d \in Callers \ InBatch : Open(d) => row'[slot[d]] = row[slot[d]]
      /\ \A d \in InBatch : Head(results').kind = "value" => row'[slot[d]] = {Session(d)}
  <2>1. (Head(results').kind = "value") \in BOOLEAN /\ InBatch \in SUBSET prepared
    BY <1>1
  <2> QED
    BY <1>1, <2>1, RunSessionRows
<1>4. \A d \in Callers : slot'[d] = slot[d] /\ Session(d)' = Session(d)
  BY <1>3 DEF stateVars, Session
<1>5. InBatch' = InBatch
  BY <1>1 DEF InBatch
<1>6. Occupied'
  BY <1>1, <1>4 DEF EncoderInv, Occupied, Open
<1>7. PreparedCalls'
  <2>1. \A d \in prepared' : d \in Callers \ InBatch /\ Open(d) /\ pc[d] = "inline"
    BY <1>3 DEF EncoderInv, EncoderTypeOK, PreparedCalls, Occupied
  <2> QED
    BY <1>1, <1>3, <1>4, <2>1 DEF EncoderInv, PreparedCalls
<1>8. SuccessIsWritten'
  <2>1. ASSUME NEW d \in Callers, pc[d] \in {"notify", "waiting"}, answer[d].kind = "value"
        PROVE  Written(d)'
    <3>1. d \notin InBatch /\ Open(d) /\ Written(d)
      BY <2>1, BatchIsBlocked DEF EncoderInv, SuccessIsWritten, Occupied
    <3> QED
      BY <3>1, <1>3, <1>4 DEF Written
  <2>2. ASSUME NEW i \in DOMAIN batch, results'[i].kind = "value"
        PROVE  Written(batch[i][1])'
    <3>1. batch \in Seq(Request) /\ kind = "value"
      BY <1>2, <2>2 DEF IInv, TypeOK
    <3>2. 1 \in DOMAIN batch /\ results'[1].kind = "value"
      BY <3>1, <1>2
    <3>3. Head(results') = results'[1]
      <4>1. [Next]_vars
        BY DEF EncodeBatch, Next, WorkerStep
      <4>2. results' \in Seq(Answer)
        BY <4>1, StepTypeOK DEF IInv, TypeOK
      <4> QED
        BY <4>2
    <3>4. batch[i][1] \in Callers /\ batch[i][1] \in InBatch
      BY BatchIsBlocked
    <3> QED
      BY <3>2, <3>3, <3>4, <1>1, <1>3 DEF Written, Session, stateVars
  <2> QED
    BY <1>1, <2>1, <2>2 DEF SuccessIsWritten
<1> QED
  BY <1>3, <1>6, <1>7, <1>8 DEF EncoderInv, OwnedRows

-----------------------------------------------------------------------------
(* The steps of a call, and of the batcher, that leave the rows alone.       *)

(* It is enough that nobody who was idle is found in a call unless open,     *)
(* that a callback that has zeroed still runs, and that a value is new       *)
(* neither to a caller nor to the worker.                                    *)
LEMMA BatcherFrame ==
  ASSUME IInv, EncoderInv, UNCHANGED encoderVars,
         \A d \in Callers : pc'[d] # "idle" => Open(d),
         \A d \in Callers : pc[d] = "inline" => pc'[d] = "inline",
         wpc = "run" => wpc' = "run" /\ batch' = batch,
         \A d \in Callers :
           pc'[d] \in {"notify", "waiting"} /\ answer'[d].kind = "value" => Written(d),
         wpc' = "resolve" =>
           \A i \in DOMAIN batch' : results'[i].kind = "value" => Written(batch'[i][1])
  PROVE  EncoderInv'
<1>1. OwnedRows'
  BY RowsFrame DEF EncoderInv, OwnedRows
<1>2. \A d : slot'[d] = slot[d] /\ row' = row /\ Session(d)' = Session(d)
             /\ prepared' = prepared
  BY DEF encoderVars, stateVars, Session
<1>3. Occupied'
  BY <1>2 DEF Occupied, Open
<1>4. PreparedCalls'
  BY <1>2 DEF EncoderInv, EncoderTypeOK, PreparedCalls, InBatch
<1>5. SuccessIsWritten'
  <2>1. slot' = slot /\ row' = row /\ session' = session
    BY DEF encoderVars, stateVars
  <2> QED
    BY <2>1 DEF SuccessIsWritten, Written, Session
<1> QED
  BY <1>1, <1>3, <1>4, <1>5 DEF EncoderInv, OwnedRows
LEMMA EncodeChunkInv ==
  ASSUME IInv, EncoderInv, NEW c \in Callers, EncodeChunk(c)
  PROVE  EncoderInv'
<1>1. /\ Open(c) /\ pc[c] = "idle" /\ pc' = [pc EXCEPT ![c] = "enter"]
      /\ \A d \in Callers \ {c} : answer'[d] = answer[d]
      /\ UNCHANGED <<queue, stopping, wpc, workVars, closer>>
      /\ UNCHANGED encoderVars
  BY DEF EncodeChunk, Begin, IInv, TypeOK
<1>2. \A d \in Callers : pc'[d] # "idle" => Open(d)
  BY <1>1 DEF EncoderInv, Occupied, IInv, TypeOK
<1>3. \A d \in Callers :
        /\ pc[d] = "inline" => pc'[d] = "inline"
        /\ pc'[d] \in {"notify", "waiting"} => d # c /\ pc[d] = pc'[d]
  BY <1>1 DEF IInv, TypeOK
<1> QED
  BY <1>1, <1>2, <1>3, BatcherFrame DEF EncoderInv, SuccessIsWritten, workVars

LEMMA EncodeReturnInv ==
  ASSUME IInv, EncoderInv, NEW c \in Callers, EncodeReturn(c)
  PROVE  EncoderInv'
<1>1. /\ pc[c] = "waiting" /\ answer[c].kind # "pending"
      /\ pc' = [pc EXCEPT ![c] = "idle"]
      /\ answer' = [answer EXCEPT ![c] = Pending(c)]
      /\ UNCHANGED <<queue, stopping, wpc, workVars, closer>>
      /\ UNCHANGED <<used, needReset, slot, row, session, prepared>>
  BY DEF EncodeReturn, Return
<1>2. \A d \in Callers \ {c} :
        /\ pc'[d] = pc[d] /\ answer'[d] = answer[d]
        /\ needsReset'[d] = needsReset[d] /\ first'[d] = first[d]
  BY <1>1 DEF EncodeReturn, IInv, TypeOK, EncoderInv, EncoderTypeOK
<1>3. EncoderTypeOK'
  BY <1>1 DEF EncodeReturn, EncoderInv, EncoderTypeOK
<1>4. SlotOwnership' /\ FreeRowsAreDirty'
  BY <1>1 DEF EncoderInv, SlotOwnership, FreeRowsAreDirty, Open
<1>5. RowsAreSettled'
  <2>1. CASE answer[c].kind = "value"
    <3>1. Written(c) /\ Open(c)
      BY <1>1, <2>1 DEF EncoderInv, SuccessIsWritten, Occupied
    <3>2. ~needsReset'[c] /\ ~first'[c]
      BY <2>1 DEF EncodeReturn, EncoderInv, EncoderTypeOK
    <3> QED
      BY <1>1, <1>2, <3>1, <3>2 DEF EncoderInv, RowsAreSettled, Written, Open, Session
  <2>2. CASE answer[c].kind # "value"
    BY <1>1, <2>2 DEF EncodeReturn, EncoderInv, RowsAreSettled, Open, Session
  <2> QED
    BY <2>1, <2>2
<1>6. Occupied'
  BY <1>1 DEF EncoderInv, Occupied, Open, IInv, TypeOK
<1>7. InBatch' = InBatch /\ c \notin InBatch /\ c \notin prepared
  BY <1>1, BatchIsBlocked DEF InBatch, workVars, EncoderInv, PreparedCalls
<1>8. PreparedCalls'
  BY <1>1, <1>2, <1>7 DEF EncoderInv, EncoderTypeOK, PreparedCalls, Session
<1>9. SuccessIsWritten'
  <2>1. \A d \in Callers : pc'[d] \in {"notify", "waiting"} =>
          pc[d] = pc'[d] /\ answer'[d] = answer[d]
    BY <1>1, <1>2 DEF IInv, TypeOK
  <2> QED
    BY <1>1, <2>1 DEF EncoderInv, SuccessIsWritten, Written, Session, workVars
<1> QED
  BY <1>3, <1>4, <1>5, <1>6, <1>8, <1>9 DEF EncoderInv

(* The worker hands a result to its caller.                                  *)
LEMMA ResolveInv ==
  ASSUME IInv, EncoderInv, Resolve, UNCHANGED encoderVars
  PROVE  EncoderInv'
<1>1. /\ wpc = "resolve" /\ batch # <<>>
      /\ answer' = [answer EXCEPT ![Head(batch)[1]] = Head(results)]
      /\ batch' = Tail(batch) /\ results' = Tail(results)
      /\ UNCHANGED <<pc, wpc>>
  BY DEF Resolve
<1>2. /\ batch \in Seq(Request) /\ results \in Seq(Answer) /\ Len(results) = Len(batch)
      /\ answer \in [Callers -> Answer]
  BY <1>1 DEF IInv, TypeOK, ResultsMatch
<1>3. 1 \in DOMAIN batch /\ Head(batch) = batch[1] /\ Head(results) = results[1]
  BY <1>1, <1>2
<1>4. \A i \in DOMAIN Tail(batch) :
        /\ i + 1 \in DOMAIN batch
        /\ Tail(batch)[i] = batch[i + 1] /\ Tail(results)[i] = results[i + 1]
  BY <1>1, <1>2
<1>5. batch[1][1] \in Callers
  BY <1>3, BatchIsBlocked
<1>6. ASSUME NEW d \in Callers, pc'[d] \in {"notify", "waiting"}, answer'[d].kind = "value"
      PROVE  Written(d)
  BY <1>1, <1>2, <1>3, <1>5, <1>6 DEF EncoderInv, SuccessIsWritten
<1>7. \A i \in DOMAIN batch' : results'[i].kind = "value" => Written(batch'[i][1])
  BY <1>1, <1>4 DEF EncoderInv, SuccessIsWritten
<1> QED
  BY <1>1, <1>6, <1>7, BatcherFrame DEF EncoderInv, Occupied

LEMMA BatcherStepInv ==
  ASSUME IInv, EncoderInv, BatcherStep
  PROVE  EncoderInv'
<1>u. UNCHANGED encoderVars
  BY DEF BatcherStep
<1> USE DEF callVars, workVars
<1>1. ASSUME NEW c \in Callers,
             EnterInline(c) \/ EnterQueued(c) \/ Enqueue(c) \/ NotifyWorker(c)
      PROVE  EncoderInv'
  <2>1. /\ pc[c] \in {"enter", "enqueue", "notify"}
        /\ pc' \in {[pc EXCEPT ![c] = p] : p \in {"inline", "enqueue", "notify", "waiting"}}
        /\ UNCHANGED <<batch, results>>
        /\ wpc = "run" => wpc' = "run"
        /\ wpc' = "resolve" => wpc = "resolve"
    BY <1>1 DEF EnterInline, EnterQueued, Enqueue, NotifyWorker, Refuse, Wake
  <2>2. pc[c] # "notify" => answer[c].kind = "pending"
    <3>1. Pending(c).kind = "pending"
      BY DEF Pending
    <3>2. pc[c] # "notify" => answer[c] = Pending(c)
      BY <2>1 DEF IInv, CallPhases
    <3> QED
      BY <3>1, <3>2
  <2>3. \/ answer' = answer
        \/ pc[c] # "notify" /\ answer' = [answer EXCEPT ![c] = Error(c)]
    BY <1>1 DEF EnterInline, EnterQueued, Enqueue, NotifyWorker, Refuse
  <2>4. \A d \in Callers : pc'[d] # "idle" => Open(d)
    BY <2>1 DEF EncoderInv, Occupied, IInv, TypeOK
  <2>5. \A d \in Callers : pc[d] = "inline" => pc'[d] = "inline"
    BY <2>1 DEF IInv, TypeOK
  <2>6. ASSUME NEW d \in Callers, pc'[d] \in {"notify", "waiting"}, answer'[d].kind = "value"
        PROVE  Written(d)
    <3>1. answer[d].kind = "value"
      <4>1. Error(c).kind # "value"
        BY DEF Error
      <4> QED
        BY <2>3, <2>6, <4>1 DEF IInv, TypeOK
    <3>2. pc[d] \in {"notify", "waiting"}
      BY <2>1, <2>2, <2>6, <3>1 DEF IInv, TypeOK
    <3> QED
      BY <3>1, <3>2 DEF EncoderInv, SuccessIsWritten
  <2> QED
    BY <1>u, <2>1, <2>4, <2>5, <2>6, BatcherFrame DEF EncoderInv, SuccessIsWritten
<1>2. CASE \/ WorkerCheck \/ WorkerRecheck \/ Deadline \/ Collect \/ Collected \/ NextRound
  <2>1. UNCHANGED <<pc, answer>> /\ wpc # "run" /\ wpc' # "resolve"
    BY <1>2 DEF WorkerCheck, WorkerRecheck, Deadline, Collect, Collected, NextRound
  <2> QED
    BY <1>u, <2>1, BatcherFrame DEF EncoderInv, Occupied, SuccessIsWritten
<1>3. CASE Resolve
  BY <1>u, <1>3, ResolveInv
<1>4. ASSUME NEW x \in Closers, CloserNext(x) PROVE EncoderInv'
  <2>1. /\ UNCHANGED <<pc, answer, batch, results>>
        /\ wpc = "run" => wpc' = "run"
        /\ wpc' = "resolve" => wpc = "resolve"
    BY <1>4 DEF CloserNext, BeginShutdown, NotifyShutdown, Join, Wake
  <2> QED
    BY <1>u, <2>1, BatcherFrame DEF EncoderInv, Occupied, SuccessIsWritten
<1> QED
  BY <1>1, <1>2, <1>3, <1>4 DEF BatcherStep

-----------------------------------------------------------------------------
LEMMA StepEncoderInv == IInv /\ EncoderInv /\ [EncoderNext]_allVars => EncoderInv'
<1> SUFFICES ASSUME IInv, EncoderInv, [EncoderNext]_allVars PROVE EncoderInv'
  OBVIOUS
<1>1. CASE UNCHANGED allVars
  BY <1>1, BatcherFrame
     DEF allVars, vars, EncoderInv, Occupied, SuccessIsWritten
<1>2. ASSUME NEW c \in Callers, StreamNext(c) PROVE EncoderInv'
  <2>1. CASE ZeroInline(c)
    <3>1. pc[c] = "inline" /\ ZeroSlots({c})
      BY <2>1 DEF ZeroInline
    <3> QED
      BY <3>1, ZeroSlotsInv
  <2> QED
    BY <1>2, <2>1, MakeStateInv, DestroyInv, ResetStateInv, EncodeChunkInv,
       EncodeReturnInv, EncodeInlineInv DEF StreamNext
<1>3. CASE ZeroBatch
  <2>1. wpc = "run" /\ ZeroSlots(InBatch) /\ InBatch \in SUBSET Callers
    BY <1>3, BatchIsBlocked DEF ZeroBatch
  <2> QED
    BY <2>1, ZeroSlotsInv
<1>4. CASE EncodeBatch
  BY <1>4, EncodeBatchInv
<1>5. CASE BatcherStep
  BY <1>5, BatcherStepInv
<1> QED
  BY <1>1, <1>2, <1>3, <1>4, <1>5 DEF EncoderNext

(* The inductive invariant of the encoder and its batcher, for any number of *)
(* streams, rows and calls: who owns a row, what it holds, what is owed.     *)
THEOREM EncoderInvariance == EncoderSpec => [](IInv /\ EncoderInv)
<1>1. EncoderInit => IInv /\ EncoderInv
  BY InitIInv, InitEncoderInv DEF EncoderInit
<1>2. IInv /\ EncoderInv /\ [EncoderNext]_allVars => IInv' /\ EncoderInv'
  BY StepIsBatcherStep, StepIInv, StepEncoderInv
<1> QED
  BY <1>1, <1>2, PTL DEF EncoderSpec

(* Make_state, ~State and their callers keep the arena: no slot index points *)
(* outside it, whatever the streams do.                                      *)
THEOREM EncoderTypeCorrect == EncoderSpec => []EncoderTypeOK
<1>1. EncoderInv => EncoderTypeOK
  BY DEF EncoderInv
<1> QED
  BY <1>1, EncoderInvariance, PTL

(* No two live streams share a row of the arena, and none leaks.             *)
THEOREM RowsAreOwned == EncoderSpec => []SlotOwnership
<1>1. EncoderInv => SlotOwnership
  BY DEF EncoderInv
<1> QED
  BY <1>1, EncoderInvariance, PTL

(* The graph runs for a stream only on the context of that stream's session, *)
(* all of it: for any interleaving of failures, retries, resets and owners.  *)
THEOREM ContextBelongsToTheStream == EncoderSpec => []ContextIsOwn
<1>1. EncoderInv => ContextIsOwn
  BY DEF EncoderInv, PreparedCalls, RowsAreSettled, ContextIsOwn, EncoderTypeOK
<1> QED
  BY <1>1, EncoderInvariance, PTL
=============================================================================
