--------------------------- MODULE DecodeScheduler ---------------------------
(***************************************************************************)
(* The transducer decode scheduler of src/src/asr/model.cpp: streams that  *)
(* are admitted to a decode step in waves (RnntModel::begin_decode_step),  *)
(* their predictor and joint calls, the scheduler thread that forms        *)
(* batches out of the ready queues, and the executors that run them        *)
(* (RnntModel::DecoderBatchers, with batching enabled).                    *)
(*                                                                         *)
(* mu_ is held across actions only by the scheduler in "pick" and          *)
(* "decide"; decode_admission_mu_ by a stream in "publish". What matters   *)
(* is what is not under mu_: the counter admitted_decode_steps_, and the   *)
(* notification of a step that ends. Both condition variables are          *)
(* explicit: only a sleeping thread hears a notification.                  *)
(*                                                                         *)
(* Left out: the device calls, which never queue; the shutdown dispatch    *)
(* and the refusals after shutdown, since only the destructor shuts the    *)
(* scheduler down, when no stream is left.                                 *)
(***************************************************************************)
EXTENDS Naturals, Sequences, FiniteSets, SequencesExt

CONSTANTS Streams,     \* threads that decode
          Executors,   \* executors_
          Ops,         \* the ready queues: predictor, joint, fused, by key
          Cohorts,     \* Cohorts[c]: the cohort targets that stream c may have in scope
          MaxBatch,    \* max_batch_size_
          MaxDepth     \* max_queue_depth_

ASSUME ConfigAssumption ==
  /\ IsFiniteSet(Streams) /\ IsFiniteSet(Executors) /\ Executors # {}
  /\ Ops # {}
  /\ Cohorts \in [Streams -> SUBSET Nat]
  /\ MaxBatch \in Nat /\ MaxBatch > 1
  /\ MaxDepth \in Nat /\ MaxDepth >= MaxBatch

VARIABLES
  pc,        \* pc[c]: where stream c is
  op,        \* op[c]: the queue of its current call
  answer,    \* answer[c]: the promise of that call
  admitted,  \* admitted_decode_steps_
  wtarget,   \* decode_admission_target_
  queue,     \* queue[k]: the jobs of ready queue k, named by their streams
  older,     \* <<c, d>>: the job of c has an earlier queued_at than that of d
  spc,       \* where the scheduler is
  sadm,      \* task.admitted: what the scheduler read
  late,      \* the oldest candidate's deadline has passed
  tasks,     \* task_queue_
  items, flying,   \* items_in_flight_, tasks_in_flight_
  epc,       \* epc[e]: where executor e is
  work,      \* work[e]: the jobs of its task not yet resolved
  results,   \* results[e]: what the graph returned for them
  stopping, scheduled,   \* stopping_, scheduling_done_
  closer     \* where the destructor is

vars == <<pc, op, answer, admitted, wtarget, queue, older, spc, sadm, late,
          tasks, items, flying, epc, work, results, stopping, scheduled, closer>>
streamVars    == <<op, answer>>
admissionVars == <<admitted, wtarget>>
queueVars     == <<queue, older>>
schedulerVars == <<sadm, late>>
taskVars      == <<tasks, items, flying>>
executorVars  == <<epc, work, results>>
shutdownVars  == <<stopping, scheduled, closer>>

DefaultOp == CHOOSE k \in Ops : TRUE
Pending(c) == [kind |-> "pending", of |-> c]

MuFree        == spc \notin {"pick", "decide"}
AdmissionFree == \A c \in Streams : pc[c] # "publish"
Waiting       == {c \in Streams : pc[c] \in {"wave", "timedout"}}

\* pending_locked() counts the jobs of all queues: a stream has one at a time.
Ready == UNION {ToSet(queue[k]) : k \in Ops}
\* The jobs that exist and are not dispatched yet.
Made  == Ready \cup {c \in Streams : pc[c] = "enqueue"}
Forget(jobs) == older' = {p \in older : p[1] \notin jobs /\ p[2] \notin jobs}

\* A notification on cv_ and on executor_cv_ (notify_one, notify_all).
Wake == spc' = IF spc = "asleep" THEN "check"
               ELSE IF spc = "dozing" THEN "pick" ELSE spc
WakeOne ==
  IF \E e \in Executors : epc[e] = "asleep"
  THEN \E e \in Executors : epc[e] = "asleep" /\ epc' = [epc EXCEPT ![e] = "check"]
  ELSE UNCHANGED epc
WakeAll == epc' = [e \in Executors |-> IF epc[e] = "asleep" THEN "check" ELSE epc[e]]

Init ==
  /\ pc = [c \in Streams |-> "out"]
  /\ op = [c \in Streams |-> DefaultOp]
  /\ answer = [c \in Streams |-> Pending(c)]
  /\ admitted = 0 /\ wtarget = 0
  /\ queue = [k \in Ops |-> <<>>] /\ older = {}
  /\ spc = "check" /\ sadm = 0 /\ late = FALSE
  /\ tasks = <<>> /\ items = 0 /\ flying = 0
  /\ epc = [e \in Executors |-> "check"]
  /\ work = [e \in Executors |-> <<>>] /\ results = [e \in Executors |-> <<>>]
  /\ stopping = FALSE /\ scheduled = FALSE /\ closer = "idle"

-----------------------------------------------------------------------------
(* Admission: begin_decode_step() and end_decode_step().                   *)

\* Mutant of ReleaseWave: the member that closes the wave counts itself only.
ReleaseWaveAlone(c) ==
  /\ admitted' = admitted + 1
  /\ wtarget' = 0
  /\ pc' = [d \in Streams |->
              IF d = c THEN "publish" ELSE IF d \in Waiting THEN "woken" ELSE pc[d]]

\* All that wait are admitted at once; c goes on to tell the scheduler.
ReleaseWave(c) ==
  /\ admitted' = admitted + Cardinality(Waiting \cup {c})
  /\ wtarget' = 0
  /\ pc' = [d \in Streams |->
              IF d = c THEN "publish" ELSE IF d \in Waiting THEN "woken" ELSE pc[d]]

\* The wave's target once c has joined it.
WaveTarget(cohort) ==
  LET hint == IF cohort > 1 /\ cohort < MaxBatch THEN cohort ELSE MaxBatch
  IN  IF Waiting # {} /\ (cohort <= 1 \/ wtarget < hint) THEN wtarget ELSE hint

\* A cohort of one does not wait.
BeginAlone(c) ==
  /\ pc[c] = "out" /\ closer = "idle" /\ 1 \in Cohorts[c]
  /\ admitted' = admitted + 1
  /\ pc' = [pc EXCEPT ![c] = "announce"]
  /\ UNCHANGED <<streamVars, wtarget, queueVars, spc, schedulerVars, taskVars,
                 executorVars, shutdownVars>>

BeginInWave(c) ==
  /\ pc[c] = "out" /\ closer = "idle" /\ AdmissionFree
  /\ \E cohort \in Cohorts[c] \ {1} :
       IF Cardinality(Waiting) + 1 >= WaveTarget(cohort)
       THEN ReleaseWave(c)
       ELSE /\ pc' = [pc EXCEPT ![c] = "wave"]
            /\ wtarget' = WaveTarget(cohort)
            /\ UNCHANGED admitted
  /\ UNCHANGED <<streamVars, queueVars, spc, schedulerVars, taskVars, executorVars, shutdownVars>>

WaveDeadline(c) ==
  /\ pc[c] = "wave"
  /\ pc' = [pc EXCEPT ![c] = "timedout"]
  /\ UNCHANGED <<streamVars, admissionVars, queueVars, spc, schedulerVars,
                 taskVars, executorVars, shutdownVars>>

\* c has the lock again after its deadline, and nobody released the wave.
CloseWave(c) ==
  /\ pc[c] = "timedout" /\ AdmissionFree
  /\ ReleaseWave(c)
  /\ UNCHANGED <<streamVars, queueVars, spc, schedulerVars, taskVars, executorVars, shutdownVars>>

\* notify_active_change() by whoever admitted itself or a wave.
Announce(c) ==
  /\ pc[c] \in {"announce", "publish"}
  /\ pc' = [pc EXCEPT ![c] = "step"]
  /\ Wake
  /\ UNCHANGED <<streamVars, admissionVars, queueVars, schedulerVars, taskVars,
                 executorVars, shutdownVars>>

\* The generation has changed.
ResumeWave(c) ==
  /\ pc[c] = "woken" /\ AdmissionFree
  /\ pc' = [pc EXCEPT ![c] = "step"]
  /\ UNCHANGED <<streamVars, admissionVars, queueVars, spc, schedulerVars,
                 taskVars, executorVars, shutdownVars>>

\* ~DecodeStepScope: the counter first, then the notification.
EndStep(c) ==
  /\ pc[c] \in {"step", "failed"}
  /\ admitted' = admitted - 1
  /\ pc' = [pc EXCEPT ![c] = "farewell"]
  /\ UNCHANGED <<streamVars, wtarget, queueVars, spc, schedulerVars, taskVars,
                 executorVars, shutdownVars>>

Farewell(c) ==
  /\ pc[c] = "farewell"
  /\ pc' = [pc EXCEPT ![c] = "out"]
  /\ Wake
  /\ UNCHANGED <<streamVars, admissionVars, queueVars, schedulerVars, taskVars,
                 executorVars, shutdownVars>>
-----------------------------------------------------------------------------
(* Predictor and joint calls: predict(), joint(), predict_joint_tdt().     *)

\* The call reads the counter: a lone step runs its graph on its own thread.
StartCall(c) ==
  /\ pc[c] = "step"
  /\ \E k \in Ops : op' = [op EXCEPT ![c] = k]
  /\ answer' = [answer EXCEPT ![c] = Pending(c)]
  /\ IF admitted = 1
     THEN pc' = [pc EXCEPT ![c] = "lone"] /\ UNCHANGED older
     ELSE pc' = [pc EXCEPT ![c] = "enqueue"] /\ older' = older \cup (Made \X {c})
  /\ UNCHANGED <<admissionVars, queue, spc, schedulerVars, taskVars, executorVars, shutdownVars>>

EnterInline(c) ==
  /\ pc[c] = "lone" /\ MuFree
  /\ pc' = [pc EXCEPT ![c] = "inline"]
  /\ UNCHANGED <<streamVars, admissionVars, queueVars, spc, schedulerVars,
                 taskVars, executorVars, shutdownVars>>

Answer(c, kind) == answer' = [answer EXCEPT ![c] = [kind |-> kind, of |-> c]]

InlineDone(c) ==
  /\ pc[c] = "inline"
  /\ \E kind \in {"value", "error"} : Answer(c, kind)
  /\ pc' = [pc EXCEPT ![c] = "waiting"]
  /\ UNCHANGED <<op, admissionVars, queueVars, spc, schedulerVars, taskVars,
                 executorVars, shutdownVars>>

Enqueue(c) ==
  /\ pc[c] = "enqueue" /\ MuFree
  /\ IF Cardinality(Ready) >= MaxDepth
     THEN /\ Answer(c, "error")
          /\ pc' = [pc EXCEPT ![c] = "waiting"]
          /\ Forget({c})
          /\ UNCHANGED queue
     ELSE /\ queue' = [queue EXCEPT ![op[c]] = Append(@, c)]
          /\ pc' = [pc EXCEPT ![c] = "notify"]
          /\ UNCHANGED <<answer, older>>
  /\ UNCHANGED <<op, admissionVars, spc, schedulerVars, taskVars, executorVars, shutdownVars>>

\* Mutant of NotifyScheduler: only the first job of the queues notifies.
NotifyFirstOnly(c) ==
  /\ pc[c] = "notify"
  /\ pc' = [pc EXCEPT ![c] = "waiting"]
  /\ IF Cardinality(Ready) = 1 THEN Wake ELSE UNCHANGED spc
  /\ UNCHANGED <<streamVars, admissionVars, queueVars, schedulerVars, taskVars,
                 executorVars, shutdownVars>>

NotifyScheduler(c) ==
  /\ pc[c] = "notify"
  /\ pc' = [pc EXCEPT ![c] = "waiting"]
  /\ Wake
  /\ UNCHANGED <<streamVars, admissionVars, queueVars, schedulerVars, taskVars,
                 executorVars, shutdownVars>>

\* result.get(): an error unwinds the decode step.
Return(c) ==
  /\ pc[c] = "waiting" /\ answer[c].kind # "pending"
  /\ pc' = [pc EXCEPT ![c] = IF answer[c].kind = "value" THEN "step" ELSE "failed"]
  /\ answer' = [answer EXCEPT ![c] = Pending(c)]
  /\ op' = [op EXCEPT ![c] = DefaultOp]
  /\ UNCHANGED <<admissionVars, queueVars, spc, schedulerVars, taskVars,
                 executorVars, shutdownVars>>
-----------------------------------------------------------------------------
(* The scheduler: scheduler_loop().                                        *)

Count(k)   == Len(queue[k])
Candidates == {k \in Ops : Count(k) > 0}
Full       == {k \in Candidates : Count(k) >= MaxBatch}

\* k's front job was made before that of every other queue in K.
Before(k, j)   == <<Head(queue[k]), Head(queue[j])>> \in older
OldestOf(k, K) == \A j \in K \ {k} : Before(k, j)
Largest == {k \in Candidates : \A j \in Candidates : Count(j) <= Count(k)}

\* cv_.wait, with its predicate.
SchedulerCheck ==
  /\ spc = "check"
  /\ IF stopping /\ Ready = {}
     THEN /\ spc' = "exited" /\ scheduled' = TRUE /\ WakeAll
     ELSE /\ spc' = IF Ready # {} /\ flying < Cardinality(Executors) THEN "pick" ELSE "asleep"
          /\ UNCHANGED <<scheduled, epc>>
  /\ UNCHANGED <<pc, streamVars, admissionVars, queueVars, schedulerVars,
                 taskVars, work, results, stopping, closer>>

\* The inner loop reads the counter, which mu_ does not protect.
ReadAdmitted ==
  /\ spc = "pick"
  /\ sadm' = admitted
  /\ spc' = "decide"
  /\ UNCHANGED <<pc, streamVars, admissionVars, queueVars, late, taskVars,
                 executorVars, shutdownVars>>

Blocked == Cardinality(Ready) + items          \* jobs ready or in flight

BatchSize(k) == IF Count(k) < MaxBatch THEN Count(k) ELSE MaxBatch
Take(k)      == SubSeq(queue[k], 1, BatchSize(k))

Dispatch(k) ==
  /\ queue' = [queue EXCEPT ![k] = SubSeq(@, BatchSize(k) + 1, Count(k))]
  /\ Forget(ToSet(Take(k)))
  /\ tasks' = Append(tasks, Take(k))
  /\ items' = items + BatchSize(k)
  /\ flying' = flying + 1
  /\ spc' = "handoff"
  /\ late' = FALSE
  /\ sadm' = 0

ReadySet == sadm > 0 /\ Blocked >= sadm

\* Mutant of Choose: among the largest queues the youngest is preferred.
ChooseYoungest(k) ==
  IF Full # {} THEN k \in Full /\ OldestOf(k, Full)
  ELSE IF ReadySet
       THEN /\ k \in Largest
            /\ \A j \in Largest \ {k} : Before(j, k)
  ELSE late /\ OldestOf(k, Candidates)

\* Capacity, then the ready set, then age.
Choose(k) ==
  IF Full # {} THEN k \in Full /\ OldestOf(k, Full)
  ELSE IF ReadySet THEN k \in Largest /\ OldestOf(k, Largest)
  ELSE late /\ OldestOf(k, Candidates)

Decide ==
  /\ spc = "decide"
  /\ \/ \E k \in Candidates : Choose(k) /\ Dispatch(k)
     \/ /\ ~\E k \in Candidates : Choose(k)
        /\ spc' = "dozing"
        /\ sadm' = 0
        /\ UNCHANGED <<queueVars, late, taskVars>>
  /\ UNCHANGED <<pc, streamVars, admissionVars, executorVars, shutdownVars>>

\* The oldest job has waited max_queue_delay_us: wait_until returns, or the
\* clock is found to be past the deadline.
Deadline ==
  /\ spc \in {"pick", "dozing"} /\ ~late
  /\ late' = TRUE
  /\ spc' = "pick"
  /\ UNCHANGED <<pc, streamVars, admissionVars, queueVars, sadm, taskVars,
                 executorVars, shutdownVars>>

Handoff ==
  /\ spc = "handoff"
  /\ WakeOne
  /\ spc' = "check"
  /\ UNCHANGED <<pc, streamVars, admissionVars, queueVars, schedulerVars,
                 taskVars, work, results, shutdownVars>>
-----------------------------------------------------------------------------
(* An executor: executor_loop() and execute_task().                        *)

ExecutorCheck(e) ==
  /\ epc[e] = "check" /\ MuFree
  /\ IF tasks # <<>>
     THEN /\ work' = [work EXCEPT ![e] = Head(tasks)]
          /\ tasks' = Tail(tasks)
          /\ epc' = [epc EXCEPT ![e] = "run"]
     ELSE /\ epc' = [epc EXCEPT ![e] = IF scheduled THEN "exited" ELSE "asleep"]
          /\ UNCHANGED <<work, tasks>>
  /\ UNCHANGED <<pc, streamVars, admissionVars, queueVars, spc, schedulerVars,
                 items, flying, results, shutdownVars>>

\* Mutant of Run: the result rows are read back in the reverse order.
RunReversed(e) ==
  /\ epc[e] = "run"
  /\ \E kind \in {"value", "error"} :
       results' = [results EXCEPT ![e] =
                     [i \in DOMAIN work[e] |-> [kind |-> kind, of |-> Reverse(work[e])[i]]]]
  /\ epc' = [epc EXCEPT ![e] = "finish"]
  /\ UNCHANGED <<pc, streamVars, admissionVars, queueVars, spc, schedulerVars,
                 taskVars, work, shutdownVars>>

\* The graph runs, or throws: every job of the task shares its fate.
Run(e) ==
  /\ epc[e] = "run"
  /\ \E kind \in {"value", "error"} :
       results' = [results EXCEPT ![e] =
                     [i \in DOMAIN work[e] |-> [kind |-> kind, of |-> work[e][i]]]]
  /\ epc' = [epc EXCEPT ![e] = "finish"]
  /\ UNCHANGED <<pc, streamVars, admissionVars, queueVars, spc, schedulerVars,
                 taskVars, work, shutdownVars>>

\* finish_task(): the places are given back before any promise is resolved.
FinishTask(e) ==
  /\ epc[e] = "finish" /\ MuFree
  /\ items' = items - Len(work[e])
  /\ flying' = flying - 1
  /\ epc' = [epc EXCEPT ![e] = "announce"]
  /\ UNCHANGED <<pc, streamVars, admissionVars, queueVars, spc, schedulerVars,
                 tasks, work, results, shutdownVars>>

AnnounceFinish(e) ==
  /\ epc[e] = "announce"
  /\ Wake
  /\ epc' = [epc EXCEPT ![e] = "resolve"]
  /\ UNCHANGED <<pc, streamVars, admissionVars, queueVars, schedulerVars,
                 taskVars, work, results, shutdownVars>>

Resolve(e) ==
  /\ epc[e] = "resolve"
  /\ answer' = [answer EXCEPT ![Head(work[e])] = Head(results[e])]
  /\ work' = [work EXCEPT ![e] = Tail(@)]
  /\ results' = [results EXCEPT ![e] = Tail(@)]
  /\ epc' = [epc EXCEPT ![e] = IF Len(work[e]) = 1 THEN "check" ELSE "resolve"]
  /\ UNCHANGED <<pc, op, admissionVars, queueVars, spc, schedulerVars, taskVars, shutdownVars>>
-----------------------------------------------------------------------------
(* The destructor: shutdown(), once no stream is left.                     *)

BeginShutdown ==
  /\ closer = "idle" /\ MuFree
  /\ \A c \in Streams : pc[c] = "out"
  /\ stopping' = TRUE
  /\ closer' = "notify"
  /\ UNCHANGED <<pc, streamVars, admissionVars, queueVars, spc, schedulerVars,
                 taskVars, executorVars, scheduled>>

\* Mutant of NotifyShutdown: the scheduler is not notified.
NotifyShutdownSilent ==
  /\ closer = "notify"
  /\ closer' = "join"
  /\ UNCHANGED <<pc, streamVars, admissionVars, queueVars, spc, schedulerVars, taskVars,
                 executorVars, stopping, scheduled>>

NotifyShutdown ==
  /\ closer = "notify"
  /\ Wake
  /\ closer' = "join"
  /\ UNCHANGED <<pc, streamVars, admissionVars, queueVars, schedulerVars, taskVars,
                 executorVars, stopping, scheduled>>

JoinScheduler ==
  /\ closer = "join" /\ spc = "exited"
  /\ WakeAll
  /\ closer' = "joining"
  /\ UNCHANGED <<pc, streamVars, admissionVars, queueVars, spc, schedulerVars, taskVars,
                 work, results, stopping, scheduled>>

JoinExecutors ==
  /\ closer = "joining" /\ \A e \in Executors : epc[e] = "exited"
  /\ closer' = "returned"
  /\ UNCHANGED <<pc, streamVars, admissionVars, queueVars, spc, schedulerVars, taskVars,
                 executorVars, stopping, scheduled>>
-----------------------------------------------------------------------------
StreamNext(c) ==
  \/ BeginAlone(c) \/ BeginInWave(c) \/ WaveDeadline(c) \/ CloseWave(c)
  \/ Announce(c) \/ ResumeWave(c) \/ EndStep(c) \/ Farewell(c)
  \/ StartCall(c) \/ EnterInline(c) \/ InlineDone(c) \/ Enqueue(c) \/ NotifyScheduler(c) \/ Return(c)

SchedulerStep  == SchedulerCheck \/ ReadAdmitted \/ Decide \/ Handoff
ExecutorStep(e) ==
  \/ ExecutorCheck(e) \/ Run(e) \/ FinishTask(e) \/ AnnounceFinish(e) \/ Resolve(e)
Shutdown == BeginShutdown \/ NotifyShutdown \/ JoinScheduler \/ JoinExecutors

\* The scheduler is gone: nothing is left to do.
Terminated == closer = "returned" /\ UNCHANGED vars

Next ==
  \/ \E c \in Streams : StreamNext(c)
  \/ SchedulerStep \/ Deadline
  \/ \E e \in Executors : ExecutorStep(e)
  \/ Shutdown \/ Terminated

(* Threads run, callbacks return and locks are granted: mu_ may be busy    *)
(* whenever a thread wants it, but not for ever. Streams that owe a        *)
(* notification deliver it. No timer has to fire.                          *)
Fairness ==
  /\ WF_vars(SchedulerStep)
  /\ \A e \in Executors : SF_vars(ExecutorCheck(e)) /\ SF_vars(FinishTask(e))
                          /\ WF_vars(Run(e) \/ AnnounceFinish(e) \/ Resolve(e))
  /\ \A c \in Streams : WF_vars(NotifyScheduler(c)) /\ WF_vars(Farewell(c))
                        /\ WF_vars(Announce(c)) /\ WF_vars(ResumeWave(c))
  /\ WF_vars(NotifyShutdown \/ JoinScheduler \/ JoinExecutors)

(* A deadline is a point in time: the loop reads the clock in each turn,   *)
(* so that other notifications cannot put it off for ever.                 *)
TimerFires == SF_vars(Deadline)

Spec == Init /\ [][Next]_vars /\ Fairness
-----------------------------------------------------------------------------
Admitted(c) == pc[c] \notin {"out", "wave", "timedout", "farewell"}
Flying      == {e \in Executors : epc[e] \in {"run", "finish"}}
InFlight    == (UNION {ToSet(work[e]) : e \in Flying}) \cup (UNION {ToSet(t) : t \in ToSet(tasks)})
Held(c)     == \/ c \in Ready \/ \E e \in Executors : c \in ToSet(work[e])
               \/ \E t \in ToSet(tasks) : c \in ToSet(t)
IsBlocked(c) == pc[c] \in {"notify", "waiting"} /\ answer[c].kind = "pending"
AllBlocked  == admitted > 0 /\ Blocked >= admitted

(* Every variable keeps its type; the ready queues never exceed            *)
(* max_queue_depth, and no more tasks are under way than executors.        *)
TypeOK ==
  /\ pc \in [Streams -> {"out", "wave", "timedout", "woken", "publish", "announce", "step",
                         "lone", "inline", "enqueue", "notify", "waiting", "failed",
                         "farewell"}]
  /\ op \in [Streams -> Ops]
  /\ answer \in [Streams -> [kind : {"pending", "value", "error"}, of : Streams]]
  /\ admitted \in Nat /\ wtarget \in 0 .. MaxBatch
  /\ queue \in [Ops -> Seq(Streams)] /\ Cardinality(Ready) <= MaxDepth
  /\ older \subseteq Streams \X Streams
  /\ spc \in {"check", "asleep", "pick", "decide", "dozing", "handoff", "exited"}
  /\ sadm \in Nat /\ late \in BOOLEAN
  /\ tasks \in Seq(Seq(Streams)) /\ items \in Nat
  /\ flying \in 0 .. Cardinality(Executors)
  /\ epc \in [Executors -> {"check", "asleep", "run", "finish", "announce", "resolve", "exited"}]
  /\ work \in [Executors -> Seq(Streams)]
  /\ results \in [Executors -> Seq([kind : {"value", "error"}, of : Streams])]
  /\ stopping \in BOOLEAN /\ scheduled \in BOOLEAN
  /\ closer \in {"idle", "notify", "join", "joining", "returned"}

(* The jobs and the counts of them agree, whatever waves form, time out or *)
(* fail: admitted_decode_steps_ counts the streams between begin and end,  *)
(* items_in_flight_ those whose job is dispatched, so that the ready-set   *)
(* rule compares exact numbers; a blocked stream's job is in the hands of  *)
(* somebody, and the jobs of one task are of one queue and no more than a  *)
(* batch holds.                                                            *)
JobsAccounted ==
  /\ admitted = Cardinality({c \in Streams : Admitted(c)})
  /\ items = Cardinality(InFlight)
  /\ flying = Len(tasks) + Cardinality(Flying)
  /\ \A c \in Streams : IsBlocked(c) => Held(c)
  /\ \A t \in ToSet(tasks) \cup {work[e] : e \in Flying} :
       /\ Len(t) \in 1 .. MaxBatch
       /\ \A i, j \in DOMAIN t : op[t[i]] = op[t[j]]

(* No wakeup is lost where the code relies on one: a scheduler that dozes  *)
(* over a full batch, or sleeps over work an executor is free for, is owed *)
(* a notification; a task that waits has an executor that is awake, or     *)
(* about to be woken, and not busy with another.                           *)
NobodySleepsOnWork ==
  /\ spc = "dozing" /\ Full # {} => \E c \in Streams : pc[c] = "notify"
  /\ spc = "asleep" /\ Ready # {} /\ flying < Cardinality(Executors)
       => \/ \E c \in Streams : pc[c] = "notify"
          \/ \E e \in Executors : epc[e] = "announce"
  /\ Len(tasks) <= Cardinality({e \in Executors : epc[e] \in {"check", "announce", "resolve"}})
                   + (IF spc = "handoff" THEN 1 ELSE 0)

(* With the timer, every call is answered: no operation starves another.   *)
EveryCallAnswered == TimerFires => \A c \in Streams : IsBlocked(c) ~> ~IsBlocked(c)

(* A shutdown that has begun joins every thread.                           *)
ShutdownEnds == (closer = "notify") ~> (closer = "returned")

(* When every admitted step is blocked on a ready or a dispatched job, the *)
(* scheduler launches one without waiting for the queue timer.             *)
ReadySetNeedsNoTimer == (spc = "dozing" /\ AllBlocked) ~> (spc # "dozing")

(* Streams see the same service as with a MicroBatcher.                    *)
status == [c \in Streams |->
             IF pc[c] \in {"inline", "notify", "waiting"}
             THEN IF answer[c].kind = "pending" THEN "accepted" ELSE "answered"
             ELSE IF pc[c] \in {"lone", "enqueue"} THEN "offered" ELSE "idle"]

Service == INSTANCE BatchService WITH
  Callers <- Streams, Epochs <- 1,
  call <- [c \in Streams |-> 0],
  answer <- [c \in Streams |-> [kind |-> answer[c].kind, req |-> <<answer[c].of, 0>>]],
  closed <- closer = "returned"

ImplementsService == Service!Spec
=============================================================================
