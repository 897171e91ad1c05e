---------------------------- MODULE MicroBatcher ----------------------------
(***************************************************************************)
(* The dynamic microbatcher of src/src/asr/batching.h: synchronous callers *)
(* (run), one worker thread (worker_loop) and shutdown.                    *)
(*                                                                         *)
(* Two locks are modelled through the program counters that hold them.     *)
(* lifecycle_mu_ is held shared by the callers whose pc is "inline" and    *)
(* exclusively by the closers in "notify" and "join"; mu_ is held across   *)
(* more than one action only by the worker's collecting loop ("scan").     *)
(* The condition variable is explicit: a notification reaches the worker   *)
(* only while it sleeps ("asleep" in wait, "dozing" in wait_until).        *)
(***************************************************************************)
EXTENDS Naturals, Sequences, FiniteSets, SequencesExt

CONSTANTS Callers,    \* threads that call run()
          Closers,    \* threads that call shutdown()
          Keys,       \* compatibility keys
          Args,       \* Args[c]: the pairs <<key, target_batch_size>> that c
                      \* calls run() with; a target of 0 is "no hint"
          MaxBatch,   \* cfg_.max_batch_size
          MaxDepth,   \* cfg_.max_queue_depth
          Epochs      \* bound: call numbers are counted modulo Epochs

ASSUME ConfigAssumption ==       \* what sanitize() establishes
  /\ MaxBatch \in Nat /\ MaxBatch >= 1
  /\ MaxDepth \in Nat /\ MaxDepth >= MaxBatch
  /\ Keys # {}
  /\ Args \in [Callers -> SUBSET (Keys \X Nat)]
  /\ Epochs \in Nat /\ Epochs >= 1

VARIABLES
  pc,         \* pc[c]: where caller c is in run()
  call,       \* call[c]: number of its current call
  key, hint,  \* key[c], hint[c]: arguments of that call
  answer,     \* answer[c]: its promise, or the value run() will return
  queue,      \* queue_: the jobs that wait, in arrival order
  stopping,   \* stopping_
  wpc,        \* where the worker is; "absent" when batching is disabled
  wkey,       \* the worker's key
  wtarget,    \* the worker's target
  scan,       \* the worker's iterator over queue_
  batch,      \* the worker's jobs, the resolved ones removed
  results,    \* what run_batch_ returned for them, or the exception
  closer      \* closer[x]: where x is in shutdown()

callVars   == <<call, key, hint>>
workVars   == <<wkey, wtarget, scan, batch, results>>
vars == <<pc, call, key, hint, answer, queue, stopping, wpc, wkey, wtarget,
          scan, batch, results, closer>>

Request == Callers \X (0 .. Epochs - 1)
Answer  == [kind : {"pending", "value", "error"}, req : Request]

Current(c) == <<c, call[c]>>
Pending(c) == [kind |-> "pending", req |-> Current(c)]
Error(c)   == [kind |-> "error",   req |-> Current(c)]
Value(c)   == [kind |-> "value",   req |-> Current(c)]

DefaultKey == CHOOSE k \in Keys : TRUE        \* Key key{}

\* The job's target_batch_size.
TargetOf(c) ==
  IF hint[c] > 0 /\ hint[c] < MaxBatch THEN hint[c] ELSE MaxBatch

KeyOf(job)  == key[job[1]]
WorkerJoinable == wpc # "absent" /\ \A x \in Closers : closer[x] # "returned"
Exclusive  == \E x \in Closers : closer[x] \in {"notify", "join"}
MuFree     == wpc # "scan"

Compatible(k) == {i \in DOMAIN queue : KeyOf(queue[i]) = k}
Enough(k, t)  == Cardinality(Compatible(k)) >= t

\* A notification on cv_: only a sleeping worker hears it.
Wake == wpc' = IF wpc = "asleep" THEN "check"
               ELSE IF wpc = "dozing" THEN "recheck" ELSE wpc

Init ==
  /\ pc = [c \in Callers |-> "idle"]
  /\ call = [c \in Callers |-> 0]
  /\ key = [c \in Callers |-> DefaultKey]
  /\ hint = [c \in Callers |-> 0]
  /\ answer = [c \in Callers |-> [kind |-> "pending", req |-> <<c, 0>>]]
  /\ queue = <<>>
  /\ stopping = FALSE
  /\ wpc \in IF MaxBatch > 1 THEN {"check", "absent"} ELSE {"absent"}
  /\ wkey = DefaultKey /\ wtarget = 0 /\ scan = 1
  /\ batch = <<>> /\ results = <<>>
  /\ closer = [x \in Closers |-> "idle"]

-----------------------------------------------------------------------------
(* The caller's thread: run() and run_inline().                            *)

Begin(c) ==
  /\ pc[c] = "idle"
  /\ pc' = [pc EXCEPT ![c] = "enter"]
  /\ call' = [call EXCEPT ![c] = (@ + 1) % Epochs]
  /\ \E a \in Args[c] :
       key' = [key EXCEPT ![c] = a[1]] /\ hint' = [hint EXCEPT ![c] = a[2]]
  /\ answer' = [answer EXCEPT ![c] = Pending(c)']
  /\ UNCHANGED <<queue, stopping, wpc, workVars, closer>>

Refuse(c) ==      \* run() throws
  /\ answer' = [answer EXCEPT ![c] = Error(c)]
  /\ pc' = [pc EXCEPT ![c] = "waiting"]
  /\ UNCHANGED queue

\* No worker thread, or a cohort of one: check stopping_ and run the callback
\* on this thread, under the shared lifecycle lock.
EnterInline(c) ==
  /\ pc[c] = "enter" /\ ~Exclusive /\ MuFree
  /\ ~WorkerJoinable \/ hint[c] = 1
  /\ \/ stopping  /\ Refuse(c)
     \/ ~stopping /\ pc' = [pc EXCEPT ![c] = "inline"] /\ UNCHANGED <<answer, queue>>
  /\ UNCHANGED <<callVars, stopping, wpc, workVars, closer>>

\* The callback returns one result, or throws, and the lock is released.
InlineDone(c) ==
  /\ pc[c] = "inline"
  /\ \E a \in {Value(c), Error(c)} : answer' = [answer EXCEPT ![c] = a]
  /\ pc' = [pc EXCEPT ![c] = "waiting"]
  /\ UNCHANGED <<callVars, queue, stopping, wpc, workVars, closer>>

\* The queued path takes the lifecycle lock only to look at worker_.
EnterQueued(c) ==
  /\ pc[c] = "enter" /\ ~Exclusive
  /\ WorkerJoinable /\ hint[c] # 1
  /\ pc' = [pc EXCEPT ![c] = "enqueue"]
  /\ UNCHANGED <<callVars, answer, queue, stopping, wpc, workVars, closer>>

Enqueue(c) ==
  /\ pc[c] = "enqueue" /\ MuFree
  /\ IF stopping \/ Len(queue) >= MaxDepth
     THEN Refuse(c)
     ELSE /\ queue' = Append(queue, Current(c))
          /\ pc' = [pc EXCEPT ![c] = "notify"]
          /\ UNCHANGED answer
  /\ UNCHANGED <<callVars, stopping, wpc, workVars, closer>>

\* Mutant of NotifyWorker: only the first job of the queue notifies.
NotifyFirstOnly(c) ==
  /\ pc[c] = "notify"
  /\ pc' = [pc EXCEPT ![c] = "waiting"]
  /\ IF Len(queue) = 1 THEN Wake ELSE UNCHANGED wpc
  /\ UNCHANGED <<callVars, answer, queue, stopping, workVars, closer>>

NotifyWorker(c) ==
  /\ pc[c] = "notify"
  /\ pc' = [pc EXCEPT ![c] = "waiting"]
  /\ Wake
  /\ UNCHANGED <<callVars, answer, queue, stopping, workVars, closer>>

\* future.get() returns or throws. The call's locals die with it.
Return(c) ==
  /\ pc[c] = "waiting" /\ answer[c].kind # "pending"
  /\ pc' = [pc EXCEPT ![c] = "idle"]
  /\ answer' = [answer EXCEPT ![c] = Pending(c)]
  /\ key' = [key EXCEPT ![c] = DefaultKey]
  /\ hint' = [hint EXCEPT ![c] = 0]
  /\ UNCHANGED <<call, queue, stopping, wpc, workVars, closer>>
-----------------------------------------------------------------------------
(* The worker thread: worker_loop().                                       *)

\* Mutant of WorkerCheck: a stopped worker leaves its queue behind.
WorkerCheckNoDrain ==
  /\ wpc = "check"
  /\ IF queue = <<>> \/ stopping
     THEN /\ wpc' = IF stopping THEN "exited" ELSE "asleep"
          /\ UNCHANGED <<wkey, wtarget>>
     ELSE LET c == Head(queue)[1] IN
          /\ wkey' = key[c]
          /\ wtarget' = TargetOf(c)
          /\ wpc' = IF Enough(key[c], TargetOf(c)) THEN "scan" ELSE "dozing"
  /\ UNCHANGED <<pc, callVars, answer, queue, stopping, scan, batch, results, closer>>

\* Mutant of WorkerCheck: the round is built around the newest job.
WorkerCheckNewest ==
  /\ wpc = "check"
  /\ IF queue = <<>>
     THEN /\ wpc' = IF stopping THEN "exited" ELSE "asleep"
          /\ UNCHANGED <<wkey, wtarget>>
     ELSE LET c == Last(queue)[1] IN
          /\ wkey' = key[c]
          /\ wtarget' = TargetOf(c)
          /\ wpc' = IF stopping \/ Enough(key[c], TargetOf(c)) THEN "scan" ELSE "dozing"
  /\ UNCHANGED <<pc, callVars, answer, queue, stopping, scan, batch, results, closer>>

\* cv_.wait(stopping_ || !queue_.empty()), then the first evaluation of the
\* predicate of cv_.wait_until, all under one hold of mu_.
WorkerCheck ==
  /\ wpc = "check"
  /\ IF queue = <<>>
     THEN /\ wpc' = IF stopping THEN "exited" ELSE "asleep"
          /\ UNCHANGED <<wkey, wtarget>>
     ELSE LET c == Head(queue)[1] IN
          /\ wkey' = key[c]
          /\ wtarget' = TargetOf(c)
          /\ wpc' = IF stopping \/ Enough(key[c], TargetOf(c)) THEN "scan" ELSE "dozing"
  /\ UNCHANGED <<pc, callVars, answer, queue, stopping, scan, batch, results, closer>>

WorkerRecheck ==
  /\ wpc = "recheck"
  /\ wpc' = IF stopping \/ Enough(wkey, wtarget) THEN "scan" ELSE "dozing"
  /\ UNCHANGED <<pc, callVars, answer, queue, stopping, workVars, closer>>

\* wait_until gives up: the front job is max_queue_delay_us old.
Deadline ==
  /\ wpc = "dozing"
  /\ wpc' = "scan"
  /\ UNCHANGED <<pc, callVars, answer, queue, stopping, workVars, closer>>

\* Mutant of Collect: the job is copied but not erased from the queue.
CollectNoErase ==
  /\ wpc = "scan" /\ scan <= Len(queue) /\ Len(batch) < MaxBatch
  /\ batch' = IF KeyOf(queue[scan]) = wkey THEN Append(batch, queue[scan]) ELSE batch
  /\ scan' = scan + 1
  /\ UNCHANGED <<pc, callVars, answer, queue, stopping, wpc, wkey, wtarget, results, closer>>

\* One iteration of the loop that moves jobs of wkey from queue_ to jobs.
Collect ==
  /\ wpc = "scan" /\ scan <= Len(queue) /\ Len(batch) < MaxBatch
  /\ IF KeyOf(queue[scan]) = wkey
     THEN /\ batch' = Append(batch, queue[scan])
          /\ queue' = RemoveAt(queue, scan)
          /\ UNCHANGED scan
     ELSE scan' = scan + 1 /\ UNCHANGED <<batch, queue>>
  /\ UNCHANGED <<pc, callVars, answer, stopping, wpc, wkey, wtarget, results, closer>>

Collected ==
  /\ wpc = "scan" /\ (scan > Len(queue) \/ Len(batch) >= MaxBatch)
  /\ wpc' = "run"
  /\ scan' = 1
  /\ UNCHANGED <<pc, callVars, answer, queue, stopping, wkey, wtarget, batch, results, closer>>

\* Mutant of Execute: results are split off the batch in the opposite order.
ExecuteReversed ==
  /\ wpc = "run"
  /\ \E kind \in {"value", "error"} :
       results' = [i \in DOMAIN batch |-> [kind |-> kind, req |-> Reverse(batch)[i]]]
  /\ wpc' = "resolve"
  /\ UNCHANGED <<pc, callVars, answer, queue, stopping, wkey, wtarget, scan, batch, closer>>

\* run_batch_ returns one result per request, in their order; or it throws, or
\* returns another number of results, and every job gets the exception.
Execute ==
  /\ wpc = "run"
  /\ \E kind \in {"value", "error"} :
       results' = [i \in DOMAIN batch |-> [kind |-> kind, req |-> batch[i]]]
  /\ wpc' = "resolve"
  /\ UNCHANGED <<pc, callVars, answer, queue, stopping, wkey, wtarget, scan, batch, closer>>

\* set_value or set_exception on the next promise.
Resolve ==
  /\ wpc = "resolve" /\ batch # <<>>
  /\ answer' = [answer EXCEPT ![Head(batch)[1]] = Head(results)]
  /\ batch' = Tail(batch)
  /\ results' = Tail(results)
  /\ UNCHANGED <<pc, callVars, queue, stopping, wpc, wkey, wtarget, scan, closer>>

\* The next turn of the outer loop, with fresh locals.
NextRound ==
  /\ wpc = "resolve" /\ batch = <<>>
  /\ wpc' = "check"
  /\ wkey' = DefaultKey /\ wtarget' = 0
  /\ UNCHANGED <<pc, callVars, answer, queue, stopping, scan, batch, results, closer>>
-----------------------------------------------------------------------------
(* The thread that shuts the batcher down: shutdown(), ~MicroBatcher().    *)

NoInline == \A c \in Callers : pc[c] # "inline"

BeginShutdown(x) ==
  /\ closer[x] = "idle" /\ ~Exclusive /\ NoInline /\ MuFree
  /\ \/ stopping  /\ closer' = [closer EXCEPT ![x] = "returned"]
     \/ ~stopping /\ closer' = [closer EXCEPT ![x] = "notify"]
  /\ stopping' = TRUE
  /\ UNCHANGED <<pc, callVars, answer, queue, wpc, workVars>>

\* Mutant of NotifyShutdown: notify_all is forgotten.
NotifyShutdownSilent(x) ==
  /\ closer[x] = "notify"
  /\ closer' = [closer EXCEPT ![x] = "join"]
  /\ UNCHANGED <<pc, callVars, answer, queue, stopping, wpc, workVars>>

NotifyShutdown(x) ==
  /\ closer[x] = "notify"
  /\ closer' = [closer EXCEPT ![x] = "join"]
  /\ Wake
  /\ UNCHANGED <<pc, callVars, answer, queue, stopping, workVars>>

Join(x) ==
  /\ closer[x] = "join" /\ wpc \in {"exited", "absent"}
  /\ closer' = [closer EXCEPT ![x] = "returned"]
  /\ UNCHANGED <<pc, callVars, answer, queue, stopping, wpc, workVars>>
-----------------------------------------------------------------------------
CallerNext(c) ==
  \/ Begin(c) \/ EnterInline(c) \/ InlineDone(c) \/ EnterQueued(c)
  \/ Enqueue(c) \/ NotifyWorker(c) \/ Return(c)

WorkerStep ==
  \/ WorkerCheck \/ WorkerRecheck \/ Collect \/ Collected
  \/ Execute \/ Resolve \/ NextRound

CloserNext(x) == BeginShutdown(x) \/ NotifyShutdown(x) \/ Join(x)

Next ==
  \/ \E c \in Callers : CallerNext(c)
  \/ WorkerStep
  \/ Deadline
  \/ \E x \in Closers : CloserNext(x)

(* The worker never stops running, a thread that owes a notification or a *)
(* join delivers it, callbacks return. Nobody is obliged to call run() or *)
(* shutdown(), and the timer is left out: TimerFires adds it.             *)
Fairness ==
  /\ WF_vars(WorkerStep)
  /\ \A c \in Callers : WF_vars(NotifyWorker(c)) /\ WF_vars(InlineDone(c))
  /\ \A x \in Closers : WF_vars(NotifyShutdown(x)) /\ WF_vars(Join(x))

TimerFires == WF_vars(Deadline)

Spec == Init /\ [][Next]_vars /\ Fairness
-----------------------------------------------------------------------------
(* Every variable keeps its type, and the queue never exceeds              *)
(* max_queue_depth nor a batch max_batch_size.                             *)
TypeOK ==
  /\ pc \in [Callers -> {"idle", "enter", "inline", "enqueue", "notify", "waiting"}]
  /\ call \in [Callers -> 0 .. Epochs - 1]
  /\ key \in [Callers -> Keys]
  /\ hint \in [Callers -> Nat]
  /\ answer \in [Callers -> Answer]
  /\ queue \in Seq(Request) /\ Len(queue) <= MaxDepth
  /\ stopping \in BOOLEAN
  /\ wpc \in {"absent", "check", "asleep", "dozing", "recheck", "scan", "run",
              "resolve", "exited"}
  /\ wkey \in Keys /\ wtarget \in Nat /\ scan \in Nat \ {0}
  /\ batch \in Seq(Request) /\ Len(batch) <= MaxBatch
  /\ results \in Seq(Answer)
  /\ closer \in [Closers -> {"idle", "notify", "join", "returned"}]

Queued(c)  == \E i \in DOMAIN queue : queue[i] = Current(c)
Batched(c) == \E i \in DOMAIN batch : batch[i] = Current(c)
Blocked(c) == pc[c] \in {"notify", "waiting"} /\ answer[c].kind = "pending"

(* A caller blocked on its future has its job in queue_ or in the worker's *)
(* hands, and in one of them only: no hand-over loses or duplicates a job. *)
NoLostCall ==
  \A c \in Callers :
    /\ Blocked(c) => Queued(c) \/ Batched(c)
    /\ ~(Queued(c) /\ Batched(c))

(* Once any shutdown() has returned, the owner may be destroyed: no        *)
(* callback runs on a caller or on the worker, and nobody is left blocked. *)
QuiescentAfterShutdown ==
  (\E x \in Closers : closer[x] = "returned") =>
    /\ wpc \in {"exited", "absent"}
    /\ \A c \in Callers : pc[c] # "inline" /\ ~Blocked(c)

(* The strengthening that makes NoLostCall and QuiescentAfterShutdown      *)
(* inductive. A job is known by its caller: each is its caller's current   *)
(* call, unanswered, and is held once.                                     *)
JobsAreCurrent ==
  /\ \A i \in DOMAIN queue : queue[i] = Current(queue[i][1]) /\ Blocked(queue[i][1])
  /\ \A i \in DOMAIN batch : batch[i] = Current(batch[i][1]) /\ Blocked(batch[i][1])

JobsAreDistinct ==
  /\ \A i, j \in DOMAIN queue : queue[i][1] = queue[j][1] => i = j
  /\ \A i, j \in DOMAIN batch : batch[i][1] = batch[j][1] => i = j
  /\ \A i \in DOMAIN queue, j \in DOMAIN batch : queue[i][1] # batch[j][1]

ResultsMatch ==
  wpc = "resolve" =>
    /\ Len(results) = Len(batch)
    /\ \A i \in DOMAIN batch :
         results[i] \in [kind : {"value", "error"}, req : {batch[i]}]

WorkerPhases ==
  /\ wpc \notin {"scan", "run", "resolve"} => batch = <<>>
  /\ wpc = "exited" => stopping /\ queue = <<>>
  /\ wpc = "absent" => queue = <<>> /\ \A c \in Callers : pc[c] # "enqueue"

CallPhases ==
  \A c \in Callers :
    pc[c] \in {"enter", "enqueue", "inline"} => answer[c] = Pending(c)

ShutdownPhases ==
  /\ stopping <=> \E x \in Closers : closer[x] # "idle"
  /\ Exclusive => NoInline
  /\ (\E x \in Closers : closer[x] = "returned") => wpc \in {"exited", "absent"} /\ NoInline
  /\ stopping /\ ~Exclusive => \E x \in Closers : closer[x] = "returned"

IInv ==
  /\ TypeOK /\ NoLostCall /\ JobsAreCurrent /\ JobsAreDistinct
  /\ ResultsMatch /\ WorkerPhases /\ CallPhases /\ ShutdownPhases

(* With nobody stopping it, a round whose cohort is complete is launched   *)
(* by the arrival of its last member: it does not need the queue timer.    *)
FullCohortLaunches ==
  (wpc = "dozing" /\ Enough(wkey, wtarget)) ~> (wpc = "run")

(* If timers fire, every accepted call is answered, under any load on      *)
(* other keys: the front of the queue is always served next.               *)
EveryCallAnswered ==
  TimerFires => \A c \in Callers : Blocked(c) ~> ~Blocked(c)

(* A shutdown that has begun ends without the timer: it drains the queue.  *)
ShutdownEnds ==
  \A x \in Closers : (closer[x] = "notify") ~> (closer[x] = "returned")

(* The batcher implements the service its callers see.                     *)
status == [c \in Callers |->
             IF pc[c] = "idle" THEN "idle"
             ELSE IF pc[c] \in {"enter", "enqueue"} THEN "offered"
             ELSE IF answer[c].kind = "pending" THEN "accepted" ELSE "answered"]

Service == INSTANCE BatchService WITH
             closed <- \E x \in Closers : closer[x] = "returned"

ImplementsService == Service!Spec
=============================================================================
