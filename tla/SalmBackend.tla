----------------------------- MODULE SalmBackend -----------------------------
(***************************************************************************)
(* The queue in front of the speech-LLM engine: SalmRecognitionBackend of  *)
(* src/src/speechlm/salm_recognizer.cpp. Request threads submit a job and  *)
(* block on its future, looking after their client every kCancelPoll; one  *)
(* worker thread runs SalmEngine::serve over and over.                     *)
(*                                                                         *)
(* The engine is the one ServeContract describes: its steps are conjoined  *)
(* with what the backend does in pull and done. mutex_ is held across      *)
(* actions while the worker fails jobs one by one ("drain", "fail").       *)
(* cv_ is explicit: only a sleeping worker hears a notification.           *)
(***************************************************************************)
EXTENDS Integers, Sequences, FiniteSets, SequencesExt

CONSTANTS Requests,      \* request threads; each submits once
          Cancellable,   \* those that pass AsrRequestOptions::cancelled
          Warmup,        \* the jobs of warmup(), queued together
          MaxDepth       \* max_queue_depth_

ASSUME BackendAssumption ==
  /\ IsFiniteSet(Requests)
  /\ Cancellable \subseteq Requests \ Warmup
  /\ Warmup \subseteq Requests
  /\ MaxDepth \in Nat \ {0}
  /\ Cardinality(Warmup) <= MaxDepth

VARIABLES
  pc,        \* pc[r]: where the thread of request r is
  answer,    \* answer[r]: the promise of its job
  ticket,    \* ticket[r]: the ticket of its job, or None
  queue,     \* queue_
  inflight,  \* in_flight: the pulled jobs, by ticket
  next,      \* next_ticket
  wpc,       \* where the worker is
  closer,    \* where the destructor is: "idle", "notify" or "join"
  open,      \* the engine's view of the source: the last pull returned true
  holds,     \* holds[t]: the request the engine reads for its ticket t
  asked,     \* history: requests whose client went away
  failed,    \* history: a serve() call has thrown
  running, issued, owed, posted, marked   \* the engine, see ServeContract

engine == <<running, issued, owed, posted, marked>>
Engine == INSTANCE ServeContract WITH Tickets <- Nat

vars == <<pc, answer, ticket, queue, inflight, next, wpc, closer, open, holds,
          asked, failed, engine>>
jobVars    == <<answer, ticket, queue>>
serveVars  == <<inflight, next, open, holds>>
history    == <<asked, failed>>

None == -1     \* no ticket

stop   == closer # "idle"          \* stop_
MuFree == wpc \notin {"drain", "fail"}
Wake == wpc' = CASE wpc = "asleep"   -> "run"
                 [] wpc = "pullwait" -> "pull"
                 [] OTHER            -> wpc

Answer(r, kind, of) == answer' = [answer EXCEPT ![r] = [kind |-> kind, of |-> of]]

Init ==
  /\ pc = [r \in Requests |-> "idle"]
  /\ answer = [r \in Requests |-> [kind |-> "pending", of |-> r]]
  /\ ticket = [r \in Requests |-> None]
  /\ queue = <<>>
  /\ inflight = <<>> /\ next = 0 /\ open = FALSE /\ holds = <<>>
  /\ wpc = "run" /\ closer = "idle"
  /\ asked = {} /\ failed = FALSE
  /\ Engine!Init
------------------------------------------------------------------------------
\* submit() and warmup(): a job is built ...
Begin(r) ==
  /\ pc[r] = "idle"
  /\ pc' = [pc EXCEPT ![r] = "submit"]
  /\ UNCHANGED <<jobVars, serveVars, wpc, closer, history, engine>>

\* ... and refused, ...
Refuse(r) ==
  /\ pc[r] = "submit" /\ MuFree
  /\ stop \/ (r \notin Warmup /\ Len(queue) >= MaxDepth)
  /\ Answer(r, "error", r)
  /\ pc' = [pc EXCEPT ![r] = "waiting"]
  /\ UNCHANGED <<ticket, queue, serveVars, wpc, closer, history, engine>>

\* ... or queued; cv_ is notified after mutex_ is released.
Enqueue(r) ==
  /\ pc[r] = "submit" /\ r \notin Warmup /\ MuFree
  /\ ~stop /\ Len(queue) < MaxDepth
  /\ queue' = Append(queue, r)
  /\ pc' = [pc EXCEPT ![r] = "notify"]
  /\ UNCHANGED <<answer, ticket, serveVars, wpc, closer, history, engine>>

Notify(r) ==
  /\ pc[r] = "notify"
  /\ Wake
  /\ pc' = [pc EXCEPT ![r] = "waiting"]
  /\ UNCHANGED <<jobVars, serveVars, closer, history, engine>>

\* Mutant of RunWarmup: stop_ is not looked at.
RunWarmupLate ==
  /\ Warmup # {} /\ \A r \in Warmup : pc[r] = "submit"
  /\ MuFree
  /\ queue' = queue \o SetToSeq(Warmup)
  /\ pc' = [r \in Requests |-> IF r \in Warmup THEN "notify" ELSE pc[r]]
  /\ UNCHANGED <<answer, ticket, serveVars, wpc, closer, history, engine>>

\* warmup() queues its jobs in one go, whatever is queued already, and
\* notifies once; the thread waits for the jobs in turn.
RunWarmup ==
  /\ Warmup # {} /\ \A r \in Warmup : pc[r] = "submit"
  /\ MuFree /\ ~stop
  /\ queue' = queue \o SetToSeq(Warmup)
  /\ pc' = [r \in Requests |-> IF r \in Warmup THEN "notify" ELSE pc[r]]
  /\ UNCHANGED <<answer, ticket, serveVars, wpc, closer, history, engine>>

\* A poll finds the future not ready and the client gone.
Poll(r) ==
  /\ pc[r] = "waiting" /\ r \in Cancellable
  /\ answer[r].kind = "pending"
  /\ pc' = [pc EXCEPT ![r] = "cancel"]
  /\ asked' = asked \cup {r}
  /\ UNCHANGED <<jobVars, serveVars, wpc, closer, failed, engine>>

\* Mutant of CancelQueued: the job stays in the queue.
CancelQueuedKept(r) ==
  /\ pc[r] = "cancel" /\ MuFree
  /\ r \in ToSet(queue)
  /\ Answer(r, "cancelled", r)
  /\ pc' = [pc EXCEPT ![r] = "dropped"]
  /\ UNCHANGED <<ticket, queue, serveVars, wpc, closer, history, engine>>

\* cancel() of a job still in the queue.
CancelQueued(r) ==
  /\ pc[r] = "cancel" /\ MuFree
  /\ \E i \in DOMAIN queue : queue[i] = r /\ queue' = RemoveAt(queue, i)
  /\ Answer(r, "cancelled", r)
  /\ pc' = [pc EXCEPT ![r] = "dropped"]
  /\ UNCHANGED <<ticket, serveVars, wpc, closer, history, engine>>

\* cancel() of a pulled job: the ticket is posted, if the job has one.
CancelPulled(r) ==
  /\ pc[r] = "cancel" /\ MuFree
  /\ r \notin ToSet(queue)
  /\ IF ticket[r] # None THEN Engine!Cancel(ticket[r]) ELSE UNCHANGED engine
  /\ pc' = [pc EXCEPT ![r] = "dropped"]
  /\ UNCHANGED <<jobVars, serveVars, wpc, closer, history>>

\* future.get()
Return(r) ==
  /\ pc[r] \in {"waiting", "dropped"}
  /\ answer[r].kind # "pending"
  /\ pc' = [pc EXCEPT ![r] = "done"]
  /\ UNCHANGED <<jobVars, serveVars, wpc, closer, history, engine>>
------------------------------------------------------------------------------
\* run(): the worker looks at the queue, or sleeps.
WorkerCheck ==
  /\ wpc = "run"
  /\ wpc' = CASE stop             -> "drain"
              [] ~stop /\ queue # <<>> -> "start"
              [] OTHER            -> "asleep"
  /\ UNCHANGED <<pc, jobVars, serveVars, closer, history, engine>>

\* The backend is shutting down: what is queued fails, under mutex_.
Drain ==
  /\ wpc = "drain" /\ queue # <<>>
  /\ Answer(Head(queue), "error", Head(queue))
  /\ queue' = Tail(queue)
  /\ UNCHANGED <<pc, ticket, serveVars, wpc, closer, history, engine>>

Drained ==
  /\ wpc = "drain" /\ queue = <<>>
  /\ wpc' = "exit"
  /\ UNCHANGED <<pc, jobVars, serveVars, closer, history, engine>>

\* serve(): fresh tickets; the engine forgets what was posted before.
StartServe ==
  /\ wpc = "start"
  /\ Engine!Start
  /\ inflight' = <<>> /\ next' = 0
  /\ open' = TRUE /\ holds' = <<>>
  /\ wpc' = "serve"
  /\ UNCHANGED <<pc, jobVars, closer, history>>

\* The i-th job taken gets ticket next + i - 1 from the backend; the engine
\* numbers the requests it is handed on its own.
Ticketed(f, first, n) ==
  [t \in DOMAIN f \cup first .. first + n - 1 |->
     IF t \in DOMAIN f THEN f[t] ELSE queue[t - first + 1]]

\* Mutant of Take: a job is told the ticket of the next one.
TakeOffByOne(n) ==
  /\ Engine!Pull(n)
  /\ ticket' = [r \in Requests |->
       IF \E i \in 1 .. n : queue[i] = r
       THEN next + (CHOOSE i \in 1 .. n : queue[i] = r) ELSE ticket[r]]
  /\ inflight' = Ticketed(inflight, next, n)
  /\ next' = next + n
  /\ holds' = Ticketed(holds, issued, n)
  /\ queue' = SubSeq(queue, n + 1, Len(queue))
  /\ open' = ~stop

\* pull: up to n jobs; false once the backend stops.
Take(n) ==
  /\ Engine!Pull(n)
  /\ ticket' = [r \in Requests |->
       IF \E i \in 1 .. n : queue[i] = r
       THEN next + (CHOOSE i \in 1 .. n : queue[i] = r) - 1 ELSE ticket[r]]
  /\ inflight' = Ticketed(inflight, next, n)
  /\ next' = next + n
  /\ holds' = Ticketed(holds, issued, n)
  /\ queue' = SubSeq(queue, n + 1, Len(queue))
  /\ open' = ~stop

\* The engine takes what it has room for ...
PullNow ==
  /\ wpc = "serve" /\ open
  /\ \/ \E n \in 1 .. Len(queue) : Take(n)
     \/ queue = <<>> /\ stop /\ Take(0)
  /\ UNCHANGED <<pc, answer, wpc, closer, history>>

\* ... and waits for more when it has nothing else to do.
PullIdle ==
  /\ wpc = "serve" /\ open /\ owed = {}
  /\ wpc' = "pull"
  /\ UNCHANGED <<pc, jobVars, serveVars, closer, history, engine>>

PullBlocking ==
  /\ wpc = "pull"
  /\ \/ /\ queue = <<>> /\ ~stop
        /\ wpc' = "pullwait"
        /\ UNCHANGED <<jobVars, serveVars, engine>>
     \/ /\ queue # <<>> \/ stop
        /\ \E n \in 0 .. Len(queue) : (n = 0) = (queue = <<>>) /\ Take(n)
        /\ wpc' = "serve"
        /\ UNCHANGED answer
  /\ UNCHANGED <<pc, closer, history>>

Notice ==
  /\ wpc = "serve" /\ posted # {}
  /\ Engine!Notice
  /\ UNCHANGED <<pc, jobVars, serveVars, wpc, closer, history>>

\* done: the result of the engine's ticket goes to the backend's job.
Deliver(t, kind) ==
  /\ wpc = "serve"
  /\ Engine!Deliver(t, kind)
  /\ Answer(inflight[t], kind, holds[t])
  /\ inflight' = Restrict(inflight, DOMAIN inflight \ {t})
  /\ holds' = Restrict(holds, DOMAIN holds \ {t})
  /\ UNCHANGED <<pc, ticket, queue, next, open, wpc, closer, history>>

ServeReturns ==
  /\ wpc = "serve" /\ ~open
  /\ Engine!Return
  /\ wpc' = "run" /\ next' = 0
  /\ UNCHANGED <<pc, jobVars, inflight, open, holds, closer, history>>

ServeThrows ==
  /\ wpc = "serve"
  /\ Engine!Fail
  /\ wpc' = "fail" /\ failed' = TRUE
  /\ next' = 0 /\ open' = FALSE /\ holds' = <<>>
  /\ UNCHANGED <<pc, jobVars, inflight, closer, asked>>

\* Mutant of FailInFlight: the jobs in flight are forgotten.
FailInFlightForgotten ==
  /\ wpc = "fail"
  /\ \E t \in DOMAIN inflight :
       /\ ticket' = [ticket EXCEPT ![inflight[t]] = None]
       /\ inflight' = Restrict(inflight, DOMAIN inflight \ {t})
  /\ UNCHANGED <<pc, answer, queue, next, open, holds, wpc, closer, history, engine>>

\* The handler, under mutex_: the jobs in flight lose their ticket and get
\* the exception, ...
FailInFlight ==
  /\ wpc = "fail"
  /\ \E t \in DOMAIN inflight :
       /\ ticket' = [ticket EXCEPT ![inflight[t]] = None]
       /\ Answer(inflight[t], "error", inflight[t])
       /\ inflight' = Restrict(inflight, DOMAIN inflight \ {t})
  /\ UNCHANGED <<pc, queue, next, open, holds, wpc, closer, history, engine>>

\* ... and so do those in the queue.
FailQueued ==
  /\ wpc = "fail" /\ DOMAIN inflight = {} /\ queue # <<>>
  /\ Answer(Head(queue), "error", Head(queue))
  /\ queue' = Tail(queue)
  /\ UNCHANGED <<pc, ticket, serveVars, wpc, closer, history, engine>>

Failed ==
  /\ wpc = "fail" /\ DOMAIN inflight = {} /\ queue = <<>>
  /\ wpc' = "run"
  /\ UNCHANGED <<pc, jobVars, serveVars, closer, history, engine>>

\* ~SalmRecognitionBackend; it then joins the worker.
Stop ==
  /\ closer = "idle" /\ MuFree
  /\ closer' = "notify"
  /\ UNCHANGED <<pc, jobVars, serveVars, wpc, history, engine>>

\* Mutant of NotifyStop: the worker is not notified.
NotifyStopSilent ==
  /\ closer = "notify"
  /\ closer' = "join"
  /\ UNCHANGED <<pc, jobVars, serveVars, wpc, history, engine>>

NotifyStop ==
  /\ closer = "notify"
  /\ Wake
  /\ closer' = "join"
  /\ UNCHANGED <<pc, jobVars, serveVars, history, engine>>

\* Every request has returned and the worker waits for more, or has ended.
Quiet ==
  /\ \A r \in Requests : pc[r] = "done"
  /\ wpc \in {"asleep", "pullwait", "exit"}
  /\ UNCHANGED vars
------------------------------------------------------------------------------
RequestNext(r) ==
  \/ Begin(r) \/ Refuse(r) \/ Enqueue(r) \/ Notify(r) \/ Poll(r)
  \/ CancelQueued(r) \/ CancelPulled(r) \/ Return(r)

EngineStep ==
  \/ PullNow \/ PullIdle \/ PullBlocking \/ Notice \/ ServeReturns
  \/ \E t \in owed, kind \in {"value", "error", "cancelled"} : Deliver(t, kind)

WorkerStep ==
  \/ WorkerCheck \/ Drain \/ Drained \/ StartServe \/ EngineStep
  \/ FailInFlight \/ FailQueued \/ Failed

Next ==
  \/ \E r \in Requests : RequestNext(r)
  \/ RunWarmup
  \/ WorkerStep
  \/ ServeThrows
  \/ Stop \/ NotifyStop
  \/ Quiet

(* The worker runs, the engine makes progress, and who owes a notification  *)
(* delivers it; no client need go away, and nobody need stop.               *)
Fairness ==
  /\ WF_vars(WorkerStep)
  /\ WF_vars(NotifyStop)
  /\ \A r \in Requests : WF_vars(Notify(r))

Spec == Init /\ [][Next]_vars /\ Fairness
------------------------------------------------------------------------------
Job == [kind : {"pending", "value", "error", "cancelled"}, of : Requests]

(* Every variable keeps its type; the queue exceeds max_queue_depth only by *)
(* the jobs of warmup(), which do not look at it.                           *)
TypeOK ==
  /\ pc \in [Requests -> {"idle", "submit", "notify", "waiting", "cancel", "dropped", "done"}]
  /\ answer \in [Requests -> Job]
  /\ ticket \in [Requests -> Nat \cup {None}]
  /\ queue \in Seq(Requests) /\ Len(queue) <= MaxDepth + Cardinality(Warmup)
  /\ DOMAIN inflight \subseteq Nat /\ \A t \in DOMAIN inflight : inflight[t] \in Requests
  /\ DOMAIN holds \subseteq Nat /\ \A t \in DOMAIN holds : holds[t] \in Requests
  /\ next \in Nat /\ open \in BOOLEAN
  /\ wpc \in {"run", "asleep", "drain", "exit", "start", "serve", "pull", "pullwait", "fail"}
  /\ closer \in {"idle", "notify", "join"}
  /\ asked \subseteq Cancellable /\ failed \in BOOLEAN
  /\ running \in BOOLEAN /\ issued \in Nat
  /\ owed \subseteq Nat /\ posted \subseteq Nat /\ marked \subseteq owed

Blocked(r) == pc[r] \in {"notify", "waiting", "cancel", "dropped"} /\ answer[r].kind = "pending"

(* A request whose thread is blocked is in the queue or in flight, once,    *)
(* and nothing else is; what is in flight during a serve call is exactly    *)
(* what the engine owes, under the same tickets. Otherwise done() would     *)
(* answer another job, or a thread would wait for ever.                     *)
EveryRequestHeld ==
  /\ \A r \in Requests :
       Cardinality({i \in DOMAIN queue : queue[i] = r})
       + Cardinality({t \in DOMAIN inflight : inflight[t] = r}) = IF Blocked(r) THEN 1 ELSE 0
  /\ running => /\ DOMAIN inflight = owed
                /\ \A t \in owed : inflight[t] = holds[t] /\ ticket[inflight[t]] = t

(* A cancelled result goes only to a request whose client went away. True   *)
(* as long as no serve call has thrown: then tickets start from 0 again     *)
(* while finished jobs still have theirs.                                   *)
CancelledOnRequest ==
  failed \/ \A r \in Requests : answer[r].kind = "cancelled" => r \in asked

(* The same without the exception, as the comment at                        *)
(* src/src/speechlm/salm_recognizer.cpp:392 has it: a finished ticket is    *)
(* ignored, and tickets are reset when a serve call ends.                   *)
FinishedTicketsAreIgnored ==
  \A r \in Requests : answer[r].kind = "cancelled" => r \in asked

(* Every blocked thread gets its result, whatever fails or stops.           *)
EveryRequestAnswered == \A r \in Requests : Blocked(r) ~> ~Blocked(r)

(* Once the destructor has begun, the worker ends and can be joined.        *)
ShutdownEnds == stop ~> (wpc = "exit")

(* The backend serves its callers like any batched stage: each is answered  *)
(* once, with its own result, and nobody is owed one when the worker ends.  *)
Service == INSTANCE BatchService WITH
  Callers <- Requests, Epochs <- 1,
  status <- [r \in Requests |->
               IF pc[r] = "idle" THEN "idle"
               ELSE IF pc[r] = "submit" THEN "offered"
               ELSE IF answer[r].kind = "pending" THEN "accepted" ELSE "answered"],
  call   <- [r \in Requests |-> 0],
  answer <- [r \in Requests |->
               [kind |-> IF answer[r].kind = "cancelled" THEN "error" ELSE answer[r].kind,
                req  |-> <<answer[r].of, 0>>]],
  closed <- wpc = "exit"

ImplementsService == Service!Spec
=============================================================================
