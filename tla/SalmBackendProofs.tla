--------------------------- MODULE SalmBackendProofs ---------------------------
(***************************************************************************)
(* For every set of requests and warm-up jobs and every queue depth: the   *)
(* backend in front of the speech-LLM engine holds each blocked request in *)
(* one place, agrees with the engine on its tickets, and implements        *)
(* BatchService; a cancelled result goes to a request whose client went    *)
(* away, as long as no serve call has thrown.                              *)
(***************************************************************************)
EXTENDS SalmBackend, FiniteSetTheorems, TLAPS

Serving == {"serve", "pull", "pullwait"}

BlockedSet == {r \in Requests : Blocked(r)}

(* The queue q holds members of b, each once and none that is in flight;   *)
(* so do the tickets of f; and each member of b is in one of the two.      *)
Held(q, f, b) ==
  /\ \A i, j \in DOMAIN q : q[i] = q[j] => i = j
  /\ \A i \in DOMAIN q : q[i] \in b /\ \A t \in DOMAIN f : f[t] # q[i]
  /\ \A t \in DOMAIN f : f[t] \in b
  /\ \A t, u \in DOMAIN f : f[t] = f[u] => t = u
  /\ \A r \in b : (\E i \in DOMAIN q : q[i] = r) \/ (\E t \in DOMAIN f : f[t] = r)

(* The backend numbers the jobs it hands out as the engine does, and knows *)
(* by the same tickets what the engine still owes.                         *)
EngineAgrees ==
  running =>
    /\ DOMAIN inflight = owed /\ DOMAIN holds = owed
    /\ \A t \in owed : inflight[t] = holds[t] /\ ticket[inflight[t]] = t /\ t < issued
    /\ next = issued

WorkerPhases ==
  /\ running <=> wpc \in Serving
  /\ wpc \notin Serving \cup {"fail"} => DOMAIN inflight = {}
  /\ wpc \in {"drain", "exit"} => stop
  /\ wpc = "fail" => failed
  /\ wpc \in Serving => open \/ stop

RequestPhases ==
  \A r \in Requests :
    /\ answer[r].of = r
    /\ pc[r] \in {"idle", "submit"} => answer[r].kind = "pending"
    /\ pc[r] = "done" => answer[r].kind # "pending"
    /\ pc[r] = "cancel" => r \in asked

(* Only the jobs of warmup() may exceed the depth of the queue.            *)
DepthKept == Len(queue) <= MaxDepth \/ \E w \in Warmup : pc[w] \notin {"idle", "submit"}

(* Until a serve call throws there is only one: a second one could not     *)
(* tell the tickets of the first from its own.                             *)
TicketsAreOwn ==
  ~failed =>
    /\ \A r, s \in Requests : ticket[r] = ticket[s] => r = s \/ ticket[r] = None
    /\ \A r \in Requests : pc[r] \in {"idle", "submit"} => ticket[r] = None
    /\ \A i \in DOMAIN queue : ticket[queue[i]] = None
    /\ running => \A r \in Requests : ticket[r] < next
    /\ posted \cup marked \subseteq {ticket[r] : r \in asked}
    /\ wpc \in {"asleep", "start"} \/ (wpc = "run" /\ ~stop) => \A r \in Requests : ticket[r] = None

JobsHeld == Held(queue, inflight, BlockedSet)

IInv == /\ TypeOK /\ JobsHeld /\ EngineAgrees /\ WorkerPhases /\ RequestPhases /\ DepthKept
        /\ TicketsAreOwn /\ CancelledOnRequest
-----------------------------------------------------------------------------
(* The queue.                                                              *)

\* What a sequence is without its element at i.
LEMMA RemovedAt ==
  ASSUME NEW S, NEW s \in Seq(S), NEW i \in DOMAIN s
  PROVE  LET rest == RemoveAt(s, i)
         IN  /\ rest \in Seq(S) /\ Len(rest) = Len(s) - 1
             /\ \A j \in DOMAIN rest : rest[j] = s[IF j < i THEN j ELSE j + 1]
<1> DEFINE a == SubSeq(s, 1, i - 1)
           b == SubSeq(s, i + 1, Len(s))
<1>1. a \in Seq(S) /\ Len(a) = i - 1 /\ \A j \in 1 .. i - 1 : a[j] = s[j]
  OBVIOUS
<1>2. b \in Seq(S) /\ Len(b) = Len(s) - i /\ \A j \in 1 .. Len(s) - i : b[j] = s[i + j]
  OBVIOUS
<1>3. i \in 1 .. Len(s) /\ Len(s) \in Nat
  OBVIOUS
<1> HIDE DEF a, b
<1>4. /\ a \o b \in Seq(S) /\ Len(a \o b) = Len(s) - 1 /\ DOMAIN (a \o b) = 1 .. Len(s) - 1
      /\ \A j \in 1 .. Len(s) - 1 : (a \o b)[j] = IF j <= i - 1 THEN a[j] ELSE b[j - (i - 1)]
  BY <1>1, <1>2, <1>3
<1>5. ASSUME NEW j \in 1 .. Len(s) - 1 PROVE (a \o b)[j] = s[IF j < i THEN j ELSE j + 1]
  <2>1. CASE j < i
    BY <1>1, <1>3, <1>4, <2>1
  <2>2. CASE ~(j < i)
    <3>1. j - (i - 1) \in 1 .. Len(s) - i /\ i + (j - (i - 1)) = j + 1 /\ ~(j <= i - 1)
      BY <1>3, <2>2
    <3>2. (a \o b)[j] = b[j - (i - 1)] /\ b[j - (i - 1)] = s[i + (j - (i - 1))]
      BY <1>2, <1>4, <3>1
    <3>3. QED
      BY <2>2, <3>1, <3>2
  <2>3. QED
    BY <2>1, <2>2
<1>6. QED
  BY <1>4, <1>5 DEF RemoveAt, a, b

\* The first of a queue is removed like any other.
LEMMA TailRemoves ==
  ASSUME NEW S, NEW s \in Seq(S), s # <<>>
  PROVE  /\ 1 \in DOMAIN s /\ Head(s) = s[1] /\ Head(s) \in S
         /\ Tail(s) \in Seq(S) /\ Len(Tail(s)) = Len(s) - 1
         /\ \A j \in DOMAIN Tail(s) : Tail(s)[j] = s[IF j < 1 THEN j ELSE j + 1]
OBVIOUS

\* warmup() queues each of its jobs once.
LEMMA WarmupSeq ==
  LET jobs == SetToSeq(Warmup)
  IN  /\ jobs \in Seq(Warmup) /\ Len(jobs) = Cardinality(Warmup)
      /\ \A i, j \in DOMAIN jobs : jobs[i] = jobs[j] => i = j
      /\ \A w \in Warmup : \E i \in DOMAIN jobs : jobs[i] = w
<1> DEFINE n == Cardinality(Warmup)
           jobs == SetToSeq(Warmup)
<1>1. IsFiniteSet(Warmup)
  BY BackendAssumption, FS_Subset
<1>2. n \in Nat /\ ExistsBijection(1 .. n, Warmup)
  BY <1>1, FS_CardinalityType
<1>3. PICK f \in Bijection(1 .. n, Warmup) : TRUE
  BY <1>2 DEF ExistsBijection
<1>4. f \in [1 .. n -> Warmup] /\ IsInjective(f)
  BY <1>3 DEF Bijection, Injection
<1>5. jobs \in [1 .. n -> Warmup] /\ IsInjective(jobs)
  BY <1>4 DEF SetToSeq
<1> HIDE DEF jobs
<1>6. jobs \in Injection(1 .. n, Warmup)
  BY <1>5 DEF Injection
<1>7. IsFiniteSet(1 .. n) /\ Cardinality(1 .. n) = n
  BY <1>2, FS_Interval
<1>8. jobs \in Surjection(1 .. n, Warmup)
  BY <1>1, <1>6, <1>7, FS_Injection
<1>9. \A w \in Warmup : \E i \in 1 .. n : jobs[i] = w
  BY <1>8 DEF Surjection
<1> HIDE DEF n
<1>10. jobs \in Seq(Warmup) /\ Len(jobs) = n /\ DOMAIN jobs = 1 .. n
  BY <1>2, <1>5
<1>11. QED
  BY <1>5, <1>9, <1>10 DEF IsInjective, jobs, n

-----------------------------------------------------------------------------
(* Who is held where, when jobs are queued, dropped, answered and taken.   *)

LEMMA HeldRemoved ==
  ASSUME NEW q \in Seq(Requests), NEW f, NEW b, Held(q, f, b), NEW i \in DOMAIN q,
         NEW rest \in Seq(Requests), Len(rest) = Len(q) - 1,
         \A j \in DOMAIN rest : rest[j] = q[IF j < i THEN j ELSE j + 1]
  PROVE  Held(rest, f, b \ {q[i]})
<1> DEFINE at(j) == IF j < i THEN j ELSE j + 1
<1>1. DOMAIN q = 1 .. Len(q) /\ DOMAIN rest = 1 .. Len(q) - 1 /\ Len(q) \in Nat
  OBVIOUS
<1>2. \A j \in DOMAIN rest : at(j) \in DOMAIN q /\ at(j) # i /\ rest[j] = q[at(j)]
  BY <1>1
<1>3. \A j, k \in DOMAIN rest : at(j) = at(k) => j = k
  BY <1>1
<1>4. \A k \in DOMAIN q : k # i => \E j \in DOMAIN rest : at(j) = k
  <2> SUFFICES ASSUME NEW k \in DOMAIN q, k # i PROVE \E j \in DOMAIN rest : at(j) = k
    OBVIOUS
  <2>1. CASE k < i
    BY <1>1, <2>1
  <2>2. CASE ~(k < i)
    <3>1. k - 1 \in DOMAIN rest /\ at(k - 1) = k
      BY <1>1, <2>2
    <3>2. QED
      BY <3>1
  <2>3. QED
    BY <2>1, <2>2
<1> HIDE DEF at
<1>5. \A j \in DOMAIN rest : rest[j] # q[i]
  BY <1>2 DEF Held
<1>6. \A j, k \in DOMAIN rest : rest[j] = rest[k] => j = k
  BY <1>2, <1>3 DEF Held
<1>7. \A j \in DOMAIN rest : rest[j] \in b \ {q[i]} /\ \A t \in DOMAIN f : f[t] # rest[j]
  BY <1>2, <1>5 DEF Held
<1>8. \A t \in DOMAIN f : f[t] \in b \ {q[i]}
  BY DEF Held
<1>9. \A r \in b \ {q[i]} :
        (\E j \in DOMAIN rest : rest[j] = r) \/ (\E t \in DOMAIN f : f[t] = r)
  <2> SUFFICES ASSUME NEW r \in b \ {q[i]}, NEW k \in DOMAIN q, q[k] = r
               PROVE  \E j \in DOMAIN rest : rest[j] = r
    BY DEF Held
  <2>1. PICK j \in DOMAIN rest : at(j) = k
    BY <1>4
  <2>2. QED
    BY <1>2, <2>1
<1>10. QED
  BY <1>6, <1>7, <1>8, <1>9 DEF Held

LEMMA HeldQueued ==
  ASSUME NEW q \in Seq(Requests), NEW f, NEW b, Held(q, f, b),
         NEW jobs \in Seq(Requests), NEW new,
         \A i, j \in DOMAIN jobs : jobs[i] = jobs[j] => i = j,
         \A i \in DOMAIN jobs : jobs[i] \in new,
         \A r \in new : \E i \in DOMAIN jobs : jobs[i] = r,
         new \cap b = {}
  PROVE  Held(q \o jobs, f, b \cup new)
<1> DEFINE all == q \o jobs
           n   == Len(q)
           m   == Len(jobs)
<1>1. /\ n \in Nat /\ m \in Nat /\ DOMAIN q = 1 .. n /\ DOMAIN jobs = 1 .. m
      /\ DOMAIN all = 1 .. n + m
  OBVIOUS
<1>2. \A i \in 1 .. n + m : all[i] = IF i <= n THEN q[i] ELSE jobs[i - n]
  OBVIOUS
<1> HIDE DEF all, n, m
<1>3. \A i \in 1 .. n + m : \/ i \in DOMAIN q /\ all[i] = q[i] /\ all[i] \in b
                            \/ i - n \in DOMAIN jobs /\ all[i] = jobs[i - n] /\ all[i] \in new
  <2> SUFFICES ASSUME NEW i \in 1 .. n + m
               PROVE  \/ i \in DOMAIN q /\ all[i] = q[i] /\ all[i] \in b
                      \/ i - n \in DOMAIN jobs /\ all[i] = jobs[i - n] /\ all[i] \in new
    OBVIOUS
  <2>1. CASE i <= n
    BY <1>1, <1>2, <2>1 DEF Held
  <2>2. CASE ~(i <= n)
    <3>1. i - n \in DOMAIN jobs
      BY <1>1, <2>2
    <3>2. QED
      BY <1>2, <2>2, <3>1
  <2>3. QED
    BY <2>1, <2>2
<1>4. ASSUME NEW i \in 1 .. n + m, NEW j \in 1 .. n + m, all[i] = all[j] PROVE i = j
  <2>1. CASE all[i] \in b
    <3>1. i \in DOMAIN q /\ j \in DOMAIN q /\ q[i] = q[j]
      BY <1>3, <1>4, <2>1
    <3>2. QED
      BY <3>1 DEF Held
  <2>2. CASE all[i] \notin b
    <3>1. i - n \in DOMAIN jobs /\ j - n \in DOMAIN jobs /\ jobs[i - n] = jobs[j - n]
      BY <1>3, <1>4, <2>2
    <3>2. i - n = j - n
      BY <3>1
    <3>3. QED
      BY <1>1, <3>2
  <2>3. QED
    BY <2>1, <2>2
<1>5. \A i \in 1 .. n + m : all[i] \in b \cup new /\ \A t \in DOMAIN f : f[t] # all[i]
  BY <1>3 DEF Held
<1>6. \A r \in b \cup new :
        (\E i \in 1 .. n + m : all[i] = r) \/ (\E t \in DOMAIN f : f[t] = r)
  <2>1. ASSUME NEW i \in DOMAIN q PROVE i \in 1 .. n + m /\ all[i] = q[i]
    BY <1>1, <1>2
  <2>2. ASSUME NEW i \in DOMAIN jobs PROVE i + n \in 1 .. n + m /\ all[i + n] = jobs[i]
    <3>1. i + n \in 1 .. n + m /\ ~(i + n <= n) /\ (i + n) - n = i
      BY <1>1
    <3>2. QED
      BY <1>2, <3>1
  <2>3. \A r \in new : \E i \in 1 .. n + m : all[i] = r
    BY <2>2
  <2>4. \A r \in b : (\E i \in 1 .. n + m : all[i] = r) \/ (\E t \in DOMAIN f : f[t] = r)
    BY <2>1 DEF Held
  <2>5. QED
    BY <2>3, <2>4
<1>7. \A t \in DOMAIN f : f[t] \in b \cup new
  BY DEF Held
<1>8. \A t, u \in DOMAIN f : f[t] = f[u] => t = u
  BY DEF Held
<1>9. Held(all, f, b \cup new)
  BY <1>1, <1>4, <1>5, <1>6, <1>7, <1>8 DEF Held
<1>10. QED
  BY <1>9 DEF all

LEMMA HeldAnswered ==
  ASSUME NEW q, NEW f, NEW b, Held(q, f, b), NEW t \in DOMAIN f
  PROVE  Held(q, Restrict(f, DOMAIN f \ {t}), b \ {f[t]})
BY DEF Held, Restrict

\* Nothing in flight, by whatever function.
LEMMA HeldGrounded ==
  ASSUME NEW q, NEW f, NEW g, NEW b, Held(q, f, b), DOMAIN f = {}, DOMAIN g = {}
  PROVE  Held(q, g, b)
BY DEF Held


\* Ticketed adds the i-th job of the queue under ticket first + i - 1.
LEMMA TicketedFacts ==
  ASSUME NEW f, NEW first \in Nat, NEW n \in 0 .. Len(queue), queue \in Seq(Requests),
         \A t \in DOMAIN f : t \notin first .. first + n - 1
  PROVE  /\ DOMAIN Ticketed(f, first, n) = DOMAIN f \cup first .. first + n - 1
         /\ \A t \in DOMAIN f : Ticketed(f, first, n)[t] = f[t]
         /\ \A t \in first .. first + n - 1 :
              /\ t - first + 1 \in 1 .. n
              /\ Ticketed(f, first, n)[t] = queue[t - first + 1]
              /\ Ticketed(f, first, n)[t] \in Requests
         /\ \A i \in 1 .. n :
              /\ first + i - 1 \in first .. first + n - 1
              /\ Ticketed(f, first, n)[first + i - 1] = queue[i]
<1> DEFINE g == Ticketed(f, first, n)
<1>1. Len(queue) \in Nat /\ \A i \in 1 .. n : i \in DOMAIN queue /\ queue[i] \in Requests
  OBVIOUS
<1>2. /\ DOMAIN g = DOMAIN f \cup first .. first + n - 1
      /\ \A t \in DOMAIN f : g[t] = f[t]
      /\ \A t \in first .. first + n - 1 : g[t] = queue[t - first + 1]
  BY DEF Ticketed
<1> HIDE DEF g
<1>3. \A t \in first .. first + n - 1 : t - first + 1 \in 1 .. n
  BY <1>1
<1>4. \A i \in 1 .. n : first + i - 1 \in first .. first + n - 1 /\ (first + i - 1) - first + 1 = i
  BY <1>1
<1>5. \A i \in 1 .. n : g[first + i - 1] = queue[i]
  BY <1>2, <1>4
<1>6. QED
  BY <1>1, <1>2, <1>3, <1>4, <1>5 DEF g

LEMMA RestFacts ==
  ASSUME NEW n \in 0 .. Len(queue), queue \in Seq(Requests)
  PROVE  LET rest == SubSeq(queue, n + 1, Len(queue))
         IN  /\ rest \in Seq(Requests) /\ Len(rest) = Len(queue) - n
             /\ \A i \in DOMAIN rest : i + n \in DOMAIN queue /\ rest[i] = queue[i + n]
OBVIOUS

LEMMA HeldTaken ==
  ASSUME NEW f, NEW b, NEW first \in Nat, NEW n \in 0 .. Len(queue), queue \in Seq(Requests),
         \A t \in DOMAIN f : t \notin first .. first + n - 1,
         Held(queue, f, b)
  PROVE  Held(SubSeq(queue, n + 1, Len(queue)), Ticketed(f, first, n), b)
<1> DEFINE g    == Ticketed(f, first, n)
           rest == SubSeq(queue, n + 1, Len(queue))
           new  == first .. first + n - 1
           job(t) == t - first + 1
<1> HIDE DEF g
<1>a. \A t \in DOMAIN f : g[t] = f[t]
  BY DEF g, Ticketed
<1>b. DOMAIN g = DOMAIN f \cup new
  BY TicketedFacts DEF g
<1>c. \A t \in new : job(t) \in 1 .. n /\ g[t] = queue[job(t)]
  <2>1. \A t \in new : job(t) \in 1 .. n /\ t \notin DOMAIN f
    OBVIOUS
  <2>2. QED
    BY <2>1, Zenon DEF g, Ticketed
<1>d. \A i \in 1 .. n : first + i - 1 \in new /\ g[first + i - 1] = queue[i]
  BY TicketedFacts DEF g
<1>1. /\ DOMAIN g = DOMAIN f \cup new
      /\ \A t \in DOMAIN f : g[t] = f[t]
      /\ \A t \in new : job(t) \in 1 .. n /\ g[t] = queue[job(t)]
      /\ \A i \in 1 .. n : first + i - 1 \in new /\ g[first + i - 1] = queue[i]
  BY <1>a, <1>b, <1>c, <1>d
<1>2. /\ Len(rest) = Len(queue) - n
      /\ \A i \in DOMAIN rest : i + n \in DOMAIN queue /\ rest[i] = queue[i + n]
      /\ rest \in Seq(Requests)
  BY RestFacts
<1>3. DOMAIN rest = 1 .. Len(queue) - n /\ DOMAIN queue = 1 .. Len(queue) /\ Len(queue) \in Nat
  BY <1>2
<1>4. \A t, u \in new : job(t) = job(u) => t = u
  OBVIOUS
<1>5. \A i \in 1 .. n : i \in DOMAIN queue
  BY <1>3
<1>6. \A i \in DOMAIN rest, j \in 1 .. n : i + n # j
  BY <1>3
<1>7. \A i, j \in DOMAIN rest : i + n = j + n => i = j
  BY <1>3
<1>8. \A i \in DOMAIN queue : i \in 1 .. n \/ \E j \in DOMAIN rest : j + n = i
  <2> SUFFICES ASSUME NEW i \in DOMAIN queue, i \notin 1 .. n
               PROVE  \E j \in DOMAIN rest : j + n = i
    OBVIOUS
  <2>1. i - n \in DOMAIN rest /\ (i - n) + n = i
    BY <1>3
  <2>2. QED
    BY <2>1
<1> HIDE DEF g, rest, new, job
<1>9. \A t \in new : g[t] \in b /\ \A u \in DOMAIN f : f[u] # g[t]
  BY <1>1, <1>5 DEF Held
<1>10. \A t \in DOMAIN g : g[t] \in b
  BY <1>1, <1>9 DEF Held
<1>11. ASSUME NEW t \in DOMAIN g, NEW u \in DOMAIN g, g[t] = g[u] PROVE t = u
  <2>1. CASE t \in DOMAIN f /\ u \in DOMAIN f
    BY <1>1, <1>11, <2>1 DEF Held
  <2>2. CASE t \in new /\ u \in new
    <3>1. queue[job(t)] = queue[job(u)] /\ job(t) \in DOMAIN queue /\ job(u) \in DOMAIN queue
      BY <1>1, <1>5, <1>11, <2>2
    <3>2. job(t) = job(u)
      BY <3>1 DEF Held
    <3>3. QED
      BY <1>4, <2>2, <3>2
  <2>3. QED
    BY <1>1, <1>9, <1>11, <2>1, <2>2
<1>12. \A i, j \in DOMAIN rest : rest[i] = rest[j] => i = j
  <2> SUFFICES ASSUME NEW i \in DOMAIN rest, NEW j \in DOMAIN rest, rest[i] = rest[j] PROVE i = j
    OBVIOUS
  <2>1. i + n = j + n
    BY <1>2 DEF Held
  <2>2. QED
    BY <1>7, <2>1
<1>13. ASSUME NEW i \in DOMAIN rest PROVE rest[i] \in b /\ \A t \in DOMAIN g : g[t] # rest[i]
  <2>1. i + n \in DOMAIN queue /\ rest[i] = queue[i + n]
    BY <1>2
  <2>2. rest[i] \in b /\ \A t \in DOMAIN f : f[t] # rest[i]
    BY <2>1 DEF Held
  <2>3. ASSUME NEW t \in new PROVE g[t] # rest[i]
    <3>1. job(t) \in 1 .. n /\ g[t] = queue[job(t)] /\ job(t) \in DOMAIN queue /\ i + n # job(t)
      BY <1>1, <1>5, <1>6
    <3>2. QED
      BY <2>1, <3>1 DEF Held
  <2>4. QED
    BY <1>1, <2>2, <2>3
<1>14. ASSUME NEW r \in b
       PROVE  (\E i \in DOMAIN rest : rest[i] = r) \/ (\E t \in DOMAIN g : g[t] = r)
  <2>1. CASE \E t \in DOMAIN f : f[t] = r
    BY <1>1, <2>1
  <2>2. CASE \E i \in DOMAIN queue : queue[i] = r
    <3>1. PICK i \in DOMAIN queue : queue[i] = r
      BY <2>2
    <3>2. CASE i \in 1 .. n
      BY <1>1, <3>1, <3>2
    <3>3. CASE \E j \in DOMAIN rest : j + n = i
      BY <1>2, <3>1, <3>3
    <3>4. QED
      BY <1>8, <3>2, <3>3
  <2>3. QED
    BY <2>1, <2>2 DEF Held
<1>15. Held(rest, g, b)
  BY <1>10, <1>11, <1>12, <1>13, <1>14 DEF Held
<1>16. QED
  BY <1>15 DEF g, rest

-----------------------------------------------------------------------------
(* Steps by which nobody starts or ends being blocked, and no job moves.   *)

QuietStep ==
  \/ \E r \in Requests : Begin(r) \/ Refuse(r) \/ Notify(r) \/ Poll(r) \/ CancelPulled(r) \/ Return(r)
  \/ WorkerCheck \/ Drained \/ PullIdle \/ Notice \/ ServeReturns \/ Failed \/ ServeThrows
  \/ PullBlocking /\ wpc' = "pullwait"
  \/ Stop \/ NotifyStop \/ Quiet \/ UNCHANGED vars

(* Steps by which the worker takes jobs, before or after it slept.         *)
TakeStep == \E n \in 0 .. Len(queue) : Take(n) /\ wpc' = "serve" /\ UNCHANGED <<pc, answer, closer, history>>

LEMMA NextSteps ==
  ASSUME TypeOK, [Next]_vars
  PROVE  \/ QuietStep \/ RunWarmup \/ Drain \/ StartServe
         \/ TakeStep /\ wpc \in Serving
         \/ FailInFlight \/ FailQueued
         \/ \E r \in Requests : Enqueue(r) \/ CancelQueued(r)
         \/ \E t \in owed, kind \in {"value", "error", "cancelled"} : Deliver(t, kind)
<1>1. Len(queue) \in Nat
  BY DEF TypeOK
<1>2. CASE UNCHANGED vars
  <2>1. QuietStep
    BY <1>2 DEF QuietStep
  <2>2. QED
    BY <2>1
<1>3. CASE \E r \in Requests : RequestNext(r)
  <2>1. PICK r \in Requests : RequestNext(r)
    BY <1>3
  <2>2. CASE Enqueue(r) \/ CancelQueued(r)
    BY <2>2
  <2>3. CASE Begin(r) \/ Refuse(r) \/ Notify(r) \/ Poll(r) \/ CancelPulled(r) \/ Return(r)
    <3>1. QuietStep
      BY <2>3 DEF QuietStep
    <3>2. QED
      BY <3>1
  <2>4. QED
    BY <2>1, <2>2, <2>3 DEF RequestNext
<1>4. CASE PullNow
  <2>1. wpc = "serve" /\ wpc' = wpc /\ UNCHANGED <<pc, answer, closer, history>>
    BY <1>4 DEF PullNow
  <2>2. PICK n : n \in 0 .. Len(queue) /\ Take(n)
    <3>1. CASE \E n \in 1 .. Len(queue) : Take(n)
      BY <1>1, <3>1
    <3>2. CASE Take(0)
      BY <1>1, <3>2
    <3>3. QED
      BY <1>4, <3>1, <3>2 DEF PullNow
  <2>3. QED
    BY <2>1, <2>2 DEF TakeStep, Serving
<1>5. CASE PullBlocking
  <2>1. CASE wpc' = "pullwait"
    <3>1. QuietStep
      BY <1>5, <2>1 DEF QuietStep
    <3>2. QED
      BY <3>1
  <2>2. CASE wpc' # "pullwait"
    BY <1>5, <2>2 DEF PullBlocking, TakeStep, Serving
  <2>3. QED
    BY <2>1, <2>2
<1>6. CASE \E t \in owed, kind \in {"value", "error", "cancelled"} : Deliver(t, kind)
  BY <1>6
<1>7. CASE WorkerCheck \/ Drained \/ PullIdle \/ Notice \/ ServeReturns \/ Failed \/ ServeThrows
           \/ Stop \/ NotifyStop \/ Quiet
  <2>1. QuietStep
    BY <1>7 DEF QuietStep
  <2>2. QED
    BY <2>1
<1>8. CASE EngineStep
  BY <1>4, <1>5, <1>6, <1>7, <1>8 DEF EngineStep
<1>9. CASE WorkerStep
  BY <1>7, <1>8, <1>9 DEF WorkerStep
<1>10. QED
  BY <1>2, <1>3, <1>7, <1>9 DEF Next

LEMMA BlockedFacts ==
  ASSUME NEW r \in Requests
  PROVE  /\ r \in BlockedSet <=> Blocked(r)
         /\ r \in BlockedSet' <=> Blocked(r)'
BY DEF BlockedSet

LEMMA QuietBlocks ==
  ASSUME TypeOK, QuietStep
  PROVE  BlockedSet' = BlockedSet /\ UNCHANGED <<queue, inflight>>
<1>1. ASSUME NEW r \in Requests,
             Begin(r) \/ Refuse(r) \/ Notify(r) \/ Poll(r) \/ CancelPulled(r) \/ Return(r)
      PROVE  UNCHANGED <<queue, inflight>> /\ \A s \in Requests : Blocked(s)' <=> Blocked(s)
  <2>1. UNCHANGED <<queue, inflight>>
    BY <1>1 DEF Begin, Refuse, Notify, Poll, CancelPulled, Return, jobVars, serveVars
  <2>2. CASE Refuse(r)
    <3>1. answer' = [answer EXCEPT ![r] = [kind |-> "error", of |-> r]] /\ pc[r] = "submit"
      BY <2>2 DEF Refuse, Answer
    <3>2. answer'[r].kind = "error"
      BY <3>1 DEF TypeOK
    <3>3. \A s \in Requests : s # r => answer'[s] = answer[s] /\ pc'[s] = pc[s]
      BY <2>2, <3>1 DEF Refuse, TypeOK
    <3>4. QED
      BY <2>1, <3>1, <3>2, <3>3 DEF Blocked
  <2>3. CASE ~Refuse(r)
    <3>1. answer' = answer
      BY <1>1, <2>3 DEF Begin, Notify, Poll, CancelPulled, Return, jobVars
    <3>2. \A s \in Requests : s # r => pc'[s] = pc[s]
      BY <1>1, <2>3 DEF Begin, Notify, Poll, CancelPulled, Return, TypeOK
    <3>3. \/ pc[r] = "idle" /\ pc'[r] = "submit"
          \/ pc[r] = "notify" /\ pc'[r] = "waiting"
          \/ pc[r] = "waiting" /\ pc'[r] = "cancel"
          \/ pc[r] = "cancel" /\ pc'[r] = "dropped"
          \/ answer[r].kind # "pending"
      BY <1>1, <2>3 DEF Begin, Notify, Poll, CancelPulled, Return, TypeOK
    <3>4. QED
      BY <2>1, <3>1, <3>2, <3>3 DEF Blocked
  <2>4. QED
    BY <2>2, <2>3
<1>2. ASSUME \/ WorkerCheck \/ Drained \/ PullIdle \/ Notice \/ ServeReturns \/ Failed \/ ServeThrows
             \/ PullBlocking /\ wpc' = "pullwait"
             \/ Stop \/ NotifyStop \/ Quiet \/ UNCHANGED vars
      PROVE  UNCHANGED <<pc, answer, queue, inflight>>
  BY <1>2 DEF WorkerCheck, Drained, PullIdle, Notice, ServeReturns, Failed, ServeThrows,
       PullBlocking, Stop, NotifyStop, Quiet, vars, jobVars, serveVars
<1>3. ASSUME UNCHANGED <<pc, answer>> PROVE \A s \in Requests : Blocked(s)' <=> Blocked(s)
  BY <1>3 DEF Blocked
<1>4. UNCHANGED <<queue, inflight>> /\ \A s \in Requests : Blocked(s)' <=> Blocked(s)
  BY <1>1, <1>2, <1>3 DEF QuietStep
<1>5. QED
  BY <1>4 DEF BlockedSet


LEMMA AnsweredUnblocks ==
  ASSUME TypeOK, NEW r \in Requests, NEW kind \in {"value", "error", "cancelled"}, NEW of,
         Answer(r, kind, of), \A s \in Requests : s # r => pc'[s] = pc[s]
  PROVE  BlockedSet' = BlockedSet \ {r}
<1>1. answer' = [answer EXCEPT ![r] = [kind |-> kind, of |-> of]]
  BY DEF Answer
<1>2. answer'[r].kind = kind
  BY <1>1 DEF TypeOK
<1>3. \A s \in Requests : s # r => answer'[s] = answer[s]
  BY <1>1 DEF TypeOK
<1>4. ~Blocked(r)'
  BY <1>2 DEF Blocked
<1>5. \A s \in Requests : s # r => (Blocked(s)' <=> Blocked(s))
  BY <1>3 DEF Blocked
<1>6. QED
  BY <1>4, <1>5 DEF BlockedSet

(* The step's effect on who is held where.                                 *)
LEMMA TakeHolds ==
  ASSUME TypeOK, JobsHeld, EngineAgrees, TakeStep
  PROVE  JobsHeld'
<1>1. PICK n \in 0 .. Len(queue) : Take(n) /\ UNCHANGED <<pc, answer>>
  BY DEF TakeStep
<1>2. /\ inflight' = Ticketed(inflight, next, n)
      /\ queue' = SubSeq(queue, n + 1, Len(queue)) /\ running
  BY <1>1 DEF Take, Engine!Pull
<1>3. queue \in Seq(Requests) /\ next \in Nat /\ issued \in Nat /\ n \in Nat
  BY DEF TypeOK
<1>4. \A t \in DOMAIN inflight : t \notin next .. next + n - 1
  BY <1>2, <1>3 DEF EngineAgrees, TypeOK
<1>5. Held(queue', inflight', BlockedSet)
  BY <1>2, <1>3, <1>4, HeldTaken DEF JobsHeld
<1>6. BlockedSet' = BlockedSet
  BY <1>1 DEF BlockedSet, Blocked
<1>7. QED
  BY <1>5, <1>6 DEF JobsHeld

LEMMA QueueHolds ==
  ASSUME TypeOK, JobsHeld, RequestPhases, [Next]_vars,
         RunWarmup \/ \E r \in Requests : Enqueue(r)
  PROVE  JobsHeld'
<1>0. queue \in Seq(Requests) /\ answer \in [Requests -> Job] /\ DOMAIN pc = Requests
  BY DEF TypeOK
<1>1. PICK jobs \in Seq(Requests), new \in SUBSET Requests :
         /\ queue' = queue \o jobs
         /\ \A i, j \in DOMAIN jobs : jobs[i] = jobs[j] => i = j
         /\ \A i \in DOMAIN jobs : jobs[i] \in new
         /\ \A r \in new : \E i \in DOMAIN jobs : jobs[i] = r
         /\ \A r \in new : pc[r] = "submit" /\ pc'[r] = "notify"
         /\ \A r \in Requests \ new : pc'[r] = pc[r]
         /\ UNCHANGED <<answer, inflight>>
  <2>1. CASE RunWarmup
    <3>1. /\ queue' = queue \o SetToSeq(Warmup) /\ UNCHANGED <<answer, inflight>>
          /\ \A r \in Warmup : pc[r] = "submit"
          /\ pc' = [r \in Requests |-> IF r \in Warmup THEN "notify" ELSE pc[r]]
      BY <2>1 DEF RunWarmup, serveVars
    <3>2. Warmup \in SUBSET Requests
      BY BackendAssumption
    <3>3. /\ SetToSeq(Warmup) \in Seq(Warmup)
          /\ \A i, j \in DOMAIN SetToSeq(Warmup) : SetToSeq(Warmup)[i] = SetToSeq(Warmup)[j] => i = j
          /\ \A w \in Warmup : \E i \in DOMAIN SetToSeq(Warmup) : SetToSeq(Warmup)[i] = w
      BY WarmupSeq
    <3>4. SetToSeq(Warmup) \in Seq(Requests)
      BY <3>2, <3>3
    <3>5. \A i \in DOMAIN SetToSeq(Warmup) : SetToSeq(Warmup)[i] \in Warmup
      BY <3>3
    <3>6. /\ \A r \in Warmup : pc[r] = "submit" /\ pc'[r] = "notify"
          /\ \A r \in Requests \ Warmup : pc'[r] = pc[r]
      BY <3>1, <3>2
    <3>7. QED
      BY <3>1, <3>2, <3>3, <3>4, <3>5, <3>6
  <2>2. CASE \E r \in Requests : Enqueue(r)
    <3>1. PICK r \in Requests : Enqueue(r)
      BY <2>2
    <3>2. /\ queue' = Append(queue, r) /\ UNCHANGED <<answer, inflight>>
          /\ pc[r] = "submit" /\ pc' = [pc EXCEPT ![r] = "notify"]
      BY <3>1 DEF Enqueue, serveVars
    <3>3. queue' = queue \o <<r>>
      BY <1>0, <3>2
    <3>4. <<r>> \in Seq(Requests) /\ DOMAIN <<r>> = {1} /\ <<r>>[1] = r
      OBVIOUS
    <3>5. /\ \A s \in {r} : pc[s] = "submit" /\ pc'[s] = "notify"
          /\ \A s \in Requests \ {r} : pc'[s] = pc[s]
      BY <1>0, <3>2
    <3>6. /\ \A i, j \in DOMAIN <<r>> : <<r>>[i] = <<r>>[j] => i = j
          /\ \A i \in DOMAIN <<r>> : <<r>>[i] \in {r}
          /\ \A s \in {r} : \E i \in DOMAIN <<r>> : <<r>>[i] = s
      BY <3>4
    <3>7. {r} \in SUBSET Requests
      OBVIOUS
    <3> DEFINE jobs == <<r>>
               new  == {r}
    <3>8. jobs \in Seq(Requests) /\ queue' = queue \o jobs
      BY <3>3, <3>4
    <3> HIDE DEF jobs
    <3>9. /\ \A i, j \in DOMAIN jobs : jobs[i] = jobs[j] => i = j
          /\ \A i \in DOMAIN jobs : jobs[i] \in new
          /\ \A s \in new : \E i \in DOMAIN jobs : jobs[i] = s
      BY <3>6 DEF jobs
    <3> HIDE DEF new
    <3>10. new \in SUBSET Requests /\ UNCHANGED <<answer, inflight>>
      BY <3>2, <3>7 DEF new
    <3>11. /\ \A s \in new : pc[s] = "submit" /\ pc'[s] = "notify"
           /\ \A s \in Requests \ new : pc'[s] = pc[s]
      BY <3>5 DEF new
    <3>12. QED
      BY <3>8, <3>9, <3>10, <3>11
  <2>3. QED
    BY <2>1, <2>2
<1>2. \A r \in new : r \notin BlockedSet
  BY <1>1 DEF BlockedSet, Blocked
<1>3. new \cap BlockedSet = {}
  BY <1>2
<1>4. Held(queue \o jobs, inflight, BlockedSet \cup new)
  BY <1>0, <1>1, <1>3, HeldQueued DEF JobsHeld
<1>5. \A r \in new : Blocked(r)'
  BY <1>1 DEF Blocked, RequestPhases
<1>6. \A r \in Requests \ new : Blocked(r)' <=> Blocked(r)
  BY <1>1 DEF Blocked
<1>7. BlockedSet' = BlockedSet \cup new
  BY <1>5, <1>6 DEF BlockedSet
<1>8. QED
  BY <1>1, <1>4, <1>7 DEF JobsHeld

LEMMA DropHolds ==
  ASSUME TypeOK, JobsHeld,
         Drain \/ FailQueued \/ \E r \in Requests : CancelQueued(r)
  PROVE  JobsHeld'
<1>1. queue \in Seq(Requests) /\ DOMAIN pc = Requests
  BY DEF TypeOK
<1>2. PICK i \in DOMAIN queue, kind \in {"value", "error", "cancelled"} :
        /\ queue' \in Seq(Requests) /\ Len(queue') = Len(queue) - 1
        /\ \A j \in DOMAIN queue' : queue'[j] = queue[IF j < i THEN j ELSE j + 1]
        /\ queue[i] \in Requests /\ Answer(queue[i], kind, queue[i])
        /\ \A s \in Requests : s # queue[i] => pc'[s] = pc[s]
        /\ inflight' = inflight
  <2>1. CASE Drain \/ FailQueued
    <3>1. /\ queue # <<>> /\ queue' = Tail(queue) /\ Answer(Head(queue), "error", Head(queue))
          /\ pc' = pc /\ inflight' = inflight
      BY <2>1 DEF Drain, FailQueued, serveVars
    <3>2. /\ 1 \in DOMAIN queue /\ Head(queue) = queue[1] /\ Head(queue) \in Requests
          /\ Tail(queue) \in Seq(Requests) /\ Len(Tail(queue)) = Len(queue) - 1
          /\ \A j \in DOMAIN Tail(queue) : Tail(queue)[j] = queue[IF j < 1 THEN j ELSE j + 1]
      BY <1>1, <3>1, TailRemoves
    <3>3. QED
      BY <3>1, <3>2
  <2>2. CASE \E r \in Requests : CancelQueued(r)
    <3>1. PICK r \in Requests : CancelQueued(r)
      BY <2>2
    <3>2. PICK i \in DOMAIN queue : queue[i] = r /\ queue' = RemoveAt(queue, i)
      BY <3>1 DEF CancelQueued
    <3>3. Answer(r, "cancelled", r) /\ inflight' = inflight /\ pc' = [pc EXCEPT ![r] = "dropped"]
      BY <3>1 DEF CancelQueued, serveVars
    <3>4. /\ queue' \in Seq(Requests) /\ Len(queue') = Len(queue) - 1
          /\ \A j \in DOMAIN queue' : queue'[j] = queue[IF j < i THEN j ELSE j + 1]
      BY <1>1, <3>2, RemovedAt
    <3>5. \A s \in Requests : s # r => pc'[s] = pc[s]
      BY <1>1, <3>3
    <3>6. QED
      BY <3>2, <3>3, <3>4, <3>5
  <2>3. QED
    BY <2>1, <2>2
<1>3. Held(queue', inflight, BlockedSet \ {queue[i]})
  BY <1>1, <1>2, HeldRemoved DEF JobsHeld
<1>4. BlockedSet' = BlockedSet \ {queue[i]}
  BY <1>2, AnsweredUnblocks
<1>5. QED
  BY <1>2, <1>3, <1>4 DEF JobsHeld

LEMMA AnswerHolds ==
  ASSUME TypeOK, JobsHeld, EngineAgrees,
         FailInFlight \/ \E t \in owed, kind \in {"value", "error", "cancelled"} : Deliver(t, kind)
  PROVE  JobsHeld'
<1>1. PICK t \in DOMAIN inflight, kind \in {"value", "error", "cancelled"} : \E of :
        /\ Answer(inflight[t], kind, of) /\ inflight' = Restrict(inflight, DOMAIN inflight \ {t})
        /\ UNCHANGED <<pc, queue>>
  <2>1. CASE FailInFlight
    BY <2>1 DEF FailInFlight
  <2>2. CASE \E t \in owed, kind \in {"value", "error", "cancelled"} : Deliver(t, kind)
    <3>1. PICK t \in owed, kind \in {"value", "error", "cancelled"} : Deliver(t, kind)
      BY <2>2
    <3>2. /\ Answer(inflight[t], kind, holds[t]) /\ UNCHANGED <<pc, queue>>
          /\ inflight' = Restrict(inflight, DOMAIN inflight \ {t}) /\ running
      BY <3>1 DEF Deliver, Engine!Deliver
    <3>3. t \in DOMAIN inflight
      BY <3>2 DEF EngineAgrees
    <3>4. QED
      BY <3>2, <3>3
  <2>3. QED
    BY <2>1, <2>2
<1>2. inflight[t] \in Requests
  BY DEF TypeOK
<1>3. Held(queue, inflight', BlockedSet \ {inflight[t]})
  BY <1>1, HeldAnswered DEF JobsHeld
<1>4. BlockedSet' = BlockedSet \ {inflight[t]}
  BY <1>1, <1>2, AnsweredUnblocks
<1>5. QED
  BY <1>1, <1>3, <1>4 DEF JobsHeld

LEMMA StepJobsHeld ==
  ASSUME TypeOK, JobsHeld, EngineAgrees, WorkerPhases, RequestPhases, [Next]_vars
  PROVE  JobsHeld'
<1>1. CASE QuietStep
  BY <1>1, QuietBlocks DEF JobsHeld
<1>2. CASE StartServe
  <2>1. inflight' = <<>> /\ UNCHANGED <<pc, answer, queue>> /\ DOMAIN inflight = {}
    BY <1>2 DEF StartServe, WorkerPhases, Serving, jobVars
  <2>2. Held(queue, inflight', BlockedSet)
    BY <2>1, HeldGrounded DEF JobsHeld
  <2>3. BlockedSet' = BlockedSet
    BY <2>1 DEF BlockedSet, Blocked
  <2>4. QED
    BY <2>1, <2>2, <2>3 DEF JobsHeld
<1>3. QED
  BY <1>1, <1>2, NextSteps, TakeHolds, QueueHolds, DropHolds, AnswerHolds

-----------------------------------------------------------------------------
(* The queue and its depth.                                                *)

\* A thread that has submitted stays so; only these steps move a thread.
LEMMA ThreadSteps ==
  ASSUME TypeOK, [Next]_vars
  PROVE  /\ pc' \in [Requests -> {"idle", "submit", "notify", "waiting", "cancel", "dropped", "done"}]
         /\ \A r \in Requests : pc[r] \notin {"idle", "submit"} => pc'[r] \notin {"idle", "submit"}
<1>1. pc \in [Requests -> {"idle", "submit", "notify", "waiting", "cancel", "dropped", "done"}]
  BY DEF TypeOK
<1>2. CASE UNCHANGED pc
  BY <1>1, <1>2
<1>3. CASE RunWarmup
  <2>1. /\ pc' = [r \in Requests |-> IF r \in Warmup THEN "notify" ELSE pc[r]]
    BY <1>3 DEF RunWarmup
  <2>2. QED
    BY <1>1, <2>1
<1>4. ASSUME NEW r \in Requests, RequestNext(r)
      PROVE  \E step \in {"submit", "notify", "waiting", "cancel", "dropped", "done"} :
               pc' = [pc EXCEPT ![r] = step] /\ (step = "submit" => pc[r] = "idle")
  BY <1>4 DEF RequestNext, Begin, Refuse, Enqueue, Notify, Poll, CancelQueued, CancelPulled, Return
<1>5. CASE \E r \in Requests : RequestNext(r)
  BY <1>1, <1>4, <1>5
<1>6. CASE WorkerStep \/ ServeThrows \/ Stop \/ NotifyStop \/ Quiet
  <2>1. UNCHANGED pc
    BY <1>6 DEF WorkerStep, EngineStep, WorkerCheck, Drain, Drained, StartServe, PullNow, PullIdle,
         PullBlocking, Notice, ServeReturns, Deliver, FailInFlight, FailQueued, Failed, ServeThrows,
         Stop, NotifyStop, Quiet, vars
  <2>2. QED
    BY <1>2, <2>1
<1>7. QED
  BY <1>2, <1>3, <1>5, <1>6 DEF Next, vars

LEMMA StepQueue ==
  ASSUME TypeOK, DepthKept, [Next]_vars
  PROVE  /\ queue' \in Seq(Requests) /\ DepthKept'
         /\ Len(queue') <= MaxDepth + Cardinality(Warmup)
<1>1. queue \in Seq(Requests) /\ Len(queue) \in Nat /\ DOMAIN pc = Requests /\ MaxDepth \in Nat
  BY BackendAssumption DEF TypeOK
<1>2. IsFiniteSet(Warmup)
  BY BackendAssumption, FS_Subset
<1>3. Cardinality(Warmup) \in Nat
  BY <1>2, FS_CardinalityType
<1>4. ASSUME queue' \in Seq(Requests), Len(queue') <= Len(queue)
      PROVE  /\ queue' \in Seq(Requests) /\ DepthKept'
             /\ Len(queue') <= MaxDepth + Cardinality(Warmup)
  <2>1. Len(queue') \in Nat
    BY <1>4
  <2>2. Len(queue') <= MaxDepth + Cardinality(Warmup)
    BY <1>1, <1>3, <1>4, <2>1 DEF TypeOK
  <2>3. CASE Len(queue) <= MaxDepth
    <3>1. Len(queue') <= MaxDepth
      BY <1>1, <1>4, <2>1, <2>3
    <3>2. QED
      BY <1>4, <2>2, <3>1 DEF DepthKept
  <2>4. CASE \E w \in Warmup : pc[w] \notin {"idle", "submit"}
    <3>1. \E w \in Warmup : pc'[w] \notin {"idle", "submit"}
      BY <2>4, ThreadSteps, BackendAssumption
    <3>2. QED
      BY <1>4, <2>2, <3>1 DEF DepthKept
  <2>5. QED
    BY <2>3, <2>4 DEF DepthKept
<1>5. CASE queue' = queue
  BY <1>1, <1>4, <1>5
<1>6. CASE TakeStep
  <2>1. PICK n \in 0 .. Len(queue) : queue' = SubSeq(queue, n + 1, Len(queue))
    BY <1>6 DEF TakeStep, Take
  <2>2. queue' \in Seq(Requests) /\ Len(queue') = Len(queue) - n
    BY <1>1, <2>1, RestFacts
  <2>3. QED
    BY <1>1, <1>4, <2>2
<1>7. CASE Drain \/ FailQueued
  <2>1. queue # <<>> /\ queue' = Tail(queue)
    BY <1>7 DEF Drain, FailQueued
  <2>2. queue' \in Seq(Requests) /\ Len(queue') = Len(queue) - 1
    BY <1>1, <2>1, TailRemoves
  <2>3. QED
    BY <1>1, <1>4, <2>2
<1>8. ASSUME NEW r \in Requests, CancelQueued(r)
      PROVE  queue' \in Seq(Requests) /\ Len(queue') <= Len(queue)
  <2>1. PICK i \in DOMAIN queue : queue' = RemoveAt(queue, i)
    BY <1>8 DEF CancelQueued
  <2>2. queue' \in Seq(Requests) /\ Len(queue') = Len(queue) - 1
    BY <1>1, <2>1, RemovedAt
  <2>3. QED
    BY <1>1, <2>2
<1>9. ASSUME NEW r \in Requests, Enqueue(r)
      PROVE  queue' \in Seq(Requests) /\ Len(queue') <= MaxDepth
  <2>1. queue' = Append(queue, r) /\ Len(queue) < MaxDepth
    BY <1>9 DEF Enqueue
  <2>2. queue' \in Seq(Requests) /\ Len(queue') = Len(queue) + 1
    BY <1>1, <2>1
  <2>3. QED
    BY <1>1, <2>1, <2>2
<1>10. ASSUME NEW r \in Requests, Enqueue(r)
       PROVE  /\ queue' \in Seq(Requests) /\ DepthKept'
              /\ Len(queue') <= MaxDepth + Cardinality(Warmup)
  <2>1. queue' \in Seq(Requests) /\ Len(queue') <= MaxDepth
    BY <1>9, <1>10
  <2>2. Len(queue') \in Nat
    BY <2>1
  <2>3. Len(queue') <= MaxDepth + Cardinality(Warmup)
    BY <1>1, <1>3, <2>1, <2>2
  <2>4. QED
    BY <2>1, <2>3 DEF DepthKept
<1>11. CASE RunWarmup
  <2>1. /\ queue' = queue \o SetToSeq(Warmup)
        /\ Warmup # {} /\ \A r \in Warmup : pc[r] = "submit"
        /\ pc' = [r \in Requests |-> IF r \in Warmup THEN "notify" ELSE pc[r]]
    BY <1>11 DEF RunWarmup
  <2>2. Len(queue) <= MaxDepth
    BY <2>1 DEF DepthKept
  <2>3. SetToSeq(Warmup) \in Seq(Warmup) /\ Len(SetToSeq(Warmup)) = Cardinality(Warmup)
    BY WarmupSeq
  <2>4. SetToSeq(Warmup) \in Seq(Requests)
    BY <2>3, BackendAssumption
  <2>5. queue' \in Seq(Requests) /\ Len(queue') = Len(queue) + Cardinality(Warmup)
    <3>1. ASSUME NEW jobs \in Seq(Requests)
          PROVE  queue \o jobs \in Seq(Requests) /\ Len(queue \o jobs) = Len(queue) + Len(jobs)
      BY <1>1
    <3>2. QED
      BY <2>1, <2>3, <2>4, <3>1
  <2>6. Len(queue') <= MaxDepth + Cardinality(Warmup)
    BY <1>1, <1>3, <2>2, <2>5
  <2>7. \E w \in Warmup : pc'[w] \notin {"idle", "submit"}
    BY <2>1, BackendAssumption
  <2>8. QED
    BY <2>5, <2>6, <2>7 DEF DepthKept
<1>12. CASE QuietStep
  BY <1>5, <1>12, QuietBlocks
<1>13. CASE StartServe \/ FailInFlight
            \/ \E t \in owed, kind \in {"value", "error", "cancelled"} : Deliver(t, kind)
  <2>1. queue' = queue
    BY <1>13 DEF StartServe, FailInFlight, Deliver, jobVars
  <2>2. QED
    BY <1>5, <2>1
<1>14. ASSUME NEW r \in Requests, CancelQueued(r)
       PROVE  /\ queue' \in Seq(Requests) /\ DepthKept'
              /\ Len(queue') <= MaxDepth + Cardinality(Warmup)
  BY <1>4, <1>8, <1>14
<1>15. CASE \E r \in Requests : Enqueue(r) \/ CancelQueued(r)
  BY <1>10, <1>14, <1>15
<1>16. QED
  BY <1>6, <1>7, <1>11, <1>12, <1>13, <1>15, NextSteps

-----------------------------------------------------------------------------
(* Types.                                                                  *)

\* Each job the worker takes is told its place among the tickets.
LEMMA TakeTickets ==
  ASSUME TypeOK, JobsHeld, NEW n \in 0 .. Len(queue), Take(n)
  PROVE  /\ ticket' \in [Requests -> Nat \cup {None}]
         /\ \A i \in 1 .. n : queue[i] \in Requests /\ ticket'[queue[i]] = next + i - 1
         /\ \A r \in Requests : (\A i \in 1 .. n : queue[i] # r) => ticket'[r] = ticket[r]
<1>1. /\ ticket \in [Requests -> Nat \cup {None}] /\ next \in Nat /\ n \in Nat
      /\ \A i \in 1 .. n : i \in DOMAIN queue /\ queue[i] \in Requests
  <2>1. queue \in Seq(Requests) /\ Len(queue) \in Nat
    BY DEF TypeOK
  <2>2. QED
    BY <2>1 DEF TypeOK
<1>2. \A i, j \in 1 .. n : queue[i] = queue[j] => i = j
  BY <1>1 DEF JobsHeld, Held
<1>3. ticket' = [r \in Requests |->
         IF \E i \in 1 .. n : queue[i] = r
         THEN next + (CHOOSE i \in 1 .. n : queue[i] = r) - 1 ELSE ticket[r]]
  BY DEF Take
<1>4. ASSUME NEW r \in Requests
      PROVE  /\ \A i \in 1 .. n : queue[i] = r => ticket'[r] = next + i - 1
             /\ (\A i \in 1 .. n : queue[i] # r) => ticket'[r] = ticket[r]
             /\ ticket'[r] \in Nat \cup {None}
  <2>1. CASE \A i \in 1 .. n : queue[i] # r
    BY <1>1, <1>3, <2>1
  <2>2. ASSUME NEW i \in 1 .. n, queue[i] = r PROVE ticket'[r] = next + i - 1 /\ ticket'[r] \in Nat
    <3>1. (CHOOSE j \in 1 .. n : queue[j] = r) = i
      BY <1>2, <2>2
    <3>2. ticket'[r] = next + i - 1
      BY <1>3, <2>2, <3>1
    <3>3. next + i - 1 \in Nat
      BY <1>1
    <3>4. QED
      BY <3>2, <3>3
  <2>3. QED
    BY <2>1, <2>2
<1>5. DOMAIN ticket' = Requests /\ ticket' = [r \in Requests |-> ticket'[r]]
  BY <1>3
<1>6. ticket' \in [Requests -> Nat \cup {None}]
  BY <1>4, <1>5
<1>7. QED
  BY <1>1, <1>4, <1>6

LEMMA AnswerType ==
  ASSUME TypeOK, NEW r \in Requests, NEW of \in Requests,
         NEW kind \in {"value", "error", "cancelled"}, Answer(r, kind, of)
  PROVE  answer' \in [Requests -> Job]
<1>1. answer' = [answer EXCEPT ![r] = [kind |-> kind, of |-> of]] /\ answer \in [Requests -> Job]
  BY DEF Answer, TypeOK
<1>2. [kind |-> kind, of |-> of] \in Job
  BY DEF Job
<1>3. QED
  BY <1>1, <1>2

EngineOK ==
  /\ running \in BOOLEAN /\ issued \in Nat
  /\ owed \subseteq Nat /\ posted \subseteq Nat /\ marked \subseteq owed

ServeOK ==
  /\ DOMAIN inflight \subseteq Nat /\ \A t \in DOMAIN inflight : inflight[t] \in Requests
  /\ DOMAIN holds \subseteq Nat /\ \A t \in DOMAIN holds : holds[t] \in Requests
  /\ next \in Nat /\ open \in BOOLEAN

JobsOK ==
  /\ answer \in [Requests -> Job]
  /\ ticket \in [Requests -> Nat \cup {None}]

LEMMA TakeTypes ==
  ASSUME TypeOK, JobsHeld, EngineAgrees, TakeStep
  PROVE  EngineOK' /\ ServeOK' /\ JobsOK'
<1>1. PICK n \in 0 .. Len(queue) : Take(n) /\ UNCHANGED answer
  BY DEF TakeStep
<1>2. /\ inflight' = Ticketed(inflight, next, n) /\ holds' = Ticketed(holds, issued, n)
      /\ next' = next + n /\ open' = ~stop
      /\ running /\ owed' = owed \cup issued .. issued + n - 1 /\ issued' = issued + n
      /\ UNCHANGED <<running, posted, marked>>
  BY <1>1 DEF Take, Engine!Pull
<1>3. queue \in Seq(Requests) /\ next \in Nat /\ issued \in Nat /\ n \in Nat /\ Len(queue) \in Nat
  BY DEF TypeOK
<1>4. \A t \in owed : t \notin issued .. issued + n - 1
  BY <1>2, <1>3 DEF EngineAgrees, TypeOK
<1>5. DOMAIN inflight = owed /\ DOMAIN holds = owed /\ next = issued
  BY <1>2 DEF EngineAgrees
<1>6. EngineOK'
  BY <1>2, <1>3 DEF EngineOK, TypeOK
<1>7. ASSUME NEW f, DOMAIN f = owed, \A t \in owed : f[t] \in Requests
      PROVE  /\ DOMAIN Ticketed(f, issued, n) \subseteq Nat
             /\ \A t \in DOMAIN Ticketed(f, issued, n) : Ticketed(f, issued, n)[t] \in Requests
  <2>1. /\ DOMAIN Ticketed(f, issued, n) = DOMAIN f \cup issued .. issued + n - 1
        /\ \A t \in DOMAIN f : Ticketed(f, issued, n)[t] = f[t]
        /\ \A t \in issued .. issued + n - 1 : Ticketed(f, issued, n)[t] \in Requests
    BY <1>3, <1>4, <1>7, TicketedFacts
  <2>2. owed \subseteq Nat /\ issued .. issued + n - 1 \subseteq Nat
    BY <1>3 DEF TypeOK
  <2>3. QED
    BY <1>7, <2>1, <2>2
<1>8. /\ \A t \in owed : inflight[t] \in Requests
      /\ \A t \in owed : holds[t] \in Requests
  BY <1>5 DEF TypeOK
<1>9. ServeOK'
  <2>1. DOMAIN inflight' \subseteq Nat /\ \A t \in DOMAIN inflight' : inflight'[t] \in Requests
    BY <1>2, <1>5, <1>7, <1>8
  <2>2. DOMAIN holds' \subseteq Nat /\ \A t \in DOMAIN holds' : holds'[t] \in Requests
    BY <1>2, <1>5, <1>7, <1>8
  <2>3. next' \in Nat /\ open' \in BOOLEAN
    BY <1>2, <1>3 DEF stop
  <2>4. QED
    BY <2>1, <2>2, <2>3 DEF ServeOK
<1>10. JobsOK'
  BY <1>1, TakeTickets DEF JobsOK, TypeOK
<1>11. QED
  BY <1>6, <1>9, <1>10

LEMMA StepTypes ==
  ASSUME TypeOK, JobsHeld, EngineAgrees, [Next]_vars
  PROVE  EngineOK' /\ ServeOK' /\ JobsOK'
<1>1. EngineOK /\ ServeOK /\ JobsOK
  BY DEF TypeOK, EngineOK, ServeOK, JobsOK
<1>2. CASE QuietStep
  <2>1. ASSUME NEW r \in Requests, Begin(r) \/ Notify(r) \/ Poll(r) \/ Return(r)
        PROVE  UNCHANGED <<answer, ticket, inflight, next, open, holds, engine>>
    BY <2>1 DEF Begin, Notify, Poll, Return, jobVars, serveVars
  <2>2. ASSUME \/ WorkerCheck \/ Drained \/ PullIdle \/ Failed
               \/ PullBlocking /\ wpc' = "pullwait"
               \/ Stop \/ NotifyStop \/ Quiet \/ UNCHANGED vars
        PROVE  UNCHANGED <<answer, ticket, inflight, next, open, holds, engine>>
    <3>1. CASE PullBlocking /\ wpc' = "pullwait"
      BY <3>1 DEF PullBlocking, jobVars, serveVars
    <3>2. CASE ~(PullBlocking /\ wpc' = "pullwait")
      BY <2>2, <3>2 DEF WorkerCheck, Drained, PullIdle, Failed, Stop, NotifyStop, Quiet, vars, jobVars, serveVars
    <3>3. QED
      BY <3>1, <3>2
  <2>3. ASSUME UNCHANGED <<answer, ticket, inflight, next, open, holds, engine>>
        PROVE  EngineOK' /\ ServeOK' /\ JobsOK'
    BY <1>1, <2>3 DEF EngineOK, ServeOK, JobsOK, engine
  <2>4. ASSUME NEW r \in Requests, Refuse(r) PROVE EngineOK' /\ ServeOK' /\ JobsOK'
    <3>1. Answer(r, "error", r) /\ UNCHANGED <<ticket, inflight, next, open, holds, engine>>
      BY <2>4 DEF Refuse, serveVars
    <3>2. answer' \in [Requests -> Job]
      BY <3>1, AnswerType
    <3>3. QED
      BY <1>1, <3>1, <3>2 DEF EngineOK, ServeOK, JobsOK, engine
  <2>5. ASSUME NEW r \in Requests, CancelPulled(r) PROVE EngineOK' /\ ServeOK' /\ JobsOK'
    <3>1. UNCHANGED <<answer, ticket, inflight, next, open, holds>>
      BY <2>5 DEF CancelPulled, jobVars, serveVars
    <3>2. EngineOK'
      <4>1. CASE ticket[r] # None
        <5>1. ticket[r] \in Nat
          BY <1>1, <4>1 DEF JobsOK
        <5>2. posted' = posted \cup {ticket[r]} /\ UNCHANGED <<running, issued, owed, marked>>
          BY <2>5, <4>1 DEF CancelPulled, Engine!Cancel
        <5>3. QED
          BY <1>1, <5>1, <5>2 DEF EngineOK
      <4>2. CASE ticket[r] = None
        BY <1>1, <2>5, <4>2 DEF CancelPulled, EngineOK, engine
      <4>3. QED
        BY <4>1, <4>2
    <3>3. QED
      BY <1>1, <3>1, <3>2 DEF ServeOK, JobsOK
  <2>6. CASE Notice
    <3>1. UNCHANGED <<answer, ticket, inflight, next, open, holds>>
      BY <2>6 DEF Notice, jobVars, serveVars
    <3>2. EngineOK'
      BY <1>1, <2>6 DEF Notice, Engine!Notice, EngineOK
    <3>3. QED
      BY <1>1, <3>1, <3>2 DEF ServeOK, JobsOK
  <2>7. CASE ServeReturns
    <3>1. UNCHANGED <<answer, ticket, inflight, open, holds>> /\ next' = 0
      BY <2>7 DEF ServeReturns, jobVars
    <3>2. EngineOK'
      BY <1>1, <2>7 DEF ServeReturns, Engine!Return, EngineOK
    <3>3. QED
      BY <1>1, <3>1, <3>2 DEF ServeOK, JobsOK
  <2>8. CASE ServeThrows
    <3>1. UNCHANGED <<answer, ticket, inflight>> /\ next' = 0 /\ open' = FALSE /\ holds' = <<>>
      BY <2>8 DEF ServeThrows, jobVars
    <3>2. EngineOK'
      BY <1>1, <2>8 DEF ServeThrows, Engine!Fail, EngineOK
    <3>3. DOMAIN holds' = {}
      BY <3>1
    <3>4. ServeOK'
      BY <1>1, <3>1, <3>3 DEF ServeOK
    <3>5. QED
      BY <1>1, <3>1, <3>2, <3>4 DEF JobsOK
  <2>9. QED
    BY <1>2, <2>1, <2>2, <2>3, <2>4, <2>5, <2>6, <2>7, <2>8 DEF QuietStep
<1>3. CASE RunWarmup \/ Drain \/ FailQueued \/ \E r \in Requests : Enqueue(r) \/ CancelQueued(r)
  <2>1. UNCHANGED <<ticket, inflight, next, open, holds, engine>>
    BY <1>3 DEF RunWarmup, Drain, FailQueued, Enqueue, CancelQueued, serveVars
  <2>2. CASE UNCHANGED answer
    BY <1>1, <2>1, <2>2 DEF EngineOK, ServeOK, JobsOK, engine
  <2>3. CASE RunWarmup \/ \E r \in Requests : Enqueue(r)
    BY <2>2, <2>3 DEF RunWarmup, Enqueue
  <2>4. ASSUME Drain \/ FailQueued \/ \E r \in Requests : CancelQueued(r)
        PROVE  answer' \in [Requests -> Job]
    <3>1. CASE Drain \/ FailQueued
      <4>1. queue # <<>> /\ Answer(Head(queue), "error", Head(queue)) /\ queue \in Seq(Requests)
        BY <3>1 DEF Drain, FailQueued, TypeOK
      <4>2. Head(queue) \in Requests
        BY <4>1, TailRemoves
      <4>3. QED
        BY <4>1, <4>2, AnswerType
    <3>2. CASE \E r \in Requests : CancelQueued(r)
      <4>1. PICK r \in Requests : Answer(r, "cancelled", r)
        BY <3>2 DEF CancelQueued
      <4>2. QED
        BY <4>1, AnswerType
    <3>3. QED
      BY <2>4, <3>1, <3>2
  <2>5. QED
    BY <1>1, <1>3, <2>1, <2>3, <2>4 DEF EngineOK, ServeOK, JobsOK, engine
<1>4. CASE StartServe
  <2>1. UNCHANGED <<answer, ticket>> /\ next' = 0 /\ open' = TRUE /\ inflight' = <<>> /\ holds' = <<>>
    BY <1>4 DEF StartServe, jobVars
  <2>2. EngineOK'
    BY <1>4 DEF StartServe, Engine!Start, EngineOK
  <2>3. QED
    BY <1>1, <2>1, <2>2 DEF ServeOK, JobsOK
<1>5. ASSUME NEW t \in owed, NEW kind \in {"value", "error", "cancelled"}, Deliver(t, kind)
      PROVE  EngineOK' /\ ServeOK' /\ JobsOK'
  <2>1. /\ Answer(inflight[t], kind, holds[t]) /\ UNCHANGED <<ticket, next, open>> /\ running
        /\ inflight' = Restrict(inflight, DOMAIN inflight \ {t})
        /\ holds' = Restrict(holds, DOMAIN holds \ {t})
        /\ owed' = owed \ {t} /\ marked' = marked \ {t} /\ UNCHANGED <<running, issued, posted>>
    BY <1>5 DEF Deliver, Engine!Deliver
  <2>2. t \in DOMAIN inflight /\ t \in DOMAIN holds
    BY <2>1 DEF EngineAgrees
  <2>3. answer' \in [Requests -> Job]
    BY <1>1, <2>1, <2>2, AnswerType DEF ServeOK
  <2>4. ServeOK'
    BY <1>1, <2>1 DEF ServeOK, Restrict
  <2>5. EngineOK'
    BY <1>1, <2>1 DEF EngineOK
  <2>6. QED
    BY <1>1, <2>1, <2>3, <2>4, <2>5 DEF JobsOK
<1>6. CASE FailInFlight
  <2>1. PICK t \in DOMAIN inflight :
          /\ ticket' = [ticket EXCEPT ![inflight[t]] = None]
          /\ Answer(inflight[t], "error", inflight[t])
          /\ inflight' = Restrict(inflight, DOMAIN inflight \ {t})
          /\ UNCHANGED <<next, open, holds, engine>>
    BY <1>6 DEF FailInFlight
  <2>2. answer' \in [Requests -> Job]
    BY <1>1, <2>1, AnswerType DEF ServeOK
  <2>3. ticket' \in [Requests -> Nat \cup {None}]
    BY <1>1, <2>1 DEF JobsOK
  <2>4. ServeOK'
    BY <1>1, <2>1 DEF ServeOK, Restrict
  <2>5. QED
    BY <1>1, <2>1, <2>2, <2>3, <2>4 DEF EngineOK, JobsOK, engine
<1>7. QED
  BY <1>2, <1>3, <1>4, <1>5, <1>6, NextSteps, TakeTypes


\* Which steps change the phase of the worker, the history and who is stopping.
LEMMA Frames ==
  ASSUME TypeOK, [Next]_vars
  PROVE  /\ UNCHANGED closer \/ Stop \/ NotifyStop
         /\ UNCHANGED failed \/ ServeThrows
         /\ UNCHANGED asked \/ \E r \in Requests : Poll(r)
         /\ \/ UNCHANGED wpc \/ (Wake /\ UNCHANGED <<serveVars, history, engine>>)
            \/ WorkerCheck \/ Drained \/ StartServe \/ (TakeStep /\ wpc \in Serving) \/ PullIdle
            \/ (PullBlocking /\ wpc' = "pullwait") \/ ServeReturns \/ ServeThrows \/ Failed
<1>1. CASE TakeStep /\ wpc \in Serving
  BY <1>1 DEF TakeStep, history
<1>2. CASE RunWarmup \/ Drain \/ StartServe \/ FailInFlight \/ FailQueued
           \/ \E r \in Requests : Enqueue(r) \/ CancelQueued(r)
  BY <1>2 DEF RunWarmup, Drain, StartServe, FailInFlight, FailQueued, Enqueue, CancelQueued, history
<1>3. CASE \E t \in owed, kind \in {"value", "error", "cancelled"} : Deliver(t, kind)
  BY <1>3 DEF Deliver, history
<1>4. ASSUME NEW r \in Requests,
             Begin(r) \/ Refuse(r) \/ Notify(r) \/ Poll(r) \/ CancelPulled(r) \/ Return(r)
      PROVE  /\ UNCHANGED <<closer, failed>> /\ (UNCHANGED asked \/ Poll(r))
             /\ UNCHANGED wpc \/ (Wake /\ UNCHANGED <<serveVars, history, engine>>)
  BY <1>4 DEF Begin, Refuse, Notify, Poll, CancelPulled, Return, history
<1>5. CASE Stop \/ NotifyStop
  BY <1>5 DEF Stop, NotifyStop, history
<1>6. CASE WorkerCheck \/ Drained \/ PullIdle \/ ServeReturns \/ ServeThrows \/ Failed
           \/ (PullBlocking /\ wpc' = "pullwait")
  BY <1>6 DEF WorkerCheck, Drained, PullIdle, ServeReturns, ServeThrows, Failed, PullBlocking, history
<1>7. CASE Notice \/ Quiet \/ UNCHANGED vars
  BY <1>7 DEF Notice, Quiet, vars, history
<1>8. CASE QuietStep
  BY <1>4, <1>5, <1>6, <1>7, <1>8 DEF QuietStep
<1>9. QED
  BY <1>1, <1>2, <1>3, <1>8, NextSteps

LEMMA WakeFacts ==
  ASSUME Wake
  PROVE  wpc' = wpc \/ (wpc = "asleep" /\ wpc' = "run") \/ (wpc = "pullwait" /\ wpc' = "pull")
BY DEF Wake

LEMMA StepTypeOK ==
  ASSUME TypeOK, JobsHeld, EngineAgrees, DepthKept, [Next]_vars
  PROVE  TypeOK'
<1>1. pc' \in [Requests -> {"idle", "submit", "notify", "waiting", "cancel", "dropped", "done"}]
  BY ThreadSteps
<1>2. queue' \in Seq(Requests) /\ Len(queue') <= MaxDepth + Cardinality(Warmup)
  BY StepQueue
<1>3. EngineOK' /\ ServeOK' /\ JobsOK'
  BY StepTypes
<1>4. asked' \subseteq Cancellable
  BY Frames DEF Poll, TypeOK
<1>5. failed' \in BOOLEAN
  BY Frames DEF ServeThrows, TypeOK
<1>6. closer' \in {"idle", "notify", "join"}
  BY Frames DEF Stop, NotifyStop, TypeOK
<1>7. wpc' \in {"run", "asleep", "drain", "exit", "start", "serve", "pull", "pullwait", "fail"}
  <2>1. CASE Wake
    BY <2>1, WakeFacts DEF TypeOK
  <2>2. QED
    BY <2>1, Frames DEF TypeOK, WorkerCheck, Drained, StartServe, TakeStep, PullIdle, ServeReturns,
       ServeThrows, Failed
<1>8. QED
  BY <1>1, <1>2, <1>3, <1>4, <1>5, <1>6, <1>7 DEF TypeOK, EngineOK, ServeOK, JobsOK
-----------------------------------------------------------------------------
(* The worker and the threads.                                             *)

\* Steps that begin or end a serve call.
LEMMA RunningFrames ==
  ASSUME TypeOK, [Next]_vars
  PROVE  UNCHANGED running \/ StartServe \/ ServeReturns \/ ServeThrows
<1>1. CASE QuietStep
  BY <1>1 DEF QuietStep, Begin, Refuse, Notify, Poll, CancelPulled, Return, WorkerCheck, Drained,
     PullIdle, Notice, Failed, PullBlocking, Stop, NotifyStop, Quiet, vars, engine,
     Engine!Cancel, Engine!Notice
<1>2. CASE TakeStep
  BY <1>2 DEF TakeStep, Take, Engine!Pull
<1>3. CASE \E t \in owed, kind \in {"value", "error", "cancelled"} : Deliver(t, kind)
  BY <1>3 DEF Deliver, Engine!Deliver
<1>4. CASE RunWarmup \/ Drain \/ FailInFlight \/ FailQueued
           \/ \E r \in Requests : Enqueue(r) \/ CancelQueued(r)
  BY <1>4 DEF RunWarmup, Drain, FailInFlight, FailQueued, Enqueue, CancelQueued, engine
<1>5. QED
  BY <1>1, <1>2, <1>3, <1>4, NextSteps

\* What is in flight during no call stays so.
LEMMA StepGrounded ==
  ASSUME TypeOK, WorkerPhases, [Next]_vars, wpc \notin Serving, DOMAIN inflight = {}
  PROVE  DOMAIN inflight' = {}
<1>1. ~running
  BY DEF WorkerPhases
<1>2. CASE QuietStep
  BY <1>2, QuietBlocks
<1>3. CASE \E t \in owed, kind \in {"value", "error", "cancelled"} : Deliver(t, kind)
  BY <1>1, <1>3 DEF Deliver, Engine!Deliver
<1>4. CASE FailInFlight
  BY <1>4 DEF FailInFlight
<1>5. CASE StartServe
  BY <1>5 DEF StartServe
<1>6. CASE RunWarmup \/ Drain \/ FailQueued \/ \E r \in Requests : Enqueue(r) \/ CancelQueued(r)
  BY <1>6 DEF RunWarmup, Drain, FailQueued, Enqueue, CancelQueued, serveVars
<1>7. QED
  BY <1>2, <1>3, <1>4, <1>5, <1>6, NextSteps

\* The source of requests is closed only once the backend stops.
LEMMA StepOpen ==
  ASSUME TypeOK, [Next]_vars, open \/ stop, ~ServeThrows
  PROVE  open' \/ stop'
<1>1. stop => stop'
  BY Frames DEF Stop, NotifyStop, stop
<1>2. CASE QuietStep
  <2>1. UNCHANGED open
    BY <1>2 DEF QuietStep, Begin, Refuse, Notify, Poll, CancelPulled, Return, WorkerCheck, Drained,
       PullIdle, Notice, Failed, PullBlocking, ServeReturns, Stop, NotifyStop, Quiet, vars, serveVars
  <2>2. QED
    BY <1>1, <2>1
<1>3. CASE TakeStep
  BY <1>1, <1>3 DEF TakeStep, Take
<1>4. CASE StartServe
  BY <1>4 DEF StartServe
<1>5. CASE \E t \in owed, kind \in {"value", "error", "cancelled"} : Deliver(t, kind)
  BY <1>1, <1>5 DEF Deliver
<1>6. CASE RunWarmup \/ Drain \/ FailInFlight \/ FailQueued
           \/ \E r \in Requests : Enqueue(r) \/ CancelQueued(r)
  BY <1>1, <1>6 DEF RunWarmup, Drain, FailInFlight, FailQueued, Enqueue, CancelQueued, serveVars
<1>7. QED
  BY <1>2, <1>3, <1>4, <1>5, <1>6, NextSteps

LEMMA StepWorkerPhases ==
  ASSUME TypeOK, WorkerPhases, EngineAgrees, [Next]_vars
  PROVE  WorkerPhases'
<1>1. wpc \in {"run", "asleep", "drain", "exit", "start", "serve", "pull", "pullwait", "fail"}
  BY DEF TypeOK
<1>2. stop => stop'
  BY Frames DEF Stop, NotifyStop, stop
<1>3. failed => failed'
  BY Frames DEF ServeThrows
<1>4. CASE StartServe
  BY <1>4 DEF StartServe, Engine!Start, WorkerPhases, Serving
<1>5. CASE ServeReturns
  <2>1. running' = FALSE /\ wpc' = "run" /\ inflight' = inflight /\ owed = {} /\ running
    BY <1>5 DEF ServeReturns, Engine!Return
  <2>2. DOMAIN inflight' = {}
    BY <2>1 DEF EngineAgrees
  <2>3. QED
    BY <2>1, <2>2 DEF WorkerPhases, Serving
<1>6. CASE ServeThrows
  BY <1>6 DEF ServeThrows, Engine!Fail, WorkerPhases, Serving
<1>7. CASE ~StartServe /\ ~ServeReturns /\ ~ServeThrows
  <2>1. running' = running
    BY <1>7, RunningFrames
  <2>o. wpc \in Serving => open' \/ stop'
    BY <1>7, StepOpen DEF WorkerPhases
  <2>2. CASE UNCHANGED wpc
    <3>1. (running' <=> wpc' \in Serving) /\ (wpc' \in Serving => open' \/ stop')
      BY <2>1, <2>2, <2>o DEF WorkerPhases
    <3>2. /\ wpc' \notin Serving \cup {"fail"} => DOMAIN inflight' = {}
          /\ wpc' \in {"drain", "exit"} => stop'
          /\ wpc' = "fail" => failed'
      BY <1>2, <1>3, <2>2, StepGrounded DEF WorkerPhases, Serving
    <3>3. QED
      BY <3>1, <3>2 DEF WorkerPhases, Serving
  <2>3. CASE Wake
    <3>1. CASE UNCHANGED wpc
      BY <2>2, <3>1
    <3>2. CASE wpc = "asleep" /\ wpc' = "run"
      BY <2>1, <3>2, StepGrounded DEF WorkerPhases, Serving
    <3>3. CASE wpc = "pullwait" /\ wpc' = "pull"
      BY <2>1, <2>o, <3>3 DEF WorkerPhases, Serving
    <3>4. QED
      BY <2>3, <3>1, <3>2, <3>3, WakeFacts
  <2>4. CASE WorkerCheck \/ Drained
    <3>1. /\ wpc \in {"run", "drain"} /\ wpc' \in {"drain", "start", "asleep", "exit"}
          /\ wpc' \in {"drain", "exit"} => stop
      BY <2>4 DEF WorkerCheck, Drained, WorkerPhases
    <3>2. QED
      BY <1>2, <2>1, <3>1, StepGrounded DEF WorkerPhases, Serving
  <2>5. CASE (TakeStep /\ wpc \in Serving) \/ PullIdle \/ (PullBlocking /\ wpc' = "pullwait")
    <3>1. wpc \in Serving /\ wpc' \in Serving
      BY <2>5 DEF TakeStep, PullIdle, PullBlocking, Serving
    <3>2. QED
      BY <2>1, <2>o, <3>1 DEF WorkerPhases, Serving
  <2>6. CASE Failed
    <3>1. wpc = "fail" /\ wpc' = "run" /\ DOMAIN inflight = {}
      BY <2>6 DEF Failed
    <3>2. QED
      BY <2>1, <3>1, StepGrounded DEF WorkerPhases, Serving
  <2>7. QED
    BY <1>7, <2>2, <2>3, <2>4, <2>5, <2>6, Frames
<1>8. QED
  BY <1>4, <1>5, <1>6, <1>7


\* A result goes to a job that has none, of a thread that has submitted it.
LEMMA AnswerFrames ==
  ASSUME TypeOK, JobsHeld, EngineAgrees, RequestPhases, [Next]_vars
  PROVE  \/ UNCHANGED answer
         \/ \E r \in Requests, kind \in {"value", "error", "cancelled"} :
              /\ Answer(r, kind, r) /\ answer[r].kind = "pending"
              /\ pc'[r] \notin {"idle", "submit"}
              /\ kind = "cancelled" =>
                   pc[r] = "cancel" \/ \E t \in marked : inflight[t] = r /\ running
<1>1. CASE TakeStep \/ StartServe
  BY <1>1 DEF TakeStep, StartServe, jobVars
<1>2. CASE RunWarmup \/ \E r \in Requests : Enqueue(r)
  BY <1>2 DEF RunWarmup, Enqueue
<1>3. DOMAIN pc = Requests
  BY DEF TypeOK
<1>4. ASSUME NEW r \in Requests, Refuse(r)
      PROVE  Answer(r, "error", r) /\ answer[r].kind = "pending" /\ pc'[r] \notin {"idle", "submit"}
  BY <1>3, <1>4 DEF Refuse, RequestPhases
<1>5. CASE QuietStep
  <2>1. UNCHANGED answer \/ \E r \in Requests : Refuse(r)
    BY <1>5 DEF QuietStep, Begin, Refuse, Notify, Poll, CancelPulled, Return, WorkerCheck, Drained,
       PullIdle, Notice, Failed, PullBlocking, ServeReturns, ServeThrows, Stop, NotifyStop, Quiet,
       vars, jobVars
  <2>2. QED
    BY <1>4, <2>1
<1>6. ASSUME NEW r \in Requests, Blocked(r), NEW kind \in {"value", "error", "cancelled"},
             Answer(r, kind, r), pc'[r] = pc[r] \/ pc'[r] = "dropped",
             kind = "cancelled" => pc[r] = "cancel" \/ \E t \in marked : inflight[t] = r /\ running
      PROVE  \E s \in Requests, of \in {"value", "error", "cancelled"} :
              /\ Answer(s, of, s) /\ answer[s].kind = "pending"
              /\ pc'[s] \notin {"idle", "submit"}
              /\ of = "cancelled" =>
                   pc[s] = "cancel" \/ \E t \in marked : inflight[t] = s /\ running
  <2>1. answer[r].kind = "pending" /\ pc'[r] \notin {"idle", "submit"}
    BY <1>6 DEF Blocked
  <2>2. QED
    BY <1>6, <2>1
<1>7. CASE Drain \/ FailQueued
  <2>1. /\ queue # <<>> /\ Answer(Head(queue), "error", Head(queue)) /\ pc' = pc
        /\ queue \in Seq(Requests)
    BY <1>7 DEF Drain, FailQueued, TypeOK
  <2>2. 1 \in DOMAIN queue /\ Head(queue) = queue[1] /\ Head(queue) \in Requests
    BY <2>1, TailRemoves
  <2>3. Blocked(Head(queue))
    BY <2>2 DEF JobsHeld, Held, BlockedSet
  <2>4. QED
    BY <1>6, <2>1, <2>2, <2>3
<1>8. ASSUME NEW r \in Requests, CancelQueued(r)
      PROVE  Answer(r, "cancelled", r) /\ Blocked(r) /\ pc[r] = "cancel" /\ pc'[r] = "dropped"
  <2>1. PICK i \in DOMAIN queue : queue[i] = r
    BY <1>8 DEF CancelQueued
  <2>2. Blocked(r)
    BY <2>1 DEF JobsHeld, Held, BlockedSet
  <2>3. QED
    BY <1>3, <1>8, <2>2 DEF CancelQueued
<1>9. ASSUME NEW t \in DOMAIN inflight PROVE inflight[t] \in Requests /\ Blocked(inflight[t])
  BY DEF JobsHeld, Held, BlockedSet
<1>10. CASE FailInFlight
  <2>1. PICK t \in DOMAIN inflight : Answer(inflight[t], "error", inflight[t]) /\ pc' = pc
    BY <1>10 DEF FailInFlight
  <2>2. QED
    BY <1>6, <1>9, <2>1
<1>11. CASE \E t \in owed, kind \in {"value", "error", "cancelled"} : Deliver(t, kind)
  <2>1. PICK t \in owed, kind \in {"value", "error", "cancelled"} : Deliver(t, kind)
    BY <1>11
  <2>2. /\ Answer(inflight[t], kind, holds[t]) /\ pc' = pc /\ running
        /\ (kind = "cancelled") = (t \in marked)
    BY <2>1 DEF Deliver, Engine!Deliver
  <2>3. t \in DOMAIN inflight /\ inflight[t] = holds[t]
    BY <2>2 DEF EngineAgrees
  <2>4. kind = "cancelled" => \E u \in marked : inflight[u] = inflight[t] /\ running
    BY <2>2
  <2>5. QED
    BY <1>6, <1>9, <2>2, <2>3, <2>4
<1>12. CASE \E r \in Requests : CancelQueued(r)
  BY <1>6, <1>8, <1>12
<1>13. QED
  BY <1>1, <1>2, <1>5, <1>7, <1>10, <1>11, <1>12, NextSteps

LEMMA StepRequestPhases ==
  ASSUME TypeOK, JobsHeld, EngineAgrees, RequestPhases, [Next]_vars
  PROVE  RequestPhases'
<1>1. /\ pc \in [Requests -> {"idle", "submit", "notify", "waiting", "cancel", "dropped", "done"}]
      /\ answer \in [Requests -> Job]
  BY DEF TypeOK
<1>2. ASSUME NEW r \in Requests
      PROVE  answer'[r].of = r /\ (answer'[r] = answer[r] \/
               (answer[r].kind = "pending" /\ answer'[r].kind # "pending"
                /\ pc'[r] \notin {"idle", "submit"}))
  <2>1. CASE UNCHANGED answer
    BY <2>1 DEF RequestPhases
  <2>2. CASE \E s \in Requests, kind \in {"value", "error", "cancelled"} :
               Answer(s, kind, s) /\ answer[s].kind = "pending" /\ pc'[s] \notin {"idle", "submit"}
    <3>1. PICK s \in Requests, kind \in {"value", "error", "cancelled"} :
               Answer(s, kind, s) /\ answer[s].kind = "pending" /\ pc'[s] \notin {"idle", "submit"}
      BY <2>2
    <3>2. answer' = [answer EXCEPT ![s] = [kind |-> kind, of |-> s]]
      BY <3>1 DEF Answer
    <3>3. CASE r = s
      <4>1. answer'[r] = [kind |-> kind, of |-> r]
        BY <1>1, <3>2, <3>3
      <4>2. answer'[r].kind = kind /\ answer'[r].of = r
        BY <4>1
      <4>3. QED
        BY <3>1, <3>3, <4>2
    <3>4. CASE r # s
      BY <1>1, <3>2, <3>4 DEF RequestPhases
    <3>5. QED
      BY <3>3, <3>4
  <2>3. QED
    BY <2>1, <2>2, AnswerFrames
<1>3. ASSUME NEW r \in Requests
      PROVE  /\ pc'[r] \in {"idle", "submit"} => pc[r] \in {"idle", "submit"}
             /\ pc'[r] = "done" => pc[r] = "done" \/ answer[r].kind # "pending"
             /\ pc'[r] = "cancel" => r \in asked'
  <2>1. CASE UNCHANGED pc
    BY <2>1, Frames DEF RequestPhases, Poll
  <2>2. CASE \E s \in Requests : RequestNext(s)
    <3>1. PICK s \in Requests : RequestNext(s)
      BY <2>2
    <3>2. asked \subseteq asked'
      BY Frames DEF Poll
    <3>3. s # r => pc'[r] = pc[r]
      BY <1>1, <3>1 DEF RequestNext, Begin, Refuse, Enqueue, Notify, Poll, CancelQueued, CancelPulled, Return
    <3>4. pc'[s] \in {"idle", "submit"} => pc[s] \in {"idle", "submit"}
      BY <1>1, <3>1 DEF RequestNext, Begin, Refuse, Enqueue, Notify, Poll, CancelQueued, CancelPulled, Return
    <3>5. pc'[s] = "done" => pc[s] = "done" \/ answer[s].kind # "pending"
      BY <1>1, <3>1 DEF RequestNext, Begin, Refuse, Enqueue, Notify, Poll, CancelQueued, CancelPulled, Return
    <3>6. pc'[s] = "cancel" => s \in asked'
      BY <1>1, <3>1 DEF RequestNext, Begin, Refuse, Enqueue, Notify, Poll, CancelQueued, CancelPulled, Return
    <3>7. QED
      BY <3>2, <3>3, <3>4, <3>5, <3>6 DEF RequestPhases
  <2>3. CASE RunWarmup
    <3>1. /\ pc' = [s \in Requests |-> IF s \in Warmup THEN "notify" ELSE pc[s]]
          /\ asked' = asked
      BY <2>3 DEF RunWarmup, history
    <3>2. QED
      BY <1>1, <3>1 DEF RequestPhases
  <2>4. CASE WorkerStep \/ ServeThrows \/ Stop \/ NotifyStop \/ Quiet
    <3>1. UNCHANGED pc
      BY <2>4 DEF WorkerStep, EngineStep, WorkerCheck, Drain, Drained, StartServe, PullNow, PullIdle,
           PullBlocking, Notice, ServeReturns, Deliver, FailInFlight, FailQueued, Failed, ServeThrows,
           Stop, NotifyStop, Quiet, vars
    <3>2. QED
      BY <2>1, <3>1
  <2>5. QED
    BY <2>1, <2>2, <2>3, <2>4 DEF Next, vars
<1>4. QED
  BY <1>2, <1>3 DEF RequestPhases

-----------------------------------------------------------------------------
(* The backend and the engine.                                             *)

\* Steps by which no ticket is given, taken back or answered.
LEMMA TicketFrames ==
  ASSUME TypeOK, [Next]_vars
  PROVE  \/ UNCHANGED <<ticket, inflight, next, holds, issued, owed>>
         \/ StartServe \/ (TakeStep /\ wpc \in Serving) \/ FailInFlight \/ ServeReturns \/ ServeThrows
         \/ \E t \in owed, kind \in {"value", "error", "cancelled"} : Deliver(t, kind)
<1>1. CASE RunWarmup \/ Drain \/ FailQueued \/ \E r \in Requests : Enqueue(r) \/ CancelQueued(r)
  BY <1>1 DEF RunWarmup, Drain, FailQueued, Enqueue, CancelQueued, serveVars, engine
<1>2. CASE QuietStep
  BY <1>2 DEF QuietStep, Begin, Refuse, Notify, Poll, CancelPulled, Return, WorkerCheck, Drained,
     PullIdle, Notice, Failed, PullBlocking, Stop, NotifyStop, Quiet, vars, jobVars, serveVars, engine,
     Engine!Cancel, Engine!Notice
<1>3. QED
  BY <1>1, <1>2, NextSteps

LEMMA TakeAgrees ==
  ASSUME TypeOK, JobsHeld, EngineAgrees, TakeStep
  PROVE  EngineAgrees'
<1>1. PICK n \in 0 .. Len(queue) : Take(n)
  BY DEF TakeStep
<1>2. /\ inflight' = Ticketed(inflight, next, n) /\ holds' = Ticketed(holds, issued, n)
      /\ next' = next + n /\ running /\ owed' = owed \cup issued .. issued + n - 1
      /\ issued' = issued + n
  BY <1>1 DEF Take, Engine!Pull
<1>3. queue \in Seq(Requests) /\ issued \in Nat /\ n \in Nat /\ owed \subseteq Nat /\ Len(queue) \in Nat
  BY DEF TypeOK
<1>4. /\ DOMAIN inflight = owed /\ DOMAIN holds = owed /\ next = issued
      /\ \A t \in owed : inflight[t] = holds[t] /\ ticket[inflight[t]] = t /\ t < issued
  BY <1>2 DEF EngineAgrees
<1>5. \A t \in owed : t \notin issued .. issued + n - 1
  BY <1>3, <1>4
<1>6. /\ \A i \in 1 .. n : queue[i] \in Requests /\ ticket'[queue[i]] = issued + i - 1
      /\ \A r \in Requests : (\A i \in 1 .. n : queue[i] # r) => ticket'[r] = ticket[r]
  BY <1>1, <1>4, TakeTickets
<1>7. ASSUME NEW f, DOMAIN f = owed
      PROVE  /\ DOMAIN Ticketed(f, issued, n) = owed'
             /\ \A t \in owed : Ticketed(f, issued, n)[t] = f[t]
             /\ \A t \in issued .. issued + n - 1 :
                  t - issued + 1 \in 1 .. n /\ Ticketed(f, issued, n)[t] = queue[t - issued + 1]
  <2>1. DOMAIN Ticketed(f, issued, n) = owed'
    BY <1>2, <1>7 DEF Ticketed
  <2>2. \A t \in owed : Ticketed(f, issued, n)[t] = f[t]
    BY <1>7 DEF Ticketed
  <2>3. \A t \in issued .. issued + n - 1 : t - issued + 1 \in 1 .. n
    BY <1>3
  <2>4. \A t \in issued .. issued + n - 1 : Ticketed(f, issued, n)[t] = queue[t - issued + 1]
    BY <1>5, <1>7, Zenon DEF Ticketed
  <2>5. QED
    BY <2>1, <2>2, <2>3, <2>4
<1>8. DOMAIN inflight' = owed' /\ DOMAIN holds' = owed' /\ next' = issued'
  BY <1>2, <1>4, <1>7
<1>9. ASSUME NEW t \in owed
      PROVE  inflight'[t] = holds'[t] /\ ticket'[inflight'[t]] = t /\ t < issued'
  <2>1. inflight'[t] = inflight[t] /\ holds'[t] = holds[t]
    BY <1>2, <1>4, <1>7
  <2>2. inflight[t] \in Requests
    BY <1>4 DEF TypeOK
  <2>3. \A i \in 1 .. n : i \in DOMAIN queue
    BY <1>3
  <2>4. \A i \in 1 .. n : queue[i] # inflight[t]
    BY <1>4, <2>3 DEF JobsHeld, Held
  <2>5. ticket'[inflight[t]] = ticket[inflight[t]]
    BY <1>6, <2>2, <2>4
  <2>6. t < issued'
    BY <1>2, <1>3, <1>4
  <2>7. QED
    BY <1>4, <2>1, <2>5, <2>6
<1>10. ASSUME NEW t \in issued .. issued + n - 1
       PROVE  inflight'[t] = holds'[t] /\ ticket'[inflight'[t]] = t /\ t < issued'
  <2>1. t - issued + 1 \in 1 .. n /\ t \in Nat /\ t < issued' /\ issued + (t - issued + 1) - 1 = t
    BY <1>2, <1>3
  <2>2. inflight'[t] = queue[t - issued + 1] /\ holds'[t] = queue[t - issued + 1]
    BY <1>2, <1>4, <1>7
  <2>3. ticket'[queue[t - issued + 1]] = issued + (t - issued + 1) - 1
    BY <1>6, <2>1
  <2>4. QED
    BY <2>1, <2>2, <2>3
<1>11. QED
  BY <1>2, <1>8, <1>9, <1>10 DEF EngineAgrees

LEMMA StepEngineAgrees ==
  ASSUME TypeOK, JobsHeld, EngineAgrees, WorkerPhases, [Next]_vars
  PROVE  EngineAgrees'
<1>1. CASE StartServe
  <2>1. /\ inflight' = <<>> /\ holds' = <<>> /\ next' = 0 /\ issued' = 0 /\ owed' = {}
    BY <1>1 DEF StartServe, Engine!Start
  <2>2. DOMAIN inflight' = {} /\ DOMAIN holds' = {}
    BY <2>1
  <2>3. QED
    BY <2>1, <2>2 DEF EngineAgrees
<1>2. CASE ServeReturns \/ ServeThrows
  BY <1>2 DEF ServeReturns, ServeThrows, Engine!Return, Engine!Fail, EngineAgrees
<1>3. CASE FailInFlight
  BY <1>3 DEF FailInFlight, EngineAgrees, WorkerPhases, Serving, engine
<1>4. ASSUME NEW t \in owed, NEW kind \in {"value", "error", "cancelled"}, Deliver(t, kind)
      PROVE  EngineAgrees'
  <2>1. /\ UNCHANGED <<ticket, next, issued>> /\ running
        /\ inflight' = Restrict(inflight, DOMAIN inflight \ {t})
        /\ holds' = Restrict(holds, DOMAIN holds \ {t}) /\ owed' = owed \ {t}
    BY <1>4 DEF Deliver, Engine!Deliver
  <2>2. QED
    BY <2>1 DEF EngineAgrees, Restrict
<1>5. CASE UNCHANGED <<ticket, inflight, next, holds, issued, owed>>
  <2>1. UNCHANGED running \/ StartServe \/ ServeReturns \/ ServeThrows
    BY RunningFrames
  <2>2. CASE UNCHANGED running
    BY <1>5, <2>2 DEF EngineAgrees
  <2>3. QED
    BY <1>1, <1>2, <2>1, <2>2
<1>6. QED
  BY <1>1, <1>2, <1>3, <1>4, <1>5, TicketFrames, TakeAgrees

-----------------------------------------------------------------------------
(* Tickets belong to one request each, until a serve call throws.          *)

\* What is queued was queued or has just been submitted.
LEMMA QueueFrames ==
  ASSUME TypeOK, [Next]_vars
  PROVE  \A i \in DOMAIN queue' :
           \/ \E j \in DOMAIN queue : queue'[i] = queue[j]
           \/ queue'[i] \in Requests /\ pc[queue'[i]] = "submit"
<1>1. queue \in Seq(Requests) /\ Len(queue) \in Nat
  BY DEF TypeOK
<1>2. CASE queue' = queue
  BY <1>2
<1>3. CASE TakeStep
  <2>1. PICK n \in 0 .. Len(queue) : queue' = SubSeq(queue, n + 1, Len(queue))
    BY <1>3 DEF TakeStep, Take
  <2>2. \A i \in DOMAIN queue' : i + n \in DOMAIN queue /\ queue'[i] = queue[i + n]
    BY <1>1, <2>1, RestFacts
  <2>3. QED
    BY <2>2
<1>4. CASE Drain \/ FailQueued
  <2>1. queue # <<>> /\ queue' = Tail(queue)
    BY <1>4 DEF Drain, FailQueued
  <2>2. ASSUME NEW i \in DOMAIN queue' PROVE i + 1 \in DOMAIN queue /\ queue'[i] = queue[i + 1]
    BY <1>1, <2>1
  <2>3. QED
    BY <2>2
<1>5. ASSUME NEW r \in Requests, CancelQueued(r)
      PROVE  \A i \in DOMAIN queue' : \E j \in DOMAIN queue : queue'[i] = queue[j]
  <2>1. PICK k \in DOMAIN queue : queue' = RemoveAt(queue, k)
    BY <1>5 DEF CancelQueued
  <2>2. /\ queue' \in Seq(Requests) /\ Len(queue') = Len(queue) - 1
        /\ \A i \in DOMAIN queue' : queue'[i] = queue[IF i < k THEN i ELSE i + 1]
    BY <1>1, <2>1, RemovedAt
  <2>3. \A i \in DOMAIN queue' : (IF i < k THEN i ELSE i + 1) \in DOMAIN queue
    BY <1>1, <2>2
  <2>4. QED
    BY <2>2, <2>3
<1>6. ASSUME NEW jobs \in Seq(Requests), queue' = queue \o jobs,
             \A k \in DOMAIN jobs : pc[jobs[k]] = "submit"
      PROVE  \A i \in DOMAIN queue' :
               \/ \E j \in DOMAIN queue : queue'[i] = queue[j]
               \/ queue'[i] \in Requests /\ pc[queue'[i]] = "submit"
  <2> SUFFICES ASSUME NEW i \in DOMAIN queue'
               PROVE  \/ \E j \in DOMAIN queue : queue'[i] = queue[j]
                      \/ queue'[i] \in Requests /\ pc[queue'[i]] = "submit"
    OBVIOUS
  <2>1. CASE i <= Len(queue)
    BY <1>1, <1>6, <2>1
  <2>2. CASE ~(i <= Len(queue))
    <3>1. i - Len(queue) \in DOMAIN jobs /\ queue'[i] = jobs[i - Len(queue)]
      BY <1>1, <1>6, <2>2
    <3>2. jobs[i - Len(queue)] \in Requests
      BY <3>1
    <3>3. QED
      BY <1>6, <3>1, <3>2
  <2>3. QED
    BY <2>1, <2>2
<1>7. CASE RunWarmup
  <2>1. queue' = queue \o SetToSeq(Warmup) /\ \A r \in Warmup : pc[r] = "submit"
    BY <1>7 DEF RunWarmup
  <2>2. SetToSeq(Warmup) \in Seq(Warmup)
    BY WarmupSeq
  <2>3. /\ SetToSeq(Warmup) \in Seq(Requests)
        /\ \A k \in DOMAIN SetToSeq(Warmup) : SetToSeq(Warmup)[k] \in Warmup
    BY <2>2, BackendAssumption
  <2>4. QED
    BY <1>6, <2>1, <2>3
<1>8. ASSUME NEW r \in Requests, Enqueue(r)
      PROVE  \A i \in DOMAIN queue' :
               \/ \E j \in DOMAIN queue : queue'[i] = queue[j]
               \/ queue'[i] \in Requests /\ pc[queue'[i]] = "submit"
  <2>1. queue' = queue \o <<r>> /\ pc[r] = "submit"
    BY <1>1, <1>8 DEF Enqueue
  <2>2. <<r>> \in Seq(Requests) /\ \A k \in DOMAIN <<r>> : <<r>>[k] = r
    OBVIOUS
  <2>3. QED
    BY <1>6, <2>1, <2>2
<1>9. CASE QuietStep
  BY <1>2, <1>9, QuietBlocks
<1>10. CASE StartServe \/ FailInFlight
            \/ \E t \in owed, kind \in {"value", "error", "cancelled"} : Deliver(t, kind)
  <2>1. queue' = queue
    BY <1>10 DEF StartServe, FailInFlight, Deliver, jobVars
  <2>2. QED
    BY <1>2, <2>1
<1>11. CASE \E r \in Requests : Enqueue(r) \/ CancelQueued(r)
  BY <1>5, <1>8, <1>11
<1>12. QED
  BY <1>3, <1>4, <1>7, <1>9, <1>10, <1>11, NextSteps

\* Only asked-for tickets are posted and marked.
PostedAreAsked == posted \cup marked \subseteq {ticket[r] : r \in asked}

LEMMA StepPosted ==
  ASSUME TypeOK, RequestPhases, PostedAreAsked, [Next]_vars,
         \A r \in asked : ticket[r] \in Nat => ticket'[r] = ticket[r]
  PROVE  PostedAreAsked'
<1>1. asked \subseteq asked' /\ asked \subseteq Requests
  BY Frames, BackendAssumption DEF Poll, TypeOK
<1>2. ASSUME NEW t, t \in posted \cup marked PROVE \E r \in asked' : t = ticket'[r]
  <2>1. t \in Nat
    BY <1>2 DEF TypeOK
  <2>2. PICK r \in asked : t = ticket[r]
    BY <1>2 DEF PostedAreAsked
  <2>3. QED
    BY <1>1, <2>1, <2>2
<1>3. CASE (posted' \cup marked') \subseteq (posted \cup marked)
  BY <1>2, <1>3 DEF PostedAreAsked
<1>4. ASSUME NEW r \in Requests, CancelPulled(r) PROVE PostedAreAsked'
  <2>1. r \in asked /\ UNCHANGED ticket
    BY <1>4 DEF CancelPulled, RequestPhases, jobVars
  <2>2. CASE ticket[r] # None
    <3>1. posted' = posted \cup {ticket[r]} /\ marked' = marked
      BY <1>4, <2>2 DEF CancelPulled, Engine!Cancel
    <3>2. ticket[r] \in {ticket'[s] : s \in asked'}
      BY <1>1, <2>1
    <3>3. QED
      BY <1>2, <3>1, <3>2 DEF PostedAreAsked
  <2>3. CASE ticket[r] = None
    BY <1>3, <1>4, <2>3 DEF CancelPulled, engine
  <2>4. QED
    BY <2>2, <2>3
<1>5. CASE UNCHANGED engine
  BY <1>3, <1>5 DEF engine
<1>6. CASE StartServe
  BY <1>3, <1>6 DEF StartServe, Engine!Start
<1>7. CASE TakeStep
  BY <1>3, <1>7 DEF TakeStep, Take, Engine!Pull
<1>8. CASE Notice
  BY <1>3, <1>8 DEF Notice, Engine!Notice
<1>9. CASE ServeReturns \/ ServeThrows
  BY <1>3, <1>9 DEF ServeReturns, ServeThrows, Engine!Return, Engine!Fail
<1>10. CASE \E t \in owed, kind \in {"value", "error", "cancelled"} : Deliver(t, kind)
  BY <1>3, <1>10 DEF Deliver, Engine!Deliver
<1>11. CASE RunWarmup \/ Drain \/ FailInFlight \/ FailQueued
            \/ \E r \in Requests : Enqueue(r) \/ CancelQueued(r)
  BY <1>5, <1>11 DEF RunWarmup, Drain, FailInFlight, FailQueued, Enqueue, CancelQueued
<1>12. CASE QuietStep
  BY <1>4, <1>5, <1>8, <1>9, <1>12 DEF QuietStep, Begin, Refuse, Notify, Poll, Return, WorkerCheck,
     Drained, PullIdle, Failed, PullBlocking, Stop, NotifyStop, Quiet, vars
<1>13. QED
  BY <1>6, <1>7, <1>10, <1>11, <1>12, NextSteps


LEMMA TakeIsOwn ==
  ASSUME TypeOK, JobsHeld, EngineAgrees, TicketsAreOwn, RequestPhases, [Next]_vars,
         TakeStep, wpc \in Serving, ~failed
  PROVE  TicketsAreOwn'
<1>1. PICK n \in 0 .. Len(queue) : Take(n) /\ UNCHANGED <<pc, history>> /\ wpc' = "serve"
  BY DEF TakeStep
<1>2. /\ next' = next + n /\ running /\ queue' = SubSeq(queue, n + 1, Len(queue))
      /\ UNCHANGED asked
  BY <1>1 DEF Take, Engine!Pull, history
<1>3. /\ queue \in Seq(Requests) /\ next \in Nat /\ n \in Nat /\ Len(queue) \in Nat
      /\ asked \subseteq Requests /\ ticket \in [Requests -> Nat \cup {None}]
  BY BackendAssumption DEF TypeOK
<1>4. /\ \A i \in 1 .. n : queue[i] \in Requests /\ ticket'[queue[i]] = next + i - 1
      /\ \A r \in Requests : (\A i \in 1 .. n : queue[i] # r) => ticket'[r] = ticket[r]
  BY <1>1, TakeTickets
<1>5. /\ \A r, s \in Requests : ticket[r] = ticket[s] => r = s \/ ticket[r] = None
      /\ \A r \in Requests : pc[r] \in {"idle", "submit"} => ticket[r] = None
      /\ \A i \in DOMAIN queue : ticket[queue[i]] = None
      /\ \A r \in Requests : ticket[r] < next
      /\ PostedAreAsked
  BY <1>2 DEF TicketsAreOwn, PostedAreAsked
<1>6. \A i \in 1 .. n : i \in DOMAIN queue
  BY <1>3
<1>7. ASSUME NEW r \in Requests
      PROVE  \/ \E i \in 1 .. n : r = queue[i] /\ ticket'[r] = next + i - 1
             \/ ticket'[r] = ticket[r] /\ ticket[r] < next /\ \A i \in 1 .. n : queue[i] # r
  BY <1>4, <1>5
<1>8. ASSUME NEW r \in Requests PROVE ticket'[r] < next'
  <2>1. CASE \E i \in 1 .. n : ticket'[r] = next + i - 1
    BY <1>2, <1>3, <2>1
  <2>2. CASE ticket'[r] = ticket[r] /\ ticket[r] < next
    <3>1. ticket[r] \in Nat \cup {-1}
      BY <1>3 DEF None
    <3>2. QED
      BY <1>2, <1>3, <2>2, <3>1
  <2>3. QED
    BY <1>7, <2>1, <2>2
<1>9. ASSUME NEW r \in Requests, NEW s \in Requests, ticket'[r] = ticket'[s]
      PROVE  r = s \/ ticket'[r] = None
  <2>0. ticket[r] \in Nat \cup {-1} /\ ticket[s] \in Nat \cup {-1}
    BY <1>3 DEF None
  <2>1. CASE /\ \E i \in 1 .. n : r = queue[i] /\ ticket'[r] = next + i - 1
             /\ \E j \in 1 .. n : s = queue[j] /\ ticket'[s] = next + j - 1
    <3>1. PICK i \in 1 .. n, j \in 1 .. n :
            /\ r = queue[i] /\ ticket'[r] = next + i - 1
            /\ s = queue[j] /\ ticket'[s] = next + j - 1
      BY <2>1
    <3>2. i = j
      BY <1>3, <1>9, <3>1
    <3>3. QED
      BY <3>1, <3>2
  <2>2. CASE ticket'[r] = ticket[r] /\ ticket'[s] = ticket[s]
    BY <1>5, <1>9, <2>2
  <2>3. CASE /\ \E i \in 1 .. n : ticket'[r] = next + i - 1
             /\ ticket'[s] = ticket[s] /\ ticket[s] < next
    <3>1. PICK i \in 1 .. n : ticket'[r] = next + i - 1
      BY <2>3
    <3>2. next + i - 1 = ticket[s] /\ ticket[s] < next
      BY <1>9, <2>3, <3>1
    <3>3. QED
      BY <1>3, <2>0, <3>2
  <2>4. CASE /\ \E i \in 1 .. n : ticket'[s] = next + i - 1
             /\ ticket'[r] = ticket[r] /\ ticket[r] < next
    BY <1>3, <1>9, <2>0, <2>4
  <2>5. QED
    BY <1>7, <2>1, <2>2, <2>3, <2>4
<1>10. ASSUME NEW r \in Requests, pc'[r] \in {"idle", "submit"} PROVE ticket'[r] = None
  <2>1. pc[r] \in {"idle", "submit"}
    BY <1>1, <1>10
  <2>2. ASSUME NEW i \in 1 .. n PROVE queue[i] # r
    BY <1>6, <2>1 DEF JobsHeld, Held, BlockedSet, Blocked
  <2>3. QED
    BY <1>4, <1>5, <2>1, <2>2
<1>11. ASSUME NEW i \in DOMAIN queue' PROVE ticket'[queue'[i]] = None
  <2>1. i + n \in DOMAIN queue /\ queue'[i] = queue[i + n]
    BY <1>2, <1>3, RestFacts
  <2>2. \A j \in 1 .. n : j # i + n
    BY <1>2, <1>3
  <2>3. \A j \in 1 .. n : queue[j] # queue[i + n]
    BY <1>6, <2>1, <2>2 DEF JobsHeld, Held
  <2>4. queue[i + n] \in Requests
    BY <1>3, <2>1
  <2>5. QED
    BY <1>4, <1>5, <2>1, <2>3, <2>4
<1>12. ASSUME NEW r \in asked, ticket[r] \in Nat PROVE ticket'[r] = ticket[r]
  <2>1. \A i \in 1 .. n : queue[i] # r
    BY <1>5, <1>6, <1>12 DEF None
  <2>2. QED
    BY <1>3, <1>4, <2>1
<1>13. PostedAreAsked'
  BY <1>5, <1>12, StepPosted
<1>14. QED
  BY <1>1, <1>8, <1>9, <1>10, <1>11, <1>13 DEF TicketsAreOwn, PostedAreAsked

LEMMA StepTicketsAreOwn ==
  ASSUME TypeOK, JobsHeld, EngineAgrees, WorkerPhases, RequestPhases, TicketsAreOwn, [Next]_vars
  PROVE  TicketsAreOwn'
<1> SUFFICES ASSUME ~failed' PROVE TicketsAreOwn'
  BY DEF TicketsAreOwn
<1>1. ~failed /\ ~ServeThrows /\ wpc # "fail" /\ ~FailInFlight
  BY Frames DEF ServeThrows, WorkerPhases, FailInFlight
<1>2. CASE TakeStep /\ wpc \in Serving
  BY <1>1, <1>2, TakeIsOwn
<1>3. CASE StartServe
  <2>1. wpc = "start" /\ next' = 0 /\ UNCHANGED <<pc, ticket, queue>> /\ wpc' = "serve"
    BY <1>3 DEF StartServe, jobVars
  <2>2. \A r \in Requests : ticket[r] = None
    BY <1>1, <2>1 DEF TicketsAreOwn
  <2>3. \A r \in Requests : ticket'[r] < next'
    BY <2>1, <2>2 DEF None
  <2>4. PostedAreAsked'
    BY <1>3 DEF StartServe, Engine!Start, PostedAreAsked
  <2>5. QED
    BY <1>1, <2>1, <2>2, <2>3, <2>4 DEF TicketsAreOwn, PostedAreAsked
<1>4. CASE ~(TakeStep /\ wpc \in Serving) /\ ~StartServe
  <2>1. ticket' = ticket /\ (ServeReturns \/ next' = next)
    BY <1>1, <1>4, TicketFrames DEF ServeReturns, Deliver, jobVars
  <2>2. \A r, s \in Requests : ticket'[r] = ticket'[s] => r = s \/ ticket'[r] = None
    BY <1>1, <2>1 DEF TicketsAreOwn
  <2>3. \A r \in Requests : pc'[r] \in {"idle", "submit"} => ticket'[r] = None
    BY <1>1, <2>1, ThreadSteps DEF TicketsAreOwn
  <2>4. \A i \in DOMAIN queue' : ticket'[queue'[i]] = None
    BY <1>1, <2>1, QueueFrames DEF TicketsAreOwn
  <2>5. running' => \A r \in Requests : ticket'[r] < next'
    <3>1. CASE ServeReturns
      BY <3>1 DEF ServeReturns, Engine!Return
    <3>2. CASE ~ServeReturns
      <4>1. running' = running
        BY <1>1, <1>4, <3>2, RunningFrames
      <4>2. QED
        BY <1>1, <2>1, <3>2, <4>1 DEF TicketsAreOwn
    <3>3. QED
      BY <3>1, <3>2
  <2>6. PostedAreAsked'
    BY <1>1, <2>1, StepPosted DEF TicketsAreOwn, PostedAreAsked
  <2>7. stop => stop'
    BY Frames DEF Stop, NotifyStop, stop
  <2>8. wpc' \in {"asleep", "start"} \/ (wpc' = "run" /\ ~stop')
          => wpc \in {"asleep", "start"} \/ (wpc = "run" /\ ~stop)
    <3>1. CASE UNCHANGED wpc
      BY <2>7, <3>1
    <3>2. CASE Wake
      BY <2>7, <3>2, WakeFacts
    <3>3. CASE WorkerCheck
      BY <3>3 DEF WorkerCheck
    <3>4. CASE ServeReturns
      BY <2>7, <3>4 DEF ServeReturns, WorkerPhases, Serving
    <3>5. CASE Drained \/ PullIdle \/ (PullBlocking /\ wpc' = "pullwait")
      BY <3>5 DEF Drained, PullIdle
    <3>6. CASE Failed
      BY <1>1, <3>6 DEF Failed
    <3>7. QED
      BY <1>1, <1>4, <3>1, <3>2, <3>3, <3>4, <3>5, <3>6, Frames
  <2>9. wpc' \in {"asleep", "start"} \/ (wpc' = "run" /\ ~stop') => \A r \in Requests : ticket'[r] = None
    BY <1>1, <2>1, <2>8 DEF TicketsAreOwn
  <2>10. QED
    BY <2>2, <2>3, <2>4, <2>5, <2>6, <2>9 DEF TicketsAreOwn, PostedAreAsked
<1>5. QED
  BY <1>2, <1>3, <1>4

LEMMA StepCancelledOnRequest ==
  ASSUME TypeOK, JobsHeld, EngineAgrees, RequestPhases, TicketsAreOwn, CancelledOnRequest, [Next]_vars
  PROVE  CancelledOnRequest'
<1> SUFFICES ASSUME ~failed', NEW r \in Requests, answer'[r].kind = "cancelled"
             PROVE  r \in asked'
  BY DEF CancelledOnRequest
<1>1. ~failed /\ asked \subseteq asked'
  <2>1. ~failed
    BY Frames DEF ServeThrows
  <2>2. asked \subseteq asked'
    BY Frames DEF Poll
  <2>3. QED
    BY <2>1, <2>2
<1>2. CASE answer'[r] = answer[r]
  BY <1>1, <1>2 DEF CancelledOnRequest
<1>3. CASE \E s \in Requests, kind \in {"value", "error", "cancelled"} :
             /\ Answer(s, kind, s)
             /\ kind = "cancelled" =>
                  pc[s] = "cancel" \/ \E t \in marked : inflight[t] = s /\ running
  <2>1. PICK s \in Requests, kind \in {"value", "error", "cancelled"} :
             /\ Answer(s, kind, s)
             /\ kind = "cancelled" =>
                  pc[s] = "cancel" \/ \E t \in marked : inflight[t] = s /\ running
    BY <1>3
  <2>2. answer' = [answer EXCEPT ![s] = [kind |-> kind, of |-> s]]
    BY <2>1 DEF Answer
  <2>3. CASE r # s
    BY <1>2, <2>2, <2>3 DEF TypeOK
  <2>4. CASE r = s
    <3>1. answer'[r] = [kind |-> kind, of |-> r]
      BY <2>2, <2>4 DEF TypeOK
    <3>2. kind = "cancelled"
      BY <3>1
    <3>3. CASE pc[r] = "cancel"
      BY <1>1, <3>3 DEF RequestPhases
    <3>4. CASE \E t \in marked : inflight[t] = r /\ running
      <4>1. PICK t \in marked : inflight[t] = r /\ running
        BY <3>4
      <4>2. t \in owed /\ t \in Nat
        BY DEF TypeOK
      <4>3. ticket[r] = t
        BY <4>1, <4>2 DEF EngineAgrees
      <4>4. PICK q \in asked : ticket[q] = t
        BY <1>1 DEF TicketsAreOwn
      <4>5. q \in Requests /\ ticket[q] # None
        BY <4>2, <4>4, BackendAssumption DEF TypeOK, None
      <4>6. q = r
        BY <1>1, <4>3, <4>4, <4>5 DEF TicketsAreOwn
      <4>7. QED
        BY <1>1, <4>4, <4>6
    <3>5. QED
      BY <2>1, <2>4, <3>2, <3>3, <3>4
  <2>5. QED
    BY <2>3, <2>4
<1>4. QED
  BY <1>2, <1>3, AnswerFrames

-----------------------------------------------------------------------------
(* Invariance.                                                             *)

LEMMA InitIInv == Init => IInv
<1> SUFFICES ASSUME Init PROVE IInv
  OBVIOUS
<1>1. MaxDepth \in Nat /\ IsFiniteSet(Warmup)
  BY BackendAssumption, FS_Subset
<1>2. Cardinality(Warmup) \in Nat
  BY <1>1, FS_CardinalityType
<1>3. queue = <<>> /\ inflight = <<>> /\ holds = <<>>
  BY DEF Init
<1>4. Len(queue) = 0 /\ DOMAIN queue = {} /\ DOMAIN inflight = {} /\ DOMAIN holds = {} /\ queue \in Seq(Requests)
  BY <1>3
<1>5. Len(queue) <= MaxDepth + Cardinality(Warmup) /\ Len(queue) <= MaxDepth
  BY <1>1, <1>2, <1>4
<1>6. TypeOK
  <2>1. answer \in [Requests -> Job] /\ ticket \in [Requests -> Nat \cup {None}]
    BY DEF Init, Job
  <2>2. QED
    BY <1>4, <1>5, <2>1 DEF Init, TypeOK, Engine!Init
<1>7. JobsHeld
  <2>1. BlockedSet = {}
    BY DEF Init, BlockedSet, Blocked
  <2>2. QED
    BY <1>4, <2>1 DEF JobsHeld, Held
<1>8. EngineAgrees /\ WorkerPhases
  BY <1>4 DEF Init, Engine!Init, EngineAgrees, WorkerPhases, Serving
<1>9. RequestPhases
  <2>1. ASSUME NEW r \in Requests PROVE answer[r].of = r /\ answer[r].kind = "pending" /\ pc[r] = "idle"
    BY DEF Init
  <2>2. QED
    BY <2>1 DEF RequestPhases
<1>10. DepthKept
  BY <1>5 DEF DepthKept
<1>11. TicketsAreOwn
  <2>1. \A r \in Requests : ticket[r] = None
    BY DEF Init
  <2>2. posted \cup marked = {} /\ ~running
    BY DEF Init, Engine!Init
  <2>3. QED
    BY <1>4, <2>1, <2>2 DEF TicketsAreOwn
<1>12. CancelledOnRequest
  <2>1. ASSUME NEW r \in Requests PROVE answer[r].kind = "pending"
    BY DEF Init
  <2>2. QED
    BY <2>1 DEF CancelledOnRequest
<1>13. QED
  BY <1>6, <1>7, <1>8, <1>9, <1>10, <1>11, <1>12 DEF IInv

LEMMA StepIInv == IInv /\ [Next]_vars => IInv'
BY StepTypeOK, StepJobsHeld, StepEngineAgrees, StepWorkerPhases, StepRequestPhases, StepQueue,
   StepTicketsAreOwn, StepCancelledOnRequest DEF IInv

(* Jobs, engine and threads agree in every reachable state.                *)
THEOREM Invariance == Spec => []IInv
<1>1. Init => IInv
  BY InitIInv
<1>2. IInv /\ [Next]_vars => IInv'
  BY StepIInv
<1>3. QED
  BY <1>1, <1>2, PTL DEF Spec

(* Every variable keeps its type, and only the jobs of warmup() make the   *)
(* queue longer than max_queue_depth.                                      *)
THEOREM TypeCorrect == Spec => []TypeOK
<1>1. IInv => TypeOK
  BY DEF IInv
<1>2. QED
  BY <1>1, Invariance, PTL

\* The number of places where something is held.
LEMMA Places ==
  ASSUME NEW S, NEW f, \A i, j \in S : f[i] = f[j] => i = j, NEW r
  PROVE  Cardinality({i \in S : f[i] = r}) = IF \E i \in S : f[i] = r THEN 1 ELSE 0
<1>1. CASE \E i \in S : f[i] = r
  <2>1. PICK i \in S : f[i] = r
    BY <1>1
  <2>2. {j \in S : f[j] = r} = {i}
    BY <2>1
  <2>3. QED
    BY <1>1, <2>2, FS_Singleton
<1>2. CASE ~\E i \in S : f[i] = r
  <2>1. {j \in S : f[j] = r} = {}
    BY <1>2
  <2>2. QED
    BY <1>2, <2>1, FS_EmptySet
<1>3. QED
  BY <1>1, <1>2

(* A request whose thread is blocked is in the queue or in flight, once,   *)
(* and nothing else is; what is in flight is what the engine owes, under   *)
(* the same tickets.                                                       *)
THEOREM RequestsAreHeld == Spec => []EveryRequestHeld
<1>1. ASSUME IInv PROVE EveryRequestHeld
  <2> USE <1>1
  <2>1. ASSUME NEW r \in Requests
        PROVE  Cardinality({i \in DOMAIN queue : queue[i] = r})
               + Cardinality({t \in DOMAIN inflight : inflight[t] = r}) = IF Blocked(r) THEN 1 ELSE 0
    <3>1. Cardinality({i \in DOMAIN queue : queue[i] = r}) = IF \E i \in DOMAIN queue : queue[i] = r THEN 1 ELSE 0
      <4>1. \A i, j \in DOMAIN queue : queue[i] = queue[j] => i = j
        BY DEF IInv, JobsHeld, Held
      <4>2. QED
        BY <4>1, Places
    <3>2. Cardinality({t \in DOMAIN inflight : inflight[t] = r})
            = IF \E t \in DOMAIN inflight : inflight[t] = r THEN 1 ELSE 0
      <4>1. \A t, u \in DOMAIN inflight : inflight[t] = inflight[u] => t = u
        BY DEF IInv, JobsHeld, Held
      <4>2. QED
        BY <4>1, Places
    <3>3. /\ Blocked(r) <=> (\E i \in DOMAIN queue : queue[i] = r) \/ (\E t \in DOMAIN inflight : inflight[t] = r)
          /\ ~((\E i \in DOMAIN queue : queue[i] = r) /\ (\E t \in DOMAIN inflight : inflight[t] = r))
      BY DEF IInv, JobsHeld, Held, BlockedSet
    <3>4. QED
      BY <3>1, <3>2, <3>3
  <2>2. running => /\ DOMAIN inflight = owed
                   /\ \A t \in owed : inflight[t] = holds[t] /\ ticket[inflight[t]] = t
    BY DEF IInv, EngineAgrees
  <2>3. QED
    BY <2>1, <2>2 DEF EveryRequestHeld
<1>2. QED
  BY <1>1, Invariance, PTL

(* As long as no serve call has thrown, a cancelled result goes only to a  *)
(* request whose client went away.                                         *)
THEOREM CancelledIsAsked == Spec => []CancelledOnRequest
<1>1. IInv => CancelledOnRequest
  BY DEF IInv
<1>2. QED
  BY <1>1, Invariance, PTL

-----------------------------------------------------------------------------
(* The backend implements BatchService.                                    *)

status == [r \in Requests |->
             IF pc[r] = "idle" THEN "idle"
             ELSE IF pc[r] = "submit" THEN "offered"
             ELSE IF answer[r].kind = "pending" THEN "accepted" ELSE "answered"]

number == [r \in Requests |-> 0]

served == [r \in Requests |->
             [kind |-> IF answer[r].kind = "cancelled" THEN "error" ELSE answer[r].kind,
              req  |-> <<answer[r].of, 0>>]]

exited == wpc = "exit"

LEMMA ServedAnswer ==
  ASSUME TypeOK, NEW r \in Requests, NEW kind \in {"value", "error", "cancelled"}, Answer(r, kind, r)
  PROVE  /\ served' = [served EXCEPT ![r] =
                         [kind |-> IF kind = "cancelled" THEN "error" ELSE kind, req |-> <<r, 0>>]]
         /\ answer'[r].kind = kind
         /\ \A s \in Requests : s # r => answer'[s] = answer[s]
<1>1. answer' = [answer EXCEPT ![r] = [kind |-> kind, of |-> r]] /\ answer \in [Requests -> Job]
  BY DEF Answer, TypeOK
<1>2. answer'[r] = [kind |-> kind, of |-> r]
  BY <1>1
<1>3. answer'[r].kind = kind /\ answer'[r].of = r
  BY <1>2
<1>4. \A s \in Requests : s # r => answer'[s] = answer[s]
  BY <1>1
<1>5. served' = [served EXCEPT ![r] =
                  [kind |-> IF kind = "cancelled" THEN "error" ELSE kind, req |-> <<r, 0>>]]
  BY <1>3, <1>4 DEF served
<1>6. QED
  BY <1>3, <1>4, <1>5

LEMMA StatusIs ==
  \A r \in Requests :
    /\ pc[r] = "idle" <=> status[r] = "idle"
    /\ pc[r] = "submit" <=> status[r] = "offered"
    /\ pc[r] \notin {"idle", "submit"} /\ answer[r].kind = "pending" <=> status[r] = "accepted"
    /\ pc[r] \notin {"idle", "submit"} /\ answer[r].kind # "pending" <=> status[r] = "answered"
BY DEF status

LEMMA StatusIsNext ==
  \A r \in Requests :
    /\ pc'[r] = "idle" <=> status'[r] = "idle"
    /\ pc'[r] = "submit" <=> status'[r] = "offered"
    /\ pc'[r] \notin {"idle", "submit"} /\ answer'[r].kind = "pending" <=> status'[r] = "accepted"
    /\ pc'[r] \notin {"idle", "submit"} /\ answer'[r].kind # "pending" <=> status'[r] = "answered"
    /\ pc'[r] = pc[r] /\ answer'[r].kind = answer[r].kind => status'[r] = status[r]
BY DEF status

LEMMA StatusMoves ==
  ASSUME NEW r \in Requests, \A s \in Requests : s # r => status'[s] = status[s]
  PROVE  status' = [status EXCEPT ![r] = status'[r]]
BY DEF status

LEMMA InitImplements == Init => Service!Init
<1> SUFFICES ASSUME Init PROVE Service!Init
  OBVIOUS
<1>1. status = [r \in Requests |-> "idle"]
  BY DEF Init, status
<1>2. served = [r \in Requests |-> [kind |-> "pending", req |-> <<r, 0>>]]
  BY DEF Init, served
<1>3. ~exited
  BY DEF Init, exited
<1>4. QED
  BY <1>1, <1>2, <1>3 DEF Service!Init, status, served, exited

\* The worker has ended for good, and then nobody is served or accepted.
LEMMA ExitFrames ==
  ASSUME TypeOK, WorkerPhases, [Next]_vars
  PROVE  /\ exited => stop
         /\ ~Drained => exited' = exited
<1>1. exited => stop
  BY DEF exited, WorkerPhases
<1>2. CASE Wake
  BY <1>1, <1>2, WakeFacts DEF exited
<1>3. ~Drained => exited' = exited
  BY <1>2, Frames DEF exited, WorkerCheck, StartServe, TakeStep, Serving, PullIdle, PullBlocking,
     ServeReturns, ServeThrows, Failed
<1>4. QED
  BY <1>1, <1>3

\* What a thread's own step does to the status of its call.
LEMMA ThreadMoves ==
  ASSUME TypeOK, [Next]_vars, ~RunWarmup,
         NEW r \in Requests, ~Begin(r), ~Enqueue(r), ~Refuse(r)
  PROVE  \/ pc'[r] = pc[r]
         \/ pc[r] \notin {"idle", "submit"} /\ pc'[r] \notin {"idle", "submit"}
<1>1. pc \in [Requests -> {"idle", "submit", "notify", "waiting", "cancel", "dropped", "done"}]
  BY DEF TypeOK
<1>2. CASE \E s \in Requests : RequestNext(s)
  <2>1. PICK s \in Requests : RequestNext(s)
    BY <1>2
  <2>2. CASE s # r
    BY <1>1, <2>1, <2>2 DEF RequestNext, Begin, Refuse, Enqueue, Notify, Poll, CancelQueued, CancelPulled, Return
  <2>3. CASE s = r
    BY <1>1, <2>1, <2>3 DEF RequestNext, Notify, Poll, CancelQueued, CancelPulled, Return
  <2>4. QED
    BY <2>2, <2>3
<1>3. CASE WorkerStep \/ ServeThrows \/ Stop \/ NotifyStop \/ Quiet
  BY <1>3 DEF WorkerStep, EngineStep, WorkerCheck, Drain, Drained, StartServe, PullNow, PullIdle,
     PullBlocking, Notice, ServeReturns, Deliver, FailInFlight, FailQueued, Failed, ServeThrows,
     Stop, NotifyStop, Quiet, vars
<1>4. CASE UNCHANGED vars
  BY <1>4 DEF vars
<1>5. QED
  BY <1>2, <1>3, <1>4 DEF Next

LEMMA StepImplements ==
  ASSUME IInv, [Next]_vars
  PROVE  [Service!Next]_(Service!vars)
<1>t. TypeOK /\ JobsHeld /\ EngineAgrees /\ WorkerPhases /\ RequestPhases
  BY DEF IInv
<1>p. /\ pc \in [Requests -> {"idle", "submit", "notify", "waiting", "cancel", "dropped", "done"}]
      /\ answer \in [Requests -> Job]
  BY <1>t DEF TypeOK
<1>v. /\ Service!vars = <<status, number, served, exited>>
      /\ Service!vars' = <<status', number, served', exited'>>
  BY DEF Service!vars, served, number, status, exited
<1>s. status = [r \in Requests |-> status[r]] /\ status' = [r \in Requests |-> status'[r]]
  BY DEF status
<1>1. ASSUME UNCHANGED answer, exited' = exited, \A r \in Requests : status'[r] = status[r]
      PROVE  UNCHANGED Service!vars
  <2>1. status' = status
    BY <1>1, <1>s
  <2>2. served' = served
    BY <1>1 DEF served
  <2>3. QED
    BY <1>1, <1>v, <2>1, <2>2
<1>2. ASSUME NEW new \in SUBSET Requests, ~stop, UNCHANGED <<answer, wpc>>,
             \A r \in new : pc[r] = "submit" /\ pc'[r] = "notify",
             \A r \in Requests : r \notin new => pc'[r] = pc[r]
      PROVE  Service!Next
  <2>1. ~exited /\ exited' = exited
    BY <1>2, <1>t, ExitFrames DEF exited
  <2>2. \A r \in new : status[r] = "offered" /\ status'[r] = "accepted"
    BY <1>2, <1>t, StatusIs, StatusIsNext DEF RequestPhases
  <2>3. \A r \in Requests : r \notin new => status'[r] = status[r]
    BY <1>2, StatusIsNext
  <2>4. status' = [r \in Requests |-> IF r \in new THEN "accepted" ELSE status[r]]
    BY <1>s, <2>2, <2>3
  <2>5. served' = served
    BY <1>2 DEF served
  <2>6. Service!Accept(new)
    BY <2>1, <2>2, <2>4, <2>5 DEF Service!Accept, status, served, exited, number
  <2>7. QED
    BY <2>6 DEF Service!Next
<1>3. CASE RunWarmup
  <2>1. /\ ~stop /\ UNCHANGED <<answer, wpc>> /\ \A r \in Warmup : pc[r] = "submit"
        /\ pc' = [r \in Requests |-> IF r \in Warmup THEN "notify" ELSE pc[r]]
    BY <1>3 DEF RunWarmup
  <2>2. Warmup \in SUBSET Requests
    BY BackendAssumption
  <2>3. /\ \A r \in Warmup : pc'[r] = "notify"
        /\ \A r \in Requests : r \notin Warmup => pc'[r] = pc[r]
    BY <2>1, <2>2
  <2>4. QED
    BY <1>2, <2>1, <2>2, <2>3
<1>4. ASSUME NEW r \in Requests, Enqueue(r) PROVE Service!Next
  <2>1. ~stop /\ UNCHANGED <<answer, wpc>> /\ pc[r] = "submit" /\ pc' = [pc EXCEPT ![r] = "notify"]
    BY <1>4 DEF Enqueue
  <2>2. /\ {r} \in SUBSET Requests
        /\ \A s \in {r} : pc[s] = "submit" /\ pc'[s] = "notify"
        /\ \A s \in Requests : s \notin {r} => pc'[s] = pc[s]
    BY <1>p, <2>1
  <2>3. QED
    BY <1>2, <2>1, <2>2
<1>5. ASSUME NEW r \in Requests, Begin(r) PROVE Service!Next
  <2>1. pc[r] = "idle" /\ pc' = [pc EXCEPT ![r] = "submit"] /\ UNCHANGED <<answer, wpc>>
    BY <1>5 DEF Begin, jobVars
  <2>2. pc'[r] = "submit" /\ \A s \in Requests : s # r => pc'[s] = pc[s]
    BY <1>p, <2>1
  <2>3. status[r] = "idle" /\ status'[r] = "offered"
    BY <2>1, <2>2, StatusIs, StatusIsNext
  <2>4. \A s \in Requests : s # r => status'[s] = status[s]
    BY <2>1, <2>2, StatusIsNext
  <2>5. status' = [status EXCEPT ![r] = "offered"]
    BY <2>3, <2>4, StatusMoves
  <2>6. (0 + 1) % 1 = 0
    OBVIOUS
  <2>7. number' = [number EXCEPT ![r] = (@ + 1) % 1] /\ number'[r] = 0
    BY <2>6 DEF number
  <2>8. served[r] = [kind |-> "pending", req |-> <<r, 0>>]
    <3>1. answer[r].kind = "pending" /\ answer[r].of = r
      BY <1>t, <2>1 DEF RequestPhases
    <3>2. QED
      BY <3>1 DEF served
  <2>9. served' = [served EXCEPT ![r] = [kind |-> "pending", req |-> <<r, 0>>]]
    BY <2>1, <2>8 DEF served
  <2>10. exited' = exited
    BY <2>1 DEF exited
  <2>11. Service!Offer(r)
    BY <2>3, <2>5, <2>7, <2>9, <2>10 DEF Service!Offer, Service!Current, status, served, number, exited
  <2>12. QED
    BY <2>11 DEF Service!Next
<1>6. ASSUME NEW r \in Requests, Refuse(r) PROVE Service!Next
  <2>1. /\ pc[r] = "submit" /\ Answer(r, "error", r) /\ pc' = [pc EXCEPT ![r] = "waiting"] /\ UNCHANGED wpc
    BY <1>6 DEF Refuse
  <2>2. pc'[r] = "waiting" /\ \A s \in Requests : s # r => pc'[s] = pc[s]
    BY <1>p, <2>1
  <2>3. /\ served' = [served EXCEPT ![r] = [kind |-> "error", req |-> <<r, 0>>]]
        /\ answer'[r].kind = "error"
        /\ \A s \in Requests : s # r => answer'[s] = answer[s]
    BY <1>t, <2>1, ServedAnswer
  <2>4. status[r] = "offered" /\ status'[r] = "answered"
    BY <2>1, <2>2, <2>3, StatusIs, StatusIsNext
  <2>5. \A s \in Requests : s # r => status'[s] = status[s]
    BY <2>2, <2>3, StatusIsNext
  <2>6. status' = [status EXCEPT ![r] = "answered"] /\ exited' = exited
    BY <2>1, <2>4, <2>5, StatusMoves DEF exited
  <2>7. Service!Refuse(r)
    BY <2>3, <2>4, <2>6 DEF Service!Refuse, Service!Current, status, served, number, exited
  <2>8. QED
    BY <2>7 DEF Service!Next
<1>7. CASE Drained
  <2>1. wpc = "drain" /\ queue = <<>> /\ wpc' = "exit" /\ UNCHANGED <<pc, answer>>
    BY <1>7 DEF Drained, jobVars
  <2>2. DOMAIN queue = {} /\ DOMAIN inflight = {}
    BY <1>t, <2>1 DEF WorkerPhases, Serving
  <2>3. BlockedSet = {}
    BY <1>t, <2>2 DEF JobsHeld, Held
  <2>4. ASSUME NEW r \in Requests PROVE status[r] # "accepted"
    <3>1. ~Blocked(r)
      BY <2>3, BlockedFacts
    <3>2. pc[r] \in {"idle", "submit", "notify", "waiting", "cancel", "dropped", "done"}
      BY <1>p
    <3>3. pc[r] = "done" => answer[r].kind # "pending"
      BY <1>t DEF RequestPhases
    <3>4. ~(pc[r] \notin {"idle", "submit"} /\ answer[r].kind = "pending")
      BY <3>1, <3>2, <3>3 DEF Blocked
    <3>5. QED
      BY <3>4, StatusIs
  <2>5. status' = status /\ served' = served /\ exited'
    BY <2>1 DEF status, served, exited
  <2>6. Service!Close
    BY <2>4, <2>5 DEF Service!Close, status, served, number, exited
  <2>7. QED
    BY <2>6 DEF Service!Next
<1>8. CASE /\ ~RunWarmup /\ ~Drained
           /\ \A r \in Requests : ~Begin(r) /\ ~Enqueue(r) /\ ~Refuse(r)
  <2>1. exited' = exited
    BY <1>8, <1>t, ExitFrames
  <2>2. \A r \in Requests : \/ pc'[r] = pc[r]
                            \/ pc[r] \notin {"idle", "submit"} /\ pc'[r] \notin {"idle", "submit"}
    BY <1>8, <1>t, ThreadMoves
  <2>3. ASSUME NEW r \in Requests, answer'[r].kind = answer[r].kind PROVE status'[r] = status[r]
    BY <2>2, <2>3 DEF status
  <2>4. CASE UNCHANGED answer
    BY <1>1, <2>1, <2>3, <2>4
  <2>5. ASSUME NEW r \in Requests, NEW kind \in {"value", "error", "cancelled"},
               Answer(r, kind, r), answer[r].kind = "pending", pc'[r] \notin {"idle", "submit"}
        PROVE  Service!Next
    <3> DEFINE told == IF kind = "cancelled" THEN "error" ELSE kind
    <3>1. /\ served' = [served EXCEPT ![r] = [kind |-> told, req |-> <<r, 0>>]]
          /\ answer'[r].kind = kind
          /\ \A s \in Requests : s # r => answer'[s] = answer[s]
      BY <1>t, <2>5, ServedAnswer
    <3>2. told \in {"value", "error"}
      OBVIOUS
    <3> HIDE DEF told
    <3>3. pc[r] \notin {"idle", "submit"}
      BY <2>2, <2>5
    <3>4. status[r] = "accepted" /\ status'[r] = "answered"
      BY <2>5, <3>1, <3>3, StatusIs, StatusIsNext
    <3>5. \A s \in Requests : s # r => status'[s] = status[s]
      BY <2>3, <3>1
    <3>6. status' = [status EXCEPT ![r] = "answered"]
      BY <3>4, <3>5, StatusMoves
    <3>7. number[r] = 0 /\ number' = number
      BY DEF number
    <3>8. Service!AnswerCall(r)
      BY <2>1, <3>1, <3>2, <3>4, <3>6, <3>7 DEF Service!AnswerCall, Service!Current, status, served, number, exited
    <3>9. QED
      BY <3>8 DEF Service!Next
  <2>6. QED
    BY <1>t, <2>4, <2>5, AnswerFrames
<1>9. QED
  BY <1>3, <1>4, <1>5, <1>6, <1>7, <1>8

(* Safety refinement: whatever is cancelled, thrown or stopped, a request  *)
(* that was queued is answered once, with its own result or an error, and  *)
(* the worker ends only when nobody is owed an answer.                     *)
THEOREM Implementation == Spec => ImplementsService
<1>1. Init => Service!Init
  BY InitImplements
<1>2. IInv /\ [Next]_vars => [Service!Next]_(Service!vars)
  BY StepImplements
<1>3. QED
  BY <1>1, <1>2, Invariance, PTL DEF Spec, ImplementsService, Service!Spec
=============================================================================
