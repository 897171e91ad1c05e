------------------------ MODULE DecodeSchedulerProofs ------------------------
(***************************************************************************)
(* For every set of streams, executors, queues and cohorts, every batch    *)
(* size and queue depth: the decode scheduler counts the admitted steps    *)
(* and the jobs in flight exactly, holds the job of every blocked stream,  *)
(* loses no wakeup, and implements BatchService.                           *)
(***************************************************************************)
EXTENDS DecodeScheduler, FiniteSetTheorems, WellFoundedInduction, TLAPS

Active == {c \in Streams : Admitted(c)}

Injective(s) == \A i, j \in DOMAIN s : s[i] = s[j] => i = j

\* A batch as the scheduler forms it: not empty, of one queue.
IsBatch(t) == Len(t) \in 1 .. MaxBatch /\ \A i, j \in DOMAIN t : op[t[i]] = op[t[j]]

(* The queues hold the jobs of blocked streams, each once and in the queue *)
(* of its operation.                                                       *)
QueuesHoldBlocked ==
  \A k \in Ops :
    /\ \A i \in DOMAIN queue[k] : op[queue[k][i]] = k /\ IsBlocked(queue[k][i])
    /\ Injective(queue[k])

(* So do the tasks, and none of their jobs is still in a queue.            *)
TasksHoldBlocked ==
  /\ \A n \in DOMAIN tasks :
       /\ IsBatch(tasks[n])
       /\ \A i \in DOMAIN tasks[n] : IsBlocked(tasks[n][i]) /\ tasks[n][i] \notin Ready
  /\ \A n, m \in DOMAIN tasks : \A i \in DOMAIN tasks[n], j \in DOMAIN tasks[m] :
       tasks[n][i] = tasks[m][j] => n = m /\ i = j

(* And the executors: what one works on nobody else has.                   *)
WorkersHoldBlocked ==
  /\ \A e \in Executors : \A i \in DOMAIN work[e] :
       /\ IsBlocked(work[e][i]) /\ work[e][i] \notin Ready
       /\ \A n \in DOMAIN tasks : \A j \in DOMAIN tasks[n] : tasks[n][j] # work[e][i]
  /\ \A e, f \in Executors : \A i \in DOMAIN work[e], j \in DOMAIN work[f] :
       work[e][i] = work[f][j] => e = f /\ i = j

(* An executor has jobs from the moment it takes a task to its last        *)
(* answer, and the results are those of the jobs, in their order.          *)
WorkIsOfPhase ==
  \A e \in Executors :
    /\ epc[e] \in {"check", "asleep", "exited"} <=> work[e] = <<>>
    /\ epc[e] \in {"run", "finish"} => IsBatch(work[e])
    /\ epc[e] \in {"finish", "announce", "resolve"} =>
         /\ Len(results[e]) = Len(work[e])
         /\ \A i \in DOMAIN work[e] : results[e][i].of = work[e][i]

(* An answer is that of the stream's own call, and a stream that is not in *)
(* a call has none.                                                        *)
AnswersAreOwn ==
  \A c \in Streams :
    /\ answer[c].of = c
    /\ pc[c] \notin {"notify", "waiting"} => answer[c].kind = "pending"
    /\ IsBlocked(c) => Held(c)

(* queued_at orders the jobs that wait for a dispatch.                     *)
AgesAreOrder ==
  /\ older \subseteq Made \X Made
  /\ \A c, d \in Made : c # d => <<c, d>> \in older \/ <<d, c>> \in older
  /\ \A c, d \in Made : <<c, d>> \in older => <<d, c>> \notin older
  /\ \A b, c, d \in Made : <<b, c>> \in older /\ <<c, d>> \in older => <<b, d>> \in older

Counters ==
  /\ admitted = Cardinality(Active)
  /\ items = Cardinality(InFlight)
  /\ flying = Len(tasks) + Cardinality(Flying)

(* What the threads know of each other where they stand.                   *)
Phases ==
  /\ spc \in {"pick", "decide", "dozing"} => Ready # {} /\ flying < Cardinality(Executors)
  /\ stopping <=> closer # "idle"
  /\ closer # "idle" => \A c \in Streams : pc[c] = "out"
  /\ scheduled <=> spc = "exited"
  /\ spc = "exited" => stopping
  /\ closer \in {"joining", "returned"} => spc = "exited"
  /\ \A e \in Executors : epc[e] = "exited" => scheduled

IInv == /\ TypeOK /\ QueuesHoldBlocked /\ TasksHoldBlocked /\ WorkersHoldBlocked /\ WorkIsOfPhase
        /\ AnswersAreOwn /\ AgesAreOrder /\ Counters /\ Phases /\ NobodySleepsOnWork
-----------------------------------------------------------------------------
(* Sequences and sets.                                                     *)

LEMMA SetOfSeq ==
  ASSUME NEW S, NEW s \in Seq(S)
  PROVE  /\ ToSet(s) \subseteq S
         /\ \A x : x \in ToSet(s) <=> \E i \in DOMAIN s : s[i] = x
         /\ s = <<>> <=> ToSet(s) = {}
<1>1. ToSet(s) \subseteq S /\ \A x : x \in ToSet(s) <=> \E i \in DOMAIN s : s[i] = x
  BY DEF ToSet
<1>2. s # <<>> => 1 \in DOMAIN s
  OBVIOUS
<1>3. s = <<>> => DOMAIN s = {}
  OBVIOUS
<1>4. QED
  BY <1>1, <1>2, <1>3

(* A sequence without repetitions has as many elements as positions.       *)
LEMMA CardOfInjective ==
  ASSUME NEW S, NEW s \in Seq(S), Injective(s)
  PROVE  IsFiniteSet(ToSet(s)) /\ Cardinality(ToSet(s)) = Len(s)
<1>1. /\ IsFiniteSet(1 .. Len(s)) /\ Cardinality(1 .. Len(s)) = Len(s)
  <2>1. Len(s) \in Nat
    OBVIOUS
  <2>2. QED
    BY <2>1, FS_Interval
<1>2. s \in Bijection(1 .. Len(s), ToSet(s))
  BY DEF Bijection, Injection, Surjection, IsInjective, ToSet, Injective
<1>3. QED
  BY <1>1, <1>2, FS_Bijection DEF ExistsBijection

(* The first n elements and the others.                                    *)
LEMMA SplitSeq ==
  ASSUME NEW S, NEW s \in Seq(S), NEW n \in 0 .. Len(s)
  PROVE  LET front == SubSeq(s, 1, n)
             back  == SubSeq(s, n + 1, Len(s))
         IN  /\ front \in Seq(S) /\ Len(front) = n
             /\ \A i \in 1 .. n : front[i] = s[i]
             /\ back \in Seq(S) /\ Len(back) = Len(s) - n
             /\ \A i \in 1 .. Len(s) - n : back[i] = s[n + i]
OBVIOUS

-----------------------------------------------------------------------------
(* The jobs that wait.                                                     *)

LEMMA ReadyJobs ==
  ASSUME TypeOK
  PROVE  /\ Ready \subseteq Streams /\ IsFiniteSet(Ready)
         /\ \A c : c \in Ready <=> \E k \in Ops : \E i \in DOMAIN queue[k] : queue[k][i] = c
<1>1. \A k \in Ops : queue[k] \in Seq(Streams)
  BY DEF TypeOK
<1>2. \A c : c \in Ready <=> \E k \in Ops : \E i \in DOMAIN queue[k] : queue[k][i] = c
  BY DEF Ready, ToSet
<1>3. Ready \subseteq Streams
  BY <1>1, <1>2
<1>4. QED
  BY <1>2, <1>3, ConfigAssumption, FS_Subset

LEMMA ReadyJobsNext ==
  \A d : d \in Ready' <=> \E k \in Ops : \E i \in DOMAIN queue'[k] : queue'[k][i] = d
BY DEF Ready, ToSet

\* A job is appended to the queue of its operation.
LEMMA ReadyAfterAppend ==
  ASSUME TypeOK, NEW k \in Ops, NEW c \in Streams,
         queue' = [queue EXCEPT ![k] = Append(@, c)]
  PROVE  /\ queue' \in [Ops -> Seq(Streams)]
         /\ Ready' = Ready \cup {c}
         /\ \A j \in Ops : \A i \in DOMAIN queue'[j] :
              \/ i \in DOMAIN queue[j] /\ queue'[j][i] = queue[j][i]
              \/ j = k /\ i = Len(queue[k]) + 1 /\ queue'[j][i] = c
<1>1. \A j \in Ops : queue[j] \in Seq(Streams)
  BY DEF TypeOK
<1>2. \A j \in Ops : queue'[j] = IF j = k THEN Append(queue[k], c) ELSE queue[j]
  BY DEF TypeOK
<1>3. /\ Append(queue[k], c) \in Seq(Streams)
      /\ DOMAIN Append(queue[k], c) = 1 .. Len(queue[k]) + 1
      /\ \A i \in DOMAIN queue[k] : Append(queue[k], c)[i] = queue[k][i]
      /\ Append(queue[k], c)[Len(queue[k]) + 1] = c
      /\ DOMAIN queue[k] = 1 .. Len(queue[k])
      /\ Len(queue[k]) \in Nat
  BY <1>1
<1>4. queue' \in [Ops -> Seq(Streams)]
  BY <1>1, <1>3 DEF TypeOK
<1>5. \A j \in Ops : \A i \in DOMAIN queue'[j] :
              \/ i \in DOMAIN queue[j] /\ queue'[j][i] = queue[j][i]
              \/ j = k /\ i = Len(queue[k]) + 1 /\ queue'[j][i] = c
  BY <1>2, <1>3
<1>6. \A d : d \in Ready' <=> \E j \in Ops : \E i \in DOMAIN queue'[j] : queue'[j][i] = d
  BY ReadyJobsNext
<1>7. Ready' \subseteq Ready \cup {c}
  BY <1>5, <1>6, ReadyJobs
<1>8. c \in Ready'
  <2>1. queue'[k] = Append(queue[k], c)
    BY <1>2
  <2>2. Len(queue[k]) + 1 \in DOMAIN queue'[k] /\ queue'[k][Len(queue[k]) + 1] = c
    BY <2>1, <1>3
  <2>3. QED
    BY <2>2, <1>6
<1>9. Ready \subseteq Ready'
  <2> SUFFICES ASSUME NEW d \in Ready PROVE d \in Ready'
    OBVIOUS
  <2>1. PICK j \in Ops : \E i \in DOMAIN queue[j] : queue[j][i] = d
    BY ReadyJobs
  <2> PICK i \in DOMAIN queue[j] : queue[j][i] = d
    BY <2>1
  <2>2. i \in DOMAIN queue'[j] /\ queue'[j][i] = d
    BY <2>1, <1>2, <1>3
  <2>3. QED
    BY <2>2, <1>6
<1>10. QED
  BY <1>4, <1>5, <1>7, <1>8, <1>9

\* What a dispatch takes from the front of queue k, and what it leaves.
LEMMA TakeShape ==
  ASSUME TypeOK, NEW k \in Candidates
  PROVE  /\ k \in Ops /\ BatchSize(k) \in 1 .. MaxBatch /\ BatchSize(k) <= Len(queue[k])
         /\ Take(k) \in Seq(Streams) /\ Len(Take(k)) = BatchSize(k)
         /\ \A i \in 1 .. BatchSize(k) : i \in DOMAIN queue[k] /\ Take(k)[i] = queue[k][i]
<1>1. k \in Ops /\ queue[k] \in Seq(Streams) /\ Len(queue[k]) \in Nat /\ Len(queue[k]) > 0
  BY DEF TypeOK, Candidates, Count
<1>2. BatchSize(k) \in 1 .. MaxBatch /\ BatchSize(k) <= Len(queue[k])
  BY <1>1, ConfigAssumption DEF BatchSize, Count
<1>3. BatchSize(k) \in 0 .. Len(queue[k])
  BY <1>1, <1>2, ConfigAssumption
<1>4. QED
  BY <1>1, <1>2, <1>3, SplitSeq DEF Take

LEMMA ReadyAfterTake ==
  ASSUME TypeOK, QueuesHoldBlocked, NEW k \in Candidates,
         queue' = [queue EXCEPT ![k] = SubSeq(@, BatchSize(k) + 1, Count(k))]
  PROVE  /\ queue' \in [Ops -> Seq(Streams)]
         /\ Ready' = Ready \ ToSet(Take(k))
         /\ ToSet(Take(k)) \subseteq Ready
         /\ \A j \in Ops : \A i \in DOMAIN queue'[j] :
              LET shift == IF j = k THEN BatchSize(k) ELSE 0
              IN  i + shift \in DOMAIN queue[j] /\ queue'[j][i] = queue[j][i + shift]
<1> DEFINE n == BatchSize(k)
<1>1. \A j \in Ops : queue[j] \in Seq(Streams)
  BY DEF TypeOK
<1>2. /\ k \in Ops /\ n \in 1 .. MaxBatch /\ n <= Len(queue[k])
      /\ Take(k) \in Seq(Streams) /\ Len(Take(k)) = n
      /\ \A i \in 1 .. n : i \in DOMAIN queue[k] /\ Take(k)[i] = queue[k][i]
  BY TakeShape
<1> DEFINE back == SubSeq(queue[k], n + 1, Len(queue[k]))
<1>3. \A j \in Ops : queue'[j] = IF j = k THEN back ELSE queue[j]
  BY <1>2 DEF TypeOK, Count
<1>4. /\ back \in Seq(Streams) /\ DOMAIN back = 1 .. Len(queue[k]) - n
      /\ \A i \in 1 .. Len(queue[k]) - n : back[i] = queue[k][n + i]
  <2>1. n \in 0 .. Len(queue[k])
    BY <1>1, <1>2, ConfigAssumption
  <2>2. /\ back \in Seq(Streams) /\ Len(back) = Len(queue[k]) - n
        /\ \A i \in 1 .. Len(queue[k]) - n : back[i] = queue[k][n + i]
    BY <2>1, <1>1, <1>2, SplitSeq
  <2>3. QED
    BY <2>2
<1> HIDE DEF back, n
<1>5. queue' \in [Ops -> Seq(Streams)]
  BY <1>3, <1>4 DEF TypeOK, Count, back, n
<1>6. \A j \in Ops : \A i \in DOMAIN queue'[j] :
              LET shift == IF j = k THEN n ELSE 0
              IN  i + shift \in DOMAIN queue[j] /\ queue'[j][i] = queue[j][i + shift]
  <2> SUFFICES ASSUME NEW j \in Ops, NEW i \in DOMAIN queue'[j]
               PROVE  LET shift == IF j = k THEN n ELSE 0
                      IN  i + shift \in DOMAIN queue[j] /\ queue'[j][i] = queue[j][i + shift]
    OBVIOUS
  <2>1. CASE j = k
    <3>1. i \in 1 .. Len(queue[k]) - n
      BY <2>1, <1>3, <1>4
    <3>2. i + n \in DOMAIN queue[k] /\ n + i = i + n
      BY <3>1, <1>1, <1>2, ConfigAssumption
    <3>3. QED
      BY <2>1, <3>1, <3>2, <1>3, <1>4
  <2>2. CASE j # k
    BY <2>2, <1>1, <1>3
  <2>3. QED
    BY <2>1, <2>2
<1>7. \A d : d \in Ready' <=> \E j \in Ops : \E i \in DOMAIN queue'[j] : queue'[j][i] = d
  BY ReadyJobsNext
<1>8. \A d : d \in ToSet(Take(k)) <=> \E i \in 1 .. n : queue[k][i] = d
  BY <1>2 DEF ToSet
<1>9. ToSet(Take(k)) \subseteq Ready
  BY <1>2, <1>8, ReadyJobs
<1>10. Ready' \subseteq Ready \ ToSet(Take(k))
  <2> SUFFICES ASSUME NEW d \in Ready' PROVE d \in Ready /\ d \notin ToSet(Take(k))
    OBVIOUS
  <2>1. PICK j \in Ops : \E i \in DOMAIN queue'[j] : queue'[j][i] = d
    BY <1>7
  <2> PICK i \in DOMAIN queue'[j] : queue'[j][i] = d
    BY <2>1
  <2>2. CASE j # k
    <3>1. i \in DOMAIN queue[j] /\ queue[j][i] = d
      BY <2>1, <2>2, <1>3
    <3>2. op[d] = j /\ d \in Ready
      BY <3>1, ReadyJobs DEF QueuesHoldBlocked
    <3>3. \A m \in 1 .. n : op[queue[k][m]] = k
      BY <1>2 DEF QueuesHoldBlocked
    <3>4. QED
      BY <2>2, <3>2, <3>3, <1>8
  <2>3. CASE j = k
    <3>1. i \in 1 .. Len(queue[k]) - n /\ i + n \in DOMAIN queue[k] /\ queue[k][i + n] = d
      BY <2>1, <2>3, <1>3, <1>4, <1>6
    <3>2. \A m \in 1 .. n : m # i + n
      BY <3>1, <1>2
    <3>3. \A m \in 1 .. n : queue[k][m] # d
      BY <3>1, <3>2, <1>2 DEF QueuesHoldBlocked, Injective
    <3>4. QED
      BY <3>1, <3>3, <1>2, <1>8, ReadyJobs
  <2>4. QED
    BY <2>2, <2>3
<1>11. Ready \ ToSet(Take(k)) \subseteq Ready'
  <2> SUFFICES ASSUME NEW d \in Ready, d \notin ToSet(Take(k)) PROVE d \in Ready'
    OBVIOUS
  <2>1. PICK j \in Ops : \E i \in DOMAIN queue[j] : queue[j][i] = d
    BY ReadyJobs
  <2> PICK i \in DOMAIN queue[j] : queue[j][i] = d
    BY <2>1
  <2>2. CASE j # k
    BY <2>1, <2>2, <1>3, <1>7
  <2>3. CASE j = k
    <3>1. i \in 1 .. Len(queue[k]) /\ ~(i \in 1 .. n)
      BY <2>1, <2>3, <1>1, <1>8
    <3>2. i - n \in 1 .. Len(queue[k]) - n /\ n + (i - n) = i
      BY <3>1, <1>1, <1>2, ConfigAssumption
    <3>3. i - n \in DOMAIN queue'[k] /\ queue'[k][i - n] = queue[k][n + (i - n)]
      BY <3>2, <1>2, <1>3, <1>4
    <3>4. queue'[k][i - n] = d
      BY <3>2, <3>3, <2>1, <2>3
    <3>5. QED
      BY <3>3, <3>4, <1>2, <1>7
  <2>4. QED
    BY <2>2, <2>3
<1>12. QED
  BY <1>5, <1>6, <1>9, <1>10, <1>11 DEF n

-----------------------------------------------------------------------------
(* What is counted.                                                        *)

LEMMA ActiveFinite == IsFiniteSet(Active) /\ Cardinality(Active) \in Nat
BY ConfigAssumption, FS_Subset, FS_CardinalityType DEF Active

LEMMA FlyingFinite == IsFiniteSet(Flying) /\ Cardinality(Flying) \in Nat
BY ConfigAssumption, FS_Subset, FS_CardinalityType DEF Flying

LEMMA InFlightJobs ==
  ASSUME TypeOK
  PROVE  /\ InFlight \subseteq Streams /\ IsFiniteSet(InFlight) /\ Cardinality(InFlight) \in Nat
         /\ \A c : c \in InFlight <=>
              \/ \E e \in Flying : \E i \in DOMAIN work[e] : work[e][i] = c
              \/ \E n \in DOMAIN tasks : \E i \in DOMAIN tasks[n] : tasks[n][i] = c
<1>1. /\ \A e \in Flying : work[e] \in Seq(Streams)
      /\ \A n \in DOMAIN tasks : tasks[n] \in Seq(Streams)
  BY DEF TypeOK, Flying
<1>2. \A c : c \in InFlight <=>
              \/ \E e \in Flying : \E i \in DOMAIN work[e] : work[e][i] = c
              \/ \E n \in DOMAIN tasks : \E i \in DOMAIN tasks[n] : tasks[n][i] = c
  <2> SUFFICES ASSUME NEW c
      PROVE c \in InFlight <=>
              \/ \E e \in Flying : \E i \in DOMAIN work[e] : work[e][i] = c
              \/ \E n \in DOMAIN tasks : \E i \in DOMAIN tasks[n] : tasks[n][i] = c
    OBVIOUS
  <2>1. c \in InFlight <=> \/ \E e \in Flying : c \in ToSet(work[e])
                          \/ \E t \in ToSet(tasks) : c \in ToSet(t)
    <3>1. c \in UNION {ToSet(work[e]) : e \in Flying} <=> \E e \in Flying : c \in ToSet(work[e])
      OBVIOUS
    <3>2. c \in UNION {ToSet(t) : t \in ToSet(tasks)} <=> \E t \in ToSet(tasks) : c \in ToSet(t)
      OBVIOUS
    <3> DEFINE A == UNION {ToSet(work[e]) : e \in Flying}
               B == UNION {ToSet(t) : t \in ToSet(tasks)}
    <3>3. InFlight = A \cup B
      BY DEF InFlight
    <3>4. (c \in A <=> \E e \in Flying : c \in ToSet(work[e])) /\ (c \in B <=> \E t \in ToSet(tasks) : c \in ToSet(t))
      BY <3>1, <3>2
    <3> HIDE DEF A, B
    <3>5. QED
      BY <3>3, <3>4
  <2>2. \A t : t \in ToSet(tasks) <=> \E n \in DOMAIN tasks : tasks[n] = t
    BY DEF ToSet
  <2>3. \A t : c \in ToSet(t) <=> \E i \in DOMAIN t : t[i] = c
    BY DEF ToSet
  <2>4. (\E t \in ToSet(tasks) : c \in ToSet(t)) <=> \E n \in DOMAIN tasks : c \in ToSet(tasks[n])
    BY <2>2
  <2>5. QED
    BY <2>1, <2>3, <2>4
<1>3. InFlight \subseteq Streams
  BY <1>1, <1>2
<1>4. QED
  BY <1>2, <1>3, ConfigAssumption, FS_Subset, FS_CardinalityType

\* The jobs of one flying task.
LEMMA WorkCounted ==
  ASSUME TypeOK, WorkersHoldBlocked, Counters, NEW e \in Flying
  PROVE  /\ ToSet(work[e]) \subseteq InFlight
         /\ Cardinality(ToSet(work[e])) = Len(work[e]) /\ IsFiniteSet(ToSet(work[e]))
         /\ Len(work[e]) <= items /\ flying >= 1
<1>1. e \in Executors /\ work[e] \in Seq(Streams)
  BY DEF TypeOK, Flying
<1>2. Injective(work[e])
  BY <1>1 DEF WorkersHoldBlocked, Injective
<1>3. Cardinality(ToSet(work[e])) = Len(work[e]) /\ IsFiniteSet(ToSet(work[e]))
  BY <1>1, <1>2, CardOfInjective
<1>4. ToSet(work[e]) \subseteq InFlight
  BY <1>1, InFlightJobs, SetOfSeq
<1>5. Cardinality(ToSet(work[e])) <= Cardinality(InFlight)
  BY <1>4, InFlightJobs, FS_Subset
<1>6. Cardinality(Flying) >= 1
  <2>1. Flying # {}
    OBVIOUS
  <2>2. QED
    BY <2>1, FlyingFinite, FS_EmptySet
<1>7. QED
  BY <1>3, <1>4, <1>5, <1>6, FlyingFinite DEF Counters, TypeOK

-----------------------------------------------------------------------------
(* Type correctness.                                                       *)

LEMMA DefaultOpIsOp == DefaultOp \in Ops
BY ConfigAssumption DEF DefaultOp

LEMMA InitTypeOK == Init => TypeOK
<1> SUFFICES ASSUME Init PROVE TypeOK
  OBVIOUS
<1>1. Ready = {}
  BY DEF Init, Ready, ToSet
<1>2. Cardinality(Ready) <= MaxDepth
  BY <1>1, FS_EmptySet, ConfigAssumption
<1>3. 0 \in 0 .. Cardinality(Executors)
  BY ConfigAssumption, FS_CardinalityType
<1>4. op \in [Streams -> Ops]
  BY DefaultOpIsOp DEF Init
<1>5. answer \in [Streams -> [kind : {"pending", "value", "error"}, of : Streams]]
  BY DEF Init, Pending
<1>6. wtarget \in 0 .. MaxBatch
  BY ConfigAssumption DEF Init
<1>7. /\ stopping \in BOOLEAN /\ scheduled \in BOOLEAN /\ late \in BOOLEAN
  BY DEF Init
<1>8. /\ epc \in [Executors -> {"check", "asleep", "run", "finish", "announce", "resolve", "exited"}]
      /\ work \in [Executors -> Seq(Streams)]
      /\ results \in [Executors -> Seq([kind : {"value", "error"}, of : Streams])]
      /\ queue \in [Ops -> Seq(Streams)] /\ older \subseteq Streams \X Streams
      /\ tasks \in Seq(Seq(Streams)) /\ items \in Nat /\ flying = 0
  BY DEF Init
<1>9. /\ pc \in [Streams -> {"out", "wave", "timedout", "woken", "publish", "announce", "step",
                         "lone", "inline", "enqueue", "notify", "waiting", "failed", "farewell"}]
      /\ admitted \in Nat /\ sadm \in Nat
      /\ spc \in {"check", "asleep", "pick", "decide", "dozing", "handoff", "exited"}
      /\ closer \in {"idle", "notify", "join", "joining", "returned"}
  BY DEF Init
<1>10. QED
  BY <1>2, <1>3, <1>4, <1>5, <1>6, <1>7, <1>8, <1>9 DEF TypeOK

LEMMA QueueStep ==
  ASSUME TypeOK, QueuesHoldBlocked, [Next]_vars
  PROVE  queue' \in [Ops -> Seq(Streams)] /\ Cardinality(Ready') <= MaxDepth
<1>1. CASE UNCHANGED queue
  <2>1. Ready' = Ready
    BY <1>1 DEF Ready
  <2>2. QED
    BY <1>1, <2>1 DEF TypeOK
<1>2. ASSUME NEW c \in Streams, Enqueue(c), Cardinality(Ready) < MaxDepth,
             queue' = [queue EXCEPT ![op[c]] = Append(@, c)]
      PROVE  queue' \in [Ops -> Seq(Streams)] /\ Cardinality(Ready') <= MaxDepth
  <2>1. op[c] \in Ops
    BY DEF TypeOK
  <2>2. queue' \in [Ops -> Seq(Streams)] /\ Ready' = Ready \cup {c}
    BY <1>2, <2>1, ReadyAfterAppend
  <2>3. IsFiniteSet(Ready)
    BY ReadyJobs
  <2>4. Cardinality(Ready) \in Nat
    BY <2>3, FS_CardinalityType
  <2>5. Cardinality(Ready \cup {c}) = IF c \in Ready THEN Cardinality(Ready) ELSE Cardinality(Ready) + 1
    BY <2>3, FS_AddElement
  <2>6. Cardinality(Ready \cup {c}) <= MaxDepth
    BY <1>2, <2>4, <2>5, ConfigAssumption
  <2>7. QED
    BY <2>2, <2>6
<1>3. ASSUME NEW k \in Candidates, Dispatch(k)
      PROVE  queue' \in [Ops -> Seq(Streams)] /\ Cardinality(Ready') <= MaxDepth
  <2>1. queue' \in [Ops -> Seq(Streams)] /\ Ready' \subseteq Ready
    BY <1>3, ReadyAfterTake DEF Dispatch
  <2>2. Cardinality(Ready') <= Cardinality(Ready)
    BY <2>1, ReadyJobs, FS_Subset
  <2>3. IsFiniteSet(Ready) /\ IsFiniteSet(Ready')
    BY <2>1, ReadyJobs, FS_Subset
  <2>4. Cardinality(Ready) \in Nat /\ Cardinality(Ready') \in Nat
    BY <2>3, FS_CardinalityType
  <2>5. QED
    BY <2>1, <2>2, <2>4, ConfigAssumption DEF TypeOK
<1>4. ASSUME NEW c \in Streams, StreamNext(c)
      PROVE  UNCHANGED queue \/ (Enqueue(c) /\ queue' = [queue EXCEPT ![op[c]] = Append(@, c)] /\ ~(Cardinality(Ready) >= MaxDepth))
  BY <1>4 DEF StreamNext, BeginAlone, BeginInWave, WaveDeadline, CloseWave, Announce, ResumeWave,
              EndStep, Farewell, StartCall, EnterInline, InlineDone, Enqueue, NotifyScheduler,
              Return, queueVars
<1>5. ASSUME SchedulerStep \/ Deadline
      PROVE  UNCHANGED queue \/ \E k \in Candidates : Dispatch(k)
  BY <1>5 DEF SchedulerStep, SchedulerCheck, ReadAdmitted, Decide, Handoff, Deadline, queueVars
<1>6. ASSUME NEW e \in Executors, ExecutorStep(e)
      PROVE  UNCHANGED queue
  BY <1>6 DEF ExecutorStep, ExecutorCheck, Run, FinishTask, AnnounceFinish, Resolve, queueVars
<1>7. ASSUME Shutdown \/ Terminated \/ UNCHANGED vars
      PROVE  UNCHANGED queue
  BY <1>7 DEF Shutdown, BeginShutdown, NotifyShutdown, JoinScheduler, JoinExecutors, Terminated,
              queueVars, vars
<1>8. ~(Cardinality(Ready) >= MaxDepth) => Cardinality(Ready) < MaxDepth
  BY ReadyJobs, FS_CardinalityType, ConfigAssumption
<1>9. QED
  BY <1>1, <1>2, <1>3, <1>4, <1>5, <1>6, <1>7, <1>8 DEF Next

LEMMA StepTypeOK ==
  ASSUME IInv, [Next]_vars
  PROVE  TypeOK'
<1> DEFINE QT == queue' \in [Ops -> Seq(Streams)] /\ Cardinality(Ready') <= MaxDepth
<1>0. QT
  BY QueueStep DEF IInv
<1>a. TypeOK
  BY DEF IInv
<1> HIDE DEF QT
<1>1. CASE UNCHANGED vars
  BY <1>0, <1>a, <1>1 DEF vars, TypeOK, QT
<1>2. ASSUME NEW c \in Streams, StreamNext(c)
      PROVE  TypeOK'
  <2> USE DEF TypeOK, streamVars, admissionVars, queueVars, schedulerVars, taskVars, executorVars, shutdownVars
  <2>1. CASE BeginAlone(c)
    BY <1>0, <1>a, <2>1 DEF BeginAlone, QT
  <2>2. ASSUME NEW S \in SUBSET Streams PROVE admitted + Cardinality(S) \in Nat
    <3>1. IsFiniteSet(S)
      BY ConfigAssumption, FS_Subset
    <3>2. Cardinality(S) \in Nat
      BY <3>1, FS_CardinalityType
    <3>3. QED
      BY <1>a, <3>2
  <2>3. Waiting \cup {c} \in SUBSET Streams /\ 0 \in 0 .. MaxBatch
    BY ConfigAssumption DEF Waiting
  <2>4. ReleaseWave(c) => /\ admitted' \in Nat /\ wtarget' \in 0 .. MaxBatch
                          /\ pc' \in [Streams -> {"out", "wave", "timedout", "woken", "publish",
                                "announce", "step", "lone", "inline", "enqueue", "notify",
                                "waiting", "failed", "farewell"}]
    BY <1>a, <2>2, <2>3 DEF ReleaseWave
  <2>5. \A cohort \in Nat : WaveTarget(cohort) \in 0 .. MaxBatch
    BY <1>a, ConfigAssumption DEF WaveTarget
  <2>6. CASE BeginInWave(c)
    <3>1. PICK cohort \in Cohorts[c] :
            \/ ReleaseWave(c)
            \/ pc' = [pc EXCEPT ![c] = "wave"] /\ wtarget' = WaveTarget(cohort) /\ UNCHANGED admitted
      BY <2>6 DEF BeginInWave
    <3>2. WaveTarget(cohort) \in 0 .. MaxBatch
      BY <2>5, ConfigAssumption
    <3>3. /\ admitted' \in Nat /\ wtarget' \in 0 .. MaxBatch
          /\ pc' \in [Streams -> {"out", "wave", "timedout", "woken", "publish", "announce", "step",
                         "lone", "inline", "enqueue", "notify", "waiting", "failed",
                         "farewell"}]
      BY <1>a, <2>4, <2>5, <3>1, <3>2
    <3>4. QED
      BY <1>0, <1>a, <2>6, <3>3 DEF BeginInWave, QT
  <2>7. CASE CloseWave(c)
    BY <1>0, <1>a, <2>4, <2>7 DEF CloseWave, QT
  <2>8. CASE WaveDeadline(c) \/ Announce(c) \/ ResumeWave(c) \/ Farewell(c)
    <3>1. CASE WaveDeadline(c) \/ ResumeWave(c)
      BY <1>0, <1>a, <3>1 DEF WaveDeadline, ResumeWave, QT
    <3>2. CASE Announce(c) \/ Farewell(c)
      BY <1>0, <1>a, <3>2 DEF Announce, Farewell, Wake, QT
    <3>3. QED
      BY <2>8, <3>1, <3>2
  <2>9. CASE EndStep(c)
    <3>1. c \in Active
      BY <2>9 DEF EndStep, Active, Admitted
    <3>2. admitted \in Nat \ {0}
      BY <3>1, ActiveFinite, FS_EmptySet DEF IInv, Counters
    <3>3. admitted' \in Nat
      BY <2>9, <3>2 DEF EndStep
    <3>4. QED
      BY <1>0, <1>a, <2>9, <3>3 DEF EndStep, QT
  <2>10. \A kind \in {"pending", "value", "error"} :
           [kind |-> kind, of |-> c] \in [kind : {"pending", "value", "error"}, of : Streams]
    OBVIOUS
  <2>11. Made \X {c} \subseteq Streams \X Streams
    BY <1>a, ReadyJobs DEF Made
  <2>12. CASE StartCall(c)
    <3>1. answer' \in [Streams -> [kind : {"pending", "value", "error"}, of : Streams]]
      BY <1>a, <2>12, <2>10 DEF StartCall, Pending
    <3>2. op' \in [Streams -> Ops] /\ older' \subseteq Streams \X Streams
      BY <1>a, <2>12, <2>11 DEF StartCall
    <3>3. pc' \in [Streams -> {"out", "wave", "timedout", "woken", "publish", "announce", "step",
                         "lone", "inline", "enqueue", "notify", "waiting", "failed",
                         "farewell"}]
      BY <1>a, <2>12 DEF StartCall
    <3>4. QED
      BY <1>0, <1>a, <2>12, <3>1, <3>2, <3>3 DEF StartCall, QT
  <2>13. CASE EnterInline(c) \/ NotifyScheduler(c)
    BY <1>0, <1>a, <2>13 DEF EnterInline, NotifyScheduler, Wake, QT
  <2>14. CASE InlineDone(c)
    <3>1. answer' \in [Streams -> [kind : {"pending", "value", "error"}, of : Streams]]
      BY <1>a, <2>14, <2>10 DEF InlineDone, Answer
    <3>2. QED
      BY <1>0, <1>a, <2>14, <3>1 DEF InlineDone, QT
  <2>15. CASE Enqueue(c)
    <3>1. answer' \in [Streams -> [kind : {"pending", "value", "error"}, of : Streams]]
      BY <1>a, <2>15, <2>10 DEF Enqueue, Answer
    <3>2. older' \subseteq Streams \X Streams
      BY <1>a, <2>15 DEF Enqueue, Forget
    <3>3. QED
      BY <1>0, <1>a, <2>15, <3>1, <3>2 DEF Enqueue, QT
  <2>16. CASE Return(c)
    <3>1. answer' \in [Streams -> [kind : {"pending", "value", "error"}, of : Streams]]
      BY <1>a, <2>16, <2>10 DEF Return, Pending
    <3>2. op' \in [Streams -> Ops]
      BY <1>a, <2>16, DefaultOpIsOp DEF Return
    <3>3. QED
      BY <1>0, <1>a, <2>16, <3>1, <3>2 DEF Return, QT
  <2>17. QED
    BY <1>2, <2>1, <2>6, <2>7, <2>8, <2>9, <2>12, <2>13, <2>14, <2>15, <2>16 DEF StreamNext
<1>3. ASSUME SchedulerStep \/ Deadline
      PROVE  TypeOK'
  <2> USE DEF TypeOK, streamVars, admissionVars, queueVars, schedulerVars, taskVars, executorVars, shutdownVars
  <2>1. CASE SchedulerCheck
    BY <1>0, <1>a, <2>1 DEF SchedulerCheck, WakeAll, QT
  <2>2. CASE ReadAdmitted \/ Deadline
    BY <1>0, <1>a, <2>2 DEF ReadAdmitted, Deadline, QT
  <2>3. CASE Handoff
    BY <1>0, <1>a, <2>3 DEF Handoff, WakeOne, QT
  <2>4. ASSUME NEW k \in Candidates, Decide, Dispatch(k)
        PROVE  TypeOK'
    <3>1. /\ Take(k) \in Seq(Streams) /\ BatchSize(k) \in Nat
      <4>1. Take(k) \in Seq(Streams) /\ BatchSize(k) \in 1 .. MaxBatch
        BY <1>a, TakeShape
      <4>2. QED
        BY <4>1, ConfigAssumption
    <3>2. flying < Cardinality(Executors) /\ Cardinality(Executors) \in Nat
      BY <2>4, ConfigAssumption, FS_CardinalityType DEF IInv, Phases, Decide
    <3>3. flying' \in 0 .. Cardinality(Executors) /\ items' \in Nat
      BY <1>a, <2>4, <3>1, <3>2 DEF Dispatch
    <3>4. tasks' \in Seq(Seq(Streams))
      BY <1>a, <2>4, <3>1 DEF Dispatch
    <3>5. older' \subseteq Streams \X Streams
      BY <1>a, <2>4 DEF Dispatch, Forget
    <3>6. QED
      BY <1>0, <1>a, <2>4, <3>3, <3>4, <3>5 DEF Decide, Dispatch, QT
  <2>5. CASE Decide
    <3>1. CASE spc' = "dozing" /\ sadm' = 0 /\ UNCHANGED <<queueVars, late, taskVars>>
      BY <1>0, <1>a, <2>5, <3>1 DEF Decide, QT
    <3>2. QED
      BY <2>4, <2>5, <3>1 DEF Decide
  <2>6. QED
    BY <1>3, <2>1, <2>2, <2>3, <2>5 DEF SchedulerStep
<1>4. ASSUME NEW e \in Executors, ExecutorStep(e)
      PROVE  TypeOK'
  <2> USE DEF TypeOK, streamVars, admissionVars, queueVars, schedulerVars, taskVars, executorVars, shutdownVars
  <2>1. CASE ExecutorCheck(e)
    <3>1. tasks # <<>> => Head(tasks) \in Seq(Streams) /\ Tail(tasks) \in Seq(Seq(Streams))
      BY <1>a
    <3>2. QED
      BY <1>0, <1>a, <2>1, <3>1 DEF ExecutorCheck, QT
  <2>2. CASE Run(e)
    <3>1. PICK kind \in {"value", "error"} :
            results' = [results EXCEPT ![e] =
                     [i \in DOMAIN work[e] |-> [kind |-> kind, of |-> work[e][i]]]]
      BY <2>2 DEF Run
    <3>2. work[e] \in Seq(Streams)
      BY <1>a
    <3>3. [i \in DOMAIN work[e] |-> [kind |-> kind, of |-> work[e][i]]]
             \in Seq([kind : {"value", "error"}, of : Streams])
      <4>1. PICK n \in Nat : n = Len(work[e]) /\ DOMAIN work[e] = 1 .. n
        BY <3>2
      <4>2. \A i \in 1 .. n : [kind |-> kind, of |-> work[e][i]] \in [kind : {"value", "error"}, of : Streams]
        BY <3>2, <4>1
      <4>3. [i \in 1 .. n |-> [kind |-> kind, of |-> work[e][i]]] \in [1 .. n -> [kind : {"value", "error"}, of : Streams]]
        BY <4>2
      <4>4. QED
        BY <4>1, <4>3
    <3>4. QED
      BY <1>0, <1>a, <2>2, <3>1, <3>3 DEF Run, QT
  <2>3. CASE FinishTask(e)
    <3>1. e \in Flying
      BY <2>3 DEF FinishTask, Flying
    <3>2. Len(work[e]) <= items /\ flying >= 1
      BY <3>1, WorkCounted DEF IInv
    <3>3. items' \in Nat /\ flying' \in 0 .. Cardinality(Executors)
      BY <1>a, <2>3, <3>2, ConfigAssumption, FS_CardinalityType DEF FinishTask
    <3>4. QED
      BY <1>0, <1>a, <2>3, <3>3 DEF FinishTask, QT
  <2>4. CASE AnnounceFinish(e)
    BY <1>0, <1>a, <2>4 DEF AnnounceFinish, Wake, QT
  <2>5. CASE Resolve(e)
    <3>1. work[e] # <<>> /\ Len(results[e]) = Len(work[e])
      BY <2>5 DEF Resolve, IInv, WorkIsOfPhase
    <3>2. work[e] \in Seq(Streams) /\ results[e] \in Seq([kind : {"value", "error"}, of : Streams])
      BY <1>a
    <3>3. results[e] # <<>>
      BY <3>1, <3>2
    <3>4. Head(results[e]) \in [kind : {"value", "error"}, of : Streams]
      <4>1. \A T : \A s \in Seq(T) : s # <<>> => Head(s) \in T
        OBVIOUS
      <4>2. QED
        BY <3>2, <3>3, <4>1
    <3>5. answer' \in [Streams -> [kind : {"pending", "value", "error"}, of : Streams]]
      BY <1>a, <2>5, <3>4 DEF Resolve
    <3>6. work' \in [Executors -> Seq(Streams)] /\ results' \in [Executors -> Seq([kind : {"value", "error"}, of : Streams])]
      BY <1>a, <2>5, <3>1, <3>2, <3>3 DEF Resolve
    <3>7. QED
      BY <1>0, <1>a, <2>5, <3>5, <3>6 DEF Resolve, QT
  <2>6. QED
    BY <1>4, <2>1, <2>2, <2>3, <2>4, <2>5 DEF ExecutorStep
<1>5. ASSUME Shutdown \/ Terminated
      PROVE  TypeOK'
  BY <1>0, <1>a, <1>5 DEF Shutdown, BeginShutdown, NotifyShutdown, JoinScheduler, JoinExecutors, Terminated,
      Wake, WakeAll, TypeOK, QT, streamVars, admissionVars, queueVars, schedulerVars, taskVars,
      executorVars, shutdownVars, vars
<1>6. QED
  BY <1>1, <1>2, <1>3, <1>4, <1>5 DEF Next

-----------------------------------------------------------------------------
(* Who holds which job.                                                    *)

(* A step that moves no job: those that are blocked stay so, in the same   *)
(* operation.                                                              *)
Quiet ==
  /\ UNCHANGED <<queue, tasks, work>>
  /\ \A c \in Streams : (IsBlocked(c)' <=> IsBlocked(c)) /\ (IsBlocked(c) => op'[c] = op[c])

LEMMA QuietStream ==
  ASSUME TypeOK, NEW c \in Streams,
         \/ BeginAlone(c) \/ BeginInWave(c) \/ WaveDeadline(c) \/ CloseWave(c)
         \/ Announce(c) \/ ResumeWave(c) \/ EndStep(c) \/ Farewell(c)
         \/ StartCall(c) \/ EnterInline(c) \/ InlineDone(c) \/ NotifyScheduler(c) \/ Return(c)
  PROVE  Quiet
<1> USE DEF Quiet, IsBlocked, streamVars, queueVars, taskVars, executorVars
<1>1. /\ pc \in [Streams -> {"out", "wave", "timedout", "woken", "publish", "announce", "step",
                         "lone", "inline", "enqueue", "notify", "waiting", "failed", "farewell"}]
      /\ op \in [Streams -> Ops]
      /\ answer \in [Streams -> [kind : {"pending", "value", "error"}, of : Streams]]
  BY DEF TypeOK
<1>2. CASE \/ BeginAlone(c) \/ WaveDeadline(c) \/ Announce(c) \/ ResumeWave(c) \/ EndStep(c)
          \/ Farewell(c) \/ EnterInline(c) \/ NotifyScheduler(c)
  BY <1>1, <1>2 DEF BeginAlone, WaveDeadline, Announce, ResumeWave, EndStep, Farewell, EnterInline,
                    NotifyScheduler
<1>3. ReleaseWave(c) /\ pc[c] \in {"out", "timedout"} =>
        \A d \in Streams : pc'[d] \in {"notify", "waiting"} <=> pc[d] \in {"notify", "waiting"}
  BY <1>1 DEF ReleaseWave, Waiting
<1>4. CASE BeginInWave(c)
  BY <1>1, <1>3, <1>4 DEF BeginInWave
<1>5. CASE CloseWave(c)
  BY <1>1, <1>3, <1>5 DEF CloseWave
<1>6. CASE StartCall(c)
  BY <1>1, <1>6 DEF StartCall, Pending
<1>7. CASE InlineDone(c)
  BY <1>1, <1>7 DEF InlineDone, Answer
<1>8. CASE Return(c)
  <2>1. pc'[c] \in {"step", "failed"} /\ ~IsBlocked(c)
    BY <1>1, <1>8 DEF Return
  <2>2. \A d \in Streams \ {c} : pc'[d] = pc[d] /\ answer'[d] = answer[d] /\ op'[d] = op[d]
    BY <1>1, <1>8 DEF Return
  <2>3. UNCHANGED <<queue, tasks, work>>
    BY <1>8 DEF Return
  <2>4. QED
    BY <2>1, <2>2, <2>3
<1>9. QED
  BY <1>2, <1>4, <1>5, <1>6, <1>7, <1>8

LEMMA QuietThread ==
  ASSUME \/ SchedulerCheck \/ ReadAdmitted \/ Handoff \/ Deadline
         \/ \E e \in Executors : Run(e) \/ FinishTask(e) \/ AnnounceFinish(e)
         \/ Shutdown \/ Terminated \/ UNCHANGED vars
  PROVE  Quiet /\ UNCHANGED <<pc, op, answer, queue, tasks, work>>
BY DEF Quiet, IsBlocked, streamVars, queueVars, taskVars, executorVars, vars, SchedulerCheck,
       ReadAdmitted, Handoff, Deadline, Run, FinishTask, AnnounceFinish, Shutdown, BeginShutdown,
       NotifyShutdown, JoinScheduler, JoinExecutors, Terminated

JobsHeld == QueuesHoldBlocked /\ TasksHoldBlocked /\ WorkersHoldBlocked

LEMMA JobTypes ==
  ASSUME TypeOK
  PROVE  /\ \A k \in Ops : queue[k] \in Seq(Streams) /\ \A i \in DOMAIN queue[k] : queue[k][i] \in Streams
         /\ \A n \in DOMAIN tasks : tasks[n] \in Seq(Streams) /\ \A i \in DOMAIN tasks[n] : tasks[n][i] \in Streams
         /\ \A e \in Executors : work[e] \in Seq(Streams) /\ \A i \in DOMAIN work[e] : work[e][i] \in Streams
BY DEF TypeOK

LEMMA QuietKeepsJobs ==
  ASSUME TypeOK, JobsHeld, Quiet
  PROVE  JobsHeld'
<1>1. Ready' = Ready
  BY DEF Quiet, Ready
<1>2. QueuesHoldBlocked'
  BY JobTypes DEF Quiet, JobsHeld, QueuesHoldBlocked, Injective
<1>3. TasksHoldBlocked'
  BY <1>1, JobTypes DEF Quiet, JobsHeld, TasksHoldBlocked, IsBatch
<1>4. WorkersHoldBlocked'
  BY <1>1, JobTypes DEF Quiet, JobsHeld, WorkersHoldBlocked
<1>5. QED
  BY <1>2, <1>3, <1>4 DEF JobsHeld

(* Enqueue: a job enters its queue, or is refused.                         *)
LEMMA EnqueueKeepsJobs ==
  ASSUME TypeOK, JobsHeld, AnswersAreOwn, NEW c \in Streams, Enqueue(c)
  PROVE  JobsHeld'
<1>1. /\ pc \in [Streams -> {"out", "wave", "timedout", "woken", "publish", "announce", "step",
                         "lone", "inline", "enqueue", "notify", "waiting", "failed", "farewell"}]
      /\ op \in [Streams -> Ops]
      /\ answer \in [Streams -> [kind : {"pending", "value", "error"}, of : Streams]]
  BY DEF TypeOK
<1>2. ~IsBlocked(c) /\ UNCHANGED <<op, tasks, work>>
  BY DEF Enqueue, IsBlocked, taskVars, executorVars
<1>3. \A d \in Streams \ {c} : IsBlocked(d)' <=> IsBlocked(d)
  BY <1>1 DEF Enqueue, IsBlocked, Answer
<1>4. CASE Cardinality(Ready) >= MaxDepth
  <2>1. ~IsBlocked(c)'
    BY <1>1, <1>4 DEF Enqueue, IsBlocked, Answer
  <2>2. Quiet
    BY <1>2, <1>3, <1>4, <2>1 DEF Quiet, Enqueue
  <2>3. QED
    BY <2>2, QuietKeepsJobs
<1>5. CASE ~(Cardinality(Ready) >= MaxDepth)
  <2>1. PICK k \in Ops : k = op[c] /\ queue' = [queue EXCEPT ![k] = Append(@, c)]
    BY <1>1, <1>5 DEF Enqueue
  <2>2. /\ Ready' = Ready \cup {c}
        /\ \A j \in Ops : \A i \in DOMAIN queue'[j] :
             \/ i \in DOMAIN queue[j] /\ queue'[j][i] = queue[j][i]
             \/ j = k /\ i = Len(queue[k]) + 1 /\ queue'[j][i] = c
    BY <2>1, ReadyAfterAppend
  <2>3. \A j \in Ops : \A i \in DOMAIN queue[j] : queue[j][i] # c
    BY <1>2 DEF JobsHeld, QueuesHoldBlocked
  <2>4. QueuesHoldBlocked'
    <3>1. op'[c] = k
      BY <1>2, <2>1
    <3>2. IsBlocked(c)'
      BY <1>1, <1>5 DEF Enqueue, IsBlocked, AnswersAreOwn
    <3> DEFINE B == {d \in Streams : IsBlocked(d)'}
    <3>a. \A d \in Streams : IsBlocked(d) => d \in B
      BY <1>2, <1>3
    <3>b. c \in B
      BY <3>2
    <3> HIDE DEF B
    <3>3. \A j \in Ops : \A i \in DOMAIN queue'[j] : op'[queue'[j][i]] = j /\ queue'[j][i] \in B
      <4>1. \A j \in Ops : \A i \in DOMAIN queue[j] : op'[queue[j][i]] = j /\ queue[j][i] \in B
        BY <1>2, <3>a, JobTypes DEF JobsHeld, QueuesHoldBlocked
      <4>2. QED
        BY <4>1, <2>2, <3>1, <3>b
    <3>4. \A j \in Ops : Injective(queue[j])
      BY DEF JobsHeld, QueuesHoldBlocked
    <3>5. \A j \in Ops : Injective(queue'[j])
      BY <2>2, <2>3, <3>4 DEF Injective
    <3>6. QED
      BY <3>3, <3>5 DEF QueuesHoldBlocked, Injective, B, IsBlocked
  <2>5. \A n \in DOMAIN tasks : \A i \in DOMAIN tasks[n] : tasks[n][i] # c
    BY <1>2 DEF JobsHeld, TasksHoldBlocked
  <2>6. \A e \in Executors : \A i \in DOMAIN work[e] : work[e][i] # c
    BY <1>2 DEF JobsHeld, WorkersHoldBlocked
  <2>7. TasksHoldBlocked'
    BY <1>2, <1>3, <2>2, <2>5, JobTypes DEF JobsHeld, TasksHoldBlocked, IsBatch
  <2>8. WorkersHoldBlocked'
    BY <1>2, <1>3, <2>2, <2>6, JobTypes DEF JobsHeld, WorkersHoldBlocked
  <2>9. QED
    BY <2>4, <2>7, <2>8 DEF JobsHeld
<1>6. QED
  BY <1>4, <1>5

(* Dispatch: the front of a queue becomes a task.                          *)
LEMMA DispatchKeepsJobs ==
  ASSUME TypeOK, JobsHeld, NEW k \in Candidates, Dispatch(k), UNCHANGED <<pc, op, answer, work>>
  PROVE  JobsHeld'
<1> DEFINE new == Take(k)
<1>1. /\ k \in Ops /\ new \in Seq(Streams) /\ Len(new) \in 1 .. MaxBatch
      /\ \A i \in DOMAIN new : i \in DOMAIN queue[k] /\ new[i] = queue[k][i]
  BY TakeShape
<1>2. /\ Ready' = Ready \ ToSet(new) /\ ToSet(new) \subseteq Ready
      /\ \A j \in Ops : \A i \in DOMAIN queue'[j] :
              LET shift == IF j = k THEN BatchSize(k) ELSE 0
              IN  i + shift \in DOMAIN queue[j] /\ queue'[j][i] = queue[j][i + shift]
  BY ReadyAfterTake DEF Dispatch, JobsHeld
<1>3. \A i \in DOMAIN new : new[i] \in ToSet(new)
  BY DEF ToSet
<1>4. /\ \A c \in Streams : IsBlocked(c)' <=> IsBlocked(c)
      /\ op' = op /\ work' = work
  BY DEF IsBlocked
<1>5. tasks' = Append(tasks, new)
  BY DEF Dispatch
<1> HIDE DEF new
<1>6. /\ DOMAIN tasks' = 1 .. Len(tasks) + 1 /\ DOMAIN tasks = 1 .. Len(tasks) /\ Len(tasks) \in Nat
      /\ \A n \in DOMAIN tasks : tasks'[n] = tasks[n]
      /\ tasks'[Len(tasks) + 1] = new
  <2>1. tasks \in Seq(Seq(Streams))
    BY DEF TypeOK
  <2>2. QED
    BY <1>1, <1>5, <2>1
<1>7. QueuesHoldBlocked'
  <2>1. BatchSize(k) \in Nat
    <3>1. BatchSize(k) \in 1 .. MaxBatch
      BY TakeShape
    <3>2. QED
      BY <3>1, ConfigAssumption
  <2>2. \A j \in Ops : \E shift \in Nat : \A i \in DOMAIN queue'[j] :
          i + shift \in DOMAIN queue[j] /\ queue'[j][i] = queue[j][i + shift]
    BY <1>2, <2>1
  <2>3. \A j \in Ops : \A i \in DOMAIN queue'[j] : op[queue'[j][i]] = j /\ IsBlocked(queue'[j][i])
    BY <2>2 DEF JobsHeld, QueuesHoldBlocked
  <2>4. \A j \in Ops : DOMAIN queue'[j] \subseteq Nat
    <3>1. queue' \in [Ops -> Seq(Streams)]
      BY ReadyAfterTake DEF Dispatch, JobsHeld
    <3>2. \A j \in Ops : queue'[j] \in Seq(Streams)
      BY <3>1
    <3>3. QED
      BY <3>2
  <2>5. \A j \in Ops : Injective(queue'[j])
    <3> SUFFICES ASSUME NEW j \in Ops, NEW i \in DOMAIN queue'[j], NEW m \in DOMAIN queue'[j],
                        queue'[j][i] = queue'[j][m]
                 PROVE  i = m
      BY DEF Injective
    <3>1. PICK shift \in Nat : \A q \in DOMAIN queue'[j] :
            q + shift \in DOMAIN queue[j] /\ queue'[j][q] = queue[j][q + shift]
      BY <2>2
    <3>2. i + shift = m + shift
      BY <3>1 DEF JobsHeld, QueuesHoldBlocked, Injective
    <3>3. QED
      BY <3>1, <3>2, <2>4
  <2>6. QED
    BY <2>3, <2>5, <1>4 DEF QueuesHoldBlocked, Injective, IsBlocked
<1>8. /\ \A i, j \in DOMAIN new : op[new[i]] = op[new[j]]
      /\ \A i, j \in DOMAIN new : new[i] = new[j] => i = j
      /\ \A i \in DOMAIN new : IsBlocked(new[i]) /\ new[i] \in Ready /\ new[i] \notin Ready' /\ new[i] \in Streams
  BY <1>1, <1>2, <1>3 DEF JobsHeld, QueuesHoldBlocked, Injective
<1>9. TasksHoldBlocked'
  <2>1. \A n \in DOMAIN tasks' :
       /\ Len(tasks'[n]) \in 1 .. MaxBatch /\ \A i, j \in DOMAIN tasks'[n] : op[tasks'[n][i]] = op[tasks'[n][j]]
       /\ \A i \in DOMAIN tasks'[n] : IsBlocked(tasks'[n][i]) /\ tasks'[n][i] \notin Ready'
    <3>1. \A n \in DOMAIN tasks :
       /\ Len(tasks'[n]) \in 1 .. MaxBatch /\ \A i, j \in DOMAIN tasks'[n] : op[tasks'[n][i]] = op[tasks'[n][j]]
       /\ \A i \in DOMAIN tasks'[n] : IsBlocked(tasks'[n][i]) /\ tasks'[n][i] \notin Ready'
      BY <1>2, <1>6 DEF JobsHeld, TasksHoldBlocked, IsBatch
    <3>2. QED
      BY <3>1, <1>1, <1>6, <1>8
  <2>2. \A n, m \in DOMAIN tasks' : \A i \in DOMAIN tasks'[n], j \in DOMAIN tasks'[m] :
       tasks'[n][i] = tasks'[m][j] => n = m /\ i = j
    <3>1. \A n, m \in DOMAIN tasks : \A i \in DOMAIN tasks'[n], j \in DOMAIN tasks'[m] :
       tasks'[n][i] = tasks'[m][j] => n = m /\ i = j
      BY <1>6 DEF JobsHeld, TasksHoldBlocked
    <3>2. \A n \in DOMAIN tasks : \A i \in DOMAIN tasks'[n], j \in DOMAIN new : tasks'[n][i] # new[j]
      BY <1>6, <1>8 DEF JobsHeld, TasksHoldBlocked
    <3>3. QED
      BY <3>1, <3>2, <1>6, <1>8
  <2>3. \A n \in DOMAIN tasks' : \A i \in DOMAIN tasks'[n] : tasks'[n][i] \in Streams
    BY <1>6, <1>8, JobTypes
  <2>4. QED
    BY <2>1, <2>2, <2>3, <1>4 DEF TasksHoldBlocked, IsBatch, IsBlocked
<1>10. WorkersHoldBlocked'
  <2>1. \A e \in Executors : \A i \in DOMAIN work[e] :
          /\ IsBlocked(work[e][i])' /\ work[e][i] \notin Ready'
          /\ \A n \in DOMAIN tasks' : \A j \in DOMAIN tasks'[n] : tasks'[n][j] # work[e][i]
    <3> SUFFICES ASSUME NEW e \in Executors, NEW i \in DOMAIN work[e]
                 PROVE  /\ IsBlocked(work[e][i]) /\ work[e][i] \notin Ready'
                        /\ \A n \in DOMAIN tasks' : \A j \in DOMAIN tasks'[n] : tasks'[n][j] # work[e][i]
      BY <1>4 DEF IsBlocked
    <3>1. /\ IsBlocked(work[e][i]) /\ work[e][i] \notin Ready
          /\ \A n \in DOMAIN tasks : \A j \in DOMAIN tasks[n] : tasks[n][j] # work[e][i]
      BY DEF JobsHeld, WorkersHoldBlocked
    <3>2. \A j \in DOMAIN new : new[j] # work[e][i]
      BY <3>1, <1>8
    <3>3. QED
      BY <3>1, <3>2, <1>2, <1>6
  <2>2. \A e, f \in Executors : \A i \in DOMAIN work[e], j \in DOMAIN work[f] :
          work[e][i] = work[f][j] => e = f /\ i = j
    BY DEF JobsHeld, WorkersHoldBlocked
  <2>3. QED
    BY <2>1, <2>2, <1>4 DEF WorkersHoldBlocked, IsBlocked
<1>11. QED
  BY <1>7, <1>9, <1>10 DEF JobsHeld

(* An executor takes the first task.                                       *)
LEMMA TakeTaskKeepsJobs ==
  ASSUME TypeOK, JobsHeld, WorkIsOfPhase, NEW e \in Executors, ExecutorCheck(e)
  PROVE  JobsHeld'
<1>1. CASE tasks = <<>>
  <2>1. Quiet
    BY <1>1 DEF ExecutorCheck, Quiet, IsBlocked, streamVars, queueVars
  <2>2. QED
    BY <2>1, QuietKeepsJobs
<1>2. CASE tasks # <<>>
  <2>1. /\ DOMAIN tasks' = 1 .. Len(tasks) - 1 /\ DOMAIN tasks = 1 .. Len(tasks) /\ Len(tasks) \in Nat \ {0}
        /\ \A n \in DOMAIN tasks' : n + 1 \in DOMAIN tasks /\ n + 1 # 1 /\ tasks'[n] = tasks[n + 1]
        /\ 1 \in DOMAIN tasks /\ Head(tasks) = tasks[1]
    <3>1. tasks \in Seq(Seq(Streams)) /\ tasks' = Tail(tasks)
      BY <1>2 DEF TypeOK, ExecutorCheck
    <3>2. QED
      BY <1>2, <3>1
  <2>2. /\ \A c \in Streams : IsBlocked(c)' <=> IsBlocked(c)
        /\ UNCHANGED <<pc, op, answer, queue>> /\ Ready' = Ready
    BY DEF ExecutorCheck, IsBlocked, streamVars, queueVars, Ready
  <2>3. /\ work'[e] = tasks[1]
        /\ \A f \in Executors \ {e} : work'[f] = work[f]
    BY <1>2, <2>1 DEF TypeOK, ExecutorCheck
  <2>4. QueuesHoldBlocked'
    BY <2>2, JobTypes DEF JobsHeld, QueuesHoldBlocked, Injective
  <2>5. TasksHoldBlocked'
    <3>1. \A n \in DOMAIN tasks' :
       /\ Len(tasks'[n]) \in 1 .. MaxBatch /\ \A i, j \in DOMAIN tasks'[n] : op[tasks'[n][i]] = op[tasks'[n][j]]
       /\ \A i \in DOMAIN tasks'[n] : IsBlocked(tasks'[n][i]) /\ tasks'[n][i] \notin Ready
      BY <2>1 DEF JobsHeld, TasksHoldBlocked, IsBatch
    <3>2. \A n, m \in DOMAIN tasks' : \A i \in DOMAIN tasks'[n], j \in DOMAIN tasks'[m] :
       tasks'[n][i] = tasks'[m][j] => n = m /\ i = j
      <4> SUFFICES ASSUME NEW n \in DOMAIN tasks', NEW m \in DOMAIN tasks',
                          NEW i \in DOMAIN tasks'[n], NEW j \in DOMAIN tasks'[m], tasks'[n][i] = tasks'[m][j]
                   PROVE  n = m /\ i = j
        OBVIOUS
      <4>1. n + 1 = m + 1 /\ i = j
        BY <2>1 DEF JobsHeld, TasksHoldBlocked
      <4>2. QED
        BY <4>1, <2>1
    <3>3. QED
      BY <3>1, <3>2, <2>2 DEF TasksHoldBlocked, IsBatch, IsBlocked
  <2>6. WorkersHoldBlocked'
    <3>1. /\ \A i \in DOMAIN tasks[1] : IsBlocked(tasks[1][i]) /\ tasks[1][i] \notin Ready
          /\ \A i, j \in DOMAIN tasks[1] : tasks[1][i] = tasks[1][j] => i = j
          /\ \A n \in DOMAIN tasks' : \A i \in DOMAIN tasks[1], j \in DOMAIN tasks'[n] : tasks'[n][j] # tasks[1][i]
      BY <2>1 DEF JobsHeld, TasksHoldBlocked
    <3>2. \A f \in Executors : \A j \in DOMAIN work[f] :
            /\ IsBlocked(work[f][j]) /\ work[f][j] \notin Ready
            /\ \A i \in DOMAIN tasks[1] : tasks[1][i] # work[f][j]
            /\ \A n \in DOMAIN tasks' : \A i \in DOMAIN tasks'[n] : tasks'[n][i] # work[f][j]
      BY <2>1 DEF JobsHeld, WorkersHoldBlocked
    <3>3. \A f \in Executors : \A i \in DOMAIN work'[f] :
            /\ IsBlocked(work'[f][i]) /\ work'[f][i] \notin Ready
            /\ \A n \in DOMAIN tasks' : \A j \in DOMAIN tasks'[n] : tasks'[n][j] # work'[f][i]
      BY <2>3, <3>1, <3>2
    <3>4. \A f, g \in Executors : \A i \in DOMAIN work'[f], j \in DOMAIN work'[g] :
            work'[f][i] = work'[g][j] => f = g /\ i = j
      <4>1. \A f, g \in Executors : \A i \in DOMAIN work[f], j \in DOMAIN work[g] :
              work[f][i] = work[g][j] => f = g /\ i = j
        BY DEF JobsHeld, WorkersHoldBlocked
      <4>2. QED
        BY <4>1, <2>3, <3>1, <3>2
    <3>5. QED
      BY <3>3, <3>4, <2>2 DEF WorkersHoldBlocked, IsBlocked
  <2>7. QED
    BY <2>4, <2>5, <2>6 DEF JobsHeld
<1>3. QED
  BY <1>1, <1>2

(* An answer frees one job, which is in no other place.                    *)
LEMMA ResolveKeepsJobs ==
  ASSUME TypeOK, JobsHeld, WorkIsOfPhase, NEW e \in Executors, Resolve(e)
  PROVE  JobsHeld'
<1>1. work[e] \in Seq(Streams) /\ work[e] # <<>>
  BY JobTypes DEF Resolve, WorkIsOfPhase
<1>2. /\ 1 \in DOMAIN work[e] /\ Head(work[e]) = work[e][1] /\ work[e][1] \in Streams
      /\ DOMAIN work[e] = 1 .. Len(work[e])
      /\ DOMAIN Tail(work[e]) = 1 .. Len(work[e]) - 1
      /\ \A i \in DOMAIN Tail(work[e]) : i \in Nat /\ i + 1 \in DOMAIN work[e] /\ i + 1 # 1 /\ Tail(work[e])[i] = work[e][i + 1]
  BY <1>1
<1> DEFINE c == work[e][1]
<1>3. /\ work'[e] = Tail(work[e])
      /\ \A f \in Executors \ {e} : work'[f] = work[f]
      /\ \A d \in Streams \ {c} : answer'[d] = answer[d]
      /\ UNCHANGED <<pc, op, queue, tasks>> /\ Ready' = Ready
  BY <1>2 DEF TypeOK, Resolve, queueVars, taskVars, Ready
<1>4. \A d \in Streams \ {c} : IsBlocked(d)' <=> IsBlocked(d)
  BY <1>3 DEF IsBlocked
<1>5. \A k \in Ops : \A i \in DOMAIN queue[k] : queue[k][i] \in Streams \ {c}
  BY <1>2, ReadyJobs, JobTypes DEF JobsHeld, WorkersHoldBlocked
<1>6. \A n \in DOMAIN tasks : \A i \in DOMAIN tasks[n] : tasks[n][i] \in Streams \ {c}
  BY <1>2, JobTypes DEF JobsHeld, WorkersHoldBlocked
<1>7. \A f \in Executors : \A i \in DOMAIN work'[f] :
        \E m \in DOMAIN work[f] : /\ m = (IF f = e THEN i + 1 ELSE i)
                                 /\ work'[f][i] = work[f][m] /\ work[f][m] \in Streams \ {c}
  <2>1. \A f \in Executors : \A m \in DOMAIN work[f] : work[f][m] = work[e][1] => f = e /\ m = 1
    BY <1>2 DEF JobsHeld, WorkersHoldBlocked
  <2>2. \A i \in DOMAIN work'[e] : /\ i + 1 \in DOMAIN work[e] /\ i + 1 # 1
                                  /\ work'[e][i] = work[e][i + 1] /\ work[e][i + 1] \in Streams
    BY <1>2, <1>3, JobTypes
  <2>3. \A f \in Executors \ {e} : \A i \in DOMAIN work'[f] :
          i \in DOMAIN work[f] /\ work'[f][i] = work[f][i] /\ work[f][i] \in Streams
    BY <1>3, JobTypes
  <2> HIDE DEF c
  <2>4. \A i \in DOMAIN work'[e] : work[e][i + 1] # c
    BY <2>1, <2>2 DEF c
  <2>5. \A f \in Executors \ {e} : \A i \in DOMAIN work'[f] : work[f][i] # c
    BY <2>1, <2>3 DEF c
  <2>6. QED
    BY <2>2, <2>3, <2>4, <2>5
<1>8. QueuesHoldBlocked'
  BY <1>3, <1>4, <1>5 DEF JobsHeld, QueuesHoldBlocked, Injective
<1>9. TasksHoldBlocked'
  BY <1>3, <1>4, <1>6 DEF JobsHeld, TasksHoldBlocked, IsBatch
<1>10. WorkersHoldBlocked'
  <2> HIDE DEF c
  <2>1. \A f \in Executors : \A i \in DOMAIN work'[f] :
            /\ IsBlocked(work'[f][i]) /\ work'[f][i] \in Streams \ {c} /\ work'[f][i] \notin Ready
            /\ \A n \in DOMAIN tasks : \A j \in DOMAIN tasks[n] : tasks[n][j] # work'[f][i]
    BY <1>7 DEF JobsHeld, WorkersHoldBlocked
  <2>2. \A f, g \in Executors : \A i \in DOMAIN work'[f], j \in DOMAIN work'[g] :
            work'[f][i] = work'[g][j] => f = g /\ i = j
    <3> SUFFICES ASSUME NEW f \in Executors, NEW g \in Executors, NEW i \in DOMAIN work'[f],
                        NEW j \in DOMAIN work'[g], work'[f][i] = work'[g][j]
                 PROVE  f = g /\ i = j
      OBVIOUS
    <3>1. PICK m \in DOMAIN work[f] : m = (IF f = e THEN i + 1 ELSE i) /\ work'[f][i] = work[f][m]
      BY <1>7
    <3>2. PICK n \in DOMAIN work[g] : n = (IF g = e THEN j + 1 ELSE j) /\ work'[g][j] = work[g][n]
      BY <1>7
    <3>3. f = g /\ m = n
      <4>1. work[f][m] = work[g][n]
        BY <3>1, <3>2
      <4>2. QED
        BY <4>1 DEF JobsHeld, WorkersHoldBlocked
    <3>4. f = e => i \in Nat /\ j \in Nat
      BY <1>2, <1>3, <3>3
    <3>5. QED
      BY <3>1, <3>2, <3>3, <3>4
  <2>3. QED
    BY <2>1, <2>2, <1>3, <1>4 DEF WorkersHoldBlocked, IsBlocked
<1>11. QED
  BY <1>8, <1>9, <1>10 DEF JobsHeld

LEMMA StepJobsHeld ==
  ASSUME IInv, [Next]_vars
  PROVE  JobsHeld'
<1> USE DEF IInv
<1>1. TypeOK /\ JobsHeld /\ AnswersAreOwn /\ WorkIsOfPhase
  BY DEF JobsHeld
<1>2. ASSUME NEW c \in Streams, StreamNext(c)
      PROVE  JobsHeld'
  BY <1>1, <1>2, QuietStream, QuietKeepsJobs, EnqueueKeepsJobs DEF StreamNext
<1>3. CASE SchedulerStep \/ Deadline
  <2>1. CASE Decide
    <3>1. CASE Quiet
      BY <1>1, <3>1, QuietKeepsJobs
    <3>2. ASSUME NEW k \in Candidates, Dispatch(k), UNCHANGED <<pc, op, answer, work>>
          PROVE  JobsHeld'
      BY <1>1, <3>2, DispatchKeepsJobs
    <3>3. Quiet \/ (UNCHANGED <<pc, op, answer, work>> /\ \E k \in Candidates : Dispatch(k))
      BY <2>1 DEF Decide, Quiet, IsBlocked, streamVars, queueVars, taskVars, executorVars
    <3>4. QED
      BY <3>1, <3>2, <3>3
  <2>2. CASE SchedulerCheck \/ ReadAdmitted \/ Handoff \/ Deadline
    BY <1>1, <2>2, QuietThread, QuietKeepsJobs
  <2>3. QED
    BY <1>3, <2>1, <2>2 DEF SchedulerStep
<1>4. ASSUME NEW e \in Executors, ExecutorStep(e)
      PROVE  JobsHeld'
  <2>1. CASE Run(e) \/ FinishTask(e) \/ AnnounceFinish(e)
    BY <1>1, <2>1, QuietThread, QuietKeepsJobs
  <2>2. QED
    BY <1>1, <1>4, <2>1, TakeTaskKeepsJobs, ResolveKeepsJobs DEF ExecutorStep
<1>5. CASE Shutdown \/ Terminated \/ UNCHANGED vars
  BY <1>1, <1>5, QuietThread, QuietKeepsJobs
<1>6. QED
  BY <1>2, <1>3, <1>4, <1>5 DEF Next

-----------------------------------------------------------------------------
(* What an executor has at each place of its loop.                         *)

\* Notifications wake executors and change nothing else of them.
WokenOnly ==
  /\ UNCHANGED <<work, results>>
  /\ \A e \in Executors : epc'[e] = epc[e] \/ (epc[e] = "asleep" /\ epc'[e] = "check")

LEMMA WokenByOthers ==
  ASSUME TypeOK,
         \/ \E c \in Streams : StreamNext(c)
         \/ SchedulerStep \/ Deadline \/ Shutdown \/ Terminated \/ UNCHANGED vars
  PROVE  WokenOnly
<1>1. epc \in [Executors -> {"check", "asleep", "run", "finish", "announce", "resolve", "exited"}]
  BY DEF TypeOK
<1>2. ASSUME NEW c \in Streams, StreamNext(c) PROVE WokenOnly
  BY <1>2 DEF WokenOnly, StreamNext, BeginAlone, BeginInWave, WaveDeadline, CloseWave, Announce,
              ResumeWave, EndStep, Farewell, StartCall, EnterInline, InlineDone, Enqueue,
              NotifyScheduler, Return, executorVars
<1>3. WakeAll => \A e \in Executors : epc'[e] = epc[e] \/ (epc[e] = "asleep" /\ epc'[e] = "check")
  BY <1>1 DEF WakeAll
<1>4. WakeOne => \A e \in Executors : epc'[e] = epc[e] \/ (epc[e] = "asleep" /\ epc'[e] = "check")
  BY <1>1 DEF WakeOne
<1>5. ASSUME SchedulerStep \/ Deadline PROVE WokenOnly
  BY <1>3, <1>4, <1>5 DEF WokenOnly, SchedulerStep, SchedulerCheck, ReadAdmitted, Decide, Handoff,
                          Deadline, executorVars
<1>6. ASSUME Shutdown \/ Terminated \/ UNCHANGED vars PROVE WokenOnly
  BY <1>3, <1>6 DEF WokenOnly, Shutdown, BeginShutdown, NotifyShutdown, JoinScheduler, JoinExecutors,
                    Terminated, executorVars, vars
<1>7. QED
  BY <1>2, <1>5, <1>6

LEMMA BatchesStay ==
  ASSUME TypeOK, JobsHeld, NEW e \in Executors, IsBatch(work[e]),
         \A c \in Streams : IsBlocked(c) => op'[c] = op[c]
  PROVE  /\ Len(work[e]) \in 1 .. MaxBatch
         /\ \A i, j \in DOMAIN work[e] : op'[work[e][i]] = op'[work[e][j]]
<1>1. \A i \in DOMAIN work[e] : op'[work[e][i]] = op[work[e][i]]
  BY JobTypes DEF JobsHeld, WorkersHoldBlocked
<1>2. QED
  BY <1>1 DEF IsBatch

LEMMA BlockedKeepOp ==
  ASSUME TypeOK, [Next]_vars
  PROVE  \A c \in Streams : IsBlocked(c) => op'[c] = op[c]
<1>1. ASSUME NEW d \in Streams, StreamNext(d)
      PROVE  \A c \in Streams : IsBlocked(c) => op'[c] = op[c]
  <2>1. CASE Enqueue(d)
    BY <2>1 DEF Enqueue
  <2>2. QED
    BY <1>1, <2>1, QuietStream DEF StreamNext, Quiet
<1>2. SchedulerStep \/ Deadline => UNCHANGED op
  BY DEF SchedulerStep, SchedulerCheck, ReadAdmitted, Decide, Handoff, Deadline, streamVars
<1>3. ASSUME NEW e \in Executors, ExecutorStep(e) PROVE UNCHANGED op
  BY <1>3 DEF ExecutorStep, ExecutorCheck, Run, FinishTask, AnnounceFinish, Resolve, streamVars
<1>4. Shutdown \/ Terminated \/ UNCHANGED vars => UNCHANGED op
  BY DEF Shutdown, BeginShutdown, NotifyShutdown, JoinScheduler, JoinExecutors, Terminated, streamVars, vars
<1>5. QED
  BY <1>1, <1>2, <1>3, <1>4 DEF Next

LEMMA StepWorkIsOfPhase ==
  ASSUME IInv, [Next]_vars
  PROVE  WorkIsOfPhase'
<1>1. TypeOK /\ JobsHeld /\ WorkIsOfPhase
  BY DEF IInv, JobsHeld
<1>2. \A c \in Streams : IsBlocked(c) => op'[c] = op[c]
  BY <1>1, BlockedKeepOp
<1>3. \A e \in Executors : epc[e] \in {"run", "finish"} =>
        /\ Len(work[e]) \in 1 .. MaxBatch
        /\ \A i, j \in DOMAIN work[e] : op'[work[e][i]] = op'[work[e][j]]
  BY <1>1, <1>2, BatchesStay DEF WorkIsOfPhase
<1>4. CASE WokenOnly
  BY <1>1, <1>3, <1>4 DEF WorkIsOfPhase, WokenOnly, IsBatch
<1>5. ASSUME NEW e \in Executors, ExecutorStep(e)
      PROVE  WorkIsOfPhase'
  <2> USE DEF WorkIsOfPhase, IsBatch
  <2>0. /\ epc \in [Executors -> {"check", "asleep", "run", "finish", "announce", "resolve", "exited"}]
        /\ work \in [Executors -> Seq(Streams)]
        /\ results \in [Executors -> Seq([kind : {"value", "error"}, of : Streams])]
    BY <1>1 DEF TypeOK
  <2>1. CASE ExecutorCheck(e)
    <3>1. CASE tasks = <<>>
      BY <1>1, <1>3, <2>0, <2>1, <3>1 DEF ExecutorCheck
    <3>2. CASE tasks # <<>>
      <4>1. tasks \in Seq(Seq(Streams)) /\ 1 \in DOMAIN tasks /\ Head(tasks) = tasks[1]
        BY <1>1, <3>2 DEF TypeOK
      <4>2. /\ Len(tasks[1]) \in 1 .. MaxBatch
            /\ \A i, j \in DOMAIN tasks[1] : op[tasks[1][i]] = op[tasks[1][j]]
        BY <1>1, <4>1 DEF JobsHeld, TasksHoldBlocked
      <4>3. op' = op /\ results' = results
        BY <2>1 DEF ExecutorCheck, streamVars
      <4>4. tasks[1] # <<>>
        BY <4>1, <4>2
      <4>5. /\ work' = [work EXCEPT ![e] = tasks[1]] /\ epc' = [epc EXCEPT ![e] = "run"]
        BY <2>1, <3>2, <4>1 DEF ExecutorCheck
      <4>6. QED
        BY <1>1, <1>3, <2>0, <4>2, <4>3, <4>4, <4>5
    <3>3. QED
      BY <3>1, <3>2
  <2>2. CASE Run(e)
    <3>1. PICK kind \in {"value", "error"} :
            results' = [results EXCEPT ![e] =
                     [i \in DOMAIN work[e] |-> [kind |-> kind, of |-> work[e][i]]]]
      BY <2>2 DEF Run
    <3>2. results'[e] = [i \in DOMAIN work[e] |-> [kind |-> kind, of |-> work[e][i]]]
      BY <2>0, <3>1
    <3>3. Len(results'[e]) = Len(work[e]) /\ \A i \in DOMAIN work[e] : results'[e][i].of = work[e][i]
      <4>1. work[e] \in Seq(Streams)
        BY <2>0
      <4>2. PICK n \in Nat : n = Len(work[e]) /\ DOMAIN work[e] = 1 .. n
        BY <4>1
      <4>3. results'[e] = [i \in 1 .. n |-> [kind |-> kind, of |-> work[e][i]]]
        BY <3>2, <4>2
      <4>4. Len(results'[e]) = n
        BY <4>3
      <4>5. QED
        BY <4>2, <4>3, <4>4
    <3>4. /\ \A f \in Executors \ {e} : results'[f] = results[f]
          /\ UNCHANGED <<work, op>> /\ epc' = [epc EXCEPT ![e] = "finish"] /\ epc[e] = "run"
      BY <2>0, <2>2, <3>1 DEF Run, streamVars
    <3>5. QED
      BY <1>1, <1>3, <2>0, <3>3, <3>4
  <2>3. CASE FinishTask(e) \/ AnnounceFinish(e)
    BY <1>1, <1>3, <2>0, <2>3 DEF FinishTask, AnnounceFinish
  <2>4. CASE Resolve(e)
    <3>1. /\ work[e] \in Seq(Streams) /\ work[e] # <<>> /\ Len(results[e]) = Len(work[e])
          /\ results[e] \in Seq([kind : {"value", "error"}, of : Streams]) /\ results[e] # <<>>
          /\ \A i \in DOMAIN work[e] : results[e][i].of = work[e][i]
      <4>1. /\ work[e] \in Seq(Streams) /\ work[e] # <<>> /\ Len(results[e]) = Len(work[e])
            /\ results[e] \in Seq([kind : {"value", "error"}, of : Streams])
            /\ \A i \in DOMAIN work[e] : results[e][i].of = work[e][i]
        BY <1>1, <2>0, <2>4 DEF Resolve
      <4>2. results[e] # <<>>
        BY <4>1
      <4>3. QED
        BY <4>1, <4>2
    <3>2. /\ work'[e] = Tail(work[e]) /\ results'[e] = Tail(results[e])
          /\ epc'[e] = IF Len(work[e]) = 1 THEN "check" ELSE "resolve"
          /\ \A f \in Executors \ {e} : work'[f] = work[f] /\ results'[f] = results[f] /\ epc'[f] = epc[f]
          /\ op' = op
      BY <2>0, <2>4 DEF Resolve
    <3>3. Tail(work[e]) = <<>> <=> Len(work[e]) = 1
      <4>1. Len(Tail(work[e])) = Len(work[e]) - 1 /\ Tail(work[e]) \in Seq(Streams) /\ Len(work[e]) \in Nat
        BY <3>1
      <4>2. \A s \in Seq(Streams) : s = <<>> <=> Len(s) = 0
        OBVIOUS
      <4>3. Tail(work[e]) = <<>> <=> Len(Tail(work[e])) = 0
        BY <4>1, <4>2
      <4>4. Len(work[e]) - 1 = 0 <=> Len(work[e]) = 1
        BY <4>1
      <4>5. QED
        BY <4>1, <4>3, <4>4
    <3>4. /\ Len(Tail(results[e])) = Len(Tail(work[e]))
          /\ \A i \in DOMAIN Tail(work[e]) : Tail(results[e])[i] = results[e][i + 1] /\ Tail(work[e])[i] = work[e][i + 1] /\ i + 1 \in DOMAIN work[e]
      BY <3>1
    <3>5. \A f \in Executors \ {e} :
            /\ epc'[f] \in {"check", "asleep", "exited"} <=> work'[f] = <<>>
            /\ epc'[f] \in {"run", "finish"} => IsBatch(work[f])'
            /\ epc'[f] \in {"finish", "announce", "resolve"} =>
                 /\ Len(results'[f]) = Len(work'[f])
                 /\ \A i \in DOMAIN work'[f] : results'[f][i].of = work'[f][i]
      BY <1>1, <1>3, <3>2
    <3>6. /\ epc'[e] \in {"check", "resolve"}
          /\ epc'[e] = "check" <=> work'[e] = <<>>
      BY <3>2, <3>3
    <3>7. /\ Len(results'[e]) = Len(work'[e])
          /\ \A i \in DOMAIN work'[e] : results'[e][i].of = work'[e][i]
      BY <3>1, <3>2, <3>4
    <3>8. QED
      BY <3>5, <3>6, <3>7
  <2>5. QED
    BY <1>5, <2>1, <2>2, <2>3, <2>4 DEF ExecutorStep
<1>6. QED
  BY <1>1, <1>4, <1>5, WokenByOthers DEF Next

-----------------------------------------------------------------------------
(* Answers.                                                                *)

LEMMA HeldIs ==
  ASSUME NEW c
  PROVE  Held(c) <=> \/ c \in Ready
                     \/ \E e \in Executors : \E i \in DOMAIN work[e] : work[e][i] = c
                     \/ \E n \in DOMAIN tasks : \E i \in DOMAIN tasks[n] : tasks[n][i] = c
<1>1. \A t : c \in ToSet(t) <=> \E i \in DOMAIN t : t[i] = c
  BY DEF ToSet
<1>2. (\E t \in ToSet(tasks) : c \in ToSet(t)) <=> \E n \in DOMAIN tasks : c \in ToSet(tasks[n])
  BY DEF ToSet
<1>3. QED
  BY <1>1, <1>2 DEF Held

LEMMA HeldIsNext ==
  ASSUME NEW c
  PROVE  Held(c)' <=> \/ c \in Ready'
                      \/ \E e \in Executors : \E i \in DOMAIN work'[e] : work'[e][i] = c
                      \/ \E n \in DOMAIN tasks' : \E i \in DOMAIN tasks'[n] : tasks'[n][i] = c
<1>1. \A t : c \in ToSet(t) <=> \E i \in DOMAIN t : t[i] = c
  BY DEF ToSet
<1>2. (\E t \in ToSet(tasks') : c \in ToSet(t)) <=> \E n \in DOMAIN tasks' : c \in ToSet(tasks'[n])
  BY DEF ToSet
<1>3. (\E e \in Executors : c \in ToSet(work'[e])) <=> \E e \in Executors : \E i \in DOMAIN work'[e] : work'[e][i] = c
  BY <1>1
<1>4. (\E n \in DOMAIN tasks' : c \in ToSet(tasks'[n])) <=> \E n \in DOMAIN tasks' : \E i \in DOMAIN tasks'[n] : tasks'[n][i] = c
  BY <1>1
<1>5. QED
  BY <1>2, <1>3, <1>4 DEF Held

\* Every job that is blocked after the step is still held.
LEMMA StepHeld ==
  ASSUME IInv, [Next]_vars, NEW c \in Streams, IsBlocked(c)'
  PROVE  Held(c)'
<1>1. TypeOK /\ JobsHeld /\ AnswersAreOwn /\ WorkIsOfPhase /\ QueuesHoldBlocked
  BY DEF IInv, JobsHeld
<1>2. CASE Quiet
  <2>1. Held(c)
    BY <1>1, <1>2 DEF Quiet, AnswersAreOwn
  <2>2. QED
    BY <1>2, <2>1 DEF Quiet, Held, Ready
<1>3. ASSUME NEW d \in Streams, Enqueue(d)
      PROVE  Held(c)'
  <2>1. /\ pc \in [Streams -> {"out", "wave", "timedout", "woken", "publish", "announce", "step",
                         "lone", "inline", "enqueue", "notify", "waiting", "failed", "farewell"}]
        /\ answer \in [Streams -> [kind : {"pending", "value", "error"}, of : Streams]]
        /\ op[d] \in Ops
    BY <1>1 DEF TypeOK
  <2>2. CASE c = d
    <3>1. ~(Cardinality(Ready) >= MaxDepth)
      BY <1>3, <2>1, <2>2 DEF Enqueue, IsBlocked, Answer
    <3>2. PICK k \in Ops : k = op[d] /\ queue' = [queue EXCEPT ![k] = Append(@, d)]
      BY <1>3, <2>1, <3>1 DEF Enqueue
    <3>3. Ready' = Ready \cup {d}
      BY <1>1, <3>2, ReadyAfterAppend
    <3>4. QED
      BY <2>2, <3>3, HeldIsNext
  <2>3. CASE c # d
    <3>1. IsBlocked(c)
      BY <1>3, <2>1, <2>3 DEF Enqueue, IsBlocked, Answer
    <3>2. Held(c)
      BY <1>1, <3>1 DEF AnswersAreOwn
    <3>3. Ready \subseteq Ready'
      <4>1. CASE UNCHANGED queue
        BY <4>1 DEF Ready
      <4>2. ASSUME NEW k \in Ops, queue' = [queue EXCEPT ![k] = Append(@, d)]
            PROVE  Ready \subseteq Ready'
        BY <1>1, <4>2, ReadyAfterAppend
      <4>3. UNCHANGED queue \/ \E k \in Ops : queue' = [queue EXCEPT ![k] = Append(@, d)]
        BY <1>3, <2>1 DEF Enqueue
      <4>4. QED
        BY <4>1, <4>2, <4>3
    <3>4. UNCHANGED <<tasks, work>>
      BY <1>3 DEF Enqueue, taskVars, executorVars
    <3>5. QED
      BY <3>2, <3>3, <3>4, HeldIs, HeldIsNext
  <2>4. QED
    BY <2>2, <2>3
<1>4. ASSUME NEW k \in Candidates, Dispatch(k), UNCHANGED <<pc, op, answer, work>>
      PROVE  Held(c)'
  <2>1. Held(c)
    BY <1>1, <1>4 DEF IsBlocked, AnswersAreOwn
  <2>2. Ready' = Ready \ ToSet(Take(k))
    BY <1>1, <1>4, ReadyAfterTake DEF Dispatch
  <2>3. tasks' = Append(tasks, Take(k)) /\ tasks \in Seq(Seq(Streams)) /\ Take(k) \in Seq(Streams)
    BY <1>1, <1>4, TakeShape DEF Dispatch, TypeOK
  <2>4. /\ \A n \in DOMAIN tasks : n \in DOMAIN tasks' /\ tasks'[n] = tasks[n]
        /\ Len(tasks) + 1 \in DOMAIN tasks' /\ tasks'[Len(tasks) + 1] = Take(k)
    BY <2>3
  <2>5. c \in ToSet(Take(k)) => \E i \in DOMAIN Take(k) : Take(k)[i] = c
    BY DEF ToSet
  <2>6. QED
    BY <1>4, <2>1, <2>2, <2>4, <2>5, HeldIs, HeldIsNext
<1>5. ASSUME NEW e \in Executors, ExecutorCheck(e), tasks # <<>>
      PROVE  Held(c)'
  <2>1. Held(c)
    BY <1>1, <1>5 DEF IsBlocked, AnswersAreOwn, ExecutorCheck, streamVars
  <2>2. tasks \in Seq(Seq(Streams)) /\ tasks' = Tail(tasks) /\ tasks # <<>> /\ Ready' = Ready
    BY <1>1, <1>5 DEF TypeOK, ExecutorCheck, Ready, queueVars
  <2>3. /\ \A n \in DOMAIN tasks \ {1} : n - 1 \in DOMAIN tasks' /\ tasks'[n - 1] = tasks[n]
        /\ Head(tasks) = tasks[1]
    BY <2>2
  <2>4. work'[e] = tasks[1] /\ work[e] = <<>> /\ \A f \in Executors \ {e} : work'[f] = work[f]
    BY <1>1, <1>5, <2>3 DEF ExecutorCheck, TypeOK, WorkIsOfPhase
  <2>5. \A f \in Executors : \A i \in DOMAIN work[f] : f # e
    BY <2>4
  <2>6. \A n \in DOMAIN tasks : \A i \in DOMAIN tasks[n] : tasks[n][i] = c =>
          \/ \E j \in DOMAIN work'[e] : work'[e][j] = c
          \/ \E m \in DOMAIN tasks' : \E j \in DOMAIN tasks'[m] : tasks'[m][j] = c
    BY <2>3, <2>4
  <2>7. \A f \in Executors : \A i \in DOMAIN work[f] : work'[f] = work[f]
    BY <2>4, <2>5
  <2>8. QED
    BY <2>1, <2>2, <2>6, <2>7, HeldIs, HeldIsNext
<1>6. ASSUME NEW e \in Executors, Resolve(e)
      PROVE  Held(c)'
  <2>1. work[e] \in Seq(Streams) /\ work[e] # <<>> /\ Len(results[e]) = Len(work[e])
        /\ results[e] \in Seq([kind : {"value", "error"}, of : Streams])
    BY <1>1, <1>6, JobTypes DEF Resolve, WorkIsOfPhase, TypeOK
  <2>2. /\ Head(work[e]) = work[e][1] /\ work[e][1] \in Streams
        /\ \A i \in DOMAIN work[e] \ {1} : i - 1 \in DOMAIN Tail(work[e]) /\ Tail(work[e])[i - 1] = work[e][i]
    BY <2>1
  <2>3. Head(results[e]).kind # "pending"
    <3>1. \A T : \A s \in Seq(T) : s # <<>> => Head(s) \in T
      OBVIOUS
    <3>2. results[e] # <<>>
      BY <2>1
    <3>3. Head(results[e]) \in [kind : {"value", "error"}, of : Streams]
      BY <2>1, <3>1, <3>2
    <3>4. QED
      BY <3>3
  <2>4. /\ answer' = [answer EXCEPT ![work[e][1]] = Head(results[e])]
        /\ work'[e] = Tail(work[e]) /\ \A f \in Executors \ {e} : work'[f] = work[f]
        /\ UNCHANGED <<pc, queue, tasks>> /\ Ready' = Ready
    BY <1>1, <1>6, <2>2 DEF Resolve, TypeOK, queueVars, taskVars, Ready
  <2>5. answer \in [Streams -> [kind : {"pending", "value", "error"}, of : Streams]]
    BY <1>1 DEF TypeOK
  <2>6. c # work[e][1]
    BY <2>2, <2>3, <2>4, <2>5 DEF IsBlocked
  <2>7. IsBlocked(c)
    BY <2>4, <2>5, <2>6 DEF IsBlocked
  <2>8. Held(c)
    BY <1>1, <2>7 DEF AnswersAreOwn
  <2>9. \A f \in Executors : \A i \in DOMAIN work[f] : work[f][i] = c =>
          \E m \in DOMAIN work'[f] : work'[f][m] = c
    <3>1. \A i \in DOMAIN work[e] : work[e][i] = c => i - 1 \in DOMAIN work'[e] /\ work'[e][i - 1] = c
      BY <2>2, <2>4, <2>6
    <3>2. QED
      BY <2>4, <3>1
  <2>10. QED
    BY <2>4, <2>8, <2>9, HeldIs, HeldIsNext
<1>7. ASSUME NEW d \in Streams, StreamNext(d)
      PROVE  Held(c)'
  BY <1>1, <1>2, <1>3, <1>7, QuietStream DEF StreamNext
<1>8. CASE SchedulerStep \/ Deadline
  <2>1. CASE Decide
    <3>1. Quiet \/ (UNCHANGED <<pc, op, answer, work>> /\ \E k \in Candidates : Dispatch(k))
      BY <2>1 DEF Decide, Quiet, IsBlocked, streamVars, queueVars, taskVars, executorVars
    <3>2. QED
      BY <1>2, <1>4, <3>1
  <2>2. QED
    BY <1>2, <1>8, <2>1, QuietThread DEF SchedulerStep
<1>9. ASSUME NEW e \in Executors, ExecutorStep(e)
      PROVE  Held(c)'
  <2>1. CASE ExecutorCheck(e) /\ tasks = <<>>
    <3>1. Quiet
      BY <2>1 DEF ExecutorCheck, Quiet, IsBlocked, streamVars, queueVars
    <3>2. QED
      BY <3>1, <1>2
  <2>2. CASE Run(e) \/ FinishTask(e) \/ AnnounceFinish(e)
    BY <2>2, <1>2, QuietThread
  <2>3. QED
    BY <1>5, <1>6, <1>9, <2>1, <2>2 DEF ExecutorStep
<1>10. CASE Shutdown \/ Terminated \/ UNCHANGED vars
  BY <1>2, <1>10, QuietThread
<1>11. QED
  BY <1>7, <1>8, <1>9, <1>10 DEF Next

LEMMA StepAnswersAreOwn ==
  ASSUME IInv, [Next]_vars
  PROVE  AnswersAreOwn'
<1> DEFINE Own == \A c \in Streams : /\ answer'[c].of = c
                                     /\ pc'[c] \notin {"notify", "waiting"} => answer'[c].kind = "pending"
<1>1. TypeOK /\ JobsHeld /\ AnswersAreOwn /\ WorkIsOfPhase
  BY DEF IInv, JobsHeld
<1>2. /\ pc \in [Streams -> {"out", "wave", "timedout", "woken", "publish", "announce", "step",
                         "lone", "inline", "enqueue", "notify", "waiting", "failed", "farewell"}]
      /\ answer \in [Streams -> [kind : {"pending", "value", "error"}, of : Streams]]
  BY <1>1 DEF TypeOK
<1>3. \A c \in Streams : /\ answer[c].of = c
                         /\ pc[c] \notin {"notify", "waiting"} => answer[c].kind = "pending"
  BY <1>1 DEF AnswersAreOwn
<1>4. ASSUME UNCHANGED <<pc, answer>> PROVE Own
  BY <1>3, <1>4
<1>5. ASSUME NEW c \in Streams, StreamNext(c)
      PROVE  Own
  <2>1. CASE \/ BeginAlone(c) \/ WaveDeadline(c) \/ Announce(c) \/ ResumeWave(c) \/ EndStep(c)
            \/ Farewell(c) \/ EnterInline(c) \/ NotifyScheduler(c)
    BY <1>2, <1>3, <2>1 DEF BeginAlone, WaveDeadline, Announce, ResumeWave, EndStep, Farewell,
                            EnterInline, NotifyScheduler, streamVars
  <2>2. ReleaseWave(c) /\ UNCHANGED answer /\ pc[c] \in {"out", "timedout"} => Own
    <3>1. ReleaseWave(c) /\ pc[c] \in {"out", "timedout"} =>
            \A d \in Streams : pc'[d] \notin {"notify", "waiting"} => pc[d] \notin {"notify", "waiting"}
      BY <1>2 DEF ReleaseWave, Waiting
    <3>2. QED
      BY <1>3, <3>1
  <2>3. CASE BeginInWave(c)
    <3>1. CASE pc' = [pc EXCEPT ![c] = "wave"]
      BY <1>2, <1>3, <2>3, <3>1 DEF BeginInWave, streamVars
    <3>2. QED
      BY <2>2, <2>3, <3>1 DEF BeginInWave, streamVars
  <2>4. CASE CloseWave(c)
    BY <2>2, <2>4 DEF CloseWave, streamVars
  <2>5. CASE StartCall(c)
    <3>1. answer'[c] = [kind |-> "pending", of |-> c]
      BY <1>2, <2>5 DEF StartCall, Pending
    <3>2. \A d \in Streams \ {c} : answer'[d] = answer[d] /\ pc'[d] = pc[d]
      BY <1>2, <2>5 DEF StartCall
    <3>3. QED
      BY <1>3, <3>1, <3>2
  <2>6. CASE InlineDone(c) \/ Enqueue(c)
    <3>1. /\ answer'[c].of = c /\ pc'[c] \in {"notify", "waiting"}
          /\ \A d \in Streams \ {c} : answer'[d] = answer[d] /\ pc'[d] = pc[d]
      <4>1. CASE InlineDone(c)
        BY <1>2, <1>3, <4>1 DEF InlineDone, Answer
      <4>2. CASE Enqueue(c)
        BY <1>2, <1>3, <4>2 DEF Enqueue, Answer
      <4>3. QED
        BY <2>6, <4>1, <4>2
    <3>2. QED
      BY <1>3, <3>1
  <2>7. CASE Return(c)
    <3>1. answer'[c] = [kind |-> "pending", of |-> c]
      BY <1>2, <2>7 DEF Return, Pending
    <3>2. \A d \in Streams \ {c} : answer'[d] = answer[d] /\ pc'[d] = pc[d]
      BY <1>2, <2>7 DEF Return
    <3>3. QED
      BY <1>3, <3>1, <3>2
  <2>8. QED
    BY <1>5, <2>1, <2>3, <2>4, <2>5, <2>6, <2>7 DEF StreamNext
<1>6. SchedulerStep \/ Deadline => UNCHANGED <<pc, answer>>
  BY DEF SchedulerStep, SchedulerCheck, ReadAdmitted, Decide, Handoff, Deadline, streamVars
<1>7. ASSUME NEW e \in Executors, ExecutorStep(e)
      PROVE  Own
  <2>1. CASE Resolve(e)
    <3>1. /\ work[e] \in Seq(Streams) /\ work[e] # <<>> /\ Len(results[e]) = Len(work[e])
          /\ results[e] \in Seq([kind : {"value", "error"}, of : Streams])
          /\ \A i \in DOMAIN work[e] : results[e][i].of = work[e][i]
      BY <1>1, <2>1, JobTypes DEF Resolve, WorkIsOfPhase, TypeOK
    <3>2. /\ 1 \in DOMAIN work[e] /\ Head(work[e]) = work[e][1] /\ Head(results[e]) = results[e][1]
      BY <3>1
    <3>3. IsBlocked(work[e][1]) /\ work[e][1] \in Streams
      BY <1>1, <3>1, <3>2 DEF JobsHeld, WorkersHoldBlocked
    <3>4. answer' = [answer EXCEPT ![work[e][1]] = results[e][1]] /\ UNCHANGED pc
      BY <2>1, <3>2 DEF Resolve
    <3>5. results[e][1].of = work[e][1]
      BY <3>1, <3>2
    <3>6. QED
      BY <1>2, <1>3, <3>3, <3>4, <3>5 DEF IsBlocked
  <2>2. QED
    BY <1>4, <1>7, <2>1 DEF ExecutorStep, ExecutorCheck, Run, FinishTask, AnnounceFinish, streamVars
<1>8. Shutdown \/ Terminated \/ UNCHANGED vars => UNCHANGED <<pc, answer>>
  BY DEF Shutdown, BeginShutdown, NotifyShutdown, JoinScheduler, JoinExecutors, Terminated, streamVars, vars
<1>9. Own
  BY <1>4, <1>5, <1>6, <1>7, <1>8 DEF Next
<1>10. \A c \in Streams : IsBlocked(c)' => Held(c)'
  BY StepHeld
<1>11. QED
  BY <1>9, <1>10 DEF AnswersAreOwn, IsBlocked
-----------------------------------------------------------------------------
(* The order of the jobs by age.                                           *)

\* Dispatched and refused jobs leave it.
LEMMA OrderShrinks ==
  ASSUME AgesAreOrder, NEW J, Made' = Made \ J, Forget(J)
  PROVE  AgesAreOrder'
<1>1. \A c, d \in Made' : <<c, d>> \in older' <=> <<c, d>> \in older
  BY DEF Forget
<1>2. older' \subseteq Made' \X Made'
  BY DEF Forget, AgesAreOrder
<1>3. Made' \subseteq Made
  OBVIOUS
<1>4. QED
  BY <1>1, <1>2, <1>3 DEF AgesAreOrder

\* A new job is the youngest.
LEMMA OrderGrows ==
  ASSUME AgesAreOrder, NEW c, c \notin Made, Made' = Made \cup {c}, older' = older \cup (Made \X {c})
  PROVE  AgesAreOrder'
<1>1. \A a, b \in Made' : <<a, b>> \in older' <=> (<<a, b>> \in older \/ (a \in Made /\ b = c))
  OBVIOUS
<1>2. \A a, b : <<a, b>> \in older => a \in Made /\ b \in Made
  BY DEF AgesAreOrder
<1>3. older' \subseteq Made' \X Made'
  BY DEF AgesAreOrder
<1>4. \A a, b \in Made' : a # b => <<a, b>> \in older' \/ <<b, a>> \in older'
  BY <1>1 DEF AgesAreOrder
<1>5. \A a, b \in Made' : <<a, b>> \in older' => <<b, a>> \notin older'
  BY <1>1, <1>2 DEF AgesAreOrder
<1>6. \A a, b, d \in Made' : <<a, b>> \in older' /\ <<b, d>> \in older' => <<a, d>> \in older'
  BY <1>1, <1>2 DEF AgesAreOrder
<1>7. QED
  BY <1>3, <1>4, <1>5, <1>6 DEF AgesAreOrder

LEMMA StepAgesAreOrder ==
  ASSUME IInv, [Next]_vars
  PROVE  AgesAreOrder'
<1> USE DEF queueVars, streamVars
<1>1. TypeOK /\ JobsHeld /\ AgesAreOrder /\ QueuesHoldBlocked
  BY DEF IInv, JobsHeld
<1>2. pc \in [Streams -> {"out", "wave", "timedout", "woken", "publish", "announce", "step",
                         "lone", "inline", "enqueue", "notify", "waiting", "failed", "farewell"}]
  BY <1>1 DEF TypeOK
<1>3. \A c \in Ready : pc[c] \in {"notify", "waiting"}
  <2>1. \A c \in Ready : IsBlocked(c)
    BY <1>1, ReadyJobs DEF QueuesHoldBlocked
  <2>2. QED
    BY <2>1 DEF IsBlocked
<1>4. ASSUME UNCHANGED <<queue, older>>,
             \A c \in Streams : pc'[c] = "enqueue" <=> pc[c] = "enqueue"
      PROVE  AgesAreOrder'
  <2>1. Made' = Made
    BY <1>4 DEF Made, Ready
  <2>2. QED
    BY <1>1, <1>4, <2>1 DEF AgesAreOrder
<1>5. ASSUME NEW c \in Streams, StreamNext(c)
      PROVE  AgesAreOrder'
  <2>1. CASE \/ BeginAlone(c) \/ WaveDeadline(c) \/ Announce(c) \/ ResumeWave(c) \/ EndStep(c)
            \/ Farewell(c) \/ EnterInline(c) \/ NotifyScheduler(c) \/ InlineDone(c) \/ Return(c)
    BY <1>2, <1>4, <2>1 DEF BeginAlone, WaveDeadline, Announce, ResumeWave, EndStep, Farewell,
                            EnterInline, NotifyScheduler, InlineDone, Return
  <2>2. ReleaseWave(c) /\ pc[c] \in {"out", "timedout"} =>
          \A d \in Streams : pc'[d] = "enqueue" <=> pc[d] = "enqueue"
    BY <1>2 DEF ReleaseWave, Waiting
  <2>3. CASE BeginInWave(c) \/ CloseWave(c)
    <3>1. \A d \in Streams : pc'[d] = "enqueue" <=> pc[d] = "enqueue"
      <4>1. CASE pc' = [pc EXCEPT ![c] = "wave"] /\ pc[c] = "out"
        BY <1>2, <4>1
      <4>2. QED
        BY <2>2, <2>3, <4>1 DEF BeginInWave, CloseWave
    <3>2. QED
      BY <1>4, <2>3, <3>1 DEF BeginInWave, CloseWave
  <2>4. CASE StartCall(c)
    <3>1. CASE admitted = 1
      BY <1>2, <1>4, <2>4, <3>1 DEF StartCall
    <3>2. CASE admitted # 1
      <4>1. pc[c] = "step" /\ pc' = [pc EXCEPT ![c] = "enqueue"] /\ older' = older \cup (Made \X {c}) /\ queue' = queue
        BY <2>4, <3>2 DEF StartCall
      <4>2. c \notin Made
        BY <1>3, <4>1 DEF Made
      <4>3. Ready' = Ready
        BY <4>1 DEF Ready
      <4>4. \A d \in Streams : pc'[d] = "enqueue" <=> (pc[d] = "enqueue" \/ d = c)
        BY <1>2, <4>1
      <4>5. Made' = Made \cup {c}
        BY <4>3, <4>4 DEF Made
      <4>6. QED
        BY <1>1, <4>1, <4>2, <4>5, OrderGrows
    <3>3. QED
      BY <3>1, <3>2
  <2>5. CASE Enqueue(c)
    <3>1. pc[c] = "enqueue" /\ \A d \in Streams : pc'[d] = "enqueue" <=> (pc[d] = "enqueue" /\ d # c)
      BY <1>2, <2>5 DEF Enqueue
    <3>2. CASE Cardinality(Ready) >= MaxDepth
      <4>1. Forget({c}) /\ queue' = queue
        BY <2>5, <3>2 DEF Enqueue
      <4>2. Ready' = Ready /\ c \notin Ready
        BY <1>3, <3>1, <4>1 DEF Ready
      <4>3. Made' = Made \ {c}
        BY <3>1, <4>2 DEF Made
      <4>4. QED
        BY <1>1, <4>1, <4>3, OrderShrinks
    <3>3. CASE ~(Cardinality(Ready) >= MaxDepth)
      <4>1. queue' = [queue EXCEPT ![op[c]] = Append(@, c)] /\ older' = older
        BY <2>5, <3>3 DEF Enqueue
      <4>2. PICK k \in Ops : queue' = [queue EXCEPT ![k] = Append(@, c)]
        <5>1. op[c] \in Ops
          BY <1>1 DEF TypeOK
        <5>2. QED
          BY <4>1, <5>1
      <4>3. Ready' = Ready \cup {c}
        BY <1>1, <4>2, ReadyAfterAppend
      <4>4. Made' = Made
        BY <3>1, <4>3 DEF Made
      <4>5. QED
        BY <1>1, <4>1, <4>4 DEF AgesAreOrder
    <3>4. QED
      BY <3>2, <3>3
  <2>6. QED
    BY <1>5, <2>1, <2>3, <2>4, <2>5 DEF StreamNext
<1>6. ASSUME NEW k \in Candidates, Dispatch(k), UNCHANGED pc
      PROVE  AgesAreOrder'
  <2>1. Ready' = Ready \ ToSet(Take(k)) /\ ToSet(Take(k)) \subseteq Ready
    BY <1>1, <1>6, ReadyAfterTake DEF Dispatch
  <2>2. Made' = Made \ ToSet(Take(k))
    BY <1>3, <1>6, <2>1 DEF Made
  <2>3. QED
    BY <1>1, <1>6, <2>2, OrderShrinks DEF Dispatch
<1>7. SchedulerStep \/ Deadline =>
        UNCHANGED pc /\ (UNCHANGED <<queue, older>> \/ \E k \in Candidates : Dispatch(k))
  BY DEF SchedulerStep, SchedulerCheck, ReadAdmitted, Decide, Handoff, Deadline
<1>8. \A e \in Executors : ExecutorStep(e) => UNCHANGED <<pc, queue, older>>
  BY DEF ExecutorStep, ExecutorCheck, Run, FinishTask, AnnounceFinish, Resolve
<1>9. Shutdown \/ Terminated \/ UNCHANGED vars => UNCHANGED <<pc, queue, older>>
  BY DEF Shutdown, BeginShutdown, NotifyShutdown, JoinScheduler, JoinExecutors, Terminated, vars
<1>10. QED
  BY <1>4, <1>5, <1>6, <1>7, <1>8, <1>9 DEF Next
-----------------------------------------------------------------------------
(* The counters.                                                           *)

\* admitted_decode_steps_ counts the streams between begin and end.
LEMMA StepAdmitted ==
  ASSUME IInv, [Next]_vars
  PROVE  admitted' = Cardinality(Active')
<1> USE DEF streamVars, admissionVars
<1>1. admitted = Cardinality(Active) /\ admitted \in Nat
  BY DEF IInv, Counters, TypeOK
<1>2. pc \in [Streams -> {"out", "wave", "timedout", "woken", "publish", "announce", "step",
                         "lone", "inline", "enqueue", "notify", "waiting", "failed", "farewell"}]
  BY DEF IInv, TypeOK
<1>3. ASSUME UNCHANGED admitted, \A c \in Streams : Admitted(c)' <=> Admitted(c)
      PROVE  admitted' = Cardinality(Active')
  <2>1. Active' = Active
    BY <1>3 DEF Active
  <2>2. QED
    BY <1>1, <1>3, <2>1
<1>4. ASSUME NEW c \in Streams, StreamNext(c)
      PROVE  admitted' = Cardinality(Active')
  <2>1. CASE \/ WaveDeadline(c) \/ Announce(c) \/ ResumeWave(c) \/ Farewell(c) \/ StartCall(c)
            \/ EnterInline(c) \/ InlineDone(c) \/ Enqueue(c) \/ NotifyScheduler(c) \/ Return(c)
    BY <1>2, <1>3, <2>1 DEF WaveDeadline, Announce, ResumeWave, Farewell, StartCall, EnterInline,
                            InlineDone, Enqueue, NotifyScheduler, Return, Admitted
  <2>2. CASE BeginAlone(c)
    <3>1. c \notin Active /\ admitted' = admitted + 1
      BY <2>2 DEF BeginAlone, Active, Admitted
    <3>2. Active' = Active \cup {c}
      BY <1>2, <2>2 DEF BeginAlone, Active, Admitted
    <3>3. Cardinality(Active \cup {c}) = Cardinality(Active) + 1
      BY <3>1, ActiveFinite, FS_AddElement
    <3>4. QED
      BY <1>1, <3>1, <3>2, <3>3
  <2>3. ASSUME ReleaseWave(c), pc[c] \in {"out", "timedout"}
        PROVE  admitted' = Cardinality(Active')
    <3> DEFINE W == Waiting \cup {c}
    <3>1. Active' = Active \cup W /\ Active \cap W = {}
      BY <1>2, <2>3 DEF ReleaseWave, Active, Admitted, Waiting
    <3>2. W \subseteq Streams /\ admitted' = admitted + Cardinality(W)
      BY <2>3 DEF ReleaseWave, Waiting
    <3> HIDE DEF W
    <3>3. IsFiniteSet(W)
      BY <3>2, ConfigAssumption, FS_Subset
    <3>4. Cardinality(W) \in Nat
      BY <3>3, FS_CardinalityType
    <3>5. Cardinality(Active \cup W) = Cardinality(Active) + Cardinality(W) - Cardinality(Active \cap W)
      BY <3>3, ActiveFinite, FS_Union
    <3>6. Cardinality(Active \cap W) = 0
      BY <3>1, FS_EmptySet
    <3>7. QED
      BY <1>1, <3>1, <3>2, <3>4, <3>5, <3>6
  <2>4. CASE BeginInWave(c)
    <3>1. CASE pc' = [pc EXCEPT ![c] = "wave"] /\ UNCHANGED admitted
      BY <1>2, <1>3, <2>4, <3>1 DEF BeginInWave, Admitted
    <3>2. QED
      BY <2>3, <2>4, <3>1 DEF BeginInWave
  <2>5. CASE CloseWave(c)
    BY <2>3, <2>5 DEF CloseWave
  <2>6. CASE EndStep(c)
    <3>1. c \in Active /\ admitted' = admitted - 1
      BY <2>6 DEF EndStep, Active, Admitted
    <3>2. Active' = Active \ {c}
      BY <1>2, <2>6 DEF EndStep, Active, Admitted
    <3>3. Cardinality(Active \ {c}) = Cardinality(Active) - 1
      BY <3>1, ActiveFinite, FS_RemoveElement
    <3>4. QED
      BY <1>1, <3>1, <3>2, <3>3
  <2>7. QED
    BY <1>4, <2>1, <2>2, <2>4, <2>5, <2>6 DEF StreamNext
<1>5. ASSUME UNCHANGED <<pc, admitted>> PROVE admitted' = Cardinality(Active')
  BY <1>3, <1>5 DEF Admitted
<1>6. SchedulerStep \/ Deadline => UNCHANGED <<pc, admitted>>
  BY DEF SchedulerStep, SchedulerCheck, ReadAdmitted, Decide, Handoff, Deadline
<1>7. \A e \in Executors : ExecutorStep(e) => UNCHANGED <<pc, admitted>>
  BY DEF ExecutorStep, ExecutorCheck, Run, FinishTask, AnnounceFinish, Resolve
<1>8. Shutdown \/ Terminated \/ UNCHANGED vars => UNCHANGED <<pc, admitted>>
  BY DEF Shutdown, BeginShutdown, NotifyShutdown, JoinScheduler, JoinExecutors, Terminated, vars
<1>9. QED
  BY <1>4, <1>5, <1>6, <1>7, <1>8 DEF Next

LEMMA InFlightNext ==
  \A c : c \in InFlight' <=>
              \/ \E e \in Flying' : \E i \in DOMAIN work'[e] : work'[e][i] = c
              \/ \E n \in DOMAIN tasks' : \E i \in DOMAIN tasks'[n] : tasks'[n][i] = c
<1> SUFFICES ASSUME NEW c
      PROVE c \in InFlight' <=>
              \/ \E e \in Flying' : \E i \in DOMAIN work'[e] : work'[e][i] = c
              \/ \E n \in DOMAIN tasks' : \E i \in DOMAIN tasks'[n] : tasks'[n][i] = c
  OBVIOUS
<1> DEFINE A == UNION {ToSet(work'[e]) : e \in Flying'}
           B == UNION {ToSet(t) : t \in ToSet(tasks')}
<1>1. InFlight' = A \cup B
  BY DEF InFlight
<1>2. c \in A <=> \E e \in Flying' : c \in ToSet(work'[e])
  OBVIOUS
<1>3. c \in B <=> \E t \in ToSet(tasks') : c \in ToSet(t)
  OBVIOUS
<1> HIDE DEF A, B
<1>4. \A t : t \in ToSet(tasks') <=> \E n \in DOMAIN tasks' : tasks'[n] = t
  BY DEF ToSet
<1>5. \A t : c \in ToSet(t) <=> \E i \in DOMAIN t : t[i] = c
  BY DEF ToSet
<1>6. c \in B <=> \E n \in DOMAIN tasks' : c \in ToSet(tasks'[n])
  BY <1>3, <1>4
<1>7. QED
  BY <1>1, <1>2, <1>5, <1>6

FlightCounted == items = Cardinality(InFlight) /\ flying = Len(tasks) + Cardinality(Flying)

\* Those in flight are not in a queue.
LEMMA InFlightNotReady ==
  ASSUME TypeOK, JobsHeld
  PROVE  InFlight \cap Ready = {}
<1>1. \A c \in InFlight : c \notin Ready
  BY InFlightJobs DEF JobsHeld, TasksHoldBlocked, WorkersHoldBlocked, Flying
<1>2. QED
  BY <1>1

LEMMA DispatchCounts ==
  ASSUME TypeOK, JobsHeld, FlightCounted, NEW k \in Candidates, Dispatch(k), UNCHANGED <<epc, work>>
  PROVE  FlightCounted'
<1> DEFINE J == ToSet(Take(k))
<1>1. /\ k \in Ops /\ Take(k) \in Seq(Streams) /\ Len(Take(k)) = BatchSize(k)
      /\ \A i \in DOMAIN Take(k) : i \in DOMAIN queue[k] /\ Take(k)[i] = queue[k][i]
  BY TakeShape
<1>2. Injective(Take(k))
  BY <1>1 DEF JobsHeld, QueuesHoldBlocked, Injective
<1>3. IsFiniteSet(J) /\ Cardinality(J) = BatchSize(k)
  BY <1>1, <1>2, CardOfInjective
<1>4. J \subseteq Ready
  BY ReadyAfterTake DEF Dispatch, JobsHeld
<1>5. Flying' = Flying
  BY DEF Flying
<1>6. tasks' = Append(tasks, Take(k)) /\ tasks \in Seq(Seq(Streams))
  BY DEF Dispatch, TypeOK
<1>7. /\ DOMAIN tasks' = DOMAIN tasks \cup {Len(tasks) + 1} /\ tasks'[Len(tasks) + 1] = Take(k)
      /\ \A n \in DOMAIN tasks : tasks'[n] = tasks[n]
      /\ Len(tasks') = Len(tasks) + 1 /\ Len(tasks) \in Nat
  BY <1>1, <1>6
<1>8. InFlight' = InFlight \cup J
  <2>1. \A c : c \in J <=> \E i \in DOMAIN Take(k) : Take(k)[i] = c
    BY DEF ToSet
  <2>2. \A c : (\E n \in DOMAIN tasks' : \E i \in DOMAIN tasks'[n] : tasks'[n][i] = c)
            <=> c \in J \/ \E n \in DOMAIN tasks : \E i \in DOMAIN tasks[n] : tasks[n][i] = c
    <3> HIDE DEF J
    <3>1. QED
      BY <1>7, <2>1
  <2> HIDE DEF J
  <2>3. \A c : c \in InFlight' <=> c \in InFlight \/ c \in J
    BY <1>5, <2>2, InFlightJobs, InFlightNext
  <2>4. QED
    BY <2>3
<1>9. InFlight \cap J = {}
  BY <1>4, InFlightNotReady
<1> HIDE DEF J
<1>10. Cardinality(InFlight \cup J) = Cardinality(InFlight) + Cardinality(J) - Cardinality(InFlight \cap J)
  BY <1>3, InFlightJobs, FS_Union
<1>11. Cardinality(InFlight \cap J) = 0
  BY <1>9, FS_EmptySet
<1>12. BatchSize(k) \in Nat
  BY <1>1
<1>13. items' = Cardinality(InFlight')
  <2>1. items = Cardinality(InFlight) /\ items \in Nat /\ items' = items + BatchSize(k)
    BY DEF FlightCounted, Dispatch, TypeOK
  <2>2. QED
    BY <2>1, <1>3, <1>8, <1>10, <1>11, <1>12
<1>14. flying' = Len(tasks') + Cardinality(Flying')
  <2>1. flying = Len(tasks) + Cardinality(Flying) /\ flying' = flying + 1
    BY DEF FlightCounted, Dispatch
  <2>2. QED
    BY <2>1, <1>5, <1>7, FlyingFinite
<1>15. QED
  BY <1>13, <1>14 DEF FlightCounted

LEMMA TakeTaskCounts ==
  ASSUME TypeOK, WorkIsOfPhase, FlightCounted, NEW e \in Executors, ExecutorCheck(e), tasks # <<>>
  PROVE  FlightCounted' /\ Flying' = Flying \cup {e} /\ Len(tasks') = Len(tasks) - 1
<1>1. /\ tasks \in Seq(Seq(Streams)) /\ tasks' = Tail(tasks) /\ UNCHANGED <<items, flying>>
      /\ epc[e] = "check" /\ work[e] = <<>>
  BY DEF TypeOK, ExecutorCheck, WorkIsOfPhase
<1>2. /\ \A n \in DOMAIN tasks \ {1} : n - 1 \in DOMAIN tasks' /\ tasks'[n - 1] = tasks[n]
      /\ \A n \in DOMAIN tasks' : n + 1 \in DOMAIN tasks /\ tasks'[n] = tasks[n + 1]
      /\ Head(tasks) = tasks[1] /\ 1 \in DOMAIN tasks
      /\ Len(tasks') = Len(tasks) - 1 /\ Len(tasks) \in Nat
  BY <1>1
<1>3. /\ work'[e] = tasks[1] /\ epc'[e] = "run"
      /\ \A f \in Executors \ {e} : work'[f] = work[f] /\ epc'[f] = epc[f]
  BY <1>2 DEF ExecutorCheck, TypeOK
<1>4. Flying' = Flying \cup {e} /\ e \notin Flying
  BY <1>1, <1>3 DEF Flying
<1>5. \A c : c \in InFlight' <=> c \in InFlight
  <2> SUFFICES ASSUME NEW c PROVE c \in InFlight' <=> c \in InFlight
    OBVIOUS
  <2>1. (\E f \in Flying' : \E i \in DOMAIN work'[f] : work'[f][i] = c)
          <=> \/ \E i \in DOMAIN tasks[1] : tasks[1][i] = c
              \/ \E f \in Flying : \E i \in DOMAIN work[f] : work[f][i] = c
    BY <1>3, <1>4 DEF Flying
  <2>2. (\E n \in DOMAIN tasks : \E i \in DOMAIN tasks[n] : tasks[n][i] = c)
          <=> \/ \E i \in DOMAIN tasks[1] : tasks[1][i] = c
              \/ \E n \in DOMAIN tasks' : \E i \in DOMAIN tasks'[n] : tasks'[n][i] = c
    BY <1>2
  <2>3. QED
    BY <2>1, <2>2, InFlightJobs, InFlightNext
<1>6. InFlight' = InFlight
  BY <1>5
<1>7. Cardinality(Flying \cup {e}) = Cardinality(Flying) + 1
  BY <1>4, FlyingFinite, FS_AddElement
<1>8. flying' = Len(tasks') + Cardinality(Flying')
  <2>1. flying = Len(tasks) + Cardinality(Flying)
    BY DEF FlightCounted
  <2>2. QED
    BY <2>1, <1>1, <1>2, <1>4, <1>7, FlyingFinite
<1>9. QED
  BY <1>1, <1>2, <1>4, <1>6, <1>8 DEF FlightCounted

LEMMA FinishCounts ==
  ASSUME TypeOK, JobsHeld, Counters, NEW e \in Executors, FinishTask(e)
  PROVE  FlightCounted'
<1>1. e \in Flying /\ work[e] \in Seq(Streams)
  BY DEF FinishTask, Flying, TypeOK
<1> DEFINE J == ToSet(work[e])
<1>2. J \subseteq InFlight /\ Cardinality(J) = Len(work[e]) /\ IsFiniteSet(J)
  BY <1>1, WorkCounted DEF JobsHeld
<1>3. Flying' = Flying \ {e}
  BY DEF FinishTask, Flying, TypeOK
<1>4. UNCHANGED <<work, tasks>> /\ items' = items - Len(work[e]) /\ flying' = flying - 1
  BY DEF FinishTask
<1>5. /\ \A f \in Executors \ {e} : \A i \in DOMAIN work[f] : work[f][i] \notin J
      /\ \A n \in DOMAIN tasks : \A i \in DOMAIN tasks[n] : tasks[n][i] \notin J
  <2>1. \A c : c \in J <=> \E i \in DOMAIN work[e] : work[e][i] = c
    BY DEF ToSet
  <2> HIDE DEF J
  <2>2. QED
    BY <2>1 DEF JobsHeld, WorkersHoldBlocked
<1>6. \A c : c \in InFlight' <=> c \in InFlight /\ c \notin J
  <2> SUFFICES ASSUME NEW c PROVE c \in InFlight' <=> c \in InFlight /\ c \notin J
    OBVIOUS
  <2>1. c \in J <=> \E i \in DOMAIN work[e] : work[e][i] = c
    BY DEF ToSet
  <2> HIDE DEF J
  <2>2. c \in InFlight' <=>
              \/ \E f \in Flying \ {e} : \E i \in DOMAIN work[f] : work[f][i] = c
              \/ \E n \in DOMAIN tasks : \E i \in DOMAIN tasks[n] : tasks[n][i] = c
    BY <1>3, <1>4, InFlightNext
  <2>3. c \in InFlight <=>
              \/ \E f \in Flying : \E i \in DOMAIN work[f] : work[f][i] = c
              \/ \E n \in DOMAIN tasks : \E i \in DOMAIN tasks[n] : tasks[n][i] = c
    BY InFlightJobs
  <2>4. \A f \in Flying : f \in Executors
    BY DEF Flying
  <2>5. QED
    BY <2>1, <2>2, <2>3, <2>4, <1>1, <1>5
<1>7. InFlight' = InFlight \ J /\ InFlight \cap J = J
  BY <1>2, <1>6
<1> HIDE DEF J
<1>8. Cardinality(InFlight \ J) = Cardinality(InFlight) - Cardinality(InFlight \cap J)
  BY InFlightJobs, FS_Difference
<1>9. Cardinality(Flying \ {e}) = Cardinality(Flying) - 1
  BY <1>1, FlyingFinite, FS_RemoveElement
<1>10. items' = Cardinality(InFlight')
  BY <1>2, <1>4, <1>7, <1>8 DEF Counters
<1>11. flying' = Len(tasks') + Cardinality(Flying')
  <2>1. flying = Len(tasks) + Cardinality(Flying) /\ Len(tasks) \in Nat
    BY DEF Counters, TypeOK
  <2>2. QED
    BY <2>1, <1>3, <1>4, <1>9, FlyingFinite
<1>12. QED
  BY <1>10, <1>11 DEF FlightCounted

LEMMA StepFlightCounted ==
  ASSUME IInv, [Next]_vars
  PROVE  FlightCounted'
<1> USE DEF taskVars, executorVars
<1>1. TypeOK /\ JobsHeld /\ WorkIsOfPhase /\ Counters /\ FlightCounted
  BY DEF IInv, JobsHeld, Counters, FlightCounted
<1>2. ASSUME UNCHANGED taskVars,
             \A e \in Executors : epc'[e] \in {"run", "finish"} <=> epc[e] \in {"run", "finish"},
             \A e \in Executors : epc[e] \in {"run", "finish"} => work'[e] = work[e]
      PROVE  FlightCounted'
  <2>1. Flying' = Flying /\ \A e \in Flying : work'[e] = work[e]
    BY <1>2 DEF Flying
  <2>2. \A c : c \in InFlight' <=> c \in InFlight
    BY <1>1, <1>2, <2>1, InFlightJobs, InFlightNext
  <2>3. InFlight' = InFlight
    BY <2>2
  <2>4. QED
    BY <1>1, <1>2, <2>1, <2>3 DEF FlightCounted
<1>3. ASSUME WokenOnly, UNCHANGED taskVars PROVE FlightCounted'
  BY <1>2, <1>3 DEF WokenOnly
<1>4. (\E c \in Streams : StreamNext(c)) => UNCHANGED taskVars
  BY DEF StreamNext, BeginAlone, BeginInWave, WaveDeadline, CloseWave, Announce, ResumeWave, EndStep,
         Farewell, StartCall, EnterInline, InlineDone, Enqueue, NotifyScheduler, Return
<1>5. SchedulerStep \/ Deadline =>
        UNCHANGED taskVars \/ (UNCHANGED <<epc, work>> /\ \E k \in Candidates : Dispatch(k))
  BY DEF SchedulerStep, SchedulerCheck, ReadAdmitted, Decide, Handoff, Deadline
<1>6. ASSUME NEW e \in Executors, ExecutorStep(e)
      PROVE  FlightCounted'
  <2>1. /\ epc \in [Executors -> {"check", "asleep", "run", "finish", "announce", "resolve", "exited"}]
        /\ work \in [Executors -> Seq(Streams)]
    BY <1>1 DEF TypeOK
  <2>2. CASE ExecutorCheck(e)
    <3>1. CASE tasks = <<>>
      BY <1>2, <2>1, <2>2, <3>1 DEF ExecutorCheck
    <3>2. QED
      BY <1>1, <2>2, <3>1, TakeTaskCounts
  <2>3. CASE Run(e)
    BY <1>2, <2>1, <2>3 DEF Run
  <2>4. CASE AnnounceFinish(e)
    BY <1>2, <2>1, <2>4 DEF AnnounceFinish
  <2>5. CASE Resolve(e)
    BY <1>2, <2>1, <2>5 DEF Resolve
  <2>6. QED
    BY <1>1, <1>6, <2>2, <2>3, <2>4, <2>5, FinishCounts DEF ExecutorStep
<1>7. Shutdown \/ Terminated \/ UNCHANGED vars => UNCHANGED taskVars
  BY DEF Shutdown, BeginShutdown, NotifyShutdown, JoinScheduler, JoinExecutors, Terminated, vars
<1>8. SchedulerStep \/ Deadline => FlightCounted'
  BY <1>1, <1>3, <1>5, WokenByOthers, DispatchCounts
<1>9. (\E c \in Streams : StreamNext(c)) => FlightCounted'
  BY <1>1, <1>3, <1>4, WokenByOthers
<1>10. Shutdown \/ Terminated \/ UNCHANGED vars => FlightCounted'
  BY <1>1, <1>3, <1>7, WokenByOthers
<1>11. QED
  BY <1>6, <1>8, <1>9, <1>10 DEF Next

LEMMA StepCounters ==
  ASSUME IInv, [Next]_vars
  PROVE  Counters'
BY StepAdmitted, StepFlightCounted DEF Counters, FlightCounted
-----------------------------------------------------------------------------
(* The scheduler between the others' steps.                                *)

SchedulerWoken == \/ spc' = spc
                  \/ spc = "asleep" /\ spc' = "check"
                  \/ spc = "dozing" /\ spc' = "pick"

\* A stream wakes the scheduler, leaves it alone or owes it a notification.
LEMMA StreamOthers ==
  ASSUME TypeOK, NEW c \in Streams, StreamNext(c)
  PROVE  /\ SchedulerWoken /\ Ready \subseteq Ready'
         /\ UNCHANGED <<taskVars, executorVars, shutdownVars>>
         /\ \/ spc' \notin {"asleep", "dozing"}
            \/ \E d \in Streams : pc'[d] = "notify"
            \/ UNCHANGED <<queue, spc>> /\ \A d \in Streams : pc[d] # "notify"
<1> USE DEF queueVars
<1>1. /\ pc \in [Streams -> {"out", "wave", "timedout", "woken", "publish", "announce", "step",
                         "lone", "inline", "enqueue", "notify", "waiting", "failed", "farewell"}]
      /\ spc \in {"check", "asleep", "pick", "decide", "dozing", "handoff", "exited"}
      /\ op[c] \in Ops
  BY DEF TypeOK
<1>2. SchedulerWoken /\ UNCHANGED <<taskVars, executorVars, shutdownVars>>
  BY DEF SchedulerWoken, Wake, StreamNext, BeginAlone, BeginInWave, WaveDeadline, CloseWave, Announce,
         ResumeWave, EndStep, Farewell, StartCall, EnterInline, InlineDone, Enqueue, NotifyScheduler, Return
<1>3. UNCHANGED queue => Ready \subseteq Ready'
  BY DEF Ready
<1>4. CASE Announce(c) \/ Farewell(c) \/ NotifyScheduler(c)
  <2>1. spc' \notin {"asleep", "dozing"} /\ UNCHANGED queue
    BY <1>1, <1>4 DEF Announce, Farewell, NotifyScheduler, Wake
  <2>2. QED
    BY <1>2, <1>3, <2>1
<1>5. CASE Enqueue(c)
  <2>1. CASE Cardinality(Ready) >= MaxDepth
    <3>1. UNCHANGED <<queue, spc>> /\ \A d \in Streams : pc[d] = "notify" => pc'[d] = "notify"
      BY <1>1, <1>5, <2>1 DEF Enqueue
    <3>2. QED
      BY <1>2, <1>3, <3>1
  <2>2. CASE ~(Cardinality(Ready) >= MaxDepth)
    <3>1. pc'[c] = "notify" /\ queue' = [queue EXCEPT ![op[c]] = Append(@, c)]
      BY <1>1, <1>5, <2>2 DEF Enqueue
    <3>2. PICK k \in Ops : k = op[c] /\ queue' = [queue EXCEPT ![k] = Append(@, c)]
      BY <1>1, <3>1
    <3>3. Ready' = Ready \cup {c}
      BY <3>2, ReadyAfterAppend
    <3>4. QED
      BY <1>2, <3>1, <3>3
  <2>3. QED
    BY <2>1, <2>2
<1>6. CASE \/ BeginAlone(c) \/ WaveDeadline(c) \/ ResumeWave(c) \/ EndStep(c) \/ StartCall(c)
          \/ EnterInline(c) \/ InlineDone(c) \/ Return(c)
  <2>1. UNCHANGED <<queue, spc>> /\ \A d \in Streams : pc[d] = "notify" => pc'[d] = "notify"
    BY <1>1, <1>6 DEF BeginAlone, WaveDeadline, ResumeWave, EndStep, StartCall, EnterInline, InlineDone, Return
  <2>2. QED
    BY <1>2, <1>3, <2>1
<1>7. CASE BeginInWave(c) \/ CloseWave(c)
  <2>1. ReleaseWave(c) /\ pc[c] \in {"out", "timedout"} =>
          \A d \in Streams : pc[d] = "notify" => pc'[d] = "notify"
    BY <1>1 DEF ReleaseWave, Waiting
  <2>2. pc' = [pc EXCEPT ![c] = "wave"] /\ pc[c] = "out" =>
          \A d \in Streams : pc[d] = "notify" => pc'[d] = "notify"
    BY <1>1
  <2>3. UNCHANGED <<queue, spc>> /\ \A d \in Streams : pc[d] = "notify" => pc'[d] = "notify"
    BY <1>7, <2>1, <2>2 DEF BeginInWave, CloseWave
  <2>4. QED
    BY <1>2, <1>3, <2>3
<1>8. QED
  BY <1>4, <1>5, <1>6, <1>7 DEF StreamNext

\* An executor that gives its place back owes the scheduler a notification.
LEMMA ExecutorOthers ==
  ASSUME TypeOK, JobsHeld, Counters, NEW e \in Executors, ExecutorStep(e)
  PROVE  /\ SchedulerWoken /\ flying' <= flying
         /\ UNCHANGED <<pc, queue, shutdownVars>>
         /\ \/ spc' \notin {"asleep", "dozing"}
            \/ epc'[e] = "announce" /\ UNCHANGED spc
            \/ /\ UNCHANGED <<flying, spc>>
               /\ \A f \in Executors : epc[f] = "announce" => epc'[f] = "announce"
<1> USE DEF queueVars, taskVars
<1>1. /\ epc \in [Executors -> {"check", "asleep", "run", "finish", "announce", "resolve", "exited"}]
      /\ spc \in {"check", "asleep", "pick", "decide", "dozing", "handoff", "exited"}
      /\ flying \in Nat
  <2>1. Cardinality(Executors) \in Nat
    BY ConfigAssumption, FS_CardinalityType
  <2>2. QED
    BY <2>1 DEF TypeOK
<1>2. CASE FinishTask(e)
  BY <1>1, <1>2 DEF FinishTask, SchedulerWoken
<1>3. CASE AnnounceFinish(e)
  BY <1>1, <1>3 DEF AnnounceFinish, Wake, SchedulerWoken
<1>4. CASE ExecutorCheck(e) \/ Run(e) \/ Resolve(e)
  BY <1>1, <1>4 DEF ExecutorCheck, Run, Resolve, SchedulerWoken
<1>5. QED
  BY <1>2, <1>3, <1>4 DEF ExecutorStep

LEMMA StepPhases ==
  ASSUME IInv, [Next]_vars
  PROVE  Phases'
<1> DEFINE E == Cardinality(Executors)
           Busy == {"pick", "decide", "dozing"}
<1> USE DEF queueVars, taskVars, shutdownVars, executorVars
<1>1. TypeOK /\ JobsHeld /\ Counters /\ Phases /\ WorkIsOfPhase
  BY DEF IInv, JobsHeld
<1>2. /\ epc \in [Executors -> {"check", "asleep", "run", "finish", "announce", "resolve", "exited"}]
      /\ spc \in {"check", "asleep", "pick", "decide", "dozing", "handoff", "exited"}
      /\ closer \in {"idle", "notify", "join", "joining", "returned"}
      /\ stopping \in BOOLEAN /\ scheduled \in BOOLEAN
  BY <1>1 DEF TypeOK
<1>3. E \in Nat /\ flying \in Nat
  <2>1. E \in Nat
    BY ConfigAssumption, FS_CardinalityType
  <2>2. QED
    BY <1>1, <2>1 DEF TypeOK
<1> HIDE DEF E
<1>4. /\ spc \in Busy => Ready # {} /\ flying < E
      /\ stopping <=> closer # "idle"
      /\ closer # "idle" => \A c \in Streams : pc[c] = "out"
      /\ scheduled <=> spc = "exited"
      /\ spc = "exited" => stopping
      /\ closer \in {"joining", "returned"} => spc = "exited"
      /\ \A e \in Executors : epc[e] = "exited" => scheduled
  BY <1>1 DEF Phases, E
<1> DEFINE PhasesNext ==
      /\ spc' \in Busy => Ready' # {} /\ flying' < E
      /\ stopping' <=> closer' # "idle"
      /\ closer' # "idle" => \A c \in Streams : pc'[c] = "out"
      /\ scheduled' <=> spc' = "exited"
      /\ spc' = "exited" => stopping'
      /\ closer' \in {"joining", "returned"} => spc' = "exited"
      /\ \A e \in Executors : epc'[e] = "exited" => scheduled'
<1>5. UNCHANGED vars => PhasesNext
  BY <1>4 DEF vars, Ready
<1>6. ASSUME NEW c \in Streams, StreamNext(c)
      PROVE  PhasesNext
  <2>1. /\ SchedulerWoken /\ Ready \subseteq Ready' /\ UNCHANGED <<taskVars, executorVars, shutdownVars>>
    BY <1>1, <1>6, StreamOthers
  <2>2. closer = "idle"
    <3>1. pc[c] # "out" \/ closer = "idle"
      BY <1>6 DEF StreamNext, BeginAlone, BeginInWave, WaveDeadline, CloseWave, Announce, ResumeWave,
         EndStep, Farewell, StartCall, EnterInline, InlineDone, Enqueue, NotifyScheduler, Return
    <3>2. QED
      BY <1>4, <3>1
  <2>3. QED
    BY <1>2, <1>3, <1>4, <2>1, <2>2 DEF SchedulerWoken
<1>7. ASSUME SchedulerStep \/ Deadline
      PROVE  PhasesNext
  <2>0. UNCHANGED queue => Ready' = Ready
    BY DEF Ready
  <2>1. CASE SchedulerCheck
    <3>1. CASE stopping /\ Ready = {}
      <4>1. WakeAll /\ spc' = "exited" /\ scheduled' = TRUE /\ UNCHANGED <<pc, queue, flying, stopping, closer>>
        BY <2>1, <3>1 DEF SchedulerCheck
      <4>2. QED
        BY <1>2, <1>3, <1>4, <3>1, <4>1, <2>0 DEF WakeAll
    <3>2. CASE ~(stopping /\ Ready = {})
      <4>1. /\ spc' = IF Ready # {} /\ flying < E THEN "pick" ELSE "asleep"
            /\ spc = "check" /\ UNCHANGED <<pc, queue, flying, stopping, closer, scheduled, epc>>
        BY <2>1, <3>2 DEF SchedulerCheck, E
      <4>2. QED
        BY <1>2, <1>3, <1>4, <4>1, <2>0
    <3>3. QED
      BY <3>1, <3>2
  <2>2. CASE ReadAdmitted \/ Deadline
    <3>1. spc \in Busy /\ spc' \in Busy /\ UNCHANGED <<pc, queue, flying, epc, stopping, closer, scheduled>>
      BY <2>2 DEF ReadAdmitted, Deadline
    <3>2. QED
      BY <1>2, <1>4, <3>1, <2>0
  <2>3. CASE Decide
    <3>1. CASE spc' = "dozing" /\ UNCHANGED <<queue, flying>>
      <4>1. spc = "decide" /\ UNCHANGED <<pc, epc, stopping, closer, scheduled>>
        BY <2>3 DEF Decide
      <4>2. QED
        BY <1>2, <1>4, <3>1, <4>1, <2>0
    <3>2. CASE spc' = "handoff"
      <4>1. spc = "decide" /\ UNCHANGED <<pc, epc, stopping, closer, scheduled>>
        BY <2>3 DEF Decide
      <4>2. QED
        BY <1>2, <1>4, <3>2, <4>1
    <3>3. QED
      BY <2>3, <3>1, <3>2 DEF Decide, Dispatch
  <2>4. CASE Handoff
    <3>1. /\ spc = "handoff" /\ spc' = "check" /\ WokenOnly
          /\ UNCHANGED <<pc, queue, flying, stopping, closer, scheduled>>
      BY <2>4, <1>1, WokenByOthers DEF Handoff, SchedulerStep
    <3>2. QED
      BY <1>2, <1>4, <3>1 DEF WokenOnly
  <2>5. QED
    BY <1>7, <2>1, <2>2, <2>3, <2>4 DEF SchedulerStep
<1>8. ASSUME NEW e \in Executors, ExecutorStep(e)
      PROVE  PhasesNext
  <2>1. /\ SchedulerWoken /\ flying' <= flying /\ UNCHANGED <<pc, queue, shutdownVars>>
    BY <1>1, <1>8, ExecutorOthers
  <2>2. Ready' = Ready
    BY <2>1 DEF Ready
  <2>3. flying' \in Int
    BY <1>3, <1>8 DEF ExecutorStep, ExecutorCheck, Run, FinishTask, AnnounceFinish, Resolve
  <2>4. \A f \in Executors : epc'[f] = "exited" => epc[f] = "exited" \/ scheduled
    BY <1>2, <1>8 DEF ExecutorStep, ExecutorCheck, Run, FinishTask, AnnounceFinish, Resolve
  <2>5. spc' \in Busy => spc \in Busy
    BY <2>1 DEF SchedulerWoken
  <2>6. spc' \in Busy => Ready' # {} /\ flying' < E
    BY <1>3, <1>4, <2>1, <2>2, <2>3, <2>5
  <2>7. QED
    BY <1>2, <1>4, <2>1, <2>4, <2>6 DEF SchedulerWoken
<1>9. ASSUME Shutdown
      PROVE  PhasesNext
  <2>1. WokenOnly
    BY <1>1, <1>9, WokenByOthers
  <2>2. SchedulerWoken /\ UNCHANGED <<pc, queue, flying, scheduled>> /\ Ready' = Ready
    BY <1>2, <1>9 DEF Shutdown, BeginShutdown, NotifyShutdown, JoinScheduler, JoinExecutors, Wake, SchedulerWoken, Ready
  <2>3. \A e \in Executors : epc'[e] = "exited" => epc[e] = "exited"
    BY <2>1 DEF WokenOnly
  <2>4. /\ closer' # "idle" /\ stopping'
        /\ \A c \in Streams : pc[c] = "out"
        /\ closer' \in {"joining", "returned"} => spc = "exited"
    BY <1>2, <1>4, <1>9 DEF Shutdown, BeginShutdown, NotifyShutdown, JoinScheduler, JoinExecutors
  <2>5. QED
    BY <1>2, <1>4, <2>2, <2>3, <2>4 DEF SchedulerWoken
<1>10. PhasesNext
  BY <1>5, <1>6, <1>7, <1>8, <1>9 DEF Next, Terminated
<1>11. QED
  BY <1>10 DEF Phases, E
-----------------------------------------------------------------------------
(* Wakeups.                                                                *)

(* Among queues that have jobs one holds the oldest, so that a scheduler   *)
(* with a full batch finds one to dispatch.                                *)
LEMMA OldestExists ==
  ASSUME TypeOK, QueuesHoldBlocked, AgesAreOrder, NEW K, K \subseteq Candidates, K # {}
  PROVE  \E k \in K : OldestOf(k, K)
<1> DEFINE h(k) == Head(queue[k])
           P(k) == {d \in Made : <<d, h(k)>> \in older}
           T    == {P(k) : k \in K}
           R    == StrictSubsetOrdering(Streams)
<1>1. \A k \in K : k \in Ops /\ 1 \in DOMAIN queue[k] /\ Head(queue[k]) = queue[k][1]
  BY DEF Candidates, Count, TypeOK
<1>2. \A k \in K : h(k) \in Made /\ op[h(k)] = k
  BY <1>1, ReadyJobs DEF Made, QueuesHoldBlocked
<1>3. Made \subseteq Streams
  BY ReadyJobs DEF Made
<1>4. T \subseteq SUBSET Streams /\ T # {}
  BY <1>3
<1>5. IsWellFoundedOn(R, SUBSET Streams)
  <2>1. FiniteSubsetsOf(Streams) = SUBSET Streams
    BY ConfigAssumption, FS_FiniteSubsetsOfFinite
  <2>2. QED
    BY <2>1, FS_StrictSubsetOrderingWellFounded
<1> HIDE DEF T, R
<1>6. PICK x \in T : \A y \in T : ~(<<y, x>> \in R)
  BY <1>4, <1>5, WFMin
<1>7. PICK k \in K : x = P(k)
  BY DEF T
<1>8. \A j \in K : ~(P(j) \subseteq P(k) /\ P(j) # P(k))
  <2>1. \A j \in K : P(j) \in T /\ P(j) \in SUBSET Streams
    BY <1>3 DEF T
  <2> HIDE DEF P
  <2>2. QED
    BY <1>6, <1>7, <2>1 DEF R, StrictSubsetOrdering
<1>9. ASSUME NEW j \in K \ {k} PROVE Before(k, j)
  <2>1. h(j) # h(k)
    BY <1>2
  <2>2. CASE <<h(j), h(k)>> \in older
    <3>1. P(j) \subseteq P(k)
      BY <1>2, <2>2 DEF AgesAreOrder
    <3>2. h(j) \in P(k) /\ h(j) \notin P(j)
      BY <1>2, <2>2 DEF AgesAreOrder
    <3>3. QED
      BY <1>8, <3>1, <3>2
  <2>3. QED
    BY <1>2, <2>1, <2>2 DEF AgesAreOrder, Before
<1>10. QED
  BY <1>9 DEF OldestOf

\* A scheduler that dozes over a full batch is owed a notification.
DozesOwed == spc = "dozing" /\ Full # {} => \E c \in Streams : pc[c] = "notify"

\* So is one that sleeps over a job that an executor is free for.
SleepsOwed ==
  spc = "asleep" /\ Ready # {} /\ flying < Cardinality(Executors)
    => \/ \E c \in Streams : pc[c] = "notify"
       \/ \E e \in Executors : epc[e] = "announce"

Awake     == {e \in Executors : epc[e] \in {"check", "announce", "resolve"}}
TasksOwed == Len(tasks) <= Cardinality(Awake) + (IF spc = "handoff" THEN 1 ELSE 0)

LEMMA StepDozesOwed ==
  ASSUME IInv, [Next]_vars
  PROVE  DozesOwed'
<1> USE DEF queueVars
<1>1. TypeOK /\ JobsHeld /\ Counters /\ QueuesHoldBlocked /\ AgesAreOrder
  BY DEF IInv, JobsHeld
<1>2. DozesOwed
  BY DEF IInv, NobodySleepsOnWork, DozesOwed
<1>3. UNCHANGED queue => Full' = Full
  BY DEF Full, Candidates, Count
<1>4. UNCHANGED <<pc, queue, spc>> => DozesOwed'
  BY <1>2, <1>3 DEF DozesOwed
<1>5. ASSUME NEW c \in Streams, StreamNext(c) PROVE DozesOwed'
  BY <1>1, <1>2, <1>3, <1>5, StreamOthers DEF DozesOwed
<1>6. ASSUME NEW e \in Executors, ExecutorStep(e) PROVE DozesOwed'
  <2>1. SchedulerWoken /\ UNCHANGED <<pc, queue>>
    BY <1>1, <1>6, ExecutorOthers
  <2>2. spc' = "dozing" => spc = "dozing"
    BY <2>1 DEF SchedulerWoken
  <2>3. QED
    BY <1>2, <1>3, <2>1, <2>2 DEF DozesOwed
<1>7. CASE SchedulerStep \/ Deadline
  <2>1. CASE Decide
    <3>1. Full # {} => \E k \in Candidates : Choose(k)
      <4>1. Full \subseteq Candidates
        BY DEF Full
      <4>2. Full # {} => \E k \in Full : OldestOf(k, Full)
        BY <1>1, <4>1, OldestExists
      <4>3. QED
        BY <4>1, <4>2 DEF Choose
    <3>2. spc' = "dozing" => UNCHANGED queue /\ ~\E k \in Candidates : Choose(k)
      BY <2>1 DEF Decide, Dispatch
    <3>3. QED
      BY <1>3, <3>1, <3>2 DEF DozesOwed
  <2>2. CASE SchedulerCheck \/ ReadAdmitted \/ Handoff \/ Deadline
    <3>1. spc' # "dozing"
      BY <2>2 DEF SchedulerCheck, ReadAdmitted, Handoff, Deadline
    <3>2. QED
      BY <3>1 DEF DozesOwed
  <2>3. QED
    BY <1>7, <2>1, <2>2 DEF SchedulerStep
<1>8. CASE Shutdown
  <2>1. UNCHANGED <<pc, queue>> /\ (spc' = "dozing" => spc = "dozing")
    BY <1>8 DEF Shutdown, BeginShutdown, NotifyShutdown, JoinScheduler, JoinExecutors, Wake
  <2>2. QED
    BY <1>2, <1>3, <2>1 DEF DozesOwed
<1>9. QED
  BY <1>4, <1>5, <1>6, <1>7, <1>8 DEF Next, Terminated, vars

LEMMA StepSleepsOwed ==
  ASSUME IInv, [Next]_vars
  PROVE  SleepsOwed'
<1> DEFINE E == Cardinality(Executors)
<1> USE DEF queueVars, taskVars, executorVars
<1>1. TypeOK /\ JobsHeld /\ Counters /\ WorkIsOfPhase
  BY DEF IInv, JobsHeld
<1>2. SleepsOwed
  BY DEF IInv, NobodySleepsOnWork, SleepsOwed
<1> HIDE DEF E
<1>a. SleepsOwed' <=> (spc' = "asleep" /\ Ready' # {} /\ flying' < E
                      => \/ \E c \in Streams : pc'[c] = "notify"
                         \/ \E e \in Executors : epc'[e] = "announce")
  BY DEF SleepsOwed, E
<1>b. spc = "asleep" /\ Ready # {} /\ flying < E
        => \/ \E c \in Streams : pc[c] = "notify"
           \/ \E e \in Executors : epc[e] = "announce"
  BY <1>2 DEF SleepsOwed, E
<1>3. UNCHANGED queue => Ready' = Ready
  BY DEF Ready
<1>4. UNCHANGED <<pc, queue, spc, flying, epc>> => SleepsOwed'
  BY <1>a, <1>b, <1>3
<1>5. ASSUME NEW c \in Streams, StreamNext(c) PROVE SleepsOwed'
  <2>1. UNCHANGED <<flying, epc>>
    BY <1>1, <1>5, StreamOthers
  <2>2. \/ spc' \notin {"asleep", "dozing"}
        \/ \E d \in Streams : pc'[d] = "notify"
        \/ UNCHANGED <<queue, spc>> /\ \A d \in Streams : pc[d] # "notify"
    BY <1>1, <1>5, StreamOthers
  <2>3. QED
    BY <1>a, <1>b, <1>3, <2>1, <2>2
<1>6. ASSUME NEW e \in Executors, ExecutorStep(e) PROVE SleepsOwed'
  <2>1. UNCHANGED <<pc, queue>>
    BY <1>1, <1>6, ExecutorOthers
  <2>2. \/ spc' \notin {"asleep", "dozing"}
        \/ epc'[e] = "announce" /\ UNCHANGED spc
        \/ /\ UNCHANGED <<flying, spc>>
           /\ \A f \in Executors : epc[f] = "announce" => epc'[f] = "announce"
    BY <1>1, <1>6, ExecutorOthers
  <2>3. QED
    BY <1>a, <1>b, <1>3, <2>1, <2>2
<1>7. CASE SchedulerStep \/ Deadline
  <2>1. CASE SchedulerCheck
    <3>1. spc' = "asleep" => UNCHANGED <<queue, flying>> /\ ~(Ready # {} /\ flying < E)
      BY <2>1 DEF SchedulerCheck, E
    <3>2. QED
      BY <1>a, <1>3, <3>1
  <2>2. CASE ReadAdmitted \/ Decide \/ Handoff \/ Deadline
    <3>1. spc' # "asleep"
      BY <2>2 DEF ReadAdmitted, Decide, Dispatch, Handoff, Deadline
    <3>2. QED
      BY <1>a, <3>1
  <2>3. QED
    BY <1>7, <2>1, <2>2 DEF SchedulerStep
<1>8. CASE Shutdown
  <2>1. WokenOnly
    BY <1>1, <1>8, WokenByOthers
  <2>2. \A e \in Executors : epc[e] = "announce" => epc'[e] = "announce"
    BY <2>1 DEF WokenOnly
  <2>3. UNCHANGED <<pc, queue, flying>> /\ (spc' = "asleep" => spc = "asleep")
    BY <1>8 DEF Shutdown, BeginShutdown, NotifyShutdown, JoinScheduler, JoinExecutors, Wake
  <2>4. QED
    BY <1>a, <1>b, <1>3, <2>2, <2>3
<1>9. QED
  BY <1>4, <1>5, <1>6, <1>7, <1>8 DEF Next, Terminated, vars

LEMMA AwakeFinite == IsFiniteSet(Awake) /\ Cardinality(Awake) \in Nat
BY ConfigAssumption, FS_Subset, FS_CardinalityType DEF Awake

\* Executors that are woken, or done with a task, are only more.
LEMMA AwakeGrows ==
  ASSUME \A e \in Executors : epc[e] \in {"check", "announce", "resolve"}
                               => epc'[e] \in {"check", "announce", "resolve"}
  PROVE  Cardinality(Awake) <= Cardinality(Awake') /\ Cardinality(Awake') \in Nat
<1>1. Awake \subseteq Awake' /\ Awake' \subseteq Executors
  BY DEF Awake
<1>2. IsFiniteSet(Awake')
  BY <1>1, ConfigAssumption, FS_Subset
<1>3. QED
  BY <1>1, <1>2, FS_Subset, FS_CardinalityType

(* When no executor sleeps, those that are not awake run the other tasks   *)
(* of the executors' many.                                                 *)
LEMMA NoneAsleep ==
  ASSUME TypeOK, Counters, \A e \in Executors : epc[e] \notin {"asleep", "exited"}
  PROVE  Len(tasks) <= Cardinality(Awake)
<1>1. Executors = Awake \cup Flying /\ Awake \cap Flying = {}
  BY DEF TypeOK, Awake, Flying
<1>2. Cardinality(Awake \cup Flying) = Cardinality(Awake) + Cardinality(Flying) - Cardinality(Awake \cap Flying)
  BY AwakeFinite, FlyingFinite, FS_Union
<1>3. Cardinality(Awake \cap Flying) = 0
  BY <1>1, FS_EmptySet
<1>4. Cardinality(Executors) = Cardinality(Awake) + Cardinality(Flying)
  BY <1>1, <1>2, <1>3, AwakeFinite, FlyingFinite
<1>5. flying \in Nat /\ flying <= Cardinality(Executors) /\ Len(tasks) \in Nat
  <2>1. Cardinality(Executors) \in Nat
    BY ConfigAssumption, FS_CardinalityType
  <2>2. QED
    BY <2>1 DEF TypeOK
<1>6. QED
  BY <1>4, <1>5, AwakeFinite, FlyingFinite DEF Counters

LEMMA StepTasksOwed ==
  ASSUME IInv, [Next]_vars
  PROVE  TasksOwed'
<1> DEFINE extra == IF spc = "handoff" THEN 1 ELSE 0
           more  == IF spc' = "handoff" THEN 1 ELSE 0
<1> USE DEF taskVars, executorVars
<1>1. TypeOK /\ JobsHeld /\ Counters /\ WorkIsOfPhase /\ Phases
  BY DEF IInv, JobsHeld
<1>2. Len(tasks) <= Cardinality(Awake) + extra /\ extra \in Nat /\ Len(tasks) \in Nat
  BY <1>1 DEF IInv, NobodySleepsOnWork, Awake, TypeOK
<1>3. TasksOwed' <=> Len(tasks') <= Cardinality(Awake') + more
  BY DEF TasksOwed
<1>4. /\ epc \in [Executors -> {"check", "asleep", "run", "finish", "announce", "resolve", "exited"}]
      /\ spc \in {"check", "asleep", "pick", "decide", "dozing", "handoff", "exited"}
  BY <1>1 DEF TypeOK
<1>5. ASSUME UNCHANGED tasks, spc' = "handoff" <=> spc = "handoff",
             \A e \in Executors : epc[e] \in {"check", "announce", "resolve"}
                                  => epc'[e] \in {"check", "announce", "resolve"}
      PROVE  TasksOwed'
  <2>1. Cardinality(Awake) <= Cardinality(Awake') /\ Cardinality(Awake') \in Nat
    BY <1>5, AwakeGrows
  <2>2. QED
    BY <1>2, <1>3, <1>5, <2>1, AwakeFinite
<1>6. ASSUME UNCHANGED tasks, WokenOnly, SchedulerWoken PROVE TasksOwed'
  BY <1>5, <1>6 DEF WokenOnly, SchedulerWoken
<1>7. ASSUME NEW c \in Streams, StreamNext(c) PROVE TasksOwed'
  <2>1. WokenOnly
    BY <1>1, <1>7, WokenByOthers
  <2>2. SchedulerWoken /\ UNCHANGED tasks
    BY <1>1, <1>7, StreamOthers
  <2>3. QED
    BY <1>6, <2>1, <2>2
<1>8. ASSUME NEW e \in Executors, ExecutorStep(e) PROVE TasksOwed'
  <2>1. CASE ExecutorCheck(e) /\ tasks # <<>>
    <3>1. Len(tasks') = Len(tasks) - 1 /\ spc' = spc
      BY <1>1, <2>1, TakeTaskCounts DEF ExecutorCheck, IInv, FlightCounted, Counters
    <3>2. Awake' = Awake \ {e} /\ e \in Awake
      BY <1>4, <2>1 DEF ExecutorCheck, Awake
    <3>3. Cardinality(Awake \ {e}) = Cardinality(Awake) - 1
      BY <3>2, AwakeFinite, FS_RemoveElement
    <3>4. QED
      BY <1>2, <1>3, <3>1, <3>2, <3>3, AwakeFinite
  <2>2. CASE ExecutorCheck(e) /\ tasks = <<>>
    <3>1. Len(tasks') = 0
      BY <2>2 DEF ExecutorCheck
    <3>2. Awake' \subseteq Executors
      BY DEF Awake
    <3>3. IsFiniteSet(Awake')
      BY <3>2, ConfigAssumption, FS_Subset
    <3>4. Cardinality(Awake') \in Nat
      BY <3>3, FS_CardinalityType
    <3>5. QED
      BY <1>3, <3>1, <3>4
  <2>3. CASE Run(e) \/ FinishTask(e) \/ AnnounceFinish(e) \/ Resolve(e)
    <3>1. UNCHANGED tasks
      BY <2>3 DEF Run, FinishTask, AnnounceFinish, Resolve
    <3>2. spc' = "handoff" <=> spc = "handoff"
      BY <2>3 DEF Run, FinishTask, AnnounceFinish, Resolve, Wake
    <3>3. \A f \in Executors : epc[f] \in {"check", "announce", "resolve"}
                               => epc'[f] \in {"check", "announce", "resolve"}
      BY <1>4, <2>3 DEF Run, FinishTask, AnnounceFinish, Resolve
    <3>4. QED
      BY <1>5, <3>1, <3>2, <3>3
  <2>4. QED
    BY <1>8, <2>1, <2>2, <2>3 DEF ExecutorStep
<1>9. CASE SchedulerStep \/ Deadline
  <2>1. WokenOnly
    BY <1>1, <1>9, WokenByOthers
  <2>2. CASE SchedulerCheck \/ ReadAdmitted \/ Deadline
    <3>1. UNCHANGED tasks /\ (spc' = "handoff" <=> spc = "handoff")
      BY <2>2 DEF SchedulerCheck, ReadAdmitted, Deadline
    <3>2. QED
      BY <1>5, <2>1, <3>1 DEF WokenOnly
  <2>3. CASE Decide
    <3>1. CASE UNCHANGED tasks /\ spc' = "dozing"
      BY <1>5, <2>1, <2>3, <3>1 DEF Decide, WokenOnly
    <3>2. CASE \E k \in Candidates : Dispatch(k)
      <4>1. PICK k \in Candidates : Dispatch(k)
        BY <3>2
      <4>2. Take(k) \in Seq(Streams)
        BY <1>1, TakeShape
      <4>3. tasks' = Append(tasks, Take(k)) /\ spc' = "handoff" /\ spc = "decide" /\ UNCHANGED epc
        BY <2>3, <4>1 DEF Decide, Dispatch
      <4>4. Len(tasks') = Len(tasks) + 1
        <5>1. tasks \in Seq(Seq(Streams))
          BY <1>1 DEF TypeOK
        <5>2. QED
          BY <4>2, <4>3, <5>1
      <4>5. Awake' = Awake
        BY <4>3 DEF Awake
      <4>6. QED
        BY <1>2, <1>3, <4>3, <4>4, <4>5, AwakeFinite
    <3>3. QED
      BY <2>3, <3>1, <3>2 DEF Decide
  <2>4. CASE Handoff
    <3>1. spc = "handoff" /\ spc' = "check" /\ WakeOne /\ UNCHANGED tasks
      BY <2>4 DEF Handoff
    <3>2. \A e \in Executors : epc[e] # "exited"
      BY <1>1, <3>1 DEF Phases
    <3>3. CASE \E e \in Executors : epc[e] = "asleep"
      <4>1. PICK e \in Executors : epc[e] = "asleep" /\ epc' = [epc EXCEPT ![e] = "check"]
        BY <3>1, <3>3 DEF WakeOne
      <4>2. Awake' = Awake \cup {e} /\ e \notin Awake
        BY <1>4, <4>1 DEF Awake
      <4>3. Cardinality(Awake \cup {e}) = Cardinality(Awake) + 1
        BY <4>2, AwakeFinite, FS_AddElement
      <4>4. QED
        BY <1>2, <1>3, <3>1, <4>2, <4>3, AwakeFinite
    <3>4. CASE ~\E e \in Executors : epc[e] = "asleep"
      <4>1. UNCHANGED epc
        BY <3>1, <3>4 DEF WakeOne
      <4>2. Awake' = Awake
        BY <4>1 DEF Awake
      <4>3. Len(tasks) <= Cardinality(Awake)
        BY <1>1, <3>2, <3>4, NoneAsleep
      <4>4. QED
        BY <1>2, <1>3, <3>1, <4>2, <4>3, AwakeFinite
    <3>5. QED
      BY <3>3, <3>4
  <2>5. QED
    BY <1>9, <2>2, <2>3, <2>4 DEF SchedulerStep
<1>10. CASE Shutdown \/ Terminated \/ UNCHANGED vars
  <2>1. WokenOnly
    BY <1>1, <1>10, WokenByOthers
  <2>2. UNCHANGED tasks /\ (spc' = "handoff" <=> spc = "handoff")
    BY <1>10 DEF Shutdown, BeginShutdown, NotifyShutdown, JoinScheduler, JoinExecutors, Wake, Terminated, vars
  <2>3. QED
    BY <1>5, <2>1, <2>2 DEF WokenOnly
<1>11. QED
  BY <1>7, <1>8, <1>9, <1>10 DEF Next

LEMMA StepNobodySleepsOnWork ==
  ASSUME IInv, [Next]_vars
  PROVE  NobodySleepsOnWork'
BY StepDozesOwed, StepSleepsOwed, StepTasksOwed
   DEF NobodySleepsOnWork, DozesOwed, SleepsOwed, TasksOwed, Awake
-----------------------------------------------------------------------------
(* Theorems.                                                               *)

LEMMA InitIInv == Init => IInv
<1> SUFFICES ASSUME Init PROVE IInv
  OBVIOUS
<1>1. TypeOK
  BY InitTypeOK
<1>2. Ready = {}
  BY DEF Init, Ready, ToSet
<1>3. Made = {}
  BY <1>2 DEF Init, Made
<1>4. QueuesHoldBlocked /\ TasksHoldBlocked
  BY DEF Init, QueuesHoldBlocked, TasksHoldBlocked, Injective
<1>5. WorkersHoldBlocked
  BY DEF Init, WorkersHoldBlocked
<1>6. WorkIsOfPhase
  BY DEF Init, WorkIsOfPhase
<1>7. AnswersAreOwn
  BY DEF Init, AnswersAreOwn, IsBlocked, Pending
<1>8. AgesAreOrder
  BY <1>3 DEF Init, AgesAreOrder
<1>9. Counters
  <2>1. Active = {} /\ Flying = {} /\ tasks = <<>>
    BY DEF Init, Active, Admitted, Flying
  <2>2. \A c : c \notin InFlight
    BY <1>1, <2>1, InFlightJobs
  <2>3. InFlight = {}
    BY <2>2
  <2>4. QED
    BY <2>1, <2>3, FS_EmptySet DEF Init, Counters
<1>10. Phases
  BY DEF Init, Phases
<1>11. NobodySleepsOnWork
  <2>1. Len(tasks) = 0 /\ spc = "check"
    BY DEF Init
  <2>2. QED
    BY <2>1, AwakeFinite DEF NobodySleepsOnWork, Awake
<1>12. QED
  BY <1>1, <1>4, <1>5, <1>6, <1>7, <1>8, <1>9, <1>10, <1>11 DEF IInv

LEMMA StepIInv == IInv /\ [Next]_vars => IInv'
<1> SUFFICES ASSUME IInv, [Next]_vars PROVE IInv'
  OBVIOUS
<1>1. TypeOK'
  BY StepTypeOK
<1>2. QueuesHoldBlocked' /\ TasksHoldBlocked' /\ WorkersHoldBlocked'
  BY StepJobsHeld DEF JobsHeld
<1>3. WorkIsOfPhase' /\ AnswersAreOwn' /\ AgesAreOrder'
  BY StepWorkIsOfPhase, StepAnswersAreOwn, StepAgesAreOrder
<1>4. Counters' /\ Phases' /\ NobodySleepsOnWork'
  BY StepCounters, StepPhases, StepNobodySleepsOnWork
<1>5. QED
  BY <1>1, <1>2, <1>3, <1>4 DEF IInv

(* The inductive invariant: who holds each job, in which order, and what   *)
(* the counters and the places of the threads say of one another.          *)
THEOREM Invariance == Spec => []IInv
<1>1. Init => IInv
  BY InitIInv
<1>2. IInv /\ [Next]_vars => IInv'
  BY StepIInv
<1>3. QED
  BY <1>1, <1>2, PTL DEF Spec

LEMMA IInvJobsAccounted == IInv => JobsAccounted
<1> SUFFICES ASSUME IInv PROVE JobsAccounted
  OBVIOUS
<1>1. admitted = Cardinality({c \in Streams : Admitted(c)})
  BY DEF IInv, Counters, Active
<1>2. items = Cardinality(InFlight) /\ flying = Len(tasks) + Cardinality(Flying)
  BY DEF IInv, Counters
<1>3. \A c \in Streams : IsBlocked(c) => Held(c)
  BY DEF IInv, AnswersAreOwn
<1>4. ASSUME NEW t \in ToSet(tasks) \cup {work[e] : e \in Flying}
      PROVE  Len(t) \in 1 .. MaxBatch /\ \A i, j \in DOMAIN t : op[t[i]] = op[t[j]]
  <2>1. IsBatch(t)
    <3>1. CASE t \in ToSet(tasks)
      BY <3>1 DEF ToSet, IInv, TasksHoldBlocked
    <3>2. CASE t \in {work[e] : e \in Flying}
      BY <3>2 DEF Flying, IInv, WorkIsOfPhase
    <3>3. QED
      BY <3>1, <3>2
  <2>2. QED
    BY <2>1 DEF IsBatch
<1>5. QED
  BY <1>1, <1>2, <1>3, <1>4 DEF JobsAccounted

(* Every variable keeps its type: the queues together never exceed         *)
(* max_queue_depth_ and no more tasks are under way than executors, though *)
(* the scheduler tests capacity long before it dispatches.                 *)
THEOREM TypeCorrect == Spec => []TypeOK
<1>1. IInv => TypeOK
  BY DEF IInv
<1>2. QED
  BY <1>1, Invariance, PTL

(* The counters that the ready-set rule of scheduler_loop() compares are   *)
(* exact in every state, although admitted_decode_steps_ is changed        *)
(* outside mu_ and whole waves at a time; a blocked stream's job is in a   *)
(* queue, in a task or with an executor; a task is one batch of one queue. *)
THEOREM JobsAreAccounted == Spec => []JobsAccounted
BY IInvJobsAccounted, Invariance, PTL

(* No wakeup is lost: notify_one() and notify_all() outside the lock reach *)
(* every thread that sleeps while there is work for it.                    *)
THEOREM NoLostWakeup == Spec => []NobodySleepsOnWork
<1>1. IInv => NobodySleepsOnWork
  BY DEF IInv
<1>2. QED
  BY <1>1, Invariance, PTL
-----------------------------------------------------------------------------
(* The scheduler implements BatchService.                                  *)

\* The answer as the service sees it, and the call number, of which there is one.
served == [c \in Streams |-> [kind |-> answer[c].kind, req |-> <<answer[c].of, 0>>]]
number == [c \in Streams |-> 0]

LEMMA ServedAnswer ==
  ASSUME TypeOK, NEW c \in Streams, NEW kind, answer' = [answer EXCEPT ![c] = [kind |-> kind, of |-> c]]
  PROVE  served' = [served EXCEPT ![c] = [kind |-> kind, req |-> <<c, number[c]>>]]
BY DEF TypeOK, served, number

LEMMA StatusMoves ==
  ASSUME NEW c \in Streams, \A d \in Streams \ {c} : status'[d] = status[d]
  PROVE  status' = [status EXCEPT ![c] = status'[c]]
BY DEF status

\* The service's view of a stream depends on where it is and on its answer.
LEMMA StatusIs ==
  \A c \in Streams :
    /\ pc[c] \in {"inline", "notify", "waiting"} =>
         status[c] = IF answer[c].kind = "pending" THEN "accepted" ELSE "answered"
    /\ pc[c] \in {"lone", "enqueue"} => status[c] = "offered"
    /\ pc[c] \notin {"inline", "notify", "waiting", "lone", "enqueue"} => status[c] = "idle"
BY DEF status

LEMMA StatusIsNext ==
  \A c \in Streams :
    /\ pc'[c] \in {"inline", "notify", "waiting"} =>
         status'[c] = IF answer'[c].kind = "pending" THEN "accepted" ELSE "answered"
    /\ pc'[c] \in {"lone", "enqueue"} => status'[c] = "offered"
    /\ pc'[c] \notin {"inline", "notify", "waiting", "lone", "enqueue"} => status'[c] = "idle"
    /\ pc'[c] = pc[c] /\ answer'[c].kind = answer[c].kind => status'[c] = status[c]
BY DEF status

LEMMA InitImplements == Init => Service!Init
<1> SUFFICES ASSUME Init PROVE Service!Init
  OBVIOUS
<1>1. status = [c \in Streams |-> "idle"]
  BY DEF Init, status
<1>2. served = [c \in Streams |-> [kind |-> "pending", req |-> <<c, 0>>]]
  BY DEF Init, Pending, served
<1>3. closer # "returned"
  BY DEF Init
<1>4. QED
  BY <1>1, <1>2, <1>3 DEF Service!Init, served

LEMMA StepImplements ==
  ASSUME IInv, IInv', [Next]_vars
  PROVE  [Service!Next]_(Service!vars)
<1> DEFINE closed == closer = "returned"
<1>t. TypeOK
  BY DEF IInv
<1>v. Service!vars = <<status, number, served, closed>> /\ Service!vars' = <<status', number, served', closed'>>
  BY DEF Service!vars, served, number
<1>p. pc \in [Streams -> {"out", "wave", "timedout", "woken", "publish", "announce", "step",
                         "lone", "inline", "enqueue", "notify", "waiting", "failed", "farewell"}]
  BY <1>t DEF TypeOK
<1>o. \A c \in Streams : answer[c].of = c
  BY DEF IInv, AnswersAreOwn
<1>n. \A c \in Streams : pc[c] \notin {"notify", "waiting"} => answer[c].kind = "pending"
  BY DEF IInv, AnswersAreOwn
<1>c. \A c \in Streams : pc[c] # "out" => closer = "idle"
  BY DEF IInv, Phases
<1>s. status = [c \in Streams |-> status[c]] /\ status' = [c \in Streams |-> status'[c]]
  BY DEF status
<1>1. ASSUME UNCHANGED <<answer, closer>>, \A c \in Streams : status'[c] = status[c]
      PROVE  UNCHANGED Service!vars
  <2>1. status' = status
    BY <1>1, <1>s
  <2>2. served' = served /\ closed' = closed
    BY <1>1 DEF served
  <2>3. QED
    BY <1>v, <2>1, <2>2
<1>2. UNCHANGED <<pc, answer, closer>> => UNCHANGED Service!vars
  BY <1>1, StatusIsNext
<1>3. ASSUME NEW c \in Streams, UNCHANGED <<answer, closer>>, pc[c] \notin {"inline", "lone", "enqueue", "notify", "waiting"},
             \A d \in Streams : \/ pc'[d] = pc[d]
                               \/ /\ pc[d] \notin {"inline", "lone", "enqueue", "notify", "waiting"}
                                  /\ pc'[d] \notin {"inline", "lone", "enqueue", "notify", "waiting"}
      PROVE  UNCHANGED Service!vars
  <2>1. \A d \in Streams : status'[d] = status[d]
    BY <1>3, StatusIs, StatusIsNext
  <2>2. QED
    BY <1>1, <1>3, <2>1
<1>4. ASSUME NEW c \in Streams, status[c] = "offered", status'[c] = "accepted", ~closed, UNCHANGED <<answer, closer>>,
             \A d \in Streams \ {c} : status'[d] = status[d]
      PROVE  Service!Next
  <2>1. status' = [d \in Streams |-> IF d \in {c} THEN "accepted" ELSE status[d]]
    BY <1>4, <1>s
  <2>2. Service!Accept({c})
    BY <1>4, <2>1 DEF Service!Accept
  <2>3. {c} \in SUBSET Streams
    OBVIOUS
  <2>4. QED
    BY <2>2, <2>3 DEF Service!Next
<1>5. ASSUME NEW c \in Streams, NEW kind, answer' = [answer EXCEPT ![c] = [kind |-> kind, of |-> c]],
             \A d \in Streams \ {c} : pc'[d] = pc[d]
      PROVE  /\ served' = [served EXCEPT ![c] = [kind |-> kind, req |-> <<c, 0>>]]
             /\ answer'[c].kind = kind
             /\ \A d \in Streams \ {c} : status'[d] = status[d]
             /\ status' = [status EXCEPT ![c] = status'[c]]
  <2>1. served' = [served EXCEPT ![c] = [kind |-> kind, req |-> <<c, 0>>]]
    BY <1>t, <1>5, ServedAnswer DEF number
  <2>2. answer'[c].kind = kind /\ \A d \in Streams \ {c} : answer'[d] = answer[d]
    BY <1>t, <1>5 DEF TypeOK
  <2>3. \A d \in Streams \ {c} : status'[d] = status[d]
    BY <1>5, <2>2, StatusIsNext
  <2>4. status' = [status EXCEPT ![c] = status'[c]]
    BY <2>3, StatusMoves
  <2>5. QED
    BY <2>1, <2>2, <2>3, <2>4
<1>6. ASSUME NEW c \in Streams, NEW kind \in {"value", "error"},
             answer' = [answer EXCEPT ![c] = [kind |-> kind, of |-> c]],
             \A d \in Streams \ {c} : pc'[d] = pc[d],
             pc'[c] \in {"notify", "waiting"}, UNCHANGED closer
      PROVE  /\ status[c] = "accepted" => Service!AnswerCall(c)
             /\ status[c] = "offered" /\ kind = "error" => Service!Refuse(c)
  <2>1. status' = [status EXCEPT ![c] = "answered"]
    <3>1. status' = [status EXCEPT ![c] = status'[c]] /\ answer'[c].kind = kind
      BY <1>5, <1>6
    <3>2. status'[c] = "answered"
      BY <1>6, <3>1, StatusIsNext
    <3>3. QED
      BY <3>1, <3>2
  <2>2. served' = [served EXCEPT ![c] = [kind |-> kind, req |-> <<c, number[c]>>]]
    BY <1>t, <1>6, ServedAnswer
  <2>3. status[c] = "accepted" => Service!AnswerCall(c)
    BY <1>6, <2>1, <2>2 DEF Service!AnswerCall, Service!Current, served, number
  <2>4. status[c] = "offered" /\ kind = "error" => Service!Refuse(c)
    BY <1>6, <2>1, <2>2 DEF Service!Refuse, Service!Current, served, number
  <2>5. QED
    BY <2>3, <2>4
<1>7. ASSUME NEW c \in Streams, StreamNext(c) PROVE Service!Next \/ UNCHANGED Service!vars
  <2>1. CASE \/ BeginAlone(c) \/ WaveDeadline(c) \/ Announce(c) \/ ResumeWave(c) \/ EndStep(c) \/ Farewell(c)
    <3>1. /\ pc[c] \notin {"inline", "lone", "enqueue", "notify", "waiting"} /\ UNCHANGED <<answer, closer>>
          /\ pc'[c] \notin {"inline", "lone", "enqueue", "notify", "waiting"}
          /\ \A d \in Streams \ {c} : pc'[d] = pc[d]
      BY <1>p, <2>1 DEF BeginAlone, WaveDeadline, Announce, ResumeWave, EndStep, Farewell, streamVars, shutdownVars
    <3>2. QED
      BY <1>3, <3>1
  <2>2. CASE BeginInWave(c) \/ CloseWave(c)
    <3>1. UNCHANGED <<answer, closer>> /\ pc[c] \in {"out", "timedout"}
      BY <2>2 DEF BeginInWave, CloseWave, streamVars, shutdownVars
    <3>2. ReleaseWave(c) \/ pc' = [pc EXCEPT ![c] = "wave"]
      BY <2>2 DEF BeginInWave, CloseWave
    <3>3. \A d \in Streams : \/ pc'[d] = pc[d]
                            \/ /\ pc[d] \notin {"inline", "lone", "enqueue", "notify", "waiting"}
                               /\ pc'[d] \notin {"inline", "lone", "enqueue", "notify", "waiting"}
      BY <1>p, <3>1, <3>2 DEF ReleaseWave, Waiting
    <3>4. QED
      BY <1>3, <3>1, <3>3
  <2>3. CASE StartCall(c)
    <3>1. /\ pc[c] = "step" /\ pc'[c] \in {"lone", "enqueue"} /\ UNCHANGED closer
          /\ \A d \in Streams \ {c} : pc'[d] = pc[d]
          /\ answer' = [answer EXCEPT ![c] = [kind |-> "pending", of |-> c]]
      BY <1>p, <2>3 DEF StartCall, Pending, shutdownVars
    <3>2. /\ served' = [served EXCEPT ![c] = [kind |-> "pending", req |-> <<c, 0>>]]
          /\ status' = [status EXCEPT ![c] = status'[c]]
      BY <1>5, <3>1
    <3>3. status[c] = "idle" /\ status'[c] = "offered"
      BY <3>1, StatusIs, StatusIsNext
    <3>4. (0 + 1) % 1 = 0
      OBVIOUS
    <3>5. number' = [number EXCEPT ![c] = (@ + 1) % 1] /\ number'[c] = 0
      BY <3>4 DEF number
    <3>6. Service!Offer(c)
      BY <3>1, <3>2, <3>3, <3>5 DEF Service!Offer, Service!Current, served, number
    <3>7. QED
      BY <3>6 DEF Service!Next
  <2>4. CASE EnterInline(c)
    <3>1. /\ pc[c] = "lone" /\ pc'[c] = "inline" /\ UNCHANGED <<answer, closer>>
          /\ \A d \in Streams \ {c} : pc'[d] = pc[d]
      BY <1>p, <2>4 DEF EnterInline, streamVars, shutdownVars
    <3>2. status[c] = "offered" /\ status'[c] = "accepted" /\ ~closed
      BY <1>n, <1>c, <3>1, StatusIs, StatusIsNext
    <3>3. \A d \in Streams \ {c} : status'[d] = status[d]
      BY <3>1, StatusIsNext
    <3>4. QED
      BY <1>4, <3>1, <3>2, <3>3
  <2>5. CASE InlineDone(c)
    <3>1. /\ pc[c] = "inline" /\ pc'[c] = "waiting" /\ UNCHANGED closer
          /\ \A d \in Streams \ {c} : pc'[d] = pc[d]
      BY <1>p, <2>5 DEF InlineDone, shutdownVars
    <3>2. PICK kind \in {"value", "error"} : answer' = [answer EXCEPT ![c] = [kind |-> kind, of |-> c]]
      BY <2>5 DEF InlineDone, Answer
    <3>3. status[c] = "accepted"
      BY <1>n, <3>1, StatusIs
    <3>4. Service!AnswerCall(c)
      BY <1>6, <3>1, <3>2, <3>3
    <3>5. QED
      BY <3>4 DEF Service!Next
  <2>6. CASE Enqueue(c)
    <3>1. /\ pc[c] = "enqueue" /\ pc'[c] \in {"notify", "waiting"} /\ UNCHANGED closer
          /\ \A d \in Streams \ {c} : pc'[d] = pc[d]
      BY <1>p, <2>6 DEF Enqueue, shutdownVars
    <3>2. status[c] = "offered" /\ ~closed
      BY <1>c, <3>1, StatusIs
    <3>3. CASE Cardinality(Ready) >= MaxDepth
      <4>1. answer' = [answer EXCEPT ![c] = [kind |-> "error", of |-> c]]
        BY <2>6, <3>3 DEF Enqueue, Answer
      <4>2. "error" \in {"value", "error"}
        OBVIOUS
      <4>3. Service!Refuse(c)
        BY <1>6, <3>1, <3>2, <4>1, <4>2
      <4>4. QED
        BY <4>3 DEF Service!Next
    <3>4. CASE ~(Cardinality(Ready) >= MaxDepth)
      <4>1. UNCHANGED answer /\ answer[c].kind = "pending"
        BY <1>n, <2>6, <3>1, <3>4 DEF Enqueue
      <4>2. status'[c] = "accepted" /\ \A d \in Streams \ {c} : status'[d] = status[d]
        BY <3>1, <4>1, StatusIsNext
      <4>3. QED
        BY <1>4, <3>1, <3>2, <4>1, <4>2
    <3>5. QED
      BY <3>3, <3>4
  <2>7. CASE NotifyScheduler(c)
    <3>1. /\ pc[c] = "notify" /\ pc'[c] = "waiting" /\ UNCHANGED <<answer, closer>>
          /\ \A d \in Streams \ {c} : pc'[d] = pc[d]
      BY <1>p, <2>7 DEF NotifyScheduler, streamVars, shutdownVars
    <3>2. \A d \in Streams : status'[d] = status[d]
      BY <3>1, StatusIs, StatusIsNext
    <3>3. QED
      BY <1>1, <3>1, <3>2
  <2>8. CASE Return(c)
    <3>1. /\ pc[c] = "waiting" /\ pc'[c] \in {"step", "failed"} /\ UNCHANGED closer
          /\ \A d \in Streams \ {c} : pc'[d] = pc[d]
          /\ answer' = [answer EXCEPT ![c] = [kind |-> "pending", of |-> c]] /\ answer[c].kind # "pending"
      BY <1>p, <2>8 DEF Return, Pending, shutdownVars
    <3>2. /\ served' = [served EXCEPT ![c] = [kind |-> "pending", req |-> <<c, 0>>]]
          /\ status' = [status EXCEPT ![c] = status'[c]]
      BY <1>5, <3>1
    <3>3. status[c] = "answered" /\ status'[c] = "idle"
      BY <3>1, StatusIs, StatusIsNext
    <3>4. Service!Return(c)
      BY <3>1, <3>2, <3>3 DEF Service!Return, Service!Current, served, number
    <3>5. QED
      BY <3>4 DEF Service!Next
  <2>9. QED
    BY <1>7, <2>1, <2>2, <2>3, <2>4, <2>5, <2>6, <2>7, <2>8 DEF StreamNext
<1>8. SchedulerStep \/ Deadline => UNCHANGED <<pc, answer, closer>>
  BY DEF SchedulerStep, SchedulerCheck, ReadAdmitted, Decide, Handoff, Deadline, streamVars, shutdownVars
<1>9. ASSUME NEW e \in Executors, ExecutorStep(e) PROVE Service!Next \/ UNCHANGED Service!vars
  <2>1. CASE Resolve(e)
    <3>1. /\ work[e] \in Seq(Streams) /\ work[e] # <<>> /\ Len(results[e]) = Len(work[e])
          /\ results[e] \in Seq([kind : {"value", "error"}, of : Streams])
          /\ \A i \in DOMAIN work[e] : results[e][i].of = work[e][i]
      BY <1>t, <2>1, JobTypes DEF Resolve, WorkIsOfPhase, TypeOK, IInv
    <3>2. /\ 1 \in DOMAIN work[e] /\ Head(work[e]) = work[e][1] /\ Head(results[e]) = results[e][1]
          /\ 1 \in DOMAIN results[e]
      BY <3>1
    <3>3. PICK c \in Streams : c = work[e][1]
      BY <3>1, <3>2
    <3>4. IsBlocked(c)
      BY <3>2, <3>3 DEF IInv, WorkersHoldBlocked
    <3>a. results[e][1] \in [kind : {"value", "error"}, of : Streams]
      <4>1. \A T : \A s \in Seq(T) : 1 \in DOMAIN s => s[1] \in T
        OBVIOUS
      <4>2. QED
        BY <3>1, <3>2, <4>1
    <3>5. results[e][1].of = c
      BY <3>1, <3>2, <3>3
    <3>6. PICK kind \in {"value", "error"} : results[e][1] = [kind |-> kind, of |-> c]
      BY <3>a, <3>5
    <3>7. answer' = [answer EXCEPT ![c] = [kind |-> kind, of |-> c]] /\ UNCHANGED <<pc, closer>>
      BY <2>1, <3>2, <3>3, <3>6 DEF Resolve, shutdownVars
    <3>8. pc[c] \in {"notify", "waiting"} /\ status[c] = "accepted"
      BY <3>4, StatusIs DEF IsBlocked
    <3>9. Service!AnswerCall(c)
      BY <1>6, <3>7, <3>8
    <3>10. QED
      BY <3>9 DEF Service!Next
  <2>2. CASE ExecutorCheck(e) \/ Run(e) \/ FinishTask(e) \/ AnnounceFinish(e)
    <3>1. UNCHANGED <<pc, answer, closer>>
      BY <2>2 DEF ExecutorCheck, Run, FinishTask, AnnounceFinish, streamVars, shutdownVars
    <3>2. QED
      BY <1>2, <3>1
  <2>3. QED
    BY <1>9, <2>1, <2>2 DEF ExecutorStep
<1>10. ASSUME Shutdown PROVE Service!Next \/ UNCHANGED Service!vars
  <2>1. UNCHANGED <<pc, answer>>
    BY <1>10 DEF Shutdown, BeginShutdown, NotifyShutdown, JoinScheduler, JoinExecutors, streamVars
  <2>2. status' = status /\ served' = served
    BY <2>1 DEF status, served
  <2>3. CASE JoinExecutors
    <3>1. closer = "joining" /\ closer' = "returned"
      BY <2>3 DEF JoinExecutors
    <3>2. \A c \in Streams : pc[c] = "out"
      BY <3>1 DEF IInv, Phases
    <3>3. \A c \in Streams : status[c] # "accepted"
      BY <3>2, StatusIs
    <3>4. Service!Close
      BY <2>2, <3>1, <3>3 DEF Service!Close, served
    <3>5. QED
      BY <3>4 DEF Service!Next
  <2>4. CASE BeginShutdown \/ NotifyShutdown \/ JoinScheduler
    <3>1. closed' = closed
      BY <2>4 DEF BeginShutdown, NotifyShutdown, JoinScheduler
    <3>2. QED
      BY <1>v, <2>2, <3>1
  <2>5. QED
    BY <1>10, <2>3, <2>4 DEF Shutdown
<1>11. Terminated \/ UNCHANGED vars => UNCHANGED <<pc, answer, closer>>
  BY DEF Terminated, vars
<1>12. QED
  BY <1>2, <1>7, <1>8, <1>9, <1>10, <1>11 DEF Next

(* Safety refinement: whatever waves form and whichever thread runs its    *)
(* graph, a predictor or joint call that was accepted is answered once,    *)
(* with its own result or an error, and the destructor returns only when   *)
(* no stream is owed an answer.                                            *)
THEOREM Implementation == Spec => ImplementsService
<1>1. Init => Service!Init
  BY InitImplements
<1>2. IInv /\ IInv' /\ [Next]_vars => [Service!Next]_(Service!vars)
  BY StepImplements
<1>3. QED
  BY <1>1, <1>2, Invariance, PTL DEF Spec, ImplementsService, Service!Spec
=============================================================================
