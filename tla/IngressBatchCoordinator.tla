----------------------- MODULE IngressBatchCoordinator -----------------------
(***************************************************************************)
(* The coordinator that aligns concurrent streams (or offline requests)    *)
(* into ingress waves: IngressBatchCoordinator of src/src/asr/batching.h   *)
(* and the participants that RecognitionStream and Recognizer::recognize   *)
(* count in src/src/asr/recognizer.{h,cpp}. What arrive() returns becomes  *)
(* the cohort target of the microbatchers downstream.                      *)
(*                                                                         *)
(* A participant reads the number of active participants before it takes   *)
(* mu_, so that the number may be stale. One action is one hold of mu_.    *)
(***************************************************************************)
EXTENDS Naturals, FiniteSets

CONSTANTS Participants, \* streams, or concurrent offline requests
          MaxBatch,     \* max_batch_size_
          None          \* no group

ASSUME IngressAssumption ==
  /\ IsFiniteSet(Participants)
  /\ MaxBatch \in Nat \ {0}

\* A group dies with its last reference, so that ids are reused: every
\* participant refers to at most one group.
Groups == 1 .. Cardinality(Participants)
ASSUME NoneAssumption == None \notin Groups

VARIABLES
  config,    \* "disabled", "immediate" (a delay of 0) or "delayed"
  active,    \* the participant counter
  pc,        \* pc[p]: where participant p is
  expected,  \* expected[p]: the count it read
  group,     \* group[p]: the group it joined
  current,   \* current_
  target, waiters, released, size,   \* the fields of a Group
  joined,    \* history: who joined the group
  cohort     \* cohort[p]: what arrive() returned

vars == <<config, active, pc, expected, group, current, target, waiters,
          released, size, joined, cohort>>
groupVars == <<target, waiters, released, size, joined>>

Init ==
  /\ config \in {"disabled", "immediate", "delayed"}
  /\ active = 0
  /\ pc = [p \in Participants |-> "out"]
  /\ expected = [p \in Participants |-> 0]
  /\ group = [p \in Participants |-> None]
  /\ current = None
  /\ target = [g \in Groups |-> 0] /\ waiters = [g \in Groups |-> 0]
  /\ released = [g \in Groups |-> FALSE] /\ size = [g \in Groups |-> 0]
  /\ joined = [g \in Groups |-> {}]
  /\ cohort = [p \in Participants |-> 0]

\* A coordinated RecognitionStream is built, or a request enters recognize().
Register(p) ==
  /\ pc[p] = "out"
  /\ pc' = [pc EXCEPT ![p] = "ready"]
  /\ active' = active + 1
  /\ UNCHANGED <<config, expected, group, current, groupVars, cohort>>

Unregister(p) ==
  /\ pc[p] = "ready"
  /\ pc' = [pc EXCEPT ![p] = "out"]
  /\ active' = active - 1
  /\ UNCHANGED <<config, expected, group, current, groupVars, cohort>>

\* push() loads the count that it then passes to arrive().
ReadCount(p) ==
  /\ pc[p] = "ready"
  /\ pc' = [pc EXCEPT ![p] = "arriving"]
  /\ expected' = [expected EXCEPT ![p] = active]
  /\ UNCHANGED <<config, active, group, current, groupVars, cohort>>

\* arrive() returns before it takes the lock.
ArriveAlone(p) ==
  /\ pc[p] = "arriving"
  /\ config = "disabled" \/ expected[p] = 1
  /\ cohort' = [cohort EXCEPT ![p] = IF config = "disabled" THEN 0 ELSE 1]
  /\ pc' = [pc EXCEPT ![p] = "running"]
  /\ expected' = [expected EXCEPT ![p] = 0]
  /\ UNCHANGED <<config, active, group, current, groupVars>>

TargetOf(p) == IF expected[p] \in 2 .. MaxBatch THEN expected[p] ELSE MaxBatch

\* Mutant of ReleasedSize: the size the group waited for, not the one it has.
ReleasedTarget(g) == target[g]'
ReleasedSize(g)   == waiters[g]'

\* Mutant of Notified: notify_one.
NotifiedOne(g) == LET W == {q \in Participants : pc[q] = "asleep" /\ group[q] = g}
                  IN  {q \in W : q = CHOOSE r \in W : TRUE}
Notified(g)    == {q \in Participants : pc[q] = "asleep" /\ group[q] = g}

\* release_locked(g), by p: p itself goes on to return.
ReleaseLocked(p, g) ==
  /\ released' = [released EXCEPT ![g] = TRUE]
  /\ size' = [size EXCEPT ![g] = ReleasedSize(g)]
  /\ current' = IF current = g THEN None ELSE current
  /\ pc' = [q \in Participants |->
              IF q = p THEN "leaving" ELSE IF q \in Notified(g) THEN "awake" ELSE pc[q]]

\* The group p joins: current_, or a new one.
Joins(p, g) ==
  IF current # None THEN g = current
  ELSE /\ \A q \in Participants : group[q] # g
       /\ \A h \in 1 .. g - 1 : \E q \in Participants : group[q] = h

Complete(g) == waiters[g]' >= target[g]'

Arrive(p) ==
  /\ pc[p] = "arriving" /\ config # "disabled" /\ expected[p] # 1
  /\ \E g \in Groups :
       /\ Joins(p, g)
       /\ group' = [group EXCEPT ![p] = g]
       /\ IF current = None
          THEN /\ target' = [target EXCEPT ![g] = TargetOf(p)]
               /\ waiters' = [waiters EXCEPT ![g] = 1]
               /\ joined' = [joined EXCEPT ![g] = {p}]
          ELSE /\ waiters' = [waiters EXCEPT ![g] = @ + 1]
               /\ joined' = [joined EXCEPT ![g] = @ \cup {p}]
               /\ UNCHANGED target
       /\ IF config = "immediate" \/ Complete(g)
          THEN ReleaseLocked(p, g)
          ELSE /\ current' = g
               /\ pc' = [pc EXCEPT ![p] = "asleep"]
               /\ UNCHANGED <<released, size>>
  /\ expected' = [expected EXCEPT ![p] = 0]
  /\ UNCHANGED <<config, active, cohort>>

\* cv.wait_until gives up; p must still take the lock again.
Deadline(p) ==
  /\ pc[p] = "asleep"
  /\ pc' = [pc EXCEPT ![p] = "awake"]
  /\ UNCHANGED <<config, active, expected, group, current, groupVars, cohort>>

\* p has the lock again, notified or timed out.
Resume(p) ==
  /\ pc[p] = "awake"
  /\ UNCHANGED <<config, active, expected, group, target, waiters, joined, cohort>>
  /\ IF released[group[p]]
     THEN pc' = [pc EXCEPT ![p] = "leaving"] /\ UNCHANGED <<released, size, current>>
     ELSE ReleaseLocked(p, group[p])

\* arrive() returns released_size, read outside the lock.
Leave(p) ==
  /\ pc[p] = "leaving"
  /\ cohort' = [cohort EXCEPT ![p] = size[group[p]]]
  /\ pc' = [pc EXCEPT ![p] = "running"]
  /\ UNCHANGED <<config, active, expected, group, current, groupVars>>

\* The step that the wave was for is over: the cohort scope ends, and with
\* the last participant that refers to it the group.
StepDone(p) ==
  /\ pc[p] = "running"
  /\ pc' = [pc EXCEPT ![p] = "ready"]
  /\ cohort' = [cohort EXCEPT ![p] = 0]
  /\ group' = [group EXCEPT ![p] = None]
  /\ IF \E q \in Participants \ {p} : group[q] = group[p]
     THEN UNCHANGED groupVars
     ELSE LET Clear(f, zero) == [g \in Groups |-> IF g = group[p] THEN zero ELSE f[g]]
          IN  /\ target' = Clear(target, 0) /\ waiters' = Clear(waiters, 0)
              /\ released' = Clear(released, FALSE) /\ size' = Clear(size, 0)
              /\ joined' = Clear(joined, {})
  /\ UNCHANGED <<config, active, expected, current>>

Next == \E p \in Participants :
  \/ Register(p) \/ Unregister(p) \/ ReadCount(p) \/ ArriveAlone(p) \/ Arrive(p)
  \/ Deadline(p) \/ Resume(p) \/ Leave(p) \/ StepDone(p)

Spec == Init /\ [][Next]_vars
-----------------------------------------------------------------------------
(* Every variable keeps its type, and the counter counts.                  *)
TypeOK ==
  /\ config \in {"disabled", "immediate", "delayed"}
  /\ active = Cardinality({p \in Participants : pc[p] # "out"})
  /\ pc \in [Participants -> {"out", "ready", "arriving", "asleep", "awake",
                              "leaving", "running"}]
  /\ expected \in [Participants -> 0 .. Cardinality(Participants)]
  /\ group \in [Participants -> Groups \cup {None}]
  /\ current \in Groups \cup {None}
  /\ target \in [Groups -> 0 .. MaxBatch] /\ waiters \in [Groups -> 0 .. Cardinality(Participants)]
  /\ released \in [Groups -> BOOLEAN] /\ size \in [Groups -> Nat]
  /\ joined \in [Groups -> SUBSET Participants]
  /\ cohort \in [Participants -> Nat]

(* The target handed downstream is the number of streams that really are   *)
(* in the wave, the same for all of them, and never more than a batch can  *)
(* hold: a stage waiting for it cannot wait for somebody who is not there. *)
CohortIsReal ==
  \A p \in Participants :
    pc[p] = "running" /\ group[p] # None =>
      /\ cohort[p] = Cardinality(joined[group[p]])
      /\ cohort[p] <= MaxBatch

(* There is one open wave, and whoever sleeps waits in it: nobody is left  *)
(* behind asleep in a wave that was released, to be saved by its timer.    *)
SleepersWaitInCurrent ==
  \A p \in Participants :
    pc[p] = "asleep" => group[p] = current /\ ~released[current]
=============================================================================
