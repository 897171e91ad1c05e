--------------------------- MODULE StreamingProofs ---------------------------
(* Proofs about the two modules under a streaming session. First             *)
(* IngressBatchCoordinator, for any participants and any size of batch: the  *)
(* cohort a stream is told is its wave, and nobody is left asleep in a wave  *)
(* that was released. Then StreamRunner, for any hop, subsampling and        *)
(* context, of a transducer, and of a CTC model whose windows are of whole   *)
(* frames: every frame of a stream is decoded once, in order, and every word *)
(* is published once, in order.                                              *)
EXTENDS IngressBatchCoordinator, StreamRunner, FiniteSetTheorems,
        SequenceTheorems, TLAPS

Phases == {"out", "ready", "arriving", "asleep", "awake", "leaving", "running"}

Types ==
  /\ pc \in [Participants -> Phases]
  /\ group \in [Participants -> Groups \cup {None}]
  /\ current \in Groups \cup {None}
  /\ target \in [Groups -> Nat] /\ waiters \in [Groups -> Nat]
  /\ released \in [Groups -> BOOLEAN] /\ size \in [Groups -> Nat]
  /\ joined \in [Groups -> SUBSET Participants]
  /\ cohort \in [Participants -> Nat]

Members(g) == {q \in Participants : group[q] = g}

(* The open wave has somebody in it, counts them all, and is not yet full.   *)
OpenWave ==
  current # None =>
    /\ ~released[current] /\ Members(current) # {}
    /\ joined[current] = Members(current)
    /\ waiters[current] = Cardinality(joined[current])
    /\ waiters[current] < target[current] /\ target[current] <= MaxBatch

(* A wave that was released keeps who was in it until the last has gone.     *)
ReleasedWaves ==
  \A g \in Groups : released[g] =>
    /\ Members(g) # {}
    /\ size[g] = Cardinality(joined[g]) /\ size[g] <= MaxBatch

(* What the place of a participant says of its wave.                         *)
Places ==
  \A p \in Participants :
    /\ pc[p] \in {"out", "ready", "arriving"} => group[p] = None
    /\ pc[p] \in {"asleep", "awake", "leaving"} => group[p] # None
    /\ group[p] # None => group[p] = current \/ released[group[p]]
    /\ pc[p] = "leaving" => released[group[p]]
    /\ pc[p] = "running" /\ group[p] # None =>
         released[group[p]] /\ cohort[p] = size[group[p]]
    /\ pc[p] = "asleep" => group[p] = current

IInv == Types /\ OpenWave /\ ReleasedWaves /\ Places

LEMMA InitIInv == Init => IInv
BY NoneAssumption
   DEF Init, IInv, Types, Phases, OpenWave, ReleasedWaves, Places

LEMMA TargetFits == ASSUME NEW p \in Participants
                    PROVE  TargetOf(p) \in Nat /\ TargetOf(p) <= MaxBatch /\ TargetOf(p) >= 1
BY IngressAssumption DEF TargetOf

(* The wave p joins counts it, whether it was open or is new.                *)
LEMMA Joined ==
  ASSUME IInv, NEW p \in Participants, NEW g \in Groups,
         pc[p] = "arriving", Joins(p, g),
         group' = [group EXCEPT ![p] = g],
         IF current = None
         THEN /\ target' = [target EXCEPT ![g] = TargetOf(p)]
              /\ waiters' = [waiters EXCEPT ![g] = 1]
              /\ joined' = [joined EXCEPT ![g] = {p}]
         ELSE /\ waiters' = [waiters EXCEPT ![g] = @ + 1]
              /\ joined' = [joined EXCEPT ![g] = @ \cup {p}]
              /\ UNCHANGED target
  PROVE  /\ ~released[g]
         /\ joined'[g] = Members(g)' /\ p \in Members(g)'
         /\ waiters'[g] = Cardinality(joined'[g])
         /\ waiters'[g] \in Nat /\ waiters'[g] <= MaxBatch
         /\ target'[g] \in Nat /\ target'[g] <= MaxBatch
         /\ target' \in [Groups -> Nat] /\ waiters' \in [Groups -> Nat]
         /\ joined' \in [Groups -> SUBSET Participants]
         /\ \A h \in Groups \ {g} :
              /\ Members(h)' = Members(h)
              /\ joined'[h] = joined[h] /\ h # current
<1> USE DEF IInv
<1>0. group[p] = None /\ g # None
  BY NoneAssumption DEF Places
<1>1. CASE current = None
  <2>1. Members(g) = {} BY <1>1, <1>0 DEF Joins, Members
  <2>2. ~released[g] BY <2>1 DEF ReleasedWaves
  <2>3. Members(g)' = {p} BY <2>1, <1>0 DEF Members, Types
  <2>4. Cardinality({p}) = 1 BY FS_Singleton
  <2>5. joined'[g] = {p} /\ waiters'[g] = 1 /\ target'[g] = TargetOf(p)
    BY <1>1 DEF Types
  <2>6. 1 \in Nat /\ 1 <= MaxBatch BY IngressAssumption
  <2>7. /\ target' \in [Groups -> Nat] /\ waiters' \in [Groups -> Nat]
        /\ joined' \in [Groups -> SUBSET Participants]
    BY <1>1, TargetFits DEF Types
  <2>8. ASSUME NEW h \in Groups \ {g}
        PROVE Members(h)' = Members(h) /\ joined'[h] = joined[h] /\ h # current
    BY <1>1, <1>0, NoneAssumption DEF Members, Types
  <2> QED BY <2>2, <2>3, <2>4, <2>5, <2>6, <2>7, <2>8, TargetFits
<1>2. CASE current # None
  <2>1. g = current /\ ~released[g] /\ joined[g] = Members(g)
        /\ waiters[g] = Cardinality(joined[g])
        /\ waiters[g] < target[g] /\ target[g] <= MaxBatch
    BY <1>2 DEF Joins, OpenWave
  <2>2. p \notin joined[g] BY <2>1, <1>0 DEF Members
  <2>3. IsFiniteSet(joined[g])
    BY IngressAssumption, FS_Subset DEF Types
  <2>4. Cardinality(joined[g] \cup {p}) = Cardinality(joined[g]) + 1
    BY <2>2, <2>3, FS_AddElement
  <2>5. /\ joined'[g] = joined[g] \cup {p} /\ waiters'[g] = waiters[g] + 1
        /\ target'[g] = target[g] /\ waiters[g] \in Nat /\ target[g] \in Nat
    BY <1>2 DEF Types
  <2>6. Members(g)' = Members(g) \cup {p} BY <1>0 DEF Members, Types
  <2>7. /\ target' \in [Groups -> Nat] /\ waiters' \in [Groups -> Nat]
        /\ joined' \in [Groups -> SUBSET Participants]
    BY <1>2 DEF Types
  <2>8. ASSUME NEW h \in Groups \ {g}
        PROVE Members(h)' = Members(h) /\ joined'[h] = joined[h] /\ h # current
    BY <1>2, <1>0, <2>1, NoneAssumption DEF Members, Types
  <2>9. waiters'[g] <= MaxBatch /\ waiters'[g] \in Nat
    BY <2>1, <2>5, IngressAssumption
  <2>10. waiters'[g] = Cardinality(joined'[g]) BY <2>1, <2>4, <2>5
  <2> QED BY <2>1, <2>5, <2>6, <2>7, <2>8, <2>9, <2>10
<1> QED BY <1>1, <1>2

LEMMA ArriveStep ==
  ASSUME IInv, NEW p \in Participants, Arrive(p)
  PROVE  IInv'
<1> USE DEF IInv
<1>1. PICK g \in Groups :
        /\ Joins(p, g)
        /\ group' = [group EXCEPT ![p] = g]
        /\ IF current = None
           THEN /\ target' = [target EXCEPT ![g] = TargetOf(p)]
                /\ waiters' = [waiters EXCEPT ![g] = 1]
                /\ joined' = [joined EXCEPT ![g] = {p}]
           ELSE /\ waiters' = [waiters EXCEPT ![g] = @ + 1]
                /\ joined' = [joined EXCEPT ![g] = @ \cup {p}]
                /\ UNCHANGED target
        /\ IF config = "immediate" \/ Complete(g)
           THEN ReleaseLocked(p, g)
           ELSE /\ current' = g
                /\ pc' = [pc EXCEPT ![p] = "asleep"]
                /\ UNCHANGED <<released, size>>
  BY DEF Arrive
<1>2. pc[p] = "arriving" /\ cohort' = cohort BY DEF Arrive
<1>3. /\ ~released[g]
      /\ joined'[g] = Members(g)' /\ p \in Members(g)'
      /\ waiters'[g] = Cardinality(joined'[g])
      /\ waiters'[g] \in Nat /\ waiters'[g] <= MaxBatch
      /\ target'[g] \in Nat /\ target'[g] <= MaxBatch
      /\ target' \in [Groups -> Nat] /\ waiters' \in [Groups -> Nat]
      /\ joined' \in [Groups -> SUBSET Participants]
      /\ \A h \in Groups \ {g} :
           /\ Members(h)' = Members(h)
           /\ joined'[h] = joined[h] /\ h # current
  BY <1>1, <1>2, Joined
<1>4. group[p] = None /\ g # None /\ group' \in [Participants -> Groups \cup {None}]
  BY <1>1, <1>2, NoneAssumption DEF Places, Types
<1>5. \A q \in Participants : group'[q] = IF q = p THEN g ELSE group[q]
  BY <1>1 DEF Types
<1>6. current = None \/ current = g
  BY <1>3 DEF Types
<1>7. CASE config = "immediate" \/ Complete(g)
  <2>1. /\ released' = [released EXCEPT ![g] = TRUE]
        /\ size' = [size EXCEPT ![g] = waiters'[g]]
        /\ current' = None
        /\ pc' = [q \in Participants |->
                    IF q = p THEN "leaving" ELSE IF q \in Notified(g) THEN "awake" ELSE pc[q]]
    BY <1>1, <1>6, <1>7 DEF ReleaseLocked, ReleasedSize
  <2>2. Types' BY <1>2, <1>3, <1>4, <2>1 DEF Types, Phases
  <2>3. OpenWave' BY <2>1 DEF OpenWave
  <2>4. ReleasedWaves'
    <3> SUFFICES ASSUME NEW h \in Groups, released'[h]
                 PROVE /\ Members(h)' # {}
                       /\ size'[h] = Cardinality(joined'[h]) /\ size'[h] <= MaxBatch
      BY DEF ReleasedWaves
    <3>1. CASE h = g BY <3>1, <1>3, <2>1 DEF Types
    <3>2. CASE h # g
      <4>1. released[h] /\ size'[h] = size[h] BY <3>2, <2>1 DEF Types
      <4> QED BY <3>2, <4>1, <1>3 DEF ReleasedWaves
    <3> QED BY <3>1, <3>2
  <2>5. Places'
    <3>1. \A h \in Groups : released'[h] = (released[h] \/ h = g) BY <2>1 DEF Types
    <3>2. \A h \in Groups : released[h] => size'[h] = size[h] BY <1>3, <2>1 DEF Types
    <3>3. \A q \in Participants : q \in Notified(g) <=> pc[q] = "asleep" /\ group[q] = g
      BY DEF Notified
    <3>4. \A q \in Participants : group[q] = None \/ group[q] \in Groups BY DEF Types
    <3> QED BY <1>2, <1>4, <1>5, <1>6, <2>1, <3>1, <3>2, <3>3, <3>4 DEF Places, Types, Phases
  <2> QED BY <2>2, <2>3, <2>4, <2>5
<1>8. CASE ~(config = "immediate" \/ Complete(g))
  <2>1. current' = g /\ pc' = [pc EXCEPT ![p] = "asleep"] /\ released' = released /\ size' = size
    BY <1>1, <1>8
  <2>2. waiters'[g] < target'[g] BY <1>3, <1>8 DEF Complete
  <2>3. Types' BY <1>2, <1>3, <1>4, <2>1 DEF Types, Phases
  <2>4. OpenWave' BY <1>3, <2>1, <2>2 DEF OpenWave
  <2>5. ReleasedWaves' BY <1>3, <2>1 DEF ReleasedWaves
  <2>6. Places' BY <1>2, <1>4, <1>5, <1>6, <2>1 DEF Places, Types, Phases
  <2> QED BY <2>3, <2>4, <2>5, <2>6
<1> QED BY <1>7, <1>8

LEMMA ResumeStep ==
  ASSUME IInv, NEW p \in Participants, Resume(p)
  PROVE  IInv'
<1> USE DEF IInv
<1>1. /\ pc[p] = "awake"
      /\ UNCHANGED <<group, target, waiters, joined, cohort>>
      /\ group[p] \in Groups
  BY DEF Resume, Places, Types
<1>2. CASE released[group[p]]
  <2>1. pc' = [pc EXCEPT ![p] = "leaving"] /\ UNCHANGED <<released, size, current>>
    BY <1>2 DEF Resume
  <2>2. Types' BY <1>1, <2>1 DEF Types, Phases
  <2>3. OpenWave' /\ ReleasedWaves' BY <1>1, <2>1 DEF OpenWave, ReleasedWaves, Members
  <2>4. Places' BY <1>1, <1>2, <2>1 DEF Places, Types, Phases
  <2> QED BY <2>2, <2>3, <2>4
<1>3. CASE ~released[group[p]]
  <2> DEFINE g == group[p]
  <2>1. g = current BY <1>1, <1>3, NoneAssumption DEF Places
  <2>2. /\ released' = [released EXCEPT ![g] = TRUE]
        /\ size' = [size EXCEPT ![g] = waiters[g]]
        /\ current' = None
        /\ pc' = [q \in Participants |->
                    IF q = p THEN "leaving" ELSE IF q \in Notified(g) THEN "awake" ELSE pc[q]]
    BY <1>1, <1>3, <2>1 DEF Resume, ReleaseLocked, ReleasedSize
  <2>3. /\ Members(g) # {} /\ waiters[g] = Cardinality(joined[g])
        /\ waiters[g] \in Nat /\ waiters[g] <= MaxBatch
    BY <1>1, <2>1, NoneAssumption, IngressAssumption DEF OpenWave, Types
  <2>4. Types' BY <1>1, <2>2, <2>3 DEF Types, Phases
  <2>5. OpenWave' BY <2>2 DEF OpenWave
  <2>6. ReleasedWaves'
    <3> SUFFICES ASSUME NEW h \in Groups, released'[h]
                 PROVE /\ Members(h)' # {}
                       /\ size'[h] = Cardinality(joined'[h]) /\ size'[h] <= MaxBatch
      BY DEF ReleasedWaves
    <3>1. CASE h = g BY <3>1, <1>1, <2>2, <2>3 DEF Types, Members
    <3>2. CASE h # g
      <4>1. released[h] /\ size'[h] = size[h] BY <3>2, <2>2 DEF Types
      <4> QED BY <4>1, <1>1 DEF ReleasedWaves, Members
    <3> QED BY <3>1, <3>2
  <2>7. Places'
    <3>1. \A h \in Groups : released'[h] = (released[h] \/ h = g) BY <2>2 DEF Types
    <3>2. \A h \in Groups : released[h] => size'[h] = size[h] BY <1>3, <2>2 DEF Types
    <3>3. \A q \in Participants : q \in Notified(g) <=> pc[q] = "asleep" /\ group[q] = g
      BY DEF Notified
    <3>4. \A q \in Participants : group[q] = None \/ group[q] \in Groups BY DEF Types
    <3> HIDE DEF g
    <3> QED BY <1>1, <2>1, <2>2, <3>1, <3>2, <3>3, <3>4 DEF Places, Types, Phases
  <2> QED BY <2>4, <2>5, <2>6, <2>7
<1> QED BY <1>2, <1>3

(* Only the last to leave takes the wave with it.                            *)
LEMMA StepDoneStep ==
  ASSUME IInv, NEW p \in Participants, StepDone(p)
  PROVE  IInv'
<1> USE DEF IInv
<1>1. /\ pc[p] = "running" /\ pc' = [pc EXCEPT ![p] = "ready"]
      /\ cohort' = [cohort EXCEPT ![p] = 0]
      /\ group' = [group EXCEPT ![p] = None]
      /\ current' = current
  BY DEF StepDone
<1>2. \A q \in Participants : group'[q] = IF q = p THEN None ELSE group[q]
  BY <1>1 DEF Types
<1>3. group[p] = None \/ (group[p] \in Groups /\ released[group[p]] /\ group[p] # current)
  BY <1>1 DEF Places, Types, OpenWave
<1>4. \A h \in Groups : h # group[p] => Members(h)' = Members(h)
  BY <1>2, NoneAssumption DEF Members
<1>5. CASE \E q \in Participants \ {p} : group[q] = group[p]
  <2>1. UNCHANGED groupVars BY <1>5 DEF StepDone
  <2>2. Types' BY <1>1, <2>1 DEF Types, Phases, groupVars
  <2>3. \A h \in Groups : h = group[p] => Members(h)' # {} BY <1>5, <1>2 DEF Members
  <2>4. OpenWave' BY <1>1, <1>3, <1>4, <2>1 DEF OpenWave, Types, groupVars
  <2>5. ReleasedWaves' BY <1>4, <2>1, <2>3 DEF ReleasedWaves, groupVars
  <2>6. Places' BY <1>1, <1>2, <2>1 DEF Places, Types, Phases, groupVars
  <2> QED BY <2>2, <2>4, <2>5, <2>6
<1>6. CASE ~\E q \in Participants \ {p} : group[q] = group[p]
  <2>1. /\ target' = [g \in Groups |-> IF g = group[p] THEN 0 ELSE target[g]]
        /\ waiters' = [g \in Groups |-> IF g = group[p] THEN 0 ELSE waiters[g]]
        /\ released' = [g \in Groups |-> IF g = group[p] THEN FALSE ELSE released[g]]
        /\ size' = [g \in Groups |-> IF g = group[p] THEN 0 ELSE size[g]]
        /\ joined' = [g \in Groups |-> IF g = group[p] THEN {} ELSE joined[g]]
    BY <1>6 DEF StepDone
  <2>2. Types' BY <1>1, <2>1 DEF Types, Phases
  <2>3. OpenWave' BY <1>1, <1>3, <1>4, <2>1 DEF OpenWave, Types
  <2>4. ReleasedWaves' BY <1>4, <2>1 DEF ReleasedWaves
  <2>5. Places' BY <1>1, <1>2, <1>6, <2>1 DEF Places, Types, Phases
  <2> QED BY <2>2, <2>3, <2>4, <2>5
<1> QED BY <1>5, <1>6

LEMMA StepIInv == IInv /\ [Next]_vars => IInv'
<1> SUFFICES ASSUME IInv, [Next]_vars PROVE IInv'
  OBVIOUS
<1> USE DEF IInv, Types, Phases, OpenWave, ReleasedWaves, Places, Members
<1>1. ASSUME NEW p \in Participants, Register(p) PROVE IInv'
  BY <1>1 DEF Register, groupVars
<1>2. ASSUME NEW p \in Participants, Unregister(p) PROVE IInv'
  BY <1>2 DEF Unregister, groupVars
<1>3. ASSUME NEW p \in Participants, ReadCount(p) PROVE IInv'
  BY <1>3 DEF ReadCount, groupVars
<1>4. ASSUME NEW p \in Participants, ArriveAlone(p) PROVE IInv'
  BY <1>4 DEF ArriveAlone, groupVars
<1>5. ASSUME NEW p \in Participants, Deadline(p) PROVE IInv'
  BY <1>5 DEF Deadline, groupVars
<1>6. ASSUME NEW p \in Participants, Leave(p) PROVE IInv'
  BY <1>6 DEF Leave, groupVars
<1>7. ASSUME UNCHANGED vars PROVE IInv'
  BY <1>7 DEF vars, groupVars
<1> QED BY <1>1, <1>2, <1>3, <1>4, <1>5, <1>6, <1>7,
           ArriveStep, ResumeStep, StepDoneStep DEF Next

(* The inductive invariant holds in every reachable state.                   *)
THEOREM Invariance == Spec => []IInv
BY InitIInv, StepIInv, PTL DEF Spec

(* The cohort that arrive() returns is the number of streams in the wave,    *)
(* the same for each of them, and fits in a batch.                           *)
THEOREM CohortIsTheWave == Spec => []CohortIsReal
<1>1. IInv => CohortIsReal
  BY DEF IInv, Types, ReleasedWaves, Places, CohortIsReal
<1> QED BY <1>1, Invariance, PTL

(* Whoever sleeps waits in the open wave.                                    *)
THEOREM SleepersAreInTheOpenWave == Spec => []SleepersWaitInCurrent
<1>1. IInv => SleepersWaitInCurrent
  BY DEF IInv, Types, OpenWave, Places, SleepersWaitInCurrent
<1> QED BY <1>1, Invariance, PTL
-----------------------------------------------------------------------------
(* Division of integers by the geometry, as the proofs below use it.          *)
LEMMA Distribute ==
  \A a, b, c \in Int : (a + b) * c = a * c + b * c /\ (a - b) * c = a * c - b * c
OBVIOUS

LEMMA TimesMonotone ==
  ASSUME NEW a \in Int, NEW b \in Int, NEW c \in Nat, a <= b
  PROVE  a * c <= b * c
OBVIOUS

LEMMA TimesCancels ==
  ASSUME NEW a \in Int, NEW b \in Int, NEW c \in Nat \ {0}
  PROVE  /\ a * c <= b * c => a <= b
         /\ a * c < b * c => a < b
OBVIOUS

LEMMA Quotient ==
  ASSUME NEW a \in Int, NEW b \in Nat \ {0}
  PROVE  /\ a \div b \in Int
         /\ (a \div b) * b <= a
         /\ a < (a \div b) * b + b
OBVIOUS

LEMMA QuotientIs ==
  ASSUME NEW a \in Int, NEW q \in Int, NEW b \in Nat \ {0}, q * b <= a, a < q * b + b
  PROVE  a \div b = q
OBVIOUS

LEMMA WholeQuotient ==
  ASSUME NEW a \in Nat, NEW b \in Nat \ {0}, a % b = 0
  PROVE  a \div b \in Nat /\ a = (a \div b) * b
OBVIOUS

LEMMA Geometry ==
  /\ Hop \in Nat \ {0} /\ Half \in Nat \ {0} /\ Sub \in Nat \ {0}
  /\ Chunk \in Nat \ {0} /\ Left \in Nat /\ RightPad \in Nat
  /\ FrameSamples \in Nat \ {0} /\ FrameSamples = Sub * Hop
  /\ PreEncode \in Nat /\ PreEncode = Sub + 1
  /\ Rights \subseteq Nat /\ Feeds \subseteq Nat \ {0}
<1>1. /\ Hop \in Nat \ {0} /\ Half \in Nat \ {0} /\ Sub \in Nat \ {0}
      /\ Chunk \in Nat \ {0} /\ Left \in Nat /\ RightPad \in Nat
      /\ Rights \subseteq Nat /\ Feeds \subseteq Nat \ {0}
  BY RunnerAssumption
<1>2. Sub * Hop \in Nat \ {0}
  BY <1>1
<1>3. QED
  BY <1>1, <1>2 DEF FrameSamples, PreEncode
-----------------------------------------------------------------------------
Frames    == [at : Int, sees : Seq(Int)]
Audios    == [base : Nat, end : Nat, vad : Nat]
Mels      == [base : Nat, off : Nat, made : Nat, buf : Seq(Int)]
Decodings == [first : BOOLEAN, frames : Nat, start : Nat]
StreamPhases == {"idle", "chunks", "fired", "trim", "tail", "flush", "closed"}

StreamTypes ==
  /\ cfg \in Configs /\ phase \in StreamPhases /\ ending \in BOOLEAN
  /\ audio \in Audios /\ mel \in Mels /\ dec \in Decodings
  /\ decoded \in Seq(Frames)

(* What the front end reads next is still in the audio buffer, and a cache    *)
(* runner that works has made every frame there is.                           *)
FrontEnd ==
  /\ mel.made <= FramesOf(audio.end)
  /\ audio.base <= Larger(mel.made * Hop - Half, 0)
  /\ IsCache /\ phase \notin {"idle", "closed"} => FramesOf(audio.end) = mel.made

(* The mel frame with global index m, of a stream with this many.             *)
FrameAt(made, m) == IF m \in 0 .. made - 1 THEN m ELSE Pad

(* The global index of the frame at the head of the cache runner's buffer.    *)
HeadFrame(d) == IF d.first THEN 0 ELSE (d.frames - 2) * Sub

(* The cache runner's buffer holds the frames from the overlap on.            *)
Holds(m, d) ==
  /\ m.off <= Len(m.buf)
  /\ d.first => m.off = 0 /\ d.frames = 0
  /\ \A j \in 1 .. Len(m.buf) - m.off : m.buf[m.off + j] = FrameAt(m.made, HeadFrame(d) + j - 1)

(* Before finalize() pads it, the buffer ends with the last frame made, and   *)
(* what was decoded ends before it.                                           *)
Unpadded(m, d) ==
  /\ Len(m.buf) - m.off = m.made - HeadFrame(d)
  /\ ~d.first => m.made - HeadFrame(d) >= PreEncode

(* In finalize() it ends with the padding, unless the stream was empty.       *)
Padded(m, d, pad) ==
  \/ Len(m.buf) - m.off = m.made - HeadFrame(d) + pad
  \/ Len(m.buf) = m.off /\ m.made = 0 /\ d.first

CacheHead ==
  IsCache =>
    /\ Holds(mel, dec) /\ Len(decoded) = dec.frames
    /\ phase \notin {"flush", "closed"} => Unpadded(mel, dec)
    /\ phase = "flush" => Padded(mel, dec, FlushPad)

(* The buffered runner's buffer holds the frames from its base on, which is   *)
(* not past the left edge of the next window; the cursor is where the decoded *)
(* frames end.                                                                *)
Window(m, d, n) ==
  /\ WholeFrameWindows
  /\ n * FrameSamples = d.start
  /\ m.base + Len(m.buf) = m.made
  /\ \A i \in 1 .. Len(m.buf) : m.buf[i] = m.base + i - 1
  /\ m.base * Hop <= Larger(0, d.start - Left)

BufferedHead ==
  ~IsCache => phase # "flush" /\ (phase # "closed" => Window(mel, dec, Len(decoded)))

(* What frame f of the stream is computed from, when so many mel frames are.  *)
SeesAt(made, f) == [j \in 1 .. 2 * Sub - 1 |-> FrameAt(made, f * Sub - (2 * Sub - 1) + j)]
SeesOf(cache, made, f) == IF cache THEN SeesAt(made, f) ELSE <<f * Sub>>

(* The frames s given to the head are the first ones, in order.               *)
Given(s, cache, made) ==
  \A i \in 1 .. Len(s) : s[i].at = i - 1 /\ s[i].sees = SeesOf(cache, made, i - 1)

(* Nothing is left behind when the loop ends, when next() returns, and when   *)
(* the stream is closed.                                                      *)
NothingLeft ==
  /\ phase = "trim" => ~ChunkReady
  /\ phase = "idle" /\ result \in {"none", "interim"} =>
       ~ChunkReady /\ (IsCache => FramesOf(audio.end) = mel.made)
  /\ phase = "closed" =>
       Len(decoded) >= RealFrames + (IF IsCache /\ mel.made > 0 THEN 1 ELSE 0)

(* A transducer is followed in every geometry, a CTC model in whole-frame     *)
(* windows: elsewhere its windows may skip audio or give frames twice.        *)
Covered == IsCache \/ WholeFrameWindows

StreamInv ==
  /\ StreamTypes /\ FrontEnd
  /\ CacheHead /\ BufferedHead
  /\ Given(decoded, IsCache, mel.made)
  /\ NothingLeft
-----------------------------------------------------------------------------
(* The records of the state, field by field.                                  *)
LEMMA Fields ==
  ASSUME StreamTypes
  PROVE  /\ cfg.head \in {"rnnt", "ctc"} /\ cfg.right \in Nat
         /\ IsCache \in BOOLEAN
         /\ ChunkFrames \in Nat \ {0} /\ ChunkFrames = 1 + cfg.right
         /\ audio.base \in Nat /\ audio.end \in Nat /\ audio.vad \in Nat
         /\ mel.base \in Nat /\ mel.off \in Nat /\ mel.made \in Nat
         /\ mel.buf \in Seq(Int) /\ Len(mel.buf) \in Nat
         /\ dec.first \in BOOLEAN /\ dec.frames \in Nat /\ dec.start \in Nat
         /\ decoded \in Seq(Frames) /\ Len(decoded) \in Nat
<1>1. cfg.head \in {"rnnt", "ctc"} /\ cfg.right \in Nat
  <2>1. CASE cfg \in [head : {"rnnt"}, right : Rights, signal : {"off", "tokens", "vad"}]
    BY <2>1, Geometry
  <2>2. CASE cfg \in [head : {"ctc"}, right : {0}, signal : {"off", "tokens", "vad"}]
    BY <2>2
  <2>3. QED
    BY <2>1, <2>2 DEF StreamTypes, Configs
<1>2. audio.base \in Nat /\ audio.end \in Nat /\ audio.vad \in Nat
  BY DEF StreamTypes, Audios
<1>3. /\ mel.base \in Nat /\ mel.off \in Nat /\ mel.made \in Nat
      /\ mel.buf \in Seq(Int) /\ Len(mel.buf) \in Nat
  BY DEF StreamTypes, Mels
<1>4. dec.first \in BOOLEAN /\ dec.frames \in Nat /\ dec.start \in Nat
  BY DEF StreamTypes, Decodings
<1>5. decoded \in Seq(Frames) /\ Len(decoded) \in Nat
  BY DEF StreamTypes
<1>6. QED
  BY <1>1, <1>2, <1>3, <1>4, <1>5 DEF IsCache, ChunkFrames

(* The frames whose right edge the audio reaches.                             *)
LEMMA FramesReach ==
  ASSUME NEW end \in Nat
  PROVE  /\ FramesOf(end) \in Nat
         /\ \A i \in Nat : i < FramesOf(end) <=> i * Hop + Half <= end
<1>1. CASE end >= Half
  <2> DEFINE q == (end - Half) \div Hop
  <2>1. q \in Int /\ q * Hop <= end - Half /\ end - Half < q * Hop + Hop
    BY Geometry, Quotient
  <2>2. FramesOf(end) = q + 1
    BY <1>1 DEF FramesOf
  <2> HIDE DEF q
  <2>3. q >= 0
    <3>1. SUFFICES ASSUME q < 0 PROVE FALSE
      BY <2>1
    <3>2. (q + 1) * Hop <= 0 * Hop
      BY <3>1, <2>1, Geometry, TimesMonotone
    <3>3. (q + 1) * Hop = q * Hop + 1 * Hop
      BY <2>1, Geometry, Distribute
    <3>4. QED
      BY <3>2, <3>3, <2>1, <1>1, Geometry
  <2>4. ASSUME NEW i \in Nat
        PROVE  i < FramesOf(end) <=> i * Hop + Half <= end
    <3>1. CASE i <= q
      <4>1. i * Hop <= q * Hop
        BY <3>1, <2>1, Geometry, TimesMonotone
      <4>2. i * Hop \in Int
        BY Geometry
      <4>3. QED
        BY <4>1, <4>2, <3>1, <2>1, <2>2, Geometry
    <3>2. CASE i >= q + 1
      <4>1. (q + 1) * Hop <= i * Hop
        BY <3>2, <2>1, Geometry, TimesMonotone
      <4>2. (q + 1) * Hop = q * Hop + 1 * Hop /\ i * Hop \in Int
        BY <2>1, Geometry, Distribute
      <4>3. QED
        BY <4>1, <4>2, <3>2, <2>1, <2>2, Geometry
    <3>3. QED
      BY <3>1, <3>2, <2>1
  <2>5. QED
    BY <2>1, <2>2, <2>3, <2>4
<1>2. CASE end < Half
  <2>1. FramesOf(end) = 0
    BY <1>2, Geometry DEF FramesOf
  <2>2. ASSUME NEW i \in Nat
        PROVE  ~(i * Hop + Half <= end)
    BY <1>2, Geometry
  <2>3. QED
    BY <2>1, <2>2
<1>3. QED
  BY <1>1, <1>2, Geometry

LEMMA FramesGrow ==
  ASSUME NEW e \in Nat, NEW f \in Nat, e <= f
  PROVE  FramesOf(e) <= FramesOf(f)
<1>1. FramesOf(e) \in Nat /\ FramesOf(f) \in Nat
  BY FramesReach
<1>2. CASE FramesOf(e) = 0
  BY <1>1, <1>2
<1>3. CASE FramesOf(e) > 0
  <2> DEFINE i == FramesOf(e) - 1
  <2>1. i \in Nat /\ i < FramesOf(e)
    BY <1>1, <1>3
  <2> HIDE DEF i
  <2>2. i * Hop + Half <= e /\ i * Hop \in Int
    BY <2>1, FramesReach, Geometry
  <2>3. i < FramesOf(f)
    BY <2>1, <2>2, FramesReach, Geometry
  <2>4. QED
    BY <2>1, <2>3, <1>1 DEF i
<1>4. QED
  BY <1>1, <1>2, <1>3

(* No new mel frame is computed from samples the buffer no longer has.        *)
LEMMA NewFramesAre ==
  ASSUME StreamTypes, FrontEnd
  PROVE  /\ NewFrames \in Seq(Int)
         /\ Len(NewFrames) = FramesOf(audio.end) - mel.made
         /\ FramesOf(audio.end) - mel.made \in Nat
         /\ \A k \in 1 .. FramesOf(audio.end) - mel.made : NewFrames[k] = mel.made + k - 1
<1> DEFINE n == FramesOf(audio.end) - mel.made
<1>1. FramesOf(audio.end) \in Nat /\ mel.made \in Nat /\ audio.end \in Nat
  BY Fields, FramesReach
<1>2. n \in Nat
  BY <1>1 DEF FrontEnd
<1>3. ASSUME NEW k \in 1 .. n
      PROVE  Readable(mel.made + k - 1)
  <2> DEFINE i == mel.made + k - 1
  <2>1. i \in Nat /\ i < FramesOf(audio.end)
    BY <1>1
  <2> HIDE DEF i
  <2>2. i * Hop + Half <= audio.end
    BY <2>1, <1>1, FramesReach
  <2>3. QED
    BY <2>2 DEF Readable, FrontEnd, i
<1>4. NewFrames = [k \in 1 .. n |-> mel.made + k - 1]
  BY <1>3 DEF NewFrames
<1> HIDE DEF n
<1>5. [k \in 1 .. n |-> mel.made + k - 1] \in [1 .. n -> Int]
  BY <1>1, <1>2
<1>6. NewFrames \in Seq(Int) /\ Len(NewFrames) = n
  BY <1>2, <1>4, <1>5
<1>7. QED
  BY <1>2, <1>4, <1>6 DEF n

LEMMA Concatenated ==
  ASSUME NEW S, NEW s \in Seq(S), NEW t \in Seq(S)
  PROVE  /\ s \o t \in Seq(S) /\ Len(s \o t) = Len(s) + Len(t)
         /\ Len(s) \in Nat /\ Len(t) \in Nat
         /\ \A i \in 1 .. Len(s) : (s \o t)[i] = s[i]
         /\ \A i \in Len(s) + 1 .. Len(s) + Len(t) : (s \o t)[i] = t[i - Len(s)]
OBVIOUS

LEMMA Extended ==
  ASSUME StreamTypes, FrontEnd
  PROVE  /\ WithNewFrames \in Mels
         /\ WithNewFrames.base = mel.base /\ WithNewFrames.off = mel.off
         /\ WithNewFrames.made = FramesOf(audio.end)
         /\ Len(WithNewFrames.buf) = Len(mel.buf) + FramesOf(audio.end) - mel.made
         /\ \A i \in 1 .. Len(mel.buf) : WithNewFrames.buf[i] = mel.buf[i]
         /\ \A i \in Len(mel.buf) + 1 .. Len(mel.buf) + FramesOf(audio.end) - mel.made :
              WithNewFrames.buf[i] = mel.made + i - Len(mel.buf) - 1
<1>1. /\ mel.base \in Nat /\ mel.off \in Nat /\ mel.made \in Nat /\ audio.end \in Nat
      /\ mel.buf \in Seq(Int) /\ Len(mel.buf) \in Nat
  BY Fields
<1> DEFINE n == FramesOf(audio.end) - mel.made
           f == NewFrames
<1>2. /\ f \in Seq(Int) /\ Len(f) = n /\ n \in Nat
      /\ \A k \in 1 .. n : f[k] = mel.made + k - 1
  BY NewFramesAre
<1>3. FramesOf(audio.end) \in Nat
  BY <1>1, FramesReach
<1> DEFINE b == mel.buf \o f
           w == WithNewFrames
<1>4. mel \in Mels
  BY DEF StreamTypes
<1>5. /\ w.base = mel.base /\ w.off = mel.off
      /\ w.made = mel.made + n /\ w.buf = b
  BY <1>2, <1>4 DEF WithNewFrames, Mels
<1>6. /\ b \in Seq(Int) /\ Len(b) = Len(mel.buf) + n
      /\ \A i \in 1 .. Len(mel.buf) : b[i] = mel.buf[i]
      /\ \A i \in Len(mel.buf) + 1 .. Len(mel.buf) + n : b[i] = f[i - Len(mel.buf)]
  <2> HIDE DEF f, n
  <2>1. /\ b \in Seq(Int) /\ Len(b) = Len(mel.buf) + Len(f)
        /\ \A i \in 1 .. Len(mel.buf) : b[i] = mel.buf[i]
        /\ \A i \in Len(mel.buf) + 1 .. Len(mel.buf) + Len(f) : b[i] = f[i - Len(mel.buf)]
    BY <1>1, <1>2, Concatenated, ZenonT(40)
  <2> HIDE DEF b
  <2>2. QED
    BY <1>2, <2>1
<1> HIDE DEF f
<1>7. ASSUME NEW i \in Len(mel.buf) + 1 .. Len(mel.buf) + n
      PROVE  b[i] = mel.made + i - Len(mel.buf) - 1
  <2>1. i - Len(mel.buf) \in 1 .. n /\ i \in Int
    BY <1>1, <1>2
  <2>2. f[i - Len(mel.buf)] = mel.made + (i - Len(mel.buf)) - 1
    BY <2>1, <1>2
  <2>3. QED
    BY <2>1, <2>2, <1>1, <1>6
<1>8. w \in Mels
  <2>1. mel.made + n \in Nat
    BY <1>1, <1>2
  <2> HIDE DEF b, n
  <2>2. QED
    BY <1>2, <1>4, <1>6, <2>1 DEF WithNewFrames, Mels, b, f
<1>9. Len(mel.buf) + n = Len(mel.buf) + FramesOf(audio.end) - mel.made
  BY <1>1, <1>3
<1>10. mel.made + n = FramesOf(audio.end)
  BY <1>1, <1>3
<1> HIDE DEF n, b
<1>11. QED
  BY <1>5, <1>6, <1>7, <1>8, <1>9, <1>10
-----------------------------------------------------------------------------
LEMMA FrameAtIs ==
  ASSUME NEW made \in Nat, NEW m \in Int
  PROVE  /\ FrameAt(made, m) \in Int
         /\ m < 0 => FrameAt(made, m) = Pad
         /\ m >= made => FrameAt(made, m) = Pad
BY DEF FrameAt, Pad

LEMMA SeesAtIs ==
  ASSUME NEW made \in Nat, NEW f \in Int
  PROVE  SeesAt(made, f) \in Seq(Int)
<1>1. 2 * Sub - 1 \in Nat
  BY Geometry
<1>2. f * Sub - (2 * Sub - 1) \in Int
  BY Geometry
<1> DEFINE n == 2 * Sub - 1
           o == f * Sub - n
<1>3. SeesAt(made, f) = [j \in 1 .. n |-> FrameAt(made, o + j)]
  BY DEF SeesAt
<1> HIDE DEF n, o
<1>4. \A j \in 1 .. n : FrameAt(made, o + j) \in Int
  BY <1>1, <1>2, FrameAtIs DEF n, o
<1>5. [j \in 1 .. n |-> FrameAt(made, o + j)] \in [1 .. n -> Int]
  BY <1>4
<1>6. QED
  BY <1>1, <1>3, <1>5, SeqDef DEF n

(* New mel frames change nothing that a decoded frame was computed from.      *)
LEMMA SeesAtStays ==
  ASSUME NEW made \in Nat, NEW more \in Nat, NEW f \in Int, f * Sub < made, made <= more
  PROVE  SeesAt(made, f) = SeesAt(more, f)
<1>1. f * Sub \in Int /\ Sub \in Nat \ {0}
  BY Geometry
<1>2. ASSUME NEW j \in 1 .. 2 * Sub - 1
      PROVE  FrameAt(made, f * Sub - (2 * Sub - 1) + j) = FrameAt(more, f * Sub - (2 * Sub - 1) + j)
  <2> DEFINE m == f * Sub - (2 * Sub - 1) + j
  <2>1. m \in Int /\ m < made
    BY <1>1
  <2> HIDE DEF m
  <2>2. FrameAt(made, m) = FrameAt(more, m)
    BY <2>1 DEF FrameAt
  <2>3. QED
    BY <2>2 DEF m
<1>3. QED
  BY <1>2 DEF SeesAt

(* The elements of s after the first a, up to the b-th.                       *)
Slice(s, a, b) == SubSeq(s, a + 1, b)

LEMMA SliceIs ==
  ASSUME NEW S, NEW s \in Seq(S), NEW a \in Nat, NEW b \in Nat, a <= b, b <= Len(s)
  PROVE  /\ Slice(s, a, b) \in Seq(S) /\ Len(Slice(s, a, b)) = b - a
         /\ \A i \in 1 .. b - a : Slice(s, a, b)[i] = s[a + i]
<1>1. Len(s) \in Nat
  OBVIOUS
<1>2. Slice(s, a, b) = [i \in 1 .. b - a |-> s[a + i]]
  <2>1. SubSeq(s, a + 1, b) = [i \in 1 .. (1 + b) - (a + 1) |-> s[i + (a + 1) - 1]]
    BY <1>1
  <2>2. (1 + b) - (a + 1) = b - a /\ \A i \in 1 .. b - a : i + (a + 1) - 1 = a + i
    OBVIOUS
  <2>3. QED
    BY <2>1, <2>2 DEF Slice
<1>3. [i \in 1 .. b - a |-> s[a + i]] \in [1 .. b - a -> S]
  BY <1>1
<1>4. QED
  BY <1>2, <1>3, SeqDef

LEMMA CacheFramesAre ==
  ASSUME StreamTypes, IsCache, Holds(mel, dec), Len(mel.buf) - mel.off >= NextChunkMel
  PROVE  /\ CacheFrames \in Seq(Frames) /\ Len(CacheFrames) = ChunkFrames
         /\ \A k \in 1 .. ChunkFrames :
              /\ CacheFrames[k].at = dec.frames + k - 1
              /\ CacheFrames[k].sees = SeesAt(mel.made, dec.frames + k - 1)
<1> DEFINE w == SubSeq(mel.buf, mel.off + 1, mel.off + NextChunkMel)
           right == cfg.right
           F == dec.frames
<1>1. /\ mel.off \in Nat /\ mel.made \in Nat /\ mel.buf \in Seq(Int) /\ Len(mel.buf) \in Nat
      /\ F \in Nat /\ dec.first \in BOOLEAN
      /\ right \in Nat /\ ChunkFrames \in Nat /\ ChunkFrames = 1 + right
      /\ Sub \in Nat \ {0} /\ PreEncode \in Nat /\ PreEncode = Sub + 1
  BY Fields, Geometry
<1> DEFINE N == NextChunkMel
           W == Sub * right
           C == Sub * ChunkFrames
<1> HIDE DEF w, F, right
<1>2. /\ W \in Nat /\ C = Sub + W
      /\ N = IF dec.first THEN 1 + W ELSE 2 * Sub + 1 + W
  <2>1. W \in Nat
    BY <1>1
  <2>2. C = Sub * (1 + right)
    BY <1>1
  <2>3. Sub * (1 + right) = Sub + Sub * right
    BY <1>1, Distribute
  <2>4. N = IF dec.first THEN 1 + W ELSE PreEncode + C
    BY DEF NextChunkMel, right
  <2> HIDE DEF W, C, N
  <2>5. QED
    BY <2>1, <2>2, <2>3, <2>4, <1>1 DEF W
<1> HIDE DEF W, C, N
<1>3. N \in Nat
  BY <1>1, <1>2 DEF N
<1>4. \A i \in 1 .. N : w[i] = FrameAt(mel.made, HeadFrame(dec) + i - 1)
  <2>1. mel.off + N \in Nat /\ mel.off <= mel.off + N /\ mel.off + N <= Len(mel.buf)
    BY <1>1, <1>3 DEF N
  <2>2. \A i \in 1 .. (mel.off + N) - mel.off : w[i] = mel.buf[mel.off + i]
    <3>1. w = Slice(mel.buf, mel.off, mel.off + N)
      BY DEF w, N, Slice
    <3>2. mel.buf \in Seq(Int) /\ mel.off \in Nat
      BY <1>1
    <3>3. \A i \in 1 .. (mel.off + N) - mel.off :
            Slice(mel.buf, mel.off, mel.off + N)[i] = mel.buf[mel.off + i]
      BY <2>1, <3>2, SliceIs, ZenonT(40)
    <3>4. QED
      BY <3>1, <3>3
  <2>3. (mel.off + N) - mel.off = N /\ N <= Len(mel.buf) - mel.off
    BY <1>1, <1>3, <2>1
  <2>4. \A i \in 1 .. N : i \in 1 .. Len(mel.buf) - mel.off
    BY <1>1, <1>3, <2>3
  <2>5. \A i \in 1 .. Len(mel.buf) - mel.off :
          mel.buf[mel.off + i] = FrameAt(mel.made, HeadFrame(dec) + i - 1)
    BY DEF Holds
  <2>6. QED
    BY <2>2, <2>3, <2>4, <2>5
<1>5. ASSUME NEW k \in 0 .. right
      PROVE  Field(w, k) = SeesAt(mel.made, F + k)
  <2> DEFINE end  == IF dec.first THEN k * Sub ELSE PreEncode - 1 + (k + 1) * Sub
             span == 2 * Sub - 1
             H    == HeadFrame(dec)
  <2>1. k \in Nat /\ k * Sub \in Nat /\ k * Sub <= right * Sub /\ right * Sub = W
        /\ right * Sub \in Nat
    <3>1. k \in Nat /\ k <= right
      BY <1>1
    <3>2. k * Sub <= right * Sub
      BY <3>1, <1>1, TimesMonotone
    <3>3. right * Sub = W /\ k * Sub \in Nat
      BY <3>1, <1>1 DEF W
    <3>4. QED
      BY <3>1, <3>2, <3>3, <1>2
  <2>2. (k + 1) * Sub = k * Sub + Sub
    BY <2>1, <1>1
  <2>3. end \in Nat /\ end + 1 <= N
    BY <1>1, <1>2, <2>1, <2>2
  <2>4. H + end = (F + k) * Sub /\ H \in Int
    <3>1. CASE dec.first
      <4>1. F = 0
        BY <3>1 DEF Holds, F
      <4>2. QED
        BY <3>1, <4>1, <2>1, <1>1 DEF HeadFrame
    <3>2. CASE ~dec.first
      <4>1. H = (F - 2) * Sub
        BY <3>2 DEF HeadFrame, F
      <4>2. (F - 2) * Sub = F * Sub - 2 * Sub /\ (F + k) * Sub = F * Sub + k * Sub
            /\ F * Sub \in Int /\ 2 * Sub \in Int
        BY <1>1, <2>1, Distribute
      <4>3. end = Sub + (k * Sub + Sub)
        BY <3>2, <2>2, <1>1
      <4> HIDE DEF H, end
      <4>4. QED
        BY <4>1, <4>2, <4>3, <2>1, <1>1
    <3>3. QED
      BY <3>1, <3>2, <1>1
  <2>5. dec.first => H = 0
    BY DEF HeadFrame
  <2>6. ~dec.first => end >= 2 * Sub
    BY <2>1, <2>2, <1>1
  <2>7. Field(w, k) = [j \in 1 .. span |-> IF end - span + j < 0 THEN Pad ELSE w[end - span + j + 1]]
    BY DEF Field
  <2>8. span \in Nat
    BY <1>1
  <2> HIDE DEF end, span, H
  <2>9. ASSUME NEW j \in 1 .. span
        PROVE  (IF end - span + j < 0 THEN Pad ELSE w[end - span + j + 1])
                 = FrameAt(mel.made, (F + k) * Sub - span + j)
    <3> DEFINE i == end - span + j
    <3>1. i \in Int /\ i <= end
      BY <2>3, <2>8
    <3>2. (F + k) * Sub - span + j = H + i
      BY <2>3, <2>4, <2>8
    <3>3. CASE i < 0
      <4>1. dec.first
        BY <3>3, <2>6, <2>8, <2>3, <1>1 DEF span
      <4>2. H + i < 0 /\ H + i \in Int
        BY <4>1, <2>5, <3>1, <3>3
      <4>3. FrameAt(mel.made, H + i) = Pad
        BY <4>2, <1>1, FrameAtIs
      <4>4. QED
        BY <3>2, <3>3, <4>3
    <3>4. CASE i >= 0
      <4>1. i + 1 \in 1 .. N
        BY <3>1, <3>4, <2>3, <1>3
      <4>2. w[i + 1] = FrameAt(mel.made, H + (i + 1) - 1)
        BY <4>1, <1>4 DEF H
      <4>3. H + (i + 1) - 1 = H + i
        BY <2>4, <3>1
      <4>4. QED
        BY <3>1, <3>2, <3>4, <4>2, <4>3
    <3>5. QED
      BY <3>1, <3>3, <3>4
  <2>10. QED
    BY <2>7, <2>9 DEF SeesAt, span
<1>6. ASSUME NEW k \in 1 .. ChunkFrames
      PROVE  /\ [at |-> F + k - 1, sees |-> Field(w, k - 1)] \in Frames
             /\ Field(w, k - 1) = SeesAt(mel.made, F + k - 1)
  <2>1. k - 1 \in 0 .. right /\ F + (k - 1) = F + k - 1 /\ F + k - 1 \in Int
    BY <1>1
  <2>2. Field(w, k - 1) = SeesAt(mel.made, F + k - 1)
    BY <2>1, <1>5
  <2>3. SeesAt(mel.made, F + k - 1) \in Seq(Int)
    BY <2>1, <1>1, SeesAtIs
  <2>4. QED
    BY <2>1, <2>2, <2>3 DEF Frames
<1>7. CacheFrames = [k \in 1 .. ChunkFrames |-> [at |-> F + k - 1, sees |-> Field(w, k - 1)]]
  BY DEF CacheFrames, w, F
<1>8. CacheFrames \in [1 .. ChunkFrames -> Frames]
  BY <1>6, <1>7
<1>9. CacheFrames \in Seq(Frames) /\ Len(CacheFrames) = ChunkFrames
  BY <1>8, <1>1, SeqDef
<1>10. QED
  BY <1>6, <1>7, <1>9 DEF F
LEMMA ChunkSizes ==
  ASSUME StreamTypes
  PROVE  /\ cfg.right \in Nat /\ Sub * cfg.right \in Nat
         /\ Sub * ChunkFrames = Sub + Sub * cfg.right
         /\ NextChunkMel \in Nat /\ NextChunkMel >= 1
         /\ dec.first => NextChunkMel = 1 + Sub * cfg.right
         /\ ~dec.first => NextChunkMel = PreEncode + Sub * ChunkFrames
<1> DEFINE right == cfg.right
           W == Sub * right
           C == Sub * ChunkFrames
<1>1. /\ right \in Nat /\ dec.first \in BOOLEAN
      /\ ChunkFrames \in Nat /\ ChunkFrames = 1 + right
      /\ Sub \in Nat \ {0} /\ PreEncode \in Nat /\ PreEncode = Sub + 1
  BY Fields, Geometry
<1> HIDE DEF right
<1>2. W \in Nat
  BY <1>1
<1>3. C = Sub * (1 + right)
  BY <1>1
<1>4. Sub * (1 + right) = Sub + Sub * right
  BY <1>1, Distribute
<1>5. NextChunkMel = IF dec.first THEN 1 + W ELSE PreEncode + C
  BY DEF NextChunkMel, right
<1>6. C = Sub + W
  BY <1>3, <1>4
<1> HIDE DEF W, C
<1>7. NextChunkMel \in Nat /\ NextChunkMel >= 1
  BY <1>1, <1>2, <1>5, <1>6
<1>8. QED
  BY <1>1, <1>2, <1>5, <1>6, <1>7 DEF W, C, right

(* Where the buffer of the cache runner starts after a chunk.                 *)
LEMMA NextHead ==
  ASSUME StreamTypes, Holds(mel, dec),
         NEW d \in Decodings, d.first = FALSE, d.frames = dec.frames + ChunkFrames
  PROVE  /\ HeadFrame(dec) \in Int /\ HeadFrame(d) \in Int
         /\ ~dec.first => HeadFrame(d) = HeadFrame(dec) + Sub * ChunkFrames
         /\ dec.first => HeadFrame(dec) = 0 /\ HeadFrame(d) = Sub * cfg.right - Sub
<1> DEFINE F == dec.frames
           c == ChunkFrames
           H == HeadFrame(d)
           right == cfg.right
<1>1. F \in Nat /\ c \in Nat /\ Sub \in Nat \ {0} /\ right \in Nat /\ c = 1 + right
  BY Fields, Geometry
<1>2. H = (F + c - 2) * Sub
  <2>1. H = (d.frames - 2) * Sub /\ d.frames = F + c
    BY DEF HeadFrame
  <2> HIDE DEF H, F, c
  <2>2. QED
    BY <1>1, <2>1
<1> HIDE DEF F, c, H, right
<1>3. H = (F - 2) * Sub + c * Sub /\ c * Sub = Sub * c /\ (F - 2) * Sub \in Int /\ Sub * c \in Int
  <2>1. F - 2 \in Int /\ F + c - 2 = (F - 2) + c
    BY <1>1
  <2>2. ((F - 2) + c) * Sub = (F - 2) * Sub + c * Sub
    BY <2>1, <1>1, Distribute
  <2>3. QED
    BY <1>1, <1>2, <2>1, <2>2
<1>4. CASE dec.first
  <2>1. F = 0
    BY <1>4 DEF Holds, F
  <2>2. H = (right - 1) * Sub
    <3>1. F + c - 2 = right - 1
      BY <1>1, <2>1
    <3>2. QED
      BY <3>1, <1>2
  <2>3. (right - 1) * Sub = right * Sub - 1 * Sub /\ right * Sub = Sub * right /\ Sub * right \in Int
    BY <1>1, Distribute
  <2>4. H = Sub * right - Sub /\ H \in Int
    BY <2>2, <2>3, <1>1
  <2>5. QED
    BY <1>4, <2>4 DEF HeadFrame, H, right
<1>5. CASE ~dec.first
  <2>1. HeadFrame(dec) = (F - 2) * Sub
    BY <1>5 DEF HeadFrame, F
  <2>2. H = HeadFrame(dec) + Sub * c /\ H \in Int /\ HeadFrame(dec) \in Int
    BY <2>1, <1>3, <1>1
  <2>3. QED
    BY <1>5, <2>2 DEF H, c
<1>6. QED
  BY <1>4, <1>5

LEMMA AfterChunkIs ==
  ASSUME StreamTypes, Holds(mel, dec), Len(mel.buf) - mel.off >= NextChunkMel,
         NEW d \in Decodings, d.first = FALSE, d.frames = dec.frames + ChunkFrames
  PROVE  /\ AfterChunkMel \in Mels
         /\ AfterChunkMel.made = mel.made
         /\ Holds(AfterChunkMel, d)
         /\ Len(AfterChunkMel.buf) - AfterChunkMel.off + HeadFrame(d)
              = Len(mel.buf) - mel.off + HeadFrame(dec)
         /\ Len(AfterChunkMel.buf) - AfterChunkMel.off >= PreEncode
<1> DEFINE m == AfterChunkMel
           N == NextChunkMel
           W == Sub * cfg.right
           C == Sub * ChunkFrames
           H == HeadFrame(dec)
           K == HeadFrame(d)
           made == mel.made
<1>1. /\ mel.off \in Nat /\ made \in Nat /\ mel.buf \in Seq(Int) /\ Len(mel.buf) \in Nat
      /\ dec.first \in BOOLEAN /\ Sub \in Nat \ {0} /\ PreEncode \in Nat /\ PreEncode = Sub + 1
  BY Fields, Geometry
<1>2. /\ W \in Nat /\ C = Sub + W /\ N \in Nat /\ N >= 1
      /\ dec.first => N = 1 + W
      /\ ~dec.first => N = PreEncode + C
  BY ChunkSizes
<1>3. /\ H \in Int /\ K \in Int
      /\ ~dec.first => K = H + C
      /\ dec.first => H = 0 /\ K = W - Sub
  BY NextHead
<1>4. mel \in Mels
  BY DEF StreamTypes
<1>5. /\ mel.off <= Len(mel.buf) /\ (dec.first => mel.off = 0)
      /\ \A j \in 1 .. Len(mel.buf) - mel.off : mel.buf[mel.off + j] = FrameAt(made, H + j - 1)
  BY DEF Holds
<1>6. Len(mel.buf) - mel.off >= N
  OBVIOUS
<1> HIDE DEF N, W, C, H, K, made
<1>8. ASSUME NEW o \in Nat, o <= Len(mel.buf), o - mel.off = K - H, o >= mel.off,
             Len(mel.buf) - o >= PreEncode,
             m = [mel EXCEPT !.off = o]
      PROVE  /\ m \in Mels /\ m.made = made /\ Holds(m, d)
             /\ Len(m.buf) - m.off + K = Len(mel.buf) - mel.off + H
             /\ Len(m.buf) - m.off >= PreEncode
  <2>1. m \in Mels /\ m.made = made /\ m.off = o /\ m.buf = mel.buf
    BY <1>4, <1>8 DEF Mels, made
  <2> HIDE DEF m
  <2>2. ASSUME NEW j \in 1 .. Len(mel.buf) - o
        PROVE  mel.buf[o + j] = FrameAt(made, K + j - 1)
    <3> DEFINE i == (o - mel.off) + j
    <3>a. o \in Nat /\ mel.off \in Nat /\ o >= mel.off /\ o <= Len(mel.buf) /\ Len(mel.buf) \in Nat
      BY <1>1, <1>8
    <3>b. o - mel.off = K - H /\ K \in Int /\ H \in Int
      BY <1>3, <1>8
    <3>c. i \in 1 .. Len(mel.buf) - mel.off
      BY <3>a, <3>b
    <3>d. mel.off + i = o + j
      BY <3>a, <3>b
    <3>e. H + i - 1 = K + j - 1
      BY <3>a, <3>b
    <3>1. i \in 1 .. Len(mel.buf) - mel.off /\ mel.off + i = o + j /\ H + i - 1 = K + j - 1
      BY <3>c, <3>d, <3>e
    <3> HIDE DEF i
    <3>2. mel.buf[mel.off + i] = FrameAt(made, H + i - 1)
      BY <3>1, <1>5
    <3>3. QED
      BY <3>1, <3>2
  <2>3. Holds(m, d)
    BY <2>1, <2>2, <1>8 DEF Holds, K
  <2>a. o \in Nat /\ mel.off \in Nat /\ Len(mel.buf) \in Nat
    BY <1>1, <1>8
  <2>b. o - mel.off = K - H /\ K \in Int /\ H \in Int
    BY <1>3, <1>8
  <2>4. Len(mel.buf) - o + K = Len(mel.buf) - mel.off + H
    BY <2>a, <2>b
  <2>5. QED
    BY <2>1, <2>3, <2>4, <1>8
<1>9. CASE ~dec.first
  <2> DEFINE o == mel.off + C
  <2>1. m = [mel EXCEPT !.off = Smaller(mel.off + C, Len(mel.buf))]
    BY <1>9, <1>4 DEF AfterChunkMel, Mels, C
  <2>2. C \in Nat /\ N = PreEncode + C /\ K = H + C
    BY <1>1, <1>2, <1>3, <1>9
  <2> HIDE DEF m
  <2>3. Smaller(mel.off + C, Len(mel.buf)) = o
    BY <2>2, <1>1, <1>6 DEF Smaller
  <2>4. o \in Nat /\ o <= Len(mel.buf) /\ o - mel.off = K - H /\ o >= mel.off
        /\ Len(mel.buf) - o >= PreEncode
    BY <2>2, <1>1, <1>2, <1>3, <1>6, SMTT(30)
  <2> HIDE DEF o
  <2>5. m = [mel EXCEPT !.off = o]
    BY <2>1, <2>3 DEF o
  <2>6. QED
    BY <1>8, <2>4, <2>5 DEF m, H, K, made
<1>10. CASE dec.first /\ N >= PreEncode
  <2> DEFINE o == mel.off + N - PreEncode
  <2>1. m = [mel EXCEPT !.off = mel.off + N - PreEncode]
    <3>1. ~(N < PreEncode)
      BY <1>1, <1>2, <1>10
    <3>2. QED
      BY <1>10, <3>1, <1>4 DEF AfterChunkMel, Mels, N
  <2>2. N = 1 + W /\ K = W - Sub /\ H = 0
    BY <1>2, <1>3, <1>10
  <2> HIDE DEF m
  <2>3. o \in Nat /\ o <= Len(mel.buf) /\ o - mel.off = K - H /\ o >= mel.off
        /\ Len(mel.buf) - o >= PreEncode
    BY <2>2, <1>1, <1>2, <1>3, <1>6, <1>10
  <2> HIDE DEF o
  <2>4. m = [mel EXCEPT !.off = o]
    BY <2>1 DEF o
  <2>5. QED
    BY <1>8, <2>3, <2>4 DEF m, H, K, made
<1>11. CASE dec.first /\ N < PreEncode
  <2> DEFINE z == [i \in 1 .. PreEncode - N |-> Pad]
             rest == Slice(mel.buf, mel.off, Len(mel.buf))
             b == z \o rest
             p == PreEncode - N
             L == Len(mel.buf)
  <2>1. m = [mel EXCEPT !.off = 0, !.buf = b]
    BY <1>11, <1>4 DEF AfterChunkMel, Mels, Slice, N
  <2>2. mel.off = 0 /\ N = 1 + W /\ K = W - Sub /\ H = 0 /\ p = -K /\ p \in Nat /\ p = PreEncode - N
    <3>1. mel.off = 0 /\ N = 1 + W /\ K = W - Sub /\ H = 0
      BY <1>2, <1>3, <1>5, <1>11
    <3>2. QED
      BY <3>1, <1>1, <1>2, <1>11
  <2>3. z \in Seq(Int) /\ Len(z) = p /\ \A i \in 1 .. p : z[i] = Pad
    <3>1. z \in [1 .. p -> Int]
      BY DEF Pad
    <3>2. QED
      BY <3>1, <2>2, SeqDef
  <2>4. rest \in Seq(Int) /\ Len(rest) = L /\ \A i \in 1 .. L : rest[i] = mel.buf[i]
    <3>1. 0 \in Nat /\ L \in Nat /\ 0 <= L /\ L <= Len(mel.buf) /\ mel.buf \in Seq(Int)
      BY <1>1
    <3>2. rest = Slice(mel.buf, 0, L)
      BY <2>2
    <3> HIDE DEF rest, L
    <3>3. /\ Slice(mel.buf, 0, L) \in Seq(Int) /\ Len(Slice(mel.buf, 0, L)) = L - 0
          /\ \A i \in 1 .. L - 0 : Slice(mel.buf, 0, L)[i] = mel.buf[0 + i]
      BY <3>1, SliceIs, Zenon
    <3>4. L - 0 = L /\ \A i \in 1 .. L : 0 + i = i
      BY <3>1
    <3>5. QED
      BY <3>2, <3>3, <3>4
  <2> HIDE DEF z, rest, p, m
  <2>5. b \in Seq(Int) /\ Len(b) = p + L
    BY <2>3, <2>4, Concatenated
  <2>6. \A i \in 1 .. p : b[i] = Pad
    BY <2>3, <2>4, Concatenated
  <2>7. \A i \in p + 1 .. p + L : b[i] = rest[i - p]
    BY <2>3, <2>4, Concatenated, SMTT(30)
  <2> HIDE DEF b
  <2>8. m \in Mels /\ m.made = made /\ m.off = 0 /\ m.buf = b
    <3>1. 0 \in Nat
      OBVIOUS
    <3>2. QED
      BY <2>1, <2>5, <1>4 DEF Mels, made
  <2>9. ASSUME NEW j \in 1 .. p + L
        PROVE  b[j] = FrameAt(made, K + j - 1)
    <3>1. CASE j <= p
      <4>1. b[j] = Pad
        BY <3>1, <2>2, <2>6
      <4>2. K + j - 1 < 0 /\ K + j - 1 \in Int
        BY <3>1, <2>2, <1>3
      <4>3. QED
        BY <4>1, <4>2, <1>1, FrameAtIs
    <3>2. CASE j > p
      <4>1. j - p \in 1 .. L /\ j \in p + 1 .. p + L /\ K + j - 1 = 0 + (j - p) - 1
        <5>1. p \in Nat /\ K = -p /\ L \in Nat /\ j \in 1 .. p + L
          BY <2>2, <1>1, <1>3
        <5> HIDE DEF L
        <5>2. QED
          BY <3>2, <5>1
      <4>2. b[j] = rest[j - p] /\ rest[j - p] = mel.buf[j - p]
        BY <4>1, <2>4, <2>7
      <4>3. mel.off + (j - p) = j - p /\ j - p \in 1 .. Len(mel.buf) - mel.off
        BY <4>1, <2>2, <1>1
      <4>4. mel.buf[mel.off + (j - p)] = FrameAt(made, H + (j - p) - 1)
        BY <4>3, <1>5
      <4>5. QED
        BY <4>1, <4>2, <4>3, <4>4, <2>2
    <3>3. QED
      BY <3>1, <3>2, <2>2
  <2>10. Len(b) - 0 = p + L /\ \A j \in Int : 0 + j = j
    BY <2>2, <2>5, <1>1
  <2>11. Holds(m, d)
    <3>1. 0 <= Len(b)
      BY <2>2, <2>5, <1>1
    <3>2. QED
      BY <2>8, <2>9, <2>10, <3>1 DEF Holds, K
  <2>12. Len(b) - 0 + K = L - mel.off + H /\ Len(b) - 0 >= PreEncode
    BY <2>2, <2>5, <1>1, <1>2, <1>3, <1>6
  <2>13. QED
    BY <2>8, <2>11, <2>12 DEF m, K, H, made
<1>12. QED
  BY <1>1, <1>2, <1>9, <1>10, <1>11
-----------------------------------------------------------------------------
LEMMA LargerIs ==
  ASSUME NEW a \in Int, NEW b \in Int
  PROVE  /\ Larger(a, b) \in Int /\ Larger(a, b) >= a /\ Larger(a, b) >= b
         /\ Larger(a, b) = a \/ Larger(a, b) = b
BY DEF Larger

LEMMA SmallerIs ==
  ASSUME NEW a \in Int, NEW b \in Int
  PROVE  /\ Smaller(a, b) \in Int /\ Smaller(a, b) <= a /\ Smaller(a, b) <= b
         /\ Smaller(a, b) = a \/ Smaller(a, b) = b
BY DEF Smaller

(* How many chunks a whole number of encoder frames is, and the left context. *)
LEMMA WholeFrames ==
  ASSUME NEW x \in Nat, x % FrameSamples = 0
  PROVE  /\ x \div FrameSamples \in Nat
         /\ x = (x \div FrameSamples) * FrameSamples
BY Geometry, WholeQuotient

LEMMA InHops ==
  ASSUME NEW n \in Int
  PROVE  /\ n * Sub \in Int /\ n * FrameSamples \in Int
         /\ n * FrameSamples = (n * Sub) * Hop
<1>1. Sub \in Nat /\ Hop \in Nat /\ FrameSamples = Sub * Hop
  BY Geometry
<1>2. n * (Sub * Hop) = (n * Sub) * Hop
  BY <1>1
<1>3. n * Sub \in Int
  BY <1>1
<1>4. (n * Sub) * Hop \in Int
  BY <1>1, <1>3
<1>5. QED
  BY <1>1, <1>2, <1>3, <1>4

(* A cursor at the end of n encoder frames: the left edge of its window is    *)
(* the end of a frames, and the frames between them are skipped.              *)
LEMMA EdgeIs ==
  ASSUME WholeFrameWindows, NEW n \in Nat, n * FrameSamples = dec.start
  PROVE  \E a \in Nat : /\ a <= n /\ LeftEdge = a * FrameSamples
                        /\ LeftEdge \div Hop = a * Sub
                        /\ Skip(LeftEdge) = n - a
<1> DEFINE FS == FrameSamples
           l == Left \div FS
           c == Chunk \div FS
           a == Larger(0, n - l)
<1>1. l \in Nat /\ Left = l * FS /\ c \in Nat /\ Chunk = c * FS
  BY Geometry, WholeFrames DEF WholeFrameWindows
<1>2. FS \in Nat \ {0} /\ Hop \in Nat \ {0} /\ Sub \in Nat \ {0} /\ FS = Sub * Hop /\ Chunk \in Nat \ {0}
      /\ Left \in Nat
  BY Geometry
<1> HIDE DEF FS, l, c
<1>3. a \in Nat /\ a <= n /\ ((a = 0 /\ n - l <= 0) \/ (a = n - l /\ n - l >= 0))
  <2>1. n - l \in Int /\ n - l <= n
    BY <1>1
  <2>2. CASE n - l < 0
    <3>1. a = 0
      BY <2>1, <2>2 DEF Larger
    <3> HIDE DEF a
    <3>2. n - l <= 0
      BY <2>1, <2>2
    <3>3. a \in Nat /\ a <= n
      BY <3>1
    <3>4. QED
      BY <3>1, <3>2, <3>3
  <2>3. CASE n - l >= 0
    <3>1. a = n - l
      BY <2>1, <2>3 DEF Larger
    <3> HIDE DEF a
    <3>2. QED
      BY <3>1, <2>1, <2>3
  <2>4. QED
    BY <2>1, <2>2, <2>3
<1>4. (n - l) * FS = n * FS - l * FS /\ n * FS \in Int /\ l * FS \in Int
  BY <1>1, <1>2, Distribute
<1>5. LeftEdge = a * FS
  <2>1. n * FS = dec.start
    BY DEF FS
  <2>2. LeftEdge = Larger(0, (n - l) * FS)
    BY <2>1, <1>1, <1>4 DEF LeftEdge
  <2>3. CASE n - l >= 0
    <3>1. 0 * FS <= (n - l) * FS
      BY <2>3, <1>1, <1>2, TimesMonotone
    <3>2. a = n - l
      BY <2>3, <1>1, <1>3
    <3>3. 0 * FS = 0
      BY <1>2
    <3> HIDE DEF a
    <3>4. QED
      BY <2>2, <3>1, <3>2, <3>3, <1>4 DEF Larger
  <2>4. CASE n - l < 0
    <3>1. (n - l) * FS <= 0 * FS
      BY <2>4, <1>1, <1>2, TimesMonotone
    <3>2. a = 0 /\ 0 * FS = 0
      BY <2>4, <1>1, <1>2, <1>3
    <3> HIDE DEF a
    <3>3. QED
      BY <2>2, <3>1, <3>2, <1>4 DEF Larger
  <2>5. QED
    BY <2>3, <2>4, <1>1
<1> HIDE DEF a
<1>6. LeftEdge \div Hop = a * Sub
  <2>1. a * FS = (a * Sub) * Hop /\ a * Sub \in Int
    BY <1>3, InHops DEF FS
  <2>2. QED
    BY <2>1, <1>2, <1>5, QuotientIs
<1>7. Skip(LeftEdge) = n - a
  <2>1. dec.start - LeftEdge = (n - a) * FS
    <3>1. (n - a) * FS = n * FS - a * FS
      BY <1>2, <1>3, Distribute
    <3>2. QED
      BY <3>1, <1>5 DEF FS
  <2>2. ((n - a) * FS) * c = (n - a) * (c * FS)
    BY <1>1, <1>2, <1>3
  <2>3. ((n - a) * Chunk) \div Chunk = n - a
    BY <1>2, <1>3, QuotientIs
  <2>4. Skip(LeftEdge) = ((n - a) * Chunk) \div Chunk
    BY <2>1, <2>2, <1>1 DEF Skip, c, FS
  <2>5. QED
    BY <2>3, <2>4
<1>8. QED
  BY <1>3, <1>5, <1>6, <1>7 DEF FS

(* The frames of a window that are past the cursor, and those it emits.       *)
Available(lo, hi) ==
  Larger(0, (Larger(0, Smaller((hi - lo) \div Hop + 1, WithNewFrames.made - lo \div Hop))
             + Sub - 1) \div Sub - Skip(lo))

Emitted(lo, hi, last) ==
  IF last THEN Available(lo, hi) ELSE Smaller(Chunk \div FrameSamples, Available(lo, hi))

LEMMA AvailableIs ==
  ASSUME StreamTypes, FrontEnd, NEW n \in Nat, NEW hi \in Int,
         NEW a \in Nat, a <= n, LeftEdge = a * FrameSamples,
         LeftEdge \div Hop = a * Sub, Skip(LeftEdge) = n - a
  PROVE  /\ Available(LeftEdge, hi) \in Nat
         /\ \A t \in 1 .. Available(LeftEdge, hi) : (n + t - 1) * Sub < FramesOf(audio.end)
         /\ \A b \in Nat :
              /\ b * Sub < FramesOf(audio.end)
              /\ (b - a) * Sub <= (hi - LeftEdge) \div Hop
              => b - n < Available(LeftEdge, hi)
<1> DEFINE M == FramesOf(audio.end)
           x == (hi - LeftEdge) \div Hop
           A == Available(LeftEdge, hi)
           r == Larger(0, Smaller(x + 1, M - a * Sub))
           q == (r + Sub - 1) \div Sub
<1>1. Sub \in Nat \ {0} /\ Hop \in Nat \ {0} /\ FrameSamples \in Nat
  BY Geometry
<1>2. M \in Nat
  BY Fields, FramesReach
<1>3. a * Sub \in Nat /\ a * FrameSamples \in Int
  BY <1>1
<1>4. x \in Int
  <2>1. hi - LeftEdge \in Int
    BY <1>3
  <2>2. QED
    BY <2>1, <1>1, Quotient
<1>5. WithNewFrames.made = M
  BY Extended
<1>6. A = Larger(0, q - (n - a))
  BY <1>5 DEF Available
<1> HIDE DEF M, x, A
<1>7. r \in Nat /\ (r > 0 => r <= M - a * Sub /\ r <= x + 1)
      /\ (r >= M - a * Sub \/ r >= x + 1)
  BY <1>2, <1>3, <1>4 DEF Larger, Smaller
<1> HIDE DEF r
<1>8. q \in Int /\ q * Sub <= r + Sub - 1 /\ r + Sub - 1 < q * Sub + Sub /\ q * Sub \in Int
  BY <1>1, <1>7, Quotient
<1> HIDE DEF q
<1>9. A \in Nat /\ A >= q - (n - a) /\ (A > 0 => A = q - (n - a))
  BY <1>6, <1>8 DEF Larger
<1>10. ASSUME NEW t \in 1 .. A
       PROVE  (n + t - 1) * Sub < M
  <2>1. A = q - (n - a) /\ t \in Int /\ n + t - 1 <= (q + a) - 1 /\ q >= 1
    BY <1>8, <1>9
  <2>2. (n + t - 1) * Sub <= ((q + a) - 1) * Sub
    BY <2>1, <1>1, <1>8, TimesMonotone
  <2>3. ((q + a) - 1) * Sub = (q + a) * Sub - 1 * Sub /\ (q + a) * Sub = q * Sub + a * Sub
    BY <1>1, <1>8, Distribute
  <2>4. 1 * Sub <= q * Sub /\ 1 * Sub = Sub
    BY <2>1, <1>1, <1>8, TimesMonotone
  <2>5. r > 0
    BY <2>4, <1>1, <1>7, <1>8
  <2>6. (n + t - 1) * Sub \in Int
    BY <2>1, <1>1
  <2>7. QED
    BY <2>2, <2>3, <2>4, <2>5, <2>6, <1>1, <1>2, <1>3, <1>7, <1>8
<1>11. ASSUME NEW b \in Nat, b * Sub < M, (b - a) * Sub <= x
       PROVE  b - n < A
  <2>1. (b - a) * Sub = b * Sub - a * Sub /\ b * Sub \in Int
    BY <1>1, Distribute
  <2>2. r >= b * Sub - a * Sub + 1
    BY <2>1, <1>2, <1>3, <1>4, <1>7, <1>11
  <2>3. (q + a) * Sub = q * Sub + a * Sub
    BY <1>1, <1>8, Distribute
  <2>4. b * Sub < (q + a) * Sub /\ (q + a) * Sub \in Int
    BY <2>1, <2>2, <2>3, <1>1, <1>3, <1>7, <1>8
  <2>5. b < q + a
    BY <2>4, <1>1, <1>8, TimesCancels
  <2>6. QED
    BY <2>5, <1>8, <1>9
<1>12. QED
  BY <1>9, <1>10, <1>11 DEF A, M, x

LEMMA WindowFramesAre ==
  ASSUME StreamTypes, FrontEnd, NEW n \in Nat, Window(mel, dec, n),
         NEW hi \in Int, NEW last \in BOOLEAN
  PROVE  /\ WindowFrames(LeftEdge, hi, last) \in Seq(Frames)
         /\ Len(WindowFrames(LeftEdge, hi, last)) = Emitted(LeftEdge, hi, last)
         /\ Emitted(LeftEdge, hi, last) \in Nat
         /\ \A t \in 1 .. Emitted(LeftEdge, hi, last) :
              /\ WindowFrames(LeftEdge, hi, last)[t].at = n + t - 1
              /\ WindowFrames(LeftEdge, hi, last)[t].sees = <<(n + t - 1) * Sub>>
<1> DEFINE M == FramesOf(audio.end)
           m == WithNewFrames
           E == Emitted(LeftEdge, hi, last)
           A == Available(LeftEdge, hi)
           c == Chunk \div FrameSamples
           frames == WindowFrames(LeftEdge, hi, last)
<1>1. /\ Sub \in Nat \ {0} /\ Hop \in Nat \ {0} /\ FrameSamples \in Nat \ {0}
      /\ Left \in Nat /\ c \in Nat
  BY Geometry, WholeFrames DEF Window, WholeFrameWindows
<1>2. /\ mel.base \in Nat /\ mel.made \in Nat /\ Len(mel.buf) \in Nat /\ M \in Nat
      /\ dec.start \in Nat
  BY Fields, FramesReach
<1>3. n * FrameSamples = dec.start
  BY DEF Window
<1>4. PICK a \in Nat : /\ a <= n /\ LeftEdge = a * FrameSamples
                       /\ LeftEdge \div Hop = a * Sub
                       /\ Skip(LeftEdge) = n - a
  BY <1>3, EdgeIs DEF Window
<1>5. A \in Nat /\ \A t \in 1 .. A : (n + t - 1) * Sub < M
  BY <1>4, AvailableIs
<1>6. E \in Nat /\ E <= A
  <2> HIDE DEF A, c
  <2>1. E = IF last THEN A ELSE Smaller(c, A)
    BY DEF Emitted, A, c
  <2>2. QED
    BY <2>1, <1>1, <1>5 DEF Smaller
<1>7. frames = [t \in 1 .. E |->
                  [at   |-> dec.start \div FrameSamples + t - 1,
                   sees |-> <<m.buf[LeftEdge \div Hop - m.base + (Skip(LeftEdge) + t - 1) * Sub + 1]>>]]
  BY DEF WindowFrames, Emitted, Available
<1>8. dec.start \div FrameSamples = n
  BY <1>1, <1>3, QuotientIs
<1>9. /\ m.base = mel.base
      /\ \A i \in 1 .. Len(mel.buf) : m.buf[i] = mel.buf[i]
      /\ \A i \in Len(mel.buf) + 1 .. Len(mel.buf) + M - mel.made :
           m.buf[i] = mel.made + i - Len(mel.buf) - 1
  BY Extended
<1>10. /\ mel.base + Len(mel.buf) = mel.made
       /\ \A i \in 1 .. Len(mel.buf) : mel.buf[i] = mel.base + i - 1
       /\ mel.base * Hop <= LeftEdge
  BY DEF Window, LeftEdge
<1> HIDE DEF M, m, E, A, c
<1>11. mel.base <= a * Sub /\ a * Sub \in Nat
  <2>1. mel.base * Hop <= (a * Sub) * Hop /\ a * Sub \in Nat
    <3>1. a * FrameSamples = (a * Sub) * Hop
      BY InHops
    <3>2. a * Sub \in Nat
      BY <1>1
    <3>3. QED
      BY <3>1, <3>2, <1>4, <1>10
  <2>2. QED
    BY <2>1, <1>1, <1>2, TimesCancels
<1>12. ASSUME NEW i \in Nat, mel.base <= i, i < M
       PROVE  m.buf[i - mel.base + 1] = i
  <2> DEFINE k == i - mel.base + 1
  <2>1. k \in Nat /\ k >= 1 /\ mel.base + k - 1 = i
    BY <1>2, <1>12
  <2>2. CASE k <= Len(mel.buf)
    <3>1. k \in 1 .. Len(mel.buf)
      BY <2>1, <2>2, <1>2
    <3> HIDE DEF k
    <3>2. m.buf[k] = mel.buf[k] /\ mel.buf[k] = mel.base + k - 1
      BY <3>1, <1>9, <1>10
    <3>3. QED
      BY <3>2, <2>1 DEF k
  <2>3. CASE k > Len(mel.buf)
    <3>1. k \in Len(mel.buf) + 1 .. Len(mel.buf) + M - mel.made
      <4>1. mel.base + Len(mel.buf) = mel.made
        BY <1>10
      <4>2. k <= Len(mel.buf) + M - mel.made
        BY <4>1, <1>2, <1>12, SMTT(30)
      <4>3. QED
        BY <4>2, <2>1, <2>3, <1>2
    <3>2. mel.made + k - Len(mel.buf) - 1 = i
      BY <2>1, <1>2, <1>10, SMTT(30)
    <3> HIDE DEF k
    <3>3. m.buf[k] = mel.made + k - Len(mel.buf) - 1
      BY <3>1, <1>9
    <3>4. QED
      BY <3>2, <3>3 DEF k
  <2>4. QED
    BY <2>1, <2>2, <2>3, <1>2
<1>13. ASSUME NEW t \in 1 .. E
       PROVE  m.buf[LeftEdge \div Hop - m.base + (Skip(LeftEdge) + t - 1) * Sub + 1] = (n + t - 1) * Sub
  <2> DEFINE i == (n + t - 1) * Sub
             s == (Skip(LeftEdge) + t - 1) * Sub
  <2>1. t \in 1 .. A /\ t \in Nat /\ t >= 1 /\ n + t - 1 \in Nat
    BY <1>5, <1>6
  <2>2. i < M /\ i \in Nat
    BY <2>1, <1>1, <1>5
  <2>3. i = a * Sub + s /\ s \in Nat
    <3>1. Skip(LeftEdge) + t - 1 = (n - a) + t - 1 /\ (n - a) + t - 1 \in Nat
      BY <1>4, <2>1
    <3>2. (a + ((n - a) + t - 1)) * Sub = a * Sub + ((n - a) + t - 1) * Sub
      BY <1>1, <1>4, <3>1, Distribute
    <3>3. a + ((n - a) + t - 1) = n + t - 1
      BY <1>4, <2>1
    <3>4. ((n - a) + t - 1) * Sub \in Nat
      BY <3>1, <1>1
    <3>5. QED
      BY <3>1, <3>2, <3>3, <3>4
  <2> HIDE DEF i, s
  <2>4. LeftEdge \div Hop - m.base + s + 1 = i - mel.base + 1 /\ mel.base <= i
    BY <2>2, <2>3, <1>2, <1>4, <1>9, <1>11
  <2>5. m.buf[i - mel.base + 1] = i
    BY <2>2, <2>4, <1>12
  <2>6. QED
    BY <2>4, <2>5 DEF i, s
<1>14. frames = [t \in 1 .. E |-> [at |-> n + t - 1, sees |-> <<(n + t - 1) * Sub>>]]
  BY <1>7, <1>8, <1>13
<1>15. \A t \in 1 .. E : n + t - 1 \in Int /\ (n + t - 1) * Sub \in Int
  BY <1>1, <1>6
<1>16. \A t \in 1 .. E : [at |-> n + t - 1, sees |-> <<(n + t - 1) * Sub>>] \in Frames
  BY <1>15 DEF Frames
<1> HIDE DEF frames
<1>17. frames \in [1 .. E -> Frames]
  BY <1>14, <1>16
<1>18. frames \in Seq(Frames) /\ Len(frames) = E
  BY <1>6, <1>17, SeqDef
<1>19. \A t \in 1 .. E : frames[t].at = n + t - 1 /\ frames[t].sees = <<(n + t - 1) * Sub>>
  BY <1>14
<1>20. QED
  BY <1>6, <1>18, <1>19 DEF frames, E

(* A window that is not the last emits exactly its chunk, when it is ready.   *)
LEMMA ChunkEmitted ==
  ASSUME StreamTypes, FrontEnd, WholeFrameWindows, NEW n \in Nat, n * FrameSamples = dec.start,
         dec.start + Chunk + RightPad <= audio.end
  PROVE  /\ Emitted(LeftEdge, dec.start + Chunk + RightPad, FALSE) = Chunk \div FrameSamples
         /\ (n + Chunk \div FrameSamples) * FrameSamples = dec.start + Chunk
<1> DEFINE hi == dec.start + Chunk + RightPad
           c == Chunk \div FrameSamples
           b == n + c - 1
           M == FramesOf(audio.end)
           A == Available(LeftEdge, hi)
<1>1. /\ Sub \in Nat \ {0} /\ Hop \in Nat \ {0} /\ FrameSamples \in Nat \ {0}
      /\ c \in Nat \ {0} /\ Chunk = c * FrameSamples /\ Chunk \in Nat
      /\ Half \in Nat /\ RightPad \in Nat /\ FrameSamples + RightPad >= Half
  BY Geometry, WholeFrames DEF WholeFrameWindows
<1>2. audio.end \in Nat /\ dec.start \in Nat /\ M \in Nat
  BY Fields, FramesReach
<1>3. PICK a \in Nat : /\ a <= n /\ LeftEdge = a * FrameSamples
                       /\ LeftEdge \div Hop = a * Sub
                       /\ Skip(LeftEdge) = n - a
  BY EdgeIs
<1>4. /\ (n + c) * FrameSamples = dec.start + Chunk
      /\ b * FrameSamples = dec.start + Chunk - FrameSamples
  <2>1. (n + c) * FrameSamples = n * FrameSamples + c * FrameSamples
    BY <1>1, Distribute
  <2>2. (b + 1) * FrameSamples = b * FrameSamples + 1 * FrameSamples /\ b * FrameSamples \in Int
    BY <1>1, Distribute
  <2>3. QED
    BY <2>1, <2>2, <1>1
<1>5. b * FrameSamples = (b * Sub) * Hop /\ b \in Nat /\ b * Sub \in Nat
  <2>1. b \in Nat
    BY <1>1
  <2> HIDE DEF b
  <2>2. b * Sub \in Nat
    BY <2>1, <1>1
  <2>3. b * FrameSamples = (b * Sub) * Hop
    BY <2>1, InHops
  <2>4. QED
    BY <2>1, <2>2, <2>3
<1>6. b * Sub < M
  <2>1. (b * Sub) * Hop + Half <= audio.end
    BY <1>1, <1>2, <1>4, <1>5
  <2>2. QED
    BY <2>1, <1>2, <1>5, FramesReach
<1>7. hi \in Nat
  BY <1>1, <1>2
<1>8. (b - a) * Sub <= (hi - LeftEdge) \div Hop
  <2> DEFINE u == (b - a) * Sub
             y == hi - LeftEdge
             z == y \div Hop
  <2>1. u \in Int /\ (b - a) * FrameSamples = u * Hop
    BY <1>5, InHops
  <2>2. (b - a) * FrameSamples = b * FrameSamples - a * FrameSamples /\ a * FrameSamples \in Int
    BY <1>1, <1>5, Distribute
  <2>3. y \in Int /\ u * Hop <= y
    BY <2>1, <2>2, <1>1, <1>2, <1>3, <1>4
  <2> HIDE DEF y, u
  <2>4. z \in Int /\ y < z * Hop + Hop
    BY <2>3, <1>1, Quotient
  <2> HIDE DEF z
  <2>5. (z + 1) * Hop = z * Hop + 1 * Hop /\ z * Hop \in Int /\ u * Hop \in Int /\ (z + 1) * Hop \in Int
    BY <2>1, <2>4, <1>1, Distribute
  <2>6. u * Hop < (z + 1) * Hop
    BY <2>3, <2>4, <2>5, <1>1
  <2>7. u < z + 1
    BY <2>1, <2>4, <2>6, <1>1, TimesCancels
  <2>8. u <= z
    BY <2>1, <2>4, <2>7
  <2>9. QED
    BY <2>8 DEF u, z, y
<1>9. b - n < A /\ A \in Nat
  <2> HIDE DEF hi, b
  <2>1. hi \in Int
    BY <1>7
  <2>2. QED
    BY <2>1, <1>3, <1>5, <1>6, <1>8, AvailableIs
<1> HIDE DEF A
<1>10. Smaller(c, A) = c
  <2>1. c <= A
    BY <1>1, <1>9
  <2>2. QED
    BY <2>1, <1>1, <1>9 DEF Smaller
<1>11. QED
  BY <1>4, <1>10 DEF Emitted, A, c

(* The window of finalize() emits every frame that ends in real audio.        *)
LEMMA TailEmitted ==
  ASSUME StreamTypes, FrontEnd, WholeFrameWindows, NEW n \in Nat, n * FrameSamples = dec.start,
         FramesOf(audio.end) > 0
  PROVE  n + Emitted(LeftEdge, audio.end, TRUE) >= (FramesOf(audio.end) - 1) \div Sub + 1
<1> DEFINE M == FramesOf(audio.end)
           b == (M - 1) \div Sub
           A == Available(LeftEdge, audio.end)
           y == audio.end - LeftEdge
           z == y \div Hop
<1>1. /\ Sub \in Nat \ {0} /\ Hop \in Nat \ {0} /\ FrameSamples \in Nat \ {0}
      /\ Half \in Nat
  BY Geometry
<1>2. audio.end \in Nat /\ M \in Nat /\ M > 0
  BY Fields, FramesReach
<1>3. PICK a \in Nat : /\ a <= n /\ LeftEdge = a * FrameSamples
                       /\ LeftEdge \div Hop = a * Sub
                       /\ Skip(LeftEdge) = n - a
  BY EdgeIs
<1>4. M - 1 \in Nat /\ M - 1 < M /\ (M - 1) * Hop + Half <= audio.end /\ (M - 1) * Hop \in Int
  <2>1. M - 1 \in Nat /\ M - 1 < M
    BY <1>2
  <2>2. (M - 1) * Hop \in Int
    BY <2>1, <1>1
  <2>3. QED
    BY <2>1, <2>2, <1>2, FramesReach
<1> HIDE DEF M
<1>5. b \in Int /\ b * Sub <= M - 1 /\ M - 1 < b * Sub + Sub /\ b * Sub \in Int
  <2>1. M - 1 \in Int
    BY <1>4
  <2>2. b \in Int /\ b * Sub <= M - 1 /\ M - 1 < b * Sub + Sub
    BY <1>1, <2>1, Quotient
  <2> HIDE DEF b
  <2>3. QED
    BY <1>1, <2>2
<1> HIDE DEF b
<1>6. b \in Nat
  <2>1. 0 * Sub < (b + 1) * Sub
    <3>1. (b + 1) * Sub = b * Sub + 1 * Sub /\ 0 * Sub = 0 /\ 1 * Sub = Sub
      BY <1>1, <1>5, Distribute
    <3>2. QED
      BY <3>1, <1>1, <1>4, <1>5
  <2>2. 0 < b + 1
    BY <2>1, <1>1, <1>5, TimesCancels
  <2>3. QED
    BY <2>2, <1>5
<1>7. b * Sub < M
  BY <1>2, <1>5
<1>8. (b - a) * Sub <= z
  <2> DEFINE u == (b - a) * Sub
             v == a * Sub
  <2>1. u \in Int /\ v \in Int /\ u = b * Sub - v
    BY <1>1, <1>5, Distribute
  <2>2. a * FrameSamples = v * Hop /\ v * Hop \in Int
    BY <2>1, <1>1, InHops
  <2> HIDE DEF u, v
  <2>3. u * Hop <= ((M - 1) - v) * Hop
    <3>1. u <= (M - 1) - v /\ (M - 1) - v \in Int
      BY <2>1, <1>4, <1>5
    <3>2. QED
      BY <3>1, <2>1, <1>1, TimesMonotone
  <2>4. ((M - 1) - v) * Hop = (M - 1) * Hop - v * Hop
    BY <2>1, <1>1, <1>4, Distribute
  <2>5. y \in Int /\ u * Hop <= y /\ u * Hop \in Int
    <3>1. u * Hop \in Int
      BY <2>1, <1>1
    <3>2. LeftEdge = v * Hop
      BY <2>2, <1>3
    <3>3. QED
      BY <2>2, <2>3, <2>4, <3>1, <3>2, <1>1, <1>2, <1>4
  <2> HIDE DEF y
  <2>6. z \in Int /\ y < z * Hop + Hop
    BY <2>5, <1>1, Quotient
  <2> HIDE DEF z
  <2>7. (z + 1) * Hop = z * Hop + 1 * Hop /\ z * Hop \in Int /\ (z + 1) * Hop \in Int
    BY <2>1, <2>6, <1>1, Distribute
  <2>8. u * Hop < (z + 1) * Hop
    BY <2>5, <2>6, <2>7, <1>1
  <2>9. u < z + 1
    BY <2>1, <2>6, <2>8, <1>1, TimesCancels
  <2>10. u <= z
    BY <2>1, <2>6, <2>9
  <2>11. QED
    BY <2>10 DEF u
<1>9. b - n < A /\ A \in Nat
  BY <1>2, <1>3, <1>6, <1>7, <1>8, AvailableIs DEF M
<1> HIDE DEF A
<1>10. n + A >= b + 1
  BY <1>6, <1>9
<1>11. Emitted(LeftEdge, audio.end, TRUE) = A
  BY DEF Emitted, A
<1>12. QED
  BY <1>10, <1>11 DEF b, M
-----------------------------------------------------------------------------
LEMMA StreamInvImplies == StreamInv => FramesInOrder
<1> SUFFICES ASSUME StreamInv PROVE FramesInOrder
  OBVIOUS
<1>1. DOMAIN decoded = 1 .. Len(decoded)
  BY DEF StreamInv, StreamTypes
<1>2. \A f : RightField(f) = SeesOf(IsCache, mel.made, f)
  BY DEF RightField, SeesOf, SeesAt, FrameAt
<1>3. \A i \in DOMAIN decoded : decoded[i].at = i - 1 /\ decoded[i].sees = RightField(i - 1)
  BY <1>1, <1>2 DEF StreamInv, Given
<1>4. QED
  BY <1>3 DEF StreamInv, NothingLeft, FramesInOrder

(* The frames that a step gives to the head continue those before.            *)
LEMMA GivenMore ==
  ASSUME NEW s \in Seq(Frames), NEW t \in Seq(Frames), NEW cache, NEW made,
         Given(s, cache, made),
         \A k \in 1 .. Len(t) : /\ t[k].at = Len(s) + k - 1
                                /\ t[k].sees = SeesOf(cache, made, Len(s) + k - 1)
  PROVE  Given(s \o t, cache, made) /\ s \o t \in Seq(Frames) /\ Len(s \o t) = Len(s) + Len(t)
<1> DEFINE u == s \o t
<1>1. /\ u \in Seq(Frames) /\ Len(u) = Len(s) + Len(t)
      /\ Len(s) \in Nat /\ Len(t) \in Nat
      /\ \A i \in 1 .. Len(s) : u[i] = s[i]
      /\ \A i \in Len(s) + 1 .. Len(s) + Len(t) : u[i] = t[i - Len(s)]
  BY Concatenated, Zenon
<1> HIDE DEF u
<1>2. ASSUME NEW i \in 1 .. Len(u)
      PROVE  u[i].at = i - 1 /\ u[i].sees = SeesOf(cache, made, i - 1)
  <2>1. CASE i <= Len(s)
    <3>1. i \in 1 .. Len(s)
      BY <2>1, <1>1
    <3>2. QED
      BY <3>1, <1>1 DEF Given
  <2>2. CASE i > Len(s)
    <3> DEFINE k == i - Len(s)
    <3>1. i \in Len(s) + 1 .. Len(s) + Len(t) /\ k \in 1 .. Len(t) /\ Len(s) + k - 1 = i - 1
      BY <2>2, <1>1
    <3>2. u[i] = t[k]
      BY <3>1, <1>1
    <3> HIDE DEF k
    <3>3. t[k].at = Len(s) + k - 1 /\ t[k].sees = SeesOf(cache, made, Len(s) + k - 1)
      BY <3>1
    <3>4. QED
      BY <3>1, <3>2, <3>3
  <2>3. QED
    BY <2>1, <2>2, <1>1
<1>3. QED
  BY <1>1, <1>2 DEF Given, u

(* Until finalize() pads the end, the head is only given frames of real audio *)
(* by the cache runner.                                                       *)
LEMMA CacheDecodesReal ==
  ASSUME StreamTypes, IsCache, Holds(mel, dec), Unpadded(mel, dec)
  PROVE  \A f \in 0 .. dec.frames - 1 : f * Sub < mel.made
<1> DEFINE F == dec.frames
           made == mel.made
<1>1. /\ F \in Nat /\ made \in Nat /\ dec.first \in BOOLEAN
      /\ Sub \in Nat \ {0} /\ PreEncode \in Nat /\ PreEncode = Sub + 1
  BY Fields, Geometry
<1>2. ASSUME NEW f \in 0 .. F - 1
      PROVE  f * Sub < made
  <2>1. ~dec.first
    BY <1>1 DEF Holds
  <2>2. made - (F - 2) * Sub >= PreEncode
    BY <2>1 DEF Unpadded, HeadFrame
  <2>3. f * Sub <= (F - 1) * Sub
    BY <1>1, TimesMonotone
  <2>4. (F - 1) * Sub = F * Sub - 1 * Sub /\ (F - 2) * Sub = F * Sub - 2 * Sub /\ F * Sub \in Int
    BY <1>1, Distribute
  <2>5. f * Sub \in Int
    BY <1>1
  <2> HIDE DEF F, made
  <2>6. QED
    BY <2>2, <2>3, <2>4, <2>5, <1>1
<1>3. QED
  BY <1>2

(* What a transducer was given before does not change with new mel frames.    *)
LEMMA GivenStays ==
  ASSUME StreamTypes, IsCache, Holds(mel, dec), Unpadded(mel, dec), Len(decoded) = dec.frames,
         Given(decoded, TRUE, mel.made), NEW more \in Nat, mel.made <= more
  PROVE  Given(decoded, TRUE, more)
<1> DEFINE F == dec.frames
           made == mel.made
<1>1. /\ F \in Nat /\ made \in Nat /\ dec.first \in BOOLEAN
      /\ Sub \in Nat \ {0} /\ PreEncode \in Nat /\ PreEncode = Sub + 1
  BY Fields, Geometry
<1>2. ASSUME NEW i \in 1 .. F
      PROVE  (i - 1) * Sub < made
  <2>1. i - 1 \in 0 .. dec.frames - 1
    BY <1>1
  <2>2. QED
    BY <2>1, CacheDecodesReal
<1>3. ASSUME NEW i \in 1 .. Len(decoded)
      PROVE  decoded[i].at = i - 1 /\ decoded[i].sees = SeesOf(TRUE, more, i - 1)
  <2>1. i \in 1 .. F /\ i - 1 \in Int
    BY <1>1
  <2>2. SeesAt(made, i - 1) = SeesAt(more, i - 1)
    BY <2>1, <1>1, <1>2, SeesAtStays
  <2>3. QED
    BY <2>2 DEF Given, SeesOf
<1>4. QED
  BY <1>3 DEF Given
-----------------------------------------------------------------------------
(* Each change of the mel buffer keeps what the two runners need of it.       *)

(* New mel frames continue the ones in the buffer.                            *)
LEMMA NewFramesContinue ==
  ASSUME StreamTypes, FrontEnd, Holds(mel, dec), Unpadded(mel, dec)
  PROVE  Holds(WithNewFrames, dec) /\ Unpadded(WithNewFrames, dec)
<1> DEFINE m == WithNewFrames
           M == FramesOf(audio.end)
           L == Len(mel.buf)
           H == HeadFrame(dec)
           made == mel.made
           off == mel.off
<1>1. /\ off \in Nat /\ made \in Nat /\ L \in Nat /\ M \in Nat /\ made <= M
      /\ dec.first \in BOOLEAN /\ PreEncode \in Nat
  BY Fields, FramesReach, Geometry DEF FrontEnd
<1>2. /\ m.off = off /\ m.made = M /\ Len(m.buf) = L + M - made
      /\ \A i \in 1 .. L : m.buf[i] = mel.buf[i]
      /\ \A i \in L + 1 .. L + M - made : m.buf[i] = made + i - L - 1
  BY Extended
<1>3. /\ off <= L /\ (dec.first => off = 0 /\ dec.frames = 0)
      /\ \A j \in 1 .. L - off : mel.buf[off + j] = FrameAt(made, H + j - 1)
  BY DEF Holds
<1>4. L - off = made - H /\ (~dec.first => made - H >= PreEncode)
  BY DEF Unpadded
<1>5. H \in Int
  <2>1. dec.frames \in Nat /\ Sub \in Nat
    BY Fields, Geometry
  <2>2. (dec.frames - 2) * Sub \in Int
    BY <2>1
  <2>3. QED
    BY <2>2 DEF HeadFrame
<1> HIDE DEF m, M, L, H, made, off
<1>6. ASSUME NEW j \in 1 .. Len(m.buf) - m.off
      PROVE  m.buf[m.off + j] = FrameAt(m.made, H + j - 1)
  <2>1. j \in Nat /\ j >= 1 /\ j <= L + M - made - off
    BY <1>1, <1>2
  <2>2. CASE j <= L - off
    <3>1. off + j \in 1 .. L /\ j \in 1 .. L - off
      BY <2>1, <2>2, <1>1
    <3>2. m.buf[off + j] = FrameAt(made, H + j - 1)
      BY <3>1, <1>2, <1>3
    <3>3. H + j - 1 < made /\ H + j - 1 \in Int
      BY <2>1, <2>2, <1>1, <1>4, <1>5
    <3>4. FrameAt(made, H + j - 1) = FrameAt(M, H + j - 1)
      BY <3>3, <1>1 DEF FrameAt
    <3>5. QED
      BY <3>2, <3>4, <1>2
  <2>3. CASE j > L - off
    <3> DEFINE i == off + j
    <3>1. i \in L + 1 .. L + M - made /\ made + i - L - 1 = H + j - 1
          /\ H + j - 1 \in 0 .. M - 1
      <4>1. i \in Nat /\ i >= L + 1 /\ i <= L + M - made
        BY <2>1, <2>3, <1>1
      <4>2. made + i - L - 1 = H + j - 1
        BY <2>1, <1>1, <1>4, <1>5
      <4>3. H + j - 1 >= made /\ H + j - 1 <= M - 1
        BY <2>1, <2>3, <1>1, <1>4, <1>5
      <4>4. QED
        BY <4>1, <4>2, <4>3, <1>1, <1>5, <2>1
    <3> HIDE DEF i
    <3>2. m.buf[i] = made + i - L - 1
      BY <3>1, <1>2
    <3>3. FrameAt(M, H + j - 1) = H + j - 1
      BY <3>1 DEF FrameAt
    <3>4. QED
      BY <3>1, <3>2, <3>3, <1>2 DEF i
  <2>4. QED
    BY <2>1, <2>2, <2>3, <1>1
<1>7. m.off <= Len(m.buf)
  BY <1>1, <1>2, <1>3
<1>8. Holds(m, dec)
  BY <1>2, <1>3, <1>6, <1>7 DEF Holds, H, off
<1>9. Unpadded(m, dec)
  <2>1. Len(m.buf) - m.off = m.made - H /\ (~dec.first => m.made - H >= PreEncode)
    BY <1>1, <1>2, <1>4, <1>5
  <2>2. QED
    BY <2>1 DEF Unpadded, H
<1>10. QED
  BY <1>8, <1>9 DEF m

(* New mel frames of the buffered runner.                                     *)
LEMMA NewFramesInWindow ==
  ASSUME StreamTypes, FrontEnd, NEW n, Window(mel, dec, n), NEW d \in Decodings, NEW k,
         k * FrameSamples = d.start, dec.start <= d.start
  PROVE  Window(WithNewFrames, d, k)
<1> DEFINE m == WithNewFrames
           M == FramesOf(audio.end)
           L == Len(mel.buf)
           made == mel.made
           base == mel.base
<1>1. /\ base \in Nat /\ made \in Nat /\ L \in Nat /\ M \in Nat /\ made <= M
      /\ dec.start \in Nat /\ d.start \in Nat /\ Left \in Nat /\ Hop \in Nat
  BY Fields, FramesReach, Geometry DEF FrontEnd, Decodings
<1>2. /\ m.base = base /\ m.made = M /\ Len(m.buf) = L + M - made
      /\ \A i \in 1 .. L : m.buf[i] = mel.buf[i]
      /\ \A i \in L + 1 .. L + M - made : m.buf[i] = made + i - L - 1
  BY Extended
<1>3. /\ WholeFrameWindows /\ base + L = made
      /\ \A i \in 1 .. L : mel.buf[i] = base + i - 1
      /\ base * Hop <= Larger(0, dec.start - Left)
  BY DEF Window
<1> HIDE DEF m, M, L, made, base
<1>4. ASSUME NEW i \in 1 .. Len(m.buf)
      PROVE  m.buf[i] = base + i - 1
  <2>1. i \in Nat /\ i >= 1 /\ i <= L + M - made
    BY <1>1, <1>2
  <2>2. CASE i <= L
    BY <2>1, <2>2, <1>1, <1>2, <1>3
  <2>3. CASE i > L
    <3>1. L \in Int /\ M \in Int /\ made \in Int /\ base \in Int /\ base + L = made
      BY <1>1, <1>3
    <3>2. i \in L + 1 .. L + M - made
      BY <2>1, <2>3, <3>1
    <3>3. made + i - L - 1 = base + i - 1
      BY <2>1, <3>1
    <3>4. QED
      BY <3>2, <3>3, <1>2
  <2>4. QED
    BY <2>1, <2>2, <2>3, <1>1
<1>5. base * Hop <= Larger(0, d.start - Left)
  <2>1. base * Hop \in Int
    BY <1>1
  <2>2. QED
    BY <2>1, <1>1, <1>3 DEF Larger
<1>6. base + Len(m.buf) = M
  BY <1>1, <1>2, <1>3
<1>7. QED
  BY <1>2, <1>3, <1>4, <1>5, <1>6 DEF Window, m

(* trim_buffers of the cache runner forgets what is before the overlap.       *)
LEMMA TrimKeepsHead ==
  ASSUME StreamTypes, IsCache, Holds(mel, dec)
  PROVE  /\ TrimmedMel \in Mels /\ Holds(TrimmedMel, dec)
         /\ TrimmedMel.made = mel.made
         /\ Len(TrimmedMel.buf) - TrimmedMel.off = Len(mel.buf) - mel.off
<1> DEFINE m == TrimmedMel
           L == Len(mel.buf)
           off == mel.off
           rest == Slice(mel.buf, off, L)
<1>1. /\ off \in Nat /\ L \in Nat /\ off <= L /\ L <= Len(mel.buf)
      /\ mel.buf \in Seq(Int) /\ mel \in Mels
  BY Fields DEF Holds, StreamTypes
<1>2. m = [mel EXCEPT !.buf = rest, !.off = 0]
  BY <1>1 DEF TrimmedMel, Slice, Mels
<1> HIDE DEF m, rest, off, L
<1>3. /\ Slice(mel.buf, off, L) \in Seq(Int) /\ Len(Slice(mel.buf, off, L)) = L - off
      /\ \A i \in 1 .. L - off : Slice(mel.buf, off, L)[i] = mel.buf[off + i]
  BY <1>1, SliceIs, Zenon
<1>4. /\ rest \in Seq(Int) /\ Len(rest) = L - off
      /\ \A i \in 1 .. L - off : rest[i] = mel.buf[off + i]
  BY <1>3 DEF rest
<1>5. m \in Mels /\ m.buf = rest /\ m.off = 0 /\ m.made = mel.made
  <2>1. 0 \in Nat
    OBVIOUS
  <2>2. QED
    BY <2>1, <1>1, <1>2, <1>4 DEF Mels
<1>6. Len(m.buf) - m.off = L - off /\ m.off <= Len(m.buf)
  BY <1>1, <1>4, <1>5
<1>7. \A j \in 1 .. L - off : mel.buf[off + j] = FrameAt(mel.made, HeadFrame(dec) + j - 1)
  BY DEF Holds, off, L
<1>8. ASSUME NEW j \in 1 .. Len(m.buf) - m.off
      PROVE  m.buf[m.off + j] = FrameAt(m.made, HeadFrame(dec) + j - 1)
  <2>1. j \in 1 .. L - off /\ 0 + j = j
    BY <1>1, <1>6
  <2>2. QED
    BY <2>1, <1>4, <1>5, <1>7
<1>9. dec.first => m.off = 0 /\ dec.frames = 0
  BY <1>5 DEF Holds
<1>10. Holds(m, dec)
  BY <1>6, <1>8, <1>9 DEF Holds
<1>11. QED
  BY <1>5, <1>6, <1>10 DEF m, L, off

(* That of the buffered runner drops whole frames before the next window.     *)
LEMMA TrimKeepsWindow ==
  ASSUME StreamTypes, ~IsCache, NEW n \in Nat, Window(mel, dec, n)
  PROVE  /\ TrimmedMel \in Mels /\ Window(TrimmedMel, dec, n)
         /\ TrimmedMel.made = mel.made
<1> DEFINE m == TrimmedMel
           L == Len(mel.buf)
           keep == LeftEdge \div Hop
           drop == keep - mel.base
           rest == Slice(mel.buf, drop, L)
<1>1. /\ mel.base \in Nat /\ mel.made \in Nat /\ L \in Nat
      /\ mel.buf \in Seq(Int) /\ mel \in Mels /\ dec.start \in Nat
      /\ Left \in Nat /\ Hop \in Nat \ {0}
  BY Fields, Geometry DEF StreamTypes
<1>2. LeftEdge \in Nat /\ LeftEdge = Larger(0, dec.start - Left)
  BY <1>1 DEF LeftEdge, Larger
<1>3. keep \in Int /\ keep * Hop <= LeftEdge
  <2>1. LeftEdge \in Int /\ Hop \in Nat \ {0}
    BY <1>1, <1>2
  <2>2. QED
    BY <2>1, Quotient
<1>4. m = IF drop > 0 /\ drop <= L THEN [mel EXCEPT !.buf = rest, !.base = keep] ELSE mel
  BY <1>1 DEF TrimmedMel, Slice, Mels
<1>5. /\ WholeFrameWindows /\ n * FrameSamples = dec.start /\ mel.base + L = mel.made
      /\ \A i \in 1 .. L : mel.buf[i] = mel.base + i - 1
  BY DEF Window
<1> HIDE DEF m, L, keep, rest
<1>6. CASE drop > 0 /\ drop <= L
  <2>1. drop \in Nat /\ keep \in Nat /\ L <= Len(mel.buf)
    BY <1>1, <1>3, <1>6 DEF L
  <2> HIDE DEF drop
  <2>2. /\ Slice(mel.buf, drop, L) \in Seq(Int) /\ Len(Slice(mel.buf, drop, L)) = L - drop
        /\ \A i \in 1 .. L - drop : Slice(mel.buf, drop, L)[i] = mel.buf[drop + i]
    <3>1. mel.buf \in Seq(Int) /\ drop \in Nat /\ L \in Nat /\ drop <= L /\ L <= Len(mel.buf)
      BY <2>1, <1>1, <1>6
    <3>2. QED
      BY <3>1, SliceIs, Zenon
  <2>3. /\ rest \in Seq(Int) /\ Len(rest) = L - drop
        /\ \A i \in 1 .. L - drop : rest[i] = mel.buf[drop + i]
    BY <2>2 DEF rest
  <2>4. m \in Mels /\ m.buf = rest /\ m.base = keep /\ m.made = mel.made
    BY <2>1, <2>3, <1>1, <1>4, <1>6 DEF Mels
  <2>5. keep + Len(rest) = mel.made
    BY <2>1, <2>3, <1>1, <1>3, <1>5, SMTT(30) DEF drop
  <2>6. ASSUME NEW i \in 1 .. Len(rest)
        PROVE  rest[i] = keep + i - 1
    <3>1. i \in 1 .. L - drop /\ drop + i \in 1 .. L
      BY <2>1, <2>3, <1>1
    <3>2. rest[i] = mel.base + (drop + i) - 1
      BY <3>1, <2>3, <1>5
    <3>3. mel.base + (drop + i) - 1 = keep + i - 1
      <4>1. mel.base \in Int /\ keep \in Int /\ i \in Int /\ drop = keep - mel.base
        BY <1>1, <1>3 DEF drop
      <4> HIDE DEF drop
      <4>2. QED
        BY <4>1
    <3>4. QED
      BY <3>2, <3>3
  <2>7. QED
    BY <2>4, <2>5, <2>6, <1>2, <1>3, <1>5 DEF Window, m
<1>7. CASE ~(drop > 0 /\ drop <= L)
  <2>1. m = mel
    BY <1>4, <1>7
  <2>2. QED
    BY <2>1, <1>1 DEF m
<1>8. QED
  BY <1>6, <1>7

(* finalize() of the cache runner pads the frames that are left.              *)
LEMMA PadKeepsHead ==
  ASSUME StreamTypes, IsCache, Holds(mel, dec), Unpadded(mel, dec),
         NEW m, m = IF Len(mel.buf) > mel.off
                    THEN [mel EXCEPT !.buf = @ \o [i \in 1 .. FlushPad |-> Pad]] ELSE mel
  PROVE  /\ m \in Mels /\ m.made = mel.made
         /\ Holds(m, dec) /\ Padded(m, dec, FlushPad)
<1> DEFINE L == Len(mel.buf)
           off == mel.off
           made == mel.made
           H == HeadFrame(dec)
           P == FlushPad
           z == [i \in 1 .. FlushPad |-> Pad]
           b == mel.buf \o z
<1>1. /\ off \in Nat /\ L \in Nat /\ off <= L /\ made \in Nat
      /\ mel.buf \in Seq(Int) /\ mel \in Mels /\ dec.first \in BOOLEAN
      /\ PreEncode \in Nat /\ PreEncode >= 1
  BY Fields, Geometry DEF Holds, StreamTypes
<1>2. P \in Nat
  <2>1. Sub * ChunkFrames \in Nat
    <3>1. Sub \in Nat /\ ChunkFrames \in Nat
      BY Fields, Geometry
    <3>2. QED
      BY <3>1
  <2>2. QED
    BY <2>1, <1>1 DEF FlushPad
<1>3. L - off = made - H /\ (~dec.first => made - H >= PreEncode)
  BY DEF Unpadded
<1>4. H \in Int
  <2>1. dec.frames \in Nat /\ Sub \in Nat
    BY Fields, Geometry
  <2>2. (dec.frames - 2) * Sub \in Int
    BY <2>1
  <2>3. QED
    BY <2>2 DEF HeadFrame
<1>5. \A j \in 1 .. L - off : mel.buf[off + j] = FrameAt(made, H + j - 1)
  BY DEF Holds
<1>6. z \in Seq(Int) /\ Len(z) = P /\ \A i \in 1 .. P : z[i] = Pad
  <2>1. z \in [1 .. P -> Int]
    BY DEF Pad
  <2>2. QED
    BY <2>1, <1>2, SeqDef
<1>7. m = IF L > off THEN [mel EXCEPT !.buf = b] ELSE mel
  BY <1>1 DEF Mels
<1> HIDE DEF L, off, made, H, P, z
<1>8. CASE L > off
  <2>1. /\ b \in Seq(Int) /\ Len(b) = L + P
        /\ \A i \in 1 .. L : b[i] = mel.buf[i]
        /\ \A i \in L + 1 .. L + P : b[i] = z[i - L]
    <3>1. /\ b \in Seq(Int) /\ Len(b) = Len(mel.buf) + Len(z)
          /\ \A i \in 1 .. Len(mel.buf) : b[i] = mel.buf[i]
          /\ \A i \in Len(mel.buf) + 1 .. Len(mel.buf) + Len(z) : b[i] = z[i - Len(mel.buf)]
      <4>1. mel.buf \in Seq(Int) /\ z \in Seq(Int)
        BY <1>1, <1>6
      <4>2. QED
        BY <4>1, Concatenated, SMTT(30)
    <3>2. QED
      BY <3>1, <1>6 DEF L
  <2> HIDE DEF b
  <2>2. m \in Mels /\ m.buf = b /\ m.off = off /\ m.made = made
    BY <2>1, <1>1, <1>7, <1>8 DEF Mels, off, made
  <2>3. ASSUME NEW j \in 1 .. Len(b) - off
        PROVE  b[off + j] = FrameAt(made, H + j - 1)
    <3>1. j \in Nat /\ j >= 1 /\ j <= L + P - off
      BY <2>1, <1>1, <1>2, SMTT(30)
    <3>2. CASE j <= L - off
      <4>1. off + j \in 1 .. L /\ j \in 1 .. L - off
        BY <3>1, <3>2, <1>1
      <4>2. QED
        BY <4>1, <2>1, <1>5
    <3>3. CASE j > L - off
      <4> DEFINE i == off + j
      <4>1. i \in L + 1 .. L + P /\ i - L \in 1 .. P
        BY <3>1, <3>3, <1>1, <1>2, SMTT(30)
      <4>2. H + j - 1 \in Int /\ H + j - 1 >= made
        BY <3>1, <3>3, <1>1, <1>3, <1>4
      <4> HIDE DEF i
      <4>3. b[i] = Pad
        BY <4>1, <2>1, <1>6
      <4>4. FrameAt(made, H + j - 1) = Pad
        BY <4>2, <1>1, FrameAtIs
      <4>5. QED
        BY <4>3, <4>4 DEF i
    <3>4. QED
      BY <3>1, <3>2, <3>3, <1>1
  <2>4. off <= Len(b)
    BY <2>1, <1>1, <1>2
  <2>5. dec.first => off = 0 /\ dec.frames = 0
    BY DEF Holds, off
  <2>6. Holds(m, dec)
    BY <2>2, <2>3, <2>4, <2>5 DEF Holds, H
  <2>7. Len(b) - off = made - H + P
    BY <2>1, <1>1, <1>2, <1>3, <1>4
  <2>8. QED
    BY <2>2, <2>6, <2>7 DEF Padded, H, P, made
<1>9. CASE ~(L > off)
  <2>1. m = mel
    BY <1>7, <1>9
  <2>2. L = off /\ made - H = 0
    BY <1>1, <1>3, <1>9, <1>4
  <2>3. dec.first
    BY <2>2, <1>1, <1>3
  <2>4. H = 0
    BY <2>3 DEF HeadFrame, H
  <2>5. made = 0
    BY <2>2, <2>4, <1>1
  <2>6. QED
    BY <2>1, <2>2, <2>3, <2>5, <1>1 DEF Padded, L, off, made
<1>10. QED
  BY <1>8, <1>9, <1>1
-----------------------------------------------------------------------------
(* The steps. First those that leave the buffers and the head alone.          *)
LEMMA SameBuffers ==
  ASSUME StreamInv, cfg' = cfg, audio' = audio, mel' = mel, dec' = dec, decoded' = decoded,
         ending' \in BOOLEAN, phase' \in StreamPhases,
         phase' \notin {"idle", "closed"} => phase \notin {"idle", "closed"},
         phase' \notin {"flush", "closed"} => phase \notin {"flush", "closed"},
         phase' = "flush" => phase = "flush",
         NothingLeft'
  PROVE  StreamInv'
<1>1. StreamTypes'
  BY DEF StreamInv, StreamTypes
<1>2. IsCache' = IsCache /\ FlushPad' = FlushPad
  BY DEF IsCache, FlushPad, ChunkFrames
<1>3. FrontEnd'
  BY <1>2 DEF StreamInv, FrontEnd
<1>4. CacheHead'
  BY <1>2 DEF StreamInv, CacheHead
<1>5. BufferedHead'
  BY <1>2 DEF StreamInv, BufferedHead, StreamPhases
<1>6. Given(decoded, IsCache, mel.made)'
  BY <1>2 DEF StreamInv
<1>7. QED
  BY <1>1, <1>3, <1>4, <1>5, <1>6 DEF StreamInv

(* A stream that starts, or starts over.                                      *)
Fresh ==
  /\ cfg \in Configs /\ phase = "idle" /\ ending = FALSE /\ result = "fed"
  /\ audio = NewAudio /\ mel = NewMel /\ dec = NewDecoding /\ decoded = <<>>

LEMMA StreamStarts == Fresh /\ Covered => StreamInv
<1> SUFFICES ASSUME Fresh, Covered PROVE StreamInv
  OBVIOUS
<1> USE DEF Fresh
<1>1. /\ Hop \in Nat /\ Half \in Nat \ {0} /\ Sub \in Nat \ {0} /\ Left \in Nat /\ FrameSamples \in Nat
      /\ PreEncode \in Nat
  BY Geometry
<1>2. StreamTypes
  <2>1. audio \in Audios
    BY DEF NewAudio, Audios
  <2>2. mel \in Mels
    BY DEF NewMel, Mels
  <2>3. dec \in Decodings
    BY DEF NewDecoding, Decodings
  <2>4. phase \in StreamPhases /\ ending \in BOOLEAN
    BY DEF StreamPhases
  <2>5. <<>> \in Seq(Frames)
    OBVIOUS
  <2>6. QED
    BY <2>1, <2>2, <2>3, <2>4, <2>5 DEF StreamTypes
<1>3. /\ audio.base = 0 /\ audio.end = 0 /\ mel.base = 0 /\ mel.off = 0 /\ mel.made = 0
      /\ mel.buf = <<>> /\ dec.first = TRUE /\ dec.frames = 0 /\ dec.start = 0
  BY DEF NewAudio, NewMel, NewDecoding
<1>4. FrontEnd
  <2>1. 0 * Hop = 0
    BY <1>1
  <2>2. 0 <= FramesOf(0)
    BY FramesReach
  <2>3. audio.base <= Larger(mel.made * Hop - Half, 0)
    BY <1>1, <1>3, <2>1 DEF Larger
  <2>4. QED
    BY <1>3, <2>2, <2>3 DEF FrontEnd
<1>5. Holds(mel, dec) /\ Unpadded(mel, dec)
  BY <1>3 DEF Holds, Unpadded, HeadFrame
<1>6. CacheHead
  BY <1>3, <1>5 DEF CacheHead
<1>7. BufferedHead
  <2> SUFFICES ASSUME ~IsCache PROVE Window(mel, dec, 0)
    BY DEF BufferedHead
  <2>1. 0 * FrameSamples = 0 /\ 0 * Hop = 0
    BY <1>1
  <2>2. 0 <= Larger(0, 0 - Left)
    BY <1>1 DEF Larger
  <2>3. WholeFrameWindows
    BY DEF Covered
  <2>4. QED
    BY <1>3, <2>1, <2>2, <2>3 DEF Window
<1>8. Given(decoded, IsCache, mel.made)
  BY DEF Given
<1>9. NothingLeft
  BY DEF NothingLeft
<1>10. QED
  BY <1>2, <1>4, <1>6, <1>7, <1>8, <1>9 DEF StreamInv

LEMMA PushKeeps ==
  ASSUME StreamInv, NEW n \in Feeds, Push(n)
  PROVE  StreamInv'
<1>1. /\ phase = "idle" /\ phase' = phase /\ cfg' = cfg /\ ending' = ending /\ mel' = mel
      /\ dec' = dec /\ decoded' = decoded /\ result' = "fed"
      /\ audio' = [audio EXCEPT !.end = audio.end + n]
  BY DEF Push, input, decoding
<1>2. n \in Nat /\ audio.end \in Nat /\ audio \in Audios
  BY Geometry, Fields DEF StreamInv, StreamTypes
<1>3. audio' \in Audios /\ audio'.base = audio.base /\ audio'.end = audio.end + n
  BY <1>1, <1>2 DEF Audios
<1>4. StreamTypes'
  BY <1>1, <1>3 DEF StreamInv, StreamTypes
<1>5. IsCache' = IsCache /\ FlushPad' = FlushPad
  BY <1>1 DEF IsCache, FlushPad, ChunkFrames
<1>6. FrontEnd'
  <2>1. FramesOf(audio.end) <= FramesOf(audio'.end) /\ FramesOf(audio.end) \in Nat
        /\ FramesOf(audio'.end) \in Nat
    BY <1>2, <1>3, FramesGrow, FramesReach
  <2>2. mel.made \in Nat /\ mel.made <= FramesOf(audio.end)
    BY Fields DEF StreamInv, FrontEnd
  <2>3. mel'.made <= FramesOf(audio'.end)
    BY <1>1, <2>1, <2>2
  <2>4. (mel.made <= FramesOf(audio.end))'
    BY <2>3
  <2>5. QED
    BY <1>1, <1>3, <2>4 DEF StreamInv, FrontEnd
<1>7. CacheHead'
  BY <1>1, <1>5 DEF StreamInv, CacheHead
<1>8. BufferedHead'
  BY <1>1, <1>5 DEF StreamInv, BufferedHead
<1>9. Given(decoded, IsCache, mel.made)'
  BY <1>1, <1>5 DEF StreamInv
<1>10. NothingLeft'
  BY <1>1 DEF NothingLeft
<1>11. QED
  BY <1>4, <1>6, <1>7, <1>8, <1>9, <1>10 DEF StreamInv

LEMMA ForceEndpointKeeps ==
  ASSUME StreamInv, ForceEndpoint
  PROVE  StreamInv'
<1>1. /\ phase = "idle" /\ phase' = phase /\ cfg' = cfg /\ ending' = ending /\ mel' = mel
      /\ dec' = dec /\ decoded' = decoded /\ audio' = audio /\ result' = "fed"
  BY DEF ForceEndpoint, input, decoding, buffers
<1>2. NothingLeft'
  BY <1>1 DEF NothingLeft
<1>3. ending \in BOOLEAN /\ phase \in StreamPhases
  BY DEF StreamInv, StreamTypes
<1>4. QED
  BY <1>1, <1>2, <1>3, SameBuffers

LEMMA StreamStutters ==
  ASSUME StreamInv, UNCHANGED streamVars
  PROVE  StreamInv'
<1>1. /\ phase' = phase /\ cfg' = cfg /\ ending' = ending /\ mel' = mel
      /\ dec' = dec /\ decoded' = decoded /\ audio' = audio /\ result' = result
  BY DEF streamVars, input, decoding, buffers
<1>2. NothingLeft'
  BY <1>1 DEF StreamInv, NothingLeft, ChunkReady, NextChunkMel, IsCache, ChunkFrames, RealFrames
<1>3. ending \in BOOLEAN /\ phase \in StreamPhases
  BY DEF StreamInv, StreamTypes
<1>4. QED
  BY <1>1, <1>2, <1>3, SameBuffers

LEMMA ResetKeeps ==
  ASSUME StreamInv, Covered', Reset
  PROVE  StreamInv'
<1>1. cfg \in Configs
  BY DEF StreamInv, StreamTypes
<1>2. Fresh'
  BY <1>1 DEF Fresh, Reset, input
<1>3. (Fresh /\ Covered => StreamInv)'
  BY StreamStarts, PTL
<1>4. QED
  BY <1>2, <1>3

(* Every frame there is was made: the audio the front end reads next is later. *)
LEMMA AllMade ==
  ASSUME StreamTypes, FrontEnd, cfg' = cfg, audio' = audio, mel' \in Mels,
         mel'.made = FramesOf(audio.end)
  PROVE  FrontEnd'
<1> DEFINE M == FramesOf(audio.end)
           e == mel.made * Hop
           f == M * Hop
<1>1. mel.made \in Nat /\ audio.base \in Nat /\ M \in Nat /\ Hop \in Nat /\ Half \in Nat
  BY Fields, FramesReach, Geometry
<1>2. mel.made <= M /\ audio.base <= Larger(e - Half, 0)
  BY DEF FrontEnd
<1> HIDE DEF M
<1>3. e <= f
  BY <1>1, <1>2, TimesMonotone
<1>4. e \in Int /\ f \in Int
  BY <1>1
<1> HIDE DEF e, f
<1>5. audio.base <= Larger(f - Half, 0)
  BY <1>1, <1>2, <1>3, <1>4 DEF Larger
<1>6. M <= M
  BY <1>1
<1>7. IsCache' = IsCache
  BY DEF IsCache
<1>8. QED
  BY <1>5, <1>6, <1>7 DEF FrontEnd, M, f

(* The head of step() and of finish(): new audio for the VAD, and for the     *)
(* cache runner the new mel frames.                                           *)
LEMMA BeginStepKeeps ==
  ASSUME StreamInv, phase = "idle", ending' \in BOOLEAN, BeginStep
  PROVE  StreamInv'
<1> DEFINE M == FramesOf(audio.end)
<1>1. /\ phase' = "chunks" /\ cfg' = cfg /\ dec' = dec /\ decoded' = decoded
      /\ mel' = IF IsCache THEN WithNewFrames ELSE mel
      /\ audio' = IF HasVad /\ (IsCache => ending' \/ NewFrames # <<>>)
                  THEN [audio EXCEPT !.vad = audio.end] ELSE audio
  BY DEF BeginStep, input, decoding
<1>2. StreamTypes /\ FrontEnd
  BY DEF StreamInv
<1>3. audio \in Audios /\ audio.base \in Nat /\ audio.end \in Nat /\ M \in Nat
      /\ mel \in Mels /\ mel.made \in Nat
  BY <1>2, Fields, FramesReach DEF StreamTypes
<1>4. audio' \in Audios /\ audio'.base = audio.base /\ audio'.end = audio.end
  BY <1>1, <1>3 DEF Audios
<1>5. IsCache' = IsCache /\ FlushPad' = FlushPad
  BY <1>1 DEF IsCache, FlushPad, ChunkFrames
<1>6. WithNewFrames \in Mels /\ WithNewFrames.made = M
  BY <1>2, Extended
<1>7. mel' \in Mels /\ (IsCache => mel'.made = M) /\ (~IsCache => mel' = mel)
  BY <1>1, <1>3, <1>6
<1>8. StreamTypes'
  BY <1>1, <1>2, <1>4, <1>7 DEF StreamTypes, StreamPhases
<1> HIDE DEF M
<1>9. mel.made <= M /\ audio.base <= Larger(mel.made * Hop - Half, 0)
  BY <1>2 DEF FrontEnd, M
<1>10. mel'.made \in Nat /\ mel'.made <= M /\ mel.made <= mel'.made
  BY <1>3, <1>7, <1>9
<1>11. FrontEnd'
  <2>1. Larger(mel.made * Hop - Half, 0) <= Larger(mel'.made * Hop - Half, 0)
    <3>1. mel.made * Hop <= mel'.made * Hop /\ mel.made * Hop \in Int /\ mel'.made * Hop \in Int
      BY <1>3, <1>10, Geometry, TimesMonotone
    <3>2. Half \in Nat
      BY Geometry
    <3>3. QED
      BY <3>1, <3>2 DEF Larger
  <2>2. audio.base <= Larger(mel'.made * Hop - Half, 0)
    <3>1. Larger(mel.made * Hop - Half, 0) \in Int /\ Larger(mel'.made * Hop - Half, 0) \in Int
      <4>1. mel.made * Hop \in Int /\ mel'.made * Hop \in Int /\ Half \in Nat
        <5>1. Hop \in Nat /\ Half \in Nat
          BY Geometry
        <5>2. QED
          BY <5>1, <1>3, <1>10
      <4> DEFINE e == mel.made * Hop - Half
                 f == mel'.made * Hop - Half
      <4>2. e \in Int /\ f \in Int
        BY <4>1
      <4> HIDE DEF e, f
      <4>3. Larger(e, 0) \in Int /\ Larger(f, 0) \in Int
        BY <4>2, LargerIs
      <4>4. QED
        BY <4>3 DEF e, f
    <3>2. QED
      BY <2>1, <3>1, <1>3, <1>9
  <2>3. (mel.made <= FramesOf(audio.end))' /\ (IsCache => FramesOf(audio.end) = mel.made)'
    BY <1>4, <1>5, <1>7, <1>10 DEF M
  <2>4. (audio.base <= Larger(mel.made * Hop - Half, 0))'
    BY <1>4, <2>2
  <2>5. QED
    BY <2>3, <2>4 DEF FrontEnd
<1>12. IsCache => /\ Holds(mel, dec) /\ Unpadded(mel, dec) /\ Len(decoded) = dec.frames
                  /\ Given(decoded, TRUE, mel.made)
  <2>1. CASE IsCache
    BY <2>1 DEF StreamInv, CacheHead
  <2>2. QED
    BY <2>1
<1>13. CacheHead'
  <2>1. CASE IsCache
    <3>1. Holds(WithNewFrames, dec) /\ Unpadded(WithNewFrames, dec)
      BY <2>1, <1>2, <1>12, NewFramesContinue
    <3>2. Holds(mel', dec') /\ Unpadded(mel', dec') /\ Len(decoded') = dec'.frames
      BY <2>1, <3>1, <1>1, <1>12
    <3>3. QED
      BY <3>2, <1>1 DEF CacheHead
  <2>2. CASE ~IsCache
    BY <2>2, <1>5 DEF CacheHead
  <2>3. QED
    BY <2>1, <2>2
<1>14. BufferedHead'
  <2>1. CASE IsCache
    BY <2>1, <1>5 DEF BufferedHead
  <2>2. CASE ~IsCache
    BY <2>2, <1>1, <1>7 DEF StreamInv, BufferedHead
  <2>3. QED
    BY <2>1, <2>2
<1>15. Given(decoded, IsCache, mel.made)'
  <2>1. CASE IsCache
    <3>1. Given(decoded, TRUE, mel'.made)
      BY <2>1, <1>2, <1>10, <1>12, GivenStays
    <3>2. QED
      BY <2>1, <3>1, <1>1, <1>5
  <2>2. CASE ~IsCache
    BY <2>2, <1>1, <1>5, <1>7 DEF StreamInv
  <2>3. QED
    BY <2>1, <2>2
<1>16. NothingLeft'
  BY <1>1 DEF NothingLeft
<1>17. QED
  BY <1>8, <1>11, <1>13, <1>14, <1>15, <1>16 DEF StreamInv

(* The head is given these frames.                                            *)
LEMMA Decoded ==
  ASSUME NEW frames, Decode(frames)
  PROVE  decoded' = decoded \o frames
BY DEF Decode

(* One turn of the loop in step().                                            *)
LEMMA ProcessChunkIs ==
  ASSUME ProcessChunk
  PROVE  /\ phase = "chunks" /\ ChunkReady /\ phase' \in {"chunks", "fired"}
         /\ cfg' = cfg /\ ending' = ending /\ audio' = audio /\ result' = result
         /\ dec' = IF IsCache
                   THEN [dec EXCEPT !.first = FALSE, !.frames = @ + ChunkFrames]
                   ELSE [dec EXCEPT !.start = @ + Chunk]
         /\ mel' = IF IsCache THEN AfterChunkMel ELSE WithNewFrames
         /\ decoded' = decoded \o (IF IsCache THEN CacheFrames
                                   ELSE WindowFrames(LeftEdge, dec.start + Chunk + RightPad, FALSE))
<1> DEFINE frames == IF IsCache THEN CacheFrames
                     ELSE WindowFrames(LeftEdge, dec.start + Chunk + RightPad, FALSE)
           ws     == words \o WordsOf(frames)
<1>1. /\ phase = "chunks" /\ ChunkReady
      /\ cfg' = cfg /\ ending' = ending /\ audio' = audio /\ result' = result
      /\ dec' = IF IsCache
                THEN [dec EXCEPT !.first = FALSE, !.frames = @ + ChunkFrames]
                ELSE [dec EXCEPT !.start = @ + Chunk]
      /\ mel' = IF IsCache THEN AfterChunkMel ELSE WithNewFrames
      /\ Decode(frames)
      /\ IF ending \/ ep.pending
         THEN NoPoll(ws, "chunks")
         ELSE Poll(ws, dec', "fired", "chunks")
  BY DEF ProcessChunk, input
<1> HIDE DEF frames, ws
<1>2. phase' \in {"chunks", "fired"}
  <2>1. NoPoll(ws, "chunks") => phase' = "chunks"
    BY DEF NoPoll
  <2>2. Poll(ws, dec', "fired", "chunks") => phase' \in {"chunks", "fired"}
    BY DEF Poll
  <2>3. QED
    BY <2>1, <2>2, <1>1
<1>3. decoded' = decoded \o frames
  BY <1>1, Decoded
<1>4. QED
  BY <1>1, <1>2, <1>3 DEF frames

(* What the buffer holds, with some padding, when its head moves on.          *)
LEMMA MovesOn ==
  ASSUME NEW old \in Int, NEW new \in Int, NEW from \in Int, NEW to \in Int,
         NEW made \in Int, NEW pad \in Int,
         old = made - from + pad, new + to = old + from
  PROVE  new = made - to + pad
OBVIOUS

(* The cache runner takes a chunk: in step(), and in finalize().              *)
LEMMA CacheChunk ==
  ASSUME StreamInv, IsCache, ChunkReady, phase \in {"chunks", "flush"},
         cfg' = cfg, audio' = audio, ending' \in BOOLEAN,
         phase' = phase \/ (phase = "chunks" /\ phase' = "fired"),
         dec' = [dec EXCEPT !.first = FALSE, !.frames = @ + ChunkFrames],
         mel' = AfterChunkMel, decoded' = decoded \o CacheFrames
  PROVE  StreamInv'
<1> DEFINE L == Len(mel.buf) - mel.off
           L2 == Len(mel'.buf) - mel'.off
           H == HeadFrame(dec)
           H2 == HeadFrame(dec')
           made == mel.made
<1>1. /\ StreamTypes /\ FrontEnd /\ Holds(mel, dec) /\ Len(decoded) = dec.frames
      /\ Given(decoded, TRUE, made)
      /\ phase # "flush" => Unpadded(mel, dec)
      /\ phase = "flush" => Padded(mel, dec, FlushPad)
  BY DEF StreamInv, CacheHead
<1>2. Len(mel.buf) - mel.off >= NextChunkMel
  BY DEF ChunkReady
<1>3. /\ dec \in Decodings /\ dec.frames \in Nat /\ ChunkFrames \in Nat /\ PreEncode \in Nat
      /\ decoded \in Seq(Frames) /\ made \in Nat
      /\ mel.off \in Nat /\ Len(mel.buf) \in Nat
  BY <1>1, Fields, Geometry DEF StreamTypes
<1>4. /\ dec' \in Decodings /\ dec'.first = FALSE /\ dec'.frames = dec.frames + ChunkFrames
  <2>1. dec.frames + ChunkFrames \in Nat
    BY <1>3
  <2> HIDE DEF L, L2, H, H2, made
  <2>2. dec' = [dec EXCEPT !.first = FALSE, !.frames = dec.frames + ChunkFrames]
    BY <1>3 DEF Decodings
  <2>3. QED
    BY <2>1, <2>2, <1>3 DEF Decodings
<1>5. /\ mel' \in Mels /\ mel'.made = made /\ Holds(mel', dec')
      /\ L2 + H2 = L + H /\ L2 >= PreEncode
  BY <1>1, <1>2, <1>4, AfterChunkIs
<1>6. H \in Int /\ H2 \in Int
  BY <1>1, <1>4, NextHead
<1>7. L \in Int /\ L2 \in Int
  BY <1>3, <1>5, SMTT(30) DEF Mels
<1>8. /\ CacheFrames \in Seq(Frames) /\ Len(CacheFrames) = ChunkFrames
      /\ \A k \in 1 .. ChunkFrames :
           /\ CacheFrames[k].at = dec.frames + k - 1
           /\ CacheFrames[k].sees = SeesAt(made, dec.frames + k - 1)
  BY <1>1, <1>2, CacheFramesAre
<1>9. /\ Given(decoded', TRUE, made) /\ decoded' \in Seq(Frames)
      /\ Len(decoded') = dec.frames + ChunkFrames
  <2>1. \A k \in 1 .. Len(CacheFrames) :
          /\ CacheFrames[k].at = Len(decoded) + k - 1
          /\ CacheFrames[k].sees = SeesOf(TRUE, made, Len(decoded) + k - 1)
    BY <1>1, <1>8 DEF SeesOf
  <2> HIDE DEF made
  <2>2. QED
    BY <2>1, <1>1, <1>3, <1>8, GivenMore
<1>10. IsCache' = IsCache /\ FlushPad' = FlushPad
  BY DEF IsCache, FlushPad, ChunkFrames
<1>11. StreamTypes'
  BY <1>1, <1>4, <1>5, <1>9 DEF StreamTypes, StreamPhases
<1>12. FrontEnd'
  BY <1>1, <1>5, <1>10 DEF FrontEnd
<1> HIDE DEF L, L2, H, H2, made
<1>13. CASE phase = "flush"
  <2>1. phase' = "flush" /\ L >= 1 /\ FlushPad \in Int
    <3>1. NextChunkMel \in Nat /\ NextChunkMel >= 1 /\ Sub * ChunkFrames \in Int
      BY <1>1, ChunkSizes, Geometry, SMTT(30)
    <3>2. QED
      BY <3>1, <1>2, <1>3, <1>13, SMTT(30) DEF L, FlushPad
  <2>2. L = made - H + FlushPad
    BY <2>1, <1>1, <1>3, <1>13 DEF Padded, L, H, made
  <2>3. L2 = made - H2 + FlushPad
    <3> DEFINE p == FlushPad
    <3>1. p \in Int /\ made \in Int /\ L = made - H + p /\ L2 + H2 = L + H
      BY <2>1, <2>2, <1>3, <1>5
    <3> HIDE DEF p
    <3>2. L2 = made - H2 + p
      <4>1. L \in Int /\ L2 \in Int /\ H \in Int /\ H2 \in Int /\ made \in Int /\ p \in Int
        BY <3>1, <1>6, <1>7
      <4>2. L = made - H + p
        BY <3>1
      <4>3. L2 + H2 = L + H
        BY <3>1
      <4>4. QED
        BY <4>1, <4>2, <4>3, MovesOn, SMTT(30)
    <3>3. QED
      BY <3>2 DEF p
  <2>4. Padded(mel', dec', FlushPad)
    BY <2>3, <1>5 DEF Padded, L2, H2
  <2>5. CacheHead'
    BY <2>1, <2>4, <1>4, <1>5, <1>9, <1>10 DEF CacheHead
  <2>6. BufferedHead' /\ NothingLeft'
    BY <2>1, <1>10 DEF BufferedHead, NothingLeft
  <2>7. Given(decoded, IsCache, mel.made)'
    BY <1>5, <1>9, <1>10
  <2>8. QED
    BY <2>5, <2>6, <2>7, <1>11, <1>12 DEF StreamInv
<1>14. CASE phase = "chunks"
  <2>1. phase' \in {"chunks", "fired"}
    BY <1>14
  <2>2. L = made - H
    BY <1>1, <1>14 DEF Unpadded, L, H, made
  <2>3. L2 = made - H2 /\ made - H2 >= PreEncode
    BY <2>2, <1>3, <1>5, <1>6, <1>7, SMTT(30)
  <2>4. Unpadded(mel', dec')
    BY <2>3, <1>5 DEF Unpadded, L2, H2
  <2>5. CacheHead'
    BY <2>1, <2>4, <1>4, <1>5, <1>9, <1>10 DEF CacheHead
  <2>6. BufferedHead' /\ NothingLeft'
    BY <2>1, <1>10 DEF BufferedHead, NothingLeft
  <2>7. Given(decoded, IsCache, mel.made)'
    BY <1>5, <1>9, <1>10
  <2>8. QED
    BY <2>5, <2>6, <2>7, <1>11, <1>12 DEF StreamInv
<1>15. QED
  BY <1>13, <1>14

LEMMA FlushChunkKeeps ==
  ASSUME StreamInv, FlushChunk
  PROVE  StreamInv'
<1>1. /\ phase = "flush" /\ ChunkReady /\ phase' = phase /\ cfg' = cfg /\ ending' = ending
      /\ audio' = audio /\ mel' = AfterChunkMel
      /\ dec' = [dec EXCEPT !.first = FALSE, !.frames = @ + ChunkFrames]
      /\ Decode(CacheFrames)
  BY DEF FlushChunk, input
<1>2. decoded' = decoded \o CacheFrames
  BY <1>1, Decoded
<1>3. IsCache /\ ending \in BOOLEAN
  BY <1>1 DEF StreamInv, BufferedHead, StreamTypes
<1>4. QED
  BY <1>1, <1>2, <1>3, CacheChunk

(* The buffered runner takes a chunk: a window around the cursor.             *)
LEMMA BufferedChunk ==
  ASSUME StreamInv, ~IsCache, ChunkReady, phase = "chunks", phase' \in {"chunks", "fired"},
         cfg' = cfg, audio' = audio, ending' \in BOOLEAN,
         dec' = [dec EXCEPT !.start = @ + Chunk], mel' = WithNewFrames,
         decoded' = decoded \o WindowFrames(LeftEdge, dec.start + Chunk + RightPad, FALSE)
  PROVE  StreamInv'
<1> DEFINE n == Len(decoded)
           c == Chunk \div FrameSamples
           hi == dec.start + Chunk + RightPad
           w == WindowFrames(LeftEdge, dec.start + Chunk + RightPad, FALSE)
<1>1. /\ StreamTypes /\ FrontEnd /\ Window(mel, dec, n)
      /\ Given(decoded, FALSE, mel.made)
  BY DEF StreamInv, BufferedHead, Given, SeesOf
<1>2. hi <= audio.end
  BY DEF ChunkReady
<1>3. /\ dec \in Decodings /\ dec.start \in Nat /\ Chunk \in Nat /\ RightPad \in Nat
      /\ decoded \in Seq(Frames) /\ n \in Nat /\ hi \in Int /\ mel.made \in Nat
  BY <1>1, Fields, Geometry DEF StreamTypes
<1>4. WholeFrameWindows /\ n * FrameSamples = dec.start
  BY <1>1 DEF Window
<1>5. /\ Emitted(LeftEdge, hi, FALSE) = c
      /\ (n + c) * FrameSamples = dec.start + Chunk
  BY <1>1, <1>2, <1>3, <1>4, ChunkEmitted
<1>6. /\ w \in Seq(Frames) /\ Len(w) = Emitted(LeftEdge, hi, FALSE)
      /\ Emitted(LeftEdge, hi, FALSE) \in Nat
      /\ \A t \in 1 .. Emitted(LeftEdge, hi, FALSE) :
           w[t].at = n + t - 1 /\ w[t].sees = <<(n + t - 1) * Sub>>
  BY <1>1, <1>3, WindowFramesAre
<1> HIDE DEF w, hi, c
<1>7. dec' \in Decodings /\ dec'.start = dec.start + Chunk
  <2>1. dec.start + Chunk \in Nat
    BY <1>3
  <2>2. dec' = [dec EXCEPT !.start = dec.start + Chunk]
    BY <1>3 DEF Decodings
  <2>3. QED
    BY <2>1, <2>2, <1>3 DEF Decodings
<1>8. mel' \in Mels /\ mel'.made = FramesOf(audio.end) /\ mel.made <= mel'.made
  BY <1>1, Extended DEF FrontEnd
<1>9. /\ Given(decoded \o w, FALSE, mel.made) /\ decoded \o w \in Seq(Frames)
      /\ Len(decoded \o w) = n + Len(w)
  <2>1. \A k \in 1 .. Len(w) : /\ w[k].at = Len(decoded) + k - 1
                               /\ w[k].sees = SeesOf(FALSE, mel.made, Len(decoded) + k - 1)
    BY <1>6 DEF SeesOf
  <2>2. QED
    BY <2>1, <1>1, <1>3, <1>6, GivenMore
<1>10. /\ decoded' = decoded \o w /\ decoded' \in Seq(Frames)
       /\ Len(decoded') = n + c
  BY <1>5, <1>6, <1>9 DEF w
<1>11. IsCache' = IsCache
  BY DEF IsCache
<1>12. Given(decoded', FALSE, mel'.made)
  BY <1>9, <1>10 DEF Given, SeesOf
<1>13. Window(mel', dec', Len(decoded'))
  <2>1. (n + c) * FrameSamples = dec'.start /\ dec.start <= dec'.start
    BY <1>3, <1>5, <1>7
  <2>2. QED
    BY <2>1, <1>1, <1>7, <1>10, NewFramesInWindow
<1>14. StreamTypes'
  BY <1>1, <1>7, <1>8, <1>10 DEF StreamTypes, StreamPhases
<1>15. FrontEnd'
  BY <1>1, <1>8, <1>11, AllMade
<1>16. CacheHead' /\ BufferedHead' /\ NothingLeft'
  BY <1>11, <1>13 DEF CacheHead, BufferedHead, NothingLeft
<1>17. Given(decoded, IsCache, mel.made)'
  BY <1>11, <1>12 DEF Given, SeesOf
<1>18. QED
  BY <1>14, <1>15, <1>16, <1>17 DEF StreamInv

LEMMA ProcessChunkKeeps ==
  ASSUME StreamInv, ProcessChunk
  PROVE  StreamInv'
<1>1. /\ phase = "chunks" /\ ChunkReady /\ phase' \in {"chunks", "fired"}
      /\ cfg' = cfg /\ ending' = ending /\ audio' = audio /\ result' = result
      /\ dec' = IF IsCache
                THEN [dec EXCEPT !.first = FALSE, !.frames = @ + ChunkFrames]
                ELSE [dec EXCEPT !.start = @ + Chunk]
      /\ mel' = IF IsCache THEN AfterChunkMel ELSE WithNewFrames
      /\ decoded' = decoded \o (IF IsCache THEN CacheFrames
                                ELSE WindowFrames(LeftEdge, dec.start + Chunk + RightPad, FALSE))
  BY ProcessChunkIs
<1>2. ending' \in BOOLEAN
  BY <1>1 DEF StreamInv, StreamTypes
<1>3. CASE IsCache
  <2>1. phase' = phase \/ (phase = "chunks" /\ phase' = "fired")
    BY <1>1
  <2>2. /\ dec' = [dec EXCEPT !.first = FALSE, !.frames = @ + ChunkFrames]
        /\ mel' = AfterChunkMel /\ decoded' = decoded \o CacheFrames
    BY <1>1, <1>3
  <2>3. QED
    BY <1>1, <1>2, <1>3, <2>1, <2>2, CacheChunk
<1>4. CASE ~IsCache
  <2>1. /\ dec' = [dec EXCEPT !.start = @ + Chunk] /\ mel' = WithNewFrames
        /\ decoded' = decoded \o WindowFrames(LeftEdge, dec.start + Chunk + RightPad, FALSE)
    BY <1>1, <1>4
  <2>2. QED
    BY <1>1, <1>2, <1>4, <2>1, BufferedChunk
<1>5. QED
  BY <1>3, <1>4

(* The loop is over: whether a chunk is ready has not changed.                *)
LEMMA LastPollKeeps ==
  ASSUME StreamInv, LastPoll
  PROVE  StreamInv'
<1>1. /\ phase = "chunks" /\ ~ChunkReady /\ cfg' = cfg /\ ending' = ending /\ audio' = audio
      /\ mel' = mel /\ dec' = dec /\ decoded' = decoded
      /\ IF ending THEN NoPoll(words, "trim") ELSE Poll(words, dec, "fired", "trim")
  BY DEF LastPoll, input, buffers
<1>2. phase' \in {"trim", "fired"}
  <2>1. NoPoll(words, "trim") => phase' = "trim"
    BY DEF NoPoll
  <2>2. Poll(words, dec, "fired", "trim") => phase' \in {"trim", "fired"}
    BY DEF Poll
  <2>3. QED
    BY <2>1, <2>2, <1>1
<1>3. ChunkReady' = ChunkReady
  BY <1>1 DEF ChunkReady, NextChunkMel, IsCache, ChunkFrames
<1>4. NothingLeft'
  BY <1>1, <1>2, <1>3 DEF NothingLeft
<1>5. ending' \in BOOLEAN /\ phase' \in StreamPhases
  BY <1>1, <1>2 DEF StreamInv, StreamTypes, StreamPhases
<1>6. QED
  BY <1>1, <1>2, <1>4, <1>5, SameBuffers

(* trim_buffers keeps what the front end reads next.                          *)
LEMMA KeepFromIs ==
  ASSUME StreamTypes
  PROVE  KeepFrom \in Nat /\ KeepFrom <= Larger(mel.made * Hop - Half, 0)
<1> DEFINE e == mel.made * Hop - Half
           fe == Larger(0, e)
<1>1. /\ mel.made \in Nat /\ audio.vad \in Nat /\ dec.start \in Nat
      /\ Hop \in Nat /\ Half \in Nat /\ Left \in Nat
  BY Fields, Geometry
<1>2. mel.made * Hop \in Int
  BY <1>1
<1>3. e \in Int
  BY <1>1, <1>2
<1> HIDE DEF e
<1>4. fe \in Nat /\ fe = Larger(e, 0)
  BY <1>3 DEF Larger
<1>5. LeftEdge \in Nat
  BY <1>1 DEF LeftEdge, Larger
<1> HIDE DEF fe
<1> DEFINE kept == IF IsCache THEN fe ELSE Smaller(LeftEdge, fe)
<1>6. kept \in Nat /\ kept <= fe
  BY <1>4, <1>5 DEF Smaller
<1> HIDE DEF kept
<1>7. KeepFrom = IF HasVad THEN Smaller(kept, audio.vad) ELSE kept
  BY DEF KeepFrom, kept, fe, e
<1>8. KeepFrom \in Nat /\ KeepFrom <= fe
  BY <1>1, <1>4, <1>6, <1>7 DEF Smaller
<1>9. QED
  BY <1>4, <1>8 DEF e

(* step() trims and returns: it says that it needs more audio, or returns an  *)
(* interim result, only after the loop has ended.                             *)
LEMMA EndStepKeeps ==
  ASSUME StreamInv, EndStep
  PROVE  StreamInv'
<1> DEFINE n == Len(decoded)
<1>1. /\ phase \in {"fired", "trim"} /\ cfg' = cfg /\ ending' = ending
      /\ dec' = dec /\ decoded' = decoded
      /\ audio' = [audio EXCEPT !.base = Larger(@, KeepFrom)]
      /\ mel' = TrimmedMel
      /\ phase' \in {"tail", "idle"}
      /\ phase' = "idle" /\ result' \in {"none", "interim"} => phase = "trim"
  BY DEF EndStep, input, decoding
<1>2. StreamTypes /\ FrontEnd
  BY DEF StreamInv
<1>3. /\ audio \in Audios /\ audio.base \in Nat /\ audio.end \in Nat
      /\ mel \in Mels /\ mel.made \in Nat /\ n \in Nat
  BY <1>2, Fields DEF StreamTypes
<1>4. KeepFrom \in Nat /\ KeepFrom <= Larger(mel.made * Hop - Half, 0)
  BY <1>2, KeepFromIs
<1>5. audio.base <= Larger(mel.made * Hop - Half, 0)
  BY <1>2 DEF FrontEnd
<1>6. Larger(audio.base, KeepFrom) \in Nat
  BY <1>3, <1>4 DEF Larger
<1>7. audio' \in Audios /\ audio'.end = audio.end /\ audio'.base = Larger(audio.base, KeepFrom)
  BY <1>1, <1>3, <1>6 DEF Audios
<1>8. IsCache' = IsCache /\ FlushPad' = FlushPad
  BY <1>1 DEF IsCache, FlushPad, ChunkFrames
<1>9. /\ mel' \in Mels /\ mel'.made = mel.made /\ CacheHead' /\ BufferedHead'
      /\ ChunkReady' <=> ChunkReady
  <2>1. CASE IsCache
    <3>1. Holds(mel, dec) /\ Unpadded(mel, dec) /\ Len(decoded) = dec.frames
      BY <1>1, <2>1 DEF StreamInv, CacheHead
    <3>2. /\ mel' \in Mels /\ Holds(mel', dec') /\ mel'.made = mel.made
          /\ Len(mel'.buf) - mel'.off = Len(mel.buf) - mel.off
      BY <3>1, <1>1, <1>2, <2>1, TrimKeepsHead
    <3>3. Unpadded(mel', dec')
      BY <3>1, <3>2, <1>1 DEF Unpadded
    <3>4. CacheHead' /\ BufferedHead'
      BY <3>1, <3>2, <3>3, <1>1, <1>8, <2>1 DEF CacheHead, BufferedHead
    <3>5. ChunkReady' <=> ChunkReady
      BY <3>2, <1>1, <1>8, <2>1 DEF ChunkReady, NextChunkMel, ChunkFrames
    <3>6. QED
      BY <3>2, <3>4, <3>5
  <2>2. CASE ~IsCache
    <3>1. Window(mel, dec, n)
      BY <1>1, <2>2 DEF StreamInv, BufferedHead
    <3>2. mel' \in Mels /\ Window(mel', dec', n) /\ mel'.made = mel.made
      BY <3>1, <1>1, <1>2, <1>3, <2>2, TrimKeepsWindow
    <3>3. CacheHead' /\ BufferedHead'
      BY <3>2, <1>1, <1>8, <2>2 DEF CacheHead, BufferedHead
    <3>4. ChunkReady' <=> ChunkReady
      BY <1>1, <1>7, <1>8, <2>2 DEF ChunkReady
    <3>5. QED
      BY <3>2, <3>3, <3>4
  <2>3. QED
    BY <2>1, <2>2
<1>10. StreamTypes'
  BY <1>1, <1>2, <1>7, <1>9 DEF StreamTypes, StreamPhases
<1>11. FrontEnd'
  <2>1. audio'.base <= Larger(mel.made * Hop - Half, 0)
    BY <1>4, <1>5, <1>7 DEF Larger
  <2>2. IsCache => FramesOf(audio.end) = mel.made
    BY <1>1, <1>2 DEF FrontEnd
  <2>3. QED
    BY <2>1, <2>2, <1>2, <1>7, <1>8, <1>9 DEF FrontEnd
<1>12. NothingLeft'
  <2>1. phase' = "idle" /\ result' \in {"none", "interim"}
          => ~ChunkReady /\ (IsCache => FramesOf(audio.end) = mel.made)
    BY <1>1, <1>2 DEF StreamInv, NothingLeft, FrontEnd
  <2>2. QED
    BY <2>1, <1>1, <1>7, <1>8, <1>9 DEF NothingLeft
<1>13. Given(decoded, IsCache, mel.made)'
  BY <1>1, <1>8, <1>9 DEF StreamInv
<1>14. QED
  BY <1>9, <1>10, <1>11, <1>12, <1>13 DEF StreamInv

LEMMA PadTailKeeps ==
  ASSUME StreamInv, PadTail
  PROVE  StreamInv'
<1>1. /\ phase = "tail" /\ IsCache /\ cfg' = cfg /\ ending' = ending /\ audio' = audio
      /\ dec' = dec /\ decoded' = decoded /\ phase' = "flush"
      /\ mel' = IF Len(mel.buf) > mel.off
                THEN [mel EXCEPT !.buf = @ \o [i \in 1 .. FlushPad |-> Pad]] ELSE mel
  BY DEF PadTail, input, decoding
<1>2. /\ StreamTypes /\ FrontEnd /\ Holds(mel, dec) /\ Unpadded(mel, dec)
      /\ Len(decoded) = dec.frames
  BY <1>1 DEF StreamInv, CacheHead
<1>3. mel' \in Mels /\ mel'.made = mel.made /\ Holds(mel', dec) /\ Padded(mel', dec, FlushPad)
  BY <1>1, <1>2, PadKeepsHead
<1>4. IsCache' = IsCache /\ FlushPad' = FlushPad
  BY <1>1 DEF IsCache, FlushPad, ChunkFrames
<1>5. StreamTypes'
  BY <1>1, <1>2, <1>3 DEF StreamTypes, StreamPhases
<1>6. FrontEnd'
  BY <1>1, <1>2, <1>3, <1>4 DEF FrontEnd
<1>7. CacheHead' /\ BufferedHead' /\ NothingLeft'
  BY <1>1, <1>2, <1>3, <1>4 DEF CacheHead, BufferedHead, NothingLeft
<1>8. Given(decoded, IsCache, mel.made)'
  BY <1>1, <1>3, <1>4 DEF StreamInv
<1>9. QED
  BY <1>5, <1>6, <1>7, <1>8 DEF StreamInv

(* finalize() of the cache runner is done: the padding let through every real *)
(* frame and one of zeros.                                                    *)
LEMMA FlushDoneKeeps ==
  ASSUME StreamInv, FlushDone
  PROVE  StreamInv'
<1> DEFINE made == mel.made
           F == dec.frames
           L == Len(mel.buf) - mel.off
           R == Sub * cfg.right
           q == (made - 1) \div Sub
<1>1. /\ phase = "flush" /\ ~ChunkReady /\ cfg' = cfg /\ ending' = ending /\ audio' = audio
      /\ mel' = mel /\ dec' = dec /\ decoded' = decoded /\ phase' = "closed"
  BY DEF FlushDone, Close, input, buffers
<1>2. IsCache /\ StreamTypes
  BY <1>1 DEF StreamInv, BufferedHead
<1>3. Holds(mel, dec) /\ Padded(mel, dec, FlushPad) /\ Len(decoded) = F
  BY <1>1, <1>2 DEF StreamInv, CacheHead
<1>4. /\ made \in Nat /\ F \in Nat /\ L \in Int /\ dec.first \in BOOLEAN /\ Sub \in Nat \ {0}
      /\ PreEncode = Sub + 1 /\ R \in Nat /\ Sub * ChunkFrames = Sub + R /\ NextChunkMel \in Nat
      /\ dec.first => NextChunkMel = 1 + R
      /\ ~dec.first => NextChunkMel = PreEncode + Sub * ChunkFrames
  BY <1>2, Fields, Geometry, ChunkSizes, SMTT(30)
<1>5. L < NextChunkMel
  BY <1>1, <1>2, <1>4 DEF ChunkReady
<1>6. FlushPad = Sub + 1 + Sub + R + Sub + R
  BY <1>4 DEF FlushPad
<1> HIDE DEF made, F, L, R, q
<1>7. Len(decoded') >= RealFrames' + (IF IsCache' /\ mel'.made > 0 THEN 1 ELSE 0)
  <2>1. CASE made = 0
    <3>1. RealFrames' = 0 /\ mel'.made = 0
      BY <1>1, <2>1 DEF RealFrames, made
    <3>2. Len(decoded') >= 0
      BY <1>1, <1>3, <1>4
    <3>3. QED
      BY <3>1, <3>2
  <2>2. CASE made > 0
    <3>1. L = made - HeadFrame(dec) + FlushPad
      BY <1>3, <2>2, <1>4 DEF Padded, L, made
    <3>2. ~dec.first
      <4>1. SUFFICES ASSUME dec.first PROVE FALSE
        BY <1>4
      <4>2. HeadFrame(dec) = 0
        BY <4>1 DEF HeadFrame
      <4>3. QED
        BY <4>1, <4>2, <3>1, <1>4, <1>5, <1>6, <2>2
    <3>3. HeadFrame(dec) = F * Sub - 2 * Sub /\ F * Sub \in Int
      BY <3>2, <1>4, Distribute DEF HeadFrame, F
    <3>4. made + Sub <= F * Sub
      BY <3>1, <3>2, <3>3, <1>4, <1>5, <1>6
    <3>5. q \in Int /\ q * Sub <= made - 1 /\ q * Sub \in Int
      <4>1. made - 1 \in Int
        BY <1>4
      <4>2. q \in Int /\ q * Sub <= made - 1
        BY <4>1, <1>4, Quotient DEF q
      <4>3. QED
        BY <4>2, <1>4
    <3>6. (q + 1) * Sub = q * Sub + 1 * Sub
      BY <3>5, <1>4, Distribute
    <3>7. (q + 1) * Sub < F * Sub
      BY <3>3, <3>4, <3>5, <3>6, <1>4
    <3>8. q + 1 < F
      <4>1. q + 1 \in Int /\ F \in Int
        BY <3>5, <1>4
      <4>2. QED
        BY <4>1, <3>7, <1>4, TimesCancels
    <3>9. RealFrames' = q + 1
      BY <1>1, <2>2 DEF RealFrames, q, made
    <3>10. QED
      BY <3>5, <3>8, <3>9, <1>1, <1>3, <1>4
  <2>3. QED
    BY <2>1, <2>2, <1>4
<1>8. NothingLeft'
  BY <1>1, <1>7 DEF NothingLeft
<1>9. ending' \in BOOLEAN /\ phase' \in StreamPhases
  BY <1>1 DEF StreamInv, StreamTypes, StreamPhases
<1>10. QED
  BY <1>1, <1>8, <1>9, SameBuffers

(* finalize() of the buffered runner: the last window emits what is left, and *)
(* without one nothing was.                                                   *)
LEMMA TailWindowKeeps ==
  ASSUME StreamInv, TailWindow
  PROVE  StreamInv'
<1> DEFINE n == Len(decoded)
           M == FramesOf(audio.end)
           w == WindowFrames(LeftEdge, audio.end, TRUE)
<1>1. /\ phase = "tail" /\ ~IsCache /\ cfg' = cfg /\ ending' = ending /\ audio' = audio
      /\ phase' = "closed"
      /\ IF dec.start < audio.end
         THEN mel' = WithNewFrames /\ dec' = [dec EXCEPT !.start = audio.end] /\ Decode(w)
         ELSE mel' = mel /\ dec' = dec /\ decoded' = decoded
  BY DEF TailWindow, Close, input
<1>2. StreamTypes /\ FrontEnd /\ Window(mel, dec, n) /\ Given(decoded, FALSE, mel.made)
  BY <1>1 DEF StreamInv, BufferedHead, Given, SeesOf
<1>3. /\ dec \in Decodings /\ dec.start \in Nat /\ audio.end \in Nat /\ mel.made \in Nat
      /\ decoded \in Seq(Frames) /\ n \in Nat /\ M \in Nat /\ mel.made <= M
      /\ ending' \in BOOLEAN
  BY <1>1, <1>2, Fields, FramesReach DEF StreamTypes, FrontEnd
<1>4. WholeFrameWindows /\ n * FrameSamples = dec.start
  BY <1>2 DEF Window
<1>5. IsCache' = IsCache
  BY <1>1 DEF IsCache
<1>6. CASE dec.start < audio.end
  <2>1. mel' = WithNewFrames /\ dec' = [dec EXCEPT !.start = audio.end] /\ decoded' = decoded \o w
    BY <1>1, <1>6, Decoded
  <2> DEFINE e == Emitted(LeftEdge, audio.end, TRUE)
  <2>2. /\ w \in Seq(Frames) /\ Len(w) = e /\ e \in Nat
        /\ \A t \in 1 .. e : w[t].at = n + t - 1 /\ w[t].sees = <<(n + t - 1) * Sub>>
    <3>1. audio.end \in Int /\ TRUE \in BOOLEAN
      BY <1>3
    <3>2. QED
      BY <3>1, <1>2, <1>3, WindowFramesAre, Zenon
  <2>3. mel' \in Mels /\ mel'.made = M
    BY <2>1, <1>2, Extended
  <2> HIDE DEF w, e, M
  <2>4. /\ Given(decoded', FALSE, mel.made) /\ decoded' \in Seq(Frames)
        /\ Len(decoded') = n + e
    <3>1. \A k \in 1 .. Len(w) : /\ w[k].at = Len(decoded) + k - 1
                                 /\ w[k].sees = SeesOf(FALSE, mel.made, Len(decoded) + k - 1)
      BY <2>2 DEF SeesOf
    <3>2. /\ Given(decoded \o w, FALSE, mel.made) /\ decoded \o w \in Seq(Frames)
          /\ Len(decoded \o w) = n + Len(w)
      BY <3>1, <1>2, <1>3, <2>2, GivenMore
    <3>3. QED
      BY <3>2, <2>1, <2>2
  <2>5. dec' \in Decodings
    BY <2>1, <1>3 DEF Decodings
  <2>6. StreamTypes'
    BY <2>3, <2>4, <2>5, <1>1, <1>2 DEF StreamTypes, StreamPhases
  <2>7. FrontEnd'
    BY <2>3, <1>1, <1>2, AllMade DEF M
  <2>8. n + e >= RealFrames'
    <3>1. CASE M = 0
      <4>1. RealFrames' = 0
        BY <3>1, <2>3 DEF RealFrames
      <4>2. QED
        BY <4>1, <2>2, <1>3
    <3>2. CASE M > 0
      <4>1. n + e >= (M - 1) \div Sub + 1
        BY <3>2, <1>2, <1>3, <1>4, TailEmitted DEF e, M
      <4>2. RealFrames' = (M - 1) \div Sub + 1
        BY <3>2, <2>3 DEF RealFrames
      <4>3. QED
        BY <4>1, <4>2
    <3>3. QED
      BY <3>1, <3>2, <1>3
  <2>9. NothingLeft'
    <3>1. RealFrames' \in Int
      <4>1. Sub \in Nat \ {0} /\ mel'.made \in Nat
        BY <2>3, <1>3, Geometry
      <4>2. mel'.made - 1 \in Int
        BY <4>1
      <4>3. (mel'.made - 1) \div Sub \in Int
        BY <4>1, <4>2, Quotient
      <4>4. QED
        BY <4>3 DEF RealFrames
    <3>2. Len(decoded') >= RealFrames' + (IF IsCache' /\ mel'.made > 0 THEN 1 ELSE 0)
      BY <3>1, <2>4, <2>8, <1>1, <1>5
    <3>3. QED
      BY <3>2, <1>1 DEF NothingLeft
  <2>10. CacheHead' /\ BufferedHead'
    BY <1>1, <1>5 DEF CacheHead, BufferedHead
  <2>11. Given(decoded, IsCache, mel.made)'
    BY <2>4, <1>1, <1>5 DEF Given, SeesOf
  <2>12. QED
    BY <2>6, <2>7, <2>9, <2>10, <2>11 DEF StreamInv
<1>7. CASE ~(dec.start < audio.end)
  <2>1. mel' = mel /\ dec' = dec /\ decoded' = decoded
    BY <1>1, <1>7
  <2> DEFINE made == mel.made
             q == (made - 1) \div Sub
  <2>2. RealFrames <= n /\ RealFrames \in Int
    <3>1. CASE made = 0
      BY <3>1, <1>3 DEF RealFrames
    <3>2. CASE made > 0
      <4>1. made - 1 \in Nat /\ made - 1 < M /\ Sub \in Nat \ {0} /\ Hop \in Nat /\ Half \in Nat \ {0}
            /\ FrameSamples \in Nat \ {0}
        BY <3>2, <1>3, Geometry
      <4>2. (made - 1) * Hop + Half <= audio.end
        BY <4>1, <1>3, FramesReach
      <4> HIDE DEF made, M
      <4>3. q \in Int /\ q * Sub <= made - 1
        BY <4>1, Quotient
      <4> HIDE DEF q
      <4>4. q * Sub \in Int /\ q * FrameSamples \in Int /\ q * FrameSamples = (q * Sub) * Hop
        BY <4>3, InHops
      <4>5. (q * Sub) * Hop <= (made - 1) * Hop
        BY <4>1, <4>3, <4>4, TimesMonotone
      <4>6. (made - 1) * Hop \in Int
        BY <4>1
      <4>7. q * FrameSamples < n * FrameSamples
        BY <4>1, <4>2, <4>4, <4>5, <4>6, <1>3, <1>4, <1>7, SMTT(30)
      <4>8. q < n
        <5>1. q \in Int /\ n \in Int /\ FrameSamples \in Nat \ {0}
          BY <4>1, <4>3, <1>3
        <5> HIDE DEF n
        <5>2. QED
          BY <5>1, <4>7, TimesCancels
      <4>9. RealFrames = q + 1
        BY <3>2 DEF RealFrames, q, made
      <4>10. QED
        BY <4>3, <4>8, <4>9, <1>3
    <3>3. QED
      BY <3>1, <3>2, <1>3
  <2>3. RealFrames' = RealFrames
    BY <2>1 DEF RealFrames
  <2>4. Len(decoded') >= RealFrames' + (IF IsCache' /\ mel'.made > 0 THEN 1 ELSE 0)
    BY <2>1, <2>2, <2>3, <1>1, <1>3, <1>5
  <2>5. NothingLeft'
    BY <2>4, <1>1 DEF NothingLeft
  <2>6. phase' \in StreamPhases
    BY <1>1 DEF StreamPhases
  <2>7. QED
    BY <2>1, <2>5, <2>6, <1>1, <1>3, SameBuffers
<1>8. QED
  BY <1>6, <1>7
-----------------------------------------------------------------------------
(* A stream keeps its model, and with it its head.                            *)
LEMMA HeadStays ==
  ASSUME [StreamNext]_streamVars
  PROVE  cfg' = cfg
BY DEF StreamNext, streamVars, input, Push, ForceEndpoint, Next_, Finish, BeginStep, ProcessChunk,
       LastPoll, EndStep, PadTail, FlushChunk, FlushDone, TailWindow, Reset, Close

LEMMA StreamNextKeeps ==
  ASSUME StreamInv, Covered', [StreamNext]_streamVars
  PROVE  StreamInv'
<1>1. CASE \E n \in Feeds : Push(n)
  BY <1>1, PushKeeps
<1>2. CASE ForceEndpoint
  BY <1>2, ForceEndpointKeeps
<1>3. CASE Next_
  <2>1. ending' \in BOOLEAN
    BY <1>3 DEF Next_, StreamInv, StreamTypes
  <2>2. QED
    BY <2>1, <1>3, BeginStepKeeps DEF Next_
<1>4. CASE Finish
  BY <1>4, BeginStepKeeps DEF Finish
<1>5. CASE ProcessChunk
  BY <1>5, ProcessChunkKeeps
<1>6. CASE LastPoll
  BY <1>6, LastPollKeeps
<1>7. CASE EndStep
  BY <1>7, EndStepKeeps
<1>8. CASE PadTail
  BY <1>8, PadTailKeeps
<1>9. CASE FlushChunk
  BY <1>9, FlushChunkKeeps
<1>10. CASE FlushDone
  BY <1>10, FlushDoneKeeps
<1>11. CASE TailWindow
  BY <1>11, TailWindowKeeps
<1>12. CASE Reset
  BY <1>12, ResetKeeps
<1>13. CASE UNCHANGED streamVars
  BY <1>13, StreamStutters
<1>14. QED
  BY <1>1, <1>2, <1>3, <1>4, <1>5, <1>6, <1>7, <1>8, <1>9, <1>10, <1>11, <1>12, <1>13
     DEF StreamNext

(* The mel buffer of either runner holds exactly the frames that the chunks   *)
(* and windows to come are computed from, and the audio buffer the samples    *)
(* that the frames to come are, whatever was pushed, trimmed or flushed       *)
(* (trim_buffers, produce_new_mel_frames, finalize): for a transducer in any  *)
(* geometry, for a CTC model in every one of whole-frame windows.             *)
THEOREM StreamInvariance == StreamSpec => [](Covered => StreamInv)
<1>1. StreamInit => (Covered => StreamInv)
  <2>1. StreamInit => Fresh
    BY DEF StreamInit, Fresh
  <2>2. QED
    BY <2>1, StreamStarts
<1>2. (Covered => StreamInv) /\ [StreamNext]_streamVars => (Covered => StreamInv)'
  <2> SUFFICES ASSUME Covered => StreamInv, [StreamNext]_streamVars, Covered'
               PROVE  StreamInv'
    OBVIOUS
  <2>1. Covered
    BY HeadStays DEF Covered, IsCache
  <2>2. QED
    BY <2>1, StreamNextKeeps
<1>3. QED
  BY <1>1, <1>2, PTL DEF StreamSpec

(* For any hop, subsampling and right context, and however the audio is cut   *)
(* into pushes, with a transducer, and with a CTC model whose chunk and left  *)
(* context are whole encoder frames and whose look-ahead is not too short     *)
(* (WholeFrameWindows: the defaults are so, the code does not ask for it):    *)
(* the head is given every encoder frame of the stream once, in order and     *)
(* computed from its own mel frames; next() returns without a result only     *)
(* when no chunk could be decoded, and finish() after all the real frames     *)
(* were (process_chunk, process_window, finalize).                            *)
THEOREM FramesStayInOrder == StreamSpec => [](IsCache \/ WholeFrameWindows => FramesInOrder)
<1>1. (Covered => StreamInv) => (IsCache \/ WholeFrameWindows => FramesInOrder)
  BY StreamInvImplies DEF Covered
<1>2. QED
  BY <1>1, StreamInvariance, PTL
-----------------------------------------------------------------------------
(* The words. A set of numbers that is not empty has a least member.         *)
LEMMA LeastNatural ==
  ASSUME NEW S \in SUBSET Nat, S # {}
  PROVE  \E n \in S : \A m \in S : n <= m
<1>1. PICK k \in S : TRUE
  OBVIOUS
<1> DEFINE I(n) == 0 .. n
           T == {I(n) : n \in S}
<1>2. IsWellFoundedOn(StrictSubsetOrdering(Nat), FiniteSubsetsOf(Nat))
  BY FS_StrictSubsetOrderingWellFounded
<1>3. T \subseteq FiniteSubsetsOf(Nat) /\ T # {}
  <2>1. \A n \in S : I(n) \in SUBSET Nat
    OBVIOUS
  <2>2. \A n \in S : IsFiniteSet(I(n))
    BY FS_Interval
  <2>3. QED
    BY <2>1, <2>2, <1>1, Zenon DEF FiniteSubsetsOf
<1> HIDE DEF T
<1>4. PICK x \in T : \A y \in T : ~(<<y, x>> \in StrictSubsetOrdering(Nat))
  BY <1>2, <1>3, WFMin
<1>5. PICK n \in S : x = I(n)
  BY DEF T
<1>6. ASSUME NEW m \in S, m < n PROVE FALSE
  <2>1. I(m) \in SUBSET Nat /\ I(n) \in SUBSET Nat /\ I(m) \subseteq I(n) /\ I(m) # I(n)
    BY <1>6
  <2>2. I(m) \in T
    BY DEF T
  <2> HIDE DEF I
  <2>3. <<I(m), x>> \in StrictSubsetOrdering(Nat)
    BY <2>1, <1>5 DEF StrictSubsetOrdering
  <2>4. QED
    BY <2>2, <2>3, <1>4
<1>7. QED
  BY <1>6

LEMMA GreatestNatural ==
  ASSUME NEW S \in SUBSET Nat, S # {}, NEW b \in Nat, \A n \in S : n <= b
  PROVE  \E n \in S : \A m \in S : m <= n
<1> DEFINE T == {k \in Nat : \E n \in S : k = b - n}
<1>1. T \in SUBSET Nat /\ T # {}
  <2>1. PICK n \in S : TRUE
    OBVIOUS
  <2>2. b - n \in Nat
    BY <2>1
  <2>3. b - n \in T
    BY <2>1, <2>2
  <2>4. QED
    BY <2>3
<1> HIDE DEF T
<1>2. PICK k \in T : \A j \in T : k <= j
  BY <1>1, LeastNatural
<1>3. PICK n \in S : k = b - n
  BY DEF T
<1>4. ASSUME NEW m \in S PROVE m <= n
  <2>1. b - m \in T
    BY DEF T
  <2>2. b - n <= b - m
    BY <2>1, <1>2, <1>3
  <2>3. n \in Nat /\ m \in Nat
    OBVIOUS
  <2>4. QED
    BY <2>2, <2>3
<1>5. QED
  BY <1>4

(* s has the numbers of S, each of them once and in increasing order.        *)
Increasing(s) == \A i, j \in DOMAIN s : i < j => s[i] < s[j]
Enumerates(s, S) == s \in Seq(Nat) /\ ToSet(s) = S /\ Increasing(s)

LEMMA NoneEnumerated == Enumerates(<<>>, {})
<1>1. <<>> \in Seq(Nat) /\ DOMAIN <<>> = {}
  OBVIOUS
<1>2. QED
  BY <1>1 DEF Enumerates, Increasing, ToSet

LEMMA EnumeratesMore ==
  ASSUME NEW s, NEW A, NEW t, NEW B, Enumerates(s, A), Enumerates(t, B),
         \A a \in A, b \in B : a < b
  PROVE  Enumerates(s \o t, A \cup B)
<1> DEFINE u == s \o t
           n == Len(s)
<1>1. s \in Seq(Nat) /\ t \in Seq(Nat)
  BY DEF Enumerates
<1>2. /\ u \in Seq(Nat) /\ Len(u) = n + Len(t) /\ n \in Nat /\ Len(t) \in Nat
      /\ \A i \in 1 .. n : u[i] = s[i]
      /\ \A i \in n + 1 .. n + Len(t) : u[i] = t[i - n]
  BY <1>1, Concatenated, Zenon
<1>3. DOMAIN u = 1 .. n + Len(t) /\ DOMAIN s = 1 .. n /\ DOMAIN t = 1 .. Len(t)
  BY <1>1, <1>2
<1> HIDE DEF u, n
<1>4. ASSUME NEW i \in DOMAIN u
      PROVE  \/ i \in DOMAIN s /\ u[i] = s[i] /\ s[i] \in A
             \/ i > n /\ i - n \in DOMAIN t /\ u[i] = t[i - n] /\ t[i - n] \in B
  <2>1. CASE i <= n
    <3>1. i \in 1 .. n
      BY <2>1, <1>2, <1>3
    <3>2. QED
      BY <3>1, <1>2, <1>3 DEF Enumerates, ToSet
  <2>2. CASE i > n
    <3>1. i \in n + 1 .. n + Len(t) /\ i - n \in 1 .. Len(t)
      BY <2>2, <1>2, <1>3
    <3>2. t[i - n] \in B
      BY <3>1, <1>3 DEF Enumerates, ToSet
    <3>3. QED
      BY <2>2, <3>1, <3>2, <1>2, <1>3
  <2>3. QED
    BY <2>1, <2>2, <1>2, <1>3
<1>5. ToSet(u) = A \cup B
  <2>1. ToSet(u) \subseteq A \cup B
    BY <1>4 DEF ToSet
  <2>2. ASSUME NEW a \in A PROVE a \in ToSet(u)
    <3>1. PICK i \in DOMAIN s : a = s[i]
      BY DEF Enumerates, ToSet
    <3>2. i \in 1 .. n /\ i \in DOMAIN u
      BY <1>2, <1>3
    <3>3. QED
      BY <3>1, <3>2, <1>2 DEF ToSet
  <2>3. ASSUME NEW b \in B PROVE b \in ToSet(u)
    <3>1. PICK i \in DOMAIN t : b = t[i]
      BY DEF Enumerates, ToSet
    <3> DEFINE k == n + i
    <3>2. k \in n + 1 .. n + Len(t) /\ k \in DOMAIN u /\ k - n = i
      BY <1>2, <1>3
    <3> HIDE DEF k
    <3>3. QED
      BY <3>1, <3>2, <1>2 DEF ToSet
  <2>4. QED
    BY <2>1, <2>2, <2>3
<1>6. ASSUME NEW i \in DOMAIN u, NEW j \in DOMAIN u, i < j
      PROVE  u[i] < u[j]
  <2>1. i \in Nat /\ j \in Nat /\ n \in Nat
    BY <1>2, <1>3
  <2>2. CASE j \in DOMAIN s /\ u[j] = s[j]
    <3>1. i \in 1 .. n
      BY <2>1, <2>2, <1>3, <1>6
    <3>2. u[i] = s[i] /\ i \in DOMAIN s
      BY <3>1, <1>2, <1>3
    <3>3. QED
      BY <2>2, <3>2, <1>6 DEF Enumerates, Increasing
  <2>3. CASE j > n /\ j - n \in DOMAIN t /\ u[j] = t[j - n] /\ t[j - n] \in B
    <3>1. CASE i \in DOMAIN s /\ u[i] = s[i] /\ s[i] \in A
      BY <2>3, <3>1
    <3>2. CASE i > n /\ i - n \in DOMAIN t /\ u[i] = t[i - n]
      <4>1. i - n < j - n
        BY <2>1, <1>6
      <4>2. t[i - n] < t[j - n]
        BY <4>1, <2>3, <3>2 DEF Enumerates, Increasing
      <4>3. QED
        BY <4>2, <2>3, <3>2
    <3>3. QED
      BY <3>1, <3>2, <1>4
  <2>4. QED
    BY <2>2, <2>3, <1>4
<1>7. QED
  BY <1>2, <1>5, <1>6 DEF Enumerates, Increasing, u

LEMMA EnumeratesOneMore ==
  ASSUME NEW s, NEW A, Enumerates(s, A), NEW x \in Nat, \A a \in A : a < x
  PROVE  Enumerates(Append(s, x), A \cup {x})
<1>1. s \in Seq(Nat)
  BY DEF Enumerates
<1>2. Enumerates(<<x>>, {x})
  <2>1. <<x>> \in Seq(Nat) /\ DOMAIN <<x>> = {1} /\ <<x>>[1] = x
    OBVIOUS
  <2>2. QED
    BY <2>1 DEF Enumerates, Increasing, ToSet
<1>3. Append(s, x) = s \o <<x>>
  BY <1>1, AppendIsConcat
<1>4. Enumerates(s \o <<x>>, A \cup {x})
  BY <1>2, EnumeratesMore
<1>5. QED
  BY <1>3, <1>4

(* The words after the first frames of w: what the head has when it has gone *)
(* through so many of them.                                                  *)
NextWord(w, before, k) == IF Spoken(w[k]) THEN Append(before, Source(w[k])) ELSE before

WordsSoFar(w, n, f) == f[0] = <<>> /\ \A k \in 1 .. n : f[k] = NextWord(w, f[k - 1], k)

LEMMA WordsExist ==
  ASSUME NEW w, NEW N \in Nat
  PROVE  \E f : WordsSoFar(w, N, f) /\ f = [k \in 0 .. N |-> f[k]]
<1> DEFINE Has(n) == \E f : WordsSoFar(w, n, f)
           S == {n \in 0 .. N : ~Has(n)}
<1>1. Has(0)
  <2>1. WordsSoFar(w, 0, [k \in 0 .. 0 |-> <<>>])
    BY DEF WordsSoFar
  <2>2. QED
    BY <2>1
<1>2. ASSUME NEW n \in Nat, Has(n) PROVE Has(n + 1)
  <2>1. PICK f : WordsSoFar(w, n, f)
    BY <1>2
  <2> DEFINE g == [k \in 0 .. n + 1 |-> IF k = n + 1 THEN NextWord(w, f[n], k) ELSE f[k]]
  <2>2. g[0] = <<>>
    BY <2>1 DEF WordsSoFar
  <2>3. ASSUME NEW k \in 1 .. n + 1 PROVE g[k] = NextWord(w, g[k - 1], k)
    <3>1. CASE k = n + 1
      BY <3>1
    <3>2. CASE k # n + 1
      <4>1. k \in 1 .. n /\ k - 1 \in 0 .. n + 1 /\ k - 1 # n + 1
        BY <3>2
      <4>2. g[k] = f[k] /\ g[k - 1] = f[k - 1]
        BY <4>1, <3>2
      <4>3. QED
        BY <4>1, <4>2, <2>1 DEF WordsSoFar
    <3>3. QED
      BY <3>1, <3>2
  <2> HIDE DEF g
  <2>4. QED
    BY <2>2, <2>3 DEF WordsSoFar
<1> HIDE DEF Has
<1>3. S = {}
  <2> SUFFICES ASSUME S # {} PROVE FALSE
    OBVIOUS
  <2>1. S \in SUBSET Nat
    OBVIOUS
  <2> HIDE DEF S
  <2>2. PICK n \in S : \A m \in S : n <= m
    BY <2>1, LeastNatural
  <2>3. n \in 0 .. N /\ ~Has(n) /\ n # 0
    BY <1>1 DEF S
  <2>4. n - 1 \in Nat /\ n - 1 \in 0 .. N /\ (n - 1) + 1 = n /\ ~(n <= n - 1)
    BY <2>3
  <2>5. Has(n - 1)
    BY <2>2, <2>4 DEF S
  <2>6. QED
    BY <2>3, <2>4, <2>5, <1>2
<1>4. PICK f : WordsSoFar(w, N, f)
  BY <1>3 DEF Has
<1> DEFINE g == [k \in 0 .. N |-> f[k]]
<1>5. \A k \in 0 .. N : g[k] = f[k]
  OBVIOUS
<1>6. g = [k \in 0 .. N |-> g[k]]
  OBVIOUS
<1> HIDE DEF g
<1>7. WordsSoFar(w, N, g)
  <2>1. \A k \in 1 .. N : k \in 0 .. N /\ k - 1 \in 0 .. N
    OBVIOUS
  <2>2. 0 \in 0 .. N
    OBVIOUS
  <2>3. QED
    BY <2>1, <2>2, <1>4, <1>5 DEF WordsSoFar
<1>8. QED
  BY <1>6, <1>7

LEMMA WordsAre ==
  ASSUME NEW w \in Seq(Frames)
  PROVE  \E f : WordsSoFar(w, Len(w), f) /\ WordsOf(w) = f[Len(w)]
<1> DEFINE N == Len(w)
           Is(f) == f = [k \in 0 .. Len(w) |->
                           IF k = 0 THEN <<>>
                           ELSE IF Spoken(w[k]) THEN Append(f[k - 1], Source(w[k]))
                           ELSE f[k - 1]]
           g == CHOOSE f : Is(f)
<1>1. N \in Nat
  OBVIOUS
<1>2. PICK f : WordsSoFar(w, N, f) /\ f = [k \in 0 .. N |-> f[k]]
  BY <1>1, WordsExist
<1>3. Is(f)
  <2>1. \A k \in 0 .. N : k # 0 => k \in 1 .. N
    BY <1>1
  <2>2. \A k \in 0 .. N : f[k] = IF k = 0 THEN <<>>
                                 ELSE IF Spoken(w[k]) THEN Append(f[k - 1], Source(w[k]))
                                 ELSE f[k - 1]
    BY <2>1, <1>2 DEF WordsSoFar, NextWord
  <2>3. QED
    BY <2>2, <1>2, Zenon
<1>4. Is(g)
  BY <1>3
<1>5. WordsOf(w) = g[N]
  BY Zenon DEF WordsOf
<1>6. WordsSoFar(w, N, g)
  <2>1. 0 \in 0 .. N /\ \A k \in 1 .. N : k \in 0 .. N /\ k # 0
    BY <1>1
  <2>2. \A k \in 0 .. N : g[k] = IF k = 0 THEN <<>>
                                 ELSE IF Spoken(w[k]) THEN Append(g[k - 1], Source(w[k]))
                                 ELSE g[k - 1]
    <3> HIDE DEF g
    <3>1. QED
      BY <1>4, Zenon
  <2> HIDE DEF g
  <2>3. QED
    BY <2>1, <2>2 DEF WordsSoFar, NextWord
<1>7. QED
  BY <1>5, <1>6

(* The words of the frames w, the first of which is frame n, when S are the  *)
(* frames in which something is said.                                        *)
LEMMA WordsEnumerate ==
  ASSUME NEW w \in Seq(Frames), NEW n \in Nat, NEW S \in SUBSET Nat,
         \A k \in 1 .. Len(w) : /\ Spoken(w[k]) <=> n + k - 1 \in S
                                /\ Spoken(w[k]) => Source(w[k]) = n + k - 1
  PROVE  Enumerates(WordsOf(w), {f \in S : n <= f /\ f < n + Len(w)})
<1> DEFINE N == Len(w)
           Upto(k) == {f \in S : n <= f /\ f < n + k}
<1>1. PICK g : WordsSoFar(w, Len(w), g) /\ WordsOf(w) = g[Len(w)]
  BY WordsAre
<1>2. N \in Nat
  OBVIOUS
<1> DEFINE Fails == {k \in 0 .. N : ~Enumerates(g[k], Upto(k))}
<1>3. Enumerates(g[0], Upto(0))
  <2>1. Upto(0) = {}
    <3>1. \A f \in S : ~(n <= f /\ f < n + 0)
      OBVIOUS
    <3>2. QED
      BY <3>1
  <2>2. g[0] = <<>>
    BY <1>1 DEF WordsSoFar
  <2>3. QED
    BY <2>1, <2>2, NoneEnumerated
<1>4. ASSUME NEW k \in 1 .. N, Enumerates(g[k - 1], Upto(k - 1))
      PROVE  Enumerates(g[k], Upto(k))
  <2>1. g[k] = NextWord(w, g[k - 1], k)
    BY <1>1 DEF WordsSoFar
  <2>2. n + k - 1 \in Nat /\ k \in Nat
    BY <1>2
  <2>3. CASE Spoken(w[k])
    <3>1. n + k - 1 \in S /\ Source(w[k]) = n + k - 1
      BY <2>3
    <3>2. Upto(k) = Upto(k - 1) \cup {n + k - 1}
      <4>1. \A f \in S : n <= f /\ f < n + k <=> (n <= f /\ f < n + (k - 1)) \/ f = n + k - 1
        BY <2>2
      <4>2. QED
        BY <3>1, <4>1
    <3>3. \A a \in Upto(k - 1) : a < n + k - 1
      BY <2>2
    <3>4. g[k] = Append(g[k - 1], n + k - 1)
      BY <2>1, <2>3, <3>1 DEF NextWord
    <3> HIDE DEF Upto
    <3>5. QED
      BY <2>2, <3>2, <3>3, <3>4, <1>4, EnumeratesOneMore
  <2>4. CASE ~Spoken(w[k])
    <3>1. n + k - 1 \notin S
      BY <2>4
    <3>2. Upto(k) = Upto(k - 1)
      <4>1. \A f \in S : n <= f /\ f < n + k <=> n <= f /\ f < n + (k - 1)
        BY <2>2, <3>1
      <4>2. QED
        BY <4>1
    <3>3. g[k] = g[k - 1]
      BY <2>1, <2>4 DEF NextWord
    <3> HIDE DEF Upto
    <3>4. QED
      BY <3>2, <3>3, <1>4
  <2>5. QED
    BY <2>3, <2>4
<1> HIDE DEF Upto
<1>5. Fails = {}
  <2> SUFFICES ASSUME Fails # {} PROVE FALSE
    OBVIOUS
  <2>1. Fails \in SUBSET Nat
    BY <1>2
  <2> HIDE DEF Fails
  <2>2. PICK k \in Fails : \A m \in Fails : k <= m
    BY <2>1, LeastNatural
  <2>3. k \in 0 .. N /\ ~Enumerates(g[k], Upto(k)) /\ k # 0
    BY <1>3 DEF Fails
  <2>4. k \in 1 .. N /\ k - 1 \in 0 .. N /\ ~(k <= k - 1)
    BY <2>3, <1>2
  <2>5. Enumerates(g[k - 1], Upto(k - 1))
    BY <2>2, <2>4 DEF Fails
  <2>6. QED
    BY <2>3, <2>4, <2>5, <1>4
<1>6. Enumerates(g[N], Upto(N))
  BY <1>2, <1>5
<1>7. QED
  BY <1>1, <1>6 DEF Upto
-----------------------------------------------------------------------------
(* What was said in the first n frames of the stream, as far as they are of   *)
(* real audio.                                                                *)
SaidIn(n, made) == {f \in voice : f < n /\ f * Sub < made}
SameReal(n, made, now) == \A f \in 0 .. n - 1 : f * Sub < made <=> f * Sub < now
SaidNext(n, more, made) == {f \in voice : f * Sub < made /\ n <= f /\ f < n + more}
Said == SaidIn(Len(decoded), mel.made)

(* Frame i of the stream as it was given to the head: the head hears what was *)
(* said in that frame, and nothing in the zeros behind the audio.             *)
LEMMA FrameSource ==
  ASSUME voice \in SUBSET Nat, NEW made \in Nat, NEW cache \in BOOLEAN,
         NEW i \in Nat, cache \/ i * Sub < made,
         NEW frame, frame.sees = SeesOf(cache, made, i)
  PROVE  /\ Spoken(frame) <=> i \in voice /\ i * Sub < made
         /\ Spoken(frame) => Source(frame) = i
<1>1. Sub \in Nat \ {0} /\ i * Sub \in Nat
  BY Geometry
<1>2. Last(frame.sees) = FrameAt(made, i * Sub)
  <2>1. CASE cache
    <3> DEFINE n == 2 * Sub - 1
    <3>1. frame.sees = SeesAt(made, i)
      BY <2>1 DEF SeesOf
    <3>2. n \in Nat /\ n \in 1 .. n /\ i * Sub - n + n = i * Sub
      BY <1>1
    <3>3. SeesAt(made, i) = [j \in 1 .. n |-> FrameAt(made, i * Sub - n + j)]
      BY DEF SeesAt
    <3> HIDE DEF n
    <3>4. Len(SeesAt(made, i)) = n
      BY <3>2, <3>3
    <3>5. SeesAt(made, i)[n] = FrameAt(made, i * Sub - n + n)
      BY <3>2, <3>3
    <3>6. QED
      BY <3>1, <3>2, <3>4, <3>5 DEF Last
  <2>2. CASE ~cache
    <3>1. frame.sees = <<i * Sub>>
      BY <2>2 DEF SeesOf
    <3>2. i * Sub < made
      BY <2>2
    <3> DEFINE x == i * Sub
    <3> HIDE DEF x
    <3>3. Last(<<x>>) = x
      <4>1. <<x>>[1] = x /\ Len(<<x>>) = 1
        OBVIOUS
      <4>2. QED
        BY <4>1 DEF Last
    <3>4. FrameAt(made, i * Sub) = i * Sub
      <4>1. i * Sub \in 0 .. made - 1
        BY <1>1, <3>2
      <4>2. QED
        BY <4>1 DEF FrameAt
    <3>5. QED
      BY <3>1, <3>3, <3>4 DEF x
  <2>3. QED
    BY <2>1, <2>2
<1>3. CASE i * Sub < made
  <2>1. Last(frame.sees) = i * Sub
    <3>1. i * Sub \in 0 .. made - 1
      BY <1>1, <1>3
    <3>2. QED
      BY <3>1, <1>2 DEF FrameAt
  <2>2. (i * Sub) \div Sub = i
    BY <1>1, QuotientIs
  <2>3. Source(frame) = i
    BY <1>1, <2>1, <2>2 DEF Source
  <2>4. QED
    BY <1>3, <2>3 DEF Spoken
<1>4. CASE ~(i * Sub < made)
  <2>1. Last(frame.sees) = Pad
    BY <1>1, <1>2, <1>4 DEF FrameAt
  <2>2. Source(frame) = -1
    BY <2>1 DEF Source, Pad
  <2>3. QED
    BY <1>4, <2>2 DEF Spoken
<1>5. QED
  BY <1>3, <1>4

(* The frames w given to the head next, after n: their words, ...             *)
Heard(w, n, made) ==
  \A k \in 1 .. Len(w) : /\ w[k].at = n + k - 1
                         /\ Spoken(w[k]) <=> n + k - 1 \in voice /\ (n + k - 1) * Sub < made
                         /\ Spoken(w[k]) => Source(w[k]) = n + k - 1

LEMMA SaidMore ==
  ASSUME voice \in SUBSET Nat, NEW n \in Nat, NEW more \in Nat,
         NEW made \in Nat, NEW now \in Nat,
         SameReal(n, made, now)
  PROVE  /\ SaidIn(n + more, now) = SaidIn(n, made)
              \cup SaidNext(n, more, now)
         /\ SaidIn(n, now) = SaidIn(n, made)
<1>1. ASSUME NEW f \in voice
      PROVE  /\ f < n + more /\ f * Sub < now
                <=> \/ f < n /\ f * Sub < made
                    \/ f * Sub < now /\ n <= f /\ f < n + more
             /\ f < n /\ f * Sub < now <=> f < n /\ f * Sub < made
  <2>1. f \in Nat
    OBVIOUS
  <2>2. f < n => f \in 0 .. n - 1
    BY <2>1
  <2>3. f < n => (f * Sub < made <=> f * Sub < now)
    BY <2>2 DEF SameReal
  <2>4. f < n \/ n <= f
    BY <2>1
  <2>5. f < n => f < n + more
    BY <2>1
  <2>6. n <= f => ~(f < n)
    BY <2>1
  <2>7. QED
    BY <2>3, <2>4, <2>5, <2>6, Zenon
<1>2. QED
  BY <1>1 DEF SaidIn, SaidNext

LEMMA HeardWords ==
  ASSUME voice \in SUBSET Nat, NEW n \in Nat, NEW now \in Nat,
         NEW w \in Seq(Frames), Heard(w, n, now)
  PROVE  Enumerates(WordsOf(w), SaidNext(n, Len(w), now)) /\ WordsOf(w) \in Seq(Nat)
<1> DEFINE S == {f \in voice : f * Sub < now}
           New == {f \in S : n <= f /\ f < n + Len(w)}
<1>1. \A k \in 1 .. Len(w) : /\ Spoken(w[k]) <=> n + k - 1 \in S
                             /\ Spoken(w[k]) => Source(w[k]) = n + k - 1
  BY DEF Heard
<1>2. S \in SUBSET Nat
  OBVIOUS
<1>3. New = SaidNext(n, Len(w), now)
  BY DEF SaidNext
<1>4. Enumerates(WordsOf(w), New)
  <2> HIDE DEF S
  <2>1. QED
    BY <1>1, <1>2, WordsEnumerate
<1>5. QED
  BY <1>3, <1>4 DEF Enumerates

LEMMA InTwoParts ==
  ASSUME NEW s \in Seq(Nat), NEW t \in Seq(Nat), NEW u \in Seq(Nat)
  PROVE  (s \o t) \o u = s \o (t \o u)
BY SMTT(30)

LEMMA WordsMore ==
  ASSUME voice \in SUBSET Nat, NEW n \in Nat, NEW made \in Nat, NEW now \in Nat,
         SameReal(n, made, now),
         NEW p \in Seq(Nat), NEW ws \in Seq(Nat), Enumerates(p \o ws, SaidIn(n, made)),
         NEW w \in Seq(Frames), Heard(w, n, now)
  PROVE  /\ ws \o WordsOf(w) \in Seq(Nat)
         /\ Enumerates(p \o (ws \o WordsOf(w)), SaidIn(n + Len(w), now))
         /\ Len(w) \in Nat
         /\ \A k \in 1 .. Len(w) : Spoken(w[k]) => ws \o WordsOf(w) # <<>>
<1> DEFINE New == SaidNext(n, Len(w), now)
           x == WordsOf(w)
<1>1. Len(w) \in Nat
  OBVIOUS
<1>4. Enumerates(x, New)
  BY HeardWords
<1>5. x \in Seq(Nat)
  BY HeardWords
<1>6. SaidIn(n + Len(w), now) = SaidIn(n, made) \cup New
  BY <1>1, SaidMore
<1>7. \A a \in SaidIn(n, made), b \in New : a < b
  <2>1. \A a \in SaidIn(n, made) : a \in Nat /\ a < n
    BY DEF SaidIn
  <2>2. \A b \in New : b \in Nat /\ n <= b
    BY DEF SaidNext
  <2> HIDE DEF New
  <2>3. QED
    BY <2>1, <2>2
<1>8. \A k \in 1 .. Len(w) : Spoken(w[k]) => x # <<>>
  <2> SUFFICES ASSUME NEW k \in 1 .. Len(w), Spoken(w[k]), x = <<>> PROVE FALSE
    OBVIOUS
  <2>1. n + k - 1 \in New
    <3>1. n + k - 1 \in voice /\ (n + k - 1) * Sub < now
      BY DEF Heard
    <3>2. n <= n + k - 1 /\ n + k - 1 < n + Len(w)
      BY <1>1
    <3>3. QED
      BY <3>1, <3>2 DEF SaidNext
  <2>2. ToSet(<<>>) = {}
    BY NoneEnumerated DEF Enumerates
  <2>3. QED
    BY <2>1, <2>2, <1>4 DEF Enumerates
<1> HIDE DEF x, New
<1>9. Enumerates((p \o ws) \o x, SaidIn(n, made) \cup New)
  BY <1>4, <1>7, EnumeratesMore
<1>10. (p \o ws) \o x = p \o (ws \o x)
  <2>1. x \in Seq(Nat)
    BY <1>5
  <2>2. QED
    BY <2>1, InTwoParts
<1>11. ws \o x \in Seq(Nat)
  BY <1>5, Concatenated, Zenon
<1>12. x # <<>> => ws \o x # <<>>
  BY <1>5, ConcatEqualIffEmpty
<1>13. QED
  BY <1>1, <1>6, <1>8, <1>9, <1>10, <1>11, <1>12 DEF x

(* ... and where the head last heard speech.                                  *)
LEMMA HeardNext ==
  ASSUME voice \in SUBSET Nat, NEW n \in Nat, NEW made \in Nat, NEW now \in Nat,
         SameReal(n, made, now),
         NEW w \in Seq(Frames), Heard(w, n, now), Decode(w), heard \in Int
  PROVE  /\ heard' \in Int
         /\ heard' = heard \/ \E k \in 1 .. Len(w) : Spoken(w[k])
         /\ (\A f \in SaidIn(n, made) : f <= heard)
              => (\A f \in SaidIn(n + Len(w), now) : f <= heard')
<1> DEFINE S == {k \in 1 .. Len(w) : Spoken(w[k])}
           New == {f \in voice : f * Sub < now /\ n <= f /\ f < n + Len(w)}
<1>1. Len(w) \in Nat /\ S \in SUBSET Nat /\ \A k \in S : k <= Len(w)
  OBVIOUS
<1>2. heard' = IF S = {} THEN heard ELSE w[Max(S)].at
  BY DEF Decode
<1>3. SaidIn(n + Len(w), now) = SaidIn(n, made) \cup New
  <2>1. New = SaidNext(n, Len(w), now)
    BY DEF SaidNext
  <2> HIDE DEF S, New
  <2>2. SaidIn(n + Len(w), now) = SaidIn(n, made) \cup SaidNext(n, Len(w), now)
    BY <1>1, SaidMore
  <2>3. QED
    BY <2>1, <2>2
<1>4. \A f \in New : f - n + 1 \in S
  <2> SUFFICES ASSUME NEW f \in New PROVE f - n + 1 \in S
    OBVIOUS
  <2>1. f \in Nat /\ n <= f /\ f < n + Len(w) /\ f * Sub < now
    OBVIOUS
  <2>2. f - n + 1 \in 1 .. Len(w) /\ n + (f - n + 1) - 1 = f
    BY <2>1, <1>1
  <2>3. Spoken(w[f - n + 1])
    BY <2>1, <2>2 DEF Heard
  <2>4. QED
    BY <2>2, <2>3
<1>5. CASE S = {}
  <2>1. heard' = heard
    BY <1>2, <1>5
  <2>2. New = {}
    BY <1>4, <1>5
  <2>3. QED
    BY <2>1, <2>2, <1>3
<1>6. CASE S # {}
  <2> HIDE DEF S, New
  <2>1. \E k \in S : \A m \in S : m <= k
    BY <1>1, <1>6, GreatestNatural
  <2> DEFINE k == Max(S)
  <2>2. k \in S /\ \A m \in S : m <= k
    <3>1. \E j \in S : \A m \in S : j >= m
      BY <2>1, <1>1
    <3>2. k \in S /\ \A m \in S : k >= m
      BY <3>1 DEF Max
    <3> HIDE DEF k
    <3>3. QED
      BY <3>2, <1>1
  <2> HIDE DEF k
  <2>3. k \in 1 .. Len(w) /\ Spoken(w[k]) /\ k \in Nat
    BY <2>2, <1>1 DEF S
  <2>4. heard' = n + k - 1
    <3>1. heard' = w[k].at
      BY <1>2, <1>6 DEF k
    <3>2. QED
      BY <3>1, <2>3 DEF Heard
  <2>5. \A f \in SaidIn(n, made) : f \in Nat /\ f < n
    BY DEF SaidIn
  <2>6. \A f \in SaidIn(n, made) : f <= heard'
    BY <2>3, <2>4, <2>5
  <2>7. \A f \in New : f <= heard'
    <3>1. \A f \in New : f \in Nat
      BY DEF New
    <3>2. \A f \in New : f - n + 1 <= k
      BY <2>2, <1>4
    <3>3. QED
      BY <3>1, <3>2, <2>3, <2>4
  <2>8. heard' \in Int
    BY <2>3, <2>4
  <2>9. QED
    BY <2>3, <2>6, <2>7, <2>8, <1>3
<1>7. QED
  BY <1>5, <1>6
-----------------------------------------------------------------------------
(* What the head hears in the frames that the two runners give it.            *)
LEMMA RealSame ==
  ASSUME NEW n \in Nat, NEW made \in Nat, NEW now \in Nat, made <= now,
         made = now \/ \A f \in 0 .. n - 1 : f * Sub < made
  PROVE  SameReal(n, made, now)
<1> SUFFICES ASSUME NEW f \in 0 .. n - 1
             PROVE  f * Sub < made <=> f * Sub < now
  BY DEF SameReal
<1>1. f * Sub \in Int
  BY Geometry
<1>2. QED
  BY <1>1

LEMMA CacheHeard ==
  ASSUME StreamInv, voice \in SUBSET Nat, IsCache, Len(mel.buf) - mel.off >= NextChunkMel
  PROVE  CacheFrames \in Seq(Frames) /\ Heard(CacheFrames, Len(decoded), mel.made)
<1>1. StreamTypes /\ Holds(mel, dec) /\ Len(decoded) = dec.frames
  BY DEF StreamInv, CacheHead
<1>2. /\ CacheFrames \in Seq(Frames) /\ Len(CacheFrames) = ChunkFrames
      /\ \A k \in 1 .. ChunkFrames : /\ CacheFrames[k].at = dec.frames + k - 1
                                     /\ CacheFrames[k].sees = SeesAt(mel.made, dec.frames + k - 1)
  BY <1>1, CacheFramesAre
<1>3. mel.made \in Nat /\ dec.frames \in Nat /\ ChunkFrames \in Nat
  BY <1>1, Fields
<1>4. ASSUME NEW k \in 1 .. Len(CacheFrames)
      PROVE  LET i == Len(decoded) + k - 1
             IN  /\ CacheFrames[k].at = i
                 /\ Spoken(CacheFrames[k]) <=> i \in voice /\ i * Sub < mel.made
                 /\ Spoken(CacheFrames[k]) => Source(CacheFrames[k]) = i
  <2> DEFINE i == dec.frames + k - 1
  <2>1. i \in Nat /\ Len(decoded) + k - 1 = i
    BY <1>1, <1>2, <1>3
  <2>2. CacheFrames[k].at = i /\ CacheFrames[k].sees = SeesOf(TRUE, mel.made, i)
    BY <1>2 DEF SeesOf
  <2> HIDE DEF i
  <2>3. /\ Spoken(CacheFrames[k]) <=> i \in voice /\ i * Sub < mel.made
        /\ Spoken(CacheFrames[k]) => Source(CacheFrames[k]) = i
    BY <2>1, <2>2, <1>3, FrameSource
  <2>4. QED
    BY <2>1, <2>2, <2>3
<1>5. QED
  BY <1>2, <1>4 DEF Heard

LEMMA WindowReal ==
  ASSUME StreamTypes, FrontEnd, NEW n \in Nat, Window(mel, dec, n),
         NEW hi \in Int, NEW last \in BOOLEAN
  PROVE  \A t \in 1 .. Emitted(LeftEdge, hi, last) : (n + t - 1) * Sub < FramesOf(audio.end)
<1> DEFINE E == Emitted(LeftEdge, hi, last)
           A == Available(LeftEdge, hi)
           c == Chunk \div FrameSamples
<1>1. c \in Nat
  BY Geometry, WholeFrames DEF Window, WholeFrameWindows
<1>2. n * FrameSamples = dec.start
  BY DEF Window
<1>3. PICK a \in Nat : /\ a <= n /\ LeftEdge = a * FrameSamples
                       /\ LeftEdge \div Hop = a * Sub
                       /\ Skip(LeftEdge) = n - a
  BY <1>2, EdgeIs DEF Window
<1>4. A \in Nat /\ \A t \in 1 .. A : (n + t - 1) * Sub < FramesOf(audio.end)
  BY <1>3, AvailableIs
<1>5. E \in Nat /\ E <= A
  <2> HIDE DEF A, c
  <2>1. E = IF last THEN A ELSE Smaller(c, A)
    BY DEF Emitted, A, c
  <2>2. QED
    BY <2>1, <1>1, <1>4 DEF Smaller
<1> HIDE DEF A, E
<1>6. \A t \in 1 .. E : t \in 1 .. A
  BY <1>4, <1>5
<1>7. QED
  BY <1>4, <1>6 DEF E

LEMMA WindowHeard ==
  ASSUME StreamTypes, FrontEnd, voice \in SUBSET Nat, NEW n \in Nat, Window(mel, dec, n),
         NEW hi \in Int, NEW last \in BOOLEAN
  PROVE  /\ WindowFrames(LeftEdge, hi, last) \in Seq(Frames)
         /\ Heard(WindowFrames(LeftEdge, hi, last), n, FramesOf(audio.end))
         /\ \A t \in 1 .. Len(WindowFrames(LeftEdge, hi, last)) :
              (n + t - 1) * Sub < FramesOf(audio.end)
<1> DEFINE M == FramesOf(audio.end)
           E == Emitted(LeftEdge, hi, last)
           w == WindowFrames(LeftEdge, hi, last)
<1>1. /\ w \in Seq(Frames) /\ Len(w) = E /\ E \in Nat
      /\ \A t \in 1 .. E : w[t].at = n + t - 1 /\ w[t].sees = <<(n + t - 1) * Sub>>
  BY WindowFramesAre
<1>2. \A t \in 1 .. E : (n + t - 1) * Sub < M
  BY WindowReal
<1>3. M \in Nat
  BY Fields, FramesReach
<1> HIDE DEF w, E, M
<1>4. ASSUME NEW k \in 1 .. Len(w)
      PROVE  LET i == n + k - 1
             IN  /\ w[k].at = i
                 /\ Spoken(w[k]) <=> i \in voice /\ i * Sub < M
                 /\ Spoken(w[k]) => Source(w[k]) = i
  <2> DEFINE i == n + k - 1
  <2>1. i \in Nat
    BY <1>1
  <2>2. w[k].at = i /\ w[k].sees = SeesOf(FALSE, M, i) /\ i * Sub < M
    BY <1>1, <1>2 DEF SeesOf
  <2> HIDE DEF i
  <2>3. /\ Spoken(w[k]) <=> i \in voice /\ i * Sub < M
        /\ Spoken(w[k]) => Source(w[k]) = i
    <3>1. FALSE \in BOOLEAN /\ (FALSE \/ i * Sub < M) /\ w[k].sees = SeesOf(FALSE, M, i)
      BY <2>2
    <3>2. QED
      BY <3>1, <2>1, <1>3, FrameSource
  <2>4. QED
    BY <2>2, <2>3 DEF i
<1>5. QED
  BY <1>1, <1>2, <1>4 DEF Heard, w, M
-----------------------------------------------------------------------------
(* What the words and the endpointer know, whoever asks.                      *)
Scans     == [next : Nat, seen : Int]
Endpoints == [armed : BOOLEAN, last : Nat, forced : BOOLEAN, pending : BOOLEAN]

WordTypes ==
  /\ voice \in SUBSET Nat /\ words \in Seq(Nat) /\ published \in Seq(Nat)
  /\ heard \in Int /\ scan \in Scans /\ ep \in Endpoints

(* Nothing but audio is decoded before finalize().                            *)
OnlyReal ==
  phase \notin {"flush", "closed"} => \A f \in 0 .. Len(decoded) - 1 : f * Sub < mel.made

(* The decoder's own signal is at the last word, or past it; an endpointer    *)
(* that can fire has a word to end.                                           *)
HeardLast ==
  phase \notin {"flush", "closed"} =>
    /\ \A f \in Said : f <= heard
    /\ ~HasVad => (ep.armed \/ heard + 1 > ep.last => words # <<>>)

(* The scan has passed every mel frame before next, and saw the last speech.  *)
Covers(s) == s.seen < s.next /\ \A g \in 0 .. s.next - 1 : FrameSpeech(g) => g <= s.seen

(* A final that silence ended has the silence behind it.                      *)
QuietBehind ==
  final.why = "silence" =>
    IF HasVad
    THEN \A g \in final.at - Threshold .. Smaller(final.at, Committed(final.fed)) - 1 :
           ~FrameSpeech(g)
    ELSE /\ final.words # <<>>
         /\ voice \cap (final.at - Threshold .. final.at - 1) = {}

WordsInv ==
  /\ WordTypes /\ OnlyReal
  /\ Enumerates(AllWords, Said)
  /\ HeardLast /\ Covers(scan) /\ QuietBehind

LEMMA WordsInvImplies == StreamInv /\ WordsInv => FinalsAreUtterances
<1> SUFFICES ASSUME StreamInv, WordsInv PROVE FinalsAreUtterances
  OBVIOUS
<1>1. voice \in SUBSET Nat /\ mel.made \in Nat /\ Sub \in Nat \ {0}
  BY Fields, Geometry DEF StreamInv, WordsInv, WordTypes
<1>2. ASSUME NEW f \in voice
      PROVE  f < RealFrames <=> f * Sub < mel.made
  <2> DEFINE made == mel.made
             q == (made - 1) \div Sub
  <2>1. f \in Nat /\ f * Sub \in Nat
    BY <1>1
  <2>2. CASE made = 0
    BY <2>1, <2>2 DEF RealFrames
  <2>3. CASE made > 0
    <3>1. RealFrames = q + 1
      BY <2>3 DEF RealFrames
    <3>2. made - 1 \in Int /\ made \in Nat
      BY <1>1
    <3> HIDE DEF made
    <3>3. q \in Int /\ q * Sub <= made - 1 /\ made - 1 < q * Sub + Sub
      BY <1>1, <3>2, Quotient
    <3> HIDE DEF q
    <3>4. CASE f <= q
      <4>1. f * Sub <= q * Sub /\ q * Sub \in Int
        BY <3>3, <3>4, <2>1, <1>1, TimesMonotone
      <4>2. QED
        BY <4>1, <3>1, <3>2, <3>3, <3>4, <2>1 DEF made
    <3>5. CASE f >= q + 1
      <4>1. (q + 1) * Sub <= f * Sub
        BY <3>3, <3>5, <2>1, <1>1, TimesMonotone
      <4>2. (q + 1) * Sub = q * Sub + 1 * Sub /\ q * Sub \in Int
        BY <3>3, <1>1, Distribute
      <4>3. QED
        BY <4>1, <4>2, <3>1, <3>2, <3>3, <3>5, <2>1, <1>1 DEF made
    <3>6. QED
      BY <3>4, <3>5, <3>3, <2>1
  <2>4. QED
    BY <2>2, <2>3, <1>1
<1>3. Said = {f \in voice : f < Len(decoded) /\ f < RealFrames}
  BY <1>2 DEF Said, SaidIn
<1>4. QED
  BY <1>3 DEF WordsInv, Enumerates, Increasing, QuietBehind, FinalsAreUtterances
-----------------------------------------------------------------------------
(* The VAD's windows: a speech frame has a number, and the scan covers all of *)
(* them up to where it looked.                                                *)
LEMMA SpeechIsLater ==
  ASSUME NEW g, FrameSpeech(g)
  PROVE  g \in Nat
<1>1. PICK k \in 0 .. MaxAudio \div VadWindow : g \in WindowMel(k)
  BY DEF FrameSpeech
<1>2. VadWindow \in Nat \ {0} /\ Hop \in Nat \ {0} /\ MaxAudio \in Nat
  BY RunnerAssumption
<1>3. k \in Nat /\ k * VadWindow \in Nat
  <2>1. MaxAudio \div VadWindow \in Int
    BY <1>2, Quotient
  <2>2. k \in Nat
    BY <2>1
  <2>3. QED
    BY <2>2, <1>2
<1> DEFINE q == (k * VadWindow) \div Hop
<1>4. q \in Nat
  <2> DEFINE a == k * VadWindow
  <2>1. a \in Nat
    BY <1>3
  <2> HIDE DEF a
  <2>2. a \div Hop \in Nat
    BY <2>1, <1>2
  <2>3. QED
    BY <2>2 DEF a
<1>5. g \in q .. ((k + 1) * VadWindow) \div Hop - 1
  BY <1>1 DEF WindowMel
<1> HIDE DEF q
<1>6. QED
  BY <1>4, <1>5

LEMMA ClocksAre ==
  ASSUME StreamTypes, NEW d \in Decodings
  PROVE  ClockMel(d) \in Int /\ Committed(audio.vad) \in Int /\ Now(d) \in Int
<1>1. d.frames \in Nat /\ d.start \in Nat /\ audio.vad \in Nat
  BY Fields DEF Decodings
<1>2. Sub \in Nat \ {0} /\ Hop \in Nat \ {0} /\ FrameSamples \in Nat \ {0}
      /\ VadWindow \in Nat \ {0}
  BY Geometry, RunnerAssumption
<1>3. DecodedMel(d.frames) \in Int
  <2>1. (d.frames - 1) * Sub \in Int
    BY <1>1, <1>2
  <2>2. QED
    BY <2>1 DEF DecodedMel
<1>4. d.start \div Hop \in Int /\ d.start \div FrameSamples \in Int
  BY <1>1, <1>2, Quotient
<1>5. Committed(audio.vad) \in Int
  <2> DEFINE a == audio.vad \div VadWindow
             b == a * VadWindow
  <2>1. a \in Int
    BY <1>1, <1>2, Quotient
  <2>2. b \in Int
    <3> HIDE DEF a
    <3>1. QED
      BY <2>1, <1>2
  <2> HIDE DEF b
  <2>3. b \div Hop \in Int
    BY <2>2, <1>2, Quotient
  <2>4. QED
    BY <2>3 DEF Committed, b
<1>6. QED
  BY <1>1, <1>3, <1>4, <1>5 DEF ClockMel, Now

LEMMA ScanCovers ==
  ASSUME StreamTypes, scan \in Scans, Covers(scan), NEW d \in Decodings
  PROVE  /\ ScanVad(d) \in Scans /\ Covers(ScanVad(d))
         /\ ScanVad(d).next >= Smaller(ClockMel(d), Committed(audio.vad))
<1> DEFINE end  == Smaller(ClockMel(d), Committed(audio.vad))
           seen == {g \in scan.next .. end - 1 : FrameSpeech(g)}
           s == ScanVad(d)
           v == IF seen = {} THEN scan.seen ELSE CHOOSE g \in seen : \A h \in seen : h <= g
<1>1. end \in Int /\ scan.next \in Nat /\ scan.seen \in Int /\ scan.seen < scan.next
  BY ClocksAre, SmallerIs DEF Scans, Covers
<1>2. s = [next |-> Larger(scan.next, end), seen |-> v]
  BY DEF ScanVad
<1> HIDE DEF s, end
<1> DEFINE N == Larger(scan.next, end)
<1>3. N \in Nat /\ N >= end /\ N >= scan.next /\ (N = scan.next \/ N = end)
  BY <1>1 DEF Larger
<1>4. /\ v \in Int /\ v < N /\ v >= scan.seen
      /\ \A g \in seen : g <= v
  <2>1. CASE seen = {}
    <3>1. v = scan.seen
      BY <2>1
    <3>2. \A g \in seen : g <= v
      BY <2>1
    <3> HIDE DEF v, seen, N
    <3>3. QED
      BY <3>1, <3>2, <1>1, <1>3
  <2>2. CASE seen # {}
    <3>1. seen \in SUBSET Nat /\ end \in Nat /\ \A g \in seen : scan.next <= g /\ g < end
      BY <2>2, <1>1
    <3> HIDE DEF seen, N
    <3>2. \E g \in seen : \A h \in seen : h <= g
      <4>1. \A g \in seen : g <= end
        BY <3>1
      <4>2. QED
        BY <4>1, <3>1, <2>2, GreatestNatural
    <3>3. v \in seen /\ \A g \in seen : g <= v
      BY <3>2, <2>2, Zenon
    <3> HIDE DEF v
    <3>4. QED
      <4>1. v \in Nat /\ scan.next <= v /\ v < end
        BY <3>1, <3>3
      <4>2. QED
        BY <4>1, <3>3, <1>1, <1>3
  <2>3. QED
    BY <2>1, <2>2
<1>5. s \in Scans /\ s.next = N /\ s.seen = v
  <2>1. N \in Nat /\ v \in Int /\ s = [next |-> N, seen |-> v]
    BY <1>2, <1>3, <1>4
  <2> HIDE DEF v, N
  <2>2. QED
    BY <2>1 DEF Scans
<1> HIDE DEF v, N
<1>6. ASSUME NEW g \in 0 .. s.next - 1, FrameSpeech(g)
      PROVE  g <= s.seen
  <2>1. g \in Nat
    BY <1>3, <1>5
  <2>2. CASE g < scan.next
    <3>1. g \in 0 .. scan.next - 1
      BY <2>1, <2>2, <1>1
    <3>2. g <= scan.seen
      BY <3>1, <1>6 DEF Covers
    <3>3. QED
      BY <3>2, <2>1, <1>1, <1>4, <1>5
  <2>3. CASE ~(g < scan.next)
    <3>1. g \in scan.next .. end - 1
      BY <2>1, <2>3, <1>1, <1>3, <1>5
    <3>2. g \in seen
      BY <3>1, <1>6
    <3>3. QED
      BY <3>2, <1>4, <1>5
  <2>4. QED
    BY <2>2, <2>3
<1>7. Covers(s)
  BY <1>4, <1>5, <1>6 DEF Covers
<1>8. s \in Scans /\ Covers(s) /\ s.next >= end
  BY <1>3, <1>5, <1>7
<1>9. QED
  BY <1>8 DEF s, end
-----------------------------------------------------------------------------
(* One poll of the endpointer, with the words ws so far and the clock of d.   *)
LEMMA SameSpeech ==
  ASSUME voice' = voice, cfg' = cfg
  PROVE  /\ \A g : FrameSpeech(g)' <=> FrameSpeech(g)
         /\ HasVad' = HasVad /\ Threshold' = Threshold /\ IsCache' = IsCache
BY DEF FrameSpeech, WindowMel, HasVad, Threshold, IsCache

LEMMA CoversSame ==
  ASSUME voice' = voice, cfg' = cfg, Covers(scan')
  PROVE  Covers(scan)'
<1>1. \A g : FrameSpeech(g)' <=> FrameSpeech(g)
  BY SameSpeech
<1>2. scan'.seen < scan'.next /\ \A g \in 0 .. scan'.next - 1 : FrameSpeech(g) => g <= scan'.seen
  BY DEF Covers
<1>3. \A g \in 0 .. scan'.next - 1 : FrameSpeech(g)' => g <= scan'.seen
  BY <1>1, <1>2
<1>4. QED
  BY <1>2, <1>3 DEF Covers

LEMMA QuietSame ==
  ASSUME QuietBehind, voice' = voice, cfg' = cfg, final' = final
  PROVE  QuietBehind'
<1>1. \A g : FrameSpeech(g)' <=> FrameSpeech(g)
  BY SameSpeech
<1>2. HasVad' = HasVad /\ Threshold' = Threshold
  BY SameSpeech
<1>3. CASE HasVad
  BY <1>1, <1>2, <1>3 DEF QuietBehind
<1>4. CASE ~HasVad
  BY <1>2, <1>4 DEF QuietBehind
<1>5. QED
  BY <1>3, <1>4

LEMMA PollScans ==
  ASSUME StreamTypes, scan \in Scans, Covers(scan), NEW d \in Decodings,
         NEW ws, NEW fired, NEW otherwise, Poll(ws, d, fired, otherwise)
  PROVE  /\ scan' \in Scans /\ Covers(scan')
         /\ HasVad => scan'.next >= Smaller(ClockMel(d), Committed(audio.vad))
<1>1. scan' = IF HasVad THEN ScanVad(d) ELSE scan
  BY DEF Poll
<1>2. CASE HasVad
  BY <1>1, <1>2, ScanCovers
<1>3. CASE ~HasVad
  BY <1>1, <1>3
<1>4. QED
  BY <1>2, <1>3

LEMMA PollEnds ==
  ASSUME ep \in Endpoints, scan' \in Scans, heard' \in Int,
         NEW d, NEW ws \in Seq(Nat), NEW fired, NEW otherwise, Poll(ws, d, fired, otherwise),
         words \in Seq(Nat), published \in Seq(Nat)
  PROVE  \E last \in Nat :
           /\ last >= ep.last /\ last >= LastSpeech /\ LastSpeech \in Int
           /\ words' \in Seq(Nat) /\ published' \in Seq(Nat)
           /\ published' \o words' = published \o ws
           /\ ep' \in Endpoints /\ ep'.last = last
           /\ \/ ep'.armed = FALSE
              \/ words' = ws /\ (ep'.armed => ep.armed \/ LastSpeech > ep.last)
           /\ \/ final' = final
              \/ final'.why = "forced"
              \/ /\ final' = [words |-> ws, why |-> "silence", at |-> Now(d), fed |-> audio.vad]
                 /\ ep.armed \/ LastSpeech > ep.last
                 /\ Now(d) - last >= Threshold
<1> DEFINE last  == Larger(ep.last, LastSpeech)
           quiet == cfg.signal # "off" /\ Armed /\ Now(d) - last >= Threshold
           why   == IF ep.forced THEN "forced" ELSE "silence"
<1>1. LastSpeech \in Int
  BY DEF LastSpeech, Scans
<1>2. /\ ep.last \in Nat /\ ep.armed \in BOOLEAN /\ ep.forced \in BOOLEAN
      /\ ep.pending \in BOOLEAN
  BY DEF Endpoints
<1>3. last \in Nat /\ last >= ep.last /\ last >= LastSpeech
  BY <1>1, <1>2 DEF Larger
<1>4. Armed <=> ep.armed \/ LastSpeech > ep.last
  BY DEF Armed
<1>5. IF ep.forced \/ quiet
      THEN /\ ep' = [armed |-> FALSE, last |-> last, forced |-> FALSE, pending |-> FALSE]
           /\ Publish(ws, why, d)
      ELSE /\ ep' = [ep EXCEPT !.armed = Armed, !.last = last]
           /\ words' = ws /\ UNCHANGED <<published, final>>
  BY DEF Poll
<1>6. Armed \in BOOLEAN
  BY DEF Armed
<1> HIDE DEF last
<1>7. CASE ep.forced \/ quiet
  <2>1. /\ ep' = [armed |-> FALSE, last |-> last, forced |-> FALSE, pending |-> FALSE]
        /\ Publish(ws, why, d)
    BY <1>5, <1>7
  <2>2. ep' \in Endpoints /\ ep'.last = last /\ ep'.armed = FALSE
    BY <2>1, <1>3 DEF Endpoints
  <2>3. /\ published' = published \o ws /\ words' = <<>>
        /\ final' = [words |-> ws, why |-> why, at |-> Now(d), fed |-> audio.vad]
    BY <2>1 DEF Publish
  <2>4. published' \in Seq(Nat) /\ published' \o <<>> = published' /\ words' \in Seq(Nat)
    BY <2>3
  <2>5. published' \o words' = published \o ws
    BY <2>3, <2>4
  <2>6. \/ final'.why = "forced"
        \/ /\ final' = [words |-> ws, why |-> "silence", at |-> Now(d), fed |-> audio.vad]
           /\ ep.armed \/ LastSpeech > ep.last
           /\ Now(d) - last >= Threshold
    <3>1. CASE ep.forced
      BY <3>1, <2>3
    <3>2. CASE ~ep.forced
      BY <3>2, <2>3, <1>4, <1>7
    <3>3. QED
      BY <3>1, <3>2
  <2>7. QED
    BY <2>2, <2>4, <2>5, <2>6, <1>1, <1>3, Zenon
<1>8. CASE ~(ep.forced \/ quiet)
  <2>1. /\ ep' = [ep EXCEPT !.armed = Armed, !.last = last]
        /\ words' = ws /\ published' = published /\ final' = final
    BY <1>5, <1>8
  <2>2. ep' \in Endpoints /\ ep'.last = last /\ ep'.armed = Armed
    BY <2>1, <1>2, <1>3, <1>6 DEF Endpoints
  <2>3. words' \in Seq(Nat) /\ published' \in Seq(Nat) /\ published' \o words' = published \o ws
    BY <2>1
  <2>4. ep'.armed => ep.armed \/ LastSpeech > ep.last
    BY <2>2, <1>4
  <2>5. QED
    BY <2>1, <2>2, <2>3, <2>4, <1>1, <1>3, Zenon
<1>9. QED
  BY <1>7, <1>8

LEMMA AfterSpeech ==
  ASSUME NEW f \in Int, NEW speech \in Int, NEW last \in Int, NEW now \in Int,
         NEW silence \in Int, f <= speech, last >= speech + 1, now - last >= silence
  PROVE  ~(f >= now - silence)
OBVIOUS

LEMMA PollKeeps ==
  ASSUME StreamTypes, WordTypes, Covers(scan), QuietBehind, voice' = voice, cfg' = cfg,
         heard' \in Int,
         NEW ws \in Seq(Nat), NEW d \in Decodings, NEW fired, NEW otherwise,
         Poll(ws, d, fired, otherwise),
         ~HasVad => (ep.armed \/ heard' + 1 > ep.last => ws # <<>>),
         ~HasVad => \A f \in voice : f < Now(d) => f <= heard'
  PROVE  /\ WordTypes' /\ Covers(scan)' /\ QuietBehind'
         /\ published' \o words' = published \o ws
         /\ ~HasVad => (ep'.armed \/ heard' + 1 > ep'.last => words' # <<>>)
<1>1. /\ scan' \in Scans /\ Covers(scan')
      /\ HasVad => scan'.next >= Smaller(ClockMel(d), Committed(audio.vad))
  BY PollScans DEF WordTypes
<1>2. PICK last \in Nat :
           /\ last >= ep.last /\ last >= LastSpeech /\ LastSpeech \in Int
           /\ words' \in Seq(Nat) /\ published' \in Seq(Nat)
           /\ published' \o words' = published \o ws
           /\ ep' \in Endpoints /\ ep'.last = last
           /\ \/ ep'.armed = FALSE
              \/ words' = ws /\ (ep'.armed => ep.armed \/ LastSpeech > ep.last)
           /\ \/ final' = final
              \/ final'.why = "forced"
              \/ /\ final' = [words |-> ws, why |-> "silence", at |-> Now(d), fed |-> audio.vad]
                 /\ ep.armed \/ LastSpeech > ep.last
                 /\ Now(d) - last >= Threshold
  BY <1>1, PollEnds DEF WordTypes
<1>3. WordTypes'
  BY <1>1, <1>2 DEF WordTypes
<1>4. Covers(scan)'
  BY <1>1, CoversSame
<1>5. /\ HasVad => LastSpeech = scan'.seen + 1
      /\ ~HasVad => LastSpeech = heard' + 1
  BY DEF LastSpeech
<1>6. ~HasVad => (ep'.armed \/ heard' + 1 > ep'.last => words' # <<>>)
  <2> SUFFICES ASSUME ~HasVad, ep'.armed \/ heard' + 1 > ep'.last
               PROVE  words' # <<>>
    OBVIOUS
  <2>1. ~(heard' + 1 > ep'.last)
    <3> DEFINE a == ep'.last
               b == heard' + 1
    <3>1. a \in Nat /\ b \in Int /\ a >= b
      BY <1>2, <1>5
    <3> HIDE DEF a, b
    <3>2. ~(b > a)
      BY <3>1
    <3>3. QED
      BY <3>2 DEF a, b
  <2>2. ep'.armed
    BY <2>1
  <2>3. words' = ws /\ (ep.armed \/ heard' + 1 > ep.last)
    BY <2>2, <1>2, <1>5
  <2>4. QED
    BY <2>3
<1>7. QuietBehind'
  <2>1. CASE final' = final
    BY <2>1, QuietSame
  <2>2. CASE final'.why = "forced"
    BY <2>2 DEF QuietBehind
  <2>3. CASE /\ final' = [words |-> ws, why |-> "silence", at |-> Now(d), fed |-> audio.vad]
             /\ ep.armed \/ LastSpeech > ep.last
             /\ Now(d) - last >= Threshold
    <3>1. final'.words = ws /\ final'.at = Now(d) /\ final'.fed = audio.vad
      BY <2>3
    <3>2. HasVad' = HasVad /\ Threshold' = Threshold /\ \A g : FrameSpeech(g)' <=> FrameSpeech(g)
      BY SameSpeech
    <3>3. Now(d) \in Int /\ ClockMel(d) \in Int /\ Committed(audio.vad) \in Int
          /\ Threshold \in Nat
      <4>1. Silence \in Nat /\ Sub \in Nat
        BY RunnerAssumption
      <4>2. Silence * Sub \in Nat
        BY <4>1
      <4>3. QED
        BY <4>1, <4>2, ClocksAre DEF Threshold
    <3>4. CASE HasVad
      <4> DEFINE end == Smaller(ClockMel(d), Committed(audio.vad))
      <4>1. Now(d) = ClockMel(d)
        BY <3>4 DEF Now
      <4>2. scan'.seen \in Int /\ scan'.next \in Nat /\ end \in Int /\ scan'.next >= end
        BY <1>1, <3>3, <3>4, SmallerIs DEF Scans
      <4> HIDE DEF end
      <4>3. ASSUME NEW g \in Now(d) - Threshold .. end - 1, FrameSpeech(g) PROVE FALSE
        <5>1. g \in Nat /\ g <= end - 1 /\ g >= Now(d) - Threshold
          BY <4>2, <4>3, <3>3, SpeechIsLater
        <5>2. g \in 0 .. scan'.next - 1
          BY <5>1, <4>2
        <5>3. g <= scan'.seen
          BY <5>2, <4>3, <1>1 DEF Covers
        <5>4. last >= scan'.seen + 1
          BY <1>2, <1>5, <3>4
        <5>5. Now(d) - last >= Threshold
          BY <2>3
        <5>6. Now(d) \in Int /\ Threshold \in Nat /\ scan'.seen \in Int
          BY <3>3, <4>2
        <5>7. QED
          BY <5>1, <5>3, <5>4, <5>5, <5>6, AfterSpeech
      <4>4. \A g \in final'.at - Threshold' .. Smaller(final'.at, Committed(final'.fed)) - 1 : ~FrameSpeech(g)'
        BY <4>1, <4>3, <3>1, <3>2 DEF end
      <4>5. QED
        BY <4>4, <3>2, <3>4 DEF QuietBehind
    <3>5. CASE ~HasVad
      <4>1. ep.armed \/ heard' + 1 > ep.last
        BY <2>3, <1>5, <3>5
      <4>2. ws # <<>>
        BY <4>1, <3>5
      <4>3. ASSUME NEW f \in voice, f \in Now(d) - Threshold .. Now(d) - 1 PROVE FALSE
        <5>1. f \in Nat /\ f < Now(d) /\ f >= Now(d) - Threshold
          BY <4>3, <3>3 DEF WordTypes
        <5>2. f <= heard'
          BY <5>1, <3>5
        <5>3. last >= heard' + 1
          BY <1>2, <1>5, <3>5
        <5>4. Now(d) - last >= Threshold
          BY <2>3
        <5>5. QED
          <6>1. Now(d) \in Int /\ Threshold \in Int /\ last \in Int /\ heard' \in Int /\ f \in Int
            BY <3>3, <5>1
          <6>2. ~(f >= Now(d) - Threshold)
            BY <5>2, <5>3, <5>4, <6>1, AfterSpeech, ZenonT(30)
          <6>3. QED
            BY <6>2, <5>1, ZenonT(30)
      <4>4. voice' \cap (final'.at - Threshold' .. final'.at - 1) = {}
        BY <4>3, <3>1, <3>2
      <4>5. QED
        BY <4>2, <4>4, <3>1, <3>2, <3>5 DEF QuietBehind
    <3>6. QED
      BY <3>4, <3>5
  <2>4. QED
    BY <2>1, <2>2, <2>3, <1>2
<1>8. QED
  BY <1>2, <1>3, <1>4, <1>6, <1>7
-----------------------------------------------------------------------------
(* The steps. None but those that decode add to what was said.                *)
LEMMA SaidAfter ==
  ASSUME voice' = voice
  PROVE  Said' = SaidIn(Len(decoded'), mel'.made)
BY DEF Said, SaidIn

LEMMA WordsStay ==
  ASSUME StreamInv, WordsInv, mel' \in Mels, voice' = voice, cfg' = cfg, decoded' = decoded,
         words' = words, published' = published, heard' = heard, scan' = scan, final' = final,
         ep' \in Endpoints, ep'.armed = ep.armed, ep'.last = ep.last,
         mel.made <= mel'.made, mel'.made = mel.made \/ phase \notin {"flush", "closed"},
         phase' \notin {"flush", "closed"} => phase \notin {"flush", "closed"}
  PROVE  WordsInv'
<1> DEFINE n == Len(decoded)
           made == mel.made
           now == mel'.made
<1>1. n \in Nat /\ made \in Nat /\ now \in Nat /\ voice \in SUBSET Nat
  BY Fields DEF StreamInv, WordsInv, WordTypes, Mels
<1>2. made = now \/ \A f \in 0 .. n - 1 : f * Sub < made
  BY DEF WordsInv, OnlyReal
<1>3. made <= now
  OBVIOUS
<1> HIDE DEF n, made, now
<1>4. SameReal(n, made, now)
  BY <1>1, <1>2, <1>3, RealSame
<1>5. SaidIn(n, now) = SaidIn(n, made)
  BY <1>1, <1>4, SaidMore
<1>6. Said' = Said
  BY <1>5, SaidAfter DEF Said, n, made, now
<1>7. WordTypes'
  BY DEF WordsInv, WordTypes
<1>8. OnlyReal'
  <2> SUFFICES ASSUME phase' \notin {"flush", "closed"}, NEW f \in 0 .. n - 1
               PROVE  f * Sub < now
    BY DEF OnlyReal, n, now
  <2>1. f * Sub < made
    BY DEF WordsInv, OnlyReal, n, made
  <2>2. QED
    BY <2>1, <1>4 DEF SameReal
<1>9. Enumerates(AllWords, Said)'
  <2>1. AllWords' = AllWords
    BY DEF AllWords
  <2>2. QED
    BY <2>1, <1>6 DEF WordsInv, Enumerates, Increasing, ToSet
<1>10. HeardLast'
  <2>1. HasVad' = HasVad
    BY SameSpeech
  <2>2. QED
    BY <2>1, <1>6 DEF WordsInv, HeardLast
<1>11. Covers(scan)'
  BY CoversSame DEF WordsInv
<1>12. QuietBehind'
  BY QuietSame DEF WordsInv
<1>13. QED
  BY <1>7, <1>8, <1>9, <1>10, <1>11, <1>12 DEF WordsInv

(* The head takes the frames w.                                               *)
LEMMA WordsTaken ==
  ASSUME StreamInv, WordsInv, mel' \in Mels, voice' = voice, cfg' = cfg,
         NEW w \in Seq(Frames), Decode(w), Heard(w, Len(decoded), mel'.made),
         mel.made <= mel'.made, mel'.made = mel.made \/ phase \notin {"flush", "closed"}
  PROVE  /\ words \o WordsOf(w) \in Seq(Nat)
         /\ Enumerates(published \o (words \o WordsOf(w)), Said')
         /\ heard' \in Int
         /\ phase \notin {"flush", "closed"} => \A f \in Said' : f <= heard'
         /\ phase \notin {"flush", "closed"} /\ ~HasVad =>
              (ep.armed \/ heard' + 1 > ep.last => words \o WordsOf(w) # <<>>)
<1> DEFINE n == Len(decoded)
           made == mel.made
           now == mel'.made
           ws == words \o WordsOf(w)
<1>1. /\ n \in Nat /\ made \in Nat /\ now \in Nat /\ voice \in SUBSET Nat /\ heard \in Int
      /\ words \in Seq(Nat) /\ published \in Seq(Nat) /\ decoded \in Seq(Frames)
      /\ ep.last \in Nat
  BY Fields DEF StreamInv, WordsInv, WordTypes, Mels, Endpoints
<1>2. made = now \/ \A f \in 0 .. n - 1 : f * Sub < made
  BY DEF WordsInv, OnlyReal
<1>3. made <= now /\ Heard(w, n, now)
  OBVIOUS
<1>4. decoded' = decoded \o w
  BY Decoded
<1>5. Len(decoded') = n + Len(w)
  BY <1>1, <1>4
<1>6. Enumerates(published \o words, SaidIn(n, made))
  BY DEF WordsInv, AllWords, Said
<1>7. Said' = SaidIn(n + Len(w), now)
  BY <1>5, SaidAfter
<1> HIDE DEF n, made, now
<1>8. SameReal(n, made, now)
  BY <1>1, <1>2, <1>3, RealSame
<1>9. /\ ws \in Seq(Nat)
      /\ Enumerates(published \o ws, SaidIn(n + Len(w), now))
      /\ \A k \in 1 .. Len(w) : Spoken(w[k]) => ws # <<>>
  BY <1>1, <1>3, <1>6, <1>8, WordsMore
<1>10. /\ heard' \in Int
       /\ heard' = heard \/ \E k \in 1 .. Len(w) : Spoken(w[k])
       /\ (\A f \in SaidIn(n, made) : f <= heard)
            => (\A f \in SaidIn(n + Len(w), now) : f <= heard')
  BY <1>1, <1>3, <1>8, HeardNext
<1>11. phase \notin {"flush", "closed"} => \A f \in Said' : f <= heard'
  <2> SUFFICES ASSUME phase \notin {"flush", "closed"} PROVE \A f \in Said' : f <= heard'
    OBVIOUS
  <2>1. \A f \in SaidIn(n, made) : f <= heard
    BY DEF WordsInv, HeardLast, Said, n, made
  <2>2. QED
    BY <2>1, <1>7, <1>10
<1>12. words # <<>> => ws # <<>>
  <2>1. WordsOf(w) \in Seq(Nat)
    <3>1. QED
      BY <1>1, <1>3, HeardWords
  <2> HIDE DEF ws
  <2>2. QED
    BY <2>1, <1>1, ConcatEqualIffEmpty DEF ws
<1> HIDE DEF ws
<1>13. phase \notin {"flush", "closed"} /\ ~HasVad =>
         (ep.armed \/ heard' + 1 > ep.last => ws # <<>>)
  <2> SUFFICES ASSUME phase \notin {"flush", "closed"}, ~HasVad,
                      ep.armed \/ heard' + 1 > ep.last
               PROVE  ws # <<>>
    OBVIOUS
  <2>1. CASE heard' = heard
    <3>1. words # <<>>
      BY <2>1 DEF WordsInv, HeardLast
    <3>2. QED
      BY <3>1, <1>12
  <2>2. CASE \E k \in 1 .. Len(w) : Spoken(w[k])
    BY <2>2, <1>9
  <2>3. QED
    BY <2>1, <2>2, <1>10
<1>14. QED
  BY <1>7, <1>9, <1>10, <1>11, <1>13 DEF ws

(* The endpointer is polled with the words so far, or not at all.             *)
LEMMA WordsPolled ==
  ASSUME StreamInv, WordsInv, voice' = voice, cfg' = cfg, heard' \in Int,
         NEW ws \in Seq(Nat), NEW d \in Decodings, NEW fired, NEW otherwise,
         Poll(ws, d, fired, otherwise) \/ NoPoll(ws, otherwise),
         OnlyReal', Enumerates(published \o ws, Said'), \A f \in Said' : f <= heard',
         ~HasVad => (ep.armed \/ heard' + 1 > ep.last => ws # <<>>),
         ~HasVad => Now(d) = Len(decoded'), phase' \notin {"flush", "closed"}
  PROVE  WordsInv'
<1>1. StreamTypes /\ WordTypes /\ Covers(scan) /\ QuietBehind
  BY DEF StreamInv, WordsInv
<1>2. HasVad' = HasVad
  BY SameSpeech
<1>3. ~HasVad => \A f \in voice : f < Now(d) => f <= heard'
  <2> SUFFICES ASSUME ~HasVad, NEW f \in voice, f < Now(d) PROVE f <= heard'
    OBVIOUS
  <2>1. f \in Nat /\ f < Len(decoded')
    BY <1>1 DEF WordTypes
  <2>2. Len(decoded') = Now(d) /\ Now(d) \in Int
    BY <1>1, ClocksAre
  <2>3. f \in 0 .. Len(decoded') - 1
    BY <2>1, <2>2
  <2>4. f * Sub < mel'.made
    BY <2>3 DEF OnlyReal
  <2>5. f \in Said'
    BY <2>1, <2>4 DEF Said, SaidIn
  <2>6. QED
    BY <2>5
<1>4. /\ WordTypes' /\ Covers(scan)' /\ QuietBehind'
      /\ published' \o words' = published \o ws
      /\ ~HasVad => (ep'.armed \/ heard' + 1 > ep'.last => words' # <<>>)
  <2>1. CASE Poll(ws, d, fired, otherwise)
    BY <2>1, <1>1, <1>3, PollKeeps
  <2>2. CASE NoPoll(ws, otherwise)
    <3>1. words' = ws /\ scan' = scan /\ ep' = ep /\ published' = published /\ final' = final
      BY <2>2 DEF NoPoll, endpoint
    <3>2. WordTypes'
      BY <3>1, <1>1 DEF WordTypes
    <3>3. Covers(scan)'
      BY <3>1, <1>1, CoversSame
    <3>4. QuietBehind'
      BY <3>1, <1>1, QuietSame
    <3>5. QED
      BY <3>1, <3>2, <3>3, <3>4
  <2>3. QED
    BY <2>1, <2>2
<1>5. Enumerates(AllWords, Said)'
  <2>1. AllWords' = published \o ws
    BY <1>4 DEF AllWords
  <2>2. QED
    BY <2>1 DEF Enumerates, Increasing, ToSet
<1>6. HeardLast'
  BY <1>2, <1>4 DEF HeardLast
<1>7. QED
  BY <1>4, <1>5, <1>6 DEF WordsInv

(* finish() publishes the rest.                                               *)
LEMMA WordsClosed ==
  ASSUME WordsInv, voice' = voice, cfg' = cfg, heard' \in Int, scan' = scan, ep' = ep,
         NEW ws \in Seq(Nat), NEW d, Close(ws, d), Enumerates(published \o ws, Said')
  PROVE  WordsInv'
<1>1. phase' = "closed" /\ published' = published \o ws /\ words' = <<>> /\ final'.why = "end"
  BY DEF Close, Publish
<1>2. published \in Seq(Nat) /\ WordTypes /\ Covers(scan)
  BY DEF WordsInv, WordTypes
<1>3. published' \in Seq(Nat) /\ published' \o <<>> = published' /\ words' \in Seq(Nat)
  BY <1>1, <1>2
<1>4. WordTypes'
  BY <1>2, <1>3 DEF WordTypes
<1>5. Covers(scan)'
  BY <1>2, CoversSame
<1>6. OnlyReal' /\ HeardLast' /\ QuietBehind'
  BY <1>1 DEF OnlyReal, HeardLast, QuietBehind
<1>7. Enumerates(AllWords, Said)'
  <2>1. AllWords' = published \o ws
    BY <1>1, <1>3 DEF AllWords
  <2>2. QED
    BY <2>1 DEF Enumerates, Increasing, ToSet
<1>8. QED
  BY <1>4, <1>5, <1>6, <1>7 DEF WordsInv
-----------------------------------------------------------------------------
(* One lemma for each action that takes frames, ends an utterance or starts   *)
(* over, and one for the others.                                              *)
NoWords ==
  /\ voice \in SUBSET Nat /\ words = <<>> /\ published = <<>> /\ heard = -1
  /\ scan = NewScan /\ ep = NewEndpoint /\ final = NoFinal

LEMMA WordsStart == Fresh /\ NoWords => WordsInv
<1> SUFFICES ASSUME Fresh, NoWords PROVE WordsInv
  OBVIOUS
<1> USE DEF Fresh, NoWords
<1>1. WordTypes
  <2>1. scan \in Scans
    BY DEF NewScan, Scans
  <2>2. ep \in Endpoints
    BY DEF NewEndpoint, Endpoints
  <2>3. <<>> \in Seq(Nat) /\ -1 \in Int
    OBVIOUS
  <2>4. QED
    BY <2>1, <2>2, <2>3 DEF WordTypes
<1>2. Len(decoded) = 0 /\ \A f \in 0 .. 0 - 1 : FALSE
  OBVIOUS
<1>3. OnlyReal
  BY <1>2 DEF OnlyReal
<1>4. Said = {}
  <2>1. \A f \in voice : ~(f < Len(decoded))
    BY <1>2
  <2>2. QED
    BY <2>1 DEF Said, SaidIn
<1>5. AllWords = <<>>
  BY DEF AllWords
<1>6. HeardLast
  <2>1. ep.armed = FALSE /\ ep.last = 0 /\ ~(heard + 1 > ep.last)
    BY DEF NewEndpoint
  <2>2. QED
    BY <2>1, <1>4 DEF HeardLast
<1>7. Covers(scan)
  BY DEF Covers, NewScan
<1>8. QuietBehind
  BY DEF QuietBehind, NoFinal
<1>9. QED
  BY <1>1, <1>3, <1>4, <1>5, <1>6, <1>7, <1>8, NoneEnumerated DEF WordsInv

LEMMA PushWords ==
  ASSUME StreamInv, StreamInv', WordsInv, NEW n \in Feeds, Push(n)
  PROVE  WordsInv'
<1>1. /\ phase' = phase /\ voice' = voice /\ cfg' = cfg /\ decoded' = decoded /\ mel' = mel
      /\ words' = words /\ published' = published /\ heard' = heard
      /\ scan' = scan /\ final' = final /\ ep' = ep
  BY DEF Push, input, decoding, endpoint
<1>2. mel' \in Mels /\ mel.made <= mel'.made /\ ep' \in Endpoints
  BY <1>1, Fields DEF StreamInv, StreamTypes, WordsInv, WordTypes
<1>3. QED
  BY <1>1, <1>2, WordsStay

LEMMA ForceEndpointWords ==
  ASSUME StreamInv, StreamInv', WordsInv, ForceEndpoint
  PROVE  WordsInv'
<1>1. /\ phase' = phase /\ voice' = voice /\ cfg' = cfg /\ decoded' = decoded /\ mel' = mel
      /\ words' = words /\ published' = published /\ heard' = heard
      /\ scan' = scan /\ final' = final
      /\ ep' = [ep EXCEPT !.forced = TRUE, !.pending = IsCache]
  BY DEF ForceEndpoint, input, buffers, decoding
<1>2. ep \in Endpoints /\ IsCache \in BOOLEAN
  BY DEF WordsInv, WordTypes, IsCache
<1>3. ep' \in Endpoints /\ ep'.armed = ep.armed /\ ep'.last = ep.last
  BY <1>1, <1>2 DEF Endpoints
<1>4. mel' \in Mels /\ mel.made <= mel'.made
  BY <1>1, Fields DEF StreamInv, StreamTypes
<1>5. QED
  BY <1>1, <1>3, <1>4, WordsStay

LEMMA BeginStepWords ==
  ASSUME StreamInv, StreamInv', WordsInv, phase = "idle", BeginStep
  PROVE  WordsInv'
<1>1. /\ phase' = "chunks" /\ voice' = voice /\ cfg' = cfg /\ decoded' = decoded
      /\ words' = words /\ published' = published /\ heard' = heard
      /\ scan' = scan /\ final' = final /\ ep' = ep
      /\ mel' = IF IsCache THEN WithNewFrames ELSE mel
  BY DEF BeginStep, input, decoding, endpoint
<1>2. mel' \in Mels /\ mel.made <= mel'.made
  <2>1. StreamTypes /\ FrontEnd /\ mel.made \in Nat
    BY Fields DEF StreamInv
  <2>2. CASE IsCache
    <3>1. WithNewFrames \in Mels /\ WithNewFrames.made = FramesOf(audio.end)
      BY <2>1, Extended
    <3>2. QED
      BY <3>1, <2>1, <2>2, <1>1 DEF FrontEnd
  <2>3. CASE ~IsCache
    BY <2>1, <2>3, <1>1 DEF StreamTypes
  <2>4. QED
    BY <2>2, <2>3
<1>3. ep' \in Endpoints
  BY <1>1 DEF WordsInv, WordTypes
<1>4. QED
  BY <1>1, <1>2, <1>3, WordsStay

LEMMA EndStepWords ==
  ASSUME StreamInv, StreamInv', WordsInv, EndStep
  PROVE  WordsInv'
<1>1. /\ phase \in {"fired", "trim"} /\ voice' = voice /\ cfg' = cfg /\ decoded' = decoded
      /\ words' = words /\ published' = published /\ heard' = heard
      /\ scan' = scan /\ final' = final /\ ep' = ep /\ mel' = TrimmedMel
  BY DEF EndStep, input, decoding, endpoint
<1>2. mel' \in Mels /\ mel \in Mels /\ mel.made \in Nat
  BY Fields DEF StreamInv, StreamTypes
<1>3. mel'.made = mel.made
  BY <1>1, <1>2 DEF TrimmedMel, Mels
<1>4. ep' \in Endpoints /\ mel.made <= mel'.made
  BY <1>1, <1>2, <1>3 DEF WordsInv, WordTypes
<1>5. QED
  BY <1>1, <1>2, <1>3, <1>4, WordsStay

LEMMA PadTailWords ==
  ASSUME StreamInv, StreamInv', WordsInv, PadTail
  PROVE  WordsInv'
<1>1. /\ phase' = "flush" /\ voice' = voice /\ cfg' = cfg /\ decoded' = decoded
      /\ words' = words /\ published' = published /\ heard' = heard
      /\ scan' = scan /\ final' = final /\ ep' = ep
      /\ mel' = IF Len(mel.buf) > mel.off
                THEN [mel EXCEPT !.buf = @ \o [i \in 1 .. FlushPad |-> Pad]] ELSE mel
  BY DEF PadTail, input, decoding, endpoint
<1>2. mel' \in Mels /\ mel \in Mels /\ mel.made \in Nat
  BY Fields DEF StreamInv, StreamTypes
<1>3. mel'.made = mel.made
  BY <1>1, <1>2 DEF Mels
<1>4. ep' \in Endpoints /\ mel.made <= mel'.made
  BY <1>1, <1>2, <1>3 DEF WordsInv, WordTypes
<1>5. QED
  BY <1>1, <1>2, <1>3, <1>4, WordsStay

LEMMA WordsStutter ==
  ASSUME StreamInv, WordsInv, UNCHANGED streamVars
  PROVE  WordsInv'
<1>1. /\ phase' = phase /\ voice' = voice /\ cfg' = cfg /\ decoded' = decoded /\ mel' = mel
      /\ words' = words /\ published' = published /\ heard' = heard
      /\ scan' = scan /\ final' = final /\ ep' = ep
  BY DEF streamVars, input, buffers, decoding, endpoint
<1>2. mel' \in Mels /\ mel.made <= mel'.made /\ ep' \in Endpoints
  BY <1>1, Fields DEF StreamInv, StreamTypes, WordsInv, WordTypes
<1>3. QED
  BY <1>1, <1>2, WordsStay

LEMMA ResetWords ==
  ASSUME StreamInv, WordsInv, Reset
  PROVE  WordsInv'
<1>1. Fresh'
  BY DEF Fresh, Reset, input, StreamInv, StreamTypes
<1>2. NoWords'
  BY DEF NoWords, Reset, input, WordsInv, WordTypes
<1>3. (Fresh /\ NoWords => WordsInv)'
  BY WordsStart, PTL
<1>4. QED
  BY <1>1, <1>2, <1>3

(* The clock that decoded silence is measured with is at the last frame given *)
(* to the head.                                                               *)
LEMMA ClockIsDecoded ==
  StreamInv /\ phase \notin {"flush", "closed"} /\ ~HasVad => Now(dec) = Len(decoded)
<1> SUFFICES ASSUME StreamInv, phase \notin {"flush", "closed"}, ~HasVad
             PROVE  Now(dec) = Len(decoded)
  OBVIOUS
<1>1. CASE IsCache
  BY <1>1 DEF StreamInv, CacheHead, Now
<1>2. CASE ~IsCache
  <2>1. Len(decoded) * FrameSamples = dec.start /\ Len(decoded) \in Nat /\ dec.start \in Nat
    BY <1>2, Fields DEF StreamInv, BufferedHead, Window
  <2>2. FrameSamples \in Nat \ {0}
    BY Geometry
  <2> DEFINE n == Len(decoded)
             a == dec.start
  <2>3. a \div FrameSamples = n
    <3>1. n * FrameSamples = a /\ n \in Int /\ a \in Int
      BY <2>1
    <3> HIDE DEF n, a
    <3>2. n * FrameSamples <= a /\ a < n * FrameSamples + FrameSamples
      BY <3>1, <2>2
    <3>3. QED
      BY <3>1, <3>2, <2>2, QuotientIs
  <2>4. QED
    BY <2>3, <1>2 DEF Now
<1>3. QED
  BY <1>1, <1>2

(* The frames of a transducer are real until finalize().                      *)
LEMMA CacheOnlyReal == StreamInv /\ IsCache => OnlyReal
<1> SUFFICES ASSUME StreamInv, IsCache, phase \notin {"flush", "closed"}
             PROVE  \A f \in 0 .. Len(decoded) - 1 : f * Sub < mel.made
  BY DEF OnlyReal
<1>1. Holds(mel, dec) /\ Unpadded(mel, dec) /\ StreamTypes /\ Len(decoded) = dec.frames
  BY DEF StreamInv, CacheHead
<1>2. QED
  BY <1>1, CacheDecodesReal
(* The frames that a turn of the loop in step() gives to the head.            *)
ChunkOf == IF IsCache THEN CacheFrames
           ELSE WindowFrames(LeftEdge, dec.start + Chunk + RightPad, FALSE)

LEMMA ChunkHeard ==
  ASSUME StreamInv, voice \in SUBSET Nat, phase = "chunks", ChunkReady, cfg' = cfg,
         mel' = IF IsCache THEN AfterChunkMel ELSE WithNewFrames
  PROVE  /\ ChunkOf \in Seq(Frames) /\ mel.made <= mel'.made
         /\ Heard(ChunkOf, Len(decoded), mel'.made)
         /\ ~IsCache => \A t \in 1 .. Len(ChunkOf) : (Len(decoded) + t - 1) * Sub < mel'.made
<1>1. StreamTypes /\ FrontEnd /\ mel.made \in Nat /\ mel \in Mels
  BY Fields DEF StreamInv, StreamTypes
<1>2. CASE IsCache
  <2>1. Len(mel.buf) - mel.off >= NextChunkMel
    BY <1>2 DEF ChunkReady
  <2>2. mel'.made = mel.made
    BY <1>1, <1>2 DEF AfterChunkMel, Mels
  <2>3. CacheFrames \in Seq(Frames) /\ Heard(CacheFrames, Len(decoded), mel.made)
    BY <1>2, <2>1, CacheHeard
  <2>4. QED
    BY <1>1, <1>2, <2>2, <2>3 DEF ChunkOf
<1>3. CASE ~IsCache
  <2> DEFINE n == Len(decoded)
             hi == dec.start + Chunk + RightPad
  <2>1. n \in Nat /\ Window(mel, dec, n) /\ hi \in Int /\ FALSE \in BOOLEAN
    <3>1. dec.start \in Nat /\ Chunk \in Nat /\ RightPad \in Nat /\ Len(decoded) \in Nat
      BY <1>1, Fields, Geometry
    <3>2. QED
      BY <3>1, <1>3 DEF StreamInv, BufferedHead
  <2>2. mel'.made = FramesOf(audio.end) /\ mel.made <= mel'.made
    BY <1>1, <1>3, Extended DEF FrontEnd
  <2>3. ChunkOf = WindowFrames(LeftEdge, hi, FALSE)
    BY <1>3 DEF ChunkOf
  <2> HIDE DEF n, hi
  <2>4. /\ WindowFrames(LeftEdge, hi, FALSE) \in Seq(Frames)
        /\ Heard(WindowFrames(LeftEdge, hi, FALSE), n, FramesOf(audio.end))
        /\ \A t \in 1 .. Len(WindowFrames(LeftEdge, hi, FALSE)) :
             (n + t - 1) * Sub < FramesOf(audio.end)
    BY <2>1, <1>1, WindowHeard
  <2>5. QED
    BY <2>2, <2>3, <2>4, <1>3 DEF n
<1>4. QED
  BY <1>2, <1>3

LEMMA ProcessChunkWords ==
  ASSUME StreamInv, StreamInv', WordsInv, ProcessChunk
  PROVE  WordsInv'
<1> DEFINE w == ChunkOf
           ws == words \o WordsOf(w)
<1>1. /\ phase = "chunks" /\ ChunkReady /\ voice' = voice /\ cfg' = cfg
      /\ mel' = IF IsCache THEN AfterChunkMel ELSE WithNewFrames
      /\ Decode(w)
      /\ Poll(ws, dec', "fired", "chunks") \/ NoPoll(ws, "chunks")
  BY DEF ProcessChunk, ChunkOf, input
<1>2. voice \in SUBSET Nat /\ mel' \in Mels /\ dec' \in Decodings /\ mel'.made \in Nat
      /\ decoded \in Seq(Frames) /\ Len(decoded) \in Nat
  BY Fields DEF StreamInv, StreamTypes, WordsInv, WordTypes, Mels
<1>3. /\ w \in Seq(Frames) /\ mel.made <= mel'.made
      /\ Heard(w, Len(decoded), mel'.made)
      /\ ~IsCache => \A t \in 1 .. Len(w) : (Len(decoded) + t - 1) * Sub < mel'.made
  BY <1>1, <1>2, ChunkHeard
<1>4. phase' \in {"chunks", "fired"}
  BY <1>1 DEF Poll, NoPoll
<1> HIDE DEF w
<1>5. /\ ws \in Seq(Nat) /\ Enumerates(published \o ws, Said') /\ heard' \in Int
      /\ \A f \in Said' : f <= heard'
      /\ ~HasVad => (ep.armed \/ heard' + 1 > ep.last => ws # <<>>)
  BY <1>1, <1>2, <1>3, WordsTaken
<1>6. OnlyReal'
  <2>1. IsCache' = IsCache
    BY <1>1, SameSpeech
  <2>2. CASE IsCache
    <3>1. (StreamInv /\ IsCache => OnlyReal)'
      BY CacheOnlyReal, PTL
    <3>2. QED
      BY <3>1, <2>1, <2>2
  <2>3. CASE ~IsCache
    <3> SUFFICES ASSUME NEW f \in 0 .. Len(decoded') - 1
                 PROVE  f * Sub < mel'.made
      BY DEF OnlyReal
    <3> DEFINE n == Len(decoded)
    <3>1. Len(decoded') = n + Len(w) /\ Len(w) \in Nat
      <4>1. decoded' = decoded \o w
        BY <1>1, Decoded
      <4>2. QED
        BY <4>1, <1>2, <1>3
    <3>2. n \in Nat /\ mel.made \in Nat /\ f * Sub \in Int
      BY <1>2, <3>1, Fields, Geometry DEF StreamInv
    <3>3. CASE f < n
      <4>1. f \in 0 .. Len(decoded) - 1
        BY <3>1, <3>2, <3>3
      <4>2. f * Sub < mel.made
        BY <4>1, <1>1 DEF WordsInv, OnlyReal
      <4>3. QED
        BY <4>2, <3>2, <1>2, <1>3
    <3>4. CASE ~(f < n)
      <4> DEFINE t == f - n + 1
      <4>1. t \in 1 .. Len(w) /\ n + t - 1 = f
        BY <3>1, <3>2, <3>4
      <4> HIDE DEF t
      <4>2. (n + t - 1) * Sub < mel'.made
        BY <4>1, <1>3, <2>3
      <4>3. QED
        BY <4>1, <4>2
    <3>5. QED
      BY <3>3, <3>4
  <2>4. QED
    BY <2>2, <2>3
<1>7. ~HasVad => Now(dec') = Len(decoded')
  <2>1. (StreamInv /\ phase \notin {"flush", "closed"} /\ ~HasVad => Now(dec) = Len(decoded))'
    BY ClockIsDecoded, PTL
  <2>2. HasVad' = HasVad /\ Now(dec)' = Now(dec')
    BY <1>1 DEF HasVad, Now, IsCache, ClockMel, DecodedMel
  <2>3. QED
    BY <2>1, <2>2, <1>4
<1> HIDE DEF ws
<1>8. QED
  BY <1>1, <1>2, <1>4, <1>5, <1>6, <1>7, WordsPolled

LEMMA LastPollWords ==
  ASSUME StreamInv, StreamInv', WordsInv, LastPoll
  PROVE  WordsInv'
<1>1. /\ phase = "chunks" /\ voice' = voice /\ cfg' = cfg /\ mel' = mel /\ dec' = dec
      /\ decoded' = decoded /\ heard' = heard
      /\ Poll(words, dec, "fired", "trim") \/ NoPoll(words, "trim")
  BY DEF LastPoll, input, buffers
<1>2. phase' \notin {"flush", "closed"}
  BY <1>1 DEF Poll, NoPoll
<1>3. /\ words \in Seq(Nat) /\ dec \in Decodings /\ heard \in Int
  BY DEF StreamInv, StreamTypes, WordsInv, WordTypes
<1>4. OnlyReal'
  BY <1>1 DEF WordsInv, OnlyReal
<1>5. Said' = Said
  BY <1>1, SaidAfter DEF Said
<1>6. Enumerates(published \o words, Said')
  BY <1>5 DEF WordsInv, AllWords
<1>7. /\ \A f \in Said' : f <= heard'
      /\ ~HasVad => (ep.armed \/ heard' + 1 > ep.last => words # <<>>)
  BY <1>1, <1>5 DEF WordsInv, HeardLast
<1>8. ~HasVad => Now(dec) = Len(decoded')
  BY <1>1, ClockIsDecoded
<1>9. QED
  BY <1>1, <1>2, <1>3, <1>4, <1>6, <1>7, <1>8, WordsPolled

LEMMA FlushChunkWords ==
  ASSUME StreamInv, StreamInv', WordsInv, FlushChunk
  PROVE  WordsInv'
<1> DEFINE w == CacheFrames
           ws == words \o WordsOf(w)
<1>1. /\ phase = "flush" /\ phase' = phase /\ ChunkReady /\ voice' = voice /\ cfg' = cfg
      /\ mel' = AfterChunkMel /\ Decode(w) /\ words' = ws
      /\ scan' = scan /\ ep' = ep /\ published' = published /\ final' = final
  BY DEF FlushChunk, input, endpoint
<1>2. /\ voice \in SUBSET Nat /\ mel' \in Mels /\ mel \in Mels /\ IsCache /\ mel.made \in Nat
  BY <1>1, Fields DEF StreamInv, StreamTypes, WordsInv, WordTypes, BufferedHead
<1>3. mel'.made = mel.made
  BY <1>1, <1>2 DEF AfterChunkMel, Mels
<1>4. w \in Seq(Frames) /\ Heard(w, Len(decoded), mel'.made) /\ mel.made <= mel'.made
  <2>1. Len(mel.buf) - mel.off >= NextChunkMel
    BY <1>1, <1>2 DEF ChunkReady
  <2>2. CacheFrames \in Seq(Frames) /\ Heard(CacheFrames, Len(decoded), mel.made)
    BY <2>1, <1>2, CacheHeard
  <2>3. QED
    BY <2>2, <1>2, <1>3
<1> HIDE DEF w
<1>5. ws \in Seq(Nat) /\ Enumerates(published \o ws, Said') /\ heard' \in Int
  BY <1>1, <1>2, <1>3, <1>4, WordsTaken
<1> HIDE DEF ws
<1>6. WordTypes'
  BY <1>1, <1>5 DEF WordsInv, WordTypes
<1>7. OnlyReal' /\ HeardLast'
  BY <1>1 DEF OnlyReal, HeardLast
<1>8. Covers(scan)' /\ QuietBehind'
  BY <1>1, CoversSame, QuietSame DEF WordsInv
<1>9. Enumerates(AllWords, Said)'
  <2>1. AllWords' = published \o ws
    BY <1>1 DEF AllWords
  <2>2. QED
    BY <2>1, <1>5 DEF Enumerates, Increasing, ToSet
<1>10. QED
  BY <1>6, <1>7, <1>8, <1>9 DEF WordsInv

LEMMA FlushDoneWords ==
  ASSUME StreamInv, WordsInv, FlushDone
  PROVE  WordsInv'
<1>1. /\ Close(words, dec) /\ voice' = voice /\ cfg' = cfg /\ mel' = mel
      /\ decoded' = decoded /\ heard' = heard /\ scan' = scan /\ ep' = ep
  BY DEF FlushDone, input, buffers
<1>2. words \in Seq(Nat) /\ heard' \in Int
  BY <1>1 DEF WordsInv, WordTypes
<1>3. Said' = Said
  BY <1>1, SaidAfter DEF Said
<1>4. Enumerates(published \o words, Said')
  BY <1>3 DEF WordsInv, AllWords
<1>5. QED
  BY <1>1, <1>2, <1>4, WordsClosed

LEMMA TailWindowWords ==
  ASSUME StreamInv, StreamInv', WordsInv, TailWindow
  PROVE  WordsInv'
<1> DEFINE n == Len(decoded)
           w == WindowFrames(LeftEdge, audio.end, TRUE)
           ws == words \o WordsOf(w)
<1>1. /\ phase = "tail" /\ ~IsCache /\ voice' = voice /\ cfg' = cfg
      /\ scan' = scan /\ ep' = ep
      /\ IF dec.start < audio.end
         THEN mel' = WithNewFrames /\ Decode(w) /\ Close(ws, dec')
         ELSE Close(words, dec) /\ mel' = mel /\ heard' = heard /\ decoded' = decoded
  BY DEF TailWindow, input
<1>2. /\ voice \in SUBSET Nat /\ mel' \in Mels /\ mel.made \in Nat /\ StreamTypes /\ FrontEnd
      /\ words \in Seq(Nat) /\ heard \in Int /\ n \in Nat /\ Window(mel, dec, n)
      /\ audio.end \in Int
  BY <1>1, Fields, SMTT(30) DEF StreamInv, StreamTypes, WordsInv, WordTypes, BufferedHead
<1>3. CASE dec.start < audio.end
  <2>1. mel' = WithNewFrames /\ Decode(w) /\ Close(ws, dec')
    BY <1>1, <1>3
  <2>2. mel'.made = FramesOf(audio.end) /\ mel.made <= mel'.made
    BY <2>1, <1>2, Extended DEF FrontEnd
  <2>3. w \in Seq(Frames) /\ Heard(w, n, FramesOf(audio.end))
    <3>1. TRUE \in BOOLEAN
      OBVIOUS
    <3> HIDE DEF n
    <3>2. QED
      BY <3>1, <1>2, WindowHeard
  <2> HIDE DEF w
  <2>4. ws \in Seq(Nat) /\ Enumerates(published \o ws, Said') /\ heard' \in Int
    BY <2>1, <2>2, <2>3, <1>1, <1>2, WordsTaken
  <2> HIDE DEF ws
  <2>5. QED
    BY <2>1, <2>4, <1>1, WordsClosed
<1>4. CASE ~(dec.start < audio.end)
  <2>1. Close(words, dec) /\ mel' = mel /\ heard' = heard /\ decoded' = decoded
    BY <1>1, <1>4
  <2>2. Said' = Said
    BY <2>1, <1>1, SaidAfter DEF Said
  <2>3. Enumerates(published \o words, Said')
    BY <2>2 DEF WordsInv, AllWords
  <2>4. QED
    BY <2>1, <2>3, <1>1, <1>2, WordsClosed
<1>5. QED
  BY <1>3, <1>4

LEMMA WordsNextKeeps ==
  ASSUME StreamInv, StreamInv', WordsInv, [StreamNext]_streamVars
  PROVE  WordsInv'
<1>1. CASE \E n \in Feeds : Push(n)
  BY <1>1, PushWords
<1>2. CASE ForceEndpoint
  BY <1>2, ForceEndpointWords
<1>3. CASE Next_
  BY <1>3, BeginStepWords DEF Next_
<1>4. CASE Finish
  BY <1>4, BeginStepWords DEF Finish
<1>5. CASE ProcessChunk
  BY <1>5, ProcessChunkWords
<1>6. CASE LastPoll
  BY <1>6, LastPollWords
<1>7. CASE EndStep
  BY <1>7, EndStepWords
<1>8. CASE PadTail
  BY <1>8, PadTailWords
<1>9. CASE FlushChunk
  BY <1>9, FlushChunkWords
<1>10. CASE FlushDone
  BY <1>10, FlushDoneWords
<1>11. CASE TailWindow
  BY <1>11, TailWindowWords
<1>12. CASE Reset
  BY <1>12, ResetWords
<1>13. CASE UNCHANGED streamVars
  BY <1>13, WordsStutter
<1>14. QED
  BY <1>1, <1>2, <1>3, <1>4, <1>5, <1>6, <1>7, <1>8, <1>9, <1>10, <1>11, <1>12, <1>13
     DEF StreamNext

(* For any hop, subsampling, right context and endpointing signal, whatever   *)
(* is said where, with a transducer, and with a CTC model of whole-frame      *)
(* windows: each word is in exactly one final result or still open, in the    *)
(* order spoken, and an utterance that silence ended has the whole threshold  *)
(* of decoded silence behind it (poll_endpoint, fire_eou, scan_vad_speech,    *)
(* finalize).                                                                 *)
THEOREM FinalsStayUtterances ==
  StreamSpec => [](IsCache \/ WholeFrameWindows => FinalsAreUtterances)
<1>1. StreamInit => WordsInv
  <2>1. StreamInit => Fresh /\ NoWords
    <3>1. MaxVoice \in Nat
      BY RunnerAssumption
    <3>2. 0 .. MaxVoice - 1 \subseteq Nat
      BY <3>1
    <3>3. QED
      BY <3>2 DEF StreamInit, Fresh, NoWords
  <2>2. QED
    BY <2>1, WordsStart
<1>2. (Covered => WordsInv) /\ (Covered => StreamInv) /\ (Covered => StreamInv)' /\ [StreamNext]_streamVars
        => (Covered => WordsInv)'
  <2> SUFFICES ASSUME Covered => WordsInv, Covered => StreamInv, (Covered => StreamInv)',
                      [StreamNext]_streamVars, Covered'
               PROVE  WordsInv'
    OBVIOUS
  <2>1. Covered
    BY HeadStays DEF Covered, IsCache
  <2>2. QED
    BY <2>1, WordsNextKeeps
<1>3. (Covered => StreamInv) /\ (Covered => WordsInv)
        => (IsCache \/ WholeFrameWindows => FinalsAreUtterances)
  BY WordsInvImplies DEF Covered
<1>4. QED
  BY <1>1, <1>2, <1>3, StreamInvariance, PTL DEF StreamSpec
=============================================================================
