-------------------------- MODULE ModelStoreProofs --------------------------
(* Proofs about ModelStore, for any processes, revisions and faults: the    *)
(* lock of an artifact lets one process, or the curl it left behind, work   *)
(* in the cache at a time.                                                  *)
EXTENDS ModelStore, TLAPS

\* Where a process holds the lock, and where it goes on after RemoveRevision.
Places ==
    {"cached", "unmark", "remark", "remove", "forget", "partial", "check", "record", "stamp",
     "fetch", "segment", "wait", "restart", "refetch", "assemble", "verify", "clear", "rename",
     "wipe", "extract", "evict", "swap", "done", "throw"}
Continuations == {"check", "record", "unmark", "done", "throw"}

LockType ==
    /\ pc \in [Proc -> Places \cup {"idle", "lock"}]
    /\ then \in [Proc -> Continuations]
    /\ DOMAIN curl = Proc

(* Who works holds the lock.  A child belongs to a process that waits for   *)
(* it, or it has inherited the lock; there is one at most.                  *)
LockInv ==
    /\ LockType
    /\ \A p \in Proc : Working(p) <=> lock = p
    /\ \A p \in Proc : curl[p] # NoChild => lock = Inherited \/ (lock = p /\ pc[p] = "wait")
    /\ \A p, q \in Proc : curl[p] # NoChild /\ curl[q] # NoChild => p = q

LEMMA InitLock == Init => LockInv
BY StoreAssumption DEF Init, LockInv, LockType, Working, Free, Inherited, Places, Continuations

(* A step of a process that has the lock and no child.                      *)
Inside(p) ==
    /\ pc[p] \in Places \ {"wait"}
    /\ \E w \in Places \ {"wait"} : pc' = [pc EXCEPT ![p] = w]
    /\ curl' = curl /\ lock' = lock
    /\ then' \in [Proc -> Continuations]

LEMMA InsideKeeps ==
    ASSUME LockInv, NEW p \in Proc, Inside(p)
    PROVE  LockInv'
<1>1. PICK w \in Places \ {"wait"} : pc' = [pc EXCEPT ![p] = w]
  BY DEF Inside
<1>2. LockType'
  BY <1>1 DEF LockInv, LockType, Inside
<1>3. \A q \in Proc : Working(q)' <=> Working(q)
  BY <1>1 DEF LockInv, LockType, Inside, Working, Places
<1>4. lock = p
  BY DEF LockInv, Inside, Working, Places
<1>5. \A q \in Proc : curl[q] # NoChild => lock = Inherited
  BY <1>4 DEF LockInv, Inside
<1> QED BY <1>2, <1>3, <1>5 DEF LockInv, Inside

(* Every step of a process but the forks and the release is of that kind.   *)
LEMMA StepIsInside ==
    ASSUME LockType, NEW p \in Proc,
           \/ Cached(p) \/ Unmark(p) \/ Remark(p) \/ RemovePartial(p) \/ RemoveRevision(p)
           \/ ExaminePartial(p) \/ CheckPartial(p) \/ Record(p) \/ Stamp(p) \/ OpenArchive(p)
           \/ Restart(p) \/ Assemble(p) \/ Verify(p) \/ ClearDestination(p)
           \/ RenamePartial(p) \/ WipeExtracting(p) \/ ExtractMember(p) \/ EvictMember(p)
           \/ RenameDirectory(p) \/ MarkerFails(p) \/ RecordFails(p) \/ InstallFails(p)
    PROVE  Inside(p)
<1> USE DEF LockType, Inside, Places, Continuations, Goto, Drop
<1>1. CASE Cached(p)
  <2>1. PICK w \in {"done", "unmark", "partial"} : pc' = [pc EXCEPT ![p] = w]
    BY <1>1 DEF Cached
  <2> QED BY <1>1, <2>1 DEF Cached
<1>2. CASE Unmark(p)         BY <1>2 DEF Unmark
<1>3. CASE Remark(p)         BY <1>3 DEF Remark
<1>4. CASE RemovePartial(p)  BY <1>4 DEF RemovePartial
<1>5. CASE RemoveRevision(p) BY <1>5 DEF RemoveRevision
<1>6. CASE ExaminePartial(p) BY <1>6 DEF ExaminePartial
<1>7. CASE CheckPartial(p)   BY <1>7 DEF CheckPartial
<1>8. CASE Record(p)         BY <1>8 DEF Record
<1>9. CASE Stamp(p)          BY <1>9 DEF Stamp
<1>10. CASE OpenArchive(p)   BY <1>10 DEF OpenArchive
<1>11. CASE Restart(p)       BY <1>11 DEF Restart
<1>12. CASE Assemble(p)      BY <1>12 DEF Assemble
<1>13. CASE Verify(p)        BY <1>13 DEF Verify
<1>14. CASE ClearDestination(p) BY <1>14 DEF ClearDestination
<1>15. CASE RenamePartial(p)   BY <1>15 DEF RenamePartial
<1>16. CASE WipeExtracting(p)  BY <1>16 DEF WipeExtracting
<1>17. CASE ExtractMember(p)   BY <1>17 DEF ExtractMember
<1>18. CASE EvictMember(p)     BY <1>18 DEF EvictMember
<1>19. CASE RenameDirectory(p) BY <1>19 DEF RenameDirectory
<1>20. CASE MarkerFails(p)     BY <1>20 DEF MarkerFails
<1>21. CASE RecordFails(p)     BY <1>21 DEF RecordFails
<1>22. CASE InstallFails(p)    BY <1>22 DEF InstallFails
<1> QED BY <1>1, <1>2, <1>3, <1>4, <1>5, <1>6, <1>7, <1>8, <1>9, <1>10, <1>11, <1>12, <1>13,
           <1>14, <1>15, <1>16, <1>17, <1>18, <1>19, <1>20, <1>21, <1>22

LEMMA StepLock == LockInv /\ [Next]_vars => LockInv'
<1> SUFFICES ASSUME LockInv, [Next]_vars PROVE LockInv'
  OBVIOUS
<1> USE StoreAssumption DEF LockInv, LockType, Working, Free, Inherited, Places, Goto
<1>1. ASSUME NEW p \in Proc, Pull(p) PROVE LockInv'
  BY <1>1 DEF Pull
<1>2. ASSUME NEW p \in Proc, Acquire(p) PROVE LockInv'
  BY <1>2 DEF Acquire
<1>3. ASSUME NEW p \in Proc, Step(p) PROVE LockInv'
  <2>1. CASE FetchFile(p) \/ FetchSegment(p) \/ Refetch(p)
    <3>1. /\ pc[p] \in {"fetch", "segment", "refetch"}
          /\ pc' = [pc EXCEPT ![p] = "wait"]
          /\ \E child : curl' = [curl EXCEPT ![p] = child]
          /\ lock' = lock /\ then' = then
      BY <2>1 DEF FetchFile, FetchSegment, Refetch, Fork
    <3>2. lock = p /\ \A q \in Proc : curl[q] = NoChild
      BY <3>1
    <3> QED BY <3>1, <3>2
  <2>2. CASE Release(p)
    <3>1. lock = p /\ \A q \in Proc : curl[q] = NoChild
      BY <2>2 DEF Release
    <3> QED BY <2>2, <3>1 DEF Release
  <2> QED BY <1>3, <2>1, <2>2, StepIsInside, InsideKeeps DEF Step
<1>4. ASSUME NEW p \in Proc, MarkerFails(p) \/ RecordFails(p) \/ InstallFails(p) PROVE LockInv'
  BY <1>4, StepIsInside, InsideKeeps
<1>5. ASSUME NEW p \in Proc, NEW c, CurlWrite(p, c) PROVE LockInv'
  <2>1. /\ curl[p] # NoChild /\ pc' = pc /\ lock' = lock /\ then' = then
        /\ \E child : curl' = [curl EXCEPT ![p] = child]
    BY <1>5, Zenon DEF CurlWrite
  <2> QED BY <2>1
<1>6. ASSUME NEW p \in Proc, CurlSucceeds(p) \/ CurlRefused(p) \/ CurlFails(p) PROVE LockInv'
  <2>1. /\ curl[p] # NoChild
        /\ curl' = [curl EXCEPT ![p] = NoChild]
        /\ lock' = IF lock = Inherited THEN Free ELSE lock
        /\ IF pc[p] # "wait" THEN pc' = pc
           ELSE \E w \in {"verify", "assemble", "restart", "throw"} : pc' = [pc EXCEPT ![p] = w]
        /\ then' = then
    BY <1>6 DEF CurlSucceeds, CurlRefused, CurlFails, Reap
  <2>2. \A q \in Proc : curl'[q] = NoChild
    BY <2>1
  <2> QED BY <2>1, <2>2
<1>7. ASSUME NEW p \in Proc, NEW alone \in BOOLEAN, Crash(p, alone) PROVE LockInv'
  BY <1>7 DEF Crash
<1>8. CASE Damage
  BY <1>8 DEF Damage
<1>9. CASE UNCHANGED vars
  BY <1>9 DEF vars
<1> QED BY <1>1, <1>2, <1>3, <1>4, <1>5, <1>6, <1>7, <1>8, <1>9 DEF Next, CurlStep

(* One process, or the curl it left behind, works in the cache at a time.   *)
THEOREM OneWriterAtATime == Spec => []OneWriter
<1>1. LockInv => OneWriter
  BY StoreAssumption DEF LockInv, OneWriter, Inherited
<1>2. LockInv /\ [Next]_vars => LockInv'
  BY StepLock
<1> QED BY <1>1, <1>2, InitLock, PTL DEF Spec
-----------------------------------------------------------------------------
(* What a process knows of the files at each place of materialize, since    *)
(* nobody else works there; and what a fresh marker says.                   *)
MarkerInv ==
    kind = "file" /\ marker.fresh = TRUE /\ dest # Absent => dest = Good(marker.v)

PlaceInv(p) ==
    /\ pc[p] \in {"unmark", "remark", "done"} => dest = Good(want[p])
    /\ pc[p] \in {"remove", "forget"} /\ then[p] \in {"unmark", "done"} => dest = Good(want[p])
    /\ pc[p] \in {"clear", "rename"} => partial = Good(want[p])
    /\ pc[p] \in {"wipe", "extract", "evict", "swap"} => kind # "file"
    /\ pc[p] \in {"evict", "swap"} => extracting = Good(want[p])

IInv == LockInv /\ MarkerInv /\ \A p \in Proc : PlaceInv(p)

LEMMA InitPlaces == Init => MarkerInv /\ \A p \in Proc : PlaceInv(p)
BY DEF Init, MarkerInv, PlaceInv, NoMarker

(* A worker's step leaves to show only what the worker itself knows.        *)
LEMMA OthersKnowNothing ==
    ASSUME LockInv, NEW p \in Proc, pc[p] \notin {"idle", "lock"},
           \E w : pc' = [pc EXCEPT ![p] = w],
           PlaceInv(p)'
    PROVE  \A q \in Proc : PlaceInv(q)'
<1> SUFFICES ASSUME NEW q \in Proc, q # p PROVE PlaceInv(q)'
  OBVIOUS
<1>1. pc[q] \in {"idle", "lock"}
  BY DEF LockInv, Working
<1>2. pc'[q] = pc[q]
  BY DEF LockInv, LockType
<1> QED BY <1>1, <1>2 DEF PlaceInv

(* Where nobody works nothing is known.                                     *)
LEMMA NobodyKnows ==
    ASSUME NEW p \in Proc, pc'[p] \in {"idle", "lock", "cached", "wait", "verify", "assemble",
                                       "restart", "throw"}
    PROVE  PlaceInv(p)'
BY DEF PlaceInv

\* A step of p within materialize; it names what it leaves alone.
LEMMA StepPlaces ==
    ASSUME IInv, NEW p \in Proc,
           Step(p) \/ MarkerFails(p) \/ RecordFails(p) \/ InstallFails(p)
    PROVE  MarkerInv' /\ PlaceInv(p)'
<1> USE DEF IInv, LockInv, LockType, MarkerInv, PlaceInv, Goto, Drop, files
<1>1. CASE Cached(p)
  <2>1. kind' = kind /\ dest' = dest /\ marker' = marker /\ want' = want /\ then' = then
    BY <1>1 DEF Cached
  <2>2. pc'[p] \in {"done", "unmark", "partial"}
    BY <1>1 DEF Cached
  <2>3. ASSUME pc'[p] \in {"done", "unmark"} PROVE dest = Good(want[p])
    <3>1. CASE dest = Good(want[p])
      BY <3>1
    <3>2. CASE dest # Good(want[p])
      <4>1. kind = "file" /\ Len(Bytes(dest)) = Length /\ MarkerMatches(want[p])
        BY <1>1, <2>3, <3>2 DEF Cached
      <4>2. dest # Absent
        BY <4>1, StoreAssumption DEF Bytes
      <4> QED BY <4>1, <4>2 DEF MarkerMatches
    <3> QED BY <3>1, <3>2
  <2> QED BY <2>1, <2>2, <2>3
<1>2. CASE Unmark(p)         BY <1>2 DEF Unmark, NoMarker
<1>3. CASE Remark(p)         BY <1>3 DEF Remark
<1>4. CASE RemovePartial(p)  BY <1>4 DEF RemovePartial
<1>5. CASE RemoveRevision(p) BY <1>5 DEF RemoveRevision, Continuations
<1>6. CASE ExaminePartial(p) BY <1>6 DEF ExaminePartial
<1>7. CASE CheckPartial(p)   BY <1>7 DEF CheckPartial
<1>8. CASE Record(p) \/ Stamp(p) BY <1>8 DEF Record, Stamp
<1>9. CASE FetchFile(p) \/ OpenArchive(p) \/ FetchSegment(p) \/ Restart(p) \/ Refetch(p)
  BY <1>9 DEF FetchFile, OpenArchive, FetchSegment, Restart, Refetch
<1>10. CASE Assemble(p)      BY <1>10 DEF Assemble
<1>11. CASE Verify(p)        BY <1>11 DEF Verify
<1>12. CASE ClearDestination(p) BY <1>12 DEF ClearDestination
<1>13. CASE RenamePartial(p) BY <1>13 DEF RenamePartial, Stale
<1>14. CASE WipeExtracting(p) BY <1>14 DEF WipeExtracting
<1>15. CASE ExtractMember(p) BY <1>15 DEF ExtractMember
<1>16. CASE EvictMember(p)   BY <1>16 DEF EvictMember
<1>17. CASE RenameDirectory(p) BY <1>17 DEF RenameDirectory
<1>18. CASE Release(p)       BY <1>18 DEF Release
<1>19. CASE MarkerFails(p) \/ RecordFails(p) \/ InstallFails(p)
  BY <1>19 DEF MarkerFails, RecordFails, InstallFails
<1> QED BY <1>1, <1>2, <1>3, <1>4, <1>5, <1>6, <1>7, <1>8, <1>9, <1>10, <1>11, <1>12, <1>13,
           <1>14, <1>15, <1>16, <1>17, <1>18, <1>19 DEF Step

LEMMA StepMoves ==
    ASSUME LockType, NEW p \in Proc,
           Step(p) \/ MarkerFails(p) \/ RecordFails(p) \/ InstallFails(p)
    PROVE  pc[p] \notin {"idle", "lock", "wait"} /\ \E w : pc' = [pc EXCEPT ![p] = w]
<1>1. CASE FetchFile(p) \/ FetchSegment(p) \/ Refetch(p) \/ Release(p)
  BY <1>1 DEF FetchFile, FetchSegment, Refetch, Release, Goto
<1>2. CASE Inside(p)
  BY <1>2 DEF Inside, Places
<1> QED BY <1>1, <1>2, StepIsInside DEF Step

LEMMA StepIInv == IInv /\ [Next]_vars => IInv'
<1> SUFFICES ASSUME IInv, [Next]_vars PROVE MarkerInv' /\ \A p \in Proc : PlaceInv(p)'
  BY StepLock DEF IInv
<1> USE DEF IInv
<1>1. ASSUME NEW p \in Proc, Pull(p) \/ Acquire(p) PROVE MarkerInv' /\ \A q \in Proc : PlaceInv(q)'
  BY <1>1 DEF Pull, Acquire, Goto, files, MarkerInv, PlaceInv, LockInv, LockType
<1>2. ASSUME NEW p \in Proc, Step(p) \/ MarkerFails(p) \/ RecordFails(p) \/ InstallFails(p)
      PROVE  MarkerInv' /\ \A q \in Proc : PlaceInv(q)'
  BY <1>2, StepPlaces, StepMoves, OthersKnowNothing DEF LockInv
<1>3. ASSUME NEW p \in Proc,
             (\E c : CurlWrite(p, c)) \/ CurlSucceeds(p) \/ CurlRefused(p) \/ CurlFails(p)
      PROVE  MarkerInv' /\ \A q \in Proc : PlaceInv(q)'
  <2>1. /\ curl[p] # NoChild
        /\ UNCHANGED <<kind, dest, marker>>
        /\ pc' = pc \/ \E w \in {"verify", "assemble", "restart", "throw"} :
                         pc' = [pc EXCEPT ![p] = w]
    <3>1. ASSUME NEW c, CurlWrite(p, c)
          PROVE  curl[p] # NoChild /\ UNCHANGED <<kind, dest, marker>> /\ pc' = pc
      BY <3>1, Zenon DEF CurlWrite
    <3>2. CASE CurlSucceeds(p)
      BY <3>2 DEF CurlSucceeds, files
    <3>3. CASE CurlRefused(p)
      BY <3>3 DEF CurlRefused, files
    <3>4. CASE CurlFails(p)
      BY <3>4 DEF CurlFails
    <3> QED BY <1>3, <3>1, <3>2, <3>3, <3>4
  <2>2. \A q \in Proc : pc[q] \in {"idle", "lock", "wait"}
    BY <2>1, StoreAssumption DEF LockInv, LockType, Working, Inherited, Places
  <2>3. \A q \in Proc : PlaceInv(q)'
    BY <2>1, <2>2, NobodyKnows DEF LockInv, LockType
  <2> QED BY <2>1, <2>3 DEF MarkerInv
<1>4. ASSUME NEW p \in Proc, NEW alone \in BOOLEAN, Crash(p, alone)
      PROVE  MarkerInv' /\ \A q \in Proc : PlaceInv(q)'
  BY <1>4 DEF Crash, files, MarkerInv, PlaceInv, LockInv, LockType
<1>5. CASE Damage
  <2>1. \A q \in Proc : pc'[q] \in {"idle", "lock"}
    BY <1>5, StoreAssumption DEF Damage, LockInv, LockType, Working, Free, Places
  <2> QED BY <1>5, <2>1, NobodyKnows DEF Damage, MarkerInv, Stale
<1>6. CASE UNCHANGED vars
  BY <1>6 DEF vars, files, MarkerInv, PlaceInv
<1> QED BY <1>1, <1>2, <1>3, <1>4, <1>5, <1>6 DEF Next, CurlStep

(* The inductive invariant of the store.                                    *)
THEOREM Invariance == Spec => []IInv
<1>1. Init => IInv
  BY InitLock, InitPlaces DEF IInv
<1> QED BY <1>1, StepIInv, PTL DEF Spec

(* materialize returns only what has the size and the SHA-256 of the        *)
(* revision the release pins, after any crashes, failures and damage.       *)
THEOREM ReturnsVerified == Spec => []ReturnedIsVerified
<1>1. IInv => ReturnedIsVerified
  BY DEF IInv, PlaceInv, ReturnedIsVerified
<1> QED BY <1>1, Invariance, PTL
-----------------------------------------------------------------------------
(* What the revision marker says of the partial file, and what a process    *)
(* and a curl know of both.                                                 *)
Of(v) == Seq({v, "bad"})

RevisionInv ==
    /\ want \in [Proc -> Version]
    /\ rev # NoRevision => Bytes(partial) \in Of(rev)

ChildInv(p) ==
    curl[p] # NoChild =>
        /\ curl[p].v = rev
        /\ kind # "file" => /\ segment = Absent \/ segment \in Of(rev)
                            /\ curl[p].resume = FALSE

PartialInv(p) ==
    /\ pc[p] = "forget" => partial = Absent
    /\ pc[p] \in {"check", "record", "stamp"} => Bytes(partial) \in Of(want[p])
    /\ pc[p] \in {"fetch", "segment", "wait", "restart", "refetch", "assemble"} => rev = want[p]
    /\ pc[p] \in {"segment", "wait", "assemble"} /\ kind # "file" => partial \in Of(want[p])
    /\ pc[p] = "assemble" => kind # "file" /\ segment \in Of(want[p])
    /\ pc[p] = "segment" => kind # "file"
    /\ pc[p] \in {"restart", "refetch"} => kind = "file"

SpliceInv == RevisionInv /\ \A p \in Proc : ChildInv(p) /\ PartialInv(p)

LEMMA InitSplice == Init => SpliceInv
BY DEF Init, SpliceInv, RevisionInv, ChildInv, PartialInv

LEMMA EmptyIsClean == \A v : <<>> \in Of(v) /\ Bytes(Absent) \in Of(v)
BY DEF Of, Bytes

LEMMA AppendIsClean ==
    ASSUME NEW v, NEW f \in Of(v), NEW c \in {v, "bad"}
    PROVE  /\ Append(f, c) \in Of(v)
           /\ Bytes(Append(f, c)) \in Of(v)
           /\ <<c>> \in Of(v)
BY DEF Of, Bytes

LEMMA ConcatIsClean ==
    ASSUME NEW v, NEW f \in Of(v), NEW g \in Of(v)
    PROVE  f \o g \in Of(v) /\ Bytes(f \o g) \in Of(v)
BY DEF Of, Bytes

\* A step of p within materialize, but the forks and the release.
LEMMA InsideSplice ==
    ASSUME LockInv, SpliceInv, NEW p \in Proc, \A q \in Proc : curl[q] = NoChild,
           Step(p) \/ MarkerFails(p) \/ RecordFails(p) \/ InstallFails(p)
    PROVE  RevisionInv' /\ PartialInv(p)'
<1> USE EmptyIsClean DEF LockInv, LockType, SpliceInv, RevisionInv, PartialInv, Goto, Drop, files
<1>0. want[p] # NoRevision
  BY StoreAssumption DEF NoRevision
<1>1. CASE Cached(p)
  <2>1. pc'[p] \in {"done", "unmark", "partial"} /\ want' = want /\ rev' = rev /\ partial' = partial
    BY <1>1 DEF Cached
  <2> QED BY <2>1
<1>2. CASE Unmark(p)         BY <1>2 DEF Unmark
<1>3. CASE Remark(p)         BY <1>3 DEF Remark
<1>4. CASE RemovePartial(p)  BY <1>4 DEF RemovePartial
<1>5. CASE RemoveRevision(p) BY <1>5 DEF RemoveRevision, Continuations
<1>6. CASE ExaminePartial(p) BY <1>0, <1>6 DEF ExaminePartial, PartialRevisionMatches
<1>7. CASE CheckPartial(p)   BY <1>7 DEF CheckPartial
<1>8. CASE Record(p)         BY <1>8 DEF Record
<1>9. CASE Stamp(p)          BY <1>9 DEF Stamp
<1>10. CASE FetchFile(p)     BY <1>10 DEF FetchFile
<1>11. CASE OpenArchive(p)   BY <1>11 DEF OpenArchive, Bytes
<1>12. CASE FetchSegment(p)  BY <1>12 DEF FetchSegment
<1>13. CASE Restart(p)       BY <1>13 DEF Restart
<1>14. CASE Refetch(p)       BY <1>14 DEF Refetch
<1>15. CASE Assemble(p)
  <2>1. partial' \in Of(want[p]) /\ Bytes(partial') \in Of(want[p])
    BY <1>15, ConcatIsClean DEF Assemble
  <2>2. rev = want[p] /\ rev' = rev /\ want' = want /\ pc'[p] \in {"segment", "verify"} /\ kind' = kind
    BY <1>15 DEF Assemble
  <2>3. kind # "file"
    BY <1>15 DEF Assemble
  <2> QED BY <2>1, <2>2, <2>3
<1>16. CASE Verify(p)        BY <1>16 DEF Verify
<1>17. CASE ClearDestination(p) BY <1>17 DEF ClearDestination
<1>18. CASE RenamePartial(p) BY <1>18 DEF RenamePartial
<1>19. CASE WipeExtracting(p) BY <1>19 DEF WipeExtracting
<1>20. CASE ExtractMember(p) BY <1>20 DEF ExtractMember
<1>21. CASE EvictMember(p)   BY <1>21 DEF EvictMember
<1>22. CASE RenameDirectory(p) BY <1>22 DEF RenameDirectory
<1>23. CASE Release(p)       BY <1>23 DEF Release
<1>24. CASE MarkerFails(p) \/ RecordFails(p) \/ InstallFails(p)
  BY <1>24 DEF MarkerFails, RecordFails, InstallFails
<1> QED BY <1>1, <1>2, <1>3, <1>4, <1>5, <1>6, <1>7, <1>8, <1>9, <1>10, <1>11, <1>12, <1>13,
           <1>14, <1>15, <1>16, <1>17, <1>18, <1>19, <1>20, <1>21, <1>22, <1>23, <1>24 DEF Step

\* Only a fork gives p a child, and it is told the revision of the marker.
LEMMA InsideChild ==
    ASSUME LockInv, SpliceInv, NEW p \in Proc, \A q \in Proc : curl[q] = NoChild,
           Step(p) \/ MarkerFails(p) \/ RecordFails(p) \/ InstallFails(p)
    PROVE  \A q \in Proc : ChildInv(q)'
<1>1. CASE FetchFile(p) \/ FetchSegment(p) \/ Refetch(p)
  <2> DEFINE Forked(b) == curl' = [curl EXCEPT ![p] = [v |-> want[p], resume |-> b]]
             Knows == rev = want[p] /\ rev' = rev /\ kind' = kind
  <2> USE DEF Fork, Goto, files, SpliceInv, PartialInv
  <2>1. CASE FetchFile(p)
    <3>1. Forked(partial # Absent) /\ Knows /\ kind = "file"
      BY <2>1 DEF FetchFile
    <3> QED BY <3>1 DEF ChildInv, LockInv, LockType
  <2>2. CASE FetchSegment(p)
    <3>1. Forked(FALSE) /\ Knows /\ segment' = Absent
      BY <2>2 DEF FetchSegment
    <3> QED BY <3>1 DEF ChildInv, LockInv, LockType
  <2>3. CASE Refetch(p)
    <3>1. Forked(FALSE) /\ Knows /\ kind = "file"
      BY <2>3 DEF Refetch
    <3> QED BY <3>1 DEF ChildInv, LockInv, LockType
  <2> QED BY <1>1, <2>1, <2>2, <2>3
<1>2. CASE Release(p)
  BY <1>2 DEF Release, ChildInv
<1>3. CASE Inside(p)
  BY <1>3 DEF Inside, ChildInv
<1> QED BY <1>1, <1>2, <1>3, StepIsInside DEF Step, LockInv

\* A step of the child of p, or its end.
LEMMA CurlSplice ==
    ASSUME LockInv, SpliceInv, NEW p \in Proc,
           CurlStep(p) \/ CurlRefused(p) \/ CurlFails(p)
    PROVE  SpliceInv'
<1> USE DEF LockInv, LockType, SpliceInv
<1>1. curl[p] # NoChild
  BY Zenon DEF CurlStep, CurlWrite, CurlSucceeds, CurlRefused, CurlFails
<1>2. \A q \in Proc : pc[q] \in {"idle", "lock"} \/ (q = p /\ pc[q] = "wait")
  BY <1>1, StoreAssumption DEF Working, Inherited, Places
<1>3. \A q \in Proc \ {p} : curl[q] = NoChild
  BY <1>1
<1>4. curl[p].v = rev
  BY <1>1 DEF ChildInv
<1>5. ASSUME NEW c \in {curl[p].v, "bad"}, CurlWrite(p, c) PROVE SpliceInv'
  <2>1. /\ pc' = pc /\ want' = want /\ rev' = rev /\ kind' = kind
        /\ curl' = [curl EXCEPT ![p] = [v |-> curl[p].v, resume |-> FALSE]]
        /\ IF kind = "file"
           THEN partial' = Append(Bytes(partial), c) /\ segment' = segment
           ELSE segment' = <<c>> /\ partial' = partial
    BY <1>5 DEF CurlWrite
  <2>2. RevisionInv'
    BY <1>4, <2>1, AppendIsClean DEF RevisionInv
  <2>3. ASSUME NEW q \in Proc PROVE PartialInv(q)'
    BY <1>2, <2>1, <2>3 DEF PartialInv
  <2>4. ASSUME NEW q \in Proc PROVE ChildInv(q)'
    <3>1. CASE q = p
      <4>1. <<c>> \in Of(rev)
        BY <1>4, EmptyIsClean, AppendIsClean
      <4>2. curl'[p].v = rev /\ curl'[p].resume = FALSE
        BY <1>4, <2>1
      <4> QED BY <2>1, <3>1, <4>1, <4>2 DEF ChildInv
    <3>2. CASE q # p
      BY <1>3, <2>1, <3>2 DEF ChildInv
    <3> QED BY <3>1, <3>2
  <2> QED BY <2>2, <2>3, <2>4
<1>6. ASSUME CurlSucceeds(p) \/ CurlRefused(p) \/ CurlFails(p) PROVE SpliceInv'
  <2>1. /\ want' = want /\ rev' = rev /\ kind' = kind /\ partial' = partial
        /\ curl' = [curl EXCEPT ![p] = NoChild]
    BY <1>6 DEF CurlSucceeds, CurlRefused, CurlFails, Reap, files
  <2>2. \A q \in Proc : ChildInv(q)'
    BY <1>3, <2>1 DEF ChildInv
  <2>3. RevisionInv'
    BY <2>1 DEF RevisionInv
  <2>4. ASSUME NEW q \in Proc PROVE PartialInv(q)'
    <3>1. CASE pc[q] # "wait"
      <4>1. pc'[q] = pc[q] /\ pc[q] \in {"idle", "lock"}
        BY <1>2, <1>6, <3>1 DEF CurlSucceeds, CurlRefused, CurlFails
      <4> QED BY <4>1 DEF PartialInv
    <3>2. CASE pc[q] = "wait" /\ CurlSucceeds(p)
      <4>1. q = p
        BY <1>2, <3>2
      <4>2. /\ pc'[p] = IF kind = "file" THEN "verify" ELSE "assemble"
            /\ segment' = segment
            /\ kind # "file" => segment # Absent
        BY <3>2, <4>1 DEF CurlSucceeds, files
      <4>3. rev = want[p]
        BY <3>2, <4>1 DEF PartialInv
      <4>4. kind # "file" => segment \in Of(want[p]) /\ partial \in Of(want[p])
        BY <1>1, <1>4, <3>2, <4>1, <4>2, <4>3 DEF ChildInv, PartialInv
      <4> QED BY <2>1, <4>1, <4>2, <4>3, <4>4 DEF PartialInv
    <3>3. CASE pc[q] = "wait" /\ CurlRefused(p)
      <4>1. q = p /\ pc'[p] = "restart" /\ kind = "file"
        BY <1>1, <1>2, <3>3 DEF CurlRefused, ChildInv
      <4> QED BY <2>1, <3>3, <4>1 DEF PartialInv
    <3>4. CASE pc[q] = "wait" /\ CurlFails(p)
      <4>1. pc'[q] = "throw"
        BY <1>2, <3>4 DEF CurlFails
      <4> QED BY <4>1 DEF PartialInv
    <3> QED BY <1>6, <3>1, <3>2, <3>3, <3>4
  <2> QED BY <2>2, <2>3, <2>4
<1> QED BY <1>5, <1>6 DEF CurlStep

LEMMA StepSplice == LockInv /\ SpliceInv /\ [Next]_vars => SpliceInv'
<1> SUFFICES ASSUME LockInv, SpliceInv, [Next]_vars PROVE SpliceInv'
  OBVIOUS
<1>1. ASSUME NEW p \in Proc, Pull(p) \/ Acquire(p) PROVE SpliceInv'
  BY <1>1 DEF Pull, Acquire, Goto, files, SpliceInv, RevisionInv, ChildInv, PartialInv,
              LockInv, LockType
<1>2. ASSUME NEW p \in Proc, Step(p) \/ MarkerFails(p) \/ RecordFails(p) \/ InstallFails(p)
      PROVE  SpliceInv'
  <2>1. pc[p] \notin {"idle", "lock", "wait"} /\ \E w : pc' = [pc EXCEPT ![p] = w]
    BY <1>2, StepMoves DEF LockInv
  <2>2. lock = p
    BY <2>1 DEF LockInv, Working
  <2>3. \A q \in Proc : curl[q] = NoChild
    BY <2>1, <2>2, StoreAssumption DEF LockInv, Inherited
  <2>4. RevisionInv' /\ PartialInv(p)' /\ \A q \in Proc : ChildInv(q)'
    BY <1>2, <2>3, InsideSplice, InsideChild
  <2>5. ASSUME NEW q \in Proc, q # p PROVE PartialInv(q)'
    <3>1. pc'[q] = pc[q] /\ pc[q] \in {"idle", "lock"}
      BY <2>1, <2>2, <2>5 DEF LockInv, LockType, Working
    <3> QED BY <3>1 DEF PartialInv
  <2> QED BY <2>4, <2>5 DEF SpliceInv
<1>3. ASSUME NEW p \in Proc, CurlStep(p) \/ CurlRefused(p) \/ CurlFails(p) PROVE SpliceInv'
  BY <1>3, CurlSplice
<1>4. ASSUME NEW p \in Proc, NEW alone \in BOOLEAN, Crash(p, alone) PROVE SpliceInv'
  <2>1. UNCHANGED <<want, rev, kind, partial, segment>>
    BY <1>4 DEF Crash, files
  <2>2. \A q \in Proc : curl'[q] = NoChild \/ curl'[q] = curl[q]
    BY <1>4 DEF Crash, LockInv, LockType
  <2>3. \A q \in Proc : pc'[q] = "idle" \/ pc'[q] = pc[q]
    BY <1>4 DEF Crash, LockInv, LockType
  <2>4. RevisionInv' /\ \A q \in Proc : ChildInv(q)'
    BY <2>1, <2>2 DEF SpliceInv, RevisionInv, ChildInv
  <2>5. \A q \in Proc : PartialInv(q)'
    BY <2>1, <2>3 DEF SpliceInv, PartialInv
  <2> QED BY <2>4, <2>5 DEF SpliceInv
<1>5. CASE Damage
  BY <1>5 DEF Damage, SpliceInv, RevisionInv, ChildInv, PartialInv
<1>6. CASE UNCHANGED vars
  BY <1>6 DEF vars, files, SpliceInv, RevisionInv, ChildInv, PartialInv
<1> QED BY <1>1, <1>2, <1>3, <1>4, <1>5, <1>6 DEF Next

(* A partial file that carries a revision holds no byte of another one.     *)
THEOREM RevisionsAreNotSpliced == Spec => []NeverSpliced
<1>1. SpliceInv => NeverSpliced
  BY DEF SpliceInv, RevisionInv, NeverSpliced, Of
<1> QED BY <1>1, InitLock, InitSplice, StepLock, StepSplice, PTL DEF Spec
=============================================================================
