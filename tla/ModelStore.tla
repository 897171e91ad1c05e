----------------------------- MODULE ModelStore -----------------------------
(***************************************************************************)
(* src/app/model_store.cpp: materialize(), the download-verify-install     *)
(* path of one artifact of the model cache, run by several processes that  *)
(* share the cache directory.  Two releases of the program may pin         *)
(* different revisions of the artifact at the same path, a process may     *)
(* die between any two file-system calls, and curl, its child, may outlive *)
(* it.  Only the POSIX build is modelled.                                  *)
(*                                                                         *)
(* A file is Absent or the sequence of its chunks, each named after the    *)
(* revision it belongs to; all revisions have the same size, the case that *)
(* a size test cannot tell apart.  A "file" artifact is one such sequence. *)
(* A "tar" artifact (type tar-ranges) is downloaded range by range into    *)
(* the same partial file and extracted to a directory, whose members are   *)
(* again the chunks.  A SHA-256 that matches is equality with Good(v).     *)
(***************************************************************************)
EXTENDS Naturals, Sequences, FiniteSets

CONSTANTS
    Proc,       \* processes sharing the cache directory
    Version,    \* revisions (with their SHA-256) pinned by the releases in use
    Kinds,      \* subset of {"file", "tar"}: artifact.type
    Length,     \* chunks of a complete artifact
    MaxFaults   \* bound on crashes, failed calls and damaged bytes together

ASSUME StoreAssumption ==
    /\ Kinds \subseteq {"file", "tar"}
    /\ Length \in Nat \ {0}
    /\ MaxFaults \in Nat
    /\ "free" \notin Proc /\ "inherited" \notin Proc /\ "none" \notin Version

VARIABLES
    kind,       \* artifact.type, chosen initially
    dest,       \* the installed artifact
    marker,     \* destination.verified: [v, fresh], fresh when its mtime matches
    partial,    \* <filename>.partial
    rev,        \* <filename>.partial.revision
    segment,    \* <filename>.partial.range-i
    extracting, \* <directory>.extracting
    lock,       \* who holds the flock on destination.lock
    curl,       \* the curl child each process last forked, NoChild when exited
    pc, want,   \* per process: where it is, the revision its release pins
    then,       \* per process: where it goes on once the partial is forgotten
    faults      \* faults so far

files == <<dest, marker, partial, rev, segment, extracting>>
vars == <<kind, files, lock, curl, pc, want, then, faults>>

Absent == <<"absent">>
NoRevision == "none"
NoMarker == [v |-> NoRevision, fresh |-> FALSE]
NoChild == [v |-> NoRevision, resume |-> FALSE]
Free == "free"
Inherited == "inherited"   \* the holder died, its curl child holds the descriptor

Good(v) == [i \in 1 .. Length |-> v]
Bytes(f) == IF f = Absent THEN <<>> ELSE f
Chunk == Version \cup {"bad"}
Contents == UNION {[1 .. n -> Chunk] : n \in 0 .. Length + 1}

Init ==
    /\ kind \in Kinds
    /\ dest = Absent /\ marker = NoMarker
    /\ partial = Absent /\ rev = NoRevision
    /\ segment = Absent /\ extracting = Absent
    /\ lock = Free
    /\ curl = [p \in Proc |-> NoChild]
    /\ pc = [p \in Proc |-> "idle"]
    /\ want \in [Proc -> Version]
    /\ then = [p \in Proc |-> "check"]
    /\ faults = 0

Goto(p, from, to) == pc[p] = from /\ pc' = [pc EXCEPT ![p] = to]
Fault == faults < MaxFaults /\ faults' = faults + 1

(* A verification marker names the state it was written for: any change of *)
(* the destination changes its modification time.                          *)
Stale(m) == [v |-> m.v, fresh |-> FALSE]

(***************************************************************************)
(* The lock                                                                *)
(***************************************************************************)
Pull(p) ==
    /\ Goto(p, "idle", "lock")
    /\ UNCHANGED <<kind, files, lock, curl, want, then, faults>>

Acquire(p) ==
    /\ lock = Free
    /\ Goto(p, "lock", "cached")
    /\ lock' = p
    /\ UNCHANGED <<kind, files, curl, want, then, faults>>

\* Mutant of Release: only the normal return gives the lock back.
ReleaseOnReturnOnly(p) ==
    /\ pc[p] \in {"done", "throw"}
    /\ pc' = [pc EXCEPT ![p] = "idle"]
    /\ lock' = IF pc[p] = "done" THEN Free ELSE lock
    /\ UNCHANGED <<kind, files, curl, want, then, faults>>

(* ~ArtifactLock, on the way out of materialize or of its exception *)
Release(p) ==
    /\ pc[p] \in {"done", "throw"}
    /\ pc' = [pc EXCEPT ![p] = "idle"]
    /\ lock' = Free
    /\ UNCHANGED <<kind, files, curl, want, then, faults>>

(***************************************************************************)
(* The cache hit                                                           *)
(***************************************************************************)
\* Mutant of MarkerMatches: the modification time is not compared.
MarkerMatchesDigest(v) == marker.v = v

(* verification_marker_matches *)
MarkerMatches(v) == marker = [v |-> v, fresh |-> TRUE]

Cached(p) ==
    /\ pc[p] = "cached"
    /\ LET v == want[p] IN
       pc' = [pc EXCEPT ![p] =
           CASE kind = "file" /\ Len(Bytes(dest)) = Length /\ MarkerMatches(v) -> "done"
             [] kind = "file" /\ dest = Good(v) /\ ~MarkerMatches(v) -> "unmark"
             [] kind = "tar" /\ dest = Good(v) -> "done"
             [] OTHER -> "partial"]
    /\ UNCHANGED <<kind, files, lock, curl, want, then, faults>>

(* write_verification_marker: the old marker is removed, the temporary renamed *)
Unmark(p) ==
    /\ Goto(p, "unmark", "remark")
    /\ marker' = NoMarker
    /\ UNCHANGED <<kind, dest, partial, rev, segment, extracting, lock, curl, want, then, faults>>

Remark(p) ==
    /\ Goto(p, "remark", "done")
    /\ marker' = [v |-> want[p], fresh |-> TRUE]
    /\ UNCHANGED <<kind, dest, partial, rev, segment, extracting, lock, curl, want, then, faults>>

(* the marker cannot be written: the artifact is returned without one *)
MarkerFails(p) ==
    /\ Goto(p, "unmark", "done")
    /\ Fault
    /\ UNCHANGED <<kind, files, lock, curl, want, then>>

(***************************************************************************)
(* What an earlier attempt left behind                                     *)
(***************************************************************************)
(* discard_partial_download and the clean-up after a failed verification:  *)
(* the partial file goes first, its revision marker after it.              *)
Drop(p, next) ==
    /\ pc' = [pc EXCEPT ![p] = "remove"]
    /\ then' = [then EXCEPT ![p] = next]

RemovePartial(p) ==
    /\ Goto(p, "remove", "forget")
    /\ partial' = Absent
    /\ UNCHANGED <<kind, dest, marker, rev, segment, extracting, lock, curl, want, then, faults>>

RemoveRevision(p) ==
    /\ Goto(p, "forget", then[p])
    /\ rev' = NoRevision
    /\ then' = [then EXCEPT ![p] = "check"]
    /\ UNCHANGED <<kind, dest, marker, partial, segment, extracting, lock, curl, want, faults>>

\* Mutant of PartialRevisionMatches: any recorded revision will do.
PartialRevisionPresent(p) == rev # NoRevision

PartialRevisionMatches(p) == rev = want[p]

ExaminePartial(p) ==
    /\ pc[p] = "partial"
    /\ IF partial # Absent
       THEN /\ IF PartialRevisionMatches(p)
               THEN pc' = [pc EXCEPT ![p] = "check"] /\ UNCHANGED then
               ELSE Drop(p, "check")
            /\ UNCHANGED rev
       ELSE /\ pc' = [pc EXCEPT ![p] = "check"]
            /\ rev' = NoRevision
            /\ UNCHANGED then
    /\ UNCHANGED <<kind, dest, marker, partial, segment, extracting, lock, curl, want, faults>>

(* valid_file(partial), and what of an invalid one can be resumed *)
CheckPartial(p) ==
    /\ pc[p] = "check"
    /\ \/ /\ partial = Good(want[p])
          /\ pc' = [pc EXCEPT ![p] = "verify"]
          /\ UNCHANGED then
       \/ /\ partial # Good(want[p])
          /\ kind = "tar" \/ Len(Bytes(partial)) > Length
          /\ Drop(p, "record")
       \/ /\ partial # Good(want[p])
          /\ kind = "file" /\ Len(Bytes(partial)) <= Length
          /\ pc' = [pc EXCEPT ![p] = "record"]
          /\ UNCHANGED then
    /\ UNCHANGED <<kind, files, lock, curl, want, faults>>

(* write_partial_revision *)
Record(p) ==
    /\ Goto(p, "record", "stamp")
    /\ rev' = NoRevision
    /\ UNCHANGED <<kind, dest, marker, partial, segment, extracting, lock, curl, want, then, faults>>

RecordFails(p) ==
    /\ Goto(p, "record", "throw")
    /\ Fault
    /\ UNCHANGED <<kind, files, lock, curl, want, then>>

Stamp(p) ==
    /\ Goto(p, "stamp", "fetch")
    /\ rev' = want[p]
    /\ UNCHANGED <<kind, dest, marker, partial, segment, extracting, lock, curl, want, then, faults>>

(***************************************************************************)
(* download(): run_curl forks curl, which inherits the locked descriptor   *)
(***************************************************************************)
Fork(p, resume) == curl' = [curl EXCEPT ![p] = [v |-> want[p], resume |-> resume]]

FetchFile(p) ==
    /\ kind = "file"
    /\ Goto(p, "fetch", "wait")
    /\ Fork(p, partial # Absent)
    /\ UNCHANGED <<kind, files, lock, want, then, faults>>

OpenArchive(p) ==
    /\ kind = "tar"
    /\ Goto(p, "fetch", "segment")
    /\ partial' = <<>>
    /\ UNCHANGED <<kind, dest, marker, rev, segment, extracting, lock, curl, want, then, faults>>

FetchSegment(p) ==
    /\ Goto(p, "segment", "wait")
    /\ segment' = Absent
    /\ Fork(p, FALSE)
    /\ UNCHANGED <<kind, dest, marker, partial, rev, extracting, lock, want, then, faults>>

(* curl appends a chunk.  A fault is a byte the server, the wire or the    *)
(* disk got wrong, or a file that is longer than the pinned one.           *)
CurlWrite(p, c) ==
    /\ curl[p] # NoChild
    /\ LET ends == IF kind = "file" THEN Len(Bytes(partial)) >= Length ELSE segment # Absent IN
       IF c = curl[p].v /\ ~ends
       THEN UNCHANGED faults
       ELSE Fault /\ (ends => kind = "file" /\ Len(partial) = Length)
    /\ IF kind = "file"
       THEN partial' = Append(Bytes(partial), c) /\ UNCHANGED segment
       ELSE segment' = <<c>> /\ UNCHANGED partial
    /\ curl' = [curl EXCEPT ![p] = [v |-> curl[p].v, resume |-> FALSE]]
    /\ UNCHANGED <<kind, dest, marker, rev, extracting, lock, pc, want, then>>

(* Without its parent, curl is the last user of the locked descriptor. *)
Reap(p) ==
    /\ curl' = [curl EXCEPT ![p] = NoChild]
    /\ lock' = IF lock = Inherited THEN Free ELSE lock

(* Exit status 0.  Asked to resume a complete file curl gets status 416    *)
(* from the server, which it does not count as an error.                   *)
CurlSucceeds(p) ==
    /\ curl[p] # NoChild
    /\ IF kind = "file" THEN Len(Bytes(partial)) >= Length ELSE segment # Absent
    /\ Reap(p)
    /\ pc' = IF pc[p] # "wait" THEN pc
             ELSE [pc EXCEPT ![p] = IF kind = "file" THEN "verify" ELSE "assemble"]
    /\ UNCHANGED <<kind, files, want, then, faults>>

(* Exit status 33: the server cannot resume, the download starts over. *)
CurlRefused(p) ==
    /\ curl[p] # NoChild /\ curl[p].resume
    /\ Reap(p)
    /\ pc' = IF pc[p] # "wait" THEN pc ELSE [pc EXCEPT ![p] = "restart"]
    /\ UNCHANGED <<kind, files, want, then, faults>>

Restart(p) ==
    /\ Goto(p, "restart", "refetch")
    /\ partial' = Absent
    /\ UNCHANGED <<kind, dest, marker, rev, segment, extracting, lock, curl, want, then, faults>>

Refetch(p) ==
    /\ Goto(p, "refetch", "wait")
    /\ Fork(p, FALSE)
    /\ UNCHANGED <<kind, files, lock, want, then, faults>>

(* Any other exit status: what was written stays, except a segment. *)
CurlFails(p) ==
    /\ curl[p] # NoChild
    /\ Fault
    /\ Reap(p)
    /\ IF pc[p] = "wait"
       THEN /\ pc' = [pc EXCEPT ![p] = "throw"]
            /\ segment' = Absent
       ELSE UNCHANGED <<pc, segment>>
    /\ UNCHANGED <<kind, dest, marker, partial, rev, extracting, want, then>>

Assemble(p) ==
    /\ pc[p] = "assemble"
    /\ partial' = partial \o segment
    /\ segment' = Absent
    /\ pc' = [pc EXCEPT ![p] = IF Len(partial) + 1 < Length THEN "segment" ELSE "verify"]
    /\ UNCHANGED <<kind, dest, marker, rev, extracting, lock, curl, want, then, faults>>

(***************************************************************************)
(* Verification and installation                                           *)
(***************************************************************************)
\* Mutant of Verify: a partial file that fails the test is left for the next pull.
VerifyKeepsPartial(p) ==
    /\ pc[p] = "verify"
    /\ LET next == IF kind = "file" THEN "clear" ELSE "wipe" IN
       pc' = [pc EXCEPT ![p] = IF partial = Good(want[p]) THEN next ELSE "throw"]
    /\ UNCHANGED <<kind, files, lock, curl, want, then, faults>>

Verify(p) ==
    /\ pc[p] = "verify"
    /\ IF partial = Good(want[p])
       THEN /\ pc' = [pc EXCEPT ![p] = IF kind = "file" THEN "clear" ELSE "wipe"]
            /\ UNCHANGED then
       ELSE Drop(p, "throw")
    /\ UNCHANGED <<kind, files, lock, curl, want, faults>>

ClearDestination(p) ==
    /\ Goto(p, "clear", "rename")
    /\ dest' = Absent
    /\ UNCHANGED <<kind, marker, partial, rev, segment, extracting, lock, curl, want, then, faults>>

RenamePartial(p) ==
    /\ Goto(p, "rename", "forget")
    /\ then' = [then EXCEPT ![p] = "unmark"]
    /\ dest' = partial
    /\ partial' = Absent
    /\ marker' = Stale(marker)
    /\ UNCHANGED <<kind, rev, segment, extracting, lock, curl, want, faults>>

(* rename or an extraction fails: the exception leaves the partial file *)
InstallFails(p) ==
    /\ pc[p] \in {"rename", "extract"}
    /\ pc' = [pc EXCEPT ![p] = "throw"]
    /\ Fault
    /\ UNCHANGED <<kind, files, lock, curl, want, then>>

WipeExtracting(p) ==
    /\ Goto(p, "wipe", "extract")
    /\ extracting' = Absent
    /\ UNCHANGED <<kind, dest, marker, partial, rev, segment, lock, curl, want, then, faults>>

(* extract_tar_artifact: member by member, then every member is verified *)
ExtractMember(p) ==
    /\ pc[p] = "extract"
    /\ LET done == Bytes(extracting) IN
       IF Len(done) < Length
       THEN /\ extracting' = Append(done, partial[Len(done) + 1])
            /\ UNCHANGED pc
       ELSE /\ pc' = [pc EXCEPT ![p] = IF extracting = Good(want[p]) THEN "evict" ELSE "throw"]
            /\ UNCHANGED extracting
    /\ UNCHANGED <<kind, dest, marker, partial, rev, segment, lock, curl, want, then, faults>>

(* remove_all(destination): one member after the other *)
EvictMember(p) ==
    /\ pc[p] = "evict"
    /\ IF Bytes(dest) = <<>>
       THEN dest' = Absent /\ pc' = [pc EXCEPT ![p] = "swap"]
       ELSE dest' = SubSeq(dest, 1, Len(dest) - 1) /\ UNCHANGED pc
    /\ UNCHANGED <<kind, marker, partial, rev, segment, extracting, lock, curl, want, then, faults>>

RenameDirectory(p) ==
    /\ pc[p] = "swap"
    /\ dest' = extracting
    /\ extracting' = Absent
    /\ Drop(p, "done")
    /\ UNCHANGED <<kind, marker, partial, rev, segment, lock, curl, want, faults>>

(***************************************************************************)
(* The environment                                                         *)
(***************************************************************************)
\* Mutant of Crash: the lock descriptor is closed on exec.
CrashFreesLock(p, alone) ==
    /\ pc[p] # "idle"
    /\ Fault
    /\ pc' = [pc EXCEPT ![p] = "idle"]
    /\ curl' = IF alone THEN curl ELSE [curl EXCEPT ![p] = NoChild]
    /\ lock' = IF lock = p THEN Free ELSE lock
    /\ UNCHANGED <<kind, files, want, then>>

(* The process dies at any point of materialize, with its child or alone.  *)
(* The kernel drops a flock with the last descriptor that refers to it.    *)
Crash(p, alone) ==
    /\ pc[p] # "idle"
    /\ Fault
    /\ pc' = [pc EXCEPT ![p] = "idle"]
    /\ curl' = IF alone THEN curl ELSE [curl EXCEPT ![p] = NoChild]
    /\ lock' = IF lock # p THEN lock
               ELSE IF alone /\ curl[p] # NoChild THEN Inherited ELSE Free
    /\ alone \/ lock # Inherited
    /\ UNCHANGED <<kind, files, want, then>>

(* Something rewrites the installed artifact while nobody works on it. *)
Damage ==
    /\ lock = Free /\ Bytes(dest) # <<>>
    /\ Fault
    /\ dest' = [dest EXCEPT ![1] = "bad"]
    /\ marker' = Stale(marker)
    /\ UNCHANGED <<kind, partial, rev, segment, extracting, lock, curl, pc, want, then>>

(* What a process does once it has called materialize, the lock apart. *)
Step(p) ==
    \/ Cached(p) \/ Unmark(p) \/ Remark(p)
    \/ RemovePartial(p) \/ RemoveRevision(p) \/ ExaminePartial(p) \/ CheckPartial(p)
    \/ Record(p) \/ Stamp(p)
    \/ FetchFile(p) \/ OpenArchive(p) \/ FetchSegment(p)
    \/ Restart(p) \/ Refetch(p) \/ Assemble(p)
    \/ Verify(p) \/ ClearDestination(p) \/ RenamePartial(p)
    \/ WipeExtracting(p) \/ ExtractMember(p) \/ EvictMember(p) \/ RenameDirectory(p)
    \/ Release(p)

CurlStep(p) == CurlSucceeds(p) \/ \E c \in {curl[p].v, "bad"} : CurlWrite(p, c)

Next ==
    \/ \E p \in Proc :
        \/ Pull(p) \/ Acquire(p) \/ Step(p)
        \/ CurlStep(p) \/ CurlRefused(p) \/ CurlFails(p)
        \/ MarkerFails(p) \/ RecordFails(p) \/ InstallFails(p)
        \/ \E alone \in BOOLEAN : Crash(p, alone)
    \/ Damage

(* A process that runs goes on, a waiter is granted a lock that is freed   *)
(* again and again (the kernel queues flock calls), and curl downloads or  *)
(* gives up (--speed-limit, --retry).  Nobody need ever pull.              *)
Fairness == \A p \in Proc : WF_vars(Step(p)) /\ SF_vars(Acquire(p)) /\ WF_vars(CurlStep(p))

Spec == Init /\ [][Next]_vars /\ Fairness

(***************************************************************************)
(* Properties                                                              *)
(***************************************************************************)
TypeOK ==
    /\ kind \in Kinds
    /\ {dest, partial, extracting, segment} \subseteq Contents \cup {Absent}
    /\ kind = "tar" => Len(Bytes(partial)) <= Length
    /\ marker \in [v : Version, fresh : BOOLEAN] \cup {NoMarker}
    /\ rev \in Version \cup {NoRevision}
    /\ lock \in Proc \cup {Free, Inherited}
    /\ \A p \in Proc :
        /\ curl[p] \in [v : Version, resume : BOOLEAN] \cup {NoChild}
        /\ want[p] \in Version
    /\ faults \in 0 .. MaxFaults

(* materialize returns a path only when what is there has the pinned size  *)
(* and SHA-256, whatever crashed, was damaged or was installed by another  *)
(* release before: also when the marker spares it the hash.                *)
ReturnedIsVerified ==
    \A p \in Proc : pc[p] = "done" => dest = Good(want[p])

(* A partial file is resumed only by the revision it was begun for: the    *)
(* bytes of two revisions are never spliced, even when the marker and the  *)
(* file are rewritten in several steps with a crash between them.          *)
NeverSpliced ==
    rev # NoRevision => \A i \in 1 .. Len(Bytes(partial)) : Bytes(partial)[i] \in {rev, "bad"}

(* One process, or the curl it left behind, works in the cache at a time:  *)
(* a curl that outlives its parent keeps the lock and is not joined.       *)
Working(p) == pc[p] \notin {"idle", "lock"}
OneWriter ==
    \A p, q \in Proc :
        /\ curl[p] # NoChild /\ Working(q) => p = q
        /\ Working(p) /\ Working(q) => p = q

(* A pull that takes its place at the lock comes to an end. *)
PullEnds == \A p \in Proc : pc[p] = "lock" ~> pc[p] \in {"done", "throw", "idle"}

(* Whatever the crashes and failures left in the cache, once there are no  *)
(* more of them pulls stop failing: nothing that is left behind makes      *)
(* every later pull throw.                                                 *)
Recovers == <>[](\A p \in Proc : pc[p] # "throw")
=============================================================================
