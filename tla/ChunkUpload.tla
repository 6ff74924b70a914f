----------------------------- MODULE ChunkUpload -----------------------------
(***************************************************************************)
(* Chunked uploads: uploadChunk and dropChunk of internal/httpapi/server.go *)
(* with the reference-counted lock of lockUpload and the clean-up of parts *)
(* that nobody touched for a day.                                          *)
(*                                                                         *)
(* An upload is identified by its part file (user or link, destination,    *)
(* total size and upload id).  Its bytes are their positions: the client's *)
(* file is <<1, 2, ..., Total[k]>>.  Requests may be duplicated, reordered *)
(* or cut differently from one try to the next; a request body has arrived *)
(* in full before the handler looks at the part.                           *)
(***************************************************************************)
EXTENDS Naturals, Sequences, FiniteSets

CONSTANTS
  Procs,     \* request handlers in progress at once
  Uploads,   \* part files
  Locks,     \* uploadLock objects; an object nobody references is reused
  Total,     \* Total[k]: total_size of upload k
  MaxChunk,  \* bound: the longest chunk a client sends
  Nil,       \* "no handler", "no upload", "no lock"
  Missing,   \* no file of that name
  Faults     \* subset of {"io", "commit", "crash"}

ASSUME ChunkConstants ==
  /\ Nil \notin Procs \cup Uploads \cup Locks
  /\ Missing \notin Seq(Nat)
  /\ IsFiniteSet(Procs)
  /\ Total \in [Uploads -> Nat]
  /\ MaxChunk \in Nat
  /\ Faults \subseteq {"io", "commit", "crash"}

VARIABLES
  part,    \* part[k]: contents of the part file of upload k
  stale,   \* stale[k]: the part of k was last written more than a day ago
  dest,    \* dest[k]: what the last commit of upload k put at the destination
  uploads, \* Server.uploads: the lock of each upload in progress
  refs,    \* refs[l]: uploadLock.refs
  holder,  \* holder[l]: the handler that holds uploadLock.mu
  open,    \* handlers whose open file still has the part's name
  pc,      \* pc[p]: the next step of handler p
  job      \* job[p]: the request of handler p and its local variables

vars == <<part, stale, dest, uploads, refs, holder, open, pc, job>>

disk == <<part, stale, dest>>
locks == <<uploads, refs, holder>>

\* The chunk, the lock taken and the part seen to be stale.
Request(k, o, n) ==
  [key |-> k, offset |-> o, size |-> n, lock |-> Nil, seen |-> Nil]

NoRequest == Request(Nil, 0, 0)

Requests == [key : Uploads \cup {Nil}, offset : Nat, size : Nat,
             lock : Locks \cup {Nil}, seen : Uploads \cup {Nil}]

\* Steps of a handler that counts in refs, and of one that holds the lock.
Holding == {"open", "copy", "truncate", "commit", "unlock"}
Counted == Holding \cup {"wait", "unref"}

\* What the name of a part or of a destination can lead to.
Contents == Seq(Nat) \cup {Missing}

Steps == Counted \cup {"idle", "sweep", "remove", "lock"}

TypeOK ==
  /\ part \in [Uploads -> Contents]
  /\ stale \in [Uploads -> BOOLEAN]
  /\ dest \in [Uploads -> Contents]
  /\ uploads \in [Uploads -> Locks \cup {Nil}]
  /\ refs \in [Locks -> Nat]
  /\ holder \in [Locks -> Procs \cup {Nil}]
  /\ open \in SUBSET Procs
  /\ pc \in [Procs -> Steps]
  /\ job \in [Procs -> Requests]

-----------------------------------------------------------------------------
\* The first n bytes of the client's file.
Prefix(n) == [i \in 1..n |-> i]

\* The file s after bytes o+1 .. o+n of the client's file were written at o.
Written(s, o, n) ==
  [i \in 1..(IF o + n > Len(s) THEN o + n ELSE Len(s)) |->
     IF i > o /\ i <= o + n THEN i ELSE IF i <= Len(s) THEN s[i] ELSE 0]

\* The daemon starts with the parts that an earlier run left behind.
Init ==
  /\ part \in [Uploads -> {Missing} \cup
                  {Prefix(n) : n \in UNION {0..(Total[k] + 1) : k \in Uploads}}]
  /\ stale \in [Uploads -> BOOLEAN]
  /\ \A k \in Uploads : part[k] = Missing => ~stale[k]
  /\ dest = [k \in Uploads |-> Missing]
  /\ uploads = [k \in Uploads |-> Nil]
  /\ refs = [l \in Locks |-> 0]
  /\ holder = [l \in Locks |-> Nil]
  /\ open = {}
  /\ pc = [p \in Procs |-> "idle"]
  /\ job = [p \in Procs |-> NoRequest]

Goto(p, step) == pc' = [pc EXCEPT ![p] = step]

\* The part of k loses its name: a handler that has it open goes on with a file
\* that nobody else will find.
Unlinked(k) == {p \in open : job[p].key # k}

\* Handler p writes s to the file it has open.
WritePart(p, s) ==
  IF p \in open
    THEN /\ part' = [part EXCEPT ![job[p].key] = s]
         /\ stale' = [stale EXCEPT ![job[p].key] = FALSE]
    ELSE UNCHANGED <<part, stale>>

-----------------------------------------------------------------------------
\* The form of a request passes the checks on offset and total_size.
Receive(p) ==
  \E k \in Uploads : \E o \in 0..Total[k], n \in 0..MaxChunk :
    /\ pc[p] = "idle"
    /\ job' = [job EXCEPT ![p] = Request(k, o, n)]
    /\ Goto(p, "sweep")
    /\ UNCHANGED <<disk, locks, open>>

\* cleanupUploadParts: one entry is seen to be stale, and removed by name in a
\* later call, without any lock.
SweepSee(p) ==
  \E k \in Uploads :
    /\ pc[p] = "sweep"
    /\ part[k] # Missing /\ stale[k]
    /\ job' = [job EXCEPT ![p].seen = k]
    /\ Goto(p, "remove")
    /\ UNCHANGED <<disk, locks, open>>

SweepRemove(p) ==
  LET k == job[p].seen IN
  /\ pc[p] = "remove"
  /\ part' = [part EXCEPT ![k] = Missing]
  /\ stale' = [stale EXCEPT ![k] = FALSE]
  /\ open' = Unlinked(k)
  /\ job' = [job EXCEPT ![p].seen = Nil]
  /\ Goto(p, "sweep")
  /\ UNCHANGED <<dest, locks>>

SweepDone(p) ==
  /\ pc[p] = "sweep"
  /\ Goto(p, "lock")
  /\ UNCHANGED <<disk, locks, open, job>>

-----------------------------------------------------------------------------
\* An uploadLock no handler has a pointer to.
FreeLocks == {l \in Locks : refs[l] = 0 /\ \A k \in Uploads : uploads[k] # l}

\* Mutant of LockRef: a lock that is found is not counted.
LockRefUncounted(p) ==
  LET k == job[p].key IN
  /\ pc[p] = "lock"
  /\ \E l \in IF uploads[k] # Nil THEN {uploads[k]} ELSE FreeLocks :
       /\ uploads' = [uploads EXCEPT ![k] = l]
       /\ refs' = [refs EXCEPT ![l] = IF uploads[k] = Nil THEN 1 ELSE @]
       /\ job' = [job EXCEPT ![p].lock = l]
  /\ Goto(p, "wait")
  /\ UNCHANGED <<disk, holder, open>>

\* lockUpload under uploadMu: find or make the lock and count the reference.
LockRef(p) ==
  LET k == job[p].key IN
  /\ pc[p] = "lock"
  /\ \E l \in IF uploads[k] # Nil THEN {uploads[k]} ELSE FreeLocks :
       /\ uploads' = [uploads EXCEPT ![k] = l]
       /\ refs' = [refs EXCEPT ![l] = @ + 1]
       /\ job' = [job EXCEPT ![p].lock = l]
  /\ Goto(p, "wait")
  /\ UNCHANGED <<disk, holder, open>>

LockAcquire(p) ==
  /\ pc[p] = "wait"
  /\ holder[job[p].lock] = Nil
  /\ holder' = [holder EXCEPT ![job[p].lock] = p]
  /\ Goto(p, "open")
  /\ UNCHANGED <<disk, uploads, refs, open, job>>

\* The deferred releaseUpload: first uploadLock.mu, then the count.
Unlock(p) ==
  /\ pc[p] = "unlock"
  /\ holder' = [holder EXCEPT ![job[p].lock] = Nil]
  /\ Goto(p, "unref")
  /\ UNCHANGED <<disk, uploads, refs, open, job>>

\* Mutant of Unref: the entry is deleted though other handlers wait for it.
UnrefDeletes(p) ==
  /\ pc[p] = "unref"
  /\ refs' = [refs EXCEPT ![job[p].lock] = @ - 1]
  /\ uploads' = [uploads EXCEPT ![job[p].key] = Nil]
  /\ Goto(p, "idle")
  /\ job' = [job EXCEPT ![p] = NoRequest]
  /\ UNCHANGED <<disk, holder, open>>

\* Mutant of Unref: the entry stays in the map.
UnrefKeeps(p) ==
  /\ pc[p] = "unref"
  /\ refs' = [refs EXCEPT ![job[p].lock] = @ - 1]
  /\ Goto(p, "idle")
  /\ job' = [job EXCEPT ![p] = NoRequest]
  /\ UNCHANGED <<disk, uploads, holder, open>>

Unref(p) ==
  LET l == job[p].lock IN
  /\ pc[p] = "unref"
  /\ refs' = [refs EXCEPT ![l] = @ - 1]
  /\ uploads' = IF refs[l] = 1 THEN [uploads EXCEPT ![job[p].key] = Nil] ELSE uploads
  /\ Goto(p, "idle")
  /\ job' = [job EXCEPT ![p] = NoRequest]
  /\ UNCHANGED <<disk, holder, open>>

-----------------------------------------------------------------------------
\* What is at the part's name once a request with offset 0 has removed it and
\* OpenFile has created what is missing.
Opened(k, o) == IF o = 0 \/ part[k] = Missing THEN << >> ELSE part[k]

\* Mutant of OpenPart: the size of the part is not compared with the offset.
OpenPartAnySize(p) ==
  LET k == job[p].key  o == job[p].offset IN
  /\ pc[p] = "open"
  /\ part' = [part EXCEPT ![k] = Opened(k, o)]
  /\ stale' = [stale EXCEPT ![k] = @ /\ o # 0 /\ part[k] # Missing]
  /\ open' = open \cup {p}
  /\ Goto(p, "copy")
  /\ UNCHANGED <<dest, locks, job>>

\* Mutant of OpenPart: the 409 reply leaves the part locked.
OpenPartKeepsLock(p) ==
  LET k == job[p].key  o == job[p].offset IN
  /\ pc[p] = "open"
  /\ part' = [part EXCEPT ![k] = Opened(k, o)]
  /\ stale' = [stale EXCEPT ![k] = @ /\ o # 0 /\ part[k] # Missing]
  /\ IF Len(Opened(k, o)) = o
       THEN open' = open \cup {p} /\ Goto(p, "copy") /\ UNCHANGED job
       ELSE Goto(p, "idle") /\ job' = [job EXCEPT ![p] = NoRequest] /\ UNCHANGED open
  /\ UNCHANGED <<dest, locks>>

\* Remove at offset 0, OpenFile and Stat: 409 when the size is not the offset.
OpenPart(p) ==
  LET k == job[p].key  o == job[p].offset IN
  /\ pc[p] = "open"
  /\ part' = [part EXCEPT ![k] = Opened(k, o)]
  /\ stale' = [stale EXCEPT ![k] = @ /\ o # 0 /\ part[k] # Missing]
  /\ LET others == IF o = 0 THEN Unlinked(k) ELSE open IN
     IF Len(Opened(k, o)) = o
       THEN open' = others \cup {p} /\ Goto(p, "copy")
       ELSE open' = others /\ Goto(p, "unlock")
  /\ UNCHANGED <<dest, locks, job>>

\* OpenFile or Stat fails: 500.  The part may have been removed or created.
OpenFails(p) ==
  LET k == job[p].key IN
  /\ pc[p] = "open"
  /\ "io" \in Faults
  /\ \E s \in {part[k], Opened(k, job[p].offset)}
              \cup (IF job[p].offset = 0 THEN {Missing} ELSE {}) :
       /\ part' = [part EXCEPT ![k] = s]
       /\ stale' = [stale EXCEPT ![k] = @ /\ s = part[k] /\ s # Missing]
  /\ open' = IF job[p].offset = 0 THEN Unlinked(k) ELSE open
  /\ Goto(p, "unlock")
  /\ UNCHANGED <<dest, locks, job>>

\* Mutant of CopyChunk: bytes beyond total_size are accepted.
CopyChunkUnlimited(p) ==
  LET k == job[p].key  o == job[p].offset  n == job[p].size IN
  /\ pc[p] = "copy"
  /\ WritePart(p, Written(part[k], o, n))
  /\ open' = open \ {p}
  /\ Goto(p, IF o + n < Total[k] THEN "unlock" ELSE "commit")
  /\ UNCHANGED <<dest, locks, job>>

\* copyChunk writes at most one byte more than is missing, which tells it that
\* the chunk is too long.
CopyChunk(p) ==
  LET k == job[p].key  o == job[p].offset  n == job[p].size
      m == IF o + n > Total[k] THEN Total[k] + 1 - o ELSE n IN
  /\ pc[p] = "copy"
  /\ WritePart(p, Written(part[k], o, m))
  /\ \/ o + m > Total[k] /\ Goto(p, "truncate") /\ UNCHANGED open
     \/ o + m < Total[k] /\ Goto(p, "unlock") /\ open' = open \ {p}
     \/ o + m = Total[k] /\ Goto(p, "commit") /\ open' = open \ {p}
  /\ UNCHANGED <<dest, locks, job>>

\* io.Copy fails after some bytes (500), which stay in the part.
CopyFails(p) ==
  /\ pc[p] = "copy"
  /\ "io" \in Faults
  /\ \E m \in 0..job[p].size :
       /\ job[p].offset + m <= Total[job[p].key] + 1
       /\ WritePart(p, Written(part[job[p].key], job[p].offset, m))
  /\ open' = open \ {p}
  /\ Goto(p, "unlock")
  /\ UNCHANGED <<dest, locks, job>>

\* The chunk was too long (400): the part is cut back to the offset, if it can.
Truncate(p) ==
  /\ pc[p] = "truncate"
  /\ \/ WritePart(p, SubSeq(part[job[p].key], 1, job[p].offset))
     \/ "io" \in Faults /\ UNCHANGED <<part, stale>>
  /\ open' = open \ {p}
  /\ Goto(p, "unlock")
  /\ UNCHANGED <<dest, locks, job>>

\* ReplaceFile or InstallFile: what has the part's name becomes the destination.
\* InstallFile links and then removes the part's name; its two steps are those of
\* module Storage and one step here.
Commit(p) ==
  LET k == job[p].key IN
  /\ pc[p] = "commit"
  /\ part[k] # Missing
  /\ dest' = [dest EXCEPT ![k] = part[k]]
  /\ part' = [part EXCEPT ![k] = Missing]
  /\ stale' = [stale EXCEPT ![k] = FALSE]
  /\ Goto(p, "unlock")
  /\ UNCHANGED <<locks, open, job>>

\* The part has lost its name, the destination may not be replaced, or closing,
\* retaining or renaming fails: the part stays as it is.
CommitFails(p) ==
  LET k == job[p].key IN
  /\ pc[p] = "commit"
  /\ part[k] = Missing \/ "commit" \in Faults
  /\ Goto(p, "unlock")
  /\ UNCHANGED <<disk, locks, open, job>>

-----------------------------------------------------------------------------
\* A day passes in which nobody writes to the part of k.
Age(k) ==
  /\ part[k] # Missing /\ ~stale[k]
  /\ stale' = [stale EXCEPT ![k] = TRUE]
  /\ UNCHANGED <<part, dest, locks, open, pc, job>>

\* The daemon dies and is started again.
Crash ==
  /\ "crash" \in Faults
  /\ \E p \in Procs : pc[p] # "idle"
  /\ uploads' = [k \in Uploads |-> Nil]
  /\ refs' = [l \in Locks |-> 0]
  /\ holder' = [l \in Locks |-> Nil]
  /\ open' = {}
  /\ pc' = [p \in Procs |-> "idle"]
  /\ job' = [p \in Procs |-> NoRequest]
  /\ UNCHANGED disk

HandlerStep(p) ==
  \/ SweepSee(p) \/ SweepRemove(p) \/ SweepDone(p)
  \/ LockRef(p) \/ LockAcquire(p) \/ Unlock(p) \/ Unref(p)
  \/ OpenPart(p) \/ OpenFails(p) \/ CopyChunk(p) \/ CopyFails(p) \/ Truncate(p)
  \/ Commit(p) \/ CommitFails(p)

Next ==
  \/ \E p \in Procs : Receive(p) \/ HandlerStep(p)
  \/ \E k \in Uploads : Age(k)
  \/ Crash

Spec == Init /\ [][Next]_vars

\* The scheduler runs every runnable handler and sync.Mutex does not starve a
\* waiter.  The sweep reads the directory once, so it ends.
FairSpec ==
  /\ Spec
  /\ \A p \in Procs : SF_vars(HandlerStep(p)) /\ SF_vars(SweepDone(p))

-----------------------------------------------------------------------------
\* A file that reaches its destination is the client's whole file: no byte is
\* missing, doubled, out of place or beyond total_size, however the requests
\* were cut, repeated, reordered or interrupted, and whatever the clean-up
\* removes meanwhile.
Assembled == \A k \in Uploads : dest[k] # Missing => dest[k] = Prefix(Total[k])

\* What is left of an upload can be resumed: a part never holds anything but
\* the first bytes of the client's file, not even after a failed write, a
\* failed truncation or a crash.
PartIsPrefix ==
  \A k \in Uploads : part[k] # Missing => part[k] = Prefix(Len(part[k]))

\* At most one handler works on a part at a time: the lock object a waiter
\* has counted is the one everyone else finds in Server.uploads.
UploadExclusive ==
  \A p, q \in Procs :
    pc[p] \in Holding /\ pc[q] \in Holding /\ job[p].key = job[q].key => p = q

\* Server.uploads has an entry for exactly the uploads some handler is working
\* on or waiting for: entries do not pile up, and none is deleted early.
LocksReclaimed ==
  \A k \in Uploads :
    uploads[k] # Nil <=> \E p \in Procs : pc[p] \in Counted /\ job[p].key = k

\* Every chunk request is answered, whatever fails on its way.
ChunksAnswered == \A p \in Procs : pc[p] # "idle" ~> pc[p] = "idle"
=============================================================================
