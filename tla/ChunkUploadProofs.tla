-------------------------- MODULE ChunkUploadProofs --------------------------
(***************************************************************************)
(* lockUpload is a mutual exclusion per part file, and what a chunked      *)
(* upload commits is the client's whole file, for any number of handlers,  *)
(* uploads, locks and file sizes.                                          *)
(***************************************************************************)
EXTENDS ChunkUpload, FiniteSetTheorems, TLAPS

\* The handlers that have a pointer to the lock l.
Refers(l) == {p \in Procs : pc[p] \in Counted /\ job[p].lock = l}

\* A handler works for some upload; once it has counted a lock, that lock is
\* the one in Server.uploads.
Assigned ==
  \A p \in Procs :
    /\ pc[p] # "idle" => job[p].key \in Uploads
    /\ pc[p] = "remove" => job[p].seen \in Uploads
    /\ pc[p] \in Counted => job[p].lock \in Locks /\ uploads[job[p].key] = job[p].lock

OneLockEach ==
  \A k, j \in Uploads : uploads[k] # Nil /\ uploads[k] = uploads[j] => k = j

RefsExact == \A l \in Locks : refs[l] = Cardinality(Refers(l))

HolderHolds == \A p \in Procs : pc[p] \in Holding => holder[job[p].lock] = p

\* A file that is open and has its name belongs to a handler that is about to
\* write to it.
OpenParts ==
  \A p \in open : pc[p] \in {"copy", "truncate"} /\ part[job[p].key] # Missing

InRange == \A p \in Procs : pc[p] # "idle" => job[p].offset <= Total[job[p].key]

\* What the handler that holds the lock knows of the part, unless the clean-up
\* has removed it: its length, and that it is the file the handler has open.
Progress ==
  \A p \in Procs : part[job[p].key] # Missing =>
    /\ pc[p] = "copy" => p \in open /\ part[job[p].key] = Prefix(job[p].offset)
    /\ pc[p] = "truncate" => p \in open /\ part[job[p].key] = Prefix(Total[job[p].key] + 1)
    /\ pc[p] = "commit" => part[job[p].key] = Prefix(Total[job[p].key])

LockInv ==
  TypeOK /\ Assigned /\ OneLockEach /\ RefsExact /\ HolderHolds /\ LocksReclaimed

-----------------------------------------------------------------------------
\* A prefix of the file is a sequence of its length.
LEMMA PrefixSeq ==
  ASSUME NEW n \in Nat
  PROVE  Prefix(n) \in Seq(Nat) /\ Len(Prefix(n)) = n /\ Prefix(n) # Missing
BY ChunkConstants DEF Prefix

\* A write yields a sequence again.
LEMMA WrittenSeq ==
  ASSUME NEW s \in Seq(Nat), NEW o \in Nat, NEW n \in Nat
  PROVE  Written(s, o, n) \in Seq(Nat)
<1> DEFINE m == IF o + n > Len(s) THEN o + n ELSE Len(s)
<1>1. m \in Nat
  OBVIOUS
<1>2. \A i \in 1..m : (IF i > o /\ i <= o + n THEN i ELSE IF i <= Len(s) THEN s[i] ELSE 0) \in Nat
  OBVIOUS
<1> QED
  BY <1>1, <1>2 DEF Written

\* Writing the next bytes at the end of a prefix gives the longer prefix.
LEMMA WrittenPrefix ==
  ASSUME NEW o \in Nat, NEW n \in Nat
  PROVE  Written(Prefix(o), o, n) = Prefix(o + n)
<1>1. Len(Prefix(o)) = o
  BY PrefixSeq
<1>2. \A i \in 1..o : Prefix(o)[i] = i
  BY DEF Prefix
<1>3. (IF o + n > o THEN o + n ELSE o) = o + n
  OBVIOUS
<1> QED
  BY <1>1, <1>2, <1>3 DEF Written, Prefix

\* Truncating a prefix yields a prefix.
LEMMA CutPrefix ==
  ASSUME NEW n \in Nat, NEW o \in Nat, o <= n
  PROVE  SubSeq(Prefix(n), 1, o) = Prefix(o)
BY DEF Prefix

\* Finitely many handlers refer to a lock.
LEMMA RefersFinite ==
  \A l : IsFiniteSet(Refers(l)) /\ Cardinality(Refers(l)) \in Nat
<1> SUFFICES ASSUME NEW l PROVE IsFiniteSet(Refers(l)) /\ Cardinality(Refers(l)) \in Nat
  OBVIOUS
<1>1. Refers(l) \subseteq Procs
  BY DEF Refers
<1> QED
  BY <1>1, ChunkConstants, FS_Subset, FS_CardinalityType

\* A lock somebody refers to has a positive count.
LEMMA RefersNonempty ==
  ASSUME NEW l, NEW p \in Refers(l)
  PROVE  /\ Cardinality(Refers(l) \ {p}) = Cardinality(Refers(l)) - 1
         /\ Cardinality(Refers(l)) # 0
         /\ Cardinality(Refers(l)) = 1 <=> Refers(l) = {p}
<1>1. /\ IsFiniteSet(Refers(l) \ {p})
      /\ Cardinality(Refers(l) \ {p}) = Cardinality(Refers(l)) - 1
  BY RefersFinite, FS_RemoveElement
<1>2. Cardinality(Refers(l) \ {p}) \in Nat
  BY <1>1, FS_CardinalityType
<1>3. Cardinality(Refers(l) \ {p}) = 0 <=> Refers(l) \ {p} = {}
  BY <1>1, FS_EmptySet
<1> QED
  BY <1>1, <1>2, <1>3, RefersFinite

-----------------------------------------------------------------------------
\* Initially nobody holds or counts a lock.
LEMMA LockInit == Init => LockInv
<1> SUFFICES ASSUME Init PROVE LockInv
  OBVIOUS
<1> USE ChunkConstants DEF Init
<1>1. part \in [Uploads -> Contents]
  <2>1. \A n \in UNION {0..(Total[k] + 1) : k \in Uploads} : n \in Nat
    OBVIOUS
  <2> QED
    BY <2>1, PrefixSeq DEF Contents
<1>2. NoRequest \in Requests
  BY DEF NoRequest, Request, Requests
<1>3. TypeOK
  BY <1>1, <1>2 DEF TypeOK, Contents, Steps
<1>4. Assigned /\ OneLockEach /\ HolderHolds /\ LocksReclaimed
  BY DEF Assigned, OneLockEach, HolderHolds, LocksReclaimed, Counted, Holding
<1>5. RefsExact
  <2> SUFFICES ASSUME NEW l \in Locks PROVE refs[l] = Cardinality(Refers(l))
    BY DEF RefsExact
  <2>1. Refers(l) = {}
    BY DEF Refers, Counted, Holding
  <2> QED
    BY <2>1, FS_EmptySet
<1> QED
  BY <1>3, <1>4, <1>5 DEF LockInv

\* A step of p that leaves the locks alone, stays on the same side of
\* lockUpload and of its release, and keeps the request.
LEMMA LockFrame ==
  ASSUME LockInv, TypeOK', UNCHANGED locks,
         \A p \in Procs : /\ pc'[p] \in Counted <=> pc[p] \in Counted
                          /\ pc'[p] \in Holding => pc[p] \in Holding
                          /\ pc[p] \in Counted =>
                               job'[p].key = job[p].key /\ job'[p].lock = job[p].lock
                          /\ pc'[p] # "idle" => job'[p].key \in Uploads
                          /\ pc'[p] = "remove" => job'[p].seen \in Uploads
  PROVE  LockInv'
<1> USE DEF LockInv, locks
<1>1. Assigned'
  BY DEF Assigned
<1>2. OneLockEach'
  BY DEF OneLockEach
<1>3. RefsExact'
  <2>1. \A l \in Locks : Refers(l)' = Refers(l)
    BY DEF Refers
  <2> QED
    BY <2>1 DEF RefsExact
<1>4. HolderHolds'
  BY DEF HolderHolds, Counted
<1>5. LocksReclaimed'
  BY DEF LocksReclaimed
<1> QED
  BY <1>1, <1>2, <1>3, <1>4, <1>5
\* A step of p keeps the types if the values it assigns have them.
LEMMA TypeFrame ==
  ASSUME TypeOK, NEW p \in Procs, NEW s \in Steps, Goto(p, s),
         part' \in [Uploads -> Contents], stale' \in [Uploads -> BOOLEAN],
         dest' \in [Uploads -> Contents],
         uploads' \in [Uploads -> Locks \cup {Nil}], refs' \in [Locks -> Nat],
         holder' \in [Locks -> Procs \cup {Nil}],
         open' \in SUBSET Procs, job' \in [Procs -> Requests]
  PROVE  TypeOK'
<1>1. pc' \in [Procs -> Steps]
  BY DEF TypeOK, Goto
<1> QED
  BY <1>1 DEF TypeOK

\* Every step keeps the types.
LEMMA ChunkTypes ==
  ASSUME TypeOK, Assigned, RefsExact, InRange, OpenParts, Progress, [Next]_vars
  PROVE  TypeOK'
<1>a. NoRequest \in Requests
  BY DEF NoRequest, Request, Requests
<1>b. \A k \in Uploads, o \in Nat : Opened(k, o) \in Contents
  BY DEF Opened, Contents, TypeOK
<1>c. ASSUME NEW k \in Uploads, NEW s \in Contents, NEW b \in BOOLEAN
      PROVE  /\ [part EXCEPT ![k] = s] \in [Uploads -> Contents]
             /\ [dest EXCEPT ![k] = s] \in [Uploads -> Contents]
             /\ [stale EXCEPT ![k] = b] \in [Uploads -> BOOLEAN]
  BY DEF TypeOK
<1>d. \A p \in Procs : job[p].offset \in Nat /\ job[p].size \in Nat
  BY DEF TypeOK, Requests
<1>e. \A p \in Procs : pc[p] # "idle" => job[p].key \in Uploads
  BY DEF Assigned
<1>f. Missing \in Contents
  BY DEF Contents
<1>g. \A k : Unlinked(k) \in SUBSET Procs
  BY DEF TypeOK, Unlinked
<1>s. /\ Counted \subseteq Steps /\ Holding \subseteq Steps
      /\ {"idle", "sweep", "remove", "lock", "wait", "unref"} \subseteq Steps
      /\ {"open", "copy", "truncate", "commit", "unlock"} \subseteq Steps
  BY DEF Steps, Counted, Holding
<1>1. ASSUME NEW p \in Procs, Receive(p) PROVE TypeOK'
  <2>1. PICK k \in Uploads : \E o \in 0..Total[k], n \in 0..MaxChunk :
          job' = [job EXCEPT ![p] = Request(k, o, n)]
    BY <1>1 DEF Receive
  <2>2. \A o, n \in Nat : Request(k, o, n) \in Requests
    BY DEF Request, Requests
  <2>3. job' \in [Procs -> Requests]
    BY <2>1, <2>2, ChunkConstants DEF TypeOK
  <2> QED
    BY <1>1, <1>s, <2>3, TypeFrame DEF Receive, TypeOK, disk, locks
<1>2. ASSUME NEW p \in Procs, SweepSee(p) PROVE TypeOK'
  <2>1. job' \in [Procs -> Requests]
    BY <1>2 DEF SweepSee, TypeOK, Requests
  <2> QED
    BY <1>2, <1>s, <2>1, TypeFrame DEF SweepSee, TypeOK, disk, locks
<1>3. ASSUME NEW p \in Procs, SweepRemove(p) PROVE TypeOK'
  <2>1. job' \in [Procs -> Requests]
    <3>1. \A r \in Requests : [r EXCEPT !.seen = Nil] \in Requests
      BY DEF Requests
    <3> QED
      BY <1>3, <3>1 DEF SweepRemove, TypeOK
  <2>2. part' \in [Uploads -> Contents] /\ stale' \in [Uploads -> BOOLEAN]
    BY <1>3, <1>c, <1>f DEF SweepRemove, Assigned
  <2> QED
    BY <1>3, <1>g, <1>s, <2>1, <2>2, TypeFrame DEF SweepRemove, TypeOK, locks
<1>4. ASSUME NEW p \in Procs, SweepDone(p) PROVE TypeOK'
  BY <1>4, <1>s, TypeFrame DEF SweepDone, TypeOK, disk, locks
<1>5. ASSUME NEW p \in Procs, LockRef(p) PROVE TypeOK'
  <2>1. PICK l \in IF uploads[job[p].key] # Nil THEN {uploads[job[p].key]} ELSE FreeLocks :
          /\ uploads' = [uploads EXCEPT ![job[p].key] = l]
          /\ refs' = [refs EXCEPT ![l] = @ + 1]
          /\ job' = [job EXCEPT ![p].lock = l]
    BY <1>5 DEF LockRef
  <2>2. l \in Locks
    BY <1>5, <1>e, <2>1 DEF LockRef, FreeLocks, TypeOK
  <2>3. job' \in [Procs -> Requests]
    BY <2>1, <2>2 DEF Requests, TypeOK
  <2>4. uploads' \in [Uploads -> Locks \cup {Nil}]
    BY <2>1, <2>2 DEF TypeOK
  <2>5. refs[l] + 1 \in Nat
    BY <2>2 DEF TypeOK
  <2>6. refs' \in [Locks -> Nat]
    BY <2>1, <2>5 DEF TypeOK
  <2> QED
    BY <1>5, <1>s, <2>3, <2>4, <2>6, TypeFrame DEF LockRef, TypeOK, disk
<1>6. ASSUME NEW p \in Procs, LockAcquire(p) \/ Unlock(p) PROVE TypeOK'
  <2>1. holder' \in [Locks -> Procs \cup {Nil}]
    BY <1>6 DEF LockAcquire, Unlock, TypeOK
  <2> QED
    BY <1>6, <1>s, <2>1, TypeFrame DEF LockAcquire, Unlock, TypeOK, disk
<1>7. ASSUME NEW p \in Procs, Unref(p) PROVE TypeOK'
  <2>1. p \in Refers(job[p].lock) /\ job[p].lock \in Locks
    BY <1>7 DEF Unref, Refers, Assigned, Counted
  <2>2. refs[job[p].lock] # 0
    BY <2>1, RefersNonempty DEF RefsExact
  <2>3. refs[job[p].lock] - 1 \in Nat
    BY <2>1, <2>2 DEF TypeOK
  <2>5. refs' \in [Locks -> Nat]
    BY <1>7, <2>3 DEF Unref, TypeOK
  <2>6. uploads' \in [Uploads -> Locks \cup {Nil}]
    BY <1>7 DEF Unref, TypeOK
  <2>4. job' \in [Procs -> Requests]
    BY <1>7, <1>a DEF Unref, TypeOK
  <2> QED
    BY <1>7, <1>s, <2>4, <2>5, <2>6, TypeFrame DEF Unref, TypeOK, disk
<1>8. ASSUME NEW p \in Procs, OpenPart(p) PROVE TypeOK'
  <2>1. part' \in [Uploads -> Contents] /\ stale' \in [Uploads -> BOOLEAN]
    BY <1>8, <1>b, <1>c, <1>d, <1>e DEF OpenPart
  <2>2. open' \in SUBSET Procs
    BY <1>8, <1>g DEF OpenPart, TypeOK
  <2>3. PICK s \in Steps : Goto(p, s)
    BY <1>8, <1>s DEF OpenPart
  <2> QED
    BY <1>8, <2>1, <2>2, <2>3, TypeFrame DEF OpenPart, TypeOK, locks
<1>9. ASSUME NEW p \in Procs, OpenFails(p) PROVE TypeOK'
  <2>1. PICK s \in {part[job[p].key], Opened(job[p].key, job[p].offset)} \cup {Missing} :
          /\ part' = [part EXCEPT ![job[p].key] = s]
          /\ stale' = [stale EXCEPT ![job[p].key] = @ /\ s = part[job[p].key] /\ s # Missing]
    BY <1>9 DEF OpenFails
  <2>2. s \in Contents /\ job[p].key \in Uploads
    BY <1>9, <1>b, <1>d, <1>e, <1>f, <2>1 DEF OpenFails, TypeOK
  <2>3. part' \in [Uploads -> Contents] /\ stale' \in [Uploads -> BOOLEAN]
    BY <2>1, <2>2, <1>c
  <2>4. open' \in SUBSET Procs
    BY <1>9, <1>g DEF OpenFails, TypeOK
  <2> QED
    BY <1>9, <1>s, <2>3, <2>4, TypeFrame DEF OpenFails, TypeOK, locks
<1>10. ASSUME NEW p \in Procs, CopyChunk(p) \/ CopyFails(p) \/ Truncate(p) PROVE TypeOK'
  <2>1. job[p].key \in Uploads /\ Total[job[p].key] \in Nat /\ job[p].offset <= Total[job[p].key]
    BY <1>10, <1>e, ChunkConstants DEF CopyChunk, CopyFails, Truncate, InRange
  <2>2. /\ part' \in [Uploads -> Contents]
        /\ stale' \in [Uploads -> BOOLEAN]
    <3>1. CASE p \notin open
      BY <1>10, <3>1 DEF CopyChunk, CopyFails, Truncate, WritePart, TypeOK
    <3>2. CASE p \in open
      <4>1. part[job[p].key] \in Seq(Nat)
        BY <2>1, <3>2 DEF OpenParts, TypeOK, Contents
      <4>2. \A m \in Nat : Written(part[job[p].key], job[p].offset, m) \in Contents
        BY <4>1, <1>d, WrittenSeq DEF Contents
      <4>3. CASE CopyChunk(p)
        <5> DEFINE m == IF job[p].offset + job[p].size > Total[job[p].key]
                          THEN Total[job[p].key] + 1 - job[p].offset ELSE job[p].size
        <5>1. m \in Nat
          BY <1>d, <2>1
        <5>2. WritePart(p, Written(part[job[p].key], job[p].offset, m))
          BY <4>3 DEF CopyChunk
        <5> HIDE DEF m
        <5> DEFINE s == Written(part[job[p].key], job[p].offset, m)
        <5>3. s \in Contents
          BY <4>2, <5>1
        <5>4. part' = [part EXCEPT ![job[p].key] = s] /\ stale' = [stale EXCEPT ![job[p].key] = FALSE]
          BY <3>2, <5>2 DEF WritePart
        <5> HIDE DEF s
        <5> QED
          BY <1>c, <2>1, <5>3, <5>4
      <4>4. CASE CopyFails(p)
        <5>1. PICK m \in 0..job[p].size : WritePart(p, Written(part[job[p].key], job[p].offset, m))
          BY <4>4 DEF CopyFails
        <5>2. m \in Nat
          BY <1>d
        <5> DEFINE s == Written(part[job[p].key], job[p].offset, m)
        <5>3. s \in Contents
          BY <4>2, <5>2
        <5>4. part' = [part EXCEPT ![job[p].key] = s] /\ stale' = [stale EXCEPT ![job[p].key] = FALSE]
          BY <3>2, <5>1 DEF WritePart
        <5> HIDE DEF s
        <5> QED
          BY <1>c, <2>1, <5>3, <5>4
      <4>5. CASE Truncate(p)
        <5>1. part[job[p].key] = Prefix(Total[job[p].key] + 1)
          BY <3>2, <4>5 DEF Truncate, Progress, OpenParts
        <5>2. SubSeq(part[job[p].key], 1, job[p].offset) = Prefix(job[p].offset)
          <6>1. Total[job[p].key] + 1 \in Nat /\ job[p].offset <= Total[job[p].key] + 1
            BY <1>d, <2>1
          <6> QED
            BY <1>d, <5>1, <6>1, CutPrefix
        <5>3. Prefix(job[p].offset) \in Contents
          BY <1>d, PrefixSeq DEF Contents
        <5>4. \/ UNCHANGED <<part, stale>>
              \/ /\ part' = [part EXCEPT ![job[p].key] = Prefix(job[p].offset)]
                 /\ stale' = [stale EXCEPT ![job[p].key] = FALSE]
          BY <3>2, <4>5, <5>2 DEF Truncate, WritePart
        <5> QED
          <6>1. CASE UNCHANGED <<part, stale>>
            BY <6>1 DEF TypeOK
          <6>2. CASE /\ part' = [part EXCEPT ![job[p].key] = Prefix(job[p].offset)]
                     /\ stale' = [stale EXCEPT ![job[p].key] = FALSE]
            BY <1>c, <2>1, <5>3, <6>2
          <6> QED
            BY <5>4, <6>1, <6>2
      <4> QED
        BY <1>10, <4>3, <4>4, <4>5
    <3> QED
      BY <3>1, <3>2
  <2>3. PICK s \in Steps : Goto(p, s)
    BY <1>10, <1>s DEF CopyChunk, CopyFails, Truncate
  <2>4. open' \in SUBSET Procs /\ UNCHANGED <<dest, locks, job>>
    BY <1>10 DEF CopyChunk, CopyFails, Truncate, TypeOK
  <2> QED
    BY <2>2, <2>3, <2>4, TypeFrame DEF TypeOK, locks
<1>11. ASSUME NEW p \in Procs, Commit(p) \/ CommitFails(p) PROVE TypeOK'
  <2>1. job[p].key \in Uploads
    BY <1>11, <1>e DEF Commit, CommitFails
  <2>2. /\ part' \in [Uploads -> Contents] /\ stale' \in [Uploads -> BOOLEAN]
        /\ dest' \in [Uploads -> Contents]
    <3>1. CASE Commit(p)
      <4>1. part[job[p].key] \in Contents
        BY <2>1 DEF TypeOK
      <4> QED
        BY <3>1, <4>1, <1>c, <1>f, <2>1 DEF Commit
    <3>2. CASE CommitFails(p)
      BY <3>2 DEF CommitFails, TypeOK, disk
    <3> QED
      BY <1>11, <3>1, <3>2
  <2>3. Goto(p, "unlock") /\ UNCHANGED <<locks, open, job>>
    BY <1>11 DEF Commit, CommitFails
  <2> QED
    BY <1>s, <2>2, <2>3, TypeFrame DEF TypeOK, locks
<1>12. CASE \E k \in Uploads : Age(k)
  BY <1>12 DEF Age, TypeOK, locks
<1>13. CASE Crash
  BY <1>13, <1>a, <1>s DEF Crash, TypeOK, disk
<1>14. CASE UNCHANGED vars
  BY <1>14 DEF vars, TypeOK
<1> QED
  BY <1>1, <1>2, <1>3, <1>4, <1>5, <1>6, <1>7, <1>8, <1>9, <1>10, <1>11, <1>12, <1>13,
     <1>14 DEF Next, HandlerStep
-----------------------------------------------------------------------------
\* Every step keeps the lock invariant, types apart.
LEMMA LockStep ==
  ASSUME LockInv, TypeOK', [Next]_vars
  PROVE  LockInv'
<1> USE DEF LockInv
<1>s. /\ Holding = {"open", "copy", "truncate", "commit", "unlock"}
      /\ Counted = {"open", "copy", "truncate", "commit", "unlock", "wait", "unref"}
  BY DEF Counted, Holding
<1>1. ASSUME NEW p \in Procs, Receive(p) PROVE LockInv'
  <2>1. PICK k \in Uploads : \E o \in 0..Total[k], n \in 0..MaxChunk :
          job' = [job EXCEPT ![p] = Request(k, o, n)]
    BY <1>1 DEF Receive
  <2>2. job'[p].key = k /\ \A q \in Procs : q # p => job'[q] = job[q]
    BY <2>1 DEF Request, TypeOK
  <2>3. pc'[p] = "sweep" /\ \A q \in Procs : q # p => pc'[q] = pc[q]
    BY <1>1 DEF Receive, Goto, TypeOK
  <2> QED
    BY <1>1, <1>s, <2>2, <2>3, LockFrame DEF Receive, Assigned
<1>2. ASSUME NEW p \in Procs, SweepSee(p) \/ SweepRemove(p) \/ SweepDone(p) PROVE LockInv'
  <2>1. /\ pc[p] \in {"sweep", "remove"}
        /\ pc'[p] \in {"sweep", "remove", "lock"}
        /\ pc'[p] = "remove" => job'[p].seen \in Uploads
        /\ \A q \in Procs : q # p => pc'[q] = pc[q] /\ job'[q] = job[q]
        /\ \A q \in Procs : job'[q].key = job[q].key
    BY <1>2 DEF SweepSee, SweepRemove, SweepDone, Goto, TypeOK, Requests
  <2>2. UNCHANGED locks
    BY <1>2 DEF SweepSee, SweepRemove, SweepDone
  <2> QED
    BY <1>s, <2>1, <2>2, LockFrame DEF Assigned
<1>3. ASSUME NEW p \in Procs,
             \/ OpenPart(p) \/ OpenFails(p) \/ CopyChunk(p) \/ CopyFails(p)
             \/ Truncate(p) \/ Commit(p) \/ CommitFails(p)
      PROVE  LockInv'
  <2>1. /\ pc[p] \in {"open", "copy", "truncate", "commit"}
        /\ pc'[p] \in {"copy", "truncate", "commit", "unlock"}
        /\ \A q \in Procs : q # p => pc'[q] = pc[q]
    BY <1>3 DEF OpenPart, OpenFails, CopyChunk, CopyFails, Truncate, Commit, CommitFails,
                Goto, TypeOK
  <2>2. UNCHANGED locks /\ UNCHANGED job
    BY <1>3 DEF OpenPart, OpenFails, CopyChunk, CopyFails, Truncate, Commit, CommitFails
  <2> QED
    BY <1>s, <2>1, <2>2, LockFrame DEF Assigned
<1>4. ASSUME NEW p \in Procs, LockRef(p) PROVE LockInv'
  <2> DEFINE k == job[p].key
  <2>1. k \in Uploads /\ pc[p] = "lock"
    BY <1>4 DEF LockRef, Assigned
  <2>2. PICK l \in IF uploads[k] # Nil THEN {uploads[k]} ELSE FreeLocks :
          /\ uploads' = [uploads EXCEPT ![k] = l]
          /\ refs' = [refs EXCEPT ![l] = @ + 1]
          /\ job' = [job EXCEPT ![p].lock = l]
    BY <1>4 DEF LockRef
  <2>3. l \in Locks /\ l # Nil
    BY <2>1, <2>2, ChunkConstants DEF FreeLocks, TypeOK
  <2>4. \A j \in Uploads : uploads[j] = l => j = k
    BY <2>1, <2>2, <2>3 DEF FreeLocks, OneLockEach
  <2>5. /\ job'[p].lock = l /\ job'[p].key = k /\ job'[p].seen = job[p].seen
        /\ \A q \in Procs : q # p => job'[q] = job[q] /\ pc'[q] = pc[q]
        /\ pc'[p] = "wait"
    BY <1>4, <2>2 DEF LockRef, Goto, TypeOK, Requests
  <2>6. /\ uploads'[k] = l
        /\ \A j \in Uploads : j # k => uploads'[j] = uploads[j]
        /\ uploads[k] # Nil => uploads[k] = l
    BY <2>1, <2>2 DEF TypeOK
  <2> HIDE DEF k
  <2>7. Assigned'
    BY <1>s, <2>1, <2>3, <2>5, <2>6, ChunkConstants DEF Assigned
  <2>8. OneLockEach'
    BY <2>1, <2>3, <2>4, <2>6 DEF OneLockEach
  <2>9. RefsExact'
    <3> SUFFICES ASSUME NEW m \in Locks PROVE refs'[m] = Cardinality(Refers(m)')
      BY DEF RefsExact
    <3>1. CASE m = l
      <4>1. p \notin Refers(m) /\ Refers(m)' = Refers(m) \cup {p}
        BY <1>s, <2>1, <2>5, <3>1 DEF Refers
      <4>2. Cardinality(Refers(m)') = Cardinality(Refers(m)) + 1
        BY <4>1, RefersFinite, FS_AddElement
      <4> QED
        BY <2>2, <2>3, <3>1, <4>2 DEF RefsExact, TypeOK
    <3>2. CASE m # l
      <4>1. Refers(m)' = Refers(m)
        BY <1>s, <2>1, <2>5, <3>2 DEF Refers
      <4> QED
        BY <2>2, <3>2, <4>1 DEF RefsExact, TypeOK
    <3> QED
      BY <3>1, <3>2
  <2>10. HolderHolds'
    BY <1>4, <1>s, <2>5 DEF HolderHolds, LockRef
  <2>11. LocksReclaimed'
    BY <1>s, <2>1, <2>3, <2>5, <2>6 DEF LocksReclaimed
  <2> QED
    BY <2>7, <2>8, <2>9, <2>10, <2>11
<1>5. ASSUME NEW p \in Procs, LockAcquire(p) PROVE LockInv'
  <2>1. /\ pc[p] = "wait" /\ pc'[p] = "open" /\ \A q \in Procs : q # p => pc'[q] = pc[q]
        /\ UNCHANGED <<uploads, refs, job>>
    BY <1>5 DEF LockAcquire, Goto, TypeOK
  <2>2. job[p].lock \in Locks /\ holder'[job[p].lock] = p
        /\ \A m \in Locks : m # job[p].lock => holder'[m] = holder[m]
    BY <1>5, <1>s DEF LockAcquire, Assigned, TypeOK
  <2>3. \A q \in Procs : pc[q] \in Holding => job[q].lock # job[p].lock
    BY <1>5, ChunkConstants DEF LockAcquire, HolderHolds
  <2>4. HolderHolds'
    BY <1>s, <2>1, <2>2, <2>3 DEF HolderHolds, Assigned
  <2>5. RefsExact'
    <3>1. \A m \in Locks : Refers(m)' = Refers(m)
      BY <1>s, <2>1 DEF Refers
    <3> QED
      BY <2>1, <3>1 DEF RefsExact
  <2>6. Assigned' /\ OneLockEach' /\ LocksReclaimed'
    BY <1>s, <2>1 DEF Assigned, OneLockEach, LocksReclaimed
  <2> QED
    BY <2>4, <2>5, <2>6
<1>6. ASSUME NEW p \in Procs, Unlock(p) PROVE LockInv'
  <2>1. /\ pc[p] = "unlock" /\ pc'[p] = "unref" /\ \A q \in Procs : q # p => pc'[q] = pc[q]
        /\ UNCHANGED <<uploads, refs, job>>
    BY <1>6 DEF Unlock, Goto, TypeOK
  <2>2. \A m \in Locks : m # job[p].lock => holder'[m] = holder[m]
    BY <1>6 DEF Unlock, TypeOK
  <2>3. \A q \in Procs : pc[q] \in Holding /\ q # p => job[q].lock # job[p].lock
    BY <1>s, <2>1 DEF HolderHolds
  <2>4. HolderHolds'
    BY <1>s, <2>1, <2>2, <2>3 DEF HolderHolds, Assigned
  <2>5. RefsExact'
    <3>1. \A m \in Locks : Refers(m)' = Refers(m)
      BY <1>s, <2>1 DEF Refers
    <3> QED
      BY <2>1, <3>1 DEF RefsExact
  <2>6. Assigned' /\ OneLockEach' /\ LocksReclaimed'
    BY <1>s, <2>1 DEF Assigned, OneLockEach, LocksReclaimed
  <2> QED
    BY <2>4, <2>5, <2>6
<1>7. ASSUME NEW p \in Procs, Unref(p) PROVE LockInv'
  <2> DEFINE k == job[p].key
             l == job[p].lock
  <2>1. k \in Uploads /\ l \in Locks /\ uploads[k] = l /\ pc[p] = "unref" /\ l # Nil
    BY <1>7, <1>s, ChunkConstants DEF Unref, Assigned
  <2>2. /\ pc'[p] = "idle" /\ UNCHANGED holder
        /\ \A q \in Procs : q # p => job'[q] = job[q] /\ pc'[q] = pc[q]
    BY <1>7 DEF Unref, Goto, TypeOK
  <2>3. p \in Refers(l)
    BY <1>s, <2>1 DEF Refers
  <2>4. uploads' = IF refs[l] = 1 THEN [uploads EXCEPT ![k] = Nil] ELSE uploads
    BY <1>7 DEF Unref
  <2>5. refs' = [refs EXCEPT ![l] = @ - 1]
    BY <1>7 DEF Unref
  <2> HIDE DEF k, l
  <2>6. refs[l] = 1 <=> Refers(l) = {p}
    BY <2>1, <2>3, RefersNonempty DEF RefsExact
  <2>7. \A q \in Procs : pc[q] \in Counted => (job[q].lock = l <=> job[q].key = k)
    BY <1>s, <2>1 DEF Assigned, OneLockEach
  <2>8. refs[l] = 1 => \A q \in Procs : pc[q] \in Counted /\ job[q].key = k => q = p
    BY <2>6, <2>7 DEF Refers
  <2>9. refs[l] # 1 => \E q \in Procs : pc[q] \in Counted /\ job[q].key = k /\ q # p
    BY <2>3, <2>6, <2>7 DEF Refers
  <2>10. Assigned'
    BY <1>s, <2>1, <2>2, <2>4, <2>8 DEF Assigned, TypeOK
  <2>11. OneLockEach'
    BY <2>4 DEF OneLockEach, TypeOK
  <2>12. RefsExact'
    <3> SUFFICES ASSUME NEW m \in Locks PROVE refs'[m] = Cardinality(Refers(m)')
      BY DEF RefsExact
    <3>1. CASE m = l
      <4>1. Refers(m)' = Refers(m) \ {p}
        BY <1>s, <2>2, <3>1 DEF Refers
      <4>2. Cardinality(Refers(m)') = Cardinality(Refers(m)) - 1
        BY <2>3, <3>1, <4>1, RefersNonempty
      <4> QED
        BY <2>5, <3>1, <4>2 DEF RefsExact, TypeOK
    <3>2. CASE m # l
      <4>1. p \notin Refers(m)
        BY <2>3, <3>2 DEF Refers
      <4>2. Refers(m)' = Refers(m)
        BY <1>s, <2>2, <4>1 DEF Refers
      <4> QED
        BY <2>5, <3>2, <4>2 DEF RefsExact, TypeOK
    <3> QED
      BY <3>1, <3>2
  <2>13. HolderHolds'
    BY <1>s, <2>2 DEF HolderHolds
  <2>14. LocksReclaimed'
    <3> SUFFICES ASSUME NEW j \in Uploads
                 PROVE  uploads'[j] # Nil <=> \E q \in Procs : pc'[q] \in Counted /\ job'[q].key = j
      BY DEF LocksReclaimed
    <3>1. CASE j = k
      BY <1>s, <2>1, <2>2, <2>4, <2>8, <2>9, <3>1 DEF TypeOK
    <3>2. CASE j # k
      <4>1. job[p].key = k
        BY DEF k
      <4> QED
        BY <1>s, <2>1, <2>2, <2>4, <3>2, <4>1 DEF LocksReclaimed, TypeOK
    <3> QED
      BY <3>1, <3>2
  <2> QED
    BY <2>10, <2>11, <2>12, <2>13, <2>14
<1>8. CASE \E k \in Uploads : Age(k)
  BY <1>8, LockFrame DEF Age, Assigned
<1>9. CASE Crash
  <2>1. Assigned' /\ OneLockEach' /\ HolderHolds' /\ LocksReclaimed'
    BY <1>9, <1>s DEF Crash, Assigned, OneLockEach, HolderHolds, LocksReclaimed
  <2>2. RefsExact'
    <3>1. \A m \in Locks : Refers(m)' = {}
      BY <1>9, <1>s DEF Crash, Refers
    <3> QED
      BY <1>9, <3>1, FS_EmptySet DEF Crash, RefsExact
  <2> QED
    BY <2>1, <2>2
<1>10. CASE UNCHANGED vars
  BY <1>10, LockFrame DEF vars, locks, Assigned
<1> QED
  BY <1>1, <1>2, <1>3, <1>4, <1>5, <1>6, <1>7, <1>8, <1>9, <1>10 DEF Next, HandlerStep
-----------------------------------------------------------------------------
\* One lock object per upload means one handler per part.
LEMMA LockExcludes == LockInv => UploadExclusive
<1> SUFFICES ASSUME LockInv, NEW p \in Procs, NEW q \in Procs,
                    pc[p] \in Holding, pc[q] \in Holding, job[p].key = job[q].key
             PROVE  p = q
  BY DEF UploadExclusive
<1>1. job[p].lock = job[q].lock
  BY DEF LockInv, Assigned, Counted
<1> QED
  BY <1>1 DEF LockInv, HolderHolds

DataInv == InRange /\ OpenParts /\ Progress /\ PartIsPrefix /\ Assembled

\* A step of p that writes only to the part p has locked, or takes its name
\* away, cannot disturb what another handler knows of its own part.
LEMMA OthersKeep ==
  ASSUME LockInv, DataInv, NEW p \in Procs, pc[p] \in Holding, UNCHANGED job,
         \A j \in Uploads : j # job[p].key => part'[j] = part[j],
         \A q \in Procs : q # p => pc'[q] = pc[q] /\ (q \in open' <=> q \in open)
  PROVE  \A q \in Procs : q # p =>
           /\ q \in open' => pc'[q] \in {"copy", "truncate"} /\ part'[job'[q].key] # Missing
           /\ part'[job'[q].key] # Missing =>
                /\ pc'[q] = "copy" => q \in open' /\ part'[job'[q].key] = Prefix(job'[q].offset)
                /\ pc'[q] = "truncate" =>
                     q \in open' /\ part'[job'[q].key] = Prefix(Total[job'[q].key] + 1)
                /\ pc'[q] = "commit" => part'[job'[q].key] = Prefix(Total[job'[q].key])
<1> SUFFICES ASSUME NEW q \in Procs, q # p, pc[q] \in {"copy", "truncate", "commit"}
             PROVE  job[q].key # job[p].key /\ job[q].key \in Uploads
  BY DEF DataInv, OpenParts, Progress
<1>1. pc[q] \in Holding
  BY DEF Holding
<1>2. UploadExclusive
  BY LockExcludes
<1> QED
  BY <1>1, <1>2 DEF UploadExclusive, LockInv, Assigned

\* The parts an earlier run left are prefixes.
LEMMA DataInit == Init => DataInv
<1> SUFFICES ASSUME Init PROVE DataInv
  OBVIOUS
<1>1. InRange /\ OpenParts /\ Progress /\ Assembled
  BY DEF Init, InRange, OpenParts, Progress, Assembled
<1>2. PartIsPrefix
  <2> SUFFICES ASSUME NEW k \in Uploads, part[k] # Missing PROVE part[k] = Prefix(Len(part[k]))
    BY DEF PartIsPrefix
  <2>1. PICK n \in Nat : part[k] = Prefix(n)
    BY ChunkConstants DEF Init
  <2> QED
    BY <2>1, PrefixSeq
<1> QED
  BY <1>1, <1>2 DEF DataInv

\* Every step keeps parts and destinations prefixes of the file.
LEMMA DataStep ==
  ASSUME LockInv, DataInv, [Next]_vars
  PROVE  DataInv'
<1> USE DEF DataInv
<1>h. Holding = {"open", "copy", "truncate", "commit", "unlock"}
  BY DEF Holding
<1>a. \A p \in Procs : pc[p] # "idle" => job[p].key \in Uploads
  BY DEF LockInv, Assigned
<1>b. \A p \in Procs : job[p].offset \in Nat /\ job[p].size \in Nat
  BY DEF LockInv, TypeOK, Requests
<1>p. \A n \in Nat : Prefix(n) # Missing /\ Len(Prefix(n)) = n
  BY PrefixSeq
<1>1. ASSUME NEW p \in Procs, Receive(p) PROVE DataInv'
  <2>1. PICK k \in Uploads : \E o \in 0..Total[k], n \in 0..MaxChunk :
          job' = [job EXCEPT ![p] = Request(k, o, n)]
    BY <1>1 DEF Receive
  <2>2. PICK o \in 0..Total[k], n \in 0..MaxChunk : job' = [job EXCEPT ![p] = Request(k, o, n)]
    BY <2>1
  <2>3. job'[p].key = k /\ job'[p].offset = o /\ \A q \in Procs : q # p => job'[q] = job[q]
    BY <2>2 DEF Request, LockInv, TypeOK
  <2>4. /\ pc[p] = "idle" /\ pc'[p] = "sweep" /\ \A q \in Procs : q # p => pc'[q] = pc[q]
        /\ UNCHANGED <<part, dest, open>>
    BY <1>1 DEF Receive, Goto, LockInv, TypeOK, disk
  <2>5. InRange'
    BY <2>3, <2>4, ChunkConstants DEF InRange
  <2>6. OpenParts' /\ Progress'
    BY <2>3, <2>4 DEF OpenParts, Progress, LockInv, TypeOK
  <2>7. PartIsPrefix' /\ Assembled'
    BY <2>4 DEF PartIsPrefix, Assembled
  <2> QED
    BY <2>5, <2>6, <2>7
<1>2. ASSUME NEW p \in Procs, SweepSee(p) \/ SweepDone(p) PROVE DataInv'
  <2>1. /\ pc[p] = "sweep" /\ pc'[p] \in {"remove", "lock"} /\ UNCHANGED <<part, dest, open>>
        /\ \A q \in Procs : q # p => pc'[q] = pc[q]
        /\ \A q \in Procs : job'[q].key = job[q].key /\ job'[q].offset = job[q].offset
    BY <1>2 DEF SweepSee, SweepDone, Goto, LockInv, TypeOK, Requests, disk
  <2>2. InRange' /\ OpenParts' /\ Progress'
    BY <2>1 DEF InRange, OpenParts, Progress, LockInv, TypeOK
  <2> QED
    BY <2>1, <2>2 DEF PartIsPrefix, Assembled
<1>3. ASSUME NEW p \in Procs, SweepRemove(p) PROVE DataInv'
  <2>1. /\ pc[p] = "remove" /\ pc'[p] = "sweep" /\ \A q \in Procs : q # p => pc'[q] = pc[q]
        /\ job[p].seen \in Uploads
    BY <1>3 DEF SweepRemove, Goto, LockInv, TypeOK, Assigned
  <2>2. \A q \in Procs : job'[q].key = job[q].key /\ job'[q].offset = job[q].offset
    BY <1>3 DEF SweepRemove, LockInv, TypeOK, Requests
  <2>3. /\ part'[job[p].seen] = Missing /\ UNCHANGED dest
        /\ \A k \in Uploads : k # job[p].seen => part'[k] = part[k]
        /\ open' = {q \in open : job[q].key # job[p].seen}
    BY <1>3, <2>1 DEF SweepRemove, Unlinked, LockInv, TypeOK
  <2>4. InRange'
    BY <2>1, <2>2 DEF InRange
  <2>5. OpenParts'
    BY <1>a, <2>1, <2>2, <2>3 DEF OpenParts, LockInv, TypeOK
  <2>6. Progress'
    <3> SUFFICES ASSUME NEW q \in Procs, part'[job'[q].key] # Missing,
                        pc'[q] \in {"copy", "truncate", "commit"}
                 PROVE  /\ q \in open <=> q \in open'
                        /\ pc'[q] = pc[q] /\ part'[job'[q].key] = part[job[q].key]
      BY <2>2 DEF Progress
    <3>1. q # p /\ pc'[q] = pc[q] /\ job[q].key \in Uploads
      BY <1>a, <2>1
    <3>2. job[q].key # job[p].seen
      BY <2>2, <2>3
    <3> QED
      BY <2>2, <2>3, <3>1, <3>2
  <2>7. PartIsPrefix' /\ Assembled'
    BY <2>3 DEF PartIsPrefix, Assembled
  <2> QED
    BY <2>4, <2>5, <2>6, <2>7<1>4. ASSUME NEW p \in Procs,
             LockRef(p) \/ LockAcquire(p) \/ Unlock(p) \/ Unref(p)
      PROVE  DataInv'
  <2>1. /\ pc[p] \notin {"copy", "truncate", "commit", "idle"}
        /\ pc'[p] \in {"wait", "open", "unref", "idle"}
        /\ UNCHANGED <<part, dest, open>>
        /\ \A q \in Procs : q # p => pc'[q] = pc[q] /\ job'[q] = job[q]
    BY <1>4 DEF LockRef, LockAcquire, Unlock, Unref, Goto, LockInv, TypeOK, disk
  <2>2. pc'[p] # "idle" => job'[p].key = job[p].key /\ job'[p].offset = job[p].offset
    BY <1>4 DEF LockRef, LockAcquire, Unlock, Unref, Goto, LockInv, TypeOK, Requests
  <2>3. InRange'
    BY <2>1, <2>2 DEF InRange
  <2>4. OpenParts' /\ Progress'
    BY <2>1 DEF OpenParts, Progress, LockInv, TypeOK
  <2>5. PartIsPrefix' /\ Assembled'
    BY <2>1 DEF PartIsPrefix, Assembled
  <2> QED
    BY <2>3, <2>4, <2>5
<1>5. ASSUME NEW p \in Procs, OpenPart(p) PROVE DataInv'
  <2> DEFINE k == job[p].key
             o == job[p].offset
             s == Opened(k, o)
  <2>1. /\ pc[p] = "open" /\ k \in Uploads /\ o \in Nat
        /\ UNCHANGED <<job, dest>>
    BY <1>5, <1>a, <1>b DEF OpenPart
  <2>2. part' = [part EXCEPT ![k] = s]
    BY <1>5 DEF OpenPart
  <2>3. \A q \in Procs : q # p => pc'[q] = pc[q]
    BY <1>5 DEF OpenPart, Goto, LockInv, TypeOK
  <2>4. \/ Len(s) = o /\ pc'[p] = "copy" /\ p \in open'
        \/ pc'[p] = "unlock" /\ (p \in open' => p \in open)
    BY <1>5 DEF OpenPart, Unlinked, Goto, LockInv, TypeOK
  <2>5. \A q \in Procs : q # p /\ q \in open => job[q].key # k
    <3>1. UploadExclusive
      BY LockExcludes
    <3> QED
      BY <1>h, <2>1, <3>1 DEF UploadExclusive, OpenParts
  <2>6. \A q \in Procs : q # p => (q \in open' <=> q \in open)
    BY <1>5, <2>5 DEF OpenPart, Unlinked
  <2>7. s \in Seq(Nat) /\ s # Missing /\ s = Prefix(Len(s))
    <3>1. << >> \in Seq(Nat) /\ << >> = Prefix(0) /\ Len(<< >>) = 0
      BY DEF Prefix
    <3>2. CASE o = 0 \/ part[k] = Missing
      BY <3>1, <3>2, ChunkConstants DEF Opened
    <3>3. CASE ~(o = 0 \/ part[k] = Missing)
      BY <2>1, <3>3, ChunkConstants DEF Opened, PartIsPrefix, LockInv, TypeOK, Contents
    <3> QED
      BY <3>2, <3>3
  <2>8. part'[k] = s /\ \A j \in Uploads : j # k => part'[j] = part[j]
    BY <2>1, <2>2 DEF LockInv, TypeOK
  <2>9. p \notin open
    BY <2>1 DEF OpenParts
  <2> HIDE DEF k, o, s
  <2>10. \A q \in Procs : q # p =>
           /\ q \in open' => pc'[q] \in {"copy", "truncate"} /\ part'[job'[q].key] # Missing
           /\ part'[job'[q].key] # Missing =>
                /\ pc'[q] = "copy" => q \in open' /\ part'[job'[q].key] = Prefix(job'[q].offset)
                /\ pc'[q] = "truncate" =>
                     q \in open' /\ part'[job'[q].key] = Prefix(Total[job'[q].key] + 1)
                /\ pc'[q] = "commit" => part'[job'[q].key] = Prefix(Total[job'[q].key])
    BY <1>h, <2>1, <2>3, <2>6, <2>8, OthersKeep DEF k
  <2>11. open' \subseteq Procs
    BY <1>5 DEF OpenPart, Unlinked, LockInv, TypeOK
  <2>12. OpenParts'
    BY <2>1, <2>4, <2>7, <2>8, <2>9, <2>10, <2>11 DEF OpenParts, k
  <2>13. Progress'
    BY <2>1, <2>4, <2>7, <2>8, <2>9, <2>10 DEF Progress, k, o
  <2>14. InRange'
    BY <2>1, <2>3 DEF InRange
  <2>15. PartIsPrefix' /\ Assembled'
    BY <2>1, <2>7, <2>8 DEF PartIsPrefix, Assembled
  <2> QED
    BY <2>12, <2>13, <2>14, <2>15
<1>6. ASSUME NEW p \in Procs,
             OpenFails(p) \/ CopyFails(p) \/ Truncate(p) \/ CommitFails(p) \/ Commit(p)
             \/ CopyChunk(p)
      PROVE  /\ UNCHANGED job /\ pc[p] \in Holding /\ pc[p] # "idle"
             /\ \A q \in Procs : q # p => pc'[q] = pc[q]
             /\ \A j \in Uploads : j # job[p].key => part'[j] = part[j]
             /\ InRange'
             /\ open' \subseteq Procs
             /\ \A q \in Procs : q # p => (q \in open' <=> q \in open)
  <2>1. /\ UNCHANGED job /\ pc[p] \in Holding /\ pc[p] # "idle"
        /\ \A q \in Procs : q # p => pc'[q] = pc[q]
    BY <1>6, <1>h DEF OpenFails, CopyFails, Truncate, CommitFails, Commit, CopyChunk,
                      Goto, LockInv, TypeOK
  <2>2. \A j \in Uploads : j # job[p].key => part'[j] = part[j]
    BY <1>6 DEF OpenFails, CopyFails, Truncate, CommitFails, Commit, CopyChunk, WritePart,
                disk, LockInv, TypeOK
  <2>3. InRange'
    BY <2>1 DEF InRange
  <2>4. \A q \in Procs : q # p /\ q \in open => job[q].key # job[p].key
    <3>1. UploadExclusive
      BY LockExcludes
    <3> QED
      BY <1>h, <2>1, <3>1 DEF UploadExclusive, OpenParts
  <2>5. open' \subseteq Procs /\ \A q \in Procs : q # p => (q \in open' <=> q \in open)
    BY <1>6, <2>4 DEF OpenFails, CopyFails, Truncate, CommitFails, Commit, CopyChunk,
                      Unlinked, LockInv, TypeOK
  <2> QED
    BY <2>1, <2>2, <2>3, <2>5<1>7. ASSUME NEW p \in Procs,
             OpenFails(p) \/ CopyFails(p) \/ Truncate(p) \/ CommitFails(p) \/ Commit(p)
             \/ CopyChunk(p),
             p \in open' => pc'[p] \in {"copy", "truncate"} /\ part'[job[p].key] # Missing,
             part'[job[p].key] # Missing =>
               /\ pc'[p] # "copy"
               /\ pc'[p] = "truncate" =>
                    p \in open' /\ part'[job[p].key] = Prefix(Total[job[p].key] + 1)
               /\ pc'[p] = "commit" => part'[job[p].key] = Prefix(Total[job[p].key])
      PROVE  InRange' /\ OpenParts' /\ Progress'
  <2>1. /\ UNCHANGED job /\ pc[p] \in Holding
        /\ \A q \in Procs : q # p => pc'[q] = pc[q]
        /\ \A j \in Uploads : j # job[p].key => part'[j] = part[j]
        /\ InRange'
        /\ open' \subseteq Procs
        /\ \A q \in Procs : q # p => (q \in open' <=> q \in open)
    BY <1>6, <1>7
  <2>2. \A q \in Procs : q # p =>
           /\ q \in open' => pc'[q] \in {"copy", "truncate"} /\ part'[job'[q].key] # Missing
           /\ part'[job'[q].key] # Missing =>
                /\ pc'[q] = "copy" => q \in open' /\ part'[job'[q].key] = Prefix(job'[q].offset)
                /\ pc'[q] = "truncate" =>
                     q \in open' /\ part'[job'[q].key] = Prefix(Total[job'[q].key] + 1)
                /\ pc'[q] = "commit" => part'[job'[q].key] = Prefix(Total[job'[q].key])
    BY <2>1, OthersKeep
  <2>3. OpenParts'
    BY <1>7, <2>1, <2>2 DEF OpenParts
  <2>4. Progress'
    BY <1>7, <2>1, <2>2 DEF Progress
  <2> QED
    BY <2>1, <2>3, <2>4
<1>8. ASSUME NEW p \in Procs, OpenFails(p) PROVE DataInv'
  <2>1. pc[p] = "open" /\ pc'[p] = "unlock" /\ job[p].key \in Uploads /\ UNCHANGED dest
    BY <1>8, <1>a DEF OpenFails, Goto, LockInv, TypeOK
  <2>2. p \notin open'
    BY <1>8, <2>1 DEF OpenFails, Unlinked, OpenParts
  <2>3. InRange' /\ OpenParts' /\ Progress'
    BY <1>7, <1>8, <2>1, <2>2
  <2>4. part'[job[p].key] \in {part[job[p].key], << >>, Missing}
    BY <1>8, <2>1 DEF OpenFails, Opened, LockInv, TypeOK
  <2>5. << >> = Prefix(Len(<< >>))
    BY DEF Prefix
  <2>6. PartIsPrefix'
    BY <1>6, <1>8, <2>4, <2>5 DEF PartIsPrefix
  <2> QED
    BY <2>1, <2>3, <2>6 DEF Assembled
<1>9. ASSUME NEW p \in Procs, NEW m \in Nat, pc[p] = "copy",
             WritePart(p, Written(part[job[p].key], job[p].offset, m))
      PROVE  part'[job[p].key] \in {Missing, Prefix(job[p].offset + m)}
  <2>1. job[p].key \in Uploads
    BY <1>9, <1>a
  <2>2. CASE p \notin open
    BY <1>9, <2>2 DEF WritePart, Progress
  <2>3. CASE p \in open
    <3>1. part[job[p].key] = Prefix(job[p].offset)
      BY <1>9, <2>3 DEF OpenParts, Progress
    <3>2. Written(part[job[p].key], job[p].offset, m) = Prefix(job[p].offset + m)
      BY <1>b, <3>1, WrittenPrefix
    <3> QED
      BY <1>9, <2>1, <2>3, <3>2 DEF WritePart, LockInv, TypeOK
  <2> QED
    BY <2>2, <2>3
<1>10. ASSUME NEW p \in Procs, NEW n \in Nat, part'[job[p].key] \in {Missing, Prefix(n)},
              \A j \in Uploads : j # job[p].key => part'[j] = part[j]
       PROVE  PartIsPrefix'
  BY <1>10, <1>p DEF PartIsPrefix
<1>11. ASSUME NEW p \in Procs, CopyFails(p) PROVE DataInv'
  <2>1. pc[p] = "copy" /\ pc'[p] = "unlock" /\ p \notin open' /\ UNCHANGED dest
    BY <1>11 DEF CopyFails, Goto, LockInv, TypeOK
  <2>2. PICK m \in 0..job[p].size : WritePart(p, Written(part[job[p].key], job[p].offset, m))
    BY <1>11 DEF CopyFails
  <2>3. m \in Nat /\ job[p].offset + m \in Nat
    BY <1>b
  <2>4. part'[job[p].key] \in {Missing, Prefix(job[p].offset + m)}
    BY <1>9, <2>1, <2>2, <2>3
  <2>5. PartIsPrefix'
    BY <1>6, <1>10, <1>11, <2>3, <2>4
  <2>6. InRange' /\ OpenParts' /\ Progress'
    BY <1>7, <1>11, <2>1
  <2> QED
    BY <2>1, <2>5, <2>6 DEF Assembled
<1>12. ASSUME NEW p \in Procs, CopyChunk(p) PROVE DataInv'
  <2> DEFINE t == Total[job[p].key]
             o == job[p].offset
             m == IF o + job[p].size > t THEN t + 1 - o ELSE job[p].size
  <2>1. pc[p] = "copy" /\ UNCHANGED dest /\ job[p].key \in Uploads
    BY <1>12, <1>a DEF CopyChunk
  <2>2. t \in Nat /\ o \in Nat /\ o <= t
    BY <1>b, <2>1, ChunkConstants DEF InRange
  <2>3. m \in Nat /\ o + m \in Nat
    BY <1>b, <2>2
  <2>4. o + m > t => o + m = t + 1
    BY <1>b, <2>2
  <2>5. WritePart(p, Written(part[job[p].key], job[p].offset, m))
    BY <1>12 DEF CopyChunk
  <2>6. \/ o + m > t /\ pc'[p] = "truncate" /\ UNCHANGED open
        \/ o + m < t /\ pc'[p] = "unlock" /\ open' = open \ {p}
        \/ o + m = t /\ pc'[p] = "commit" /\ open' = open \ {p}
    BY <1>12 DEF CopyChunk, Goto, LockInv, TypeOK
  <2> HIDE DEF m
  <2>7. part'[job[p].key] \in {Missing, Prefix(o + m)}
    BY <1>9, <2>1, <2>3, <2>5
  <2>8. PartIsPrefix'
    BY <1>6, <1>10, <1>12, <2>3, <2>7
  <2>9. p \in open => part'[job[p].key] # Missing
    <3>1. p \in open => part[job[p].key] = Prefix(o) /\ Written(Prefix(o), o, m) = Prefix(o + m)
      BY <2>1, <2>2, <2>3, WrittenPrefix DEF OpenParts, Progress
    <3>2. p \in open => part' = [part EXCEPT ![job[p].key] = Prefix(o + m)]
      BY <2>5, <3>1 DEF WritePart
    <3> QED
      BY <1>p, <2>1, <2>3, <3>2 DEF LockInv, TypeOK
  <2>10. p \notin open => part'[job[p].key] = Missing
    BY <2>1, <2>5 DEF WritePart, Progress
  <2>11. InRange' /\ OpenParts' /\ Progress'
    <3>1. p \in open' => pc'[p] \in {"copy", "truncate"} /\ part'[job[p].key] # Missing
      BY <2>6, <2>9
    <3>2. part'[job[p].key] # Missing =>
            /\ pc'[p] # "copy"
            /\ pc'[p] = "truncate" => p \in open' /\ part'[job[p].key] = Prefix(t + 1)
            /\ pc'[p] = "commit" => part'[job[p].key] = Prefix(t)
      BY <2>4, <2>6, <2>7, <2>10
    <3> QED
      BY <1>7, <1>12, <3>1, <3>2
  <2> QED
    BY <2>1, <2>8, <2>11 DEF Assembled
<1>13. ASSUME NEW p \in Procs, Truncate(p) PROVE DataInv'
  <2>1. pc[p] = "truncate" /\ pc'[p] = "unlock" /\ p \notin open' /\ UNCHANGED dest
        /\ job[p].key \in Uploads
    BY <1>13, <1>a DEF Truncate, Goto, LockInv, TypeOK
  <2>2. Total[job[p].key] + 1 \in Nat /\ job[p].offset <= Total[job[p].key] + 1
    BY <1>b, <2>1, ChunkConstants DEF InRange
  <2>3. PartIsPrefix'
    <3>1. CASE UNCHANGED <<part, stale>>
      BY <3>1 DEF PartIsPrefix
    <3>2. CASE p \in open /\ part' = [part EXCEPT ![job[p].key] =
                                 SubSeq(part[job[p].key], 1, job[p].offset)]
      <4>1. part[job[p].key] = Prefix(Total[job[p].key] + 1)
        BY <2>1, <3>2 DEF OpenParts, Progress
      <4>2. SubSeq(part[job[p].key], 1, job[p].offset) = Prefix(job[p].offset)
        BY <1>b, <2>2, <4>1, CutPrefix
      <4>3. part'[job[p].key] = Prefix(job[p].offset)
        BY <2>1, <3>2, <4>2 DEF LockInv, TypeOK
      <4> QED
        BY <1>6, <1>10, <1>13, <1>b, <4>3
    <3> QED
      BY <1>13, <3>1, <3>2 DEF Truncate, WritePart
  <2>4. InRange' /\ OpenParts' /\ Progress'
    BY <1>7, <1>13, <2>1
  <2> QED
    BY <2>1, <2>3, <2>4 DEF Assembled
<1>14. ASSUME NEW p \in Procs, Commit(p) PROVE DataInv'
  <2>1. /\ pc[p] = "commit" /\ pc'[p] = "unlock" /\ UNCHANGED open /\ job[p].key \in Uploads
        /\ part[job[p].key] # Missing
        /\ dest' = [dest EXCEPT ![job[p].key] = part[job[p].key]]
        /\ part' = [part EXCEPT ![job[p].key] = Missing]
    BY <1>14, <1>a DEF Commit, Goto, LockInv, TypeOK
  <2>2. p \notin open'
    BY <2>1 DEF OpenParts
  <2>3. InRange' /\ OpenParts' /\ Progress'
    BY <1>7, <1>14, <2>1, <2>2
  <2>4. part[job[p].key] = Prefix(Total[job[p].key])
    BY <2>1 DEF Progress
  <2>5. Assembled'
    BY <2>1, <2>4 DEF Assembled, LockInv, TypeOK
  <2>6. PartIsPrefix'
    BY <2>1 DEF PartIsPrefix, LockInv, TypeOK
  <2> QED
    BY <2>3, <2>5, <2>6
<1>15. ASSUME NEW p \in Procs, CommitFails(p) PROVE DataInv'
  <2>1. pc[p] = "commit" /\ pc'[p] = "unlock" /\ UNCHANGED <<part, dest, open>>
    BY <1>15 DEF CommitFails, Goto, LockInv, TypeOK, disk
  <2>2. p \notin open'
    BY <2>1 DEF OpenParts
  <2>3. InRange' /\ OpenParts' /\ Progress'
    BY <1>7, <1>15, <2>1, <2>2
  <2> QED
    BY <2>1, <2>3 DEF PartIsPrefix, Assembled
<1>16. CASE \E k \in Uploads : Age(k)
  BY <1>16 DEF Age, InRange, OpenParts, Progress, PartIsPrefix, Assembled
<1>17. CASE Crash
  <2>1. /\ open' = {} /\ \A p \in Procs : pc'[p] = "idle"
        /\ UNCHANGED <<part, dest>>
    BY <1>17 DEF Crash, disk
  <2> QED
    BY <2>1 DEF InRange, OpenParts, Progress, PartIsPrefix, Assembled
<1>18. CASE UNCHANGED vars
  BY <1>18 DEF vars, InRange, OpenParts, Progress, PartIsPrefix, Assembled
<1> QED
  BY <1>1, <1>2, <1>3, <1>4, <1>5, <1>8, <1>11, <1>12, <1>13, <1>14, <1>15, <1>16, <1>17,
     <1>18 DEF Next, HandlerStep

-----------------------------------------------------------------------------
\* Both invariants hold together for ever.
LEMMA ChunkInvariant == Spec => [](LockInv /\ DataInv)
<1>1. LockInv /\ DataInv /\ [Next]_vars => (LockInv /\ DataInv)'
  <2> SUFFICES ASSUME LockInv, DataInv, [Next]_vars PROVE LockInv' /\ DataInv'
    OBVIOUS
  <2>1. TypeOK'
    BY ChunkTypes DEF LockInv, DataInv
  <2> QED
    BY <2>1, LockStep, DataStep
<1> QED
  BY <1>1, LockInit, DataInit, PTL DEF Spec

\* What a chunked upload puts at its destination is the client's whole file,
\* for any file size, any cut into chunks, any number of repeated, reordered
\* or interrupted requests, and any clean-up that runs meanwhile.
THEOREM ChunksAssemble == Spec => []Assembled
<1>1. DataInv => Assembled
  BY DEF DataInv
<1> QED
  BY <1>1, ChunkInvariant, PTL

\* Parts stay prefixes of the client's file, so an upload can be resumed at
\* the size that the 409 reply names.
THEOREM ChunkPartsResumable == Spec => []PartIsPrefix
<1>1. DataInv => PartIsPrefix
  BY DEF DataInv
<1> QED
  BY <1>1, ChunkInvariant, PTL

\* lockUpload admits one handler per part file at a time.
THEOREM ChunkMutex == Spec => []UploadExclusive
BY LockExcludes, ChunkInvariant, PTL

\* An entry of Server.uploads lives exactly as long as some handler counts on it.
THEOREM ChunkLocksReclaimed == Spec => []LocksReclaimed
<1>1. LockInv => LocksReclaimed
  BY DEF LockInv
<1> QED
  BY <1>1, ChunkInvariant, PTL

\* The handlers' state stays of its types: no lock is held by a handler that does
\* not run, no part is written by one that has not opened it.
THEOREM ChunkTypesKept == Spec => []TypeOK
<1>1. LockInv => TypeOK
  BY DEF LockInv
<1> QED
  BY <1>1, ChunkInvariant, PTL
=============================================================================
