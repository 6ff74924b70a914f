-------------------------- MODULE FtpTransferProofs --------------------------
(***************************************************************************)
(* Resumed transfers, for any number of sessions and files of any length.  *)
(***************************************************************************)
EXTENDS FtpTransfer, TLAPS

Transfers == [op : {"none", "retr", "stor", "appe", "receive"},
              at : -1..MaxLen, exists : BOOLEAN, fresh : BOOLEAN, data : Contents]

-----------------------------------------------------------------------------
\* The contents of a file are the sequences of at most MaxLen bytes.
LEMMA ContentsAreBounded ==
  ASSUME NEW c
  PROVE  c \in Contents <=> c \in Seq(Bytes) /\ Len(c) <= MaxLen
<1>1. ASSUME c \in Contents PROVE c \in Seq(Bytes) /\ Len(c) <= MaxLen
  <2>1. PICK n \in 0..MaxLen : c \in [1..n -> Bytes]
    BY <1>1 DEF Contents
  <2> QED
    BY <2>1, TransferConstants
<1>2. ASSUME c \in Seq(Bytes), Len(c) <= MaxLen PROVE c \in Contents
  <2>1. Len(c) \in 0..MaxLen /\ c \in [1..Len(c) -> Bytes]
    BY <1>2, TransferConstants
  <2> QED
    BY <2>1 DEF Contents
<1> QED
  BY <1>1, <1>2

\* What the transfers build from contents are contents.
LEMMA ContentsClosed ==
  /\ <<>> \in Contents
  /\ \A c \in Contents, s \in Sessions : Len(c) < MaxLen => Append(c, s) \in Contents
  /\ \A c \in Contents, m \in 0..MaxLen : SubSeq(c, m + 1, Len(c)) \in Contents
  /\ \A c, d \in Contents, n \in 0..MaxLen :
       n <= Len(d) /\ Len(c) + n <= MaxLen => c \o SubSeq(d, 1, n) \in Contents
  /\ \A c \in Contents, n \in 0..MaxLen : Truncated(c, n) \in Contents
<1> USE TransferConstants, ContentsAreBounded
<1>1. <<>> \in Contents
  <2>1. <<>> \in Seq(Bytes)
    OBVIOUS
  <2>2. Len(<<>>) <= MaxLen
    OBVIOUS
  <2> QED
    BY <2>1, <2>2, Zenon
<1>2. ASSUME NEW c \in Contents, NEW s \in Sessions, Len(c) < MaxLen
      PROVE  Append(c, s) \in Contents
  <2>1. c \in Seq(Bytes) /\ s \in Bytes
    BY DEF Bytes
  <2>2. Append(c, s) \in Seq(Bytes) /\ Len(Append(c, s)) = Len(c) + 1
    BY <2>1
  <2>3. Len(c) + 1 <= MaxLen
    BY <1>2, <2>1
  <2> QED
    BY <2>2, <2>3
<1>3. ASSUME NEW c \in Contents, NEW m \in 0..MaxLen
      PROVE  SubSeq(c, m + 1, Len(c)) \in Contents
  <2>1. c \in Seq(Bytes) /\ Len(c) \in Nat /\ Len(c) <= MaxLen
    OBVIOUS
  <2>2. SubSeq(c, m + 1, Len(c)) \in Seq(Bytes)
    BY <2>1
  <2>3. Len(SubSeq(c, m + 1, Len(c))) <= Len(c)
    BY <2>1
  <2>4. Len(SubSeq(c, m + 1, Len(c))) <= MaxLen
    BY <2>1, <2>3
  <2> QED
    BY <2>2, <2>4
<1>4. ASSUME NEW c \in Contents, NEW d \in Contents, NEW n \in 0..MaxLen,
             n <= Len(d), Len(c) + n <= MaxLen
      PROVE  c \o SubSeq(d, 1, n) \in Contents
  <2>1. SubSeq(d, 1, n) \in Seq(Bytes) /\ Len(SubSeq(d, 1, n)) = n
    BY <1>4
  <2>2. /\ c \o SubSeq(d, 1, n) \in Seq(Bytes)
        /\ Len(c \o SubSeq(d, 1, n)) = Len(c) + n
    BY <2>1
  <2> QED
    BY <1>4, <2>2
<1>5. ASSUME NEW c \in Contents, NEW n \in 0..MaxLen PROVE Truncated(c, n) \in Contents
  <2>1. Truncated(c, n) \in [1..n -> Bytes]
    BY DEF Truncated, Bytes
  <2> QED
    BY <2>1 DEF Contents
<1> QED
  BY <1>1, <1>2, <1>3, <1>4, <1>5

\* A transfer that begins, and one that has ended, have the type of transfers.
LEMMA JobTypes ==
  /\ NoJob \in Transfers
  /\ \A op \in {"retr", "stor", "appe"}, at \in -1..MaxLen, x \in BOOLEAN, c \in Contents :
       Job(op, at, x, c) \in Transfers
<1>1. -1 \in -1..MaxLen
  BY TransferConstants
<1> QED
  BY <1>1, ContentsClosed DEF NoJob, Job, Transfers

\* Every variable keeps its type: the offsets a session and its client hold are
\* offsets, and staged, sent and assembled bytes stay within the bound.
THEOREM TransferTypes == Spec => []TypeOK
<1> USE TransferConstants DEF Ends, client
<1>1. Init => TypeOK
  <2> SUFFICES ASSUME Init PROVE TypeOK
    OBVIOUS
  <2>1. job \in [Sessions -> Transfers]
    BY JobTypes DEF Init
  <2>2. -1 \in -1..MaxLen
    OBVIOUS
  <2> QED
    BY <2>1, <2>2, ContentsClosed DEF Init, TypeOK, Transfers
<1>2. TypeOK /\ [Next]_vars => TypeOK'
  <2> SUFFICES ASSUME TypeOK, [Next]_vars PROVE TypeOK'
    OBVIOUS
  <2>0. job \in [Sessions -> Transfers]
    BY DEF TypeOK, Transfers
  <2>1. ASSUME NEW s \in Sessions, NEW n \in 0..MaxLen, Restart(s, n) PROVE TypeOK'
    BY <2>1 DEF Restart, TypeOK
  <2>2. ASSUME NEW s \in Sessions, NEW n \in 0..MaxLen, Deliver(s, n) PROVE TypeOK'
    <3>1. job[s].data \in Contents
      BY <2>0 DEF Transfers
    <3>2. got' \in [Sessions -> Contents]
      BY <2>2, <3>1, ContentsClosed DEF Deliver, TypeOK
    <3>3. job' \in [Sessions -> Transfers]
      BY <2>0, <2>2, JobTypes DEF Deliver
    <3> QED
      BY <2>2, <3>2, <3>3 DEF Deliver, TypeOK, Transfers
  <2>3. ASSUME NEW s \in Sessions, Denied(s) PROVE TypeOK'
    BY <2>3 DEF Denied, TypeOK
  <2>4. ASSUME NEW s \in Sessions, Retrieve(s) PROVE TypeOK'
    <3>1. From(s) \in 0..MaxLen
      BY DEF From, TypeOK
    <3>2. rest' \in [Sessions -> -1..MaxLen] /\ asked' \in [Sessions -> -1..MaxLen]
          /\ refused' \in [Sessions -> BOOLEAN]
      BY <2>4 DEF Retrieve, ConsumeRestart, TypeOK
    <3>3. job' \in [Sessions -> Transfers]
      <4>1. CASE file # Absent /\ From(s) <= Len(file)
        <5>1. SubSeq(file, From(s) + 1, Len(file)) \in Contents /\ rest[s] \in -1..MaxLen
          BY <3>1, <4>1, ContentsClosed DEF TypeOK
        <5>2. Job("retr", rest[s], TRUE, SubSeq(file, From(s) + 1, Len(file))) \in Transfers
          BY <5>1, JobTypes
        <5> QED
          BY <2>0, <2>4, <4>1, <5>2 DEF Retrieve
      <4>2. CASE ~(file # Absent /\ From(s) <= Len(file))
        BY <2>0, <2>4, <4>2 DEF Retrieve
      <4> QED
        BY <4>1, <4>2
    <3>4. got' \in [Sessions -> Contents]
      BY <2>4, ContentsClosed DEF Retrieve, TypeOK
    <3>5. same' \in [Sessions -> BOOLEAN]
      BY <2>4 DEF Retrieve, TypeOK
    <3> QED
      BY <2>4, <3>2, <3>3, <3>4, <3>5 DEF Retrieve, TypeOK, Transfers
  <2>5. ASSUME NEW s \in Sessions, NEW op \in {"stor", "appe"}, Store(s, op) PROVE TypeOK'
    <3>1. rest' \in [Sessions -> -1..MaxLen] /\ asked' \in [Sessions -> -1..MaxLen]
          /\ refused' \in [Sessions -> BOOLEAN]
      BY <2>5 DEF Store, ConsumeRestart, TypeOK
    <3>2. job' \in [Sessions -> Transfers]
      <4>1. Job(op, rest[s], file # Absent, <<>>) \in Transfers
        BY JobTypes, ContentsClosed DEF TypeOK
      <4> QED
        BY <2>0, <2>5, <4>1 DEF Store
    <3> QED
      BY <2>5, <3>1, <3>2 DEF Store, TypeOK, Transfers
  <2>6. ASSUME NEW s \in Sessions, StageCurrent(s) PROVE TypeOK'
    <3> DEFINE j == job[s]
               base == IF j.exists /\ (j.op = "appe" \/ j.at # -1) THEN file ELSE <<>>
               d == IF j.at # -1 THEN Truncated(base, j.at) ELSE base
    <3>1. base \in Contents
      BY <2>6, ContentsClosed DEF StageCurrent, TypeOK
    <3>2. j.at \in -1..MaxLen
      BY <2>0 DEF Transfers
    <3>3. d \in Contents
      <4> HIDE DEF base
      <4>1. CASE j.at = -1
        BY <3>1, <4>1
      <4>2. CASE j.at # -1
        <5>1. j.at \in 0..MaxLen
          BY <3>2, <4>2
        <5> QED
          BY <3>1, <4>2, <5>1, ContentsClosed
      <4> QED
        BY <4>1, <4>2
    <3>4. job' \in [Sessions -> Transfers]
      <4>1. job' = [job EXCEPT ![s].op = "receive", ![s].data = d]
        BY <2>6 DEF StageCurrent
      <4> HIDE DEF d
      <4>2. /\ job'[s] = [job[s] EXCEPT !.op = "receive", !.data = d]
            /\ \A t \in Sessions \ {s} : job'[t] = job[t]
            /\ DOMAIN job' = Sessions /\ job' = [t \in Sessions |-> job'[t]]
        BY <2>0, <4>1
      <4>3. job'[s] \in Transfers
        BY <2>0, <3>3, <4>2 DEF Transfers
      <4> QED
        BY <2>0, <4>2, <4>3
    <3>5. raced' \in BOOLEAN /\ UNCHANGED <<file, rest, asked, got, same, refused>>
      BY <2>6 DEF StageCurrent, TypeOK
    <3> QED
      BY <3>4, <3>5 DEF TypeOK, Transfers
  <2>7. ASSUME NEW s \in Sessions, StageFails(s) \/ Abort(s) PROVE TypeOK'
    <3>1. job' \in [Sessions -> Transfers]
      BY <2>0, <2>7, JobTypes DEF StageFails, Abort
    <3> QED
      BY <2>7, <3>1 DEF StageFails, Abort, TypeOK, Transfers
  <2>8. ASSUME NEW s \in Sessions, Receive(s) PROVE TypeOK'
    <3>1. Append(job[s].data, s) \in Contents
      BY <2>0, <2>8, ContentsClosed DEF Receive, Transfers
    <3>2. job' \in [Sessions -> Transfers]
      BY <2>0, <2>8, <3>1 DEF Receive, Transfers
    <3> QED
      BY <2>8, <3>2 DEF Receive, TypeOK, Transfers
  <2>9. ASSUME NEW s \in Sessions, Commit(s) PROVE TypeOK'
    <3>1. \A t \in Sessions : Idle(t) \in BOOLEAN /\ [job[t] EXCEPT !.fresh = Idle(t)] \in Transfers
      BY <2>0 DEF Idle, Transfers
    <3>2. job' \in [Sessions -> Transfers]
      BY <2>9, <3>1, JobTypes DEF Commit
    <3>3. file' \in Contents
      BY <2>0, <2>9 DEF Commit, Changed, Transfers
    <3> QED
      BY <2>9, <3>2, <3>3 DEF Commit, Changed, TypeOK, Transfers
  <2>10. CASE Delete
    <3>1. \A t \in Sessions : Idle(t) \in BOOLEAN /\ [job[t] EXCEPT !.fresh = Idle(t)] \in Transfers
      BY <2>0 DEF Idle, Transfers
    <3>2. job' \in [Sessions -> Transfers]
      BY <2>10, <3>1 DEF Delete
    <3> QED
      BY <2>10, <3>2 DEF Delete, Changed, TypeOK, Transfers
  <2>11. CASE UNCHANGED vars
    BY <2>11 DEF vars, TypeOK
  <2> QED
    BY <2>1, <2>2, <2>3, <2>4, <2>5, <2>6, <2>7, <2>8, <2>9, <2>10, <2>11 DEF Next
<1> QED
  BY <1>1, <1>2, PTL DEF Spec

-----------------------------------------------------------------------------
(***************************************************************************)
(* Gaps                                                                    *)
(***************************************************************************)
NoHoles(d) == \A i \in DOMAIN d : d[i] # Hole

\* A resumed upload whose file has not changed since its size was checked.
StillFits(s) ==
  job[s].op \in {"stor", "appe"} /\ job[s].at > 0 /\ job[s].fresh =>
    job[s].exists /\ file # Absent /\ job[s].at <= Len(file)

\* Before the first race no file and no stage has a gap, and an offset that was
\* checked fits as long as the file is the one it was checked on.
HoleInv ==
  ~raced =>
    /\ file # Absent => NoHoles(file)
    /\ \A s \in Sessions : job[s].op = "receive" => NoHoles(job[s].data)
    /\ \A s \in Sessions : StillFits(s)

\* Transfers that end, and commands that stage nothing, make no gap.
LEMMA HoleFrame ==
  ASSUME TypeOK, HoleInv, file' = file, raced' = raced, NEW s \in Sessions,
         \A t \in Sessions \ {s} : job'[t] = job[t],
         job'[s].op \in {"none", "retr"} \/ job'[s] = job[s]
  PROVE  HoleInv'
BY DEF HoleInv, StillFits

\* A session without a transfer has nothing that could become stale.
LEMMA IdleStaysFresh == [NoJob EXCEPT !.fresh = TRUE] = NoJob
<1>1. NoJob \in Transfers /\ NoJob.fresh = TRUE
  BY JobTypes DEF NoJob, Job
<1>2. \A j \in Transfers : j.fresh = TRUE => [j EXCEPT !.fresh = TRUE] = j
  BY DEF Transfers
<1> QED
  BY <1>1, <1>2

\* Whatever replaces the file makes every check before it stale.
LEMMA HoleChange ==
  ASSUME TypeOK, HoleInv, raced' = raced,
         ~raced /\ file' # Absent => NoHoles(file'),
         \A t \in Sessions :
           \/ job'[t] = NoJob
           \/ job'[t] = [job[t] EXCEPT !.fresh = FALSE]
  PROVE  HoleInv'
<1> SUFFICES ASSUME ~raced, NEW t \in Sessions
             PROVE  /\ job'[t].op = "receive" => NoHoles(job'[t].data)
                    /\ StillFits(t)'
  BY DEF HoleInv
<1>1. CASE job'[t] = NoJob
  BY <1>1 DEF NoJob, Job, StillFits
<1>2. CASE job'[t] = [job[t] EXCEPT !.fresh = FALSE]
  <2>1. job'[t].op = job[t].op /\ job'[t].data = job[t].data /\ ~job'[t].fresh
    BY <1>2 DEF TypeOK
  <2> QED
    BY <2>1 DEF HoleInv, StillFits
<1> QED
  BY <1>1, <1>2

\* Only a race between the size check and the copy makes a gap.
LEMMA HoleStep ==
  ASSUME TypeOK, HoleInv, [Next]_vars
  PROVE  HoleInv'
<1> USE TransferConstants DEF client
<1>0. job \in [Sessions -> Transfers]
  BY DEF TypeOK, Transfers
<1>1. ASSUME NEW s \in Sessions, NEW n \in 0..MaxLen, Restart(s, n) \/ Deliver(s, n) PROVE HoleInv'
  <2>1. NoJob.op = "none"
    BY DEF NoJob, Job
  <2> QED
    BY <1>0, <1>1, <2>1, HoleFrame DEF Restart, Deliver, Ends
<1>2. ASSUME NEW s \in Sessions, Denied(s) \/ StageFails(s) \/ Abort(s) PROVE HoleInv'
  <2>1. NoJob.op = "none"
    BY DEF NoJob, Job
  <2> QED
    BY <1>0, <1>2, <2>1, HoleFrame DEF Denied, StageFails, Abort, Ends
<1>3. ASSUME NEW s \in Sessions, Retrieve(s) PROVE HoleInv'
  <2>1. /\ file' = file /\ raced' = raced
        /\ \A t \in Sessions \ {s} : job'[t] = job[t]
    BY <1>0, <1>3 DEF Retrieve
  <2>2. job'[s].op = "retr" \/ job'[s] = job[s]
    BY <1>0, <1>3 DEF Retrieve, Job
  <2> QED
    BY <2>1, <2>2, HoleFrame
<1>4. ASSUME NEW s \in Sessions, NEW op \in {"stor", "appe"}, Store(s, op) PROVE HoleInv'
  <2>1. /\ file' = file /\ raced' = raced
        /\ \A t \in Sessions \ {s} : job'[t] = job[t]
    BY <1>0, <1>4 DEF Store
  <2>2. CASE job' = job
    BY <2>1, <2>2, HoleFrame
  <2>3. CASE OffsetFits(s) /\ job' = [job EXCEPT ![s] = Job(op, rest[s], file # Absent, <<>>)]
    <3>1. /\ job'[s].op = op /\ job'[s].at = rest[s]
          /\ file # Absent => job'[s].exists
      BY <1>0, <2>3 DEF Job
    <3>2. StillFits(s)'
      <4>1. rest[s] > 0 => file # Absent /\ rest[s] <= Len(file)
        BY <2>3 DEF OffsetFits, From, TypeOK
      <4> QED
        BY <2>1, <3>1, <4>1 DEF StillFits
    <3> QED
      BY <2>1, <3>1, <3>2 DEF HoleInv, StillFits
  <2> QED
    BY <1>4, <2>2, <2>3 DEF Store
<1>5. ASSUME NEW s \in Sessions, StageCurrent(s) PROVE HoleInv'
  <2> DEFINE j == job[s]
             base == IF j.exists /\ (j.op = "appe" \/ j.at # -1) THEN file ELSE <<>>
             d == IF j.at # -1 THEN Truncated(base, j.at) ELSE base
  <2>1. /\ file' = file /\ base # Absent /\ j.op \in {"stor", "appe"}
        /\ job' = [job EXCEPT ![s].op = "receive", ![s].data = d]
        /\ raced' = (raced \/ (j.at > 0 /\ ~j.fresh))
    BY <1>5 DEF StageCurrent
  <2>2. /\ job'[s].op = "receive" /\ job'[s].data = d
        /\ \A t \in Sessions \ {s} : job'[t] = job[t]
    <3> HIDE DEF d
    <3> QED
      BY <1>0, <2>1 DEF Transfers
  <2>3. ASSUME ~raced, ~(j.at > 0 /\ ~j.fresh) PROVE NoHoles(d)
    <3>1. /\ j.at \in -1..MaxLen /\ j.exists \in BOOLEAN /\ j.fresh \in BOOLEAN
      BY <1>0 DEF Transfers
    <3>2. NoHoles(base)
      BY <2>1, <2>3 DEF HoleInv, NoHoles
    <3>3. CASE j.at = -1
      BY <3>2, <3>3
    <3>4. CASE j.at = 0
      BY <3>4 DEF Truncated, NoHoles
    <3>5. CASE j.at > 0
      <4>1. j.exists /\ file # Absent /\ j.at <= Len(file)
        BY <2>1, <2>3, <3>1, <3>5 DEF HoleInv, StillFits
      <4>2. base = file /\ file \in Seq(Bytes) /\ Len(file) \in Nat
        BY <3>1, <3>5, <4>1, ContentsAreBounded DEF TypeOK
      <4>3. d = Truncated(file, j.at)
        BY <3>1, <3>5, <4>2
      <4>4. \A i \in 1..j.at : Truncated(file, j.at)[i] = file[i] /\ i \in DOMAIN file
        BY <3>1, <3>5, <4>1, <4>2 DEF Truncated
      <4>5. DOMAIN Truncated(file, j.at) = 1..j.at
        BY DEF Truncated
      <4> HIDE DEF d, base
      <4> QED
        BY <3>2, <4>2, <4>3, <4>4, <4>5 DEF NoHoles
    <3> QED
      BY <3>1, <3>3, <3>4, <3>5
  <2> HIDE DEF d, base
  <2> QED
    BY <2>1, <2>2, <2>3 DEF HoleInv, StillFits
<1>6. ASSUME NEW s \in Sessions, Receive(s) PROVE HoleInv'
  <2>1. /\ file' = file /\ raced' = raced /\ job[s].op = "receive"
        /\ job'[s].op = "receive" /\ job'[s].data = Append(job[s].data, s)
        /\ \A t \in Sessions \ {s} : job'[t] = job[t]
    BY <1>0, <1>6 DEF Receive, Transfers
  <2>2. ASSUME NoHoles(job[s].data) PROVE NoHoles(job'[s].data)
    <3>1. job[s].data \in Seq(Bytes)
      BY <1>0, ContentsAreBounded DEF Transfers
    <3>2. s \in Bytes /\ s # Hole
      BY DEF Bytes
    <3> QED
      BY <2>1, <2>2, <3>1, <3>2 DEF NoHoles
  <2> QED
    BY <2>1, <2>2 DEF HoleInv, StillFits
<1>7. ASSUME NEW s \in Sessions, Commit(s) PROVE HoleInv'
  <2>1. \A t \in Sessions : job'[t] = NoJob \/ job'[t] = [job[t] EXCEPT !.fresh = FALSE]
    <3> SUFFICES ASSUME NEW t \in Sessions, t # s
                 PROVE  job'[t] = NoJob \/ job'[t] = [job[t] EXCEPT !.fresh = FALSE]
      BY <1>7 DEF Commit
    <3>1. job'[t] = [job[t] EXCEPT !.fresh = Idle(t)]
      BY <1>7 DEF Commit
    <3>2. Idle(t) => job'[t] = NoJob
      BY <3>1, IdleStaysFresh DEF Idle
    <3>3. ~Idle(t) => job'[t] = [job[t] EXCEPT !.fresh = FALSE]
      BY <3>1 DEF Idle
    <3> QED
      BY <3>2, <3>3
  <2>2. ~raced => NoHoles(file')
    BY <1>7 DEF Commit, Changed, HoleInv
  <2> QED
    BY <1>7, <2>1, <2>2, HoleChange DEF Commit
<1>8. CASE Delete
  <2>1. \A t \in Sessions : job'[t] = NoJob \/ job'[t] = [job[t] EXCEPT !.fresh = FALSE]
    <3> SUFFICES ASSUME NEW t \in Sessions
                 PROVE  job'[t] = NoJob \/ job'[t] = [job[t] EXCEPT !.fresh = FALSE]
      OBVIOUS
    <3>1. job'[t] = [job[t] EXCEPT !.fresh = Idle(t)]
      BY <1>8 DEF Delete
    <3>2. Idle(t) => job'[t] = NoJob
      BY <3>1, IdleStaysFresh DEF Idle
    <3>3. ~Idle(t) => job'[t] = [job[t] EXCEPT !.fresh = FALSE]
      BY <3>1 DEF Idle
    <3> QED
      BY <3>2, <3>3
  <2> QED
    BY <1>8, <2>1, HoleChange DEF Delete, Changed
<1>9. CASE UNCHANGED vars
  BY <1>9 DEF vars, HoleInv, StillFits
<1> QED
  BY <1>1, <1>2, <1>3, <1>4, <1>5, <1>6, <1>7, <1>8, <1>9 DEF Next

\* However many sessions append, resume, abort and delete, a file has zero bytes
\* that nobody sent only after the one race that the code leaves open: the
\* offset is checked against a Stat and applied to the file opened later.
THEOREM TransferHolesNeedRace == Spec => []HolesNeedRace
<1>1. Init => HoleInv
  BY DEF Init, HoleInv, NoHoles, StillFits, NoJob, Job
<1>2. TypeOK /\ HoleInv /\ [Next]_vars => HoleInv'
  BY HoleStep
<1>3. TypeOK /\ HoleInv => HolesNeedRace
  BY DEF HoleInv, NoHoles, HolesNeedRace, TypeOK
<1> QED
  BY <1>1, <1>2, <1>3, TransferTypes, PTL DEF Spec

-----------------------------------------------------------------------------
(***************************************************************************)
(* Resumed downloads                                                       *)
(***************************************************************************)

\* The session applies the offset its client has in mind, unless a refused
\* transfer left one behind.
OffsetKnown == \A s \in Sessions : ~refused[s] => rest[s] = asked[s]

Begins(g, f) == Len(g) <= Len(f) /\ \A i \in 1..Len(g) : g[i] = f[i]

Continues(d, g, f) ==
  Len(d) = Len(f) - Len(g) /\ \A i \in 1..Len(d) : d[i] = f[Len(g) + i]

\* A client that is still on the file it began with has its beginning, and what
\* is being sent to it is what follows.
ResumeInv ==
  \A s \in Sessions : same[s] =>
    /\ file \in Contents
    /\ Begins(got[s], file)
    /\ job[s].op = "retr" => Continues(job[s].data, got[s], file)

\* What has been sent of the bytes d when the connection is lost after n.
LEMMA FirstBytes ==
  ASSUME NEW d \in Seq(Bytes), NEW n \in Nat, n <= Len(d)
  PROVE  /\ SubSeq(d, 1, n) \in Seq(Bytes) /\ Len(SubSeq(d, 1, n)) = n
         /\ \A i \in 1..n : SubSeq(d, 1, n)[i] = d[i]
OBVIOUS

\* Bytes that follow make a longer beginning.
LEMMA BeginsLonger ==
  ASSUME NEW f \in Seq(Bytes), NEW g \in Seq(Bytes), NEW d \in Seq(Bytes), NEW e \in Seq(Bytes),
         Len(e) <= Len(d), \A i \in 1..Len(e) : e[i] = d[i],
         Begins(g, f), Continues(d, g, f)
  PROVE  Begins(g \o e, f)
<1>1. Len(g \o e) = Len(g) + Len(e) /\ Len(g) + Len(e) <= Len(f)
  BY DEF Continues
<1>2. ASSUME NEW i \in 1..(Len(g) + Len(e)) PROVE (g \o e)[i] = f[i]
  <2>1. CASE i <= Len(g)
    BY <2>1 DEF Begins
  <2>2. CASE i > Len(g)
    <3>1. PICK k \in 1..Len(e) : i = Len(g) + k
      <4>1. i - Len(g) \in 1..Len(e) /\ i = Len(g) + (i - Len(g))
        BY <2>2
      <4> QED
        BY <4>1
    <3>2. (g \o e)[i] = e[k]
      BY <3>1
    <3>3. k \in 1..Len(d) /\ d[k] = f[i]
      BY <3>1 DEF Continues
    <3> QED
      BY <3>2, <3>3
  <2> QED
    BY <2>1, <2>2
<1> QED
  BY <1>1, <1>2 DEF Begins

\* Seeking to where the beginning ends leaves what follows.
LEMMA SeekContinues ==
  ASSUME NEW f \in Seq(Bytes), NEW g \in Seq(Bytes), Len(g) <= Len(f)
  PROVE  Continues(SubSeq(f, Len(g) + 1, Len(f)), g, f)
<1>1. /\ Len(SubSeq(f, Len(g) + 1, Len(f))) = Len(f) - Len(g)
      /\ \A i \in 1..(Len(f) - Len(g)) : SubSeq(f, Len(g) + 1, Len(f))[i] = f[Len(g) + i]
  OBVIOUS
<1> QED
  BY <1>1 DEF Continues

\* The beginning in the sense of IsPrefix.
LEMMA BeginsIsPrefix ==
  ASSUME NEW f \in Seq(Bytes), NEW g \in Seq(Bytes), Begins(g, f)
  PROVE  IsPrefix(g, f)
<1>1. SubSeq(g, 1, Len(g)) = SubSeq(f, 1, Len(g))
  BY DEF Begins
<1> QED
  BY <1>1 DEF IsPrefix, Begins

\* Steps that change neither the file nor what a client has or is being sent.
LEMMA ResumeFrame ==
  ASSUME TypeOK, ResumeInv, file' = file, same' = same, got' = got, NEW s \in Sessions,
         \A t \in Sessions \ {s} : job'[t] = job[t],
         job'[s].op # "retr" \/ job'[s] = job[s]
  PROVE  ResumeInv'
BY DEF ResumeInv

\* An offset of one transfer is never applied to another.
LEMMA ResumeStep ==
  ASSUME TypeOK, OffsetKnown, ResumeInv, [Next]_vars
  PROVE  (OffsetKnown /\ ResumeInv)'
<1> USE TransferConstants DEF client
<1>0. job \in [Sessions -> Transfers]
  BY DEF TypeOK, Transfers
<1>1. NoJob.op = "none"
  BY DEF NoJob, Job
<1>2. ASSUME NEW s \in Sessions, NEW n \in 0..MaxLen, Restart(s, n)
      PROVE  (OffsetKnown /\ ResumeInv)'
  <2>1. OffsetKnown'
    BY <1>2 DEF Restart, OffsetKnown, TypeOK
  <2>2. ResumeInv'
    BY <1>2, ResumeFrame DEF Restart
  <2> QED
    BY <2>1, <2>2
<1>3. ASSUME NEW s \in Sessions, NEW n \in 0..MaxLen, Deliver(s, n)
      PROVE  (OffsetKnown /\ ResumeInv)'
  <2>1. OffsetKnown'
    BY <1>3 DEF Deliver, OffsetKnown
  <2>2. /\ job[s].op = "retr" /\ job'[s] = NoJob /\ n <= Len(job[s].data)
        /\ file' = file /\ same' = same
        /\ got'[s] = got[s] \o SubSeq(job[s].data, 1, n)
        /\ \A t \in Sessions \ {s} : job'[t] = job[t] /\ got'[t] = got[t]
    BY <1>0, <1>3 DEF Deliver, Ends, TypeOK
  <2>3. ASSUME same[s] PROVE Begins(got'[s], file)
    <3>1. /\ file \in Seq(Bytes) /\ got[s] \in Seq(Bytes) /\ job[s].data \in Seq(Bytes)
      BY <1>0, <2>3, ContentsAreBounded DEF TypeOK, Transfers, ResumeInv
    <3>2. Begins(got[s], file) /\ Continues(job[s].data, got[s], file)
      BY <2>2, <2>3 DEF ResumeInv
    <3>3. PICK e \in Seq(Bytes) : /\ e = SubSeq(job[s].data, 1, n)
                                  /\ Len(e) <= Len(job[s].data)
                                  /\ \A i \in 1..Len(e) : e[i] = job[s].data[i]
      <4>1. /\ SubSeq(job[s].data, 1, n) \in Seq(Bytes)
            /\ Len(SubSeq(job[s].data, 1, n)) = n
            /\ \A i \in 1..n : SubSeq(job[s].data, 1, n)[i] = job[s].data[i]
        BY <2>2, <3>1, FirstBytes
      <4> QED
        BY <2>2, <4>1
    <3>4. Begins(got[s] \o e, file)
      BY <3>1, <3>2, <3>3, BeginsLonger
    <3> QED
      BY <2>2, <3>3, <3>4
  <2>4. ResumeInv'
    BY <1>1, <2>2, <2>3 DEF ResumeInv
  <2> QED
    BY <2>1, <2>4
<1>4. ASSUME NEW s \in Sessions, Denied(s) PROVE (OffsetKnown /\ ResumeInv)'
  <2>1. OffsetKnown'
    BY <1>4 DEF Denied, OffsetKnown, TypeOK
  <2>2. ResumeInv'
    BY <1>4, ResumeFrame DEF Denied
  <2> QED
    BY <2>1, <2>2
<1>5. ASSUME NEW s \in Sessions, Retrieve(s) PROVE (OffsetKnown /\ ResumeInv)'
  <2>1. OffsetKnown'
    BY <1>5 DEF Retrieve, ConsumeRestart, OffsetKnown, TypeOK
  <2>2. CASE UNCHANGED <<job, got, same>>
    BY <1>5, <2>1, <2>2, ResumeFrame DEF Retrieve
  <2>3. CASE file # Absent /\ From(s) <= Len(file)
    <3>1. /\ asked[s] \in {-1, Len(got[s])}
          /\ file' = file /\ file \in Contents
          /\ job'[s] = Job("retr", rest[s], TRUE, SubSeq(file, From(s) + 1, Len(file)))
          /\ got' = IF asked[s] = -1 THEN [got EXCEPT ![s] = <<>>] ELSE got
          /\ same'[s] => ~refused[s] /\ (asked[s] <= 0 \/ same[s])
          /\ \A t \in Sessions \ {s} : job'[t] = job[t] /\ same'[t] = same[t]
      BY <1>0, <1>5, <2>3 DEF Retrieve, TypeOK
    <3>2. /\ job'[s].op = "retr"
          /\ job'[s].data = SubSeq(file, From(s) + 1, Len(file))
      <4> DEFINE d == SubSeq(file, From(s) + 1, Len(file))
      <4>1. job'[s] = Job("retr", rest[s], TRUE, d)
        BY <3>1
      <4> HIDE DEF d
      <4>2. job'[s].op = "retr" /\ job'[s].data = d
        BY <4>1 DEF Job
      <4> QED
        BY <4>2 DEF d
    <3>3. /\ \A t \in Sessions \ {s} : got'[t] = got[t]
          /\ got'[s] = IF asked[s] = -1 THEN <<>> ELSE got[s]
      BY <3>1 DEF TypeOK
    <3>4. /\ got[s] \in Seq(Bytes) /\ file \in Seq(Bytes)
          /\ asked[s] \in Int /\ rest[s] \in Int
      BY <3>1, ContentsAreBounded DEF TypeOK
    <3>5. ASSUME same'[s]
          PROVE  /\ got'[s] \in Seq(Bytes) /\ From(s) = Len(got'[s])
                 /\ Begins(got'[s], file)
      <4>1. rest[s] = asked[s]
        BY <3>1, <3>5 DEF OffsetKnown
      <4>2. CASE asked[s] = -1
        BY <3>3, <3>4, <4>1, <4>2 DEF From, Begins
      <4>3. CASE asked[s] = 0
        <5>1. Len(got[s]) = 0 /\ got'[s] = got[s]
          BY <3>1, <3>3, <4>3
        <5> QED
          BY <3>4, <4>1, <4>3, <5>1 DEF From, Begins
      <4>4. CASE asked[s] > 0
        <5>1. got'[s] = got[s] /\ asked[s] = Len(got[s]) /\ same[s]
          BY <3>1, <3>3, <3>4, <3>5, <4>4
        <5> QED
          BY <3>4, <4>1, <4>4, <5>1 DEF From, ResumeInv
      <4> QED
        BY <3>1, <3>4, <4>2, <4>3, <4>4
    <3>6. ASSUME same'[s] PROVE Continues(job'[s].data, got'[s], file)
      BY <2>3, <3>2, <3>4, <3>5, <3>6, SeekContinues
    <3>7. ResumeInv'
      BY <3>1, <3>2, <3>3, <3>5, <3>6 DEF ResumeInv
    <3> QED
      BY <2>1, <3>7
  <2> QED
    BY <1>5, <2>2, <2>3 DEF Retrieve
<1>6. ASSUME NEW s \in Sessions, NEW op \in {"stor", "appe"}, Store(s, op)
      PROVE  (OffsetKnown /\ ResumeInv)'
  <2>1. OffsetKnown'
    BY <1>6 DEF Store, ConsumeRestart, OffsetKnown, TypeOK
  <2>2. /\ file' = file /\ same' = same /\ got' = got
        /\ \A t \in Sessions \ {s} : job'[t] = job[t]
    BY <1>0, <1>6 DEF Store
  <2>3. job'[s].op # "retr" \/ job'[s] = job[s]
    BY <1>0, <1>6 DEF Store, Job
  <2> QED
    BY <2>1, <2>2, <2>3, ResumeFrame
<1>7. ASSUME NEW s \in Sessions, StageCurrent(s) \/ Receive(s)
      PROVE  (OffsetKnown /\ ResumeInv)'
  <2>1. OffsetKnown'
    BY <1>7 DEF StageCurrent, Receive, OffsetKnown
  <2>2. /\ file' = file /\ same' = same /\ got' = got
        /\ \A t \in Sessions \ {s} : job'[t] = job[t]
    BY <1>0, <1>7 DEF StageCurrent, Receive
  <2>3. job'[s].op = "receive"
    BY <1>0, <1>7 DEF StageCurrent, Receive, Transfers
  <2> QED
    BY <2>1, <2>2, <2>3, ResumeFrame
<1>8. ASSUME NEW s \in Sessions, StageFails(s) \/ Abort(s)
      PROVE  (OffsetKnown /\ ResumeInv)'
  <2>1. OffsetKnown'
    BY <1>8 DEF StageFails, Abort, OffsetKnown
  <2> QED
    BY <1>0, <1>1, <1>8, <2>1, ResumeFrame DEF StageFails, Abort, Ends
<1>9. ASSUME (\E s \in Sessions : Commit(s)) \/ Delete PROVE (OffsetKnown /\ ResumeInv)'
  <2>1. /\ same' = [t \in Sessions |-> FALSE]
        /\ UNCHANGED <<rest, asked, refused>>
    BY <1>9 DEF Commit, Delete, Changed
  <2> QED
    BY <2>1 DEF OffsetKnown, ResumeInv
<1>10. CASE UNCHANGED vars
  BY <1>10 DEF vars, OffsetKnown, ResumeInv
<1> QED
  BY <1>2, <1>3, <1>4, <1>5, <1>6, <1>7, <1>8, <1>9, <1>10 DEF Next

\* What a client assembles by resuming is the beginning of the file, for any
\* sequence of broken, refused, resumed and concurrent transfers, as long as the
\* file is the one it began with and no refused transfer left its offset behind.
THEOREM TransferResumedDownload == Spec => []ResumedDownload
<1>1. Init => OffsetKnown /\ ResumeInv
  BY DEF Init, OffsetKnown, ResumeInv
<1>2. TypeOK /\ OffsetKnown /\ ResumeInv /\ [Next]_vars => (OffsetKnown /\ ResumeInv)'
  BY ResumeStep
<1>3. TypeOK /\ ResumeInv => ResumedDownload
  <2> SUFFICES ASSUME TypeOK, ResumeInv, NEW s \in Sessions, same[s]
               PROVE  IsPrefix(got[s], file)
    BY DEF ResumedDownload
  <2>1. got[s] \in Seq(Bytes) /\ file \in Seq(Bytes) /\ Begins(got[s], file)
    BY ContentsAreBounded DEF TypeOK, ResumeInv
  <2> QED
    BY <2>1, BeginsIsPrefix
<1> QED
  BY <1>1, <1>2, <1>3, TransferTypes, PTL DEF Spec
=============================================================================
