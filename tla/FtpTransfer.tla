----------------------------- MODULE FtpTransfer -----------------------------
(***************************************************************************)
(* REST, RETR, STOR and APPE of internal/ftpserver on one path, with the   *)
(* bytes of the file: where a resumed transfer begins, what an append or a *)
(* resumed upload is built on, and what a client that resumes puts         *)
(* together.                                                               *)
(*                                                                         *)
(* ReplaceFile and Trash are one step here (Storage implements that), so a *)
(* file that is open stays as it was; commands take the transfer's session *)
(* as given (FtpSession) and its data connection too (PassivePorts).       *)
(***************************************************************************)
EXTENDS Integers, SequencesExt

CONSTANTS
  Sessions,   \* control connections
  Hole,       \* the zero byte that fills a gap in a file
  Absent,     \* the path holds no file
  MaxLen      \* bound on the bytes of a file

ASSUME TransferConstants ==
  /\ Hole \notin Sessions
  /\ MaxLen \in Nat

VARIABLES
  file,     \* what the path holds
  rest,     \* rest[s]: session.restartOffset, -1 when restartSet is false
  job,      \* job[s]: the transfer of session s
  asked,    \* asked[s]: the offset client s sent since its last transfer, or -1
  got,      \* got[s]: what client s has put together by downloading
  same,     \* same[s]: history, the file is the one client s began to download
  refused,  \* refused[s]: history, a transfer was refused before it took rest[s]
  raced     \* history: a resumed upload was staged after the file had changed

client == <<asked, got, same, refused>>
vars == <<file, rest, job, client, raced>>

Bytes == Sessions \cup {Hole}
Contents == UNION {[1..n -> Bytes] : n \in 0..MaxLen}

\* at is the restart offset, -1 for a transfer from the beginning; exists is what
\* the Stat said, and fresh (history) that it is still true; data is the staged
\* file or what is read from the open one.
Job(op, at, exists, data) ==
  [op |-> op, at |-> at, exists |-> exists, fresh |-> TRUE, data |-> data]
NoJob == Job("none", -1, FALSE, <<>>)

TypeOK ==
  /\ file \in Contents \cup {Absent}
  /\ rest \in [Sessions -> -1..MaxLen]
  /\ job \in [Sessions -> [op : {"none", "retr", "stor", "appe", "receive"},
                           at : -1..MaxLen, exists : BOOLEAN, fresh : BOOLEAN,
                           data : Contents]]
  /\ got \in [Sessions -> Contents]
  /\ asked \in [Sessions -> -1..MaxLen]
  /\ same \in [Sessions -> BOOLEAN]
  /\ refused \in [Sessions -> BOOLEAN]
  /\ raced \in BOOLEAN

Init ==
  /\ file \in Contents \cup {Absent}
  /\ file # Absent => \A i \in DOMAIN file : file[i] # Hole
  /\ rest = [s \in Sessions |-> -1]
  /\ job = [s \in Sessions |-> NoJob]
  /\ got = [s \in Sessions |-> <<>>]
  /\ asked = [s \in Sessions |-> -1]
  /\ same = [s \in Sessions |-> FALSE]
  /\ refused = [s \in Sessions |-> FALSE]
  /\ raced = FALSE

-----------------------------------------------------------------------------
Idle(s) == job[s] = NoJob

\* The replies 503, 550 and 554, and 226 and 426: the session is ready again.
Ends(s) == job' = [job EXCEPT ![s] = NoJob]

From(s) == IF rest[s] = -1 THEN 0 ELSE rest[s]

\* REST: any offset is taken, whatever the file.
Restart(s, n) ==
  /\ Idle(s)
  /\ rest' = [rest EXCEPT ![s] = n]
  /\ asked' = [asked EXCEPT ![s] = n]
  /\ refused' = [refused EXCEPT ![s] = FALSE]
  /\ UNCHANGED <<file, job, got, same, raced>>

\* Mutant of ConsumeRestart: the offset stays for the next transfer.
ConsumeRestartKeeps(s) ==
  /\ UNCHANGED rest
  /\ asked' = [asked EXCEPT ![s] = -1]
  /\ refused' = [refused EXCEPT ![s] = FALSE]

ConsumeRestart(s) ==
  /\ rest' = [rest EXCEPT ![s] = -1]
  /\ asked' = [asked EXCEPT ![s] = -1]
  /\ refused' = [refused EXCEPT ![s] = FALSE]

\* requireAuthPerm refuses RETR, STOR or APPE: the offset is not consumed.
Denied(s) ==
  /\ Idle(s)
  /\ asked' = [asked EXCEPT ![s] = -1]
  /\ refused' = [refused EXCEPT ![s] = rest[s] # -1]
  /\ UNCHANGED <<file, rest, job, got, same, raced>>

\* RETR opens the file and seeks in it.  The client either begins anew or
\* asked for what it is missing.
Retrieve(s) ==
  /\ Idle(s)
  /\ asked[s] \in {-1, Len(got[s])}
  /\ ConsumeRestart(s)
  /\ IF file # Absent /\ From(s) <= Len(file)
       THEN /\ job' = [job EXCEPT ![s] = Job("retr", rest[s], TRUE, SubSeq(file, From(s) + 1, Len(file)))]
            /\ got' = IF asked[s] = -1 THEN [got EXCEPT ![s] = <<>>] ELSE got
            /\ same' = [same EXCEPT ![s] = ~refused[s] /\ (asked[s] <= 0 \/ same[s])]
       ELSE UNCHANGED <<job, got, same>>
  /\ UNCHANGED <<file, raced>>

\* io.Copy has moved n bytes to the client: all of them, or the connection
\* is lost before.
Deliver(s, n) ==
  /\ job[s].op = "retr"
  /\ n <= Len(job[s].data)
  /\ Len(got[s]) + n <= MaxLen
  /\ got' = [got EXCEPT ![s] = got[s] \o SubSeq(job[s].data, 1, n)]
  /\ Ends(s)
  /\ UNCHANGED <<file, rest, asked, same, refused, raced>>

-----------------------------------------------------------------------------
\* Mutant of OffsetFits: the size is not looked at.
OffsetFitsAny(s) == From(s) > 0 => file # Absent

\* 550 "Resume target unavailable", 554 "Restart offset exceeds file size".
OffsetFits(s) == From(s) > 0 => file # Absent /\ From(s) <= Len(file)

\* STOR and APPE up to createStagedUpload: the Stat and the checks.
Store(s, op) ==
  /\ Idle(s)
  /\ ConsumeRestart(s)
  /\ IF OffsetFits(s) /\ ~(op = "appe" /\ rest[s] # -1)
       THEN job' = [job EXCEPT ![s] = Job(op, rest[s], file # Absent, <<>>)]
       ELSE UNCHANGED job
  /\ UNCHANGED <<file, got, same, raced>>

\* Truncate(n): what is missing reads as zero.
Truncated(d, n) == [i \in 1..n |-> IF i <= Len(d) THEN d[i] ELSE Hole]

\* The current file is opened and copied into the stage, then cut.
StageCurrent(s) ==
  LET j == job[s]
      base == IF j.exists /\ (j.op = "appe" \/ j.at # -1) THEN file ELSE <<>> IN
  /\ j.op \in {"stor", "appe"}
  /\ base # Absent
  /\ job' = [job EXCEPT ![s].op = "receive",
                        ![s].data = IF j.at # -1 THEN Truncated(base, j.at) ELSE base]
  /\ raced' = (raced \/ (j.at > 0 /\ ~j.fresh))
  /\ UNCHANGED <<file, rest, client>>

\* 550: the stage cannot be made, or the current file cannot be read, which may
\* have been removed since the Stat.
StageFails(s) ==
  /\ job[s].op \in {"stor", "appe"}
  /\ Ends(s)
  /\ UNCHANGED <<file, rest, client, raced>>

\* The client of s sends its bytes, each marked with s.
Receive(s) ==
  /\ job[s].op = "receive"
  /\ Len(job[s].data) < MaxLen
  /\ job' = [job EXCEPT ![s].data = Append(job[s].data, s)]
  /\ UNCHANGED <<file, rest, client, raced>>

\* 425, 426 or 451: no data connection, a lost one, or ReplaceFile fails.  The
\* staged file is removed.
Abort(s) ==
  /\ job[s].op = "receive"
  /\ Ends(s)
  /\ UNCHANGED <<file, rest, client, raced>>

\* What the path holds is no longer what anybody found there.
Changed(d) ==
  /\ file' = d
  /\ same' = [s \in Sessions |-> FALSE]

\* 226: ReplaceFile.
Commit(s) ==
  /\ job[s].op = "receive"
  /\ Changed(job[s].data)
  /\ job' = [t \in Sessions |-> IF t = s THEN NoJob ELSE [job[t] EXCEPT !.fresh = Idle(t)]]
  /\ UNCHANGED <<rest, asked, got, refused, raced>>

\* DELE, or a delete from the admin pages.
Delete ==
  /\ file # Absent
  /\ Changed(Absent)
  /\ job' = [t \in Sessions |-> [job[t] EXCEPT !.fresh = Idle(t)]]
  /\ UNCHANGED <<rest, asked, got, refused, raced>>

Next ==
  \/ \E s \in Sessions :
       \/ \E n \in 0..MaxLen : Restart(s, n) \/ Deliver(s, n)
       \/ Denied(s) \/ Retrieve(s)
       \/ \E op \in {"stor", "appe"} : Store(s, op)
       \/ StageCurrent(s) \/ StageFails(s) \/ Receive(s) \/ Abort(s) \/ Commit(s)
  \/ Delete

Spec == Init /\ [][Next]_vars

-----------------------------------------------------------------------------
\* What a client has put together by downloading and resuming is the beginning
\* of the file, unless the file was replaced since the client began, or a
\* transfer was refused for lack of permission and its offset left behind: no
\* offset of an earlier, failed or aborted transfer is applied to a later one.
ResumedDownload ==
  \A s \in Sessions : same[s] => IsPrefix(got[s], file)

\* A file has a gap that nobody sent only if it was replaced or removed between
\* the size check of a resumed upload and the copy it builds on: the check is
\* made on the file that was there before.
HolesNeedRace ==
  file # Absent /\ (\E i \in DOMAIN file : file[i] = Hole) => raced
=============================================================================
