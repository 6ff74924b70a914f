------------------------------- MODULE Storage -------------------------------
(***************************************************************************)
(* The file operations of internal/storage/storage.go and the request      *)
(* handlers of internal/ftpserver and internal/httpapi that call them.     *)
(*                                                                         *)
(* A handler is a goroutine serving one FTP command or one HTTP request.   *)
(* Every call of a handler that reads or changes the shared tree is a step *)
(* of its own.  Only ReplaceFile and InstallFile hold Root.mutationMu.     *)
(*                                                                         *)
(* Abstractions: a path is an opaque name and a directory has no children  *)
(* (parents always exist, so MkdirAllParent changes nothing); the bytes of *)
(* a file are one token; file modes are left out.                          *)
(***************************************************************************)
EXTENDS FiniteSets

CONSTANTS
  Procs,     \* handlers that can be in progress at once
  Paths,     \* destination paths inside the storage root
  Data,      \* byte contents clients can send
  Ids,       \* ids of retained entries (time stamp and actor), used once
  Nil,       \* "no handler", "no path", "no data", "no id"
  Handlers,  \* the operations the workload issues
  Faults,    \* the failures the operating system reports
  Monitor    \* the paths under /_monitor

AllHandlers == {"upload", "install", "trash", "mkdir", "monitor", "rename",
                "move", "copy", "restore"}
AllFaults == {"stat", "copy", "meta", "unlink", "write", "remove",
              "stalled", "crash"}

ASSUME StorageConstants ==
  /\ Nil \notin Procs \cup Paths \cup Data \cup Ids
  /\ Handlers \subseteq AllHandlers
  /\ Faults \subseteq AllFaults
  /\ Monitor \subseteq Paths

VARIABLES
  live,    \* live[q]: what the path q holds
  kept,    \* kept[i]: the retained entry i, in the trash or the versions
  staged,  \* the files under ._macftpd_uploads, each named by its contents
  mu,      \* holder of Root.mutationMu
  pc,      \* pc[p]: the next step of handler p
  job,     \* job[p]: the request handler p serves and its local variables
  acked,   \* history: contents some upload has put in place
  purged   \* history: contents a monitor cleanup removed on purpose

vars == <<live, kept, staged, mu, pc, job, acked, purged>>

-----------------------------------------------------------------------------
(***************************************************************************)
(* What a name of the file system can hold.  A "part" is a file that an    *)
(* admin copy of handler data is writing in place; "torn" is what a copy   *)
(* that never finished left behind.                                        *)
(***************************************************************************)
None == [kind |-> "none", data |-> Nil]
Dir == [kind |-> "dir", data |-> Nil]
Torn == [kind |-> "torn", data |-> Nil]
File(d) == [kind |-> "file", data |-> d]
Part(p) == [kind |-> "part", data |-> p]

Entries == {None, Dir, Torn} \cup {File(d) : d \in Data} \cup {Part(p) : p \in Procs}

IsFile(e) == e.kind \in {"file", "part", "torn"}

\* What a reader that copies the entry e ends up with.
ReadOf(e) == IF e.kind = "part" THEN Torn ELSE e

\* rename(2): e may take the place of t.
CanReplace(e, t) == t = None \/ (e = Dir <=> t = Dir)

Renamed(f, s, t) == IF s = t THEN f ELSE [f EXCEPT ![t] = f[s], ![s] = None]

\* A slot is unlisted while retain has not yet written its metadata, an orphan
\* once a crash has cut that short, and emptied when a restore has moved the
\* payload out and the metadata is still there.
Slots == [path : Paths \cup {Nil}, payload : Entries,
          state : {"unused", "unlisted", "orphan", "listed", "emptied", "gone"}]

UnusedSlot == [path |-> Nil, payload |-> None, state |-> "unused"]
GoneSlot == [path |-> Nil, payload |-> None, state |-> "gone"]

FreshIds == {i \in Ids : kept[i].state = "unused"}

Steps == {"idle", "receive", "commit", "version", "meta", "swap", "unlink", "rnto",
          "rename", "open", "write", "clear", "place", "forget"}

Job(op, q, s, d, ow, i) ==
  [op |-> op, path |-> q, src |-> s, data |-> d, ow |-> ow, id |-> i, from |-> None]

NoJob == Job("none", Nil, Nil, Nil, FALSE, Nil)

Jobs == [op : AllHandlers \cup {"none"}, path : Paths \cup {Nil},
         src : Paths \cup {Nil}, data : Data \cup {Nil}, ow : BOOLEAN,
         id : Ids \cup {Nil}, from : Entries]

TypeOK ==
  /\ live \in [Paths -> Entries]
  /\ kept \in [Ids -> Slots]
  /\ staged \in SUBSET Data
  /\ mu \in Procs \cup {Nil}
  /\ pc \in [Procs -> Steps]
  /\ job \in [Procs -> Jobs]
  /\ acked \in SUBSET Data
  /\ purged \in SUBSET Data

\* The daemon starts on whatever tree the last run left: any mixture of absent
\* paths, directories and files with distinct contents.
Init ==
  /\ live \in [Paths -> {None, Dir} \cup {File(d) : d \in Data}]
  /\ \A q, r \in Paths : live[q].kind = "file" /\ live[q] = live[r] => q = r
  /\ kept = [i \in Ids |-> UnusedSlot]
  /\ staged = {}
  /\ mu = Nil
  /\ pc = [p \in Procs |-> "idle"]
  /\ job = [p \in Procs |-> NoJob]
  /\ acked = {live[q].data : q \in {r \in Paths : live[r].kind = "file"}}
  /\ purged = {}

-----------------------------------------------------------------------------
(***************************************************************************)
(* Parts of actions                                                        *)
(***************************************************************************)
Goto(p, step) == pc' = [pc EXCEPT ![p] = step]

\* The handler returns: its deferred calls have run.
Return(p) ==
  /\ pc' = [pc EXCEPT ![p] = "idle"]
  /\ job' = [job EXCEPT ![p] = NoJob]

Unlock(p) == mu' = IF mu = p THEN Nil ELSE mu

\* The deferred root.Remove(stagedPath) of every upload handler.
RemoveStaged(p) == staged' = staged \ {job[p].data}

Start(p, op, step, newJob) ==
  /\ pc[p] = "idle"
  /\ op \in Handlers
  /\ pc' = [pc EXCEPT ![p] = step]
  /\ job' = [job EXCEPT ![p] = newJob]

-----------------------------------------------------------------------------
(***************************************************************************)
(* Uploads: FTP STOR and APPE, HTTP upload, drop links, remote pull.       *)
(***************************************************************************)

\* createStagedUpload: a file of its own for contents nobody has sent before.
Stage(p, op, q) ==
  \E d \in Data \ (acked \cup staged \cup {job[r].data : r \in Procs}) :
    /\ Start(p, op, "receive", Job(op, q, Nil, d, FALSE, Nil))
    /\ staged' = staged \cup {d}
    /\ UNCHANGED <<live, kept, mu, acked, purged>>

\* STOR and APPE refuse a directory before anything is staged.  What APPE and
\* REST copy from the current file is part of the contents d.
FtpStore(p) == \E q \in Paths : live[q] # Dir /\ Stage(p, "upload", q)

HttpUpload(p) == \E q \in Paths : Stage(p, "upload", q)

\* A drop link replaces only if it allows overwriting.
DropLink(p) == \E q \in Paths, op \in {"upload", "install"} : Stage(p, op, q)

RemotePull(p) == \E q \in Paths : Stage(p, "upload", q)

StageUpload(p) == FtpStore(p) \/ HttpUpload(p) \/ DropLink(p) \/ RemotePull(p)

\* The client goes away, or the data cannot be written: reply 426 or 500.
AbortUpload(p) ==
  /\ pc[p] = "receive"
  /\ RemoveStaged(p)
  /\ Return(p)
  /\ UNCHANGED <<live, kept, mu, acked, purged>>

\* The staged file is complete and closed; mutationMu comes next.
ReceiveAll(p) ==
  /\ pc[p] = "receive"
  /\ Goto(p, "commit")
  /\ UNCHANGED <<live, kept, staged, mu, job, acked, purged>>

\* Mutant of ReplaceFile: mutationMu is not awaited.
ReplaceFileNoLock(p) ==
  /\ pc[p] = "commit" /\ job[p].op = "upload"
  /\ mu' = p
  /\ \/ live[job[p].path] = None /\ Goto(p, "swap")
     \/ IsFile(live[job[p].path]) /\ Goto(p, "version")
  /\ UNCHANGED <<live, kept, staged, job, acked, purged>>

\* ReplaceFile up to its Stat of the destination, with mutationMu taken.
ReplaceFile(p) ==
  /\ pc[p] = "commit" /\ job[p].op = "upload"
  /\ mu = Nil
  /\ mu' = p
  /\ \/ live[job[p].path] = None /\ Goto(p, "swap")
     \/ IsFile(live[job[p].path]) /\ Goto(p, "version")
  /\ UNCHANGED <<live, kept, staged, job, acked, purged>>

\* Mutant of ReplaceRefused: the error return keeps mutationMu.
ReplaceRefusedKeepsLock(p) ==
  /\ pc[p] = "commit" /\ job[p].op = "upload"
  /\ mu = Nil
  /\ live[job[p].path] = Dir \/ "stat" \in Faults
  /\ mu' = p
  /\ RemoveStaged(p)
  /\ Return(p)
  /\ UNCHANGED <<live, kept, acked, purged>>

\* ReplaceFile refuses a directory, and a Stat that fails for another reason.
ReplaceRefused(p) ==
  /\ pc[p] = "commit" /\ job[p].op = "upload"
  /\ mu = Nil
  /\ live[job[p].path] = Dir \/ "stat" \in Faults
  /\ RemoveStaged(p)
  /\ Return(p)
  /\ UNCHANGED <<live, kept, mu, acked, purged>>

\* Mutant of Swap: the arguments of Rename are exchanged.
SwapBackwards(p) ==
  LET q == job[p].path IN
  /\ pc[p] = "swap"
  /\ live' = [live EXCEPT ![q] = None]
  /\ staged' = (staged \ {job[p].data}) \cup {live[q]}
  /\ acked' = acked \cup {job[p].data}
  /\ Unlock(p)
  /\ Return(p)
  /\ UNCHANGED <<kept, purged>>

\* The Rename at the end of ReplaceFile, and its deferred Unlock.  The Rename
\* fails when the sweep has taken the staged file.
Swap(p) ==
  LET q == job[p].path  d == job[p].data IN
  /\ pc[p] = "swap"
  /\ IF d \in staged /\ CanReplace(File(d), live[q])
       THEN live' = [live EXCEPT ![q] = File(d)] /\ acked' = acked \cup {d}
       ELSE UNCHANGED <<live, acked>>
  /\ RemoveStaged(p)
  /\ Unlock(p)
  /\ Return(p)
  /\ UNCHANGED <<kept, purged>>

\* Mutant of InstallFile: a rename, which replaces, in place of the Link.
InstallFileReplaces(p) ==
  LET q == job[p].path IN
  /\ pc[p] = "commit" /\ job[p].op = "install"
  /\ mu = Nil
  /\ live' = [live EXCEPT ![q] = File(job[p].data)]
  /\ mu' = p
  /\ Goto(p, "unlink")
  /\ UNCHANGED <<kept, staged, job, acked, purged>>

\* InstallFile up to its Link, which fails when the destination exists, or the
\* staged file does not.
InstallFile(p) ==
  LET q == job[p].path IN
  /\ pc[p] = "commit" /\ job[p].op = "install"
  /\ mu = Nil
  /\ \/ /\ live[q] = None /\ job[p].data \in staged
        /\ live' = [live EXCEPT ![q] = File(job[p].data)]
        /\ mu' = p
        /\ Goto(p, "unlink")
        /\ UNCHANGED <<staged, job>>
     \/ /\ live[q] # None \/ job[p].data \notin staged
        /\ RemoveStaged(p)
        /\ Return(p)
        /\ UNCHANGED <<live, mu>>
  /\ UNCHANGED <<kept, acked, purged>>

\* InstallFile removes the staged name of the file it linked.
InstallUnlink(p) ==
  /\ pc[p] = "unlink"
  /\ job[p].data \in staged
  /\ RemoveStaged(p)
  /\ acked' = acked \cup {job[p].data}
  /\ Unlock(p)
  /\ Return(p)
  /\ UNCHANGED <<live, kept, purged>>

\* Mutant of InstallUnlinkFails: the error is dropped and the upload confirmed.
InstallUnlinkFailsConfirms(p) ==
  /\ pc[p] = "unlink"
  /\ "unlink" \in Faults \/ job[p].data \notin staged
  /\ live' = [live EXCEPT ![job[p].path] = None]
  /\ acked' = acked \cup {job[p].data}
  /\ RemoveStaged(p) \/ UNCHANGED staged
  /\ Unlock(p)
  /\ Return(p)
  /\ UNCHANGED <<kept, purged>>

\* The staged name cannot be removed, or is gone: InstallFile removes the destination, and
\* the caller's deferred Remove tries the staged name once more.
InstallUnlinkFails(p) ==
  /\ pc[p] = "unlink"
  /\ "unlink" \in Faults \/ job[p].data \notin staged
  /\ live' = [live EXCEPT ![job[p].path] = None]
  /\ RemoveStaged(p) \/ UNCHANGED staged
  /\ Unlock(p)
  /\ Return(p)
  /\ UNCHANGED <<kept, acked, purged>>

-----------------------------------------------------------------------------
(***************************************************************************)
(* retain: a version copies the destination, the trash moves it; then the  *)
(* .macftpd-retain.json that makes the entry listable is written.          *)
(***************************************************************************)
AfterVersion(op) ==
  CASE op = "upload" -> "swap" [] op = "move" -> "rename" [] OTHER -> "open"

VersionCopy(p) ==
  LET q == job[p].path IN
  /\ pc[p] = "version"
  /\ live[q] # None
  /\ \E i \in FreshIds :
       /\ kept' = [kept EXCEPT ![i] =
            [path |-> q, payload |-> ReadOf(live[q]), state |-> "unlisted"]]
       /\ job' = [job EXCEPT ![p].id = i]
  /\ Goto(p, "meta")
  /\ UNCHANGED <<live, staged, mu, acked, purged>>

\* Mutant of VersionFails: the error return keeps mutationMu.
VersionFailsKeepsLock(p) ==
  /\ pc[p] = "version"
  /\ live[job[p].path] = None \/ "copy" \in Faults \/ FreshIds = {}
  /\ RemoveStaged(p)
  /\ Return(p)
  /\ UNCHANGED <<live, kept, mu, acked, purged>>

\* Mutant of VersionFails: the staged file is not removed.
VersionFailsKeepsStaged(p) ==
  /\ pc[p] = "version"
  /\ live[job[p].path] = None \/ "copy" \in Faults \/ FreshIds = {}
  /\ Unlock(p)
  /\ Return(p)
  /\ UNCHANGED <<live, kept, staged, acked, purged>>

\* The destination is gone, the copy fails, or no room is left to retain it:
\* the caller reports the error and changes nothing.
VersionFails(p) ==
  /\ pc[p] = "version"
  /\ live[job[p].path] = None \/ "copy" \in Faults \/ FreshIds = {}
  /\ RemoveStaged(p)
  /\ Unlock(p)
  /\ Return(p)
  /\ UNCHANGED <<live, kept, acked, purged>>

TrashPath(p, q) ==
  \E i \in FreshIds :
    /\ live[q] # None
    /\ Start(p, "trash", "meta", Job("trash", q, Nil, Nil, FALSE, i))
    /\ kept' = [kept EXCEPT ![i] =
         [path |-> q, payload |-> live[q], state |-> "unlisted"]]
    /\ live' = [live EXCEPT ![q] = None]
    /\ UNCHANGED <<staged, mu, acked, purged>>

\* DELE and RMD, except under /_monitor.
FtpDelete(p) == \E q \in Paths \ Monitor : TrashPath(p, q)

HttpDelete(p) == \E q \in Paths : TrashPath(p, q)

Trash(p) == FtpDelete(p) \/ HttpDelete(p)

\* Mutant of RetainMeta: the trash writes no metadata.
RetainMetaVersionsOnly(p) ==
  /\ pc[p] = "meta"
  /\ IF job[p].op = "trash"
       THEN Return(p) /\ UNCHANGED kept
       ELSE /\ kept' = [kept EXCEPT ![job[p].id].state = "listed"]
            /\ Goto(p, AfterVersion(job[p].op))
            /\ UNCHANGED job
  /\ UNCHANGED <<live, staged, mu, acked, purged>>

RetainMeta(p) ==
  /\ pc[p] = "meta"
  /\ kept' = [kept EXCEPT ![job[p].id].state = "listed"]
  /\ IF job[p].op = "trash"
       THEN Return(p)
       ELSE Goto(p, AfterVersion(job[p].op)) /\ UNCHANGED job
  /\ UNCHANGED <<live, staged, mu, acked, purged>>

\* The metadata cannot be written.  A version is dropped and its caller
\* fails; a trashed file is renamed back over whatever is there now, and
\* stays in the trash without metadata if that rename fails.
RetainMetaFails(p) ==
  LET q == job[p].path
      payload == kept[job[p].id].payload IN
  /\ pc[p] = "meta"
  /\ "meta" \in Faults
  /\ IF job[p].op = "trash" /\ ~CanReplace(payload, live[q])
       THEN UNCHANGED kept
       ELSE kept' = [kept EXCEPT ![job[p].id] = GoneSlot]
  /\ IF job[p].op = "trash" /\ CanReplace(payload, live[q])
       THEN live' = [live EXCEPT ![q] = payload]
       ELSE UNCHANGED live
  /\ RemoveStaged(p)
  /\ Unlock(p)
  /\ Return(p)
  /\ UNCHANGED <<acked, purged>>

-----------------------------------------------------------------------------
(***************************************************************************)
(* Operations that take no lock                                            *)
(***************************************************************************)
Mkdir(p) ==
  \E q \in Paths :
    /\ pc[p] = "idle" /\ "mkdir" \in Handlers
    /\ live[q] = None
    /\ live' = [live EXCEPT ![q] = Dir]
    /\ UNCHANGED <<kept, staged, mu, pc, job, acked, purged>>

\* FTP DELE and RMD under /_monitor remove the file permanently.
MonitorRemove(p) ==
  \E q \in Monitor :
    /\ pc[p] = "idle" /\ "monitor" \in Handlers
    /\ live[q] # None
    /\ live' = [live EXCEPT ![q] = None]
    /\ purged' = purged \cup ({live[q].data} \cap Data)
    /\ UNCHANGED <<kept, staged, mu, pc, job, acked>>

\* RNFR: the source must exist now.
RenameFrom(p) ==
  \E s \in Paths :
    /\ live[s] # None
    /\ Start(p, "rename", "rnto", Job("rename", Nil, s, Nil, FALSE, Nil))
    /\ UNCHANGED <<live, kept, staged, mu, acked, purged>>

\* RNTO: one Rename, whatever the destination holds.
RenameTo(p) ==
  \E q \in Paths :
    /\ pc[p] = "rnto"
    /\ IF live[job[p].src] # None /\ CanReplace(live[job[p].src], live[q])
         THEN live' = Renamed(live, job[p].src, q)
         ELSE UNCHANGED live
    /\ Return(p)
    /\ UNCHANGED <<kept, staged, mu, acked, purged>>

\* PATCH /api/files: a file at the target is versioned first.
PatchFile(p) ==
  \E s, q \in Paths :
    /\ Start(p, "move", IF IsFile(live[q]) THEN "version" ELSE "rename",
             Job("move", q, s, Nil, TRUE, Nil))
    /\ UNCHANGED <<live, kept, staged, mu, acked, purged>>

\* The move of /api/files/action: the target must be absent, or overwriting
\* allowed, and then a file is versioned first.
MoveAction(p) ==
  \E s, q \in Paths, ow \in BOOLEAN :
    /\ s # q
    /\ ow \/ live[q] = None
    /\ Start(p, "move", IF ow /\ IsFile(live[q]) THEN "version" ELSE "rename",
             Job("move", q, s, Nil, ow, Nil))
    /\ UNCHANGED <<live, kept, staged, mu, acked, purged>>

MoveBegin(p) == PatchFile(p) \/ MoveAction(p)

MoveRename(p) ==
  LET s == job[p].src  q == job[p].path IN
  /\ pc[p] = "rename"
  /\ IF live[s] # None /\ CanReplace(live[s], live[q])
       THEN live' = Renamed(live, s, q)
       ELSE UNCHANGED live
  /\ Return(p)
  /\ UNCHANGED <<kept, staged, mu, acked, purged>>

\* The copy of /api/files/action: version first when overwriting a file.
CopyBegin(p) ==
  \E s, q \in Paths, ow \in BOOLEAN :
    /\ s # q
    /\ Start(p, "copy", IF ow /\ IsFile(live[q]) THEN "version" ELSE "open",
             Job("copy", q, s, Nil, ow, Nil))
    /\ UNCHANGED <<live, kept, staged, mu, acked, purged>>

\* Copy: a directory is created; a file is cloned where nothing exists, or
\* opened and truncated in place.  Opening a file another copy is writing
\* mixes the two.
CopyOpen(p) ==
  LET s == job[p].src  q == job[p].path  e == live[s] IN
  /\ pc[p] = "open"
  /\ \/ /\ \/ e = None
           \/ ~job[p].ow /\ live[q] # None
           \/ live[q] # None /\ (e = Dir <=> live[q] # Dir)
        /\ Return(p)
        /\ UNCHANGED live
     \/ /\ e = Dir
        /\ live[q] = Dir => job[p].ow
        /\ live[q] \in {None, Dir}
        /\ live' = [live EXCEPT ![q] = Dir]
        /\ Return(p)
     \/ /\ IsFile(e)
        /\ live[q] = None
        /\ live' = [live EXCEPT ![q] = ReadOf(e)]
        /\ Return(p)
     \/ /\ IsFile(e)
        /\ live[q] = None \/ (job[p].ow /\ IsFile(live[q]))
        /\ \E x \in {Part(p)} \cup (IF live[q].kind = "part" THEN {Torn} ELSE {}) :
             live' = [live EXCEPT ![q] = x]
        /\ job' = [job EXCEPT ![p].from = ReadOf(e)]
        /\ Goto(p, "write")
  /\ UNCHANGED <<kept, staged, mu, acked, purged>>

\* Every name of the file that p writes in place now holds e: the file may
\* have been renamed or moved to the trash while it was being written.
PartBecomes(p, e) ==
  /\ live' = [q \in Paths |-> IF live[q] = Part(p) THEN e ELSE live[q]]
  /\ kept' = [i \in Ids |-> IF kept[i].payload = Part(p)
                              THEN [kept[i] EXCEPT !.payload = e] ELSE kept[i]]

CopyFinish(p) ==
  /\ pc[p] = "write"
  /\ PartBecomes(p, job[p].from)
  /\ Return(p)
  /\ UNCHANGED <<staged, mu, acked, purged>>

\* io.Copy fails: what was written stays at the destination.
CopyFails(p) ==
  /\ pc[p] = "write"
  /\ "write" \in Faults
  /\ PartBecomes(p, Torn)
  /\ Return(p)
  /\ UNCHANGED <<staged, mu, acked, purged>>

-----------------------------------------------------------------------------
(***************************************************************************)
(* Restore: the metadata is read, the destination checked or removed, the  *)
(* payload renamed into place and the metadata removed.                    *)
(***************************************************************************)
\* Mutant of RestoreBegin: the destination comes from the request, and metadata
\* that cannot be read does not matter.
RestoreBeginBlind(p) ==
  \E i \in Ids, q \in Paths, ow \in BOOLEAN :
    /\ kept[i].state \in {"unlisted", "orphan", "listed", "emptied"}
    /\ ow \/ live[q] = None
    /\ Start(p, "restore", IF ow THEN "clear" ELSE "place",
             Job("restore", q, Nil, Nil, ow, i))
    /\ UNCHANGED <<live, kept, staged, mu, acked, purged>>

RestoreBegin(p) ==
  \E i \in Ids, q \in Paths, ow \in BOOLEAN :
    /\ kept[i].state \in {"listed", "emptied"}
    /\ ow \/ live[q] = None
    /\ Start(p, "restore", IF ow THEN "clear" ELSE "place",
             Job("restore", q, Nil, Nil, ow, i))
    /\ UNCHANGED <<live, kept, staged, mu, acked, purged>>

\* RemoveAll of the destination; its error is ignored.
RestoreClear(p) ==
  /\ pc[p] = "clear"
  /\ \/ live' = [live EXCEPT ![job[p].path] = None]
     \/ "remove" \in Faults /\ UNCHANGED live
  /\ Goto(p, "place")
  /\ UNCHANGED <<kept, staged, mu, job, acked, purged>>

RestorePlace(p) ==
  LET q == job[p].path  i == job[p].id  payload == kept[i].payload IN
  /\ pc[p] = "place"
  /\ IF payload # None /\ CanReplace(payload, live[q])
       THEN /\ live' = [live EXCEPT ![q] = payload]
            /\ kept' = [kept EXCEPT ![i].payload = None, ![i].state = "emptied"]
            /\ Goto(p, "forget")
            /\ UNCHANGED job
       ELSE Return(p) /\ UNCHANGED <<live, kept>>
  /\ UNCHANGED <<staged, mu, acked, purged>>

\* The metadata and the directory of the entry are removed; an error is ignored,
\* and the entry stays listed without its payload.
RestoreForget(p) ==
  /\ pc[p] = "forget"
  /\ \/ kept' = [kept EXCEPT ![job[p].id] = GoneSlot]
     \/ "remove" \in Faults /\ UNCHANGED kept
  /\ Return(p)
  /\ UNCHANGED <<live, staged, mu, acked, purged>>

-----------------------------------------------------------------------------
\* cleanupUploadParts: staged files nobody wrote to for a day are removed, also
\* those of a handler whose client has stalled for that long.
CleanupParts ==
  \E d \in staged :
    /\ "stalled" \in Faults \/ \A p \in Procs : pc[p] # "idle" => job[p].data # d
    /\ staged' = staged \ {d}
    /\ UNCHANGED <<live, kept, mu, pc, job, acked, purged>>

\* The daemon dies and is started again: handlers and the mutex vanish, the
\* disk stays as it is, and a file that was being written stays torn.
Crash ==
  /\ "crash" \in Faults
  /\ \E p \in Procs : pc[p] # "idle"
  /\ live' = [q \in Paths |-> ReadOf(live[q])]
  /\ kept' = [i \in Ids |-> [kept[i] EXCEPT !.payload = ReadOf(@),
                !.state = IF @ = "unlisted" THEN "orphan" ELSE @]]
  /\ mu' = Nil
  /\ pc' = [p \in Procs |-> "idle"]
  /\ job' = [p \in Procs |-> NoJob]
  /\ UNCHANGED <<staged, acked, purged>>

\* Steps that wait for a client: more data, a lost connection, RNTO.
ClientStep(p) == AbortUpload(p) \/ ReceiveAll(p) \/ RenameTo(p)

\* Steps that wait for nothing but the mutex.
HandlerStep(p) ==
  \/ ReplaceFile(p) \/ ReplaceRefused(p) \/ Swap(p)
  \/ InstallFile(p) \/ InstallUnlink(p) \/ InstallUnlinkFails(p)
  \/ VersionCopy(p) \/ VersionFails(p) \/ RetainMeta(p) \/ RetainMetaFails(p)
  \/ MoveRename(p) \/ CopyOpen(p) \/ CopyFinish(p) \/ CopyFails(p)
  \/ RestoreClear(p) \/ RestorePlace(p) \/ RestoreForget(p)

Request(p) ==
  \/ StageUpload(p) \/ Trash(p) \/ Mkdir(p) \/ MonitorRemove(p) \/ RenameFrom(p)
  \/ MoveBegin(p) \/ CopyBegin(p) \/ RestoreBegin(p)

Next ==
  \/ \E p \in Procs : Request(p) \/ ClientStep(p) \/ HandlerStep(p)
  \/ CleanupParts
  \/ Crash

Spec == Init /\ [][Next]_vars

\* The Go scheduler runs every runnable goroutine, and sync.Mutex hands itself
\* over to a waiter that has been passed over for more than a millisecond.
FairSpec == Spec /\ \A p \in Procs : SF_vars(HandlerStep(p))

-----------------------------------------------------------------------------
(***************************************************************************)
(* Properties                                                              *)
(***************************************************************************)
IsLive(d) == \E q \in Paths : live[q] = File(d)
IsKept(d) == \E i \in Ids : kept[i].payload = File(d)

\* The contents of d can be fetched, restored from the admin pages, or will be
\* once the handler that is moving them into the trash writes the metadata.
IsRecoverable(d) ==
  \/ IsLive(d)
  \/ \E i \in Ids : /\ kept[i].payload = File(d)
                    /\ \/ kept[i].state = "listed"
                       \/ \E p \in Procs : pc[p] = "meta" /\ job[p].id = i

\* No acknowledged upload and no file that was there at start is ever lost:
\* its bytes are at a live path or in a retained payload, whatever replaces,
\* refuses, deletes or crashes (ReplaceFile, InstallFile, retain).
NothingLost == \A d \in acked \ purged : IsLive(d) \/ IsKept(d)

\* The contents are moreover listed for restore, not merely somewhere on the disk
\* (ListRetained sees only entries with metadata), unless a crash came between
\* the rename of retain and its metadata.
EverythingRecoverable ==
  \A d \in acked \ purged :
    IsRecoverable(d) \/ \E i \in Ids : kept[i].payload = File(d) /\ kept[i].state = "orphan"

\* A step that puts other contents over a file leaves a listed version of what
\* that path held ("overwrites create retained versions").
OverwriteKeepsVersion ==
  [][\A q \in Paths :
       live[q].kind = "file" /\ live'[q].kind = "file" /\ live'[q] # live[q]
         => \E i \in Ids : kept'[i] = [path |-> q, payload |-> live[q], state |-> "listed"]]_vars

\* mutationMu is held exactly by the one handler that is inside ReplaceFile or
\* InstallFile; no error path leaves it locked.
InsideMutation(p) ==
  \/ pc[p] \in {"swap", "unlink"}
  \/ pc[p] \in {"version", "meta"} /\ job[p].op = "upload"

MutationExclusive == \A p \in Procs : InsideMutation(p) <=> mu = p

\* Without a crash every staged file belongs to a handler that is still in
\* progress: no error path of an upload leaks its staged file.
StagingReclaimed ==
  \A d \in staged : \E p \in Procs : pc[p] # "idle" /\ job[p].data = d

\* What the trash or the versions list can be restored, through every failure
\* and crash: an entry is listed without its payload only after a restore has
\* moved that out (retain, Restore).  In particular no restore takes the payload
\* of a delete that has still to write its metadata.
ListedHasPayload ==
  \A i \in Ids : kept[i].state = "listed" => kept[i].payload # None

\* A handler that no longer waits for its client returns: nothing waits for
\* ever on mutationMu, whichever error path the holder takes.
RequestsEnd ==
  \A p \in Procs :
    pc[p] \notin {"idle", "receive", "rnto"} ~> pc[p] = "idle"

-----------------------------------------------------------------------------
\* Every path that an entry of the trash or the versions was taken from, with
\* what it held then.
History ==
  {<<kept[i].path, kept[i].payload>> :
     i \in {j \in Ids : kept[j].state \in {"unlisted", "orphan", "listed"}}}

\* The tree as its clients see it.
Files == INSTANCE VersionedFiles WITH
  Contents <- {File(d) : d \in Data},
  Empty    <- None,
  Folder   <- Dir,
  Scratch  <- Monitor,
  current  <- live,
  history  <- History,
  promised <- {File(d) : d \in acked}

\* ReplaceFile, InstallFile, retain, Mkdir and the monitor's removals implement
\* the atomic versioned store of VersionedFiles, although each is several steps
\* on the disk, may fail at any of them and may be cut short by a crash.
ImplementsVersionedFiles == Files!TreeSpec
=============================================================================
