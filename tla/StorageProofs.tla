---------------------------- MODULE StorageProofs ----------------------------
(***************************************************************************)
(* Theorems about Storage, for any number of handlers, paths, contents and *)
(* retained entries.                                                       *)
(***************************************************************************)
EXTENDS Storage, TLAPS

\* The workload for which nothing is lost: uploads, no-replace installs,
\* deletes, mkdir and the monitor's cleanup, with any failure or crash except a
\* failing write of the retention metadata.
LockedLoad ==
  /\ Handlers \subseteq {"upload", "install", "trash", "mkdir", "monitor"}
  /\ "meta" \notin Faults

\* Which request can be at which step.
OpAtStep ==
  \A p \in Procs :
    /\ pc[p] \in {"idle", "receive", "commit", "version", "meta", "swap", "unlink"}
    /\ pc[p] \in {"receive", "commit"} => job[p].op \in {"upload", "install"}
    /\ pc[p] \in {"version", "swap"} => job[p].op = "upload"
    /\ pc[p] = "meta" => job[p].op \in {"upload", "trash"} /\ job[p].id \in Ids
    /\ pc[p] = "unlink" => job[p].op = "install"
    /\ pc[p] # "idle" => job[p].path \in Paths

\* An upload in progress: between createStagedUpload and its reply.
Uploading(p) == pc[p] # "idle" /\ job[p].op \in {"upload", "install"}

\* Uploads in progress have contents of their own, none acknowledged yet.
StagedApart ==
  \A p \in Procs : Uploading(p) =>
    /\ job[p].data \in Data \ acked
    /\ \A r \in Procs : Uploading(r) /\ job[r].data = job[p].data => r = p

\* Nothing is ever written in place, and an unused slot holds nothing.
NoParts ==
  /\ \A q \in Paths : live[q].kind # "part"
  /\ \A i \in Ids : kept[i].payload.kind # "part"
  /\ \A i \in Ids : kept[i].state = "unused" => kept[i].payload = None

\* The version an upload took is still what its destination holds, unless the
\* destination is no file any more.
VersionCurrent ==
  \A p \in Procs :
    LET q == job[p].path IN
    /\ pc[p] = "meta" /\ job[p].op = "upload" =>
         /\ kept[job[p].id].path = q
         /\ kept[job[p].id].state # "unused"
         /\ IsFile(live[q]) => kept[job[p].id].payload = live[q]
    /\ pc[p] = "swap" /\ IsFile(live[q]) =>
         \E i \in Ids : kept[i] = [path |-> q, payload |-> live[q], state |-> "listed"]

\* What InstallFile linked is where it put it, or was trashed or purged since.
LinkedCurrent ==
  \A p \in Procs : pc[p] = "unlink" =>
    /\ live[job[p].path] \in {None, Dir, File(job[p].data)}
    /\ \/ live[job[p].path] = File(job[p].data)
       \/ IsKept(job[p].data)
       \/ job[p].data \in purged

LockedInv ==
  /\ OpAtStep
  /\ StagedApart
  /\ NoParts
  /\ VersionCurrent
  /\ LinkedCurrent
  /\ NothingLost

\* Every deletion, by FTP or HTTP, moves one path to the trash.
LEMMA TrashBegins ==
  ASSUME NEW p, Trash(p)
  PROVE  \E q \in Paths : TrashPath(p, q)
BY DEF Trash, FtpDelete, HttpDelete

-----------------------------------------------------------------------------
(***************************************************************************)
(* Types                                                                   *)
(***************************************************************************)
LEMMA EntryTypes ==
  /\ None \in Entries /\ Dir \in Entries /\ Torn \in Entries
  /\ \A d \in Data : File(d) \in Entries
  /\ \A p \in Procs : Part(p) \in Entries
  /\ \A e \in Entries : ReadOf(e) \in Entries
  /\ UnusedSlot \in Slots /\ GoneSlot \in Slots
  /\ NoJob \in Jobs
<1>1. None \in Entries /\ Dir \in Entries /\ Torn \in Entries
  BY DEF Entries
<1>2. \A d \in Data : File(d) \in Entries
  BY DEF Entries
<1>3. \A p \in Procs : Part(p) \in Entries
  BY DEF Entries
<1>4. \A e \in Entries : ReadOf(e) \in Entries
  BY <1>1 DEF ReadOf
<1>5. UnusedSlot \in Slots /\ GoneSlot \in Slots
  BY <1>1 DEF UnusedSlot, GoneSlot, Slots
<1>6. NoJob \in Jobs
  BY <1>1 DEF NoJob, Job, Jobs, AllHandlers
<1> QED
  BY <1>1, <1>2, <1>3, <1>4, <1>5, <1>6

\* Records keep their type when one field is replaced.
LEMMA FieldUpdates ==
  /\ \A j \in Jobs, i \in Ids : [j EXCEPT !.id = i] \in Jobs
  /\ \A j \in Jobs, e \in Entries : [j EXCEPT !.from = e] \in Jobs
  /\ \A s \in Slots, e \in Entries : s.payload \in Entries /\ [s EXCEPT !.payload = e] \in Slots
  /\ \A j \in Jobs : j.from \in Entries
BY DEF Jobs, Slots

\* A file entry is File of its contents, which are in Data.
LEMMA FileEntries ==
  \A e \in Entries : e.kind = "file" => e.data \in Data /\ e = File(e.data)
BY DEF Entries, None, Dir, Torn, File, Part

\* Which local variables of a handler are set at which of its steps.
JobShape ==
  \A p \in Procs :
    /\ pc[p] \in {"rnto", "rename", "open", "write"} => job[p].src \in Paths
    /\ pc[p] \notin {"idle", "rnto"} => job[p].path \in Paths
    /\ pc[p] \in {"receive", "commit", "swap", "unlink"} =>
         job[p].op \in {"upload", "install"}
    /\ pc[p] # "idle" /\ job[p].op \in {"upload", "install"} => job[p].data \in Data
    /\ pc[p] \in {"version", "meta"} /\ job[p].op \in {"move", "copy"} =>
         job[p].src \in Paths
    /\ pc[p] = "version" => job[p].op \in {"upload", "move", "copy"}
    /\ pc[p] = "meta" => job[p].op \in {"upload", "move", "copy", "trash"}
    /\ pc[p] \in {"meta", "clear", "place", "forget"} => job[p].id \in Ids

\* The types and the shapes hold together: a step's types rest on the locals
\* that its handler has set.
LEMMA StorageShapes == Spec => [](TypeOK /\ JobShape)
<1> USE DEF Goto, Return, Unlock, RemoveStaged, Start, FreshIds
<1>1. Init => TypeOK /\ JobShape
  BY EntryTypes, FileEntries DEF Init, TypeOK, JobShape, Steps
<1>2. TypeOK /\ JobShape /\ [Next]_vars => (TypeOK /\ JobShape)'
  <2> SUFFICES ASSUME TypeOK, JobShape, [Next]_vars
               PROVE  (TypeOK /\ JobShape)'
    OBVIOUS
  <2> USE DEF TypeOK, JobShape, Steps
  <2>1. ASSUME NEW p \in Procs, ClientStep(p) PROVE (TypeOK /\ JobShape)'
    <3>1. CASE AbortUpload(p)
      BY <3>1, EntryTypes DEF AbortUpload, NoJob, Job
    <3>2. CASE ReceiveAll(p)
      BY <3>2 DEF ReceiveAll
    <3>3. CASE RenameTo(p)
      BY <3>3, EntryTypes DEF RenameTo, Renamed
    <3> QED BY <2>1, <3>1, <3>2, <3>3 DEF ClientStep
  <2>2. ASSUME NEW p \in Procs, Request(p) PROVE (TypeOK /\ JobShape)'
    <3>1. CASE StageUpload(p)
      <4>1. PICK q \in Paths, op \in {"upload", "install"} : Stage(p, op, q)
        BY <3>1 DEF StageUpload, FtpStore, HttpUpload, DropLink, RemotePull
      <4> QED
        BY <4>1, EntryTypes DEF Stage, Job, Jobs, AllHandlers
    <3>2. CASE Trash(p)
      <4>1. PICK q \in Paths : TrashPath(p, q)
        BY <3>2, TrashBegins
      <4> QED
        BY <4>1, EntryTypes DEF TrashPath, Job, Jobs, Slots, AllHandlers
    <3>3. CASE Mkdir(p)
      BY <3>3, EntryTypes DEF Mkdir
    <3>4. CASE MonitorRemove(p)
      BY <3>4, EntryTypes, StorageConstants DEF MonitorRemove
    <3>5. CASE RenameFrom(p)
      BY <3>5, EntryTypes DEF RenameFrom, Job, Jobs, AllHandlers
    <3>6. CASE MoveBegin(p)
      <4>1. CASE PatchFile(p)
        BY <4>1, EntryTypes DEF PatchFile, Job, Jobs, AllHandlers
      <4>2. CASE MoveAction(p)
        BY <4>2, EntryTypes DEF MoveAction, Job, Jobs, AllHandlers
      <4> QED
        BY <3>6, <4>1, <4>2 DEF MoveBegin
    <3>7. CASE CopyBegin(p)
      BY <3>7, EntryTypes DEF CopyBegin, Job, Jobs, AllHandlers
    <3>8. CASE RestoreBegin(p)
      BY <3>8, EntryTypes DEF RestoreBegin, Job, Jobs, AllHandlers
    <3> QED BY <2>2, <3>1, <3>2, <3>3, <3>4, <3>5, <3>6, <3>7, <3>8 DEF Request
  <2>3. ASSUME NEW p \in Procs, HandlerStep(p) PROVE (TypeOK /\ JobShape)'
    <3>1. CASE ReplaceFile(p)
      BY <3>1 DEF ReplaceFile
    <3>2. CASE ReplaceRefused(p)
      BY <3>2, EntryTypes DEF ReplaceRefused
    <3>3. CASE Swap(p)
      BY <3>3, EntryTypes DEF Swap
    <3>4. CASE InstallFile(p)
      BY <3>4, EntryTypes DEF InstallFile
    <3>5. CASE InstallUnlink(p)
      BY <3>5, EntryTypes DEF InstallUnlink
    <3>6. CASE InstallUnlinkFails(p)
      BY <3>6, EntryTypes DEF InstallUnlinkFails
    <3>7. CASE VersionCopy(p)
      <4> USE <3>7, EntryTypes DEF VersionCopy
      <4>1. kept' \in [Ids -> Slots]
        BY DEF Slots
      <4>2. PICK i \in Ids : job' = [job EXCEPT ![p].id = i]
        OBVIOUS
      <4>3. job' \in [Procs -> Jobs]
        BY <4>2, FieldUpdates
      <4>4. JobShape'
        <5>1. \A r \in Procs : /\ job'[r].op = job[r].op /\ job'[r].path = job[r].path
                               /\ job'[r].src = job[r].src /\ job'[r].data = job[r].data
                               /\ r # p => pc'[r] = pc[r] /\ job'[r].id = job[r].id
          BY <4>2 DEF Jobs
        <5>2. pc[p] = "version" /\ pc'[p] = "meta" /\ job'[p].id \in Ids
          BY <4>2 DEF Jobs
        <5> QED
          BY <5>1, <5>2
      <4> QED
        BY <4>1, <4>3, <4>4
    <3>8. CASE VersionFails(p)
      BY <3>8, EntryTypes DEF VersionFails
    <3>9. CASE RetainMeta(p)
      BY <3>9, EntryTypes DEF RetainMeta, AfterVersion, Slots
    <3>10. CASE RetainMetaFails(p)
      BY <3>10, EntryTypes DEF RetainMetaFails, Slots
    <3>11. CASE MoveRename(p)
      BY <3>11, EntryTypes DEF MoveRename, Renamed
    <3>12. CASE CopyOpen(p)
      <4> USE <3>12, EntryTypes DEF CopyOpen
      <4>1. live' \in [Paths -> Entries]
        OBVIOUS
      <4>2. CASE Return(p)
        BY <4>1, <4>2
      <4>3. CASE Goto(p, "write") /\ job' = [job EXCEPT ![p].from = ReadOf(live[job[p].src])]
        <5>1. job' \in [Procs -> Jobs]
          <6>1. ReadOf(live[job[p].src]) \in Entries
            OBVIOUS
          <6> QED
            BY <4>3, <6>1, FieldUpdates
        <5>2. \A r \in Procs : /\ job'[r].op = job[r].op /\ job'[r].path = job[r].path
                               /\ job'[r].src = job[r].src /\ job'[r].data = job[r].data
                               /\ job'[r].id = job[r].id
          BY <4>3 DEF Jobs
        <5>3. pc[p] = "open" /\ pc'[p] = "write" /\ \A r \in Procs : r # p => pc'[r] = pc[r]
          BY <4>3
        <5>4. JobShape'
          BY <5>2, <5>3
        <5> QED
          BY <4>1, <4>3, <5>1, <5>4
      <4> QED
        BY <4>2, <4>3
    <3>13. CASE CopyFinish(p)
      <4>1. job[p].from \in Entries
        BY FieldUpdates
      <4>2. live' \in [Paths -> Entries] /\ kept' \in [Ids -> Slots]
        BY <3>13, <4>1, FieldUpdates DEF CopyFinish, PartBecomes
      <4>3. /\ pc' \in [Procs -> Steps] /\ job' \in [Procs -> Jobs]
            /\ UNCHANGED <<staged, mu, acked, purged>>
        BY <3>13, EntryTypes DEF CopyFinish
      <4>4. JobShape'
        BY <3>13 DEF CopyFinish
      <4> QED
        BY <4>2, <4>3, <4>4
    <3>14. CASE CopyFails(p)
      <4>1. live' \in [Paths -> Entries] /\ kept' \in [Ids -> Slots]
        BY <3>14, EntryTypes, FieldUpdates DEF CopyFails, PartBecomes
      <4>2. /\ pc' \in [Procs -> Steps] /\ job' \in [Procs -> Jobs]
            /\ UNCHANGED <<staged, mu, acked, purged>>
        BY <3>14, EntryTypes DEF CopyFails
      <4>3. JobShape'
        BY <3>14 DEF CopyFails
      <4> QED
        BY <4>1, <4>2, <4>3
    <3>15. CASE RestoreClear(p)
      BY <3>15, EntryTypes DEF RestoreClear
    <3>16. CASE RestorePlace(p)
      <4>1. job[p].path \in Paths /\ job[p].id \in Ids
        BY <3>16 DEF RestorePlace
      <4>2. kept[job[p].id].payload \in Entries
        BY <4>1, FieldUpdates
      <4>3. live' \in [Paths -> Entries]
        BY <3>16, <4>1, <4>2 DEF RestorePlace
      <4>4. kept' \in [Ids -> Slots]
        BY <3>16, <4>1, EntryTypes, FieldUpdates DEF RestorePlace
      <4>5. /\ pc' \in [Procs -> Steps] /\ job' \in [Procs -> Jobs]
            /\ UNCHANGED <<staged, mu, acked, purged>>
        BY <3>16, EntryTypes DEF RestorePlace
      <4>6. JobShape'
        BY <3>16 DEF RestorePlace
      <4> QED
        BY <4>3, <4>4, <4>5, <4>6
    <3>17. CASE RestoreForget(p)
      BY <3>17, EntryTypes DEF RestoreForget
    <3> QED
      BY <2>3, <3>1, <3>2, <3>3, <3>4, <3>5, <3>6, <3>7, <3>8, <3>9, <3>10,
         <3>11, <3>12, <3>13, <3>14, <3>15, <3>16, <3>17 DEF HandlerStep
  <2>4. CASE CleanupParts
    BY <2>4 DEF CleanupParts
  <2>5. CASE Crash
    BY <2>5, EntryTypes DEF Crash, Slots
  <2>6. CASE UNCHANGED vars
    BY <2>6 DEF vars
  <2> QED
    BY <2>1, <2>2, <2>3, <2>4, <2>5, <2>6 DEF Next
<1> QED
  BY <1>1, <1>2, PTL DEF Spec

\* Every variable keeps its type (the shapes of storage.Root's tree, of a
\* retained entry and of a handler's local variables).
THEOREM StorageTypes == Spec => []TypeOK
<1>1. TypeOK /\ JobShape => TypeOK
  OBVIOUS
<1> QED
  BY <1>1, StorageShapes, PTL

-----------------------------------------------------------------------------
\* mutationMu is held exactly by the handler inside ReplaceFile or InstallFile,
\* whatever the workload and whichever call fails.
THEOREM StorageMutex == Spec => []MutationExclusive
<1> USE DEF Goto, Return, Unlock, RemoveStaged, Start, InsideMutation, MutationExclusive
<1>1. Init => MutationExclusive
  BY StorageConstants DEF Init
<1>2. TypeOK /\ MutationExclusive /\ [Next]_vars => MutationExclusive'
  <2> SUFFICES ASSUME TypeOK, MutationExclusive, [Next]_vars
               PROVE  MutationExclusive'
    OBVIOUS
  <2> USE StorageConstants DEF TypeOK
  <2>1. ASSUME NEW p \in Procs, ClientStep(p) PROVE MutationExclusive'
    BY <2>1 DEF ClientStep, AbortUpload, ReceiveAll, RenameTo
  <2>2. ASSUME NEW p \in Procs, Request(p) PROVE MutationExclusive'
    BY <2>2 DEF Request, StageUpload, FtpStore, HttpUpload, DropLink,
          RemotePull, Stage, Trash, FtpDelete, HttpDelete, TrashPath, Mkdir, MonitorRemove, RenameFrom,
          MoveBegin, PatchFile, MoveAction, CopyBegin, RestoreBegin, Job
  <2>3. ASSUME NEW p \in Procs, HandlerStep(p) PROVE MutationExclusive'
    <3>1. CASE ReplaceFile(p) \/ ReplaceRefused(p) \/ Swap(p)
      BY <3>1 DEF ReplaceFile, ReplaceRefused, Swap
    <3>2. CASE InstallFile(p) \/ InstallUnlink(p) \/ InstallUnlinkFails(p)
      BY <3>2 DEF InstallFile, InstallUnlink, InstallUnlinkFails
    <3>3. CASE VersionCopy(p) \/ VersionFails(p)
      BY <3>3 DEF VersionCopy, VersionFails, Jobs
    <3>4. CASE RetainMeta(p) \/ RetainMetaFails(p)
      BY <3>4 DEF RetainMeta, RetainMetaFails, AfterVersion
    <3>5. CASE MoveRename(p) \/ CopyOpen(p) \/ CopyFinish(p) \/ CopyFails(p)
      BY <3>5 DEF MoveRename, CopyOpen, CopyFinish, CopyFails, Jobs
    <3>6. CASE RestoreClear(p) \/ RestorePlace(p) \/ RestoreForget(p)
      BY <3>6 DEF RestoreClear, RestorePlace, RestoreForget
    <3> QED
      BY <2>3, <3>1, <3>2, <3>3, <3>4, <3>5, <3>6 DEF HandlerStep
  <2>4. CASE CleanupParts \/ Crash \/ UNCHANGED vars
    BY <2>4 DEF CleanupParts, Crash, vars
  <2> QED
    BY <2>1, <2>2, <2>3, <2>4 DEF Next
<1> QED
  BY <1>1, <1>2, StorageTypes, PTL DEF Spec

-----------------------------------------------------------------------------
(***************************************************************************)
(* No content is lost under LockedLoad                                     *)
(***************************************************************************)
LEMMA LockedSteps ==
  ASSUME LockedLoad, OpAtStep, NEW p \in Procs,
         Request(p) \/ ClientStep(p) \/ HandlerStep(p)
  PROVE  \/ AbortUpload(p) \/ ReceiveAll(p) \/ StageUpload(p) \/ Trash(p)
         \/ Mkdir(p) \/ MonitorRemove(p) \/ ReplaceFile(p) \/ ReplaceRefused(p)
         \/ Swap(p) \/ InstallFile(p) \/ InstallUnlink(p) \/ InstallUnlinkFails(p)
         \/ VersionCopy(p) \/ VersionFails(p) \/ RetainMeta(p)
BY DEF LockedLoad, OpAtStep, Request, ClientStep, HandlerStep, RenameFrom, RenameTo,
       MoveBegin, PatchFile, MoveAction, MoveRename, CopyBegin, CopyOpen, CopyFinish, CopyFails, RestoreBegin,
       RestoreClear, RestorePlace, RestoreForget, RetainMetaFails, Start

\* Steps that create no file and touch no slot in use keep VersionCurrent.
LEMMA VersionFrame ==
  ASSUME TypeOK, OpAtStep, VersionCurrent,
         \A i \in Ids : kept[i].state # "unused" => kept'[i] = kept[i],
         \A q \in Paths : IsFile(live'[q]) => live'[q] = live[q],
         \A r \in Procs : pc'[r] = "swap" \/ (pc'[r] = "meta" /\ job'[r].op = "upload") =>
                            pc'[r] = pc[r] /\ job'[r] = job[r]
  PROVE  VersionCurrent'
<1> SUFFICES ASSUME NEW r \in Procs,
                    pc'[r] = "swap" \/ (pc'[r] = "meta" /\ job'[r].op = "upload")
             PROVE  LET q == job'[r].path IN
                    /\ pc'[r] = "meta" /\ job'[r].op = "upload" =>
                         /\ kept'[job'[r].id].path = q
                         /\ kept'[job'[r].id].state # "unused"
                         /\ IsFile(live'[q]) => kept'[job'[r].id].payload = live'[q]
                    /\ pc'[r] = "swap" /\ IsFile(live'[q]) =>
                         \E i \in Ids : kept'[i] = [path |-> q, payload |-> live'[q], state |-> "listed"]
  BY DEF VersionCurrent
<1>1. pc'[r] = pc[r] /\ job'[r] = job[r] /\ job[r].path \in Paths
  BY DEF OpAtStep
<1>2. CASE pc[r] = "meta"
  <2>1. /\ job[r].id \in Ids
        /\ kept[job[r].id].path = job[r].path
        /\ kept[job[r].id].state # "unused"
        /\ IsFile(live[job[r].path]) => kept[job[r].id].payload = live[job[r].path]
    BY <1>1, <1>2 DEF VersionCurrent, OpAtStep
  <2>2. kept'[job[r].id] = kept[job[r].id]
    BY <2>1
  <2>3. IsFile(live'[job[r].path]) => live'[job[r].path] = live[job[r].path]
    BY <1>1
  <2> QED
    BY <1>1, <1>2, <2>1, <2>2, <2>3
<1>3. CASE pc[r] = "swap"
  <2>1. ASSUME IsFile(live'[job[r].path])
        PROVE  \E i \in Ids : kept'[i] = [path |-> job[r].path, payload |-> live'[job[r].path], state |-> "listed"]
    <3>1. live'[job[r].path] = live[job[r].path]
      BY <1>1, <2>1
    <3>2. PICK i \in Ids : kept[i] = [path |-> job[r].path, payload |-> live[job[r].path], state |-> "listed"]
      BY <1>3, <2>1, <3>1 DEF VersionCurrent
    <3> QED
      BY <3>1, <3>2
  <2> QED
    BY <1>1, <1>3, <2>1
<1> QED
  BY <1>1, <1>2, <1>3

\* A crash leaves the tree and the payloads; what retain had not listed yet is
\* an orphan from then on.
LEMMA CrashKeepsPayloads ==
  ASSUME TypeOK, NoParts, Crash
  PROVE  /\ live' = live
         /\ \A i \in Ids : /\ kept'[i].path = kept[i].path
                           /\ kept'[i].payload = kept[i].payload
                           /\ kept'[i].state = IF kept[i].state = "unlisted" THEN "orphan"
                                               ELSE kept[i].state
<1>1. live' = live
  BY DEF Crash, NoParts, ReadOf, TypeOK
<1>2. ASSUME NEW i \in Ids
      PROVE  /\ kept'[i].path = kept[i].path
             /\ kept'[i].payload = ReadOf(kept[i].payload)
             /\ kept'[i].state = IF kept[i].state = "unlisted" THEN "orphan" ELSE kept[i].state
  <2>1. kept[i] \in Slots
    BY DEF TypeOK
  <2>2. kept'[i] = [kept[i] EXCEPT !.payload = ReadOf(@),
                     !.state = IF @ = "unlisted" THEN "orphan" ELSE @]
    BY DEF Crash
  <2> QED
    BY <2>1, <2>2 DEF Slots
<1>3. \A i \in Ids : ReadOf(kept[i].payload) = kept[i].payload
  BY DEF NoParts, ReadOf
<1> QED
  BY <1>1, <1>2, <1>3

\* Every step of the locked operations keeps the invariant.
LEMMA LockedStep ==
  ASSUME LockedLoad, TypeOK, MutationExclusive, LockedInv, [Next]_vars, TypeOK'
  PROVE  LockedInv'
<1> USE StorageConstants DEF Goto, Return, Unlock, RemoveStaged, Start, LockedInv, TypeOK, OpAtStep
<1>1. ASSUME NEW p \in Procs, Request(p) \/ ClientStep(p) \/ HandlerStep(p)
      PROVE  LockedInv'
  <2>1. CASE AbortUpload(p)
    <3> USE <2>1 DEF AbortUpload
    <3>1. OpAtStep'
      OBVIOUS
    <3>2. StagedApart'
      BY DEF Uploading, StagedApart, NoJob, Job
    <3>3. NoParts'
      BY DEF NoParts, None, Dir, File, ReadOf
    <3>4. VersionCurrent'
      BY DEF VersionCurrent, NoParts, IsFile, None, Dir, File, ReadOf, InsideMutation, MutationExclusive
    <3>5. LinkedCurrent'
      BY DEF LinkedCurrent, NoParts, IsKept, None, Dir, File, ReadOf, InsideMutation, MutationExclusive
    <3>6. NothingLost'
      BY DEF NothingLost, NoParts, IsLive, IsKept, ReadOf
    <3> QED
      BY <3>1, <3>2, <3>3, <3>4, <3>5, <3>6
  <2>2. CASE ReceiveAll(p)
    <3> USE <2>2 DEF ReceiveAll
    <3>1. OpAtStep'
      OBVIOUS
    <3>2. StagedApart'
      BY DEF Uploading, StagedApart, NoJob, Job
    <3>3. NoParts'
      BY DEF NoParts, None, Dir, File, ReadOf
    <3>4. VersionCurrent'
      BY DEF VersionCurrent, NoParts, IsFile, None, Dir, File, ReadOf, InsideMutation, MutationExclusive
    <3>5. LinkedCurrent'
      BY DEF LinkedCurrent, NoParts, IsKept, None, Dir, File, ReadOf, InsideMutation, MutationExclusive
    <3>6. NothingLost'
      BY DEF NothingLost, NoParts, IsLive, IsKept, ReadOf
    <3> QED
      BY <3>1, <3>2, <3>3, <3>4, <3>5, <3>6
  <2>3. CASE StageUpload(p)
    <3> USE <2>3 DEF StageUpload, FtpStore, HttpUpload, DropLink,
          RemotePull, Stage, Job
    <3>1. OpAtStep'
      OBVIOUS
    <3>2. StagedApart'
      BY DEF Uploading, StagedApart, NoJob, Job
    <3>3. NoParts'
      BY DEF NoParts, None, Dir, File, ReadOf
    <3>4. VersionCurrent'
      BY DEF VersionCurrent, NoParts, IsFile, None, Dir, File, ReadOf, InsideMutation, MutationExclusive
    <3>5. LinkedCurrent'
      BY DEF LinkedCurrent, NoParts, IsKept, None, Dir, File, ReadOf, InsideMutation, MutationExclusive
    <3>6. NothingLost'
      BY DEF NothingLost, NoParts, IsLive, IsKept, ReadOf
    <3> QED
      BY <3>1, <3>2, <3>3, <3>4, <3>5, <3>6
  <2>4. CASE Trash(p)
    <3>0. PICK q \in Paths : TrashPath(p, q)
      BY <2>4, TrashBegins
    <3> USE <3>0 DEF TrashPath, Job, FreshIds
    <3>1. OpAtStep'
      OBVIOUS
    <3>2. StagedApart'
      BY DEF Uploading, StagedApart, NoJob, Job
    <3>3. NoParts'
      BY DEF NoParts, None, Dir, File, ReadOf
    <3>4. VersionCurrent'
      BY VersionFrame DEF IsFile, None, Dir
    <3>5. LinkedCurrent'
      BY DEF LinkedCurrent, NoParts, IsKept, None, Dir, File, ReadOf, InsideMutation, MutationExclusive
    <3>6. NothingLost'
      BY DEF NothingLost, NoParts, IsLive, IsKept, ReadOf
    <3> QED
      BY <3>1, <3>2, <3>3, <3>4, <3>5, <3>6
  <2>5. CASE Mkdir(p)
    <3> USE <2>5 DEF Mkdir
    <3>1. OpAtStep'
      OBVIOUS
    <3>2. StagedApart'
      BY DEF Uploading, StagedApart, NoJob, Job
    <3>3. NoParts'
      BY DEF NoParts, None, Dir, File, ReadOf
    <3>4. VersionCurrent'
      BY VersionFrame DEF IsFile, None, Dir
    <3>5. LinkedCurrent'
      BY DEF LinkedCurrent, NoParts, IsKept, None, Dir, File, ReadOf, InsideMutation, MutationExclusive
    <3>6. NothingLost'
      BY DEF NothingLost, IsLive, IsKept, None, File
    <3> QED
      BY <3>1, <3>2, <3>3, <3>4, <3>5, <3>6
  <2>6. CASE MonitorRemove(p)
    <3> USE <2>6 DEF MonitorRemove
    <3>1. OpAtStep'
      OBVIOUS
    <3>2. StagedApart'
      BY DEF Uploading, StagedApart, NoJob, Job
    <3>3. NoParts'
      BY DEF NoParts, None, Dir, File, ReadOf
    <3>4. VersionCurrent'
      BY VersionFrame DEF IsFile, None, Dir
    <3>5. LinkedCurrent'
      BY DEF LinkedCurrent, IsKept, None, Dir, File, StagedApart, Uploading
    <3>6. NothingLost'
      BY DEF NothingLost, IsLive, IsKept, File
    <3> QED
      BY <3>1, <3>2, <3>3, <3>4, <3>5, <3>6
  <2>7. CASE ReplaceFile(p)
    <3> USE <2>7 DEF ReplaceFile
    <3>1. OpAtStep'
      OBVIOUS
    <3>2. StagedApart'
      BY DEF Uploading, StagedApart, NoJob, Job
    <3>3. NoParts'
      BY DEF NoParts, None, Dir, File, ReadOf
    <3>4. VersionCurrent'
      BY DEF VersionCurrent, NoParts, IsFile, None, Dir, File, ReadOf, InsideMutation, MutationExclusive
    <3>5. LinkedCurrent'
      BY DEF LinkedCurrent, NoParts, IsKept, None, Dir, File, ReadOf, InsideMutation, MutationExclusive
    <3>6. NothingLost'
      BY DEF NothingLost, NoParts, IsLive, IsKept, ReadOf
    <3> QED
      BY <3>1, <3>2, <3>3, <3>4, <3>5, <3>6
  <2>8. CASE ReplaceRefused(p)
    <3> USE <2>8 DEF ReplaceRefused
    <3>1. OpAtStep'
      OBVIOUS
    <3>2. StagedApart'
      BY DEF Uploading, StagedApart, NoJob, Job
    <3>3. NoParts'
      BY DEF NoParts, None, Dir, File, ReadOf
    <3>4. VersionCurrent'
      BY DEF VersionCurrent, NoParts, IsFile, None, Dir, File, ReadOf, InsideMutation, MutationExclusive
    <3>5. LinkedCurrent'
      BY DEF LinkedCurrent, NoParts, IsKept, None, Dir, File, ReadOf, InsideMutation, MutationExclusive
    <3>6. NothingLost'
      BY DEF NothingLost, NoParts, IsLive, IsKept, ReadOf
    <3> QED
      BY <3>1, <3>2, <3>3, <3>4, <3>5, <3>6
  <2>9. CASE Swap(p)
    <3> USE <2>9 DEF Swap
    <3>1. OpAtStep'
      OBVIOUS
    <3>2. StagedApart'
      BY DEF Uploading, StagedApart, NoJob, Job
    <3>3. NoParts'
      BY DEF NoParts, None, Dir, File, ReadOf
    <3>4. VersionCurrent'
      BY DEF VersionCurrent, NoParts, IsFile, None, Dir, File, ReadOf, InsideMutation, MutationExclusive
    <3>5. LinkedCurrent'
      BY DEF LinkedCurrent, NoParts, IsKept, None, Dir, File, ReadOf, InsideMutation, MutationExclusive
    <3>6. NothingLost'
      <4> DEFINE q == job[p].path  d == job[p].data
      <4> SUFFICES ASSUME NEW x \in acked' \ purged PROVE IsLive(x)' \/ IsKept(x)'
        BY DEF NothingLost
      <4>1. CASE x \notin acked
        BY <4>1 DEF IsLive
      <4>2. CASE x \in acked /\ live[q] # File(x)
        BY <4>2 DEF IsLive, IsKept, NothingLost
      <4>3. CASE live[q] = File(x)
        <5>1. PICK i \in Ids : kept[i] = [path |-> q, payload |-> live[q], state |-> "listed"]
          BY <4>3 DEF VersionCurrent, IsFile, File
        <5> QED
          BY <4>3, <5>1 DEF IsKept
      <4> QED
        BY <4>1, <4>2, <4>3
    <3> QED
      BY <3>1, <3>2, <3>3, <3>4, <3>5, <3>6
  <2>10. CASE InstallFile(p)
    <3> USE <2>10 DEF InstallFile
    <3>1. OpAtStep'
      OBVIOUS
    <3>2. StagedApart'
      BY DEF Uploading, StagedApart, NoJob, Job
    <3>3. NoParts'
      BY DEF NoParts, None, Dir, File, ReadOf
    <3>4. VersionCurrent'
      BY DEF VersionCurrent, NoParts, IsFile, None, Dir, File, ReadOf, InsideMutation, MutationExclusive
    <3>5. LinkedCurrent'
      BY DEF LinkedCurrent, NoParts, IsKept, None, Dir, File, ReadOf, InsideMutation, MutationExclusive
    <3>6. NothingLost'
      BY DEF NothingLost, IsLive, IsKept, None, File
    <3> QED
      BY <3>1, <3>2, <3>3, <3>4, <3>5, <3>6
  <2>11. CASE InstallUnlink(p)
    <3> USE <2>11 DEF InstallUnlink
    <3>1. OpAtStep'
      OBVIOUS
    <3>2. StagedApart'
      BY DEF Uploading, StagedApart, NoJob, Job
    <3>3. NoParts'
      BY DEF NoParts, None, Dir, File, ReadOf
    <3>4. VersionCurrent'
      BY DEF VersionCurrent, NoParts, IsFile, None, Dir, File, ReadOf, InsideMutation, MutationExclusive
    <3>5. LinkedCurrent'
      BY DEF LinkedCurrent, NoParts, IsKept, None, Dir, File, ReadOf, InsideMutation, MutationExclusive
    <3>6. NothingLost'
      BY DEF NothingLost, IsLive, IsKept, LinkedCurrent
    <3> QED
      BY <3>1, <3>2, <3>3, <3>4, <3>5, <3>6
  <2>12. CASE InstallUnlinkFails(p)
    <3> USE <2>12 DEF InstallUnlinkFails
    <3>1. OpAtStep'
      OBVIOUS
    <3>2. StagedApart'
      BY DEF Uploading, StagedApart, NoJob, Job
    <3>3. NoParts'
      BY DEF NoParts, None, Dir, File, ReadOf
    <3>4. VersionCurrent'
      BY DEF VersionCurrent, NoParts, IsFile, None, Dir, File, ReadOf, InsideMutation, MutationExclusive
    <3>5. LinkedCurrent'
      BY DEF LinkedCurrent, NoParts, IsKept, None, Dir, File, ReadOf, InsideMutation, MutationExclusive
    <3>6. NothingLost'
      <4> DEFINE q == job[p].path  d == job[p].data
      <4> SUFFICES ASSUME NEW x \in acked \ purged PROVE IsLive(x)' \/ IsKept(x)'
        BY DEF NothingLost
      <4>1. x # d
        BY DEF StagedApart, Uploading
      <4>2. live[q] # File(x)
        <5>1. live[q] \in {None, Dir, File(d)}
          BY DEF LinkedCurrent
        <5>2. File(x) \notin {None, Dir, File(d)}
          BY <4>1 DEF None, Dir, File
        <5> QED
          BY <5>1, <5>2
      <4> QED
        BY <4>2 DEF NothingLost, IsLive, IsKept
    <3> QED
      BY <3>1, <3>2, <3>3, <3>4, <3>5, <3>6
  <2>13. CASE VersionCopy(p)
    <3> USE <2>13 DEF VersionCopy, FreshIds
    <3>1. OpAtStep'
      OBVIOUS
    <3>2. StagedApart'
      BY DEF Uploading, StagedApart, NoJob, Job
    <3>3. NoParts'
      BY DEF NoParts, None, Dir, File, ReadOf
    <3>4. VersionCurrent'
      BY DEF VersionCurrent, NoParts, IsFile, None, Dir, File, ReadOf, InsideMutation, MutationExclusive
    <3>5. LinkedCurrent'
      BY DEF LinkedCurrent, NoParts, IsKept, None, Dir, File, ReadOf, InsideMutation, MutationExclusive
    <3>6. NothingLost'
      BY DEF NothingLost, IsLive, IsKept, NoParts, None, File
    <3> QED
      BY <3>1, <3>2, <3>3, <3>4, <3>5, <3>6
  <2>14. CASE VersionFails(p)
    <3> USE <2>14 DEF VersionFails
    <3>1. OpAtStep'
      OBVIOUS
    <3>2. StagedApart'
      BY DEF Uploading, StagedApart, NoJob, Job
    <3>3. NoParts'
      BY DEF NoParts, None, Dir, File, ReadOf
    <3>4. VersionCurrent'
      BY DEF VersionCurrent, NoParts, IsFile, None, Dir, File, ReadOf, InsideMutation, MutationExclusive
    <3>5. LinkedCurrent'
      BY DEF LinkedCurrent, NoParts, IsKept, None, Dir, File, ReadOf, InsideMutation, MutationExclusive
    <3>6. NothingLost'
      BY DEF NothingLost, NoParts, IsLive, IsKept, ReadOf
    <3> QED
      BY <3>1, <3>2, <3>3, <3>4, <3>5, <3>6
  <2>15. CASE RetainMeta(p)
    <3> USE <2>15 DEF RetainMeta, AfterVersion
    <3>1. OpAtStep'
      OBVIOUS
    <3>2. StagedApart'
      BY DEF Uploading, StagedApart, NoJob, Job
    <3>3. NoParts'
      BY DEF NoParts, None, Dir, File, ReadOf
    <3>4. VersionCurrent'
      <4> SUFFICES ASSUME NEW r \in Procs PROVE VersionCurrent!(r)'
        BY DEF VersionCurrent
      <4> QED
        BY DEF VersionCurrent, Slots
    <3>5. LinkedCurrent'
      BY DEF LinkedCurrent, NoParts, IsKept, None, Dir, File, ReadOf, InsideMutation, MutationExclusive
    <3>6. NothingLost'
      BY DEF NothingLost, NoParts, IsLive, IsKept, ReadOf
    <3> QED
      BY <3>1, <3>2, <3>3, <3>4, <3>5, <3>6
  <2> QED
    BY <1>1, LockedSteps, <2>1, <2>2, <2>3, <2>4, <2>5, <2>6, <2>7, <2>8, <2>9, <2>10, <2>11, <2>12, <2>13, <2>14, <2>15
<1>2. CASE CleanupParts
  BY <1>2 DEF CleanupParts, Uploading, StagedApart, NoParts, IsFile, VersionCurrent, LinkedCurrent, IsKept, IsLive, NothingLost, vars
<1>3. CASE Crash
  <2>1. /\ live' = live
        /\ \A i \in Ids : /\ kept'[i].payload = kept[i].payload
                          /\ kept'[i].state = "unused" => kept[i].state = "unused"
    BY <1>3, CrashKeepsPayloads
  <2>2. \A p \in Procs : pc'[p] = "idle" /\ job'[p] = NoJob
    BY <1>3 DEF Crash
  <2>3. UNCHANGED <<staged, acked, purged>>
    BY <1>3 DEF Crash
  <2>4. OpAtStep'
    BY <2>2 DEF OpAtStep
  <2>5. StagedApart' /\ NoParts'
    BY <2>1, <2>2, <2>3 DEF StagedApart, Uploading, NoParts
  <2>6. VersionCurrent' /\ LinkedCurrent'
    BY <2>1, <2>2 DEF VersionCurrent, LinkedCurrent
  <2>7. NothingLost'
    BY <2>1, <2>3 DEF NothingLost, IsLive, IsKept
  <2> QED
    BY <2>4, <2>5, <2>6, <2>7
<1>4. CASE UNCHANGED vars
  BY <1>4 DEF vars, Uploading, StagedApart, NoParts, IsFile, VersionCurrent, LinkedCurrent, IsKept, IsLive, NothingLost, vars
<1> QED
  BY <1>1, <1>2, <1>3, <1>4 DEF Next

\* The tree found at start satisfies the invariant.
LEMMA LockedInit ==
  ASSUME Init PROVE LockedInv
<1>1. OpAtStep /\ StagedApart /\ VersionCurrent /\ LinkedCurrent
  BY DEF Init, OpAtStep, StagedApart, Uploading, VersionCurrent, LinkedCurrent
<1>2. NoParts
  BY DEF Init, NoParts, UnusedSlot, None, Dir, File
<1>3. NothingLost
  BY DEF Init, NothingLost, IsLive, File, None, Dir
<1> QED
  BY <1>1, <1>2, <1>3 DEF LockedInv

\* The invariant holds for ever under the locked operations.
LEMMA LockedInvariant ==
  ASSUME LockedLoad PROVE Spec => []LockedInv
<1>1. Init => LockedInv
  BY LockedInit
<1>2. TypeOK /\ TypeOK' /\ MutationExclusive /\ LockedInv /\ [Next]_vars => LockedInv'
  BY LockedStep
<1> QED
  BY <1>1, <1>2, StorageTypes, StorageMutex, PTL DEF Spec

\* Uploads, no-replace installs and deletes of any number of handlers never lose
\* acknowledged contents: ReplaceFile takes its version and swaps under the
\* mutex, and a delete moves the file to where nothing else writes.
THEOREM StorageNothingLost ==
  ASSUME LockedLoad PROVE Spec => []NothingLost
<1>1. LockedInv => NothingLost
  BY DEF LockedInv
<1> QED
  BY <1>1, LockedInvariant, PTL

\* Under the same workload a file is only ever overwritten by ReplaceFile, after
\* a listed version of that path with those contents exists.
THEOREM StorageOverwriteKeepsVersion ==
  ASSUME LockedLoad PROVE Spec => OverwriteKeepsVersion
<1> DEFINE Kept == \A q \in Paths :
       live[q].kind = "file" /\ live'[q].kind = "file" /\ live'[q] # live[q]
         => \E i \in Ids : kept'[i] = [path |-> q, payload |-> live[q], state |-> "listed"]
<1>1. TypeOK /\ LockedInv /\ [Next]_vars => [Kept]_vars
  <2> SUFFICES ASSUME TypeOK, LockedInv, Next PROVE Kept
    OBVIOUS
  <2> USE DEF LockedInv, None, Dir, File
  <2>1. ASSUME NEW p \in Procs, Request(p) \/ ClientStep(p) \/ HandlerStep(p)
        PROVE  Kept
    <3>1. CASE Swap(p)
      <4> SUFFICES ASSUME NEW q \in Paths, live[q].kind = "file", live'[q] # live[q]
                   PROVE  \E i \in Ids : kept'[i] = [path |-> q, payload |-> live[q], state |-> "listed"]
        OBVIOUS
      <4>1. q = job[p].path /\ kept' = kept
        BY <3>1 DEF Swap, TypeOK
      <4> QED
        BY <3>1, <4>1 DEF Swap, VersionCurrent, IsFile
    <3>2. CASE AbortUpload(p) \/ ReceiveAll(p) \/ StageUpload(p) \/ ReplaceFile(p)
               \/ ReplaceRefused(p) \/ InstallUnlink(p) \/ VersionCopy(p)
               \/ VersionFails(p) \/ RetainMeta(p)
      BY <3>2 DEF AbortUpload, ReceiveAll, StageUpload, FtpStore, HttpUpload, DropLink,
          RemotePull, Stage, ReplaceFile, ReplaceRefused,
                  InstallUnlink, VersionCopy, VersionFails, RetainMeta
    <3>3. CASE Trash(p)
      <4>1. PICK q \in Paths : TrashPath(p, q)
        BY <3>3, TrashBegins
      <4> QED
        BY <4>1 DEF TrashPath, TypeOK
    <3>4. CASE Mkdir(p)
      BY <3>4 DEF Mkdir, TypeOK
    <3>5. CASE MonitorRemove(p)
      BY <3>5 DEF MonitorRemove, TypeOK
    <3>6. CASE InstallFile(p)
      BY <3>6 DEF InstallFile, TypeOK
    <3>7. CASE InstallUnlinkFails(p)
      BY <3>7 DEF InstallUnlinkFails, TypeOK
    <3> QED
      BY <2>1, <3>1, <3>2, <3>3, <3>4, <3>5, <3>6, <3>7, LockedSteps
  <2>2. CASE CleanupParts
    BY <2>2 DEF CleanupParts
  <2>3. CASE Crash
    BY <2>3 DEF Crash, NoParts, ReadOf, TypeOK
  <2> QED
    BY <2>1, <2>2, <2>3 DEF Next
<1> QED
  BY <1>1, LockedInvariant, StorageTypes, PTL DEF Spec, OverwriteKeepsVersion

-----------------------------------------------------------------------------
(***************************************************************************)
(* What is staged, listed and recoverable, for every workload and every    *)
(* failure unless a theorem says otherwise.                                *)
(***************************************************************************)

\* Handlers other than uploads have no staged file, and an upload never takes
\* the steps that return without removing one.
StagedJobs ==
  \A p \in Procs :
    /\ job[p].data \in Data => job[p].op \in {"upload", "install"}
    /\ job[p].op \in {"upload", "install"} =>
         pc[p] \in {"receive", "commit", "version", "meta", "swap", "unlink"}

StagingInv == StagedJobs /\ StagingReclaimed

\* A handler returns having removed its staged file, or had none.
LEMMA StagedReturn ==
  ASSUME TypeOK, StagingInv, NEW p \in Procs, Return(p),
         RemoveStaged(p) \/ (job[p].op \notin {"upload", "install"} /\ staged' = staged)
  PROVE  StagingInv'
<1> USE DEF TypeOK, StagingInv
<1>1. /\ pc'[p] = "idle" /\ job'[p] = NoJob
      /\ \A r \in Procs \ {p} : pc'[r] = pc[r] /\ job'[r] = job[r]
  BY DEF Return
<1>2. StagedJobs'
  BY <1>1, StorageConstants DEF StagedJobs, NoJob, Job
<1>3. StagingReclaimed'
  <2> SUFFICES ASSUME NEW d \in staged'
               PROVE  \E r \in Procs : pc'[r] # "idle" /\ job'[r].data = d
    BY DEF StagingReclaimed
  <2>1. d \in staged /\ d \in Data /\ d # job[p].data
    BY DEF RemoveStaged, StagedJobs
  <2>2. PICK r \in Procs : pc[r] # "idle" /\ job[r].data = d
    BY <2>1 DEF StagingReclaimed
  <2> QED
    BY <1>1, <2>1, <2>2
<1> QED
  BY <1>2, <1>3

\* A handler goes on, with its staged file if it has one.
LEMMA StagedGoesOn ==
  ASSUME TypeOK, StagingInv, NEW p \in Procs, staged' = staged,
         \A r \in Procs : /\ job'[r].op = job[r].op /\ job'[r].data = job[r].data
                          /\ r # p => pc'[r] = pc[r],
         pc'[p] # "idle",
         job[p].op \in {"upload", "install"} =>
           pc'[p] \in {"receive", "commit", "version", "meta", "swap", "unlink"}
  PROVE  StagingInv'
<1> USE DEF TypeOK, StagingInv
<1>1. StagedJobs'
  BY DEF StagedJobs
<1>2. StagingReclaimed'
  BY DEF StagingReclaimed
<1> QED
  BY <1>1, <1>2

\* A request begins that has no staged file.
LEMMA StagedBegins ==
  ASSUME TypeOK, StagingInv, NEW p \in Procs, staged' = staged,
         NEW op \in AllHandlers \ {"upload", "install"}, NEW step,
         NEW q, NEW s, NEW ow, NEW i,
         Start(p, op, step, Job(op, q, s, Nil, ow, i))
  PROVE  StagingInv'
<1> USE DEF TypeOK, StagingInv
<1>1. /\ pc[p] = "idle" /\ job'[p].op = op /\ job'[p].data = Nil
      /\ \A r \in Procs \ {p} : pc'[r] = pc[r] /\ job'[r] = job[r]
  BY DEF Start, Job
<1>2. StagedJobs'
  BY <1>1, StorageConstants DEF StagedJobs
<1>3. StagingReclaimed'
  BY <1>1 DEF StagingReclaimed
<1> QED
  BY <1>2, <1>3

\* Every step, of whatever handler, leaves each staged file with an owner.
LEMMA StagingStep ==
  ASSUME {"crash", "unlink"} \cap Faults = {},
         TypeOK, JobShape, StagingInv, [Next]_vars
  PROVE  StagingInv'
<1>1. ASSUME NEW p \in Procs, ClientStep(p) PROVE StagingInv'
  <2>1. CASE AbortUpload(p)
    BY <2>1, StagedReturn DEF AbortUpload
  <2>2. CASE ReceiveAll(p)
    BY <2>2, StagedGoesOn DEF ReceiveAll, Goto, TypeOK
  <2>3. CASE RenameTo(p)
    BY <2>3, StagedReturn DEF RenameTo, StagingInv, StagedJobs
  <2> QED
    BY <1>1, <2>1, <2>2, <2>3 DEF ClientStep
<1>2. ASSUME NEW p \in Procs, Request(p) PROVE StagingInv'
  <2>0. pc[p] = "idle" /\ job[p].op \notin {"upload", "install"}
    BY <1>2 DEF Request, StageUpload, FtpStore, HttpUpload, DropLink, RemotePull, Stage,
       Trash, FtpDelete, HttpDelete, TrashPath, Mkdir, MonitorRemove, RenameFrom, MoveBegin,
       PatchFile, MoveAction, CopyBegin, RestoreBegin, Start, StagingInv, StagedJobs
  <2>1. CASE StageUpload(p)
    <3>1. PICK q \in Paths, op \in {"upload", "install"} : Stage(p, op, q)
      BY <2>1 DEF StageUpload, FtpStore, HttpUpload, DropLink, RemotePull
    <3>2. PICK d \in Data :
            /\ staged' = staged \cup {d}
            /\ pc' = [pc EXCEPT ![p] = "receive"]
            /\ job' = [job EXCEPT ![p] = Job(op, q, Nil, d, FALSE, Nil)]
      BY <3>1 DEF Stage, Start
    <3>3. /\ pc'[p] = "receive" /\ job'[p].op = op /\ job'[p].data = d
          /\ \A r \in Procs \ {p} : pc'[r] = pc[r] /\ job'[r] = job[r]
      BY <3>2 DEF TypeOK, Job
    <3>4. StagedJobs'
      BY <3>3 DEF StagingInv, StagedJobs
    <3>5. StagingReclaimed'
      <4> SUFFICES ASSUME NEW x \in staged'
                   PROVE  \E r \in Procs : pc'[r] # "idle" /\ job'[r].data = x
        BY DEF StagingReclaimed
      <4>1. CASE x = d
        BY <3>3, <4>1
      <4>2. CASE x \in staged
        BY <2>0, <3>3, <4>2 DEF StagingInv, StagingReclaimed
      <4> QED
        BY <3>2, <4>1, <4>2
    <3> QED
      BY <3>4, <3>5 DEF StagingInv
  <2>2. CASE Trash(p)
    <3>1. PICK q \in Paths : TrashPath(p, q)
      BY <2>2, TrashBegins
    <3> QED
      BY <3>1, StagedBegins DEF TrashPath, AllHandlers
  <2>3. CASE Mkdir(p) \/ MonitorRemove(p)
    BY <2>3 DEF Mkdir, MonitorRemove, StagingInv, StagedJobs, StagingReclaimed
  <2>4. CASE RenameFrom(p)
    BY <2>4, StagedBegins DEF RenameFrom, AllHandlers
  <2>5. CASE MoveBegin(p)
    BY <2>5, StagedBegins DEF MoveBegin, PatchFile, MoveAction, AllHandlers
  <2>6. CASE CopyBegin(p)
    BY <2>6, StagedBegins DEF CopyBegin, AllHandlers
  <2>7. CASE RestoreBegin(p)
    BY <2>7, StagedBegins DEF RestoreBegin, AllHandlers
  <2> QED
    BY <1>2, <2>1, <2>2, <2>3, <2>4, <2>5, <2>6, <2>7 DEF Request
<1>3. ASSUME NEW p \in Procs, HandlerStep(p) PROVE StagingInv'
  <2>1. CASE ReplaceFile(p)
    BY <2>1, StagedGoesOn DEF ReplaceFile, Goto, TypeOK
  <2>2. CASE ReplaceRefused(p) \/ Swap(p) \/ InstallUnlink(p) \/ VersionFails(p) \/ RetainMetaFails(p)
    BY <2>2, StagedReturn DEF ReplaceRefused, Swap, InstallUnlink, VersionFails, RetainMetaFails
  <2>3. CASE InstallFile(p)
    <3>1. CASE Return(p) /\ RemoveStaged(p)
      BY <3>1, StagedReturn
    <3>2. CASE Goto(p, "unlink") /\ UNCHANGED <<staged, job>>
      BY <2>3, <3>2, StagedGoesOn DEF InstallFile, Goto, TypeOK
    <3> QED
      BY <2>3, <3>1, <3>2 DEF InstallFile
  <2>4. CASE InstallUnlinkFails(p)
    <3>1. Return(p) /\ RemoveStaged(p)
      BY <2>4 DEF InstallUnlinkFails, RemoveStaged
    <3> QED
      BY <3>1, StagedReturn
  <2>5. CASE VersionCopy(p)
    <3>1. PICK i \in Ids : job' = [job EXCEPT ![p].id = i]
      BY <2>5 DEF VersionCopy, FreshIds
    <3>2. job'[p].op = job[p].op /\ job'[p].data = job[p].data
      BY <3>1 DEF TypeOK, Jobs
    <3>3. /\ pc[p] = "version" /\ pc'[p] = "meta" /\ staged' = staged
          /\ \A r \in Procs \ {p} : pc'[r] = pc[r] /\ job'[r] = job[r]
      BY <2>5, <3>1 DEF VersionCopy, Goto, TypeOK
    <3> QED
      BY <3>2, <3>3, StagedGoesOn
  <2>6. CASE RetainMeta(p)
    <3>1. CASE job[p].op = "trash"
      BY <2>6, <3>1, StagedReturn DEF RetainMeta
    <3>2. CASE job[p].op # "trash"
      <4>1. /\ pc[p] = "meta" /\ pc' = [pc EXCEPT ![p] = AfterVersion(job[p].op)]
            /\ UNCHANGED <<job, staged>>
        BY <2>6, <3>2 DEF RetainMeta, Goto
      <4>2. /\ AfterVersion(job[p].op) \in {"swap", "rename", "open"}
            /\ job[p].op \in {"upload", "install"} => AfterVersion(job[p].op) = "swap"
        BY <3>2, <4>1 DEF AfterVersion, JobShape
      <4> QED
        BY <4>1, <4>2, StagedGoesOn DEF TypeOK
    <3> QED
      BY <3>1, <3>2
  <2>7. CASE MoveRename(p) \/ CopyFinish(p) \/ CopyFails(p) \/ RestoreForget(p)
    BY <2>7, StagedReturn DEF MoveRename, CopyFinish, CopyFails, RestoreForget, StagingInv, StagedJobs
  <2>8. CASE CopyOpen(p)
    <3>1. CASE Return(p)
      BY <2>8, <3>1, StagedReturn DEF CopyOpen, StagingInv, StagedJobs
    <3>2. CASE Goto(p, "write") /\ job' = [job EXCEPT ![p].from = ReadOf(live[job[p].src])]
      <4>1. job'[p].op = job[p].op /\ job'[p].data = job[p].data
        BY <3>2 DEF TypeOK, Jobs
      <4>2. job[p].op \notin {"upload", "install"}
        BY <2>8 DEF CopyOpen, StagingInv, StagedJobs
      <4>3. /\ pc[p] = "open" /\ pc'[p] = "write" /\ staged' = staged
            /\ \A r \in Procs \ {p} : pc'[r] = pc[r] /\ job'[r] = job[r]
        BY <2>8, <3>2 DEF CopyOpen, Goto, TypeOK
      <4> QED
        BY <4>1, <4>2, <4>3, StagedGoesOn
    <3> QED
      BY <2>8, <3>1, <3>2 DEF CopyOpen
  <2>9. CASE RestoreClear(p)
    BY <2>9, StagedGoesOn DEF RestoreClear, Goto, TypeOK, StagingInv, StagedJobs
  <2>10. CASE RestorePlace(p)
    <3>1. CASE Return(p)
      BY <2>10, <3>1, StagedReturn DEF RestorePlace, StagingInv, StagedJobs
    <3>2. CASE Goto(p, "forget") /\ UNCHANGED job
      BY <2>10, <3>2, StagedGoesOn DEF RestorePlace, Goto, TypeOK, StagingInv, StagedJobs
    <3> QED
      BY <2>10, <3>1, <3>2 DEF RestorePlace
  <2> QED
    BY <1>3, <2>1, <2>2, <2>3, <2>4, <2>5, <2>6, <2>7, <2>8, <2>9, <2>10 DEF HandlerStep
<1>4. CASE CleanupParts
  BY <1>4 DEF CleanupParts, StagingInv, StagedJobs, StagingReclaimed
<1>5. CASE UNCHANGED vars
  BY <1>5 DEF vars, StagingInv, StagedJobs, StagingReclaimed
<1> QED
  BY <1>1, <1>2, <1>3, <1>4, <1>5 DEF Next, Crash

\* No error path of any operation leaks a staged file, whatever else is going
\* on: it is gone when its handler returns, unless the daemon dies or the file
\* system refuses to remove it.
THEOREM StorageStagingReclaimed ==
  ASSUME {"crash", "unlink"} \cap Faults = {}
  PROVE  Spec => []StagingReclaimed
<1>1. Init => StagingInv
  BY StorageConstants DEF Init, StagingInv, StagedJobs, StagingReclaimed, NoJob, Job
<1>2. TypeOK /\ JobShape /\ StagingInv /\ [Next]_vars => StagingInv'
  BY StagingStep
<1>3. StagingInv => StagingReclaimed
  BY DEF StagingInv
<1> QED
  BY <1>1, <1>2, <1>3, StorageShapes, PTL DEF Spec

-----------------------------------------------------------------------------
\* retain writes the metadata of a slot that it filled itself and that nobody
\* else has got hold of.
MetaSlots ==
  /\ \A p \in Procs : pc[p] = "meta" =>
       kept[job[p].id].state = "unlisted" /\ kept[job[p].id].payload # None
  /\ \A p, r \in Procs : pc[p] = "meta" /\ pc[r] = "meta" /\ job[p].id = job[r].id => p = r

\* Restore works on entries that have been listed, and a copy in progress has
\* found something to copy.
RestoreSlots ==
  \A p \in Procs :
    /\ pc[p] \in {"clear", "place", "forget"} =>
         kept[job[p].id].state \in {"listed", "emptied", "gone"}
    /\ pc[p] = "write" => job[p].from # None

RetainInv == MetaSlots /\ RestoreSlots /\ ListedHasPayload

\* Handlers that stay clear of the retained entries.
LEMMA RetainFrame ==
  ASSUME TypeOK, JobShape, RetainInv, NEW p \in Procs, kept' = kept,
         \A r \in Procs \ {p} : pc'[r] = pc[r] /\ job'[r] = job[r],
         pc'[p] \notin {"meta", "clear", "place", "forget", "write"}
  PROVE  RetainInv'
<1> USE DEF RetainInv
<1>1. MetaSlots'
  BY DEF MetaSlots
<1>2. RestoreSlots'
  BY DEF RestoreSlots
<1>3. ListedHasPayload'
  BY DEF ListedHasPayload
<1> QED
  BY <1>1, <1>2, <1>3

\* A handler fills an unused slot and goes on to write its metadata.
LEMMA RetainFills ==
  ASSUME TypeOK, JobShape, RetainInv, NEW p \in Procs, NEW i \in FreshIds,
         NEW q, NEW e, e # None,
         kept' = [kept EXCEPT ![i] = [path |-> q, payload |-> e, state |-> "unlisted"]],
         \A r \in Procs \ {p} : pc'[r] = pc[r] /\ job'[r] = job[r],
         pc'[p] = "meta", job'[p].id = i
  PROVE  RetainInv'
<1> USE DEF RetainInv
<1>1. /\ kept[i].state = "unused" /\ kept'[i].payload = e /\ kept'[i].state = "unlisted"
      /\ i \in Ids /\ \A j \in Ids \ {i} : kept'[j] = kept[j]
  BY DEF FreshIds, TypeOK
<1>2. \A r \in Procs \ {p} : pc[r] \in {"meta", "clear", "place", "forget"} =>
         job[r].id \in Ids /\ job[r].id # i
  BY <1>1 DEF MetaSlots, RestoreSlots, JobShape
<1>3. MetaSlots'
  BY <1>1, <1>2 DEF MetaSlots
<1>4. RestoreSlots'
  BY <1>1, <1>2 DEF RestoreSlots
<1>5. ListedHasPayload'
  BY <1>1, <1>2 DEF ListedHasPayload
<1> QED
  BY <1>3, <1>4, <1>5

\* A copy ends, and every name of the file it was writing holds something.
LEMMA RetainPart ==
  ASSUME TypeOK, JobShape, RetainInv, NEW p \in Procs, pc[p] = "write", Return(p),
         NEW e, e # None,
         kept' = [i \in Ids |-> IF kept[i].payload = Part(p)
                                  THEN [kept[i] EXCEPT !.payload = e] ELSE kept[i]]
  PROVE  RetainInv'
<1> USE DEF RetainInv
<1>1. \A i \in Ids : /\ kept'[i].state = kept[i].state
                     /\ kept'[i].payload = None <=> kept[i].payload = None
  <2> SUFFICES ASSUME NEW i \in Ids
               PROVE  /\ kept'[i].state = kept[i].state
                      /\ kept'[i].payload = None <=> kept[i].payload = None
    OBVIOUS
  <2>1. kept[i] \in Slots
    BY DEF TypeOK
  <2>2. CASE kept[i].payload = Part(p)
    <3>1. kept'[i] = [kept[i] EXCEPT !.payload = e]
      BY <2>2
    <3>2. kept'[i].state = kept[i].state /\ kept'[i].payload = e
      BY <2>1, <3>1 DEF Slots
    <3> QED
      BY <2>2, <3>2 DEF Part, None
  <2>3. CASE kept[i].payload # Part(p)
    BY <2>3
  <2> QED
    BY <2>2, <2>3
<1>2. /\ pc'[p] = "idle"
      /\ \A r \in Procs \ {p} : pc'[r] = pc[r] /\ job'[r] = job[r]
  BY DEF Return, TypeOK
<1>3. MetaSlots'
  BY <1>1, <1>2 DEF MetaSlots, JobShape
<1>4. RestoreSlots'
  BY <1>1, <1>2 DEF RestoreSlots, JobShape
<1>5. ListedHasPayload'
  BY <1>1, <1>2 DEF ListedHasPayload
<1> QED
  BY <1>3, <1>4, <1>5

\* Every step keeps a listed entry restorable.
LEMMA RetainStep ==
  ASSUME TypeOK, JobShape, RetainInv, [Next]_vars
  PROVE  RetainInv'
<1> USE DEF Goto, Return, Start
<1>1. ASSUME NEW p \in Procs, ClientStep(p) PROVE RetainInv'
  BY <1>1, RetainFrame DEF ClientStep, AbortUpload, ReceiveAll, RenameTo, TypeOK
<1>2. ASSUME NEW p \in Procs, Request(p) PROVE RetainInv'
  <2>1. CASE StageUpload(p)
    <3>1. PICK q \in Paths, op \in {"upload", "install"} : Stage(p, op, q)
      BY <2>1 DEF StageUpload, FtpStore, HttpUpload, DropLink, RemotePull
    <3> QED
      BY <3>1, RetainFrame DEF Stage, TypeOK
  <2>2. CASE Trash(p)
    <3>1. PICK q \in Paths : TrashPath(p, q)
      BY <2>2, TrashBegins
    <3>2. PICK i \in FreshIds :
            /\ live[q] # None
            /\ Start(p, "trash", "meta", Job("trash", q, Nil, Nil, FALSE, i))
            /\ kept' = [kept EXCEPT ![i] = [path |-> q, payload |-> live[q], state |-> "unlisted"]]
      BY <3>1 DEF TrashPath
    <3>3. /\ pc[p] = "idle" /\ pc'[p] = "meta" /\ job'[p].id = i
          /\ \A r \in Procs \ {p} : pc'[r] = pc[r] /\ job'[r] = job[r]
      BY <3>2 DEF Job, TypeOK
    <3> QED
      BY <3>2, <3>3, RetainFills
  <2>3. CASE Mkdir(p) \/ MonitorRemove(p)
    BY <2>3, RetainFrame DEF Mkdir, MonitorRemove, TypeOK
  <2>4. CASE RenameFrom(p)
    BY <2>4, RetainFrame DEF RenameFrom, TypeOK
  <2>5. CASE MoveBegin(p)
    <3>1. /\ kept' = kept /\ pc[p] = "idle" /\ pc'[p] \in {"version", "rename"}
          /\ \A r \in Procs \ {p} : pc'[r] = pc[r] /\ job'[r] = job[r]
      BY <2>5 DEF MoveBegin, PatchFile, MoveAction, TypeOK
    <3> QED
      BY <3>1, RetainFrame
  <2>6. CASE CopyBegin(p)
    BY <2>6, RetainFrame DEF CopyBegin, TypeOK
  <2>7. CASE RestoreBegin(p)
    <3>1. PICK i \in Ids, q \in Paths, ow \in BOOLEAN :
            /\ kept[i].state \in {"listed", "emptied"}
            /\ Start(p, "restore", IF ow THEN "clear" ELSE "place",
                     Job("restore", q, Nil, Nil, ow, i))
      BY <2>7 DEF RestoreBegin
    <3>2. /\ pc[p] = "idle" /\ pc'[p] \in {"clear", "place"} /\ job'[p].id = i
          /\ \A r \in Procs \ {p} : pc'[r] = pc[r] /\ job'[r] = job[r]
          /\ kept' = kept
      BY <2>7, <3>1 DEF RestoreBegin, Job, TypeOK
    <3>3. MetaSlots'
      BY <3>2 DEF RetainInv, MetaSlots
    <3>4. RestoreSlots'
      BY <3>1, <3>2 DEF RetainInv, RestoreSlots
    <3>5. ListedHasPayload'
      BY <3>2 DEF RetainInv, ListedHasPayload
    <3> QED
      BY <3>3, <3>4, <3>5 DEF RetainInv
  <2> QED
    BY <1>2, <2>1, <2>2, <2>3, <2>4, <2>5, <2>6, <2>7 DEF Request
<1>3. ASSUME NEW p \in Procs, HandlerStep(p) PROVE RetainInv'
  <2>1. CASE ReplaceFile(p) \/ ReplaceRefused(p) \/ Swap(p)
    BY <2>1, RetainFrame DEF ReplaceFile, ReplaceRefused, Swap, TypeOK
  <2>2. CASE InstallFile(p) \/ InstallUnlink(p) \/ InstallUnlinkFails(p)
    BY <2>2, RetainFrame DEF InstallFile, InstallUnlink, InstallUnlinkFails, TypeOK
  <2>3. CASE VersionFails(p) \/ MoveRename(p)
    BY <2>3, RetainFrame DEF VersionFails, MoveRename, TypeOK
  <2>4. CASE VersionCopy(p)
    <3> DEFINE q == job[p].path
    <3>1. PICK i \in FreshIds :
            /\ kept' = [kept EXCEPT ![i] =
                 [path |-> q, payload |-> ReadOf(live[q]), state |-> "unlisted"]]
            /\ job' = [job EXCEPT ![p].id = i]
      BY <2>4 DEF VersionCopy
    <3>2. ReadOf(live[q]) # None
      BY <2>4 DEF VersionCopy, ReadOf, Torn, None
    <3>3. /\ pc[p] = "version" /\ pc'[p] = "meta" /\ job'[p].id = i
          /\ \A r \in Procs \ {p} : pc'[r] = pc[r] /\ job'[r] = job[r]
      BY <2>4, <3>1 DEF VersionCopy, Jobs, TypeOK
    <3> QED
      BY <3>1, <3>2, <3>3, RetainFills
  <2>5. CASE RetainMeta(p)
    <3>1. PICK i \in Ids : i = job[p].id
      BY <2>5 DEF RetainMeta, JobShape
    <3>2. /\ pc[p] = "meta" /\ pc'[p] \in {"idle", "swap", "rename", "open"}
          /\ \A r \in Procs \ {p} : pc'[r] = pc[r] /\ job'[r] = job[r]
      BY <2>5 DEF RetainMeta, AfterVersion, TypeOK
    <3>3. /\ kept'[i].state = "listed" /\ kept'[i].payload = kept[i].payload
          /\ \A j \in Ids \ {i} : kept'[j] = kept[j]
      BY <2>5, <3>1 DEF RetainMeta, Slots, TypeOK
    <3>4. kept[i].payload # None
      BY <3>1, <3>2 DEF RetainInv, MetaSlots
    <3>5. MetaSlots'
      BY <3>1, <3>2, <3>3 DEF RetainInv, MetaSlots, JobShape
    <3>6. RestoreSlots'
      BY <3>2, <3>3 DEF RetainInv, RestoreSlots, JobShape
    <3>7. ListedHasPayload'
      BY <3>2, <3>3, <3>4 DEF RetainInv, ListedHasPayload
    <3> QED
      BY <3>5, <3>6, <3>7 DEF RetainInv
  <2>6. CASE RetainMetaFails(p)
    <3>1. CASE kept' = kept
      BY <2>6, <3>1, RetainFrame DEF RetainMetaFails, TypeOK
    <3>2. CASE kept' = [kept EXCEPT ![job[p].id] = GoneSlot]
      <4>1. PICK i \in Ids : i = job[p].id
        BY <2>6 DEF RetainMetaFails, JobShape
      <4>2. /\ pc[p] = "meta" /\ pc'[p] = "idle"
            /\ \A r \in Procs \ {p} : pc'[r] = pc[r] /\ job'[r] = job[r]
        BY <2>6 DEF RetainMetaFails, TypeOK
      <4>3. /\ kept'[i].state = "gone"
            /\ \A j \in Ids \ {i} : kept'[j] = kept[j]
        BY <3>2, <4>1 DEF GoneSlot, TypeOK
      <4>4. MetaSlots'
        BY <4>1, <4>2, <4>3 DEF RetainInv, MetaSlots, JobShape
      <4>5. RestoreSlots'
        BY <4>2, <4>3 DEF RetainInv, RestoreSlots, JobShape
      <4>6. ListedHasPayload'
        BY <4>2, <4>3 DEF RetainInv, ListedHasPayload
      <4> QED
        BY <4>4, <4>5, <4>6 DEF RetainInv
    <3> QED
      BY <2>6, <3>1, <3>2 DEF RetainMetaFails
  <2>7. CASE CopyOpen(p)
    <3>1. CASE Return(p)
      BY <2>7, <3>1, RetainFrame DEF CopyOpen, TypeOK
    <3>2. CASE /\ IsFile(live[job[p].src]) /\ Goto(p, "write")
               /\ job' = [job EXCEPT ![p].from = ReadOf(live[job[p].src])]
      <4>1. /\ pc[p] = "open" /\ pc'[p] = "write" /\ kept' = kept
            /\ \A r \in Procs \ {p} : pc'[r] = pc[r] /\ job'[r] = job[r]
        BY <2>7, <3>2 DEF CopyOpen, TypeOK
      <4>2. job'[p].from # None
        <5>1. job'[p].from = ReadOf(live[job[p].src])
          BY <3>2 DEF TypeOK, Jobs
        <5> QED
          BY <3>2, <5>1 DEF ReadOf, IsFile, Torn, None
      <4>3. MetaSlots' /\ RestoreSlots'
        BY <4>1, <4>2 DEF RetainInv, MetaSlots, RestoreSlots
      <4>4. ListedHasPayload'
        BY <4>1 DEF RetainInv, ListedHasPayload
      <4> QED
        BY <4>3, <4>4 DEF RetainInv
    <3> QED
      BY <2>7, <3>1, <3>2 DEF CopyOpen
  <2>8. CASE CopyFinish(p)
    <3>1. job[p].from # None
      BY <2>8 DEF CopyFinish, RetainInv, RestoreSlots
    <3> QED
      BY <2>8, <3>1, RetainPart DEF CopyFinish, PartBecomes
  <2>9. CASE CopyFails(p)
    <3>1. Torn # None
      BY DEF Torn, None
    <3> QED
      BY <2>9, <3>1, RetainPart DEF CopyFails, PartBecomes
  <2>10. CASE RestoreClear(p)
    <3>1. /\ pc[p] = "clear" /\ pc'[p] = "place" /\ kept' = kept /\ job' = job
          /\ \A r \in Procs \ {p} : pc'[r] = pc[r]
      BY <2>10 DEF RestoreClear, TypeOK
    <3>2. MetaSlots' /\ RestoreSlots'
      BY <3>1 DEF RetainInv, MetaSlots, RestoreSlots
    <3>3. ListedHasPayload'
      BY <3>1 DEF RetainInv, ListedHasPayload
    <3> QED
      BY <3>2, <3>3 DEF RetainInv
  <2>11. CASE RestorePlace(p)
    <3>1. CASE Return(p) /\ kept' = kept
      BY <2>11, <3>1, RetainFrame DEF RestorePlace, TypeOK
    <3>2. CASE /\ kept' = [kept EXCEPT ![job[p].id].payload = None, ![job[p].id].state = "emptied"]
               /\ Goto(p, "forget") /\ job' = job
      <4>1. PICK i \in Ids : i = job[p].id
        BY <2>11 DEF RestorePlace, JobShape
      <4>2. /\ pc[p] = "place" /\ pc'[p] = "forget"
            /\ \A r \in Procs \ {p} : pc'[r] = pc[r]
        BY <2>11, <3>2 DEF RestorePlace, TypeOK
      <4>3. /\ kept'[i].state = "emptied"
            /\ \A j \in Ids \ {i} : kept'[j] = kept[j]
            /\ kept[i].state \in {"listed", "emptied", "gone"}
        BY <3>2, <4>1, <4>2 DEF TypeOK, Slots, RetainInv, RestoreSlots
      <4>4. MetaSlots'
        <5>1. \A r \in Procs : pc[r] = "meta" => job[r].id \in Ids \ {i}
          BY <4>3 DEF RetainInv, MetaSlots, JobShape
        <5>2. \A r \in Procs : pc'[r] = "meta" => pc[r] = "meta" /\ job'[r].id = job[r].id
          BY <3>2, <4>2
        <5>3. \A r \in Procs : pc[r] = "meta" => kept'[job[r].id] = kept[job[r].id]
          BY <4>3, <5>1
        <5> QED
          BY <5>2, <5>3 DEF RetainInv, MetaSlots
      <4>5. RestoreSlots'
        <5>1. \A r \in Procs : pc'[r] \in {"clear", "place", "forget"} =>
                pc[r] \in {"clear", "place", "forget"} /\ job[r].id \in Ids
          BY <4>2 DEF JobShape
        <5>2. \A r \in Procs : pc'[r] = "write" => pc[r] = "write"
          BY <4>2
        <5>3. \A j \in Ids : kept'[j].state = "emptied" \/ kept'[j] = kept[j]
          BY <4>3
        <5>4. ASSUME NEW r \in Procs, pc'[r] \in {"clear", "place", "forget"}
              PROVE  kept'[job[r].id].state \in {"listed", "emptied", "gone"}
          <6>1. PICK j \in Ids : j = job[r].id
            BY <5>1, <5>4
          <6>2. kept[j].state \in {"listed", "emptied", "gone"}
            BY <5>1, <5>4, <6>1 DEF RetainInv, RestoreSlots
          <6> QED
            BY <5>3, <6>1, <6>2
        <5>5. \A r \in Procs : pc'[r] = "write" => job[r].from # None
          BY <5>2 DEF RetainInv, RestoreSlots
        <5> QED
          BY <3>2, <5>4, <5>5 DEF RestoreSlots
      <4>6. ListedHasPayload'
        BY <3>2, <4>1, <4>2, <4>3 DEF RetainInv, ListedHasPayload
      <4> QED
        BY <4>4, <4>5, <4>6 DEF RetainInv
    <3> QED
      BY <2>11, <3>1, <3>2 DEF RestorePlace
  <2>12. CASE RestoreForget(p)
    <3>1. PICK i \in Ids : i = job[p].id
      BY <2>12 DEF RestoreForget, JobShape
    <3>2. /\ pc[p] = "forget" /\ pc'[p] = "idle"
          /\ \A r \in Procs \ {p} : pc'[r] = pc[r] /\ job'[r] = job[r]
      BY <2>12 DEF RestoreForget, TypeOK
    <3>3. /\ kept'[i].state = "gone" \/ kept'[i] = kept[i]
          /\ kept[i].state \in {"listed", "emptied", "gone"}
          /\ \A j \in Ids \ {i} : kept'[j] = kept[j]
      BY <2>12, <3>1 DEF RestoreForget, GoneSlot, TypeOK, RetainInv, RestoreSlots
    <3>4. MetaSlots'
      BY <3>2, <3>3 DEF RetainInv, MetaSlots, JobShape
    <3>5. RestoreSlots'
      BY <3>2, <3>3 DEF RetainInv, RestoreSlots, JobShape
    <3>6. ListedHasPayload'
      BY <3>1, <3>2, <3>3 DEF RetainInv, ListedHasPayload
    <3> QED
      BY <3>4, <3>5, <3>6 DEF RetainInv
  <2> QED
    BY <1>3, <2>1, <2>2, <2>3, <2>4, <2>5, <2>6, <2>7, <2>8, <2>9, <2>10, <2>11, <2>12
    DEF HandlerStep
<1>4. CASE CleanupParts \/ UNCHANGED vars
  BY <1>4 DEF CleanupParts, vars, RetainInv, MetaSlots, RestoreSlots, ListedHasPayload
<1>5. CASE Crash
  <2>1. \A p \in Procs : pc'[p] = "idle"
    BY <1>5 DEF Crash
  <2>2. MetaSlots' /\ RestoreSlots'
    BY <2>1 DEF MetaSlots, RestoreSlots
  <2>3. ASSUME NEW i \in Ids, kept'[i].state = "listed" PROVE kept'[i].payload # None
    <3>1. kept[i] \in Slots
      BY DEF TypeOK
    <3>2. kept'[i] = [kept[i] EXCEPT !.payload = ReadOf(@),
                       !.state = IF @ = "unlisted" THEN "orphan" ELSE @]
      BY <1>5 DEF Crash
    <3>3. kept[i].state = "listed" /\ kept'[i].payload = ReadOf(kept[i].payload)
      BY <2>3, <3>1, <3>2 DEF Slots
    <3>4. kept[i].payload # None
      BY <3>3 DEF RetainInv, ListedHasPayload
    <3> QED
      BY <3>3, <3>4 DEF ReadOf, Torn, None
  <2> QED
    BY <2>2, <2>3 DEF RetainInv, ListedHasPayload
<1> QED
  BY <1>1, <1>2, <1>3, <1>4, <1>5 DEF Next

\* What the admin pages list can be restored, whatever fails and whenever the
\* daemon dies: no interleaving of deletes, versions, copies in place and
\* restores, of the same entry too, leaves metadata without a payload behind
\* but a restore that has moved the payload out.
THEOREM StorageListedHasPayload == Spec => []ListedHasPayload
<1>1. Init => RetainInv
  BY DEF Init, RetainInv, MetaSlots, RestoreSlots, ListedHasPayload, UnusedSlot
<1>2. TypeOK /\ JobShape /\ RetainInv /\ [Next]_vars => RetainInv'
  BY RetainStep
<1>3. RetainInv => ListedHasPayload
  BY DEF RetainInv
<1> QED
  BY <1>1, <1>2, <1>3, StorageShapes, PTL DEF Spec

-----------------------------------------------------------------------------
\* Every payload is listed, or the handler that will list it is at work, or a
\* crash has ended that handler.
KeptListed ==
  \A i \in Ids : kept[i].payload # None =>
    \/ kept[i].state \in {"listed", "orphan"}
    \/ kept[i].state = "unlisted" /\ \E p \in Procs : pc[p] = "meta" /\ job[p].id = i

\* Only a crash keeps the handler that filled a slot from listing it.
LEMMA KeptListedStep ==
  ASSUME LockedLoad, TypeOK, OpAtStep, NoParts, KeptListed, [Next]_vars
  PROVE  KeptListed'
<1> USE DEF Goto, Return, Start
<1>1. ASSUME NEW p \in Procs, Request(p) \/ ClientStep(p) \/ HandlerStep(p)
      PROVE  KeptListed'
  <2>1. CASE /\ kept' = kept /\ pc[p] # "meta"
             /\ \A r \in Procs \ {p} : pc'[r] = pc[r] /\ job'[r] = job[r]
    BY <2>1 DEF KeptListed
  <2>2. CASE AbortUpload(p) \/ ReceiveAll(p) \/ StageUpload(p)
    BY <2>1, <2>2 DEF AbortUpload, ReceiveAll, StageUpload, FtpStore, HttpUpload, DropLink,
       RemotePull, Stage, TypeOK
  <2>3. CASE Mkdir(p) \/ MonitorRemove(p)
    BY <2>1, <2>3 DEF Mkdir, MonitorRemove
  <2>4. CASE ReplaceFile(p) \/ ReplaceRefused(p) \/ Swap(p) \/ VersionFails(p)
    BY <2>1, <2>4 DEF ReplaceFile, ReplaceRefused, Swap, VersionFails, TypeOK
  <2>5. CASE InstallFile(p) \/ InstallUnlink(p) \/ InstallUnlinkFails(p)
    BY <2>1, <2>5 DEF InstallFile, InstallUnlink, InstallUnlinkFails, TypeOK
  <2>6. CASE \E i \in Ids :
               /\ \A j \in Ids \ {i} : kept'[j] = kept[j]
               /\ kept'[i].state = "unlisted"
               /\ pc[p] # "meta" /\ pc'[p] = "meta" /\ job'[p].id = i
               /\ \A r \in Procs \ {p} : pc'[r] = pc[r] /\ job'[r] = job[r]
    BY <2>6 DEF KeptListed
  <2>7. CASE Trash(p)
    <3>1. PICK q \in Paths : TrashPath(p, q)
      BY <2>7, TrashBegins
    <3> QED
      BY <2>6, <3>1 DEF TrashPath, FreshIds, Job, TypeOK
  <2>8. CASE VersionCopy(p)
    <3>0. PICK i \in Ids :
            /\ kept' = [kept EXCEPT ![i] = [path |-> job[p].path,
                         payload |-> ReadOf(live[job[p].path]), state |-> "unlisted"]]
            /\ job' = [job EXCEPT ![p].id = i]
      BY <2>8 DEF VersionCopy, FreshIds
    <3>1. /\ \A j \in Ids \ {i} : kept'[j] = kept[j]
          /\ kept'[i].state = "unlisted"
          /\ job' = [job EXCEPT ![p].id = i]
      BY <3>0 DEF TypeOK
    <3>2. job'[p].id = i
      BY <3>1 DEF TypeOK, Jobs
    <3> QED
      BY <2>6, <2>8, <3>1, <3>2 DEF VersionCopy, TypeOK
  <2>9. CASE RetainMeta(p)
    <3>1. PICK i \in Ids : i = job[p].id
      BY <2>9 DEF RetainMeta, OpAtStep
    <3>2. /\ kept'[i].state = "listed"
          /\ \A j \in Ids \ {i} : kept'[j] = kept[j]
          /\ \A r \in Procs \ {p} : pc'[r] = pc[r] /\ job'[r] = job[r]
      BY <2>9, <3>1 DEF RetainMeta, TypeOK, Slots
    <3> QED
      BY <3>1, <3>2 DEF KeptListed
  <2> QED
    BY <1>1, <2>2, <2>3, <2>4, <2>5, <2>7, <2>8, <2>9, LockedSteps
<1>2. CASE CleanupParts \/ UNCHANGED vars
  BY <1>2 DEF CleanupParts, vars, KeptListed
<1>3. CASE Crash
  BY <1>3, CrashKeepsPayloads DEF KeptListed
<1> QED
  BY <1>1, <1>2, <1>3 DEF Next

\* The locked operations leave every acknowledged content not merely on the
\* disk: it is at a live path, listed for restore, in the hands of the handler
\* that is about to list it, or in an entry that a crash of the daemon cut short.
THEOREM StorageEverythingRecoverable ==
  ASSUME LockedLoad PROVE Spec => []EverythingRecoverable
<1>1. Init => KeptListed
  BY DEF Init, KeptListed, UnusedSlot
<1>2. TypeOK /\ LockedInv /\ KeptListed /\ [Next]_vars => KeptListed'
  BY KeptListedStep DEF LockedInv
<1>3. LockedInv /\ KeptListed => EverythingRecoverable
  <2> SUFFICES ASSUME LockedInv, KeptListed, NEW d \in acked \ purged, ~IsLive(d)
               PROVE  IsRecoverable(d) \/ \E i \in Ids :
                        kept[i].payload = File(d) /\ kept[i].state = "orphan"
    BY DEF EverythingRecoverable, IsRecoverable
  <2>1. PICK i \in Ids : kept[i].payload = File(d)
    BY DEF LockedInv, NothingLost, IsKept
  <2>2. kept[i].payload # None
    BY <2>1 DEF File, None
  <2> QED
    BY <2>1, <2>2 DEF KeptListed, IsRecoverable
<1> QED
  BY <1>1, <1>2, <1>3, LockedInvariant, StorageTypes, PTL DEF Spec

-----------------------------------------------------------------------------
(***************************************************************************)
(* Under LockedLoad the steps of Storage implement VersionedFiles.         *)
(***************************************************************************)
\* What every step does to the history: it only grows where a slot is filled.
LEMMA HistoryGrows ==
  ASSUME TypeOK, NEW i \in Ids, kept[i].state = "unused", NEW q \in Paths, NEW e \in Entries,
         kept' = [kept EXCEPT ![i] = [path |-> q, payload |-> e, state |-> "unlisted"]]
  PROVE  History' = History \cup {<<q, e>>}
<1> DEFINE Slot == [path |-> q, payload |-> e, state |-> "unlisted"]
<1>1. kept'[i].path = q /\ kept'[i].payload = e /\ kept'[i].state = "unlisted"
  BY DEF TypeOK
<1>2. \A j \in Ids : j # i => kept'[j] = kept[j]
  BY DEF TypeOK
<1>3. ASSUME NEW h, h \in History' PROVE h \in History \cup {<<q, e>>}
  <2>1. PICK j \in Ids : /\ kept'[j].state \in {"unlisted", "orphan", "listed"}
                         /\ h = <<kept'[j].path, kept'[j].payload>>
    BY <1>3 DEF History
  <2> QED
    BY <1>1, <1>2, <2>1 DEF History
<1>4. ASSUME NEW h, h \in History PROVE h \in History'
  <2>1. PICK j \in Ids : /\ kept[j].state \in {"unlisted", "orphan", "listed"}
                         /\ h = <<kept[j].path, kept[j].payload>>
    BY <1>4 DEF History
  <2>2. j # i
    BY <2>1
  <2> QED
    BY <1>2, <2>1, <2>2 DEF History
<1>5. <<q, e>> \in History'
  BY <1>1 DEF History
<1> QED
  BY <1>3, <1>4, <1>5

\* Writing the metadata of an entry changes neither its path nor its payload.
LEMMA HistoryListed ==
  ASSUME TypeOK, NEW i \in Ids, kept[i].state \in {"unlisted", "orphan", "listed"},
         kept' = [kept EXCEPT ![i].state = "listed"]
  PROVE  History' = History
<1>1. \A j \in Ids : kept'[j].path = kept[j].path /\ kept'[j].payload = kept[j].payload
  BY DEF TypeOK, Slots
<1>2. \A j \in Ids : kept'[j].state \in {"unlisted", "orphan", "listed"} <=> kept[j].state \in {"unlisted", "orphan", "listed"}
  BY DEF TypeOK, Slots
<1> QED
  BY <1>1, <1>2 DEF History

-----------------------------------------------------------------------------
\* No entry is dropped, and the entry whose metadata comes next is filled.
SlotsFilled ==
  /\ \A i \in Ids : kept[i].state \notin {"gone", "emptied"}
  /\ \A p \in Procs : pc[p] = "meta" => kept[job[p].id].state # "unused"

\* retain fills a slot of its own before it writes the metadata of the slot.
LEMMA SlotsStep ==
  ASSUME LockedLoad, TypeOK, LockedInv, SlotsFilled, [Next]_vars
  PROVE  SlotsFilled'
<1> USE StorageConstants DEF Goto, Return, Start, LockedInv, TypeOK, OpAtStep, SlotsFilled
<1>1. ASSUME NEW p \in Procs, Request(p) \/ ClientStep(p) \/ HandlerStep(p)
      PROVE  SlotsFilled'
  <2>1. CASE AbortUpload(p) \/ ReceiveAll(p) \/ StageUpload(p)
    <3>1. kept' = kept /\ \A r \in Procs : pc'[r] = "meta" => pc[r] = "meta" /\ job'[r] = job[r]
      BY <2>1 DEF AbortUpload, ReceiveAll, StageUpload, FtpStore, HttpUpload, DropLink,
            RemotePull, Stage
    <3> QED
      BY <3>1
  <2>2. CASE Trash(p)
    <3>1. PICK q \in Paths : TrashPath(p, q)
      BY <2>2, TrashBegins
    <3>2. PICK i \in Ids : /\ kept[i].state = "unused"
                           /\ kept' = [kept EXCEPT ![i] = [path |-> q, payload |-> live[q], state |-> "unlisted"]]
                           /\ pc' = [pc EXCEPT ![p] = "meta"]
                           /\ job' = [job EXCEPT ![p] = Job("trash", q, Nil, Nil, FALSE, i)]
      BY <3>1 DEF TrashPath, FreshIds
    <3>3. job'[p].id = i /\ \A r \in Procs : r # p => job'[r] = job[r] /\ pc'[r] = pc[r]
      BY <3>2 DEF Job
    <3>4. kept'[i].state = "unlisted" /\ \A j \in Ids : j # i => kept'[j] = kept[j]
      BY <3>2
    <3>5. \A r \in Procs : r # p /\ pc[r] = "meta" => job[r].id \in Ids /\ job[r].id # i
      BY <3>2
    <3> HIDE DEF TypeOK
    <3> QED
      BY <3>3, <3>4, <3>5
  <2>3. CASE Mkdir(p) \/ MonitorRemove(p)
    BY <2>3 DEF Mkdir, MonitorRemove
  <2>4. CASE ReplaceFile(p) \/ ReplaceRefused(p) \/ Swap(p) \/ InstallFile(p)
              \/ InstallUnlink(p) \/ InstallUnlinkFails(p) \/ VersionFails(p)
    BY <2>4 DEF ReplaceFile, ReplaceRefused, Swap, InstallFile, InstallUnlink,
                InstallUnlinkFails, VersionFails
  <2>5. CASE VersionCopy(p)
    <3>1. PICK i \in Ids : /\ kept[i].state = "unused"
                           /\ kept' = [kept EXCEPT ![i] =
                                [path |-> job[p].path, payload |-> ReadOf(live[job[p].path]), state |-> "unlisted"]]
                           /\ job' = [job EXCEPT ![p].id = i]
      BY <2>5 DEF VersionCopy, FreshIds
    <3>2. job'[p].id = i /\ \A r \in Procs : r # p => job'[r] = job[r] /\ pc'[r] = pc[r]
      BY <2>5, <3>1 DEF VersionCopy, Jobs
    <3> QED
      BY <3>1, <3>2
  <2>6. CASE RetainMeta(p)
    <3>1. \A j \in Ids : kept'[j].state \in {kept[j].state, "listed"}
      BY <2>6 DEF RetainMeta, Slots
    <3>2. \A r \in Procs : pc'[r] = "meta" => pc[r] = "meta" /\ job'[r] = job[r] /\ r # p
      BY <2>6 DEF RetainMeta, AfterVersion
    <3> QED
      BY <3>1, <3>2
  <2> QED
    BY <1>1, <2>1, <2>2, <2>3, <2>4, <2>5, <2>6, LockedSteps
<1>2. CASE CleanupParts \/ UNCHANGED vars
  BY <1>2 DEF CleanupParts, vars
<1>3. CASE Crash
  <2>1. \A i \in Ids : kept'[i].state \notin {"gone", "emptied"}
    BY <1>3, CrashKeepsPayloads
  <2> QED
    BY <1>3, <2>1 DEF Crash
<1> QED
  BY <1>1, <1>2, <1>3 DEF Next

-----------------------------------------------------------------------------
\* The tree found at start is an initial state of the abstract store.
LEMMA TreeStarts == Init => Files!TreeInit
<1> SUFFICES ASSUME Init PROVE Files!TreeInit
  OBVIOUS
<1>1. live \in [Paths -> {File(d) : d \in Data} \cup {None, Dir}]
  BY DEF Init
<1>2. History = {}
  BY DEF Init, History, UnusedSlot
<1>3. {File(d) : d \in acked} = {live[q] : q \in Paths} \cap {File(d) : d \in Data}
  <2>1. acked = {live[q].data : q \in {r \in Paths : live[r].kind = "file"}}
    BY DEF Init
  <2>2. \A q \in Paths : live[q].kind = "file" => live[q].data \in Data /\ live[q] = File(live[q].data)
    BY <1>1 DEF File, None, Dir
  <2>3. \A d \in Data : File(d).kind = "file" /\ File(d).data = d
    BY DEF File
  <2>4. ASSUME NEW d \in acked PROVE File(d) \in {live[q] : q \in Paths} /\ d \in Data
    <3>1. PICK q \in Paths : live[q].kind = "file" /\ live[q].data = d
      BY <2>1, <2>4
    <3> QED
      BY <2>2, <3>1
  <2>5. ASSUME NEW q \in Paths, NEW d \in Data, live[q] = File(d) PROVE d \in acked
    BY <2>1, <2>3, <2>5
  <2> QED
    BY <2>4, <2>5
<1> QED
  BY <1>1, <1>2, <1>3 DEF Files!TreeInit

\* Every step of the locked operations, failures and crashes included, is a
\* step of the abstract store or leaves what clients see unchanged.
LEMMA TreeStep ==
  ASSUME LockedLoad, TypeOK, LockedInv, SlotsFilled, [Next]_vars
  PROVE  [Files!TreeNext]_(Files!view)
<1> DEFINE Promised == {File(d) : d \in acked}
<1> USE DEF LockedInv, TypeOK, OpAtStep
<1>a. \A d, e : File(d) = File(e) => d = e
  BY DEF File
<1>b. \A d : File(d) # None /\ File(d) # Dir
  BY DEF File, None, Dir
<1>s. ASSUME live' = live, kept' = kept, acked' = acked PROVE UNCHANGED Files!view
  BY <1>s DEF Files!view, History
<1>1. ASSUME NEW p \in Procs, Request(p) \/ ClientStep(p) \/ HandlerStep(p)
      PROVE  Files!TreeNext \/ UNCHANGED Files!view
  <2>1. CASE \/ AbortUpload(p) \/ ReceiveAll(p) \/ StageUpload(p) \/ ReplaceFile(p)
             \/ ReplaceRefused(p) \/ VersionFails(p)
    BY <2>1, <1>s DEF AbortUpload, ReceiveAll, StageUpload, FtpStore, HttpUpload, DropLink,
          RemotePull, Stage, ReplaceFile, ReplaceRefused, VersionFails
  <2>2. CASE Trash(p)
    <3>1. PICK q \in Paths : TrashPath(p, q)
      BY <2>2, TrashBegins
    <3>2. PICK i \in Ids : /\ kept[i].state = "unused"
                           /\ kept' = [kept EXCEPT ![i] = [path |-> q, payload |-> live[q], state |-> "unlisted"]]
      BY <3>1 DEF TrashPath, FreshIds
    <3>3. History' = History \cup {<<q, live[q]>>}
      BY <3>2, HistoryGrows
    <3>4. Files!Delete(q)
      BY <3>1, <3>3 DEF TrashPath, Files!Delete
    <3> QED
      BY <3>4 DEF Files!TreeNext
  <2>3. CASE Mkdir(p)
    <3>1. PICK q \in Paths : live[q] = None /\ live' = [live EXCEPT ![q] = Dir]
      BY <2>3 DEF Mkdir
    <3>2. UNCHANGED <<History, Promised>>
      BY <2>3 DEF Mkdir, History
    <3>3. Files!MakeFolder(q)
      BY <3>1, <3>2 DEF Files!MakeFolder
    <3> QED
      BY <3>3 DEF Files!TreeNext
  <2>4. CASE MonitorRemove(p)
    <3>1. PICK q \in Monitor : live' = [live EXCEPT ![q] = None]
      BY <2>4 DEF MonitorRemove
    <3>2. UNCHANGED <<History, Promised>>
      BY <2>4 DEF MonitorRemove, History
    <3>3. Files!Discard(q)
      BY <3>1, <3>2 DEF Files!Discard
    <3> QED
      BY <3>1, <3>3, StorageConstants DEF Files!TreeNext
  <2>5. CASE Swap(p)
    <3> DEFINE q == job[p].path  d == job[p].data
    <3>1. q \in Paths /\ d \in Data /\ d \notin acked /\ History' = History
      BY <2>5 DEF Swap, StagedApart, Uploading, History
    <3>2. CASE d \in staged /\ CanReplace(File(d), live[q])
      <4>1. live' = [live EXCEPT ![q] = File(d)] /\ acked' = acked \cup {d}
        BY <2>5, <3>2 DEF Swap
      <4>2. live[q] # Dir
        BY <3>2, <1>b DEF CanReplace, None, Dir
      <4>3. live[q] = None \/ <<q, live[q]>> \in History
        <5>1. CASE live[q] # None
          <6>1. IsFile(live[q])
            BY <3>1, <4>2, <5>1 DEF IsFile, Entries, None, Dir, Torn, File, Part
          <6>2. PICK i \in Ids : kept[i] = [path |-> q, payload |-> live[q], state |-> "listed"]
            BY <2>5, <6>1 DEF Swap, VersionCurrent
          <6> QED
            BY <6>2 DEF History
        <5> QED
          BY <5>1
      <4>4. File(d) \notin Promised /\ Promised' = Promised \cup {File(d)}
        BY <3>1, <4>1, <1>a
      <4>5. Files!Replace(q, File(d))
        BY <3>1, <4>1, <4>2, <4>3, <4>4 DEF Files!Replace
      <4> QED
        BY <3>1, <4>5 DEF Files!TreeNext
    <3>3. CASE ~(d \in staged /\ CanReplace(File(d), live[q]))
      BY <2>5, <3>3, <1>s DEF Swap
    <3> QED
      BY <3>2, <3>3
  <2>6. CASE InstallFile(p)
    <3> DEFINE q == job[p].path  d == job[p].data
    <3>1. q \in Paths /\ d \in Data /\ d \notin acked /\ kept' = kept /\ acked' = acked
      BY <2>6 DEF InstallFile, StagedApart, Uploading
    <3>2. CASE live' = live
      BY <3>1, <3>2, <1>s
    <3>3. CASE live[q] = None /\ live' = [live EXCEPT ![q] = File(d)]
      <4>1. File(d) \notin Promised /\ Promised' = Promised /\ History' = History
        BY <3>1, <1>a DEF History
      <4>2. Files!Create(q, File(d))
        BY <3>3, <4>1 DEF Files!Create
      <4> QED
        BY <3>1, <4>2 DEF Files!TreeNext
    <3> QED
      BY <2>6, <3>2, <3>3 DEF InstallFile
  <2>7. CASE InstallUnlink(p)
    <3> DEFINE d == job[p].data
    <3>1. /\ d \in Data /\ live' = live /\ History' = History
          /\ Promised' = Promised \cup {File(d)}
      BY <2>7 DEF InstallUnlink, StagedApart, Uploading, History
    <3>2. Files!Confirm(File(d))
      BY <3>1 DEF Files!Confirm
    <3> QED
      BY <3>1, <3>2 DEF Files!TreeNext
  <2>8. CASE InstallUnlinkFails(p)
    <3> DEFINE q == job[p].path  d == job[p].data
    <3>1. /\ q \in Paths /\ d \notin acked /\ History' = History /\ Promised' = Promised
          /\ live' = [live EXCEPT ![q] = None] /\ live[q] \in {None, Dir, File(d)}
      BY <2>8 DEF InstallUnlinkFails, StagedApart, Uploading, History, LinkedCurrent
    <3>2. live[q] \notin Promised
      BY <3>1, <1>a, <1>b
    <3>3. Files!Withdraw(q)
      BY <3>1, <3>2 DEF Files!Withdraw
    <3> QED
      BY <3>1, <3>3 DEF Files!TreeNext
  <2>9. CASE VersionCopy(p)
    <3> DEFINE q == job[p].path
    <3>1. q \in Paths /\ live[q] # None /\ ReadOf(live[q]) = live[q] /\ live[q] \in Entries
      BY <2>9 DEF VersionCopy, NoParts, ReadOf
    <3>2. PICK i \in Ids : /\ kept[i].state = "unused"
                           /\ kept' = [kept EXCEPT ![i] = [path |-> q, payload |-> live[q], state |-> "unlisted"]]
      BY <2>9, <3>1 DEF VersionCopy, FreshIds
    <3>3. History' = History \cup {<<q, live[q]>>}
      BY <3>1, <3>2, HistoryGrows
    <3>4. Files!Retain(q)
      BY <2>9, <3>1, <3>3 DEF VersionCopy, Files!Retain
    <3> QED
      BY <3>1, <3>4 DEF Files!TreeNext
  <2>10. CASE RetainMeta(p)
    <3>1. job[p].id \in Ids /\ kept[job[p].id].state \in {"unlisted", "orphan", "listed"}
      BY <2>10 DEF RetainMeta, SlotsFilled, Slots
    <3>2. History' = History
      BY <2>10, <3>1, HistoryListed DEF RetainMeta
    <3> QED
      BY <2>10, <3>2 DEF RetainMeta, Files!view
  <2> QED
    BY <1>1, <2>1, <2>2, <2>3, <2>4, <2>5, <2>6, <2>7, <2>8, <2>9, <2>10, LockedSteps
<1>2. CASE CleanupParts \/ UNCHANGED vars
  BY <1>2, <1>s DEF CleanupParts, vars
<1>3. CASE Crash
  <2>1. /\ live' = live /\ acked' = acked
        /\ \A i \in Ids : /\ kept'[i].path = kept[i].path
                          /\ kept'[i].payload = kept[i].payload
                          /\ kept'[i].state = IF kept[i].state = "unlisted" THEN "orphan"
                                              ELSE kept[i].state
    BY <1>3, CrashKeepsPayloads DEF Crash
  <2>2. History' = History
    BY <2>1 DEF History
  <2> QED
    BY <2>1, <2>2 DEF Files!view
<1> QED
  BY <1>1, <1>2, <1>3 DEF Next

\* The storage tree under uploads, no-replace installs, deletes, mkdir and the
\* monitor's removals is an atomic versioned store to its clients.
THEOREM StorageImplementsVersionedFiles ==
  ASSUME LockedLoad PROVE Spec => ImplementsVersionedFiles
<1>1. Init => SlotsFilled
  BY DEF Init, SlotsFilled, UnusedSlot
<1>2. TypeOK /\ LockedInv /\ SlotsFilled /\ [Next]_vars => SlotsFilled'
  BY SlotsStep
<1>3. TypeOK /\ LockedInv /\ SlotsFilled /\ [Next]_vars => [Files!TreeNext]_(Files!view)
  BY TreeStep
<1>4. Init => Files!TreeInit
  BY TreeStarts
<1> QED
  BY <1>1, <1>2, <1>3, <1>4, LockedInvariant, StorageTypes, PTL
     DEF Spec, ImplementsVersionedFiles, Files!TreeSpec
=============================================================================
