# A TLA+ model of macftpd

macftpd is an FTP/FTPS and HTTP file server in one Go process. This directory
holds TLA+ modules that model the parts of it where concurrency, failures and
restarts decide whether it is correct, TLC configurations that check them on
small instances, and TLAPS proofs of the most important properties for every
instance. `PROJECT.json` lists components, runs, hazards, findings and theorems,
and maps every definition to the source lines it models.

    tlc -workers 2 -config storage_locked.cfg MCStorage
    tlapm StorageProofs.tla

## 1. The system

| Part | State | Operations | Why it is hard |
|---|---|---|---|
| storage (`internal/storage`) | the tree, `._macftpd_uploads`, `._macftpd_trash`, `._macftpd_versions`, `mutationMu` | ReplaceFile, InstallFile, Trash, Version, Restore, Rename, Copy, Remove | FTP and HTTP handlers call it at once; only two operations lock; every operation is several system calls, each of which can fail or be the last one before a crash |
| FTP file commands (`internal/ftpserver`) | session: user, directory, `renameFrom`, `restartOffset` | STOR, APPE, DELE, RMD, MKD, RNFR/RNTO, RETR, LIST | call storage without a common lock |
| HTTP file handlers (`internal/httpapi`) | none between requests | upload, drop links, remote pull, file actions, restore | same |
| chunked uploads (`internal/httpapi`) | part files, `Server.uploads` (reference-counted locks) | uploadChunk, dropChunk, clean-up of old parts | requests repeat, overlap and arrive in any order; the clean-up takes no lock |
| share links (`internal/share`) | `links`, `activeDownloads`, `shares.json` | Create, SetURLPath, Delete, Verify, ReserveDownload, FinishDownload | count, reservation, memory and file must agree through failed saves, deletions and restarts |
| users and groups (`internal/auth`) | `db`, `users.json` | BootstrapAdmin, UpsertUser, DeleteUser, UpsertGroup | a request is checked first and acts later; memory changes even when the save fails |
| passive ports (`internal/ftpserver`, `natpmp`, `upnpigd`) | `nextPort`, listeners, router mappings | PASV/EPSV, PORT/EPRT, transfers, abort, QUIT | a small pool; listener and mapping have different lifetimes |
| FTP sessions (`internal/ftpserver`) | `username`, `user`, `perms`, `authenticated`, `secure`, `restartOffset` | USER, PASS, AUTH, QUIT, REST, the check before every command | sequences of legal commands while an admin changes the account |
| login limiter (`internal/ratelimit`) | failures and lock-out per key | Allow, Fail, Reset | several logins in flight, windows that end |
| activity log (`internal/activity`) | ring of events, append-only file | Add, Recent, load | torn lines, reload, ids that a polling reader relies on |
| cache purge (`internal/cloudflare`, worker) | the edge cache | PurgeTag and its fallback after mutations | a purge races a fill, fails or is lost |
| session tracker, cookies, configuration, templates, scripts | | | one map, signed values, read once, presentation, deployment |

Interactions. Sessions and requests are goroutines that share one `storage.Root`,
one `auth.Store`, one `share.Store`, the passive ports and the router. Uploads of
every kind stage a file and hand it to `ReplaceFile` or `InstallFile`; deletions
go through `Trash`; admin moves and copies call `Version` and then `Rename` or
`Copy`. The HTTP share handler reserves a download, streams, and finishes it.
Every password check asks the limiter first and reports to it afterwards. Changes
of public files call Cloudflare, from the HTTP handler itself or from a goroutine
that the FTP hook starts; the worker fills the cache on its own.

What makes each part correct: no contents are lost by an overwrite, delete or
crash and retained data can be restored (storage); what is committed is exactly
what the client has (chunks); a limit of n means n deliveries (links); an admin
can always log in (users); neither ports nor mappings leak, and an announced port
works (passive); a session acts only for an account whose password it gave and
with the permissions that account has now (sessions); a lock-out lasts its time
(limiter); a resumed transfer continues the same file (transfers); no purge
that succeeds leaves an outdated file behind (cache); a torn write costs little and ids
never repeat in what can be read (activity); nothing waits for ever (all).

## 2. Modules

### Storage

A handler `p` has a program counter `pc[p]` and its locals `job[p]`; every system
call that reads or changes the shared tree is one step. `live` is the tree,
`kept` the trash and the versions, `staged` the upload directory, `mu` is
`mutationMu`. A file's bytes are one token; a path is an opaque name. A retained
entry is *unlisted* while its payload is there and `.macftpd-retain.json` is not,
*orphan* if a crash has cut that short, *listed* with its metadata, *emptied* when
a restore has moved the payload out and the metadata is still there (its removal
may fail), and *gone* at last.

* Uploads (STOR, APPE, HTTP upload, drop link, remote pull): `StageUpload`,
  `ReceiveAll` or `AbortUpload`, then `ReplaceFile`, `VersionCopy`, `RetainMeta`,
  `Swap` under the mutex, or `InstallFile` and `InstallUnlink`.
* Deletions: `Trash` (rename into the trash), `RetainMeta`, or `RetainMetaFails`
  with its rollback.
* `RenameFrom`/`RenameTo`, `MoveBegin`/`MoveRename`, `CopyBegin`/`CopyOpen`/
  `CopyFinish`, `RestoreBegin`/`RestoreClear`/`RestorePlace`/`RestoreForget`,
  `Mkdir`, `MonitorRemove`, `CleanupParts`.
* `Crash` ends all handlers and leaves the disk as it is.
* `Faults` are failing calls. `"remove"`: the errors that Restore ignores, of
  RemoveAll and of removing the metadata. `"stalled"`: a client sends nothing for a
  day, and `CleanupParts`, which goes by age only, takes its staged file away.

`acked` and `purged` are history: contents that were put in place, and those a
monitor clean-up removed on purpose. `acked` is set when the file is in place,
even if a later `Chmod` makes the handler answer 500.
`Handlers` and `Faults` select which operations and failures an instance has.

### ChunkUpload

The bytes of the client's file are their positions, so that a part file shows
what is missing, doubled or misplaced. `lockUpload` is modelled with its lock
objects, reference counts and map entries (`LockRef`, `LockAcquire`, `Unlock`,
`Unref`); the handler opens the part, compares its size with the offset, copies
at most one byte more than allowed, truncates or commits. `SweepSee` and
`SweepRemove` are the clean-up: an age seen, and a removal by name later. A file
that was unlinked while open (`p \notin open`) swallows writes. `Commit` is one step:
the Link and the Remove of `InstallFile` are two steps in Storage only (section 5).

### ShareStore

Every method is one step under `Store.mu`. `disk` is `shares.json`; a failed
save changes memory only. A download is `Verify`, `ReserveDownload`, `ServeFile`,
`FinishDownload`. `served` counts deliveries that `RecordableDownload` calls
complete; range requests that do not reach the end of the file are not counted
by the code and not by the model. Tokens and passwords are taken as right.

### AuthStore

Requests are let in by `RequireAdmin` and make their change later, so an admin
who has just been deleted may still act. Of permissions only Admin is kept, of
passwords whether one is set; `TypeOK` includes that every account kept, in memory
and in the file, has one. `Start` is `load` and `BootstrapAdmin`, which
recreates the bootstrap user if it was deleted.

### PassivePorts

A session serves one command at a time; listening, mapping, accepting and
unmapping are separate steps. NAT-PMP and UPnP are one router that can refuse.
Sockets are bound with SO_REUSEADDR (Go's default), so a port is free as soon as
its listener is closed. The lifetime of a mapping (an hour) is longer than the
idle timeout, so expiry is left out. With no configured range the system picks
the port and there is nothing to share; this case is not modelled.
`HandshakeFails` is the nil connection that `beginDataTransfer` closes: nothing
recovers from the panic, so the process ends and starts anew.

### VersionedFiles

What uploads, deletes and folders promise, without system calls: `current` (what
a path shows), `history` (what the trash and the versions hold) and `promised`
(confirmed uploads). Replacing a file, deleting one, creating one that may not
overwrite are single steps. `Storage` instantiates it as `Files` (`current` is
`live`, `history` the entries of `kept` listed or about to be) and
`ImplementsVersionedFiles` says that each step on the disk is a step of the
abstract store or none.

### RateLimiter and FtpSession

`RateLimiter` keeps times relative to now: `first` and `seen` are the ages of
FirstFailed and LastSeen, `left` is what remains of LockedUntil, so that the clock
needs no bound. `Allow`, then `Fail`, `Reset` or `NoVerdict` (a share link that
turns out to be expired) are separate steps, because the password is checked
without the limiter's mutex. `FtpSession` extends it: `PassBegins` is `Allow`,
`PassFails` is `Fail`, `PassSucceeds` is `Reset`; `account` is the store an admin
edits meanwhile (`EditAccount`). A command that needs permission `p` is
`Command(s, p)`, guarded by what `requireAuthPerm` reads at that moment. All
sessions come from one host, so a limiter key is a name as it was sent, trimmed and
in lower case; `Normal` is NormalizeName, which may lead several keys to one
account. The theorems hold for any such function.

### FtpTransfer

One path with its bytes, each marked with the session that sent it. `Store` is
STOR or APPE up to the Stat and the offset checks; `StageCurrent` opens the file
later and copies and cuts it; `Receive` and `Commit` come after that. `Retrieve`
opens and seeks, `Deliver` is any number of bytes that arrive. `rest` is the REST
offset; `Denied` is a transfer that `requireAuthPerm` refuses, which leaves it.
`asked`, `got`, `same`, `refused` and `raced` are history about clients. Creating
the parent directories is left out.

### CachePurge

A cached or fetched response is *fresh*, *stale* (older than a change that calls a
purge), *missed* (older than a change whose purge failed, or in flight when that
purge came) or *unpurged* (older than a change that calls no purge). A mutation
outdates the copies of everything it may show in (`Affects`); `PurgeTag` drops what
carries the tag, `PurgeFiles` the exact URLs (`Named`), while `Promised` is what the
documents say the fallback reaches. `PurgeLost` is a failed, cancelled or timed-out
call. A change owes the purge of its URLs until its last call (`Owes`); a copy stays
stale if that call did not reach it. `Fetch` and `Put` are the worker: a response may
be stored after the purge that should have removed it. `Expire` is max-age.
`FilesFresh` is about files; listings stay stale after a purge by tag (section 5).

### ActivityLog

Events are numbered by `n` (history) next to their `id`; those of the monitor and of
maintenance probes are `hidden`. A write can be cut (`AppendTorn`), and the next line
then continues it. `Crash` ends the process, also while it loads; `LoadLine` is one
turn of the loop in `load`, `Loaded` the start of the servers. `Poll` is the reader of
`/api/activity` that passes the newest id it has seen: `Recent` scans the ring,
`Shown` drops the hidden events, `Page` keeps the newest of the rest. A reader with
`after` cannot ask for what was cut off at the old end of a full page; `gap` is the
oldest id on the last full one.

## 3. Runs

| Run | Bounds | Shows |
|---|---|---|
| storage_locked | 3 handlers, 1 path, 3 contents, 2 retained ids; stat, copy, unlink failures, stalled clients and crashes | `NothingLost`, `EverythingRecoverable`, `OverwriteKeepsVersion`, `ImplementsVersionedFiles` |
| storage_all | 2 handlers, 2 paths, 2 contents, 2 ids; rename, move, copy and restore too; copy, metadata, write and remove failures, stalled clients | `MutationExclusive`, `ListedHasPayload` |
| storage_ends | 2 handlers, 1 monitor path, 3 contents; stat and copy failures, no crashes; fair | `StagingReclaimed`, `RequestsEnd` |
| share_links | 2 links, limits 0 to 2, 2 requests, at most 3 deliveries; failed saves, restarts | `LimitHeld`, `ReservationsExact`, `DeliveriesWithinLimit`, `CreatedSurvives`, `DeletedStaysDeleted` |
| chunk_uploads | 2 handlers, one file of 2 bytes, chunks of up to 2 bytes; failing I/O and commits, crashes; fair | `Assembled`, `PartIsPrefix`, `UploadExclusive`, `LocksReclaimed`, `ChunksAnswered` |
| auth_admins | 2 users, 1 group, 2 requests; failed saves, restarts | `AdminRemains`, `RestartKeepsAdmin` |
| passive_ports | 3 sessions, 2 ports; refused mappings and unmappings, failed handshakes | `ListenersReclaimed`, `MappingsReleased` |
| ftp_sessions | 2 sessions, 2 accounts, 1 permission, TLS required; 1 failure locks for 1 tick, window of 2 | `LoginProven`, `RevokedStops`, `FailuresBounded`, `LockExact` |
| ftp_transfers | 2 sessions, a file of up to 2 bytes | `ResumedDownload`, `HolesNeedRace` |
| cache_purge | 2 changes of up to 2 paths, 1 cache fill, a root with a folder with a file | `FilesFresh` |
| activity_log | 5 events, a ring of 3, pages of 2 | `IdsIncrease`, `TornCostsOne`, `PollComplete` |
| passive_reuse | as passive_ports, without failures | a violation, section 5 |

Why the bounds are enough. The storage hazards are a pair of handlers on one path
with a third contents to overwrite them by; two ids are two retained entries, and
`storage_locked` has a third handler so that one waits while one holds the mutex
and one deletes. `DeliveriesWithinLimit` needs two requests for one last download
and one delivery beyond the largest limit. Two bytes with chunks of zero to two
bytes give every overlap of two requests, an exact end and an end one byte
beyond. Two admins are the last one and one more. Three sessions on two ports
make the pool run out and a port change hands. Two sessions are enough for one
to fail while the other is being checked, and a window longer than the lock-out
lets a lock end inside it; a limit of 1 makes every failure a lock, and the
theorems cover every other limit. Two bytes are a file, a resumed half and a
replacement that is shorter. Two changes are one purge that overtakes another,
and one fill in flight is what a purge can miss. Five events overflow a
ring of three, so that events are dropped, lost and reloaded, and a full ring is more
than a page, hidden events or not. What is proved
needs no bound.

Deadlock is checked except in the storage runs, where every contents and every id
is used once, so that a workload ends when it has used them up, and in
passive_reuse, which stops at its violation.

Fairness. `FairSpec` gives strong fairness to the steps of a handler that wait
for nothing but a mutex: the Go scheduler runs every runnable goroutine, and
`sync.Mutex` hands itself to a waiter that was passed over for a millisecond. No
fairness is assumed of clients, of new requests or of failures. In ChunkUpload
the end of the sweep is fair too: it reads the directory once.

## 4. Proofs

The theorems hold for any number of handlers, paths, contents, links, sessions
and ports; the constants' assumptions are named in the modules that declare them.

* `StorageProofs`. `StorageTypes` and `StorageMutex` hold for every workload;
  they need `JobShape`, which says which locals are set at which step.
  `StorageNothingLost` and `StorageOverwriteKeepsVersion` assume `LockedLoad`: the
  operations are uploads, installs, deletes, directories and monitor clean-ups,
  and metadata writes do not fail; crashes and all other failures are included.
  `LockedInv` adds that a staged file is nowhere else, that the version a handler
  in ReplaceFile has made is of what the path still holds, and that InstallFile's
  link is in place. The other operations violate these properties (section 5).
  `StorageImplementsVersionedFiles`, under `LockedLoad` too: every initial state maps
  to one of the abstract store and every step to one of its steps or to none. It
  rests on `LockedInv`: the `Swap` of an upload is an abstract `Replace` because the
  version in `kept` is of what the path still shows.
  `StorageStagingReclaimed`, for every workload without crashes in which unlinks
  succeed, needs `StagedJobs`: only uploads own a staged file, and they are never at a
  step that returns without removing it. `StorageListedHasPayload`, for every
  workload, fault and crash, needs `MetaSlots` (the slot whose metadata a handler is
  about to write was filled by it and is in no other handler's hands) and
  `RestoreSlots` (Restore only works on entries that were listed).
  `StorageEverythingRecoverable`, under `LockedLoad`, adds `KeptListed` to
  `NothingLost`: a payload is listed, or its handler is about to, or a crash has cut
  that handler short.
* `ChunkUploadProofs`. `LockInv`: each lock belongs to one upload, `refs` is the
  number of handlers that count on it, the holder is one of them. `DataInv` on
  top: a handler between opening and copying knows that the part, if it still has
  its name, is the prefix its request continues. From both follow `ChunksAssemble`,
  `ChunkPartsResumable`, `ChunkMutex`, `ChunkLocksReclaimed`.
* `ShareStoreProofs`. `ShareInv` adds that the count on disk is within the limit
  too, so that a restart cannot break it. `ShareReservations` counts with
  finite-set theorems. `RecordInv` relates memory, file and what was reported, for
  `ShareCreatedSurvives` and `ShareDeletedStaysDeleted`. `ShareDeliveries` needs
  more: `DeliveryInv` says that deliveries are counted or about to be, and that
  those under way still fit within the limit; the second part is what remains true
  of a link that is deleted meanwhile.
* `AuthStoreProofs`. `AuthInv`: requests are in progress only while the daemon is
  up, every user kept has a password, and memory and file each have an admin. The
  theorems assume that no group loses the admin permission (`"revoke"`).
* `FtpSessionProofs`. `LimiterTypes`, `LimiterLockExact` and `LimiterFailuresBounded`
  are about the limiter alone, for any limit, window, lock-out and trim interval.
  `LockKept` says that the longer ago an entry was seen, the less of its lock is
  left, so that a trim, which looks only at LastSeen, never drops a running lock.
  `FailureInv` bounds the failures of an entry by its age: `Earned(a)` is what `a`
  ticks account for (the failures before the first lock, and one per client for
  every lock-out that fits into `a`); under a lock the checks in progress count as
  failures already, because no other check can begin before it ends.
  `SessionsRespectLimiter` shows that the sessions implement the limiter's
  specification, which gives them `SessionLockExact` and `SessionFailuresBounded`.
  `SessionLoginProven` and `SessionRevokedStops` need that a session in the middle
  of PASS is checking the name it has, and that a login has an account.
  The last part is about the sessions' passive ports, with `PassiveInv` and
  `PortShape`: a session has a port exactly at the steps that need one.
* `FtpTransferProofs`, for any number of sessions and any file length.
  `TransferTypes`. `TransferHolesNeedRace` rests on `HoleInv`: until the first race
  neither the file nor a stage has a gap, and an offset that was checked still fits
  the file as long as nobody has changed it (`StillFits`). `TransferResumedDownload`
  rests on `OffsetKnown` (the session applies the offset its client means, unless a
  refused transfer left one) and `ResumeInv` (what is being sent continues what the
  client has).
* `ActivityLogProofs`, for any ring that is scanned in full, any page and any number of
  events, whichever of them are hidden. Ids and event numbers grow along the file (`FileInv`); while `load` runs,
  `nextID` lies between the lines read and those to come (`NextInv`), so the ring is
  in order too and holds lines of the file (`RingInv`). `ActivityPollComplete` needs
  the claim for the file as well as for the ring (`ReaderInv`), since a restart
  takes the ring from the file. `ActivityTornCostsOne` needs that a cut line which is
  still open has not cost its second event yet (`TornInv`).
* `CachePurgeProofs`. `CacheTypes` and `CacheFilesFresh`, for any tree of files and
  listings. The invariant says of responses in flight what `FilesFresh` says of
  cached ones: a stale one belongs to a change that is still purging.

Every safety property of a passing run is stated by a theorem. Only model-checked:
liveness under fairness (`RequestsEnd`, `ChunksAnswered`), which is out of the prover's reach. Where a theorem has hypotheses (`LockedLoad`, no crash, no
`"revoke"`), they are those of the run that checks the property, and section 5 says
what happens without them.

## 5. Where code and documents disagree

`passive_reuse` finds that a listener is closed before its port is unmapped, by a new
PASV (`closePassive`, the trace TLC shows) as well as at the end of a transfer; a
session that gets the port meanwhile, and announces it, loses its mapping.

Known limits. The model has these behaviours; the passing runs and the theorems
leave out the operation named, or excuse what it does, so that the properties hold
of everything else.

* Move (`Handlers` with `"move"`, `NothingLost`): an admin move versions the
  destination and renames without `mutationMu`. `VersionCopy` of the move, a whole
  upload up to `Swap` at the same path, then `MoveRename`: the upload is nowhere.
* RNTO (`"rename"`, `OverwriteKeepsVersion`): `RenameTo` over an existing file keeps
  no version of it.
* A crash inside a delete (`"trash"` and `"crash"`): `retain` renames first and writes
  the metadata later; after a crash in between the file is in the trash, and no page
  lists or restores it. `EverythingRecoverable` allows these orphans by name.
* Restore (`"restore"`, `NothingLost`): with overwrite it removes the destination
  without a version and before it renames the payload, so an upload that commits in
  between is destroyed. Where the removal of the metadata fails (its error is
  ignored), the entry stays listed without a payload (*emptied*); restoring it again
  with overwrite removes the file the first restore had put there and then fails.
* The rollback of a failed delete (`"meta"`) can rename over a newer upload.
* Chunked drop uploads: a crash between InstallFile's Link and Remove leaves the part
  as a second name of the destination until the clean-up; a further chunk of that
  upload would write into the destination until it is truncated. ChunkUpload's
  `Commit` has no such window.
* Groups (`"revoke"`, `AdminRemains`): `UpsertGroup` can take the permission from the
  group that made the last admin one.
* REST (`HolesNeedRace`, `raced`): the size is checked before the file is opened; a
  shorter file put there in between is extended with zero bytes. A transfer that
  is refused for lack of permission leaves its offset for the next one (`refused`).
* Cache, listings: `TEST_PLAN.md:135` asks that after a mutation through HTTP and FTP
  neither the object nor its listing is stale. Listings carry no tag
  (`setPublicCacheHeaders` is called for files only), and the fallback is not tried
  when the purge by tag succeeds: two steps, `HttpMutation` and `PurgeTag`, leave the
  cached listing of the folder stale until it expires, and `FilesFresh` would fail if
  it ranged over listings. The fallback names a directory without its trailing slash,
  which is not the cached URL.
* Cache, restores: `README.md:124` says that successful public mutations purge, as
  does `SECURITY.md:14`; a restore from the admin page (`PageRestore`) purges nothing,
  and its copies are *unpurged* until they expire.
* Cache, races: a response fetched before a change can be stored after its purge.
* Activity: events cut off at the old end of a full page cannot be asked for with
  `after` (`gap`). The ids of lost lines are used again after a restart, so a reader that
  has seen them skips as many events (`rewound`). A line of more than a megabyte,
  which the model leaves out, makes `load` fail and the daemon not start.

## 6. Not modelled

The wire formats of FTP, NAT-PMP, UPnP and HTTP; password hashing, signatures and
TLS; listings, statistics and pages; directory trees in Storage (a directory has no
children there) and mounts; file modes and clock resolution; scripts. Path
resolution is a function on strings without state of its own. The loop that keeps
the control port mapped (`maintainUPnPTCP`) retries for ever and meets the sessions
only in the discovered gateway. The session tracker is one map under one mutex.

## 7. Plan

Done: the modules above with their runs and proofs. Left, in this order:

1. Weaker hypotheses: `StorageNothingLost` with restores to another path.
2. `PathResolve`: virtual to real paths and mounts as functions, checked against a
   reference definition.
