------------------------------ MODULE CachePurge ------------------------------
(***************************************************************************)
(* The public files behind the edge cache: what cloudflare/worker.js keeps *)
(* of them, and the purges by which internal/httpapi and the FTP hook try  *)
(* to drop what a change of the tree makes out of date.  A purge is a      *)
(* call to Cloudflare after the change, it may fail or be cut off, and the *)
(* worker may meanwhile hold a response it has fetched and not yet stored. *)
(*                                                                         *)
(* A response is abstracted to its relation to the tree:                   *)
(*   fresh     what the origin would answer now,                           *)
(*   stale     older than a change that has called a purge, or will,       *)
(*   missed    older than a change whose purge failed, or was in flight    *)
(*             when its purge came and so could not be dropped,            *)
(*   unpurged  older than a change that calls no purge.                    *)
(***************************************************************************)

CONSTANTS
  Procs,     \* requests and FTP commands that change the public tree
  Visitors,  \* requests that the worker is answering
  Files,     \* URLs of public files
  Listings,  \* URLs of public directories, with their trailing slash
  Parent,    \* Parent[u]: the listing that shows u (the root is its own)
  Below      \* Below[d]: the URLs below directory d

URLs == Files \cup Listings

ASSUME CacheConstants ==
  /\ Files \cap Listings = {}
  /\ Parent \in [URLs -> Listings]
  /\ Below \in [Listings -> SUBSET URLs]

VARIABLES
  edge,   \* edge[u]: what the cache holds for u
  fill,   \* fill[v]: the response the worker has fetched for visitor v
  pc,     \* pc[p]: the purge call p is about to make
  job     \* job[p]: the paths p has changed

vars == <<edge, fill, pc, job>>

Copies == {"none", "fresh", "stale", "missed", "unpurged"}

TypeOK ==
  /\ edge \in [URLs -> Copies]
  /\ fill \in [Visitors -> [url : URLs, copy : Copies]]
  /\ pc \in [Procs -> {"idle", "tag", "files", "hook"}]
  /\ job \in [Procs -> SUBSET URLs]

Init ==
  /\ edge = [u \in URLs |-> "none"]
  /\ fill \in [Visitors -> [url : URLs, copy : {"none"}]]
  /\ pc = [p \in Procs |-> "idle"]
  /\ job = [p \in Procs |-> {}]

-----------------------------------------------------------------------------
\* What a change of the paths T may show in: the paths, what is below them, and
\* the listings above, as missing parent folders are made.
Affects(T) ==
  T \cup UNION {IF t \in Listings THEN Below[t] ELSE {} : t \in T}
    \cup {d \in Listings : \E t \in T : d = Parent[t] \/ t \in Below[d]}

\* setPublicCacheHeaders puts the tag on files; publicDirectory does not call it.
Tagged == Files

\* Mutant of Named: only the parent listings are named.
NamedListings(T) == {Parent[t] : t \in T}

\* The exact URLs of the fallback.  A directory is named without its trailing
\* slash, an address that only redirects and is never cached.
Named(T) == (T \cap Files) \cup {Parent[t] : t \in T}

\* What the fallback is documented to reach: "exact object and parent-listing
\* URLs".
Promised(T) == T \cup {Parent[t] : t \in T}

\* The URLs whose copies p still has to have dropped.
Owes(p) ==
  CASE pc[p] = "idle"  -> {}
    [] pc[p] = "files" -> Promised(job[p])
    [] OTHER           -> Affects(job[p])

\* The URLs of U that no change but p will have dropped.
OnlyOf(p, U) == U \ UNION {Owes(q) : q \in Procs \ {p}}

\* All copies of the URLs in U, cached or in flight, pass through f.
EachCopy(U, f) ==
  /\ edge' = [u \in URLs |-> IF u \in U THEN f[edge[u]] ELSE edge[u]]
  /\ fill' = [v \in Visitors |->
               IF fill[v].url \in U THEN [fill[v] EXCEPT !.copy = f[@]] ELSE fill[v]]

Outdate == [c \in Copies |-> IF c = "none" THEN c ELSE "stale"]
Miss == [c \in Copies |-> IF c = "stale" THEN "missed" ELSE c]
Unpurge == [c \in Copies |-> IF c = "fresh" THEN "unpurged" ELSE c]

\* Cloudflare drops its copies of U.  A response in flight is stored all the
\* same, so one that waited for this purge, and no other, has been missed.
Dropped(U, waiting) ==
  /\ edge' = [u \in URLs |-> IF u \in U THEN "none" ELSE edge[u]]
  /\ fill' = [v \in Visitors |->
               IF fill[v].url \in waiting THEN [fill[v] EXCEPT !.copy = Miss[@]] ELSE fill[v]]

Changed(p, T, next) ==
  /\ pc[p] = "idle"
  /\ pc' = [pc EXCEPT ![p] = next]
  /\ job' = [job EXCEPT ![p] = T]
  /\ EachCopy(Affects(T), Outdate)

\* upload, uploadChunk, dropLink, dropChunk, fxp, files, fileAction, restoreAPI:
\* the tree has changed and purgePublicPath is called.
HttpMutation(p, T) == Changed(p, T, "tag")

\* store, delete, mkdir, rmdir, renameToPath: the hook starts a goroutine.
FtpMutation(p, T) == Changed(p, T, "hook")

\* adminRetentionPartial: the restore of the admin page calls no purge.
PageRestore(t) ==
  /\ EachCopy(Affects({t}), Unpurge)
  /\ UNCHANGED <<pc, job>>

Ends(p, next) ==
  /\ pc' = [pc EXCEPT ![p] = next]
  /\ job' = IF next = "idle" THEN [job EXCEPT ![p] = {}] ELSE job

\* PurgeTag succeeds, and nothing else is tried.
PurgeTag(p) ==
  /\ pc[p] \in {"tag", "hook"}
  /\ Dropped(Tagged, OnlyOf(p, Owes(p)))
  /\ Ends(p, "idle")

\* PurgeTag fails, or no tag is configured: the exact URLs come next, and what
\* they are not promised to reach is missed.
TagFails(p) ==
  /\ pc[p] = "tag"
  /\ EachCopy(OnlyOf(p, Owes(p) \ Promised(job[p])), Miss)
  /\ Ends(p, "files")

PurgeFiles(p) ==
  /\ pc[p] = "files"
  /\ Dropped(Named(job[p]), OnlyOf(p, Owes(p)))
  /\ Ends(p, "idle")

\* The last call fails: the request was cancelled, the time-out of 15 seconds
\* has passed, Cloudflare refused, or the process ended.
PurgeLost(p) ==
  /\ pc[p] \in {"tag", "files", "hook"}
  /\ EachCopy(OnlyOf(p, Owes(p)), Miss)
  /\ Ends(p, "idle")

\* /api/cloudflare/purge: everything, or the URLs the admin names.
PurgeCloudflare(U) ==
  /\ Dropped(U, {})
  /\ UNCHANGED <<pc, job>>

-----------------------------------------------------------------------------
\* The worker: cache.match has found nothing, which may no longer be so, and the
\* origin answers 200.
Fetch(v, u) ==
  /\ fill[v].copy = "none"
  /\ fill' = [fill EXCEPT ![v] = [url |-> u, copy |-> "fresh"]]
  /\ UNCHANGED <<edge, pc, job>>

\* cache.put, after the response is on its way to the visitor.
Put(v) ==
  LET u == fill[v].url IN
  /\ fill[v].copy # "none"
  /\ edge' = [edge EXCEPT ![u] = fill[v].copy]
  /\ fill' = [fill EXCEPT ![v].copy = "none"]
  /\ UNCHANGED <<pc, job>>

\* max-age=300 has passed.
Expire(u) ==
  /\ edge[u] # "none"
  /\ edge' = [edge EXCEPT ![u] = "none"]
  /\ UNCHANGED <<fill, pc, job>>

Next ==
  \/ \E p \in Procs :
       \/ \E t1, t2 \in URLs : HttpMutation(p, {t1, t2}) \/ FtpMutation(p, {t1, t2})
       \/ PurgeTag(p) \/ TagFails(p) \/ PurgeFiles(p) \/ PurgeLost(p)
  \/ \E t \in URLs : PageRestore(t)
  \/ \E U \in {URLs} \cup {{u} : u \in URLs} : PurgeCloudflare(U)
  \/ \E v \in Visitors : Put(v) \/ \E u \in URLs : Fetch(v, u)
  \/ \E u \in URLs : Expire(u)

Spec == Init /\ [][Next]_vars

-----------------------------------------------------------------------------
Owed(u) == \E p \in Procs : u \in Owes(p)

\* The cache answers with an outdated public file only as long as a change of that
\* file is still calling its purge: no order of changes, purges, fetches and
\* stores of several requests leaves a stale file behind a purge that was meant
\* for it (purgePublicPath, the FTP hook).  It says nothing of a copy that was
\* missed, as defined above.  Nor does it hold for listings, which PurgeTag does
\* not reach, nor for what the restore of the admin page has changed, which
\* calls no purge: there the code does less than TEST_PLAN.md:135 and
\* README.md:124 say.
FilesFresh == \A u \in Files : edge[u] = "stale" => Owed(u)
=============================================================================
