--------------------------- MODULE CachePurgeProofs ---------------------------
(***************************************************************************)
(* FilesFresh for any tree, any number of changes and any number of        *)
(* fetches in flight.  The cache alone is not inductive: a response that   *)
(* is stale in flight becomes stale in the cache, so the invariant speaks  *)
(* of both.                                                                *)
(***************************************************************************)
EXTENDS CachePurge, TLAPS

\* What p still has to have dropped after the step.
StillOwes(p) == Owes(p)'

StillOwed(u) == \E p \in Procs : u \in StillOwes(p)

FillsFresh ==
  \A v \in Visitors : fill[v].url \in Files /\ fill[v].copy = "stale" => Owed(fill[v].url)

CacheInv == TypeOK /\ FilesFresh /\ FillsFresh

\* Nothing is cached at the start.
LEMMA CacheStarts == Init => CacheInv
  BY DEF Init, CacheInv, TypeOK, FilesFresh, FillsFresh, Copies, URLs

\* The copies of a response that EachCopy passes through f.
LEMMA CopyTypes ==
  ASSUME TypeOK, NEW U, NEW f \in [Copies -> Copies], EachCopy(U, f)
  PROVE  /\ edge' \in [URLs -> Copies]
         /\ fill' \in [Visitors -> [url : URLs, copy : Copies]]
         /\ \A u \in URLs : edge'[u] = IF u \in U THEN f[edge[u]] ELSE edge[u]
         /\ \A v \in Visitors :
              /\ fill'[v].url = fill[v].url
              /\ fill'[v].copy = IF fill[v].url \in U THEN f[fill[v].copy] ELSE fill[v].copy
<1>1. edge' \in [URLs -> Copies]
  BY DEF TypeOK, EachCopy
<1>2. ASSUME NEW v \in Visitors
      PROVE  /\ fill'[v] \in [url : URLs, copy : Copies]
             /\ fill'[v].url = fill[v].url
             /\ fill'[v].copy = IF fill[v].url \in U THEN f[fill[v].copy] ELSE fill[v].copy
  BY DEF TypeOK, EachCopy
<1>3. fill' \in [Visitors -> [url : URLs, copy : Copies]]
  BY <1>2 DEF EachCopy
<1>4. \A u \in URLs : edge'[u] = IF u \in U THEN f[edge[u]] ELSE edge[u]
  BY DEF EachCopy
<1> QED BY <1>1, <1>2, <1>3, <1>4

\* Miss leaves nothing stale.
LEMMA MissTypes ==
  /\ Miss \in [Copies -> Copies]
  /\ \A c \in Copies : Miss[c] # "stale"
  BY DEF Miss, Copies

\* A purge drops the cached copies of U, and the responses in flight that waited
\* for it are no longer stale but missed.
LEMMA DroppedTypes ==
  ASSUME TypeOK, NEW U, NEW W, Dropped(U, W)
  PROVE  /\ edge' \in [URLs -> Copies]
         /\ fill' \in [Visitors -> [url : URLs, copy : Copies]]
         /\ \A u \in URLs : edge'[u] = IF u \in U THEN "none" ELSE edge[u]
         /\ \A v \in Visitors :
              /\ fill'[v].url = fill[v].url
              /\ fill'[v].copy = "stale" => fill[v].copy = "stale" /\ fill[v].url \notin W
<1>1. ASSUME NEW u \in URLs
      PROVE  edge'[u] \in Copies /\ edge'[u] = IF u \in U THEN "none" ELSE edge[u]
  BY DEF TypeOK, Dropped, Copies
<1>2. ASSUME NEW v \in Visitors
      PROVE  /\ fill'[v] \in [url : URLs, copy : Copies]
             /\ fill'[v].url = fill[v].url
             /\ fill'[v].copy = "stale" => fill[v].copy = "stale" /\ fill[v].url \notin W
  BY MissTypes DEF TypeOK, Dropped
<1>3. edge' \in [URLs -> Copies]
  BY <1>1 DEF Dropped
<1>4. fill' \in [Visitors -> [url : URLs, copy : Copies]]
  BY <1>2 DEF Dropped
<1> QED BY <1>1, <1>2, <1>3, <1>4

\* CacheInv after a step, with the URLs named before it.
LEMMA NextInv ==
  ASSUME TypeOK',
         \A u \in Files : edge'[u] = "stale" => StillOwed(u),
         \A v \in Visitors :
           fill'[v].url \in Files /\ fill'[v].copy = "stale" => StillOwed(fill'[v].url)
  PROVE  CacheInv'
<1>1. FilesFresh' BY DEF FilesFresh, Owed, StillOwed, StillOwes
<1>2. FillsFresh' BY DEF FillsFresh, Owed, StillOwed, StillOwes
<1> QED BY <1>1, <1>2 DEF CacheInv

\* A request that the step does not concern owes what it owed.
LEMMA SameOwes ==
  ASSUME NEW q \in Procs, pc'[q] = pc[q], job'[q] = job[q]
  PROVE  StillOwes(q) = Owes(q)
  BY DEF Owes, StillOwes, Affects, Promised

\* What p stops owing in a step may be forgotten for the URLs that no other change
\* has still to have dropped.
LEMMA OwedLasts ==
  ASSUME NEW p \in Procs, NEW G,
         \A q \in Procs \ {p} : pc'[q] = pc[q] /\ job'[q] = job[q],
         \A u \in Owes(p) : u \in G \/ u \in StillOwes(p),
         NEW u, Owed(u), u \notin OnlyOf(p, G)
  PROVE  StillOwed(u)
<1>1. PICK q \in Procs : u \in Owes(q) BY DEF Owed
<1>2. \A r \in Procs \ {p} : StillOwes(r) = Owes(r) BY SameOwes
<1>3. CASE q # p BY <1>1, <1>2, <1>3 DEF StillOwed
<1>4. CASE q = p /\ u \in G
  <2>1. PICK r \in Procs \ {p} : u \in Owes(r) BY <1>4 DEF OnlyOf
  <2> QED BY <2>1, <1>2 DEF StillOwed
<1>5. CASE q = p /\ u \in StillOwes(p) BY <1>5 DEF StillOwed
<1> QED BY <1>1, <1>3, <1>4, <1>5

\* A step of p that goes on with its purge or ends it keeps the invariant if it
\* leaves nothing stale that p alone owed and no longer owes.
LEMMA PurgeKeeps ==
  ASSUME CacheInv, NEW p \in Procs, NEW x \in {"idle", "files"}, Ends(p, x), NEW G,
         \A u \in Owes(p) : u \in G \/ u \in StillOwes(p),
         edge' \in [URLs -> Copies],
         fill' \in [Visitors -> [url : URLs, copy : Copies]],
         \A u \in Files : edge'[u] = "stale" => edge[u] = "stale" /\ u \notin OnlyOf(p, G),
         \A v \in Visitors :
           /\ fill'[v].url = fill[v].url
           /\ fill'[v].copy = "stale" =>
                fill[v].copy = "stale" /\ fill[v].url \notin OnlyOf(p, G)
  PROVE  CacheInv'
<1>t. /\ pc \in [Procs -> {"idle", "tag", "files", "hook"}]
      /\ job \in [Procs -> SUBSET URLs]
  BY DEF CacheInv, TypeOK
<1>1. /\ pc' = [pc EXCEPT ![p] = x]
      /\ job' = job \/ job' = [job EXCEPT ![p] = {}]
  BY DEF Ends
<1>2. TypeOK' BY <1>1, <1>t DEF TypeOK
<1>3. \A q \in Procs \ {p} : pc'[q] = pc[q] /\ job'[q] = job[q] BY <1>1, <1>t
<1>4. ASSUME NEW u \in Files, edge'[u] = "stale" PROVE StillOwed(u)
  <2>1. Owed(u) BY <1>4 DEF CacheInv, FilesFresh
  <2> QED BY <2>1, <1>3, <1>4, OwedLasts
<1>5. ASSUME NEW v \in Visitors, fill'[v].url \in Files, fill'[v].copy = "stale"
      PROVE  StillOwed(fill'[v].url)
  <2>1. Owed(fill[v].url) BY <1>5 DEF CacheInv, FillsFresh
  <2>2. StillOwed(fill[v].url) BY <2>1, <1>3, <1>5, OwedLasts
  <2> QED BY <2>2
<1> QED BY <1>2, <1>4, <1>5, NextInv

\* A change makes copies stale and owes their purge from then on.
LEMMA ChangedKeeps ==
  ASSUME CacheInv, NEW p \in Procs, NEW T \in SUBSET URLs, NEW x \in {"tag", "hook"},
         Changed(p, T, x)
  PROVE  CacheInv'
<1>t. /\ pc \in [Procs -> {"idle", "tag", "files", "hook"}]
      /\ job \in [Procs -> SUBSET URLs]
      /\ TypeOK
  BY DEF CacheInv, TypeOK
<1>0. Outdate \in [Copies -> Copies] BY DEF Outdate, Copies
<1>1. /\ pc[p] = "idle" /\ pc' = [pc EXCEPT ![p] = x]
      /\ job' = [job EXCEPT ![p] = T] /\ EachCopy(Affects(T), Outdate)
  BY DEF Changed
<1>2. /\ edge' \in [URLs -> Copies]
      /\ fill' \in [Visitors -> [url : URLs, copy : Copies]]
      /\ \A u \in URLs : u \notin Affects(T) => edge'[u] = edge[u]
      /\ \A v \in Visitors :
           /\ fill'[v].url = fill[v].url
           /\ fill[v].url \notin Affects(T) => fill'[v].copy = fill[v].copy
  BY <1>0, <1>1, <1>t, CopyTypes
<1>3. TypeOK' BY <1>1, <1>2, <1>t DEF TypeOK
<1>4. StillOwes(p) = Affects(T)
  <2>1. pc'[p] = x /\ job'[p] = T BY <1>1, <1>t
  <2> QED BY <2>1 DEF StillOwes, Owes, Affects, Promised
<1>5. \A q \in Procs \ {p} : pc'[q] = pc[q] /\ job'[q] = job[q] BY <1>1, <1>t
<1>6. Owes(p) = {} BY <1>1 DEF Owes
<1>7. ASSUME NEW u, u \in Affects(T) \/ Owed(u) PROVE StillOwed(u)
  <2>1. CASE u \in Affects(T) BY <2>1, <1>4 DEF StillOwed
  <2>2. CASE Owed(u)
    <3>1. u \notin OnlyOf(p, {}) BY DEF OnlyOf
    <3>2. \A w \in Owes(p) : w \in {} \/ w \in StillOwes(p) BY <1>6
    <3> QED BY <2>2, <3>1, <3>2, <1>5, OwedLasts
  <2> QED BY <1>7, <2>1, <2>2
<1>8. ASSUME NEW u \in Files, edge'[u] = "stale" PROVE StillOwed(u)
  <2>1. u \in Affects(T) \/ edge[u] = "stale" BY <1>8, <1>2 DEF URLs
  <2>2. u \in Affects(T) \/ Owed(u) BY <2>1 DEF CacheInv, FilesFresh
  <2> QED BY <2>2, <1>7
<1>9. ASSUME NEW v \in Visitors, fill'[v].url \in Files, fill'[v].copy = "stale"
      PROVE  StillOwed(fill'[v].url)
  <2>1. fill[v].url \in Affects(T) \/ fill[v].copy = "stale" BY <1>9, <1>2
  <2>2. fill[v].url \in Files BY <1>9, <1>2
  <2>3. fill[v].url \in Affects(T) \/ Owed(fill[v].url)
    BY <2>1, <2>2 DEF CacheInv, FillsFresh
  <2>4. StillOwed(fill[v].url) BY <2>3, <1>7
  <2> QED BY <2>4, <1>2
<1> QED BY <1>3, <1>8, <1>9, NextInv

\* A step that leaves the changes alone keeps the invariant if it makes nothing
\* stale that was not.
LEMMA CalmKeeps ==
  ASSUME CacheInv, UNCHANGED <<pc, job>>,
         edge' \in [URLs -> Copies],
         fill' \in [Visitors -> [url : URLs, copy : Copies]],
         \A u \in Files : edge'[u] = "stale" => Owed(u),
         \A v \in Visitors :
           fill'[v].url \in Files /\ fill'[v].copy = "stale" => Owed(fill'[v].url)
  PROVE  CacheInv'
<1>1. TypeOK' BY DEF CacheInv, TypeOK
<1>2. \A q \in Procs : StillOwes(q) = Owes(q) BY SameOwes
<1>3. \A u : Owed(u) => StillOwed(u) BY <1>2 DEF Owed, StillOwed
<1> QED BY <1>1, <1>3, NextInv

\* Every step of a change, of the worker or of an admin keeps the invariant.
LEMMA CacheStep == CacheInv /\ [Next]_vars => CacheInv'
<1> SUFFICES ASSUME CacheInv, [Next]_vars PROVE CacheInv' OBVIOUS
<1>t. /\ TypeOK
      /\ \A u \in Files : edge[u] = "stale" => Owed(u)
      /\ \A v \in Visitors :
           fill[v].url \in Files /\ fill[v].copy = "stale" => Owed(fill[v].url)
  BY DEF CacheInv, FilesFresh, FillsFresh
<1>f. /\ fill \in [Visitors -> [url : URLs, copy : Copies]] /\ edge \in [URLs -> Copies]
      /\ pc \in [Procs -> {"idle", "tag", "files", "hook"}]
      /\ job \in [Procs -> SUBSET URLs]
  BY <1>t DEF TypeOK
<1>u. Files \subseteq URLs BY DEF URLs
<1>1. ASSUME NEW p \in Procs, NEW T \in SUBSET URLs,
             HttpMutation(p, T) \/ FtpMutation(p, T)
      PROVE  CacheInv'
  BY <1>1, ChangedKeeps DEF HttpMutation, FtpMutation
<1>2. ASSUME NEW p \in Procs, PurgeTag(p) PROVE CacheInv'
  <2>1. Dropped(Files, OnlyOf(p, Owes(p))) /\ Ends(p, "idle")
    BY <1>2 DEF PurgeTag, Tagged
  <2>2. /\ edge' \in [URLs -> Copies]
        /\ fill' \in [Visitors -> [url : URLs, copy : Copies]]
        /\ \A u \in Files : edge'[u] # "stale"
    BY <2>1, <1>t, <1>u, DroppedTypes
  <2>3. \A v \in Visitors :
          /\ fill'[v].url = fill[v].url
          /\ fill'[v].copy = "stale" =>
               fill[v].copy = "stale" /\ fill[v].url \notin OnlyOf(p, Owes(p))
    BY <2>1, <1>t, DroppedTypes
  <2> QED BY <2>1, <2>2, <2>3, PurgeKeeps
<1>3. ASSUME NEW p \in Procs, TagFails(p) PROVE CacheInv'
  <2> DEFINE G == Owes(p) \ Promised(job[p])
             E == OnlyOf(p, G)
  <2>1. pc[p] = "tag" /\ EachCopy(E, Miss) /\ Ends(p, "files")
    BY <1>3 DEF TagFails
  <2>2. pc'[p] = "files" /\ job' = job BY <2>1, <1>f DEF Ends
  <2>3. StillOwes(p) = Promised(job[p]) BY <2>2 DEF StillOwes, Owes, Promised, Affects
  <2>4. \A u \in Owes(p) : u \in G \/ u \in StillOwes(p) BY <2>3
  <2> HIDE DEF G
  <2>5. ASSUME NEW u \in Files, edge'[u] = "stale"
        PROVE  edge[u] = "stale" /\ u \notin OnlyOf(p, G)
    <3> HIDE DEF E
    <3>1. u \notin E /\ edge[u] = "stale" BY <2>1, <2>5, <1>t, <1>f, <1>u, CopyTypes, MissTypes
    <3> QED BY <3>1 DEF E
  <2>6. ASSUME NEW v \in Visitors
        PROVE  /\ fill'[v].url = fill[v].url
               /\ fill'[v].copy = "stale" =>
                    fill[v].copy = "stale" /\ fill[v].url \notin OnlyOf(p, G)
    <3> HIDE DEF E
    <3>1. /\ fill'[v].url = fill[v].url
          /\ fill'[v].copy = "stale" => fill[v].copy = "stale" /\ fill[v].url \notin E
      BY <2>1, <1>t, <1>f, CopyTypes, MissTypes
    <3> QED BY <3>1 DEF E
  <2> HIDE DEF E
  <2>7. edge' \in [URLs -> Copies] /\ fill' \in [Visitors -> [url : URLs, copy : Copies]]
    BY <2>1, <1>t, CopyTypes, MissTypes
  <2> QED BY <2>1, <2>4, <2>5, <2>6, <2>7, PurgeKeeps
<1>4. ASSUME NEW p \in Procs, PurgeFiles(p) PROVE CacheInv'
  <2> DEFINE U == Named(job[p])
  <2>1. pc[p] = "files" /\ Dropped(U, OnlyOf(p, Owes(p))) /\ Ends(p, "idle")
    BY <1>4 DEF PurgeFiles
  <2>2. \A u \in Files : u \in Owes(p) => u \in U BY <2>1 DEF Named, Owes, Promised
  <2> HIDE DEF U
  <2>3. /\ edge' \in [URLs -> Copies]
        /\ fill' \in [Visitors -> [url : URLs, copy : Copies]]
        /\ \A u \in Files : edge'[u] = "stale" => edge[u] = "stale" /\ u \notin Owes(p)
    BY <2>1, <2>2, <1>t, <1>u, DroppedTypes
  <2>4. \A v \in Visitors :
          /\ fill'[v].url = fill[v].url
          /\ fill'[v].copy = "stale" =>
               fill[v].copy = "stale" /\ fill[v].url \notin OnlyOf(p, Owes(p))
    BY <2>1, <1>t, DroppedTypes
  <2>5. \A u \in Files : edge'[u] = "stale" => edge[u] = "stale" /\ u \notin OnlyOf(p, Owes(p))
    BY <2>3 DEF OnlyOf
  <2> QED BY <2>1, <2>3, <2>4, <2>5, PurgeKeeps
<1>5. ASSUME NEW p \in Procs, PurgeLost(p) PROVE CacheInv'
  <2> DEFINE E == OnlyOf(p, Owes(p))
  <2>1. EachCopy(E, Miss) /\ Ends(p, "idle")
    BY <1>5 DEF PurgeLost
  <2>2. ASSUME NEW u \in Files, edge'[u] = "stale"
        PROVE  edge[u] = "stale" /\ u \notin OnlyOf(p, Owes(p))
    <3> HIDE DEF E
    <3>1. u \notin E /\ edge[u] = "stale" BY <2>1, <2>2, <1>t, <1>f, <1>u, CopyTypes, MissTypes
    <3> QED BY <3>1 DEF E
  <2>3. ASSUME NEW v \in Visitors
        PROVE  /\ fill'[v].url = fill[v].url
               /\ fill'[v].copy = "stale" =>
                    fill[v].copy = "stale" /\ fill[v].url \notin OnlyOf(p, Owes(p))
    <3> HIDE DEF E
    <3>1. /\ fill'[v].url = fill[v].url
          /\ fill'[v].copy = "stale" => fill[v].copy = "stale" /\ fill[v].url \notin E
      BY <2>1, <1>t, <1>f, CopyTypes, MissTypes
    <3> QED BY <3>1 DEF E
  <2> HIDE DEF E
  <2>4. edge' \in [URLs -> Copies] /\ fill' \in [Visitors -> [url : URLs, copy : Copies]]
    BY <2>1, <1>t, CopyTypes, MissTypes
  <2> QED BY <2>1, <2>2, <2>3, <2>4, PurgeKeeps
<1>6. ASSUME NEW t \in URLs, PageRestore(t) PROVE CacheInv'
  <2> DEFINE A == Affects({t})
  <2>0. EachCopy(A, Unpurge) /\ UNCHANGED <<pc, job>> BY <1>6 DEF PageRestore
  <2> HIDE DEF A
  <2>1. /\ Unpurge \in [Copies -> Copies]
        /\ \A c \in Copies : Unpurge[c] = "stale" => c = "stale"
    BY DEF Unpurge, Copies
  <2>2. /\ edge' \in [URLs -> Copies]
        /\ fill' \in [Visitors -> [url : URLs, copy : Copies]]
        /\ \A u \in URLs : edge'[u] = IF u \in A THEN Unpurge[edge[u]] ELSE edge[u]
        /\ \A v \in Visitors :
             /\ fill'[v].url = fill[v].url
             /\ fill'[v].copy = IF fill[v].url \in A THEN Unpurge[fill[v].copy] ELSE fill[v].copy
    BY <2>0, <2>1, <1>t, CopyTypes
  <2>3. \A u \in Files : edge'[u] = "stale" => Owed(u) BY <2>1, <2>2, <1>t, <1>f, <1>u
  <2>4. \A v \in Visitors :
          fill'[v].url \in Files /\ fill'[v].copy = "stale" => Owed(fill'[v].url)
    BY <2>1, <2>2, <1>t, <1>f
  <2> QED BY <2>0, <2>2, <2>3, <2>4, CalmKeeps
<1>7. ASSUME NEW U, PurgeCloudflare(U) PROVE CacheInv'
  <2>1. Dropped(U, {}) /\ UNCHANGED <<pc, job>> BY <1>7 DEF PurgeCloudflare
  <2>2. /\ edge' \in [URLs -> Copies]
        /\ fill' \in [Visitors -> [url : URLs, copy : Copies]]
        /\ \A u \in Files : edge'[u] = "stale" => edge[u] = "stale"
    BY <2>1, <1>t, <1>u, DroppedTypes
  <2>3. \A v \in Visitors :
          fill'[v].url = fill[v].url /\ (fill'[v].copy = "stale" => fill[v].copy = "stale")
    BY <2>1, <1>t, DroppedTypes
  <2> QED BY <2>1, <2>2, <2>3, <1>t, CalmKeeps
<1>8. ASSUME NEW v \in Visitors, NEW u \in URLs, Fetch(v, u) PROVE CacheInv'
  <2>1. /\ UNCHANGED <<edge, pc, job>>
        /\ fill' = [fill EXCEPT ![v] = [url |-> u, copy |-> "fresh"]]
    BY <1>8 DEF Fetch
  <2>2. fill' \in [Visitors -> [url : URLs, copy : Copies]]
    BY <2>1, <1>f DEF Copies
  <2>3. ASSUME NEW w \in Visitors, fill'[w].copy = "stale" PROVE fill'[w] = fill[w]
    BY <2>1, <2>3, <1>f
  <2> QED BY <2>1, <2>2, <2>3, <1>t, <1>f, CalmKeeps
<1>9. ASSUME NEW v \in Visitors, Put(v) PROVE CacheInv'
  <2>1. /\ UNCHANGED <<pc, job>>
        /\ edge' = [edge EXCEPT ![fill[v].url] = fill[v].copy]
        /\ fill' = [fill EXCEPT ![v].copy = "none"]
    BY <1>9 DEF Put
  <2>2. fill' \in [Visitors -> [url : URLs, copy : Copies]]
    BY <2>1, <1>f DEF Copies
  <2>3. ASSUME NEW w \in Visitors, fill'[w].copy = "stale" PROVE fill'[w] = fill[w]
    BY <2>1, <2>3, <1>f
  <2>4. edge' \in [URLs -> Copies] BY <2>1, <1>f
  <2>5. ASSUME NEW u \in Files, edge'[u] = "stale" PROVE Owed(u)
    BY <2>1, <2>5, <1>t, <1>f, <1>u
  <2>6. \A w \in Visitors :
          fill'[w].url \in Files /\ fill'[w].copy = "stale" => Owed(fill'[w].url)
    BY <2>3, <1>t
  <2> QED BY <2>1, <2>2, <2>4, <2>5, <2>6, CalmKeeps
<1>10. ASSUME NEW u \in URLs, Expire(u) PROVE CacheInv'
  <2>1. UNCHANGED <<fill, pc, job>> /\ edge' = [edge EXCEPT ![u] = "none"]
    BY <1>10 DEF Expire
  <2>2. edge' \in [URLs -> Copies] BY <2>1, <1>f DEF Copies
  <2>3. \A w \in URLs : edge'[w] = "stale" => edge[w] = "stale" BY <2>1, <1>f
  <2> QED BY <2>1, <2>2, <2>3, <1>t, <1>f, <1>u, CalmKeeps
<1>11. CASE UNCHANGED vars
  BY <1>11, <1>t, <1>f, CalmKeeps DEF vars
<1>12. ASSUME NEW t1 \in URLs, NEW t2 \in URLs PROVE {t1, t2} \in SUBSET URLs
  OBVIOUS
<1> QED
  BY <1>1, <1>2, <1>3, <1>4, <1>5, <1>6, <1>7, <1>8, <1>9, <1>10, <1>11, <1>12 DEF Next

\* The model of the cache keeps its types.
THEOREM CacheTypes == Spec => []TypeOK
<1>1. CacheInv => TypeOK BY DEF CacheInv
<1> QED BY <1>1, CacheStarts, CacheStep, PTL DEF Spec

\* No order of changes, purges, fetches and stores leaves an outdated public file
\* in the cache behind the purge that was meant for it, for any tree and any
\* number of requests at once (purgePublicPath, the FTP hook, worker.js).
THEOREM CacheFilesFresh == Spec => []FilesFresh
<1>1. CacheInv => FilesFresh BY DEF CacheInv
<1> QED BY <1>1, CacheStarts, CacheStep, PTL DEF Spec
=============================================================================
