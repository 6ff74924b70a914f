------------------------------ MODULE ShareStore ------------------------------
(***************************************************************************)
(* Share links with a download limit: internal/share/share.go and the      *)
(* /s/<id>/<token> handler of internal/httpapi/server.go.                  *)
(*                                                                         *)
(* Every method of the store runs under Store.mu and is one step.  A       *)
(* download is several: the link is verified, a download is reserved, the  *)
(* file is sent, and the download is finished.  Tokens and passwords are   *)
(* abstracted away: the clients of this model present the right ones.      *)
(***************************************************************************)
EXTENDS Naturals, FiniteSets

CONSTANTS
  Links,     \* link ids; a random id is never used twice
  Clients,   \* requests in progress at once
  MaxLimit,  \* bound: the largest MaxDownloads that is configured
  MaxServed, \* bound: full deliveries of one link, counted and since the start
  NoLink,    \* the absence of a link
  Faults     \* subset of {"save", "crash"}

LinkType == [max : Nat, count : Nat, disabled : BOOLEAN, expired : BOOLEAN]

ASSUME ShareConstants ==
  /\ MaxLimit \in Nat
  /\ MaxServed \in Nat
  /\ NoLink \notin LinkType
  /\ NoLink \notin Links
  /\ IsFiniteSet(Clients)
  /\ Faults \subseteq {"save", "crash"}

VARIABLES
  links,    \* Store.links
  disk,     \* the contents of shares.json
  active,   \* Store.activeDownloads
  used,     \* history: ids ever given to a link
  naming,   \* links whose creating request has yet to call SetURLPath
  created,  \* history: links whose creation was reported to the admin
  deleted,  \* history: links whose deletion was reported to the admin
  step,     \* step[c]: what the handler of request c does next
  want,     \* want[c]: the link request c is about
  served,   \* history: complete deliveries of each link since the last start
  limit     \* history: MaxDownloads of each link

vars == <<links, disk, active, used, naming, created, deleted, step, want, served, limit>>

Link(max, disabled) ==
  [max |-> max, count |-> 0, disabled |-> disabled, expired |-> FALSE]

TypeOK ==
  /\ links \in [Links -> LinkType \cup {NoLink}]
  /\ disk \in [Links -> LinkType \cup {NoLink}]
  /\ active \in [Links -> Nat]
  /\ used \in SUBSET Links
  /\ naming \in SUBSET Links
  /\ created \in SUBSET Links
  /\ deleted \in SUBSET Links
  /\ step \in [Clients -> {"idle", "verified", "sending", "sent", "broken"}]
  /\ want \in [Clients -> Links \cup {NoLink}]
  /\ served \in [Links -> Nat]
  /\ limit \in [Links -> Nat]

-----------------------------------------------------------------------------
\* saveLocked writes a temporary file and renames it: the file holds the whole
\* new state or the whole old one.  Memory has changed in both cases.
Save(newLinks) ==
  /\ links' = newLinks
  /\ disk' = newLinks

SaveFails(newLinks) ==
  /\ "save" \in Faults
  /\ links' = newLinks
  /\ UNCHANGED disk

\* Mutant of Available: the reservations in progress are not counted.
AvailableIgnoringActive(link, n) ==
  /\ ~link.disabled
  /\ ~link.expired
  /\ link.max > 0 => link.count < link.max

\* available(link, activeDownloads) == nil
Available(link, n) ==
  /\ ~link.disabled
  /\ ~link.expired
  /\ link.max > 0 => link.count + n < link.max

\* load: the store starts with what the file holds; a link may have been
\* disabled by hand in the file.
Init ==
  /\ used \in SUBSET Links
  /\ links \in [Links -> {Link(m, b) : m \in 0..MaxLimit, b \in BOOLEAN} \cup {NoLink}]
  /\ \A k \in Links : links[k] = NoLink <=> k \notin used
  /\ disk = links
  /\ active = [k \in Links |-> 0]
  /\ naming = {}
  /\ created = used
  /\ deleted = {}
  /\ step = [c \in Clients |-> "idle"]
  /\ want = [c \in Clients |-> NoLink]
  /\ served = [k \in Links |-> 0]
  /\ limit = [k \in Links |-> IF links[k] = NoLink THEN 0 ELSE links[k].max]

\* Mutant of Create: the new link is not written to the file.
CreateInMemory(k, max) ==
  /\ k \notin used
  /\ used' = used \cup {k}
  /\ limit' = [limit EXCEPT ![k] = max]
  /\ links' = [links EXCEPT ![k] = Link(max, FALSE)]
  /\ created' = created \cup {k}
  /\ naming' = naming \cup {k}
  /\ UNCHANGED <<disk, active, deleted, step, want, served>>

Create(k, max) ==
  LET new == [links EXCEPT ![k] = Link(max, FALSE)] IN
  /\ k \notin used
  /\ used' = used \cup {k}
  /\ limit' = [limit EXCEPT ![k] = max]
  /\ \/ Save(new) /\ created' = created \cup {k} /\ naming' = naming \cup {k}
     \/ SaveFails(new) /\ UNCHANGED <<created, naming>>
  /\ UNCHANGED <<active, deleted, step, want, served>>

\* Mutant of SetURLPath: the link is written without looking it up first.
SetURLPathBlindly(k) ==
  LET new == [links EXCEPT ![k] = IF @ = NoLink THEN Link(limit[k], FALSE) ELSE @] IN
  /\ k \in naming
  /\ naming' = naming \ {k}
  /\ Save(new)
  /\ UNCHANGED <<active, used, created, deleted, step, want, served, limit>>

\* The request that created the link stores its full URL in a second call,
\* which finds nothing if the link was deleted in between, and whose error it
\* ignores.  The URL itself is left out; what remains is the save.
SetURLPath(k) ==
  /\ k \in naming
  /\ naming' = naming \ {k}
  /\ IF links[k] = NoLink THEN UNCHANGED <<links, disk>>
                          ELSE Save(links) \/ SaveFails(links)
  /\ UNCHANGED <<active, used, created, deleted, step, want, served, limit>>

Delete(k) ==
  LET new == [links EXCEPT ![k] = NoLink] IN
  /\ links[k] # NoLink
  /\ \/ Save(new) /\ deleted' = deleted \cup {k}
     \/ SaveFails(new) /\ UNCHANGED deleted
  /\ UNCHANGED <<active, used, created, step, want, served, naming, limit>>

\* The time in ExpiresAt passes.
Expire(k) ==
  /\ links[k] # NoLink
  /\ ~links[k].expired
  /\ links' = [links EXCEPT ![k].expired = TRUE]
  /\ disk' = [j \in Links |-> IF j = k /\ disk[j] # NoLink
                                THEN [disk[j] EXCEPT !.expired = TRUE] ELSE disk[j]]
  /\ UNCHANGED <<active, used, created, deleted, step, want, served, naming, limit>>

-----------------------------------------------------------------------------
\* shareLink: Verify (or VerifyAuthorized) passes; a refused request leaves no
\* trace.
Verify(c, k) ==
  /\ step[c] = "idle"
  /\ links[k] # NoLink
  /\ Available(links[k], 0)
  /\ step' = [step EXCEPT ![c] = "verified"]
  /\ want' = [want EXCEPT ![c] = k]
  /\ UNCHANGED <<links, disk, active, used, created, deleted, served, naming, limit>>

\* The request ends without a download: HEAD, a folder page, a missing file, or
\* the redirect after a password.
NoDownload(c) ==
  /\ step[c] = "verified"
  /\ step' = [step EXCEPT ![c] = "idle"]
  /\ want' = [want EXCEPT ![c] = NoLink]
  /\ UNCHANGED <<links, disk, active, used, created, deleted, served, naming, limit>>

\* A GET of a file reserves a download: 410 when none is left by now.
ReserveDownload(c) ==
  LET k == want[c] IN
  /\ step[c] = "verified"
  /\ links[k] # NoLink
  /\ Available(links[k], active[k])
  /\ active' = [active EXCEPT ![k] = @ + 1]
  /\ step' = [step EXCEPT ![c] = "sending"]
  /\ UNCHANGED <<links, disk, used, created, deleted, want, served, naming, limit>>

\* Mutant of Refused: a refused request gives back a reservation it never had, and
\* nothing looks whether there is one.
RefusedFinishes(c) ==
  LET k == want[c] IN
  /\ step[c] = "verified"
  /\ ~(links[k] # NoLink /\ Available(links[k], active[k]))
  /\ active' = [active EXCEPT ![k] = @ - 1]
  /\ step' = [step EXCEPT ![c] = "idle"]
  /\ want' = [want EXCEPT ![c] = NoLink]
  /\ UNCHANGED <<links, disk, used, created, deleted, served, naming, limit>>

Refused(c) ==
  LET k == want[c] IN
  /\ step[c] = "verified"
  /\ ~(links[k] # NoLink /\ Available(links[k], active[k]))
  /\ step' = [step EXCEPT ![c] = "idle"]
  /\ want' = [want EXCEPT ![c] = NoLink]
  /\ UNCHANGED <<links, disk, active, used, created, deleted, served, naming, limit>>

\* serveStorageFile returns: all of the file was sent, or the client went away.
ServeFile(c) ==
  /\ step[c] = "sending"
  /\ \/ /\ served[want[c]] < MaxServed
        /\ links[want[c]] # NoLink => links[want[c]].count < MaxServed
        /\ step' = [step EXCEPT ![c] = "sent"]
        /\ served' = [served EXCEPT ![want[c]] = @ + 1]
     \/ step' = [step EXCEPT ![c] = "broken"] /\ UNCHANGED served
  /\ UNCHANGED <<links, disk, active, used, created, deleted, want, naming, limit>>

\* Mutant of FinishDownload: a broken download keeps its reservation.
FinishDownloadLeaks(c) ==
  LET k == want[c]
      counted == [links EXCEPT ![k].count = @ + 1] IN
  /\ step[c] \in {"sent", "broken"}
  /\ IF step[c] = "sent" /\ links[k] # NoLink
       THEN /\ active' = [active EXCEPT ![k] = @ - 1]
            /\ Save(counted) \/ SaveFails(counted)
       ELSE UNCHANGED <<links, disk, active>>
  /\ step' = [step EXCEPT ![c] = "idle"]
  /\ want' = [want EXCEPT ![c] = NoLink]
  /\ UNCHANGED <<used, created, deleted, served, naming, limit>>

\* Mutant of FinishDownload: the count is not kept when the save fails.
FinishDownloadForgets(c) ==
  LET k == want[c]
      counted == [links EXCEPT ![k].count = @ + 1] IN
  /\ step[c] \in {"sent", "broken"}
  /\ active' = [active EXCEPT ![k] = @ - 1]
  /\ IF step[c] = "sent" /\ links[k] # NoLink
       THEN Save(counted) \/ ("save" \in Faults /\ UNCHANGED <<links, disk>>)
       ELSE UNCHANGED <<links, disk>>
  /\ step' = [step EXCEPT ![c] = "idle"]
  /\ want' = [want EXCEPT ![c] = NoLink]
  /\ UNCHANGED <<used, created, deleted, served, naming, limit>>

\* FinishDownload gives the reservation back ("download was not reserved" if
\* there is none) and counts a complete download, unless the link has been
\* deleted meanwhile.  shareLink ignores its error.
FinishDownload(c) ==
  LET k == want[c]
      counted == [links EXCEPT ![k].count = @ + 1] IN
  /\ step[c] \in {"sent", "broken"}
  /\ active' = IF active[k] = 0 THEN active ELSE [active EXCEPT ![k] = @ - 1]
  /\ IF active[k] # 0 /\ step[c] = "sent" /\ links[k] # NoLink
       THEN Save(counted) \/ SaveFails(counted)
       ELSE UNCHANGED <<links, disk>>
  /\ step' = [step EXCEPT ![c] = "idle"]
  /\ want' = [want EXCEPT ![c] = NoLink]
  /\ UNCHANGED <<used, created, deleted, served, naming, limit>>

\* The daemon dies and starts again: load reads the file, reservations are gone.
Restart ==
  /\ "crash" \in Faults
  /\ links' = disk
  /\ naming' = {}
  /\ active' = [k \in Links |-> 0]
  /\ step' = [c \in Clients |-> "idle"]
  /\ want' = [c \in Clients |-> NoLink]
  /\ served' = [k \in Links |-> 0]
  /\ UNCHANGED <<disk, used, created, deleted, limit>>

Next ==
  \/ \E k \in Links : SetURLPath(k) \/ Delete(k) \/ Expire(k)
  \/ \E k \in Links, max \in 0..MaxLimit : Create(k, max)
  \/ \E c \in Clients :
       \/ \E k \in Links : Verify(c, k)
       \/ NoDownload(c) \/ ReserveDownload(c) \/ Refused(c) \/ ServeFile(c) \/ FinishDownload(c)
  \/ Restart

Spec == Init /\ [][Next]_vars

-----------------------------------------------------------------------------
Reserving(k) == {c \in Clients : step[c] \in {"sending", "sent", "broken"} /\ want[c] = k}

\* A limited link never has more downloads counted and in progress together
\* than its limit, across failed saves and restarts ("one download" means one).
LimitHeld ==
  \A k \in Links : links[k] # NoLink /\ links[k].max > 0 =>
    links[k].count + active[k] <= links[k].max

\* From one start of the daemon to the next no limited link is delivered in
\* full more often than its limit, even if shares.json cannot be written and the
\* link is deleted while downloads are in progress.
DeliveriesWithinLimit ==
  \A k \in Links : limit[k] > 0 => served[k] <= limit[k]

\* activeDownloads counts exactly the handlers between ReserveDownload and
\* FinishDownload: no path leaks a reservation or gives one back twice.
ReservationsExact == \A k \in Links : active[k] = Cardinality(Reserving(k))

\* Once a deletion was reported, no download of that link is started any more,
\* not even after a restart.
DeletedStaysDeleted ==
  [][\A k \in deleted : active'[k] <= active[k]]_vars

\* A link whose creation was reported is never in memory only: where shares.json
\* no longer holds it the daemon does not know it either, so a restart takes no
\* link from the admin that was there before it (Create, saveLocked).
CreatedSurvives ==
  \A k \in created : disk[k] = NoLink => links[k] = NoLink
=============================================================================
