-------------------------- MODULE ShareStoreProofs ---------------------------
(***************************************************************************)
(* The download limit of share links holds for any number of links,        *)
(* requests, limits, failed saves and restarts.                            *)
(***************************************************************************)
EXTENDS ShareStore, FiniteSetTheorems, TLAPS

\* A handler past Verify works for some link.
WantSet == \A c \in Clients : step[c] # "idle" => want[c] \in Links

\* An id no link ever had is nowhere: a new link starts without reservations.
UnusedClean ==
  \A k \in Links : k \notin used =>
    links[k] = NoLink /\ disk[k] = NoLink /\ active[k] = 0

\* A restart cannot bring back a link that is beyond its limit.
DiskWithinLimit ==
  \A k \in Links : disk[k] # NoLink /\ disk[k].max > 0 => disk[k].count <= disk[k].max

ShareInv == TypeOK /\ WantSet /\ UnusedClean /\ DiskWithinLimit /\ LimitHeld

\* A new link is of the link type.
LEMMA LinkTyped ==
  ASSUME NEW m \in Nat, NEW b \in BOOLEAN
  PROVE  Link(m, b) \in LinkType /\ Link(m, b) # NoLink
<1>1. Link(m, b) \in LinkType
  BY DEF Link, LinkType
<1> QED
  BY <1>1, ShareConstants

\* The loaded store satisfies the invariant.
LEMMA ShareInit == Init => ShareInv
<1> SUFFICES ASSUME Init PROVE ShareInv
  OBVIOUS
<1>1. \A k \in Links : links[k] # NoLink =>
        links[k] \in LinkType /\ links[k].count = 0 /\ links[k].max \in Nat
  BY LinkTyped, ShareConstants DEF Init, Link
<1>2. TypeOK
  BY <1>1 DEF Init, TypeOK
<1>3. WantSet /\ UnusedClean
  BY DEF Init, WantSet, UnusedClean
<1>4. DiskWithinLimit /\ LimitHeld
  BY <1>1 DEF Init, DiskWithinLimit, LimitHeld
<1> QED
  BY <1>2, <1>3, <1>4 DEF ShareInv

\* Every step keeps the invariant.
LEMMA ShareStep == ShareInv /\ [Next]_vars => ShareInv'
<1> SUFFICES ASSUME ShareInv, [Next]_vars PROVE ShareInv'
  OBVIOUS
<1> USE ShareConstants DEF ShareInv, TypeOK, WantSet, UnusedClean, DiskWithinLimit,
                           LimitHeld, Save, SaveFails
<1>1. ASSUME NEW k \in Links, NEW max \in 0..MaxLimit, Create(k, max)
      PROVE  ShareInv'
  <2>1. max \in Nat
    OBVIOUS
  <2>2. Link(max, FALSE) \in LinkType
    BY <2>1, LinkTyped
  <2>3. Link(max, FALSE).count = 0 /\ Link(max, FALSE).max = max
    BY DEF Link
  <2>4. /\ links' = [links EXCEPT ![k] = Link(max, FALSE)]
        /\ disk' = links' \/ disk' = disk
        /\ active[k] = 0
    BY <1>1 DEF Create
  <2>5. TypeOK'
    <3>1. links' \in [Links -> LinkType \cup {NoLink}]
      BY <2>2, <2>4
    <3>2. disk' \in [Links -> LinkType \cup {NoLink}]
      BY <3>1, <2>4
    <3>3. /\ used' \in SUBSET Links /\ created' \in SUBSET Links
          /\ naming' \in SUBSET Links /\ limit' \in [Links -> Nat]
      BY <1>1, <2>1 DEF Create
    <3> QED
      BY <1>1, <3>1, <3>2, <3>3 DEF Create
  <2>6. LimitHeld' /\ DiskWithinLimit'
    <3>1. active' = active
      BY <1>1 DEF Create
    <3>2. ASSUME NEW j \in Links, links'[j] # NoLink, links'[j].max > 0
          PROVE  links'[j].count + active'[j] <= links'[j].max /\ links'[j].count <= links'[j].max
      <4>1. CASE j = k
        <5>1. links'[j] = Link(max, FALSE) /\ active'[j] = 0
          BY <2>4, <3>1, <4>1
        <5>2. links'[j].count = 0 /\ links'[j].max = max
          BY <2>3, <5>1
        <5>3. 0 + 0 <= max /\ 0 <= max
          BY <2>1
        <5>4. links'[j].count + active'[j] = 0 + 0
          BY <5>1, <5>2
        <5> QED
          BY <5>2, <5>3, <5>4
      <4>2. CASE j # k
        BY <2>4, <3>1, <3>2, <4>2 DEF LinkType
      <4> QED
        BY <4>1, <4>2
    <3>3. LimitHeld'
      BY <3>2
    <3>4. DiskWithinLimit'
      BY <2>4, <3>2
    <3> QED
      BY <3>3, <3>4
  <2>7. WantSet' /\ UnusedClean'
    BY <1>1, <2>4 DEF Create
  <2> QED
    BY <2>5, <2>6, <2>7
<1>2. ASSUME NEW k \in Links, Delete(k) PROVE ShareInv'
  <2>1. /\ links' = [links EXCEPT ![k] = NoLink]
        /\ disk' = links' \/ disk' = disk
    BY <1>2 DEF Delete
  <2>2. TypeOK'
    BY <1>2, <2>1 DEF Delete
  <2>3. LimitHeld' /\ DiskWithinLimit'
    BY <1>2, <2>1 DEF Delete, LinkType
  <2>4. WantSet' /\ UnusedClean'
    BY <1>2, <2>1 DEF Delete
  <2> QED
    BY <2>2, <2>3, <2>4
<1>3. ASSUME NEW k \in Links, Expire(k) PROVE ShareInv'
  <2>1. links' = [links EXCEPT ![k].expired = TRUE] /\ links[k] \in LinkType
    BY <1>3 DEF Expire
  <2>2. \A j \in Links : /\ links'[j] = links[j] \/ (j = k /\ links'[j] = [links[k] EXCEPT !.expired = TRUE])
                         /\ disk'[j] = disk[j] \/ (disk[j] # NoLink /\ disk'[j] = [disk[j] EXCEPT !.expired = TRUE])
    BY <1>3, <2>1 DEF Expire
  <2>3. TypeOK'
    <3>1. links' \in [Links -> LinkType \cup {NoLink}]
      BY <2>1 DEF LinkType
    <3>2. disk' \in [Links -> LinkType \cup {NoLink}]
      <4>1. ASSUME NEW j \in Links, disk[j] # NoLink
            PROVE  [disk[j] EXCEPT !.expired = TRUE] \in LinkType
        <5>1. disk[j] \in LinkType
          BY <4>1
        <5> HIDE DEF TypeOK, LimitHeld, DiskWithinLimit, UnusedClean
        <5> QED
          BY <5>1 DEF LinkType
      <4> QED
        BY <1>3, <4>1 DEF Expire
    <3> QED
      BY <1>3, <3>1, <3>2 DEF Expire
  <2>4. LimitHeld' /\ DiskWithinLimit'
    BY <1>3, <2>1, <2>2, <2>3 DEF Expire, LinkType
  <2>5. WantSet' /\ UnusedClean'
    BY <1>3, <2>1 DEF Expire
  <2> QED
    BY <2>3, <2>4, <2>5
<1>4. ASSUME NEW c \in Clients, NEW k \in Links, Verify(c, k) PROVE ShareInv'
  BY <1>4 DEF Verify
<1>5. ASSUME NEW c \in Clients, ReserveDownload(c) PROVE ShareInv'
  BY <1>5 DEF ReserveDownload, Available, LinkType
<1>6. ASSUME NEW c \in Clients, Refused(c) \/ NoDownload(c) PROVE ShareInv'
  BY <1>6 DEF Refused, NoDownload
<1>7. ASSUME NEW c \in Clients, ServeFile(c) PROVE ShareInv'
  BY <1>7 DEF ServeFile
<1>8. ASSUME NEW c \in Clients, FinishDownload(c) PROVE ShareInv'
  <2>1. TypeOK' /\ WantSet'
    <3>1. want[c] \in Links
      BY <1>8 DEF FinishDownload
    <3>2. links[want[c]] # NoLink =>
            [links EXCEPT ![want[c]].count = @ + 1] \in [Links -> LinkType \cup {NoLink}]
      BY <3>1 DEF LinkType
    <3>3. links' \in [Links -> LinkType \cup {NoLink}] /\ disk' \in [Links -> LinkType \cup {NoLink}]
      BY <1>8, <3>2 DEF FinishDownload
    <3>4. active' \in [Links -> Nat]
      BY <1>8, <3>1 DEF FinishDownload
    <3> QED
      BY <1>8, <3>3, <3>4 DEF FinishDownload
  <2>2. UnusedClean'
    BY <1>8 DEF FinishDownload
  <2>3. CASE links' = links /\ disk' = disk
    BY <1>8, <2>1, <2>2, <2>3 DEF FinishDownload, LinkType
  <2>4. CASE /\ active[want[c]] # 0 /\ links[want[c]] # NoLink
             /\ links' = [links EXCEPT ![want[c]].count = @ + 1]
             /\ disk' = links' \/ disk' = disk
    <3>1. LimitHeld'
      BY <1>8, <2>4 DEF FinishDownload, LinkType
    <3>2. \A k \in Links : links'[k] # NoLink /\ links'[k].max > 0
                             => links'[k].count <= links'[k].max
      BY <2>1, <3>1 DEF LinkType
    <3>3. DiskWithinLimit'
      BY <2>4, <3>2
    <3> QED
      BY <2>1, <2>2, <3>1, <3>3
  <2> QED
    BY <1>8, <2>3, <2>4 DEF FinishDownload
<1>9. CASE Restart
  BY <1>9 DEF Restart, LinkType
<1>10. ASSUME NEW k \in Links, SetURLPath(k) PROVE ShareInv'
  BY <1>10 DEF SetURLPath, LinkType
<1>11. CASE UNCHANGED vars
  BY <1>11 DEF vars
<1> QED
  BY <1>1, <1>2, <1>3, <1>4, <1>5, <1>6, <1>7, <1>8, <1>9, <1>10, <1>11 DEF Next

\* No limited link ever has more downloads counted and in progress than its
\* limit, across failed saves and restarts (ReserveDownload, FinishDownload).
THEOREM ShareLimit == Spec => []LimitHeld
<1>1. ShareInv => LimitHeld
  BY DEF ShareInv
<1> QED
  BY <1>1, ShareInit, ShareStep, PTL DEF Spec

-----------------------------------------------------------------------------
\* Finitely many requests hold a reservation.
LEMMA ReservingFinite ==
  \A k \in Links : IsFiniteSet(Reserving(k)) /\ Cardinality(Reserving(k)) \in Nat
<1> SUFFICES ASSUME NEW k \in Links
             PROVE  IsFiniteSet(Reserving(k)) /\ Cardinality(Reserving(k)) \in Nat
  OBVIOUS
<1>1. Reserving(k) \subseteq Clients
  BY DEF Reserving
<1> QED
  BY <1>1, ShareConstants, FS_Subset, FS_CardinalityType

\* Every step changes the count and the set of reservations alike.
LEMMA ReservationsStep ==
  ASSUME ShareInv, ReservationsExact, [Next]_vars
  PROVE  ReservationsExact'
<1> USE DEF ShareInv, TypeOK, WantSet
<1>1. ASSUME active' = active, \A k \in Links : Reserving(k)' = Reserving(k)
      PROVE  ReservationsExact'
  BY <1>1 DEF ReservationsExact
<1>2. ASSUME NEW c \in Clients, ReserveDownload(c) PROVE ReservationsExact'
  <2> SUFFICES ASSUME NEW k \in Links PROVE active'[k] = Cardinality(Reserving(k)')
    BY DEF ReservationsExact
  <2>1. CASE k = want[c]
    <3>1. c \notin Reserving(k) /\ Reserving(k)' = Reserving(k) \cup {c}
      BY <1>2, <2>1 DEF ReserveDownload, Reserving
    <3>2. Cardinality(Reserving(k)') = Cardinality(Reserving(k)) + 1
      BY <3>1, ReservingFinite, FS_AddElement
    <3> QED
      BY <1>2, <2>1, <3>2 DEF ReserveDownload, ReservationsExact
  <2>2. CASE k # want[c]
    <3>1. Reserving(k)' = Reserving(k)
      BY <1>2, <2>2 DEF ReserveDownload, Reserving
    <3> QED
      BY <1>2, <2>2, <3>1 DEF ReserveDownload, ReservationsExact
  <2> QED
    BY <2>1, <2>2
<1>3. ASSUME NEW c \in Clients, FinishDownload(c) PROVE ReservationsExact'
  <2> SUFFICES ASSUME NEW k \in Links PROVE active'[k] = Cardinality(Reserving(k)')
    BY DEF ReservationsExact
  <2>1. CASE k = want[c]
    <3>1. c \in Reserving(k) /\ Reserving(k)' = Reserving(k) \ {c}
      BY <1>3, <2>1, ShareConstants DEF FinishDownload, Reserving
    <3>2. Cardinality(Reserving(k)') = Cardinality(Reserving(k)) - 1
      BY <3>1, ReservingFinite, FS_RemoveElement
    <3>3. IsFiniteSet(Reserving(k)')
      BY <3>1, ReservingFinite, FS_RemoveElement
    <3>4. Cardinality(Reserving(k)') \in Nat
      BY <3>3, FS_CardinalityType
    <3>5. active[k] = Cardinality(Reserving(k)) /\ active[k] # 0
      BY <3>2, <3>4, ReservingFinite DEF ReservationsExact
    <3> QED
      BY <1>3, <2>1, <3>2, <3>5 DEF FinishDownload
  <2>2. CASE k # want[c]
    <3>1. Reserving(k)' = Reserving(k)
      BY <1>3, <2>2, ShareConstants DEF FinishDownload, Reserving
    <3> QED
      BY <1>3, <2>2, <3>1 DEF FinishDownload, ReservationsExact
  <2> QED
    BY <2>1, <2>2
<1>4. CASE Restart
  <2> SUFFICES ASSUME NEW k \in Links PROVE active'[k] = Cardinality(Reserving(k)')
    BY DEF ReservationsExact
  <2>1. Reserving(k)' = {}
    BY <1>4 DEF Restart, Reserving
  <2> QED
    BY <1>4, <2>1, FS_EmptySet DEF Restart
<1>5. CASE \E k \in Links : SetURLPath(k) \/ Delete(k) \/ Expire(k)
  BY <1>1, <1>5 DEF SetURLPath, Delete, Expire, Reserving
<1>6. CASE \E k \in Links, max \in 0..MaxLimit : Create(k, max)
  BY <1>1, <1>6 DEF Create, Reserving
<1>7. ASSUME NEW c \in Clients, NEW j \in Links, Verify(c, j) PROVE ReservationsExact'
  BY <1>1, <1>7 DEF Verify, Reserving
<1>8. ASSUME NEW c \in Clients, Refused(c) \/ NoDownload(c) PROVE ReservationsExact'
  BY <1>1, <1>8 DEF Refused, NoDownload, Reserving
<1>9. ASSUME NEW c \in Clients, ServeFile(c) PROVE ReservationsExact'
  BY <1>1, <1>9 DEF ServeFile, Reserving
<1>10. CASE UNCHANGED vars
  BY <1>1, <1>10 DEF vars, Reserving
<1> QED
  BY <1>2, <1>3, <1>4, <1>5, <1>6, <1>7, <1>8, <1>9, <1>10 DEF Next

\* activeDownloads is the number of handlers between ReserveDownload and
\* FinishDownload: no reservation leaks, and FinishDownload never finds none.
THEOREM ShareReservations == Spec => []ReservationsExact
<1>1. Init => ReservationsExact
  <2> SUFFICES ASSUME Init, NEW k \in Links PROVE active[k] = Cardinality(Reserving(k))
    BY DEF ReservationsExact
  <2>1. Reserving(k) = {}
    BY DEF Init, Reserving
  <2> QED
    BY <2>1, FS_EmptySet DEF Init
<1> QED
  BY <1>1, ShareInit, ShareStep, ReservationsStep, PTL DEF Spec

\* The share store keeps its types.
THEOREM ShareTypes == Spec => []TypeOK
<1>1. ShareInv => TypeOK
  BY DEF ShareInv
<1> QED
  BY <1>1, ShareInit, ShareStep, PTL DEF Spec

-----------------------------------------------------------------------------
\* What was reported to the admin: only ids that were given out, and a deleted
\* link is neither in memory nor in the file.
Reported ==
  /\ created \subseteq used
  /\ deleted \subseteq used
  /\ \A k \in deleted : links[k] = NoLink /\ disk[k] = NoLink

RecordInv == Reported /\ CreatedSurvives

\* The loaded store has nothing deleted and everything it holds in its file.
LEMMA RecordInit == Init => RecordInv
  BY DEF Init, RecordInv, Reported, CreatedSurvives

\* A step that puts no link where there was none, in memory or in the file, and
\* reports nothing, keeps the records.
LEMMA RecordFrame ==
  ASSUME ShareInv, RecordInv, used' = used, created' = created, deleted' = deleted,
         \A k \in Links : (links'[k] = NoLink <=> links[k] = NoLink)
                         /\ (disk'[k] = NoLink => disk[k] = NoLink \/ links[k] = NoLink)
                         /\ (disk[k] = NoLink /\ links[k] = NoLink => disk'[k] = NoLink)
  PROVE  RecordInv'
  BY DEF ShareInv, TypeOK, RecordInv, Reported, CreatedSurvives

\* Saving the links of the store, or failing to, is such a step.
LEMMA RecordSave ==
  ASSUME ShareInv, RecordInv, used' = used, created' = created, deleted' = deleted,
         NEW L, Save(L) \/ SaveFails(L),
         \A k \in Links : L[k] = NoLink <=> links[k] = NoLink
  PROVE  RecordInv'
<1>1. \A k \in Links : links'[k] = NoLink <=> links[k] = NoLink
  BY DEF Save, SaveFails
<1>2. \A k \in Links : /\ (disk'[k] = NoLink => disk[k] = NoLink \/ links[k] = NoLink)
                      /\ (disk[k] = NoLink /\ links[k] = NoLink => disk'[k] = NoLink)
  BY DEF Save, SaveFails
<1> QED
  BY <1>1, <1>2, RecordFrame

\* Every step keeps the records.
LEMMA RecordStep ==
  ASSUME ShareInv, RecordInv, [Next]_vars
  PROVE  RecordInv'
<1>t. /\ links \in [Links -> LinkType \cup {NoLink}]
      /\ disk \in [Links -> LinkType \cup {NoLink}]
      /\ NoLink \notin LinkType
      /\ created \subseteq Links /\ deleted \subseteq Links
      /\ \A k \in Links : k \notin used => links[k] = NoLink /\ disk[k] = NoLink
  BY ShareConstants DEF ShareInv, TypeOK, UnusedClean
<1>r. /\ created \subseteq used /\ deleted \subseteq used
      /\ \A k \in deleted : links[k] = NoLink /\ disk[k] = NoLink
      /\ \A k \in created : disk[k] = NoLink => links[k] = NoLink
  BY DEF RecordInv, Reported, CreatedSurvives
<1>f. ASSUME links' = links, disk' = disk, used' = used, created' = created, deleted' = deleted
      PROVE  RecordInv'
  BY <1>f, RecordFrame
<1>1. ASSUME NEW k \in Links, NEW max \in 0..MaxLimit, Create(k, max) PROVE RecordInv'
  <2> DEFINE L == [links EXCEPT ![k] = Link(max, FALSE)]
  <2>1. k \notin used /\ used' = used \cup {k} /\ deleted' = deleted
    BY <1>1 DEF Create
  <2>2. links' = L BY <1>1 DEF Create, Save, SaveFails
  <2>3. \/ disk' = L /\ created' = created \cup {k}
        \/ disk' = disk /\ created' = created
    BY <1>1 DEF Create, Save, SaveFails
  <2>4. \A j \in Links : j # k => L[j] = links[j] BY <1>t
  <2> HIDE DEF L
  <2>5. Reported' BY <2>1, <2>2, <2>3, <2>4, <1>r, <1>t DEF Reported
  <2>6. CreatedSurvives' BY <2>1, <2>2, <2>3, <2>4, <1>r, <1>t DEF CreatedSurvives
  <2> QED BY <2>5, <2>6 DEF RecordInv
<1>2. ASSUME NEW k \in Links, SetURLPath(k) PROVE RecordInv'
  <2>1. CASE links[k] = NoLink BY <1>2, <2>1, <1>f DEF SetURLPath
  <2>2. CASE links[k] # NoLink
    <3>1. Save(links) \/ SaveFails(links) BY <1>2, <2>2 DEF SetURLPath
    <3> QED BY <1>2, <3>1, RecordSave DEF SetURLPath
  <2> QED BY <2>1, <2>2
<1>3. ASSUME NEW k \in Links, Delete(k) PROVE RecordInv'
  <2> DEFINE L == [links EXCEPT ![k] = NoLink]
  <2>1. used' = used /\ created' = created /\ links[k] # NoLink BY <1>3 DEF Delete
  <2>2. links' = L BY <1>3 DEF Delete, Save, SaveFails
  <2>3. \/ disk' = L /\ deleted' = deleted \cup {k}
        \/ disk' = disk /\ deleted' = deleted
    BY <1>3 DEF Delete, Save, SaveFails
  <2>4. L[k] = NoLink /\ \A j \in Links : j # k => L[j] = links[j] BY <1>t
  <2> HIDE DEF L
  <2>5. k \in used BY <2>1, <1>t
  <2>6. Reported' BY <2>1, <2>2, <2>3, <2>4, <2>5, <1>r, <1>t DEF Reported
  <2>7. CreatedSurvives' BY <2>1, <2>2, <2>3, <2>4, <1>r, <1>t DEF CreatedSurvives
  <2> QED BY <2>6, <2>7 DEF RecordInv
<1>4. ASSUME NEW k \in Links, Expire(k) PROVE RecordInv'
  <2>1. used' = used /\ created' = created /\ deleted' = deleted BY <1>4 DEF Expire
  <2>2. \A j \in Links : links'[j] = NoLink <=> links[j] = NoLink
    BY <1>4, <1>t DEF Expire, LinkType
  <2>3. \A j \in Links : disk'[j] = NoLink <=> disk[j] = NoLink
    BY <1>4, <1>t DEF Expire, LinkType
  <2> QED BY <2>1, <2>2, <2>3, RecordFrame
<1>5. ASSUME NEW c \in Clients, FinishDownload(c) PROVE RecordInv'
  <2>1. used' = used /\ created' = created /\ deleted' = deleted BY <1>5 DEF FinishDownload
  <2> DEFINE k == want[c]
             L == [links EXCEPT ![k].count = @ + 1]
  <2>2. CASE links[k] # NoLink
    <3>1. k \in Links BY <1>5 DEF FinishDownload, ShareInv, WantSet
    <3>2. links[k] \in LinkType BY <2>2, <3>1, <1>t
    <3>3. L[k] \in LinkType /\ \A j \in Links : j # k => L[j] = links[j]
      BY <3>1, <3>2, <1>t DEF LinkType
    <3>4. Save(L) \/ SaveFails(L) \/ UNCHANGED <<links, disk>>
      BY <1>5 DEF FinishDownload
    <3> HIDE DEF L, k
    <3>5. \A j \in Links : L[j] = NoLink <=> links[j] = NoLink
      BY <3>1, <3>2, <3>3, <1>t
    <3> QED BY <2>1, <3>4, <3>5, <1>f, RecordSave
  <2>3. CASE links[k] = NoLink
    BY <1>5, <2>1, <2>3, <1>f DEF FinishDownload
  <2> QED BY <2>2, <2>3
<1>6. CASE Restart
  <2>1. links' = disk /\ disk' = disk /\ used' = used /\ created' = created /\ deleted' = deleted
    BY <1>6 DEF Restart
  <2>2. Reported' BY <2>1, <1>r DEF Reported
  <2>3. CreatedSurvives' BY <2>1, <1>r DEF CreatedSurvives
  <2> QED BY <2>2, <2>3 DEF RecordInv
<1>7. ASSUME NEW c \in Clients,
             \/ \E k \in Links : Verify(c, k)
             \/ NoDownload(c) \/ ReserveDownload(c) \/ Refused(c) \/ ServeFile(c)
      PROVE  RecordInv'
  BY <1>7, <1>f DEF Verify, NoDownload, ReserveDownload, Refused, ServeFile
<1>8. CASE UNCHANGED vars
  BY <1>8, <1>f DEF vars
<1> QED
  BY <1>1, <1>2, <1>3, <1>4, <1>5, <1>6, <1>7, <1>8 DEF Next

\* The records are kept in every reachable state.
LEMMA RecordInvariant == Spec => [](ShareInv /\ RecordInv)
<1>1. ShareInv /\ RecordInv /\ [Next]_vars => (ShareInv /\ RecordInv)'
  BY ShareStep, RecordStep
<1> QED
  BY <1>1, ShareInit, RecordInit, PTL DEF Spec

\* A link whose creation was reported is in shares.json as long as the daemon
\* knows it (Create, saveLocked).
THEOREM ShareCreatedSurvives == Spec => []CreatedSurvives
<1>1. RecordInv => CreatedSurvives
  BY DEF RecordInv
<1> QED
  BY <1>1, RecordInvariant, PTL

\* No download of a deleted link starts, not even after a restart (Delete,
\* SetURLPath, load).
THEOREM ShareDeletedStaysDeleted == Spec => DeletedStaysDeleted
<1>1. ASSUME ShareInv, RecordInv, [Next]_vars, NEW k \in deleted PROVE active'[k] <= active[k]
  <2>t. /\ k \in Links /\ links[k] = NoLink
        /\ active \in [Links -> Nat]
    BY <1>1 DEF ShareInv, TypeOK, RecordInv, Reported
  <2>1. ASSUME active' = active PROVE active'[k] <= active[k]
    BY <2>1, <2>t
  <2>2. ASSUME NEW c \in Clients, ReserveDownload(c) PROVE active'[k] <= active[k]
    <3>1. want[c] # k BY <2>2, <2>t DEF ReserveDownload
    <3>2. active' = [active EXCEPT ![want[c]] = @ + 1] BY <2>2 DEF ReserveDownload
    <3> QED BY <3>1, <3>2, <2>t
  <2>3. ASSUME NEW c \in Clients, FinishDownload(c) PROVE active'[k] <= active[k]
    <3>1. active' = IF active[want[c]] = 0 THEN active ELSE [active EXCEPT ![want[c]] = @ - 1]
      BY <2>3 DEF FinishDownload
    <3> QED BY <3>1, <2>t
  <2>4. CASE Restart BY <2>4, <2>t DEF Restart
  <2>5. ASSUME NEW j \in Links,
               \/ SetURLPath(j) \/ Delete(j) \/ Expire(j)
               \/ \E max \in 0..MaxLimit : Create(j, max)
        PROVE  active'[k] <= active[k]
    BY <2>5, <2>1 DEF SetURLPath, Delete, Expire, Create
  <2>6. ASSUME NEW c \in Clients,
               \/ \E j \in Links : Verify(c, j)
               \/ NoDownload(c) \/ Refused(c) \/ ServeFile(c)
        PROVE  active'[k] <= active[k]
    BY <2>6, <2>1 DEF Verify, NoDownload, Refused, ServeFile
  <2>7. CASE UNCHANGED vars BY <2>7, <2>1 DEF vars
  <2> QED
    BY <1>1, <2>2, <2>3, <2>4, <2>5, <2>6, <2>7 DEF Next
<1>2. ShareInv /\ RecordInv /\ [Next]_vars => [\A k \in deleted : active'[k] <= active[k]]_vars
  BY <1>1
<1> QED
  BY <1>2, RecordInvariant, PTL DEF Spec, DeletedStaysDeleted

-----------------------------------------------------------------------------
\* Reservations whose file is being sent, and those whose file was sent whole.
InStep(k, x) == {c \in Clients : step[c] = x /\ want[c] = k}
Flying(k) == Cardinality(InStep(k, "sending"))
Landed(k) == Cardinality(InStep(k, "sent"))

\* A link keeps the limit it was created with, in memory and in the file.
LimitKept ==
  \A k \in Links : /\ links[k] # NoLink => links[k].max = limit[k]
                   /\ disk[k] # NoLink => disk[k].max = limit[k]

\* Requests are about links that exist or existed.
WantUsed ==
  /\ \A c \in Clients : want[c] \in Links => want[c] \in used
  /\ \A k \in Links : k \notin used => served[k] = 0

\* Every delivery is counted or about to be counted, and those under way still
\* fit: this is what remains true of a link that is deleted meanwhile.
Delivered ==
  \A k \in Links :
    /\ links[k] # NoLink => served[k] <= links[k].count + Landed(k)
    /\ limit[k] > 0 => served[k] + Flying(k) <= limit[k]

DeliveryInv == LimitKept /\ WantUsed /\ Delivered

\* The requests in one step are finitely many.
LEMMA InStepFinite ==
  \A k \in Links : \A x \in {"sending", "sent"} :
    IsFiniteSet(InStep(k, x)) /\ Cardinality(InStep(k, x)) \in Nat
<1> SUFFICES ASSUME NEW k \in Links, NEW x \in {"sending", "sent"}
             PROVE  IsFiniteSet(InStep(k, x)) /\ Cardinality(InStep(k, x)) \in Nat
  OBVIOUS
<1>1. InStep(k, x) \subseteq Clients
  BY DEF InStep
<1> QED
  BY <1>1, ShareConstants, FS_Subset, FS_CardinalityType

\* Both kinds hold a reservation.
LEMMA BothReserve ==
  ASSUME NEW k \in Links
  PROVE  Flying(k) + Landed(k) <= Cardinality(Reserving(k))
<1> DEFINE S == InStep(k, "sending")
           T == InStep(k, "sent")
<1>1. IsFiniteSet(S) /\ IsFiniteSet(T) /\ Cardinality(S) \in Nat /\ Cardinality(T) \in Nat
  BY InStepFinite
<1>2. S \cap T = {}
  BY DEF InStep
<1>3. S \cup T \in SUBSET Reserving(k)
  BY DEF InStep, Reserving
<1> HIDE DEF S, T
<1>4. Cardinality(S \cup T) = Cardinality(S) + Cardinality(T)
  <2>1. Cardinality(S \cup T) = Cardinality(S) + Cardinality(T) - Cardinality(S \cap T)
    BY <1>1, FS_Union
  <2>2. Cardinality(S \cap T) = 0
    BY <1>2, FS_EmptySet
  <2> QED
    BY <1>1, <2>1, <2>2
<1>5. Cardinality(S \cup T) <= Cardinality(Reserving(k))
  BY <1>3, ReservingFinite, FS_Subset
<1> QED
  BY <1>4, <1>5 DEF S, T, Flying, Landed

\* Nothing is under way when the store is loaded.
LEMMA DeliveryInit == Init => DeliveryInv
<1> SUFFICES ASSUME Init PROVE DeliveryInv
  OBVIOUS
<1>1. \A k \in Links : links[k] # NoLink =>
        links[k].count = 0 /\ links[k].max \in Nat /\ links[k].max = limit[k]
  BY LinkTyped, ShareConstants DEF Init, Link
<1>2. LimitKept
  BY <1>1 DEF Init, LimitKept
<1>3. WantUsed
  BY ShareConstants DEF Init, WantUsed
<1>4. \A k \in Links : InStep(k, "sending") = {} /\ InStep(k, "sent") = {}
  BY DEF Init, InStep
<1>5. \A k \in Links : Flying(k) = 0 /\ Landed(k) = 0
  BY <1>4, FS_EmptySet DEF Flying, Landed
<1>6. \A k \in Links : served[k] = 0 /\ limit[k] \in Nat
  BY <1>1 DEF Init
<1>7. Delivered
  BY <1>1, <1>5, <1>6 DEF Delivered
<1> QED
  BY <1>2, <1>3, <1>7 DEF DeliveryInv

\* A step that leaves the requests alone and changes neither limit nor count of
\* a link, unless it takes the link away, keeps the deliveries within bounds.
LEMMA DeliveryFrame ==
  ASSUME ShareInv, DeliveryInv, UNCHANGED <<served, limit>>, used \subseteq used',
         \A k \in Links : /\ InStep(k, "sending")' = InStep(k, "sending")
                         /\ InStep(k, "sent")' = InStep(k, "sent"),
         \A c \in Clients : want'[c] \in Links => want'[c] \in used,
         \A k \in Links :
           /\ links'[k] # NoLink =>
                links[k] # NoLink /\ links'[k].max = links[k].max /\ links'[k].count = links[k].count
           /\ disk'[k] # NoLink =>
                \/ disk[k] # NoLink /\ disk'[k].max = disk[k].max
                \/ links[k] # NoLink /\ disk'[k].max = links[k].max
  PROVE  DeliveryInv'
<1>1. LimitKept'
  BY DEF DeliveryInv, LimitKept
<1>2. WantUsed'
  BY DEF DeliveryInv, WantUsed
<1>3. \A k \in Links : Flying(k)' = Flying(k) /\ Landed(k)' = Landed(k)
  BY DEF Flying, Landed
<1>4. Delivered'
  BY <1>3 DEF DeliveryInv, Delivered
<1> QED
  BY <1>1, <1>2, <1>4 DEF DeliveryInv

\* A step that sets the links, the requests and the deliveries of one link k, and
\* of no other, keeps the bounds if it keeps them for k.
LEMMA DeliveryAt ==
  ASSUME ShareInv, DeliveryInv, NEW k \in Links, used' = used, limit' = limit,
         LimitKept',
         \A c \in Clients : want'[c] \in Links => want'[c] \in used,
         served' \in [Links -> Nat],
         \A j \in Links : j # k =>
           /\ InStep(j, "sending")' = InStep(j, "sending")
           /\ InStep(j, "sent")' = InStep(j, "sent")
           /\ served'[j] = served[j] /\ links'[j] = links[j],
         k \in used,
         links'[k] # NoLink => served'[k] <= links'[k].count + Landed(k)',
         limit[k] > 0 => served'[k] + Flying(k)' <= limit[k]
  PROVE  DeliveryInv'
<1>1. WantUsed'
  BY DEF DeliveryInv, WantUsed
<1>2. \A j \in Links : j # k => Flying(j)' = Flying(j) /\ Landed(j)' = Landed(j)
  BY DEF Flying, Landed
<1>3. Delivered'
  BY <1>2 DEF DeliveryInv, Delivered
<1> QED
  BY <1>1, <1>3 DEF DeliveryInv

\* Every step keeps the deliveries within the limits.
LEMMA DeliveryStep ==
  ASSUME ShareInv, ReservationsExact, DeliveryInv, [Next]_vars
  PROVE  DeliveryInv'
<1>t. /\ links \in [Links -> LinkType \cup {NoLink}]
      /\ disk \in [Links -> LinkType \cup {NoLink}]
      /\ served \in [Links -> Nat] /\ limit \in [Links -> Nat]
      /\ active \in [Links -> Nat]
      /\ step \in [Clients -> {"idle", "verified", "sending", "sent", "broken"}]
      /\ want \in [Clients -> Links \cup {NoLink}]
      /\ NoLink \notin LinkType /\ NoLink \notin Links
  BY ShareConstants DEF ShareInv, TypeOK
<1>w. \A c \in Clients : step[c] # "idle" => want[c] \in Links /\ want[c] \in used
  BY DEF ShareInv, WantSet, DeliveryInv, WantUsed
<1>u. \A c \in Clients : want[c] \in Links => want[c] \in used
  BY DEF DeliveryInv, WantUsed
<1>l. LimitKept /\ Delivered
  BY DEF DeliveryInv
<1>n. \A k \in Links : Flying(k) \in Nat /\ Landed(k) \in Nat
  BY InStepFinite DEF Flying, Landed
<1>1. ASSUME NEW k \in Links, NEW max \in 0..MaxLimit, Create(k, max) PROVE DeliveryInv'
  <2> DEFINE L == [links EXCEPT ![k] = Link(max, FALSE)]
  <2>1. /\ k \notin used /\ used' = used \cup {k}
        /\ limit' = [limit EXCEPT ![k] = max]
        /\ UNCHANGED <<step, want, served>>
    BY <1>1 DEF Create
  <2>2. links' = L /\ (disk' = L \/ disk' = disk)
    BY <1>1 DEF Create, Save, SaveFails
  <2>3. L[k].max = max /\ L[k].count = 0 /\ \A j \in Links : j # k => L[j] = links[j]
    BY <1>t DEF Link
  <2>4. links[k] = NoLink /\ disk[k] = NoLink /\ served[k] = 0
    BY <2>1 DEF ShareInv, UnusedClean, DeliveryInv, WantUsed
  <2> HIDE DEF L
  <2>5. LimitKept'
    BY <2>1, <2>2, <2>3, <2>4, <1>l, <1>t DEF LimitKept
  <2>6. WantUsed'
    BY <2>1 DEF DeliveryInv, WantUsed
  <2>7. \A j \in Links : InStep(j, "sending")' = InStep(j, "sending")
                        /\ InStep(j, "sent")' = InStep(j, "sent")
    BY <2>1 DEF InStep
  <2>8. InStep(k, "sending") = {} /\ InStep(k, "sent") = {}
    BY <2>1, <1>u DEF InStep
  <2>9. /\ Flying(k)' = 0 /\ Landed(k)' = 0
        /\ \A j \in Links : Flying(j)' = Flying(j) /\ Landed(j)' = Landed(j)
    BY <2>7, <2>8, FS_EmptySet DEF Flying, Landed
  <2>10. Delivered'
    BY <2>1, <2>2, <2>3, <2>4, <2>9, <1>l, <1>t DEF Delivered
  <2> QED
    BY <2>5, <2>6, <2>10 DEF DeliveryInv
<1>2. ASSUME NEW c \in Clients, ReserveDownload(c) PROVE DeliveryInv'
  <2>0. PICK k \in Links : k = want[c]
    BY <1>2, <1>w DEF ReserveDownload
  <2>1. /\ k \in Links /\ k \in used /\ links[k] # NoLink /\ Available(links[k], active[k])
        /\ step' = [step EXCEPT ![c] = "sending"] /\ step[c] = "verified"
        /\ UNCHANGED <<links, disk, used, want, served, limit>>
    BY <1>2, <2>0, <1>w DEF ReserveDownload
  <2>2. /\ InStep(k, "sending")' = InStep(k, "sending") \cup {c}
        /\ c \notin InStep(k, "sending")
        /\ InStep(k, "sent")' = InStep(k, "sent")
    BY <2>0, <2>1, <1>t DEF InStep
  <2>3. ASSUME NEW j \in Links, j # k
        PROVE  /\ InStep(j, "sending")' = InStep(j, "sending")
               /\ InStep(j, "sent")' = InStep(j, "sent")
    BY <2>0, <2>1, <2>3, <1>t DEF InStep
  <2>4. Flying(k)' = Flying(k) + 1 /\ Landed(k)' = Landed(k)
    BY <2>1, <2>2, InStepFinite, FS_AddElement DEF Flying, Landed
  <2>5. links[k] \in LinkType /\ links[k].max = limit[k]
    BY <2>1, <1>t, <1>l DEF LimitKept
  <2>6. links[k].max > 0 => links[k].count + active[k] < links[k].max
    BY <2>1 DEF Available
  <2>7. Flying(k) + Landed(k) <= active[k]
    BY <2>1, BothReserve DEF ReservationsExact
  <2>8. served[k] <= links[k].count + Landed(k)
    BY <2>1, <1>l DEF Delivered
  <2>9. limit[k] > 0 => served[k] + Flying(k)' <= limit[k]
    BY <2>1, <2>4, <2>5, <2>6, <2>7, <2>8, <1>n, <1>t DEF LinkType
  <2>10. LimitKept'
    BY <2>1, <1>l DEF LimitKept
  <2>11. /\ used' = used /\ limit' = limit /\ served' \in [Links -> Nat]
         /\ \A d \in Clients : want'[d] \in Links => want'[d] \in used
    BY <2>1, <1>t, <1>u
  <2>12. \A j \in Links : j # k =>
           /\ InStep(j, "sending")' = InStep(j, "sending")
           /\ InStep(j, "sent")' = InStep(j, "sent")
           /\ served'[j] = served[j] /\ links'[j] = links[j]
    BY <2>1, <2>3
  <2>13. links'[k] # NoLink => served'[k] <= links'[k].count + Landed(k)'
    BY <2>1, <2>4, <2>8
  <2>14. limit[k] > 0 => served'[k] + Flying(k)' <= limit[k]
    BY <2>1, <2>9
  <2>15. k \in Links /\ k \in used
    BY <2>1
  <2> QED
    BY <2>10, <2>11, <2>12, <2>13, <2>14, <2>15, DeliveryAt
<1>3. ASSUME NEW c \in Clients, ServeFile(c) PROVE DeliveryInv'
  <2>0. PICK k \in Links : k = want[c]
    BY <1>3, <1>w DEF ServeFile
  <2>1. /\ k \in Links /\ k \in used /\ step[c] = "sending"
        /\ UNCHANGED <<links, disk, used, want, limit>>
    BY <1>3, <2>0, <1>w DEF ServeFile
  <2>2. \/ step' = [step EXCEPT ![c] = "sent"] /\ served' = [served EXCEPT ![k] = @ + 1]
        \/ step' = [step EXCEPT ![c] = "broken"] /\ served' = served
    BY <1>3, <2>0 DEF ServeFile
  <2>3. InStep(k, "sending")' = InStep(k, "sending") \ {c} /\ c \in InStep(k, "sending")
    BY <2>0, <2>1, <2>2, <1>t DEF InStep
  <2>4. ASSUME NEW j \in Links, j # k
        PROVE  /\ InStep(j, "sending")' = InStep(j, "sending")
               /\ InStep(j, "sent")' = InStep(j, "sent")
    BY <2>0, <2>1, <2>2, <2>4, <1>t DEF InStep
  <2>5. \/ /\ served' = [served EXCEPT ![k] = @ + 1]
           /\ InStep(k, "sent")' = InStep(k, "sent") \cup {c} /\ c \notin InStep(k, "sent")
        \/ served' = served /\ InStep(k, "sent")' = InStep(k, "sent")
    BY <2>0, <2>1, <2>2, <1>t DEF InStep
  <2>6. Flying(k)' = Flying(k) - 1
    BY <2>1, <2>3, InStepFinite, FS_RemoveElement DEF Flying
  <2>7. \/ served'[k] = served[k] + 1 /\ Landed(k)' = Landed(k) + 1
        \/ served'[k] = served[k] /\ Landed(k)' = Landed(k)
    BY <2>1, <2>5, <1>t, InStepFinite, FS_AddElement DEF Landed
  <2>8. served' \in [Links -> Nat] /\ \A j \in Links : j # k => served'[j] = served[j]
    BY <2>1, <2>5, <1>t
  <2>9. limit[k] > 0 => served'[k] + Flying(k)' <= limit[k]
    BY <2>1, <2>6, <2>7, <1>l, <1>n, <1>t DEF Delivered
  <2>10. links[k] # NoLink => served'[k] <= links[k].count + Landed(k)'
    <3>1. links[k] # NoLink => links[k].count \in Nat
      BY <2>1, <1>t DEF LinkType
    <3> QED
      BY <2>1, <2>7, <3>1, <1>l, <1>n, <1>t DEF Delivered
  <2>11. LimitKept'
    BY <2>1, <1>l DEF LimitKept
  <2>12. /\ used' = used /\ limit' = limit /\ k \in Links /\ k \in used
         /\ \A d \in Clients : want'[d] \in Links => want'[d] \in used
    BY <2>1, <1>u
  <2>13. \A j \in Links : j # k =>
           /\ InStep(j, "sending")' = InStep(j, "sending")
           /\ InStep(j, "sent")' = InStep(j, "sent")
           /\ served'[j] = served[j] /\ links'[j] = links[j]
    BY <2>1, <2>4, <2>8
  <2>14. links'[k] # NoLink => served'[k] <= links'[k].count + Landed(k)'
    BY <2>1, <2>10
  <2> QED
    BY <2>8, <2>9, <2>11, <2>12, <2>13, <2>14, DeliveryAt
<1>4. ASSUME NEW c \in Clients, FinishDownload(c) PROVE DeliveryInv'
  <2>0. PICK k \in Links : k = want[c]
    BY <1>4, <1>w DEF FinishDownload
  <2> DEFINE L == [links EXCEPT ![k].count = @ + 1]
  <2>1. /\ k \in Links /\ k \in used /\ step[c] \in {"sent", "broken"}
        /\ step' = [step EXCEPT ![c] = "idle"] /\ want' = [want EXCEPT ![c] = NoLink]
        /\ UNCHANGED <<used, served, limit>>
    BY <1>4, <2>0, <1>w DEF FinishDownload
  <2>2. active[k] # 0
    <3>1. c \in Reserving(k)
      BY <2>0, <2>1 DEF Reserving
    <3>2. Cardinality(Reserving(k)) # 0
      BY <2>1, <3>1, ReservingFinite, FS_EmptySet
    <3> QED
      BY <2>1, <3>2 DEF ReservationsExact
  <2>3. IF step[c] = "sent" /\ links[k] # NoLink
          THEN Save(L) \/ SaveFails(L) ELSE UNCHANGED <<links, disk>>
    BY <1>4, <2>0, <2>2 DEF FinishDownload
  <2>4. ASSUME NEW j \in Links PROVE InStep(j, "sending")' = InStep(j, "sending")
    BY <2>0, <2>1, <1>t DEF InStep
  <2>5. ASSUME NEW j \in Links, j # k PROVE InStep(j, "sent")' = InStep(j, "sent")
    BY <2>0, <2>1, <2>5, <1>t DEF InStep
  <2>6. ASSUME NEW d \in Clients, want'[d] \in Links PROVE want'[d] \in used
    BY <2>1, <2>6, <1>t, <1>u
  <2>7. CASE step[c] = "sent" /\ links[k] # NoLink
    <3>1. links' = L /\ (disk' = L \/ disk' = disk)
      BY <2>3, <2>7 DEF Save, SaveFails
    <3>2. /\ links[k] \in LinkType
          /\ L[k].count = links[k].count + 1 /\ L[k].max = links[k].max
          /\ \A j \in Links : j # k => L[j] = links[j]
      BY <2>1, <2>7, <1>t DEF LinkType
    <3>3. c \in InStep(k, "sent") /\ InStep(k, "sent")' = InStep(k, "sent") \ {c}
      BY <2>0, <2>1, <2>7, <1>t DEF InStep
    <3>4. k \in Links /\ k \in used /\ links[k] # NoLink
      BY <2>1, <2>7
    <3> HIDE DEF L
    <3>5. Landed(k)' = Landed(k) - 1 /\ Flying(k)' = Flying(k)
      BY <2>4, <3>3, <3>4, InStepFinite, FS_RemoveElement DEF Landed, Flying
    <3>6. LimitKept'
      BY <2>1, <3>1, <3>2, <3>4, <1>l DEF LimitKept
    <3>7. links'[k] # NoLink => served'[k] <= links'[k].count + Landed(k)'
      BY <2>1, <3>1, <3>2, <3>4, <3>5, <1>l, <1>n, <1>t DEF Delivered, LinkType
    <3>8. limit[k] > 0 => served'[k] + Flying(k)' <= limit[k]
      BY <2>1, <3>4, <3>5, <1>l DEF Delivered
    <3>9. \A j \in Links : j # k =>
            /\ InStep(j, "sending")' = InStep(j, "sending")
            /\ InStep(j, "sent")' = InStep(j, "sent")
            /\ served'[j] = served[j] /\ links'[j] = links[j]
      BY <2>1, <2>4, <2>5, <3>1, <3>2
    <3>10. used' = used /\ limit' = limit /\ served' \in [Links -> Nat]
      BY <2>1, <1>t
    <3> QED
      BY <2>6, <3>4, <3>6, <3>7, <3>8, <3>9, <3>10, DeliveryAt
  <2>8. CASE ~(step[c] = "sent" /\ links[k] # NoLink)
    <3>1. links' = links /\ disk' = disk
      BY <2>3, <2>8
    <3>2. LimitKept' /\ used' = used /\ limit' = limit /\ served' \in [Links -> Nat]
      BY <2>1, <3>1, <1>l, <1>t DEF LimitKept
    <3>3. \A j \in Links : j # k =>
            /\ InStep(j, "sending")' = InStep(j, "sending")
            /\ InStep(j, "sent")' = InStep(j, "sent")
            /\ served'[j] = served[j] /\ links'[j] = links[j]
      BY <2>1, <2>4, <2>5, <3>1
    <3>4. limit[k] > 0 => served'[k] + Flying(k)' <= limit[k]
      BY <2>1, <2>4, <1>l DEF Delivered, Flying
    <3>5. links[k] # NoLink => InStep(k, "sent")' = InStep(k, "sent")
      BY <2>0, <2>1, <2>8, <1>t DEF InStep
    <3>6. links'[k] # NoLink => served'[k] <= links'[k].count + Landed(k)'
      BY <2>1, <3>1, <3>5, <1>l DEF Delivered, Landed
    <3>7. k \in Links /\ k \in used
      BY <2>1
    <3> HIDE DEF L
    <3> QED
      BY <2>6, <3>2, <3>3, <3>4, <3>6, <3>7, DeliveryAt
  <2> QED
    BY <2>7, <2>8
<1>5. CASE Restart
  <2>1. /\ links' = disk /\ disk' = disk /\ used' = used /\ limit' = limit
        /\ step' = [c \in Clients |-> "idle"] /\ want' = [c \in Clients |-> NoLink]
        /\ served' = [k \in Links |-> 0]
    BY <1>5 DEF Restart
  <2>2. LimitKept' /\ WantUsed'
    BY <2>1, <1>l, <1>t DEF LimitKept, WantUsed
  <2>3. \A k \in Links : InStep(k, "sending")' = {} /\ InStep(k, "sent")' = {}
    BY <2>1 DEF InStep
  <2>4. \A k \in Links : Flying(k)' = 0 /\ Landed(k)' = 0
    BY <2>3, FS_EmptySet DEF Flying, Landed
  <2>5. \A k \in Links : disk[k] # NoLink => disk[k].count \in Nat
    BY <1>t DEF LinkType
  <2>6. Delivered'
    BY <2>1, <2>4, <2>5, <1>t DEF Delivered
  <2> QED
    BY <2>2, <2>6 DEF DeliveryInv
<1>6. ASSUME NEW k \in Links, SetURLPath(k) \/ Delete(k) PROVE DeliveryInv'
  <2> DEFINE L == [links EXCEPT ![k] = NoLink]
  <2>1. UNCHANGED <<used, step, want, served, limit>>
    BY <1>6 DEF SetURLPath, Delete
  <2>2. \/ links' = links /\ (disk' = links \/ disk' = disk)
        \/ links' = L /\ (disk' = L \/ disk' = disk)
    BY <1>6 DEF SetURLPath, Delete, Save, SaveFails
  <2>3. \A j \in Links : L[j] # NoLink => L[j] = links[j]
    BY <1>t
  <2> HIDE DEF L
  <2>4. \A j \in Links : InStep(j, "sending")' = InStep(j, "sending")
                        /\ InStep(j, "sent")' = InStep(j, "sent")
    BY <2>1 DEF InStep
  <2>5. \A c \in Clients : want'[c] \in Links => want'[c] \in used
    BY <2>1, <1>u
  <2>6. \A j \in Links :
          /\ links'[j] # NoLink => links[j] # NoLink /\ links'[j] = links[j]
          /\ disk'[j] # NoLink => disk'[j] = disk[j] \/ disk'[j] = links[j]
    BY <2>2, <2>3
  <2> QED
    BY <2>1, <2>4, <2>5, <2>6, DeliveryFrame
<1>7. ASSUME NEW k \in Links, Expire(k) PROVE DeliveryInv'
  <2>1. UNCHANGED <<used, step, want, served, limit>>
    BY <1>7 DEF Expire
  <2>2. \A j \in Links : InStep(j, "sending")' = InStep(j, "sending")
                        /\ InStep(j, "sent")' = InStep(j, "sent")
    BY <2>1 DEF InStep
  <2>3. \A j \in Links : links'[j] # NoLink =>
          links[j] # NoLink /\ links'[j].max = links[j].max /\ links'[j].count = links[j].count
    BY <1>7, <1>t DEF Expire, LinkType
  <2>4. \A j \in Links : disk'[j] # NoLink => disk[j] # NoLink /\ disk'[j].max = disk[j].max
    BY <1>7, <1>t DEF Expire, LinkType
  <2>5. \A c \in Clients : want'[c] \in Links => want'[c] \in used
    BY <2>1, <1>u
  <2> QED
    BY <2>1, <2>2, <2>3, <2>4, <2>5, DeliveryFrame
<1>8. ASSUME NEW c \in Clients,
             (\E k \in Links : Verify(c, k)) \/ NoDownload(c) \/ Refused(c)
      PROVE  DeliveryInv'
  <2>1. /\ UNCHANGED <<links, disk, used, served, limit>>
        /\ step[c] \in {"idle", "verified"}
        /\ \E x \in {"idle", "verified"} : step' = [step EXCEPT ![c] = x]
    BY <1>8 DEF Verify, NoDownload, Refused
  <2>2. \E k \in Links \cup {NoLink} :
          want' = [want EXCEPT ![c] = k] /\ (k \in Links => links[k] # NoLink)
    BY <1>8, <1>t DEF Verify, NoDownload, Refused
  <2>3. ASSUME NEW j \in Links
        PROVE  /\ InStep(j, "sending")' = InStep(j, "sending")
               /\ InStep(j, "sent")' = InStep(j, "sent")
    BY <2>1, <2>2, <1>t DEF InStep
  <2>4. \A k \in Links : links[k] # NoLink => k \in used
    BY DEF ShareInv, UnusedClean
  <2>5. \A d \in Clients : want'[d] \in Links => want'[d] \in used
    BY <2>2, <2>4, <1>t, <1>u
  <2> QED
    BY <2>1, <2>3, <2>5, DeliveryFrame
<1>9. CASE UNCHANGED vars
  <2>1. UNCHANGED <<links, disk, used, step, want, served, limit>>
    BY <1>9 DEF vars
  <2>2. \A j \in Links : InStep(j, "sending")' = InStep(j, "sending")
                        /\ InStep(j, "sent")' = InStep(j, "sent")
    BY <2>1 DEF InStep
  <2> QED
    BY <2>1, <2>2, <1>u, DeliveryFrame
<1> QED
  BY <1>1, <1>2, <1>3, <1>4, <1>5, <1>6, <1>7, <1>8, <1>9 DEF Next

\* From one start of the daemon to the next no limited link is delivered more
\* often than its limit, whatever is deleted or cannot be saved meanwhile.
THEOREM ShareDeliveries == Spec => []DeliveriesWithinLimit
<1>1. DeliveryInv /\ ShareInv => DeliveriesWithinLimit
  <2> SUFFICES ASSUME DeliveryInv, ShareInv, NEW k \in Links, limit[k] > 0
               PROVE  served[k] <= limit[k]
    BY DEF DeliveriesWithinLimit
  <2>1. served[k] + Flying(k) <= limit[k]
    BY DEF DeliveryInv, Delivered
  <2>2. Flying(k) \in Nat /\ served[k] \in Nat /\ limit[k] \in Nat
    BY InStepFinite DEF Flying, ShareInv, TypeOK
  <2> QED
    BY <2>1, <2>2
<1> QED
  BY <1>1, ShareInit, ShareStep, ShareReservations, DeliveryInit, DeliveryStep, PTL DEF Spec
=============================================================================
