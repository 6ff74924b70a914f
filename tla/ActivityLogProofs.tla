-------------------------- MODULE ActivityLogProofs --------------------------
(***************************************************************************)
(* What the activity log keeps over cut writes, crashes and restarts, for  *)
(* any ring that is scanned in full, any page and any number of events.    *)
(*                                                                         *)
(* Three facts need one another: ids are assigned in the order of the      *)
(* file, so what load has read so far is below what it has yet to read;    *)
(* the ring holds readable lines while it is loaded; and what the reader   *)
(* has been told is complete for the lines of the file too, because a      *)
(* restart takes the ring from there.                                      *)
(***************************************************************************)
EXTENDS ActivityLog, SequenceTheorems, FiniteSetTheorems, TLAPS

\* Along the file ids and numbers grow, and no id is ahead of its number.
FileInv ==
  /\ \A i \in Readable : file[i].id <= file[i].n /\ file[i].n <= added
  /\ \A i, k \in Readable : i < k => file[i].id < file[k].id /\ file[i].n < file[k].n

\* nextID lies between the lines that are known and those load has yet to read.
NextInv ==
  /\ nextID <= added
  /\ \A i \in Readable : up \/ i <= read => file[i].id <= nextID
  /\ \A i \in Readable : ~up /\ i > read => file[i].id > nextID

\* Along the ring ids grow too, and while it is loaded it holds lines.
RingInv ==
  /\ \A i \in DOMAIN events : events[i].id <= nextID /\ events[i].n <= added
  /\ \A i, k \in DOMAIN events : i < k => events[i].id < events[k].id
  /\ ~up => \A i \in DOMAIN events : \E j \in Readable : events[i] = file[j]
  /\ \A i \in DOMAIN events, j \in Readable :
       events[i].n = file[j].n => events[i].id = file[j].id

\* The reader is not ahead of the log, and has been told of every line up to its
\* newest id, and after its last full page, that could ever be loaded again.
ReaderInv ==
  /\ gap <= last
  /\ up /\ ~rewound => last <= nextID
  /\ ~rewound => \A i \in Readable :
       gap < file[i].id /\ file[i].id <= last /\ file[i].n \notin hidden => file[i].n \in seen
  /\ PollComplete

\* The events whose append succeeded and that cannot be read.
Lost == written \ {file[i].n : i \in Readable}

\* A cut line that is still open is one write that has not cost its second event.
TornInv ==
  /\ Len(file) <= added /\ torn <= added
  /\ written \subseteq 1..added
  /\ open /\ Len(file) \in Readable => file[Len(file)].n \notin written
  /\ Cardinality(Lost) + (IF open THEN 1 ELSE 0) <= torn

ActivityInv == TypeOK /\ FileInv /\ NextInv /\ RingInv /\ ReaderInv /\ TornInv

Lines == Event \cup {Junk}

-----------------------------------------------------------------------------
\* Junk is no event, and an event has the two numbers.
LEMMA EventFacts ==
  /\ Junk \notin Event
  /\ \A e \in Event : e.id \in 1..MaxEvents /\ e.n \in 1..MaxEvents
  /\ \A i, k \in 1..MaxEvents : [id |-> i, n |-> k] \in Event
<1>1. Event \subseteq [id : Nat, n : Nat]
  BY ActivityConstants DEF Event
<1> QED BY <1>1, ActivityConstants DEF Event

\* The ring keeps the newest events, in their order (the copy in Add and load).
LEMMA NewestFacts ==
  ASSUME NEW S, NEW s \in Seq(S)
  PROVE  /\ Newest(s) \in Seq(S) /\ Len(Newest(s)) <= Limit
         /\ \E d \in Nat : /\ Len(Newest(s)) = Len(s) - d
                           /\ \A i \in 1..Len(Newest(s)) : Newest(s)[i] = s[i + d]
<1>1. Len(s) \in Nat /\ Limit \in Nat
  BY ActivityConstants, LenProperties
<1>2. CASE Len(s) <= Limit
  <2>1. Newest(s) = s
    BY <1>2 DEF Newest
  <2>2. \A i \in 1..Len(s) : s[i] = s[i + 0]
    OBVIOUS
  <2> QED BY <1>1, <1>2, <2>1, <2>2
<1>3. CASE Len(s) > Limit
  <2>1. PICK cut \in Nat : cut + 1 \in 1..Len(s) + 1 /\ Limit = Len(s) - cut
    <3>1. Len(s) - Limit \in Nat /\ Limit = Len(s) - (Len(s) - Limit)
      BY <1>1, <1>3
    <3> QED BY <1>1, <1>3, <3>1
  <2>2. Newest(s) = SubSeq(s, cut + 1, Len(s))
    BY <1>1, <1>3, <2>1 DEF Newest
  <2>3. \A i \in cut + 1..Len(s) : i \in 1..Len(s)
    BY <1>1, <2>1
  <2>4. /\ SubSeq(s, cut + 1, Len(s)) \in Seq(S)
        /\ Len(SubSeq(s, cut + 1, Len(s))) = IF cut + 1 <= Len(s) THEN Len(s) - (cut + 1) + 1 ELSE 0
        /\ \A i \in 1..Len(s) - (cut + 1) + 1 : SubSeq(s, cut + 1, Len(s))[i] = s[cut + 1 + i - 1]
    BY <1>1, <2>1, <2>3, SubSeqProperties
  <2>5. Len(Newest(s)) = Len(s) - cut /\ Newest(s) \in Seq(S)
    BY <1>1, <1>3, <2>1, <2>2, <2>4
  <2>6. \A i \in 1..Len(Newest(s)) : Newest(s)[i] = s[i + cut]
    BY <1>1, <1>3, <2>1, <2>2, <2>4, <2>5
  <2>7. Len(Newest(s)) <= Limit
    BY <1>1, <2>1, <2>5
  <2>8. \E d \in Nat : /\ Len(Newest(s)) = Len(s) - d
                       /\ \A i \in 1..Len(Newest(s)) : Newest(s)[i] = s[i + d]
    BY ONLY <2>5, <2>6
  <2> QED BY <2>5, <2>7, <2>8
<1>4. Len(s) <= Limit \/ Len(s) > Limit
  BY <1>1
<1> QED BY <1>2, <1>3, <1>4, Zenon

\* t is what the ring s becomes with one more event: a newest part of both.
RingAfter(s, e, t) ==
  /\ \A i \in DOMAIN t : t[i] = e \/ \E j \in DOMAIN s : t[i] = s[j]
  /\ \A i, k \in DOMAIN t : i < k =>
       \E j \in DOMAIN s :
         t[i] = s[j] /\ (t[k] = e \/ \E m \in DOMAIN s : j < m /\ t[k] = s[m])

\* What one more event does to the ring (Add, load).
LEMMA RingGrows ==
  ASSUME NEW s \in Seq(Event), NEW e \in Event
  PROVE  /\ Newest(Append(s, e)) \in Seq(Event) /\ Len(Newest(Append(s, e))) <= Limit
         /\ RingAfter(s, e, Newest(Append(s, e)))
<1> DEFINE a == Append(s, e)
           t == Newest(a)
<1>1. /\ a \in Seq(Event) /\ Len(a) = Len(s) + 1 /\ a[Len(s) + 1] = e
      /\ \A i \in 1..Len(s) : a[i] = s[i]
      /\ Len(s) \in Nat /\ DOMAIN s = 1..Len(s)
  BY AppendProperties, LenProperties
<1>2. t \in Seq(Event) /\ Len(t) <= Limit
  BY <1>1, NewestFacts
<1>3. PICK d \in Nat : Len(t) = Len(a) - d /\ \A i \in 1..Len(t) : t[i] = a[i + d]
  BY <1>1, NewestFacts
<1>4. DOMAIN t = 1..Len(t) /\ Len(t) \in Nat
  BY <1>2, LenProperties
<1> HIDE DEF a, t
<1>5. \A i \in DOMAIN t : i + d \in 1..Len(s) + 1 /\ t[i] = a[i + d]
  BY <1>1, <1>3, <1>4
<1>6. \A i \in DOMAIN t : t[i] = e \/ \E j \in DOMAIN s : t[i] = s[j]
  BY <1>1, <1>5
<1>7. ASSUME NEW i \in DOMAIN t, NEW k \in DOMAIN t, i < k
      PROVE  \E j \in DOMAIN s : t[i] = s[j] /\ (t[k] = e \/ \E m \in DOMAIN s : j < m /\ t[k] = s[m])
  <2>1. /\ i + d \in DOMAIN s /\ t[i] = s[i + d]
        /\ (k + d = Len(s) + 1 /\ t[k] = e) \/ (k + d \in DOMAIN s /\ t[k] = s[k + d])
        /\ i + d < k + d
    BY <1>1, <1>4, <1>5, <1>7
  <2> QED BY <2>1
<1>8. RingAfter(s, e, t)
  BY <1>6, <1>7 DEF RingAfter
<1> QED BY <1>2, <1>8 DEF t, a

\* A line goes to the end of the file, or turns the cut line into junk.
LEMMA WrittenFacts ==
  ASSUME TypeOK, NEW line \in Lines
  PROVE  LET f == Written(line) IN
         /\ f \in Seq(Lines) /\ f # <<>>
         /\ \A i \in DOMAIN f : i < Len(f) => i \in DOMAIN file /\ f[i] = file[i]
         /\ open => Len(f) = Len(file) /\ f[Len(f)] = Junk
         /\ ~open => Len(f) = Len(file) + 1 /\ f[Len(f)] = line
<1>1. file \in Seq(Lines) /\ Len(file) \in Nat /\ DOMAIN file = 1..Len(file) /\ (open => Len(file) > 0)
  BY LenProperties, EmptySeq DEF TypeOK, Lines
<1>2. CASE open
  <2>1. PICK n \in Nat : n = Len(file)
    BY <1>1, Zenon
  <2>2. n \in 1..n /\ Junk \in Lines
    BY <1>1, <1>2, <2>1 DEF Lines
  <2>3. PICK f \in Seq(Lines) :
          /\ Written(line) = f /\ Len(f) = n
          /\ f[n] = Junk /\ \A i \in 1..n - 1 : f[i] = file[i]
    <3>1. Written(line) = [file EXCEPT ![n] = Junk]
      BY <1>2, <2>1 DEF Written
    <3>2. /\ [file EXCEPT ![n] = Junk] \in Seq(Lines)
          /\ Len([file EXCEPT ![n] = Junk]) = n
          /\ \A i \in 1..n : [file EXCEPT ![n] = Junk][i] = IF i = n THEN Junk ELSE file[i]
      BY ONLY <1>1, <2>1, <2>2, ExceptSeq
    <3>3. \A i \in 1..n - 1 : i \in 1..n /\ ~(i = n)
      BY <2>1
    <3> QED BY ONLY <2>2, <3>1, <3>2, <3>3
  <2>4. DOMAIN f = 1..n /\ f # <<>>
    BY <2>2, <2>3, LenProperties, EmptySeq
  <2>5. \A i \in DOMAIN f : i < Len(f) => i \in DOMAIN file /\ f[i] = file[i]
    BY <1>1, <2>1, <2>3, <2>4
  <2> QED BY <1>2, <2>1, <2>3, <2>4, <2>5, Zenon
<1>3. CASE ~open
  <2> DEFINE f == Append(file, line)
  <2>1. /\ f \in Seq(Lines) /\ Len(f) = Len(file) + 1 /\ f[Len(file) + 1] = line
        /\ \A i \in 1..Len(file) : f[i] = file[i]
        /\ DOMAIN f = 1..Len(file) + 1
    BY <1>1, AppendProperties, LenProperties
  <2>2. f # <<>>
    BY <1>1, <2>1
  <2> HIDE DEF f
  <2>3. \A i \in DOMAIN f : i < Len(f) => i \in DOMAIN file /\ f[i] = file[i]
    BY <1>1, <2>1
  <2>4. Written(line) = f
    BY <1>3 DEF Written, f
  <2> QED BY <1>3, <2>1, <2>2, <2>3, <2>4
<1> QED BY <1>2, <1>3

\* What one append can do to the file, however it goes.
Appended(e) ==
  /\ file' \in Seq(Lines) /\ (open' => file' # <<>>) /\ open' \in BOOLEAN
  /\ Len(file) <= Len(file') /\ Len(file') <= Len(file) + 1
  /\ \A i \in Readable' : \/ i \in Readable /\ file'[i] = file[i]
                          \/ i = Len(file) + 1 /\ file'[i] = e
  /\ \A i \in Readable : \/ i \in Readable' /\ file'[i] = file[i]
                         \/ open /\ i = Len(file)

\* A write that reaches the file (appendEvent).
LEMMA LineAppended ==
  ASSUME TypeOK, NEW e \in Event, NEW line \in {e, Junk}, file' = Written(line), open' \in BOOLEAN
  PROVE  Appended(e)
<1>1. line \in Lines /\ Junk \notin Event
  BY EventFacts DEF Lines
<1>2. PICK n \in Nat : n = Len(file) /\ DOMAIN file = 1..n
  BY LenProperties DEF TypeOK, Lines
<1>3. file' \in Seq(Lines) /\ file' # <<>>
  BY <1>1, WrittenFacts
<1>4. PICK m \in Nat : m = Len(file') /\ DOMAIN file' = 1..m
  BY <1>3, LenProperties
<1>5. /\ \A i \in 1..m : i < m => i \in 1..n /\ file'[i] = file[i]
      /\ open => m = n /\ file'[m] = Junk
      /\ ~open => m = n + 1 /\ file'[m] = line
  BY <1>1, <1>2, <1>4, WrittenFacts
<1>6. open \in BOOLEAN
  BY DEF TypeOK
<1>7. \A i \in Readable' : (i \in Readable /\ file'[i] = file[i]) \/ (i = n + 1 /\ file'[i] = e)
  BY <1>1, <1>2, <1>4, <1>5, <1>6 DEF Readable
<1>8. \A i \in Readable : (i \in Readable' /\ file'[i] = file[i]) \/ (open /\ i = n)
  BY <1>1, <1>2, <1>4, <1>5, <1>6 DEF Readable
<1> QED BY <1>2, <1>3, <1>4, <1>5, <1>6, <1>7, <1>8 DEF Appended

\* Every outcome of an append.
LEMMA AddAppends ==
  ASSUME TypeOK, NEW e \in Event, AppendOK(e) \/ AppendTorn(e) \/ AppendFails
  PROVE  Appended(e)
<1>1. CASE AppendOK(e)
  BY <1>1, LineAppended DEF AppendOK
<1>2. CASE AppendTorn(e)
  BY <1>2, LineAppended DEF AppendTorn
<1>3. CASE AppendFails
  <2>1. file' = file /\ open' = open
    BY <1>3 DEF AppendFails, disk
  <2>2. Len(file) \in Nat /\ file \in Seq(Lines)
    BY LenProperties DEF TypeOK, Lines
  <2> QED BY <2>1, <2>2 DEF Appended, TypeOK, Readable
<1> QED BY <1>1, <1>2, <1>3

\* What TypeOK says of the numbers and of the domains.
LEMMA Shapes ==
  ASSUME TypeOK
  PROVE  /\ MaxEvents \in Nat /\ nextID \in Nat /\ added \in Nat /\ last \in Nat /\ torn \in Nat
         /\ gap \in Nat /\ read \in Nat /\ Len(file) \in Nat /\ read <= Len(file)
         /\ DOMAIN file = 1..Len(file) /\ DOMAIN events = 1..Len(events) /\ Len(events) \in Nat
         /\ \A i \in DOMAIN events : events[i] \in Event /\ events[i].id \in Nat /\ events[i].n \in Nat
         /\ \A i \in Readable : /\ i \in Nat /\ i <= Len(file)
                                /\ file[i] \in Event /\ file[i].id \in Nat /\ file[i].n \in Nat
                                /\ file[i].n \in 1..MaxEvents
<1>1. /\ file \in Seq(Lines) /\ Len(file) \in Nat /\ DOMAIN file = 1..Len(file)
      /\ events \in Seq(Event) /\ Len(events) \in Nat /\ DOMAIN events = 1..Len(events)
  BY LenProperties DEF TypeOK, Lines
<1>2. MaxEvents \in Nat
  BY ActivityConstants
<1>3. \A i \in DOMAIN events : events[i] \in Event
  BY <1>1, ElementOfSeq
<1>4. \A i \in DOMAIN file : file[i] \in Lines
  BY <1>1, ElementOfSeq
<1>5. \A i \in Readable : i \in 1..Len(file) /\ file[i] \in Event
  BY <1>1, <1>4 DEF Readable, Lines
<1>6. \A x \in Event : x.id \in Nat /\ x.n \in Nat /\ x.n \in 1..MaxEvents
  BY <1>2, EventFacts
<1>7. nextID \in Nat /\ added \in Nat /\ last \in Nat /\ torn \in Nat /\ gap \in Nat /\ read \in 0..Len(file)
  BY <1>2 DEF TypeOK
<1>8. read \in Nat /\ read <= Len(file)
  BY <1>1, <1>7
<1>9. \A i \in 1..Len(file) : i \in Nat /\ i <= Len(file)
  BY <1>1
<1> QED BY <1>1, <1>2, <1>3, <1>5, <1>6, <1>7, <1>8, <1>9

\* The event that Add makes has the next id and the next number.
LEMMA AddFacts ==
  ASSUME ActivityInv, Add
  PROVE  \E e \in Event :
           /\ e.id = nextID + 1 /\ e.n = added + 1 /\ Appended(e)
           /\ events' = Newest(Append(events, e))
           /\ AppendOK(e) \/ AppendTorn(e) \/ AppendFails
<1> DEFINE e == [id |-> nextID + 1, n |-> added + 1]
<1>1. nextID <= added /\ added < MaxEvents /\ nextID \in Nat /\ added \in Nat /\ MaxEvents \in Nat
  BY Shapes DEF ActivityInv, NextInv, Add
<1>2. nextID + 1 \in 1..MaxEvents /\ added + 1 \in 1..MaxEvents
  BY <1>1
<1>3. e \in Event /\ e.id = nextID + 1 /\ e.n = added + 1
  BY <1>2, EventFacts
<1>4. events' = Newest(Append(events, e)) /\ (AppendOK(e) \/ AppendTorn(e) \/ AppendFails)
  BY DEF Add
<1> HIDE DEF e
<1>5. Appended(e)
  BY <1>3, <1>4, AddAppends DEF ActivityInv
<1> QED BY <1>3, <1>4, <1>5

\* Add leaves the file, the ids, the ring and the reader in order.
LEMMA AddOrder ==
  ASSUME ActivityInv, Add
  PROVE  FileInv' /\ NextInv' /\ RingInv' /\ ReaderInv'
<1>1. PICK e \in Event :
        /\ e.id = nextID + 1 /\ e.n = added + 1 /\ Appended(e)
        /\ events' = Newest(Append(events, e))
  BY AddFacts
<1>2. /\ up /\ up' = up /\ added' = added + 1 /\ nextID' = nextID + 1 /\ last' = last /\ seen' = seen
      /\ gap' = gap /\ hidden \subseteq hidden' /\ rewound' = rewound
  BY DEF Add, reader
<1>3. PICK n \in Nat : n = Len(file)
  BY Shapes, Zenon DEF ActivityInv
<1>4. /\ nextID \in Nat /\ added \in Nat /\ last \in Nat /\ gap \in Nat
      /\ \A i \in Readable : i \in Nat /\ i <= n /\ file[i].id \in Nat /\ file[i].n \in Nat
  BY <1>3, Shapes DEF ActivityInv
<1>5. \A i \in Readable' : (i \in Readable /\ file'[i] = file[i]) \/ (i = n + 1 /\ file'[i] = e)
  BY <1>1, <1>3 DEF Appended
<1>6. FileInv'
  <2>1. \A i \in Readable : /\ file[i].id <= file[i].n /\ file[i].n <= added
                            /\ file[i].id <= nextID
    BY <1>2 DEF ActivityInv, FileInv, NextInv
  <2>2. \A i \in Readable' : file'[i].id <= file'[i].n /\ file'[i].n <= added'
    BY <1>1, <1>2, <1>4, <1>5, <2>1 DEF ActivityInv, NextInv
  <2>3. ASSUME NEW i \in Readable', NEW k \in Readable', i < k
        PROVE  file'[i].id < file'[k].id /\ file'[i].n < file'[k].n
    <3>1. i \in Readable /\ file'[i] = file[i]
      BY <1>4, <1>5, <2>3
    <3>2. CASE k \in Readable /\ file'[k] = file[k]
      BY <2>3, <3>1, <3>2 DEF ActivityInv, FileInv
    <3>3. CASE file'[k] = e
      BY <1>1, <1>4, <2>1, <3>1, <3>3
    <3> QED BY <1>5, <3>2, <3>3
  <2> QED BY <2>2, <2>3 DEF FileInv
<1>7. NextInv'
  BY <1>1, <1>2, <1>4, <1>5 DEF ActivityInv, NextInv
<1>8. RingInv'
  <2>1. events \in Seq(Event) /\ \A i \in DOMAIN events : events[i].id \in Nat /\ events[i].n \in Nat
    BY Shapes DEF ActivityInv, TypeOK
  <2>2. RingAfter(events, e, events')
    BY <1>1, <2>1, RingGrows
  <2>3. /\ \A i \in DOMAIN events : events[i].id <= nextID /\ events[i].n <= added
        /\ \A i, k \in DOMAIN events : i < k => events[i].id < events[k].id
        /\ \A i \in DOMAIN events, j \in Readable :
             events[i].n = file[j].n => events[i].id = file[j].id
        /\ \A j \in Readable : file[j].n <= added
    BY DEF ActivityInv, RingInv, FileInv
  <2>4. \A i \in DOMAIN events' : events'[i].id <= nextID' /\ events'[i].n <= added'
    BY <1>1, <1>2, <1>4, <2>1, <2>2, <2>3 DEF RingAfter
  <2>5. ASSUME NEW i \in DOMAIN events', NEW k \in DOMAIN events', i < k
        PROVE  events'[i].id < events'[k].id
    BY <1>1, <1>4, <2>1, <2>2, <2>3, <2>5 DEF RingAfter
  <2>6. ASSUME NEW i \in DOMAIN events', NEW j \in Readable', events'[i].n = file'[j].n
        PROVE  events'[i].id = file'[j].id
    <3>1. events'[i] = e \/ \E k \in DOMAIN events : events'[i] = events[k]
      BY <2>2 DEF RingAfter
    <3>2. CASE events'[i] = e
      BY <1>1, <1>4, <1>5, <2>3, <2>6, <3>2
    <3>3. ASSUME NEW k \in DOMAIN events, events'[i] = events[k]
          PROVE  events'[i].id = file'[j].id
      <4>1. events[k].n <= added /\ events[k].n \in Nat
        BY <2>1, <2>3, <3>3
      <4>2. file'[j] # e
        BY <1>1, <1>4, <2>6, <3>3, <4>1
      <4>3. j \in Readable /\ file'[j] = file[j]
        BY <1>5, <4>2
      <4>4. events[k].n = file[j].n
        BY <2>6, <3>3, <4>3
      <4>5. events[k].id = file[j].id
        BY <2>3, <3>3, <4>3, <4>4
      <4> QED BY <3>3, <4>3, <4>5
    <3> QED BY <3>1, <3>2, <3>3
  <2> QED BY <1>2, <2>4, <2>5, <2>6 DEF RingInv
<1>9. ReaderInv'
  <2>1. ~rewound => last < e.id
    BY <1>1, <1>2, <1>4 DEF ActivityInv, ReaderInv
  <2>2. ~rewound => \A i \in Readable' :
          gap < file'[i].id /\ file'[i].id <= last /\ file'[i].n \notin hidden'
            => file'[i].n \in seen
    BY <1>1, <1>2, <1>4, <1>5, <2>1 DEF ActivityInv, ReaderInv
  <2>3. \A i \in DOMAIN events' : events'[i] = e \/ \E j \in DOMAIN events : events'[i] = events[j]
    BY <1>1, RingGrows DEF ActivityInv, TypeOK, RingAfter
  <2>4. ~rewound => \A i \in DOMAIN events' :
          gap < events'[i].id /\ events'[i].id <= last /\ events'[i].n \notin hidden'
            => events'[i].n \in seen
    BY <1>1, <1>2, <1>4, <2>1, <2>3 DEF ActivityInv, ReaderInv, PollComplete
  <2>5. ~rewound => last <= nextID + 1
    BY <1>2, <1>4 DEF ActivityInv, ReaderInv
  <2>6. gap' <= last'
    BY <1>2 DEF ActivityInv, ReaderInv
  <2> QED BY <1>2, <2>2, <2>4, <2>5, <2>6 DEF ReaderInv, PollComplete
<1> QED BY <1>6, <1>7, <1>8, <1>9

\* Fewer events are lost, or at most one more.
LEMMA LostCount ==
  ASSUME NEW n \in Nat, NEW S \in SUBSET (1..n), NEW T, NEW x
  PROVE  /\ Cardinality(S) \in Nat
         /\ T \subseteq S => Cardinality(T) \in Nat /\ Cardinality(T) <= Cardinality(S)
         /\ T \subseteq S \cup {x} => Cardinality(T) \in Nat /\ Cardinality(T) <= Cardinality(S) + 1
<1>1. IsFiniteSet(1..n)
  BY FS_Interval
<1>2. IsFiniteSet(S)
  BY <1>1, FS_Subset
<1>3. IsFiniteSet(S \cup {x}) /\ Cardinality(S \cup {x}) <= Cardinality(S) + 1
  <2>1. /\ IsFiniteSet(S \cup {x})
        /\ Cardinality(S \cup {x}) = IF x \in S THEN Cardinality(S) ELSE Cardinality(S) + 1
    BY <1>2, FS_AddElement, Zenon
  <2>2. Cardinality(S) \in Nat
    BY <1>2, FS_CardinalityType
  <2> QED BY <2>1, <2>2
<1>4. \A U : IsFiniteSet(U) => Cardinality(U) \in Nat
  BY FS_CardinalityType
<1>5. T \subseteq S => Cardinality(T) \in Nat /\ Cardinality(T) <= Cardinality(S)
  BY <1>2, <1>4, FS_Subset
<1>6. T \subseteq S \cup {x} => Cardinality(T) \in Nat /\ Cardinality(T) <= Cardinality(S \cup {x})
  BY <1>3, <1>4, FS_Subset
<1>7. Cardinality(S) \in Nat /\ Cardinality(S \cup {x}) \in Nat
  BY <1>2, <1>3, <1>4
<1> QED BY <1>3, <1>5, <1>6, <1>7

\* Add costs no more events than writes were cut.
LEMMA AddTorn ==
  ASSUME ActivityInv, Add
  PROVE  TornInv'
<1>1. PICK e \in Event :
        e.n = added + 1 /\ Appended(e) /\ (AppendOK(e) \/ AppendTorn(e) \/ AppendFails)
  BY AddFacts
<1>2. added' = added + 1
  BY DEF Add
<1>3. PICK n \in Nat : n = Len(file)
  BY Shapes, Zenon DEF ActivityInv
<1>4. PICK m \in Nat : m = Len(file') /\ DOMAIN file' = 1..m /\ n <= m /\ m <= n + 1
  BY <1>1, <1>3, LenProperties DEF Appended
<1>5. /\ added \in Nat /\ torn \in Nat /\ open \in BOOLEAN
      /\ \A i \in Readable : i \in Nat /\ i <= n
  BY <1>3, Shapes DEF ActivityInv, TypeOK
<1>6. /\ n <= added /\ torn <= added /\ written \subseteq 1..added
      /\ open /\ n \in Readable => file[n].n \notin written
      /\ Cardinality(Lost) + (IF open THEN 1 ELSE 0) <= torn
  BY <1>3 DEF ActivityInv, TornInv
<1>7. e.n \notin written /\ Lost \in SUBSET (1..added)
  <2>1. \A x \in written : x <= added /\ ~(x = added + 1)
    BY <1>5, <1>6
  <2> QED BY <1>1, <1>6, <2>1 DEF Lost
<1>8. ASSUME NEW x \in written, x \in {file[i].n : i \in Readable}
      PROVE  x \in {file'[i].n : i \in Readable'}
  BY <1>1, <1>3, <1>6, <1>8 DEF Appended
<1>9. ASSUME NEW line \in {e, Junk}, file' = Written(line)
      PROVE  /\ open => m = n /\ file'[m] = Junk
             /\ ~open => m = n + 1 /\ file'[m] = line
  <2>1. line \in Lines
    BY DEF Lines
  <2> QED BY <1>3, <1>4, <1>9, <2>1, WrittenFacts DEF ActivityInv
<1>10. CASE AppendOK(e)
  <2>1. file' = Written(e) /\ open' = FALSE /\ written' = written \cup {e.n} /\ torn' = torn
    BY <1>10 DEF AppendOK
  <2>2. Lost' \subseteq Lost \cup {e.n}
    BY <1>8, <2>1 DEF Lost
  <2>3. ~open => Lost' \subseteq Lost
    <3>1. ~open => m \in Readable' /\ file'[m] = e
      BY <1>4, <1>9, <2>1, EventFacts DEF Readable
    <3> QED BY <2>2, <3>1 DEF Lost
  <2>4. Cardinality(Lost') \in Nat /\ Cardinality(Lost') <= torn
    <3>1. /\ Cardinality(Lost) \in Nat /\ Cardinality(Lost') \in Nat
          /\ Cardinality(Lost') <= Cardinality(Lost) + 1
          /\ ~open => Cardinality(Lost') <= Cardinality(Lost)
      BY <1>5, <1>7, <2>2, <2>3, LostCount
    <3> QED BY <1>5, <1>6, <3>1
  <2>5. written' \subseteq 1..added'
    BY <1>1, <1>2, <1>5, <1>6, <2>1
  <2> QED BY <1>2, <1>3, <1>4, <1>5, <1>6, <2>1, <2>4, <2>5 DEF TornInv
<1>11. CASE AppendTorn(e)
  <2>1. PICK line \in {e, Junk} : file' = Written(line)
    BY <1>11 DEF AppendTorn
  <2>2. open' = TRUE /\ written' = written /\ torn' = torn + 1
    BY <1>11 DEF AppendTorn
  <2>3. Lost' \subseteq Lost
    BY <1>8, <2>2 DEF Lost
  <2>4. Cardinality(Lost') \in Nat /\ Cardinality(Lost') <= Cardinality(Lost) /\ Cardinality(Lost) \in Nat
    BY <1>5, <1>7, <2>3, LostCount
  <2>5. m \in Readable' => file'[m].n \notin written
    BY <1>5, <1>7, <1>9, <2>1 DEF Readable
  <2>6. written' \subseteq 1..added'
    BY <1>2, <1>5, <1>6, <2>2
  <2>7. Cardinality(Lost') + 1 <= torn'
    BY <1>5, <1>6, <2>2, <2>4
  <2> QED BY <1>2, <1>3, <1>4, <1>5, <1>6, <2>2, <2>5, <2>6, <2>7 DEF TornInv
<1>12. CASE AppendFails
  <2>1. file' = file /\ open' = open /\ written' = written /\ torn' = torn
    BY <1>12 DEF AppendFails, disk
  <2>2. Lost' = Lost /\ Readable' = Readable
    BY <2>1 DEF Lost, Readable
  <2>3. written' \subseteq 1..added'
    BY <1>2, <1>5, <1>6, <2>1
  <2> QED BY <1>2, <1>3, <1>4, <1>5, <1>6, <2>1, <2>2, <2>3 DEF TornInv
<1> QED BY <1>1, <1>10, <1>11, <1>12

\* Add keeps the types.
LEMMA AddTypes ==
  ASSUME ActivityInv, Add
  PROVE  TypeOK'
<1>1. PICK e \in Event :
        /\ Appended(e) /\ events' = Newest(Append(events, e))
        /\ AppendOK(e) \/ AppendTorn(e) \/ AppendFails
        /\ e.n = added + 1
  BY AddFacts
<1>2. /\ up' = up /\ added' = added + 1 /\ nextID' = nextID + 1 /\ last' = last /\ seen' = seen
      /\ gap' = gap /\ rewound' = rewound /\ read' = read /\ added < MaxEvents
  BY DEF Add, reader
<1>3. events' \in Seq(Event) /\ Len(events') <= Limit
  BY <1>1, RingGrows DEF ActivityInv, TypeOK
<1>4. PICK n \in Nat : n = Len(file)
  BY Shapes, Zenon DEF ActivityInv
<1>5. PICK m \in Nat : m = Len(file') /\ n <= m /\ m <= n + 1
  BY <1>1, <1>4, LenProperties DEF Appended
<1>6. /\ nextID \in Nat /\ added \in Nat /\ torn \in Nat /\ read \in Nat /\ read <= n /\ MaxEvents \in Nat
      /\ nextID <= added /\ n <= added /\ torn <= added
  BY <1>4, Shapes DEF ActivityInv, NextInv, TornInv
<1>7. /\ file' \in Seq(Event \cup {Junk}) /\ open' \in BOOLEAN /\ (open' => file' # <<>>)
  BY <1>1 DEF Appended, Lines
<1>8. read' \in 0..Len(file') /\ Len(file') <= MaxEvents
  BY <1>2, <1>4, <1>5, <1>6
<1>9. nextID' \in 0..MaxEvents /\ added' \in 0..MaxEvents
  BY <1>2, <1>6
<1>10. torn' \in 0..MaxEvents
  BY <1>1, <1>2, <1>6 DEF AppendOK, AppendTorn, AppendFails
<1>11. written' \in SUBSET (1..MaxEvents)
  <2>1. e.n \in 1..MaxEvents /\ written \in SUBSET (1..MaxEvents)
    BY EventFacts DEF ActivityInv, TypeOK
  <2> QED BY <1>1, <2>1 DEF AppendOK, AppendTorn, AppendFails
<1>12. hidden' \in SUBSET (1..MaxEvents)
  <2>1. hidden' = hidden \/ hidden' = hidden \cup {added + 1}
    BY DEF Add
  <2>2. added + 1 \in 1..MaxEvents
    BY <1>2, <1>6
  <2> QED BY <2>1, <2>2 DEF ActivityInv, TypeOK
<1> QED BY <1>2, <1>3, <1>7, <1>8, <1>9, <1>10, <1>11, <1>12 DEF ActivityInv, TypeOK

\* A crash loses what is in memory and nothing else.
LEMMA CrashKeeps ==
  ASSUME ActivityInv, Crash
  PROVE  ActivityInv'
<1>1. /\ up' = FALSE /\ nextID' = 0 /\ events' = <<>> /\ read' = 0
      /\ file' = file /\ open' = open /\ last' = last /\ seen' = seen /\ gap' = gap /\ hidden' = hidden
      /\ added' = added
      /\ written' = written /\ torn' = torn /\ rewound' = rewound
  BY DEF Crash, disk, reader
<1>2. Readable' = Readable /\ Lost' = Lost
  BY <1>1 DEF Readable, Lost
<1>3. TypeOK'
  <2>1. read' \in 0..Len(file') /\ Len(file') <= MaxEvents /\ nextID' \in 0..MaxEvents
    BY <1>1, Shapes DEF ActivityInv, TypeOK
  <2>2. events' \in Seq(Event) /\ Len(events') <= Limit
    BY <1>1, EmptySeq, ActivityConstants
  <2> QED BY <1>1, <2>1, <2>2 DEF ActivityInv, TypeOK
<1>4. FileInv' /\ TornInv'
  BY <1>1, <1>2 DEF ActivityInv, FileInv, TornInv
<1>5. NextInv'
  <2>1. added \in Nat /\ \A i \in Readable : i \in 1..Len(file) /\ file[i].id \in 1..MaxEvents
    BY Shapes, EventFacts DEF ActivityInv, Readable
  <2>2. \A i \in Readable : i > 0 /\ file[i].id > 0
    BY <2>1, Shapes DEF ActivityInv
  <2>3. \A i \in Readable : i \in Nat
    BY Shapes DEF ActivityInv
  <2> QED BY <1>1, <1>2, <2>1, <2>2, <2>3 DEF NextInv
<1>6. RingInv' /\ ReaderInv'
  <2>1. DOMAIN events' = {}
    BY <1>1
  <2>2. RingInv'
    BY <2>1 DEF RingInv
  <2> QED BY <1>1, <1>2, <2>2 DEF ActivityInv, ReaderInv, PollComplete
<1> QED BY <1>3, <1>4, <1>5, <1>6 DEF ActivityInv

\* load reads one more line.
LEMMA LoadLineKeeps ==
  ASSUME ActivityInv, LoadLine
  PROVE  ActivityInv'
<1>1. /\ ~up /\ up' = up /\ read' = read + 1 /\ read < Len(file)
      /\ file' = file /\ open' = open /\ last' = last /\ seen' = seen /\ gap' = gap /\ hidden' = hidden
      /\ added' = added
      /\ written' = written /\ torn' = torn /\ rewound' = rewound
  BY DEF LoadLine, disk, reader
<1>2. Readable' = Readable /\ Lost' = Lost
  BY <1>1 DEF Readable, Lost
<1>3. PICK n \in Nat : n = Len(file)
  BY Shapes, Zenon DEF ActivityInv
<1>4. /\ read \in Nat /\ nextID \in Nat /\ added \in Nat
      /\ DOMAIN file = 1..n
      /\ \A i \in Readable : /\ i \in Nat /\ i <= n /\ file[i] \in Event
                             /\ file[i].id \in Nat /\ file[i].n \in Nat
      /\ events \in Seq(Event)
      /\ \A i \in DOMAIN events : events[i].id \in Nat /\ events[i].n \in Nat
  BY <1>3, Shapes DEF ActivityInv, TypeOK
<1>5. PICK r \in 1..n : r = read + 1
  BY <1>1, <1>3, <1>4
<1>6. FileInv' /\ TornInv' /\ ReaderInv'
  BY <1>1, <1>2 DEF ActivityInv, FileInv, TornInv, ReaderInv, PollComplete
<1>7. read' \in 0..Len(file')
  BY <1>1, <1>3, <1>4
<1>8. CASE file[r] = Junk
  <2>1. nextID' = nextID /\ events' = events
    BY <1>5, <1>8 DEF LoadLine
  <2>2. r \notin Readable
    BY <1>8 DEF Readable
  <2>3. TypeOK'
    BY <1>1, <1>7, <2>1 DEF ActivityInv, TypeOK
  <2>4. \A i \in Readable : i <= r => i <= read
    BY <1>4, <1>5, <2>2
  <2>5. NextInv'
    BY <1>1, <1>2, <1>4, <1>5, <2>1, <2>4 DEF ActivityInv, NextInv
  <2>6. RingInv'
    BY <1>1, <1>2, <2>1 DEF ActivityInv, RingInv
  <2> QED BY <1>6, <2>3, <2>5, <2>6 DEF ActivityInv
<1>9. CASE file[r] # Junk
  <2>1. r \in Readable
    BY <1>4, <1>9 DEF Readable
  <2>2. PICK e \in Event : e = file[r] /\ e.id \in Nat /\ e.n \in Nat
    BY <1>4, <2>1
  <2>3. e.id > nextID /\ e.n <= added /\ e.id <= added
    BY <1>1, <1>4, <1>5, <2>1, <2>2 DEF ActivityInv, NextInv, FileInv
  <2>4. nextID' = e.id /\ events' = Newest(Append(events, e))
    BY <1>4, <1>5, <1>9, <2>2, <2>3 DEF LoadLine, LoadedID
  <2>5. events' \in Seq(Event) /\ Len(events') <= Limit /\ RingAfter(events, e, events')
    BY <1>4, <2>4, RingGrows
  <2>6. TypeOK'
    <3>1. nextID' \in 0..MaxEvents
      BY <2>2, <2>4, EventFacts, ActivityConstants
    <3> QED BY <1>1, <1>7, <2>5, <3>1 DEF ActivityInv, TypeOK
  <2>7. NextInv'
    <3>1. \A i \in Readable : i <= r => file[i].id <= e.id
      BY <1>4, <2>1, <2>2 DEF ActivityInv, FileInv
    <3>2. \A i \in Readable : i > r => file[i].id > e.id
      BY <1>4, <2>1, <2>2 DEF ActivityInv, FileInv
    <3> QED BY <1>1, <1>2, <1>5, <2>3, <2>4, <3>1, <3>2 DEF NextInv
  <2>8. RingInv'
    <3>1. /\ \A i \in DOMAIN events : events[i].id <= nextID /\ events[i].n <= added
          /\ \A i, k \in DOMAIN events : i < k => events[i].id < events[k].id
          /\ \A i \in DOMAIN events : events[i].id \in Nat /\ events[i].n \in Nat
          /\ e.id \in Nat /\ e.n \in Nat /\ nextID \in Nat /\ added \in Nat
      BY <1>4, <2>2 DEF ActivityInv, RingInv
    <3>2. \A i \in DOMAIN events' : events'[i].id <= e.id /\ events'[i].n <= added
      BY <2>3, <2>5, <3>1 DEF RingAfter
    <3>3. ASSUME NEW i \in DOMAIN events', NEW k \in DOMAIN events', i < k
          PROVE  events'[i].id < events'[k].id
      BY <2>3, <2>5, <3>1, <3>3 DEF RingAfter
    <3>4. \A i \in DOMAIN events' : \E j \in Readable : events'[i] = file[j]
      <4>1. \A i \in DOMAIN events : \E j \in Readable : events[i] = file[j]
        BY <1>1 DEF ActivityInv, RingInv
      <4> QED BY <2>1, <2>2, <2>5, <4>1 DEF RingAfter
    <3>5. \A i \in DOMAIN events', j \in Readable :
            events'[i].n = file[j].n => events'[i].id = file[j].id
      <4>1. \A j, k \in Readable : file[j].n = file[k].n => j = k
        BY <1>4 DEF ActivityInv, FileInv
      <4> QED BY <3>4, <4>1
    <3> QED BY <1>1, <1>2, <2>4, <3>2, <3>3, <3>4, <3>5 DEF RingInv
  <2> QED BY <1>6, <2>6, <2>7, <2>8 DEF ActivityInv
<1> QED BY <1>8, <1>9

\* The daemon has read the whole file and starts.
LEMMA LoadedKeeps ==
  ASSUME ActivityInv, Loaded
  PROVE  ActivityInv'
<1>1. /\ ~up /\ up' = TRUE /\ read = Len(file) /\ read' = read /\ nextID' = nextID /\ events' = events
      /\ file' = file /\ open' = open /\ last' = last /\ seen' = seen /\ gap' = gap /\ hidden' = hidden
      /\ added' = added
      /\ written' = written /\ torn' = torn
      /\ rewound' \in BOOLEAN /\ (~rewound' => ~rewound /\ ~(nextID < last))
  BY DEF Loaded, disk, reader
<1>2. Readable' = Readable /\ Lost' = Lost
  BY <1>1 DEF Readable, Lost
<1>3. TypeOK' /\ FileInv' /\ TornInv' /\ RingInv'
  BY <1>1, <1>2 DEF ActivityInv, TypeOK, FileInv, TornInv, RingInv
<1>4. \A i \in Readable : i <= read
  BY <1>1, Shapes DEF ActivityInv
<1>5. NextInv'
  BY <1>1, <1>2, <1>4 DEF ActivityInv, NextInv
<1>6. ReaderInv'
  <2>1. nextID \in Nat /\ last \in Nat
    BY Shapes DEF ActivityInv
  <2>2. ~rewound' => last <= nextID
    BY <1>1, <2>1
  <2>3. ~rewound' => \A i \in Readable :
          gap < file[i].id /\ file[i].id <= last /\ file[i].n \notin hidden => file[i].n \in seen
    BY <1>1 DEF ActivityInv, ReaderInv
  <2>4. \A i \in DOMAIN events : \E j \in Readable : events[i] = file[j]
    BY <1>1 DEF ActivityInv, RingInv
  <2>5. ~rewound' => \A i \in DOMAIN events :
          gap < events[i].id /\ events[i].id <= last /\ events[i].n \notin hidden
            => events[i].n \in seen
    BY <2>3, <2>4
  <2>6. gap <= last
    BY DEF ActivityInv, ReaderInv
  <2> QED BY <1>1, <1>2, <2>2, <2>3, <2>5, <2>6 DEF ReaderInv, PollComplete
<1> QED BY <1>3, <1>5, <1>6 DEF ActivityInv

\* Fewer than n places come after i in any part of the ring's n places.
LEMMA PlacesAfter ==
  ASSUME NEW n \in Nat, NEW A \in SUBSET (1..n)
  PROVE  /\ IsFiniteSet(A)
         /\ \A i \in A : /\ Cardinality({k \in A : k > i}) \in Nat
                         /\ Cardinality({k \in A : k > i}) < n
                         /\ Cardinality({k \in A : k > i}) <= Cardinality(A)
         /\ \A i, j \in A : i <= j =>
              Cardinality({k \in A : k > j}) <= Cardinality({k \in A : k > i})
<1>0. IsFiniteSet(A)
  <2>1. IsFiniteSet(1..n)
    BY FS_Interval
  <2> QED BY <2>1, FS_Subset
<1>1. ASSUME NEW i \in A
      PROVE  /\ Cardinality({k \in A : k > i}) \in Nat
             /\ Cardinality({k \in A : k > i}) < n
             /\ Cardinality({k \in A : k > i}) <= Cardinality(A)
  <2>1. i \in 1..n /\ i + 1 \in Int /\ n \in Int /\ \A k \in A : k \in 1..n
    OBVIOUS
  <2>0. \A k \in A : k > i => k \in (i + 1)..n
    BY <2>1
  <2>2. {k \in A : k > i} \subseteq (i + 1)..n /\ {k \in A : k > i} \subseteq A
    BY <2>0
  <2>3. IsFiniteSet((i + 1)..n) /\ Cardinality((i + 1)..n) = IF i + 1 > n THEN 0 ELSE n - (i + 1) + 1
    BY <2>1, FS_Interval
  <2>4. /\ Cardinality({k \in A : k > i}) <= Cardinality((i + 1)..n)
        /\ Cardinality({k \in A : k > i}) \in Nat
    BY <2>2, <2>3, FS_Subset, FS_CardinalityType
  <2>5. Cardinality((i + 1)..n) \in Nat /\ Cardinality((i + 1)..n) < n
    BY <2>1, <2>3
  <2>6. Cardinality({k \in A : k > i}) <= Cardinality(A)
    BY <1>0, <2>2, FS_Subset
  <2> QED BY <2>4, <2>5, <2>6
<1>2. ASSUME NEW i \in A, NEW j \in A, i <= j
      PROVE  Cardinality({k \in A : k > j}) <= Cardinality({k \in A : k > i})
  <2>0. \A k \in A : k > j => k > i
    <3>1. i \in Int /\ j \in Int /\ \A k \in A : k \in Int
      OBVIOUS
    <3> QED BY <1>2, <3>1
  <2>1. {k \in A : k > j} \subseteq {k \in A : k > i}
    BY <2>0
  <2>2. IsFiniteSet({k \in A : k > i})
    BY <1>0, FS_Subset
  <2> QED BY <2>1, <2>2, FS_Subset
<1> QED BY <1>0, <1>1, <1>2

\* The scan covers the ring, so the reader is shown every event after its newest
\* one that is not hidden: all of them on a page that is not full, and otherwise
\* those from the oldest on the page (activityDashboard).
LEMMA PageIsComplete ==
  ASSUME TypeOK
  PROVE  /\ Shown = {i \in Fresh : events[i].n \notin hidden}
         /\ Page \subseteq Shown
         /\ ~PageIsFull => Page = Shown
         /\ \A i \in Page, j \in Shown : i <= j => j \in Page
<1>1. PICK n \in Nat : n = Len(events) /\ DOMAIN events = 1..n /\ n <= Limit
  BY Shapes DEF TypeOK
<1>2. Fresh \in SUBSET (1..n) /\ Shown \in SUBSET (1..n)
  BY <1>1 DEF Fresh, Shown, Recent
<1>3. \A i \in Fresh : Cardinality({k \in Fresh : k > i}) < ScanLimit
  <2>1. \A i \in Fresh : /\ Cardinality({k \in Fresh : k > i}) \in Nat
                         /\ Cardinality({k \in Fresh : k > i}) < n
    BY <1>2, PlacesAfter
  <2> QED BY <1>1, <2>1, ActivityConstants
<1>4. Shown = {i \in Fresh : events[i].n \notin hidden}
  BY <1>3 DEF Shown, Recent
<1>5. ASSUME ~PageIsFull
      PROVE  Page = Shown
  <2>1. IsFiniteSet(Shown) /\ Cardinality(Shown) \in Nat
    BY <1>2, PlacesAfter, FS_CardinalityType
  <2>2. \A i \in Shown : /\ Cardinality({k \in Shown : k > i}) \in Nat
                         /\ Cardinality({k \in Shown : k > i}) <= Cardinality(Shown)
    BY <1>2, PlacesAfter
  <2>3. Cardinality(Shown) < PageLimit
    BY <1>5, <2>1, ActivityConstants DEF PageIsFull
  <2>4. \A i \in Shown : Cardinality({k \in Shown : k > i}) < PageLimit
    BY <2>1, <2>2, <2>3, ActivityConstants
  <2> QED BY <2>4 DEF Page
<1>6. ASSUME NEW i \in Page, NEW j \in Shown, i <= j
      PROVE  j \in Page
  <2>1. i \in Shown /\ Cardinality({k \in Shown : k > i}) < PageLimit
    BY DEF Page
  <2>2. /\ Cardinality({k \in Shown : k > i}) \in Nat
        /\ Cardinality({k \in Shown : k > j}) \in Nat
        /\ Cardinality({k \in Shown : k > j}) <= Cardinality({k \in Shown : k > i})
    BY <1>2, <1>6, <2>1, PlacesAfter
  <2>3. Cardinality({k \in Shown : k > j}) < PageLimit
    BY <2>1, <2>2, ActivityConstants
  <2> QED BY <2>3 DEF Page
<1> QED BY <1>4, <1>5, <1>6 DEF Page

\* A poll tells the reader of everything after the oldest event of a full page,
\* or of everything there is to tell.
LEMMA PollKeeps ==
  ASSUME ActivityInv, Poll
  PROVE  ActivityInv'
<1>1. /\ up /\ up' = up /\ read' = read /\ nextID' = nextID /\ events' = events
      /\ file' = file /\ open' = open /\ added' = added /\ hidden' = hidden
      /\ written' = written /\ torn' = torn /\ rewound' = rewound
  BY DEF Poll, disk
<1>2. Readable' = Readable /\ Lost' = Lost
  BY <1>1 DEF Readable, Lost
<1>3. PICK oldest \in Page, newest \in Page :
        /\ \A i \in Page : oldest <= i /\ i <= newest
        /\ last' = events[newest].id
        /\ gap' = IF PageIsFull THEN events[oldest].id ELSE gap
  BY DEF Poll
<1>p. /\ Shown = {i \in Fresh : events[i].n \notin hidden}
      /\ Page \subseteq Shown
      /\ ~PageIsFull => Page = Shown
      /\ \A i \in Page, j \in Shown : i <= j => j \in Page
  BY PageIsComplete DEF ActivityInv
<1>q. /\ oldest \in DOMAIN events /\ events[oldest].id > last
      /\ newest \in DOMAIN events /\ events[newest].id > last /\ oldest <= newest
  BY <1>3, <1>p DEF Fresh
<1>4. FileInv' /\ NextInv' /\ RingInv' /\ TornInv'
  BY <1>1, <1>2 DEF ActivityInv, FileInv, NextInv, RingInv, TornInv
<1>5. seen' = seen \cup Numbers(Page) \cup ((1..added) \ Numbers(DOMAIN events))
  BY DEF Poll
<1>6. /\ last \in Nat /\ gap \in Nat /\ gap <= last
      /\ added \in Nat /\ MaxEvents \in Nat /\ added <= MaxEvents
      /\ \A k \in DOMAIN events : events[k] \in Event /\ events[k].id \in Nat /\ events[k].n \in Nat
      /\ \A i \in DOMAIN events : i \in Nat
  BY Shapes DEF ActivityInv, TypeOK, ReaderInv
<1>r. \A i, k \in DOMAIN events : i < k => events[i].id < events[k].id
  BY DEF ActivityInv, RingInv
<1>s. events[oldest].id <= events[newest].id
  BY <1>q, <1>r, <1>6
<1>g. gap' \in Nat /\ gap <= gap' /\ gap' <= last'
  BY <1>3, <1>q, <1>s, <1>6
<1>7. TypeOK'
  <2>1. \A e \in Event : e.id \in 0..MaxEvents /\ e.n \in 1..MaxEvents
    BY <1>6, EventFacts
  <2>2. last' \in 0..MaxEvents
    BY <1>3, <1>q, <1>6, <2>1
  <2>3. Numbers(Page) \subseteq 1..MaxEvents
    BY <1>6, <1>p, <2>1 DEF Numbers, Fresh
  <2>4. 1..added \subseteq 1..MaxEvents
    BY <1>6
  <2>5. seen' \in SUBSET (1..MaxEvents)
    BY <1>5, <2>3, <2>4 DEF ActivityInv, TypeOK
  <2>6. gap' \in 0..MaxEvents
    BY <1>6, <1>g, <2>2
  <2> QED BY <1>1, <2>2, <2>5, <2>6 DEF ActivityInv, TypeOK
<1>8. ASSUME ~rewound, NEW k \in DOMAIN events, events[k].n \notin hidden, gap' < events[k].id
      PROVE  events[k].n \in seen'
  <2>1. CASE k \notin Fresh
    <3>1. events[k].id <= last
      BY <1>6, <2>1 DEF Fresh
    <3>2. gap < events[k].id
      BY <1>6, <1>8, <1>g
    <3>3. events[k].n \in seen
      BY <1>1, <1>8, <3>1, <3>2 DEF ActivityInv, ReaderInv, PollComplete
    <3> QED BY <3>3, <1>5
  <2>2. CASE k \in Fresh
    <3>1. k \in Shown
      BY <1>8, <1>p, <2>2
    <3>2. k \in Page
      <4>1. CASE PageIsFull
        <5>1. events[oldest].id < events[k].id
          BY <1>3, <1>8, <4>1
        <5>2. ~(k < oldest)
          BY <1>6, <1>8, <1>q, <1>r, <5>1
        <5>3. oldest <= k
          BY <1>6, <1>8, <1>q, <5>2
        <5> QED BY <1>3, <1>p, <3>1, <5>3
      <4> QED BY <4>1, <1>p, <3>1
    <3> QED BY <3>2, <1>5 DEF Numbers
  <2> QED BY <2>1, <2>2
<1>9. \A e \in Event : e.n <= added => e.n \in 1..added
  BY <1>6, EventFacts
<1>10. ASSUME ~rewound, NEW j \in Readable, file[j].n \notin hidden, gap' < file[j].id
       PROVE  file[j].n \in seen'
  <2>1. file[j].n \in 1..added
    BY <1>9, Shapes DEF ActivityInv, FileInv
  <2>2. CASE file[j].n \notin Numbers(DOMAIN events)
    BY <2>1, <2>2, <1>5
  <2>3. CASE file[j].n \in Numbers(DOMAIN events)
    <3>1. PICK k \in DOMAIN events : events[k].n = file[j].n
      BY <2>3 DEF Numbers
    <3>2. events[k].id = file[j].id
      BY <3>1 DEF ActivityInv, RingInv
    <3> QED BY <1>8, <1>10, <3>1, <3>2
  <2> QED BY <2>2, <2>3
<1>11. ReaderInv'
  <2>1. last' <= nextID
    BY <1>3, <1>q DEF ActivityInv, RingInv
  <2>2. ~rewound' => \A i \in Readable' :
          gap' < file'[i].id /\ file'[i].id <= last' /\ file'[i].n \notin hidden'
            => file'[i].n \in seen'
    BY <1>1, <1>2, <1>10
  <2>3. PollComplete'
    BY <1>1, <1>8 DEF PollComplete
  <2> QED BY <1>1, <1>g, <2>1, <2>2, <2>3 DEF ReaderInv
<1> QED BY <1>4, <1>7, <1>11 DEF ActivityInv

-----------------------------------------------------------------------------
\* The log starts empty.
LEMMA ActivityStarts == Init => ActivityInv
<1> SUFFICES ASSUME Init PROVE ActivityInv
  OBVIOUS
<1>1. file = <<>> /\ events = <<>> /\ Len(file) = 0 /\ Len(events) = 0 /\ written = {}
  BY EmptySeq DEF Init
<1>2. Readable = {} /\ Lost = {} /\ DOMAIN events = {}
  BY <1>1 DEF Readable, Lost
<1>3. Cardinality(Lost) = 0
  BY <1>2, FS_EmptySet
<1>4. TypeOK
  <2>1. events \in Seq(Event) /\ file \in Seq(Event \cup {Junk})
    BY <1>1, EmptySeq
  <2>2. Limit \in Nat /\ MaxEvents \in Nat
    BY ActivityConstants
  <2>3. /\ nextID \in 0..MaxEvents /\ last \in 0..MaxEvents /\ added \in 0..MaxEvents
        /\ torn \in 0..MaxEvents /\ gap \in 0..MaxEvents /\ read \in 0..Len(file)
        /\ Len(file) <= MaxEvents /\ Len(events) <= Limit
    BY <1>1, <2>2 DEF Init
  <2>4. up \in BOOLEAN /\ open \in BOOLEAN /\ rewound \in BOOLEAN /\ ~open /\ seen = {} /\ hidden = {}
    BY DEF Init
  <2> QED BY <1>1, <2>1, <2>3, <2>4 DEF TypeOK
<1>5. FileInv /\ NextInv /\ RingInv /\ ReaderInv
  BY <1>2, ActivityConstants DEF Init, FileInv, NextInv, RingInv, ReaderInv, PollComplete
<1>6. TornInv
  BY <1>1, <1>2, <1>3 DEF Init, TornInv
<1> QED BY <1>4, <1>5, <1>6 DEF ActivityInv

\* The invariant holds for ever.
LEMMA ActivityInvariant == Spec => []ActivityInv
<1>1. ActivityInv /\ UNCHANGED vars => ActivityInv'
  BY DEF ActivityInv, vars, disk, reader, TypeOK, FileInv, NextInv, RingInv, ReaderInv, TornInv,
         PollComplete, Readable, Lost
<1>2. ActivityInv /\ [Next]_vars => ActivityInv'
  <2>1. ActivityInv /\ Add => ActivityInv'
    BY AddTypes, AddOrder, AddTorn DEF ActivityInv
  <2> QED BY <1>1, <2>1, CrashKeeps, LoadLineKeeps, LoadedKeeps, PollKeeps DEF Next
<1> QED BY ActivityStarts, <1>2, PTL DEF Spec

\* Store, file and reader keep their types: the ring never holds more than its
\* limit and no id runs ahead of the events there were (Store.Add, load).
THEOREM ActivityTypes == Spec => []TypeOK
<1>1. ActivityInv => TypeOK
  BY DEF ActivityInv
<1> QED BY ActivityInvariant, <1>1, PTL

\* Ids of readable lines grow over cut writes, crashes and restarts, and the
\* running daemon's next id is beyond all of them (Store.Add, load).
THEOREM ActivityIdsIncrease == Spec => []IdsIncrease
<1>1. ActivityInv => IdsIncrease
  BY DEF ActivityInv, FileInv, NextInv, IdsIncrease
<1> QED BY ActivityInvariant, <1>1, PTL

\* A cut write costs at most one event whose own append succeeded (appendEvent).
THEOREM ActivityTornCostsOne == Spec => []TornCostsOne
<1>1. ActivityInv => TornCostsOne
  <2> SUFFICES ASSUME ActivityInv PROVE TornCostsOne
    OBVIOUS
  <2>1. Lost \in SUBSET (1..added) /\ added \in Nat /\ torn \in Nat /\ open \in BOOLEAN
    BY Shapes DEF ActivityInv, TornInv, TypeOK, Lost
  <2>2. Cardinality(Lost) \in Nat
    BY <2>1, LostCount
  <2>3. Cardinality(Lost) + (IF open THEN 1 ELSE 0) <= torn
    BY DEF ActivityInv, TornInv
  <2>4. Cardinality(Lost) <= torn
    BY <2>1, <2>2, <2>3
  <2> QED BY <2>4 DEF TornCostsOne, Lost
<1> QED BY ActivityInvariant, <1>1, PTL

\* A reader that polls with its newest id misses no event to be shown that the ring
\* still holds, but those older than a full page it got, unless a restart took ids
\* back (Store.Recent, activityDashboard).
THEOREM ActivityPollComplete == Spec => []PollComplete
<1>1. ActivityInv => PollComplete
  BY DEF ActivityInv, ReaderInv
<1> QED BY ActivityInvariant, <1>1, PTL
=============================================================================
