----------------------------- MODULE ActivityLog -----------------------------
(***************************************************************************)
(* internal/activity: a ring of recent events in memory, a file that every *)
(* event is appended to and that start-up reads back, and a reader of      *)
(* /api/activity that asks for what came after the newest id it has seen.  *)
(* The answer is a page of the newest events without the traffic of the    *)
(* monitor and of maintenance probes.                                      *)
(*                                                                         *)
(* An error of the append is ignored, and a write may be cut anywhere:     *)
(* then the next line is written onto the same line and neither can be     *)
(* parsed.  Lines are shorter than the megabyte that load accepts.         *)
(***************************************************************************)
EXTENDS Integers, Sequences, FiniteSets

CONSTANTS
  Limit,      \* events the ring holds
  ScanLimit,  \* events activityDashboard asks Recent for
  PageLimit,  \* events on a page: the limit of the request, 80 or at most 200
  MaxEvents,  \* bound on the events of a behaviour
  Junk        \* a line that cannot be parsed

ASSUME ActivityConstants ==
  /\ Limit \in Nat \ {0}
  /\ ScanLimit \in Nat /\ ScanLimit >= Limit
  /\ PageLimit \in Nat \ {0}
  /\ MaxEvents \in Nat
  /\ Junk \notin [id : Nat, n : Nat]

VARIABLES
  up,       \* the daemon is running
  nextID,   \* Store.nextID
  events,   \* Store.events
  file,     \* the lines of activity.jsonl
  open,     \* its last line has no newline
  read,     \* the number of lines that load has read since the last start
  last,     \* the newest id the reader has seen
  hidden,   \* the events that are monitor or maintenance traffic
  added,    \* history: the number of events so far, which tells them apart
  written,  \* history: the events whose append succeeded
  torn,     \* history: the number of writes that were cut
  seen,     \* history: the events the reader got, or the ring had dropped by then
  gap,      \* history: the oldest id on the reader's last full page
  rewound   \* history: a restart found no id as new as the reader's

disk == <<file, open>>
reader == <<last, seen, gap>>
vars == <<up, nextID, events, disk, read, reader, hidden, added, written, torn, rewound>>

Event == [id : 1..MaxEvents, n : 1..MaxEvents]

TypeOK ==
  /\ up \in BOOLEAN
  /\ nextID \in 0..MaxEvents
  /\ events \in Seq(Event) /\ Len(events) <= Limit
  /\ file \in Seq(Event \cup {Junk}) /\ Len(file) <= MaxEvents
  /\ open \in BOOLEAN /\ (open => file # <<>>)
  /\ read \in 0..Len(file)
  /\ last \in 0..MaxEvents
  /\ hidden \in SUBSET (1..MaxEvents)
  /\ added \in 0..MaxEvents
  /\ written \in SUBSET (1..MaxEvents)
  /\ torn \in 0..MaxEvents
  /\ seen \in SUBSET (1..MaxEvents)
  /\ gap \in 0..MaxEvents
  /\ rewound \in BOOLEAN

Init ==
  /\ up = TRUE
  /\ nextID = 0 /\ events = <<>>
  /\ file = <<>> /\ open = FALSE /\ read = 0
  /\ last = 0 /\ seen = {} /\ gap = 0
  /\ hidden = {} /\ added = 0 /\ written = {} /\ torn = 0
  /\ rewound = FALSE

-----------------------------------------------------------------------------
\* Mutant of Newest: one event too many is kept.
NewestAndOne(s) ==
  IF Len(s) <= Limit + 1 THEN s ELSE SubSeq(s, Len(s) - Limit, Len(s))

\* The ring: what is older than Limit events is dropped.
Newest(s) == IF Len(s) <= Limit THEN s ELSE SubSeq(s, Len(s) - Limit + 1, Len(s))

\* A line goes to the end of the file, or onto the line that was cut.
Written(line) ==
  IF open THEN [file EXCEPT ![Len(file)] = Junk] ELSE Append(file, line)

\* Mutant of AppendOK: the newline is left to the next event.
AppendOKNoNewline(e) ==
  /\ file' = Written(e)
  /\ open' = TRUE
  /\ written' = written \cup {e.n}
  /\ UNCHANGED torn

\* appendEvent writes the event and its newline.
AppendOK(e) ==
  /\ file' = Written(e)
  /\ open' = FALSE
  /\ written' = written \cup {e.n}
  /\ UNCHANGED torn

\* The write is cut inside the event, or just before the newline.
AppendTorn(e) ==
  /\ \E line \in {e, Junk} : file' = Written(line)
  /\ open' = TRUE
  /\ torn' = torn + 1
  /\ UNCHANGED written

\* The file cannot be opened, or nothing is written.
AppendFails == UNCHANGED <<disk, written, torn>>

\* Add: under the mutex, and whatever the file says.  isMonitorActivity and
\* isMaintenanceProbeActivity go by what the event says.
Add ==
  LET e == [id |-> nextID + 1, n |-> added + 1] IN
  /\ up
  /\ added < MaxEvents
  /\ added' = added + 1
  /\ hidden' = hidden \/ hidden' = hidden \cup {e.n}
  /\ nextID' = nextID + 1
  /\ events' = Newest(Append(events, e))
  /\ AppendOK(e) \/ AppendTorn(e) \/ AppendFails
  /\ UNCHANGED <<up, read, reader, rewound>>

\* The process ends between two events, inside the append of the last one or
\* while it loads; what it held in memory is gone.
Crash ==
  /\ up' = FALSE
  /\ nextID' = 0
  /\ events' = <<>>
  /\ read' = 0
  /\ UNCHANGED <<disk, reader, hidden, added, written, torn, rewound>>

\* Mutant of LoadedID: the events are counted.
LoadedIDCounts(e) == nextID + 1

LoadedID(e) == IF e.id > nextID THEN e.id ELSE nextID

\* load skips a line it cannot parse; a last line without newline still counts.
LoadLine ==
  /\ ~up
  /\ read < Len(file)
  /\ read' = read + 1
  /\ IF file[read + 1] = Junk
       THEN UNCHANGED <<nextID, events>>
       ELSE /\ nextID' = LoadedID(file[read + 1])
            /\ events' = Newest(Append(events, file[read + 1]))
  /\ UNCHANGED <<up, disk, reader, hidden, added, written, torn, rewound>>

\* NewFile returns and the servers start.
Loaded ==
  /\ ~up
  /\ read = Len(file)
  /\ up' = TRUE
  /\ rewound' = (rewound \/ nextID < last)
  /\ UNCHANGED <<nextID, events, disk, read, reader, hidden, added, written, torn>>

\* Places in the ring of the events after the reader's newest one.
Fresh == {i \in DOMAIN events : events[i].id > last}

\* Mutant of Recent: no more events are looked at than a page can show.
RecentPage == {i \in Fresh : Cardinality({k \in Fresh : k > i}) < PageLimit}

\* Recent as activityDashboard calls it: from the newest one back.
Recent == {i \in Fresh : Cardinality({k \in Fresh : k > i}) < ScanLimit}

\* activityDashboard drops the hidden events, and then what is too much for a page.
Shown == {i \in Recent : events[i].n \notin hidden}
Page == {i \in Shown : Cardinality({k \in Shown : k > i}) < PageLimit}
PageIsFull == Cardinality(Shown) >= PageLimit

Numbers(places) == {events[i].n : i \in places}

\* The reader asks for the events after its newest one, and gets some.
Poll ==
  /\ up
  /\ \E oldest, newest \in Page :
       /\ \A i \in Page : oldest <= i /\ i <= newest
       /\ last' = events[newest].id
       /\ gap' = IF PageIsFull THEN events[oldest].id ELSE gap
  /\ seen' = seen \cup Numbers(Page) \cup ((1..added) \ Numbers(DOMAIN events))
  /\ UNCHANGED <<up, nextID, events, disk, read, hidden, added, written, torn, rewound>>

Next == Add \/ Crash \/ LoadLine \/ Loaded \/ Poll

Spec == Init /\ [][Next]_vars

-----------------------------------------------------------------------------
\* The lines that can be parsed.
Readable == {i \in DOMAIN file : file[i] # Junk}

\* The ids of the lines that can be read never repeat and never go back, over
\* any number of cut writes and restarts, although ids of lost lines are used
\* again.
IdsIncrease ==
  /\ \A i, k \in Readable : i < k => file[i].id < file[k].id
  /\ up => \A i \in Readable : file[i].id <= nextID

\* A cut write costs at most one more event than itself: of the events whose
\* append succeeded, no more are unreadable than writes were cut.
TornCostsOne == Cardinality(written \ {file[i].n : i \in Readable}) <= torn

\* A reader that asks for what came after its newest id misses no event that
\* the ring still holds, but those older than a full page it got (it cannot ask
\* for them with "after"), monitor traffic, and those whose ids a restart has
\* used again because the lines of events it had seen were lost.  In particular
\* no burst of hidden events takes the place of one to be shown.
PollComplete ==
  up /\ ~rewound =>
    \A i \in DOMAIN events :
      gap < events[i].id /\ events[i].id <= last /\ events[i].n \notin hidden
        => events[i].n \in seen
=============================================================================
