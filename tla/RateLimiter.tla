----------------------------- MODULE RateLimiter -----------------------------
(***************************************************************************)
(* internal/ratelimit: the limiter in front of every password check (FTP   *)
(* PASS, the HTTP login and Basic auth, the passwords of share links).     *)
(* Each of them asks Allow, checks the password without holding the        *)
(* limiter's mutex, and then calls Fail or Reset, so checks of one key     *)
(* overlap.                                                                *)
(*                                                                         *)
(* Times are kept relative to now and saturate where the code no longer    *)
(* tells them apart, so the clock needs no bound.                          *)
(***************************************************************************)
EXTENDS Integers, FiniteSets

CONSTANTS
  Clients,    \* password checks that can be in progress at once
  Keys,       \* "host|user", "host|link id"
  Nil,        \* "no check in progress"
  Limit,      \* failures that lock a key
  Window,     \* ticks after the first failure in which failures add up
  Lockout,    \* ticks a key stays locked
  TrimEvery   \* ticks between two trims of the map

ASSUME LimiterConstants ==
  /\ IsFiniteSet(Clients)
  /\ Nil \notin Keys
  /\ Limit \in Nat \ {0}
  /\ Window \in Nat \ {0}
  /\ Lockout \in Nat \ {0}
  /\ TrimEvery \in Nat \ {0}

VARIABLES
  entries,   \* entries[k]: the limiter's entry of key k
  trimAge,   \* ticks since the last trim
  trying     \* trying[c]: the key whose password client c is checking

limiter == <<entries, trimAge, trying>>

\* first and seen are ages of FirstFailed and LastSeen; left is how long
\* LockedUntil is still ahead.  A key is in the map once it has a failure.
NoEntry == [failures |-> 0, first |-> 0, left |-> 0, seen |-> 0]

EntryType == [failures : Nat, first : 0..(Window + 1), left : 0..(Lockout + 1),
              seen : 0..(Window + Lockout + 1)]

LimiterTypeOK ==
  /\ entries \in [Keys -> EntryType]
  /\ trimAge \in 0..TrimEvery
  /\ trying \in [Clients -> Keys \cup {Nil}]

LimiterInit ==
  /\ entries = [k \in Keys |-> NoEntry]
  /\ trimAge = TrimEvery
  /\ trying = [c \in Clients |-> Nil]

-----------------------------------------------------------------------------
\* Mutant of Trimmed: the age of the first failure decides.
TrimmedByFirst ==
  IF trimAge < TrimEvery
    THEN entries
    ELSE [k \in Keys |-> IF entries[k].first > Lockout THEN NoEntry ELSE entries[k]]

\* trimLocked drops what nobody has asked for in a window and a lockout.
Trimmed ==
  IF trimAge < TrimEvery
    THEN entries
    ELSE [k \in Keys |-> IF entries[k].seen > Window + Lockout THEN NoEntry ELSE entries[k]]

TrimTime == trimAge' = IF trimAge < TrimEvery THEN trimAge ELSE 0

Locked(k) == Trimmed[k].left > 0

\* Allow lets client c check a password for k.
Allow(c, k) ==
  /\ trying[c] = Nil
  /\ ~Locked(k)
  /\ entries' = Trimmed
  /\ TrimTime
  /\ trying' = [trying EXCEPT ![c] = k]

\* Allow refuses, and the refusal counts as a sign of life of the key.
Refuse(c, k) ==
  /\ trying[c] = Nil
  /\ Locked(k)
  /\ entries' = [Trimmed EXCEPT ![k].seen = 0]
  /\ TrimTime
  /\ UNCHANGED trying

\* A failure later than a window after the first one starts a new entry.
Current(e) == IF e.failures = 0 \/ e.first > Window THEN NoEntry ELSE e

\* Mutant of Failed: the count must exceed the limit.
FailedOffByOne(e) ==
  [failures |-> e.failures + 1,
   first |-> e.first,
   left |-> IF e.failures + 1 > Limit THEN Lockout + 1 ELSE e.left,
   seen |-> 0]

\* Mutant of Failed: a lock that is still running is prolonged.
FailedAddsUp(e) ==
  [failures |-> e.failures + 1,
   first |-> e.first,
   left |-> IF e.failures + 1 >= Limit THEN e.left + Lockout + 1 ELSE e.left,
   seen |-> 0]

Failed(e) ==
  [failures |-> e.failures + 1,
   first |-> e.first,
   left |-> IF e.failures + 1 >= Limit THEN Lockout + 1 ELSE e.left,
   seen |-> 0]

\* The password was wrong.
Fail(c) ==
  LET k == trying[c] IN
  /\ k # Nil
  /\ entries' = [Trimmed EXCEPT ![k] = Failed(Current(Trimmed[k]))]
  /\ TrimTime
  /\ trying' = [trying EXCEPT ![c] = Nil]

\* The password was right: Reset forgets the key, locked or not.
Reset(c) ==
  LET k == trying[c] IN
  /\ k # Nil
  /\ entries' = [entries EXCEPT ![k] = NoEntry]
  /\ trying' = [trying EXCEPT ![c] = Nil]
  /\ UNCHANGED trimAge

\* A share link that is expired or used up: the password was never judged.
NoVerdict(c) ==
  /\ trying[c] # Nil
  /\ trying' = [trying EXCEPT ![c] = Nil]
  /\ UNCHANGED <<entries, trimAge>>

Up(n, max) == IF n < max THEN n + 1 ELSE max

Aged(e) ==
  IF e.failures = 0 THEN e
  ELSE [failures |-> e.failures,
        first |-> Up(e.first, Window + 1),
        left |-> IF e.left > 0 THEN e.left - 1 ELSE 0,
        seen |-> Up(e.seen, Window + Lockout + 1)]

Tick ==
  /\ entries' = [k \in Keys |-> Aged(entries[k])]
  /\ trimAge' = Up(trimAge, TrimEvery)
  /\ UNCHANGED trying

LimiterNext ==
  \/ \E c \in Clients, k \in Keys : Allow(c, k) \/ Refuse(c, k)
  \/ \E c \in Clients : Fail(c) \/ Reset(c) \/ NoVerdict(c)
  \/ Tick

LimiterSpec == LimiterInit /\ [][LimiterNext]_limiter

-----------------------------------------------------------------------------
\* Within one window a key fails at most Limit - 1 times, then once per client
\* for the lock that follows, and once more per client after every lock that
\* ends inside the window: checks that passed Allow together all count.
FailuresBounded ==
  \A k \in Keys :
    entries[k].failures <= Limit - 1 + Cardinality(Clients) * (1 + Window \div (Lockout + 1))

\* A lock runs for its full time and no longer, whatever is trimmed, refused or
\* asked meanwhile.  Only a check that was already in progress can change it: it
\* succeeds, it fails and the lock starts over, or it fails so long after the
\* first failure that a new entry begins.
LockExact ==
  [][\A k \in Keys :
       entries'[k].left # entries[k].left =>
         \/ entries'[k].left = entries[k].left - 1 /\ trying' = trying
         \/ \E c \in Clients :
              /\ trying[c] = k /\ trying'[c] = Nil
              /\ \/ entries'[k] = NoEntry
                 \/ entries'[k].left = Lockout + 1
                 \/ entries[k].first > Window]_limiter
=============================================================================
