--------------------------- MODULE FtpSessionProofs ---------------------------
(***************************************************************************)
(* The limiter's locks and the sessions' logins, for any number of clients *)
(* and accounts and any limit, window, lockout and trim interval.          *)
(*                                                                         *)
(* A lock must outlive every trim although the trim looks at LastSeen and  *)
(* never at LockedUntil: LockKept relates the two.  The last part is about *)
(* the sessions' passive ports.                                            *)
(***************************************************************************)
EXTENDS FtpSession, PassivePorts, FiniteSetTheorems, TLAPS

\* The older an entry was last seen, the less of its lock is left.
LockKept(e) ==
  /\ e.failures = 0 => e.left = 0
  /\ e.left > 0 => e.left + e.seen <= Lockout + 1

LimiterInv == LimiterTypeOK /\ \A k \in Keys : LockKept(entries[k])

\* An empty entry has the type of entries and keeps no lock.
LEMMA NoEntryFits == NoEntry \in EntryType /\ LockKept(NoEntry)
  BY LimiterConstants DEF NoEntry, EntryType, LockKept

\* A failure starts the lock at its full length or leaves it as it was.
LEMMA FailedFits ==
  ASSUME NEW e \in EntryType, LockKept(e)
  PROVE  /\ Current(e) \in EntryType /\ LockKept(Current(e))
         /\ Failed(Current(e)) \in EntryType /\ LockKept(Failed(Current(e)))
<1>1. Current(e) \in EntryType /\ LockKept(Current(e))
  BY NoEntryFits DEF Current
<1>2. ASSUME NEW f \in EntryType, LockKept(f)
      PROVE  Failed(f) \in EntryType /\ LockKept(Failed(f))
  BY <1>2, LimiterConstants DEF Failed, EntryType, LockKept
<1> QED BY <1>1, <1>2

\* Time takes as much from the lock as it adds to the age.
LEMMA AgedFits ==
  ASSUME NEW e \in EntryType, LockKept(e)
  PROVE  Aged(e) \in EntryType /\ LockKept(Aged(e))
  BY LimiterConstants DEF Aged, Up, EntryType, LockKept

\* trimLocked never drops an entry that is locked.
LEMMA TrimmedFits ==
  ASSUME LimiterInv
  PROVE  /\ Trimmed \in [Keys -> EntryType]
         /\ \A k \in Keys :
              /\ LockKept(Trimmed[k])
              /\ Trimmed[k].left = entries[k].left
              /\ Trimmed[k] = entries[k] \/ Trimmed[k] = NoEntry
<1>1. Trimmed \in [Keys -> EntryType]
  BY NoEntryFits DEF LimiterInv, LimiterTypeOK, Trimmed
<1>2. ASSUME NEW k \in Keys PROVE Trimmed[k] = entries[k] \/ Trimmed[k] = NoEntry
  BY DEF LimiterInv, LimiterTypeOK, Trimmed
<1>3. ASSUME NEW k \in Keys PROVE Trimmed[k].left = entries[k].left
  <2>1. CASE entries[k].seen > Window + Lockout
    <3>1. entries[k] \in EntryType /\ LockKept(entries[k])
      BY DEF LimiterInv, LimiterTypeOK
    <3>2. entries[k].left = 0
      BY <2>1, <3>1, LimiterConstants DEF EntryType, LockKept
    <3> QED BY <1>2, <3>2 DEF NoEntry
  <2>2. CASE ~(entries[k].seen > Window + Lockout)
    BY <2>2 DEF LimiterInv, LimiterTypeOK, Trimmed
  <2> QED BY <2>1, <2>2
<1>4. ASSUME NEW k \in Keys PROVE LockKept(Trimmed[k])
  BY <1>2, NoEntryFits DEF LimiterInv
<1> QED BY <1>1, <1>2, <1>3, <1>4

\* The empty limiter satisfies the invariant.
LEMMA LimiterStarts == LimiterInit => LimiterInv
<1> SUFFICES ASSUME LimiterInit PROVE LimiterInv OBVIOUS
<1>1. LimiterTypeOK
  BY NoEntryFits, LimiterConstants DEF LimiterInit, LimiterTypeOK
<1> QED BY <1>1, NoEntryFits DEF LimiterInit, LimiterInv

\* Every operation of the limiter keeps the invariant.
LEMMA LimiterStep == LimiterInv /\ [LimiterNext]_limiter => LimiterInv'
<1> SUFFICES ASSUME LimiterInv, [LimiterNext]_limiter PROVE LimiterInv'
  OBVIOUS
<1> USE LimiterConstants
<1>t. trimAge \in 0..TrimEvery /\ trying \in [Clients -> Keys \cup {Nil}]
       /\ entries \in [Keys -> EntryType]
  BY DEF LimiterInv, LimiterTypeOK
<1>f. ASSUME TrimTime PROVE trimAge' \in 0..TrimEvery
  BY <1>f, <1>t DEF TrimTime
<1>0. ASSUME entries' \in [Keys -> EntryType],
             \A k \in Keys : LockKept(entries'[k]),
             trimAge' \in 0..TrimEvery, trying' \in [Clients -> Keys \cup {Nil}]
      PROVE  LimiterInv'
  BY <1>0 DEF LimiterInv, LimiterTypeOK, LockKept
<1>1. ASSUME NEW c \in Clients, NEW k \in Keys, Allow(c, k) PROVE LimiterInv'
  <2>1. entries' = Trimmed /\ TrimTime /\ trying' = [trying EXCEPT ![c] = k]
    BY <1>1 DEF Allow
  <2> QED BY <2>1, <1>0, <1>t, <1>f, TrimmedFits
<1>2. ASSUME NEW c \in Clients, NEW k \in Keys, Refuse(c, k) PROVE LimiterInv'
  <2>1. entries' = [Trimmed EXCEPT ![k].seen = 0] /\ TrimTime /\ trying' = trying
    BY <1>2 DEF Refuse
  <2>2. entries' \in [Keys -> EntryType]
    BY <2>1, TrimmedFits DEF EntryType
  <2>3. ASSUME NEW j \in Keys PROVE LockKept(entries'[j])
    <3>1. Trimmed[j] \in EntryType /\ LockKept(Trimmed[j]) BY TrimmedFits
    <3>2. CASE j # k BY <2>1, <3>1, <3>2, TrimmedFits
    <3>3. CASE j = k
      BY <2>1, <3>1, <3>3, TrimmedFits DEF EntryType, LockKept
    <3> QED BY <3>2, <3>3
  <2> QED BY <2>1, <2>2, <2>3, <1>0, <1>t, <1>f
<1>3. ASSUME NEW c \in Clients, Fail(c) PROVE LimiterInv'
  <2> DEFINE k == trying[c]
  <2>1. /\ k \in Keys
        /\ entries' = [Trimmed EXCEPT ![k] = Failed(Current(Trimmed[k]))]
        /\ TrimTime /\ trying' = [trying EXCEPT ![c] = Nil]
    BY <1>3, <1>t DEF Fail
  <2>2. Trimmed[k] \in EntryType /\ LockKept(Trimmed[k]) BY <2>1, TrimmedFits
  <2>3. Failed(Current(Trimmed[k])) \in EntryType /\ LockKept(Failed(Current(Trimmed[k])))
    BY <2>2, FailedFits
  <2> HIDE DEF k
  <2>4. entries' \in [Keys -> EntryType] /\ \A j \in Keys : LockKept(entries'[j])
    BY <2>1, <2>3, TrimmedFits
  <2> QED BY <2>1, <2>4, <1>0, <1>t, <1>f
<1>4. ASSUME NEW c \in Clients, Reset(c) PROVE LimiterInv'
  <2>1. /\ entries' = [entries EXCEPT ![trying[c]] = NoEntry]
        /\ trying' = [trying EXCEPT ![c] = Nil] /\ trimAge' = trimAge
    BY <1>4 DEF Reset
  <2>2. entries' \in [Keys -> EntryType] /\ \A j \in Keys : LockKept(entries'[j])
    BY <2>1, <1>t, NoEntryFits DEF LimiterInv
  <2> QED BY <2>1, <2>2, <1>0, <1>t
<1>5. ASSUME NEW c \in Clients, NoVerdict(c) PROVE LimiterInv'
  <2>1. trying' = [trying EXCEPT ![c] = Nil] /\ entries' = entries /\ trimAge' = trimAge
    BY <1>5 DEF NoVerdict
  <2> QED BY <2>1, <1>0, <1>t DEF LimiterInv
<1>6. CASE Tick
  <2>1. entries' = [k \in Keys |-> Aged(entries[k])] /\ trying' = trying
    BY <1>6 DEF Tick
  <2>2. trimAge' \in 0..TrimEvery BY <1>6, <1>t DEF Tick, Up
  <2>3. ASSUME NEW k \in Keys PROVE Aged(entries[k]) \in EntryType /\ LockKept(Aged(entries[k]))
    BY <1>t, AgedFits DEF LimiterInv
  <2> QED BY <2>1, <2>2, <2>3, <1>0, <1>t
<1>7. CASE UNCHANGED limiter
  BY <1>7, <1>0, <1>t DEF limiter, LimiterInv
<1> QED BY <1>1, <1>2, <1>3, <1>4, <1>5, <1>6, <1>7 DEF LimiterNext

-----------------------------------------------------------------------------
\* What LockExact says of one key.
LockMoves(k) ==
  entries'[k].left # entries[k].left =>
    \/ entries'[k].left = entries[k].left - 1 /\ trying' = trying
    \/ \E c \in Clients :
         /\ trying[c] = k /\ trying'[c] = Nil
         /\ \/ entries'[k] = NoEntry
            \/ entries'[k].left = Lockout + 1
            \/ entries[k].first > Window

\* A failure leaves the lock, starts it over, or comes after the window.
LEMMA FailedLock ==
  ASSUME NEW e \in EntryType, LockKept(e)
  PROVE  \/ Failed(Current(e)).left = e.left
         \/ Failed(Current(e)).left = Lockout + 1
         \/ e.first > Window
  BY LimiterConstants DEF Failed, Current, NoEntry, EntryType, LockKept

\* Each operation of the limiter changes a lock only as LockExact allows.
LEMMA LockStep ==
  ASSUME LimiterInv, LimiterNext, NEW k \in Keys
  PROVE  LockMoves(k)
<1>t. /\ trying \in [Clients -> Keys \cup {Nil}]
      /\ entries \in [Keys -> EntryType]
      /\ LockKept(entries[k])
  BY DEF LimiterInv, LimiterTypeOK
<1>s. ASSUME entries'[k].left = entries[k].left PROVE LockMoves(k)
  BY <1>s DEF LockMoves
<1>1. ASSUME NEW c \in Clients, NEW j \in Keys, Allow(c, j) PROVE LockMoves(k)
  BY <1>1, <1>s, TrimmedFits DEF Allow
<1>2. ASSUME NEW c \in Clients, NEW j \in Keys, Refuse(c, j) PROVE LockMoves(k)
  <2>1. entries' = [Trimmed EXCEPT ![j].seen = 0] BY <1>2 DEF Refuse
  <2>2. entries'[k].left = Trimmed[k].left
    BY <2>1, TrimmedFits DEF EntryType
  <2> QED BY <2>2, <1>s, TrimmedFits
<1>3. ASSUME NEW c \in Clients, Fail(c) PROVE LockMoves(k)
  <2>1. entries' = [Trimmed EXCEPT ![trying[c]] = Failed(Current(Trimmed[trying[c]]))]
    BY <1>3 DEF Fail
  <2>2. trying'[c] = Nil BY <1>3, <1>t DEF Fail
  <2>3. CASE trying[c] # k
    BY <2>1, <2>3, <1>s, TrimmedFits
  <2>4. CASE trying[c] = k
    <3>1. Trimmed[k] \in EntryType /\ LockKept(Trimmed[k]) BY TrimmedFits
    <3>2. entries'[k] = Failed(Current(Trimmed[k])) BY <2>1, <2>4, TrimmedFits
    <3>3. \/ entries'[k].left = entries[k].left
          \/ entries'[k].left = Lockout + 1
          \/ Trimmed[k].first > Window
      BY <3>1, <3>2, FailedLock, TrimmedFits
    <3>4. Trimmed[k].first > Window => entries[k].first > Window
      <4>1. Trimmed[k] = entries[k] \/ Trimmed[k] = NoEntry BY TrimmedFits
      <4>2. ~(NoEntry.first > Window) BY LimiterConstants DEF NoEntry
      <4> QED BY <4>1, <4>2
    <3> QED BY <3>3, <3>4, <2>2, <2>4 DEF LockMoves
  <2> QED BY <2>3, <2>4
<1>4. ASSUME NEW c \in Clients, Reset(c) PROVE LockMoves(k)
  <2>1. /\ entries' = [entries EXCEPT ![trying[c]] = NoEntry]
        /\ trying'[c] = Nil
    BY <1>4, <1>t DEF Reset
  <2>2. CASE trying[c] # k BY <2>1, <2>2, <1>s, <1>t
  <2>3. CASE trying[c] = k BY <2>1, <2>3, <1>t DEF LockMoves
  <2> QED BY <2>2, <2>3
<1>5. ASSUME NEW c \in Clients, NoVerdict(c) PROVE LockMoves(k)
  BY <1>5, <1>s DEF NoVerdict
<1>6. CASE Tick
  <2>1. entries'[k] = Aged(entries[k]) /\ trying' = trying BY <1>6 DEF Tick
  <2>2. entries[k] \in EntryType BY <1>t
  <2>3. Aged(entries[k]).left = entries[k].left \/ Aged(entries[k]).left = entries[k].left - 1
    BY <2>2, <1>t DEF Aged, EntryType, LockKept
  <2> QED BY <2>1, <2>3 DEF LockMoves
<1> QED BY <1>1, <1>2, <1>3, <1>4, <1>5, <1>6 DEF LimiterNext

\* Whoever uses the limiter, the types of its entries are kept.
THEOREM LimiterTypes == LimiterSpec => []LimiterTypeOK
<1>1. LimiterSpec => []LimiterInv
  BY LimiterStarts, LimiterStep, PTL DEF LimiterSpec
<1>2. LimiterInv => LimiterTypeOK BY DEF LimiterInv
<1> QED BY <1>1, <1>2, PTL

\* A lock runs its full time: no trim, refusal or later question shortens or
\* prolongs it.
THEOREM LimiterLockExact == LimiterSpec => LockExact
<1>1. LimiterInv /\ [LimiterNext]_limiter => [\A k \in Keys : LockMoves(k)]_limiter
  BY LockStep
<1>2. [\A k \in Keys : LockMoves(k)]_limiter =>
        [\A k \in Keys :
           entries'[k].left # entries[k].left =>
             \/ entries'[k].left = entries[k].left - 1 /\ trying' = trying
             \/ \E c \in Clients :
                  /\ trying[c] = k /\ trying'[c] = Nil
                  /\ \/ entries'[k] = NoEntry
                     \/ entries'[k].left = Lockout + 1
                     \/ entries[k].first > Window]_limiter
  BY DEF LockMoves
<1> QED BY <1>1, <1>2, LimiterStarts, LimiterStep, PTL DEF LimiterSpec, LockExact

-----------------------------------------------------------------------------
(***************************************************************************)
(* How often a key can fail within a window                                *)
(***************************************************************************)

\* The failures that a ticks after the first one account for: those before the
\* first lock, and one per client for every lock that has ended since.
Earned(a) == Limit - 1 + Cardinality(Clients) * (a \div (Lockout + 1))

Trying(k) == {c \in Clients : trying[c] = k}

\* What the failures of an entry amount to while t checks of its key are in
\* progress.  Under a lock no check begins, so those in progress are all that
\* can still fail before it ends, which is at the age first + left.
FailuresFit(e, t) ==
  /\ e.first <= Window /\ e.left = 0 => e.failures <= Earned(e.first)
  /\ e.first <= Window /\ e.left > 0 => e.failures + t <= Earned(e.first + e.left)
  /\ e.failures <= Earned(Window + Lockout + 1)

FailureInv == \A k \in Keys : FailuresFit(entries[k], Cardinality(Trying(k)))

\* A later time accounts for more, and every full lock for one per client.
LEMMA EarnedGrows ==
  /\ \A a \in Nat : Earned(a) \in Int /\ Earned(a) >= Limit - 1
  /\ \A a, b \in Nat : a <= b => Earned(a) <= Earned(b)
  /\ \A a \in Nat : Earned(a + Lockout + 1) = Earned(a) + Cardinality(Clients)
<1> DEFINE C == Cardinality(Clients)
           D == Lockout + 1
<1>1. C \in Nat /\ D \in Nat \ {0} /\ Limit \in Nat
  BY LimiterConstants, FS_CardinalityType
<1> HIDE DEF C, D
<1>2. \A a \in Nat : a \div D \in Nat
  BY <1>1
<1>3. \A a, b \in Nat : a <= b => a \div D <= b \div D
  BY <1>1
<1>4. \A a \in Nat : (a + D) \div D = a \div D + 1
  BY <1>1
<1>5. \A x, y \in Nat : C * x \in Nat /\ (x <= y => C * x <= C * y)
  BY <1>1
<1>6. \A x \in Nat : C * (x + 1) = C * x + C
  BY <1>1
<1>7. ASSUME NEW a \in Nat PROVE Earned(a) = Limit - 1 + C * (a \div D)
  BY DEF Earned, C, D
<1>8. ASSUME NEW a \in Nat PROVE Earned(a) \in Int /\ Earned(a) >= Limit - 1
  <2>1. PICK x \in Nat : x = a \div D
    BY <1>2
  <2>2. C * x \in Nat /\ Earned(a) = Limit - 1 + C * x
    BY <1>5, <1>7, <2>1
  <2> QED
    BY <1>1, <2>2
<1>9. ASSUME NEW a \in Nat, NEW b \in Nat, a <= b PROVE Earned(a) <= Earned(b)
  <2>1. PICK x \in Nat, y \in Nat : x = a \div D /\ y = b \div D /\ x <= y
    BY <1>2, <1>3, <1>9
  <2>2. C * x \in Nat /\ C * y \in Nat /\ C * x <= C * y
    BY <1>5, <2>1
  <2>3. Earned(a) = Limit - 1 + C * x /\ Earned(b) = Limit - 1 + C * y
    BY <1>7, <2>1
  <2> QED
    BY <1>1, <2>2, <2>3
<1>10. ASSUME NEW a \in Nat PROVE Earned(a + Lockout + 1) = Earned(a) + C
  <2>1. a + Lockout + 1 = a + D /\ a + D \in Nat
    BY <1>1, LimiterConstants DEF D
  <2>2. PICK x \in Nat : x = a \div D /\ x + 1 = (a + D) \div D
    BY <1>2, <1>4
  <2>3. C * x \in Nat /\ C * (x + 1) = C * x + C
    BY <1>5, <1>6
  <2>4. Earned(a) = Limit - 1 + C * x /\ Earned(a + D) = Limit - 1 + C * (x + 1)
    BY <1>7, <2>1, <2>2
  <2> QED
    BY <1>1, <2>1, <2>3, <2>4
<1> QED
  BY <1>8, <1>9, <1>10 DEF C

\* A key that nobody has failed for.
LEMMA NoEntryFailures ==
  ASSUME NEW t \in Nat PROVE FailuresFit(NoEntry, t)
<1>1. NoEntry.failures = 0 /\ NoEntry.first = 0 /\ NoEntry.left = 0
  BY DEF NoEntry
<1>2. Limit - 1 >= 0 /\ 0 \in Nat /\ Window + Lockout + 1 \in Nat
  BY LimiterConstants
<1>3. /\ Earned(0) \in Int /\ Earned(0) >= Limit - 1
      /\ Earned(Window + Lockout + 1) \in Int /\ Earned(Window + Lockout + 1) >= Limit - 1
  BY <1>2, EarnedGrows
<1> QED
  BY <1>1, <1>2, <1>3, LimiterConstants DEF FailuresFit

\* One of the checks in progress fails.
LEMMA FailedFailures ==
  ASSUME NEW e \in EntryType, NEW t \in Nat, FailuresFit(e, t + 1),
         e.first <= Window, t + 1 <= Cardinality(Clients)
  PROVE  FailuresFit(Failed(e), t)
<1> USE LimiterConstants
<1>0. /\ e.failures \in Nat /\ e.first \in Nat /\ e.left \in 0..(Lockout + 1)
      /\ Cardinality(Clients) \in Nat
  BY FS_CardinalityType DEF EntryType
<1>1. /\ Failed(e).failures = e.failures + 1 /\ Failed(e).first = e.first
      /\ Failed(e).left = IF e.failures + 1 >= Limit THEN Lockout + 1 ELSE e.left
  BY DEF Failed
<1>2. /\ Earned(e.first) \in Int /\ Earned(e.first) >= Limit - 1
      /\ Earned(e.first + e.left) \in Int
      /\ Earned(e.first + Lockout + 1) = Earned(e.first) + Cardinality(Clients)
      /\ Earned(e.first + e.left) <= Earned(e.first + Lockout + 1)
      /\ Earned(e.first + Lockout + 1) <= Earned(Window + Lockout + 1)
      /\ Earned(Window + Lockout + 1) \in Int
      /\ Earned(e.first) <= Earned(Window + Lockout + 1)
  <2>1. PICK f \in Nat, l \in Nat : f = e.first /\ l = e.left /\ l <= Lockout + 1
    BY <1>0
  <2>2. /\ f + l \in Nat /\ f + Lockout + 1 \in Nat /\ Window + Lockout + 1 \in Nat
        /\ f + l <= f + Lockout + 1 /\ f + Lockout + 1 <= Window + Lockout + 1
        /\ f <= Window + Lockout + 1
    BY <2>1
  <2>3. /\ Earned(f) \in Int /\ Earned(f) >= Limit - 1 /\ Earned(f + l) \in Int
        /\ Earned(Window + Lockout + 1) \in Int
    BY <2>2, EarnedGrows
  <2>4. /\ Earned(f + l) <= Earned(f + Lockout + 1)
        /\ Earned(f + Lockout + 1) <= Earned(Window + Lockout + 1)
        /\ Earned(f) <= Earned(Window + Lockout + 1)
    BY <2>2, EarnedGrows
  <2>5. Earned(f + Lockout + 1) = Earned(f) + Cardinality(Clients)
    BY EarnedGrows
  <2> QED
    BY <2>1, <2>3, <2>4, <2>5
<1>3. CASE e.failures + 1 < Limit /\ e.left = 0
  BY <1>0, <1>1, <1>2, <1>3 DEF FailuresFit
<1>4. CASE e.failures + 1 < Limit /\ e.left > 0
  <2>1. e.failures + (t + 1) <= Earned(e.first + e.left)
    BY <1>4 DEF FailuresFit
  <2> QED
    BY <1>0, <1>1, <1>2, <1>4, <2>1 DEF FailuresFit
<1>5. CASE e.failures + 1 >= Limit
  <2>1. e.failures + (t + 1) <= Earned(e.first + Lockout + 1)
    <3>1. CASE e.left = 0
      BY <1>0, <1>2, <3>1 DEF FailuresFit
    <3>2. CASE e.left > 0
      BY <1>0, <1>2, <3>2 DEF FailuresFit
    <3> QED
      BY <1>0, <3>1, <3>2
  <2>2. Failed(e).left = Lockout + 1 /\ e.first + (Lockout + 1) = e.first + Lockout + 1
    BY <1>0, <1>1, <1>5
  <2> QED
    BY <1>0, <1>1, <1>2, <2>1, <2>2 DEF FailuresFit
<1> QED
  BY <1>0, <1>3, <1>4, <1>5

\* Time passes: what is left of the lock becomes age.
LEMMA AgedFailures ==
  ASSUME NEW e \in EntryType, NEW t \in Nat, FailuresFit(e, t)
  PROVE  FailuresFit(Aged(e), t)
<1> USE LimiterConstants
<1>0. /\ e.failures \in Nat /\ e.first \in 0..(Window + 1) /\ e.left \in 0..(Lockout + 1)
  BY DEF EntryType
<1>1. CASE e.failures = 0
  BY <1>1 DEF Aged
<1>2. CASE e.failures # 0
  <2>1. /\ Aged(e).failures = e.failures
        /\ Aged(e).first = Up(e.first, Window + 1)
        /\ Aged(e).left = IF e.left > 0 THEN e.left - 1 ELSE 0
    BY <1>2 DEF Aged
  <2>2. CASE e.first >= Window
    <3>1. ~(Aged(e).first <= Window)
      BY <1>0, <2>1, <2>2 DEF Up
    <3> QED
      BY <2>1, <3>1 DEF FailuresFit
  <2>3. CASE e.first < Window
    <3>1. Aged(e).first = e.first + 1
      BY <1>0, <2>1, <2>3 DEF Up
    <3>2. /\ Earned(e.first) \in Int /\ Earned(e.first + 1) \in Int
          /\ Earned(e.first) <= Earned(e.first + 1)
          /\ Earned(e.first + e.left) \in Int
      BY <1>0, EarnedGrows
    <3>3. CASE e.left = 0
      BY <1>0, <2>1, <2>3, <3>1, <3>2, <3>3 DEF FailuresFit
    <3>4. CASE e.left > 0
      <4>1. (e.first + 1) + (e.left - 1) = e.first + e.left
        BY <1>0
      <4>2. e.failures + t <= Earned(e.first + e.left)
        BY <2>3, <3>4, <1>0 DEF FailuresFit
      <4>3. Aged(e).first + Aged(e).left = e.first + e.left
        BY <1>0, <2>1, <3>1, <3>4, <4>1
      <4>4. Aged(e).left = 0 => Aged(e).first = e.first + e.left
        BY <1>0, <2>1, <3>1, <3>4
      <4> QED
        BY <1>0, <2>1, <3>2, <4>2, <4>3, <4>4 DEF FailuresFit
    <3> QED
      BY <1>0, <3>3, <3>4
  <2> QED
    BY <1>0, <2>2, <2>3
<1> QED
  BY <1>1, <1>2

\* A check that ends is one less in progress for its key and none for others.
LEMMA TryingEnds ==
  ASSUME LimiterTypeOK, NEW c \in Clients, trying[c] # Nil,
         trying' = [trying EXCEPT ![c] = Nil], NEW k \in Keys
  PROVE  /\ Cardinality(Trying(k)) \in Nat /\ Cardinality(Trying(k)) <= Cardinality(Clients)
         /\ Cardinality(Trying(k)') \in Nat
         /\ trying[c] = k => Cardinality(Trying(k)') + 1 = Cardinality(Trying(k))
         /\ trying[c] # k => Trying(k)' = Trying(k)
<1>1. IsFiniteSet(Clients) /\ Trying(k) \subseteq Clients
  BY LimiterConstants DEF Trying
<1>2. /\ IsFiniteSet(Trying(k)) /\ Cardinality(Trying(k)) \in Nat
      /\ Cardinality(Trying(k)) <= Cardinality(Clients)
  BY <1>1, FS_Subset, FS_CardinalityType
<1>3. \A d \in Clients : trying'[d] = IF d = c THEN Nil ELSE trying[d]
  BY DEF LimiterTypeOK
<1>4. CASE trying[c] = k
  <2>1. Trying(k)' = Trying(k) \ {c} /\ c \in Trying(k)
    BY <1>3, <1>4, LimiterConstants DEF Trying
  <2>2. /\ Cardinality(Trying(k) \ {c}) \in Nat
        /\ Cardinality(Trying(k) \ {c}) = Cardinality(Trying(k)) - 1
    BY <1>2, <2>1, FS_RemoveElement, FS_CardinalityType
  <2> QED
    BY <1>2, <1>4, <2>1, <2>2
<1>5. CASE trying[c] # k
  <2>1. Trying(k)' = Trying(k)
    BY <1>3, <1>5, LimiterConstants DEF Trying
  <2> QED
    BY <1>2, <1>5, <2>1
<1> QED
  BY <1>4, <1>5

\* FailuresFit looks neither at LastSeen nor, without a lock, at the checks in
\* progress; with one, fewer of them are no harm.
LEMMA FailuresFrame ==
  ASSUME NEW e \in EntryType, NEW f \in EntryType, NEW t \in Nat, NEW u \in Nat,
         FailuresFit(e, t),
         f.failures = e.failures, f.first = e.first, f.left = e.left,
         u <= t \/ e.left = 0
  PROVE  FailuresFit(f, u)
<1>1. e.failures \in Nat /\ e.first \in Nat /\ e.left \in Nat
  BY DEF EntryType
<1>2. Earned(e.first + e.left) \in Int
  BY <1>1, EarnedGrows
<1> QED
  BY <1>1, <1>2 DEF FailuresFit

\* Every operation of the limiter keeps the failures accounted for.
LEMMA FailureStep ==
  ASSUME LimiterInv, LimiterInv', FailureInv, [LimiterNext]_limiter
  PROVE  FailureInv'
<1> USE LimiterConstants
<1>t. /\ trying \in [Clients -> Keys \cup {Nil}]
      /\ entries \in [Keys -> EntryType] /\ entries' \in [Keys -> EntryType]
      /\ LimiterTypeOK
  BY DEF LimiterInv, LimiterTypeOK
<1>n. ASSUME NEW k \in Keys
      PROVE  Cardinality(Trying(k)) \in Nat /\ Cardinality(Trying(k)') \in Nat
  <2>1. Trying(k) \subseteq Clients /\ Trying(k)' \subseteq Clients
    BY DEF Trying
  <2> QED
    BY <2>1, FS_Subset, FS_CardinalityType
<1>s. SUFFICES ASSUME NEW k \in Keys
               PROVE  FailuresFit(entries'[k], Cardinality(Trying(k)'))
  BY DEF FailureInv
<1>e. /\ entries[k] \in EntryType /\ Trimmed[k] \in EntryType /\ entries'[k] \in EntryType
      /\ FailuresFit(entries[k], Cardinality(Trying(k)))
      /\ FailuresFit(Trimmed[k], Cardinality(Trying(k)))
  BY <1>t, <1>n, TrimmedFits, NoEntryFailures DEF FailureInv
<1>1. ASSUME NEW c \in Clients, NEW j \in Keys, Allow(c, j)
      PROVE  FailuresFit(entries'[k], Cardinality(Trying(k)'))
  <2>1. /\ trying[c] = Nil /\ ~(Trimmed[j].left > 0)
        /\ entries'[k] = Trimmed[k] /\ trying' = [trying EXCEPT ![c] = j]
    BY <1>1 DEF Allow, Locked
  <2>2. CASE k = j
    <3>1. Trimmed[k].left = 0
      BY <1>e, <2>1, <2>2 DEF EntryType
    <3> QED
      BY <1>e, <1>n, <2>1, <3>1, FailuresFrame
  <2>3. CASE k # j
    <3>1. Trying(k)' = Trying(k)
      BY <1>t, <2>1, <2>3 DEF Trying
    <3> QED
      BY <1>e, <2>1, <3>1
  <2> QED
    BY <2>2, <2>3
<1>2. ASSUME NEW c \in Clients, NEW j \in Keys, Refuse(c, j)
      PROVE  FailuresFit(entries'[k], Cardinality(Trying(k)'))
  <2>1. entries' = [Trimmed EXCEPT ![j].seen = 0] /\ trying' = trying
    BY <1>2 DEF Refuse
  <2>2. /\ entries'[k].failures = Trimmed[k].failures
        /\ entries'[k].first = Trimmed[k].first /\ entries'[k].left = Trimmed[k].left
    BY <2>1, TrimmedFits DEF EntryType
  <2>3. Trying(k)' = Trying(k)
    BY <2>1 DEF Trying
  <2> QED
    BY <1>e, <1>n, <2>2, <2>3, FailuresFrame
<1>3. ASSUME NEW c \in Clients, Fail(c)
      PROVE  FailuresFit(entries'[k], Cardinality(Trying(k)'))
  <2>1. /\ trying[c] # Nil /\ trying[c] \in Keys
        /\ trying' = [trying EXCEPT ![c] = Nil]
        /\ entries' = [Trimmed EXCEPT ![trying[c]] = Failed(Current(Trimmed[trying[c]]))]
    BY <1>3, <1>t DEF Fail
  <2>2. CASE trying[c] # k
    <3>1. entries'[k] = Trimmed[k] /\ Trying(k)' = Trying(k)
      BY <1>t, <2>1, <2>2, TrimmedFits, TryingEnds
    <3> QED
      BY <1>e, <3>1
  <2>3. CASE trying[c] = k
    <3>1. PICK t \in Nat : /\ t = Cardinality(Trying(k)')
                           /\ t + 1 = Cardinality(Trying(k))
                           /\ t + 1 <= Cardinality(Clients)
      BY <1>t, <2>1, <2>3, TryingEnds
    <3>2. PICK e \in EntryType : e = Current(Trimmed[k])
      BY <1>e, NoEntryFits DEF Current
    <3>3. entries'[k] = Failed(e)
      BY <2>1, <2>3, <3>2, TrimmedFits
    <3>4. e.first <= Window
      BY <1>e, <3>2 DEF Current, NoEntry, EntryType
    <3>5. FailuresFit(e, t + 1)
      BY <1>e, <3>1, <3>2, NoEntryFailures DEF Current
    <3> QED
      BY <3>1, <3>3, <3>4, <3>5, FailedFailures
  <2> QED
    BY <2>2, <2>3
<1>4. ASSUME NEW c \in Clients, Reset(c)
      PROVE  FailuresFit(entries'[k], Cardinality(Trying(k)'))
  <2>1. /\ trying[c] # Nil /\ trying' = [trying EXCEPT ![c] = Nil]
        /\ entries' = [entries EXCEPT ![trying[c]] = NoEntry]
    BY <1>4 DEF Reset
  <2>2. CASE trying[c] = k
    <3>1. entries'[k] = NoEntry
      BY <1>t, <2>1, <2>2
    <3> QED
      BY <1>n, <3>1, NoEntryFailures
  <2>3. CASE trying[c] # k
    <3>1. entries'[k] = entries[k] /\ Trying(k)' = Trying(k)
      BY <1>t, <2>1, <2>3, TryingEnds
    <3> QED
      BY <1>e, <3>1
  <2> QED
    BY <2>2, <2>3
<1>5. ASSUME NEW c \in Clients, NoVerdict(c)
      PROVE  FailuresFit(entries'[k], Cardinality(Trying(k)'))
  <2>1. /\ trying[c] # Nil /\ trying' = [trying EXCEPT ![c] = Nil]
        /\ entries' = entries
    BY <1>5 DEF NoVerdict
  <2>2. Cardinality(Trying(k)') <= Cardinality(Trying(k))
    <3>1. CASE trying[c] = k
      <4>1. Cardinality(Trying(k)') + 1 = Cardinality(Trying(k))
        BY <1>t, <2>1, <3>1, TryingEnds
      <4> QED
        BY <1>n, <4>1
    <3>2. CASE trying[c] # k
      <4>1. Trying(k)' = Trying(k)
        BY <1>t, <2>1, <3>2, TryingEnds
      <4> QED
        BY <1>n, <4>1
    <3> QED
      BY <3>1, <3>2
  <2> QED
    BY <1>e, <1>n, <2>1, <2>2, FailuresFrame
<1>6. CASE Tick
  <2>1. entries'[k] = Aged(entries[k]) /\ trying' = trying
    BY <1>6 DEF Tick
  <2>2. Trying(k)' = Trying(k)
    BY <2>1 DEF Trying
  <2> QED
    BY <1>e, <1>n, <2>1, <2>2, AgedFailures
<1>7. CASE UNCHANGED limiter
  BY <1>7, <1>e DEF limiter, Trying
<1> QED
  BY <1>1, <1>2, <1>3, <1>4, <1>5, <1>6, <1>7 DEF LimiterNext

\* However many checks of a key overlap, and however trims, refusals and
\* successful logins fall between them, its failures within a window stay under
\* the bound: those before the lock, and one per client for each lock.
THEOREM LimiterFailuresBounded == LimiterSpec => []FailuresBounded
<1>1. LimiterInit => LimiterInv /\ FailureInv
  <2> SUFFICES ASSUME LimiterInit PROVE FailureInv
    BY LimiterStarts
  <2> SUFFICES ASSUME NEW k \in Keys PROVE FailuresFit(entries[k], Cardinality(Trying(k)))
    BY DEF FailureInv
  <2>1. Trying(k) = {} /\ entries[k] = NoEntry
    BY LimiterConstants DEF LimiterInit, Trying
  <2>2. Cardinality(Trying(k)) = 0
    BY <2>1, FS_EmptySet
  <2> QED
    BY <2>1, <2>2, NoEntryFailures
<1>2. LimiterInv /\ FailureInv /\ [LimiterNext]_limiter => (LimiterInv /\ FailureInv)'
  BY LimiterStep, FailureStep
<1>3. LimiterInv /\ FailureInv => FailuresBounded
  <2> DEFINE C == Cardinality(Clients)
  <2> SUFFICES ASSUME LimiterInv, FailureInv, NEW k \in Keys
               PROVE  entries[k].failures <= Limit - 1 + C * (1 + Window \div (Lockout + 1))
    BY DEF FailuresBounded
  <2>1. C \in Nat /\ Window \in Nat /\ Lockout \in Nat /\ Limit \in Nat
    BY LimiterConstants, FS_CardinalityType
  <2>2. entries[k].failures <= Earned(Window + Lockout + 1)
    BY DEF FailureInv, FailuresFit
  <2>3. Earned(Window + Lockout + 1) = Limit - 1 + C * (Window \div (Lockout + 1)) + C
    BY <2>1, EarnedGrows DEF Earned
  <2>4. C * (1 + Window \div (Lockout + 1)) = C * (Window \div (Lockout + 1)) + C
    <3>1. Window \div (Lockout + 1) \in Nat
      BY <2>1
    <3> HIDE DEF C
    <3> QED
      BY <2>1, <3>1
  <2>5. C * (Window \div (Lockout + 1)) \in Nat
    <3>1. Window \div (Lockout + 1) \in Nat
      BY <2>1
    <3> HIDE DEF C
    <3> QED
      BY <2>1, <3>1
  <2>6. entries[k].failures \in Nat
    BY DEF LimiterInv, LimiterTypeOK, EntryType
  <2> HIDE DEF C
  <2> QED
    BY <2>1, <2>2, <2>3, <2>4, <2>5, <2>6
<1> QED
  BY <1>1, <1>2, <1>3, PTL DEF LimiterSpec

-----------------------------------------------------------------------------
SessionTypes ==
  /\ account \in [Users -> (SUBSET Perms) \cup {Nil}]
  /\ st \in [Clients -> States]
  /\ name \in [Clients -> Keys \cup {Nil}]
  /\ user \in [Clients -> Users \cup {Nil}]
  /\ granted \in [Clients -> SUBSET Perms]
  /\ auth \in [Clients -> BOOLEAN]
  /\ secure \in [Clients -> BOOLEAN]
  /\ proven \in [Clients -> Users \cup {Nil}]

\* A password is only checked for a named account and over TLS where that is
\* required, and a login names an account.
LoginShape ==
  \A s \in Clients :
    /\ st[s] = "check" => name[s] # Nil /\ (RequireTLS => secure[s])
    /\ auth[s] => user[s] # Nil

SessionInv == SessionTypes /\ LoginShape /\ LoginProven

\* A step of a session is a step of the limiter or none: Allow comes first, then
\* one verdict.
LEMMA SessionUsesLimiter ==
  ASSUME SessionTypes, [SessionNext]_vars
  PROVE  [LimiterNext]_limiter
<1>1. ASSUME NEW s \in Clients, PassBegins(s) PROVE LimiterNext
  <2>1. name[s] \in Keys /\ Allow(s, name[s])
    BY <1>1 DEF PassBegins, MayPass, SessionTypes
  <2> QED BY <2>1 DEF LimiterNext
<1>2. ASSUME NEW s \in Clients, PassLimited(s) PROVE LimiterNext
  <2>1. name[s] \in Keys /\ Refuse(s, name[s])
    BY <1>2 DEF PassLimited, MayPass, SessionTypes
  <2> QED BY <2>1 DEF LimiterNext
<1>3. ASSUME NEW s \in Clients, PassFails(s) PROVE LimiterNext
  BY <1>3 DEF PassFails, LimiterNext
<1>4. ASSUME NEW s \in Clients, PassSucceeds(s) PROVE LimiterNext
  BY <1>4 DEF PassSucceeds, LimiterNext
<1>5. ASSUME NEW s \in Clients,
             \/ Connect(s) \/ Quit(s)
             \/ \E n \in Keys : UserCommand(s, n)
             \/ AuthTLS(s) \/ AuthTLSFails(s)
      PROVE  UNCHANGED limiter
  BY <1>5 DEF Connect, Quit, UserCommand, AuthTLS, AuthTLSFails
<1>6. ASSUME NEW s \in Clients,
             \/ AccountUnavailable(s)
             \/ \E p \in Perms : Denied(s, p) \/ Command(s, p)
             \/ Done(s)
      PROVE  UNCHANGED limiter
  BY <1>6 DEF AccountUnavailable, Denied, Command, Done
<1>7. ASSUME NEW u \in Users, NEW a \in (SUBSET Perms) \cup {Nil}, EditAccount(u, a)
      PROVE  UNCHANGED limiter
  BY <1>7 DEF EditAccount
<1>8. CASE Tick BY <1>8 DEF LimiterNext
<1>9. CASE UNCHANGED vars BY <1>9 DEF vars
<1> QED BY <1>1, <1>2, <1>3, <1>4, <1>5, <1>6, <1>7, <1>8, <1>9 DEF SessionNext

\* A connection that ends leaves nothing behind.
LEMMA ForgetKeeps ==
  ASSUME SessionInv, NEW s \in Clients, Forget(s), UNCHANGED account
  PROVE  SessionInv'
<1>1. SessionTypes'
  BY DEF SessionInv, SessionTypes, Forget, States
<1>2. LoginShape'
  BY DEF SessionInv, SessionTypes, LoginShape, Forget, States
<1>3. LoginProven'
  BY DEF SessionInv, SessionTypes, LoginProven, Forget
<1> QED BY <1>1, <1>2, <1>3 DEF SessionInv

\* Every command keeps the invariant, whatever the admins do to the accounts.
LEMMA SessionStep == SessionInv /\ [SessionNext]_vars => SessionInv'
<1> SUFFICES ASSUME SessionInv, [SessionNext]_vars PROVE SessionInv' OBVIOUS
<1>t. SessionTypes /\ LoginShape /\ LoginProven BY DEF SessionInv
<1>1. ASSUME NEW s \in Clients, Connect(s) PROVE SessionInv'
  BY <1>1, <1>t DEF Connect, SessionInv, SessionTypes, LoginShape, LoginProven, States
<1>2. ASSUME NEW s \in Clients, Quit(s) PROVE SessionInv'
  BY <1>2, ForgetKeeps DEF Quit
<1>3. ASSUME NEW s \in Clients, NEW n \in Keys, UserCommand(s, n) PROVE SessionInv'
  <2>1. SessionTypes' BY <1>3, <1>t DEF UserCommand, SessionTypes
  <2>2. LoginShape' BY <1>3, <1>t DEF UserCommand, SessionTypes, LoginShape
  <2>3. LoginProven' BY <1>3, <1>t DEF UserCommand, LoginProven
  <2> QED BY <2>1, <2>2, <2>3 DEF SessionInv
<1>4. ASSUME NEW s \in Clients, PassBegins(s) PROVE SessionInv'
  <2>1. SessionTypes' BY <1>4, <1>t DEF PassBegins, SessionTypes, States
  <2>2. LoginShape' BY <1>4, <1>t DEF PassBegins, MayPass, SessionTypes, LoginShape
  <2>3. LoginProven' BY <1>4, <1>t DEF PassBegins, LoginProven
  <2> QED BY <2>1, <2>2, <2>3 DEF SessionInv
<1>5. ASSUME NEW s \in Clients, PassLimited(s) PROVE SessionInv'
  BY <1>5, ForgetKeeps DEF PassLimited
<1>6. ASSUME NEW s \in Clients, PassFails(s) PROVE SessionInv'
  <2>1. SessionTypes' BY <1>6, <1>t DEF PassFails, SessionTypes, States
  <2>2. LoginShape' BY <1>6, <1>t DEF PassFails, SessionTypes, LoginShape
  <2>3. LoginProven' BY <1>6, <1>t DEF PassFails, LoginProven
  <2> QED BY <2>1, <2>2, <2>3 DEF SessionInv
<1>7. ASSUME NEW s \in Clients, PassSucceeds(s) PROVE SessionInv'
  <2>0. Normal[name[s]] \in Users /\ Normal[name[s]] # Nil /\ name[s] # Nil /\ (RequireTLS => secure[s])
    BY <1>7, <1>t, SessionConstants DEF PassSucceeds, SessionTypes, LoginShape
  <2>1. account[Normal[name[s]]] \in SUBSET Perms
    BY <1>7, <1>t, <2>0 DEF PassSucceeds, SessionTypes
  <2>2. SessionTypes' BY <1>7, <1>t, <2>0, <2>1 DEF PassSucceeds, SessionTypes, States
  <2>3. LoginShape' BY <1>7, <1>t, <2>0 DEF PassSucceeds, SessionTypes, LoginShape
  <2>4. LoginProven' BY <1>7, <1>t, <2>0 DEF PassSucceeds, SessionTypes, LoginProven
  <2> QED BY <2>2, <2>3, <2>4 DEF SessionInv
<1>8. ASSUME NEW s \in Clients, AuthTLS(s) PROVE SessionInv'
  <2>1. SessionTypes' BY <1>8, <1>t DEF AuthTLS, SessionTypes
  <2>2. LoginShape' BY <1>8, <1>t DEF AuthTLS, SessionTypes, LoginShape
  <2>3. LoginProven' BY <1>8, <1>t DEF AuthTLS, SessionTypes, LoginProven
  <2> QED BY <2>1, <2>2, <2>3 DEF SessionInv
<1>9. ASSUME NEW s \in Clients, AuthTLSFails(s) PROVE SessionInv'
  BY <1>9, ForgetKeeps DEF AuthTLSFails
<1>10. ASSUME NEW s \in Clients, AccountUnavailable(s) PROVE SessionInv'
  <2>1. SessionTypes' BY <1>10, <1>t DEF AccountUnavailable, SessionTypes
  <2>2. LoginShape' BY <1>10, <1>t DEF AccountUnavailable, SessionTypes, LoginShape
  <2>3. LoginProven' BY <1>10, <1>t DEF AccountUnavailable, SessionTypes, LoginProven
  <2> QED BY <2>1, <2>2, <2>3 DEF SessionInv
<1>g. ASSUME NEW s \in Clients, Readmitted(s) PROVE account[user[s]] \in SUBSET Perms
  BY <1>g, <1>t DEF Readmitted, SessionTypes, LoginShape
<1>11. ASSUME NEW s \in Clients, NEW p \in Perms, Denied(s, p) PROVE SessionInv'
  <2>1. SessionTypes' BY <1>11, <1>t, <1>g DEF Denied, SessionTypes
  <2>2. LoginShape' BY <1>11, <1>t DEF Denied, LoginShape
  <2>3. LoginProven' BY <1>11, <1>t DEF Denied, LoginProven
  <2> QED BY <2>1, <2>2, <2>3 DEF SessionInv
<1>12. ASSUME NEW s \in Clients, NEW p \in Perms, Command(s, p) PROVE SessionInv'
  <2>0. p # "check" BY SessionConstants
  <2>1. SessionTypes' BY <1>12, <1>t, <1>g DEF Command, Admitted, SessionTypes, States
  <2>2. LoginShape' BY <1>12, <1>t, <2>0 DEF Command, SessionTypes, LoginShape
  <2>3. LoginProven' BY <1>12, <1>t DEF Command, LoginProven
  <2> QED BY <2>1, <2>2, <2>3 DEF SessionInv
<1>13. ASSUME NEW s \in Clients, Done(s) PROVE SessionInv'
  <2>1. SessionTypes' BY <1>13, <1>t DEF Done, SessionTypes, States
  <2>2. LoginShape' BY <1>13, <1>t DEF Done, SessionTypes, LoginShape
  <2>3. LoginProven' BY <1>13, <1>t DEF Done, LoginProven
  <2> QED BY <2>1, <2>2, <2>3 DEF SessionInv
<1>14. ASSUME NEW u \in Users, NEW a \in (SUBSET Perms) \cup {Nil}, EditAccount(u, a)
       PROVE  SessionInv'
  <2>1. SessionTypes' BY <1>14, <1>t DEF EditAccount, session, SessionTypes
  <2>2. LoginShape' BY <1>14, <1>t DEF EditAccount, session, LoginShape
  <2>3. LoginProven' BY <1>14, <1>t DEF EditAccount, session, LoginProven
  <2> QED BY <2>1, <2>2, <2>3 DEF SessionInv
<1>15. CASE UNCHANGED <<account, session>>
  <2>1. SessionTypes' BY <1>15, <1>t DEF session, SessionTypes
  <2>2. LoginShape' BY <1>15, <1>t DEF session, LoginShape
  <2>3. LoginProven' BY <1>15, <1>t DEF session, LoginProven
  <2> QED BY <2>1, <2>2, <2>3 DEF SessionInv
<1>16. CASE UNCHANGED vars BY <1>15, <1>16 DEF vars
<1> QED
  BY <1>1, <1>2, <1>3, <1>4, <1>5, <1>6, <1>7, <1>8, <1>9, <1>10, <1>11, <1>12,
     <1>13, <1>14, <1>15, <1>16 DEF SessionNext

\* Nobody is logged in at the start.
LEMMA SessionStarts == SessionInit => SessionInv
<1> SUFFICES ASSUME SessionInit PROVE SessionInv OBVIOUS
<1>1. SessionTypes BY DEF SessionInit, SessionTypes, States
<1>2. LoginShape BY DEF SessionInit, LoginShape
<1>3. LoginProven BY DEF SessionInit, LoginProven
<1> QED BY <1>1, <1>2, <1>3 DEF SessionInv

\* Sessions and limiter together.
LEMMA SessionInvariant == Spec => [](SessionInv /\ LimiterInv)
<1>1. SessionInit => SessionInv /\ LimiterInv
  BY SessionStarts, LimiterStarts DEF SessionInit
<1>2. SessionInv /\ LimiterInv /\ [SessionNext]_vars => (SessionInv /\ LimiterInv)'
  <2> SUFFICES ASSUME SessionInv, LimiterInv, [SessionNext]_vars
               PROVE  (SessionInv /\ LimiterInv)'
    OBVIOUS
  <2>1. SessionInv' BY SessionStep
  <2>2. [LimiterNext]_limiter BY SessionUsesLimiter DEF SessionInv
  <2>3. LimiterInv' BY <2>2, LimiterStep
  <2> QED BY <2>1, <2>3
<1> QED BY <1>1, <1>2, PTL DEF Spec

\* The sessions and the limiter keep their types.
THEOREM SessionTypesKept == Spec => []SessionTypeOK
<1>1. SessionInv /\ LimiterInv => SessionTypeOK
  BY DEF SessionInv, LimiterInv, SessionTypes, SessionTypeOK
<1> QED BY <1>1, SessionInvariant, PTL

\* A session acts only for an account whose password it gave, over TLS where TLS
\* is required.
THEOREM SessionLoginProven == Spec => []LoginProven
<1>1. SessionInv => LoginProven BY DEF SessionInv
<1> QED BY <1>1, SessionInvariant, PTL

\* The FTP sessions implement the limiter's specification.
THEOREM SessionsRespectLimiter == Spec => LimiterSpec
<1>1. SessionInit => LimiterInit BY DEF SessionInit
<1>2. SessionInv /\ [SessionNext]_vars => [LimiterNext]_limiter
  BY SessionUsesLimiter DEF SessionInv
<1> QED BY <1>1, <1>2, SessionInvariant, PTL DEF Spec, LimiterSpec

\* So FTP logins are limited as the limiter promises, however many sessions
\* send PASS at once.
THEOREM SessionFailuresBounded == Spec => []FailuresBounded
  BY SessionsRespectLimiter, LimiterFailuresBounded, PTL

\* So a lock that FTP logins meet runs its full time.
THEOREM SessionLockExact == Spec => LockExact
  BY SessionsRespectLimiter, LimiterLockExact, PTL

Starts(s) ==
  st[s] \notin Perms /\ st'[s] \in Perms =>
    account[user[s]] # Nil /\ st'[s] \in account[user[s]]

\* No operation starts without the permission the store grants at that moment.
LEMMA StartStep ==
  ASSUME SessionInv, SessionNext, NEW s \in Clients
  PROVE  Starts(s)
<1>t. st \in [Clients -> States] /\ granted \in [Clients -> SUBSET Perms]
  BY DEF SessionInv, SessionTypes
<1>p. "off" \notin Perms /\ "on" \notin Perms /\ "check" \notin Perms
  BY SessionConstants
<1>0. ASSUME NEW t \in Clients, NEW x \in {"off", "on", "check"},
             st' = [st EXCEPT ![t] = x]
      PROVE  Starts(s)
  BY <1>0, <1>t, <1>p DEF Starts
<1>u. ASSUME st' = st PROVE Starts(s) BY <1>u DEF Starts
<1>1. ASSUME NEW t \in Clients,
             \/ Connect(t) \/ Quit(t) \/ PassBegins(t) \/ PassLimited(t)
             \/ PassFails(t) \/ PassSucceeds(t) \/ AuthTLSFails(t) \/ Done(t)
      PROVE  Starts(s)
  <2>1. \E x \in {"off", "on", "check"} : st' = [st EXCEPT ![t] = x]
    BY <1>1 DEF Connect, Quit, PassBegins, PassLimited, PassFails, PassSucceeds,
                AuthTLSFails, Done, Forget
  <2> QED BY <2>1, <1>0
<1>2. ASSUME NEW t \in Clients,
             \/ \E n \in Keys : UserCommand(t, n)
             \/ AuthTLS(t) \/ AccountUnavailable(t)
             \/ \E p \in Perms : Denied(t, p)
      PROVE  Starts(s)
  BY <1>2, <1>u DEF UserCommand, AuthTLS, AccountUnavailable, Denied
<1>3. ASSUME NEW t \in Clients, NEW p \in Perms, Command(t, p) PROVE Starts(s)
  <2>1. /\ st' = [st EXCEPT ![t] = p] /\ Readmitted(t)
        /\ p \in granted'[t]
        /\ granted' = [granted EXCEPT ![t] = account[user[t]]]
    BY <1>3 DEF Command, Admitted
  <2>2. account[user[t]] # Nil /\ p \in account[user[t]]
    BY <2>1, <1>t DEF Readmitted
  <2>3. CASE s = t BY <2>1, <2>2, <2>3, <1>t DEF Starts
  <2>4. CASE s # t BY <2>1, <2>4, <1>t DEF Starts
  <2> QED BY <2>3, <2>4
<1>4. ASSUME NEW u \in Users, NEW a \in (SUBSET Perms) \cup {Nil}, EditAccount(u, a)
      PROVE  Starts(s)
  BY <1>4, <1>u DEF EditAccount, session
<1>5. CASE Tick /\ UNCHANGED <<account, session>>
  BY <1>5, <1>u DEF session
<1> QED BY <1>1, <1>2, <1>3, <1>4, <1>5 DEF SessionNext

\* A disabled, deleted or demoted account keeps no access through an existing
\* session.
THEOREM SessionRevokedStops == Spec => RevokedStops
<1>1. SessionInv /\ [SessionNext]_vars => [\A s \in Clients : Starts(s)]_vars
  BY StartStep
<1>2. [\A s \in Clients : Starts(s)]_vars =>
        [\A s \in Clients : st[s] \notin Perms /\ st'[s] \in Perms =>
           account[user[s]] # Nil /\ st'[s] \in account[user[s]]]_vars
  BY DEF Starts
<1> QED BY <1>1, <1>2, SessionInvariant, PTL DEF Spec, RevokedStops

-----------------------------------------------------------------------------
(* Passive ports: listeners and mappings are never leaked, for any number of
   sessions and ports. *)

\* A session has a port in exactly the steps that are about one, and one that
\* gives up has unmapped its port while nobody else could listen on it.
PortShape ==
  \A s \in Sessions :
    /\ pc[s] \in {"unmap", "map", "accept", "giveup", "transfer"} => port[s] # NoPort
    /\ pc[s] = "listen" => port[s] = NoPort
    /\ pc[s] = "giveup" /\ port[s] \in mapped => port[s] \in orphans

\* The inductive invariant: ListenersReclaimed and MappingsReleased need to know
\* which port the session's next step is about.
PassiveInv ==
  /\ TypeOK
  /\ PortShape
  /\ ListenersReclaimed
  /\ MappingsReleased

\* Port numbers wrap around within Ports.
LEMMA PortFacts ==
  /\ NoPort \notin Ports
  /\ \A q \in Ports : (q + 1) % N \in Ports
  /\ 0 \in Ports
BY PassiveConstants DEF Ports, NoPort

\* Initially no port is bound or mapped.
LEMMA PassiveInit == Init => PassiveInv
BY PortFacts, PassiveConstants
DEF Init, PassiveInv, TypeOK, PortShape, ListenersReclaimed, MappingsReleased, Steps, Listening

\* Every step keeps the types.
LEMMA PassiveTypes ==
  ASSUME PassiveInv, [Next]_passive
  PROVE  TypeOK'
<1> USE PortFacts, PassiveConstants DEF PassiveInv, TypeOK, PortShape, Steps, Goto
<1>1. CASE UNCHANGED passive
  BY <1>1 DEF passive
<1>2. ASSUME NEW s \in Sessions, NEW step \in {"idle", "listen"}, ClosePassive(s, step)
      PROVE  TypeOK'
  BY <1>2 DEF ClosePassive
<1>3. ASSUME NEW s \in Sessions,
             EnterActive(s) \/ CloseDataSetup(s) \/ Close(s) \/ EnterPassive(s)
      PROVE  TypeOK'
  BY <1>2, <1>3 DEF EnterActive, CloseDataSetup, Close, EnterPassive
<1>4. ASSUME NEW s \in Sessions, Unmap(s) \/ AcceptFails(s)
      PROVE  TypeOK'
  BY <1>4 DEF Unmap, AcceptFails, Unmapped
<1>5. ASSUME NEW s \in Sessions, ListenPassive(s) \/ NoPassivePort(s) \/ MapPassivePort(s)
      PROVE  TypeOK'
  BY <1>5 DEF ListenPassive, NoPassivePort, MapPassivePort
<1>6. ASSUME NEW s \in Sessions, OpenData(s) \/ Accept(s) \/ CloseListener(s) \/ EndTransfer(s)
      PROVE  TypeOK'
  BY <1>6 DEF OpenData, Accept, CloseListener, EndTransfer
<1>7. ASSUME NEW s \in Sessions, HandshakeFails(s)
      PROVE  TypeOK'
  BY <1>7 DEF HandshakeFails
<1>. QED
  BY <1>1, <1>3, <1>4, <1>5, <1>6, <1>7 DEF Next

\* Every step keeps the rest of the invariant.
LEMMA PassiveStep ==
  ASSUME PassiveInv, [Next]_passive
  PROVE  PortShape' /\ ListenersReclaimed' /\ MappingsReleased'
<1> DEFINE Goal == PortShape' /\ ListenersReclaimed' /\ MappingsReleased'
<1> USE PortFacts, PassiveConstants
    DEF PassiveInv, TypeOK, PortShape, ListenersReclaimed, MappingsReleased, Listening, Steps, Goto
<1>1. CASE UNCHANGED passive
  BY <1>1 DEF passive
<1>2. ASSUME NEW s \in Sessions, NEW step \in {"idle", "listen"}, ClosePassive(s, step)
      PROVE  Goal
  BY <1>2 DEF ClosePassive
<1>3. ASSUME NEW s \in Sessions,
             EnterActive(s) \/ CloseDataSetup(s) \/ Close(s) \/ EnterPassive(s)
      PROVE  Goal
  BY <1>2, <1>3 DEF EnterActive, CloseDataSetup, Close, EnterPassive
<1>4. ASSUME NEW s \in Sessions, Unmap(s)
      PROVE  Goal
  BY <1>4 DEF Unmap, Unmapped
<1>5. ASSUME NEW s \in Sessions, AcceptFails(s)
      PROVE  Goal
  BY <1>5 DEF AcceptFails, Unmapped
<1>6. ASSUME NEW s \in Sessions, ListenPassive(s)
      PROVE  Goal
  BY <1>6 DEF ListenPassive, FreePort
<1>7. ASSUME NEW s \in Sessions, NoPassivePort(s)
      PROVE  Goal
  BY <1>7 DEF NoPassivePort
<1>8. ASSUME NEW s \in Sessions, MapPassivePort(s)
      PROVE  Goal
  BY <1>8 DEF MapPassivePort
<1>9. ASSUME NEW s \in Sessions, OpenData(s) \/ Accept(s)
      PROVE  Goal
  BY <1>9 DEF OpenData, Accept
<1>10. ASSUME NEW s \in Sessions, CloseListener(s)
      PROVE  Goal
  BY <1>10 DEF CloseListener
<1>11. ASSUME NEW s \in Sessions, EndTransfer(s)
      PROVE  Goal
  BY <1>11 DEF EndTransfer
<1>12. ASSUME NEW s \in Sessions, HandshakeFails(s)
      PROVE  Goal
  BY <1>12 DEF HandshakeFails
<1>. QED
  BY <1>1, <1>3, <1>4, <1>5, <1>6, <1>7, <1>8, <1>9, <1>10, <1>11, <1>12 DEF Next

\* The invariant holds for ever.
LEMMA PassiveInvariant == PassiveSpec => []PassiveInv
<1>1. PassiveInv /\ [Next]_passive => PassiveInv'
  BY PassiveTypes, PassiveStep DEF PassiveInv
<1>. QED
  BY PassiveInit, <1>1, PTL DEF PassiveSpec

\* No command, failure or panic leaves a passive listener open without a session
\* that will use or close it (closePassive, openData).
THEOREM PassiveListenersReclaimed == PassiveSpec => []ListenersReclaimed
<1>1. PassiveInv => ListenersReclaimed
  BY DEF PassiveInv
<1>. QED
  BY PassiveInvariant, <1>1, PTL

\* No mapping outlives the session that asked for it, unless the router or the
\* process fails (mapPassivePort, unmapPassivePort, passiveDataConn.Close).
THEOREM PassiveMappingsReleased == PassiveSpec => []MappingsReleased
<1>1. PassiveInv => MappingsReleased
  BY DEF PassiveInv
<1>. QED
  BY PassiveInvariant, <1>1, PTL

\* The cursor of the port range, the listeners and the mappings stay of their
\* types: the cursor wraps within the range (listenPassive).
THEOREM PassiveTypesKept == PassiveSpec => []TypeOK
<1>1. PassiveInv => TypeOK
  BY DEF PassiveInv
<1>. QED
  BY PassiveInvariant, <1>1, PTL
=============================================================================
