------------------------- MODULE LoginLimiterProofs -------------------------
(***************************************************************************)
(* Proofs about LoginLimiter for every set of addresses, every number of   *)
(* logins in flight and every threshold and duration.                      *)
(*                                                                         *)
(* GuessesBounded is not inductive: nothing in it says what an entry still *)
(* counts.  Remembered divides the failed checks of an address into those  *)
(* its entry counts and those it has forgotten, and says that what is      *)
(* forgotten is too far away to share a period with anything that is       *)
(* counted now or fails later; Locking ties the lock to the count.         *)
(***************************************************************************)
EXTENDS LoginLimiter, FiniteSetTheorems, SequenceTheorems, TLAPS

Entry == [failures : Nat, lastFail : Ticks \cup {Never},
          lockedUntil : 0..MaxClock + LockDur \cup {Never}]

Bound == MaxFail - 1 + Cardinality(Logins)

(* No period that a failure at o is in reaches u, a later tick.            *)
Apart(o, u) == o + LockDur <= u \/ o + IdleTTL < u

(* From the threshold on the entry is locked, counting from its last       *)
(* failure, and below it is not.                                           *)
Locking(e, now) ==
  /\ e.failures >= MaxFail <=> e.lockedUntil # Never
  /\ e.lockedUntil # Never => e.lockedUntil = e.lastFail + LockDur
  /\ e.lastFail <= now

(* The last e.failures of the failed checks m are those the entry counts.  *)
Remembered(e, m, now) ==
  /\ e.failures <= Len(m)
  /\ \A i \in 1..Len(m) : m[i] <= now
  /\ \A i \in 1..Len(m) - e.failures :
       /\ Apart(m[i], now)
       /\ \A j \in Len(m) - e.failures + 1..Len(m) : Apart(m[i], m[j])
  /\ \A j \in Len(m) - e.failures + 1..Len(m) : m[j] <= e.lastFail

Hits(m, t) == {i \in 1..Len(m) : m[i] \in Period(t)}
FewHits(m) == \A t \in Ticks : Cardinality(Hits(m, t)) <= Bound

Guarded ==
  \A a \in Addrs : /\ Locking(entries[a], clock)
                   /\ Remembered(entries[a], misses[a], clock)
                   /\ FewHits(misses[a])
-----------------------------------------------------------------------------
(* Logins in flight are few, and entering and leaving changes one count.   *)
LEMMA InFlightCount ==
  ASSUME NEW a
  PROVE  /\ IsFiniteSet(InFlight(a))
         /\ Cardinality(InFlight(a)) \in Nat
         /\ Cardinality(InFlight(a)) <= Cardinality(Logins)
         /\ Cardinality(Logins) \in Nat /\ Bound \in Nat
<1>1. InFlight(a) \in SUBSET Logins /\ IsFiniteSet(Logins)
  BY LoginAssumption DEF InFlight
<1>2. IsFiniteSet(InFlight(a)) /\ Cardinality(InFlight(a)) <= Cardinality(Logins)
  BY <1>1, FS_Subset
<1>3. Cardinality(InFlight(a)) \in Nat /\ Cardinality(Logins) \in Nat
  BY <1>1, <1>2, FS_CardinalityType
<1>. QED BY <1>2, <1>3, LoginAssumption DEF Bound

LEMMA Leaving ==
  ASSUME TypeOK, NEW c \in Logins, checking[c] # NoAddr,
         checking' = [checking EXCEPT ![c] = NoAddr], NEW a \in Addrs
  PROVE  Cardinality(InFlight(a)') = IF a = checking[c] THEN Cardinality(InFlight(a)) - 1
                                                        ELSE Cardinality(InFlight(a))
<1>1. InFlight(a)' = InFlight(a) \ {c} /\ (c \in InFlight(a) <=> a = checking[c])
  BY LoginAssumption DEF InFlight, TypeOK
<1>2. IsFiniteSet(InFlight(a))
  BY InFlightCount
<1>. QED BY <1>1, <1>2, FS_RemoveElement
-----------------------------------------------------------------------------
(* What the operations on an entry preserve.                               *)

LEMMA Places ==
  ASSUME NEW m \in Seq(Ticks)
  PROVE  Len(m) \in Nat /\ \A i \in 1..Len(m) : m[i] \in Nat
<1>1. Len(m) \in Nat /\ \A i \in 1..Len(m) : m[i] \in Ticks
  BY LenProperties
<1>. QED BY <1>1 DEF Ticks

LEMMA AppendedAt ==
  ASSUME NEW m \in Seq(Ticks), NEW u \in Ticks
  PROVE  /\ Append(m, u) \in Seq(Ticks) /\ Len(Append(m, u)) = Len(m) + 1
         /\ \A i \in 1..Len(m) : Append(m, u)[i] = m[i]
         /\ Append(m, u)[Len(m) + 1] = u
         /\ Len(m) \in Nat /\ \A i \in 1..Len(m) : m[i] \in Nat
  BY AppendProperties, Places

(* An entry may be forgotten once what it counts is too long ago.          *)
LEMMA ForgetKeeps ==
  ASSUME NEW e \in Entry, NEW m \in Seq(Ticks), NEW now \in Nat, Remembered(e, m, now),
         e.failures > 0 => e.lastFail + LockDur <= now \/ e.lastFail + IdleTTL < now
  PROVE  Remembered(NoEntry, m, now)
<1>1. Len(m) \in Nat /\ \A i \in 1..Len(m) : m[i] \in Nat
  BY Places
<1>2. e.failures \in Nat /\ e.failures <= Len(m) /\ e.lastFail \in Int
  BY DEF Entry, Ticks, Never, Remembered
<1>3. ASSUME NEW i \in 1..Len(m) PROVE Apart(m[i], now)
  <2>1. CASE i \in 1..Len(m) - e.failures
    BY <2>1 DEF Remembered
  <2>2. CASE i \in Len(m) - e.failures + 1..Len(m)
    <3>1. m[i] <= e.lastFail /\ m[i] \in Nat
      BY <1>1, <2>2 DEF Remembered
    <3>2. e.failures > 0
      BY <1>1, <1>2, <2>2
    <3>. QED BY <1>2, <3>1, <3>2, LoginAssumption DEF Apart
  <2>. QED BY <1>1, <1>2, <2>1, <2>2
<1>4. NoEntry.failures = 0 /\ Len(m) - 0 = Len(m) /\ Len(m) - 0 + 1..Len(m) = {}
  BY <1>1 DEF NoEntry
<1>. QED BY <1>1, <1>3, <1>4 DEF Remembered

LEMMA TickKeeps ==
  ASSUME NEW e \in Entry, NEW m \in Seq(Ticks), NEW now \in Nat,
         Locking(e, now), Remembered(e, m, now)
  PROVE  Locking(e, now + 1) /\ Remembered(e, m, now + 1)
<1>1. Len(m) \in Nat /\ \A i \in 1..Len(m) : m[i] \in Nat
  BY Places
<1>2. e.failures \in Nat /\ e.lastFail \in Int
  BY DEF Entry, Ticks, Never
<1>3. \A i \in 1..Len(m) - e.failures : i \in 1..Len(m)
  BY <1>1, <1>2
<1>4. \A i \in 1..Len(m) : Apart(m[i], now) => Apart(m[i], now + 1)
  BY <1>1, LoginAssumption DEF Apart
<1>. QED BY <1>1, <1>2, <1>3, <1>4 DEF Locking, Remembered

LEMMA FailKeeps ==
  ASSUME NEW e \in Entry, NEW m \in Seq(Ticks), clock \in Ticks,
         Locking(e, clock), Remembered(e, m, clock)
  PROVE  Locking(Failed(e), clock) /\ Remembered(Failed(e), Append(m, clock), clock)
<1>. DEFINE n == Len(m)
            old == n - e.failures
            u == Append(m, clock)
<1>1. /\ Len(u) = n + 1 /\ \A i \in 1..n : u[i] = m[i]
      /\ u[n + 1] = clock /\ n \in Nat /\ \A i \in 1..n : m[i] \in Nat
  BY AppendedAt
<1>2. e.failures \in Nat /\ e.failures <= n /\ e.lastFail \in Int /\ clock \in Nat
  BY DEF Entry, Ticks, Never, Remembered
<1>3. /\ Failed(e).failures = e.failures + 1 /\ Failed(e).lastFail = clock
      /\ Failed(e).lockedUntil = IF e.failures + 1 >= MaxFail THEN clock + LockDur
                                                             ELSE e.lockedUntil
  BY DEF Failed
<1>4. Locking(Failed(e), clock)
  BY <1>2, <1>3, LoginAssumption DEF Locking, Never
<1>. HIDE DEF u
<1>5. Len(u) - Failed(e).failures = old /\ old \in Nat /\ old <= n
  <2>1. Len(u) = n + 1 /\ n \in Nat
    BY <1>1
  <2>2. Failed(e).failures = e.failures + 1
    BY <1>3
  <2>. QED BY <1>2, <2>1, <2>2
<1>6. \A i \in 1..n + 1 : u[i] <= clock
  <2>1. \A i \in 1..n : m[i] <= clock
    BY DEF Remembered
  <2>. QED BY <1>1, <1>2, <2>1
<1>7. ASSUME NEW i \in 1..old
      PROVE  /\ Apart(u[i], clock)
             /\ \A j \in old + 1..n + 1 : Apart(u[i], u[j])
  <2>1. i \in 1..n /\ u[i] = m[i] /\ Apart(m[i], clock)
          /\ \A j \in old + 1..n : Apart(m[i], m[j])
    BY <1>1, <1>5, <1>7 DEF Remembered
  <2>2. \A j \in old + 1..n + 1 : \/ j \in old + 1..n /\ u[j] = m[j]
                                  \/ u[j] = clock
    BY <1>1, <1>5
  <2>. QED BY <2>1, <2>2
<1>8. \A j \in old + 1..n + 1 : u[j] <= clock
  BY <1>1, <1>5, <1>6
<1>. DEFINE e2 == Failed(e)
<1>9. /\ e2.failures <= Len(u) /\ Len(u) = n + 1 /\ e2.lastFail = clock
      /\ Len(u) - e2.failures = old
  <2>1. Len(u) = n + 1 /\ n \in Nat
    BY <1>1
  <2>2. e2.failures = e.failures + 1 /\ e2.lastFail = clock
    BY <1>3
  <2>. QED BY <1>2, <1>5, <2>1, <2>2
<1>. HIDE DEF e2
<1>10. Remembered(e2, u, clock)
  BY <1>6, <1>7, <1>8, <1>9 DEF Remembered
<1>. QED BY <1>4, <1>10 DEF e2, u

(* One more failed check, counted by an entry that allows for it.          *)
LEMMA FailStaysFew ==
  ASSUME NEW e \in Entry, NEW m \in Seq(Ticks), clock \in Ticks,
         Remembered(e, m, clock), FewHits(m), e.failures + 1 <= Bound
  PROVE  FewHits(Append(m, clock))
<1>. DEFINE n == Len(m)
            old == n - e.failures
            u == Append(m, clock)
<1>1. /\ Len(u) = n + 1 /\ \A i \in 1..n : u[i] = m[i]
      /\ u[n + 1] = clock /\ n \in Nat /\ \A i \in 1..n : m[i] \in Nat
  BY AppendedAt
<1>2. e.failures \in Nat /\ e.failures <= n /\ clock \in Nat /\ old \in Nat
  BY <1>1 DEF Entry, Ticks, Remembered
<1>. HIDE DEF u
<1>3. ASSUME NEW t \in Ticks, clock \notin Period(t) PROVE Cardinality(Hits(u, t)) <= Bound
  <2>1. Hits(u, t) = Hits(m, t)
    BY <1>1, <1>3 DEF Hits
  <2>. QED BY <2>1 DEF FewHits
<1>4. ASSUME NEW t \in Ticks, clock \in Period(t) PROVE Cardinality(Hits(u, t)) <= Bound
  <2>1. ASSUME NEW i \in Hits(u, t) PROVE i \in old + 1..n + 1
    <3>1. i \in 1..n + 1 /\ u[i] \in Period(t)
      BY <1>1 DEF Hits
    <3>2. ASSUME i \in 1..old PROVE FALSE
      <4>1. i \in 1..n /\ u[i] = m[i] /\ m[i] \in Nat
        BY <1>1, <1>2, <3>2
      <4>2. Apart(m[i], clock)
        BY <3>2 DEF Remembered
      <4>3. t <= m[i] /\ clock < t + LockDur /\ clock <= t + IdleTTL /\ t \in Nat
        BY <1>4, <3>1, <4>1 DEF Period, Ticks
      <4>. QED BY <1>2, <4>1, <4>2, <4>3, LoginAssumption DEF Apart
    <3>. QED BY <1>1, <1>2, <3>1, <3>2
  <2>2. /\ IsFiniteSet(old + 1..n + 1)
        /\ Cardinality(old + 1..n + 1) = e.failures + 1
    <3>1. old + 1 \in Int /\ n + 1 \in Int /\ ~(old + 1 > n + 1)
            /\ (n + 1) - (old + 1) + 1 = e.failures + 1
      BY <1>1, <1>2
    <3>. HIDE DEF old, n
    <3>. QED BY <3>1, FS_Interval
  <2>3. /\ IsFiniteSet(Hits(u, t))
        /\ Cardinality(Hits(u, t)) <= Cardinality(old + 1..n + 1)
    <3>1. Hits(u, t) \in SUBSET (old + 1..n + 1)
      BY <2>1
    <3>. QED BY <2>2, <3>1, FS_Subset
  <2>4. Cardinality(Hits(u, t)) \in Nat /\ Bound \in Nat
    BY <2>3, FS_CardinalityType, InFlightCount
  <2>. QED BY <1>2, <2>2, <2>3, <2>4
<1>. QED BY <1>3, <1>4 DEF FewHits, u

(* An address without a failed check, and without an entry.                *)
LEMMA Fresh ==
  ASSUME NEW now \in Nat
  PROVE  /\ NoEntry \in Entry /\ Locking(NoEntry, now)
         /\ Remembered(NoEntry, <<>>, now) /\ FewHits(<<>>)
<1>1. NoEntry \in Entry
  BY DEF NoEntry, Entry, Never
<1>2. Locking(NoEntry, now)
  BY LoginAssumption DEF NoEntry, Locking, Never
<1>3. Remembered(NoEntry, <<>>, now)
  BY DEF NoEntry, Remembered
<1>4. FewHits(<<>>)
  <2>1. \A t \in Ticks : Hits(<<>>, t) = {}
    BY DEF Hits
  <2>. QED BY <2>1, FS_EmptySet, InFlightCount DEF FewHits
<1>. QED BY <1>1, <1>2, <1>3, <1>4
-----------------------------------------------------------------------------
(* The inductive invariant, one operation at a time.                       *)
IInv == TypeOK /\ Guarded

LEMMA EntryTypes ==
  ASSUME TypeOK, NEW a \in Addrs
  PROVE  /\ entries[a] \in Entry /\ misses[a] \in Seq(Ticks) /\ clock \in Ticks /\ clock \in Nat
         /\ entries[a].failures \in Nat /\ entries[a].lastFail \in Int
         /\ entries[a].lockedUntil \in Int
         /\ entries[a].failures + Cardinality(InFlight(a)) <= Bound
  BY LoginAssumption DEF TypeOK, Entry, Ticks, Never, Bound

LEMMA InitInv == Init => IInv
<1>. SUFFICES ASSUME Init PROVE IInv
  OBVIOUS
<1>1. ASSUME NEW a \in Addrs PROVE InFlight(a) = {}
  BY LoginAssumption DEF Init, InFlight
<1>2. clock \in Ticks /\ clock \in Nat
  BY LoginAssumption DEF Init, Ticks
<1>3. ASSUME NEW a \in Addrs
      PROVE  entries[a].failures + Cardinality(InFlight(a)) <= MaxFail - 1 + Cardinality(Logins)
  BY <1>1, <1>3, FS_EmptySet, InFlightCount, LoginAssumption DEF Init, NoEntry, Bound
<1>4. entries \in [Addrs -> Entry]
  BY Fresh, <1>2 DEF Init
<1>5. misses \in [Addrs -> Seq(Ticks)] /\ checking \in [Logins -> Addrs \cup {NoAddr}]
  BY DEF Init
<1>6. Guarded
  BY <1>2, Fresh DEF Init, Guarded
<1>. QED BY <1>2, <1>3, <1>4, <1>5, <1>6 DEF IInv, TypeOK, Entry

LEMMA BeginInv ==
  ASSUME IInv, NEW c \in Logins, NEW a \in Addrs, Begin(c, a)
  PROVE  IInv'
<1>0. TypeOK /\ Guarded /\ clock' = clock /\ misses' = misses
  BY DEF IInv, Begin
<1>1. /\ entries[a] \in Entry /\ misses[a] \in Seq(Ticks) /\ clock \in Nat /\ clock \in Ticks
      /\ entries[a].lockedUntil \in Int /\ entries[a].lastFail \in Int
      /\ entries[a].failures \in Nat
  BY <1>0, EntryTypes
<1>2. Locking(entries[a], clock) /\ Remembered(entries[a], misses[a], clock)
  BY <1>0 DEF Guarded
<1>3. entries' = [entries EXCEPT ![a] = Allowed(entries[a])]
  BY DEF Begin
<1>4. /\ Allowed(entries[a]) \in Entry /\ Allowed(entries[a]).failures <= MaxFail - 1
      /\ Locking(Allowed(entries[a]), clock) /\ Remembered(Allowed(entries[a]), misses[a], clock)
  <2>1. CASE entries[a].lockedUntil = Never
    <3>1. Allowed(entries[a]) = entries[a]
      BY <2>1 DEF Allowed
    <3>2. ~(entries[a].failures >= MaxFail)
      BY <1>2, <2>1 DEF Locking
    <3>. QED BY <1>1, <1>2, <3>1, <3>2, LoginAssumption
  <2>2. CASE entries[a].lockedUntil # Never
    <3>1. Allowed(entries[a]) = NoEntry /\ NoEntry.failures = 0
      BY <2>2 DEF Allowed, NoEntry
    <3>2. entries[a].lastFail + LockDur <= clock
      BY <1>1, <1>2, <2>2, LoginAssumption DEF Begin, Locked, Locking
    <3>3. Remembered(NoEntry, misses[a], clock)
      BY <1>1, <1>2, <3>2, ForgetKeeps
    <3>. QED BY <1>1, <3>1, <3>3, Fresh, LoginAssumption
  <2>. QED BY <2>1, <2>2
<1>5. /\ entries' \in [Addrs -> Entry]
      /\ \A b \in Addrs : entries'[b] = IF b = a THEN Allowed(entries[a]) ELSE entries[b]
  BY <1>0, <1>3, <1>4 DEF TypeOK, Entry
<1>6. checking' \in [Logins -> Addrs \cup {NoAddr}]
  BY <1>0 DEF Begin, TypeOK
<1>7. ASSUME NEW b \in Addrs
      PROVE  entries'[b].failures + Cardinality(InFlight(b)') <= Bound
  <2>1. CASE b = a
    <3>1. Cardinality(InFlight(b)') \in Nat /\ Cardinality(InFlight(b)') <= Cardinality(Logins)
            /\ Cardinality(Logins) \in Nat
      <4>1. InFlight(b)' \in SUBSET Logins
        BY DEF InFlight
      <4>2. IsFiniteSet(InFlight(b)') /\ Cardinality(InFlight(b)') <= Cardinality(Logins)
        BY <4>1, FS_Subset, LoginAssumption
      <4>. QED BY <4>2, FS_CardinalityType, LoginAssumption
    <3>2. entries'[b].failures \in Nat /\ entries'[b].failures <= MaxFail - 1
      BY <1>4, <1>5, <2>1 DEF Entry
    <3>. QED BY <3>1, <3>2, LoginAssumption DEF Bound
  <2>2. CASE b # a
    <3>1. InFlight(b)' = InFlight(b)
      BY <1>0, <2>2, LoginAssumption DEF Begin, InFlight, TypeOK
    <3>. QED BY <1>0, <1>5, <2>2, <3>1, EntryTypes
  <2>. QED BY <2>1, <2>2
<1>8. TypeOK'
  BY <1>0, <1>5, <1>6, <1>7 DEF TypeOK, Entry, Bound
<1>9. Guarded'
  BY <1>0, <1>4, <1>5 DEF Guarded
<1>. QED BY <1>8, <1>9 DEF IInv

LEMMA FailInv ==
  ASSUME IInv, NEW c \in Logins, Fail(c)
  PROVE  IInv'
<1>. SUFFICES ASSUME NEW a \in Addrs, a = checking[c] PROVE IInv'
  BY DEF Fail, IInv, TypeOK
<1>0. TypeOK /\ Guarded /\ clock' = clock
  BY DEF IInv, Fail
<1>1. /\ entries[a] \in Entry /\ misses[a] \in Seq(Ticks) /\ clock \in Nat /\ clock \in Ticks
      /\ entries[a].failures \in Nat
      /\ entries[a].failures + Cardinality(InFlight(a)) <= Bound
  BY <1>0, EntryTypes
<1>2. /\ Locking(entries[a], clock) /\ Remembered(entries[a], misses[a], clock)
      /\ FewHits(misses[a])
  BY <1>0 DEF Guarded
<1>3. /\ checking[c] # NoAddr /\ checking' = [checking EXCEPT ![c] = NoAddr]
      /\ entries' = [entries EXCEPT ![a] = Failed(entries[a])]
      /\ misses' = [misses EXCEPT ![a] = Append(misses[a], clock)]
  BY LoginAssumption DEF Fail
<1>4. Cardinality(InFlight(a)) \in Nat /\ Cardinality(InFlight(a)) >= 1 /\ Bound \in Nat
  <2>1. c \in InFlight(a)
    BY DEF InFlight
  <2>2. IsFiniteSet(InFlight(a)) /\ Cardinality(InFlight(a)) \in Nat /\ Bound \in Nat
    BY InFlightCount
  <2>3. Cardinality(InFlight(a)) # 0
    BY <2>1, <2>2, FS_EmptySet
  <2>. QED BY <2>2, <2>3
<1>5. entries[a].failures + 1 <= Bound
  BY <1>1, <1>4
<1>6. Failed(entries[a]) \in Entry
  BY <1>1, LoginAssumption DEF Failed, Entry, Ticks
<1>7. /\ Locking(Failed(entries[a]), clock)
      /\ Remembered(Failed(entries[a]), Append(misses[a], clock), clock)
      /\ FewHits(Append(misses[a], clock))
  BY <1>1, <1>2, <1>5, FailKeeps, FailStaysFew
<1>8. Append(misses[a], clock) \in Seq(Ticks)
  BY <1>1, AppendedAt
<1>9. /\ entries' \in [Addrs -> Entry] /\ misses' \in [Addrs -> Seq(Ticks)]
      /\ checking' \in [Logins -> Addrs \cup {NoAddr}]
      /\ \A b \in Addrs : /\ entries'[b] = IF b = a THEN Failed(entries[a]) ELSE entries[b]
                          /\ misses'[b] = IF b = a THEN Append(misses[a], clock) ELSE misses[b]
  BY <1>0, <1>3, <1>6, <1>8 DEF TypeOK, Entry
<1>10. ASSUME NEW b \in Addrs
       PROVE  entries'[b].failures + Cardinality(InFlight(b)') <= Bound
  <2>1. Cardinality(InFlight(b)') = IF b = a THEN Cardinality(InFlight(b)) - 1
                                             ELSE Cardinality(InFlight(b))
    BY <1>0, <1>3, Leaving
  <2>2. Failed(entries[a]).failures = entries[a].failures + 1
    BY DEF Failed
  <2>3. entries[b].failures + Cardinality(InFlight(b)) <= Bound
    BY <1>0, EntryTypes
  <2>. QED BY <1>1, <1>4, <1>9, <2>1, <2>2, <2>3
<1>11. TypeOK'
  BY <1>0, <1>9, <1>10 DEF TypeOK, Entry, Bound
<1>12. Guarded'
  BY <1>0, <1>7, <1>9 DEF Guarded
<1>. QED BY <1>11, <1>12 DEF IInv

(* A login that ends without a failed check.                               *)
LEMMA LeaveInv ==
  ASSUME IInv, NEW c \in Logins, Abandon(c) \/ Succeed(c)
  PROVE  IInv'
<1>0. TypeOK /\ Guarded /\ clock' = clock /\ clock \in Nat
  BY DEF IInv, Abandon, Succeed, TypeOK, Ticks
<1>1. /\ checking[c] # NoAddr /\ checking' = [checking EXCEPT ![c] = NoAddr]
      /\ \A b \in Addrs : \/ entries'[b] = entries[b] /\ misses'[b] = misses[b]
                          \/ entries'[b] = NoEntry /\ misses'[b] = <<>>
      /\ DOMAIN entries' = Addrs /\ DOMAIN misses' = Addrs
      /\ entries' = [b \in Addrs |-> entries'[b]] /\ misses' = [b \in Addrs |-> misses'[b]]
  BY <1>0 DEF Abandon, Succeed, TypeOK
<1>2. ASSUME NEW b \in Addrs
      PROVE  /\ entries'[b] \in Entry /\ misses'[b] \in Seq(Ticks)
             /\ Locking(entries'[b], clock) /\ Remembered(entries'[b], misses'[b], clock)
             /\ FewHits(misses'[b])
             /\ entries'[b].failures \in Nat /\ entries'[b].failures <= entries[b].failures
  <2>1. CASE entries'[b] = entries[b] /\ misses'[b] = misses[b]
    BY <1>0, <2>1, EntryTypes DEF Guarded
  <2>2. CASE entries'[b] = NoEntry /\ misses'[b] = <<>>
    <3>1. entries[b].failures \in Nat /\ NoEntry.failures = 0 /\ <<>> \in Seq(Ticks)
      BY <1>0, EntryTypes DEF NoEntry
    <3>. QED BY <1>0, <2>2, <3>1, Fresh
  <2>. QED BY <1>1, <2>1, <2>2
<1>3. ASSUME NEW b \in Addrs
      PROVE  entries'[b].failures + Cardinality(InFlight(b)') <= Bound
  <2>1. /\ Cardinality(InFlight(b)') = IF b = checking[c] THEN Cardinality(InFlight(b)) - 1
                                                          ELSE Cardinality(InFlight(b))
        /\ Cardinality(InFlight(b)) \in Nat /\ Bound \in Nat
    BY <1>0, <1>1, Leaving, InFlightCount
  <2>2. entries[b].failures + Cardinality(InFlight(b)) <= Bound /\ entries[b].failures \in Nat
    BY <1>0, EntryTypes
  <2>. QED BY <1>2, <2>1, <2>2
<1>4. entries' \in [Addrs -> Entry] /\ misses' \in [Addrs -> Seq(Ticks)]
  BY <1>1, <1>2
<1>5. checking' \in [Logins -> Addrs \cup {NoAddr}]
  BY <1>0, <1>1 DEF TypeOK
<1>6. TypeOK'
  BY <1>0, <1>3, <1>4, <1>5 DEF TypeOK, Entry, Bound
<1>7. Guarded'
  BY <1>0, <1>2 DEF Guarded
<1>. QED BY <1>6, <1>7 DEF IInv

LEMMA CleanupInv ==
  ASSUME IInv, Cleanup
  PROVE  IInv'
<1>0. /\ TypeOK /\ Guarded /\ UNCHANGED <<clock, checking, misses>> /\ clock \in Nat
      /\ entries' = [a \in Addrs |-> IF Stale(entries[a]) THEN NoEntry ELSE entries[a]]
  BY DEF IInv, Cleanup, TypeOK, Ticks
<1>1. ASSUME NEW b \in Addrs
      PROVE  /\ entries'[b] \in Entry
             /\ Locking(entries'[b], clock) /\ Remembered(entries'[b], misses[b], clock)
             /\ entries'[b].failures \in Nat /\ entries'[b].failures <= entries[b].failures
  <2>0. /\ entries[b] \in Entry /\ misses[b] \in Seq(Ticks)
        /\ entries[b].failures \in Nat /\ entries[b].lastFail \in Int
        /\ Locking(entries[b], clock) /\ Remembered(entries[b], misses[b], clock)
    BY <1>0, EntryTypes DEF Guarded
  <2>1. CASE ~Stale(entries[b])
    BY <1>0, <2>0, <2>1
  <2>2. CASE Stale(entries[b])
    <3>1. entries[b].lastFail + IdleTTL < clock
      BY <1>0, <2>0, <2>2, LoginAssumption DEF Stale
    <3>2. Remembered(NoEntry, misses[b], clock)
      BY <1>0, <2>0, <3>1, ForgetKeeps
    <3>3. entries'[b] = NoEntry /\ NoEntry.failures = 0
      BY <1>0, <2>2 DEF NoEntry
    <3>. QED BY <1>0, <2>0, <3>2, <3>3, Fresh
  <2>. QED BY <2>1, <2>2
<1>2. ASSUME NEW b \in Addrs
      PROVE  entries'[b].failures + Cardinality(InFlight(b)') <= Bound
  <2>1. InFlight(b)' = InFlight(b) /\ Cardinality(InFlight(b)) \in Nat /\ Bound \in Nat
    BY <1>0, InFlightCount DEF InFlight
  <2>2. entries[b].failures + Cardinality(InFlight(b)) <= Bound /\ entries[b].failures \in Nat
    BY <1>0, EntryTypes
  <2>. QED BY <1>1, <2>1, <2>2
<1>3. entries' \in [Addrs -> Entry]
  BY <1>0, <1>1
<1>4. TypeOK'
  BY <1>0, <1>2, <1>3 DEF TypeOK, Entry, Bound
<1>5. Guarded'
  BY <1>0, <1>1 DEF Guarded
<1>. QED BY <1>4, <1>5 DEF IInv

LEMMA TickInv ==
  ASSUME IInv, Tick
  PROVE  IInv'
<1>0. /\ TypeOK /\ Guarded /\ UNCHANGED <<entries, checking, misses>> /\ clock \in Nat
      /\ clock' = clock + 1 /\ clock' \in Ticks
  BY LoginAssumption DEF IInv, Tick, TypeOK, Ticks
<1>1. ASSUME NEW b \in Addrs
      PROVE  /\ Locking(entries[b], clock + 1) /\ Remembered(entries[b], misses[b], clock + 1)
             /\ FewHits(misses[b])
  BY <1>0, EntryTypes, TickKeeps DEF Guarded
<1>2. Guarded'
  BY <1>0, <1>1 DEF Guarded
<1>3. \A b \in Addrs : InFlight(b)' = InFlight(b)
  BY <1>0 DEF InFlight
<1>4. TypeOK'
  BY <1>0, <1>3 DEF TypeOK
<1>. QED BY <1>2, <1>4 DEF IInv

LEMMA RestartInv ==
  ASSUME IInv, Restart
  PROVE  IInv'
<1>0. /\ clock' = clock /\ clock \in Nat /\ clock \in Ticks
      /\ entries' = [a \in Addrs |-> NoEntry] /\ misses' = [a \in Addrs |-> <<>>]
      /\ checking' = [c \in Logins |-> NoAddr]
  BY DEF IInv, Restart, TypeOK, Ticks
<1>1. Guarded'
  BY <1>0, Fresh DEF Guarded
<1>2. ASSUME NEW b \in Addrs
      PROVE  entries'[b].failures + Cardinality(InFlight(b)') <= Bound
  <2>1. InFlight(b)' = {}
    BY <1>0, LoginAssumption DEF InFlight
  <2>2. entries'[b].failures = 0
    BY <1>0 DEF NoEntry
  <2>. QED BY <2>1, <2>2, FS_EmptySet, InFlightCount
<1>3. entries' \in [Addrs -> Entry] /\ misses' \in [Addrs -> Seq(Ticks)]
        /\ checking' \in [Logins -> Addrs \cup {NoAddr}]
  BY <1>0, Fresh
<1>4. TypeOK'
  BY <1>0, <1>2, <1>3 DEF TypeOK, Entry, Bound
<1>. QED BY <1>1, <1>4 DEF IInv

LEMMA NextInv == IInv /\ [Next]_vars => IInv'
<1>1. CASE UNCHANGED vars
  BY <1>1 DEF vars, IInv, TypeOK, Guarded, InFlight
<1>. QED
  BY <1>1, BeginInv, FailInv, LeaveInv, CleanupInv, TickInv, RestartInv DEF Next

LEMMA InvAlways == Spec => []IInv
  BY InitInv, NextInv, PTL DEF Spec
-----------------------------------------------------------------------------
(* The type invariant; no entry counts more failures than the threshold    *)
(* and the logins let in before it add up to (allowed, fail).              *)
THEOREM TypeCorrect == Spec => []TypeOK
<1>1. IInv => TypeOK
  BY DEF IInv
<1>. QED BY <1>1, InvAlways, PTL

(* However logins interleave and whatever is forgotten, no period has more *)
(* failed checks of an address than threshold and logins in flight allow   *)
(* (allowed, fail, success, cleanup).                                      *)
THEOREM GuessesAreBounded == Spec => []GuessesBounded
<1>1. IInv => GuessesBounded
  BY DEF IInv, Guarded, FewHits, Hits, GuessesBounded, Bound
<1>. QED BY <1>1, InvAlways, PTL

(* A lock is only ever prolonged until it has run out, unless a login      *)
(* succeeds or the process restarts (fail, cleanup).                       *)
THEOREM LocksLast == Spec => LockLasts
<1>. DEFINE Lasts(a) == Locked(a) =>
              \/ entries'[a].lockedUntil >= entries[a].lockedUntil
              \/ Restart
              \/ \E c \in Logins : checking[c] = a /\ Succeed(c)
<1>1. ASSUME IInv, [Next]_vars, NEW a \in Addrs PROVE Lasts(a)
  <2>0. /\ TypeOK /\ clock \in Nat /\ entries[a].lockedUntil \in Int
        /\ entries[a].lastFail \in Int /\ entries[a].failures \in Nat
        /\ Locking(entries[a], clock)
    BY <1>1, EntryTypes DEF IInv, Guarded
  <2>1. CASE entries'[a] = entries[a]
    BY <2>0, <2>1
  <2>2. ASSUME NEW c \in Logins, NEW b \in Addrs, Begin(c, b), entries'[a] # entries[a]
        PROVE  Lasts(a)
    <3>1. a = b
      BY <2>0, <2>2 DEF Begin, TypeOK
    <3>. QED BY <2>2, <3>1 DEF Begin
  <2>3. ASSUME NEW c \in Logins, Fail(c), entries'[a] # entries[a]
        PROVE  Lasts(a)
    <3>1. entries'[a] = Failed(entries[a])
      BY <2>0, <2>3 DEF Fail, TypeOK
    <3>2. CASE entries[a].lockedUntil = Never
      <4>1. ~Locked(a)
        BY <2>0, <3>2 DEF Locked, Never
      <4>. QED BY <4>1
    <3>3. CASE entries[a].lockedUntil # Never
      <4>1. /\ entries[a].failures >= MaxFail
            /\ entries[a].lockedUntil = entries[a].lastFail + LockDur
            /\ entries[a].lastFail <= clock
        BY <2>0, <3>3 DEF Locking
      <4>2. Failed(entries[a]).lockedUntil = clock + LockDur
        BY <2>0, <4>1, LoginAssumption DEF Failed
      <4>. QED BY <2>0, <3>1, <4>1, <4>2, LoginAssumption
    <3>. QED BY <3>2, <3>3
  <2>4. ASSUME NEW c \in Logins, Succeed(c), entries'[a] # entries[a]
        PROVE  Lasts(a)
    <3>1. checking[c] = a
      BY <2>0, <2>4 DEF Succeed, TypeOK
    <3>. QED BY <2>4, <3>1
  <2>5. CASE Cleanup
    <3>1. Locked(a) => entries'[a] = entries[a]
      BY <2>0, <2>5 DEF Cleanup, Stale, Locked
    <3>. QED BY <2>0, <3>1
  <2>6. CASE \/ \E c \in Logins : Abandon(c)
             \/ Tick \/ UNCHANGED vars
    BY <2>1, <2>6 DEF Abandon, Tick, vars
  <2>7. CASE Restart
    BY <2>7
  <2>. QED BY <1>1, <2>1, <2>2, <2>3, <2>4, <2>5, <2>6, <2>7 DEF Next
<1>2. IInv /\ [Next]_vars => [\A a \in Addrs : Lasts(a)]_vars
  BY <1>1
<1>. HIDE DEF Lasts
<1>3. Spec => [][\A a \in Addrs : Lasts(a)]_vars
  BY <1>2, InvAlways, PTL DEF Spec
<1>. QED BY <1>3 DEF LockLasts, Lasts
=============================================================================
