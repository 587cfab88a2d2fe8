------------------------- MODULE RateLimiterProofs -------------------------
(***************************************************************************)
(* Proofs about RateLimiter for every value of its constants: its type     *)
(* invariant, the bound on what a bucket admits, the waits that clients    *)
(* are told, and that it implements TokenBucket.                           *)
(*                                                                         *)
(* AdmissionBound speaks of the clock and is not inductive: whether one    *)
(* more call is admitted depends on the bucket's level, and the level on   *)
(* the last stamp, which may lie behind an earlier one.  Conserved relates *)
(* the two: tokens in the bucket plus tokens handed out never exceed what  *)
(* was put in between the first stamp and the last.                        *)
(*                                                                         *)
(* A bucket may be in debt to late stamps, but to no older ones than       *)
(* MaxLag (Stamps, InDebt), and the wait a refused call is told depends on *)
(* the level it has left behind (Hints).  TokenBucket never forgets: a     *)
(* bucket that is swept, or missing, is a full one there.                  *)
(***************************************************************************)
EXTENDS RateLimiter, TLAPS

Conserved ==
  \A k \in present :
    /\ hist[k].limits # {}
    /\ \A L \in Nat :
         hist[k].limits = {L} =>
           bucket[k].tokens + hist[k].admitted * Window
             <= L * (Window + bucket[k].last - hist[k].born)

Bounded ==
  \A k \in present, L \in Nat :
    hist[k].limits = {L} =>
      hist[k].admitted * Window <= L * (Window + clock - hist[k].born)

-----------------------------------------------------------------------------
(* Division of a natural number by a positive one is a natural number.     *)
LEMMA DivNat == \A a \in Nat, b \in Nat \ {0} : a \div b \in Nat
  OBVIOUS

(* ... and is off by less than one divisor.                                *)
LEMMA DivBounds ==
  \A a \in Nat, b \in Nat \ {0} : b * (a \div b) <= a /\ a < b * (a \div b) + b
<1>1. \A a \in Nat, b \in Nat \ {0} : b * (a \div b) <= a
  OBVIOUS
<1>2. \A a \in Nat, b \in Nat \ {0} : a < b * (a \div b) + b
  OBVIOUS
<1>. QED BY <1>1, <1>2

(* Multiplication by a natural number is monotonic.                        *)
LEMMA TimesMonotonic ==
  ASSUME NEW L \in Nat, NEW a \in Int, NEW b \in Int, a <= b
  PROVE  L * a <= L * b
  OBVIOUS

(* What the refill and the retry hint of a call return.                    *)
LEMMA RefilledType ==
  ASSUME TypeOK, NEW k \in Keys, NEW t \in Nat, NEW L \in Nat \ {0}
  PROVE  Refilled(k, t, L) \in Int
<1>. bucket[k].tokens \in Int /\ bucket[k].last \in Nat
  BY DEF TypeOK
<1>. QED
  BY LimiterAssumption DEF Refilled, Least

LEMMA RetryAfterType ==
  ASSUME NEW L \in Nat \ {0}, NEW level \in Int, ~(level >= Window)
  PROVE  RetryAfter(level, L) \in Nat
<1>1. Window - level \in Nat
  BY LimiterAssumption
<1>. QED
  BY <1>1, DivNat DEF RetryAfter
-----------------------------------------------------------------------------
(* The type invariant of the specification.                                *)
THEOREM TypeCorrect == Spec => []TypeOK
<1>. USE LimiterAssumption
<1>1. Init => TypeOK
  <2>. SUFFICES ASSUME Init PROVE TypeOK
    OBVIOUS
  <2>1. rpm \in [Keys -> Nat \cup {Future, Expired, Deleted}]
    BY DEF Init
  <2>2. calls \in [Callers -> Call] /\ \A c \in Callers : calls[c] = IdleCall
    BY DEF Init, IdleCall, Call, Free
  <2>3. bucket \in [Keys -> [tokens : Int, last : Nat]]
    BY DEF Init, NoBucket
  <2>4. hist \in [Keys -> [born : Nat, admitted : Nat,
                          limits : SUBSET (Nat \ {0}), retryAt : Nat]]
    BY DEF Init, NoHist
  <2>. QED
    BY <2>1, <2>2, <2>3, <2>4 DEF Init, TypeOK, IdleCall
<1>2. TypeOK /\ [Next]_vars => TypeOK'
  <2>. SUFFICES ASSUME TypeOK, [Next]_vars PROVE TypeOK'
    OBVIOUS
  <2>1. ASSUME NEW c \in Callers, NEW k \in Keys, Authenticate(c, k) PROVE TypeOK'
    <3>1. Limit(rpm[k]) \in Nat /\ Limit(rpm[k]) > 0
      BY <2>1 DEF Authenticate, TypeOK, Limit, InForce, Future, Expired, Deleted
    <3>. QED
      BY <2>1, <3>1 DEF Authenticate, TypeOK, Call, Free
  <2>2. ASSUME NEW c \in Callers, Stamp(c) PROVE TypeOK'
    <3>1. calls' \in [Callers -> Call]
      <4> DEFINE new == [calls[c] EXCEPT !.pc = "stamped", !.at = clock]
      <4>1. new \in Call
        <5>1. calls[c] \in Call /\ clock \in Nat
          BY DEF TypeOK
        <5>. QED BY <5>1 DEF Call
      <4>2. calls' = [calls EXCEPT ![c] = new]
        BY <2>2 DEF Stamp, TypeOK
      <4>. HIDE DEF new
      <4>. QED BY <4>1, <4>2 DEF TypeOK
    <3>2. \A d \in Callers : /\ calls'[d].limit = calls[d].limit
                              /\ calls'[d].key = calls[d].key
                              /\ calls'[d].pc # "idle" => calls[d].pc # "idle"
                              /\ calls'[d].at <= clock
      BY <2>2 DEF Stamp, TypeOK, Call, Free
    <3>. QED
      BY <2>2, <3>1, <3>2 DEF Stamp, TypeOK
  <2>3. ASSUME NEW c \in Callers, Decide(c) PROVE TypeOK'
    <3> DEFINE k == calls[c].key
               L == calls[c].limit
               t == calls[c].at
               level == Refilled(k, t, L)
    <3>1. k \in Keys /\ L \in Nat \ {0} /\ t \in Nat
      BY <2>3 DEF Decide, Enough, TypeOK, Call, Free
    <3>2. level \in Int
      BY <3>1, RefilledType
    <3>3. ~(level >= Window) => RetryAfter(level, L) \in Nat
      BY <3>1, <3>2, RetryAfterType
    <3>4. present' \subseteq Keys
      BY <2>3, <3>1 DEF Decide, Enough, TypeOK, Kept
    <3>5. bucket' \in [Keys -> [tokens : Int, last : Nat]]
      BY <2>3, <3>1, <3>2 DEF Decide, Enough, TypeOK, Forgotten, NoBucket
    <3>6. hist' \in [Keys -> [born : Nat, admitted : Nat,
                              limits : SUBSET (Nat \ {0}), retryAt : Nat]]
      <4>. HIDE DEF level
      <4> DEFINE old == IF k \in present THEN hist[k] ELSE [NoHist EXCEPT !.born = t]
                 new == [born     |-> old.born,
                         admitted |-> IF level >= Window THEN old.admitted + 1
                                                         ELSE old.admitted,
                         limits   |-> old.limits \cup {L},
                         retryAt  |-> IF level >= Window THEN 0
                                                         ELSE t + RetryAfter(level, L)]
                 gone == present \ Kept(k, t)
      <4>1. hist' = [Forgotten(hist, gone, NoHist) EXCEPT ![k] = new]
        BY <2>3 DEF Decide, Enough, level
      <4>2. old \in [born : Nat, admitted : Nat,
                     limits : SUBSET (Nat \ {0}), retryAt : Nat]
        BY <3>1 DEF TypeOK, NoHist
      <4>3. new \in [born : Nat, admitted : Nat,
                     limits : SUBSET (Nat \ {0}), retryAt : Nat]
        <5>. HIDE DEF old
        <5>. QED BY <3>1, <3>2, <3>3, <4>2
      <4>4. Forgotten(hist, gone, NoHist)
              \in [Keys -> [born : Nat, admitted : Nat,
                            limits : SUBSET (Nat \ {0}), retryAt : Nat]]
        BY DEF Forgotten, TypeOK, NoHist
      <4>. HIDE DEF new
      <4>. QED BY <4>1, <4>3, <4>4
    <3>7. calls' \in [Callers -> Call]
            /\ (\A d \in Callers : calls'[d].pc # "idle" =>
                                     calls'[d].key \in Keys /\ calls'[d].limit > 0)
            /\ (\A d \in Callers : calls'[d].at <= clock')
      BY <2>3, <3>1 DEF Decide, Enough, TypeOK, Call, Free
    <3>. QED
      BY <2>3, <3>4, <3>5, <3>6, <3>7 DEF Decide, Enough, TypeOK
  <2>4. ASSUME SweepStamp PROVE TypeOK'
    BY <2>4 DEF SweepStamp, TypeOK
  <2>5. ASSUME Sweep PROVE TypeOK'
    BY <2>5 DEF Sweep, TypeOK, Forgotten, NoBucket, NoHist, NoStamp
  <2>6. ASSUME NEW a \in Admins, NEW r \in Rpms, UpdateToken(a, r) PROVE TypeOK'
    BY <2>6 DEF UpdateToken, TypeOK
  <2>7. ASSUME NEW a \in Admins, NEW k \in Keys, DeleteToken(a, k) PROVE TypeOK'
    BY <2>7 DEF DeleteToken, TypeOK
  <2>8. ASSUME NEW a \in Admins, Remove(a) PROVE TypeOK'
    BY <2>8 DEF Remove, TypeOK, NoBucket, NoHist
  <2>9. ASSUME NEW k \in Keys, ExpireToken(k) PROVE TypeOK'
    BY <2>9 DEF ExpireToken, TypeOK
  <2>12. ASSUME NEW k \in Keys, NEW r \in Rpms, CreateToken(k, r) PROVE TypeOK'
    BY <2>12 DEF CreateToken, TypeOK
  <2>13. ASSUME NEW a \in Admins, NEW k \in Keys, FindToken(a, k) PROVE TypeOK'
    BY <2>13 DEF FindToken, TypeOK
  <2>10. ASSUME Tick PROVE TypeOK'
    BY <2>10 DEF Tick, TypeOK, Call
  <2>11. CASE UNCHANGED vars
    BY <2>11 DEF vars, TypeOK
  <2>. QED
    BY <2>1, <2>2, <2>3, <2>4, <2>5, <2>6, <2>7, <2>8, <2>9, <2>10, <2>11,
       <2>12, <2>13 DEF Next
<1>. QED
  BY <1>1, <1>2, PTL DEF Spec
-----------------------------------------------------------------------------
(* Conserved, for one key after the critical section of one call.          *)
LEMMA DecideConserves ==
  ASSUME TypeOK, TypeOK', Conserved, Bounded, NEW c \in Callers, Decide(c)
  PROVE  Conserved' /\ Bounded'
<1>. USE LimiterAssumption
<1> DEFINE k == calls[c].key
           L == calls[c].limit
           t == calls[c].at
           level == Refilled(k, t, L)
           gone == present \ Kept(k, t)
<1>1. k \in Keys /\ L \in Nat \ {0} /\ t \in Nat /\ t <= clock /\ clock \in Nat
  BY DEF Decide, Enough, TypeOK, Call, Free
<1>2. level \in Int
  BY <1>1, RefilledType
<1>3. k \notin gone
  BY DEF Kept, Idle
(* The other buckets are unchanged or gone. *)
<1>4. ASSUME NEW j \in present', j # k
      PROVE  j \in present /\ hist'[j] = hist[j] /\ bucket'[j] = bucket[j]
  <2>1. j \in Keys /\ j \in present /\ j \notin gone
    BY <1>4, <1>1 DEF Decide, Enough, TypeOK, Kept
  <2>. QED
    BY <1>4, <2>1 DEF Decide, Enough, Forgotten, TypeOK
<1>5. CASE k \notin present
  <2>1. level = L * Window
    BY <1>5 DEF Refilled
  <2>2. level >= Window
    BY <2>1, <1>1
  <2>3. /\ bucket'[k].tokens = level - Window
        /\ bucket'[k].last = t
        /\ hist'[k].born = t
        /\ hist'[k].admitted = 1
        /\ hist'[k].limits = {L}
    BY <2>2, <1>1, <1>5 DEF Decide, Enough, Forgotten, NoHist, TypeOK
  <2>4. bucket'[k].tokens + hist'[k].admitted * Window
          <= L * (Window + bucket'[k].last - hist'[k].born)
    BY <2>3, <2>1, <1>1
  <2>5. hist'[k].admitted * Window <= L * (Window + clock' - hist'[k].born)
    <3>1. clock' = clock
      BY DEF Decide, Enough
    <3>2. L * Window <= L * (Window + clock - t)
      BY <1>1, TimesMonotonic
    <3>3. Window <= L * Window
      BY <2>1, <2>2
    <3>. QED BY <2>3, <3>1, <3>2, <3>3, <1>1
  <2>. QED
    <3>. HIDE DEF level, L, t
    <3>1. Conserved'
      <4>1. ASSUME NEW j \in present', NEW M \in Nat
            PROVE  /\ hist'[j].limits # {}
                   /\ hist'[j].limits = {M} =>
                        bucket'[j].tokens + hist'[j].admitted * Window
                          <= M * (Window + bucket'[j].last - hist'[j].born)
        <5>1. CASE j = k
          BY <5>1, <2>3, <2>4
        <5>2. CASE j # k
          BY <5>2, <1>4 DEF Conserved
        <5>. QED BY <5>1, <5>2
      <4>. QED BY <4>1 DEF Conserved
    <3>2. ASSUME NEW j \in present', NEW M \in Nat, hist'[j].limits = {M}
          PROVE  hist'[j].admitted * Window <= M * (Window + clock' - hist'[j].born)
      <4>1. CASE j = k
        BY <3>2, <4>1, <2>3, <2>5
      <4>2. CASE j # k
        BY <3>2, <4>2, <1>4 DEF Bounded, Decide
      <4>. QED BY <4>1, <4>2
    <3>. QED
      BY <3>1, <3>2 DEF Bounded
<1>6. CASE k \in present
  <2> DEFINE tok == bucket[k].tokens
             last == bucket[k].last
             born == hist[k].born
             adm == hist[k].admitted
  <2>1. tok \in Int /\ last \in Nat /\ born \in Nat /\ adm \in Nat
    BY <1>1 DEF TypeOK
  <2>2. level <= tok + (t - last) * L
    BY <1>1, <1>6, <2>1 DEF Refilled, Least
  <2>3. /\ bucket'[k].tokens = IF level >= Window THEN level - Window ELSE level
        /\ bucket'[k].last = t
        /\ hist'[k].born = born
        /\ hist'[k].admitted = IF level >= Window THEN adm + 1 ELSE adm
        /\ hist'[k].limits = hist[k].limits \cup {L}
    BY <1>1, <1>6 DEF Decide, Enough, Forgotten, TypeOK
  <2>4. hist'[k].limits # {} /\ \A M \in Nat : hist'[k].limits = {M} =>
                                  M = L /\ hist[k].limits = {L}
    BY <1>6, <2>3 DEF Conserved
  <2>5. ASSUME hist[k].limits = {L}
        PROVE  /\ bucket'[k].tokens + hist'[k].admitted * Window
                    <= L * (Window + bucket'[k].last - hist'[k].born)
               /\ hist'[k].admitted * Window <= L * (Window + clock' - hist'[k].born)
    <3>. HIDE DEF level, tok, last, born, adm, k, L, t
    <3>1. tok + adm * Window <= L * (Window + last - born)
      BY <1>6, <1>1, <2>5 DEF Conserved, tok, adm, last, born
    <3>2. adm * Window <= L * (Window + clock - born)
      BY <1>6, <1>1, <2>5 DEF Bounded, adm, born
    <3>3. L * (Window + last - born) + (t - last) * L = L * (Window + t - born)
      BY <1>1, <2>1
    <3>4. level + adm * Window <= L * (Window + t - born)
      BY <1>1, <1>2, <2>1, <2>2, <3>1, <3>3
    <3>5. (adm + 1) * Window = adm * Window + Window
      BY <2>1
    <3>6. L * (Window + t - born) <= L * (Window + clock - born)
      BY <1>1, <2>1, TimesMonotonic
    <3>7. clock' = clock
      BY DEF Decide, Enough
    <3>8. CASE level >= Window
      <4>1. (level - Window) + (adm + 1) * Window <= L * (Window + t - born)
        BY <1>1, <1>2, <2>1, <3>4, <3>5
      <4>2. (adm + 1) * Window <= L * (Window + clock - born)
        BY <1>1, <1>2, <2>1, <3>8, <3>4, <3>5, <3>6
      <4>. QED BY <2>3, <3>7, <3>8, <4>1, <4>2
    <3>9. CASE ~(level >= Window)
      BY <2>3, <3>2, <3>4, <3>7, <3>9
    <3>. QED BY <3>8, <3>9
  <2>. HIDE DEF level, tok, last, born, adm, L, t
  <2>6. Conserved'
    <3>1. ASSUME NEW j \in present'
          PROVE  /\ hist'[j].limits # {}
                 /\ \A M \in Nat : hist'[j].limits = {M} =>
                      bucket'[j].tokens + hist'[j].admitted * Window
                        <= M * (Window + bucket'[j].last - hist'[j].born)
      BY <1>4, <2>4, <2>5 DEF Conserved
    <3>. QED BY <3>1 DEF Conserved
  <2>7. Bounded'
    <3>1. ASSUME NEW j \in present', NEW M \in Nat, hist'[j].limits = {M}
          PROVE  hist'[j].admitted * Window <= M * (Window + clock' - hist'[j].born)
      <4>1. CASE j = k
        BY <3>1, <4>1, <2>4, <2>5
      <4>2. CASE j # k
        BY <3>1, <4>2, <1>4 DEF Bounded, Decide
      <4>. QED BY <4>1, <4>2
    <3>. QED BY <3>1 DEF Bounded
  <2>. QED
    BY <2>6, <2>7
<1>. QED
  BY <1>5, <1>6

(* Whatever changes no bucket and no clock, or only forgets buckets.       *)
LEMMA FewerBuckets ==
  ASSUME Conserved, Bounded, clock' = clock, present' \subseteq present,
         \A k \in present' : hist'[k] = hist[k] /\ bucket'[k] = bucket[k]
  PROVE  Conserved' /\ Bounded'
  BY DEF Conserved, Bounded

(* The clock only loosens the bound.                                       *)
LEMMA TickConserves ==
  ASSUME TypeOK, Conserved, Bounded, Tick
  PROVE  Conserved' /\ Bounded'
<1>1. Conserved'
  BY DEF Tick, Conserved
<1>2. ASSUME NEW k \in present, NEW L \in Nat, hist[k].limits = {L}
      PROVE  hist[k].admitted * Window <= L * (Window + clock' - hist[k].born)
  <2>1. hist[k].born \in Nat /\ hist[k].admitted \in Nat /\ clock \in Nat
    BY DEF TypeOK
  <2>2. hist[k].admitted * Window <= L * (Window + clock - hist[k].born)
    BY <1>2 DEF Bounded
  <2>3. L * (Window + clock - hist[k].born) <= L * (Window + clock' - hist[k].born)
    BY <2>1, LimiterAssumption, TimesMonotonic DEF Tick
  <2>4. clock' \in Nat
    BY <2>1 DEF Tick
  <2>. QED BY <2>1, <2>2, <2>3, <2>4, LimiterAssumption
<1>. QED
  BY <1>1, <1>2 DEF Bounded, Tick

(* In every reachable state a bucket used with one limit has admitted no   *)
(* more than a burst plus the rate since it was created.                   *)
THEOREM AdmissionIsBounded == Spec => []AdmissionBound
<1>1. Init => Conserved /\ Bounded
  BY DEF Init, Conserved, Bounded
<1>2. TypeOK /\ TypeOK' /\ Conserved /\ Bounded /\ [Next]_vars
        => Conserved' /\ Bounded'
  <2>. SUFFICES ASSUME TypeOK, TypeOK', Conserved, Bounded, [Next]_vars
                PROVE  Conserved' /\ Bounded'
    OBVIOUS
  <2>1. ASSUME NEW c \in Callers, NEW k \in Keys, Authenticate(c, k)
        PROVE  Conserved' /\ Bounded'
    BY <2>1, FewerBuckets DEF Authenticate
  <2>2. ASSUME NEW c \in Callers, Stamp(c) PROVE Conserved' /\ Bounded'
    BY <2>2, FewerBuckets DEF Stamp
  <2>3. ASSUME NEW c \in Callers, Decide(c) PROVE Conserved' /\ Bounded'
    BY <2>3, DecideConserves
  <2>4. CASE SweepStamp
    BY <2>4, FewerBuckets DEF SweepStamp
  <2>5. CASE Sweep
    <3>1. \A k \in present' : hist'[k] = hist[k] /\ bucket'[k] = bucket[k]
      BY <2>5 DEF Sweep, Forgotten, TypeOK
    <3>. QED BY <2>5, <3>1, FewerBuckets DEF Sweep
  <2>6. ASSUME NEW a \in Admins, NEW r \in Rpms, UpdateToken(a, r)
        PROVE  Conserved' /\ Bounded'
    BY <2>6, FewerBuckets DEF UpdateToken
  <2>7. ASSUME NEW a \in Admins, NEW k \in Keys, DeleteToken(a, k)
        PROVE  Conserved' /\ Bounded'
    BY <2>7, FewerBuckets DEF DeleteToken
  <2>8. ASSUME NEW a \in Admins, Remove(a) PROVE Conserved' /\ Bounded'
    <3>1. \A k \in present' : hist'[k] = hist[k] /\ bucket'[k] = bucket[k]
      BY <2>8 DEF Remove, TypeOK
    <3>. QED BY <2>8, <3>1, FewerBuckets DEF Remove
  <2>9. ASSUME NEW k \in Keys, ExpireToken(k) PROVE Conserved' /\ Bounded'
    BY <2>9, FewerBuckets DEF ExpireToken
  <2>12. ASSUME NEW k \in Keys, NEW r \in Rpms, CreateToken(k, r)
         PROVE  Conserved' /\ Bounded'
    BY <2>12, FewerBuckets DEF CreateToken
  <2>13. ASSUME NEW a \in Admins, NEW k \in Keys, FindToken(a, k)
         PROVE  Conserved' /\ Bounded'
    BY <2>13, FewerBuckets DEF FindToken
  <2>10. CASE Tick
    BY <2>10, TickConserves
  <2>11. CASE UNCHANGED vars
    BY <2>11, FewerBuckets DEF vars
  <2>. QED
    BY <2>1, <2>2, <2>3, <2>4, <2>5, <2>6, <2>7, <2>8, <2>9, <2>10, <2>11,
       <2>12, <2>13 DEF Next
<1>3. TypeOK /\ Bounded => AdmissionBound
  BY LimiterAssumption DEF Bounded, AdmissionBound
<1>. QED
  BY <1>1, <1>2, <1>3, TypeCorrect, PTL DEF Spec
-----------------------------------------------------------------------------
(* The hint of a denied call names a tick at which its bucket holds a      *)
(* whole token, and two ticks before it does not.                          *)
LEMMA HintIsExact ==
  ASSUME NEW L \in Nat \ {0}, NEW level \in Int, ~(level >= Window)
  PROVE  /\ RetryAfter(level, L) \in Nat \ {0}
         /\ level + RetryAfter(level, L) * L >= Window
         /\ level + (RetryAfter(level, L) - 2) * L < Window
<1>. DEFINE a == Window - level
            q == a \div L
<1>1. a \in Nat /\ a > 0 /\ Window \in Int
  BY LimiterAssumption
<1>2. q \in Nat
  BY <1>1, DivNat
<1>3. L * q <= a /\ a < L * q + L
  BY <1>1, DivBounds
<1>4. RetryAfter(level, L) = q + 1
  BY DEF RetryAfter
<1>. HIDE DEF q
<1>5. (q + 1) * L = L * q + L /\ (q - 1) * L = L * q - L /\ L * q \in Int
  BY <1>2
<1>6. (q + 1) - 2 = q - 1
  BY <1>2
<1>7. (RetryAfter(level, L) - 2) * L = L * q - L
  BY <1>4, <1>5, <1>6
<1>8. RetryAfter(level, L) * L = L * q + L
  BY <1>4, <1>5
<1>. QED BY <1>1, <1>2, <1>3, <1>4, <1>5, <1>7, <1>8

(* What the refill of a call sees.                                         *)
LEMMA RefilledLevel ==
  ASSUME TypeOK, NEW k \in Keys, NEW t \in Nat, NEW L \in Nat \ {0}
  PROVE  /\ k \notin present => Refilled(k, t, L) = L * Window
         /\ k \in present =>
              \/ /\ Refilled(k, t, L) = L * Window
                 /\ bucket[k].tokens + (t - bucket[k].last) * L >= L * Window
              \/ /\ Refilled(k, t, L) = bucket[k].tokens + (t - bucket[k].last) * L
                 /\ bucket[k].tokens + (t - bucket[k].last) * L <= L * Window
         /\ bucket[k].tokens \in Int /\ bucket[k].last \in Nat
         /\ L * Window \in Nat /\ L * Window >= Window
<1>1. bucket[k].tokens \in Int /\ bucket[k].last \in Nat
  BY DEF TypeOK
<1>2. L * Window \in Nat /\ L * Window >= Window
  BY LimiterAssumption
<1>3. bucket[k].tokens + (t - bucket[k].last) * L \in Int
  BY <1>1
<1>. QED BY <1>1, <1>2, <1>3 DEF Refilled, Least

(* The whole critical section, for the bucket it decides on and the others. *)
LEMMA DecideEffect ==
  ASSUME TypeOK, NEW c \in Callers, Decide(c),
         NEW k, k = calls[c].key, NEW L, L = calls[c].limit, NEW t, t = calls[c].at
  PROVE  /\ k \in Keys /\ L \in Nat \ {0} /\ t \in Nat /\ t <= clock
         /\ calls[c].pc = "stamped"
         /\ k \in present'
         /\ \A j \in present' : j # k =>
              j \in present /\ hist'[j] = hist[j] /\ bucket'[j] = bucket[j]
         /\ \A j \in present : j \notin present' =>
              j # k /\ t - bucket[j].last > 2 * Window
         /\ bucket'[k].tokens = IF Refilled(k, t, L) >= Window
                                THEN Refilled(k, t, L) - Window ELSE Refilled(k, t, L)
         /\ bucket'[k].last = t
         /\ hist'[k].limits = (IF k \in present THEN hist[k].limits ELSE {}) \cup {L}
         /\ hist'[k].retryAt = IF Refilled(k, t, L) >= Window
                               THEN 0 ELSE t + RetryAfter(Refilled(k, t, L), L)
         /\ calls' = [calls EXCEPT ![c].pc = IF Refilled(k, t, L) >= Window
                                             THEN "admitted" ELSE "denied"]
         /\ UNCHANGED <<clock, rpm, found, admins, sweeper>>
<1>. DEFINE level == Refilled(k, t, L)
            gone == present \ Kept(k, t)
            old == IF k \in present THEN hist[k] ELSE [NoHist EXCEPT !.born = t]
            newHist == [born     |-> old.born,
                        admitted |-> IF level >= Window THEN old.admitted + 1
                                                        ELSE old.admitted,
                        limits   |-> old.limits \cup {L},
                        retryAt  |-> IF level >= Window THEN 0
                                                        ELSE t + RetryAfter(level, L)]
            newBucket == [tokens |-> IF level >= Window THEN level - Window ELSE level,
                          last |-> t]
<1>1. k \in Keys /\ L \in Nat \ {0} /\ t \in Nat /\ t <= clock /\ calls[c].pc = "stamped"
  BY DEF Decide, TypeOK, Call, Free
<1>2. present' = Kept(k, t) \cup {k} /\ Kept(k, t) \subseteq present /\ k \notin gone
  BY DEF Decide, Kept, Idle
<1>3. hist' = [Forgotten(hist, gone, NoHist) EXCEPT ![k] = newHist]
  BY DEF Decide, Enough
<1>4. bucket' = [Forgotten(bucket, gone, NoBucket) EXCEPT ![k] = newBucket]
  BY DEF Decide, Enough
<1>5. old.limits = IF k \in present THEN hist[k].limits ELSE {}
  BY DEF NoHist
<1>6. \A j \in present : j \notin present' => j # k /\ t - bucket[j].last > 2 * Window
  BY <1>2 DEF Kept, Idle
<1>7. /\ calls' = [calls EXCEPT ![c].pc = IF level >= Window THEN "admitted" ELSE "denied"]
      /\ UNCHANGED <<clock, rpm, found, admins, sweeper>>
  BY DEF Decide, Enough
<1>8. newBucket.tokens = (IF level >= Window THEN level - Window ELSE level)
      /\ newBucket.last = t
      /\ newHist.limits = old.limits \cup {L}
      /\ newHist.retryAt = (IF level >= Window THEN 0 ELSE t + RetryAfter(level, L))
  OBVIOUS
<1>. HIDE DEF level, old, newHist, newBucket
<1>9. hist'[k] = newHist /\ bucket'[k] = newBucket
  BY <1>1, <1>3, <1>4 DEF Forgotten
<1>10. ASSUME NEW j \in present', j # k
       PROVE  j \in present /\ hist'[j] = hist[j] /\ bucket'[j] = bucket[j]
  <2>1. j \in present /\ j \in Keys /\ j \notin gone
    BY <1>2, <1>10 DEF TypeOK
  <2>. HIDE DEF gone
  <2>. QED BY <1>3, <1>4, <1>10, <2>1 DEF Forgotten
<1>11. bucket'[k].tokens = (IF level >= Window THEN level - Window ELSE level)
       /\ bucket'[k].last = t
       /\ hist'[k].limits = old.limits \cup {L}
       /\ hist'[k].retryAt = (IF level >= Window THEN 0 ELSE t + RetryAfter(level, L))
  BY <1>8, <1>9
<1>. USE DEF level
<1>. QED
  BY <1>1, <1>2, <1>5, <1>6, <1>7, <1>10, <1>11

-----------------------------------------------------------------------------
(* A call waits no longer than MaxLag behind its stamp, and no stamp is in *)
(* the future.                                                             *)
Stamps ==
  /\ \A c \in Callers : calls[c].pc = "stamped" => clock <= calls[c].at + MaxLag
  /\ sweeper <= clock

(* What a bucket used with one limit L would hold at t, denials aside.     *)
LevelAt(k, L, t) == bucket[k].tokens + (t - bucket[k].last) * L

(* RetryBounded is not inductive: a late stamp takes back what the last    *)
(* one put in, and only the level at the present time is never negative.   *)
InDebt(k, L) ==
  /\ LevelAt(k, L, clock) >= 0
  /\ bucket[k].tokens >= -(L * MaxLag)

Hinted(k, L) ==
  hist[k].retryAt > 0 =>
    /\ LevelAt(k, L, hist[k].retryAt) >= Window
    /\ LevelAt(k, L, hist[k].retryAt - 2) < Window

Hints ==
  \A k \in present :
    /\ hist[k].limits # {}
    /\ \A L \in Nat \ {0} : hist[k].limits = {L} => InDebt(k, L) /\ Hinted(k, L)

LEMMA StampsStep ==
  ASSUME TypeOK, Stamps, [Next]_vars
  PROVE  Stamps'
<1>. USE LimiterAssumption
<1>0. clock \in Nat /\ \A c \in Callers : calls[c] \in Call
  BY DEF TypeOK
<1>1. ASSUME NEW c \in Callers, NEW k \in Keys, Authenticate(c, k) PROVE Stamps'
  BY <1>0, <1>1 DEF Authenticate, Stamps, TypeOK
<1>2. ASSUME NEW c \in Callers, Stamp(c) PROVE Stamps'
  <2>. DEFINE new == [calls[c] EXCEPT !.pc = "stamped", !.at = clock]
  <2>1. calls' = [calls EXCEPT ![c] = new] /\ UNCHANGED <<clock, sweeper>>
    BY <1>2 DEF Stamp, TypeOK
  <2>2. new.at = clock
    BY <1>0 DEF Call
  <2>. HIDE DEF new
  <2>3. \A d \in Callers : calls'[d] = IF d = c THEN new ELSE calls[d]
    BY <2>1 DEF TypeOK
  <2>4. clock <= clock + MaxLag
    BY <1>0
  <2>. QED BY <2>1, <2>2, <2>3, <2>4 DEF Stamps
<1>3. ASSUME NEW c \in Callers, Decide(c) PROVE Stamps'
  <2>1. \A d \in Callers : calls'[d].pc = "stamped" => calls'[d] = calls[d]
    BY <1>0, <1>3 DEF Decide, TypeOK, Call
  <2>2. UNCHANGED <<clock, sweeper>>
    BY <1>3 DEF Decide
  <2>. QED BY <2>1, <2>2 DEF Stamps
<1>4. CASE SweepStamp
  BY <1>0, <1>4 DEF SweepStamp, Stamps
<1>5. CASE Sweep
  BY <1>0, <1>5 DEF Sweep, Stamps, NoStamp
<1>6. CASE \/ \E k \in Keys, r \in Rpms : CreateToken(k, r)
           \/ \E a \in Admins, k \in Keys : FindToken(a, k) \/ DeleteToken(a, k)
           \/ \E a \in Admins, r \in Rpms : UpdateToken(a, r)
           \/ \E a \in Admins : Remove(a)
           \/ \E k \in Keys : ExpireToken(k)
           \/ UNCHANGED vars
  BY <1>6 DEF CreateToken, FindToken, DeleteToken, UpdateToken, Remove, ExpireToken, vars, Stamps
<1>7. CASE Tick
  <2>1. /\ clock' = clock + 1 /\ UNCHANGED <<calls, sweeper>>
        /\ \A c \in Callers : calls[c].pc = "stamped" => clock < calls[c].at + MaxLag
    BY <1>7 DEF Tick
  <2>2. \A c \in Callers : calls[c].at \in Nat
    BY <1>0 DEF Call
  <2>3. sweeper \in Int
    BY DEF TypeOK, NoStamp
  <2>. QED BY <1>0, <2>1, <2>2, <2>3 DEF Stamps
<1>. QED
  BY <1>1, <1>2, <1>3, <1>4, <1>5, <1>6, <1>7 DEF Next

(* One decision, seen from the bucket it decides on.                       *)
LEMMA DecideHints ==
  ASSUME TypeOK, Stamps, Hints, NEW c \in Callers, Decide(c)
  PROVE  Hints'
<1>. USE LimiterAssumption
<1>. SUFFICES ASSUME NEW k, k = calls[c].key, NEW L, L = calls[c].limit,
                     NEW t, t = calls[c].at
              PROVE  Hints'
  OBVIOUS
<1>. DEFINE level == Refilled(k, t, L)
<1>1. /\ k \in Keys /\ L \in Nat \ {0} /\ t \in Nat /\ t <= clock
      /\ k \in present' /\ clock' = clock /\ clock \in Nat
      /\ \A j \in present' : j # k =>
           j \in present /\ hist'[j] = hist[j] /\ bucket'[j] = bucket[j]
      /\ bucket'[k].tokens = IF level >= Window THEN level - Window ELSE level
      /\ bucket'[k].last = t
      /\ hist'[k].limits = (IF k \in present THEN hist[k].limits ELSE {}) \cup {L}
      /\ hist'[k].retryAt = IF level >= Window THEN 0 ELSE t + RetryAfter(level, L)
  <2>1. clock \in Nat
    BY DEF TypeOK
  <2>. QED BY <2>1, DecideEffect, SMTT(30)
<1>2. clock <= t + MaxLag
  BY DecideEffect DEF Stamps
<1>3. level \in Int
  BY <1>1, RefilledType
<1>4. ASSUME NEW M \in Nat \ {0}, hist'[k].limits = {M}
      PROVE  M = L /\ InDebt(k, M)' /\ Hinted(k, M)'
  <2>1. M = L /\ (k \in present => hist[k].limits = {L})
    <3>1. hist'[k].limits = (IF k \in present THEN hist[k].limits ELSE {}) \cup {L}
      BY <1>1
    <3>2. M = L
      BY <1>4, <3>1
    <3>3. k \in present => hist[k].limits \subseteq {L} /\ hist[k].limits # {}
      BY <1>4, <3>1, <3>2 DEF Hints
    <3>. QED BY <3>2, <3>3
  <2>2. level + (clock - t) * L >= 0
    <3>1. (clock - t) * L \in Nat /\ L * Window \in Nat
      BY <1>1
    <3>2. CASE level = L * Window
      BY <3>1, <3>2
    <3>3. CASE k \in present /\ level = bucket[k].tokens + (t - bucket[k].last) * L
      <4>1. bucket[k].tokens + (clock - bucket[k].last) * L >= 0
        BY <1>1, <2>1, <3>3 DEF Hints, InDebt, LevelAt
      <4>2. bucket[k].tokens \in Int /\ bucket[k].last \in Nat
        BY <1>1 DEF TypeOK
      <4>3. (t - bucket[k].last) * L + (clock - t) * L = (clock - bucket[k].last) * L
        BY <1>1, <4>2
      <4>4. /\ (t - bucket[k].last) * L \in Int /\ (clock - t) * L \in Int
            /\ (clock - bucket[k].last) * L \in Int
        BY <1>1, <4>2
      <4>. HIDE DEF level
      <4>. QED BY <3>3, <4>1, <4>2, <4>3, <4>4
    <3>4. \/ level = L * Window
          \/ k \in present /\ level = bucket[k].tokens + (t - bucket[k].last) * L
      <4>1. k \in Keys /\ t \in Nat /\ L \in Nat \ {0}
        BY <1>1
      <4>. QED BY <4>1, RefilledLevel
    <3>. QED BY <3>2, <3>3, <3>4
  <2>3. level >= -(L * MaxLag)
    <3>1. (clock - t) * L <= L * MaxLag
      <4>1. L * (clock - t) <= L * MaxLag
        BY <1>1, <1>2, TimesMonotonic
      <4>. QED BY <1>1, <4>1
    <3>2. (clock - t) * L \in Int /\ L * MaxLag \in Int
      BY <1>1
    <3>. QED BY <1>3, <2>2, <3>1, <3>2
  <2>4. L * MaxLag \in Nat /\ (clock - t) * L \in Nat
    BY <1>1
  <2>5. InDebt(k, L)'
    <3>. HIDE DEF level
    <3>. QED BY <1>1, <1>3, <2>2, <2>3, <2>4 DEF InDebt, LevelAt
  <2>6. Hinted(k, L)'
    <3>1. CASE level >= Window
      BY <1>1, <3>1 DEF Hinted
    <3>2. CASE ~(level >= Window)
      <4>. DEFINE r == RetryAfter(level, L)
      <4>1. /\ r \in Nat \ {0}
            /\ level + r * L >= Window
            /\ level + (r - 2) * L < Window
        BY <1>1, <1>3, <3>2, HintIsExact
      <4>2. bucket'[k].tokens = level /\ bucket'[k].last = t /\ hist'[k].retryAt = t + r
        BY <1>1, <3>2
      <4>. HIDE DEF level, r
      <4>3. (t + r) - t = r /\ ((t + r) - 2) - t = r - 2
        BY <1>1, <4>1
      <4>. QED BY <4>1, <4>2, <4>3 DEF Hinted, LevelAt
    <3>. QED BY <3>1, <3>2
  <2>. QED BY <2>1, <2>5, <2>6
<1>5. ASSUME NEW j \in present', j # k, NEW M \in Nat \ {0}, hist'[j].limits = {M}
      PROVE  InDebt(j, M)' /\ Hinted(j, M)'
  <2>1. j \in present /\ hist'[j] = hist[j] /\ bucket'[j] = bucket[j] /\ clock' = clock
    BY <1>1, <1>5
  <2>2. InDebt(j, M) /\ Hinted(j, M)
    BY <1>5, <2>1 DEF Hints
  <2>. QED BY <2>1, <2>2 DEF InDebt, Hinted, LevelAt
<1>6. \A j \in present' : hist'[j].limits # {}
  BY <1>1 DEF Hints
<1>. QED BY <1>4, <1>5, <1>6 DEF Hints

(* Whatever changes no bucket and no clock, or only forgets buckets.       *)
LEMMA FewerHints ==
  ASSUME Hints, clock' = clock, present' \subseteq present,
         \A k \in present' : hist'[k] = hist[k] /\ bucket'[k] = bucket[k]
  PROVE  Hints'
<1>1. ASSUME NEW k \in present', NEW L \in Nat \ {0}, hist'[k].limits = {L}
      PROVE  InDebt(k, L)' /\ Hinted(k, L)'
  <2>1. InDebt(k, L) /\ Hinted(k, L)
    BY <1>1 DEF Hints
  <2>. QED BY <2>1 DEF InDebt, Hinted, LevelAt
<1>2. \A k \in present' : hist'[k].limits # {}
  BY DEF Hints
<1>. QED BY <1>1, <1>2 DEF Hints

LEMMA HintsStep ==
  ASSUME TypeOK, Stamps, Hints, [Next]_vars
  PROVE  Hints'
<1>1. ASSUME NEW c \in Callers, Decide(c) PROVE Hints'
  BY <1>1, DecideHints
<1>2. CASE Sweep
  <2>1. \A k \in present' : hist'[k] = hist[k] /\ bucket'[k] = bucket[k]
    BY <1>2 DEF Sweep, Forgotten, TypeOK
  <2>. QED BY <1>2, <2>1, FewerHints DEF Sweep
<1>3. ASSUME NEW a \in Admins, Remove(a) PROVE Hints'
  <2>1. \A k \in present' : hist'[k] = hist[k] /\ bucket'[k] = bucket[k]
    BY <1>3 DEF Remove, TypeOK
  <2>. QED BY <1>3, <2>1, FewerHints DEF Remove
<1>4. CASE Tick
  <2>1. clock' = clock + 1 /\ UNCHANGED <<present, bucket, hist>> /\ clock \in Nat
    BY <1>4 DEF Tick, TypeOK
  <2>2. ASSUME NEW k \in present, NEW L \in Nat \ {0}, InDebt(k, L)
        PROVE  InDebt(k, L)'
    <3>1. bucket[k].tokens \in Int /\ bucket[k].last \in Nat
      BY DEF TypeOK
    <3>2. (clock + 1 - bucket[k].last) * L = (clock - bucket[k].last) * L + L
      BY <2>1, <3>1
    <3>3. (clock - bucket[k].last) * L \in Int
      BY <2>1, <3>1
    <3>. QED BY <2>1, <2>2, <3>1, <3>2, <3>3 DEF InDebt, LevelAt
  <2>3. ASSUME NEW k \in present, NEW L \in Nat \ {0}, Hinted(k, L)
        PROVE  Hinted(k, L)'
    BY <2>1, <2>3 DEF Hinted, LevelAt
  <2>. QED BY <2>1, <2>2, <2>3 DEF Hints
<1>5. CASE \/ \E c \in Callers, k \in Keys : Authenticate(c, k)
           \/ \E c \in Callers : Stamp(c)
           \/ SweepStamp
           \/ \E k \in Keys, r \in Rpms : CreateToken(k, r)
           \/ \E a \in Admins, k \in Keys : FindToken(a, k) \/ DeleteToken(a, k)
           \/ \E a \in Admins, r \in Rpms : UpdateToken(a, r)
           \/ \E k \in Keys : ExpireToken(k)
           \/ UNCHANGED vars
  <2>1. UNCHANGED <<clock, present, bucket, hist>>
    BY <1>5 DEF Authenticate, Stamp, SweepStamp, CreateToken, FindToken, DeleteToken,
                UpdateToken, ExpireToken, vars
  <2>. QED BY <2>1, FewerHints
<1>. QED
  BY <1>1, <1>2, <1>3, <1>4, <1>5 DEF Next

LEMMA HintsAlways == Spec => [](Stamps /\ Hints)
<1>1. Init => Stamps /\ Hints
  BY LimiterAssumption DEF Init, IdleCall, NoStamp, Stamps, Hints
<1>. QED
  BY <1>1, TypeCorrect, StampsStep, HintsStep, PTL DEF Spec

(* A late stamp takes tokens back, but never more than the lag of a call   *)
(* is worth: no client is told to stay away longer than that (Allow).      *)
THEOREM DebtIsBounded == Spec => []RetryBounded
<1>1. TypeOK /\ Hints => RetryBounded
  <2>. SUFFICES ASSUME TypeOK, Hints, NEW k \in present, NEW L \in Rpms \cup {DefaultRPM},
                       hist[k].limits = {L}
                PROVE  bucket[k].tokens >= -(L * MaxLag)
    BY DEF RetryBounded
  <2>1. L \in Nat \ {0}
    BY DEF TypeOK
  <2>. QED BY <2>1 DEF Hints, InDebt
<1>. QED BY <1>1, TypeCorrect, HintsAlways, PTL

(* Retry-After is enough, and not a whole second more than that (Allow's   *)
(* retry and rateLimitMiddleware's rounding).                              *)
THEOREM HintIsHonest == Spec => []RetryAccurate
<1>1. TypeOK /\ Hints => RetryAccurate
  <2>. SUFFICES ASSUME TypeOK, Hints, NEW k \in present, NEW L \in Rpms \cup {DefaultRPM},
                       hist[k].limits = {L}, hist[k].retryAt > 0
                PROVE  /\ LevelAt(k, L, hist[k].retryAt) >= Window
                       /\ LevelAt(k, L, hist[k].retryAt - 2) < Window
    BY DEF RetryAccurate, LevelAt
  <2>1. L \in Nat \ {0}
    BY DEF TypeOK
  <2>. QED BY <2>1 DEF Hints, Hinted
<1>. QED BY <1>1, TypeCorrect, HintsAlways, PTL
-----------------------------------------------------------------------------
(* The refinement of TokenBucket.  It needs what the specification needs:  *)
(* one limit for all tokens, and calls that wait for the mutex for less    *)
(* than half a window (60 s in the program).                               *)
OneLimit ==
  /\ DefaultRPM > 0
  /\ \A r \in Rpms : Limit(r) = DefaultRPM

ShortLag == 2 * MaxLag <= Window + 1

SameLimit ==
  /\ \A k \in Keys : rpm[k] \in Rpms \cup {Future, Expired, Deleted}
  /\ \A c \in Callers : calls[c].pc \in {"authed", "stamped"} => calls[c].limit = DefaultRPM
  /\ \A k \in present : hist[k].limits = {DefaultRPM}
  /\ \A a \in Admins : found[a] # NoKey => admins[a] = NoKey

LEMMA DecideSameLimit ==
  ASSUME TypeOK, SameLimit, NEW c \in Callers, Decide(c)
  PROVE  SameLimit'
<1>. SUFFICES ASSUME NEW k, k = calls[c].key, NEW L, L = calls[c].limit,
                     NEW t, t = calls[c].at
              PROVE  SameLimit'
  OBVIOUS
<1>1. /\ k \in present' /\ calls[c].pc = "stamped"
      /\ calls' = [calls EXCEPT ![c].pc = IF Refilled(k, t, L) >= Window
                                          THEN "admitted" ELSE "denied"]
      /\ \A j \in present' : j # k => j \in present /\ hist'[j] = hist[j]
      /\ hist'[k].limits = (IF k \in present THEN hist[k].limits ELSE {}) \cup {L}
      /\ UNCHANGED <<rpm, found, admins>>
  BY DecideEffect
<1>2. L = DefaultRPM
  BY <1>1 DEF SameLimit
<1>3. \A j \in present' : hist'[j].limits = {DefaultRPM}
  BY <1>1, <1>2 DEF SameLimit
<1>4. \A d \in Callers : calls'[d].pc \in {"authed", "stamped"} => calls'[d] = calls[d]
  <2>1. \A d \in Callers : calls[d] \in Call
    BY DEF TypeOK
  <2>2. \E pc \in {"admitted", "denied"} : calls' = [calls EXCEPT ![c].pc = pc]
    BY <1>1
  <2>. QED BY <2>1, <2>2 DEF TypeOK, Call
<1>. QED BY <1>1, <1>3, <1>4 DEF SameLimit

LEMMA SameLimitStep ==
  ASSUME OneLimit, TypeOK, SameLimit, [Next]_vars
  PROVE  SameLimit'
<1>. USE LimiterAssumption
<1>1. ASSUME NEW c \in Callers, NEW k \in Keys, Authenticate(c, k) PROVE SameLimit'
  <2>1. rpm[k] \in Rpms
    BY <1>1 DEF Authenticate, InForce, SameLimit, Future, Expired, Deleted
  <2>2. Limit(rpm[k]) = DefaultRPM
    BY <2>1 DEF OneLimit
  <2>. QED BY <1>1, <2>2 DEF Authenticate, SameLimit, TypeOK
<1>2. ASSUME NEW c \in Callers, Stamp(c) PROVE SameLimit'
  <2>1. \A d \in Callers : /\ calls'[d].limit = calls[d].limit
                           /\ calls'[d].pc = "authed" => calls[d].pc = "authed"
                           /\ calls'[d].pc = "stamped" => calls[d].pc \in {"authed", "stamped"}
    BY <1>2 DEF Stamp, TypeOK, Call
  <2>. QED BY <1>2, <2>1 DEF Stamp, SameLimit
<1>3. ASSUME NEW c \in Callers, Decide(c) PROVE SameLimit'
  BY <1>3, DecideSameLimit
<1>4. CASE Sweep
  BY <1>4 DEF Sweep, Forgotten, SameLimit, TypeOK
<1>5. ASSUME NEW k \in Keys, NEW r \in Rpms, CreateToken(k, r) PROVE SameLimit'
  BY <1>5 DEF CreateToken, SameLimit, TypeOK
<1>6. ASSUME NEW a \in Admins, NEW k \in Keys, FindToken(a, k) PROVE SameLimit'
  BY <1>6 DEF FindToken, SameLimit, TypeOK
<1>7. ASSUME NEW a \in Admins, NEW r \in Rpms, UpdateToken(a, r) PROVE SameLimit'
  BY <1>7 DEF UpdateToken, SameLimit, TypeOK
<1>8. ASSUME NEW a \in Admins, NEW k \in Keys, DeleteToken(a, k) PROVE SameLimit'
  BY <1>8 DEF DeleteToken, SameLimit, TypeOK
<1>9. ASSUME NEW a \in Admins, Remove(a) PROVE SameLimit'
  BY <1>9 DEF Remove, SameLimit, TypeOK
<1>10. ASSUME NEW k \in Keys, ExpireToken(k) PROVE SameLimit'
  BY <1>10 DEF ExpireToken, SameLimit, TypeOK
<1>11. CASE SweepStamp \/ Tick \/ UNCHANGED vars
  BY <1>11 DEF SweepStamp, Tick, vars, SameLimit
<1>. QED
  BY <1>1, <1>2, <1>3, <1>4, <1>5, <1>6, <1>7, <1>8, <1>9, <1>10, <1>11 DEF Next

LEMMA DueType ==
  ASSUME TypeOK
  PROVE  /\ LongAgo \in Int
         /\ \A k \in present : FullAt(k) \in Int /\ k \in Keys
         /\ \A k \in Keys : Due[k] \in Int
<1>1. LongAgo \in Int
  BY LimiterAssumption DEF TypeOK, LongAgo
<1>2. ASSUME NEW k \in present PROVE FullAt(k) \in Int /\ k \in Keys
  <2>1. k \in Keys /\ bucket[k].last \in Nat /\ bucket[k].tokens \in Int
    BY DEF TypeOK
  <2>. QED BY <2>1, LimiterAssumption DEF FullAt
<1>. QED BY <1>1, <1>2 DEF Due

(* A bucket that a sweep stamped by now forgets was full long ago.         *)
LEMMA IdleIsFull ==
  ASSUME OneLimit, ShortLag, TypeOK, Hints, SameLimit, NEW k \in present,
         NEW t \in Nat, t <= clock, t - bucket[k].last > 2 * Window
  PROVE  FullAt(k) <= LongAgo
<1>. DEFINE D == DefaultRPM
            last == bucket[k].last
            tokens == bucket[k].tokens
<1>1. last \in Nat /\ tokens \in Int /\ clock \in Nat
  BY DEF TypeOK
<1>2. D \in Nat \ {0}
  BY LimiterAssumption DEF OneLimit
<1>3. tokens >= -(D * MaxLag)
  BY <1>2 DEF Hints, SameLimit, InDebt
<1>4. last + Window + MaxLag <= clock - MaxLag
  BY <1>1, LimiterAssumption DEF ShortLag
<1>5. D * (last + Window + MaxLag) <= D * (clock - MaxLag)
  BY <1>1, <1>2, <1>4, LimiterAssumption, TimesMonotonic
<1>6. /\ D * (last + Window + MaxLag) = D * (last + Window) + D * MaxLag
      /\ D * (last + Window) \in Int /\ D * MaxLag \in Int /\ D * (clock - MaxLag) \in Int
  BY <1>1, <1>2, LimiterAssumption
<1>7. D * (last + Window) - tokens <= D * (clock - MaxLag)
  <2>. HIDE DEF last, tokens, D
  <2>. QED BY <1>1, <1>3, <1>5, <1>6
<1>. QED BY <1>7 DEF FullAt, LongAgo

(* The rule of admission, and when the bucket is full after a decision.    *)
LEMMA LevelAndDue ==
  ASSUME NEW D \in Nat \ {0}, NEW W \in Nat \ {0}, NEW tokens \in Int, NEW last \in Nat,
         NEW t \in Nat
  PROVE  LET level == tokens + (t - last) * D
             full  == D * (last + W) - tokens
         IN  /\ level \in Int /\ full \in Int /\ D * W \in Nat /\ D * W >= W
             /\ D * (t + W) \in Int /\ D * t \in Int
             /\ level >= W <=> full <= D * t + (D - 1) * W
             /\ D * (t + W) - level = full
             /\ D * (t + W) - D * W = D * t
             /\ level >= D * W <=> full <= D * t
             /\ D * t <= D * t + (D - 1) * W
<1>. DEFINE level == tokens + (t - last) * D
            full  == D * (last + W) - tokens
<1>1. D * W \in Nat /\ D * W >= W /\ D * t \in Nat /\ D * last \in Nat
  OBVIOUS
<1>2. /\ (t - last) * D = D * t - D * last
      /\ D * (last + W) = D * last + D * W
      /\ D * (t + W) = D * t + D * W
      /\ (D - 1) * W = D * W - W
  OBVIOUS
<1>3. level = tokens + D * t - D * last /\ full = D * last + D * W - tokens
  BY <1>1, <1>2
<1>. HIDE DEF level, full
<1>4. /\ level \in Int /\ full \in Int /\ D * W \in Nat /\ D * W >= W
      /\ D * (t + W) \in Int /\ D * t \in Int
      /\ level >= W <=> full <= D * t + (D - 1) * W
      /\ D * (t + W) - level = full
      /\ D * (t + W) - D * W = D * t
      /\ level >= D * W <=> full <= D * t
      /\ D * t <= D * t + (D - 1) * W
  BY <1>1, <1>2, <1>3
<1>. QED BY <1>4 DEF level, full

(* The abstract bucket of a key that keeps its bucket, or never had one.   *)
LEMMA DueKept ==
  ASSUME TypeOK, clock' = clock, NEW j \in Keys,
         j \in present' => j \in present /\ bucket'[j] = bucket[j],
         j \in present /\ j \notin present' => FullAt(j) <= LongAgo
  PROVE  Due'[j] = Due[j]
<1>1. LongAgo' = LongAgo
  BY DEF LongAgo
<1>2. CASE j \in present'
  BY <1>1, <1>2 DEF Due, FullAt
<1>3. CASE j \notin present' /\ j \notin present
  BY <1>1, <1>3 DEF Due
<1>4. CASE j \notin present' /\ j \in present
  <2>1. Due'[j] = LongAgo
    BY <1>1, <1>4 DEF Due
  <2>2. FullAt(j) \in Int /\ LongAgo \in Int /\ FullAt(j) <= LongAgo
    BY <1>4, DueType
  <2>3. ~(FullAt(j) > LongAgo)
    BY <2>2
  <2>. QED BY <2>1, <2>3 DEF Due
<1>. QED BY <1>2, <1>3, <1>4

(* The answer of a decision, and the due time it leaves.                   *)
LEMMA DecideOne ==
  ASSUME OneLimit, TypeOK, Stamps, Hints, SameLimit, NEW c \in Callers, Decide(c),
         NEW k, k = calls[c].key, NEW t, t = calls[c].at
  PROVE  LET ok == Due[k] <= DefaultRPM * t + (DefaultRPM - 1) * Window
         IN  /\ Due'[k] = IF ok THEN TB!Later(Due[k], DefaultRPM * t) + Window ELSE Due[k]
             /\ calls' = [calls EXCEPT ![c].pc = IF ok THEN "admitted" ELSE "denied"]
             /\ k \in Keys /\ t \in (clock - MaxLag)..clock
<1>. DEFINE D == DefaultRPM
            level == Refilled(k, t, D)
            last == bucket[k].last
            tokens == bucket[k].tokens
            full == D * (last + Window) - tokens
            ok == Due[k] <= D * t + (D - 1) * Window
<1>1. D \in Nat \ {0} /\ Window \in Nat \ {0} /\ MaxLag \in Nat /\ clock \in Nat
  BY LimiterAssumption DEF OneLimit, TypeOK
<1>2. calls[c].limit = D /\ calls[c].pc = "stamped"
  BY DEF Decide, SameLimit
<1>3. /\ k \in Keys /\ t \in Nat /\ t <= clock
      /\ k \in present'
      /\ bucket'[k].tokens = IF level >= Window THEN level - Window ELSE level
      /\ bucket'[k].last = t
      /\ calls' = [calls EXCEPT ![c].pc = IF level >= Window THEN "admitted" ELSE "denied"]
      /\ clock' = clock
  <2>1. PICK L : L = calls[c].limit
    OBVIOUS
  <2>2. /\ k \in Keys /\ t \in Nat /\ t <= clock
        /\ k \in present'
        /\ bucket'[k].tokens = IF Refilled(k, t, L) >= Window
                               THEN Refilled(k, t, L) - Window ELSE Refilled(k, t, L)
        /\ bucket'[k].last = t
        /\ calls' = [calls EXCEPT ![c].pc = IF Refilled(k, t, L) >= Window
                                            THEN "admitted" ELSE "denied"]
        /\ clock' = clock
    BY <2>1, DecideEffect
  <2>. QED BY <1>2, <2>1, <2>2
<1>4. clock <= t + MaxLag
  BY <1>2 DEF Stamps
<1>5. LongAgo = D * (clock - MaxLag) /\ LongAgo' = LongAgo
  BY <1>3 DEF LongAgo
<1>6. LongAgo \in Int /\ LongAgo <= D * t
  <2>1. clock - MaxLag <= t /\ clock - MaxLag \in Int
    BY <1>1, <1>3, <1>4
  <2>. QED BY <1>1, <1>3, <1>5, <2>1, TimesMonotonic
<1>7. tokens \in Int /\ last \in Nat
  BY <1>3 DEF TypeOK
<1>8. /\ tokens + (t - last) * D \in Int /\ full \in Int /\ D * Window \in Nat
      /\ D * Window >= Window
      /\ D * (t + Window) \in Int /\ D * t \in Int
      /\ tokens + (t - last) * D >= Window <=> full <= D * t + (D - 1) * Window
      /\ D * (t + Window) - (tokens + (t - last) * D) = full
      /\ D * (t + Window) - D * Window = D * t
      /\ tokens + (t - last) * D >= D * Window <=> full <= D * t
      /\ D * t <= D * t + (D - 1) * Window
  <2>1. D \in Nat \ {0} /\ Window \in Nat \ {0} /\ tokens \in Int /\ last \in Nat /\ t \in Nat
    BY <1>1, <1>3, <1>7
  <2>. HIDE DEF D, tokens, last
  <2>. QED BY <2>1, LevelAndDue
<1>9. (D - 1) * Window \in Nat
  BY <1>1
<1>10. FullAt(k)' = D * (t + Window) - (IF level >= Window THEN level - Window ELSE level)
  BY <1>3 DEF FullAt
<1>11. Due'[k] = IF FullAt(k)' > LongAgo THEN FullAt(k)' ELSE LongAgo
  BY <1>3, <1>5 DEF Due
<1>12. k \in Keys /\ t \in (clock - MaxLag)..clock
  BY <1>1, <1>3, <1>4
<1>13. CASE k \notin present
  <2>1. Due[k] = LongAgo
    BY <1>3, <1>13 DEF Due
  <2>2. level = D * Window
    BY <1>1, <1>3, <1>13, RefilledLevel
  <2>. HIDE DEF level, D, full
  <2>3. ok /\ level >= Window
    BY <1>6, <1>8, <1>9, <2>1, <2>2 DEF ok
  <2>4. FullAt(k)' = D * t + Window
    BY <1>1, <1>8, <1>10, <2>2, <2>3
  <2>5. Due'[k] = D * t + Window
    BY <1>1, <1>6, <1>8, <1>11, <2>4
  <2>6. TB!Later(Due[k], D * t) = D * t
    BY <1>6, <1>8, <2>1 DEF TB!Later
  <2>. QED BY <1>1, <1>3, <1>4, <2>3, <2>5, <2>6 DEF ok, D
<1>14. CASE k \in present
  <2>1. Due[k] = IF full > LongAgo THEN full ELSE LongAgo
    BY <1>3, <1>14 DEF Due, FullAt
  <2>2. \/ level = D * Window /\ tokens + (t - last) * D >= D * Window
        \/ level = tokens + (t - last) * D /\ tokens + (t - last) * D <= D * Window
    BY <1>1, <1>3, <1>14, RefilledLevel
  <2>. DEFINE plain == tokens + (t - last) * D
  <2>3. plain \in Int /\ full \in Int /\ D * (t + Window) \in Int /\ D * t \in Int
    BY <1>8
  <2>. HIDE DEF level, full, plain
  <2>4. level \in Int
    BY <1>8, <2>2
  <2>5. level >= Window <=> plain >= Window
    BY <1>1, <1>8, <2>2, <2>3 DEF plain
  <2>6. Due[k] \in Int /\ (Due[k] <= D * t + (D - 1) * Window <=> full <= D * t + (D - 1) * Window)
    BY <1>6, <1>8, <1>9, <2>1, <2>3
  <2>7. ok <=> level >= Window
    BY <1>8, <2>5, <2>6 DEF plain, ok
  <2>8. CASE level >= Window
    <3>1. TB!Later(Due[k], D * t) = TB!Later(full, D * t)
      BY <1>6, <1>8, <2>1, <2>3 DEF TB!Later
    <3>2. D * (t + Window) - level = TB!Later(full, D * t)
      BY <1>8, <2>2, <2>3 DEF TB!Later, plain
    <3>3. TB!Later(full, D * t) \in Int /\ TB!Later(full, D * t) >= D * t
      BY <2>3 DEF TB!Later
    <3>4. FullAt(k)' = TB!Later(full, D * t) + Window
      BY <1>1, <1>10, <2>3, <2>4, <2>8, <3>2, <3>3
    <3>5. Due'[k] = TB!Later(full, D * t) + Window
      BY <1>1, <1>6, <1>11, <2>3, <3>3, <3>4
    <3>6. Due'[k] = IF ok THEN TB!Later(Due[k], D * t) + Window ELSE Due[k]
      BY <2>7, <2>8, <3>1, <3>5
    <3>7. calls' = [calls EXCEPT ![c].pc = IF ok THEN "admitted" ELSE "denied"]
      BY <1>3, <2>7, <2>8
    <3>. QED BY <1>12, <3>6, <3>7 DEF ok, D
  <2>9. CASE ~(level >= Window)
    <3>1. level = plain
      BY <1>1, <1>8, <2>2, <2>3, <2>4, <2>9 DEF plain
    <3>2. FullAt(k)' = full
      BY <1>8, <1>10, <2>9, <3>1 DEF plain
    <3>3. Due'[k] = Due[k]
      BY <1>11, <2>1, <3>2
    <3>4. Due'[k] = IF ok THEN TB!Later(Due[k], D * t) + Window ELSE Due[k]
      BY <2>7, <2>9, <3>3
    <3>5. calls' = [calls EXCEPT ![c].pc = IF ok THEN "admitted" ELSE "denied"]
      BY <1>3, <2>7, <2>9
    <3>. QED BY <1>12, <3>4, <3>5 DEF ok, D
  <2>. QED BY <2>8, <2>9
<1>. QED BY <1>13, <1>14

LEMMA DecideAnswers ==
  ASSUME OneLimit, ShortLag, TypeOK, Stamps, Hints, SameLimit, NEW c \in Callers, Decide(c)
  PROVE  TB!Next
<1>. SUFFICES ASSUME NEW k, k = calls[c].key, NEW t, t = calls[c].at
              PROVE  TB!Next
  OBVIOUS
<1>. DEFINE ok == Due[k] <= DefaultRPM * t + (DefaultRPM - 1) * Window
<1>1. /\ Due'[k] = IF ok THEN TB!Later(Due[k], DefaultRPM * t) + Window ELSE Due[k]
      /\ calls' = [calls EXCEPT ![c].pc = IF ok THEN "admitted" ELSE "denied"]
      /\ k \in Keys /\ t \in (clock - MaxLag)..clock
  BY DecideOne
<1>2. ASSUME NEW j \in Keys, j # k PROVE Due'[j] = Due[j]
  <2>1. PICK L : L = calls[c].limit
    OBVIOUS
  <2>2. /\ clock' = clock /\ t \in Nat /\ t <= clock
        /\ bucket'[k].tokens = IF Refilled(k, t, L) >= Window
                               THEN Refilled(k, t, L) - Window ELSE Refilled(k, t, L)
        /\ \A i \in present' : i # k => i \in present /\ bucket'[i] = bucket[i]
        /\ \A i \in present : i \notin present' => t - bucket[i].last > 2 * Window
    BY <2>1, DecideEffect
  <2>3. j \in present /\ j \notin present' => FullAt(j) <= LongAgo
    BY <2>2, IdleIsFull
  <2>. QED BY <1>2, <2>2, <2>3, DueKept
<1>. DEFINE step == IF ok THEN TB!Later(Due[k], DefaultRPM * t) + Window ELSE Due[k]
<1>3. Due' = [Due EXCEPT ![k] = step]
  <2>1. DOMAIN Due = Keys /\ DOMAIN Due' = Keys /\ Due = [j \in Keys |-> Due[j]]
          /\ Due' = [j \in Keys |-> Due'[j]]
    BY DEF Due
  <2>2. Due'[k] = step
    BY <1>1
  <2>. HIDE DEF step
  <2>. QED BY <1>1, <1>2, <2>1, <2>2
<1>4. Due' = IF ok THEN [Due EXCEPT ![k] = TB!Later(@, DefaultRPM * t) + Window] ELSE Due
  <2>1. CASE ok
    BY <1>3, <2>1
  <2>2. CASE ~ok
    <3>1. Due' = [Due EXCEPT ![k] = Due[k]]
      BY <1>3, <2>2
    <3>2. Due = [j \in Keys |-> Due[j]]
      BY DEF Due
    <3>3. [Due EXCEPT ![k] = Due[k]] = Due
      BY <1>1, <3>2
    <3>. QED BY <2>2, <3>1, <3>3
  <2>. QED BY <2>1, <2>2
<1>. HIDE DEF ok
<1>5. Answers[c] = {}
  BY DEF Decide, Answers
<1>6. Answers' = [Answers EXCEPT ![c] = {[key |-> k, at |-> t, ok |-> ok]}]
  <2>1. ASSUME NEW d \in Callers, d # c PROVE calls'[d] = calls[d]
    BY <1>1, <2>1 DEF TypeOK
  <2>2. calls[c] \in Call
    BY DEF TypeOK
  <2>3. /\ calls'[c].key = k /\ calls'[c].at = t
        /\ calls'[c].pc = IF ok THEN "admitted" ELSE "denied"
    BY <1>1, <2>2 DEF TypeOK, Call
  <2>4. (calls'[c].pc = "admitted") = ok
    BY <2>3 DEF ok
  <2>5. Answers'[c] = {[key |-> k, at |-> t, ok |-> ok]}
    BY <2>3, <2>4 DEF Answers
  <2>6. \A d \in Callers : d # c => Answers'[d] = Answers[d]
    BY <2>1 DEF Answers
  <2>7. Answers = [d \in Callers |-> Answers[d]] /\ Answers' = [d \in Callers |-> Answers'[d]]
    BY DEF Answers
  <2>. QED BY <2>5, <2>6, <2>7
<1>7. UNCHANGED <<clock, admins>>
  BY DEF Decide
<1>8. TB!Answer(c, k, t)
  BY <1>4, <1>5, <1>6, <1>7 DEF TB!Answer, TB!NoAnswer, ok
<1>. QED BY <1>1, <1>8 DEF TB!Next

(* What leaves clock and buckets alone leaves the due times alone.         *)
LEMMA SameDue ==
  ASSUME UNCHANGED <<clock, present, bucket>>
  PROVE  Due' = Due
  BY DEF Due, FullAt, LongAgo

LEMMA SweepIsInvisible ==
  ASSUME OneLimit, ShortLag, TypeOK, Stamps, Hints, SameLimit, Sweep
  PROVE  UNCHANGED TB!tbVars
<1>1. /\ sweeper \in Nat /\ sweeper <= clock /\ clock' = clock
      /\ present' = present \ Idle(sweeper)
      /\ bucket' = Forgotten(bucket, Idle(sweeper), NoBucket)
      /\ UNCHANGED <<calls, admins>>
  BY DEF Sweep, Stamps, TypeOK
<1>2. ASSUME NEW j \in Keys PROVE Due'[j] = Due[j]
  <2>1. j \in present' => j \in present /\ bucket'[j] = bucket[j]
    BY <1>1 DEF Forgotten
  <2>2. j \in present /\ j \notin present' => FullAt(j) <= LongAgo
    BY <1>1, IdleIsFull DEF Idle
  <2>. QED BY <1>1, <2>1, <2>2, DueKept
<1>3. Due' = Due
  BY <1>2 DEF Due
<1>4. Answers' = Answers
  BY <1>1 DEF Answers
<1>. QED BY <1>1, <1>3, <1>4 DEF TB!tbVars

LEMMA RemoveResets ==
  ASSUME TypeOK, NEW a \in Admins, Remove(a)
  PROVE  TB!Next
<1>. DEFINE k == admins[a]
<1>1. /\ k # NoKey /\ k \in Keys
      /\ present' = present \ {k}
      /\ bucket' = [bucket EXCEPT ![k] = NoBucket]
      /\ admins' = [admins EXCEPT ![a] = NoKey]
      /\ UNCHANGED <<clock, calls>>
  BY DEF Remove, TypeOK
<1>2. LongAgo' = LongAgo
  BY <1>1 DEF LongAgo
<1>3. Due'[k] = LongAgo
  BY <1>1, <1>2 DEF Due
<1>4. ASSUME NEW j \in Keys, j # k PROVE Due'[j] = Due[j]
  <2>1. bucket'[j] = bucket[j] /\ (j \in present' <=> j \in present)
    BY <1>1, <1>4 DEF TypeOK
  <2>. QED BY <1>2, <2>1 DEF Due, FullAt
<1>5. Due' = [Due EXCEPT ![k] = LongAgo]
  <2>1. Due = [j \in Keys |-> Due[j]] /\ Due' = [j \in Keys |-> Due'[j]]
    BY DEF Due
  <2>. QED BY <1>1, <1>3, <1>4, <2>1
<1>6. Answers' = Answers
  BY <1>1 DEF Answers
<1>7. TB!Reset(a)
  BY <1>1, <1>5, <1>6 DEF TB!Reset, TB!Horizon, LongAgo
<1>. QED BY <1>7 DEF TB!Next

LEMMA TickTicks ==
  ASSUME TypeOK, Tick
  PROVE  TB!Next
<1>1. clock' = clock + 1 /\ UNCHANGED <<present, bucket, calls, admins>> /\ clock \in Nat
  BY DEF Tick, TypeOK
<1>2. LongAgo \in Int /\ LongAgo' \in Int /\ LongAgo <= LongAgo'
  <2>1. clock - MaxLag <= clock' - MaxLag /\ clock - MaxLag \in Int /\ clock' - MaxLag \in Int
    BY <1>1, LimiterAssumption
  <2>. QED BY <2>1, LimiterAssumption, TimesMonotonic DEF LongAgo
<1>3. ASSUME NEW k \in Keys PROVE Due'[k] = TB!Later(Due[k], LongAgo')
  <2>1. k \in present => FullAt(k) \in Int /\ FullAt(k)' = FullAt(k)
    BY <1>1, DueType DEF FullAt
  <2>2. CASE k \in present
    BY <1>1, <1>2, <2>1, <2>2 DEF Due, TB!Later
  <2>3. CASE k \notin present
    BY <1>1, <1>2, <2>3 DEF Due, TB!Later
  <2>. QED BY <2>2, <2>3
<1>4. Due' = [k \in Keys |-> TB!Later(Due[k], LongAgo')]
  BY <1>3 DEF Due
<1>5. LongAgo' = TB!Horizon(clock')
  BY DEF LongAgo, TB!Horizon
<1>6. Answers' = Answers
  BY <1>1 DEF Answers
<1>7. TB!Tick
  BY <1>1, <1>4, <1>5, <1>6 DEF TB!Tick
<1>. QED BY <1>7 DEF TB!Next

LEMMA AuthenticateAsks ==
  ASSUME TypeOK, NEW c \in Callers, NEW k \in Keys, Authenticate(c, k)
  PROVE  TB!Next \/ UNCHANGED TB!tbVars
<1>1. UNCHANGED <<clock, present, bucket, admins>>
  BY DEF Authenticate
<1>2. Due' = Due
  BY <1>1, SameDue
<1>3. calls'[c].pc = "authed" /\ \A d \in Callers : d # c => calls'[d] = calls[d]
  BY DEF Authenticate, TypeOK
<1>4. Answers'[c] = {} /\ \A d \in Callers : d # c => Answers'[d] = Answers[d]
  BY <1>3 DEF Answers
<1>5. Answers = [d \in Callers |-> Answers[d]] /\ Answers' = [d \in Callers |-> Answers'[d]]
  BY DEF Answers
<1>6. Answers' = [Answers EXCEPT ![c] = {}]
  BY <1>4, <1>5
<1>7. CASE Answers[c] = {}
  <2>1. Answers' = Answers
    BY <1>4, <1>5, <1>7
  <2>. QED BY <1>1, <1>2, <2>1 DEF TB!tbVars
<1>8. CASE Answers[c] # {}
  BY <1>1, <1>2, <1>6, <1>8 DEF TB!Next, TB!Ask, TB!NoAnswer
<1>. QED BY <1>7, <1>8

LEMMA HandlersChange ==
  ASSUME TypeOK, SameLimit, NEW a \in Admins,
         (\E r \in Rpms : UpdateToken(a, r)) \/ (\E k \in Keys : DeleteToken(a, k))
  PROVE  TB!Next
<1>1. UNCHANGED <<clock, present, bucket, calls>>
  BY DEF UpdateToken, DeleteToken
<1>2. Due' = Due /\ Answers' = Answers
  BY <1>1, SameDue DEF Answers
<1>3. \E k \in Keys : admins[a] = NoKey /\ admins' = [admins EXCEPT ![a] = k]
  <2>1. CASE \E r \in Rpms : UpdateToken(a, r)
    BY <2>1 DEF UpdateToken, TypeOK, SameLimit
  <2>2. CASE \E k \in Keys : DeleteToken(a, k)
    BY <2>2 DEF DeleteToken
  <2>. QED BY <2>1, <2>2
<1>4. \E k \in Keys : TB!Change(a, k)
  BY <1>1, <1>2, <1>3 DEF TB!Change
<1>. QED BY <1>4 DEF TB!Next

LEMMA RestStutters ==
  ASSUME TypeOK,
         \/ \E c \in Callers : Stamp(c)
         \/ SweepStamp
         \/ \E k \in Keys, r \in Rpms : CreateToken(k, r)
         \/ \E a \in Admins, k \in Keys : FindToken(a, k)
         \/ \E k \in Keys : ExpireToken(k)
         \/ UNCHANGED vars
  PROVE  UNCHANGED TB!tbVars
<1>1. UNCHANGED <<clock, present, bucket, admins>>
  BY DEF Stamp, SweepStamp, CreateToken, FindToken, ExpireToken, vars
<1>2. Due' = Due
  BY <1>1, SameDue
<1>3. ASSUME NEW c \in Callers, Stamp(c) PROVE Answers' = Answers
  <2>1. \A d \in Callers : d # c => calls'[d] = calls[d]
    BY <1>3 DEF Stamp, TypeOK
  <2>2. calls[c].pc = "authed" /\ calls'[c].pc = "stamped"
    BY <1>3 DEF Stamp, TypeOK, Call
  <2>. QED BY <2>1, <2>2 DEF Answers
<1>4. (~\E c \in Callers : Stamp(c)) => calls' = calls
  BY DEF SweepStamp, CreateToken, FindToken, ExpireToken, vars
<1>5. Answers' = Answers
  BY <1>3, <1>4 DEF Answers
<1>. QED BY <1>1, <1>2, <1>5 DEF TB!tbVars

(* Sweeps, late stamps and buckets created anew do not show: with one      *)
(* limit for all tokens, the limiter answers every call as a bucket per    *)
(* key that is never forgotten would (Allow, Remove, Sweep).               *)
THEOREM SweepsAreInvisible ==
  ASSUME OneLimit, ShortLag
  PROVE  Spec => ImplementsTokenBucket
<1>1. Init => TB!Init
  BY DEF Init, IdleCall, TB!Init, TB!Horizon, TB!NoAnswer, Due, LongAgo, Answers
<1>2. Init => SameLimit
  BY DEF Init, IdleCall, SameLimit
<1>3. /\ TypeOK /\ Stamps /\ Hints /\ SameLimit /\ [Next]_vars
      => [TB!Next]_(TB!tbVars)
  <2>. SUFFICES ASSUME TypeOK, Stamps, Hints, SameLimit, [Next]_vars
                PROVE  TB!Next \/ UNCHANGED TB!tbVars
    OBVIOUS
  <2>. QED
    BY AuthenticateAsks, DecideAnswers, SweepIsInvisible, HandlersChange, RemoveResets,
       TickTicks, RestStutters DEF Next
<1>4. TypeOK /\ SameLimit /\ [Next]_vars => SameLimit'
  BY SameLimitStep
<1>. QED
  BY <1>1, <1>2, <1>3, <1>4, TypeCorrect, HintsAlways, PTL
     DEF Spec, ImplementsTokenBucket, TB!Spec
=============================================================================
