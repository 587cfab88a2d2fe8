---------------------------- MODULE RateLimiter ----------------------------
(***************************************************************************)
(* The per-token rate limiter of the proxy (internal/ratelimit) together   *)
(* with the callers that make it hard: the proxy chain, which reads a      *)
(* token's limit from the database, stamps the time and only then takes    *)
(* the limiter's mutex, and the administrators' handlers, which change or  *)
(* revoke a token in the database and then remove its bucket.              *)
(*                                                                         *)
(* Tokens are counted in units of 1/Window token, so that a limit of L per *)
(* window refills L units per tick and one request costs Window units: the *)
(* arithmetic of the code is then exact on integers.  Time is in ticks.    *)
(***************************************************************************)
EXTENDS Integers, FiniteSets

CONSTANTS
  Keys,         \* identifiers of proxy tokens, the keys of the bucket map
  Callers,      \* proxy requests in flight at the same time
  Admins,       \* administrators' requests in flight at the same time
  Rpms,         \* the limits an administrator may give a token (0 = default)
  DefaultRPM,   \* cfg.RateLimit.DefaultRPM (0 = no default limit)
  Window,       \* the limiter's window, in ticks
  MaxKeys,      \* maxKeys: a new bucket beyond it triggers a sweep
  NoKey,        \* no token: the key of an idle slot
  MaxLag,       \* bound: ticks between a call's stamp and its turn in the lock
  MaxClock      \* bound: the last tick

ASSUME LimiterAssumption ==
  /\ NoKey \notin Keys
  /\ Rpms \subseteq Nat
  /\ DefaultRPM \in Nat
  /\ Window \in Nat \ {0}
  /\ MaxKeys \in Nat
  /\ MaxLag \in Nat
  /\ MaxClock \in Nat

VARIABLES
  clock,    \* time.Now()
  rpm,      \* rate_limit_rpm of each row of proxy_tokens that is in force
  present,  \* the keys of Limiter.buckets
  bucket,   \* the bucket of each key in present
  calls,    \* each proxy request: where it is, and what it has read so far
  found,    \* each administrator's request: the row updateToken has found
  admins,   \* each administrator's request: the key it has still to Remove
  sweeper,  \* the stamp of a background Sweep waiting for the lock, or NoStamp
  hist      \* history: what happened to each key since its bucket was created

vars == <<clock, rpm, present, bucket, calls, found, admins, sweeper, hist>>

(* Identifiers without a row to authenticate with: not given to a token    *)
(* yet, expired, or deleted.  An identifier is given only once.            *)
Future == -1
Expired == -2
Deleted == -3
InForce(k) == rpm[k] >= 0
HasRow(k) == rpm[k] \notin {Future, Deleted}

NoStamp == -1
NoBucket == [tokens |-> 0, last |-> 0]
IdleCall == [pc |-> "idle", key |-> NoKey, limit |-> 0, at |-> 0]

(* A slot whose last request has been answered may take the next one.      *)
Free == {"idle", "admitted", "denied"}

(* hist[k]: when the bucket was created (the stamp of the creating call),  *)
(* the calls it has admitted, the limits it has been used with, and the    *)
(* tick the last 429 told its client to come back at (0: none since the    *)
(* last admission).                                                        *)
NoHist == [born |-> 0, admitted |-> 0, limits |-> {}, retryAt |-> 0]

Least(a, b) == IF a <= b THEN a ELSE b

(* The limit a request runs with: the token's own, else the default.       *)
Limit(r) == IF r > 0 THEN r ELSE DefaultRPM

Init ==
  /\ clock = 0
  /\ rpm \in [Keys -> Rpms \cup {Future}]
  /\ present = {}
  /\ bucket = [k \in Keys |-> NoBucket]
  /\ calls = [c \in Callers |-> IdleCall]
  /\ found = [a \in Admins |-> NoKey]
  /\ admins = [a \in Admins |-> NoKey]
  /\ sweeper = NoStamp
  /\ hist = [k \in Keys |-> NoHist]
-----------------------------------------------------------------------------
(* The proxy chain.                                                        *)

AuthenticateOwnLimit(c, k) ==
  /\ calls[c].pc \in Free
  /\ InForce(k)
  /\ calls' = [calls EXCEPT ![c] =
                 [pc |-> "authed", key |-> k, limit |-> rpm[k], at |-> 0]]
  /\ UNCHANGED <<clock, rpm, present, bucket, found, admins, sweeper, hist>>

(* ValidToken finds the row and the middleware keeps its id and its limit  *)
(* in the request's context; without any limit the limiter is not called.  *)
Authenticate(c, k) ==
  /\ calls[c].pc \in Free
  /\ InForce(k)
  /\ Limit(rpm[k]) > 0
  /\ calls' = [calls EXCEPT ![c] =
                 [pc |-> "authed", key |-> k, limit |-> Limit(rpm[k]), at |-> 0]]
  /\ UNCHANGED <<clock, rpm, present, bucket, found, admins, sweeper, hist>>

(* Allow reads the clock before it asks for the mutex.                     *)
Stamp(c) ==
  /\ calls[c].pc = "authed"
  /\ calls' = [calls EXCEPT ![c].pc = "stamped", ![c].at = clock]
  /\ UNCHANGED <<clock, rpm, present, bucket, found, admins, sweeper, hist>>

IdleHalf(t) == {k \in present : t - bucket[k].last > Window \div 2}

(* The keys sweepLocked deletes: idle for more than two windows at t.      *)
Idle(t) == {k \in present : t - bucket[k].last > 2 * Window}

(* What is left in the map when a call for k stamped t gets the mutex: a   *)
(* call without a bucket sweeps first when the map is full.                *)
Kept(k, t) ==
  IF k \notin present /\ Cardinality(present) >= MaxKeys
  THEN present \ Idle(t)
  ELSE present

RefilledForward(k, t, L) ==
  IF k \in present
  THEN IF t > bucket[k].last
       THEN Least(L * Window, bucket[k].tokens + (t - bucket[k].last) * L)
       ELSE bucket[k].tokens
  ELSE L * Window

(* The level after the refill for the time since the last call, at most    *)
(* the capacity L * Window.  A new bucket's zero time fills it.            *)
Refilled(k, t, L) ==
  IF k \in present
  THEN Least(L * Window, bucket[k].tokens + (t - bucket[k].last) * L)
  ELSE L * Window

SomeLeft(level) == level > 0

(* A whole token.                                                          *)
Enough(level) == level >= Window

RetryAfterFloor(level, L) == (Window - level) \div L

(* The whole seconds of the Retry-After header: int(retry/second) + 1.     *)
RetryAfter(level, L) == ((Window - level) \div L) + 1

Forgotten(f, gone, none) == [k \in Keys |-> IF k \in gone THEN none ELSE f[k]]

(* The critical section of Allow.                                          *)
Decide(c) ==
  LET k     == calls[c].key
      L     == calls[c].limit
      t     == calls[c].at
      level == Refilled(k, t, L)
      ok    == Enough(level)
      gone  == present \ Kept(k, t)
      old   == IF k \in present THEN hist[k] ELSE [NoHist EXCEPT !.born = t]
  IN
  /\ calls[c].pc = "stamped"
  /\ present' = Kept(k, t) \cup {k}
  /\ bucket' = [Forgotten(bucket, gone, NoBucket) EXCEPT ![k] =
                  [tokens |-> IF ok THEN level - Window ELSE level, last |-> t]]
  /\ hist' = [Forgotten(hist, gone, NoHist) EXCEPT ![k] =
                [born     |-> old.born,
                 admitted |-> IF ok THEN old.admitted + 1 ELSE old.admitted,
                 limits   |-> old.limits \cup {L},
                 retryAt  |-> IF ok THEN 0 ELSE t + RetryAfter(level, L)]]
  /\ calls' = [calls EXCEPT ![c].pc = IF ok THEN "admitted" ELSE "denied"]
  /\ UNCHANGED <<clock, rpm, found, admins, sweeper>>
-----------------------------------------------------------------------------
(* The background sweeper stamps the time, then takes the mutex.           *)
SweepStamp ==
  /\ sweeper = NoStamp
  /\ sweeper' = clock
  /\ UNCHANGED <<clock, rpm, present, bucket, calls, found, admins, hist>>

Sweep ==
  /\ sweeper # NoStamp
  /\ present' = present \ Idle(sweeper)
  /\ bucket' = Forgotten(bucket, Idle(sweeper), NoBucket)
  /\ hist' = Forgotten(hist, Idle(sweeper), NoHist)
  /\ sweeper' = NoStamp
  /\ UNCHANGED <<clock, rpm, calls, found, admins>>
-----------------------------------------------------------------------------
(* The administrators' handlers: the row first, the bucket afterwards.     *)

(* createToken: a new row, under an identifier no row has had.             *)
CreateToken(k, r) ==
  /\ rpm[k] = Future
  /\ rpm' = [rpm EXCEPT ![k] = r]
  /\ UNCHANGED <<clock, present, bucket, calls, found, admins, sweeper, hist>>

(* updateToken: GetToken finds the row, expired or not, ...                *)
FindToken(a, k) ==
  /\ found[a] = NoKey /\ admins[a] = NoKey
  /\ HasRow(k)
  /\ found' = [found EXCEPT ![a] = k]
  /\ UNCHANGED <<clock, rpm, present, bucket, calls, admins, sweeper, hist>>

(* ... and UpdateTokenMeta writes the limit, if the row is still there.    *)
UpdateToken(a, r) ==
  LET k == found[a] IN
  /\ k # NoKey
  /\ rpm' = IF InForce(k) THEN [rpm EXCEPT ![k] = r] ELSE rpm
  /\ found' = [found EXCEPT ![a] = NoKey]
  /\ admins' = [admins EXCEPT ![a] = k]
  /\ UNCHANGED <<clock, present, bucket, calls, sweeper, hist>>

DeleteToken(a, k) ==
  /\ found[a] = NoKey /\ admins[a] = NoKey
  /\ HasRow(k)
  /\ rpm' = [rpm EXCEPT ![k] = Deleted]
  /\ admins' = [admins EXCEPT ![a] = k]
  /\ UNCHANGED <<clock, present, bucket, calls, found, sweeper, hist>>

(* Limiter.Remove, the handlers' next step.                                *)
Remove(a) ==
  /\ admins[a] # NoKey
  /\ present' = present \ {admins[a]}
  /\ bucket' = [bucket EXCEPT ![admins[a]] = NoBucket]
  /\ hist' = [hist EXCEPT ![admins[a]] = NoHist]
  /\ admins' = [admins EXCEPT ![a] = NoKey]
  /\ UNCHANGED <<clock, rpm, calls, found, sweeper>>

(* expires_at passes: ValidToken no longer finds the row, and nothing      *)
(* removes the bucket.                                                     *)
ExpireToken(k) ==
  /\ InForce(k)
  /\ rpm' = [rpm EXCEPT ![k] = Expired]
  /\ UNCHANGED <<clock, present, bucket, calls, found, admins, sweeper, hist>>

(* Time passes, never beyond MaxLag past the stamp of a call that waits.   *)
Tick ==
  /\ clock < MaxClock
  /\ \A c \in Callers : calls[c].pc = "stamped" => clock < calls[c].at + MaxLag
  /\ clock' = clock + 1
  /\ UNCHANGED <<rpm, present, bucket, calls, found, admins, sweeper, hist>>

Next ==
  \/ \E c \in Callers, k \in Keys : Authenticate(c, k)
  \/ \E c \in Callers : Stamp(c)
  \/ \E c \in Callers : Decide(c)
  \/ SweepStamp
  \/ Sweep
  \/ \E k \in Keys, r \in Rpms : CreateToken(k, r)
  \/ \E a \in Admins, k \in Keys : FindToken(a, k) \/ DeleteToken(a, k)
  \/ \E a \in Admins, r \in Rpms : UpdateToken(a, r)
  \/ \E a \in Admins : Remove(a)
  \/ \E k \in Keys : ExpireToken(k)
  \/ Tick

Spec == Init /\ [][Next]_vars
-----------------------------------------------------------------------------
Call == [pc : Free \cup {"authed", "stamped"}, key : Keys \cup {NoKey},
         limit : Nat, at : Nat]

(* Type correctness; a call past authentication has a positive limit, and  *)
(* no stamp is in the future.                                              *)
TypeOK ==
  /\ clock \in Nat
  /\ rpm \in [Keys -> Nat \cup {Future, Expired, Deleted}]
  /\ present \subseteq Keys
  /\ bucket \in [Keys -> [tokens : Int, last : Nat]]
  /\ calls \in [Callers -> Call]
  /\ \A c \in Callers : calls[c].pc # "idle" => calls[c].key \in Keys /\ calls[c].limit > 0
  /\ \A c \in Callers : calls[c].at <= clock
  /\ found \in [Admins -> Keys \cup {NoKey}]
  /\ admins \in [Admins -> Keys \cup {NoKey}]
  /\ sweeper \in Nat \cup {NoStamp}
  /\ hist \in [Keys -> [born : Nat, admitted : Nat,
                        limits : SUBSET (Nat \ {0}), retryAt : Nat]]

(* Within the life of a bucket used with one limit L, the limiter admits   *)
(* at most the burst of L plus L per window of the time since the bucket   *)
(* was created, whatever the order in which stamped calls get the mutex    *)
(* (Limiter's comment: the long-term rate is limit per window).            *)
AdmissionBound ==
  \A k \in present, L \in Rpms \cup {DefaultRPM} :
    hist[k].limits = {L} =>
      hist[k].admitted * Window <= L * (Window + clock - hist[k].born)

(* The Retry-After of a 429 is enough and not a second too long: as long   *)
(* as nothing else is admitted, the bucket holds a whole token at that     *)
(* tick, and more than one tick earlier it does not (Allow's retry and     *)
(* rateLimitMiddleware's rounding), whatever denied calls come between.    *)
RetryAccurate ==
  \A k \in present, L \in Rpms \cup {DefaultRPM} :
    hist[k].limits = {L} /\ hist[k].retryAt > 0 =>
      LET At(t) == bucket[k].tokens + (t - bucket[k].last) * L IN
      /\ At(hist[k].retryAt) >= Window
      /\ At(hist[k].retryAt - 2) < Window

(* No client is told to stay away longer than one refill plus the lag of   *)
(* the calls: a late stamp takes tokens back, but never more than the lag. *)
RetryBounded ==
  \A k \in present, L \in Rpms \cup {DefaultRPM} :
    hist[k].limits = {L} =>
      bucket[k].tokens >= -(L * MaxLag)

(* When a bucket of the default limit is full again, times that limit; a   *)
(* bucket that was full before any call still under way was stamped, and   *)
(* one that was swept, count alike.                                        *)
FullAt(k) == DefaultRPM * (bucket[k].last + Window) - bucket[k].tokens
LongAgo == DefaultRPM * (clock - MaxLag)

Due == [k \in Keys |-> IF k \in present /\ FullAt(k) > LongAgo THEN FullAt(k) ELSE LongAgo]

Answers ==
  [c \in Callers |-> IF calls[c].pc \in {"admitted", "denied"}
                     THEN {[key |-> calls[c].key, at |-> calls[c].at,
                            ok |-> calls[c].pc = "admitted"]}
                     ELSE {}]

(* With one limit for all tokens, the limiter answers every call as a      *)
(* bucket per key that is never swept and never re-created would: a sweep  *)
(* is invisible (Sweep's comment: after two idle windows the bucket has    *)
(* long been full, and forgetting it changes nothing), even though it may  *)
(* run between a call's stamp and its turn.                                *)
TB == INSTANCE TokenBucket WITH
  L <- DefaultRPM, change <- admins, due <- Due, answer <- Answers

ImplementsTokenBucket == TB!Spec
=============================================================================
