---------------------------- MODULE LoginLimiter ----------------------------
(***************************************************************************)
(* The brute-force protection of the login page (loginLimiter and the      *)
(* login handler in internal/api/auth.go).  A login asks the limiter       *)
(* whether its address is locked, checks the password outside of the       *)
(* limiter's mutex, for as long as that takes, and then tells the limiter  *)
(* how it went; meanwhile other logins from the same address do the same,  *)
(* and a background task forgets addresses that have long not failed.      *)
(*                                                                         *)
(* Users and passwords are left out: a check ends either way.              *)
(***************************************************************************)
EXTENDS Integers, Sequences, FiniteSets

CONSTANTS
  Addrs,     \* addresses that log in
  Logins,    \* login requests in flight at the same time
  MaxFail,   \* maxFail: failures that lock an address
  LockDur,   \* lockDur, in ticks
  IdleTTL,   \* idleTTL, in ticks
  NoAddr,    \* no address: that of a login that is not in flight
  MaxClock   \* bound: the last tick

ASSUME LoginAssumption ==
  /\ NoAddr \notin Addrs
  /\ IsFiniteSet(Logins)
  /\ MaxFail \in Nat \ {0}
  /\ LockDur \in Nat
  /\ IdleTTL \in Nat
  /\ MaxClock \in Nat

VARIABLES
  clock,     \* time.Now()
  entries,   \* loginLimiter.entries, NoEntry where the map has none
  checking,  \* each login: the address whose password it is checking
  misses     \* history: when the checks of each address have failed since its
             \* last successful login

vars == <<clock, entries, checking, misses>>

Ticks == 0..MaxClock
Never == -1   \* the zero time
NoEntry == [failures |-> 0, lastFail |-> Never, lockedUntil |-> Never]

Locked(a) == clock < entries[a].lockedUntil

Init ==
  /\ clock = 0
  /\ entries = [a \in Addrs |-> NoEntry]
  /\ checking = [c \in Logins |-> NoAddr]
  /\ misses = [a \in Addrs |-> <<>>]
-----------------------------------------------------------------------------
AllowedKeeps(e) == e

(* allowed: an entry whose lock has run out is forgotten; one that has not *)
(* been locked yet keeps its count.                                        *)
Allowed(e) == IF e.lockedUntil # Never THEN NoEntry ELSE e

Begin(c, a) ==
  /\ checking[c] = NoAddr
  /\ ~Locked(a)
  /\ entries' = [entries EXCEPT ![a] = Allowed(@)]
  /\ checking' = [checking EXCEPT ![c] = a]
  /\ UNCHANGED <<clock, misses>>

(* The request is malformed, or the user cannot be read: no verdict.       *)
Abandon(c) ==
  /\ checking[c] # NoAddr
  /\ checking' = [checking EXCEPT ![c] = NoAddr]
  /\ UNCHANGED <<clock, entries, misses>>

FailedOnce(e) ==
  [failures    |-> e.failures + 1,
   lastFail    |-> clock,
   lockedUntil |-> IF e.failures + 1 = MaxFail THEN clock + LockDur ELSE e.lockedUntil]

(* fail: from the threshold on, every failure locks, or locks for longer.  *)
Failed(e) ==
  [failures    |-> e.failures + 1,
   lastFail    |-> clock,
   lockedUntil |-> IF e.failures + 1 >= MaxFail THEN clock + LockDur ELSE e.lockedUntil]

Fail(c) ==
  LET a == checking[c]
  IN  /\ a # NoAddr
      /\ entries' = [entries EXCEPT ![a] = Failed(@)]
      /\ misses' = [misses EXCEPT ![a] = Append(@, clock)]
      /\ checking' = [checking EXCEPT ![c] = NoAddr]
      /\ UNCHANGED clock

(* success: the entry goes, and with it a lock set in the meantime.        *)
Succeed(c) ==
  LET a == checking[c]
  IN  /\ a # NoAddr
      /\ entries' = [entries EXCEPT ![a] = NoEntry]
      /\ misses' = [misses EXCEPT ![a] = <<>>]
      /\ checking' = [checking EXCEPT ![c] = NoAddr]
      /\ UNCHANGED clock

StaleWhenIdle(e) == clock - e.lastFail > IdleTTL

(* cleanup: only entries that are neither locked nor fresh are dropped.    *)
Stale(e) == clock > e.lockedUntil /\ clock - e.lastFail > IdleTTL

Cleanup ==
  /\ \E a \in Addrs : entries[a] # NoEntry /\ Stale(entries[a])
  /\ entries' = [a \in Addrs |-> IF Stale(entries[a]) THEN NoEntry ELSE entries[a]]
  /\ UNCHANGED <<clock, checking, misses>>

Tick ==
  /\ clock < MaxClock
  /\ clock' = clock + 1
  /\ UNCHANGED <<entries, checking, misses>>

(* The process restarts: its map is gone, and so are its logins.           *)
Restart ==
  /\ entries' = [a \in Addrs |-> NoEntry]
  /\ checking' = [c \in Logins |-> NoAddr]
  /\ misses' = [a \in Addrs |-> <<>>]
  /\ UNCHANGED clock

Next ==
  \/ \E c \in Logins : \/ \E a \in Addrs : Begin(c, a)
                       \/ Abandon(c) \/ Fail(c) \/ Succeed(c)
  \/ Cleanup \/ Tick \/ Restart

Spec == Init /\ [][Next]_vars
-----------------------------------------------------------------------------
InFlight(a) == {c \in Logins : checking[c] = a}

(* Type correctness; in particular an entry counts no more failures than   *)
(* the threshold and the logins that were let in before it was reached,    *)
(* less those that are still in flight.                                    *)
TypeOK ==
  /\ clock \in Ticks
  /\ checking \in [Logins -> Addrs \cup {NoAddr}]
  /\ entries \in [Addrs -> [failures : Nat, lastFail : Ticks \cup {Never},
                            lockedUntil : 0..MaxClock + LockDur \cup {Never}]]
  /\ \A a \in Addrs :
       entries[a].failures + Cardinality(InFlight(a)) <= MaxFail - 1 + Cardinality(Logins)
  /\ misses \in [Addrs -> Seq(Ticks)]

(* However the logins of an address interleave, and whatever cleanup       *)
(* forgets, no period as long as the lock, or as a failure is remembered,  *)
(* has more failed checks than the threshold allows and logins in flight   *)
(* add (DEPLOYMENT.md: each address is locked for 15 minutes after 5       *)
(* failures in a row); a successful login starts the count anew.           *)
Period(t) == {u \in Ticks : t <= u /\ u < t + LockDur /\ u <= t + IdleTTL}
GuessesBounded ==
  \A a \in Addrs : \A t \in Ticks :
    Cardinality({i \in 1..Len(misses[a]) : misses[a][i] \in Period(t)})
      <= MaxFail - 1 + Cardinality(Logins)

(* A lock lasts: it is only ever prolonged, unless it has run out, or a    *)
(* login of the same address has succeeded, or the process restarted       *)
(* (cleanup's comment: no lock is cleared before its time, even if longer  *)
(* than idleTTL).                                                          *)
LockLasts ==
  [][\A a \in Addrs : Locked(a) =>
       \/ entries'[a].lockedUntil >= entries[a].lockedUntil
       \/ Restart
       \/ \E c \in Logins : checking[c] = a /\ Succeed(c)]_vars
=============================================================================
