---------------------------- MODULE TokenBucket ----------------------------
(***************************************************************************)
(* What the rate limiter promises for one limit L: a token bucket per key  *)
(* that never forgets anything.  due[k] is L times the tick at which k's   *)
(* bucket will be full again; a call stamped t is admitted exactly when    *)
(* the bucket holds a whole token at t, and every admission moves due one  *)
(* token further.  There is no map, no sweep, no last-call time and no     *)
(* bucket to create: RateLimiter, which has all of these, implements it.   *)
(***************************************************************************)
EXTENDS Integers

CONSTANTS Keys, Callers, Admins, NoKey, L, Window, MaxLag

VARIABLES clock, due, answer, change

tbVars == <<clock, due, answer, change>>

(* answer[c] holds at most one answer, the one to c's last call.            *)
NoAnswer == {}

(* No call will be stamped earlier than this: a bucket full by then is as  *)
(* good as a bucket full for ever.                                         *)
Horizon(now) == L * (now - MaxLag)

Later(x, y) == IF x >= y THEN x ELSE y

Init ==
  /\ clock = 0
  /\ due = [k \in Keys |-> Horizon(0)]
  /\ answer = [c \in Callers |-> NoAnswer]
  /\ change = [a \in Admins |-> NoKey]

Ask(c) ==
  /\ answer[c] # NoAnswer
  /\ answer' = [answer EXCEPT ![c] = NoAnswer]
  /\ UNCHANGED <<clock, due, change>>

Answer(c, k, t) ==
  LET ok == due[k] <= L * t + (L - 1) * Window IN
  /\ answer[c] = NoAnswer
  /\ answer' = [answer EXCEPT ![c] = {[key |-> k, at |-> t, ok |-> ok]}]
  /\ due' = IF ok THEN [due EXCEPT ![k] = Later(@, L * t) + Window] ELSE due
  /\ UNCHANGED <<clock, change>>

(* An administrator changes or revokes a token, and only then is its       *)
(* bucket reset, once: the next one is full.                               *)
Change(a, k) ==
  /\ change[a] = NoKey
  /\ change' = [change EXCEPT ![a] = k]
  /\ UNCHANGED <<clock, due, answer>>

Reset(a) ==
  /\ change[a] # NoKey
  /\ due' = [due EXCEPT ![change[a]] = Horizon(clock)]
  /\ change' = [change EXCEPT ![a] = NoKey]
  /\ UNCHANGED <<clock, answer>>

Tick ==
  /\ clock' = clock + 1
  /\ due' = [k \in Keys |-> Later(due[k], Horizon(clock'))]
  /\ UNCHANGED <<answer, change>>

Next ==
  \/ \E c \in Callers : Ask(c)
  \/ \E c \in Callers, k \in Keys, t \in (clock - MaxLag)..clock : Answer(c, k, t)
  \/ \E a \in Admins : Reset(a) \/ \E k \in Keys : Change(a, k)
  \/ Tick

Spec == Init /\ [][Next]_tbVars
=============================================================================
