------------------------------ MODULE Balancer ------------------------------
(***************************************************************************)
(* The load balancer and its health checker (internal/proxy/balancer.go).  *)
(* The balancer's methods are operators that Routing builds its actions    *)
(* from: each runs in one critical section of the balancer's mutex.  The   *)
(* checker's goroutines are actions of this module: a round takes a        *)
(* snapshot of the list and starts one goroutine per backend, each of      *)
(* which asks its backend and, later, reports what it heard.               *)
(***************************************************************************)
EXTENDS Integers, Sequences, FiniteSets, FiniteSetsExt

CONSTANTS
  Backends,    \* backend URLs
  NoBackend,   \* the empty string Next returns
  Wrap         \* bound: the round-robin counter is kept modulo Wrap

Strategies == {"round_robin", "random", "weighted"}

(* A list of backends, with their weights; no URL occurs twice in it.      *)
IsList(bs) ==
  /\ bs \in Seq([url : Backends, weight : Nat])
  /\ \A i, j \in DOMAIN bs : bs[i].url = bs[j].url => i = j

(* Wrap is as good as 2^64 when every index of a list sees it as zero.     *)
IsWrapped(bs) == bs # <<>> /\ Wrap % Len(bs) = 0

VARIABLES
  list,      \* dynamicBalancer.backends
  strategy,  \* dynamicBalancer.strategy
  healthy,   \* dynamicBalancer.healthy, a map from URLs
  counter,   \* dynamicBalancer.counter
  probe,     \* each backend's probe: none, asked, or what it heard
  up         \* the backends that answer, and not with a 5xx

balancerVars == <<list, strategy, healthy, counter>>

Urls(bs) == {bs[i].url : i \in DOMAIN bs}
-----------------------------------------------------------------------------
(* Next, by strategy: the backends it may return.                          *)

HealthyUrls == {b \in Urls(list) : healthy[b]}

RandomNext == IF HealthyUrls = {} THEN Urls(list) ELSE HealthyUrls

WeightedNextAll == IF HealthyUrls = {} THEN {NoBackend} ELSE HealthyUrls

(* Weight 0 takes no traffic.                                              *)
WeightedNext ==
  LET takers == {i \in DOMAIN list : healthy[list[i].url] /\ list[i].weight > 0}
  IN IF takers = {} THEN {NoBackend} ELSE {list[i].url : i \in takers}

CandidateShort(i) == list[((counter + i) % Max({1, Len(list) - 1})) + 1].url

(* The i-th backend the round robin looks at, from the counter's index on. *)
Candidate(i) == list[((counter + i) % Len(list)) + 1].url

RoundRobinNext ==
  LET found == {i \in 0..(Len(list) - 1) : healthy[Candidate(i)]}
  IN IF found = {} THEN {list[1].url} ELSE {Candidate(Min(found))}

NextBackend ==
  CASE list = <<>> -> {NoBackend}
    [] list # <<>> /\ strategy = "random" -> RandomNext
    [] list # <<>> /\ strategy = "weighted" -> WeightedNext
    [] list # <<>> /\ strategy = "round_robin" -> RoundRobinNext

(* Only the round robin counts, one per call.                              *)
Counts ==
  counter' = IF strategy = "round_robin" /\ list # <<>> THEN (counter + 1) % Wrap ELSE counter

(* MarkUp and MarkDown: a backend that is no longer known stays unknown.   *)
Mark(b, verdict) ==
  healthy' = IF b \in DOMAIN healthy THEN [healthy EXCEPT ![b] = verdict] ELSE healthy

(* Every backend of a new list starts healthy.                             *)
SetBackends(bs) ==
  /\ list' = bs
  /\ healthy' = [b \in Urls(bs) |-> TRUE]
-----------------------------------------------------------------------------
BalancerInit(bs, s) ==
  /\ list = bs
  /\ strategy = s
  /\ healthy = [b \in Urls(bs) |-> TRUE]
  /\ counter = 0
  /\ probe = [b \in Backends |-> "none"]
  /\ up = Backends

(* A round of checks.  The client's timeout is shorter than the interval:  *)
(* no probe of the last round is still unanswered.                         *)
Check ==
  /\ \A b \in Backends : probe[b] = "none"
  /\ probe' = [b \in Backends |-> IF b \in Urls(list) THEN "asked" ELSE "none"]
  /\ UNCHANGED <<balancerVars, up>>

HeardAny(b) ==
  /\ probe[b] = "asked"
  /\ probe' = [probe EXCEPT ![b] = "up"]
  /\ UNCHANGED <<balancerVars, up>>

Heard(b) ==
  /\ probe[b] = "asked"
  /\ probe' = [probe EXCEPT ![b] = IF b \in up THEN "up" ELSE "down"]
  /\ UNCHANGED <<balancerVars, up>>

FinishNoMarkUp(b) ==
  /\ probe[b] \in {"up", "down"}
  /\ IF probe[b] = "down" THEN Mark(b, FALSE) ELSE UNCHANGED healthy
  /\ probe' = [probe EXCEPT ![b] = "none"]
  /\ UNCHANGED <<list, strategy, counter, up>>

Finish(b) ==
  /\ probe[b] \in {"up", "down"}
  /\ Mark(b, probe[b] = "up")
  /\ probe' = [probe EXCEPT ![b] = "none"]
  /\ UNCHANGED <<list, strategy, counter, up>>

(* The backends themselves go away and come back.                          *)
Fail(b) ==
  /\ b \in up
  /\ up' = up \ {b}
  /\ UNCHANGED <<balancerVars, probe>>

Recover(b) ==
  /\ b \notin up
  /\ up' = up \cup {b}
  /\ UNCHANGED <<balancerVars, probe>>
=============================================================================
