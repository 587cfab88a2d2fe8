------------------------------- MODULE Routing -------------------------------
(***************************************************************************)
(* The reverse proxy's handler (internal/proxy/handler.go) on top of the   *)
(* balancer: each request looks for a routing rule, else asks the balancer *)
(* for a backend, is forwarded, and reports a failed backend to the        *)
(* balancer; meanwhile the health checker reports too, and an              *)
(* administrator replaces the list, the strategy and the rules, one after  *)
(* the other.                                                              *)
(***************************************************************************)
EXTENDS Balancer

CONSTANTS
  Requests,   \* proxied requests in flight at the same time
  Classes,    \* what a routing rule can tell requests apart by
  Configs,    \* what administrators save: list, strategy, rules
  Uploads     \* the bodies: "small", "stream", "huge" or "chunked"

(* What updateBackends has validated before it touches the balancer.       *)
IsConfig(cfg) ==
  /\ IsList(cfg.list) /\ IsWrapped(cfg.list)
  /\ cfg.strategy \in Strategies
  /\ cfg.strategy = "weighted" => \E i \in DOMAIN cfg.list : cfg.list[i].weight > 0
  /\ cfg.rules \in Seq([class : Classes, backend : Urls(cfg.list)])

ASSUME RoutingAssumption ==
  /\ NoBackend \notin Backends
  /\ Wrap \in Nat \ {0}
  /\ \A cfg \in Configs : IsConfig(cfg)
  /\ Uploads \subseteq {"small", "stream", "huge", "chunked"}

VARIABLES
  rules,    \* Handler.rules, in order of priority
  req,      \* each request: where it is, its body, its backend, what failed
  updater,  \* updateBackends' hot update: where it is, and what it installs
  picks     \* history: how often Next has returned each backend since the
            \* list was replaced or Next last found one of it unhealthy

vars == <<balancerVars, probe, up, rules, req, updater, picks>>
proxyVars == <<rules, req, updater>>

Idle == [pc |-> "idle", body |-> "small", backend |-> NoBackend, blame |-> "none"]
Zero == [b \in Backends |-> 0]

Init ==
  /\ \E cfg \in Configs : BalancerInit(cfg.list, cfg.strategy) /\ rules = cfg.rules
  /\ req = [r \in Requests |-> Idle]
  /\ updater = [pc |-> "idle", cfg |-> {}]
  /\ picks = Zero
-----------------------------------------------------------------------------
(* Match: the first rule that fits decides.                                *)
Match(class) ==
  LET hits == {i \in DOMAIN rules : rules[i].class = class}
  IN IF hits = {} THEN NoBackend ELSE rules[Min(hits)].backend

(* A body known to be too large is answered 413 before the backend sees    *)
(* any of it; there may be no backend to send the request to (502).        *)
Refused(b, body) == b = NoBackend \/ body = "huge"

Send(r, b, body) ==
  req' = [req EXCEPT ![r] = IF Refused(b, body) THEN Idle
                            ELSE [Idle EXCEPT !.pc = "sent", !.body = body, !.backend = b]]

(* ServeHTTP loads the rules first: a hit goes to its target, healthy or   *)
(* not.                                                                    *)
Arrive(r, class, body) ==
  /\ req[r].pc = "idle"
  /\ IF Match(class) # NoBackend
     THEN Send(r, Match(class), body)
     ELSE req' = [req EXCEPT ![r] = [Idle EXCEPT !.pc = "balance", !.body = body]]
  /\ UNCHANGED <<balancerVars, probe, up, rules, updater, picks>>

(* The counts, up to what they have in common.                             *)
Levelled(f) == LET low == Min({f[b] : b \in Urls(list)})
               IN [b \in Backends |-> IF b \in Urls(list) THEN f[b] - low ELSE 0]

AllHealthy == HealthyUrls = Urls(list)

Picked(b) ==
  picks' = IF strategy = "round_robin" /\ AllHealthy
           THEN Levelled([picks EXCEPT ![b] = @ + 1]) ELSE Zero

(* ... and without a hit the balancer is asked.                            *)
Balance(r) ==
  /\ req[r].pc = "balance"
  /\ \E b \in NextBackend : /\ Send(r, b, req[r].body)
                            /\ Picked(b)
  /\ Counts
  /\ UNCHANGED <<list, strategy, healthy, probe, up, rules, updater>>

(* The backend answers ...                                                 *)
Served(r) ==
  /\ req[r].pc = "sent"
  /\ req[r].backend \in up
  /\ req[r].body # "chunked"
  /\ req' = [req EXCEPT ![r] = Idle]
  /\ UNCHANGED <<balancerVars, probe, up, rules, updater, picks>>

(* ... or does not, or too late ...                                        *)
BackendFails(r) ==
  /\ req[r].pc = "sent"
  /\ req[r].backend \notin up
  /\ req' = [req EXCEPT ![r].pc = "failed", ![r].blame = "backend"]
  /\ UNCHANGED <<balancerVars, probe, up, rules, updater, picks>>

(* ... or MaxBytesReader ends a chunked body that turns out too large, ... *)
UploadFails(r) ==
  /\ req[r].pc = "sent"
  /\ req[r].body = "chunked"
  /\ req' = [req EXCEPT ![r].pc = "failed", ![r].blame = "upload"]
  /\ UNCHANGED <<balancerVars, probe, up, rules, updater, picks>>

(* ... or the client goes away.                                            *)
ClientCancels(r) ==
  /\ req[r].pc = "sent"
  /\ req' = [req EXCEPT ![r].pc = "failed", ![r].blame = "client"]
  /\ UNCHANGED <<balancerVars, probe, up, rules, updater, picks>>

(* ErrorHandler: only a client that has gone away is not the backend's     *)
(* fault.                                                                  *)
Blamed(r) == req[r].blame # "client"

HandleError(r) ==
  /\ req[r].pc = "failed"
  /\ IF Blamed(r)
     THEN Mark(req[r].backend, FALSE)
     ELSE UNCHANGED healthy
  /\ req' = [req EXCEPT ![r] = Idle]
  /\ UNCHANGED <<list, strategy, counter, probe, up, rules, updater, picks>>
-----------------------------------------------------------------------------
(* updateBackends' hot update.  Requests run between its steps.            *)
InstallBackends(cfg) ==
  /\ updater.pc = "idle"
  /\ SetBackends(cfg.list)
  /\ picks' = Zero
  /\ updater' = [pc |-> "strategy", cfg |-> {cfg}]
  /\ UNCHANGED <<strategy, counter, probe, up, rules, req>>

InstallStrategy ==
  /\ updater.pc = "strategy"
  /\ \E cfg \in updater.cfg : strategy' = cfg.strategy
  /\ updater' = [updater EXCEPT !.pc = "rules"]
  /\ UNCHANGED <<list, healthy, counter, probe, up, rules, req, picks>>

InstallRules ==
  /\ updater.pc = "rules"
  /\ \E cfg \in updater.cfg : rules' = cfg.rules
  /\ updater' = [pc |-> "idle", cfg |-> {}]
  /\ UNCHANGED <<balancerVars, probe, up, req, picks>>

Apart == UNCHANGED <<proxyVars, picks>>

Next ==
  \/ Check /\ Apart
  \/ \E b \in Backends : \/ Heard(b) /\ Apart
                         \/ Finish(b) /\ Apart
                         \/ Fail(b) /\ Apart
                         \/ Recover(b) /\ Apart
  \/ \E r \in Requests : \/ \E class \in Classes, body \in Uploads : Arrive(r, class, body)
                         \/ Balance(r)
                         \/ Served(r)
                         \/ BackendFails(r)
                         \/ UploadFails(r)
                         \/ ClientCancels(r)
                         \/ HandleError(r)
  \/ \E cfg \in Configs : InstallBackends(cfg)
  \/ InstallStrategy
  \/ InstallRules

(* The ticker keeps ticking, and a probe ends with an answer or with the   *)
(* client's timeout.  Nothing is assumed of requests, administrators and   *)
(* backends.                                                               *)
Fairness ==
  /\ WF_vars(Check /\ Apart)
  /\ \A b \in Backends : WF_vars(Heard(b) /\ Apart) /\ WF_vars(Finish(b) /\ Apart)

Spec == Init /\ [][Next]_vars /\ Fairness
-----------------------------------------------------------------------------
(* Type correctness.  The health map has exactly the backends of the list: *)
(* the late probe, or the late error, of a backend that has been removed   *)
(* does not bring it back (MarkUp and MarkDown look before they write).    *)
TypeOK ==
  /\ IsList(list)
  /\ strategy \in Strategies
  /\ healthy \in [Urls(list) -> BOOLEAN]
  /\ counter \in 0..(Wrap - 1)
  /\ probe \in [Backends -> {"none", "asked", "up", "down"}]
  /\ up \subseteq Backends
  /\ \A i \in DOMAIN rules : rules[i] \in [class : Classes, backend : Backends]
  /\ req \in [Requests -> [pc : {"idle", "balance", "sent", "failed"},
                           body : Uploads \cup {"small"},
                           backend : Backends \cup {NoBackend},
                           blame : {"none", "backend", "upload", "client"}]]
  /\ updater.pc \in {"idle", "strategy", "rules"}
  /\ updater.cfg \subseteq Configs
  /\ picks \in [Backends -> Nat]

(* The balancer never sends a request to an unhealthy backend while it has *)
(* a healthy one to choose, nor ever to one of weight zero by weight, and  *)
(* gives up only when no healthy backend takes traffic: also between the   *)
(* steps of an update, with the new list under the old strategy.           *)
NextSound ==
  [][\A r \in Requests :
       req[r].pc = "balance" /\ req'[r].pc # "balance" /\ req[r].body # "huge" =>
         LET b == req'[r].backend
             takes == {i \in DOMAIN list : /\ healthy[list[i].url]
                                           /\ strategy = "weighted" => list[i].weight > 0}
         IN IF b = NoBackend
            THEN strategy = "weighted" /\ takes = {}
            ELSE \/ \E i \in takes : list[i].url = b
                 \/ strategy # "weighted" /\ takes = {} /\ b \in Urls(list)]_vars

(* While all backends are healthy, the round robin gives each of them the  *)
(* same number of requests, give or take one, wherever its counter stands  *)
(* when the list is replaced.                                              *)
EvenSplit ==
  \A a, b \in Urls(list) : picks[a] - picks[b] <= 1

Stays(b) == b \in Urls(list) /\ updater.pc = "idle"

(* A backend that stays in the list and answers again comes back: however  *)
(* often requests take it offline, the checker puts it online again        *)
(* (README: offline on failure, back online on recovery).                  *)
ReachableComesBack ==
  \A b \in Backends : <>[](b \in up /\ Stays(b)) => []<>(b \in Urls(list) /\ healthy[b])

(* A backend that stays in the list and does not answer is taken out for   *)
(* good, whatever probes and requests were under way when it went away.    *)
UnreachableGoesDown ==
  \A b \in Backends :
    <>[](b \notin up /\ Stays(b)) => <>[](b \in Urls(list) /\ ~healthy[b])

(* A healthy backend is taken out only on the report of a probe or of a    *)
(* request it has failed (ErrorHandler's comment: when the backend is not  *)
(* at fault it is not marked down, or healthy backends are hit by          *)
(* mistake).                                                               *)
OnlyFailuresMarkDown ==
  [][\A b \in Urls(list) \cap Urls(list') :
       healthy[b] /\ ~healthy'[b] =>
         \/ probe[b] = "down"
         \/ \E r \in Requests : /\ req[r].pc = "failed"
                                /\ req[r].backend = b
                                /\ req[r].blame = "backend"]_vars
=============================================================================
