------------------------------- MODULE Alert -------------------------------
(***************************************************************************)
(* The alert engine (internal/alert/engine.go): one goroutine evaluates a  *)
(* round of rules at every tick, comparing the balancer's view of the      *)
(* backends with that of the round before, and sends what it finds to a    *)
(* chat robot, while administrators save other rules.                      *)
(*                                                                         *)
(* Of a rule set the model keeps the switch, whether the error rate and    *)
(* the latency have a threshold, and the silence.  The field BackendDown   *)
(* is left out: no line of the engine reads it.  The texts, the audit row  *)
(* of a notice, SendTest, which shares no state with the rest, and Stop    *)
(* are left out too.  A robot that is not configured mutes a round like    *)
(* rules that are switched off; the model has one that is.                 *)
(***************************************************************************)
EXTENDS Integers, FiniteSets

CONSTANTS
  Backends,      \* URLs
  Admins,        \* administrators who save rules, at the same time
  RuleSets,      \* the rule sets they save: [enabled, errors, latency, silence]
  DefaultRules,  \* DefaultRules
  Never,         \* no notice of that kind was sent yet
  MaxOutages,    \* bound: times a backend goes down
  MaxSaves,      \* bound: rule sets saved
  MaxFaults,     \* bound: rounds that cannot read the rules
  MaxClock       \* bound: the clock stops there

Rules == RuleSets \cup {DefaultRules}

ASSUME AlertAssumption ==
  /\ \A r \in Rules : r.enabled \in BOOLEAN /\ r.errors \in BOOLEAN
                      /\ r.latency \in BOOLEAN /\ r.silence \in Nat \ {0}
  /\ Never \notin Nat
  /\ {MaxOutages, MaxSaves, MaxFaults, MaxClock} \subseteq Nat

VARIABLES
  view,      \* dynamicBalancer: the listed backends and their health
  now,       \* the clock, in minutes
  stored,    \* what the settings row reads as
  admin,     \* each administrator: idle, or the rules stored but not yet live
  rules,     \* Engine.rules
  lastSent,  \* Engine.lastSent
  healthy,   \* Engine.healthy: the view of the round before
  round,     \* evaluate: where it is, its rules, its alerts still to handle
             \* and the one that is being sent
  hist       \* history: outages, recoveries, what the chat received

vars == <<view, now, stored, admin, rules, lastSent, healthy, round, hist>>

engineVars == <<rules, lastSent, healthy, round>>

Alerts == ({"backend-down", "backend-up", "backend-latency"} \X Backends)
          \cup {<<"error-rate", "all">>}

Idle == [saving |-> FALSE, new |-> DefaultRules]
NoAlert == <<"none", "none">>
Waiting == [at |-> "waiting", rules |-> DefaultRules, todo |-> {}, sending |-> NoAlert]

(* NewEngine reads the rules, and Start takes the first baseline, after    *)
(* the health checker has started: some backends may be down already.      *)
Init ==
  /\ view \in [Backends -> BOOLEAN]
  /\ now = 0
  /\ stored \in Rules
  /\ admin = [a \in Admins |-> Idle]
  /\ rules = stored
  /\ lastSent = [k \in Alerts |-> Never]
  /\ healthy = view
  /\ round = Waiting
  /\ hist = [outages |-> [b \in Backends |-> 0],
             recoveries |-> [b \in Backends |-> 0],
             down |-> {b \in Backends : ~view[b]},
             received |-> [k \in {"backend-down", "backend-up"} \X Backends |-> 0],
             confirmed |-> {}, saves |-> 0, faults |-> 0]
-----------------------------------------------------------------------------
(* SetRules: the row is written first, then the rules in memory.           *)

Store(a, r) ==
  /\ hist.saves < MaxSaves
  /\ ~admin[a].saving
  /\ stored' = r
  /\ admin' = [admin EXCEPT ![a] = [saving |-> TRUE, new |-> r]]
  /\ hist' = [hist EXCEPT !.saves = @ + 1]
  /\ UNCHANGED <<view, now, engineVars>>

Adopt(a) ==
  /\ admin[a].saving
  /\ rules' = admin[a].new
  /\ admin' = [admin EXCEPT ![a] = Idle]
  /\ UNCHANGED <<view, now, stored, lastSent, healthy, round, hist>>
-----------------------------------------------------------------------------
(* evaluate.  A round that cannot read its rules runs with the defaults.   *)

LoadRulesCached ==
  /\ round.at = "waiting"
  /\ round' = [Waiting EXCEPT !.at = "loaded", !.rules = rules]
  /\ UNCHANGED <<view, now, stored, admin, rules, lastSent, healthy, hist>>

LoadRules ==
  /\ round.at = "waiting"
  /\ round' = [Waiting EXCEPT !.at = "loaded", !.rules = stored]
  /\ UNCHANGED <<view, now, stored, admin, rules, lastSent, healthy, hist>>

LoadFails ==
  /\ hist.faults < MaxFaults
  /\ round.at = "waiting"
  /\ round' = [Waiting EXCEPT !.at = "loaded", !.rules = DefaultRules]
  /\ hist' = [hist EXCEPT !.faults = @ + 1]
  /\ UNCHANGED <<view, now, stored, admin, rules, lastSent, healthy>>

AdoptLoaded ==
  /\ round.at = "loaded"
  /\ rules' = round.rules
  /\ round' = [round EXCEPT !.at = IF round.rules.enabled THEN "backends" ELSE "muted"]
  /\ UNCHANGED <<view, now, stored, admin, lastSent, healthy, hist>>

(* recordBaseline: a round that is switched off only looks.                *)
RecordBaseline ==
  /\ round.at = "muted"
  /\ healthy' = view
  /\ round' = Waiting
  /\ UNCHANGED <<view, now, stored, admin, rules, lastSent, hist>>

(* A backend that one of the two views lacks is passed over.               *)
Changed(before) ==
  LET known == DOMAIN before \cap DOMAIN view
  IN  {<<"backend-down", b>> : b \in {u \in known : before[u] /\ ~view[u]}}
      \cup {<<"backend-up", b>> : b \in {u \in known : ~before[u] /\ view[u]}}

CheckBackendsNoSwap ==
  /\ round.at = "backends"
  /\ round' = [round EXCEPT !.at = "changes", !.todo = Changed(healthy)]
  /\ UNCHANGED <<view, now, stored, admin, rules, lastSent, healthy, hist>>

CheckBackends ==
  /\ round.at = "backends"
  /\ healthy' = view
  /\ round' = [round EXCEPT !.at = "changes", !.todo = Changed(healthy)]
  /\ UNCHANGED <<view, now, stored, admin, rules, lastSent, hist>>

Done(stage) == round.at = stage /\ round.todo = {} /\ round.sending = NoAlert

(* The window's count of errors is above the threshold, or it is not, is   *)
(* too small a sample, or cannot be read.                                  *)
CheckErrorRate ==
  /\ Done("changes")
  /\ \E high \in {FALSE, round.rules.errors} :
       round' = [round EXCEPT !.at = "errors",
                              !.todo = IF high THEN {<<"error-rate", "all">>} ELSE {}]
  /\ UNCHANGED <<view, now, stored, admin, rules, lastSent, healthy, hist>>

(* Any backend with probes in the window may be slow, listed or not.       *)
CheckLatency ==
  /\ Done("errors")
  /\ \E slow \in SUBSET IF round.rules.latency THEN Backends ELSE {} :
       round' = [round EXCEPT !.at = "slow", !.todo = {"backend-latency"} \X slow]
  /\ UNCHANGED <<view, now, stored, admin, rules, lastSent, healthy, hist>>

EndRound ==
  /\ Done("slow")
  /\ round' = Waiting
  /\ UNCHANGED <<view, now, stored, admin, rules, lastSent, healthy, hist>>

Silent(k) == lastSent[k] # Never /\ now - lastSent[k] < round.rules.silence

(* One alert of the round: silenced, or handed to the robot.  A recovery   *)
(* is never silenced, and ends the silence of the outage.                  *)
ForgetAll(k) == [j \in Alerts |-> Never]
Forget(k) ==
  IF k[1] = "backend-up" THEN [lastSent EXCEPT ![<<"backend-down", k[2]>>] = Never]
  ELSE lastSent

Fire(k) ==
  /\ round.sending = NoAlert
  /\ k \in round.todo
  /\ lastSent' = IF k[1] = "backend-up" THEN Forget(k) ELSE lastSent
  /\ round' = [round EXCEPT !.todo = @ \ {k},
                            !.sending = IF k[1] # "backend-up" /\ Silent(k) THEN NoAlert ELSE k]
  /\ UNCHANGED <<view, now, stored, admin, rules, healthy, hist>>

(* What the chat shows more of, when an alert arrives.                     *)
Receive(k) ==
  IF k \in DOMAIN hist.received THEN [hist EXCEPT !.received[k] = @ + 1] ELSE hist

(* Of the confirmed notices that nothing but time makes due again, the     *)
(* last of each.                                                           *)
Confirm(k) ==
  IF k \in DOMAIN hist.received THEN Receive(k)
  ELSE [hist EXCEPT !.confirmed = {s \in @ : s.alert # k} \cup {[alert |-> k, time |-> now]}]

(* deliver: only a notice the robot's answer confirms is stamped.          *)
Delivered ==
  LET k == round.sending IN
  /\ k # NoAlert
  /\ lastSent' = [lastSent EXCEPT ![k] = now]
  /\ hist' = Confirm(k)
  /\ round' = [round EXCEPT !.sending = NoAlert]
  /\ UNCHANGED <<view, now, stored, admin, rules, healthy>>

(* The robot refuses the notice or cannot be reached, or has taken it and  *)
(* its answer is lost.                                                     *)
NotConfirmed ==
  LET k == round.sending IN
  /\ k # NoAlert
  /\ hist' \in {hist, Receive(k)}
  /\ round' = [round EXCEPT !.sending = NoAlert]
  /\ UNCHANGED <<view, now, stored, admin, rules, lastSent, healthy>>
-----------------------------------------------------------------------------
(* The balancer, seen from the engine, and the clock.                      *)

MarkDown(b) ==
  /\ hist.outages[b] < MaxOutages
  /\ b \in DOMAIN view /\ view[b]
  /\ view' = [view EXCEPT ![b] = FALSE]
  /\ hist' = [hist EXCEPT !.outages[b] = @ + 1, !.down = @ \cup {b}]
  /\ UNCHANGED <<now, stored, admin, engineVars>>

Recovered(bs) ==
  [hist EXCEPT !.recoveries = [b \in Backends |-> IF b \in bs \cap hist.down
                                                  THEN @[b] + 1 ELSE @[b]],
               !.down = @ \ bs]

MarkUp(b) ==
  /\ b \in DOMAIN view /\ ~view[b]
  /\ view' = [view EXCEPT ![b] = TRUE]
  /\ hist' = Recovered({b})
  /\ UNCHANGED <<now, stored, admin, engineVars>>

(* SetBackends: every backend of the new list starts healthy.              *)
SetBackends(bs) ==
  /\ bs # {}
  /\ view' = [b \in bs |-> TRUE]
  /\ hist' = Recovered(bs)
  /\ UNCHANGED <<now, stored, admin, engineVars>>

Tick ==
  /\ now < MaxClock
  /\ now' = now + 1
  /\ UNCHANGED <<view, stored, admin, engineVars, hist>>
-----------------------------------------------------------------------------
Evaluate ==
  \/ LoadRules \/ LoadFails \/ AdoptLoaded \/ RecordBaseline
  \/ CheckBackends \/ CheckErrorRate \/ CheckLatency \/ EndRound
  \/ \E k \in Alerts : Fire(k)
  \/ Delivered \/ NotConfirmed

Next ==
  \/ \E a \in Admins : (\E r \in RuleSets : Store(a, r)) \/ Adopt(a)
  \/ Evaluate
  \/ \E b \in Backends : MarkDown(b) \/ MarkUp(b)
  \/ \E bs \in SUBSET Backends : SetBackends(bs)
  \/ Tick

(* The loop is woken by a ticker that never stops, its queries and sends   *)
(* have timeouts, and a handler that has stored its rules goes on.         *)
Fairness ==
  /\ WF_vars(Evaluate)
  /\ \A a \in Admins : WF_vars(Adopt(a))

Spec == Init /\ [][Next]_vars /\ Fairness
-----------------------------------------------------------------------------
(* The types.  Before its first comparison a round has nothing to send.    *)
TypeOK ==
  /\ DOMAIN view \subseteq Backends /\ view \in [DOMAIN view -> BOOLEAN]
  /\ DOMAIN healthy \subseteq Backends /\ healthy \in [DOMAIN healthy -> BOOLEAN]
  /\ now \in 0..MaxClock
  /\ {stored, rules} \subseteq Rules
  /\ admin \in [Admins -> [saving : BOOLEAN, new : Rules]]
  /\ lastSent \in [Alerts -> 0..now \cup {Never}]
  /\ round \in [at : {"waiting", "loaded", "muted", "backends", "changes", "errors", "slow"},
                rules : Rules, todo : SUBSET Alerts, sending : Alerts \cup {NoAlert}]
  /\ round.at \in {"waiting", "loaded", "muted", "backends"} =>
       round.todo = {} /\ round.sending = NoAlert
  /\ hist \in [outages : [Backends -> Nat], recoveries : [Backends -> Nat],
               down : SUBSET Backends,
               received : [{"backend-down", "backend-up"} \X Backends -> Nat],
               confirmed : SUBSET [alert : Alerts, time : Nat], saves : Nat, faults : Nat]

(* The chat never reports more outages of a backend than the balancer saw, *)
(* nor more recoveries, however rounds, list changes and lost answers      *)
(* interleave (checkBackends compares with the round before and swaps).    *)
AlertsStandForEvents ==
  \A b \in Backends :
    /\ hist.received[<<"backend-down", b>>] <= hist.outages[b]
    /\ hist.received[<<"backend-up", b>>] <= hist.recoveries[b]

(* A notice about the error rate, or about one backend's latency, is sent  *)
(* only when the silence of the round's rules has passed since the last    *)
(* confirmed one, whatever alerts come and go in between (fire, deliver).  *)
Spaced ==
  [][\A s \in hist.confirmed :
       s.alert # round.sending /\ s.alert = round'.sending
       => now - s.time >= round.rules.silence]_vars

(* No outage is silenced: a recovery that came before it has ended the     *)
(* silence of the last one (checkBackends' comment, engine.go:213: after a *)
(* recovery the next fault is reported at once).                           *)
OutagesNotSilenced ==
  [][\A b \in Backends :
       LET k == <<"backend-down", b>> IN Fire(k) => round'.sending = k]_vars

(* Once nobody saves any more and the row can be read, the rules in memory *)
(* are the stored ones for good, also when saves and a round's reload      *)
(* crossed each other (SetRules, evaluate).                                *)
RulesSettle == <>[](rules = stored)
=============================================================================
