----------------------------- MODULE AlertProofs -----------------------------
(***************************************************************************)
(* Proofs about Alert for every value of its constants: its type           *)
(* invariant, that the chat reports no more than what happened, and that   *)
(* repeated notices are spaced.                                            *)
(*                                                                         *)
(* AlertsStandForEvents only looks at what the chat has received.  It      *)
(* follows from an account per backend: what was received, what the round  *)
(* still has to send and what the next comparison will find are together   *)
(* no more than what happened (Accounts).  Spaced needs that the engine's  *)
(* stamp of a notice that nothing but time makes due again is the one of   *)
(* its last confirmed delivery (Stamped).                                  *)
(***************************************************************************)
EXTENDS Alert, TLAPS

Down(b) == <<"backend-down", b>>
Up(b) == <<"backend-up", b>>

(* One notice the round has still to send, or has not sent to the end.     *)
Pending(k) == IF k \in round.todo \/ k = round.sending THEN 1 ELSE 0

(* What the next comparison finds, at most.                                *)
DownToFind(b) ==
  IF b \in DOMAIN healthy /\ healthy[b] /\ b \in DOMAIN view /\ ~view[b] THEN 1 ELSE 0
UpToFind(b) ==
  IF b \in DOMAIN healthy /\ ~healthy[b] /\ b \notin hist.down THEN 1 ELSE 0

Account(b) ==
  /\ b \in DOMAIN view => (view[b] <=> b \notin hist.down)
  /\ hist.received[Down(b)] + Pending(Down(b)) + DownToFind(b) <= hist.outages[b]
  /\ hist.received[Up(b)] + Pending(Up(b)) + UpToFind(b) <= hist.recoveries[b]

Accounts ==
  /\ round.sending \notin round.todo
  /\ \A b \in Backends : Account(b)

(* The notices that only time makes due again.                             *)
Repeating == {"backend-latency"} \X Backends \cup {<<"error-rate", "all">>}

Stamped == \A s \in hist.confirmed : s.alert \in Repeating /\ lastSent[s.alert] = s.time
-----------------------------------------------------------------------------
(* The kinds of alerts exclude one another, and each names its backend.    *)
LEMMA Kinds ==
  /\ NoAlert \notin Alerts
  /\ Repeating \subseteq Alerts
  /\ \A b \in Backends :
       /\ {Down(b), Up(b)} \subseteq Alerts \ Repeating
       /\ {Down(b), Up(b)} \subseteq {"backend-down", "backend-up"} \X Backends
       /\ Down(b)[1] = "backend-down" /\ Down(b)[2] = b
       /\ Up(b)[1] = "backend-up" /\ Up(b)[2] = b
  /\ \A b, c \in Backends : /\ Down(b) # Up(c)
                            /\ Down(b) = Down(c) => b = c
                            /\ Up(b) = Up(c) => b = c
  BY DEF NoAlert, Alerts, Repeating, Down, Up

LEMMA KindOf ==
  ASSUME NEW k \in Alerts
  PROVE  /\ k \in Repeating => /\ k[1] # "backend-up"
                               /\ k \notin {"backend-down", "backend-up"} \X Backends
         /\ k \notin Repeating => /\ k \in {"backend-down", "backend-up"} \X Backends
                                  /\ \E b \in Backends : k = Down(b) \/ k = Up(b)
         /\ k[1] = "backend-up" => \E b \in Backends : k = Up(b)
  BY DEF Alerts, Repeating, Down, Up

(* What the types give for one backend.                                    *)
LEMMA Counts ==
  ASSUME TypeOK, NEW b \in Backends
  PROVE  /\ hist.received[Down(b)] \in Nat /\ hist.received[Up(b)] \in Nat
         /\ hist.outages[b] \in Nat /\ hist.recoveries[b] \in Nat
  BY Kinds DEF TypeOK
-----------------------------------------------------------------------------
RoundType ==
  [at : {"waiting", "loaded", "muted", "backends", "changes", "errors", "slow"},
   rules : Rules, todo : SUBSET Alerts, sending : Alerts \cup {NoAlert}]

HistType ==
  [outages : [Backends -> Nat], recoveries : [Backends -> Nat], down : SUBSET Backends,
   received : [{"backend-down", "backend-up"} \X Backends -> Nat],
   confirmed : SUBSET [alert : Alerts, time : Nat], saves : Nat, faults : Nat]

LEMMA WaitingType == DefaultRules \in Rules /\ Waiting \in RoundType
  BY DEF Rules, Waiting, RoundType

(* The outcomes of a notice leave the history well formed.                 *)
LEMMA ReceiveType ==
  ASSUME hist \in HistType, NEW k \in Alerts
  PROVE  Receive(k) \in HistType
<1> DEFINE more == [hist.received EXCEPT ![k] = @ + 1]
<1>1. k \in DOMAIN hist.received => more \in [{"backend-down", "backend-up"} \X Backends -> Nat]
  BY DEF HistType
<1>2. k \in DOMAIN hist.received => Receive(k) = [hist EXCEPT !.received = more]
  BY DEF Receive
<1>. HIDE DEF more
<1>. QED BY <1>1, <1>2 DEF Receive, HistType

LEMMA ConfirmType ==
  ASSUME hist \in HistType, now \in Nat, NEW k \in Alerts
  PROVE  Confirm(k) \in HistType
<1>1. {s \in hist.confirmed : s.alert # k} \cup {[alert |-> k, time |-> now]}
        \in SUBSET [alert : Alerts, time : Nat]
  BY DEF HistType
<1>2. CASE k \in DOMAIN hist.received
  BY <1>2, ReceiveType DEF Confirm
<1>3. CASE k \notin DOMAIN hist.received
  BY <1>1, <1>3 DEF Confirm, HistType
<1>. QED BY <1>2, <1>3

LEMMA RecoveredType ==
  ASSUME hist \in HistType, NEW bs \in SUBSET Backends
  PROVE  Recovered(bs) \in HistType
<1>1. [b \in Backends |-> IF b \in bs \cap hist.down THEN hist.recoveries[b] + 1
                                                    ELSE hist.recoveries[b]]
        \in [Backends -> Nat]
  BY DEF HistType
<1>. QED BY <1>1 DEF Recovered, HistType

(* Every step keeps the type invariant.                                    *)
LEMMA TypeStep ==
  ASSUME TypeOK, [Next]_vars
  PROVE  TypeOK'
<1>. USE AlertAssumption
<1>0. /\ round \in RoundType /\ hist \in HistType /\ now \in Nat /\ MaxClock \in Nat
      /\ round.at \in {"waiting", "loaded", "muted", "backends"} =>
           round.todo = {} /\ round.sending = NoAlert
  BY DEF TypeOK, RoundType, HistType
<1>1. ASSUME NEW a \in Admins, NEW r \in RuleSets, Store(a, r) PROVE TypeOK'
  <2>1. hist' \in HistType
    BY <1>0, <1>1 DEF Store, HistType
  <2>. QED BY <1>1, <2>1 DEF Store, TypeOK, HistType, Rules, engineVars
<1>2. ASSUME NEW a \in Admins, Adopt(a) PROVE TypeOK'
  BY <1>2, WaitingType DEF Adopt, TypeOK, Idle
<1>3. CASE LoadRulesCached \/ LoadRules \/ LoadFails
  <2>1. hist' \in HistType
    BY <1>0, <1>3 DEF LoadRulesCached, LoadRules, LoadFails, HistType
  <2>2. /\ round' \in RoundType /\ round'.todo = {} /\ round'.sending = NoAlert
    <3>1. PICK r \in Rules : round' = [Waiting EXCEPT !.at = "loaded", !.rules = r]
      BY <1>3, WaitingType DEF LoadRulesCached, LoadRules, LoadFails, TypeOK
    <3>. QED BY <3>1, WaitingType DEF Waiting, RoundType
  <2>. QED BY <1>3, <2>1, <2>2 DEF LoadRulesCached, LoadRules, LoadFails, TypeOK, HistType, RoundType
<1>4. CASE AdoptLoaded
  <2>1. /\ round' \in RoundType /\ round'.todo = {} /\ round'.sending = NoAlert
        /\ round.rules \in Rules
    BY <1>0, <1>4 DEF AdoptLoaded, RoundType
  <2>. QED BY <1>4, <2>1 DEF AdoptLoaded, TypeOK, RoundType
<1>5. CASE RecordBaseline
  <2>1. round' \in RoundType /\ round'.todo = {} /\ round'.sending = NoAlert
    BY <1>5, WaitingType DEF RecordBaseline, Waiting
  <2>. QED BY <1>5, <2>1 DEF RecordBaseline, TypeOK, RoundType
<1>6. CASE CheckBackends
  <2>1. Changed(healthy) \subseteq Alerts
    BY DEF TypeOK, Changed, Alerts
  <2>2. round' \in RoundType /\ round'.at = "changes"
    BY <1>0, <1>6, <2>1 DEF CheckBackends, RoundType
  <2>. QED BY <1>6, <2>2 DEF CheckBackends, TypeOK, RoundType
<1>7. CASE CheckErrorRate \/ CheckLatency
  <2>1. PICK at \in {"errors", "slow"}, todo \in SUBSET Alerts :
          round' = [round EXCEPT !.at = at, !.todo = todo]
    <3>1. CASE CheckErrorRate
      BY <3>1 DEF CheckErrorRate, Alerts
    <3>2. CASE CheckLatency
      BY <3>2 DEF CheckLatency, Alerts
    <3>. QED BY <1>7, <3>1, <3>2
  <2>2. round' \in RoundType /\ round'.at \in {"errors", "slow"}
    BY <1>0, <2>1 DEF RoundType
  <2>3. UNCHANGED <<view, now, stored, admin, rules, lastSent, healthy, hist>>
    BY <1>7 DEF CheckErrorRate, CheckLatency
  <2>. QED BY <2>2, <2>3 DEF TypeOK, RoundType
<1>8. CASE EndRound
  <2>1. round' \in RoundType /\ round'.todo = {} /\ round'.sending = NoAlert
    BY <1>8, WaitingType DEF EndRound, Waiting
  <2>. QED BY <1>8, <2>1 DEF EndRound, TypeOK, RoundType
<1>9. ASSUME NEW k \in Alerts, Fire(k) PROVE TypeOK'
  <2>1. round' \in RoundType /\ round'.at = round.at /\ round.todo # {}
    BY <1>0, <1>9 DEF Fire, RoundType
  <2>2. lastSent' \in [Alerts -> 0..now \cup {Never}]
    BY <1>9 DEF Fire, Forget, TypeOK
  <2>. QED BY <1>0, <1>9, <2>1, <2>2 DEF Fire, TypeOK, RoundType
<1>10. CASE Delivered \/ NotConfirmed
  <2>1. round.sending \in Alerts
    BY <1>0, <1>10 DEF Delivered, NotConfirmed, RoundType
  <2>2. hist' \in HistType
    BY <1>0, <1>10, <2>1, ReceiveType, ConfirmType DEF Delivered, NotConfirmed
  <2>3. round' \in RoundType /\ round'.at = round.at
          /\ round.at \notin {"waiting", "loaded", "muted", "backends"}
    BY <1>0, <1>10 DEF Delivered, NotConfirmed, RoundType
  <2>4. lastSent' \in [Alerts -> 0..now \cup {Never}]
    BY <1>0, <1>10, <2>1 DEF Delivered, NotConfirmed, TypeOK
  <2>. QED BY <1>0, <1>10, <2>2, <2>3, <2>4 DEF Delivered, NotConfirmed, TypeOK, RoundType, HistType
<1>11. ASSUME NEW b \in Backends, MarkDown(b) PROVE TypeOK'
  <2>1. hist' \in HistType
    <3> DEFINE more == [hist.outages EXCEPT ![b] = @ + 1]
    <3>1. more \in [Backends -> Nat] /\ hist.down \cup {b} \in SUBSET Backends
      BY <1>0 DEF HistType
    <3>2. hist' = [hist EXCEPT !.outages = more, !.down = hist.down \cup {b}]
      BY <1>11 DEF MarkDown
    <3>. HIDE DEF more
    <3>. QED BY <1>0, <3>1, <3>2 DEF HistType
  <2>. QED BY <1>11, <2>1 DEF MarkDown, TypeOK, HistType, engineVars
<1>12. ASSUME NEW b \in Backends, MarkUp(b) PROVE TypeOK'
  BY <1>0, <1>12, RecoveredType DEF MarkUp, TypeOK, HistType, engineVars
<1>13. ASSUME NEW bs \in SUBSET Backends, SetBackends(bs) PROVE TypeOK'
  BY <1>0, <1>13, RecoveredType DEF SetBackends, TypeOK, HistType, engineVars
<1>14. CASE Tick
  BY <1>14 DEF Tick, TypeOK, engineVars
<1>15. CASE UNCHANGED vars
  BY <1>15 DEF vars, TypeOK
<1>. QED
  BY <1>1, <1>2, <1>3, <1>4, <1>5, <1>6, <1>7, <1>8, <1>9, <1>10, <1>11, <1>12,
     <1>13, <1>14, <1>15 DEF Next, Evaluate

LEMMA InitTypes == Init => TypeOK
<1>. SUFFICES ASSUME Init PROVE TypeOK
  OBVIOUS
<1>. USE AlertAssumption
<1>1. round \in RoundType /\ round.todo = {} /\ round.sending = NoAlert
  BY WaitingType DEF Init, Waiting
<1>2. hist \in HistType
  BY DEF Init, HistType
<1>3. admin \in [Admins -> [saving : BOOLEAN, new : Rules]]
  BY WaitingType DEF Init, Idle
<1>. QED BY <1>1, <1>2, <1>3 DEF Init, TypeOK, RoundType, HistType

(* The type invariant of the specification.                                *)
THEOREM TypeCorrect == Spec => []TypeOK
  BY InitTypes, TypeStep, PTL DEF Spec
-----------------------------------------------------------------------------
(* A step that moves neither backends nor notices changes no account.      *)
LEMMA SameAccounts ==
  ASSUME Accounts, UNCHANGED <<view, healthy>>,
         UNCHANGED <<hist.outages, hist.recoveries, hist.down, hist.received>>,
         UNCHANGED <<round.todo, round.sending>>
  PROVE  Accounts'
  BY DEF Accounts, Account, Pending, DownToFind, UpToFind

(* The rounds' last two comparisons find nothing about an event.           *)
LEMMA RepeatingAccounts ==
  ASSUME TypeOK, Accounts, UNCHANGED <<view, healthy, hist>>,
         round.todo = {}, round.sending = NoAlert,
         round'.todo \subseteq Repeating, round'.sending = NoAlert
  PROVE  Accounts'
<1>1. ASSUME NEW b \in Backends PROVE Account(b)'
  <2>1. Pending(Down(b))' = 0 /\ Pending(Up(b))' = 0
    BY Kinds DEF Pending
  <2>2. Pending(Down(b)) = 0 /\ Pending(Up(b)) = 0
    BY Kinds DEF Pending
  <2>. QED BY <2>1, <2>2 DEF Accounts, Account, DownToFind, UpToFind
<1>. QED BY <1>1, Kinds DEF Accounts

(* The comparison hands what it found to the round.                        *)
LEMMA CompareAccounts ==
  ASSUME TypeOK, Accounts, CheckBackends
  PROVE  Accounts'
<1>1. /\ round.todo = {} /\ round.sending = NoAlert
      /\ round'.todo = Changed(healthy) /\ round'.sending = NoAlert
      /\ view' = view /\ healthy' = view /\ hist' = hist
  BY DEF CheckBackends, TypeOK
<1>2. NoAlert \notin Changed(healthy)
  BY DEF Changed, NoAlert
<1>3. ASSUME NEW b \in Backends PROVE Account(b)'
  <2>1. Pending(Down(b))' = DownToFind(b)
    BY <1>1, Kinds DEF Pending, DownToFind, Changed, Down
  <2>2. Pending(Up(b))' <= UpToFind(b) /\ Pending(Up(b))' \in {0, 1}
    <3>1. Up(b) \in Changed(healthy) =>
            /\ b \in DOMAIN healthy /\ ~healthy[b]
            /\ b \in DOMAIN view /\ view[b]
      BY DEF Changed, Up
    <3>2. b \in DOMAIN view /\ view[b] => b \notin hist.down
      BY DEF Accounts, Account
    <3>3. Up(b) # NoAlert
      BY Kinds
    <3>. QED BY <1>1, <3>1, <3>2, <3>3 DEF Pending, UpToFind
  <2>3. DownToFind(b)' = 0 /\ UpToFind(b)' = 0
    BY <1>1, <1>3 DEF DownToFind, UpToFind, Accounts, Account
  <2>4. Pending(Down(b)) = 0 /\ Pending(Up(b)) = 0
    BY <1>1, Kinds DEF Pending
  <2>5. DownToFind(b) \in {0, 1} /\ UpToFind(b) \in {0, 1}
    BY DEF DownToFind, UpToFind
  <2>. QED BY <1>1, <1>3, <2>1, <2>2, <2>3, <2>4, <2>5, Counts DEF Accounts, Account
<1>. QED BY <1>1, <1>2, <1>3 DEF Accounts

(* A notice that the round takes up is pending still, or is silenced.      *)
LEMMA FireAccounts ==
  ASSUME TypeOK, Accounts, NEW k \in Alerts, Fire(k)
  PROVE  Accounts'
<1>1. /\ k \in round.todo /\ round.sending = NoAlert
      /\ round'.todo = round.todo \ {k} /\ round'.sending \in {k, NoAlert}
      /\ UNCHANGED <<view, healthy, hist>>
  BY DEF Fire, TypeOK
<1>2. ASSUME NEW b \in Backends PROVE Account(b)'
  <2>1. /\ Pending(Down(b))' <= Pending(Down(b)) /\ Pending(Up(b))' <= Pending(Up(b))
        /\ {Pending(Down(b)), Pending(Up(b)), Pending(Down(b))', Pending(Up(b))'} \subseteq {0, 1}
    BY <1>1, Kinds DEF Pending
  <2>2. DownToFind(b) \in {0, 1} /\ UpToFind(b) \in {0, 1}
    BY DEF DownToFind, UpToFind
  <2>3. DownToFind(b)' = DownToFind(b) /\ UpToFind(b)' = UpToFind(b)
    BY <1>1 DEF DownToFind, UpToFind
  <2>. QED BY <1>1, <1>2, <2>1, <2>2, <2>3, Counts DEF Accounts, Account
<1>. QED BY <1>1, <1>2, Kinds DEF Accounts, TypeOK

(* What is received, or given up, is no longer pending.                    *)
LEMMA SentAccounts ==
  ASSUME TypeOK, Accounts, Delivered \/ NotConfirmed
  PROVE  Accounts'
<1> DEFINE k == round.sending
<1>1. /\ k \in Alerts /\ round'.todo = round.todo /\ round'.sending = NoAlert
      /\ UNCHANGED <<view, healthy>>
  BY DEF Delivered, NotConfirmed, TypeOK
<1>2. /\ UNCHANGED <<hist.outages, hist.recoveries, hist.down>>
      /\ DOMAIN hist.received = {"backend-down", "backend-up"} \X Backends
      /\ \A j \in DOMAIN hist.received :
           hist'.received[j] \in {hist.received[j], IF j = k THEN hist.received[j] + 1
                                                            ELSE hist.received[j]}
  <2>1. hist' \in {hist, Receive(k)} \/ (k \notin DOMAIN hist.received /\ hist' = Confirm(k))
    BY DEF Delivered, NotConfirmed, Confirm
  <2>2. hist \in HistType /\ hist.received \in [{"backend-down", "backend-up"} \X Backends -> Nat]
    BY DEF TypeOK, HistType
  <2>3. CASE hist' = hist
    BY <2>2, <2>3
  <2>4. CASE hist' = Receive(k)
    <3>1. CASE k \notin DOMAIN hist.received
      BY <2>2, <2>4, <3>1 DEF Receive
    <3>2. CASE k \in DOMAIN hist.received
      <4> DEFINE more == [hist.received EXCEPT ![k] = @ + 1]
      <4>1. hist' = [hist EXCEPT !.received = more]
        BY <2>4, <3>2 DEF Receive
      <4>2. \A j \in DOMAIN hist.received :
              more[j] = IF j = k THEN hist.received[j] + 1 ELSE hist.received[j]
        OBVIOUS
      <4>. HIDE DEF more
      <4>3. /\ hist'.received = more
            /\ UNCHANGED <<hist.outages, hist.recoveries, hist.down>>
        BY <2>2, <4>1 DEF HistType
      <4>. QED BY <2>2, <4>2, <4>3
    <3>. QED BY <3>1, <3>2
  <2>5. CASE k \notin DOMAIN hist.received /\ hist' = Confirm(k)
    BY <2>2, <2>5 DEF Confirm, HistType
  <2>. QED BY <2>1, <2>3, <2>4, <2>5
<1>3. ASSUME NEW b \in Backends PROVE Account(b)'
  <2>1. ASSUME NEW j \in {Down(b), Up(b)}
        PROVE  hist'.received[j] + Pending(j)' <= hist.received[j] + Pending(j)
    <3>1. j \in DOMAIN hist.received /\ hist.received[j] \in Nat
      BY <1>2, Kinds, Counts
    <3>. QED BY <1>1, <1>2, <3>1, Kinds DEF Pending, Accounts
  <2>2. DownToFind(b)' = DownToFind(b) /\ UpToFind(b)' = UpToFind(b)
    BY <1>1, <1>2 DEF DownToFind, UpToFind
  <2>3. DownToFind(b) \in {0, 1} /\ UpToFind(b) \in {0, 1}
    BY DEF DownToFind, UpToFind
  <2>4. \A j \in {Down(b), Up(b)} :
          /\ hist'.received[j] \in Nat /\ hist.received[j] \in Nat
          /\ Pending(j) \in {0, 1} /\ Pending(j)' \in {0, 1}
    BY <1>2, Kinds, Counts DEF Pending
  <2>. QED BY <1>1, <1>2, <1>3, <2>1, <2>2, <2>3, <2>4, Counts DEF Accounts, Account
<1>4. round.todo \subseteq Alerts /\ NoAlert \notin Alerts
  BY Kinds DEF TypeOK
<1>. QED BY <1>1, <1>3, <1>4 DEF Accounts

(* A backend goes down: one outage more, and one more to find.             *)
LEMMA MarkDownAccounts ==
  ASSUME TypeOK, Accounts, NEW b \in Backends, MarkDown(b)
  PROVE  Accounts'
<1>1. /\ b \in DOMAIN view /\ view[b]
      /\ view' = [view EXCEPT ![b] = FALSE]
      /\ UNCHANGED <<healthy, round>>
  BY DEF MarkDown, engineVars
<1>2. /\ UNCHANGED <<hist.recoveries, hist.received>>
      /\ hist'.down = hist.down \cup {b}
      /\ \A c \in Backends : hist'.outages[c] = IF c = b THEN hist.outages[c] + 1
                                                        ELSE hist.outages[c]
  <2> DEFINE more == [hist.outages EXCEPT ![b] = @ + 1]
  <2>1. hist \in HistType /\ hist.outages \in [Backends -> Nat]
    BY DEF TypeOK, HistType
  <2>2. hist' = [hist EXCEPT !.outages = more, !.down = hist.down \cup {b}]
    BY DEF MarkDown
  <2>3. \A c \in Backends : more[c] = IF c = b THEN hist.outages[c] + 1
                                              ELSE hist.outages[c]
    BY <2>1
  <2>. HIDE DEF more
  <2>. QED BY <2>1, <2>2, <2>3 DEF HistType
<1>3. ASSUME NEW c \in Backends PROVE Account(c)'
  <2>1. Pending(Down(c))' = Pending(Down(c)) /\ Pending(Up(c))' = Pending(Up(c))
    BY <1>1 DEF Pending
  <2>2. {Pending(Down(c)), Pending(Up(c)), DownToFind(c), UpToFind(c),
         DownToFind(c)', UpToFind(c)'} \subseteq {0, 1}
    BY DEF Pending, DownToFind, UpToFind
  <2>3. UpToFind(c)' <= UpToFind(c)
    BY <1>1, <1>2 DEF UpToFind
  <2>4. DOMAIN view' = DOMAIN view /\ \A d \in DOMAIN view : d # b => view'[d] = view[d]
    BY <1>1
  <2>5. c # b => DownToFind(c)' = DownToFind(c)
    BY <1>1, <2>4 DEF DownToFind
  <2>6. c \in DOMAIN view' => (view'[c] <=> c \notin hist'.down)
    BY <1>1, <1>2, <2>4 DEF Accounts, Account, TypeOK
  <2>7. c = b => DownToFind(c) = 0
    BY <1>1 DEF DownToFind
  <2>. QED BY <1>2, <2>1, <2>2, <2>3, <2>5, <2>6, <2>7, Counts DEF Accounts, Account
<1>. QED BY <1>1, <1>3 DEF Accounts

(* Backends come back, or into the list: a recovery is one more to find.   *)
LEMMA RecoverAccounts ==
  ASSUME TypeOK, Accounts, NEW bs \in SUBSET Backends,
         hist' = Recovered(bs), UNCHANGED <<healthy, round>>,
         DOMAIN view' \subseteq Backends, \A c \in bs : c \in DOMAIN view' => view'[c],
         \A c \in DOMAIN view' \ bs : c \in DOMAIN view /\ view'[c] = view[c]
  PROVE  Accounts'
<1>1. /\ UNCHANGED <<hist.outages, hist.received>>
      /\ hist'.down = hist.down \ bs
      /\ \A c \in Backends :
           hist'.recoveries[c] = IF c \in bs \cap hist.down THEN hist.recoveries[c] + 1
                                                           ELSE hist.recoveries[c]
  <2> DEFINE more == [c \in Backends |-> IF c \in bs \cap hist.down
                                         THEN hist.recoveries[c] + 1
                                         ELSE hist.recoveries[c]]
  <2>1. hist \in HistType
    BY DEF TypeOK, HistType
  <2>2. hist' = [hist EXCEPT !.recoveries = more, !.down = hist.down \ bs]
    BY DEF Recovered
  <2>3. \A c \in Backends : more[c] = IF c \in bs \cap hist.down
                                      THEN hist.recoveries[c] + 1 ELSE hist.recoveries[c]
    OBVIOUS
  <2>. HIDE DEF more
  <2>. QED BY <2>1, <2>2, <2>3 DEF HistType
<1>2. ASSUME NEW c \in Backends PROVE Account(c)'
  <2>1. Pending(Down(c))' = Pending(Down(c)) /\ Pending(Up(c))' = Pending(Up(c))
    BY DEF Pending
  <2>2. {Pending(Down(c)), Pending(Up(c)), DownToFind(c), UpToFind(c),
         DownToFind(c)', UpToFind(c)'} \subseteq {0, 1}
    BY DEF Pending, DownToFind, UpToFind
  <2>3. DownToFind(c)' <= DownToFind(c)
    BY DEF DownToFind
  <2>4. c \notin bs \cap hist.down => UpToFind(c)' <= UpToFind(c)
    BY <1>1 DEF UpToFind
  <2>5. c \in bs \cap hist.down => UpToFind(c) = 0
    BY DEF UpToFind
  <2>6. c \in DOMAIN view' => (view'[c] <=> c \notin hist'.down)
    BY <1>1 DEF Accounts, Account
  <2>. QED BY <1>1, <2>1, <2>2, <2>3, <2>4, <2>5, <2>6, Counts DEF Accounts, Account
<1>. QED BY <1>2 DEF Accounts

LEMMA AccountStep ==
  ASSUME TypeOK, Accounts, [Next]_vars
  PROVE  Accounts'
<1>1. ASSUME NEW a \in Admins, NEW r \in RuleSets, Store(a, r) PROVE Accounts'
  BY <1>1, SameAccounts DEF Store, TypeOK, engineVars
<1>2. ASSUME NEW a \in Admins, Adopt(a) PROVE Accounts'
  BY <1>2, SameAccounts DEF Adopt
<1>3. CASE LoadRulesCached \/ LoadRules \/ LoadFails
  BY <1>3, SameAccounts DEF LoadRulesCached, LoadRules, LoadFails, TypeOK, Waiting
<1>4. CASE AdoptLoaded
  BY <1>4, SameAccounts DEF AdoptLoaded, TypeOK
<1>5. CASE RecordBaseline
  <2>1. /\ round.todo = {} /\ round.sending = NoAlert
        /\ UNCHANGED <<round.todo, round.sending, view, hist>> /\ healthy' = view
    BY <1>5 DEF RecordBaseline, TypeOK, Waiting
  <2>2. ASSUME NEW b \in Backends PROVE Account(b)'
    <3>1. Pending(Down(b))' = Pending(Down(b)) /\ Pending(Up(b))' = Pending(Up(b))
      BY <2>1 DEF Pending
    <3>2. {Pending(Down(b)), Pending(Up(b)), DownToFind(b), UpToFind(b)} \subseteq {0, 1}
      BY DEF Pending, DownToFind, UpToFind
    <3>3. DownToFind(b)' = 0 /\ UpToFind(b)' = 0
      BY <2>1, <2>2 DEF DownToFind, UpToFind, Accounts, Account
    <3>. QED BY <2>1, <3>1, <3>2, <3>3, Counts DEF Accounts, Account
  <2>. QED BY <2>1, <2>2 DEF Accounts
<1>6. CASE CheckBackends
  BY <1>6, CompareAccounts
<1>7. CASE CheckErrorRate \/ CheckLatency
  <2>1. round'.todo \subseteq Repeating /\ round'.sending = NoAlert
    <3>1. CASE CheckErrorRate
      BY <3>1 DEF CheckErrorRate, Done, TypeOK, Repeating
    <3>2. CASE CheckLatency
      BY <3>2 DEF CheckLatency, Done, TypeOK, Repeating
    <3>. QED BY <1>7, <3>1, <3>2
  <2>. QED BY <1>7, <2>1, RepeatingAccounts DEF CheckErrorRate, CheckLatency, Done
<1>8. CASE EndRound
  BY <1>8, SameAccounts DEF EndRound, Done, Waiting
<1>9. ASSUME NEW k \in Alerts, Fire(k) PROVE Accounts'
  BY <1>9, FireAccounts
<1>10. CASE Delivered \/ NotConfirmed
  BY <1>10, SentAccounts
<1>11. ASSUME NEW b \in Backends, MarkDown(b) PROVE Accounts'
  BY <1>11, MarkDownAccounts
<1>12. ASSUME NEW b \in Backends, MarkUp(b) PROVE Accounts'
  <2>1. /\ hist' = Recovered({b}) /\ UNCHANGED <<healthy, round>>
        /\ DOMAIN view' = DOMAIN view /\ DOMAIN view \subseteq Backends
        /\ view'[b] = TRUE
        /\ \A c \in DOMAIN view : c # b => view'[c] = view[c]
    BY <1>12 DEF MarkUp, TypeOK, engineVars
  <2>. QED BY <2>1, RecoverAccounts
<1>13. ASSUME NEW bs \in SUBSET Backends, SetBackends(bs) PROVE Accounts'
  BY <1>13, RecoverAccounts DEF SetBackends, engineVars
<1>14. CASE Tick \/ UNCHANGED vars
  BY <1>14, SameAccounts DEF Tick, vars, engineVars
<1>. QED
  BY <1>1, <1>2, <1>3, <1>4, <1>5, <1>6, <1>7, <1>8, <1>9, <1>10, <1>11, <1>12,
     <1>13, <1>14 DEF Next, Evaluate

(* The chat never hears of more outages, or of more recoveries, of a       *)
(* backend than there were.                                                *)
THEOREM ChatIsTruthful == Spec => []AlertsStandForEvents
<1>1. Init => Accounts
  <2>. SUFFICES ASSUME Init PROVE Accounts
    OBVIOUS
  <2>1. ASSUME NEW b \in Backends PROVE Account(b)
    <3>1. Pending(Down(b)) = 0 /\ Pending(Up(b)) = 0
      BY Kinds DEF Init, Waiting, Pending
    <3>2. DownToFind(b) = 0 /\ UpToFind(b) = 0
      BY DEF Init, DownToFind, UpToFind
    <3>. QED BY <3>1, <3>2, Kinds DEF Init, Account
  <2>. QED BY <2>1 DEF Init, Waiting, Accounts
<1>2. TypeOK /\ Accounts /\ [Next]_vars => TypeOK' /\ Accounts'
  BY TypeStep, AccountStep
<1>3. TypeOK /\ Accounts => AlertsStandForEvents
  <2>. SUFFICES ASSUME TypeOK, Accounts, NEW b \in Backends
                PROVE  /\ hist.received[Down(b)] <= hist.outages[b]
                       /\ hist.received[Up(b)] <= hist.recoveries[b]
    BY DEF AlertsStandForEvents, Down, Up
  <2>1. {Pending(Down(b)), Pending(Up(b)), DownToFind(b), UpToFind(b)} \subseteq {0, 1}
    BY DEF Pending, DownToFind, UpToFind
  <2>. QED BY <2>1, Counts DEF Accounts, Account
<1>. QED
  BY <1>1, <1>2, <1>3, InitTypes, PTL DEF Spec
-----------------------------------------------------------------------------
(* The stamp of a repeating notice is that of its last delivery.           *)
LEMMA StampedStep ==
  ASSUME TypeOK, Stamped, [Next]_vars
  PROVE  Stamped'
<1>1. CASE UNCHANGED <<hist.confirmed, lastSent>>
  BY <1>1 DEF Stamped
<1>2. ASSUME NEW k \in Alerts, Fire(k) PROVE Stamped'
  <2>1. hist' = hist /\ lastSent \in [Alerts -> 0..now \cup {Never}]
    BY <1>2 DEF Fire, TypeOK
  <2>2. ASSUME k[1] = "backend-up", NEW a \in Repeating PROVE lastSent'[a] = lastSent[a]
    <3>1. PICK b \in Backends : k = Up(b)
      BY <2>2, KindOf
    <3>2. lastSent' = [lastSent EXCEPT ![Down(b)] = Never]
      BY <1>2, <2>2, <3>1, Kinds DEF Fire, Forget, Down
    <3>3. a # Down(b) /\ a \in Alerts
      BY Kinds
    <3>. QED BY <2>1, <3>2, <3>3
  <2>3. k[1] # "backend-up" => lastSent' = lastSent
    BY <1>2 DEF Fire
  <2>. QED BY <2>1, <2>2, <2>3 DEF Stamped
<1>3. ASSUME Delivered PROVE Stamped'
  <2> DEFINE k == round.sending
  <2>1. /\ k \in Alerts /\ hist' = Confirm(k) /\ lastSent' = [lastSent EXCEPT ![k] = now]
        /\ lastSent \in [Alerts -> 0..now \cup {Never}] /\ hist \in HistType
    BY <1>3 DEF Delivered, TypeOK, HistType
  <2>2. DOMAIN hist.received = {"backend-down", "backend-up"} \X Backends
    BY <2>1 DEF HistType
  <2>3. ASSUME NEW s \in hist'.confirmed
        PROVE  s.alert \in Repeating /\ lastSent'[s.alert] = s.time
    <3>1. CASE k \in Repeating
      <4>1. hist'.confirmed = {x \in hist.confirmed : x.alert # k}
                                \cup {[alert |-> k, time |-> now]}
        BY <2>1, <2>2, <3>1, KindOf DEF Confirm, HistType
      <4>. HIDE DEF k
      <4>2. CASE s \in hist.confirmed /\ s.alert # k
        <5>1. s.alert \in Alerts
          BY <4>2, Kinds DEF Stamped
        <5>. QED BY <2>1, <4>2, <5>1 DEF Stamped
      <4>3. CASE s = [alert |-> k, time |-> now]
        BY <2>1, <3>1, <4>3
      <4>. QED BY <2>3, <4>1, <4>2, <4>3
    <3>2. CASE k \notin Repeating
      <4>1. hist'.confirmed = hist.confirmed
        <5>1. Confirm(k) = Receive(k)
          BY <2>1, <2>2, <3>2, KindOf DEF Confirm
        <5>. QED BY <2>1, <5>1 DEF Receive, HistType
      <4>2. s.alert \in Repeating /\ s.alert # k /\ s.alert \in Alerts
        BY <2>3, <3>2, <4>1, Kinds DEF Stamped
      <4>. QED BY <2>1, <2>3, <4>1, <4>2 DEF Stamped
    <3>. QED BY <3>1, <3>2
  <2>. QED BY <2>3 DEF Stamped
<1>4. CASE NotConfirmed
  <2>1. hist \in HistType /\ hist' \in {hist, Receive(round.sending)} /\ lastSent' = lastSent
    BY <1>4 DEF NotConfirmed, TypeOK, HistType
  <2>2. hist'.confirmed = hist.confirmed
    BY <2>1 DEF Receive, HistType
  <2>. QED BY <2>1, <2>2 DEF Stamped
<1>5. CASE \/ \E a \in Admins : (\E r \in RuleSets : Store(a, r)) \/ Adopt(a)
           \/ LoadRulesCached \/ LoadRules \/ LoadFails \/ AdoptLoaded
           \/ RecordBaseline \/ CheckBackends \/ CheckErrorRate \/ CheckLatency
           \/ EndRound \/ Tick \/ UNCHANGED vars
  BY <1>1, <1>5 DEF Store, Adopt, LoadRulesCached, LoadRules, LoadFails, AdoptLoaded,
       RecordBaseline, CheckBackends, CheckErrorRate, CheckLatency, EndRound, Tick,
       vars, engineVars, TypeOK
<1>6. CASE \/ \E b \in Backends : MarkDown(b) \/ MarkUp(b)
           \/ \E bs \in SUBSET Backends : SetBackends(bs)
  <2>1. hist \in HistType
    BY DEF TypeOK, HistType
  <2>. QED BY <1>1, <1>6, <2>1
         DEF MarkDown, MarkUp, SetBackends, Recovered, engineVars, HistType
<1>. QED
  BY <1>2, <1>3, <1>4, <1>5, <1>6 DEF Next, Evaluate

(* A round takes up a repeating notice only when its silence has passed.   *)
LEMMA SpacedStep ==
  ASSUME TypeOK, Stamped, [Next]_vars, NEW s \in hist.confirmed,
         s.alert # round.sending, s.alert = round'.sending
  PROVE  now - s.time >= round.rules.silence
<1>1. /\ s.alert \in Repeating /\ s.alert \in Alerts /\ s.alert # NoAlert
      /\ lastSent[s.alert] = s.time
  BY Kinds DEF Stamped
<1>2. s.time \in Nat /\ now \in Nat /\ round.rules.silence \in Nat
  BY AlertAssumption DEF TypeOK
<1>3. ASSUME NEW k \in Alerts, Fire(k)
      PROVE  now - s.time >= round.rules.silence
  <2>1. k = s.alert /\ ~(k[1] # "backend-up" /\ Silent(k))
    BY <1>1, <1>3 DEF Fire, TypeOK
  <2>2. ~Silent(s.alert)
    BY <1>1, <2>1, KindOf
  <2>. QED BY <1>1, <1>2, <2>2, AlertAssumption DEF Silent
<1>4. CASE round'.sending \in {NoAlert, round.sending}
  BY <1>1, <1>4
<1>5. CASE LoadRulesCached \/ LoadRules \/ LoadFails \/ RecordBaseline \/ EndRound
  <2>1. round'.sending = NoAlert
    <3>1. round'.sending = Waiting.sending
      BY <1>5 DEF LoadRulesCached, LoadRules, LoadFails, RecordBaseline, EndRound, Waiting
    <3>. QED BY <3>1 DEF Waiting
  <2>. QED BY <1>4, <2>1
<1>6. CASE AdoptLoaded \/ CheckBackends \/ CheckErrorRate \/ CheckLatency
  <2>1. round'.sending = round.sending
    <3>1. CASE AdoptLoaded \/ CheckBackends
      BY <3>1 DEF AdoptLoaded, CheckBackends, TypeOK
    <3>2. CASE CheckErrorRate
      BY <3>2 DEF CheckErrorRate, TypeOK
    <3>3. CASE CheckLatency
      BY <3>3 DEF CheckLatency, TypeOK
    <3>. QED BY <1>6, <3>1, <3>2, <3>3
  <2>. QED BY <1>4, <2>1
<1>7. CASE Delivered \/ NotConfirmed
  BY <1>4, <1>7 DEF Delivered, NotConfirmed, TypeOK
<1>8. CASE \/ \E a \in Admins : (\E r \in RuleSets : Store(a, r)) \/ Adopt(a)
           \/ \E b \in Backends : MarkDown(b) \/ MarkUp(b)
           \/ \E bs \in SUBSET Backends : SetBackends(bs)
           \/ Tick \/ UNCHANGED vars
  BY <1>4, <1>8 DEF Store, Adopt, MarkDown, MarkUp, SetBackends, Tick, vars, engineVars
<1>. QED BY <1>3, <1>5, <1>6, <1>7, <1>8 DEF Next, Evaluate

(* Two confirmed notices of the same repeating kind are as far apart as    *)
(* the round's silence says.                                               *)
THEOREM NoticesAreSpaced == Spec => Spaced
<1>1. Init => Stamped
  BY DEF Init, Stamped
<1>2. TypeOK /\ Stamped /\ [Next]_vars => TypeOK' /\ Stamped'
  BY TypeStep, StampedStep
<1>3. TypeOK /\ Stamped /\ [Next]_vars
        => [\A s \in hist.confirmed :
              s.alert # round.sending /\ s.alert = round'.sending
              => now - s.time >= round.rules.silence]_vars
  BY SpacedStep
<1>. QED
  BY <1>1, <1>2, <1>3, InitTypes, PTL DEF Spec, Spaced
=============================================================================
