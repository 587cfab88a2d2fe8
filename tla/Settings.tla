------------------------------ MODULE Settings ------------------------------
(***************************************************************************)
(* The runtime settings of the proxy: updateBackends                       *)
(* (internal/api/settings.go) validates a request, saves its parts in the  *)
(* settings table one statement at a time, and then installs them in the   *)
(* running proxy one call at a time; a restart (cmd/sentinel/main.go)      *)
(* installs what the table holds, and what config.yaml says where it holds *)
(* nothing.  Several administrators save at once, statements fail, and the *)
(* process may stop between any two steps.  updateIPACL                    *)
(* (internal/api/ipacl.go) does the same with the IP access list.          *)
(*                                                                         *)
(* A list of backends is the function from its URLs to their weights; of   *)
(* routing rules and of path rewrites only the backends they name are      *)
(* kept, which is all that their validation relates to the other parts.    *)
(***************************************************************************)
EXTENDS AccessList, FiniteSets

CONSTANTS
  Admins,    \* requests of administrators in progress at the same time
  Bodies,    \* the bodies they may send: a value, or Omitted, for each part
  Lists,     \* the IP access lists they may send
  Rows,      \* what an earlier version may have left as the list's row
  Config,    \* what config.yaml says of each part
  Unreads,   \* bound: the sets of parts a start may fail to read
  Omitted,   \* a part the request leaves out
  NotSaved,  \* a part the settings table has no row for
  NoList     \* no IP access list: every client is admitted

ProxyParts == {"backends", "strategy", "rules", "rewrites"}
Parts == ProxyParts \cup {"ipacl"}

ASSUME SettingsAssumption ==
  /\ \A rq \in Bodies : DOMAIN rq = ProxyParts /\ rq["backends"] # Omitted
  /\ \A rq \in Bodies : \A p \in ProxyParts : rq[p] # NotSaved
  /\ \A cfg \in Lists : cfg # NotSaved /\ ~IsOld(cfg)
  /\ \A cfg \in Lists \cup {Parse(row) : row \in Rows} :
       cfg.black \in Seq(Entry) /\ cfg.white \in Seq(Entry)
  /\ DOMAIN Config = Parts /\ Config["ipacl"] = NoList
  /\ \A unread \in Unreads : unread \subseteq Parts
  /\ \A p \in Parts : Config[p] \notin {Omitted, NotSaved}

VARIABLES
  db,      \* the settings table
  live,    \* what is in force: the balancer's and the handler's parts
  admins,  \* each request: the steps it has still to take, and its values
  hist     \* history since the last start: whether an update or a read of the
           \* table has failed, whether two updates overlapped, and the values
           \* each part has been given by the start or saved with

vars == <<db, live, admins, hist>>

NoSteps == [todo |-> <<>>, value |-> Config]
InProgress(a) == admins[a].todo # <<>>
Quiet == \A a \in Admins : ~InProgress(a)

(* loadIPACL: a row that is no legal list is as good as none.              *)
LoadList(row) == IF Compiles(Parse(row)) THEN Parse(row) ELSE NoList

(* main: the parts the table holds, except those that cannot be read.      *)
Loaded(unread) ==
  [p \in Parts |-> IF p \in unread \/ db[p] = NotSaved THEN Config[p]
                   ELSE IF p = "ipacl" THEN LoadList(db[p]) ELSE db[p]]

Init ==
  /\ \E row \in Rows \cup {NotSaved} :
       db = [p \in Parts |-> IF p = "ipacl" THEN row ELSE NotSaved]
  /\ live = Loaded({})
  /\ admins = [a \in Admins |-> NoSteps]
  /\ hist = [failed |-> FALSE, overlapped |-> FALSE, saved |-> [p \in Parts |-> {live[p]}]]
-----------------------------------------------------------------------------
(* updateBackends.                                                         *)

(* The strategy the request is checked with: its own, or the one in force. *)
Effective(rq) == IF rq["strategy"] = Omitted THEN live["strategy"] ELSE rq["strategy"]

Names(rq, p) == rq[p] # Omitted => rq[p] \subseteq DOMAIN rq["backends"]

Valid(rq) ==
  /\ DOMAIN rq["backends"] # {}
  /\ Effective(rq) = "weighted" => \E b \in DOMAIN rq["backends"] : rq["backends"][b] > 0
  /\ Names(rq, "rules")
  /\ Names(rq, "rewrites")

IfGiven(rq, p) == IF rq[p] # Omitted THEN <<p>> ELSE <<>>
Given(rq) == IfGiven(rq, "rules") \o IfGiven(rq, "rewrites")
Touched(rq) == <<"backends", "strategy">> \o Given(rq)
Each(op, parts) == [i \in DOMAIN parts |-> <<op, parts[i]>>]

StepsLiveFirst(rq) == Each("install", Touched(rq)) \o Each("save", Touched(rq))
StepsOfGiven(rq) ==
  Each("save", <<"backends">> \o Given(rq)) \o Each("install", Touched(rq))

(* Everything is saved before anything is installed; the strategy always,  *)
(* rules and rewrites only when the request has them.                      *)
Steps(rq) == Each("save", Touched(rq)) \o Each("install", Touched(rq))

With(rq, s) ==
  [p \in Parts |-> CASE p = "strategy" -> s [] p = "ipacl" -> Omitted [] OTHER -> rq[p]]

Submit(a, rq) ==
  /\ ~InProgress(a)
  /\ Valid(rq)
  /\ admins' = [admins EXCEPT ![a] =
                  [todo |-> Steps(rq), value |-> With(rq, Effective(rq))]]
  /\ hist' = [hist EXCEPT !.overlapped = @ \/ ~Quiet]
  /\ UNCHANGED <<db, live>>

(* updateIPACL: a list that does not compile changes nothing.              *)
SubmitList(a, cfg) ==
  /\ ~InProgress(a)
  /\ Compiles(cfg)
  /\ admins' = [admins EXCEPT ![a] =
                  [todo  |-> <<<<"save", "ipacl">>, <<"install", "ipacl">>>>,
                   value |-> [p \in Parts |-> IF p = "ipacl" THEN cfg ELSE Omitted]]]
  /\ hist' = [hist EXCEPT !.overlapped = @ \/ ~Quiet]
  /\ UNCHANGED <<db, live>>

NextIs(a, op, p) == InProgress(a) /\ Head(admins[a].todo) = <<op, p>>
StepDone(a) == admins' = [admins EXCEPT ![a].todo = Tail(@)]

Save(a, p) ==
  /\ NextIs(a, "save", p)
  /\ db' = [db EXCEPT ![p] = admins[a].value[p]]
  /\ hist' = [hist EXCEPT !.saved[p] = @ \cup {admins[a].value[p]}]
  /\ StepDone(a)
  /\ UNCHANGED live

(* A statement that fails ends the request: what it saved stays saved.     *)
SaveFails(a, p) ==
  /\ NextIs(a, "save", p)
  /\ admins' = [admins EXCEPT ![a] = NoSteps]
  /\ hist' = [hist EXCEPT !.failed = TRUE]
  /\ UNCHANGED <<db, live>>

(* SetBackends, SetStrategy, SetRules, SetRewrites, and the list's pointer *)
(* that each request of the proxy loads.                                   *)
Install(a, p) ==
  /\ NextIs(a, "install", p)
  /\ live' = [live EXCEPT ![p] = admins[a].value[p]]
  /\ StepDone(a)
  /\ UNCHANGED <<db, hist>>

(* The process stops, wherever its requests are, and starts again; a part  *)
(* that cannot be read is taken from config.yaml without a word.           *)
Restart(unread) ==
  /\ live' = Loaded(unread)
  /\ admins' = [a \in Admins |-> NoSteps]
  /\ hist' = [failed |-> unread # {}, overlapped |-> FALSE,
              saved |-> [p \in Parts |-> {Loaded(unread)[p], Loaded({})[p]}]]
  /\ UNCHANGED db

Next ==
  \/ \E a \in Admins : \/ \E rq \in Bodies : Submit(a, rq)
                       \/ \E cfg \in Lists : SubmitList(a, cfg)
                       \/ \E p \in Parts : Save(a, p) \/ SaveFails(a, p) \/ Install(a, p)
  \/ \E unread \in Unreads : Restart(unread)

Spec == Init /\ [][Next]_vars
-----------------------------------------------------------------------------
Values(p) ==
  IF p = "ipacl" THEN Lists \cup {LoadList(row) : row \in Rows} \cup {NoList}
  ELSE {Config[p]} \cup ({rq[p] : rq \in Bodies} \ {Omitted})

(* Type correctness; in particular a part a request leaves out is never    *)
(* saved or put in force as such.                                          *)
TypeOK ==
  /\ DOMAIN db = Parts /\ DOMAIN live = Parts
  /\ db["ipacl"] \in Lists \cup Rows \cup {NotSaved}
  /\ \A p \in ProxyParts : db[p] \in Values(p) \cup {NotSaved}
  /\ \A p \in Parts : live[p] \in Values(p) /\ hist.saved[p] \subseteq Values(p)
  /\ \A a \in Admins :
       /\ admins[a].todo \in Seq({"save", "install"} \X Parts)
       /\ \A i \in 1..Len(admins[a].todo) :
            LET p == admins[a].todo[i][2] IN admins[a].value[p] \in Values(p)
  /\ hist.failed \in BOOLEAN /\ hist.overlapped \in BOOLEAN

(* Once no update is in progress, what is in force is what a restart would *)
(* bring back (README: saving takes effect at once and survives restarts), *)
(* if since the last start no update failed half-way and no two updates    *)
(* overlapped.                                                             *)
SavedIsLive ==
  Quiet /\ ~hist.failed /\ ~hist.overlapped => live = Loaded({})

(* No setting is in force that has not been in the table or come with the  *)
(* start before (updateBackends: first the database, then the update of    *)
(* the running proxy): whatever updates overlap or fail, a restart loses   *)
(* no setting that requests have already seen, except to a newer one.      *)
WriteAhead == \A p \in Parts : live[p] \in hist.saved[p]

(* The list in force admits exactly the clients its entries mean to admit, *)
(* whether a client's address and an entry are written as IPv4 or mapped,  *)
(* and also after the conversion of an old row, where an entry with a link *)
(* means its client on that link, and a network only its clients without   *)
(* one (ipacl's head comment: the black list wins; contains looks for      *)
(* mapped addresses, and compares zones).                                  *)
ListMeansWhatItSays ==
  LET cfg == live["ipacl"]
      meant == Admitted(cfg)
  IN  cfg # NoList =>
        \A ip \in Addresses : Allowed(cfg, ip) <=> Client(ip) \in meant

(* A client of a refused network is refused, on whatever link it was met   *)
(* (ipacl's head comment names fe80::/10 among the networks it supports,   *)
(* and RemoteAddr, which directIP takes the client from, has the link).    *)
NetworksCoverLinks ==
  live["ipacl"] # NoList /\ live["ipacl"].mode = "on" =>
    \A e \in ToSet(live["ipacl"].black), ip \in Addresses :
      e.len # Single /\ InNetwork(e, ip) => ~Allowed(live["ipacl"], ip)

(* Between updates, the weighted strategy has a backend to send requests   *)
(* to (updateBackends: with weighted, at least one backend has a weight,   *)
(* or all traffic has no backend to go to).                                *)
WeightedHasTarget ==
  Quiet /\ live["strategy"] = "weighted" =>
    \E b \in DOMAIN live["backends"] : live["backends"][b] > 0
=============================================================================
