--------------------------- MODULE SettingsProofs ---------------------------
(***************************************************************************)
(* Proofs about Settings for every value of its constants: its type        *)
(* invariant, that nothing is in force which was not saved before, that    *)
(* what is saved is in force when all is quiet, and that an IP access list *)
(* admits whom its entries mean to admit.                                  *)
(*                                                                         *)
(* None of the first three is inductive: an install that is still to come  *)
(* must find its value saved, and a value that is saved must find its      *)
(* install still to come, Ordered, Ahead and InStep.                       *)
(***************************************************************************)
EXTENDS Settings, SequenceTheorems, TLAPS

AnyValue == UNION {Values(p) : p \in Parts}
Step == {"save", "install"} \X Parts
Plan == [todo : Seq(Step), value : {Config} \cup [Parts -> AnyValue \cup {Omitted}]]

(* What the variables are made of.                                         *)
Shape ==
  /\ db \in [Parts -> AnyValue \cup Rows \cup {NotSaved}]
  /\ live \in [Parts -> AnyValue]
  /\ admins \in [Admins -> Plan]
  /\ hist \in [failed : BOOLEAN, overlapped : BOOLEAN, saved : [Parts -> SUBSET AnyValue]]

(* A plan has a legal value for every part it has still to save or to      *)
(* install, and a list that a later start will read back as it is.         *)
Belongs(plan) ==
  \A i \in 1..Len(plan.todo) :
    LET p == plan.todo[i][2]
        v == plan.value[p]
    IN  v \in Values(p) /\ (p = "ipacl" => v \in Lists /\ LoadList(v) = v)

(* What a plan has still to save it has still to install, afterwards.      *)
Ordered(todo) ==
  \A i \in 1..Len(todo) : todo[i][1] = "save" =>
    \E j \in 1..Len(todo) : i < j /\ todo[j] = <<"install", todo[i][2]>>

SavedBefore(todo, i) ==
  \E j \in 1..Len(todo) : j < i /\ todo[j] = <<"save", todo[i][2]>>

(* An install to come finds its value saved, or will save it before.       *)
Ahead ==
  \A a \in Admins : \A i \in 1..Len(admins[a].todo) :
    LET p == admins[a].todo[i][2] IN
    admins[a].todo[i][1] = "install" =>
      SavedBefore(admins[a].todo, i) \/ admins[a].value[p] \in hist.saved[p]

ToInstall(p) ==
  \E a \in Admins : \E i \in 1..Len(admins[a].todo) : admins[a].todo[i] = <<"install", p>>

OneAtATime == \A a, b \in Admins : InProgress(a) /\ InProgress(b) => a = b

(* What a restart would bring back.                                        *)
Reloaded == Loaded({})

(* An install to come brings what is saved by then, too.                   *)
Current ==
  \A a \in Admins : \A i \in 1..Len(admins[a].todo) :
    LET p == admins[a].todo[i][2] IN
    admins[a].todo[i][1] = "install" =>
      SavedBefore(admins[a].todo, i) \/ admins[a].value[p] = Reloaded[p]

(* As long as nothing failed or overlapped, a part that is not in force as *)
(* saved has still to be installed, and with what is saved of it by then.  *)
InStep ==
  ~hist.failed /\ ~hist.overlapped =>
    /\ OneAtATime
    /\ \A p \in Parts : live[p] = Reloaded[p] \/ ToInstall(p)
    /\ Current

Plans == \A a \in Admins : Belongs(admins[a]) /\ Ordered(admins[a].todo)
-----------------------------------------------------------------------------
(* Values.                                                                 *)

LEMMA ValueFacts ==
  /\ \A p \in Parts : Values(p) \subseteq AnyValue
  /\ \A p \in Parts : Config[p] \in Values(p)
  /\ \A p \in ProxyParts : NotSaved \notin Values(p)
  /\ \A p \in ProxyParts, rq \in Bodies : rq[p] = Omitted \/ rq[p] \in Values(p)
  /\ \A cfg \in Lists : cfg \in Values("ipacl") /\ cfg # NotSaved
<1>1. \A p \in ProxyParts : p # "ipacl" /\ p \in Parts
  BY DEF ProxyParts, Parts
<1>2. \A p \in Parts : p = "ipacl" \/ p \in ProxyParts
  BY DEF Parts
<1>3. \A p \in Parts : Config[p] \in Values(p)
  BY SettingsAssumption, <1>2 DEF Values
<1>4. \A p \in ProxyParts : NotSaved \notin Values(p)
  BY SettingsAssumption, <1>1 DEF Values
<1>5. \A p \in ProxyParts, rq \in Bodies : rq[p] = Omitted \/ rq[p] \in Values(p)
  BY <1>1 DEF Values
<1>6. \A cfg \in Lists : cfg \in Values("ipacl") /\ cfg # NotSaved
  BY SettingsAssumption DEF Values
<1>7. \A p \in Parts : Values(p) \subseteq AnyValue
  BY DEF AnyValue
<1>. QED
  BY <1>3, <1>4, <1>5, <1>6, <1>7

(* A list that compiles is loaded as it was saved.                         *)
LEMMA ListsLoad ==
  ASSUME NEW cfg \in Lists, Compiles(cfg)
  PROVE  LoadList(cfg) = cfg
<1>1. Parse(cfg) = cfg
  BY SettingsAssumption DEF Parse
<1>. QED
  BY <1>1 DEF LoadList

(* What a start reads is a value of its part.                              *)
LEMMA LoadedValues ==
  ASSUME TypeOK, NEW unread
  PROVE  /\ Loaded(unread) \in [Parts -> AnyValue]
         /\ \A p \in Parts : Loaded(unread)[p] \in Values(p)
<1>1. \A p \in Parts : Loaded(unread)[p] \in Values(p)
  <2> SUFFICES ASSUME NEW p \in Parts
               PROVE  Loaded(unread)[p] \in Values(p)
    OBVIOUS
  <2>1. CASE p \in unread \/ db[p] = NotSaved
    BY <2>1, ValueFacts DEF Loaded
  <2>2. CASE ~(p \in unread \/ db[p] = NotSaved) /\ p = "ipacl"
    <3>1. Loaded(unread)[p] = LoadList(db["ipacl"])
      BY <2>2 DEF Loaded
    <3>2. CASE db["ipacl"] \in Rows
      BY <2>2, <3>1, <3>2 DEF Values
    <3>3. CASE db["ipacl"] \in Lists
      <4>1. Parse(db["ipacl"]) = db["ipacl"]
        BY <3>3, SettingsAssumption DEF Parse
      <4>2. LoadList(db["ipacl"]) \in Lists \cup {NoList}
        BY <3>3, <4>1 DEF LoadList
      <4>. QED
        BY <2>2, <3>1, <4>2 DEF Values
    <3>. QED
      BY <2>2, <3>2, <3>3 DEF TypeOK
  <2>3. CASE ~(p \in unread \/ db[p] = NotSaved) /\ p # "ipacl"
    <3>1. p \in ProxyParts
      BY <2>3 DEF Parts
    <3>2. Loaded(unread)[p] = db[p]
      BY <2>3 DEF Loaded
    <3>. QED
      BY <2>3, <3>1, <3>2 DEF TypeOK
  <2>. QED
    BY <2>1, <2>2, <2>3
<1>2. \A p \in Parts : Loaded(unread)[p] \in AnyValue
  BY <1>1, ValueFacts
<1>3. Loaded(unread) = [p \in Parts |-> Loaded(unread)[p]]
  BY DEF Loaded
<1>. QED
  BY <1>1, <1>2, <1>3
-----------------------------------------------------------------------------
(* Plans.                                                                  *)

AllSavedFirst(todo) ==
  \A i \in 1..Len(todo) : todo[i][1] = "install" => SavedBefore(todo, i)

LEMMA EachElements ==
  ASSUME NEW parts \in Seq(Parts), NEW op \in {"save", "install"}
  PROVE  /\ Each(op, parts) \in Seq(Step)
         /\ Len(Each(op, parts)) = Len(parts)
         /\ \A i \in 1..Len(parts) : Each(op, parts)[i] = <<op, parts[i]>>
<1>1. DOMAIN parts = 1..Len(parts) /\ Len(parts) \in Nat
  OBVIOUS
<1>2. Each(op, parts) = [i \in 1..Len(parts) |-> <<op, parts[i]>>]
  BY <1>1 DEF Each
<1>3. \A i \in 1..Len(parts) : <<op, parts[i]>> \in Step
  BY DEF Step
<1>4. Each(op, parts) \in [1..Len(parts) -> Step]
  BY <1>2, <1>3
<1>. QED
  BY <1>1, <1>2, <1>4, IsASeq

(* To save everything and then to install everything.                      *)
LEMMA SaveThenInstall ==
  ASSUME NEW parts \in Seq(Parts), NEW todo,
         todo = Each("save", parts) \o Each("install", parts)
  PROVE  /\ todo \in Seq(Step)
         /\ \A i \in 1..Len(todo) : \E k \in 1..Len(parts) : todo[i][2] = parts[k]
         /\ Ordered(todo)
         /\ AllSavedFirst(todo)
<1> DEFINE n == Len(parts)
           s == Each("save", parts)
           t == Each("install", parts)
<1>1. n \in Nat
  OBVIOUS
<1>2. s \in Seq(Step) /\ Len(s) = n /\ \A i \in 1..n : s[i] = <<"save", parts[i]>>
  BY EachElements
<1>3. t \in Seq(Step) /\ Len(t) = n /\ \A i \in 1..n : t[i] = <<"install", parts[i]>>
  BY EachElements
<1>4. todo = s \o t
  OBVIOUS
<1> HIDE DEF n, s, t
<1>5. /\ todo \in Seq(Step) /\ Len(todo) = n + n
      /\ \A i \in 1..(n + n) : todo[i] = IF i <= n THEN s[i] ELSE t[i - n]
  <2>1. /\ s \o t \in Seq(Step)
        /\ Len(s \o t) = Len(s) + Len(t)
        /\ \A i \in 1..(Len(s) + Len(t)) :
             (s \o t)[i] = IF i <= Len(s) THEN s[i] ELSE t[i - Len(s)]
    BY <1>2, <1>3, ConcatProperties, Zenon
  <2>. QED
    BY <2>1, <1>2, <1>3, <1>4
<1>6. \A i \in 1..n : todo[i] = <<"save", parts[i]>>
  BY <1>1, <1>2, <1>5
<1>7. \A i \in 1..n : todo[n + i] = <<"install", parts[i]>>
  <2> SUFFICES ASSUME NEW i \in 1..n
               PROVE  todo[n + i] = <<"install", parts[i]>>
    OBVIOUS
  <2>1. n + i \in 1..(n + n) /\ ~(n + i <= n) /\ (n + i) - n = i
    BY <1>1
  <2>. QED
    BY <2>1, <1>3, <1>5
<1>8. \A i \in 1..Len(todo) : i \in 1..n \/ (i - n \in 1..n /\ n + (i - n) = i)
  BY <1>1, <1>5
<1>9. \A i \in 1..Len(todo) :
        \/ i \in 1..n /\ todo[i] = <<"save", parts[i]>>
        \/ i - n \in 1..n /\ todo[i] = <<"install", parts[i - n]>>
  BY <1>6, <1>7, <1>8
<1>10. ASSUME NEW i \in 1..Len(todo)
       PROVE  /\ \E k \in 1..n : todo[i][2] = parts[k]
              /\ todo[i][1] = "save" => i \in 1..n /\ todo[i][2] = parts[i]
              /\ todo[i][1] = "install" => i - n \in 1..n /\ todo[i][2] = parts[i - n]
  <2>1. CASE i \in 1..n /\ todo[i] = <<"save", parts[i]>>
    BY <2>1
  <2>2. CASE i - n \in 1..n /\ todo[i] = <<"install", parts[i - n]>>
    BY <2>2
  <2>. QED
    BY <1>9, <2>1, <2>2
<1>11. Ordered(todo)
  <2> SUFFICES ASSUME NEW i \in 1..Len(todo), todo[i][1] = "save"
               PROVE  \E j \in 1..Len(todo) : i < j /\ todo[j] = <<"install", todo[i][2]>>
    BY DEF Ordered
  <2>1. i \in 1..n /\ todo[i][2] = parts[i]
    BY <1>10
  <2>2. n + i \in 1..Len(todo) /\ i < n + i
    BY <1>1, <1>5, <2>1
  <2>3. todo[n + i] = <<"install", todo[i][2]>>
    BY <2>1, <1>7
  <2>. QED
    BY <2>2, <2>3
<1>12. AllSavedFirst(todo)
  <2> SUFFICES ASSUME NEW i \in 1..Len(todo), todo[i][1] = "install"
               PROVE  \E j \in 1..Len(todo) : j < i /\ todo[j] = <<"save", todo[i][2]>>
    BY DEF AllSavedFirst, SavedBefore
  <2>1. i - n \in 1..n /\ todo[i][2] = parts[i - n]
    BY <1>10
  <2>2. i - n \in 1..Len(todo) /\ i - n < i
    BY <1>1, <1>5, <2>1
  <2>3. todo[i - n] = <<"save", todo[i][2]>>
    BY <2>1, <1>6
  <2>. QED
    BY <2>2, <2>3
<1>. QED
  BY <1>5, <1>10, <1>11, <1>12 DEF n

(* The parts a request touches.                                            *)
LEMMA TouchedParts ==
  ASSUME NEW rq \in Bodies
  PROVE  /\ Touched(rq) \in Seq(Parts)
         /\ \A k \in 1..Len(Touched(rq)) :
              LET p == Touched(rq)[k] IN
              p \in ProxyParts /\ (p = "strategy" \/ rq[p] # Omitted)
<1> DEFINE P == {p \in ProxyParts : p = "strategy" \/ rq[p] # Omitted}
<1>1. "backends" \in P /\ "strategy" \in P
  BY SettingsAssumption DEF ProxyParts
<1>2. ASSUME NEW p \in ProxyParts
      PROVE  IfGiven(rq, p) \in Seq(P)
  <2>1. CASE rq[p] # Omitted
    <3>1. p \in P
      BY <2>1
    <3> HIDE DEF P
    <3>. QED
      BY <2>1, <3>1 DEF IfGiven
  <2>2. CASE rq[p] = Omitted
    <3> HIDE DEF P
    <3>. QED
      BY <2>2 DEF IfGiven
  <2>. QED
    BY <2>1, <2>2
<1>3. P \subseteq Parts
  BY DEF Parts
<1>4. <<"backends", "strategy">> \in Seq(P)
  BY <1>1
<1> HIDE DEF P
<1>5. Given(rq) \in Seq(P)
  BY <1>2, ConcatProperties DEF Given, ProxyParts
<1>6. Touched(rq) \in Seq(P)
  BY <1>4, <1>5, ConcatProperties DEF Touched
<1>7. \A k \in 1..Len(Touched(rq)) : Touched(rq)[k] \in P
  BY <1>6, ElementOfSeq
<1>8. Touched(rq) \in Seq(Parts)
  BY <1>3, <1>6
<1>. QED
  BY <1>7, <1>8 DEF P

(* The plans that updateBackends, updateIPACL and an end leave a request.  *)
LEMMA RequestPlan ==
  ASSUME TypeOK, NEW rq \in Bodies, NEW plan,
         plan = [todo |-> Steps(rq), value |-> With(rq, Effective(rq))]
  PROVE  plan \in Plan /\ Belongs(plan) /\ Ordered(plan.todo) /\ AllSavedFirst(plan.todo)
<1> DEFINE parts == Touched(rq)
           v == With(rq, Effective(rq))
<1>1. /\ parts \in Seq(Parts)
      /\ \A k \in 1..Len(parts) : parts[k] \in ProxyParts /\ (parts[k] = "strategy" \/ rq[parts[k]] # Omitted)
  BY TouchedParts
<1>2. plan.todo = Each("save", parts) \o Each("install", parts) /\ plan.value = v
  BY DEF Steps
<1>3. Effective(rq) \in Values("strategy")
  <2>1. "strategy" \in Parts /\ "strategy" \in ProxyParts
    BY DEF Parts, ProxyParts
  <2>2. live["strategy"] \in Values("strategy")
    BY <2>1 DEF TypeOK
  <2>. QED
    BY <2>1, <2>2, ValueFacts DEF Effective
<1>4. \A p \in ProxyParts : p # "ipacl" /\ p \in Parts
  BY DEF ProxyParts, Parts
<1>5. \A p \in ProxyParts : p = "strategy" \/ rq[p] # Omitted => v[p] \in Values(p)
  BY <1>3, <1>4, ValueFacts DEF With
<1>6. v \in [Parts -> AnyValue \cup {Omitted}]
  <2> SUFFICES ASSUME NEW p \in Parts PROVE v[p] \in AnyValue \cup {Omitted}
    BY DEF With
  <2>1. p = "ipacl" => v[p] = Omitted
    BY DEF With
  <2>2. p # "ipacl" => p \in ProxyParts
    BY DEF Parts
  <2>3. p # "strategy" /\ p # "ipacl" => v[p] = rq[p]
    BY DEF With
  <2>. QED
    BY <1>5, <2>1, <2>2, <2>3, ValueFacts
<1> HIDE DEF parts, v
<1>7. /\ plan.todo \in Seq(Step) /\ Ordered(plan.todo) /\ AllSavedFirst(plan.todo)
      /\ \A i \in 1..Len(plan.todo) : \E k \in 1..Len(parts) : plan.todo[i][2] = parts[k]
  BY <1>1, <1>2, SaveThenInstall
<1>8. plan = [todo |-> plan.todo, value |-> plan.value]
  OBVIOUS
<1>9. plan \in Plan
  BY <1>2, <1>6, <1>7, <1>8 DEF Plan
<1>10. Belongs(plan)
  <2> SUFFICES ASSUME NEW i \in 1..Len(plan.todo), NEW p, p = plan.todo[i][2]
               PROVE  plan.value[p] \in Values(p) /\ p # "ipacl"
    BY DEF Belongs
  <2>1. p \in ProxyParts /\ (p = "strategy" \/ rq[p] # Omitted)
    BY <1>1, <1>7
  <2>. QED
    BY <2>1, <1>2, <1>4, <1>5
<1>. QED
  BY <1>7, <1>9, <1>10

LEMMA ListPlan ==
  ASSUME NEW cfg \in Lists, Compiles(cfg), NEW plan,
         plan = [todo  |-> <<<<"save", "ipacl">>, <<"install", "ipacl">>>>,
                 value |-> [p \in Parts |-> IF p = "ipacl" THEN cfg ELSE Omitted]]
  PROVE  plan \in Plan /\ Belongs(plan) /\ Ordered(plan.todo) /\ AllSavedFirst(plan.todo)
<1>1. "ipacl" \in Parts /\ cfg \in Values("ipacl") /\ LoadList(cfg) = cfg
  BY ValueFacts, ListsLoad DEF Parts
<1>2. cfg \in AnyValue
  BY <1>1, ValueFacts
<1>3. /\ plan.todo = <<<<"save", "ipacl">>, <<"install", "ipacl">>>>
      /\ plan.value = [p \in Parts |-> IF p = "ipacl" THEN cfg ELSE Omitted]
  OBVIOUS
<1>4. /\ plan.todo \in Seq(Step) /\ Len(plan.todo) = 2
      /\ plan.todo[1] = <<"save", "ipacl">> /\ plan.todo[2] = <<"install", "ipacl">>
  BY <1>1, <1>3 DEF Step
<1>5. plan.value \in [Parts -> AnyValue \cup {Omitted}] /\ plan.value["ipacl"] = cfg
  BY <1>1, <1>2, <1>3
<1>6. plan \in Plan
  BY <1>4, <1>5 DEF Plan
<1>7. \A i \in 1..2 : plan.todo[i][2] = "ipacl"
  BY <1>4
<1>8. Belongs(plan)
  BY <1>1, <1>4, <1>5, <1>7 DEF Belongs
<1>9. Ordered(plan.todo) /\ AllSavedFirst(plan.todo)
  BY <1>4 DEF Ordered, AllSavedFirst, SavedBefore
<1>. QED
  BY <1>6, <1>8, <1>9

LEMMA NoPlan ==
  /\ NoSteps \in Plan /\ NoSteps.todo = <<>>
  /\ Belongs(NoSteps) /\ Ordered(NoSteps.todo) /\ AllSavedFirst(NoSteps.todo)
<1>1. NoSteps.todo = <<>> /\ Len(NoSteps.todo) = 0
  BY DEF NoSteps
<1>2. NoSteps \in Plan
  BY DEF NoSteps, Plan
<1>. QED
  BY <1>1, <1>2 DEF Belongs, Ordered, AllSavedFirst

(* A plan whose first step is done.                                        *)
LEMMA DoneStep ==
  ASSUME admins \in [Admins -> Plan], NEW a \in Admins, InProgress(a), StepDone(a)
  PROVE  /\ admins' \in [Admins -> Plan]
         /\ \A b \in Admins : b # a => admins'[b] = admins[b]
         /\ admins'[a].value = admins[a].value
         /\ Len(admins[a].todo) \in Nat \ {0}
         /\ admins[a].todo \in Seq(Step)
         /\ Len(admins'[a].todo) = Len(admins[a].todo) - 1
         /\ \A i \in 1..Len(admins'[a].todo) : admins'[a].todo[i] = admins[a].todo[i + 1]
<1> DEFINE plan == admins[a]
           next == [plan EXCEPT !.todo = Tail(@)]
<1>1. plan \in Plan /\ plan.todo \in Seq(Step) /\ plan.todo # <<>>
  BY DEF Plan, InProgress
<1>2. next.todo = Tail(plan.todo) /\ next.value = plan.value
  BY <1>1 DEF Plan
<1>3. /\ Tail(plan.todo) \in Seq(Step)
      /\ Len(Tail(plan.todo)) = Len(plan.todo) - 1
      /\ Len(plan.todo) \in Nat \ {0}
      /\ \A i \in 1..Len(Tail(plan.todo)) : Tail(plan.todo)[i] = plan.todo[i + 1]
  BY <1>1
<1>4. next \in Plan
  BY <1>1, <1>3 DEF Plan
<1>5. admins' = [admins EXCEPT ![a] = next]
  BY DEF StepDone
<1> HIDE DEF next
<1>6. admins'[a] = next /\ \A b \in Admins : b # a => admins'[b] = admins[b]
  BY <1>5
<1>7. admins' \in [Admins -> Plan]
  BY <1>4, <1>5
<1>. QED
  BY <1>1, <1>2, <1>3, <1>6, <1>7

LEMMA DonePlans ==
  ASSUME admins \in [Admins -> Plan], NEW a \in Admins, InProgress(a), StepDone(a), Plans
  PROVE  Plans'
<1> DEFINE old == admins[a].todo
           new == admins'[a].todo
           v == admins[a].value
<1>1. /\ \A b \in Admins : b # a => admins'[b] = admins[b]
      /\ admins'[a].value = v
      /\ Len(old) \in Nat \ {0}
      /\ Len(new) = Len(old) - 1
      /\ \A i \in 1..Len(new) : new[i] = old[i + 1]
  BY DoneStep
<1>2. Belongs(admins[a]) /\ Ordered(old)
  BY DEF Plans
<1>3. Belongs(admins'[a])
  <2> SUFFICES ASSUME NEW i \in 1..Len(new), NEW p, p = new[i][2]
               PROVE  v[p] \in Values(p) /\ (p = "ipacl" => v[p] \in Lists /\ LoadList(v[p]) = v[p])
    BY <1>1 DEF Belongs
  <2>1. i + 1 \in 1..Len(old) /\ p = old[i + 1][2]
    BY <1>1
  <2>. QED
    BY <1>2, <2>1 DEF Belongs
<1>4. Ordered(new)
  <2> SUFFICES ASSUME NEW i \in 1..Len(new), new[i][1] = "save"
               PROVE  \E j \in 1..Len(new) : i < j /\ new[j] = <<"install", new[i][2]>>
    BY DEF Ordered
  <2>1. i + 1 \in 1..Len(old) /\ new[i] = old[i + 1]
    BY <1>1
  <2>2. PICK k \in 1..Len(old) : i + 1 < k /\ old[k] = <<"install", old[i + 1][2]>>
    BY <2>1, <1>2 DEF Ordered
  <2>3. k - 1 \in 1..Len(new) /\ i < k - 1 /\ new[k - 1] = old[k]
    BY <1>1, <2>2
  <2>. QED
    BY <2>1, <2>2, <2>3
<1>. QED
  BY <1>1, <1>3, <1>4 DEF Plans
-----------------------------------------------------------------------------
(* The type invariant.                                                     *)

(* What the type invariant says of the table, of what is in force and of   *)
(* the history; of the plans, Plans says more.                             *)
Stored ==
  /\ db["ipacl"] \in Lists \cup Rows \cup {NotSaved}
  /\ \A p \in ProxyParts : db[p] \in Values(p) \cup {NotSaved}
  /\ \A p \in Parts : live[p] \in Values(p) /\ hist.saved[p] \subseteq Values(p)

LEMMA TypeParts ==
  ASSUME Shape, Plans
  PROVE  TypeOK <=> Stored
<1>1. \A a \in Admins :
        /\ admins[a].todo \in Seq({"save", "install"} \X Parts)
        /\ \A i \in 1..Len(admins[a].todo) :
             LET p == admins[a].todo[i][2] IN admins[a].value[p] \in Values(p)
  BY DEF Shape, Plan, Step, Plans, Belongs
<1>2. DOMAIN db = Parts /\ DOMAIN live = Parts /\ hist.failed \in BOOLEAN /\ hist.overlapped \in BOOLEAN
  BY DEF Shape
<1>. QED
  BY <1>1, <1>2 DEF TypeOK, Stored

LEMMA NextStep ==
  ASSUME Shape, Plans, NEW a \in Admins, NEW op, NEW p \in Parts, NextIs(a, op, p)
  PROVE  /\ InProgress(a)
         /\ 1 \in 1..Len(admins[a].todo) /\ admins[a].todo[1] = <<op, p>>
         /\ admins[a].value[p] \in Values(p)
         /\ admins[a].value[p] \in AnyValue
         /\ p = "ipacl" => /\ admins[a].value[p] \in Lists
                           /\ LoadList(admins[a].value[p]) = admins[a].value[p]
<1>1. InProgress(a) /\ Head(admins[a].todo) = <<op, p>> /\ admins[a].todo \in Seq(Step)
  BY DEF NextIs, Shape, Plan
<1>2. 1 \in 1..Len(admins[a].todo) /\ admins[a].todo[1] = <<op, p>>
  BY <1>1 DEF InProgress
<1>3. admins[a].todo[1][2] = p
  BY <1>2
<1>4. admins[a].value[p] \in Values(p)
  BY <1>2, <1>3 DEF Plans, Belongs
<1>5. p = "ipacl" => /\ admins[a].value[p] \in Lists
                     /\ LoadList(admins[a].value[p]) = admins[a].value[p]
  BY <1>2, <1>3 DEF Plans, Belongs
<1>. QED
  BY <1>1, <1>2, <1>4, <1>5, ValueFacts

(* What each step changes, and what it leaves of the plans.                *)
LEMMA SubmitStep ==
  ASSUME Shape, TypeOK, Plans, NEW a \in Admins,
         \/ \E rq \in Bodies : Submit(a, rq)
         \/ \E cfg \in Lists : SubmitList(a, cfg)
  PROVE  /\ admins' \in [Admins -> Plan] /\ Plans'
         /\ \A b \in Admins : b # a => admins'[b] = admins[b]
         /\ AllSavedFirst(admins'[a].todo)
         /\ ~InProgress(a)
         /\ UNCHANGED <<db, live>>
         /\ hist'.failed = hist.failed /\ hist'.saved = hist.saved
         /\ hist'.overlapped = (hist.overlapped \/ ~Quiet)
         /\ hist' \in [failed : BOOLEAN, overlapped : BOOLEAN, saved : [Parts -> SUBSET AnyValue]]
<1>1. \E plan : /\ plan \in Plan /\ Belongs(plan) /\ Ordered(plan.todo) /\ AllSavedFirst(plan.todo)
                /\ admins' = [admins EXCEPT ![a] = plan]
  <2>1. CASE \E rq \in Bodies : Submit(a, rq)
    <3>1. PICK rq \in Bodies : Submit(a, rq)
      BY <2>1
    <3> DEFINE plan == [todo |-> Steps(rq), value |-> With(rq, Effective(rq))]
    <3>2. admins' = [admins EXCEPT ![a] = plan]
      BY <3>1 DEF Submit
    <3>3. plan \in Plan /\ Belongs(plan) /\ Ordered(plan.todo) /\ AllSavedFirst(plan.todo)
      BY RequestPlan
    <3> HIDE DEF plan
    <3>. QED
      BY <3>2, <3>3
  <2>2. CASE \E cfg \in Lists : SubmitList(a, cfg)
    <3>1. PICK cfg \in Lists : SubmitList(a, cfg)
      BY <2>2
    <3> DEFINE plan == [todo  |-> <<<<"save", "ipacl">>, <<"install", "ipacl">>>>,
                        value |-> [p \in Parts |-> IF p = "ipacl" THEN cfg ELSE Omitted]]
    <3>2. admins' = [admins EXCEPT ![a] = plan] /\ Compiles(cfg)
      BY <3>1 DEF SubmitList
    <3>3. plan \in Plan /\ Belongs(plan) /\ Ordered(plan.todo) /\ AllSavedFirst(plan.todo)
      BY <3>2, ListPlan
    <3> HIDE DEF plan
    <3>. QED
      BY <3>2, <3>3
  <2>. QED
    BY <2>1, <2>2
<1>2. PICK plan : /\ plan \in Plan /\ Belongs(plan) /\ Ordered(plan.todo) /\ AllSavedFirst(plan.todo)
                  /\ admins' = [admins EXCEPT ![a] = plan]
  BY <1>1
<1>3. admins' \in [Admins -> Plan] /\ admins'[a] = plan /\ \A b \in Admins : b # a => admins'[b] = admins[b]
  BY <1>2 DEF Shape
<1>4. Plans'
  BY <1>2, <1>3 DEF Plans
<1>5. hist' = [hist EXCEPT !.overlapped = @ \/ ~Quiet]
  BY DEF Submit, SubmitList
<1>6. /\ hist'.failed = hist.failed /\ hist'.saved = hist.saved
      /\ hist'.overlapped = (hist.overlapped \/ ~Quiet)
      /\ hist' \in [failed : BOOLEAN, overlapped : BOOLEAN, saved : [Parts -> SUBSET AnyValue]]
  <2> DEFINE q == Quiet
  <2>1. q \in BOOLEAN
    BY DEF Quiet
  <2>2. hist' = [hist EXCEPT !.overlapped = @ \/ ~q]
    BY <1>5
  <2> HIDE DEF q
  <2>3. /\ hist'.failed = hist.failed /\ hist'.saved = hist.saved
        /\ hist'.overlapped = (hist.overlapped \/ ~q)
        /\ hist' \in [failed : BOOLEAN, overlapped : BOOLEAN, saved : [Parts -> SUBSET AnyValue]]
    BY <2>1, <2>2 DEF Shape
  <2>. QED
    BY <2>3 DEF q
<1>7. ~InProgress(a) /\ UNCHANGED <<db, live>>
  BY DEF Submit, SubmitList
<1>. QED
  BY <1>2, <1>3, <1>4, <1>6, <1>7

LEMMA SaveStep ==
  ASSUME Shape, Plans, NEW a \in Admins, NEW p \in Parts, Save(a, p)
  PROVE  /\ admins' \in [Admins -> Plan] /\ Plans' /\ live' = live
         /\ db'[p] = admins[a].value[p] /\ \A q \in Parts : q # p => db'[q] = db[q]
         /\ db' \in [Parts -> AnyValue \cup Rows \cup {NotSaved}]
         /\ hist'.failed = hist.failed /\ hist'.overlapped = hist.overlapped
         /\ hist'.saved[p] = hist.saved[p] \cup {admins[a].value[p]}
         /\ \A q \in Parts : q # p => hist'.saved[q] = hist.saved[q]
         /\ hist' \in [failed : BOOLEAN, overlapped : BOOLEAN, saved : [Parts -> SUBSET AnyValue]]
<1> DEFINE v == admins[a].value[p]
<1>1. InProgress(a) /\ v \in AnyValue
  BY NextStep DEF Save
<1>2. admins' \in [Admins -> Plan] /\ Plans'
  BY <1>1, DoneStep, DonePlans DEF Save, Shape
<1>3. /\ live' = live /\ db' = [db EXCEPT ![p] = v]
      /\ hist' = [hist EXCEPT !.saved[p] = @ \cup {v}]
  BY DEF Save
<1> HIDE DEF v
<1>4. /\ db'[p] = v /\ \A q \in Parts : q # p => db'[q] = db[q]
      /\ db' \in [Parts -> AnyValue \cup Rows \cup {NotSaved}]
  BY <1>1, <1>3 DEF Shape
<1> DEFINE saved == [hist.saved EXCEPT ![p] = @ \cup {v}]
<1>5. hist' = [hist EXCEPT !.saved = saved]
  BY <1>3
<1>6. /\ saved[p] = hist.saved[p] \cup {v} /\ \A q \in Parts : q # p => saved[q] = hist.saved[q]
      /\ saved \in [Parts -> SUBSET AnyValue]
  BY <1>1 DEF Shape
<1> HIDE DEF saved
<1>7. /\ hist'.failed = hist.failed /\ hist'.overlapped = hist.overlapped /\ hist'.saved = saved
      /\ hist' \in [failed : BOOLEAN, overlapped : BOOLEAN, saved : [Parts -> SUBSET AnyValue]]
  BY <1>5, <1>6 DEF Shape
<1>. QED
  BY <1>2, <1>3, <1>4, <1>6, <1>7 DEF v

LEMMA SaveFailsStep ==
  ASSUME Shape, Plans, NEW a \in Admins, NEW p \in Parts, SaveFails(a, p)
  PROVE  /\ admins' \in [Admins -> Plan] /\ Plans' /\ UNCHANGED <<db, live>>
         /\ admins'[a] = NoSteps /\ \A b \in Admins : b # a => admins'[b] = admins[b]
         /\ hist'.failed = TRUE /\ hist'.saved = hist.saved
         /\ hist' \in [failed : BOOLEAN, overlapped : BOOLEAN, saved : [Parts -> SUBSET AnyValue]]
<1>1. /\ admins' = [admins EXCEPT ![a] = NoSteps] /\ UNCHANGED <<db, live>>
      /\ hist' = [hist EXCEPT !.failed = TRUE]
  BY DEF SaveFails
<1>2. /\ admins' \in [Admins -> Plan]
      /\ admins'[a] = NoSteps /\ \A b \in Admins : b # a => admins'[b] = admins[b]
  BY <1>1, NoPlan DEF Shape
<1>3. Plans'
  BY <1>2, NoPlan DEF Plans
<1>4. /\ hist'.failed = TRUE /\ hist'.saved = hist.saved
      /\ hist' \in [failed : BOOLEAN, overlapped : BOOLEAN, saved : [Parts -> SUBSET AnyValue]]
  BY <1>1 DEF Shape
<1>. QED
  BY <1>1, <1>2, <1>3, <1>4

LEMMA InstallStep ==
  ASSUME Shape, Plans, NEW a \in Admins, NEW p \in Parts, Install(a, p)
  PROVE  /\ admins' \in [Admins -> Plan] /\ Plans' /\ UNCHANGED <<db, hist>>
         /\ live'[p] = admins[a].value[p] /\ \A q \in Parts : q # p => live'[q] = live[q]
         /\ live' \in [Parts -> AnyValue]
<1> DEFINE v == admins[a].value[p]
<1>1. InProgress(a) /\ v \in AnyValue
  BY NextStep DEF Install
<1>2. admins' \in [Admins -> Plan] /\ Plans'
  BY <1>1, DoneStep, DonePlans DEF Install, Shape
<1>3. live' = [live EXCEPT ![p] = v] /\ UNCHANGED <<db, hist>>
  BY DEF Install
<1> HIDE DEF v
<1>4. live'[p] = v /\ \A q \in Parts : q # p => live'[q] = live[q]
  BY <1>3 DEF Shape
<1>5. live' \in [Parts -> AnyValue]
  BY <1>1, <1>3 DEF Shape
<1>. QED
  BY <1>2, <1>3, <1>4, <1>5 DEF v

LEMMA RestartStep ==
  ASSUME TypeOK, NEW unread \in Unreads, Restart(unread)
  PROVE  /\ admins' \in [Admins -> Plan] /\ Plans'
         /\ \A a \in Admins : admins'[a].todo = <<>>
         /\ live' \in [Parts -> AnyValue] /\ live' = Loaded(unread) /\ db' = db
         /\ hist'.failed = (unread # {})
         /\ \A p \in Parts : hist'.saved[p] = {Loaded(unread)[p], Loaded({})[p]}
         /\ hist' \in [failed : BOOLEAN, overlapped : BOOLEAN, saved : [Parts -> SUBSET AnyValue]]
<1>1. admins' = [a \in Admins |-> NoSteps] /\ live' = Loaded(unread) /\ db' = db
  BY DEF Restart
<1>2. admins' \in [Admins -> Plan] /\ \A a \in Admins : admins'[a] = NoSteps
  BY <1>1, NoPlan
<1>3. Plans'
  BY <1>2, NoPlan DEF Plans
<1>4. live' \in [Parts -> AnyValue]
  BY <1>1, LoadedValues
<1> DEFINE saved == [p \in Parts |-> {Loaded(unread)[p], Loaded({})[p]}]
<1>5. hist' = [failed |-> unread # {}, overlapped |-> FALSE, saved |-> saved]
  BY DEF Restart
<1>6. saved \in [Parts -> SUBSET AnyValue]
  BY LoadedValues
<1>7. \A p \in Parts : saved[p] = {Loaded(unread)[p], Loaded({})[p]}
  OBVIOUS
<1> HIDE DEF saved
<1>8. /\ hist'.failed = (unread # {}) /\ hist'.saved = saved
      /\ hist' \in [failed : BOOLEAN, overlapped : BOOLEAN, saved : [Parts -> SUBSET AnyValue]]
  BY <1>5, <1>6
<1>. QED
  BY <1>1, <1>2, <1>3, <1>4, <1>7, <1>8, NoPlan

Typed == Shape /\ TypeOK /\ Plans

LEMMA TypeInit ==
  ASSUME Init
  PROVE  Typed
<1>1. PICK row \in Rows \cup {NotSaved} :
        db = [p \in Parts |-> IF p = "ipacl" THEN row ELSE NotSaved]
  BY DEF Init
<1>2. \A p \in ProxyParts : p # "ipacl" /\ p \in Parts
  BY DEF ProxyParts, Parts
<1>3. "ipacl" \in Parts
  BY DEF Parts
<1>4. /\ db["ipacl"] = row
      /\ \A p \in ProxyParts : db[p] = NotSaved
      /\ db \in [Parts -> AnyValue \cup Rows \cup {NotSaved}]
  BY <1>1, <1>2, <1>3
<1>5. live = Loaded({}) /\ admins = [a \in Admins |-> NoSteps]
  BY DEF Init
<1>6. \A p \in Parts : live[p] \in Values(p)
  <2> SUFFICES ASSUME NEW p \in Parts PROVE live[p] \in Values(p)
    OBVIOUS
  <2>1. CASE p = "ipacl" /\ row # NotSaved
    BY <2>1, <1>3, <1>4, <1>5 DEF Loaded, Values
  <2>2. CASE p = "ipacl" /\ row = NotSaved
    BY <2>2, <1>3, <1>4, <1>5, ValueFacts DEF Loaded
  <2>3. CASE p \in ProxyParts
    BY <2>3, <1>2, <1>4, <1>5, ValueFacts DEF Loaded
  <2>. QED
    BY <2>1, <2>2, <2>3 DEF Parts
<1>7. live \in [Parts -> AnyValue]
  BY <1>5, <1>6, ValueFacts DEF Loaded
<1> DEFINE saved == [p \in Parts |-> {live[p]}]
<1>8. hist = [failed |-> FALSE, overlapped |-> FALSE, saved |-> saved]
  BY DEF Init
<1>9. saved \in [Parts -> SUBSET AnyValue] /\ \A p \in Parts : saved[p] \subseteq Values(p)
  BY <1>6, <1>7
<1> HIDE DEF saved
<1>10. Shape
  BY <1>4, <1>5, <1>7, <1>8, <1>9, NoPlan DEF Shape
<1>11. Plans
  BY <1>5, NoPlan DEF Plans
<1>12. Stored
  BY <1>4, <1>6, <1>8, <1>9 DEF Stored
<1>. QED
  BY <1>10, <1>11, <1>12, TypeParts DEF Typed

LEMMA TypeStep ==
  ASSUME Typed, [Next]_vars
  PROVE  Typed'
<1> USE DEF Typed
<1>1. Stored
  BY TypeParts
<1>2. \A p \in ProxyParts : p # "ipacl" /\ p \in Parts
  BY DEF ProxyParts, Parts
<1>3. SUFFICES Shape' /\ Plans' /\ Stored'
  <2>1. Shape' /\ Plans' => (TypeOK <=> Stored)'
    BY TypeParts, PTL
  <2>. QED
    BY <1>3, <2>1
<1>4. CASE \E a \in Admins : \/ \E rq \in Bodies : Submit(a, rq)
                             \/ \E cfg \in Lists : SubmitList(a, cfg)
  BY <1>1, <1>4, SubmitStep DEF Shape, Stored
<1>5. ASSUME NEW a \in Admins, NEW p \in Parts, Save(a, p)
      PROVE  Shape' /\ Plans' /\ Stored'
  <2>1. /\ Shape' /\ Plans' /\ live' = live
        /\ db'[p] = admins[a].value[p] /\ \A q \in Parts : q # p => db'[q] = db[q]
        /\ hist'.saved[p] = hist.saved[p] \cup {admins[a].value[p]}
        /\ \A q \in Parts : q # p => hist'.saved[q] = hist.saved[q]
    BY <1>5, SaveStep DEF Shape
  <2>2. /\ admins[a].value[p] \in Values(p)
        /\ p = "ipacl" => admins[a].value[p] \in Lists
    BY <1>5, NextStep DEF Save
  <2>3. db'["ipacl"] \in Lists \cup Rows \cup {NotSaved}
    BY <1>1, <2>1, <2>2 DEF Stored, Parts
  <2>4. \A q \in ProxyParts : db'[q] \in Values(q) \cup {NotSaved}
    BY <1>1, <1>2, <2>1, <2>2 DEF Stored
  <2>5. \A q \in Parts : live'[q] \in Values(q) /\ hist'.saved[q] \subseteq Values(q)
    BY <1>1, <2>1, <2>2 DEF Stored
  <2>. QED
    BY <2>1, <2>3, <2>4, <2>5 DEF Stored
<1>6. ASSUME NEW a \in Admins, NEW p \in Parts, SaveFails(a, p)
      PROVE  Shape' /\ Plans' /\ Stored'
  BY <1>1, <1>6, SaveFailsStep DEF Shape, Stored
<1>7. ASSUME NEW a \in Admins, NEW p \in Parts, Install(a, p)
      PROVE  Shape' /\ Plans' /\ Stored'
  <2>1. /\ Shape' /\ Plans' /\ UNCHANGED <<db, hist>>
        /\ live'[p] = admins[a].value[p] /\ \A q \in Parts : q # p => live'[q] = live[q]
    BY <1>7, InstallStep DEF Shape
  <2>2. admins[a].value[p] \in Values(p)
    BY <1>7, NextStep DEF Install
  <2>. QED
    BY <1>1, <2>1, <2>2 DEF Stored
<1>8. ASSUME NEW unread \in Unreads, Restart(unread)
      PROVE  Shape' /\ Plans' /\ Stored'
  BY <1>1, <1>8, RestartStep, LoadedValues DEF Shape, Stored
<1>9. CASE UNCHANGED vars
  BY <1>1, <1>9 DEF vars, Shape, Plans, Stored, Belongs, Ordered
<1>. QED
  BY <1>4, <1>5, <1>6, <1>7, <1>8, <1>9 DEF Next

(* Every type is right in every reachable state, whatever requests send    *)
(* and wherever they are cut off: in particular a part that a request      *)
(* leaves out is never saved or put in force as such (updateBackends).     *)
THEOREM TypeCorrect == Spec => []TypeOK
<1>1. Typed => TypeOK
  BY DEF Typed
<1>. QED
  BY <1>1, TypeInit, TypeStep, PTL DEF Spec

LEMMA TypedAlways == Spec => []Typed
  BY TypeInit, TypeStep, PTL DEF Spec
-----------------------------------------------------------------------------
(* Nothing is in force that was not saved.                                 *)

(* A save that comes before a step comes before it still, unless it was    *)
(* the step that is done.                                                  *)
LEMMA DoneBefore ==
  ASSUME Typed, NEW a \in Admins, InProgress(a), StepDone(a),
         NEW i \in 1..Len(admins'[a].todo),
         SavedBefore(admins[a].todo, i + 1)
  PROVE  \/ SavedBefore(admins'[a].todo, i)
         \/ admins[a].todo[1] = <<"save", admins'[a].todo[i][2]>>
<1> DEFINE old == admins[a].todo
           new == admins'[a].todo
<1>1. /\ Len(old) \in Nat \ {0}
      /\ Len(new) = Len(old) - 1
      /\ \A k \in 1..Len(new) : new[k] = old[k + 1]
  BY DoneStep DEF Typed, Shape
<1>2. PICK j \in 1..Len(old) : j < i + 1 /\ old[j] = <<"save", old[i + 1][2]>>
  BY DEF SavedBefore
<1>3. new[i] = old[i + 1]
  BY <1>1
<1>4. CASE j = 1
  BY <1>2, <1>3, <1>4
<1>5. CASE j # 1
  <2>1. j - 1 \in 1..Len(new) /\ j - 1 < i
    BY <1>1, <1>2, <1>5
  <2>2. new[j - 1] = old[j]
    BY <1>1, <2>1
  <2>. QED
    BY <1>2, <1>3, <2>1, <2>2 DEF SavedBefore
<1>. QED
  BY <1>4, <1>5

(* The step of a save or an install: what remains of the plan.             *)
LEMMA AheadDone ==
  ASSUME Typed, Ahead, NEW a \in Admins, NEW op \in {"save", "install"}, NEW p \in Parts,
         NextIs(a, op, p), StepDone(a),
         \A q \in Parts : hist.saved[q] \subseteq hist'.saved[q],
         op = "save" => admins[a].value[p] \in hist'.saved[p]
  PROVE  Ahead'
<1>1. /\ \A b \in Admins : b # a => admins'[b] = admins[b]
      /\ admins'[a].value = admins[a].value
      /\ Len(admins[a].todo) \in Nat \ {0}
      /\ admins[a].todo \in Seq(Step)
      /\ Len(admins'[a].todo) = Len(admins[a].todo) - 1
      /\ \A i \in 1..Len(admins'[a].todo) : admins'[a].todo[i] = admins[a].todo[i + 1]
  BY NextStep, DoneStep DEF Typed, Shape
<1>2. admins[a].todo[1] = <<op, p>> /\ InProgress(a)
  BY NextStep DEF Typed
<1>3. \A b \in Admins : \A i \in 1..Len(admins[b].todo) : admins[b].todo[i][2] \in Parts
  <2>1. \A b \in Admins : admins[b].todo \in Seq(Step)
    BY DEF Typed, Shape, Plan
  <2>2. \A b \in Admins : \A i \in 1..Len(admins[b].todo) : admins[b].todo[i] \in Step
    BY <2>1, ElementOfSeq
  <2>. QED
    BY <2>2 DEF Step
<1>4. SUFFICES ASSUME NEW b \in Admins, NEW i \in 1..Len(admins'[b].todo), NEW q,
                      q = admins'[b].todo[i][2], admins'[b].todo[i][1] = "install"
               PROVE  SavedBefore(admins'[b].todo, i) \/ admins'[b].value[q] \in hist'.saved[q]
  BY DEF Ahead, SavedBefore
<1>5. CASE b # a
  <2>1. SavedBefore(admins[b].todo, i) \/ admins[b].value[q] \in hist.saved[q]
    BY <1>1, <1>4, <1>5 DEF Ahead
  <2>. QED
    BY <1>1, <1>3, <1>4, <1>5, <2>1
<1>6. CASE b = a
  <2>1. /\ i + 1 \in 1..Len(admins[a].todo)
        /\ admins'[a].todo[i] = admins[a].todo[i + 1]
    BY <1>1, <1>6
  <2>2. SavedBefore(admins[a].todo, i + 1) \/ admins[a].value[q] \in hist.saved[q]
    BY <1>4, <1>6, <2>1 DEF Ahead
  <2>3. q \in Parts
    BY <1>3, <1>4, <1>6, <2>1
  <2>4. CASE admins[a].value[q] \in hist.saved[q]
    BY <1>1, <1>6, <2>3, <2>4
  <2>5. CASE SavedBefore(admins[a].todo, i + 1)
    <3>1. \/ SavedBefore(admins'[a].todo, i)
          \/ admins[a].todo[1] = <<"save", q>>
      BY <1>2, <1>4, <1>6, <2>5, DoneBefore
    <3>2. admins[a].todo[1] = <<"save", q>> => op = "save" /\ p = q
      BY <1>2
    <3>. QED
      BY <1>1, <1>6, <3>1, <3>2
  <2>. QED
    BY <2>2, <2>4, <2>5
<1>. QED
  BY <1>5, <1>6

LEMMA AheadStep ==
  ASSUME Typed, Ahead, WriteAhead, [Next]_vars
  PROVE  Ahead' /\ WriteAhead'
<1>1. ASSUME NEW a \in Admins, \/ \E rq \in Bodies : Submit(a, rq)
                               \/ \E cfg \in Lists : SubmitList(a, cfg)
      PROVE  Ahead' /\ WriteAhead'
  <2>1. /\ \A b \in Admins : b # a => admins'[b] = admins[b]
        /\ AllSavedFirst(admins'[a].todo)
        /\ live' = live /\ hist'.saved = hist.saved
    BY <1>1, SubmitStep DEF Typed
  <2>2. Ahead'
    <3>1. SUFFICES ASSUME NEW b \in Admins, NEW i \in 1..Len(admins'[b].todo), NEW q,
                          q = admins'[b].todo[i][2], admins'[b].todo[i][1] = "install"
                   PROVE  SavedBefore(admins'[b].todo, i) \/ admins'[b].value[q] \in hist'.saved[q]
      BY DEF Ahead, SavedBefore
    <3>2. CASE b = a
      BY <2>1, <3>1, <3>2 DEF AllSavedFirst
    <3>3. CASE b # a
      BY <2>1, <3>1, <3>3 DEF Ahead
    <3>. QED
      BY <3>2, <3>3
  <2>. QED
    BY <2>1, <2>2 DEF WriteAhead
<1>2. ASSUME NEW a \in Admins, NEW p \in Parts, Save(a, p)
      PROVE  Ahead' /\ WriteAhead'
  <2>1. /\ live' = live
        /\ hist'.saved[p] = hist.saved[p] \cup {admins[a].value[p]}
        /\ \A q \in Parts : q # p => hist'.saved[q] = hist.saved[q]
    BY <1>2, SaveStep DEF Typed
  <2>2. \A q \in Parts : hist.saved[q] \subseteq hist'.saved[q]
    BY <2>1
  <2>3. Ahead'
    BY <1>2, <2>1, <2>2, AheadDone DEF Save
  <2>. QED
    BY <2>1, <2>2, <2>3 DEF WriteAhead
<1>3. ASSUME NEW a \in Admins, NEW p \in Parts, SaveFails(a, p)
      PROVE  Ahead' /\ WriteAhead'
  <2>1. /\ live' = live /\ hist'.saved = hist.saved
        /\ admins'[a] = NoSteps /\ \A b \in Admins : b # a => admins'[b] = admins[b]
    BY <1>3, SaveFailsStep DEF Typed
  <2>2. Len(NoSteps.todo) = 0
    BY NoPlan
  <2>3. \A i \in 1..Len(admins'[a].todo) : FALSE
    BY <2>1, <2>2
  <2>4. Ahead'
    <3>1. SUFFICES ASSUME NEW b \in Admins, NEW i \in 1..Len(admins'[b].todo), NEW q,
                          q = admins'[b].todo[i][2], admins'[b].todo[i][1] = "install"
                   PROVE  SavedBefore(admins'[b].todo, i) \/ admins'[b].value[q] \in hist'.saved[q]
      BY DEF Ahead, SavedBefore
    <3>2. b # a
      BY <2>3
    <3>. QED
      BY <2>1, <3>1, <3>2 DEF Ahead
  <2>. QED
    BY <2>1, <2>4 DEF WriteAhead
<1>4. ASSUME NEW a \in Admins, NEW p \in Parts, Install(a, p)
      PROVE  Ahead' /\ WriteAhead'
  <2>1. /\ hist' = hist
        /\ live'[p] = admins[a].value[p] /\ \A q \in Parts : q # p => live'[q] = live[q]
    BY <1>4, InstallStep DEF Typed
  <2>2. Ahead'
    BY <1>4, <2>1, AheadDone DEF Install
  <2>3. 1 \in 1..Len(admins[a].todo) /\ admins[a].todo[1] = <<"install", p>>
    BY <1>4, NextStep DEF Install, Typed
  <2>4. SavedBefore(admins[a].todo, 1) \/ admins[a].value[p] \in hist.saved[p]
    BY <2>3 DEF Ahead
  <2>5. ~SavedBefore(admins[a].todo, 1)
    BY DEF SavedBefore
  <2>. QED
    BY <2>1, <2>2, <2>4, <2>5 DEF WriteAhead
<1>5. ASSUME NEW unread \in Unreads, Restart(unread)
      PROVE  Ahead' /\ WriteAhead'
  <2>1. /\ \A a \in Admins : admins'[a].todo = <<>>
        /\ live' = Loaded(unread)
        /\ \A p \in Parts : hist'.saved[p] = {Loaded(unread)[p], Loaded({})[p]}
    BY <1>5, RestartStep DEF Typed
  <2>2. Ahead'
    BY <2>1 DEF Ahead
  <2>. QED
    BY <2>1, <2>2 DEF WriteAhead
<1>6. CASE UNCHANGED vars
  BY <1>6 DEF vars, Ahead, WriteAhead, SavedBefore
<1>. QED
  BY <1>1, <1>2, <1>3, <1>4, <1>5, <1>6 DEF Next

(* Whatever updates overlap, fail or are cut off, no setting is in force   *)
(* that has not been saved, or come with the start, before                 *)
(* (updateBackends: first the database, then the running proxy).           *)
THEOREM NoSettingIsLost == Spec => []WriteAhead
<1>1. Init => Ahead /\ WriteAhead
  BY NoPlan DEF Init, Ahead, WriteAhead
<1>. QED
  BY <1>1, TypedAlways, AheadStep, PTL DEF Spec
-----------------------------------------------------------------------------
(* What is saved is in force once all is quiet.                            *)

(* What a part would be after a restart, once it is saved.                 *)
LEMMA SaveLoads ==
  ASSUME Typed, NEW a \in Admins, NEW p \in Parts, Save(a, p)
  PROVE  /\ Reloaded'[p] = admins[a].value[p]
         /\ \A q \in Parts : q # p => Reloaded'[q] = Reloaded[q]
<1> DEFINE v == admins[a].value[p]
<1>1. db'[p] = v /\ \A q \in Parts : q # p => db'[q] = db[q]
  BY SaveStep DEF Typed
<1>2. v \in Values(p) /\ (p = "ipacl" => v \in Lists /\ LoadList(v) = v)
  BY NextStep DEF Save, Typed
<1>3. v # NotSaved
  BY <1>2, ValueFacts DEF Parts
<1> HIDE DEF v
<1>4. Reloaded'[p] = v
  BY <1>1, <1>2, <1>3 DEF Reloaded, Loaded
<1>5. \A q \in Parts : q # p => Reloaded'[q] = Reloaded[q]
  BY <1>1 DEF Reloaded, Loaded
<1>. QED
  BY <1>4, <1>5 DEF v

LEMMA IdlePlans ==
  ASSUME Typed, NEW a \in Admins
  PROVE  InProgress(a) <=> Len(admins[a].todo) > 0
<1>1. admins[a].todo \in Seq(Step)
  BY DEF Typed, Shape, Plan
<1>. QED
  BY <1>1 DEF InProgress

(* An install that is still to come is so after another step.              *)
LEMMA ToInstallDone ==
  ASSUME Typed, NEW a \in Admins, InProgress(a), StepDone(a), NEW q \in Parts,
         ToInstall(q), admins[a].todo[1] # <<"install", q>>
  PROVE  ToInstall(q)'
<1>1. /\ \A b \in Admins : b # a => admins'[b] = admins[b]
      /\ Len(admins[a].todo) \in Nat \ {0}
      /\ Len(admins'[a].todo) = Len(admins[a].todo) - 1
      /\ \A i \in 1..Len(admins'[a].todo) : admins'[a].todo[i] = admins[a].todo[i + 1]
  BY DoneStep DEF Typed, Shape
<1>2. PICK b \in Admins : \E i \in 1..Len(admins[b].todo) : admins[b].todo[i] = <<"install", q>>
  BY DEF ToInstall
<1>3. PICK i \in 1..Len(admins[b].todo) : admins[b].todo[i] = <<"install", q>>
  BY <1>2
<1>4. CASE b # a
  <2>1. admins'[b] = admins[b]
    BY <1>1, <1>4
  <2>. QED
    BY <1>2, <2>1 DEF ToInstall
<1>5. CASE b = a
  <2>1. i # 1
    BY <1>3, <1>5
  <2>2. i - 1 \in 1..Len(admins'[a].todo) /\ (i - 1) + 1 = i
    BY <1>1, <1>3, <1>5, <2>1
  <2>3. admins'[a].todo[i - 1] = <<"install", q>>
    BY <1>1, <1>3, <1>5, <2>2
  <2>. QED
    BY <2>2, <2>3 DEF ToInstall
<1>. QED
  BY <1>4, <1>5

(* The step of a save or an install, for the only request in progress.     *)
LEMMA CurrentDone ==
  ASSUME Typed, OneAtATime, Current,
         NEW a \in Admins, NEW op \in {"save", "install"}, NEW p \in Parts,
         NextIs(a, op, p), StepDone(a),
         \A q \in Parts : q # p \/ op = "install" => Reloaded'[q] = Reloaded[q],
         op = "save" => Reloaded'[p] = admins[a].value[p]
  PROVE  OneAtATime' /\ Current'
<1>1. /\ \A b \in Admins : b # a => admins'[b] = admins[b]
      /\ admins'[a].value = admins[a].value
      /\ Len(admins[a].todo) \in Nat \ {0}
      /\ admins[a].todo \in Seq(Step)
      /\ Len(admins'[a].todo) = Len(admins[a].todo) - 1
      /\ \A i \in 1..Len(admins'[a].todo) : admins'[a].todo[i] = admins[a].todo[i + 1]
  BY NextStep, DoneStep DEF Typed, Shape
<1>2. admins[a].todo[1] = <<op, p>> /\ InProgress(a)
  BY NextStep DEF Typed
<1>3. \A b \in Admins : b # a => ~InProgress(b) /\ admins'[b].todo = <<>>
  BY <1>1, <1>2 DEF OneAtATime, InProgress
<1>4. OneAtATime'
  BY <1>3 DEF OneAtATime, InProgress
<1>5. Current'
  <2> SUFFICES ASSUME NEW b \in Admins, NEW i \in 1..Len(admins'[b].todo),
                      admins'[b].todo[i][1] = "install"
               PROVE  \/ SavedBefore(admins'[b].todo, i)
                      \/ admins'[b].value[admins'[b].todo[i][2]] = Reloaded'[admins'[b].todo[i][2]]
    BY DEF Current, SavedBefore
  <2>1. PICK q : q = admins'[b].todo[i][2] /\ admins'[b].todo[i][1] = "install"
    OBVIOUS
  <2>2. b = a
    <3>1. Len(admins'[b].todo) # 0
      OBVIOUS
    <3>. QED
      BY <1>3, <3>1
  <2>3. i + 1 \in 1..Len(admins[a].todo) /\ admins'[a].todo[i] = admins[a].todo[i + 1]
    BY <1>1, <2>2
  <2>4. q \in Parts
    <3>1. admins[a].todo[i + 1] \in Step
      BY <1>1, <2>3, ElementOfSeq
    <3>. QED
      BY <2>1, <2>2, <2>3, <3>1 DEF Step
  <2>5. SavedBefore(admins[a].todo, i + 1) \/ admins[a].value[q] = Reloaded[q]
    BY <2>1, <2>2, <2>3 DEF Current
  <2>6. CASE admins[a].value[q] = Reloaded[q]
    BY <1>1, <2>1, <2>2, <2>4, <2>6
  <2>7. CASE SavedBefore(admins[a].todo, i + 1)
    <3>1. \/ SavedBefore(admins'[a].todo, i)
          \/ admins[a].todo[1] = <<"save", q>>
      BY <1>2, <2>1, <2>2, <2>7, DoneBefore
    <3>2. admins[a].todo[1] = <<"save", q>> => op = "save" /\ p = q
      BY <1>2
    <3>. QED
      BY <1>1, <2>1, <2>2, <3>1, <3>2
  <2>. QED
    BY <2>5, <2>6, <2>7
<1>. QED
  BY <1>4, <1>5

LEMMA InStepStep ==
  ASSUME Typed, InStep, [Next]_vars
  PROVE  InStep'
<1>1. ASSUME NEW a \in Admins, \/ \E rq \in Bodies : Submit(a, rq)
                               \/ \E cfg \in Lists : SubmitList(a, cfg)
      PROVE  InStep'
  <2>1. /\ \A b \in Admins : b # a => admins'[b] = admins[b]
        /\ AllSavedFirst(admins'[a].todo)
        /\ UNCHANGED <<db, live>>
        /\ hist'.failed = hist.failed
        /\ hist'.overlapped = (hist.overlapped \/ ~Quiet)
    BY <1>1, SubmitStep DEF Typed
  <2>2. SUFFICES ASSUME ~hist.failed, ~hist.overlapped, Quiet
                 PROVE  /\ OneAtATime'
                        /\ \A p \in Parts : (live[p] = Reloaded[p])'
                        /\ Current'
    BY <2>1 DEF InStep
  <2>3. \A b \in Admins : admins[b].todo = <<>>
    BY <2>2 DEF Quiet, InProgress
  <2>4. \A p \in Parts : ~ToInstall(p)
    BY <2>3 DEF ToInstall
  <2>5. \A p \in Parts : live[p] = Reloaded[p]
    BY <2>2, <2>4 DEF InStep
  <2>6. Reloaded' = Reloaded
    BY <2>1 DEF Reloaded, Loaded
  <2>7. \A b \in Admins : b # a => admins'[b].todo = <<>>
    BY <2>1, <2>3
  <2>8. OneAtATime'
    BY <2>7 DEF OneAtATime, InProgress
  <2>9. Current'
    <3>1. SUFFICES ASSUME NEW b \in Admins, NEW i \in 1..Len(admins'[b].todo),
                          admins'[b].todo[i][1] = "install"
                   PROVE  SavedBefore(admins'[b].todo, i)
      BY DEF Current, SavedBefore
    <3>2. Len(admins'[b].todo) # 0
      OBVIOUS
    <3>3. b = a
      BY <2>7, <3>2
    <3>. QED
      BY <2>1, <3>1, <3>3 DEF AllSavedFirst
  <2>. QED
    BY <2>1, <2>5, <2>6, <2>8, <2>9
<1>2. ASSUME NEW a \in Admins, NEW p \in Parts, Save(a, p)
      PROVE  InStep'
  <2>1. /\ live' = live
        /\ hist'.failed = hist.failed /\ hist'.overlapped = hist.overlapped
    BY <1>2, SaveStep DEF Typed
  <2>2. SUFFICES ASSUME ~hist.failed, ~hist.overlapped
                 PROVE  /\ OneAtATime' /\ Current'
                        /\ \A q \in Parts : (live[q] = Reloaded[q])' \/ ToInstall(q)'
    BY <2>1 DEF InStep
  <2>3. /\ Reloaded'[p] = admins[a].value[p]
        /\ \A q \in Parts : q # p => Reloaded'[q] = Reloaded[q]
    BY <1>2, SaveLoads
  <2>4. OneAtATime' /\ Current'
    BY <1>2, <2>2, <2>3, CurrentDone DEF Save, InStep
  <2>5. /\ InProgress(a) /\ StepDone(a)
        /\ 1 \in 1..Len(admins[a].todo) /\ admins[a].todo[1] = <<"save", p>>
    BY <1>2, NextStep DEF Save, Typed
  <2>6. ToInstall(p)
    <3>1. Ordered(admins[a].todo) /\ admins[a].todo[1][1] = "save" /\ admins[a].todo[1][2] = p
      BY <2>5 DEF Typed, Plans
    <3>. QED
      BY <2>5, <3>1 DEF Ordered, ToInstall
  <2>7. \A q \in Parts : admins[a].todo[1] # <<"install", q>>
    BY <2>5
  <2>8. \A q \in Parts : ToInstall(q) => ToInstall(q)'
    BY <2>5, <2>7, ToInstallDone
  <2>9. \A q \in Parts : (live[q] = Reloaded[q])' \/ ToInstall(q)'
    BY <2>1, <2>2, <2>3, <2>6, <2>8 DEF InStep
  <2>. QED
    BY <2>4, <2>9
<1>3. ASSUME NEW a \in Admins, NEW p \in Parts, SaveFails(a, p)
      PROVE  InStep'
  BY <1>3, SaveFailsStep DEF Typed, InStep
<1>4. ASSUME NEW a \in Admins, NEW p \in Parts, Install(a, p)
      PROVE  InStep'
  <2>1. /\ UNCHANGED <<db, hist>>
        /\ live'[p] = admins[a].value[p] /\ \A q \in Parts : q # p => live'[q] = live[q]
    BY <1>4, InstallStep DEF Typed
  <2>2. SUFFICES ASSUME ~hist.failed, ~hist.overlapped
                 PROVE  /\ OneAtATime' /\ Current'
                        /\ \A q \in Parts : (live[q] = Reloaded[q])' \/ ToInstall(q)'
    BY <2>1 DEF InStep
  <2>3. Reloaded' = Reloaded
    BY <2>1 DEF Reloaded, Loaded
  <2>4. OneAtATime' /\ Current'
    BY <1>4, <2>2, <2>3, CurrentDone DEF Install, InStep
  <2>5. /\ InProgress(a) /\ StepDone(a)
        /\ 1 \in 1..Len(admins[a].todo) /\ admins[a].todo[1] = <<"install", p>>
    BY <1>4, NextStep DEF Install, Typed
  <2>6. admins[a].value[p] = Reloaded[p]
    <3>1. SavedBefore(admins[a].todo, 1) \/ admins[a].value[p] = Reloaded[p]
      BY <2>2, <2>5 DEF InStep, Current
    <3>2. ~SavedBefore(admins[a].todo, 1)
      BY DEF SavedBefore
    <3>. QED
      BY <3>1, <3>2
  <2>7. \A q \in Parts : q # p => admins[a].todo[1] # <<"install", q>>
    BY <2>5
  <2>8. \A q \in Parts : q # p /\ ToInstall(q) => ToInstall(q)'
    BY <2>5, <2>7, ToInstallDone
  <2>9. \A q \in Parts : (live[q] = Reloaded[q])' \/ ToInstall(q)'
    BY <2>1, <2>2, <2>3, <2>6, <2>8 DEF InStep
  <2>. QED
    BY <2>4, <2>9
<1>5. ASSUME NEW unread \in Unreads, Restart(unread)
      PROVE  InStep'
  <2>1. /\ \A a \in Admins : admins'[a].todo = <<>>
        /\ live' = Loaded(unread) /\ db' = db
        /\ hist'.failed = (unread # {})
    BY <1>5, RestartStep DEF Typed
  <2>2. Reloaded' = Reloaded
    BY <2>1 DEF Reloaded, Loaded
  <2>3. OneAtATime'
    BY <2>1 DEF OneAtATime, InProgress
  <2>4. Current'
    BY <2>1 DEF Current
  <2>5. unread = {} => live' = Reloaded
    BY <2>1 DEF Reloaded
  <2>. QED
    BY <2>1, <2>2, <2>3, <2>4, <2>5 DEF InStep
<1>6. CASE UNCHANGED vars
  <2>1. UNCHANGED <<db, live, admins, hist>>
    BY <1>6 DEF vars
  <2>2. Reloaded' = Reloaded
    BY <2>1 DEF Reloaded, Loaded
  <2>3. OneAtATime' <=> OneAtATime
    BY <2>1 DEF OneAtATime, InProgress
  <2>4. Current' <=> Current
    BY <2>1, <2>2 DEF Current, SavedBefore
  <2>5. \A p \in Parts : ToInstall(p)' <=> ToInstall(p)
    BY <2>1 DEF ToInstall
  <2>. QED
    BY <2>1, <2>2, <2>3, <2>4, <2>5 DEF InStep
<1>. QED
  BY <1>1, <1>2, <1>3, <1>4, <1>5, <1>6 DEF Next

(* What saving has put in the table is what is in force, once no update is *)
(* in progress, unless one failed half-way or two overlapped (README:      *)
(* saving takes effect at once and survives restarts).                     *)
THEOREM SavedMeansLive == Spec => []SavedIsLive
<1>1. Init => InStep
  <2>1. SUFFICES ASSUME Init PROVE InStep
    OBVIOUS
  <2>2. live = Reloaded /\ admins = [a \in Admins |-> NoSteps]
    BY <2>1 DEF Init, Reloaded
  <2>3. \A a \in Admins : admins[a].todo = <<>>
    BY <2>2, NoPlan
  <2>. QED
    BY <2>2, <2>3 DEF InStep, OneAtATime, InProgress, Current
<1>2. Typed /\ InStep => SavedIsLive
  <2>1. SUFFICES ASSUME Typed, InStep, Quiet, ~hist.failed, ~hist.overlapped
                 PROVE  live = Reloaded
    BY DEF SavedIsLive, Reloaded
  <2>2. \A p \in Parts : ~ToInstall(p)
    BY <2>1 DEF ToInstall, Quiet, InProgress
  <2>3. \A p \in Parts : live[p] = Reloaded[p]
    BY <2>1, <2>2 DEF InStep
  <2>4. live \in [Parts -> AnyValue] /\ Reloaded \in [Parts -> AnyValue]
    BY <2>1, LoadedValues DEF Reloaded, Typed, Shape
  <2>. QED
    BY <2>3, <2>4
<1>. QED
  BY <1>1, <1>2, TypedAlways, InStepStep, PTL DEF Spec
-----------------------------------------------------------------------------
(* A list admits whom its entries mean to admit.                           *)

(* The forms of an address: Unmap picks one for each client, the IPv4 one  *)
(* if there is any, and Mapped gives back the IPv6 one.                    *)
LEMMA Forms ==
  ASSUME NEW a \in Addresses
  PROVE  /\ Unmap(a) \in Addresses /\ Client(Unmap(a)) = Client(a)
         /\ Mapped(Unmap(a)) \in Addresses /\ Client(Mapped(Unmap(a))) = Client(a)
         /\ ~Mapped(Unmap(a)).is4
         /\ \A b \in Addresses : Client(b) = Client(a) =>
              /\ Unmap(b) = Unmap(a)
              /\ b.zone = NoZone => b = IF b.is4 THEN Unmap(a) ELSE Mapped(Unmap(a))
<1> DEFINE B == 2^Bits
           L == Zones \cup {NoZone}
           A4(k) == [is4 |-> TRUE, n |-> k, zone |-> NoZone]
           A6(k, z) == [is4 |-> FALSE, n |-> k, zone |-> z]
<1>1. B \in Int /\ 2 * B \in Int
  BY AddressAssumption
<1>2. Addresses = [is4 : {TRUE}, n : 0..(B - 1), zone : {NoZone}]
                    \cup [is4 : {FALSE}, n : 0..(2 * B - 1), zone : L]
  BY DEF Addresses
<1>3. \A x : Unmap(x) = IF ~x.is4 /\ x.n >= B THEN A4(x.n - B) ELSE x
  BY DEF Unmap
<1>4. \A x : Mapped(x) = IF x.is4 THEN A6(x.n + B, NoZone) ELSE x
  BY DEF Mapped
<1>5. \A x : Client(x) = <<Mapped(x).n, Unmap(x).zone>>
  BY DEF Client
<1> HIDE DEF B, L
<1>6. \A x \in Addresses : /\ x = [is4 |-> x.is4, n |-> x.n, zone |-> x.zone]
                           /\ x.is4 \in BOOLEAN /\ x.n \in Int /\ 0 <= x.n
                           /\ x.is4 => x.n <= B - 1 /\ x.zone = NoZone
                           /\ ~x.is4 => x.n <= 2 * B - 1 /\ x.zone \in L
  <2> SUFFICES ASSUME NEW x \in Addresses
               PROVE  /\ x = [is4 |-> x.is4, n |-> x.n, zone |-> x.zone]
                      /\ x.is4 \in BOOLEAN /\ x.n \in Int /\ 0 <= x.n
                      /\ x.is4 => x.n <= B - 1 /\ x.zone = NoZone
                      /\ ~x.is4 => x.n <= 2 * B - 1 /\ x.zone \in L
    OBVIOUS
  <2>1. CASE x \in [is4 : {TRUE}, n : 0..(B - 1), zone : {NoZone}]
    <3>1. /\ x = [is4 |-> x.is4, n |-> x.n, zone |-> x.zone]
          /\ x.is4 = TRUE /\ x.n \in 0..(B - 1) /\ x.zone = NoZone
      BY <2>1
    <3>2. x.n \in Int /\ 0 <= x.n /\ x.n <= B - 1
      BY <1>1, <3>1
    <3>. QED
      BY <3>1, <3>2, Zenon
  <2>2. CASE x \in [is4 : {FALSE}, n : 0..(2 * B - 1), zone : L]
    <3>1. /\ x = [is4 |-> x.is4, n |-> x.n, zone |-> x.zone]
          /\ x.is4 = FALSE /\ x.n \in 0..(2 * B - 1) /\ x.zone \in L
      BY <2>2
    <3>2. x.n \in Int /\ 0 <= x.n /\ x.n <= 2 * B - 1
      BY <1>1, <3>1
    <3>. QED
      BY <3>1, <3>2, Zenon
  <2>. QED
    BY <1>2, <2>1, <2>2
<1>7. /\ \A k \in 0..(B - 1) : A4(k) \in Addresses
      /\ \A k \in 0..(2 * B - 1), z \in L : A6(k, z) \in Addresses
  BY <1>2
<1>8. NoZone \in L
  BY DEF L
(* Every address is an IPv4 one, a mapped one, or one of IPv6 alone.       *)
<1>9. ASSUME NEW x \in Addresses, x.is4
      PROVE  /\ Unmap(x) = x /\ Unmap(x) \in Addresses
             /\ Mapped(x) = A6(x.n + B, NoZone) /\ Mapped(x) \in Addresses
             /\ Client(x) = <<x.n + B, NoZone>>
  <2>1. Unmap(x) = x /\ Mapped(x) = A6(x.n + B, NoZone)
    BY <1>3, <1>4, <1>9
  <2>2. x.n + B \in 0..(2 * B - 1)
    BY <1>1, <1>6, <1>9
  <2>3. Client(x) = <<x.n + B, x.zone>>
    BY <1>5, <2>1
  <2>. QED
    BY <1>6, <1>7, <1>8, <1>9, <2>1, <2>2, <2>3
<1>10. ASSUME NEW x \in Addresses, ~x.is4, x.n >= B
       PROVE  /\ Unmap(x) = A4(x.n - B) /\ Unmap(x) \in Addresses
              /\ Mapped(x) = x
              /\ Mapped(Unmap(x)) = A6(x.n, NoZone) /\ Mapped(Unmap(x)) \in Addresses
              /\ Client(x) = <<x.n, NoZone>>
  <2>1. Unmap(x) = A4(x.n - B) /\ Mapped(x) = x
    BY <1>3, <1>4, <1>10
  <2>2. x.n - B \in 0..(B - 1)
    BY <1>1, <1>6, <1>10
  <2>3. Unmap(x) \in Addresses
    BY <1>7, <2>1, <2>2
  <2>4. (x.n - B) + B = x.n /\ x.n \in 0..(2 * B - 1)
    BY <1>1, <1>6, <1>10
  <2>5. Mapped(Unmap(x)) = A6(x.n, NoZone)
    <3>1. Unmap(x).is4 = TRUE /\ Unmap(x).n = x.n - B
      BY <2>1
    <3>2. Mapped(Unmap(x)) = A6(Unmap(x).n + B, NoZone)
      BY <1>4, <3>1
    <3>. QED
      BY <2>4, <3>1, <3>2
  <2>6. Client(x) = <<x.n, NoZone>>
    BY <1>5, <2>1
  <2>. QED
    BY <1>7, <1>8, <2>1, <2>3, <2>4, <2>5, <2>6
<1>11. ASSUME NEW x \in Addresses, ~x.is4, ~(x.n >= B)
       PROVE  Unmap(x) = x /\ Mapped(x) = x /\ Client(x) = <<x.n, x.zone>>
  <2>1. Unmap(x) = x /\ Mapped(x) = x
    BY <1>3, <1>4, <1>11
  <2>. QED
    BY <1>5, <2>1
<1>12. CASE a.is4
  <2>1. /\ Unmap(a) = a /\ Mapped(a) = A6(a.n + B, NoZone) /\ Mapped(a) \in Addresses
        /\ Client(a) = <<a.n + B, NoZone>>
    BY <1>9, <1>12
  <2>2. ~Mapped(a).is4 /\ Mapped(a).n = a.n + B /\ a.n + B >= B
    BY <1>1, <1>6, <2>1
  <2>3. Client(Mapped(a)) = Client(a)
    BY <1>10, <2>1, <2>2
  <2>4. ASSUME NEW b \in Addresses, Client(b) = Client(a)
        PROVE  /\ Unmap(b) = a
               /\ b.zone = NoZone => b = IF b.is4 THEN a ELSE Mapped(a)
    <3>1. CASE b.is4
      <4>1. b.n + B = a.n + B
        BY <1>9, <2>1, <2>4, <3>1
      <4>2. b.n = a.n
        BY <1>1, <1>6, <4>1
      <4>3. b = a
        BY <1>6, <1>12, <3>1, <4>2
      <4>. QED
        BY <1>12, <2>1, <4>3
    <3>2. CASE ~b.is4 /\ b.n >= B
      <4>1. b.n = a.n + B
        BY <1>10, <2>1, <2>4, <3>2
      <4>2. b.n - B = a.n
        BY <1>1, <1>6, <4>1
      <4>3. Unmap(b) = a
        BY <1>6, <1>10, <1>12, <3>2, <4>2
      <4>4. b.zone = NoZone => b = Mapped(a)
        BY <1>6, <2>1, <3>2, <4>1
      <4>. QED
        BY <3>2, <4>3, <4>4
    <3>3. CASE ~b.is4 /\ ~(b.n >= B)
      <4>1. b.n = a.n + B
        BY <1>11, <2>1, <2>4, <3>3
      <4>. QED
        BY <2>2, <3>3, <4>1
    <3>. QED
      BY <3>1, <3>2, <3>3
  <2>. QED
    BY <2>1, <2>2, <2>3, <2>4
<1>13. CASE ~a.is4 /\ a.n >= B
  <2> DEFINE u == Unmap(a)
             m == Mapped(Unmap(a))
  <2>1. /\ u = A4(a.n - B) /\ u \in Addresses
        /\ m = A6(a.n, NoZone) /\ m \in Addresses
        /\ Client(a) = <<a.n, NoZone>>
    BY <1>10, <1>13
  <2>2. u.is4 /\ u.n = a.n - B /\ ~m.is4 /\ m.n = a.n /\ (a.n - B) + B = a.n
    BY <1>1, <1>6, <2>1
  <2> HIDE DEF u, m
  <2>3. Client(u) = Client(a)
    <3>1. Client(u) = <<u.n + B, NoZone>>
      BY <1>9, <2>1, <2>2
    <3>. QED
      BY <2>1, <2>2, <3>1
  <2>4. Client(m) = Client(a)
    <3>1. Client(m) = <<m.n, NoZone>>
      BY <1>10, <1>13, <2>1, <2>2
    <3>. QED
      BY <2>1, <2>2, <3>1
  <2>5. ASSUME NEW b \in Addresses, Client(b) = Client(a)
        PROVE  Unmap(b) = u /\ (b.zone = NoZone => b = IF b.is4 THEN u ELSE m)
    <3>1. CASE b.is4
      <4>1. b.n + B = a.n
        BY <1>9, <2>1, <2>5, <3>1
      <4>2. b.n = a.n - B
        BY <1>1, <1>6, <4>1
      <4>3. b = u
        BY <1>6, <2>1, <3>1, <4>2
      <4>. QED
        BY <1>9, <3>1, <4>3
    <3>2. CASE ~b.is4 /\ b.n >= B
      <4>1. b.n = a.n
        BY <1>10, <2>1, <2>5, <3>2
      <4>2. Unmap(b) = u
        BY <1>10, <2>1, <3>2, <4>1
      <4>3. b.zone = NoZone => b = m
        BY <1>6, <2>1, <3>2, <4>1
      <4>. QED
        BY <3>2, <4>2, <4>3
    <3>3. CASE ~b.is4 /\ ~(b.n >= B)
      <4>1. b.n = a.n
        BY <1>11, <2>1, <2>5, <3>3
      <4>. QED
        BY <1>13, <3>3, <4>1
    <3>. QED
      BY <3>1, <3>2, <3>3
  <2>. QED
    BY <2>1, <2>2, <2>3, <2>4, <2>5 DEF u, m
<1>14. CASE ~a.is4 /\ ~(a.n >= B)
  <2>1. Unmap(a) = a /\ Mapped(a) = a /\ Client(a) = <<a.n, a.zone>>
    BY <1>11, <1>14
  <2>2. ASSUME NEW b \in Addresses, Client(b) = Client(a)
        PROVE  b = a
    <3>1. CASE b.is4
      <4>1. b.n + B = a.n
        BY <1>9, <2>1, <2>2, <3>1
      <4>. QED
        BY <1>1, <1>6, <1>14, <4>1
    <3>2. CASE ~b.is4 /\ b.n >= B
      <4>1. b.n = a.n
        BY <1>10, <2>1, <2>2, <3>2
      <4>. QED
        BY <1>14, <3>2, <4>1
    <3>3. CASE ~b.is4 /\ ~(b.n >= B)
      <4>1. b.n = a.n /\ b.zone = a.zone
        BY <1>11, <2>1, <2>2, <3>3
      <4>. QED
        BY <1>6, <1>14, <3>3, <4>1
    <3>. QED
      BY <3>1, <3>2, <3>3
  <2>. QED
    BY <1>14, <2>1, <2>2
<1>. QED
  BY <1>12, <1>13, <1>14

(* What a compiled list finds is what its entries stand for.               *)
LEMMA CompiledMeans ==
  ASSUME NEW entries \in Seq(Entry), NEW ip \in Addresses
  PROVE  Listed(CompileRules(entries), ip) <=> Client(ip) \in Meant(entries)
<1> DEFINE E == ToSet(entries)
           a == Unmap(ip)
           m == Mapped(Unmap(ip))
           Stands(e, b) == IF e.len = Single THEN Client(b) = Client(e.addr)
                           ELSE InNetwork(e, b) /\ b.zone = NoZone
           Hits(e) == IF e.len = Single THEN Unmap(e.addr) = a
                      ELSE IF e.addr.is4 THEN InPrefix(e, a) ELSE InPrefix(e, m)
<1>1. \A e \in E : e.addr \in Addresses
  <2>1. E \subseteq Entry
    BY DEF ToSet
  <2>. QED
    BY <2>1 DEF Entry
<1>2. Listed(CompileRules(entries), ip) <=> \E e \in E : Hits(e)
  <2> DEFINE r == CompileRules(entries)
  <2>1. /\ r.exact = {Unmap(e.addr) : e \in {f \in E : f.len = Single}}
        /\ r.prefix4 = {e \in E : e.len # Single /\ e.addr.is4}
        /\ r.prefix6 = {e \in E : e.len # Single /\ ~e.addr.is4}
    BY DEF CompileRules
  <2>2. Listed(r, ip) <=> \/ a \in r.exact
                          \/ \E p \in r.prefix4 : InPrefix(p, a)
                          \/ \E p \in r.prefix6 : InPrefix(p, m)
    BY DEF Listed
  <2> HIDE DEF r, E, a, m
  <2>3. Listed(r, ip) => \E e \in E : Hits(e)
    BY <2>1, <2>2
  <2>4. ASSUME NEW e \in E, Hits(e)
        PROVE  Listed(r, ip)
    <3>1. CASE e.len = Single
      BY <2>1, <2>2, <2>4, <3>1
    <3>2. CASE e.len # Single /\ e.addr.is4
      BY <2>1, <2>2, <2>4, <3>2
    <3>3. CASE e.len # Single /\ ~e.addr.is4
      BY <2>1, <2>2, <2>4, <3>3
    <3>. QED
      BY <3>1, <3>2, <3>3
  <2>. QED
    BY <2>3, <2>4 DEF r
<1>3. Client(ip) \in Meant(entries) <=>
        \E e \in E : \E b \in Addresses : Stands(e, b) /\ Client(b) = Client(ip)
  BY DEF Meant
<1>4. ASSUME NEW e \in E
      PROVE  Hits(e) <=> \E b \in Addresses : Stands(e, b) /\ Client(b) = Client(ip)
  <2>1. /\ a \in Addresses /\ Client(a) = Client(ip)
        /\ m \in Addresses /\ Client(m) = Client(ip) /\ ~m.is4
        /\ \A b \in Addresses : Client(b) = Client(ip) =>
             Unmap(b) = a /\ (b.zone = NoZone => b = IF b.is4 THEN a ELSE m)
    BY Forms
  <2>2. e.addr.is4 \in BOOLEAN /\ \A b \in Addresses : b.is4 \in BOOLEAN
    BY <1>1 DEF Addresses
  <2>3. CASE e.len = Single
    <3> DEFINE d == e.addr
    <3>1. d \in Addresses /\ Client(Unmap(d)) = Client(d)
      BY <1>1, Forms
    <3>2. (\E b \in Addresses : Stands(e, b) /\ Client(b) = Client(ip)) <=> Client(d) = Client(ip)
      BY <2>1, <2>3, <3>1
    <3>3. Unmap(d) = a <=> Client(d) = Client(ip)
      BY <2>1, <3>1
    <3>. QED
      BY <2>3, <3>2, <3>3
  <2>4. CASE e.len # Single /\ e.addr.is4
    <3>1. \A b \in Addresses : InNetwork(e, b) => b.is4
      BY <2>4 DEF InNetwork
    <3>2. Hits(e) <=> a.zone = NoZone /\ InNetwork(e, a)
      BY <2>4 DEF InPrefix
    <3>3. \A b \in Addresses : Stands(e, b) <=> InNetwork(e, b) /\ b.zone = NoZone
      BY <2>4
    <3> HIDE DEF a, m, Hits, Stands
    <3>. QED
      BY <2>1, <3>1, <3>2, <3>3
  <2>5. CASE e.len # Single /\ ~e.addr.is4
    <3>1. \A b \in Addresses : InNetwork(e, b) => ~b.is4
      BY <2>2, <2>5 DEF InNetwork
    <3>2. Hits(e) <=> m.zone = NoZone /\ InNetwork(e, m)
      BY <2>5 DEF InPrefix
    <3>3. \A b \in Addresses : Stands(e, b) <=> InNetwork(e, b) /\ b.zone = NoZone
      BY <2>5
    <3> HIDE DEF a, m, Hits, Stands
    <3>. QED
      BY <2>1, <3>1, <3>2, <3>3
  <2>. QED
    BY <2>3, <2>4, <2>5
<1>. QED
  BY <1>2, <1>3, <1>4

(* The list in force admits exactly the clients its entries mean to admit, *)
(* for addresses of any size and on any link, whether client and entry are *)
(* written as IPv4 or mapped, and after the conversion of an old row; a    *)
(* network means its clients without a link (internal/ipacl).              *)
THEOREM ListsMeanWhatTheySay == Spec => []ListMeansWhatItSays
<1>1. TypeOK => ListMeansWhatItSays
  <2>1. SUFFICES ASSUME TypeOK, NEW cfg, cfg = live["ipacl"], cfg # NoList, NEW ip \in Addresses
                 PROVE  Allowed(cfg, ip) <=> Client(ip) \in Admitted(cfg)
    BY DEF ListMeansWhatItSays
  <2>2. cfg \in Lists \cup {LoadList(row) : row \in Rows} \cup {NoList}
    BY <2>1 DEF TypeOK, Parts, Values
  <2>3. cfg \in Lists \cup {Parse(row) : row \in Rows}
    BY <2>1, <2>2 DEF LoadList
  <2>4. cfg.black \in Seq(Entry) /\ cfg.white \in Seq(Entry)
    BY <2>3, SettingsAssumption
  <2>5. /\ Listed(CompileRules(cfg.black), ip) <=> Client(ip) \in Meant(cfg.black)
        /\ Listed(CompileRules(cfg.white), ip) <=> Client(ip) \in Meant(cfg.white)
    BY <2>1, <2>4, CompiledMeans
  <2>. QED
    BY <2>1, <2>5 DEF Allowed, Admitted, Clients
<1>. QED
  BY <1>1, TypeCorrect, PTL
=============================================================================
