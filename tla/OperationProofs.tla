-------------------------- MODULE OperationProofs --------------------------
(***************************************************************************)
(* Proofs about what goes on while the program serves.                     *)
(*                                                                         *)
(* Routing, for any backends, lists, rules and requests: types, that the   *)
(* balancer's choices are sound between the steps of any update, and that  *)
(* the round robin is even.  Forwarding, for any requests, tables and base *)
(* paths, of any length: the addresses that a backend learns, and that the *)
(* path it gets is the one the rewrites mean.  Retention, for any rows,    *)
(* limits and purges: rows go only by a limit meant for them, and purges   *)
(* are accounted for.  LogQueries, for any rows and writes: a walk over    *)
(* the pages misses only what deletions shift, and the parts of an answer  *)
(* differ by no more than was written.                                     *)
(***************************************************************************)
EXTENDS Routing, Operation,
        FiniteSetTheorems, FunctionTheorems, SequenceTheorems, WellFoundedInduction, TLAPS

(***************************************************************************)
(* Least elements.  Min is a CHOOSE, so that its value has to be shown to  *)
(* exist; the library's strict subset ordering is well-founded, and the    *)
(* sets of the elements up to each element make it an order of numbers.    *)
(***************************************************************************)
LEMMA LeastOfFinite ==
  ASSUME NEW T \in SUBSET Int, IsFiniteSet(T), T # {}
  PROVE  \E m \in T : \A k \in T : m <= k
<1> DEFINE Down(k) == {x \in T : x <= k}
           Downs == {Down(k) : k \in T}
<1>1. IsWellFoundedOn(StrictSubsetOrdering(T), FiniteSubsetsOf(T))
  BY FS_StrictSubsetOrderingWellFounded
<1>2. Downs \subseteq FiniteSubsetsOf(T)
  BY FS_Subset DEF FiniteSubsetsOf
<1>3. Downs # {}
  OBVIOUS
<1> HIDE DEF Downs
<1>4. PICK d \in Downs : \A e \in Downs : ~(<<e, d>> \in StrictSubsetOrdering(T))
  BY <1>1, <1>2, <1>3, WFMin
<1> USE DEF Downs
<1>5. PICK m \in T : d = Down(m)
  BY <1>4
<1>6. ASSUME NEW k \in T, k < m
      PROVE  FALSE
  <2>1. Down(k) \in Downs
    OBVIOUS
  <2>2. \A x \in T : x <= k => x <= m
    BY <1>6
  <2>3. Down(k) \subseteq Down(m)
    BY <2>2
  <2>4. m \in Down(m) /\ m \notin Down(k)
    BY <1>6
  <2>5. <<Down(k), Down(m)>> \in StrictSubsetOrdering(T)
    BY <2>3, <2>4 DEF StrictSubsetOrdering
  <2> QED
    BY <2>1, <2>5, <1>4, <1>5
<1> QED
  BY <1>6

LEMMA MinIs ==
  ASSUME NEW T \in SUBSET Int, NEW m \in T, \A k \in T : m <= k
  PROVE  Min(T) = m
<1>1. \A n \in T : (\A k \in T : n <= k) => n = m
  OBVIOUS
<1> QED
  BY <1>1 DEF Min

LEMMA MinOfNaturals ==
  ASSUME NEW T \in SUBSET Nat, T # {}
  PROVE  Min(T) \in T /\ \A k \in T : Min(T) <= k
<1>1. PICK n \in T : TRUE
  OBVIOUS
<1> DEFINE U == T \cap (0..n)
<1>2. IsFiniteSet(U)
  <2>1. 0 \in Int /\ n \in Int
    OBVIOUS
  <2>2. IsFiniteSet(0..n) /\ U \in SUBSET (0..n)
    BY <2>1, FS_Interval
  <2> QED
    BY <2>2, FS_Subset
<1>3. U \in SUBSET Int /\ n \in U
  OBVIOUS
<1> HIDE DEF U
<1>4. PICK m \in U : \A k \in U : m <= k
  BY <1>2, <1>3, LeastOfFinite
<1>5. m \in T /\ \A k \in T : m <= k
  BY <1>3, <1>4 DEF U
<1>6. Min(T) = m
  BY <1>5, MinIs
<1> QED
  BY <1>5, <1>6

(* Quotient and remainder, and that there are no others.                   *)
LEMMA Division ==
  ASSUME NEW k \in Nat, NEW L \in Nat \ {0}
  PROVE  k % L \in 0..(L - 1) /\ k \div L \in Nat /\ k = L * (k \div L) + (k % L)
<1>1. k % L \in 0..(L - 1)
  OBVIOUS
<1>2. k \div L \in Nat
  OBVIOUS
<1>3. k = L * (k \div L) + (k % L)
  OBVIOUS
<1> QED
  BY <1>1, <1>2, <1>3

LEMMA RemainderIsUnique ==
  ASSUME NEW L \in Nat \ {0}, NEW q \in Int, NEW p \in Int,
         NEW r \in 0..(L - 1), NEW s \in 0..(L - 1), L * q + r = L * p + s
  PROVE  r = s
<1>1. L * q \in Int /\ L * p \in Int
  OBVIOUS
<1>2. ASSUME NEW x \in Int, NEW y \in Int, x < y
      PROVE  L * x + L <= L * y
  <2>1. L * (x + 1) <= L * y
    BY <1>2
  <2>2. L * (x + 1) = L * x + L
    OBVIOUS
  <2> QED
    BY <2>1, <2>2
<1>3. CASE q < p
  <2>1. L * q + L <= L * p
    BY <1>2, <1>3
  <2> QED
    BY <1>1, <2>1
<1>4. CASE p < q
  <2>1. L * p + L <= L * q
    BY <1>2, <1>4
  <2> QED
    BY <1>1, <2>1
<1>5. CASE p = q
  BY <1>1, <1>5
<1> QED
  BY <1>3, <1>4, <1>5

LEMMA RemainderIs ==
  ASSUME NEW L \in Nat \ {0}, NEW q \in Nat, NEW r \in 0..(L - 1)
  PROVE  (L * q + r) % L = r
<1> DEFINE k == L * q + r
<1>1. k \in Nat
  <2>1. L * q \in Nat
    OBVIOUS
  <2> QED
    BY <2>1
<1> HIDE DEF k
<1> DEFINE p == k \div L
           s == k % L
<1>2. s \in 0..(L - 1) /\ p \in Nat /\ k = L * p + s
  BY <1>1, Division
<1> HIDE DEF p, s
<1>3. L * q + r = L * p + s
  BY <1>2 DEF k
<1>4. q \in Int /\ p \in Int
  BY <1>2
<1>5. r = s
  BY <1>2, <1>3, <1>4, RemainderIsUnique
<1> QED
  BY <1>5 DEF k, s

(* The remainder of a successor.                                           *)
LEMMA NextRemainder ==
  ASSUME NEW k \in Nat, NEW L \in Nat \ {0}
  PROVE  (k + 1) % L = IF k % L = L - 1 THEN 0 ELSE (k % L) + 1
<1> DEFINE q == k \div L
           r == k % L
<1>1. r \in 0..(L - 1) /\ q \in Nat /\ k = L * q + r
  BY Division
<1> HIDE DEF q, r
<1>2. CASE r = L - 1
  <2>1. L * (q + 1) = L * q + L /\ L * q \in Int
    BY <1>1
  <2>2. k + 1 = L * (q + 1) + 0
    BY <1>1, <1>2, <2>1
  <2>3. (L * (q + 1) + 0) % L = 0
    BY <1>1, RemainderIs
  <2> QED
    BY <1>2, <2>2, <2>3 DEF r
<1>3. CASE r # L - 1
  <2>1. L * q \in Int /\ r + 1 \in 0..(L - 1)
    BY <1>1, <1>3
  <2>2. k + 1 = L * q + (r + 1)
    BY <1>1, <2>1
  <2>3. (L * q + (r + 1)) % L = r + 1
    BY <1>1, <2>1, RemainderIs
  <2> QED
    BY <1>3, <2>2, <2>3 DEF r
<1> QED
  BY <1>2, <1>3

(* Counting modulo a multiple of L is counting, as far as L is concerned.  *)
LEMMA WrapsUnnoticed ==
  ASSUME NEW L \in Nat \ {0}, Wrap \in Nat \ {0}, Wrap % L = 0, NEW k \in 0..(Wrap - 1)
  PROVE  ((k + 1) % Wrap) % L = (k + 1) % L
<1>1. CASE k + 1 < Wrap
  <2>1. (k + 1) % Wrap = k + 1
    BY <1>1
  <2> QED
    BY <2>1
<1>2. CASE k + 1 = Wrap
  <2>1. (k + 1) % Wrap = 0
    <3>1. Wrap % Wrap = 0
      <4>1. Wrap = Wrap * 1 + 0
        OBVIOUS
      <4>2. (Wrap * 1 + 0) % Wrap = 0
        BY RemainderIs
      <4> QED
        BY <4>1, <4>2
    <3> QED
      BY <1>2, <3>1
  <2>2. 0 % L = 0
    OBVIOUS
  <2> QED
    BY <1>2, <2>1, <2>2
<1> QED
  BY <1>1, <1>2
-----------------------------------------------------------------------------
(* Types, with the list that Wrap fits, and what an update installs.       *)
Rule == [class : Classes, backend : Backends]

Typed ==
  /\ TypeOK
  /\ IsWrapped(list)
  /\ rules \in Seq(Rule)
  /\ updater \in [pc : {"idle", "strategy", "rules"}, cfg : SUBSET Configs]

LEMMA ElementsOf ==
  ASSUME NEW S, NEW s \in Seq(S)
  PROVE  Len(s) \in Nat /\ DOMAIN s = 1..Len(s) /\ \A i \in DOMAIN s : s[i] \in S
  BY LenProperties, ElementOfSeq

LEMMA ListType ==
  ASSUME NEW bs, IsList(bs)
  PROVE  /\ Len(bs) \in Nat /\ DOMAIN bs = 1..Len(bs)
         /\ \A i \in DOMAIN bs : bs[i].url \in Backends /\ bs[i].weight \in Nat
         /\ Urls(bs) \in SUBSET Backends
<1> DEFINE Entry == [url : Backends, weight : Nat]
<1>1. \A r \in Entry : r.url \in Backends /\ r.weight \in Nat
  OBVIOUS
<1>2. bs \in Seq(Entry)
  BY DEF IsList
<1> HIDE DEF Entry
<1>3. Len(bs) \in Nat /\ DOMAIN bs = 1..Len(bs) /\ \A i \in DOMAIN bs : bs[i] \in Entry
  BY <1>2, ElementsOf
<1> QED
  BY <1>1, <1>3 DEF Urls

LEMMA ListParts ==
  ASSUME Typed
  PROVE  /\ list # <<>> /\ Len(list) \in Nat \ {0} /\ DOMAIN list = 1..Len(list)
         /\ Urls(list) \in SUBSET Backends /\ list[1].url \in Urls(list)
         /\ \A i \in DOMAIN list : list[i].url \in Urls(list) /\ list[i].weight \in Nat
         /\ \A i, j \in DOMAIN list : list[i].url = list[j].url => i = j
<1>1. IsList(list) /\ list # <<>>
  BY DEF Typed, TypeOK, IsWrapped
<1>2. /\ Len(list) \in Nat /\ DOMAIN list = 1..Len(list)
      /\ \A i \in DOMAIN list : list[i].url \in Backends /\ list[i].weight \in Nat
      /\ Urls(list) \in SUBSET Backends
  BY <1>1, ListType
<1>3. Len(list) # 0
  BY <1>1, EmptySeq DEF IsList
<1>4. \A i, j \in DOMAIN list : list[i].url = list[j].url => i = j
  BY <1>1 DEF IsList
<1> QED
  BY <1>1, <1>2, <1>3, <1>4 DEF Urls

LEMMA ConfigParts ==
  ASSUME NEW cfg \in Configs
  PROVE  /\ IsList(cfg.list) /\ IsWrapped(cfg.list) /\ cfg.strategy \in Strategies
         /\ cfg.rules \in Seq(Rule)
<1>1. IsConfig(cfg)
  BY RoutingAssumption
<1>2. IsList(cfg.list) /\ IsWrapped(cfg.list) /\ cfg.strategy \in Strategies
  BY <1>1 DEF IsConfig
<1>3. Urls(cfg.list) \subseteq Backends
  BY <1>2, ListType
<1>4. [class : Classes, backend : Urls(cfg.list)] \subseteq Rule
  BY <1>3 DEF Rule
<1>5. cfg.rules \in Seq(Rule)
  BY <1>1, <1>4, SeqMonotonic DEF IsConfig
<1> QED
  BY <1>2, <1>5

(* A rule that fits names a backend.                                       *)
LEMMA MatchType ==
  ASSUME Typed, NEW class
  PROVE  Match(class) \in Backends \cup {NoBackend}
<1> DEFINE hits == {i \in DOMAIN rules : rules[i].class = class}
<1>1. DOMAIN rules \in SUBSET Nat /\ \A i \in DOMAIN rules : rules[i].backend \in Backends
  <2>1. /\ Len(rules) \in Nat /\ DOMAIN rules = 1..Len(rules)
        /\ \A i \in DOMAIN rules : rules[i] \in Rule
    BY ElementsOf DEF Typed
  <2> QED
    BY <2>1 DEF Rule
<1>2. CASE hits = {}
  BY <1>2 DEF Match
<1>3. CASE hits # {}
  <2>1. hits \in SUBSET Nat /\ hits \subseteq DOMAIN rules
    BY <1>1
  <2>2. Min(hits) \in hits
    BY <1>3, <2>1, MinOfNaturals
  <2> QED
    BY <1>1, <1>3, <2>1, <2>2 DEF Match
<1> QED
  BY <1>2, <1>3
-----------------------------------------------------------------------------
(* What the balancer chooses.                                              *)
Takers == {i \in DOMAIN list : /\ healthy[list[i].url]
                               /\ strategy = "weighted" => list[i].weight > 0}

Sound(b) ==
  IF b = NoBackend
  THEN strategy = "weighted" /\ Takers = {}
  ELSE \/ \E i \in Takers : list[i].url = b
       \/ strategy # "weighted" /\ Takers = {} /\ b \in Urls(list)

(* The places the round robin looks at are all the places of the list.     *)
LEMMA Places ==
  ASSUME Typed
  PROVE  /\ \A i \in 0..(Len(list) - 1) : \E k \in DOMAIN list : Candidate(i) = list[k].url
         /\ \A k \in DOMAIN list : \E i \in 0..(Len(list) - 1) : Candidate(i) = list[k].url
         /\ Candidate(0) = list[(counter % Len(list)) + 1].url
         /\ (counter % Len(list)) + 1 \in DOMAIN list
<1> DEFINE L == Len(list)
           q == counter \div L
           c == counter % L
<1>1. counter \in Nat
  BY RoutingAssumption DEF Typed, TypeOK
<1>2. L \in Nat \ {0} /\ DOMAIN list = 1..L
  BY ListParts
<1>3. q \in Nat /\ c \in 0..(L - 1) /\ counter = L * q + c
  BY <1>1, <1>2, Division
<1> HIDE DEF L
<1>4. ASSUME NEW i \in Nat
      PROVE  ((counter + i) % L) + 1 \in DOMAIN list
  <2> DEFINE r == (counter + i) % L
  <2>1. counter + i \in Nat
    BY <1>1
  <2>2. r \in 0..(L - 1)
    BY <1>2, <2>1, Division
  <2> HIDE DEF r
  <2>3. r + 1 \in DOMAIN list
    BY <1>2, <2>2
  <2> QED
    BY <2>3 DEF r
<1> HIDE DEF q, c
<1>5. ASSUME NEW k \in 1..L
      PROVE  \E i \in 0..(L - 1) : (counter + i) % L = k - 1
  <2>1. k - 1 \in 0..(L - 1) /\ L * q \in Int /\ q + 1 \in Nat
    BY <1>2, <1>3
  <2>2. CASE k - 1 >= c
    <3>1. (k - 1) - c \in 0..(L - 1) /\ counter + ((k - 1) - c) = L * q + (k - 1)
      BY <1>2, <1>3, <2>1, <2>2
    <3> QED
      BY <1>2, <1>3, <2>1, <3>1, RemainderIs
  <2>3. CASE k - 1 < c
    <3>1. L * (q + 1) = L * q + L
      BY <1>2, <1>3
    <3>2. /\ ((k - 1) - c) + L \in 0..(L - 1)
          /\ counter + (((k - 1) - c) + L) = L * (q + 1) + (k - 1)
      BY <1>2, <1>3, <2>1, <2>3, <3>1
    <3>3. (L * (q + 1) + (k - 1)) % L = k - 1
      BY <1>2, <2>1, RemainderIs
    <3> QED
      BY <3>2, <3>3
  <2> QED
    BY <1>3, <2>1, <2>2, <2>3
<1>6. \A k \in DOMAIN list : \E i \in 0..(L - 1) : Candidate(i) = list[k].url
  <2> SUFFICES ASSUME NEW k \in 1..L
               PROVE  \E i \in 0..(L - 1) : Candidate(i) = list[k].url
    BY <1>2
  <2>1. PICK i \in 0..(L - 1) : (counter + i) % L = k - 1
    BY <1>5
  <2>2. (k - 1) + 1 = k
    BY <1>2
  <2>3. Candidate(i) = list[k].url
    BY <2>1, <2>2 DEF Candidate, L
  <2> QED
    BY <2>3
<1>7. counter + 0 = counter
  BY <1>1
<1>8. \A i \in 0..(L - 1) : i \in Nat
  BY <1>2
<1> QED
  BY <1>2, <1>4, <1>6, <1>7, <1>8 DEF Candidate, L

LEMMA RoundRobinSound ==
  ASSUME Typed, strategy = "round_robin", NEW b \in RoundRobinNext
  PROVE  Sound(b)
<1> DEFINE L == Len(list)
           found == {i \in 0..(L - 1) : healthy[Candidate(i)]}
<1>1. NoBackend \notin Backends /\ Urls(list) \subseteq Backends
  BY RoutingAssumption, ListParts
<1>2. CASE found # {}
  <2>1. found \in SUBSET Nat
    BY ListParts
  <2>2. Min(found) \in found
    BY <1>2, <2>1, MinOfNaturals
  <2>3. b = Candidate(Min(found))
    BY <1>2 DEF RoundRobinNext
  <2>4. PICK k \in DOMAIN list : b = list[k].url
    BY <2>2, <2>3, Places
  <2>5. k \in Takers /\ b \in Urls(list)
    BY <2>2, <2>3, <2>4, ListParts DEF Takers
  <2> QED
    BY <1>1, <2>4, <2>5 DEF Sound
<1>3. CASE found = {}
  <2>1. b = list[1].url /\ b \in Urls(list)
    BY <1>3, ListParts DEF RoundRobinNext
  <2>2. \A k \in DOMAIN list : ~healthy[list[k].url]
    BY <1>3, Places
  <2> QED
    BY <1>1, <2>1, <2>2 DEF Sound, Takers
<1> QED
  BY <1>2, <1>3

LEMMA ChoiceSound ==
  ASSUME Typed, NEW b \in NextBackend
  PROVE  Sound(b) /\ b \in Urls(list) \cup {NoBackend}
<1>1. /\ list # <<>> /\ strategy \in Strategies
      /\ NoBackend \notin Backends /\ Urls(list) \subseteq Backends
  BY RoutingAssumption, ListParts DEF Typed, TypeOK
<1>2. CASE strategy = "random"
  <2>1. b \in RandomNext
    BY <1>1, <1>2 DEF NextBackend
  <2>2. b \in Urls(list) /\ (HealthyUrls # {} => healthy[b])
    BY <2>1 DEF RandomNext, HealthyUrls
  <2>3. PICK i \in DOMAIN list : list[i].url = b
    BY <2>2 DEF Urls
  <2>4. CASE HealthyUrls # {}
    BY <1>1, <1>2, <2>2, <2>3, <2>4 DEF Sound, Takers
  <2>5. CASE HealthyUrls = {}
    BY <1>1, <1>2, <2>2, <2>5, ListParts DEF Sound, Takers, HealthyUrls
  <2> QED
    BY <2>2, <2>4, <2>5
<1>3. CASE strategy = "weighted"
  <2>1. b \in WeightedNext
    BY <1>1, <1>3 DEF NextBackend
  <2>2. Takers = {i \in DOMAIN list : healthy[list[i].url] /\ list[i].weight > 0}
    BY <1>3 DEF Takers
  <2>3. CASE Takers = {}
    <3>1. b = NoBackend
      BY <2>1, <2>2, <2>3 DEF WeightedNext
    <3> QED
      BY <1>3, <2>3, <3>1 DEF Sound
  <2>4. CASE Takers # {}
    <3>1. PICK i \in Takers : b = list[i].url
      BY <2>1, <2>2, <2>4 DEF WeightedNext
    <3>2. b \in Urls(list)
      BY <2>2, <3>1, ListParts
    <3> QED
      BY <1>1, <3>1, <3>2 DEF Sound
  <2> QED
    BY <2>3, <2>4
<1>4. CASE strategy = "round_robin"
  <2>1. b \in RoundRobinNext
    BY <1>1, <1>4 DEF NextBackend
  <2>2. Sound(b)
    BY <1>4, <2>1, RoundRobinSound
  <2>3. b \in Urls(list)
    BY <1>4, <2>2, ListParts DEF Sound, Takers
  <2> QED
    BY <2>2, <2>3
<1> QED
  BY <1>1, <1>2, <1>3, <1>4 DEF Strategies
-----------------------------------------------------------------------------
(* The counts stay natural numbers when what they have in common is taken  *)
(* away.                                                                   *)
LEMMA LevelledType ==
  ASSUME Typed, NEW f \in [Backends -> Nat]
  PROVE  Levelled(f) \in [Backends -> Nat]
<1> DEFINE S == {f[b] : b \in Urls(list)}
           low == Min(S)
<1>1. Urls(list) \in SUBSET Backends /\ Urls(list) # {}
  BY ListParts
<1>2. S \in SUBSET Nat /\ S # {}
  BY <1>1
<1>3. low \in S /\ \A k \in S : low <= k
  BY <1>2, MinOfNaturals
<1>4. Levelled(f) = [b \in Backends |-> IF b \in Urls(list) THEN f[b] - low ELSE 0]
  BY DEF Levelled
<1> HIDE DEF low
<1>5. ASSUME NEW b \in Urls(list)
      PROVE  f[b] - low \in Nat
  <2>1. f[b] \in S /\ f[b] \in Nat
    BY <1>1
  <2> HIDE DEF S
  <2>2. low \in Nat /\ low <= f[b]
    BY <1>2, <1>3, <2>1
  <2> QED
    BY <2>1, <2>2
<1> QED
  BY <1>4, <1>5

LEMMA PickedType ==
  ASSUME Typed, NEW b, Picked(b)
  PROVE  picks' \in [Backends -> Nat]
<1> DEFINE f == [picks EXCEPT ![b] = @ + 1]
<1>1. picks \in [Backends -> Nat]
  BY DEF Typed, TypeOK
<1>2. f \in [Backends -> Nat]
  <2>1. \A a \in Backends : picks[a] \in Nat /\ picks[a] + 1 \in Nat
    BY <1>1
  <2> QED
    BY <1>1, <2>1
<1> HIDE DEF f
<1>3. Levelled(f) \in [Backends -> Nat]
  BY <1>2, LevelledType
<1>4. Zero \in [Backends -> Nat]
  BY DEF Zero
<1> QED
  BY <1>3, <1>4 DEF Picked, f
-----------------------------------------------------------------------------
(* Type correctness, action by action.                                     *)
RequestState ==
  [pc : {"idle", "balance", "sent", "failed"}, body : Uploads \cup {"small"},
   backend : Backends \cup {NoBackend}, blame : {"none", "backend", "upload", "client"}]

ProbeState == {"none", "asked", "up", "down"}

LEMMA TypedInit == ASSUME Init PROVE Typed
<1>1. PICK cfg \in Configs : BalancerInit(cfg.list, cfg.strategy) /\ rules = cfg.rules
  BY DEF Init
<1>2. /\ IsList(list) /\ IsWrapped(list) /\ strategy \in Strategies /\ rules \in Seq(Rule)
  BY <1>1, ConfigParts DEF BalancerInit
<1>3. /\ healthy \in [Urls(list) -> BOOLEAN] /\ counter \in 0..(Wrap - 1)
      /\ probe \in [Backends -> ProbeState] /\ up \subseteq Backends
  BY <1>1, RoutingAssumption DEF BalancerInit, ProbeState
<1>4. req \in [Requests -> RequestState]
  BY DEF Init, Idle, RequestState
<1>5. updater \in [pc : {"idle", "strategy", "rules"}, cfg : SUBSET Configs]
  BY DEF Init
<1>6. picks \in [Backends -> Nat]
  BY DEF Init, Zero
<1>7. \A i \in DOMAIN rules : rules[i] \in Rule
  BY <1>2, ElementsOf
<1> QED
  BY <1>2, <1>3, <1>4, <1>5, <1>6, <1>7
     DEF Typed, TypeOK, Rule, RequestState, ProbeState

(* Typed, part by part.                                                    *)
LEMMA TypedParts ==
  Typed <=> /\ IsList(list) /\ IsWrapped(list)
            /\ strategy \in Strategies
            /\ healthy \in [Urls(list) -> BOOLEAN]
            /\ counter \in 0..(Wrap - 1)
            /\ probe \in [Backends -> ProbeState]
            /\ up \subseteq Backends
            /\ rules \in Seq(Rule)
            /\ req \in [Requests -> RequestState]
            /\ updater \in [pc : {"idle", "strategy", "rules"}, cfg : SUBSET Configs]
            /\ picks \in [Backends -> Nat]
<1>1. rules \in Seq(Rule) => \A i \in DOMAIN rules : rules[i] \in Rule
  BY ElementsOf
<1> QED
  BY <1>1 DEF Typed, TypeOK, Rule, RequestState, ProbeState

LEMMA TypedPartsNext ==
  Typed' <=> /\ IsList(list') /\ IsWrapped(list')
             /\ strategy' \in Strategies
             /\ healthy' \in [Urls(list') -> BOOLEAN]
             /\ counter' \in 0..(Wrap - 1)
             /\ probe' \in [Backends -> ProbeState]
             /\ up' \subseteq Backends
             /\ rules' \in Seq(Rule)
             /\ req' \in [Requests -> RequestState]
             /\ updater' \in [pc : {"idle", "strategy", "rules"}, cfg : SUBSET Configs]
             /\ picks' \in [Backends -> Nat]
<1>1. rules' \in Seq(Rule) => \A i \in DOMAIN rules' : rules'[i] \in Rule
  BY ElementsOf
<1> QED
  BY <1>1 DEF Typed, TypeOK, Rule, RequestState, ProbeState, IsList, IsWrapped, Urls

LEMMA MarkType ==
  ASSUME Typed, NEW b, NEW verdict \in BOOLEAN, Mark(b, verdict)
  PROVE  healthy' \in [Urls(list) -> BOOLEAN]
  BY TypedParts DEF Mark

(* The checker's and the backends' own steps.                              *)
LEMMA CheckerSteps ==
  ASSUME Typed, Apart,
         \/ Check
         \/ \E b \in Backends : Heard(b) \/ Finish(b) \/ Fail(b) \/ Recover(b)
  PROVE  Typed'
<1>1. UNCHANGED <<list, strategy, counter, rules, req, updater, picks>>
  BY DEF Apart, proxyVars, Check, Heard, Finish, Fail, Recover, balancerVars
<1>2. CASE Check
  <2>1. probe' \in [Backends -> ProbeState]
    BY <1>2 DEF Check, ProbeState
  <2> QED
    BY <1>1, <1>2, <2>1, TypedParts, TypedPartsNext DEF Check, balancerVars
<1>3. ASSUME NEW b \in Backends, Heard(b)
      PROVE  Typed'
  <2>1. probe' \in [Backends -> ProbeState]
    BY <1>3, TypedParts DEF Heard, ProbeState
  <2> QED
    BY <1>1, <1>3, <2>1, TypedParts, TypedPartsNext DEF Heard, balancerVars
<1>4. ASSUME NEW b \in Backends, Finish(b)
      PROVE  Typed'
  <2>1. healthy' \in [Urls(list) -> BOOLEAN]
    BY <1>4, MarkType DEF Finish
  <2>2. probe' \in [Backends -> ProbeState]
    BY <1>4, TypedParts DEF Finish, ProbeState
  <2> QED
    BY <1>1, <1>4, <2>1, <2>2, TypedParts, TypedPartsNext DEF Finish
<1>5. ASSUME NEW b \in Backends, Fail(b) \/ Recover(b)
      PROVE  Typed'
  BY <1>1, <1>5, TypedParts, TypedPartsNext DEF Fail, Recover, balancerVars
<1> QED
  BY <1>2, <1>3, <1>4, <1>5

(* A request's steps change nothing but the request, apart from those that *)
(* ask the balancer or report to it.                                       *)
LEMMA SendType ==
  ASSUME Typed, NEW r \in Requests, NEW b \in Backends \cup {NoBackend},
         NEW body \in Uploads \cup {"small"}, Send(r, b, body)
  PROVE  req' \in [Requests -> RequestState]
<1>1. Idle \in RequestState /\ [Idle EXCEPT !.pc = "sent", !.body = body, !.backend = b] \in RequestState
  BY DEF Idle, RequestState
<1> QED
  BY <1>1, TypedParts DEF Send

LEMMA ArriveType ==
  ASSUME Typed, NEW r \in Requests, NEW class \in Classes, NEW body \in Uploads,
         Arrive(r, class, body)
  PROVE  Typed'
<1>1. req' \in [Requests -> RequestState]
  <2>1. CASE Match(class) # NoBackend
    <3>1. Send(r, Match(class), body)
      BY <2>1 DEF Arrive
    <3> QED
      BY <3>1, MatchType, SendType
  <2>2. CASE Match(class) = NoBackend
    <3>1. [Idle EXCEPT !.pc = "balance", !.body = body] \in RequestState
      BY DEF Idle, RequestState
    <3> QED
      BY <2>2, <3>1, TypedParts DEF Arrive
  <2> QED
    BY <2>1, <2>2
<1> QED
  BY <1>1, TypedParts, TypedPartsNext DEF Arrive, balancerVars

LEMMA BalanceType ==
  ASSUME Typed, NEW r \in Requests, Balance(r)
  PROVE  Typed'
<1>1. PICK b \in NextBackend : Send(r, b, req[r].body) /\ Picked(b)
  BY DEF Balance
<1>2. b \in Backends \cup {NoBackend}
  BY <1>1, ChoiceSound, ListParts
<1>3. req[r].body \in Uploads \cup {"small"}
  BY TypedParts DEF RequestState
<1>4. req' \in [Requests -> RequestState]
  BY <1>1, <1>2, <1>3, SendType
<1>5. picks' \in [Backends -> Nat]
  BY <1>1, PickedType
<1>6. counter' \in 0..(Wrap - 1)
  <2>1. Wrap \in Nat \ {0} /\ counter \in 0..(Wrap - 1) /\ counter + 1 \in Nat
    BY RoutingAssumption, TypedParts
  <2>2. (counter + 1) % Wrap \in 0..(Wrap - 1)
    BY <2>1, Division
  <2> QED
    BY <2>1, <2>2 DEF Balance, Counts
<1> QED
  BY <1>4, <1>5, <1>6, TypedParts, TypedPartsNext DEF Balance

LEMMA RequestSteps ==
  ASSUME Typed, NEW r \in Requests,
         Served(r) \/ BackendFails(r) \/ UploadFails(r) \/ ClientCancels(r) \/ HandleError(r)
  PROVE  Typed'
<1>1. UNCHANGED <<list, strategy, counter, probe, up, rules, updater, picks>>
  BY DEF Served, BackendFails, UploadFails, ClientCancels, HandleError, balancerVars
<1>2. req[r] \in RequestState /\ Idle \in RequestState
  BY TypedParts DEF Idle, RequestState
<1>3. /\ [req EXCEPT ![r] = Idle] \in [Requests -> RequestState]
      /\ \A why \in {"backend", "upload", "client"} :
           [req EXCEPT ![r].pc = "failed", ![r].blame = why] \in [Requests -> RequestState]
  <2>1. [req EXCEPT ![r] = Idle] \in [Requests -> RequestState]
    BY <1>2, TypedParts
  <2>2. ASSUME NEW why \in {"backend", "upload", "client"}
        PROVE  [req EXCEPT ![r].pc = "failed", ![r].blame = why] \in [Requests -> RequestState]
    BY <1>2, TypedParts DEF RequestState
  <2> QED
    BY <2>1, <2>2
<1>4. req' \in [Requests -> RequestState]
  BY <1>3 DEF Served, BackendFails, UploadFails, ClientCancels, HandleError
<1>5. healthy' \in [Urls(list) -> BOOLEAN]
  <2>1. CASE HandleError(r)
    BY <2>1, MarkType, TypedParts DEF HandleError
  <2>2. CASE ~HandleError(r)
    BY <2>2, TypedParts DEF Served, BackendFails, UploadFails, ClientCancels, balancerVars
  <2> QED
    BY <2>1, <2>2
<1> QED
  BY <1>1, <1>4, <1>5, TypedParts, TypedPartsNext

(* An update's steps.                                                      *)
LEMMA UpdateSteps ==
  ASSUME Typed,
         (\E cfg \in Configs : InstallBackends(cfg)) \/ InstallStrategy \/ InstallRules
  PROVE  Typed'
<1>1. ASSUME NEW cfg \in Configs, InstallBackends(cfg)
      PROVE  Typed'
  <2>1. list' = cfg.list /\ healthy' \in [Urls(list') -> BOOLEAN]
    BY <1>1 DEF InstallBackends, SetBackends
  <2>2. IsList(list') /\ IsWrapped(list')
    BY <2>1, ConfigParts
  <2>3. picks' \in [Backends -> Nat]
    BY <1>1 DEF InstallBackends, Zero
  <2>4. updater' \in [pc : {"idle", "strategy", "rules"}, cfg : SUBSET Configs]
    BY <1>1 DEF InstallBackends
  <2> QED
    BY <1>1, <2>1, <2>2, <2>3, <2>4, TypedParts, TypedPartsNext DEF InstallBackends
<1>2. CASE InstallStrategy
  <2>1. PICK cfg \in updater.cfg : strategy' = cfg.strategy
    BY <1>2 DEF InstallStrategy
  <2>2. strategy' \in Strategies
    BY <2>1, ConfigParts, TypedParts
  <2>3. updater' \in [pc : {"idle", "strategy", "rules"}, cfg : SUBSET Configs]
    BY <1>2, TypedParts DEF InstallStrategy
  <2> QED
    BY <1>2, <2>2, <2>3, TypedParts, TypedPartsNext DEF InstallStrategy
<1>3. CASE InstallRules
  <2>1. PICK cfg \in updater.cfg : rules' = cfg.rules
    BY <1>3 DEF InstallRules
  <2>2. rules' \in Seq(Rule)
    BY <2>1, ConfigParts, TypedParts
  <2>3. updater' \in [pc : {"idle", "strategy", "rules"}, cfg : SUBSET Configs]
    BY <1>3 DEF InstallRules
  <2> QED
    BY <1>3, <2>2, <2>3, TypedParts, TypedPartsNext DEF InstallRules, balancerVars
<1> QED
  BY <1>1, <1>2, <1>3

LEMMA TypedStep == ASSUME Typed, [Next]_vars PROVE Typed'
<1>1. CASE UNCHANGED vars
  BY <1>1, TypedParts, TypedPartsNext DEF vars, balancerVars
<1>2. CASE Next
  BY <1>2, CheckerSteps, ArriveType, BalanceType, RequestSteps, UpdateSteps DEF Next
<1> QED
  BY <1>1, <1>2

LEMMA TypedAlways == Spec => []Typed
  BY TypedInit, TypedStep, PTL DEF Spec

(* The balancer's, the handler's and the update's state have their types;  *)
(* the health map has exactly the backends of the list, whatever late      *)
(* probes and errors report (balancer.go MarkUp and MarkDown).             *)
THEOREM TypeCorrect == Spec => []TypeOK
<1>1. Typed => TypeOK
  BY DEF Typed
<1> QED
  BY <1>1, TypedAlways, PTL
-----------------------------------------------------------------------------
(* Only asking the balancer takes a request out of the state in which it   *)
(* asks, and the backend it is sent to is the balancer's choice.           *)
LEMMA BalanceSound ==
  ASSUME Typed, NEW r \in Requests, Balance(r), req[r].body # "huge"
  PROVE  Sound(req'[r].backend)
<1>1. PICK b \in NextBackend : Send(r, b, req[r].body)
  BY DEF Balance
<1>2. req'[r].backend = b
  BY <1>1, TypedParts DEF Send, Refused, Idle
<1> QED
  BY <1>1, <1>2, ChoiceSound

LEMMA OthersKeepAsking ==
  ASSUME Typed, [Next]_vars, NEW r \in Requests, req[r].pc = "balance", req'[r].pc # "balance"
  PROVE  Balance(r)
<1>1. req \in [Requests -> RequestState]
  BY TypedParts
<1>2. \A s \in Requests : req'[s] = req[s] => s # r
  OBVIOUS
<1>3. ASSUME NEW s \in Requests, NEW class \in Classes, NEW body \in Uploads,
             Arrive(s, class, body)
      PROVE  FALSE
  BY <1>1, <1>3 DEF Arrive, Send
<1>4. ASSUME NEW s \in Requests,
             \/ Served(s) \/ BackendFails(s) \/ UploadFails(s) \/ ClientCancels(s)
             \/ HandleError(s)
      PROVE  FALSE
  BY <1>1, <1>4 DEF Served, BackendFails, UploadFails, ClientCancels, HandleError
<1>5. ASSUME NEW s \in Requests, Balance(s)
      PROVE  s = r
  BY <1>1, <1>5 DEF Balance, Send
<1>6. ASSUME UNCHANGED req
      PROVE  FALSE
  BY <1>6
<1>7. Next
  BY <1>6 DEF vars
<1>8. ASSUME Apart \/ InstallStrategy \/ InstallRules \/ \E cfg \in Configs : InstallBackends(cfg)
      PROVE  FALSE
  BY <1>6, <1>8 DEF Apart, proxyVars, InstallStrategy, InstallRules, InstallBackends
<1> QED
  BY <1>3, <1>4, <1>5, <1>7, <1>8 DEF Next

(* The balancer never sends a request to an unhealthy backend while it has *)
(* a healthy one to choose, nor to one of weight zero by weight, and gives *)
(* up only when no healthy backend takes traffic, for any lists, any       *)
(* number of requests and between the steps of any update (balancer.go     *)
(* Next).                                                                  *)
THEOREM ChoicesAreSound == Spec => NextSound
<1> DEFINE Chosen(r) ==
             req[r].pc = "balance" /\ req'[r].pc # "balance" /\ req[r].body # "huge" =>
               Sound(req'[r].backend)
<1>1. ASSUME Typed, [Next]_vars
      PROVE  [\A r \in Requests : Chosen(r)]_vars
  BY <1>1, OthersKeepAsking, BalanceSound
<1>2. Spec => [][\A r \in Requests : Chosen(r)]_vars
  BY <1>1, TypedAlways, PTL DEF Spec
<1> QED
  BY <1>2 DEF NextSound, Sound, Takers
-----------------------------------------------------------------------------
(* EvenSplit is not inductive: it does not say which backends are one      *)
(* ahead.  They are those between some place and the place of the counter, *)
(* around the end of the list.                                             *)
Between(s, c, i) == IF s <= c THEN s <= i /\ i < c ELSE s <= i \/ i < c

Spread ==
  \E s \in 0..(Len(list) - 1) : \A i \in 0..(Len(list) - 1) :
    picks[list[i + 1].url] = IF Between(s, counter % Len(list), i) THEN 1 ELSE 0

(* A place more, until all of them are passed.                             *)
LEMMA OnePlaceMore ==
  ASSUME NEW L \in Nat \ {0}, NEW s \in 0..(L - 1), NEW c \in 0..(L - 1), NEW d \in 0..(L - 1),
         d = IF c = L - 1 THEN 0 ELSE c + 1
  PROVE  /\ ~Between(s, c, c)
         /\ d = s => \A i \in 0..(L - 1) : Between(s, c, i) \/ i = c
         /\ d # s => /\ \A i \in 0..(L - 1) : Between(s, d, i) <=> Between(s, c, i) \/ i = c
                     /\ ~Between(s, c, d) /\ d # c
  BY DEF Between

(* Nothing lies between a place and itself: no backend is ahead.           *)
LEMMA NoneAhead ==
  ASSUME Typed, picks = Zero
  PROVE  Spread
<1> DEFINE L == Len(list)
           c == counter % L
<1>1. L \in Nat \ {0} /\ DOMAIN list = 1..L
  BY ListParts
<1>2. c \in 0..(L - 1)
  <2>1. counter \in Nat
    BY RoutingAssumption, TypedParts
  <2> QED
    BY <1>1, <2>1, Division
<1> HIDE DEF c
<1>3. ASSUME NEW i \in 0..(L - 1)
      PROVE  picks[list[i + 1].url] = 0 /\ ~Between(c, c, i)
  <2>1. i + 1 \in DOMAIN list
    BY <1>1
  <2>2. list[i + 1].url \in Backends
    BY <2>1, ListParts
  <2>3. ~Between(c, c, i)
    BY <1>2 DEF Between
  <2> QED
    BY <2>2, <2>3 DEF Zero
<1> QED
  BY <1>2, <1>3 DEF Spread, c

LEMMA NoneAheadNext == (Typed /\ picks = Zero => Spread)'
<1>1. Typed /\ picks = Zero => Spread
  BY NoneAhead
<1> QED
  BY <1>1, PTL

LEMMA AllHealthyChoice ==
  ASSUME Typed, strategy = "round_robin", AllHealthy, NEW b \in NextBackend
  PROVE  b = list[(counter % Len(list)) + 1].url
<1> DEFINE found == {i \in 0..(Len(list) - 1) : healthy[Candidate(i)]}
<1>1. \A u \in Urls(list) : healthy[u]
  BY DEF AllHealthy, HealthyUrls
<1>2. Len(list) \in Nat \ {0} /\ list # <<>>
  BY ListParts
<1>3. 0 \in found
  BY <1>1, <1>2, Places, ListParts
<1>4. found \in SUBSET Int /\ \A i \in found : 0 <= i
  BY <1>2
<1>5. Min(found) = 0
  BY <1>3, <1>4, MinIs
<1>6. b \in RoundRobinNext
  BY <1>2 DEF NextBackend
<1>7. b = Candidate(0)
  BY <1>3, <1>5, <1>6 DEF RoundRobinNext
<1> QED
  BY <1>7, Places

(* The counts of the backends of the list, whose least is low.             *)
LEMMA LevelledAt ==
  ASSUME Typed, NEW f \in [Backends -> Nat], NEW low \in Nat,
         \A i \in 0..(Len(list) - 1) : low <= f[list[i + 1].url],
         \E i \in 0..(Len(list) - 1) : low = f[list[i + 1].url]
  PROVE  \A i \in 0..(Len(list) - 1) :
           Levelled(f)[list[i + 1].url] = f[list[i + 1].url] - low
<1> DEFINE S == {f[b] : b \in Urls(list)}
<1>1. Len(list) \in Nat /\ DOMAIN list = 1..Len(list) /\ Urls(list) \in SUBSET Backends
  BY ListParts
<1>2. \A i \in 0..(Len(list) - 1) : list[i + 1].url \in Urls(list)
  <2>1. \A i \in 0..(Len(list) - 1) : i + 1 \in DOMAIN list
    BY <1>1
  <2> QED
    BY <2>1, ListParts
<1>3. \A b \in Urls(list) : \E i \in 0..(Len(list) - 1) : b = list[i + 1].url
  <2>1. \A n \in DOMAIN list : n - 1 \in 0..(Len(list) - 1) /\ (n - 1) + 1 = n
    BY <1>1
  <2> QED
    BY <2>1 DEF Urls
<1>4. S \in SUBSET Int
  BY <1>1
<1>5. low \in S
  BY <1>2
<1>6. \A v \in S : low <= v
  BY <1>3
<1>7. Min(S) = low
  BY <1>4, <1>5, <1>6, MinIs
<1>8. Levelled(f) = [b \in Backends |-> IF b \in Urls(list) THEN f[b] - low ELSE 0]
  BY <1>7 DEF Levelled
<1> QED
  BY <1>1, <1>2, <1>8

(* The next place is one ahead, or the last and nobody is.                 *)
LEMMA CountedRound ==
  ASSUME Typed, Spread, strategy = "round_robin", AllHealthy,
         NEW b \in NextBackend, Picked(b), Counts, list' = list
  PROVE  Spread'
<1> DEFINE L == Len(list)
           c == counter % L
           d == counter' % L
           f == [picks EXCEPT ![b] = @ + 1]
           U(i) == list[i + 1].url
<1>1. /\ L \in Nat \ {0} /\ list # <<>> /\ DOMAIN list = 1..L
      /\ counter \in 0..(Wrap - 1) /\ counter \in Nat /\ Wrap \in Nat \ {0} /\ Wrap % L = 0
  BY RoutingAssumption, ListParts, TypedParts DEF IsWrapped
<1>2. c \in 0..(L - 1) /\ d = IF c = L - 1 THEN 0 ELSE c + 1
  <2>1. counter' = (counter + 1) % Wrap
    BY <1>1 DEF Counts
  <2>2. d = (counter + 1) % L
    BY <1>1, <2>1, WrapsUnnoticed
  <2> QED
    BY <1>1, <2>2, Division, NextRemainder
<1>3. PICK s \in 0..(L - 1) : \A i \in 0..(L - 1) : picks[U(i)] = IF Between(s, c, i) THEN 1 ELSE 0
  BY DEF Spread
<1>4. b = U(c)
  BY AllHealthyChoice
<1>5. \A i \in 0..(L - 1) : U(i) \in Backends /\ (U(i) = b <=> i = c)
  <2>1. \A i \in 0..(L - 1) : i + 1 \in DOMAIN list
    BY <1>1
  <2>2. \A i \in 0..(L - 1) : i + 1 = c + 1 <=> i = c
    BY <1>2
  <2> QED
    BY <1>2, <1>4, <2>1, <2>2, ListParts
<1>6. picks' = Levelled(f)
  BY DEF Picked
<1>7. picks \in [Backends -> Nat]
  BY TypedParts
<1> HIDE DEF L, c, d, U
<1>8. f \in [Backends -> Nat]
  <2>1. \A a \in Backends : picks[a] \in Nat /\ picks[a] + 1 \in Nat
    BY <1>7
  <2> QED
    BY <1>7, <2>1
<1>9. \A i \in 0..(L - 1) : f[U(i)] = IF Between(s, c, i) \/ i = c THEN 1 ELSE 0
  <2> SUFFICES ASSUME NEW i \in 0..(L - 1)
               PROVE  f[U(i)] = IF Between(s, c, i) \/ i = c THEN 1 ELSE 0
    OBVIOUS
  <2>1. f[U(i)] = IF i = c THEN picks[U(i)] + 1 ELSE picks[U(i)]
    BY <1>5, <1>7
  <2>2. ~Between(s, c, c)
    BY <1>1, <1>2, <1>3, OnePlaceMore
  <2> QED
    BY <1>3, <2>1, <2>2
<1> HIDE DEF f
<1>10. L \in Nat \ {0} /\ d \in 0..(L - 1)
  BY <1>1, <1>2
<1>11. /\ d = s => \A i \in 0..(L - 1) : Between(s, c, i) \/ i = c
       /\ d # s => /\ \A i \in 0..(L - 1) : Between(s, d, i) <=> Between(s, c, i) \/ i = c
                   /\ ~Between(s, c, d) /\ d # c
  BY <1>2, <1>3, <1>10, OnePlaceMore
<1>12. CASE d = s
  <2>1. \A i \in 0..(L - 1) : f[U(i)] = 1
    BY <1>9, <1>11, <1>12
  <2>2. \A i \in 0..(L - 1) : Levelled(f)[U(i)] = f[U(i)] - 1
    <3>1. /\ \A i \in 0..(L - 1) : 1 <= f[U(i)]
          /\ \E i \in 0..(L - 1) : 1 = f[U(i)]
      BY <1>1, <2>1
    <3> QED
      BY <1>8, <3>1, LevelledAt DEF L, U
  <2>3. \A i \in 0..(L - 1) : picks'[U(i)] = 0 /\ ~Between(s, d, i)
    BY <1>1, <1>6, <1>12, <2>1, <2>2 DEF Between
  <2> QED
    BY <1>3, <2>3 DEF Spread, L, U, d
<1>13. CASE d # s
  <2>1. /\ \A i \in 0..(L - 1) : Between(s, d, i) <=> Between(s, c, i) \/ i = c
        /\ ~Between(s, c, d) /\ d # c
    BY <1>11, <1>13
  <2>2. \A i \in 0..(L - 1) : Levelled(f)[U(i)] = f[U(i)] - 0
    <3>1. /\ \A i \in 0..(L - 1) : 0 <= f[U(i)]
          /\ 0 = f[U(d)]
      BY <1>9, <1>10, <2>1
    <3> QED
      BY <1>8, <1>10, <3>1, LevelledAt DEF L, U
  <2>3. \A i \in 0..(L - 1) : picks'[U(i)] = IF Between(s, d, i) THEN 1 ELSE 0
    BY <1>6, <1>9, <2>1, <2>2
  <2> QED
    BY <1>3, <2>3 DEF Spread, L, U, d
<1> QED
  BY <1>12, <1>13

LEMMA SpreadStep ==
  ASSUME Typed, Typed', Spread, [Next]_vars
  PROVE  Spread'
<1>1. picks' = Zero => Spread'
  BY NoneAheadNext
<1>2. UNCHANGED <<list, counter, picks>> => Spread'
  BY DEF Spread
<1>3. ASSUME NEW r \in Requests, Balance(r)
      PROVE  Spread'
  <2>1. PICK b \in NextBackend : Picked(b)
    BY <1>3 DEF Balance
  <2>2. CASE strategy = "round_robin" /\ AllHealthy
    BY <1>3, <2>1, <2>2, CountedRound DEF Balance
  <2>3. CASE ~(strategy = "round_robin" /\ AllHealthy)
    BY <1>1, <2>1, <2>3 DEF Picked
  <2> QED
    BY <2>2, <2>3
<1>4. ASSUME NEW cfg \in Configs, InstallBackends(cfg)
      PROVE  Spread'
  BY <1>1, <1>4 DEF InstallBackends
<1>5. ASSUME ~\E r \in Requests : Balance(r), ~\E cfg \in Configs : InstallBackends(cfg)
      PROVE  UNCHANGED <<list, counter, picks>>
  BY <1>5 DEF Next, vars, balancerVars, Apart, Check, Heard, Finish, Fail, Recover, Arrive,
     Served, BackendFails, UploadFails, ClientCancels, HandleError, InstallStrategy, InstallRules
<1> QED
  BY <1>2, <1>3, <1>4, <1>5

(* While all backends are healthy, the round robin gives each of them the  *)
(* same number of requests, give or take one, for any lists, also when     *)
(* they are replaced, and wherever the counter stands and wraps            *)
(* (balancer.go Next).                                                     *)
THEOREM RoundRobinIsEven == Spec => []EvenSplit
<1>1. Init => Spread
  BY TypedInit, NoneAhead DEF Init
<1>2. Typed /\ Spread => EvenSplit
  <2> SUFFICES ASSUME Typed, Spread, NEW a \in Urls(list), NEW b \in Urls(list)
               PROVE  picks[a] - picks[b] <= 1
    BY DEF EvenSplit
  <2>1. \A u \in Urls(list) : picks[u] \in {0, 1}
    <3>1. Len(list) \in Nat /\ DOMAIN list = 1..Len(list)
      BY ListParts
    <3>2. \A n \in DOMAIN list : n - 1 \in 0..(Len(list) - 1) /\ (n - 1) + 1 = n
      BY <3>1
    <3> SUFFICES ASSUME NEW n \in DOMAIN list
                 PROVE  picks[list[n].url] \in {0, 1}
      BY DEF Urls
    <3> DEFINE i == n - 1
    <3>3. i \in 0..(Len(list) - 1) /\ i + 1 = n
      BY <3>2
    <3> HIDE DEF i
    <3>4. picks[list[i + 1].url] \in {0, 1}
      BY <3>3 DEF Spread
    <3> QED
      BY <3>3, <3>4
  <2> QED
    BY <2>1
<1> QED
  BY <1>1, <1>2, TypedInit, TypedStep, SpreadStep, PTL DEF Spec
-----------------------------------------------------------------------------
PurgeState == [pc : {"idle", "delete", "audit"}, todo : Seq(STRING),
               keep : Nat, cut : Nat, n : Nat]
Ledger == [gap : Int, lost : Nat, failures : Nat, restarts : Nat]

(* A handler that is at work has a limit that lies keep days back, and an  *)
(* hour at most in addition; it audits a table it still has on its list.   *)
GoodPurge(p) ==
  /\ p \in PurgeState
  /\ p.pc # "idle" => p.keep > 0 /\ p.cut - p.keep * Day \in {0, 1}
  /\ p.pc = "audit" => p.todo # <<>>

LEMMA PurgeParts ==
  R!TypeOK <=> /\ age \in [R!Rows -> R!Absent..MaxAge]
             /\ cleaner \in R!Tables \cup {"select", "vacuum", "off"}
             /\ ticked \in BOOLEAN
             /\ GoodPurge(purge)
             /\ ledger \in Ledger
BY DEF R!TypeOK, GoodPurge, PurgeState, Ledger

(* The instance's finite sets are the finite sets.                         *)
LEMMA SameFiniteSets ==
  \A S : (R!IsFiniteSet(S) <=> IsFiniteSet(S)) /\ R!Cardinality(S) = Cardinality(S)
BY DEF R!IsFiniteSet, IsFiniteSet, R!Cardinality, Cardinality

LEMMA RetentionFacts ==
  /\ IsFiniteSet(R!Rows) /\ \A r \in AuditRows : R!TableOf(r) = "audit"
  /\ Day \in Nat /\ Zone \in Int /\ MaxAge \in Nat
  /\ MaxFailures \in Nat /\ MaxRestarts \in Nat
  /\ Days \in [R!Tables -> Int]
  /\ Purges \subseteq [tables : Seq(STRING), keep : Int]
BY OperationAssumption, SameFiniteSets DEF R!RetentionAssumption

LEMMA IdlePurge == GoodPurge(R!NoPurge)
BY DEF GoodPurge, R!NoPurge, PurgeState

(* Deleting leaves ages that are ages, and deletes finitely many rows.     *)
LEMMA DeletedAges ==
  ASSUME R!TypeOK, NEW t, NEW limit
  PROVE  /\ R!Without(R!Before(t, limit)) \in [R!Rows -> R!Absent..MaxAge]
         /\ Cardinality(R!Before(t, limit)) \in Nat
<1>1. R!Without(R!Before(t, limit)) \in [R!Rows -> R!Absent..MaxAge]
  BY RetentionFacts DEF R!TypeOK, R!Without, R!Absent
<1>2. R!Before(t, limit) \subseteq R!Rows
  BY DEF R!Before
<1>3. IsFiniteSet(R!Before(t, limit))
  BY <1>2, RetentionFacts, FS_Subset
<1> QED
  BY <1>1, <1>3, FS_CardinalityType

LEMMA InsertedAge ==
  ASSUME R!TypeOK, NEW r \in R!Rows
  PROVE  [age EXCEPT ![r] = 0] \in [R!Rows -> R!Absent..MaxAge]
BY RetentionFacts DEF R!TypeOK, R!Absent

LEMMA AuditRowsAreRows == AuditRows \subseteq R!Rows
BY DEF R!Rows

LEMMA TailOfTables ==
  ASSUME NEW S, NEW s \in Seq(S), s # <<>>
  PROVE  Tail(s) \in Seq(S)
OBVIOUS

(* Counting a failure or a restart, and rows that go without a record.     *)
LEMMA LostWithTheRest ==
  ASSUME NEW h \in Ledger, NEW k \in Nat
  PROVE  /\ [h EXCEPT !.failures = @ + 1, !.lost = @ + k] \in Ledger
         /\ [h EXCEPT !.restarts = @ + 1, !.lost = @ + k] \in Ledger
<1>1. h.failures + 1 \in Nat /\ h.restarts + 1 \in Nat /\ h.lost + k \in Nat
  BY DEF Ledger
<1> DEFINE f == h.failures + 1
           r == h.restarts + 1
           l == h.lost + k
<1>2. f \in Nat /\ r \in Nat /\ l \in Nat
  BY <1>1
<1> HIDE DEF f, r, l
<1>3. [h EXCEPT !.failures = f, !.lost = l] \in Ledger
  BY <1>2 DEF Ledger
<1>4. [h EXCEPT !.restarts = r, !.lost = l] \in Ledger
  BY <1>2 DEF Ledger
<1> QED
  BY <1>3, <1>4 DEF f, r, l

LEMMA PurgeCounts == ASSUME R!TypeOK PROVE purge.n \in Nat /\ purge.todo \in Seq(STRING)
BY PurgeParts DEF GoodPurge, PurgeState

(* After an audit call the handler goes on with the rest of its list.      *)
LEMMA NextTableGood ==
  ASSUME R!TypeOK, purge.pc = "audit"
  PROVE  GoodPurge(R!NextTable)
<1>1. purge \in PurgeState /\ purge.todo \in Seq(STRING) /\ purge.todo # <<>>
  BY PurgeParts DEF GoodPurge, PurgeState
<1>2. Tail(purge.todo) \in Seq(STRING)
  BY <1>1, TailOfTables
<1> QED
  BY <1>1, <1>2, PurgeParts DEF GoodPurge, PurgeState, R!NextTable
-----------------------------------------------------------------------------
(* The retention goroutine and the clock.                                  *)
LEMMA CleanerStep ==
  ASSUME R!TypeOK, R!Cleaner
  PROVE  R!TypeOK'
<1>1. CASE R!Tick
  BY <1>1, PurgeParts DEF R!Tick, R!Tables, R!TypeOK
<1>2. ASSUME NEW t \in R!Tables, R!Clean(t)
      PROVE  R!TypeOK'
  <2>1. age' \in [R!Rows -> R!Absent..MaxAge]
    BY <1>2, DeletedAges DEF R!Clean, R!TypeOK
  <2>2. cleaner' \in R!Tables \cup {"select", "vacuum", "off"}
    BY <1>2 DEF R!Clean, R!After, R!Tables
  <2> QED
    BY <1>2, <2>1, <2>2 DEF R!Clean, R!TypeOK
<1>3. ASSUME NEW t \in R!Tables, R!CleanFails(t)
      PROVE  R!TypeOK'
  <2>1. cleaner' \in R!Tables \cup {"select", "vacuum", "off"}
    BY <1>3 DEF R!CleanFails, R!After, R!Tables
  <2>2. ledger' \in Ledger
    BY <1>3, PurgeParts DEF R!CleanFails, Ledger
  <2> QED
    BY <1>3, <2>1, <2>2 DEF R!CleanFails, R!TypeOK, Ledger
<1>4. CASE R!Vacuum
  BY <1>4 DEF R!Vacuum, R!TypeOK
<1> QED
  BY <1>1, <1>2, <1>3, <1>4 DEF R!Cleaner

LEMMA HourStep ==
  ASSUME R!TypeOK, R!Hour
  PROVE  R!TypeOK'
<1>1. age' \in [R!Rows -> R!Absent..MaxAge]
  <2>1. MaxAge \in Nat /\ R!Absent = -1 /\ age \in [R!Rows -> R!Absent..MaxAge]
    BY RetentionFacts DEF R!TypeOK, R!Absent
  <2>2. \A a \in R!Absent..MaxAge : a \notin {R!Absent, MaxAge} => a + 1 \in R!Absent..MaxAge
    BY <2>1
  <2>3. \A r \in R!Rows :
          (IF age[r] \in {R!Absent, MaxAge} THEN age[r] ELSE age[r] + 1) \in R!Absent..MaxAge
    BY <2>1, <2>2
  <2> QED
    BY <2>3 DEF R!Hour
<1>2. GoodPurge(purge')
  <2>1. CASE purge.pc = "idle"
    BY <2>1, PurgeParts DEF R!Hour
  <2>2. CASE purge.pc # "idle"
    <3>1. purge.keep \in Nat /\ Day \in Nat
      BY PurgeParts, RetentionFacts DEF GoodPurge, PurgeState
    <3>2. purge.keep * Day \in Nat
      BY <3>1
    <3>3. purge' = [purge EXCEPT !.cut = purge.keep * Day + 1]
      BY <2>2 DEF R!Hour
    <3> DEFINE d == purge.keep * Day
    <3>4. purge' = [purge EXCEPT !.cut = d + 1] /\ d \in Nat
      BY <3>2, <3>3
    <3>5. purge' \in PurgeState /\ purge'.keep = purge.keep /\ purge'.pc = purge.pc
          /\ purge'.todo = purge.todo /\ purge'.cut - d = 1
      <4> HIDE DEF d
      <4> QED
        BY <3>4, PurgeParts DEF GoodPurge, PurgeState
    <3> QED
      BY <2>2, <3>5, PurgeParts DEF GoodPurge
  <2> QED
    BY <2>1, <2>2
<1> QED
  BY <1>1, <1>2 DEF R!Hour, R!TypeOK, GoodPurge, PurgeState
-----------------------------------------------------------------------------
(* The handler of a purge.                                                 *)
LEMMA StartGood ==
  ASSUME R!TypeOK, NEW q \in Purges, R!PurgeStart(q)
  PROVE  GoodPurge(purge')
<1>1. q.tables \in Seq(STRING) /\ q.keep \in Nat /\ q.keep > 0 /\ Day \in Nat
  BY RetentionFacts DEF R!PurgeStart, R!Valid
<1> DEFINE d == q.keep * Day
<1>2. d \in Nat
  BY <1>1
<1>3. purge' = [pc |-> "delete", todo |-> q.tables, keep |-> q.keep, cut |-> d, n |-> 0]
  BY DEF R!PurgeStart
<1>4. purge' \in PurgeState /\ purge'.keep = q.keep /\ purge'.pc = "delete"
      /\ purge'.cut - d = 0
  <2> HIDE DEF d
  <2> QED
    BY <1>1, <1>2, <1>3 DEF PurgeState
<1> QED
  BY <1>1, <1>4 DEF GoodPurge

LEMMA DeleteGood ==
  ASSUME R!TypeOK, R!PurgeDelete
  PROVE  GoodPurge(purge') /\ ledger' \in Ledger /\ age' \in [R!Rows -> R!Absent..MaxAge]
<1> DEFINE gone == R!Before(Head(purge.todo), purge.cut)
           c == Cardinality(gone)
<1>1. R!Without(gone) \in [R!Rows -> R!Absent..MaxAge] /\ c \in Nat
  BY DeletedAges
<1>2. /\ age' = R!Without(gone)
      /\ purge' = [purge EXCEPT !.pc = "audit", !.n = c]
      /\ ledger' = [ledger EXCEPT !.gap = @ + c]
      /\ purge.pc = "delete" /\ purge.todo # <<>>
  <2>1. R!Cardinality(gone) = c
    BY SameFiniteSets
  <2>2. /\ age' = R!Without(gone)
        /\ purge' = [purge EXCEPT !.pc = "audit", !.n = R!Cardinality(gone)]
        /\ ledger' = [ledger EXCEPT !.gap = @ + R!Cardinality(gone)]
        /\ purge.pc = "delete" /\ purge.todo # <<>>
    BY DEF R!PurgeDelete, R!PurgeNow
  <2> QED
    BY <2>1, <2>2
<1> HIDE DEF c
<1>3. ledger' \in Ledger
  BY <1>1, <1>2, PurgeParts DEF Ledger
<1>4. purge' \in PurgeState /\ purge'.pc = "audit" /\ purge'.todo = purge.todo
      /\ purge'.keep = purge.keep /\ purge'.cut = purge.cut
  BY <1>1, <1>2, PurgeParts DEF GoodPurge, PurgeState
<1>5. GoodPurge(purge')
  BY <1>2, <1>4, PurgeParts DEF GoodPurge
<1> QED
  BY <1>1, <1>2, <1>3, <1>5

Purge ==
  \/ \E q \in Purges : R!PurgeStart(q)
  \/ R!PurgeSkip \/ R!PurgeDelete \/ R!PurgeFails
  \/ R!PurgeAudit \/ R!PurgeAuditFails \/ R!PurgeEnd

LEMMA PurgeStep ==
  ASSUME R!TypeOK, Purge
  PROVE  R!TypeOK'
<1>1. ASSUME NEW q \in Purges, R!PurgeStart(q)
      PROVE  R!TypeOK'
  <2>1. GoodPurge(purge')
    BY <1>1, StartGood
  <2> QED
    BY <1>1, <2>1 DEF R!PurgeStart, R!TypeOK, GoodPurge, PurgeState
<1>2. CASE R!PurgeSkip
  <2>1. purge.todo \in Seq(STRING) /\ purge.todo # <<>> /\ purge.pc = "delete"
        /\ purge' = [purge EXCEPT !.todo = Tail(@)]
    BY <1>2, PurgeParts DEF R!PurgeSkip, R!PurgeNow, GoodPurge, PurgeState
  <2>2. Tail(purge.todo) \in Seq(STRING)
    BY <2>1, TailOfTables
  <2>3. GoodPurge(purge')
    BY <2>1, <2>2, PurgeParts DEF GoodPurge, PurgeState
  <2> QED
    BY <1>2, <2>3 DEF R!PurgeSkip, R!TypeOK, GoodPurge, PurgeState
<1>3. CASE R!PurgeDelete
  <2>1. GoodPurge(purge') /\ ledger' \in Ledger /\ age' \in [R!Rows -> R!Absent..MaxAge]
    BY <1>3, DeleteGood
  <2> QED
    BY <1>3, <2>1 DEF R!PurgeDelete, R!TypeOK, GoodPurge, PurgeState, Ledger
<1>4. CASE R!PurgeFails
  <2>1. ledger' \in Ledger
    BY <1>4, PurgeParts DEF R!PurgeFails, Ledger
  <2> QED
    BY <1>4, <2>1, IdlePurge DEF R!PurgeFails, R!TypeOK, GoodPurge, PurgeState, Ledger
<1>5. CASE R!PurgeAudit
  <2>1. age' \in [R!Rows -> R!Absent..MaxAge]
    BY <1>5, InsertedAge, AuditRowsAreRows DEF R!PurgeAudit
  <2>2. ledger' \in Ledger
    BY <1>5, PurgeCounts, PurgeParts DEF R!PurgeAudit, Ledger
  <2>3. GoodPurge(purge')
    BY <1>5, NextTableGood DEF R!PurgeAudit
  <2> QED
    BY <1>5, <2>1, <2>2, <2>3 DEF R!PurgeAudit, R!TypeOK, GoodPurge, PurgeState, Ledger
<1>6. CASE R!PurgeAuditFails
  <2>1. ledger' \in Ledger
    BY <1>6, PurgeCounts, PurgeParts, LostWithTheRest DEF R!PurgeAuditFails
  <2>2. GoodPurge(purge')
    BY <1>6, NextTableGood DEF R!PurgeAuditFails
  <2> QED
    BY <1>6, <2>1, <2>2 DEF R!PurgeAuditFails, R!TypeOK, GoodPurge, PurgeState, Ledger
<1>7. CASE R!PurgeEnd
  BY <1>7, IdlePurge DEF R!PurgeEnd, R!TypeOK, GoodPurge, PurgeState
<1> QED
  BY <1>1, <1>2, <1>3, <1>4, <1>5, <1>6, <1>7 DEF Purge

LEMMA RestartStep ==
  ASSUME R!TypeOK, R!Restart
  PROVE  R!TypeOK'
<1>1. ledger' \in Ledger
  BY PurgeCounts, PurgeParts, LostWithTheRest DEF R!Restart
<1> QED
  BY <1>1, IdlePurge DEF R!Restart, R!TypeOK, GoodPurge, PurgeState, Ledger

LEMMA RetentionSteps ==
  R!Next <=> (\E r \in R!Rows : R!Insert(r)) \/ R!Hour \/ R!Cleaner \/ Purge \/ R!Restart
BY DEF R!Next, Purge

LEMMA RetentionInit ==
  ASSUME R!Init PROVE R!TypeOK
<1>1. age \in [R!Rows -> R!Absent..MaxAge]
  BY RetentionFacts DEF R!Init, R!Absent
<1>2. ledger \in Ledger
  BY DEF R!Init, Ledger
<1> QED
  BY <1>1, <1>2, IdlePurge DEF R!Init, R!TypeOK, GoodPurge, PurgeState, Ledger

(* Type correctness: the handler's limit, its list and the counts stay     *)
(* what they are, for any rows and requests (postMaintenancePurge,         *)
(* startRetention).                                                        *)
THEOREM RetentionTypes == R!Spec => []R!TypeOK
<1>1. R!Init => R!TypeOK
  BY RetentionInit
<1>2. R!TypeOK /\ [R!Next]_(R!vars) => R!TypeOK'
  <2> SUFFICES ASSUME R!TypeOK, [R!Next]_(R!vars) PROVE R!TypeOK'
    OBVIOUS
  <2>1. ASSUME NEW r \in R!Rows, R!Insert(r) PROVE R!TypeOK'
    BY <2>1, InsertedAge DEF R!Insert, R!TypeOK
  <2>2. CASE UNCHANGED R!vars
    BY <2>2 DEF R!vars, R!TypeOK
  <2> QED
    BY <2>1, <2>2, RetentionSteps, HourStep, CleanerStep, PurgeStep, RestartStep
<1> QED
  BY <1>1, <1>2, PTL DEF R!Spec
-----------------------------------------------------------------------------
(* Accounted is not inductive: the number of the last DELETE must be back  *)
(* at zero whenever the handler is about to make another one.              *)
CountedOnce == Accounted /\ (purge.pc # "audit" => purge.n = 0)

LEMMA CountedStep ==
  ASSUME R!TypeOK, CountedOnce, [R!Next]_(R!vars)
  PROVE  CountedOnce'
<1>1. purge.n \in Nat /\ ledger.gap \in Int /\ ledger.lost \in Nat /\ ledger \in Ledger
      /\ purge \in PurgeState
  BY PurgeCounts, PurgeParts DEF Ledger, GoodPurge
<1>2. CASE (\E r \in R!Rows : R!Insert(r)) \/ UNCHANGED R!vars
  BY <1>2 DEF R!Insert, R!vars, CountedOnce, Accounted, R!Accounted
<1>3. CASE R!Hour
  BY <1>1, <1>3 DEF R!Hour, CountedOnce, Accounted, R!Accounted, PurgeState
<1>4. CASE R!Cleaner
  <2>1. CASE R!Tick \/ R!Vacuum
    BY <2>1 DEF R!Tick, R!Vacuum, CountedOnce, Accounted, R!Accounted
  <2>2. ASSUME NEW t \in R!Tables, R!Clean(t) PROVE CountedOnce'
    BY <2>2 DEF R!Clean, CountedOnce, Accounted, R!Accounted
  <2>3. ASSUME NEW t \in R!Tables, R!CleanFails(t) PROVE CountedOnce'
    BY <1>1, <2>3 DEF R!CleanFails, CountedOnce, Accounted, R!Accounted, Ledger
  <2> QED
    BY <1>4, <2>1, <2>2, <2>3 DEF R!Cleaner
<1>5. ASSUME NEW q \in Purges, R!PurgeStart(q) PROVE CountedOnce'
  BY <1>5 DEF R!PurgeStart, CountedOnce, Accounted, R!Accounted
<1>6. CASE R!PurgeSkip
  BY <1>1, <1>6 DEF R!PurgeSkip, CountedOnce, Accounted, R!Accounted, PurgeState
<1>7. CASE R!PurgeDelete
  <2> DEFINE c == Cardinality(R!Before(Head(purge.todo), purge.cut))
  <2>1. c \in Nat
    BY DeletedAges
  <2>2. /\ purge' = [purge EXCEPT !.pc = "audit", !.n = c]
        /\ ledger' = [ledger EXCEPT !.gap = @ + c]
        /\ purge.pc = "delete"
    BY <1>7, SameFiniteSets DEF R!PurgeDelete, R!PurgeNow
  <2> HIDE DEF c
  <2>3. purge'.n = c /\ purge'.pc = "audit" /\ ledger'.gap = ledger.gap + c
        /\ ledger'.lost = ledger.lost
    BY <1>1, <2>2 DEF Ledger, PurgeState
  <2> QED
    BY <1>1, <2>1, <2>2, <2>3 DEF CountedOnce, Accounted, R!Accounted
<1>8. CASE R!PurgeFails
  BY <1>1, <1>8 DEF R!PurgeFails, R!PurgeNow, R!NoPurge, CountedOnce, Accounted, R!Accounted, Ledger
<1>9. CASE R!PurgeAudit
  <2>1. ledger'.gap = ledger.gap - purge.n /\ ledger'.lost = ledger.lost /\ purge'.n = 0
    BY <1>1, <1>9 DEF R!PurgeAudit, R!NextTable, Ledger, PurgeState
  <2> QED
    BY <1>1, <2>1 DEF CountedOnce, Accounted, R!Accounted
<1>10. CASE R!PurgeAuditFails
  <2>1. ledger'.gap = ledger.gap /\ ledger'.lost = ledger.lost + purge.n /\ purge'.n = 0
    BY <1>1, <1>10 DEF R!PurgeAuditFails, R!NextTable, Ledger, PurgeState
  <2> QED
    BY <1>1, <2>1 DEF CountedOnce, Accounted, R!Accounted
<1>11. CASE R!PurgeEnd
  BY <1>1, <1>11 DEF R!PurgeEnd, R!NoPurge, CountedOnce, Accounted, R!Accounted
<1>12. CASE R!Restart
  <2>1. ledger'.gap = ledger.gap /\ ledger'.lost = ledger.lost + purge.n /\ purge'.n = 0
    BY <1>1, <1>12 DEF R!Restart, R!NoPurge, Ledger
  <2> QED
    BY <1>1, <2>1 DEF CountedOnce, Accounted, R!Accounted
<1> QED
  BY <1>2, <1>3, <1>4, <1>5, <1>6, <1>7, <1>8, <1>9, <1>10, <1>11, <1>12, RetentionSteps DEF Purge

(* What purges have deleted is on the audit log, but for the DELETE just   *)
(* made and what a failing INSERT or the end of the process has cost.      *)
THEOREM PurgesAccounted == R!Spec => []Accounted
<1>1. R!Init => CountedOnce
  BY DEF R!Init, R!NoPurge, CountedOnce, Accounted, R!Accounted
<1>2. R!TypeOK /\ CountedOnce /\ [R!Next]_(R!vars) => CountedOnce'
  BY CountedStep
<1>3. CountedOnce => Accounted
  BY DEF CountedOnce
<1> QED
  BY <1>1, <1>2, <1>3, RetentionTypes, PTL DEF R!Spec
-----------------------------------------------------------------------------
LEMMA OnlyOverTheLimit ==
  ASSUME R!TypeOK, [R!Next]_(R!vars), NEW r \in R!Rows, R!Goes(r)
  PROVE  R!PastRetention(r) \/ R!PastPurge(r)
<1>1. age[r] \in Int /\ age \in [R!Rows -> R!Absent..MaxAge] /\ Zone \in Int
      /\ age[r] # -1 /\ age'[r] = -1
  BY RetentionFacts DEF R!TypeOK, R!Goes, R!Absent
<1>2. age' # age
  BY <1>1
<1>3. CASE \E x \in R!Rows : R!Insert(x)
  BY <1>1, <1>3 DEF R!Insert
<1>4. CASE R!Hour
  BY <1>1, <1>4, RetentionFacts DEF R!Hour, R!Absent
<1>5. CASE R!Cleaner
  <2>1. PICK t \in R!Tables : R!Clean(t)
    BY <1>2, <1>5 DEF R!Cleaner, R!Tick, R!Vacuum, R!CleanFails
  <2>2. R!On(t) /\ r \in R!Before(t, Days[t] * Day)
    BY <1>1, <1>2, <2>1 DEF R!Clean, R!Without
  <2>3. R!TableOf(r) = t /\ age[r] > Days[t] * Day - R!Shift(t)
    BY <2>2 DEF R!Before
  <2>4. R!Shift(t) \in Int /\ Days[t] * Day \in Int
    BY <2>1, RetentionFacts DEF R!Shift
  <2> QED
    BY <1>1, <2>1, <2>2, <2>3, <2>4 DEF R!Clean, R!On, R!PastRetention
<1>6. CASE Purge
  <2>1. CASE R!PurgeDelete
    <3> DEFINE t == Head(purge.todo)
               d == purge.keep * Day
    <3>1. r \in R!Before(t, purge.cut) /\ purge.pc = "delete"
      BY <1>1, <2>1 DEF R!PurgeDelete, R!PurgeNow, R!Without
    <3>2. R!TableOf(r) = t /\ age[r] > purge.cut - R!Shift(t)
      BY <3>1 DEF R!Before
    <3>3. R!Shift(t) \in Int /\ purge.keep \in Nat /\ purge.cut \in Nat /\ Day \in Nat
      BY PurgeParts, RetentionFacts DEF R!Shift, GoodPurge, PurgeState
    <3>4. d \in Nat
      BY <3>3
    <3>5. purge.cut - d \in {0, 1}
      BY <3>1, PurgeParts DEF GoodPurge
    <3> HIDE DEF d
    <3>6. age[r] + R!Shift(t) > d
      BY <1>1, <3>2, <3>3, <3>4, <3>5
    <3> QED
      BY <3>1, <3>2, <3>6 DEF R!PastPurge, d
  <2>2. CASE R!PurgeAudit
    BY <1>1, <2>2 DEF R!PurgeAudit
  <2> QED
    BY <1>2, <1>6, <2>1, <2>2 DEF Purge, R!PurgeStart, R!PurgeSkip, R!PurgeFails,
                                 R!PurgeAuditFails, R!PurgeEnd
<1>7. CASE R!Restart \/ UNCHANGED R!vars
  BY <1>2, <1>7 DEF R!Restart, R!vars
<1> QED
  BY <1>3, <1>4, <1>5, <1>6, <1>7, RetentionSteps

(* No row goes but by a limit meant for it, whatever overlaps: the         *)
(* retention's for its table, or the one an administrator has asked for.   *)
THEOREM RecentRowsStay == R!Spec => KeepsRecent
<1>1. R!TypeOK /\ [R!Next]_(R!vars) =>
        [\A r \in R!Rows : R!Goes(r) => R!PastRetention(r) \/ R!PastPurge(r)]_(R!vars)
  BY OnlyOverTheLimit
<1> QED
  BY <1>1, RetentionTypes, PTL DEF R!Spec, KeepsRecent, R!KeepsRecent
-----------------------------------------------------------------------------
(* Forwarding: what is known of a request on its way.                      *)
Passing ==
  /\ passing.pc \in {"none", "reading", "sent"}
  /\ passing.pc # "none" => passing.in \in F!Incoming
  /\ passing.pc = "sent" =>
       /\ passing.client = F!ClientIP(passing.in)
       /\ passing.xff = F!AddHop(F!AppendXFF(passing.in), passing.in)

LEMMA PassingStep ==
  ASSUME Passing, [F!Next]_(F!vars)
  PROVE  Passing'
<1>1. trust' = trust /\ F!Incoming' = F!Incoming
  BY DEF F!Next, F!vars, F!Arrive, F!Forward, F!Answered, F!SetRules, F!SetRewrites, F!Incoming
<1>2. \A rq : /\ F!ClientIP(rq)' = F!ClientIP(rq)
              /\ F!AddHop(F!AppendXFF(rq), rq)' = F!AddHop(F!AppendXFF(rq), rq)
  BY <1>1 DEF F!ClientIP, F!AddHop, F!AppendXFF
<1>3. ASSUME NEW rq \in F!Incoming, F!Arrive(rq)
      PROVE  Passing'
  BY <1>1, <1>3 DEF F!Arrive, Passing
<1>4. CASE F!Forward
  BY <1>1, <1>2, <1>4 DEF F!Forward, Passing
<1>5. CASE F!Answered
  BY <1>5 DEF F!Answered, F!NoRequest, Passing
<1>6. CASE UNCHANGED passing
  BY <1>1, <1>2, <1>6 DEF Passing
<1> QED
  BY <1>3, <1>4, <1>5, <1>6 DEF F!Next, F!vars, F!SetRules, F!SetRewrites

(* The chain that is believed, and what of it the code needs.              *)
Believed(rq) == IF trust THEN rq.wrote ELSE <<>>
Chain(rq) == IF trust THEN F!Xff(rq) ELSE <<>>
Met(rq) == rq.way \cup F!ToSet(Believed(rq))

LEMMA ChainOf ==
  ASSUME NEW rq \in F!Incoming
  PROVE  /\ Chain(rq) \in Seq(Met(rq)) /\ rq.peer \in Met(rq) /\ F!ClientIP(rq) \in Met(rq)
         /\ Chain(rq) # <<>> => Head(Chain(rq)) = F!ClientIP(rq)
         /\ Believed(rq) = <<>> => F!ClientIP(rq) = rq.origin
<1> DEFINE wrote == Believed(rq)
           S == Met(rq)
           s == Chain(rq)
<1>1. /\ \A r \in Direct \cup Fronted :
           /\ {r.origin, r.peer} \subseteq r.way /\ r.hops \in Seq(r.way)
           /\ F!IsSequence(r.wrote)
      /\ \A r \in Direct : r.origin = r.peer
      /\ \A r \in Fronted : F!Introduced(r)
  BY OperationAssumption DEF F!ForwardingAssumption
<1>2. CASE trust
  <2>1. rq \in Fronted
    BY <1>2 DEF F!Incoming
  <2>2. /\ rq.hops \in Seq(rq.way) /\ wrote = rq.wrote /\ wrote \in Seq(F!ToSet(wrote))
        /\ {rq.origin, rq.peer} \subseteq rq.way
        /\ IF rq.hops = <<>> THEN rq.realIP = rq.origin /\ rq.realIP # NoAddr
           ELSE Head(rq.hops) = rq.origin
    BY <1>1, <1>2, <2>1 DEF F!Introduced, F!IsSequence, Believed
  <2>3. wrote \in Seq(S) /\ rq.hops \in Seq(S) /\ rq.peer \in S /\ rq.origin \in S
    <3>1. rq.way \subseteq S /\ F!ToSet(wrote) \subseteq S
      BY DEF Met
    <3> HIDE DEF S, wrote
    <3> QED
      BY <2>2, <3>1, SeqMonotonic
  <2>4. s = wrote \o rq.hops
    BY <1>2, <2>2 DEF F!Xff, Chain
  <2> HIDE DEF S, wrote, s
  <2>5. s \in Seq(S) /\ (s = <<>> <=> wrote = <<>> /\ rq.hops = <<>>)
    BY <2>3, <2>4
  <2>6. s # <<>> => Head(s) \in S
    BY <2>5
  <2>7. wrote = <<>> => s = rq.hops
    BY <2>3, <2>4, ConcatEmptySeq
  <2>8. F!ClientIP(rq) = IF s # <<>> THEN Head(s)
                         ELSE IF rq.realIP # NoAddr THEN rq.realIP ELSE rq.peer
    BY <1>2 DEF F!ClientIP, Chain, s
  <2>9. /\ F!ClientIP(rq) \in S
        /\ s # <<>> => Head(s) = F!ClientIP(rq)
        /\ wrote = <<>> => F!ClientIP(rq) = rq.origin
    <3>1. CASE s = <<>>
      BY <2>2, <2>3, <2>5, <2>8, <3>1
    <3>2. CASE s # <<>>
      BY <2>2, <2>5, <2>6, <2>7, <2>8, <3>2
    <3> QED
      BY <3>1, <3>2
  <2> QED
    BY <2>3, <2>5, <2>9 DEF S, s, wrote
<1>3. CASE ~trust
  <2>1. rq \in Direct
    BY <1>3 DEF F!Incoming
  <2>2. F!ClientIP(rq) = rq.peer
    BY <1>3 DEF F!ClientIP
  <2>3. <<>> \in Seq(S)
    BY EmptySeq
  <2> QED
    BY <1>1, <1>3, <2>1, <2>2, <2>3 DEF Met, Chain
<1> QED
  BY <1>2, <1>3

(* Two addresses after those that the header had.                          *)
LEMMA TwoMore ==
  ASSUME NEW S, NEW s \in Seq(S), NEW a \in S, NEW b \in S, s # <<>> => Head(s) = a
  PROVE  /\ Head(Append(Append(s, a), b)) = a
         /\ F!ToSet(Append(Append(s, a), b)) \subseteq S
         /\ F!IsPrefix(s, Append(Append(s, a), b))
<1> DEFINE t == Append(Append(s, a), b)
<1>1. t \in Seq(S) /\ Len(t) = Len(s) + 2 /\ Len(s) \in Nat
  OBVIOUS
<1>2. t[1] = a
  OBVIOUS
<1>3. SubSeq(t, 1, Len(s)) = s
  OBVIOUS
<1> HIDE DEF t
<1>4. Head(t) = t[1]
  BY <1>1
<1>5. \A i \in DOMAIN t : t[i] \in S
  BY <1>1, ElementsOf
<1>6. F!IsPrefix(s, t)
  BY <1>1, <1>3 DEF F!IsPrefix
<1> QED
  BY <1>1, <1>2, <1>4, <1>5, <1>6 DEF t, F!ToSet

(* However many trusted proxies have added their addresses, the chain that *)
(* a backend gets begins with the address the request is logged under, and *)
(* where a client's own words are not believed, with the one it started    *)
(* from; nothing of a believed chain is lost, nothing of another is passed *)
(* on (clientIP, appendXFF).                                               *)
THEOREM ChainsAreTrue == F!Spec => []ChainIsTrue
<1>1. F!Init => Passing
  BY DEF F!Init, F!NoRequest, Passing
<1>2. Passing => F!ChainIsTrue
  <2> SUFFICES ASSUME Passing, passing.pc = "sent" PROVE F!ChainIsTrue
    BY DEF F!ChainIsTrue
  <2> DEFINE rq == passing.in
             wrote == Believed(rq)
             S == Met(rq)
             s == Chain(rq)
             a == F!ClientIP(rq)
  <2>1. /\ rq \in F!Incoming /\ passing.client = a
        /\ passing.xff = F!AddHop(F!AppendXFF(rq), rq)
    BY DEF Passing
  <2>2. /\ s \in Seq(S) /\ rq.peer \in S /\ a \in S
        /\ s # <<>> => Head(s) = a
        /\ wrote = <<>> => a = rq.origin
    BY <2>1, ChainOf
  <2>3. passing.xff = Append(Append(s, a), rq.peer)
    <3>1. <<a>> = Append(<<>>, a)
      OBVIOUS
    <3> QED
      BY <2>1, <3>1 DEF F!AddHop, F!AppendXFF, Chain
  <2>4. trust => s = F!Xff(rq)
    BY DEF Chain
  <2>5. F!ChainIsTrue <=>
          /\ Head(passing.xff) = passing.client
          /\ wrote = <<>> => passing.client = rq.origin
          /\ trust => F!IsPrefix(F!Xff(rq), passing.xff)
          /\ F!ToSet(passing.xff) \subseteq S
    BY DEF F!ChainIsTrue, Met, Believed
  <2> HIDE DEF s, S, wrote, a
  <2>6. /\ Head(passing.xff) = a /\ F!ToSet(passing.xff) \subseteq S
        /\ F!IsPrefix(s, passing.xff)
    BY <2>2, <2>3, TwoMore
  <2> QED
    BY <2>1, <2>2, <2>4, <2>5, <2>6
<1> QED
  BY <1>1, <1>2, PassingStep, PTL DEF F!Spec, ChainIsTrue
-----------------------------------------------------------------------------
(* What holds of 0, and of n + 1 if of n, holds of every number.           *)
LEMMA NumbersInduct ==
  ASSUME NEW T, 0 \in T, \A n \in Nat : n \in T => n + 1 \in T
  PROVE  \A n \in Nat : n \in T
<1> DEFINE Bad == {k \in Nat : k \notin T}
           m == Min(Bad)
<1> SUFFICES ASSUME Bad # {} PROVE FALSE
  OBVIOUS
<1>1. Bad \in SUBSET Nat
  OBVIOUS
<1>2. m \in Bad /\ \A k \in Bad : m <= k
  <2> HIDE DEF Bad
  <2> QED
    BY <1>1, MinOfNaturals
<1> HIDE DEF m
<1>3. m # 0 /\ m \in Nat
  BY <1>2
<1>4. m - 1 \in Nat /\ (m - 1) + 1 = m /\ m - 1 \notin Bad
  BY <1>2, <1>3
<1> QED
  BY <1>2, <1>4

(* What holds of the empty sequence, and of a longer one if of a shorter,  *)
(* holds of every sequence.                                                *)
LEMMA SequencesInduct ==
  ASSUME NEW S, NEW T, <<>> \in T,
         \A s \in Seq(S), e \in S : s \in T => Append(s, e) \in T
  PROVE  Seq(S) \subseteq T
<1> DEFINE N == {n \in Nat : \A s \in Seq(S) : Len(s) = n => s \in T}
<1>1. 0 \in N
  BY EmptySeq
<1>2. ASSUME NEW n \in Nat, n \in N PROVE n + 1 \in N
  <2> SUFFICES ASSUME NEW s \in Seq(S), Len(s) = n + 1 PROVE s \in T
    OBVIOUS
  <2>1. PICK t \in Seq(S), e \in S : s = Append(t, e)
    BY SequenceEmptyOrAppend, EmptySeq
  <2>2. Len(t) = n
    BY <2>1
  <2> QED
    BY <1>2, <2>1, <2>2
<1> HIDE DEF N
<1>3. \A n \in Nat : n \in N
  BY <1>1, <1>2, NumbersInduct
<1> QED
  BY <1>3 DEF N

(* What a path means is a fold over its characters.  A fold is a recursive *)
(* function, which has to be shown to exist, and its value to be the one   *)
(* that reading character by character leads to.                           *)
Step(done, c) ==
  IF c = F!Slash THEN Append(done, <<>>) ELSE [done EXCEPT ![Len(done)] = Append(@, c)]

SplitsTo(g, D, path) ==
  g = [s \in SUBSET D |-> IF s = {} THEN <<<<>>>>
                          ELSE Step(g[s \ {F!Max(s)}], path[F!Max(s)])]

Splits(g, D, path) ==
  /\ g[{}] = <<<<>>>>
  /\ \A s \in SUBSET D : s # {} => g[s] = Step(g[s \ {F!Max(s)}], path[F!Max(s)])

LEMMA SplitsAt ==
  ASSUME NEW D, NEW path, NEW g, SplitsTo(g, D, path)
  PROVE  Splits(g, D, path)
<1>1. \A s \in SUBSET D : g[s] = IF s = {} THEN <<<<>>>>
                                 ELSE Step(g[s \ {F!Max(s)}], path[F!Max(s)])
  <2> DEFINE h == [s \in SUBSET D |-> IF s = {} THEN <<<<>>>>
                                      ELSE Step(g[s \ {F!Max(s)}], path[F!Max(s)])]
  <2>1. \A s \in SUBSET D : h[s] = IF s = {} THEN <<<<>>>>
                                   ELSE Step(g[s \ {F!Max(s)}], path[F!Max(s)])
    OBVIOUS
  <2>2. g = h
    BY DEF SplitsTo
  <2> HIDE DEF h
  <2> QED
    BY <2>1, <2>2
<1> QED
  BY <1>1 DEF Splits

LEMMA MaxOfPrefix ==
  ASSUME NEW n \in Nat, NEW s \in SUBSET (1..n + 1), n + 1 \in s
  PROVE  F!Max(s) = n + 1
<1>1. \A x \in s : (\A y \in s : x >= y) <=> x = n + 1
  OBVIOUS
<1> QED
  BY <1>1 DEF F!Max

LEMMA SplitExists ==
  ASSUME NEW path, NEW n \in Nat
  PROVE  \E g : SplitsTo(g, 1..n, path)
<1> DEFINE T == {k \in Nat : \E g : SplitsTo(g, 1..k, path)}
<1>1. 0 \in T
  <2> DEFINE g == [s \in SUBSET (1..0) |-> <<<<>>>>]
  <2>1. \A s \in SUBSET (1..0) : s = {}
    OBVIOUS
  <2>2. SplitsTo(g, 1..0, path)
    BY <2>1 DEF SplitsTo
  <2> QED
    BY <2>2
<1>2. ASSUME NEW k \in Nat, k \in T PROVE k + 1 \in T
  <2>1. PICK g : SplitsTo(g, 1..k, path)
    BY <1>2
  <2> DEFINE D == 1..(k + 1)
             h == [s \in SUBSET D |-> IF k + 1 \in s THEN Step(g[s \ {k + 1}], path[k + 1])
                                      ELSE g[s]]
  <2>2. /\ g[{}] = <<<<>>>>
        /\ \A s \in SUBSET (1..k) :
             s # {} => g[s] = Step(g[s \ {F!Max(s)}], path[F!Max(s)])
    <3>1. Splits(g, 1..k, path)
      BY ONLY <2>1, SplitsAt
    <3> QED
      BY ONLY <3>1 DEF Splits
  <2>3. \A s \in SUBSET D : h[s] = IF k + 1 \in s THEN Step(g[s \ {k + 1}], path[k + 1])
                                   ELSE g[s]
    OBVIOUS
  <2>4. \A s \in SUBSET D : k + 1 \notin s => s \in SUBSET (1..k)
    OBVIOUS
  <2>5. ASSUME NEW s \in SUBSET D
        PROVE  h[s] = IF s = {} THEN <<<<>>>>
                      ELSE Step(h[s \ {F!Max(s)}], path[F!Max(s)])
    <3> HIDE DEF h
    <3>1. CASE k + 1 \in s
      <4>1. F!Max(s) = k + 1
        BY <3>1, MaxOfPrefix
      <4>2. h[s \ {k + 1}] = g[s \ {k + 1}]
        BY <2>3
      <4> QED
        BY <2>3, <3>1, <4>1, <4>2
    <3>2. CASE k + 1 \notin s /\ s # {}
      <4> DEFINE x == F!Max(s)
                 r == s \ {x}
      <4> HIDE DEF D
      <4>1. r \in SUBSET D /\ k + 1 \notin r
        BY <3>2
      <4>2. h[r] = g[r] /\ h[s] = g[s]
        BY <2>3, <3>2, <4>1
      <4>3. g[s] = Step(g[r], path[x])
        BY <2>2, <2>4, <3>2
      <4> QED
        BY <3>2, <4>2, <4>3
    <3>3. CASE s = {}
      BY <2>2, <2>3, <3>3
    <3> QED
      BY <3>1, <3>2, <3>3
  <2>6. h = [s \in SUBSET D |-> h[s]]
    OBVIOUS
  <2> HIDE DEF h, D
  <2>7. SplitsTo(h, D, path)
    BY <2>5, <2>6 DEF SplitsTo
  <2> QED
    BY <2>7 DEF D
<1> HIDE DEF T
<1>3. n \in T
  BY <1>1, <1>2, NumbersInduct
<1> QED
  BY <1>3 DEF T

LEMMA SegmentsSplit ==
  ASSUME NEW S, NEW path \in Seq(S)
  PROVE  \E g : SplitsTo(g, 1..Len(path), path) /\ F!Segments(path) = g[1..Len(path)]
<1> DEFINE it == CHOOSE it : SplitsTo(it, DOMAIN path, path)
<1>1. DOMAIN path = 1..Len(path) /\ Len(path) \in Nat
  BY LenProperties
<1>2. SplitsTo(it, DOMAIN path, path)
  BY <1>1, SplitExists
<1>3. F!Segments(path) = it[DOMAIN path]
  BY DEF SplitsTo, Step, F!Segments, F!FoldLeft, F!MapThenFoldSet
<1> HIDE DEF it
<1> QED
  BY <1>1, <1>2, <1>3

(* Up to each place, the fold has read the characters before it.           *)
LEMMA SplitsUpTo ==
  ASSUME NEW n \in Nat, NEW path, NEW g, SplitsTo(g, 1..n, path), NEW k \in 1..n
  PROVE  g[1..0] = <<<<>>>> /\ g[1..k] = Step(g[1..(k - 1)], path[k])
<1>1. Splits(g, 1..n, path)
  BY ONLY SplitsTo(g, 1..n, path), SplitsAt
<1>2. 1..0 = {} /\ 1..k \in SUBSET (1..n) /\ 1..k # {} /\ (1..k) \ {k} = 1..(k - 1)
  OBVIOUS
<1>3. F!Max(1..k) = k
  <2>1. \A x \in 1..k : (\A y \in 1..k : x >= y) <=> x = k
    OBVIOUS
  <2> QED
    BY <2>1 DEF F!Max
<1> QED
  BY <1>1, <1>2, <1>3 DEF Splits

LEMMA SegmentsOfEmpty == F!Segments(<<>>) = <<<<>>>>
<1>1. <<>> \in Seq({}) /\ Len(<<>>) = 0
  BY EmptySeq
<1>2. PICK g : SplitsTo(g, 1..0, <<>>) /\ F!Segments(<<>>) = g[1..0]
  BY <1>1, SegmentsSplit
<1>3. Splits(g, 1..0, <<>>)
  BY ONLY <1>2, SplitsAt
<1>4. 1..0 = {}
  OBVIOUS
<1> QED
  BY <1>2, <1>3, <1>4 DEF Splits

LEMMA SegmentsOfAppend ==
  ASSUME NEW S, NEW s \in Seq(S), NEW c \in S
  PROVE  F!Segments(Append(s, c)) = Step(F!Segments(s), c)
<1> DEFINE n == Len(s)
           t == Append(s, c)
<1>1. /\ n \in Nat /\ t \in Seq(S) /\ Len(t) = n + 1 /\ t[n + 1] = c
      /\ \A i \in 1..n : t[i] = s[i]
  BY LenProperties, AppendProperties
<1>2. PICK g : SplitsTo(g, 1..n, s) /\ F!Segments(s) = g[1..n]
  BY SegmentsSplit
<1> HIDE DEF n, t
<1>3. PICK h : SplitsTo(h, 1..(n + 1), t) /\ F!Segments(t) = h[1..(n + 1)]
  <2>1. \E h : SplitsTo(h, 1..Len(t), t) /\ F!Segments(t) = h[1..Len(t)]
    BY ONLY <1>1, SegmentsSplit
  <2> QED
    BY <1>1, <2>1
<1>4. \A k \in 1..n : g[1..k] = Step(g[1..(k - 1)], s[k])
  BY <1>1, <1>2, SplitsUpTo
<1>5. n + 1 \in Nat /\ h[1..0] = <<<<>>>> /\ \A k \in 1..(n + 1) : h[1..k] = Step(h[1..(k - 1)], t[k])
  <2>1. n + 1 \in Nat /\ n + 1 \in 1..(n + 1)
    BY <1>1
  <2>2. \A k \in 1..(n + 1) : h[1..0] = <<<<>>>> /\ h[1..k] = Step(h[1..(k - 1)], t[k])
    BY <1>3, <2>1, SplitsUpTo
  <2> QED
    BY <2>1, <2>2
<1>6. g[1..0] = <<<<>>>>
  <2>1. Splits(g, 1..n, s)
    BY ONLY <1>2, SplitsAt
  <2>2. 1..0 = {}
    OBVIOUS
  <2> QED
    BY <2>1, <2>2 DEF Splits
<1> DEFINE T == {k \in Nat : k <= n => g[1..k] = h[1..k]}
<1>7. 0 \in T
  BY <1>5, <1>6
<1>8. ASSUME NEW k \in Nat, k \in T PROVE k + 1 \in T
  <2> SUFFICES ASSUME k + 1 <= n PROVE g[1..(k + 1)] = h[1..(k + 1)]
    OBVIOUS
  <2>1. k + 1 \in 1..n /\ k + 1 \in 1..(n + 1) /\ (k + 1) - 1 = k /\ k <= n
    BY <1>1
  <2>2. g[1..(k + 1)] = Step(g[1..k], s[k + 1])
    BY ONLY <1>4, <2>1
  <2>3. h[1..(k + 1)] = Step(h[1..k], t[k + 1])
    BY ONLY <1>5, <2>1
  <2>4. s[k + 1] = t[k + 1]
    BY ONLY <1>1, <2>1
  <2>5. g[1..k] = h[1..k]
    BY <1>8, <2>1
  <2> QED
    BY ONLY <2>2, <2>3, <2>4, <2>5
<1>9. g[1..n] = h[1..n]
  <2> HIDE DEF T
  <2>1. \A k \in Nat : k \in T
    BY ONLY <1>7, <1>8, NumbersInduct
  <2> QED
    BY <1>1, <2>1 DEF T
<1>10. h[1..(n + 1)] = Step(h[1..n], c)
  <2>1. n + 1 \in 1..(n + 1) /\ (n + 1) - 1 = n
    BY <1>1
  <2>2. h[1..(n + 1)] = Step(h[1..n], t[n + 1])
    BY ONLY <1>5, <2>1
  <2> QED
    BY ONLY <1>1, <2>2
<1>11. F!Segments(t) = Step(F!Segments(s), c)
  BY ONLY <1>2, <1>3, <1>9, <1>10
<1> QED
  BY <1>11 DEF t

(* One more character: the segments but for the last stay, and a slash     *)
(* makes them one more.                                                    *)
Stepped(a, d, c, S) ==
  /\ a \in Seq(Seq(S)) /\ a # <<>>
  /\ c = F!Slash => a = Append(d, <<>>) /\ Len(a) = Len(d) + 1
  /\ c # F!Slash => /\ Len(a) = Len(d) /\ a[Len(d)] = Append(d[Len(d)], c)
                    /\ \A i \in 1..Len(d) : i # Len(d) => a[i] = d[i]

LEMMA StepIs ==
  ASSUME NEW S, NEW d \in Seq(Seq(S)), d # <<>>, NEW c \in S
  PROVE  Stepped(Step(d, c), d, c, S)
<1> DEFINE n == Len(d)
<1>1. n \in Nat /\ n \in 1..n /\ n # 0 /\ <<>> \in Seq(S)
  BY EmptySeq
<1>2. d[n] \in Seq(S)
  BY <1>1, ElementOfSeq
<1>3. CASE c = F!Slash
  <2>1. Step(d, c) = Append(d, <<>>)
    BY <1>3 DEF Step
  <2>2. /\ Append(d, <<>>) \in Seq(Seq(S)) /\ Append(d, <<>>) # <<>>
        /\ Len(Append(d, <<>>)) = Len(d) + 1
    BY <1>1, AppendProperties
  <2> QED
    BY ONLY <1>3, <2>1, <2>2 DEF Stepped
<1>4. CASE c # F!Slash
  <2> DEFINE e == Append(d[n], c)
             r == [d EXCEPT ![n] = e]
  <2>1. e \in Seq(S)
    BY <1>2
  <2>2. Step(d, c) = r
    BY <1>4 DEF Step
  <2> HIDE DEF e, n
  <2>3. r \in Seq(Seq(S)) /\ Len(r) = Len(d) /\ \A j \in 1..Len(d) : r[j] = IF j = n THEN e ELSE d[j]
    BY ONLY <1>1, <2>1, d \in Seq(Seq(S)), ExceptSeq DEF n
  <2> HIDE DEF r
  <2>4. r # <<>>
    BY ONLY <1>1, <2>3, EmptySeq DEF n
  <2>5. /\ Len(r) = Len(d) /\ r[Len(d)] = e
        /\ \A i \in 1..Len(d) : i # Len(d) => r[i] = d[i]
    BY ONLY <1>1, <2>3 DEF n
  <2> QED
    BY ONLY <1>4, <2>2, <2>3, <2>4, <2>5 DEF e, n, Stepped
<1> QED
  BY <1>3, <1>4

LEMMA SegmentsType ==
  ASSUME NEW S, NEW path \in Seq(S)
  PROVE  F!Segments(path) \in Seq(Seq(S)) /\ F!Segments(path) # <<>>
<1> DEFINE T == {s \in Seq(S) : F!Segments(s) \in Seq(Seq(S)) /\ F!Segments(s) # <<>>}
<1>1. <<>> \in T
  <2>1. <<>> \in Seq(S)
    BY EmptySeq
  <2>2. <<<<>>>> \in Seq(Seq(S)) /\ <<<<>>>> # <<>>
    BY <2>1
  <2> QED
    BY <2>1, <2>2, SegmentsOfEmpty
<1>2. ASSUME NEW s \in Seq(S), NEW c \in S, s \in T PROVE Append(s, c) \in T
  <2>1. F!Segments(Append(s, c)) = Step(F!Segments(s), c)
    BY SegmentsOfAppend
  <2>2. Step(F!Segments(s), c) \in Seq(Seq(S)) /\ Step(F!Segments(s), c) # <<>>
    <3>1. Stepped(Step(F!Segments(s), c), F!Segments(s), c, S)
      BY <1>2, StepIs
    <3> QED
      BY ONLY <3>1 DEF Stepped
  <2> QED
    BY <2>1, <2>2
<1> HIDE DEF T
<1>3. Seq(S) \subseteq T
  BY ONLY <1>1, <1>2, SequencesInduct
<1> QED
  BY <1>3 DEF T

LEMMA AppendAfter ==
  ASSUME NEW S, NEW s \in Seq(S), NEW t \in Seq(S), NEW c \in S
  PROVE  s \o Append(t, c) = Append(s \o t, c)
<1>1. <<c>> \in Seq(S) /\ s \o t \in Seq(S)
  BY ConcatProperties
<1>2. Append(t, c) = t \o <<c>>
  BY ONLY AppendIsConcat, t \in Seq(S), c \in S
<1>3. Append(s \o t, c) = (s \o t) \o <<c>>
  BY ONLY AppendIsConcat, <1>1, c \in S
<1>4. (s \o t) \o <<c>> = s \o (t \o <<c>>)
  BY ONLY ConcatAssociative, <1>1, s \in Seq(S), t \in Seq(S)
<1> QED
  BY ONLY <1>2, <1>3, <1>4

LEMMA StepAfter ==
  ASSUME NEW S, NEW s \in Seq(Seq(S)), NEW t \in Seq(Seq(S)), t # <<>>, NEW c \in S
  PROVE  Step(s \o t, c) = s \o Step(t, c)
<1>1. /\ s \o t \in Seq(Seq(S)) /\ Len(s \o t) = Len(s) + Len(t)
      /\ \A i \in 1..Len(s) + Len(t) : (s \o t)[i] = IF i <= Len(s) THEN s[i] ELSE t[i - Len(s)]
  BY ConcatProperties
<1>2. Len(s) \in Nat /\ Len(t) \in Nat /\ Len(t) # 0
  BY EmptySeq, LenProperties
<1>3. s \o t # <<>>
  BY ONLY <1>1, <1>2, EmptySeq
<1>4. CASE c = F!Slash
  <2>1. Step(s \o t, c) = Append(s \o t, <<>>) /\ Step(t, c) = Append(t, <<>>)
    BY <1>4 DEF Step
  <2>2. <<>> \in Seq(S)
    BY EmptySeq
  <2>3. s \o Append(t, <<>>) = Append(s \o t, <<>>)
    BY ONLY <2>2, AppendAfter, s \in Seq(Seq(S)), t \in Seq(Seq(S))
  <2> QED
    BY <2>1, <2>3
<1>5. CASE c # F!Slash
  <2> DEFINE u == s \o t
             a == Step(u, c)
             e == Step(t, c)
             b == s \o e
             m == Len(s)
             n == Len(t)
  <2>1. /\ m \in Nat /\ n \in Nat /\ n # 0
        /\ u \in Seq(Seq(S)) /\ u # <<>> /\ Len(u) = m + n
        /\ \A i \in 1..(m + n) : u[i] = IF i <= m THEN s[i] ELSE t[i - m]
    BY <1>1, <1>2, <1>3
  <2> HIDE DEF u
  <2>2. /\ a \in Seq(Seq(S)) /\ Len(a) = m + n
        /\ a[m + n] = Append(u[m + n], c)
        /\ \A i \in 1..(m + n) : i # m + n => a[i] = u[i]
    <3>1. Stepped(a, u, c, S)
      BY ONLY <2>1, StepIs, c \in S
    <3> HIDE DEF a, m, n
    <3> QED
      BY ONLY <1>5, <2>1, <3>1 DEF Stepped
  <2>3. /\ e \in Seq(Seq(S)) /\ Len(e) = n /\ e[n] = Append(t[n], c)
        /\ \A i \in 1..n : i # n => e[i] = t[i]
    <3>1. Stepped(e, t, c, S)
      BY ONLY StepIs, c \in S, t \in Seq(Seq(S)), t # <<>>
    <3> HIDE DEF e
    <3> QED
      BY ONLY <1>5, <3>1 DEF Stepped
  <2> HIDE DEF a, e
  <2>4. /\ b \in Seq(Seq(S)) /\ Len(b) = m + n
        /\ \A i \in 1..(m + n) : b[i] = IF i <= m THEN s[i] ELSE e[i - m]
    <3>1. /\ b \in Seq(Seq(S)) /\ Len(b) = Len(s) + Len(e)
          /\ \A i \in 1..Len(s) + Len(e) : b[i] = IF i <= Len(s) THEN s[i] ELSE e[i - Len(s)]
      <4>1. e \in Seq(Seq(S)) /\ s \in Seq(Seq(S))
        BY <2>3
      <4> QED
        BY ONLY <4>1, ConcatProperties
    <3>2. Len(e) = n /\ Len(s) = m
      BY <2>3
    <3> HIDE DEF b, m, n
    <3> QED
      BY ONLY <3>1, <3>2
  <2> HIDE DEF b, m, n
  <2>5. ASSUME NEW i \in 1..Len(a) PROVE a[i] = b[i]
    <3>0. i \in 1..(m + n) /\ i \in Int
      BY ONLY <2>1, <2>2, i \in 1..Len(a)
    <3>4. m \in Nat /\ n \in Nat /\ n # 0
      BY ONLY <2>1
    <3>1. CASE i <= m
      <4>1. i # m + n
        BY ONLY <3>0, <3>4, <3>1
      <4> QED
        BY ONLY <2>1, <2>2, <2>4, <3>0, <3>1, <4>1
    <3>2. CASE i > m /\ i # m + n
      <4>1. i - m \in 1..n /\ i - m # n /\ ~(i <= m)
        BY ONLY <3>0, <3>4, <3>2
      <4>2. a[i] = t[i - m]
        BY ONLY <2>1, <2>2, <3>0, <3>2, <4>1
      <4>3. b[i] = t[i - m]
        BY ONLY <2>3, <2>4, <3>0, <4>1
      <4> QED
        BY ONLY <4>2, <4>3
    <3>3. CASE i = m + n
      <4>1. i - m = n /\ ~(i <= m)
        BY ONLY <3>0, <3>4, <3>3
      <4> QED
        BY ONLY <2>1, <2>2, <2>3, <2>4, <3>0, <3>3, <4>1
    <3> QED
      BY ONLY <3>0, <3>4, <3>1, <3>2, <3>3
  <2>6. a = b
    BY ONLY <2>2, <2>4, <2>5, SeqEqual
  <2> QED
    BY ONLY <2>6 DEF a, b, e, u
<1> QED
  BY <1>4, <1>5

(* A slash between two paths separates their segments.                     *)
LEMMA SegmentsOfBoth ==
  ASSUME NEW S, F!Slash \in S, NEW s \in Seq(S), NEW t \in Seq(S)
  PROVE  F!Segments(Append(s, F!Slash) \o t) = F!Segments(s) \o F!Segments(t)
<1> DEFINE s1 == Append(s, F!Slash)
           T == {u \in Seq(S) : F!Segments(s1 \o u) = F!Segments(s) \o F!Segments(u)}
<1>1. s1 \in Seq(S)
  BY AppendProperties
<1>2. F!Segments(s1) = Append(F!Segments(s), <<>>)
  <2>1. F!Segments(s1) = Step(F!Segments(s), F!Slash)
    BY SegmentsOfAppend
  <2> QED
    BY <2>1 DEF Step
<1>3. F!Segments(s) \in Seq(Seq(S)) /\ <<>> \in Seq(S)
  BY SegmentsType, EmptySeq
<1> HIDE DEF s1
<1>4. <<>> \in T
  <2>1. s1 \o <<>> = s1
    BY ONLY <1>1, ConcatEmptySeq
  <2>2. Append(F!Segments(s), <<>>) = F!Segments(s) \o <<<<>>>>
    BY ONLY <1>3, AppendIsConcat
  <2> QED
    BY <1>2, <1>3, <2>1, <2>2, SegmentsOfEmpty
<1>5. ASSUME NEW u \in Seq(S), NEW c \in S, u \in T PROVE Append(u, c) \in T
  <2>1. s1 \o Append(u, c) = Append(s1 \o u, c) /\ s1 \o u \in Seq(S)
    BY ONLY <1>1, AppendAfter, ConcatProperties, u \in Seq(S), c \in S
  <2>2. F!Segments(Append(s1 \o u, c)) = Step(F!Segments(s1 \o u), c)
    BY ONLY <2>1, SegmentsOfAppend, c \in S
  <2>3. F!Segments(Append(u, c)) = Step(F!Segments(u), c)
    BY ONLY SegmentsOfAppend, c \in S, u \in Seq(S)
  <2>4. F!Segments(u) \in Seq(Seq(S)) /\ F!Segments(u) # <<>>
    BY ONLY SegmentsType, u \in Seq(S)
  <2>5. Step(F!Segments(s) \o F!Segments(u), c) = F!Segments(s) \o Step(F!Segments(u), c)
    BY ONLY <1>3, <2>4, StepAfter, c \in S
  <2>6. F!Segments(s1 \o u) = F!Segments(s) \o F!Segments(u)
    BY <1>5
  <2>7. Append(u, c) \in Seq(S)
    OBVIOUS
  <2> QED
    BY <2>1, <2>2, <2>3, <2>5, <2>6, <2>7
<1> HIDE DEF T
<1>6. Seq(S) \subseteq T
  BY ONLY <1>4, <1>5, SequencesInduct
<1> QED
  BY <1>6 DEF T, s1

(* By its last segment a path ends in a slash, or is empty, or does not.   *)
EndsWith(d, e, c) ==
  /\ Len(d) \in Nat /\ Len(e) \in Nat \ {0}
  /\ c = F!Slash => d = Append(e, <<>>) /\ Len(d) = Len(e) + 1 /\ d[Len(d)] = <<>>
  /\ c # F!Slash => Len(d) = Len(e) /\ d[Len(d)] # <<>>

LEMMA LastSegment ==
  ASSUME NEW S, NEW s \in Seq(S), NEW c \in S
  PROVE  EndsWith(F!Segments(Append(s, c)), F!Segments(s), c)
<1> DEFINE d == F!Segments(Append(s, c))
           e == F!Segments(s)
<1>1. e \in Seq(Seq(S)) /\ e # <<>>
  BY SegmentsType
<1>2. d = Step(e, c)
  BY SegmentsOfAppend
<1> HIDE DEF d, e
<1>3. Stepped(d, e, c, S) /\ d \in Seq(Seq(S)) /\ d # <<>>
  <2>1. Stepped(d, e, c, S)
    BY ONLY <1>1, <1>2, StepIs, c \in S
  <2> QED
    BY ONLY <2>1 DEF Stepped
<1>4. Len(d) \in Nat /\ Len(e) \in Nat \ {0}
  BY ONLY <1>1, <1>3, EmptySeq, LenProperties
<1>5. <<>> \in Seq(S)
  BY ONLY EmptySeq
<1>6. ASSUME c = F!Slash PROVE d = Append(e, <<>>) /\ Len(d) = Len(e) + 1 /\ d[Len(d)] = <<>>
  <2>1. d = Append(e, <<>>) /\ Len(d) = Len(e) + 1
    BY ONLY <1>3, <1>6 DEF Stepped
  <2>2. Append(e, <<>>)[Len(e) + 1] = <<>>
    BY ONLY <1>1, <1>5, AppendProperties
  <2> QED
    BY ONLY <2>1, <2>2
<1>7. ASSUME c # F!Slash PROVE Len(d) = Len(e) /\ d[Len(d)] # <<>>
  <2>1. Len(d) = Len(e) /\ d[Len(e)] = Append(e[Len(e)], c)
    BY ONLY <1>3, <1>7 DEF Stepped
  <2>2. e[Len(e)] \in Seq(S)
    BY ONLY <1>1, <1>4, ElementOfSeq, Len(e) \in 1..Len(e)
  <2>3. Append(e[Len(e)], c) # <<>>
    BY ONLY <2>2, AppendProperties, c \in S
  <2> QED
    BY ONLY <2>1, <2>3
<1> QED
  BY ONLY <1>4, <1>6, <1>7 DEF d, e, EndsWith

(* What follows a prefix, and a prefix as what something follows.          *)
LEMMA RestAfter ==
  ASSUME NEW S, NEW s \in Seq(S), NEW u \in Seq(S)
  PROVE  SubSeq(s \o u, Len(s) + 1, Len(s \o u)) = u
<1> DEFINE m == Len(s)
           n == Len(u)
<1>1. m \in Nat /\ n \in Nat /\ Len(s \o u) = m + n
  BY LenProperties, ConcatProperties
<1>2. CASE u = <<>>
  <2>1. n = 0
    BY <1>2, EmptySeq
  <2>2. m + 1 \in Int /\ m + n \in Int /\ m + n < m + 1
    BY <1>1, <2>1
  <2>3. SubSeq(s \o u, m + 1, m + n) = <<>>
    BY ONLY <2>2, SubSeqEmpty
  <2> QED
    BY <1>1, <1>2, <2>3
<1>3. CASE u # <<>>
  <2>1. n # 0
    BY ONLY <1>3, EmptySeq, u \in Seq(S)
  <2>2. m + 1 \in (m + 1)..(m + n) /\ m + n \in (m + 1)..(m + n)
        /\ (m + 1) - m = 1 /\ (m + n) - m = n
    BY <1>1, <2>1
  <2>3. SubSeq(s \o u, m + 1, m + n) = SubSeq(u, (m + 1) - m, (m + n) - m)
    BY ONLY <2>2, SubSeqOfConcat2, s \in Seq(S), u \in Seq(S)
  <2>4. SubSeq(u, 1, n) = u
    BY ONLY SubSeqFull, u \in Seq(S)
  <2> HIDE DEF m, n
  <2>5. SubSeq(s \o u, m + 1, m + n) = u
    BY ONLY <2>2, <2>3, <2>4
  <2> QED
    BY ONLY <1>1, <2>5 DEF m
<1> QED
  BY <1>2, <1>3

LEMMA PrefixIs ==
  ASSUME NEW S, NEW s \in Seq(S), NEW t \in Seq(S)
  PROVE  F!IsPrefix(s, t) <=> \E u \in Seq(S) : t = s \o u
<1> DEFINE m == Len(s)
           n == Len(t)
<1>1. m \in Nat /\ n \in Nat /\ SubSeq(s, 1, m) = s /\ SubSeq(t, 1, n) = t
  BY LenProperties, SubSeqFull
<1>2. ASSUME F!IsPrefix(s, t) PROVE \E u \in Seq(S) : t = s \o u
  <2>1. m <= n /\ SubSeq(t, 1, m) = s
    BY <1>1, <1>2 DEF F!IsPrefix
  <2> DEFINE u == SubSeq(t, m + 1, n)
  <2>2. SubSeq(t, 1, m) \o u = SubSeq(t, 1, n)
    <3>1. 1 \in 1..n + 1 /\ m \in (1 - 1)..n /\ n \in m..n
      BY <1>1, <2>1
    <3> QED
      BY ONLY <3>1, ConcatAdjacentSubSeq, t \in Seq(S)
  <2>3. u \in Seq(S)
    <3>1. m + 1 \in Int /\ n \in Int /\ \A i \in (m + 1)..n : t[i] \in S
      BY <1>1, ElementOfSeq
    <3> QED
      BY ONLY <3>1, SubSeqProperties
  <2> HIDE DEF u, m, n
  <2> QED
    BY <1>1, <2>1, <2>2, <2>3
<1>3. ASSUME NEW u \in Seq(S), t = s \o u PROVE F!IsPrefix(s, t)
  <2>1. n = m + Len(u) /\ Len(u) \in Nat
    BY <1>3, ConcatProperties, LenProperties
  <2>2. SubSeq(t, 1, m) = s
    <3>1. CASE m = 0
      <4>1. SubSeq(t, 1, m) = <<>> /\ SubSeq(s, 1, m) = <<>>
        BY <3>1, SubSeqEmpty
      <4> QED
        BY <1>1, <4>1
    <3>2. CASE m # 0
      <4>1. 1 \in 1..m /\ m \in 1..m
        BY <1>1, <3>2
      <4>2. SubSeq(s \o u, 1, m) = SubSeq(s, 1, m)
        BY ONLY <4>1, SubSeqOfConcat1, s \in Seq(S), u \in Seq(S)
      <4> QED
        BY <1>1, <1>3, <4>2
    <3> QED
      BY <3>1, <3>2
  <2> QED
    BY <1>1, <2>1, <2>2 DEF F!IsPrefix
<1> QED
  BY <1>2, <1>3

(* A character that is no slash goes to the end of the last segment.       *)
LEMMA StepOfAppend ==
  ASSUME NEW S, NEW f \in Seq(Seq(S)), NEW y \in Seq(S), NEW c \in S, c # F!Slash
  PROVE  Step(Append(f, y), c) = Append(f, Append(y, c))
<1> DEFINE d == Append(f, y)
           z == Append(y, c)
           a == Step(d, c)
           b == Append(f, z)
           n == Len(f) + 1
<1>1. z \in Seq(S) /\ Len(f) \in Nat /\ n \in Nat
  BY LenProperties
<1>2. d \in Seq(Seq(S)) /\ d # <<>> /\ Len(d) = n /\ (\A i \in 1..Len(f) : d[i] = f[i]) /\ d[n] = y
  BY AppendProperties
<1>3. b \in Seq(Seq(S)) /\ Len(b) = n /\ (\A i \in 1..Len(f) : b[i] = f[i]) /\ b[n] = z
  BY ONLY <1>1, AppendProperties, f \in Seq(Seq(S))
<1> HIDE DEF b, d
<1>4. /\ a \in Seq(Seq(S)) /\ Len(a) = Len(d) /\ a[Len(d)] = Append(d[Len(d)], c)
      /\ \A i \in 1..Len(d) : i # Len(d) => a[i] = d[i]
  <2>1. Stepped(a, d, c, S)
    BY ONLY <1>2, StepIs, c \in S
  <2> HIDE DEF a
  <2> QED
    BY ONLY <2>1, c # F!Slash DEF Stepped
<1> HIDE DEF a
<1>5. /\ a \in Seq(Seq(S)) /\ Len(a) = n /\ a[n] = z /\ \A i \in 1..n : i # n => a[i] = d[i]
  BY ONLY <1>2, <1>4
<1>6. ASSUME NEW i \in 1..Len(a) PROVE a[i] = b[i]
  <2>1. i = n \/ (i \in 1..n /\ i \in 1..Len(f) /\ i # n)
    BY ONLY <1>1, <1>5, i \in 1..Len(a)
  <2> HIDE DEF n, z
  <2> QED
    BY ONLY <1>2, <1>3, <1>5, <2>1
<1>7. Len(a) = Len(b)
  BY ONLY <1>3, <1>5
<1>8. a = b
  BY ONLY <1>3, <1>5, <1>6, <1>7, SeqEqual
<1> QED
  BY ONLY <1>8 DEF a, b, d

(* The parts of a path with its last character, told by their segments.    *)
LEMMA MoreThanEmpty ==
  ASSUME NEW S, NEW s \in Seq(S), NEW c \in S
  PROVE  F!Segments(Append(s, c)) # <<<<>>>>
<1> DEFINE d == F!Segments(Append(s, c))
<1>2. EndsWith(d, F!Segments(s), c)
  BY ONLY LastSegment, s \in Seq(S), c \in S
<1> HIDE DEF d
<1>3. ASSUME d = <<<<>>>> PROVE FALSE
  <2>1. Len(d) = 1 /\ d[1] = <<>>
    BY ONLY <1>3
  <2> QED
    BY ONLY <1>2, <2>1 DEF EndsWith
<1> QED
  BY <1>3 DEF d

LEMMA SegmentsTell ==
  ASSUME NEW S, NEW p \in Seq(S), NEW q \in Seq(S), F!Segments(p) = F!Segments(q)
  PROVE  p = q
<1> DEFINE T == {v \in Seq(S) : \A u \in Seq(S) : F!Segments(u) = F!Segments(v) => u = v}
<1>1. <<>> \in T
  <2> SUFFICES ASSUME NEW u \in Seq(S), F!Segments(u) = <<<<>>>>, u # <<>> PROVE FALSE
    BY SegmentsOfEmpty, EmptySeq
  <2>1. PICK s \in Seq(S), c \in S : u = Append(s, c)
    BY SequenceEmptyOrAppend
  <2> QED
    BY <2>1, MoreThanEmpty
<1>2. ASSUME NEW v \in Seq(S), NEW c \in S, v \in T PROVE Append(v, c) \in T
  <2> SUFFICES ASSUME NEW u \in Seq(S), F!Segments(u) = F!Segments(Append(v, c))
               PROVE  u = Append(v, c)
    OBVIOUS
  <2>1. u # <<>>
    BY SegmentsOfEmpty, MoreThanEmpty
  <2>2. PICK s \in Seq(S), d \in S : u = Append(s, d)
    BY <2>1, SequenceEmptyOrAppend
  <2> DEFINE e == F!Segments(v)
             g == F!Segments(s)
             w == F!Segments(u)
  <2>3. /\ w = Step(e, c) /\ w = Step(g, d)
        /\ e \in Seq(Seq(S)) /\ e # <<>> /\ g \in Seq(Seq(S)) /\ g # <<>>
    BY <2>2, SegmentsOfAppend, SegmentsType
  <2>4. /\ c = F!Slash => w[Len(w)] = <<>>
        /\ c # F!Slash => w[Len(w)] # <<>>
    <3>1. EndsWith(F!Segments(Append(v, c)), F!Segments(v), c)
      BY ONLY LastSegment, v \in Seq(S), c \in S
    <3>2. w = F!Segments(Append(v, c))
      OBVIOUS
    <3> QED
      BY ONLY <3>1, <3>2 DEF EndsWith
  <2>5. /\ d = F!Slash => w[Len(w)] = <<>>
        /\ d # F!Slash => w[Len(w)] # <<>>
    <3>1. EndsWith(F!Segments(Append(s, d)), F!Segments(s), d)
      BY ONLY LastSegment, s \in Seq(S), d \in S
    <3>2. w = F!Segments(Append(s, d))
      BY <2>2
    <3> QED
      BY ONLY <3>1, <3>2 DEF EndsWith
  <2>6. e = g => v = s
    BY <1>2
  <2> HIDE DEF e, g, w
  <2>7. c = F!Slash <=> d = F!Slash
    BY ONLY <2>4, <2>5
  <2>8. <<>> \in Seq(S)
    BY ONLY EmptySeq
  <2>9. CASE c = F!Slash
    <3>1. Append(e, <<>>) = Append(g, <<>>)
      BY ONLY <2>3, <2>7, <2>9 DEF Step
    <3>2. e = g
      BY ONLY <2>3, <2>8, <3>1, AppendInjective
    <3> QED
      BY ONLY <2>2, <2>6, <2>7, <2>9, <3>2
  <2>10. CASE c # F!Slash
    <3>1. PICK f \in Seq(Seq(S)), y \in Seq(S) : e = Append(f, y)
      BY ONLY <2>3, SequenceEmptyOrAppend
    <3>2. PICK h \in Seq(Seq(S)), z \in Seq(S) : g = Append(h, z)
      BY ONLY <2>3, SequenceEmptyOrAppend
    <3>3. w = Append(f, Append(y, c))
      <4>1. Step(Append(f, y), c) = Append(f, Append(y, c))
        BY ONLY <2>10, StepOfAppend, c \in S, f \in Seq(Seq(S)), y \in Seq(S)
      <4> QED
        BY ONLY <2>3, <3>1, <4>1
    <3>4. w = Append(h, Append(z, d))
      <4>1. Step(Append(h, z), d) = Append(h, Append(z, d))
        BY ONLY <2>7, <2>10, StepOfAppend, d \in S, h \in Seq(Seq(S)), z \in Seq(S)
      <4> QED
        BY ONLY <2>3, <3>2, <4>1
    <3>5. Append(y, c) \in Seq(S) /\ Append(z, d) \in Seq(S)
      OBVIOUS
    <3>6. f = h /\ Append(y, c) = Append(z, d)
      <4>1. Append(f, Append(y, c)) = Append(h, Append(z, d))
        BY ONLY <3>3, <3>4
      <4> QED
        BY ONLY <3>5, <4>1, AppendInjective, f \in Seq(Seq(S)), h \in Seq(Seq(S))
    <3>7. y = z /\ c = d
      BY ONLY <3>6, AppendInjective, c \in S, d \in S, y \in Seq(S), z \in Seq(S)
    <3> QED
      BY ONLY <2>2, <2>6, <3>1, <3>2, <3>6, <3>7
  <2> QED
    BY <2>9, <2>10
<1> HIDE DEF T
<1>3. Seq(S) \subseteq T
  BY ONLY <1>1, <1>2, SequencesInduct
<1> QED
  BY <1>3 DEF T

Longer(s, t, c, S) ==
  /\ s \o Append(t, c) = Append(s \o t, c)
  /\ Append(t, c) \in Seq(S) /\ Append(t, c) # <<>>

LEMMA LongerIs ==
  ASSUME NEW S, NEW s \in Seq(S), NEW t \in Seq(S), NEW c \in S
  PROVE  Longer(s, t, c, S)
<1>1. s \o Append(t, c) = Append(s \o t, c)
  BY AppendAfter
<1>2. Append(t, c) \in Seq(S) /\ Append(t, c) # <<>>
  BY AppendProperties
<1> QED
  BY ONLY <1>1, <1>2 DEF Longer

IsBelow(q, p, S) == \E t \in Seq(S) : q = Append(p, F!Slash) \o t

(* A path whose segments go on after those of another has a slash there.   *)
LEMMA SegmentsGoOn ==
  ASSUME NEW S, F!Slash \in S, NEW p \in Seq(S), NEW q \in Seq(S),
         NEW w \in Seq(Seq(S)), w # <<>>, F!Segments(q) = F!Segments(p) \o w
  PROVE  IsBelow(q, p, S)
<1> DEFINE P == F!Segments(p)
           p1 == Append(p, F!Slash)
           T == {v \in Seq(S) : \A x \in Seq(Seq(S)) :
                   x # <<>> /\ F!Segments(v) = P \o x => \E t \in Seq(S) : v = p1 \o t}
<1>1. P \in Seq(Seq(S)) /\ P # <<>> /\ p1 \in Seq(S) /\ <<>> \in Seq(S)
  BY SegmentsType, AppendProperties, EmptySeq
<1>2. \A v \in Seq(S) : F!Segments(v) = P => v = p
  BY SegmentsTell
<1> HIDE DEF P, p1
<1>3. <<>> \in T
  <2> SUFFICES ASSUME NEW x \in Seq(Seq(S)), x # <<>>, <<<<>>>> = P \o x PROVE FALSE
    BY <1>1, SegmentsOfEmpty
  <2>1. Len(<<<<>>>>) = 1 /\ Len(P) \in Nat \ {0} /\ Len(x) \in Nat \ {0}
    BY ONLY <1>1, EmptySeq, x \in Seq(Seq(S)), x # <<>>
  <2>2. Len(P \o x) = Len(P) + Len(x)
    BY ONLY <1>1, ConcatProperties, x \in Seq(Seq(S))
  <2> QED
    BY <2>1, <2>2
<1>4. ASSUME NEW v \in Seq(S), NEW c \in S, v \in T PROVE Append(v, c) \in T
  <2> SUFFICES ASSUME NEW x \in Seq(Seq(S)), x # <<>>, F!Segments(Append(v, c)) = P \o x
               PROVE  \E t \in Seq(S) : Append(v, c) = p1 \o t
    <3>1. Append(v, c) \in Seq(S)
      BY AppendProperties
    <3> QED
      BY <3>1
  <2> DEFINE V == F!Segments(v)
  <2>1. V \in Seq(Seq(S)) /\ V # <<>> /\ Step(V, c) = P \o x
    BY SegmentsType, SegmentsOfAppend
  <2>2. PICK y \in Seq(Seq(S)), z \in Seq(S) : x = Append(y, z)
    BY ONLY SequenceEmptyOrAppend, x \in Seq(Seq(S)), x # <<>>
  <2> DEFINE y1 == P \o y
  <2>3. P \o x = Append(y1, z) /\ y1 \in Seq(Seq(S)) /\ z \in Seq(S)
    <3>1. Longer(P, y, z, Seq(S))
      BY ONLY <1>1, LongerIs, y \in Seq(Seq(S)), z \in Seq(S)
    <3>2. y1 \in Seq(Seq(S))
      BY ONLY <1>1, ConcatProperties, y \in Seq(Seq(S))
    <3> QED
      BY ONLY <2>2, <3>1, <3>2, z \in Seq(S) DEF Longer
  <2>4. ASSUME NEW u \in Seq(Seq(S)), u # <<>>, V = P \o u
        PROVE  \E t \in Seq(S) : Append(v, c) = p1 \o t
    <3>1. PICK t \in Seq(S) : v = p1 \o t
      <4>1. \A u1 \in Seq(Seq(S)) : u1 # <<>> /\ F!Segments(v) = P \o u1 =>
                                      \E t \in Seq(S) : v = p1 \o t
        BY <1>4
      <4> QED
        BY <2>4, <4>1
    <3>2. Longer(p1, t, c, S)
      BY ONLY <1>1, LongerIs, t \in Seq(S), c \in S
    <3>3. p1 \o Append(t, c) = Append(p1 \o t, c) /\ Append(t, c) \in Seq(S)
      BY ONLY <3>2 DEF Longer
    <3> QED
      BY <3>1, <3>3
  <2>5. V = P => v = p
    BY <1>2
  <2> HIDE DEF V
  <2>6. CASE c = F!Slash
    <3>1. Append(V, <<>>) = Append(y1, z)
      BY ONLY <2>1, <2>3, <2>6 DEF Step
    <3>2. V = y1
      <4> HIDE DEF y1
      <4>1. V \in Seq(Seq(S)) /\ y1 \in Seq(Seq(S)) /\ <<>> \in Seq(S) /\ z \in Seq(S)
        BY ONLY <1>1, <2>1, <2>3
      <4> QED
        BY ONLY <3>1, <4>1, AppendInjective
    <3>3. CASE y = <<>>
      <4>1. V = P
        BY ONLY <1>1, <3>2, <3>3, ConcatEmptySeq
      <4>2. Append(v, c) = p1
        BY <2>5, <2>6, <4>1 DEF p1
      <4>3. p1 \o <<>> = p1
        BY ONLY <1>1, ConcatEmptySeq
      <4> QED
        BY <1>1, <4>2, <4>3
    <3>4. CASE y # <<>>
      BY <2>4, <3>2, <3>4
    <3> QED
      BY <3>3, <3>4
  <2>7. CASE c # F!Slash
    <3>1. PICK f \in Seq(Seq(S)), e \in Seq(S) : V = Append(f, e)
      BY ONLY <2>1, SequenceEmptyOrAppend
    <3>2. Step(Append(f, e), c) = Append(f, Append(e, c)) /\ Append(e, c) \in Seq(S)
      BY ONLY <2>7, StepOfAppend, AppendProperties, f \in Seq(Seq(S)), e \in Seq(S), c \in S
    <3>3. Append(f, Append(e, c)) = Append(y1, z)
      BY ONLY <2>1, <2>3, <3>1, <3>2
    <3>4. f = y1
      <4> HIDE DEF y1
      <4> DEFINE e1 == Append(e, c)
      <4>1. /\ f \in Seq(Seq(S)) /\ y1 \in Seq(Seq(S)) /\ e1 \in Seq(S) /\ z \in Seq(S)
            /\ Append(f, e1) = Append(y1, z)
        BY ONLY <2>3, <3>2, <3>3, f \in Seq(Seq(S))
      <4> HIDE DEF e1
      <4> QED
        BY ONLY <4>1, AppendInjective
    <3>5. Longer(P, y, e, Seq(S))
      BY ONLY <1>1, LongerIs, y \in Seq(Seq(S)), e \in Seq(S)
    <3>6. /\ V = P \o Append(y, e)
          /\ Append(y, e) \in Seq(Seq(S)) /\ Append(y, e) # <<>>
      BY ONLY <3>1, <3>4, <3>5 DEF Longer
    <3> QED
      BY <2>4, <3>6
  <2> QED
    BY <2>6, <2>7
<1> HIDE DEF T
<1>5. Seq(S) \subseteq T
  BY ONLY <1>3, <1>4, SequencesInduct
<1>6. q \in T
  BY <1>5
<1>7. \A x \in Seq(Seq(S)) : x # <<>> /\ F!Segments(q) = P \o x => \E t \in Seq(S) : q = p1 \o t
  BY ONLY <1>6 DEF T
<1> QED
  BY <1>7 DEF P, p1, IsBelow

(* A rule fits, by characters, the paths that it means by segments.        *)
LEMMA FitsBySegments ==
  ASSUME NEW S, F!Slash \in S, NEW p \in Seq(S), NEW q \in Seq(S)
  PROVE  F!IsPrefix(F!Segments(p), F!Segments(q))
           <=> q = p \/ F!IsPrefix(Append(p, F!Slash), q)
<1> DEFINE P == F!Segments(p)
           Q0 == F!Segments(q)
           p1 == Append(p, F!Slash)
<1>1. P \in Seq(Seq(S)) /\ Q0 \in Seq(Seq(S)) /\ p1 \in Seq(S)
  BY SegmentsType, AppendProperties
<1>2. F!IsPrefix(P, Q0) <=> \E w \in Seq(Seq(S)) : Q0 = P \o w
  <2> HIDE DEF P, Q0
  <2> QED
    BY ONLY <1>1, PrefixIs
<1>3. F!IsPrefix(p1, q) <=> \E t \in Seq(S) : q = p1 \o t
  <2> HIDE DEF p1
  <2> QED
    BY ONLY <1>1, PrefixIs, q \in Seq(S)
<1>4. ASSUME NEW w \in Seq(Seq(S)), Q0 = P \o w PROVE q = p \/ \E t \in Seq(S) : q = p1 \o t
  <2>1. CASE w = <<>>
    <3>1. P \o <<>> = P
      <4> HIDE DEF P
      <4> QED
        BY ONLY <1>1, ConcatEmptySeq
    <3>2. F!Segments(p) = F!Segments(q)
      BY <1>4, <2>1, <3>1
    <3> QED
      BY ONLY <3>2, SegmentsTell, p \in Seq(S), q \in Seq(S)
  <2>2. CASE w # <<>>
    <3>1. F!Segments(q) = F!Segments(p) \o w
      BY <1>4
    <3>2. IsBelow(q, p, S)
      BY <2>2, <3>1, SegmentsGoOn
    <3> QED
      BY ONLY <3>2 DEF IsBelow
  <2> QED
    BY <2>1, <2>2
<1>5. ASSUME q = p PROVE \E w \in Seq(Seq(S)) : Q0 = P \o w
  <2>1. Q0 = P
    BY <1>5
  <2> HIDE DEF P, Q0
  <2>2. P \o <<>> = P
    BY ONLY <1>1, ConcatEmptySeq
  <2>3. <<>> \in Seq(Seq(S))
    BY ONLY EmptySeq
  <2> QED
    BY <2>1, <2>2, <2>3
<1>6. ASSUME NEW t \in Seq(S), q = p1 \o t PROVE \E w \in Seq(Seq(S)) : Q0 = P \o w
  <2>1. F!Segments(p1 \o t) = P \o F!Segments(t)
    BY SegmentsOfBoth
  <2>2. F!Segments(t) \in Seq(Seq(S))
    BY SegmentsType
  <2> QED
    BY <1>6, <2>1, <2>2
<1> HIDE DEF P, Q0, p1
<1>7. F!IsPrefix(P, Q0) <=> q = p \/ F!IsPrefix(p1, q)
  BY ONLY <1>2, <1>3, <1>4, <1>5, <1>6
<1> QED
  BY <1>7 DEF P, Q0, p1

(* What is left of a path below another, once that is taken off.           *)
Parts(q, p, t, S) ==
  /\ q \in Seq(S) /\ q = p \o (<<F!Slash>> \o t)
  /\ SubSeq(q, Len(p) + 1, Len(q)) = <<F!Slash>> \o t
  /\ F!Segments(q) = F!Segments(p) \o F!Segments(t)

LEMMA PartsBelow ==
  ASSUME NEW S, F!Slash \in S, NEW p \in Seq(S), NEW t \in Seq(S), NEW q, q = Append(p, F!Slash) \o t
  PROVE  Parts(q, p, t, S)
<1> DEFINE a == <<F!Slash>>
           u == a \o t
<1>1. a \in Seq(S) /\ u \in Seq(S) /\ p \o a \in Seq(S)
  BY ConcatProperties
<1>2. Append(p, F!Slash) = p \o a
  BY AppendIsConcat
<1> HIDE DEF a
<1>3. (p \o a) \o t = p \o u
  BY ONLY <1>1, ConcatAssociative, p \in Seq(S), t \in Seq(S)
<1> HIDE DEF u
<1>4. q = p \o u
  BY <1>2, <1>3
<1>5. SubSeq(p \o u, Len(p) + 1, Len(p \o u)) = u
  BY ONLY <1>1, RestAfter, p \in Seq(S)
<1>6. p \o u \in Seq(S)
  BY ONLY <1>1, ConcatProperties, p \in Seq(S)
<1>7. F!Segments(q) = F!Segments(p) \o F!Segments(t)
  BY SegmentsOfBoth
<1> QED
  BY <1>4, <1>5, <1>6, <1>7 DEF u, a, Parts

IsRooted(path) == path = <<>> \/ F!StartsAtRoot(path)

Gives(fwd, m, S) == fwd \in Seq(S) /\ IsRooted(fwd) /\ F!Segments(fwd) = m

(* A prefix that fits gives way to its replacement, segment for segment.   *)
LEMMA Replaced ==
  ASSUME NEW S, F!Slash \in S, NEW p \in Seq(S), NEW q \in Seq(S), NEW r \in Seq(S),
         q = p \/ F!IsPrefix(Append(p, F!Slash), q), IsRooted(r),
         NEW fwd, fwd = r \o SubSeq(q, Len(p) + 1, Len(q)),
         NEW m, m = F!Segments(r)
                      \o SubSeq(F!Segments(q), Len(F!Segments(p)) + 1, Len(F!Segments(q)))
  PROVE  Gives(fwd, m, S)
<1> DEFINE P == F!Segments(p)
           Q0 == F!Segments(q)
           N == F!Segments(r)
<1>1. P \in Seq(Seq(S)) /\ N \in Seq(Seq(S))
  BY SegmentsType
<1>2. CASE q = p
  <2>1. SubSeq(q, Len(p) + 1, Len(q)) = <<>>
    <3>1. Len(p) + 1 \in Int /\ Len(q) \in Int /\ Len(q) < Len(p) + 1
      BY <1>2
    <3> QED
      BY ONLY <3>1, SubSeqEmpty
  <2>2. r \o <<>> = r
    BY ONLY ConcatEmptySeq, r \in Seq(S)
  <2>3. fwd = r
    BY ONLY <2>1, <2>2, fwd = r \o SubSeq(q, Len(p) + 1, Len(q))
  <2>4. Q0 = P
    BY <1>2
  <2> HIDE DEF P, Q0, N
  <2>5. SubSeq(Q0, Len(P) + 1, Len(Q0)) = <<>>
    <3>1. Len(P) + 1 \in Int /\ Len(Q0) \in Int /\ Len(Q0) < Len(P) + 1
      BY ONLY <1>1, <2>4, LenProperties
    <3> QED
      BY ONLY <3>1, SubSeqEmpty
  <2>6. N \o <<>> = N
    BY ONLY <1>1, ConcatEmptySeq
  <2>7. F!Segments(fwd) = N
    BY <2>3 DEF N
  <2>8. F!Segments(fwd) = N \o SubSeq(Q0, Len(P) + 1, Len(Q0))
    BY ONLY <2>5, <2>6, <2>7
  <2> QED
    BY <2>3, <2>8 DEF P, Q0, N, Gives
<1>3. CASE F!IsPrefix(Append(p, F!Slash), q)
  <2>1. Append(p, F!Slash) \in Seq(S) /\ Append(r, F!Slash) \in Seq(S) /\ Append(r, F!Slash) # <<>>
    BY AppendProperties
  <2>2. PICK t \in Seq(S) : q = Append(p, F!Slash) \o t
    <3> DEFINE p1 == Append(p, F!Slash)
    <3>1. p1 \in Seq(S) /\ F!IsPrefix(p1, q)
      BY <1>3, <2>1
    <3> HIDE DEF p1
    <3>2. \E t \in Seq(S) : q = p1 \o t
      BY ONLY <3>1, PrefixIs, q \in Seq(S)
    <3> QED
      BY <3>2 DEF p1
  <2>3. SubSeq(q, Len(p) + 1, Len(q)) = <<F!Slash>> \o t /\ Q0 = P \o F!Segments(t)
    <3>1. Parts(q, p, t, S)
      BY ONLY <2>2, PartsBelow, F!Slash \in S, p \in Seq(S), t \in Seq(S)
    <3> QED
      BY <3>1 DEF Parts
  <2>4. r \o (<<F!Slash>> \o t) = Append(r, F!Slash) \o t
    <3> DEFINE v == Append(r, F!Slash) \o t
    <3>1. v = Append(r, F!Slash) \o t
      OBVIOUS
    <3> HIDE DEF v
    <3>2. Parts(v, r, t, S)
      BY ONLY <3>1, PartsBelow, F!Slash \in S, r \in Seq(S), t \in Seq(S)
    <3> QED
      BY ONLY <3>1, <3>2 DEF Parts
  <2>5. fwd = Append(r, F!Slash) \o t
    BY ONLY <2>3, <2>4, fwd = r \o SubSeq(q, Len(p) + 1, Len(q))
  <2>6. fwd \in Seq(S) /\ F!Segments(fwd) = N \o F!Segments(t)
    <3>1. Parts(fwd, r, t, S)
      BY ONLY <2>5, PartsBelow, F!Slash \in S, r \in Seq(S), t \in Seq(S)
    <3> QED
      BY <3>1 DEF Parts
  <2>7. IsRooted(fwd)
    <3> DEFINE a == Append(r, F!Slash)
    <3>1. a \in Seq(S) /\ a # <<>> /\ Head(a) = F!Slash
      <4>1. Head(a) = IF r = <<>> THEN F!Slash ELSE Head(r)
        BY HeadTailAppend
      <4>2. r # <<>> => Head(r) = F!Slash
        BY DEF IsRooted, F!StartsAtRoot
      <4> QED
        BY <2>1, <4>1, <4>2
    <3> HIDE DEF a
    <3>2. /\ Len(a) \in Nat \ {0} /\ Len(t) \in Nat
      BY ONLY <3>1, EmptySeq, LenProperties, t \in Seq(S)
    <3>3. /\ a \o t \in Seq(S) /\ Len(a \o t) = Len(a) + Len(t)
          /\ \A i \in 1..Len(a) + Len(t) : (a \o t)[i] = IF i <= Len(a) THEN a[i] ELSE t[i - Len(a)]
      BY ONLY <3>1, ConcatProperties, t \in Seq(S)
    <3> DEFINE v == a \o t
    <3>4. v[1] = a[1] /\ Len(v) # 0
      BY ONLY <3>2, <3>3
    <3>5. Head(v) = v[1] /\ Head(a) = a[1]
      BY <3>1, <3>3
    <3>6. v # <<>>
      BY ONLY <3>4, EmptySeq
    <3>7. fwd = v
      BY <2>5 DEF a
    <3> HIDE DEF v
    <3> QED
      BY ONLY <3>1, <3>4, <3>5, <3>6, <3>7 DEF IsRooted, F!StartsAtRoot
  <2>8. F!Segments(t) \in Seq(Seq(S))
    BY SegmentsType
  <2>9. SubSeq(Q0, Len(P) + 1, Len(Q0)) = F!Segments(t)
    <3> DEFINE u == F!Segments(t)
    <3>1. Q0 = P \o u /\ u \in Seq(Seq(S))
      BY <2>3, <2>8
    <3> HIDE DEF u, P, Q0
    <3>2. SubSeq(P \o u, Len(P) + 1, Len(P \o u)) = u
      BY ONLY <1>1, <3>1, RestAfter
    <3>3. SubSeq(Q0, Len(P) + 1, Len(Q0)) = u
      BY ONLY <3>1, <3>2
    <3> QED
      BY <3>3 DEF u
  <2>10. F!Segments(fwd) = N \o SubSeq(Q0, Len(P) + 1, Len(Q0))
    BY ONLY <2>6, <2>9
  <2>11. m = N \o SubSeq(Q0, Len(P) + 1, Len(Q0))
    OBVIOUS
  <2> QED
    BY ONLY <2>6, <2>7, <2>10, <2>11 DEF Gives
<1> QED
  BY <1>2, <1>3

(* Of a path from the root, the first segment is the empty one before the  *)
(* slash.                                                                  *)
LEMMA Rooted ==
  ASSUME NEW S, F!Slash \in S, NEW to \in Seq(S), F!StartsAtRoot(to)
  PROVE  /\ Tail(to) \in Seq(S)
         /\ F!Segments(to) = <<<<>>>> \o F!Segments(Tail(to))
         /\ F!Segments(to) # <<<<>>>>
         /\ Tail(F!Segments(to)) = F!Segments(Tail(to))
<1> DEFINE t == Tail(to)
           u == F!Segments(t)
           w == F!Segments(to)
           a == <<<<>>>>
<1>1. to # <<>> /\ Head(to) = F!Slash
  BY DEF F!StartsAtRoot
<1>2. t \in Seq(S) /\ to = <<F!Slash>> \o t
  BY <1>1
<1>3. to = Append(<<>>, F!Slash) \o t
  <2>1. Append(<<>>, F!Slash) = <<F!Slash>>
    OBVIOUS
  <2> QED
    BY <1>2, <2>1
<1> HIDE DEF t
<1>4. <<>> \in Seq(S)
  BY EmptySeq
<1>5. w = a \o u
  <2>1. F!Segments(Append(<<>>, F!Slash) \o t) = F!Segments(<<>>) \o F!Segments(t)
    BY <1>2, <1>4, SegmentsOfBoth
  <2> QED
    BY <1>3, <2>1, SegmentsOfEmpty
<1>6. u \in Seq(Seq(S)) /\ u # <<>> /\ w \in Seq(Seq(S)) /\ w # <<>>
  BY <1>2, SegmentsType
<1>7. a \in Seq(Seq(S)) /\ Len(a) = 1
  BY <1>4
<1> HIDE DEF u, w, a
<1>8. Tail(w) = SubSeq(w, 2, Len(w))
  BY ONLY <1>6, TailIsSubSeq
<1>9. SubSeq(a \o u, Len(a) + 1, Len(a \o u)) = u
  BY ONLY <1>6, <1>7, RestAfter
<1>10. Tail(w) = u
  <2>1. Len(a) + 1 = 2
    BY ONLY <1>7
  <2> QED
    BY ONLY <1>5, <1>8, <1>9, <2>1
<1>11. w # a
  <2>1. Len(a \o u) = Len(a) + Len(u)
    BY ONLY <1>6, <1>7, ConcatProperties
  <2>2. Len(u) \in Nat \ {0}
    BY ONLY <1>6, EmptySeq
  <2> QED
    BY ONLY <1>5, <1>7, <2>1, <2>2
<1> QED
  BY ONLY <1>2, <1>5, <1>10, <1>11 DEF t, u, w, a

LEMMA FrontOfAppend ==
  ASSUME NEW S, NEW s \in Seq(S), NEW c \in S
  PROVE  /\ F!Front(Append(s, c)) = s /\ F!Last(Append(s, c)) = c
         /\ Append(s, c) # <<>> /\ Len(Append(s, c)) = Len(s) + 1 /\ Len(s) \in Nat
<1> DEFINE t == Append(s, c)
<1>1. t \in Seq(S) /\ t # <<>> /\ Len(t) = Len(s) + 1 /\ t[Len(s) + 1] = c /\ Len(s) \in Nat
  BY AppendProperties, LenProperties
<1>2. t = s \o <<c>> /\ <<c>> \in Seq(S)
  BY AppendIsConcat
<1> HIDE DEF t
<1>3. F!IsPrefix(s, t)
  <2> DEFINE u == <<c>>
  <2>1. u \in Seq(S) /\ t = s \o u
    BY <1>2
  <2> HIDE DEF u
  <2> QED
    BY ONLY <1>1, <2>1, PrefixIs, s \in Seq(S)
<1>4. SubSeq(s, 1, Len(s)) = s
  BY SubSeqFull
<1>5. Len(t) - 1 = Len(s)
  BY ONLY <1>1
<1>6. F!Front(t) = s
  BY ONLY <1>3, <1>4, <1>5 DEF F!Front, F!IsPrefix
<1>7. F!Last(t) = c
  BY ONLY <1>1 DEF F!Last
<1> QED
  BY ONLY <1>1, <1>6, <1>7 DEF t

(* The slash at the end of a base is the one that another path starts with. *)
LEMMA BaseWithoutSlash ==
  ASSUME NEW S, F!Slash \in S, NEW base \in Seq(S)
  PROVE  /\ F!TrimSuffix(base) \in Seq(S)
         /\ F!Above(F!Segments(base)) = F!Segments(F!TrimSuffix(base))
<1>1. CASE base = <<>>
  <2>1. F!TrimSuffix(base) = <<>>
    BY <1>1 DEF F!TrimSuffix
  <2>2. F!Above(<<<<>>>>) = <<<<>>>>
    <3>1. Len(<<<<>>>>) = 1
      OBVIOUS
    <3> QED
      BY <3>1 DEF F!Above
  <2> QED
    BY <1>1, <2>1, <2>2, SegmentsOfEmpty
<1>2. CASE base # <<>>
  <2>1. PICK f \in Seq(S), c \in S : base = Append(f, c)
    BY <1>2, SequenceEmptyOrAppend
  <2> DEFINE d == F!Segments(base)
             e == F!Segments(f)
  <2>2. F!Front(base) = f /\ F!Last(base) = c
    BY <2>1, FrontOfAppend
  <2>3. EndsWith(F!Segments(Append(f, c)), e, c)
    BY LastSegment
  <2>4. EndsWith(d, e, c) /\ e \in Seq(Seq(S))
    BY <2>1, <2>3, SegmentsType
  <2> HIDE DEF d, e
  <2>5. CASE c = F!Slash
    <3>1. F!TrimSuffix(base) = f
      BY <1>2, <2>2, <2>5 DEF F!TrimSuffix
    <3>2. d = Append(e, <<>>) /\ Len(d) > 1 /\ F!Last(d) = <<>>
      BY ONLY <2>4, <2>5 DEF EndsWith, F!Last
    <3>3. <<>> \in Seq(S)
      BY ONLY EmptySeq
    <3>4. F!Front(Append(e, <<>>)) = e
      BY ONLY <2>4, <3>3, FrontOfAppend
    <3>5. F!Above(d) = e
      BY ONLY <3>2, <3>4 DEF F!Above
    <3> QED
      BY <3>1, <3>5 DEF d, e
  <2>6. CASE c # F!Slash
    <3>1. F!TrimSuffix(base) = base
      BY <2>2, <2>6 DEF F!TrimSuffix
    <3>2. F!Last(d) # <<>>
      BY ONLY <2>4, <2>6 DEF EndsWith, F!Last
    <3>3. F!Above(d) = d
      BY ONLY <3>2 DEF F!Above
    <3> QED
      BY <3>1, <3>3 DEF d
  <2> QED
    BY <2>5, <2>6
<1> QED
  BY <1>1, <1>2

(* A rewritten path is the one that the table means.                       *)
TextIn(t, S) ==
  /\ Len(t) \in Nat /\ DOMAIN t = 1..Len(t)
  /\ \A i \in 1..Len(t) : /\ t[i].prefix \in Seq(S)
                          /\ t[i].replacement \in Seq(S) /\ IsRooted(t[i].replacement)

LEMMA RewriteIsMeant ==
  ASSUME NEW S, F!Slash \in S, TextIn(rewrites, S), NEW path \in Seq(S), F!StartsAtRoot(path),
         NEW b, NEW fwd, fwd = F!Rewrite(path, b)
  PROVE  Gives(fwd, F!Meant(rewrites, path, b), S)
<1> DEFINE fits == {i \in DOMAIN rewrites :
                      /\ rewrites[i].backend \in {AnyBackend, b}
                      /\ F!IsPrefix(F!Segments(rewrites[i].prefix), F!Segments(path))}
           hits == {i \in 1..Len(rewrites) :
                      F!Concerns(rewrites[i], b) /\ F!Hits(rewrites[i], path)}
           first == F!Min(hits)
<1>1. fits = hits
  <2>1. \A i \in 1..Len(rewrites) :
          F!IsPrefix(F!Segments(rewrites[i].prefix), F!Segments(path)) <=> F!Hits(rewrites[i], path)
    <3> SUFFICES ASSUME NEW i \in 1..Len(rewrites)
                 PROVE  F!IsPrefix(F!Segments(rewrites[i].prefix), F!Segments(path))
                          <=> F!Hits(rewrites[i], path)
      OBVIOUS
    <3> DEFINE p == rewrites[i].prefix
    <3>1. p \in Seq(S)
      BY DEF TextIn
    <3>2. F!Hits(rewrites[i], path) <=> path = p \/ F!IsPrefix(Append(p, F!Slash), path)
      BY DEF F!Hits
    <3> HIDE DEF p
    <3>3. F!IsPrefix(F!Segments(p), F!Segments(path))
            <=> path = p \/ F!IsPrefix(Append(p, F!Slash), path)
      BY ONLY <3>1, FitsBySegments, F!Slash \in S, path \in Seq(S)
    <3> QED
      BY ONLY <3>2, <3>3 DEF p
  <2>2. \A i : rewrites[i].backend \in {AnyBackend, b} <=> F!Concerns(rewrites[i], b)
    BY DEF F!Concerns
  <2>3. DOMAIN rewrites = 1..Len(rewrites)
    BY DEF TextIn
  <2> QED
    BY ONLY <2>1, <2>2, <2>3
<1>2. CASE hits = {}
  <2>1. fwd = path
    BY <1>2 DEF F!Rewrite, F!SelectInSeq
  <2>2. F!Meant(rewrites, path, b) = F!Segments(path)
    BY <1>1, <1>2 DEF F!Meant
  <2> QED
    BY <2>1, <2>2 DEF IsRooted, Gives
<1>3. CASE hits # {}
  <2>1. hits \in SUBSET Nat
    BY DEF TextIn
  <2>2. first \in hits
    <3> HIDE DEF hits
    <3>1. Min(hits) \in hits
      BY <1>3, <2>1, MinOfNaturals
    <3> QED
      BY <3>1 DEF Min, F!Min
  <2>3. first \in 1..Len(rewrites) /\ first # 0 /\ F!Hits(rewrites[first], path)
    <3>1. \A i \in hits : i \in 1..Len(rewrites) /\ F!Hits(rewrites[i], path)
      OBVIOUS
    <3>2. \A i \in hits : i # 0
      BY DEF TextIn
    <3> HIDE DEF hits
    <3> QED
      BY <2>2, <3>1, <3>2
  <2> DEFINE p == rewrites[first].prefix
             r == rewrites[first].replacement
  <2>4. F!Rewrite(path, b) = r \o SubSeq(path, Len(p) + 1, Len(path))
    <3>1. F!SelectInSeq(rewrites, LAMBDA q : F!Concerns(q, b) /\ F!Hits(q, path)) = first
      BY <1>3 DEF F!SelectInSeq
    <3> HIDE DEF hits
    <3> QED
      BY <2>3, <3>1 DEF F!Rewrite
  <2>5. F!Meant(rewrites, path, b) =
          F!Segments(r) \o SubSeq(F!Segments(path), Len(F!Segments(p)) + 1, Len(F!Segments(path)))
    <3>1. fits # {}
      BY <1>1, <1>3
    <3>2. first = CHOOSE i \in fits : \A j \in fits : i <= j
      <4> HIDE DEF fits, hits
      <4> QED
        BY <1>1 DEF F!Min
    <3> HIDE DEF first
    <3> QED
      BY <3>1, <3>2 DEF F!Meant
  <2>6. p \in Seq(S) /\ r \in Seq(S) /\ IsRooted(r)
    <3> HIDE DEF first
    <3> QED
      BY <2>3 DEF TextIn
  <2>7. path = p \/ F!IsPrefix(Append(p, F!Slash), path)
    BY <2>3 DEF F!Hits
  <2> HIDE DEF p, r
  <2>8. fwd = r \o SubSeq(path, Len(p) + 1, Len(path))
    BY <2>4
  <2> QED
    BY ONLY <2>5, <2>6, <2>7, <2>8, Replaced, F!Slash \in S, path \in Seq(S)
<1> QED
  BY <1>2, <1>3

(* A path joined to a base has the segments of both.                       *)
Below(base, fwd) ==
  F!Above(base) \o (IF fwd = <<<<>>>> THEN fwd ELSE Tail(fwd))

LEMMA JoinIs ==
  ASSUME NEW S, F!Slash \in S, NEW base \in Seq(S), NEW fwd \in Seq(S), IsRooted(fwd)
  PROVE  F!Segments(F!JoinURLPath(base, fwd)) = Below(F!Segments(base), F!Segments(fwd))
<1> DEFINE to == IF fwd = <<>> THEN <<F!Slash>> ELSE fwd
           t == Tail(to)
           M == IF F!Segments(fwd) = <<<<>>>> THEN F!Segments(fwd) ELSE Tail(F!Segments(fwd))
           f == F!TrimSuffix(base)
<1>1. to \in Seq(S) /\ F!StartsAtRoot(to)
  BY DEF IsRooted, F!StartsAtRoot
<1>2. M = F!Segments(t)
  <2>1. CASE fwd = <<>>
    <3>1. t = <<>>
      BY <2>1
    <3>2. F!Segments(fwd) = <<<<>>>>
      BY <2>1, SegmentsOfEmpty
    <3> QED
      BY <3>1, <3>2, SegmentsOfEmpty
  <2>2. CASE fwd # <<>>
    <3>1. to = fwd /\ F!StartsAtRoot(fwd)
      BY <1>1, <2>2
    <3>2. F!Segments(fwd) # <<<<>>>> /\ Tail(F!Segments(fwd)) = F!Segments(Tail(fwd))
      BY ONLY <3>1, Rooted, F!Slash \in S, fwd \in Seq(S)
    <3> QED
      BY <3>1, <3>2
  <2> QED
    BY <2>1, <2>2
<1> HIDE DEF M, to
<1>3. t \in Seq(S) /\ F!Segments(to) = <<<<>>>> \o F!Segments(t)
  BY ONLY <1>1, Rooted, F!Slash \in S
<1>4. f \in Seq(S) /\ F!Above(F!Segments(base)) = F!Segments(f)
  BY BaseWithoutSlash
<1>5. Below(F!Segments(base), F!Segments(fwd)) = F!Segments(f) \o F!Segments(t)
  BY <1>2, <1>4 DEF Below, M
<1>6. CASE base \in {<<>>, <<F!Slash>>}
  <2>1. F!JoinURLPath(base, fwd) = to
    BY <1>6 DEF F!JoinURLPath, to
  <2>2. f = <<>>
    <3>1. CASE base = <<>>
      BY <3>1 DEF F!TrimSuffix
    <3>2. CASE base = <<F!Slash>>
      <4>1. base = Append(<<>>, F!Slash)
        BY <3>2
      <4>2. <<>> \in Seq(S)
        BY EmptySeq
      <4>3. F!Front(base) = <<>> /\ F!Last(base) = F!Slash /\ base # <<>>
        BY ONLY <4>1, <4>2, FrontOfAppend, F!Slash \in S
      <4> QED
        BY <4>3 DEF F!TrimSuffix
    <3> QED
      BY <1>6, <3>1, <3>2
  <2>3. F!Segments(f) = <<<<>>>>
    BY <2>2, SegmentsOfEmpty
  <2> HIDE DEF f, t
  <2> QED
    BY ONLY <1>3, <1>5, <2>1, <2>3
<1>7. CASE base \notin {<<>>, <<F!Slash>>}
  <2>1. F!TrimPrefix(to) = t
    BY <1>1 DEF F!TrimPrefix
  <2>2. F!JoinURLPath(base, fwd) = f \o <<F!Slash>> \o t
    BY <1>7, <2>1 DEF F!JoinURLPath, to
  <2>3. f \o <<F!Slash>> = Append(f, F!Slash)
    BY <1>4, AppendIsConcat
  <2> HIDE DEF f, t
  <2>4. F!Segments(Append(f, F!Slash) \o t) = F!Segments(f) \o F!Segments(t)
    BY ONLY <1>3, <1>4, SegmentsOfBoth, F!Slash \in S
  <2> QED
    BY ONLY <1>5, <2>2, <2>3, <2>4
<1> QED
  BY <1>6, <1>7

LEMMA WiderSequence ==
  ASSUME NEW s, F!IsSequence(s), NEW S, F!ToSet(s) \subseteq S
  PROVE  s \in Seq(S)
BY SeqMonotonic DEF F!IsSequence

(* What settings may hold, whichever were saved.                           *)
SoundRoutes(t) == F!IsSequence(t) /\ F!ValidRules(t)

SoundRewrites(t) ==
  /\ F!IsSequence(t) /\ F!ValidRewrites(t)
  /\ \A r \in F!ToSet(t) : F!IsSequence(r.prefix) /\ F!IsSequence(r.replacement)

LEMMA SettingsSound ==
  ASSUME NEW c \in SavedTables \cup Saves
  PROVE  SoundRoutes(c.routes) /\ SoundRewrites(c.rewrites)
BY OperationAssumption DEF F!ForwardingAssumption, SoundRoutes, SoundRewrites

(* What a request is sent as, once its body has been read.                 *)
LEMMA SentAsMeant ==
  ASSUME NEW rq \in F!Incoming, NEW b \in Targets, SoundRewrites(rewrites)
  PROVE  F!Segments(F!JoinURLPath(BasePath[b], F!Rewrite(rq.path, b)))
           = Below(F!Segments(BasePath[b]), F!Meant(rewrites, rq.path, b))
<1> DEFINE n == Len(rewrites)
           base == BasePath[b]
           S == {F!Slash} \cup F!ToSet(rq.path) \cup F!ToSet(base)
                  \cup UNION {F!ToSet(rewrites[i].prefix) \cup F!ToSet(rewrites[i].replacement) :
                                i \in 1..n}
           fwd == F!Rewrite(rq.path, b)
<1>1. F!IsSequence(rq.path) /\ F!StartsAtRoot(rq.path) /\ F!IsSequence(base)
  BY OperationAssumption DEF F!ForwardingAssumption, F!Incoming
<1>2. n \in Nat /\ DOMAIN rewrites = 1..n
  BY LenProperties DEF SoundRewrites, F!IsSequence
<1>3. \A i \in 1..n : /\ F!IsSequence(rewrites[i].prefix) /\ F!IsSequence(rewrites[i].replacement)
                      /\ IsRooted(rewrites[i].replacement)
  <2>1. \A i \in 1..n : rewrites[i] \in F!ToSet(rewrites)
    BY <1>2 DEF F!ToSet
  <2> QED
    BY <1>2, <2>1 DEF SoundRewrites, F!ValidRewrites, IsRooted
<1>4. /\ F!Slash \in S /\ F!ToSet(rq.path) \subseteq S /\ F!ToSet(base) \subseteq S
      /\ \A i \in 1..n : /\ F!ToSet(rewrites[i].prefix) \subseteq S
                         /\ F!ToSet(rewrites[i].replacement) \subseteq S
  OBVIOUS
<1> HIDE DEF S
<1>5. rq.path \in Seq(S) /\ base \in Seq(S)
  BY <1>1, <1>4, WiderSequence
<1>6. TextIn(rewrites, S)
  <2>1. \A i \in 1..n : rewrites[i].prefix \in Seq(S) /\ rewrites[i].replacement \in Seq(S)
    BY <1>3, <1>4, WiderSequence
  <2> QED
    BY <1>2, <1>3, <2>1 DEF TextIn
<1>7. Gives(fwd, F!Meant(rewrites, rq.path, b), S)
  BY <1>1, <1>4, <1>5, <1>6, RewriteIsMeant
<1> HIDE DEF fwd, base
<1>8. F!Segments(F!JoinURLPath(base, fwd)) = Below(F!Segments(base), F!Segments(fwd))
  BY <1>4, <1>5, <1>7, JoinIs DEF Gives
<1>9. F!Segments(F!JoinURLPath(base, fwd)) = Below(F!Segments(base), F!Meant(rewrites, rq.path, b))
  BY <1>7, <1>8 DEF Gives
<1> QED
  BY <1>9 DEF fwd, base

(* What is known of a request until it is sent, and of the tables that an  *)
(* update has still to install.                                            *)
Forwards ==
  /\ SoundRoutes(routes) /\ SoundRewrites(rewrites) /\ \A t \in saving : SoundRewrites(t)
  /\ passing.pc \in {"none", "reading", "sent"}
  /\ passing.pc # "none" => passing.in \in F!Incoming /\ passing.backend \in Targets
  /\ passing.pc = "reading" => rewrites \in seen
  /\ F!ForwardedAsMeant

LEMMA ForwardsInit == F!Init => Forwards
<1> SUFFICES ASSUME F!Init PROVE Forwards
  OBVIOUS
<1>1. SoundRoutes(routes) /\ SoundRewrites(rewrites)
  BY SettingsSound DEF F!Init
<1>2. passing.pc = "none" /\ saving = {}
  BY DEF F!Init, F!NoRequest
<1> QED
  BY <1>1, <1>2 DEF Forwards, F!ForwardedAsMeant

LEMMA RuleNamesBackend ==
  ASSUME SoundRoutes(routes), NEW path
  PROVE  F!Match(path) \subseteq Targets
<1> DEFINE fit == {i \in 1..Len(routes) : F!RuleFits(routes[i], path)}
           k == F!SelectInSeq(routes, LAMBDA rule : F!RuleFits(rule, path))
<1>1. Len(routes) \in Nat /\ DOMAIN routes = 1..Len(routes)
  BY LenProperties DEF SoundRoutes, F!IsSequence
<1>2. k = IF fit # {} THEN F!Min(fit) ELSE 0
  BY DEF F!SelectInSeq
<1>3. fit # {} => F!Min(fit) \in DOMAIN routes
  <2>1. fit \in SUBSET Nat /\ fit \subseteq DOMAIN routes
    BY <1>1
  <2> HIDE DEF fit
  <2>2. fit # {} => Min(fit) \in fit
    BY <2>1, MinOfNaturals
  <2> QED
    BY <2>1, <2>2 DEF Min, F!Min
<1>4. F!Match(path) = IF k = 0 THEN Targets ELSE {routes[k].backend}
  BY DEF F!Match
<1> HIDE DEF k, fit
<1>5. k # 0 => k \in DOMAIN routes
  BY <1>2, <1>3
<1> QED
  BY <1>4, <1>5 DEF SoundRoutes, F!ValidRules

LEMMA ForwardsStep ==
  ASSUME Forwards, [F!Next]_(F!vars)
  PROVE  Forwards'
<1>1. trust' = trust /\ F!Incoming' = F!Incoming
  BY DEF F!Next, F!vars, F!Arrive, F!Forward, F!Answered, F!SetRules, F!SetRewrites, F!Incoming
<1>2. passing' = passing /\ seen' = seen => F!ForwardedAsMeant'
  BY DEF Forwards, F!ForwardedAsMeant
<1>3. ASSUME NEW rq \in F!Incoming, F!Arrive(rq)
      PROVE  Forwards'
  <2>1. PICK b \in F!Match(rq.path) : passing' = [pc |-> "reading", in |-> rq, backend |-> b]
    BY <1>3 DEF F!Arrive
  <2>2. b \in Targets
    BY <2>1, RuleNamesBackend DEF Forwards
  <2>3. seen' = {rewrites} /\ UNCHANGED <<routes, rewrites, saving>>
    BY <1>3 DEF F!Arrive
  <2>4. F!ForwardedAsMeant'
    BY <2>1 DEF F!ForwardedAsMeant
  <2>5. SoundRoutes(routes)' /\ SoundRewrites(rewrites)' /\ (\A t \in saving : SoundRewrites(t))'
    BY <2>3 DEF Forwards
  <2> QED
    BY <1>1, <2>1, <2>2, <2>3, <2>4, <2>5 DEF Forwards
<1>4. CASE F!Forward
  <2>1. /\ passing.pc = "reading" /\ UNCHANGED <<routes, rewrites, saving, seen>>
        /\ passing'.pc = "sent" /\ passing'.in = passing.in /\ passing'.backend = passing.backend
        /\ passing'.path = F!JoinURLPath(BasePath[passing.backend],
                                         F!Rewrite(passing.in.path, passing.backend))
    BY <1>4 DEF F!Forward
  <2>2. /\ passing.in \in F!Incoming /\ passing.backend \in Targets
        /\ rewrites \in seen /\ SoundRewrites(rewrites)
    BY <2>1 DEF Forwards
  <2>3. F!Segments(passing'.path)
          = Below(F!Segments(BasePath[passing.backend]),
                  F!Meant(rewrites, passing.in.path, passing.backend))
    BY <2>1, <2>2, SentAsMeant
  <2>4. F!ForwardedAsMeant'
    BY <2>1, <2>2, <2>3 DEF F!ForwardedAsMeant, Below
  <2>5. SoundRoutes(routes)' /\ SoundRewrites(rewrites)' /\ (\A t \in saving : SoundRewrites(t))'
    BY <2>1 DEF Forwards
  <2> QED
    BY <1>1, <2>1, <2>2, <2>4, <2>5 DEF Forwards
<1>5. CASE F!Answered
  <2>1. passing'.pc = "none" /\ UNCHANGED <<routes, rewrites, saving>>
    BY <1>5 DEF F!Answered, F!NoRequest
  <2>2. SoundRoutes(routes)' /\ SoundRewrites(rewrites)' /\ (\A t \in saving : SoundRewrites(t))'
    BY <2>1 DEF Forwards
  <2> QED
    BY <2>1, <2>2 DEF Forwards, F!ForwardedAsMeant
<1>6. ASSUME NEW c \in Saves, F!SetRules(c)
      PROVE  Forwards'
  <2>1. routes' = c.routes /\ saving' = {c.rewrites} /\ UNCHANGED <<rewrites, passing, seen>>
    BY <1>6 DEF F!SetRules
  <2>2. SoundRoutes(c.routes) /\ SoundRewrites(c.rewrites)
    BY SettingsSound
  <2>3. SoundRoutes(routes)' /\ SoundRewrites(rewrites)' /\ (\A t \in saving : SoundRewrites(t))'
    BY <2>1, <2>2 DEF Forwards
  <2> QED
    BY <1>1, <1>2, <2>1, <2>3 DEF Forwards
<1>7. CASE F!SetRewrites
  <2>1. /\ rewrites' \in saving /\ saving' = {} /\ UNCHANGED <<routes, passing>>
        /\ seen' = IF passing.pc = "reading" THEN seen \cup saving ELSE seen
    BY <1>7 DEF F!SetRewrites
  <2>2. SoundRoutes(routes)' /\ SoundRewrites(rewrites)' /\ (\A t \in saving : SoundRewrites(t))'
    BY <2>1 DEF Forwards
  <2>3. F!ForwardedAsMeant'
    <3>1. CASE passing.pc = "reading"
      BY <2>1, <3>1 DEF F!ForwardedAsMeant
    <3>2. CASE passing.pc # "reading"
      BY <1>2, <2>1, <3>2
    <3> QED
      BY <3>1, <3>2
  <2> QED
    BY <1>1, <2>1, <2>2, <2>3 DEF Forwards
<1>8. CASE UNCHANGED F!vars
  <2>1. UNCHANGED <<routes, rewrites, saving, passing, seen>>
    BY <1>8 DEF F!vars
  <2>2. SoundRoutes(routes)' /\ SoundRewrites(rewrites)' /\ (\A t \in saving : SoundRewrites(t))'
    BY <2>1 DEF Forwards
  <2> QED
    BY <1>1, <1>2, <2>1, <2>2 DEF Forwards
<1> QED
  BY <1>3, <1>4, <1>5, <1>6, <1>7, <1>8 DEF F!Next

(* The path that a backend gets, made of characters (Rewriter.Apply and    *)
(* joinURLPath), is segment by segment the one that a table of rewrites in *)
(* force while the request was read means, below the path of the backend's *)
(* own URL: for rules, bases and paths of any length, and also when an     *)
(* update (updateBackends) replaces the table while the body is read.      *)
THEOREM RewritesAreMeant == F!Spec => []ForwardedAsMeant
<1>1. Forwards => ForwardedAsMeant
  BY DEF Forwards, ForwardedAsMeant
<1> QED
  BY <1>1, ForwardsInit, ForwardsStep, PTL DEF F!Spec

-----------------------------------------------------------------------------
(* Queries.  A strict total order of finitely many rows numbers them.      *)
IsOrder(B, S) ==
  /\ \A a \in S : <<a, a>> \notin B
  /\ \A a, b, c \in S : <<a, b>> \in B /\ <<b, c>> \in B => <<a, c>> \in B
  /\ \A a, b \in S : a # b => <<a, b>> \in B \/ <<b, a>> \in B

RankOf(B, S, r) == Cardinality({q \in S : <<q, r>> \in B})

LEMMA RanksGrow ==
  ASSUME NEW S, IsFiniteSet(S), NEW B, IsOrder(B, S), NEW a \in S, NEW b \in S
  PROVE  /\ RankOf(B, S, a) \in 0..(Cardinality(S) - 1)
         /\ <<a, b>> \in B => RankOf(B, S, a) < RankOf(B, S, b)
<1> DEFINE Before(r) == {q \in S : <<q, r>> \in B}
<1>1. \A r : /\ IsFiniteSet(Before(r)) /\ Cardinality(Before(r)) \in Nat
             /\ Cardinality(Before(r)) <= Cardinality(S)
             /\ Cardinality(S) = Cardinality(Before(r)) => S = Before(r)
  BY FS_Subset, FS_CardinalityType
<1>2. Cardinality(S) \in Nat
  BY FS_CardinalityType
<1>3. Before(a) # S
  BY DEF IsOrder
<1>4. ASSUME <<a, b>> \in B
      PROVE  Cardinality(Before(a)) < Cardinality(Before(b))
  <2>1. Before(a) \subseteq Before(b)
    BY <1>4 DEF IsOrder
  <2>2. a \in Before(b) /\ a \notin Before(a)
    BY <1>4 DEF IsOrder
  <2>3. /\ Cardinality(Before(a)) <= Cardinality(Before(b))
        /\ Cardinality(Before(b)) = Cardinality(Before(a)) => Before(b) = Before(a)
    BY <1>1, <2>1, FS_Subset
  <2>4. Before(b) # Before(a)
    BY <2>2
  <2>5. Cardinality(Before(a)) \in Nat /\ Cardinality(Before(b)) \in Nat
    BY <1>1
  <2> HIDE DEF Before
  <2> QED
    BY <2>3, <2>4, <2>5
<1> HIDE DEF Before
<1>5. Cardinality(Before(a)) \in 0..(Cardinality(S) - 1)
  BY <1>1, <1>2, <1>3
<1> QED
  BY <1>4, <1>5 DEF RankOf, Before

LEMMA RanksDiffer ==
  ASSUME NEW S, IsFiniteSet(S), NEW B, IsOrder(B, S), NEW a \in S, NEW b \in S
  PROVE  /\ RankOf(B, S, a) = RankOf(B, S, b) => a = b
         /\ RankOf(B, S, a) < RankOf(B, S, b) => <<a, b>> \in B
<1>1. a # b => <<a, b>> \in B \/ <<b, a>> \in B
  BY DEF IsOrder
<1>2. \A c, d \in S : /\ RankOf(B, S, c) \in Int
                      /\ <<c, d>> \in B => RankOf(B, S, c) < RankOf(B, S, d)
  <2>1. Cardinality(S) \in Nat
    BY FS_CardinalityType
  <2>2. \A c \in S : RankOf(B, S, c) \in 0..(Cardinality(S) - 1)
    BY RanksGrow
  <2>3. \A c, d \in S : <<c, d>> \in B => RankOf(B, S, c) < RankOf(B, S, d)
    BY RanksGrow
  <2>4. \A c \in S : RankOf(B, S, c) \in Int
    BY <2>1, <2>2
  <2> QED
    BY <2>3, <2>4
<1>3. RankOf(B, S, a) \in Int /\ RankOf(B, S, b) \in Int
  BY <1>2
<1> QED
  BY <1>1, <1>2, <1>3

(* Each number below that of the rows is the rank of one.                  *)
LEMMA RanksCover ==
  ASSUME NEW S, IsFiniteSet(S), NEW B, IsOrder(B, S), NEW n \in 0..(Cardinality(S) - 1)
  PROVE  \E r \in S : RankOf(B, S, r) = n
<1> DEFINE N == Cardinality(S)
           f == [r \in S |-> RankOf(B, S, r)]
<1>1. N \in Nat
  BY FS_CardinalityType
<1>2. f \in [S -> 0..(N - 1)]
  BY RanksGrow
<1>3. \A a, b \in S : f[a] = f[b] => a = b
  BY RanksDiffer
<1>4. f \in Injection(S, 0..(N - 1))
  BY <1>2, <1>3, Fun_IsInj
<1>5. IsFiniteSet(0..(N - 1)) /\ Cardinality(0..(N - 1)) = N
  BY <1>1, FS_Interval
<1>6. f \in Surjection(S, 0..(N - 1))
  BY <1>4, <1>5, FS_Injection
<1>7. n \in 0..(N - 1)
  OBVIOUS
<1> HIDE DEF f, N
<1>8. \E r \in S : f[r] = n
  BY <1>6, <1>7 DEF Surjection
<1> QED
  BY <1>8 DEF f

(* So a list with a row of each rank at its place holds them in order.     *)
LEMMA Placed ==
  ASSUME NEW S, IsFiniteSet(S), NEW B, IsOrder(B, S), NEW s \in [1..Cardinality(S) -> S],
         \A n \in 1..Cardinality(S) : RankOf(B, S, s[n]) = n - 1
  PROVE  /\ s \in Seq(S) /\ Len(s) = Cardinality(S) /\ Cardinality(S) \in Nat
         /\ \A r \in S : RankOf(B, S, r) + 1 \in 1..Len(s) /\ s[RankOf(B, S, r) + 1] = r
         /\ \A i, j \in 1..Len(s) : i < j => <<s[i], s[j]>> \in B
<1>1. Cardinality(S) \in Nat
  BY FS_CardinalityType
<1>2. s \in Seq(S) /\ Len(s) = Cardinality(S)
  BY <1>1
<1>3. \A i \in 1..Len(s) : s[i] \in S /\ RankOf(B, S, s[i]) = i - 1
  BY <1>2
<1>4. \A r \in S : RankOf(B, S, r) \in 0..(Cardinality(S) - 1)
  BY RanksGrow
<1>5. ASSUME NEW r \in S
      PROVE  RankOf(B, S, r) + 1 \in 1..Len(s) /\ s[RankOf(B, S, r) + 1] = r
  <2> DEFINE place == RankOf(B, S, r) + 1
  <2>1. place \in 1..Len(s) /\ place - 1 = RankOf(B, S, r)
    BY <1>1, <1>2, <1>4
  <2>2. s[place] \in S /\ RankOf(B, S, s[place]) = RankOf(B, S, r)
    BY <1>3, <2>1
  <2> QED
    BY <2>1, <2>2, RanksDiffer
<1>6. ASSUME NEW i \in 1..Len(s), NEW j \in 1..Len(s), i < j
      PROVE  <<s[i], s[j]>> \in B
  <2>1. RankOf(B, S, s[i]) < RankOf(B, S, s[j])
    BY <1>1, <1>2, <1>3, <1>6
  <2> QED
    BY <1>3, <2>1, RanksDiffer
<1> QED
  BY <1>1, <1>2, <1>5, <1>6

-----------------------------------------------------------------------------
LogRow == [id : Nat, at : Nat, kind : Kinds]

IsTable(S) ==
  S \in SUBSET LogRow /\ IsFiniteSet(S) /\ \A r, q \in S : r.id = q.id => r = q

LEMMA CardinalityOfQueries == \A S : Q!Cardinality(S) = Cardinality(S)
BY DEF Q!Cardinality, Cardinality, Q!IsFiniteSet, IsFiniteSet

(* ORDER BY puts each row at its rank.                                     *)
IsRanked(s, S, B) ==
  /\ s \in Seq(S) /\ Len(s) = Cardinality(S) /\ Cardinality(S) \in Nat
  /\ \A r \in S : RankOf(B, S, r) + 1 \in 1..Len(s) /\ s[RankOf(B, S, r) + 1] = r
  /\ \A i, j \in 1..Len(s) : i < j => <<s[i], s[j]>> \in B
  /\ \A i \in 1..Len(s) : s[i] \in S /\ RankOf(B, S, s[i]) = i - 1

LEMMA OrderedByRank ==
  ASSUME NEW S, IsFiniteSet(S), NEW B, IsOrder(B, S)
  PROVE  IsRanked(Q!Ordered(S, B), S, B)
<1> DEFINE N == Cardinality(S)
           s == Q!Ordered(S, B)
<1>1. IsFiniteSet(S) /\ IsOrder(B, S)
  OBVIOUS
<1>2. N \in Nat
  BY FS_CardinalityType
<1>3. ASSUME NEW n \in 1..N
      PROVE  s[n] \in S /\ RankOf(B, S, s[n]) = n - 1
  <2>1. n - 1 \in 0..(N - 1)
    BY <1>2
  <2>2. \E r \in S : RankOf(B, S, r) = n - 1
    BY <2>1, RanksCover
  <2>3. \E r \in S : Cardinality({q \in S : <<q, r>> \in B}) = n - 1
    BY <2>2 DEF RankOf
  <2>4. s[n] = CHOOSE r \in S : Cardinality({q \in S : <<q, r>> \in B}) = n - 1
    BY CardinalityOfQueries DEF Q!Ordered
  <2>5. s[n] \in S /\ Cardinality({q \in S : <<q, s[n]>> \in B}) = n - 1
    BY <2>3, <2>4
  <2> QED
    BY <2>5 DEF RankOf
<1>4. s \in [1..Cardinality(S) -> S]
  BY <1>3, CardinalityOfQueries DEF Q!Ordered
<1>5. \A n \in 1..Cardinality(S) : RankOf(B, S, s[n]) = n - 1
  BY <1>3
<1> HIDE DEF s
<1>6. /\ s \in Seq(S) /\ Len(s) = Cardinality(S) /\ Cardinality(S) \in Nat
      /\ \A r \in S : RankOf(B, S, r) + 1 \in 1..Len(s) /\ s[RankOf(B, S, r) + 1] = r
      /\ \A i, j \in 1..Len(s) : i < j => <<s[i], s[j]>> \in B
  BY ONLY <1>1, <1>4, <1>5, Placed
<1>7. \A i \in 1..Len(s) : s[i] \in S /\ RankOf(B, S, s[i]) = i - 1
  <2>1. Len(s) = N
    BY <1>6
  <2> QED
    BY <1>3, <2>1
<1> QED
  BY <1>6, <1>7 DEF IsRanked, s

(* Rows by falling id: as many come before a row as are newer.             *)
LEMMA NewestAreFirst ==
  ASSUME NEW S, IsTable(S), NEW s, s = Q!Ordered(S, Q!NewestFirst(S))
  PROVE  /\ s \in Seq(S) /\ Len(s) = Cardinality(S) /\ Cardinality(S) \in Nat
         /\ \A r \in S : LET place == Cardinality({q \in S : q.id > r.id}) + 1
                         IN place \in 1..Len(s) /\ s[place] = r
         /\ \A i, j \in 1..Len(s) : i < j => s[i].id > s[j].id
<1> DEFINE B == Q!NewestFirst(S)
<1>1. IsFiniteSet(S) /\ (\A r, q \in S : r.id = q.id => r = q) /\ \A r \in S : r.id \in Nat
  BY DEF IsTable, LogRow
<1>2. \A q, r \in S : <<q, r>> \in B <=> q.id > r.id
  BY DEF Q!NewestFirst
<1> HIDE DEF B
<1>3. IsOrder(B, S)
  <2>1. \A a \in S : <<a, a>> \notin B
    BY <1>1, <1>2
  <2>2. \A a, b, c \in S : <<a, b>> \in B /\ <<b, c>> \in B => <<a, c>> \in B
    BY <1>1, <1>2
  <2>3. \A a, b \in S : a # b => <<a, b>> \in B \/ <<b, a>> \in B
    BY <1>1, <1>2
  <2> QED
    BY <2>1, <2>2, <2>3 DEF IsOrder
<1>4. IsFiniteSet(S) /\ s = Q!Ordered(S, B)
  BY <1>1 DEF B
<1>5. IsRanked(s, S, B)
  BY ONLY <1>3, <1>4, OrderedByRank
<1>6. \A r \in S : Cardinality({q \in S : q.id > r.id}) = RankOf(B, S, r)
  <2>1. \A r \in S : {q \in S : q.id > r.id} = {q \in S : <<q, r>> \in B}
    BY <1>2
  <2> QED
    BY <2>1 DEF RankOf
<1> QED
  BY <1>2, <1>5, <1>6 DEF IsRanked

-----------------------------------------------------------------------------
Ops == {"none", "walk", "list", "export", "realtime", "trend"}

Listed(s) == s \in Seq({s[i] : i \in DOMAIN s})

IsReader(rd) ==
  /\ rd = [op |-> rd.op, step |-> rd.step, until |-> rd.until, got |-> rd.got]
  /\ rd.op \in Ops /\ rd.step \in Nat
  /\ Listed(rd.got)

QueriesTyped ==
  /\ IsTable(table) /\ IsTable(had.was)
  /\ nextId \in Nat /\ \A r \in table \cup had.was : r.id < nextId
  /\ now \in Nat
  /\ IsReader(reader)
  /\ had = [was |-> had.was, first |-> had.first, failed |-> had.failed]
  /\ had.first \in Nat
  /\ Q!Reading => table \subseteq had.was /\ had.first <= nextId

(* What is appended to any sequence.                                       *)
LEMMA OneMore ==
  ASSUME NEW s, Listed(s), NEW x, NEW t, t = Append(s, x)
  PROVE  /\ Listed(t)
         /\ Len(s) \in Nat /\ DOMAIN s = 1..Len(s)
         /\ Len(t) = Len(s) + 1 /\ DOMAIN t = 1..(Len(s) + 1)
         /\ \A i \in 1..Len(s) : t[i] = s[i]
         /\ t[Len(s) + 1] = x
<1> DEFINE S == {s[i] : i \in DOMAIN s} \cup {x}
<1>1. s \in Seq(S)
  BY SeqMonotonic DEF Listed
<1> HIDE DEF S
<1>2. x \in S
  BY DEF S
<1>3. /\ t \in Seq(S) /\ Len(s) \in Nat /\ DOMAIN s = 1..Len(s)
      /\ Len(t) = Len(s) + 1
      /\ \A i \in 1..Len(s) : t[i] = s[i]
      /\ t[Len(s) + 1] = x
  BY <1>1, <1>2
<1>4. DOMAIN t = 1..(Len(s) + 1)
  BY <1>3
<1>5. Listed(t)
  BY <1>3 DEF Listed
<1> QED
  BY <1>3, <1>4, <1>5

(* What a SELECT changes.                                                  *)
LEMMA PartAdded ==
  ASSUME QueriesTyped, NEW x, NEW more \in BOOLEAN, Q!Got(x, more)
  PROVE  /\ IsReader(reader')
         /\ reader'.op = reader.op /\ reader'.until = reader.until
         /\ reader'.step = (IF more THEN reader.step + 1 ELSE 0)
         /\ reader'.got = Append(reader.got, x)
         /\ Len(reader.got) \in Nat /\ Len(reader'.got) = Len(reader.got) + 1
         /\ DOMAIN reader.got = 1..Len(reader.got)
         /\ DOMAIN reader'.got = 1..(Len(reader.got) + 1)
         /\ \A i \in 1..Len(reader.got) : reader'.got[i] = reader.got[i]
         /\ reader'.got[Len(reader.got) + 1] = x
         /\ table' = table /\ nextId' = nextId /\ now' = now
<1> DEFINE n == IF more THEN reader.step + 1 ELSE 0
<1>1. /\ reader' = [reader EXCEPT !.step = n, !.got = Append(@, x)]
      /\ table' = table /\ nextId' = nextId /\ now' = now
  BY DEF Q!Got
<1>2. IsReader(reader)
  BY DEF QueriesTyped
<1>3. n \in Nat
  BY <1>2 DEF IsReader
<1> HIDE DEF n
<1>4. /\ reader'.op = reader.op /\ reader'.until = reader.until /\ reader'.step = n
      /\ reader'.got = Append(reader.got, x)
  BY <1>1, <1>2 DEF IsReader
<1>5. /\ Listed(reader'.got)
      /\ Len(reader.got) \in Nat /\ Len(reader'.got) = Len(reader.got) + 1
      /\ DOMAIN reader.got = 1..Len(reader.got)
      /\ DOMAIN reader'.got = 1..(Len(reader.got) + 1)
      /\ \A i \in 1..Len(reader.got) : reader'.got[i] = reader.got[i]
      /\ reader'.got[Len(reader.got) + 1] = x
  <2>1. Listed(reader.got)
    BY <1>2 DEF IsReader
  <2> DEFINE t == Append(reader.got, x)
  <2>2. t = Append(reader.got, x)
    OBVIOUS
  <2> HIDE DEF t
  <2>3. Listed(t) /\ Len(t) = Len(reader.got) + 1 /\ DOMAIN t = 1..(Len(reader.got) + 1)
    BY ONLY <2>1, <2>2, OneMore
  <2>4. /\ Len(reader.got) \in Nat /\ DOMAIN reader.got = 1..Len(reader.got)
        /\ \A i \in 1..Len(reader.got) : t[i] = reader.got[i]
        /\ t[Len(reader.got) + 1] = x
    BY ONLY <2>1, <2>2, OneMore
  <2>5. reader'.got = t
    BY <1>4, <2>2
  <2> QED
    BY ONLY <2>3, <2>4, <2>5
<1>6. IsReader(reader')
  BY <1>1, <1>2, <1>3, <1>5 DEF IsReader
<1> QED
  BY <1>1, <1>4, <1>5, <1>6 DEF n

(* The steps, by what they may change.                                     *)
Writes ==
  /\ reader' = reader
  /\ (\E k \in Kinds : Q!Insert(k)) \/ (\E limit : Q!DeleteBefore(limit)) \/ Q!Tick

Reads ==
  /\ Q!Reading
  /\ \E x : \E more \in BOOLEAN : Q!Got(x, more)
  /\ had' = had \/ had' = [had EXCEPT !.failed = TRUE]

Ends == reader' = Q!Idle /\ had' = Q!Unread /\ UNCHANGED <<table, nextId, now>>

LEMMA StepsOfQueries ==
  ASSUME [Q!Next]_(Q!vars)
  PROVE  \/ UNCHANGED Q!vars
         \/ Writes
         \/ \E op \in Ops \ {"none"} : Q!Begin(op)
         \/ Reads
         \/ Ends
<1>1. ASSUME (\E k \in Kinds : Q!Insert(k)) \/ (\E limit : Q!DeleteBefore(limit)) \/ Q!Tick
      PROVE  Writes
  BY <1>1 DEF Writes, Q!Insert, Q!DeleteBefore, Q!Tick
<1>2. ASSUME Q!Answer \/ Q!Refuse
      PROVE  Ends
  BY <1>2 DEF Ends, Q!Answer, Q!Refuse
<1>3. ASSUME NEW op, NEW step, Q!At(op, step), op # "none",
             NEW x, NEW more \in BOOLEAN, Q!Got(x, more),
             had' = had \/ had' = [had EXCEPT !.failed = TRUE]
      PROVE  Reads
  BY <1>3 DEF Reads, Q!Reading, Q!At
<1>4. Q!NextPage => Reads
  BY <1>3 DEF Q!NextPage, Q!At
<1>5. ASSUME Q!ListCount \/ Q!ListRows \/ Q!Export \/ Q!RealtimeTotal \/ Q!RealtimeErrors
      PROVE  Reads
  BY <1>3, <1>5 DEF Q!ListCount, Q!ListRows, Q!Export, Q!RealtimeTotal, Q!RealtimeErrors
<1>6. ASSUME Q!TrendPoints \/ Q!TrendTotal \/ Q!TrendClasses
      PROVE  Reads
  BY <1>3, <1>6 DEF Q!TrendPoints, Q!TrendTotal, Q!TrendClasses
<1>7. ASSUME Q!TrendPick
      PROVE  Reads
  <2>1. PICK i \in 1..3 :
          /\ Q!At("trend", 2 + i)
          /\ \/ /\ Q!Got(IF reader.got[2] = 0 THEN 0
                         ELSE Q!Pick(reader.got[2], Q!Percents[i]), TRUE)
                /\ had' = had
             \/ Q!Got(0, TRUE) /\ had' = [had EXCEPT !.failed = TRUE]
    BY <1>7 DEF Q!TrendPick
  <2> QED
    BY <1>3, <2>1
<1> QED
  BY <1>1, <1>2, <1>4, <1>5, <1>6, <1>7 DEF Q!Next, Ops

LEMMA TypesOfQueries ==
  ASSUME QueriesTyped, [Q!Next]_(Q!vars)
  PROVE  QueriesTyped'
<1>1. ASSUME NEW k \in Kinds, Q!Insert(k)
      PROVE  QueriesTyped'
  <2>1. PICK at \in 0..now :
          /\ table' = table \cup {[id |-> nextId, at |-> at, kind |-> k]}
          /\ had' = [had EXCEPT !.was =
               IF Q!Reading THEN @ \cup {[id |-> nextId, at |-> at, kind |-> k]} ELSE @]
    BY <1>1 DEF Q!Insert
  <2> DEFINE new == [id |-> nextId, at |-> at, kind |-> k]
  <2>2. new \in LogRow /\ new.id = nextId /\ \A r \in table \cup had.was : r.id # new.id
    BY DEF QueriesTyped, LogRow, IsTable
  <2>3. /\ table' = table \cup {new} /\ nextId' = nextId + 1 /\ reader' = reader /\ now' = now
        /\ had'.was = had.was \/ had'.was = had.was \cup {new}
        /\ Q!Reading => had'.was = had.was \cup {new}
        /\ had'.first = had.first
        /\ had' = [was |-> had'.was, first |-> had'.first, failed |-> had'.failed]
    BY <1>1, <2>1 DEF Q!Insert, QueriesTyped
  <2> HIDE DEF new
  <2>4. ASSUME NEW S, IsTable(S), \A r \in S : r.id # new.id
        PROVE  IsTable(S \cup {new})
    BY <2>2, <2>4, FS_AddElement DEF IsTable
  <2>5. IsTable(table') /\ IsTable(had'.was)
    BY <2>2, <2>3, <2>4 DEF QueriesTyped
  <2>6. nextId' \in Nat /\ \A r \in table' \cup had'.was : r.id < nextId'
    BY <2>2, <2>3 DEF QueriesTyped, IsTable, LogRow
  <2>7. Q!Reading' => table' \subseteq had'.was /\ had'.first <= nextId'
    BY <2>3 DEF QueriesTyped, Q!Reading
  <2> QED
    BY <2>3, <2>5, <2>6, <2>7 DEF QueriesTyped
<1>2. ASSUME NEW limit, Q!DeleteBefore(limit)
      PROVE  QueriesTyped'
  <2>1. table' \subseteq table /\ nextId' = nextId /\ now' = now /\ had' = had /\ reader' = reader
    BY <1>2 DEF Q!DeleteBefore
  <2>2. IsTable(table')
    BY <2>1, FS_Subset DEF QueriesTyped, IsTable
  <2> QED
    BY <2>1, <2>2 DEF QueriesTyped, Q!Reading
<1>3. CASE Q!Tick
  BY <1>3 DEF Q!Tick, QueriesTyped, Q!Reading
<1>4. ASSUME NEW op \in Ops, Q!Begin(op)
      PROVE  QueriesTyped'
  <2>1. Listed(<<>>)
    BY EmptySeq DEF Listed
  <2>2. /\ reader' = [op |-> op, step |-> 1, until |-> now, got |-> <<>>]
        /\ had' = [was |-> table, first |-> nextId, failed |-> FALSE]
        /\ table' = table /\ nextId' = nextId /\ now' = now
    BY <1>4 DEF Q!Begin, Q!Idle, Q!Unread
  <2>3. IsReader(reader')
    BY <2>1, <2>2 DEF IsReader
  <2>4. nextId <= nextId
    BY DEF QueriesTyped
  <2> QED
    BY <2>2, <2>3, <2>4 DEF QueriesTyped
<1>5. CASE Reads
  <2>1. PICK x : \E more \in BOOLEAN : Q!Got(x, more)
    BY <1>5 DEF Reads
  <2>2. /\ IsReader(reader') /\ table' = table /\ nextId' = nextId /\ now' = now
        /\ reader'.op = reader.op
    BY <2>1, PartAdded
  <2>3. /\ had'.was = had.was /\ had'.first = had.first
        /\ had' = [was |-> had'.was, first |-> had'.first, failed |-> had'.failed]
    <3>1. CASE had' = had
      BY <3>1 DEF QueriesTyped
    <3>2. CASE had' = [had EXCEPT !.failed = TRUE]
      BY <3>2 DEF QueriesTyped
    <3> QED
      BY <1>5, <3>1, <3>2 DEF Reads
  <2> QED
    BY <2>2, <2>3 DEF QueriesTyped, Q!Reading
<1>6. CASE Ends
  <2>1. Listed(<<>>) /\ IsFiniteSet({})
    BY EmptySeq, FS_EmptySet DEF Listed
  <2>2. IsReader(reader') /\ reader'.op = "none"
    BY <1>6, <2>1 DEF Ends, Q!Idle, IsReader, Ops
  <2>3. IsTable({})
    BY <2>1 DEF IsTable
  <2>4. had' = [was |-> {}, first |-> 0, failed |-> FALSE]
    BY <1>6 DEF Ends, Q!Unread
  <2> QED
    BY <1>6, <2>2, <2>3, <2>4 DEF Ends, QueriesTyped, Q!Reading
<1>7. CASE UNCHANGED Q!vars
  BY <1>7 DEF Q!vars, QueriesTyped, Q!Reading
<1> QED
  BY <1>1, <1>2, <1>3, <1>4, <1>5, <1>6, <1>7, StepsOfQueries DEF Writes

(* While an answer is made, rows that stayed become fewer, and rows that   *)
(* were ever there, and those of them that are gone, become more.          *)
LEMMA History ==
  ASSUME QueriesTyped, [Q!Next]_(Q!vars), Q!Reading, Q!Reading'
  PROVE  /\ had.was \subseteq had'.was
         /\ Q!Stayed' \cap had'.was \subseteq Q!Stayed
         /\ had.was \ table \subseteq had'.was \ table'
         /\ had.failed => had'.failed
<1>1. ASSUME NEW k \in Kinds, Q!Insert(k)
      PROVE  /\ had.was \subseteq had'.was
             /\ Q!Stayed' \subseteq Q!Stayed
             /\ had.was \ table \subseteq had'.was \ table'
             /\ had.failed => had'.failed
  <2>1. PICK at \in 0..now :
          /\ table' = table \cup {[id |-> nextId, at |-> at, kind |-> k]}
          /\ had' = [had EXCEPT !.was =
               IF Q!Reading THEN @ \cup {[id |-> nextId, at |-> at, kind |-> k]} ELSE @]
    BY <1>1 DEF Q!Insert
  <2> DEFINE new == [id |-> nextId, at |-> at, kind |-> k]
  <2>2. /\ table' = table \cup {new} /\ had'.was = had.was \cup {new}
        /\ had'.first = had.first /\ had'.failed = had.failed
    <3>1. had' = [had EXCEPT !.was = had.was \cup {new}]
      BY <2>1
    <3>2. had = [was |-> had.was, first |-> had.first, failed |-> had.failed]
      BY DEF QueriesTyped
    <3>3. table' = table \cup {new}
      BY <2>1
    <3> HIDE DEF new
    <3> QED
      BY ONLY <3>1, <3>2, <3>3
  <2>3. new.id = nextId /\ ~(new.id < had.first) /\ new \notin had.was
    BY DEF QueriesTyped
  <2> HIDE DEF new
  <2> QED
    BY <2>2, <2>3 DEF Q!Stayed
<1>2. ASSUME NEW limit, Q!DeleteBefore(limit)
      PROVE  table' \subseteq table /\ had' = had
  BY <1>2 DEF Q!DeleteBefore
<1>3. CASE Reads
  <2>1. table' = table
    BY <1>3 DEF Reads, Q!Got
  <2>2. /\ had'.was = had.was /\ had'.first = had.first
        /\ had.failed => had'.failed
    BY <1>3 DEF Reads, QueriesTyped
  <2> QED
    BY <2>1, <2>2 DEF Q!Stayed
<1>4. CASE Q!Tick \/ UNCHANGED Q!vars
  BY <1>4 DEF Q!Tick, Q!vars, Q!Stayed
<1>5. ~Ends /\ ~ \E op \in Ops \ {"none"} : Q!Begin(op)
  <2>1. ASSUME Ends PROVE FALSE
    <3>1. reader'.op = "none"
      BY <2>1 DEF Ends, Q!Idle
    <3> QED
      BY <3>1 DEF Q!Reading
  <2>2. ASSUME NEW op, Q!Begin(op) PROVE FALSE
    BY <2>2 DEF Q!Begin
  <2> QED
    BY <2>1, <2>2
<1>6. ASSUME NEW limit, Q!DeleteBefore(limit)
      PROVE  Q!Stayed' \subseteq Q!Stayed
  BY <1>2, <1>6 DEF Q!Stayed
<1> QED
  BY <1>1, <1>2, <1>3, <1>4, <1>5, <1>6, StepsOfQueries DEF Writes

-----------------------------------------------------------------------------
(* A walk over the pages: a row that was there all the time has been seen, *)
(* or is as far down the list as the next page is, or below one that was   *)
(* deleted.                                                                *)
Newer(r) == {q \in Q!Matching : q.id > r.id}
Read(pages) == UNION {Q!ToSet(pages[i]) : i \in DOMAIN pages}
BelowDeleted(r) == \E g \in Q!Matched(had.was) \ table : g.id > r.id

Walking ==
  reader.op = "walk" =>
    /\ reader.step > 0 =>
         /\ Len(reader.got) = reader.step - 1
         /\ \A r \in Q!Matched(Q!Stayed) :
              \/ r \in Read(reader.got) \/ BelowDeleted(r)
              \/ Cardinality(Newer(r)) >= reader.step - 1
    /\ reader.step = 0 => Q!MissesOnlyBelowDeleted

LEMMA QuerySizes ==
  /\ Q!Size(1) = 1
  /\ \A k \in Nat \ {0} : Q!Offset(k, 1) = k - 1
BY OperationAssumption DEF Q!QueryAssumption, Q!Size, Q!Offset

LEMMA LesserOf ==
  ASSUME NEW a \in Int, NEW b \in Int
  PROVE  Q!Min({a, b}) = IF a <= b THEN a ELSE b
<1>1. \A x \in {a, b} : (\A y \in {a, b} : x <= y) <=> x = IF a <= b THEN a ELSE b
  OBVIOUS
<1> QED
  BY <1>1 DEF Q!Min

LEMMA MatchingIsTable == QueriesTyped => IsTable(Q!Matching) /\ Q!Matching \subseteq table
BY FS_Subset DEF QueriesTyped, IsTable, Q!Matching, Q!Matched

LEMMA NewerIsFinite ==
  ASSUME QueriesTyped, NEW r
  PROVE  IsFiniteSet(Newer(r)) /\ Cardinality(Newer(r)) \in Nat
BY MatchingIsTable, FS_Subset, FS_CardinalityType DEF Newer, IsTable

(* What follows the first b elements of a list, up to its e-th.            *)
LEMMA Following ==
  ASSUME NEW S, NEW s \in Seq(S), NEW b \in Nat, NEW e \in Nat, e <= Len(s),
         NEW t, t = SubSeq(s, b + 1, e)
  PROVE  /\ Len(t) = IF b + 1 <= e THEN e - b ELSE 0
         /\ \A i \in 1..Len(t) : t[i] = s[b + i] /\ b + i \in 1..Len(s)
         /\ DOMAIN t = 1..Len(t)
<1> DEFINE m == b + 1
<1>1. m \in Int /\ e \in Int
  OBVIOUS
<1>2. \A i \in m..e : s[i] \in S
  BY ElementOfSeq
<1> HIDE DEF m
<1>3. /\ SubSeq(s, m, e) \in Seq(S)
      /\ Len(SubSeq(s, m, e)) = IF m <= e THEN e - m + 1 ELSE 0
      /\ \A i \in 1..(e - m + 1) : SubSeq(s, m, e)[i] = s[m + i - 1]
  BY <1>1, <1>2, SubSeqProperties
<1>4. /\ t \in Seq(S) /\ Len(t) = IF m <= e THEN e - m + 1 ELSE 0
      /\ \A i \in 1..(e - m + 1) : t[i] = s[m + i - 1]
  BY <1>3 DEF m
<1>5. e - m + 1 = e - b /\ \A i \in Int : m + i - 1 = b + i
  BY DEF m
<1>6. Len(t) = IF b + 1 <= e THEN e - b ELSE 0
  BY <1>4, <1>5 DEF m
<1>7. ASSUME NEW i \in 1..Len(t)
      PROVE  t[i] = s[b + i] /\ b + i \in 1..Len(s)
  <2>1. i \in Int /\ 1 <= i /\ i <= e - b
    BY <1>6
  <2>2. i \in 1..(e - m + 1) /\ t[i] = s[m + i - 1]
    BY <1>4, <1>5, <2>1
  <2>3. b + i \in Nat /\ 1 <= b + i /\ b + i <= e /\ Len(s) \in Nat
    BY <2>1
  <2>4. b + i \in 1..Len(s)
    BY <2>3
  <2> QED
    BY <1>5, <2>1, <2>2, <2>4
<1> QED
  BY <1>4, <1>6, <1>7

(* The k-th page of one row is the k-th row, newest first.                 *)
LEMMA PageAt ==
  ASSUME QueriesTyped, NEW k \in Nat \ {0}, NEW r \in Q!Matching,
         Cardinality(Newer(r)) >= k - 1
  PROVE  /\ Len(Q!ListLogs(k, 1)) # 0
         /\ r \in Q!ToSet(Q!ListLogs(k, 1)) \/ Cardinality(Newer(r)) >= k
<1> DEFINE all == Q!Ordered(Q!Matching, Q!NewestFirst(Q!Matching))
           page == Q!ListLogs(k, 1)
           place == Cardinality(Newer(r)) + 1
<1>1. /\ all \in Seq(Q!Matching) /\ Len(all) \in Nat
      /\ place \in 1..Len(all) /\ all[place] = r
  BY MatchingIsTable, NewestAreFirst DEF Newer
<1>2. Cardinality(Newer(r)) \in Nat
  BY NewerIsFinite
<1>3. page = SubSeq(all, (k - 1) + 1, Q!Min({(k - 1) + 1, Len(all)}))
  <2>1. ~(k < 1)
    OBVIOUS
  <2> QED
    BY <2>1, QuerySizes DEF Q!ListLogs
<1> HIDE DEF all, page, place
<1>4. k <= Len(all)
  BY <1>1, <1>2 DEF place
<1>5. page = SubSeq(all, k, k)
  <2>1. (k - 1) + 1 = k /\ k \in Int /\ Len(all) \in Int
    BY <1>1
  <2>2. Q!Min({k, Len(all)}) = k
    BY <1>4, <2>1, LesserOf
  <2> QED
    BY <1>3, <2>1, <2>2
<1>6. Len(page) = 1 /\ page[1] = all[k] /\ DOMAIN page = 1..1
  <2>1. k - 1 \in Nat /\ (k - 1) + 1 = k /\ k \in Nat /\ k - (k - 1) = 1
    OBVIOUS
  <2>2. page = SubSeq(all, (k - 1) + 1, k)
    BY <1>5, <2>1
  <2>3. /\ Len(page) = IF (k - 1) + 1 <= k THEN k - (k - 1) ELSE 0
        /\ \A i \in 1..Len(page) : page[i] = all[(k - 1) + i]
        /\ DOMAIN page = 1..Len(page)
    BY <1>1, <1>4, <2>1, <2>2, Following
  <2>4. Len(page) = 1
    BY <2>1, <2>3
  <2> QED
    BY <2>1, <2>3, <2>4
<1>7. CASE place = k
  BY <1>1, <1>6, <1>7 DEF Q!ToSet, page
<1>8. CASE place # k
  BY <1>2, <1>6, <1>8 DEF place, page
<1> QED
  BY <1>7, <1>8, <1>6 DEF page

(* As long as no row above a row that stays is deleted, the rows that come *)
(* before it are never fewer.                                              *)
LEMMA NeverFewer ==
  ASSUME QueriesTyped, [Q!Next]_(Q!vars), Q!Reading, Q!Reading', NEW r \in Q!Matched(Q!Stayed)'
  PROVE  /\ r \in Q!Matched(Q!Stayed)
         /\ BelowDeleted(r) => BelowDeleted(r)'
         /\ BelowDeleted(r)' \/ Cardinality(Newer(r)) <= Cardinality(Newer(r)')
<1>1. /\ had.was \subseteq had'.was
      /\ Q!Stayed' \cap had'.was \subseteq Q!Stayed
      /\ had.was \ table \subseteq had'.was \ table'
  BY History
<1>2. r \in Q!Matched(Q!Stayed)
  BY <1>1 DEF Q!Matched, Q!Stayed
<1>3. BelowDeleted(r) => BelowDeleted(r)'
  BY <1>1 DEF BelowDeleted, Q!Matched
<1>4. table \subseteq had.was
  BY DEF QueriesTyped
<1>5. ASSUME ~BelowDeleted(r)'
      PROVE  Newer(r) \subseteq Newer(r)'
  BY <1>1, <1>4, <1>5 DEF BelowDeleted, Newer, Q!Matching, Q!Matched
<1>6. IsFiniteSet(Newer(r)')
  <2>1. QueriesTyped'
    BY TypesOfQueries
  <2>2. IsFiniteSet(table')
    BY <2>1 DEF QueriesTyped, IsTable
  <2> QED
    BY <2>2, FS_Subset DEF Newer, Q!Matching, Q!Matched
<1> QED
  BY <1>2, <1>3, <1>5, <1>6, FS_Subset

(* The steps of a walk.                                                    *)
LEMMA StepsOfWalks ==
  ASSUME reader.op = "walk", Q!Next
  PROVE  Q!NextPage \/ Writes \/ Ends
<1>1. ASSUME \/ Q!ListCount \/ Q!ListRows \/ Q!Export \/ Q!RealtimeTotal \/ Q!RealtimeErrors
             \/ Q!TrendPoints \/ Q!TrendTotal \/ Q!TrendPick \/ Q!TrendClasses
      PROVE  FALSE
  BY <1>1 DEF Q!ListCount, Q!ListRows, Q!Export, Q!At,
     Q!RealtimeTotal, Q!RealtimeErrors, Q!TrendPoints, Q!TrendTotal, Q!TrendPick, Q!TrendClasses
<1>2. ASSUME NEW op, Q!Begin(op)
      PROVE  FALSE
  BY <1>2 DEF Q!Begin, Q!Reading
<1>3. Q!Answer \/ Q!Refuse => Ends
  BY DEF Ends, Q!Answer, Q!Refuse
<1>4. ASSUME (\E k \in Kinds : Q!Insert(k)) \/ (\E limit : Q!DeleteBefore(limit)) \/ Q!Tick
      PROVE  Writes
  BY <1>4 DEF Writes, Q!Insert, Q!DeleteBefore, Q!Tick
<1> QED
  BY <1>1, <1>2, <1>3, <1>4 DEF Q!Next

LEMMA PageRead ==
  ASSUME QueriesTyped, Walking, Q!NextPage, NEW page, page = Q!ListLogs(reader.step, 1)
  PROVE  /\ reader.op = "walk" /\ reader'.op = "walk" /\ reader.step \in Nat \ {0}
         /\ reader'.step \in {0, reader.step + 1}
         /\ Len(reader'.got) = reader.step /\ reader'.got[reader.step] = page
         /\ Read(reader.got) \subseteq Read(reader'.got)
         /\ Q!ToSet(page) \subseteq Read(reader'.got)
         /\ table' = table /\ had' = had
<1> DEFINE k == reader.step
           more == Len(page) = 1 /\ k < MaxPages
<1>1. /\ reader.op = "walk" /\ k \in Nat \ {0} /\ Q!Got(page, more) /\ had' = had
      /\ more \in BOOLEAN
  BY DEF Q!NextPage, QueriesTyped, IsReader
<1> HIDE DEF more
<1>2. /\ reader'.op = reader.op /\ reader'.step = (IF more THEN k + 1 ELSE 0)
      /\ Len(reader'.got) = Len(reader.got) + 1
      /\ DOMAIN reader.got = 1..Len(reader.got)
      /\ DOMAIN reader'.got = 1..(Len(reader.got) + 1)
      /\ \A i \in 1..Len(reader.got) : reader'.got[i] = reader.got[i]
      /\ reader'.got[Len(reader.got) + 1] = page
      /\ table' = table
  BY <1>1, PartAdded
<1>3. Len(reader.got) = k - 1
  BY <1>1 DEF Walking
<1>4. /\ Len(reader'.got) = k /\ reader'.got[k] = page
      /\ DOMAIN reader.got = 1..(k - 1) /\ DOMAIN reader'.got = 1..k
      /\ \A i \in 1..(k - 1) : reader'.got[i] = reader.got[i]
  BY <1>1, <1>2, <1>3
<1>5. /\ Read(reader.got) \subseteq Read(reader'.got)
      /\ Q!ToSet(page) \subseteq Read(reader'.got)
  BY <1>1, <1>4 DEF Read
<1> QED
  BY <1>1, <1>2, <1>4, <1>5

LEMMA WalkStep ==
  ASSUME QueriesTyped, Walking, [Q!Next]_(Q!vars)
  PROVE  Walking'
<1>1. \A r : Cardinality(Newer(r)) \in Nat /\ Cardinality(Newer(r)') \in Nat
  <2>1. QueriesTyped'
    BY TypesOfQueries
  <2>2. IsFiniteSet(table')
    BY <2>1 DEF QueriesTyped, IsTable
  <2>3. \A r : Cardinality(Newer(r)') \in Nat
    BY <2>2, FS_Subset, FS_CardinalityType DEF Newer, Q!Matching, Q!Matched
  <2> QED
    BY <2>3, NewerIsFinite
<1>2. CASE reader' = reader
  <2> SUFFICES ASSUME reader.op = "walk" PROVE Walking'
    BY <1>2 DEF Walking
  <2>1. Q!Reading /\ Q!Reading' /\ reader.step \in Nat
    BY <1>2 DEF Q!Reading, QueriesTyped, IsReader
  <2>2. ASSUME reader.step > 0, NEW r \in Q!Matched(Q!Stayed)'
        PROVE  \/ r \in Read(reader.got) \/ BelowDeleted(r)'
               \/ Cardinality(Newer(r)') >= reader.step - 1
    <3>1. /\ r \in Q!Matched(Q!Stayed)
          /\ BelowDeleted(r) => BelowDeleted(r)'
          /\ BelowDeleted(r)' \/ Cardinality(Newer(r)) <= Cardinality(Newer(r)')
      BY <2>1, NeverFewer
    <3>2. r \in Read(reader.got) \/ BelowDeleted(r) \/ Cardinality(Newer(r)) >= reader.step - 1
      BY <2>2, <3>1 DEF Walking
    <3> HIDE DEF BelowDeleted, Newer, Read
    <3> QED
      BY <1>1, <2>1, <3>1, <3>2
  <2>3. ASSUME reader.step = 0, Q!Walked'
        PROVE  \A r \in Q!Missed' : \E g \in (Q!Matched(had.was) \ table)' : g.id > r.id
    <3> SUFFICES ASSUME NEW r \in Q!Missed'
                 PROVE  BelowDeleted(r)'
      BY DEF BelowDeleted
    <3>1. /\ r \in Q!Matched(Q!Stayed)
          /\ BelowDeleted(r) => BelowDeleted(r)'
      BY <2>1, NeverFewer DEF Q!Missed
    <3>2. Q!Walked /\ r \in Q!Missed
      BY <1>2, <2>3, <3>1 DEF Q!Walked, Q!Done, Q!Missed
    <3>3. BelowDeleted(r)
      BY <2>3, <3>2 DEF Walking, Q!MissesOnlyBelowDeleted, BelowDeleted
    <3> QED
      BY <3>1, <3>3
  <2> QED
    BY <1>2, <2>2, <2>3 DEF Walking, Q!MissesOnlyBelowDeleted
<1>3. CASE Q!NextPage
  <2> DEFINE k == reader.step
             page == Q!ListLogs(k, 1)
  <2>1. /\ reader.op = "walk" /\ reader'.op = "walk" /\ k \in Nat \ {0}
        /\ reader'.step \in {0, k + 1}
        /\ Len(reader'.got) = k /\ reader'.got[k] = page
        /\ Read(reader.got) \subseteq Read(reader'.got)
        /\ Q!ToSet(page) \subseteq Read(reader'.got)
        /\ table' = table /\ had' = had
    BY <1>3, PageRead
  <2> HIDE DEF page
  <2>3. /\ Len(reader.got) = k - 1
        /\ \A r \in Q!Matched(Q!Stayed) :
             r \in Read(reader.got) \/ BelowDeleted(r) \/ Cardinality(Newer(r)) >= k - 1
    BY <2>1 DEF Walking
  <2>6. ASSUME NEW r \in Q!Matched(Q!Stayed), r \notin Read(reader'.got), ~BelowDeleted(r)
        PROVE  Len(page) # 0 /\ Cardinality(Newer(r)) >= k
    <3>1. r \in Q!Matching /\ Cardinality(Newer(r)) >= k - 1
      BY <2>1, <2>3, <2>6 DEF Q!Matching, Q!Matched, Q!Stayed
    <3> QED
      BY <2>1, <2>6, <3>1, PageAt DEF page
  <2>7. /\ Q!Matched(Q!Stayed)' = Q!Matched(Q!Stayed)
        /\ \A r : Newer(r)' = Newer(r) /\ (BelowDeleted(r)' <=> BelowDeleted(r))
    BY <2>1 DEF Newer, Q!Matching, Q!Matched, Q!Stayed, BelowDeleted
  <2>8. Q!MissesOnlyBelowDeleted'
    <3> SUFFICES ASSUME Q!Walked', NEW r \in Q!Missed'
                 PROVE  BelowDeleted(r)'
      BY DEF Q!MissesOnlyBelowDeleted, BelowDeleted
    <3>1. Len(page) = 0
      BY <2>1 DEF Q!Walked
    <3>2. r \in Q!Matched(Q!Stayed) /\ r \notin Read(reader'.got)
      BY <2>7 DEF Q!Missed, Read
    <3> QED
      BY <2>6, <2>7, <3>1, <3>2
  <2>9. reader'.step > 0 =>
          /\ Len(reader'.got) = reader'.step - 1
          /\ \A r \in Q!Matched(Q!Stayed)' :
               r \in Read(reader'.got) \/ BelowDeleted(r)'
                 \/ Cardinality(Newer(r)') >= reader'.step - 1
    <3> SUFFICES ASSUME reader'.step > 0
                 PROVE  /\ Len(reader'.got) = reader'.step - 1
                        /\ \A r \in Q!Matched(Q!Stayed)' :
                             r \in Read(reader'.got) \/ BelowDeleted(r)'
                               \/ Cardinality(Newer(r)') >= reader'.step - 1
      OBVIOUS
    <3>1. reader'.step = k + 1 /\ reader'.step - 1 = k
      BY <2>1
    <3> QED
      BY <2>1, <2>6, <2>7, <3>1
  <2> QED
    BY <2>8, <2>9 DEF Walking
<1>4. ASSUME NEW op \in Ops, Q!Begin(op)
      PROVE  Walking'
  <2>1. reader' = [op |-> op, step |-> 1, until |-> now, got |-> <<>>]
    BY <1>4 DEF Q!Begin, Q!Idle
  <2>2. \A r : Cardinality(Newer(r)') >= reader'.step - 1
    BY <1>1, <2>1
  <2> QED
    BY <2>1, <2>2 DEF Walking
<1>5. CASE Ends
  BY <1>5 DEF Ends, Q!Idle, Walking
<1>6. CASE Reads /\ reader.op # "walk"
  <2>1. reader'.op = reader.op
    BY <1>6, PartAdded DEF Reads
  <2> QED
    BY <1>6, <2>1 DEF Walking
<1>8. CASE UNCHANGED Q!vars
  BY <1>2, <1>8 DEF Q!vars
<1> QED
  BY <1>2, <1>3, <1>4, <1>5, <1>6, <1>8, StepsOfQueries, StepsOfWalks DEF Writes, Reads

LEMMA QueriesInit == Q!Init => QueriesTyped /\ Walking
<1> SUFFICES ASSUME Q!Init PROVE QueriesTyped /\ Walking
  OBVIOUS
<1>1. Listed(<<>>) /\ IsFiniteSet({})
  BY EmptySeq, FS_EmptySet DEF Listed
<1>2. IsReader(reader) /\ reader.op = "none"
  BY <1>1 DEF Q!Init, Q!Idle, IsReader, Ops
<1>3. had = [was |-> {}, first |-> 0, failed |-> FALSE]
  BY DEF Q!Init, Q!Unread
<1> QED
  BY <1>1, <1>2, <1>3 DEF Q!Init, QueriesTyped, IsTable, Walking, Q!Reading

(* A client that goes over the pages, newest first, misses a matching row  *)
(* that was there all the time only below a row that was deleted meanwhile *)
(* and never because of an insert, for any rows with any times, however    *)
(* many are inserted and deleted under it (ListLogs, DeleteLogsBefore).    *)
THEOREM WalksMissOnlyBelowDeleted == Q!Spec => []MissesOnlyBelowDeleted
<1>1. QueriesTyped /\ Walking => Q!MissesOnlyBelowDeleted
  BY DEF Walking, Q!MissesOnlyBelowDeleted, Q!Walked, Q!Done
<1> QED
  BY <1>1, QueriesInit, TypesOfQueries, WalkStep, PTL DEF Q!Spec, MissesOnlyBelowDeleted

-----------------------------------------------------------------------------
(* How many rows a walk misses.  A deletion moves rows up the list, past   *)
(* the next page: no more of them than it deletes, since no two rows have  *)
(* as many before them.                                                    *)
Gone == Q!Matched(had.was) \ table
Passed(n) == {r \in Q!Matched(Q!Stayed) \ Read(reader.got) : Cardinality(Newer(r)) < n}

Balanced ==
  reader.op = "walk" =>
    /\ reader.step > 0 => Cardinality(Passed(reader.step - 1)) <= Cardinality(Gone)
    /\ reader.step = 0 => Q!MissesNoMoreThanDeleted

LEMMA GoneIsFinite ==
  ASSUME QueriesTyped
  PROVE  IsFiniteSet(Gone) /\ Cardinality(Gone) \in Nat
BY FS_Subset, FS_CardinalityType DEF Gone, Q!Matched, QueriesTyped, IsTable

LEMMA PassedIsFinite ==
  ASSUME QueriesTyped, NEW n
  PROVE  IsFiniteSet(Passed(n)) /\ Cardinality(Passed(n)) \in Nat
BY FS_Subset, FS_CardinalityType DEF Passed, Q!Matched, Q!Stayed, QueriesTyped, IsTable

(* No two rows have as many newer ones.                                    *)
LEMMA PlacesDiffer ==
  ASSUME QueriesTyped, NEW r \in Q!Matching, NEW q \in Q!Matching,
         Cardinality(Newer(r)) = Cardinality(Newer(q))
  PROVE  r = q
<1> DEFINE all == Q!Ordered(Q!Matching, Q!NewestFirst(Q!Matching))
           Place(x) == Cardinality({y \in Q!Matching : y.id > x.id}) + 1
<1>1. IsTable(Q!Matching)
  BY MatchingIsTable
<1>2. \A x \in Q!Matching : all[Place(x)] = x
  BY <1>1, NewestAreFirst
<1>3. Place(r) = Place(q)
  BY DEF Newer
<1> HIDE DEF all, Place
<1> QED
  BY <1>2, <1>3

(* Rows with different numbers from n on, below n + m, are m at most.      *)
LEMMA NumberedRows ==
  ASSUME NEW S, NEW f \in [S -> Int], NEW n \in Nat, NEW m \in Nat,
         \A r \in S : n <= f[r] /\ f[r] < n + m,
         \A r, q \in S : f[r] = f[q] => r = q
  PROVE  IsFiniteSet(S) /\ Cardinality(S) <= m
<1> DEFINE I == n..(n + m - 1)
<1>1. IsFiniteSet(I) /\ Cardinality(I) = m
  <2>1. n \in Int /\ n + m - 1 \in Int
    OBVIOUS
  <2>2. IsFiniteSet(I) /\ Cardinality(I) = IF n > n + m - 1 THEN 0 ELSE (n + m - 1) - n + 1
    BY ONLY <2>1, FS_Interval
  <2>3. (IF n > n + m - 1 THEN 0 ELSE (n + m - 1) - n + 1) = m
    OBVIOUS
  <2> QED
    BY <2>2, <2>3
<1>2. f \in [S -> I]
  OBVIOUS
<1> HIDE DEF I
<1>3. f \in Injection(S, I)
  BY <1>2, Fun_IsInj
<1> QED
  BY <1>1, <1>3, FS_Injection

LEMMA UnionAtMost ==
  ASSUME NEW S, IsFiniteSet(S), NEW T, IsFiniteSet(T)
  PROVE  /\ IsFiniteSet(S \cup T) /\ Cardinality(S \cup T) \in Nat
         /\ Cardinality(S \cup T) <= Cardinality(S) + Cardinality(T)
<1>1. /\ IsFiniteSet(S \cup T) /\ IsFiniteSet(S \cap T)
      /\ Cardinality(S \cup T) = Cardinality(S) + Cardinality(T) - Cardinality(S \cap T)
  BY FS_Union, FS_Intersection
<1>2. /\ Cardinality(S) \in Nat /\ Cardinality(T) \in Nat
      /\ Cardinality(S \cup T) \in Nat /\ Cardinality(S \cap T) \in Nat
  BY <1>1, FS_CardinalityType
<1> QED
  BY <1>1, <1>2

(* What a step of the writers lets slip by.                                *)
LEMMA PassedLater ==
  ASSUME QueriesTyped, [Q!Next]_(Q!vars), Q!Reading, reader' = reader, NEW n \in Nat,
         Cardinality(Passed(n)) <= Cardinality(Gone)
  PROVE  Cardinality(Passed(n)') <= Cardinality(Gone')
<1> DEFINE Removed == Q!Matching \ table'
           Slid == {r \in Q!Matched(Q!Stayed)' :
                      Cardinality(Newer(r)) >= n /\ Cardinality(Newer(r)') < n}
           m == Cardinality(Removed)
<1>1. Q!Reading' /\ QueriesTyped'
  BY TypesOfQueries DEF Q!Reading
<1>2. /\ had.was \subseteq had'.was
      /\ had.was \ table \subseteq had'.was \ table'
  BY <1>1, History
<1>3. \A r \in Q!Matched(Q!Stayed)' : r \in Q!Matched(Q!Stayed)
  BY <1>1, NeverFewer
<1>4. \A r : /\ IsFiniteSet(Newer(r)) /\ Cardinality(Newer(r)) \in Nat
             /\ IsFiniteSet(Newer(r)') /\ Cardinality(Newer(r)') \in Nat
  <2>1. IsFiniteSet(table')
    BY <1>1 DEF QueriesTyped, IsTable
  <2>2. \A r : IsFiniteSet(Newer(r)') /\ Cardinality(Newer(r)') \in Nat
    BY <2>1, FS_Subset, FS_CardinalityType DEF Newer, Q!Matching, Q!Matched
  <2> QED
    BY <2>2, NewerIsFinite
<1>5. IsFiniteSet(Removed) /\ m \in Nat
  BY MatchingIsTable, FS_Subset, FS_CardinalityType DEF IsTable
<1>6. Passed(n)' \subseteq Passed(n) \cup Slid
  <2> SUFFICES ASSUME NEW r \in Passed(n)', r \notin Slid
               PROVE  r \in Passed(n)
    OBVIOUS
  <2>1. r \in Q!Matched(Q!Stayed)' /\ r \notin Read(reader.got) /\ Cardinality(Newer(r)') < n
    BY DEF Passed, Read
  <2>2. ~(Cardinality(Newer(r)) >= n)
    BY <2>1
  <2>3. Cardinality(Newer(r)) < n
    BY <1>4, <2>2
  <2> QED
    BY <1>3, <2>1, <2>3 DEF Passed
<1>7. IsFiniteSet(Slid) /\ Cardinality(Slid) <= m
  <2> DEFINE f == [r \in Slid |-> Cardinality(Newer(r))]
  <2>1. ASSUME NEW r \in Slid
        PROVE  Cardinality(Newer(r)) < n + m
    <3>1. Newer(r) \subseteq Newer(r)' \cup Removed
      BY DEF Newer, Q!Matching, Q!Matched
    <3>2. /\ IsFiniteSet(Newer(r)' \cup Removed)
          /\ Cardinality(Newer(r)' \cup Removed) \in Nat
          /\ Cardinality(Newer(r)' \cup Removed) <= Cardinality(Newer(r)') + m
      BY <1>4, <1>5, UnionAtMost
    <3>3. Cardinality(Newer(r)) <= Cardinality(Newer(r)' \cup Removed)
      BY <3>1, <3>2, FS_Subset
    <3>4. Cardinality(Newer(r)') < n
      OBVIOUS
    <3> HIDE DEF Slid, m, Removed
    <3>5. Cardinality(Newer(r)) \in Nat /\ Cardinality(Newer(r)') \in Nat /\ m \in Nat
      BY <1>4, <1>5
    <3> QED
      BY <3>2, <3>3, <3>4, <3>5
  <2>2. \A r \in Slid : Cardinality(Newer(r)) >= n /\ r \in Q!Matching
    BY <1>3 DEF Q!Matching, Q!Matched, Q!Stayed
  <2> HIDE DEF Slid, m
  <2>3. f \in [Slid -> Int] /\ \A r \in Slid : n <= f[r] /\ f[r] < n + m
    BY <1>4, <2>1, <2>2
  <2>4. \A r, q \in Slid : f[r] = f[q] => r = q
    BY <2>2, PlacesDiffer
  <2> HIDE DEF f
  <2> QED
    BY <1>5, <2>3, <2>4, NumberedRows
<1>8. Cardinality(Gone) + m <= Cardinality(Gone')
  <2>1. Gone \cap Removed = {}
    BY DEF Gone, Q!Matching, Q!Matched
  <2>2. Gone \cup Removed \subseteq Gone'
    BY <1>2 DEF Gone, Q!Matching, Q!Matched, QueriesTyped
  <2>3. IsFiniteSet(Gone) /\ Cardinality(Gone) \in Nat
    BY GoneIsFinite
  <2>4. Cardinality(Gone \cup Removed) = Cardinality(Gone) + m
    <3>1. Cardinality(Gone \cup Removed)
            = Cardinality(Gone) + Cardinality(Removed) - Cardinality({})
      BY <1>5, <2>1, <2>3, FS_Union
    <3> HIDE DEF Removed
    <3> QED
      BY <1>5, <2>3, <3>1, FS_EmptySet
  <2>5. IsFiniteSet(Gone')
    <3>1. IsFiniteSet(had'.was) /\ Gone' \subseteq had'.was
      BY <1>1 DEF QueriesTyped, IsTable, Gone, Q!Matched
    <3> QED
      BY <3>1, FS_Subset
  <2> QED
    BY <2>2, <2>4, <2>5, FS_Subset
<1>9. Cardinality(Passed(n)') <= Cardinality(Passed(n)) + m
  <2>1. IsFiniteSet(Passed(n)) /\ Cardinality(Passed(n)) \in Nat
    BY PassedIsFinite
  <2> HIDE DEF Slid, m
  <2>2. /\ IsFiniteSet(Passed(n) \cup Slid) /\ Cardinality(Passed(n) \cup Slid) \in Nat
        /\ Cardinality(Passed(n) \cup Slid) <= Cardinality(Passed(n)) + Cardinality(Slid)
    BY <1>7, <2>1, UnionAtMost
  <2>3. Cardinality(Passed(n)') <= Cardinality(Passed(n) \cup Slid) /\ Cardinality(Passed(n)') \in Nat
    BY <1>6, <2>2, FS_Subset, FS_CardinalityType
  <2>4. Cardinality(Slid) \in Nat
    BY <1>7, FS_CardinalityType
  <2> QED
    BY <1>5, <1>7, <2>1, <2>2, <2>3, <2>4
<1>10. /\ Cardinality(Passed(n)) \in Nat /\ Cardinality(Gone) \in Nat
       /\ Cardinality(Passed(n)') \in Nat /\ Cardinality(Gone') \in Nat
  <2>1. Cardinality(Passed(n)') \in Nat /\ Cardinality(Gone') \in Nat
    <3>1. IsFiniteSet(table') /\ IsFiniteSet(had'.was)
      BY <1>1 DEF QueriesTyped, IsTable
    <3>2. Passed(n)' \subseteq table' /\ Gone' \subseteq had'.was
      BY DEF Passed, Gone, Q!Matched, Q!Stayed
    <3> QED
      BY <3>1, <3>2, FS_Subset, FS_CardinalityType
  <2> QED
    BY <2>1, PassedIsFinite, GoneIsFinite
<1> HIDE DEF m
<1> QED
  BY <1>5, <1>8, <1>9, <1>10

(* After the last page, what was missed becomes no more.                   *)
LEMMA MissedLater ==
  ASSUME QueriesTyped, [Q!Next]_(Q!vars), Q!Reading, reader' = reader,
         Q!MissesNoMoreThanDeleted
  PROVE  Q!MissesNoMoreThanDeleted'
<1> SUFFICES ASSUME Q!Walked'
             PROVE  Cardinality(Q!Missed') <= Cardinality(Gone')
  BY CardinalityOfQueries DEF Q!MissesNoMoreThanDeleted, Gone
<1>1. Q!Reading' /\ QueriesTyped'
  BY TypesOfQueries DEF Q!Reading
<1>2. Q!Walked /\ Cardinality(Q!Missed) <= Cardinality(Gone)
  BY CardinalityOfQueries DEF Q!MissesNoMoreThanDeleted, Gone, Q!Walked, Q!Done
<1>3. Q!Missed' \subseteq Q!Missed
  BY <1>1, NeverFewer DEF Q!Missed
<1>4. Gone \subseteq Gone'
  BY <1>1, History DEF Gone, Q!Matched
<1>5. IsFiniteSet(Q!Missed) /\ IsFiniteSet(Gone')
  <2>1. IsFiniteSet(table) /\ IsFiniteSet(had'.was)
    BY <1>1 DEF QueriesTyped, IsTable
  <2> QED
    BY <2>1, FS_Subset DEF Q!Missed, Gone, Q!Matched, Q!Stayed
<1>6. /\ Cardinality(Q!Missed') <= Cardinality(Q!Missed)
      /\ Cardinality(Gone) <= Cardinality(Gone')
  BY <1>3, <1>4, <1>5, FS_Subset
<1>7. /\ Cardinality(Q!Missed) \in Nat /\ Cardinality(Q!Missed') \in Nat
      /\ Cardinality(Gone) \in Nat /\ Cardinality(Gone') \in Nat
  BY <1>3, <1>4, <1>5, FS_Subset, FS_CardinalityType
<1> QED
  BY <1>2, <1>6, <1>7

LEMMA BalanceStep ==
  ASSUME QueriesTyped, Walking, Balanced, [Q!Next]_(Q!vars)
  PROVE  Balanced'
<1>1. CASE reader' = reader
  <2> SUFFICES ASSUME reader.op = "walk" PROVE Balanced'
    BY <1>1 DEF Balanced
  <2>1. Q!Reading /\ reader.step \in Nat
    BY DEF Q!Reading, QueriesTyped, IsReader
  <2>2. ASSUME reader.step > 0
        PROVE  Cardinality(Passed(reader.step - 1)') <= Cardinality(Gone')
    <3>1. PICK n \in Nat : n = reader.step - 1
      BY <2>1, <2>2
    <3>2. Passed(n) = Passed(reader.step - 1) /\ Passed(n)' = Passed(reader.step - 1)'
      BY <1>1, <3>1 DEF Passed
    <3>3. Cardinality(Passed(n)) <= Cardinality(Gone)
      BY <2>2, <3>2 DEF Balanced
    <3>4. Cardinality(Passed(n)') <= Cardinality(Gone')
      BY <1>1, <2>1, <3>3, PassedLater
    <3> QED
      BY <3>2, <3>4
  <2>3. reader.step = 0 => Q!MissesNoMoreThanDeleted'
    BY <1>1, <2>1, MissedLater DEF Balanced
  <2> QED
    BY <1>1, <2>2, <2>3 DEF Balanced
<1>2. CASE Q!NextPage
  <2> DEFINE k == reader.step
             page == Q!ListLogs(k, 1)
  <2>1. /\ reader.op = "walk" /\ reader'.op = "walk" /\ k \in Nat \ {0}
        /\ reader'.step \in {0, k + 1}
        /\ Len(reader'.got) = k /\ reader'.got[k] = page
        /\ Read(reader.got) \subseteq Read(reader'.got)
        /\ Q!ToSet(page) \subseteq Read(reader'.got)
        /\ table' = table /\ had' = had
    BY <1>2, PageRead
  <2> HIDE DEF page
  <2>2. Cardinality(Passed(k - 1)) <= Cardinality(Gone)
    BY <2>1 DEF Balanced
  <2>3. /\ Q!Matched(Q!Stayed)' = Q!Matched(Q!Stayed) /\ Gone' = Gone
        /\ \A r : Newer(r)' = Newer(r)
    BY <2>1 DEF Newer, Q!Matching, Q!Matched, Q!Stayed, Gone
  <2>4. ASSUME NEW r \in Q!Matched(Q!Stayed), r \notin Read(reader'.got),
               Cardinality(Newer(r)) < k \/ Len(page) = 0
        PROVE  r \in Passed(k - 1)
    <3>1. r \in Q!Matching /\ Cardinality(Newer(r)) \in Nat /\ r \notin Q!ToSet(page)
      BY <2>1, <2>4, NewerIsFinite DEF Q!Matching, Q!Matched, Q!Stayed
    <3>2. ~(Cardinality(Newer(r)) >= k - 1)
      BY <2>1, <2>4, <3>1, PageAt DEF page
    <3>3. Cardinality(Newer(r)) < k - 1
      BY <2>1, <3>1, <3>2
    <3> QED
      BY <2>1, <2>4, <3>3 DEF Passed
  <2>5. IsFiniteSet(Passed(k - 1)) /\ Cardinality(Passed(k - 1)) \in Nat
    BY PassedIsFinite
  <2>6. Cardinality(Gone) \in Nat
    BY GoneIsFinite
  <2>7. ASSUME NEW S, S \subseteq Passed(k - 1)
        PROVE  Cardinality(S) <= Cardinality(Gone')
    <3>1. /\ Cardinality(S) <= Cardinality(Passed(k - 1)) /\ Cardinality(S) \in Nat
      BY <2>5, <2>7, FS_Subset, FS_CardinalityType
    <3> HIDE DEF k
    <3> QED
      BY <2>2, <2>3, <2>5, <2>6, <3>1
  <2>8. ASSUME reader'.step > 0
        PROVE  Cardinality(Passed(reader.step - 1)') <= Cardinality(Gone')
    <3>1. reader'.step - 1 = k
      BY <2>1, <2>8
    <3>2. Passed(reader.step - 1)'
            = {r \in Q!Matched(Q!Stayed) \ Read(reader'.got) : Cardinality(Newer(r)) < k}
      BY <2>3, <3>1 DEF Passed, Read
    <3>3. Passed(reader.step - 1)' \subseteq Passed(k - 1)
      BY <2>4, <3>2
    <3> QED
      BY <2>7, <3>3
  <2>9. Q!MissesNoMoreThanDeleted'
    <3> SUFFICES ASSUME Q!Walked'
                 PROVE  Cardinality(Q!Missed') <= Cardinality(Gone')
      BY CardinalityOfQueries DEF Q!MissesNoMoreThanDeleted, Gone
    <3>1. Len(page) = 0
      BY <2>1 DEF Q!Walked
    <3>2. Q!Missed' = Q!Matched(Q!Stayed) \ Read(reader'.got)
      BY <2>3 DEF Q!Missed, Read
    <3>3. Q!Missed' \subseteq Passed(k - 1)
      BY <2>4, <3>1, <3>2
    <3> QED
      BY <2>7, <3>3
  <2> QED
    BY <2>8, <2>9 DEF Balanced
<1>3. ASSUME NEW op \in Ops, Q!Begin(op)
      PROVE  Balanced'
  <2>1. reader'.step = 1 /\ QueriesTyped'
    BY <1>3, TypesOfQueries DEF Q!Begin, Q!Idle
  <2>2. \A r : Cardinality(Newer(r)') \in Nat
    <3>1. IsFiniteSet(table')
      BY <2>1 DEF QueriesTyped, IsTable
    <3> QED
      BY <3>1, FS_Subset, FS_CardinalityType DEF Newer, Q!Matching, Q!Matched
  <2>3. \A r : ~(Cardinality(Newer(r)') < reader'.step - 1)
    BY <2>1, <2>2
  <2>4. Passed(reader.step - 1)' = {}
    BY <2>3 DEF Passed
  <2>5. Cardinality(Gone') \in Nat
    <3>1. IsFiniteSet(had'.was) /\ Gone' \subseteq had'.was
      BY <2>1 DEF QueriesTyped, IsTable, Gone, Q!Matched
    <3> QED
      BY <3>1, FS_Subset, FS_CardinalityType
  <2>6. Cardinality(Passed(reader.step - 1)') = 0
    BY <2>4, FS_EmptySet
  <2> QED
    BY <2>1, <2>5, <2>6 DEF Balanced
<1>4. CASE Ends
  BY <1>4 DEF Ends, Q!Idle, Balanced
<1>5. CASE Reads /\ reader.op # "walk"
  <2>1. reader'.op = reader.op
    BY <1>5, PartAdded DEF Reads
  <2> QED
    BY <1>5, <2>1 DEF Balanced
<1>6. CASE UNCHANGED Q!vars
  BY <1>1, <1>6 DEF Q!vars
<1> QED
  BY <1>1, <1>2, <1>3, <1>4, <1>5, <1>6, StepsOfQueries, StepsOfWalks DEF Writes, Reads

(* A client that goes over the pages misses no more rows that were there   *)
(* all the time than were deleted meanwhile, for any rows with any times   *)
(* and any deletions, by age, in between (ListLogs, DeleteLogsBefore).     *)
THEOREM WalksMissNoMoreThanDeleted == Q!Spec => []MissesNoMoreThanDeleted
<1>1. QueriesTyped /\ Balanced => Q!MissesNoMoreThanDeleted
  BY DEF Balanced, Q!MissesNoMoreThanDeleted, Q!Walked, Q!Done
<1>2. Q!Init => Balanced
  BY DEF Q!Init, Q!Idle, Balanced
<1> QED
  BY <1>1, <1>2, QueriesInit, TypesOfQueries, WalkStep, BalanceStep, PTL
  DEF Q!Spec, MissesNoMoreThanDeleted

-----------------------------------------------------------------------------
(* Sums over finite sets of indices.  A fold is a CHOOSE of a recursive    *)
(* function: a function that satisfies its equation is that function, as   *)
(* else there is a least set on which they differ.                         *)
SumsTo(g, D, c) ==
  g = [s \in SUBSET D |-> IF s = {} THEN 0
                          ELSE c[CHOOSE x \in s : TRUE] + g[s \ {CHOOSE x \in s : TRUE}]]

LEMMA SumsAgree ==
  ASSUME NEW D, IsFiniteSet(D), NEW c, NEW g, SumsTo(g, D, c), NEW h, SumsTo(h, D, c)
  PROVE  g[D] = h[D]
<1> DEFINE Bad == {s \in SUBSET D : g[s] # h[s]}
<1>1. IsWellFoundedOn(StrictSubsetOrdering(D), FiniteSubsetsOf(D))
  BY FS_StrictSubsetOrderingWellFounded
<1>2. Bad \subseteq FiniteSubsetsOf(D)
  BY FS_Subset DEF FiniteSubsetsOf
<1> SUFFICES ASSUME Bad # {} PROVE FALSE
  OBVIOUS
<1>3. PICK s \in Bad : \A t \in Bad : ~(<<t, s>> \in StrictSubsetOrdering(D))
  <2> HIDE DEF Bad
  <2> QED
    BY <1>1, <1>2, WFMin
<1> DEFINE x == CHOOSE x \in s : TRUE
<1>4. /\ \A t \in SUBSET D : g[t] = IF t = {} THEN 0
                           ELSE c[CHOOSE y \in t : TRUE] + g[t \ {CHOOSE y \in t : TRUE}]
      /\ \A t \in SUBSET D : h[t] = IF t = {} THEN 0
                           ELSE c[CHOOSE y \in t : TRUE] + h[t \ {CHOOSE y \in t : TRUE}]
  BY DEF SumsTo
<1>5. s # {} /\ s \in SUBSET D /\ g[s] # h[s]
  BY <1>4
<1>6. x \in s
  BY <1>5
<1>7. g[s] = c[x] + g[s \ {x}] /\ h[s] = c[x] + h[s \ {x}]
  BY <1>4, <1>5
<1> HIDE DEF x
<1>8. s \ {x} \in Bad
  BY <1>5, <1>7
<1>9. <<s \ {x}, s>> \in StrictSubsetOrdering(D)
  BY <1>5, <1>6 DEF StrictSubsetOrdering
<1> QED
  BY <1>3, <1>8, <1>9

LEMMA TotalIs ==
  ASSUME NEW D, IsFiniteSet(D), NEW c, DOMAIN c = D, NEW g, SumsTo(g, D, c)
  PROVE  Q!Total(c) = g[D]
<1> DEFINE it == CHOOSE it : SumsTo(it, D, c)
<1>1. SumsTo(it, D, c)
  OBVIOUS
<1>2. Q!Total(c) = it[D]
  BY DEF SumsTo, Q!Total, Q!FoldFunction, Q!FoldFunctionOnSet, Q!MapThenFoldSet
<1> HIDE DEF it
<1> QED
  BY <1>1, <1>2, SumsAgree

(* The rows are as many as those of each value of a column together.       *)
LEMMA GroupsAddUp ==
  ASSUME NEW S, IsFiniteSet(S), NEW D, NEW key \in [S -> D], IsFiniteSet(D),
         NEW c, c = [d \in D |-> Cardinality({r \in S : key[r] = d})]
  PROVE  Q!Total(c) = Cardinality(S)
<1> DEFINE Of(s) == {r \in S : key[r] \in s}
           g == [s \in SUBSET D |-> Cardinality(Of(s))]
<1>1. ASSUME NEW s \in SUBSET D, s # {}, NEW x \in s
      PROVE  g[s] = c[x] + g[s \ {x}]
  <2> DEFINE A == {r \in S : key[r] = x}
             B == Of(s \ {x})
  <2>1. IsFiniteSet(A) /\ IsFiniteSet(B) /\ A \cap B = {} /\ A \cup B = Of(s)
    BY <1>1, FS_Subset
  <2>2. Cardinality(A) \in Nat /\ Cardinality(B) \in Nat /\ Cardinality({}) = 0
    BY <2>1, FS_CardinalityType, FS_EmptySet
  <2>3. Cardinality(A \cup B) = Cardinality(A) + Cardinality(B) - Cardinality(A \cap B)
    BY <2>1, FS_Union
  <2>4. Cardinality(A \cup B) = Cardinality(A) + Cardinality(B)
    <3> HIDE DEF A, B
    <3>1. Cardinality(A \cap B) = 0
      BY <2>1, <2>2
    <3> QED
      BY <2>2, <2>3, <3>1
  <2>5. c[x] = Cardinality(A) /\ g[s \ {x}] = Cardinality(B) /\ g[s] = Cardinality(Of(s))
    OBVIOUS
  <2> HIDE DEF A, B, g, Of
  <2> QED
    BY <2>1, <2>4, <2>5
<1>2. g[{}] = 0
  BY FS_EmptySet
<1>3. SumsTo(g, D, c)
  <2>1. \A s \in SUBSET D :
          g[s] = IF s = {} THEN 0
                 ELSE c[CHOOSE x \in s : TRUE] + g[s \ {CHOOSE x \in s : TRUE}]
    <3> HIDE DEF g
    <3> TAKE s \in SUBSET D
    <3>1. s # {} => (CHOOSE x \in s : TRUE) \in s
      OBVIOUS
    <3> QED
      BY <1>1, <1>2, <3>1
  <2>2. DOMAIN g = SUBSET D /\ g = [s \in SUBSET D |-> g[s]]
    OBVIOUS
  <2> HIDE DEF g
  <2> QED
    BY <2>1, <2>2 DEF SumsTo
<1>4. g[D] = Cardinality(S)
  BY Of(D) = S
<1> HIDE DEF g
<1> QED
  BY <1>3, <1>4, TotalIs

-----------------------------------------------------------------------------
(* Pages, and the rows by duration.                                        *)
LEMMA GreaterOf ==
  ASSUME NEW a \in Int, NEW b \in Int
  PROVE  Q!Max({a, b}) = IF a >= b THEN a ELSE b
<1>1. \A x \in {a, b} : (\A y \in {a, b} : x >= y) <=> x = IF a >= b THEN a ELSE b
  OBVIOUS
<1> QED
  BY <1>1 DEF Q!Max

Shorter(S, d) == {r \in S : r.kind.dur < d}
NotLonger(S, d) == {r \in S : r.kind.dur <= d}

(* Rows by duration: before a row come the shorter ones, and with it no    *)
(* longer ones.                                                            *)
LEMMA ShortestAreFirst ==
  ASSUME NEW S, IsTable(S), NEW s, s = Q!Ordered(S, Q!ShorterFirst(S))
  PROVE  /\ s \in Seq(S) /\ Len(s) = Cardinality(S) /\ Cardinality(S) \in Nat
         /\ \A i \in 1..Len(s) :
              /\ s[i] \in S
              /\ Cardinality(Shorter(S, s[i].kind.dur)) <= i - 1
              /\ i <= Cardinality(NotLonger(S, s[i].kind.dur))
<1> DEFINE B == Q!ShorterFirst(S)
           dur(r) == r.kind.dur
<1>1. /\ IsFiniteSet(S) /\ (\A r, q \in S : r.id = q.id => r = q)
      /\ \A r \in S : r.id \in Nat /\ dur(r) \in Nat
  BY OperationAssumption DEF IsTable, LogRow, Q!QueryAssumption
<1>2. \A q, r \in S : <<q, r>> \in B <=> dur(q) < dur(r) \/ (dur(q) = dur(r) /\ q.id < r.id)
  BY DEF Q!ShorterFirst
<1> HIDE DEF B, dur
<1>3. IsOrder(B, S)
  <2>1. \A a \in S : <<a, a>> \notin B
    BY <1>1, <1>2
  <2>2. \A a, b, c \in S : <<a, b>> \in B /\ <<b, c>> \in B => <<a, c>> \in B
    BY <1>1, <1>2
  <2>3. \A a, b \in S : a # b => <<a, b>> \in B \/ <<b, a>> \in B
    BY <1>1, <1>2
  <2> QED
    BY <2>1, <2>2, <2>3 DEF IsOrder
<1>4. IsFiniteSet(S) /\ s = Q!Ordered(S, B)
  BY <1>1 DEF B
<1>5. IsRanked(s, S, B)
  BY ONLY <1>3, <1>4, OrderedByRank
<1>6. ASSUME NEW i \in 1..Len(s)
      PROVE  i <= Cardinality({r \in S : dur(r) <= dur(s[i])})
  <2> DEFINE A == {r \in S : dur(r) <= dur(s[i])}
             C == {q \in S : <<q, s[i]>> \in B}
  <2>1. s[i] \in S /\ Cardinality(C) = i - 1
    BY <1>5 DEF IsRanked, RankOf
  <2>2. C \cup {s[i]} \subseteq A /\ A \subseteq S /\ s[i] \notin C /\ C \subseteq S
    BY <1>1, <1>2, <2>1
  <2> HIDE DEF A, C
  <2>3. IsFiniteSet(A) /\ IsFiniteSet(C)
    BY <1>1, <2>2, FS_Subset
  <2>4. Cardinality(C \cup {s[i]}) = (i - 1) + 1
    BY <2>1, <2>2, <2>3, FS_AddElement
  <2>5. Cardinality(C \cup {s[i]}) <= Cardinality(A)
    BY <2>2, <2>3, FS_Subset
  <2> QED
    BY <2>4, <2>5 DEF A
<1>7. ASSUME NEW i \in 1..Len(s)
      PROVE  Cardinality({r \in S : dur(r) < dur(s[i])}) <= i - 1
  <2> DEFINE A == {r \in S : dur(r) < dur(s[i])}
             C == {q \in S : <<q, s[i]>> \in B}
  <2>1. s[i] \in S /\ Cardinality(C) = i - 1
    BY <1>5 DEF IsRanked, RankOf
  <2>2. A \subseteq C /\ C \subseteq S
    BY <1>2, <2>1
  <2> HIDE DEF A, C
  <2>3. Cardinality(A) <= Cardinality(C)
    BY <1>1, <2>2, FS_Subset
  <2> QED
    BY <2>1, <2>3 DEF A
<1> QED
  BY <1>5, <1>6, <1>7 DEF IsRanked, dur, Shorter, NotLonger

-----------------------------------------------------------------------------
(* The parts of an answer against the rows E that were ever there and the  *)
(* rows S that stayed.                                                     *)
FitsIn(n, E, S) == Cardinality(E \cap S) <= n /\ n <= Cardinality(E)

LeftFor(size, left) == Q!Max({0, Q!Min({size, left})})

RowsIn(rows, before, size, E, S) ==
  /\ Len(rows) \in Nat /\ DOMAIN rows = 1..Len(rows)
  /\ LeftFor(size, Cardinality(E \cap S) - before) <= Len(rows)
  /\ Len(rows) <= LeftFor(size, Cardinality(E) - before)
  /\ \A i \in DOMAIN rows :
       /\ rows[i] \in E
       /\ FitsIn(before + i - 1, {r \in E : r.id > rows[i].id}, S)
       /\ \A j \in DOMAIN rows : i < j => rows[i].id > rows[j].id

PercentileIn(d, n, p, E, S, lost) ==
  /\ n = 0 => d = 0
  /\ n > 0 =>
       /\ 100 * Cardinality({r \in E : r.kind.dur < d} \cap S) <= (n - 1) * p
       /\ \/ /\ (n - 1) * p < 100 * Cardinality({r \in E : r.kind.dur <= d})
             /\ \E r \in E : r.kind.dur = d
          \/ d = 0 /\ lost

(* Rows that were ever there become more, rows that stayed fewer.          *)
LEMMA FitsLater ==
  ASSUME NEW E, NEW E2, IsFiniteSet(E), IsFiniteSet(E2), NEW S, NEW S2,
         E \subseteq E2, E2 \cap S2 \subseteq E \cap S, NEW n \in Int, FitsIn(n, E, S)
  PROVE  FitsIn(n, E2, S2)
<1>1. IsFiniteSet(E \cap S) /\ IsFiniteSet(E2 \cap S2)
  BY FS_Intersection
<1>2. /\ Cardinality(E) \in Nat /\ Cardinality(E2) \in Nat
      /\ Cardinality(E \cap S) \in Nat /\ Cardinality(E2 \cap S2) \in Nat
  BY <1>1, FS_CardinalityType
<1>3. Cardinality(E) <= Cardinality(E2) /\ Cardinality(E2 \cap S2) <= Cardinality(E \cap S)
  BY <1>1, FS_Subset
<1> QED
  BY <1>2, <1>3 DEF FitsIn

LEMMA LeftForIs ==
  ASSUME NEW size \in Nat, NEW left \in Int
  PROVE  /\ LeftFor(size, left) \in Nat
         /\ LeftFor(size, left) =
              IF left <= 0 THEN 0 ELSE IF size <= left THEN size ELSE left
<1> DEFINE least == Q!Min({size, left})
<1>1. least = IF size <= left THEN size ELSE left
  BY LesserOf
<1> HIDE DEF least
<1>2. Q!Max({0, least}) = IF 0 >= least THEN 0 ELSE least
  BY <1>1, GreaterOf
<1> QED
  BY <1>1, <1>2 DEF LeftFor, least

LEMMA LeftForGrows ==
  ASSUME NEW size \in Nat, NEW a \in Int, NEW b \in Int, a <= b
  PROVE  /\ LeftFor(size, a) <= LeftFor(size, b)
         /\ LeftFor(size, a) \in Nat /\ LeftFor(size, b) \in Nat
<1>1. /\ LeftFor(size, a) \in Nat
      /\ LeftFor(size, a) = IF a <= 0 THEN 0 ELSE IF size <= a THEN size ELSE a
  BY LeftForIs
<1>2. /\ LeftFor(size, b) \in Nat
      /\ LeftFor(size, b) = IF b <= 0 THEN 0 ELSE IF size <= b THEN size ELSE b
  BY LeftForIs
<1> QED
  BY <1>1, <1>2

LEMMA RowsLater ==
  ASSUME NEW E, NEW E2, IsFiniteSet(E), IsFiniteSet(E2), NEW S, NEW S2,
         E \subseteq E2, E2 \cap S2 \subseteq E \cap S,
         NEW before \in Nat, NEW size \in Nat, NEW rows, RowsIn(rows, before, size, E, S)
  PROVE  RowsIn(rows, before, size, E2, S2)
<1>1. IsFiniteSet(E \cap S) /\ IsFiniteSet(E2 \cap S2)
  BY FS_Intersection
<1>2. /\ Cardinality(E) \in Nat /\ Cardinality(E2) \in Nat
      /\ Cardinality(E \cap S) \in Nat /\ Cardinality(E2 \cap S2) \in Nat
  BY <1>1, FS_CardinalityType
<1>3. Cardinality(E) <= Cardinality(E2) /\ Cardinality(E2 \cap S2) <= Cardinality(E \cap S)
  BY <1>1, FS_Subset
<1>4. ASSUME NEW a \in Int, NEW b \in Int, a <= b
      PROVE  /\ LeftFor(size, a) <= LeftFor(size, b)
             /\ LeftFor(size, a) \in Nat /\ LeftFor(size, b) \in Nat
  BY <1>4, LeftForGrows
<1>5. /\ LeftFor(size, Cardinality(E2 \cap S2) - before) <= Len(rows)
      /\ Len(rows) <= LeftFor(size, Cardinality(E2) - before)
  <2> DEFINE a == Cardinality(E2 \cap S2) - before
             b == Cardinality(E \cap S) - before
             c == Cardinality(E) - before
             d == Cardinality(E2) - before
  <2>1. a \in Int /\ b \in Int /\ c \in Int /\ d \in Int /\ a <= b /\ c <= d
    BY <1>2, <1>3
  <2>2. Len(rows) \in Nat /\ LeftFor(size, b) <= Len(rows) /\ Len(rows) <= LeftFor(size, c)
    BY DEF RowsIn
  <2> HIDE DEF a, b, c, d
  <2>3. LeftFor(size, a) <= Len(rows) /\ Len(rows) <= LeftFor(size, d)
    <3>1. /\ LeftFor(size, a) <= LeftFor(size, b)
          /\ LeftFor(size, a) \in Nat /\ LeftFor(size, b) \in Nat
      BY <1>4, <2>1
    <3>2. /\ LeftFor(size, c) <= LeftFor(size, d)
          /\ LeftFor(size, c) \in Nat /\ LeftFor(size, d) \in Nat
      BY <1>4, <2>1
    <3> QED
      BY <2>2, <3>1, <3>2
  <2> QED
    BY <2>3 DEF a, d
<1>6. ASSUME NEW i \in DOMAIN rows
      PROVE  FitsIn(before + i - 1, {r \in E2 : r.id > rows[i].id}, S2)
  <2> DEFINE A == {r \in E : r.id > rows[i].id}
             A2 == {r \in E2 : r.id > rows[i].id}
             n == before + i - 1
  <2>1. IsFiniteSet(A) /\ IsFiniteSet(A2)
    BY FS_Subset
  <2>2. A \subseteq A2 /\ A2 \cap S2 \subseteq A \cap S
    OBVIOUS
  <2>3. FitsIn(n, A, S)
    BY DEF RowsIn
  <2>4. n \in Int
    <3>1. i \in Int
      BY DEF RowsIn
    <3> QED
      BY <3>1
  <2> HIDE DEF A, A2, n
  <2>5. FitsIn(n, A2, S2)
    BY <2>1, <2>2, <2>3, <2>4, FitsLater
  <2> QED
    BY <2>5 DEF A2, n
<1> QED
  BY <1>5, <1>6 DEF RowsIn

LEMMA PercentileLater ==
  ASSUME NEW E, NEW E2, IsFiniteSet(E), IsFiniteSet(E2), NEW S, NEW S2,
         E \subseteq E2, E2 \cap S2 \subseteq E \cap S,
         NEW lost \in BOOLEAN, NEW lost2 \in BOOLEAN, lost => lost2,
         NEW d, NEW n \in Nat, NEW p \in Nat, PercentileIn(d, n, p, E, S, lost)
  PROVE  PercentileIn(d, n, p, E2, S2, lost2)
<1> DEFINE A == {r \in E : r.kind.dur < d}
           A2 == {r \in E2 : r.kind.dur < d}
           C == {r \in E : r.kind.dur <= d}
           C2 == {r \in E2 : r.kind.dur <= d}
<1>1. /\ IsFiniteSet(A \cap S) /\ IsFiniteSet(A2 \cap S2)
      /\ IsFiniteSet(C) /\ IsFiniteSet(C2)
  BY FS_Subset
<1>2. A2 \cap S2 \subseteq A \cap S /\ C \subseteq C2
  OBVIOUS
<1>3. /\ n = 0 => d = 0
      /\ n > 0 =>
           /\ 100 * Cardinality(A \cap S) <= (n - 1) * p
           /\ \/ /\ (n - 1) * p < 100 * Cardinality(C)
                 /\ \E r \in E : r.kind.dur = d
              \/ d = 0 /\ lost
  BY DEF PercentileIn
<1> HIDE DEF A, A2, C, C2
<1>4. /\ Cardinality(A \cap S) \in Nat /\ Cardinality(A2 \cap S2) \in Nat
      /\ Cardinality(C) \in Nat /\ Cardinality(C2) \in Nat
      /\ Cardinality(A2 \cap S2) <= Cardinality(A \cap S) /\ Cardinality(C) <= Cardinality(C2)
  BY <1>1, <1>2, FS_Subset, FS_CardinalityType
<1> DEFINE m == (n - 1) * p
<1>5. n > 0 => m \in Nat
  OBVIOUS
<1>6. n > 0 =>
        /\ 100 * Cardinality(A2 \cap S2) <= m
        /\ \/ /\ m < 100 * Cardinality(C2)
              /\ \E r \in E2 : r.kind.dur = d
           \/ d = 0 /\ lost2
  <2> SUFFICES ASSUME n > 0
               PROVE  /\ 100 * Cardinality(A2 \cap S2) <= m
                      /\ \/ /\ m < 100 * Cardinality(C2)
                            /\ \E r \in E2 : r.kind.dur = d
                         \/ d = 0 /\ lost2
    OBVIOUS
  <2>1. /\ 100 * Cardinality(A \cap S) <= m
        /\ (m < 100 * Cardinality(C) /\ \E r \in E : r.kind.dur = d) \/ (d = 0 /\ lost)
    BY <1>3
  <2> HIDE DEF m
  <2>2. 100 * Cardinality(A2 \cap S2) <= m
    BY <1>4, <1>5, <2>1
  <2>3. m < 100 * Cardinality(C) => m < 100 * Cardinality(C2)
    BY <1>4, <1>5
  <2> QED
    BY <2>1, <2>2, <2>3
<1> QED
  BY <1>3, <1>6 DEF PercentileIn, A2, C2, m

LEMMA WindowIsTable == QueriesTyped => IsTable(Q!Window) /\ Q!Window \subseteq table
BY FS_Subset DEF QueriesTyped, IsTable, Q!Window, Q!InWindow

(* The points and the classes of a trend add up.                           *)
LEMMA TrendTotals ==
  ASSUME QueriesTyped
  PROVE  /\ Q!Total(Q!GetTrend) = Cardinality(Q!Window)
         /\ Q!Total(Q!GetStatusDistribution) = Cardinality(Q!Window)
<1>1. IsFiniteSet(Q!Window)
  BY WindowIsTable DEF IsTable
<1>2. ASSUME NEW D, NEW key \in [Q!Window -> D], D = {key[r] : r \in Q!Window},
             NEW c, c = [d \in D |-> Cardinality({r \in Q!Window : key[r] = d})]
      PROVE  Q!Total(c) = Cardinality(Q!Window)
  <2>1. key \in Surjection(Q!Window, D)
    BY <1>2 DEF Surjection
  <2>2. IsFiniteSet(D)
    BY <1>1, <2>1, FS_Surjection
  <2> QED
    BY <1>1, <1>2, <2>2, GroupsAddUp
<1>3. Q!Total(Q!GetTrend) = Cardinality(Q!Window)
  <2> DEFINE D == {r.kind.bucket : r \in Q!Window}
             key == [r \in Q!Window |-> r.kind.bucket]
  <2>1. key \in [Q!Window -> D] /\ D = {key[r] : r \in Q!Window}
    OBVIOUS
  <2>2. Q!GetTrend = [d \in D |-> Cardinality({r \in Q!Window : r.kind.bucket = d})]
    BY CardinalityOfQueries DEF Q!GetTrend
  <2>3. \A d : {r \in Q!Window : r.kind.bucket = d} = {r \in Q!Window : key[r] = d}
    OBVIOUS
  <2>4. Q!GetTrend = [d \in D |-> Cardinality({r \in Q!Window : key[r] = d})]
    <3> HIDE DEF key, D
    <3> QED
      BY <2>2, <2>3
  <2> HIDE DEF key, D
  <2> QED
    BY <1>2, <2>1, <2>4
<1>4. Q!Total(Q!GetStatusDistribution) = Cardinality(Q!Window)
  <2> DEFINE D == {r.kind.class : r \in Q!Window}
             key == [r \in Q!Window |-> r.kind.class]
  <2>1. key \in [Q!Window -> D] /\ D = {key[r] : r \in Q!Window}
    OBVIOUS
  <2>2. Q!GetStatusDistribution = [d \in D |-> Cardinality({r \in Q!Window : r.kind.class = d})]
    BY CardinalityOfQueries DEF Q!GetStatusDistribution
  <2>3. \A d : {r \in Q!Window : r.kind.class = d} = {r \in Q!Window : key[r] = d}
    OBVIOUS
  <2>4. Q!GetStatusDistribution = [d \in D |-> Cardinality({r \in Q!Window : key[r] = d})]
    <3> HIDE DEF key, D
    <3> QED
      BY <2>2, <2>3
  <2> HIDE DEF key, D
  <2> QED
    BY <1>2, <2>1, <2>4
<1> QED
  BY <1>3, <1>4

-----------------------------------------------------------------------------
(* The parts when they are read, against the table as it is then.          *)
Ever == Q!Matched(had.was)
EverIn == Q!InWindow(had.was)
Lost == had.failed \/ EverIn \ table # {}

LEMMA EverIsTable == QueriesTyped => IsTable(Ever) /\ IsTable(EverIn)
BY FS_Subset DEF QueriesTyped, IsTable, Ever, EverIn, Q!Matched, Q!InWindow

LEMMA FitsNow ==
  ASSUME NEW E, IsFiniteSet(E), NEW A, A \subseteq E, E \cap Q!Stayed \subseteq A
  PROVE  FitsIn(Cardinality(A), E, Q!Stayed) /\ Cardinality(A) \in Nat
<1>1. IsFiniteSet(A) /\ IsFiniteSet(E \cap Q!Stayed)
  BY FS_Subset
<1>2. Cardinality(A) \in Nat
  BY <1>1, FS_CardinalityType
<1>3. Cardinality(A) <= Cardinality(E)
  BY FS_Subset
<1>4. Cardinality(E \cap Q!Stayed) <= Cardinality(A)
  BY <1>1, FS_Subset
<1> QED
  BY <1>2, <1>3, <1>4 DEF FitsIn

LEMMA ReadsOfEver ==
  ASSUME QueriesTyped, Q!Reading
  PROVE  /\ Q!Matching \subseteq Ever /\ Ever \cap Q!Stayed \subseteq Q!Matching
         /\ Q!Window \subseteq EverIn /\ EverIn \cap Q!Stayed \subseteq Q!Window
BY DEF QueriesTyped, Q!Matching, Ever, Q!Stayed, Q!Matched, Q!Window, EverIn, Q!InWindow

(* Rows by falling id: at a place, as many are newer as come before it.    *)
LEMMA PlacesByAge ==
  ASSUME NEW S, IsTable(S), NEW s, s = Q!Ordered(S, Q!NewestFirst(S))
  PROVE  \A i \in 1..Len(s) :
           s[i] \in S /\ Cardinality({q \in S : q.id > s[i].id}) = i - 1
<1>1. /\ s \in Seq(S) /\ Len(s) = Cardinality(S) /\ Cardinality(S) \in Nat
      /\ \A r \in S : LET place == Cardinality({q \in S : q.id > r.id}) + 1
                      IN place \in 1..Len(s) /\ s[place] = r
      /\ \A i, j \in 1..Len(s) : i < j => s[i].id > s[j].id
  BY NewestAreFirst
<1>2. \A i \in 1..Len(s) : s[i] \in S
  BY <1>1, ElementOfSeq
<1>3. ASSUME NEW i \in 1..Len(s)
      PROVE  Cardinality({q \in S : q.id > s[i].id}) = i - 1
  <2> DEFINE c == Cardinality({q \in S : q.id > s[i].id})
  <2>1. c + 1 \in 1..Len(s) /\ s[c + 1] = s[i]
    BY <1>1, <1>2
  <2>2. c \in Nat
    <3>1. IsFiniteSet({q \in S : q.id > s[i].id})
      BY FS_Subset DEF IsTable
    <3> QED
      BY <3>1, FS_CardinalityType
  <2>3. s[i].id \in Nat
    BY <1>2 DEF IsTable, LogRow
  <2> HIDE DEF c
  <2>4. ~(c + 1 < i) /\ ~(i < c + 1)
    <3>1. ASSUME c + 1 < i PROVE FALSE
      <4>1. s[c + 1].id > s[i].id
        BY <1>1, <2>1, <3>1
      <4> QED
        BY <2>1, <2>3, <4>1
    <3>2. ASSUME i < c + 1 PROVE FALSE
      <4>1. s[i].id > s[c + 1].id
        BY <1>1, <2>1, <3>2
      <4> QED
        BY <2>1, <2>3, <4>1
    <3> QED
      BY <3>1, <3>2
  <2>5. c = i - 1
    BY <2>2, <2>4
  <2> QED
    BY <2>5 DEF c
<1> QED
  BY <1>2, <1>3

LEMMA RowsNow ==
  ASSUME QueriesTyped, Q!Reading, NEW page \in 0..2, NEW asked \in 0..(MaxSize + 1),
         NEW rows, rows = Q!ListLogs(page, asked),
         NEW before, before = ((IF page = 0 THEN 1 ELSE page) - 1) * Q!Size(asked)
  PROVE  /\ RowsIn(rows, before, Q!Size(asked), Ever, Q!Stayed)
         /\ before \in Nat /\ Q!Size(asked) \in Nat
<1> DEFINE all == Q!Ordered(Q!Matching, Q!NewestFirst(Q!Matching))
           N == Cardinality(Q!Matching)
           size == Q!Size(asked)
           end == Q!Min({before + size, Len(all)})
<1>1. /\ all \in Seq(Q!Matching) /\ Len(all) = N /\ N \in Nat
      /\ \A i, j \in 1..Len(all) : i < j => all[i].id > all[j].id
      /\ \A i \in 1..Len(all) :
           all[i] \in Q!Matching /\ Cardinality({q \in Q!Matching : q.id > all[i].id}) = i - 1
  BY MatchingIsTable, NewestAreFirst, PlacesByAge
<1>2. size \in Nat \ {0} /\ before \in Nat
  <2>1. size \in Nat \ {0}
    BY OperationAssumption DEF Q!QueryAssumption, Q!Size
  <2> HIDE DEF size
  <2>2. before = IF page = 2 THEN size ELSE 0
    BY <2>1 DEF size
  <2> QED
    BY <2>1, <2>2
<1>3. rows = SubSeq(all, before + 1, end)
  <2>1. (IF page < 1 THEN 1 ELSE page) = IF page = 0 THEN 1 ELSE page
    OBVIOUS
  <2> QED
    BY <2>1 DEF Q!ListLogs, Q!Offset
<1>4. end = IF before + size <= N THEN before + size ELSE N
  <2>1. before + size \in Int /\ Len(all) \in Int
    BY <1>1, <1>2
  <2> HIDE DEF all, size
  <2> QED
    BY <1>1, <2>1, LesserOf
<1>5. LeftFor(size, N - before) =
        IF N <= before THEN 0 ELSE IF size <= N - before THEN size ELSE N - before
  <2> HIDE DEF size, N
  <2>1. size \in Nat /\ N - before \in Int
    BY <1>1, <1>2
  <2>2. LeftFor(size, N - before) =
          IF N - before <= 0 THEN 0 ELSE IF size <= N - before THEN size ELSE N - before
    BY <2>1, LeftForIs
  <2> QED
    BY <1>1, <1>2, <2>2
<1>6. /\ Q!Matching \subseteq Ever /\ Ever \cap Q!Stayed \subseteq Q!Matching
      /\ IsFiniteSet(Ever)
  BY ReadsOfEver, EverIsTable DEF IsTable
<1> HIDE DEF all, N, size, end
<1>7. /\ Len(rows) = IF before + 1 <= end THEN end - before ELSE 0
      /\ \A i \in 1..Len(rows) : rows[i] = all[before + i] /\ before + i \in 1..Len(all)
      /\ DOMAIN rows = 1..Len(rows)
  <2>1. end \in Nat /\ end <= N /\ before + 1 \in Int
    BY <1>1, <1>2, <1>4
  <2>2. all \in Seq(Q!Matching) /\ end <= Len(all) /\ before \in Nat
    BY <1>1, <1>2, <2>1
  <2> QED
    BY ONLY <1>3, <2>1, <2>2, Following
<1>8. Len(rows) = LeftFor(size, N - before) /\ Len(rows) \in Nat
  BY <1>1, <1>2, <1>4, <1>5, <1>7
<1>9. /\ LeftFor(size, Cardinality(Ever \cap Q!Stayed) - before) <= Len(rows)
      /\ Len(rows) <= LeftFor(size, Cardinality(Ever) - before)
  <2>0. N \in Nat
    BY MatchingIsTable, FS_CardinalityType DEF IsTable, N
  <2>1. FitsIn(N, Ever, Q!Stayed)
    BY <1>6, FitsNow DEF N
  <2> DEFINE a == Cardinality(Ever \cap Q!Stayed) - before
             b == Cardinality(Ever) - before
  <2>2. a \in Int /\ b \in Int /\ a <= N - before /\ N - before <= b
    <3>1. IsFiniteSet(Ever \cap Q!Stayed)
      BY <1>6, FS_Intersection
    <3>2. Cardinality(Ever \cap Q!Stayed) \in Nat /\ Cardinality(Ever) \in Nat
      BY <1>6, <3>1, FS_CardinalityType
    <3> DEFINE x == Cardinality(Ever \cap Q!Stayed)
               y == Cardinality(Ever)
    <3>3. x <= N /\ N <= y
      BY <2>1, Zenon DEF FitsIn
    <3> HIDE DEF x, y
    <3>4. x \in Nat /\ y \in Nat
      BY <3>2 DEF x, y
    <3>5. /\ x - before \in Int /\ y - before \in Int
          /\ x - before <= N - before /\ N - before <= y - before
      BY ONLY <1>2, <2>0, <3>3, <3>4
    <3> QED
      BY <3>5 DEF x, y
  <2> HIDE DEF a, b
  <2> DEFINE c == N - before
  <2>3. c \in Int /\ a <= c /\ c <= b /\ Len(rows) = LeftFor(size, c) /\ size \in Nat
    BY ONLY <1>2, <1>8, <2>0, <2>2
  <2> HIDE DEF c
  <2>4. LeftFor(size, a) <= Len(rows) /\ Len(rows) <= LeftFor(size, b)
    BY ONLY <2>2, <2>3, LeftForGrows
  <2> QED
    BY <2>4 DEF a, b
<1>10. ASSUME NEW i \in 1..Len(rows)
       PROVE  /\ rows[i] \in Ever
              /\ FitsIn(before + i - 1, {r \in Ever : r.id > rows[i].id}, Q!Stayed)
              /\ \A j \in 1..Len(rows) : i < j => rows[i].id > rows[j].id
  <2> DEFINE A == {q \in Q!Matching : q.id > rows[i].id}
             E == {r \in Ever : r.id > rows[i].id}
  <2>1. /\ rows[i] = all[before + i] /\ before + i \in 1..Len(all)
        /\ before + i - 1 = (before + i) - 1
    BY <1>2, <1>7
  <2>2. rows[i] \in Q!Matching /\ Cardinality(A) = before + i - 1
    BY <1>1, <2>1
  <2>3. A \subseteq E /\ E \cap Q!Stayed \subseteq A /\ IsFiniteSet(E)
    BY <1>6, FS_Subset
  <2>4. ASSUME NEW j \in 1..Len(rows), i < j
        PROVE  rows[i].id > rows[j].id
    <3>1. rows[j] = all[before + j] /\ before + j \in 1..Len(all) /\ before + i < before + j
      BY <1>2, <1>7, <2>4
    <3> QED
      BY <1>1, <2>1, <3>1
  <2> HIDE DEF A, E
  <2>5. FitsIn(Cardinality(A), E, Q!Stayed)
    BY <2>3, FitsNow
  <2> QED
    BY <1>6, <2>2, <2>4, <2>5 DEF E
<1>11. RowsIn(rows, before, size, Ever, Q!Stayed)
  BY <1>7, <1>8, <1>9, <1>10 DEF RowsIn
<1> QED
  BY <1>2, <1>11 DEF size

(* A percentile as it is read: the row at its rank, or none.               *)
LEMMA PercentileNow ==
  ASSUME QueriesTyped, Q!Reading, NEW n \in Nat, n > 0, FitsIn(n, EverIn, Q!Stayed),
         NEW p \in 0..99
  PROVE  PercentileIn(Q!Pick(n, p), n, p, EverIn, Q!Stayed, EverIn \ table # {})
<1> DEFINE W == Q!Window
           s == Q!Ordered(W, Q!ShorterFirst(W))
           m == (n - 1) * p
           rank == Q!Rank(n, p)
           d == Q!Pick(n, p)
<1>1. \A i \in 1..Len(s) :
           /\ s[i] \in W
           /\ Cardinality(Shorter(W, s[i].kind.dur)) <= i - 1
           /\ i <= Cardinality(NotLonger(W, s[i].kind.dur))
  <2>1. IsTable(W) /\ s = Q!Ordered(W, Q!ShorterFirst(W))
    BY WindowIsTable
  <2> HIDE DEF W, s
  <2> QED
    BY ONLY <2>1, ShortestAreFirst
<1>0. Len(s) = Cardinality(W) /\ Cardinality(W) \in Nat
  <2>1. IsTable(W) /\ s = Q!Ordered(W, Q!ShorterFirst(W))
    BY WindowIsTable
  <2> HIDE DEF W, s
  <2> QED
    BY ONLY <2>1, ShortestAreFirst
<1>2. W \subseteq EverIn /\ EverIn \cap Q!Stayed \subseteq W /\ IsFiniteSet(EverIn)
  BY ReadsOfEver, EverIsTable DEF IsTable
<1>3. \A r \in EverIn : r.kind.dur \in Nat
  BY EverIsTable, OperationAssumption DEF IsTable, LogRow, Q!QueryAssumption
<1>4. m \in Nat /\ rank \in Nat /\ 100 * rank <= m /\ m < 100 * rank + 100 /\ rank < n
  <2>1. rank = m \div 100
    BY DEF Q!Rank
  <2>2. m \in Nat
    OBVIOUS
  <2>3. \A a \in Nat : /\ a \div 100 \in Nat
                       /\ 100 * (a \div 100) <= a /\ a < 100 * (a \div 100) + 100
    OBVIOUS
  <2>4. m <= 100 * (n - 1)
    <3> DEFINE k == n - 1
    <3>1. k \in Nat /\ p \in Nat /\ p <= 100
      OBVIOUS
    <3> HIDE DEF k
    <3>2. k * p <= k * 100
      BY <3>1, SMTT(60)
    <3> QED
      BY <3>1, <3>2 DEF k
  <2> HIDE DEF m, rank
  <2> QED
    BY <2>1, <2>2, <2>3, <2>4
<1>5. d = IF rank < Len(s) THEN s[rank + 1].kind.dur ELSE 0
  BY DEF Q!Pick
<1> HIDE DEF s, rank, d, W
<1>6. CASE rank < Len(s)
  <2> DEFINE A == {r \in EverIn : r.kind.dur < d} \cap Q!Stayed
             A2 == Shorter(W, d)
             C == {r \in EverIn : r.kind.dur <= d}
             C2 == NotLonger(W, d)
  <2>1. rank + 1 \in 1..Len(s) /\ d = s[rank + 1].kind.dur
    <3>1. Len(s) \in Nat
      BY <1>0
    <3>2. rank + 1 \in 1..Len(s)
      BY ONLY <3>1, <1>4, <1>6
    <3> QED
      BY ONLY <3>2, <1>5, <1>6
  <2>2. /\ s[rank + 1] \in EverIn
        /\ Cardinality(A2) <= rank /\ rank + 1 <= Cardinality(C2)
    <3>1. /\ s[rank + 1] \in W
          /\ Cardinality(A2) <= (rank + 1) - 1 /\ rank + 1 <= Cardinality(C2)
      BY ONLY <1>1, <2>1
    <3> HIDE DEF A2, C2
    <3> QED
      BY ONLY <1>2, <1>4, <3>1
  <2>3. A \subseteq A2 /\ C2 \subseteq C /\ IsFiniteSet(A2) /\ IsFiniteSet(C)
    <3>1. A \subseteq A2 /\ C2 \subseteq C
      BY ONLY <1>2 DEF Shorter, NotLonger
    <3>2. A2 \subseteq EverIn /\ C \subseteq EverIn
      BY ONLY <1>2 DEF Shorter
    <3> HIDE DEF A, A2, C, C2
    <3> QED
      BY ONLY <1>2, <3>1, <3>2, FS_Subset
  <2> HIDE DEF A, A2, C, C2
  <2>4. /\ Cardinality(A) \in Nat /\ Cardinality(A2) \in Nat
        /\ Cardinality(C) \in Nat /\ Cardinality(C2) \in Nat
        /\ Cardinality(A) <= Cardinality(A2) /\ Cardinality(C2) <= Cardinality(C)
    BY <2>3, FS_Subset, FS_CardinalityType
  <2> HIDE DEF m
  <2>5. 100 * Cardinality(A) <= m /\ m < 100 * Cardinality(C)
    BY <1>4, <2>2, <2>4
  <2>6. \E r \in EverIn : r.kind.dur = d
    BY <2>1, <2>2
  <2> QED
    BY <2>5, <2>6 DEF PercentileIn, A, C, m, d
<1>7. CASE ~(rank < Len(s))
  <2>1. d = 0
    BY <1>5, <1>7
  <2>2. {r \in EverIn : r.kind.dur < d} \cap Q!Stayed = {}
    BY <1>3, <2>1
  <2>3. 100 * Cardinality({r \in EverIn : r.kind.dur < d} \cap Q!Stayed) <= m
    <3>1. Cardinality({r \in EverIn : r.kind.dur < d} \cap Q!Stayed) = 0
      BY <2>2, FS_EmptySet, Zenon
    <3> HIDE DEF m
    <3> QED
      BY ONLY <1>4, <3>1
  <2>4. EverIn \ table # {}
    <3> SUFFICES ASSUME EverIn \subseteq table PROVE FALSE
      OBVIOUS
    <3>1. EverIn \subseteq W
      BY DEF EverIn, W, Q!Window, Q!InWindow
    <3>2. IsFiniteSet(W)
      BY WindowIsTable DEF W, IsTable
    <3>3. Cardinality(EverIn) <= Cardinality(W) /\ Cardinality(EverIn) \in Nat
      BY <1>2, <3>1, <3>2, FS_Subset, FS_CardinalityType
    <3>4. n <= Cardinality(EverIn)
      BY Zenon DEF FitsIn
    <3>5. Len(s) = Cardinality(W) /\ Cardinality(W) \in Nat
      BY <1>0
    <3>6. n \in Nat
      OBVIOUS
    <3> QED
      BY ONLY <1>4, <1>7, <3>3, <3>4, <3>5, <3>6
  <2> QED
    BY <2>1, <2>3, <2>4 DEF PercentileIn, m, d
<1> QED
  BY <1>6, <1>7

LEMMA PercentileFails ==
  ASSUME QueriesTyped, NEW n \in Nat, n > 0, NEW p \in 0..99
  PROVE  PercentileIn(0, n, p, EverIn, Q!Stayed, TRUE)
<1>1. \A r \in EverIn : r.kind.dur \in Nat
  BY EverIsTable, OperationAssumption DEF IsTable, LogRow, Q!QueryAssumption
<1>2. {r \in EverIn : r.kind.dur < 0} \cap Q!Stayed = {}
  BY <1>1
<1>3. Cardinality({r \in EverIn : r.kind.dur < 0} \cap Q!Stayed) = 0
  BY <1>2, FS_EmptySet, Zenon
<1>4. (n - 1) * p \in Nat
  OBVIOUS
<1> QED
  BY <1>3, <1>4 DEF PercentileIn

-----------------------------------------------------------------------------
(* An answer as far as it is made: each part fits the rows.                *)
PageIn(a, E, S) ==
  \E page \in 0..2, asked \in 0..(MaxSize + 1) : \E before, size \in Nat :
    /\ a = [page |-> page, asked |-> asked, rows |-> a.rows]
    /\ size = Q!Size(asked) /\ before = ((IF page = 0 THEN 1 ELSE page) - 1) * size
    /\ RowsIn(a.rows, before, size, E, S)

ListPart(i, x, E, S) ==
  /\ i = 1 => x \in Nat /\ FitsIn(x, E, S)
  /\ i = 2 => PageIn(x, E, S)

TrendPart(i, x, n, E, S, lost) ==
  /\ i \in {1, 6} => Q!Total(x) \in Nat /\ FitsIn(Q!Total(x), E, S)
  /\ i = 2 => x \in Nat /\ FitsIn(x, E, S)
  /\ i \in 3..5 => n \in Nat /\ PercentileIn(x, n, Q!Percents[i - 2], E, S, lost)

ListedSoFar ==
  /\ Len(reader.got) \in 0..2
  /\ reader.step = IF Len(reader.got) = 2 THEN 0 ELSE Len(reader.got) + 1
  /\ \A i \in 1..Len(reader.got) : ListPart(i, reader.got[i], Ever, Q!Stayed)

TrendSoFar ==
  /\ Len(reader.got) \in 0..6
  /\ reader.step = IF Len(reader.got) = 6 THEN 0 ELSE Len(reader.got) + 1
  /\ \A i \in 1..Len(reader.got) :
       TrendPart(i, reader.got[i], reader.got[2], EverIn, Q!Stayed, Lost)

Agreeing ==
  /\ reader.op = "list" => ListedSoFar
  /\ reader.op = "trend" => TrendSoFar

LEMMA PercentsAre ==
  \A i \in 1..3 : Q!Percents[i] \in 0..99 /\ Q!Percents[i] \in Nat
BY DEF Q!Percents

LEMMA UntilStays ==
  ASSUME QueriesTyped, [Q!Next]_(Q!vars), Q!Reading, Q!Reading'
  PROVE  reader'.until = reader.until
<1>1. ~Ends /\ ~ \E op \in Ops \ {"none"} : Q!Begin(op)
  <2>1. ASSUME Ends PROVE FALSE
    <3>1. reader'.op = "none"
      BY <2>1 DEF Ends, Q!Idle
    <3> QED
      BY <3>1 DEF Q!Reading
  <2>2. ASSUME NEW op, Q!Begin(op) PROVE FALSE
    BY <2>2 DEF Q!Begin
  <2> QED
    BY <2>1, <2>2
<1>2. CASE Reads
  BY <1>2, PartAdded DEF Reads
<1> QED
  BY <1>1, <1>2, StepsOfQueries DEF Writes, Q!vars

(* What a part that fits the rows needs of a step to fit them still.       *)
LEMMA RowsOfHistory ==
  ASSUME QueriesTyped, [Q!Next]_(Q!vars), Q!Reading, Q!Reading'
  PROVE  /\ IsFiniteSet(Ever) /\ IsFiniteSet(Ever')
         /\ Ever \subseteq Ever' /\ Ever' \cap Q!Stayed' \subseteq Ever \cap Q!Stayed
         /\ IsFiniteSet(EverIn) /\ IsFiniteSet(EverIn')
         /\ EverIn \subseteq EverIn' /\ EverIn' \cap Q!Stayed' \subseteq EverIn \cap Q!Stayed
         /\ Lost => Lost'
<1>1. QueriesTyped'
  BY TypesOfQueries
<1>2. IsFiniteSet(had.was) /\ IsFiniteSet(had'.was)
  BY <1>1 DEF QueriesTyped, IsTable
<1>3. /\ had.was \subseteq had'.was
      /\ Q!Stayed' \cap had'.was \subseteq Q!Stayed
      /\ had.was \ table \subseteq had'.was \ table'
      /\ had.failed => had'.failed
      /\ reader'.until = reader.until
  BY History, UntilStays
<1>4. Q!Stayed \subseteq had.was
  BY DEF Q!Stayed
<1>5. /\ IsFiniteSet(Ever) /\ IsFiniteSet(Ever')
      /\ IsFiniteSet(EverIn) /\ IsFiniteSet(EverIn')
  BY <1>2, FS_Subset DEF Ever, EverIn, Q!Matched, Q!InWindow
<1>6. Ever \subseteq Ever' /\ Ever' \cap Q!Stayed' \subseteq Ever \cap Q!Stayed
  BY <1>3, <1>4 DEF Ever, Q!Matched
<1>7. EverIn \subseteq EverIn' /\ EverIn' \cap Q!Stayed' \subseteq EverIn \cap Q!Stayed
  BY <1>3, <1>4 DEF EverIn, Q!InWindow
<1>8. EverIn \ table \subseteq EverIn' \ table'
  BY <1>3 DEF EverIn, Q!InWindow
<1>9. Lost => Lost'
  BY <1>3, <1>8 DEF Lost
<1> QED
  BY <1>5, <1>6, <1>7, <1>9

LEMMA PartsLater ==
  ASSUME QueriesTyped, [Q!Next]_(Q!vars), Q!Reading, Q!Reading', NEW i, NEW x
  PROVE  /\ ListPart(i, x, Ever, Q!Stayed) => ListPart(i, x, Ever', Q!Stayed')
         /\ \A n : TrendPart(i, x, n, EverIn, Q!Stayed, Lost)
                     => TrendPart(i, x, n, EverIn', Q!Stayed', Lost')
<1> DEFINE E == Ever
           E2 == Ever'
           I == EverIn
           I2 == EverIn'
           S == Q!Stayed
           S2 == Q!Stayed'
           l == Lost
           l2 == Lost'
<1>1. /\ IsFiniteSet(E) /\ IsFiniteSet(E2) /\ E \subseteq E2 /\ E2 \cap S2 \subseteq E \cap S
      /\ IsFiniteSet(I) /\ IsFiniteSet(I2) /\ I \subseteq I2 /\ I2 \cap S2 \subseteq I \cap S
      /\ l => l2
  BY RowsOfHistory
<1>2. l \in BOOLEAN /\ l2 \in BOOLEAN
  <2>1. l = TRUE \/ l = FALSE
    BY DEF Lost
  <2> QED
    BY DEF Lost
<1> HIDE DEF E, E2, I, I2, S, S2, l, l2
<1>3. ASSUME ListPart(i, x, E, S)
      PROVE  ListPart(i, x, E2, S2)
  <2>1. ASSUME i = 1
        PROVE  x \in Nat /\ FitsIn(x, E2, S2)
    <3>1. x \in Nat /\ FitsIn(x, E, S)
      BY <1>3, <2>1 DEF ListPart
    <3> QED
      BY <1>1, <3>1, FitsLater
  <2>2. ASSUME i = 2
        PROVE  PageIn(x, E2, S2)
    <3>1. PageIn(x, E, S)
      BY <1>3, <2>2 DEF ListPart
    <3>2. PICK page \in 0..2, asked \in 0..(MaxSize + 1) : \E before, size \in Nat :
            /\ x = [page |-> page, asked |-> asked, rows |-> x.rows]
            /\ size = Q!Size(asked) /\ before = ((IF page = 0 THEN 1 ELSE page) - 1) * size
            /\ RowsIn(x.rows, before, size, E, S)
      BY <3>1 DEF PageIn
    <3>3. PICK before \in Nat, size \in Nat :
            /\ x = [page |-> page, asked |-> asked, rows |-> x.rows]
            /\ size = Q!Size(asked) /\ before = ((IF page = 0 THEN 1 ELSE page) - 1) * size
            /\ RowsIn(x.rows, before, size, E, S)
      BY <3>2
    <3> DEFINE rows == x.rows
    <3>4. RowsIn(rows, before, size, E, S)
      BY <3>3
    <3> HIDE DEF rows
    <3>5. RowsIn(rows, before, size, E2, S2)
      BY <1>1, <3>4, RowsLater
    <3> QED
      BY <3>3, <3>5 DEF PageIn, rows
  <2> QED
    BY <2>1, <2>2 DEF ListPart
<1>4. ASSUME NEW n, TrendPart(i, x, n, I, S, l)
      PROVE  TrendPart(i, x, n, I2, S2, l2)
  <2>1. ASSUME i \in {1, 6}
        PROVE  Q!Total(x) \in Nat /\ FitsIn(Q!Total(x), I2, S2)
    <3> DEFINE t == Q!Total(x)
    <3>1. t \in Nat /\ FitsIn(t, I, S)
      BY <1>4, <2>1 DEF TrendPart
    <3> HIDE DEF t
    <3>2. FitsIn(t, I2, S2)
      BY <1>1, <3>1, FitsLater
    <3> QED
      BY <3>1, <3>2 DEF t
  <2>2. ASSUME i = 2
        PROVE  x \in Nat /\ FitsIn(x, I2, S2)
    <3>1. x \in Nat /\ FitsIn(x, I, S)
      BY <1>4, <2>2 DEF TrendPart
    <3> QED
      BY <1>1, <3>1, FitsLater
  <2>3. ASSUME i \in 3..5
        PROVE  n \in Nat /\ PercentileIn(x, n, Q!Percents[i - 2], I2, S2, l2)
    <3> DEFINE p == Q!Percents[i - 2]
    <3>1. n \in Nat /\ PercentileIn(x, n, p, I, S, l)
      BY <1>4, <2>3 DEF TrendPart
    <3>2. p \in Nat
      <4>1. i - 2 \in 1..3
        BY <2>3
      <4> QED
        BY <4>1, PercentsAre
    <3> HIDE DEF p
    <3>3. PercentileIn(x, n, p, I2, S2, l2)
      BY <1>1, <1>2, <3>1, <3>2, PercentileLater
    <3> QED
      BY <3>1, <3>3 DEF p
  <2> QED
    BY <2>1, <2>2, <2>3 DEF TrendPart
<1> QED
  BY <1>3, <1>4 DEF E, E2, I, I2, S, S2, l, l2

(* The parts as they are read.                                             *)
LEMMA ListPartNow ==
  ASSUME QueriesTyped, Q!Reading
  PROVE  /\ ListPart(1, Cardinality(Q!Matching), Ever, Q!Stayed)
         /\ \A page \in 0..2, asked \in 0..(MaxSize + 1) :
              ListPart(2, [page |-> page, asked |-> asked, rows |-> Q!ListLogs(page, asked)],
                       Ever, Q!Stayed)
<1>1. ListPart(1, Cardinality(Q!Matching), Ever, Q!Stayed)
  <2>1. IsFiniteSet(Ever)
    BY EverIsTable DEF IsTable
  <2> QED
    BY <2>1, ReadsOfEver, FitsNow DEF ListPart
<1>2. ASSUME NEW page \in 0..2, NEW asked \in 0..(MaxSize + 1)
      PROVE  ListPart(2, [page |-> page, asked |-> asked, rows |-> Q!ListLogs(page, asked)],
                      Ever, Q!Stayed)
  <2> DEFINE rows == Q!ListLogs(page, asked)
             size == Q!Size(asked)
             before == ((IF page = 0 THEN 1 ELSE page) - 1) * Q!Size(asked)
             x == [page |-> page, asked |-> asked, rows |-> rows]
  <2>1. RowsIn(rows, before, size, Ever, Q!Stayed) /\ before \in Nat /\ size \in Nat
    <3>1. rows = Q!ListLogs(page, asked)
      OBVIOUS
    <3>2. before = ((IF page = 0 THEN 1 ELSE page) - 1) * Q!Size(asked)
      OBVIOUS
    <3> HIDE DEF rows, before
    <3> QED
      BY <3>1, <3>2, RowsNow
  <2>2. size = Q!Size(asked) /\ before = ((IF page = 0 THEN 1 ELSE page) - 1) * size
    OBVIOUS
  <2>3. x.rows = rows /\ x = [page |-> page, asked |-> asked, rows |-> x.rows]
    OBVIOUS
  <2> HIDE DEF rows, size, before, x
  <2>4. PageIn(x, Ever, Q!Stayed)
    BY <2>1, <2>2, <2>3 DEF PageIn
  <2>5. ListPart(2, x, Ever, Q!Stayed)
    BY <2>4 DEF ListPart
  <2> QED
    BY <2>5 DEF x, rows
<1> QED
  BY <1>1, <1>2

LEMMA TrendPartNow ==
  ASSUME QueriesTyped, Q!Reading
  PROVE  /\ \A n : TrendPart(1, Q!GetTrend, n, EverIn, Q!Stayed, Lost)
         /\ \A n : TrendPart(2, Cardinality(Q!Window), n, EverIn, Q!Stayed, Lost)
         /\ \A n : TrendPart(6, Q!GetStatusDistribution, n, EverIn, Q!Stayed, Lost)
         /\ \A i \in 1..3, n \in Nat : FitsIn(n, EverIn, Q!Stayed) =>
              /\ TrendPart(2 + i, IF n = 0 THEN 0 ELSE Q!Pick(n, Q!Percents[i]), n,
                           EverIn, Q!Stayed, Lost)
              /\ n > 0 => TrendPart(2 + i, 0, n, EverIn, Q!Stayed, TRUE)
<1>1. IsFiniteSet(EverIn)
  BY EverIsTable DEF IsTable
<1>2. FitsIn(Cardinality(Q!Window), EverIn, Q!Stayed) /\ Cardinality(Q!Window) \in Nat
  BY <1>1, ReadsOfEver, FitsNow
<1>3. /\ Q!Total(Q!GetTrend) = Cardinality(Q!Window)
      /\ Q!Total(Q!GetStatusDistribution) = Cardinality(Q!Window)
  BY TrendTotals
<1>4. ASSUME NEW n
      PROVE  /\ TrendPart(1, Q!GetTrend, n, EverIn, Q!Stayed, Lost)
             /\ TrendPart(2, Cardinality(Q!Window), n, EverIn, Q!Stayed, Lost)
             /\ TrendPart(6, Q!GetStatusDistribution, n, EverIn, Q!Stayed, Lost)
  BY <1>2, <1>3 DEF TrendPart
<1>5. ASSUME NEW i \in 1..3, NEW n \in Nat, FitsIn(n, EverIn, Q!Stayed)
      PROVE  /\ TrendPart(2 + i, IF n = 0 THEN 0 ELSE Q!Pick(n, Q!Percents[i]), n,
                          EverIn, Q!Stayed, Lost)
             /\ n > 0 => TrendPart(2 + i, 0, n, EverIn, Q!Stayed, TRUE)
  <2> DEFINE p == Q!Percents[i]
             x == IF n = 0 THEN 0 ELSE Q!Pick(n, p)
  <2>1. p \in 0..99 /\ p = Q!Percents[(2 + i) - 2]
    BY PercentsAre
  <2>2. 2 + i \in 3..5 /\ 2 + i \notin {1, 6} /\ 2 + i # 2
    OBVIOUS
  <2> HIDE DEF p
  <2>3. PercentileIn(x, n, p, EverIn, Q!Stayed, Lost)
    <3>1. CASE n = 0
      BY <3>1 DEF PercentileIn
    <3>2. CASE n > 0
      <4>1. PercentileIn(x, n, p, EverIn, Q!Stayed, EverIn \ table # {})
        <5>1. x = Q!Pick(n, p)
          BY <3>2
        <5>2. PercentileIn(Q!Pick(n, p), n, p, EverIn, Q!Stayed, EverIn \ table # {})
          BY <1>5, <2>1, <3>2, PercentileNow
        <5> QED
          BY <5>1, <5>2
      <4> HIDE DEF x
      <4> QED
        BY <4>1 DEF PercentileIn, Lost
    <3> QED
      BY <3>1, <3>2
  <2>4. n > 0 => PercentileIn(0, n, p, EverIn, Q!Stayed, TRUE)
    BY <2>1, PercentileFails
  <2> HIDE DEF x
  <2>5. TrendPart(2 + i, x, n, EverIn, Q!Stayed, Lost)
    BY <2>1, <2>2, <2>3 DEF TrendPart
  <2>6. n > 0 => TrendPart(2 + i, 0, n, EverIn, Q!Stayed, TRUE)
    BY <2>1, <2>2, <2>4 DEF TrendPart
  <2> QED
    BY <2>5, <2>6 DEF x, p
<1> QED
  BY <1>4, <1>5

LEMMA AgreeStep ==
  ASSUME QueriesTyped, Agreeing, [Q!Next]_(Q!vars)
  PROVE  Agreeing'
<1>1. ASSUME NEW x, NEW more \in BOOLEAN, Q!Got(x, more), reader.op = "list",
             reader.step \in 1..2, more <=> reader.step # 2,
             ListPart(reader.step, x, Ever, Q!Stayed)
      PROVE  Agreeing'
  <2> DEFINE k == reader.step
             got == reader.got
             got2 == reader'.got
  <2>1. /\ Len(got) \in 0..2 /\ k = IF Len(got) = 2 THEN 0 ELSE Len(got) + 1
        /\ \A i \in 1..Len(got) : ListPart(i, got[i], Ever, Q!Stayed)
    BY <1>1 DEF Agreeing, ListedSoFar
  <2>2. /\ reader'.op = "list" /\ reader'.step = (IF more THEN k + 1 ELSE 0)
        /\ Len(got2) = Len(got) + 1
        /\ \A i \in 1..Len(got) : got2[i] = got[i]
        /\ got2[Len(got) + 1] = x
    BY <1>1, PartAdded
  <2> HIDE DEF got, got2, k
  <2>3. k = Len(got) + 1 /\ Len(got2) = k /\ k \in 1..2
    BY <1>1, <2>1, <2>2 DEF k
  <2>4. reader'.step = IF Len(got2) = 2 THEN 0 ELSE Len(got2) + 1
    BY <1>1, <2>2, <2>3 DEF k
  <2>5. Q!Reading /\ Q!Reading'
    BY <1>1, <2>2 DEF Q!Reading
  <2>6. ASSUME NEW i \in 1..k
        PROVE  ListPart(i, got2[i], Ever, Q!Stayed)
    <3>1. CASE i = k
      BY <1>1, <2>2, <2>3, <3>1 DEF k
    <3>2. CASE i # k
      <4>1. i \in 1..Len(got)
        BY <2>1, <2>3, <3>2
      <4> QED
        BY <2>1, <2>2, <4>1
    <3> QED
      BY <3>1, <3>2
  <2>7. \A i \in 1..Len(got2) : ListPart(i, got2[i], Ever', Q!Stayed')
    BY <2>3, <2>5, <2>6, PartsLater
  <2> QED
    BY <2>2, <2>3, <2>4, <2>7 DEF Agreeing, ListedSoFar, got2
<1>2. ASSUME NEW x, NEW more \in BOOLEAN, Q!Got(x, more), reader.op = "trend",
             reader.step \in 1..6, more <=> reader.step # 6,
             \/ /\ reader.step \notin 3..5
                /\ \A n : TrendPart(reader.step, x, n, EverIn, Q!Stayed, Lost)
             \/ /\ reader.step \in 3..5
                /\ TrendPart(reader.step, x, reader.got[2], EverIn, Q!Stayed, Lost')
      PROVE  Agreeing'
  <2> DEFINE k == reader.step
             got == reader.got
             got2 == reader'.got
  <2>1. /\ Len(got) \in 0..6 /\ k = IF Len(got) = 6 THEN 0 ELSE Len(got) + 1
        /\ \A i \in 1..Len(got) : TrendPart(i, got[i], got[2], EverIn, Q!Stayed, Lost)
    BY <1>2 DEF Agreeing, TrendSoFar
  <2>2. /\ reader'.op = "trend" /\ reader'.step = (IF more THEN k + 1 ELSE 0)
        /\ Len(got2) = Len(got) + 1
        /\ \A i \in 1..Len(got) : got2[i] = got[i]
        /\ got2[Len(got) + 1] = x
        /\ table' = table /\ reader'.until = reader.until
    BY <1>2, PartAdded
  <2>3. had'.was = had.was /\ had'.first = had.first
    <3>1. ~Ends /\ ~(\E op \in Ops \ {"none"} : Q!Begin(op))
      <4>1. ASSUME Ends PROVE FALSE
        <5>1. reader'.op = "none"
          BY <4>1 DEF Ends, Q!Idle
        <5> QED
          BY <2>2, <5>1
      <4> QED
        BY <1>2, <4>1 DEF Q!Begin, Q!Reading
    <3>2. ~Writes /\ ~UNCHANGED Q!vars
      <4>1. Len(got2) # Len(got)
        BY <2>1, <2>2
      <4> QED
        BY <4>1 DEF Writes, Q!vars, got, got2
    <3>3. had' = had \/ had' = [had EXCEPT !.failed = TRUE]
      BY <3>1, <3>2, StepsOfQueries DEF Reads
    <3> QED
      BY <3>3 DEF QueriesTyped
  <2>4. Ever' = Ever /\ EverIn' = EverIn /\ Q!Stayed' = Q!Stayed
    BY <2>2, <2>3 DEF Ever, EverIn, Q!Stayed, Q!Matched, Q!InWindow
  <2> HIDE DEF got, got2, k
  <2>5. k = Len(got) + 1 /\ Len(got2) = k /\ k \in 1..6
    BY <1>2, <2>1, <2>2 DEF k
  <2>6. reader'.step = IF Len(got2) = 6 THEN 0 ELSE Len(got2) + 1
    BY <1>2, <2>2, <2>5 DEF k
  <2>7. Q!Reading /\ Q!Reading'
    BY <1>2, <2>2 DEF Q!Reading
  <2>8. ASSUME NEW i \in 1..k
        PROVE  TrendPart(i, got2[i], got2[2], EverIn', Q!Stayed', Lost')
    <3>1. CASE i = k /\ k \notin 3..5
      <4>1. TrendPart(i, got2[i], got2[2], EverIn, Q!Stayed, Lost)
        BY <1>2, <2>2, <2>5, <3>1 DEF k
      <4> QED
        BY <2>7, <4>1, PartsLater
    <3>2. CASE i = k /\ k \in 3..5
      <4>1. 2 \in 1..Len(got)
        BY <2>5, <3>2
      <4>2. got2[2] = got[2] /\ got2[i] = x
        BY <2>2, <2>5, <3>2, <4>1
      <4>3. TrendPart(k, x, got[2], EverIn, Q!Stayed, Lost')
        BY <1>2, <3>2 DEF k, got
      <4> QED
        BY <2>4, <3>2, <4>2, <4>3
    <3>3. CASE i # k
      <4>1. i \in 1..Len(got)
        BY <2>1, <2>5, <3>3
      <4>2. TrendPart(i, got2[i], got[2], EverIn, Q!Stayed, Lost)
        BY <2>1, <2>2, <4>1
      <4>3. TrendPart(i, got2[i], got2[2], EverIn, Q!Stayed, Lost)
        <5>1. CASE i < 2
          BY <4>2, <5>1 DEF TrendPart
        <5>2. CASE ~(i < 2)
          <6>1. 2 \in 1..Len(got)
            BY <2>1, <4>1, <5>2
          <6> QED
            BY <2>2, <4>2, <6>1
        <5> QED
          BY <5>1, <5>2
      <4> QED
        BY <2>7, <4>3, PartsLater
    <3> QED
      BY <3>1, <3>2, <3>3
  <2>9. TrendSoFar'
    <3>1. /\ Len(reader'.got) \in 0..6
          /\ reader'.step = IF Len(reader'.got) = 6 THEN 0 ELSE Len(reader'.got) + 1
      BY <2>5, <2>6 DEF got2
    <3>2. \A i \in 1..Len(reader'.got) :
            TrendPart(i, reader'.got[i], reader'.got[2], EverIn', Q!Stayed', Lost')
      BY <2>5, <2>8 DEF got2
    <3> QED
      BY <3>1, <3>2 DEF TrendSoFar
  <2> QED
    BY <2>2, <2>9 DEF Agreeing
<1>3. CASE Q!ListCount
  <2> DEFINE x == Cardinality(Q!Matching)
  <2>1. Q!At("list", 1) /\ Q!Got(x, TRUE)
    BY <1>3, CardinalityOfQueries DEF Q!ListCount
  <2>2. reader.op = "list" /\ reader.step = 1 /\ Q!Reading
    BY <2>1 DEF Q!At, Q!Reading
  <2>3. ListPart(reader.step, x, Ever, Q!Stayed)
    BY <2>2, ListPartNow
  <2> HIDE DEF x
  <2>4. reader.step \in 1..2 /\ (TRUE <=> reader.step # 2)
    BY <2>2
  <2> QED
    BY <1>1, <2>1, <2>2, <2>3, <2>4
<1>4. CASE Q!ListRows
  <2>1. PICK page \in 0..2, asked \in 0..(MaxSize + 1) :
          Q!Got([page |-> page, asked |-> asked, rows |-> Q!ListLogs(page, asked)], FALSE)
    BY <1>4 DEF Q!ListRows
  <2>2. Q!At("list", 2)
    BY <1>4 DEF Q!ListRows
  <2>3. reader.op = "list" /\ reader.step = 2 /\ Q!Reading
    BY <2>2 DEF Q!At, Q!Reading
  <2> DEFINE x == [page |-> page, asked |-> asked, rows |-> Q!ListLogs(page, asked)]
  <2>4. Q!Got(x, FALSE)
    BY <2>1
  <2>5. ListPart(2, x, Ever, Q!Stayed)
    BY <2>3, ListPartNow
  <2> HIDE DEF x
  <2>6. /\ reader.step \in 1..2 /\ (FALSE <=> reader.step # 2)
        /\ ListPart(reader.step, x, Ever, Q!Stayed)
    BY <2>3, <2>5
  <2> QED
    BY <1>1, <2>3, <2>4, <2>6
<1>5. CASE Q!TrendPoints \/ Q!TrendTotal \/ Q!TrendClasses
  <2>1. ASSUME NEW i \in {1, 2, 6}, NEW x, NEW more \in BOOLEAN, more <=> i # 6,
               Q!At("trend", i), Q!Got(x, more),
               Q!Reading => \A n : TrendPart(i, x, n, EverIn, Q!Stayed, Lost)
        PROVE  Agreeing'
    <3>0. reader.op = "trend" /\ reader.step = i
      BY ONLY <2>1 DEF Q!At
    <3>1. reader.op = "trend" /\ reader.step = i /\ Q!Reading
      BY ONLY <3>0 DEF Q!Reading
    <3>2. \A n : TrendPart(reader.step, x, n, EverIn, Q!Stayed, Lost)
      BY <2>1, <3>1
    <3>3. /\ reader.step \in 1..6 /\ reader.step \notin 3..5
          /\ (more <=> reader.step # 6)
      BY ONLY <2>1, <3>1
    <3>4. more \in BOOLEAN /\ Q!Got(x, more)
      BY <2>1
    <3> QED
      BY ONLY <1>2, <3>1, <3>2, <3>3, <3>4
  <2>2. CASE Q!TrendPoints
    <3>1. Q!At("trend", 1) /\ Q!Got(Q!GetTrend, TRUE)
      BY <2>2 DEF Q!TrendPoints
    <3>2. Q!Reading => \A n : TrendPart(1, Q!GetTrend, n, EverIn, Q!Stayed, Lost)
      BY TrendPartNow
    <3>3. 1 \in {1, 2, 6} /\ (TRUE <=> 1 # 6)
      OBVIOUS
    <3> QED
      BY <2>1, <3>1, <3>2, <3>3
  <2>3. CASE Q!TrendTotal
    <3> DEFINE x == Cardinality(Q!Window)
    <3>1. Q!At("trend", 2) /\ Q!Got(x, TRUE)
      BY <2>3, CardinalityOfQueries DEF Q!TrendTotal
    <3>2. ASSUME Q!Reading
          PROVE  \A n : TrendPart(2, x, n, EverIn, Q!Stayed, Lost)
      <4>1. \A n : TrendPart(2, Cardinality(Q!Window), n, EverIn, Q!Stayed, Lost)
        BY <3>2, TrendPartNow
      <4> QED
        BY <4>1
    <3> HIDE DEF x
    <3>3. 2 \in {1, 2, 6} /\ (TRUE <=> 2 # 6)
      OBVIOUS
    <3> QED
      BY <2>1, <3>1, <3>2, <3>3
  <2>4. CASE Q!TrendClasses
    <3>1. Q!At("trend", 6) /\ Q!Got(Q!GetStatusDistribution, FALSE)
      BY <2>4 DEF Q!TrendClasses
    <3>2. Q!Reading => \A n : TrendPart(6, Q!GetStatusDistribution, n, EverIn, Q!Stayed, Lost)
      BY TrendPartNow
    <3>3. 6 \in {1, 2, 6} /\ (FALSE <=> 6 # 6)
      OBVIOUS
    <3> QED
      BY <2>1, <3>1, <3>2, <3>3
  <2> QED
    BY <1>5, <2>2, <2>3, <2>4
<1>6. CASE Q!TrendPick
  <2>1. PICK i \in 1..3 :
          /\ Q!At("trend", 2 + i)
          /\ \/ /\ Q!Got(IF reader.got[2] = 0 THEN 0
                         ELSE Q!Pick(reader.got[2], Q!Percents[i]), TRUE)
                /\ had' = had
             \/ /\ reader.got[2] > 0 /\ Q!Got(0, TRUE)
                /\ had' = [had EXCEPT !.failed = TRUE]
    BY ONLY <1>6 DEF Q!TrendPick
  <2>2. /\ reader.op = "trend" /\ reader.step = 2 + i /\ Q!Reading
        /\ reader.step \in 1..6 /\ reader.step # 6 /\ reader.step \in 3..5
    BY <2>1 DEF Q!At, Q!Reading
  <2> DEFINE n == reader.got[2]
  <2>3. n \in Nat /\ FitsIn(n, EverIn, Q!Stayed)
    <3>1. 2 \in 1..Len(reader.got) /\ TrendSoFar
      BY <2>2 DEF Agreeing, TrendSoFar
    <3>2. TrendPart(2, reader.got[2], reader.got[2], EverIn, Q!Stayed, Lost)
      BY <3>1 DEF TrendSoFar
    <3> QED
      BY <3>2 DEF TrendPart
  <2> HIDE DEF n
  <2>4. /\ TrendPart(2 + i, IF n = 0 THEN 0 ELSE Q!Pick(n, Q!Percents[i]), n,
                     EverIn, Q!Stayed, Lost)
        /\ n > 0 => TrendPart(2 + i, 0, n, EverIn, Q!Stayed, TRUE)
    BY <2>2, <2>3, TrendPartNow
  <2>5. CASE Q!Got(IF n = 0 THEN 0 ELSE Q!Pick(n, Q!Percents[i]), TRUE) /\ had' = had
    <3> DEFINE x == IF n = 0 THEN 0 ELSE Q!Pick(n, Q!Percents[i])
    <3>1. Q!Got(x, TRUE) /\ TrendPart(2 + i, x, n, EverIn, Q!Stayed, Lost)
      BY <2>4, <2>5
    <3> HIDE DEF x
    <3>2. table' = table /\ reader'.until = reader.until
      BY <3>1, PartAdded
    <3>3. Lost' = Lost
      BY <2>5, <3>2 DEF Lost, EverIn, Q!InWindow
    <3>4. TrendPart(reader.step, x, reader.got[2], EverIn, Q!Stayed, Lost')
      BY <2>2, <3>1, <3>3 DEF n
    <3>5. TRUE <=> reader.step # 6
      BY <2>2
    <3> QED
      BY <1>2, <2>2, <3>1, <3>4, <3>5
  <2>6. CASE n > 0 /\ Q!Got(0, TRUE) /\ had' = [had EXCEPT !.failed = TRUE]
    <3>1. Lost' = TRUE
      <4>1. had'.failed = TRUE
        BY <2>6 DEF QueriesTyped
      <4> QED
        BY <4>1 DEF Lost
    <3>2. TrendPart(reader.step, 0, reader.got[2], EverIn, Q!Stayed, Lost')
      BY <2>2, <2>4, <2>6, <3>1 DEF n
    <3>3. TRUE <=> reader.step # 6
      BY <2>2
    <3> QED
      BY <1>2, <2>2, <2>6, <3>2, <3>3
  <2> QED
    BY <2>1, <2>5, <2>6 DEF n
<1>7. CASE reader' = reader
  <2>1. ASSUME reader.op = "list" PROVE ListedSoFar'
    <3>1. Q!Reading /\ Q!Reading' /\ ListedSoFar
      BY <1>7, <2>1 DEF Q!Reading, Agreeing
    <3>2. \A i \in 1..Len(reader.got) : ListPart(i, reader.got[i], Ever', Q!Stayed')
      BY <3>1, PartsLater DEF ListedSoFar
    <3> QED
      BY <1>7, <3>1, <3>2 DEF ListedSoFar
  <2>2. ASSUME reader.op = "trend" PROVE TrendSoFar'
    <3>1. Q!Reading /\ Q!Reading' /\ TrendSoFar
      BY <1>7, <2>2 DEF Q!Reading, Agreeing
    <3>2. \A i \in 1..Len(reader.got) :
            TrendPart(i, reader.got[i], reader.got[2], EverIn', Q!Stayed', Lost')
      BY <3>1, PartsLater DEF TrendSoFar
    <3> QED
      BY <1>7, <3>1, <3>2 DEF TrendSoFar
  <2> QED
    BY <1>7, <2>1, <2>2 DEF Agreeing
<1>8. ASSUME NEW op, Q!Begin(op)
      PROVE  Agreeing'
  <2>1. reader' = [op |-> op, step |-> 1, until |-> now, got |-> <<>>]
    BY <1>8 DEF Q!Begin, Q!Idle
  <2>2. Len(reader'.got) = 0 /\ reader'.step = 1
    BY <2>1
  <2> QED
    BY <2>2 DEF Agreeing, ListedSoFar, TrendSoFar
<1>9. CASE Ends
  <2>1. reader'.op = "none"
    BY <1>9 DEF Ends, Q!Idle
  <2> QED
    BY <2>1 DEF Agreeing
<1>10. CASE Reads /\ reader.op \notin {"list", "trend"}
  <2>1. reader'.op = reader.op
    BY <1>10, PartAdded DEF Reads
  <2> QED
    BY <1>10, <2>1 DEF Agreeing
<1>11. ASSUME reader.op \in {"list", "trend"}, Q!Next
       PROVE  \/ Q!ListCount \/ Q!ListRows \/ Q!TrendPick
              \/ Q!TrendPoints \/ Q!TrendTotal \/ Q!TrendClasses \/ Writes \/ Ends
  <2>1. ASSUME Q!NextPage \/ Q!Export \/ Q!RealtimeTotal \/ Q!RealtimeErrors
        PROVE  FALSE
    BY <1>11, <2>1 DEF Q!NextPage, Q!Export, Q!At, Q!RealtimeTotal, Q!RealtimeErrors
  <2>2. ASSUME NEW op, Q!Begin(op)
        PROVE  FALSE
    BY <1>11, <2>2 DEF Q!Begin, Q!Reading
  <2>3. Q!Answer \/ Q!Refuse => Ends
    BY DEF Ends, Q!Answer, Q!Refuse
  <2>4. ASSUME (\E k \in Kinds : Q!Insert(k)) \/ (\E limit : Q!DeleteBefore(limit)) \/ Q!Tick
        PROVE  Writes
    BY <2>4 DEF Writes, Q!Insert, Q!DeleteBefore, Q!Tick
  <2> QED
    BY <1>11, <2>1, <2>2, <2>3, <2>4 DEF Q!Next
<1>12. CASE UNCHANGED Q!vars
  BY <1>7, <1>12 DEF Q!vars
<1>13. CASE reader.op \in {"list", "trend"} /\ Q!Next
  BY <1>3, <1>4, <1>5, <1>6, <1>7, <1>9, <1>11, <1>13 DEF Writes
<1>14. CASE reader.op \notin {"list", "trend"}
  BY <1>7, <1>8, <1>9, <1>10, <1>12, <1>14, StepsOfQueries DEF Writes
<1> QED
  BY <1>12, <1>13, <1>14

(* The parts of one answer, made while rows are inserted and deleted in    *)
(* any order: the total of a list, its page, the points, total and classes *)
(* of a trend each count all the rows that stayed all the time and none    *)
(* that was never there, a row is on the page at a place it had, and a     *)
(* percentile is one of its durations, or 0 when its SELECT failed or rows *)
(* were deleted (listLogs, TrendService.Get, GetPercentiles).              *)
THEOREM AnswersAgree == Q!Spec => []PartsAgree
<1>1. Q!Init => Agreeing
  BY DEF Q!Init, Q!Idle, Agreeing
<1>2. \A n, E : Q!Fits(n, E) <=> FitsIn(n, E, Q!Stayed)
  BY CardinalityOfQueries DEF Q!Fits, FitsIn
<1>3. ASSUME QueriesTyped, Agreeing
      PROVE  Q!PartsAgree
  <2>1. ASSUME Q!Done("list")
        PROVE  Q!PageFitsTotal
    <3> DEFINE total == reader.got[1]
               a == reader.got[2]
    <3>1. ListedSoFar /\ Len(reader.got) = 2
      BY <1>3, <2>1 DEF Agreeing, Q!Done, ListedSoFar
    <3>2. ListPart(1, total, Ever, Q!Stayed) /\ ListPart(2, a, Ever, Q!Stayed)
      BY <3>1 DEF ListedSoFar
    <3> HIDE DEF total, a
    <3>3. FitsIn(total, Ever, Q!Stayed) /\ PageIn(a, Ever, Q!Stayed)
      BY <3>2 DEF ListPart
    <3>4. PICK page \in 0..2, asked \in 0..(MaxSize + 1) : \E before, size \in Nat :
            /\ a = [page |-> page, asked |-> asked, rows |-> a.rows]
            /\ size = Q!Size(asked) /\ before = ((IF page = 0 THEN 1 ELSE page) - 1) * size
            /\ RowsIn(a.rows, before, size, Ever, Q!Stayed)
      BY <3>3 DEF PageIn
    <3>5. PICK before \in Nat, size \in Nat :
            /\ a = [page |-> page, asked |-> asked, rows |-> a.rows]
            /\ size = Q!Size(asked) /\ before = ((IF page = 0 THEN 1 ELSE page) - 1) * size
            /\ RowsIn(a.rows, before, size, Ever, Q!Stayed)
      BY <3>4
    <3>6. /\ a.page = page /\ a.asked = asked
          /\ size = Q!Size(a.asked)
          /\ before = ((IF a.page = 0 THEN 1 ELSE a.page) - 1) * size
      BY <3>5
    <3>7. /\ LeftFor(size, Cardinality(Ever \cap Q!Stayed) - before) <= Len(a.rows)
          /\ Len(a.rows) <= LeftFor(size, Cardinality(Ever) - before)
          /\ \A i \in DOMAIN a.rows :
               /\ a.rows[i] \in Ever
               /\ Q!Fits(before + i - 1, {r \in Ever : r.id > a.rows[i].id})
               /\ \A j \in DOMAIN a.rows : i < j => a.rows[i].id > a.rows[j].id
      BY <1>2, <3>5 DEF RowsIn
    <3>8. Q!Fits(total, Ever)
      BY <1>2, <3>3
    <3> QED
      BY <3>6, <3>7, <3>8, CardinalityOfQueries DEF Q!PageFitsTotal, LeftFor, Ever, total, a
  <2>2. ASSUME Q!Done("trend")
        PROVE  Q!TrendAddsUp
    <3> DEFINE got == reader.got
               n == got[2]
    <3>1. TrendSoFar /\ Len(got) = 6
      BY <1>3, <2>2 DEF Agreeing, Q!Done, TrendSoFar
    <3>2. \A i \in 1..6 : TrendPart(i, got[i], n, EverIn, Q!Stayed, Lost)
      BY <3>1 DEF TrendSoFar
    <3> HIDE DEF got, n
    <3>3. /\ Q!Fits(Q!Total(got[1]), EverIn) /\ Q!Fits(Q!Total(got[6]), EverIn)
      BY <1>2, <3>2 DEF TrendPart
    <3>4. Q!Fits(n, EverIn)
      BY <1>2, <3>2 DEF TrendPart, n
    <3>5. ASSUME NEW i \in 1..3
          PROVE  Q!IsPercentile(got[2 + i], n, Q!Percents[i], EverIn)
      <4>1. 2 + i \in 3..5 /\ 2 + i \in 1..6 /\ (2 + i) - 2 = i
        OBVIOUS
      <4>2. PercentileIn(got[2 + i], n, Q!Percents[i], EverIn, Q!Stayed, Lost)
        BY <3>2, <4>1 DEF TrendPart
      <4> QED
        BY <4>2, CardinalityOfQueries DEF PercentileIn, Q!IsPercentile, Lost
    <3> QED
      BY <3>3, <3>4, <3>5 DEF Q!TrendAddsUp, EverIn, got, n
  <2> QED
    BY <2>1, <2>2 DEF Q!PartsAgree
<1> QED
  BY <1>1, <1>3, QueriesInit, TypesOfQueries, AgreeStep, PTL DEF Q!Spec, PartsAgree
=============================================================================
