---------------------------- MODULE StartProofs ----------------------------
(***************************************************************************)
(* Proofs about a start of the program.                                    *)
(*                                                                         *)
(* The upgrade, for every set of accounts and tokens and however often the *)
(* start is cut off: statements find their columns, sessions of the        *)
(* version before the upgrade end and later ones do not, and proxy tokens  *)
(* keep their rows.  The configuration, for whatever the sources say: the  *)
(* right source has decided.                                               *)
(***************************************************************************)
EXTENDS Startup, TLAPS

Steps == {"down", "schema", "columns", "version", "alter", "bump", "index",
          "legacy", "rehash", "admin", "tokens", "serving"}
PastColumns == {"index", "legacy", "rehash", "admin", "tokens", "serving"}
PastTokens == {"admin", "tokens", "serving"}

HasVersion == "token_version" \in cols

ProcState == [pc : Steps, next : 1..5, hadVersion : BOOLEAN, legacy : SUBSET Row]
Session == [user : Users, version : Nat, old : BOOLEAN]
History == [stops : Nat, torn : BOOLEAN, known : SUBSET Row]

LEMMA EarlierType ==
  /\ Len(Earlier) = 4
  /\ \A i \in 1..4 : Earlier[i] # "token_version" /\ Earlier[i] \in Columns
  /\ "token_version" \in Columns
<1>1. /\ Len(Earlier) = 4
      /\ \A i \in 1..4 : Earlier[i] # "token_version"
      /\ DOMAIN Earlier = 1..4
  BY DEF Earlier
<1> QED
  BY <1>1 DEF Columns, ToSet

LEMMA EarlierDomain == DOMAIN Earlier = 1..4
BY DEF Earlier

LEMMA TypeParts ==
  TypeOK <=> /\ tables \in BOOLEAN
             /\ cols \subseteq Columns
             /\ accounts \subseteq Users
             /\ version \in [Users -> Nat]
             /\ adminPw \in BOOLEAN
             /\ rows \subseteq Row
             /\ proc \in ProcState
             /\ jwts \subseteq Session
             /\ hist \in History
BY EarlierType DEF TypeOK, ProcState, Session, History, Steps

LEMMA TypePartsNext ==
  TypeOK' <=> /\ tables' \in BOOLEAN
              /\ cols' \subseteq Columns
              /\ accounts' \subseteq Users
              /\ version' \in [Users -> Nat]
              /\ adminPw' \in BOOLEAN
              /\ rows' \subseteq Row
              /\ proc' \in ProcState
              /\ jwts' \subseteq Session
              /\ hist' \in History
BY EarlierType DEF TypeOK, ProcState, Session, History, Steps

(* What the start knows of the columns at each of its steps, and that the  *)
(* rows it is about to convert hold plain text.                            *)
ProcOK ==
  /\ proc.pc \in {"down", "schema"} => proc.next = 1
  /\ proc.pc = "columns" => proc.next \in 1..4
  /\ proc.pc = "alter" => proc.hadVersion = HasVersion
  /\ proc.pc = "bump" \/ proc.pc \in PastColumns => HasVersion
  /\ ~tables => proc.pc \in {"down", "schema"} /\ jwts = {}
  /\ \A r \in proc.legacy : r.form = "plain"

(* Before the versions are raised there are only old sessions; afterwards  *)
(* all of their accounts have a version that is not theirs, unless the     *)
(* raise was cut off.                                                      *)
SessionsOK ==
  /\ \A j \in jwts : j.old => j.version = 0 /\ j.user \in accounts
  /\ ~HasVersion \/ proc.pc = "bump" => \A j \in jwts : j.old
  /\ HasVersion /\ proc.pc # "bump" /\ ~hist.torn =>
       \A j \in jwts : j.old => version[j.user] > 0

StartOK == TypeOK /\ ProcOK /\ SessionsOK

LEMMA StartInit ==
  ASSUME Init PROVE StartOK
<1>1. /\ version = [u \in Users |-> 0] /\ accounts \subseteq Users /\ rows \subseteq Row
      /\ proc = Down /\ tables \in BOOLEAN /\ cols \subseteq Columns /\ adminPw \in BOOLEAN
  <2>1. CASE tables = FALSE
    BY <2>1 DEF Init
  <2>2. CASE tables = TRUE
    <3>1. PICK known \in SUBSET Tokens, plain \in SUBSET Tokens :
            rows = {[token |-> t, form |-> IF t \in plain THEN "plain" ELSE "hash",
                     first |-> TRUE] : t \in known}
      BY <2>2 DEF Init
    <3>2. \A t \in known : [token |-> t, form |-> IF t \in plain THEN "plain" ELSE "hash",
                            first |-> TRUE] \in Row
      BY DEF Row
    <3>3. rows \subseteq Row
      BY <3>1, <3>2
    <3> QED
      BY <2>2, <3>3 DEF Init
  <2> QED
    BY <2>1, <2>2 DEF Init
<1>2. \A j \in jwts : /\ j \in Session /\ j.version = 0 /\ j.user \in accounts
                      /\ j.old <=> ~HasVersion
  <2> SUFFICES ASSUME NEW j \in jwts
               PROVE  /\ j \in Session /\ j.version = 0 /\ j.user \in accounts
                      /\ j.old <=> ~HasVersion
    OBVIOUS
  <2>1. PICK u \in accounts : j = [OldJwt(u) EXCEPT !.old = "token_version" \notin cols]
    BY DEF Init
  <2> QED
    BY <1>1, <2>1 DEF OldJwt, Session, HasVersion
<1>3. proc \in ProcState /\ proc.pc = "down" /\ proc.next = 1 /\ proc.legacy = {}
  BY <1>1 DEF Down, ProcState, Steps
<1>4. hist \in History
  <2>1. hist = [stops |-> 0, torn |-> FALSE, known |-> rows]
    BY DEF Init
  <2> QED
    BY <1>1, <2>1 DEF History
<1>5. TypeOK
  BY <1>1, <1>2, <1>3, <1>4, TypeParts
<1>6. ~tables => jwts = {}
  BY DEF Init
<1>7. ProcOK
  BY <1>1, <1>3, <1>6 DEF ProcOK, PastColumns
<1>8. SessionsOK
  <2>1. \A j \in jwts : j.old => j.version = 0 /\ j.user \in accounts
    BY <1>2
  <2>2. ~HasVersion \/ proc.pc = "bump" => \A j \in jwts : j.old
    BY <1>2, <1>3
  <2>3. HasVersion => \A j \in jwts : ~j.old
    BY <1>2
  <2> QED
    BY <2>1, <2>2, <2>3 DEF SessionsOK
<1> QED
  BY <1>5, <1>7, <1>8 DEF StartOK
-----------------------------------------------------------------------------
(* A step of the start that leaves the columns and the sessions alone.     *)
LEMMA MoveOn ==
  ASSUME StartOK, NEW to \in Steps, NEW legacy \in SUBSET Row,
         UNCHANGED <<tables, cols, jwts, hist>>,
         accounts \subseteq accounts', accounts' \subseteq Users,
         version' \in [Users -> Nat], \A u \in Users : version'[u] >= version[u],
         adminPw' \in BOOLEAN, rows' \subseteq Row,
         proc' = [proc EXCEPT !.pc = to, !.legacy = legacy],
         \A r \in legacy : r.form = "plain",
         proc.pc \notin {"alter", "bump", "columns"}, to \notin {"alter", "bump", "columns"},
         to \in PastColumns <=> proc.pc \in PastColumns,
         to \in {"down", "schema"} <=> proc.pc \in {"down", "schema"}
  PROVE  StartOK'
<1>1. /\ proc' \in ProcState /\ proc'.pc = to /\ proc'.next = proc.next
      /\ proc'.legacy = legacy
  BY TypeParts DEF ProcState, StartOK
<1>2. TypeOK'
  BY <1>1, TypeParts DEF StartOK, TypeOK, ProcState, Steps
<1>3. ProcOK'
  BY <1>1 DEF StartOK, ProcOK, HasVersion
<1>4. jwts \subseteq Session /\ version \in [Users -> Nat]
  BY TypeParts DEF StartOK
<1>5. \A j \in jwts : version[j.user] > 0 => version'[j.user] > 0
  BY <1>4 DEF Session
<1>6. SessionsOK'
  BY <1>1, <1>5 DEF StartOK, SessionsOK, HasVersion
<1> QED
  BY <1>2, <1>3, <1>6 DEF StartOK
(* The steps of migrate that touch the columns.                            *)
LEMMA ColumnSteps ==
  ASSUME StartOK,
         CreateTables \/ AddColumn \/ ReadVersion \/ AddVersion \/ BumpVersions
  PROVE  StartOK'
<1>1. /\ proc \in ProcState /\ cols \subseteq Columns /\ version \in [Users -> Nat]
      /\ jwts \subseteq Session /\ hist \in History
  BY TypeParts DEF StartOK
<1>2. CASE CreateTables
  <2>1. proc' = [proc EXCEPT !.pc = "columns"] /\ proc.pc = "schema"
    BY <1>2 DEF CreateTables, At
  <2>2. proc' \in ProcState /\ proc'.pc = "columns" /\ proc'.next = 1
        /\ proc'.legacy = proc.legacy
    BY <1>1, <2>1 DEF StartOK, ProcOK, ProcState, Steps
  <2>3. TypeOK'
    BY <1>1, <1>2, <2>2 DEF CreateTables, StartOK, TypeOK, ProcState, Steps
  <2>4. ProcOK'
    BY <1>2, <2>2 DEF CreateTables, StartOK, ProcOK, PastColumns
  <2>5. SessionsOK'
    BY <1>2, <2>1, <2>2 DEF CreateTables, StartOK, ProcOK, SessionsOK, HasVersion
  <2> QED
    BY <2>3, <2>4, <2>5 DEF StartOK
<1>3. CASE AddColumn
  <2>1. proc.pc = "columns" /\ proc.next \in 1..4
    BY <1>3 DEF AddColumn, StartOK, ProcOK
  <2> DEFINE to == IF proc.next = 4 THEN "version" ELSE "columns"
             n == proc.next + 1
  <2>2. proc' = [proc EXCEPT !.next = n, !.pc = to]
    BY <1>3, <2>1, EarlierType DEF AddColumn
  <2>3. n \in 1..5 /\ (to = "columns" => n \in 1..4) /\ to \in {"columns", "version"}
    BY <2>1
  <2> HIDE DEF n, to
  <2>4. proc' \in ProcState /\ proc'.pc = to /\ proc'.next = n /\ proc'.legacy = proc.legacy
    BY <1>1, <2>2, <2>3 DEF ProcState, Steps
  <2>5. cols' \subseteq Columns /\ HasVersion' = HasVersion
    BY <1>1, <1>3, <2>1, EarlierType DEF AddColumn, HasVersion
  <2>6. TypeOK'
    BY <1>3, <2>4, <2>5, TypeParts, TypePartsNext DEF AddColumn, StartOK
  <2>7. ProcOK'
    BY <1>3, <2>1, <2>3, <2>4, <2>5 DEF AddColumn, StartOK, ProcOK, PastColumns
  <2>8. SessionsOK'
    BY <1>3, <2>1, <2>3, <2>4, <2>5 DEF AddColumn, StartOK, SessionsOK
  <2> QED
    BY <2>6, <2>7, <2>8 DEF StartOK
<1>4. CASE ReadVersion
  <2>1. proc' = [proc EXCEPT !.pc = "alter", !.hadVersion = "token_version" \in cols]
        /\ proc.pc = "version" /\ ("token_version" \in cols) \in BOOLEAN
    BY <1>4 DEF ReadVersion
  <2>2. proc' \in ProcState /\ proc'.pc = "alter" /\ proc'.legacy = proc.legacy
        /\ proc'.hadVersion = ("token_version" \in cols)
    BY <1>1, <2>1 DEF ProcState, Steps
  <2>3. TypeOK'
    BY <1>4, <2>2 DEF ReadVersion, StartOK, TypeOK, ProcState, Steps, dbVars
  <2>4. ProcOK'
    BY <1>4, <2>1, <2>2 DEF ReadVersion, StartOK, ProcOK, HasVersion, PastColumns, dbVars
  <2>5. SessionsOK'
    BY <1>4, <2>1, <2>2 DEF ReadVersion, StartOK, SessionsOK, HasVersion, dbVars
  <2> QED
    BY <2>3, <2>4, <2>5 DEF StartOK
<1>5. CASE AddVersion
  <2> DEFINE to == IF proc.hadVersion THEN "index" ELSE "bump"
  <2>1. proc' = [proc EXCEPT !.pc = to] /\ proc.pc = "alter" /\ to \in {"index", "bump"}
        /\ proc.hadVersion = HasVersion /\ HasVersion'
    BY <1>5 DEF AddVersion, At, StartOK, ProcOK, HasVersion
  <2>2. /\ to = "bump" => \A j \in jwts : j.old
        /\ to = "index" => HasVersion
    BY <2>1 DEF StartOK, SessionsOK
  <2> HIDE DEF to
  <2>3. proc' \in ProcState /\ proc'.pc = to /\ proc'.legacy = proc.legacy
    BY <1>1, <2>1 DEF ProcState, Steps
  <2>4. cols' \subseteq Columns
    BY <1>1, <1>5, EarlierType DEF AddVersion
  <2>5. TypeOK'
    BY <1>5, <2>3, <2>4, TypeParts, TypePartsNext DEF AddVersion, StartOK
  <2>6. ProcOK'
    BY <1>5, <2>1, <2>3 DEF AddVersion, StartOK, ProcOK, PastColumns
  <2>7. SessionsOK'
    BY <1>5, <2>1, <2>2, <2>3 DEF AddVersion, StartOK, SessionsOK
  <2> QED
    BY <2>5, <2>6, <2>7 DEF StartOK
<1>6. CASE BumpVersions
  <2>1. proc' = [proc EXCEPT !.pc = "index"] /\ proc.pc = "bump" /\ HasVersion
        /\ HasVersion' = HasVersion
    BY <1>6 DEF BumpVersions, At, StartOK, ProcOK, HasVersion
  <2>2. proc' \in ProcState /\ proc'.pc = "index" /\ proc'.legacy = proc.legacy
    BY <1>1, <2>1 DEF ProcState, Steps
  <2>3. version' \in [Users -> Nat] /\ \A u \in accounts : u \in Users => version'[u] > 0
    BY <1>1, <1>6 DEF BumpVersions
  <2>4. TypeOK'
    BY <1>6, <2>2, <2>3, TypeParts, TypePartsNext DEF BumpVersions, StartOK
  <2>5. ProcOK'
    BY <1>6, <2>1, <2>2 DEF BumpVersions, StartOK, ProcOK, PastColumns
  <2>6. SessionsOK'
    BY <1>1, <1>6, <2>1, <2>2, <2>3 DEF BumpVersions, StartOK, SessionsOK, Session
  <2> QED
    BY <2>4, <2>5, <2>6 DEF StartOK
<1> QED
  BY <1>2, <1>3, <1>4, <1>5, <1>6
LEMMA NewRowType ==
  ASSUME NEW t \in Tokens PROVE NewRow(t) \in Row
BY DEF NewRow, Row

(* A step of the start that is an At and leaves the columns alone.         *)
LEMMA AtStep ==
  ASSUME StartOK, NEW from \in Steps, NEW to \in Steps, At(from, to),
         UNCHANGED <<tables, cols, jwts, hist>>,
         accounts \subseteq accounts', accounts' \subseteq Users,
         version' \in [Users -> Nat], \A u \in Users : version'[u] >= version[u],
         adminPw' \in BOOLEAN, rows' \subseteq Row,
         from \notin {"alter", "bump", "columns"}, to \notin {"alter", "bump", "columns"},
         to \in PastColumns <=> from \in PastColumns,
         to \in {"down", "schema"} <=> from \in {"down", "schema"}
  PROVE  StartOK'
<1>1. proc \in ProcState
  BY TypeParts DEF StartOK
<1>2. proc' = [proc EXCEPT !.pc = to] /\ proc.pc = from
  BY DEF At
<1>3. /\ proc' = [proc EXCEPT !.pc = to, !.legacy = proc.legacy]
      /\ proc.legacy \in SUBSET Row
  BY <1>1, <1>2 DEF ProcState
<1>4. \A r \in proc.legacy : r.form = "plain"
  BY DEF StartOK, ProcOK
<1> QED
  BY <1>2, <1>3, <1>4, MoveOn

LEMMA Unchanged ==
  ASSUME StartOK
  PROVE  /\ accounts \subseteq Users /\ version \in [Users -> Nat] /\ adminPw \in BOOLEAN
         /\ rows \subseteq Row /\ \A u \in Users : version[u] >= version[u]
BY TypeParts DEF StartOK

LEMMA MovingSteps ==
  ASSUME StartOK,
         Start \/ CreateIndex \/ EndLegacy \/ CreateAdmin \/ UpdateAdmin \/ SkipAdmin \/ Serve
  PROVE  StartOK'
<1>1. CASE Start
  <2>1. At("down", "schema") /\ UNCHANGED <<dbVars, jwts, hist>>
    BY <1>1 DEF Start
  <2> QED
    BY <2>1, Unchanged, AtStep DEF Steps, PastColumns, dbVars
<1>2. CASE CreateIndex
  <2>1. At("index", "legacy") /\ UNCHANGED <<dbVars, jwts, hist>>
    BY <1>2 DEF CreateIndex
  <2> QED
    BY <2>1, Unchanged, AtStep DEF Steps, PastColumns, dbVars
<1>3. CASE EndLegacy
  <2>1. At("rehash", "admin") /\ UNCHANGED <<dbVars, jwts, hist>>
    BY <1>3 DEF EndLegacy
  <2> QED
    BY <2>1, Unchanged, AtStep DEF Steps, PastColumns, dbVars
<1>4. CASE CreateAdmin
  <2>1. At("admin", "tokens") /\ UNCHANGED <<tables, cols, version, rows, jwts, hist>>
        /\ accounts' = accounts \cup {Admin} /\ adminPw' \in BOOLEAN
    BY <1>4 DEF CreateAdmin
  <2>2. accounts \subseteq accounts' /\ accounts' \subseteq Users
    BY <2>1, Unchanged, UpgradeAssumption
  <2> QED
    BY <2>1, <2>2, Unchanged, AtStep DEF Steps, PastColumns
<1>5. CASE UpdateAdmin
  <2>1. At("admin", "tokens") /\ UNCHANGED <<tables, cols, accounts, rows, jwts, hist>>
        /\ version' = [version EXCEPT ![Admin] = @ + 1] /\ adminPw' \in BOOLEAN
    BY <1>5 DEF UpdateAdmin
  <2>2. version' \in [Users -> Nat] /\ \A u \in Users : version'[u] >= version[u]
    BY <2>1, Unchanged, UpgradeAssumption
  <2> QED
    BY <2>1, <2>2, Unchanged, AtStep DEF Steps, PastColumns
<1>6. CASE SkipAdmin
  <2>1. At("admin", "tokens") /\ UNCHANGED <<dbVars, jwts, hist>>
    BY <1>6 DEF SkipAdmin
  <2> QED
    BY <2>1, Unchanged, AtStep DEF Steps, PastColumns, dbVars
<1>7. CASE Serve
  <2>1. At("tokens", "serving") /\ UNCHANGED <<dbVars, jwts, hist>>
    BY <1>7 DEF Serve
  <2> QED
    BY <2>1, Unchanged, AtStep DEF Steps, PastColumns, dbVars
<1> QED
  BY <1>1, <1>2, <1>3, <1>4, <1>5, <1>6, <1>7

LEMMA RowSteps ==
  ASSUME StartOK,
         ReadLegacy \/ HashRow \/ AddToken \/ \E t \in Tokens : CreateToken(t)
  PROVE  StartOK'
<1>1. proc \in ProcState /\ proc.legacy \subseteq Row /\ proc.pc \in Steps
      /\ \A r \in proc.legacy : r.form = "plain"
  BY TypeParts DEF StartOK, ProcOK, ProcState
<1>2. CASE ReadLegacy
  <2> DEFINE legacy == {r \in rows : LooksLegacy(r)}
  <2>1. /\ proc' = [proc EXCEPT !.pc = "rehash", !.legacy = legacy]
        /\ proc.pc = "legacy" /\ UNCHANGED <<dbVars, jwts, hist>>
    BY <1>2 DEF ReadLegacy
  <2>2. legacy \in SUBSET Row /\ \A r \in legacy : r.form = "plain"
    BY Unchanged DEF LooksLegacy
  <2> HIDE DEF legacy
  <2> QED
    BY <2>1, <2>2, Unchanged, MoveOn DEF Steps, PastColumns, dbVars
<1>3. CASE HashRow
  <2>1. PICK r \in proc.legacy : /\ rows' = (rows \ {r}) \cup {Hashed(r)}
                                 /\ proc' = [proc EXCEPT !.legacy = @ \ {r}]
    BY <1>3 DEF HashRow
  <2>2. Hashed(r) \in Row
    BY <1>1, <2>1 DEF Hashed, Row
  <2>3. rows' \subseteq Row
    BY <2>1, <2>2, Unchanged
  <2> DEFINE legacy == proc.legacy \ {r}
  <2>4. proc.pc = "rehash" /\ UNCHANGED <<tables, cols, accounts, version, adminPw, jwts, hist>>
    BY <1>3 DEF HashRow
  <2>5. legacy \in SUBSET Row /\ \A x \in legacy : x.form = "plain"
    BY <1>1
  <2>6. proc' = [proc EXCEPT !.pc = "rehash", !.legacy = legacy]
    BY <1>1, <2>1, <2>4 DEF ProcState
  <2> HIDE DEF legacy
  <2> QED
    BY <2>3, <2>4, <2>5, <2>6, Unchanged, MoveOn DEF Steps, PastColumns
<1>4. CASE AddToken \/ \E t \in Tokens : CreateToken(t)
  <2>1. /\ proc.pc \in {"tokens", "serving"}
        /\ UNCHANGED <<tables, cols, accounts, version, adminPw, proc, jwts, hist>>
    BY <1>4 DEF AddToken, CreateToken, Serving
  <2>2. PICK t \in Tokens : rows' = rows \cup {NewRow(t)}
    BY <1>4, UpgradeAssumption DEF AddToken, CreateToken, Missing
  <2>3. rows' \subseteq Row
    BY <2>2, NewRowType, Unchanged
  <2>4. proc' = [proc EXCEPT !.pc = proc.pc, !.legacy = proc.legacy]
    BY <1>1, <2>1 DEF ProcState
  <2> QED
    BY <1>1, <2>1, <2>3, <2>4, Unchanged, MoveOn DEF PastColumns
<1> QED
  BY <1>2, <1>3, <1>4

LEMMA ServingSteps ==
  ASSUME StartOK, NEW u \in Users, Login(u) \/ ChangePassword(u)
  PROVE  StartOK'
<1>1. proc \in ProcState /\ proc.legacy \subseteq Row /\ proc.pc \in Steps
      /\ proc.pc = "serving" /\ proc' = proc /\ HasVersion
  BY TypeParts DEF StartOK, ProcOK, ProcState, Login, ChangePassword, Serving, PastColumns
<1>2. CASE ChangePassword(u)
  <2>1. /\ version' = [version EXCEPT ![u] = @ + 1] /\ adminPw' \in BOOLEAN
        /\ UNCHANGED <<tables, cols, accounts, rows, jwts, hist>>
    BY <1>2 DEF ChangePassword
  <2>2. version' \in [Users -> Nat] /\ \A x \in Users : version'[x] >= version[x]
    BY <2>1, Unchanged
  <2>3. proc' = [proc EXCEPT !.pc = proc.pc, !.legacy = proc.legacy]
        /\ \A r \in proc.legacy : r.form = "plain"
    BY <1>1 DEF ProcState, StartOK, ProcOK
  <2> QED
    BY <1>1, <2>1, <2>2, <2>3, Unchanged, MoveOn DEF PastColumns
<1>3. CASE Login(u)
  <2> DEFINE j == [user |-> u, version |-> version[u], old |-> FALSE]
  <2>1. jwts' = jwts \cup {j} /\ UNCHANGED <<dbVars, proc, hist>>
    BY <1>3 DEF Login
  <2>2. j \in Session /\ ~j.old
    BY Unchanged DEF Session
  <2> HIDE DEF j
  <2>3. TypeOK'
    BY <2>1, <2>2, TypeParts, TypePartsNext DEF StartOK, dbVars
  <2>4. ProcOK'
    BY <1>1, <2>1 DEF StartOK, ProcOK, HasVersion, dbVars
  <2>5. SessionsOK'
    BY <1>1, <2>1, <2>2 DEF StartOK, SessionsOK, HasVersion, dbVars
  <2> QED
    BY <2>3, <2>4, <2>5 DEF StartOK
<1> QED
  BY <1>2, <1>3

LEMMA StopStep ==
  ASSUME StartOK, Stop PROVE StartOK'
<1>1. /\ proc' = Down /\ UNCHANGED <<dbVars, jwts>>
      /\ hist' = [hist EXCEPT !.stops = @ + 1, !.torn = @ \/ proc.pc = "bump"]
  BY DEF Stop
<1>2. /\ hist \in History /\ hist.stops + 1 \in Nat
      /\ (hist.torn \/ proc.pc = "bump") \in BOOLEAN
  BY TypeParts DEF StartOK, History
<1>3. hist' \in History /\ hist'.torn = (hist.torn \/ proc.pc = "bump")
  BY <1>1, <1>2 DEF History
<1>4. proc' \in ProcState /\ proc'.pc = "down" /\ proc'.next = 1 /\ proc'.legacy = {}
  BY <1>1 DEF Down, ProcState, Steps
<1>5. TypeOK'
  BY <1>1, <1>3, <1>4, TypeParts, TypePartsNext DEF StartOK, dbVars
<1>6. ProcOK'
  BY <1>1, <1>4 DEF StartOK, ProcOK, PastColumns, dbVars
<1>7. SessionsOK'
  BY <1>1, <1>3, <1>4 DEF StartOK, ProcOK, SessionsOK, HasVersion, dbVars
<1> QED
  BY <1>5, <1>6, <1>7 DEF StartOK

LEMMA StartStep ==
  ASSUME StartOK, [Next]_vars PROVE StartOK'
<1>1. CASE UNCHANGED vars
  BY <1>1 DEF StartOK, TypeOK, ProcOK, SessionsOK, HasVersion, vars, dbVars
<1>2. CASE Boot
  BY <1>2, ColumnSteps, MovingSteps, RowSteps DEF Boot
<1> QED
  BY <1>1, <1>2, RowSteps, ServingSteps, StopStep DEF Next
LEMMA StartAlwaysOK == Spec => []StartOK
<1>1. Init => StartOK
  BY StartInit
<1>2. StartOK /\ [Next]_vars => StartOK'
  BY StartStep
<1> QED
  BY <1>1, <1>2, PTL DEF Spec

(* Type correctness: versions and rows are what the tables can hold, and   *)
(* in particular no hash is ever hashed again (MigrateLegacyTokens).       *)
THEOREM TypeCorrect == Spec => []TypeOK
<1>1. StartOK => TypeOK
  BY DEF StartOK
<1> QED
  BY <1>1, StartAlwaysOK, PTL

(* The columns added so far by this start, and then all of them.           *)
ColumnsOK ==
  /\ proc.pc = "columns" => \A i \in 1..4 : i < proc.next => Earlier[i] \in cols
  /\ proc.pc \notin {"down", "schema", "columns"} => \A i \in 1..4 : Earlier[i] \in cols

LEMMA ColumnsStep ==
  ASSUME StartOK, ColumnsOK, [Next]_vars PROVE ColumnsOK'
<1>1. proc \in ProcState
  BY TypeParts DEF StartOK
<1>2. CASE CreateTables
  <2>1. proc'.pc = "columns" /\ proc'.next = 1
    BY <1>1, <1>2 DEF CreateTables, At, StartOK, ProcOK, ProcState
  <2> QED
    BY <2>1 DEF ColumnsOK
<1>3. CASE AddColumn
  <2>1. proc.pc = "columns" /\ proc.next \in 1..4 /\ cols' = cols \cup {Earlier[proc.next]}
    BY <1>3 DEF AddColumn, StartOK, ProcOK
  <2> DEFINE n == proc.next + 1
             to == IF proc.next = 4 THEN "version" ELSE "columns"
  <2>2. proc' = [proc EXCEPT !.next = n, !.pc = to]
    BY <1>3, <2>1, EarlierType DEF AddColumn
  <2>3. proc'.next = n /\ proc'.pc = to
    <3> HIDE DEF n, to
    <3> QED
      BY <1>1, <2>2 DEF ProcState
  <2>4. \A i \in 1..4 : i < n => Earlier[i] \in cols'
    BY <2>1 DEF ColumnsOK
  <2>5. to = "version" => \A i \in 1..4 : i < n
    BY <2>1
  <2> QED
    BY <2>3, <2>4, <2>5 DEF ColumnsOK
<1>4. CASE AddVersion
  <2>1. proc.pc = "alter" /\ proc'.pc \in {"index", "bump"} /\ cols \subseteq cols'
    BY <1>1, <1>4 DEF AddVersion, At, ProcState
  <2> QED
    BY <2>1 DEF ColumnsOK
<1>5. CASE ReadVersion
  <2>1. proc.pc = "version" /\ proc'.pc = "alter" /\ cols' = cols
    BY <1>1, <1>5 DEF ReadVersion, dbVars, ProcState
  <2> QED
    BY <2>1 DEF ColumnsOK
<1>6. CASE Stop
  BY <1>6 DEF Stop, Down, ColumnsOK
<1>7. CASE Start
  <2>1. proc'.pc = "schema"
    BY <1>1, <1>7 DEF Start, At, ProcState
  <2> QED
    BY <2>1 DEF ColumnsOK
<1>8. CASE ReadLegacy \/ HashRow \/ AddToken \/ \E t \in Tokens : CreateToken(t)
  <2>1. proc.pc \notin {"down", "schema", "columns"} /\ proc'.pc # "columns" /\ cols' = cols
    BY <1>1, <1>8 DEF ReadLegacy, HashRow, AddToken, CreateToken, Serving, dbVars, ProcState
  <2> QED
    BY <2>1 DEF ColumnsOK
<1>9. CASE BumpVersions \/ CreateIndex \/ EndLegacy \/ CreateAdmin \/ UpdateAdmin
           \/ SkipAdmin \/ Serve
  <2>1. proc.pc \notin {"down", "schema", "columns"} /\ proc'.pc # "columns" /\ cols' = cols
    BY <1>1, <1>9 DEF BumpVersions, CreateIndex, EndLegacy, CreateAdmin, UpdateAdmin,
       SkipAdmin, Serve, At, dbVars, ProcState
  <2> QED
    BY <2>1 DEF ColumnsOK
<1>10. CASE (\E u \in Users : Login(u) \/ ChangePassword(u)) \/ UNCHANGED vars
  BY <1>10 DEF Login, ChangePassword, vars, dbVars, ColumnsOK
<1> QED
  BY <1>2, <1>3, <1>4, <1>5, <1>6, <1>7, <1>8, <1>9, <1>10 DEF Next, Boot

(* No statement of migrate, MigrateLegacyTokens or bootstrap names a       *)
(* column that is not there, whatever columns the old database has and     *)
(* wherever earlier starts were cut off.                                   *)
THEOREM ColumnsBeforeUseAlways == Spec => []ColumnsBeforeUse
<1>1. Init => ColumnsOK
  BY DEF Init, Down, ColumnsOK
<1>2. StartOK /\ ColumnsOK /\ [Next]_vars => ColumnsOK'
  BY ColumnsStep
<1>3. StartOK /\ ColumnsOK => ColumnsBeforeUse
  <2> SUFFICES ASSUME StartOK, ColumnsOK PROVE ColumnsBeforeUse
    OBVIOUS
  <2>1. cols \subseteq Columns
    BY TypeParts DEF StartOK
  <2>2. proc.pc = "bump" \/ proc.pc \in PastColumns => "token_version" \in cols
    BY DEF StartOK, ProcOK, HasVersion
  <2>3. Columns = {Earlier[i] : i \in 1..4} \cup {"token_version"}
    BY EarlierDomain DEF Columns, ToSet
  <2>4. proc.pc \in PastColumns => \A i \in 1..4 : Earlier[i] \in cols
    BY DEF ColumnsOK, PastColumns
  <2>5. proc.pc \in PastColumns => cols = Columns
    BY <2>1, <2>2, <2>3, <2>4
  <2>6. "request_id" \in Columns
    BY DEF Columns, Earlier, ToSet
  <2> QED
    BY <2>2, <2>5, <2>6 DEF ColumnsBeforeUse, PastColumns
<1> QED
  BY <1>1, <1>2, <1>3, StartAlwaysOK, PTL DEF Spec

(* No session of the version before the upgrade is accepted once the       *)
(* program serves, unless a start was cut off between adding the column    *)
(* and raising the versions (migrate).                                     *)
THEOREM OldSessionsEndAlways == Spec => []OldSessionsEnd
<1>1. StartOK => OldSessionsEnd
  <2> SUFFICES ASSUME StartOK, Serving, ~hist.torn, NEW j \in jwts, j.old
               PROVE  ~Accepted(j)
    BY DEF OldSessionsEnd
  <2>1. HasVersion /\ proc.pc # "bump"
    BY DEF StartOK, ProcOK, Serving, PastColumns
  <2>2. j.version = 0 /\ version[j.user] > 0
    BY <2>1 DEF StartOK, SessionsOK
  <2> QED
    BY <2>2 DEF Accepted
<1> QED
  BY <1>1, StartAlwaysOK, PTL

(* No step of a start ends a current session, the administrator's apart    *)
(* when the password is put back to the configured one (bootstrap).        *)
LEMMA SessionsKept ==
  ASSUME StartOK, [Next]_vars, NEW j \in jwts, ~Serving, ~j.old, Accepted(j)
  PROVE  Accepted(j)' \/ (j.user = Admin /\ ~adminPw)
<1>1. CASE accounts \subseteq accounts' /\ version' = version
  BY <1>1 DEF Accepted
<1>2. CASE BumpVersions
  <2>1. proc.pc = "bump"
    BY <1>2 DEF BumpVersions, At
  <2> QED
    BY <2>1 DEF StartOK, SessionsOK
<1>3. CASE UpdateAdmin
  <2>1. ~adminPw /\ accounts' = accounts /\ version' = [version EXCEPT ![Admin] = @ + 1]
    BY <1>3 DEF UpdateAdmin
  <2>2. j.user # Admin => version'[j.user] = version[j.user]
    BY <2>1, Unchanged DEF Accepted
  <2> QED
    BY <2>1, <2>2 DEF Accepted
<1>4. CASE \E u \in Users : Login(u) \/ ChangePassword(u)
  BY <1>4 DEF Login, ChangePassword
<1>5. CASE \/ CreateAdmin \/ Stop \/ UNCHANGED vars \/ \E t \in Tokens : CreateToken(t)
  BY <1>1, <1>5 DEF CreateAdmin, Stop, CreateToken, vars, dbVars
<1>6. CASE \/ Start \/ CreateTables \/ AddColumn \/ ReadVersion \/ AddVersion
           \/ CreateIndex \/ ReadLegacy \/ HashRow \/ EndLegacy \/ SkipAdmin
           \/ AddToken \/ Serve
  BY <1>1, <1>6 DEF Start, CreateTables, AddColumn, ReadVersion, AddVersion, CreateIndex,
     ReadLegacy, HashRow, EndLegacy, SkipAdmin, AddToken, Serve, dbVars
<1> QED
  BY <1>2, <1>3, <1>4, <1>5, <1>6 DEF Next, Boot

(* So a restart, complete or cut off anywhere, ends no current session but *)
(* the administrator's when the configured password is put back.           *)
THEOREM CurrentSessionsSurvive == Spec => SessionsSurviveRestart
<1>1. StartOK /\ [Next]_vars =>
        [\A j \in jwts : ~Serving /\ ~j.old /\ Accepted(j) =>
           Accepted(j)' \/ (j.user = Admin /\ ~adminPw)]_vars
  BY SessionsKept
<1> QED
  BY <1>1, StartAlwaysOK, PTL DEF Spec, SessionsSurviveRestart
-----------------------------------------------------------------------------
(* The proxy tokens: a token has one row for each form, one that will be   *)
(* converted has no other; the rows of the first start are there, or there *)
(* in the form of a hash; what is converted next are the rows that look    *)
(* like plain text, and then there are none; and whoever serves has the    *)
(* configured tokens.                                                      *)
TokensOK ==
  /\ \A r, s \in rows : r.token = s.token /\ (r.form = s.form \/ r.token \notin Long) => r = s
  /\ \A k \in hist.known : k.form = "hash" => k \in rows
  /\ \A k \in hist.known :
       k.token \notin Long => k \in rows \/ [k EXCEPT !.form = "hash"] \in rows
  /\ proc.pc = "rehash" => proc.legacy = {r \in rows : LooksLegacy(r)}
  /\ proc.pc \in PastTokens => \A r \in rows : ~LooksLegacy(r)
  /\ proc.pc = "serving" => \A t \in Configured : Taken(t)

LEMMA TokensInit ==
  ASSUME Init PROVE TokensOK
<1>1. hist.known = rows /\ proc.pc = "down"
  BY DEF Init, Down
<1>2. \A r, s \in rows : r.token = s.token => r = s
  <2>1. CASE tables = FALSE
    BY <2>1 DEF Init
  <2>2. CASE tables = TRUE
    <3>1. PICK known \in SUBSET Tokens, plain \in SUBSET Tokens :
            rows = {[token |-> t, form |-> IF t \in plain THEN "plain" ELSE "hash",
                     first |-> TRUE] : t \in known}
      BY <2>2 DEF Init
    <3>2. \A r \in rows : r = [token |-> r.token, first |-> TRUE,
                              form |-> IF r.token \in plain THEN "plain" ELSE "hash"]
      BY <3>1
    <3> QED
      BY <3>2
  <2> QED
    BY <2>1, <2>2 DEF Init
<1> QED
  BY <1>1, <1>2 DEF TokensOK, PastTokens

(* Steps that leave the rows alone, and reach no later part of the start.  *)
LEMMA TokensElse ==
  ASSUME TokensOK, rows' = rows, hist'.known = hist.known,
         proc'.pc = "rehash" => proc.pc = "rehash" /\ proc'.legacy = proc.legacy,
         proc'.pc \in PastTokens => proc.pc \in PastTokens,
         proc'.pc = "serving" => proc.pc = "serving"
  PROVE  TokensOK'
BY DEF TokensOK, Taken, LooksLegacy
LEMMA TokensHash ==
  ASSUME StartOK, TokensOK, HashRow PROVE TokensOK'
<1>1. PICK r \in proc.legacy : /\ rows' = (rows \ {r}) \cup {Hashed(r)}
                               /\ proc' = [proc EXCEPT !.legacy = @ \ {r}]
  BY DEF HashRow
<1>2. proc.pc = "rehash" /\ hist' = hist
  BY DEF HashRow
<1>3. r \in rows /\ r.form = "plain" /\ r.token \notin Long /\ rows \subseteq Row
      /\ proc.legacy = {x \in rows : LooksLegacy(x)} /\ proc \in ProcState
      /\ hist.known \subseteq Row
  BY <1>1, <1>2, TypeParts DEF StartOK, TokensOK, LooksLegacy, History
<1> DEFINE h == [r EXCEPT !.form = "hash"]
<1>4. Hashed(r) = h
  BY <1>3 DEF Hashed, Row
<1>5. h.token = r.token /\ h.form = "hash" /\ rows' = (rows \ {r}) \cup {h}
  BY <1>1, <1>3, <1>4 DEF Row
<1>6. proc'.pc = "rehash" /\ proc'.legacy = proc.legacy \ {r}
  BY <1>1, <1>2, <1>3 DEF ProcState
<1>7. \A x, y \in rows' : x.token = y.token /\ (x.form = y.form \/ x.token \notin Long) => x = y
  <2> HIDE DEF h
  <2>1. \A y \in rows \ {r} : y.token # r.token
    BY <1>3 DEF TokensOK
  <2> QED
    BY <1>5, <2>1 DEF TokensOK
<1>8. \A k \in hist.known : k.form = "hash" => k \in rows'
  BY <1>3, <1>5 DEF TokensOK
<1>9. ASSUME NEW k \in hist.known, k.token \notin Long
      PROVE  k \in rows' \/ [k EXCEPT !.form = "hash"] \in rows'
  <2>1. CASE k \in rows
    BY <1>5, <2>1
  <2>2. CASE [k EXCEPT !.form = "hash"] \in rows
    <3>1. [k EXCEPT !.form = "hash"].form = "hash"
      BY <1>3 DEF Row
    <3> QED
      BY <1>3, <1>5, <2>2, <3>1
  <2> QED
    BY <1>9, <2>1, <2>2 DEF TokensOK
<1>10. proc'.legacy = {x \in rows' : LooksLegacy(x)}
  <2>1. ~LooksLegacy(h)
    BY <1>5 DEF LooksLegacy
  <2> HIDE DEF h
  <2> QED
    BY <1>3, <1>5, <1>6, <2>1
<1> QED
  BY <1>2, <1>6, <1>7, <1>8, <1>9, <1>10 DEF TokensOK, PastTokens, LooksLegacy

LEMMA TokensAdd ==
  ASSUME StartOK, TokensOK, AddToken \/ \E t \in Tokens : CreateToken(t)
  PROVE  TokensOK'
<1>1. PICK t \in Tokens : rows' = rows \cup {NewRow(t)} /\ ~Taken(t)
  BY UpgradeAssumption DEF AddToken, CreateToken, Missing
<1>2. proc.pc \in {"tokens", "serving"} /\ proc' = proc /\ hist' = hist
  BY DEF AddToken, CreateToken, Serving
<1> DEFINE n == NewRow(t)
<1>3. n.token = t /\ n.form = "hash"
  BY DEF NewRow
<1>4. \A x \in rows : x.form \in {"plain", "hash"} /\ ~LooksLegacy(x)
  BY <1>2, TypeParts DEF StartOK, TokensOK, PastTokens, Row
<1>5. \A x \in rows : x.token = t => x.form = "plain" /\ t \in Long
  BY <1>1, <1>4 DEF Taken, LooksLegacy
<1>6. ~LooksLegacy(n)
  BY <1>3 DEF LooksLegacy
<1>7. rows' = rows \cup {n}
  BY <1>1
<1> HIDE DEF n
<1>8. \A x, y \in rows' : x.token = y.token /\ (x.form = y.form \/ x.token \notin Long) => x = y
  BY <1>3, <1>5, <1>7 DEF TokensOK
<1>9. \A c \in Configured : Taken(c) => Taken(c)'
  BY <1>7 DEF Taken
<1>10. \A x \in rows' : ~LooksLegacy(x)
  BY <1>4, <1>6, <1>7
<1> QED
  BY <1>2, <1>7, <1>8, <1>9, <1>10 DEF TokensOK, LooksLegacy

LEMMA TokensStep ==
  ASSUME StartOK, TokensOK, [Next]_vars PROVE TokensOK'
<1>1. proc \in ProcState /\ hist \in History
  BY TypeParts DEF StartOK
<1>2. \A from, to : At(from, to) => proc.pc = from /\ proc'.pc = to /\ proc'.legacy = proc.legacy
  BY <1>1 DEF At, ProcState
<1>3. CASE \/ Start \/ CreateTables \/ AddVersion \/ BumpVersions \/ CreateIndex
           \/ CreateAdmin \/ UpdateAdmin \/ SkipAdmin
  BY <1>2, <1>3, TokensElse DEF Start, CreateTables, AddVersion, BumpVersions,
     CreateIndex, CreateAdmin, UpdateAdmin, SkipAdmin, dbVars, PastTokens
<1>4. CASE AddColumn \/ ReadVersion
  <2>1. proc'.pc \in {"columns", "version", "alter"} /\ rows' = rows /\ hist' = hist
    BY <1>1, <1>4 DEF AddColumn, ReadVersion, dbVars, ProcState
  <2> QED
    BY <2>1, TokensElse DEF PastTokens
<1>5. CASE (\E u \in Users : Login(u) \/ ChangePassword(u)) \/ UNCHANGED vars
  BY <1>5, TokensElse DEF Login, ChangePassword, vars, dbVars
<1>6. CASE Stop
  <2>1. hist'.known = hist.known /\ proc'.pc = "down" /\ rows' = rows
    BY <1>1, <1>6 DEF Stop, Down, dbVars, History
  <2> QED
    BY <2>1, TokensElse DEF PastTokens
<1>7. CASE ReadLegacy
  <2>1. /\ proc'.pc = "rehash" /\ rows' = rows /\ hist' = hist
        /\ proc'.legacy = {r \in rows : LooksLegacy(r)}
    BY <1>1, <1>7 DEF ReadLegacy, dbVars, ProcState
  <2> QED
    BY <2>1 DEF TokensOK, PastTokens, LooksLegacy
<1>8. CASE EndLegacy
  <2>1. proc.pc = "rehash" /\ proc'.pc = "admin" /\ rows' = rows /\ hist' = hist
        /\ proc.legacy = {}
    BY <1>2, <1>8 DEF EndLegacy, dbVars
  <2>2. \A r \in rows : ~LooksLegacy(r)
    BY <2>1 DEF TokensOK
  <2> QED
    BY <2>1, <2>2 DEF TokensOK, LooksLegacy
<1>9. CASE Serve
  <2>1. proc.pc = "tokens" /\ proc'.pc = "serving" /\ rows' = rows /\ hist' = hist
        /\ \A t \in Configured : Taken(t)
    BY <1>2, <1>9 DEF Serve, Missing, dbVars
  <2> QED
    BY <2>1 DEF TokensOK, Taken, LooksLegacy, PastTokens
<1> QED
  BY <1>3, <1>4, <1>5, <1>6, <1>7, <1>8, <1>9, TokensHash, TokensAdd DEF Next, Boot

(* Every proxy token of the first start is still accepted by its own row   *)
(* once the program serves, and every configured one by exactly one row,   *)
(* for any tokens and however often the conversion was cut off             *)
(* (MigrateLegacyTokens, bootstrap).                                       *)
THEOREM TokensSurviveAlways == Spec => []TokensSurvive
<1>1. Init => TokensOK
  BY TokensInit
<1>2. StartOK /\ TokensOK /\ [Next]_vars => TokensOK'
  BY TokensStep
<1>3. StartOK /\ TokensOK => TokensSurvive
  <2> SUFFICES ASSUME StartOK, TokensOK, Serving PROVE TokensSurvive
    BY DEF TokensSurvive
  <2>1. rows \subseteq Row /\ hist.known \subseteq Row /\ proc.pc \in PastTokens
    BY TypeParts DEF StartOK, History, Serving, PastTokens
  <2>2. ASSUME NEW k \in hist.known, k.form = "hash" \/ k.token \notin Long
        PROVE  [k EXCEPT !.form = "hash"] \in rows
    <3>1. CASE k.form = "hash"
      <4>1. [k EXCEPT !.form = "hash"] = k
        BY <2>1, <3>1 DEF Row
      <4> QED
        BY <3>1, <4>1 DEF TokensOK
    <3>2. CASE k.form # "hash" /\ k \in rows
      <4>1. LooksLegacy(k)
        BY <2>1, <2>2, <3>2 DEF LooksLegacy, Row
      <4> QED
        BY <2>1, <3>2, <4>1 DEF TokensOK
    <3> QED
      BY <2>2, <3>1, <3>2 DEF TokensOK
  <2>3. ASSUME NEW t \in Configured
        PROVE  \E r \in rows : \A s \in rows : (s.token = t /\ s.form = "hash") <=> s = r
    <3>1. PICK r \in rows : r.token = t /\ r.form = "hash"
      BY DEF TokensOK, Serving, Taken
    <3> QED
      BY <3>1 DEF TokensOK
  <2> QED
    BY <2>2, <2>3 DEF TokensSurvive
<1> QED
  BY <1>1, <1>2, <1>3, StartAlwaysOK, PTL DEF Spec
-----------------------------------------------------------------------------
(* The configuration: what Load has made of the sources at each step.      *)

AfterDotenv == IF C!Readable(dotenv) THEN C!Over(shell, dotenv) ELSE shell
AfterLocal == IF C!Readable(local) THEN C!Over(local, AfterDotenv) ELSE AfterDotenv
AfterYaml == IF C!Readable(yaml) THEN C!Over(yaml, C!Default) ELSE C!Default
AfterEnv ==
  [n \in C!Names |-> IF n \in DOMAIN AfterLocal
                     THEN C!FromEnv(n, AfterYaml[n], AfterLocal[n]) ELSE AfterYaml[n]]

Loading ==
  /\ shell \in Files /\ C!Readable(shell)
  /\ dotenv \in Files /\ local \in Files /\ yaml \in Yamls
  /\ pc = "dotenv" => env = shell /\ cfg = C!Default
  /\ pc = "local" => env = AfterDotenv /\ cfg = C!Default
  /\ pc = "yaml" => env = AfterLocal /\ cfg = C!Default
  /\ pc = "env" => env = AfterLocal /\ cfg = AfterYaml
  /\ pc = "validate" => cfg = AfterEnv
  /\ pc = "running" => cfg = C!Corrected(AfterEnv) /\ ~C!Fatal(AfterEnv)

LEMMA LoadingInit ==
  ASSUME C!Init
  PROVE  Loading
  BY DEF C!Init, C!Start, Loading

LEMMA LoadingStep ==
  ASSUME Loading, [C!Next]_(C!vars)
  PROVE  Loading'
<1>1. UNCHANGED <<shell, dotenv, local, yaml>>
  BY DEF C!Next, C!LoadDotenv, C!LoadLocal, C!ReadYaml, C!ApplyEnv, C!Validate, C!Restart,
         C!vars, C!sources
<1>2. /\ AfterDotenv' = AfterDotenv /\ AfterLocal' = AfterLocal
      /\ AfterYaml' = AfterYaml /\ AfterEnv' = AfterEnv
  BY <1>1 DEF AfterDotenv, AfterLocal, AfterYaml, AfterEnv
<1>3. /\ shell' \in Files /\ C!Readable(shell)'
      /\ dotenv' \in Files /\ local' \in Files /\ yaml' \in Yamls
  BY <1>1 DEF Loading, C!Readable
<1>4. CASE C!LoadDotenv
  BY <1>2, <1>3, <1>4 DEF Loading, C!LoadDotenv, C!UnderShell, AfterDotenv
<1>5. CASE C!LoadLocal
  BY <1>2, <1>3, <1>5 DEF Loading, C!LoadLocal, AfterLocal
<1>6. CASE C!ReadYaml
  BY <1>2, <1>3, <1>6 DEF Loading, C!ReadYaml, AfterYaml
<1>7. CASE C!ApplyEnv
  BY <1>2, <1>3, <1>7 DEF Loading, C!ApplyEnv, AfterEnv
<1>8. CASE C!Validate
  BY <1>2, <1>3, <1>8 DEF Loading, C!Validate
<1>9. CASE C!Restart
  BY <1>1, <1>2, <1>3, <1>9 DEF Loading, C!Restart
<1>10. CASE UNCHANGED C!vars
  <2>1. pc' = pc /\ env' = env /\ cfg' = cfg
    BY <1>10 DEF C!vars
  <2>2. (pc' = "dotenv" => env' = shell' /\ cfg' = C!Default)
    BY <1>1, <2>1 DEF Loading
  <2>3. /\ pc' = "local" => env' = AfterDotenv' /\ cfg' = C!Default
        /\ pc' = "yaml" => env' = AfterLocal' /\ cfg' = C!Default
    BY <1>2, <2>1 DEF Loading
  <2>4. /\ pc' = "env" => env' = AfterLocal' /\ cfg' = AfterYaml'
        /\ pc' = "validate" => cfg' = AfterEnv'
    BY <1>2, <2>1 DEF Loading
  <2>5. pc' = "running" => cfg' = C!Corrected(AfterEnv)' /\ ~C!Fatal(AfterEnv)'
    BY <1>2, <2>1 DEF Loading, C!Fatal, C!Corrected
  <2>. QED
    BY <1>3, <2>2, <2>3, <2>4, <2>5 DEF Loading
<1>. QED
  BY <1>4, <1>5, <1>6, <1>7, <1>8, <1>9, <1>10 DEF C!Next

LEMMA LoadingAlways == C!Spec => []Loading
  BY LoadingInit, LoadingStep, PTL DEF C!Spec

(* The fields of the defaults and of config.yaml.                          *)
LEMMA YamlFields ==
  ASSUME Loading
  PROVE  \A n \in C!Names : AfterYaml[n] = C!Below(n)
<1>1. DOMAIN C!Default = C!Names
  BY DEF C!Default
<1>2. C!Readable(yaml) => DOMAIN yaml \subseteq C!Names
  BY StartupAssumption DEF C!ConfigurationAssumption, C!Readable, Loading
<1>. QED
  BY <1>1, <1>2 DEF AfterYaml, C!Below, C!Says, C!Over

(* Corrections field by field.                                             *)
LEMMA CorrectedFields ==
  ASSUME NEW c, DOMAIN c = C!Names
  PROVE  \A n \in C!Names : C!Corrected(c)[n] =
           IF n = "queue" THEN IF c[n] < 0 THEN 0 ELSE c[n]
           ELSE IF n = "body" THEN IF c[n] <= 0 THEN BodyDefault ELSE c[n]
           ELSE c[n]
  BY DEF C!Corrected, C!Names, C!Numbers

(* Of the sources that set a name without .env.local doing so, the shell's *)
(* decides, then .env's; what is empty or unreadable there leaves the name *)
(* to config.yaml and the defaults (Load's steps; applyEnv).               *)
THEOREM TheShellDecides ==
  C!Spec => []ShellBeatsFiles
<1>1. Loading => C!ShellBeatsFiles
  <2> DEFINE Text(n) == IF n \in DOMAIN shell THEN shell[n]
                        ELSE IF C!Says(dotenv, n) THEN dotenv[n] ELSE Empty
             Own(n) == IF Text(n) = Empty \/ (n \in C!Numbers /\ Text(n) = Garbage)
                       THEN C!Below(n)
                       ELSE IF n \in C!Lists THEN C!Items(Text(n)) ELSE Text(n)
  <2>1. SUFFICES ASSUME Loading, pc = "running", NEW n \in C!Names, ~C!Says(local, n)
                 PROVE  cfg[n] = C!Corrected([cfg EXCEPT ![n] = Own(n)])[n]
    BY DEF C!ShellBeatsFiles
  <2>2. DOMAIN AfterEnv = C!Names
    BY DEF AfterEnv
  <2>3. cfg = C!Corrected(AfterEnv) /\ DOMAIN cfg = C!Names
    BY <2>1, <2>2 DEF Loading, C!Corrected
  <2>4. AfterYaml[n] = C!Below(n)
    BY <2>1, YamlFields
  <2>5. /\ n \in DOMAIN AfterLocal <=> n \in DOMAIN AfterDotenv
        /\ n \in DOMAIN AfterLocal => AfterLocal[n] = AfterDotenv[n]
    BY <2>1 DEF AfterLocal, C!Over, C!Says
  <2>6. /\ n \in DOMAIN AfterDotenv <=> n \in DOMAIN shell \/ C!Says(dotenv, n)
        /\ n \in DOMAIN AfterDotenv => AfterDotenv[n] = Text(n)
        /\ n \notin DOMAIN AfterDotenv => Text(n) = Empty
    BY DEF AfterDotenv, C!Over, C!Says
  <2>7. AfterEnv[n] = Own(n)
    <3>1. CASE n \notin DOMAIN AfterLocal
      BY <2>4, <2>5, <2>6, <3>1 DEF AfterEnv
    <3>2. CASE n \in DOMAIN AfterLocal
      <4>1. AfterEnv[n] = C!FromEnv(n, C!Below(n), Text(n))
        BY <2>4, <2>5, <2>6, <3>2 DEF AfterEnv
      <4>2. C!FromEnv(n, C!Below(n), Text(n)) = Own(n)
        <5> HIDE DEF Text
        <5>. QED
          BY DEF C!FromEnv
      <4>. QED
        BY <4>1, <4>2
    <3>. QED
      BY <3>1, <3>2
  <2> HIDE DEF Own
  <2> DEFINE d == [cfg EXCEPT ![n] = Own(n)]
  <2>8. DOMAIN d = C!Names /\ d[n] = Own(n)
    BY <2>3
  <2> HIDE DEF d
  <2>9. C!Corrected(d)[n] = C!Corrected(AfterEnv)[n]
    BY <2>2, <2>7, <2>8, CorrectedFields
  <2>. QED
    BY <2>3, <2>9 DEF d
<1>. QED
  BY <1>1, LoadingAlways, PTL DEF ShellBeatsFiles
=============================================================================
