------------------------------ MODULE Upgrade ------------------------------
(***************************************************************************)
(* The start of the program over the database an earlier version left      *)
(* (storage/db.go migrate, storage/auth.go MigrateLegacyTokens, main.go    *)
(* bootstrap): the schema, the columns that are missing, the versions of   *)
(* the accounts, the plain-text proxy tokens, the administrator and the    *)
(* configured tokens, one statement after the other, each committed on its *)
(* own.  The process may be killed, or a statement may fail and end it, at *)
(* any point; the supervisor starts it again.                              *)
(*                                                                         *)
(* The SQLite dialect.  Of an account only its token version and, for the  *)
(* configured administrator, whether its password is the configured one;   *)
(* of a proxy token only its value and how the row stores it.              *)
(***************************************************************************)
EXTENDS Integers, Sequences, SequencesExt

CONSTANTS
  Users,       \* account names
  Admin,       \* auth.admin_username
  Tokens,      \* values of proxy tokens
  Long,        \* those of exactly 64 characters, the length of a hash
  Configured,  \* auth.proxy_tokens, without the empty ones
  MaxStops,    \* bound: how often the process ends before it serves, or later
  MaxVersion   \* bound: token versions up to which users change passwords

ASSUME UpgradeAssumption ==
  /\ Admin \in Users
  /\ Long \subseteq Tokens
  /\ Configured \subseteq Tokens
  /\ MaxStops \in Nat
  /\ MaxVersion \in Nat

VARIABLES
  tables,    \* the tables exist
  cols,      \* which of the later columns they have
  accounts,  \* the users rows
  version,   \* users.token_version
  adminPw,   \* the administrator's hash is that of auth.admin_password
  rows,      \* proxy_tokens: [token, form, first], first: of the first start
  proc,      \* the process: where it is, and the locals of its start
  jwts,      \* sessions in the browsers: [user, version, old]
  hist       \* how often it ended, whether between the two statements that
             \* belong together, and the rows of the first start

dbVars == <<tables, cols, accounts, version, adminPw, rows>>
vars == <<dbVars, proc, jwts, hist>>

(* The columns of addColumnIfMissing, in its order; token_version is last. *)
Earlier == <<"rate_limit_rpm", "expires_at", "request_id", "role">>
Columns == ToSet(Earlier) \cup {"token_version"}

Down == [pc |-> "down", next |-> 1, hadVersion |-> FALSE, legacy |-> {}]

OldJwt(u) == [user |-> u, version |-> 0, old |-> TRUE]

(* A new installation, or what some earlier version left: columns missing, *)
(* rows in plain text, and sessions without a version if it had none.      *)
Init ==
  /\ proc = Down
  /\ version = [u \in Users |-> 0]
  /\ \/ /\ tables = FALSE
        /\ cols = {} /\ accounts = {} /\ rows = {} /\ jwts = {}
        /\ adminPw = FALSE
     \/ /\ tables = TRUE
        /\ cols \in SUBSET Columns
        /\ accounts \in SUBSET Users
        /\ adminPw \in BOOLEAN
        /\ \E known \in SUBSET Tokens, plain \in SUBSET Tokens :
             rows = {[token |-> t, form |-> IF t \in plain THEN "plain" ELSE "hash",
                      first |-> TRUE] : t \in known}
        /\ jwts = {[OldJwt(u) EXCEPT !.old = "token_version" \notin cols] :
                     u \in accounts}
  /\ hist = [stops |-> 0, torn |-> FALSE, known |-> rows]

Serving == proc.pc = "serving"

At(pc, next) == proc.pc = pc /\ proc' = [proc EXCEPT !.pc = next]
-----------------------------------------------------------------------------
(* migrate.                                                                *)

Start ==
  /\ At("down", "schema")
  /\ UNCHANGED <<dbVars, jwts, hist>>

(* CREATE TABLE IF NOT EXISTS: complete tables, or those that are there.   *)
CreateTables ==
  /\ At("schema", "columns")
  /\ tables' = TRUE
  /\ cols' = IF tables THEN cols ELSE Columns
  /\ UNCHANGED <<accounts, version, adminPw, rows, jwts, hist>>

(* One addColumnIfMissing after the other.                                 *)
AddColumn ==
  /\ proc.pc = "columns"
  /\ cols' = cols \cup {Earlier[proc.next]}
  /\ proc' = [proc EXCEPT !.next = @ + 1,
                          !.pc = IF proc.next = Len(Earlier) THEN "version" ELSE @]
  /\ UNCHANGED <<tables, accounts, version, adminPw, rows, jwts, hist>>

ReadVersionLate ==
  /\ proc.pc = "version"
  /\ proc' = [proc EXCEPT !.pc = "alter", !.hadVersion = TRUE]
  /\ UNCHANGED <<dbVars, jwts, hist>>

ReadVersionNever ==
  /\ proc.pc = "version"
  /\ proc' = [proc EXCEPT !.pc = "alter", !.hadVersion = FALSE]
  /\ UNCHANGED <<dbVars, jwts, hist>>

(* hasTokenVersion, read before the column is added.                       *)
ReadVersion ==
  /\ proc.pc = "version"
  /\ proc' = [proc EXCEPT !.pc = "alter", !.hadVersion = "token_version" \in cols]
  /\ UNCHANGED <<dbVars, jwts, hist>>

(* The column comes with DEFAULT 0.                                        *)
AddVersion ==
  /\ At("alter", IF proc.hadVersion THEN "index" ELSE "bump")
  /\ cols' = cols \cup {"token_version"}
  /\ UNCHANGED <<tables, accounts, version, adminPw, rows, jwts, hist>>

(* UPDATE users SET token_version=token_version+1.                         *)
BumpVersions ==
  /\ At("bump", "index")
  /\ version' = [u \in Users |-> IF u \in accounts THEN version[u] + 1 ELSE version[u]]
  /\ UNCHANGED <<tables, cols, accounts, adminPw, rows, jwts, hist>>

CreateIndex ==
  /\ At("index", "legacy")
  /\ UNCHANGED <<dbVars, jwts, hist>>
-----------------------------------------------------------------------------
(* MigrateLegacyTokens: whatever is not as long as a hash is plain text.   *)

LooksLegacy(r) == r.form = "plain" /\ r.token \notin Long

ReadLegacy ==
  /\ proc.pc = "legacy"
  /\ proc' = [proc EXCEPT !.pc = "rehash", !.legacy = {r \in rows : LooksLegacy(r)}]
  /\ UNCHANGED <<dbVars, jwts, hist>>

Hashed(r) == [r EXCEPT !.form = IF @ = "plain" THEN "hash" ELSE "hash of hash"]

TakenInAnyForm(t) == \E r \in rows : r.token = t

(* TokenExists.                                                            *)
Taken(t) == \E r \in rows : r.token = t /\ r.form = "hash"

HashRowStays ==
  /\ proc.pc = "rehash"
  /\ \E r \in proc.legacy : rows' = (rows \ {r}) \cup {Hashed(r)}
  /\ UNCHANGED <<tables, cols, accounts, version, adminPw, proc, jwts, hist>>

HashRow ==
  /\ proc.pc = "rehash"
  /\ \E r \in proc.legacy :
       /\ rows' = (rows \ {r}) \cup {Hashed(r)}
       /\ proc' = [proc EXCEPT !.legacy = @ \ {r}]
  /\ UNCHANGED <<tables, cols, accounts, version, adminPw, jwts, hist>>

EndLegacy ==
  /\ proc.legacy = {}
  /\ At("rehash", "admin")
  /\ UNCHANGED <<dbVars, jwts, hist>>
-----------------------------------------------------------------------------
(* bootstrap.                                                              *)

AdminUpToDate == Admin \in accounts /\ adminPw

CreateAdmin ==
  /\ Admin \notin accounts
  /\ At("admin", "tokens")
  /\ accounts' = accounts \cup {Admin}
  /\ adminPw' = TRUE
  /\ UNCHANGED <<tables, cols, version, rows, jwts, hist>>

UpdateAdmin ==
  /\ Admin \in accounts /\ ~adminPw
  /\ At("admin", "tokens")
  /\ adminPw' = TRUE
  /\ version' = [version EXCEPT ![Admin] = @ + 1]
  /\ UNCHANGED <<tables, cols, accounts, rows, jwts, hist>>

SkipAdmin ==
  /\ AdminUpToDate
  /\ At("admin", "tokens")
  /\ UNCHANGED <<dbVars, jwts, hist>>

NewRow(t) == [token |-> t, form |-> "hash", first |-> FALSE]

Missing == {t \in Configured : ~Taken(t)}

(* The configured tokens that TokenExists does not find are added, one     *)
(* statement each; the order does not matter to what follows.              *)
AddToken ==
  /\ proc.pc = "tokens"
  /\ \E t \in Missing : rows' = rows \cup {NewRow(t)}
  /\ UNCHANGED <<tables, cols, accounts, version, adminPw, proc, jwts, hist>>

Serve ==
  /\ Missing = {}
  /\ At("tokens", "serving")
  /\ UNCHANGED <<dbVars, jwts, hist>>
-----------------------------------------------------------------------------
(* Serving, and the end of the process.                                    *)

Login(u) ==
  /\ Serving /\ u \in accounts
  /\ jwts' = jwts \cup {[user |-> u, version |-> version[u], old |-> FALSE]}
  /\ UNCHANGED <<dbVars, proc, hist>>

ChangePassword(u) ==
  /\ Serving /\ u \in accounts
  /\ version[u] < MaxVersion
  /\ version' = [version EXCEPT ![u] = @ + 1]
  /\ adminPw' = (adminPw /\ u # Admin)
  /\ UNCHANGED <<tables, cols, accounts, rows, proc, jwts, hist>>

CreateToken(t) ==
  /\ Serving /\ ~Taken(t)
  /\ rows' = rows \cup {NewRow(t)}
  /\ UNCHANGED <<tables, cols, accounts, version, adminPw, proc, jwts, hist>>

(* Killed, or ended by log.Fatalf on a failing statement.                  *)
Stop ==
  /\ proc.pc # "down"
  /\ hist.stops < MaxStops
  /\ proc' = Down
  /\ hist' = [hist EXCEPT !.stops = @ + 1, !.torn = @ \/ proc.pc = "bump"]
  /\ UNCHANGED <<dbVars, jwts>>

Boot ==
  \/ Start \/ CreateTables \/ AddColumn \/ ReadVersion \/ AddVersion
  \/ BumpVersions \/ CreateIndex
  \/ ReadLegacy \/ HashRow \/ EndLegacy
  \/ CreateAdmin \/ UpdateAdmin \/ SkipAdmin \/ AddToken \/ Serve

Next ==
  \/ Boot
  \/ \E u \in Users : Login(u) \/ ChangePassword(u)
  \/ \E t \in Tokens : CreateToken(t)
  \/ Stop

(* The supervisor restarts the process, and the process runs.              *)
Spec == Init /\ [][Next]_vars /\ WF_vars(Boot)
-----------------------------------------------------------------------------
(* The session middleware: the version in the token is the account's.      *)
Accepted(j) == j.user \in accounts /\ j.version = version[j.user]

Row == [token : Tokens, form : {"plain", "hash"}, first : BOOLEAN]

TypeOK ==
  /\ tables \in BOOLEAN
  /\ cols \subseteq Columns
  /\ accounts \subseteq Users
  /\ version \in [Users -> Nat]
  /\ adminPw \in BOOLEAN
  /\ rows \subseteq Row
  /\ proc \in [pc : {"down", "schema", "columns", "version", "alter", "bump", "index",
                     "legacy", "rehash", "admin", "tokens", "serving"},
               next : 1..Len(Earlier) + 1, hadVersion : BOOLEAN,
               legacy : SUBSET Row]
  /\ jwts \subseteq [user : Users, version : Nat, old : BOOLEAN]
  /\ hist \in [stops : Nat, torn : BOOLEAN, known : SUBSET Row]

(* No statement names a column before the column exists, however often the *)
(* start was cut off before (migrate's comments on the order).             *)
ColumnsBeforeUse ==
  /\ proc.pc = "bump" => "token_version" \in cols
  /\ proc.pc = "index" => "request_id" \in cols
  /\ proc.pc \in {"legacy", "rehash", "admin", "tokens", "serving"} => cols = Columns

(* Once the program serves, every proxy token that an earlier version knew *)
(* is still accepted, by its own row, so that it keeps its limit and       *)
(* expiry; every configured token is accepted, by exactly one row.  Tokens *)
(* stored in plain text that are as long as a hash are the exception.      *)
TokensSurvive ==
  Serving =>
    /\ \A k \in hist.known :
         k.form = "hash" \/ k.token \notin Long => [k EXCEPT !.form = "hash"] \in rows
    /\ \A t \in Configured :
         \E r \in rows : \A s \in rows : (s.token = t /\ s.form = "hash") <=> s = r

(* Unless the process ended exactly between the two statements, nobody     *)
(* enters with a session that the version before the upgrade signed.       *)
OldSessionsEnd ==
  Serving /\ ~hist.torn => \A j \in jwts : j.old => ~Accepted(j)

(* A restart ends no session that a version of the program with versions   *)
(* signed, the administrator's apart when the configured password is       *)
(* another one.                                                            *)
SessionsSurviveRestart ==
  [][\A j \in jwts : ~Serving /\ ~j.old /\ Accepted(j) =>
       Accepted(j)' \/ (j.user = Admin /\ ~adminPw)]_vars

(* However often the start is cut off, in the end the program serves.      *)
EventuallyServes == []<>Serving
-----------------------------------------------------------------------------
(* What the documentation says and the code does not do.                   *)

(* DEPLOYMENT.md 9.1 and migrate's comment: an upgrade of an older         *)
(* database logs everybody out once.                                       *)
EverybodyLoggedOut == Serving => \A j \in jwts : j.old => ~Accepted(j)

(* README and MigrateLegacyTokens: tokens in plain text are converted to   *)
(* hashes.                                                                 *)
PlainTextGone == Serving => \A r \in rows : r.form # "plain"
=============================================================================
