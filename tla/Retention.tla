----------------------------- MODULE Retention -----------------------------
(***************************************************************************)
(* Old rows leave the database in two ways, which may overlap: the hourly  *)
(* retention goroutine (main.go startRetention), with a number of days for *)
(* each table, and an administrator's purge (api/maintenance.go), which    *)
(* goes over the tables it is given, with one limit computed at its start, *)
(* and records in the audit log what it deleted.                           *)
(*                                                                         *)
(* Time is the age of each row in hours.  SQLite compares times as text:   *)
(* rows of the log and health tables and the limit are bound as the        *)
(* process's local time, while audit_logs.created_at is CURRENT_TIMESTAMP, *)
(* which is UTC, so that an audit row looks Zone hours older than it is.   *)
(***************************************************************************)
EXTENDS Integers, FiniteSets, Sequences

CONSTANTS
  LogRows, HealthRows, AuditRows,  \* rows that may be in the tables
  Days,         \* retention days of each table; 0 or less: none
  Requests,     \* bodies of POST /api/maintenance/purge: [tables, keep]
  Day,          \* hours in a day
  Zone,         \* the process's offset east of UTC in hours
  MaxAge,       \* bound: older rows are all alike
  MaxFailures,  \* bound: DELETEs and audit INSERTs that fail
  MaxRestarts   \* bound: ends of the process

Tables == {"log", "health", "audit"}

Rows == LogRows \cup HealthRows \cup AuditRows
TableOf(r) ==
  IF r \in LogRows THEN "log" ELSE IF r \in HealthRows THEN "health" ELSE "audit"

RetentionAssumption ==
  /\ IsFiniteSet(Rows) /\ \A r \in AuditRows : TableOf(r) = "audit"
  /\ Day \in Nat /\ Zone \in Int /\ MaxAge \in Nat
  /\ MaxFailures \in Nat /\ MaxRestarts \in Nat
  /\ Days \in [Tables -> Int]
  /\ Requests \subseteq [tables : Seq(STRING), keep : Int]

Absent == -1

VARIABLES
  age,      \* of each row in hours, or Absent
  cleaner,  \* the retention goroutine: at a select, or at a table
  ticked,   \* a tick is in ticker.C, which holds one
  purge,    \* the handler: where it is, tables left, keep_days, age of its
            \* limit, rows of the last DELETE
  hist      \* rows that purges deleted and the audit log does not account for,
            \* those of them whose record failed or was cut off, the records

vars == <<age, cleaner, ticked, purge, hist>>

NoPurge == [pc |-> "idle", todo |-> <<>>, keep |-> 0, cut |-> 0, n |-> 0]

On(t) == Days[t] > 0

Init ==
  /\ age = [r \in Rows |-> Absent]
  /\ cleaner = IF \E t \in Tables : On(t) THEN "select" ELSE "off"
  /\ ticked = FALSE
  /\ purge = NoPurge
  /\ hist = [gap |-> 0, lost |-> 0, failures |-> 0, restarts |-> 0]
-----------------------------------------------------------------------------
(* The rows of table t before a limit that lies limit hours back.          *)
Shift(t) == IF t = "audit" THEN Zone ELSE 0

Before(t, limit) ==
  {r \in Rows : TableOf(r) = t /\ age[r] # Absent /\ age[r] > limit - Shift(t)}

Without(gone) == [r \in Rows |-> IF r \in gone THEN Absent ELSE age[r]]

(* The flusher, a health probe or a handler's audit call adds a row.       *)
Insert(r) ==
  /\ age[r] = Absent
  /\ age' = [age EXCEPT ![r] = 0]
  /\ UNCHANGED <<cleaner, ticked, purge, hist>>

(* An hour passes: a tick, unless one is waiting.  The two minutes of a    *)
(* purge's context touch two hours at most.                                *)
Hour ==
  /\ age' = [r \in Rows |-> IF age[r] \in {Absent, MaxAge} THEN age[r] ELSE age[r] + 1]
  /\ ticked' = (cleaner # "off")
  /\ purge' = IF purge.pc = "idle" THEN purge ELSE [purge EXCEPT !.cut = purge.keep * Day + 1]
  /\ UNCHANGED <<cleaner, hist>>
-----------------------------------------------------------------------------
(* The retention goroutine.                                                *)

Tick ==
  /\ cleaner = "select" /\ ticked
  /\ cleaner' = "log"
  /\ ticked' = FALSE
  /\ UNCHANGED <<age, purge, hist>>

After(t) == CASE t = "log" -> "health" [] t = "health" -> "audit" [] t = "audit" -> "vacuum"

CleanAlways(t) ==
  /\ cleaner = t
  /\ cleaner' = After(t)
  /\ age' = Without(Before(t, Days[t] * Day))
  /\ UNCHANGED <<ticked, purge, hist>>

(* One DELETE per table, if the table has a limit, which is counted back   *)
(* from now.                                                               *)
Clean(t) ==
  /\ cleaner = t
  /\ cleaner' = After(t)
  /\ age' = IF On(t) THEN Without(Before(t, Days[t] * Day)) ELSE age
  /\ UNCHANGED <<ticked, purge, hist>>

(* A DELETE that fails is logged; the next table has its turn.             *)
CleanFails(t) ==
  /\ cleaner = t /\ On(t)
  /\ hist.failures < MaxFailures
  /\ cleaner' = After(t)
  /\ hist' = [hist EXCEPT !.failures = @ + 1]
  /\ UNCHANGED <<age, ticked, purge>>

Vacuum ==
  /\ cleaner = "vacuum"
  /\ cleaner' = "select"
  /\ UNCHANGED <<age, ticked, purge, hist>>
-----------------------------------------------------------------------------
(* postMaintenancePurge.                                                   *)

Valid(q) == q.keep > 0 /\ Len(q.tables) > 0

PurgeStart(q) ==
  /\ purge.pc = "idle"
  /\ Valid(q)
  /\ purge' = [pc |-> "delete", todo |-> q.tables, keep |-> q.keep,
               cut |-> q.keep * Day, n |-> 0]
  /\ UNCHANGED <<age, cleaner, ticked, hist>>

PurgeNow == purge.pc = "delete" /\ purge.todo # <<>>

(* An unknown table is passed over.                                        *)
PurgeSkip ==
  /\ PurgeNow /\ Head(purge.todo) \notin Tables
  /\ purge' = [purge EXCEPT !.todo = Tail(@)]
  /\ UNCHANGED <<age, cleaner, ticked, hist>>

PurgeDeleteAuditLast ==
  /\ PurgeNow /\ Head(purge.todo) \in Tables
  /\ LET gone == Before(Head(purge.todo), purge.cut) IN
       /\ age' = Without(gone)
       /\ purge' = [purge EXCEPT !.pc = IF Len(purge.todo) = 1 THEN "audit" ELSE @,
                                 !.todo = IF Len(purge.todo) = 1 THEN @ ELSE Tail(@),
                                 !.n = @ + Cardinality(gone)]
       /\ hist' = [hist EXCEPT !.gap = @ + Cardinality(gone)]
  /\ UNCHANGED <<cleaner, ticked>>

PurgeDelete ==
  /\ PurgeNow /\ Head(purge.todo) \in Tables
  /\ LET gone == Before(Head(purge.todo), purge.cut) IN
       /\ age' = Without(gone)
       /\ purge' = [purge EXCEPT !.pc = "audit", !.n = Cardinality(gone)]
       /\ hist' = [hist EXCEPT !.gap = @ + Cardinality(gone)]
  /\ UNCHANGED <<cleaner, ticked>>

(* The answer is an error; the tables before stay deleted.                 *)
PurgeFails ==
  /\ PurgeNow /\ Head(purge.todo) \in Tables
  /\ hist.failures < MaxFailures
  /\ purge' = NoPurge
  /\ hist' = [hist EXCEPT !.failures = @ + 1]
  /\ UNCHANGED <<age, cleaner, ticked>>

NextTable == [purge EXCEPT !.pc = "delete", !.todo = Tail(@), !.n = 0]

(* Audit, with a context that outlives the request.                        *)
PurgeAudit ==
  /\ purge.pc = "audit"
  /\ \E r \in AuditRows :
       /\ age[r] = Absent
       /\ age' = [age EXCEPT ![r] = 0]
       /\ hist' = [hist EXCEPT !.gap = @ - purge.n]
  /\ purge' = NextTable
  /\ UNCHANGED <<cleaner, ticked>>

(* Audit drops the error of InsertAudit.                                   *)
PurgeAuditFails ==
  /\ purge.pc = "audit"
  /\ hist.failures < MaxFailures
  /\ purge' = NextTable
  /\ hist' = [hist EXCEPT !.failures = @ + 1, !.lost = @ + purge.n]
  /\ UNCHANGED <<age, cleaner, ticked>>

PurgeEnd ==
  /\ purge.pc = "delete" /\ purge.todo = <<>>
  /\ purge' = NoPurge
  /\ UNCHANGED <<age, cleaner, ticked, hist>>

(* The process ends and starts again: the hour begins anew.                *)
Restart ==
  /\ hist.restarts < MaxRestarts
  /\ cleaner' = IF \E t \in Tables : On(t) THEN "select" ELSE "off"
  /\ ticked' = FALSE
  /\ purge' = NoPurge
  /\ hist' = [hist EXCEPT !.restarts = @ + 1, !.lost = @ + purge.n]
  /\ UNCHANGED age

Cleaner ==
  \/ Tick
  \/ \E t \in Tables : Clean(t) \/ CleanFails(t)
  \/ Vacuum

Next ==
  \/ \E r \in Rows : Insert(r)
  \/ Hour
  \/ Cleaner
  \/ \E q \in Requests : PurgeStart(q)
  \/ PurgeSkip \/ PurgeDelete \/ PurgeFails
  \/ PurgeAudit \/ PurgeAuditFails \/ PurgeEnd
  \/ Restart

Spec == Init /\ [][Next]_vars
-----------------------------------------------------------------------------
TypeOK ==
  /\ age \in [Rows -> Absent..MaxAge]
  /\ cleaner \in Tables \cup {"select", "vacuum", "off"}
  /\ ticked \in BOOLEAN
  /\ purge \in [pc : {"idle", "delete", "audit"}, todo : Seq(STRING),
                keep : Nat, cut : Nat, n : Nat]
  /\ purge.pc # "idle" => purge.keep > 0 /\ purge.cut - purge.keep * Day \in {0, 1}
  /\ purge.pc = "audit" => purge.todo # <<>>
  /\ hist \in [gap : Int, lost : Nat, failures : Nat, restarts : Nat]

(* No row that somebody asked to keep goes: the retention and an           *)
(* administrator's purge, whatever they overlap with, delete only rows     *)
(* older than their own limit, and a table without a limit loses rows to   *)
(* purges only.  The audit table may be up to Zone hours short of it.      *)
Goes(r) == age[r] # Absent /\ age'[r] = Absent

PastRetention(r) ==
  LET t == TableOf(r) IN
  cleaner = t /\ Days[t] > 0 /\ age[r] + Shift(t) > Days[t] * Day

PastPurge(r) ==
  LET t == TableOf(r) IN
  purge.pc = "delete" /\ Head(purge.todo) = t /\ age[r] + Shift(t) > purge.keep * Day

KeepsRecent == [][\A r \in Rows : Goes(r) => PastRetention(r) \/ PastPurge(r)]_vars

(* What a purge has deleted is on the audit log table by table, also when  *)
(* a later table fails: the rest is the DELETE it has just made, or went   *)
(* with a failing INSERT or the end of the process.                        *)
Accounted ==
  hist.gap = hist.lost + purge.n

-----------------------------------------------------------------------------
(* What the documentation says and the code does not do.                   *)

(* config.go, config.example.yaml, README: audit rows are kept for         *)
(* audit_retention_days days.                                              *)
AuditKept ==
  [][\A r \in AuditRows : Goes(r) /\ cleaner = "audit" => age[r] > Days["audit"] * Day]_vars

(* README: every manual purge is on the audit log.                         *)
PurgesAreAudited == purge.pc = "idle" => hist.gap = 0
=============================================================================
