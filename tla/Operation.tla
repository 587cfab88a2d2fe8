----------------------------- MODULE Operation -----------------------------
(***************************************************************************)
(* What goes on while the program serves, apart from the modules that have *)
(* a run of their own: old rows are deleted, the panel's answers are put   *)
(* together, and requests are forwarded.  The three share no state (module *)
(* LogQueries has its own deletions of old rows), so a behaviour takes the *)
(* steps of one of them while the others stay where they began.            *)
(***************************************************************************)
CONSTANTS
  LogRows, HealthRows, AuditRows, Days, Purges, Day, Zone,
  MaxAge, MaxFailures, MaxRestarts,                       \* of Retention
  Targets, BasePath, AnyBackend, SavedTables, Saves,
  Direct, Fronted, NoAddr,                                \* of Forwarding
  Kinds, DefaultSize, MaxSize, ExportSize, MaxId, MaxPages,
  Span, MaxTime                                             \* of LogQueries

VARIABLES
  active,                                          \* which of them takes steps
  age, cleaner, ticked, purge, ledger,             \* of Retention
  trust, routes, rewrites, saving, passing, seen,  \* of Forwarding
  table, nextId, now, reader, had                  \* of LogQueries

R == INSTANCE Retention WITH Requests <- Purges, hist <- ledger
F == INSTANCE Forwarding
       WITH Backends <- Targets, Tables <- SavedTables, updater <- saving, req <- passing
Q == INSTANCE LogQueries WITH hist <- had

ASSUME OperationAssumption ==
  R!RetentionAssumption /\ F!ForwardingAssumption /\ Q!QueryAssumption

retentionVars == <<age, cleaner, ticked, purge, ledger>>
forwardingVars == <<trust, routes, rewrites, saving, passing, seen>>
queryVars == <<table, nextId, now, reader, had>>

NothingToForward ==
  trust = FALSE /\ routes = <<>> /\ rewrites = <<>> /\ saving = {}
    /\ passing = F!NoRequest /\ seen = {}

OperationInit ==
  \/ active = "retention" /\ R!Init /\ NothingToForward /\ Q!Init
  \/ active = "forwarding" /\ F!Init /\ R!Init /\ Q!Init
  \/ active = "queries" /\ Q!Init /\ R!Init /\ NothingToForward

OperationNext ==
  \/ active = "retention" /\ R!Next /\ UNCHANGED <<active, forwardingVars, queryVars>>
  \/ active = "forwarding" /\ F!Next /\ UNCHANGED <<active, retentionVars, queryVars>>
  \/ active = "queries" /\ Q!Next /\ UNCHANGED <<active, retentionVars, forwardingVars>>

OperationSpec ==
  OperationInit /\ [][OperationNext]_<<active, retentionVars, forwardingVars, queryVars>>
-----------------------------------------------------------------------------
(* Module Retention's: rows go only by a limit that was meant for them     *)
(* (main.go startRetention, postMaintenancePurge).                         *)
KeepsRecent == R!KeepsRecent

(* Module Retention's: what a purge has deleted is on the audit log, but   *)
(* for its last DELETE and what failures cost (postMaintenancePurge).      *)
Accounted == R!Accounted

(* Module Forwarding's: the backend gets the path that the rewrites mean,  *)
(* by segments, below the path of its own URL (rewrite.go, joinURLPath).   *)
ForwardedAsMeant == F!ForwardedAsMeant

(* Module Forwarding's: the log and the backend's chain of addresses agree *)
(* and begin where the request did, unless a trusted header says otherwise *)
(* (clientIP, appendXFF).                                                  *)
ChainIsTrue == F!ChainIsTrue

(* Module Forwarding's: a request is logged under the address it started   *)
(* from (DEPLOYMENT.md's setting of nginx and of trust).                   *)
LoggedUnderOrigin == F!LoggedUnderOrigin

(* Module LogQueries': a client that goes over the pages misses a row that *)
(* was there all the time only below rows that were deleted meanwhile, and *)
(* no more rows than those (ListLogs).                                     *)
MissesOnlyBelowDeleted == Q!MissesOnlyBelowDeleted
MissesNoMoreThanDeleted == Q!MissesNoMoreThanDeleted

(* Module LogQueries': the parts of one answer differ by no more than was  *)
(* written between its SELECTs (listLogs, TrendService.Get).               *)
PartsAgree == Q!PartsAgree

(* Of modules Retention, Forwarding and LogQueries: what comments and the  *)
(* README say, and the code does not do.                                   *)
AuditKept == R!AuditKept
PurgesAreAudited == R!PurgesAreAudited
OverwrittenByPeer == F!OverwrittenByPeer
OnlyOwnRealIP == F!OnlyOwnRealIP
RateIsShare == Q!RateIsShare
ExportComplete == Q!ExportComplete
=============================================================================
