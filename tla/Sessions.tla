------------------------------ MODULE Sessions ------------------------------
(***************************************************************************)
(* The sessions of the management panel: the users table with its token    *)
(* versions, the JWTs handed out at login, the authentication middleware   *)
(* with its per-user cache (internal/auth/web_auth.go), and the handlers   *)
(* that create, delete, demote and reset users (internal/api/users.go),    *)
(* which themselves run behind that middleware.  Several requests are in   *)
(* progress at once, and every access to the database or to the cache is a *)
(* step of its own.                                                        *)
(***************************************************************************)
EXTENDS Integers, FiniteSets

CONSTANTS
  Users,       \* user names
  Founders,    \* the users a new table already has, all administrators
  Admin,       \* the administrator config.yaml names
  Slots,       \* panel requests in progress at the same time
  NoUser,      \* no user name
  TTL,         \* userCacheTTL, in ticks
  MaxLag,      \* bound: ticks a request holds a row it has read, uncached
  MaxVersion,  \* bound: password resets and role changes of one row
  MaxRows,     \* bound: rows ever created for one name
  MaxTokens,   \* bound: JWTs that differ in their claims
  MaxClock     \* bound: the last tick

ASSUME SessionsAssumption ==
  /\ Founders \subseteq Users
  /\ Admin \in Users
  /\ NoUser \notin Users
  /\ TTL \in Nat \ {0}
  /\ MaxLag \in Nat
  /\ MaxVersion \in Nat
  /\ MaxRows \in Nat \ {0}
  /\ MaxTokens \in Nat
  /\ MaxClock \in Nat

VARIABLES
  clock,   \* time.Now()
  users,   \* the table: the row of each name (row 0: there is none)
  rows,    \* how many rows each name has had: ids are never used twice
  tokens,  \* the JWTs signed so far, by their claims
  cache,   \* WebAuthMiddleware.cache: at most one entry per name
  slots,   \* each request: where it is and what it holds
  changed  \* history: when each name's row last changed, or a read of it failed

vars == <<clock, users, rows, tokens, cache, slots, changed>>

Roles == {"admin", "viewer"}
Claims == [user : Users, role : Roles, version : 0..MaxVersion]
NoRow == [row |-> 0, role |-> "viewer", version |-> 0]
NoClaims == [user |-> NoUser, role |-> "viewer", version |-> 0]
IdleSlot == [pc |-> "idle", tok |-> NoClaims, saw |-> NoRow, at |-> 0,
             target |-> NoUser]

Exists(u) == users[u].row > 0

(* What a check against the table, not the cache, would say of a token.    *)
Current(tok) == Exists(tok.user) /\ users[tok.user].version = tok.version

Init ==
  /\ clock = 0
  /\ users = [u \in Users |-> IF u \in Founders
                              THEN [row |-> 1, role |-> "admin", version |-> 0]
                              ELSE NoRow]
  /\ rows = [u \in Users |-> IF u \in Founders THEN 1 ELSE 0]
  /\ tokens = {}
  /\ cache = [u \in Users |-> {}]
  /\ slots = [s \in Slots |-> IdleSlot]
  /\ changed = [u \in Users |-> 0]

Goto(s, pc) == slots' = [slots EXCEPT ![s].pc = pc]
Leave(s) == slots' = [slots EXCEPT ![s] = IdleSlot]

(* The handler of request s goes on to pc, about user u, with the row id,   *)
(* or the role, it holds.                                                  *)
About(s, pc, u, held) ==
  slots' = [slots EXCEPT ![s] = [IdleSlot EXCEPT !.pc = pc, !.target = u, !.saw = held]]

RowChanges(u) == changed' = [changed EXCEPT ![u] = clock]
-----------------------------------------------------------------------------
(* login: the row is read, the password is compared with its hash, and the *)
(* token is signed from the row that was read.                             *)
LoginRead(s, u) ==
  /\ slots[s].pc = "idle"
  /\ Exists(u)
  /\ About(s, "login", u, [users[u] EXCEPT !.row = 0])
  /\ UNCHANGED <<clock, users, rows, tokens, cache, changed>>

LoginSign(s) ==
  /\ slots[s].pc = "login"
  /\ tokens' = tokens \cup {[user |-> slots[s].target, role |-> slots[s].saw.role,
                             version |-> slots[s].saw.version]}
  /\ Cardinality(tokens') <= MaxTokens
  /\ Leave(s)
  /\ UNCHANGED <<clock, users, rows, cache, changed>>
-----------------------------------------------------------------------------
(* The middleware.                                                         *)

FreshTooLong(e) == clock - e.at <= TTL
Fresh(e) == clock - e.at < TTL

(* The verdict on a token, from a row or from a cache entry.               *)
Accepts(tok, exists, version) == exists /\ version = tok.version

(* A request arrives with a token; a fresh cache entry decides at once.    *)
Present(s, tok) ==
  /\ slots[s].pc \in {"idle", "granted", "refused"}
  /\ LET hits == {e \in cache[tok.user] : Fresh(e)}
         pc   == IF hits = {} THEN "miss"
                 ELSE IF \E e \in hits : Accepts(tok, e.exists, e.version)
                 THEN "granted" ELSE "refused"
     IN slots' = [slots EXCEPT ![s] = [IdleSlot EXCEPT
                    !.pc = pc, !.tok = tok]]
  /\ UNCHANGED <<clock, users, rows, tokens, cache, changed>>

(* userState reads the row ...                                             *)
ReadUser(s) ==
  /\ slots[s].pc = "miss"
  /\ slots' = [slots EXCEPT ![s].pc = "read", ![s].at = clock,
                            ![s].saw = users[slots[s].tok.user]]
  /\ UNCHANGED <<clock, users, rows, tokens, cache, changed>>

(* Any error of the query, a caller that hangs up included, counts as "no  *)
(* such user".                                                             *)
ReadFails(s) ==
  /\ slots[s].pc = "miss"
  /\ slots' = [slots EXCEPT ![s].pc = "read", ![s].at = clock]
  /\ RowChanges(slots[s].tok.user)
  /\ UNCHANGED <<clock, users, rows, tokens, cache>>

CacheToo(u, e) == cache' = [cache EXCEPT ![u] = @ \cup {e}]
CacheAs(u, e) == cache' = [cache EXCEPT ![u] = {e}]

(* ... and stores it, stamped with the time of the store.                  *)
StoreUser(s) ==
  LET tok == slots[s].tok
      saw == slots[s].saw
      e   == [exists |-> saw.row > 0, version |-> saw.version, at |-> clock]
  IN
  /\ slots[s].pc = "read"
  /\ CacheAs(tok.user, e)
  /\ slots' = [slots EXCEPT ![s] = [IdleSlot EXCEPT
                 !.pc = IF Accepts(tok, e.exists, e.version) THEN "granted" ELSE "refused",
                 !.tok = tok]]
  /\ UNCHANGED <<clock, users, rows, tokens, changed>>
-----------------------------------------------------------------------------
(* The administrators' handlers.  The caller's name and role are those of  *)
(* the token it was granted with (AdminOnly).                              *)

ByAdmin(s) == slots[s].pc = "granted" /\ slots[s].tok.role = "admin"
Self(s) == slots[s].tok.user

(* createUser: UserExists, then an INSERT that the unique name may refuse. *)
CheckName(s, u) ==
  /\ ByAdmin(s)
  /\ ~Exists(u)
  /\ About(s, "create", u, NoRow)
  /\ UNCHANGED <<clock, users, rows, tokens, cache, changed>>

InsertUser(s, role) ==
  LET u == slots[s].target IN
  /\ slots[s].pc = "create"
  /\ IF Exists(u)
     THEN UNCHANGED <<users, rows, changed>>
     ELSE /\ rows[u] < MaxRows
          /\ users' = [users EXCEPT ![u] =
                         [row |-> rows[u] + 1, role |-> role, version |-> 0]]
          /\ rows' = [rows EXCEPT ![u] = @ + 1]
          /\ RowChanges(u)
  /\ Leave(s)
  /\ UNCHANGED <<clock, tokens, cache>>

(* deleteUser, resetPassword, updateRole: GetUserByID finds the row.       *)
FindForDelete(s, u) ==
  /\ ByAdmin(s)
  /\ Exists(u)
  /\ u # Self(s)
  /\ About(s, "count", u, [NoRow EXCEPT !.row = users[u].row])
  /\ UNCHANGED <<clock, users, rows, tokens, cache, changed>>

CountUsers(s) ==
  /\ slots[s].pc = "count"
  /\ IF Cardinality({u \in Users : Exists(u)}) <= 1 THEN Leave(s) ELSE Goto(s, "delete")
  /\ UNCHANGED <<clock, users, rows, tokens, cache, changed>>

(* DELETE by id: a row that is gone answers 404 and clears no cache.       *)
DeleteUser(s) ==
  LET u == slots[s].target IN
  /\ slots[s].pc = "delete"
  /\ IF users[u].row = slots[s].saw.row
     THEN /\ users' = [users EXCEPT ![u] = NoRow]
          /\ RowChanges(u)
          /\ About(s, "invalidate", u, NoRow)
     ELSE /\ UNCHANGED <<users, changed>>
          /\ Leave(s)
  /\ UNCHANGED <<clock, rows, tokens, cache>>

FindForReset(s, u) ==
  /\ ByAdmin(s)
  /\ Exists(u)
  /\ About(s, "reset", u, NoRow)
  /\ UNCHANGED <<clock, users, rows, tokens, cache, changed>>

(* UpdatePasswordHash updates by name: whatever row has the name now.      *)
ResetPassword(s) ==
  LET u == slots[s].target IN
  /\ slots[s].pc = "reset"
  /\ IF Exists(u)
     THEN /\ users[u].version < MaxVersion
          /\ users' = [users EXCEPT ![u].version = @ + 1]
          /\ RowChanges(u)
     ELSE UNCHANGED <<users, changed>>
  /\ About(s, "invalidate", u, NoRow)
  /\ UNCHANGED <<clock, rows, tokens, cache>>

FindForRole(s, u, role) ==
  /\ ByAdmin(s)
  /\ Exists(u)
  /\ u = Self(s) => role = users[u].role
  /\ About(s, "role", u, [NoRow EXCEPT !.row = users[u].row, !.role = role])
  /\ UNCHANGED <<clock, users, rows, tokens, cache, changed>>

(* UpdateUserRole updates by id, and does not look whether it found a row. *)
UpdateRole(s) ==
  LET u == slots[s].target IN
  /\ slots[s].pc = "role"
  /\ IF users[u].row = slots[s].saw.row
     THEN /\ users[u].version < MaxVersion
          /\ users' = [users EXCEPT ![u].role = slots[s].saw.role, ![u].version = @ + 1]
          /\ RowChanges(u)
     ELSE UNCHANGED <<users, changed>>
  /\ About(s, "invalidate", u, NoRow)
  /\ UNCHANGED <<clock, rows, tokens, cache>>

(* InvalidateUser, and the answer: all of the user's old tokens are dead.  *)
Invalidate(s) ==
  LET u == slots[s].target IN
  /\ slots[s].pc = "invalidate"
  /\ cache' = [cache EXCEPT ![u] = {}]
  /\ Leave(s)
  /\ UNCHANGED <<clock, users, rows, tokens, changed>>

(* A query of a handler fails: the request ends there, before InvalidateUser. *)
QueryFails(s) ==
  /\ slots[s].pc \in {"create", "count", "delete", "reset", "role"}
  /\ Leave(s)
  /\ UNCHANGED <<clock, users, rows, tokens, cache, changed>>

(* The process restarts, wherever its requests are; bootstrap (main.go)    *)
(* creates the configured administrator if the table has none, and gives   *)
(* it the configured password if that is not the one it has.               *)
Restart(differs) ==
  /\ cache' = [u \in Users |-> {}]
  /\ slots' = [s \in Slots |-> IdleSlot]
  /\ \/ /\ ~Exists(Admin)
        /\ rows[Admin] < MaxRows
        /\ users' = [users EXCEPT ![Admin] =
                       [row |-> rows[Admin] + 1, role |-> "admin", version |-> 0]]
        /\ rows' = [rows EXCEPT ![Admin] = @ + 1]
        /\ RowChanges(Admin)
     \/ /\ Exists(Admin) /\ differs
        /\ users[Admin].version < MaxVersion
        /\ users' = [users EXCEPT ![Admin].version = @ + 1]
        /\ RowChanges(Admin)
        /\ UNCHANGED rows
     \/ /\ Exists(Admin) /\ ~differs
        /\ UNCHANGED <<users, rows, changed>>
  /\ UNCHANGED <<clock, tokens>>

(* Time passes, while no request holds a row it has read for too long.     *)
Tick ==
  /\ clock < MaxClock
  /\ \A s \in Slots : slots[s].pc = "read" => clock < slots[s].at + MaxLag
  /\ clock' = clock + 1
  /\ UNCHANGED <<users, rows, tokens, cache, slots, changed>>

Next ==
  \/ \E s \in Slots :
       \/ \E u \in Users : LoginRead(s, u)
       \/ LoginSign(s)
       \/ \E tok \in tokens : Present(s, tok)
       \/ ReadUser(s)
       \/ ReadFails(s)
       \/ StoreUser(s)
       \/ \E u \in Users : CheckName(s, u) \/ FindForDelete(s, u) \/ FindForReset(s, u)
       \/ \E u \in Users, role \in Roles : FindForRole(s, u, role)
       \/ \E role \in Roles : InsertUser(s, role)
       \/ CountUsers(s)
       \/ DeleteUser(s)
       \/ ResetPassword(s)
       \/ UpdateRole(s)
       \/ Invalidate(s)
       \/ QueryFails(s)
  \/ \E differs \in BOOLEAN : Restart(differs)
  \/ Tick

Spec == Init /\ [][Next]_vars
-----------------------------------------------------------------------------
Row == [row : 0..MaxRows, role : Roles, version : 0..MaxVersion]
Entry == [exists : BOOLEAN, version : 0..MaxVersion, at : Nat]

TypeOK ==
  /\ clock \in Nat
  /\ users \in [Users -> Row]
  /\ rows \in [Users -> 0..MaxRows]
  /\ tokens \subseteq Claims
  /\ cache \in [Users -> SUBSET Entry]
  /\ \A u \in Users : /\ \A e, f \in cache[u] : e = f
                      /\ users[u].row \in {0, rows[u]}
  /\ slots \in [Slots ->
       [pc : {"idle", "login", "miss", "read", "granted", "refused", "create",
              "count", "delete", "reset", "role", "invalidate"},
        tok : Claims \cup {NoClaims}, saw : Row, at : Nat,
        target : Users \cup {NoUser}]]
  /\ changed \in [Users -> Nat]

Decided(s) == slots[s].pc \in {"granted", "refused"}

(* Once a user's row has not changed for longer than the cache keeps an    *)
(* entry and a request can hold a row it has read, every verdict of the    *)
(* middleware is the one the table gives: no revoked session outlives that *)
(* time, and no valid one is refused after it (userCacheTTL is checked     *)
(* with <, and the entry is stamped at the store, not at the read).        *)
VerdictsSettle ==
  [][\A s \in Slots :
       LET tok == slots'[s].tok IN
       /\ Decided(s)'
       /\ slots'[s] # slots[s]
       /\ clock - changed[tok.user] >= TTL + MaxLag
       => ((slots'[s].pc = "granted") <=> Current(tok))]_vars

(* A cache entry never grants a token the table refuses, unless the        *)
(* handler that changed the row has yet to clear the entry (users.go on    *)
(* resets: "all its old JWTs fail at once").                               *)
RevokedAtOnce ==
  [][\A s \in Slots :
       /\ slots[s].pc # "read"
       /\ slots'[s].pc = "granted"
       /\ slots'[s] # slots[s]
       => \/ Current(slots'[s].tok)
          \/ \E r \in Slots : /\ slots[r].pc = "invalidate"
                            /\ slots[r].target = slots'[s].tok.user]_vars

(* A token that the table accepts carries the role the table has (users.go *)
(* on role changes: the role in an old token can no longer be trusted).    *)
RoleTrusted ==
  \A tok \in tokens : Current(tok) => tok.role = users[tok.user].role

(* The last user is never deleted (deleteUser's comment).                  *)
SomeUserLeft == \E u \in Users : Exists(u)
=============================================================================
