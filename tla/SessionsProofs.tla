--------------------------- MODULE SessionsProofs ---------------------------
(***************************************************************************)
(* Proofs about Sessions for every value of its constants: its type        *)
(* invariant, and that the verdicts of the middleware settle.              *)
(*                                                                         *)
(* TypeOK is not inductive: that a token names a user needs that a request *)
(* knows its subject at every step, Subjects.  VerdictsSettle needs the    *)
(* age of what is stale: a row a request holds and the table no longer has *)
(* was read before the row changed, and a stale cache entry was stored at  *)
(* most MaxLag after it (Lagging).                                         *)
(***************************************************************************)
EXTENDS Sessions, TLAPS

Slot == [pc : {"idle", "login", "miss", "read", "granted", "refused", "create",
               "count", "delete", "reset", "role", "invalidate"},
         tok : Claims \cup {NoClaims}, saw : Row, at : Nat,
         target : Users \cup {NoUser}]

OnTarget == {"login", "create", "count", "delete", "reset", "role", "invalidate"}
OnToken == {"miss", "read", "granted", "refused"}

Subjects ==
  \A s \in Slots : /\ slots[s].pc \in OnTarget => slots[s].target \in Users
                   /\ slots[s].pc \in OnToken => slots[s].tok \in Claims

(* A row of the table says what was stored or read of it.                  *)
Agrees(row, exists, version) == (exists <=> row.row > 0) /\ version = row.version

CacheLags ==
  \A u \in Users : \A e \in cache[u] :
    /\ e.at <= clock
    /\ Agrees(users[u], e.exists, e.version) \/ e.at <= changed[u] + MaxLag

ReadsLag ==
  \A s \in Slots : slots[s].pc = "read" =>
    LET u == slots[s].tok.user IN
    /\ slots[s].at <= clock /\ clock <= slots[s].at + MaxLag
    /\ \/ Agrees(users[u], slots[s].saw.row > 0, slots[s].saw.version)
       \/ slots[s].at <= changed[u]

Lagging ==
  /\ \A u \in Users : changed[u] <= clock
  /\ CacheLags
  /\ ReadsLag
-----------------------------------------------------------------------------
(* The constant records a slot is filled with have the type of a slot.     *)
LEMMA BlankTypes ==
  /\ NoRow \in Row
  /\ IdleSlot \in Slot
  /\ IdleSlot.pc = "idle"
  BY SessionsAssumption DEF NoRow, Row, IdleSlot, Slot, Roles

(* A request that goes on with r leaves every slot well formed, if r is.   *)
LEMMA SlotStep ==
  ASSUME slots \in [Slots -> Slot], Subjects, NEW s \in Slots, NEW r \in Slot,
         r.pc \in OnTarget => r.target \in Users,
         r.pc \in OnToken => r.tok \in Claims,
         slots' = [slots EXCEPT ![s] = r]
  PROVE  slots' \in [Slots -> Slot] /\ Subjects'
<1>1. \A x \in Slots : slots'[x] = IF x = s THEN r ELSE slots[x]
  OBVIOUS
<1>2. slots' \in [Slots -> Slot]
  OBVIOUS
<1>. QED
  BY <1>1, <1>2 DEF Subjects

(* The ways a request goes on: it leaves, it goes to another pc with what  *)
(* it holds, or its handler turns to a user.                               *)
LEMMA LeaveStep ==
  ASSUME slots \in [Slots -> Slot], Subjects, NEW s \in Slots, Leave(s)
  PROVE  slots' \in [Slots -> Slot] /\ Subjects'
  BY BlankTypes, SlotStep DEF Leave, OnTarget, OnToken

LEMMA GotoStep ==
  ASSUME slots \in [Slots -> Slot], Subjects, NEW s \in Slots,
         NEW pc \in OnTarget, slots[s].pc \in OnTarget, Goto(s, pc)
  PROVE  slots' \in [Slots -> Slot] /\ Subjects'
<1> DEFINE r == [slots[s] EXCEPT !.pc = pc]
<1>1. r \in Slot /\ r.pc = pc /\ r.target = slots[s].target
  BY DEF Slot, OnTarget
<1>2. slots' = [slots EXCEPT ![s] = r]
  BY DEF Goto
<1>3. r.target \in Users /\ r.pc \notin OnToken
  BY <1>1 DEF Subjects, OnTarget, OnToken
<1>. HIDE DEF r
<1>. QED BY <1>1, <1>2, <1>3, SlotStep

LEMMA AboutStep ==
  ASSUME slots \in [Slots -> Slot], Subjects, NEW s \in Slots,
         NEW pc \in OnTarget, NEW u \in Users, NEW held \in Row, About(s, pc, u, held)
  PROVE  slots' \in [Slots -> Slot] /\ Subjects'
<1> DEFINE r == [IdleSlot EXCEPT !.pc = pc, !.target = u, !.saw = held]
<1>1. r \in Slot /\ r.pc = pc /\ r.target = u
  BY BlankTypes DEF Slot, OnTarget
<1>2. slots' = [slots EXCEPT ![s] = r]
  BY DEF About
<1>3. r.pc \notin OnToken
  BY <1>1 DEF OnTarget, OnToken
<1>. HIDE DEF r
<1>. QED BY <1>1, <1>2, <1>3, SlotStep
-----------------------------------------------------------------------------
(* The table, the tokens and the cache are well formed: TypeOK without the *)
(* slots.                                                                  *)
StoreOK ==
  /\ clock \in Nat
  /\ users \in [Users -> Row]
  /\ rows \in [Users -> 0..MaxRows]
  /\ tokens \subseteq Claims
  /\ cache \in [Users -> SUBSET Entry]
  /\ \A u \in Users : /\ \A e, f \in cache[u] : e = f
                      /\ users[u].row \in {0, rows[u]}
  /\ changed \in [Users -> Nat]

LEMMA TypeParts == TypeOK <=> StoreOK /\ slots \in [Slots -> Slot]
  BY DEF TypeOK, StoreOK, Slot

(* Every step keeps the type invariant, and knows its subjects.            *)
LEMMA TypeStep ==
  ASSUME TypeOK, Subjects, [Next]_vars
  PROVE  TypeOK' /\ Subjects'
<1>. USE SessionsAssumption
<1>1. StoreOK /\ slots \in [Slots -> Slot]
  BY TypeParts
<1>2. SUFFICES StoreOK' /\ slots' \in [Slots -> Slot] /\ Subjects'
  BY DEF TypeOK, StoreOK, Slot, Row, Roles, Claims, NoClaims, Entry
<1>3. ASSUME NEW s \in Slots, NEW u \in Users, LoginRead(s, u)
      PROVE  StoreOK' /\ slots' \in [Slots -> Slot] /\ Subjects'
  <2>1. [users[u] EXCEPT !.row = 0] \in Row
    BY <1>1 DEF StoreOK, Row
  <2>. QED BY <1>1, <1>3, <2>1, AboutStep DEF LoginRead, OnTarget, StoreOK
<1>4. ASSUME NEW s \in Slots, LoginSign(s)
      PROVE  StoreOK' /\ slots' \in [Slots -> Slot] /\ Subjects'
  <2>1. slots[s] \in Slot /\ slots[s].target \in Users
    BY <1>1, <1>4 DEF LoginSign, Subjects, OnTarget
  <2>2. tokens' \subseteq Claims
    BY <1>1, <1>4, <2>1 DEF LoginSign, StoreOK, Claims, Slot, Row
  <2>. QED BY <1>1, <1>4, <2>2, LeaveStep DEF LoginSign, StoreOK
<1>5. ASSUME NEW s \in Slots, NEW tok \in tokens, Present(s, tok)
      PROVE  StoreOK' /\ slots' \in [Slots -> Slot] /\ Subjects'
  <2>1. PICK pc \in {"miss", "granted", "refused"} :
          slots' = [slots EXCEPT ![s] = [IdleSlot EXCEPT !.pc = pc, !.tok = tok]]
    BY <1>5 DEF Present
  <2> DEFINE r == [IdleSlot EXCEPT !.pc = pc, !.tok = tok]
  <2>2. r \in Slot /\ r.tok \in Claims /\ r.pc \notin OnTarget
    BY <1>1, BlankTypes DEF Slot, StoreOK, OnTarget
  <2>3. slots' \in [Slots -> Slot] /\ Subjects'
    <3>. HIDE DEF r
    <3>. QED BY <1>1, <2>1, <2>2, SlotStep DEF r
  <2>. QED BY <1>1, <1>5, <2>3 DEF Present, StoreOK
<1>6. ASSUME NEW s \in Slots, ReadUser(s) \/ ReadFails(s)
      PROVE  StoreOK' /\ slots' \in [Slots -> Slot] /\ Subjects'
  <2>1. slots[s] \in Slot /\ slots[s].tok \in Claims /\ slots[s].tok.user \in Users
    BY <1>1, <1>6 DEF ReadUser, ReadFails, Subjects, OnToken, Claims
  <2>2. PICK row \in Row :
          slots' = [slots EXCEPT ![s] = [slots[s] EXCEPT !.pc = "read", !.at = clock, !.saw = row]]
    <3>1. CASE ReadUser(s)
      <4>1. slots' = [slots EXCEPT ![s] = [slots[s] EXCEPT !.pc = "read", !.at = clock,
                                             !.saw = users[slots[s].tok.user]]]
        BY <1>1, <2>1, <3>1 DEF ReadUser
      <4>. QED BY <1>1, <2>1, <4>1 DEF StoreOK
    <3>2. CASE ReadFails(s)
      <4>1. slots' = [slots EXCEPT ![s] =
                        [slots[s] EXCEPT !.pc = "read", !.at = clock, !.saw = slots[s].saw]]
        BY <1>1, <2>1, <3>2 DEF ReadFails, Slot
      <4>. QED BY <2>1, <4>1 DEF Slot
    <3>. QED BY <1>6, <3>1, <3>2
  <2> DEFINE r == [slots[s] EXCEPT !.pc = "read", !.at = clock, !.saw = row]
  <2>3. r \in Slot /\ r.tok \in Claims /\ r.pc \notin OnTarget
    BY <1>1, <2>1 DEF Slot, StoreOK, OnTarget
  <2>4. slots' \in [Slots -> Slot] /\ Subjects'
    <3>. HIDE DEF r
    <3>. QED BY <1>1, <2>2, <2>3, SlotStep DEF r
  <2>. QED BY <1>1, <1>6, <2>1, <2>4 DEF ReadUser, ReadFails, RowChanges, StoreOK
<1>7. ASSUME NEW s \in Slots, StoreUser(s)
      PROVE  StoreOK' /\ slots' \in [Slots -> Slot] /\ Subjects'
  <2> DEFINE tok == slots[s].tok
             e == [exists |-> slots[s].saw.row > 0, version |-> slots[s].saw.version,
                   at |-> clock]
  <2>1. slots[s] \in Slot /\ tok \in Claims /\ tok.user \in Users /\ e \in Entry
    BY <1>1, <1>7 DEF StoreUser, Subjects, OnToken, Claims, Slot, Row, Entry, StoreOK
  <2>2. PICK pc \in {"granted", "refused"} :
          slots' = [slots EXCEPT ![s] = [IdleSlot EXCEPT !.pc = pc, !.tok = tok]]
    BY <1>7 DEF StoreUser
  <2> DEFINE r == [IdleSlot EXCEPT !.pc = pc, !.tok = tok]
  <2>3. r \in Slot /\ r.tok \in Claims /\ r.pc \notin OnTarget
    BY <2>1, BlankTypes DEF Slot, OnTarget
  <2>4. slots' \in [Slots -> Slot] /\ Subjects'
    <3>. HIDE DEF r
    <3>. QED BY <1>1, <2>2, <2>3, SlotStep DEF r
  <2>5. cache' = [cache EXCEPT ![tok.user] = {e}]
    BY <1>7 DEF StoreUser, CacheAs
  <2>6. \A u \in Users : cache'[u] \in {cache[u], {e}}
    <3>. HIDE DEF e
    <3>. QED BY <2>5
  <2>7. cache' \in [Users -> SUBSET Entry]
    <3>. HIDE DEF e
    <3>. QED BY <1>1, <2>1, <2>5 DEF StoreOK
  <2>8. \A u \in Users : \A a, b \in cache'[u] : a = b
    <3>. HIDE DEF e
    <3>. QED BY <1>1, <2>6 DEF StoreOK
  <2>9. UNCHANGED <<clock, users, rows, tokens, changed>>
    BY <1>7 DEF StoreUser
  <2>. QED BY <1>1, <2>4, <2>7, <2>8, <2>9 DEF StoreOK
<1>8. ASSUME NEW s \in Slots, NEW u \in Users,
             CheckName(s, u) \/ FindForDelete(s, u) \/ FindForReset(s, u)
      PROVE  StoreOK' /\ slots' \in [Slots -> Slot] /\ Subjects'
  <2>1. [NoRow EXCEPT !.row = users[u].row] \in Row
    BY <1>1, BlankTypes DEF StoreOK, Row
  <2>. QED BY <1>1, <1>8, <2>1, BlankTypes, AboutStep
         DEF CheckName, FindForDelete, FindForReset, OnTarget, StoreOK
<1>9. ASSUME NEW s \in Slots, NEW u \in Users, NEW role \in Roles, FindForRole(s, u, role)
      PROVE  StoreOK' /\ slots' \in [Slots -> Slot] /\ Subjects'
  <2>1. [NoRow EXCEPT !.row = users[u].row, !.role = role] \in Row
    BY <1>1, BlankTypes DEF StoreOK, Row
  <2>. QED BY <1>1, <1>9, <2>1, AboutStep DEF FindForRole, OnTarget, StoreOK
<1>10. ASSUME NEW s \in Slots, NEW role \in Roles, InsertUser(s, role)
       PROVE  StoreOK' /\ slots' \in [Slots -> Slot] /\ Subjects'
  <2> DEFINE u == slots[s].target
  <2>1. u \in Users
    BY <1>10 DEF InsertUser, Subjects, OnTarget
  <2>2. rows[u] < MaxRows => [row |-> rows[u] + 1, role |-> role, version |-> 0] \in Row
    BY <1>1, <2>1 DEF StoreOK, Row
  <2>3. StoreOK'
    <3>1. CASE Exists(u)
      BY <1>1, <1>10, <3>1 DEF InsertUser, StoreOK
    <3>2. CASE ~Exists(u)
      <4>. HIDE DEF u
      <4>. QED BY <1>1, <1>10, <2>1, <2>2, <3>2 DEF InsertUser, StoreOK, RowChanges, u
    <3>. QED BY <3>1, <3>2
  <2>. QED BY <1>1, <1>10, <2>3, LeaveStep DEF InsertUser
<1>11. ASSUME NEW s \in Slots, CountUsers(s)
       PROVE  StoreOK' /\ slots' \in [Slots -> Slot] /\ Subjects'
  BY <1>1, <1>11, LeaveStep, GotoStep DEF CountUsers, OnTarget, StoreOK
<1>12. ASSUME NEW s \in Slots, DeleteUser(s)
       PROVE  StoreOK' /\ slots' \in [Slots -> Slot] /\ Subjects'
  <2>1. slots[s].target \in Users
    BY <1>12 DEF DeleteUser, Subjects, OnTarget
  <2>2. StoreOK'
    BY <1>1, <1>12, <2>1, BlankTypes DEF DeleteUser, StoreOK, RowChanges, NoRow
  <2>. QED BY <1>1, <1>12, <2>1, <2>2, BlankTypes, LeaveStep, AboutStep
         DEF DeleteUser, OnTarget
<1>13. ASSUME NEW s \in Slots, ResetPassword(s)
       PROVE  StoreOK' /\ slots' \in [Slots -> Slot] /\ Subjects'
  <2>1. slots[s].target \in Users
    BY <1>13 DEF ResetPassword, Subjects, OnTarget
  <2>2. StoreOK'
    <3> DEFINE u == slots[s].target
    <3>1. /\ users[u] \in Row
          /\ users[u].version < MaxVersion => [users[u] EXCEPT !.version = @ + 1] \in Row
      BY <1>1, <2>1 DEF StoreOK, Row
    <3>2. CASE Exists(u)
      <4>1. users' = [users EXCEPT ![u] = [users[u] EXCEPT !.version = @ + 1]]
              /\ users[u].version < MaxVersion
        BY <1>1, <1>13, <2>1, <3>2 DEF ResetPassword, StoreOK
      <4>2. users' \in [Users -> Row]
        BY <1>1, <3>1, <4>1 DEF StoreOK
      <4>3. \A v \in Users : users'[v].row = users[v].row
        BY <1>1, <2>1, <3>1, <4>1 DEF StoreOK, Row
      <4>. QED BY <1>1, <1>13, <3>2, <4>2, <4>3 DEF ResetPassword, StoreOK, RowChanges
    <3>3. CASE ~Exists(u)
      BY <1>1, <1>13, <3>3 DEF ResetPassword, StoreOK
    <3>. QED BY <3>2, <3>3
  <2>. QED BY <1>1, <1>13, <2>1, <2>2, BlankTypes, AboutStep
         DEF ResetPassword, OnTarget
<1>14. ASSUME NEW s \in Slots, UpdateRole(s)
       PROVE  StoreOK' /\ slots' \in [Slots -> Slot] /\ Subjects'
  <2>1. slots[s].target \in Users /\ slots[s].saw \in Row
    BY <1>1, <1>14 DEF UpdateRole, Subjects, OnTarget, Slot
  <2>2. StoreOK'
    BY <1>1, <1>14, <2>1 DEF UpdateRole, StoreOK, RowChanges, Row
  <2>. QED BY <1>1, <1>14, <2>1, <2>2, BlankTypes, AboutStep
         DEF UpdateRole, OnTarget
<1>15. ASSUME NEW s \in Slots, Invalidate(s)
       PROVE  StoreOK' /\ slots' \in [Slots -> Slot] /\ Subjects'
  BY <1>1, <1>15, LeaveStep DEF Invalidate, StoreOK
<1>16. ASSUME NEW s \in Slots, QueryFails(s)
       PROVE  StoreOK' /\ slots' \in [Slots -> Slot] /\ Subjects'
  BY <1>1, <1>16, LeaveStep DEF QueryFails, StoreOK
<1>17. ASSUME NEW differs \in BOOLEAN, Restart(differs)
       PROVE  StoreOK' /\ slots' \in [Slots -> Slot] /\ Subjects'
  <2>1. slots' \in [Slots -> Slot] /\ Subjects'
    BY <1>17, BlankTypes DEF Restart, Subjects, OnTarget, OnToken
  <2>2. StoreOK'
    <3>1. rows[Admin] < MaxRows => [row |-> rows[Admin] + 1, role |-> "admin", version |-> 0] \in Row
      BY <1>1 DEF StoreOK, Row, Roles
    <3>2. cache' \in [Users -> SUBSET Entry] /\ \A u \in Users : cache'[u] = {}
      BY <1>17 DEF Restart
    <3>3. /\ users' \in [Users -> Row] /\ rows' \in [Users -> 0..MaxRows]
          /\ changed' \in [Users -> Nat]
          /\ \A u \in Users : users'[u].row \in {0, rows'[u]}
      <4>1. CASE ~Exists(Admin)
        BY <1>1, <1>17, <3>1, <4>1 DEF Restart, StoreOK, RowChanges
      <4>2. CASE Exists(Admin)
        <5>1. /\ users[Admin] \in Row
              /\ users[Admin].version < MaxVersion
                   => [users[Admin] EXCEPT !.version = @ + 1] \in Row
          BY <1>1 DEF StoreOK, Row
        <5>2. CASE differs
          <6>1. users' = [users EXCEPT ![Admin] = [users[Admin] EXCEPT !.version = @ + 1]]
                  /\ users[Admin].version < MaxVersion
            BY <1>1, <1>17, <4>2, <5>2 DEF Restart, StoreOK
          <6>2. users' \in [Users -> Row]
            BY <1>1, <5>1, <6>1 DEF StoreOK
          <6>3. \A v \in Users : users'[v].row = users[v].row
            BY <1>1, <5>1, <6>1 DEF StoreOK, Row
          <6>. QED BY <1>1, <1>17, <4>2, <5>2, <6>2, <6>3 DEF Restart, StoreOK, RowChanges
        <5>3. CASE ~differs
          BY <1>1, <1>17, <4>2, <5>3 DEF Restart, StoreOK
        <5>. QED BY <5>2, <5>3
      <4>. QED BY <4>1, <4>2
    <3>. QED BY <1>1, <1>17, <3>2, <3>3 DEF Restart, StoreOK
  <2>. QED BY <2>1, <2>2
<1>18. ASSUME Tick
       PROVE  StoreOK' /\ slots' \in [Slots -> Slot] /\ Subjects'
  BY <1>1, <1>18 DEF Tick, StoreOK, Subjects
<1>19. CASE UNCHANGED vars
  BY <1>1, <1>19 DEF vars, StoreOK, Subjects
<1>. QED
  BY <1>3, <1>4, <1>5, <1>6, <1>7, <1>8, <1>9, <1>10, <1>11, <1>12, <1>13, <1>14,
     <1>15, <1>16, <1>17, <1>18, <1>19 DEF Next
-----------------------------------------------------------------------------
LEMMA InitTypes == Init => TypeOK /\ Subjects
<1>. SUFFICES ASSUME Init PROVE TypeOK /\ Subjects
  OBVIOUS
<1>1. users \in [Users -> Row] /\ rows \in [Users -> 0..MaxRows]
  BY SessionsAssumption, BlankTypes DEF Init, Row, Roles
<1>2. \A u \in Users : users[u].row \in {0, rows[u]}
  BY DEF Init, NoRow
<1>. QED
  BY <1>1, <1>2, BlankTypes, TypeParts DEF Init, StoreOK, Subjects, OnTarget, OnToken

(* The type invariant of the specification: tokens name users, a name has  *)
(* one cache entry at most, and an id of a row is the last one given out.  *)
THEOREM TypeCorrect == Spec => []TypeOK
<1>1. Init => TypeOK /\ Subjects
  BY InitTypes
<1>2. TypeOK /\ Subjects /\ [Next]_vars => TypeOK' /\ Subjects'
  BY TypeStep
<1>. QED
  BY <1>1, <1>2, PTL DEF Spec
-----------------------------------------------------------------------------
(* The steps that store and read nothing keep what is stale young: a row   *)
(* changes now, after everything that was stored or read of it.            *)
LEMMA NothingRead ==
  ASSUME TypeOK, Subjects, Lagging, clock' = clock,
         \A u \in Users : cache'[u] \subseteq cache[u],
         \A s \in Slots : slots'[s].pc = "read" => slots'[s] = slots[s],
         \A u \in Users : \/ changed'[u] = clock
                          \/ changed'[u] = changed[u] /\ users'[u] = users[u]
  PROVE  Lagging'
<1>. USE SessionsAssumption
<1>0. /\ clock \in Nat
      /\ \A u \in Users : changed[u] \in Nat /\ \A e \in cache[u] : e.at \in Nat
      /\ \A s \in Slots : slots[s].at \in Nat
  BY TypeParts DEF StoreOK, Entry, Slot
<1>1. \A u \in Users : changed'[u] <= clock'
  BY <1>0 DEF Lagging
<1>2. CacheLags'
  <2>1. ASSUME NEW u \in Users, NEW e \in cache'[u]
        PROVE  /\ e.at <= clock'
               /\ Agrees(users'[u], e.exists, e.version) \/ e.at <= changed'[u] + MaxLag
    <3>1. e \in cache[u] /\ e.at <= clock
      BY <2>1 DEF Lagging, CacheLags
    <3>2. CASE changed'[u] = clock
      BY <1>0, <3>1, <3>2
    <3>3. CASE changed'[u] = changed[u] /\ users'[u] = users[u]
      BY <3>1, <3>3 DEF Lagging, CacheLags
    <3>. QED BY <3>2, <3>3
  <2>. QED BY <2>1 DEF CacheLags
<1>3. ReadsLag'
  <2>1. ASSUME NEW s \in Slots, slots'[s].pc = "read"
        PROVE  LET u == slots'[s].tok.user IN
               /\ slots'[s].at <= clock' /\ clock' <= slots'[s].at + MaxLag
               /\ \/ Agrees(users'[u], slots'[s].saw.row > 0, slots'[s].saw.version)
                  \/ slots'[s].at <= changed'[u]
    <3> DEFINE u == slots[s].tok.user
    <3>1. slots'[s] = slots[s] /\ slots[s].pc = "read" /\ u \in Users
      BY <2>1 DEF Subjects, OnToken, Claims
    <3>2. CASE changed'[u] = clock
      BY <1>0, <3>1, <3>2 DEF Lagging, ReadsLag
    <3>3. CASE changed'[u] = changed[u] /\ users'[u] = users[u]
      BY <2>1, <3>1, <3>3 DEF Lagging, ReadsLag
    <3>. QED BY <3>1, <3>2, <3>3
  <2>. QED BY <2>1 DEF ReadsLag
<1>. QED BY <1>1, <1>2, <1>3 DEF Lagging

(* A request that goes on without a query of the middleware neither holds *)
(* a row nor gets a verdict.                                               *)
LEMMA OutOfRead ==
  ASSUME slots \in [Slots -> Slot], NEW s \in Slots,
         \/ \E pc \in OnTarget : \E v, held : About(s, pc, v, held)
         \/ Leave(s)
         \/ Goto(s, "delete")
  PROVE  \A x \in Slots :
           slots'[x].pc \in {"read", "granted", "refused"} => slots'[x] = slots[x]
<1>1. CASE \E pc \in OnTarget : \E v, held : About(s, pc, v, held)
  BY <1>1 DEF About, IdleSlot, OnTarget
<1>2. CASE Leave(s)
  BY <1>2, BlankTypes DEF Leave
<1>3. CASE Goto(s, "delete")
  BY <1>3 DEF Goto, Slot
<1>. QED BY <1>1, <1>2, <1>3

(* Every step keeps what is stale young.                                   *)
LEMMA LagStep ==
  ASSUME TypeOK, Subjects, Lagging, [Next]_vars
  PROVE  Lagging'
<1>. USE SessionsAssumption
<1>0. StoreOK /\ slots \in [Slots -> Slot]
  BY TypeParts
<1>1. /\ clock \in Nat
      /\ \A u \in Users : changed[u] \in Nat /\ \A e \in cache[u] : e.at \in Nat
      /\ \A s \in Slots : slots[s].at \in Nat
  BY <1>0 DEF StoreOK, Entry, Slot
<1>2. ASSUME NEW s \in Slots, ReadUser(s) \/ ReadFails(s) PROVE Lagging'
  <2> DEFINE u == slots[s].tok.user
  <2>1. u \in Users
    BY <1>2 DEF ReadUser, ReadFails, Subjects, OnToken, Claims
  <2>2. /\ \A v \in Users : changed'[v] \in {changed[v], clock}
        /\ clock' = clock /\ users' = users /\ cache' = cache
    BY <1>0, <1>2 DEF ReadUser, ReadFails, RowChanges, StoreOK
  <2>3. /\ \A r \in Slots \ {s} : slots'[r] = slots[r]
        /\ slots'[s].tok = slots[s].tok /\ slots'[s].at = clock
    BY <1>0, <1>2 DEF ReadUser, ReadFails, Slot
  <2>4. \/ slots'[s].saw = users[u]
        \/ changed'[u] = clock
    BY <1>0, <1>2, <2>1 DEF ReadUser, ReadFails, RowChanges, Slot, StoreOK
  <2>5. (\A v \in Users : changed'[v] <= clock') /\ CacheLags'
    BY <1>1, <2>2 DEF Lagging, CacheLags
  <2>6. ASSUME NEW r \in Slots, slots'[r].pc = "read"
        PROVE  LET v == slots'[r].tok.user IN
               /\ slots'[r].at <= clock' /\ clock' <= slots'[r].at + MaxLag
               /\ \/ Agrees(users'[v], slots'[r].saw.row > 0, slots'[r].saw.version)
                  \/ slots'[r].at <= changed'[v]
    <3>1. CASE r = s
      BY <1>1, <2>2, <2>3, <2>4, <3>1 DEF Agrees
    <3>2. CASE r # s
      <4>1. slots'[r] = slots[r] /\ slots[r].tok.user \in Users
        BY <2>3, <2>6, <3>2 DEF Subjects, OnToken, Claims
      <4>2. slots[r].at <= clock
        BY <2>6, <4>1 DEF Lagging, ReadsLag
      <4>. QED BY <1>1, <2>2, <2>6, <4>1, <4>2 DEF Lagging, ReadsLag
    <3>. QED BY <3>1, <3>2
  <2>. QED BY <2>5, <2>6 DEF Lagging, ReadsLag
<1>3. ASSUME NEW s \in Slots, StoreUser(s) PROVE Lagging'
  <2> DEFINE u == slots[s].tok.user
             e == [exists |-> slots[s].saw.row > 0, version |-> slots[s].saw.version,
                   at |-> clock]
  <2>1. u \in Users /\ slots[s].pc = "read"
    BY <1>3 DEF StoreUser, Subjects, OnToken, Claims
  <2>2. /\ clock' = clock /\ users' = users /\ changed' = changed
        /\ cache' = [cache EXCEPT ![u] = {e}]
        /\ \A r \in Slots : slots'[r].pc = "read" => slots'[r] = slots[r]
    <3>1. slots'[s].pc # "read" /\ \A r \in Slots \ {s} : slots'[r] = slots[r]
      BY <1>0, <1>3, BlankTypes DEF StoreUser, Slot
    <3>. QED BY <1>3, <3>1 DEF StoreUser, CacheAs
  <2>3. e.at <= clock /\ (Agrees(users[u], e.exists, e.version) \/ e.at <= changed[u] + MaxLag)
    BY <1>1, <2>1 DEF Lagging, ReadsLag
  <2>4. CacheLags'
    <3>. HIDE DEF e, u
    <3>1. \A v \in Users : cache'[v] = IF v = u THEN {e} ELSE cache[v]
      BY <1>0, <2>1, <2>2 DEF StoreOK
    <3>. QED BY <2>2, <2>3, <3>1 DEF Lagging, CacheLags
  <2>. QED BY <2>2, <2>4 DEF Lagging, ReadsLag
<1>4. ASSUME Tick PROVE Lagging'
  <2>1. /\ clock' = clock + 1 /\ users' = users /\ changed' = changed
        /\ cache' = cache /\ slots' = slots
        /\ \A s \in Slots : slots[s].pc = "read" => clock < slots[s].at + MaxLag
    BY <1>4 DEF Tick
  <2>2. \A u \in Users : changed'[u] <= clock'
    BY <1>1, <2>1 DEF Lagging
  <2>3. CacheLags'
    BY <1>1, <2>1 DEF Lagging, CacheLags
  <2>4. ReadsLag'
    BY <1>1, <2>1 DEF Lagging, ReadsLag
  <2>. QED BY <2>2, <2>3, <2>4 DEF Lagging
<1>5. ASSUME NEW s \in Slots, \/ \E u \in Users : \/ LoginRead(s, u) \/ CheckName(s, u)
                                                  \/ FindForDelete(s, u)
                                                  \/ FindForReset(s, u)
                              \/ \E u \in Users, role \in Roles : FindForRole(s, u, role)
                              \/ LoginSign(s) \/ CountUsers(s) \/ QueryFails(s)
                              \/ \E tok \in tokens : Present(s, tok)
      PROVE Lagging'
  <2>1. \A x \in Slots : slots'[x].pc = "read" => slots'[x] = slots[x]
    <3>1. CASE \E tok \in tokens : Present(s, tok)
      <4>1. PICK tok \in tokens, pc \in {"miss", "granted", "refused"} :
              slots' = [slots EXCEPT ![s] = [IdleSlot EXCEPT !.pc = pc, !.tok = tok]]
        BY <3>1 DEF Present
      <4>. QED BY <1>0, <4>1 DEF IdleSlot
    <3>2. CASE ~\E tok \in tokens : Present(s, tok)
      BY <1>0, <1>5, <3>2, OutOfRead
         DEF LoginRead, CheckName, FindForDelete, FindForReset, FindForRole,
             LoginSign, CountUsers, QueryFails, OnTarget
    <3>. QED BY <3>1, <3>2
  <2>2. UNCHANGED <<clock, users, cache, changed>>
    BY <1>5 DEF LoginRead, CheckName, FindForDelete, FindForReset, FindForRole,
                LoginSign, CountUsers, QueryFails, Present
  <2>. QED BY <2>1, <2>2, NothingRead
<1>6. ASSUME NEW s \in Slots, NEW role \in Roles, InsertUser(s, role) PROVE Lagging'
  <2>1. slots[s].target \in Users
    BY <1>6 DEF InsertUser, Subjects, OnTarget
  <2>2. \A u \in Users : changed'[u] = clock \/ (changed'[u] = changed[u] /\ users'[u] = users[u])
    BY <1>0, <1>6, <2>1 DEF InsertUser, RowChanges, StoreOK
  <2>. QED BY <1>0, <1>6, <2>2, OutOfRead, NothingRead DEF InsertUser
<1>7. ASSUME NEW s \in Slots, DeleteUser(s) PROVE Lagging'
  <2>1. slots[s].target \in Users
    BY <1>7 DEF DeleteUser, Subjects, OnTarget
  <2>2. \A u \in Users : changed'[u] = clock \/ (changed'[u] = changed[u] /\ users'[u] = users[u])
    BY <1>0, <1>7, <2>1 DEF DeleteUser, RowChanges, StoreOK
  <2>3. \A x \in Slots : slots'[x].pc = "read" => slots'[x] = slots[x]
    BY <1>0, <1>7, OutOfRead DEF DeleteUser, OnTarget
  <2>. QED BY <1>0, <1>7, <2>2, <2>3, NothingRead DEF DeleteUser
<1>8. ASSUME NEW s \in Slots, ResetPassword(s) PROVE Lagging'
  <2>1. slots[s].target \in Users
    BY <1>8 DEF ResetPassword, Subjects, OnTarget
  <2>2. \A u \in Users : changed'[u] = clock \/ (changed'[u] = changed[u] /\ users'[u] = users[u])
    BY <1>0, <1>8, <2>1 DEF ResetPassword, RowChanges, StoreOK
  <2>3. \A x \in Slots : slots'[x].pc = "read" => slots'[x] = slots[x]
    BY <1>0, <1>8, OutOfRead DEF ResetPassword, OnTarget
  <2>. QED BY <1>0, <1>8, <2>2, <2>3, NothingRead DEF ResetPassword
<1>9. ASSUME NEW s \in Slots, UpdateRole(s) PROVE Lagging'
  <2>1. slots[s].target \in Users
    BY <1>9 DEF UpdateRole, Subjects, OnTarget
  <2>2. \A u \in Users : changed'[u] = clock \/ (changed'[u] = changed[u] /\ users'[u] = users[u])
    BY <1>0, <1>9, <2>1 DEF UpdateRole, RowChanges, StoreOK
  <2>3. \A x \in Slots : slots'[x].pc = "read" => slots'[x] = slots[x]
    BY <1>0, <1>9, OutOfRead DEF UpdateRole, OnTarget
  <2>. QED BY <1>0, <1>9, <2>2, <2>3, NothingRead DEF UpdateRole
<1>10. ASSUME NEW s \in Slots, Invalidate(s) PROVE Lagging'
  <2>1. \A u \in Users : cache'[u] \subseteq cache[u]
    BY <1>0, <1>10 DEF Invalidate, StoreOK
  <2>. QED BY <1>0, <1>10, <2>1, OutOfRead, NothingRead DEF Invalidate
<1>11. ASSUME NEW differs \in BOOLEAN, Restart(differs) PROVE Lagging'
  <2>1. \A u \in Users : changed'[u] = clock \/ (changed'[u] = changed[u] /\ users'[u] = users[u])
    BY <1>0, <1>11 DEF Restart, RowChanges, StoreOK
  <2>2. /\ \A u \in Users : cache'[u] \subseteq cache[u]
        /\ \A s \in Slots : slots'[s].pc # "read"
    BY <1>11, BlankTypes DEF Restart
  <2>. QED BY <1>0, <1>11, <2>1, <2>2, NothingRead DEF Restart
<1>12. CASE UNCHANGED vars
  BY <1>12, NothingRead DEF vars
<1>. QED
  BY <1>2, <1>3, <1>4, <1>5, <1>6, <1>7, <1>8, <1>9, <1>10, <1>11, <1>12 DEF Next
-----------------------------------------------------------------------------
(* A new verdict about a row that has been at rest for long enough agrees  *)
(* with the table.                                                         *)
LEMMA VerdictStep ==
  ASSUME TypeOK, Subjects, Lagging, [Next]_vars, NEW s \in Slots,
         Decided(s)', slots'[s] # slots[s],
         clock - changed[slots'[s].tok.user] >= TTL + MaxLag
  PROVE  (slots'[s].pc = "granted") <=> Current(slots'[s].tok)
<1>. USE SessionsAssumption
<1>0. StoreOK /\ slots \in [Slots -> Slot]
  BY TypeParts
<1>1. /\ clock \in Nat
      /\ \A u \in Users : changed[u] \in Nat /\ \A e \in cache[u] : e.at \in Nat
      /\ slots[s].at \in Nat
  BY <1>0 DEF StoreOK, Entry, Slot
<1>2. CASE \E tok \in tokens : Present(s, tok)
  <2>1. PICK tok \in tokens : Present(s, tok)
    BY <1>2
  <2>2. tok \in Claims /\ tok.user \in Users
    BY <1>0 DEF StoreOK, Claims
  <2> DEFINE hits == {e \in cache[tok.user] : Fresh(e)}
             pc == IF hits = {} THEN "miss"
                   ELSE IF \E e \in hits : Accepts(tok, e.exists, e.version)
                   THEN "granted" ELSE "refused"
  <2>3. slots'[s].pc = pc /\ slots'[s].tok = tok
    <3>1. slots' = [slots EXCEPT ![s] = [IdleSlot EXCEPT !.pc = pc, !.tok = tok]]
      BY <2>1 DEF Present
    <3>. HIDE DEF pc
    <3>. QED BY <1>0, <3>1 DEF IdleSlot
  <2>4. \A e \in hits : Agrees(users[tok.user], e.exists, e.version)
    BY <1>1, <2>2, <2>3 DEF Lagging, CacheLags, Fresh
  <2>5. hits # {}
    BY <2>3 DEF Decided
  <2>6. pc = "granted" <=> \E e \in hits : Accepts(tok, e.exists, e.version)
    BY <2>5
  <2>. HIDE DEF pc
  <2>. QED BY <2>3, <2>4, <2>5, <2>6 DEF Agrees, Accepts, Current, Exists
<1>3. CASE StoreUser(s)
  <2> DEFINE tok == slots[s].tok
  <2>1. tok.user \in Users /\ slots[s].pc = "read"
    BY <1>3 DEF StoreUser, Subjects, OnToken, Claims
  <2>2. /\ slots'[s].tok = tok
        /\ slots'[s].pc = IF Accepts(tok, slots[s].saw.row > 0, slots[s].saw.version)
                          THEN "granted" ELSE "refused"
    BY <1>0, <1>3 DEF StoreUser, IdleSlot
  <2>3. Agrees(users[tok.user], slots[s].saw.row > 0, slots[s].saw.version)
    BY <1>1, <2>1, <2>2 DEF Lagging, ReadsLag
  <2>. QED BY <2>2, <2>3 DEF Agrees, Accepts, Current, Exists
<1>4. CASE \E r \in Slots \ {s} : StoreUser(r) \/ ReadUser(r) \/ ReadFails(r)
                                    \/ \E tok \in tokens : Present(r, tok)
  BY <1>0, <1>4 DEF StoreUser, ReadUser, ReadFails, Present
<1>5. CASE ReadUser(s) \/ ReadFails(s)
  BY <1>0, <1>5 DEF ReadUser, ReadFails, Decided, Slot
<1>6. CASE \E r \in Slots :
             \/ \E u \in Users : \/ LoginRead(r, u) \/ CheckName(r, u)
                                 \/ FindForDelete(r, u) \/ FindForReset(r, u)
             \/ \E u \in Users, role \in Roles : FindForRole(r, u, role)
             \/ LoginSign(r) \/ CountUsers(r) \/ QueryFails(r)
  BY <1>0, <1>6, OutOfRead
     DEF LoginRead, CheckName, FindForDelete, FindForReset, FindForRole,
         LoginSign, CountUsers, QueryFails, OnTarget, Decided
<1>7. CASE \E r \in Slots : \/ \E role \in Roles : InsertUser(r, role)
                            \/ DeleteUser(r) \/ ResetPassword(r)
                            \/ UpdateRole(r) \/ Invalidate(r)
  BY <1>0, <1>7, OutOfRead
     DEF InsertUser, DeleteUser, ResetPassword, UpdateRole, Invalidate, OnTarget, Decided
<1>8. CASE \E differs \in BOOLEAN : Restart(differs)
  BY <1>8, BlankTypes DEF Restart, Decided
<1>9. CASE Tick \/ UNCHANGED vars
  BY <1>9 DEF Tick, vars
<1>. QED
  BY <1>2, <1>3, <1>4, <1>5, <1>6, <1>7, <1>8, <1>9 DEF Next

(* Once a row has been at rest for TTL + MaxLag, the middleware's verdict  *)
(* on every token of its user is the one the table gives.                  *)
THEOREM VerdictsDoSettle == Spec => VerdictsSettle
<1>1. Init => TypeOK /\ Subjects /\ Lagging
  <2>. SUFFICES ASSUME Init PROVE TypeOK /\ Subjects /\ Lagging
    OBVIOUS
  <2>1. TypeOK /\ Subjects
    BY InitTypes
  <2>2. Lagging
    BY SessionsAssumption DEF Init, Lagging, CacheLags, ReadsLag, IdleSlot
  <2>. QED BY <2>1, <2>2
<1>2. TypeOK /\ Subjects /\ Lagging /\ [Next]_vars
        => TypeOK' /\ Subjects' /\ Lagging'
  BY TypeStep, LagStep
<1>3. TypeOK /\ Subjects /\ Lagging /\ [Next]_vars
        => [\A s \in Slots :
              LET tok == slots'[s].tok IN
              /\ Decided(s)'
              /\ slots'[s] # slots[s]
              /\ clock - changed[tok.user] >= TTL + MaxLag
              => ((slots'[s].pc = "granted") <=> Current(tok))]_vars
  BY VerdictStep
<1>. QED
  BY <1>1, <1>2, <1>3, PTL DEF Spec, VerdictsSettle
=============================================================================
