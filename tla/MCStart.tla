------------------------------ MODULE MCStart ------------------------------
(***************************************************************************)
(* The two halves of a start: the configuration that is loaded, and the    *)
(* upgrade of the database.  They share no state, so a behaviour takes the *)
(* steps of one of them while the other stays in a state it can be in.     *)
(*                                                                         *)
(* Two accounts and three tokens: a short one and one of 64 characters     *)
(* that the configuration names, and a short one that it does not name.    *)
(***************************************************************************)
EXTENDS Startup, TLC

CONSTANTS
  admin, alice, short, long, extra,                  \* of the database
  u1, strong, strong2, weak                          \* of the configuration

MCUsers == {admin, alice}
MCTokens == {short, long, extra}
MCLong == {long}
MCConfigured == {short, long}

(* Each source sets one name, to something good, bad or empty.             *)
Nothing == [n \in {} |-> Empty]
MCFiles ==
  {NoFile, Broken, Nothing,
   "backends" :> <<u1, Blank>>, "backends" :> <<Blank>>, "backends" :> Empty,
   "rpm" :> 6, "rpm" :> Garbage, "interval" :> 3, "queue" :> -1, "timeout" :> 9,
   "strategy" :> "random", "strategy" :> Empty, "secret" :> weak, "secret" :> strong2}

Usual == "backends" :> <<u1>> @@ "secret" :> strong

MCYamls ==
  {NoFile, Broken, Usual, Usual @@ "strategy" :> "weighted", Usual @@ "rpm" :> 7,
   Usual @@ "timeout" :> 0,
   Usual @@ "strategy" :> "random" @@ "interval" :> 6 @@ "body" :> -1}

MCWeak == {weak}

VARIABLE active   \* the half that takes the steps

startVars == <<vars, active, configVars>>

(* A program that serves, over a database of the latest version.           *)
Served ==
  /\ tables = TRUE /\ cols = Columns /\ accounts = {Admin} /\ adminPw = TRUE
  /\ version = [u \in Users |-> 0]
  /\ rows = {[token |-> t, form |-> "hash", first |-> TRUE] : t \in Configured}
  /\ proc = [Down EXCEPT !.pc = "serving"]
  /\ jwts = {}
  /\ hist = [stops |-> 0, torn |-> FALSE, known |-> {}]

Unread ==
  /\ shell = Nothing /\ dotenv = NoFile /\ local = NoFile /\ yaml = Usual
  /\ C!Start

StartInit ==
  \/ active = "database" /\ Init /\ Unread
  \/ active = "configuration" /\ C!Init /\ Served

OnDatabase(A) == active = "database" /\ A /\ UNCHANGED <<active, configVars>>

StartNext ==
  \/ OnDatabase(Next)
  \/ active = "configuration" /\ C!Next /\ UNCHANGED <<active, vars>>

StartSpec == StartInit /\ [][StartNext]_startVars /\ WF_startVars(OnDatabase(Boot))
=============================================================================
