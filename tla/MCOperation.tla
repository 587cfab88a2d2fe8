---------------------------- MODULE MCOperation ----------------------------
(***************************************************************************)
(* Retention: a day of two hours, a process one hour east of UTC, a log    *)
(* table without a limit, and purges that list one or two tables, one of   *)
(* them unknown, or keep nothing.                                          *)
(***************************************************************************)
EXTENDS Operation, Integers, SequencesExt, TLC

CONSTANTS
  l1, a1, a2,                                         \* rows
  b1, b2, client, other, front, edge                 \* backends, addresses

LogOff == [log |-> 0, health |-> 1, audit |-> 1]

MCPurges ==
  {[tables |-> <<"log", "audit">>, keep |-> 1],
   [tables |-> <<"audit", "other">>, keep |-> 1],
   [tables |-> <<"audit">>, keep |-> 0]}
-----------------------------------------------------------------------------
(* Forwarding: the paths of up to four characters that the router lets     *)
(* through, which has removed empty segments.                              *)
Letters == {"a", "b"}
P(s) == <<"/">> \o s
Text(n) == UNION {[1..k -> Letters \cup {"/"}] : k \in 0..n}
CleanPath(p) == \A i \in 1..(Len(p) - 1) : ~(p[i] = "/" /\ p[i + 1] = "/")
MCPaths == {P(t) : t \in {u \in Text(3) : CleanPath(P(u))}}

RulePrefixes == {P(<<"a">>), P(<<"a", "b">>), P(<<"a", "/">>), P(<<"a", "/", "b">>)}
Replacements == {<<>>, P(<<"b">>), P(<<"b", "/">>)}
MCRewrites == [prefix : RulePrefixes, replacement : Replacements, backend : {AnyBackend, b1}]

ToB2 == [routes   |-> <<[value |-> P(<<"a">>), backend |-> b2]>>,
         rewrites |-> <<[prefix |-> P(<<"a">>), replacement |-> <<>>, backend |-> b2]>>]
MCTables == {[routes |-> <<>>, rewrites |-> rs] : rs \in UNION {[1..n -> MCRewrites] : n \in 0..2}}

MCTargets == {b1, b2}
MCSaves == {ToB2}

(* The paths of the backends' URLs: with and without a slash at the end.   *)
MCBasePath == b1 :> <<>> @@ b2 :> P(<<"c", "/">>)

(* A client that connects itself, and may write anything into its headers; *)
(* and through one or two proxies that add the address they were called    *)
(* from, the first of which also sets X-Real-IP.                           *)
FromClient(p, wrote, realIP) ==
  [path |-> p, origin |-> client, peer |-> client, wrote |-> wrote, hops |-> <<>>,
   realIP |-> realIP, way |-> {client}]
ThroughFront(wrote, hops) ==
  [path |-> P(<<"a">>), origin |-> client, peer |-> front, wrote |-> wrote, hops |-> hops,
   realIP |-> client, way |-> {client, front} \cup ToSet(hops)]

MCDirect ==
  {FromClient(p, <<>>, NoAddr) : p \in MCPaths}
    \cup {FromClient(P(<<"a">>), wrote, realIP) :
            wrote \in {<<>>, <<other>>, <<other, front>>}, realIP \in {NoAddr, other}}
MCFronted ==
  {ThroughFront(wrote, hops) : wrote \in {<<>>, <<other>>},
                               hops \in {<<>>, <<client>>, <<client, edge>>}}
-----------------------------------------------------------------------------
(* Queries: two kinds of rows that differ in all that a query tells apart, *)
(* four rows of requests that started at one of two times, a window of one *)
(* of these times, a default page of one row, at most two, and an export   *)
(* of three.                                                               *)
MCKinds ==
  {[match |-> TRUE, class |-> "2xx", dur |-> 1, bucket |-> 0],
   [match |-> FALSE, class |-> "5xx", dur |-> 3, bucket |-> 1]}
=============================================================================
