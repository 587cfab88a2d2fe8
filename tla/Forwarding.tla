----------------------------- MODULE Forwarding -----------------------------
(***************************************************************************)
(* What the proxy sends to a backend: which rule a request's path selects  *)
(* (internal/proxy/rules.go), how the path is rewritten                    *)
(* (internal/proxy/rewrite.go) and joined to the backend's own, and which  *)
(* addresses the request is logged and forwarded under                     *)
(* (internal/proxy/handler.go).  The rules are read when a request         *)
(* arrives, the rewrites after its body has been read, and an              *)
(* administrator (internal/api/settings.go) replaces one after the other   *)
(* in between.                                                             *)
(*                                                                         *)
(* A path is the sequence of its characters, since rules and rewrites      *)
(* compare characters and what they promise is about segments.  The choice *)
(* among backends without a rule, and what becomes of a request that has   *)
(* been sent, is module Routing's.                                         *)
(***************************************************************************)
EXTENDS Naturals, SequencesExt

CONSTANTS
  Backends,    \* the backends of every list
  BasePath,    \* the path each backend's URL ends in
  AnyBackend,  \* a rewrite that is not limited to one backend
  Tables,      \* what the settings may hold at the start: routes and rewrites
  Saves,       \* what administrators save
  Direct,      \* the requests of clients that connect to the proxy
  Fronted,     \* the requests that come through a reverse proxy in front of it
  NoAddr       \* a header that is not there

Slash == "/"
StartsAtRoot(path) == path # <<>> /\ Head(path) = Slash
IsSequence(s) == s \in Seq(ToSet(s))

(* ValidateRules, of rules on paths, and ValidateRewrites.                 *)
ValidRules(routes) ==
  \A i \in DOMAIN routes : StartsAtRoot(routes[i].value) /\ routes[i].backend \in Backends

ValidRewrites(rewrites) ==
  \A i \in DOMAIN rewrites :
    /\ StartsAtRoot(rewrites[i].prefix) /\ rewrites[i].prefix # <<Slash>>
    /\ rewrites[i].replacement = <<>> \/ StartsAtRoot(rewrites[i].replacement)
    /\ rewrites[i].backend \in Backends \cup {AnyBackend}

(* X-Forwarded-For as it arrives: what the client itself wrote, and the    *)
(* hops that proxies on the way have added (DEPLOYMENT.md:323, where nginx *)
(* adds the address it was called from to what was there).                 *)
Xff(rq) == rq.wrote \o rq.hops

(* A proxy in front names the client: as the first of its hops, or, where  *)
(* none adds any, in X-Real-IP.                                            *)
Introduced(rq) ==
  IF rq.hops = <<>> THEN rq.realIP = rq.origin /\ rq.realIP # NoAddr
  ELSE Head(rq.hops) = rq.origin

ForwardingAssumption ==
  /\ AnyBackend \notin Backends
  /\ \A b \in Backends : IsSequence(BasePath[b])
  /\ \A c \in Tables \cup Saves :
       /\ IsSequence(c.routes) /\ ValidRules(c.routes)
       /\ IsSequence(c.rewrites) /\ ValidRewrites(c.rewrites)
       /\ \A r \in ToSet(c.rewrites) : IsSequence(r.prefix) /\ IsSequence(r.replacement)
  /\ \A rq \in Direct \cup Fronted :
       /\ IsSequence(rq.path) /\ StartsAtRoot(rq.path)
       /\ IsSequence(rq.wrote) /\ rq.hops \in Seq(rq.way)
       /\ {rq.origin, rq.peer} \subseteq rq.way
  /\ \A rq \in Direct : rq.origin = rq.peer /\ rq.hops = <<>>
  /\ \A rq \in Fronted : Introduced(rq)

VARIABLES
  trust,     \* Handler.trustXFF, from config.yaml
  routes,    \* Handler.rules
  rewrites,  \* Handler.rewrites
  updater,   \* updateBackends: what it has still to install
  req,       \* a request: where it is, what it is, and what was sent
  seen       \* history: the rewrites in force since it arrived

vars == <<trust, routes, rewrites, updater, req, seen>>

NoRequest == [pc |-> "none"]

(* Headers are trusted exactly where a reverse proxy stands in front.      *)
Incoming == IF trust THEN Fronted ELSE Direct

Init ==
  /\ trust \in BOOLEAN
  /\ \E c \in Tables : routes = c.routes /\ rewrites = c.rewrites
  /\ updater = {}
  /\ req = NoRequest
  /\ seen = {}
-----------------------------------------------------------------------------
(* RuleMatcher.Match, of a rule on the path: characters, not segments.     *)
RuleFits(rule, path) == IsPrefix(rule.value, path)

Match(path) ==
  LET i == SelectInSeq(routes, LAMBDA rule : RuleFits(rule, path))
  IN IF i = 0 THEN Backends ELSE {routes[i].backend}

(* ServeHTTP, up to the choice of the backend.                             *)
Arrive(rq) ==
  /\ req.pc = "none"
  /\ \E b \in Match(rq.path) : req' = [pc |-> "reading", in |-> rq, backend |-> b]
  /\ seen' = {rewrites}
  /\ UNCHANGED <<trust, routes, rewrites, updater>>

HitsCharacters(r, path) == IsPrefix(r.prefix, path)

(* Rewriter.Apply: the whole path, or up to the end of a segment ...       *)
Hits(r, path) == path = r.prefix \/ IsPrefix(Append(r.prefix, Slash), path)

Concerns(r, b) == r.backend = AnyBackend \/ r.backend = b

(* ... and only the first rule that fits is applied, once.                 *)
Rewrite(path, b) ==
  LET i == SelectInSeq(rewrites, LAMBDA r : Concerns(r, b) /\ Hits(r, path))
  IN IF i = 0 THEN path
     ELSE rewrites[i].replacement \o SubSeq(path, Len(rewrites[i].prefix) + 1, Len(path))

TrimSuffix(path) == IF path # <<>> /\ Last(path) = Slash THEN Front(path) ELSE path
TrimPrefix(path) == IF StartsAtRoot(path) THEN Tail(path) ELSE path

JoinURLPath(base, fwd) ==
  LET to == IF fwd = <<>> THEN <<Slash>> ELSE fwd
  IN IF base \in {<<>>, <<Slash>>} THEN to
     ELSE TrimSuffix(base) \o <<Slash>> \o TrimPrefix(to)

(* clientIP.                                                               *)
ClientIP(rq) ==
  IF trust /\ Xff(rq) # <<>> THEN Head(Xff(rq))
  ELSE IF trust /\ rq.realIP # NoAddr THEN rq.realIP
  ELSE rq.peer

AppendAlways(rq) == Append(Xff(rq), ClientIP(rq))

AppendXFF(rq) == IF trust THEN Append(Xff(rq), ClientIP(rq)) ELSE <<ClientIP(rq)>>

(* httputil.ReverseProxy adds the peer to what the Director has set.       *)
AddHop(xff, rq) == Append(xff, rq.peer)

(* ServeHTTP, after the body has been read.  X-Real-IP stays as it came.   *)
Forward ==
  /\ req.pc = "reading"
  /\ req' = [pc      |-> "sent",
             in      |-> req.in,
             backend |-> req.backend,
             path    |-> JoinURLPath(BasePath[req.backend], Rewrite(req.in.path, req.backend)),
             client  |-> ClientIP(req.in),
             xff     |-> AddHop(AppendXFF(req.in), req.in),
             realIP  |-> req.in.realIP]
  /\ UNCHANGED <<trust, routes, rewrites, updater, seen>>

Answered ==
  /\ req.pc = "sent"
  /\ req' = NoRequest
  /\ seen' = {}
  /\ UNCHANGED <<trust, routes, rewrites, updater>>

(* updateBackends: SetRules, then SetRewrites; requests run in between.    *)
SetRules(c) ==
  /\ updater = {}
  /\ routes' = c.routes
  /\ updater' = {c.rewrites}
  /\ UNCHANGED <<trust, rewrites, req, seen>>

SetRewrites ==
  /\ updater # {}
  /\ rewrites' \in updater
  /\ updater' = {}
  /\ seen' = IF req.pc = "reading" THEN seen \cup updater ELSE seen
  /\ UNCHANGED <<trust, routes, req>>

Next ==
  \/ \E rq \in Incoming : Arrive(rq)
  \/ Forward \/ Answered
  \/ \E c \in Saves : SetRules(c)
  \/ SetRewrites

Spec == Init /\ [][Next]_vars
-----------------------------------------------------------------------------
(* The segments of a path: those of /a/b are the empty one, a and b.       *)
Segments(path) ==
  FoldLeft(LAMBDA done, c : IF c = Slash THEN Append(done, <<>>)
                            ELSE [done EXCEPT ![Len(done)] = Append(@, c)],
           <<<<>>>>, path)

(* Those that a path below this one begins with: a slash at its end, which *)
(* leaves an empty last segment, is the one before the next.               *)
Above(segments) ==
  IF Len(segments) > 1 /\ Last(segments) = <<>> THEN Front(segments) ELSE segments

(* What a table of rewrites means: the first rule for the backend whose    *)
(* segments the path begins with has them replaced by its own.             *)
Meant(table, path, b) ==
  LET of(r) == Segments(r.prefix)
      fits == {i \in DOMAIN table : /\ table[i].backend \in {AnyBackend, b}
                                    /\ IsPrefix(of(table[i]), Segments(path))}
      first == CHOOSE i \in fits : \A j \in fits : i <= j
  IN IF fits = {} THEN Segments(path)
     ELSE Segments(table[first].replacement)
            \o SubSeq(Segments(path), Len(of(table[first])) + 1, Len(Segments(path)))

(* The backend gets the path that the rewrites mean, by segments, below    *)
(* the path of its own URL: /v1 does not touch /v10, no rule is applied to *)
(* another's result, and slashes are neither lost nor doubled at the seam  *)
(* (README.md:30; joinURLPath's comment).  The rewrites are those of one   *)
(* table in force while the request was read, and the only one unless an   *)
(* update crossed it.                                                      *)
ForwardedAsMeant ==
  req.pc = "sent" =>
    \E table \in seen :
      LET meant == Meant(table, req.in.path, req.backend)
      IN Segments(req.path) =
           Above(Segments(BasePath[req.backend]))
             \o (IF meant = <<<<>>>> THEN meant ELSE Tail(meant))

(* The log and the chain of X-Forwarded-For tell the same story of a       *)
(* request: the chain that the backend gets begins with the address that   *)
(* is logged.  That address is the one the request started from, however   *)
(* many trusted proxies have added theirs, unless the client has written a *)
(* chain of its own where the header is trusted.  With trust the backend   *)
(* gets the whole chain that came in, without it nothing of what a client  *)
(* has written (clientIP's and appendXFF's comments), and beyond that only *)
(* addresses the request came through.                                     *)
ChainIsTrue ==
  req.pc = "sent" =>
    LET believed == IF trust THEN req.in.wrote ELSE <<>>
    IN  /\ Head(req.xff) = req.client
        /\ believed = <<>> => req.client = req.in.origin
        /\ trust => IsPrefix(Xff(req.in), req.xff)
        /\ ToSet(req.xff) \subseteq req.in.way \cup ToSet(believed)
-----------------------------------------------------------------------------
(* What the documentation says and the code does not do.                   *)

(* appendXFF's comment: without trust the header is overwritten with the   *)
(* connection's address, that is, the backend gets that address alone.     *)
OverwrittenByPeer == req.pc = "sent" /\ ~trust => req.xff = <<req.in.peer>>

(* DEPLOYMENT.md:337: behind a trusted nginx, with trust, the address that *)
(* is taken from X-Forwarded-For is the client's (clientIP's comment: the  *)
(* first one, the most original source, not to be forged).                 *)
LoggedUnderOrigin == req.pc = "sent" => req.client = req.in.origin

(* ServeHTTP's comment before clientIP, README.md:335: headers that are    *)
(* not trusted do not spread.                                              *)
OnlyOwnRealIP == req.pc = "sent" /\ ~trust => req.realIP \in {NoAddr, req.in.origin}
=============================================================================
