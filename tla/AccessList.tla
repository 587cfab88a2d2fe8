----------------------------- MODULE AccessList -----------------------------
(***************************************************************************)
(* The IP access list of the proxy's entrance (internal/ipacl): a list of  *)
(* refused and a list of admitted addresses and networks, parsed from the  *)
(* settings table, checked and compiled, and asked about every client.     *)
(*                                                                         *)
(* Addresses are numbers: IPv4 has Bits of them, IPv6 one bit more, and    *)
(* the upper half of the IPv6 numbers are the IPv4 addresses in their      *)
(* mapped form (::ffff:a.b.c.d).  An IPv6 address may have a zone, the     *)
(* link it was met on (fe80::1%eth0).  Notes and texts are left out.       *)
(***************************************************************************)
EXTENDS Integers, Sequences, SequencesExt

CONSTANTS Bits,    \* how many bits an IPv4 address has
          Zones,   \* the links of the machine
          NoZone   \* an address without a link

ASSUME AddressAssumption == Bits \in Nat /\ NoZone \notin Zones

Addresses ==
  [is4 : {TRUE}, n : 0..(2^Bits - 1), zone : {NoZone}]
    \cup [is4 : {FALSE}, n : 0..(2 * 2^Bits - 1), zone : Zones \cup {NoZone}]

(* netip's forms of an address: Unmap, and AddrFrom16(As16()).  An IPv4    *)
(* address has no zone, so a mapped one loses it.                          *)
Unmap(a) ==
  IF ~a.is4 /\ a.n >= 2^Bits THEN [is4 |-> TRUE, n |-> a.n - 2^Bits, zone |-> NoZone] ELSE a
Mapped(a) == IF a.is4 THEN [is4 |-> FALSE, n |-> a.n + 2^Bits, zone |-> NoZone] ELSE a

(* An entry is an address, or a network: the address and the length of its *)
(* prefix.  ParsePrefix refuses a network with a zone, and InPrefix (its   *)
(* Contains) every client with one.                                        *)
Single == -1
Entry ==
  [addr : Addresses, len : {Single}] \cup [addr : {a \in Addresses : a.zone = NoZone}, len : Nat]
Size(p) == 2^((IF p.addr.is4 THEN Bits ELSE Bits + 1) - p.len)
InNetwork(p, a) == p.addr.is4 = a.is4 /\ p.addr.n \div Size(p) = a.n \div Size(p)
InPrefix(p, a) == a.zone = NoZone /\ InNetwork(p, a)
-----------------------------------------------------------------------------
(* compileRules: the single addresses in one form, the networks by theirs. *)
CompileRules(entries) ==
  [exact   |-> {Unmap(e.addr) : e \in {f \in ToSet(entries) : f.len = Single}},
   prefix4 |-> {e \in ToSet(entries) : e.len # Single /\ e.addr.is4},
   prefix6 |-> {e \in ToSet(entries) : e.len # Single /\ ~e.addr.is4}]

ListedOwnForm(r, ip) ==
  LET a == Unmap(ip)
  IN  \/ a \in r.exact
      \/ \E p \in r.prefix4 \cup r.prefix6 : InPrefix(p, a)

(* An IPv4 client is also looked for, mapped, in the IPv6 networks.        *)
Listed(r, ip) ==
  LET a == Unmap(ip)
  IN  \/ a \in r.exact
      \/ \E p \in r.prefix4 : InPrefix(p, a)
      \/ \E p \in r.prefix6 : InPrefix(p, Mapped(a))

(* Compile refuses a list as a whole: an entry twice, or no client left.   *)
Compiles(cfg) ==
  /\ cfg.mode \in {"off", "on"} /\ cfg.default \in {"", "allow", "deny"}
  /\ IsInjective(cfg.black) /\ IsInjective(cfg.white)
  /\ ~(cfg.mode = "on" /\ cfg.default = "deny" /\ cfg.white = <<>>)

(* Allowed: off admits all, the black list wins over the white one, and    *)
(* whom neither has is admitted unless the default is to deny.             *)
Allowed(cfg, ip) ==
  \/ cfg.mode # "on"
  \/ /\ ~Listed(CompileRules(cfg.black), ip)
     /\ Listed(CompileRules(cfg.white), ip) \/ cfg.default # "deny"

(* ParseConfig: a row of the old format has one list for both purposes.    *)
IsOld(row) == "entries" \in DOMAIN row
Parse(row) ==
  CASE ~IsOld(row) -> row
    [] IsOld(row) /\ row.mode = "whitelist" ->
         [mode |-> "on", default |-> "deny", black |-> <<>>, white |-> row.entries]
    [] IsOld(row) /\ row.mode = "blacklist" ->
         [mode |-> "on", default |-> "allow", black |-> row.entries, white |-> <<>>]
    [] IsOld(row) /\ row.mode = "off" ->
         [mode |-> "off", default |-> "allow", black |-> <<>>, white |-> <<>>]
    [] OTHER ->
         [mode |-> "off", default |-> "allow", black |-> row.entries, white |-> <<>>]
-----------------------------------------------------------------------------
(* What the lists mean, without forms and compilation: an entry stands for *)
(* a set of clients, each an IPv6 number and the link it is met on.  One   *)
(* address stands for itself, a network for its clients without a link.    *)
Client(a) == <<Mapped(a).n, Unmap(a).zone>>
Meant(entries) ==
  UNION {{Client(a) : a \in {b \in Addresses :
            IF e.len = Single THEN Client(b) = Client(e.addr)
            ELSE InNetwork(e, b) /\ b.zone = NoZone}} : e \in ToSet(entries)}

Clients == {Client(a) : a \in Addresses}
Admitted(cfg) ==
  CASE cfg.mode # "on" -> Clients
    [] cfg.mode = "on" /\ cfg.default = "deny" -> Meant(cfg.white) \ Meant(cfg.black)
    [] OTHER -> Clients \ Meant(cfg.black)
=============================================================================
