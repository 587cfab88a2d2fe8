----------------------------- MODULE MCSettings -----------------------------
EXTENDS Settings, TLC

CONSTANTS b1, b2, a1, a2, eth

MCConfig ==
  [backends |-> (b1 :> 1), strategy |-> "round_robin", rules |-> {}, rewrites |-> {},
   ipacl |-> NoList]

(* Weights with a rule that names the idle backend, and a list without     *)
(* weights that leaves the strategy and the rules as they are.             *)
MCBodies ==
  { [backends |-> (b1 :> 1 @@ b2 :> 0), strategy |-> "weighted",
     rules |-> {b2}, rewrites |-> Omitted],
    [backends |-> (b1 :> 0), strategy |-> Omitted,
     rules |-> Omitted, rewrites |-> {b1}] }

V4(x) == [is4 |-> TRUE, n |-> x, zone |-> NoZone]
V6(x) == [is4 |-> FALSE, n |-> x, zone |-> NoZone]
On(a, z) == [a EXCEPT !.zone = z]
Host(a) == [addr |-> a, len |-> Single]
Net(a, l) == [addr |-> a, len |-> l]

(* All clients but one, written in its mapped form, half of an IPv6        *)
(* network that covers the mapped addresses, a network of IPv6 alone and   *)
(* one address on a link; and an illegal list.                             *)
MCLists ==
  { [mode |-> "on", default |-> "allow",
     black |-> <<Host(V6(4)), Net(V6(6), 2), Net(V6(2), 2), Host(On(V6(1), eth))>>, white |-> <<Host(V4(0))>>],
    [mode |-> "on", default |-> "deny", black |-> <<>>, white |-> <<>>] }

(* The old format, for one network of clients, and for none.               *)
MCRows ==
  { [mode |-> "whitelist", entries |-> <<Net(V4(2), 1), Host(V6(1))>>],
    [mode |-> "whitelist", entries |-> <<>>] }

(* Every part can be read, or the rules, or the list, cannot.              *)
MCUnreads == {{}, {"rules"}, {"ipacl"}}

Symm == Permutations(Admins)
=============================================================================
