----------------------------- MODULE MCRouting -----------------------------
EXTENDS Routing, TLC

CONSTANTS b1, b2, r1, tester, customer

Both(w1, w2) == <<[url |-> b1, weight |-> w1], [url |-> b2, weight |-> w2]>>
Only(b) == <<[url |-> b, weight |-> 1]>>
ToTesters(b) == <<[class |-> tester, backend |-> b]>>

(* An even round robin, a rollback of the second backend by weight, and    *)
(* the second backend alone, with testers always sent to it.               *)
MCConfigs ==
  { [list |-> Both(1, 1), strategy |-> "round_robin", rules |-> <<>>],
    [list |-> Both(1, 0), strategy |-> "weighted", rules |-> ToTesters(b2)],
    [list |-> Only(b2), strategy |-> "random", rules |-> <<>>] }
=============================================================================
