------------------------------ MODULE MCOenuma ------------------------------
(* Small sets of agents and pods. *)
EXTENDS OenumaProps, TLC

CONSTANTS n1, n2, p1, p2

NetNode == {n1}
TwoPods == {p1, p2}
OnePod == {p1}
NetPolicy == n1 :> "net_affinity"
TwoNodes == {n1, n2}
MixedPolicy == n1 :> "net_affinity" @@ n2 :> "load_balance"
=============================================================================
