------------------------------- MODULE MCClick -------------------------------
(* Small instances of Click for TLC. *)
EXTENDS Click

TwoOffers == {[tenant |-> "t1", amount |-> 1], [tenant |-> "t2", amount |-> 2]}
ThreeOffers == TwoOffers \union {[tenant |-> "t1", amount |-> 4]}
=============================================================================
