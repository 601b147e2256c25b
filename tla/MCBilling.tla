------------------------------ MODULE MCBilling ------------------------------
(* Small instances of Billing for TLC. *)
EXTENDS Billing

Basic  == [price |-> 1, period_days |-> 1, grace_days |-> 0]
Soft   == [price |-> 1, period_days |-> 1, grace_days |-> 1]
Costly == [price |-> 2, period_days |-> 1, grace_days |-> 1]

OnlyBasic      == {Basic}
OnlySoft       == {Soft}
BasicAndCostly == {Basic, Costly}
=============================================================================
