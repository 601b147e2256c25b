------------------------------ MODULE MCNotices ------------------------------
(* Small instances of Notices for TLC. *)
EXTENDS Notices

Gratis == [price |-> 0, period |-> 1, warn_days |-> 0, grace |-> 0]
Hard   == [price |-> 1, period |-> 1, warn_days |-> 1, grace |-> 0]
Soft   == [price |-> 1, period |-> 1, warn_days |-> 1, grace |-> 1]

All == {Gratis, Hard, Soft}
=============================================================================
