----------------------------- MODULE MCLicensing -----------------------------
(* Small instances of Licensing for TLC. *)
EXTENDS Licensing, TLC

Symmetry == Permutations(Emails) \union Permutations(Clients)
=============================================================================
