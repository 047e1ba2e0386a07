----------------------------- MODULE MCMembership -----------------------------
(* Membership on small instances. *)
EXTENDS Membership

MC_TwoServers == 1..2
=============================================================================
