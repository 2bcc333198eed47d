--------------------------- MODULE MCMembership ----------------------------
(* The instances of Membership that TLC checks; the bounds are in the cfgs. *)
EXTENDS Membership
=============================================================================
