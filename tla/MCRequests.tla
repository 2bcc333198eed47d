----------------------------- MODULE MCRequests ----------------------------
(* The instances of Requests that TLC checks; the bounds are in the cfgs. *)
EXTENDS Requests
=============================================================================
