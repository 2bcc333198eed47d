----------------------------- MODULE MCStorages ----------------------------
(* Storages on a small instance; the bounds are in storages.cfg. *)
EXTENDS Storages
=============================================================================
