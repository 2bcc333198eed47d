---------------------------- MODULE MCEventLoop ----------------------------
(* The instance of EventLoop that TLC checks; the bounds are in the cfg. *)
EXTENDS EventLoop
=============================================================================
