----------------------------- MODULE MCMonitor -----------------------------
(* Small instances of Monitor. *)
EXTENDS Monitor, TLC

CONSTANTS i1, i2, p1, p2

UniquePods == (i1 :> p1) @@ (i2 :> p2)
SharedPod  == (i1 :> p1) @@ (i2 :> p1)
=============================================================================
