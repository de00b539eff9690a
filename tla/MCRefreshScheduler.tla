------------------------- MODULE MCRefreshScheduler -------------------------
(* TLC instance of RefreshScheduler. *)
EXTENDS RefreshScheduler, TLC
CONSTANTS t1, t2
MCFireAt == (Global :> 0) @@ (t1 :> 1) @@ (t2 :> 1)
=============================================================================
