------------------------- MODULE MCAccountSessions -------------------------
(* TLC instances of AccountSessions, with the sets of its configurations.  *)
EXTENDS AccountSessions
=============================================================================
