--------------------------- MODULE MCShareLedger ---------------------------
(* TLC instances of ShareLedger.                                           *)
EXTENDS ShareLedger, TLC

CONSTANTS c1, v1, v2

\* Two conversations of one chat.
OneChat == v1 :> c1 @@ v2 :> c1
=============================================================================
