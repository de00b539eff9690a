--------------------------- MODULE MCFrameCache ---------------------------
(* TLC instances of FrameCache: contents of an even name hold both sheets. *)
EXTENDS FrameCache

Sheets == [b \in 0..MaxStamp |-> IF b % 2 = 0 THEN Keys ELSE {CHOOSE k \in Keys : TRUE}]
=============================================================================
