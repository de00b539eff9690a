--------------------------- MODULE MCAuthLimiter ---------------------------
(* TLC instances of AuthLimiter.                                           *)
EXTENDS AuthLimiter, TLC

AddrSymmetry == Permutations(Emails \ Spaced)
=============================================================================
