----------------------------- MODULE MCLogWrapper -----------------------------
(* LogWrapper on a small instance.                                         *)
EXTENDS LogWrapper
=============================================================================
