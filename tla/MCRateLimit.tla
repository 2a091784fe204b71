----------------------------- MODULE MCRateLimit -----------------------------
(***************************************************************************)
(* RateLimit for TLC.  A bucket of two tokens that a tick refills by half  *)
(* a token, and calls that are up to two ticks late: small enough for the  *)
(* bucket to fill, drain and expire within MaxTime ticks.                  *)
(***************************************************************************)
EXTENDS RateLimit
=============================================================================
