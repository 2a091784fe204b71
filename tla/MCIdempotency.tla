---------------------------- MODULE MCIdempotency ----------------------------
(***************************************************************************)
(* Instances of Idempotency for TLC.                                       *)
(***************************************************************************)
EXTENDS Idempotency, TLC

CONSTANTS c1, c2, c3, c4

\* Three calls with one body, and a fourth that reuses the key for another.
OneReuse == (c1 :> 1) @@ (c2 :> 1) @@ (c3 :> 1) @@ (c4 :> 2)
=============================================================================
