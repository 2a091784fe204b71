---------------------------- MODULE MCWaitingRoom ----------------------------
(***************************************************************************)
(* An instance of WaitingRoom for TLC: one user calls three times for the  *)
(* hot show, and once for a show without a waiting room.                   *)
(***************************************************************************)
EXTENDS WaitingRoom, TLC

CONSTANTS c1, c2, c3, c4

Users == (c1 :> 1) @@ (c2 :> 1) @@ (c3 :> 1) @@ (c4 :> 1)
===============================================================================
