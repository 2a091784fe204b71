--------------------------- MODULE MCWaitlistLine ---------------------------
(***************************************************************************)
(* An instance of WaitlistLine for TLC.                                    *)
(***************************************************************************)
EXTENDS WaitlistLine, TLC

Symmetry == Permutations(Entries) \cup Permutations(Releases)
=============================================================================
