------------------------------ MODULE MCOutbox ------------------------------
(***************************************************************************)
(* An instance of Outbox for TLC.                                          *)
(***************************************************************************)
EXTENDS Outbox, TLC

Symmetry == Permutations(Txs)

=============================================================================
