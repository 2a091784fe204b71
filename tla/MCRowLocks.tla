------------------------------ MODULE MCRowLocks ------------------------------
(***************************************************************************)
(* An instance of RowLocks for TLC: a show nobody waits for.               *)
(***************************************************************************)
EXTENDS RowLocks, TLC

NoWants == <<>>

Workers == Sessions \ Requests

Symmetry == Permutations(Holds) \cup Permutations(Payments) \cup Permutations(Workers)
                \cup Permutations(Requests)
===============================================================================
