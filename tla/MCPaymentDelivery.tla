-------------------------- MODULE MCPaymentDelivery --------------------------
(***************************************************************************)
(* An instance of PaymentDelivery for TLC: a show nobody waits for.        *)
(***************************************************************************)
EXTENDS PaymentDelivery, TLC

NoWants == <<>>

Symmetry == Permutations(Holds) \cup Permutations(Payments) \cup Permutations(Requests)
==============================================================================
