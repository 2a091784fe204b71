------------------------------- MODULE Delivery -------------------------------
(***************************************************************************)
(* What the outbox promises: every committed event is delivered at least   *)
(* once, and no other event ever is.                                       *)
(***************************************************************************)
CONSTANT Events

VARIABLES committed, delivered

vars == <<committed, delivered>>

Init == committed = {} /\ delivered = {}

Commit(e) == e \notin committed /\ committed' = committed \cup {e} /\ UNCHANGED delivered

Deliver(e) ==
    /\ e \in committed \ delivered
    /\ delivered' = delivered \cup {e}
    /\ UNCHANGED committed

Next == \E e \in Events : Commit(e) \/ Deliver(e)

Safe == Init /\ [][Next]_vars

Spec == Safe /\ \A e \in Events : WF_vars(Deliver(e))
===============================================================================
