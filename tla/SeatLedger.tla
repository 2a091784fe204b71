------------------------------ MODULE SeatLedger ------------------------------
(***************************************************************************)
(* What the seats of a show promise their buyers: a seat has at most one   *)
(* owner, who got it while it was free; nobody but the owner can lose it,  *)
(* and owners lose their seats all at once.  The ledger vouches for a seat *)
(* until it is spoiled.                                                    *)
(***************************************************************************)
CONSTANTS Seats, Bookings, None

VARIABLES
    owner,     \* whose a seat is, None while it is free
    sold,      \* the owned seats that were paid for
    spoiled    \* the seats the ledger no longer speaks about

vars == <<owner, sold, spoiled>>

Owned(b) == {s \in Seats : owner[s] = b}
Free == {s \in Seats : owner[s] = None} \ spoiled

Init == owner = [s \in Seats |-> None] /\ sold = {} /\ spoiled = {}

\* Free seats go to somebody who has none, unpaid.
Take(b, S) ==
    /\ Owned(b) = {} /\ S \subseteq Free
    /\ owner' = [s \in Seats |-> IF s \in S THEN b ELSE owner[s]]
    /\ UNCHANGED <<sold, spoiled>>

\* Free seats go to somebody who pays for them on the spot.
Buy(b, S) ==
    /\ S \subseteq Free
    /\ owner' = [s \in Seats |-> IF s \in S THEN b ELSE owner[s]]
    /\ sold' = sold \cup S
    /\ UNCHANGED spoiled

\* All the seats of b are paid for.
Sell(b) == sold' = sold \cup Owned(b) /\ UNCHANGED <<owner, spoiled>>

\* b loses all its seats; each becomes free or is the only one of a new owner.
GiveUp(b) ==
    /\ \E next \in [Owned(b) -> Bookings \cup {None}] :
        /\ \A s, t \in Owned(b) : next[s] # None =>
            Owned(next[s]) = {} /\ (next[s] = next[t] => s = t)
        /\ owner' = [s \in Seats |-> IF s \in Owned(b) THEN next[s] ELSE owner[s]]
    /\ sold' = sold \ Owned(b)
    /\ UNCHANGED spoiled

Spoil(S) ==
    /\ spoiled' = spoiled \cup S
    /\ owner' = [s \in Seats |-> IF s \in S THEN None ELSE owner[s]]
    /\ sold' = sold \ S

Next ==
    \/ \E b \in Bookings, S \in SUBSET Seats : Take(b, S) \/ Buy(b, S)
    \/ \E b \in Bookings : Sell(b) \/ GiveUp(b)
    \/ \E S \in SUBSET Seats : Spoil(S)

Spec == Init /\ [][Next]_vars
===============================================================================
