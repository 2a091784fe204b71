---------------------------- MODULE WaitlistLine ----------------------------
(***************************************************************************)
(* The line of one section: join_waitlist, and the transactions that free  *)
(* seats and offer them (try_offer_freed_seats, called by cancel, by the   *)
(* webhook, by the sweep and by a late pay).  SeatBooking leaves open who  *)
(* of the line is offered a seat; this is the code that decides it: the    *)
(* position, ORDER BY, and FOR UPDATE SKIP LOCKED while other transactions *)
(* are open, any of which may still be rolled back.                        *)
(*                                                                         *)
(* A statement reads what is committed: status is the committed status.    *)
(* Entries that have left the line stay OFFERED here; that an offer ends,  *)
(* and how, does not concern those who wait.                               *)
(***************************************************************************)
EXTENDS Integers, FiniteSets

CONSTANTS
    Entries,    \* waitlist entries of the section
    Releases,   \* transactions that free seats
    MaxSeats    \* how many seats each of them frees at most

ASSUME EntriesAreFinite == IsFiniteSet(Entries)
ASSUME SomeSeats == MaxSeats \in Nat

VARIABLES
    status,     \* waitlist_entries.status, "JOINING" between the COUNT and the commit
    position,   \* waitlist_entries.position
    tx,         \* the transactions: "open", "committed" or "aborted"
    offers,     \* seats a transaction has yet to offer
    locks,      \* the entries whose rows a transaction has updated
    claimed,    \* those it leaves OFFERED
    ahead,      \* history: who was waiting when an entry joined
    gone,       \* history: who had left the line when an entry joined
    skipped,    \* history: entries passed over because their row was locked
    missed      \* history: entries whose row was locked when a seat found nobody

lineVars == <<status, position, ahead, gone>>
txVars == <<tx, offers, locks, claimed>>
vars == <<lineVars, txVars, skipped, missed>>

TypeOK ==
    /\ status \in [Entries -> {"NONE", "JOINING", "WAITING", "OFFERED"}]
    /\ position \in [Entries -> 0 .. Cardinality(Entries)]
    /\ tx \in [Releases -> {"open", "committed", "aborted"}]
    /\ offers \in [Releases -> 0 .. MaxSeats]
    /\ locks \in [Releases -> SUBSET Entries]
    /\ claimed \in [Releases -> SUBSET Entries]
    /\ ahead \in [Entries -> SUBSET Entries]
    /\ gone \in [Entries -> SUBSET Entries]
    /\ skipped \subseteq Entries
    /\ missed \subseteq Entries

Init ==
    /\ status = [w \in Entries |-> "NONE"]
    /\ position = [w \in Entries |-> 0]
    /\ tx = [r \in Releases |-> "open"]
    /\ offers = [r \in Releases |-> MaxSeats]
    /\ locks = [r \in Releases |-> {}]
    /\ claimed = [r \in Releases |-> {}]
    /\ ahead = [w \in Entries |-> {}]
    /\ gone = [w \in Entries |-> {}]
    /\ skipped = {}
    /\ missed = {}

Waiting == {w \in Entries : status[w] = "WAITING"}
Left == {w \in Entries : status[w] = "OFFERED"}

-----------------------------------------------------------------------------
(***************************************************************************)
(* Joining                                                                 *)
(***************************************************************************)

\* SELECT COUNT(*) ... ; position = count + 1.
Count(w) ==
    /\ status[w] = "NONE"
    /\ status' = [status EXCEPT ![w] = "JOINING"]
    /\ position' = [position EXCEPT ![w] = Cardinality(Waiting) + 1]
    /\ ahead' = [ahead EXCEPT ![w] = Waiting]
    /\ gone' = [gone EXCEPT ![w] = Left]
    /\ UNCHANGED <<txVars, skipped, missed>>

\* The entry is committed.
Insert(w) ==
    /\ status[w] = "JOINING"
    /\ status' = [status EXCEPT ![w] = "WAITING"]
    /\ UNCHANGED <<position, ahead, gone, txVars, skipped, missed>>

-----------------------------------------------------------------------------
(***************************************************************************)
(* Offering                                                                *)
(***************************************************************************)

\* Rows r cannot lock.
LockedByOthers(r) == UNION {locks[q] : q \in Releases \ {r}}

\* Mutant: the sub-select has no FOR UPDATE.
NoRowLock(r) == Waiting \ claimed[r]

\* The rows the sub-select may return: SKIP LOCKED, and r's own updates.
Candidates(r) == Waiting \ (LockedByOthers(r) \cup claimed[r])

\* Mutant: no ORDER BY.
AnyOf(S) == S

\* ORDER BY position LIMIT 1; equal positions come in any order.
First(S) == {w \in S : \A v \in S : position[w] <= position[v]}

\* _offer_seat_to_next_waiter: the seat goes to the first candidate, or has been
\* taken in the meantime (rowcount 0), and then the entry is put back.
Offer(r) ==
    /\ tx[r] = "open"
    /\ offers[r] > 0
    /\ offers' = [offers EXCEPT ![r] = @ - 1]
    /\ \E w \in First(Candidates(r)) :
        /\ locks' = [locks EXCEPT ![r] = @ \cup {w}]
        /\ \/ /\ claimed' = [claimed EXCEPT ![r] = @ \cup {w}]
              /\ skipped' = skipped \cup (Waiting \cap LockedByOthers(r))
           \/ UNCHANGED <<claimed, skipped>>
    /\ UNCHANGED <<lineVars, tx, missed>>

\* Nobody is waiting, or nobody whose row can be locked.
OfferNobody(r) ==
    /\ tx[r] = "open"
    /\ offers[r] > 0
    /\ Candidates(r) = {}
    /\ offers' = [offers EXCEPT ![r] = @ - 1]
    /\ missed' = missed \cup (Waiting \cap LockedByOthers(r))
    /\ UNCHANGED <<lineVars, tx, locks, claimed, skipped>>

\* The caller commits.
Commit(r) ==
    /\ tx[r] = "open"
    /\ tx' = [tx EXCEPT ![r] = "committed"]
    /\ status' = [w \in Entries |-> IF w \in claimed[r] THEN "OFFERED" ELSE status[w]]
    /\ locks' = [locks EXCEPT ![r] = {}]
    /\ UNCHANGED <<position, ahead, gone, offers, claimed, skipped, missed>>

\* The process dies, the database chooses the transaction as a deadlock victim.
Abort(r) ==
    /\ tx[r] = "open"
    /\ tx' = [tx EXCEPT ![r] = "aborted"]
    /\ locks' = [locks EXCEPT ![r] = {}]
    /\ claimed' = [claimed EXCEPT ![r] = {}]
    /\ UNCHANGED <<lineVars, offers, skipped, missed>>

Next ==
    \/ \E w \in Entries : Count(w) \/ Insert(w)
    \/ \E r \in Releases : Offer(r) \/ OfferNobody(r) \/ Commit(r) \/ Abort(r)

Spec == Init /\ [][Next]_vars

-----------------------------------------------------------------------------

\* Exactly once: no entry is claimed by two transactions, open or committed.
ClaimedOnce ==
    \A r, q \in Releases : r # q => claimed[r] \cap claimed[q] = {}

\* What is left of FIFO: somebody who was waiting when b joined is still waiting
\* after b's offer only if others left the line between the two joins (b's position
\* was counted without them) or if its row was locked, by a transaction that was
\* rolled back later, when it was passed over.
FifoWhileNobodyLeaves ==
    \A b \in Left : \A a \in ahead[b] \cap Waiting :
        gone[a] # gone[b] \/ a \in skipped
=============================================================================
