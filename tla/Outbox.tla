-------------------------------- MODULE Outbox --------------------------------
(***************************************************************************)
(* The outbox (outbox_service, outbox_worker), and what a browser shows    *)
(* from its events (realtime router, useShowSocket, the show's page), for  *)
(* one seat.                                                               *)
(*                                                                         *)
(* A transaction changes the seat and writes its outbox row; the row's     *)
(* created_at is the time the transaction began, which is not when it got  *)
(* the seat's row lock or when it committed.  The worker publishes rows in *)
(* the order of created_at and marks a batch in one commit at its end.     *)
(***************************************************************************)
EXTENDS Integers, FiniteSets

CONSTANTS
    Txs,         \* transactions that change the seat
    Ops,         \* the kinds there are, see To and Shows
    Limit,       \* rows the worker selects at most
    None

ASSUME LimitAssumption == Limit \in Nat \ {0}
ASSUME TxsAreFinite == IsFiniteSet(Txs)
ASSUME OpsAssumption == Ops \subseteq {"hold", "sell", "release", "reoffer"}
ASSUME NoneAssumption == None \notin Txs \cup {"FREE", "HELD", "SOLD"}

VARIABLES
    seat,       \* show_seats.status
    lock,       \* who has the seat's row lock
    pc, op,     \* the transactions
    created,    \* outbox_events.created_at
    pending,    \* rows with published_at NULL
    batch,      \* rows the worker has selected
    todo,       \* those it has not published yet
    fetched,    \* the seat as the page loaded it
    override,   \* seatOverrides of the page, None without one
    sent,       \* history: rows that were published
    missed      \* history: has the page missed an event since it was loaded?

dbVars == <<seat, lock, pc, op, created>>
workerVars == <<batch, todo>>
pageVars == <<fetched, override, missed>>
vars == <<dbVars, pending, workerVars, pageVars, sent>>

SeatStatus == {"FREE", "HELD", "SOLD"}

TypeOK ==
    /\ seat \in SeatStatus
    /\ lock \in Txs \cup {None}
    /\ pc \in [Txs -> {"idle", "begun", "wrote", "committed", "aborted"}]
    /\ op \in [Txs -> Ops \cup {None}]
    /\ created \in [Txs -> Nat]
    /\ pending \subseteq Txs
    /\ batch \subseteq Txs /\ todo \subseteq batch
    /\ fetched \in SeatStatus
    /\ override \in {"FREE", None}
    /\ sent \subseteq Txs
    /\ missed \in BOOLEAN

Init ==
    /\ seat = "FREE" /\ lock = None
    /\ pc = [t \in Txs |-> "idle"]
    /\ op = [t \in Txs |-> None]
    /\ created = [t \in Txs |-> 0]
    /\ pending = {} /\ batch = {} /\ todo = {} /\ sent = {}
    /\ fetched = "FREE" /\ override = None /\ missed = FALSE

-----------------------------------------------------------------------------
(***************************************************************************)
(* Transactions                                                            *)
(***************************************************************************)

\* What a transaction makes of a seat in status s: create_hold, _confirm_booking (also
\* of a late payment, which takes a FREE seat), release_hold or cancel, and the same
\* with an offer to a waiter.  None: it leaves the seat alone.
To(o, s) ==
    CASE o = "hold"    /\ s = "FREE"             -> "HELD"
      [] o = "sell"    /\ s \in {"FREE", "HELD"} -> "SOLD"
      [] o = "release" /\ s \in {"HELD", "SOLD"} -> "FREE"
      [] o = "reoffer" /\ s \in {"HELD", "SOLD"} -> "HELD"
      [] OTHER                                   -> None

\* What its event tells the page, which sets the seats it finds in seat_ids and reads
\* the types it does not know as FREE.  booking.confirmed and waitlist.offered have no
\* seat_ids, and those of booking.held are ids of seats, not of show_seats.
Shows(o) == IF o \in {"release", "reoffer"} THEN "FREE" ELSE None

Open == {t \in Txs : pc[t] \in {"begun", "wrote"}}
Committed == {t \in Txs : pc[t] = "committed"}

Begin(t) ==
    /\ pc[t] = "idle"
    /\ pc' = [pc EXCEPT ![t] = "begun"]
    /\ created' = [created EXCEPT ![t] = 1 + Cardinality({u \in Txs : pc[u] # "idle"})]
    /\ UNCHANGED <<seat, lock, op, pending, workerVars, pageVars, sent>>

\* The UPDATE of the seat, on its committed status and under its row lock.
Write(t) ==
    /\ pc[t] = "begun" /\ lock = None
    /\ \E o \in Ops : To(o, seat) # None /\ op' = [op EXCEPT ![t] = o]
    /\ lock' = t
    /\ pc' = [pc EXCEPT ![t] = "wrote"]
    /\ UNCHANGED <<seat, created, pending, workerVars, pageVars, sent>>

\* The seat and the event are committed together.
Commit(t) ==
    /\ pc[t] = "wrote"
    /\ seat' = To(op[t], seat)
    /\ pending' = pending \cup {t}
    /\ lock' = None
    /\ pc' = [pc EXCEPT ![t] = "committed"]
    /\ UNCHANGED <<op, created, workerVars, pageVars, sent>>

\* Mutant: the event is written in a transaction of its own.
AbortKeepsEvent(t) ==
    /\ t \in Open
    /\ lock' = IF lock = t THEN None ELSE lock
    /\ pc' = [pc EXCEPT ![t] = "aborted"]
    /\ pending' = IF pc[t] = "wrote" THEN pending \cup {t} ELSE pending
    /\ UNCHANGED <<seat, op, created, workerVars, pageVars, sent>>

\* A transaction that is rolled back leaves nothing.
Abort(t) ==
    /\ t \in Open
    /\ lock' = IF lock = t THEN None ELSE lock
    /\ pc' = [pc EXCEPT ![t] = "aborted"]
    /\ op' = [op EXCEPT ![t] = None]
    /\ created' = [created EXCEPT ![t] = 0]
    /\ UNCHANGED <<seat, pending, workerVars, pageVars, sent>>

-----------------------------------------------------------------------------
(***************************************************************************)
(* The worker                                                              *)
(***************************************************************************)

\* ORDER BY created_at LIMIT n.
Oldest(S) == {t \in S : Cardinality({u \in S : created[u] < created[t]}) < Limit}

\* Mutant: the worker remembers the last created_at it has published.
UnpublishedSince == {t \in pending : \A u \in sent : created[u] <= created[t]}

\* WHERE published_at IS NULL
Unpublished == pending

\* Mutant: the rows are marked when they are selected.
SelectAndMark ==
    /\ batch = {}
    /\ batch' = Oldest(Unpublished) /\ todo' = batch' /\ batch' # {}
    /\ pending' = pending \ batch'
    /\ UNCHANGED <<dbVars, pageVars, sent>>

Select ==
    /\ batch = {}
    /\ batch' = Oldest(Unpublished) /\ todo' = batch' /\ batch' # {}
    /\ UNCHANGED <<dbVars, pending, pageVars, sent>>

NextUp(t) == t \in todo /\ \A u \in todo : created[t] <= created[u]

\* The event is published; the page applies it if it tells something, or misses it
\* because its socket is closed, or closes and opens again (publish keeps nothing).
Publish(t) ==
    /\ NextUp(t)
    /\ todo' = todo \ {t}
    /\ sent' = sent \cup {t}
    /\ \/ /\ override' = IF Shows(op[t]) # None THEN Shows(op[t]) ELSE override
          /\ UNCHANGED missed
       \/ /\ missed' = TRUE
          /\ UNCHANGED override
    /\ UNCHANGED <<dbVars, pending, batch, fetched>>

\* session.commit(): the batch gets its published_at.
Mark ==
    /\ batch # {} /\ todo = {}
    /\ pending' = pending \ batch
    /\ batch' = {}
    /\ UNCHANGED <<dbVars, todo, pageVars, sent>>

\* The worker dies, or Redis does and the exception ends the drain.
Crash ==
    /\ batch # {}
    /\ batch' = {} /\ todo' = {}
    /\ UNCHANGED <<dbVars, pending, pageVars, sent>>

\* The page is loaded.
Load ==
    /\ fetched' = seat
    /\ override' = None
    /\ missed' = FALSE
    /\ UNCHANGED <<dbVars, pending, workerVars, sent>>

\* Its query is run again, after a hold was refused or when the window gets the focus.
Refetch ==
    /\ fetched' = seat
    /\ UNCHANGED <<dbVars, pending, workerVars, override, missed, sent>>

-----------------------------------------------------------------------------

Worker == Select \/ (\E t \in Txs : Publish(t)) \/ Mark \/ Crash

Next ==
    \/ \E t \in Txs : Begin(t) \/ Write(t) \/ Commit(t) \/ Abort(t)
    \/ Worker
    \/ Load \/ Refetch

Spec == Init /\ [][Next]_vars

\* The worker drains again and again, and is not stopped at the same event of every
\* batch for ever.
FairSpec ==
    /\ Spec
    /\ WF_vars(Select)
    /\ \A t \in Txs : SF_vars(Publish(t))
    /\ SF_vars(Mark)

-----------------------------------------------------------------------------

\* The promise of the outbox, liveness included: at least once, and only what was
\* committed, though transactions overlap and the worker may die at any point.
D == INSTANCE Delivery WITH Events <- Txs, committed <- Committed, delivered <- sent
DeliversAtLeastOnce == D!Spec
DeliversOnlyCommitted == D!Safe

\* A row that is marked as published has been.
NoEventIsLost == Committed \subseteq pending \cup sent

\* What the page shows.
Shown == IF override = None THEN fetched ELSE override

\* Once every transaction has ended and the worker has caught up, a page that has not
\* missed an event since it was loaded shows a free seat as FREE, whatever overlapped, was published twice
\* or late, and whenever the page was loaded.
Settled == Open = {} /\ pending = {} /\ batch = {}
FreeSeatIsShown == Settled /\ ~missed => (seat = "FREE" => Shown = "FREE")
===============================================================================
