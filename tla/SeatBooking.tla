----------------------------- MODULE SeatBooking -----------------------------
(***************************************************************************)
(* The seats, bookings, payments and waitlist entries of one show, and the *)
(* code that changes them: hold_service, booking_service, waitlist_service,*)
(* the expiry worker and the pay, cancel and webhook endpoints.            *)
(*                                                                         *)
(* One step is one database transaction.  PostgreSQL runs them at READ     *)
(* COMMITTED, so what a request reads before it takes its first row lock   *)
(* may be stale when it writes: the pay and cancel endpoints read the      *)
(* booking without a lock, and the worker reads the offers it is about to  *)
(* expire the same way.  Those reads are steps of their own, and req and   *)
(* snapshot hold what was decided from them.                               *)
(*                                                                         *)
(* The booking an offer creates carries the name of the waitlist entry it  *)
(* was created for: an entry is offered at most once (OfferedOnce).  Which *)
(* waiter of the section gets a seat is left open: the position, and the   *)
(* SKIP LOCKED that may pass over the first one, only narrow the choice.   *)
(***************************************************************************)
EXTENDS Integers, FiniteSets

CONSTANTS
    Seats,      \* the show_seats rows of the show, ordered by id
    Holds,      \* bookings create_hold can make
    Waiters,    \* waitlist entries, and the bookings their offers make
    Wants,      \* Wants[w]: the seats of the section entry w waits for
    Payments,   \* charges the provider can be asked for
    Requests,   \* pay and cancel requests in flight at once
    None        \* no booking

Bookings == Holds \cup Waiters

ASSUME SeatsAreOrdered == Seats \subseteq Nat
ASSUME NamesAreDistinct == Holds \cap Waiters = {} /\ None \notin Bookings
ASSUME WantsAreSeats == Wants \in [Waiters -> SUBSET Seats]

VARIABLES
    seat,        \* show_seats.status
    heldBy,      \* show_seats.held_by_booking_id
    status,      \* bookings.status, "NONE" before the row exists
    bseats,      \* the booking_seats rows of each booking
    lapsed,      \* bookings whose expires_at has passed
    pay,         \* payments.status, "NONE" before the charge and "CHARGED"
                 \*   between the charge and the payments row
    payFor,      \* payments.booking_id
    entry,       \* waitlist_entries.status, "NONE" before the row exists
    req,         \* per request, what it is about to write and to which booking
    snapshot,    \* entries the worker has read as OFFERED and past their TTL
    overwritten  \* history: bookings whose status changed class between the
                 \*   read and the write of a request

vars == <<seat, heldBy, status, bseats, lapsed, pay, payFor, entry, req,
          snapshot, overwritten>>
seatVars == <<seat, heldBy>>
payVars == <<pay, payFor>>

SeatStatus == {"FREE", "HELD", "SOLD"}
Live == {"HELD", "PAYMENT_PENDING"}
BookingStatus == Live \cup {"CONFIRMED", "FAILED", "EXPIRED", "CANCELLED"}
Settled == {"SUCCEEDED", "FAILED", "REFUNDED"}
PaymentStatus == Settled \cup {"PENDING"}
WaitlistStatus == {"WAITING", "OFFERED", "EXPIRED", "CLAIMED"}

(***************************************************************************)
(* What a request has decided to do with the booking it read:              *)
(*   pay         initiate_payment, the booking read as HELD and in time    *)
(*   expire      initiate_payment, the booking read as live and too late   *)
(*   cancelHold  cancel_booking, the booking read as HELD                  *)
(*   cancelSold  cancel_booking, the booking read as CONFIRMED             *)
(***************************************************************************)
Decisions == [op : {"pay", "expire", "cancelHold", "cancelSold"}, bk : Bookings]
Idle == [op |-> "idle", bk |-> None]

TypeOK ==
    /\ seat \in [Seats -> SeatStatus]
    /\ heldBy \in [Seats -> Bookings \cup {None}]
    /\ status \in [Bookings -> BookingStatus \cup {"NONE"}]
    /\ bseats \in [Bookings -> SUBSET Seats]
    /\ lapsed \subseteq Bookings
    /\ pay \in [Payments -> PaymentStatus \cup {"NONE", "CHARGED"}]
    /\ payFor \in [Payments -> Bookings \cup {None}]
    /\ \A p \in Payments : pay[p] # "NONE" => payFor[p] \in Bookings
    /\ entry \in [Waiters -> WaitlistStatus \cup {"NONE"}]
    /\ req \in [Requests -> Decisions \cup {Idle}]
    /\ snapshot \subseteq Waiters
    /\ overwritten \subseteq Bookings

Init ==
    /\ seat = [s \in Seats |-> "FREE"]
    /\ heldBy = [s \in Seats |-> None]
    /\ status = [b \in Bookings |-> "NONE"]
    /\ bseats = [b \in Bookings |-> {}]
    /\ lapsed = {}
    /\ pay = [p \in Payments |-> "NONE"]
    /\ payFor = [p \in Payments |-> None]
    /\ entry = [w \in Waiters |-> "NONE"]
    /\ req = [r \in Requests |-> Idle]
    /\ snapshot = {}
    /\ overwritten = {}

-----------------------------------------------------------------------------
(***************************************************************************)
(* Seats                                                                   *)
(***************************************************************************)

\* The UPDATE of create_hold: all the seats or, after the rollback, none.
Hold(b, S) ==
    /\ status[b] = "NONE"
    /\ \A s \in S : seat[s] = "FREE"
    /\ seat' = [s \in Seats |-> IF s \in S THEN "HELD" ELSE seat[s]]
    /\ heldBy' = [s \in Seats |-> IF s \in S THEN b ELSE heldBy[s]]
    /\ status' = [status EXCEPT ![b] = "HELD"]
    /\ bseats' = [bseats EXCEPT ![b] = S]
    /\ UNCHANGED <<lapsed, payVars, entry, req, snapshot, overwritten>>

\* Mutant: only the first seat of the booking is freed.
FreeFirstSeatOnly(b) ==
    {s \in bseats[b] : heldBy[s] = b /\ \A t \in bseats[b] : s <= t}

\* The seats free_held_seats flips back: those the booking still holds.
FreeHeldSeats(b) == {s \in bseats[b] : heldBy[s] = b}

\* What a request may have flipped back when it commits: the same, but for seats
\* that a late payment has sold to the booking after the request's UPDATE.
FreedByRequest(b) ==
    {F \in SUBSET FreeHeldSeats(b) : \A s \in FreeHeldSeats(b) \ F : seat[s] = "SOLD"}

\* The seats _confirm_booking sells: those the booking still holds.
SellHeldSeats(b) == {s \in bseats[b] : heldBy[s] = b}

\* Mutant: a cancelled ticket goes through free_held_seats.
FreeSoldAsHeld(b) == {s \in bseats[b] : seat[s] = "HELD"}

\* The seats cancel_booking flips back for a CONFIRMED booking: all of them.
FreeSoldSeats(b) == bseats[b]

\* The ways to offer seats of F to the waiters of their section, one each.
Offers(F) ==
    {o \in UNION {[D -> {w \in Waiters : entry[w] = "WAITING"}] : D \in SUBSET F} :
        /\ \A s \in DOMAIN o : s \in Wants[o[s]]
        /\ \A s, t \in DOMAIN o : o[s] = o[t] => s = t}

\* b ends in status st: the seats of F are freed, and those of its seats that
\* are then FREE may be offered, each by a new HELD booking of one seat.
EndBooking(b, F, st) ==
    \E o \in Offers({s \in bseats[b] : s \in F \/ seat[s] = "FREE"}) :
        LET offered == {o[s] : s \in DOMAIN o} IN
        /\ seat' = [s \in Seats |-> IF s \in DOMAIN o THEN "HELD"
                                    ELSE IF s \in F THEN "FREE" ELSE seat[s]]
        /\ heldBy' = [s \in Seats |-> IF s \in DOMAIN o THEN o[s]
                                      ELSE IF s \in F THEN None ELSE heldBy[s]]
        /\ status' = [c \in Bookings |-> IF c \in offered THEN "HELD"
                                         ELSE IF c = b THEN st ELSE status[c]]
        /\ bseats' = [c \in Bookings |-> IF c \in offered
                                         THEN {s \in DOMAIN o : o[s] = c}
                                         ELSE bseats[c]]
        /\ entry' = [w \in Waiters |-> IF w \in offered THEN "OFFERED" ELSE entry[w]]

-----------------------------------------------------------------------------
(***************************************************************************)
(* Pay and cancel: an unlocked read, then a transaction that writes the    *)
(* booking by primary key, whatever its status has become                  *)
(***************************************************************************)

Decide(r, b, o) ==
    /\ req[r] = Idle
    /\ req' = [req EXCEPT ![r] = [op |-> o, bk |-> b]]
    /\ UNCHANGED <<seatVars, status, bseats, lapsed, payVars, entry, snapshot,
                   overwritten>>

PayRead(r, b) ==
    \/ status[b] = "HELD" /\ b \notin lapsed /\ Decide(r, b, "pay")
    \/ status[b] \in Live /\ b \in lapsed /\ Decide(r, b, "expire")

CancelRead(r, b) ==
    \/ status[b] = "HELD" /\ Decide(r, b, "cancelHold")
    \/ status[b] = "CONFIRMED" /\ Decide(r, b, "cancelSold")

\* The request's write is done; note whether it hit a status of another class
\* than the one the request read.
Finish(r) ==
    LET b == req[r].bk
        read == IF req[r].op = "cancelSold" THEN {"CONFIRMED"} ELSE Live
    IN  /\ req' = [req EXCEPT ![r] = Idle]
        /\ overwritten' = overwritten \cup (IF status[b] \in read THEN {} ELSE {b})
        /\ UNCHANGED <<lapsed, snapshot>>

\* initiate_payment commits, and the provider is charged before the next await.
PayCommit(r) ==
    /\ req[r].op = "pay"
    /\ status' = [status EXCEPT ![req[r].bk] = "PAYMENT_PENDING"]
    /\ \E p \in Payments :
        /\ pay[p] = "NONE"
        /\ pay' = [pay EXCEPT ![p] = "CHARGED"]
        /\ payFor' = [payFor EXCEPT ![p] = req[r].bk]
    /\ Finish(r)
    /\ UNCHANGED <<seatVars, bseats, entry>>

\* Mutant: the row is inserted with a status no webhook looks for.
RecordPaymentTimeout(p) ==
    /\ pay[p] = "CHARGED"
    /\ pay' = [pay EXCEPT ![p] = "TIMEOUT"]
    /\ UNCHANGED <<seatVars, status, bseats, lapsed, payFor, entry, req, snapshot,
                   overwritten>>

\* The payments row; until it exists a webhook is answered unknown_provider_ref.
RecordPayment(p) ==
    /\ pay[p] = "CHARGED"
    /\ pay' = [pay EXCEPT ![p] = "PENDING"]
    /\ UNCHANGED <<seatVars, status, bseats, lapsed, payFor, entry, req, snapshot,
                   overwritten>>

LatePayCommit(r) ==
    /\ req[r].op = "expire"
    /\ \E F \in FreedByRequest(req[r].bk) : EndBooking(req[r].bk, F, "EXPIRED")
    /\ Finish(r)
    /\ UNCHANGED payVars

CancelHeldCommit(r) ==
    /\ req[r].op = "cancelHold"
    /\ \E F \in FreedByRequest(req[r].bk) : EndBooking(req[r].bk, F, "CANCELLED")
    /\ Finish(r)
    /\ UNCHANGED payVars

CancelSoldCommit(r) ==
    /\ req[r].op = "cancelSold"
    /\ EndBooking(req[r].bk, FreeSoldSeats(req[r].bk), "CANCELLED")
    /\ Finish(r)
    /\ UNCHANGED payVars

\* The process dies, or the database rolls the transaction back (a deadlock
\* victim, a lost connection), before the commit: nothing was written.
Abort(r) ==
    /\ req[r] # Idle
    /\ req' = [req EXCEPT ![r] = Idle]
    /\ UNCHANGED <<seatVars, status, bseats, lapsed, payVars, entry, snapshot,
                   overwritten>>

-----------------------------------------------------------------------------
(***************************************************************************)
(* The payment webhook: any number of deliveries, each in one transaction  *)
(* that holds the payment row, then the booking row                        *)
(***************************************************************************)

\* Mutant: a second delivery of a success is processed again.
CanSettleTwice(p) == pay[p] \in {"PENDING", "SUCCEEDED"}

\* Every delivery but the first is answered already_processed.
CanSettle(p) == pay[p] = "PENDING"

\* Mutant: the refund is announced, but payments.status keeps the SUCCEEDED it
\* was given before the booking was looked at.
RefundForgotten(p) == pay' = [pay EXCEPT ![p] = "SUCCEEDED"]

\* Mutant: the transaction that refunds is not committed.
RefundNotCommitted(p) == UNCHANGED pay

Refund(p) == pay' = [pay EXCEPT ![p] = "REFUNDED"]

WebhookFailed(p) ==
    LET b == payFor[p] IN
    /\ CanSettle(p)
    /\ pay' = [pay EXCEPT ![p] = "FAILED"]
    /\ IF status[b] = "PAYMENT_PENDING"
       THEN EndBooking(b, FreeHeldSeats(b), "FAILED")
       ELSE UNCHANGED <<seatVars, status, bseats, entry>>
    /\ UNCHANGED <<lapsed, payFor, req, snapshot, overwritten>>

\* Mutant: every open offer is marked, not only those of b's seats.
ConfirmAndClaimAll(b) ==
    /\ status' = [status EXCEPT ![b] = "CONFIRMED"]
    /\ entry' = [w \in Waiters |-> IF entry[w] = "OFFERED" THEN "CLAIMED" ELSE entry[w]]

\* _confirm_booking: b gets its ticket, and every entry that was offered one of
\* its seats is marked CLAIMED.
ConfirmBooking(b) ==
    /\ status' = [status EXCEPT ![b] = "CONFIRMED"]
    /\ entry' = [w \in Waiters |->
                    IF entry[w] = "OFFERED" /\ bseats[w] \cap bseats[b] # {}
                    THEN "CLAIMED" ELSE entry[w]]

WebhookConfirm(p) ==
    LET b == payFor[p] IN
    /\ CanSettle(p)
    /\ status[b] = "PAYMENT_PENDING"
    /\ pay' = [pay EXCEPT ![p] = "SUCCEEDED"]
    /\ seat' = [s \in Seats |-> IF s \in SellHeldSeats(b) THEN "SOLD" ELSE seat[s]]
    /\ ConfirmBooking(b)
    /\ UNCHANGED <<heldBy, bseats, lapsed, payFor, req, snapshot, overwritten>>

\* Mutant: the seats are sold whoever has them now.
ReacquiredBlindly(b) == {bseats[b]}

\* What _try_reacquire_seats may have sold to b: it takes the seats in id order and
\* stops at the first that is not FREE, keeping those it has.  That one may have
\* become FREE by the time of the commit.
Reacquired(b) ==
    {T \in SUBSET bseats[b] :
        \A s \in T : seat[s] = "FREE" /\ \A u \in bseats[b] : u <= s => u \in T}

WebhookLate(p) ==
    LET b == payFor[p] IN
    /\ CanSettle(p)
    /\ status[b] = "EXPIRED"
    /\ \E T \in Reacquired(b) :
        /\ seat' = [s \in Seats |-> IF s \in T THEN "SOLD" ELSE seat[s]]
        /\ heldBy' = [s \in Seats |-> IF s \in T THEN b ELSE heldBy[s]]
        /\ IF T = bseats[b]
           THEN ConfirmBooking(b) /\ pay' = [pay EXCEPT ![p] = "SUCCEEDED"]
           ELSE UNCHANGED <<status, entry>> /\ Refund(p)
    /\ UNCHANGED <<bseats, lapsed, payFor, req, snapshot, overwritten>>

\* The booking is confirmed already, or ended some other way.
WebhookRefund(p) ==
    /\ CanSettle(p)
    /\ status[payFor[p]] \notin {"PAYMENT_PENDING", "EXPIRED"}
    /\ Refund(p)
    /\ UNCHANGED <<seatVars, status, bseats, lapsed, payFor, entry, req, snapshot,
                   overwritten>>

-----------------------------------------------------------------------------
(***************************************************************************)
(* Time, the expiry worker and the waitlist                                *)
(***************************************************************************)

\* expires_at passes.  An offer and the booking made with it lapse together.
Lapse(b) ==
    /\ b \notin lapsed
    /\ \/ status[b] \in Live
       \/ b \in Waiters /\ entry[b] = "OFFERED"
    /\ lapsed' = lapsed \cup {b}
    /\ UNCHANGED <<seatVars, status, bseats, payVars, entry, req, snapshot,
                   overwritten>>

\* Mutant: the status is not looked at again under the lock.
SweepUnchecked(b) ==
    /\ b \in lapsed
    /\ status[b] # "NONE"
    /\ EndBooking(b, FreeHeldSeats(b), "EXPIRED")
    /\ UNCHANGED <<lapsed, payVars, req, snapshot, overwritten>>

\* Mutant: a booking with a payment in flight is left to the webhook.
SweepHeldOnly(b) ==
    /\ b \in lapsed
    /\ status[b] = "HELD"
    /\ EndBooking(b, FreeHeldSeats(b), "EXPIRED")
    /\ UNCHANGED <<lapsed, payVars, req, snapshot, overwritten>>

\* sweep_once locks a candidate and reads it again before it expires it.
Sweep(b) ==
    /\ b \in lapsed
    /\ status[b] \in Live
    /\ EndBooking(b, FreeHeldSeats(b), "EXPIRED")
    /\ UNCHANGED <<lapsed, payVars, req, snapshot, overwritten>>

Join(w) ==
    /\ entry[w] = "NONE"
    /\ entry' = [entry EXCEPT ![w] = "WAITING"]
    /\ UNCHANGED <<seatVars, status, bseats, lapsed, payVars, req, snapshot,
                   overwritten>>

\* Mutant: the offers are read whether their time is up or not.
StaleReadAll ==
    /\ snapshot = {}
    /\ snapshot' = {w \in Waiters : entry[w] = "OFFERED"}
    /\ snapshot' # {}
    /\ UNCHANGED <<seatVars, status, bseats, lapsed, payVars, entry, req,
                   overwritten>>

\* expire_stale_offers reads the stale offers ...
StaleRead ==
    /\ snapshot = {}
    /\ snapshot' = {w \in lapsed \cap Waiters : entry[w] = "OFFERED"}
    /\ snapshot' # {}
    /\ UNCHANGED <<seatVars, status, bseats, lapsed, payVars, entry, req,
                   overwritten>>

\* Mutant: a stale offer goes back to the line.
StaleRequeue ==
    /\ snapshot # {}
    /\ entry' = [w \in Waiters |-> IF w \in snapshot THEN "WAITING" ELSE entry[w]]
    /\ snapshot' = {}
    /\ UNCHANGED <<seatVars, status, bseats, lapsed, payVars, req, overwritten>>

\* Mutant: the session is closed without a commit.
StaleNotCommitted ==
    /\ snapshot # {}
    /\ snapshot' = {}
    /\ UNCHANGED <<seatVars, status, bseats, lapsed, payVars, entry, req, overwritten>>

\* ... and writes them back by primary key.
StaleCommit ==
    /\ snapshot # {}
    /\ entry' = [w \in Waiters |-> IF w \in snapshot THEN "EXPIRED" ELSE entry[w]]
    /\ snapshot' = {}
    /\ UNCHANGED <<seatVars, status, bseats, lapsed, payVars, req, overwritten>>

\* The worker is restarted between the two.
WorkerRestart ==
    /\ snapshot # {}
    /\ snapshot' = {}
    /\ UNCHANGED <<seatVars, status, bseats, lapsed, payVars, entry, req,
                   overwritten>>

-----------------------------------------------------------------------------

RequestStep(r) ==
    \/ \E b \in Bookings : PayRead(r, b) \/ CancelRead(r, b)
    \/ PayCommit(r)
    \/ LatePayCommit(r)
    \/ CancelHeldCommit(r)
    \/ CancelSoldCommit(r)
    \/ Abort(r)

PaymentStep(p) ==
    \/ RecordPayment(p)
    \/ WebhookFailed(p)
    \/ WebhookConfirm(p)
    \/ WebhookLate(p)
    \/ WebhookRefund(p)

Next ==
    \/ \E b \in Holds, S \in (SUBSET Seats) \ {{}} : Hold(b, S)
    \/ \E r \in Requests : RequestStep(r)
    \/ \E p \in Payments : PaymentStep(p)
    \/ \E b \in Bookings : Lapse(b) \/ Sweep(b)
    \/ \E w \in Waiters : Join(w)
    \/ StaleRead
    \/ StaleCommit
    \/ WorkerRestart

Spec == Init /\ [][Next]_vars

\* Time passes and the worker keeps sweeping (run_forever outlives exceptions);
\* it is not killed at the same point of every sweep.  Nothing is assumed of
\* users, of requests in flight or of the provider.
SweepsAreFair(b) == WF_vars(Lapse(b)) /\ WF_vars(Sweep(b))
OffersAreFair == WF_vars(StaleRead) /\ SF_vars(StaleCommit)
FairSpec == Spec /\ OffersAreFair /\ \A b \in Bookings : SweepsAreFair(b)

-----------------------------------------------------------------------------
(***************************************************************************)
(* Safety                                                                  *)
(***************************************************************************)

\* A HELD seat always belongs to a booking that lists it and is still live, so
\* the sweep will reach it, even after a request has overwritten a booking:
\* every path that ends a booking frees its seats (free_held_seats), and the
\* paths that take a seat take it for a live one.
SeatRowsAgree == \A s \in Seats : (seat[s] = "FREE") <=> (heldBy[s] = None)
HeldSeatsAreListed == \A s \in Seats : heldBy[s] # None => s \in bseats[heldBy[s]]
HeldSeatsAreLive == \A s \in Seats : seat[s] = "HELD" => status[heldBy[s]] \in Live
HeldHasLiveBooking == SeatRowsAgree /\ HeldSeatsAreListed /\ HeldSeatsAreLive

\* What refers to a booking refers to an existing one, and an entry has a booking
\* only once it was offered a seat.  The other invariants rest on this one.
RowsExist ==
    /\ \A b \in Bookings : status[b] = "NONE" => bseats[b] = {} /\ b \notin overwritten
    /\ \A r \in Requests : req[r] # Idle => status[req[r].bk] # "NONE"
    /\ \A p \in Payments : pay[p] # "NONE" => status[payFor[p]] # "NONE"
    /\ \A w \in Waiters : entry[w] \in {"NONE", "WAITING"} => status[w] = "NONE"

\* Seats no overwritten booking has ever listed.
CleanSeats == {s \in Seats : \A b \in overwritten : s \notin bseats[b]}

\* Never double-book: a live booking holds each of its seats and a confirmed
\* one owns each of its seats, so that no seat is promised to two bookings.
\* It holds of every seat that is out of reach of a stale pay or cancel, whatever
\* holds, sweeps, late payments and offers compete for it.
NoDoubleBooking ==
    \A b \in Bookings : \A s \in bseats[b] \cap CleanSeats :
        /\ status[b] \in Live => seat[s] = "HELD" /\ heldBy[s] = b
        /\ status[b] = "CONFIRMED" => seat[s] = "SOLD" /\ heldBy[s] = b

\* A ticket is backed by a payment, also after a late payment or two payments.
ConfirmedIsPaid ==
    \A b \in Bookings : status[b] = "CONFIRMED" =>
        \E p \in Payments : pay[p] = "SUCCEEDED" /\ payFor[p] = b

\* handle_webhook keeps the money of a charge only for a ticket (which its owner
\* may cancel afterwards) and refunds every other success, unless a stale
\* request has overwritten the booking.
MoneyHasTicket ==
    \A p \in Payments : pay[p] = "SUCCEEDED" /\ payFor[p] \notin overwritten =>
        status[payFor[p]] \in {"CONFIRMED", "CANCELLED"}

\* handle_webhook refunds a second success: however many charges were started and
\* whatever became of the booking, at most one is kept.  Not so of a booking that a
\* stale pay request has overwritten: confirmed before, it is PAYMENT_PENDING again,
\* and the second charge confirms it once more and is kept as well.
PaidOnce ==
    \A p, q \in Payments :
        /\ pay[p] = "SUCCEEDED" /\ pay[q] = "SUCCEEDED"
        /\ payFor[p] = payFor[q]
        /\ payFor[p] \notin overwritten
        => p = q

\* An entry that has not been offered a seat has no booking: each entry gets at
\* most one offer, ever.
OfferedOnce ==
    \A w \in Waiters : entry[w] \in {"NONE", "WAITING"} =>
        status[w] = "NONE" /\ bseats[w] = {}

\* A waiter who has bought the seat he was offered is CLAIMED, unless the offer had lapsed
\* by then: the worker writes EXPIRED by primary key over entries that may have been
\* CLAIMED since it read them, but over none whose time is not up, and a payment claims
\* the entry of its booking whatever became of the seat in between.
BuyerIsClaimed ==
    \A w \in Waiters : status[w] = "CONFIRMED" => entry[w] = "CLAIMED" \/ w \in lapsed

\* An entry is CLAIMED only after somebody paid for a booking of its seat.
ClaimedIsPaid ==
    \A w \in Waiters : entry[w] = "CLAIMED" =>
        \E p \in Payments : pay[p] = "SUCCEEDED" /\ bseats[payFor[p]] \cap bseats[w] # {}

\* A SOLD seat belongs to a ticket that lists it, but for the two ways the code has
\* to lose one: a late payment that was refunded because another seat of its booking
\* was gone keeps the seats it had taken back (_try_reacquire_seats returns False in
\* the middle of its transaction), and a stale request ends a booking that was paid.
SoldIsExplained ==
    \A s \in Seats : seat[s] = "SOLD" =>
        LET b == heldBy[s] IN
        \/ status[b] = "CONFIRMED" /\ s \in bseats[b]
        \/ status[b] = "EXPIRED" /\ \E p \in Payments : payFor[p] = b /\ pay[p] = "REFUNDED"
        \/ b \in overwritten

\* A payment that has been settled stays as it is: duplicate and late
\* deliveries find it no longer PENDING.
PaymentIsFinal ==
    [][\A p \in Payments : pay[p] \in Settled => pay'[p] = pay[p]]_vars

\* _VALID_TRANSITIONS: what _assert_transition accepts.
ValidTransitions ==
    {<<"HELD", "PAYMENT_PENDING">>, <<"HELD", "EXPIRED">>, <<"HELD", "CANCELLED">>,
     <<"PAYMENT_PENDING", "CONFIRMED">>, <<"PAYMENT_PENDING", "FAILED">>,
     <<"PAYMENT_PENDING", "EXPIRED">>, <<"EXPIRED", "CONFIRMED">>}

\* The edges the code takes on what it has read: those, the insertion of a row, and
\* the cancellation of a ticket, for which cancel_booking does not ask the table.
CodedEdges == ValidTransitions \cup {<<"NONE", "HELD">>, <<"CONFIRMED", "CANCELLED">>}

\* A cancel that read HELD writes CANCELLED over a payment that was begun since: an
\* edge the table rejects, and rejects when the request reads PAYMENT_PENDING.
StaleCancel(b) ==
    /\ status[b] = "PAYMENT_PENDING" /\ status'[b] = "CANCELLED"
    /\ \E r \in Requests : req[r] = [op |-> "cancelHold", bk |-> b] /\ req'[r] = Idle

\* A booking moves along those edges, but for what a stale request writes: a pay or a
\* cancel over a status that has ended or been confirmed since (overwritten), and
\* StaleCancel.
StatusFollowsCode ==
    [][\A b \in Bookings : status'[b] # status[b] /\ b \notin overwritten' =>
           <<status[b], status'[b]>> \in CodedEdges \/ StaleCancel(b)]_vars

\* On the seats no stale request has reached, holds, payments, offers, sweeps and
\* cancellations together implement SeatLedger: a booking never loses a part of its
\* seats, nor any seat to a step of somebody else, and a seat changes hands only free
\* or by the step that ends its booking.
Ledger == INSTANCE SeatLedger WITH
    owner <- [s \in Seats |-> IF s \in CleanSeats THEN heldBy[s] ELSE None],
    sold <- {s \in CleanSeats : seat[s] = "SOLD"},
    spoiled <- Seats \ CleanSeats
ImplementsLedger == Ledger!Spec

\* What is due can be taken: a live booking lapses and is swept, an open offer lapses,
\* is read and written back; one of their guards holds.  The hypothesis of the theorems
\* on HoldsEnd and OffersEnd, because ENABLED is not within the prover's reach.
WorkerNeverStuck ==
    /\ \A b \in Bookings :
        /\ b \notin lapsed /\ status[b] \in Live => ENABLED <<Lapse(b)>>_vars
        /\ b \in lapsed /\ status[b] \in Live => ENABLED <<Sweep(b)>>_vars
    /\ \A w \in Waiters : entry[w] = "OFFERED" =>
        /\ w \notin lapsed => ENABLED <<Lapse(w)>>_vars
        /\ w \in lapsed /\ snapshot = {} => ENABLED <<StaleRead>>_vars
    /\ snapshot # {} => ENABLED <<StaleCommit>>_vars

(***************************************************************************)
(* Liveness, under FairSpec                                                *)
(***************************************************************************)

\* No seat stays HELD by one booking for ever: it is sold or freed.
HoldsEnd ==
    \A s \in Seats, b \in Bookings :
        seat[s] = "HELD" /\ heldBy[s] = b ~> ~(seat[s] = "HELD" /\ heldBy[s] = b)

\* Every offer is claimed or expires.
OffersEnd ==
    \A w \in Waiters : entry[w] = "OFFERED" ~> entry[w] \in {"CLAIMED", "EXPIRED"}

=============================================================================
