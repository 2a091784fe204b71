------------------------------- MODULE RowLocks -------------------------------
(***************************************************************************)
(* The transactions of SeatBooking, statement by statement, with the row   *)
(* locks PostgreSQL takes for them.  An UPDATE or SELECT FOR UPDATE waits  *)
(* for the transaction that has locked a row and then looks at the row     *)
(* again (READ COMMITTED); a row its WHERE does not match is not locked.   *)
(* An UPDATE ... WHERE id = ANY(ids) visits the rows in any order.         *)
(*                                                                         *)
(* What a transaction has written is seen by nobody until it commits, and  *)
(* the variables of SeatBooking are what is committed.  A transaction that *)
(* waits in a cycle is rolled back by the database (RollBack).  Nobody     *)
(* waits for the show here; WaitlistLine has the locks of the waitlist.    *)
(***************************************************************************)
EXTENDS SeatBooking

CONSTANT Sessions   \* database sessions; a request runs in its own

ASSUME RequestsHaveSessions == Requests \subseteq Sessions
ASSUME SeatsAreFinite == IsFiniteSet(Seats)

VARIABLE tx         \* the transaction open in each session

lockVars == <<vars, tx>>

(***************************************************************************)
(* The rows a transaction has locked, the seats its UPDATE has still to    *)
(* visit, and what it does: op is "succeeded" or "failed" for a webhook    *)
(* until it has read the booking.                                          *)
(***************************************************************************)
NoTx == [op |-> "none", bk |-> None, pm |-> None, todo |-> {}, locked |-> {}]

SeatRow(s) == <<"seat", s>>
BookingRow(t) == <<"booking", tx[t].bk>>
PaymentRow(t) == <<"payment", tx[t].pm>>

Unlocked(t, row) == \A u \in Sessions \ {t} : row \notin tx[u].locked

Open(t, w) ==
    /\ tx[t] = NoTx
    /\ tx' = [tx EXCEPT ![t] = w]

\* The operations that lock seats before the row of the booking.
SeatsFirst == {"expire", "cancelHold", "cancelSold"}

LockInit == Init /\ tx = [t \in Sessions |-> NoTx]

-----------------------------------------------------------------------------
(***************************************************************************)
(* The first statements                                                    *)
(***************************************************************************)

\* create_hold has inserted its booking and goes through its seats.
BeginHold(t, b, S) ==
    /\ status[b] = "NONE" /\ t \notin Requests
    /\ \A u \in Sessions : tx[u].bk # b
    /\ Open(t, [op |-> "hold", bk |-> b, pm |-> None, todo |-> S, locked |-> {}])
    /\ UNCHANGED vars

\* A delivery for a payment that is recorded.
BeginWebhook(t, p, o) ==
    /\ pay[p] \notin {"NONE", "CHARGED"} /\ t \notin Requests
    /\ Open(t, [op |-> o, bk |-> payFor[p], pm |-> p, todo |-> {}, locked |-> {}])
    /\ UNCHANGED vars

\* sweep_once: FOR UPDATE SKIP LOCKED, and the booking is read again.
BeginSweep(t, b) ==
    /\ b \in lapsed /\ status[b] \in Live /\ t \notin Requests
    /\ Unlocked(t, <<"booking", b>>)
    /\ Open(t, [op |-> "sweep", bk |-> b, pm |-> None, todo |-> bseats[b],
                locked |-> {<<"booking", b>>}])
    /\ UNCHANGED vars

\* pay and cancel have read the booking without a lock, and go on in the session.
BeginRequest(r, b) ==
    /\ PayRead(r, b) \/ CancelRead(r, b)
    /\ Open(r, [op |-> req'[r].op, bk |-> b, pm |-> None, locked |-> {},
                todo |-> IF req'[r].op = "pay" THEN {} ELSE bseats[b]])

-----------------------------------------------------------------------------
(***************************************************************************)
(* The other statements                                                    *)
(***************************************************************************)

\* Mutant: the payment is read without FOR UPDATE.
ReadPayment(t) ==
    /\ tx[t].op \in {"succeeded", "failed"} /\ PaymentRow(t) \notin tx[t].locked
    /\ pay[tx[t].pm] = "PENDING"
    /\ tx' = [tx EXCEPT ![t].locked = {PaymentRow(t)}]
    /\ UNCHANGED vars

\* handle_webhook locks the payment; it goes on only if that is PENDING.
LockPayment(t) ==
    /\ tx[t].op \in {"succeeded", "failed"} /\ PaymentRow(t) \notin tx[t].locked
    /\ Unlocked(t, PaymentRow(t))
    /\ tx' = [tx EXCEPT ![t] = IF pay[@.pm] = "PENDING"
                               THEN [@ EXCEPT !.locked = {PaymentRow(t)}] ELSE NoTx]
    /\ UNCHANGED vars

\* What a webhook does next, once it has read the locked booking.
Settlement(o, st) ==
    IF o = "failed" THEN IF st = "PAYMENT_PENDING" THEN "fail" ELSE "failOnly"
    ELSE IF st = "PAYMENT_PENDING" THEN "confirm"
    ELSE IF st = "EXPIRED" THEN "late" ELSE "refund"

LockBookingOfPayment(t) ==
    /\ tx[t].op \in {"succeeded", "failed"} /\ PaymentRow(t) \in tx[t].locked
    /\ Unlocked(t, BookingRow(t))
    /\ LET o == Settlement(tx[t].op, status[tx[t].bk])
       IN  tx' = [tx EXCEPT ![t].op = o, ![t].locked = @ \cup {BookingRow(t)},
                            ![t].todo = IF o \in {"fail", "confirm", "late"}
                                        THEN bseats[tx[t].bk] ELSE {}]
    /\ UNCHANGED vars

\* Mutant: the seats are visited in the order they were asked for.
SeatsInAnyOrder(t) == tx[t].todo

\* create_hold and _try_reacquire_seats go by id, the other UPDATEs in any order.
NextSeats(t) ==
    {s \in tx[t].todo : tx[t].op \in {"hold", "missed", "late"}
                            => \A u \in tx[t].todo : s <= u}

\* The WHERE of the UPDATE that the transaction is at.
Matches(t, s) ==
    /\ tx[t].op \in {"hold", "missed", "late"} => seat[s] = "FREE"
    /\ tx[t].op \notin {"hold", "missed", "late", "cancelSold"} => heldBy[s] = tx[t].bk

UpdateSeat(t, s) ==
    /\ s \in NextSeats(t)
    /\ Matches(t, s)
    /\ Unlocked(t, SeatRow(s))
    /\ tx' = [tx EXCEPT ![t].todo = @ \ {s}, ![t].locked = @ \cup {SeatRow(s)}]
    /\ UNCHANGED vars

\* The seat is not matched: create_hold notes it and goes on, _try_reacquire_seats
\* returns False.
MissSeat(t, s) ==
    /\ s \in NextSeats(t)
    /\ ~Matches(t, s)
    /\ tx' = [tx EXCEPT ![t].todo = IF tx[t].op = "late" THEN {} ELSE @ \ {s},
                        ![t].op = IF @ = "hold" THEN "missed"
                                  ELSE IF @ = "late" THEN "lost" ELSE @]
    /\ UNCHANGED vars

\* The session writes booking.status with its next flush, by primary key.
LockBookingLast(t) ==
    /\ tx[t].op \in SeatsFirst \cup {"pay"} /\ tx[t].todo = {}
    /\ BookingRow(t) \notin tx[t].locked
    /\ Unlocked(t, BookingRow(t))
    /\ tx' = [tx EXCEPT ![t].locked = @ \cup {BookingRow(t)}]
    /\ UNCHANGED vars

-----------------------------------------------------------------------------
(***************************************************************************)
(* The end                                                                 *)
(***************************************************************************)

\* What a transaction writes into the seats it has locked, the booking and the payment.
SeatTo == [hold |-> "HELD", confirm |-> "SOLD", late |-> "SOLD", lost |-> "SOLD",
           fail |-> "FREE", sweep |-> "FREE", expire |-> "FREE",
           cancelHold |-> "FREE", cancelSold |-> "FREE"]
StatusTo == [hold |-> "HELD", confirm |-> "CONFIRMED", late |-> "CONFIRMED",
             fail |-> "FAILED", sweep |-> "EXPIRED", expire |-> "EXPIRED",
             cancelHold |-> "CANCELLED", cancelSold |-> "CANCELLED",
             pay |-> "PAYMENT_PENDING"]
PayTo == [confirm |-> "SUCCEEDED", late |-> "SUCCEEDED", fail |-> "FAILED",
          failOnly |-> "FAILED", lost |-> "REFUNDED", refund |-> "REFUNDED"]

Mine(t) == {s \in Seats : SeatRow(s) \in tx[t].locked}

Commit(t) ==
    LET o == tx[t].op  b == tx[t].bk IN
    /\ o \notin {"none", "missed"} /\ tx[t].todo = {}
    /\ o = "hold" \/ BookingRow(t) \in tx[t].locked
    /\ seat' = [s \in Seats |-> IF s \in Mine(t) THEN SeatTo[o] ELSE seat[s]]
    /\ heldBy' = [s \in Seats |-> IF s \notin Mine(t) THEN heldBy[s]
                                  ELSE IF SeatTo[o] = "FREE" THEN None ELSE b]
    /\ status' = IF o \in DOMAIN StatusTo THEN [status EXCEPT ![b] = StatusTo[o]] ELSE status
    /\ bseats' = IF o = "hold" THEN [bseats EXCEPT ![b] = Mine(t)] ELSE bseats
    /\ \/ o = "pay" /\ \E p \in Payments :
            /\ pay[p] = "NONE"
            /\ pay' = [pay EXCEPT ![p] = "CHARGED"]
            /\ payFor' = [payFor EXCEPT ![p] = b]
       \/ o # "pay" /\ payFor' = payFor
            /\ pay' = IF o \in DOMAIN PayTo THEN [pay EXCEPT ![tx[t].pm] = PayTo[o]] ELSE pay
    /\ IF t \in Requests THEN Finish(t)
       ELSE UNCHANGED <<req, overwritten, lapsed, snapshot>>
    /\ tx' = [tx EXCEPT ![t] = NoTx]
    /\ UNCHANGED entry

\* create_hold gives up, the database ends a transaction in a cycle, or the process dies.
RollBack(t) ==
    /\ tx[t] # NoTx
    /\ tx' = [tx EXCEPT ![t] = NoTx]
    /\ req' = IF t \in Requests THEN [req EXCEPT ![t] = Idle] ELSE req
    /\ UNCHANGED <<seatVars, status, bseats, lapsed, payVars, entry, snapshot,
                   overwritten>>

SessionStep(t) ==
    \/ \E b \in Holds, S \in (SUBSET Seats) \ {{}} : BeginHold(t, b, S)
    \/ \E p \in Payments, o \in {"succeeded", "failed"} : BeginWebhook(t, p, o)
    \/ \E b \in Bookings : BeginSweep(t, b)
    \/ LockPayment(t) \/ LockBookingOfPayment(t) \/ LockBookingLast(t)
    \/ \E s \in Seats : UpdateSeat(t, s) \/ MissSeat(t, s)
    \/ Commit(t)
    \/ RollBack(t)

LockNext ==
    \/ \E t \in Sessions : SessionStep(t)
    \/ \E r \in Requests, b \in Bookings : BeginRequest(r, b)
    \/ \E p \in Payments : RecordPayment(p) /\ UNCHANGED tx
    \/ \E b \in Bookings : Lapse(b) /\ UNCHANGED tx

LockSpec == LockInit /\ [][LockNext]_lockVars

-----------------------------------------------------------------------------

\* The rows t may be waiting for.
WaitedRows(t) ==
    IF tx[t].todo # {} THEN {SeatRow(s) : s \in {s \in NextSeats(t) : Matches(t, s)}}
    ELSE IF tx[t].op \in {"succeeded", "failed"}
         THEN {IF PaymentRow(t) \in tx[t].locked THEN BookingRow(t) ELSE PaymentRow(t)}
    ELSE IF tx[t].op \in SeatsFirst \cup {"pay"} THEN {BookingRow(t)} ELSE {}

WaitsFor(t, u) == t # u /\ WaitedRows(t) \cap tx[u].locked # {}

\* Holds, webhooks, sweeps and late payments never wait for each other in a cycle,
\* whatever seats they share: every deadlock has a cancel or a pay-time expiry in it,
\* which lock seats first and the booking last.
DeadlockNeedsSeatsFirst ==
    \A D \in (SUBSET Sessions) \ {{}} :
        (\A t \in D : \E u \in D : WaitsFor(t, u)) => \E t \in D : tx[t].op \in SeatsFirst

\* The statements of a transaction, interleaved with those of others, have the
\* effect SeatBooking gives the transaction as one step.
ImplementsSeatBooking == Spec
===============================================================================
