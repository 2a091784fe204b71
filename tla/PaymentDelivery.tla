--------------------------- MODULE PaymentDelivery ---------------------------
(***************************************************************************)
(* The charge behind a payment: the mock provider's task, which lives in   *)
(* the API process and posts the outcome to the webhook once, twice or     *)
(* never, and the pay request, which inserts the payments row after it has *)
(* asked for the charge.  Nothing makes the webhook wait for that row, and *)
(* nobody posts a delivery again that was not taken.                       *)
(*                                                                         *)
(* Everything else is SeatBooking: here a webhook comes only from the task *)
(* of its charge, with the outcome the provider has decided on.            *)
(***************************************************************************)
EXTENDS SeatBooking

VARIABLES
    paying,   \* charges whose pay request has still to insert the payments row
    due,      \* deliveries the task of a charge has still to make
    verdict,  \* the status it reports, "NONE" for a charge that times out
    missed    \* history: charges with a delivery that was not made or not taken

taskVars == <<paying, due, verdict, missed>>
deliveryVars == <<vars, taskVars>>

DeliveryInit ==
    /\ Init
    /\ paying = {}
    /\ due = [p \in Payments |-> 0]
    /\ verdict = [p \in Payments |-> "NONE"]
    /\ missed = {}

\* What a charge may come to, and how many deliveries tell of it.
Outcomes == {<<"SUCCEEDED", 1>>, <<"FAILED", 1>>, <<"NONE", 0>>, <<"SUCCEEDED", 2>>}

-----------------------------------------------------------------------------

\* The pay request commits PAYMENT_PENDING and asks for the charge.
Charge(r) ==
    /\ PayCommit(r)
    /\ \E p \in Payments, o \in Outcomes :
        /\ pay'[p] # pay[p]
        /\ paying' = paying \cup {p}
        /\ verdict' = [verdict EXCEPT ![p] = o[1]]
        /\ due' = [due EXCEPT ![p] = o[2]]
        /\ missed' = IF o[2] = 0 THEN missed \cup {p} ELSE missed

Record(p) ==
    /\ p \in paying
    /\ RecordPayment(p)
    /\ paying' = paying \ {p}
    /\ UNCHANGED <<due, verdict, missed>>

\* The row cannot be inserted; the request raises, the task goes on.
RecordFails(p) ==
    /\ p \in paying
    /\ paying' = paying \ {p}
    /\ UNCHANGED <<vars, due, verdict, missed>>

\* Mutant: whatever is not a success is taken for one.
TakenAsSuccess(p) == WebhookConfirm(p) \/ WebhookLate(p) \/ WebhookRefund(p)

\* handle_webhook takes the delivery.
Taken(p) ==
    \/ verdict[p] = "FAILED" /\ WebhookFailed(p)
    \/ verdict[p] = "SUCCEEDED" /\ (WebhookConfirm(p) \/ WebhookLate(p) \/ WebhookRefund(p))

\* A delivery is made.  It is taken or answered already_processed; or it is answered
\* unknown_provider_ref, because there is no row yet, or the transaction fails.  The
\* task looks at no answer, be it an error.
Post(p) ==
    /\ due[p] > 0
    /\ due' = [due EXCEPT ![p] = @ - 1]
    /\ \/ Taken(p) /\ UNCHANGED missed
       \/ pay[p] \in Settled /\ UNCHANGED <<vars, missed>>
       \/ pay[p] \notin Settled /\ missed' = missed \cup {p} /\ UNCHANGED vars
    /\ UNCHANGED <<paying, verdict>>

\* The API is out of reach or does not answer within 5 s: the task ends.  What it has
\* posted before may have been taken.
GiveUp(p) ==
    /\ due[p] > 0
    /\ due' = [due EXCEPT ![p] = 0]
    /\ missed' = missed \cup {p}
    /\ UNCHANGED <<vars, paying, verdict>>

\* The process dies with its tasks.  Its requests have died before it (Abort).
ApiDies ==
    /\ \A r \in Requests : req[r] = Idle
    /\ paying' = {}
    /\ due' = [p \in Payments |-> 0]
    /\ missed' = missed \cup {p \in Payments : due[p] > 0}
    /\ UNCHANGED <<vars, verdict>>

\* The steps of SeatBooking that neither ask for a charge nor come from one.
Elsewhere == Next /\ UNCHANGED payVars

DeliveryNext ==
    \/ \E r \in Requests : Charge(r)
    \/ \E p \in Payments : Record(p) \/ RecordFails(p) \/ Post(p) \/ GiveUp(p)
    \/ ApiDies
    \/ Elsewhere /\ UNCHANGED taskVars

DeliverySpec == DeliveryInit /\ [][DeliveryNext]_deliveryVars

-----------------------------------------------------------------------------

\* What the customer of a booking has paid and not been given back.
Charged(b) ==
    {p \in Payments : payFor[p] = b /\ verdict[p] = "SUCCEEDED" /\ pay[p] # "REFUNDED"}

\* A ticket has been charged for, by a charge the provider has really made.
TicketIsCharged ==
    \A b \in Bookings : status[b] = "CONFIRMED" =>
        \E p \in Charged(b) : pay[p] = "SUCCEEDED"

\* When the provider is done with a booking and none of its deliveries was missed,
\* its customer has paid once for a ticket and nothing for anything else, although
\* charges fail, are reported twice and overlap, and the booking expires or is
\* cancelled in between.  (A ticket's owner who cancels it is not refunded; a stale
\* request may overwrite a paid booking.)
Done(b) == \A p \in Payments : payFor[p] = b => due[p] = 0 /\ p \notin missed
CustomerIsSquare ==
    \A b \in Bookings \ overwritten : Done(b) =>
        /\ \A p, q \in Charged(b) : p = q
        /\ Charged(b) # {} => status[b] \in {"CONFIRMED", "CANCELLED"}
==============================================================================
