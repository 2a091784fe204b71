---------------------------- MODULE MCSeatBooking ----------------------------
(***************************************************************************)
(* Instances of SeatBooking for TLC, and what the repository says of the   *)
(* program that its code does not keep.                                    *)
(***************************************************************************)
EXTENDS SeatBooking, TLC

\* No waitlist.
NoWants == <<>>

\* Each of two waiters waits for a section of one seat.
CONSTANTS w1, w2
OneSectionEach == (w1 :> {1}) @@ (w2 :> {2})

RaceSymmetry == Permutations(Holds) \cup Permutations(Payments)
                    \cup Permutations(Requests)

\* check-double-bookings.sql:4, "No show_seat should have more than one CONFIRMED
\* booking_seats row": a pay request that read its booking before it expired
\* brings it back to PAYMENT_PENDING after its seats went to somebody else.
OneTicketPerSeat ==
    \A b, c \in Bookings :
        status[b] = "CONFIRMED" /\ status[c] = "CONFIRMED" /\ b # c
            => bseats[b] \cap bseats[c] = {}

\* booking_service.py:145-149, "the customer has paid twice. Refund the extra": a pay
\* request that read HELD while another one was under way writes PAYMENT_PENDING over
\* the ticket that the other one's charge has bought, so that its own charge confirms
\* the booking again and nobody notices that there are two.
OneChargeIsKept ==
    \A p, q \in Payments :
        pay[p] = "SUCCEEDED" /\ pay[q] = "SUCCEEDED" /\ payFor[p] = payFor[q] => p = q
============================================================================
