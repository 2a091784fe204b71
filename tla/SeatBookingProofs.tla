-------------------------- MODULE SeatBookingProofs --------------------------
(***************************************************************************)
(* Theorems of SeatBooking, for every set of seats, bookings, waiters,     *)
(* payments and requests.                                                  *)
(***************************************************************************)
EXTENDS SeatBooking, TLAPS

USE DEF Bookings

(***************************************************************************)
(* What EndBooking does: the one step in which several seats, bookings and *)
(* entries change at once.                                                 *)
(***************************************************************************)

\* An offer gives some of the seats of F, each to another waiting entry.
LEMMA OfferIsInjection ==
    ASSUME NEW F, NEW o \in Offers(F)
    PROVE  /\ DOMAIN o \subseteq F
           /\ o \in [DOMAIN o -> Waiters]
           /\ \A s \in DOMAIN o : entry[o[s]] = "WAITING"
           /\ \A s, t \in DOMAIN o : o[s] = o[t] => s = t
  <1>1. PICK D \in SUBSET F : o \in [D -> {w \in Waiters : entry[w] = "WAITING"}]
    BY DEF Offers
  <1>2. \A s, t \in DOMAIN o : o[s] = o[t] => s = t
    BY DEF Offers
  <1> QED BY <1>1, <1>2

\* What EndBooking(b, F, st) does to each seat, booking and entry when the
\* seats in the domain of o are offered.
OfferEffect(o, b, F, st) ==
    /\ \A s \in DOMAIN o :
          /\ s \in Seats /\ s \in bseats[b] /\ (s \in F \/ seat[s] = "FREE")
          /\ o[s] \in Waiters /\ o[s] # b
          /\ entry[o[s]] = "WAITING" /\ status[o[s]] = "NONE"
          /\ seat'[s] = "HELD" /\ heldBy'[s] = o[s]
          /\ status'[o[s]] = "HELD" /\ bseats'[o[s]] = {s}
          /\ entry'[o[s]] = "OFFERED"
    /\ \A s \in Seats : s \notin DOMAIN o =>
          /\ seat'[s] = IF s \in F THEN "FREE" ELSE seat[s]
          /\ heldBy'[s] = IF s \in F THEN None ELSE heldBy[s]
    /\ \A c \in Bookings : (\A s \in DOMAIN o : o[s] # c) =>
          /\ status'[c] = IF c = b THEN st ELSE status[c]
          /\ bseats'[c] = bseats[c]
          /\ c \in Waiters => entry'[c] = entry[c]

\* EndBooking keeps the types of the five variables it changes.
LEMMA EndBookingType ==
    ASSUME TypeOK,
           NEW b \in Bookings, NEW F \in SUBSET Seats, NEW st \in BookingStatus,
           EndBooking(b, F, st)
    PROVE  /\ seat' \in [Seats -> SeatStatus]
           /\ heldBy' \in [Seats -> Bookings \cup {None}]
           /\ status' \in [Bookings -> BookingStatus \cup {"NONE"}]
           /\ bseats' \in [Bookings -> SUBSET Seats]
           /\ entry' \in [Waiters -> WaitlistStatus \cup {"NONE"}]
  <1> DEFINE C == {s \in bseats[b] : s \in F \/ seat[s] = "FREE"}
  <1>1. PICK o \in Offers(C) :
          LET offered == {o[s] : s \in DOMAIN o} IN
          /\ seat' = [s \in Seats |-> IF s \in DOMAIN o THEN "HELD"
                                      ELSE IF s \in F THEN "FREE" ELSE seat[s]]
          /\ heldBy' = [s \in Seats |-> IF s \in DOMAIN o THEN o[s]
                                        ELSE IF s \in F THEN None ELSE heldBy[s]]
          /\ status' = [c \in Bookings |-> IF c \in offered THEN "HELD"
                                           ELSE IF c = b THEN st ELSE status[c]]
          /\ bseats' = [c \in Bookings |-> IF c \in offered
                                           THEN {s \in DOMAIN o : o[s] = c}
                                           ELSE bseats[c]]
          /\ entry' = [w \in Waiters |-> IF w \in offered THEN "OFFERED" ELSE entry[w]]
    BY Zenon DEF EndBooking
  <1>2. C \subseteq Seats
    BY DEF TypeOK
  <1>3. DOMAIN o \subseteq Seats /\ o \in [DOMAIN o -> Waiters]
    BY <1>2, OfferIsInjection
  <1>4. seat' \in [Seats -> SeatStatus]
    BY <1>1 DEF TypeOK, SeatStatus
  <1>5. heldBy' \in [Seats -> Bookings \cup {None}]
    BY <1>1, <1>3 DEF TypeOK
  <1>6. status' \in [Bookings -> BookingStatus \cup {"NONE"}]
    BY <1>1 DEF TypeOK, BookingStatus, Live
  <1>7. bseats' \in [Bookings -> SUBSET Seats]
    BY <1>1, <1>3 DEF TypeOK
  <1>8. entry' \in [Waiters -> WaitlistStatus \cup {"NONE"}]
    BY <1>1 DEF TypeOK, WaitlistStatus
  <1> QED BY <1>4, <1>5, <1>6, <1>7, <1>8

(***************************************************************************)
(* Type correctness                                                        *)
(***************************************************************************)

LEMMA InitType == Init => TypeOK
  BY DEF Init, TypeOK, SeatStatus, Idle

LEMMA RequestBooking ==
    ASSUME TypeOK, NEW r \in Requests, req[r].op # "idle"
    PROVE  req[r] \in Decisions /\ req[r].bk \in Bookings
  BY DEF TypeOK, Decisions, Idle

LEMMA FinishType ==
    ASSUME TypeOK, NEW r \in Requests, req[r].op # "idle", Finish(r)
    PROVE  /\ req' \in [Requests -> Decisions \cup {Idle}]
           /\ overwritten' \subseteq Bookings
           /\ lapsed' = lapsed /\ snapshot' = snapshot
  BY RequestBooking DEF TypeOK, Finish

LEMMA FreedAreSeats ==
    ASSUME TypeOK, NEW b \in Bookings
    PROVE  /\ FreeHeldSeats(b) \in SUBSET Seats /\ FreeSoldSeats(b) \in SUBSET Seats
           /\ FreedByRequest(b) \subseteq SUBSET Seats
  BY DEF TypeOK, FreeHeldSeats, FreeSoldSeats, FreedByRequest

LEMMA RequestType ==
    ASSUME TypeOK, NEW r \in Requests, RequestStep(r)
    PROVE  TypeOK'
  <1>1. ASSUME NEW b \in Bookings, PayRead(r, b) \/ CancelRead(r, b)
        PROVE  TypeOK'
    <2>1. PICK o \in {"pay", "expire", "cancelHold", "cancelSold"} : Decide(r, b, o)
      BY <1>1 DEF PayRead, CancelRead
    <2>2. [op |-> o, bk |-> b] \in Decisions
      BY DEF Decisions
    <2> QED BY <2>1, <2>2 DEF Decide, TypeOK, seatVars, payVars
  <1>2. CASE PayCommit(r)
    <2>1. req[r].op # "idle"
      BY <1>2 DEF PayCommit
    <2>2. req[r].bk \in Bookings
      BY <2>1, RequestBooking
    <2>3. PICK p \in Payments : pay' = [pay EXCEPT ![p] = "CHARGED"]
                                /\ payFor' = [payFor EXCEPT ![p] = req[r].bk]
      BY <1>2 DEF PayCommit
    <2>4. /\ pay' \in [Payments -> PaymentStatus \cup {"NONE", "CHARGED"}]
          /\ payFor' \in [Payments -> Bookings \cup {None}]
          /\ \A q \in Payments : pay'[q] # "NONE" => payFor'[q] \in Bookings
      BY <2>2, <2>3 DEF TypeOK
    <2>5. status' \in [Bookings -> BookingStatus \cup {"NONE"}]
      BY <1>2, <2>2 DEF PayCommit, TypeOK, BookingStatus, Live
    <2> QED BY <1>2, <2>1, <2>4, <2>5, FinishType DEF PayCommit, TypeOK, seatVars
  <1>3. ASSUME NEW F \in SUBSET Seats, NEW st \in BookingStatus,
               req[r].op # "idle", EndBooking(req[r].bk, F, st), Finish(r),
               UNCHANGED payVars
        PROVE  TypeOK'
    BY <1>3, RequestBooking, EndBookingType, FinishType DEF TypeOK, payVars
  <1>4. CASE LatePayCommit(r)
    BY <1>3, <1>4, RequestBooking, FreedAreSeats DEF LatePayCommit, BookingStatus
  <1>5. CASE CancelHeldCommit(r)
    BY <1>3, <1>5, RequestBooking, FreedAreSeats DEF CancelHeldCommit, BookingStatus
  <1>6. CASE CancelSoldCommit(r)
    BY <1>3, <1>6, RequestBooking, FreedAreSeats DEF CancelSoldCommit, BookingStatus
  <1>7. CASE Abort(r)
    BY <1>7 DEF Abort, TypeOK, seatVars, payVars
  <1> QED BY <1>1, <1>2, <1>4, <1>5, <1>6, <1>7 DEF RequestStep

LEMMA PaymentType ==
    ASSUME TypeOK, NEW p \in Payments, PaymentStep(p)
    PROVE  TypeOK'
  <1>1. CASE RecordPayment(p)
    BY <1>1 DEF RecordPayment, TypeOK, seatVars, PaymentStatus
  <1>2. CanSettle(p) => payFor[p] \in Bookings
    BY DEF CanSettle, TypeOK
  <1>3. CASE WebhookFailed(p)
    <2>1. /\ pay' \in [Payments -> PaymentStatus \cup {"NONE", "CHARGED"}]
          /\ \A q \in Payments : pay'[q] # "NONE" => payFor'[q] \in Bookings
      BY <1>2, <1>3 DEF WebhookFailed, CanSettle, TypeOK, PaymentStatus, Settled
    <2>2. CASE status[payFor[p]] = "PAYMENT_PENDING"
      BY <1>2, <1>3, <2>1, <2>2, EndBookingType, FreedAreSeats
         DEF WebhookFailed, TypeOK, BookingStatus
    <2>3. CASE status[payFor[p]] # "PAYMENT_PENDING"
      BY <1>3, <2>1, <2>3 DEF WebhookFailed, TypeOK, seatVars
    <2> QED BY <2>2, <2>3
  <1>4. ASSUME CanSettle(p), ConfirmBooking(payFor[p])
        PROVE  /\ status' \in [Bookings -> BookingStatus \cup {"NONE"}]
               /\ entry' \in [Waiters -> WaitlistStatus \cup {"NONE"}]
    BY <1>2, <1>4 DEF ConfirmBooking, TypeOK, BookingStatus, WaitlistStatus
  <1>5. CASE WebhookConfirm(p)
    <2>1. seat' \in [Seats -> SeatStatus]
      BY <1>5 DEF WebhookConfirm, TypeOK, SeatStatus
    <2> QED BY <1>2, <1>4, <1>5, <2>1
            DEF WebhookConfirm, TypeOK, PaymentStatus, Settled
  <1>6. CASE WebhookLate(p)
    <2>1. seat' \in [Seats -> SeatStatus] /\ heldBy' \in [Seats -> Bookings \cup {None}]
      BY <1>2, <1>6 DEF WebhookLate, TypeOK, SeatStatus
    <2>2. /\ status' \in [Bookings -> BookingStatus \cup {"NONE"}]
          /\ entry' \in [Waiters -> WaitlistStatus \cup {"NONE"}]
      BY <1>4, <1>6 DEF WebhookLate, TypeOK
    <2>3. /\ pay' \in [Payments -> PaymentStatus \cup {"NONE", "CHARGED"}]
          /\ \A q \in Payments : pay'[q] # "NONE" => payFor'[q] \in Bookings
      BY <1>2, <1>6 DEF WebhookLate, Refund, TypeOK, PaymentStatus, Settled
    <2> QED BY <1>6, <2>1, <2>2, <2>3 DEF WebhookLate, TypeOK
  <1>7. CASE WebhookRefund(p)
    BY <1>2, <1>7 DEF WebhookRefund, Refund, TypeOK, seatVars, PaymentStatus, Settled
  <1> QED BY <1>1, <1>3, <1>5, <1>6, <1>7 DEF PaymentStep

LEMMA NextType == TypeOK /\ [Next]_vars => TypeOK'
  <1> SUFFICES ASSUME TypeOK, [Next]_vars PROVE TypeOK'
    OBVIOUS
  <1>1. ASSUME NEW b \in Holds, NEW S \in (SUBSET Seats) \ {{}}, Hold(b, S)
        PROVE  TypeOK'
    BY <1>1 DEF Hold, TypeOK, SeatStatus, BookingStatus, Live, payVars
  <1>2. ASSUME NEW b \in Bookings, Lapse(b)
        PROVE  TypeOK'
    BY <1>2 DEF Lapse, TypeOK, seatVars, payVars
  <1>3. ASSUME NEW b \in Bookings, Sweep(b)
        PROVE  TypeOK'
    BY <1>3, EndBookingType, FreedAreSeats DEF Sweep, TypeOK, BookingStatus, payVars
  <1>4. ASSUME NEW w \in Waiters, Join(w)
        PROVE  TypeOK'
    BY <1>4 DEF Join, TypeOK, seatVars, payVars, WaitlistStatus
  <1>5. CASE StaleRead
    BY <1>5 DEF StaleRead, TypeOK, seatVars, payVars
  <1>6. CASE StaleCommit
    BY <1>6 DEF StaleCommit, TypeOK, seatVars, payVars, WaitlistStatus
  <1>7. CASE WorkerRestart
    BY <1>7 DEF WorkerRestart, TypeOK, seatVars, payVars
  <1>8. CASE UNCHANGED vars
    BY <1>8 DEF vars, TypeOK
  <1> QED
    BY <1>1, <1>2, <1>3, <1>4, <1>5, <1>6, <1>7, <1>8, RequestType, PaymentType
       DEF Next

\* Every variable keeps its type; in particular a payment that exists always
\* names the booking it was charged for.
THEOREM TypeCorrect == Spec => []TypeOK
  BY InitType, NextType, PTL DEF Spec

-----------------------------------------------------------------------------
(***************************************************************************)
(* The rows that refer to each other exist.  Inductive with TypeOK.        *)
(***************************************************************************)

LEMMA EndBookingEffect ==
    ASSUME TypeOK, RowsExist,
           NEW b \in Bookings, status[b] # "NONE",
           NEW F \in SUBSET bseats[b], NEW st,
           EndBooking(b, F, st)
    PROVE  \E o : OfferEffect(o, b, F, st)
  <1> DEFINE C == {s \in bseats[b] : s \in F \/ seat[s] = "FREE"}
  <1>1. PICK o \in Offers(C) :
          LET offered == {o[s] : s \in DOMAIN o} IN
          /\ seat' = [s \in Seats |-> IF s \in DOMAIN o THEN "HELD"
                                      ELSE IF s \in F THEN "FREE" ELSE seat[s]]
          /\ heldBy' = [s \in Seats |-> IF s \in DOMAIN o THEN o[s]
                                        ELSE IF s \in F THEN None ELSE heldBy[s]]
          /\ status' = [c \in Bookings |-> IF c \in offered THEN "HELD"
                                           ELSE IF c = b THEN st ELSE status[c]]
          /\ bseats' = [c \in Bookings |-> IF c \in offered
                                           THEN {s \in DOMAIN o : o[s] = c}
                                           ELSE bseats[c]]
          /\ entry' = [w \in Waiters |-> IF w \in offered THEN "OFFERED" ELSE entry[w]]
    BY Zenon DEF EndBooking
  <1> DEFINE offered == {o[s] : s \in DOMAIN o}
  <1>2. C \subseteq Seats
    BY DEF TypeOK
  <1>3. /\ DOMAIN o \subseteq C
        /\ \A s \in DOMAIN o : o[s] \in Waiters /\ entry[o[s]] = "WAITING"
        /\ \A s, t \in DOMAIN o : o[s] = o[t] => s = t
    BY OfferIsInjection
  <1>4. \A s \in DOMAIN o : status[o[s]] = "NONE" /\ o[s] # b
    BY <1>3 DEF RowsExist
  <1>5. ASSUME NEW s \in DOMAIN o
        PROVE  /\ seat'[s] = "HELD" /\ heldBy'[s] = o[s]
               /\ status'[o[s]] = "HELD" /\ bseats'[o[s]] = {s}
               /\ entry'[o[s]] = "OFFERED"
    <2>1. s \in Seats /\ o[s] \in Bookings /\ o[s] \in Waiters /\ o[s] \in offered
      BY <1>2, <1>3
    <2>2. {t \in DOMAIN o : o[t] = o[s]} = {s}
      BY <1>3
    <2>3. bseats'[o[s]] = {t \in DOMAIN o : o[t] = o[s]}
      BY <1>1, <2>1
    <2> QED BY <1>1, <2>1, <2>2, <2>3
  <1>6. ASSUME NEW s \in Seats, s \notin DOMAIN o
        PROVE  /\ seat'[s] = IF s \in F THEN "FREE" ELSE seat[s]
               /\ heldBy'[s] = IF s \in F THEN None ELSE heldBy[s]
    BY <1>1, <1>6
  <1>7. ASSUME NEW c \in Bookings, \A s \in DOMAIN o : o[s] # c
        PROVE  /\ status'[c] = IF c = b THEN st ELSE status[c]
               /\ bseats'[c] = bseats[c]
               /\ c \in Waiters => entry'[c] = entry[c]
    <2>1. c \notin offered
      BY <1>7
    <2> QED BY <1>1, <2>1
  <1>8. OfferEffect(o, b, F, st)
    BY <1>2, <1>3, <1>4, <1>5, <1>6, <1>7 DEF OfferEffect
  <1> QED BY <1>8

\* A step that ends b keeps RowsExist, if the rest of it only settles payments
\* and finishes requests.
LEMMA EndBookingRows ==
    ASSUME TypeOK, RowsExist,
           NEW b \in Bookings, status[b] # "NONE",
           NEW F \in SUBSET bseats[b], NEW st \in BookingStatus,
           EndBooking(b, F, st),
           overwritten' \subseteq overwritten \cup {b},
           \A r \in Requests : req'[r] \in {req[r], Idle},
           payFor' = payFor,
           \A p \in Payments : pay'[p] # "NONE" => pay[p] # "NONE"
    PROVE  RowsExist'
  <1>1. PICK o : OfferEffect(o, b, F, st)
    BY EndBookingEffect
  <1>2. st # "NONE"
    BY DEF BookingStatus, Live
  <1>3. \A c \in Bookings : status'[c] = "NONE" =>
           /\ status[c] = "NONE" /\ c # b
           /\ \A s \in DOMAIN o : o[s] # c
    BY <1>1, <1>2 DEF OfferEffect
  <1>4. \A c \in Bookings : status'[c] = "NONE" => bseats'[c] = {} /\ c \notin overwritten'
    BY <1>1, <1>3 DEF OfferEffect, RowsExist
  <1>5. ASSUME NEW r \in Requests, req'[r] # Idle
        PROVE  status'[req'[r].bk] # "NONE"
    <2>1. req'[r] = req[r] /\ req[r] \in Decisions
      BY <1>5 DEF TypeOK
    <2>2. req[r].bk \in Bookings /\ status[req[r].bk] # "NONE"
      BY <1>5, <2>1 DEF RowsExist, Decisions
    <2> QED BY <1>3, <2>1, <2>2
  <1>6. ASSUME NEW p \in Payments, pay'[p] # "NONE"
        PROVE  status'[payFor'[p]] # "NONE"
    BY <1>3, <1>6 DEF RowsExist, TypeOK
  <1>7. ASSUME NEW w \in Waiters, entry'[w] \in {"NONE", "WAITING"}
        PROVE  status'[w] = "NONE"
    <2>1. \A s \in DOMAIN o : o[s] # w
      BY <1>1, <1>7 DEF OfferEffect
    <2>2. entry'[w] = entry[w] /\ status[w] = "NONE"
      BY <1>1, <1>7, <2>1 DEF OfferEffect, RowsExist
    <2>3. w # b
      BY <2>2
    <2> QED BY <1>1, <2>1, <2>2, <2>3 DEF OfferEffect
  <1> QED BY <1>4, <1>5, <1>6, <1>7 DEF RowsExist

LEMMA FreedAreListed ==
    ASSUME NEW b \in Bookings
    PROVE  /\ FreeHeldSeats(b) \in SUBSET bseats[b] /\ FreeSoldSeats(b) \in SUBSET bseats[b]
           /\ FreedByRequest(b) \subseteq SUBSET bseats[b]
  BY DEF FreeHeldSeats, FreeSoldSeats, FreedByRequest

LEMMA FinishFacts ==
    ASSUME TypeOK, RowsExist, NEW r \in Requests, req[r].op # "idle", Finish(r)
    PROVE  /\ req[r].bk \in Bookings /\ status[req[r].bk] # "NONE"
           /\ overwritten \subseteq overwritten'
           /\ overwritten' \subseteq overwritten \cup {req[r].bk}
           /\ \A q \in Requests : req'[q] \in {req[q], Idle}
  BY RequestBooking DEF Finish, RowsExist, Idle, TypeOK

LEMMA RequestRows ==
    ASSUME TypeOK, RowsExist, NEW r \in Requests, RequestStep(r)
    PROVE  RowsExist'
  <1>1. ASSUME NEW b \in Bookings, PayRead(r, b) \/ CancelRead(r, b)
        PROVE  RowsExist'
    <2>1. PICK o \in {"pay", "expire", "cancelHold", "cancelSold"} : Decide(r, b, o)
      BY <1>1 DEF PayRead, CancelRead
    <2>2. status[b] # "NONE"
      BY <1>1 DEF PayRead, CancelRead, Live
    <2> QED BY <2>1, <2>2 DEF Decide, RowsExist, TypeOK, seatVars, payVars
  <1>2. CASE PayCommit(r)
    <2> DEFINE b == req[r].bk
    <2>1. /\ b \in Bookings /\ status[b] # "NONE"
          /\ overwritten' \subseteq overwritten \cup {b}
          /\ \A q \in Requests : req'[q] \in {req[q], Idle}
      BY <1>2, FinishFacts DEF PayCommit
    <2>2. PICK p \in Payments : pay' = [pay EXCEPT ![p] = "CHARGED"]
                                /\ payFor' = [payFor EXCEPT ![p] = b]
      BY <1>2 DEF PayCommit
    <2>3. \A c \in Bookings : status'[c] = "NONE" => status[c] = "NONE" /\ c # b
      BY <1>2 DEF PayCommit, TypeOK
    <2>4. \A q \in Requests : req'[q] # Idle => status'[req'[q].bk] # "NONE"
      BY <2>1, <2>3 DEF RowsExist, TypeOK, Decisions
    <2>5. \A q \in Payments : pay'[q] # "NONE" => status'[payFor'[q]] # "NONE"
      BY <2>1, <2>2, <2>3 DEF RowsExist, TypeOK
    <2>6. \A c \in Bookings : status'[c] = "NONE" => bseats'[c] = {} /\ c \notin overwritten'
      BY <1>2, <2>1, <2>3 DEF PayCommit, RowsExist
    <2>7. \A w \in Waiters : entry'[w] \in {"NONE", "WAITING"} => status'[w] = "NONE"
      BY <1>2, <2>1 DEF PayCommit, RowsExist, TypeOK
    <2> QED BY <2>4, <2>5, <2>6, <2>7 DEF RowsExist
  <1>3. ASSUME NEW F \in SUBSET bseats[req[r].bk], NEW st \in BookingStatus,
               req[r].op # "idle", EndBooking(req[r].bk, F, st), Finish(r),
               UNCHANGED payVars
        PROVE  RowsExist'
    BY <1>3, FinishFacts, EndBookingRows DEF payVars
  <1>4. CASE LatePayCommit(r)
    BY <1>3, <1>4, RequestBooking, FreedAreListed DEF LatePayCommit, BookingStatus
  <1>5. CASE CancelHeldCommit(r)
    BY <1>3, <1>5, RequestBooking, FreedAreListed DEF CancelHeldCommit, BookingStatus
  <1>6. CASE CancelSoldCommit(r)
    BY <1>3, <1>6, RequestBooking, FreedAreListed DEF CancelSoldCommit, BookingStatus
  <1>7. CASE Abort(r)
    BY <1>7 DEF Abort, RowsExist, TypeOK, seatVars, payVars
  <1> QED BY <1>1, <1>2, <1>4, <1>5, <1>6, <1>7 DEF RequestStep

LEMMA SettledBooking ==
    ASSUME TypeOK, RowsExist, NEW p \in Payments, CanSettle(p)
    PROVE  payFor[p] \in Bookings /\ status[payFor[p]] # "NONE"
  BY DEF CanSettle, TypeOK, RowsExist

LEMMA PaymentRows ==
    ASSUME TypeOK, RowsExist, NEW p \in Payments, PaymentStep(p)
    PROVE  RowsExist'
  <1>1. ASSUME \A c \in Bookings : status'[c] = "NONE" <=> status[c] = "NONE",
               bseats' = bseats, overwritten' = overwritten, req' = req,
               payFor' = payFor,
               \A q \in Payments : pay'[q] # "NONE" => pay[q] # "NONE",
               \A w \in Waiters : entry'[w] \in {"NONE", "WAITING"} => entry'[w] = entry[w]
        PROVE  RowsExist'
    BY <1>1 DEF RowsExist, TypeOK, Decisions
  <1>2. CASE RecordPayment(p)
    BY <1>1, <1>2 DEF RecordPayment, TypeOK, seatVars
  <1>3. CASE WebhookFailed(p)
    <2>1. \A q \in Payments : pay'[q] # "NONE" => pay[q] # "NONE"
      BY <1>3 DEF WebhookFailed, CanSettle, TypeOK
    <2>2. CASE status[payFor[p]] = "PAYMENT_PENDING"
      BY <1>3, <2>1, <2>2, SettledBooking, FreedAreListed, EndBookingRows
         DEF WebhookFailed, BookingStatus
    <2>3. CASE status[payFor[p]] # "PAYMENT_PENDING"
      BY <1>1, <1>3, <2>1, <2>3 DEF WebhookFailed, seatVars
    <2> QED BY <2>2, <2>3
  <1>4. ASSUME CanSettle(p), ConfirmBooking(payFor[p])
        PROVE  /\ \A c \in Bookings : status'[c] = "NONE" <=> status[c] = "NONE"
               /\ \A w \in Waiters : entry'[w] \in {"NONE", "WAITING"} => entry'[w] = entry[w]
    BY <1>4, SettledBooking DEF ConfirmBooking, TypeOK
  <1>5. CASE WebhookConfirm(p)
    BY <1>1, <1>4, <1>5 DEF WebhookConfirm, CanSettle, TypeOK
  <1>6. CASE WebhookLate(p)
    <2>1. \A q \in Payments : pay'[q] # "NONE" => pay[q] # "NONE"
      BY <1>6 DEF WebhookLate, Refund, CanSettle, TypeOK
    <2> QED BY <1>1, <1>4, <1>6, <2>1 DEF WebhookLate
  <1>7. CASE WebhookRefund(p)
    BY <1>1, <1>7 DEF WebhookRefund, Refund, CanSettle, TypeOK, seatVars
  <1> QED BY <1>2, <1>3, <1>5, <1>6, <1>7 DEF PaymentStep

LEMMA NextRows == TypeOK /\ RowsExist /\ [Next]_vars => RowsExist'
  <1> SUFFICES ASSUME TypeOK, RowsExist, [Next]_vars PROVE RowsExist'
    OBVIOUS
  <1>1. ASSUME NEW b \in Holds, NEW S \in (SUBSET Seats) \ {{}}, Hold(b, S)
        PROVE  RowsExist'
    BY <1>1, NamesAreDistinct DEF Hold, RowsExist, TypeOK, Decisions, payVars
  <1>2. ASSUME NEW b \in Bookings, Lapse(b)
        PROVE  RowsExist'
    BY <1>2 DEF Lapse, RowsExist, seatVars, payVars
  <1>3. ASSUME NEW b \in Bookings, Sweep(b)
        PROVE  RowsExist'
    BY <1>3, FreedAreListed, EndBookingRows DEF Sweep, BookingStatus, Live, payVars
  <1>4. ASSUME NEW w \in Waiters, Join(w)
        PROVE  RowsExist'
    BY <1>4 DEF Join, RowsExist, TypeOK, seatVars, payVars
  <1>5. CASE StaleRead
    BY <1>5 DEF StaleRead, RowsExist, seatVars, payVars
  <1>6. CASE StaleCommit
    BY <1>6 DEF StaleCommit, RowsExist, TypeOK, seatVars, payVars
  <1>7. CASE WorkerRestart
    BY <1>7 DEF WorkerRestart, RowsExist, seatVars, payVars
  <1>8. CASE UNCHANGED vars
    BY <1>8 DEF vars, RowsExist
  <1> QED
    BY <1>1, <1>2, <1>3, <1>4, <1>5, <1>6, <1>7, <1>8, RequestRows, PaymentRows
       DEF Next

THEOREM RowsExistCorrect == Spec => [](TypeOK /\ RowsExist)
  <1>1. Init => TypeOK /\ RowsExist
    BY InitType DEF Init, RowsExist
  <1>2. TypeOK /\ RowsExist /\ [Next]_vars => TypeOK' /\ RowsExist'
    BY NextType, NextRows
  <1> QED BY <1>1, <1>2, PTL DEF Spec

-----------------------------------------------------------------------------
(***************************************************************************)
(* The inductive invariant of the seats: the rows exist, a HELD seat has a *)
(* live booking, and no clean seat is promised twice                       *)
(***************************************************************************)

SeatInv == TypeOK /\ RowsExist /\ HeldHasLiveBooking /\ NoDoubleBooking

\* A seat never becomes clean again: bookings are not withdrawn from
\* overwritten, and those in it keep their seats.
LEMMA CleanShrinks ==
    ASSUME overwritten \subseteq overwritten',
           \A c \in overwritten : bseats'[c] = bseats[c]
    PROVE  CleanSeats' \subseteq CleanSeats
  BY DEF CleanSeats

Ended == {"FAILED", "EXPIRED", "CANCELLED"}

\* Ending b is safe if it frees every HELD seat b has, and none of the clean seats
\* that somebody else has.
LEMMA EndBookingSafe ==
    ASSUME SeatInv,
           NEW b \in Bookings, status[b] # "NONE",
           NEW F \in SUBSET bseats[b], NEW st \in Ended,
           \A s \in FreeHeldSeats(b) : seat[s] = "HELD" => s \in F,
           EndBooking(b, F, st),
           overwritten \subseteq overwritten',
           b \in overwritten' \/ \A s \in F \cap CleanSeats : heldBy[s] = b
    PROVE  HeldHasLiveBooking' /\ NoDoubleBooking'
  <1>1. PICK o : OfferEffect(o, b, F, st)
    BY EndBookingEffect DEF SeatInv
  <1>2. TypeOK /\ RowsExist /\ HeldHasLiveBooking /\ NoDoubleBooking
    BY DEF SeatInv
  <1>3. st \notin Live /\ st # "CONFIRMED"
    BY DEF Ended, Live
  <1>4. None \notin Bookings /\ \A s \in DOMAIN o : o[s] \in Bookings
    BY <1>1, NamesAreDistinct DEF OfferEffect
  <1>5. SeatRowsAgree'
    BY <1>1, <1>2, <1>4 DEF OfferEffect, HeldHasLiveBooking, SeatRowsAgree
  \* A booking with a seat is not one that is being created by an offer.
  <1>6. ASSUME NEW c \in Bookings, bseats[c] # {}
        PROVE  \A s \in DOMAIN o : o[s] # c
    BY <1>1, <1>2, <1>6 DEF OfferEffect, RowsExist
  <1>7. ASSUME NEW s \in Seats, s \notin DOMAIN o, s \notin F, heldBy[s] # None
        PROVE  /\ heldBy[s] \in Bookings /\ s \in bseats[heldBy[s]]
               /\ bseats'[heldBy[s]] = bseats[heldBy[s]]
               /\ heldBy[s] # b => status'[heldBy[s]] = status[heldBy[s]]
               /\ seat'[s] = seat[s] /\ heldBy'[s] = heldBy[s]
    <2>1. heldBy[s] \in Bookings /\ s \in bseats[heldBy[s]]
      BY <1>2, <1>7 DEF TypeOK, HeldHasLiveBooking, HeldSeatsAreListed
    <2> QED BY <1>1, <1>6, <1>7, <2>1 DEF OfferEffect
  <1>8. HeldSeatsAreListed'
    <2> SUFFICES ASSUME NEW s \in Seats, heldBy'[s] # None
                 PROVE  s \in bseats'[heldBy'[s]]
      BY DEF HeldSeatsAreListed
    <2>1. CASE s \in DOMAIN o
      BY <1>1, <2>1 DEF OfferEffect
    <2>2. CASE s \notin DOMAIN o
      <3>1. s \notin F /\ heldBy[s] # None
        BY <1>1, <2>2 DEF OfferEffect
      <3> QED BY <1>7, <2>2, <3>1
    <2> QED BY <2>1, <2>2
  <1>9. HeldSeatsAreLive'
    <2> SUFFICES ASSUME NEW s \in Seats, seat'[s] = "HELD"
                 PROVE  status'[heldBy'[s]] \in Live
      BY DEF HeldSeatsAreLive
    <2>1. CASE s \in DOMAIN o
      BY <1>1, <2>1 DEF OfferEffect, Live
    <2>2. CASE s \notin DOMAIN o
      <3>1. s \notin F /\ seat[s] = "HELD"
        BY <1>1, <2>2 DEF OfferEffect
      <3>2. heldBy[s] # None /\ status[heldBy[s]] \in Live
        BY <1>2, <3>1 DEF HeldHasLiveBooking, SeatRowsAgree, HeldSeatsAreLive
      <3>3. heldBy[s] # b
        BY <1>7, <2>2, <3>1, <3>2 DEF FreeHeldSeats
      <3> QED BY <1>7, <2>2, <3>1, <3>2, <3>3
    <2> QED BY <2>1, <2>2
  <1>10. CleanSeats' \subseteq CleanSeats
    <2>1. ASSUME NEW c \in overwritten
          PROVE  bseats'[c] = bseats[c]
      <3>1. c \in Bookings /\ status[c] # "NONE"
        BY <1>2, <2>1 DEF TypeOK, RowsExist
      <3>2. \A s \in DOMAIN o : o[s] # c
        BY <1>1, <3>1 DEF OfferEffect
      <3> QED BY <1>1, <3>1, <3>2 DEF OfferEffect
    <2> QED BY <2>1, CleanShrinks
  <1>11. NoDoubleBooking'
    <2> SUFFICES ASSUME NEW c \in Bookings, NEW s \in bseats'[c] \cap CleanSeats',
                        status'[c] \in Live \cup {"CONFIRMED"}
                 PROVE  /\ status'[c] \in Live => seat'[s] = "HELD" /\ heldBy'[s] = c
                        /\ status'[c] = "CONFIRMED" => seat'[s] = "SOLD" /\ heldBy'[s] = c
      BY DEF NoDoubleBooking
    <2>1. s \in Seats /\ s \in CleanSeats
      BY <1>10 DEF CleanSeats
    <2>2. CASE \E t \in DOMAIN o : o[t] = c
      <3>1. PICK t \in DOMAIN o : o[t] = c
        BY <2>2
      <3>2. bseats'[c] = {t} /\ status'[c] = "HELD" /\ seat'[t] = "HELD" /\ heldBy'[t] = c
        BY <1>1, <3>1 DEF OfferEffect
      <3> QED BY <3>2
    <2>3. CASE \A t \in DOMAIN o : o[t] # c
      <3>1. c # b /\ status'[c] = status[c] /\ s \in bseats[c]
        BY <1>1, <1>3, <2>3 DEF OfferEffect
      <3>2. /\ heldBy[s] = c
            /\ status[c] \in Live => seat[s] = "HELD"
            /\ status[c] = "CONFIRMED" => seat[s] = "SOLD"
        BY <1>2, <2>1, <3>1 DEF NoDoubleBooking
      <3>3. s \notin F
        <4>1. CASE b \in overwritten'
          <5>1. bseats'[b] = bseats[b]
            BY <1>1 DEF OfferEffect
          <5> QED BY <4>1, <5>1 DEF CleanSeats
        <4>2. CASE \A t \in F \cap CleanSeats : heldBy[t] = b
          BY <2>1, <3>1, <3>2, <4>2
        <4> QED BY <4>1, <4>2
      <3>4. seat[s] # "FREE" /\ s \notin DOMAIN o
        BY <1>1, <3>1, <3>2, <3>3 DEF OfferEffect
      <3> QED BY <1>1, <2>1, <3>1, <3>2, <3>3, <3>4 DEF OfferEffect, Live
    <2> QED BY <2>2, <2>3
  <1> QED BY <1>5, <1>8, <1>9, <1>11 DEF HeldHasLiveBooking

LEMMA RequestSafe ==
    ASSUME SeatInv, NEW r \in Requests, RequestStep(r)
    PROVE  HeldHasLiveBooking' /\ NoDoubleBooking'
  <1> DEFINE b == req[r].bk
  <1> USE DEF SeatInv
  <1>1. ASSUME UNCHANGED <<seat, heldBy, status, bseats, overwritten>>
        PROVE  HeldHasLiveBooking' /\ NoDoubleBooking'
    BY <1>1 DEF HeldHasLiveBooking, SeatRowsAgree, HeldSeatsAreListed, HeldSeatsAreLive,
                NoDoubleBooking, CleanSeats
  <1>2. CASE \E c \in Bookings : PayRead(r, c) \/ CancelRead(r, c)
    BY <1>1, <1>2 DEF PayRead, CancelRead, Decide, seatVars
  <1>3. CASE PayCommit(r)
    <2>1. /\ b \in Bookings
          /\ overwritten \subseteq overwritten'
          /\ overwritten' = overwritten \cup (IF status[b] \in Live THEN {} ELSE {b})
      BY <1>3, FinishFacts DEF PayCommit, Finish
    <2>2. /\ UNCHANGED <<seat, heldBy, bseats>>
          /\ status' = [status EXCEPT ![b] = "PAYMENT_PENDING"]
      BY <1>3 DEF PayCommit, seatVars
    <2>3. CleanSeats' \subseteq CleanSeats
      BY <2>1, <2>2, CleanShrinks
    <2>4. HeldHasLiveBooking'
      BY <2>2, NamesAreDistinct
         DEF HeldHasLiveBooking, SeatRowsAgree, HeldSeatsAreListed, HeldSeatsAreLive,
             TypeOK, Live
    <2>5. NoDoubleBooking'
      <3> SUFFICES ASSUME NEW c \in Bookings, NEW s \in bseats[c] \cap CleanSeats'
                   PROVE  /\ status'[c] \in Live => seat[s] = "HELD" /\ heldBy[s] = c
                          /\ status'[c] = "CONFIRMED" => seat[s] = "SOLD" /\ heldBy[s] = c
        BY <2>2 DEF NoDoubleBooking
      <3>1. CASE c = b
        <4>1. b \notin overwritten'
          BY <2>2, <3>1 DEF CleanSeats
        <4> QED BY <2>1, <2>2, <2>3, <3>1, <4>1 DEF NoDoubleBooking, TypeOK
      <3>2. CASE c # b
        BY <2>2, <2>3, <3>2 DEF NoDoubleBooking, TypeOK
      <3> QED BY <3>1, <3>2
    <2> QED BY <2>4, <2>5
  <1>4. ASSUME NEW st \in Ended, req[r].op # "idle", Finish(r),
               NEW F \in FreedByRequest(b), EndBooking(b, F, st)
        PROVE  HeldHasLiveBooking' /\ NoDoubleBooking'
    <2>1. /\ F \in SUBSET bseats[b] /\ \A s \in F : heldBy[s] = b
          /\ \A s \in FreeHeldSeats(b) : seat[s] = "HELD" => s \in F
      BY DEF FreedByRequest, FreeHeldSeats
    <2>2. b \in Bookings /\ status[b] # "NONE" /\ overwritten \subseteq overwritten'
      BY <1>4, FinishFacts
    <2> QED BY <1>4, <2>1, <2>2, EndBookingSafe
  <1>5. CASE LatePayCommit(r)
    BY <1>4, <1>5 DEF LatePayCommit, Ended
  <1>6. CASE CancelHeldCommit(r)
    BY <1>4, <1>6 DEF CancelHeldCommit, Ended
  <1>7. CASE CancelSoldCommit(r)
    <2>1. /\ b \in Bookings /\ status[b] # "NONE"
          /\ overwritten \subseteq overwritten'
      BY <1>7, FinishFacts DEF CancelSoldCommit
    <2>2. b \in overwritten' \/ status[b] = "CONFIRMED"
      BY <1>7 DEF CancelSoldCommit, Finish
    <2>3. b \in overwritten' \/ \A s \in FreeSoldSeats(b) \cap CleanSeats : heldBy[s] = b
      BY <2>1, <2>2 DEF NoDoubleBooking, FreeSoldSeats
    <2>4. FreeHeldSeats(b) \subseteq FreeSoldSeats(b)
      BY DEF FreeHeldSeats, FreeSoldSeats
    <2> QED BY <1>7, <2>1, <2>3, <2>4, FreedAreListed, EndBookingSafe
            DEF CancelSoldCommit, Ended
  <1>8. CASE Abort(r)
    BY <1>1, <1>8 DEF Abort, seatVars
  <1> QED BY <1>2, <1>3, <1>5, <1>6, <1>7, <1>8 DEF RequestStep

LEMMA PaymentSafe ==
    ASSUME SeatInv, NEW p \in Payments, PaymentStep(p)
    PROVE  HeldHasLiveBooking' /\ NoDoubleBooking'
  <1> DEFINE b == payFor[p]
  <1> USE DEF SeatInv
  <1>1. ASSUME UNCHANGED <<seat, heldBy, status, bseats, overwritten>>
        PROVE  HeldHasLiveBooking' /\ NoDoubleBooking'
    BY <1>1 DEF HeldHasLiveBooking, SeatRowsAgree, HeldSeatsAreListed, HeldSeatsAreLive,
                NoDoubleBooking, CleanSeats
  <1>2. CASE RecordPayment(p) \/ WebhookRefund(p)
    BY <1>1, <1>2 DEF RecordPayment, WebhookRefund, seatVars
  <1>3. CASE WebhookFailed(p)
    <2>1. CASE status[b] = "PAYMENT_PENDING"
      BY <1>3, <2>1, SettledBooking, FreedAreListed, EndBookingSafe
         DEF WebhookFailed, FreeHeldSeats, Ended
    <2>2. CASE status[b] # "PAYMENT_PENDING"
      BY <1>1, <1>3, <2>2 DEF WebhookFailed, seatVars
    <2> QED BY <2>1, <2>2
  <1>4. CASE WebhookConfirm(p)
    <2>1. /\ b \in Bookings /\ status[b] = "PAYMENT_PENDING"
          /\ seat' = [s \in Seats |-> IF s \in SellHeldSeats(b) THEN "SOLD" ELSE seat[s]]
          /\ status' = [status EXCEPT ![b] = "CONFIRMED"]
          /\ UNCHANGED <<heldBy, bseats, overwritten>>
      BY <1>4, SettledBooking DEF WebhookConfirm, ConfirmBooking
    <2>2. SellHeldSeats(b) = {s \in bseats[b] : heldBy[s] = b} /\ CleanSeats' = CleanSeats
      BY <2>1 DEF SellHeldSeats, CleanSeats
    <2>3. SeatRowsAgree' /\ HeldSeatsAreListed'
      BY <2>1, <2>2, NamesAreDistinct
         DEF HeldHasLiveBooking, SeatRowsAgree, HeldSeatsAreListed
    <2>4. HeldSeatsAreLive'
      <3> SUFFICES ASSUME NEW s \in Seats, seat'[s] = "HELD"
                   PROVE  status'[heldBy[s]] \in Live
        BY <2>1 DEF HeldSeatsAreLive
      <3>1. s \notin SellHeldSeats(b) /\ seat[s] = "HELD"
        BY <2>1
      <3>2. heldBy[s] # None /\ heldBy[s] \in Bookings /\ status[heldBy[s]] \in Live
        BY <3>1 DEF HeldHasLiveBooking, SeatRowsAgree, HeldSeatsAreLive, TypeOK
      <3>3. heldBy[s] # b
        BY <2>2, <3>1, <3>2 DEF HeldHasLiveBooking, HeldSeatsAreListed
      <3> QED BY <2>1, <3>2, <3>3 DEF TypeOK
    <2>5. NoDoubleBooking'
      BY <2>1, <2>2 DEF NoDoubleBooking, TypeOK, Live, CleanSeats
    <2> QED BY <2>3, <2>4, <2>5 DEF HeldHasLiveBooking
  <1>5. CASE WebhookLate(p)
    <2>0. PICK G \in Reacquired(b) :
              /\ seat' = [s \in Seats |-> IF s \in G THEN "SOLD" ELSE seat[s]]
              /\ heldBy' = [s \in Seats |-> IF s \in G THEN b ELSE heldBy[s]]
              /\ IF G = bseats[b]
                 THEN ConfirmBooking(b) /\ pay' = [pay EXCEPT ![p] = "SUCCEEDED"]
                 ELSE UNCHANGED <<status, entry>> /\ Refund(p)
      BY <1>5 DEF WebhookLate
    <2>1. /\ b \in Bookings /\ status[b] = "EXPIRED"
          /\ seat' = [s \in Seats |-> IF s \in G THEN "SOLD" ELSE seat[s]]
          /\ heldBy' = [s \in Seats |-> IF s \in G THEN b ELSE heldBy[s]]
          /\ \/ G = bseats[b] /\ status' = [status EXCEPT ![b] = "CONFIRMED"]
             \/ status' = status
          /\ UNCHANGED <<bseats, overwritten>>
      BY <1>5, <2>0, SettledBooking DEF WebhookLate, ConfirmBooking
    <2>2. G \subseteq bseats[b] /\ bseats[b] \subseteq Seats
      BY <2>1 DEF Reacquired, TypeOK
    <2>3. \A s \in G : seat[s] = "FREE"
      BY DEF Reacquired
    <2>4. CleanSeats' = CleanSeats
      BY <2>1 DEF CleanSeats
    <2>5. SeatRowsAgree' /\ HeldSeatsAreListed'
      BY <2>1, <2>2, NamesAreDistinct
         DEF HeldHasLiveBooking, SeatRowsAgree, HeldSeatsAreListed
    <2>6. HeldSeatsAreLive'
      BY <2>1, NamesAreDistinct
         DEF HeldHasLiveBooking, SeatRowsAgree, HeldSeatsAreLive, TypeOK, Live
    <2>7. NoDoubleBooking'
      <3> SUFFICES ASSUME NEW c \in Bookings, NEW s \in bseats[c] \cap CleanSeats
                   PROVE  /\ status'[c] \in Live => seat'[s] = "HELD" /\ heldBy'[s] = c
                          /\ status'[c] = "CONFIRMED" => seat'[s] = "SOLD" /\ heldBy'[s] = c
        BY <2>1, <2>4 DEF NoDoubleBooking
      <3>1. s \in Seats
        BY DEF TypeOK
      <3>2. CASE c = b
        BY <2>1, <3>1, <3>2 DEF TypeOK, Live
      <3>3. CASE c # b
        BY <2>1, <2>3, <3>1, <3>3 DEF NoDoubleBooking, TypeOK
      <3> QED BY <3>2, <3>3
    <2> QED BY <2>5, <2>6, <2>7 DEF HeldHasLiveBooking
  <1> QED BY <1>2, <1>3, <1>4, <1>5 DEF PaymentStep

LEMMA NextSafe == SeatInv /\ [Next]_vars => HeldHasLiveBooking' /\ NoDoubleBooking'
  <1> SUFFICES ASSUME SeatInv, [Next]_vars
               PROVE  HeldHasLiveBooking' /\ NoDoubleBooking'
    OBVIOUS
  <1> USE DEF SeatInv
  <1>1. ASSUME UNCHANGED <<seat, heldBy, status, bseats, overwritten>>
        PROVE  HeldHasLiveBooking' /\ NoDoubleBooking'
    BY <1>1 DEF HeldHasLiveBooking, SeatRowsAgree, HeldSeatsAreListed, HeldSeatsAreLive,
                NoDoubleBooking, CleanSeats
  <1>2. ASSUME NEW b \in Holds, NEW S \in (SUBSET Seats) \ {{}}, Hold(b, S)
        PROVE  HeldHasLiveBooking' /\ NoDoubleBooking'
    <2>1. /\ b \in Bookings /\ status[b] = "NONE" /\ bseats[b] = {}
          /\ \A s \in S : seat[s] = "FREE"
          /\ seat' = [s \in Seats |-> IF s \in S THEN "HELD" ELSE seat[s]]
          /\ heldBy' = [s \in Seats |-> IF s \in S THEN b ELSE heldBy[s]]
          /\ status' = [status EXCEPT ![b] = "HELD"]
          /\ bseats' = [bseats EXCEPT ![b] = S]
          /\ overwritten' = overwritten
      BY <1>2 DEF Hold, RowsExist
    <2>2. \A c \in Bookings : c # b => bseats'[c] = bseats[c] /\ status'[c] = status[c]
      BY <2>1 DEF TypeOK
    <2>3. bseats'[b] = S /\ status'[b] = "HELD"
      BY <2>1 DEF TypeOK
    <2>4. CleanSeats' \subseteq CleanSeats
      BY <2>1, <2>2, CleanShrinks DEF TypeOK, RowsExist
    <2>5. SeatRowsAgree' /\ HeldSeatsAreListed'
      BY <2>1, <2>2, <2>3, NamesAreDistinct
         DEF HeldHasLiveBooking, SeatRowsAgree, HeldSeatsAreListed, TypeOK
    <2>6. HeldSeatsAreLive'
      BY <2>1, <2>2, <2>3, NamesAreDistinct
         DEF HeldHasLiveBooking, SeatRowsAgree, HeldSeatsAreLive, TypeOK, Live
    <2>7. NoDoubleBooking'
      <3> SUFFICES ASSUME NEW c \in Bookings, NEW s \in bseats'[c] \cap CleanSeats'
                   PROVE  /\ status'[c] \in Live => seat'[s] = "HELD" /\ heldBy'[s] = c
                          /\ status'[c] = "CONFIRMED" => seat'[s] = "SOLD" /\ heldBy'[s] = c
        BY DEF NoDoubleBooking
      <3>1. CASE c = b
        BY <2>1, <2>3, <3>1
      <3>2. CASE c # b
        <4>1. s \in Seats /\ s \in bseats[c] \cap CleanSeats /\ status'[c] = status[c]
          BY <2>2, <2>4, <3>2 DEF CleanSeats
        <4>2. status[c] \in Live \cup {"CONFIRMED"} => s \notin S
          BY <2>1, <4>1 DEF NoDoubleBooking
        <4> QED BY <2>1, <4>1, <4>2 DEF NoDoubleBooking
      <3> QED BY <3>1, <3>2
    <2> QED BY <2>5, <2>6, <2>7 DEF HeldHasLiveBooking
  <1>3. ASSUME NEW b \in Bookings, Sweep(b)
        PROVE  HeldHasLiveBooking' /\ NoDoubleBooking'
    BY <1>3, FreedAreListed, EndBookingSafe DEF Sweep, FreeHeldSeats, Ended, Live
  <1>4. ASSUME NEW b \in Bookings, Lapse(b)
        PROVE  HeldHasLiveBooking' /\ NoDoubleBooking'
    BY <1>1, <1>4 DEF Lapse, seatVars
  <1>5. ASSUME NEW w \in Waiters, Join(w)
        PROVE  HeldHasLiveBooking' /\ NoDoubleBooking'
    BY <1>1, <1>5 DEF Join, seatVars
  <1>6. CASE StaleRead \/ StaleCommit \/ WorkerRestart
    BY <1>1, <1>6 DEF StaleRead, StaleCommit, WorkerRestart, seatVars
  <1>7. CASE UNCHANGED vars
    BY <1>1, <1>7 DEF vars
  <1> QED
    BY <1>2, <1>3, <1>4, <1>5, <1>6, <1>7, RequestSafe, PaymentSafe DEF Next

LEMMA InitSeat == Init => SeatInv
  <1>1. Init => RowsExist /\ NoDoubleBooking
    BY DEF Init, RowsExist, NoDoubleBooking
  <1>2. Init => HeldHasLiveBooking
    BY DEF Init, HeldHasLiveBooking, SeatRowsAgree, HeldSeatsAreListed, HeldSeatsAreLive
  <1> QED BY <1>1, <1>2, InitType DEF SeatInv

LEMMA SeatInvInductive == Spec => []SeatInv
  <1>1. Init => SeatInv
    BY InitSeat
  <1>2. SeatInv /\ [Next]_vars => SeatInv'
    BY NextType, NextRows, NextSafe DEF SeatInv
  <1> QED BY <1>1, <1>2, PTL DEF Spec

\* No seat is stuck: whatever stale pay and cancel requests overwrite, a HELD
\* seat belongs to a live booking that lists it, which the sweep ends in time.
THEOREM HeldSeatsHaveLiveBookings == Spec => []HeldHasLiveBooking
  BY SeatInvInductive, PTL DEF SeatInv

\* No two bookings are promised a seat that stale requests have not reached:
\* the live ones hold it and the confirmed one owns it, alone.
THEOREM NoDoubleBookingCorrect == Spec => []NoDoubleBooking
  BY SeatInvInductive, PTL DEF SeatInv

\* Every waitlist entry is offered a seat at most once.
THEOREM OfferedOnceCorrect == Spec => []OfferedOnce
  <1>1. SeatInv => OfferedOnce
    BY DEF SeatInv, RowsExist, OfferedOnce
  <1> QED BY <1>1, SeatInvInductive, PTL

-----------------------------------------------------------------------------
(***************************************************************************)
(* SOLD seats                                                              *)
(***************************************************************************)

\* What SoldIsExplained says of a SOLD seat of booking b.
Explained(s, b) ==
    \/ status[b] = "CONFIRMED" /\ s \in bseats[b]
    \/ status[b] = "EXPIRED" /\ \E p \in Payments : payFor[p] = b /\ pay[p] = "REFUNDED"
    \/ b \in overwritten

SoldInv == SeatInv /\ SoldIsExplained

RefundsStay ==
    \A p \in Payments : pay[p] = "REFUNDED" => pay'[p] = "REFUNDED" /\ payFor'[p] = payFor[p]

LEMMA NextRefunds == TypeOK /\ [Next]_vars => RefundsStay
  <1> SUFFICES ASSUME TypeOK, [Next]_vars PROVE RefundsStay
    OBVIOUS
  <1>1. ASSUME UNCHANGED payVars PROVE RefundsStay
    BY <1>1 DEF payVars, RefundsStay
  <1>2. ASSUME NEW r \in Requests, RequestStep(r) PROVE RefundsStay
    <2>1. CASE PayCommit(r)
      <3>1. PICK p \in Payments : /\ pay[p] = "NONE"
                                  /\ pay' = [pay EXCEPT ![p] = "CHARGED"]
                                  /\ payFor' = [payFor EXCEPT ![p] = req[r].bk]
        BY <2>1 DEF PayCommit
      <3> QED BY <3>1 DEF TypeOK, RefundsStay
    <2>2. CASE ~PayCommit(r)
      BY <1>1, <1>2, <2>2
         DEF RequestStep, PayRead, CancelRead, Decide, LatePayCommit, CancelHeldCommit,
             CancelSoldCommit, Abort
    <2> QED BY <2>1, <2>2
  <1>3. ASSUME NEW p \in Payments, PaymentStep(p) PROVE RefundsStay
    <2>1. pay[p] \in {"CHARGED", "PENDING"} /\ payFor' = payFor
      BY <1>3 DEF PaymentStep, RecordPayment, WebhookFailed, WebhookConfirm, WebhookLate,
                  WebhookRefund, CanSettle
    <2>2. \E v : pay' = [pay EXCEPT ![p] = v]
      BY <1>3 DEF PaymentStep, RecordPayment, WebhookFailed, WebhookConfirm, WebhookLate,
                  WebhookRefund, Refund
    <2> QED BY <2>1, <2>2 DEF TypeOK, RefundsStay
  <1>4. CASE \/ \E b \in Holds, S \in (SUBSET Seats) \ {{}} : Hold(b, S)
             \/ \E b \in Bookings : Lapse(b) \/ Sweep(b)
             \/ \E w \in Waiters : Join(w)
             \/ StaleRead \/ StaleCommit \/ WorkerRestart \/ UNCHANGED vars
    <2>1. UNCHANGED payVars
      BY <1>4 DEF Hold, Lapse, Sweep, Join, StaleRead, StaleCommit, WorkerRestart, vars, payVars
    <2> QED BY <1>1, <2>1
  <1> QED BY <1>2, <1>3, <1>4 DEF Next

\* The booking of a SOLD seat exists, lists it and explains it.
LEMMA SoldFacts ==
    ASSUME SoldInv, NEW s \in Seats, seat[s] = "SOLD"
    PROVE  /\ heldBy[s] \in Bookings /\ s \in bseats[heldBy[s]]
           /\ status[heldBy[s]] # "NONE" /\ Explained(s, heldBy[s])
  <1>1. heldBy[s] # None
    BY DEF SoldInv, SeatInv, HeldHasLiveBooking, SeatRowsAgree
  <1>2. heldBy[s] \in Bookings /\ s \in bseats[heldBy[s]]
    BY <1>1 DEF SoldInv, SeatInv, TypeOK, HeldHasLiveBooking, HeldSeatsAreListed
  <1>3. status[heldBy[s]] # "NONE"
    BY <1>2 DEF SoldInv, SeatInv, RowsExist
  <1>4. Explained(s, heldBy[s])
    BY DEF SoldInv, SoldIsExplained, Explained
  <1> QED BY <1>2, <1>3, <1>4

\* What explains a SOLD seat goes on explaining it while its booking keeps its status
\* and its seats, or is overwritten.
LEMMA StaysExplained ==
    ASSUME NEW s, NEW b, Explained(s, b), RefundsStay, overwritten \subseteq overwritten',
           b \in overwritten' \/ (status'[b] = status[b] /\ bseats'[b] = bseats[b])
    PROVE  Explained(s, b)'
  BY DEF Explained, RefundsStay

LEMMA SoldGoal ==
    ASSUME \A s \in Seats : seat'[s] = "SOLD" => \E b : heldBy'[s] = b /\ Explained(s, b)'
    PROVE  SoldIsExplained'
  BY DEF SoldIsExplained, Explained

\* Seats that are SOLD were SOLD to the same booking before.
LEMMA QuietSold ==
    ASSUME SoldInv, RefundsStay, overwritten \subseteq overwritten',
           \A s \in Seats : seat'[s] = "SOLD" => seat[s] = "SOLD" /\ heldBy'[s] = heldBy[s],
           \A s \in Seats : seat[s] = "SOLD" /\ seat'[s] = "SOLD" =>
               LET b == heldBy[s] IN
               b \in overwritten' \/ (status'[b] = status[b] /\ bseats'[b] = bseats[b])
    PROVE  SoldIsExplained'
  <1> SUFFICES ASSUME NEW s \in Seats, seat'[s] = "SOLD"
               PROVE  \E b : heldBy'[s] = b /\ Explained(s, b)'
    BY SoldGoal
  <1>1. PICK b : b = heldBy[s]
    OBVIOUS
  <1>2. seat[s] = "SOLD" /\ heldBy'[s] = b /\ Explained(s, b)
    BY <1>1, SoldFacts
  <1>3. Explained(s, b)'
    BY <1>1, <1>2, StaysExplained
  <1> QED BY <1>2, <1>3

\* Ending b explains the SOLD seats if b has none that it keeps, unless that is
\* recorded in overwritten.
LEMMA EndBookingSold ==
    ASSUME SoldInv, RefundsStay,
           NEW b \in Bookings, status[b] # "NONE",
           NEW F \in SUBSET bseats[b], NEW st \in Ended,
           EndBooking(b, F, st),
           overwritten \subseteq overwritten',
           b \in overwritten' \/ (\A s \in Seats : seat[s] = "SOLD" /\ heldBy[s] = b => s \in F)
    PROVE  SoldIsExplained'
  <1>1. PICK o : OfferEffect(o, b, F, st)
    BY EndBookingEffect DEF SoldInv, SeatInv
  <1>2. ASSUME NEW s \in Seats, seat'[s] = "SOLD"
        PROVE  s \notin DOMAIN o /\ s \notin F /\ seat[s] = "SOLD" /\ heldBy'[s] = heldBy[s]
    BY <1>1, <1>2 DEF OfferEffect
  <1>3. ASSUME NEW s \in Seats, seat[s] = "SOLD", seat'[s] = "SOLD", heldBy[s] \notin overwritten'
        PROVE  status'[heldBy[s]] = status[heldBy[s]] /\ bseats'[heldBy[s]] = bseats[heldBy[s]]
    <2>1. heldBy[s] \in Bookings /\ status[heldBy[s]] # "NONE"
      BY <1>3, SoldFacts
    <2>2. \A t \in DOMAIN o : o[t] # heldBy[s]
      BY <1>1, <2>1 DEF OfferEffect
    <2>3. heldBy[s] # b
      BY <1>2, <1>3
    <2> QED BY <1>1, <2>1, <2>2, <2>3 DEF OfferEffect
  <1> QED BY <1>2, <1>3, QuietSold

LEMMA RequestSold ==
    ASSUME SoldInv, RefundsStay, NEW r \in Requests, RequestStep(r)
    PROVE  SoldIsExplained'
  <1> DEFINE b == req[r].bk
  <1>1. TypeOK /\ RowsExist
    BY DEF SoldInv, SeatInv
  <1>2. CASE (\E c \in Bookings : PayRead(r, c) \/ CancelRead(r, c)) \/ Abort(r)
    <2>1. UNCHANGED <<seat, heldBy, status, bseats, overwritten>>
      BY <1>2 DEF PayRead, CancelRead, Decide, Abort, seatVars
    <2> QED BY <2>1, QuietSold
  <1>3. CASE PayCommit(r)
    <2>1. /\ b \in Bookings /\ overwritten \subseteq overwritten'
          /\ b \in overwritten' \/ status[b] \in Live
      BY <1>1, <1>3, FinishFacts DEF PayCommit, Finish
    <2>2. /\ UNCHANGED <<seat, heldBy, bseats>>
          /\ status' = [status EXCEPT ![b] = "PAYMENT_PENDING"]
      BY <1>3 DEF PayCommit, seatVars
    <2>3. ASSUME NEW s \in Seats, seat[s] = "SOLD"
          PROVE  heldBy[s] \in overwritten' \/ status'[heldBy[s]] = status[heldBy[s]]
      <3>1. heldBy[s] \in Bookings /\ Explained(s, heldBy[s])
        BY <2>3, SoldFacts
      <3>2. CASE heldBy[s] = b
        BY <2>1, <3>1, <3>2 DEF Explained, Live
      <3>3. CASE heldBy[s] # b
        BY <1>1, <2>2, <3>1, <3>3 DEF TypeOK
      <3> QED BY <3>2, <3>3
    <2> QED BY <2>1, <2>2, <2>3, QuietSold
  <1>4. ASSUME NEW st \in Ended, req[r].op # "idle", Finish(r),
               NEW F \in FreedByRequest(b), EndBooking(b, F, st),
               b \in overwritten' \/ status[b] \in Live
        PROVE  SoldIsExplained'
    <2>1. /\ F \in SUBSET bseats[b]
          /\ b \in Bookings /\ status[b] # "NONE" /\ overwritten \subseteq overwritten'
      BY <1>1, <1>4, FinishFacts, FreedAreListed
    <2>2. ASSUME NEW s \in Seats, seat[s] = "SOLD", heldBy[s] = b
          PROVE  b \in overwritten'
      BY <1>4, <2>1, <2>2, SoldFacts DEF Explained, Live
    <2> QED BY <1>4, <2>1, <2>2, EndBookingSold
  <1>5. CASE LatePayCommit(r)
    BY <1>4, <1>5 DEF LatePayCommit, Ended, Finish
  <1>6. CASE CancelHeldCommit(r)
    BY <1>4, <1>6 DEF CancelHeldCommit, Ended, Finish
  <1>7. CASE CancelSoldCommit(r)
    <2>1. /\ b \in Bookings /\ status[b] # "NONE" /\ overwritten \subseteq overwritten'
          /\ FreeSoldSeats(b) \in SUBSET bseats[b]
      BY <1>1, <1>7, FinishFacts, FreedAreListed DEF CancelSoldCommit
    <2>2. \A s \in Seats : seat[s] = "SOLD" /\ heldBy[s] = b => s \in FreeSoldSeats(b)
      BY SoldFacts DEF FreeSoldSeats
    <2> QED BY <1>7, <2>1, <2>2, EndBookingSold DEF CancelSoldCommit, Ended
  <1> QED BY <1>2, <1>3, <1>5, <1>6, <1>7 DEF RequestStep

LEMMA PaymentSold ==
    ASSUME SoldInv, RefundsStay, NEW p \in Payments, PaymentStep(p)
    PROVE  SoldIsExplained'
  <1> DEFINE b == payFor[p]
  <1>1. TypeOK /\ RowsExist
    BY DEF SoldInv, SeatInv
  <1>2. CASE RecordPayment(p) \/ WebhookRefund(p)
             \/ (WebhookFailed(p) /\ status[b] # "PAYMENT_PENDING")
    <2>1. UNCHANGED <<seat, heldBy, status, bseats, overwritten>>
      BY <1>2 DEF RecordPayment, WebhookRefund, WebhookFailed, seatVars
    <2> QED BY <2>1, QuietSold
  <1>3. CASE WebhookFailed(p) /\ status[b] = "PAYMENT_PENDING"
    <2>1. b \in Bookings /\ status[b] # "NONE" /\ FreeHeldSeats(b) \in SUBSET bseats[b]
      BY <1>1, <1>3, SettledBooking, FreedAreListed DEF WebhookFailed
    <2>2. \A s \in Seats : seat[s] = "SOLD" /\ heldBy[s] = b => b \in overwritten
      BY <1>3, SoldFacts DEF Explained
    <2> QED BY <1>3, <2>1, <2>2, EndBookingSold DEF WebhookFailed, Ended
  <1>4. CASE WebhookConfirm(p)
    <2>1. /\ b \in Bookings
          /\ seat' = [s \in Seats |-> IF s \in SellHeldSeats(b) THEN "SOLD" ELSE seat[s]]
          /\ status' = [status EXCEPT ![b] = "CONFIRMED"]
          /\ UNCHANGED <<heldBy, bseats, overwritten>>
      BY <1>1, <1>4, SettledBooking DEF WebhookConfirm, ConfirmBooking
    <2> SUFFICES ASSUME NEW s \in Seats, seat'[s] = "SOLD"
                 PROVE  \E c : heldBy'[s] = c /\ Explained(s, c)'
      BY SoldGoal
    <2>2. CASE s \in SellHeldSeats(b) \/ heldBy[s] = b
      <3>1. PICK c : c = b
        OBVIOUS
      <3>2. heldBy[s] = c /\ s \in bseats[c]
        BY <1>1, <2>1, <2>2, <3>1, NamesAreDistinct
           DEF SellHeldSeats, SoldInv, SeatInv, HeldHasLiveBooking, HeldSeatsAreListed
      <3>3. status'[c] = "CONFIRMED" /\ s \in bseats'[c] /\ heldBy'[s] = c
        BY <1>1, <2>1, <3>1, <3>2 DEF TypeOK
      <3> QED BY <3>3 DEF Explained
    <2>3. CASE s \notin SellHeldSeats(b) /\ heldBy[s] # b
      <3>1. PICK c : c = heldBy[s]
        OBVIOUS
      <3>2. seat[s] = "SOLD" /\ c \in Bookings /\ Explained(s, c)
        BY <2>1, <2>3, <3>1, SoldFacts
      <3>3. status'[c] = status[c] /\ heldBy'[s] = c
        BY <1>1, <2>1, <2>3, <3>1, <3>2 DEF TypeOK
      <3> QED BY <2>1, <3>2, <3>3, StaysExplained
    <2> QED BY <2>2, <2>3
  <1>5. CASE WebhookLate(p)
    <2>1. PICK T \in Reacquired(b) :
              /\ seat' = [s \in Seats |-> IF s \in T THEN "SOLD" ELSE seat[s]]
              /\ heldBy' = [s \in Seats |-> IF s \in T THEN b ELSE heldBy[s]]
              /\ IF T = bseats[b]
                 THEN ConfirmBooking(b) /\ pay' = [pay EXCEPT ![p] = "SUCCEEDED"]
                 ELSE UNCHANGED <<status, entry>> /\ Refund(p)
      BY <1>5 DEF WebhookLate
    <2>2. /\ b \in Bookings /\ status[b] = "EXPIRED"
          /\ UNCHANGED <<bseats, payFor, overwritten>>
          /\ T \subseteq bseats[b] /\ \A s \in T : seat[s] = "FREE"
      BY <1>1, <1>5, SettledBooking DEF WebhookLate, Reacquired
    <2>3. \/ T = bseats[b] /\ status' = [status EXCEPT ![b] = "CONFIRMED"]
          \/ T # bseats[b] /\ status' = status /\ pay' = [pay EXCEPT ![p] = "REFUNDED"]
      BY <2>1 DEF ConfirmBooking, Refund
    <2> SUFFICES ASSUME NEW s \in Seats, seat'[s] = "SOLD"
                 PROVE  \E c : heldBy'[s] = c /\ Explained(s, c)'
      BY SoldGoal
    <2>4. CASE s \in T
      <3>1. PICK c : c = b
        OBVIOUS
      <3>2. heldBy'[s] = c /\ s \in bseats'[c]
        BY <2>1, <2>2, <2>4, <3>1
      <3>3. \/ status'[c] = "CONFIRMED"
            \/ status'[c] = "EXPIRED" /\ payFor'[p] = c /\ pay'[p] = "REFUNDED"
        BY <1>1, <2>2, <2>3, <3>1 DEF TypeOK
      <3> QED BY <3>2, <3>3 DEF Explained
    <2>5. CASE s \notin T
      <3>1. PICK c : c = heldBy[s]
        OBVIOUS
      <3>2. seat[s] = "SOLD" /\ heldBy'[s] = c
        BY <2>1, <2>5, <3>1
      <3>3. c \in Bookings /\ s \in bseats[c] /\ Explained(s, c)
        BY <3>1, <3>2, SoldFacts
      <3>4. status'[c] = status[c] \/ (c = b /\ s \in T)
        BY <1>1, <2>3, <3>3 DEF TypeOK
      <3> QED BY <2>2, <2>5, <3>2, <3>3, <3>4, StaysExplained
    <2> QED BY <2>4, <2>5
  <1> QED BY <1>2, <1>3, <1>4, <1>5 DEF PaymentStep

LEMMA NextSold == SoldInv /\ [Next]_vars => SoldIsExplained'
  <1> SUFFICES ASSUME SoldInv, [Next]_vars PROVE SoldIsExplained'
    OBVIOUS
  <1>1. TypeOK /\ RowsExist /\ RefundsStay
    BY NextRefunds DEF SoldInv, SeatInv
  <1>2. ASSUME NEW b \in Holds, NEW S \in (SUBSET Seats) \ {{}}, Hold(b, S)
        PROVE  SoldIsExplained'
    <2>1. /\ b \in Bookings /\ status[b] = "NONE" /\ \A s \in S : seat[s] = "FREE"
          /\ seat' = [s \in Seats |-> IF s \in S THEN "HELD" ELSE seat[s]]
          /\ heldBy' = [s \in Seats |-> IF s \in S THEN b ELSE heldBy[s]]
          /\ status' = [status EXCEPT ![b] = "HELD"]
          /\ bseats' = [bseats EXCEPT ![b] = S]
          /\ overwritten' = overwritten
      BY <1>2 DEF Hold
    <2>2. \A s \in Seats : seat[s] = "SOLD" => heldBy[s] \in Bookings /\ heldBy[s] # b
      BY <2>1, SoldFacts
    <2>3. \A s \in Seats : seat[s] = "SOLD" =>
              status'[heldBy[s]] = status[heldBy[s]] /\ bseats'[heldBy[s]] = bseats[heldBy[s]]
      BY <1>1, <2>1, <2>2 DEF TypeOK
    <2>4. \A s \in Seats : seat'[s] = "SOLD" => seat[s] = "SOLD" /\ heldBy'[s] = heldBy[s]
      BY <2>1
    <2> QED BY <1>1, <2>1, <2>3, <2>4, QuietSold
  <1>3. ASSUME NEW b \in Bookings, Sweep(b) PROVE SoldIsExplained'
    <2>1. /\ status[b] \in Live /\ overwritten' = overwritten
          /\ EndBooking(b, FreeHeldSeats(b), "EXPIRED")
          /\ FreeHeldSeats(b) \in SUBSET bseats[b]
      BY <1>3, FreedAreListed DEF Sweep
    <2>2. \A s \in Seats : seat[s] = "SOLD" /\ heldBy[s] = b => b \in overwritten
      BY <2>1, SoldFacts DEF Explained, Live
    <2>3. status[b] # "NONE" /\ "EXPIRED" \in Ended
      BY <2>1 DEF Live, Ended
    <2> QED BY <1>1, <2>1, <2>2, <2>3, EndBookingSold
  <1>4. CASE \/ \E b \in Bookings : Lapse(b)
             \/ \E w \in Waiters : Join(w)
             \/ StaleRead \/ StaleCommit \/ WorkerRestart \/ UNCHANGED vars
    <2>1. UNCHANGED <<seat, heldBy, status, bseats, overwritten>>
      BY <1>4 DEF Lapse, Join, StaleRead, StaleCommit, WorkerRestart, vars, seatVars
    <2> QED BY <1>1, <2>1, QuietSold
  <1> QED BY <1>1, <1>2, <1>3, <1>4, RequestSold, PaymentSold DEF Next

\* A SOLD seat that has no ticket was kept by a late payment that was refunded half
\* way, or taken from its owner by a stale request; there is no other way to lose one.
THEOREM SoldIsExplainedCorrect == Spec => []SoldIsExplained
  <1>1. Init => SoldInv
    <2>1. Init => SoldIsExplained
      BY DEF Init, SoldIsExplained
    <2> QED BY <2>1, InitSeat DEF SoldInv
  <1>2. SoldInv /\ [Next]_vars => SoldInv'
    BY NextType, NextRows, NextSafe, NextSold DEF SoldInv, SeatInv
  <1>3. SoldInv => SoldIsExplained
    BY DEF SoldInv
  <1> QED BY <1>1, <1>2, <1>3, PTL DEF Spec

-----------------------------------------------------------------------------
(***************************************************************************)
(* The inductive invariant of the money                                    *)
(***************************************************************************)

MoneyInv ==
    /\ TypeOK /\ RowsExist
    /\ ConfirmedIsPaid /\ MoneyHasTicket /\ PaidOnce /\ ClaimedIsPaid

MoneyFacts == ConfirmedIsPaid /\ MoneyHasTicket /\ PaidOnce /\ ClaimedIsPaid

\* Ending b keeps the money straight if b has no ticket, if its ticket is
\* cancelled, or if that is recorded in overwritten.
LEMMA EndBookingMoney ==
    ASSUME MoneyInv,
           NEW b \in Bookings, status[b] # "NONE",
           NEW F \in SUBSET bseats[b], NEW st \in Ended,
           EndBooking(b, F, st),
           overwritten \subseteq overwritten',
           \/ st = "CANCELLED" \/ b \in overwritten'
           \/ status[b] \notin {"CONFIRMED", "CANCELLED"},
           payFor' = payFor,
           \A p \in Payments : pay'[p] = "SUCCEEDED" <=> pay[p] = "SUCCEEDED"
    PROVE  MoneyFacts'
  <1>1. PICK o : OfferEffect(o, b, F, st)
    BY EndBookingEffect DEF MoneyInv
  \* Bookings that exist are not created by an offer and keep their seats.
  <1>2. ASSUME NEW c \in Bookings, status[c] # "NONE"
        PROVE  bseats'[c] = bseats[c] /\ status'[c] = IF c = b THEN st ELSE status[c]
    <2>1. \A s \in DOMAIN o : o[s] # c
      BY <1>1, <1>2 DEF OfferEffect
    <2> QED BY <1>1, <2>1 DEF OfferEffect
  <1>3. ASSUME NEW p \in Payments, pay'[p] = "SUCCEEDED"
        PROVE  /\ pay[p] = "SUCCEEDED" /\ payFor[p] \in Bookings
               /\ status[payFor[p]] # "NONE"
    BY <1>3 DEF MoneyInv, RowsExist, TypeOK
  <1>4. ConfirmedIsPaid'
    <2> SUFFICES ASSUME NEW c \in Bookings, status'[c] = "CONFIRMED"
                 PROVE  \E p \in Payments : pay'[p] = "SUCCEEDED" /\ payFor'[p] = c
      BY DEF ConfirmedIsPaid
    <2>1. \A s \in DOMAIN o : o[s] # c
      BY <1>1 DEF OfferEffect
    <2>2. status[c] = "CONFIRMED"
      BY <1>1, <2>1 DEF OfferEffect, Ended
    <2> QED BY <2>2 DEF MoneyInv, ConfirmedIsPaid
  <1>5. MoneyHasTicket'
    <2> SUFFICES ASSUME NEW p \in Payments, pay'[p] = "SUCCEEDED",
                        payFor[p] \notin overwritten'
                 PROVE  status'[payFor[p]] \in {"CONFIRMED", "CANCELLED"}
      BY DEF MoneyHasTicket
    <2>1. status[payFor[p]] \in {"CONFIRMED", "CANCELLED"}
      BY <1>3 DEF MoneyInv, MoneyHasTicket
    <2> QED BY <1>2, <1>3, <2>1
  <1>6. PaidOnce'
    BY <1>3 DEF MoneyInv, PaidOnce
  <1>7. ClaimedIsPaid'
    <2> SUFFICES ASSUME NEW w \in Waiters, entry'[w] = "CLAIMED"
                 PROVE  \E p \in Payments :
                            pay'[p] = "SUCCEEDED" /\ bseats'[payFor[p]] \cap bseats'[w] # {}
      BY DEF ClaimedIsPaid
    <2>1. \A s \in DOMAIN o : o[s] # w
      BY <1>1 DEF OfferEffect
    <2>2. entry[w] = "CLAIMED" /\ bseats'[w] = bseats[w]
      BY <1>1, <2>1 DEF OfferEffect
    <2>3. PICK p \in Payments : pay[p] = "SUCCEEDED" /\ bseats[payFor[p]] \cap bseats[w] # {}
      BY <2>2 DEF MoneyInv, ClaimedIsPaid
    <2> QED BY <1>2, <1>3, <2>2, <2>3
  <1> QED BY <1>4, <1>5, <1>6, <1>7 DEF MoneyFacts

\* A step that settles no payment and moves no booking into or out of having a
\* ticket.
LEMMA QuietMoney ==
    ASSUME MoneyInv,
           overwritten \subseteq overwritten',
           \A c \in Bookings : status[c] # "NONE" => bseats'[c] = bseats[c],
           \A c \in Bookings \ overwritten' :
               status[c] \in {"CONFIRMED", "CANCELLED"} => status'[c] = status[c],
           \A c \in Bookings : status'[c] = "CONFIRMED" => status[c] = "CONFIRMED",
           \A w \in Waiters : entry'[w] = "CLAIMED" => entry[w] = "CLAIMED",
           \A p \in Payments :
               /\ pay'[p] = "SUCCEEDED" <=> pay[p] = "SUCCEEDED"
               /\ pay[p] = "SUCCEEDED" => payFor'[p] = payFor[p]
    PROVE  MoneyFacts'
  <1>1. ASSUME NEW p \in Payments, pay'[p] = "SUCCEEDED"
        PROVE  /\ pay[p] = "SUCCEEDED" /\ payFor[p] \in Bookings
               /\ status[payFor[p]] # "NONE" /\ payFor'[p] = payFor[p]
    BY <1>1 DEF MoneyInv, RowsExist, TypeOK
  <1>2. ConfirmedIsPaid'
    <2> SUFFICES ASSUME NEW c \in Bookings, status'[c] = "CONFIRMED"
                 PROVE  \E p \in Payments : pay'[p] = "SUCCEEDED" /\ payFor'[p] = c
      BY DEF ConfirmedIsPaid
    <2>1. PICK p \in Payments : pay[p] = "SUCCEEDED" /\ payFor[p] = c
      BY DEF MoneyInv, ConfirmedIsPaid
    <2> QED BY <2>1
  <1>3. MoneyHasTicket'
    <2> SUFFICES ASSUME NEW p \in Payments, pay'[p] = "SUCCEEDED",
                        payFor'[p] \notin overwritten'
                 PROVE  status'[payFor'[p]] \in {"CONFIRMED", "CANCELLED"}
      BY DEF MoneyHasTicket
    <2>1. status[payFor[p]] \in {"CONFIRMED", "CANCELLED"}
      BY <1>1 DEF MoneyInv, MoneyHasTicket
    <2> QED BY <1>1, <2>1
  <1>4. PaidOnce'
    BY <1>1 DEF MoneyInv, PaidOnce
  <1>5. ClaimedIsPaid'
    <2> SUFFICES ASSUME NEW w \in Waiters, entry'[w] = "CLAIMED"
                 PROVE  \E p \in Payments :
                            pay'[p] = "SUCCEEDED" /\ bseats'[payFor'[p]] \cap bseats'[w] # {}
      BY DEF ClaimedIsPaid
    <2>1. PICK p \in Payments : pay[p] = "SUCCEEDED" /\ bseats[payFor[p]] \cap bseats[w] # {}
      BY DEF MoneyInv, ClaimedIsPaid
    <2>2. status[w] # "NONE"
      BY <2>1 DEF MoneyInv, RowsExist
    <2>3. bseats'[w] = bseats[w] /\ bseats'[payFor'[p]] = bseats[payFor[p]]
      BY <1>1, <2>1, <2>2
    <2> QED BY <2>1, <2>3
  <1> QED BY <1>2, <1>3, <1>4, <1>5 DEF MoneyFacts

LEMMA RequestMoney ==
    ASSUME MoneyInv, NEW r \in Requests, RequestStep(r)
    PROVE  MoneyFacts'
  <1> DEFINE b == req[r].bk
  <1>1. TypeOK /\ RowsExist
    BY DEF MoneyInv
  <1>2. CASE \/ \E c \in Bookings : PayRead(r, c) \/ CancelRead(r, c)
             \/ Abort(r)
    <2>1. UNCHANGED <<status, bseats, entry, pay, payFor, overwritten>>
      BY <1>2 DEF PayRead, CancelRead, Decide, Abort, payVars
    <2> QED BY <2>1, QuietMoney
  <1>3. CASE PayCommit(r)
    <2>1. /\ b \in Bookings /\ overwritten \subseteq overwritten'
          /\ b \in overwritten' \/ status[b] \in Live
      BY <1>1, <1>3, FinishFacts DEF PayCommit, Finish
    <2>2. PICK p \in Payments : /\ pay[p] = "NONE"
                                /\ pay' = [pay EXCEPT ![p] = "CHARGED"]
                                /\ payFor' = [payFor EXCEPT ![p] = b]
      BY <1>3 DEF PayCommit
    <2>3. \A q \in Payments : /\ pay'[q] = "SUCCEEDED" <=> pay[q] = "SUCCEEDED"
                              /\ pay[q] = "SUCCEEDED" => payFor'[q] = payFor[q]
      BY <1>1, <2>2 DEF TypeOK
    <2>4. /\ status' = [status EXCEPT ![b] = "PAYMENT_PENDING"]
          /\ UNCHANGED <<bseats, entry>>
      BY <1>3 DEF PayCommit
    <2>5. \A c \in Bookings \ overwritten' :
              status[c] \in {"CONFIRMED", "CANCELLED"} => status'[c] = status[c]
      BY <1>1, <2>1, <2>4 DEF TypeOK, Live
    <2>6. \A c \in Bookings : status'[c] = "CONFIRMED" => status[c] = "CONFIRMED"
      BY <1>1, <2>4 DEF TypeOK
    <2> QED BY <2>1, <2>3, <2>4, <2>5, <2>6, QuietMoney
  <1>4. CASE LatePayCommit(r)
    <2>1. b \in overwritten' \/ status[b] \notin {"CONFIRMED", "CANCELLED"}
      BY <1>4 DEF LatePayCommit, Finish, Live
    <2> QED BY <1>1, <1>4, <2>1, FinishFacts, FreedAreListed, EndBookingMoney
            DEF LatePayCommit, Ended, payVars
  <1>5. CASE CancelHeldCommit(r)
    BY <1>1, <1>5, FinishFacts, FreedAreListed, EndBookingMoney
       DEF CancelHeldCommit, Ended, payVars
  <1>6. CASE CancelSoldCommit(r)
    BY <1>1, <1>6, FinishFacts, FreedAreListed, EndBookingMoney
       DEF CancelSoldCommit, Ended, payVars
  <1> QED BY <1>2, <1>3, <1>4, <1>5, <1>6 DEF RequestStep

\* A booking is confirmed by p: it was PAYMENT_PENDING or EXPIRED, so that no
\* earlier payment of it was kept.
LEMMA ConfirmMoney ==
    ASSUME MoneyInv, NEW p \in Payments, CanSettle(p),
           status[payFor[p]] \in {"PAYMENT_PENDING", "EXPIRED"},
           ConfirmBooking(payFor[p]),
           pay' = [pay EXCEPT ![p] = "SUCCEEDED"],
           UNCHANGED <<bseats, payFor, overwritten>>
    PROVE  MoneyFacts'
  <1> DEFINE b == payFor[p]
  <1>1. b \in Bookings /\ TypeOK /\ RowsExist
    BY SettledBooking DEF MoneyInv
  <1>2. \A q \in Payments : pay'[q] = "SUCCEEDED" <=> (q = p \/ pay[q] = "SUCCEEDED")
    BY <1>1 DEF TypeOK
  <1>3. \A c \in Bookings : status'[c] = IF c = b THEN "CONFIRMED" ELSE status[c]
    BY <1>1 DEF ConfirmBooking, TypeOK
  <1>4. ConfirmedIsPaid'
    BY <1>2, <1>3 DEF ConfirmedIsPaid, MoneyInv
  <1>5. MoneyHasTicket'
    BY <1>1, <1>2, <1>3 DEF MoneyHasTicket, MoneyInv, TypeOK
  <1>6. PaidOnce'
    BY <1>1, <1>2 DEF PaidOnce, MoneyHasTicket, MoneyInv
  <1>7. ClaimedIsPaid'
    BY <1>1, <1>2 DEF ClaimedIsPaid, MoneyInv, ConfirmBooking
  <1> QED BY <1>4, <1>5, <1>6, <1>7 DEF MoneyFacts

LEMMA PaymentMoney ==
    ASSUME MoneyInv, NEW p \in Payments, PaymentStep(p)
    PROVE  MoneyFacts'
  <1>1. TypeOK /\ RowsExist
    BY DEF MoneyInv
  <1>2. ASSUME NEW v \in {"PENDING", "FAILED", "REFUNDED"},
               pay[p] # "SUCCEEDED", pay' = [pay EXCEPT ![p] = v]
        PROVE  \A q \in Payments : pay'[q] = "SUCCEEDED" <=> pay[q] = "SUCCEEDED"
    BY <1>1, <1>2 DEF TypeOK
  <1>3. CASE RecordPayment(p)
    BY <1>2, <1>3, QuietMoney DEF RecordPayment
  <1>4. CASE WebhookFailed(p)
    <2>1. \A q \in Payments : pay'[q] = "SUCCEEDED" <=> pay[q] = "SUCCEEDED"
      BY <1>2, <1>4 DEF WebhookFailed, CanSettle
    <2>2. CASE status[payFor[p]] = "PAYMENT_PENDING"
      BY <1>1, <1>4, <2>1, <2>2, SettledBooking, FreedAreListed, EndBookingMoney
         DEF WebhookFailed, Ended
    <2>3. CASE status[payFor[p]] # "PAYMENT_PENDING"
      BY <1>4, <2>1, <2>3, QuietMoney DEF WebhookFailed
    <2> QED BY <2>2, <2>3
  <1>5. CASE WebhookConfirm(p)
    BY <1>5, ConfirmMoney DEF WebhookConfirm
  <1>6. CASE WebhookLate(p)
    <2>1. CASE ConfirmBooking(payFor[p]) /\ pay' = [pay EXCEPT ![p] = "SUCCEEDED"]
      BY <1>6, <2>1, ConfirmMoney DEF WebhookLate
    <2>2. CASE UNCHANGED <<status, entry>> /\ Refund(p)
      <3>1. \A q \in Payments : pay'[q] = "SUCCEEDED" <=> pay[q] = "SUCCEEDED"
        BY <1>2, <1>6, <2>2 DEF WebhookLate, Refund, CanSettle
      <3> QED BY <1>6, <2>2, <3>1, QuietMoney DEF WebhookLate
    <2> QED BY <1>6, <2>1, <2>2 DEF WebhookLate
  <1>7. CASE WebhookRefund(p)
    <2>1. \A q \in Payments : pay'[q] = "SUCCEEDED" <=> pay[q] = "SUCCEEDED"
      BY <1>2, <1>7 DEF WebhookRefund, Refund, CanSettle
    <2> QED BY <1>7, <2>1, QuietMoney DEF WebhookRefund
  <1> QED BY <1>3, <1>4, <1>5, <1>6, <1>7 DEF PaymentStep

LEMMA NextMoney == MoneyInv /\ [Next]_vars => MoneyFacts'
  <1> SUFFICES ASSUME MoneyInv, [Next]_vars PROVE MoneyFacts'
    OBVIOUS
  <1>1. TypeOK /\ RowsExist
    BY DEF MoneyInv
  <1>2. ASSUME NEW b \in Holds, NEW S \in (SUBSET Seats) \ {{}}, Hold(b, S)
        PROVE  MoneyFacts'
    <2>1. /\ \A c \in Bookings : c # b => bseats'[c] = bseats[c] /\ status'[c] = status[c]
          /\ status[b] = "NONE" /\ status'[b] = "HELD"
          /\ UNCHANGED <<entry, pay, payFor, overwritten>>
      BY <1>1, <1>2 DEF Hold, TypeOK, payVars
    <2> QED BY <2>1, QuietMoney
  <1>3. ASSUME NEW b \in Bookings, Sweep(b)
        PROVE  MoneyFacts'
    BY <1>3, FreedAreListed, EndBookingMoney DEF Sweep, Ended, Live, payVars
  <1>4. ASSUME NEW w \in Waiters, Join(w)
        PROVE  MoneyFacts'
    <2>1. UNCHANGED <<status, bseats, pay, payFor, overwritten>>
      BY <1>4 DEF Join, payVars
    <2>2. \A v \in Waiters : entry'[v] = "CLAIMED" => entry[v] = "CLAIMED"
      BY <1>1, <1>4 DEF Join, TypeOK
    <2> QED BY <2>1, <2>2, QuietMoney
  <1>5. CASE StaleCommit
    <2>1. UNCHANGED <<status, bseats, pay, payFor, overwritten>>
      BY <1>5 DEF StaleCommit, payVars
    <2>2. \A v \in Waiters : entry'[v] = "CLAIMED" => entry[v] = "CLAIMED"
      BY <1>5 DEF StaleCommit
    <2> QED BY <2>1, <2>2, QuietMoney
  <1>6. CASE \/ \E b \in Bookings : Lapse(b)
             \/ StaleRead \/ WorkerRestart \/ UNCHANGED vars
    <2>1. UNCHANGED <<status, bseats, entry, pay, payFor, overwritten>>
      BY <1>6 DEF Lapse, StaleRead, WorkerRestart, vars, payVars
    <2> QED BY <2>1, QuietMoney
  <1> QED
    BY <1>2, <1>3, <1>4, <1>5, <1>6, RequestMoney, PaymentMoney DEF Next

LEMMA MoneyInvInductive == Spec => []MoneyInv
  <1>1. Init => MoneyInv
    BY InitType
       DEF Init, MoneyInv, RowsExist, ConfirmedIsPaid, MoneyHasTicket, PaidOnce, ClaimedIsPaid
  <1>2. MoneyInv /\ [Next]_vars => MoneyInv'
    BY NextType, NextRows, NextMoney DEF MoneyInv, MoneyFacts
  <1> QED BY <1>1, <1>2, PTL DEF Spec

\* Every ticket is backed by a payment that was kept.
THEOREM ConfirmedIsPaidCorrect == Spec => []ConfirmedIsPaid
  BY MoneyInvInductive, PTL DEF MoneyInv

\* Every payment that is kept has a ticket behind it, unless a stale request
\* has overwritten its booking.
THEOREM MoneyHasTicketCorrect == Spec => []MoneyHasTicket
  BY MoneyInvInductive, PTL DEF MoneyInv

\* No booking that no stale request has overwritten is paid for twice, however many
\* payments were started for it.
THEOREM PaidOnceCorrect == Spec => []PaidOnce
  BY MoneyInvInductive, PTL DEF MoneyInv

\* A waitlist entry is CLAIMED only if its seat was paid for.
THEOREM ClaimedIsPaidCorrect == Spec => []ClaimedIsPaid
  BY MoneyInvInductive, PTL DEF MoneyInv

-----------------------------------------------------------------------------
(***************************************************************************)
(* The inductive invariant of the claims: the worker writes EXPIRED over   *)
(* entries whose time is up and over no others, and a booking has seats,   *)
(* by which _confirm_booking finds the entry of a waiter                   *)
(***************************************************************************)

StaleHaveLapsed ==
    /\ snapshot \subseteq lapsed
    /\ \A w \in Waiters : entry[w] = "EXPIRED" => w \in lapsed

BookingsHaveSeats == \A b \in Bookings : status[b] # "NONE" => bseats[b] # {}

ClaimFacts == StaleHaveLapsed /\ BookingsHaveSeats /\ BuyerIsClaimed
ClaimInv == TypeOK /\ RowsExist /\ ClaimFacts

\* A step that confirms nothing and expires only entries whose time is up.
LEMMA QuietClaim ==
    ASSUME ClaimInv,
           lapsed \subseteq lapsed', snapshot' \subseteq lapsed',
           \A c \in Bookings : status'[c] # "NONE" => bseats'[c] # {},
           \A w \in Waiters : status'[w] = "CONFIRMED" => status[w] = "CONFIRMED",
           \A w \in Waiters : \/ entry'[w] = entry[w] \/ w \in lapsed'
                              \/ status'[w] # "CONFIRMED" /\ entry'[w] # "EXPIRED"
    PROVE  ClaimFacts'
  <1>1. StaleHaveLapsed'
    BY DEF ClaimInv, ClaimFacts, StaleHaveLapsed
  <1>2. BookingsHaveSeats'
    BY DEF BookingsHaveSeats
  <1>3. BuyerIsClaimed'
    BY DEF ClaimInv, ClaimFacts, BuyerIsClaimed
  <1> QED BY <1>1, <1>2, <1>3 DEF ClaimFacts

LEMMA EndBookingClaim ==
    ASSUME ClaimInv,
           NEW b \in Bookings, status[b] # "NONE",
           NEW F \in SUBSET bseats[b], NEW st \in Ended,
           EndBooking(b, F, st), UNCHANGED <<lapsed, snapshot>>
    PROVE  ClaimFacts'
  <1>1. PICK o : OfferEffect(o, b, F, st)
    BY EndBookingEffect DEF ClaimInv
  <1>2. ASSUME NEW c \in Bookings, \E s \in DOMAIN o : o[s] = c
        PROVE  /\ status'[c] = "HELD" /\ bseats'[c] # {}
               /\ c \in Waiters => entry'[c] = "OFFERED"
    BY <1>1, <1>2 DEF OfferEffect
  <1>3. ASSUME NEW c \in Bookings, \A s \in DOMAIN o : o[s] # c
        PROVE  /\ status'[c] = IF c = b THEN st ELSE status[c]
               /\ bseats'[c] = bseats[c]
               /\ c \in Waiters => entry'[c] = entry[c]
    BY <1>1, <1>3 DEF OfferEffect
  <1>4. \A c \in Bookings : status'[c] # "NONE" => bseats'[c] # {}
    BY <1>2, <1>3 DEF ClaimInv, ClaimFacts, BookingsHaveSeats
  <1>5. \A w \in Waiters : status'[w] = "CONFIRMED" => status[w] = "CONFIRMED"
    BY <1>2, <1>3 DEF Ended, Bookings
  <1>6. \A w \in Waiters : \/ entry'[w] = entry[w]
                           \/ status'[w] # "CONFIRMED" /\ entry'[w] # "EXPIRED"
    BY <1>2, <1>3 DEF Bookings
  <1>7. lapsed \subseteq lapsed' /\ snapshot' \subseteq lapsed'
    BY DEF ClaimInv, ClaimFacts, StaleHaveLapsed
  <1> QED BY <1>4, <1>5, <1>6, <1>7, QuietClaim

\* The entry of a confirmed booking is CLAIMED by then, unless it had expired.
LEMMA ConfirmClaim ==
    ASSUME ClaimInv, NEW b \in Bookings, status[b] # "NONE", ConfirmBooking(b),
           UNCHANGED <<bseats, lapsed, snapshot>>
    PROVE  ClaimFacts'
  <1>1. TypeOK /\ RowsExist /\ ClaimFacts
    BY DEF ClaimInv
  <1>2. /\ \A c \in Bookings : status'[c] = IF c = b THEN "CONFIRMED" ELSE status[c]
        /\ \A w \in Waiters : entry'[w] =
              IF entry[w] = "OFFERED" /\ bseats[w] \cap bseats[b] # {} THEN "CLAIMED" ELSE entry[w]
    BY <1>1 DEF ConfirmBooking, TypeOK
  <1>3. StaleHaveLapsed'
    BY <1>1, <1>2 DEF ClaimFacts, StaleHaveLapsed
  <1>4. BookingsHaveSeats'
    BY <1>1, <1>2 DEF ClaimFacts, BookingsHaveSeats
  <1>5. ASSUME NEW w \in Waiters, status'[w] = "CONFIRMED"
        PROVE  entry'[w] = "CLAIMED" \/ w \in lapsed'
    <2>1. CASE w = b
      <3>1. bseats[w] \cap bseats[b] # {}
        BY <1>1, <2>1 DEF ClaimFacts, BookingsHaveSeats
      <3>2. entry[w] \in {"OFFERED", "EXPIRED", "CLAIMED"}
        BY <1>1, <2>1 DEF TypeOK, RowsExist, WaitlistStatus
      <3>3. entry[w] = "EXPIRED" => w \in lapsed'
        BY <1>1 DEF ClaimFacts, StaleHaveLapsed
      <3> QED BY <1>2, <3>1, <3>2, <3>3
    <2>2. CASE w # b
      BY <1>1, <1>2, <1>5, <2>2 DEF ClaimFacts, BuyerIsClaimed, Bookings
    <2> QED BY <2>1, <2>2
  <1> QED BY <1>3, <1>4, <1>5 DEF ClaimFacts, BuyerIsClaimed

LEMMA RequestClaim ==
    ASSUME ClaimInv, NEW r \in Requests, RequestStep(r)
    PROVE  ClaimFacts'
  <1> DEFINE b == req[r].bk
  <1>1. TypeOK /\ RowsExist /\ StaleHaveLapsed /\ BookingsHaveSeats
    BY DEF ClaimInv, ClaimFacts
  <1>2. CASE (\E c \in Bookings : PayRead(r, c) \/ CancelRead(r, c)) \/ Abort(r)
    <2>1. UNCHANGED <<status, bseats, entry, lapsed, snapshot>>
      BY <1>2 DEF PayRead, CancelRead, Decide, Abort
    <2> QED BY <1>1, <2>1, QuietClaim DEF StaleHaveLapsed, BookingsHaveSeats
  <1>3. CASE PayCommit(r)
    <2>1. b \in Bookings /\ status[b] # "NONE"
      BY <1>1, <1>3, FinishFacts DEF PayCommit
    <2>2. /\ \A c \in Bookings : status'[c] = IF c = b THEN "PAYMENT_PENDING" ELSE status[c]
          /\ UNCHANGED <<bseats, entry, lapsed, snapshot>>
      BY <1>1, <1>3 DEF PayCommit, Finish, TypeOK
    <2>3. \A w \in Waiters : status'[w] = "CONFIRMED" => status[w] = "CONFIRMED"
      BY <2>2 DEF Bookings
    <2> QED BY <1>1, <2>1, <2>2, <2>3, QuietClaim DEF StaleHaveLapsed, BookingsHaveSeats
  <1>4. ASSUME NEW F \in SUBSET bseats[b], NEW st \in Ended, req[r].op # "idle", Finish(r),
               EndBooking(b, F, st)
        PROVE  ClaimFacts'
    BY <1>1, <1>4, FinishFacts, EndBookingClaim DEF Finish
  <1>5. CASE LatePayCommit(r)
    BY <1>1, <1>4, <1>5, RequestBooking, FreedAreListed DEF LatePayCommit, Ended
  <1>6. CASE CancelHeldCommit(r)
    BY <1>1, <1>4, <1>6, RequestBooking, FreedAreListed DEF CancelHeldCommit, Ended
  <1>7. CASE CancelSoldCommit(r)
    BY <1>1, <1>4, <1>7, RequestBooking, FreedAreListed DEF CancelSoldCommit, Ended
  <1> QED BY <1>2, <1>3, <1>5, <1>6, <1>7 DEF RequestStep

LEMMA PaymentClaim ==
    ASSUME ClaimInv, NEW p \in Payments, PaymentStep(p)
    PROVE  ClaimFacts'
  <1>1. TypeOK /\ RowsExist /\ StaleHaveLapsed /\ BookingsHaveSeats
    BY DEF ClaimInv, ClaimFacts
  <1>2. ASSUME UNCHANGED <<status, bseats, entry, lapsed, snapshot>> PROVE ClaimFacts'
    BY <1>1, <1>2, QuietClaim DEF StaleHaveLapsed, BookingsHaveSeats
  <1>3. CASE RecordPayment(p) \/ WebhookRefund(p)
    BY <1>2, <1>3 DEF RecordPayment, WebhookRefund
  <1>4. CASE WebhookFailed(p)
    <2>1. CASE status[payFor[p]] = "PAYMENT_PENDING"
      BY <1>1, <1>4, <2>1, SettledBooking, FreedAreListed, EndBookingClaim
         DEF WebhookFailed, Ended
    <2>2. CASE status[payFor[p]] # "PAYMENT_PENDING"
      BY <1>2, <1>4, <2>2 DEF WebhookFailed
    <2> QED BY <2>1, <2>2
  <1>5. CASE WebhookConfirm(p)
    BY <1>1, <1>5, SettledBooking, ConfirmClaim DEF WebhookConfirm
  <1>6. CASE WebhookLate(p)
    BY <1>1, <1>2, <1>6, SettledBooking, ConfirmClaim DEF WebhookLate
  <1> QED BY <1>3, <1>4, <1>5, <1>6 DEF PaymentStep

LEMMA NextClaim == ClaimInv /\ [Next]_vars => ClaimFacts'
  <1> SUFFICES ASSUME ClaimInv, [Next]_vars PROVE ClaimFacts'
    OBVIOUS
  <1>1. TypeOK /\ RowsExist /\ StaleHaveLapsed /\ BookingsHaveSeats
    BY DEF ClaimInv, ClaimFacts
  <1>2. ASSUME NEW b \in Holds, NEW S \in (SUBSET Seats) \ {{}}, Hold(b, S)
        PROVE  ClaimFacts'
    <2>1. /\ \A c \in Bookings : /\ status'[c] = IF c = b THEN "HELD" ELSE status[c]
                                 /\ bseats'[c] = IF c = b THEN S ELSE bseats[c]
          /\ UNCHANGED <<lapsed, entry, snapshot>>
      BY <1>1, <1>2 DEF Hold, TypeOK
    <2>2. \A w \in Waiters : status'[w] = "CONFIRMED" => status[w] = "CONFIRMED"
      BY <2>1 DEF Bookings
    <2> QED BY <1>1, <2>1, <2>2, QuietClaim DEF StaleHaveLapsed, BookingsHaveSeats
  <1>3. ASSUME NEW b \in Bookings, Sweep(b) PROVE ClaimFacts'
    BY <1>3, FreedAreListed, EndBookingClaim DEF Sweep, Ended, Live
  <1>4. ASSUME NEW b \in Bookings, Lapse(b) PROVE ClaimFacts'
    <2>1. UNCHANGED <<status, bseats, entry, snapshot>> /\ lapsed \subseteq lapsed'
      BY <1>4 DEF Lapse
    <2> QED BY <1>1, <2>1, QuietClaim DEF StaleHaveLapsed, BookingsHaveSeats
  <1>5. ASSUME NEW w \in Waiters, Join(w) PROVE ClaimFacts'
    <2>1. UNCHANGED <<status, bseats, lapsed, snapshot>>
      BY <1>5 DEF Join
    <2>2. \A v \in Waiters : entry'[v] = IF v = w THEN "WAITING" ELSE entry[v]
      BY <1>1, <1>5 DEF Join, TypeOK
    <2>3. status[w] # "CONFIRMED"
      BY <1>1, <1>5 DEF Join, RowsExist
    <2> QED BY <1>1, <2>1, <2>2, <2>3, QuietClaim DEF StaleHaveLapsed, BookingsHaveSeats
  <1>6. CASE StaleRead \/ WorkerRestart \/ UNCHANGED vars
    <2>1. UNCHANGED <<status, bseats, entry, lapsed>> /\ snapshot' \subseteq lapsed
      BY <1>1, <1>6 DEF StaleRead, WorkerRestart, vars, StaleHaveLapsed
    <2> QED BY <1>1, <2>1, QuietClaim DEF BookingsHaveSeats
  <1>7. CASE StaleCommit
    <2>1. UNCHANGED <<status, bseats, lapsed>> /\ snapshot' = {}
      BY <1>7 DEF StaleCommit
    <2>2. \A w \in Waiters : entry'[w] = entry[w] \/ w \in lapsed
      BY <1>1, <1>7 DEF StaleCommit, StaleHaveLapsed
    <2> QED BY <1>1, <2>1, <2>2, QuietClaim DEF BookingsHaveSeats
  <1> QED
    BY <1>2, <1>3, <1>4, <1>5, <1>6, <1>7, RequestClaim, PaymentClaim DEF Next

\* A waiter who has bought the seat he was offered is CLAIMED, unless the offer had
\* lapsed: the worker's late EXPIRED hits no entry whose time is not up.
THEOREM BuyerIsClaimedCorrect == Spec => []BuyerIsClaimed
  <1>1. Init => ClaimInv
    BY InitType DEF Init, ClaimInv, RowsExist, ClaimFacts, StaleHaveLapsed, BookingsHaveSeats,
                    BuyerIsClaimed, Bookings
  <1>2. ClaimInv /\ [Next]_vars => ClaimInv'
    BY NextType, NextRows, NextClaim DEF ClaimInv
  <1>3. ClaimInv => BuyerIsClaimed
    BY DEF ClaimInv, ClaimFacts
  <1> QED BY <1>1, <1>2, <1>3, PTL DEF Spec

-----------------------------------------------------------------------------
(***************************************************************************)
(* Steps                                                                   *)
(***************************************************************************)

\* A settled payment is never touched again.
THEOREM PaymentIsFinalCorrect == Spec => PaymentIsFinal
  <1> DEFINE Final == \A p \in Payments : pay[p] \in Settled => pay'[p] = pay[p]
  <1>1. ASSUME TypeOK, [Next]_vars PROVE Final
    <2>1. ASSUME pay' = pay PROVE Final
      BY <2>1
    <2>2. ASSUME NEW p \in Payments, pay[p] \notin Settled,
                 NEW v, pay' = [pay EXCEPT ![p] = v]
          PROVE  Final
      BY <2>2 DEF TypeOK
    <2>3. ASSUME NEW r \in Requests, RequestStep(r) PROVE Final
      <3>1. CASE PayCommit(r)
        <4>1. PICK p \in Payments : pay[p] = "NONE" /\ pay' = [pay EXCEPT ![p] = "CHARGED"]
          BY <3>1 DEF PayCommit
        <4> QED BY <2>2, <4>1 DEF Settled
      <3>2. CASE ~PayCommit(r)
        BY <2>1, <2>3, <3>2
           DEF RequestStep, PayRead, CancelRead, Decide, LatePayCommit, CancelHeldCommit,
               CancelSoldCommit, Abort, payVars
      <3> QED BY <3>1, <3>2
    <2>4. ASSUME NEW p \in Payments, PaymentStep(p) PROVE Final
      <3>1. pay[p] \in {"CHARGED", "PENDING"}
        BY <2>4 DEF PaymentStep, RecordPayment, WebhookFailed, WebhookConfirm, WebhookLate,
                    WebhookRefund, CanSettle
      <3>2. \E v : pay' = [pay EXCEPT ![p] = v]
        BY <2>4 DEF PaymentStep, RecordPayment, WebhookFailed, WebhookConfirm, WebhookLate,
                    WebhookRefund, Refund
      <3> QED BY <2>2, <3>1, <3>2 DEF Settled
    <2>5. CASE \/ \E b \in Holds, S \in (SUBSET Seats) \ {{}} : Hold(b, S)
               \/ \E b \in Bookings : Lapse(b) \/ Sweep(b)
               \/ \E w \in Waiters : Join(w)
               \/ StaleRead \/ StaleCommit \/ WorkerRestart \/ UNCHANGED vars
      BY <2>1, <2>5 DEF Hold, Lapse, Sweep, Join, StaleRead, StaleCommit, WorkerRestart,
                        vars, payVars
    <2> QED BY <1>1, <2>3, <2>4, <2>5 DEF Next
  <1>2. TypeOK /\ [Next]_vars => Final
    BY <1>1
  <1> QED BY <1>2, TypeCorrect, PTL DEF Spec, PaymentIsFinal

\* The status of a booking follows the table of transitions but for the insertion of the
\* row and the cancellation of a ticket, unless a stale request has overwritten it or
\* cancels it over a payment begun since.
THEOREM StatusFollowsCodeCorrect == Spec => StatusFollowsCode
  <1> DEFINE Edge(b) == status'[b] # status[b] /\ b \notin overwritten'
                            => <<status[b], status'[b]>> \in CodedEdges \/ StaleCancel(b)
             Edges == \A b \in Bookings : Edge(b)
  <1>1. ASSUME TypeOK, RowsExist, [Next]_vars PROVE Edges
    <2>1. ASSUME status' = status PROVE Edges
      BY <2>1
    <2>2. ASSUME NEW b \in Bookings, NEW st, status' = [status EXCEPT ![b] = st],
                 b \in overwritten' \/ <<status[b], st>> \in CodedEdges
          PROVE  Edges
      BY <1>1, <2>2 DEF TypeOK
    <2>3. ASSUME NEW b \in Bookings, status[b] # "NONE",
                 NEW F \in SUBSET bseats[b], NEW st, EndBooking(b, F, st),
                 \/ b \in overwritten' \/ <<status[b], st>> \in CodedEdges
                 \/ /\ status[b] = "PAYMENT_PENDING" /\ st = "CANCELLED"
                    /\ \E r \in Requests :
                        req[r] = [op |-> "cancelHold", bk |-> b] /\ req'[r] = Idle
          PROVE  Edges
      <3>1. PICK o : OfferEffect(o, b, F, st)
        BY <1>1, <2>3, EndBookingEffect
      <3> SUFFICES ASSUME NEW c \in Bookings PROVE Edge(c)
        OBVIOUS
      <3>2. CASE \E s \in DOMAIN o : o[s] = c
        BY <3>1, <3>2 DEF OfferEffect, CodedEdges, ValidTransitions
      <3>3. CASE \A s \in DOMAIN o : o[s] # c
        BY <2>3, <3>1, <3>3 DEF OfferEffect, StaleCancel
      <3> QED BY <3>2, <3>3
    <2>4. ASSUME NEW r \in Requests, RequestStep(r) PROVE Edges
      <3> DEFINE b == req[r].bk
      <3>1. CASE (\E c \in Bookings : PayRead(r, c) \/ CancelRead(r, c)) \/ Abort(r)
        BY <2>1, <3>1 DEF PayRead, CancelRead, Decide, Abort
      <3>2. ASSUME req[r].op # "idle", Finish(r)
            PROVE  /\ b \in Bookings /\ status[b] # "NONE"
                   /\ \/ b \in overwritten'
                      \/ req[r].op = "cancelSold" /\ status[b] = "CONFIRMED"
                      \/ req[r].op # "cancelSold" /\ status[b] \in Live
        BY <1>1, <3>2, FinishFacts DEF Finish
      <3>3. CASE PayCommit(r)
        <4>1. /\ b \in Bookings /\ status' = [status EXCEPT ![b] = "PAYMENT_PENDING"]
              /\ b \in overwritten' \/ status[b] \in Live
          BY <3>2, <3>3 DEF PayCommit
        <4>2. CASE status[b] = "PAYMENT_PENDING"
          BY <1>1, <2>1, <4>1, <4>2 DEF TypeOK
        <4>3. CASE status[b] # "PAYMENT_PENDING"
          BY <2>2, <4>1, <4>3 DEF Live, CodedEdges, ValidTransitions
        <4> QED BY <4>2, <4>3
      <3>4. CASE LatePayCommit(r)
        BY <2>3, <3>2, <3>4, FreedAreListed DEF LatePayCommit, Live, CodedEdges, ValidTransitions
      <3>5. CASE CancelHeldCommit(r)
        <4>1. /\ req[r].op = "cancelHold" /\ Finish(r) /\ req'[r] = Idle
              /\ req[r] = [op |-> "cancelHold", bk |-> b]
          BY <1>1, <3>5 DEF CancelHeldCommit, Finish, TypeOK, Decisions, Idle
        <4>2. PICK F \in SUBSET bseats[b] : EndBooking(b, F, "CANCELLED")
          BY <3>2, <3>5, <4>1, FreedAreListed DEF CancelHeldCommit
        <4>3. \/ b \in overwritten' \/ <<status[b], "CANCELLED">> \in CodedEdges
              \/ status[b] = "PAYMENT_PENDING"
          BY <3>2, <4>1 DEF Live, CodedEdges, ValidTransitions
        <4>4. /\ b \in Bookings /\ status[b] # "NONE"
              /\ \E q \in Requests : req[q] = [op |-> "cancelHold", bk |-> b] /\ req'[q] = Idle
          BY <3>2, <4>1
        <4> HIDE DEF b, Edges
        <4>5. CASE b \in overwritten' \/ <<status[b], "CANCELLED">> \in CodedEdges
          BY <2>3, <4>2, <4>4, <4>5
        <4>6. CASE status[b] = "PAYMENT_PENDING"
          BY <2>3, <4>2, <4>4, <4>6
        <4> QED BY <4>3, <4>5, <4>6
      <3>6. CASE CancelSoldCommit(r)
        BY <2>3, <3>2, <3>6, FreedAreListed DEF CancelSoldCommit, CodedEdges, ValidTransitions
      <3> QED BY <2>4, <3>1, <3>3, <3>4, <3>5, <3>6 DEF RequestStep
    <2>5. ASSUME NEW p \in Payments, PaymentStep(p) PROVE Edges
      <3>1. CASE RecordPayment(p) \/ WebhookRefund(p)
        BY <2>1, <3>1 DEF RecordPayment, WebhookRefund
      <3>2. CASE WebhookFailed(p)
        <4>1. CASE status[payFor[p]] = "PAYMENT_PENDING"
          BY <1>1, <2>3, <3>2, <4>1, SettledBooking, FreedAreListed
             DEF WebhookFailed, CodedEdges, ValidTransitions
        <4>2. CASE status[payFor[p]] # "PAYMENT_PENDING"
          BY <2>1, <3>2, <4>2 DEF WebhookFailed
        <4> QED BY <4>1, <4>2
      <3>3. CASE WebhookConfirm(p)
        BY <1>1, <2>2, <3>3, SettledBooking DEF WebhookConfirm, ConfirmBooking, CodedEdges, ValidTransitions
      <3>4. CASE WebhookLate(p)
        BY <1>1, <2>1, <2>2, <3>4, SettledBooking DEF WebhookLate, ConfirmBooking, CodedEdges, ValidTransitions
      <3> QED BY <2>5, <3>1, <3>2, <3>3, <3>4 DEF PaymentStep
    <2>6. ASSUME NEW b \in Holds, NEW S \in (SUBSET Seats) \ {{}}, Hold(b, S) PROVE Edges
      BY <2>2, <2>6 DEF Hold, CodedEdges, ValidTransitions
    <2>7. ASSUME NEW b \in Bookings, Sweep(b) PROVE Edges
      BY <2>3, <2>7, FreedAreListed DEF Sweep, Live, CodedEdges, ValidTransitions
    <2>8. CASE \/ \E b \in Bookings : Lapse(b)
               \/ \E w \in Waiters : Join(w)
               \/ StaleRead \/ StaleCommit \/ WorkerRestart \/ UNCHANGED vars
      BY <2>1, <2>8 DEF Lapse, Join, StaleRead, StaleCommit, WorkerRestart, vars
    <2> QED BY <1>1, <2>4, <2>5, <2>6, <2>7, <2>8 DEF Next
  <1>2. TypeOK /\ RowsExist /\ [Next]_vars => Edges
    BY <1>1
  <1> QED BY <1>2, RowsExistCorrect, PTL DEF Spec, StatusFollowsCode

-----------------------------------------------------------------------------
(***************************************************************************)
(* Liveness.  ENABLED is out of the prover's reach: that the guards of the *)
(* worker's steps are all that can hold them back (WorkerNeverStuck) is a  *)
(* hypothesis of both theorems.  All else is proved: what the worker's     *)
(* steps achieve, and that nothing undoes their progress.                  *)
(***************************************************************************)

\* What only moves forward: expiries that have passed, and offers.
Forward ==
    /\ lapsed \subseteq lapsed'
    /\ \A w \in Waiters : entry[w] = "OFFERED" => entry'[w] \in {"OFFERED", "CLAIMED", "EXPIRED"}

LEMMA EndBookingForward ==
    ASSUME TypeOK, RowsExist,
           NEW b \in Bookings, status[b] # "NONE",
           NEW F \in SUBSET bseats[b], NEW st,
           EndBooking(b, F, st), lapsed' = lapsed
    PROVE  Forward
  <1>1. PICK o : OfferEffect(o, b, F, st)
    BY EndBookingEffect
  <1> SUFFICES ASSUME NEW w \in Waiters, entry[w] = "OFFERED"
               PROVE  entry'[w] = "OFFERED"
    BY DEF Forward
  <1>2. \A s \in DOMAIN o : o[s] # w
    BY <1>1 DEF OfferEffect
  <1> QED BY <1>1, <1>2 DEF OfferEffect

LEMMA NextForward == TypeOK /\ RowsExist /\ [Next]_vars => Forward
  <1> SUFFICES ASSUME TypeOK, RowsExist, [Next]_vars
               PROVE  Forward
    OBVIOUS
  <1>1. ASSUME UNCHANGED <<lapsed, entry>> PROVE Forward
    BY <1>1 DEF Forward
  <1>2. ASSUME NEW b \in Bookings, ConfirmBooking(b), lapsed' = lapsed PROVE Forward
    BY <1>2 DEF ConfirmBooking, Forward
  <1>3. ASSUME NEW r \in Requests, RequestStep(r) PROVE Forward
    <2> DEFINE b == req[r].bk
    <2>1. CASE (\E c \in Bookings : PayRead(r, c) \/ CancelRead(r, c)) \/ Abort(r) \/ PayCommit(r)
      BY <1>1, <2>1 DEF PayRead, CancelRead, Decide, Abort, PayCommit, Finish
    <2>2. ASSUME NEW F \in SUBSET bseats[b], NEW st, req[r].op # "idle", Finish(r),
                 EndBooking(b, F, st)
          PROVE  Forward
      BY <2>2, FinishFacts, EndBookingForward DEF Finish
    <2>3. CASE LatePayCommit(r)
      BY <2>2, <2>3, FreedAreListed, RequestBooking DEF LatePayCommit
    <2>4. CASE CancelHeldCommit(r)
      BY <2>2, <2>4, FreedAreListed, RequestBooking DEF CancelHeldCommit
    <2>5. CASE CancelSoldCommit(r)
      BY <2>2, <2>5, FreedAreListed, RequestBooking DEF CancelSoldCommit
    <2> QED BY <1>3, <2>1, <2>3, <2>4, <2>5 DEF RequestStep
  <1>4. ASSUME NEW p \in Payments, PaymentStep(p) PROVE Forward
    <2>1. CASE RecordPayment(p) \/ WebhookRefund(p)
      BY <1>1, <2>1 DEF RecordPayment, WebhookRefund
    <2>2. CASE WebhookFailed(p)
      <3>1. CASE status[payFor[p]] = "PAYMENT_PENDING"
        BY <2>2, <3>1, SettledBooking, FreedAreListed, EndBookingForward DEF WebhookFailed
      <3>2. CASE status[payFor[p]] # "PAYMENT_PENDING"
        BY <1>1, <2>2, <3>2 DEF WebhookFailed
      <3> QED BY <3>1, <3>2
    <2>3. CASE WebhookConfirm(p)
      BY <1>2, <2>3, SettledBooking DEF WebhookConfirm
    <2>4. CASE WebhookLate(p)
      BY <1>1, <1>2, <2>4, SettledBooking DEF WebhookLate
    <2> QED BY <1>4, <2>1, <2>2, <2>3, <2>4 DEF PaymentStep
  <1>5. ASSUME NEW b \in Bookings, Sweep(b) PROVE Forward
    BY <1>5, FreedAreListed, EndBookingForward DEF Sweep, Live
  <1>6. ASSUME NEW b \in Bookings, Lapse(b) PROVE Forward
    BY <1>6 DEF Lapse, Forward
  <1>7. ASSUME NEW w \in Waiters, Join(w) PROVE Forward
    BY <1>7 DEF Join, Forward, TypeOK
  <1>8. CASE StaleCommit
    BY <1>8 DEF StaleCommit, Forward
  <1>9. CASE \/ \E b \in Holds, S \in (SUBSET Seats) \ {{}} : Hold(b, S)
             \/ StaleRead \/ WorkerRestart \/ UNCHANGED vars
    BY <1>1, <1>9 DEF Hold, StaleRead, WorkerRestart, vars
  <1> QED BY <1>3, <1>4, <1>5, <1>6, <1>7, <1>8, <1>9 DEF Next

\* The sweep of b takes every seat b holds: it is freed, or offered to another.
LEMMA SweepTakesSeats ==
    ASSUME SeatInv, NEW b \in Bookings, Sweep(b), NEW s \in Seats
    PROVE  ~(seat'[s] = "HELD" /\ heldBy'[s] = b)
  <1>1. PICK o : OfferEffect(o, b, FreeHeldSeats(b), "EXPIRED")
    BY FreedAreListed, EndBookingEffect DEF Sweep, SeatInv, Live
  <1>2. CASE s \in DOMAIN o
    BY <1>1, <1>2 DEF OfferEffect
  <1>3. CASE s \notin DOMAIN o
    <2>1. heldBy[s] = b => s \in FreeHeldSeats(b)
      BY NamesAreDistinct
         DEF SeatInv, HeldHasLiveBooking, HeldSeatsAreListed, FreeHeldSeats
    <2> QED BY <1>1, <1>3, <2>1, NamesAreDistinct DEF OfferEffect
  <1> QED BY <1>2, <1>3

\* No seat stays HELD by one booking for ever: its expiry passes, the worker sweeps
\* the booking if nobody else has ended it, and the sweep takes all of its seats.
THEOREM HoldsEndCorrect == FairSpec /\ []WorkerNeverStuck => HoldsEnd
  <1> SUFFICES ASSUME NEW s \in Seats, NEW b \in Bookings
               PROVE  FairSpec /\ []WorkerNeverStuck =>
                        (seat[s] = "HELD" /\ heldBy[s] = b
                            ~> ~(seat[s] = "HELD" /\ heldBy[s] = b))
    BY DEF HoldsEnd
  <1> DEFINE Has == seat[s] = "HELD" /\ heldBy[s] = b
             Late == b \in lapsed
  <1>1. FairSpec => Spec /\ SweepsAreFair(b)
    BY DEF FairSpec
  <1>2. SeatInv /\ [Next]_vars => (Late => Late')
    BY NextForward DEF SeatInv, Forward
  <1>3. <<Lapse(b)>>_vars => Late'
    BY DEF Lapse
  <1>4. SeatInv /\ <<Sweep(b)>>_vars => ~Has'
    BY SweepTakesSeats
  <1>5. SeatInv /\ WorkerNeverStuck => (Has /\ ~Late => ENABLED <<Lapse(b)>>_vars)
    BY DEF SeatInv, HeldHasLiveBooking, HeldSeatsAreLive, WorkerNeverStuck
  <1>6. SeatInv /\ WorkerNeverStuck => (Has /\ Late => ENABLED <<Sweep(b)>>_vars)
    BY DEF SeatInv, HeldHasLiveBooking, HeldSeatsAreLive, WorkerNeverStuck
  <1> HIDE DEF Has, Late
  <1>7. FairSpec /\ []WorkerNeverStuck => (Has ~> ~Has)
    BY <1>1, <1>2, <1>3, <1>4, <1>5, <1>6, SeatInvInductive, PTL DEF Spec, SweepsAreFair
  <1> QED BY <1>7 DEF Has

\* Every offer is claimed or expires.  A snapshot read before the offer lapsed may
\* leave it out, and a restart may drop the snapshot that holds it; but from then on
\* every snapshot the worker reads holds it, until one is written back.
THEOREM OffersEndCorrect == FairSpec /\ []WorkerNeverStuck => OffersEnd
  <1> SUFFICES ASSUME NEW w \in Waiters
               PROVE  FairSpec /\ []WorkerNeverStuck =>
                        (entry[w] = "OFFERED" ~> entry[w] \in {"CLAIMED", "EXPIRED"})
    BY DEF OffersEnd
  <1> DEFINE Open == entry[w] = "OFFERED"
             Over == entry[w] \in {"CLAIMED", "EXPIRED"}
             Late == w \in lapsed
             NoList == snapshot = {}
             Listed == w \in snapshot
  <1>0. w \in Bookings
    OBVIOUS
  <1>1. FairSpec => Spec /\ SweepsAreFair(w) /\ OffersAreFair
    BY <1>0 DEF FairSpec
  <1>2. SeatInv /\ [Next]_vars => (Late => Late') /\ (Open => Open' \/ Over')
    BY NextForward DEF SeatInv, Forward
  <1>3. <<Lapse(w)>>_vars => Late'
    BY DEF Lapse
  <1>4. <<StaleRead>>_vars => (Open /\ Late => Listed')
    BY DEF StaleRead
  <1>5. <<StaleCommit>>_vars => NoList' /\ (Listed => Over')
    BY DEF StaleCommit
  <1>6. SeatInv /\ [Next]_vars => (Open /\ Late /\ (NoList \/ Listed) => NoList' \/ Listed')
    <2>1. SeatInv /\ [Next]_vars => snapshot' = snapshot \/ NoList' \/ StaleRead
      BY DEF Next, RequestStep, PayRead, CancelRead, Decide, PayCommit, LatePayCommit,
             CancelHeldCommit, CancelSoldCommit, Finish, Abort, PaymentStep, RecordPayment,
             WebhookFailed, WebhookConfirm, WebhookLate, WebhookRefund, Hold, Lapse, Sweep,
             Join, StaleCommit, WorkerRestart, vars
    <2>2. StaleRead => (Open /\ Late => Listed')
      BY DEF StaleRead
    <2> QED BY <2>1, <2>2
  <1>7. WorkerNeverStuck => /\ Open /\ ~Late => ENABLED <<Lapse(w)>>_vars
                            /\ Open /\ Late /\ NoList => ENABLED <<StaleRead>>_vars
                            /\ ~NoList => ENABLED <<StaleCommit>>_vars
    BY DEF WorkerNeverStuck
  <1>8. Listed => ~NoList
    OBVIOUS
  <1>9. <<StaleCommit>>_vars => ~NoList
    BY DEF StaleCommit
  <1>10. Open => ~Over
    OBVIOUS
  <1> HIDE DEF Open, Over, Late, NoList, Listed
  <1>11. FairSpec /\ []WorkerNeverStuck => (Open ~> Over)
    BY <1>1, <1>2, <1>3, <1>4, <1>5, <1>6, <1>7, <1>8, <1>9, <1>10, SeatInvInductive, PTL
       DEF Spec, SweepsAreFair, OffersAreFair
  <1> QED BY <1>11 DEF Open, Over

-----------------------------------------------------------------------------
(***************************************************************************)
(* SeatBooking implements SeatLedger.  A step maps to a stutter if it lets *)
(* the clean seats be, to GiveUp if it ends a booking that the requests    *)
(* have not overwritten, and to Spoil if it is the step that overwrites it.*)
(***************************************************************************)

OwnerOf == [s \in Seats |-> IF s \in CleanSeats THEN heldBy[s] ELSE None]
SoldClean == {s \in CleanSeats : seat[s] = "SOLD"}
LedgerStep == [Ledger!Next]_(Ledger!vars)

LEMMA LedgerTakes ==
    ASSUME NEW b \in Bookings, NEW S \in SUBSET Seats, Ledger!Take(b, S) \/ Ledger!Buy(b, S)
    PROVE  LedgerStep
  <1>1. Ledger!Next
    BY Zenon DEF Ledger!Next
  <1> QED BY <1>1 DEF LedgerStep

LEMMA LedgerOwners ==
    ASSUME NEW b \in Bookings, Ledger!Sell(b) \/ Ledger!GiveUp(b)
    PROVE  LedgerStep
  <1>1. Ledger!Next
    BY Zenon DEF Ledger!Next
  <1> QED BY <1>1 DEF LedgerStep

LEMMA LedgerSpoils ==
    ASSUME NEW S \in SUBSET Seats, Ledger!Spoil(S)
    PROVE  LedgerStep
  <1>1. Ledger!Next
    BY Zenon DEF Ledger!Next
  <1> QED BY <1>1 DEF LedgerStep

LEMMA CleanStays ==
    ASSUME overwritten' = overwritten, \A c \in overwritten : bseats'[c] = bseats[c]
    PROVE  CleanSeats' = CleanSeats
  BY DEF CleanSeats

LEMMA CleanSpoils ==
    ASSUME NEW b, overwritten' = overwritten \cup {b},
           \A c \in overwritten' : bseats'[c] = bseats[c]
    PROVE  CleanSeats' = CleanSeats \ bseats[b]
  BY DEF CleanSeats

\* The clean seats keep their owners and their payments.
LEMMA QuietLedger ==
    ASSUME CleanSeats' = CleanSeats,
           \A s \in CleanSeats : /\ heldBy'[s] = heldBy[s]
                                 /\ seat'[s] = "SOLD" <=> seat[s] = "SOLD"
    PROVE  LedgerStep
  <1>1. OwnerOf' = OwnerOf /\ SoldClean' = SoldClean
    BY DEF OwnerOf, SoldClean
  <1> QED BY <1>1 DEF LedgerStep, Ledger!vars, OwnerOf, SoldClean

LEMMA OwnedSeats ==
    ASSUME NEW b \in Bookings
    PROVE  Ledger!Owned(b) = {s \in CleanSeats : heldBy[s] = b}
  BY NamesAreDistinct DEF Ledger!Owned, CleanSeats

\* The clean seats of b are freed or passed on, each to a booking that had none.
LEMMA GiveUpLedger ==
    ASSUME NEW b \in Bookings, CleanSeats' = CleanSeats,
           \A s \in CleanSeats : heldBy[s] # b =>
               heldBy'[s] = heldBy[s] /\ (seat'[s] = "SOLD" <=> seat[s] = "SOLD"),
           \A s \in CleanSeats : heldBy[s] = b => seat'[s] # "SOLD",
           \A s \in CleanSeats : heldBy[s] = b /\ heldBy'[s] # None =>
               /\ heldBy'[s] \in Bookings
               /\ \A t \in CleanSeats : heldBy[t] # heldBy'[s]
               /\ \A t \in CleanSeats : heldBy[t] = b /\ heldBy'[t] = heldBy'[s] => s = t
    PROVE  LedgerStep
  <1> DEFINE mine == Ledger!Owned(b)
             next == [s \in mine |-> heldBy'[s]]
  <1>1. mine = {s \in CleanSeats : heldBy[s] = b} /\ CleanSeats \subseteq Seats
    BY OwnedSeats DEF CleanSeats
  <1>2. next \in [mine -> Bookings \cup {None}]
    BY <1>1
  <1>3. ASSUME NEW s \in mine, NEW t \in mine, next[s] # None
        PROVE  Ledger!Owned(next[s]) = {} /\ (next[s] = next[t] => s = t)
    <2>1. next[s] \in Bookings /\ \A u \in CleanSeats : heldBy[u] # next[s]
      BY <1>1, <1>3
    <2>2. Ledger!Owned(next[s]) = {}
      BY <2>1, OwnedSeats
    <2> QED BY <1>1, <1>3, <2>2
  <1>4. OwnerOf' = [s \in Seats |-> IF s \in mine THEN next[s] ELSE OwnerOf[s]]
    BY <1>1 DEF OwnerOf
  <1>5. SoldClean' = SoldClean \ mine
    BY <1>1 DEF SoldClean
  <1>6. Ledger!GiveUp(b)
    <2> HIDE DEF next, mine
    <2>1. \E n \in [mine -> Bookings \cup {None}] :
            /\ \A s, t \in mine : n[s] # None =>
                  Ledger!Owned(n[s]) = {} /\ (n[s] = n[t] => s = t)
            /\ OwnerOf' = [s \in Seats |-> IF s \in mine THEN n[s] ELSE OwnerOf[s]]
      BY <1>2, <1>3, <1>4
    <2> QED BY <1>5, <2>1 DEF Ledger!GiveUp, OwnerOf, SoldClean, mine
  <1> QED BY <1>6, LedgerOwners

\* The seats of b become dirty.
LEMMA SpoilLedger ==
    ASSUME NEW b \in Bookings, CleanSeats' = CleanSeats \ bseats[b],
           \A s \in CleanSeats \ bseats[b] :
               heldBy'[s] = heldBy[s] /\ (seat'[s] = "SOLD" <=> seat[s] = "SOLD")
    PROVE  LedgerStep
  <1>0. PICK S : S = CleanSeats \cap bseats[b]
    OBVIOUS
  <1>1. S \subseteq Seats /\ CleanSeats' = CleanSeats \ S
    BY <1>0 DEF CleanSeats
  <1>2. OwnerOf' = [s \in Seats |-> IF s \in S THEN None ELSE OwnerOf[s]]
    BY <1>1 DEF OwnerOf
  <1>3. SoldClean' = SoldClean \ S
    BY <1>1 DEF SoldClean
  <1>4. Seats \ CleanSeats' = (Seats \ CleanSeats) \cup S
    BY <1>1
  <1>5. Ledger!Spoil(S)
    BY <1>2, <1>3, <1>4 DEF Ledger!Spoil, OwnerOf, SoldClean
  <1> QED BY <1>1, <1>5, LedgerSpoils

\* A step that ends b is GiveUp, or Spoil if it overwrites b.
LEMMA EndBookingLedger ==
    ASSUME SeatInv,
           NEW b \in Bookings, status[b] # "NONE",
           NEW F \in SUBSET bseats[b], NEW st,
           EndBooking(b, F, st),
           overwritten \subseteq overwritten', overwritten' \subseteq overwritten \cup {b},
           \/ b \in overwritten'
           \/ /\ \A s \in bseats[b] \cap CleanSeats : heldBy[s] = b
              /\ bseats[b] \cap CleanSeats \subseteq F
    PROVE  LedgerStep
  <1>1. PICK o : OfferEffect(o, b, F, st)
    BY EndBookingEffect DEF SeatInv
  <1>2. TypeOK /\ RowsExist /\ HeldHasLiveBooking
    BY DEF SeatInv
  <1>3. \A c \in overwritten \cup {b} : bseats'[c] = bseats[c]
    <2>1. ASSUME NEW c \in overwritten \cup {b}
          PROVE  c \in Bookings /\ \A s \in DOMAIN o : o[s] # c
      BY <1>1, <1>2 DEF OfferEffect, TypeOK, RowsExist
    <2> QED BY <1>1, <2>1 DEF OfferEffect
  <1>4. \A s \in Seats \ bseats[b] : heldBy'[s] = heldBy[s] /\ seat'[s] = seat[s]
    BY <1>1 DEF OfferEffect
  <1>5. CASE b \in overwritten'
    <2>1. overwritten' = overwritten \cup {b}
      BY <1>5
    <2>2. CleanSeats' = CleanSeats \ bseats[b]
      BY <1>3, <2>1, CleanSpoils
    <2> QED BY <1>4, <2>2, SpoilLedger DEF CleanSeats
  <1>6. CASE b \notin overwritten'
    <2>1. CleanSeats' = CleanSeats
      <3>1. overwritten' = overwritten
        BY <1>6
      <3> QED BY <1>3, <3>1, CleanStays
    <2>2. \A s \in CleanSeats : s \in Seats /\ (heldBy[s] = b <=> s \in bseats[b])
      BY <1>2, <1>6, NamesAreDistinct
         DEF HeldHasLiveBooking, HeldSeatsAreListed, CleanSeats
    <2>3. \A s \in CleanSeats : heldBy[s] = b => s \in F
      BY <1>6, <2>2
    <2>4. \A s \in CleanSeats : heldBy[s] = b => seat'[s] # "SOLD"
      BY <1>1, <2>2, <2>3 DEF OfferEffect
    <2>5. ASSUME NEW s \in CleanSeats, heldBy[s] = b, heldBy'[s] # None
          PROVE  /\ heldBy'[s] \in Bookings
                 /\ \A t \in CleanSeats : heldBy[t] # heldBy'[s]
                 /\ \A t \in CleanSeats : heldBy[t] = b /\ heldBy'[t] = heldBy'[s] => s = t
      <3>1. /\ s \in DOMAIN o /\ heldBy'[s] = o[s] /\ o[s] \in Bookings
            /\ status[o[s]] = "NONE" /\ bseats'[o[s]] = {s}
        BY <1>1, <2>2, <2>3, <2>5 DEF OfferEffect
      <3>2. \A t \in CleanSeats : heldBy[t] # o[s]
        BY <1>2, <2>2, <3>1, NamesAreDistinct
           DEF HeldHasLiveBooking, HeldSeatsAreListed, RowsExist
      <3>3. ASSUME NEW t \in CleanSeats, heldBy[t] = b, heldBy'[t] = o[s]
            PROVE  s = t
        <4>1. t \in DOMAIN o /\ o[t] = o[s]
          BY <1>1, <2>2, <2>3, <3>1, <3>3, NamesAreDistinct DEF OfferEffect
        <4> QED BY <1>1, <3>1, <4>1 DEF OfferEffect
      <3> QED BY <3>1, <3>2, <3>3
    <2>6. \A s \in CleanSeats : heldBy[s] # b =>
               heldBy'[s] = heldBy[s] /\ (seat'[s] = "SOLD" <=> seat[s] = "SOLD")
      BY <1>4, <2>2
    <2> QED BY <2>1, <2>4, <2>5, <2>6, GiveUpLedger
  <1> QED BY <1>5, <1>6


LEMMA RequestLedger ==
    ASSUME SeatInv, NEW r \in Requests, RequestStep(r)
    PROVE  LedgerStep
  <1> DEFINE b == req[r].bk
  <1>1. TypeOK /\ RowsExist /\ NoDoubleBooking
    BY DEF SeatInv
  <1>2. CASE (\E c \in Bookings : PayRead(r, c) \/ CancelRead(r, c)) \/ Abort(r)
    <2>1. UNCHANGED <<seat, heldBy, bseats, overwritten>>
      BY <1>2 DEF PayRead, CancelRead, Decide, Abort, seatVars
    <2>2. CleanSeats' = CleanSeats
      BY <2>1, CleanStays
    <2> QED BY <2>1, <2>2, QuietLedger
  <1>3. CASE PayCommit(r)
    <2>1. UNCHANGED <<seat, heldBy, bseats>>
      BY <1>3 DEF PayCommit, seatVars
    <2>2. b \in Bookings /\ overwritten \subseteq overwritten'
          /\ overwritten' \subseteq overwritten \cup {b}
      BY <1>1, <1>3, FinishFacts DEF PayCommit
    <2>3. CASE overwritten' = overwritten
      <3>1. CleanSeats' = CleanSeats
        BY <2>1, <2>3, CleanStays
      <3> QED BY <2>1, <3>1, QuietLedger
    <2>4. CASE overwritten' = overwritten \cup {b}
      <3>1. CleanSeats' = CleanSeats \ bseats[b]
        BY <2>1, <2>4, CleanSpoils
      <3> QED BY <2>1, <2>2, <3>1, SpoilLedger
    <2> QED BY <2>2, <2>3, <2>4
  <1>4. ASSUME req[r].op # "idle", Finish(r)
        PROVE  /\ b \in Bookings /\ status[b] # "NONE"
               /\ overwritten \subseteq overwritten'
               /\ overwritten' \subseteq overwritten \cup {b}
               /\ \/ b \in overwritten'
                  \/ \A s \in bseats[b] \cap CleanSeats : heldBy[s] = b
               /\ req[r].op # "cancelSold" =>
                    \/ b \in overwritten'
                    \/ \A s \in bseats[b] \cap CleanSeats : seat[s] = "HELD"
    <2>1. \/ b \in overwritten'
          \/ req[r].op = "cancelSold" /\ status[b] = "CONFIRMED"
          \/ req[r].op # "cancelSold" /\ status[b] \in Live
      BY <1>4 DEF Finish
    <2> QED BY <1>1, <1>4, <2>1, FinishFacts DEF NoDoubleBooking
  <1>5. ASSUME NEW st, NEW F \in FreedByRequest(b), EndBooking(b, F, st), Finish(r),
               req[r].op # "idle", req[r].op # "cancelSold"
        PROVE  LedgerStep
    <2>1. F \in SUBSET bseats[b]
      BY <1>4, <1>5, FreedAreListed
    <2>2. \/ b \in overwritten'
          \/ /\ \A s \in bseats[b] \cap CleanSeats : heldBy[s] = b
             /\ bseats[b] \cap CleanSeats \subseteq F
      BY <1>4, <1>5 DEF FreedByRequest, FreeHeldSeats
    <2> QED BY <1>4, <1>5, <2>1, <2>2, EndBookingLedger
  <1>6. CASE LatePayCommit(r)
    BY <1>5, <1>6 DEF LatePayCommit
  <1>7. CASE CancelHeldCommit(r)
    BY <1>5, <1>7 DEF CancelHeldCommit
  <1>8. CASE CancelSoldCommit(r)
    BY <1>4, <1>8, EndBookingLedger DEF CancelSoldCommit, FreeSoldSeats
  <1> QED BY <1>2, <1>3, <1>6, <1>7, <1>8 DEF RequestStep

LEMMA PaymentLedger ==
    ASSUME SeatInv, NEW p \in Payments, PaymentStep(p)
    PROVE  LedgerStep
  <1> DEFINE b == payFor[p]
  <1>1. TypeOK /\ RowsExist /\ HeldHasLiveBooking /\ NoDoubleBooking
    BY DEF SeatInv
  <1>2. CanSettle(p) => b \in Bookings /\ status[b] # "NONE"
    BY <1>1, SettledBooking
  <1>3. ASSUME UNCHANGED <<bseats, overwritten>>
        PROVE  CleanSeats' = CleanSeats
    BY <1>3, CleanStays
  <1>4. CASE RecordPayment(p) \/ WebhookRefund(p)
             \/ (WebhookFailed(p) /\ status[b] # "PAYMENT_PENDING")
    <2>1. UNCHANGED <<seat, heldBy, bseats, overwritten>>
      BY <1>4 DEF RecordPayment, WebhookRefund, WebhookFailed, seatVars
    <2> QED BY <1>3, <2>1, QuietLedger
  <1>5. CASE WebhookFailed(p) /\ status[b] = "PAYMENT_PENDING"
    <2>1. /\ b \in Bookings /\ status[b] # "NONE" /\ overwritten' = overwritten
          /\ EndBooking(b, FreeHeldSeats(b), "FAILED")
      BY <1>2, <1>5 DEF WebhookFailed
    <2>2. \A s \in bseats[b] \cap CleanSeats : heldBy[s] = b
      BY <1>1, <1>5, <2>1 DEF NoDoubleBooking, Live
    <2> QED BY <2>1, <2>2, FreedAreListed, EndBookingLedger DEF FreeHeldSeats
  <1>6. CASE WebhookConfirm(p)
    <2>0. PICK c \in Bookings : c = b
      BY <1>2, <1>6 DEF WebhookConfirm
    <2>1. /\ seat' = [s \in Seats |-> IF s \in SellHeldSeats(c) THEN "SOLD" ELSE seat[s]]
          /\ UNCHANGED <<heldBy, bseats, overwritten>>
      BY <1>6, <2>0 DEF WebhookConfirm
    <2>2. CleanSeats' = CleanSeats /\ CleanSeats \subseteq Seats
      BY <1>3, <2>1 DEF CleanSeats
    <2>3. SellHeldSeats(c) = {s \in Seats : heldBy[s] = c}
      BY <1>1, NamesAreDistinct
         DEF SellHeldSeats, TypeOK, HeldHasLiveBooking, HeldSeatsAreListed
    <2>4. OwnerOf' = OwnerOf
      BY <2>1, <2>2 DEF OwnerOf
    <2>5. SoldClean' = SoldClean \cup Ledger!Owned(c)
      BY <2>1, <2>2, <2>3, OwnedSeats DEF SoldClean
    <2>6. Ledger!Sell(c)
      BY <2>2, <2>4, <2>5 DEF Ledger!Sell, OwnerOf, SoldClean
    <2> QED BY <2>6, LedgerOwners
  <1>7. CASE WebhookLate(p)
    <2>0. PICK c \in Bookings : c = b
      BY <1>2, <1>7 DEF WebhookLate
    <2>1. PICK T \in Reacquired(c) :
              /\ seat' = [s \in Seats |-> IF s \in T THEN "SOLD" ELSE seat[s]]
              /\ heldBy' = [s \in Seats |-> IF s \in T THEN c ELSE heldBy[s]]
      BY <1>7, <2>0 DEF WebhookLate
    <2>2. PICK S : S = T \cap CleanSeats
      OBVIOUS
    <2>3. CleanSeats' = CleanSeats /\ CleanSeats \subseteq Seats
      BY <1>3, <1>7 DEF WebhookLate, CleanSeats
    <2>4. S \in SUBSET Seats /\ \A s \in S : s \in CleanSeats /\ heldBy[s] = None
      BY <1>1, <2>2, <2>3 DEF Reacquired, HeldHasLiveBooking, SeatRowsAgree
    <2>5. S \subseteq Ledger!Free
      BY <2>4 DEF Ledger!Free
    <2>6. OwnerOf' = [s \in Seats |-> IF s \in S THEN c ELSE OwnerOf[s]]
      BY <2>1, <2>2, <2>3 DEF OwnerOf
    <2>7. SoldClean' = SoldClean \cup S
      BY <2>1, <2>2, <2>3 DEF SoldClean
    <2>8. Ledger!Buy(c, S)
      BY <2>3, <2>5, <2>6, <2>7 DEF Ledger!Buy, OwnerOf, SoldClean
    <2> QED BY <2>4, <2>8, LedgerTakes
  <1> QED BY <1>4, <1>5, <1>6, <1>7 DEF PaymentStep

LEMMA NextLedger == SeatInv /\ [Next]_vars => LedgerStep
  <1> SUFFICES ASSUME SeatInv, [Next]_vars PROVE LedgerStep
    OBVIOUS
  <1>1. TypeOK /\ RowsExist /\ HeldHasLiveBooking /\ NoDoubleBooking
    BY DEF SeatInv
  <1>2. ASSUME NEW b \in Holds, NEW S \in (SUBSET Seats) \ {{}}, Hold(b, S)
        PROVE  LedgerStep
    <2>1. /\ b \in Bookings /\ bseats[b] = {} /\ b \notin overwritten
          /\ \A s \in S : seat[s] = "FREE"
          /\ seat' = [s \in Seats |-> IF s \in S THEN "HELD" ELSE seat[s]]
          /\ heldBy' = [s \in Seats |-> IF s \in S THEN b ELSE heldBy[s]]
          /\ bseats' = [bseats EXCEPT ![b] = S]
          /\ overwritten' = overwritten
      BY <1>1, <1>2 DEF Hold, RowsExist
    <2>2. CleanSeats' = CleanSeats /\ CleanSeats \subseteq Seats
      BY <1>1, <2>1, CleanStays DEF TypeOK, CleanSeats
    <2>0. PICK R : R = S \cap CleanSeats
      OBVIOUS
    <2>3. R \in SUBSET Seats /\ \A s \in R : s \in CleanSeats /\ heldBy[s] = None
      BY <1>1, <2>0, <2>1, <2>2 DEF HeldHasLiveBooking, SeatRowsAgree
    <2>4. R \subseteq Ledger!Free
      BY <2>3 DEF Ledger!Free
    <2>5. Ledger!Owned(b) = {}
      BY <1>1, <2>1, <2>2, OwnedSeats, NamesAreDistinct
         DEF HeldHasLiveBooking, HeldSeatsAreListed
    <2>6. OwnerOf' = [s \in Seats |-> IF s \in R THEN b ELSE OwnerOf[s]]
      BY <2>0, <2>1, <2>2 DEF OwnerOf
    <2>7. SoldClean' = SoldClean
      BY <2>1, <2>2 DEF SoldClean
    <2>8. Ledger!Take(b, R)
      BY <2>2, <2>4, <2>5, <2>6, <2>7 DEF Ledger!Take, OwnerOf, SoldClean
    <2> QED BY <2>1, <2>3, <2>8, LedgerTakes
  <1>3. ASSUME NEW b \in Bookings, Sweep(b) PROVE LedgerStep
    <2>1. /\ status[b] \in Live /\ status[b] # "NONE" /\ overwritten' = overwritten
          /\ EndBooking(b, FreeHeldSeats(b), "EXPIRED")
      BY <1>3 DEF Sweep, Live
    <2>2. \A s \in bseats[b] \cap CleanSeats : heldBy[s] = b
      BY <1>1, <2>1 DEF NoDoubleBooking
    <2> QED BY <2>1, <2>2, FreedAreListed, EndBookingLedger DEF FreeHeldSeats
  <1>4. CASE \/ \E b \in Bookings : Lapse(b)
             \/ \E w \in Waiters : Join(w)
             \/ StaleRead \/ StaleCommit \/ WorkerRestart \/ UNCHANGED vars
    <2>1. UNCHANGED <<seat, heldBy, bseats, overwritten>>
      BY <1>4 DEF Lapse, Join, StaleRead, StaleCommit, WorkerRestart, vars, seatVars
    <2>2. CleanSeats' = CleanSeats
      BY <2>1, CleanStays
    <2> QED BY <2>1, <2>2, QuietLedger
  <1> QED BY <1>2, <1>3, <1>4, RequestLedger, PaymentLedger DEF Next

\* The booking code implements the ledger on the seats no stale request has reached:
\* one owner per seat, taken only while free, lost only with all the others of its
\* booking.
THEOREM LedgerRefinement == Spec => ImplementsLedger
  <1>1. Init => Ledger!Init
    BY DEF Init, Ledger!Init, CleanSeats
  <1>2. SeatInv /\ [Next]_vars => [Ledger!Next]_(Ledger!vars)
    BY NextLedger DEF LedgerStep
  <1> QED BY <1>1, <1>2, SeatInvInductive, PTL DEF Spec, ImplementsLedger, Ledger!Spec

=============================================================================
