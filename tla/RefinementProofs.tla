--------------------------- MODULE RefinementProofs ---------------------------
(***************************************************************************)
(* Theorems of the two modules that implement SeatBooking.  RowLocks, for  *)
(* every set of seats, bookings, payments and sessions: the row locks are  *)
(* exclusive and taken in an order that cannot deadlock where the code     *)
(* says so, and the interleaved statements have the effect of the one-step *)
(* transactions of SeatBooking.  PaymentDelivery, for every set of charges:*)
(* what it adds only restricts SeatBooking, whose theorems then say that   *)
(* customers pay once, for a ticket.                                       *)
(***************************************************************************)
EXTENDS RowLocks, PaymentDelivery, SeatBookingProofs, FiniteSetTheorems, WellFoundedInduction

USE DEF Bookings

(***************************************************************************)
(* The operations, by what they lock                                       *)
(***************************************************************************)
Delivered == {"succeeded", "failed"}
Settling == {"confirm", "late", "lost", "fail", "failOnly", "refund"}
Requested == {"pay", "expire", "cancelHold", "cancelSold"}
Taking == {"hold", "missed", "late", "lost"}
Giving == {"confirm", "fail", "sweep", "expire", "cancelHold"}
Operations == {"none", "sweep"} \cup Delivered \cup Settling \cup Requested \cup Taking

LockTypeOK ==
    tx \in [Sessions -> [op : Operations, bk : Bookings \cup {None},
                         pm : Payments \cup {None}, todo : SUBSET Seats,
                         locked : SUBSET (({"seat"} \X Seats) \cup ({"booking"} \X Bookings)
                                          \cup ({"payment"} \X Payments))]]

\* No row is locked by two sessions.
LocksAreExclusive ==
    \A t, u \in Sessions : t # u => tx[t].locked \cap tx[u].locked = {}

\* What a session works on.
Target(t) ==
    LET o == tx[t].op  b == tx[t].bk IN
    /\ o = "none" => tx[t] = NoTx
    /\ o # "none" => b \in Bookings /\ (o \in Requested <=> t \in Requests)
    /\ o \in Requested => req[t] = [op |-> o, bk |-> b]
    /\ o \in Delivered \cup Settling =>
           tx[t].pm \in Payments /\ payFor[tx[t].pm] = b /\ pay[tx[t].pm] # "NONE"
    /\ o \in {"hold", "missed"} =>
           /\ b \in Holds /\ status[b] = "NONE"
           /\ o = "hold" => tx[t].todo \cup Mine(t) # {}
           /\ \A u \in Sessions : tx[u].bk = b => u = t
    /\ o \notin {"none", "hold", "missed"} => status[b] # "NONE"

\* Which rows other than seats it has locked.
Holding(t) ==
    LET o == tx[t].op IN
    /\ o \in Delivered => tx[t].todo = {} /\ tx[t].locked \subseteq {PaymentRow(t)}
    /\ o \in Settling => PaymentRow(t) \in tx[t].locked
    /\ o \in Settling \cup {"sweep"} => BookingRow(t) \in tx[t].locked
    /\ \A b \in Bookings : <<"booking", b>> \in tx[t].locked => b = tx[t].bk
    /\ \A p \in Payments : <<"payment", p>> \in tx[t].locked =>
           p = tx[t].pm /\ o \in Delivered \cup Settling /\ pay[p] = "PENDING"
    /\ BookingRow(t) \in tx[t].locked /\ o \in SeatsFirst => tx[t].todo = {}

\* What it knows of the booking it has locked.
Knows(t) ==
    LET o == tx[t].op  st == status[tx[t].bk] IN
    /\ o \in {"confirm", "fail"} => st = "PAYMENT_PENDING"
    /\ o \in {"late", "lost"} => st = "EXPIRED"
    /\ o = "failOnly" => st # "PAYMENT_PENDING"
    /\ o = "refund" => st \notin {"PAYMENT_PENDING", "EXPIRED"}
    /\ o = "sweep" => st \in Live /\ tx[t].bk \in lapsed

\* What it knows of the seats it has locked and has still to visit.
Visits(t) ==
    LET o == tx[t].op  b == tx[t].bk  todo == tx[t].todo IN
    /\ o \notin Taking \cup Giving \cup {"cancelSold"} => todo = {} /\ Mine(t) = {}
    /\ o = "lost" => todo = {}
    /\ o \in Taking => \A s \in Mine(t) : seat[s] = "FREE"
    /\ o \in Giving => \A s \in Mine(t) : heldBy[s] = b
    /\ o \notin {"none", "hold", "missed"} => todo \cup Mine(t) \subseteq bseats[b]
    /\ o \in {"hold", "missed", "late"} => \A s \in Mine(t), u \in todo : s < u

\* No seat of the booking has been forgotten.
Completes(t) ==
    LET o == tx[t].op  b == tx[t].bk  seen == tx[t].todo \cup Mine(t) IN
    /\ o \in {"late", "cancelSold"} => bseats[b] \subseteq seen
    /\ o = "lost" => /\ \A s \in Mine(t), u \in bseats[b] : u <= s => u \in Mine(t)
                     /\ Mine(t) # bseats[b]
    /\ o \in Giving => \A s \in bseats[b] : heldBy[s] = b =>
           s \in seen \/ (o \in SeatsFirst /\ seat[s] = "SOLD")

SessionOK(t) == Target(t) /\ Holding(t) /\ Knows(t) /\ Visits(t) /\ Completes(t)

\* RowLocks leaves the waitlist out.
NobodyWaits == \A w \in Waiters : entry[w] = "NONE"

SessionInv ==
    /\ NobodyWaits
    /\ LockTypeOK
    /\ LocksAreExclusive
    /\ \A t \in Sessions : SessionOK(t)

LockInv == SeatInv /\ SessionInv

-----------------------------------------------------------------------------
(***************************************************************************)
(* Who can wait for whom                                                   *)
(***************************************************************************)

LEMMA FiniteHasGreatest ==
    ASSUME NEW S \in SUBSET Nat, IsFiniteSet(S), NEW M \in SUBSET S, M # {}
    PROVE  \E m \in M : \A x \in M : x <= m
  <1> DEFINE Above(x) == {y \in S : x < y}
             T == {Above(x) : x \in M}
             R == StrictSubsetOrdering(S)
  <1>1. IsWellFoundedOn(R, FiniteSubsetsOf(S))
    BY FS_StrictSubsetOrderingWellFounded
  <1>2. T \subseteq FiniteSubsetsOf(S) /\ T # {}
    <2>1. FiniteSubsetsOf(S) = SUBSET S
      BY FS_FiniteSubsetsOfFinite
    <2>2. PICK m \in M : TRUE
      OBVIOUS
    <2>3. Above(m) \in T
      OBVIOUS
    <2>4. T \subseteq SUBSET S
      OBVIOUS
    <2> HIDE DEF T
    <2> QED BY <2>1, <2>3, <2>4
  <1> HIDE DEF T, R
  <1>3. PICK X \in T : \A Y \in T : ~ (<<Y, X>> \in R)
    BY <1>1, <1>2, WFMin
  <1> USE DEF T, R
  <1>4. PICK m \in M : X = Above(m)
    BY <1>3
  <1>5. ASSUME NEW x \in M, ~ (x <= m)
        PROVE  FALSE
    <2>0. x \in Nat /\ m \in Nat /\ m < x
      BY <1>5
    <2>1. Above(x) \subseteq Above(m) /\ x \in Above(m) /\ x \notin Above(x)
      <3>1. \A y \in S : y \in Nat /\ (x < y => m < y)
        BY <2>0
      <3>2. x \in S
        OBVIOUS
      <3>3. ~ (x < x)
        BY <2>0
      <3> QED BY <2>0, <3>1, <3>2, <3>3, Zenon
    <2>2. <<Above(x), Above(m)>> \in R
      BY <2>1 DEF StrictSubsetOrdering
    <2> QED BY <1>3, <1>4, <2>2
  <1> QED BY <1>5

\* A session that locks something and waits for another that waits itself is at a
\* seat, unless it locks the seats first: those that wait for the row of a payment
\* or of a booking have nothing that such a session could wait for.
LEMMA MiddleWaitsForSeat ==
    ASSUME LockInv, NEW t \in Sessions, NEW u \in Sessions, NEW v \in Sessions,
           tx[t].locked # {}, WaitsFor(t, u), WaitsFor(u, v),
           tx[u].op \notin SeatsFirst
    PROVE  \E s \in tx[u].todo : /\ s \in NextSeats(u) /\ Matches(u, s)
                                 /\ SeatRow(s) \in tx[v].locked
  <1>1. PICK row \in WaitedRows(t) : row \in tx[u].locked
    BY DEF WaitsFor
  <1>2. PICK next \in WaitedRows(u) : next \in tx[v].locked /\ u # v
    BY DEF WaitsFor
  <1>3. Holding(t) /\ Holding(u) /\ Visits(u) /\ tx[u].locked \cap tx[v].locked = {}
    BY <1>2 DEF LockInv, SessionInv, SessionOK, LocksAreExclusive
  <1>4. CASE tx[u].todo # {}
    BY <1>2, <1>4 DEF WaitedRows, NextSeats
  <1>5. CASE tx[u].todo = {} /\ tx[u].op \in {"succeeded", "failed"}
    <2>1. row = PaymentRow(u)
      BY <1>1, <1>3, <1>5 DEF Holding, Delivered
    <2>2. tx[t].todo = {} /\ tx[t].op \in {"succeeded", "failed"} /\ PaymentRow(t) \notin tx[t].locked
      BY <1>1, <2>1 DEF WaitedRows, PaymentRow, BookingRow, SeatRow
    <2> QED BY <1>3, <2>2 DEF Holding, Delivered
  <1>6. CASE tx[u].todo = {} /\ tx[u].op = "pay"
    <2>1. next = BookingRow(u)
      BY <1>2, <1>6 DEF WaitedRows, SeatsFirst
    <2>2. row \in (({"seat"} \X Seats) \cup ({"booking"} \X Bookings)
                  \cup ({"payment"} \X Payments))
      BY <1>1 DEF LockInv, SessionInv, LockTypeOK
    <2>3. row # BookingRow(u)
      BY <1>1, <1>2, <1>3, <2>1
    <2>4. ASSUME NEW s \in Seats, row = <<"seat", s>>
          PROVE  FALSE
      BY <1>1, <1>3, <1>6, <2>4 DEF Visits, Mine, SeatRow, Taking, Giving
    <2>5. ASSUME NEW b \in Bookings, row = <<"booking", b>>
          PROVE  FALSE
      BY <1>1, <1>3, <1>6, <2>3, <2>5 DEF Holding, BookingRow
    <2>6. ASSUME NEW p \in Payments, row = <<"payment", p>>
          PROVE  FALSE
      BY <1>1, <1>3, <1>6, <2>6 DEF Holding, Delivered, Settling
    <2> QED BY <2>2, <2>4, <2>5, <2>6
  <1> QED BY <1>2, <1>4, <1>5, <1>6 DEF WaitedRows

\* The same session takes seats, and the one it waits for takes a later one first:
\* a seat that is its own already has been locked by nobody else.
LEMMA MiddleGoesUp ==
    ASSUME LockInv, NEW t \in Sessions, NEW u \in Sessions, t # u,
           NEW s \in tx[t].todo, s \in NextSeats(t), Matches(t, s),
           SeatRow(s) \in tx[u].locked,
           tx[t].op \notin SeatsFirst, tx[u].op \notin SeatsFirst,
           NEW r \in tx[u].todo
    PROVE  s < r
  <1>1. s \in Seats /\ s \in Mine(u)
    BY DEF LockInv, SessionInv, LockTypeOK, Mine
  <1>2. Holding(t) /\ Visits(t) /\ Holding(u) /\ Visits(u) /\ tx[t].locked \cap tx[u].locked = {}
    BY DEF LockInv, SessionInv, SessionOK, LocksAreExclusive
  <1>3. tx[u].op \in {"hold", "missed", "late", "confirm", "fail", "sweep"}
    BY <1>1, <1>2 DEF Visits, Taking, Giving, SeatsFirst
  <1>4. tx[u].op \in {"hold", "missed", "late"}
    <2>1. SUFFICES ASSUME tx[u].op \in {"confirm", "fail", "sweep"}
                   PROVE  FALSE
      BY <1>3
    <2>2. heldBy[s] = tx[u].bk /\ BookingRow(u) \in tx[u].locked
      BY <1>1, <1>2, <2>1 DEF Visits, Holding, Giving, Settling
    <2>3. tx[u].bk \in Bookings /\ heldBy[s] # None
      <3>1. Target(u) /\ tx[u].op # "none"
        BY <2>1 DEF LockInv, SessionInv, SessionOK
      <3> QED BY <2>2, <3>1, NamesAreDistinct DEF Target
    <2>4. seat[s] # "FREE"
      BY <1>1, <2>3 DEF LockInv, SessionInv, SeatInv, HeldHasLiveBooking, SeatRowsAgree
    <2>5. tx[t].op \in {"hold", "missed", "late", "confirm", "fail", "sweep"}
      BY <1>2 DEF Visits, Taking, Giving, SeatsFirst
    <2>6. tx[t].op \in {"confirm", "fail", "sweep"} /\ heldBy[s] = tx[t].bk
      BY <2>4, <2>5 DEF Matches
    <2>7. BookingRow(t) \in tx[t].locked
      BY <1>2, <2>6 DEF Holding, Settling
    <2>8. BookingRow(t) = BookingRow(u)
      BY <2>2, <2>6 DEF BookingRow
    <2> QED BY <1>2, <2>2, <2>7, <2>8
  <1> QED BY <1>1, <1>2, <1>4 DEF Visits

\* No cycle without a session that locks the seats first: of those that wait two
\* links down, one waits for the greatest seat.
LEMMA NoOtherDeadlock == LockInv => DeadlockNeedsSeatsFirst
  <1> SUFFICES ASSUME LockInv,
                      NEW D \in (SUBSET Sessions) \ {{}},
                      \A t \in D : \E u \in D : WaitsFor(t, u),
                      \A t \in D : tx[t].op \notin SeatsFirst
               PROVE  FALSE
    BY DEF DeadlockNeedsSeatsFirst
  <1> DEFINE Waited == {u \in D : \E t \in D : WaitsFor(t, u)}
             Goal(s) == \E t \in D, u \in D :
                            /\ t # u /\ s \in tx[t].todo /\ s \in NextSeats(t) /\ Matches(t, s)
                            /\ SeatRow(s) \in tx[u].locked
                            /\ \E q \in Waited : WaitsFor(q, t)
             M == {s \in Seats : Goal(s)}
  <1>1. \A u \in Waited : tx[u].locked # {}
    BY DEF WaitsFor
  <1>2. \A t \in D : \E u \in Waited : WaitsFor(t, u)
    OBVIOUS
  <1>3. ASSUME NEW q \in Waited, NEW t \in D, NEW u \in D, WaitsFor(q, t), WaitsFor(t, u)
        PROVE  \E s \in Seats : /\ s \in tx[t].todo /\ s \in NextSeats(t) /\ Matches(t, s)
                               /\ SeatRow(s) \in tx[u].locked /\ Goal(s)
    <2>1. PICK s \in tx[t].todo : /\ s \in NextSeats(t) /\ Matches(t, s)
                                  /\ SeatRow(s) \in tx[u].locked
      BY <1>1, <1>3, MiddleWaitsForSeat
    <2>2. s \in Seats /\ t # u
      BY <1>3 DEF WaitsFor, LockInv, SessionInv, LockTypeOK
    <2> QED BY <1>3, <2>1, <2>2
  <1>4. M # {}
    <2>1. PICK r \in D : TRUE
      OBVIOUS
    <2>2. PICK q \in Waited : WaitsFor(r, q)
      BY <1>2
    <2>3. PICK t \in D : WaitsFor(q, t)
      BY <1>2
    <2>4. PICK u \in D : WaitsFor(t, u)
      BY <1>2
    <2> HIDE DEF Goal
    <2> QED BY <1>3, <2>3, <2>4
  <1>5. PICK m \in M : \A x \in M : x <= m
    <2> HIDE DEF M
    <2>1. M \subseteq Seats
      BY DEF M
    <2> QED BY <1>4, <2>1, SeatsAreOrdered, SeatsAreFinite, FiniteHasGreatest
  <1>6. PICK t \in D, u \in D :
            /\ t # u /\ m \in tx[t].todo /\ m \in NextSeats(t) /\ Matches(t, m)
            /\ SeatRow(m) \in tx[u].locked
            /\ \E q \in Waited : WaitsFor(q, t)
    OBVIOUS
  <1>7. t \in Waited /\ WaitsFor(t, u)
    <2>1. SeatRow(m) \in WaitedRows(t)
      BY <1>6 DEF WaitedRows
    <2> QED BY <1>6, <2>1 DEF WaitsFor
  <1>8. PICK v \in D : WaitsFor(u, v)
    OBVIOUS
  <1>9. PICK s \in Seats : s \in tx[u].todo /\ Goal(s)
    <2> HIDE DEF Goal
    <2> QED BY <1>3, <1>7, <1>8
  <1>10. m < s
    BY <1>6, <1>9, MiddleGoesUp
  <1>11. s <= m
    BY <1>5, <1>9
  <1> QED BY <1>10, <1>11, SeatsAreOrdered

-----------------------------------------------------------------------------
(***************************************************************************)
(* A commit is the step of SeatBooking that its operation stands for       *)
(***************************************************************************)

\* What Commit writes, one operation at a time.
LEMMA Written ==
    /\ SeatTo["hold"] = "HELD" /\ StatusTo["hold"] = "HELD" /\ "hold" \notin DOMAIN PayTo
    /\ \A o \in {"confirm", "late"} :
          /\ SeatTo[o] = "SOLD" /\ o \in DOMAIN StatusTo /\ StatusTo[o] = "CONFIRMED"
          /\ o \in DOMAIN PayTo /\ PayTo[o] = "SUCCEEDED"
    /\ SeatTo["lost"] = "SOLD"
    /\ \A o \in {"lost", "refund", "failOnly"} : o \notin DOMAIN StatusTo
    /\ \A o \in {"lost", "refund"} : o \in DOMAIN PayTo /\ PayTo[o] = "REFUNDED"
    /\ \A o \in {"fail", "failOnly"} : o \in DOMAIN PayTo /\ PayTo[o] = "FAILED"
    /\ \A o \in {"fail", "sweep", "expire", "cancelHold", "cancelSold"} :
          SeatTo[o] = "FREE" /\ o \in DOMAIN StatusTo
    /\ StatusTo["fail"] = "FAILED"
    /\ \A o \in {"sweep", "expire"} : StatusTo[o] = "EXPIRED"
    /\ \A o \in {"cancelHold", "cancelSold"} : StatusTo[o] = "CANCELLED"
    /\ "pay" \in DOMAIN StatusTo /\ StatusTo["pay"] = "PAYMENT_PENDING"
    /\ "hold" \in DOMAIN StatusTo
    /\ \A o \in {"sweep", "expire", "cancelHold", "cancelSold", "pay"} : o \notin DOMAIN PayTo
    /\ \A o \in DOMAIN StatusTo : StatusTo[o] # "NONE"
    /\ \A o \in DOMAIN PayTo : PayTo[o] # "NONE"
  BY DEF SeatTo, StatusTo, PayTo

\* A booking ends without an offer when nobody waits.
LEMMA EndWithoutOffers ==
    ASSUME LockInv, NEW b \in Bookings, NEW F \in SUBSET Seats, NEW st,
           seat' = [s \in Seats |-> IF s \in F THEN "FREE" ELSE seat[s]],
           heldBy' = [s \in Seats |-> IF s \in F THEN None ELSE heldBy[s]],
           status' = [status EXCEPT ![b] = st],
           bseats' = bseats, entry' = entry
    PROVE  EndBooking(b, F, st)
  <1> DEFINE C == {s \in bseats[b] : s \in F \/ seat[s] = "FREE"}
             W == {w \in Waiters : entry[w] = "WAITING"}
             o == [s \in {} |-> None]
  <1>1. DOMAIN o = {} /\ o \in [{} -> W]
    OBVIOUS
  <1>2. o \in Offers(C)
    <2>1. o \in UNION {[D -> W] : D \in SUBSET C}
      BY <1>1
    <2> QED BY <1>1, <2>1 DEF Offers
  <1>3. TypeOK
    BY DEF LockInv, SessionInv, SeatInv
  <1>4. {o[s] : s \in DOMAIN o} = {}
    BY <1>1
  <1>5. /\ seat' = [s \in Seats |-> IF s \in DOMAIN o THEN "HELD"
                                    ELSE IF s \in F THEN "FREE" ELSE seat[s]]
        /\ heldBy' = [s \in Seats |-> IF s \in DOMAIN o THEN o[s]
                                      ELSE IF s \in F THEN None ELSE heldBy[s]]
    BY <1>1
  <1>6. /\ status' = [c \in Bookings |-> IF c \in {o[s] : s \in DOMAIN o} THEN "HELD"
                                         ELSE IF c = b THEN st ELSE status[c]]
        /\ bseats' = [c \in Bookings |-> IF c \in {o[s] : s \in DOMAIN o}
                                         THEN {s \in DOMAIN o : o[s] = c}
                                         ELSE bseats[c]]
        /\ entry' = [w \in Waiters |-> IF w \in {o[s] : s \in DOMAIN o} THEN "OFFERED"
                                       ELSE entry[w]]
    BY <1>3, <1>4 DEF TypeOK
  <1> HIDE DEF o
  <1> QED BY <1>2, <1>5, <1>6 DEF EndBooking

\* What a session that commits knows.
LEMMA CommitKnows ==
    ASSUME LockInv, NEW t \in Sessions, Commit(t)
    PROVE  /\ tx[t].op \in Operations \ {"none", "missed"} /\ tx[t].todo = {}
           /\ tx[t].bk \in Bookings /\ Mine(t) \subseteq Seats
           /\ Target(t) /\ Holding(t) /\ Knows(t) /\ Visits(t) /\ Completes(t)
           /\ TypeOK
           /\ tx[t].op \in Requested <=> t \in Requests
           /\ t \in Requests => req[t].op = tx[t].op /\ req[t].bk = tx[t].bk
           /\ tx[t].op # "hold" => BookingRow(t) \in tx[t].locked
  <1>1. /\ tx[t].op \in Operations \ {"none", "missed"}
        /\ Target(t) /\ Holding(t) /\ Knows(t) /\ Visits(t) /\ Completes(t) /\ TypeOK
        /\ Mine(t) \subseteq Seats
    BY DEF LockInv, SessionInv, LockTypeOK, Commit, SeatInv, Mine, SessionOK
  <1>2. /\ tx[t].bk \in Bookings
        /\ tx[t].op \in Requested <=> t \in Requests
        /\ t \in Requests => req[t].op = tx[t].op /\ req[t].bk = tx[t].bk
    BY <1>1 DEF Target
  <1> QED BY <1>1, <1>2 DEF Commit

\* What it changes, and what it leaves alone.
LEMMA CommitEffect ==
    ASSUME NEW t \in Sessions, NEW o, NEW b, Commit(t), tx[t].op = o, tx[t].bk = b
    PROVE  /\ seat' = [s \in Seats |-> IF s \in Mine(t) THEN SeatTo[o] ELSE seat[s]]
           /\ heldBy' = [s \in Seats |-> IF s \notin Mine(t) THEN heldBy[s]
                                         ELSE IF SeatTo[o] = "FREE" THEN None ELSE b]
           /\ o \in DOMAIN StatusTo => status' = [status EXCEPT ![b] = StatusTo[o]]
           /\ o \notin DOMAIN StatusTo => status' = status
           /\ o # "hold" => bseats' = bseats
           /\ o # "pay" => payFor' = payFor
           /\ o # "pay" /\ o \in DOMAIN PayTo => pay' = [pay EXCEPT ![tx[t].pm] = PayTo[o]]
           /\ o # "pay" /\ o \notin DOMAIN PayTo => pay' = pay
           /\ t \in Requests => Finish(t)
           /\ t \notin Requests => req' = req /\ overwritten' = overwritten
                                  /\ lapsed' = lapsed /\ snapshot' = snapshot
           /\ tx' = [tx EXCEPT ![t] = NoTx] /\ entry' = entry
  BY DEF Commit

\* The seats a giving session has locked are those the booking still holds.
LEMMA GivenSeats ==
    ASSUME NEW t \in Sessions, Visits(t), Completes(t), tx[t].todo = {},
           tx[t].op \in {"confirm", "fail", "sweep"}
    PROVE  Mine(t) = FreeHeldSeats(tx[t].bk) /\ Mine(t) = SellHeldSeats(tx[t].bk)
  BY DEF Visits, Completes, Giving, Taking, SeatsFirst, FreeHeldSeats, SellHeldSeats

LEMMA HoldRefines ==
    ASSUME LockInv, NEW t \in Sessions, Commit(t), tx[t].op = "hold"
    PROVE  Next
  <1> DEFINE b == tx[t].bk
  <1>1. /\ t \notin Requests /\ b \in Holds /\ status[b] = "NONE"
        /\ Mine(t) # {} /\ Mine(t) \subseteq Seats
    BY CommitKnows DEF Target, Requested
  <1>2. \A s \in Mine(t) : seat[s] = "FREE"
    BY CommitKnows DEF Visits, Taking
  <1>3. /\ seat' = [s \in Seats |-> IF s \in Mine(t) THEN "HELD" ELSE seat[s]]
        /\ heldBy' = [s \in Seats |-> IF s \in Mine(t) THEN b ELSE heldBy[s]]
        /\ status' = [status EXCEPT ![b] = "HELD"]
        /\ bseats' = [bseats EXCEPT ![b] = Mine(t)]
    BY CommitEffect, Written DEF Commit
  <1>4. UNCHANGED <<lapsed, pay, payFor, entry, req, snapshot, overwritten>>
    BY <1>1, CommitEffect, Written
  <1>5. Hold(b, Mine(t))
    BY <1>1, <1>2, <1>3, <1>4 DEF Hold, payVars
  <1> QED BY <1>1, <1>5 DEF Next

LEMMA WebhookRefines ==
    ASSUME LockInv, NEW t \in Sessions, Commit(t), tx[t].op \in Settling
    PROVE  \E p \in Payments : PaymentStep(p)
  <1> DEFINE o == tx[t].op
             b == tx[t].bk
             p == tx[t].pm
  <1>1. t \notin Requests /\ p \in Payments /\ payFor[p] = b /\ b \in Bookings
    BY CommitKnows DEF Requested, Settling, Target
  <1>2. CanSettle(p)
    BY <1>1, CommitKnows DEF Holding, CanSettle, PaymentRow
  <1>3. UNCHANGED <<bseats, lapsed, payFor, entry, req, snapshot, overwritten>>
    BY <1>1, CommitEffect DEF Settling
  <1>4. CASE o = "confirm"
    <2>1. status[b] = "PAYMENT_PENDING" /\ Mine(t) = SellHeldSeats(b)
      BY <1>4, CommitKnows, GivenSeats DEF Knows
    <2>2. /\ seat' = [s \in Seats |-> IF s \in Mine(t) THEN "SOLD" ELSE seat[s]]
          /\ heldBy' = [s \in Seats |-> IF s \in Mine(t) THEN b ELSE heldBy[s]]
          /\ status' = [status EXCEPT ![b] = "CONFIRMED"]
          /\ pay' = [pay EXCEPT ![p] = "SUCCEEDED"]
      BY <1>4, CommitEffect, Written
    <2>3. heldBy' = heldBy
      BY <2>1, <2>2, CommitKnows DEF SellHeldSeats, TypeOK
    <2>4. ConfirmBooking(b)
      BY <1>3, <2>2, CommitKnows DEF ConfirmBooking, LockInv, SessionInv, NobodyWaits, TypeOK
    <2>5. WebhookConfirm(p)
      BY <1>1, <1>2, <1>3, <2>1, <2>2, <2>3, <2>4 DEF WebhookConfirm
    <2> QED BY <1>1, <2>5 DEF PaymentStep
  <1>5. CASE o \in {"late", "lost"}
    <2>1. status[b] = "EXPIRED" /\ Mine(t) \in Reacquired(b)
      BY <1>5, CommitKnows DEF Knows, Visits, Completes, Taking, Reacquired
    <2>2. (Mine(t) = bseats[b]) <=> o = "late"
      BY <1>5, CommitKnows DEF Visits, Completes
    <2>3. /\ seat' = [s \in Seats |-> IF s \in Mine(t) THEN "SOLD" ELSE seat[s]]
          /\ heldBy' = [s \in Seats |-> IF s \in Mine(t) THEN b ELSE heldBy[s]]
      BY <1>5, CommitEffect, Written
    <2>4. CASE o = "late"
      <3>1. status' = [status EXCEPT ![b] = "CONFIRMED"] /\ pay' = [pay EXCEPT ![p] = "SUCCEEDED"]
        BY <2>4, CommitEffect, Written
      <3>2. ConfirmBooking(b)
        BY <1>3, <3>1, CommitKnows DEF ConfirmBooking, LockInv, SessionInv, NobodyWaits, TypeOK
      <3>3. WebhookLate(p)
        BY <1>1, <1>2, <1>3, <2>1, <2>2, <2>3, <2>4, <3>1, <3>2 DEF WebhookLate
      <3> QED BY <1>1, <3>3 DEF PaymentStep
    <2>5. CASE o = "lost"
      <3>1. status' = status /\ pay' = [pay EXCEPT ![p] = "REFUNDED"]
        BY <2>5, CommitEffect, Written
      <3>2. WebhookLate(p)
        BY <1>1, <1>2, <1>3, <2>1, <2>2, <2>3, <2>5, <3>1 DEF WebhookLate, Refund
      <3> QED BY <1>1, <3>2 DEF PaymentStep
    <2> QED BY <1>5, <2>4, <2>5
  <1>6. CASE o \in {"failOnly", "refund"}
    <2>1. Mine(t) = {}
      BY <1>6, CommitKnows DEF Visits, Taking, Giving
    <2>2. seat' = seat /\ heldBy' = heldBy /\ status' = status
      BY <1>6, <2>1, CommitEffect, CommitKnows, Written DEF TypeOK
    <2>3. CASE o = "failOnly"
      <3>1. status[b] # "PAYMENT_PENDING" /\ pay' = [pay EXCEPT ![p] = "FAILED"]
        BY <2>3, CommitKnows, CommitEffect, Written DEF Knows
      <3>2. WebhookFailed(p)
        BY <1>1, <1>2, <1>3, <2>2, <3>1 DEF WebhookFailed, seatVars
      <3> QED BY <1>1, <3>2 DEF PaymentStep
    <2>4. CASE o = "refund"
      <3>1. status[b] \notin {"PAYMENT_PENDING", "EXPIRED"} /\ pay' = [pay EXCEPT ![p] = "REFUNDED"]
        BY <2>4, CommitKnows, CommitEffect, Written DEF Knows
      <3>2. WebhookRefund(p)
        BY <1>1, <1>2, <1>3, <2>2, <3>1 DEF WebhookRefund, Refund, seatVars
      <3> QED BY <1>1, <3>2 DEF PaymentStep
    <2> QED BY <1>6, <2>3, <2>4
  <1>7. CASE o = "fail"
    <2>1. status[b] = "PAYMENT_PENDING" /\ Mine(t) = FreeHeldSeats(b) /\ Mine(t) \in SUBSET Seats
      BY <1>7, CommitKnows, GivenSeats DEF Knows
    <2>2. /\ seat' = [s \in Seats |-> IF s \in Mine(t) THEN "FREE" ELSE seat[s]]
          /\ heldBy' = [s \in Seats |-> IF s \in Mine(t) THEN None ELSE heldBy[s]]
          /\ status' = [status EXCEPT ![b] = "FAILED"]
          /\ pay' = [pay EXCEPT ![p] = "FAILED"]
      BY <1>7, CommitEffect, Written
    <2>3. EndBooking(b, Mine(t), "FAILED")
      BY <1>1, <1>3, <2>1, <2>2, EndWithoutOffers
    <2>4. WebhookFailed(p)
      BY <1>1, <1>2, <1>3, <2>1, <2>2, <2>3 DEF WebhookFailed
    <2> QED BY <1>1, <2>4 DEF PaymentStep
  <1> QED BY <1>4, <1>5, <1>6, <1>7 DEF Settling

LEMMA RequestRefines ==
    ASSUME LockInv, NEW t \in Sessions, Commit(t), tx[t].op \in Requested
    PROVE  t \in Requests /\ RequestStep(t)
  <1> DEFINE o == tx[t].op
             b == tx[t].bk
  <1>1. /\ t \in Requests /\ Finish(t) /\ req[t].op = o /\ req[t].bk = b
        /\ b \in Bookings /\ Mine(t) \in SUBSET Seats
    BY CommitKnows, CommitEffect
  <1>2. bseats' = bseats /\ entry' = entry
    BY CommitEffect DEF Requested
  <1>3. CASE o = "pay"
    <2>1. Mine(t) = {}
      BY <1>3, CommitKnows DEF Visits, Taking, Giving
    <2>2. /\ seat' = seat /\ heldBy' = heldBy
          /\ status' = [status EXCEPT ![b] = "PAYMENT_PENDING"]
      BY <1>3, <2>1, CommitEffect, CommitKnows, Written DEF TypeOK
    <2>3. \E p \in Payments : /\ pay[p] = "NONE"
                              /\ pay' = [pay EXCEPT ![p] = "CHARGED"]
                              /\ payFor' = [payFor EXCEPT ![p] = b]
      BY <1>3 DEF Commit
    <2>4. PayCommit(t)
      BY <1>1, <1>2, <1>3, <2>2, <2>3 DEF PayCommit, seatVars
    <2> QED BY <1>1, <2>4 DEF RequestStep
  <1>4. CASE o \in {"expire", "cancelHold", "cancelSold"}
    <2>1. /\ seat' = [s \in Seats |-> IF s \in Mine(t) THEN "FREE" ELSE seat[s]]
          /\ heldBy' = [s \in Seats |-> IF s \in Mine(t) THEN None ELSE heldBy[s]]
          /\ status' = [status EXCEPT ![b] = StatusTo[o]]
      BY <1>4, CommitEffect, Written
    <2>2. EndBooking(b, Mine(t), StatusTo[o])
      BY <1>1, <1>2, <2>1, EndWithoutOffers
    <2>3. pay' = pay /\ payFor' = payFor
      BY <1>4, CommitEffect, Written
    <2>4. o \in {"expire", "cancelHold"} => Mine(t) \in FreedByRequest(b)
      BY CommitKnows
         DEF Visits, Completes, Giving, SeatsFirst, FreedByRequest, FreeHeldSeats
    <2>5. o = "cancelSold" => Mine(t) = FreeSoldSeats(b)
      BY CommitKnows DEF Visits, Completes, FreeSoldSeats
    <2>6. CASE o = "expire"
      BY <1>1, <2>2, <2>3, <2>4, <2>6, Written DEF LatePayCommit, RequestStep, payVars
    <2>7. CASE o = "cancelHold"
      BY <1>1, <2>2, <2>3, <2>4, <2>7, Written DEF CancelHeldCommit, RequestStep, payVars
    <2>8. CASE o = "cancelSold"
      BY <1>1, <2>2, <2>3, <2>5, <2>8, Written DEF CancelSoldCommit, RequestStep, payVars
    <2> QED BY <1>4, <2>6, <2>7, <2>8
  <1> QED BY <1>1, <1>3, <1>4 DEF Requested

LEMMA CommitRefines ==
    ASSUME LockInv, NEW t \in Sessions, Commit(t)
    PROVE  Next
  <1>1. CASE tx[t].op = "hold"
    BY <1>1, HoldRefines
  <1>2. CASE tx[t].op \in Settling
    BY <1>2, WebhookRefines DEF Next
  <1>3. CASE tx[t].op \in Requested
    BY <1>3, RequestRefines DEF Next
  <1>4. CASE tx[t].op = "sweep"
    <2> DEFINE b == tx[t].bk
    <2>1. /\ t \notin Requests /\ b \in lapsed /\ status[b] \in Live /\ b \in Bookings
          /\ Mine(t) = FreeHeldSeats(b) /\ Mine(t) \in SUBSET Seats
      BY <1>4, CommitKnows, GivenSeats DEF Requested, Knows
    <2>2. /\ seat' = [s \in Seats |-> IF s \in Mine(t) THEN "FREE" ELSE seat[s]]
          /\ heldBy' = [s \in Seats |-> IF s \in Mine(t) THEN None ELSE heldBy[s]]
          /\ status' = [status EXCEPT ![b] = "EXPIRED"]
          /\ bseats' = bseats /\ entry' = entry
      BY <1>4, CommitEffect, Written
    <2>3. UNCHANGED <<lapsed, pay, payFor, req, snapshot, overwritten>>
      BY <1>4, <2>1, CommitEffect, Written
    <2>4. EndBooking(b, Mine(t), "EXPIRED")
      BY <2>1, <2>2, EndWithoutOffers
    <2>5. Sweep(b)
      BY <2>1, <2>3, <2>4 DEF Sweep, payVars
    <2> QED BY <2>1, <2>5 DEF Next
  <1>5. tx[t].op \in Operations \ {"none", "missed"}
    BY CommitKnows
  <1>6. tx[t].op \notin Delivered
    BY CommitKnows DEF Holding, Delivered, PaymentRow, BookingRow
  <1> QED BY <1>1, <1>2, <1>3, <1>4, <1>5, <1>6
          DEF Operations, Settling, Taking

\* Every step of RowLocks is one of SeatBooking or leaves its variables alone.
LEMMA StepRefines == LockInv /\ [LockNext]_lockVars => [Next]_vars
  <1> SUFFICES ASSUME LockInv, [LockNext]_lockVars PROVE [Next]_vars
    OBVIOUS
  <1>1. ASSUME NEW t \in Sessions, SessionStep(t)
        PROVE  [Next]_vars
    <2>1. CASE Commit(t)
      BY <2>1, CommitRefines
    <2>2. CASE RollBack(t) /\ t \in Requests
      <3>1. CASE req[t] = Idle
        BY <2>2, <3>1 DEF RollBack, vars, seatVars, payVars, LockInv, SessionInv, SeatInv, TypeOK
      <3>2. CASE req[t] # Idle
        <4>1. Abort(t)
          BY <2>2, <3>2 DEF RollBack, Abort
        <4> QED BY <2>2, <4>1 DEF Next, RequestStep
      <3> QED BY <3>1, <3>2
    <2>3. CASE RollBack(t) /\ t \notin Requests
      BY <2>3 DEF RollBack, vars, seatVars, payVars
    <2>4. CASE ~ Commit(t) /\ ~ RollBack(t)
      BY <1>1, <2>4 DEF SessionStep, BeginHold, BeginWebhook, BeginSweep, LockPayment,
                        LockBookingOfPayment, LockBookingLast, UpdateSeat, MissSeat
    <2> QED BY <2>1, <2>2, <2>3, <2>4
  <1>2. ASSUME NEW r \in Requests, NEW b \in Bookings, BeginRequest(r, b)
        PROVE  [Next]_vars
    BY <1>2 DEF BeginRequest, Next, RequestStep
  <1>3. ASSUME NEW p \in Payments, RecordPayment(p)
        PROVE  [Next]_vars
    BY <1>3 DEF Next, PaymentStep
  <1>4. ASSUME NEW b \in Bookings, Lapse(b)
        PROVE  [Next]_vars
    BY <1>4 DEF Next
  <1>5. CASE UNCHANGED lockVars
    BY <1>5 DEF lockVars
  <1> QED BY <1>1, <1>2, <1>3, <1>4, <1>5 DEF LockNext

-----------------------------------------------------------------------------
(***************************************************************************)
(* LockInv is inductive                                                    *)
(***************************************************************************)

LEMMA IdleSession ==
    ASSUME NEW t, tx'[t] = NoTx
    PROVE  SessionOK(t)'
  BY DEF NoTx, SessionOK, Target, Holding, Knows, Visits, Completes, Mine, Delivered,
         Settling, Requested, Taking, Giving, SeatsFirst

\* What a session knows stays true when the others do not touch what it relies on.
LEMMA Undisturbed ==
    ASSUME LockInv, NEW u \in Sessions, tx'[u] = tx[u],
           tx[u].op # "none" => tx[u].bk \in Bookings,
           u \in Requests => req'[u] = req[u],
           \A p \in Payments : pay[p] # "NONE" => pay'[p] # "NONE" /\ payFor'[p] = payFor[p],
           \A p \in Payments : <<"payment", p>> \in tx[u].locked => pay'[p] = pay[p],
           lapsed \subseteq lapsed',
           BookingRow(u) \in tx[u].locked \/ tx[u].op \in {"hold", "missed"}
               => status'[tx[u].bk] = status[tx[u].bk],
           \A b \in Bookings : status[b] # "NONE" => status'[b] # "NONE" /\ bseats'[b] = bseats[b],
           \A s \in Mine(u) : seat'[s] = seat[s] /\ heldBy'[s] = heldBy[s],
           tx[u].op \in {"hold", "missed"} =>
               \A v \in Sessions : tx'[v].bk = tx[u].bk => v = u,
           tx[u].op \in Giving => \A s \in bseats[tx[u].bk] : heldBy'[s] = tx[u].bk =>
               \/ heldBy[s] = tx[u].bk /\ (seat[s] = "SOLD" => seat'[s] = "SOLD")
               \/ tx[u].op \in SeatsFirst /\ seat'[s] = "SOLD"
    PROVE  SessionOK(u)'
  <1> DEFINE o == tx[u].op
             b == tx[u].bk
  <1>1. Target(u) /\ Holding(u) /\ Knows(u) /\ Visits(u) /\ Completes(u)
    BY DEF LockInv, SessionInv, SessionOK
  <1>2. Mine(u)' = Mine(u) /\ BookingRow(u)' = BookingRow(u) /\ PaymentRow(u)' = PaymentRow(u)
    BY DEF Mine, BookingRow, PaymentRow
  <1>3. o \notin {"none", "hold", "missed"} => status[b] # "NONE" /\ bseats'[b] = bseats[b]
    BY <1>1 DEF Target
  <1>4. Target(u)'
    BY <1>1, <1>2, <1>3 DEF Target, Requested, Delivered, Settling
  <1>5. Holding(u)'
    BY <1>1, <1>2 DEF Holding
  <1>6. Knows(u)'
    <2>1. o \in Settling \cup {"sweep"} => status'[b] = status[b]
      BY <1>1 DEF Holding
    <2> QED BY <1>1, <2>1 DEF Knows, Settling
  <1>7. Visits(u)'
    BY <1>1, <1>2, <1>3 DEF Visits, Taking
  <1>8. Completes(u)'
    BY <1>1, <1>2, <1>3 DEF Completes, Giving
  <1> QED BY <1>4, <1>5, <1>6, <1>7, <1>8 DEF SessionOK

Rows == ({"seat"} \X Seats) \cup ({"booking"} \X Bookings) \cup ({"payment"} \X Payments)
Transactions == [op : Operations, bk : Bookings \cup {None}, pm : Payments \cup {None},
                 todo : SUBSET Seats, locked : SUBSET Rows]

\* One session changes its own transaction, and nothing else but requests that have
\* no transaction.
LEMMA StatementInv ==
    ASSUME LockInv, NEW t \in Sessions, NEW w \in Transactions,
           tx' = [tx EXCEPT ![t] = w],
           UNCHANGED <<seat, heldBy, status, bseats, lapsed, pay, payFor, entry>>,
           \A u \in Requests \ {t} : req'[u] = req[u],
           \A u \in Sessions \ {t} : w.locked \cap tx[u].locked = {},
           \A u \in Sessions \ {t} : tx[u].op \in {"hold", "missed"} => tx[u].bk # w.bk,
           SessionOK(t)'
    PROVE  SessionInv'
  <1>1. tx \in [Sessions -> Transactions] /\ LockTypeOK'
    BY DEF LockInv, SessionInv, LockTypeOK, Transactions, Rows
  <1>2. tx'[t] = w /\ \A u \in Sessions \ {t} : tx'[u] = tx[u]
    BY <1>1
  <1>3. LocksAreExclusive'
    BY <1>2 DEF LockInv, SessionInv, LocksAreExclusive
  <1>4. ASSUME NEW u \in Sessions, u # t
        PROVE  SessionOK(u)'
    <2>1. tx'[u] = tx[u]
      BY <1>2, <1>4
    <2>2. Target(u)
      BY DEF LockInv, SessionInv, SessionOK
    <2>3. tx[u].op \in {"hold", "missed"} => \A v \in Sessions : tx'[v].bk = tx[u].bk => v = u
      BY <1>2, <1>4, <2>2 DEF Target
    <2>4. tx[u].op # "none" => tx[u].bk \in Bookings
      BY <2>2 DEF Target
    <2> QED BY <1>4, <2>1, <2>3, <2>4, Undisturbed
  <1>5. NobodyWaits'
    BY DEF LockInv, SessionInv, NobodyWaits
  <1>6. SessionOK(t)'
    OBVIOUS
  <1> QED BY <1>1, <1>3, <1>4, <1>5, <1>6 DEF SessionInv

LEMMA BeginInv ==
    ASSUME LockInv, NEW t \in Sessions,
           \/ \E b \in Holds, S \in (SUBSET Seats) \ {{}} : BeginHold(t, b, S)
           \/ \E p \in Payments, o \in {"succeeded", "failed"} : BeginWebhook(t, p, o)
           \/ \E b \in Bookings : BeginSweep(t, b)
           \/ t \in Requests /\ \E b \in Bookings : BeginRequest(t, b)
    PROVE  SessionInv'
  <1>1. /\ \A u \in Sessions : Target(u) /\ Holding(u)
        /\ TypeOK /\ RowsExist /\ tx \in [Sessions -> Transactions]
    BY DEF LockInv, SessionInv, SessionOK, SeatInv, LockTypeOK, Transactions, Rows
  <1>0. \A u \in Sessions : tx[u].op \in {"hold", "missed"} => status[tx[u].bk] = "NONE"
    BY <1>1 DEF Target
  <1>2. ASSUME NEW b \in Holds, NEW S \in (SUBSET Seats) \ {{}}, BeginHold(t, b, S)
        PROVE  SessionInv'
    <2> DEFINE w == [op |-> "hold", bk |-> b, pm |-> None, todo |-> S, locked |-> {}]
    <2>1. w \in Transactions
      BY DEF Transactions, Operations, Taking
    <2>2. /\ tx' = [tx EXCEPT ![t] = w] /\ tx'[t] = w
          /\ UNCHANGED <<seat, heldBy, status, bseats, lapsed, pay, payFor, entry, req>>
      BY <1>1, <1>2 DEF BeginHold, Open, vars, seatVars, payVars
    <2>3. \A u \in Sessions \ {t} : tx[u].bk # b
      BY <1>2 DEF BeginHold
    <2>4. \A u \in Sessions \ {t} : tx'[u].bk # b
      BY <1>1, <2>2, <2>3
    <2>5. SessionOK(t)'
      BY <1>2, <2>2, <2>4
         DEF BeginHold, SessionOK, Target, Holding, Knows, Visits, Completes, Mine, Delivered,
             Settling, Requested, Taking, Giving, SeatsFirst
    <2> QED BY <2>1, <2>2, <2>3, <2>5, StatementInv
  <1>3. ASSUME NEW p \in Payments, NEW o \in {"succeeded", "failed"}, BeginWebhook(t, p, o)
        PROVE  SessionInv'
    <2> DEFINE w == [op |-> o, bk |-> payFor[p], pm |-> p, todo |-> {}, locked |-> {}]
    <2>1. payFor[p] \in Bookings /\ status[payFor[p]] # "NONE" /\ pay[p] # "NONE"
      BY <1>1, <1>3 DEF BeginWebhook, TypeOK, RowsExist
    <2>2. w \in Transactions
      BY <2>1 DEF Transactions, Operations, Delivered
    <2>3. /\ tx' = [tx EXCEPT ![t] = w] /\ tx'[t] = w
          /\ UNCHANGED <<seat, heldBy, status, bseats, lapsed, pay, payFor, entry, req>>
      BY <1>1, <1>3 DEF BeginWebhook, Open, vars, seatVars, payVars
    <2>4. \A u \in Sessions \ {t} : tx[u].op \in {"hold", "missed"} => tx[u].bk # payFor[p]
      BY <1>0, <2>1
    <2>5. SessionOK(t)'
      BY <1>3, <2>1, <2>3
         DEF BeginWebhook, SessionOK, Target, Holding, Knows, Visits, Completes, Mine, Delivered,
             Settling, Requested, Taking, Giving, SeatsFirst
    <2> QED BY <2>2, <2>3, <2>4, <2>5, StatementInv
  <1>4. ASSUME NEW b \in Bookings, BeginSweep(t, b)
        PROVE  SessionInv'
    <2> DEFINE w == [op |-> "sweep", bk |-> b, pm |-> None, todo |-> bseats[b],
                     locked |-> {<<"booking", b>>}]
    <2>1. b \in lapsed /\ status[b] \in Live /\ status[b] # "NONE" /\ t \notin Requests
      BY <1>4 DEF BeginSweep, Live
    <2>2. w \in Transactions
      BY <1>1 DEF Transactions, Operations, Rows, TypeOK
    <2>3. /\ tx' = [tx EXCEPT ![t] = w] /\ tx'[t] = w
          /\ UNCHANGED <<seat, heldBy, status, bseats, lapsed, pay, payFor, entry, req>>
      BY <1>1, <1>4 DEF BeginSweep, Open, vars, seatVars, payVars
    <2>4. \A u \in Sessions \ {t} : /\ w.locked \cap tx[u].locked = {}
                                    /\ tx[u].op \in {"hold", "missed"} => tx[u].bk # b
      BY <1>0, <1>4, <2>1 DEF BeginSweep, Unlocked
    <2>5. Mine(t)' = {} /\ BookingRow(t)' = <<"booking", b>>
      BY <2>3 DEF Mine, SeatRow, BookingRow
    <2>6. Target(t)' /\ Holding(t)' /\ Knows(t)'
      BY <2>1, <2>3, <2>5 DEF Target, Holding, Knows, Delivered, Settling, Requested, SeatsFirst
    <2>7. Visits(t)' /\ Completes(t)'
      BY <2>3, <2>5 DEF Visits, Completes, Taking, Giving
    <2> QED BY <2>2, <2>3, <2>4, <2>6, <2>7, StatementInv DEF SessionOK
  <1>5. ASSUME t \in Requests, NEW b \in Bookings, BeginRequest(t, b)
        PROVE  SessionInv'
    <2>1. PICK o \in Requested : Decide(t, b, o)
      BY <1>5 DEF BeginRequest, PayRead, CancelRead, Requested
    <2> DEFINE w == [op |-> o, bk |-> b, pm |-> None, locked |-> {},
                     todo |-> IF o = "pay" THEN {} ELSE bseats[b]]
    <2>2. status[b] # "NONE"
      BY <1>5 DEF BeginRequest, PayRead, CancelRead, Live
    <2>3. req'[t] = [op |-> o, bk |-> b] /\ \A u \in Requests \ {t} : req'[u] = req[u]
      BY <1>1, <1>5, <2>1 DEF Decide, TypeOK
    <2>4. w \in Transactions
      BY <1>1 DEF Transactions, Operations, TypeOK
    <2>5. /\ tx' = [tx EXCEPT ![t] = w] /\ tx'[t] = w
          /\ UNCHANGED <<seat, heldBy, status, bseats, lapsed, pay, payFor, entry>>
      <3>1. tx' = [tx EXCEPT ![t] = w]
        BY <1>5, <2>3 DEF BeginRequest, Open
      <3>2. UNCHANGED <<seat, heldBy, status, bseats, lapsed, pay, payFor, entry>>
        BY <2>1 DEF Decide, seatVars, payVars
      <3> QED BY <1>1, <3>1, <3>2
    <2>6. \A u \in Sessions \ {t} : tx[u].op \in {"hold", "missed"} => tx[u].bk # b
      BY <1>0, <2>2
    <2>7. Mine(t)' = {} /\ tx'[t].locked = {}
      BY <2>5 DEF Mine
    <2>8. Target(t)' /\ Holding(t)' /\ Knows(t)'
      BY <1>5, <2>2, <2>3, <2>5, <2>7
         DEF Target, Holding, Knows, Delivered, Settling, Requested, SeatsFirst
    <2>9. Visits(t)' /\ Completes(t)'
      BY <2>5, <2>7 DEF Visits, Completes, Taking, Giving, Requested
    <2> QED BY <2>3, <2>4, <2>5, <2>6, <2>8, <2>9, StatementInv DEF SessionOK
  <1> QED BY <1>2, <1>3, <1>4, <1>5

\* A statement of an open transaction changes op, todo and locked of its session.
LEMMA StatementType ==
    ASSUME LockInv, NEW t \in Sessions, NEW o \in Operations,
           NEW D \in SUBSET Seats, NEW L \in SUBSET Rows,
           tx' = [tx EXCEPT ![t] = [tx[t] EXCEPT !.op = o, !.todo = D, !.locked = L]],
           UNCHANGED vars,
           \A u \in Sessions \ {t} : L \cap tx[u].locked = {},
           tx'[t].op = o /\ tx'[t].bk = tx[t].bk /\ tx'[t].pm = tx[t].pm
               /\ tx'[t].todo = D /\ tx'[t].locked = L => SessionOK(t)'
    PROVE  SessionInv'
  <1> DEFINE w == [tx[t] EXCEPT !.op = o, !.todo = D, !.locked = L]
  <1>1. tx \in [Sessions -> Transactions] /\ \A u \in Sessions : Target(u)
    BY DEF LockInv, SessionInv, LockTypeOK, SessionOK, Transactions, Rows
  <1>2. w \in Transactions
    BY <1>1 DEF Transactions
  <1>3. w.locked = L /\ w.bk = tx[t].bk /\ w.op = o /\ w.pm = tx[t].pm /\ w.todo = D
    BY <1>1 DEF Transactions
  <1>4. tx'[t] = w
    BY <1>1
  <1>5. \A u \in Sessions \ {t} : tx[u].op \in {"hold", "missed"} => tx[u].bk # w.bk
    <2>1. \A u \in Sessions : tx[u].op \in {"hold", "missed"} =>
              \A v \in Sessions : tx[v].bk = tx[u].bk => v = u
      BY <1>1 DEF Target
    <2> QED BY <1>3, <2>1
  <1> HIDE DEF w
  <1>6. SessionOK(t)'
    BY <1>3, <1>4
  <1>7. UNCHANGED <<seat, heldBy, status, bseats, lapsed, pay, payFor, entry, req>>
    BY DEF vars
  <1>8. tx' = [tx EXCEPT ![t] = w] /\ \A u \in Sessions \ {t} : w.locked \cap tx[u].locked = {}
    BY <1>3 DEF w
  <1> QED BY <1>2, <1>5, <1>6, <1>7, <1>8, StatementInv

LEMMA EndSessionInv ==
    ASSUME LockInv, NEW t \in Sessions, tx' = [tx EXCEPT ![t] = NoTx], entry' = entry,
           \A u \in Sessions \ {t} : SessionOK(u)'
    PROVE  SessionInv'
  <1>1. tx \in [Sessions -> Transactions]
    BY DEF LockInv, SessionInv, LockTypeOK, Transactions, Rows
  <1>2. NoTx \in Transactions /\ NoTx.locked = {}
    BY DEF NoTx, Transactions, Operations
  <1>3. tx'[t] = NoTx /\ \A u \in Sessions \ {t} : tx'[u] = tx[u]
    BY <1>1
  <1>4. LockTypeOK'
    BY <1>1, <1>2 DEF LockTypeOK, Transactions, Rows
  <1>5. LocksAreExclusive'
    BY <1>2, <1>3 DEF LockInv, SessionInv, LocksAreExclusive
  <1>6. SessionOK(t)'
    BY <1>3, IdleSession
  <1>7. NobodyWaits'
    BY DEF LockInv, SessionInv, NobodyWaits
  <1> QED BY <1>4, <1>5, <1>6, <1>7 DEF SessionInv

LEMMA WebhookStatementInv ==
    ASSUME LockInv, NEW t \in Sessions, LockPayment(t) \/ LockBookingOfPayment(t)
    PROVE  SessionInv'
  <1> DEFINE b == tx[t].bk
             p == tx[t].pm
             L == tx[t].locked
  <1>1. /\ Target(t) /\ Holding(t) /\ Visits(t) /\ TypeOK /\ tx \in [Sessions -> Transactions]
        /\ \A u \in Sessions \ {t} : L \cap tx[u].locked = {}
    BY DEF LockInv, SessionInv, SessionOK, SeatInv, LockTypeOK, LocksAreExclusive, Transactions, Rows
  <1>2. /\ tx[t].op \in Delivered /\ tx[t].todo = {} /\ b \in Bookings /\ t \notin Requests
        /\ p \in Payments /\ payFor[p] = b /\ pay[p] # "NONE" /\ status[b] # "NONE"
        /\ L \subseteq {PaymentRow(t)}
    BY <1>1 DEF LockPayment, LockBookingOfPayment, Target, Holding, Delivered, Requested
  <1>3. tx[t] = [op |-> tx[t].op, bk |-> b, pm |-> p, todo |-> {}, locked |-> L]
    BY <1>1, <1>2 DEF Transactions
  <1>4. CASE LockPayment(t) /\ pay[p] # "PENDING"
    <2>1. tx' = [tx EXCEPT ![t] = NoTx] /\ NoTx \in Transactions /\ UNCHANGED vars
      BY <1>1, <1>4 DEF LockPayment, NoTx, Transactions, Operations
    <2>2. NoTx.locked = {} /\ NoTx.bk = None /\ tx'[t] = NoTx
      BY <1>1, <2>1 DEF NoTx
    <2>3. \A u \in Sessions : tx[u].op \in {"hold", "missed"} => tx[u].bk # None
      BY NamesAreDistinct DEF LockInv, SessionInv, SessionOK, Target
    <2> QED BY <2>1, <2>2, <2>3, IdleSession, StatementInv DEF vars
  <1>5. CASE LockPayment(t) /\ pay[p] = "PENDING"
    <2> DEFINE K == {PaymentRow(t)}
    <2>1. /\ tx' = [tx EXCEPT ![t] = [tx[t] EXCEPT !.op = tx[t].op, !.todo = {}, !.locked = K]]
          /\ UNCHANGED vars
      <3>1. [tx[t] EXCEPT !.locked = K] = [tx[t] EXCEPT !.op = tx[t].op, !.todo = {}, !.locked = K]
        <4> HIDE DEF K
        <4> QED BY <1>1, <1>2 DEF Transactions
      <3> QED BY <1>1, <1>5, <3>1 DEF LockPayment
    <2>2. K \in SUBSET Rows /\ \A u \in Sessions \ {t} : K \cap tx[u].locked = {}
      BY <1>2, <1>5 DEF LockPayment, Unlocked, PaymentRow, Rows
    <2>3. ASSUME tx'[t].op = tx[t].op, tx'[t].bk = b, tx'[t].pm = p, tx'[t].todo = {},
                 tx'[t].locked = K
          PROVE  SessionOK(t)'
      <3>1. Mine(t)' = {} /\ PaymentRow(t)' = PaymentRow(t) /\ K = {<<"payment", p>>}
        BY <2>3 DEF Mine, SeatRow, PaymentRow
      <3>2. Target(t)' /\ Holding(t)'
        BY <1>1, <1>2, <1>5, <2>1, <2>3, <3>1
           DEF Target, Holding, BookingRow, Delivered, Settling, Requested, SeatsFirst, vars
      <3>3. Knows(t)' /\ Visits(t)' /\ Completes(t)'
        BY <1>2, <2>3, <3>1 DEF Knows, Visits, Completes, Delivered, Taking, Giving
      <3> QED BY <3>2, <3>3 DEF SessionOK
    <2> HIDE DEF K
    <2> QED BY <1>2, <2>1, <2>2, <2>3, StatementType DEF Operations
  <1>6. CASE LockBookingOfPayment(t)
    <2> DEFINE o == Settlement(tx[t].op, status[b])
               K == L \cup {BookingRow(t)}
               D == IF o \in {"fail", "confirm", "late"} THEN bseats[b] ELSE {}
    <2>1. /\ tx' = [tx EXCEPT ![t] = [tx[t] EXCEPT !.op = o, !.todo = D, !.locked = K]]
          /\ UNCHANGED vars
      BY <1>1, <1>3, <1>6 DEF LockBookingOfPayment
    <2>2. o \in {"confirm", "late", "fail", "failOnly", "refund"} /\ D \in SUBSET Seats
      BY <1>1, <1>2 DEF Settlement, TypeOK
    <2>3. L = {<<"payment", p>>} /\ K = {<<"payment", p>>, <<"booking", b>>} /\ pay[p] = "PENDING"
      BY <1>1, <1>2, <1>6 DEF LockBookingOfPayment, PaymentRow, BookingRow, Holding
    <2>4. K \in SUBSET Rows /\ \A u \in Sessions \ {t} : K \cap tx[u].locked = {}
      BY <1>1, <1>2, <1>6, <2>3 DEF LockBookingOfPayment, Unlocked, BookingRow, Rows
    <2>5. ASSUME tx'[t].op = o, tx'[t].bk = b, tx'[t].pm = p, tx'[t].todo = D,
                 tx'[t].locked = K
          PROVE  SessionOK(t)'
      <3>1. /\ Mine(t)' = {} /\ PaymentRow(t)' = <<"payment", p>>
            /\ BookingRow(t)' = <<"booking", b>>
        BY <2>3, <2>5 DEF Mine, SeatRow, PaymentRow, BookingRow
      <3>2. Target(t)'
        BY <1>2, <2>1, <2>2, <2>5 DEF Target, Delivered, Settling, Requested, vars
      <3>3. Holding(t)'
        BY <2>1, <2>2, <2>3, <2>5, <3>1 DEF Holding, Delivered, Settling, SeatsFirst, vars
      <3>4. Knows(t)'
        BY <1>2, <2>1, <2>5 DEF Knows, Settlement, Delivered, vars
      <3>5. Visits(t)' /\ Completes(t)'
        BY <2>1, <2>2, <2>5, <3>1 DEF Visits, Completes, Taking, Giving, vars
      <3> QED BY <3>2, <3>3, <3>4, <3>5 DEF SessionOK
    <2>6. o \in Operations
      BY <2>2 DEF Operations, Settling
    <2> HIDE DEF o, K, D
    <2> QED BY <2>1, <2>2, <2>4, <2>5, <2>6, StatementType
  <1> QED BY <1>4, <1>5, <1>6

LEMMA BookingStatementInv ==
    ASSUME LockInv, NEW t \in Sessions, LockBookingLast(t)
    PROVE  SessionInv'
  <1> DEFINE b == tx[t].bk
             o == tx[t].op
             K == tx[t].locked \cup {BookingRow(t)}
  <1>1. /\ Target(t) /\ Holding(t) /\ Visits(t) /\ Completes(t)
        /\ tx \in [Sessions -> Transactions]
        /\ \A u \in Sessions \ {t} : tx[t].locked \cap tx[u].locked = {}
    BY DEF LockInv, SessionInv, SessionOK, LockTypeOK, LocksAreExclusive, Transactions, Rows
  <1>2. o \in Requested /\ tx[t].todo = {} /\ b \in Bookings
    BY <1>1 DEF LockBookingLast, SeatsFirst, Requested, Target
  <1>3. /\ tx' = [tx EXCEPT ![t] = [tx[t] EXCEPT !.op = o, !.todo = {}, !.locked = K]]
        /\ UNCHANGED vars
    <2>1. [tx[t] EXCEPT !.locked = K] = [tx[t] EXCEPT !.op = o, !.todo = {}, !.locked = K]
      BY <1>1, <1>2 DEF Transactions
    <2> QED BY <1>1, <2>1 DEF LockBookingLast
  <1>4. K \in SUBSET Rows /\ \A u \in Sessions \ {t} : K \cap tx[u].locked = {}
    <2>1. BookingRow(t) \in Rows /\ tx[t].locked \in SUBSET Rows
      BY <1>1, <1>2 DEF BookingRow, Rows, Transactions
    <2>2. \A u \in Sessions \ {t} : BookingRow(t) \notin tx[u].locked
      BY DEF LockBookingLast, Unlocked
    <2> QED BY <1>1, <2>1, <2>2
  <1>5. ASSUME tx'[t].op = o, tx'[t].bk = b, tx'[t].pm = tx[t].pm, tx'[t].todo = {},
               tx'[t].locked = K
        PROVE  SessionOK(t)'
    <2>1. /\ Mine(t)' = Mine(t) /\ PaymentRow(t)' = PaymentRow(t) /\ BookingRow(t)' = <<"booking", b>>
          /\ BookingRow(t) = <<"booking", b>>
      BY <1>5 DEF Mine, SeatRow, PaymentRow, BookingRow
    <2>2. Target(t)'
      BY <1>1, <1>2, <1>3, <1>5 DEF Target, Delivered, Settling, Requested, vars
    <2>3. Holding(t)'
      BY <1>1, <1>2, <1>3, <1>5, <2>1 DEF Holding, Delivered, Settling, Requested, vars
    <2>4. Knows(t)'
      BY <1>2, <1>5 DEF Knows, Requested
    <2>5. Visits(t)' /\ Completes(t)'
      BY <1>1, <1>2, <1>3, <1>5, <2>1 DEF Visits, Completes, vars
    <2> QED BY <2>2, <2>3, <2>4, <2>5 DEF SessionOK
  <1> HIDE DEF K
  <1> QED BY <1>1, <1>2, <1>3, <1>4, <1>5, StatementType DEF Operations

LEMMA SeatStatementInv ==
    ASSUME LockInv, NEW t \in Sessions, NEW s \in Seats, UpdateSeat(t, s) \/ MissSeat(t, s)
    PROVE  SessionInv'
  <1> DEFINE b == tx[t].bk
             o == tx[t].op
             D == tx[t].todo \ {s}
             K == tx[t].locked \cup {SeatRow(s)}
  <1>1. /\ Target(t) /\ Holding(t) /\ Knows(t) /\ Visits(t) /\ Completes(t)
        /\ TypeOK /\ tx \in [Sessions -> Transactions]
        /\ \A u \in Sessions \ {t} : tx[t].locked \cap tx[u].locked = {}
    BY DEF LockInv, SessionInv, SessionOK, SeatInv, LockTypeOK, LocksAreExclusive, Transactions, Rows
  <1>2. s \in tx[t].todo /\ s \in NextSeats(t) /\ UNCHANGED vars
    BY DEF UpdateSeat, MissSeat, NextSeats
  <1>3. /\ o \in Taking \cup Giving \cup {"cancelSold"} /\ o # "lost" /\ b \in Bookings
        /\ o \in Operations /\ D \in SUBSET Seats /\ tx[t].locked \in SUBSET Rows
        /\ o \notin Delivered
    BY <1>1, <1>2 DEF Visits, Target, Taking, Giving, Transactions, Delivered
  <1>4. o \in {"hold", "missed", "late"} => \A u \in D : s < u
    BY <1>1, <1>2, SeatsAreOrdered DEF NextSeats, Transactions
  <1>5. o \in SeatsFirst => BookingRow(t) \notin tx[t].locked
    BY <1>1, <1>2 DEF Holding
  <1>6. CASE UpdateSeat(t, s)
    <2>1. tx' = [tx EXCEPT ![t] = [tx[t] EXCEPT !.op = o, !.todo = D, !.locked = K]]
      <3>1. [tx[t] EXCEPT !.todo = D, !.locked = K]
                = [tx[t] EXCEPT !.op = o, !.todo = D, !.locked = K]
        <4> HIDE DEF D, K
        <4> QED BY <1>1 DEF Transactions
      <3>2. tx' = [tx EXCEPT ![t] = [tx[t] EXCEPT !.todo = D, !.locked = K]]
        BY <1>1, <1>6 DEF UpdateSeat
      <3> QED BY <3>1, <3>2
    <2>2. K \in SUBSET Rows /\ \A u \in Sessions \ {t} : K \cap tx[u].locked = {}
      <3>1. SeatRow(s) \in Rows
        BY DEF SeatRow, Rows
      <3>2. \A u \in Sessions \ {t} : SeatRow(s) \notin tx[u].locked
        BY <1>6 DEF UpdateSeat, Unlocked
      <3> QED BY <1>1, <1>3, <3>1, <3>2
    <2>3. ASSUME tx'[t].op = o, tx'[t].bk = b, tx'[t].pm = tx[t].pm, tx'[t].todo = D,
                 tx'[t].locked = K
          PROVE  SessionOK(t)'
      <3>1. /\ Mine(t)' = Mine(t) \cup {s} /\ PaymentRow(t)' = PaymentRow(t)
            /\ BookingRow(t)' = BookingRow(t)
        BY <2>3 DEF Mine, SeatRow, PaymentRow, BookingRow
      <3>2. D \cup Mine(t)' = tx[t].todo \cup Mine(t)
        BY <1>2, <3>1
      <3>3. Target(t)'
        <4>1. o \in {"hold", "missed"} => \A u \in Sessions : tx'[u].bk = b => u = t
          BY <1>1, <2>1, <2>3 DEF Target
        <4> HIDE DEF D, K
        <4>2. o # "none"
          BY <1>3 DEF Taking, Giving
        <4> QED BY <1>1, <1>2, <2>3, <3>2, <4>1, <4>2 DEF Target, vars
      <3>4. Holding(t)'
        <4>1. /\ \A c \in Bookings : <<"booking", c>> \in K <=> <<"booking", c>> \in tx[t].locked
              /\ \A p \in Payments : <<"payment", p>> \in K <=> <<"payment", p>> \in tx[t].locked
          BY DEF SeatRow
        <4>2. BookingRow(t) \in K => BookingRow(t) \in tx[t].locked
          BY DEF SeatRow, BookingRow
        <4> QED BY <1>1, <1>2, <1>3, <1>5, <2>3, <3>1, <4>1, <4>2 DEF Holding, vars
      <3>5. Knows(t)'
        BY <1>1, <1>2, <2>3 DEF Knows, vars
      <3>6. Visits(t)'
        <4>1. o \in Taking => seat[s] = "FREE"
          BY <1>3, <1>6 DEF UpdateSeat, Matches, Taking
        <4>2. o \in Giving => heldBy[s] = b
          BY <1>6 DEF UpdateSeat, Matches, Giving
        <4>3. o \in {"hold", "missed", "late"} => \A r \in Mine(t) \cup {s}, u \in D : r < u
          BY <1>1, <1>4 DEF Visits
        <4> QED BY <1>1, <1>2, <1>3, <2>3, <3>1, <3>2, <4>1, <4>2, <4>3 DEF Visits, vars
      <3>7. Completes(t)'
        BY <1>1, <1>2, <1>3, <2>3, <3>2 DEF Completes, vars
      <3> QED BY <3>3, <3>4, <3>5, <3>6, <3>7 DEF SessionOK
    <2> HIDE DEF o, D, K
    <2> QED BY <1>2, <1>3, <2>1, <2>2, <2>3, StatementType
  <1>7. CASE MissSeat(t, s)
    <2> DEFINE n == IF o = "hold" THEN "missed" ELSE IF o = "late" THEN "lost" ELSE o
               E == IF o = "late" THEN {} ELSE D
               L == tx[t].locked
    <2>1. tx' = [tx EXCEPT ![t] = [tx[t] EXCEPT !.op = n, !.todo = E, !.locked = L]]
      <3>1. [tx[t] EXCEPT !.todo = E, !.op = n]
                = [tx[t] EXCEPT !.op = n, !.todo = E, !.locked = L]
        <4> HIDE DEF E, n
        <4> QED BY <1>1 DEF Transactions
      <3>2. tx' = [tx EXCEPT ![t] = [tx[t] EXCEPT !.todo = E, !.op = n]]
        BY <1>1, <1>7 DEF MissSeat
      <3> QED BY <3>1, <3>2
    <2>2. /\ n \in Operations /\ E \in SUBSET Seats /\ s \notin Mine(t)
          /\ n \in Requested <=> o \in Requested
      <3>1. ~ Matches(t, s)
        BY <1>7 DEF MissSeat
      <3>2. ~ (s < s)
        BY SeatsAreOrdered
      <3>3. s \notin Mine(t)
        BY <1>1, <1>2, <1>3, <3>1, <3>2 DEF Visits, Matches, Taking, Giving
      <3>4. n \in Operations /\ (n \in Requested <=> o \in Requested)
        BY <1>3 DEF Operations, Taking, Requested
      <3> QED BY <1>3, <3>3, <3>4
    <2>3. ASSUME tx'[t].op = n, tx'[t].bk = b, tx'[t].pm = tx[t].pm, tx'[t].todo = E,
                 tx'[t].locked = L
          PROVE  SessionOK(t)'
      <3>1. /\ Mine(t)' = Mine(t) /\ PaymentRow(t)' = PaymentRow(t)
            /\ BookingRow(t)' = BookingRow(t)
        BY <2>3 DEF Mine, PaymentRow, BookingRow
      <3>2. Target(t)'
        <4>1. o \in {"hold", "missed"} => \A u \in Sessions : tx'[u].bk = b => u = t
          BY <1>1, <2>1, <2>3 DEF Target
        <4> QED BY <1>1, <1>2, <1>3, <2>3, <4>1
                DEF Target, vars, Requested, Delivered, Settling, Taking, Giving
      <3>3. Holding(t)'
        BY <1>1, <1>2, <1>3, <1>5, <2>3, <3>1 DEF Holding, vars, Delivered, Settling, SeatsFirst
      <3>4. Knows(t)'
        BY <1>1, <1>2, <2>3 DEF Knows, vars
      <3>5. Visits(t)'
        BY <1>1, <1>2, <1>3, <2>3, <3>1 DEF Visits, Taking, Giving, vars
      <3>6. Completes(t)'
        <4>1. CASE o = "late"
          <5>1. \A r \in Mine(t), u \in bseats[b] : u <= r => u \in Mine(t)
            <6> SUFFICES ASSUME NEW r \in Mine(t), NEW u \in bseats[b], u <= r
                         PROVE  u \in Mine(t)
              OBVIOUS
            <6>1. u \in tx[t].todo => r < u
              BY <1>1, <4>1 DEF Visits
            <6>2. u \in Seats /\ r \in Seats
              BY <1>1, <1>3 DEF TypeOK, Mine
            <6>3. u \in tx[t].todo \cup Mine(t)
              BY <1>1, <4>1 DEF Completes
            <6> QED BY <6>1, <6>2, <6>3, SeatsAreOrdered
          <5>2. s \in bseats[b] /\ s \notin Mine(t)
            BY <1>1, <1>2, <2>2, <4>1 DEF Visits
          <5> QED BY <1>2, <2>3, <3>1, <4>1, <5>1, <5>2 DEF Completes, Giving, SeatsFirst, vars
        <4>2. CASE o # "late"
          <5>1. o \in Giving => heldBy[s] # b
            BY <1>7 DEF MissSeat, Matches, Giving
          <5>2. o # "cancelSold"
            BY <1>7 DEF MissSeat, Matches
          <5> QED BY <1>1, <1>2, <1>3, <2>3, <3>1, <4>2, <5>1, <5>2
                  DEF Completes, Taking, Giving, SeatsFirst, vars
        <4> QED BY <4>1, <4>2
      <3> QED BY <3>2, <3>3, <3>4, <3>5, <3>6 DEF SessionOK
    <2>4. L \in SUBSET Rows /\ \A u \in Sessions \ {t} : L \cap tx[u].locked = {}
      BY <1>1, <1>3
    <2> HIDE DEF n, E, L
    <2> QED BY <1>2, <2>1, <2>2, <2>3, <2>4, StatementType
  <1> QED BY <1>6, <1>7

\* A commit does not disturb what another session knows: it writes only rows it has
\* locked, and the booking of a hold is nobody else's.
LEMMA CommitInv ==
    ASSUME LockInv, NEW t \in Sessions, Commit(t)
    PROVE  SessionInv'
  <1> DEFINE o == tx[t].op
             b == tx[t].bk
  <1>1. ASSUME NEW u \in Sessions \ {t}
        PROVE  SessionOK(u)'
    <2> DEFINE c == tx[u].bk
    <2>1. /\ Target(u) /\ Holding(u) /\ Visits(u) /\ Completes(u) /\ TypeOK
          /\ tx[t].locked \cap tx[u].locked = {} /\ tx \in [Sessions -> Transactions]
          /\ Target(t) /\ Holding(t)
      BY DEF LockInv, SessionInv, SessionOK, SeatInv, LocksAreExclusive, LockTypeOK, Transactions, Rows
    <2>2. /\ b \in Bookings /\ o \in Operations \ {"none", "missed"}
          /\ tx[t].op # "hold" => BookingRow(t) \in tx[t].locked
          /\ t \in Requests <=> o \in Requested
      BY CommitKnows
    <2>3. /\ o = "hold" => c # b
          /\ tx[u].op \in {"hold", "missed"} => c # b
      BY <2>1 DEF Target
    <2>4. c = b => BookingRow(u) \notin tx[u].locked
      BY <2>1, <2>2, <2>3 DEF BookingRow
    <2>5. tx'[u] = tx[u] /\ \A v \in Sessions : tx'[v] \in {tx[v], NoTx}
      BY <2>1, CommitEffect
    <2>6. u \in Requests => req'[u] = req[u]
      BY CommitEffect DEF Finish, LockInv, SeatInv, TypeOK
    <2>7. \A p \in Payments : pay[p] # "NONE" => pay'[p] # "NONE" /\ payFor'[p] = payFor[p]
      <3>1. CASE o = "pay"
        <4>1. PICK q \in Payments : /\ pay[q] = "NONE"
                                    /\ pay' = [pay EXCEPT ![q] = "CHARGED"]
                                    /\ payFor' = [payFor EXCEPT ![q] = b]
          BY <3>1 DEF Commit
        <4> QED BY <2>1, <4>1 DEF TypeOK
      <3>2. CASE o # "pay"
        <4>1. payFor' = payFor
          BY <3>2, CommitEffect
        <4>2. CASE o \in DOMAIN PayTo
          <5>1. pay' = [pay EXCEPT ![tx[t].pm] = PayTo[o]] /\ PayTo[o] # "NONE"
            BY <3>2, <4>2, CommitEffect, Written
          <5> QED BY <2>1, <4>1, <5>1 DEF TypeOK
        <4>3. CASE o \notin DOMAIN PayTo
          BY <3>2, <4>1, <4>3, CommitEffect
        <4> QED BY <4>2, <4>3
      <3> QED BY <3>1, <3>2
    <2>8. \A p \in Payments : <<"payment", p>> \in tx[u].locked => pay'[p] = pay[p]
      <3> SUFFICES ASSUME NEW p \in Payments, <<"payment", p>> \in tx[u].locked
                   PROVE  pay'[p] = pay[p]
        OBVIOUS
      <3>1. pay[p] = "PENDING" /\ <<"payment", p>> \notin tx[t].locked
        BY <2>1 DEF Holding
      <3>2. CASE o = "pay"
        <4>1. PICK q \in Payments : pay[q] = "NONE" /\ pay' = [pay EXCEPT ![q] = "CHARGED"]
          BY <3>2 DEF Commit
        <4> QED BY <2>1, <3>1, <4>1 DEF TypeOK
      <3>3. CASE o # "pay" /\ o \in DOMAIN PayTo
        <4>1. o \in Settling
          BY <3>3, Written, <2>2 DEF Operations, Delivered, Settling, Requested, Taking, PayTo
        <4>2. <<"payment", tx[t].pm>> \in tx[t].locked
          BY <2>1, <4>1 DEF Holding, PaymentRow
        <4>3. pay' = [pay EXCEPT ![tx[t].pm] = PayTo[o]]
          BY <3>3, CommitEffect
        <4> QED BY <2>1, <3>1, <4>2, <4>3 DEF TypeOK
      <3>4. CASE o # "pay" /\ o \notin DOMAIN PayTo
        BY <3>4, CommitEffect
      <3> QED BY <3>2, <3>3, <3>4
    <2>9. lapsed \subseteq lapsed'
      BY CommitEffect DEF Finish
    <2>10. /\ \A d \in Bookings : d # b => status'[d] = status[d]
           /\ \A d \in Bookings : status[d] # "NONE" => status'[d] # "NONE"
      <3>1. CASE o \in DOMAIN StatusTo
        <4>1. status' = [status EXCEPT ![b] = StatusTo[o]] /\ StatusTo[o] # "NONE"
          BY <3>1, CommitEffect, Written
        <4> QED BY <2>1, <4>1 DEF TypeOK
      <3>2. CASE o \notin DOMAIN StatusTo
        BY <3>2, CommitEffect
      <3> QED BY <3>1, <3>2
    <2>11. BookingRow(u) \in tx[u].locked \/ tx[u].op \in {"hold", "missed"} => status'[c] = status[c]
      <3>1. tx[u].op # "none" => c \in Bookings
        BY <2>1 DEF Target
      <3>2. BookingRow(u) \in tx[u].locked => tx[u].op # "none"
        BY <2>1 DEF Target, NoTx
      <3>3. CASE c = b
        BY <2>3, <2>4, <3>3
      <3>4. CASE c # b
        <4>1. c \in Bookings => status'[c] = status[c]
          BY <2>10, <3>4
        <4> QED BY <3>1, <3>2, <4>1
      <3> QED BY <3>3, <3>4
    <2>12. \A d \in Bookings : status[d] # "NONE" => status'[d] # "NONE" /\ bseats'[d] = bseats[d]
      <3>1. o = "hold" => status[b] = "NONE" /\ bseats' = [bseats EXCEPT ![b] = Mine(t)]
        BY <2>1 DEF Target, Commit
      <3>2. o # "hold" => bseats' = bseats
        BY CommitEffect
      <3>3. CASE o = "hold"
        BY <2>1, <2>10, <3>1, <3>3 DEF TypeOK
      <3>4. CASE o # "hold"
        BY <2>10, <3>2, <3>4
      <3> QED BY <3>3, <3>4
    <2>13. \A s \in Mine(u) : seat'[s] = seat[s] /\ heldBy'[s] = heldBy[s]
      <3>1. \A s \in Mine(u) : s \in Seats /\ s \notin Mine(t)
        BY <2>1 DEF Mine
      <3> QED BY <3>1, CommitEffect
    <2>14. tx[u].op \in {"hold", "missed"} => \A v \in Sessions : tx'[v].bk = c => v = u
      <3>1. tx[u].op \in {"hold", "missed"} => c # None /\ \A v \in Sessions : tx[v].bk = c => v = u
        BY <2>1, NamesAreDistinct DEF Target
      <3> QED BY <2>5, <3>1 DEF NoTx
    <2>15. ASSUME tx[u].op \in Giving, NEW s \in bseats[c], heldBy'[s] = c
           PROVE  \/ heldBy[s] = c /\ (seat[s] = "SOLD" => seat'[s] = "SOLD")
                  \/ tx[u].op \in SeatsFirst /\ seat'[s] = "SOLD"
      <3>1. s \in Seats /\ c \in Bookings
        BY <2>1, <2>15 DEF Target, Giving, TypeOK
      <3>2. CASE s \notin Mine(t)
        BY <2>15, <3>1, <3>2, CommitEffect
      <3>3. CASE s \in Mine(t)
        <4>1. SeatTo[o] # "FREE" /\ c = b /\ seat'[s] = SeatTo[o]
          BY <2>15, <3>1, <3>3, CommitEffect, NamesAreDistinct
        <4>2. o \in {"confirm", "late", "lost"}
          <5>1. o \in Taking \cup Giving \cup {"cancelSold"}
            BY <3>3, CommitKnows DEF Visits
          <5> QED BY <2>2, <2>3, <4>1, <5>1, Written DEF Taking, Giving
        <4>3. seat'[s] = "SOLD"
          BY <4>1, <4>2, Written
        <4>4. tx[u].op \in SeatsFirst
          BY <2>1, <2>4, <2>15, <4>1 DEF Giving, Holding, Settling, SeatsFirst
        <4> QED BY <4>3, <4>4
      <3> QED BY <3>2, <3>3
    <2>16. tx[u].op # "none" => c \in Bookings
      BY <2>1 DEF Target
    <2> QED
      BY <2>5, <2>6, <2>7, <2>8, <2>9, <2>11, <2>12, <2>13, <2>14, <2>15, <2>16, Undisturbed
  <1>2. tx' = [tx EXCEPT ![t] = NoTx] /\ entry' = entry
    BY CommitEffect
  <1> QED BY <1>1, <1>2, EndSessionInv

LEMMA RollBackInv ==
    ASSUME LockInv, NEW t \in Sessions, RollBack(t)
    PROVE  SessionInv'
  <1>1. /\ tx' = [tx EXCEPT ![t] = NoTx] /\ entry' = entry
        /\ UNCHANGED <<seat, heldBy, status, bseats, lapsed, pay, payFor>>
    BY DEF RollBack, seatVars, payVars
  <1>2. ASSUME NEW u \in Sessions \ {t}
        PROVE  SessionOK(u)'
    <2>1. Target(u) /\ tx \in [Sessions -> Transactions]
      BY DEF LockInv, SessionInv, SessionOK, LockTypeOK, Transactions, Rows
    <2>2. tx'[u] = tx[u] /\ \A v \in Sessions : tx'[v] \in {tx[v], NoTx}
      BY <1>1, <2>1
    <2>3. u \in Requests => req'[u] = req[u]
      BY DEF RollBack, LockInv, SeatInv, TypeOK
    <2>4. tx[u].op # "none" => tx[u].bk \in Bookings
      BY <2>1 DEF Target
    <2>5. tx[u].op \in {"hold", "missed"} => \A v \in Sessions : tx'[v].bk = tx[u].bk => v = u
      <3>1. tx[u].op \in {"hold", "missed"} =>
                /\ tx[u].bk # None
                /\ \A v \in Sessions : tx[v].bk = tx[u].bk => v = u
        BY <2>1, NamesAreDistinct DEF Target
      <3> QED BY <2>2, <3>1 DEF NoTx
    <2> QED BY <1>1, <2>2, <2>3, <2>4, <2>5, Undisturbed
  <1> QED BY <1>1, <1>2, EndSessionInv

\* RecordPayment changes a CHARGED payment, which nobody has locked.
LEMMA OtherInv ==
    ASSUME LockInv, UNCHANGED tx,
           \/ \E p \in Payments : RecordPayment(p)
           \/ \E b \in Bookings : Lapse(b)
           \/ UNCHANGED vars
    PROVE  SessionInv'
  <1>1. UNCHANGED <<seat, heldBy, status, bseats, entry, req, payFor>> /\ lapsed \subseteq lapsed'
    BY DEF RecordPayment, Lapse, vars, seatVars, payVars
  <1>2. /\ \A p \in Payments : pay[p] # "NONE" => pay'[p] # "NONE"
        /\ \A p \in Payments : pay[p] = "PENDING" => pay'[p] = pay[p]
    BY DEF RecordPayment, Lapse, vars, payVars, LockInv, SeatInv, TypeOK
  <1>3. ASSUME NEW u \in Sessions
        PROVE  SessionOK(u)'
    <2>1. Target(u) /\ Holding(u)
      BY DEF LockInv, SessionInv, SessionOK
    <2>2. tx[u].op # "none" => tx[u].bk \in Bookings
      BY <2>1 DEF Target
    <2>3. tx[u].op \in {"hold", "missed"} => \A v \in Sessions : tx'[v].bk = tx[u].bk => v = u
      BY <2>1 DEF Target
    <2>4. \A p \in Payments : <<"payment", p>> \in tx[u].locked => pay'[p] = pay[p]
      BY <1>2, <2>1 DEF Holding
    <2> QED BY <1>1, <1>2, <2>2, <2>3, <2>4, Undisturbed
  <1>4. NobodyWaits' /\ LockTypeOK' /\ LocksAreExclusive'
    BY <1>1 DEF LockInv, SessionInv, NobodyWaits, LockTypeOK, LocksAreExclusive
  <1> QED BY <1>3, <1>4 DEF SessionInv

LEMMA LockInitInv == LockInit => LockInv
  <1> SUFFICES ASSUME LockInit PROVE LockInv
    OBVIOUS
  <1>1. SeatInv
    <2>1. RowsExist /\ NoDoubleBooking
      BY DEF LockInit, Init, RowsExist, NoDoubleBooking
    <2>2. HeldHasLiveBooking
      BY DEF LockInit, Init, HeldHasLiveBooking, SeatRowsAgree, HeldSeatsAreListed, HeldSeatsAreLive
    <2> QED BY <2>1, <2>2, InitType DEF SeatInv, LockInit
  <1>2. \A t \in Sessions : tx[t] = NoTx
    BY DEF LockInit
  <1>3. LockTypeOK /\ LocksAreExclusive /\ NobodyWaits
    BY <1>2 DEF LockInit, Init, LockTypeOK, LocksAreExclusive, NobodyWaits, NoTx, Operations
  <1>4. \A t \in Sessions : SessionOK(t)
    BY <1>2 DEF NoTx, SessionOK, Target, Holding, Knows, Visits, Completes, Mine, Delivered,
                Settling, Requested, Taking, Giving, SeatsFirst
  <1> QED BY <1>1, <1>3, <1>4 DEF LockInv, SessionInv

LEMMA LockStepInv == LockInv /\ [LockNext]_lockVars => LockInv'
  <1> SUFFICES ASSUME LockInv, [LockNext]_lockVars PROVE LockInv'
    OBVIOUS
  <1>1. SeatInv'
    BY StepRefines, NextType, NextRows, NextSafe DEF LockInv, SeatInv
  <1>2. ASSUME NEW t \in Sessions, SessionStep(t)
        PROVE  SessionInv'
    BY <1>2, BeginInv, WebhookStatementInv, BookingStatementInv, SeatStatementInv, CommitInv,
       RollBackInv DEF SessionStep
  <1>3. ASSUME NEW r \in Requests, NEW b \in Bookings, BeginRequest(r, b)
        PROVE  SessionInv'
    BY <1>3, BeginInv, RequestsHaveSessions
  <1>4. ASSUME \/ \E p \in Payments : RecordPayment(p) /\ UNCHANGED tx
               \/ \E b \in Bookings : Lapse(b) /\ UNCHANGED tx
               \/ UNCHANGED lockVars
        PROVE  SessionInv'
    <2>1. /\ UNCHANGED tx
          /\ \/ \E p \in Payments : RecordPayment(p)
             \/ \E b \in Bookings : Lapse(b)
             \/ UNCHANGED vars
      BY <1>4 DEF lockVars
    <2> QED BY <2>1, OtherInv
  <1>5. SessionInv'
    <2>1. \/ \E t \in Sessions : SessionStep(t)
          \/ \E r \in Requests, b \in Bookings : BeginRequest(r, b)
          \/ \E p \in Payments : RecordPayment(p) /\ UNCHANGED tx
          \/ \E b \in Bookings : Lapse(b) /\ UNCHANGED tx
          \/ UNCHANGED lockVars
      BY DEF LockNext
    <2> QED BY <1>2, <1>3, <1>4, <2>1
  <1> QED BY <1>1, <1>5 DEF LockInv

LEMMA LockInvInductive == LockSpec => []LockInv
  BY LockInitInv, LockStepInv, PTL DEF LockSpec

\* No row of show_seats, bookings or payments is ever locked by two sessions at once.
THEOREM LocksAreExclusiveCorrect == LockSpec => []LocksAreExclusive
  <1>1. LockInv => LocksAreExclusive
    BY DEF LockInv, SessionInv
  <1> QED BY <1>1, LockInvInductive, PTL

\* Holds, webhooks, sweeps and late payments never deadlock among themselves: a
\* cycle of waiting sessions always has a cancel or a pay-time expiry in it.
THEOREM DeadlockNeedsSeatsFirstCorrect == LockSpec => []DeadlockNeedsSeatsFirst
  BY LockInvInductive, NoOtherDeadlock, PTL

\* The statements under their row locks implement the one-step transactions of
\* SeatBooking, so that its theorems hold of them.
THEOREM StatementsImplementTransactions == LockSpec => ImplementsSeatBooking
  <1>1. LockInit => Init
    BY DEF LockInit
  <1> QED BY <1>1, LockInvInductive, StepRefines, PTL DEF LockSpec, Spec, ImplementsSeatBooking

\* What the transactions promise, the interleaved statements keep: no seat is
\* promised to two bookings.
THEOREM StatementsNeverDoubleBook == LockSpec => []NoDoubleBooking
  BY StatementsImplementTransactions, NoDoubleBookingCorrect DEF ImplementsSeatBooking

\* What the transactions promise of the money: statement by statement too, a ticket is
\* backed by a payment that was kept, no booking keeps two, and a payment that is kept
\* has its ticket unless a stale request has overwritten the booking.
THEOREM StatementsKeepMoney == LockSpec => [](ConfirmedIsPaid /\ PaidOnce /\ MoneyHasTicket)
  BY StatementsImplementTransactions, ConfirmedIsPaidCorrect, PaidOnceCorrect,
     MoneyHasTicketCorrect, PTL DEF ImplementsSeatBooking

\* The statements keep the ledger of SeatLedger.
THEOREM StatementsKeepLedger == LockSpec => ImplementsLedger
  BY StatementsImplementTransactions, LedgerRefinement DEF ImplementsSeatBooking

-----------------------------------------------------------------------------
(***************************************************************************)
(* PaymentDelivery                                                         *)
(***************************************************************************)

\* Every step is one of SeatBooking or changes only the provider's side.
LEMMA DeliveryStepRefines ==
    [DeliveryNext]_deliveryVars => [Next]_vars
  <1> SUFFICES ASSUME [DeliveryNext]_deliveryVars PROVE [Next]_vars
    OBVIOUS
  <1>1. ASSUME NEW r \in Requests, Charge(r) PROVE Next
    BY <1>1 DEF Charge, Next, RequestStep
  <1>2. ASSUME NEW p \in Payments, Record(p) PROVE Next
    BY <1>2 DEF Record, Next, PaymentStep
  <1>3. ASSUME NEW p \in Payments, Post(p) PROVE Next \/ UNCHANGED vars
    BY <1>3 DEF Post, Taken, Next, PaymentStep
  <1>4. ASSUME ApiDies \/ \E p \in Payments : RecordFails(p) \/ GiveUp(p)
        PROVE  UNCHANGED vars
    BY <1>4 DEF ApiDies, RecordFails, GiveUp
  <1>5. CASE Elsewhere
    BY <1>5 DEF Elsewhere
  <1>6. CASE UNCHANGED deliveryVars
    BY <1>6 DEF deliveryVars
  <1> QED BY <1>1, <1>2, <1>3, <1>4, <1>5, <1>6 DEF DeliveryNext

\* A webhook comes only from the task of its charge, and only from there comes what
\* a payment is settled as; a charge whose task has ended unheard was missed.
Verdicts ==
    \A p \in Payments :
        /\ pay[p] = "NONE" => verdict[p] = "NONE"
        /\ pay[p] \in {"SUCCEEDED", "REFUNDED"} => verdict[p] = "SUCCEEDED"
        /\ pay[p] = "FAILED" => verdict[p] = "FAILED"
        /\ pay[p] \in {"CHARGED", "PENDING"} /\ due[p] = 0 => p \in missed
TaskInv ==
    /\ TypeOK
    /\ due \in [Payments -> 0 .. 2]
    /\ verdict \in [Payments -> {"NONE", "SUCCEEDED", "FAILED"}]
    /\ Verdicts

LEMMA TaskInit == DeliveryInit => TaskInv
  <1>1. DeliveryInit => TypeOK
    BY InitType DEF DeliveryInit
  <1> QED BY <1>1 DEF DeliveryInit, Init, TaskInv, Verdicts

LEMMA ChargeInv ==
  ASSUME TaskInv, NEW r \in Requests, Charge(r)
  PROVE  Verdicts' /\ due' \in [Payments -> 0 .. 2]
         /\ verdict' \in [Payments -> {"NONE", "SUCCEEDED", "FAILED"}]
  <1>1. PICK q \in Payments : pay[q] = "NONE" /\ pay' = [pay EXCEPT ![q] = "CHARGED"]
    BY DEF Charge, PayCommit
  <1>2. PICK p \in Payments, o \in Outcomes :
            /\ pay'[p] # pay[p]
            /\ verdict' = [verdict EXCEPT ![p] = o[1]]
            /\ due' = [due EXCEPT ![p] = o[2]]
            /\ missed' = IF o[2] = 0 THEN missed \cup {p} ELSE missed
    BY DEF Charge
  <1>3. p = q
    BY <1>1, <1>2 DEF TaskInv, TypeOK
  <1>4. o[1] \in {"NONE", "SUCCEEDED", "FAILED"} /\ o[2] \in 0 .. 2
    BY DEF Outcomes
  <1> QED BY <1>1, <1>2, <1>3, <1>4 DEF TaskInv, TypeOK, Verdicts

LEMMA PostInv ==
  ASSUME TaskInv, NEW p \in Payments, Post(p)
  PROVE  Verdicts' /\ due' \in [Payments -> 0 .. 2]
         /\ verdict' \in [Payments -> {"NONE", "SUCCEEDED", "FAILED"}]
  <1>1. /\ due' = [due EXCEPT ![p] = @ - 1] /\ due[p] > 0
        /\ verdict' = verdict
    BY DEF Post
  <1>2. CASE Taken(p) /\ missed' = missed
    <2>1. \/ verdict[p] = "FAILED" /\ pay' = [pay EXCEPT ![p] = "FAILED"]
          \/ verdict[p] = "SUCCEEDED" /\ pay' = [pay EXCEPT ![p] = "SUCCEEDED"]
          \/ verdict[p] = "SUCCEEDED" /\ pay' = [pay EXCEPT ![p] = "REFUNDED"]
      BY <1>2 DEF Taken, WebhookFailed, WebhookConfirm, WebhookLate, WebhookRefund, Refund
    <2> QED BY <1>1, <1>2, <2>1 DEF TaskInv, TypeOK, Verdicts
  <1>3. CASE pay[p] \in Settled /\ UNCHANGED <<vars, missed>>
    BY <1>1, <1>3 DEF TaskInv, TypeOK, Verdicts, vars, payVars, Settled
  <1>4. CASE pay[p] \notin Settled /\ missed' = missed \cup {p} /\ UNCHANGED vars
    BY <1>1, <1>4 DEF TaskInv, TypeOK, Verdicts, vars, payVars, Settled
  <1> QED BY <1>2, <1>3, <1>4 DEF Post

LEMMA TaskStep == TaskInv /\ [DeliveryNext]_deliveryVars => TaskInv'
  <1> SUFFICES ASSUME TaskInv, [DeliveryNext]_deliveryVars PROVE TaskInv'
    OBVIOUS
  <1>1. TypeOK'
    BY DeliveryStepRefines, NextType DEF TaskInv
  <1> DEFINE Rest == /\ Verdicts /\ due \in [Payments -> 0 .. 2]
                     /\ verdict \in [Payments -> {"NONE", "SUCCEEDED", "FAILED"}]
  <1>2. ASSUME NEW r \in Requests, Charge(r) PROVE Rest'
    BY <1>2, ChargeInv
  <1>3. ASSUME NEW p \in Payments, Post(p) PROVE Rest'
    BY <1>3, PostInv
  <1>4. ASSUME NEW p \in Payments, Record(p) PROVE Rest'
    <2>1. /\ pay[p] = "CHARGED" /\ pay' = [pay EXCEPT ![p] = "PENDING"]
          /\ UNCHANGED <<due, verdict, missed>>
      BY <1>4 DEF Record, RecordPayment
    <2> QED BY <2>1 DEF TaskInv, TypeOK, Verdicts
  <1>5. ASSUME NEW p \in Payments, GiveUp(p) PROVE Rest'
    BY <1>5 DEF GiveUp, TaskInv, TypeOK, Verdicts, vars, payVars
  <1>6. ASSUME ApiDies PROVE Rest'
    BY <1>6 DEF ApiDies, TaskInv, TypeOK, Verdicts, vars, payVars
  <1>7. ASSUME \/ Elsewhere /\ UNCHANGED taskVars
               \/ \E p \in Payments : RecordFails(p)
               \/ UNCHANGED deliveryVars
        PROVE  Rest'
    <2>1. UNCHANGED <<pay, due, verdict, missed>>
      BY <1>7 DEF Elsewhere, RecordFails, deliveryVars, taskVars, vars, payVars
    <2> QED BY <2>1 DEF TaskInv, Verdicts
  <1>8. Rest'
    BY <1>2, <1>3, <1>4, <1>5, <1>6, <1>7 DEF DeliveryNext
  <1> QED BY <1>1, <1>8 DEF TaskInv

LEMMA TaskInvInductive == DeliverySpec => []TaskInv
  BY TaskInit, TaskStep, PTL DEF DeliverySpec

\* The provider's tasks and the late payments row only restrict SeatBooking, so that
\* its theorems hold with them.
THEOREM DeliveryImplementsTransactions == DeliverySpec => Spec
  <1>1. DeliveryInit => Init
    BY DEF DeliveryInit
  <1> QED BY <1>1, DeliveryStepRefines, PTL DEF DeliverySpec, Spec

\* Nobody has a ticket for a charge that failed, timed out or was given back.
THEOREM TicketIsChargedCorrect == DeliverySpec => []TicketIsCharged
  <1>1. TaskInv /\ ConfirmedIsPaid => TicketIsCharged
    BY DEF TaskInv, Verdicts, ConfirmedIsPaid, TicketIsCharged, Charged
  <1> QED BY <1>1, TaskInvInductive, DeliveryImplementsTransactions, ConfirmedIsPaidCorrect, PTL

\* Once the provider is done and missed no delivery, a customer has paid once for a
\* ticket and for nothing else.
THEOREM CustomerIsSquareCorrect == DeliverySpec => []CustomerIsSquare
  <1>1. ASSUME TaskInv, MoneyHasTicket, PaidOnce PROVE CustomerIsSquare
    <2> SUFFICES ASSUME NEW b \in Bookings \ overwritten, Done(b)
                 PROVE  /\ \A p, q \in Charged(b) : p = q
                        /\ Charged(b) # {} => status[b] \in {"CONFIRMED", "CANCELLED"}
      BY DEF CustomerIsSquare
    <2>1. \A p \in Charged(b) : p \in Payments /\ payFor[p] = b /\ pay[p] = "SUCCEEDED"
      <3> SUFFICES ASSUME NEW p \in Charged(b)
                   PROVE  p \in Payments /\ payFor[p] = b /\ pay[p] = "SUCCEEDED"
        OBVIOUS
      <3>1. /\ p \in Payments /\ payFor[p] = b
            /\ verdict[p] = "SUCCEEDED" /\ pay[p] # "REFUNDED"
        BY DEF Charged
      <3>2. due[p] = 0 /\ p \notin missed
        BY <3>1 DEF Done
      <3> QED BY <1>1, <3>1, <3>2 DEF TaskInv, TypeOK, Verdicts, PaymentStatus, Settled
    <2>2. \A p, q \in Charged(b) : p = q
      BY <1>1, <2>1 DEF PaidOnce
    <2>3. Charged(b) # {} => status[b] \in {"CONFIRMED", "CANCELLED"}
      BY <1>1, <2>1 DEF MoneyHasTicket
    <2> QED BY <2>2, <2>3
  <1> QED BY <1>1, TaskInvInductive, DeliveryImplementsTransactions, MoneyHasTicketCorrect,
             PaidOnceCorrect, PTL

===============================================================================
