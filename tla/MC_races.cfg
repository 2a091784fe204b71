SPECIFICATION Spec
CONSTANTS
    w1 = w1
    w2 = w2
    Seats = {1, 2}
    Holds = {h1, h2}
    Waiters = {}
    Wants <- NoWants
    Payments = {p1, p2}
    Requests = {r1, r2}
    None = None
SYMMETRY RaceSymmetry
CHECK_DEADLOCK FALSE
INVARIANTS TypeOK HeldHasLiveBooking NoDoubleBooking ConfirmedIsPaid MoneyHasTicket PaidOnce SoldIsExplained
PROPERTIES StatusFollowsCode
