SPECIFICATION LockSpec
CONSTANTS
    Seats = {1, 2}
    Holds = {h1, h2}
    Waiters = {}
    Wants <- NoWants
    Payments = {p1}
    Requests = {r1}
    Sessions = {r1, s1, s2}
    None = None
CHECK_DEADLOCK FALSE
INVARIANT DeadlockNeedsSeatsFirst
PROPERTY ImplementsSeatBooking
