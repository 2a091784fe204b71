SPECIFICATION Spec
CONSTANTS
    w1 = w1
    w2 = w2
    Seats = {1}
    Holds = {h1}
    Waiters = {}
    Wants <- NoWants
    Payments = {p1, p2}
    Requests = {r1, r2}
    None = None
CHECK_DEADLOCK FALSE
INVARIANT OneChargeIsKept
