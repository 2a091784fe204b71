SPECIFICATION DeliverySpec
CONSTANTS
    Seats = {1}
    Holds = {h1, h2}
    Waiters = {}
    Wants <- NoWants
    Payments = {p1, p2}
    Requests = {r1, r2}
    None = None
SYMMETRY Symmetry
CHECK_DEADLOCK FALSE
INVARIANTS TicketIsCharged CustomerIsSquare
