SPECIFICATION FairSpec
CONSTANTS
    w1 = w1
    w2 = w2
    Seats = {1, 2}
    Holds = {h1}
    Waiters = {w1, w2}
    Wants <- OneSectionEach
    Payments = {p1}
    Requests = {r1}
    None = None
CHECK_DEADLOCK FALSE
INVARIANTS OfferedOnce ClaimedIsPaid BuyerIsClaimed
PROPERTIES HoldsEnd OffersEnd ImplementsLedger
