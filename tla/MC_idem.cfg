SPECIFICATION FairSpec
CONSTANTS
    c1 = c1
    c2 = c2
    c3 = c3
    c4 = c4
    Callers = {c1, c2, c3, c4}
    Payload <- OneReuse
    MaxPolls = 2
    MayCrash = TRUE
    Nobody = Nobody
CHECK_DEADLOCK FALSE
INVARIANTS OneRunner StuckKeyHasFailure
PROPERTIES ImplementsOnceOnly CallsEnd
