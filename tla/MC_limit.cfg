SPECIFICATION Spec
CONSTANTS
    Capacity = 2
    Unit = 2
    Rate = 1
    Lag = 2
    TTL = 6
    Pause = 2
    MaxTime = 9
    MaxBack = 3
    MaxFlushes = 1
CHECK_DEADLOCK FALSE
INVARIANTS AllowedIsBounded PauseIsEnough
