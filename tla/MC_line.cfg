SPECIFICATION Spec
CONSTANTS
    Entries = {e1, e2, e3, e4}
    Releases = {t1, t2}
    MaxSeats = 2
SYMMETRY Symmetry
CHECK_DEADLOCK FALSE
INVARIANTS ClaimedOnce FifoWhileNobodyLeaves
