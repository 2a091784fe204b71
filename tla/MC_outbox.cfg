SPECIFICATION FairSpec
CONSTANTS
    Txs = {t1, t2, t3}
    Ops = {"hold", "release", "reoffer"}
    Limit = 2
    None = None
CHECK_DEADLOCK FALSE
INVARIANTS NoEventIsLost FreeSeatIsShown
PROPERTIES DeliversAtLeastOnce
