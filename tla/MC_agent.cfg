SPECIFICATION FairSpec
CONSTANTS
    t1 = t1
    t2 = t2
    t3 = t3
    Turns = {t1, t2, t3}
    User <- Users
    Rounds = 2
    MaxCalls <- CallsOfATurn
    None = None
    MaxHistory = 2
CHECK_DEADLOCK FALSE
INVARIANTS AnsweredIsAudited OlderEffectsAreAudited ConversationIsWhole LongHistoryIsCutAtTurn
PROPERTIES EveryTurnEnds
