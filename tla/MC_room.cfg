SPECIFICATION FairSpec
CONSTANTS
    c1 = c1
    c2 = c2
    c3 = c3
    c4 = c4
    Calls = {c1, c2, c3, c4}
    Hot = {c1, c2, c3}
    UserOf <- Users
    Workers = {w1, w2}
    Batch = 1
CHECK_DEADLOCK FALSE
INVARIANTS AdmittedOnce AdmittedInOrder
PROPERTIES EveryoneIsAdmitted
