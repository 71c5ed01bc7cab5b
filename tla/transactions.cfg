SPECIFICATION FairSpec
CONSTANTS
    Evaluations = {e1}
    Users = {u1, u2}
    Slots = {w1, w2}
    Report = report
    Null = null
    MaxTime = 1
    MaxLostIds = 1
INVARIANTS
    TypeOK
    HistoryListsInOrder
PROPERTIES
    ImplementsLifecycle
    TransactionsEnd
CHECK_DEADLOCK FALSE
