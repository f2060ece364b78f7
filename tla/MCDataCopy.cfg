CONSTANTS
    f1 = f1
    f2 = f2
    w1 = w1
    w2 = w2
    Workflows = {w1, w2}
    Files = {f1, f2}
    Lists <- OneEach
    FirstVersion <- Once
    Deleted = {f1}
    MaxVersion <- Uploads
SPECIFICATION FairSpec
INVARIANTS TypeOK HalfFileHasCause
PROPERTIES ImplementsTransfer EveryTransferEnds NeverOlderInTurn
CHECK_DEADLOCK FALSE
