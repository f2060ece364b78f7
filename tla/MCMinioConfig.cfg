CONSTANTS
    MaxRetries = 15
    BackoffLimit = 2
    MaxDowns = 2
SPECIFICATION FairSpec
INVARIANTS TypeOK CompleteOpens OnlyLapsesFail
PROPERTIES JobEnds
CHECK_DEADLOCK FALSE
