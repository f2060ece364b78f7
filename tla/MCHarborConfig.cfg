CONSTANTS
    Remotes = 4
    BackoffLimit = 2
SPECIFICATION FairSpec
INVARIANTS TypeOK ProxiesOwnRemote MissingWasRefused
PROPERTIES JobEnds
CHECK_DEADLOCK FALSE
