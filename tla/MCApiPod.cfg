CONSTANTS
    StartPeriod = 1
    StartThreshold = 30
    LivePeriod = 2
    LiveThreshold = 3
    ReadyPeriod = 3
    ReadyThreshold = 5
    Services = {"argo", "minio"}
    Traffic = {"argo", "minio"}
SPECIFICATION FairSpec
INVARIANTS TypeOK HoldIsNoticed
PROPERTIES BecomesReady OnlyWaitsKill
