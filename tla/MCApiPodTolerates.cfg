CONSTANTS
    StartPeriod = 1
    StartThreshold = 30
    LivePeriod = 2
    LiveThreshold = 3
    ReadyPeriod = 3
    ReadyThreshold = 5
    Services = {"minio"}
    Traffic = {"minio"}
SPECIFICATION Spec
PROPERTIES OutageIsTolerated
