CONSTANTS
    Requests = {r1, r2}
    NoTask = NoTask
    RotateFrom = 1
    RotateBy = 1
    CredTTL = 2
    MaxTries = 1
    Ops = {"readyz"}
SPECIFICATION FairSpec
PROPERTIES EveryRequestEnds ClientComesBack
