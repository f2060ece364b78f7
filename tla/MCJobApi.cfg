CONSTANTS
    Requests = {r1, r2}
    NoTask = NoTask
    RotateFrom = 1
    RotateBy = 2
    CredTTL = 3
    MaxTries = 2
    Ops = {"readyz", "upload", "get", "bucket", "delete", "argo"}
SYMMETRY Symmetry
SPECIFICATION Spec
INVARIANTS TypeOK LiveWhileTokenCurrent StaleCallNeedsRotation SessionInv StaticKeysAreKept LoopIsNeverStuck
