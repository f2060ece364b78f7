CONSTANTS
    Requests = {r1, r2}
    NoTask = NoTask
    RotateFrom = 1
    RotateBy = 2
    CredTTL = 3
    MaxTries = 2
    Ops = {"readyz"}
SYMMETRY Symmetry
SPECIFICATION Spec
INVARIANTS ReadinessAlwaysReports
