SPECIFICATION Spec
CONSTANTS
    Process = {p1, p2}
    Key = {k1, k2, k3}
    None = None
    MaxCodes = 4
    HourlyLimit = 2
SYMMETRY Symmetric
INVARIANTS
    JobsSound
    OkMeansQueued
    LimitsBounded
CHECK_DEADLOCK FALSE
