SPECIFICATION Spec
CONSTANTS
    Process = {p1, p2}
    Key = {k1, k2}
    Device = {d1, d2}
    None = None
    MaxCodes = 2
    MaxAttempts = 2
    MaxFaults = 1
SYMMETRY Symmetric
INVARIANTS
    CodesSound
    SameAnswer
    WaitsEnd
PROPERTIES
    VerificationSteps
CHECK_DEADLOCK FALSE
