SPECIFICATION SignInSpec
CONSTANTS
    Phone = {p1, p2}
    Unset = Unset
    MaxAttempts = 3
    MaxKeys = 4
    MaxRestarts = 1
    Slot = {s1, s2}
SYMMETRY Interchangeable
INVARIANTS
    AttemptsSound
    OwnCodeNotRefused
PROPERTIES
    OneInstallationId
CHECK_DEADLOCK FALSE
