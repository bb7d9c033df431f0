SPECIFICATION Spec
CONSTANTS
    Process = {p1, p2}
    Instance = {i1, i2}
    Absent = Absent
    MaxRequests = 3
    MaxTries = 1
    MaxAdds = 1
SYMMETRY Symmetry
INVARIANTS
    ConsentsSound
    AccountGoneWhole
    BlocksEnd
PROPERTIES
    DeletionSteps
CHECK_DEADLOCK FALSE
