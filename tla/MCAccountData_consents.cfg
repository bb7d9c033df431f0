SPECIFICATION Spec
CONSTANTS
    Process = {p1, p2}
    Instance = {i1, i2}
    Absent = Absent
    MaxRequests = 2
    MaxTries = 0
    MaxAdds = 0
SYMMETRY Symmetry
INVARIANTS ConsentExplained
CHECK_DEADLOCK FALSE
