SPECIFICATION SpecForms
CONSTANTS
    Process = {p1, p2}
    User = {ann, bob}
    Me = ann
    Fingerprint = {f1, f2}
    Absent = Absent
    Bad = Bad
    NoGoal = NoGoal
    Same = Same
    Unloaded = Unloaded
    Visits <- MCVisits
    Blank = Blank
    Invalid = Invalid
    MaxSafe = 1100
    MaxRequests = 3
    MaxRows = 7
SYMMETRY Symmetry
INVARIANTS
    RecordsSound
    FieldsSound
PROPERTIES
    GoalSteps
    PhoneSteps
CHECK_DEADLOCK FALSE
