SPECIFICATION FairSpec
CONSTANTS
    Request = {q1, q2}
    None = None
    MaxFamily = 2
    MaxGen = 2
    MaxTrouble = 1
INVARIANTS
    SessionSound
    StoreMatchesScreen
    NoAccidentalReuse
PROPERTIES
    LeavingEnds
CHECK_DEADLOCK FALSE
