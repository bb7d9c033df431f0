SPECIFICATION Spec
CONSTANTS
    Process = {p1, p2}
    Token = {t1, t2, t3}
    Device = {d1, d2}
    None = None
    MaxFamilies = 2
    TokenTtl = 1
    FamilyMaxAge = 1
    MaxClock = 1
SYMMETRY Symmetric
INVARIANTS
    FamiliesSound
    OneLivePerFamily
    EndedStaysEnded
    NoWaitCycle
PROPERTIES
    LedgerSpec
    FamilySteps
