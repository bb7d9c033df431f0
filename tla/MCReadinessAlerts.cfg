SPECIFICATION FairSpec
CONSTANTS
    Process = {p1, p2}
    Goal = {g1}
    Score = {80, 60, 44}
    None = None
    RiskDrop = 15
    Cooldown = 2
    Week = 2
    DueAt = 1
    Zone = {1}
    Choices <- MCChoices
    MaxTime = 2
    MaxTrouble = 1
    MaxEvents = 3
INVARIANTS
    AlertsConsistent
    CooldownKept
    DuplicatesAreRetries
PROPERTIES
    AlertsReported
CHECK_DEADLOCK FALSE
