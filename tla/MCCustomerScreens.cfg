SPECIFICATION ScreensSpec
CONSTANTS
    User = {u1, u2}
    Visits <- MCVisits
    Nil = Nil
    MaxCalls = 2
SYMMETRY Customers
INVARIANTS
    FreshAtRest
    ScreensSound
CHECK_DEADLOCK FALSE
