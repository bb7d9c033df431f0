SPECIFICATION ImportSpec
CONSTANTS
    None = None
    MaxFileRows = 3
    MaxNote = 4
    Banks <- MCBanks
    Goals <- MCGoals
    MaxPicks = 2
    MaxConfirms = 2
    MaxText = 4
INVARIANTS ImportsSound CanonicalTextKeepsRecords
PROPERTIES BandFollowsImports
CHECK_DEADLOCK FALSE
