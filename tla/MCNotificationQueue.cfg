SPECIFICATION FairSpec
CONSTANTS
    Worker = {w1, w2}
    MaxJobs = 2
    MaxAttempts = 2
    LeaseTicks = 1
    MaxBackoff = 1
    MaxFaults = 1
    Environments <- MCEnvironments
    NoJob = NoJob
INVARIANTS
    QueueSound
PROPERTIES
    JobsSettle
CHECK_DEADLOCK FALSE
