SPECIFICATION FairSpec
CONSTANTS
    NoCase = NoCase
    Case <- MCCase
    Schedule <- MCSchedule
    Retries = 3
    MaxRounds = 2
    MaxAttempts = 2
    UpstreamFaults <- NoUpstreamFaults
    MaxExpiries = 2
    MaxCrashes = 1
CHECK_DEADLOCK FALSE
INVARIANTS
    TypeOK
    LiveRunOwnsWindow
    AcceptedMeansHeard
    NoFalseAlarm
PROPERTIES
    CohortEnds
