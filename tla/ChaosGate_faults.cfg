SPECIFICATION Spec
CONSTANTS
    Trials = 1
    Candidates = 2
    Outage = 1
    Batch = 1
    MaxAttempts = 2
    MaxFaults = 1
INVARIANTS
    TypeOK
    PassIsEarned
    DispatcherTrialFair
    NormalUntouched
PROPERTY ExperimentsIsolated
CHECK_DEADLOCK FALSE
