SPECIFICATION FairSpec
CONSTANTS
    Runs = {r1}
    Workers = {w1}
    NoWorker = NoWorker
    NoJob = NoJob
    MaxAttempts = 1
    LeaseTime = 2
    Grace = 1
    RenewEvery = 1
    TxDelay = 0
    MaxSteps = 0
    MaxExpiries = 0
PROPERTIES
    RunSettles
