SPECIFICATION FairSpec
CONSTANTS
    Runs = {r1}
    Workers = {w1, w2}
    NoWorker = NoWorker
    NoJob = NoJob
    MaxAttempts = 2
    LeaseTime = 2
    Grace = 1
    RenewEvery = 1
    TxDelay = 0
    MaxSteps = 1
    MaxExpiries = 0
PROPERTIES
    ImplementsContract
