SPECIFICATION Spec
CONSTANTS
    Runs = {r1}
    Workers = {w1, w2}
    NoWorker = NoWorker
    NoJob = NoJob
    MaxAttempts = 2
    LeaseTime = 1
    Grace = 0
    RenewEvery = 0
    TxDelay = 2
    MaxSteps = 0
    MaxExpiries = 1
SYMMETRY Symmetry
INVARIANTS
    TypeOK
    GenerationsInOrder
    StartedOncePerGeneration
    OneOutcome
    AttemptsBounded
    QueuedRunIsCarried
PROPERTIES
    LeaseRespected
