\* A page and a reader, a run that completes, two faults.
SPECIFICATION FairSpec
CONSTANTS
    Browsers = {b1}
    Readers = {c1}
    NoWriter = NoWriter
    Writers <- MCWriters
    Script <- Completes
    MaxFaults = 2
INVARIANTS
    TypeOK
    GotIsPrefix
    NoSequenceClash
PROPERTIES
    FollowersLearnTheEnd
CHECK_DEADLOCK FALSE
