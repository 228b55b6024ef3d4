\* Three requests with one key, one with another key on the same lock, one without.
SPECIFICATION FairSpec
CONSTANTS
    q1 = q1
    q2 = q2
    q3 = q3
    q4 = q4
    q5 = q5
    k1 = k1
    k2 = k2
    NoKey = NoKey
    Nobody = Nobody
    NoRun = NoRun
    Requests <- MCRequests
    Keys <- MCKeys
    KeyOf <- MCKeyOf
    HashOf <- MCHashOf
CHECK_DEADLOCK FALSE
INVARIANTS
    TypeOK
    NoDuplicateKey
PROPERTIES
    ImplementsPost
    RequestsEnd
