\* One reader is enough: its two SELECTs surround the commit of the outcome.
SPECIFICATION Spec
CONSTANTS
    Browsers = {}
    Readers = {c1}
    NoWriter = NoWriter
    Writers <- MCWriters
    Script <- Completes
    MaxFaults = 0
INVARIANT
    ClosedWithOutcome
CHECK_DEADLOCK FALSE
