SPECIFICATION Spec
CONSTANTS
    Kinds = {"normal"}
    Turns <- MCTurns
    Faults = {"MODEL_TIMEOUT"}
    Retries = 1
    MaxRounds = 2
    MaxAttempts = 2
CHECK_DEADLOCK FALSE
INVARIANT
    EnvironmentNeverNegative
