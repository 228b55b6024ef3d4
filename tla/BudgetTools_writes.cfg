SPECIFICATION Spec
CONSTANTS
    r1 = r1
    r2 = r2
    c1 = c1
    c2 = c2
    Runs = {r1, r2}
    Campaigns = {c1, c2}
    Nowhere = Nowhere
    NoIntent = NoIntent
    Missing = Missing
    Malformed = Malformed
    Intents <- AllIntents
    Prompts <- TwoPrompts
    Dialogues <- AllDialogues
    Opening = 1000
    Attempts = 2
    MaxRounds = 2
INVARIANTS
    TypeOK
    OneWritePerRun
    WritesAuthorized
    LedgerExplainsBudget
    ToldIsWritten
PROPERTIES
    CommitsBehindFence
SYMMETRY Symmetry
