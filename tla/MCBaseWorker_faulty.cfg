CONSTANTS
    t1 = t1
    t2 = t2
    Tokens = {t1}
    StartBlock = 1
    FinalityDepth = 2
    MaxHeight = 6
    MaxForks = 3
    Confirmations = 2
    FetchLimit = 2
    MaxReorgSize = 3
    HandleReorgs = TRUE
    ShortIds = {t1}
    ProcessingFails = TRUE
    ReorgDuringRun = TRUE
    ResyncAllowed = TRUE
    MaxFaults = 1
SPECIFICATION Spec
INVARIANTS TypeOK EventsBelowStatus NeverDuplicate NothingOrphaned
