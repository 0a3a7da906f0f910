CONSTANTS
    t1 = t1
    t2 = t2
    Tokens = {t1}
    StartBlock = 1
    FinalityDepth = 9
    MaxHeight = 5
    MaxForks = 3
    Confirmations = 0
    FetchLimit = 2
    MaxReorgSize = 3
    HandleReorgs = TRUE
    ShortIds = {t1}
    ProcessingFails = FALSE
    ReorgDuringRun = FALSE
    ResyncAllowed = FALSE
    MaxFaults = 1
SPECIFICATION Spec
INVARIANT AllDomainsReverted

