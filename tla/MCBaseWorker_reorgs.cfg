CONSTANTS
    t1 = t1
    t2 = t2
    Tokens = {t1}
    StartBlock = 1
    FinalityDepth = 9
    MaxHeight = 6
    MaxForks = 2
    Confirmations = 0
    FetchLimit = 2
    MaxReorgSize = 4
    HandleReorgs = TRUE
    ShortIds = {}
    ProcessingFails = FALSE
    ReorgDuringRun = FALSE
    ResyncAllowed = FALSE
    MaxFaults = 1
SPECIFICATION FairSpec
INVARIANTS MirrorExact DomainsJustified
PROPERTIES CanonicalEventsKept PublishesSnapshots EventuallyMirrored
