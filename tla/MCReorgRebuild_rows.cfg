CONSTANTS
    t1 = t1
    t2 = t2
    a1 = a1
    a2 = a2
    k1 = k1
    v1 = v1
    Tokens = {t1, t2}
    Owners = {a1}
    Keys = {k1}
    Values = {v1}
    Resolvers = {}
    SameReverseAgain = FALSE
    MaxBlocks = 6
CHECK_DEADLOCK FALSE
SPECIFICATION FairSpec
INVARIANTS RowsReverted ReverseExplained SharedAddressExplained
PROPERTY RebuildEnds
