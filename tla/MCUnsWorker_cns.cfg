CONSTANTS
    t1 = t1
    t2 = t2
    a1 = a1
    a2 = a2
    k1 = k1
    k2 = k2
    v1 = v1
    v2 = v2
    r1 = r1
    r2 = r2
    Tokens = {t1}
    Owners = {a1}
    Keys = {k1, k2}
    Values = {v1}
    Resolvers = {r1, r2}
    SameReverseAgain = FALSE
    MaxBlocks = 5
    RpcFails = TRUE
    MaxCrashes = 1
SPECIFICATION FairSpec
INVARIANT Settled
PROPERTY MirroredUnlessStuck
