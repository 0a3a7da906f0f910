CONSTANTS
    t1 = t1
    t2 = t2
    a1 = a1
    a2 = a2
    k1 = k1
    k2 = k2
    v1 = v1
    v2 = v2
    r1 = r1
    r2 = r2
    Tokens = {t1, t2}
    Owners = {a1, a2}
    Keys = {k1}
    Values = {v1}
    Resolvers = {}
    SameReverseAgain = FALSE
    MaxBlocks = 5
    RpcFails = FALSE
    MaxCrashes = 1
SPECIFICATION Spec
SYMMETRY Symmetry
INVARIANT TypeOK
PROPERTY PublishesRegistry
