CONSTANTS
    zil = zil
    name = name
    sub = sub
    Bad = Bad
    o1 = o1
    r1 = r1
    k1 = k1
    v1 = v1
    v2 = v2
    Root = zil
    Nodes = {name, sub, Bad}
    Mislabelled = {Bad}
    Owners = {o1}
    Resolvers = {r1}
    Keys = {k1}
    Values = {v1, v2}
    ParentOf <- Parents
    PerPage = 4
    Delay = 2
    MaxTxs = 5
    MaxFaults = 2
SPECIFICATION FairSpec
INVARIANT TypeOK
INVARIANT StoredSequentially
INVARIANT ZilSettled
INVARIANT StatusTruthful
PROPERTY ZilMirrored
