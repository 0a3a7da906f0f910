CONSTANTS
    t1 = t1
    t2 = t2
    a1 = a1
    a2 = a2
    Tokens = {t1, t2}
    Pulled = {t1}
    Owners <- MCOwners
    Supported = {t1}
    MaxBlocks = 4
    Asked = {}
    RpcFails = FALSE
SPECIFICATION Spec
INVARIANTS TypeOK SettledOwner SettledReverse
CHECK_DEADLOCK FALSE
