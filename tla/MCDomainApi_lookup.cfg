CONSTANTS
    t1 = t1
    t2 = t2
    a1 = a1
    a2 = a2
    Tokens = {t1}
    Pulled = {}
    Owners <- MCOneOwner
    Supported = {t1}
    MaxBlocks = 3
    Asked = {t1}
    RpcFails = TRUE
SPECIFICATION FairSpec
INVARIANT FoundUnlessOvertaken
PROPERTIES EventuallyFound EventuallySettled
CHECK_DEADLOCK FALSE
