CONSTANTS
    p1 = p1
    p2 = p2
    q1 = q1
    q2 = q2
    k1 = k1
    k2 = k2
    n1 = n1
    n2 = n2
    Processes = {p1, p2}
    Requests = {q1, q2}
    Keys = {k1}
    Names = {n1, n2}
    Duration = 2
    QueryTime = 1
SPECIFICATION FairSpec
INVARIANT HonestReplies
PROPERTIES RefusedOnlyWhileKept EventuallyAccepted
