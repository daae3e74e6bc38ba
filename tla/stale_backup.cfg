\* One UPDATE is answered before the server fails.
CONSTANTS
    K = 3
    r1 = r1
    r2 = r2
    r3 = r3
    M = 1
    Reqs = {r1, r2, r3}
    Before = {r1}
    None = None
    Locks <- LockSet
    p1 = p1
    p2 = p2
    k1 = k1
    k2 = k2
    s1 = s1
    s2 = s2
    s3 = s3
    b1 = b1
    b2 = b2
SPECIFICATION DegradedSpec
INVARIANT ReadsAcknowledged
CHECK_DEADLOCK FALSE
