SPECIFICATION FairSpec
CONSTANTS
    k1 = k1  k2 = k2  k3 = k3
    Callers = {k1, k2, k3}
    PoolSize = 2
    MaxActive = 2
    FailureLimit = 2
    MaxFaults = 1
INVARIANTS OwnReply NothingLeaked
PROPERTY FindsBack
