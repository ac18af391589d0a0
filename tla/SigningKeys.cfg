SPECIFICATION FairSpec
CONSTANTS
    Requests <- MCRequests
    Storage <- MCStorage
    Usage <- MCUsage
    NoStorage = NoStorage
    LockDuration = 4
    MaxSpent = 1
    MaxLag = 1
    MaxExpired = 1
    MaxHidden = 1
    MaxFaults = 1
INVARIANTS TypeOK KeysFromOneStorage
PROPERTY KeyBecomesAvailable
