SPECIFICATION FairSpec
CONSTANTS
    Schedulers = {p, q}
    NoScheduler = NoScheduler
    Instances = {"i1"}
    System = "system"
    RequeueAfter = 2
    HandleActiveInstances = 5
    ConcurrentInstances = 1
    NormalTurn = 1
    MaxTurn = 2
    MaxFaults = 2
INVARIANTS TypeOK Exclusive WindowSuffices
PROPERTY EventuallyHandled
