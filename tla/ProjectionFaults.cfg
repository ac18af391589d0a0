SPECIFICATION FairSpec
CONSTANTS
    Instances = {"i1"}
    AggTypes = {"user"}
    AggIDs = {"a1"}
    Owners = {"org1"}
    NoOwner = NoOwner
    Subscribers = {sub}
    Schedulers = {sched}
    BulkLimit = 2
    Retries = 1
    MaxFailureCount = 2
    Unreducible = {3}
    SequenceBound = 3
    Notified = {1, 2}
    MaxFaults = 1
    Serializable = TRUE
INVARIANTS HandledInOrder CurrentIsLast SkippedAfterFailures
PROPERTY BlockedByReduceOnly
CHECK_DEADLOCK FALSE
