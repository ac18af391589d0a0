SPECIFICATION FairSpec
CONSTANTS
    Instances = {"i1"}
    AggTypes = {"user", "org"}
    AggIDs = {"a1"}
    Owners = {"org1"}
    NoOwner = NoOwner
    Subscribers = {}
    Schedulers = {sched}
    BulkLimit = 3
    Retries = 2
    MaxFailureCount = 2
    Unreducible = {}
    SequenceBound = 4
    Notified = {}
    MaxFaults = 0
    Serializable = TRUE
PROPERTY NotBlocked
CHECK_DEADLOCK FALSE
