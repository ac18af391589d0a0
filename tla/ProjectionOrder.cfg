SPECIFICATION Spec
CONSTANTS
    Instances = {"i1"}
    AggTypes = {user, org}
    AggIDs = {"a1"}
    Owners = {"org1"}
    NoOwner = NoOwner
    Subscribers = {sub}
    Schedulers = {sched}
    BulkLimit = 2
    Retries = 1
    MaxFailureCount = 2
    Unreducible = {2}
    SequenceBound = 5
    Notified = {2, 3}
    MaxFaults = 0
    Serializable = TRUE
INVARIANTS TypeOK
PROPERTIES ImplementsConsumer
SYMMETRY TypeSymmetry
CHECK_DEADLOCK FALSE
