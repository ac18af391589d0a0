SPECIFICATION Spec
CONSTANTS
    Instances = {"", "i1"}
    AggTypes = {"user", "org"}
    AggIDs = {"u1", "u2", "o1", "o2"}
    Owners = {"org1", "org2"}
    NoOwner = NoOwner
    NoID = NoID
    System = ""
    Fields = {"acme", "ACME"}
    ToLower <- LowerCase
    Clients = {c1, c2}
    Batches <- MixedBatches
    MaxSequences <- MixedBound
    Serializable = FALSE
INVARIANTS NoForks ClaimedOnce
SYMMETRY ClientSymmetry
CHECK_DEADLOCK FALSE
