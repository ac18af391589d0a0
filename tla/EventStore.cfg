SPECIFICATION Spec
CONSTANTS
    Instances = {"", "i1"}
    AggTypes = {"user", "org"}
    AggIDs = {"u1", "u2", "o1", "o2"}
    Owners = {"org1", "org2"}
    NoOwner = NoOwner
    NoID = NoID
    System = ""
    Fields = {"acme", "ACME"}
    ToLower <- LowerCase
    Clients = {c1, c2}
    Batches <- PushBatches
    MaxSequences <- PushBound
    Serializable = TRUE
INVARIANTS TypeOK StreamsAreLists NotifiedIsStored ClaimedOnce UniquesMatchClaims
PROPERTY LogSpec
SYMMETRY ClientSymmetry
CHECK_DEADLOCK FALSE
