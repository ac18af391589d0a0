\* Two requests at a time; at the bound on the events nothing is left to do.
CONSTANTS
    AllRoles <- OneRole
    RequestKeys <- OnlyAll
    GrantIDs <- MCGrantIDs
    Clients = {c1, c2}
    MaxEvents = 4
    MaxProject = 1
    MaxUnread = 1
SPECIFICATION Spec
SYMMETRY Symmetry
INVARIANTS TypeOK OneGrant AccessIsGranted
PROPERTIES RemovedForGood CascadeReaches
CHECK_DEADLOCK FALSE
