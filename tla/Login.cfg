\* Two browsers and two requests; at the bound on the events nothing is left.
CONSTANTS
    Agents = {a1, a2}
    Requests = {r1, r2}
    MaxAttempts = 2
    MaxEvents = 3
    MaxLost = 1
SPECIFICATION Spec
SYMMETRY Symmetry
INVARIANTS TypeOK LockoutBounded
PROPERTIES CallbackVerified NothingAskedTwice
CHECK_DEADLOCK FALSE
