SPECIFICATION FairSpec
CONSTANTS
    Subs <- MCSubs
    ByType = {"types"}
    Types <- MCTypes
    Nil = Nil
    Pushes <- MCPushes
    Batch <- MCBatch
    Free = Free
    QueueSize = 1
    MaxPanics = 2
INVARIANTS TypeOK DeliveredInOrder NeverToClosed
PROPERTIES QuietWhileSending NotifyEnds
CHECK_DEADLOCK FALSE
