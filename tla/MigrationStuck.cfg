SPECIFICATION Spec
CONSTANTS
    Processes = {"old1", "new"}
    Cleaners = {"c1", "c2"}
    Steps <- StepList
    Repeatables = {"config_change"}
    Config <- Versions
    NoRun = NoRun
    MaxStarts = 2
    MaxFaults = 1
    MaxCancels = 2
INVARIANT CleanupFindsStuck
CHECK_DEADLOCK FALSE
