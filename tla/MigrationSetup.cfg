SPECIFICATION FairSpec
CONSTANTS
    Processes = {"old1", "new"}
    Cleaners = {"c1"}
    Steps <- StepList
    Repeatables = {"config_change"}
    Config <- Versions
    NoRun = NoRun
    MaxStarts = 2
    MaxFaults = 1
    MaxCancels = 2
INVARIANTS TypeOK OneAtATime StepsInOrder
PROPERTIES NeverAgain EverySetupEnds
CHECK_DEADLOCK FALSE
