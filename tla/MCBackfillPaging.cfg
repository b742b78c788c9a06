\* Every fetcher over every history of up to five rows in nine ticks.
CONSTANTS
    Grain = 2
    PageSize = 2
    MaxPages = 2
    Minute = 2
    Steps = {1, 2}
    Day = 6
    Now = 8
    LastDay = 5
    Windows <- MCWindows
    MaxRows = 5
    MaxRuns = 2
    MaxFaults = 1
SPECIFICATION FairSpec
INVARIANTS
    LossesExplained
    CollectedOnce
    CopiesAreLogged
PROPERTIES
    FetchEnds
CHECK_DEADLOCK FALSE
