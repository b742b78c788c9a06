\* The same day built twice; neither clock nor kills matter.
CONSTANTS
    Venues = {0, 1, 2}
    TicksPerSecond = 2
    MadK = 5
    MinVenues = 2
    StaleLag = 5
    WarnGap = 60
    MajorGap = 600
    WarnK = 30
    MajorK = 120
    MinRun = 2
    Feed <- DayFeed
    MaxClock = 0
    MaxBuilds = 2
    MaxFaults = 0
SPECIFICATION Spec
INVARIANT DatasetFinishes
