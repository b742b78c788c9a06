\* One day of three venues, built and built again, with failures, kills and copies on a
\* part of it (Small).
CONSTANTS
    Venues = {0, 1, 2}
    TicksPerSecond = 2
    MadK = 5
    MinVenues = 2
    StaleLag = 5
    WarnGap = 60
    MajorGap = 600
    WarnK = 30
    MajorK = 120
    MinRun = 2
    Feed <- DayFeed
    MaxClock = 1
    MaxBuilds = 2
    MaxFaults = 2
SPECIFICATION Spec
INVARIANTS
    AggBarsOfTape
    OutsideOnlyWhenDropped
    ResampleIsBarOfTrades
    BuildsAreLogged
    CopiesNeverGradeA
    RaisesOnlyOnRebuilds
PROPERTY AsOfSettles
CONSTRAINT Small
