\* Outages, a kill, a failing query, and complete or partial answers in any
\* order, for an adapter that rounds to milliseconds and for one that does not.
CONSTANTS
    MaxTime = 3
    MaxCrashes = 1
    MaxErrors = 1
    FlushAge = 1
    Lookback = 2
    MinGap = 1
    MaxCopies = 3
SPECIFICATION FairSpec
INVARIANTS
    TailIsFilled
    OncePerQuery
PROPERTIES
    RepeatsOnlyNewest
    TailEventuallyFilled
CHECK_DEADLOCK FALSE
CONSTRAINT FailsUnlessRounds
