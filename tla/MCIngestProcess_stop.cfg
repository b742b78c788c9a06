\* Two workers; three failures may come at any time.  The process ends.
CONSTANTS
    Workers = {w1, w2}
    Stub = {w2}
    MinBackoff = 1
    MaxBackoff = 3
    MaxFailures = 3
SPECIFICATION FairSpec
INVARIANTS
    LastFlushIsLast
    NoFeedDies
PROPERTIES
    FeedsComeBack
    StopEnds
CHECK_DEADLOCK FALSE
