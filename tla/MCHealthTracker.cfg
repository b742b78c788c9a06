\* Two streams; the baseline window is three ticks, the deque holds three
\* arrivals, and eight messages of the first may fall into a window.
CONSTANTS
    k1 = k1
    k2 = k2
    Keys = {k1, k2}
    Recent = 1
    Baseline = 3
    Slowdown = 1
    MaxLen = 3
    Interval = 1
    PerTick <- MCPerTick
SPECIFICATION HealthFairSpec
INVARIANTS
    SilenceIsReported
PROPERTIES
    VerdictExplained
    AlarmClears
