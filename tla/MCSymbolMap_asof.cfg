\* The calls of the repository seed with effective_from 0; the process may be killed once.
CONSTANTS
    Pairs = {p1, p2}
    Natives = {n1, n2}
    MaxTime = 1
    SeedTimes = {0}
    MaxKills = 1
    Unlisted = Unlisted
    Unread = Unread
    NoCall = NoCall
SPECIFICATION Spec
INVARIANTS
    OneMapping
    UnloggedOnlyByKill
PROPERTIES
    RetiredStaysRetired
