\* A rename as the docstring describes it, with the effective_from of all callers.
CONSTANTS
    Pairs = {p1}
    Natives = {n1, n2}
    MaxTime = 1
    SeedTimes = {0}
    MaxKills = 0
    Unlisted = Unlisted
    Unread = Unread
    NoCall = NoCall
SPECIFICATION Spec
PROPERTY RenameIsRecorded
