\* No kill and no failing write, one compaction over two nights of parts.
CONSTANTS
    Rows = {r1, r2}
    Writers = {w1, w2}
    Compactors = {c1}
    Queries = {}
    MaxCopies = 2
    MaxCrashes = 0
    MaxFailures = 0
SPECIFICATION Spec
INVARIANT OneCompactedFile
CHECK_DEADLOCK FALSE
