\* Two writers, two compactors and a query over the view; one process may be
\* killed and one write may raise.
CONSTANTS
    Rows = {r1, r2}
    Writers = {w1, w2}
    Compactors = {c1, c2}
    Queries = {q1}
    MaxCopies = 2
    MaxCrashes = 1
    MaxFailures = 1
SPECIFICATION Spec
SYMMETRY Symmetry
CONSTRAINT Small
INVARIANTS
    PresentIsWritten
    QueryComplete
PROPERTY ImplementsCopyStore
CHECK_DEADLOCK FALSE
