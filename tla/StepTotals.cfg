SPECIFICATION Spec
CONSTANTS
    r1 = r1
    r2 = r2
    Runs = {r1}
    Adders = {}
    Batches = {b1, b2, b3}
    Contents <- SingleEvents
    Numbers = {0}
    NoRow = NoRow
    NoOne = NoOne
INVARIANT
    TotalStepsExact
CHECK_DEADLOCK FALSE
