SPECIFICATION FairSpec
CONSTANTS
    r1 = r1
    r2 = r2
    Runs = {r1, r2}
    Adders = {s1, s2}
    Batches = {b1, b2}
    Contents <- SomeContents
    Numbers = {0, 1, 2}
    NoRow = NoRow
    NoOne = NoOne
INVARIANTS
    TypeOK
    TotalAtMostSteps
    BatchAllOrNothing
    AutoNumbersIncrease
PROPERTIES
    LogSpec
    EveryRequestAnswered
\* Every request ends: the system stops once all have been answered.
CHECK_DEADLOCK FALSE
