SPECIFICATION Spec
CONSTANTS
    RunIds = {1, 2, 3}
    Times = {1, 2}
    Statuses = {"running", "failed"}
    StepIds = {s1, s2, s3}
    Numbers = {1, 2}
    Limits = {1, 2}
    NoCursor = NoCursor
    NoFilter = NoFilter
INVARIANTS
    TypeOK
    ListedOnce
    RunsAllListed
    NumbersAllListed
CHECK_DEADLOCK FALSE
