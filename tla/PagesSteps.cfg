SPECIFICATION Spec
CONSTANTS
    RunIds = {1}
    Times = {1}
    Statuses = {"running", "failed"}
    StepIds = {s1, s2, s3}
    Numbers = {1, 2}
    Limits = {1, 2}
    NoCursor = NoCursor
    NoFilter = NoFilter
INVARIANT
    StepsAllListed
CHECK_DEADLOCK FALSE
