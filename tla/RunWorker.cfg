SPECIFICATION FairSpec
CONSTANTS
    Completes = {c1}
    Analyses = {a1}
    Repairs = {}
    Components = {planner}
    Categories = {timeout}
    CreateStatuses = {"running"}
    MaxSteps = 1
    NoRow = NoRow
    NoOne = NoOne
PROPERTY
    AcceptedIsAttributed
CHECK_DEADLOCK FALSE
