SPECIFICATION FairSpec
CONSTANTS
    Completes = {c1, c2}
    Analyses = {a1, a2}
    Repairs = {p1}
    Components = {planner}
    Categories = {timeout}
    CreateStatuses = {"running"}
    MaxSteps = 0
    NoRow = NoRow
    NoOne = NoOne
PROPERTIES
    EveryRequestAnswered
\* Every request ends: the system stops once all have been answered.
CHECK_DEADLOCK FALSE
