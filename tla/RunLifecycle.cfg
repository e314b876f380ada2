SPECIFICATION Spec
CONSTANTS
    Completes = {c1, c2}
    Analyses = {a1, a2}
    Repairs = {p1, p2}
    Components = {planner, retriever}
    Categories = {timeout}
    CreateStatuses = {"running", "failed"}
    MaxSteps = 2
    NoRow = NoRow
    NoOne = NoOne
SYMMETRY Symmetry
INVARIANTS
    TypeOK
    FailedRunHasFailure
    AttributedRunHasFailure
    ClearedOnlyByCompletion
    ColumnsFromAnalyses
    FailureStepInTrace
PROPERTY
    RecommendationsNeverVanish
\* Every request ends: the system stops once all have been answered.
CHECK_DEADLOCK FALSE
