SPECIFICATION FairSpec
CONSTANTS
    FlushAts = {1, 2, 3}
    MaxSteps = 3
    MaxFailures = 2
    NoRequest = NoRequest
INVARIANTS
    TypeOK
    NothingLost
    RunIsNamed
    CopiesNeedFailures
PROPERTIES
    CompletedWhenStored
    LogSpec
    CallsReturn
\* The host may close its tracer: the system stops there.
CHECK_DEADLOCK FALSE
