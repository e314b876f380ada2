SPECIFICATION Spec
CONSTANTS
    Threads = {t1, t2}
    FlushAts = {1, 3}
    MaxCalls = 2
    MaxFailures = 1
    NoRun = NoRun
INVARIANTS
    TypeOK
    LossNeedsRace
    CopiesNeedRaces
CHECK_DEADLOCK FALSE
