SPECIFICATION FairSpec
CONSTANTS
    Records = {r1, r2, r3}
    Trajectory <- SomeTrajectories
    Truth <- SomeTruths
    Agents = {alice}
    r1 = r1
    r2 = r2
    r3 = r3
    alice = alice
    Word = Word
    NoValue = NoValue
    DropFw = {r2}
    Procs = {p1, p2}
    Attempts = 2
    MaxCrashes = 1
    NoRecord = NoRecord
INVARIANTS
    TypeOK
    NoDuplicates
    AnswersKept
PROPERTIES
    SummaryComplete
    BenchmarkEnds
CHECK_DEADLOCK FALSE
