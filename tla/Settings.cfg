SPECIFICATION FairSpec
CONSTANTS
    Creates = {c1, c2}
    KeyCreates = {k1}
    Deletes = {d1}
    Ingests = {}
    Default = Default
    Names = {main, other}
    DefaultName = main
    RunIds = {}
    NoRow = NoRow
    NoKey = NoKey
    Mount = Mount
    MaxFetches = 3
    NoProject = NoProject
INVARIANTS
    TypeOK
    PanelOfSelection
PROPERTY
    PageSettles
\* Every request ends: the system stops once all have been answered.
CHECK_DEADLOCK FALSE
