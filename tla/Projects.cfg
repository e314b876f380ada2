SPECIFICATION ApiSpec
CONSTANTS
    Creates = {c1, c2}
    KeyCreates = {k1, k2}
    Deletes = {d1, d2}
    Ingests = {i1, i2}
    Default = Default
    Names = {main, other}
    DefaultName = main
    RunIds = {r1}
    NoRow = NoRow
    NoKey = NoKey
SYMMETRY Symmetry
INVARIANTS
    NamesAnswered
    RunsFollowTheirKey
PROPERTIES
    RevokedKeysRefused
    RegistrySpec
\* Every request ends: the system stops once all have been answered.
CHECK_DEADLOCK FALSE
