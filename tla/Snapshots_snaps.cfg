CONSTANTS
    one = one
    two = two
    Values = {one, two}
    Nothing = nothing
    Broken = broken
    RecoverEvery = 2
    InitEvery = 1
    CrcLimit = 1
    Scenarios <- WideAndLong
SPECIFICATION Spec
SYMMETRY ValuesAlike
CHECK_DEADLOCK FALSE
INVARIANTS TypeOK SnapshotsTrue BaseKept
