CONSTANTS
    a = a
    b = b
    s1 = s1
    s2 = s2
    e1 = e1
    e2 = e2
    NoRot = NoRot
    NoCode = NoCode
    Old = Old
    Left = Left
    Device = {a, b}
    Rotators = {a, b}
    Leavers = {}
    Space = {s1, s2}
    First = {s1}
    Edit = {e1, e2}
    MakerOf <- MCMakerOf
    SpaceOf <- MCSpaceOf
    MaxStarts = 1
    MaxSaveFailures = 0
    MaxKeychainFailures = 0
    MaxRestarts = 1
SPECIFICATION MCSpec
INVARIANTS KeysKept
CHECK_DEADLOCK FALSE
