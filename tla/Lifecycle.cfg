SPECIFICATION MCSpec
CONSTANTS
    d1 = d1
    d2 = d2
    h1 = h1
    h2 = h2
    Write = {w1, w2}
    Space = {s1, s2}
    FirstSpace = s1
    BatchItems = 2
    Joins = TRUE
    MaxFaults = 2
    Device = {d1, d2}
    Creator = d1
    SetupSpace = {s1}
    Frozen = TRUE
    Future = TRUE
    MaxSetupFaults = 1
    Host = {h1, h2}
    OtherEdits = TRUE
    MaxPassword = 2
    Joining = {d2}
    Selected <- SelectedBoth
    Late = {}
    BatchSize = 1
    Rebases = 2
    MaxOldEdits = 0
    MaxEdits = 0
    MaxRaises = 1
    MaxOpens = 0
    MaxMigrationFaults = 1
INVARIANTS RotationSafe LeavePreserves MigrationComplete
PROPERTIES SetupConsistent MigrationNeverUndoes OperationsComplete
\* An operation that is over leaves nothing to do.
CHECK_DEADLOCK FALSE
