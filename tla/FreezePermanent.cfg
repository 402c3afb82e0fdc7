\* The comment "a freeze cannot be undone", against the idle alarm.
SPECIFICATION Spec
CONSTANTS
    t1 = t1
    t2 = t2
    NoToken = NoToken
    Token = {t1, t2}
    Key = {1}
    Size = {1}
    MaxBytes = 3
    MaxRecords = 2
    MaxItems = 1
    RateLimit = 2
    RatePeriod = 1
    IdleTtl = 3
    TouchInterval = 1
    MaxTime = 7
    MaxSeq = 1
SYMMETRY Symmetry
INVARIANT FreezePermanent
