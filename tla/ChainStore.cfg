\* Quota and numbering: three identities, room for two rows.
SPECIFICATION Spec
CONSTANTS
    t1 = t1
    t2 = t2
    NoToken = NoToken
    Token = {t1, t2}
    Key = {1, 2, 3}
    Size = {1, 2}
    MaxBytes = 3
    MaxRecords = 2
    MaxItems = 2
    RateLimit = 1
    RatePeriod = 1
    IdleTtl = 3
    TouchInterval = 1
    MaxTime = 6
    MaxSeq = 3
SYMMETRY Symmetry
INVARIANTS QuotaRespected ActiveChainKept
PROPERTIES FrozenUntilIdle ServiceImplemented
