\* A window of three ticks; pull batches of one or two chains.
SPECIFICATION MCSpec
CONSTANTS
    Limit <- SmallLimits
    Window = 3
    MaxPull = 2
    MaxTime = 11
    c1 = c1
    c2 = c2
    c3 = c3
    c4 = c4
    Chain = {c1, c2, c3, c4}
    Order <- FourChains
    Broken = {c3}
    Gone = {c4}
    MaxBatch = 2
    Budget = 0
    MaxSeq = 2
    MaxLimited = 2
\* The clock of the limiter stops at its bound, and so do the pushes.
CHECK_DEADLOCK FALSE
INVARIANTS LimitHolds NoRowSkipped
PROPERTIES NoRunningWindowErased RoundsAccount EveryRowArrives
