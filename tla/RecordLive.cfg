\* Convergence and the notice of a freeze, under fairness.
SPECIFICATION MCFairSpec
CONSTANTS
    Key = {1, 2}
    Host = {2}
    Device = {1, 2}
    MaxNow = 2
    MaxEdits = 3
    MaxFaults = 1
    AllowFreeze = TRUE
    AllowPurge = FALSE
    AllowRestore = FALSE
    AllowReview = FALSE
    Plans = {"group", "retry", "frozen"}
\* A device with a frozen account stays idle for good.
CHECK_DEADLOCK FALSE
PROPERTIES Converges FreezeNoticed
