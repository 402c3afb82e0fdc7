\* Two devices, a host and a group; the plans bound what happens.
SPECIFICATION MCSpec
CONSTANTS
    Key = {1, 2}
    Host = {2}
    Device = {1, 2}
    MaxNow = 2
    MaxEdits = 3
    MaxFaults = 2
    AllowFreeze = TRUE
    AllowPurge = TRUE
    AllowRestore = TRUE
    AllowReview = TRUE
    Plans = {"record", "retry", "several", "stops"}
INVARIANTS CleanMeansStored HonestPullAccepted CursorCovers HeaderIdentifiesRevision
PROPERTIES RelayNeverRegresses DeviceNeverRegresses RelayIsService
\* A device with a missing space or a frozen account stays idle for good.
CHECK_DEADLOCK FALSE
