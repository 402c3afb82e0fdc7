\* The comment in confirm(), against a round between the two phases.
SPECIFICATION MCSpec
CONSTANTS
    Key = {1, 2}
    Meta = 1
    Device = {1, 2}
    Newer = 3
    MaxNow = 1
    MaxEdits = 2
    MaxFaults = 1
    MaxPins = 1
    Plans = {"confirming"}
INVARIANT PreparedProofAccepted
