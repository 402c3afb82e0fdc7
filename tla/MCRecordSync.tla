---------------------------- MODULE MCRecordSync -----------------------------
(***************************************************************************)
(* RecordSync for TLC.  One set of bounds that is large in every direction *)
(* is out of reach, so a behaviour is one of the plans below, each large   *)
(* in the direction it is about.  The bounds of the module itself, given   *)
(* by the cfg files, are at least those of every plan; record 2 is a host  *)
(* and record 1 a group that it may be in.                                 *)
(***************************************************************************)
EXTENDS RecordSync

CONSTANT Plans

VARIABLE plan

(* One record, two failures.                                               *)
Record == INSTANCE RecordSync WITH
    MaxNow <- 2, MaxEdits <- 2, MaxFaults <- 2,
    AllowFreeze <- FALSE, AllowPurge <- FALSE, AllowRestore <- FALSE, AllowReview <- FALSE

(* Two records: pushes of several batches of which some fail.              *)
Several == INSTANCE RecordSync WITH
    MaxNow <- 1, MaxEdits <- 2, MaxFaults <- 2,
    AllowFreeze <- FALSE, AllowPurge <- FALSE, AllowRestore <- FALSE, AllowReview <- FALSE

(* The chain is frozen, erased or restored, and reviews stop uploads.      *)
Stops == INSTANCE RecordSync WITH
    MaxNow <- 2, MaxEdits <- 2, MaxFaults <- 1,
    AllowFreeze <- TRUE, AllowPurge <- TRUE, AllowRestore <- TRUE, AllowReview <- TRUE

(* A group and a host whose pin follows it, without failures.              *)
Group == INSTANCE RecordSync WITH
    MaxNow <- 1, MaxEdits <- 3, MaxFaults <- 0,
    AllowFreeze <- FALSE, AllowPurge <- FALSE, AllowRestore <- FALSE, AllowReview <- FALSE

(* One record edited three times, one failure.                             *)
Retry == INSTANCE RecordSync WITH
    MaxNow <- 2, MaxEdits <- 3, MaxFaults <- 1,
    AllowFreeze <- FALSE, AllowPurge <- FALSE, AllowRestore <- FALSE, AllowReview <- FALSE

(* Another device changes the sync code.                                   *)
Frozen == INSTANCE RecordSync WITH
    MaxNow <- 2, MaxEdits <- 2, MaxFaults <- 1,
    AllowFreeze <- TRUE, AllowPurge <- FALSE, AllowRestore <- FALSE, AllowReview <- FALSE

(* Record 1 is not used.                                                   *)
HostOnly == \A d \in Device : mem'[d].rows[1] = NoRow

MCInit == Init /\ plan \in Plans

MCNext ==
    /\ \/ plan = "record" /\ Record!Next /\ HostOnly
       \/ plan = "several" /\ Several!Next
       \/ plan = "stops" /\ Stops!Next /\ HostOnly
       \/ plan = "group" /\ Group!Next
       \/ plan = "retry" /\ Retry!Next /\ HostOnly
       \/ plan = "frozen" /\ Frozen!Next /\ HostOnly
    /\ UNCHANGED plan

MCSpec == MCInit /\ [][MCNext]_<<vars, plan>>

(* The fairness of RecordSync; what a round does depends on no bound but   *)
(* for the pins it may drop, and it may always drop none.                  *)
MCFairSpec ==
    /\ MCSpec
    /\ \A d \in Device : WF_vars(RoundStep(d))
    /\ WF_vars(LateDelivery)

-----------------------------------------------------------------------------
(* Unless the account is frozen, the devices and the relay come to one     *)
(* state once edits and failures cease.                                    *)
Converges == plan # "frozen" => EventuallyConverged
=============================================================================
