---------------------------- MODULE MCAccountGate ----------------------------
(***************************************************************************)
(* AccountGate for TLC.  A behaviour is one of the plans below; the bounds *)
(* of the module itself, given by the cfg files, are at least those of     *)
(* every plan.                                                             *)
(***************************************************************************)
EXTENDS AccountGate

CONSTANT Plans

VARIABLE plan

(* Two edits and a host key to confirm, without failures.                  *)
Confirming == INSTANCE AccountGate WITH MaxEdits <- 2, MaxFaults <- 0, MaxPins <- 1

(* Two edits and a failure.                                                *)
Failing == INSTANCE AccountGate WITH MaxEdits <- 2, MaxFaults <- 1, MaxPins <- 0

(* An edit, a failure and a host key to confirm.                           *)
Healing == INSTANCE AccountGate WITH MaxEdits <- 1, MaxFaults <- 1, MaxPins <- 1

MCInit == Init /\ plan \in Plans

MCNext ==
    /\ \/ plan = "confirming" /\ Confirming!Next
       \/ plan = "failing" /\ Failing!Next
       \/ plan = "healing" /\ Healing!Next
    /\ UNCHANGED plan

(* The fairness of AccountGate, in the plan its liveness is about.         *)
MCSpec ==
    /\ MCInit /\ [][MCNext]_<<vars, plan>>
    /\ \A d \in Device : WF_vars(plan = "healing" /\ Healing!RoundStep(d))

-----------------------------------------------------------------------------
(* A block that the account does not deserve is lifted by a later round.   *)
BlockLifted == plan = "healing" => BlockHeals
=============================================================================
