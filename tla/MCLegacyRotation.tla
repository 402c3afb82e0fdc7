------------------------- MODULE MCLegacyRotation -------------------------
(***************************************************************************)
(* LegacyRotation for TLC, in two scenarios that one run explores: both    *)
(* devices change the code at once (the constants of the cfg), and one     *)
(* changes it, leaves or cancels while saves and the keychain fail and the *)
(* app restarts.                                                           *)
(***************************************************************************)
EXTENDS LegacyRotation, TLC

CONSTANTS a, b, s1, s2, e1, e2

VARIABLE scenario

(* b edits a space that exists, and one it may create during the change.   *)
MCMakerOf == e1 :> b @@ e2 :> b
MCSpaceOf == e1 :> s1 @@ e2 :> s2

Failing == INSTANCE LegacyRotation WITH
    Rotators <- {a}, Leavers <- {a},
    MaxSaveFailures <- 1, MaxKeychainFailures <- 1, MaxRestarts <- 1

MCInit == Init /\ scenario \in {"race", "failing"}

MCNext ==
    /\ UNCHANGED scenario
    /\ \/ scenario = "race" /\ Next
       \/ scenario = "failing" /\ Failing!Next

MCSpec == MCInit /\ [][MCNext]_<<scenario, vars>>

(* Progress(d) of the devices that race.                                   *)
MCFairSpec ==
    /\ MCSpec
    /\ \A d \in Device :
          /\ WF_vars(scenario = "race" /\ RoundStep(d))
          /\ WF_vars(scenario = "race" /\ Resave(d))
          /\ WF_vars(scenario = "race" /\ Command(d))
          /\ WF_vars(scenario = "race" /\ \E c \in Code : RejoinStage(d, c))

(* No device is stranded by a change of code: one that did not leave has   *)
(* the keys of the account it is in, whatever save or keychain access      *)
(* failed before a restart; and when devices race and nothing fails for    *)
(* good, each that marked the old account or was blocked by the other ends *)
(* up in a new one, not blocked.                                           *)
NoneStranded == []KeysKept /\ (scenario = "race" => RotationEnds)
=============================================================================
