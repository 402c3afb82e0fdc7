---------------------------- MODULE MCLifecycle ----------------------------
(***************************************************************************)
(* The operations of an account's life for TLC.  They do not interleave    *)
(* with each other and one run checks them side by side: a behaviour is    *)
(* one of the scenarios below, in which the variables of the other modules *)
(* rest.  Two scenarios of one module share its variables.                 *)
(*                                                                         *)
(* The constants of the configuration describe the first scenario of each  *)
(* module.  Setting up: one device creates the account and another joins   *)
(* it, with one failure.  Rotation: batches of two rows, of which two can  *)
(* fail, and a device that joins the new account early.  Leaving: other    *)
(* devices change the shared hosts while it is pending.  Migration: two    *)
(* devices, one of which joins, one failure, and the first that is done    *)
(* may raise the format.                                                   *)
(***************************************************************************)
EXTENDS Lifecycle, TLC

CONSTANTS d1, d2, h1, h2

VARIABLE scenario

MCvars == <<scenario, setupVars, vars, leaveVars, migrationVars>>

(* Both devices have the space of h2; the first also that of h1.           *)
SelectedBoth == d1 :> {h1, h2} @@ d2 :> {h2}

(* Everything fits one batch and nobody joins before the change is over.   *)
RotateAlone == INSTANCE Rotation WITH BatchItems <- 10, Joins <- FALSE, MaxFaults <- 1

(* Nobody changes the shared hosts.                                        *)
LeaveAlone == INSTANCE LeaveAccount WITH
    OtherEdits <- FALSE,
    chain <- leaveChain, mem <- leaveMem, disk <- leaveDisk, pc <- leavePc,
    faults <- leaveFaults

(* The same two while an old client or a migrated device edits once.       *)
MigrateEdited == INSTANCE Migration WITH
    Joins <- Joining, MaxOldEdits <- 1, MaxEdits <- 1, MaxRaises <- 0, MaxFaults <- 0,
    meta <- migMeta, legacy <- migLegacy, typed <- migTyped, state <- migState,
    localRev <- migLocal, generation <- migGeneration, preview <- migPreview,
    journal <- migJournal, pc <- migPc, seen <- migSeen, owed <- migOwed, used <- migUsed

(* One device whose owner reviews again, a late row of an old client.      *)
MigrateAlone == INSTANCE Migration WITH
    Joins <- {}, Late <- {h2}, MaxOldEdits <- 1, MaxEdits <- 1, MaxRaises <- 0,
    MaxOpens <- 1, MaxFaults <- 1,
    meta <- migMeta, legacy <- migLegacy, typed <- migTyped, state <- migState,
    localRev <- migLocal, generation <- migGeneration, preview <- migPreview,
    journal <- migJournal, pc <- migPc, seen <- migSeen, owed <- migOwed, used <- migUsed

(* One device that joins, edits before the switch, which it tries once,    *)
(* and fails once.                                                         *)
MigrateJoining == INSTANCE Migration WITH
    Joins <- {d1}, Rebases <- 1, MaxOldEdits <- 1, MaxEdits <- 1, MaxRaises <- 1, MaxFaults <- 1,
    meta <- migMeta, legacy <- migLegacy, typed <- migTyped, state <- migState,
    localRev <- migLocal, generation <- migGeneration, preview <- migPreview,
    journal <- migJournal, pc <- migPc, seen <- migSeen, owed <- migOwed, used <- migUsed

ASSUME /\ LeaveAlone!LeaveAssumption /\ MigrateEdited!MigrationAssumption
       /\ MigrateAlone!MigrationAssumption /\ MigrateJoining!MigrationAssumption

MCInit ==
    /\ scenario \in {"setup", "rotate", "rotate alone", "leave", "leave alone",
                     "migrate", "migrate edited", "migrate alone", "migrate joining"}
    /\ Setup!Init /\ Init /\ Leave!Init
    /\ scenario \notin {"leave", "leave alone"} =>
          leaveChain = {} /\ leaveMem.hosts = {} /\ source = [h \in {h1, h2} |-> 0]
    /\ CASE scenario = "migrate alone" -> MigrateAlone!Init
         [] scenario = "migrate joining" -> MigrateJoining!Init
         [] OTHER -> Migrate!Init

Rest(others) == UNCHANGED <<scenario, others>>

(* A migrating device does nothing.                                        *)
Rests(d) == /\ migPc'[d] = "idle" /\ migPreview'[d] = migPreview[d]
            /\ migGeneration'[d] = migGeneration[d]

MCNext ==
    \/ scenario = "setup" /\ Setup!Next /\ Rest(<<vars, leaveVars, migrationVars>>)
    \/ scenario = "rotate" /\ Next /\ Rest(<<setupVars, leaveVars, migrationVars>>)
    \/ /\ scenario = "rotate alone"
       /\ RotateAlone!Next /\ Rest(<<setupVars, leaveVars, migrationVars>>)
    \/ scenario = "leave" /\ Leave!Next /\ Rest(<<setupVars, vars, migrationVars>>)
    \/ /\ scenario = "leave alone"
       /\ LeaveAlone!Next /\ Rest(<<setupVars, vars, migrationVars>>)
    \/ scenario = "migrate" /\ Migrate!Next /\ Rest(<<setupVars, vars, leaveVars>>)
    \/ /\ scenario = "migrate edited"
       /\ MigrateEdited!Next /\ migUsed'.old + migUsed'.edits <= 1
       /\ Rest(<<setupVars, vars, leaveVars>>)
    \/ /\ scenario = "migrate alone"
       /\ MigrateAlone!Next /\ Rests(d2) /\ Rest(<<setupVars, vars, leaveVars>>)
    \/ /\ scenario = "migrate joining"
       /\ MigrateJoining!Next /\ Rests(d2) /\ Rest(<<setupVars, vars, leaveVars>>)

(* The fairness of each module, in the scenarios its liveness is about.    *)
MCFairness ==
    /\ \A d \in {d1, d2} : /\ WF_setupVars(scenario = "setup" /\ Setup!Step(d))
                           /\ WF_setupVars(scenario = "setup" /\ Setup!Resume(d))
    /\ WF_vars(scenario = "rotate alone" /\ RotateAlone!Step)
    /\ WF_vars(scenario = "rotate alone" /\ RotateAlone!Resume)
    /\ WF_vars(scenario = "rotate alone" /\ RotateAlone!LateDelivery)
    /\ WF_leaveVars(scenario = "leave alone" /\ LeaveAlone!Step)
    /\ WF_leaveVars(scenario = "leave alone" /\ LeaveAlone!Resume)
    /\ WF_migrationVars(scenario = "migrate alone" /\ MigrateAlone!Step(d1))
    /\ SF_migrationVars(scenario = "migrate alone" /\ MigrateAlone!Prepare(d1))
    /\ SF_migrationVars(scenario = "migrate alone" /\ MigrateAlone!Confirm(d1))

MCSpec == MCInit /\ [][MCNext]_MCvars /\ MCFairness

-----------------------------------------------------------------------------
(* However often it failed, every operation of the account's life          *)
(* completes: a set-up whose code is known, unless the account is being    *)
(* rotated or has a newer format; a rotation whose new code is known, when *)
(* its rows fit one batch and nobody joins the new account before; leaving,*)
(* if nobody changes the hosts meanwhile; a migration whose owner keeps    *)
(* reviewing.                                                              *)
OperationsComplete ==
    /\ Setup!SetupCompletes
    /\ scenario = "rotate alone" => RotateAlone!KnownCodeCompletes
    /\ scenario = "leave alone" => LeaveAlone!LeaveCompletes
    /\ scenario = "migrate alone" => MigrateAlone!MigrationCompletes(d1)
=============================================================================
