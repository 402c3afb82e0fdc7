----------------------------- MODULE Lifecycle -----------------------------
(***************************************************************************)
(* The operations of an account's life: changing its code (Rotation),      *)
(* setting it up (AccountSetup), leaving it (LeaveAccount) and migrating   *)
(* to it (Migration).  A pending operation refuses every other one, so     *)
(* they stand side by side; their names would clash, and all but the first *)
(* are instances.                                                          *)
(***************************************************************************)
EXTENDS Rotation

CONSTANTS
    \* AccountSetup, and Device also of Migration
    Device, Creator, SetupSpace, Frozen, Future, MaxSetupFaults,
    \* LeaveAccount, with Rotation's MaxFaults, and Host also of Migration
    Host, OtherEdits, MaxPassword,
    \* Migration
    Joining, Selected, Late, BatchSize, Rebases, MaxOldEdits, MaxEdits, MaxRaises, MaxOpens,
    MaxMigrationFaults

VARIABLES
    \* AccountSetup
    setupChain, setupSpaces, setupNet, setupMem, setupDisk, setupSaveBlocked, setupKeychain,
    setupShown, setupPc, setupSeen, setupFaults,
    \* LeaveAccount
    leaveChain, leaveMem, leaveDisk, source, target, code, had, leavePc, todo, leaveFaults,
    \* Migration
    migMeta, migLegacy, migTyped, migState, migLocal, migGeneration, migPreview, migJournal,
    migPc, migSeen, migOwed, migUsed

setupVars == <<setupChain, setupSpaces, setupNet, setupMem, setupDisk, setupSaveBlocked,
               setupKeychain, setupShown, setupPc, setupSeen, setupFaults>>
leaveVars == <<leaveChain, leaveMem, leaveDisk, source, target, code, had, leavePc, todo,
               leaveFaults>>
migrationVars == <<migMeta, migLegacy, migTyped, migState, migLocal, migGeneration, migPreview,
                   migJournal, migPc, migSeen, migOwed, migUsed>>

Setup == INSTANCE AccountSetup WITH
    Space <- SetupSpace, MaxFaults <- MaxSetupFaults,
    chain <- setupChain, spaces <- setupSpaces, net <- setupNet, mem <- setupMem,
    disk <- setupDisk,
    saveBlocked <- setupSaveBlocked, keychain <- setupKeychain, shown <- setupShown,
    pc <- setupPc, seen <- setupSeen, faults <- setupFaults

Leave == INSTANCE LeaveAccount WITH
    chain <- leaveChain, mem <- leaveMem, disk <- leaveDisk, pc <- leavePc,
    faults <- leaveFaults

Migrate == INSTANCE Migration WITH
    Joins <- Joining, MaxFaults <- MaxMigrationFaults,
    meta <- migMeta, legacy <- migLegacy, typed <- migTyped, state <- migState,
    localRev <- migLocal, generation <- migGeneration, preview <- migPreview,
    journal <- migJournal, pc <- migPc, seen <- migSeen, owed <- migOwed, used <- migUsed

ASSUME LifecycleAssumption ==
    Setup!SetupAssumption /\ Leave!LeaveAssumption /\ Migrate!MigrationAssumption

-----------------------------------------------------------------------------
(* An account that exists can be opened, whichever step of                 *)
(* create_account(), join_account() or create_space() was the last before  *)
(* a crash: its code is in the creator's keychain, a device is in it only  *)
(* once it is listed there and what it does not mean to upload is on the   *)
(* relay, and a space that the account lists has a chain.  Once a device   *)
(* has authenticated a newer format, no later step of its set-up writes.   *)
SetupConsistent ==
    /\ [](/\ Setup!TypeOK /\ Setup!AccountReachable
          /\ Setup!JoinedMeansPublished /\ Setup!ListedSpaceExists)
    /\ Setup!FutureStopsSetup

(* Whoever has left the account has every host that was there on disk,     *)
(* with its password, and the sync code, the only way back, is deleted     *)
(* only after that.                                                        *)
LeavePreserves == Leave!LeavePreserves

(* The account marker Active is the completion gate: every old row that    *)
(* the activating device had planned has its new row; and a profile is     *)
(* switched only to an active account, its original state kept.            *)
MigrationComplete ==
    Migrate!TypeOK /\ Migrate!ActiveIsComplete /\ Migrate!SwitchedSafely

(* No conversion changes a new row that exists (edits, tombstones and pins *)
(* included), the account never goes back to an earlier format or from     *)
(* active to pending, and a change of the local records while a migration  *)
(* publishes survives it.                                                  *)
MigrationNeverUndoes ==
    /\ Migrate!ConversionNeverOverwrites
    /\ Migrate!NeverDowngraded
    /\ Migrate!LocalEditsSurvive
=============================================================================
