--------------------------- MODULE LegacyRotation ---------------------------
(***************************************************************************)
(* Changing the sync code of a version 2 account (sync/rotation.rs).  A    *)
(* command stages the new code in the keychain and saves a progress        *)
(* record; the background thread then drives it step by step: send local   *)
(* changes, mark and freeze the old account and its spaces, copy every     *)
(* space under new keys, delete the old spaces, switch.  The other devices *)
(* find the marker, stop, and rejoin with the new code.                    *)
(*                                                                         *)
(* Two actors work on one device.  Commands hold the lifecycle lock, so    *)
(* there is one at a time (cmd); the background thread never waits for it  *)
(* (bg), and the two meet under the core lock only.  The state is kept in  *)
(* memory and on disk: every save may fail, and the process may be         *)
(* restarted between any two steps.  The sync code lives in two keychain   *)
(* slots: cur (sync:mnemonic) and next (sync:mnemonic-next).               *)
(*                                                                         *)
(* What a device knows of the account and what it has not sent are one     *)
(* variable each: losing a save of theirs only repeats a pull or a push.   *)
(* Left out: deleting the account from the relay on leaving, the later     *)
(* retry of a code that leaving could not delete, read only formats, key   *)
(* slots, and changing the code of the new account in turn.                *)
(***************************************************************************)
EXTENDS Naturals, FiniteSets

CONSTANTS
    Device,
    Rotators,         \* devices whose user changes the sync code
    Leavers,          \* devices whose user may leave the account
    Space,
    First,            \* the spaces of the account at the start
    Edit,
    MakerOf,          \* the device that makes an edit
    SpaceOf,          \* the space whose file it changes
    MaxStarts,        \* changes of code one device may start
    MaxSaveFailures, MaxKeychainFailures, MaxRestarts,
    Old, Left,        \* the old account, and no account
    NoRot, NoCode

Code == Device \X (1..MaxStarts)
Account == {Old, Left} \cup Code
Step == {"prepared", "sent", "freezing", "copying", "deleting", "switching"}
Cancellable == {"prepared", "sent"}
Rotation == [code : Code, step : Step, plan : SUBSET Space, created : BOOLEAN,
             copied : SUBSET Space, deleted : SUBSET Space]
State == [account : Account, frozen : BOOLEAN, rot : Rotation \cup {NoRot}]

ASSUME LegacyRotationAssumption ==
    /\ Rotators \subseteq Device /\ Leavers \subseteq Device
    /\ First \subseteq Space
    /\ MakerOf \in [Edit -> Device] /\ SpaceOf \in [Edit -> Space]
    /\ {MaxStarts, MaxSaveFailures, MaxKeychainFailures, MaxRestarts} \subseteq Nat
    /\ Old # Left /\ NoCode \notin {Old, Left} /\ {Old, Left, NoCode} \cap Code = {}
    /\ NoRot \notin Rotation

VARIABLES
    \* the relay: the old account, its spaces, and what the new accounts hold
    markers, acctFrozen, listed, chain, rows, target, published,
    \* a device: state, keychain, account keys in memory, swap_pending
    mem, disk, cur, next, keys, swap,
    \* what it knows, what it has not sent, what became local files
    seen, fresh, dirty, kept,
    \* its two actors, and whether the round's generation is still current
    bg, cmd, live,
    \* history and bounds
    mark, shown, left, edited, starts, saveFailures, keychainFailures, restarts

relayVars == <<markers, acctFrozen, listed, chain, rows, target, published>>
keychain == <<cur, next>>
known == <<seen, fresh, dirty, kept>>
history == <<mark, shown, left, edited>>
bounds == <<starts, saveFailures, keychainFailures, restarts>>
vars == <<relayVars, mem, disk, keychain, keys, swap, known, bg, cmd, live, history, bounds>>

Idle == [at |-> "idle", code |-> NoCode, plan |-> {}]
At(place, c) == [Idle EXCEPT !.at = place, !.code = c]

Put(f, d, v) == [f EXCEPT ![d] = v]

(* save_core: memory changes, the file may keep what it had (unsaved).     *)
Save(d, m) ==
    /\ mem' = Put(mem, d, m)
    /\ \/ disk' = Put(disk, d, m) /\ UNCHANGED saveFailures
       \/ /\ saveFailures < MaxSaveFailures
          /\ saveFailures' = saveFailures + 1
          /\ UNCHANGED disk

WasSaved(d) == disk'[d] = mem'[d]

Rot(d) == mem[d].rot
Rotating(d) == Rot(d) # NoRot
StepOf(d) == IF Rotating(d) THEN Rot(d).step ELSE "none"

(* update_rotation *)
SaveStep(d, step) == Save(d, [mem[d] EXCEPT !.rot.step = step])

(* account_ready *)
AccountReady(d) ==
    mem[d].account = Old /\ keys[d] /\ ~mem[d].frozen /\ ~Rotating(d)

(***************************************************************************)
(* sync_once: nothing is sent from a state that is not on disk yet.        *)
(***************************************************************************)
Resave(d) ==
    /\ bg[d] = Idle /\ mem[d] # disk[d]
    /\ disk' = Put(disk, d, mem[d])
    /\ UNCHANGED <<relayVars, mem, keychain, keys, swap, known, bg, cmd, live, history, bounds>>

Ready(d) ==
    /\ bg[d] = Idle /\ mem[d] = disk[d]
    /\ mem[d].account # Left /\ keys[d] /\ ~mem[d].frozen

(* Mutant of Driving: a step is taken on a progress record that only       *)
(* memory holds.                                                           *)
DrivingUnsaved(d, step) ==
    /\ bg[d] = Idle /\ mem[d].account # Left /\ keys[d] /\ ~mem[d].frozen
    /\ StepOf(d) = step

Driving(d, step) == Ready(d) /\ StepOf(d) = step

(***************************************************************************)
(* An ordinary round on the old account: pull it first, then send.         *)
(***************************************************************************)
InRound(d) == Ready(d) /\ mem[d].account = Old /\ StepOf(d) \in {"none", "prepared"}

PullAccount(d) ==
    /\ InRound(d) /\ markers = {}
    /\ seen' = Put(seen, d, seen[d] \cup listed)
    /\ bg' = Put(bg, d, At("push", NoCode))
    /\ live' = Put(live, d, TRUE)
    /\ UNCHANGED <<relayVars, mem, disk, keychain, keys, swap, fresh, dirty, kept, cmd, history, bounds>>

(* Another device's marker: this device is blocked until its user enters   *)
(* the new code, or gives its own change up.                               *)
SeeMarkers(d) ==
    /\ InRound(d) /\ markers # {}
    /\ IF Rotating(d)
       THEN /\ bg' = Put(bg, d, At("yield", NoCode))
            /\ UNCHANGED <<mem, disk, saveFailures>>
       ELSE /\ Save(d, [mem[d] EXCEPT !.frozen = TRUE])
            /\ UNCHANGED bg
    /\ UNCHANGED <<relayVars, keychain, keys, swap, known, cmd, live, history,
                   starts, keychainFailures, restarts>>

(* frozen_out: the relay refused an upload because the chain is frozen.    *)
FrozenOut(d) ==
    /\ IF Rotating(d)
       THEN StepOf(d) = "prepared" /\ SaveStep(d, "sent")
       ELSE Save(d, [mem[d] EXCEPT !.frozen = TRUE])
    /\ bg' = Put(bg, d, Idle)
    /\ UNCHANGED <<relayVars, known>>

Pushing(d) == bg[d].at = "push" /\ live[d]

PushAccountRows(d) ==
    /\ Pushing(d) /\ fresh[d] # {}
    /\ \/ acctFrozen /\ FrozenOut(d)
       \/ /\ ~acctFrozen
          /\ listed' = listed \cup fresh[d]
          /\ fresh' = Put(fresh, d, {})
          /\ UNCHANGED <<markers, acctFrozen, chain, rows, target, published,
                         seen, dirty, kept, mem, disk, bg, saveFailures>>
    /\ UNCHANGED <<keychain, keys, swap, cmd, live, history, starts, keychainFailures, restarts>>

PushEdit(d, e) ==
    /\ Pushing(d) /\ e \in dirty[d]
    /\ \/ chain[SpaceOf[e]] = "frozen" /\ FrozenOut(d)
       \/ /\ chain[SpaceOf[e]] = "open"
          /\ rows' = Put(rows, SpaceOf[e], rows[SpaceOf[e]] \cup {e})
          /\ dirty' = Put(dirty, d, dirty[d] \ {e})
          /\ UNCHANGED <<markers, acctFrozen, listed, chain, target, published,
                         seen, fresh, kept, mem, disk, bg, saveFailures>>
    /\ UNCHANGED <<keychain, keys, swap, cmd, live, history, starts, keychainFailures, restarts>>

(* has_dirty: what is left for a chain that is gone holds nothing up.      *)
HasDirty(d) ==
    fresh[d] # {} \/ \E e \in dirty[d] : chain[SpaceOf[e]] # "gone"

(* The round ends, at its last step or at any error; a change of code goes *)
(* on when the device has nothing left to send.                            *)
EndRound(d) ==
    /\ bg[d].at = "push"
    /\ bg' = Put(bg, d, Idle)
    /\ \/ UNCHANGED <<mem, disk, saveFailures>>
       \/ /\ live[d] /\ StepOf(d) = "prepared" /\ ~HasDirty(d)
          /\ SaveStep(d, "sent")
    /\ UNCHANGED <<relayVars, keychain, keys, swap, known, cmd, live, history,
                   starts, keychainFailures, restarts>>

(* Mutant of CheckCode: the code is not looked for before the freeze.      *)
CheckCodeNot(d) ==
    /\ Driving(d, "sent")
    /\ bg' = Put(bg, d, At("enter", NoCode))
    /\ UNCHANGED <<relayVars, mem, disk, keychain, keys, swap, known, cmd, live, history, bounds>>

(***************************************************************************)
(* begin_freezing: read the staged code while the change can still be      *)
(* cancelled, then save the step that ends that, under the core lock.      *)
(***************************************************************************)
CheckCode(d) ==
    /\ Driving(d, "sent") /\ next[d] = Rot(d).code
    /\ bg' = Put(bg, d, At("enter", NoCode))
    /\ UNCHANGED <<relayVars, mem, disk, keychain, keys, swap, known, cmd, live, history, bounds>>

EnterFreezing(d) ==
    /\ bg[d].at = "enter"
    /\ bg' = Put(bg, d, Idle)
    /\ IF StepOf(d) = "sent" THEN SaveStep(d, "freezing")
                            ELSE UNCHANGED <<mem, disk, saveFailures>>
    /\ UNCHANGED <<relayVars, keychain, keys, swap, known, cmd, live, history,
                   starts, keychainFailures, restarts>>

(***************************************************************************)
(* freeze: the marker, the account, each space the frozen account lists.   *)
(***************************************************************************)
PushMarker(d) ==
    /\ Driving(d, "freezing") /\ ~acctFrozen /\ d \notin markers
    /\ markers' = markers \cup {d}
    /\ mark' = Put(mark, d, Rot(d).code)
    /\ UNCHANGED <<acctFrozen, listed, chain, rows, target, published, mem, disk,
                   keychain, keys, swap, known, bg, cmd, live, shown, left, edited, bounds>>

(* Mutant of LoseRace: a resumed freeze takes its own for another's.       *)
LoseRaceOwn(d) ==
    /\ Driving(d, "freezing") /\ acctFrozen
    /\ bg' = Put(bg, d, At("yield", NoCode))
    /\ UNCHANGED <<relayVars, mem, disk, keychain, keys, swap, known, cmd, live, history, bounds>>

(* The marker was refused and it is another device's freeze: yield.        *)
LoseRace(d) ==
    /\ Driving(d, "freezing") /\ acctFrozen /\ d \notin markers
    /\ bg' = Put(bg, d, At("yield", NoCode))
    /\ UNCHANGED <<relayVars, mem, disk, keychain, keys, swap, known, cmd, live, history, bounds>>

FreezeAccount(d) ==
    /\ Driving(d, "freezing") /\ d \in markers /\ ~acctFrozen
    /\ acctFrozen' = TRUE
    /\ UNCHANGED <<markers, listed, chain, rows, target, published, mem, disk, keychain,
                   keys, swap, known, bg, cmd, live, history, bounds>>

FreezeSpace(d, s) ==
    /\ Driving(d, "freezing") /\ d \in markers /\ acctFrozen
    /\ s \in listed /\ chain[s] = "open"
    /\ chain' = Put(chain, s, "frozen")
    /\ UNCHANGED <<markers, acctFrozen, listed, rows, target, published, mem, disk,
                   keychain, keys, swap, known, bg, cmd, live, history, bounds>>

(* Mutant of EnterCopying: only the spaces planned at the start are        *)
(* frozen before the copy.                                                 *)
EnterCopyingPlanned(d) ==
    /\ Driving(d, "freezing") /\ d \in markers /\ acctFrozen
    /\ \A s \in Rot(d).plan : chain[s] # "open"
    /\ SaveStep(d, "copying")
    /\ UNCHANGED <<relayVars, keychain, keys, swap, known, bg, cmd, live, history,
                   starts, keychainFailures, restarts>>

EnterCopying(d) ==
    /\ Driving(d, "freezing") /\ d \in markers /\ acctFrozen
    /\ \A s \in listed : chain[s] # "open"
    /\ SaveStep(d, "copying")
    /\ UNCHANGED <<relayVars, keychain, keys, swap, known, bg, cmd, live, history,
                   starts, keychainFailures, restarts>>

(* yield_to_other_rotation: no generation is compared; the staged code is  *)
(* deleted after the locks are released, and only when the save succeeded. *)
Yield(d) ==
    /\ bg[d].at = "yield"
    /\ Save(d, [mem[d] EXCEPT !.rot = NoRot, !.frozen = (mem[d].account # Left)])
    /\ bg' = Put(bg, d, IF WasSaved(d) THEN At("unstage", NoCode) ELSE Idle)
    /\ live' = Put(live, d, FALSE)
    /\ UNCHANGED <<relayVars, keychain, keys, swap, known, cmd, history,
                   starts, keychainFailures, restarts>>

(* Deleting the staged code: nobody waits for it or tries it again.        *)
DeleteStaged(d) ==
    \/ next' = Put(next, d, NoCode) /\ UNCHANGED keychainFailures
    \/ /\ keychainFailures < MaxKeychainFailures
       /\ keychainFailures' = keychainFailures + 1
       /\ UNCHANGED next

Unstage(d) ==
    /\ bg[d].at = "unstage"
    /\ bg' = Put(bg, d, Idle)
    /\ DeleteStaged(d)
    /\ UNCHANGED <<relayVars, mem, disk, cur, keys, swap, known, cmd, live, history,
                   starts, saveFailures, restarts>>

(***************************************************************************)
(* copy                                                                    *)
(***************************************************************************)
Copying(d) == Driving(d, "copying") /\ next[d] = Rot(d).code

(* Places for spaces created after the change began, then the new chains.  *)
CreateChains(d) ==
    /\ Copying(d) /\ ~Rot(d).created
    /\ Save(d, [mem[d] EXCEPT !.rot.plan = @ \cup listed, !.rot.created = TRUE])
    /\ UNCHANGED <<relayVars, keychain, keys, swap, known, bg, cmd, live, history,
                   starts, keychainFailures, restarts>>

(* A space whose chain is gone has nothing to copy.                        *)
CopySpace(d, s) ==
    /\ Copying(d) /\ Rot(d).created
    /\ s \in listed \ Rot(d).copied
    /\ target' = [target EXCEPT ![Rot(d).code][s] =
                      @ \cup (IF chain[s] = "gone" THEN {} ELSE rows[s])]
    /\ Save(d, [mem[d] EXCEPT !.rot.copied = @ \cup {s}])
    /\ UNCHANGED <<markers, acctFrozen, listed, chain, rows, published, keychain, keys,
                   swap, known, bg, cmd, live, history, starts, keychainFailures, restarts>>

PushNewAccount(d) ==
    /\ Copying(d) /\ Rot(d).created /\ listed \subseteq Rot(d).copied
    /\ published' = Put(published, Rot(d).code, listed)
    /\ SaveStep(d, "deleting")
    /\ UNCHANGED <<markers, acctFrozen, listed, chain, rows, target, keychain, keys,
                   swap, known, bg, cmd, live, history, starts, keychainFailures, restarts>>

(* Mutant of Concurrent: another device's marker is not looked for.        *)
ConcurrentNever(d) == FALSE

(***************************************************************************)
(* delete_old: not while another device marked the same account.           *)
(***************************************************************************)
Concurrent(d) == markers \ {d} # {}

DeleteSpace(d, s) ==
    /\ Driving(d, "deleting") /\ ~Concurrent(d)
    /\ s \in Rot(d).plan \ Rot(d).deleted
    /\ chain' = Put(chain, s, "gone")
    /\ Save(d, [mem[d] EXCEPT !.rot.deleted = @ \cup {s}])
    /\ UNCHANGED <<markers, acctFrozen, listed, rows, target, published, keychain, keys,
                   swap, known, bg, cmd, live, history, starts, keychainFailures, restarts>>

EnterSwitching(d) ==
    /\ Driving(d, "deleting")
    /\ Concurrent(d) \/ Rot(d).plan \subseteq Rot(d).deleted
    /\ SaveStep(d, "switching")
    /\ UNCHANGED <<relayVars, keychain, keys, swap, known, bg, cmd, live, history,
                   starts, keychainFailures, restarts>>

(***************************************************************************)
(* install_new_account, for the switch and for a device that rejoins: the  *)
(* files of spaces the new account does not continue become local files.   *)
(***************************************************************************)
Own(d) == {e \in edited : MakerOf[e] = d}

(* Mutant of Install: the progress record stays behind.                    *)
InstallKeepsChange(d, c, mapping) ==
    LET lost == {e \in Own(d) : SpaceOf[e] \in seen[d] \ mapping} IN
    /\ Save(d, [mem[d] EXCEPT !.account = c, !.frozen = FALSE])
    /\ kept' = Put(kept, d, kept[d] \cup lost)
    /\ dirty' = Put(dirty, d, dirty[d] \ lost)
    /\ seen' = Put(seen, d, seen[d] \cap mapping)
    /\ fresh' = Put(fresh, d, {})
    /\ keys' = Put(keys, d, TRUE)
    /\ live' = Put(live, d, FALSE)

(* Mutant of Install: a device that rejoins stays blocked.                 *)
InstallBlocked(d, c, mapping) ==
    LET lost == {e \in Own(d) : SpaceOf[e] \in seen[d] \ mapping} IN
    /\ Save(d, [mem[d] EXCEPT !.account = c, !.rot = NoRot])
    /\ kept' = Put(kept, d, kept[d] \cup lost)
    /\ dirty' = Put(dirty, d, dirty[d] \ lost)
    /\ seen' = Put(seen, d, seen[d] \cap mapping)
    /\ fresh' = Put(fresh, d, {})
    /\ keys' = Put(keys, d, TRUE)
    /\ live' = Put(live, d, FALSE)

Install(d, c, mapping) ==
    LET lost == {e \in Own(d) : SpaceOf[e] \in seen[d] \ mapping} IN
    /\ Save(d, [account |-> c, frozen |-> FALSE, rot |-> NoRot])
    /\ kept' = Put(kept, d, kept[d] \cup lost)
    /\ dirty' = Put(dirty, d, dirty[d] \ lost)
    /\ seen' = Put(seen, d, seen[d] \cap mapping)
    /\ fresh' = Put(fresh, d, {})
    /\ keys' = Put(keys, d, TRUE)
    /\ live' = Put(live, d, FALSE)

Switch(d) ==
    /\ Driving(d, "switching") /\ next[d] = Rot(d).code
    /\ Install(d, Rot(d).code, Rot(d).copied)
    /\ bg' = Put(bg, d, IF WasSaved(d) THEN At("promote", Rot(d).code) ELSE Idle)
    /\ shown' = shown \cup {Rot(d).code}
    /\ UNCHANGED <<relayVars, keychain, swap, cmd, mark, left, edited,
                   starts, keychainFailures, restarts>>

(* The keychain half: the new code takes the old one's place, or stays     *)
(* staged and is tried again (swap_pending).                               *)
SetCode(d, c) ==
    \/ /\ cur' = Put(cur, d, c) /\ next' = Put(next, d, NoCode)
       /\ UNCHANGED keychainFailures
    \/ /\ keychainFailures < MaxKeychainFailures
       /\ keychainFailures' = keychainFailures + 1
       /\ UNCHANGED keychain

Promote(d) ==
    /\ \/ /\ bg[d].at = "promote"
          /\ SetCode(d, bg[d].code)
          /\ bg' = Put(bg, d, Idle) /\ UNCHANGED cmd
       \/ /\ cmd[d].at = "promote"
          /\ SetCode(d, cmd[d].code)
          /\ cmd' = Put(cmd, d, Idle) /\ UNCHANGED bg
    /\ swap' = Put(swap, d, swap[d] \/ UNCHANGED keychain)
    /\ UNCHANGED <<relayVars, mem, disk, keys, known, live, history,
                   starts, saveFailures, restarts>>

(* retry_pending_swap: try_lock of the lifecycle lock, at a round's end.   *)
RetrySwap(d) ==
    /\ swap[d] /\ bg[d] = Idle /\ cmd[d] = Idle
    /\ IF next[d] = mem[d].account
       THEN SetCode(d, next[d]) /\ swap' = Put(swap, d, UNCHANGED keychain)
       ELSE swap' = Put(swap, d, FALSE) /\ UNCHANGED <<keychain, keychainFailures>>
    /\ UNCHANGED <<relayVars, mem, disk, keys, known, bg, cmd, live, history,
                   starts, saveFailures, restarts>>

(* A round on the new account sends what the freeze had held back.         *)
PushToNew(d, e) ==
    /\ Ready(d) /\ mem[d].account \in Code /\ e \in dirty[d]
    /\ target' = [target EXCEPT ![mem[d].account][SpaceOf[e]] = @ \cup {e}]
    /\ dirty' = Put(dirty, d, dirty[d] \ {e})
    /\ UNCHANGED <<markers, acctFrozen, listed, chain, rows, published, mem, disk, keychain,
                   keys, swap, seen, fresh, kept, bg, cmd, live, history, bounds>>

(***************************************************************************)
(* Commands.                                                               *)
(***************************************************************************)
NewCode(d) == <<d, starts[d] + 1>>

(* start_rotation: stage the code, then record the change if the account   *)
(* is still ready.                                                         *)
StartStage(d) ==
    /\ d \in Rotators /\ cmd[d] = Idle /\ starts[d] < MaxStarts
    /\ AccountReady(d)
    /\ ~(next[d] = mem[d].account /\ cur[d] # mem[d].account)
    /\ starts' = [starts EXCEPT ![d] = @ + 1]
    /\ next' = Put(next, d, NewCode(d))
    /\ cmd' = Put(cmd, d, [at |-> "start", code |-> NewCode(d), plan |-> seen[d]])
    /\ UNCHANGED <<relayVars, mem, disk, cur, keys, swap, known, bg, live, history,
                   saveFailures, keychainFailures, restarts>>

StartRecord(d) ==
    /\ cmd[d].at = "start"
    /\ cmd' = Put(cmd, d, Idle)
    /\ IF AccountReady(d)
       THEN /\ Save(d, [mem[d] EXCEPT !.rot =
                   [code |-> cmd[d].code, step |-> "prepared", plan |-> cmd[d].plan,
                    created |-> FALSE, copied |-> {}, deleted |-> {}]])
            /\ live' = Put(live, d, FALSE)
            /\ UNCHANGED <<next, keychainFailures>>
       ELSE /\ DeleteStaged(d)
            /\ UNCHANGED <<mem, disk, live, saveFailures>>
    /\ UNCHANGED <<relayVars, cur, keys, swap, known, bg, history, starts, restarts>>

(* cancel_rotation: the staged code goes once the cancelled state is saved. *)
Cancel(d) ==
    /\ cmd[d] = Idle /\ StepOf(d) \in Cancellable
    /\ Save(d, [mem[d] EXCEPT !.rot = NoRot])
    /\ live' = Put(live, d, FALSE)
    /\ cmd' = Put(cmd, d, IF WasSaved(d) THEN At("cancelled", NoCode) ELSE Idle)
    /\ UNCHANGED <<relayVars, keychain, keys, swap, known, bg, history,
                   starts, keychainFailures, restarts>>

(* leave_account: decide_rotation under the core lock, before anything     *)
(* else: cancel, refuse, or let go a change whose code cannot be found.    *)
LeaveDecide(d) ==
    /\ d \in Leavers /\ cmd[d] = Idle /\ mem[d].account # Left
    /\ Rotating(d) => StepOf(d) \in Cancellable \/ next[d] # Rot(d).code
    /\ IF StepOf(d) \in Cancellable
       THEN /\ Save(d, [mem[d] EXCEPT !.rot = NoRot])
            /\ live' = Put(live, d, FALSE)
            /\ cmd' = Put(cmd, d, At("unstage", NoCode))
       ELSE /\ cmd' = Put(cmd, d, At("leave", NoCode))
            /\ UNCHANGED <<mem, disk, live, saveFailures>>
    /\ UNCHANGED <<relayVars, keychain, keys, swap, known, bg, history,
                   starts, keychainFailures, restarts>>

(* The staged code of a cancelled change is deleted.                       *)
CommandUnstage(d) ==
    /\ cmd[d].at \in {"cancelled", "unstage"}
    /\ DeleteStaged(d)
    /\ cmd' = Put(cmd, d, IF cmd[d].at = "unstage" THEN At("leave", NoCode) ELSE Idle)
    /\ UNCHANGED <<relayVars, mem, disk, cur, keys, swap, known, bg, live, history,
                   starts, saveFailures, restarts>>

(* keep_files_local failed: the device stays, a change it had cancelled    *)
(* stays cancelled.                                                        *)
LeaveRefused(d) ==
    /\ cmd[d].at = "leave"
    /\ cmd' = Put(cmd, d, Idle)
    /\ UNCHANGED <<relayVars, mem, disk, keychain, keys, swap, known, bg, live, history, bounds>>

(* The files become local files and the account leaves the state; a failed *)
(* save does not stop it.                                                  *)
LeaveClear(d) ==
    /\ cmd[d].at = "leave"
    /\ Save(d, [account |-> Left, frozen |-> FALSE, rot |-> NoRot])
    /\ keys' = Put(keys, d, FALSE)
    /\ kept' = Put(kept, d, Own(d))
    /\ dirty' = Put(dirty, d, {}) /\ fresh' = Put(fresh, d, {}) /\ seen' = Put(seen, d, {})
    /\ live' = Put(live, d, FALSE)
    /\ left' = left \cup {d}
    /\ cmd' = Put(cmd, d, At("forget", NoCode))
    /\ UNCHANGED <<relayVars, keychain, swap, bg, mark, shown, edited,
                   starts, keychainFailures, restarts>>

(* Both codes are deleted last; one that cannot be stays in the keychain.  *)
LeaveForget(d) ==
    /\ cmd[d].at = "forget"
    /\ cmd' = Put(cmd, d, Idle)
    /\ \/ /\ next' = Put(next, d, NoCode) /\ cur' = Put(cur, d, NoCode)
          /\ UNCHANGED keychainFailures
       \/ /\ keychainFailures < MaxKeychainFailures
          /\ keychainFailures' = keychainFailures + 1
          /\ next' \in {next, Put(next, d, NoCode)} /\ cur' \in {cur, Put(cur, d, NoCode)}
    /\ UNCHANGED <<relayVars, mem, disk, keys, swap, known, bg, live, history,
                   starts, saveFailures, restarts>>

(* Mutant of RejoinStage: the entered code is not staged.                  *)
RejoinStageNot(d, c) ==
    /\ cmd[d] = Idle /\ mem[d].frozen /\ c \in shown
    /\ seen[d] = {} \/ seen[d] \cap published[c] # {}
    /\ cmd' = Put(cmd, d, At("rejoin", c))
    /\ UNCHANGED <<relayVars, mem, disk, keychain, keys, swap, known, bg, live, history, bounds>>

(* rejoin_account: the user enters a code another device has shown.  The   *)
(* account must continue a space of this device, if it has one.            *)
RejoinStage(d, c) ==
    /\ cmd[d] = Idle /\ mem[d].frozen /\ c \in shown
    /\ seen[d] = {} \/ seen[d] \cap published[c] # {}
    /\ next' = Put(next, d, c)
    /\ cmd' = Put(cmd, d, At("rejoin", c))
    /\ UNCHANGED <<relayVars, mem, disk, cur, keys, swap, known, bg, live, history, bounds>>

Rejoin(d) ==
    /\ cmd[d].at = "rejoin"
    /\ Install(d, cmd[d].code, published[cmd[d].code])
    /\ cmd' = Put(cmd, d, IF WasSaved(d) THEN At("promote", cmd[d].code) ELSE Idle)
    /\ UNCHANGED <<relayVars, keychain, swap, bg, history, starts, keychainFailures, restarts>>

(***************************************************************************)
(* The user edits files and creates spaces; the process is restarted.      *)
(***************************************************************************)
MakeEdit(d, e) ==
    /\ e \notin edited /\ MakerOf[e] = d
    /\ mem[d].account = Old /\ SpaceOf[e] \in seen[d]
    /\ edited' = edited \cup {e}
    /\ dirty' = Put(dirty, d, dirty[d] \cup {e})
    /\ UNCHANGED <<relayVars, mem, disk, keychain, keys, swap, seen, fresh, kept, bg, cmd,
                   live, mark, shown, left, bounds>>

(* try_create_space: the chain first, its account rows in the next round.  *)
CreateSpace(d, s) ==
    /\ AccountReady(d) /\ chain[s] = "none"
    /\ chain' = Put(chain, s, "open")
    /\ seen' = Put(seen, d, seen[d] \cup {s})
    /\ fresh' = Put(fresh, d, fresh[d] \cup {s})
    /\ live' = Put(live, d, FALSE)
    /\ UNCHANGED <<markers, acctFrozen, listed, rows, target, published, mem, disk, keychain,
                   keys, swap, dirty, kept, bg, cmd, history, bounds>>

(* startup: the state on disk, and the keys the keychain still gives for   *)
(* it (finish_interrupted_switch).                                         *)
Restart(d) ==
    LET account == disk[d].account IN
    /\ restarts < MaxRestarts /\ restarts' = restarts + 1
    /\ mem' = Put(mem, d, disk[d])
    /\ bg' = Put(bg, d, Idle) /\ cmd' = Put(cmd, d, Idle) /\ live' = Put(live, d, FALSE)
    /\ keys' = Put(keys, d, account # Left /\ account \in {cur[d], next[d]})
    /\ IF account \notin {Left, cur[d]} /\ next[d] = account
       THEN SetCode(d, next[d]) /\ swap' = Put(swap, d, UNCHANGED keychain)
       ELSE swap' = Put(swap, d, FALSE) /\ UNCHANGED <<keychain, keychainFailures>>
    /\ UNCHANGED <<relayVars, disk, known, history, starts, saveFailures>>

(***************************************************************************)
Background(d) ==
    \/ Resave(d) \/ PullAccount(d) \/ SeeMarkers(d) \/ PushAccountRows(d)
    \/ \E e \in Edit : PushEdit(d, e) \/ PushToNew(d, e)
    \/ EndRound(d) \/ CheckCode(d) \/ EnterFreezing(d)
    \/ PushMarker(d) \/ LoseRace(d) \/ FreezeAccount(d)
    \/ \E s \in Space : FreezeSpace(d, s) \/ CopySpace(d, s) \/ DeleteSpace(d, s)
    \/ EnterCopying(d) \/ Yield(d) \/ Unstage(d)
    \/ CreateChains(d) \/ PushNewAccount(d) \/ EnterSwitching(d) \/ Switch(d)
    \/ RetrySwap(d)

(* The rest of a command that has begun.                                   *)
Command(d) ==
    \/ StartRecord(d) \/ CommandUnstage(d)
    \/ LeaveClear(d) \/ LeaveRefused(d) \/ LeaveForget(d) \/ Rejoin(d) \/ Promote(d)

User(d) ==
    \/ StartStage(d) \/ Cancel(d) \/ LeaveDecide(d)
    \/ \E e \in Edit : MakeEdit(d, e)
    \/ \E s \in Space : CreateSpace(d, s)
    \/ \E c \in Code : RejoinStage(d, c)

Init ==
    /\ markers = {} /\ acctFrozen = FALSE /\ listed = First
    /\ chain = [s \in Space |-> IF s \in First THEN "open" ELSE "none"]
    /\ rows = [s \in Space |-> {}]
    /\ target = [c \in Code |-> [s \in Space |-> {}]]
    /\ published = [c \in Code |-> {}]
    /\ mem = [d \in Device |-> [account |-> Old, frozen |-> FALSE, rot |-> NoRot]]
    /\ disk = mem
    /\ cur = [d \in Device |-> Old] /\ next = [d \in Device |-> NoCode]
    /\ keys = [d \in Device |-> TRUE] /\ swap = [d \in Device |-> FALSE]
    /\ seen = [d \in Device |-> First]
    /\ fresh = [d \in Device |-> {}] /\ dirty = fresh /\ kept = fresh
    /\ bg = [d \in Device |-> Idle] /\ cmd = bg
    /\ live = [d \in Device |-> FALSE]
    /\ mark = next /\ shown = {} /\ left = {} /\ edited = {}
    /\ starts = [d \in Device |-> 0]
    /\ saveFailures = 0 /\ keychainFailures = 0 /\ restarts = 0

Next == \E d \in Device : Background(d) \/ Command(d) \/ User(d) \/ Restart(d)

Spec == Init /\ [][Next]_vars

(* The background thread keeps taking rounds, a command runs to its end,   *)
(* and a blocked device's user enters a new code that was shown.           *)
RoundStep(d) ==
    \/ PullAccount(d) \/ SeeMarkers(d) \/ EndRound(d) \/ CheckCode(d) \/ EnterFreezing(d)
    \/ PushMarker(d) \/ LoseRace(d) \/ FreezeAccount(d) \/ EnterCopying(d) \/ Yield(d)
    \/ Unstage(d) \/ CreateChains(d) \/ PushNewAccount(d) \/ EnterSwitching(d) \/ Switch(d)
    \/ \E s \in Space : FreezeSpace(d, s) \/ CopySpace(d, s) \/ DeleteSpace(d, s)

Progress(d) ==
    /\ WF_vars(RoundStep(d)) /\ WF_vars(Resave(d)) /\ WF_vars(Command(d))
    /\ WF_vars(\E c \in Code : RejoinStage(d, c))

FairSpec == Spec /\ \A d \in Device : Progress(d)

(***************************************************************************)
(* Properties.                                                             *)
(***************************************************************************)

BgTask ==
    [at : {"idle", "push", "yield", "unstage", "enter", "promote"},
     code : Code \cup {NoCode}, plan : {{}}]
CmdTask ==
    [at : {"idle", "start", "cancelled", "unstage", "leave", "forget", "rejoin", "promote"},
     code : Code \cup {NoCode}, plan : SUBSET Space]

(* Types, and a progress record belongs to the old account only.           *)
TypeOK ==
    /\ markers \subseteq Device /\ acctFrozen \in BOOLEAN /\ listed \subseteq Space
    /\ chain \in [Space -> {"none", "open", "frozen", "gone"}]
    /\ rows \in [Space -> SUBSET Edit]
    /\ target \in [Code -> [Space -> SUBSET Edit]] /\ published \in [Code -> SUBSET Space]
    /\ mem \in [Device -> State] /\ disk \in [Device -> State]
    /\ cur \in [Device -> {Old, NoCode} \cup Code]
    /\ next \in [Device -> Code \cup {NoCode}] /\ mark \in [Device -> Code \cup {NoCode}]
    /\ {keys, swap, live} \subseteq [Device -> BOOLEAN]
    /\ {seen, fresh} \subseteq [Device -> SUBSET Space]
    /\ {dirty, kept} \subseteq [Device -> SUBSET Edit]
    /\ bg \in [Device -> BgTask] /\ cmd \in [Device -> CmdTask]
    /\ shown \subseteq Code /\ left \subseteq Device /\ edited \subseteq Edit
    /\ starts \in [Device -> 0..MaxStarts] /\ saveFailures \in Nat
    /\ keychainFailures \in Nat /\ restarts \in Nat
    /\ \A d \in Device : Rotating(d) => mem[d].account = Old

(* Everything the old account accepted is in every account a device has    *)
(* switched or rejoined to, also when two devices changed the code at      *)
(* once; and an edit that was never accepted is still with its maker.      *)
NothingLost ==
    /\ \A d \in Device : mem[d].account \in Code =>
           /\ listed \subseteq published[mem[d].account]
           /\ \A s \in listed : rows[s] \subseteq target[mem[d].account][s]
    /\ \A e \in edited :
           \/ e \in dirty[MakerOf[e]] \cup kept[MakerOf[e]]
           \/ e \in rows[SpaceOf[e]]
           \/ \E c \in Code : e \in target[c][SpaceOf[e]]

(* Once a device's marker is on the old account its change of code can no  *)
(* longer be cancelled, neither now nor after a restart.                   *)
FrozenIsFinal ==
    \A d \in markers : \A s \in {mem[d], disk[d]} :
        s.account = Old => s.rot # NoRot /\ s.rot.step \notin Cancellable

(* The code every other device is waiting for is in the keychain of the    *)
(* device that marked the account, until that device leaves.               *)
CodeHeld ==
    \A d \in markers : d \in left \/ mark[d] \in {cur[d], next[d]}

(* What a change of code depends on is kept: once a marker shows that it   *)
(* happens, it goes on, and its code is there to be entered.               *)
CodesKept == TypeOK /\ FrozenIsFinal /\ CodeHeld

(* A device that did not leave has the keys of the account it is in: a     *)
(* restart, after whatever failed, finds their code in the keychain.       *)
KeysKept == \A d \in Device \ left : keys[d]

(* A device that marked the old account, or was blocked by another's       *)
(* change of code, ends up in a new account and is not blocked.            *)
RotationEnds ==
    \A d \in Device :
        (d \in markers \/ mem[d].frozen) ~> (mem[d].account \in Code /\ ~mem[d].frozen)
=============================================================================
