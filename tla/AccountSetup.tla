---------------------------- MODULE AccountSetup ----------------------------
(***************************************************************************)
(* Creating an account, joining it and creating a space in it: the pending *)
(* operations of sync/record_account.rs, which one resume_locked() carries *)
(* out step by step from a journal in the state file.  Meanwhile another   *)
(* device may rotate the sync code (the account chain is frozen) or a      *)
(* newer version may raise the account format.                             *)
(*                                                                         *)
(* One account, whose creator is Creator; the other devices join it with   *)
(* the code the user has seen.  Rows are the metadata, a row per device    *)
(* and a row per space; what is in them does not matter here.              *)
(***************************************************************************)
EXTENDS Naturals, FiniteSets

CONSTANTS
    Device,
    Creator,
    Space,
    Frozen,         \* may another device freeze the account chain?
    Future,         \* may a newer version raise the account format?
    MaxFaults       \* bound on failed steps, lost answers and crashes

Meta == "meta"
Row == {Meta} \cup Device \cup Space

(* What the module assumes of its constants. *)
SetupAssumption ==
    /\ IsFiniteSet(Device) /\ IsFiniteSet(Space)
    /\ Creator \in Device /\ Device \cap Space = {} /\ Meta \notin Device \cup Space
    /\ Frozen \in BOOLEAN /\ Future \in BOOLEAN /\ MaxFaults \in Nat

VARIABLES
    chain,          \* the account chain: [exists, rows, frozen, future]
    spaces,         \* the space chains that exist
    net,            \* pushes to the account whose sender has given up
    mem, disk,      \* per device: [rows, dirty, joined, blocked, op]
    saveBlocked,    \* core.save_blocked, per device
    keychain,       \* per device: [mnemonic, staged]
    shown,          \* create_account() has returned the code to the user
    pc,             \* what resume_locked() does next, per device
    seen,           \* history: the device has authenticated a newer format
    faults          \* counter for the bound

vars == <<chain, spaces, net, mem, disk, saveBlocked, keychain, shown, pc, seen, faults>>
relay == <<chain, spaces, net>>
local == <<mem, disk, saveBlocked>>

NoOp == [kind |-> "none"]

(* PendingAccountOperation: the prepared account is rows and dirty. *)
Op == [kind : {"create", "join", "space"}, phase : 0..4, space : Space \cup {"none"},
       rows : SUBSET Row, dirty : SUBSET Row, future : BOOLEAN]

(* PendingAccountPhase *)
Prepared == 0
RemoteCreated == 1
Publishing == 2
ActivationReady == 3
Activated == 4

Fresh == [rows |-> {}, dirty |-> {}, joined |-> FALSE, blocked |-> FALSE, op |-> NoOp]

op(d) == mem[d].op
Pending(d) == op(d) # NoOp

Init ==
    /\ chain = [exists |-> FALSE, rows |-> {}, frozen |-> FALSE, future |-> FALSE]
    /\ spaces = {} /\ net = {}
    /\ mem = [d \in Device |-> Fresh] /\ disk = mem
    /\ saveBlocked = [d \in Device |-> FALSE]
    /\ keychain = [d \in Device |-> [mnemonic |-> FALSE, staged |-> FALSE]]
    /\ shown = FALSE
    /\ pc = [d \in Device |-> "idle"]
    /\ seen = [d \in Device |-> FALSE]
    /\ faults = 0

Fault == faults < MaxFaults /\ faults' = faults + 1

Persist(d, state) == mem' = [mem EXCEPT ![d] = state] /\ disk' = [disk EXCEPT ![d] = state]

WithOp(d, next) == [mem[d] EXCEPT !.op = next]

(* The call ends; create_account() returns the code, whatever happened. *)
Return(d) ==
    /\ pc' = [pc EXCEPT ![d] = "idle"]
    /\ shown' = (shown \/ op(d).kind = "create")

Goto(d, where) == pc' = [pc EXCEPT ![d] = where] /\ UNCHANGED shown

(* save_pending(): the disk first, then the memory; else an error. *)
Saved(d, state, where) ==
    /\ \/ Persist(d, state) /\ Goto(d, where) /\ UNCHANGED faults
       \/ Fault /\ Return(d) /\ UNCHANGED <<mem, disk>>
    /\ UNCHANGED saveBlocked

(* replace_pending(accepted): memory keeps what the relay acknowledged     *)
(* although it could not be saved; the answer may also be lost.            *)
Replaced(d, next, where) ==
    /\ \/ Persist(d, WithOp(d, next)) /\ Goto(d, where) /\ UNCHANGED faults
       \/ Fault /\ Return(d) /\ mem' = [mem EXCEPT ![d] = WithOp(d, next)] /\ UNCHANGED disk
       \/ Fault /\ Return(d) /\ UNCHANGED <<mem, disk>>
    /\ UNCHANGED saveBlocked

(* observe_pending_gate() on the state that is saved: the refusal is       *)
(* remembered in the operation; if it cannot be, the device stops saving   *)
(* and thereby every shared operation.                                     *)
ObserveGate(d, saved, next) ==
    /\ Return(d)
    /\ \/ /\ Persist(d, [saved EXCEPT !.op = next, !.blocked = @ \/ saved.joined])
          /\ UNCHANGED <<saveBlocked, faults>>
       \/ /\ Fault
          /\ mem' = [mem EXCEPT ![d] = [saved EXCEPT !.blocked = TRUE]]
          /\ disk' = [disk EXCEPT ![d] = saved]
          /\ saveBlocked' = [saveBlocked EXCEPT ![d] = TRUE]
    /\ seen' = [seen EXCEPT ![d] = @ \/ next.future]

(* Mutant of GateOf: the creator's empty chain is not its own. *)
GateOfStrict(d) ==
    IF op(d).future \/ chain.future THEN "future"
    ELSE IF Meta \in chain.rows THEN "compatible" ELSE "other"

(* target_pull(): the gate of a full pull of the account; a chain that is  *)
(* still empty is the creator's own.                                       *)
GateOf(d) ==
    IF op(d).future \/ chain.future THEN "future"
    ELSE IF Meta \in chain.rows THEN "compatible"
    ELSE IF op(d).kind = "create" /\ chain.rows = {} THEN "compatible" ELSE "other"

(* target_pull() merges the answer: what the relay has is not dirty. *)
MergedOp(d) ==
    [op(d) EXCEPT !.rows = @ \cup chain.rows, !.dirty = @ \ chain.rows]

-----------------------------------------------------------------------------
NewOp(kind, phase, s, rows, dirty) ==
    [kind |-> kind, phase |-> phase, space |-> s, rows |-> rows, dirty |-> dirty,
     future |-> FALSE]

(* create_account(): ensure_empty(), the journal, then the operation. *)
CreateAccount(d) ==
    /\ pc[d] = "idle" /\ d = Creator /\ ~saveBlocked[d]
    /\ ~mem[d].joined /\ ~Pending(d) /\ ~chain.exists
    /\ Persist(d, WithOp(d, NewOp("create", Prepared, "none", {Meta, d}, {Meta, d})))
    /\ Goto(d, "stage")
    /\ UNCHANGED <<relay, saveBlocked, keychain, seen, faults>>

(* join_account() with the code: the account must be compatible. *)
JoinAccount(d) ==
    /\ pc[d] = "idle" /\ d # Creator /\ ~saveBlocked[d]
    /\ ~mem[d].joined /\ ~Pending(d)
    /\ shown /\ chain.exists /\ Meta \in chain.rows /\ ~chain.future
    /\ Persist(d, WithOp(d, NewOp("join", ActivationReady, "none",
                                  chain.rows \cup {d}, {d})))
    /\ Goto(d, "prove")
    /\ UNCHANGED <<relay, saveBlocked, keychain, seen, faults>>

(* create_space_with_slug(): a fresh compatible gate, ensure_shared(). *)
CreateSpace(d, s) ==
    /\ pc[d] = "idle" /\ ~saveBlocked[d] /\ ~Pending(d)
    /\ mem[d].joined /\ ~mem[d].blocked /\ ~chain.future
    /\ s \notin chain.rows \cup mem[d].rows
    /\ \A e \in Device : op(e).kind = "space" => op(e).space # s
    /\ LET base == [mem[d] EXCEPT !.rows = @ \cup chain.rows, !.dirty = @ \ chain.rows]
       IN  Persist(d, [base EXCEPT !.op = NewOp("space", Prepared, s,
                                                base.rows \cup {s}, base.dirty \cup {s})])
    /\ Goto(d, "gate")
    /\ UNCHANGED <<relay, saveBlocked, keychain, seen, faults>>

(* keys: the code is staged, or the user enters it again. *)
HasCode(d) ==
    \/ op(d).kind = "space" \/ op(d).phase = Activated
    \/ keychain[d].staged \/ shown

(* resume_pending(): preflight() saves what is only in memory. *)
Resume(d) ==
    /\ pc[d] = "idle" /\ Pending(d) /\ ~saveBlocked[d] /\ HasCode(d)
    /\ Saved(d, mem[d],
             IF op(d).phase = Activated THEN "clean"
             ELSE IF op(d).kind = "space" THEN "gate"
             ELSE IF op(d).kind = "join" \/ op(d).phase # Prepared \/ op(d).future
                  THEN "prove" ELSE "stage")
    /\ UNCHANGED <<relay, keychain, seen>>

AfterPull(d) ==
    CASE pc[d] = "prove" -> "stage"
      [] pc[d] = "pull" -> "push"
      [] pc[d] = "confirm" -> IF op(d).kind = "space" THEN "activate" ELSE "promote"

(* Mutant of TargetPull: a newer format is noted and the call goes on. *)
TargetPullContinues(d) ==
    /\ pc[d] \in {"prove", "pull", "confirm"}
    /\ Saved(d, WithOp(d, [MergedOp(d) EXCEPT !.future = @ \/ chain.future]), AfterPull(d))
    /\ seen' = [seen EXCEPT ![d] = @ \/ chain.future]
    /\ UNCHANGED <<relay, keychain>>

(* One of the three target_pull() calls, and the save after it. *)
TargetPull(d) ==
    /\ pc[d] \in {"prove", "pull", "confirm"}
    /\ IF GateOf(d) = "compatible"
       THEN Saved(d, WithOp(d, MergedOp(d)), AfterPull(d)) /\ UNCHANGED seen
       ELSE ObserveGate(d, mem[d], [op(d) EXCEPT !.future = (GateOf(d) = "future")])
    /\ UNCHANGED <<relay, keychain>>

(* Mutant of StageCode: the code is kept only once the account works. *)
StageCodeSkipped(d) ==
    /\ pc[d] = "stage"
    /\ Goto(d, IF op(d).kind = "create" /\ op(d).phase = Prepared THEN "create" ELSE "pull")
    /\ UNCHANGED <<relay, local, keychain, seen, faults>>

StageCode(d) ==
    /\ pc[d] = "stage"
    /\ keychain' = [keychain EXCEPT ![d].staged = TRUE]
    /\ Goto(d, IF op(d).kind = "create" /\ op(d).phase = Prepared THEN "create" ELSE "pull")
    /\ UNCHANGED <<relay, local, seen, faults>>

CreateChain(d) ==
    /\ pc[d] = "create"
    /\ chain' = [chain EXCEPT !.exists = TRUE]
    /\ Replaced(d, [op(d) EXCEPT !.phase = RemoteCreated], "pull")
    /\ UNCHANGED <<spaces, net, keychain, seen>>

(* fresh_account_gate() of a device in the account. *)
FreshGate(d, where) ==
    /\ IF chain.future
       THEN /\ Persist(d, [mem[d] EXCEPT !.blocked = TRUE])
            /\ seen' = [seen EXCEPT ![d] = TRUE]
            /\ Return(d)
       ELSE /\ Persist(d, [mem[d] EXCEPT !.rows = @ \cup chain.rows, !.dirty = @ \ chain.rows])
            /\ Goto(d, where) /\ UNCHANGED seen
    /\ UNCHANGED <<relay, saveBlocked, keychain, faults>>

SpaceGate(d) == pc[d] = "gate" /\ FreshGate(d, "create_space")

(* The operation's own row on top of the account as it is now. *)
Overlay(d) ==
    [op(d) EXCEPT !.rows = mem[d].rows \cup {op(d).space},
                  !.dirty = mem[d].dirty \cup (@ \cap {op(d).space}),
                  !.phase = RemoteCreated]

(* Mutant of CreateSpaceChain: the space is announced first. *)
CreateSpaceChainLater(d) ==
    /\ pc[d] = "create_space"
    /\ Replaced(d, Overlay(d), "pull")
    /\ UNCHANGED <<relay, keychain, seen>>

CreateSpaceChain(d) ==
    /\ pc[d] = "create_space"
    /\ spaces' = spaces \cup {op(d).space}
    /\ Replaced(d, Overlay(d), "pull")
    /\ UNCHANGED <<chain, net, keychain, seen>>

Published(d, dirty) == [op(d) EXCEPT !.dirty = dirty, !.phase = Publishing]

(* The dirty rows are pushed; they are few and fit one batch.  Rows are    *)
(* the device's own: only an earlier push of its own, arriving late, can   *)
(* make one conflict, which then stays dirty and ends the call.            *)
Push(d) ==
    /\ pc[d] = "push" /\ op(d).dirty # {} /\ ~chain.frozen
    /\ chain' = [chain EXCEPT !.rows = @ \cup op(d).dirty]
    /\ LET conflicts == op(d).dirty \cap chain.rows
           next == WithOp(d, Published(d, conflicts))
       IN  \/ /\ Persist(d, next) /\ UNCHANGED faults
              /\ IF conflicts = {} THEN Goto(d, "ready") ELSE Return(d)
           \/ /\ Fault /\ Return(d)
              /\ mem' = [mem EXCEPT ![d] = next] /\ UNCHANGED disk
    /\ UNCHANGED <<spaces, net, saveBlocked, keychain, seen>>

(* Mutant of PushFails: a push without an answer counts as accepted. *)
PushFailsAccepted(d) ==
    /\ pc[d] = "push" /\ op(d).dirty # {} /\ ~chain.frozen /\ Fault
    /\ Persist(d, WithOp(d, Published(d, {})))
    /\ Return(d)
    /\ UNCHANGED <<relay, saveBlocked, keychain, seen>>

(* No answer: the push was not applied, was applied, or will arrive later; *)
(* there are no receipts, and saving that may fail too.                    *)
PushFails(d) ==
    /\ pc[d] = "push" /\ op(d).dirty # {} /\ ~chain.frozen /\ Fault
    /\ \/ UNCHANGED <<chain, net>>
       \/ chain' = [chain EXCEPT !.rows = @ \cup op(d).dirty] /\ UNCHANGED net
       \/ net' = net \cup {op(d).dirty} /\ UNCHANGED chain
    /\ LET next == WithOp(d, Published(d, op(d).dirty))
       IN  /\ mem' = [mem EXCEPT ![d] = next]
           /\ disk' \in {disk, [disk EXCEPT ![d] = next]}
    /\ Return(d)
    /\ UNCHANGED <<spaces, saveBlocked, keychain, seen>>

(* A frozen chain takes no late push either. *)
LateDelivery ==
    /\ \E rows \in net :
          /\ chain' = [chain EXCEPT !.rows = IF chain.frozen THEN @ ELSE @ \cup rows]
          /\ net' = net \ {rows}
    /\ UNCHANGED <<spaces, local, keychain, shown, pc, seen, faults>>

PushNothing(d) ==
    /\ pc[d] = "push" /\ op(d).dirty = {}
    /\ Goto(d, "ready")
    /\ UNCHANGED <<relay, local, keychain, seen, faults>>

(* 409: the account is being rotated by another device.  The operation is  *)
(* saved before the refusal is.                                            *)
PushFrozen(d) ==
    /\ pc[d] = "push" /\ op(d).dirty # {} /\ chain.frozen
    /\ LET next == Published(d, op(d).dirty)
       IN  \/ ObserveGate(d, WithOp(d, next), next)
           \/ /\ Fault /\ Return(d)
              /\ mem' = [mem EXCEPT ![d] = WithOp(d, next)]
              /\ UNCHANGED <<disk, saveBlocked, seen>>
    /\ UNCHANGED <<relay, keychain>>

Ready(d) ==
    /\ pc[d] = "ready"
    /\ Saved(d, WithOp(d, [op(d) EXCEPT !.phase = ActivationReady]), "confirm")
    /\ UNCHANGED <<relay, keychain, seen>>

PromoteCode(d) ==
    /\ pc[d] = "promote"
    /\ keychain' = [keychain EXCEPT ![d].mnemonic = TRUE]
    /\ Goto(d, "activate")
    /\ UNCHANGED <<relay, local, seen, faults>>

(* Mutant of Activate: the operation is forgotten before its cleanup. *)
ActivateForgets(d) ==
    /\ pc[d] = "activate"
    /\ Saved(d, [rows |-> op(d).rows, dirty |-> op(d).dirty, joined |-> TRUE,
                 blocked |-> FALSE, op |-> NoOp], "unstage")
    /\ UNCHANGED <<relay, keychain, seen>>

(* The prepared account becomes the device's. *)
Activate(d) ==
    /\ pc[d] = "activate"
    /\ Saved(d, [rows |-> op(d).rows, dirty |-> op(d).dirty, joined |-> TRUE,
                 blocked |-> FALSE, op |-> [op(d) EXCEPT !.phase = Activated]], "unstage")
    /\ UNCHANGED <<relay, keychain, seen>>

(* A resume of an activated operation asks the gate before it cleans up. *)
CleanGate(d) == pc[d] = "clean" /\ FreshGate(d, "unstage")

Unstage(d) ==
    /\ pc[d] = "unstage"
    /\ keychain' = [keychain EXCEPT ![d].staged = FALSE]
    /\ Goto(d, "finish")
    /\ UNCHANGED <<relay, local, seen, faults>>

Finish(d) ==
    /\ pc[d] = "finish"
    /\ \/ Persist(d, [mem[d] EXCEPT !.op = NoOp, !.blocked = FALSE]) /\ UNCHANGED faults
       \/ Fault /\ UNCHANGED <<mem, disk>>
    /\ Return(d)
    /\ UNCHANGED <<relay, saveBlocked, keychain, seen>>

StepFails(d) ==
    /\ pc[d] # "idle" /\ Fault /\ Return(d)
    /\ UNCHANGED <<relay, local, keychain, seen>>

Crash(d) ==
    /\ Fault
    /\ mem' = [mem EXCEPT ![d] = disk[d]]
    /\ saveBlocked' = [saveBlocked EXCEPT ![d] = FALSE]
    /\ pc' = [pc EXCEPT ![d] = "idle"]
    /\ seen' = [seen EXCEPT ![d] = /\ @
                                   /\ \/ disk[d].blocked
                                      \/ disk[d].op # NoOp /\ disk[d].op.future]
    /\ UNCHANGED <<relay, disk, keychain, shown>>

(* What other devices do to the account. *)
FreezeAccount ==
    /\ Frozen /\ chain.exists /\ Meta \in chain.rows /\ ~chain.frozen
    /\ chain' = [chain EXCEPT !.frozen = TRUE]
    /\ UNCHANGED <<spaces, net, local, keychain, shown, pc, seen, faults>>

RaiseFormat ==
    /\ Future /\ chain.exists /\ Meta \in chain.rows /\ ~chain.frozen /\ ~chain.future
    /\ chain' = [chain EXCEPT !.future = TRUE]
    /\ UNCHANGED <<spaces, net, local, keychain, shown, pc, seen, faults>>

Step(d) ==
    \/ TargetPull(d) \/ StageCode(d) \/ CreateChain(d)
    \/ SpaceGate(d) \/ CreateSpaceChain(d)
    \/ Push(d) \/ PushNothing(d) \/ PushFrozen(d) \/ Ready(d)
    \/ PromoteCode(d) \/ Activate(d) \/ CleanGate(d) \/ Unstage(d) \/ Finish(d)

Next ==
    \/ \E d \in Device :
          \/ CreateAccount(d) \/ JoinAccount(d) \/ Resume(d) \/ Step(d)
          \/ \E s \in Space : CreateSpace(d, s)
          \/ PushFails(d) \/ StepFails(d) \/ Crash(d)
    \/ LateDelivery \/ FreezeAccount \/ RaiseFormat

Spec == Init /\ [][Next]_vars

(* A call runs to its end and the user resumes what is pending. *)
FairSpec == Spec /\ \A d \in Device : WF_vars(Step(d)) /\ WF_vars(Resume(d))

-----------------------------------------------------------------------------
TypeOK ==
    /\ chain \in [exists : BOOLEAN, rows : SUBSET Row, frozen : BOOLEAN, future : BOOLEAN]
    /\ spaces \subseteq Space /\ net \subseteq SUBSET Row
    /\ {mem, disk} \subseteq
          [Device -> [rows : SUBSET Row, dirty : SUBSET Row, joined : BOOLEAN,
                      blocked : BOOLEAN, op : Op \cup {NoOp}]]
    /\ saveBlocked \in [Device -> BOOLEAN] /\ seen \in [Device -> BOOLEAN]
    /\ keychain \in [Device -> [mnemonic : BOOLEAN, staged : BOOLEAN]]
    /\ shown \in BOOLEAN /\ faults \in 0..MaxFaults
    /\ \A d \in Device : pc[d] # "idle" => Pending(d)

(* An account that exists can be opened: its code is in the creator's      *)
(* keychain or with the user, and a device in the account has the code.    *)
AccountReachable ==
    /\ chain.exists => keychain[Creator].staged \/ keychain[Creator].mnemonic
    /\ \A d \in Device : disk[d].joined => keychain[d].mnemonic

(* A device is in the account only after it is listed there, and what it   *)
(* does not mean to upload is on the relay, also after a crash.            *)
JoinedMeansPublished ==
    \A d \in Device :
        /\ disk[d].joined => {Meta, d} \subseteq chain.rows
        /\ mem[d].rows \ mem[d].dirty \subseteq chain.rows
        /\ disk[d].rows \ disk[d].dirty \subseteq chain.rows
        /\ Pending(d) => op(d).rows \ op(d).dirty \subseteq chain.rows

(* A space that the account lists has a chain on the relay. *)
ListedSpaceExists == chain.rows \cap Space \subseteq spaces

(* Once the device has authenticated a newer format, no later step of it   *)
(* writes to the relay, to its current code or to its account.             *)
FutureStopsSetup ==
    [][\A d \in Device :
          seen[d] => /\ keychain'[d].mnemonic = keychain[d].mnemonic
                     /\ mem'[d].joined = mem[d].joined
                     /\ pc[d] \in {"push", "create", "create_space"} => UNCHANGED relay]_vars

(* An operation whose code is known completes, however often it failed,    *)
(* unless the account is being rotated or has a newer format.              *)
SetupCompletes ==
    \A d \in Device :
        (Pending(d) /\ HasCode(d)) ~> (~Pending(d) \/ chain.frozen \/ chain.future)
=============================================================================
