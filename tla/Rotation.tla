------------------------------ MODULE Rotation ------------------------------
(***************************************************************************)
(* Changing the sync code: sync/record_rotation.rs.  The device that       *)
(* rotates freezes the old account chain and every space chain listed in   *)
(* it, copies their rows to new chains under a new code, publishes an      *)
(* activation marker in the new account's metadata and switches over.      *)
(* A journal in the state file and three keychain entries let it resume    *)
(* after any failure.  Other devices go on writing to the old chains until *)
(* they are frozen; one that gets the new code may join the new account    *)
(* as soon as its marker is active.                                        *)
(*                                                                         *)
(* A write is an element of Write, and a chain is the set of the writes it *)
(* accepted: a later revision of a row is a further write.  The new space  *)
(* that takes over an old one goes by the same name.  Account formats      *)
(* (AccountGate) and storage budgets are not part of this module.          *)
(***************************************************************************)
EXTENDS Naturals, FiniteSets

CONSTANTS
    Write,          \* writes of the devices that still use the old code
    Space,          \* the spaces an account can have
    FirstSpace,     \* the one it has from the start
    BatchItems,     \* PUSH_BATCH_ITEMS
    Joins,          \* may a device join with the new code?
    MaxFaults       \* bound on failed steps, lost answers and crashes

Account == "account"
Meta == "meta"                  \* the metadata row of the new account
Joiner == "joiner"              \* the device row of a device that joins it
Chain == {Account} \cup Space

ASSUME RotationAssumption ==
    /\ IsFiniteSet(Write) /\ IsFiniteSet(Space)
    /\ FirstSpace \in Space /\ Write \cap Space = {}
    /\ {Account, Meta, Joiner} \cap (Write \cup Space) = {}
    /\ BatchItems \in Nat \ {0} /\ MaxFaults \in Nat /\ Joins \in BOOLEAN

VARIABLES
    old,            \* the old chains: [rows, frozen]
    new,            \* the new chains: [exists, rows]
    marker,         \* the migration marker in the new account's metadata
    net,            \* pushes to new chains whose sender has given up
    keychain,       \* [mnemonic, staged, archive]
    mem, disk,      \* the records state: [account, blocked, op]
    shown,          \* start_rotation() has returned the new code to the user
    pc,             \* what resume_locked() does next
    acked,          \* rows the push under way has a receipt for
    refused,        \* rows it was told conflict
    faults          \* counter for the bound

vars == <<old, new, marker, net, keychain, mem, disk, shown, pc, acked, refused, faults>>
relay == <<old, new, marker, net>>
local == <<mem, disk>>

NoOp == [step |-> "none"]
NoRows == [c \in Chain |-> {}]

(* The pending operation with its rotation plan; dirty are the target's    *)
(* rows without a receipt, meta is the marker meant for the new account.   *)
Op == [step : {"prepared", "freezing", "copying", "activating"},
       activated : BOOLEAN, frozen : SUBSET Chain, created : SUBSET Chain,
       source : [Chain -> SUBSET (Write \cup Space)],
       dirty : [Chain -> SUBSET (Write \cup Space \cup {Meta})],
       meta : {"publishing", "active"}]

op == mem.op
Pending == op # NoOp

(* The spaces an account's rows list. *)
SpacesOf(rows) == rows \cap Space

(* The marker is a row of the new account, the first of its kind in it. *)
NewAccountRows == new[Account].rows \cup (IF marker = "none" THEN {} ELSE {Meta})

Init ==
    /\ old = [c \in Chain |-> [rows |-> IF c = Account THEN {FirstSpace} ELSE {},
                               frozen |-> FALSE]]
    /\ new = [c \in Chain |-> [exists |-> FALSE, rows |-> {}]]
    /\ marker = "none" /\ net = {}
    /\ keychain = [mnemonic |-> "old", staged |-> FALSE, archive |-> FALSE]
    /\ mem = [account |-> "old", blocked |-> FALSE, op |-> NoOp]
    /\ disk = mem
    /\ shown = FALSE /\ pc = "idle" /\ faults = 0
    /\ acked = {} /\ refused = {}

Fault == faults < MaxFaults /\ faults' = faults + 1

Persist(state) == mem' = state /\ disk' = state

WithOp(next) == [mem EXCEPT !.op = next]

(* resume_locked() returns: an error, or the operation is done.  The call  *)
(* of start_rotation() hands the new code to the user either way.          *)
Return == pc' = "idle" /\ acked' = {} /\ refused' = {} /\ shown' = TRUE

Goto(where) == pc' = where /\ UNCHANGED <<acked, refused, shown>>

(* store(op, false): the disk first, then the memory; else an error. *)
Stored(next, where) ==
    \/ Persist(WithOp(next)) /\ Goto(where) /\ UNCHANGED faults
    \/ Fault /\ Return /\ UNCHANGED local

(* store(op, true) of what the relay has done: memory keeps it even if the *)
(* save fails; and the relay's answer can be lost.                         *)
Recorded(next, where) ==
    \/ Persist(WithOp(next)) /\ Goto(where) /\ UNCHANGED faults
    \/ Fault /\ Return /\ mem' = WithOp(next) /\ UNCHANGED disk
    \/ Fault /\ Return /\ UNCHANGED local

-----------------------------------------------------------------------------
(* source_full(): what the old chains hold now, the spaces being those the *)
(* account lists.                                                          *)
SourceFull ==
    [c \in Chain |-> IF c \in {Account} \cup SpacesOf(old[Account].rows)
                     THEN old[c].rows ELSE {}]

(* Mutant of TargetOK: a destination that holds anything is refused. *)
TargetOKIfEmpty(o) == NewAccountRows = {} \/ o.meta = "active"

(* target_proof(): the new account is empty or carries this operation's    *)
(* own marker, and holds nothing that was not planned.                     *)
TargetOK(o) ==
    /\ marker = "none" => NewAccountRows = {}
    /\ marker = "active" => o.meta = "active"
    /\ new[Account].rows \subseteq o.source[Account]

(* target_proof(): what the relay has needs no upload.  A metadata row     *)
(* that still carries the older marker stays dirty.                        *)
TargetSeen(o) ==
    [o EXCEPT !.dirty[Account] = @ \ (new[Account].rows \cup
                                      (IF marker = o.meta THEN {Meta} ELSE {}))]

(* space_proof(): the same for a space chain, after target_proof(). *)
SpaceSeen(o, s) == [TargetSeen(o) EXCEPT !.dirty[s] = @ \ new[s].rows]

(* prepare_targets(): every row of the source is to be uploaded. *)
TargetsOf(o) ==
    [o EXCEPT !.dirty = [c \in Chain |-> IF c = Account THEN o.source[c] \cup {Meta}
                                         ELSE o.source[c]]]

(* outgoing() lists rows by kind: devices and keys, the metadata, spaces.  *)
KindOrder(row) == IF row \in Space THEN 3 ELSE IF row = Meta THEN 2 ELSE 1

(* push_outgoing(): a batch is a prefix of what is left, of at most        *)
(* BatchItems rows.                                                        *)
Batches(rows) ==
    {b \in SUBSET rows :
        /\ b # {} /\ Cardinality(b) <= BatchItems
        /\ b = rows \/ Cardinality(b) = BatchItems
        /\ \A r \in b, q \in rows \ b : KindOrder(r) <= KindOrder(q)}

(* The codes a resume can use: keys_for() and source_code(). *)
NewCode == keychain.staged \/ shown
SourceCode == keychain.archive \/ keychain.mnemonic = "old"
HasKeys == IF op.activated THEN keychain.mnemonic = "new" ELSE NewCode /\ SourceCode

-----------------------------------------------------------------------------
(* Devices with the old code write, or create a space, until the relay     *)
(* refuses.  (No device repeats a write.)                                  *)
OtherWrites(c, w) ==
    /\ ~old[c].frozen
    /\ c \in {Account} \cup SpacesOf(old[Account].rows)
    /\ \A q \in Chain : w \notin old[q].rows
    /\ old' = [old EXCEPT ![c].rows = @ \cup {w}]
    /\ UNCHANGED <<new, marker, net, keychain, local, shown, pc, acked,
                   refused, faults>>

OtherCreatesSpace(s) ==
    /\ ~old[Account].frozen
    /\ s \notin old[Account].rows
    /\ old' = [old EXCEPT ![Account].rows = @ \cup {s}]
    /\ UNCHANGED <<new, marker, net, keychain, local, shown, pc, acked,
                   refused, faults>>

(* join_account() with the new code on another device: the marker is       *)
(* active, so the account is compatible, and it publishes its device row.  *)
OtherJoins ==
    /\ Joins /\ shown /\ marker = "active" /\ Joiner \notin new[Account].rows
    /\ new' = [new EXCEPT ![Account].rows = @ \cup {Joiner}]
    /\ UNCHANGED <<old, marker, net, keychain, local, shown, pc, acked,
                   refused, faults>>

-----------------------------------------------------------------------------
(* start_rotation(): no operation is pending and shared writes are open;   *)
(* the device's own edits are uploaded first.  The journal is stored, then *)
(* resume_locked() runs with the new code.  If it cannot be stored, the    *)
(* call fails and leaves nothing.                                          *)
StartRotation ==
    /\ pc = "idle" /\ ~Pending /\ ~mem.blocked /\ mem.account = "old"
    /\ ~old[Account].frozen
    /\ Persist(WithOp([step |-> "prepared", activated |-> FALSE, frozen |-> {},
                       created |-> {}, source |-> SourceFull, dirty |-> NoRows,
                       meta |-> "publishing"]))
    /\ Goto("source")
    /\ UNCHANGED <<relay, keychain, faults>>

(* resume_pending(): preflight() saves what is only in memory. *)
Resume ==
    /\ pc = "idle" /\ Pending /\ HasKeys
    /\ \/ Persist(mem) /\ UNCHANGED faults /\ Goto(IF op.activated THEN "clean" ELSE "source")
       \/ Fault /\ Return /\ UNCHANGED local
    /\ UNCHANGED <<relay, keychain>>

(* source_proof(), and target_proof() before credentials are written for   *)
(* a destination that exists.                                              *)
ProveSource ==
    /\ pc = "source"
    /\ IF Account \notin op.created
       THEN Goto("archive") /\ UNCHANGED <<local, faults>>
       ELSE IF TargetOK(op) THEN Stored(TargetSeen(op), "archive")
       ELSE Return /\ UNCHANGED <<local, faults>>
    /\ UNCHANGED <<relay, keychain>>

ArchiveSourceCode ==
    /\ pc = "archive"
    /\ keychain' = [keychain EXCEPT !.archive = TRUE]
    /\ Goto("stage")
    /\ UNCHANGED <<relay, local, faults>>

(* Mutant of StageNewCode: the code is staged only once it is in use. *)
StageNewCodeLate ==
    /\ pc = "stage"
    /\ Goto(IF op.step \in {"prepared", "freezing"} THEN "freeze" ELSE "create")
    /\ UNCHANGED <<relay, keychain, local, faults>>

StageNewCode ==
    /\ pc = "stage"
    /\ keychain' = [keychain EXCEPT !.staged = TRUE]
    /\ Goto(IF op.step \in {"prepared", "freezing"} THEN "freeze" ELSE "create")
    /\ UNCHANGED <<relay, local, faults>>

StoreFreezing ==
    /\ pc = "freeze"
    /\ Stored([op EXCEPT !.step = "freezing"], "freeze_account")
    /\ UNCHANGED <<relay, keychain>>

FreezeOld(c, where) ==
    /\ old' = [old EXCEPT ![c].frozen = TRUE]
    /\ Recorded([op EXCEPT !.frozen = @ \cup {c}], where)
    /\ UNCHANGED <<new, marker, net, keychain>>

(* The account first: it fixes which spaces there are. *)
FreezeAccount ==
    /\ pc = "freeze_account"
    /\ IF Account \in op.frozen
       THEN Goto("list_spaces") /\ UNCHANGED <<relay, keychain, local, faults>>
       ELSE FreezeOld(Account, "list_spaces")

ListSpaces ==
    /\ pc = "list_spaces"
    /\ Stored([op EXCEPT !.source = SourceFull], "freeze_spaces")
    /\ UNCHANGED <<relay, keychain>>

FreezeSpaces ==
    /\ pc = "freeze_spaces"
    /\ LET left == SpacesOf(op.source[Account]) \ op.frozen
       IN  IF left = {}
           THEN Goto("snapshot") /\ UNCHANGED <<relay, keychain, local, faults>>
           ELSE \E s \in left : FreezeOld(s, "freeze_spaces")

(* Mutant of Snapshot: the rows read while the spaces were still open. *)
SnapshotFromPlan ==
    /\ pc = "snapshot"
    /\ Stored(TargetsOf([op EXCEPT !.step = "copying"]), "block")
    /\ UNCHANGED <<relay, keychain>>

(* Only now, with every chain frozen, is the source final. *)
Snapshot ==
    /\ pc = "snapshot"
    /\ Stored(TargetsOf([op EXCEPT !.source = SourceFull, !.step = "copying"]), "block")
    /\ UNCHANGED <<relay, keychain>>

(* The own copy of the old account is marked frozen. *)
BlockOld ==
    /\ pc = "block"
    /\ \/ /\ Persist([mem EXCEPT !.blocked = (mem.account = "old")])
          /\ Goto("create") /\ UNCHANGED faults
       \/ Fault /\ Return /\ UNCHANGED local
    /\ UNCHANGED <<relay, keychain>>

-----------------------------------------------------------------------------
CreateChain(c, where, o) ==
    /\ new' = [new EXCEPT ![c].exists = TRUE]
    /\ Recorded([o EXCEPT !.created = @ \cup {c}], where)
    /\ UNCHANGED <<old, marker, net, keychain>>

CreateAccount ==
    /\ pc = "create"
    /\ IF Account \in op.created
       THEN Goto("create_spaces") /\ UNCHANGED <<relay, keychain, local, faults>>
       ELSE CreateChain(Account, "create_spaces", op)

(* Each after a target_proof(). *)
CreateSpaces ==
    /\ pc = "create_spaces"
    /\ LET left == SpacesOf(op.source[Account]) \ op.created
       IN  IF left = {}
           THEN /\ Goto(IF op.step = "copying" THEN "prove_account" ELSE "prove_active")
                /\ UNCHANGED <<relay, keychain, local, faults>>
           ELSE IF TargetOK(op)
           THEN \E s \in left : CreateChain(s, "create_spaces", TargetSeen(op))
           ELSE Return /\ UNCHANGED <<relay, keychain, local, faults>>

(* The chain the handler's position speaks of. *)
ChainAt == IF pc \in {"push_account", "push_active"} THEN Account
           ELSE CHOOSE s \in Space : op.dirty[s] # {}

(* push(None): target_proof(), then the rows without a receipt. *)
ProveAccount ==
    /\ pc \in {"prove_account", "prove_active"}
    /\ IF TargetOK(op)
       THEN Stored(TargetSeen(op), IF pc = "prove_account" THEN "push_account" ELSE "push_active")
       ELSE Return /\ UNCHANGED <<local, faults>>
    /\ UNCHANGED <<relay, keychain>>

(* space_proof() of every target space, before its push. *)
ProveSpace ==
    /\ pc = "prove_spaces"
    /\ LET left == {s \in Space : op.dirty[s] # {}}
       IN  IF ~TargetOK(op) THEN Return /\ UNCHANGED <<local, faults>>
           ELSE IF left = {} THEN Goto("seal") /\ UNCHANGED <<local, faults>>
           ELSE LET s == CHOOSE s \in left : TRUE
                IN  Stored(SpaceSeen(op, s),
                           IF op.dirty[s] \subseteq new[s].rows THEN "prove_spaces"
                           ELSE "push_space")
    /\ UNCHANGED <<relay, keychain>>

(* The rows of a batch that the relay does not take: one that is already   *)
(* there, and metadata based on an older row.                              *)
Conflicts(c, rows) ==
    {r \in rows : IF r = Meta THEN marker = op.meta ELSE r \in new[c].rows}

(* push() at the relay: rows it does not have are accepted. *)
Deliver(c, rows, meta) ==
    /\ new' = [new EXCEPT ![c].rows = @ \cup (rows \ {Meta})]
    /\ marker' = IF Meta \in rows /\ marker = (IF meta = "active" THEN "publishing" ELSE "none")
                 THEN meta ELSE marker

Left == op.dirty[ChainAt] \ (acked \cup refused)

(* store(op, true) of the receipts: memory keeps them in any case. *)
Receipts == WithOp([op EXCEPT !.dirty[ChainAt] = @ \ acked])

(* One batch is answered.  A conflict does not stop the push. *)
PushBatch ==
    /\ pc \in {"push_account", "push_space", "push_active"} /\ Left # {}
    /\ \E b \in Batches(Left) :
          /\ Deliver(ChainAt, b, op.meta)
          /\ acked' = acked \cup (b \ Conflicts(ChainAt, b))
          /\ refused' = refused \cup Conflicts(ChainAt, b)
    /\ UNCHANGED <<old, net, keychain, local, pc, shown, faults>>

(* Mutant of PushFails: the rows of the failed batch get receipts too. *)
PushFailsAccepts ==
    /\ pc \in {"push_account", "push_space", "push_active"} /\ Left # {} /\ Fault
    /\ Persist(WithOp([op EXCEPT !.dirty[ChainAt] = {}]))
    /\ Return
    /\ UNCHANGED <<relay, keychain>>

(* A batch fails: it was not applied, applied and not answered, or will    *)
(* arrive later.                                                           *)
PushFails ==
    /\ pc \in {"push_account", "push_space", "push_active"} /\ Left # {} /\ Fault
    /\ \E b \in Batches(Left) :
          \/ UNCHANGED <<new, marker, net>>
          \/ Deliver(ChainAt, b, op.meta) /\ UNCHANGED net
          \/ net' = {[chain |-> ChainAt, rows |-> b, meta |-> op.meta]} \cup net
             /\ UNCHANGED <<new, marker>>
    /\ mem' = Receipts /\ disk' \in {disk, Receipts}
    /\ Return
    /\ UNCHANGED <<old, keychain>>

LateDelivery ==
    /\ \E p \in net : Deliver(p.chain, p.rows, p.meta) /\ net' = net \ {p}
    /\ UNCHANGED <<old, keychain, local, shown, pc, acked,
                   refused, faults>>

(* The receipts are stored; a push with a conflict ends the call. *)
PushDone ==
    /\ pc \in {"push_account", "push_space", "push_active"} /\ Left = {}
    /\ \/ /\ Persist(Receipts) /\ UNCHANGED faults
          /\ IF refused # {} THEN Return
             ELSE /\ pc' = IF pc = "push_active" THEN "promote" ELSE "prove_spaces"
                  /\ acked' = {} /\ UNCHANGED <<refused, shown>>
       \/ Fault /\ Return /\ mem' = Receipts /\ UNCHANGED disk
    /\ UNCHANGED <<relay, keychain>>

-----------------------------------------------------------------------------
Clean(o) == \A c \in Chain : o.dirty[c] = {}

(* Everything has a receipt: the metadata becomes active, to be uploaded. *)
Seal ==
    /\ pc = "seal"
    /\ IF TargetOK(op) /\ Clean(TargetSeen(op))
       THEN Stored([op EXCEPT !.step = "activating", !.meta = "active",
                              !.dirty[Account] = {Meta}], "prove_active")
       ELSE Return /\ UNCHANGED <<local, faults>>
    /\ UNCHANGED <<relay, keychain>>

(* target_proof() and source_proof(), then the new code becomes the code   *)
(* of this device.                                                         *)
PromoteCode ==
    /\ pc = "promote"
    /\ IF TargetOK(op) /\ Clean(TargetSeen(op))
       THEN /\ keychain' = [keychain EXCEPT !.mnemonic = "new"]
            /\ Goto("activate") /\ UNCHANGED <<local, faults>>
       ELSE Return /\ UNCHANGED <<keychain, local, faults>>
    /\ UNCHANGED relay

(* Mutant of Activate: the operation is forgotten before its cleanup. *)
ActivateForgets ==
    /\ pc = "activate"
    /\ Persist([account |-> "new", blocked |-> FALSE, op |-> NoOp])
    /\ Goto("clean")
    /\ UNCHANGED <<relay, keychain, faults>>

(* The prepared account and spaces replace the old ones. *)
Activate ==
    /\ pc = "activate"
    /\ \/ /\ Persist([account |-> "new", blocked |-> FALSE,
                      op |-> [op EXCEPT !.activated = TRUE]])
          /\ Goto("clean") /\ UNCHANGED faults
       \/ Fault /\ Return /\ UNCHANGED local
    /\ UNCHANGED <<relay, keychain>>

(* The cleanup of an activated operation, which a later resume repeats. *)
ProveActivated ==
    /\ pc = "clean"
    /\ IF TargetOK(op) THEN Stored(TargetSeen(op), "delete_staged")
       ELSE Return /\ UNCHANGED <<local, faults>>
    /\ UNCHANGED <<relay, keychain>>

DeleteStaged ==
    /\ pc = "delete_staged"
    /\ keychain' = [keychain EXCEPT !.staged = FALSE]
    /\ Goto("delete_archive")
    /\ UNCHANGED <<relay, local, faults>>

DeleteArchive ==
    /\ pc = "delete_archive"
    /\ keychain' = [keychain EXCEPT !.archive = FALSE]
    /\ Goto("finish")
    /\ UNCHANGED <<relay, local, faults>>

Finish ==
    /\ pc = "finish"
    /\ \/ Persist(WithOp(NoOp)) /\ UNCHANGED faults
       \/ Fault /\ UNCHANGED local
    /\ Return
    /\ UNCHANGED <<relay, keychain>>

(* A pull, a keychain write or a check before an effect fails. *)
StepFails ==
    /\ pc # "idle" /\ acked = {} /\ refused = {} /\ Fault
    /\ Return
    /\ UNCHANGED <<relay, keychain, local>>

(* The process ends: memory and the code nobody has seen are lost. *)
Crash ==
    /\ Fault
    /\ mem' = disk /\ pc' = "idle" /\ acked' = {} /\ refused' = {}
    /\ UNCHANGED <<relay, keychain, disk, shown>>

Step ==
    \/ ProveSource \/ ArchiveSourceCode \/ StageNewCode \/ StoreFreezing
    \/ FreezeAccount \/ ListSpaces \/ FreezeSpaces \/ Snapshot \/ BlockOld
    \/ CreateAccount \/ CreateSpaces \/ ProveAccount \/ ProveSpace
    \/ PushBatch \/ PushDone \/ Seal \/ PromoteCode \/ Activate
    \/ ProveActivated \/ DeleteStaged \/ DeleteArchive \/ Finish

Others ==
    \/ \E c \in Chain, w \in Write : OtherWrites(c, w)
    \/ \E s \in Space : OtherCreatesSpace(s)
    \/ OtherJoins

Next ==
    \/ StartRotation \/ Resume \/ Step
    \/ PushFails \/ LateDelivery \/ StepFails \/ Crash
    \/ Others

Spec == Init /\ [][Next]_vars

(* A call of resume_locked() runs to its end, the user resumes a pending   *)
(* operation, and what is on the network arrives.                          *)
FairSpec == Spec /\ WF_vars(Step) /\ WF_vars(Resume) /\ WF_vars(LateDelivery)

-----------------------------------------------------------------------------
TypeOK ==
    /\ old \in [Chain -> [rows : SUBSET (Write \cup Space), frozen : BOOLEAN]]
    /\ new \in [Chain -> [exists : BOOLEAN, rows : SUBSET (Write \cup Space \cup {Joiner})]]
    /\ marker \in {"none", "publishing", "active"}
    /\ net \subseteq [chain : Chain, rows : SUBSET (Write \cup Space \cup {Meta}),
                      meta : {"publishing", "active"}]
    /\ keychain \in [mnemonic : {"old", "new"}, staged : BOOLEAN, archive : BOOLEAN]
    /\ {mem, disk} \subseteq [account : {"old", "new"}, blocked : BOOLEAN, op : Op \cup {NoOp}]
    /\ shown \in BOOLEAN /\ faults \in 0..MaxFaults
    /\ acked \subseteq Write \cup Space \cup {Meta}
    /\ pc # "idle" => Pending

(* Once the marker of the new account is active, so that devices may join  *)
(* and the rotating one may switch, every write the old chains ever        *)
(* accepted is in the new ones, and every space they list exists: a device *)
(* that wrote up to the freeze loses nothing.                              *)
NothingLeftBehind ==
    marker = "active" =>
        /\ old[Account].rows \subseteq new[Account].rows
        /\ \A s \in SpacesOf(old[Account].rows) :
              new[s].exists /\ old[s].rows \subseteq new[s].rows

(* The code a resume needs is in the keychain before it is needed: the new *)
(* one once an old chain is frozen, the old one until the switch is saved, *)
(* and the device's own code is that of the account it is in.              *)
CodesRetained ==
    /\ (\E c \in Chain : old[c].frozen) => keychain.staged \/ keychain.mnemonic = "new"
    /\ disk.op # NoOp /\ ~disk.op.activated => SourceCode
    /\ disk.account = "new" => keychain.mnemonic = "new"

(* The device switches only to an account that has been activated, and     *)
(* once no operation is pending it may write to the account it is in.      *)
SwitchOnlyToActive ==
    /\ keychain.mnemonic = "new" \/ mem.account = "new" => marker = "active"
    /\ ~Pending => /\ ~mem.blocked
                   /\ mem.account = "old" => ~old[Account].frozen

(* Once the marker of the new account is active, every write the old       *)
(* chains ever accepted is in the new ones and every space they list       *)
(* exists; the device switches only to an account that has been activated; *)
(* and the code a resume needs is in the keychain before it is needed.     *)
RotationSafe == TypeOK /\ NothingLeftBehind /\ SwitchOnlyToActive /\ CodesRetained

(* A rotation whose new code is known completes however often it failed.   *)
KnownCodeCompletes == (Pending /\ NewCode) ~> ~Pending
=============================================================================
