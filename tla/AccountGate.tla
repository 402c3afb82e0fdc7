----------------------------- MODULE AccountGate -----------------------------
(***************************************************************************)
(* The account chain and the format gate in front of every shared write:   *)
(* fresh_account_gate(), prepare_account_gate() and                        *)
(* publish_prepared_account_gate() of sync/record_round.rs, account_gate() *)
(* and merge_account() of sync/record_merge.rs, the promotion of the       *)
(* account format by sync/record_groups.rs, and the two-phase confirmation *)
(* of a host key by session/record_pin.rs.                                 *)
(*                                                                         *)
(* The account's metadata row names the account format.  A device raises   *)
(* it to ACCOUNT_SCHEMA before it uploads grouped records; a newer version *)
(* of the application may raise it further, and from then on this version  *)
(* must not write.  A device's rounds and edits exclude each other (the    *)
(* lifecycle lock), but the confirmation of a host key pulls the account   *)
(* outside of it.                                                          *)
(*                                                                         *)
(* The space chain is reduced to whether it holds a grouped record: how    *)
(* records travel on it is the subject of RecordSync.  Migration markers,  *)
(* rotation and freezing of the account are not part of this module.       *)
(***************************************************************************)
EXTENDS LwwRecords

CONSTANTS
    Meta,           \* the account metadata row; the other keys are other rows
    Newer,          \* the device that runs a newer version
    MaxNow,         \* bound on the clock readings of an edit
    MaxEdits,       \* bound on the number of edits
    MaxFaults,      \* bound on losses, failed saves and crashes
    MaxPins         \* bound on the number of host key confirmations

MIN_ACCOUNT_SCHEMA == 3
ACCOUNT_SCHEMA == 4
FutureSchema == 5

ASSUME GateAssumption ==
    /\ Meta \in Key
    /\ Newer \in Nat \ ({0} \cup Device)
    /\ {MaxNow, MaxEdits, MaxFaults, MaxPins} \subseteq Nat

VARIABLES
    chain,          \* the account chain on the relay: [latest, rows]
    space,          \* a grouped record is on the space chain
    mem,            \* core.records, per device (a section, below)
    disk,           \* the state file, per device
    saveBlocked,    \* core.save_blocked, per device
    pc,             \* what the holder of the lifecycle lock does next
    goal,           \* what the account gate is asked for
    pulled,         \* the account pull of the holder: [since, latest, rows]
    sent,           \* outgoing account rows of the round
    accepted,       \* their receipts: [Key -> seq], 0 for none
    pin,            \* the host key confirmation: [at, pulled]
    futureSeen,     \* history: has the device authenticated a newer format?
    edits, faults, pins     \* counters for the bounds

vars == <<chain, space, mem, disk, saveBlocked, pc, goal, pulled, sent, accepted,
          pin, futureSeen, edits, faults, pins>>

relay == <<chain, space>>
local == <<mem, disk, saveBlocked>>
round == <<pc, goal, pulled, sent, accepted>>
bounds == <<edits, faults, pins>>

NoTable == [k \in Key |-> [seq |-> 0, body |-> NoRev]]
NoPull == [since |-> 0, latest |-> 0, rows |-> NoTable]
NothingSent == [k \in Key |-> [base |-> 0, body |-> NoRev]]
NoReceipts == [k \in Key |-> 0]

(* A revision of an account row; schema is 0 except for the metadata. *)
AccountRev(prev, now, d, schema) ==
    [ts |-> Stamp(prev, now), del |-> FALSE, dev |-> d, id |-> edits + 1,
     schema |-> schema]

SchemaOf(rev) == IF rev = NoRev THEN 0 ELSE rev.schema

MaxOf(S) == CHOOSE n \in S : \A m \in S : m <= n

-----------------------------------------------------------------------------
(* Mutant of ObservedSchema: the revision that wins decides. *)
ObservedSchemaOfWinner(section, answer) ==
    SchemaOf(MergeRow(section.rows[Meta], answer.rows[Meta]).rev)

(* Mutant of ObservedSchema: what was seen before is forgotten. *)
ObservedSchemaNow(section, answer) ==
    MaxOf({SchemaOf(section.rows[Meta].rev), SchemaOf(answer.rows[Meta].body)})

(* account_gate(): the newest format that was ever authenticated, in the   *)
(* answer, in the local row or earlier; not the one of the winning row.    *)
ObservedSchema(section, answer) ==
    MaxOf({section.remote, SchemaOf(section.rows[Meta].rev),
           SchemaOf(answer.rows[Meta].body)})

(* Mutant of Gate: the comparison is one off. *)
GateOffByOne(section, answer) ==
    IF ObservedSchema(section, answer) > ACCOUNT_SCHEMA + 1 THEN "needs_update"
    ELSE IF ~ValidPull(section, answer) THEN "invalid_pull"
    ELSE "compatible"

(* account_gate(), then valid_pull() in merge_account(). *)
Gate(section, answer) ==
    IF ObservedSchema(section, answer) > ACCOUNT_SCHEMA THEN "needs_update"
    ELSE IF ObservedSchema(section, answer) < MIN_ACCOUNT_SCHEMA
         THEN "needs_migration"
    ELSE IF ~ValidPull(section, answer) THEN "invalid_pull"
    ELSE "compatible"

(* Mutant of Publish: a block is never lifted. *)
PublishKeepsBlock(section, answer) ==
    LET schema == ObservedSchema(section, answer)
    IN  IF Gate(section, answer) = "compatible"
        THEN [MergeSpace(section, answer) EXCEPT !.remote = schema]
        ELSE [section EXCEPT !.blocked = TRUE,
                 !.remote = IF schema > ACCOUNT_SCHEMA THEN MaxOf({@, schema}) ELSE @]

(* publish_prepared_account_gate(): a compatible answer is merged and      *)
(* lifts a block; any other leaves the rows alone and blocks shared        *)
(* writes, and a newer format is remembered.                               *)
Publish(section, answer) ==
    LET schema == ObservedSchema(section, answer)
    IN  IF Gate(section, answer) = "compatible"
        THEN [MergeSpace(section, answer) EXCEPT !.remote = schema, !.blocked = FALSE]
        ELSE [section EXCEPT !.blocked = TRUE,
                 !.remote = IF schema > ACCOUNT_SCHEMA THEN MaxOf({@, schema}) ELSE @]

(* account_writes_blocked() *)
WritesBlocked(section) == section.blocked \/ section.remote > ACCOUNT_SCHEMA

(* account_group_enabled() *)
GroupEnabled(section) == SchemaOf(section.rows[Meta].rev) = ACCOUNT_SCHEMA

(* push_section(): grouped records may be uploaded once the relay has      *)
(* acknowledged the account format.                                        *)
GroupGateAcknowledged(section) == GroupEnabled(section) /\ ~section.rows[Meta].dirty

-----------------------------------------------------------------------------
FirstMeta == [ts |-> 1, del |-> FALSE, dev |-> CHOOSE d \in Device : TRUE, id |-> 0,
              schema |-> MIN_ACCOUNT_SCHEMA]

FirstTable == [NoTable EXCEPT ![Meta] = [seq |-> 1, body |-> FirstMeta]]

(* A device that has joined the account, before anything else happened. *)
Joined == [rows |-> [k \in Key |-> IF k = Meta
                                   THEN [rev |-> FirstMeta, seq |-> 1, dirty |-> FALSE]
                                   ELSE NoRow],
           cursor |-> 1, baseline |-> TRUE, remote |-> MIN_ACCOUNT_SCHEMA,
           blocked |-> FALSE, group |-> "none"]

NoPin == [at |-> "off", pulled |-> NoPull]

Init ==
    /\ chain = [latest |-> 1, rows |-> FirstTable]
    /\ space = FALSE
    /\ mem = [d \in Device |-> Joined]
    /\ disk = mem
    /\ saveBlocked = [d \in Device |-> FALSE]
    /\ pc = [d \in Device |-> "idle"]
    /\ goal = [d \in Device |-> "none"]
    /\ pulled = [d \in Device |-> NoPull]
    /\ sent = [d \in Device |-> NothingSent]
    /\ accepted = [d \in Device |-> NoReceipts]
    /\ pin = [d \in Device |-> NoPin]
    /\ futureSeen = [d \in Device |-> "never"]
    /\ edits = 0 /\ faults = 0 /\ pins = 0

Fault == faults < MaxFaults /\ faults' = faults + 1

Goto(d, where, why) ==
    /\ pc' = [pc EXCEPT ![d] = where]
    /\ goal' = [goal EXCEPT ![d] = why]

(* The lifecycle lock is released and the local values are gone. *)
Release(d) ==
    /\ Goto(d, "idle", "none")
    /\ pulled' = [pulled EXCEPT ![d] = NoPull]
    /\ sent' = [sent EXCEPT ![d] = NothingSent]
    /\ accepted' = [accepted EXCEPT ![d] = NoReceipts]

(* persist_candidate(): the disk first, then the memory. *)
Persist(d, section) ==
    /\ mem' = [mem EXCEPT ![d] = section]
    /\ disk' = [disk EXCEPT ![d] = section]

See(d, section) ==
    futureSeen' = [futureSeen EXCEPT ![d] =
        IF section.remote > ACCOUNT_SCHEMA THEN "now" ELSE @]

-----------------------------------------------------------------------------
(* run() takes the lock; preflight() first saves what is only in memory. *)
StartRound(d) ==
    /\ pc[d] = "idle" /\ ~saveBlocked[d]
    /\ Persist(d, mem[d])
    /\ Goto(d, "pull", "round")
    /\ UNCHANGED <<relay, saveBlocked, pulled, sent, accepted, pin, futureSeen, bounds>>

(* edit_records() of a change that may raise the account format: the edit  *)
(* is refused on a blocked account, then the gate is asked.                *)
StartPromotion(d) ==
    /\ pc[d] = "idle" /\ ~saveBlocked[d] /\ edits < MaxEdits
    /\ ~WritesBlocked(mem[d])
    /\ Persist(d, mem[d])
    /\ Goto(d, "pull", "promote")
    /\ edits' = edits + 1
    /\ UNCHANGED <<relay, saveBlocked, pulled, sent, accepted, pin, futureSeen,
                   faults, pins>>

FullPull == [since |-> 0, latest |-> chain.latest, rows |-> chain.rows]

(* prepare_account_gate(): always a full pull of the account. *)
GatePull(d) ==
    /\ pc[d] = "pull"
    /\ pulled' = [pulled EXCEPT ![d] = FullPull]
    /\ Goto(d, "publish", goal[d])
    /\ UNCHANGED <<relay, local, sent, accepted, pin, futureSeen, bounds>>

(* publish_prepared_account_gate() with a result that can be saved.  An    *)
(* incompatible account ends the round or the edit; otherwise the first    *)
(* gate of a round goes on to the account rows that are dirty, whose       *)
(* second gate is asked after they were collected.                         *)
GatePublish(d) ==
    LET next == Publish(mem[d], pulled[d])
    IN  /\ pc[d] = "publish"
        /\ Persist(d, next)
        /\ See(d, next)
        /\ \/ /\ Gate(mem[d], pulled[d]) # "compatible"
              /\ Release(d)
           \/ /\ Gate(mem[d], pulled[d]) = "compatible"
              /\ pulled' = [pulled EXCEPT ![d] = NoPull]
              /\ IF goal[d] = "round" /\ Dirty(next) # {}
                 THEN /\ sent' = [sent EXCEPT ![d] =
                            [k \in Key |-> IF k \in Dirty(next) THEN Outgoing(next)[k]
                                           ELSE NothingSent[k]]]
                      /\ Goto(d, "pull", "account")
                 ELSE /\ Goto(d, IF goal[d] = "round" THEN "space"
                                 ELSE IF goal[d] = "promote" THEN "edit" ELSE "push",
                              goal[d])
                      /\ UNCHANGED sent
              /\ UNCHANGED accepted
        /\ UNCHANGED <<relay, saveBlocked, pin, bounds>>

(* The save fails: a compatible result is lost, any other one is kept in   *)
(* memory by fail_closed(), which stops every later save until a restart.  *)
FailClosed(d, answer) ==
    LET next == Publish(mem[d], answer)
        closed == Gate(mem[d], answer) # "compatible"
    IN  /\ Fault
        /\ mem' = [mem EXCEPT ![d] = IF closed THEN next ELSE @]
        /\ saveBlocked' = [saveBlocked EXCEPT ![d] = closed \/ @]
        /\ IF closed THEN See(d, next) ELSE UNCHANGED futureSeen
        /\ UNCHANGED disk

GatePublishFails(d) ==
    /\ pc[d] = "publish"
    /\ FailClosed(d, pulled[d])
    /\ Release(d)
    /\ UNCHANGED <<relay, pin, edits, pins>>

(* Mutant of Promote: the new revision is not marked for upload. *)
PromoteClean(d, now) ==
    LET row == mem[d].rows[Meta]
    IN  IF GroupEnabled(mem[d]) THEN mem[d].rows
        ELSE [mem[d].rows EXCEPT ![Meta] =
                [rev |-> AccountRev(row.rev, now, d, ACCOUNT_SCHEMA), seq |-> row.seq,
                 dirty |-> FALSE]]

(* promote(): the account format is raised unless it already is. *)
Promote(d, now) ==
    LET row == mem[d].rows[Meta]
    IN  IF GroupEnabled(mem[d]) THEN mem[d].rows
        ELSE [mem[d].rows EXCEPT ![Meta] =
                [rev |-> AccountRev(row.rev, now, d, ACCOUNT_SCHEMA), seq |-> row.seq,
                 dirty |-> TRUE]]

(* create_group() after the gate: the format and the group in one save. *)
PromotedEdit(d, now) ==
    /\ pc[d] = "edit"
    /\ Persist(d, [mem[d] EXCEPT !.rows = Promote(d, now), !.group = "dirty"])
    /\ Release(d)
    /\ UNCHANGED <<relay, saveBlocked, pin, futureSeen, bounds>>

(* edit_records() of a group in an account whose format is raised already: *)
(* saved without asking the relay.                                         *)
GroupEdit(d) ==
    /\ pc[d] = "idle" /\ ~saveBlocked[d] /\ edits < MaxEdits
    /\ ~WritesBlocked(mem[d]) /\ GroupEnabled(mem[d])
    /\ Persist(d, [mem[d] EXCEPT !.group = "dirty"])
    /\ edits' = edits + 1
    /\ UNCHANGED <<relay, saveBlocked, round, pin, futureSeen, faults, pins>>

(* An edit of another account row (a device, a space, the group order).    *)
AccountEdit(d, k, now) ==
    LET row == mem[d].rows[k]
    IN  /\ pc[d] = "idle" /\ ~saveBlocked[d] /\ edits < MaxEdits
        /\ k # Meta /\ ~WritesBlocked(mem[d])
        /\ Persist(d, [mem[d] EXCEPT !.rows[k] =
               [rev |-> AccountRev(row.rev, now, d, 0), seq |-> row.seq,
                dirty |-> TRUE]])
        /\ edits' = edits + 1
        /\ UNCHANGED <<relay, saveBlocked, round, pin, futureSeen, faults, pins>>

-----------------------------------------------------------------------------
SentItems(d) == [k \in {j \in Key : sent[d][j].body # NoRev} |-> sent[d][k]]

RelayPush(items) ==
    /\ chain' = [latest |-> LatestAfter(chain.rows, chain.latest, items),
                 rows |-> RowsAfter(chain.rows, chain.latest, items)]
    /\ UNCHANGED space

(* push_section() of the account rows, answered. *)
PushAccount(d) ==
    LET acc == Accepted(chain.rows, SentItems(d))
    IN  /\ pc[d] = "push" /\ goal[d] = "account"
        /\ RelayPush(SentItems(d))
        /\ accepted' = [accepted EXCEPT ![d] =
               [k \in Key |-> IF k \in acc THEN SeqOf(chain.latest, acc, k) ELSE 0]]
        /\ Goto(d, "receipt", "account")
        /\ UNCHANGED <<local, pulled, sent, pin, futureSeen, bounds>>

(* The answer does not arrive; the relay may have applied the push. *)
PushAccountFails(d) ==
    /\ pc[d] = "push" /\ goal[d] = "account" /\ Fault
    /\ RelayPush(SentItems(d)) \/ UNCHANGED relay
    /\ Release(d)
    /\ UNCHANGED <<local, pin, futureSeen, edits, pins>>

(* receipt_commit(): kept in memory even if they cannot be saved, which    *)
(* ends the round; note_failure() may or may not save them then.           *)
AccountReceipt(d) ==
    LET next == ApplyReceipts(mem[d], sent[d], accepted[d])
    IN  /\ pc[d] = "receipt"
        /\ mem' = [mem EXCEPT ![d] = next]
        /\ \/ /\ disk' = [disk EXCEPT ![d] = next]
              /\ Goto(d, "space", "round")
              /\ sent' = [sent EXCEPT ![d] = NothingSent]
              /\ accepted' = [accepted EXCEPT ![d] = NoReceipts]
              /\ UNCHANGED <<pulled, faults>>
           \/ /\ Fault /\ Release(d)
              /\ disk' \in {disk, [disk EXCEPT ![d] = next]}
        /\ UNCHANGED <<relay, saveBlocked, pin, futureSeen, edits, pins>>

(* run(): the space is pulled and merged; the gate is asked once more if   *)
(* there is something to upload.                                           *)
SpacePull(d) ==
    LET next == [mem[d] EXCEPT !.group = IF space /\ @ = "none" THEN "clean" ELSE @]
    IN  /\ pc[d] = "space"
        /\ Persist(d, next)
        /\ \/ /\ next.group = "dirty"
              /\ Goto(d, "pull", "space")
              /\ UNCHANGED <<pulled, sent, accepted>>
           \/ next.group # "dirty" /\ Release(d)
        /\ UNCHANGED <<relay, saveBlocked, pin, futureSeen, bounds>>

(* push_section() of the space: refused unless the account format is       *)
(* acknowledged, or by the relay for another device's record.  The push    *)
(* may fail, and the receipt be saved, kept in memory only, or lost.       *)
PushSpace(d) ==
    /\ pc[d] = "push" /\ goal[d] = "space"
    /\ \/ /\ space \/ ~GroupGateAcknowledged(mem[d])
          /\ UNCHANGED <<space, mem, disk, faults>>
       \/ /\ GroupGateAcknowledged(mem[d])
          /\ space' = TRUE
          /\ \/ Persist(d, [mem[d] EXCEPT !.group = "clean"]) /\ UNCHANGED faults
             \/ /\ Fault
                /\ mem' \in {mem, [mem EXCEPT ![d].group = "clean"]}
                /\ UNCHANGED disk
       \/ /\ GroupGateAcknowledged(mem[d]) /\ Fault
          /\ UNCHANGED <<space, mem, disk>>
    /\ Release(d)
    /\ UNCHANGED <<chain, saveBlocked, pin, futureSeen, edits, pins>>

(* A pull fails, or a save of the space or the edit: nothing changes. *)
Abort(d) ==
    /\ pc[d] \in {"pull", "space", "edit"} /\ Fault
    /\ Release(d)
    /\ UNCHANGED <<relay, local, pin, futureSeen, edits, pins>>

-----------------------------------------------------------------------------
(* confirm(), first phase: preflight() under the lock, then outside of it. *)
PinStart(d) ==
    /\ pin[d].at = "off" /\ pins < MaxPins
    /\ pc[d] = "idle" /\ ~saveBlocked[d]
    /\ Persist(d, mem[d])
    /\ pin' = [pin EXCEPT ![d].at = "pull"]
    /\ pins' = pins + 1
    /\ UNCHANGED <<relay, saveBlocked, round, futureSeen, edits, faults>>

(* prepare_account_gate() without the lock: any round may run meanwhile. *)
PinPull(d) ==
    /\ pin[d].at = "pull"
    /\ pin' = [pin EXCEPT ![d] = [at |-> "publish", pulled |-> FullPull]]
    /\ UNCHANGED <<relay, local, round, futureSeen, bounds>>

(* The user cancels, the route changed, or the pull failed. *)
PinDropped(d) ==
    /\ pin[d].at # "off"
    /\ pin' = [pin EXCEPT ![d] = NoPin]
    /\ UNCHANGED <<relay, local, round, futureSeen, bounds>>

(* confirm(), second phase, under the lock again: the prepared proof is    *)
(* published into the state as it is now.  The pin itself is an edit of    *)
(* the host (see RecordSync).                                              *)
PinPublish(d) ==
    LET next == Publish(mem[d], pin[d].pulled)
    IN  /\ pin[d].at = "publish" /\ pc[d] = "idle"
        /\ \/ /\ ~saveBlocked[d]
              /\ Persist(d, next) /\ See(d, next)
              /\ UNCHANGED <<saveBlocked, faults>>
           \/ ~saveBlocked[d] /\ FailClosed(d, pin[d].pulled)
           \/ /\ saveBlocked[d]
              /\ mem' = [mem EXCEPT ![d].blocked = TRUE]
              /\ UNCHANGED <<disk, saveBlocked, futureSeen, faults>>
        /\ pin' = [pin EXCEPT ![d] = NoPin]
        /\ UNCHANGED <<relay, round, edits, pins>>

-----------------------------------------------------------------------------
(* The process ends and starts again from the state file. *)
Crash(d) ==
    /\ Fault
    /\ mem' = [mem EXCEPT ![d] = disk[d]]
    /\ saveBlocked' = [saveBlocked EXCEPT ![d] = FALSE]
    /\ Release(d)
    /\ pin' = [pin EXCEPT ![d] = NoPin]
    /\ futureSeen' = [futureSeen EXCEPT ![d] =
           IF @ = "now" /\ disk[d].remote <= ACCOUNT_SCHEMA THEN "before" ELSE @]
    /\ UNCHANGED <<relay, disk, edits, pins>>

(* A device with a newer version raises the format of the account it sees. *)
NewerApp(now) ==
    /\ edits < MaxEdits
    /\ SchemaOf(chain.rows[Meta].body) < FutureSchema
    /\ RelayPush([k \in {Meta} |->
           [base |-> chain.rows[Meta].seq,
            body |-> AccountRev(chain.rows[Meta].body, now, Newer, FutureSchema)]])
    /\ edits' = edits + 1
    /\ UNCHANGED <<local, round, pin, futureSeen, faults, pins>>

RoundStep(d) ==
    \/ StartRound(d) \/ GatePull(d) \/ GatePublish(d) \/ PushAccount(d)
    \/ AccountReceipt(d) \/ SpacePull(d) \/ PushSpace(d)
    \/ \E now \in 1..MaxNow : PromotedEdit(d, now)

Next ==
    \/ \E d \in Device :
          \/ RoundStep(d) \/ StartPromotion(d) \/ GroupEdit(d)
          \/ \E k \in Key, now \in 1..MaxNow : AccountEdit(d, k, now)
          \/ GatePublishFails(d) \/ PushAccountFails(d) \/ Abort(d) \/ Crash(d)
          \/ PinStart(d) \/ PinPull(d) \/ PinDropped(d) \/ PinPublish(d)
    \/ \E now \in 1..MaxNow : NewerApp(now)

Spec == Init /\ [][Next]_vars

(* The engine starts a round every poll interval; what holds the lifecycle *)
(* lock runs to its end.                                                   *)
FairSpec == Spec /\ \A d \in Device : WF_vars(RoundStep(d))

-----------------------------------------------------------------------------
AccountRevs == {NoRev} \cup [ts : Nat \ {0}, del : BOOLEAN, dev : Device \cup {Newer},
                             id : Nat, schema : Nat]

Section == [rows : [Key -> [rev : AccountRevs, seq : Nat, dirty : BOOLEAN]],
            cursor : Nat, baseline : BOOLEAN, remote : Nat, blocked : BOOLEAN,
            group : {"none", "dirty", "clean"}]

Table == [Key -> [seq : Nat, body : AccountRevs]]

Answer == [since : Nat, latest : Nat, rows : Table]

TypeOK ==
    /\ chain \in [latest : Nat, rows : Table]
    /\ space \in BOOLEAN
    /\ mem \in [Device -> Section]
    /\ disk \in [Device -> Section]
    /\ saveBlocked \in [Device -> BOOLEAN]
    /\ pc \in [Device -> {"idle", "pull", "publish", "edit", "push", "receipt", "space"}]
    /\ goal \in [Device -> {"none", "round", "account", "space", "promote"}]
    /\ pulled \in [Device -> Answer]
    /\ sent \in [Device -> [Key -> [base : Nat, body : AccountRevs]]]
    /\ accepted \in [Device -> [Key -> Nat]]
    /\ pin \in [Device -> [at : {"off", "pull", "publish"}, pulled : Answer]]
    /\ futureSeen \in [Device -> {"never", "now", "before"}]
    /\ edits \in 0..MaxEdits /\ faults \in 0..MaxFaults /\ pins \in 0..MaxPins

(* account_gate() and the base sequence numbers together: no device of     *)
(* this version ever replaces the account's format by an older one, though *)
(* its metadata row may be the later revision, its gate may have been      *)
(* asked before a newer version wrote, and any save may fail.              *)
SchemaNeverDowngraded ==
    [][SchemaOf(chain'.rows[Meta].body) >= SchemaOf(chain.rows[Meta].body)]_vars

(* publish_gate(): a device that has once authenticated a newer format     *)
(* does not write to any chain again, not even after a crash that lost the *)
(* record of it.                                                           *)
FutureStopsWrites ==
    [][\A d \in Device :
          futureSeen[d] # "never" /\ pc'[d] # pc[d] => UNCHANGED relay]_vars

(* A newer format closes the account for edits until the process ends (and *)
(* beyond, once saved); no proof prepared earlier opens it again.          *)
FutureClosesAccount ==
    \A d \in Device : futureSeen[d] = "now" => WritesBlocked(mem[d])

(* push_section(): devices that do not know groups are locked out by the   *)
(* account format before the first grouped record is on a space chain.     *)
GroupsAfterSchema == space => SchemaOf(chain.rows[Meta].body) >= ACCOUNT_SCHEMA

(* A block that the account does not deserve is lifted by a later round,   *)
(* unless a newer format appears or the device waits for its restart.      *)
BlockHeals ==
    \A d \in Device :
        mem[d].blocked ~> \/ ~mem[d].blocked \/ saveBlocked[d]
                          \/ SchemaOf(chain.rows[Meta].body) > ACCOUNT_SCHEMA

(* The comment in confirm(): a background pull or upload receipt may       *)
(* advance the state between the two phases without changing the approval, *)
(* so the prepared proof of an honest relay is not refused.                *)
PreparedProofAccepted ==
    \A d \in Device : pin[d].at = "publish" =>
        Gate(mem[d], pin[d].pulled) # "invalid_pull"
=============================================================================
