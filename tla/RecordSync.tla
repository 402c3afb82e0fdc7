------------------------------ MODULE RecordSync ------------------------------
(***************************************************************************)
(* Devices that synchronise one record space through a relay chain:        *)
(* sync/record_round.rs (the round), sync/record_merge.rs (merge, outgoing *)
(* rows, receipts), sync/record_runtime.rs (what reaches the disk when),   *)
(* sync/record_repository.rs (edits) and sync/merge.rs (push batches),     *)
(* against the push and pull of relay/src/index.ts.                        *)
(*                                                                         *)
(* A round and an edit of one device exclude each other (the lifecycle     *)
(* lock); between two devices everything interleaves, and every request    *)
(* can be lost, answered without the answer arriving, or arrive after the  *)
(* device has given up on it.  A device can crash between any two steps    *)
(* and comes back with what is on its disk.                                *)
(*                                                                         *)
(* The account chain and its format gate are a separate matter: here the   *)
(* gate answers Compatible unless the device has marked the account frozen.*)
(* core.unsaved is not a variable: it matters when memory and disk differ. *)
(* Records kept on one device only, which persist_candidate() moves into   *)
(* the space when the library is enabled, are not modelled: on the chain   *)
(* such a record is a creation.                                            *)
(***************************************************************************)
EXTENDS LwwRecords

CONSTANTS
    Host,           \* the identities that are hosts; the others are groups
    MaxNow,         \* bound on the clock readings of an edit
    MaxEdits,       \* bound on the number of edits
    MaxFaults,      \* bound on losses, failed saves and crashes
    AllowFreeze,    \* another device may change the sync code
    AllowPurge,     \* the relay may erase the idle chain
    AllowRestore,   \* the relay's operator may restore an old backup
    AllowReview     \* merged records may need a relationship review

ASSUME SyncAssumption ==
    /\ Host \subseteq Key
    /\ {MaxNow, MaxEdits, MaxFaults} \subseteq Nat
    /\ {AllowFreeze, AllowPurge, AllowRestore, AllowReview} \subseteq BOOLEAN

VARIABLES
    chain,          \* the relay: [latest, rows, frozen, gone, lost]; gone: the
                    \* chain does not exist; lost: history, it lost rows
    mem,            \* core.records, per device (a section, below)
    disk,           \* the state file, per device (a section)
    saveBlocked,    \* core.save_blocked, per device
    pc,             \* what the device's round does next
    pulled,         \* the answer of the round's pull: [since, latest, rows]
    sent,           \* the outgoing rows of the round: [Key -> [base, body]]
    todo,           \* outgoing rows not yet pushed
    accepted,       \* receipts of the round: [Key -> seq], 0 for none
    net,            \* pushes the relay has not seen yet, whose sender gave up
    edits, faults   \* counters for the bounds

vars == <<chain, mem, disk, saveBlocked, pc, pulled, sent, todo, accepted, net,
          edits, faults>>

roundData == <<pulled, sent, todo, accepted>>

(* The part of SyncStateV3 that one space's round reads and writes. *)
Section == [rows : [Key -> [rev : Rev, seq : Nat, dirty : BOOLEAN]],
            cursor : Nat, baseline : BOOLEAN, missing : BOOLEAN,
            blocked : BOOLEAN, frozen : BOOLEAN]

EmptySection == [rows |-> [k \in Key |-> NoRow], cursor |-> 0, baseline |-> FALSE,
                 missing |-> FALSE, blocked |-> FALSE, frozen |-> FALSE]

NoTable == [k \in Key |-> [seq |-> 0, body |-> NoRev]]

NoPull == [since |-> 0, latest |-> 0, rows |-> NoTable]

NothingSent == [k \in Key |-> [base |-> 0, body |-> NoRev]]

NoReceipts == [k \in Key |-> 0]

(* account_writes_blocked() *)
WritesBlocked(section) == section.blocked \/ section.frozen

Init ==
    /\ chain = [latest |-> 0, rows |-> NoTable, frozen |-> FALSE, gone |-> FALSE,
                lost |-> FALSE]
    /\ mem = [d \in Device |-> EmptySection]
    /\ disk = mem
    /\ saveBlocked = [d \in Device |-> FALSE]
    /\ pc = [d \in Device |-> "idle"]
    /\ pulled = [d \in Device |-> NoPull]
    /\ sent = [d \in Device |-> NothingSent]
    /\ todo = [d \in Device |-> {}]
    /\ accepted = [d \in Device |-> NoReceipts]
    /\ net = {}
    /\ edits = 0 /\ faults = 0

Goto(d, where) == pc' = [pc EXCEPT ![d] = where]

(* The round is over, or lost with the process: its local values are gone. *)
EndRound(d) ==
    /\ Goto(d, "idle")
    /\ pulled' = [pulled EXCEPT ![d] = NoPull]
    /\ sent' = [sent EXCEPT ![d] = NothingSent]
    /\ todo' = [todo EXCEPT ![d] = {}]
    /\ accepted' = [accepted EXCEPT ![d] = NoReceipts]

Fault == faults < MaxFaults /\ faults' = faults + 1

(* persist_candidate(): the disk first, then the memory. *)
Persist(d, section) ==
    /\ mem' = [mem EXCEPT ![d] = section]
    /\ disk' = [disk EXCEPT ![d] = section]

-----------------------------------------------------------------------------
Live(row) == row.rev # NoRev /\ ~row.rev.del

NewRev(d, prev, now, del) ==
    [ts |-> Stamp(prev, now), del |-> del, dev |-> d, id |-> edits + 1]

(* A host whose endpoint changed, by its own new revision or by a group's, *)
(* loses its pin in a revision of this device: finish() of a group command *)
(* stamps it like an edit, invalidate_changed_pins(), part of every        *)
(* persist, one past the revision it replaces (now = 0).  Whether the      *)
(* endpoint changed is data: any subset of the hosts concerned.            *)
Repinnable(before, after) ==
    {h \in Host : /\ Live(before[h]) /\ Live(after[h])
                  /\ \E k \in {h} \cup (Key \ Host) : before[k].rev # after[k].rev}

(* Mutant of Unpin: the revision keeps the stamp it replaces. *)
UnpinKeepsStamp(d, rows, hosts, now) ==
    [k \in Key |->
        IF k \in hosts
        THEN [rows[k] EXCEPT !.rev.id = edits + 1, !.dirty = TRUE]
        ELSE rows[k]]

(* Mutant of Unpin: the new revision is not marked for upload. *)
UnpinClean(d, rows, hosts, now) ==
    [k \in Key |->
        IF k \in hosts
        THEN [rows[k] EXCEPT !.rev = NewRev(d, rows[k].rev, now, FALSE)]
        ELSE rows[k]]

Unpin(d, rows, hosts, now) ==
    [k \in Key |->
        IF k \in hosts
        THEN [rows[k] EXCEPT !.rev = NewRev(d, rows[k].rev, now, FALSE), !.dirty = TRUE]
        ELSE rows[k]]

(* create_host(), update_host(), delete_host() and the group commands,     *)
(* through edit_records(): a fresh identity is created, a live record is   *)
(* updated or deleted, in a scope that is writable and not missing.        *)
Edit(d, k, now, del) ==
    LET row == mem[d].rows[k]
        rows == [mem[d].rows EXCEPT
                    ![k] = [rev |-> NewRev(d, row.rev, now, del),
                            seq |-> row.seq, dirty |-> TRUE]]
    IN  /\ pc[d] = "idle" /\ edits < MaxEdits
        /\ ~saveBlocked[d] /\ ~WritesBlocked(mem[d]) /\ ~mem[d].missing
        /\ \/ Live(row)
           \/ ~del /\ \A e \in Device : mem[e].rows[k].rev = NoRev
        /\ \E hosts \in SUBSET (Repinnable(mem[d].rows, rows) \ {k}) :
              Persist(d, [mem[d] EXCEPT !.rows = Unpin(d, rows, hosts, now)])
        /\ edits' = edits + 1
        /\ UNCHANGED <<chain, saveBlocked, pc, roundData, net, faults>>

-----------------------------------------------------------------------------
(* run(), preflight() and fresh_account_gate(): receipts that are only in  *)
(* memory are saved before anything else; a compatible gate clears an      *)
(* earlier block.  A frozen account or a missing space ends the round here *)
(* and changes nothing.                                                    *)
StartRound(d) ==
    /\ pc[d] = "idle" /\ ~saveBlocked[d]
    /\ ~mem[d].frozen /\ ~mem[d].missing
    /\ Persist(d, [mem[d] EXCEPT !.blocked = FALSE])
    /\ Goto(d, "pull")
    /\ UNCHANGED <<chain, saveBlocked, roundData, net, edits, faults>>

(* run(): the pull of the space, from the cursor or from the beginning. *)
Pull(d) ==
    LET since == IF mem[d].baseline THEN mem[d].cursor ELSE 0
    IN  /\ pc[d] = "pull" /\ ~chain.gone
        /\ pulled' = [pulled EXCEPT ![d] =
              [since |-> since, latest |-> chain.latest,
               rows |-> [k \in Key |-> IF k \in NewerThan(chain.rows, since)
                                       THEN chain.rows[k] ELSE NoTable[k]]]]
        /\ Goto(d, "merge")
        /\ UNCHANGED <<chain, mem, disk, saveBlocked, sent, todo, accepted, net,
                       edits, faults>>

(* run(): NotFound marks the space missing. *)
PullNotFound(d) ==
    /\ pc[d] = "pull" /\ chain.gone
    /\ Persist(d, [mem[d] EXCEPT !.missing = TRUE])
    /\ EndRound(d)
    /\ UNCHANGED <<chain, saveBlocked, net, edits, faults>>

(* section_commit() of a merge that valid_pull() refuses: the account is   *)
(* blocked.                                                                *)
RefusePull(d) ==
    /\ pc[d] = "merge" /\ ~ValidPull(mem[d], pulled[d])
    /\ Persist(d, [mem[d] EXCEPT !.blocked = TRUE])
    /\ EndRound(d)
    /\ UNCHANGED <<chain, saveBlocked, net, edits, faults>>

(* section_commit() of a merge, then space_outgoing(): the round goes on   *)
(* to push unless nothing is dirty or the merged records need a review.    *)
Merge(d) ==
    LET merged == MergeSpace(mem[d], pulled[d])
    IN  /\ pc[d] = "merge" /\ ValidPull(mem[d], pulled[d])
        /\ \E hosts \in SUBSET Repinnable(mem[d].rows, merged.rows) :
              LET next == [merged EXCEPT !.rows = Unpin(d, @, hosts, 0)]
              IN  /\ hosts # {} => edits < MaxEdits
                  /\ edits' = edits + (IF hosts = {} THEN 0 ELSE 1)
                  /\ Persist(d, next)
                  /\ \/ /\ AllowReview \/ Dirty(next) = {}
                        /\ EndRound(d)
                     \/ /\ Dirty(next) # {}
                        /\ Goto(d, "push")
                        /\ pulled' = [pulled EXCEPT ![d] = NoPull]
                        /\ sent' = [sent EXCEPT ![d] = Outgoing(next)]
                        /\ todo' = [todo EXCEPT ![d] = Dirty(next)]
                        /\ accepted' = [accepted EXCEPT ![d] = NoReceipts]
        /\ UNCHANGED <<chain, saveBlocked, net, faults>>

(* The round returns an error before it has pushed anything: a request of  *)
(* the account gate or the pull fails, or the merge cannot be saved.       *)
Abort(d) ==
    /\ pc[d] \in {"pull", "merge"}
    /\ Fault
    /\ EndRound(d)
    /\ UNCHANGED <<chain, mem, disk, saveBlocked, net, edits>>

-----------------------------------------------------------------------------
(* push_outgoing(): the rows go out in batches, in key order; where one    *)
(* batch ends and the next begins depends on sizes.                        *)
Batches(d) ==
    {b \in SUBSET todo[d] : b # {} /\ \A i \in b, j \in todo[d] \ b : i < j}

BatchItems(d, b) == [k \in b |-> sent[d][k]]

(* Mutant of RelayPush: the cut-off is not looked at. *)
RelayPushFrozen(items) ==
    chain' = IF chain.gone THEN chain
             ELSE [chain EXCEPT
                      !.rows = RowsAfter(chain.rows, chain.latest, items),
                      !.latest = LatestAfter(chain.rows, chain.latest, items)]

(* The relay's push(), once a request reaches it. *)
RelayPush(items) ==
    chain' = IF chain.frozen \/ chain.gone THEN chain
             ELSE [chain EXCEPT
                      !.rows = RowsAfter(chain.rows, chain.latest, items),
                      !.latest = LatestAfter(chain.rows, chain.latest, items)]

(* A batch is answered: the accepted items are noted, the refused ones     *)
(* stay dirty.  The last batch, or an answer 404, ends the push.           *)
PushBatch(d) ==
    /\ pc[d] = "push" /\ ~chain.frozen
    /\ \E b \in Batches(d) :
          LET items == BatchItems(d, b)
              acc == IF chain.gone THEN {} ELSE Accepted(chain.rows, items)
              rest == IF chain.gone THEN {} ELSE todo[d] \ b
          IN  /\ RelayPush(items)
              /\ accepted' = [accepted EXCEPT ![d] =
                    [k \in Key |-> IF k \in acc THEN SeqOf(chain.latest, acc, k)
                                   ELSE @[k]]]
              /\ todo' = [todo EXCEPT ![d] = rest]
              /\ Goto(d, IF rest = {} THEN "receipt" ELSE "push")
    /\ UNCHANGED <<mem, disk, saveBlocked, pulled, sent, net, edits, faults>>

(* Mutant of PushFails: a batch that gets no answer counts as accepted. *)
PushFailsAccepts(d) ==
    /\ pc[d] = "push" /\ Fault
    /\ accepted' = [accepted EXCEPT ![d] =
          [k \in Key |-> IF k \in todo[d] THEN chain.latest + 1 ELSE @[k]]]
    /\ todo' = [todo EXCEPT ![d] = {}]
    /\ Goto(d, "receipt")
    /\ UNCHANGED <<chain, net, mem, disk, saveBlocked, pulled, sent, edits>>

(* A batch fails: it never reaches the relay, or it is applied and the     *)
(* answer is lost, or it will reach the relay later.  Nothing of it is     *)
(* taken for accepted.                                                     *)
PushFails(d) ==
    /\ pc[d] = "push" /\ Fault
    /\ \E b \in Batches(d) :
          \/ UNCHANGED <<chain, net>>
          \/ RelayPush(BatchItems(d, b)) /\ UNCHANGED net
          \/ net' = net \cup {BatchItems(d, b)} /\ UNCHANGED chain
    /\ todo' = [todo EXCEPT ![d] = {}]
    /\ Goto(d, "receipt")
    /\ UNCHANGED <<mem, disk, saveBlocked, pulled, sent, accepted, edits>>

(* Mutant of PushFrozen: 409 is taken for a failure like any other. *)
PushFrozenUnnoticed(d) ==
    /\ pc[d] = "push" /\ chain.frozen /\ ~chain.gone
    /\ todo' = [todo EXCEPT ![d] = {}]
    /\ Goto(d, "receipt")
    /\ UNCHANGED <<chain, mem, disk, saveBlocked, pulled, sent, accepted, net,
                   edits, faults>>

(* A batch is answered 409: the chain is frozen. *)
PushFrozen(d) ==
    /\ pc[d] = "push" /\ chain.frozen /\ ~chain.gone
    /\ todo' = [todo EXCEPT ![d] = {}]
    /\ Goto(d, "frozen")
    /\ UNCHANGED <<chain, mem, disk, saveBlocked, pulled, sent, accepted, net,
                   edits, faults>>

(* receipt_commit(): the receipts are kept in memory even when they cannot *)
(* be saved; then note_failure() or the end of the round.                  *)
Receipt(d) ==
    LET next == ApplyReceipts(mem[d], sent[d], accepted[d])
    IN  /\ pc[d] = "receipt"
        /\ mem' = [mem EXCEPT ![d] = next]
        /\ \/ disk' = [disk EXCEPT ![d] = next] /\ UNCHANGED faults
           \/ Fault /\ UNCHANGED disk
        /\ EndRound(d)
        /\ UNCHANGED <<chain, saveBlocked, net, edits>>

(* Mutant of ReceiptFrozen: what the frozen chain refused is dropped. *)
ReceiptFrozenDrops(d) ==
    /\ pc[d] = "frozen"
    /\ Persist(d, [mem[d] EXCEPT !.blocked = TRUE, !.frozen = TRUE,
                      !.rows = [k \in Key |-> [@[k] EXCEPT !.dirty = FALSE]]])
    /\ EndRound(d)
    /\ UNCHANGED <<chain, saveBlocked, faults, net, edits>>

(* receipt_commit(), then mark_frozen(): the freeze is recorded; when that *)
(* cannot be saved, fail_closed() stops every later save until a restart.  *)
(* When the receipts cannot be saved, mark_frozen() is not reached, and    *)
(* note_failure() may or may not save them.                                *)
ReceiptFrozen(d) ==
    LET next == ApplyReceipts(mem[d], sent[d], accepted[d])
    IN  /\ pc[d] = "frozen"
        /\ \/ /\ Persist(d, [next EXCEPT !.blocked = TRUE, !.frozen = TRUE])
              /\ UNCHANGED <<saveBlocked, faults>>
           \/ /\ Fault
              /\ mem' = [mem EXCEPT ![d] = [next EXCEPT !.blocked = TRUE]]
              /\ disk' = [disk EXCEPT ![d] = next]
              /\ saveBlocked' = [saveBlocked EXCEPT ![d] = TRUE]
           \/ /\ Fault
              /\ mem' = [mem EXCEPT ![d] = next]
              /\ disk' \in {disk, [disk EXCEPT ![d] = next]}
              /\ UNCHANGED saveBlocked
        /\ EndRound(d)
        /\ UNCHANGED <<chain, net, edits>>

-----------------------------------------------------------------------------
(* The process ends and starts again from the state file. *)
Crash(d) ==
    /\ Fault
    /\ mem' = [mem EXCEPT ![d] = disk[d]]
    /\ saveBlocked' = [saveBlocked EXCEPT ![d] = FALSE]
    /\ EndRound(d)
    /\ UNCHANGED <<chain, disk, net, edits>>

(* A push whose sender has given up reaches the relay. *)
LateDelivery ==
    \E items \in net :
        /\ RelayPush(items)
        /\ net' = net \ {items}
        /\ UNCHANGED <<mem, disk, saveBlocked, pc, roundData, edits, faults>>

(* Another device changes the sync code: the chain is frozen. *)
FreezeChain ==
    /\ AllowFreeze /\ ~chain.frozen /\ ~chain.gone
    /\ chain' = [chain EXCEPT !.frozen = TRUE]
    /\ UNCHANGED <<mem, disk, saveBlocked, pc, roundData, net, edits, faults>>

(* The relay's idle alarm erases the chain. *)
PurgeChain ==
    /\ AllowPurge /\ ~chain.gone
    /\ chain' = [latest |-> 0, rows |-> NoTable, frozen |-> FALSE, gone |-> TRUE,
                 lost |-> TRUE]
    /\ UNCHANGED <<mem, disk, saveBlocked, pc, roundData, net, edits, faults>>

(* The relay's storage is replaced by a backup from before the first row.  *)
RestoreChain ==
    /\ AllowRestore /\ ~chain.gone /\ chain.latest > 0
    /\ chain' = [latest |-> 0, rows |-> NoTable, frozen |-> FALSE, gone |-> FALSE,
                 lost |-> TRUE]
    /\ UNCHANGED <<mem, disk, saveBlocked, pc, roundData, net, edits, faults>>

RoundStep(d) ==
    \/ StartRound(d) \/ Pull(d) \/ PullNotFound(d) \/ RefusePull(d) \/ Merge(d)
    \/ PushBatch(d) \/ PushFrozen(d) \/ Receipt(d) \/ ReceiptFrozen(d)

Next ==
    \/ \E d \in Device :
          \/ \E k \in Key, now \in 1..MaxNow, del \in BOOLEAN : Edit(d, k, now, del)
          \/ RoundStep(d) \/ Abort(d) \/ PushFails(d) \/ Crash(d)
    \/ LateDelivery \/ FreezeChain \/ PurgeChain \/ RestoreChain

Spec == Init /\ [][Next]_vars

(* The engine starts a round every poll interval and a round runs to its   *)
(* end; a request on the network arrives in the end.                       *)
FairSpec ==
    /\ Spec
    /\ \A d \in Device : WF_vars(RoundStep(d))
    /\ WF_vars(LateDelivery)

-----------------------------------------------------------------------------
TypeOK ==
    /\ chain \in [latest : Nat, rows : [Key -> [seq : Nat, body : Rev]],
                  frozen : BOOLEAN, gone : BOOLEAN, lost : BOOLEAN]
    /\ mem \in [Device -> Section]
    /\ disk \in [Device -> Section]
    /\ saveBlocked \in [Device -> BOOLEAN]
    /\ pc \in [Device -> {"idle", "pull", "merge", "push", "receipt", "frozen"}]
    /\ pulled \in [Device -> [since : Nat, latest : Nat,
                              rows : [Key -> [seq : Nat, body : Rev]]]]
    /\ sent \in [Device -> [Key -> [base : Nat, body : Rev]]]
    /\ todo \in [Device -> SUBSET Key]
    /\ accepted \in [Device -> [Key -> Nat]]
    /\ \A items \in net : /\ DOMAIN items \subseteq Key
                          /\ \A k \in DOMAIN items :
                                items[k] \in [base : Nat, body : Rev]
    /\ edits \in 0..MaxEdits /\ faults \in 0..MaxFaults
    /\ \A d \in Device : todo[d] # {} <=> pc[d] = "push"

(* The relay compares sequence numbers and cannot see times.  Still no     *)
(* push that it accepts (retried after a lost answer, delivered long after *)
(* its sender gave up, or sent by a device that crashed) replaces a row by *)
(* a revision that last-writer-wins would have refused.                    *)
RelayNeverRegresses ==
    [][~chain'.lost =>
          \A k \in Key : ~Beats(chain.rows[k].body, chain'.rows[k].body)]_vars

(* No step of a device, a restart from disk included, takes a record back  *)
(* to an earlier revision: an edit that was confirmed is never undone by   *)
(* anything but a later one.                                               *)
DeviceNeverRegresses ==
    [][\A d \in Device, k \in Key :
          ~Beats(mem[d].rows[k].rev, mem'[d].rows[k].rev)]_vars

(* apply_receipts() and merge_rows(): a row that is not marked for upload, *)
(* in memory or on disk, is on the relay, or the relay has a later one.    *)
CleanMeansStored ==
    ~chain.lost =>
        \A d \in Device, k \in Key : \A section \in {mem[d], disk[d]} :
            ~section.rows[k].dirty =>
                ~Beats(section.rows[k].rev, chain.rows[k].body)

(* merge_space() advances the cursor past rows it will never ask for       *)
(* again: every row up to the cursor has been merged, in the memory and in *)
(* the state file the device restarts from.                                *)
CursorCovers ==
    ~chain.lost =>
        \A d \in Device, k \in Key : \A section \in {mem[d], disk[d]} :
            section.baseline /\ chain.rows[k].seq <= section.cursor =>
                ~Beats(chain.rows[k].body, section.rows[k].rev)

(* merge() compares headers only: two revisions of a record with the same  *)
(* time, tombstone and device are the same revision, so the tie it leaves  *)
(* undecided never hides two contents.                                     *)
AllRevs(k) ==
    {chain.rows[k].body}
        \cup {mem[d].rows[k].rev : d \in Device}
        \cup {pulled[d].rows[k].body : d \in Device}
        \cup {sent[d][k].body : d \in Device}
        \cup {items[k].body : items \in {i \in net : k \in DOMAIN i}}

HeaderIdentifiesRevision ==
    \A k \in Key : \A a, b \in AllRevs(k) :
        ~Beats(a, b) /\ ~Beats(b, a) => a = b

(* valid_pull() blocks the account when an answer contradicts what the     *)
(* device knows; an honest relay's answer never does, whatever was saved   *)
(* or lost in between, as long as the chain lives.                         *)
HonestPullAccepted ==
    \A d \in Device : pc[d] = "merge" /\ ~chain.lost => ValidPull(mem[d], pulled[d])

(* The relay that the devices synchronise through does nothing that the    *)
(* service of ChainService does not allow, with requests that arrive late  *)
(* or twice, a freeze and an erasure, but for its operator restoring a     *)
(* backup: what is shown of the devices is not shown with a relay that     *)
(* ChainStore could not be.                                                *)
Service == INSTANCE ChainService WITH
               open <- ~chain.gone, latest <- chain.latest, frozen <- chain.frozen,
               rows <- chain.rows, NoRow <- [seq |-> 0, body |-> NoRev]

RelayIsService == Service!Init /\ [][Service!Next \/ RestoreChain]_chain

(* Everybody has everything: all rows are uploaded and every device holds  *)
(* the relay's revisions.                                                  *)
Converged ==
    \A d \in Device, k \in Key :
        /\ ~mem[d].rows[k].dirty
        /\ mem[d].rows[k].rev = chain.rows[k].body

(* Once edits and failures cease, the rounds of all devices bring them and *)
(* the relay to one state and keep them there.                             *)
EventuallyConverged == <>[]Converged

(* A frozen chain answers 409 and mark_frozen() records it: a device with  *)
(* something to upload does not retry for ever, it stops shared edits.     *)
FreezeNoticed ==
    \A d \in Device :
        chain.frozen /\ Dirty(mem[d]) # {}
            ~> Dirty(mem[d]) = {} \/ WritesBlocked(mem[d])
=============================================================================
