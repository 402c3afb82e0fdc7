----------------------------- MODULE Migration -----------------------------
(***************************************************************************)
(* The confirmed migration of version 2 hosts to records:                  *)
(* sync/record_migration.rs and its publication.rs and source.rs.  Several *)
(* devices migrate the same account, each with a preview in memory, a      *)
(* journal of its own and the marker that they share in the account's      *)
(* metadata; old clients may still write old rows, devices that are done   *)
(* edit the new ones, and one of them may raise the account format.        *)
(*                                                                         *)
(* A device migrates a paused version 2 profile ("legacy") or joins with   *)
(* records of its own ("join").  Rows are counters: legacy[h] is the       *)
(* revision of host h's old row and typed[h] of its new one, 0 if there is *)
(* none.  The conversion of a row is revision 1.  The version 1 chain,     *)
(* keys, pins and passwords are not modelled.                              *)
(***************************************************************************)
EXTENDS Naturals, FiniteSets

CONSTANTS
    Device,
    Joins,          \* the devices that join; the others have a version 2 profile
    Host,
    Selected,       \* the hosts of the spaces a device has selected
    Late,           \* hosts whose first old row an old client writes late
    BatchSize,      \* select_batch(): 200 rows
    Rebases,        \* how often a call tries to switch: 16
    MaxOldEdits,    \* bound on old clients' edits
    MaxEdits,       \* bound on edits of new rows and of local records
    MaxRaises,      \* how often the account format may be raised
    MaxOpens,       \* how often a version 2 workspace is opened and paused
    MaxFaults       \* bound on failed steps, lost answers and crashes

(* What the module assumes of its constants. *)
MigrationAssumption ==
    /\ IsFiniteSet(Device) /\ IsFiniteSet(Host)
    /\ Joins \subseteq Device /\ Late \subseteq Host
    /\ Selected \in [Device -> SUBSET Host]
    /\ BatchSize \in Nat \ {0} /\ Rebases \in Nat \ {0}
    /\ {MaxOldEdits, MaxEdits, MaxRaises, MaxOpens, MaxFaults} \subseteq Nat

VARIABLES
    meta,           \* the account's metadata: [schema, gate, seq]
    legacy, typed,  \* the old and the new row of every host
    state,          \* the profile: "legacy", "join" or "records"
    localRev,       \* the revision of the profile's local records
    generation,     \* core.generation
    preview,        \* PreparedMigration, in memory
    journal,        \* the latest journal on disk
    pc,             \* what confirm() or resume() does next
    seen,           \* what the call has read, and its tries to switch
    owed,           \* history: old rows in the plans that activated the account
    used            \* counters for the bounds

vars == <<meta, legacy, typed, state, localRev, generation, preview, journal,
          pc, seen, owed, used>>
relay == <<meta, legacy, typed>>
profile == <<state, localRev, generation>>

NoJournal == [phase |-> "none"]
NoPreview == [schema |-> 0]
NothingRead == [seq |-> 0, local |-> 0, generation |-> 0, original |-> FALSE, tries |-> 0]

(* records_v3::ACCOUNT_SCHEMA of this version; a migration knows 3. *)
AccountSchema == 4

Init ==
    /\ meta = [schema |-> 2, gate |-> "none", seq |-> 1]
    /\ legacy = [h \in Host |-> IF h \in Late THEN 0 ELSE 1]
    /\ typed = [h \in Host |-> 0]
    /\ state = [d \in Device |-> IF d \in Joins THEN "join" ELSE "legacy"]
    /\ localRev = [d \in Device |-> 0]
    /\ generation = [d \in Device |-> 1]
    /\ preview = [d \in Device |-> NoPreview]
    /\ journal = [d \in Device |-> NoJournal]
    /\ pc = [d \in Device |-> "idle"]
    /\ seen = [d \in Device |-> NothingRead]
    /\ owed = {}
    /\ used = [old |-> 0, edits |-> 0, raises |-> 0, opens |-> 0, faults |-> 0]

Use(counter, max) == used[counter] < max /\ used' = [used EXCEPT ![counter] = @ + 1]
Fault == Use("faults", MaxFaults)

Goto(d, where) == pc' = [pc EXCEPT ![d] = where]
Forget(d) == seen' = [seen EXCEPT ![d] = NothingRead]
Update(d, next) == journal' = [journal EXCEPT ![d] = next]

(* Journals that pending_migrations() lists. *)
Pending(d) == journal[d].phase \notin {"none", "active"}

(* observed_gate(): any schema above 3 is refused. *)
Admitted == meta.schema <= 3

(* The rows the preview hashes: account, selected spaces and profile. *)
Source(d) ==
    [schema |-> meta.schema, seq |-> meta.seq,
     rows |-> [h \in Selected[d] |-> <<legacy[h], typed[h]>>],
     local |-> localRev[d], generation |-> generation[d]]

(* prepare(): nothing is written. *)
Prepare(d) ==
    /\ pc[d] = "idle" /\ state[d] # "records" /\ Admitted
    /\ preview' = [preview EXCEPT ![d] = Source(d)]
    /\ UNCHANGED <<relay, profile, journal, pc, seen, owed, used>>

Plan(d) ==
    [phase |-> "prepared",
     items |-> {h \in Selected[d] : legacy[h] > 0 /\ typed[h] = 0},
     digests |-> [h \in Selected[d] |-> legacy[h]],
     source |-> localRev[d], generation |-> generation[d],
     backup |-> FALSE, staged |-> FALSE]

(* confirm(): the preview is consumed; it must still hash to the sources. *)
Confirm(d) ==
    /\ pc[d] = "idle" /\ preview[d] # NoPreview
    /\ preview' = [preview EXCEPT ![d] = NoPreview]
    /\ IF preview[d] = Source(d) /\ Admitted
       THEN /\ Update(d, Plan(d)) /\ Goto(d, "backup")
            /\ seen' = [seen EXCEPT ![d].original = TRUE]
       ELSE UNCHANGED <<journal, pc, seen>>
    /\ UNCHANGED <<relay, profile, owed, used>>

(* resume(): a completed switch is recognised by its receipt in the state. *)
Resume(d) ==
    /\ pc[d] = "idle" /\ Pending(d)
    /\ IF state[d] = "records"
       THEN Update(d, [journal[d] EXCEPT !.phase = "active"]) /\ UNCHANGED <<pc, seen>>
       ELSE /\ Goto(d, "backup") /\ UNCHANGED journal
            /\ seen' = [seen EXCEPT ![d].original = FALSE]
    /\ UNCHANGED <<relay, profile, preview, owed, used>>

(* Mutant of BackUp: without its source, the backup is left out. *)
BackUpSkipped(d) ==
    /\ pc[d] = "backup"
    /\ Update(d, [journal[d] EXCEPT !.backup =
              @ \/ seen[d].original \/ localRev[d] = journal[d].source])
    /\ Goto(d, "stage") /\ Forget(d)
    /\ UNCHANGED <<relay, profile, preview, owed, used>>

(* prepare_journal(): the original state is backed up once, from memory or *)
(* from a state file that has not changed; else the journal needs review.  *)
BackUp(d) ==
    /\ pc[d] = "backup"
    /\ IF journal[d].backup \/ seen[d].original \/ localRev[d] = journal[d].source
       THEN Update(d, [journal[d] EXCEPT !.backup = TRUE]) /\ Goto(d, "stage")
       ELSE Goto(d, "idle") /\ UNCHANGED journal
    /\ Forget(d)
    /\ UNCHANGED <<relay, profile, preview, owed, used>>

StageCode(d) ==
    /\ pc[d] = "stage"
    /\ Update(d, [journal[d] EXCEPT !.staged = TRUE]) /\ Goto(d, "verify")
    /\ UNCHANGED <<relay, profile, preview, seen, owed, used>>

(* check_legacy_sources(): every old row of the plan is as it was. *)
SourcesUnchanged(d) ==
    \A h \in Selected[d] :
        journal[d].digests[h] > 0 => legacy[h] = journal[d].digests[h]

(* verify_legacy_sources(); a difference is kept for review. *)
Verify(d) ==
    /\ pc[d] = "verify"
    /\ Goto(d, IF Admitted /\ SourcesUnchanged(d) THEN "gate" ELSE "idle")
    /\ UNCHANGED <<relay, profile, preview, journal, seen, owed, used>>

(* Mutant of ReadGate: the journal takes over the phase of the marker. *)
ReadGateAdopts(d) ==
    /\ pc[d] = "gate"
    /\ IF ~Admitted THEN Goto(d, "idle") /\ UNCHANGED <<journal, seen>>
       ELSE IF meta.gate # "none"
       THEN /\ Update(d, [journal[d] EXCEPT !.phase = meta.gate])
            /\ Goto(d, "publish") /\ UNCHANGED seen
       ELSE /\ seen' = [seen EXCEPT ![d].seq = meta.seq]
            /\ Goto(d, "gate_push") /\ UNCHANGED journal
    /\ UNCHANGED <<relay, profile, preview, owed, used>>

(* Mutant of ReadGate: a marker means that somebody else migrates. *)
ReadGateRefuses(d) ==
    /\ pc[d] = "gate"
    /\ IF ~Admitted \/ meta.gate # "none" THEN Goto(d, "idle") /\ UNCHANGED seen
       ELSE seen' = [seen EXCEPT ![d].seq = meta.seq] /\ Goto(d, "gate_push")
    /\ UNCHANGED <<relay, profile, preview, journal, owed, used>>

(* gate_account(): a marker of another device is adopted. *)
ReadGate(d) ==
    /\ pc[d] = "gate"
    /\ IF ~Admitted THEN Goto(d, "idle") /\ UNCHANGED <<journal, seen>>
       ELSE IF meta.gate # "none"
       THEN /\ Update(d, [journal[d] EXCEPT !.phase =
                     IF meta.gate = "active" THEN "publishing" ELSE "gated"])
            /\ Goto(d, "publish") /\ UNCHANGED seen
       ELSE /\ seen' = [seen EXCEPT ![d].seq = meta.seq]
            /\ Goto(d, "gate_push") /\ UNCHANGED journal
    /\ UNCHANGED <<relay, profile, preview, owed, used>>

(* Mutant of PushMeta: the relay does not compare the base revision. *)
PushMetaForced(d, gate) ==
    meta' = [schema |-> 3, gate |-> gate, seq |-> meta.seq + 1]

(* make_meta() on the row that was read, pushed with its seq: a conflict   *)
(* if another device has written the metadata meanwhile.                   *)
PushMeta(d, gate) ==
    /\ meta.seq = seen[d].seq
    /\ meta' = [schema |-> 3, gate |-> gate, seq |-> meta.seq + 1]

WriteGate(d) ==
    /\ pc[d] = "gate_push"
    /\ \/ /\ PushMeta(d, "gated")
          /\ \/ /\ Update(d, [journal[d] EXCEPT !.phase = "gated"])
                /\ Goto(d, "publish") /\ UNCHANGED used
             \/ Fault /\ Goto(d, "idle") /\ UNCHANGED journal
       \/ /\ meta.seq # seen[d].seq
          /\ Goto(d, "idle") /\ UNCHANGED <<meta, journal, used>>
    /\ Forget(d)
    /\ UNCHANGED <<legacy, typed, profile, preview, owed>>

(* publish_chain(): rows that exist by now win over their conversion. *)
Unpublished(d) == {h \in journal[d].items : typed[h] = 0}

(* Mutant of ReadRows: one batch is taken for the whole chain. *)
ReadRowsOnce(d) ==
    /\ pc[d] = "publish"
    /\ IF ~Admitted THEN Goto(d, "idle") /\ UNCHANGED journal
       ELSE /\ Update(d, [journal[d] EXCEPT !.items = Unpublished(d)])
            /\ Goto(d, IF Unpublished(d) = {} \/ journal[d].phase = "publishing"
                       THEN "baseline" ELSE "push")
    /\ UNCHANGED <<relay, profile, preview, seen, owed, used>>

ReadRows(d) ==
    /\ pc[d] = "publish"
    /\ IF ~Admitted THEN Goto(d, "idle") /\ UNCHANGED journal
       ELSE /\ Update(d, [journal[d] EXCEPT !.items = Unpublished(d)])
            /\ Goto(d, IF Unpublished(d) = {} THEN "baseline" ELSE "push")
    /\ UNCHANGED <<relay, profile, preview, seen, owed, used>>

Batches(d) ==
    LET items == journal[d].items IN
    {b \in SUBSET items :
        Cardinality(b) = IF Cardinality(items) < BatchSize THEN Cardinality(items) ELSE BatchSize}

(* Mutant of Converted: a row of base 0 replaces the one on the relay. *)
ConvertedOver(batch) == [h \in Host |-> IF h \in batch THEN 1 ELSE typed[h]]

(* The relay accepts a row of base 0 only where there is none. *)
Converted(batch) == [h \in Host |-> IF h \in batch /\ typed[h] = 0 THEN 1 ELSE typed[h]]

(* A conflict brings the row that is there, so either way the item is done. *)
PushRows(d) ==
    /\ pc[d] = "push"
    /\ \E batch \in Batches(d) :
          /\ typed' = Converted(batch)
          /\ \/ /\ Update(d, [journal[d] EXCEPT !.items = @ \ batch, !.phase = "publishing"])
                /\ Goto(d, "publish") /\ UNCHANGED used
             \/ /\ Fault /\ Goto(d, "idle")
                /\ Update(d, [journal[d] EXCEPT !.phase = "publishing"])
    /\ UNCHANGED <<meta, legacy, profile, preview, seen, owed>>

(* fresh_candidate(): the whole account and the old rows once more. *)
Baseline(d, from, to) ==
    /\ pc[d] = from
    /\ Goto(d, IF Admitted /\ SourcesUnchanged(d) THEN to ELSE "idle")
    /\ UNCHANGED <<relay, profile, preview, journal, seen, owed, used>>

FirstBaseline(d) == Baseline(d, "baseline", "finish")
FinalBaseline(d) == Baseline(d, "final", "rebase")

(* finish_gate() *)
ReadFinish(d) ==
    /\ pc[d] = "finish"
    /\ Goto(d, IF ~Admitted THEN "idle" ELSE IF meta.gate = "active" THEN "final" ELSE "finish_push")
    /\ seen' = [seen EXCEPT ![d].seq = IF meta.gate = "active" THEN 0 ELSE meta.seq]
    /\ UNCHANGED <<relay, profile, preview, journal, owed, used>>

WriteFinish(d) ==
    /\ pc[d] = "finish_push"
    /\ \/ /\ PushMeta(d, "active")
          /\ owed' = owed \cup {h \in Selected[d] : journal[d].digests[h] > 0}
          /\ \/ Goto(d, "final") /\ UNCHANGED used
             \/ Fault /\ Goto(d, "idle")
       \/ /\ meta.seq # seen[d].seq
          /\ Goto(d, "idle") /\ UNCHANGED <<meta, owed, used>>
    /\ Forget(d)
    /\ UNCHANGED <<legacy, typed, profile, preview, journal>>

(* execute(), the last loop: the candidate takes the latest local records; *)
(* a version 2 profile must still be the generation that was confirmed.    *)
Rebase(d) ==
    /\ pc[d] = "rebase"
    /\ IF d \notin Joins /\ generation[d] # journal[d].generation
       THEN Goto(d, "idle") /\ Forget(d)
       ELSE /\ seen' = [seen EXCEPT ![d].local = localRev[d], ![d].generation = generation[d],
                                    ![d].tries = @ + 1]
            /\ Goto(d, "commit")
    /\ UNCHANGED <<relay, profile, preview, journal, owed, used>>

(* Mutant of Commit: the candidate replaces whatever the profile holds. *)
CommitUnchecked(d) ==
    /\ pc[d] = "commit"
    /\ state' = [state EXCEPT ![d] = "records"]
    /\ localRev' = [localRev EXCEPT ![d] = seen[d].local]
    /\ generation' = [generation EXCEPT ![d] = @ + 1]
    /\ Goto(d, "record")
    /\ Forget(d)
    /\ UNCHANGED <<relay, preview, journal, owed, used>>

(* commit_migration_candidate(): superseded by any change in between, and  *)
(* tried again a number of times.                                          *)
Commit(d) ==
    /\ pc[d] = "commit"
    /\ IF generation[d] = seen[d].generation
       THEN /\ state' = [state EXCEPT ![d] = "records"]
            /\ localRev' = [localRev EXCEPT ![d] = seen[d].local]
            /\ generation' = [generation EXCEPT ![d] = @ + 1]
            /\ Goto(d, "record") /\ Forget(d)
       ELSE /\ IF seen[d].tries < Rebases THEN Goto(d, "rebase") /\ UNCHANGED seen
               ELSE Goto(d, "idle") /\ Forget(d)
            /\ UNCHANGED profile
    /\ UNCHANGED <<relay, preview, journal, owed, used>>

RecordActive(d) ==
    /\ pc[d] = "record"
    /\ Update(d, [journal[d] EXCEPT !.phase = "active"]) /\ Goto(d, "idle")
    /\ UNCHANGED <<relay, profile, preview, seen, owed, used>>

StepFails(d) ==
    /\ pc[d] # "idle" /\ Fault /\ Goto(d, "idle") /\ Forget(d)
    /\ UNCHANGED <<relay, profile, preview, journal, owed>>

(* The generation counts from the start of the process (activate_probe()). *)
Crash(d) ==
    /\ Fault /\ Goto(d, "idle") /\ Forget(d)
    /\ preview' = [preview EXCEPT ![d] = NoPreview]
    /\ generation' = [generation EXCEPT ![d] = 1]
    /\ UNCHANGED <<relay, state, localRev, journal, owed>>

(* resume_legacy(), then pause_legacy_workspace(): each takes a generation; *)
(* refused while a migration is pending.                                   *)
OpenAndPause(d) ==
    /\ pc[d] = "idle" /\ state[d] = "legacy" /\ ~Pending(d)
    /\ Use("opens", MaxOpens)
    /\ generation' = [generation EXCEPT ![d] = @ + 2]
    /\ UNCHANGED <<relay, state, localRev, preview, journal, pc, seen, owed>>

(* A record command on the device's own records; it waits for nobody. *)
EditLocal(d) ==
    /\ state[d] # "legacy" /\ Use("edits", MaxEdits)
    /\ localRev' = [localRev EXCEPT ![d] = @ + 1]
    /\ generation' = [generation EXCEPT ![d] = @ + 1]
    /\ UNCHANGED <<relay, state, preview, journal, pc, seen, owed>>

(* What other clients do: an old one that was not stopped, one that is     *)
(* done, and promote() of the groups, which keeps the marker.              *)
OldClientWrites(h) ==
    /\ Use("old", MaxOldEdits)
    /\ legacy' = [legacy EXCEPT ![h] = @ + 1]
    /\ UNCHANGED <<meta, typed, profile, preview, journal, pc, seen, owed>>

EditTyped(h) ==
    /\ meta.gate = "active" /\ typed[h] > 0 /\ Use("edits", MaxEdits)
    /\ typed' = [typed EXCEPT ![h] = @ + 1]
    /\ UNCHANGED <<meta, legacy, profile, preview, journal, pc, seen, owed>>

RaiseFormat ==
    /\ meta.gate = "active" /\ meta.schema < AccountSchema /\ Use("raises", MaxRaises)
    /\ meta' = [meta EXCEPT !.schema = @ + 1, !.seq = @ + 1]
    /\ UNCHANGED <<legacy, typed, profile, preview, journal, pc, seen, owed>>

Step(d) ==
    \/ BackUp(d) \/ StageCode(d) \/ Verify(d) \/ ReadGate(d) \/ WriteGate(d)
    \/ ReadRows(d) \/ PushRows(d) \/ FirstBaseline(d) \/ ReadFinish(d) \/ WriteFinish(d)
    \/ FinalBaseline(d) \/ Rebase(d) \/ Commit(d) \/ RecordActive(d)

Next ==
    \/ \E d \in Device :
          \/ Prepare(d) \/ Confirm(d) \/ Resume(d) \/ Step(d)
          \/ StepFails(d) \/ Crash(d) \/ OpenAndPause(d) \/ EditLocal(d)
    \/ \E h \in Host : OldClientWrites(h) \/ EditTyped(h)
    \/ RaiseFormat

Spec == Init /\ [][Next]_vars

(* A call runs to its end; the user resumes a pending migration. *)
ResumeSpec ==
    Spec /\ \A d \in Device :
        WF_vars(Step(d)) /\ WF_vars(Resume(d))

(* Also, a user whose profile is not migrated previews and confirms again. *)
FairSpec ==
    Spec /\ \A d \in Device :
        WF_vars(Step(d)) /\ SF_vars(Prepare(d)) /\ SF_vars(Confirm(d))

-----------------------------------------------------------------------------
TypeOK ==
    /\ meta.schema \in 2..AccountSchema /\ meta.gate \in {"none", "gated", "active"}
    /\ meta.seq \in Nat
    /\ legacy \in [Host -> Nat] /\ typed \in [Host -> Nat]
    /\ state \in [Device -> {"legacy", "join", "records"}]
    /\ localRev \in [Device -> Nat] /\ generation \in [Device -> Nat \ {0}]
    /\ \A d \in Device :
          pc[d] # "idle" => Pending(d) /\ journal[d].items \subseteq Selected[d]
    /\ owed \subseteq Host

(* Account marker Active is the completion gate: every old row that the    *)
(* activating device had planned has its new row.                          *)
ActiveIsComplete == meta.gate = "active" => \A h \in owed : typed[h] > 0

(* A profile is switched only to an active account, with its original      *)
(* state kept and a new row for every old row of its plan.                 *)
SwitchedSafely ==
    \A d \in Device : state[d] = "records" =>
        /\ meta.gate = "active" /\ journal[d].backup
        /\ \A h \in Selected[d] : journal[d].digests[h] > 0 => typed[h] > 0

(* A new row that exists, edits, tombstones and pins included, is changed  *)
(* by nobody's conversion.                                                 *)
ConversionNeverOverwrites ==
    [][\A h \in Host : typed[h] > 0 => typed'[h] >= typed[h]]_vars

(* The account never goes back to an earlier format, nor an active account *)
(* to a pending one.                                                       *)
NeverDowngraded ==
    [][/\ meta'.schema >= meta.schema
       /\ meta.gate = "active" => meta'.gate = "active"]_vars

(* A change of the local records while the migration publishes survives.   *)
LocalEditsSurvive == [][\A d \in Device : localRev'[d] >= localRev[d]]_vars

(* A profile whose owner keeps reviewing is migrated in the end. *)
MigrationCompletes(d) == <>(state[d] = "records")
=============================================================================
