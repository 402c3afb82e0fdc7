------------------------------ MODULE LwwRecords ------------------------------
(***************************************************************************)
(* The record operators a device synchronises with: last-writer-wins       *)
(* (sync/record.rs), the stamp of an edit (sync/record_repository.rs), and *)
(* the merge of a pull, the outgoing rows and the receipts of a push       *)
(* (sync/record_merge.rs).                                                 *)
(*                                                                         *)
(* A revision is a record header [ts, del, dev] with an id that stands for *)
(* its content: two edits never make the same id.  A local row is          *)
(* [rev, seq, dirty]; a row whose revision is NoRev is not there.  Device  *)
(* identities are numbers: the comparison of device_id is part of LWW.     *)
(***************************************************************************)
EXTENDS ChainRows

CONSTANT Device     \* device identities

ASSUME DeviceAssumption ==
    Device \subseteq Nat \ {0} /\ Device # {} /\ IsFiniteSet(Device)

NoRev == [ts |-> 0, del |-> FALSE, dev |-> 0, id |-> 0]

Rev == {NoRev} \cup [ts : Nat \ {0}, del : BOOLEAN, dev : Device, id : Nat]

NoRow == [rev |-> NoRev, seq |-> 0, dirty |-> FALSE]

(* merge(): the later time wins, then the tombstone, then the smaller      *)
(* device identity.                                                        *)
Beats(remote, mine) ==
    \/ remote.ts > mine.ts
    \/ remote.ts = mine.ts /\ remote.del /\ ~mine.del
    \/ remote.ts = mine.ts /\ remote.del = mine.del /\ remote.dev < mine.dev

(* Mutant of TakeRemote: the remote row always wins. *)
TakeRemoteAlways(local, remote) == TRUE

(* merge(): the outcome is not KeepLocal. *)
TakeRemote(local, remote) == local.rev = NoRev \/ Beats(remote, local.rev)

(* Mutant of Stamp: the device's clock alone. *)
StampClock(prev, now) == now

(* ordered_record(): an edit is later than the revision it replaces, on    *)
(* whatever clock the device has.                                          *)
Stamp(prev, now) == IF prev.ts >= now THEN prev.ts + 1 ELSE now

(* Mutant of ValidPull: an answer with nothing new is refused. *)
ValidPullStrict(section, pulled) ==
    section.baseline => pulled.latest > section.cursor

(* valid_pull(): the answer fits what the device already knows of the      *)
(* chain.                                                                  *)
ValidPull(section, pulled) ==
    /\ section.baseline \/ pulled.since = 0
    /\ section.baseline => pulled.since \in {0, section.cursor}
    /\ pulled.latest >= section.cursor
    /\ \A k \in Key : pulled.latest >= section.rows[k].seq
    /\ pulled.latest >= pulled.since
    /\ \A k \in Key : Present(pulled.rows[k]) =>
          /\ pulled.rows[k].seq > pulled.since
          /\ pulled.rows[k].seq <= pulled.latest
          /\ \A j \in Key \ {k} : pulled.rows[j].seq # pulled.rows[k].seq

(* Mutant of MergeRow: a row that is kept does not learn the new number. *)
MergeRowKeepsSeq(local, remote) ==
    IF Present(remote) /\ TakeRemote(local, remote.body)
    THEN [rev |-> remote.body, seq |-> remote.seq, dirty |-> FALSE]
    ELSE local

(* merge_rows(), one row. *)
MergeRow(local, remote) ==
    IF ~Present(remote) THEN local
    ELSE IF TakeRemote(local, remote.body)
         THEN [rev |-> remote.body, seq |-> remote.seq, dirty |-> FALSE]
         ELSE [local EXCEPT !.seq = IF local.seq >= remote.seq THEN local.seq
                                    ELSE remote.seq]

(* merge_space(): the rows, the cursor and the baseline. *)
MergeSpace(section, pulled) ==
    [section EXCEPT
        !.rows = [k \in Key |-> MergeRow(section.rows[k], pulled.rows[k])],
        !.cursor = pulled.latest,
        !.baseline = TRUE]

(* outgoing(): every dirty row, with the sequence number last seen. *)
Dirty(section) == {k \in Key : section.rows[k].dirty}

Outgoing(section) ==
    [k \in Key |-> [base |-> section.rows[k].seq, body |-> section.rows[k].rev]]

(* Mutant of ApplyReceipts: a conflict cleans the row, too. *)
ApplyReceiptsToAll(section, sent, accepted) ==
    [section EXCEPT !.rows = [k \in Key |-> [section.rows[k] EXCEPT !.dirty = FALSE]]]

(* Mutant of ApplyReceipts: the receipts advance the cursor. *)
ApplyReceiptsToCursor(section, sent, accepted) ==
    [section EXCEPT
        !.cursor = CHOOSE n \in {accepted[k] : k \in Key} \cup {section.cursor} :
                      \A k \in Key : n >= accepted[k] /\ n >= section.cursor]

(* apply_receipts(): a receipt cleans the row it was given for, if the row *)
(* still holds the revision that was sent.                                 *)
ApplyReceipts(section, sent, accepted) ==
    [section EXCEPT !.rows =
        [k \in Key |->
            IF /\ accepted[k] > 0 /\ accepted[k] >= sent[k].base
               /\ section.rows[k].dirty
               /\ section.rows[k].rev = sent[k].body
               /\ section.rows[k].seq <= accepted[k]
            THEN [section.rows[k] EXCEPT !.seq = accepted[k], !.dirty = FALSE]
            ELSE section.rows[k]]]
=============================================================================
