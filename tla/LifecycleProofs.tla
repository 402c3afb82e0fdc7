-------------------------- MODULE LifecycleProofs ---------------------------
(***************************************************************************)
(* Proofs about the operations of an account's life: Rotation, for any     *)
(* writes, spaces, batch size and number of failures; then LeaveAccount,   *)
(* AccountSetup and Migration.                                             *)
(*                                                                         *)
(* A rotation's journal is in memory and on disk and the two may differ,   *)
(* since a save can fail after the relay acted: OpOK says of each what its *)
(* step means at the relay, and it is stable whatever other devices and    *)
(* late pushes do (Grows).  PlaceOK says what each place of                *)
(* resume_locked() relies on.                                              *)
(***************************************************************************)
EXTENDS Lifecycle, TLAPS

(* Every old chain that was listed is frozen, and its rows are in the new  *)
(* chains, which exist.                                                    *)
AllFrozen == old[Account].frozen /\ \A s \in SpacesOf(old[Account].rows) : old[s].frozen

Complete ==
    /\ old[Account].rows \subseteq new[Account].rows
    /\ \A s \in SpacesOf(old[Account].rows) : new[s].exists /\ old[s].rows \subseteq new[s].rows

(* The new account's metadata is at least what an operation wants. *)
Reached(meta) == IF meta = "active" THEN marker = "active" ELSE marker # "none"

(* What a journal says about the relay. *)
OpOK(o) ==
    /\ \A c \in o.frozen : old[c].frozen
    /\ \A c \in o.created : new[c].exists
    /\ o.step \in {"copying", "activating"} =>
          /\ AllFrozen /\ o.source = SourceFull
          /\ \A c \in Chain : o.source[c] \subseteq new[c].rows \cup o.dirty[c]
          /\ Meta \notin o.dirty[Account] => Reached(o.meta)
    /\ o.meta = "active" => o.step = "activating"
    /\ o.step = "activating" => o.meta = "active" /\ Complete /\ marker # "none"

(* A state of the records, in memory or on disk. *)
StateOK(st) ==
    /\ st.op # NoOp => OpOK(st.op) /\ (st.op.activated <=> st.account = "new")
    /\ st.account = "new" => keychain.mnemonic = "new" /\ ~st.blocked
    /\ st.account = "old" /\ keychain.mnemonic = "new" => st.op # NoOp /\ keychain.archive
    /\ st.op = NoOp => ~st.blocked /\ (st.account = "old" => ~old[Account].frozen)

(* Memory and disk agree on how far the operation is. *)
Agree ==
    /\ mem.account = disk.account
    /\ mem.op = NoOp <=> disk.op = NoOp

(* The pushes of an activation come after the copy. *)
ActiveOK ==
    /\ marker = "active" => AllFrozen /\ Complete
    /\ \A p \in net : p.meta = "active" => AllFrozen /\ Complete

KeysOK ==
    /\ (\E c \in Chain : old[c].frozen) => keychain.staged \/ keychain.mnemonic = "new"
    /\ keychain.mnemonic = "new" => marker = "active"

Freezing == {"freeze", "freeze_account", "list_spaces", "freeze_spaces", "snapshot"}
Copying == {"prove_account", "push_account", "prove_spaces", "push_space", "seal"}
Activating == {"prove_active", "push_active", "promote", "activate"}
Cleaning == {"clean", "delete_staged", "delete_archive", "finish"}
Pushing == {"push_account", "push_space", "push_active"}
Places == {"idle", "source", "archive", "stage", "block", "create", "create_spaces"}
          \cup Freezing \cup Copying \cup Activating \cup Cleaning

(* What each place of resume_locked() relies on. *)
PlaceAt(at, o) ==
    /\ at \in Places
    /\ at \in Cleaning => o.activated
    /\ at \notin Cleaning \cup {"idle"} => ~o.activated
    /\ at \notin Cleaning \cup {"idle", "source", "archive"} => keychain.archive
    /\ at \in Freezing => keychain.staged /\ o.step \in {"prepared", "freezing"}
    /\ at \in {"list_spaces", "freeze_spaces", "snapshot"} => old[Account].frozen
    /\ at \in {"freeze_spaces", "snapshot"} => o.source[Account] = old[Account].rows
    /\ at = "snapshot" => AllFrozen
    /\ at \in {"block", "create", "create_spaces"} => o.step \in {"copying", "activating"}
    /\ at \in Copying => o.step = "copying"
    /\ at \in Activating => o.step = "activating"
    /\ at \in Copying \cup Activating => SpacesOf(o.source[Account]) \subseteq o.created
    /\ at = "push_space" => \E s \in Space : o.dirty[s] # {}
    /\ at = "activate" => keychain.mnemonic = "new"

PlaceOK == PlaceAt(pc, op)

(* A row has a receipt only if the relay has it. *)
AckedOK ==
    /\ acked # {} => pc \in Pushing
    /\ pc \in Pushing => /\ acked \ {Meta} \subseteq new[ChainAt].rows
                         /\ Meta \in acked => Reached(op.meta)

IInv ==
    /\ TypeOK /\ StateOK(mem) /\ StateOK(disk) /\ Agree /\ ActiveOK /\ KeysOK /\ PlaceOK
    /\ AckedOK

-----------------------------------------------------------------------------
(* Types. *)
Row == Write \cup Space
Records == [account : {"old", "new"}, blocked : BOOLEAN, op : Op \cup {NoOp}]

RelayType ==
    /\ old \in [Chain -> [rows : SUBSET Row, frozen : BOOLEAN]]
    /\ new \in [Chain -> [exists : BOOLEAN, rows : SUBSET (Row \cup {Joiner})]]
    /\ marker \in {"none", "publishing", "active"}
    /\ net \subseteq [chain : Chain, rows : SUBSET (Row \cup {Meta}), meta : {"publishing", "active"}]

LEMMA TypeParts ==
    TypeOK <=> /\ RelayType /\ mem \in Records /\ disk \in Records
               /\ keychain \in [mnemonic : {"old", "new"}, staged : BOOLEAN, archive : BOOLEAN]
               /\ shown \in BOOLEAN /\ faults \in 0..MaxFaults
               /\ acked \subseteq Row \cup {Meta}
               /\ (pc # "idle" => Pending)
  BY DEF TypeOK, RelayType, Records, Row

LEMMA TypePartsNext ==
    TypeOK' <=> /\ RelayType' /\ mem' \in Records /\ disk' \in Records
                /\ keychain' \in [mnemonic : {"old", "new"}, staged : BOOLEAN, archive : BOOLEAN]
                /\ shown' \in BOOLEAN /\ faults' \in 0..MaxFaults
                /\ acked' \subseteq Row \cup {Meta}
                /\ (pc' # "idle" => Pending')
  BY DEF TypeOK, RelayType, Records, Row

LEMMA Names ==
    /\ Account \in Chain /\ Space \subseteq Chain /\ Account \notin Space
    /\ Meta \notin Row /\ Joiner \notin Row /\ Meta # Joiner /\ FirstSpace \in Space
  BY RotationAssumption DEF Chain, Row, Account, Meta, Joiner

(* The fields of a journal. *)
LEMMA OpFields ==
    ASSUME NEW o \in Op
    PROVE  /\ o # NoOp /\ o.step \in {"prepared", "freezing", "copying", "activating"}
           /\ o.activated \in BOOLEAN /\ o.frozen \subseteq Chain /\ o.created \subseteq Chain
           /\ o.source \in [Chain -> SUBSET Row] /\ o.dirty \in [Chain -> SUBSET (Row \cup {Meta})]
           /\ o.meta \in {"publishing", "active"}
  BY DEF Op, NoOp, Row

(* Changing them. *)
LEMMA OpSteps ==
    ASSUME NEW o \in Op
    PROVE  /\ \A x \in {"prepared", "freezing", "copying", "activating"} :
                 [o EXCEPT !.step = x] \in Op
           /\ \A x \in [Chain -> SUBSET Row] : [o EXCEPT !.source = x] \in Op
           /\ \A x \in SUBSET Chain : [o EXCEPT !.frozen = x] \in Op
           /\ \A x \in SUBSET Chain : [o EXCEPT !.created = x] \in Op
           /\ \A x \in [Chain -> SUBSET (Row \cup {Meta})] : [o EXCEPT !.dirty = x] \in Op
           /\ [o EXCEPT !.activated = TRUE] \in Op
  BY DEF Op, Row

LEMMA DirtySet ==
    ASSUME NEW o \in Op, NEW c \in Chain, NEW x \in SUBSET (Row \cup {Meta}),
           NEW p, p = [o EXCEPT !.dirty[c] = x]
    PROVE  /\ p \in Op /\ p.dirty[c] = x /\ \A d \in Chain \ {c} : p.dirty[d] = o.dirty[d]
           /\ p.step = o.step /\ p.activated = o.activated /\ p.frozen = o.frozen
           /\ p.created = o.created /\ p.source = o.source /\ p.meta = o.meta
  BY DEF Op, Row

(* The relay only moves on: a frozen chain keeps its rows, a new one too,  *)
(* and the marker is not taken back.                                       *)
Grows ==
    /\ \A c \in Chain : old[c].frozen => old'[c].frozen /\ old'[c].rows = old[c].rows
    /\ \A c \in Chain : (new[c].exists => new'[c].exists) /\ new[c].rows \subseteq new'[c].rows
    /\ marker # "none" => marker' # "none"
    /\ marker = "active" => marker' = "active"

LEMMA FrozenKept ==
    ASSUME RelayType, Grows
    PROVE  /\ AllFrozen => AllFrozen' /\ SourceFull' = SourceFull /\ old'[Account].rows = old[Account].rows
           /\ AllFrozen /\ Complete => Complete'
           /\ \A x : Reached(x) => Reached(x)'
  <1>1. Account \in Chain /\ Space \subseteq Chain
    BY Names
  <1>2. ASSUME AllFrozen
        PROVE  /\ old'[Account].rows = old[Account].rows /\ old'[Account].frozen
               /\ \A s \in SpacesOf(old[Account].rows) : old'[s].frozen /\ old'[s].rows = old[s].rows
    BY <1>1, <1>2 DEF AllFrozen, Grows, SpacesOf
  <1>3. AllFrozen => AllFrozen' /\ SourceFull' = SourceFull
    BY <1>2 DEF AllFrozen, SourceFull, SpacesOf
  <1>4. AllFrozen /\ Complete => Complete'
    <2> SUFFICES ASSUME AllFrozen, Complete PROVE Complete'
      OBVIOUS
    <2>1. old[Account].rows \subseteq new'[Account].rows
      BY <1>1 DEF Complete, Grows
    <2>2. \A s \in SpacesOf(old[Account].rows) : new'[s].exists /\ old[s].rows \subseteq new'[s].rows
      BY <1>1 DEF Complete, Grows, SpacesOf
    <2> QED BY <1>2, <2>1, <2>2 DEF Complete
  <1>5. \A x : Reached(x) => Reached(x)'
    BY DEF Reached, Grows
  <1> QED BY <1>2, <1>3, <1>4, <1>5

(* What a journal says stays true. *)
LEMMA OpKept ==
    ASSUME RelayType, Grows, NEW o \in Op, OpOK(o)
    PROVE  OpOK(o)'
  <1>1. /\ \A c \in o.frozen : old'[c].frozen
        /\ \A c \in o.created : new'[c].exists
    BY OpFields DEF OpOK, Grows
  <1>2. ASSUME o.step \in {"copying", "activating"}
        PROVE  /\ AllFrozen' /\ o.source = SourceFull'
               /\ \A c \in Chain : o.source[c] \subseteq new'[c].rows \cup o.dirty[c]
               /\ Meta \notin o.dirty[Account] => Reached(o.meta)'
    <2>1. /\ AllFrozen /\ o.source = SourceFull
          /\ \A c \in Chain : o.source[c] \subseteq new[c].rows \cup o.dirty[c]
          /\ Meta \notin o.dirty[Account] => Reached(o.meta)
      BY <1>2 DEF OpOK
    <2>2. \A c \in Chain : new[c].rows \subseteq new'[c].rows
      BY DEF Grows
    <2> QED BY <2>1, <2>2, FrozenKept
  <1>3. o.meta = "active" => o.step = "activating"
    BY DEF OpOK
  <1>4. o.step = "activating" => o.meta = "active" /\ Complete' /\ marker' # "none"
    BY FrozenKept DEF OpOK, Grows
  <1> QED BY <1>1, <1>2, <1>3, <1>4 DEF OpOK

LEMMA PlaceKept ==
    ASSUME RelayType, Grows, keychain' = keychain, NEW at, NEW o \in Op, PlaceAt(at, o)
    PROVE  PlaceAt(at, o)'
  <1>1. old[Account].frozen => old'[Account].frozen /\ old'[Account].rows = old[Account].rows
    BY Names DEF Grows
  <1> QED BY <1>1, FrozenKept DEF PlaceAt

-----------------------------------------------------------------------------
(* Steps by what they do to the records. *)
LEMMA StateKept ==
    ASSUME RelayType, Grows, keychain'.mnemonic = keychain.mnemonic,
           keychain'.archive = keychain.archive,
           NEW st \in Records, StateOK(st), st.op = NoOp => old'[Account].frozen = old[Account].frozen
    PROVE  StateOK(st)'
  <1>1. st.op \in Op \cup {NoOp}
    BY DEF Records
  <1>2. st.op # NoOp => OpOK(st.op)'
    BY <1>1, OpKept DEF StateOK
  <1> QED BY <1>2 DEF StateOK

(* The relay and the keychain are as they were. *)
LEMMA Still ==
    ASSUME IInv, UNCHANGED relay, keychain' = keychain
    PROVE  Grows /\ RelayType' /\ ActiveOK' /\ KeysOK'
  <1>1. RelayType /\ ActiveOK /\ KeysOK
    BY TypeParts DEF IInv
  <1> QED BY <1>1 DEF relay, Grows, RelayType, ActiveOK, KeysOK, AllFrozen, Complete, SpacesOf

(* What most steps have in common: the journal in memory is as it was or   *)
(* another one for which the same is true, the one on disk is as it was or *)
(* the same.                                                               *)
LEMMA Moves ==
    ASSUME IInv, RelayType', Grows, keychain' = keychain, ActiveOK', KeysOK',
           ~Pending => old'[Account].frozen = old[Account].frozen,
           shown' \in BOOLEAN, faults' \in 0..MaxFaults, acked' \subseteq Row \cup {Meta},
           pc' # "idle" => Pending, PlaceOK', AckedOK',
           NEW m \in Records, mem' = m, NEW d, disk' = d,
           m = mem \/ (/\ Pending /\ m.op \in Op /\ m.op.activated = op.activated /\ OpOK(m.op)'
                       /\ m.account = mem.account /\ m.blocked = mem.blocked),
           d = disk \/ d = m
    PROVE  IInv'
  <1>1. /\ RelayType /\ mem \in Records /\ disk \in Records /\ StateOK(mem) /\ StateOK(disk)
        /\ Agree
        /\ keychain \in [mnemonic : {"old", "new"}, staged : BOOLEAN, archive : BOOLEAN]
    BY TypeParts DEF IInv
  <1>2. StateOK(m)'
    <2>1. CASE m = mem
      <3>1. m.op = NoOp => old'[Account].frozen = old[Account].frozen
        BY <2>1 DEF Pending, op
      <3>2. StateOK(m)
        BY <1>1, <2>1
      <3> QED BY <1>1, <3>1, <3>2, StateKept
    <2>2. CASE m # mem
      <3>1. /\ m.op # NoOp /\ OpOK(m.op)' /\ m.op.activated = mem.op.activated /\ mem.op # NoOp
            /\ m.account = mem.account /\ m.blocked = mem.blocked
        BY <2>2, OpFields DEF Pending, op
      <3> QED BY <1>1, <3>1 DEF StateOK
    <2> QED BY <2>1, <2>2
  <1>3. StateOK(d)'
    <2>1. CASE d = disk
      <3>1. d.op = NoOp => old'[Account].frozen = old[Account].frozen
        BY <1>1, <2>1 DEF Agree, Pending, op
      <3>2. StateOK(d) /\ d \in Records
        BY <1>1, <2>1
      <3> QED BY <1>1, <3>1, <3>2, StateKept
    <2> QED BY <1>2, <2>1
  <1>4. StateOK(mem)' /\ StateOK(disk)'
    BY <1>2, <1>3
  <1>5. m.account = mem.account /\ (m.op = NoOp <=> mem.op = NoOp)
    BY OpFields DEF Pending, op
  <1>6. Agree'
    BY <1>1, <1>5 DEF Agree
  <1>7. TypeOK'
    <2>1. pc' # "idle" => Pending'
      BY <1>5 DEF Pending, op
    <2>2. d \in Records
      BY <1>1
    <2> QED BY <1>1, <2>1, <2>2, TypePartsNext
  <1> QED BY <1>4, <1>6, <1>7 DEF IInv

(* resume_locked() returns, with the records as they were. *)
LEMMA Returns ==
    ASSUME IInv, UNCHANGED <<relay, keychain, mem, disk>>, Return, faults' \in 0..MaxFaults
    PROVE  IInv'
  <1>1. Grows /\ RelayType' /\ ActiveOK' /\ KeysOK'
    BY Still
  <1>2. mem \in Records
    BY TypeParts DEF IInv
  <1>3. /\ PlaceOK' /\ AckedOK'
    BY DEF Return, PlaceOK, PlaceAt, AckedOK, Places, Freezing, Copying, Activating, Cleaning,
                Pushing
  <1> QED BY <1>1, <1>2, <1>3, Moves DEF relay, Return

(* A journal is to be stored, after whatever the relay did: it is, or only *)
(* in memory, or the step failed.                                          *)
LEMMA Saves ==
    ASSUME IInv, Pending, RelayType', Grows, keychain' = keychain, ActiveOK', KeysOK',
           NEW o \in Op, o.activated = op.activated, OpOK(o)', NEW where, PlaceAt(where, o)',
           shown' \in BOOLEAN, faults' \in 0..MaxFaults, acked' = {},
           \/ mem' = mem /\ disk' = disk /\ pc' = "idle"
           \/ mem' = WithOp(o) /\ disk' \in {disk, mem'} /\ pc' \in {"idle", where}
    PROVE  IInv'
  <1>1. mem \in Records
    BY TypeParts DEF IInv
  <1>2. PICK m : m = mem'
    OBVIOUS
  <1>3. PICK d : d = disk'
    OBVIOUS
  <1>4. AckedOK'
    BY DEF AckedOK
  <1>5. CASE pc' = "idle"
    <2>1. PlaceOK'
      BY <1>5 DEF PlaceOK, PlaceAt, Places, Freezing, Copying, Activating, Cleaning
    <2>2. CASE mem' = mem /\ disk' = disk
      BY <1>1, <1>4, <1>5, <2>1, <2>2, Moves
    <2>3. CASE mem' = WithOp(o) /\ disk' \in {disk, mem'}
      <3>1. /\ m \in Records /\ m.op = o /\ m.account = mem.account /\ m.blocked = mem.blocked
        BY <1>1, <1>2, <2>3 DEF Records, WithOp
      <3>2. OpOK(m.op)'
        BY <3>1
      <3> QED BY <1>2, <1>3, <1>4, <1>5, <2>1, <2>3, <3>1, <3>2, Moves
    <2> QED BY <2>2, <2>3
  <1>6. CASE pc' = where /\ mem' = WithOp(o) /\ disk' \in {disk, mem'}
    <2>1. /\ m \in Records /\ m.op = o /\ m.account = mem.account /\ m.blocked = mem.blocked
      BY <1>1, <1>2, <1>6 DEF Records, WithOp
    <2>2. OpOK(m.op)'
      BY <2>1
    <2>3. op' = o
      BY <1>2, <2>1 DEF op
    <2>4. PlaceOK'
      BY <1>6, <2>3 DEF PlaceOK, PlaceAt
    <2> QED BY <1>2, <1>3, <1>4, <1>6, <2>1, <2>2, <2>4, Moves
  <1> QED BY <1>5, <1>6

LEMMA FaultType ==
    ASSUME IInv, Fault PROVE faults' \in 0..MaxFaults
  BY TypeParts, RotationAssumption DEF IInv, Fault

(* store(op, false). *)
LEMMA StoredKeeps ==
    ASSUME IInv, Pending, UNCHANGED relay, keychain' = keychain, acked = {},
           NEW o \in Op, o.activated = op.activated, OpOK(o), NEW where, PlaceAt(where, o),
           Stored(o, where)
    PROVE  IInv'
  <1>1. Grows /\ RelayType' /\ ActiveOK' /\ KeysOK' /\ RelayType
    BY Still, TypeParts DEF IInv
  <1>2. OpOK(o)' /\ PlaceAt(where, o)'
    BY <1>1, OpKept, PlaceKept
  <1>3. CASE Fault /\ Return /\ UNCHANGED local
    BY <1>3, FaultType, Returns DEF local
  <1>4. CASE Persist(WithOp(o)) /\ Goto(where) /\ UNCHANGED faults
    <2>1. mem' = WithOp(o) /\ disk' = mem' /\ pc' = where /\ acked' = {} /\ shown' = shown
          /\ faults' = faults
      BY <1>4 DEF Persist, Goto
    <2>2. shown \in BOOLEAN /\ faults \in 0..MaxFaults
      BY TypeParts DEF IInv
    <2> QED BY <1>1, <1>2, <2>1, <2>2, Saves
  <1> QED BY <1>3, <1>4 DEF Stored

(* store(op, true). *)
LEMMA RecordedKeeps ==
    ASSUME IInv, Pending, RelayType', Grows, keychain' = keychain, ActiveOK', KeysOK', acked = {},
           NEW o \in Op, o.activated = op.activated, OpOK(o)', NEW where, PlaceAt(where, o)',
           Recorded(o, where)
    PROVE  IInv'
  <1>1. shown \in BOOLEAN /\ faults \in 0..MaxFaults
    BY TypeParts DEF IInv
  <1>2. faults' \in 0..MaxFaults /\ shown' \in BOOLEAN /\ acked' = {}
    BY <1>1, FaultType DEF Recorded, Goto, Return
  <1>3. \/ mem' = mem /\ disk' = disk /\ pc' = "idle"
        \/ mem' = WithOp(o) /\ disk' \in {disk, mem'} /\ pc' \in {"idle", where}
    BY DEF Recorded, Goto, Return, Persist, local
  <1> QED BY <1>2, <1>3, Saves

(* A step from one place to the next that changes nothing else. *)
LEMMA GoesOn ==
    ASSUME IInv, Pending, UNCHANGED <<relay, keychain, mem, disk, faults>>, acked = {},
           NEW where, Goto(where), PlaceAt(where, op)
    PROVE  IInv'
  <1>1. Grows /\ RelayType' /\ ActiveOK' /\ KeysOK' /\ RelayType
    BY Still, TypeParts DEF IInv
  <1>2. mem \in Records /\ shown \in BOOLEAN /\ faults \in 0..MaxFaults
    BY TypeParts DEF IInv
  <1>3. PICK o : o = op
    OBVIOUS
  <1>4. o \in Op /\ PlaceAt(where, o)
    BY <1>2, <1>3 DEF Records, Pending, op
  <1>5. PlaceAt(where, o)' /\ op' = o
    BY <1>1, <1>3, <1>4, PlaceKept DEF op
  <1>6. PlaceOK' /\ AckedOK'
    BY <1>5 DEF PlaceOK, PlaceAt, AckedOK, Goto
  <1> QED BY <1>1, <1>2, <1>6, Moves DEF Goto, relay

-----------------------------------------------------------------------------
(* What is known inside resume_locked(). *)
LEMMA AtPlace ==
    ASSUME IInv, pc # "idle"
    PROVE  /\ Pending /\ op \in Op /\ OpOK(op) /\ PlaceAt(pc, op) /\ RelayType
           /\ (pc \notin Pushing => acked = {}) /\ mem \in Records
           /\ (op.activated <=> mem.account = "new") /\ faults \in 0..MaxFaults
  <1>1. Pending /\ RelayType /\ mem \in Records /\ faults \in 0..MaxFaults
    BY TypeParts DEF IInv
  <1>2. op \in Op
    BY <1>1 DEF Records, Pending, op
  <1>3. OpOK(op) /\ (op.activated <=> mem.account = "new")
    BY <1>1 DEF IInv, StateOK, Pending, op
  <1> QED BY <1>1, <1>2, <1>3 DEF IInv, PlaceOK, AckedOK

(* target_proof() drops only what the relay has. *)
LEMMA SeenOK ==
    ASSUME RelayType, NEW o \in Op, OpOK(o), NEW p, p = TargetSeen(o)
    PROVE  /\ p \in Op /\ OpOK(p) /\ p.step = o.step /\ p.activated = o.activated
           /\ p.frozen = o.frozen /\ p.created = o.created /\ p.source = o.source
           /\ p.meta = o.meta
           /\ \A s \in Space : p.dirty[s] = o.dirty[s]
           /\ p.dirty[Account] = o.dirty[Account]
                                 \ (new[Account].rows \cup (IF marker = o.meta THEN {Meta} ELSE {}))
  <1> DEFINE x == o.dirty[Account] \ (new[Account].rows \cup (IF marker = o.meta THEN {Meta} ELSE {}))
  <1>1. /\ Account \in Chain /\ o.dirty \in [Chain -> SUBSET (Row \cup {Meta})]
        /\ o.source \in [Chain -> SUBSET Row] /\ o.meta \in {"publishing", "active"}
    BY Names, OpFields
  <1>2. p = [o EXCEPT !.dirty[Account] = x] /\ x \in SUBSET (Row \cup {Meta})
    BY <1>1 DEF TargetSeen
  <1>3. /\ p \in Op /\ p.dirty[Account] = x /\ \A d \in Chain \ {Account} : p.dirty[d] = o.dirty[d]
        /\ p.step = o.step /\ p.activated = o.activated /\ p.frozen = o.frozen
        /\ p.created = o.created /\ p.source = o.source /\ p.meta = o.meta
    BY <1>1, <1>2, DirtySet
  <1>4. OpOK(p)
    <2>1. ASSUME o.step \in {"copying", "activating"}
          PROVE  /\ \A c \in Chain : p.source[c] \subseteq new[c].rows \cup p.dirty[c]
                 /\ Meta \notin p.dirty[Account] => Reached(p.meta)
      <3>1. /\ \A c \in Chain : o.source[c] \subseteq new[c].rows \cup o.dirty[c]
            /\ Meta \notin o.dirty[Account] => Reached(o.meta)
        BY <2>1 DEF OpOK
      <3>2. Meta \notin o.source[Account] /\ Meta \notin new[Account].rows
        BY <1>1, Names DEF RelayType
      <3>3. o.source[Account] \subseteq new[Account].rows \cup x
        BY <1>1, <3>1, <3>2
      <3>4. Meta \notin x => Reached(o.meta)
        BY <1>1, <3>1, <3>2 DEF Reached
      <3> QED BY <1>3, <3>1, <3>3, <3>4
    <2> QED BY <1>3, <2>1 DEF OpOK
  <1>5. \A s \in Space : p.dirty[s] = o.dirty[s]
    BY <1>3, Names
  <1> QED BY <1>3, <1>4, <1>5

(* source_proof(). *)
LEMMA ProveSourceKeeps ==
    ASSUME IInv, ProveSource
    PROVE  IInv'
  <1>1. pc = "source" /\ UNCHANGED <<relay, keychain>>
    BY DEF ProveSource
  <1>2. Pending /\ op \in Op /\ OpOK(op) /\ RelayType /\ acked = {} /\ ~op.activated
    BY <1>1, AtPlace DEF PlaceAt, Places, Freezing, Copying, Activating, Cleaning, Pushing
  <1>3. PICK p : p = TargetSeen(op)
    OBVIOUS
  <1>4. p \in Op /\ OpOK(p) /\ p.activated = op.activated
    BY <1>2, <1>3, SeenOK
  <1>5. PlaceAt("archive", p) /\ PlaceAt("archive", op)
    BY <1>2, <1>4 DEF PlaceAt, Places, Freezing, Copying, Activating, Cleaning
  <1>6. CASE Goto("archive") /\ UNCHANGED <<local, faults>>
    BY <1>1, <1>2, <1>5, <1>6, GoesOn DEF local
  <1>7. CASE Stored(p, "archive")
    BY <1>1, <1>2, <1>4, <1>5, <1>7, StoredKeeps
  <1>8. CASE Return /\ UNCHANGED <<local, faults>>
    BY <1>1, <1>8, Returns, AtPlace DEF local
  <1> QED BY <1>3, <1>6, <1>7, <1>8 DEF ProveSource

(* The journal says that chains are being frozen. *)
LEMMA StoreFreezingKeeps ==
    ASSUME IInv, StoreFreezing
    PROVE  IInv'
  <1>1. pc = "freeze" /\ UNCHANGED <<relay, keychain>>
    BY DEF StoreFreezing
  <1>2. /\ Pending /\ op \in Op /\ OpOK(op) /\ acked = {} /\ ~op.activated
        /\ keychain.archive /\ keychain.staged /\ op.step \in {"prepared", "freezing"}
    BY <1>1, AtPlace DEF PlaceAt, Places, Freezing, Copying, Activating, Cleaning, Pushing
  <1>3. PICK p : p = [op EXCEPT !.step = "freezing"]
    OBVIOUS
  <1>4. /\ p \in Op /\ p.step = "freezing" /\ p.activated = op.activated /\ p.frozen = op.frozen
        /\ p.created = op.created /\ p.meta = op.meta
    <2>1. p \in Op
      BY <1>2, <1>3, OpSteps
    <2> QED BY <1>2, <1>3, <2>1 DEF Op
  <1>5. OpOK(p)
    BY <1>2, <1>4 DEF OpOK
  <1>6. PlaceAt("freeze_account", p)
    BY <1>2, <1>4 DEF PlaceAt, Places, Freezing, Copying, Activating, Cleaning
  <1> QED BY <1>1, <1>2, <1>3, <1>4, <1>5, <1>6, StoredKeeps DEF StoreFreezing

(* What the old chains hold is well-formed. *)
LEMMA SourceType ==
    ASSUME RelayType
    PROVE  SourceFull \in [Chain -> SUBSET Row] /\ SourceFull[Account] = old[Account].rows
  BY Names DEF RelayType, SourceFull

(* The account is frozen: the spaces it lists are final. *)
LEMMA ListSpacesKeeps ==
    ASSUME IInv, ListSpaces
    PROVE  IInv'
  <1>1. pc = "list_spaces" /\ UNCHANGED <<relay, keychain>>
    BY DEF ListSpaces
  <1>2. /\ Pending /\ op \in Op /\ OpOK(op) /\ RelayType /\ acked = {} /\ ~op.activated
        /\ keychain.archive /\ keychain.staged /\ op.step \in {"prepared", "freezing"}
        /\ old[Account].frozen
    BY <1>1, AtPlace DEF PlaceAt, Places, Freezing, Copying, Activating, Cleaning, Pushing
  <1>3. PICK p : p = [op EXCEPT !.source = SourceFull]
    OBVIOUS
  <1>4. p \in Op
    BY <1>2, <1>3, OpSteps, SourceType
  <1>5. /\ p.step = op.step /\ p.activated = op.activated /\ p.frozen = op.frozen
        /\ p.created = op.created /\ p.meta = op.meta /\ p.source[Account] = old[Account].rows
    BY <1>2, <1>3, SourceType DEF Op
  <1>6. OpOK(p)
    BY <1>2, <1>5 DEF OpOK
  <1>7. PlaceAt("freeze_spaces", p)
    BY <1>2, <1>5 DEF PlaceAt, Places, Freezing, Copying, Activating, Cleaning
  <1> QED BY <1>1, <1>2, <1>3, <1>4, <1>5, <1>6, <1>7, StoredKeeps DEF ListSpaces

(* Every chain is frozen: the rows are final, and all of them are to be    *)
(* uploaded.                                                               *)
LEMMA SnapshotKeeps ==
    ASSUME IInv, Snapshot
    PROVE  IInv'
  <1>1. pc = "snapshot" /\ UNCHANGED <<relay, keychain>>
    BY DEF Snapshot
  <1>2. /\ Pending /\ op \in Op /\ OpOK(op) /\ RelayType /\ acked = {} /\ ~op.activated
        /\ keychain.archive /\ op.step \in {"prepared", "freezing"} /\ AllFrozen
    BY <1>1, AtPlace DEF PlaceAt, Places, Freezing, Copying, Activating, Cleaning, Pushing
  <1>3. PICK q : q = [op EXCEPT !.source = SourceFull, !.step = "copying"]
    OBVIOUS
  <1>4. PICK p : p = TargetsOf(q)
    OBVIOUS
  <1>5. /\ q \in Op /\ q.source = SourceFull /\ q.step = "copying" /\ q.activated = op.activated
        /\ q.frozen = op.frozen /\ q.created = op.created /\ q.meta = op.meta
    <2>1. SourceFull \in [Chain -> SUBSET Row]
      BY <1>2, SourceType
    <2> QED BY <1>2, <1>3, <2>1 DEF Op, Row
  <1>6. PICK x : x = [c \in Chain |-> IF c = Account THEN q.source[c] \cup {Meta} ELSE q.source[c]]
    OBVIOUS
  <1>7. x \in [Chain -> SUBSET (Row \cup {Meta})]
    BY <1>5, <1>6, OpFields
  <1>8. p = [q EXCEPT !.dirty = x]
    BY <1>4, <1>6 DEF TargetsOf
  <1>9. p \in Op
    BY <1>5, <1>7, <1>8, OpSteps
  <1>10. /\ p.source = SourceFull /\ p.step = "copying" /\ p.activated = op.activated
         /\ p.dirty = x
         /\ p.frozen = op.frozen /\ p.created = op.created /\ p.meta = op.meta
    BY <1>5, <1>8 DEF Op
  <1>11. /\ \A c \in Chain : p.source[c] \subseteq p.dirty[c]
         /\ Meta \in p.dirty[Account]
    BY <1>5, <1>6, <1>10, Names
  <1>12. op.meta # "active"
    BY <1>2 DEF OpOK
  <1>13. OpOK(p)
    BY <1>2, <1>10, <1>11, <1>12 DEF OpOK
  <1>14. PlaceAt("block", p)
    BY <1>2, <1>10 DEF PlaceAt, Places, Freezing, Copying, Activating, Cleaning
  <1> QED BY <1>1, <1>2, <1>3, <1>4, <1>9, <1>10, <1>13, <1>14, StoredKeeps DEF Snapshot

(* push(None): target_proof(). *)
LEMMA ProveAccountKeeps ==
    ASSUME IInv, ProveAccount
    PROVE  IInv'
  <1>1. pc \in {"prove_account", "prove_active"} /\ UNCHANGED <<relay, keychain>>
    BY DEF ProveAccount
  <1>2. /\ Pending /\ op \in Op /\ OpOK(op) /\ RelayType /\ acked = {} /\ PlaceAt(pc, op)
    BY <1>1, AtPlace DEF Pushing
  <1>3. PICK p : p = TargetSeen(op)
    OBVIOUS
  <1>4. p \in Op /\ OpOK(p) /\ p.activated = op.activated /\ p.step = op.step
        /\ p.source = op.source
        /\ p.created = op.created
    BY <1>2, <1>3, SeenOK
  <1>5. PICK w : w = IF pc = "prove_account" THEN "push_account" ELSE "push_active"
    OBVIOUS
  <1>6. PlaceAt(w, p)
    BY <1>1, <1>2, <1>4, <1>5 DEF PlaceAt, Places, Freezing, Copying, Activating, Cleaning
  <1>7. CASE Stored(p, w)
    BY <1>1, <1>2, <1>4, <1>6, <1>7, StoredKeeps
  <1>8. CASE Return /\ UNCHANGED <<local, faults>>
    BY <1>1, <1>8, Returns, AtPlace DEF local
  <1> QED BY <1>3, <1>5, <1>7, <1>8 DEF ProveAccount

(* space_proof(), of a space with rows that have no receipt. *)
LEMMA ProveSpaceKeeps ==
    ASSUME IInv, ProveSpace
    PROVE  IInv'
  <1>1. pc = "prove_spaces" /\ UNCHANGED <<relay, keychain>>
    BY DEF ProveSpace
  <1>2. /\ Pending /\ op \in Op /\ OpOK(op) /\ RelayType /\ acked = {} /\ PlaceAt(pc, op)
    BY <1>1, AtPlace DEF Pushing
  <1>3. PlaceAt("seal", op)
    BY <1>1, <1>2 DEF PlaceAt, Places, Freezing, Copying, Activating, Cleaning
  <1>4. CASE Goto("seal") /\ UNCHANGED <<local, faults>>
    BY <1>1, <1>2, <1>3, <1>4, GoesOn DEF local
  <1>5. CASE Return /\ UNCHANGED <<local, faults>>
    BY <1>1, <1>5, Returns, AtPlace DEF local
  <1>6. ASSUME NEW s \in Space, op.dirty[s] # {},
               Stored(SpaceSeen(op, s), IF op.dirty[s] \subseteq new[s].rows THEN "prove_spaces"
                                        ELSE "push_space")
        PROVE  IInv'
    <2>1. PICK q : q = TargetSeen(op)
      OBVIOUS
    <2>2. q \in Op /\ OpOK(q) /\ q.activated = op.activated /\ q.step = op.step
          /\ q.source = op.source
          /\ q.created = op.created /\ q.dirty[s] = op.dirty[s]
      BY <1>2, <2>1, SeenOK
    <2>3. PICK p : p = [q EXCEPT !.dirty[s] = q.dirty[s] \ new[s].rows]
      OBVIOUS
    <2>4. p = SpaceSeen(op, s)
      BY <2>1, <2>3 DEF SpaceSeen
    <2>5. s \in Chain /\ s # Account /\ q.dirty[s] \ new[s].rows \in SUBSET (Row \cup {Meta})
      BY <2>2, Names, OpFields
    <2>6. /\ p \in Op /\ p.dirty[s] = q.dirty[s] \ new[s].rows
          /\ \A d \in Chain \ {s} : p.dirty[d] = q.dirty[d]
          /\ p.step = q.step /\ p.activated = q.activated /\ p.frozen = q.frozen
          /\ p.created = q.created /\ p.source = q.source /\ p.meta = q.meta
      <3>1. PICK x : x = q.dirty[s] \ new[s].rows
        OBVIOUS
      <3>2. x \in SUBSET (Row \cup {Meta}) /\ p = [q EXCEPT !.dirty[s] = x] /\ s \in Chain
            /\ q \in Op
        BY <2>2, <2>3, <2>5, <3>1
      <3>3. /\ p \in Op /\ p.dirty[s] = x /\ \A d \in Chain \ {s} : p.dirty[d] = q.dirty[d]
            /\ p.step = q.step /\ p.activated = q.activated /\ p.frozen = q.frozen
            /\ p.created = q.created /\ p.source = q.source /\ p.meta = q.meta
        BY <3>2 DEF Op, Row
      <3> QED BY <3>1, <3>3
    <2>7. OpOK(p)
      <3>1. ASSUME p.step \in {"copying", "activating"}
            PROVE  /\ \A c \in Chain : p.source[c] \subseteq new[c].rows \cup p.dirty[c]
                   /\ Meta \notin p.dirty[Account] => Reached(p.meta)
        <4>1. /\ \A c \in Chain : q.source[c] \subseteq new[c].rows \cup q.dirty[c]
              /\ Meta \notin q.dirty[Account] => Reached(q.meta)
          BY <2>2, <2>6, <3>1 DEF OpOK
        <4>2. p.source[s] \subseteq new[s].rows \cup p.dirty[s]
          BY <2>5, <2>6, <4>1
        <4>3. p.dirty[Account] = q.dirty[Account]
          BY <2>5, <2>6, Names
        <4> QED BY <2>6, <4>1, <4>2, <4>3
      <3> QED BY <2>2, <2>6, <3>1 DEF OpOK
    <2>8. PICK w : w = IF op.dirty[s] \subseteq new[s].rows THEN "prove_spaces" ELSE "push_space"
      OBVIOUS
    <2>9. w = "push_space" => p.dirty[s] # {}
      BY <2>2, <2>6, <2>8
    <2>10. PlaceAt(w, p)
      BY <1>1, <1>2, <2>2, <2>6, <2>8, <2>9 DEF PlaceAt, Places, Freezing, Copying, Activating,
                Cleaning
    <2> QED BY <1>1, <1>2, <1>6, <2>2, <2>4, <2>6, <2>7, <2>8, <2>10, StoredKeeps
  <1> QED BY <1>4, <1>5, <1>6 DEF ProveSpace

(* Every row has a receipt: the copy is complete. *)
LEMMA SealKeeps ==
    ASSUME IInv, Seal
    PROVE  IInv'
  <1>1. pc = "seal" /\ UNCHANGED <<relay, keychain>>
    BY DEF Seal
  <1>2. /\ Pending /\ op \in Op /\ OpOK(op) /\ RelayType /\ acked = {} /\ PlaceAt(pc, op)
    BY <1>1, AtPlace DEF Pushing
  <1>3. /\ op.step = "copying" /\ ~op.activated /\ keychain.archive
        /\ SpacesOf(op.source[Account]) \subseteq op.created
    BY <1>1, <1>2 DEF PlaceAt, Places, Freezing, Copying, Activating, Cleaning
  <1>4. CASE Return /\ UNCHANGED <<local, faults>>
    BY <1>1, <1>4, Returns, AtPlace DEF local
  <1>5. PICK p : p = [op EXCEPT !.step = "activating", !.meta = "active", !.dirty[Account] = {Meta}]
    OBVIOUS
  <1>6. CASE Clean(TargetSeen(op)) /\ Stored(p, "prove_active")
    <2>1. PICK q : q = TargetSeen(op)
      OBVIOUS
    <2>2. OpOK(q) /\ q.step = op.step /\ q.source = op.source /\ q.meta = op.meta /\ q \in Op
      BY <1>2, <2>1, SeenOK
    <2>3. \A c \in Chain : q.dirty[c] = {}
      BY <1>6, <2>1 DEF Clean
    <2>4. /\ AllFrozen /\ op.source = SourceFull /\ marker # "none"
          /\ \A c \in Chain : op.source[c] \subseteq new[c].rows
      <3>1. /\ AllFrozen /\ q.source = SourceFull /\ Reached(q.meta)
            /\ \A c \in Chain : q.source[c] \subseteq new[c].rows \cup q.dirty[c]
        BY <1>3, <2>2, <2>3, Names DEF OpOK
      <3> QED BY <2>2, <2>3, <3>1 DEF Reached
    <2>5. Complete
      <3>1. old[Account].rows \subseteq new[Account].rows
        BY <1>2, <2>4, SourceType, Names
      <3>2. ASSUME NEW s \in SpacesOf(old[Account].rows)
            PROVE  new[s].exists /\ old[s].rows \subseteq new[s].rows
        <4>1. s \in Chain /\ op.source[s] = old[s].rows /\ s \in SpacesOf(op.source[Account])
          BY <1>2, <2>4, SourceType, Names DEF SourceFull, SpacesOf
        <4> QED BY <1>2, <1>3, <2>4, <4>1 DEF OpOK
      <3> QED BY <3>1, <3>2 DEF Complete
    <2>6. /\ p \in Op /\ p.step = "activating" /\ p.meta = "active" /\ p.dirty[Account] = {Meta}
          /\ p.source = op.source /\ p.created = op.created /\ p.frozen = op.frozen
          /\ p.activated = op.activated
      BY <1>2, <1>5, Names DEF Op, Row
    <2>7. OpOK(p)
      BY <1>2, <2>4, <2>5, <2>6 DEF OpOK
    <2>8. PlaceAt("prove_active", p)
      BY <1>3, <2>6 DEF PlaceAt, Places, Freezing, Copying, Activating, Cleaning
    <2> QED BY <1>1, <1>2, <1>6, <2>6, <2>7, <2>8, StoredKeeps
  <1> QED BY <1>4, <1>5, <1>6 DEF Seal

(* The relay freezes an old chain. *)
LEMMA FreezeGrows ==
    ASSUME IInv, NEW c \in Chain, keychain.staged, old' = [old EXCEPT ![c].frozen = TRUE],
           UNCHANGED <<new, marker, net, keychain>>
    PROVE  /\ Grows /\ RelayType' /\ ActiveOK' /\ KeysOK' /\ old'[c].frozen
           /\ \A d \in Chain : old'[d].rows = old[d].rows
  <1>1. RelayType /\ ActiveOK /\ KeysOK
    BY TypeParts DEF IInv
  <1>2. /\ old' \in [Chain -> [rows : SUBSET Row, frozen : BOOLEAN]] /\ old'[c].frozen
        /\ \A d \in Chain : old'[d].rows = old[d].rows /\ (old[d].frozen => old'[d].frozen)
    BY <1>1 DEF RelayType
  <1>3. Grows /\ RelayType'
    BY <1>1, <1>2 DEF Grows, RelayType
  <1>4. ActiveOK'
    BY <1>1, <1>3, FrozenKept DEF ActiveOK
  <1>5. KeysOK'
    BY <1>1 DEF KeysOK
  <1> QED BY <1>2, <1>3, <1>4, <1>5

LEMMA FreezeOldKeeps ==
    ASSUME IInv, NEW c \in Chain, NEW where,
           \/ pc = "freeze_account" /\ c = Account /\ where = "list_spaces"
           \/ pc = "freeze_spaces" /\ where = "freeze_spaces",
           FreezeOld(c, where)
    PROVE  IInv'
  <1>1. /\ Pending /\ op \in Op /\ OpOK(op) /\ RelayType /\ acked = {} /\ PlaceAt(pc, op)
    BY AtPlace DEF Pushing
  <1>2. /\ keychain.staged /\ keychain.archive /\ ~op.activated
        /\ op.step \in {"prepared", "freezing"}
    BY <1>1 DEF PlaceAt, Places, Freezing, Copying, Activating, Cleaning
  <1>3. /\ Grows /\ RelayType' /\ ActiveOK' /\ KeysOK' /\ old'[c].frozen
        /\ \A d \in Chain : old'[d].rows = old[d].rows
    BY <1>2, FreezeGrows DEF FreezeOld
  <1>4. PICK p : p = [op EXCEPT !.frozen = @ \cup {c}]
    OBVIOUS
  <1>5. /\ p \in Op /\ p.frozen = op.frozen \cup {c} /\ p.step = op.step
        /\ p.created = op.created
        /\ p.source = op.source /\ p.meta = op.meta /\ p.activated = op.activated
    BY <1>1, <1>4 DEF Op
  <1>6. OpOK(p)'
    <2>1. PICK o : o = op
      OBVIOUS
    <2>2. OpOK(o)'
      BY <1>1, <1>3, <2>1, OpKept
    <2> QED BY <1>2, <1>3, <1>5, <2>1, <2>2 DEF OpOK
  <1>7. PlaceAt(where, p)'
    <2>1. keychain' = keychain /\ Account \in Chain
      BY Names DEF FreezeOld
    <2>2. old'[Account].frozen
      BY <1>1, <1>3, Names DEF PlaceAt, Places, Freezing, Copying, Activating, Cleaning, Grows
    <2>3. where = "freeze_spaces" => p.source[Account] = old'[Account].rows
      BY <1>1, <1>3, <1>5, <2>1 DEF PlaceAt, Places, Freezing, Copying, Activating, Cleaning
    <2> QED BY <1>2, <1>5, <2>1, <2>2, <2>3 DEF PlaceAt, Places, Freezing, Copying, Activating,
                Cleaning
  <1>8. Recorded(p, where) /\ keychain' = keychain
    BY <1>4 DEF FreezeOld
  <1> QED BY <1>1, <1>3, <1>5, <1>6, <1>7, <1>8, RecordedKeeps

LEMMA FreezeAccountKeeps ==
    ASSUME IInv, FreezeAccount
    PROVE  IInv'
  <1>1. pc = "freeze_account"
    BY DEF FreezeAccount
  <1>2. /\ Pending /\ op \in Op /\ OpOK(op) /\ acked = {} /\ PlaceAt(pc, op)
    BY <1>1, AtPlace DEF Pushing
  <1>3. CASE Account \in op.frozen /\ Goto("list_spaces")
             /\ UNCHANGED <<relay, keychain, local, faults>>
    <2>1. old[Account].frozen
      BY <1>2, <1>3 DEF OpOK
    <2>2. PlaceAt("list_spaces", op)
      BY <1>1, <1>2, <2>1 DEF PlaceAt, Places, Freezing, Copying, Activating, Cleaning
    <2> QED BY <1>2, <1>3, <2>2, GoesOn DEF local
  <1>4. CASE FreezeOld(Account, "list_spaces")
    BY <1>1, <1>4, FreezeOldKeeps, Names
  <1> QED BY <1>3, <1>4 DEF FreezeAccount

LEMMA FreezeSpacesKeeps ==
    ASSUME IInv, FreezeSpaces
    PROVE  IInv'
  <1>1. pc = "freeze_spaces"
    BY DEF FreezeSpaces
  <1>2. /\ Pending /\ op \in Op /\ OpOK(op) /\ acked = {} /\ PlaceAt(pc, op)
    BY <1>1, AtPlace DEF Pushing
  <1>3. CASE /\ SpacesOf(op.source[Account]) \ op.frozen = {}
             /\ Goto("snapshot") /\ UNCHANGED <<relay, keychain, local, faults>>
    <2>1. op.source[Account] = old[Account].rows /\ old[Account].frozen
      BY <1>1, <1>2 DEF PlaceAt, Places, Freezing, Copying, Activating, Cleaning
    <2>2. AllFrozen
      BY <1>2, <1>3, <2>1 DEF OpOK, AllFrozen
    <2>3. PlaceAt("snapshot", op)
      BY <1>1, <1>2, <2>1, <2>2 DEF PlaceAt, Places, Freezing, Copying, Activating, Cleaning
    <2> QED BY <1>2, <1>3, <2>3, GoesOn DEF local
  <1>4. ASSUME NEW s \in SpacesOf(op.source[Account]) \ op.frozen, FreezeOld(s, "freeze_spaces")
        PROVE  IInv'
    <2>1. s \in Chain
      BY Names DEF SpacesOf
    <2> QED BY <1>1, <1>4, <2>1, FreezeOldKeeps
  <1> QED BY <1>3, <1>4 DEF FreezeSpaces

(* The relay creates a new chain. *)
LEMMA CreateChainKeeps ==
    ASSUME IInv, pc \in {"create", "create_spaces"}, NEW c \in Chain,
           NEW o \in Op, OpOK(o), o.step = op.step, o.activated = op.activated,
           CreateChain(c, "create_spaces", o)
    PROVE  IInv'
  <1>1. /\ Pending /\ op \in Op /\ RelayType /\ acked = {} /\ PlaceAt(pc, op)
    BY AtPlace DEF Pushing
  <1>2. keychain' = keychain /\ new' = [new EXCEPT ![c].exists = TRUE]
        /\ UNCHANGED <<old, marker, net>>
    BY DEF CreateChain
  <1>3. /\ new' \in [Chain -> [exists : BOOLEAN, rows : SUBSET (Row \cup {Joiner})]] /\ new'[c].exists
        /\ \A d \in Chain : new'[d].rows = new[d].rows /\ (new[d].exists => new'[d].exists)
    BY <1>1, <1>2 DEF RelayType
  <1>4. Grows /\ RelayType'
    BY <1>1, <1>2, <1>3 DEF Grows, RelayType
  <1>5. ActiveOK' /\ KeysOK'
    BY <1>1, <1>2, <1>4, FrozenKept DEF IInv, ActiveOK, KeysOK
  <1>6. PICK p : p = [o EXCEPT !.created = @ \cup {c}]
    OBVIOUS
  <1>7. /\ p \in Op /\ p.created = o.created \cup {c} /\ p.step = o.step /\ p.frozen = o.frozen
        /\ p.source = o.source /\ p.meta = o.meta /\ p.activated = o.activated
        /\ p.dirty = o.dirty
    BY <1>6 DEF Op
  <1>8. OpOK(p)'
    <2>1. OpOK(o)'
      BY <1>1, <1>4, OpKept
    <2> QED BY <1>3, <1>7, <2>1 DEF OpOK
  <1>9. PlaceAt("create_spaces", p)'
    BY <1>1, <1>2, <1>7 DEF PlaceAt, Places, Freezing, Copying, Activating, Cleaning
  <1>10. Recorded(p, "create_spaces")
    BY <1>6 DEF CreateChain
  <1> QED BY <1>1, <1>2, <1>4, <1>5, <1>7, <1>8, <1>9, <1>10, RecordedKeeps

LEMMA CreateAccountKeeps ==
    ASSUME IInv, CreateAccount
    PROVE  IInv'
  <1>1. pc = "create"
    BY DEF CreateAccount
  <1>2. /\ Pending /\ op \in Op /\ OpOK(op) /\ acked = {} /\ PlaceAt(pc, op)
    BY <1>1, AtPlace DEF Pushing
  <1>3. CASE Goto("create_spaces") /\ UNCHANGED <<relay, keychain, local, faults>>
    <2>1. PlaceAt("create_spaces", op)
      BY <1>1, <1>2 DEF PlaceAt, Places, Freezing, Copying, Activating, Cleaning
    <2> QED BY <1>2, <1>3, <2>1, GoesOn DEF local
  <1>4. CASE CreateChain(Account, "create_spaces", op)
    BY <1>1, <1>2, <1>4, CreateChainKeeps, Names
  <1> QED BY <1>3, <1>4 DEF CreateAccount

LEMMA CreateSpacesKeeps ==
    ASSUME IInv, CreateSpaces
    PROVE  IInv'
  <1>1. pc = "create_spaces"
    BY DEF CreateSpaces
  <1>2. /\ Pending /\ op \in Op /\ OpOK(op) /\ RelayType /\ acked = {} /\ PlaceAt(pc, op)
    BY <1>1, AtPlace DEF Pushing
  <1>3. CASE /\ SpacesOf(op.source[Account]) \ op.created = {}
             /\ Goto(IF op.step = "copying" THEN "prove_account" ELSE "prove_active")
             /\ UNCHANGED <<relay, keychain, local, faults>>
    <2>1. PICK w : w = IF op.step = "copying" THEN "prove_account" ELSE "prove_active"
      OBVIOUS
    <2>2. PlaceAt(w, op)
      BY <1>1, <1>2, <1>3, <2>1 DEF PlaceAt, Places, Freezing, Copying, Activating, Cleaning
    <2> QED BY <1>2, <1>3, <2>1, <2>2, GoesOn DEF local
  <1>4. ASSUME NEW s \in SpacesOf(op.source[Account]) \ op.created,
               CreateChain(s, "create_spaces", TargetSeen(op))
        PROVE  IInv'
    <2>1. s \in Chain
      BY Names DEF SpacesOf
    <2>2. PICK q : q = TargetSeen(op)
      OBVIOUS
    <2>3. q \in Op /\ OpOK(q) /\ q.step = op.step /\ q.activated = op.activated
      BY <1>2, <2>2, SeenOK
    <2> QED BY <1>1, <1>4, <2>1, <2>2, <2>3, CreateChainKeeps
  <1>5. CASE Return /\ UNCHANGED <<relay, keychain, local, faults>>
    BY <1>1, <1>5, Returns, AtPlace DEF local
  <1> QED BY <1>3, <1>4, <1>5 DEF CreateSpaces

-----------------------------------------------------------------------------
(* Steps that change the keychain. *)
LEMMA KeyStep ==
    ASSUME IInv, Pending, UNCHANGED <<relay, mem, disk, faults>>, acked = {},
           NEW where, Goto(where), PlaceAt(where, op)',
           NEW k \in [mnemonic : {"old", "new"}, staged : BOOLEAN, archive : BOOLEAN],
           keychain' = k,
           k.mnemonic = "new" => marker = "active",
           mem.account = "new" => k.mnemonic = "new",
           mem.account = "old" /\ k.mnemonic = "new" => k.archive,
           k.staged \/ k.mnemonic = "new" \/ (~keychain.staged /\ keychain.mnemonic # "new")
    PROVE  IInv'
  <1>1. /\ RelayType /\ mem \in Records /\ disk \in Records /\ StateOK(mem) /\ StateOK(disk)
        /\ Agree
        /\ shown \in BOOLEAN /\ faults \in 0..MaxFaults /\ ActiveOK /\ KeysOK
    BY TypeParts DEF IInv
  <1>2. Grows /\ RelayType' /\ ActiveOK'
    BY <1>1 DEF relay, Grows, RelayType, ActiveOK, AllFrozen, Complete, SpacesOf
  <1>3. KeysOK'
    BY <1>1 DEF relay, KeysOK
  <1>4. ASSUME NEW st \in Records, StateOK(st), st.op # NoOp, st.account = mem.account
        PROVE  StateOK(st)'
    <2>1. st.op \in Op /\ OpOK(st.op)
      BY <1>4 DEF Records, StateOK
    <2>2. OpOK(st.op)'
      BY <1>1, <1>2, <2>1, OpKept
    <2> QED BY <1>4, <2>2 DEF StateOK
  <1>5. PICK m : m = mem
    OBVIOUS
  <1>6. PICK d : d = disk
    OBVIOUS
  <1>7. StateOK(m)' /\ StateOK(d)'
    BY <1>1, <1>4, <1>5, <1>6 DEF Agree, Pending, op
  <1>8. StateOK(mem)' /\ StateOK(disk)' /\ Agree'
    BY <1>1, <1>5, <1>6, <1>7 DEF Agree
  <1>9. PlaceOK' /\ AckedOK'
    BY DEF PlaceOK, PlaceAt, AckedOK, Goto, op
  <1>10. TypeOK'
    BY <1>1, <1>2, TypePartsNext DEF Goto, Pending, op
  <1> QED BY <1>2, <1>3, <1>8, <1>9, <1>10 DEF IInv

(* What the keychain holds. *)
LEMMA KeyFacts ==
    ASSUME IInv
    PROVE  /\ keychain \in [mnemonic : {"old", "new"}, staged : BOOLEAN, archive : BOOLEAN]
           /\ keychain.mnemonic = "new" => marker = "active"
           /\ mem.account = "new" => keychain.mnemonic = "new"
           /\ mem.account = "old" /\ keychain.mnemonic = "new" => keychain.archive
  BY TypeParts DEF IInv, StateOK, KeysOK

LEMMA ArchiveSourceCodeKeeps ==
    ASSUME IInv, ArchiveSourceCode
    PROVE  IInv'
  <1>1. pc = "archive" /\ UNCHANGED <<relay, mem, disk, faults>> /\ Goto("stage")
    BY DEF ArchiveSourceCode, local
  <1>2. Pending /\ op \in Op /\ acked = {} /\ PlaceAt(pc, op)
    BY <1>1, AtPlace DEF Pushing
  <1>3. PICK k : k = [keychain EXCEPT !.archive = TRUE]
    OBVIOUS
  <1>4. /\ k \in [mnemonic : {"old", "new"}, staged : BOOLEAN, archive : BOOLEAN] /\ k.archive
        /\ k.mnemonic = keychain.mnemonic /\ k.staged = keychain.staged
    BY <1>3, KeyFacts
  <1>5. keychain' = k /\ op' = op
    BY <1>1, <1>3 DEF ArchiveSourceCode, op
  <1>6. PlaceAt("stage", op)'
    BY <1>1, <1>2, <1>4, <1>5 DEF PlaceAt, Places, Freezing, Copying, Activating, Cleaning
  <1> QED BY <1>1, <1>2, <1>4, <1>5, <1>6, KeyFacts, KeyStep

LEMMA StageNewCodeKeeps ==
    ASSUME IInv, StageNewCode
    PROVE  IInv'
  <1>1. pc = "stage" /\ UNCHANGED <<relay, mem, disk, faults>>
    BY DEF StageNewCode, local
  <1>2. Pending /\ op \in Op /\ acked = {} /\ PlaceAt(pc, op)
    BY <1>1, AtPlace DEF Pushing
  <1>3. PICK k : k = [keychain EXCEPT !.staged = TRUE]
    OBVIOUS
  <1>4. /\ k \in [mnemonic : {"old", "new"}, staged : BOOLEAN, archive : BOOLEAN] /\ k.staged
        /\ k.mnemonic = keychain.mnemonic /\ k.archive = keychain.archive
    BY <1>3, KeyFacts
  <1>5. keychain' = k /\ op' = op
    BY <1>1, <1>3 DEF StageNewCode, op
  <1>6. PICK w : w = IF op.step \in {"prepared", "freezing"} THEN "freeze" ELSE "create"
    OBVIOUS
  <1>7. PlaceAt(w, op)'
    BY <1>1, <1>2, <1>4, <1>5, <1>6, OpFields DEF PlaceAt, Places, Freezing, Copying, Activating,
                Cleaning
  <1>8. Goto(w)
    BY <1>6 DEF StageNewCode
  <1> QED BY <1>1, <1>2, <1>4, <1>5, <1>7, <1>8, KeyFacts, KeyStep

(* The new code becomes the device's own only when the marker is active. *)
LEMMA PromoteCodeKeeps ==
    ASSUME IInv, PromoteCode
    PROVE  IInv'
  <1>1. pc = "promote" /\ UNCHANGED relay
    BY DEF PromoteCode
  <1>2. /\ Pending /\ op \in Op /\ OpOK(op) /\ RelayType /\ acked = {} /\ PlaceAt(pc, op)
        /\ (op.activated <=> mem.account = "new")
    BY <1>1, AtPlace DEF Pushing
  <1>3. CASE Return /\ UNCHANGED <<keychain, local, faults>>
    BY <1>1, <1>3, Returns, AtPlace DEF local
  <1>4. CASE /\ Clean(TargetSeen(op)) /\ keychain' = [keychain EXCEPT !.mnemonic = "new"]
             /\ Goto("activate") /\ UNCHANGED <<local, faults>>
    <2>1. PICK q : q = TargetSeen(op)
      OBVIOUS
    <2>2. OpOK(q) /\ q.step = op.step /\ q.meta = op.meta
      BY <1>2, <2>1, SeenOK
    <2>3. op.step = "activating" /\ keychain.archive /\ ~op.activated
      BY <1>1, <1>2 DEF PlaceAt, Places, Freezing, Copying, Activating, Cleaning
    <2>4. q.dirty[Account] = {}
      BY <1>4, <2>1, Names DEF Clean
    <2>5. marker = "active"
      BY <2>2, <2>3, <2>4 DEF OpOK, Reached
    <2>6. PICK k : k = keychain'
      OBVIOUS
    <2>7. /\ k \in [mnemonic : {"old", "new"}, staged : BOOLEAN, archive : BOOLEAN]
          /\ k.mnemonic = "new" /\ k.archive
      BY <1>4, <2>3, <2>6, KeyFacts
    <2>8. op' = op /\ UNCHANGED <<relay, mem, disk, faults>>
      BY <1>1, <1>4 DEF op, local
    <2>9. PlaceAt("activate", op)'
      BY <1>1, <1>2, <2>6, <2>7, <2>8 DEF PlaceAt, Places, Freezing, Copying, Activating, Cleaning
    <2> QED BY <1>2, <1>4, <2>5, <2>6, <2>7, <2>8, <2>9, KeyStep
  <1> QED BY <1>3, <1>4 DEF PromoteCode

LEMMA DeleteStagedKeeps ==
    ASSUME IInv, DeleteStaged
    PROVE  IInv'
  <1>1. pc = "delete_staged" /\ UNCHANGED <<relay, mem, disk, faults>> /\ Goto("delete_archive")
    BY DEF DeleteStaged, local
  <1>2. Pending /\ op \in Op /\ acked = {} /\ PlaceAt(pc, op) /\ (op.activated <=> mem.account = "new")
    BY <1>1, AtPlace DEF Pushing
  <1>3. PICK k : k = [keychain EXCEPT !.staged = FALSE]
    OBVIOUS
  <1>4. /\ k \in [mnemonic : {"old", "new"}, staged : BOOLEAN, archive : BOOLEAN]
        /\ k.mnemonic = keychain.mnemonic /\ k.archive = keychain.archive
    BY <1>3, KeyFacts
  <1>5. keychain' = k /\ op' = op
    BY <1>1, <1>3 DEF DeleteStaged, op
  <1>6. op.activated
    BY <1>1, <1>2 DEF PlaceAt, Places, Freezing, Copying, Activating, Cleaning
  <1>7. PlaceAt("delete_archive", op)'
    BY <1>5, <1>6 DEF PlaceAt, Places, Freezing, Copying, Activating, Cleaning
  <1> QED BY <1>1, <1>2, <1>4, <1>5, <1>6, <1>7, KeyFacts, KeyStep

(* The old code is given up when the switch is saved. *)
LEMMA DeleteArchiveKeeps ==
    ASSUME IInv, DeleteArchive
    PROVE  IInv'
  <1>1. pc = "delete_archive" /\ UNCHANGED <<relay, mem, disk, faults>> /\ Goto("finish")
    BY DEF DeleteArchive, local
  <1>2. Pending /\ op \in Op /\ acked = {} /\ PlaceAt(pc, op) /\ (op.activated <=> mem.account = "new")
    BY <1>1, AtPlace DEF Pushing
  <1>3. PICK k : k = [keychain EXCEPT !.archive = FALSE]
    OBVIOUS
  <1>4. /\ k \in [mnemonic : {"old", "new"}, staged : BOOLEAN, archive : BOOLEAN]
        /\ k.mnemonic = keychain.mnemonic /\ k.staged = keychain.staged
    BY <1>3, KeyFacts
  <1>5. keychain' = k /\ op' = op
    BY <1>1, <1>3 DEF DeleteArchive, op
  <1>6. op.activated
    BY <1>1, <1>2 DEF PlaceAt, Places, Freezing, Copying, Activating, Cleaning
  <1>7. PlaceAt("finish", op)'
    BY <1>5, <1>6 DEF PlaceAt, Places, Freezing, Copying, Activating, Cleaning
  <1> QED BY <1>1, <1>2, <1>4, <1>5, <1>6, <1>7, KeyFacts, KeyStep

-----------------------------------------------------------------------------
(* Steps that save another state of the records. *)
LEMMA Settles ==
    ASSUME IInv, UNCHANGED <<relay, keychain>>, NEW m \in Records, mem' = m, disk' = m,
           StateOK(m),
           shown' \in BOOLEAN, faults' \in 0..MaxFaults, acked' = {},
           pc' # "idle" => m.op # NoOp, PlaceOK'
    PROVE  IInv'
  <1>1. RelayType /\ Grows /\ RelayType' /\ ActiveOK' /\ KeysOK'
    BY Still, TypeParts DEF IInv
  <1>2. StateOK(m)'
    BY <1>1, StateKept DEF relay
  <1>3. StateOK(mem)' /\ StateOK(disk)' /\ Agree' /\ AckedOK'
    BY <1>2 DEF Agree, AckedOK
  <1>4. TypeOK'
    BY <1>1, TypePartsNext, KeyFacts DEF Pending, op
  <1> QED BY <1>1, <1>3, <1>4 DEF IInv

LEMMA StartRotationKeeps ==
    ASSUME IInv, StartRotation
    PROVE  IInv'
  <1>1. PICK o : o = [step |-> "prepared", activated |-> FALSE, frozen |-> {},
                      created |-> {}, source |-> SourceFull, dirty |-> NoRows,
                      meta |-> "publishing"]
    OBVIOUS
  <1>2. /\ RelayType /\ mem \in Records /\ shown \in BOOLEAN /\ faults \in 0..MaxFaults
        /\ StateOK(mem)
        /\ acked = {}
    BY TypeParts DEF IInv, AckedOK, StartRotation, Pushing
  <1>3. o \in Op
    BY <1>1, <1>2, SourceType DEF Op, NoRows, Row
  <1>4. OpOK(o) /\ o.activated = FALSE
    BY <1>1 DEF OpOK
  <1>5. PICK m : m = [mem EXCEPT !.op = o]
    OBVIOUS
  <1>6. m \in Records /\ m.op = o /\ m.account = mem.account /\ mem.account = "old"
        /\ mem.op = NoOp
    BY <1>2, <1>3, <1>5 DEF Records, StartRotation, Pending, op
  <1>7. o # NoOp
    BY <1>3, OpFields
  <1>8. StateOK(m)
    BY <1>2, <1>4, <1>6, <1>7 DEF StateOK
  <1>9. mem' = m /\ disk' = m /\ pc' = "source" /\ acked' = acked /\ shown' = shown
        /\ faults' = faults
        /\ UNCHANGED <<relay, keychain>>
    BY <1>1, <1>5 DEF StartRotation, Persist, WithOp, Goto
  <1>10. PlaceOK'
    <2>1. op' = o
      BY <1>6, <1>9 DEF op
    <2> QED BY <1>4, <1>9, <2>1 DEF PlaceOK, PlaceAt, Places, Freezing, Copying, Activating,
                Cleaning
  <1> QED BY <1>2, <1>6, <1>7, <1>8, <1>9, <1>10, Settles

LEMMA ResumeKeeps ==
    ASSUME IInv, Resume
    PROVE  IInv'
  <1>1. /\ RelayType /\ mem \in Records /\ shown \in BOOLEAN /\ faults \in 0..MaxFaults
        /\ StateOK(mem)
        /\ acked = {} /\ Pending /\ UNCHANGED <<relay, keychain>>
    BY TypeParts DEF IInv, AckedOK, Resume, Pushing
  <1>2. CASE Fault /\ Return /\ UNCHANGED local
    BY <1>1, <1>2, FaultType, Returns DEF local
  <1>3. CASE Persist(mem) /\ UNCHANGED faults /\ Goto(IF op.activated THEN "clean" ELSE "source")
    <2>1. /\ mem' = mem /\ disk' = mem /\ acked' = {} /\ shown' = shown /\ faults' = faults
          /\ pc' = IF op.activated THEN "clean" ELSE "source"
      BY <1>1, <1>3 DEF Persist, Goto
    <2>2. PlaceOK'
      BY <2>1 DEF PlaceOK, PlaceAt, Places, Freezing, Copying, Activating, Cleaning, op
    <2> QED BY <1>1, <2>1, <2>2, Settles DEF Pending, op
  <1> QED BY <1>2, <1>3 DEF Resume

LEMMA BlockOldKeeps ==
    ASSUME IInv, BlockOld
    PROVE  IInv'
  <1>1. pc = "block" /\ UNCHANGED <<relay, keychain>>
    BY DEF BlockOld
  <1>2. /\ Pending /\ op \in Op /\ OpOK(op) /\ acked = {} /\ PlaceAt(pc, op) /\ mem \in Records
        /\ (op.activated <=> mem.account = "new") /\ faults \in 0..MaxFaults
    BY <1>1, AtPlace DEF Pushing
  <1>3. CASE Fault /\ Return /\ UNCHANGED local
    BY <1>1, <1>3, FaultType, Returns DEF local
  <1>4. CASE /\ Persist([mem EXCEPT !.blocked = (mem.account = "old")])
             /\ Goto("create") /\ UNCHANGED faults
    <2>1. PICK m : m = [mem EXCEPT !.blocked = (mem.account = "old")]
      OBVIOUS
    <2>2. m \in Records /\ m.op = mem.op /\ m.account = mem.account
      BY <1>2, <2>1 DEF Records
    <2>3. mem.account # "new" /\ mem.op # NoOp
      BY <1>1, <1>2 DEF PlaceAt, Places, Freezing, Copying, Activating, Cleaning, Pending, op
    <2>4. StateOK(m)
      BY <2>2, <2>3 DEF IInv, StateOK
    <2>5. mem' = m /\ disk' = m /\ acked' = {} /\ shown' = shown /\ faults' = faults
          /\ pc' = "create"
      BY <1>2, <1>4, <2>1 DEF Persist, Goto
    <2>6. PlaceOK'
      <3>1. op' = op /\ keychain' = keychain
        BY <1>1, <2>2, <2>5 DEF op
      <3> QED BY <1>1, <1>2, <2>5, <3>1 DEF PlaceOK, PlaceAt, Places, Freezing, Copying,
                Activating, Cleaning
    <2>7. shown \in BOOLEAN
      BY TypeParts DEF IInv
    <2> QED BY <1>1, <1>2, <2>2, <2>3, <2>4, <2>5, <2>6, <2>7, Settles
  <1> QED BY <1>3, <1>4 DEF BlockOld

(* The new account replaces the old one. *)
LEMMA ActivateKeeps ==
    ASSUME IInv, Activate
    PROVE  IInv'
  <1>1. pc = "activate" /\ UNCHANGED <<relay, keychain>>
    BY DEF Activate
  <1>2. /\ Pending /\ op \in Op /\ OpOK(op) /\ acked = {} /\ PlaceAt(pc, op)
        /\ faults \in 0..MaxFaults
    BY <1>1, AtPlace DEF Pushing
  <1>3. CASE Fault /\ Return /\ UNCHANGED local
    BY <1>1, <1>3, FaultType, Returns DEF local
  <1>4. CASE /\ Persist([account |-> "new", blocked |-> FALSE, op |-> [op EXCEPT !.activated = TRUE]])
             /\ Goto("clean") /\ UNCHANGED faults
    <2>1. PICK o : o = [op EXCEPT !.activated = TRUE]
      OBVIOUS
    <2>2. o \in Op
      BY <1>2, <2>1, OpSteps
    <2>3. /\ o.activated = TRUE /\ o.step = op.step /\ o.meta = op.meta /\ o.frozen = op.frozen
          /\ o.created = op.created /\ o.source = op.source /\ o.dirty = op.dirty
      BY <1>2, <2>1 DEF Op
    <2>4. OpOK(o)
      BY <1>2, <2>3 DEF OpOK
    <2>5. PICK m : m = [account |-> "new", blocked |-> FALSE, op |-> o]
      OBVIOUS
    <2>6. m \in Records /\ m.op = o /\ m.account = "new" /\ m.blocked = FALSE
      BY <2>2, <2>5 DEF Records
    <2>7. keychain.mnemonic = "new" /\ o # NoOp
      BY <1>1, <1>2, <2>2, OpFields DEF PlaceAt, Places, Freezing, Copying, Activating, Cleaning
    <2>8. StateOK(m)
      BY <2>3, <2>4, <2>6, <2>7 DEF StateOK
    <2>9. mem' = m /\ disk' = m /\ acked' = {} /\ shown' = shown /\ faults' = faults
          /\ pc' = "clean"
      BY <1>2, <1>4, <2>1, <2>5 DEF Persist, Goto
    <2>10. PlaceOK'
      <3>1. op' = o
        BY <2>6, <2>9 DEF op
      <3> QED BY <2>3, <2>9, <3>1 DEF PlaceOK, PlaceAt, Places, Freezing, Copying, Activating,
                Cleaning
    <2>11. shown \in BOOLEAN
      BY TypeParts DEF IInv
    <2> QED BY <1>1, <1>2, <2>6, <2>7, <2>8, <2>9, <2>10, <2>11, Settles
  <1> QED BY <1>3, <1>4 DEF Activate

LEMMA ProveActivatedKeeps ==
    ASSUME IInv, ProveActivated
    PROVE  IInv'
  <1>1. pc = "clean" /\ UNCHANGED <<relay, keychain>>
    BY DEF ProveActivated
  <1>2. Pending /\ op \in Op /\ OpOK(op) /\ RelayType /\ acked = {} /\ op.activated
    BY <1>1, AtPlace DEF PlaceAt, Places, Freezing, Copying, Activating, Cleaning, Pushing
  <1>3. PICK p : p = TargetSeen(op)
    OBVIOUS
  <1>4. p \in Op /\ OpOK(p) /\ p.activated = op.activated
    BY <1>2, <1>3, SeenOK
  <1>5. PlaceAt("delete_staged", p)
    BY <1>2, <1>4 DEF PlaceAt, Places, Freezing, Copying, Activating, Cleaning
  <1>6. CASE Stored(p, "delete_staged")
    BY <1>1, <1>2, <1>4, <1>5, <1>6, StoredKeeps
  <1>7. CASE Return /\ UNCHANGED <<local, faults>>
    BY <1>1, <1>7, Returns, AtPlace DEF local
  <1> QED BY <1>3, <1>6, <1>7 DEF ProveActivated

LEMMA FinishKeeps ==
    ASSUME IInv, Finish
    PROVE  IInv'
  <1>1. pc = "finish" /\ UNCHANGED <<relay, keychain>> /\ Return
    BY DEF Finish
  <1>2. /\ PlaceAt(pc, op) /\ mem \in Records /\ (op.activated <=> mem.account = "new")
        /\ faults \in 0..MaxFaults
    BY <1>1, AtPlace DEF Pushing
  <1>3. CASE Fault /\ UNCHANGED local
    BY <1>1, <1>3, FaultType, Returns DEF local
  <1>4. CASE Persist(WithOp(NoOp)) /\ UNCHANGED faults
    <2>1. PICK m : m = [mem EXCEPT !.op = NoOp]
      OBVIOUS
    <2>2. m \in Records /\ m.op = NoOp /\ m.account = mem.account /\ m.blocked = mem.blocked
      BY <1>2, <2>1 DEF Records
    <2>3. mem.account = "new" /\ keychain.mnemonic = "new" /\ ~mem.blocked
      BY <1>1, <1>2 DEF PlaceAt, Places, Freezing, Copying, Activating, Cleaning, IInv, StateOK
    <2>4. StateOK(m)
      BY <2>2, <2>3 DEF StateOK
    <2>5. mem' = m /\ disk' = m /\ acked' = {} /\ shown' = TRUE /\ faults' = faults
          /\ pc' = "idle"
      BY <1>1, <1>4, <2>1 DEF Persist, WithOp, Return
    <2>6. PlaceOK'
      BY <2>5 DEF PlaceOK, PlaceAt, Places, Freezing, Copying, Activating, Cleaning
    <2> QED BY <1>1, <1>2, <2>2, <2>4, <2>5, <2>6, Settles
  <1> QED BY <1>3, <1>4 DEF Finish

LEMMA StepFailsKeeps ==
    ASSUME IInv, StepFails
    PROVE  IInv'
  BY FaultType, Returns DEF StepFails, local

(* Memory is what was saved. *)
LEMMA CrashKeeps ==
    ASSUME IInv, Crash
    PROVE  IInv'
  <1>1. disk \in Records /\ StateOK(disk) /\ shown \in BOOLEAN
    BY TypeParts DEF IInv
  <1>2. /\ UNCHANGED <<relay, keychain>> /\ mem' = disk /\ disk' = disk /\ acked' = {}
        /\ pc' = "idle"
        /\ shown' = shown /\ faults' \in 0..MaxFaults
    BY FaultType DEF Crash
  <1>3. PlaceOK'
    BY <1>2 DEF PlaceOK, PlaceAt, Places, Freezing, Copying, Activating, Cleaning
  <1> QED BY <1>1, <1>2, <1>3, Settles

-----------------------------------------------------------------------------
(* The relay moves on by itself: other devices, and pushes that arrive     *)
(* late.                                                                   *)
LEMMA RelayStep ==
    ASSUME IInv, RelayType', Grows, UNCHANGED <<keychain, mem, disk, shown, pc, acked, faults>>,
           ActiveOK', KeysOK', old'[Account].frozen = old[Account].frozen
    PROVE  IInv'
  <1>1. /\ RelayType /\ mem \in Records /\ shown \in BOOLEAN /\ faults \in 0..MaxFaults
        /\ acked \subseteq Row \cup {Meta} /\ PlaceOK /\ AckedOK /\ (pc # "idle" => Pending)
    BY TypeParts DEF IInv
  <1>2. op' = op /\ ChainAt' = ChainAt
    BY DEF op, ChainAt
  <1>3. PlaceOK'
    <2>1. CASE pc = "idle"
      BY <2>1 DEF PlaceOK, PlaceAt, Places, Freezing, Copying, Activating, Cleaning
    <2>2. CASE pc # "idle"
      <3>1. PICK o : o = op
        OBVIOUS
      <3>2. PICK w : w = pc
        OBVIOUS
      <3>3. o \in Op /\ PlaceAt(w, o)
        BY <2>2, <3>1, <3>2, AtPlace
      <3>4. PlaceAt(w, o)'
        BY <1>1, <3>3, PlaceKept
      <3> QED BY <1>2, <3>1, <3>2, <3>4 DEF PlaceOK, PlaceAt
    <2> QED BY <2>1, <2>2
  <1>4. AckedOK'
    <2>1. CASE pc \notin Pushing
      BY <1>1, <2>1 DEF AckedOK
    <2>2. CASE pc \in Pushing
      <3>1. ChainAt \in Chain
        <4>1. pc = "push_space" => \E s \in Space : op.dirty[s] # {}
          BY <1>1 DEF PlaceOK, PlaceAt
        <4> QED BY <2>2, <4>1, Names DEF ChainAt, Pushing
      <3>2. new[ChainAt].rows \subseteq new'[ChainAt].rows
        BY <3>1 DEF Grows
      <3>3. Reached(op.meta) => Reached(op.meta)'
        <4>1. PICK x : x = op.meta
          OBVIOUS
        <4>2. Reached(x) => Reached(x)'
          BY <1>1, FrozenKept
        <4> QED BY <1>2, <4>1, <4>2
      <3> QED BY <1>1, <1>2, <2>2, <3>2, <3>3 DEF AckedOK
    <2> QED BY <2>1, <2>2
  <1> QED BY <1>1, <1>3, <1>4, Moves

(* A device with the old code writes, or creates a space. *)
LEMMA OldGrows ==
    ASSUME IInv, NEW c \in Chain, ~old[c].frozen, NEW r \in Row,
           old' = [old EXCEPT ![c].rows = @ \cup {r}],
           UNCHANGED <<new, marker, net, keychain, mem, disk, shown, pc, acked, faults>>
    PROVE  IInv'
  <1>1. RelayType /\ ActiveOK /\ KeysOK
    BY TypeParts DEF IInv
  <1>2. /\ old' \in [Chain -> [rows : SUBSET Row, frozen : BOOLEAN]]
        /\ \A d \in Chain : /\ old'[d].frozen = old[d].frozen
                            /\ old[d].frozen => old'[d].rows = old[d].rows
    BY <1>1 DEF RelayType
  <1>3. Grows /\ RelayType'
    BY <1>1, <1>2 DEF Grows, RelayType
  <1>4. ActiveOK'
    BY <1>1, <1>3, FrozenKept DEF ActiveOK
  <1>5. KeysOK' /\ old'[Account].frozen = old[Account].frozen
    BY <1>1, <1>2, Names DEF KeysOK
  <1> QED BY <1>3, <1>4, <1>5, RelayStep

LEMMA OthersKeeps ==
    ASSUME IInv, Others
    PROVE  IInv'
  <1>1. ASSUME NEW c \in Chain, NEW w \in Write, OtherWrites(c, w) PROVE IInv'
    BY <1>1, OldGrows DEF OtherWrites, Row, local
  <1>2. ASSUME NEW s \in Space, OtherCreatesSpace(s) PROVE IInv'
    BY <1>2, OldGrows, Names DEF OtherCreatesSpace, Row, local
  <1>3. CASE OtherJoins
    <2>1. RelayType /\ ActiveOK /\ KeysOK
      BY TypeParts DEF IInv
    <2>2. /\ UNCHANGED <<old, marker, net, keychain, mem, disk, shown, pc, acked, faults>>
          /\ new' = [new EXCEPT ![Account].rows = @ \cup {Joiner}]
      BY <1>3 DEF OtherJoins, local
    <2>3. /\ new' \in [Chain -> [exists : BOOLEAN, rows : SUBSET (Row \cup {Joiner})]]
          /\ \A d \in Chain : new'[d].exists = new[d].exists /\ new[d].rows \subseteq new'[d].rows
      BY <2>1, <2>2, Names DEF RelayType
    <2>4. Grows /\ RelayType'
      BY <2>1, <2>2, <2>3 DEF Grows, RelayType
    <2>5. ActiveOK'
      BY <2>1, <2>2, <2>4, FrozenKept DEF ActiveOK
    <2>6. KeysOK'
      BY <2>1, <2>2 DEF KeysOK
    <2> QED BY <2>2, <2>4, <2>5, <2>6, RelayStep
  <1> QED BY <1>1, <1>2, <1>3 DEF Others

(* A push at the relay. *)
LEMMA DeliverFacts ==
    ASSUME IInv, NEW c \in Chain, NEW rows \in SUBSET (Row \cup {Meta}),
           NEW meta \in {"publishing", "active"}, Deliver(c, rows, meta), old' = old,
           meta = "active" => AllFrozen /\ Complete
    PROVE  /\ Grows /\ new' \in [Chain -> [exists : BOOLEAN, rows : SUBSET (Row \cup {Joiner})]]
           /\ marker' \in {"none", "publishing", "active"}
           /\ marker' = "active" => AllFrozen' /\ Complete'
           /\ rows \ {Meta} \subseteq new'[c].rows
           /\ Meta \in rows /\ (meta = "active" => marker # "none") => Reached(meta)'
  <1>1. RelayType /\ ActiveOK
    BY TypeParts DEF IInv
  <1>2. rows \ {Meta} \subseteq Row
    OBVIOUS
  <1>3. /\ new' \in [Chain -> [exists : BOOLEAN, rows : SUBSET (Row \cup {Joiner})]]
        /\ \A d \in Chain : new'[d].exists = new[d].exists /\ new[d].rows \subseteq new'[d].rows
        /\ rows \ {Meta} \subseteq new'[c].rows
    BY <1>1, <1>2 DEF RelayType, Deliver
  <1>4. /\ marker' \in {"none", "publishing", "active"} /\ (marker # "none" => marker' # "none")
        /\ (marker = "active" => marker' = "active")
        /\ (marker' = "active" => marker = "active" \/ meta = "active")
    BY <1>1 DEF RelayType, Deliver
  <1>5. Grows
    BY <1>3, <1>4 DEF Grows
  <1>6. marker' = "active" => AllFrozen' /\ Complete'
    BY <1>1, <1>4, <1>5, FrozenKept DEF ActiveOK
  <1>7. Meta \in rows /\ (meta = "active" => marker # "none") => Reached(meta)'
    BY <1>1 DEF RelayType, Deliver, Reached
  <1> QED BY <1>3, <1>4, <1>5, <1>6, <1>7

LEMMA LateDeliveryKeeps ==
    ASSUME IInv, LateDelivery
    PROVE  IInv'
  <1>1. PICK p \in net : Deliver(p.chain, p.rows, p.meta) /\ net' = net \ {p}
    BY DEF LateDelivery
  <1>2. UNCHANGED <<old, keychain, mem, disk, shown, pc, acked, faults>>
    BY DEF LateDelivery, local
  <1>3. RelayType /\ ActiveOK /\ KeysOK
    BY TypeParts DEF IInv
  <1>4. /\ p.chain \in Chain /\ p.rows \in SUBSET (Row \cup {Meta})
        /\ p.meta \in {"publishing", "active"}
    BY <1>3 DEF RelayType
  <1>5. p.meta = "active" => AllFrozen /\ Complete
    BY <1>3 DEF ActiveOK
  <1>6. /\ Grows /\ new' \in [Chain -> [exists : BOOLEAN, rows : SUBSET (Row \cup {Joiner})]]
        /\ marker' \in {"none", "publishing", "active"}
        /\ marker' = "active" => AllFrozen' /\ Complete'
    BY <1>1, <1>2, <1>4, <1>5, DeliverFacts
  <1>7. RelayType'
    BY <1>1, <1>2, <1>3, <1>6 DEF RelayType
  <1>8. ActiveOK'
    BY <1>1, <1>3, <1>6, FrozenKept DEF ActiveOK
  <1>9. KeysOK'
    BY <1>2, <1>3, <1>6 DEF KeysOK, Grows
  <1> QED BY <1>2, <1>6, <1>7, <1>8, <1>9, RelayStep

-----------------------------------------------------------------------------
(* Receipts. *)
LEMMA ReceiptsOK ==
    ASSUME RelayType, NEW o \in Op, OpOK(o), NEW c \in Chain, NEW a,
           a \ {Meta} \subseteq new[c].rows, Meta \in a => Reached(o.meta),
           NEW p, p = [o EXCEPT !.dirty[c] = o.dirty[c] \ a]
    PROVE  /\ p \in Op /\ OpOK(p) /\ p.step = o.step /\ p.activated = o.activated
           /\ p.source = o.source /\ p.created = o.created
  <1>1. PICK x : x = o.dirty[c] \ a
    OBVIOUS
  <1>2. x \in SUBSET (Row \cup {Meta})
    BY <1>1, OpFields
  <1>3. /\ p \in Op /\ p.dirty[c] = x /\ \A d \in Chain \ {c} : p.dirty[d] = o.dirty[d]
        /\ p.step = o.step /\ p.activated = o.activated /\ p.frozen = o.frozen
        /\ p.created = o.created /\ p.source = o.source /\ p.meta = o.meta
    BY <1>1, <1>2 DEF Op, Row
  <1>4. ASSUME o.step \in {"copying", "activating"}
        PROVE  /\ \A d \in Chain : p.source[d] \subseteq new[d].rows \cup p.dirty[d]
               /\ Meta \notin p.dirty[Account] => Reached(p.meta)
    <2>1. /\ \A d \in Chain : o.source[d] \subseteq new[d].rows \cup o.dirty[d]
          /\ Meta \notin o.dirty[Account] => Reached(o.meta)
      BY <1>4 DEF OpOK
    <2>2. Meta \notin o.source[c]
      BY OpFields, Names
    <2>3. p.source[c] \subseteq new[c].rows \cup p.dirty[c]
      BY <1>1, <1>3, <2>1, <2>2
    <2>4. Meta \notin p.dirty[Account] => Reached(p.meta)
      BY <1>1, <1>3, <2>1, Names
    <2> QED BY <1>3, <2>1, <2>3, <2>4
  <1>5. OpOK(p)
    BY <1>3, <1>4 DEF OpOK
  <1> QED BY <1>3, <1>5

(* What a push knows. *)
LEMMA AtPush ==
    ASSUME IInv, pc \in Pushing
    PROVE  /\ Pending /\ op \in Op /\ OpOK(op) /\ PlaceAt(pc, op) /\ RelayType
           /\ ChainAt \in Chain
           /\ mem \in Records /\ faults \in 0..MaxFaults /\ shown \in BOOLEAN
           /\ acked \subseteq Row \cup {Meta} /\ acked \ {Meta} \subseteq new[ChainAt].rows
           /\ (Meta \in acked => Reached(op.meta)) /\ op.dirty[ChainAt] \in SUBSET (Row \cup {Meta})
           /\ op.meta \in {"publishing", "active"}
           /\ (op.meta = "active" => AllFrozen /\ Complete /\ marker # "none")
  <1>1. /\ Pending /\ op \in Op /\ OpOK(op) /\ PlaceAt(pc, op) /\ RelayType
        /\ mem \in Records /\ faults \in 0..MaxFaults
    BY AtPlace DEF Pushing
  <1>2. shown \in BOOLEAN /\ acked \subseteq Row \cup {Meta}
    BY TypeParts DEF IInv
  <1>3. ChainAt \in Chain
    <2>1. pc = "push_space" => \E s \in Space : op.dirty[s] # {}
      BY <1>1 DEF PlaceAt
    <2> QED BY <2>1, Names DEF ChainAt, Pushing
  <1>4. acked \ {Meta} \subseteq new[ChainAt].rows /\ (Meta \in acked => Reached(op.meta))
    BY DEF IInv, AckedOK
  <1>5. op.dirty[ChainAt] \in SUBSET (Row \cup {Meta}) /\ op.meta \in {"publishing", "active"}
    BY <1>1, <1>3, OpFields
  <1>6. op.meta = "active" => AllFrozen /\ Complete /\ marker # "none"
    BY <1>1 DEF OpOK
  <1> QED BY <1>1, <1>2, <1>3, <1>4, <1>5, <1>6

(* A push that ends, after whatever the relay did with its last batch. *)
LEMMA PushEnds ==
    ASSUME IInv, pc \in Pushing, RelayType', Grows, keychain' = keychain, ActiveOK', KeysOK',
           mem' = Receipts, disk' \in {disk, Receipts}, Return,
           faults' \in 0..MaxFaults
    PROVE  IInv'
  <1>1. PICK p : p = [op EXCEPT !.dirty[ChainAt] = @ \ acked]
    OBVIOUS
  <1>2. PICK o : o = op
    OBVIOUS
  <1>3. PICK c : c = ChainAt
    OBVIOUS
  <1>4. p \in Op /\ OpOK(p) /\ p.activated = op.activated
    BY <1>1, <1>2, <1>3, AtPush, ReceiptsOK
  <1>5. OpOK(p)'
    BY <1>4, AtPush, OpKept
  <1>6. PlaceAt("idle", p)'
    BY DEF PlaceAt, Places, Freezing, Copying, Activating, Cleaning
  <1>7. mem' = WithOp(p) /\ disk' \in {disk, mem'} /\ pc' \in {"idle", "idle"} /\ acked' = {}
        /\ shown' = TRUE
    BY <1>1 DEF Receipts, Return
  <1> QED BY <1>4, <1>5, <1>6, <1>7, AtPush, Saves

LEMMA PushBatchKeeps ==
    ASSUME IInv, PushBatch
    PROVE  IInv'
  <1>1. pc \in Pushing /\ UNCHANGED <<old, net, keychain, mem, disk, pc, shown, faults>>
    BY DEF PushBatch, Pushing, local
  <1>2. PICK b \in Batches(Left) :
          /\ Deliver(ChainAt, b, op.meta)
          /\ acked' = acked \cup (b \ Conflicts(ChainAt, b))
    BY DEF PushBatch
  <1>3. b \in SUBSET (Row \cup {Meta})
    BY <1>1, AtPush DEF Batches, Left
  <1>4. PICK c \in Chain : c = ChainAt
    BY <1>1, AtPush
  <1>5. PICK meta \in {"publishing", "active"} : meta = op.meta
    BY <1>1, AtPush
  <1>6. Deliver(c, b, meta) /\ (meta = "active" => AllFrozen /\ Complete)
    BY <1>1, <1>2, <1>4, <1>5, AtPush
  <1>7. /\ Grows /\ new' \in [Chain -> [exists : BOOLEAN, rows : SUBSET (Row \cup {Joiner})]]
        /\ marker' \in {"none", "publishing", "active"}
        /\ marker' = "active" => AllFrozen' /\ Complete'
        /\ b \ {Meta} \subseteq new'[c].rows
        /\ Meta \in b /\ (meta = "active" => marker # "none") => Reached(meta)'
    BY <1>1, <1>3, <1>6, DeliverFacts
  <1>8. RelayType /\ ActiveOK /\ KeysOK
    BY TypeParts DEF IInv
  <1>9. RelayType'
    BY <1>1, <1>7, <1>8 DEF RelayType
  <1>10. ActiveOK' /\ KeysOK'
    BY <1>1, <1>7, <1>8, FrozenKept DEF ActiveOK, KeysOK, Grows
  <1>11. acked' \subseteq acked \cup b
    BY <1>2
  <1>12. op' = op /\ ChainAt' = c /\ mem' = mem /\ disk' = disk /\ pc' = pc
    BY <1>1, <1>4 DEF op, ChainAt
  <1>13. PlaceOK'
    <2>1. PICK o : o = op
      OBVIOUS
    <2>2. PICK w : w = pc
      OBVIOUS
    <2>3. PlaceAt(w, o)'
      BY <1>1, <1>7, <2>1, <2>2, AtPush, PlaceKept
    <2> QED BY <1>12, <2>1, <2>2, <2>3 DEF PlaceOK, PlaceAt
  <1>14. AckedOK'
    <2>1. acked' \ {Meta} \subseteq new'[c].rows
      BY <1>1, <1>4, <1>7, <1>11, AtPush DEF Grows
    <2>2. Meta \in acked' => Reached(meta)'
      <3>1. Meta \in acked => Reached(meta)'
        BY <1>1, <1>5, <1>7, <1>8, AtPush, FrozenKept
      <3>2. Meta \in b => Reached(meta)'
        BY <1>1, <1>5, <1>7, AtPush
      <3> QED BY <1>11, <3>1, <3>2
    <2>3. op'.meta = meta
      BY <1>5, <1>12
    <2> QED BY <1>1, <1>12, <2>1, <2>2, <2>3 DEF AckedOK
  <1>15. acked' \subseteq Row \cup {Meta}
    BY <1>1, <1>3, <1>11, AtPush
  <1> QED BY <1>1, <1>7, <1>9, <1>10, <1>11, <1>12, <1>13, <1>14, <1>15, AtPush, Moves

(* A batch that is lost, not answered, or still to arrive. *)
LEMMA PushFailsKeeps ==
    ASSUME IInv, PushFails
    PROVE  IInv'
  <1>1. pc \in Pushing /\ UNCHANGED <<old, keychain>> /\ faults' \in 0..MaxFaults
    BY FaultType DEF PushFails, Pushing
  <1>2. PICK b \in Batches(Left) :
          \/ UNCHANGED <<new, marker, net>>
          \/ Deliver(ChainAt, b, op.meta) /\ UNCHANGED net
          \/ net' = {[chain |-> ChainAt, rows |-> b, meta |-> op.meta]} \cup net /\ UNCHANGED <<new, marker>>
    BY DEF PushFails
  <1>3. b \in SUBSET (Row \cup {Meta})
    BY <1>1, AtPush DEF Batches, Left
  <1>4. RelayType /\ ActiveOK /\ KeysOK
    BY TypeParts DEF IInv
  <1>5. Grows /\ RelayType' /\ ActiveOK' /\ KeysOK'
    <2>1. CASE UNCHANGED <<new, marker, net>>
      BY <1>1, <2>1, Still DEF relay
    <2>2. CASE Deliver(ChainAt, b, op.meta) /\ UNCHANGED net
      <3>1. PICK c \in Chain : c = ChainAt
        BY <1>1, AtPush
      <3>2. PICK meta \in {"publishing", "active"} : meta = op.meta
        BY <1>1, AtPush
      <3>3. Deliver(c, b, meta) /\ (meta = "active" => AllFrozen /\ Complete)
        BY <1>1, <2>2, <3>1, <3>2, AtPush
      <3>4. /\ Grows
            /\ new' \in [Chain -> [exists : BOOLEAN, rows : SUBSET (Row \cup {Joiner})]]
            /\ marker' \in {"none", "publishing", "active"}
            /\ marker' = "active" => AllFrozen' /\ Complete'
        BY <1>1, <1>3, <3>3, DeliverFacts
      <3>5. RelayType'
        BY <1>1, <1>4, <2>2, <3>4 DEF RelayType
      <3> QED BY <1>1, <1>4, <2>2, <3>4, <3>5, FrozenKept DEF ActiveOK, KeysOK, Grows
    <2>3. CASE /\ net' = {[chain |-> ChainAt, rows |-> b, meta |-> op.meta]} \cup net
               /\ UNCHANGED <<new, marker>>
      <3>1. PICK p : p = [chain |-> ChainAt, rows |-> b, meta |-> op.meta]
        OBVIOUS
      <3>2. /\ p \in [chain : Chain, rows : SUBSET (Row \cup {Meta}), meta : {"publishing", "active"}]
            /\ p.meta = op.meta
        BY <1>1, <1>3, <3>1, AtPush
      <3>3. Grows /\ RelayType'
        BY <1>1, <1>4, <2>3, <3>1, <3>2 DEF Grows, RelayType
      <3>4. p.meta = "active" => AllFrozen /\ Complete
        BY <1>1, <3>2, AtPush
      <3>5. ActiveOK'
        BY <1>4, <2>3, <3>1, <3>3, <3>4, FrozenKept DEF ActiveOK
      <3> QED BY <1>1, <1>4, <2>3, <3>3, <3>5 DEF KeysOK
    <2> QED BY <1>2, <2>1, <2>2, <2>3
  <1> QED BY <1>1, <1>5, PushEnds DEF PushFails

LEMMA PushDoneKeeps ==
    ASSUME IInv, PushDone
    PROVE  IInv'
  <1>1. pc \in Pushing /\ UNCHANGED <<relay, keychain>>
    BY DEF PushDone, Pushing
  <1>2. PICK p : p = [op EXCEPT !.dirty[ChainAt] = @ \ acked]
    OBVIOUS
  <1>3. PICK o : o = op
    OBVIOUS
  <1>4. PICK c : c = ChainAt
    OBVIOUS
  <1>5. p \in Op /\ OpOK(p) /\ p.activated = op.activated /\ p.step = op.step
        /\ p.source = op.source
        /\ p.created = op.created
    BY <1>1, <1>2, <1>3, <1>4, AtPush, ReceiptsOK
  <1>6. Grows /\ RelayType' /\ ActiveOK' /\ KeysOK'
    BY <1>1, Still
  <1>7. OpOK(p)'
    BY <1>1, <1>5, <1>6, AtPush, OpKept
  <1>8. PICK w : w = IF pc = "push_active" THEN "promote" ELSE "prove_spaces"
    OBVIOUS
  <1>9. PlaceAt(w, p)'
    <2>1. PlaceAt(w, p)
      BY <1>1, <1>5, <1>8, AtPush DEF PlaceAt, Places, Freezing, Copying, Activating, Cleaning,
                Pushing
    <2> QED BY <1>1, <1>5, <1>6, <2>1, AtPush, PlaceKept
  <1>10. /\ mem' = WithOp(p) /\ disk' \in {disk, mem'} /\ pc' \in {"idle", w} /\ acked' = {}
         /\ shown' \in {shown, TRUE}
    BY <1>2, <1>8 DEF PushDone, Receipts, Persist, Return
  <1>11. faults' \in 0..MaxFaults /\ shown' \in BOOLEAN
    BY <1>1, <1>10, FaultType, AtPush DEF PushDone
  <1> QED BY <1>1, <1>5, <1>6, <1>7, <1>9, <1>10, <1>11, AtPush, Saves

-----------------------------------------------------------------------------
LEMMA InitOK ==
    Init => IInv
  <1> SUFFICES ASSUME Init PROVE IInv
    OBVIOUS
  <1>1. Account \in Chain /\ FirstSpace \in Row
    BY Names DEF Row
  <1>2. /\ \A c \in Chain : old[c].frozen = FALSE
        /\ RelayType
    BY <1>1 DEF Init, RelayType, Row
  <1>3. /\ mem \in Records /\ disk = mem /\ mem.op = NoOp /\ mem.account = "old"
        /\ mem.blocked = FALSE
        /\ keychain.mnemonic = "old"
    BY DEF Init, Records
  <1>4. TypeOK
    <2>1. disk \in Records
      BY <1>3
    <2>2. keychain \in [mnemonic : {"old", "new"}, staged : BOOLEAN, archive : BOOLEAN]
      BY DEF Init
    <2>3. faults \in 0..MaxFaults
      BY RotationAssumption DEF Init
    <2>4. shown \in BOOLEAN /\ acked \subseteq Row /\ pc = "idle"
      BY DEF Init
    <2> QED BY <1>2, <1>3, <2>1, <2>2, <2>3, <2>4, TypeParts
  <1>5. StateOK(mem) /\ StateOK(disk) /\ Agree
    BY <1>1, <1>2, <1>3 DEF StateOK, Agree
  <1>6. ActiveOK /\ KeysOK
    BY <1>2, <1>3 DEF Init, ActiveOK, KeysOK
  <1>7. PlaceOK /\ AckedOK
    BY DEF Init, PlaceOK, AckedOK, PlaceAt, Places, Freezing, Copying, Activating, Cleaning, Pushing
  <1> QED BY <1>4, <1>5, <1>6, <1>7 DEF IInv

LEMMA NextOK ==
    IInv /\ [Next]_vars => IInv'
  <1> SUFFICES ASSUME IInv, [Next]_vars PROVE IInv'
    OBVIOUS
  <1>1. CASE Step
    BY <1>1, ProveSourceKeeps, ArchiveSourceCodeKeeps, StageNewCodeKeeps, StoreFreezingKeeps,
       FreezeAccountKeeps, ListSpacesKeeps, FreezeSpacesKeeps, SnapshotKeeps, BlockOldKeeps,
       CreateAccountKeeps, CreateSpacesKeeps, ProveAccountKeeps, ProveSpaceKeeps, PushBatchKeeps,
       PushDoneKeeps, SealKeeps, PromoteCodeKeeps, ActivateKeeps, ProveActivatedKeeps,
       DeleteStagedKeeps, DeleteArchiveKeeps, FinishKeeps DEF Step
  <1>2. CASE UNCHANGED vars
    <2>1. UNCHANGED <<relay, keychain, mem, disk, shown, pc, acked, faults>>
      BY <1>2 DEF vars, relay
    <2>2. Grows /\ RelayType' /\ ActiveOK' /\ KeysOK'
      BY <2>1, Still
    <2> QED BY <2>1, <2>2, RelayStep DEF relay
  <1> QED BY <1>1, <1>2, StartRotationKeeps, ResumeKeeps, PushFailsKeeps, LateDeliveryKeeps,
             StepFailsKeeps, CrashKeeps, OthersKeeps DEF Next

(* The invariant of a rotation holds in every state. *)
THEOREM Invariance == Spec => []IInv
  BY InitOK, NextOK, PTL DEF Spec

(* Changing the code is safe at every crash, failed save, lost answer and  *)
(* late push: once the marker of the new account is active every write the *)
(* old chains ever accepted is in the new ones; the device switches only   *)
(* to an active account; and the codes a resume needs are in the keychain. *)
THEOREM Rotating == Spec => []RotationSafe
  <1>1. IInv => RotationSafe
    <2> SUFFICES ASSUME IInv PROVE RotationSafe
      OBVIOUS
    <2>1. TypeOK
      BY DEF IInv
    <2>2. NothingLeftBehind
      BY DEF IInv, ActiveOK, NothingLeftBehind, Complete
    <2>3. SwitchOnlyToActive
      BY DEF IInv, KeysOK, StateOK, SwitchOnlyToActive, Pending, op
    <2>4. CodesRetained
      <3>1. disk \in Records /\ keychain.mnemonic \in {"old", "new"}
        BY <2>1, TypeParts
      <3>2. disk.op # NoOp /\ ~disk.op.activated => SourceCode
        BY <3>1 DEF IInv, StateOK, SourceCode, Records
      <3> QED BY <3>2 DEF IInv, KeysOK, StateOK, CodesRetained
    <2> QED BY <2>1, <2>2, <2>3, <2>4 DEF RotationSafe
  <1> QED BY <1>1, Invariance, PTL

-----------------------------------------------------------------------------
(***************************************************************************)
(* Leaving the account, the other operation with a journal (LeaveAccount): *)
(* the same program with fewer places, and every save is of memory and     *)
(* disk together, so that what the journal says holds of both.             *)
(***************************************************************************)
LeaveJournal == [activated : BOOLEAN, pending : BOOLEAN, plan : SUBSET Host, copied : SUBSET Host]
LeaveRecords == [joined : BOOLEAN, hosts : SUBSET Host, local : SUBSET Host, op : LeaveJournal]

(* What was saved is what memory holds; a plan covers the hosts the device *)
(* has, and the account is left when the plan has been carried out.        *)
LeaveJournalOK ==
    /\ leaveMem = leaveDisk
    /\ Leave!Pending /\ ~Leave!op.activated => leaveMem.joined /\ leaveMem.hosts \subseteq Leave!op.plan
    /\ Leave!op.activated => ~leaveMem.joined /\ Leave!op.plan \subseteq leaveMem.local
    /\ ~Leave!Pending => Leave!op.plan = {}

(* What each place of resume_locked() relies on. *)
LeavePlaceOK ==
    /\ leavePc \in {"check", "copy"} => ~Leave!op.activated
    /\ leavePc \in {"delete_code", "finish"} => Leave!op.activated
    /\ todo \subseteq Host
    /\ leavePc = "copy" => \A h \in Leave!op.plan \ todo : source[h] # 0 => target[h] # 0

LeaveInv ==
    /\ Leave!TypeOK /\ LeaveJournalOK /\ LeavePlaceOK
    /\ Leave!HostsPreserved /\ Leave!CodeLast

-----------------------------------------------------------------------------
LEMMA LeaveTypes ==
    ASSUME Leave!TypeOK
    PROVE  /\ leaveMem \in LeaveRecords /\ leaveDisk \in LeaveRecords
           /\ Leave!op \in LeaveJournal
           /\ leaveChain \subseteq Host /\ had \subseteq Host
           /\ source \in [Host -> 0..MaxPassword] /\ target \in [Host -> 0..MaxPassword]
  BY DEF Leave!TypeOK, LeaveRecords, LeaveJournal, Leave!op

LEMMA LeaveInitOK == ASSUME Leave!LeaveAssumption, Leave!Init PROVE LeaveInv
  <1>1. PICK h \in SUBSET Host : leaveMem = [joined |-> TRUE, hosts |-> h, local |-> {}, op |-> Leave!NoOp]
    BY DEF Leave!Init
  <1>2. Leave!TypeOK
    <2>1. leaveMem \in LeaveRecords /\ leaveDisk \in LeaveRecords
      BY <1>1 DEF Leave!Init, Leave!NoOp, LeaveRecords, LeaveJournal
    <2>2. source \in [Host -> 0..MaxPassword] /\ target \in [Host -> 0..MaxPassword]
      BY DEF Leave!Init, Leave!LeaveAssumption
    <2> QED BY <2>1, <2>2 DEF Leave!Init, Leave!TypeOK, LeaveRecords, LeaveJournal,
                Leave!LeaveAssumption
  <1> QED BY <1>1, <1>2 DEF Leave!Init, LeaveInv, LeaveJournalOK, LeavePlaceOK,
                Leave!HostsPreserved, Leave!CodeLast, Leave!op, Leave!Pending, Leave!NoOp

(* store() and a failed step leave the records as they were, or as they    *)
(* are to be.                                                              *)
LEMMA LeaveStored ==
    ASSUME Leave!LeaveAssumption, Leave!TypeOK, NEW st, NEW where, Leave!Stored(st, where)
    PROVE  /\ leaveFaults' \in 0..MaxFaults
           /\ \/ leaveMem' = st /\ leaveDisk' = st /\ leavePc' = where
              \/ leaveMem' = leaveMem /\ leaveDisk' = leaveDisk /\ leavePc' = "idle"
  BY DEF Leave!LeaveAssumption, Leave!TypeOK, Leave!Stored, Leave!Persist, Leave!Fault, Leave!Return

LEMMA LeaveFaultType == ASSUME Leave!LeaveAssumption, Leave!TypeOK, Leave!Fault PROVE leaveFaults' \in 0..MaxFaults
  BY DEF Leave!LeaveAssumption, Leave!TypeOK, Leave!Fault

(* A step that keeps the records, the passwords and the code. *)
LEMMA LeaveQuiet ==
    ASSUME Leave!LeaveAssumption, LeaveInv, leaveMem' = leaveMem, leaveDisk' = leaveDisk,
           source' = source,
           target' = target, code' = code, had' = had, leaveChain' = leaveChain,
           leaveFaults' \in 0..MaxFaults, todo' = todo, leavePc' = "idle"
    PROVE  LeaveInv'
  <1>1. Leave!TypeOK'
    BY DEF LeaveInv, Leave!TypeOK, Leave!Pending, Leave!op
  <1> QED BY <1>1 DEF LeaveInv, LeaveJournalOK, LeavePlaceOK, Leave!HostsPreserved,
                Leave!CodeLast, Leave!Pending, Leave!op

LEMMA LeaveKeeps == ASSUME Leave!LeaveAssumption, LeaveInv, Leave!Leave PROVE LeaveInv'
  <1>1. leaveMem \in LeaveRecords /\ Leave!op \in LeaveJournal /\ leaveChain \subseteq Host
    BY LeaveTypes DEF LeaveInv
  <1>2. Leave!op' = [activated |-> FALSE, pending |-> TRUE,
  plan |-> leaveMem.hosts \cup leaveChain, copied |-> {}]
    BY <1>1 DEF Leave!Leave, Leave!Persist, Leave!SourceHosts, Leave!op, LeaveRecords
  <1>3. /\ leaveMem' = [leaveMem EXCEPT !.op = Leave!op'] /\ leaveDisk' = leaveMem'
        /\ leaveMem'.joined /\ leaveMem'.hosts = leaveMem.hosts
        /\ leaveMem'.local = leaveMem.local
    BY <1>1, <1>2 DEF Leave!Leave, Leave!Persist, Leave!SourceHosts, Leave!op, LeaveRecords
  <1>4. leaveMem' \in LeaveRecords /\ Leave!op' \in LeaveJournal
    BY <1>1, <1>2, <1>3 DEF LeaveRecords, LeaveJournal
  <1>5. Leave!TypeOK'
    BY <1>2, <1>3, <1>4 DEF Leave!Leave, LeaveInv, Leave!TypeOK, LeaveRecords, LeaveJournal,
                Leave!passwords, Leave!Pending
  <1>6. leaveDisk.joined /\ code
    BY DEF LeaveInv, LeaveJournalOK, Leave!CodeLast, Leave!Leave
  <1> QED BY <1>2, <1>3, <1>5, <1>6 DEF Leave!Leave, LeaveInv, LeaveJournalOK, LeavePlaceOK,
                Leave!HostsPreserved, Leave!CodeLast,
              Leave!Pending, Leave!passwords

LEMMA LeaveResumeKeeps == ASSUME Leave!LeaveAssumption, LeaveInv, Leave!Resume PROVE LeaveInv'
  <1>1. /\ leaveMem' = leaveMem /\ leaveDisk' = leaveDisk /\ leaveFaults' \in 0..MaxFaults
        /\ leavePc' \in {"idle", IF Leave!op.activated THEN "delete_code" ELSE "check"}
    BY LeaveStored DEF Leave!Resume, LeaveInv, LeaveJournalOK
  <1>2. Leave!TypeOK'
    BY <1>1 DEF Leave!Resume, LeaveInv, Leave!TypeOK, Leave!passwords, Leave!Pending, Leave!op
  <1> QED BY <1>1, <1>2 DEF Leave!Resume, LeaveInv, LeaveJournalOK, LeavePlaceOK,
                Leave!HostsPreserved, Leave!CodeLast, Leave!Pending, Leave!op,
              Leave!passwords

LEMMA CheckSourceKeeps == ASSUME Leave!LeaveAssumption, LeaveInv, Leave!CheckSource PROVE LeaveInv'
  <1>1. Leave!op \in LeaveJournal /\ Leave!Pending
    BY LeaveTypes DEF LeaveInv, Leave!TypeOK, Leave!CheckSource
  <1>2. Leave!TypeOK'
    BY <1>1 DEF Leave!CheckSource, LeaveInv, Leave!TypeOK, Leave!passwords, Leave!Pending, Leave!op
  <1> QED BY <1>1, <1>2 DEF Leave!CheckSource, LeaveInv, LeaveJournalOK, LeavePlaceOK,
                Leave!HostsPreserved, Leave!CodeLast, Leave!Pending,
              Leave!op, Leave!passwords, LeaveJournal

LEMMA CopyPasswordKeeps == ASSUME Leave!LeaveAssumption, LeaveInv, Leave!CopyPassword PROVE LeaveInv'
  <1>1. /\ leaveMem \in LeaveRecords /\ Leave!op \in LeaveJournal /\ Leave!Pending
        /\ ~Leave!op.activated /\ leaveMem.joined
        /\ source \in [Host -> 0..MaxPassword] /\ target \in [Host -> 0..MaxPassword]
        /\ todo \subseteq Host
    BY LeaveTypes DEF LeaveInv, Leave!TypeOK, LeaveJournalOK, LeavePlaceOK, Leave!CopyPassword
  <1>2. PICK h \in todo :
           IF target[h] \in {0, source[h]}
           THEN /\ todo' = todo \ {h}
                /\ target' = [target EXCEPT ![h] = source[h]]
                /\ Leave!Stored([leaveMem EXCEPT !.op.copied = @ \cup {h}], "copy")
           ELSE Leave!Return /\ UNCHANGED <<leaveMem, leaveDisk, target, todo, leaveFaults>>
    BY DEF Leave!CopyPassword
  <1>3. CASE target[h] \notin {0, source[h]}
    <2>1. leaveFaults \in 0..MaxFaults
      BY DEF LeaveInv, Leave!TypeOK
    <2>2. /\ leaveMem' = leaveMem /\ leaveDisk' = leaveDisk /\ source' = source
          /\ target' = target /\ code' = code
          /\ had' = had /\ leaveChain' = leaveChain /\ leaveFaults' = leaveFaults
          /\ todo' = todo /\ leavePc' = "idle"
      BY <1>2, <1>3 DEF Leave!CopyPassword, Leave!Return
    <2> QED BY <2>1, <2>2, LeaveQuiet
  <1>4. CASE target[h] \in {0, source[h]}
    <2> DEFINE st == [leaveMem EXCEPT !.op.copied = @ \cup {h}]
    <2>1. /\ st \in LeaveRecords /\ st.joined /\ st.hosts = leaveMem.hosts
          /\ st.local = leaveMem.local
          /\ st.op.plan = Leave!op.plan /\ st.op.activated = Leave!op.activated
          /\ st.op.pending = Leave!op.pending
      BY <1>1 DEF LeaveRecords, LeaveJournal, Leave!op
    <2>2. /\ leaveFaults' \in 0..MaxFaults
          /\ \/ leaveMem' = st /\ leaveDisk' = st /\ leavePc' = "copy"
             \/ leaveMem' = leaveMem /\ leaveDisk' = leaveDisk /\ leavePc' = "idle"
      BY <1>2, <1>4, LeaveStored DEF LeaveInv
    <2> HIDE DEF st
    <2>3. /\ leaveMem' \in LeaveRecords /\ leaveDisk' = leaveMem' /\ leaveMem'.joined
          /\ leaveMem'.hosts = leaveMem.hosts
          /\ leaveMem'.local = leaveMem.local /\ Leave!op'.plan = Leave!op.plan
          /\ ~Leave!op'.activated /\ Leave!Pending'
      BY <1>1, <2>1, <2>2 DEF LeaveInv, LeaveJournalOK, Leave!op, Leave!Pending
    <2>4. target' \in [Host -> 0..MaxPassword] /\ target'[h] = source[h]
          /\ \A x \in Host \ {h} : target'[x] = target[x]
      BY <1>1, <1>2, <1>4
    <2>5. Leave!TypeOK'
      BY <2>2, <2>3, <2>4 DEF Leave!CopyPassword, LeaveInv, Leave!TypeOK, LeaveRecords, LeaveJournal
    <2>6. LeavePlaceOK'
      <3>1. todo' = todo \ {h} /\ Leave!op.plan \subseteq Host
        BY <1>1, <1>2, <1>4 DEF LeaveJournal
      <3> QED BY <1>1, <2>2, <2>3, <2>4, <3>1 DEF Leave!CopyPassword, LeaveInv, LeavePlaceOK
    <2>7. code' = code /\ code
      BY <1>1 DEF Leave!CopyPassword, LeaveInv, LeaveJournalOK, Leave!CodeLast
    <2> QED BY <1>1, <2>3, <2>5, <2>6, <2>7 DEF LeaveInv, LeaveJournalOK, Leave!HostsPreserved,
                Leave!CodeLast
  <1> QED BY <1>3, <1>4

LEMMA DetachKeeps == ASSUME Leave!LeaveAssumption, LeaveInv, Leave!Detach PROVE LeaveInv'
  <1>1. /\ leaveMem \in LeaveRecords /\ Leave!op \in LeaveJournal /\ Leave!Pending
        /\ ~Leave!op.activated /\ leaveMem.joined
        /\ leaveMem.hosts \subseteq Leave!op.plan /\ leaveDisk = leaveMem
    BY LeaveTypes DEF LeaveInv, Leave!TypeOK, LeaveJournalOK, LeavePlaceOK, Leave!Detach
  <1> DEFINE st == [leaveMem EXCEPT !.joined = FALSE, !.local = @ \cup Leave!op.plan, !.hosts = {},
                               !.op.activated = TRUE]
  <1>2. /\ st \in LeaveRecords /\ ~st.joined /\ st.hosts = {}
        /\ st.local = leaveMem.local \cup Leave!op.plan
        /\ st.op.plan = Leave!op.plan /\ st.op.activated /\ st.op.pending = Leave!op.pending
    BY <1>1 DEF LeaveRecords, LeaveJournal, Leave!op
  <1>3. /\ leaveFaults' \in 0..MaxFaults
        /\ \/ leaveMem' = st /\ leaveDisk' = st /\ leavePc' = "delete_code"
           \/ leaveMem' = leaveMem /\ leaveDisk' = leaveDisk /\ leavePc' = "idle"
    BY LeaveStored DEF Leave!Detach, LeaveInv
  <1> HIDE DEF st
  <1>4. CASE leaveMem' = leaveMem /\ leaveDisk' = leaveDisk /\ leavePc' = "idle"
    <2>1. /\ source' = source /\ target' = target /\ code' = code /\ had' = had
          /\ leaveChain' = leaveChain /\ todo' = todo
      BY <1>1, <1>4 DEF Leave!Detach, Leave!passwords
    <2> QED BY <1>3, <1>4, <2>1, LeaveQuiet
  <1>5. CASE leaveMem' = st /\ leaveDisk' = st /\ leavePc' = "delete_code"
    <2>1. had' = leaveMem.hosts
      BY <1>2, <1>5 DEF Leave!Detach
    <2>2. Leave!TypeOK'
      BY <1>1, <1>2, <1>3, <1>5, <2>1 DEF Leave!Detach, LeaveInv, Leave!TypeOK, LeaveRecords,
                LeaveJournal, Leave!passwords, Leave!Pending, Leave!op
    <2>3. LeavePlaceOK' /\ LeaveJournalOK'
      BY <1>1, <1>2, <1>5 DEF Leave!Detach, LeaveInv, LeavePlaceOK, LeaveJournalOK, Leave!Pending,
                Leave!op
    <2>4. Leave!HostsPreserved'
      BY <1>1, <1>2, <1>5, <2>1 DEF Leave!Detach, LeaveInv, LeavePlaceOK, Leave!HostsPreserved,
                Leave!passwords
    <2>5. Leave!CodeLast'
      BY <1>2, <1>5 DEF Leave!Detach, Leave!CodeLast
    <2> QED BY <2>2, <2>3, <2>4, <2>5 DEF LeaveInv
  <1> QED BY <1>3, <1>4, <1>5

LEMMA DeleteCodeKeeps == ASSUME Leave!LeaveAssumption, LeaveInv, Leave!DeleteCode PROVE LeaveInv'
  <1>1. Leave!TypeOK'
    BY DEF Leave!DeleteCode, LeaveInv, Leave!TypeOK, Leave!passwords, Leave!Pending, Leave!op
  <1> QED BY <1>1 DEF Leave!DeleteCode, LeaveInv, LeaveJournalOK, LeavePlaceOK,
                Leave!HostsPreserved, Leave!CodeLast, Leave!Pending, Leave!op,
              Leave!passwords

LEMMA LeaveFinishKeeps == ASSUME Leave!LeaveAssumption, LeaveInv, Leave!Finish PROVE LeaveInv'
  <1>1. leaveMem \in LeaveRecords /\ Leave!op \in LeaveJournal /\ leaveMem = leaveDisk
        /\ ~leaveMem.joined
    BY LeaveTypes DEF LeaveInv, LeaveJournalOK, LeavePlaceOK, Leave!Finish
  <1>2. CASE Leave!Fault /\ UNCHANGED <<leaveMem, leaveDisk>>
    <2>1. leaveFaults' \in 0..MaxFaults
      BY <1>2, LeaveFaultType DEF LeaveInv
    <2>2. /\ source' = source /\ target' = target /\ code' = code /\ had' = had
          /\ leaveChain' = leaveChain /\ todo' = todo /\ leavePc' = "idle"
      BY DEF Leave!Finish, Leave!Return, Leave!passwords
    <2> QED BY <1>2, <2>1, <2>2, LeaveQuiet
  <1>3. CASE Leave!Persist([leaveMem EXCEPT !.op = Leave!NoOp]) /\ UNCHANGED leaveFaults
    <2>1. /\ leaveMem' \in LeaveRecords /\ leaveDisk' = leaveMem' /\ Leave!op' = Leave!NoOp
          /\ ~leaveMem'.joined
          /\ leaveMem'.local = leaveMem.local /\ leavePc' = "idle"
      BY <1>1, <1>3 DEF Leave!Finish, Leave!Persist, LeaveRecords, LeaveJournal, Leave!NoOp,
                Leave!op, Leave!Return
    <2>2. Leave!TypeOK'
      BY <1>3, <2>1 DEF Leave!Finish, LeaveInv, Leave!TypeOK, LeaveRecords, LeaveJournal,
                Leave!passwords
    <2> QED BY <1>1, <2>1, <2>2 DEF Leave!Finish, LeaveInv, LeaveJournalOK, LeavePlaceOK,
                Leave!HostsPreserved, Leave!CodeLast,
                Leave!Pending, Leave!op, Leave!NoOp, Leave!passwords
  <1> QED BY <1>2, <1>3 DEF Leave!Finish

LEMMA RoundKeeps == ASSUME Leave!LeaveAssumption, LeaveInv, Leave!Round PROVE LeaveInv'
  <1>1. leaveMem \in LeaveRecords /\ Leave!op \in LeaveJournal /\ leaveMem = leaveDisk
        /\ leaveChain \subseteq Host
    BY LeaveTypes DEF LeaveInv, LeaveJournalOK
  <1>2. /\ leaveMem' \in LeaveRecords /\ leaveDisk' = leaveMem' /\ leaveMem'.op = leaveMem.op
        /\ leaveMem'.joined
        /\ leaveMem'.local = leaveMem.local
    BY <1>1 DEF Leave!Round, Leave!Persist, LeaveRecords
  <1>3. leaveChain' \subseteq Host
    BY <1>1 DEF Leave!Round, LeaveRecords
  <1>4. Leave!TypeOK'
    BY <1>2, <1>3 DEF Leave!Round, LeaveInv, Leave!TypeOK, LeaveRecords, LeaveJournal,
                Leave!passwords
  <1> QED BY <1>1, <1>2, <1>4 DEF Leave!Round, LeaveInv, LeaveJournalOK, LeavePlaceOK,
                Leave!HostsPreserved, Leave!CodeLast, Leave!Pending,
              Leave!op, Leave!passwords

LEMMA SavePasswordKeeps ==
    ASSUME Leave!LeaveAssumption, LeaveInv, NEW h \in Host, NEW p \in 1..MaxPassword,
           Leave!SavePassword(h, p)
    PROVE  LeaveInv'
  <1>1. source' \in [Host -> 0..MaxPassword]
    BY DEF Leave!SavePassword, LeaveInv, Leave!TypeOK, Leave!LeaveAssumption
  <1>2. Leave!TypeOK'
    BY <1>1 DEF Leave!SavePassword, LeaveInv, Leave!TypeOK, Leave!Pending, Leave!op
  <1> QED BY <1>2 DEF Leave!SavePassword, LeaveInv, LeaveJournalOK, LeavePlaceOK,
                Leave!HostsPreserved, Leave!CodeLast, Leave!Pending, Leave!op

(* Every step keeps the invariant. *)
LEMMA LeaveNextOK == ASSUME Leave!LeaveAssumption, LeaveInv, [Leave!Next]_(Leave!vars) PROVE LeaveInv'
  <1>1. CASE Leave!StepFails
    <2>1. leaveFaults' \in 0..MaxFaults
      BY <1>1, LeaveFaultType DEF LeaveInv, Leave!StepFails
    <2>2. /\ leaveMem' = leaveMem /\ leaveDisk' = leaveDisk /\ source' = source
          /\ target' = target /\ code' = code
          /\ had' = had /\ leaveChain' = leaveChain /\ todo' = todo /\ leavePc' = "idle"
      BY <1>1 DEF Leave!StepFails, Leave!Return, Leave!passwords
    <2> QED BY <2>1, <2>2, LeaveQuiet
  <1>2. CASE Leave!Crash
    <2>1. leaveFaults' \in 0..MaxFaults
      BY <1>2, LeaveFaultType DEF LeaveInv, Leave!Crash
    <2>2. /\ leaveMem' = leaveMem /\ leaveDisk' = leaveDisk /\ source' = source
          /\ target' = target /\ code' = code
          /\ had' = had /\ leaveChain' = leaveChain /\ todo' = todo /\ leavePc' = "idle"
      BY <1>2 DEF Leave!Crash, Leave!passwords, LeaveInv, LeaveJournalOK
    <2> QED BY <2>1, <2>2, LeaveQuiet
  <1>3. ASSUME NEW h \in Host, Leave!OtherAdds(h)
        PROVE  LeaveInv'
    <2>1. Leave!TypeOK'
      BY <1>3 DEF Leave!OtherAdds, LeaveInv, Leave!TypeOK, Leave!passwords, Leave!Pending, Leave!op
    <2> QED BY <1>3, <2>1 DEF Leave!OtherAdds, LeaveInv, LeaveJournalOK, LeavePlaceOK,
                Leave!HostsPreserved, Leave!CodeLast, Leave!Pending,
                Leave!op, Leave!passwords
  <1>4. CASE UNCHANGED Leave!vars
    <2>1. Leave!TypeOK'
      BY <1>4 DEF Leave!vars, LeaveInv, Leave!TypeOK, Leave!passwords, Leave!Pending, Leave!op
    <2> QED BY <1>4, <2>1 DEF Leave!vars, LeaveInv, LeaveJournalOK, LeavePlaceOK,
                Leave!HostsPreserved, Leave!CodeLast, Leave!Pending, Leave!op,
                Leave!passwords
  <1> QED BY <1>1, <1>2, <1>3, <1>4, LeaveKeeps, LeaveResumeKeeps, CheckSourceKeeps,
                CopyPasswordKeeps,
              DetachKeeps, DeleteCodeKeeps, LeaveFinishKeeps, RoundKeeps,
              SavePasswordKeeps DEF Leave!Next, Leave!Step

(* Leaving the account: whatever fails or crashes in between, the hosts    *)
(* the user had in the account's spaces are local ones when the device has *)
(* left it, their passwords kept under the new names, and the sync code is *)
(* deleted only after that was saved.                                      *)
THEOREM Leaving == ASSUME Leave!LeaveAssumption PROVE Leave!Spec => []LeavePreserves
  <1>1. Leave!Init => LeaveInv
    BY LeaveInitOK
  <1>2. LeaveInv /\ [Leave!Next]_(Leave!vars) => LeaveInv'
    BY LeaveNextOK
  <1>3. LeaveInv => LeavePreserves
    BY DEF LeaveInv, LeavePreserves, Leave!LeavePreserves
  <1> QED BY <1>1, <1>2, <1>3, PTL DEF Leave!Spec

-----------------------------------------------------------------------------
(***************************************************************************)
(* Setting the account up (AccountSetup), by any number of devices.  As    *)
(* for the rotation, what a journal says about the relay is stable under   *)
(* whatever other devices do (SetupGrows), so that a step of one device    *)
(* needs only that device's own part of the invariant (SetupDeviceStep).   *)
(***************************************************************************)
SetupRecords ==
    [rows : SUBSET Setup!Row, dirty : SUBSET Setup!Row, joined : BOOLEAN, blocked : BOOLEAN,
     op : Setup!Op \cup {Setup!NoOp}]
SetupChains == [exists : BOOLEAN, rows : SUBSET Setup!Row, frozen : BOOLEAN, future : BOOLEAN]
SetupCodes == [mnemonic : BOOLEAN, staged : BOOLEAN]

(* The metadata is on the relay or on its way there. *)
SetupMetaSent == Setup!Meta \in setupChain.rows \/ \E p \in setupNet : Setup!Meta \in p

(* What a journal says about the relay. *)
SetupOpOK(d, o) ==
    /\ o.rows \ o.dirty \subseteq setupChain.rows
    /\ o.kind = "create" =>
          /\ d = Creator /\ {Setup!Meta, d} \subseteq o.rows
          /\ o.dirty \subseteq {Setup!Meta, d}
          /\ o.phase # Setup!Prepared => setupChain.exists
          /\ SetupMetaSent => o.phase # Setup!Prepared
    /\ o.kind = "join" => {Setup!Meta, d} \subseteq o.rows /\ o.dirty \subseteq {d}
    /\ o.kind = "space" => o.space \in SetupSpace /\ o.space \in o.rows /\ o.dirty \subseteq {o.space}
    /\ o.future => setupChain.future

(* A device's state, in memory or on disk. *)
SetupStateOK(d, st) ==
    /\ st.dirty = {} /\ st.rows \subseteq setupChain.rows
    /\ st.joined => {Setup!Meta, d} \subseteq setupChain.rows /\ setupKeychain[d].mnemonic
    /\ st.op # Setup!NoOp => /\ SetupOpOK(d, st.op)
                             /\ st.op.kind = "space" \/ st.op.phase = Setup!Activated => st.joined

SetupPlaces == {"idle", "gate", "create_space", "prove", "stage", "create", "pull", "push", "ready",
                "confirm", "promote", "activate", "clean", "unstage", "finish"}

(* What each place of resume_locked() relies on. *)
SetupPlaceAt(d, at, o) ==
    /\ at \in SetupPlaces
    /\ at \in {"gate", "create_space"} => o.kind = "space"
    /\ at \in {"prove", "stage", "create", "promote"} => o.kind \in {"create", "join"}
    /\ at = "create" => o.kind = "create" /\ setupKeychain[d].staged
    /\ at \in {"pull", "push", "ready", "confirm", "promote", "activate"} =>
          /\ o.kind = "create" => o.phase # Setup!Prepared
          /\ o.kind = "space" => o.space \in setupSpaces
    /\ at \in {"ready", "confirm", "promote", "activate"} => o.dirty = {}
    /\ at = "activate" => setupKeychain[d].mnemonic
    /\ at \in {"clean", "unstage", "finish"} => o.phase = Setup!Activated

(* A device that saw a newer format is back at the gate, if it runs. *)
SetupSeenOK(d) ==
    setupSeen[d] => setupChain.future /\ setupPc[d] \in {"idle", "prove", "gate", "clean"}

SetupDeviceOK(d) ==
    /\ SetupStateOK(d, setupMem[d]) /\ SetupStateOK(d, setupDisk[d])
    /\ setupMem[d].joined = setupDisk[d].joined
    /\ setupPc[d] # "idle" => setupMem[d].op # Setup!NoOp /\ setupDisk[d] = setupMem[d]
    /\ SetupPlaceAt(d, setupPc[d], setupMem[d].op) /\ SetupSeenOK(d)

SetupChainOK ==
    /\ setupChain.exists => setupKeychain[Creator].staged \/ setupKeychain[Creator].mnemonic
    /\ setupChain.rows \cap SetupSpace \subseteq setupSpaces
    /\ setupChain.future => Setup!Meta \in setupChain.rows
    /\ SetupMetaSent => setupChain.exists
    /\ \A p \in setupNet : p \cap SetupSpace \subseteq setupSpaces

SetupInv ==
    /\ Setup!TypeOK /\ setupPc \in [Device -> SetupPlaces] /\ SetupChainOK
    /\ \A d \in Device : SetupDeviceOK(d)

-----------------------------------------------------------------------------
LEMMA SetupTypes ==
    ASSUME Setup!TypeOK
    PROVE  /\ setupChain \in SetupChains
           /\ setupSpaces \subseteq SetupSpace /\ setupNet \subseteq SUBSET Setup!Row
           /\ setupMem \in [Device -> SetupRecords] /\ setupDisk \in [Device -> SetupRecords]
           /\ setupSaveBlocked \in [Device -> BOOLEAN] /\ setupSeen \in [Device -> BOOLEAN]
           /\ setupKeychain \in [Device -> SetupCodes] /\ setupShown \in BOOLEAN
           /\ setupFaults \in 0..MaxSetupFaults
  BY DEF Setup!TypeOK, SetupRecords, SetupChains, SetupCodes

(* An operation is told from none by its kind. *)
LEMMA SetupOpFields ==
    ASSUME NEW o \in Setup!Op
    PROVE  /\ o # Setup!NoOp /\ o.kind \in {"create", "join", "space"} /\ o.phase \in 0..4
           /\ o.rows \in SUBSET Setup!Row /\ o.dirty \in SUBSET Setup!Row
           /\ o.future \in BOOLEAN
           /\ o.space \in SetupSpace \cup {"none"}
  <1>1. o.kind # Setup!NoOp.kind
    BY DEF Setup!Op, Setup!NoOp
  <1> QED BY <1>1 DEF Setup!Op

(* The relay and the codes only ever grow. *)
SetupGrows ==
    /\ setupChain.rows \subseteq setupChain'.rows /\ setupSpaces \subseteq setupSpaces'
    /\ setupChain.exists => setupChain'.exists
    /\ setupChain.future => setupChain'.future
    /\ \A e \in Device : setupKeychain[e].mnemonic => setupKeychain'[e].mnemonic

LEMMA SetupOpKept ==
    ASSUME NEW d \in Device, NEW o \in Setup!Op, SetupOpOK(d, o), SetupGrows,
           o.kind = "create" /\ SetupMetaSent' => SetupMetaSent \/ o.phase # Setup!Prepared
    PROVE  SetupOpOK(d, o)'
  BY DEF SetupOpOK, SetupGrows

LEMMA SetupStateKept ==
    ASSUME NEW d \in Device, NEW st \in SetupRecords, SetupStateOK(d, st), SetupGrows,
           st.op # Setup!NoOp /\ st.op.kind = "create" /\ SetupMetaSent' =>
               SetupMetaSent \/ st.op.phase # Setup!Prepared
    PROVE  SetupStateOK(d, st)'
  <1>1. st.op # Setup!NoOp => st.op \in Setup!Op
    BY DEF SetupRecords
  <1>2. st.op # Setup!NoOp => SetupOpOK(d, st.op)'
    <2> SUFFICES ASSUME st.op # Setup!NoOp PROVE SetupOpOK(d, st.op)'
      OBVIOUS
    <2>1. PICK o \in Setup!Op : o = st.op
      BY <1>1
    <2>2. SetupOpOK(d, o)
      BY <2>1 DEF SetupStateOK
    <2>3. SetupOpOK(d, o)'
      BY <2>1, <2>2, SetupOpKept
    <2> QED BY <2>1, <2>3
  <1> QED BY <1>2 DEF SetupStateOK, SetupGrows

LEMMA SetupPlaceKept ==
    ASSUME NEW d \in Device, NEW at, NEW o, SetupPlaceAt(d, at, o), SetupGrows,
           setupKeychain[d].staged => setupKeychain'[d].staged
    PROVE  SetupPlaceAt(d, at, o)'
  BY DEF SetupPlaceAt, SetupGrows

(* A step of one device: the others keep what they rely on. *)
LEMMA SetupDeviceStep ==
    ASSUME SetupInv, NEW d \in Device, NEW m \in SetupRecords, NEW k \in SetupRecords,
           NEW at \in SetupPlaces,
           setupMem' = [setupMem EXCEPT ![d] = m], setupDisk' = [setupDisk EXCEPT ![d] = k],
           setupPc' = [setupPc EXCEPT ![d] = at],
           setupSaveBlocked' \in [Device -> BOOLEAN], setupSeen' \in [Device -> BOOLEAN],
           \A e \in Device \ {d} :
               setupSeen'[e] = setupSeen[e] /\ setupKeychain'[e] = setupKeychain[e],
           setupKeychain' \in [Device -> SetupCodes],
           setupChain' \in SetupChains,
           setupSpaces' \subseteq SetupSpace, setupNet' \subseteq SUBSET Setup!Row,
           setupShown' \in BOOLEAN, setupFaults' \in 0..MaxSetupFaults,
           SetupGrows, SetupChainOK',
           SetupMetaSent' => SetupMetaSent \/ d = Creator,
           SetupStateOK(d, m)', SetupStateOK(d, k)', m.joined = k.joined,
           at # "idle" => m.op # Setup!NoOp /\ k = m,
           SetupPlaceAt(d, at, m.op)',
           setupSeen'[d] => setupChain'.future /\ at \in {"idle", "prove", "gate", "clean"}
    PROVE  SetupInv'
  <1>1. /\ setupMem \in [Device -> SetupRecords] /\ setupDisk \in [Device -> SetupRecords]
        /\ setupPc \in [Device -> SetupPlaces] /\ \A e \in Device : SetupDeviceOK(e)
    BY SetupTypes DEF SetupInv
  <1>2. /\ setupMem' \in [Device -> SetupRecords] /\ setupDisk' \in [Device -> SetupRecords]
        /\ setupPc' \in [Device -> SetupPlaces] /\ setupMem'[d] = m /\ setupDisk'[d] = k
        /\ setupPc'[d] = at
        /\ \A e \in Device \ {d} :
             setupMem'[e] = setupMem[e] /\ setupDisk'[e] = setupDisk[e]
             /\ setupPc'[e] = setupPc[e]
    BY <1>1
  <1>3. SetupDeviceOK(d)'
    BY <1>2 DEF SetupDeviceOK, SetupSeenOK
  <1>4. ASSUME NEW e \in Device \ {d} PROVE SetupDeviceOK(e)'
    <2>1. SetupDeviceOK(e) /\ setupMem[e] \in SetupRecords /\ setupDisk[e] \in SetupRecords
      BY <1>1
    <2>2. \A st \in SetupRecords : SetupStateOK(e, st) => SetupStateOK(e, st)'
      <3> SUFFICES ASSUME NEW st \in SetupRecords, SetupStateOK(e, st) PROVE SetupStateOK(e, st)'
        OBVIOUS
      <3>1. st.op # Setup!NoOp /\ st.op.kind = "create" => e = Creator
        BY DEF SetupStateOK, SetupOpOK
      <3>2. SetupMetaSent' /\ e = Creator => SetupMetaSent
        OBVIOUS
      <3> QED BY <3>1, <3>2, SetupStateKept
    <2>3. PICK m1, k1, p1 : m1 = setupMem[e] /\ k1 = setupDisk[e] /\ p1 = setupPc[e]
      OBVIOUS
    <2>4. SetupStateOK(e, m1)' /\ SetupStateOK(e, k1)'
      BY <2>1, <2>2, <2>3 DEF SetupDeviceOK
    <2>5. PICK o1 : o1 = m1.op
      OBVIOUS
    <2>6. SetupPlaceAt(e, p1, o1)'
      BY <2>1, <2>3, <2>5, SetupPlaceKept DEF SetupDeviceOK
    <2>7. SetupSeenOK(e)'
      BY <1>2, <2>1 DEF SetupDeviceOK, SetupSeenOK, SetupGrows
    <2> QED BY <1>2, <2>1, <2>3, <2>4, <2>5, <2>6, <2>7 DEF SetupDeviceOK
  <1>5. Setup!TypeOK'
    <2>1. \A e \in Device : setupPc'[e] # "idle" => Setup!Pending(e)'
      BY <1>3, <1>4 DEF SetupDeviceOK, Setup!Pending, Setup!op
    <2> QED BY <1>2, <2>1 DEF Setup!TypeOK, SetupRecords, SetupCodes, SetupChains
  <1> QED BY <1>2, <1>3, <1>4, <1>5 DEF SetupInv

(* The same when the relay and the codes are as they were. *)
LEMMA SetupQuiet ==
    ASSUME SetupInv, NEW d \in Device, NEW m \in SetupRecords, NEW k \in SetupRecords,
           NEW at \in SetupPlaces,
           setupMem' = [setupMem EXCEPT ![d] = m], setupDisk' = [setupDisk EXCEPT ![d] = k],
           setupPc' = [setupPc EXCEPT ![d] = at], UNCHANGED <<Setup!relay, setupKeychain>>,
           setupSaveBlocked' \in [Device -> BOOLEAN], setupSeen' \in [Device -> BOOLEAN],
           \A e \in Device \ {d} : setupSeen'[e] = setupSeen[e],
           setupShown' \in BOOLEAN, setupFaults' \in 0..MaxSetupFaults,
           SetupStateOK(d, m), SetupStateOK(d, k), m.joined = k.joined,
           at # "idle" => m.op # Setup!NoOp /\ k = m,
           SetupPlaceAt(d, at, m.op),
           setupSeen'[d] => setupChain.future /\ at \in {"idle", "prove", "gate", "clean"}
    PROVE  SetupInv'
  <1>1. /\ setupChain' = setupChain /\ setupSpaces' = setupSpaces /\ setupNet' = setupNet
        /\ setupKeychain' = setupKeychain /\ (SetupMetaSent' <=> SetupMetaSent)
    BY DEF Setup!relay, SetupMetaSent
  <1>2. /\ setupChain \in SetupChains
        /\ setupSpaces \subseteq SetupSpace /\ setupNet \subseteq SUBSET Setup!Row
        /\ setupKeychain \in [Device -> SetupCodes] /\ SetupChainOK
    BY SetupTypes DEF SetupInv
  <1>3. SetupGrows /\ SetupChainOK'
    BY <1>1, <1>2 DEF SetupGrows, SetupChainOK
  <1>4. SetupStateOK(d, m)' /\ SetupStateOK(d, k)'
    BY <1>1, <1>3, SetupStateKept
  <1>5. PICK o : o = m.op
    OBVIOUS
  <1>6. SetupPlaceAt(d, at, o)'
    BY <1>1, <1>3, <1>5, SetupPlaceKept
  <1> QED BY <1>1, <1>2, <1>3, <1>4, <1>5, <1>6, SetupDeviceStep

(* What a device knows of itself. *)
LEMMA SetupAtDevice ==
    ASSUME SetupInv, NEW d \in Device
    PROVE  /\ setupMem[d] \in SetupRecords /\ setupDisk[d] \in SetupRecords
           /\ setupMem = [setupMem EXCEPT ![d] = setupMem[d]]
           /\ setupDisk = [setupDisk EXCEPT ![d] = setupDisk[d]]
           /\ SetupStateOK(d, setupMem[d]) /\ SetupStateOK(d, setupDisk[d])
           /\ setupMem[d].joined = setupDisk[d].joined
           /\ SetupPlaceAt(d, setupPc[d], Setup!op(d)) /\ SetupPlaceAt(d, "idle", Setup!op(d))
           /\ setupSeen[d] \in BOOLEAN /\ (setupSeen[d] => setupChain.future)
           /\ Setup!op(d) # Setup!NoOp => Setup!op(d) \in Setup!Op /\ SetupOpOK(d, Setup!op(d))
           /\ setupSeen[d] => setupPc[d] \in {"idle", "prove", "gate", "clean"}
           /\ setupPc[d] # "idle" =>
               Setup!op(d) \in Setup!Op /\ SetupOpOK(d, Setup!op(d))
               /\ setupDisk[d] = setupMem[d]
  <1>1. /\ setupMem \in [Device -> SetupRecords] /\ setupDisk \in [Device -> SetupRecords]
        /\ setupSeen \in [Device -> BOOLEAN] /\ SetupDeviceOK(d)
    BY SetupTypes DEF SetupInv
  <1>2. setupMem[d] \in SetupRecords /\ (setupMem[d].op # Setup!NoOp => setupMem[d].op \in Setup!Op)
    BY <1>1 DEF SetupRecords
  <1>3. SetupPlaceAt(d, "idle", Setup!op(d))
    BY DEF SetupPlaceAt, SetupPlaces
  <1> QED BY <1>1, <1>2, <1>3 DEF SetupDeviceOK, SetupStateOK, SetupSeenOK, Setup!op

(* The call ends with memory and disk as they were. *)
LEMMA SetupReturns ==
    ASSUME SetupInv, NEW d \in Device, Setup!Return(d),
           UNCHANGED <<Setup!relay, setupKeychain, setupSeen, setupMem, setupDisk>>,
           setupSaveBlocked' \in [Device -> BOOLEAN], setupFaults' \in 0..MaxSetupFaults
    PROVE  SetupInv'
  <1>1. PICK m, k : m = setupMem[d] /\ k = setupDisk[d]
    OBVIOUS
  <1>2. /\ m \in SetupRecords /\ k \in SetupRecords /\ setupMem' = [setupMem EXCEPT ![d] = m]
        /\ setupDisk' = [setupDisk EXCEPT ![d] = k] /\ SetupStateOK(d, m) /\ SetupStateOK(d, k)
        /\ m.joined = k.joined /\ SetupPlaceAt(d, "idle", m.op)
        /\ (setupSeen[d] => setupChain.future)
    BY <1>1, SetupAtDevice DEF Setup!op
  <1>3. setupShown' \in BOOLEAN /\ setupSeen' \in [Device -> BOOLEAN]
    BY SetupTypes DEF Setup!Return, SetupInv
  <1> QED BY <1>2, <1>3, SetupQuiet DEF Setup!Return, SetupPlaces

LEMMA SetupFaultType ==
    ASSUME Setup!SetupAssumption, SetupInv, Setup!Fault
    PROVE  setupFaults' \in 0..MaxSetupFaults
  BY SetupTypes DEF Setup!SetupAssumption, SetupInv, Setup!Fault

(* Memory and disk take a state together, and the call goes on. *)
LEMMA SetupPersists ==
    ASSUME SetupInv, NEW d \in Device, NEW st \in SetupRecords, NEW where \in SetupPlaces,
           Setup!Persist(d, st), setupPc' = [setupPc EXCEPT ![d] = where],
           UNCHANGED <<Setup!relay, setupKeychain>>,
           setupShown' \in BOOLEAN, setupFaults' \in 0..MaxSetupFaults,
           setupSaveBlocked' \in [Device -> BOOLEAN], setupSeen' \in [Device -> BOOLEAN],
           \A e \in Device \ {d} : setupSeen'[e] = setupSeen[e],
           SetupStateOK(d, st), where # "idle" => st.op # Setup!NoOp,
           SetupPlaceAt(d, where, st.op),
           setupSeen'[d] => setupChain.future /\ where \in {"idle", "prove", "gate", "clean"}
    PROVE  SetupInv'
  BY SetupQuiet DEF Setup!Persist

LEMMA SetupSavedKeeps ==
    ASSUME Setup!SetupAssumption, SetupInv, NEW d \in Device, NEW st \in SetupRecords,
           NEW where \in SetupPlaces,
           Setup!Saved(d, st, where), UNCHANGED <<Setup!relay, setupKeychain, setupSeen>>,
           SetupStateOK(d, st), st.op # Setup!NoOp, SetupPlaceAt(d, where, st.op),
           setupSeen[d] => where \in {"prove", "gate", "clean"}
    PROVE  SetupInv'
  <1>1. /\ setupSaveBlocked' \in [Device -> BOOLEAN] /\ setupSeen' \in [Device -> BOOLEAN]
        /\ setupFaults \in 0..MaxSetupFaults /\ setupShown \in BOOLEAN
    BY SetupTypes DEF SetupInv, Setup!Saved
  <1>2. CASE Setup!Fault /\ Setup!Return(d) /\ UNCHANGED <<setupMem, setupDisk>>
    BY <1>1, <1>2, SetupFaultType, SetupReturns
  <1>3. CASE Setup!Persist(d, st) /\ Setup!Goto(d, where) /\ UNCHANGED setupFaults
    <2>1. setupSeen'[d] => setupChain.future /\ where \in {"idle", "prove", "gate", "clean"}
      BY SetupAtDevice
    <2> QED BY <1>1, <1>3, <2>1, SetupPersists DEF Setup!Goto
  <1> QED BY <1>2, <1>3 DEF Setup!Saved

(* A journal that takes the place of the device's own. *)
LEMMA SetupNextOp ==
    ASSUME SetupInv, NEW d \in Device, NEW o \in Setup!Op, SetupOpOK(d, o),
           Setup!op(d) \in Setup!Op,
           o.kind = Setup!op(d).kind, o.phase = Setup!Activated => setupMem[d].joined
    PROVE  /\ Setup!WithOp(d, o) \in SetupRecords /\ SetupStateOK(d, Setup!WithOp(d, o))
           /\ Setup!WithOp(d, o).op = o
           /\ Setup!WithOp(d, o).joined = setupMem[d].joined
  <1>1. setupMem[d] \in SetupRecords /\ SetupStateOK(d, setupMem[d])
    BY SetupAtDevice
  <1>2. /\ Setup!WithOp(d, o) \in SetupRecords /\ Setup!WithOp(d, o).op = o
        /\ Setup!WithOp(d, o).joined = setupMem[d].joined
        /\ Setup!WithOp(d, o).rows = setupMem[d].rows
        /\ Setup!WithOp(d, o).dirty = setupMem[d].dirty
    BY <1>1 DEF Setup!WithOp, SetupRecords
  <1>3. Setup!op(d) # Setup!NoOp /\ (o.kind = "space" => setupMem[d].joined)
    BY <1>1, SetupOpFields DEF SetupStateOK, Setup!op
  <1> QED BY <1>1, <1>2, <1>3 DEF SetupStateOK

-----------------------------------------------------------------------------
LEMMA SetupResumeKeeps ==
    ASSUME Setup!SetupAssumption, SetupInv, NEW d \in Device, Setup!Resume(d)
    PROVE  SetupInv'
  <1>1. /\ setupMem[d] \in SetupRecords /\ SetupStateOK(d, setupMem[d])
        /\ Setup!op(d) \in Setup!Op /\ SetupOpOK(d, Setup!op(d))
        /\ setupMem[d].op = Setup!op(d) /\ setupMem[d].op # Setup!NoOp
    BY SetupAtDevice DEF Setup!Resume, Setup!Pending, Setup!op
  <1>2. PICK w : w = IF Setup!op(d).phase = Setup!Activated THEN "clean"
                     ELSE IF Setup!op(d).kind = "space" THEN "gate"
                     ELSE IF Setup!op(d).kind = "join" \/ Setup!op(d).phase # Setup!Prepared
                             \/ Setup!op(d).future
                          THEN "prove" ELSE "stage"
    OBVIOUS
  <1>3. Setup!Saved(d, setupMem[d], w) /\ UNCHANGED <<Setup!relay, setupKeychain, setupSeen>>
    BY <1>2 DEF Setup!Resume
  <1>4. SetupPlaceAt(d, w, Setup!op(d)) /\ w \in SetupPlaces
    BY <1>1, <1>2, SetupOpFields DEF SetupPlaceAt, SetupPlaces
  <1>5. setupSeen[d] => w # "stage"
    <2>1. setupSeen[d] => setupChain.future
      BY SetupAtDevice
    <2>2. setupChain.future => Setup!Meta \in setupChain.rows
      BY DEF SetupInv, SetupChainOK
    <2> QED BY <1>1, <1>2, <2>1, <2>2, SetupOpFields DEF SetupOpOK, SetupMetaSent
  <1>6. setupSeen[d] => w \in {"prove", "gate", "clean"}
    BY <1>2, <1>5
  <1> QED BY <1>1, <1>3, <1>4, <1>6, SetupSavedKeeps

LEMMA SetupCreateAccountKeeps ==
    ASSUME Setup!SetupAssumption, SetupInv, NEW d \in Device, Setup!CreateAccount(d)
    PROVE  SetupInv'
  <1>1. setupMem[d] \in SetupRecords /\ SetupStateOK(d, setupMem[d])
    BY SetupAtDevice
  <1>2. PICK o : o = Setup!NewOp("create", Setup!Prepared, "none", {Setup!Meta, d}, {Setup!Meta, d})
    OBVIOUS
  <1>3. o \in Setup!Op /\ o # Setup!NoOp
    <2>1. o \in Setup!Op
      BY <1>2 DEF Setup!NewOp, Setup!Op, Setup!Prepared, Setup!Row
    <2> QED BY <2>1, SetupOpFields
  <1>4. ~SetupMetaSent /\ ~setupChain.future
    BY DEF Setup!CreateAccount, SetupInv, SetupChainOK, SetupMetaSent
  <1>5. SetupOpOK(d, o)
    BY <1>2, <1>4 DEF Setup!CreateAccount, SetupOpOK, Setup!NewOp
  <1>6. PICK st : st = Setup!WithOp(d, o)
    OBVIOUS
  <1>7. /\ st \in SetupRecords /\ st.op = o /\ st.rows = setupMem[d].rows
        /\ st.dirty = setupMem[d].dirty
        /\ st.joined = setupMem[d].joined
    BY <1>1, <1>3, <1>6 DEF Setup!WithOp, SetupRecords
  <1>8. SetupStateOK(d, st)
    BY <1>1, <1>2, <1>3, <1>5, <1>7 DEF SetupStateOK, Setup!NewOp, Setup!Prepared, Setup!Activated
  <1>9. SetupPlaceAt(d, "stage", o) /\ "stage" \in SetupPlaces
    BY <1>2 DEF SetupPlaceAt, SetupPlaces, Setup!NewOp
  <1>10. setupSeen[d] => FALSE
    BY <1>4, SetupAtDevice
  <1>11. /\ setupSaveBlocked' \in [Device -> BOOLEAN] /\ setupSeen' \in [Device -> BOOLEAN]
         /\ setupFaults' \in 0..MaxSetupFaults /\ setupShown' \in BOOLEAN
    BY SetupTypes DEF Setup!CreateAccount, SetupInv, Setup!Goto
  <1>12. /\ Setup!Persist(d, st) /\ setupPc' = [setupPc EXCEPT ![d] = "stage"]
         /\ UNCHANGED <<Setup!relay, setupKeychain, setupSeen>>
    BY <1>2, <1>6 DEF Setup!CreateAccount, Setup!Goto
  <1> QED BY <1>3, <1>7, <1>8, <1>9, <1>10, <1>11, <1>12, SetupPersists

LEMMA SetupJoinAccountKeeps ==
    ASSUME Setup!SetupAssumption, SetupInv, NEW d \in Device, Setup!JoinAccount(d)
    PROVE  SetupInv'
  <1>1. /\ setupMem[d] \in SetupRecords /\ SetupStateOK(d, setupMem[d])
        /\ setupChain.rows \in SUBSET Setup!Row
    BY SetupAtDevice, SetupTypes DEF SetupInv, SetupChains
  <1>2. PICK o : o = Setup!NewOp("join", Setup!ActivationReady, "none",
                             setupChain.rows \cup {d}, {d})
    OBVIOUS
  <1>3. o \in Setup!Op /\ o # Setup!NoOp
    <2>1. o \in Setup!Op
      BY <1>1, <1>2 DEF Setup!NewOp, Setup!Op, Setup!ActivationReady, Setup!Row
    <2> QED BY <2>1, SetupOpFields
  <1>4. Setup!Meta \in setupChain.rows /\ ~setupChain.future
    BY DEF Setup!JoinAccount
  <1>5. SetupOpOK(d, o)
    BY <1>2, <1>4 DEF SetupOpOK, Setup!NewOp
  <1>6. PICK st : st = Setup!WithOp(d, o)
    OBVIOUS
  <1>7. /\ st \in SetupRecords /\ st.op = o /\ st.rows = setupMem[d].rows
        /\ st.dirty = setupMem[d].dirty
        /\ st.joined = setupMem[d].joined
    BY <1>1, <1>3, <1>6 DEF Setup!WithOp, SetupRecords
  <1>8. SetupStateOK(d, st)
    BY <1>1, <1>2, <1>3, <1>5, <1>7 DEF SetupStateOK, Setup!NewOp, Setup!ActivationReady,
       Setup!Activated
  <1>9. SetupPlaceAt(d, "prove", o) /\ "prove" \in SetupPlaces
    BY <1>2 DEF SetupPlaceAt, SetupPlaces, Setup!NewOp
  <1>10. setupSeen[d] => FALSE
    BY <1>4, SetupAtDevice
  <1>11. /\ setupSaveBlocked' \in [Device -> BOOLEAN] /\ setupSeen' \in [Device -> BOOLEAN]
         /\ setupFaults' \in 0..MaxSetupFaults /\ setupShown' \in BOOLEAN
    BY SetupTypes DEF Setup!JoinAccount, SetupInv, Setup!Goto
  <1>12. /\ Setup!Persist(d, st) /\ setupPc' = [setupPc EXCEPT ![d] = "prove"]
         /\ UNCHANGED <<Setup!relay, setupKeychain, setupSeen>>
    BY <1>2, <1>6 DEF Setup!JoinAccount, Setup!Goto
  <1> QED BY <1>3, <1>7, <1>8, <1>9, <1>10, <1>11, <1>12, SetupPersists

LEMMA SetupCreateSpaceKeeps ==
    ASSUME Setup!SetupAssumption, SetupInv, NEW d \in Device, NEW s \in SetupSpace,
           Setup!CreateSpace(d, s)
    PROVE  SetupInv'
  <1>1. /\ setupMem[d] \in SetupRecords /\ SetupStateOK(d, setupMem[d])
        /\ setupChain.rows \in SUBSET Setup!Row /\ setupMem[d].joined
    BY SetupAtDevice, SetupTypes DEF SetupInv, Setup!CreateSpace, SetupChains
  <1>2. PICK base : base = [setupMem[d] EXCEPT !.rows = @ \cup setupChain.rows,
                                            !.dirty = @ \ setupChain.rows]
    OBVIOUS
  <1>3. /\ base \in SetupRecords /\ base.rows = setupChain.rows /\ base.dirty = {}
        /\ base.joined
    BY <1>1, <1>2 DEF SetupRecords, SetupStateOK
  <1>4. PICK o : o = Setup!NewOp("space", Setup!Prepared, s,
                             base.rows \cup {s}, base.dirty \cup {s})
    OBVIOUS
  <1>5. o \in Setup!Op /\ o # Setup!NoOp
    <2>1. o \in Setup!Op
      BY <1>1, <1>3, <1>4 DEF Setup!NewOp, Setup!Op, Setup!Prepared, Setup!Row
    <2> QED BY <2>1, SetupOpFields
  <1>6. SetupOpOK(d, o)
    BY <1>3, <1>4 DEF SetupOpOK, Setup!NewOp
  <1>7. PICK st : st = [base EXCEPT !.op = o]
    OBVIOUS
  <1>8. /\ st \in SetupRecords /\ st.op = o /\ st.rows = setupChain.rows /\ st.dirty = {}
        /\ st.joined
    BY <1>3, <1>5, <1>7 DEF SetupRecords
  <1>9. SetupStateOK(d, st)
    BY <1>1, <1>6, <1>8 DEF SetupStateOK
  <1>10. SetupPlaceAt(d, "gate", o) /\ "gate" \in SetupPlaces
    BY <1>4 DEF SetupPlaceAt, SetupPlaces, Setup!NewOp
  <1>11. setupSeen'[d] => setupChain.future /\ "gate" \in {"idle", "prove", "gate", "clean"}
    BY SetupAtDevice DEF Setup!CreateSpace
  <1>12. /\ setupSaveBlocked' \in [Device -> BOOLEAN] /\ setupSeen' \in [Device -> BOOLEAN]
         /\ setupFaults' \in 0..MaxSetupFaults /\ setupShown' \in BOOLEAN
    BY SetupTypes DEF Setup!CreateSpace, SetupInv, Setup!Goto
  <1>13. /\ Setup!Persist(d, st) /\ setupPc' = [setupPc EXCEPT ![d] = "gate"]
         /\ UNCHANGED <<Setup!relay, setupKeychain, setupSeen>>
    BY <1>2, <1>4, <1>7 DEF Setup!CreateSpace, Setup!Goto
  <1> QED BY <1>5, <1>8, <1>9, <1>10, <1>11, <1>12, <1>13, SetupPersists

(* A refusal is remembered in the journal, or the device stops saving. *)
LEMMA SetupObserveKeeps ==
    ASSUME Setup!SetupAssumption, SetupInv, NEW d \in Device, NEW o \in Setup!Op,
           NEW saved \in SetupRecords, SetupStateOK(d, saved),
           Setup!ObserveGate(d, saved, o), SetupOpOK(d, o),
           saved.op \in Setup!Op, o.kind = saved.op.kind,
           o.phase = Setup!Activated => saved.joined,
           UNCHANGED <<Setup!relay, setupKeychain>>
    PROVE  SetupInv'
  <1>1. setupSeen[d] \in BOOLEAN /\ (setupSeen[d] => setupChain.future)
    BY SetupAtDevice
  <1>2. /\ setupMem \in [Device -> SetupRecords] /\ setupSeen \in [Device -> BOOLEAN]
        /\ setupSaveBlocked \in [Device -> BOOLEAN] /\ setupShown \in BOOLEAN
        /\ setupFaults \in 0..MaxSetupFaults
    BY SetupTypes DEF SetupInv
  <1>3. o.future \in BOOLEAN /\ o # Setup!NoOp
    BY SetupOpFields
  <1>4. /\ setupSeen' \in [Device -> BOOLEAN]
        /\ \A e \in Device \ {d} : setupSeen'[e] = setupSeen[e]
        /\ setupSeen'[d] => setupChain.future
    BY <1>1, <1>2, <1>3 DEF Setup!ObserveGate, SetupOpOK
  <1>5. /\ setupShown' \in BOOLEAN /\ setupPc' = [setupPc EXCEPT ![d] = "idle"]
        /\ "idle" \in SetupPlaces
    BY <1>2 DEF Setup!ObserveGate, Setup!Return, SetupPlaces
  <1>6. CASE /\ Setup!Persist(d, [saved EXCEPT !.op = o, !.blocked = @ \/ saved.joined])
             /\ UNCHANGED <<setupSaveBlocked, setupFaults>>
    <2>1. PICK st : st = [saved EXCEPT !.op = o, !.blocked = @ \/ saved.joined]
      OBVIOUS
    <2>2. /\ st \in SetupRecords /\ st.op = o /\ st.rows = saved.rows
          /\ st.dirty = saved.dirty
          /\ st.joined = saved.joined
      BY <2>1 DEF SetupRecords
    <2>3. o.kind = "space" => saved.joined
      BY SetupOpFields DEF SetupStateOK
    <2>4. SetupStateOK(d, st)
      BY <2>2, <2>3 DEF SetupStateOK
    <2>5. SetupPlaceAt(d, "idle", st.op)
      BY DEF SetupPlaceAt, SetupPlaces
    <2>6. /\ Setup!Persist(d, st) /\ setupFaults' \in 0..MaxSetupFaults
          /\ setupSaveBlocked' \in [Device -> BOOLEAN]
      BY <1>2, <1>6, <2>1
    <2> QED BY <1>4, <1>5, <2>2, <2>4, <2>5, <2>6, SetupPersists
  <1>7. CASE /\ Setup!Fault /\ setupMem' = [setupMem EXCEPT ![d] = [saved EXCEPT !.blocked = TRUE]]
             /\ setupDisk' = [setupDisk EXCEPT ![d] = saved]
             /\ setupSaveBlocked' = [setupSaveBlocked EXCEPT ![d] = TRUE]
    <2>1. PICK st : st = [saved EXCEPT !.blocked = TRUE]
      OBVIOUS
    <2>2. /\ st \in SetupRecords /\ st.op = saved.op /\ st.rows = saved.rows
          /\ st.dirty = saved.dirty /\ st.joined = saved.joined
      BY <2>1 DEF SetupRecords
    <2>3. SetupStateOK(d, st)
      BY <2>2 DEF SetupStateOK
    <2>4. SetupPlaceAt(d, "idle", st.op)
      BY DEF SetupPlaceAt, SetupPlaces
    <2>5. setupFaults' \in 0..MaxSetupFaults /\ setupSaveBlocked' \in [Device -> BOOLEAN]
      BY <1>2, <1>7, SetupFaultType
    <2>6. setupMem' = [setupMem EXCEPT ![d] = st]
      BY <1>7, <2>1
    <2> QED BY <1>4, <1>5, <1>7, <2>2, <2>3, <2>4, <2>5, <2>6, SetupQuiet
  <1> QED BY <1>6, <1>7 DEF Setup!ObserveGate

LEMMA SetupTargetPullKeeps ==
    ASSUME Setup!SetupAssumption, SetupInv, NEW d \in Device, Setup!TargetPull(d)
    PROVE  SetupInv'
  <1>1. /\ setupMem[d] \in SetupRecords /\ SetupStateOK(d, setupMem[d])
        /\ Setup!op(d) \in Setup!Op /\ SetupOpOK(d, Setup!op(d))
        /\ SetupPlaceAt(d, setupPc[d], Setup!op(d)) /\ (setupSeen[d] => setupChain.future)
    BY SetupAtDevice DEF Setup!TargetPull
  <1>2. Setup!op(d).phase = Setup!Activated => setupMem[d].joined
    BY <1>1, SetupOpFields DEF SetupStateOK, Setup!op
  <1>3. /\ setupChain.rows \in SUBSET Setup!Row /\ setupChain.future \in BOOLEAN
        /\ UNCHANGED <<Setup!relay, setupKeychain>>
    BY SetupTypes DEF SetupInv, Setup!TargetPull, SetupChains
  <1>4. CASE Setup!GateOf(d) = "compatible"
    <2>1. ~setupChain.future /\ ~Setup!op(d).future
      BY <1>4 DEF Setup!GateOf
    <2>2. PICK o : o = Setup!MergedOp(d)
      OBVIOUS
    <2>3. /\ o \in Setup!Op /\ o.kind = Setup!op(d).kind /\ o.phase = Setup!op(d).phase
          /\ o.space = Setup!op(d).space /\ o.future = Setup!op(d).future
          /\ o.rows = Setup!op(d).rows \cup setupChain.rows
          /\ o.dirty = Setup!op(d).dirty \ setupChain.rows
      BY <1>1, <1>3, <2>2 DEF Setup!MergedOp, Setup!Op
    <2>4. SetupOpOK(d, o)
      BY <1>1, <2>3 DEF SetupOpOK
    <2>5. PICK w : w = Setup!AfterPull(d)
      OBVIOUS
    <2>6. Setup!op(d).kind \in {"create", "join", "space"}
      BY <1>1, SetupOpFields
    <2>7. Setup!op(d).kind = "space" => setupKeychain[d].mnemonic
      BY <1>1, SetupOpFields DEF SetupStateOK, Setup!op
    <2>8. w \in SetupPlaces /\ SetupPlaceAt(d, w, o)
      <3>1. CASE setupPc[d] = "prove"
        BY <1>1, <2>3, <2>5, <3>1 DEF Setup!AfterPull, SetupPlaceAt, SetupPlaces
      <3>2. CASE setupPc[d] = "pull"
        BY <1>1, <2>3, <2>5, <3>2 DEF Setup!AfterPull, SetupPlaceAt, SetupPlaces
      <3>3. CASE setupPc[d] = "confirm"
        <4>1. w = IF Setup!op(d).kind = "space" THEN "activate" ELSE "promote"
          BY <2>5, <3>3 DEF Setup!AfterPull
        <4> QED BY <1>1, <2>3, <2>6, <2>7, <3>3, <4>1 DEF SetupPlaceAt, SetupPlaces
      <3> QED BY <3>1, <3>2, <3>3 DEF Setup!TargetPull
    <2>9. PICK st : st = Setup!WithOp(d, o)
      OBVIOUS
    <2>10. st \in SetupRecords /\ SetupStateOK(d, st) /\ st.op = o
      BY <1>1, <1>2, <2>3, <2>4, <2>9, SetupNextOp
    <2>11. Setup!Saved(d, st, w) /\ UNCHANGED <<Setup!relay, setupKeychain, setupSeen>>
      BY <1>4, <2>2, <2>5, <2>9 DEF Setup!TargetPull
    <2>12. o # Setup!NoOp
      BY <2>3, SetupOpFields
    <2> QED BY <1>1, <2>1, <2>8, <2>10, <2>11, <2>12, SetupSavedKeeps
  <1>5. CASE Setup!GateOf(d) # "compatible"
    <2>1. PICK o : o = [Setup!op(d) EXCEPT !.future = (Setup!GateOf(d) = "future")]
      OBVIOUS
    <2>2. /\ o \in Setup!Op /\ o.kind = Setup!op(d).kind /\ o.phase = Setup!op(d).phase
          /\ o.space = Setup!op(d).space /\ o.rows = Setup!op(d).rows
          /\ o.dirty = Setup!op(d).dirty
          /\ o.future = (Setup!GateOf(d) = "future")
      BY <1>1, <2>1 DEF Setup!Op
    <2>3. Setup!GateOf(d) = "future" => setupChain.future
      BY <1>1 DEF Setup!GateOf, SetupOpOK
    <2>4. SetupOpOK(d, o)
      BY <1>1, <2>2, <2>3 DEF SetupOpOK
    <2>5. PICK saved : saved = setupMem[d]
      OBVIOUS
    <2>6. Setup!ObserveGate(d, saved, o) /\ saved.op = Setup!op(d)
      BY <1>5, <2>1, <2>5 DEF Setup!TargetPull, Setup!op
    <2> QED BY <1>1, <1>2, <1>3, <2>2, <2>4, <2>5, <2>6, SetupObserveKeeps
  <1> QED BY <1>4, <1>5

-----------------------------------------------------------------------------
(* A step that only touches the device's own codes. *)
LEMMA SetupKeysStep ==
    ASSUME SetupInv, NEW d \in Device, NEW c \in SetupCodes, NEW at \in SetupPlaces,
           setupKeychain' = [setupKeychain EXCEPT ![d] = c], Setup!Goto(d, at),
           UNCHANGED <<Setup!relay, Setup!local, setupSeen, setupFaults>>, setupPc[d] # "idle",
           ~setupSeen[d],
           setupKeychain[d].mnemonic => c.mnemonic,
           setupKeychain[d].staged \/ setupKeychain[d].mnemonic => c.staged \/ c.mnemonic,
           \A o \in Setup!Op : o = Setup!op(d) => SetupPlaceAt(d, at, o)'
    PROVE  SetupInv'
  <1>1. PICK m : m = setupMem[d]
    OBVIOUS
  <1>2. /\ m \in SetupRecords /\ SetupStateOK(d, m) /\ setupDisk[d] = m /\ m.op \in Setup!Op
        /\ m.op = Setup!op(d)
        /\ setupMem = [setupMem EXCEPT ![d] = m] /\ setupDisk = [setupDisk EXCEPT ![d] = m]
    BY <1>1, SetupAtDevice DEF Setup!op
  <1>3. /\ setupKeychain \in [Device -> SetupCodes] /\ setupSeen \in [Device -> BOOLEAN]
        /\ setupSaveBlocked \in [Device -> BOOLEAN] /\ setupShown \in BOOLEAN
        /\ setupFaults \in 0..MaxSetupFaults
        /\ setupChain \in SetupChains
        /\ setupSpaces \subseteq SetupSpace /\ setupNet \subseteq SUBSET Setup!Row
        /\ SetupChainOK
    BY SetupTypes DEF SetupInv
  <1>4. /\ setupChain' = setupChain /\ setupSpaces' = setupSpaces /\ setupNet' = setupNet
        /\ (SetupMetaSent' <=> SetupMetaSent) /\ setupMem' = setupMem
        /\ setupDisk' = setupDisk
        /\ setupSaveBlocked' = setupSaveBlocked /\ setupSeen' = setupSeen
        /\ setupFaults' = setupFaults /\ setupShown' = setupShown
        /\ setupPc' = [setupPc EXCEPT ![d] = at]
    BY DEF Setup!relay, Setup!local, Setup!Goto, SetupMetaSent
  <1>5. /\ setupKeychain' \in [Device -> SetupCodes] /\ setupKeychain'[d] = c
        /\ \A e \in Device \ {d} : setupKeychain'[e] = setupKeychain[e]
    BY <1>3
  <1>6. SetupGrows
    BY <1>4, <1>5 DEF SetupGrows
  <1>7. SetupChainOK'
    <2>1. CASE Creator = d
      BY <1>3, <1>4, <1>5, <2>1 DEF SetupChainOK
    <2>2. CASE Creator # d
      BY <1>3, <1>4, <2>2 DEF SetupChainOK
    <2> QED BY <2>1, <2>2
  <1>8. SetupStateOK(d, m)'
    BY <1>2, <1>4, <1>6, SetupStateKept
  <1>9. PICK o \in Setup!Op : o = m.op
    BY <1>2
  <1>10. SetupPlaceAt(d, at, o)' /\ m.op # Setup!NoOp
    BY <1>2, <1>9, SetupOpFields
  <1> QED BY <1>2, <1>3, <1>4, <1>5, <1>6, <1>7, <1>8, <1>9, <1>10, SetupDeviceStep

LEMMA SetupStageCodeKeeps ==
    ASSUME SetupInv, NEW d \in Device, Setup!StageCode(d)
    PROVE  SetupInv'
  <1>1. /\ Setup!op(d) \in Setup!Op /\ SetupPlaceAt(d, setupPc[d], Setup!op(d))
        /\ setupPc[d] = "stage" /\ ~setupSeen[d]
    BY SetupAtDevice DEF Setup!StageCode
  <1>2. setupKeychain \in [Device -> SetupCodes]
    BY SetupTypes DEF SetupInv
  <1>3. PICK c : c = [setupKeychain[d] EXCEPT !.staged = TRUE]
    OBVIOUS
  <1>4. /\ c \in SetupCodes /\ c.staged /\ c.mnemonic = setupKeychain[d].mnemonic
        /\ setupKeychain' = [setupKeychain EXCEPT ![d] = c]
    BY <1>2, <1>3 DEF SetupCodes, Setup!StageCode
  <1>5. PICK at : at = IF Setup!op(d).kind = "create" /\ Setup!op(d).phase = Setup!Prepared
                       THEN "create" ELSE "pull"
    OBVIOUS
  <1>6. /\ at \in SetupPlaces /\ Setup!Goto(d, at)
        /\ UNCHANGED <<Setup!relay, Setup!local, setupSeen, setupFaults>>
    BY <1>5 DEF Setup!StageCode, SetupPlaces
  <1>7. ASSUME NEW o \in Setup!Op, o = Setup!op(d) PROVE SetupPlaceAt(d, at, o)'
    <2>1. setupKeychain'[d].staged
      BY <1>2, <1>4
    <2>2. o.kind \in {"create", "join"}
      BY <1>1, <1>7 DEF SetupPlaceAt
    <2> QED BY <1>5, <1>7, <2>1, <2>2 DEF SetupPlaceAt, SetupPlaces
  <1> QED BY <1>1, <1>4, <1>6, <1>7, SetupKeysStep

LEMMA SetupPromoteCodeKeeps ==
    ASSUME SetupInv, NEW d \in Device, Setup!PromoteCode(d)
    PROVE  SetupInv'
  <1>1. /\ Setup!op(d) \in Setup!Op /\ SetupPlaceAt(d, setupPc[d], Setup!op(d))
        /\ setupPc[d] = "promote" /\ ~setupSeen[d]
    BY SetupAtDevice DEF Setup!PromoteCode
  <1>2. setupKeychain \in [Device -> SetupCodes]
    BY SetupTypes DEF SetupInv
  <1>3. PICK c : c = [setupKeychain[d] EXCEPT !.mnemonic = TRUE]
    OBVIOUS
  <1>4. /\ c \in SetupCodes /\ c.mnemonic /\ setupKeychain' = [setupKeychain EXCEPT ![d] = c]
    BY <1>2, <1>3 DEF SetupCodes, Setup!PromoteCode
  <1>5. /\ "activate" \in SetupPlaces /\ Setup!Goto(d, "activate")
        /\ UNCHANGED <<Setup!relay, Setup!local, setupSeen, setupFaults>>
    BY DEF Setup!PromoteCode, SetupPlaces
  <1>6. ASSUME NEW o \in Setup!Op, o = Setup!op(d) PROVE SetupPlaceAt(d, "activate", o)'
    <2>1. setupKeychain'[d].mnemonic
      BY <1>2, <1>4
    <2>2. /\ o.kind \in {"create", "join"} /\ o.dirty = {}
          /\ o.kind = "create" => o.phase # Setup!Prepared
      BY <1>1, <1>6 DEF SetupPlaceAt
    <2> QED BY <2>1, <2>2 DEF SetupPlaceAt, SetupPlaces
  <1> QED BY <1>1, <1>4, <1>5, <1>6, SetupKeysStep

LEMMA SetupUnstageKeeps ==
    ASSUME SetupInv, NEW d \in Device, Setup!Unstage(d)
    PROVE  SetupInv'
  <1>1. /\ Setup!op(d) \in Setup!Op /\ SetupPlaceAt(d, setupPc[d], Setup!op(d))
        /\ setupPc[d] = "unstage" /\ ~setupSeen[d]
        /\ SetupStateOK(d, setupMem[d]) /\ Setup!op(d) # Setup!NoOp
    BY SetupAtDevice, SetupOpFields DEF Setup!Unstage
  <1>2. setupKeychain \in [Device -> SetupCodes]
    BY SetupTypes DEF SetupInv
  <1>3. Setup!op(d).phase = Setup!Activated /\ setupKeychain[d].mnemonic
    <2>1. Setup!op(d).phase = Setup!Activated
      BY <1>1 DEF SetupPlaceAt
    <2> QED BY <1>1, <2>1 DEF SetupStateOK, Setup!op
  <1>4. PICK c : c = [setupKeychain[d] EXCEPT !.staged = FALSE]
    OBVIOUS
  <1>5. /\ c \in SetupCodes /\ c.mnemonic /\ setupKeychain' = [setupKeychain EXCEPT ![d] = c]
    BY <1>2, <1>3, <1>4 DEF SetupCodes, Setup!Unstage
  <1>6. /\ "finish" \in SetupPlaces /\ Setup!Goto(d, "finish")
        /\ UNCHANGED <<Setup!relay, Setup!local, setupSeen, setupFaults>>
    BY DEF Setup!Unstage, SetupPlaces
  <1>7. ASSUME NEW o \in Setup!Op, o = Setup!op(d) PROVE SetupPlaceAt(d, "finish", o)'
    BY <1>3, <1>7 DEF SetupPlaceAt, SetupPlaces
  <1> QED BY <1>1, <1>5, <1>6, <1>7, SetupKeysStep

-----------------------------------------------------------------------------
(* The relay has acknowledged: memory and disk, or only memory, or neither *)
(* know it.                                                                *)
LEMMA SetupReplacedKeeps ==
    ASSUME Setup!SetupAssumption, SetupInv, NEW d \in Device, NEW o \in Setup!Op,
           NEW where \in SetupPlaces,
           Setup!Replaced(d, o, where), UNCHANGED <<setupKeychain, setupSeen, setupNet>>,
           setupPc[d] # "idle", ~setupSeen[d],
           setupChain' \in SetupChains,
           setupSpaces' \subseteq SetupSpace, SetupGrows, SetupChainOK',
           setupChain'.rows = setupChain.rows,
           SetupOpOK(d, o)', o.kind = Setup!op(d).kind, o.phase # Setup!Activated,
           SetupPlaceAt(d, where, o)'
    PROVE  SetupInv'
  <1>1. PICK m : m = setupMem[d]
    OBVIOUS
  <1>2. /\ m \in SetupRecords /\ SetupStateOK(d, m) /\ setupDisk[d] = m
        /\ Setup!op(d) \in Setup!Op /\ Setup!op(d) = m.op
        /\ setupMem = [setupMem EXCEPT ![d] = m] /\ setupDisk = [setupDisk EXCEPT ![d] = m]
    BY <1>1, SetupAtDevice DEF Setup!op
  <1> /\ (SetupMetaSent' <=> SetupMetaSent) /\ setupNet' \subseteq SUBSET Setup!Row
    BY SetupTypes DEF SetupMetaSent, SetupInv
  <1>3. SetupStateOK(d, m)'
    BY <1>2, SetupStateKept
  <1>4. PICK st : st = Setup!WithOp(d, o)
    OBVIOUS
  <1>5. /\ st \in SetupRecords /\ st.op = o /\ st.rows = m.rows /\ st.dirty = m.dirty
        /\ st.joined = m.joined
    BY <1>1, <1>2, <1>4 DEF Setup!WithOp, SetupRecords
  <1>6. o.kind = "space" => m.joined
    BY <1>2, SetupOpFields DEF SetupStateOK
  <1>7. SetupStateOK(d, st)'
    BY <1>3, <1>5, <1>6 DEF SetupStateOK
  <1>8. o # Setup!NoOp /\ "idle" \in SetupPlaces
    BY SetupOpFields DEF SetupPlaces
  <1>9. /\ setupSaveBlocked' \in [Device -> BOOLEAN] /\ setupSeen' \in [Device -> BOOLEAN]
        /\ setupKeychain' \in [Device -> SetupCodes] /\ setupKeychain' = setupKeychain
        /\ setupSeen' = setupSeen
        /\ setupShown \in BOOLEAN /\ setupFaults \in 0..MaxSetupFaults
    BY SetupTypes DEF SetupInv, Setup!Replaced
  <1>10. SetupPlaceAt(d, "idle", o)' /\ SetupPlaceAt(d, "idle", m.op)'
    BY DEF SetupPlaceAt, SetupPlaces
  <1>11. CASE Setup!Persist(d, st) /\ Setup!Goto(d, where) /\ UNCHANGED setupFaults
    <2>1. /\ setupMem' = [setupMem EXCEPT ![d] = st]
          /\ setupDisk' = [setupDisk EXCEPT ![d] = st]
          /\ setupPc' = [setupPc EXCEPT ![d] = where] /\ setupShown' = setupShown
          /\ setupFaults' = setupFaults
      BY <1>11 DEF Setup!Persist, Setup!Goto
    <2> QED BY <1>5, <1>7, <1>8, <1>9, <2>1, SetupDeviceStep
  <1>12. CASE /\ Setup!Fault /\ Setup!Return(d) /\ setupMem' = [setupMem EXCEPT ![d] = st]
              /\ UNCHANGED setupDisk
    <2>1. /\ setupMem' = [setupMem EXCEPT ![d] = st] /\ setupDisk' = [setupDisk EXCEPT ![d] = m]
          /\ setupPc' = [setupPc EXCEPT ![d] = "idle"] /\ setupShown' \in BOOLEAN
          /\ setupFaults' \in 0..MaxSetupFaults
      BY <1>2, <1>9, <1>12, SetupFaultType DEF Setup!Return
    <2> QED BY <1>2, <1>3, <1>5, <1>7, <1>8, <1>9, <1>10, <2>1, SetupDeviceStep
  <1>13. CASE Setup!Fault /\ Setup!Return(d) /\ UNCHANGED <<setupMem, setupDisk>>
    <2>1. /\ setupMem' = [setupMem EXCEPT ![d] = m] /\ setupDisk' = [setupDisk EXCEPT ![d] = m]
          /\ setupPc' = [setupPc EXCEPT ![d] = "idle"] /\ setupShown' \in BOOLEAN
          /\ setupFaults' \in 0..MaxSetupFaults
      BY <1>2, <1>9, <1>13, SetupFaultType DEF Setup!Return
    <2> QED BY <1>2, <1>3, <1>8, <1>9, <1>10, <2>1, SetupDeviceStep
  <1> QED BY <1>4, <1>11, <1>12, <1>13 DEF Setup!Replaced

LEMMA SetupCreateChainKeeps ==
    ASSUME Setup!SetupAssumption, SetupInv, NEW d \in Device, Setup!CreateChain(d)
    PROVE  SetupInv'
  <1>1. /\ Setup!op(d) \in Setup!Op /\ SetupPlaceAt(d, setupPc[d], Setup!op(d))
        /\ setupPc[d] = "create" /\ ~setupSeen[d]
        /\ SetupOpOK(d, Setup!op(d))
    BY SetupAtDevice DEF Setup!CreateChain
  <1>2. Setup!op(d).kind = "create" /\ d = Creator /\ setupKeychain[Creator].staged
    BY <1>1 DEF SetupPlaceAt, SetupOpOK
  <1>3. /\ setupChain \in SetupChains
        /\ setupSpaces \subseteq SetupSpace /\ SetupChainOK
    BY SetupTypes DEF SetupInv
  <1>4. /\ setupChain' \in SetupChains
        /\ setupChain'.exists /\ setupChain'.rows = setupChain.rows
        /\ setupChain'.future = setupChain.future
        /\ setupSpaces' = setupSpaces /\ setupKeychain' = setupKeychain
        /\ setupSeen' = setupSeen /\ setupNet' = setupNet
    BY <1>3 DEF Setup!CreateChain, SetupChains
  <1>5. SetupGrows /\ SetupChainOK'
    BY <1>2, <1>3, <1>4 DEF SetupGrows, SetupChainOK
  <1>6. PICK o : o = [Setup!op(d) EXCEPT !.phase = Setup!RemoteCreated]
    OBVIOUS
  <1>7. /\ o \in Setup!Op /\ o.kind = Setup!op(d).kind /\ o.phase = Setup!RemoteCreated
        /\ o.rows = Setup!op(d).rows
        /\ o.dirty = Setup!op(d).dirty /\ o.future = Setup!op(d).future
    BY <1>1, <1>6 DEF Setup!Op, Setup!RemoteCreated
  <1>8. SetupOpOK(d, o)'
    BY <1>1, <1>2, <1>4, <1>7 DEF SetupOpOK, Setup!RemoteCreated, Setup!Prepared
  <1>9. SetupPlaceAt(d, "pull", o)' /\ "pull" \in SetupPlaces
    BY <1>2, <1>7 DEF SetupPlaceAt, SetupPlaces, Setup!RemoteCreated, Setup!Prepared
  <1>10. Setup!Replaced(d, o, "pull") /\ o.phase # Setup!Activated
    BY <1>6, <1>7 DEF Setup!CreateChain, Setup!RemoteCreated, Setup!Activated
  <1> QED BY <1>1, <1>3, <1>4, <1>5, <1>7, <1>8, <1>9, <1>10, SetupReplacedKeeps

LEMMA SetupCreateSpaceChainKeeps ==
    ASSUME Setup!SetupAssumption, SetupInv, NEW d \in Device, Setup!CreateSpaceChain(d)
    PROVE  SetupInv'
  <1>1. /\ Setup!op(d) \in Setup!Op /\ SetupPlaceAt(d, setupPc[d], Setup!op(d))
        /\ setupPc[d] = "create_space" /\ ~setupSeen[d]
        /\ SetupOpOK(d, Setup!op(d)) /\ setupMem[d] \in SetupRecords
        /\ SetupStateOK(d, setupMem[d])
    BY SetupAtDevice DEF Setup!CreateSpaceChain
  <1>2. Setup!op(d).kind = "space" /\ Setup!op(d).space \in SetupSpace
    BY <1>1 DEF SetupPlaceAt, SetupOpOK
  <1>3. /\ setupChain \in SetupChains
        /\ setupSpaces \subseteq SetupSpace /\ SetupChainOK
    BY SetupTypes DEF SetupInv
  <1>4. /\ setupChain' = setupChain /\ setupSpaces' = setupSpaces \cup {Setup!op(d).space}
        /\ setupSpaces' \subseteq SetupSpace
        /\ setupKeychain' = setupKeychain /\ setupSeen' = setupSeen /\ setupNet' = setupNet
        /\ (SetupMetaSent' <=> SetupMetaSent)
    BY <1>2, <1>3 DEF Setup!CreateSpaceChain, SetupMetaSent
  <1>5. SetupGrows /\ SetupChainOK'
    BY <1>3, <1>4 DEF SetupGrows, SetupChainOK
  <1>6. PICK o : o = Setup!Overlay(d)
    OBVIOUS
  <1>7. /\ setupMem[d].rows \in SUBSET Setup!Row /\ setupMem[d].dirty = {}
        /\ setupMem[d].rows \subseteq setupChain.rows
    BY <1>1 DEF SetupRecords, SetupStateOK
  <1>8. /\ o \in Setup!Op /\ o.kind = Setup!op(d).kind /\ o.phase = Setup!RemoteCreated
        /\ o.rows = setupMem[d].rows \cup {Setup!op(d).space}
        /\ o.dirty = Setup!op(d).dirty \cap {Setup!op(d).space}
        /\ o.space = Setup!op(d).space /\ o.future = Setup!op(d).future
    <2>1. setupMem[d].rows \cup {Setup!op(d).space} \in SUBSET Setup!Row
      BY <1>2, <1>7 DEF Setup!Row
    <2>2. setupMem[d].dirty \cup (Setup!op(d).dirty \cap {Setup!op(d).space})
             = Setup!op(d).dirty \cap {Setup!op(d).space}
      BY <1>7
    <2>3. PICK p : p = [Setup!op(d) EXCEPT !.rows = setupMem[d].rows \cup {Setup!op(d).space}]
      OBVIOUS
    <2>4. /\ p \in Setup!Op /\ p.kind = Setup!op(d).kind
          /\ p.rows = setupMem[d].rows \cup {Setup!op(d).space}
          /\ p.dirty = Setup!op(d).dirty /\ p.space = Setup!op(d).space
          /\ p.future = Setup!op(d).future
      BY <1>1, <2>1, <2>3 DEF Setup!Op
    <2>5. PICK x \in SUBSET Setup!Row : x = Setup!op(d).dirty \cap {Setup!op(d).space}
      BY <1>1, SetupOpFields
    <2>6. PICK q : q = [p EXCEPT !.dirty = x]
      OBVIOUS
    <2>7. /\ q \in Setup!Op /\ q.kind = p.kind /\ q.dirty = x /\ q.rows = p.rows
          /\ q.space = p.space /\ q.future = p.future
      BY <2>4, <2>6 DEF Setup!Op
    <2>8. o = [q EXCEPT !.phase = Setup!RemoteCreated]
      BY <1>6, <2>2, <2>3, <2>4, <2>5, <2>6 DEF Setup!Overlay
    <2>9. /\ o \in Setup!Op /\ o.kind = q.kind /\ o.phase = Setup!RemoteCreated
          /\ o.dirty = q.dirty
          /\ o.rows = q.rows /\ o.space = q.space /\ o.future = q.future
      BY <2>7, <2>8 DEF Setup!Op, Setup!RemoteCreated
    <2> QED BY <2>4, <2>5, <2>7, <2>9
  <1>9. SetupOpOK(d, o)'
    BY <1>1, <1>2, <1>4, <1>7, <1>8 DEF SetupOpOK
  <1>10. SetupPlaceAt(d, "pull", o)' /\ "pull" \in SetupPlaces
    BY <1>2, <1>4, <1>8 DEF SetupPlaceAt, SetupPlaces
  <1>11. Setup!Replaced(d, o, "pull") /\ o.phase # Setup!Activated
    BY <1>6, <1>8 DEF Setup!CreateSpaceChain, Setup!RemoteCreated, Setup!Activated
  <1> QED BY <1>1, <1>3, <1>4, <1>5, <1>8, <1>9, <1>10, <1>11, SetupReplacedKeeps

-----------------------------------------------------------------------------
(* A push adds the operation's own rows and nothing else. *)
LEMMA SetupPushGrows ==
    ASSUME Setup!SetupAssumption, SetupInv, NEW d \in Device, setupPc[d] = "push",
           NEW added \in SUBSET Setup!op(d).dirty,
           setupChain' = [setupChain EXCEPT !.rows = @ \cup added],
           setupNet' \in {setupNet, setupNet \cup {Setup!op(d).dirty}},
           UNCHANGED <<setupSpaces, setupKeychain>>
    PROVE  /\ setupChain' \in SetupChains /\ setupNet' \subseteq SUBSET Setup!Row
           /\ SetupGrows /\ SetupChainOK'
           /\ (SetupMetaSent' => SetupMetaSent \/ d = Creator)
           /\ setupChain'.exists = setupChain.exists /\ setupChain'.future = setupChain.future
  <1>1. /\ Setup!op(d) \in Setup!Op /\ SetupPlaceAt(d, setupPc[d], Setup!op(d))
        /\ SetupOpOK(d, Setup!op(d))
    BY SetupAtDevice
  <1>2. /\ setupChain \in SetupChains /\ setupNet \subseteq SUBSET Setup!Row
        /\ SetupChainOK
    BY SetupTypes DEF SetupInv
  <1>3. Setup!op(d).dirty \in SUBSET Setup!Row
        /\ Setup!op(d).kind \in {"create", "join", "space"}
    BY <1>1, SetupOpFields
  <1>4. Setup!Meta \in Setup!op(d).dirty => d = Creator /\ setupChain.exists
    BY <1>1, <1>3 DEF SetupOpOK, SetupPlaceAt, Setup!SetupAssumption
  <1>5. Setup!op(d).dirty \cap SetupSpace \subseteq setupSpaces
    BY <1>1, <1>3 DEF SetupOpOK, SetupPlaceAt, Setup!SetupAssumption
  <1>6. /\ setupChain' \in SetupChains
        /\ setupChain'.rows = setupChain.rows \cup added
        /\ setupChain'.exists = setupChain.exists /\ setupChain'.future = setupChain.future
    BY <1>2, <1>3 DEF SetupChains
  <1>7. SetupMetaSent' => SetupMetaSent \/ Setup!Meta \in Setup!op(d).dirty
    BY <1>6 DEF SetupMetaSent
  <1>8. setupNet' \subseteq SUBSET Setup!Row /\ SetupGrows
    BY <1>2, <1>3, <1>6 DEF SetupGrows
  <1>9. SetupChainOK'
    BY <1>2, <1>4, <1>5, <1>6, <1>7 DEF SetupChainOK
  <1> QED BY <1>4, <1>6, <1>7, <1>8, <1>9

(* A push: the journal knows what was accepted, on disk too or not. *)
LEMMA SetupPushStep ==
    ASSUME Setup!SetupAssumption, SetupInv, NEW d \in Device, setupPc[d] = "push",
           NEW x \in SUBSET Setup!op(d).dirty,
           NEW at \in {"idle", "ready"}, at = "ready" => x = {},
           NEW added \in SUBSET Setup!op(d).dirty,
           setupChain' = [setupChain EXCEPT !.rows = @ \cup added],
           setupNet' \in {setupNet, setupNet \cup {Setup!op(d).dirty}},
           Setup!op(d).dirty \ x \subseteq added,
           setupMem' = [setupMem EXCEPT ![d] = Setup!WithOp(d, Setup!Published(d, x))],
           \/ setupDisk' = [setupDisk EXCEPT ![d] = Setup!WithOp(d, Setup!Published(d, x))]
           \/ UNCHANGED setupDisk /\ at = "idle",
           setupPc' = [setupPc EXCEPT ![d] = at], setupShown' \in BOOLEAN,
           setupFaults' \in 0..MaxSetupFaults,
           UNCHANGED <<setupSpaces, setupSaveBlocked, setupKeychain, setupSeen>>
    PROVE  SetupInv'
  <1>1. PICK m : m = setupMem[d]
    OBVIOUS
  <1>2. /\ m \in SetupRecords /\ SetupStateOK(d, m) /\ setupDisk[d] = m
        /\ Setup!op(d) \in Setup!Op /\ Setup!op(d) = m.op
        /\ setupDisk = [setupDisk EXCEPT ![d] = m] /\ ~setupSeen[d] /\ SetupOpOK(d, Setup!op(d))
        /\ SetupPlaceAt(d, "push", Setup!op(d))
    BY <1>1, SetupAtDevice DEF Setup!op
  <1>3. /\ setupChain' \in SetupChains /\ setupNet' \subseteq SUBSET Setup!Row
        /\ SetupGrows /\ SetupChainOK'
        /\ (SetupMetaSent' => SetupMetaSent \/ d = Creator)
        /\ setupChain'.exists = setupChain.exists /\ setupChain'.future = setupChain.future
    BY SetupPushGrows
  <1>4. Setup!op(d).kind = "create" => Setup!op(d).phase # Setup!Prepared /\ setupChain.exists
    BY <1>2 DEF SetupPlaceAt, SetupOpOK
  <1>5. Setup!op(d).kind = "space" => Setup!op(d).space \in setupSpaces
    BY <1>2 DEF SetupPlaceAt
  <1>6. SetupStateOK(d, m)'
    BY <1>2, <1>3, <1>4, SetupStateKept
  <1>7. PICK o : o = Setup!Published(d, x)
    OBVIOUS
  <1>8. /\ o \in Setup!Op /\ o.kind = Setup!op(d).kind /\ o.phase = Setup!Publishing
        /\ o.dirty = x
        /\ o.rows = Setup!op(d).rows /\ o.space = Setup!op(d).space
        /\ o.future = Setup!op(d).future
    <2>1. PICK q : q = [Setup!op(d) EXCEPT !.dirty = x]
      OBVIOUS
    <2>2. /\ q \in Setup!Op /\ q.kind = Setup!op(d).kind /\ q.dirty = x
          /\ q.rows = Setup!op(d).rows
          /\ q.space = Setup!op(d).space /\ q.future = Setup!op(d).future
      BY <1>2, <2>1 DEF Setup!Op
    <2>3. o = [q EXCEPT !.phase = Setup!Publishing]
      BY <1>7, <2>1 DEF Setup!Published
    <2> QED BY <2>2, <2>3 DEF Setup!Op, Setup!Publishing
  <1>9. o.rows \ o.dirty \subseteq setupChain'.rows
    <2>1. Setup!op(d).rows \ Setup!op(d).dirty \subseteq setupChain'.rows
      BY <1>2, <1>3 DEF SetupOpOK, SetupGrows
    <2>2. setupChain'.rows = setupChain.rows \cup added
      BY SetupTypes DEF SetupInv
    <2> QED BY <1>8, <2>1, <2>2
  <1>10. SetupOpOK(d, o)'
    BY <1>2, <1>3, <1>4, <1>8, <1>9 DEF SetupOpOK, Setup!Prepared, Setup!Publishing
  <1>11. PICK st : st = Setup!WithOp(d, o)
    OBVIOUS
  <1>12. /\ st \in SetupRecords /\ st.op = o /\ st.rows = m.rows /\ st.dirty = m.dirty
         /\ st.joined = m.joined
    BY <1>1, <1>2, <1>8, <1>11 DEF Setup!WithOp, SetupRecords
  <1>13. o.kind = "space" => m.joined
    BY <1>2, <1>8, SetupOpFields DEF SetupStateOK
  <1>14. SetupStateOK(d, st)' /\ o # Setup!NoOp
    BY <1>6, <1>8, <1>10, <1>12, <1>13, SetupOpFields DEF SetupStateOK, Setup!Publishing,
       Setup!Activated
  <1>15. SetupPlaceAt(d, at, o)' /\ at \in SetupPlaces
    BY <1>4, <1>5, <1>8 DEF SetupPlaceAt, SetupPlaces, Setup!Prepared, Setup!Publishing
  <1>16. /\ setupSaveBlocked' \in [Device -> BOOLEAN] /\ setupSeen' \in [Device -> BOOLEAN]
         /\ setupKeychain' \in [Device -> SetupCodes] /\ setupSpaces' \subseteq SetupSpace
    BY SetupTypes DEF SetupInv
  <1>17. setupMem' = [setupMem EXCEPT ![d] = st]
    BY <1>7, <1>11
  <1>18. CASE setupDisk' = [setupDisk EXCEPT ![d] = Setup!WithOp(d, Setup!Published(d, x))]
    <2>1. setupDisk' = [setupDisk EXCEPT ![d] = st]
      BY <1>7, <1>11, <1>18
    <2> QED BY <1>2, <1>3, <1>12, <1>14, <1>15, <1>16, <1>17, <2>1, SetupDeviceStep
  <1>19. CASE UNCHANGED setupDisk /\ at = "idle"
    <2>1. setupDisk' = [setupDisk EXCEPT ![d] = m]
      BY <1>2, <1>19
    <2> QED BY <1>2, <1>3, <1>6, <1>12, <1>14, <1>15, <1>16, <1>17, <1>19, <2>1, SetupDeviceStep
  <1> QED BY <1>18, <1>19

LEMMA SetupPushKeeps ==
    ASSUME Setup!SetupAssumption, SetupInv, NEW d \in Device, Setup!Push(d)
    PROVE  SetupInv'
  <1>1. setupShown \in BOOLEAN /\ setupFaults \in 0..MaxSetupFaults
    BY SetupTypes DEF SetupInv
  <1>2. PICK added \in SUBSET Setup!op(d).dirty, x \in SUBSET Setup!op(d).dirty :
                 added = Setup!op(d).dirty /\ x = Setup!op(d).dirty \cap setupChain.rows
    OBVIOUS
  <1>3. /\ setupPc[d] = "push" /\ setupChain' = [setupChain EXCEPT !.rows = @ \cup added]
        /\ UNCHANGED <<setupSpaces, setupNet, setupSaveBlocked, setupKeychain, setupSeen>>
    BY <1>2 DEF Setup!Push
  <1>4. PICK next : next = Setup!WithOp(d, Setup!Published(d, x))
    OBVIOUS
  <1>5. CASE /\ Setup!Persist(d, next) /\ UNCHANGED setupFaults
             /\ IF x = {} THEN Setup!Goto(d, "ready") ELSE Setup!Return(d)
    <2>1. PICK at \in {"idle", "ready"} : at = IF x = {} THEN "ready" ELSE "idle"
      OBVIOUS
    <2>2. /\ setupMem' = [setupMem EXCEPT ![d] = next] /\ setupDisk' = [setupDisk EXCEPT ![d] = next]
          /\ setupPc' = [setupPc EXCEPT ![d] = at] /\ setupShown' \in BOOLEAN
          /\ setupFaults' \in 0..MaxSetupFaults
      BY <1>1, <1>5, <2>1 DEF Setup!Persist, Setup!Goto, Setup!Return
    <2> QED BY <1>2, <1>3, <1>4, <2>1, <2>2, SetupPushStep
  <1>6. CASE /\ Setup!Fault /\ Setup!Return(d)
             /\ setupMem' = [setupMem EXCEPT ![d] = next] /\ UNCHANGED setupDisk
    <2>1. /\ setupPc' = [setupPc EXCEPT ![d] = "idle"] /\ setupShown' \in BOOLEAN
          /\ setupFaults' \in 0..MaxSetupFaults
      BY <1>1, <1>6, SetupFaultType DEF Setup!Return
    <2> QED BY <1>2, <1>3, <1>4, <1>6, <2>1, SetupPushStep
  <1> QED BY <1>2, <1>4, <1>5, <1>6 DEF Setup!Push

LEMMA SetupPushFailsKeeps ==
    ASSUME Setup!SetupAssumption, SetupInv, NEW d \in Device, Setup!PushFails(d)
    PROVE  SetupInv'
  <1>1. setupShown' \in BOOLEAN /\ setupFaults' \in 0..MaxSetupFaults
    BY SetupFaultType, SetupTypes DEF SetupInv, Setup!PushFails, Setup!Return
  <1>2. /\ setupPc[d] = "push"
        /\ UNCHANGED <<setupSpaces, setupSaveBlocked, setupKeychain, setupSeen>>
        /\ setupPc' = [setupPc EXCEPT ![d] = "idle"]
    BY DEF Setup!PushFails, Setup!Return
  <1>3. PICK x \in SUBSET Setup!op(d).dirty : x = Setup!op(d).dirty
    OBVIOUS
  <1>4. /\ setupNet' \in {setupNet, setupNet \cup {Setup!op(d).dirty}}
        /\ \E added \in SUBSET Setup!op(d).dirty :
              setupChain' = [setupChain EXCEPT !.rows = @ \cup added]
    <2>1. setupChain = [setupChain EXCEPT !.rows = @ \cup {}]
      BY SetupTypes DEF SetupInv, SetupChains
    <2> QED BY <2>1 DEF Setup!PushFails
  <1>5. PICK next : next = Setup!WithOp(d, Setup!Published(d, x))
    OBVIOUS
  <1>6. /\ setupMem' = [setupMem EXCEPT ![d] = next]
        /\ setupDisk' \in {setupDisk, [setupDisk EXCEPT ![d] = next]}
    BY <1>3, <1>5 DEF Setup!PushFails
  <1> QED BY <1>1, <1>2, <1>3, <1>4, <1>5, <1>6, SetupPushStep

(* A push that arrives after its sender has given up. *)
LEMMA SetupLateDeliveryKeeps ==
    ASSUME Setup!SetupAssumption, SetupInv, Setup!LateDelivery
    PROVE  SetupInv'
  <1>1. PICK d \in Device : d = Creator
    BY DEF Setup!SetupAssumption
  <1>2. PICK m, k, at : m = setupMem[d] /\ k = setupDisk[d] /\ at = setupPc[d]
    OBVIOUS
  <1>3. /\ m \in SetupRecords /\ k \in SetupRecords /\ SetupStateOK(d, m) /\ SetupStateOK(d, k)
        /\ m.joined = k.joined /\ setupMem = [setupMem EXCEPT ![d] = m]
        /\ setupDisk = [setupDisk EXCEPT ![d] = k]
        /\ SetupPlaceAt(d, at, m.op)
        /\ setupSeen[d] => setupChain.future /\ at \in {"idle", "prove", "gate", "clean"}
        /\ at # "idle" => m.op # Setup!NoOp /\ k = m
    BY <1>2, SetupAtDevice, SetupOpFields DEF Setup!op
  <1>4. /\ setupChain \in SetupChains /\ setupNet \subseteq SUBSET Setup!Row
        /\ SetupChainOK /\ setupPc \in [Device -> SetupPlaces]
        /\ UNCHANGED <<setupSpaces, Setup!local, setupKeychain, setupShown,
                        setupPc, setupSeen, setupFaults>>
    BY SetupTypes DEF SetupInv, Setup!LateDelivery
  <1>5. PICK rows \in setupNet :
          /\ setupChain' = [setupChain EXCEPT !.rows = IF setupChain.frozen THEN @ ELSE @ \cup rows]
          /\ setupNet' = setupNet \ {rows}
    BY DEF Setup!LateDelivery
  <1>6. PICK added \in SUBSET rows :
          setupChain' = [setupChain EXCEPT !.rows = setupChain.rows \cup added]
    <2>1. CASE setupChain.frozen
      <3>1. setupChain.rows = setupChain.rows \cup {}
        OBVIOUS
      <3> QED BY <1>5, <2>1, <3>1
    <2>2. CASE ~setupChain.frozen
      BY <1>5, <2>2
    <2> QED BY <2>1, <2>2
  <1>7. /\ setupChain' \in SetupChains /\ setupNet' \subseteq SUBSET Setup!Row
        /\ setupChain'.rows = setupChain.rows \cup added
        /\ setupChain'.exists = setupChain.exists /\ setupChain'.future = setupChain.future
    BY <1>4, <1>5, <1>6 DEF SetupChains
  <1>8. SetupMetaSent' => SetupMetaSent
    BY <1>5, <1>6, <1>7 DEF SetupMetaSent
  <1>9. SetupGrows /\ SetupChainOK'
    BY <1>4, <1>5, <1>6, <1>7, <1>8 DEF SetupGrows, SetupChainOK
  <1>10. SetupStateOK(d, m)' /\ SetupStateOK(d, k)'
    BY <1>3, <1>8, <1>9, SetupStateKept
  <1>11. PICK o : o = m.op
    OBVIOUS
  <1>12. SetupPlaceAt(d, at, o)'
    BY <1>3, <1>4, <1>9, <1>11, SetupPlaceKept
  <1>13. /\ setupMem' = [setupMem EXCEPT ![d] = m] /\ setupDisk' = [setupDisk EXCEPT ![d] = k]
         /\ setupPc' = [setupPc EXCEPT ![d] = at] /\ at \in SetupPlaces
    BY <1>2, <1>3, <1>4 DEF Setup!local
  <1>14. /\ setupSaveBlocked' \in [Device -> BOOLEAN] /\ setupSeen' \in [Device -> BOOLEAN]
         /\ setupKeychain' \in [Device -> SetupCodes] /\ setupSpaces' \subseteq SetupSpace
         /\ setupShown' \in BOOLEAN /\ setupFaults' \in 0..MaxSetupFaults
    BY <1>4, SetupTypes DEF SetupInv, Setup!local
  <1> QED BY <1>1, <1>3, <1>4, <1>7, <1>8, <1>9, <1>10, <1>11, <1>12, <1>13, <1>14, SetupDeviceStep

LEMMA SetupPushNothingKeeps ==
    ASSUME SetupInv, NEW d \in Device, Setup!PushNothing(d)
    PROVE  SetupInv'
  <1>1. PICK m : m = setupMem[d]
    OBVIOUS
  <1>2. /\ m \in SetupRecords /\ SetupStateOK(d, m) /\ setupDisk[d] = m
        /\ Setup!op(d) \in Setup!Op /\ Setup!op(d) = m.op
        /\ setupMem = [setupMem EXCEPT ![d] = m] /\ setupDisk = [setupDisk EXCEPT ![d] = m]
        /\ ~setupSeen[d] /\ SetupPlaceAt(d, "push", Setup!op(d))
    BY <1>1, SetupAtDevice DEF Setup!op, Setup!PushNothing
  <1>3. SetupPlaceAt(d, "ready", m.op) /\ "ready" \in SetupPlaces /\ m.op # Setup!NoOp
    BY <1>2, SetupOpFields DEF Setup!PushNothing, SetupPlaceAt, SetupPlaces
  <1>4. /\ setupSaveBlocked' \in [Device -> BOOLEAN] /\ setupSeen' \in [Device -> BOOLEAN]
        /\ setupShown' \in BOOLEAN /\ setupFaults' \in 0..MaxSetupFaults
    BY SetupTypes DEF SetupInv, Setup!PushNothing, Setup!Goto, Setup!local
  <1>5. /\ Setup!Persist(d, m) /\ setupPc' = [setupPc EXCEPT ![d] = "ready"]
        /\ UNCHANGED <<Setup!relay, setupKeychain, setupSeen>>
    BY <1>2 DEF Setup!PushNothing, Setup!Persist, Setup!Goto, Setup!local
  <1> QED BY <1>2, <1>3, <1>4, <1>5, SetupPersists

LEMMA SetupPushFrozenKeeps ==
    ASSUME Setup!SetupAssumption, SetupInv, NEW d \in Device, Setup!PushFrozen(d)
    PROVE  SetupInv'
  <1>1. /\ Setup!op(d) \in Setup!Op /\ SetupPlaceAt(d, "push", Setup!op(d))
        /\ SetupOpOK(d, Setup!op(d))
    BY SetupAtDevice DEF Setup!PushFrozen
  <1>2. PICK o : o = Setup!Published(d, Setup!op(d).dirty)
    OBVIOUS
  <1>3. /\ o \in Setup!Op /\ o.kind = Setup!op(d).kind /\ o.phase = Setup!Publishing
        /\ o.dirty = Setup!op(d).dirty
        /\ o.rows = Setup!op(d).rows /\ o.space = Setup!op(d).space
        /\ o.future = Setup!op(d).future
    <2>1. PICK x \in SUBSET Setup!Row : x = Setup!op(d).dirty
      BY <1>1, SetupOpFields
    <2>2. PICK q : q = [Setup!op(d) EXCEPT !.dirty = x]
      OBVIOUS
    <2>3. /\ q \in Setup!Op /\ q.kind = Setup!op(d).kind /\ q.dirty = x
          /\ q.rows = Setup!op(d).rows
          /\ q.space = Setup!op(d).space /\ q.future = Setup!op(d).future
      BY <1>1, <2>2 DEF Setup!Op
    <2>4. o = [q EXCEPT !.phase = Setup!Publishing]
      BY <1>2, <2>1, <2>2 DEF Setup!Published
    <2> QED BY <2>1, <2>3, <2>4 DEF Setup!Op, Setup!Publishing
  <1>4. Setup!op(d).kind = "create" => Setup!op(d).phase # Setup!Prepared /\ setupChain.exists
    BY <1>1 DEF SetupPlaceAt, SetupOpOK
  <1>5. SetupOpOK(d, o) /\ o.phase # Setup!Activated
    BY <1>1, <1>3, <1>4 DEF SetupOpOK, Setup!Prepared, Setup!Publishing, Setup!Activated
  <1>6. PICK st : st = Setup!WithOp(d, o)
    OBVIOUS
  <1>7. /\ st \in SetupRecords /\ SetupStateOK(d, st) /\ st.op = o
        /\ st.joined = setupMem[d].joined
    BY <1>1, <1>3, <1>5, <1>6, SetupNextOp
  <1>8. UNCHANGED <<Setup!relay, setupKeychain>>
    BY DEF Setup!PushFrozen
  <1>9. CASE Setup!ObserveGate(d, st, o)
    BY <1>3, <1>5, <1>7, <1>8, <1>9, SetupObserveKeeps
  <1>10. CASE /\ Setup!Fault /\ Setup!Return(d) /\ setupMem' = [setupMem EXCEPT ![d] = st]
              /\ UNCHANGED <<setupDisk, setupSaveBlocked, setupSeen>>
    <2>1. PICK k : k = setupDisk[d]
      OBVIOUS
    <2>2. /\ k \in SetupRecords /\ SetupStateOK(d, k) /\ k.joined = st.joined
          /\ setupDisk' = [setupDisk EXCEPT ![d] = k] /\ (setupSeen[d] => setupChain.future)
      BY <1>7, <1>10, <2>1, SetupAtDevice
    <2>3. /\ setupPc' = [setupPc EXCEPT ![d] = "idle"] /\ setupShown' \in BOOLEAN
          /\ setupFaults' \in 0..MaxSetupFaults /\ setupSaveBlocked' \in [Device -> BOOLEAN]
          /\ setupSeen' = setupSeen /\ setupSeen' \in [Device -> BOOLEAN]
      BY <1>10, SetupFaultType, SetupTypes DEF Setup!Return, SetupInv
    <2>4. SetupPlaceAt(d, "idle", st.op) /\ "idle" \in SetupPlaces
      BY DEF SetupPlaceAt, SetupPlaces
    <2> QED BY <1>7, <1>8, <1>10, <2>2, <2>3, <2>4, SetupQuiet
  <1> QED BY <1>2, <1>6, <1>9, <1>10 DEF Setup!PushFrozen

-----------------------------------------------------------------------------
LEMMA SetupReadyKeeps ==
    ASSUME Setup!SetupAssumption, SetupInv, NEW d \in Device, Setup!Ready(d)
    PROVE  SetupInv'
  <1>1. /\ Setup!op(d) \in Setup!Op /\ SetupPlaceAt(d, "ready", Setup!op(d))
        /\ SetupOpOK(d, Setup!op(d)) /\ ~setupSeen[d]
    BY SetupAtDevice DEF Setup!Ready
  <1>2. PICK o : o = [Setup!op(d) EXCEPT !.phase = Setup!ActivationReady]
    OBVIOUS
  <1>3. /\ o \in Setup!Op /\ o.kind = Setup!op(d).kind /\ o.phase = Setup!ActivationReady
        /\ o.dirty = Setup!op(d).dirty
        /\ o.rows = Setup!op(d).rows /\ o.space = Setup!op(d).space
        /\ o.future = Setup!op(d).future
    BY <1>1, <1>2 DEF Setup!Op, Setup!ActivationReady
  <1>4. Setup!op(d).kind = "create" => Setup!op(d).phase # Setup!Prepared /\ setupChain.exists
    BY <1>1 DEF SetupPlaceAt, SetupOpOK
  <1>5. SetupOpOK(d, o) /\ o.phase # Setup!Activated /\ o # Setup!NoOp
    BY <1>1, <1>3, <1>4, SetupOpFields DEF SetupOpOK, Setup!Prepared, Setup!ActivationReady,
       Setup!Activated
  <1>6. SetupPlaceAt(d, "confirm", o) /\ "confirm" \in SetupPlaces
    BY <1>1, <1>3 DEF SetupPlaceAt, SetupPlaces, Setup!Prepared, Setup!ActivationReady
  <1>7. PICK st : st = Setup!WithOp(d, o)
    OBVIOUS
  <1>8. st \in SetupRecords /\ SetupStateOK(d, st) /\ st.op = o
    BY <1>1, <1>3, <1>5, <1>7, SetupNextOp
  <1>9. Setup!Saved(d, st, "confirm") /\ UNCHANGED <<Setup!relay, setupKeychain, setupSeen>>
    BY <1>2, <1>7 DEF Setup!Ready
  <1> QED BY <1>1, <1>5, <1>6, <1>8, <1>9, SetupSavedKeeps

LEMMA SetupActivateKeeps ==
    ASSUME Setup!SetupAssumption, SetupInv, NEW d \in Device, Setup!Activate(d)
    PROVE  SetupInv'
  <1>1. /\ Setup!op(d) \in Setup!Op /\ SetupPlaceAt(d, "activate", Setup!op(d))
        /\ SetupOpOK(d, Setup!op(d)) /\ ~setupSeen[d]
        /\ SetupStateOK(d, setupMem[d])
    BY SetupAtDevice DEF Setup!Activate
  <1>2. /\ Setup!op(d).dirty = {} /\ setupKeychain[d].mnemonic
        /\ Setup!op(d).rows \subseteq setupChain.rows
        /\ Setup!op(d).kind \in {"create", "join", "space"}
        /\ Setup!op(d).rows \in SUBSET Setup!Row
    BY <1>1, SetupOpFields DEF SetupPlaceAt, SetupOpOK
  <1>3. {Setup!Meta, d} \subseteq setupChain.rows
    <2>1. CASE Setup!op(d).kind = "space"
      BY <1>1, <2>1, SetupOpFields DEF SetupStateOK, Setup!op
    <2>2. CASE Setup!op(d).kind # "space"
      BY <1>1, <1>2, <2>2 DEF SetupOpOK
    <2> QED BY <2>1, <2>2
  <1>4. PICK o : o = [Setup!op(d) EXCEPT !.phase = Setup!Activated]
    OBVIOUS
  <1>5. /\ o \in Setup!Op /\ o.kind = Setup!op(d).kind /\ o.phase = Setup!Activated
        /\ o.dirty = Setup!op(d).dirty
        /\ o.rows = Setup!op(d).rows /\ o.space = Setup!op(d).space
        /\ o.future = Setup!op(d).future
    BY <1>1, <1>4 DEF Setup!Op, Setup!Activated
  <1>6. Setup!op(d).kind = "create" => Setup!op(d).phase # Setup!Prepared /\ setupChain.exists
    BY <1>1 DEF SetupPlaceAt, SetupOpOK
  <1>7. SetupOpOK(d, o) /\ o # Setup!NoOp
    BY <1>1, <1>5, <1>6, SetupOpFields DEF SetupOpOK, Setup!Prepared, Setup!Activated
  <1>8. PICK st : st = [rows |-> Setup!op(d).rows, dirty |-> Setup!op(d).dirty, joined |-> TRUE,
                        blocked |-> FALSE, op |-> o]
    OBVIOUS
  <1>9. /\ st \in SetupRecords /\ st.op = o /\ st.joined /\ st.rows = Setup!op(d).rows
        /\ st.dirty = {}
    BY <1>2, <1>5, <1>8 DEF SetupRecords
  <1>10. SetupStateOK(d, st)
    BY <1>2, <1>3, <1>7, <1>9 DEF SetupStateOK
  <1>11. SetupPlaceAt(d, "unstage", o) /\ "unstage" \in SetupPlaces
    BY <1>5 DEF SetupPlaceAt, SetupPlaces
  <1>12. Setup!Saved(d, st, "unstage") /\ UNCHANGED <<Setup!relay, setupKeychain, setupSeen>>
    BY <1>4, <1>8 DEF Setup!Activate
  <1> QED BY <1>1, <1>7, <1>9, <1>10, <1>11, <1>12, SetupSavedKeeps

LEMMA SetupFreshGateKeeps ==
    ASSUME Setup!SetupAssumption, SetupInv, NEW d \in Device, NEW where \in SetupPlaces,
           Setup!FreshGate(d, where),
           setupPc[d] # "idle", SetupPlaceAt(d, where, Setup!op(d))
    PROVE  SetupInv'
  <1>1. /\ setupMem[d] \in SetupRecords /\ SetupStateOK(d, setupMem[d])
        /\ Setup!op(d) \in Setup!Op /\ Setup!op(d) = setupMem[d].op
        /\ (setupSeen[d] => setupChain.future) /\ Setup!op(d) # Setup!NoOp
    BY SetupAtDevice, SetupOpFields DEF Setup!op
  <1>2. /\ setupSeen \in [Device -> BOOLEAN] /\ setupChain.rows \in SUBSET Setup!Row
        /\ setupSaveBlocked' \in [Device -> BOOLEAN] /\ setupShown \in BOOLEAN
        /\ setupFaults' \in 0..MaxSetupFaults
        /\ UNCHANGED <<Setup!relay, setupKeychain>>
    BY SetupTypes DEF SetupInv, Setup!FreshGate, SetupChains
  <1>3. CASE setupChain.future
    <2>1. PICK st : st = [setupMem[d] EXCEPT !.blocked = TRUE]
      OBVIOUS
    <2>2. /\ st \in SetupRecords /\ st.op = setupMem[d].op /\ st.rows = setupMem[d].rows
          /\ st.dirty = setupMem[d].dirty /\ st.joined = setupMem[d].joined
      BY <1>1, <2>1 DEF SetupRecords
    <2>3. SetupStateOK(d, st) /\ SetupPlaceAt(d, "idle", st.op) /\ "idle" \in SetupPlaces
      BY <1>1, <2>2 DEF SetupStateOK, SetupPlaceAt, SetupPlaces
    <2>4. /\ Setup!Persist(d, st) /\ setupPc' = [setupPc EXCEPT ![d] = "idle"]
          /\ setupShown' \in BOOLEAN
          /\ setupSeen' = [setupSeen EXCEPT ![d] = TRUE]
      BY <1>2, <1>3, <2>1 DEF Setup!FreshGate, Setup!Return
    <2>5. setupSeen' \in [Device -> BOOLEAN] /\ \A e \in Device \ {d} : setupSeen'[e] = setupSeen[e]
      BY <1>2, <2>4
    <2> QED BY <1>2, <1>3, <2>2, <2>3, <2>4, <2>5, SetupPersists
  <1>4. CASE ~setupChain.future
    <2>1. PICK st : st = [setupMem[d] EXCEPT !.rows = @ \cup setupChain.rows,
                                              !.dirty = @ \ setupChain.rows]
      OBVIOUS
    <2>2. /\ st \in SetupRecords /\ st.op = setupMem[d].op
          /\ st.rows = setupMem[d].rows \cup setupChain.rows
          /\ st.dirty = setupMem[d].dirty \ setupChain.rows /\ st.joined = setupMem[d].joined
      BY <1>1, <1>2, <2>1 DEF SetupRecords
    <2>3. SetupStateOK(d, st)
      BY <1>1, <2>2 DEF SetupStateOK
    <2>4. /\ Setup!Persist(d, st) /\ setupPc' = [setupPc EXCEPT ![d] = where]
          /\ setupShown' = setupShown /\ setupSeen' = setupSeen
      BY <1>4, <2>1 DEF Setup!FreshGate, Setup!Goto
    <2>5. ~setupSeen'[d] /\ st.op # Setup!NoOp /\ SetupPlaceAt(d, where, st.op)
      BY <1>1, <1>4, <2>2, <2>4
    <2> QED BY <1>2, <2>2, <2>3, <2>4, <2>5, SetupPersists
  <1> QED BY <1>3, <1>4

LEMMA SetupGatesKeep ==
    ASSUME Setup!SetupAssumption, SetupInv, NEW d \in Device,
           Setup!SpaceGate(d) \/ Setup!CleanGate(d)
    PROVE  SetupInv'
  <1>1. CASE Setup!SpaceGate(d)
    <2>1. SetupPlaceAt(d, "gate", Setup!op(d))
      BY <1>1, SetupAtDevice DEF Setup!SpaceGate
    <2>2. SetupPlaceAt(d, "create_space", Setup!op(d)) /\ "create_space" \in SetupPlaces
      BY <2>1 DEF SetupPlaceAt, SetupPlaces
    <2> QED BY <1>1, <2>2, SetupFreshGateKeeps DEF Setup!SpaceGate
  <1>2. CASE Setup!CleanGate(d)
    <2>1. SetupPlaceAt(d, "clean", Setup!op(d))
      BY <1>2, SetupAtDevice DEF Setup!CleanGate
    <2>2. SetupPlaceAt(d, "unstage", Setup!op(d)) /\ "unstage" \in SetupPlaces
      BY <2>1 DEF SetupPlaceAt, SetupPlaces
    <2> QED BY <1>2, <2>2, SetupFreshGateKeeps DEF Setup!CleanGate
  <1> QED BY <1>1, <1>2

LEMMA SetupFinishKeeps ==
    ASSUME Setup!SetupAssumption, SetupInv, NEW d \in Device, Setup!Finish(d)
    PROVE  SetupInv'
  <1>1. /\ setupMem[d] \in SetupRecords /\ SetupStateOK(d, setupMem[d])
        /\ setupSeen[d] => setupChain.future
    BY SetupAtDevice
  <1>2. /\ setupSaveBlocked' \in [Device -> BOOLEAN] /\ setupSeen' \in [Device -> BOOLEAN]
        /\ setupShown' \in BOOLEAN /\ setupFaults \in 0..MaxSetupFaults
        /\ UNCHANGED <<Setup!relay, setupKeychain, setupSeen>>
        /\ setupPc' = [setupPc EXCEPT ![d] = "idle"]
    BY SetupTypes DEF SetupInv, Setup!Finish, Setup!Return
  <1>3. CASE Setup!Fault /\ UNCHANGED <<setupMem, setupDisk>>
    BY <1>2, <1>3, SetupFaultType, SetupReturns DEF Setup!Finish
  <1>4. CASE /\ Setup!Persist(d, [setupMem[d] EXCEPT !.op = Setup!NoOp, !.blocked = FALSE])
             /\ UNCHANGED setupFaults
    <2>1. PICK st : st = [setupMem[d] EXCEPT !.op = Setup!NoOp, !.blocked = FALSE]
      OBVIOUS
    <2>2. /\ st \in SetupRecords /\ st.op = Setup!NoOp /\ st.rows = setupMem[d].rows
          /\ st.dirty = setupMem[d].dirty /\ st.joined = setupMem[d].joined
      BY <1>1, <2>1 DEF SetupRecords
    <2>3. SetupStateOK(d, st) /\ SetupPlaceAt(d, "idle", st.op) /\ "idle" \in SetupPlaces
      BY <1>1, <2>2 DEF SetupStateOK, SetupPlaceAt, SetupPlaces
    <2>4. Setup!Persist(d, st) /\ setupFaults' \in 0..MaxSetupFaults
      BY <1>2, <1>4, <2>1
    <2> QED BY <1>1, <1>2, <2>2, <2>3, <2>4, SetupPersists
  <1> QED BY <1>3, <1>4 DEF Setup!Finish

LEMMA SetupCrashKeeps ==
    ASSUME Setup!SetupAssumption, SetupInv, NEW d \in Device, Setup!Crash(d)
    PROVE  SetupInv'
  <1>1. PICK k : k = setupDisk[d]
    OBVIOUS
  <1>2. /\ k \in SetupRecords /\ SetupStateOK(d, k) /\ (setupSeen[d] => setupChain.future)
        /\ setupDisk = [setupDisk EXCEPT ![d] = k]
    BY <1>1, SetupAtDevice
  <1>3. /\ setupSeen \in [Device -> BOOLEAN] /\ setupSaveBlocked \in [Device -> BOOLEAN]
        /\ setupShown \in BOOLEAN /\ setupFaults' \in 0..MaxSetupFaults
    BY SetupTypes, SetupFaultType DEF SetupInv, Setup!Crash
  <1>4. /\ setupSeen' \in [Device -> BOOLEAN] /\ (setupSeen'[d] => setupSeen[d])
        /\ \A e \in Device \ {d} : setupSeen'[e] = setupSeen[e]
    BY <1>3 DEF Setup!Crash
  <1>5. setupSaveBlocked' \in [Device -> BOOLEAN]
    BY <1>3 DEF Setup!Crash
  <1>6. SetupPlaceAt(d, "idle", k.op) /\ "idle" \in SetupPlaces
    BY DEF SetupPlaceAt, SetupPlaces
  <1>7. /\ setupMem' = [setupMem EXCEPT ![d] = k] /\ setupDisk' = [setupDisk EXCEPT ![d] = k]
        /\ setupPc' = [setupPc EXCEPT ![d] = "idle"] /\ setupShown' = setupShown
        /\ UNCHANGED <<Setup!relay, setupKeychain>>
    BY <1>1, <1>2 DEF Setup!Crash
  <1> QED BY <1>2, <1>3, <1>4, <1>5, <1>6, <1>7, SetupQuiet

(* What other devices do to the account. *)
LEMMA SetupOthersKeep ==
    ASSUME Setup!SetupAssumption, SetupInv, Setup!FreezeAccount \/ Setup!RaiseFormat
    PROVE  SetupInv'
  <1>1. PICK d \in Device : d = Creator
    BY DEF Setup!SetupAssumption
  <1>2. PICK m, k, at : m = setupMem[d] /\ k = setupDisk[d] /\ at = setupPc[d]
    OBVIOUS
  <1>3. /\ m \in SetupRecords /\ k \in SetupRecords /\ SetupStateOK(d, m) /\ SetupStateOK(d, k)
        /\ m.joined = k.joined /\ setupMem = [setupMem EXCEPT ![d] = m]
        /\ setupDisk = [setupDisk EXCEPT ![d] = k]
        /\ SetupPlaceAt(d, at, m.op)
        /\ setupSeen[d] => setupChain.future /\ at \in {"idle", "prove", "gate", "clean"}
        /\ at # "idle" => m.op # Setup!NoOp /\ k = m
    BY <1>2, SetupAtDevice, SetupOpFields DEF Setup!op
  <1>4. /\ setupChain \in SetupChains
        /\ SetupChainOK /\ setupPc \in [Device -> SetupPlaces]
        /\ UNCHANGED <<setupSpaces, setupNet, Setup!local, setupKeychain, setupShown,
                        setupPc, setupSeen, setupFaults>>
    BY SetupTypes DEF SetupInv, Setup!FreezeAccount, Setup!RaiseFormat
  <1>5. /\ setupChain' \in SetupChains
        /\ setupChain'.rows = setupChain.rows /\ setupChain'.exists = setupChain.exists
        /\ (setupChain.future => setupChain'.future) /\ Setup!Meta \in setupChain.rows
    BY <1>4 DEF Setup!FreezeAccount, Setup!RaiseFormat, SetupChains
  <1> (SetupMetaSent' <=> SetupMetaSent) /\ setupNet' \subseteq SUBSET Setup!Row
    BY <1>4, <1>5, SetupTypes DEF SetupMetaSent, SetupInv
  <1>6. SetupGrows /\ SetupChainOK'
    BY <1>4, <1>5 DEF SetupGrows, SetupChainOK
  <1>7. SetupStateOK(d, m)' /\ SetupStateOK(d, k)'
    BY <1>3, <1>5, <1>6, SetupStateKept
  <1>8. PICK o : o = m.op
    OBVIOUS
  <1>9. SetupPlaceAt(d, at, o)'
    BY <1>3, <1>4, <1>6, <1>8, SetupPlaceKept
  <1>10. /\ setupMem' = [setupMem EXCEPT ![d] = m] /\ setupDisk' = [setupDisk EXCEPT ![d] = k]
         /\ setupPc' = [setupPc EXCEPT ![d] = at] /\ at \in SetupPlaces
    BY <1>2, <1>3, <1>4 DEF Setup!local
  <1>11. /\ setupSaveBlocked' \in [Device -> BOOLEAN] /\ setupSeen' \in [Device -> BOOLEAN]
         /\ setupKeychain' \in [Device -> SetupCodes] /\ setupSpaces' \subseteq SetupSpace
         /\ setupShown' \in BOOLEAN /\ setupFaults' \in 0..MaxSetupFaults
    BY <1>4, SetupTypes DEF SetupInv, Setup!local
  <1> QED BY <1>1, <1>3, <1>4, <1>5, <1>6, <1>7, <1>8, <1>9, <1>10, <1>11, SetupDeviceStep

-----------------------------------------------------------------------------
LEMMA SetupInitOK ==
    ASSUME Setup!SetupAssumption, Setup!Init
    PROVE  SetupInv
  <1>1. /\ Setup!Fresh \in SetupRecords /\ Setup!Fresh.op = Setup!NoOp /\ Setup!Fresh.rows = {}
        /\ Setup!Fresh.dirty = {} /\ ~Setup!Fresh.joined
    BY DEF Setup!Fresh, SetupRecords
  <1>2. \A d \in Device :
           /\ setupMem[d] = Setup!Fresh /\ setupDisk[d] = Setup!Fresh
           /\ setupPc[d] = "idle" /\ ~setupSeen[d]
    BY DEF Setup!Init
  <1>3. Setup!TypeOK
    <2>1. setupMem \in [Device -> SetupRecords] /\ setupDisk \in [Device -> SetupRecords]
      BY <1>1 DEF Setup!Init
    <2>2. /\ setupChain \in SetupChains
          /\ setupSpaces \subseteq SetupSpace /\ setupNet \subseteq SUBSET Setup!Row
      BY DEF Setup!Init, SetupChains
    <2>3. /\ setupSaveBlocked \in [Device -> BOOLEAN] /\ setupSeen \in [Device -> BOOLEAN]
          /\ setupShown \in BOOLEAN
      BY DEF Setup!Init
    <2>4. setupKeychain \in [Device -> [mnemonic : BOOLEAN, staged : BOOLEAN]]
      BY DEF Setup!Init
    <2>5. setupFaults \in 0..MaxSetupFaults
      BY DEF Setup!Init, Setup!SetupAssumption
    <2> QED BY <1>2, <2>1, <2>2, <2>3, <2>4, <2>5 DEF Setup!TypeOK, SetupRecords, SetupChains
  <1>4. setupPc \in [Device -> SetupPlaces]
    BY DEF Setup!Init, SetupPlaces
  <1>5. SetupChainOK
    BY DEF SetupChainOK, Setup!Init, SetupMetaSent
  <1>6. ASSUME NEW d \in Device PROVE SetupDeviceOK(d)
    <2>1. SetupStateOK(d, Setup!Fresh)
      BY <1>1 DEF SetupStateOK
    <2>2. SetupPlaceAt(d, "idle", Setup!Fresh.op)
      BY DEF SetupPlaceAt, SetupPlaces
    <2> QED BY <1>2, <2>1, <2>2 DEF SetupDeviceOK, SetupSeenOK
  <1> QED BY <1>3, <1>4, <1>5, <1>6 DEF SetupInv

LEMMA SetupNextOK ==
    ASSUME Setup!SetupAssumption, SetupInv, [Setup!Next]_(Setup!vars)
    PROVE  SetupInv'
  <1>1. ASSUME NEW d \in Device, Setup!Step(d) PROVE SetupInv'
    BY <1>1, SetupTargetPullKeeps, SetupStageCodeKeeps, SetupCreateChainKeeps, SetupGatesKeep,
       SetupCreateSpaceChainKeeps, SetupPushKeeps, SetupPushNothingKeeps, SetupPushFrozenKeeps,
       SetupReadyKeeps,
       SetupPromoteCodeKeeps, SetupActivateKeeps, SetupUnstageKeeps,
       SetupFinishKeeps DEF Setup!Step
  <1>2. ASSUME NEW d \in Device, Setup!StepFails(d) PROVE SetupInv'
    <2>1. setupSaveBlocked' \in [Device -> BOOLEAN] /\ setupFaults' \in 0..MaxSetupFaults
      BY <1>2, SetupFaultType, SetupTypes DEF Setup!StepFails, SetupInv, Setup!local
    <2> QED BY <1>2, <2>1, SetupReturns DEF Setup!StepFails, Setup!local
  <1>3. CASE UNCHANGED Setup!vars
    BY <1>3 DEF Setup!vars, SetupInv, Setup!TypeOK, SetupChainOK, SetupDeviceOK, SetupStateOK,
       SetupOpOK, SetupPlaceAt, SetupSeenOK, SetupMetaSent,
                Setup!Pending, Setup!op
  <1>4. CASE Setup!Next
    BY <1>1, <1>2, <1>4, SetupCreateAccountKeeps, SetupJoinAccountKeeps, SetupResumeKeeps,
       SetupCreateSpaceKeeps,
       SetupPushFailsKeeps, SetupCrashKeeps, SetupLateDeliveryKeeps, SetupOthersKeep DEF Setup!Next
  <1> QED BY <1>3, <1>4

(* An account that exists can be opened, a device is in it only once it is *)
(* listed there and what it does not mean to upload is on the relay, and a *)
(* space that the account lists has a chain, for any devices and spaces    *)
(* and whichever step of create_account(), join_account() or               *)
(* create_space() a failure or a crash follows.                            *)
THEOREM SettingUp ==
    ASSUME Setup!SetupAssumption
    PROVE  Setup!Spec => [](/\ Setup!TypeOK /\ Setup!AccountReachable
                            /\ Setup!JoinedMeansPublished /\ Setup!ListedSpaceExists)
  <1>1. Setup!Init => SetupInv
    BY SetupInitOK
  <1>2. SetupInv /\ [Setup!Next]_(Setup!vars) => SetupInv'
    BY SetupNextOK
  <1>3. SetupInv => /\ Setup!TypeOK /\ Setup!AccountReachable
                    /\ Setup!JoinedMeansPublished /\ Setup!ListedSpaceExists
    <2> SUFFICES ASSUME SetupInv
                 PROVE  /\ Setup!TypeOK /\ Setup!AccountReachable /\ Setup!JoinedMeansPublished
                        /\ Setup!ListedSpaceExists
      OBVIOUS
    <2>1. Setup!TypeOK /\ Setup!ListedSpaceExists
      BY DEF SetupInv, SetupChainOK, Setup!ListedSpaceExists
    <2>2. \A d \in Device :
             /\ SetupStateOK(d, setupMem[d]) /\ SetupStateOK(d, setupDisk[d])
             /\ Setup!op(d) # Setup!NoOp => SetupOpOK(d, Setup!op(d))
      BY SetupAtDevice
    <2>3. Setup!AccountReachable
      BY <2>2 DEF SetupInv, SetupChainOK, Setup!AccountReachable, SetupStateOK
    <2>4. Setup!JoinedMeansPublished
      BY <2>2 DEF Setup!JoinedMeansPublished, SetupStateOK, SetupOpOK, Setup!Pending
    <2> QED BY <2>1, <2>3, <2>4
  <1> QED BY <1>1, <1>2, <1>3, PTL DEF Setup!Spec

(* A device that has seen a newer format is not at a step that writes. *)
LEMMA SetupFutureStep ==
    ASSUME Setup!SetupAssumption, SetupInv, [Setup!Next]_(Setup!vars), NEW d \in Device,
           setupSeen[d]
    PROVE  /\ setupKeychain'[d].mnemonic = setupKeychain[d].mnemonic
           /\ setupMem'[d].joined = setupMem[d].joined
           /\ setupPc[d] \in {"push", "create", "create_space"} => UNCHANGED Setup!relay
  <1>1. /\ setupPc[d] \in {"idle", "prove", "gate", "clean"}
        /\ setupMem[d].joined = setupDisk[d].joined
        /\ setupMem[d] \in SetupRecords /\ (Setup!op(d) # Setup!NoOp => Setup!op(d) \in Setup!Op)
    BY SetupAtDevice
  <1>2. setupMem \in [Device -> SetupRecords] /\ setupKeychain \in [Device -> SetupCodes]
    BY SetupTypes DEF SetupInv
  <1>3. CASE UNCHANGED Setup!vars
    BY <1>1, <1>3 DEF Setup!vars
  <1>4. ASSUME NEW e \in Device, e # d,
               \/ Setup!CreateAccount(e) \/ Setup!JoinAccount(e) \/ Setup!Resume(e) \/ Setup!Step(e)
               \/ \E s \in SetupSpace : Setup!CreateSpace(e, s)
               \/ Setup!PushFails(e) \/ Setup!StepFails(e) \/ Setup!Crash(e)
        PROVE  setupMem'[d] = setupMem[d] /\ setupKeychain'[d] = setupKeychain[d]
    <2>1. CASE Setup!TargetPull(e)
      BY <1>2, <1>4, <2>1 DEF Setup!TargetPull, Setup!Saved, Setup!Persist, Setup!ObserveGate
    <2>2. CASE Setup!Push(e) \/ Setup!PushFrozen(e) \/ Setup!PushFails(e)
      BY <1>2, <1>4, <2>2 DEF Setup!Push, Setup!PushFrozen, Setup!PushFails, Setup!Persist,
         Setup!ObserveGate
    <2>3. CASE Setup!CreateChain(e) \/ Setup!CreateSpaceChain(e) \/ Setup!SpaceGate(e)
               \/ Setup!CleanGate(e)
      BY <1>2, <1>4, <2>3 DEF Setup!CreateChain, Setup!CreateSpaceChain, Setup!SpaceGate,
         Setup!CleanGate, Setup!FreshGate, Setup!Replaced, Setup!Persist
    <2>4. CASE Setup!CreateAccount(e) \/ Setup!JoinAccount(e) \/ Setup!Resume(e)
               \/ Setup!Crash(e) \/ Setup!StepFails(e)
      BY <1>2, <1>4, <2>4 DEF Setup!CreateAccount, Setup!JoinAccount, Setup!Resume,
         Setup!Crash, Setup!StepFails, Setup!Saved, Setup!Persist, Setup!local
    <2>5. CASE \E s \in SetupSpace : Setup!CreateSpace(e, s)
      BY <1>2, <1>4, <2>5 DEF Setup!CreateSpace, Setup!Persist
    <2>6. CASE Setup!StageCode(e) \/ Setup!PromoteCode(e) \/ Setup!Unstage(e)
               \/ Setup!PushNothing(e)
      BY <1>2, <1>4, <2>6 DEF Setup!StageCode, Setup!PromoteCode, Setup!Unstage,
         Setup!PushNothing, Setup!local
    <2>7. CASE Setup!Ready(e) \/ Setup!Activate(e) \/ Setup!Finish(e)
      BY <1>2, <1>4, <2>7 DEF Setup!Ready, Setup!Activate, Setup!Finish, Setup!Saved,
         Setup!Persist
    <2> QED BY <1>4, <2>1, <2>2, <2>3, <2>4, <2>5, <2>6, <2>7 DEF Setup!Step
  <1>5. ASSUME \/ Setup!CreateAccount(d) \/ Setup!JoinAccount(d) \/ Setup!Resume(d) \/ Setup!Step(d)
               \/ \E s \in SetupSpace : Setup!CreateSpace(d, s)
               \/ Setup!PushFails(d) \/ Setup!StepFails(d) \/ Setup!Crash(d)
        PROVE  setupMem'[d].joined = setupMem[d].joined /\ setupKeychain'[d] = setupKeychain[d]
    <2>1. CASE Setup!TargetPull(d)
      <3>1. PICK o, p, m : /\ o = Setup!MergedOp(d) /\ m = setupMem[d]
                           /\ p = [Setup!op(d) EXCEPT !.future = (Setup!GateOf(d) = "future")]
        OBVIOUS
      <3>2. /\ Setup!WithOp(d, o).joined = setupMem[d].joined
            /\ [m EXCEPT !.op = p, !.blocked = @ \/ m.joined].joined = setupMem[d].joined
            /\ [m EXCEPT !.blocked = TRUE].joined = setupMem[d].joined
        <4>1. m \in SetupRecords /\ Setup!WithOp(d, o) = [m EXCEPT !.op = o]
          BY <1>2, <3>1 DEF Setup!WithOp
        <4> QED BY <3>1, <4>1 DEF SetupRecords
      <3>3. /\ setupKeychain' = setupKeychain
            /\ \/ setupMem'[d] \in {Setup!WithOp(d, o), setupMem[d]}
               \/ setupMem'[d] \in {[m EXCEPT !.op = p, !.blocked = @ \/ m.joined],
                                    [m EXCEPT !.blocked = TRUE]}
        BY <1>2, <2>1, <3>1 DEF Setup!TargetPull, Setup!Saved, Setup!Persist, Setup!ObserveGate
      <3> QED BY <3>2, <3>3
    <2>2. CASE Setup!SpaceGate(d) \/ Setup!CleanGate(d)
      BY <1>1, <1>2, <2>2 DEF Setup!SpaceGate, Setup!CleanGate, Setup!FreshGate, Setup!Persist,
         SetupRecords
    <2>3. CASE Setup!Resume(d) \/ Setup!StepFails(d)
      BY <1>1, <1>2, <2>3 DEF Setup!Resume, Setup!Saved, Setup!Persist, Setup!StepFails,
         Setup!local
    <2>4. CASE Setup!Crash(d)
      BY <1>1, <1>2, <2>4 DEF Setup!Crash
    <2>5. CASE Setup!CreateAccount(d) \/ Setup!JoinAccount(d)
      BY <1>1, <1>2, <2>5 DEF Setup!CreateAccount, Setup!JoinAccount, Setup!Persist,
         Setup!WithOp, SetupRecords
    <2>6. CASE \E s \in SetupSpace : Setup!CreateSpace(d, s)
      <3>1. PICK s \in SetupSpace : Setup!CreateSpace(d, s)
        BY <2>6
      <3> QED BY <1>1, <1>2, <3>1 DEF Setup!CreateSpace, Setup!Persist, SetupRecords
    <2> QED BY <1>1, <1>5, <2>1, <2>2, <2>3, <2>4, <2>5, <2>6 DEF Setup!Step, Setup!StageCode,
               Setup!CreateChain,
               Setup!CreateSpaceChain, Setup!Push, Setup!PushNothing, Setup!PushFrozen,
               Setup!Ready, Setup!PromoteCode, Setup!Activate,
               Setup!Unstage, Setup!Finish, Setup!PushFails
  <1>6. CASE Setup!LateDelivery \/ Setup!FreezeAccount \/ Setup!RaiseFormat
    BY <1>1, <1>6 DEF Setup!LateDelivery, Setup!FreezeAccount, Setup!RaiseFormat, Setup!local
  <1> QED BY <1>1, <1>3, <1>4, <1>5, <1>6 DEF Setup!Next

(* Once a device has authenticated a newer format, no later step of its    *)
(* set-up writes to the relay, to its current code or to its account.      *)
THEOREM SetupStops ==
    ASSUME Setup!SetupAssumption
    PROVE  Setup!Spec => Setup!FutureStopsSetup
  <1>1. Setup!Init => SetupInv
    BY SetupInitOK
  <1>2. SetupInv /\ [Setup!Next]_(Setup!vars) => SetupInv'
    BY SetupNextOK
  <1>3. SetupInv /\ [Setup!Next]_(Setup!vars) =>
          [\A d \in Device :
              setupSeen[d] => /\ setupKeychain'[d].mnemonic = setupKeychain[d].mnemonic
                              /\ setupMem'[d].joined = setupMem[d].joined
                              /\ setupPc[d] \in {"push", "create", "create_space"} =>
                                    UNCHANGED Setup!relay]_(Setup!vars)
    BY SetupFutureStep
  <1> QED BY <1>1, <1>2, <1>3, PTL DEF Setup!Spec, Setup!FutureStopsSetup

(* Both together, the property the run checks for two devices: an account  *)
(* that is being set up can always be opened and never contradicts itself, *)
(* and a newer format stops the set-up.                                    *)
THEOREM SetupHolds ==
    ASSUME Setup!SetupAssumption
    PROVE  Setup!Spec => SetupConsistent
  BY SettingUp, SetupStops, PTL DEF SetupConsistent

-----------------------------------------------------------------------------
(***************************************************************************)
(* Migrating to the account (Migration), by any number of devices.  A      *)
(* journal covers the old rows of its plan (MigJournalAt), MigPlaceAt says *)
(* what each place of execute() relies on, and a profile that was switched *)
(* has no preview that is still up to date (MigProfileAt).  As before, all *)
(* of it is stable under what other devices and clients do (MigGrows).     *)
(***************************************************************************)
MigMetas == [schema : 2..Migrate!AccountSchema, gate : {"none", "gated", "active"}, seq : Nat]
MigReads == [seq : Nat, local : Nat, generation : Nat, original : BOOLEAN, tries : Nat]
MigJournals(d) ==
    [phase : {"prepared", "gated", "publishing", "active"}, items : SUBSET Selected[d],
     digests : [Selected[d] -> Nat], source : Nat, generation : Nat,
     backup : BOOLEAN, staged : BOOLEAN]

MigPublished == {"baseline", "finish", "finish_push", "final", "rebase", "commit", "record"}
MigSwitching == {"final", "rebase", "commit", "record"}
MigPlaces ==
    {"idle", "backup", "stage", "verify", "gate", "gate_push", "publish", "push"} \cup MigPublished

(* A journal covers the old rows of its plan: each is still an item or has *)
(* its new row.                                                            *)
MigJournalAt(d, j) ==
    j # Migrate!NoJournal =>
        /\ j \in MigJournals(d)
        /\ \A h \in Selected[d] : j.digests[h] > 0 => migTyped[h] > 0 \/ h \in j.items

(* What each place of execute() relies on.  The metadata that a push is    *)
(* based on is what was read, or the push conflicts; so does a commit.     *)
MigPlaceAt(d, at, j, s) ==
    /\ at # "idle" => j.phase \notin {"none", "active"}
    /\ at \notin {"idle", "backup"} => j.backup
    /\ at \in MigPublished => j.items = {}
    /\ at \in MigSwitching => migMeta.gate = "active"
    /\ at \in {"gate_push", "finish_push"} =>
          /\ s.seq <= migMeta.seq
          /\ s.seq = migMeta.seq => migMeta.schema <= 3 /\ migMeta.gate # "active"
    /\ at = "commit" =>
          /\ s.generation <= migGeneration[d]
          /\ s.generation = migGeneration[d] => s.local = migLocal[d]

(* A profile that was switched stays so: no preview of it is up to date.   *)
MigProfileAt(d, at, j) ==
    /\ migPreview[d] # Migrate!NoPreview =>
          migPreview[d].generation \in Nat /\ migPreview[d].generation <= migGeneration[d]
    /\ migState[d] = "records" =>
          /\ migMeta.gate = "active" /\ at \in {"idle", "record"}
          /\ j # Migrate!NoJournal /\ j.backup /\ j.items = {}
          /\ migPreview[d] # Migrate!NoPreview => migPreview[d].generation < migGeneration[d]

MigDeviceOK(d) ==
    /\ MigJournalAt(d, migJournal[d]) /\ MigPlaceAt(d, migPc[d], migJournal[d], migSeen[d])
    /\ MigProfileAt(d, migPc[d], migJournal[d])

MigTypes ==
    /\ migMeta \in MigMetas /\ migLegacy \in [Host -> Nat] /\ migTyped \in [Host -> Nat]
    /\ migState \in [Device -> {"legacy", "join", "records"}]
    /\ migLocal \in [Device -> Nat] /\ migGeneration \in [Device -> Nat \ {0}]
    /\ migPreview = [d \in Device |-> migPreview[d]] /\ migJournal = [d \in Device |-> migJournal[d]]
    /\ migPc \in [Device -> MigPlaces] /\ migSeen \in [Device -> MigReads] /\ migOwed \subseteq Host

MigInv ==
    /\ MigTypes
    /\ \A h \in migOwed : migTyped[h] > 0
    /\ \A d \in Device : MigDeviceOK(d)

-----------------------------------------------------------------------------
(* The relay moves forward: rows stay, an active account stays active, and *)
(* whoever writes the metadata takes a new sequence number.                *)
MigGrows ==
    /\ \A h \in Host : migTyped[h] > 0 => migTyped'[h] > 0
    /\ migMeta.gate = "active" => migMeta'.gate = "active"
    /\ migMeta.seq <= migMeta'.seq
    /\ migMeta'.seq = migMeta.seq => migMeta' = migMeta

MigSame(e) ==
    /\ migJournal'[e] = migJournal[e] /\ migPc'[e] = migPc[e] /\ migSeen'[e] = migSeen[e]
    /\ migState'[e] = migState[e]
    /\ migLocal'[e] = migLocal[e] /\ migGeneration'[e] = migGeneration[e]
    /\ migPreview'[e] = migPreview[e]

LEMMA MigJournalKept ==
    ASSUME Migrate!MigrationAssumption, NEW d \in Device, NEW j, MigJournalAt(d, j), MigGrows
    PROVE  MigJournalAt(d, j)'
  BY DEF MigJournalAt, MigGrows, Migrate!MigrationAssumption

LEMMA MigPlaceKept ==
    ASSUME NEW d \in Device, NEW at, NEW j, NEW s, s.seq \in Nat, migMeta \in MigMetas,
           migMeta' \in MigMetas,
           MigPlaceAt(d, at, j, s), MigGrows, migGeneration'[d] = migGeneration[d],
           migLocal'[d] = migLocal[d]
    PROVE  MigPlaceAt(d, at, j, s)'
  <1>1. migMeta.seq \in Nat /\ migMeta'.seq \in Nat
    BY DEF MigMetas
  <1>2. s.seq <= migMeta.seq => s.seq <= migMeta'.seq /\ (s.seq = migMeta'.seq => migMeta' = migMeta)
    BY <1>1 DEF MigGrows
  <1>3. at \in {"gate_push", "finish_push"} =>
          /\ s.seq <= migMeta'.seq
          /\ s.seq = migMeta'.seq => migMeta'.schema <= 3 /\ migMeta'.gate # "active"
    BY <1>1, <1>2 DEF MigPlaceAt
  <1>4. at \in MigSwitching => migMeta'.gate = "active"
    BY DEF MigPlaceAt, MigGrows
  <1> QED BY <1>3, <1>4 DEF MigPlaceAt

LEMMA MigProfileKept ==
    ASSUME NEW d \in Device, NEW at, NEW j, MigProfileAt(d, at, j), MigGrows,
           migGeneration'[d] = migGeneration[d], migState'[d] = migState[d],
           migPreview'[d] = migPreview[d]
    PROVE  MigProfileAt(d, at, j)'
  BY DEF MigProfileAt, MigGrows

LEMMA MigOthersKept ==
    ASSUME Migrate!MigrationAssumption, MigInv, NEW e \in Device, MigSame(e), MigGrows,
           migMeta' \in MigMetas
    PROVE  MigDeviceOK(e)'
  <1>1. PICK j, at, s : j = migJournal[e] /\ at = migPc[e] /\ s = migSeen[e]
    OBVIOUS
  <1>2. /\ MigJournalAt(e, j) /\ MigPlaceAt(e, at, j, s) /\ MigProfileAt(e, at, j)
        /\ s.seq \in Nat
        /\ migMeta \in MigMetas
    BY <1>1 DEF MigInv, MigDeviceOK, MigTypes, MigReads
  <1>3. MigJournalAt(e, j)' /\ MigPlaceAt(e, at, j, s)' /\ MigProfileAt(e, at, j)'
    BY <1>2, MigJournalKept, MigPlaceKept, MigProfileKept DEF MigSame
  <1> QED BY <1>1, <1>3 DEF MigDeviceOK, MigSame

(* A step of one device. *)
LEMMA MigDeviceStep ==
    ASSUME Migrate!MigrationAssumption, MigInv, NEW d \in Device, MigTypes', MigGrows,
           \A h \in migOwed' : migTyped'[h] > 0, \A e \in Device \ {d} : MigSame(e), MigDeviceOK(d)'
    PROVE  MigInv'
  <1>1. migMeta' \in MigMetas
    BY DEF MigTypes
  <1>2. \A e \in Device \ {d} : MigDeviceOK(e)'
    BY <1>1, MigOthersKept
  <1> QED BY <1>2 DEF MigInv

LEMMA Updated ==
    ASSUME NEW D, NEW f, f = [x \in D |-> f[x]], NEW d \in D, NEW v
    PROVE  /\ [f EXCEPT ![d] = v] = [x \in D |-> [f EXCEPT ![d] = v][x]]
           /\ [f EXCEPT ![d] = v][d] = v
           /\ \A e \in D \ {d} : [f EXCEPT ![d] = v][e] = f[e]
  OBVIOUS

(* A step of one device that leaves its profile alone. *)
LEMMA MigMoves ==
    ASSUME Migrate!MigrationAssumption, MigInv, NEW d \in Device, NEW j, NEW at \in MigPlaces,
           NEW s \in MigReads,
           migJournal' = [migJournal EXCEPT ![d] = j], migPc' = [migPc EXCEPT ![d] = at],
           migSeen' = [migSeen EXCEPT ![d] = s], UNCHANGED <<Migrate!profile, migLegacy>>,
           migPreview' = [e \in Device |-> migPreview'[e]],
           \A e \in Device \ {d} : migPreview'[e] = migPreview[e],
           migMeta' \in MigMetas, migTyped' \in [Host -> Nat], migOwed' \subseteq Host,
           \A h \in migOwed' : migTyped'[h] > 0, MigGrows,
           MigJournalAt(d, j)', MigPlaceAt(d, at, j, s)', MigProfileAt(d, at, j)'
    PROVE  MigInv'
  <1>1. MigTypes
    BY DEF MigInv
  <1>2. /\ migJournal' = [e \in Device |-> migJournal'[e]] /\ migJournal'[d] = j
        /\ \A e \in Device \ {d} : migJournal'[e] = migJournal[e]
    BY <1>1, Updated DEF MigTypes
  <1>3. /\ migPc' \in [Device -> MigPlaces] /\ migPc'[d] = at /\ migSeen' \in [Device -> MigReads] /\ migSeen'[d] = s
        /\ \A e \in Device \ {d} : migPc'[e] = migPc[e] /\ migSeen'[e] = migSeen[e]
    BY <1>1 DEF MigTypes
  <1>4. /\ migState' = migState /\ migLocal' = migLocal /\ migGeneration' = migGeneration
        /\ migLegacy' = migLegacy
    BY DEF Migrate!profile
  <1>5. MigTypes'
    BY <1>1, <1>2, <1>3, <1>4 DEF MigTypes
  <1>6. MigDeviceOK(d)'
    BY <1>2, <1>3 DEF MigDeviceOK
  <1>7. \A e \in Device \ {d} : MigSame(e)
    BY <1>2, <1>3, <1>4 DEF MigSame
  <1> QED BY <1>5, <1>6, <1>7, MigDeviceStep

(* ... and the relay. *)
LEMMA MigGoes ==
    ASSUME Migrate!MigrationAssumption, MigInv, NEW d \in Device, NEW j, NEW at \in MigPlaces,
           NEW s \in MigReads,
           migJournal' = [migJournal EXCEPT ![d] = j], migPc' = [migPc EXCEPT ![d] = at],
           migSeen' = [migSeen EXCEPT ![d] = s], UNCHANGED <<Migrate!relay, Migrate!profile,
           migPreview, migOwed>>,
           MigJournalAt(d, j), MigPlaceAt(d, at, j, s), MigProfileAt(d, at, j)
    PROVE  MigInv'
  <1>1. /\ migMeta' = migMeta /\ migTyped' = migTyped /\ migLegacy' = migLegacy
        /\ migOwed' = migOwed
        /\ migGeneration' = migGeneration /\ migLocal' = migLocal /\ migState' = migState
        /\ migPreview' = migPreview
    BY DEF Migrate!relay, Migrate!profile
  <1>2. /\ migMeta \in MigMetas /\ migTyped \in [Host -> Nat] /\ migOwed \subseteq Host
        /\ \A h \in migOwed : migTyped[h] > 0
        /\ migPreview = [e \in Device |-> migPreview[e]]
    BY DEF MigInv, MigTypes
  <1>3. MigGrows
    BY <1>1, <1>2 DEF MigGrows, MigMetas
  <1>4. MigJournalAt(d, j)' /\ MigProfileAt(d, at, j)' /\ MigPlaceAt(d, at, j, s)'
    BY <1>1 DEF MigJournalAt, MigProfileAt, MigPlaceAt
  <1> QED BY <1>1, <1>2, <1>3, <1>4, MigMoves

LEMMA MigAtDevice ==
    ASSUME Migrate!MigrationAssumption, MigInv, NEW d \in Device
    PROVE  /\ MigJournalAt(d, migJournal[d])
           /\ MigPlaceAt(d, migPc[d], migJournal[d], migSeen[d])
           /\ MigProfileAt(d, migPc[d], migJournal[d]) /\ MigProfileAt(d, "idle", migJournal[d])
           /\ migSeen[d] \in MigReads /\ migPc[d] \in MigPlaces
           /\ migJournal = [migJournal EXCEPT ![d] = migJournal[d]]
           /\ migPc = [migPc EXCEPT ![d] = migPc[d]]
           /\ migSeen = [migSeen EXCEPT ![d] = migSeen[d]]
           /\ migJournal[d] # Migrate!NoJournal => migJournal[d] \in MigJournals(d)
           /\ migPc[d] # "idle" => migJournal[d] \in MigJournals(d) /\ migJournal[d] # Migrate!NoJournal
           /\ migPc[d] \notin {"idle", "record"} => migState[d] # "records"
  <1>1. MigTypes /\ MigDeviceOK(d)
    BY DEF MigInv
  <1>2. /\ MigJournalAt(d, migJournal[d]) /\ MigPlaceAt(d, migPc[d], migJournal[d], migSeen[d])
        /\ MigProfileAt(d, migPc[d], migJournal[d]) /\ migSeen[d] \in MigReads
        /\ migPc[d] \in MigPlaces
    BY <1>1 DEF MigDeviceOK, MigTypes
  <1>3. /\ migJournal = [migJournal EXCEPT ![d] = migJournal[d]]
        /\ migPc = [migPc EXCEPT ![d] = migPc[d]]
        /\ migSeen = [migSeen EXCEPT ![d] = migSeen[d]]
    BY <1>1 DEF MigTypes
  <1>4. MigProfileAt(d, "idle", migJournal[d]) /\ (migPc[d] \notin {"idle", "record"} => migState[d] # "records")
    BY <1>2 DEF MigProfileAt
  <1>5. migPc[d] # "idle" => migJournal[d] # Migrate!NoJournal
    BY <1>2 DEF MigPlaceAt, Migrate!NoJournal
  <1> QED BY <1>2, <1>3, <1>4, <1>5 DEF MigJournalAt

(* A profile that is not switched may be anywhere. *)
LEMMA MigUnswitched ==
    ASSUME Migrate!MigrationAssumption, MigInv, NEW d \in Device, migState[d] # "records", NEW at,
           NEW j
    PROVE  MigProfileAt(d, at, j)
  BY MigAtDevice DEF MigProfileAt

LEMMA MigIdlePlace ==
    ASSUME NEW d, NEW j, NEW s
    PROVE  MigPlaceAt(d, "idle", j, s) /\ "idle" \in MigPlaces
  BY DEF MigPlaceAt, MigPublished, MigSwitching, MigPlaces

(* The call ends, and nothing else happens. *)
LEMMA MigStops ==
    ASSUME Migrate!MigrationAssumption, MigInv, NEW d \in Device, NEW s \in MigReads,
           Migrate!Goto(d, "idle"),
           migSeen' = [migSeen EXCEPT ![d] = s], UNCHANGED <<Migrate!relay, Migrate!profile,
           migPreview, migJournal, migOwed>>
    PROVE  MigInv'
  <1>1. PICK j : j = migJournal[d]
    OBVIOUS
  <1>2. /\ MigJournalAt(d, j) /\ MigProfileAt(d, "idle", j)
        /\ migJournal' = [migJournal EXCEPT ![d] = j]
    BY <1>1, MigAtDevice
  <1> QED BY <1>2, MigIdlePlace, MigGoes DEF Migrate!Goto

(* The call goes on with the journal as it is. *)
LEMMA MigGoesOn ==
    ASSUME Migrate!MigrationAssumption, MigInv, NEW d \in Device, NEW at \in MigPlaces,
           NEW s \in MigReads,
           migPc[d] \notin {"idle", "record"}, Migrate!Goto(d, at),
           migSeen' = [migSeen EXCEPT ![d] = s],
           UNCHANGED <<Migrate!relay, Migrate!profile, migPreview, migJournal, migOwed>>,
           MigPlaceAt(d, at, migJournal[d], s)
    PROVE  MigInv'
  <1>1. PICK j : j = migJournal[d]
    OBVIOUS
  <1>2. /\ MigJournalAt(d, j) /\ MigProfileAt(d, at, j)
        /\ migJournal' = [migJournal EXCEPT ![d] = j]
        /\ MigPlaceAt(d, at, j, s)
    BY <1>1, MigAtDevice, MigUnswitched
  <1> QED BY <1>2, MigGoes DEF Migrate!Goto

LEMMA MigNothingType == Migrate!NothingRead \in MigReads
  BY DEF Migrate!NothingRead, MigReads

(* A journal in another phase. *)
LEMMA MigJournalPhase ==
    ASSUME NEW d \in Device, NEW j \in MigJournals(d), MigJournalAt(d, j),
           NEW p \in {"prepared", "gated", "publishing", "active"},
           NEW k, k = [j EXCEPT !.phase = p]
    PROVE  /\ k \in MigJournals(d) /\ MigJournalAt(d, k) /\ k # Migrate!NoJournal
           /\ k.phase = p /\ k.backup = j.backup /\ k.items = j.items
  <1>1. j # Migrate!NoJournal
    <2>1. j.phase # Migrate!NoJournal.phase
      BY DEF MigJournals, Migrate!NoJournal
    <2> QED BY <2>1
  <1>2. /\ k \in MigJournals(d) /\ k.phase = p /\ k.backup = j.backup /\ k.items = j.items
        /\ k.digests = j.digests
    BY DEF MigJournals
  <1>3. k # Migrate!NoJournal
    <2>1. k.phase # Migrate!NoJournal.phase
      BY <1>2 DEF Migrate!NoJournal
    <2> QED BY <2>1
  <1>4. MigJournalAt(d, k)
    BY <1>1, <1>2 DEF MigJournalAt
  <1> QED BY <1>2, <1>3, <1>4

-----------------------------------------------------------------------------
LEMMA MigResumeKeeps ==
    ASSUME Migrate!MigrationAssumption, MigInv, NEW d \in Device, Migrate!Resume(d)
    PROVE  MigInv'
  <1>1. /\ migPc[d] = "idle" /\ migJournal[d].phase \notin {"none", "active"}
        /\ UNCHANGED <<Migrate!relay, Migrate!profile, migPreview, migOwed>>
    BY DEF Migrate!Resume, Migrate!Pending
  <1>2. migJournal[d] # Migrate!NoJournal
    BY <1>1 DEF Migrate!NoJournal
  <1>3. /\ migJournal[d] \in MigJournals(d) /\ MigJournalAt(d, migJournal[d])
        /\ migSeen[d] \in MigReads
        /\ MigProfileAt(d, "idle", migJournal[d]) /\ migPc = [migPc EXCEPT ![d] = "idle"]
        /\ migSeen = [migSeen EXCEPT ![d] = migSeen[d]]
        /\ migJournal = [migJournal EXCEPT ![d] = migJournal[d]]
    BY <1>1, <1>2, MigAtDevice
  <1>4. CASE migState[d] = "records"
    <2>1. PICK j, s : j = [migJournal[d] EXCEPT !.phase = "active"] /\ s = migSeen[d]
      OBVIOUS
    <2>2. /\ MigJournalAt(d, j) /\ j.backup = migJournal[d].backup
          /\ j.items = migJournal[d].items
          /\ j # Migrate!NoJournal
      <3>1. PICK q \in MigJournals(d) : q = migJournal[d]
        BY <1>3
      <3>2. MigJournalAt(d, q) /\ j = [q EXCEPT !.phase = "active"]
        BY <1>3, <2>1, <3>1
      <3> QED BY <3>1, <3>2, MigJournalPhase
    <2>3. MigProfileAt(d, "idle", j)
      BY <1>3, <2>2 DEF MigProfileAt
    <2>4. /\ migJournal' = [migJournal EXCEPT ![d] = j] /\ migPc' = [migPc EXCEPT ![d] = "idle"]
          /\ migSeen' = [migSeen EXCEPT ![d] = s] /\ s \in MigReads
      BY <1>3, <1>4, <2>1 DEF Migrate!Resume, Migrate!Update
    <2> QED BY <1>1, <2>2, <2>3, <2>4, MigIdlePlace, MigGoes
  <1>5. CASE migState[d] # "records"
    <2>1. PICK j, s : j = migJournal[d] /\ s = [migSeen[d] EXCEPT !.original = FALSE]
      OBVIOUS
    <2>2. s \in MigReads
      BY <1>3, <2>1 DEF MigReads
    <2>3. /\ migJournal' = [migJournal EXCEPT ![d] = j]
          /\ migPc' = [migPc EXCEPT ![d] = "backup"]
          /\ migSeen' = [migSeen EXCEPT ![d] = s]
      BY <1>3, <1>5, <2>1 DEF Migrate!Resume, Migrate!Goto
    <2>4. MigPlaceAt(d, "backup", j, s) /\ "backup" \in MigPlaces
      BY <1>1, <2>1 DEF MigPlaceAt, MigPublished, MigSwitching, MigPlaces
    <2>5. MigProfileAt(d, "backup", j) /\ MigJournalAt(d, j)
      BY <1>3, <1>5, <2>1, MigUnswitched
    <2> QED BY <1>1, <2>2, <2>3, <2>4, <2>5, MigGoes
  <1> QED BY <1>4, <1>5

LEMMA MigBackUpKeeps ==
    ASSUME Migrate!MigrationAssumption, MigInv, NEW d \in Device, Migrate!BackUp(d)
    PROVE  MigInv'
  <1>1. /\ migPc[d] = "backup"
        /\ UNCHANGED <<Migrate!relay, Migrate!profile, migPreview, migOwed>>
        /\ migSeen' = [migSeen EXCEPT ![d] = Migrate!NothingRead]
    BY DEF Migrate!BackUp, Migrate!Forget
  <1>2. /\ migJournal[d] \in MigJournals(d) /\ migJournal[d] # Migrate!NoJournal
        /\ MigJournalAt(d, migJournal[d])
        /\ migState[d] # "records" /\ MigPlaceAt(d, "backup", migJournal[d], migSeen[d])
    BY <1>1, MigAtDevice
  <1>3. CASE Migrate!Goto(d, "idle") /\ UNCHANGED migJournal
    BY <1>1, <1>3, MigNothingType, MigStops
  <1>4. CASE Migrate!Update(d, [migJournal[d] EXCEPT !.backup = TRUE])
             /\ Migrate!Goto(d, "stage")
    <2>1. PICK j : j = [migJournal[d] EXCEPT !.backup = TRUE]
      OBVIOUS
    <2>2. /\ j \in MigJournals(d) /\ j.backup /\ j.phase = migJournal[d].phase
          /\ j.items = migJournal[d].items /\ j.digests = migJournal[d].digests
      BY <1>2, <2>1 DEF MigJournals
    <2>3. MigJournalAt(d, j)
      BY <1>2, <2>2 DEF MigJournalAt
    <2>4. MigPlaceAt(d, "stage", j, Migrate!NothingRead) /\ "stage" \in MigPlaces
      BY <1>2, <2>2 DEF MigPlaceAt, MigPublished, MigSwitching, MigPlaces
    <2>5. migJournal' = [migJournal EXCEPT ![d] = j] /\ migPc' = [migPc EXCEPT ![d] = "stage"]
      BY <1>4, <2>1 DEF Migrate!Update, Migrate!Goto
    <2> QED BY <1>1, <1>2, <2>3, <2>4, <2>5, MigNothingType, MigUnswitched, MigGoes
  <1> QED BY <1>3, <1>4 DEF Migrate!BackUp

LEMMA MigStageCodeKeeps ==
    ASSUME Migrate!MigrationAssumption, MigInv, NEW d \in Device, Migrate!StageCode(d)
    PROVE  MigInv'
  <1>1. /\ migPc[d] = "stage"
        /\ UNCHANGED <<Migrate!relay, Migrate!profile, migPreview, migSeen, migOwed>>
    BY DEF Migrate!StageCode
  <1>2. /\ migJournal[d] \in MigJournals(d) /\ migJournal[d] # Migrate!NoJournal
        /\ MigJournalAt(d, migJournal[d])
        /\ migState[d] # "records" /\ MigPlaceAt(d, "stage", migJournal[d], migSeen[d])
        /\ migSeen[d] \in MigReads /\ migSeen = [migSeen EXCEPT ![d] = migSeen[d]]
    BY <1>1, MigAtDevice
  <1>3. PICK j, s : j = [migJournal[d] EXCEPT !.staged = TRUE] /\ s = migSeen[d]
    OBVIOUS
  <1>4. /\ j \in MigJournals(d) /\ j.backup = migJournal[d].backup
        /\ j.phase = migJournal[d].phase
        /\ j.items = migJournal[d].items /\ j.digests = migJournal[d].digests
    BY <1>2, <1>3 DEF MigJournals
  <1>5. MigJournalAt(d, j)
    BY <1>2, <1>4 DEF MigJournalAt
  <1>6. MigPlaceAt(d, "verify", j, s) /\ "verify" \in MigPlaces
    BY <1>2, <1>4 DEF MigPlaceAt, MigPublished, MigSwitching, MigPlaces
  <1>7. /\ migJournal' = [migJournal EXCEPT ![d] = j] /\ migPc' = [migPc EXCEPT ![d] = "verify"]
        /\ migSeen' = [migSeen EXCEPT ![d] = s]
    BY <1>1, <1>2, <1>3 DEF Migrate!StageCode, Migrate!Update, Migrate!Goto
  <1> QED BY <1>1, <1>2, <1>3, <1>5, <1>6, <1>7, MigUnswitched, MigGoes

LEMMA MigVerifyKeeps ==
    ASSUME Migrate!MigrationAssumption, MigInv, NEW d \in Device, Migrate!Verify(d)
    PROVE  MigInv'
  <1>1. /\ migPc[d] = "verify"
        /\ UNCHANGED <<Migrate!relay, Migrate!profile, migPreview, migJournal, migSeen, migOwed>>
        /\ Migrate!Goto(d, "gate") \/ Migrate!Goto(d, "idle")
    BY DEF Migrate!Verify
  <1>2. PICK s : s = migSeen[d]
    OBVIOUS
  <1>3. s \in MigReads /\ migSeen' = [migSeen EXCEPT ![d] = s]
        /\ MigPlaceAt(d, "verify", migJournal[d], s)
    BY <1>1, <1>2, MigAtDevice
  <1>4. MigPlaceAt(d, "gate", migJournal[d], s) /\ "gate" \in MigPlaces
    BY <1>3 DEF MigPlaceAt, MigPublished, MigSwitching, MigPlaces
  <1> QED BY <1>1, <1>3, <1>4, MigStops, MigGoesOn

LEMMA MigBaselineKeeps ==
    ASSUME Migrate!MigrationAssumption, MigInv, NEW d \in Device,
           Migrate!FirstBaseline(d) \/ Migrate!FinalBaseline(d)
    PROVE  MigInv'
  <1>1. PICK s : s = migSeen[d]
    OBVIOUS
  <1>2. CASE Migrate!FirstBaseline(d)
    <2>1. /\ migPc[d] = "baseline"
          /\ UNCHANGED <<Migrate!relay, Migrate!profile, migPreview, migJournal, migSeen, migOwed>>
          /\ Migrate!Goto(d, "finish") \/ Migrate!Goto(d, "idle")
      BY <1>2 DEF Migrate!FirstBaseline, Migrate!Baseline
    <2>2. s \in MigReads /\ migSeen' = [migSeen EXCEPT ![d] = s]
          /\ MigPlaceAt(d, "baseline", migJournal[d], s)
      BY <1>1, <2>1, MigAtDevice
    <2>3. MigPlaceAt(d, "finish", migJournal[d], s) /\ "finish" \in MigPlaces
      BY <2>2 DEF MigPlaceAt, MigPublished, MigSwitching, MigPlaces
    <2> QED BY <2>1, <2>2, <2>3, MigStops, MigGoesOn
  <1>3. CASE Migrate!FinalBaseline(d)
    <2>1. /\ migPc[d] = "final"
          /\ UNCHANGED <<Migrate!relay, Migrate!profile, migPreview, migJournal, migSeen, migOwed>>
          /\ Migrate!Goto(d, "rebase") \/ Migrate!Goto(d, "idle")
      BY <1>3 DEF Migrate!FinalBaseline, Migrate!Baseline
    <2>2. s \in MigReads /\ migSeen' = [migSeen EXCEPT ![d] = s]
          /\ MigPlaceAt(d, "final", migJournal[d], s)
      BY <1>1, <2>1, MigAtDevice
    <2>3. MigPlaceAt(d, "rebase", migJournal[d], s) /\ "rebase" \in MigPlaces
      BY <2>2 DEF MigPlaceAt, MigPublished, MigSwitching, MigPlaces
    <2> QED BY <2>1, <2>2, <2>3, MigStops, MigGoesOn
  <1> QED BY <1>2, <1>3

LEMMA MigReadGateKeeps ==
    ASSUME Migrate!MigrationAssumption, MigInv, NEW d \in Device, Migrate!ReadGate(d)
    PROVE  MigInv'
  <1>1. /\ migPc[d] = "gate"
        /\ UNCHANGED <<Migrate!relay, Migrate!profile, migPreview, migOwed>>
    BY DEF Migrate!ReadGate
  <1>2. /\ migJournal[d] \in MigJournals(d) /\ migJournal[d] # Migrate!NoJournal
        /\ MigJournalAt(d, migJournal[d])
        /\ migState[d] # "records" /\ MigPlaceAt(d, "gate", migJournal[d], migSeen[d])
        /\ migSeen[d] \in MigReads /\ migSeen = [migSeen EXCEPT ![d] = migSeen[d]]
        /\ migMeta \in MigMetas
    BY <1>1, MigAtDevice DEF MigInv, MigTypes
  <1>3. CASE ~Migrate!Admitted
    <2>1. Migrate!Goto(d, "idle") /\ UNCHANGED <<migJournal, migSeen>>
      BY <1>3 DEF Migrate!ReadGate
    <2>2. PICK s : s = migSeen[d]
      OBVIOUS
    <2> QED BY <1>1, <1>2, <2>1, <2>2, MigStops
  <1>4. CASE Migrate!Admitted /\ migMeta.gate # "none"
    <2>1. PICK p \in {"prepared", "gated", "publishing", "active"} :
             p = IF migMeta.gate = "active" THEN "publishing" ELSE "gated"
      OBVIOUS
    <2>2. PICK j, s : j = [migJournal[d] EXCEPT !.phase = p] /\ s = migSeen[d]
      OBVIOUS
    <2>3. MigJournalAt(d, j) /\ j.backup = migJournal[d].backup /\ j.phase = p
      <3>1. PICK q \in MigJournals(d) : q = migJournal[d]
        BY <1>2
      <3>2. MigJournalAt(d, q) /\ j = [q EXCEPT !.phase = p]
        BY <1>2, <2>2, <3>1
      <3> QED BY <3>1, <3>2, MigJournalPhase
    <2>4. MigPlaceAt(d, "publish", j, s) /\ "publish" \in MigPlaces
      BY <1>2, <2>1, <2>3 DEF MigPlaceAt, MigPublished, MigSwitching, MigPlaces
    <2>5. /\ migJournal' = [migJournal EXCEPT ![d] = j]
          /\ migPc' = [migPc EXCEPT ![d] = "publish"]
          /\ migSeen' = [migSeen EXCEPT ![d] = s] /\ s \in MigReads
      BY <1>2, <1>4, <2>1, <2>2 DEF Migrate!ReadGate, Migrate!Update, Migrate!Goto
    <2> QED BY <1>1, <1>2, <2>3, <2>4, <2>5, MigUnswitched, MigGoes
  <1>5. CASE Migrate!Admitted /\ migMeta.gate = "none"
    <2>1. PICK s : s = [migSeen[d] EXCEPT !.seq = migMeta.seq]
      OBVIOUS
    <2>2. s \in MigReads /\ s.seq = migMeta.seq /\ migMeta.seq \in Nat
      BY <1>2, <2>1 DEF MigReads, MigMetas
    <2>3. MigPlaceAt(d, "gate_push", migJournal[d], s) /\ "gate_push" \in MigPlaces
      BY <1>2, <1>5, <2>2 DEF MigPlaceAt, MigPublished, MigSwitching, MigPlaces, Migrate!Admitted
    <2>4. Migrate!Goto(d, "gate_push") /\ migSeen' = [migSeen EXCEPT ![d] = s]
          /\ UNCHANGED migJournal
      BY <1>2, <1>5, <2>1 DEF Migrate!ReadGate
    <2> QED BY <1>1, <2>2, <2>3, <2>4, MigGoesOn
  <1> QED BY <1>3, <1>4, <1>5

LEMMA MigReadRowsKeeps ==
    ASSUME Migrate!MigrationAssumption, MigInv, NEW d \in Device, Migrate!ReadRows(d)
    PROVE  MigInv'
  <1>1. /\ migPc[d] = "publish"
        /\ UNCHANGED <<Migrate!relay, Migrate!profile, migPreview, migSeen, migOwed>>
    BY DEF Migrate!ReadRows
  <1>2. /\ migJournal[d] \in MigJournals(d) /\ migJournal[d] # Migrate!NoJournal
        /\ MigJournalAt(d, migJournal[d])
        /\ migState[d] # "records" /\ MigPlaceAt(d, "publish", migJournal[d], migSeen[d])
        /\ migSeen[d] \in MigReads /\ migSeen = [migSeen EXCEPT ![d] = migSeen[d]]
        /\ migTyped \in [Host -> Nat]
    BY <1>1, MigAtDevice DEF MigInv, MigTypes
  <1>3. PICK s : s = migSeen[d]
    OBVIOUS
  <1>4. CASE ~Migrate!Admitted
    BY <1>1, <1>2, <1>3, <1>4, MigStops DEF Migrate!ReadRows
  <1>5. CASE Migrate!Admitted
    <2>1. PICK j, x : x = Migrate!Unpublished(d) /\ j = [migJournal[d] EXCEPT !.items = x]
      OBVIOUS
    <2>2. x \subseteq Selected[d] /\ migJournal[d].items \subseteq Selected[d]
      BY <1>2, <2>1 DEF Migrate!Unpublished, MigJournals
    <2>3. /\ j \in MigJournals(d) /\ j.backup = migJournal[d].backup
          /\ j.phase = migJournal[d].phase
          /\ j.items = x /\ j.digests = migJournal[d].digests
      BY <1>2, <2>1, <2>2 DEF MigJournals
    <2>4. MigJournalAt(d, j)
      <3>1. \A h \in Selected[d] : migTyped[h] \in Nat
        BY <1>2 DEF Migrate!MigrationAssumption
      <3> QED BY <1>2, <2>1, <2>3, <3>1 DEF MigJournalAt, Migrate!Unpublished
    <2>5. PICK at : at = IF x = {} THEN "baseline" ELSE "push"
      OBVIOUS
    <2>6. MigPlaceAt(d, at, j, s) /\ at \in MigPlaces
      BY <1>2, <2>3, <2>5 DEF MigPlaceAt, MigPublished, MigSwitching, MigPlaces
    <2>7. /\ migJournal' = [migJournal EXCEPT ![d] = j] /\ migPc' = [migPc EXCEPT ![d] = at]
          /\ migSeen' = [migSeen EXCEPT ![d] = s] /\ s \in MigReads
      BY <1>1, <1>2, <1>3, <1>5, <2>1, <2>5 DEF Migrate!ReadRows, Migrate!Update, Migrate!Goto
    <2> QED BY <1>1, <1>2, <2>4, <2>6, <2>7, MigUnswitched, MigGoes
  <1> QED BY <1>4, <1>5

LEMMA MigReadFinishKeeps ==
    ASSUME Migrate!MigrationAssumption, MigInv, NEW d \in Device, Migrate!ReadFinish(d)
    PROVE  MigInv'
  <1>1. /\ migPc[d] = "finish"
        /\ UNCHANGED <<Migrate!relay, Migrate!profile, migPreview, migJournal, migOwed>>
    BY DEF Migrate!ReadFinish
  <1>2. /\ MigPlaceAt(d, "finish", migJournal[d], migSeen[d]) /\ migSeen[d] \in MigReads
        /\ migSeen \in [Device -> MigReads] /\ migMeta \in MigMetas
    BY <1>1, MigAtDevice DEF MigInv, MigTypes
  <1>3. PICK s : s = [migSeen[d] EXCEPT !.seq = IF migMeta.gate = "active" THEN 0 ELSE migMeta.seq]
    OBVIOUS
  <1>4. s \in MigReads /\ s.seq = (IF migMeta.gate = "active" THEN 0 ELSE migMeta.seq) /\ migMeta.seq \in Nat
    BY <1>2, <1>3 DEF MigReads, MigMetas
  <1>5. migSeen' = [migSeen EXCEPT ![d] = s]
    BY <1>2, <1>3 DEF Migrate!ReadFinish
  <1>6. CASE ~Migrate!Admitted
    BY <1>1, <1>4, <1>5, <1>6, MigStops DEF Migrate!ReadFinish
  <1>7. CASE Migrate!Admitted /\ migMeta.gate = "active"
    <2>1. MigPlaceAt(d, "final", migJournal[d], s) /\ "final" \in MigPlaces
          /\ Migrate!Goto(d, "final")
      BY <1>2, <1>7 DEF MigPlaceAt, MigPublished, MigSwitching, MigPlaces, Migrate!ReadFinish
    <2> QED BY <1>1, <1>4, <1>5, <2>1, MigGoesOn
  <1>8. CASE Migrate!Admitted /\ migMeta.gate # "active"
    <2>1. Migrate!Goto(d, "finish_push") /\ "finish_push" \in MigPlaces
      BY <1>8 DEF Migrate!ReadFinish, MigPlaces, MigPublished
    <2>2. MigPlaceAt(d, "finish_push", migJournal[d], s)
      BY <1>2, <1>4, <1>8 DEF MigPlaceAt, MigPublished, MigSwitching, Migrate!Admitted
    <2> QED BY <1>1, <1>4, <1>5, <2>1, <2>2, MigGoesOn
  <1> QED BY <1>6, <1>7, <1>8

LEMMA MigRebaseKeeps ==
    ASSUME Migrate!MigrationAssumption, MigInv, NEW d \in Device, Migrate!Rebase(d)
    PROVE  MigInv'
  <1>1. /\ migPc[d] = "rebase"
        /\ UNCHANGED <<Migrate!relay, Migrate!profile, migPreview, migJournal, migOwed>>
    BY DEF Migrate!Rebase
  <1>2. /\ MigPlaceAt(d, "rebase", migJournal[d], migSeen[d]) /\ migSeen[d] \in MigReads
        /\ migSeen = [migSeen EXCEPT ![d] = migSeen[d]] /\ migLocal[d] \in Nat
        /\ migGeneration[d] \in Nat
        /\ migSeen \in [Device -> MigReads]
    BY <1>1, MigAtDevice DEF MigInv, MigTypes
  <1>3. CASE Migrate!Goto(d, "idle") /\ Migrate!Forget(d)
    BY <1>1, <1>3, MigNothingType, MigStops DEF Migrate!Forget
  <1>4. CASE /\ migSeen' = [migSeen EXCEPT ![d].local = migLocal[d], ![d].generation = migGeneration[d],
                                          ![d].tries = @ + 1]
             /\ Migrate!Goto(d, "commit")
    <2>1. PICK r : r = [migSeen[d] EXCEPT !.local = migLocal[d]]
      OBVIOUS
    <2>2. r \in MigReads /\ r.local = migLocal[d]
      BY <1>2, <2>1 DEF MigReads
    <2>3. PICK t : t = migSeen[d].tries + 1
      OBVIOUS
    <2>4. PICK q, s : q = [r EXCEPT !.generation = migGeneration[d]] /\ s = [q EXCEPT !.tries = t]
      OBVIOUS
    <2>5. s \in MigReads /\ s.local = migLocal[d] /\ s.generation = migGeneration[d]
      <3>1. q \in MigReads /\ q.local = migLocal[d] /\ q.generation = migGeneration[d]
        BY <1>2, <2>2, <2>4 DEF MigReads
      <3>2. t \in Nat
        BY <1>2, <2>3 DEF MigReads
      <3> QED BY <2>4, <3>1, <3>2 DEF MigReads
    <2>6. migSeen' = [migSeen EXCEPT ![d] = s]
      <3>1. [migSeen[d] EXCEPT !.local = migLocal[d], !.generation = migGeneration[d],
                               !.tries = @ + 1] = s
        BY <1>2, <2>1, <2>3, <2>4 DEF MigReads
      <3> QED BY <1>2, <1>4, <3>1
    <2>7. MigPlaceAt(d, "commit", migJournal[d], s) /\ "commit" \in MigPlaces
      BY <1>2, <2>5 DEF MigPlaceAt, MigPublished, MigSwitching, MigPlaces
    <2> QED BY <1>1, <1>4, <2>5, <2>6, <2>7, MigGoesOn
  <1> QED BY <1>3, <1>4 DEF Migrate!Rebase

LEMMA MigRecordActiveKeeps ==
    ASSUME Migrate!MigrationAssumption, MigInv, NEW d \in Device, Migrate!RecordActive(d)
    PROVE  MigInv'
  <1>1. /\ migPc[d] = "record"
        /\ UNCHANGED <<Migrate!relay, Migrate!profile, migPreview, migSeen, migOwed>>
    BY DEF Migrate!RecordActive
  <1>2. /\ migJournal[d] \in MigJournals(d) /\ MigJournalAt(d, migJournal[d])
        /\ migSeen[d] \in MigReads
        /\ MigProfileAt(d, "idle", migJournal[d])
        /\ migSeen = [migSeen EXCEPT ![d] = migSeen[d]]
    BY <1>1, MigAtDevice
  <1>3. PICK j, s : j = [migJournal[d] EXCEPT !.phase = "active"] /\ s = migSeen[d]
    OBVIOUS
  <1>4. /\ MigJournalAt(d, j) /\ j.backup = migJournal[d].backup
        /\ j.items = migJournal[d].items
        /\ j # Migrate!NoJournal
    BY <1>2, <1>3, MigJournalPhase
  <1>5. MigProfileAt(d, "idle", j)
    BY <1>2, <1>4 DEF MigProfileAt
  <1>6. /\ migJournal' = [migJournal EXCEPT ![d] = j] /\ migPc' = [migPc EXCEPT ![d] = "idle"]
        /\ migSeen' = [migSeen EXCEPT ![d] = s] /\ s \in MigReads
    BY <1>1, <1>2, <1>3 DEF Migrate!RecordActive, Migrate!Update, Migrate!Goto
  <1> QED BY <1>1, <1>4, <1>5, <1>6, MigIdlePlace, MigGoes

LEMMA MigStepFailsKeeps ==
    ASSUME Migrate!MigrationAssumption, MigInv, NEW d \in Device, Migrate!StepFails(d)
    PROVE  MigInv'
  BY MigNothingType, MigStops DEF Migrate!StepFails, Migrate!Forget

LEMMA MigPlanOK ==
    ASSUME Migrate!MigrationAssumption, MigInv, NEW d \in Device
    PROVE  /\ MigJournalAt(d, Migrate!Plan(d)) /\ Migrate!Plan(d).phase = "prepared"
  <1>1. /\ migLegacy \in [Host -> Nat] /\ migTyped \in [Host -> Nat] /\ migLocal[d] \in Nat
        /\ migGeneration[d] \in Nat /\ Selected[d] \subseteq Host
    BY DEF MigInv, MigTypes, Migrate!MigrationAssumption
  <1>2. PICK i, g : /\ i = {h \in Selected[d] : migLegacy[h] > 0 /\ migTyped[h] = 0}
                    /\ g = [h \in Selected[d] |-> migLegacy[h]]
    OBVIOUS
  <1>3. g \in [Selected[d] -> Nat] /\ i \in SUBSET Selected[d]
    BY <1>1, <1>2
  <1>4. PICK j : j = Migrate!Plan(d)
    OBVIOUS
  <1>5. j \in MigJournals(d) /\ j.phase = "prepared" /\ j.items = i /\ j.digests = g
    BY <1>1, <1>2, <1>3, <1>4 DEF Migrate!Plan, MigJournals
  <1>6. \A h \in Selected[d] : g[h] > 0 => migTyped[h] > 0 \/ h \in i
    BY <1>1, <1>2
  <1>7. MigJournalAt(d, j)
    BY <1>5, <1>6 DEF MigJournalAt
  <1> QED BY <1>4, <1>5, <1>7

LEMMA MigRelayStays ==
    ASSUME MigInv, UNCHANGED <<Migrate!relay, migOwed>>
    PROVE  /\ MigGrows /\ migMeta' \in MigMetas
           /\ migTyped' \in [Host -> Nat] /\ migOwed' \subseteq Host
           /\ \A h \in migOwed' : migTyped'[h] > 0
           /\ migMeta' = migMeta /\ migTyped' = migTyped /\ migLegacy' = migLegacy
           /\ migOwed' = migOwed
  <1>1. migMeta' = migMeta /\ migTyped' = migTyped /\ migLegacy' = migLegacy
        /\ migOwed' = migOwed
    BY DEF Migrate!relay
  <1>2. /\ migMeta \in MigMetas /\ migTyped \in [Host -> Nat] /\ migOwed \subseteq Host
        /\ \A h \in migOwed : migTyped[h] > 0
    BY DEF MigInv, MigTypes
  <1> QED BY <1>1, <1>2 DEF MigGrows, MigMetas

(* A preview is made or consumed, while nothing runs. *)
LEMMA MigPreviews ==
    ASSUME Migrate!MigrationAssumption, MigInv, NEW d \in Device, NEW v, NEW j,
           NEW at \in MigPlaces,
           NEW s \in MigReads, migPreview' = [migPreview EXCEPT ![d] = v],
           migJournal' = [migJournal EXCEPT ![d] = j], migPc' = [migPc EXCEPT ![d] = at],
           migSeen' = [migSeen EXCEPT ![d] = s], UNCHANGED <<Migrate!relay, Migrate!profile,
           migOwed>>,
           v # Migrate!NoPreview => v.generation = migGeneration[d] /\ migState[d] # "records",
           MigJournalAt(d, j), MigPlaceAt(d, at, j, s), MigProfileAt(d, at, j)
    PROVE  MigInv'
  <1>1. /\ MigGrows /\ migMeta' \in MigMetas
        /\ migTyped' \in [Host -> Nat] /\ migOwed' \subseteq Host
        /\ \A h \in migOwed' : migTyped'[h] > 0
        /\ migMeta' = migMeta /\ migTyped' = migTyped /\ migLegacy' = migLegacy
        /\ migOwed' = migOwed
    BY MigRelayStays
  <1>2. /\ migPreview' = [e \in Device |-> migPreview'[e]] /\ migPreview'[d] = v
        /\ \A e \in Device \ {d} : migPreview'[e] = migPreview[e]
    BY Updated DEF MigInv, MigTypes
  <1>3. migGeneration' = migGeneration /\ migState' = migState /\ migLocal' = migLocal
    BY DEF Migrate!profile
  <1>4. migGeneration[d] \in Nat
    BY DEF MigInv, MigTypes
  <1>5. MigJournalAt(d, j)' /\ MigPlaceAt(d, at, j, s)'
    BY <1>1, <1>3 DEF MigJournalAt, MigPlaceAt
  <1>6. MigProfileAt(d, at, j)'
    BY <1>1, <1>2, <1>3, <1>4 DEF MigProfileAt
  <1> QED BY <1>1, <1>2, <1>5, <1>6, MigMoves

LEMMA MigPrepareKeeps ==
    ASSUME Migrate!MigrationAssumption, MigInv, NEW d \in Device, Migrate!Prepare(d)
    PROVE  MigInv'
  <1>1. /\ migPc[d] = "idle" /\ migState[d] # "records"
        /\ UNCHANGED <<Migrate!relay, Migrate!profile, migJournal, migPc, migSeen, migOwed>>
        /\ migPreview' = [migPreview EXCEPT ![d] = Migrate!Source(d)]
    BY DEF Migrate!Prepare
  <1>2. PICK j, s, v : j = migJournal[d] /\ s = migSeen[d] /\ v = Migrate!Source(d)
    OBVIOUS
  <1>3. /\ migJournal' = [migJournal EXCEPT ![d] = j] /\ migPc' = [migPc EXCEPT ![d] = "idle"]
        /\ migSeen' = [migSeen EXCEPT ![d] = s] /\ s \in MigReads
        /\ MigJournalAt(d, j) /\ MigProfileAt(d, "idle", j)
    BY <1>1, <1>2, MigAtDevice
  <1>4. v.generation = migGeneration[d] /\ migPreview' = [migPreview EXCEPT ![d] = v]
    BY <1>1, <1>2 DEF Migrate!Source
  <1> QED BY <1>1, <1>3, <1>4, MigIdlePlace, MigPreviews

LEMMA MigConfirmKeeps ==
    ASSUME Migrate!MigrationAssumption, MigInv, NEW d \in Device, Migrate!Confirm(d)
    PROVE  MigInv'
  <1>1. /\ migPc[d] = "idle" /\ migPreview[d] # Migrate!NoPreview
        /\ UNCHANGED <<Migrate!relay, Migrate!profile, migOwed>>
        /\ migPreview' = [migPreview EXCEPT ![d] = Migrate!NoPreview]
    BY DEF Migrate!Confirm
  <1>2. CASE UNCHANGED <<migJournal, migPc, migSeen>>
    <2>1. PICK j, s : j = migJournal[d] /\ s = migSeen[d]
      OBVIOUS
    <2>2. /\ migJournal' = [migJournal EXCEPT ![d] = j] /\ migPc' = [migPc EXCEPT ![d] = "idle"]
          /\ migSeen' = [migSeen EXCEPT ![d] = s] /\ s \in MigReads
          /\ MigJournalAt(d, j) /\ MigProfileAt(d, "idle", j)
      BY <1>1, <1>2, <2>1, MigAtDevice
    <2> QED BY <1>1, <2>2, MigIdlePlace, MigPreviews
  <1>3. CASE /\ migPreview[d] = Migrate!Source(d) /\ Migrate!Update(d, Migrate!Plan(d))
             /\ Migrate!Goto(d, "backup")
             /\ migSeen' = [migSeen EXCEPT ![d].original = TRUE]
    <2>1. migPreview[d].generation = migGeneration[d]
      BY <1>3 DEF Migrate!Source
    <2>2. migState[d] # "records"
      BY <1>1, <2>1, MigAtDevice DEF MigProfileAt, MigInv, MigTypes
    <2>3. PICK j, s : j = Migrate!Plan(d) /\ s = [migSeen[d] EXCEPT !.original = TRUE]
      OBVIOUS
    <2>4. s \in MigReads
      BY <2>3, MigAtDevice DEF MigReads
    <2>5. MigJournalAt(d, j) /\ j.phase = "prepared"
      BY <2>3, MigPlanOK
    <2>6. /\ migJournal' = [migJournal EXCEPT ![d] = j]
          /\ migPc' = [migPc EXCEPT ![d] = "backup"]
          /\ migSeen' = [migSeen EXCEPT ![d] = s]
      BY <1>3, <2>3, MigAtDevice DEF Migrate!Update, Migrate!Goto, MigInv, MigTypes
    <2>7. MigPlaceAt(d, "backup", j, s) /\ "backup" \in MigPlaces
          /\ MigProfileAt(d, "backup", j)
      BY <2>2, <2>5, MigUnswitched DEF MigPlaceAt, MigPublished, MigSwitching, MigPlaces
    <2> QED BY <1>1, <2>4, <2>5, <2>6, <2>7, MigPreviews
  <1> QED BY <1>2, <1>3 DEF Migrate!Confirm

LEMMA MigPushed ==
    ASSUME MigInv, NEW d \in Device, NEW gate \in {"gated", "active"}, Migrate!PushMeta(d, gate),
           migMeta.schema <= 3, migMeta.gate # "active", UNCHANGED migTyped
    PROVE  MigGrows /\ migMeta' \in MigMetas /\ migMeta'.gate = gate /\ migMeta'.schema = 3
  <1>1. migMeta \in MigMetas /\ migTyped \in [Host -> Nat]
    BY DEF MigInv, MigTypes
  <1>2. migMeta' = [schema |-> 3, gate |-> gate, seq |-> migMeta.seq + 1] /\ migMeta.seq \in Nat
    BY <1>1 DEF Migrate!PushMeta, MigMetas
  <1>3. migMeta' \in MigMetas /\ migMeta'.seq = migMeta.seq + 1 /\ migMeta'.gate = gate
        /\ migMeta'.schema = 3
    BY <1>2 DEF MigMetas, Migrate!AccountSchema
  <1> QED BY <1>2, <1>3 DEF MigGrows

LEMMA MigWriteGateKeeps ==
    ASSUME Migrate!MigrationAssumption, MigInv, NEW d \in Device, Migrate!WriteGate(d)
    PROVE  MigInv'
  <1>1. /\ migPc[d] = "gate_push"
        /\ UNCHANGED <<migLegacy, migTyped, Migrate!profile, migPreview, migOwed>>
        /\ migSeen' = [migSeen EXCEPT ![d] = Migrate!NothingRead]
    BY DEF Migrate!WriteGate, Migrate!Forget
  <1>2. /\ migJournal[d] \in MigJournals(d) /\ MigJournalAt(d, migJournal[d])
        /\ migState[d] # "records"
        /\ MigPlaceAt(d, "gate_push", migJournal[d], migSeen[d])
        /\ MigProfileAt(d, "idle", migJournal[d])
        /\ migJournal = [migJournal EXCEPT ![d] = migJournal[d]]
        /\ migTyped \in [Host -> Nat] /\ migOwed \subseteq Host /\ \A h \in migOwed : migTyped[h] > 0
        /\ migPreview = [e \in Device |-> migPreview[e]]
    BY <1>1, MigAtDevice DEF MigInv, MigTypes
  <1>3. CASE migMeta.seq # migSeen[d].seq /\ Migrate!Goto(d, "idle")
             /\ UNCHANGED <<migMeta, migJournal>>
    BY <1>1, <1>3, MigNothingType, MigStops DEF Migrate!relay
  <1>4. CASE Migrate!PushMeta(d, "gated")
    <2>1. MigGrows /\ migMeta' \in MigMetas
      <3>1. migMeta.schema <= 3 /\ migMeta.gate # "active"
        BY <1>2, <1>4 DEF MigPlaceAt, Migrate!PushMeta
      <3> QED BY <1>1, <1>4, <3>1, MigPushed
    <2>2. PICK j, at : /\ migJournal' = [migJournal EXCEPT ![d] = j] /\ migPc' = [migPc EXCEPT ![d] = at]
                       /\ \/ j = [migJournal[d] EXCEPT !.phase = "gated"] /\ at = "publish"
                          \/ j = migJournal[d] /\ at = "idle"
      <3>1. CASE Migrate!Update(d, [migJournal[d] EXCEPT !.phase = "gated"])
                 /\ Migrate!Goto(d, "publish")
        BY <3>1 DEF Migrate!Update, Migrate!Goto
      <3>2. CASE Migrate!Goto(d, "idle") /\ UNCHANGED migJournal
        BY <1>2, <3>2 DEF Migrate!Goto
      <3> QED BY <1>4, <3>1, <3>2 DEF Migrate!WriteGate, Migrate!PushMeta
    <2>3. /\ MigJournalAt(d, j) /\ j.backup = migJournal[d].backup
          /\ at = "publish" => j.phase = "gated"
      BY <1>2, <2>2, MigJournalPhase
    <2>4. MigJournalAt(d, j)'
      BY <2>1, <2>3, MigJournalKept
    <2>5. MigPlaceAt(d, at, j, Migrate!NothingRead)' /\ at \in MigPlaces
      BY <1>2, <2>2, <2>3 DEF MigPlaceAt, MigPublished, MigSwitching, MigPlaces
    <2>6. MigProfileAt(d, at, j)'
      BY <1>1, <1>2, <2>1, MigUnswitched, MigProfileKept DEF Migrate!profile
    <2>7. migTyped' = migTyped /\ migOwed' = migOwed /\ migPreview' = migPreview
      BY <1>1
    <2> QED BY <1>1, <1>2, <2>1, <2>2, <2>4, <2>5, <2>6, <2>7, MigNothingType, MigMoves
  <1> QED BY <1>3, <1>4 DEF Migrate!WriteGate

LEMMA MigConvertedType ==
    ASSUME MigInv, NEW batch, migTyped' = Migrate!Converted(batch), UNCHANGED migMeta
    PROVE  /\ migTyped' \in [Host -> Nat] /\ MigGrows /\ \A h \in Host \cap batch : migTyped'[h] > 0
  <1>1. migMeta \in MigMetas /\ migTyped \in [Host -> Nat]
    BY DEF MigInv, MigTypes
  <1>2. /\ migTyped' \in [Host -> Nat] /\ \A h \in Host \cap batch : migTyped'[h] > 0
        /\ \A h \in Host : migTyped[h] > 0 => migTyped'[h] > 0
    BY <1>1 DEF Migrate!Converted
  <1> QED BY <1>1, <1>2 DEF MigGrows, MigMetas

LEMMA MigPushRowsKeeps ==
    ASSUME Migrate!MigrationAssumption, MigInv, NEW d \in Device, Migrate!PushRows(d)
    PROVE  MigInv'
  <1>1. /\ migPc[d] = "push"
        /\ UNCHANGED <<migMeta, migLegacy, Migrate!profile, migPreview, migSeen, migOwed>>
    BY DEF Migrate!PushRows
  <1>2. /\ migJournal[d] \in MigJournals(d) /\ MigJournalAt(d, migJournal[d])
        /\ migState[d] # "records"
        /\ migJournal[d] # Migrate!NoJournal /\ MigPlaceAt(d, "push", migJournal[d], migSeen[d])
        /\ migSeen[d] \in MigReads /\ migSeen = [migSeen EXCEPT ![d] = migSeen[d]]
        /\ migMeta \in MigMetas /\ migOwed \subseteq Host /\ \A h \in migOwed : migTyped[h] > 0
        /\ migPreview = [e \in Device |-> migPreview[e]]
    BY <1>1, MigAtDevice DEF MigInv, MigTypes
  <1>3. PICK batch \in Migrate!Batches(d) :
          /\ migTyped' = Migrate!Converted(batch)
          /\ \/ /\ Migrate!Update(d, [migJournal[d] EXCEPT !.items = @ \ batch, !.phase = "publishing"])
                /\ Migrate!Goto(d, "publish")
             \/ /\ Migrate!Goto(d, "idle")
                /\ Migrate!Update(d, [migJournal[d] EXCEPT !.phase = "publishing"])
    BY DEF Migrate!PushRows
  <1>4. /\ migTyped' \in [Host -> Nat] /\ MigGrows /\ \A h \in Host \cap batch : migTyped'[h] > 0
    BY <1>1, <1>3, MigConvertedType
  <1>5. PICK x, at : /\ migJournal' = [migJournal EXCEPT ![d] =
                                       [migJournal[d] EXCEPT !.items = x, !.phase = "publishing"]]
                     /\ migPc' = [migPc EXCEPT ![d] = at]
                     /\ \/ x = migJournal[d].items \ batch /\ at = "publish"
                        \/ x = migJournal[d].items /\ at = "idle"
    <2>1. CASE /\ Migrate!Update(d, [migJournal[d] EXCEPT !.items = @ \ batch, !.phase = "publishing"])
               /\ Migrate!Goto(d, "publish")
      BY <2>1 DEF Migrate!Update, Migrate!Goto
    <2>2. CASE /\ Migrate!Goto(d, "idle")
               /\ Migrate!Update(d, [migJournal[d] EXCEPT !.phase = "publishing"])
      <3>1. migJournal[d] = [migJournal[d] EXCEPT !.items = migJournal[d].items]
        BY <1>2 DEF MigJournals
      <3> QED BY <2>2, <3>1 DEF Migrate!Update, Migrate!Goto
    <2> QED BY <1>3, <2>1, <2>2
  <1>6. PICK i : i = [migJournal[d] EXCEPT !.items = x]
    OBVIOUS
  <1>7. /\ i \in MigJournals(d) /\ i.backup = migJournal[d].backup /\ i.items = x
        /\ i.digests = migJournal[d].digests
    BY <1>2, <1>5, <1>6 DEF MigJournals
  <1>8. PICK j : j = [i EXCEPT !.phase = "publishing"]
    OBVIOUS
  <1>9. /\ j \in MigJournals(d) /\ j.backup = migJournal[d].backup /\ j.items = x
        /\ j.digests = migJournal[d].digests /\ j.phase = "publishing"
    BY <1>7, <1>8 DEF MigJournals
  <1>10. migJournal' = [migJournal EXCEPT ![d] = j]
    BY <1>5, <1>6, <1>8
  <1>11. MigJournalAt(d, j)'
    <2>1. \A h \in Selected[d] : j.digests[h] > 0 => migTyped[h] > 0 \/ h \in migJournal[d].items
      BY <1>2, <1>9 DEF MigJournalAt
    <2>2. \A h \in Selected[d] : j.digests[h] > 0 => migTyped'[h] > 0 \/ h \in j.items
      BY <1>4, <1>5, <1>9, <2>1 DEF MigGrows, Migrate!MigrationAssumption
    <2> QED BY <1>9, <2>2 DEF MigJournalAt
  <1>12. PICK s : s = migSeen[d]
    OBVIOUS
  <1>13. MigPlaceAt(d, at, j, s)' /\ at \in MigPlaces
    BY <1>2, <1>5, <1>9 DEF MigPlaceAt, MigPublished, MigSwitching, MigPlaces
  <1>14. MigProfileAt(d, at, j)'
    BY <1>1, <1>2, <1>4, MigUnswitched, MigProfileKept DEF Migrate!profile
  <1>15. /\ migMeta' = migMeta /\ migOwed' = migOwed /\ migPreview' = migPreview
         /\ migSeen' = [migSeen EXCEPT ![d] = s]
         /\ s \in MigReads
    BY <1>1, <1>2, <1>12
  <1>16. \A h \in migOwed' : migTyped'[h] > 0
    BY <1>2, <1>4, <1>15 DEF MigGrows
  <1> QED BY <1>1, <1>2, <1>4, <1>5, <1>10, <1>11, <1>13, <1>14, <1>15, <1>16, MigMoves

LEMMA MigWriteFinishKeeps ==
    ASSUME Migrate!MigrationAssumption, MigInv, NEW d \in Device, Migrate!WriteFinish(d)
    PROVE  MigInv'
  <1>1. /\ migPc[d] = "finish_push"
        /\ UNCHANGED <<migLegacy, migTyped, Migrate!profile, migPreview, migJournal>>
        /\ migSeen' = [migSeen EXCEPT ![d] = Migrate!NothingRead]
    BY DEF Migrate!WriteFinish, Migrate!Forget
  <1>2. /\ migJournal[d] \in MigJournals(d) /\ MigJournalAt(d, migJournal[d])
        /\ migState[d] # "records"
        /\ MigPlaceAt(d, "finish_push", migJournal[d], migSeen[d])
        /\ migJournal[d] # Migrate!NoJournal
        /\ migJournal = [migJournal EXCEPT ![d] = migJournal[d]]
        /\ migTyped \in [Host -> Nat] /\ migOwed \subseteq Host /\ \A h \in migOwed : migTyped[h] > 0
        /\ migPreview = [e \in Device |-> migPreview[e]]
    BY <1>1, MigAtDevice DEF MigInv, MigTypes
  <1>3. CASE migMeta.seq # migSeen[d].seq /\ Migrate!Goto(d, "idle")
             /\ UNCHANGED <<migMeta, migOwed>>
    BY <1>1, <1>3, MigNothingType, MigStops DEF Migrate!relay
  <1>4. CASE /\ Migrate!PushMeta(d, "active")
             /\ migOwed' = migOwed \cup {h \in Selected[d] : migJournal[d].digests[h] > 0}
             /\ Migrate!Goto(d, "final") \/ Migrate!Goto(d, "idle")
    <2>1. MigGrows /\ migMeta' \in MigMetas /\ migMeta'.gate = "active"
      <3>1. migMeta.schema <= 3 /\ migMeta.gate # "active"
        BY <1>2, <1>4 DEF MigPlaceAt, Migrate!PushMeta
      <3> QED BY <1>1, <1>4, <3>1, MigPushed
    <2>2. PICK at \in {"final", "idle"} : migPc' = [migPc EXCEPT ![d] = at]
      BY <1>4 DEF Migrate!Goto
    <2>3. PICK j : j = migJournal[d]
      OBVIOUS
    <2>4. /\ MigJournalAt(d, j) /\ migJournal' = [migJournal EXCEPT ![d] = j] /\ j.backup
          /\ j.items = {}
          /\ j.phase \notin {"none", "active"}
      BY <1>1, <1>2, <2>3 DEF MigPlaceAt, MigPublished
    <2>5. MigJournalAt(d, j)'
      BY <2>1, <2>4, MigJournalKept
    <2>6. MigPlaceAt(d, at, j, Migrate!NothingRead)' /\ at \in MigPlaces
      BY <2>1, <2>2, <2>4 DEF MigPlaceAt, MigPublished, MigSwitching, MigPlaces
    <2>7. MigProfileAt(d, at, j)'
      BY <1>1, <1>2, <2>1, MigUnswitched, MigProfileKept DEF Migrate!profile
    <2>8. migTyped' = migTyped /\ migPreview' = migPreview
      BY <1>1
    <2>9. migOwed' \subseteq Host /\ \A h \in migOwed' : migTyped'[h] > 0
      <3>1. \A h \in Selected[d] : migJournal[d].digests[h] > 0 => migTyped[h] > 0
        BY <1>2, <2>3, <2>4 DEF MigJournalAt
      <3>2. Selected[d] \subseteq Host
        BY DEF Migrate!MigrationAssumption
      <3> QED BY <1>2, <1>4, <2>8, <3>1, <3>2
    <2> QED BY <1>1, <1>2, <2>1, <2>2, <2>4, <2>5, <2>6, <2>7, <2>8, <2>9, MigNothingType, MigMoves
  <1> QED BY <1>3, <1>4 DEF Migrate!WriteFinish

LEMMA MigCommitKeeps ==
    ASSUME Migrate!MigrationAssumption, MigInv, NEW d \in Device, Migrate!Commit(d)
    PROVE  MigInv' /\ migLocal' = migLocal
  <1>1. migPc[d] = "commit" /\ UNCHANGED <<Migrate!relay, migPreview, migJournal, migOwed>>
    BY DEF Migrate!Commit
  <1>2. /\ migJournal[d] \in MigJournals(d) /\ MigJournalAt(d, migJournal[d])
        /\ migJournal[d] # Migrate!NoJournal
        /\ MigPlaceAt(d, "commit", migJournal[d], migSeen[d])
        /\ MigProfileAt(d, "commit", migJournal[d])
        /\ MigTypes
    BY <1>1, MigAtDevice DEF MigInv
  <1>3. CASE /\ IF migSeen[d].tries < Rebases THEN Migrate!Goto(d, "rebase") /\ UNCHANGED migSeen
                ELSE Migrate!Goto(d, "idle") /\ Migrate!Forget(d)
             /\ UNCHANGED Migrate!profile
    <2>1. PICK s : s = migSeen[d]
      OBVIOUS
    <2>2. MigPlaceAt(d, "rebase", migJournal[d], s) /\ "rebase" \in MigPlaces
      BY <1>2 DEF MigPlaceAt, MigPublished, MigSwitching, MigPlaces
    <2>3. s \in MigReads /\ migSeen = [migSeen EXCEPT ![d] = s]
      BY <2>1, MigAtDevice
    <2>4. CASE Migrate!Goto(d, "rebase") /\ UNCHANGED migSeen
      BY <1>1, <1>3, <2>2, <2>3, <2>4, MigGoesOn DEF Migrate!profile
    <2>5. CASE Migrate!Goto(d, "idle") /\ Migrate!Forget(d)
      BY <1>1, <1>3, <2>5, MigNothingType, MigStops DEF Migrate!profile, Migrate!Forget
    <2> QED BY <1>3, <2>4, <2>5
  <1>4. CASE /\ migGeneration[d] = migSeen[d].generation
             /\ migState' = [migState EXCEPT ![d] = "records"]
             /\ migLocal' = [migLocal EXCEPT ![d] = migSeen[d].local]
             /\ migGeneration' = [migGeneration EXCEPT ![d] = @ + 1]
             /\ Migrate!Goto(d, "record") /\ Migrate!Forget(d)
    <2>1. migLocal' = migLocal
      <3>1. migSeen[d].local = migLocal[d]
        BY <1>2, <1>4 DEF MigPlaceAt
      <3> QED BY <1>2, <1>4, <3>1 DEF MigTypes
    <2>2. /\ MigGrows /\ migMeta' \in MigMetas
          /\ migTyped' \in [Host -> Nat] /\ migOwed' \subseteq Host
          /\ \A h \in migOwed' : migTyped'[h] > 0
          /\ migMeta' = migMeta /\ migTyped' = migTyped /\ migLegacy' = migLegacy
          /\ migOwed' = migOwed
      BY <1>1, MigRelayStays
    <2>3. /\ migState' \in [Device -> {"legacy", "join", "records"}] /\ migState'[d] = "records"
          /\ migGeneration' \in [Device -> Nat \ {0}] /\ migGeneration'[d] = migGeneration[d] + 1
          /\ migGeneration[d] \in Nat
          /\ \A e \in Device \ {d} : migState'[e] = migState[e] /\ migGeneration'[e] = migGeneration[e]
      BY <1>2, <1>4 DEF MigTypes
    <2>4. /\ migPc' \in [Device -> MigPlaces] /\ migPc'[d] = "record"
          /\ migSeen' \in [Device -> MigReads] /\ migSeen'[d] = Migrate!NothingRead
          /\ \A e \in Device \ {d} : migPc'[e] = migPc[e] /\ migSeen'[e] = migSeen[e]
      <3>1. "record" \in MigPlaces
        BY DEF MigPlaces, MigPublished
      <3> QED BY <1>2, <1>4, <3>1, MigNothingType DEF MigTypes, Migrate!Goto, Migrate!Forget
    <2>5. migJournal' = migJournal /\ migPreview' = migPreview
      BY <1>1
    <2>6. MigTypes'
      BY <1>2, <2>1, <2>2, <2>3, <2>4, <2>5 DEF MigTypes
    <2>7. \A e \in Device \ {d} : MigSame(e)
      BY <2>1, <2>3, <2>4, <2>5 DEF MigSame
    <2>8. PICK j : j = migJournal[d]
      OBVIOUS
    <2>9. /\ MigJournalAt(d, j) /\ j # Migrate!NoJournal /\ j.backup /\ j.items = {}
          /\ j.phase \notin {"none", "active"} /\ migMeta.gate = "active"
      BY <1>2, <2>8 DEF MigPlaceAt, MigPublished, MigSwitching
    <2>10. MigJournalAt(d, j)'
      BY <2>2, <2>9, MigJournalKept
    <2>11. MigPlaceAt(d, "record", j, Migrate!NothingRead)'
      BY <2>2, <2>9 DEF MigPlaceAt
    <2>12. MigProfileAt(d, "record", j)'
      <3>1. migPreview[d] # Migrate!NoPreview =>
              migPreview[d].generation \in Nat /\ migPreview[d].generation < migGeneration'[d]
        BY <1>2, <2>3 DEF MigProfileAt
      <3> QED BY <2>2, <2>3, <2>5, <2>9, <3>1 DEF MigProfileAt
    <2>13. MigDeviceOK(d)'
      BY <2>4, <2>5, <2>8, <2>10, <2>11, <2>12 DEF MigDeviceOK
    <2> QED BY <2>1, <2>2, <2>6, <2>7, <2>13, MigDeviceStep
  <1> QED BY <1>3, <1>4 DEF Migrate!Commit

(* A device's own profile or process changes. *)
LEMMA MigProfileSteps ==
    ASSUME Migrate!MigrationAssumption, MigInv, NEW d \in Device,
           Migrate!Crash(d) \/ Migrate!OpenAndPause(d) \/ Migrate!EditLocal(d)
    PROVE  MigInv' /\ \A e \in Device : migLocal'[e] >= migLocal[e]
  <1>1. UNCHANGED <<Migrate!relay, migOwed, migState, migJournal>>
    BY DEF Migrate!Crash, Migrate!OpenAndPause, Migrate!EditLocal
  <1>2. /\ MigGrows /\ migMeta' \in MigMetas
        /\ migTyped' \in [Host -> Nat] /\ migOwed' \subseteq Host
        /\ \A h \in migOwed' : migTyped'[h] > 0
        /\ migMeta' = migMeta /\ migTyped' = migTyped /\ migLegacy' = migLegacy
        /\ migOwed' = migOwed
    BY <1>1, MigRelayStays
  <1>3. MigTypes /\ migSeen[d] \in MigReads /\ migLocal[d] \in Nat
        /\ migGeneration[d] \in Nat \ {0}
    BY DEF MigInv, MigTypes
  <1>4. PICK j, s, at : j = migJournal[d] /\ s = migSeen[d] /\ at = migPc[d]
    OBVIOUS
  <1>5. MigJournalAt(d, j) /\ MigPlaceAt(d, at, j, s) /\ MigProfileAt(d, at, j)
        /\ MigProfileAt(d, "idle", j)
    BY <1>4, MigAtDevice
  <1>6. MigJournalAt(d, j)'
    BY <1>2, <1>5, MigJournalKept
  <1>7. CASE Migrate!Crash(d)
    <2>1. /\ migPc' \in [Device -> MigPlaces] /\ migPc'[d] = "idle"
          /\ migSeen' \in [Device -> MigReads] /\ migSeen'[d] = Migrate!NothingRead
          /\ \A e \in Device \ {d} : migPc'[e] = migPc[e] /\ migSeen'[e] = migSeen[e]
      BY <1>3, <1>7, MigNothingType, MigIdlePlace DEF MigTypes, Migrate!Crash, Migrate!Goto,
                Migrate!Forget
    <2>2. /\ migPreview' = [e \in Device |-> migPreview'[e]] /\ migPreview'[d] = Migrate!NoPreview
          /\ \A e \in Device \ {d} : migPreview'[e] = migPreview[e]
      BY <1>3, <1>7, Updated DEF MigTypes, Migrate!Crash
    <2>3. /\ migGeneration' \in [Device -> Nat \ {0}] /\ migLocal' = migLocal
          /\ \A e \in Device \ {d} : migGeneration'[e] = migGeneration[e]
      BY <1>3, <1>7 DEF MigTypes, Migrate!Crash
    <2>4. MigTypes'
      BY <1>1, <1>2, <1>3, <2>1, <2>2, <2>3 DEF MigTypes
    <2>5. \A e \in Device \ {d} : MigSame(e)
      BY <1>1, <2>1, <2>2, <2>3 DEF MigSame
    <2>6. MigPlaceAt(d, "idle", j, Migrate!NothingRead)'
      BY DEF MigPlaceAt, MigPublished, MigSwitching
    <2>7. MigProfileAt(d, "idle", j)'
      BY <1>1, <1>2, <1>5, <2>2 DEF MigProfileAt
    <2>8. MigDeviceOK(d)'
      BY <1>1, <1>4, <1>6, <2>1, <2>6, <2>7 DEF MigDeviceOK
    <2> QED BY <1>2, <1>3, <2>3, <2>4, <2>5, <2>8, MigDeviceStep DEF MigTypes
  <1>8. CASE Migrate!OpenAndPause(d) \/ Migrate!EditLocal(d)
    <2>1. migPreview' = migPreview /\ migPc' = migPc /\ migSeen' = migSeen
      BY <1>8 DEF Migrate!OpenAndPause, Migrate!EditLocal
    <2>2. /\ migGeneration' \in [Device -> Nat \ {0}] /\ migLocal' \in [Device -> Nat]
          /\ \A e \in Device \ {d} : migGeneration'[e] = migGeneration[e] /\ migLocal'[e] = migLocal[e]
          /\ migGeneration'[d] > migGeneration[d] /\ migLocal'[d] >= migLocal[d]
      <3>1. CASE Migrate!OpenAndPause(d)
        BY <1>3, <3>1 DEF MigTypes, Migrate!OpenAndPause
      <3>2. CASE Migrate!EditLocal(d)
        BY <1>3, <3>2 DEF MigTypes, Migrate!EditLocal
      <3> QED BY <1>8, <3>1, <3>2
    <2>3. MigTypes'
      BY <1>1, <1>2, <1>3, <2>1, <2>2 DEF MigTypes
    <2>4. \A e \in Device \ {d} : MigSame(e)
      BY <1>1, <2>1, <2>2 DEF MigSame
    <2>5. migGeneration'[d] \in Nat /\ s.generation \in Nat
      BY <1>3, <1>4, <2>2 DEF MigReads
    <2>6. MigPlaceAt(d, at, j, s)'
      BY <1>2, <1>3, <1>5, <2>2, <2>5 DEF MigPlaceAt
    <2>7. MigProfileAt(d, at, j)'
      BY <1>1, <1>2, <1>3, <1>5, <2>1, <2>2, <2>5 DEF MigProfileAt
    <2>8. MigDeviceOK(d)'
      BY <1>1, <1>4, <1>6, <2>1, <2>6, <2>7 DEF MigDeviceOK
    <2>9. \A e \in Device : migLocal'[e] >= migLocal[e]
      BY <1>3, <2>2 DEF MigTypes
    <2> QED BY <1>2, <2>3, <2>4, <2>8, <2>9, MigDeviceStep
  <1> QED BY <1>7, <1>8

(* What the other clients do. *)
LEMMA MigOthersStep ==
    ASSUME Migrate!MigrationAssumption, MigInv, migMeta' \in MigMetas,
           migLegacy' \in [Host -> Nat],
           migTyped' \in [Host -> Nat], MigGrows, UNCHANGED <<Migrate!profile, migPreview,
           migJournal, migPc, migSeen, migOwed>>
    PROVE  MigInv'
  <1>1. /\ migState' = migState /\ migLocal' = migLocal /\ migGeneration' = migGeneration
        /\ migPreview' = migPreview /\ migJournal' = migJournal /\ migPc' = migPc
        /\ migSeen' = migSeen /\ migOwed' = migOwed
    BY DEF Migrate!profile
  <1>2. MigTypes /\ \A h \in migOwed : migTyped[h] > 0
    BY DEF MigInv
  <1>3. MigTypes'
    BY <1>1, <1>2 DEF MigTypes
  <1>4. \A e \in Device : MigDeviceOK(e)'
    BY <1>1, MigOthersKept DEF MigSame
  <1>5. \A h \in migOwed' : migTyped'[h] > 0
    BY <1>1, <1>2 DEF MigGrows, MigTypes
  <1> QED BY <1>3, <1>4, <1>5 DEF MigInv

LEMMA MigOtherClientsKeep ==
    ASSUME Migrate!MigrationAssumption, MigInv,
           (\E h \in Host : Migrate!OldClientWrites(h) \/ Migrate!EditTyped(h)) \/ Migrate!RaiseFormat
    PROVE  /\ MigInv' /\ migMeta'.schema >= migMeta.schema
           /\ migMeta.gate = "active" => migMeta'.gate = "active"
           /\ \A h \in Host : migTyped'[h] >= migTyped[h]
           /\ migLocal' = migLocal
  <1>1. /\ migMeta \in MigMetas /\ migLegacy \in [Host -> Nat] /\ migTyped \in [Host -> Nat]
        /\ migMeta.schema \in 2..Migrate!AccountSchema /\ migMeta.seq \in Nat
    BY DEF MigInv, MigTypes, MigMetas
  <1>2. CASE \E h \in Host : Migrate!OldClientWrites(h)
    <2>1. PICK h \in Host : Migrate!OldClientWrites(h)
      BY <1>2
    <2>2. /\ migLegacy' = [migLegacy EXCEPT ![h] = @ + 1] /\ migMeta' = migMeta
          /\ migTyped' = migTyped
          /\ UNCHANGED <<Migrate!profile, migPreview, migJournal, migPc, migSeen, migOwed>>
      BY <2>1 DEF Migrate!OldClientWrites
    <2>3. migLegacy' \in [Host -> Nat] /\ MigGrows
      BY <1>1, <2>2 DEF MigGrows, Migrate!AccountSchema
    <2> QED BY <1>1, <2>2, <2>3, MigOthersStep DEF Migrate!profile, Migrate!AccountSchema
  <1>3. CASE \E h \in Host : Migrate!EditTyped(h)
    <2>1. PICK h \in Host : Migrate!EditTyped(h)
      BY <1>3
    <2>2. /\ migTyped' = [migTyped EXCEPT ![h] = @ + 1] /\ migMeta' = migMeta
          /\ migLegacy' = migLegacy
          /\ UNCHANGED <<Migrate!profile, migPreview, migJournal, migPc, migSeen, migOwed>>
      BY <2>1 DEF Migrate!EditTyped
    <2>3. migTyped' \in [Host -> Nat] /\ \A g \in Host : migTyped'[g] >= migTyped[g]
      BY <1>1, <2>2
    <2>4. MigGrows
      BY <1>1, <2>2, <2>3 DEF MigGrows
    <2> QED BY <1>1, <2>2, <2>3, <2>4, MigOthersStep DEF Migrate!profile, Migrate!AccountSchema
  <1>4. CASE Migrate!RaiseFormat
    <2>1. /\ migMeta' = [migMeta EXCEPT !.schema = @ + 1, !.seq = @ + 1]
          /\ migMeta.schema < Migrate!AccountSchema
          /\ migLegacy' = migLegacy /\ migTyped' = migTyped
          /\ UNCHANGED <<Migrate!profile, migPreview, migJournal, migPc, migSeen, migOwed>>
      BY <1>4 DEF Migrate!RaiseFormat
    <2>2. PICK m : m = [migMeta EXCEPT !.schema = @ + 1]
      OBVIOUS
    <2>3. m \in MigMetas /\ m.schema = migMeta.schema + 1 /\ m.gate = migMeta.gate
          /\ m.seq = migMeta.seq
      BY <1>1, <2>1, <2>2 DEF MigMetas, Migrate!AccountSchema
    <2>4. migMeta' = [m EXCEPT !.seq = @ + 1]
      BY <2>1, <2>2
    <2>5. /\ migMeta' \in MigMetas /\ migMeta'.schema = migMeta.schema + 1
          /\ migMeta'.gate = migMeta.gate
          /\ migMeta'.seq = migMeta.seq + 1
      BY <1>1, <2>3, <2>4 DEF MigMetas
    <2>6. MigGrows
      BY <1>1, <2>1, <2>5 DEF MigGrows
    <2> QED BY <1>1, <2>1, <2>5, <2>6, MigOthersStep DEF Migrate!profile, Migrate!AccountSchema
  <1> QED BY <1>2, <1>3, <1>4

LEMMA MigInitOK ==
    ASSUME Migrate!MigrationAssumption, Migrate!Init
    PROVE  MigInv
  <1>1. migMeta \in MigMetas
    BY DEF Migrate!Init, MigMetas, Migrate!AccountSchema
  <1>2. /\ migLegacy \in [Host -> Nat] /\ migTyped \in [Host -> Nat] /\ migOwed = {}
        /\ migState \in [Device -> {"legacy", "join"}]
        /\ migLocal \in [Device -> Nat] /\ migGeneration \in [Device -> Nat \ {0}]
        /\ migPreview = [d \in Device |-> Migrate!NoPreview] /\ migJournal = [d \in Device |-> Migrate!NoJournal]
        /\ migPc = [d \in Device |-> "idle"] /\ migSeen = [d \in Device |-> Migrate!NothingRead]
    BY DEF Migrate!Init
  <1>3. MigTypes
    BY <1>1, <1>2, MigNothingType, MigIdlePlace DEF MigTypes
  <1>4. ASSUME NEW d \in Device PROVE MigDeviceOK(d)
    <2>1. migJournal[d] = Migrate!NoJournal /\ migPc[d] = "idle"
          /\ migPreview[d] = Migrate!NoPreview /\ migState[d] # "records"
      BY <1>2
    <2>2. MigPlaceAt(d, migPc[d], migJournal[d], migSeen[d])
      BY <2>1, MigIdlePlace
    <2> QED BY <2>1, <2>2 DEF MigDeviceOK, MigJournalAt, MigProfileAt
  <1> QED BY <1>2, <1>3, <1>4 DEF MigInv

(* The rows and the metadata move forward with every step of a device. *)
LEMMA MigDeviceForward ==
    ASSUME Migrate!MigrationAssumption, MigInv, NEW d \in Device,
           \/ Migrate!Prepare(d) \/ Migrate!Confirm(d) \/ Migrate!Resume(d) \/ Migrate!Step(d)
           \/ Migrate!StepFails(d) \/ Migrate!Crash(d) \/ Migrate!OpenAndPause(d) \/ Migrate!EditLocal(d)
    PROVE  /\ migMeta'.schema >= migMeta.schema
           /\ migMeta.gate = "active" => migMeta'.gate = "active"
           /\ \A h \in Host : migTyped'[h] >= migTyped[h]
  <1>1. /\ migMeta \in MigMetas /\ migTyped \in [Host -> Nat] /\ migMeta.schema \in 2..4
    BY DEF MigInv, MigTypes, MigMetas, Migrate!AccountSchema
  <1>2. CASE UNCHANGED Migrate!relay
    BY <1>1, <1>2 DEF Migrate!relay
  <1>3. CASE Migrate!PushRows(d)
    <2>1. PICK batch : migTyped' = Migrate!Converted(batch) /\ migMeta' = migMeta
      BY <1>3 DEF Migrate!PushRows
    <2> QED BY <1>1, <2>1 DEF Migrate!Converted
  <1>4. CASE Migrate!WriteGate(d) \/ Migrate!WriteFinish(d)
    <2>1. migTyped' = migTyped /\ migPc[d] \in {"gate_push", "finish_push"}
      BY <1>4 DEF Migrate!WriteGate, Migrate!WriteFinish
    <2>2. CASE UNCHANGED migMeta
      BY <1>1, <2>1, <2>2
    <2>3. CASE \E gate \in {"gated", "active"} : Migrate!PushMeta(d, gate)
      <3>1. PICK gate \in {"gated", "active"} : Migrate!PushMeta(d, gate)
        BY <2>3
      <3>2. migMeta.schema <= 3 /\ migMeta.gate # "active"
        BY <2>1, <3>1, MigAtDevice DEF MigPlaceAt, Migrate!PushMeta
      <3>3. migMeta'.schema = 3
        BY <2>1, <3>1, <3>2, MigPushed
      <3> QED BY <1>1, <2>1, <3>2, <3>3
    <2> QED BY <1>4, <2>2, <2>3 DEF Migrate!WriteGate, Migrate!WriteFinish
  <1>5. UNCHANGED Migrate!relay \/ Migrate!PushRows(d) \/ Migrate!WriteGate(d) \/ Migrate!WriteFinish(d)
    BY DEF Migrate!Prepare, Migrate!Confirm, Migrate!Resume, Migrate!Step, Migrate!StepFails,
                Migrate!Crash, Migrate!OpenAndPause, Migrate!EditLocal, Migrate!BackUp,
           Migrate!StageCode, Migrate!Verify, Migrate!ReadGate, Migrate!ReadRows,
           Migrate!FirstBaseline, Migrate!FinalBaseline, Migrate!Baseline,
           Migrate!ReadFinish, Migrate!Rebase, Migrate!Commit, Migrate!RecordActive
  <1> QED BY <1>2, <1>3, <1>4, <1>5

LEMMA MigDeviceKeeps ==
    ASSUME Migrate!MigrationAssumption, MigInv, NEW d \in Device,
           \/ Migrate!Prepare(d) \/ Migrate!Confirm(d) \/ Migrate!Resume(d) \/ Migrate!Step(d)
           \/ Migrate!StepFails(d) \/ Migrate!Crash(d) \/ Migrate!OpenAndPause(d) \/ Migrate!EditLocal(d)
    PROVE  MigInv' /\ \A e \in Device : migLocal'[e] >= migLocal[e]
  <1>1. migLocal \in [Device -> Nat]
    BY DEF MigInv, MigTypes
  <1>2. CASE Migrate!Crash(d) \/ Migrate!OpenAndPause(d) \/ Migrate!EditLocal(d)
    BY <1>2, MigProfileSteps
  <1>3. CASE Migrate!Commit(d)
    BY <1>1, <1>3, MigCommitKeeps
  <1>4. CASE Migrate!Prepare(d) \/ Migrate!Confirm(d) \/ Migrate!Resume(d) \/ Migrate!StepFails(d)
    <2>1. UNCHANGED Migrate!profile
      BY <1>4 DEF Migrate!Prepare, Migrate!Confirm, Migrate!Resume, Migrate!StepFails
    <2> QED BY <1>1, <1>4, <2>1, MigPrepareKeeps, MigConfirmKeeps, MigResumeKeeps,
                MigStepFailsKeeps DEF Migrate!profile
  <1>5. CASE Migrate!Step(d) /\ ~Migrate!Commit(d)
    <2>1. UNCHANGED Migrate!profile
      BY <1>5 DEF Migrate!Step, Migrate!BackUp, Migrate!StageCode, Migrate!Verify,
                Migrate!ReadGate, Migrate!WriteGate, Migrate!ReadRows, Migrate!PushRows,
                  Migrate!FirstBaseline, Migrate!FinalBaseline, Migrate!Baseline,
                  Migrate!ReadFinish, Migrate!WriteFinish, Migrate!Rebase,
                  Migrate!RecordActive
    <2>2. MigInv'
      BY <1>5, MigBackUpKeeps, MigStageCodeKeeps, MigVerifyKeeps, MigReadGateKeeps,
                MigWriteGateKeeps,
         MigReadRowsKeeps, MigPushRowsKeeps, MigBaselineKeeps, MigReadFinishKeeps,
         MigWriteFinishKeeps,
         MigRebaseKeeps, MigRecordActiveKeeps DEF Migrate!Step
    <2> QED BY <1>1, <2>1, <2>2 DEF Migrate!profile
  <1> QED BY <1>2, <1>3, <1>4, <1>5

LEMMA MigNextOK ==
    ASSUME Migrate!MigrationAssumption, MigInv, [Migrate!Next]_(Migrate!vars)
    PROVE  /\ MigInv' /\ migMeta'.schema >= migMeta.schema
           /\ migMeta.gate = "active" => migMeta'.gate = "active"
           /\ \A h \in Host : migTyped'[h] >= migTyped[h]
           /\ \A e \in Device : migLocal'[e] >= migLocal[e]
  <1>1. /\ migMeta \in MigMetas /\ migTyped \in [Host -> Nat] /\ migMeta.schema \in 2..4
        /\ migLegacy \in [Host -> Nat] /\ migLocal \in [Device -> Nat]
    BY DEF MigInv, MigTypes, MigMetas, Migrate!AccountSchema
  <1>2. CASE \E d \in Device :
                \/ Migrate!Prepare(d) \/ Migrate!Confirm(d) \/ Migrate!Resume(d) \/ Migrate!Step(d)
                \/ Migrate!StepFails(d) \/ Migrate!Crash(d) \/ Migrate!OpenAndPause(d) \/ Migrate!EditLocal(d)
    BY <1>2, MigDeviceForward, MigDeviceKeeps
  <1>3. CASE (\E h \in Host : Migrate!OldClientWrites(h) \/ Migrate!EditTyped(h)) \/ Migrate!RaiseFormat
    BY <1>1, <1>3, MigOtherClientsKeep
  <1>4. CASE UNCHANGED Migrate!vars
    <2>1. UNCHANGED <<Migrate!relay, migOwed>>
          /\ UNCHANGED <<Migrate!profile, migPreview, migJournal, migPc, migSeen, migOwed>>
      BY <1>4 DEF Migrate!vars, Migrate!relay, Migrate!profile
    <2>2. MigInv'
      BY <1>1, <2>1, MigRelayStays, MigOthersStep
    <2> QED BY <1>1, <2>1, <2>2 DEF Migrate!relay, Migrate!profile
  <1> QED BY <1>2, <1>3, <1>4 DEF Migrate!Next

LEMMA MigImplies ==
    ASSUME Migrate!MigrationAssumption, MigInv
    PROVE  Migrate!TypeOK /\ Migrate!ActiveIsComplete /\ Migrate!SwitchedSafely
  <1>1. MigTypes /\ \A h \in migOwed : migTyped[h] > 0
    BY DEF MigInv
  <1>2. ASSUME NEW d \in Device, migPc[d] # "idle"
        PROVE  Migrate!Pending(d) /\ migJournal[d].items \subseteq Selected[d]
    BY <1>2, MigAtDevice DEF MigPlaceAt, Migrate!Pending, MigJournals
  <1>3. Migrate!TypeOK
    BY <1>1, <1>2 DEF Migrate!TypeOK, MigTypes, MigMetas
  <1>4. ASSUME NEW d \in Device, migState[d] = "records"
        PROVE  /\ migMeta.gate = "active" /\ migJournal[d].backup
               /\ \A h \in Selected[d] : migJournal[d].digests[h] > 0 => migTyped[h] > 0
    <2>1. /\ MigProfileAt(d, migPc[d], migJournal[d]) /\ MigJournalAt(d, migJournal[d])
      BY MigAtDevice
    <2>2. /\ migMeta.gate = "active" /\ migJournal[d].backup
          /\ migJournal[d] # Migrate!NoJournal
          /\ migJournal[d].items = {}
      BY <1>4, <2>1 DEF MigProfileAt
    <2> QED BY <2>1, <2>2 DEF MigJournalAt
  <1> QED BY <1>1, <1>3, <1>4 DEF Migrate!ActiveIsComplete, Migrate!SwitchedSafely

-----------------------------------------------------------------------------
(* Whatever the devices, old clients and faults do, the marker "active"    *)
(* stands for a complete conversion (record_migration.rs, finish_gate()),  *)
(* and a profile is switched by commit_migration_candidate() only with its *)
(* original state kept and every old row of its plan converted.            *)
THEOREM Migrating ==
    ASSUME Migrate!MigrationAssumption
    PROVE  Migrate!Spec => []MigrationComplete
  <1>1. Migrate!Init => MigInv
    BY MigInitOK
  <1>2. MigInv /\ [Migrate!Next]_(Migrate!vars) => MigInv'
    BY MigNextOK
  <1>3. MigInv => MigrationComplete
    BY MigImplies DEF MigrationComplete
  <1> QED BY <1>1, <1>2, <1>3, PTL DEF Migrate!Spec

(* No step of the migration changes a new row that exists, takes the       *)
(* account back to an earlier format or an earlier marker, or loses a      *)
(* change of the device's own records made while it publishes.             *)
THEOREM MigrationStands ==
    ASSUME Migrate!MigrationAssumption
    PROVE  Migrate!Spec => MigrationNeverUndoes
  <1>1. Migrate!Init => MigInv
    BY MigInitOK
  <1>2. MigInv /\ [Migrate!Next]_(Migrate!vars) => MigInv'
    BY MigNextOK
  <1>3. MigInv /\ [Migrate!Next]_(Migrate!vars) =>
          /\ [\A h \in Host : migTyped[h] > 0 => migTyped'[h] >= migTyped[h]]_(Migrate!vars)
          /\ [/\ migMeta'.schema >= migMeta.schema
              /\ migMeta.gate = "active" => migMeta'.gate = "active"]_(Migrate!vars)
          /\ [\A d \in Device : migLocal'[d] >= migLocal[d]]_(Migrate!vars)
    BY MigNextOK
  <1> QED BY <1>1, <1>2, <1>3, PTL
      DEF Migrate!Spec, MigrationNeverUndoes, Migrate!ConversionNeverOverwrites,
          Migrate!NeverDowngraded, Migrate!LocalEditsSurvive
=============================================================================
