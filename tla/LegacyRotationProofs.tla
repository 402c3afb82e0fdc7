------------------------ MODULE LegacyRotationProofs ------------------------
(***************************************************************************)
(* Proofs about LegacyRotation, for any devices, spaces and edits, any     *)
(* number of changes of code at once, of failures and of restarts.         *)
(*                                                                         *)
(* A device acts on a progress record it saved long ago, or finds again in *)
(* an older form after a restart.  So StateOK says of the state in memory  *)
(* and of the file alike what the relay looks like at the step it names:   *)
(* from the copy on everything is frozen for good (Sealed), so that what   *)
(* was copied stays complete.  The second part, CodesOK, follows the code  *)
(* through the two slots of the keychain.                                  *)
(***************************************************************************)
EXTENDS LegacyRotation, TLAPS

Late == {"copying", "deleting", "switching"}
Copied == {"deleting", "switching"}

(* The old account and every space it lists are frozen: nothing is         *)
(* accepted any more.                                                      *)
Sealed == acctFrozen /\ \A s \in listed : chain[s] # "open"

(* A new account holds all that the old one accepted. *)
Complete(c) ==
    listed \subseteq published[c] /\ \A s \in listed : rows[s] \subseteq target[c][s]

Gone == \E s \in Space : chain[s] = "gone"

(* What a state of a device, in memory or on disk, says of the relay. *)
StateOK(d, st) ==
    /\ st.rot # NoRot =>
          /\ st.account = Old
          /\ st.rot.step \in Late => d \in markers /\ Sealed
          /\ st.rot.step \notin Late => st.rot.copied = {}
          /\ \A s \in st.rot.copied \cap listed : rows[s] \subseteq target[st.rot.code][s]
          /\ st.rot.step \in Copied => Complete(st.rot.code)
    /\ st.account \in Code => Complete(st.account) /\ Sealed
    /\ d \in markers /\ st.account = Old =>
          /\ st.rot # NoRot /\ st.rot.step \notin Cancellable
          /\ Gone => st.rot.step \in Copied

StatesOK == \A d \in Device : \A st \in {mem[d], disk[d]} : StateOK(d, st)

(* What a task that has begun still knows. *)
TasksOK ==
    \A d \in Device :
        /\ bg[d].at = "yield" => d \notin markers
        /\ cmd[d].at = "start" => cmd[d].code \in Code
        /\ cmd[d].at = "rejoin" => cmd[d].code \in shown

RelayOK ==
    /\ \A s \in listed : chain[s] # "none"
    /\ \A d \in Device : \A s \in fresh[d] : chain[s] # "none"
    /\ \A c \in shown : Complete(c) /\ Sealed
    /\ Gone => acctFrozen /\ \A d, e \in markers : d = e

(* An edit is with its maker or was accepted. *)
Somewhere(e) ==
    \/ e \in dirty[MakerOf[e]] \cup kept[MakerOf[e]]
    \/ e \in rows[SpaceOf[e]]
    \/ \E c \in Code : e \in target[c][SpaceOf[e]]

EditsOK == \A e \in edited : Somewhere(e)

IInv == TypeOK /\ StatesOK /\ TasksOK /\ RelayOK /\ EditsOK

-----------------------------------------------------------------------------
(* What save_core leaves behind: memory holds the new state, the file the  *)
(* new or the old one, and nothing else of the device changes.             *)
LEMMA SaveFacts ==
    ASSUME LegacyRotationAssumption, TypeOK, NEW d \in Device, NEW m \in State, Save(d, m)
    PROVE  /\ mem' \in [Device -> State] /\ disk' \in [Device -> State]
           /\ mem'[d] = m /\ disk'[d] \in {disk[d], m}
           /\ \A x \in Device \ {d} : mem'[x] = mem[x] /\ disk'[x] = disk[x]
           /\ saveFailures' \in Nat
  <1>1. saveFailures' \in Nat
    BY DEF LegacyRotationAssumption, TypeOK, Save
  <1>2. mem' = [mem EXCEPT ![d] = m] /\ disk' \in {disk, [disk EXCEPT ![d] = m]}
    BY DEF Save, Put
  <1>3. mem \in [Device -> State] /\ disk \in [Device -> State]
    BY DEF TypeOK
  <1>4. mem' \in [Device -> State] /\ disk' \in [Device -> State]
    BY <1>2, <1>3
  <1>5. /\ mem'[d] = m /\ disk'[d] \in {disk[d], m}
        /\ \A x \in Device \ {d} : mem'[x] = mem[x] /\ disk'[x] = disk[x]
    BY <1>2, <1>3
  <1> QED BY <1>1, <1>4, <1>5

(* A deletion of the staged code succeeds, or leaves it where it was. *)
LEMMA DeleteFacts ==
    ASSUME LegacyRotationAssumption, TypeOK, NEW d \in Device, DeleteStaged(d)
    PROVE  next' \in [Device -> Code \cup {NoCode}] /\ keychainFailures' \in Nat
  <1>1. next' \in {next, [next EXCEPT ![d] = NoCode]}
    BY DEF DeleteStaged, Put
  <1>2. keychainFailures' \in {keychainFailures, keychainFailures + 1}
    BY DEF DeleteStaged
  <1> QED BY <1>1, <1>2 DEF TypeOK

(* Writing a code to the keychain leaves codes there, or fails. *)
LEMMA SetCodeFacts ==
    ASSUME LegacyRotationAssumption, TypeOK, NEW d \in Device,
           NEW c \in Code \cup {NoCode}, SetCode(d, c)
    PROVE  /\ cur' \in [Device -> {Old, NoCode} \cup Code]
           /\ next' \in [Device -> Code \cup {NoCode}]
           /\ keychainFailures' \in Nat
  <1>1. keychainFailures' \in Nat
    BY DEF LegacyRotationAssumption, TypeOK, SetCode
  <1>2. \/ cur' = [cur EXCEPT ![d] = c] /\ next' = [next EXCEPT ![d] = NoCode]
        \/ cur' = cur /\ next' = next
    BY DEF SetCode, Put, keychain
  <1>3. /\ cur \in [Device -> {Old, NoCode} \cup Code]
        /\ next \in [Device -> Code \cup {NoCode}]
    BY DEF TypeOK
  <1>4. CASE cur' = [cur EXCEPT ![d] = c] /\ next' = [next EXCEPT ![d] = NoCode]
    BY <1>1, <1>3, <1>4
  <1>5. CASE cur' = cur /\ next' = next
    BY <1>1, <1>3, <1>5
  <1> QED BY <1>2, <1>4, <1>5

(* The parts of a state. *)
LEMMA StateParts ==
    ASSUME NEW st \in State
    PROVE  /\ st.account \in Account /\ st.frozen \in BOOLEAN
           /\ st.rot # NoRot =>
                 /\ st.rot \in Rotation /\ st.rot.code \in Code /\ st.rot.step \in Step
                 /\ st.rot.plan \subseteq Space /\ st.rot.copied \subseteq Space
                 /\ st.rot.deleted \subseteq Space /\ st.rot.created \in BOOLEAN
  BY DEF State, Rotation

(* update_rotation changes the step and nothing else. *)
LEMMA StepState ==
    ASSUME LegacyRotationAssumption, NEW st \in State, st.rot # NoRot, NEW step \in Step
    PROVE  LET m == [st EXCEPT !.rot.step = step] IN
           /\ m \in State /\ m.account = st.account /\ m.frozen = st.frozen
           /\ m.rot # NoRot /\ m.rot.step = step /\ m.rot.code = st.rot.code
           /\ m.rot.plan = st.rot.plan /\ m.rot.created = st.rot.created
           /\ m.rot.copied = st.rot.copied /\ m.rot.deleted = st.rot.deleted
  <1>1. st.rot \in Rotation
    BY StateParts
  <1>2. [st.rot EXCEPT !.step = step] \in Rotation
    BY <1>1 DEF Rotation
  <1>3. [st EXCEPT !.rot.step = step] = [st EXCEPT !.rot = [st.rot EXCEPT !.step = step]]
    BY DEF State
  <1> QED BY <1>1, <1>2, <1>3 DEF LegacyRotationAssumption, State, Rotation

(* A step of one device that leaves the relay, the edits and the shown     *)
(* codes alone: it is enough to look at that device.                       *)
Alone(d) ==
    \A x \in Device \ {d} :
        /\ mem'[x] = mem[x] /\ disk'[x] = disk[x]
        /\ bg'[x] = bg[x] /\ cmd'[x] = cmd[x]

Quiet == UNCHANGED <<relayVars, fresh, dirty, kept, edited, shown>>

TaskOK(d) ==
    /\ bg[d].at = "yield" => d \notin markers
    /\ cmd[d].at = "start" => cmd[d].code \in Code
    /\ cmd[d].at = "rejoin" => cmd[d].code \in shown

(* A step of one device that leaves relay and edits alone: it is enough to *)
(* look at the states and tasks of that device.                            *)
LEMMA QuietStep ==
    ASSUME IInv, NEW d \in Device, TypeOK', Quiet, Alone(d), TaskOK(d)',
           \A st \in {mem'[d], disk'[d]} : StateOK(d, st)
    PROVE  IInv'
  <1>1. \A x \in Device : \A st : StateOK(x, st) => StateOK(x, st)'
    BY DEF StateOK, Sealed, Complete, Gone, Quiet, relayVars
  <1>2. StatesOK'
    BY <1>1 DEF IInv, StatesOK, Alone
  <1>3. TasksOK'
    BY DEF IInv, TasksOK, TaskOK, Alone, Quiet, relayVars
  <1>4. RelayOK' /\ EditsOK'
    BY DEF IInv, RelayOK, EditsOK, Somewhere, Sealed, Complete, Gone, Quiet, relayVars
  <1> QED BY <1>2, <1>3, <1>4 DEF IInv

(* A round pulls the account. *)
LEMMA PullAccountKeeps ==
    ASSUME LegacyRotationAssumption, IInv, NEW d \in Device, PullAccount(d)
    PROVE  IInv'
  <1> USE LegacyRotationAssumption
  <1>1. TypeOK /\ TaskOK(d) /\ StateOK(d, mem[d]) /\ StateOK(d, disk[d])
    BY DEF IInv, StatesOK, TasksOK, TaskOK
  <1>2. TypeOK'
    <2>1. seen' \in [Device -> SUBSET Space]
      BY <1>1 DEF TypeOK, PullAccount, Put
    <2>2. bg' \in [Device -> BgTask] /\ live' \in [Device -> BOOLEAN]
      BY <1>1 DEF TypeOK, PullAccount, Put, At, Idle, BgTask
    <2> QED BY <1>1, <2>1, <2>2 DEF TypeOK, PullAccount, Rotating, Rot,
                relayVars, keychain, history, bounds
  <1>3. Quiet /\ Alone(d) /\ mem' = mem /\ disk' = disk
    BY <1>1 DEF TypeOK, PullAccount, Quiet, Alone, Put, relayVars, known, history, bounds
  <1>4. TaskOK(d)'
    BY <1>1 DEF TypeOK, PullAccount, TaskOK, Put, At, Idle, relayVars, history
  <1> QED BY <1>1, <1>2, <1>3, <1>4, QuietStep

(* The staged code is looked for. *)
LEMMA CheckCodeKeeps ==
    ASSUME LegacyRotationAssumption, IInv, NEW d \in Device, CheckCode(d)
    PROVE  IInv'
  <1> USE LegacyRotationAssumption
  <1>1. TypeOK /\ TaskOK(d) /\ StateOK(d, mem[d]) /\ StateOK(d, disk[d])
    BY DEF IInv, StatesOK, TasksOK, TaskOK
  <1>2. TypeOK'
    BY <1>1 DEF TypeOK, CheckCode, Put, At, Idle, BgTask, CmdTask, Rotating, Rot,
                relayVars, keychain, known, history, bounds
  <1>3. Quiet /\ Alone(d) /\ mem' = mem /\ disk' = disk
    BY <1>1 DEF TypeOK, CheckCode, Quiet, Alone, Put, relayVars, known, history, bounds
  <1>4. TaskOK(d)'
    BY <1>1 DEF TypeOK, CheckCode, TaskOK, Put, At, Idle, relayVars, history
  <1> QED BY <1>1, <1>2, <1>3, <1>4, QuietStep

(* The relay refused the marker: this device has none. *)
LEMMA LoseRaceKeeps ==
    ASSUME LegacyRotationAssumption, IInv, NEW d \in Device, LoseRace(d)
    PROVE  IInv'
  <1> USE LegacyRotationAssumption
  <1>1. TypeOK /\ TaskOK(d) /\ StateOK(d, mem[d]) /\ StateOK(d, disk[d])
    BY DEF IInv, StatesOK, TasksOK, TaskOK
  <1>2. TypeOK'
    BY <1>1 DEF TypeOK, LoseRace, Put, At, Idle, BgTask, CmdTask, Rotating, Rot,
                relayVars, keychain, known, history, bounds
  <1>3. Quiet /\ Alone(d) /\ mem' = mem /\ disk' = disk
    BY <1>1 DEF TypeOK, LoseRace, Quiet, Alone, Put, relayVars, known, history, bounds
  <1>4. TaskOK(d)'
    BY <1>1 DEF TypeOK, LoseRace, TaskOK, Put, At, Idle, relayVars, history
  <1> QED BY <1>1, <1>2, <1>3, <1>4, QuietStep

(* The staged code of a change given up is deleted. *)
LEMMA UnstageKeeps ==
    ASSUME LegacyRotationAssumption, IInv, NEW d \in Device, Unstage(d)
    PROVE  IInv'
  <1> USE LegacyRotationAssumption
  <1>1. TypeOK /\ TaskOK(d) /\ StateOK(d, mem[d]) /\ StateOK(d, disk[d])
    BY DEF IInv, StatesOK, TasksOK, TaskOK
  <1>2. TypeOK'
    <2>1. next' \in [Device -> Code \cup {NoCode}] /\ keychainFailures' \in Nat
      BY <1>1, DeleteFacts DEF Unstage
    <2> QED BY <1>1, <2>1 DEF TypeOK, Unstage, Put, At, Idle, BgTask, CmdTask, Rotating, Rot,
                              relayVars, known, history
  <1>3. Quiet /\ Alone(d) /\ mem' = mem /\ disk' = disk
    BY <1>1 DEF TypeOK, Unstage, Quiet, Alone, Put, relayVars, known, history, bounds
  <1>4. TaskOK(d)'
    BY <1>1 DEF TypeOK, Unstage, TaskOK, Put, At, Idle, relayVars, history
  <1> QED BY <1>1, <1>2, <1>3, <1>4, QuietStep

(* The new code takes the place of the old one. *)
LEMMA PromoteKeeps ==
    ASSUME LegacyRotationAssumption, IInv, NEW d \in Device, Promote(d)
    PROVE  IInv'
  <1> USE LegacyRotationAssumption
  <1>1. TypeOK /\ TaskOK(d) /\ StateOK(d, mem[d]) /\ StateOK(d, disk[d])
    BY DEF IInv, StatesOK, TasksOK, TaskOK
  <1>2. TypeOK'
    <2>1. \E c \in Code \cup {NoCode} : SetCode(d, c)
      BY <1>1 DEF TypeOK, Promote, BgTask, CmdTask
    <2>2. bg' \in [Device -> BgTask] /\ cmd' \in [Device -> CmdTask]
      <3>1. bg' \in {bg, [bg EXCEPT ![d] = Idle]} /\ cmd' \in {cmd, [cmd EXCEPT ![d] = Idle]}
        BY DEF Promote, Put
      <3>2. Idle \in BgTask /\ Idle \in CmdTask
        BY DEF Idle, BgTask, CmdTask
      <3>3. bg \in [Device -> BgTask] /\ cmd \in [Device -> CmdTask]
        BY <1>1 DEF TypeOK
      <3>4. bg' \in [Device -> BgTask]
        BY <3>1, <3>2, <3>3
      <3>5. cmd' \in [Device -> CmdTask]
        BY <3>1, <3>2, <3>3
      <3> QED BY <3>4, <3>5
    <2>3. swap' \in [Device -> BOOLEAN]
      BY <1>1 DEF TypeOK, Promote, Put
    <2> QED BY <1>1, <2>1, <2>2, <2>3, SetCodeFacts DEF TypeOK, Promote, Rotating, Rot,
                relayVars, known, history
  <1>3. Quiet /\ Alone(d) /\ mem' = mem /\ disk' = disk
    BY <1>1 DEF TypeOK, Promote, SetCode, Quiet, Alone, Put, relayVars, known, history, bounds
  <1>4. TaskOK(d)'
    BY <1>1 DEF TypeOK, Promote, SetCode, TaskOK, Put, At, Idle, relayVars, history
  <1> QED BY <1>1, <1>2, <1>3, <1>4, QuietStep

(* The new code takes the place of the old one, later. *)
LEMMA RetrySwapKeeps ==
    ASSUME LegacyRotationAssumption, IInv, NEW d \in Device, RetrySwap(d)
    PROVE  IInv'
  <1> USE LegacyRotationAssumption
  <1>1. TypeOK /\ TaskOK(d) /\ StateOK(d, mem[d]) /\ StateOK(d, disk[d])
    BY DEF IInv, StatesOK, TasksOK, TaskOK
  <1>2. TypeOK'
    <2>1. /\ cur' \in [Device -> {Old, NoCode} \cup Code]
          /\ next' \in [Device -> Code \cup {NoCode}]
          /\ keychainFailures' \in Nat
      <3>1. CASE next[d] = mem[d].account
        <4>1. next[d] \in Code \cup {NoCode}
          BY <1>1 DEF TypeOK
        <4> QED BY <1>1, <3>1, <4>1, SetCodeFacts DEF RetrySwap
      <3> QED BY <1>1, <3>1 DEF TypeOK, RetrySwap, keychain
    <2>2. swap' \in [Device -> BOOLEAN]
      <3>1. PICK v \in BOOLEAN : swap' = [swap EXCEPT ![d] = v]
        BY DEF RetrySwap, Put
      <3> QED BY <1>1, <3>1 DEF TypeOK
    <2> QED BY <1>1, <2>1, <2>2 DEF TypeOK, RetrySwap, Rotating, Rot, relayVars, known, history
  <1>3. Quiet /\ Alone(d) /\ mem' = mem /\ disk' = disk
    BY <1>1 DEF TypeOK, RetrySwap, SetCode, Quiet, Alone, Put, relayVars, known, history, bounds
  <1>4. TaskOK(d)'
    BY <1>1 DEF TypeOK, RetrySwap, SetCode, TaskOK, Put, At, Idle, relayVars, history
  <1> QED BY <1>1, <1>2, <1>3, <1>4, QuietStep

(* start_rotation stages a code. *)
LEMMA StartStageKeeps ==
    ASSUME LegacyRotationAssumption, IInv, NEW d \in Device, StartStage(d)
    PROVE  IInv'
  <1> USE LegacyRotationAssumption
  <1>1. TypeOK /\ TaskOK(d) /\ StateOK(d, mem[d]) /\ StateOK(d, disk[d])
    BY DEF IInv, StatesOK, TasksOK, TaskOK
  <1>2. TypeOK'
    BY <1>1 DEF TypeOK, StartStage, NewCode, Code, Put, At, Idle, BgTask, CmdTask, Rotating, Rot,
                relayVars, keychain, known, history, bounds
  <1>3. Quiet /\ Alone(d) /\ mem' = mem /\ disk' = disk
    BY <1>1 DEF TypeOK, StartStage, Quiet, Alone, Put, relayVars, known, history, bounds
  <1>4. TaskOK(d)'
    BY <1>1 DEF TypeOK, StartStage, NewCode, Code, TaskOK, Put, At, Idle, relayVars, history
  <1> QED BY <1>1, <1>2, <1>3, <1>4, QuietStep

(* A command deletes the staged code of a change it cancelled. *)
LEMMA CommandUnstageKeeps ==
    ASSUME LegacyRotationAssumption, IInv, NEW d \in Device, CommandUnstage(d)
    PROVE  IInv'
  <1> USE LegacyRotationAssumption
  <1>1. TypeOK /\ TaskOK(d) /\ StateOK(d, mem[d]) /\ StateOK(d, disk[d])
    BY DEF IInv, StatesOK, TasksOK, TaskOK
  <1>2. TypeOK'
    <2>1. next' \in [Device -> Code \cup {NoCode}] /\ keychainFailures' \in Nat
      BY <1>1, DeleteFacts DEF CommandUnstage
    <2> QED BY <1>1, <2>1 DEF TypeOK, CommandUnstage, Put, At, Idle, BgTask, CmdTask, Rotating, Rot,
                              relayVars, known, history
  <1>3. Quiet /\ Alone(d) /\ mem' = mem /\ disk' = disk
    BY <1>1 DEF TypeOK, CommandUnstage, Quiet, Alone, Put, relayVars, known, history, bounds
  <1>4. TaskOK(d)'
    BY <1>1 DEF TypeOK, CommandUnstage, TaskOK, Put, At, Idle, relayVars, history
  <1> QED BY <1>1, <1>2, <1>3, <1>4, QuietStep

(* Leaving deletes both codes, or fails to. *)
LEMMA LeaveForgetKeeps ==
    ASSUME LegacyRotationAssumption, IInv, NEW d \in Device, LeaveForget(d)
    PROVE  IInv'
  <1> USE LegacyRotationAssumption
  <1>1. TypeOK /\ TaskOK(d) /\ StateOK(d, mem[d]) /\ StateOK(d, disk[d])
    BY DEF IInv, StatesOK, TasksOK, TaskOK
  <1>2. TypeOK'
    <2>1. /\ next' = next \/ next' = [next EXCEPT ![d] = NoCode]
          /\ cur' = cur \/ cur' = [cur EXCEPT ![d] = NoCode]
      BY Zenon DEF LeaveForget, Put
    <2>2. keychainFailures' = keychainFailures \/ keychainFailures' = keychainFailures + 1
      BY DEF LeaveForget
    <2>3. next' \in [Device -> Code \cup {NoCode}] /\ keychainFailures' \in Nat
      BY <1>1, <2>1, <2>2 DEF TypeOK
    <2>4. cur' \in [Device -> {Old, NoCode} \cup Code]
      BY <1>1, <2>1 DEF TypeOK
    <2> QED BY <1>1, <2>3, <2>4 DEF TypeOK, LeaveForget, Put, At, Idle, BgTask, CmdTask,
                                   Rotating, Rot, relayVars, known, history
  <1>3. Quiet /\ Alone(d) /\ mem' = mem /\ disk' = disk
    BY <1>1 DEF TypeOK, LeaveForget, Quiet, Alone, Put, relayVars, known, history, bounds
  <1>4. TaskOK(d)'
    BY <1>1 DEF TypeOK, LeaveForget, TaskOK, Put, At, Idle, relayVars, history
  <1> QED BY <1>1, <1>2, <1>3, <1>4, QuietStep

(* Leaving is refused and nothing else changes. *)
LEMMA LeaveRefusedKeeps ==
    ASSUME LegacyRotationAssumption, IInv, NEW d \in Device, LeaveRefused(d)
    PROVE  IInv'
  <1> USE LegacyRotationAssumption
  <1>1. TypeOK /\ TaskOK(d) /\ StateOK(d, mem[d]) /\ StateOK(d, disk[d])
    BY DEF IInv, StatesOK, TasksOK, TaskOK
  <1>2. TypeOK'
    BY <1>1 DEF TypeOK, LeaveRefused, Put, At, Idle, BgTask, CmdTask, Rotating, Rot,
                relayVars, keychain, known, history, bounds
  <1>3. Quiet /\ Alone(d) /\ mem' = mem /\ disk' = disk
    BY <1>1 DEF TypeOK, LeaveRefused, Quiet, Alone, Put, relayVars, known, history, bounds
  <1>4. TaskOK(d)'
    BY <1>1 DEF TypeOK, LeaveRefused, TaskOK, Put, At, Idle, relayVars, history
  <1> QED BY <1>1, <1>2, <1>3, <1>4, QuietStep

(* A code that was shown is staged. *)
LEMMA RejoinStageKeeps ==
    ASSUME LegacyRotationAssumption, IInv, NEW d \in Device, NEW c \in Code, RejoinStage(d, c)
    PROVE  IInv'
  <1> USE LegacyRotationAssumption
  <1>1. TypeOK /\ TaskOK(d) /\ StateOK(d, mem[d]) /\ StateOK(d, disk[d])
    BY DEF IInv, StatesOK, TasksOK, TaskOK
  <1>2. TypeOK'
    BY <1>1 DEF TypeOK, RejoinStage, Put, At, Idle, BgTask, CmdTask, Rotating, Rot,
                relayVars, keychain, known, history, bounds
  <1>3. Quiet /\ Alone(d) /\ mem' = mem /\ disk' = disk
    BY <1>1 DEF TypeOK, RejoinStage, Quiet, Alone, Put, relayVars, known, history, bounds
  <1>4. TaskOK(d)'
    BY <1>1 DEF TypeOK, RejoinStage, TaskOK, Put, At, Idle, relayVars, history
  <1> QED BY <1>1, <1>2, <1>3, <1>4, QuietStep

-----------------------------------------------------------------------------
(* The states of a device after a step fit the relay. *)
Stored(d) ==
    /\ mem' \in [Device -> State] /\ disk' \in [Device -> State]
    /\ \A x \in Device \ {d} : mem'[x] = mem[x] /\ disk'[x] = disk[x]
    /\ \A st \in {mem'[d], disk'[d]} : StateOK(d, st)
    /\ saveFailures' \in Nat
    /\ \A x \in Device : mem'[x].rot # NoRot => mem'[x].account = Old

(* Whether a save succeeds or not, it is enough that the new state fits. *)
LEMMA SaveStored ==
    ASSUME LegacyRotationAssumption, IInv, NEW d \in Device, NEW m \in State,
           StateOK(d, m), Save(d, m)
    PROVE  Stored(d)
  <1>1. TypeOK /\ StateOK(d, disk[d])
    BY DEF IInv, StatesOK
  <1>2. m.rot # NoRot => m.account = Old
    BY DEF StateOK
  <1>3. \A x \in Device : mem[x].rot # NoRot => mem[x].account = Old
    BY <1>1 DEF TypeOK, Rotating, Rot
  <1> QED BY <1>1, <1>2, <1>3, SaveFacts DEF Stored

(* Nothing is saved. *)
LEMMA UnsavedStored ==
    ASSUME IInv, NEW d \in Device, UNCHANGED <<mem, disk, saveFailures>>
    PROVE  Stored(d)
  <1>1. \A x \in Device : mem[x].rot # NoRot => mem[x].account = Old
    BY DEF IInv, TypeOK, Rotating, Rot
  <1> QED BY <1>1 DEF IInv, TypeOK, StatesOK, Stored

(* A step may always go on from "prepared" to "sent" and to "freezing". *)
LEMMA EarlyStep ==
    ASSUME LegacyRotationAssumption, IInv, NEW d \in Device, Rotating(d),
           StepOf(d) \in Cancellable, NEW step \in {"sent", "freezing"}, SaveStep(d, step)
    PROVE  Stored(d)
  <1> DEFINE m == [mem[d] EXCEPT !.rot.step = step]
  <1>1. mem[d] \in State /\ mem[d].rot # NoRot /\ StateOK(d, mem[d])
        /\ mem[d].rot.step \in Cancellable
    BY DEF IInv, TypeOK, StatesOK, Rotating, Rot, StepOf
  <1>2. /\ m \in State /\ m.account = mem[d].account /\ m.rot # NoRot /\ m.rot.step = step
        /\ m.rot.code = mem[d].rot.code /\ m.rot.copied = mem[d].rot.copied
    <2>1. step \in Step
      BY DEF Step
    <2> QED BY <1>1, <2>1, StepState
  <1>3. Save(d, m)
    BY DEF SaveStep
  <1> HIDE DEF m
  <1>4. StateOK(d, m)
    BY <1>1, <1>2 DEF LegacyRotationAssumption, StateOK, Late, Copied, Cancellable
  <1> QED BY <1>2, <1>3, <1>4, SaveStored

(* A change that has not been marked is given up. *)
LEMMA GiveUp ==
    ASSUME LegacyRotationAssumption, IInv, NEW d \in Device, d \notin markers,
           NEW f \in BOOLEAN, Save(d, [mem[d] EXCEPT !.rot = NoRot, !.frozen = f])
    PROVE  Stored(d)
  <1> DEFINE m == [mem[d] EXCEPT !.rot = NoRot, !.frozen = f]
  <1>1. mem[d] \in State /\ StateOK(d, mem[d])
    BY DEF IInv, TypeOK, StatesOK
  <1>2. m \in State /\ m.account = mem[d].account /\ m.rot = NoRot
    BY <1>1 DEF State
  <1> HIDE DEF m
  <1>3. StateOK(d, m)
    BY <1>1, <1>2 DEF StateOK
  <1> QED BY <1>2, <1>3, SaveStored DEF m

(* The device is blocked and nothing else of its state changes. *)
LEMMA Blocks ==
    ASSUME LegacyRotationAssumption, IInv, NEW d \in Device,
           Save(d, [mem[d] EXCEPT !.frozen = TRUE])
    PROVE  Stored(d)
  <1> DEFINE m == [mem[d] EXCEPT !.frozen = TRUE]
  <1>1. mem[d] \in State /\ StateOK(d, mem[d])
    BY DEF IInv, TypeOK, StatesOK
  <1>2. m \in State /\ m.account = mem[d].account /\ m.rot = mem[d].rot
    BY <1>1 DEF State
  <1> HIDE DEF m
  <1>3. StateOK(d, m)
    BY <1>1, <1>2 DEF StateOK
  <1> QED BY <1>2, <1>3, SaveStored DEF m

(* What memory holds is saved. *)
LEMMA ResaveKeeps ==
    ASSUME LegacyRotationAssumption, IInv, NEW d \in Device, Resave(d)
    PROVE  IInv'
  <1> USE LegacyRotationAssumption
  <1>1. TypeOK /\ TaskOK(d) /\ StateOK(d, mem[d]) /\ StateOK(d, disk[d])
    BY DEF IInv, StatesOK, TasksOK, TaskOK
  <1>2. Stored(d)
    BY <1>1 DEF IInv, TypeOK, StatesOK, Stored, Resave, Put, Rotating, Rot, bounds
  <1>3. TypeOK'
    BY <1>1, <1>2 DEF TypeOK, Stored, Resave, Put, At, Idle, BgTask, CmdTask, Rotating, Rot,
                relayVars, keychain, known, history, bounds
  <1>4. Quiet /\ Alone(d)
    BY <1>1, <1>2 DEF TypeOK, Stored, Resave, Quiet, Alone, Put, relayVars, known, history
  <1>5. TaskOK(d)'
    BY <1>1 DEF TypeOK, Resave, TaskOK, Put, At, Idle, relayVars, history
  <1> QED BY <1>2, <1>3, <1>4, <1>5, QuietStep DEF Stored

(* A device that sees a marker has none itself: a change it has begun can be cancelled. *)
LEMMA SeeMarkersKeeps ==
    ASSUME LegacyRotationAssumption, IInv, NEW d \in Device, SeeMarkers(d)
    PROVE  IInv'
  <1> USE LegacyRotationAssumption
  <1>1. TypeOK /\ TaskOK(d) /\ StateOK(d, mem[d]) /\ StateOK(d, disk[d])
    BY DEF IInv, StatesOK, TasksOK, TaskOK
  <1>2. Stored(d)
    <2>1. CASE Rotating(d)
      BY <2>1, UnsavedStored DEF SeeMarkers
    <2>2. CASE ~Rotating(d)
      BY <2>2, Blocks DEF SeeMarkers
    <2> QED BY <2>1, <2>2
  <1>3. TypeOK'
    <2>1. bg' \in [Device -> BgTask]
      <3>1. bg' \in {bg, [bg EXCEPT ![d] = At("yield", NoCode)]}
        BY DEF SeeMarkers, Put
      <3>2. At("yield", NoCode) \in BgTask
        BY DEF At, Idle, BgTask
      <3>3. bg \in [Device -> BgTask]
        BY <1>1 DEF TypeOK
      <3> QED BY <3>1, <3>2, <3>3
    <2> QED BY <1>1, <1>2, <2>1 DEF TypeOK, Stored, SeeMarkers, Rotating, Rot,
                relayVars, keychain, known, history
  <1>4. Quiet /\ Alone(d)
    BY <1>1, <1>2 DEF TypeOK, Stored, SeeMarkers, Quiet, Alone, Put, relayVars, known, history
  <1>5. TaskOK(d)'
    <2>1. d \notin markers
      <3>1. mem[d].rot # NoRot => mem[d].rot.step \in Step
        BY <1>1, StateParts DEF TypeOK
      <3> QED BY <1>1, <3>1
              DEF SeeMarkers, StateOK, InRound, StepOf, Rotating, Rot, Step, Cancellable
    <2> QED BY <1>1, <2>1 DEF TaskOK, SeeMarkers, relayVars, history
  <1> QED BY <1>2, <1>3, <1>4, <1>5, QuietStep DEF Stored

(* A round ends; a change may go on. *)
LEMMA EndRoundKeeps ==
    ASSUME LegacyRotationAssumption, IInv, NEW d \in Device, EndRound(d)
    PROVE  IInv'
  <1> USE LegacyRotationAssumption
  <1>1. TypeOK /\ TaskOK(d) /\ StateOK(d, mem[d]) /\ StateOK(d, disk[d])
    BY DEF IInv, StatesOK, TasksOK, TaskOK
  <1>2. Stored(d)
    <2>1. CASE StepOf(d) = "prepared" /\ SaveStep(d, "sent")
      BY <2>1, EarlyStep DEF Rotating, StepOf, Cancellable
    <2> QED BY <2>1, UnsavedStored DEF EndRound
  <1>3. TypeOK'
    BY <1>1, <1>2 DEF TypeOK, Stored, EndRound, Put, At, Idle, BgTask, CmdTask, Rotating, Rot,
                relayVars, keychain, known, history, bounds
  <1>4. Quiet /\ Alone(d)
    BY <1>1, <1>2 DEF TypeOK, Stored, EndRound, Quiet, Alone, Put, relayVars, known, history
  <1>5. TaskOK(d)'
    BY <1>1 DEF TypeOK, EndRound, TaskOK, Put, At, Idle, relayVars, history
  <1> QED BY <1>2, <1>3, <1>4, <1>5, QuietStep DEF Stored

(* The change can no longer be cancelled. *)
LEMMA EnterFreezingKeeps ==
    ASSUME LegacyRotationAssumption, IInv, NEW d \in Device, EnterFreezing(d)
    PROVE  IInv'
  <1> USE LegacyRotationAssumption
  <1>1. TypeOK /\ TaskOK(d) /\ StateOK(d, mem[d]) /\ StateOK(d, disk[d])
    BY DEF IInv, StatesOK, TasksOK, TaskOK
  <1>2. Stored(d)
    <2>1. CASE StepOf(d) = "sent"
      BY <2>1, EarlyStep DEF EnterFreezing, Rotating, StepOf, Cancellable
    <2>2. CASE StepOf(d) # "sent"
      BY <2>2, UnsavedStored DEF EnterFreezing
    <2> QED BY <2>1, <2>2
  <1>3. TypeOK'
    BY <1>1, <1>2 DEF TypeOK, Stored, EnterFreezing, Put, At, Idle, BgTask, CmdTask, Rotating, Rot,
                relayVars, keychain, known, history, bounds
  <1>4. Quiet /\ Alone(d)
    BY <1>1, <1>2 DEF TypeOK, Stored, EnterFreezing, Quiet, Alone, Put, relayVars, known, history
  <1>5. TaskOK(d)'
    BY <1>1 DEF TypeOK, EnterFreezing, TaskOK, Put, At, Idle, relayVars, history
  <1> QED BY <1>2, <1>3, <1>4, <1>5, QuietStep DEF Stored

(* A change without a marker is given up for another. *)
LEMMA YieldKeeps ==
    ASSUME LegacyRotationAssumption, IInv, NEW d \in Device, Yield(d)
    PROVE  IInv'
  <1> USE LegacyRotationAssumption
  <1>1. TypeOK /\ TaskOK(d) /\ StateOK(d, mem[d]) /\ StateOK(d, disk[d])
    BY DEF IInv, StatesOK, TasksOK, TaskOK
  <1>2. Stored(d)
    <2>1. d \notin markers
      BY <1>1 DEF TaskOK, Yield
    <2> QED BY <2>1, GiveUp DEF Yield
  <1>3. TypeOK'
    BY <1>1, <1>2 DEF TypeOK, Stored, Yield, Put, At, Idle, BgTask, CmdTask, Rotating, Rot,
                relayVars, keychain, known, history, bounds
  <1>4. Quiet /\ Alone(d)
    BY <1>1, <1>2 DEF TypeOK, Stored, Yield, Quiet, Alone, Put, relayVars, known, history
  <1>5. TaskOK(d)'
    BY <1>1 DEF TypeOK, Yield, TaskOK, Put, At, Idle, relayVars, history
  <1> QED BY <1>2, <1>3, <1>4, <1>5, QuietStep DEF Stored

(* A change is cancelled before its marker is on the account. *)
LEMMA CancelKeeps ==
    ASSUME LegacyRotationAssumption, IInv, NEW d \in Device, Cancel(d)
    PROVE  IInv'
  <1> USE LegacyRotationAssumption
  <1>1. TypeOK /\ TaskOK(d) /\ StateOK(d, mem[d]) /\ StateOK(d, disk[d])
    BY DEF IInv, StatesOK, TasksOK, TaskOK
  <1>2. Stored(d)
    <2>1. d \notin markers
      BY <1>1 DEF StateOK, Cancel, StepOf, Rotating, Rot, Cancellable
    <2>2. mem[d].frozen \in BOOLEAN /\ mem[d] \in State
      BY <1>1 DEF TypeOK, State
    <2>3. [mem[d] EXCEPT !.rot = NoRot] = [mem[d] EXCEPT !.rot = NoRot, !.frozen = mem[d].frozen]
      BY <2>2 DEF State
    <2> QED BY <2>1, <2>2, <2>3, GiveUp DEF Cancel
  <1>3. TypeOK'
    BY <1>1, <1>2 DEF TypeOK, Stored, Cancel, Put, At, Idle, BgTask, CmdTask, Rotating, Rot,
                relayVars, keychain, known, history, bounds
  <1>4. Quiet /\ Alone(d)
    BY <1>1, <1>2 DEF TypeOK, Stored, Cancel, Quiet, Alone, Put, relayVars, known, history
  <1>5. TaskOK(d)'
    BY <1>1 DEF TypeOK, Cancel, TaskOK, Put, At, Idle, relayVars, history
  <1> QED BY <1>2, <1>3, <1>4, <1>5, QuietStep DEF Stored

(* Leaving cancels a change before its marker is on the account. *)
LEMMA LeaveDecideKeeps ==
    ASSUME LegacyRotationAssumption, IInv, NEW d \in Device, LeaveDecide(d)
    PROVE  IInv'
  <1> USE LegacyRotationAssumption
  <1>1. TypeOK /\ TaskOK(d) /\ StateOK(d, mem[d]) /\ StateOK(d, disk[d])
    BY DEF IInv, StatesOK, TasksOK, TaskOK
  <1>2. Stored(d)
    <2>1. CASE StepOf(d) \in Cancellable
      <3>1. d \notin markers
        BY <1>1, <2>1 DEF StateOK, StepOf, Rotating, Rot, Cancellable
      <3>2. mem[d].frozen \in BOOLEAN /\ mem[d] \in State
        BY <1>1 DEF TypeOK, State
      <3>3. [mem[d] EXCEPT !.rot = NoRot]
              = [mem[d] EXCEPT !.rot = NoRot, !.frozen = mem[d].frozen]
        BY <3>2 DEF State
      <3> QED BY <2>1, <3>1, <3>2, <3>3, GiveUp DEF LeaveDecide
    <2>2. CASE StepOf(d) \notin Cancellable
      BY <2>2, UnsavedStored DEF LeaveDecide
    <2> QED BY <2>1, <2>2
  <1>3. TypeOK'
    <2>1. cmd' \in [Device -> CmdTask] /\ live' \in [Device -> BOOLEAN]
      <3>1. /\ \/ cmd' = [cmd EXCEPT ![d] = At("unstage", NoCode)]
               \/ cmd' = [cmd EXCEPT ![d] = At("leave", NoCode)]
            /\ live' \in {live, [live EXCEPT ![d] = FALSE]}
        BY DEF LeaveDecide, Put
      <3>2. At("unstage", NoCode) \in CmdTask /\ At("leave", NoCode) \in CmdTask
        BY DEF At, Idle, CmdTask
      <3>3. cmd \in [Device -> CmdTask] /\ live \in [Device -> BOOLEAN]
        BY <1>1 DEF TypeOK
      <3>4. cmd' \in [Device -> CmdTask]
        BY <3>1, <3>2, <3>3
      <3>5. live' \in [Device -> BOOLEAN]
        BY <3>1, <3>3
      <3> QED BY <3>4, <3>5
    <2> QED BY <1>1, <1>2, <2>1 DEF TypeOK, Stored, LeaveDecide, Rotating, Rot,
                relayVars, keychain, known, history
  <1>4. Quiet /\ Alone(d)
    BY <1>1, <1>2 DEF TypeOK, Stored, LeaveDecide, Quiet, Alone, Put, relayVars, known, history
  <1>5. TaskOK(d)'
    <2>1. cmd'[d].at \in {"unstage", "leave"}
      <3>1. cmd' \in {Put(cmd, d, At("unstage", NoCode)), Put(cmd, d, At("leave", NoCode))}
        BY DEF LeaveDecide
      <3>2. cmd'[d] \in {At("unstage", NoCode), At("leave", NoCode)}
        BY <1>1, <3>1 DEF TypeOK, Put
      <3>3. At("unstage", NoCode).at = "unstage" /\ At("leave", NoCode).at = "leave"
        BY DEF At, Idle
      <3> QED BY <3>2, <3>3
    <2> QED BY <1>1, <2>1 DEF TaskOK, LeaveDecide, relayVars, history
  <1> QED BY <1>2, <1>3, <1>4, <1>5, QuietStep DEF Stored

(* A change is recorded: this device has no marker, as it has no change. *)
LEMMA StartRecordKeeps ==
    ASSUME LegacyRotationAssumption, IInv, NEW d \in Device, StartRecord(d)
    PROVE  IInv'
  <1> USE LegacyRotationAssumption
  <1>1. TypeOK /\ TaskOK(d) /\ StateOK(d, mem[d]) /\ StateOK(d, disk[d])
    BY DEF IInv, StatesOK, TasksOK, TaskOK
  <1>2. Stored(d)
    <2>1. CASE AccountReady(d)
      <3> DEFINE r == [code |-> cmd[d].code, step |-> "prepared", plan |-> cmd[d].plan,
                       created |-> FALSE, copied |-> {}, deleted |-> {}]
                 m == [mem[d] EXCEPT !.rot = r]
      <3>1. mem[d] \in State /\ mem[d].account = Old /\ mem[d].rot = NoRot /\ d \notin markers
        BY <1>1, <2>1 DEF TypeOK, StateOK, AccountReady, Rotating, Rot
      <3>2. cmd[d].code \in Code /\ cmd[d].plan \in SUBSET Space
        BY <1>1 DEF TypeOK, CmdTask, TaskOK, StartRecord
      <3>3. r \in Rotation
        BY <3>2 DEF Rotation, Step
      <3>4. r # NoRot /\ r.step = "prepared" /\ r.copied = {}
        BY <3>3 DEF LegacyRotationAssumption
      <3> HIDE DEF r
      <3>5. m \in State /\ m.account = Old /\ m.rot = r
        BY <3>1, <3>3 DEF State
      <3>6. Save(d, m)
        BY <2>1 DEF StartRecord, r
      <3> HIDE DEF m
      <3>7. StateOK(d, m)
        BY <3>1, <3>4, <3>5 DEF LegacyRotationAssumption, StateOK, Late, Copied
      <3> QED BY <3>5, <3>6, <3>7, SaveStored
    <2>2. CASE ~AccountReady(d)
      BY <2>2, UnsavedStored DEF StartRecord
    <2> QED BY <2>1, <2>2
  <1>3. TypeOK'
    <2>1. live' \in [Device -> BOOLEAN]
      <3>1. live' \in {live, [live EXCEPT ![d] = FALSE]}
        BY DEF StartRecord, Put
      <3> QED BY <1>1, <3>1 DEF TypeOK
    <2>2. next' \in [Device -> Code \cup {NoCode}] /\ keychainFailures' \in Nat
      <3>1. UNCHANGED <<next, keychainFailures>> \/ DeleteStaged(d)
        BY DEF StartRecord
      <3> QED BY <1>1, <3>1, DeleteFacts DEF TypeOK
    <2>3. cmd' \in [Device -> CmdTask]
      BY <1>1 DEF TypeOK, StartRecord, Put, Idle, CmdTask
    <2> QED BY <1>1, <1>2, <2>1, <2>2, <2>3 DEF TypeOK, Stored, StartRecord, Rotating, Rot,
                relayVars, known, history
  <1>4. Quiet /\ Alone(d)
    BY <1>1, <1>2 DEF TypeOK, Stored, StartRecord, Quiet, Alone, Put, relayVars, known, history
  <1>5. TaskOK(d)'
    BY <1>1 DEF TypeOK, StartRecord, TaskOK, Put, At, Idle, relayVars, history
  <1> QED BY <1>2, <1>3, <1>4, <1>5, QuietStep DEF Stored

(* Everything the account lists is frozen before the copy. *)
LEMMA EnterCopyingKeeps ==
    ASSUME LegacyRotationAssumption, IInv, NEW d \in Device, EnterCopying(d)
    PROVE  IInv'
  <1> USE LegacyRotationAssumption
  <1>1. TypeOK /\ TaskOK(d) /\ StateOK(d, mem[d]) /\ StateOK(d, disk[d])
    BY DEF IInv, StatesOK, TasksOK, TaskOK
  <1>2. Stored(d)
    <2> DEFINE m == [mem[d] EXCEPT !.rot.step = "copying"]
    <2>1. mem[d] \in State /\ mem[d].rot # NoRot /\ mem[d].rot.step = "freezing"
          /\ d \in markers /\ Sealed
      BY <1>1 DEF TypeOK, EnterCopying, Driving, StepOf, Rotating, Rot, Sealed
    <2>2. /\ m \in State /\ m.account = mem[d].account /\ m.rot # NoRot
          /\ m.rot.step = "copying" /\ m.rot.copied = mem[d].rot.copied
      <3>1. "copying" \in Step
        BY DEF Step
      <3> QED BY <2>1, <3>1, StepState
    <2>3. Save(d, m)
      BY DEF EnterCopying, SaveStep
    <2> HIDE DEF m
    <2>4. ~Gone
      BY <1>1, <2>1 DEF StateOK, Copied
    <2>5. StateOK(d, m)
      BY <1>1, <2>1, <2>2, <2>4 DEF LegacyRotationAssumption, StateOK, Late, Copied, Cancellable
    <2> QED BY <2>2, <2>3, <2>5, SaveStored
  <1>3. TypeOK'
    BY <1>1, <1>2 DEF TypeOK, Stored, EnterCopying, Put, At, Idle, BgTask, CmdTask, Rotating, Rot,
                relayVars, keychain, known, history, bounds
  <1>4. Quiet /\ Alone(d)
    BY <1>1, <1>2 DEF TypeOK, Stored, EnterCopying, Quiet, Alone, Put, relayVars, known, history
  <1>5. TaskOK(d)'
    BY <1>1 DEF TypeOK, EnterCopying, TaskOK, Put, At, Idle, relayVars, history
  <1> QED BY <1>2, <1>3, <1>4, <1>5, QuietStep DEF Stored

(* The old spaces are deleted, or another device marked the account. *)
LEMMA EnterSwitchingKeeps ==
    ASSUME LegacyRotationAssumption, IInv, NEW d \in Device, EnterSwitching(d)
    PROVE  IInv'
  <1> USE LegacyRotationAssumption
  <1>1. TypeOK /\ TaskOK(d) /\ StateOK(d, mem[d]) /\ StateOK(d, disk[d])
    BY DEF IInv, StatesOK, TasksOK, TaskOK
  <1>2. Stored(d)
    <2> DEFINE m == [mem[d] EXCEPT !.rot.step = "switching"]
    <2>1. mem[d] \in State /\ mem[d].rot # NoRot /\ mem[d].rot.step = "deleting"
      BY <1>1 DEF TypeOK, EnterSwitching, Driving, StepOf, Rotating, Rot
    <2>2. /\ m \in State /\ m.account = mem[d].account /\ m.rot # NoRot
          /\ m.rot.step = "switching" /\ m.rot.copied = mem[d].rot.copied
          /\ m.rot.code = mem[d].rot.code
      <3>1. "switching" \in Step
        BY DEF Step
      <3> QED BY <2>1, <3>1, StepState
    <2>3. Save(d, m)
      BY DEF EnterSwitching, SaveStep
    <2> HIDE DEF m
    <2>4. StateOK(d, m)
      BY <1>1, <2>1, <2>2 DEF LegacyRotationAssumption, StateOK, Late, Copied, Cancellable
    <2> QED BY <2>2, <2>3, <2>4, SaveStored
  <1>3. TypeOK'
    BY <1>1, <1>2 DEF TypeOK, Stored, EnterSwitching, Put, At, Idle, BgTask, CmdTask, Rotating, Rot,
                relayVars, keychain, known, history, bounds
  <1>4. Quiet /\ Alone(d)
    BY <1>1, <1>2 DEF TypeOK, Stored, EnterSwitching, Quiet, Alone, Put, relayVars, known, history
  <1>5. TaskOK(d)'
    BY <1>1 DEF TypeOK, EnterSwitching, TaskOK, Put, At, Idle, relayVars, history
  <1> QED BY <1>2, <1>3, <1>4, <1>5, QuietStep DEF Stored

(* The new chains are created. *)
LEMMA CreateChainsKeeps ==
    ASSUME LegacyRotationAssumption, IInv, NEW d \in Device, CreateChains(d)
    PROVE  IInv'
  <1> USE LegacyRotationAssumption
  <1>1. TypeOK /\ TaskOK(d) /\ StateOK(d, mem[d]) /\ StateOK(d, disk[d])
    BY DEF IInv, StatesOK, TasksOK, TaskOK
  <1>2. Stored(d)
    <2> DEFINE r == [mem[d].rot EXCEPT !.plan = @ \cup listed, !.created = TRUE]
               m == [mem[d] EXCEPT !.rot = r]
    <2>1. mem[d] \in State /\ mem[d].rot # NoRot /\ listed \subseteq Space
      BY <1>1 DEF TypeOK, CreateChains, Copying, Driving, StepOf, Rotating, Rot
    <2>2. mem[d].rot \in Rotation
      BY <2>1, StateParts
    <2>3. /\ r \in Rotation /\ r.step = mem[d].rot.step /\ r.code = mem[d].rot.code
          /\ r.copied = mem[d].rot.copied
      BY <2>1, <2>2 DEF Rotation
    <2>4. [mem[d] EXCEPT !.rot.plan = @ \cup listed, !.rot.created = TRUE] = m
      BY <2>1, <2>2 DEF State, Rotation
    <2>5. Save(d, m)
      BY <2>4 DEF CreateChains
    <2> HIDE DEF r
    <2>6. m \in State /\ m.account = mem[d].account /\ m.rot = r /\ r # NoRot
      BY <2>1, <2>3 DEF LegacyRotationAssumption, State
    <2> HIDE DEF m
    <2>7. StateOK(d, m)
      BY <1>1, <2>1, <2>3, <2>6 DEF StateOK
    <2> QED BY <2>5, <2>6, <2>7, SaveStored
  <1>3. TypeOK'
    BY <1>1, <1>2 DEF TypeOK, Stored, CreateChains, Put, At, Idle, BgTask, CmdTask, Rotating, Rot,
                relayVars, keychain, known, history, bounds
  <1>4. Quiet /\ Alone(d)
    BY <1>1, <1>2 DEF TypeOK, Stored, CreateChains, Quiet, Alone, Put, relayVars, known, history
  <1>5. TaskOK(d)'
    BY <1>1 DEF TypeOK, CreateChains, TaskOK, Put, At, Idle, relayVars, history
  <1> QED BY <1>2, <1>3, <1>4, <1>5, QuietStep DEF Stored

(* The process starts again with the state on disk. *)
LEMMA RestartKeeps ==
    ASSUME LegacyRotationAssumption, IInv, NEW d \in Device, Restart(d)
    PROVE  IInv'
  <1> USE LegacyRotationAssumption
  <1>1. TypeOK /\ TaskOK(d) /\ StateOK(d, mem[d]) /\ StateOK(d, disk[d])
    BY DEF IInv, StatesOK, TasksOK, TaskOK
  <1>2. Stored(d)
    BY <1>1 DEF IInv, TypeOK, StatesOK, StateOK, Stored, Restart, Put, Rotating, Rot
  <1>3. TypeOK'
    <2>1. restarts' \in Nat
      BY <1>1 DEF LegacyRotationAssumption, TypeOK, Restart
    <2>2. /\ cur' \in [Device -> {Old, NoCode} \cup Code]
          /\ next' \in [Device -> Code \cup {NoCode}]
          /\ keychainFailures' \in Nat
      <3>1. CASE SetCode(d, next[d])
        <4>1. next[d] \in Code \cup {NoCode}
          BY <1>1 DEF TypeOK
        <4> QED BY <1>1, <3>1, <4>1, SetCodeFacts
      <3>2. CASE UNCHANGED <<keychain, keychainFailures>>
        BY <1>1, <3>2 DEF TypeOK, keychain
      <3> QED BY <3>1, <3>2 DEF Restart
    <2>3. bg' \in [Device -> BgTask] /\ cmd' \in [Device -> CmdTask]
      BY <1>1 DEF TypeOK, Restart, Put, Idle, BgTask, CmdTask
    <2>4. live' \in [Device -> BOOLEAN] /\ keys' \in [Device -> BOOLEAN]
      BY <1>1 DEF TypeOK, Restart, Put
    <2>5. swap' \in [Device -> BOOLEAN]
      <3>1. PICK v \in BOOLEAN : swap' = [swap EXCEPT ![d] = v]
        BY DEF Restart, Put
      <3> QED BY <1>1, <3>1 DEF TypeOK
    <2> QED BY <1>1, <1>2, <2>1, <2>2, <2>3, <2>4, <2>5 DEF TypeOK, Stored, Restart,
                Rotating, Rot, relayVars, known, history
  <1>4. Quiet /\ Alone(d)
    BY <1>1, <1>2 DEF TypeOK, Stored, Restart, Quiet, Alone, Put, relayVars, known, history
  <1>5. TaskOK(d)'
    BY <1>1 DEF TypeOK, Restart, SetCode, TaskOK, Put, At, Idle, relayVars, history
  <1> QED BY <1>2, <1>3, <1>4, <1>5, QuietStep DEF Stored

-----------------------------------------------------------------------------
(* What any step does to the relay: a frozen account lists the same spaces *)
(* for ever, and once everything is frozen nothing is accepted; what new   *)
(* accounts hold is never taken back.                                      *)
RelayGrows ==
    /\ acctFrozen => acctFrozen' /\ listed' = listed
    /\ Sealed => Sealed' /\ \A s \in listed : rows'[s] = rows[s]
    /\ \A c \in Code : \A s \in Space : target[c][s] \subseteq target'[c][s]
    /\ \A c \in Code : Sealed /\ listed \subseteq published[c] => listed \subseteq published'[c]

(* Neither its marker nor the deletion of spaces changes for a device.     *)
SameFor(x) == (x \in markers' <=> x \in markers) /\ (x \in markers /\ Gone' => Gone)

(* A new account that has everything keeps it, as nothing is added to the  *)
(* old one any more.                                                       *)
LEMMA CompleteCarried ==
    ASSUME TypeOK, RelayGrows, NEW c \in Code, Complete(c), Sealed
    PROVE  Complete(c)' /\ Sealed'
  <1>1. listed' = listed /\ Sealed' /\ listed \subseteq Space
    BY DEF RelayGrows, Sealed, TypeOK
  <1> QED BY <1>1 DEF RelayGrows, Complete

(* A state that fits the relay fits it after a step of the relay. *)
LEMMA StateCarried ==
    ASSUME LegacyRotationAssumption, TypeOK, RelayGrows, NEW x \in Device, SameFor(x),
           NEW st \in State, StateOK(x, st)
    PROVE  StateOK(x, st)'
  <1>1. ASSUME st.rot # NoRot
        PROVE  /\ st.account = Old
               /\ st.rot.step \in Late => x \in markers' /\ Sealed'
               /\ st.rot.step \notin Late => st.rot.copied = {}
               /\ \A s \in st.rot.copied \cap listed' : rows'[s] \subseteq target'[st.rot.code][s]
               /\ st.rot.step \in Copied => Complete(st.rot.code)'
    <2>1. st.rot.code \in Code /\ listed \subseteq Space
      BY <1>1, StateParts DEF TypeOK
    <2>2. CASE st.rot.step \in Late
      <3>1. x \in markers /\ Sealed
        BY <1>1, <2>2 DEF StateOK
      <3>2. listed' = listed /\ x \in markers' /\ Sealed'
        BY <3>1 DEF RelayGrows, SameFor, Sealed
      <3>3. st.rot.step \in Copied => Complete(st.rot.code)'
        BY <1>1, <2>1, <3>1, CompleteCarried DEF StateOK
      <3>4. \A s \in st.rot.copied \cap listed' : rows'[s] \subseteq target'[st.rot.code][s]
        BY <1>1, <2>1, <3>1, <3>2 DEF StateOK, RelayGrows
      <3> QED BY <1>1, <2>2, <3>2, <3>3, <3>4 DEF StateOK
    <2>3. CASE st.rot.step \notin Late
      BY <1>1, <2>3 DEF StateOK, Late, Copied
    <2> QED BY <2>2, <2>3
  <1>2. st.account \in Code => Complete(st.account)' /\ Sealed'
    BY CompleteCarried DEF StateOK
  <1>3. x \in markers' /\ st.account = Old =>
          /\ st.rot # NoRot /\ st.rot.step \notin Cancellable
          /\ Gone' => st.rot.step \in Copied
    BY DEF StateOK, SameFor
  <1> QED BY <1>1, <1>2, <1>3 DEF StateOK

(* A step of one device and of the relay. *)
LEMMA RelayStep ==
    ASSUME LegacyRotationAssumption, IInv, NEW d \in Device, TypeOK', RelayGrows, Alone(d),
           \A x \in Device \ {d} : SameFor(x), shown \subseteq shown',
           \A st \in {mem'[d], disk'[d]} : StateOK(d, st)',
           TaskOK(d)', RelayOK', EditsOK'
    PROVE  IInv'
  <1>1. ASSUME NEW x \in Device \ {d}, NEW st \in {mem[x], disk[x]}
        PROVE  StateOK(x, st)'
    BY StateCarried DEF IInv, TypeOK, StatesOK
  <1>2. StatesOK'
    BY <1>1 DEF StatesOK, Alone
  <1>3. TasksOK'
    BY DEF IInv, TasksOK, TaskOK, Alone, SameFor
  <1> QED BY <1>2, <1>3 DEF IInv

(* What was shown stays complete. *)
LEMMA ShownCarried ==
    ASSUME IInv, RelayGrows
    PROVE  \A c \in shown : Complete(c)' /\ Sealed'
  BY CompleteCarried DEF IInv, TypeOK, RelayOK

(* Edits stay somewhere when the relay keeps what it has and the maker     *)
(* loses none that the relay did not get.                                  *)
LEMMA EditsCarried ==
    ASSUME LegacyRotationAssumption, IInv,
           \A s \in Space : rows[s] \subseteq rows'[s],
           \A c \in Code : \A s \in Space : target[c][s] \subseteq target'[c][s],
           \A e \in edited' : \/ e \in edited /\ (e \in dirty[MakerOf[e]] \cup kept[MakerOf[e]]
                                                 => Somewhere(e)')
                              \/ Somewhere(e)'
    PROVE  EditsOK'
  <1> SUFFICES ASSUME NEW e \in edited', e \in edited,
                      e \in dirty[MakerOf[e]] \cup kept[MakerOf[e]] => Somewhere(e)'
               PROVE  Somewhere(e)'
    BY DEF EditsOK
  <1>1. e \in Edit /\ SpaceOf[e] \in Space
    BY DEF LegacyRotationAssumption, IInv, TypeOK
  <1>2. Somewhere(e)
    BY DEF IInv, EditsOK
  <1> QED BY <1>1, <1>2 DEF Somewhere

-----------------------------------------------------------------------------
(* Steps of the relay that touch no edit, no state and no task. *)
RelayOnly == UNCHANGED <<mem, disk, bg, cmd, dirty, kept, edited, shown, rows>>

(* A step that changes the relay only: the devices still fit it.           *)
LEMMA RelayOnlyStep ==
    ASSUME LegacyRotationAssumption, IInv, NEW d \in Device, TypeOK', RelayGrows, RelayOnly,
           \A x \in Device \ {d} : SameFor(x),
           \A st \in {mem[d], disk[d]} : StateOK(d, st)',
           TaskOK(d)', RelayOK'
    PROVE  IInv'
  <1>1. EditsOK'
    BY EditsCarried DEF RelayOnly, RelayGrows, Somewhere
  <1>2. Alone(d) /\ shown \subseteq shown'
    BY DEF RelayOnly, Alone
  <1> QED BY <1>1, <1>2, RelayStep DEF RelayOnly

(* The marker goes on an account that is not frozen: no space is deleted,  *)
(* and the change of this device is past cancelling on disk too.           *)
LEMMA PushMarkerKeeps ==
    ASSUME LegacyRotationAssumption, IInv, NEW d \in Device, PushMarker(d)
    PROVE  IInv'
  <1>1. TypeOK /\ TaskOK(d) /\ StateOK(d, mem[d]) /\ StateOK(d, disk[d]) /\ RelayOK
    BY DEF IInv, StatesOK, TasksOK, TaskOK
  <1>2. TypeOK'
    <2>1. mem[d].rot.code \in Code /\ mem[d].rot # NoRot
      BY <1>1, StateParts DEF TypeOK, PushMarker, Driving, StepOf, Rotating, Rot
    <2>2. mark' \in [Device -> Code \cup {NoCode}] /\ markers' \subseteq Device
      BY <1>1, <2>1 DEF TypeOK, PushMarker, Put, Rot
    <2> QED BY <1>1, <2>2 DEF TypeOK, PushMarker, Rotating, Rot, keychain, known, bounds
  <1>3. ~acctFrozen /\ ~Sealed /\ ~Gone
    BY <1>1 DEF PushMarker, Sealed, RelayOK
  <1>4. RelayGrows /\ RelayOnly /\ ~Gone'
    BY <1>3 DEF PushMarker, RelayGrows, RelayOnly, Sealed, Gone, known
  <1>5. \A x \in Device \ {d} : SameFor(x)
    BY <1>4 DEF PushMarker, SameFor
  <1>6. mem[d] = disk[d] /\ mem[d].rot # NoRot /\ mem[d].rot.step = "freezing" /\ mem[d] \in State
    BY <1>1 DEF TypeOK, PushMarker, Driving, Ready, StepOf, Rotating, Rot
  <1>7. StateOK(d, mem[d]) => mem[d].account \notin Code
    BY <1>3 DEF StateOK
  <1>8. ASSUME NEW st \in {mem[d], disk[d]} PROVE StateOK(d, st)'
    BY <1>1, <1>4, <1>6, <1>7
       DEF StateOK, PushMarker, Late, Copied, Cancellable
  <1>9. TaskOK(d)'
    BY <1>1, <1>4 DEF PushMarker, TaskOK, RelayOnly, Driving, Ready, Idle
  <1>10. RelayOK'
    <2>1. \A c \in shown' : Complete(c)' /\ Sealed'
      BY <1>4, ShownCarried DEF RelayOnly
    <2> QED BY <1>1, <1>4, <2>1 DEF RelayOK, PushMarker, known
  <1> QED BY <1>2, <1>4, <1>5, <1>8, <1>9, <1>10, RelayOnlyStep

(* The account is frozen. *)
LEMMA FreezeAccountKeeps ==
    ASSUME LegacyRotationAssumption, IInv, NEW d \in Device, FreezeAccount(d)
    PROVE  IInv'
  <1>1. TypeOK /\ TaskOK(d) /\ StateOK(d, mem[d]) /\ StateOK(d, disk[d]) /\ RelayOK
    BY DEF IInv, StatesOK, TasksOK, TaskOK
  <1>2. TypeOK'
    BY <1>1 DEF TypeOK, FreezeAccount, Rotating, Rot, keychain, known, history, bounds
  <1>3. ~acctFrozen /\ ~Sealed /\ ~Gone
    BY <1>1 DEF FreezeAccount, Sealed, RelayOK
  <1>4. RelayGrows /\ RelayOnly /\ ~Gone'
    BY <1>3 DEF FreezeAccount, RelayGrows, RelayOnly, Sealed, Gone, known, history
  <1>5. \A x \in Device : SameFor(x)
    BY <1>4 DEF FreezeAccount, SameFor
  <1>6. ASSUME NEW st \in {mem[d], disk[d]} PROVE StateOK(d, st)'
    BY <1>1, <1>4, <1>5, StateCarried DEF TypeOK
  <1>7. TaskOK(d)'
    BY <1>1, <1>4 DEF FreezeAccount, TaskOK, RelayOnly
  <1>8. RelayOK'
    <2>1. \A c \in shown' : Complete(c)' /\ Sealed'
      BY <1>4, ShownCarried DEF RelayOnly
    <2> QED BY <1>1, <1>4, <2>1 DEF RelayOK, FreezeAccount, known
  <1> QED BY <1>2, <1>4, <1>5, <1>6, <1>7, <1>8, RelayOnlyStep

(* A space is frozen. *)
LEMMA FreezeSpaceKeeps ==
    ASSUME LegacyRotationAssumption, IInv, NEW d \in Device, NEW s \in Space, FreezeSpace(d, s)
    PROVE  IInv'
  <1>1. TypeOK /\ TaskOK(d) /\ StateOK(d, mem[d]) /\ StateOK(d, disk[d]) /\ RelayOK
    BY DEF IInv, StatesOK, TasksOK, TaskOK
  <1>2. TypeOK'
    <2>1. chain' \in [Space -> {"none", "open", "frozen", "gone"}]
      BY <1>1 DEF TypeOK, FreezeSpace, Put
    <2> QED BY <1>1, <2>1 DEF TypeOK, FreezeSpace, Rotating, Rot, keychain, known, history, bounds
  <1>3. chain' = [chain EXCEPT ![s] = "frozen"] /\ s \in listed /\ chain[s] = "open"
    BY DEF FreezeSpace, Put
  <1>4. ~Sealed /\ (Gone' => Gone)
    BY <1>1, <1>3 DEF Sealed, Gone, TypeOK
  <1>5. RelayGrows /\ RelayOnly
    BY <1>4 DEF FreezeSpace, RelayGrows, RelayOnly, Sealed, known, history
  <1>6. \A x \in Device : SameFor(x)
    BY <1>4 DEF FreezeSpace, SameFor
  <1>7. ASSUME NEW st \in {mem[d], disk[d]} PROVE StateOK(d, st)'
    BY <1>1, <1>5, <1>6, StateCarried DEF TypeOK
  <1>8. TaskOK(d)'
    BY <1>1, <1>5 DEF FreezeSpace, TaskOK, RelayOnly
  <1>9. RelayOK'
    <2>1. \A c \in shown' : Complete(c)' /\ Sealed'
      BY <1>5, ShownCarried DEF RelayOnly
    <2>2. \A x \in Space : chain[x] # "none" => chain'[x] # "none"
      BY <1>1, <1>3 DEF TypeOK
    <2>3. listed \subseteq Space /\ \A x \in Device : fresh[x] \subseteq Space
      BY <1>1 DEF TypeOK
    <2> QED BY <1>1, <1>4, <2>1, <2>2, <2>3 DEF RelayOK, FreezeSpace, known
  <1> QED BY <1>2, <1>5, <1>6, <1>7, <1>8, <1>9, RelayOnlyStep

(* A space gets its chain before the account lists it. *)
LEMMA CreateSpaceKeeps ==
    ASSUME LegacyRotationAssumption, IInv, NEW d \in Device, NEW s \in Space, CreateSpace(d, s)
    PROVE  IInv'
  <1>1. TypeOK /\ TaskOK(d) /\ StateOK(d, mem[d]) /\ StateOK(d, disk[d]) /\ RelayOK
    BY DEF IInv, StatesOK, TasksOK, TaskOK
  <1>2. TypeOK'
    <2>1. chain' \in [Space -> {"none", "open", "frozen", "gone"}]
      BY <1>1 DEF TypeOK, CreateSpace, Put
    <2>2. seen' \in [Device -> SUBSET Space] /\ fresh' \in [Device -> SUBSET Space]
      BY <1>1 DEF TypeOK, CreateSpace, Put
    <2>3. live' \in [Device -> BOOLEAN]
      BY <1>1 DEF TypeOK, CreateSpace, Put
    <2> QED BY <1>1, <2>1, <2>2, <2>3
            DEF TypeOK, CreateSpace, Rotating, Rot, keychain, history, bounds
  <1>3. chain' = [chain EXCEPT ![s] = "open"] /\ s \notin listed /\ chain[s] = "none"
    BY <1>1 DEF CreateSpace, Put, RelayOK
  <1>4. Gone' => Gone
    BY <1>1, <1>3 DEF Gone, TypeOK
  <1>5. RelayGrows /\ RelayOnly
    <2>1. \A x \in listed : chain'[x] = chain[x]
      BY <1>1, <1>3 DEF TypeOK
    <2> QED BY <2>1 DEF CreateSpace, RelayGrows, RelayOnly, Sealed, history
  <1>6. \A x \in Device : SameFor(x)
    BY <1>4 DEF CreateSpace, SameFor
  <1>7. ASSUME NEW st \in {mem[d], disk[d]} PROVE StateOK(d, st)'
    BY <1>1, <1>5, <1>6, StateCarried DEF TypeOK
  <1>8. TaskOK(d)'
    BY <1>1, <1>5 DEF CreateSpace, TaskOK, RelayOnly
  <1>9. RelayOK'
    <2>1. \A c \in shown' : Complete(c)' /\ Sealed'
      BY <1>5, ShownCarried DEF RelayOnly
    <2>2. \A x \in Space : chain[x] # "none" \/ x = s => chain'[x] # "none"
      BY <1>1, <1>3 DEF TypeOK
    <2>3. listed \subseteq Space /\ \A x \in Device : fresh[x] \subseteq Space
      BY <1>1 DEF TypeOK
    <2>4. \A x \in Device : fresh'[x] \subseteq fresh[x] \cup {s}
      BY <1>1 DEF TypeOK, CreateSpace, Put
    <2> QED BY <1>1, <1>4, <2>1, <2>2, <2>3, <2>4 DEF RelayOK, CreateSpace
  <1> QED BY <1>2, <1>5, <1>6, <1>7, <1>8, <1>9, RelayOnlyStep

(* An upload that the relay refused changes the state and the task only. *)
LEMMA FrozenOutKeeps ==
    ASSUME LegacyRotationAssumption, IInv, NEW d \in Device, FrozenOut(d),
           UNCHANGED <<keychain, keys, swap, cmd, live, history, starts, keychainFailures,
           restarts>>
    PROVE  IInv'
  <1>1. TypeOK /\ TaskOK(d)
    BY DEF IInv, TasksOK, TaskOK
  <1>2. Stored(d)
    <2>1. CASE Rotating(d)
      BY <2>1, EarlyStep DEF FrozenOut, Cancellable
    <2>2. CASE ~Rotating(d)
      BY <2>2, Blocks DEF FrozenOut
    <2> QED BY <2>1, <2>2
  <1>3. bg' = [bg EXCEPT ![d] = Idle] /\ Idle \in BgTask /\ Idle.at = "idle"
    BY DEF FrozenOut, Put, Idle, BgTask
  <1>4. TypeOK'
    BY <1>1, <1>2, <1>3 DEF TypeOK, Stored, FrozenOut, Rotating, Rot, relayVars, keychain, known,
                            history
  <1>5. Quiet /\ Alone(d)
    BY <1>1, <1>2, <1>3 DEF TypeOK, Stored, FrozenOut, Quiet, Alone, relayVars, known, history
  <1>6. TaskOK(d)'
    BY <1>1, <1>3 DEF TypeOK, TaskOK, FrozenOut, relayVars, history
  <1> QED BY <1>2, <1>4, <1>5, <1>6, QuietStep DEF Stored

(* An account that is not frozen lists the new spaces, which have chains. *)
LEMMA PushAccountRowsKeeps ==
    ASSUME LegacyRotationAssumption, IInv, NEW d \in Device, PushAccountRows(d)
    PROVE  IInv'
  <1>1. TypeOK /\ TaskOK(d) /\ StateOK(d, mem[d]) /\ StateOK(d, disk[d]) /\ RelayOK
    BY DEF IInv, StatesOK, TasksOK, TaskOK
  <1>2. CASE FrozenOut(d)
    BY <1>2, FrozenOutKeeps DEF PushAccountRows
  <1>3. CASE ~FrozenOut(d)
    <2>1. /\ ~acctFrozen /\ listed' = listed \cup fresh[d] /\ fresh' = [fresh EXCEPT ![d] = {}]
          /\ UNCHANGED <<markers, acctFrozen, chain, rows, target, published,
                         seen, dirty, kept, mem, disk, bg, saveFailures>>
          /\ UNCHANGED <<keychain, keys, swap, cmd, live, history,
                         starts, keychainFailures, restarts>>
      BY <1>3 DEF PushAccountRows, Put
    <2>2. TypeOK'
      <3>1. fresh' \in [Device -> SUBSET Space] /\ listed' \subseteq Space
        BY <1>1, <2>1 DEF TypeOK
      <3> QED BY <1>1, <2>1, <3>1 DEF TypeOK, Rotating, Rot, keychain, history
    <2>3. ~Sealed /\ ~Gone /\ ~Gone'
      BY <1>1, <2>1 DEF Sealed, Gone, RelayOK
    <2>4. RelayGrows /\ RelayOnly
      BY <2>1, <2>3 DEF RelayGrows, RelayOnly, Sealed, history
    <2>5. \A x \in Device : SameFor(x)
      BY <2>1, <2>3 DEF SameFor
    <2>6. ASSUME NEW st \in {mem[d], disk[d]} PROVE StateOK(d, st)'
      BY <1>1, <2>4, <2>5, StateCarried DEF TypeOK
    <2>7. TaskOK(d)'
      BY <1>1, <2>1 DEF TaskOK, history
    <2>8. RelayOK'
      <3>1. \A c \in shown' : Complete(c)' /\ Sealed'
        BY <2>4, ShownCarried DEF RelayOnly
      <3>2. \A x \in Device : fresh'[x] \subseteq fresh[x]
        BY <1>1, <2>1 DEF TypeOK
      <3> QED BY <1>1, <2>1, <2>3, <3>1, <3>2 DEF RelayOK
    <2> QED BY <2>2, <2>4, <2>5, <2>6, <2>7, <2>8, RelayOnlyStep
  <1> QED BY <1>2, <1>3

(* A chain that is open accepts an edit; when the account is sealed, that  *)
(* is a chain the account does not list.                                   *)
LEMMA PushEditKeeps ==
    ASSUME LegacyRotationAssumption, IInv, NEW d \in Device, NEW e \in Edit, PushEdit(d, e)
    PROVE  IInv'
  <1>1. TypeOK /\ TaskOK(d) /\ StateOK(d, mem[d]) /\ StateOK(d, disk[d]) /\ RelayOK
    BY DEF IInv, StatesOK, TasksOK, TaskOK
  <1>2. CASE FrozenOut(d)
    BY <1>2, FrozenOutKeeps DEF PushEdit
  <1>3. CASE ~FrozenOut(d)
    <2> DEFINE s == SpaceOf[e]
    <2>1. /\ chain[s] = "open" /\ rows' = [rows EXCEPT ![s] = rows[s] \cup {e}]
          /\ dirty' = [dirty EXCEPT ![d] = dirty[d] \ {e}]
          /\ UNCHANGED <<markers, acctFrozen, listed, chain, target, published,
                         seen, fresh, kept, mem, disk, bg, saveFailures>>
          /\ UNCHANGED <<keychain, keys, swap, cmd, live, history,
                         starts, keychainFailures, restarts>>
      BY <1>3 DEF PushEdit, Put
    <2>2. s \in Space
      BY DEF LegacyRotationAssumption
    <2> HIDE DEF s
    <2>3. TypeOK'
      <3>1. rows' \in [Space -> SUBSET Edit]
        BY <1>1, <2>1, <2>2 DEF TypeOK
      <3>2. dirty' \in [Device -> SUBSET Edit]
        BY <1>1, <2>1 DEF TypeOK
      <3> QED BY <1>1, <2>1, <3>1, <3>2 DEF TypeOK, Rotating, Rot, keychain, history
    <2>4. /\ \A x \in Space : rows[x] \subseteq rows'[x] /\ (x # s => rows'[x] = rows[x])
          /\ e \in rows'[s]
      BY <1>1, <2>1, <2>2 DEF TypeOK
    <2>5. RelayGrows
      <3>1. Sealed => s \notin listed
        BY <2>1 DEF Sealed
      <3>2. listed \subseteq Space
        BY <1>1 DEF TypeOK
      <3> QED BY <2>1, <2>4, <3>1, <3>2 DEF RelayGrows, Sealed
    <2>6. \A x \in Device : SameFor(x)
      BY <2>1 DEF SameFor, Gone
    <2>7. ASSUME NEW st \in {mem'[d], disk'[d]} PROVE StateOK(d, st)'
      BY <1>1, <2>1, <2>5, <2>6, StateCarried DEF TypeOK
    <2>8. TaskOK(d)' /\ Alone(d) /\ shown \subseteq shown'
      BY <1>1, <2>1 DEF TaskOK, Alone, history
    <2>9. RelayOK'
      <3>1. \A c \in shown' : Complete(c)' /\ Sealed'
        BY <2>1, <2>5, ShownCarried DEF history
      <3> QED BY <1>1, <2>1, <3>1 DEF RelayOK, Gone
    <2>10. EditsOK'
      <3>1. ASSUME NEW x \in edited', x \in dirty[MakerOf[x]] \cup kept[MakerOf[x]]
            PROVE  Somewhere(x)'
        <4>1. CASE x = e
          BY <2>4, <4>1 DEF Somewhere, s
        <4>2. CASE x # e
          <5>1. \A y \in Device : x \in dirty[y] => x \in dirty'[y]
            BY <1>1, <2>1, <4>2 DEF TypeOK
          <5>2. MakerOf[x] \in Device
            BY <1>1, <2>1 DEF LegacyRotationAssumption, TypeOK, history
          <5> QED BY <2>1, <3>1, <5>1, <5>2 DEF Somewhere
        <4> QED BY <4>1, <4>2
      <3> QED BY <2>1, <2>4, <3>1, EditsCarried DEF history
    <2> QED BY <2>3, <2>5, <2>6, <2>7, <2>8, <2>9, <2>10, RelayStep
  <1> QED BY <1>2, <1>3

(* What a new account accepts is added to what it has. *)
LEMMA TargetGrows ==
    ASSUME TypeOK, NEW k \in Code, NEW s \in Space, NEW v \in SUBSET Edit,
           target' = [target EXCEPT ![k][s] = @ \cup v]
    PROVE  /\ target' \in [Code -> [Space -> SUBSET Edit]]
           /\ \A c \in Code : \A x \in Space : target[c][x] \subseteq target'[c][x]
           /\ v \subseteq target'[k][s]
  <1> DEFINE t == [target[k] EXCEPT ![s] = target[k][s] \cup v]
  <1>1. target \in [Code -> [Space -> SUBSET Edit]]
    BY DEF TypeOK
  <1>2. /\ t \in [Space -> SUBSET Edit] /\ v \subseteq t[s]
        /\ \A x \in Space : target[k][x] \subseteq t[x]
    BY <1>1
  <1>3. target' = [target EXCEPT ![k] = t]
    OBVIOUS
  <1> HIDE DEF t
  <1> QED BY <1>1, <1>2, <1>3

(* A new account accepts an edit. *)
LEMMA PushToNewKeeps ==
    ASSUME LegacyRotationAssumption, IInv, NEW d \in Device, NEW e \in Edit, PushToNew(d, e)
    PROVE  IInv'
  <1> DEFINE s == SpaceOf[e]
             k == mem[d].account
  <1>1. TypeOK /\ TaskOK(d) /\ StateOK(d, mem[d]) /\ StateOK(d, disk[d]) /\ RelayOK
    BY DEF IInv, StatesOK, TasksOK, TaskOK
  <1>2. s \in Space /\ k \in Code
    BY DEF LegacyRotationAssumption, PushToNew
  <1>3. /\ target' = [target EXCEPT ![k][s] = @ \cup {e}]
        /\ dirty' = [dirty EXCEPT ![d] = dirty[d] \ {e}]
        /\ UNCHANGED <<markers, acctFrozen, listed, chain, rows, published, mem, disk, keychain,
                       keys, swap, seen, fresh, kept, bg, cmd, live, history, bounds>>
    BY DEF PushToNew, Put
  <1> HIDE DEF s, k
  <1>4. target' \in [Code -> [Space -> SUBSET Edit]]
    <2>1. {e} \in SUBSET Edit
      OBVIOUS
    <2> QED BY <1>1, <1>2, <1>3, <2>1, TargetGrows
  <1>5. /\ \A c \in Code : \A x \in Space : target[c][x] \subseteq target'[c][x]
        /\ e \in target'[k][s]
    <2>1. {e} \in SUBSET Edit
      OBVIOUS
    <2>2. /\ \A c \in Code : \A x \in Space : target[c][x] \subseteq target'[c][x]
          /\ {e} \subseteq target'[k][s]
      BY <1>1, <1>2, <1>3, <2>1, TargetGrows
    <2> QED BY <2>2
  <1>6. TypeOK'
    <2>1. dirty' \in [Device -> SUBSET Edit]
      BY <1>1, <1>3 DEF TypeOK
    <2> QED BY <1>1, <1>3, <1>4, <2>1 DEF TypeOK, Rotating, Rot, keychain, history, bounds
  <1>7. RelayGrows
    BY <1>3, <1>5 DEF RelayGrows, Sealed
  <1>8. \A x \in Device : SameFor(x)
    BY <1>3 DEF SameFor, Gone
  <1>9. ASSUME NEW st \in {mem'[d], disk'[d]} PROVE StateOK(d, st)'
    BY <1>1, <1>3, <1>7, <1>8, StateCarried DEF TypeOK
  <1>10. TaskOK(d)' /\ Alone(d) /\ shown \subseteq shown'
    BY <1>1, <1>3 DEF TaskOK, Alone, history
  <1>11. RelayOK'
    <2>1. \A c \in shown' : Complete(c)' /\ Sealed'
      BY <1>3, <1>7, ShownCarried DEF history
    <2> QED BY <1>1, <1>3, <2>1 DEF RelayOK, Gone
  <1>12. EditsOK'
    <2>1. ASSUME NEW x \in edited', x \in dirty[MakerOf[x]] \cup kept[MakerOf[x]]
          PROVE  Somewhere(x)'
      <3>1. CASE x = e
        BY <1>2, <1>5, <3>1 DEF Somewhere, s
      <3>2. CASE x # e
        <4>1. \A y \in Device : x \in dirty[y] => x \in dirty'[y]
          BY <1>1, <1>3, <3>2 DEF TypeOK
        <4>2. MakerOf[x] \in Device
          BY <1>1, <1>3 DEF LegacyRotationAssumption, TypeOK, history
        <4> QED BY <1>3, <2>1, <4>1, <4>2 DEF Somewhere
      <3> QED BY <3>1, <3>2
    <2> QED BY <1>3, <1>5, <2>1, EditsCarried DEF history
  <1> QED BY <1>6, <1>7, <1>8, <1>9, <1>10, <1>11, <1>12, RelayStep

(* The copy of a space adds all its rows to the new account: the chain is  *)
(* not gone, for only a device that is past the copy deletes, and then no  *)
(* other device marked the account.                                        *)
LEMMA CopySpaceKeeps ==
    ASSUME LegacyRotationAssumption, IInv, NEW d \in Device, NEW s \in Space, CopySpace(d, s)
    PROVE  IInv'
  <1> USE LegacyRotationAssumption
  <1> DEFINE k == mem[d].rot.code
             r == [mem[d].rot EXCEPT !.copied = @ \cup {s}]
             m == [mem[d] EXCEPT !.rot = r]
  <1>1. TypeOK /\ TaskOK(d) /\ StateOK(d, mem[d]) /\ StateOK(d, disk[d]) /\ RelayOK
    BY DEF IInv, StatesOK, TasksOK, TaskOK
  <1>2. mem[d] \in State /\ mem[d].rot # NoRot /\ mem[d].rot.step = "copying"
    BY <1>1 DEF TypeOK, CopySpace, Copying, Driving, StepOf, Rotating, Rot
  <1>3. mem[d].rot \in Rotation /\ k \in Code
    BY <1>2, StateParts
  <1>4. d \in markers /\ Sealed /\ mem[d].account = Old
    BY <1>1, <1>2 DEF StateOK, Late
  <1>5. chain[s] # "gone"
    BY <1>1, <1>2, <1>4 DEF StateOK, Gone, Copied
  <1>6. /\ target' = [target EXCEPT ![k][s] = @ \cup rows[s]]
        /\ UNCHANGED <<markers, acctFrozen, listed, chain, rows, published, keychain, keys,
                   swap, known, bg, cmd, live, history, starts, keychainFailures, restarts>>
    BY <1>5 DEF CopySpace, Rot
  <1>7. Save(d, m)
    <2>1. [mem[d] EXCEPT !.rot.copied = @ \cup {s}] = m
      BY <1>2, <1>3 DEF State, Rotation
    <2> QED BY <2>1 DEF CopySpace
  <1>8. /\ r \in Rotation /\ r.step = "copying" /\ r.code = k
        /\ r.copied = mem[d].rot.copied \cup {s}
    BY <1>2, <1>3 DEF Rotation
  <1>9. m \in State /\ m.account = Old /\ m.rot = r /\ r # NoRot
    BY <1>2, <1>4, <1>8 DEF State
  <1> HIDE DEF k, r, m
  <1>10. rows[s] \in SUBSET Edit
    BY <1>1 DEF TypeOK
  <1>11. /\ target' \in [Code -> [Space -> SUBSET Edit]]
         /\ \A c \in Code : \A x \in Space : target[c][x] \subseteq target'[c][x]
         /\ rows[s] \subseteq target'[k][s]
    BY <1>1, <1>3, <1>6, <1>10, TargetGrows
  <1>12. /\ mem' \in [Device -> State] /\ disk' \in [Device -> State]
         /\ mem'[d] = m /\ disk'[d] \in {disk[d], m}
         /\ \A x \in Device \ {d} : mem'[x] = mem[x] /\ disk'[x] = disk[x]
         /\ saveFailures' \in Nat
    BY <1>1, <1>7, <1>9, SaveFacts
  <1>13. TypeOK'
    <2>1. \A x \in Device : mem'[x].rot # NoRot => mem'[x].account = Old
      BY <1>1, <1>9, <1>12 DEF TypeOK, Rotating, Rot
    <2> QED BY <1>1, <1>6, <1>11, <1>12, <2>1
            DEF TypeOK, Rotating, Rot, keychain, known, history
  <1>14. RelayGrows
    BY <1>6, <1>11 DEF RelayGrows, Sealed
  <1>15. \A x \in Device : SameFor(x)
    BY <1>6 DEF SameFor, Gone
  <1>16. ASSUME NEW st \in {mem'[d], disk'[d]} PROVE StateOK(d, st)'
    <2>1. CASE st = disk[d]
      BY <1>1, <1>14, <1>15, <2>1, StateCarried DEF TypeOK
    <2>2. CASE st = m
      <3>1. \A x \in mem[d].rot.copied \cap listed : rows[x] \subseteq target[k][x]
        BY <1>1, <1>2 DEF StateOK, k
      <3>2. \A x \in st.rot.copied \cap listed' : rows'[x] \subseteq target'[st.rot.code][x]
        <4>1. listed \subseteq Space
          BY <1>1 DEF TypeOK
        <4> QED BY <1>3, <1>6, <1>8, <1>9, <1>11, <2>2, <3>1, <4>1
      <3>3. d \in markers' /\ Sealed' /\ ~Gone'
        BY <1>1, <1>2, <1>4, <1>6 DEF Sealed, Gone, StateOK, Copied
      <3> QED BY <1>8, <1>9, <2>2, <3>2, <3>3 DEF StateOK, Late, Copied, Cancellable
    <2> QED BY <1>12, <2>1, <2>2
  <1>17. TaskOK(d)' /\ Alone(d) /\ shown \subseteq shown'
    BY <1>1, <1>6, <1>12 DEF TaskOK, Alone, history
  <1>18. RelayOK'
    <2>1. \A c \in shown' : Complete(c)' /\ Sealed'
      BY <1>6, <1>14, ShownCarried DEF history
    <2> QED BY <1>1, <1>6, <2>1 DEF RelayOK, Gone, known
  <1>19. EditsOK'
    BY <1>6, <1>11, EditsCarried DEF Somewhere, history, known
  <1> QED BY <1>13, <1>14, <1>15, <1>16, <1>17, <1>18, <1>19, RelayStep

(* The new account lists what the old one lists, and every space of it was *)
(* copied: it is complete.                                                 *)
LEMMA PushNewAccountKeeps ==
    ASSUME LegacyRotationAssumption, IInv, NEW d \in Device, PushNewAccount(d)
    PROVE  IInv'
  <1> USE LegacyRotationAssumption
  <1> DEFINE k == mem[d].rot.code
             m == [mem[d] EXCEPT !.rot.step = "deleting"]
  <1>1. TypeOK /\ TaskOK(d) /\ StateOK(d, mem[d]) /\ StateOK(d, disk[d]) /\ RelayOK
    BY DEF IInv, StatesOK, TasksOK, TaskOK
  <1>2. mem[d] \in State /\ mem[d].rot # NoRot /\ mem[d].rot.step = "copying"
    BY <1>1 DEF TypeOK, PushNewAccount, Copying, Driving, StepOf, Rotating, Rot
  <1>3. k \in Code
    BY <1>2, StateParts
  <1>4. d \in markers /\ Sealed /\ mem[d].account = Old
    BY <1>1, <1>2 DEF StateOK, Late
  <1>5. /\ published' = [published EXCEPT ![k] = listed] /\ listed \subseteq mem[d].rot.copied
        /\ UNCHANGED <<markers, acctFrozen, listed, chain, rows, target, keychain, keys,
                   swap, known, bg, cmd, live, history, starts, keychainFailures, restarts>>
        /\ Save(d, m)
    BY DEF PushNewAccount, Rot, Put, SaveStep
  <1>6. /\ m \in State /\ m.account = Old /\ m.rot # NoRot /\ m.rot.step = "deleting"
        /\ m.rot.code = k /\ m.rot.copied = mem[d].rot.copied
    <2>1. "deleting" \in Step
      BY DEF Step
    <2> QED BY <1>2, <1>4, <2>1, StepState
  <1> HIDE DEF m
  <1>7. /\ mem' \in [Device -> State] /\ disk' \in [Device -> State]
        /\ mem'[d] = m /\ disk'[d] \in {disk[d], m}
        /\ \A x \in Device \ {d} : mem'[x] = mem[x] /\ disk'[x] = disk[x]
        /\ saveFailures' \in Nat
    BY <1>1, <1>5, <1>6, SaveFacts
  <1>8. TypeOK'
    <2>1. \A x \in Device : mem'[x].rot # NoRot => mem'[x].account = Old
      BY <1>1, <1>6, <1>7 DEF TypeOK, Rotating, Rot
    <2>2. published' \in [Code -> SUBSET Space]
      BY <1>1, <1>3, <1>5 DEF TypeOK
    <2> QED BY <1>1, <1>5, <1>7, <2>1, <2>2
            DEF TypeOK, Rotating, Rot, keychain, known, history
  <1>10. RelayGrows
    <2>1. \A c \in Code : listed \subseteq published[c] => listed \subseteq published'[c]
      BY <1>1, <1>3, <1>5 DEF TypeOK
    <2> QED BY <1>5, <2>1 DEF RelayGrows, Sealed
  <1>11. \A x \in Device : SameFor(x)
    BY <1>5 DEF SameFor, Gone
  <1>12. /\ listed' \subseteq published'[k]
         /\ \A s \in listed' : rows'[s] \subseteq target'[k][s]
         /\ Sealed' /\ d \in markers'
    <2>1. listed \subseteq published'[k]
      BY <1>1, <1>3, <1>5 DEF TypeOK
    <2>2. \A s \in listed : rows[s] \subseteq target[k][s]
      BY <1>1, <1>2, <1>5 DEF StateOK
    <2> QED BY <1>4, <1>5, <2>1, <2>2 DEF Sealed
  <1> HIDE DEF k
  <1>13. ASSUME NEW st \in {mem'[d], disk'[d]} PROVE StateOK(d, st)'
    <2>1. CASE st = disk[d]
      BY <1>1, <1>10, <1>11, <2>1, StateCarried DEF TypeOK
    <2>2. CASE st = m
      <3>1. \A s \in st.rot.copied \cap listed' : rows'[s] \subseteq target'[st.rot.code][s]
        BY <1>6, <1>12, <2>2
      <3>2. Complete(st.rot.code)'
        BY <1>6, <1>12, <2>2 DEF Complete
      <3> QED BY <1>6, <1>12, <2>2, <3>1, <3>2 DEF StateOK, Late, Copied, Cancellable
    <2> QED BY <1>7, <2>1, <2>2
  <1>14. TaskOK(d)' /\ Alone(d) /\ shown \subseteq shown'
    BY <1>1, <1>5, <1>7 DEF TaskOK, Alone, history
  <1>15. RelayOK'
    <2>1. \A c \in shown' : Complete(c)' /\ Sealed'
      BY <1>5, <1>10, ShownCarried DEF history
    <2> QED BY <1>1, <1>5, <2>1 DEF RelayOK, Gone, known
  <1>16. EditsOK'
    BY <1>5, EditsCarried DEF Somewhere, history, known
  <1> QED BY <1>8, <1>10, <1>11, <1>13, <1>14, <1>15, <1>16, RelayStep

(* A space is deleted by the only device that marked the account, past its *)
(* copy, in memory and on disk.                                            *)
LEMMA DeleteSpaceKeeps ==
    ASSUME LegacyRotationAssumption, IInv, NEW d \in Device, NEW s \in Space, DeleteSpace(d, s)
    PROVE  IInv'
  <1> USE LegacyRotationAssumption
  <1> DEFINE r == [mem[d].rot EXCEPT !.deleted = @ \cup {s}]
             m == [mem[d] EXCEPT !.rot = r]
  <1>1. TypeOK /\ TaskOK(d) /\ StateOK(d, mem[d]) /\ StateOK(d, disk[d]) /\ RelayOK
    BY DEF IInv, StatesOK, TasksOK, TaskOK
  <1>2. mem[d] \in State /\ mem[d].rot # NoRot /\ mem[d].rot.step = "deleting" /\ disk[d] = mem[d]
    BY <1>1 DEF TypeOK, DeleteSpace, Driving, Ready, StepOf, Rotating, Rot
  <1>3. mem[d].rot \in Rotation /\ mem[d].rot.code \in Code
    BY <1>2, StateParts
  <1>4. d \in markers /\ Sealed /\ mem[d].account = Old /\ Complete(mem[d].rot.code)
    BY <1>1, <1>2 DEF StateOK, Late, Copied
  <1>5. /\ chain' = [chain EXCEPT ![s] = "gone"] /\ markers \ {d} = {}
        /\ UNCHANGED <<markers, acctFrozen, listed, rows, target, published, keychain, keys,
                   swap, known, bg, cmd, live, history, starts, keychainFailures, restarts>>
    BY DEF DeleteSpace, Put, Concurrent
  <1>6. Save(d, m)
    <2>1. [mem[d] EXCEPT !.rot.deleted = @ \cup {s}] = m
      BY <1>2, <1>3 DEF State, Rotation
    <2> QED BY <2>1 DEF DeleteSpace
  <1>7. /\ r \in Rotation /\ r.step = "deleting" /\ r.code = mem[d].rot.code
        /\ r.copied = mem[d].rot.copied
    BY <1>2, <1>3 DEF Rotation
  <1>8. m \in State /\ m.account = Old /\ m.rot = r /\ r # NoRot
    BY <1>2, <1>4, <1>7 DEF State
  <1> HIDE DEF r, m
  <1>9. /\ mem' \in [Device -> State] /\ disk' \in [Device -> State]
        /\ mem'[d] = m /\ disk'[d] \in {disk[d], m}
        /\ \A x \in Device \ {d} : mem'[x] = mem[x] /\ disk'[x] = disk[x]
        /\ saveFailures' \in Nat
    BY <1>1, <1>6, <1>8, SaveFacts
  <1>10. TypeOK'
    <2>1. \A x \in Device : mem'[x].rot # NoRot => mem'[x].account = Old
      BY <1>1, <1>8, <1>9 DEF TypeOK, Rotating, Rot
    <2>2. chain' \in [Space -> {"none", "open", "frozen", "gone"}]
      BY <1>1, <1>5 DEF TypeOK
    <2> QED BY <1>1, <1>5, <1>9, <2>1, <2>2
            DEF TypeOK, Rotating, Rot, keychain, known, history
  <1>11. \A x \in Space : chain'[x] \in {chain[x], "gone"}
    BY <1>1, <1>5 DEF TypeOK
  <1>12. RelayGrows
    <2>1. listed \subseteq Space
      BY <1>1 DEF TypeOK
    <2> QED BY <1>5, <1>11, <2>1 DEF RelayGrows, Sealed
  <1>13. \A x \in Device \ {d} : SameFor(x)
    BY <1>5 DEF SameFor
  <1>14. ASSUME NEW st \in {mem'[d], disk'[d]} PROVE StateOK(d, st)'
    <2>1. st.rot # NoRot /\ st.account = Old /\ st.rot.step = "deleting"
          /\ st.rot.code = mem[d].rot.code /\ st.rot.copied = mem[d].rot.copied
      BY <1>2, <1>4, <1>7, <1>8, <1>9
    <2>2. d \in markers' /\ Sealed'
      BY <1>4, <1>5, <1>12 DEF RelayGrows
    <2>3. Complete(st.rot.code)'
      BY <1>4, <1>5, <2>1 DEF Complete
    <2>4. \A x \in st.rot.copied \cap listed' : rows'[x] \subseteq target'[st.rot.code][x]
      BY <1>4, <1>5, <2>1 DEF Complete
    <2> QED BY <2>1, <2>2, <2>3, <2>4 DEF StateOK, Late, Copied, Cancellable
  <1>15. TaskOK(d)' /\ Alone(d) /\ shown \subseteq shown'
    BY <1>1, <1>5, <1>9 DEF TaskOK, Alone, history
  <1>16. RelayOK'
    <2>1. \A c \in shown' : Complete(c)' /\ Sealed'
      BY <1>5, <1>12, ShownCarried DEF history
    <2>2. listed \subseteq Space /\ \A x \in Device : fresh[x] \subseteq Space
      BY <1>1 DEF TypeOK
    <2>3. acctFrozen
      BY <1>4 DEF Sealed
    <2> QED BY <1>1, <1>5, <1>11, <2>1, <2>2, <2>3 DEF RelayOK, known
  <1>17. EditsOK'
    BY <1>5, EditsCarried DEF Somewhere, history, known
  <1> QED BY <1>10, <1>12, <1>13, <1>14, <1>15, <1>16, <1>17, RelayStep

(* A step of a device that leaves the relay alone and loses no edit. *)
LEMMA DeviceStep ==
    ASSUME LegacyRotationAssumption, IInv, NEW d \in Device, TypeOK', UNCHANGED relayVars,
           Stored(d), Alone(d), TaskOK(d)', shown \subseteq shown',
           \A c \in shown' \ shown : Complete(c) /\ Sealed,
           \A x \in Device : \A s \in fresh'[x] : s \in fresh[x],
           \A e \in edited' : e \in edited \cup dirty'[MakerOf[e]],
           \A e \in edited : e \in dirty[MakerOf[e]] \cup kept[MakerOf[e]]
                                => e \in dirty'[MakerOf[e]] \cup kept'[MakerOf[e]]
    PROVE  IInv'
  <1>1. TypeOK /\ RelayOK
    BY DEF IInv
  <1>2. RelayGrows /\ \A x \in Device : SameFor(x)
    BY DEF RelayGrows, SameFor, Sealed, Gone, relayVars
  <1>3. \A st \in {mem'[d], disk'[d]} : StateOK(d, st)'
    BY <1>1, <1>2, StateCarried DEF Stored
  <1>4. RelayOK'
    BY <1>1 DEF RelayOK, Complete, Sealed, Gone, relayVars
  <1>5. EditsOK'
    <2>1. \A s \in Space : rows[s] \subseteq rows'[s]
      BY DEF relayVars
    <2>2. \A c \in Code : \A s \in Space : target[c][s] \subseteq target'[c][s]
      BY DEF relayVars
    <2> QED BY <2>1, <2>2, EditsCarried DEF Somewhere
  <1> QED BY <1>2, <1>3, <1>4, <1>5, RelayStep

(* install_new_account: the device is in a complete account, and an edit   *)
(* of a space the account does not continue becomes a local file.          *)
LEMMA InstallFacts ==
    ASSUME LegacyRotationAssumption, IInv, NEW d \in Device, NEW c \in Code,
           NEW mapping \in SUBSET Space, Complete(c), Sealed, Install(d, c, mapping)
    PROVE  /\ Stored(d)
           /\ kept' \in [Device -> SUBSET Edit] /\ dirty' \in [Device -> SUBSET Edit]
           /\ seen' \in [Device -> SUBSET Space] /\ fresh' \in [Device -> SUBSET Space]
           /\ keys' \in [Device -> BOOLEAN] /\ live' \in [Device -> BOOLEAN]
           /\ \A x \in Device : \A s \in fresh'[x] : s \in fresh[x]
           /\ \A e \in edited : e \in dirty[MakerOf[e]] \cup kept[MakerOf[e]]
                                   => e \in dirty'[MakerOf[e]] \cup kept'[MakerOf[e]]
  <1> DEFINE m == [account |-> c, frozen |-> FALSE, rot |-> NoRot]
             lost == {e \in Own(d) : SpaceOf[e] \in seen[d] \ mapping}
  <1>1. TypeOK /\ StateOK(d, mem[d])
    BY DEF IInv, StatesOK
  <1>2. m \in State /\ m.account = c /\ m.rot = NoRot
    BY DEF State, Account
  <1>3. /\ Save(d, m)
        /\ kept' = [kept EXCEPT ![d] = kept[d] \cup lost]
        /\ dirty' = [dirty EXCEPT ![d] = dirty[d] \ lost]
        /\ seen' = [seen EXCEPT ![d] = seen[d] \cap mapping] /\ fresh' = [fresh EXCEPT ![d] = {}]
        /\ keys' = [keys EXCEPT ![d] = TRUE] /\ live' = [live EXCEPT ![d] = FALSE]
    BY DEF Install, Put
  <1>4. lost \subseteq Edit
    BY <1>1 DEF Own, TypeOK
  <1> HIDE DEF m, lost
  <1>5. StateOK(d, m)
    BY <1>2 DEF LegacyRotationAssumption, StateOK
  <1>6. Stored(d)
    BY <1>2, <1>3, <1>5, SaveStored
  <1>7. kept' \in [Device -> SUBSET Edit] /\ dirty' \in [Device -> SUBSET Edit]
    BY <1>1, <1>3, <1>4 DEF TypeOK
  <1>8. seen' \in [Device -> SUBSET Space] /\ fresh' \in [Device -> SUBSET Space]
    BY <1>1, <1>3 DEF TypeOK
  <1>9. keys' \in [Device -> BOOLEAN] /\ live' \in [Device -> BOOLEAN]
    BY <1>1, <1>3 DEF TypeOK
  <1>10. \A x \in Device : \A s \in fresh'[x] : s \in fresh[x]
    BY <1>1, <1>3 DEF TypeOK
  <1>11. ASSUME NEW e, NEW x \in Device, e \in dirty[x] \cup kept[x]
         PROVE  e \in dirty'[x] \cup kept'[x]
    BY <1>1, <1>3, <1>11 DEF TypeOK
  <1>12. \A e \in edited : MakerOf[e] \in Device
    BY <1>1 DEF LegacyRotationAssumption, TypeOK
  <1> QED BY <1>6, <1>7, <1>8, <1>9, <1>10, <1>11, <1>12

(* The device that changed the code switches to an account that is         *)
(* complete, and shows its code.                                           *)
LEMMA SwitchKeeps ==
    ASSUME LegacyRotationAssumption, IInv, NEW d \in Device, Switch(d)
    PROVE  IInv'
  <1> DEFINE k == mem[d].rot.code
  <1>1. TypeOK /\ TaskOK(d) /\ StateOK(d, mem[d])
    BY DEF IInv, StatesOK, TasksOK, TaskOK
  <1>2. mem[d] \in State /\ mem[d].rot # NoRot /\ mem[d].rot.step = "switching"
    BY <1>1 DEF TypeOK, Switch, Driving, StepOf, Rotating, Rot
  <1>3. k \in Code /\ mem[d].rot.copied \in SUBSET Space
    BY <1>2, StateParts
  <1>4. Complete(k) /\ Sealed
    BY <1>1, <1>2 DEF StateOK, Late, Copied
  <1>5. Install(d, k, mem[d].rot.copied) /\ shown' = shown \cup {k}
        /\ UNCHANGED <<relayVars, keychain, swap, cmd, mark, left, edited,
                       starts, keychainFailures, restarts>>
        /\ bg' \in {[bg EXCEPT ![d] = At("promote", k)], [bg EXCEPT ![d] = Idle]}
    BY DEF Switch, Rot, Put
  <1> HIDE DEF k
  <1>6. /\ Stored(d)
        /\ kept' \in [Device -> SUBSET Edit] /\ dirty' \in [Device -> SUBSET Edit]
        /\ seen' \in [Device -> SUBSET Space] /\ fresh' \in [Device -> SUBSET Space]
        /\ keys' \in [Device -> BOOLEAN] /\ live' \in [Device -> BOOLEAN]
        /\ \A x \in Device : \A s \in fresh'[x] : s \in fresh[x]
        /\ \A e \in edited : e \in dirty[MakerOf[e]] \cup kept[MakerOf[e]]
                                => e \in dirty'[MakerOf[e]] \cup kept'[MakerOf[e]]
    BY <1>3, <1>4, <1>5, InstallFacts
  <1>7. /\ bg' \in [Device -> BgTask] /\ bg'[d].at # "yield"
        /\ \A x \in Device \ {d} : bg'[x] = bg[x]
    <2>1. /\ At("promote", k) \in BgTask /\ At("promote", k).at = "promote"
          /\ Idle \in BgTask /\ Idle.at = "idle"
      BY <1>3 DEF At, Idle, BgTask
    <2>2. bg \in [Device -> BgTask]
      BY <1>1 DEF TypeOK
    <2>3. CASE bg' = [bg EXCEPT ![d] = At("promote", k)]
      BY <2>1, <2>2, <2>3
    <2>4. CASE bg' = [bg EXCEPT ![d] = Idle]
      BY <2>1, <2>2, <2>4
    <2> QED BY <1>5, <2>3, <2>4
  <1>8. TypeOK'
    BY <1>1, <1>3, <1>5, <1>6, <1>7 DEF TypeOK, Stored, Rotating, Rot, relayVars, keychain
  <1>9. Alone(d) /\ TaskOK(d)'
    BY <1>1, <1>5, <1>6, <1>7 DEF Alone, TaskOK, Stored, relayVars
  <1> QED BY <1>4, <1>5, <1>6, <1>8, <1>9, DeviceStep

(* A device that was blocked enters a code that was shown. *)
LEMMA RejoinKeeps ==
    ASSUME LegacyRotationAssumption, IInv, NEW d \in Device, Rejoin(d)
    PROVE  IInv'
  <1> DEFINE k == cmd[d].code
  <1>1. TypeOK /\ TaskOK(d) /\ RelayOK
    BY DEF IInv, TasksOK, TaskOK
  <1>2. k \in shown /\ k \in Code
    BY <1>1 DEF Rejoin, TaskOK, TypeOK
  <1>3. Complete(k) /\ Sealed /\ published[k] \in SUBSET Space
    BY <1>1, <1>2 DEF RelayOK, TypeOK
  <1>4. Install(d, k, published[k])
        /\ UNCHANGED <<relayVars, keychain, swap, bg, history, starts, keychainFailures, restarts>>
        /\ cmd' \in {[cmd EXCEPT ![d] = At("promote", k)], [cmd EXCEPT ![d] = Idle]}
    BY DEF Rejoin, Put
  <1> HIDE DEF k
  <1>5. /\ Stored(d)
        /\ kept' \in [Device -> SUBSET Edit] /\ dirty' \in [Device -> SUBSET Edit]
        /\ seen' \in [Device -> SUBSET Space] /\ fresh' \in [Device -> SUBSET Space]
        /\ keys' \in [Device -> BOOLEAN] /\ live' \in [Device -> BOOLEAN]
        /\ \A x \in Device : \A s \in fresh'[x] : s \in fresh[x]
        /\ \A e \in edited : e \in dirty[MakerOf[e]] \cup kept[MakerOf[e]]
                                => e \in dirty'[MakerOf[e]] \cup kept'[MakerOf[e]]
    BY <1>2, <1>3, <1>4, InstallFacts
  <1>6. /\ cmd' \in [Device -> CmdTask] /\ cmd'[d].at \notin {"start", "rejoin"}
        /\ \A x \in Device \ {d} : cmd'[x] = cmd[x]
    <2>1. /\ At("promote", k) \in CmdTask /\ At("promote", k).at = "promote"
          /\ Idle \in CmdTask /\ Idle.at = "idle"
      BY <1>2 DEF At, Idle, CmdTask
    <2>2. cmd \in [Device -> CmdTask]
      BY <1>1 DEF TypeOK
    <2>3. CASE cmd' = [cmd EXCEPT ![d] = At("promote", k)]
      BY <2>1, <2>2, <2>3
    <2>4. CASE cmd' = [cmd EXCEPT ![d] = Idle]
      BY <2>1, <2>2, <2>4
    <2> QED BY <1>4, <2>3, <2>4
  <1>7. TypeOK'
    BY <1>1, <1>4, <1>5, <1>6 DEF TypeOK, Stored, Rotating, Rot, relayVars, keychain, history
  <1>8. Alone(d) /\ TaskOK(d)'
    BY <1>1, <1>4, <1>5, <1>6 DEF Alone, TaskOK, Stored, relayVars
  <1> QED BY <1>4, <1>5, <1>7, <1>8, DeviceStep DEF history

(* leave_account: every edit of this device becomes a local file. *)
LEMMA LeaveClearKeeps ==
    ASSUME LegacyRotationAssumption, IInv, NEW d \in Device, LeaveClear(d)
    PROVE  IInv'
  <1> DEFINE m == [account |-> Left, frozen |-> FALSE, rot |-> NoRot]
  <1>1. TypeOK /\ TaskOK(d)
    BY DEF IInv, TasksOK, TaskOK
  <1>2. m \in State /\ m.account = Left /\ m.rot = NoRot /\ Save(d, m)
    BY DEF State, Account, LeaveClear
  <1> HIDE DEF m
  <1>3. Stored(d)
    <2>1. StateOK(d, m)
      BY <1>2 DEF LegacyRotationAssumption, StateOK
    <2> QED BY <1>2, <2>1, SaveStored
  <1>4. /\ kept' = [kept EXCEPT ![d] = Own(d)] /\ dirty' = [dirty EXCEPT ![d] = {}]
        /\ fresh' = [fresh EXCEPT ![d] = {}] /\ seen' = [seen EXCEPT ![d] = {}]
        /\ keys' = [keys EXCEPT ![d] = FALSE] /\ live' = [live EXCEPT ![d] = FALSE]
        /\ cmd' = [cmd EXCEPT ![d] = At("forget", NoCode)] /\ left' = left \cup {d}
        /\ UNCHANGED <<relayVars, keychain, swap, bg, mark, shown, edited,
                       starts, keychainFailures, restarts>>
    BY DEF LeaveClear, Put
  <1>5. TypeOK'
    <2>1. kept' \in [Device -> SUBSET Edit] /\ dirty' \in [Device -> SUBSET Edit]
      BY <1>1, <1>4 DEF TypeOK, Own
    <2>2. seen' \in [Device -> SUBSET Space] /\ fresh' \in [Device -> SUBSET Space]
      BY <1>1, <1>4 DEF TypeOK
    <2>3. keys' \in [Device -> BOOLEAN] /\ live' \in [Device -> BOOLEAN]
      BY <1>1, <1>4 DEF TypeOK
    <2>4. cmd' \in [Device -> CmdTask]
      BY <1>1, <1>4 DEF TypeOK, At, Idle, CmdTask
    <2> QED BY <1>1, <1>3, <1>4, <2>1, <2>2, <2>3, <2>4
            DEF TypeOK, Stored, Rotating, Rot, relayVars, keychain
  <1>6. Alone(d) /\ TaskOK(d)'
    BY <1>1, <1>3, <1>4 DEF TypeOK, Stored, Alone, TaskOK, At, Idle, relayVars
  <1>7. \A x \in Device : \A s \in fresh'[x] : s \in fresh[x]
    BY <1>1, <1>4 DEF TypeOK
  <1>8. ASSUME NEW e \in edited, e \in dirty[MakerOf[e]] \cup kept[MakerOf[e]]
        PROVE  e \in dirty'[MakerOf[e]] \cup kept'[MakerOf[e]]
    <2>1. MakerOf[e] \in Device
      BY <1>1 DEF LegacyRotationAssumption, TypeOK
    <2>2. MakerOf[e] = d => e \in Own(d)
      BY DEF Own
    <2> QED BY <1>1, <1>4, <1>8, <2>1, <2>2 DEF TypeOK
  <1> QED BY <1>3, <1>4, <1>5, <1>6, <1>7, <1>8, DeviceStep

(* A new edit is its maker's to send. *)
LEMMA MakeEditKeeps ==
    ASSUME LegacyRotationAssumption, IInv, NEW d \in Device, NEW e \in Edit, MakeEdit(d, e)
    PROVE  IInv'
  <1>1. TypeOK /\ TaskOK(d)
    BY DEF IInv, TasksOK, TaskOK
  <1>2. /\ dirty' = [dirty EXCEPT ![d] = dirty[d] \cup {e}] /\ edited' = edited \cup {e}
        /\ MakerOf[e] = d
        /\ UNCHANGED <<relayVars, mem, disk, keychain, keys, swap, seen, fresh, kept, bg, cmd,
                       live, mark, shown, left, bounds>>
    BY DEF MakeEdit, Put
  <1>3. Stored(d)
    BY <1>2, UnsavedStored DEF bounds
  <1>4. dirty' \in [Device -> SUBSET Edit]
        /\ \A x \in Device : dirty[x] \subseteq dirty'[x] /\ e \in dirty'[d]
    BY <1>1, <1>2 DEF TypeOK
  <1>5. TypeOK'
    BY <1>1, <1>2, <1>4 DEF TypeOK, Rotating, Rot, relayVars, keychain, bounds
  <1>6. Alone(d) /\ TaskOK(d)'
    BY <1>1, <1>2 DEF Alone, TaskOK, relayVars
  <1>7. \A x \in edited : MakerOf[x] \in Device
    BY <1>1 DEF LegacyRotationAssumption, TypeOK
  <1> QED BY <1>2, <1>3, <1>4, <1>5, <1>6, <1>7, DeviceStep

-----------------------------------------------------------------------------
(* At the start every device is in the old account and nothing is marked. *)
LEMMA InitHolds ==
    ASSUME LegacyRotationAssumption, Init
    PROVE  IInv
  <1>1. TypeOK
    <2>1. [account |-> Old, frozen |-> FALSE, rot |-> NoRot] \in State
      BY DEF State, Account
    <2>2. Idle \in BgTask /\ Idle \in CmdTask
      BY DEF Idle, BgTask, CmdTask
    <2>3. /\ starts \in [Device -> 0..MaxStarts] /\ saveFailures \in Nat
          /\ keychainFailures \in Nat /\ restarts \in Nat
      BY DEF LegacyRotationAssumption, Init
    <2>4. mem \in [Device -> State] /\ disk \in [Device -> State]
          /\ bg \in [Device -> BgTask] /\ cmd \in [Device -> CmdTask]
          /\ \A d \in Device : Rotating(d) => mem[d].account = Old
      BY <2>1, <2>2 DEF Init, Rotating, Rot
    <2>5. /\ markers \subseteq Device /\ acctFrozen \in BOOLEAN /\ listed \subseteq Space
          /\ chain \in [Space -> {"none", "open", "frozen", "gone"}]
          /\ rows \in [Space -> SUBSET Edit]
      BY DEF LegacyRotationAssumption, Init
    <2>6. target \in [Code -> [Space -> SUBSET Edit]] /\ published \in [Code -> SUBSET Space]
      BY DEF Init
    <2>7. {seen, fresh} \subseteq [Device -> SUBSET Space]
          /\ {dirty, kept} \subseteq [Device -> SUBSET Edit]
          /\ shown \subseteq Code /\ left \subseteq Device /\ edited \subseteq Edit
      BY DEF LegacyRotationAssumption, Init
    <2>8. /\ cur \in [Device -> {Old, NoCode} \cup Code]
          /\ next \in [Device -> Code \cup {NoCode}] /\ mark \in [Device -> Code \cup {NoCode}]
          /\ {keys, swap, live} \subseteq [Device -> BOOLEAN]
      BY DEF Init
    <2> QED BY <2>3, <2>4, <2>5, <2>6, <2>7, <2>8 DEF TypeOK
  <1>2. StatesOK
    BY DEF LegacyRotationAssumption, Init, StatesOK, StateOK
  <1>3. TasksOK
    BY DEF Init, TasksOK, Idle
  <1>4. RelayOK /\ EditsOK
    BY DEF LegacyRotationAssumption, Init, RelayOK, EditsOK, Gone
  <1> QED BY <1>1, <1>2, <1>3, <1>4 DEF IInv

(* Every step of the background thread, of a command, of the user and of   *)
(* a restart.                                                              *)
LEMMA StepKeeps ==
    ASSUME LegacyRotationAssumption, IInv, [Next]_vars
    PROVE  IInv'
  <1>1. ASSUME NEW d \in Device, Background(d) PROVE IInv'
    BY <1>1, ResaveKeeps, PullAccountKeeps, SeeMarkersKeeps, PushAccountRowsKeeps, PushEditKeeps,
       PushToNewKeeps, EndRoundKeeps, CheckCodeKeeps, EnterFreezingKeeps, PushMarkerKeeps,
       LoseRaceKeeps, FreezeAccountKeeps, FreezeSpaceKeeps, CopySpaceKeeps, DeleteSpaceKeeps,
       EnterCopyingKeeps, YieldKeeps, UnstageKeeps, CreateChainsKeeps, PushNewAccountKeeps,
       EnterSwitchingKeeps, SwitchKeeps, RetrySwapKeeps DEF Background
  <1>2. ASSUME NEW d \in Device, Command(d) PROVE IInv'
    BY <1>2, StartRecordKeeps, CommandUnstageKeeps, LeaveClearKeeps, LeaveRefusedKeeps,
       LeaveForgetKeeps, RejoinKeeps, PromoteKeeps DEF Command
  <1>3. ASSUME NEW d \in Device, User(d) PROVE IInv'
    BY <1>3, StartStageKeeps, CancelKeeps, LeaveDecideKeeps, MakeEditKeeps, CreateSpaceKeeps,
       RejoinStageKeeps DEF User
  <1>4. CASE UNCHANGED vars
    BY <1>4 DEF IInv, TypeOK, Rotating, Rot, StatesOK, StateOK, TasksOK, RelayOK, EditsOK,
                Somewhere, Sealed, Complete, Gone, vars, relayVars, keychain, known, history, bounds
  <1> QED BY <1>1, <1>2, <1>3, <1>4, RestartKeeps DEF Next

(* The inductive invariant holds whatever the devices do and whatever      *)
(* fails: states, tasks and relay fit together.                            *)
THEOREM Invariance ==
    ASSUME LegacyRotationAssumption
    PROVE  Spec => []IInv
  <1>1. Init => IInv
    BY InitHolds
  <1>2. IInv /\ [Next]_vars => IInv'
    BY StepKeeps
  <1> QED BY <1>1, <1>2, PTL DEF Spec

(* Every variable keeps its type, and a progress record belongs to the old *)
(* account only.                                                           *)
THEOREM TypeCorrect ==
    ASSUME LegacyRotationAssumption
    PROVE  Spec => []TypeOK
  <1>1. IInv => TypeOK
    BY DEF IInv
  <1> QED BY <1>1, Invariance, PTL

(* However many devices change the code at once, save, fail, leave and     *)
(* restart: a device that switched or rejoined is in an account that holds *)
(* everything the old one accepted, and an edit that was never accepted is *)
(* still with its maker.                                                   *)
THEOREM NothingIsLost ==
    ASSUME LegacyRotationAssumption
    PROVE  Spec => []NothingLost
  <1>1. IInv => NothingLost
    BY DEF IInv, StatesOK, StateOK, Complete, EditsOK, Somewhere, NothingLost
  <1> QED BY <1>1, Invariance, PTL

(* The marker on the old account is final: neither memory nor the file of  *)
(* the device that put it there lets its change be cancelled again.        *)
THEOREM MarkIsFinal ==
    ASSUME LegacyRotationAssumption
    PROVE  Spec => []FrozenIsFinal
  <1>1. IInv => FrozenIsFinal
    BY DEF IInv, TypeOK, StatesOK, StateOK, FrozenIsFinal
  <1> QED BY <1>1, Invariance, PTL

-----------------------------------------------------------------------------
(* Where the new code is.  A change is firm once it cannot be cancelled. *)
Firm(st) == st.rot # NoRot /\ st.rot.step \notin Cancellable

(* The account may still be marked by this device, or was.  From then on   *)
(* its new code matters, until it leaves.                                  *)
Matters(d) == d \notin left /\ (~acctFrozen \/ d \in markers)

(* What a device that marked the account is in, in memory and on disk. *)
MarkedOK(d) ==
    d \in markers =>
        /\ mark[d] \in Code
        /\ d \notin left => mark[d] \in {cur[d], next[d]}
        /\ \A st \in {mem[d], disk[d]} :
              /\ ~st.frozen /\ st.account \in {Old, Left, mark[d]}
              /\ st.rot # NoRot => st.rot.code = mark[d]

(* The staged code is that of the firm change, and memory is not behind    *)
(* the file.                                                               *)
StagedOK(d) ==
    /\ \A st \in {mem[d], disk[d]} : st.frozen => st.rot = NoRot
    /\ Matters(d) => \A st \in {mem[d], disk[d]} : Firm(st) => next[d] = st.rot.code
    /\ Matters(d) /\ Firm(disk[d]) /\ mem[d].account = Old => Firm(mem[d])
    /\ swap[d] => mem[d].account # Old /\ disk[d].account # Old

(* What the tasks of a device still know of its code. *)
HoldingOK(d) ==
    /\ bg[d].at \in {"push", "yield", "enter", "unstage"} => d \notin markers
    /\ bg[d].at \in {"yield", "unstage"} /\ ~acctFrozen => ~Firm(mem[d]) /\ ~Firm(disk[d])
    /\ bg[d].at = "enter" /\ mem[d].rot # NoRot /\ mem[d].rot.step = "sent"
          => next[d] = mem[d].rot.code
    /\ bg[d].at = "promote" =>
          /\ mem[d].account # Old /\ disk[d].account # Old
          /\ d \in markers => bg[d].code = mark[d]
    /\ cmd[d].at \in {"start", "cancelled", "unstage"} => mem[d].account = Old /\ mem[d].rot = NoRot
    /\ cmd[d].at = "rejoin" => d \notin markers /\ mem[d].rot = NoRot
    /\ cmd[d].at = "promote" =>
          d \notin markers /\ mem[d].account # Old /\ disk[d].account # Old
    /\ cmd[d].at = "forget" => d \in left /\ mem[d].rot = NoRot

CodeOK(d) == MarkedOK(d) /\ StagedOK(d) /\ HoldingOK(d)

CodesOK == \A d \in Device : CodeOK(d)

(* A step of one device: the codes of the others are where they were. *)
CodeAlone(d) ==
    /\ \A x \in Device \ {d} :
          /\ mem'[x] = mem[x] /\ disk'[x] = disk[x] /\ bg'[x] = bg[x] /\ cmd'[x] = cmd[x]
          /\ cur'[x] = cur[x] /\ next'[x] = next[x] /\ mark'[x] = mark[x] /\ swap'[x] = swap[x]
          /\ (x \in left' <=> x \in left) /\ (x \in markers' <=> x \in markers)
    /\ acctFrozen => acctFrozen'

(* It is enough to look at the device that takes the step. *)
LEMMA CodeStep ==
    ASSUME CodesOK, NEW d \in Device, CodeAlone(d), CodeOK(d)'
    PROVE  CodesOK'
  <1>1. ASSUME NEW x \in Device \ {d} PROVE CodeOK(x)'
    BY DEF CodesOK, CodeOK, CodeAlone, MarkedOK, StagedOK, HoldingOK, Firm, Matters
  <1> QED BY <1>1 DEF CodesOK

(* Steps that leave states, tasks, codes and markers alone. *)
LEMMA CodesSame ==
    ASSUME CodesOK, acctFrozen => acctFrozen',
           UNCHANGED <<mem, disk, bg, cmd, cur, next, mark, swap, left, markers>>
    PROVE  CodesOK'
  BY DEF CodesOK, CodeOK, MarkedOK, StagedOK, HoldingOK, Firm, Matters

(* Steps of a change that cannot be cancelled any more. *)
LEMMA FirmStep ==
    ASSUME LegacyRotationAssumption, IInv, CodesOK, NEW d \in Device, NEW m \in State, Save(d, m),
           Firm(mem[d]), Firm(m), m.account = mem[d].account, m.frozen = mem[d].frozen,
           m.rot.code = mem[d].rot.code, bg[d] = Idle,
           UNCHANGED <<bg, cmd, cur, next, mark, swap, left, markers, acctFrozen>>
    PROVE  CodesOK'
  <1>1. TypeOK /\ CodeOK(d) /\ StateOK(d, mem[d])
    BY DEF IInv, StatesOK, CodesOK
  <1>2. /\ mem'[d] = m /\ disk'[d] \in {disk[d], m}
        /\ \A x \in Device \ {d} : mem'[x] = mem[x] /\ disk'[x] = disk[x]
    BY <1>1, SaveFacts
  <1>3. CodeAlone(d)
    BY <1>2 DEF CodeAlone
  <1>4. MarkedOK(d)'
    BY <1>1, <1>2 DEF CodeOK, MarkedOK, Firm
  <1>5. StagedOK(d)'
    BY <1>1, <1>2 DEF CodeOK, StagedOK, Matters, Firm, StateOK
  <1>6. HoldingOK(d)'
    BY <1>1, <1>2 DEF CodeOK, HoldingOK, StateOK, Firm, Idle, StagedOK
  <1> QED BY <1>3, <1>4, <1>5, <1>6, CodeStep DEF CodeOK


(* The copy begins. *)
LEMMA EnterCopyingCodes ==
    ASSUME LegacyRotationAssumption, IInv, CodesOK, NEW d \in Device, EnterCopying(d)
    PROVE  CodesOK'
  <1> USE LegacyRotationAssumption
  <1>1. TypeOK /\ StateOK(d, mem[d]) /\ StateOK(d, disk[d]) /\ RelayOK /\ CodeOK(d)
    BY DEF IInv, StatesOK, CodesOK
  <1> DEFINE m == [mem[d] EXCEPT !.rot.step = "copying"]
  <1>2. mem[d] \in State /\ mem[d].rot # NoRot /\ mem[d].rot.step = "freezing" /\ bg[d] = Idle
    BY <1>1 DEF TypeOK, EnterCopying, Driving, Ready, StepOf, Rotating, Rot
  <1>3. /\ m \in State /\ m.account = mem[d].account /\ m.frozen = mem[d].frozen
        /\ m.rot # NoRot /\ m.rot.step = "copying" /\ m.rot.code = mem[d].rot.code
    <2>1. "copying" \in Step
      BY DEF Step
    <2> QED BY <1>2, <2>1, StepState
  <1>4. /\ Save(d, m)
        /\ UNCHANGED <<bg, cmd, cur, next, mark, swap, left, markers, acctFrozen>>
    BY DEF EnterCopying, SaveStep, relayVars, keychain, history
  <1> HIDE DEF m
  <1>5. Firm(mem[d]) /\ Firm(m)
    BY <1>2, <1>3 DEF Firm, Cancellable
  <1> QED BY <1>2, <1>3, <1>4, <1>5, FirmStep

(* The new account is pushed. *)
LEMMA PushNewAccountCodes ==
    ASSUME LegacyRotationAssumption, IInv, CodesOK, NEW d \in Device, PushNewAccount(d)
    PROVE  CodesOK'
  <1> USE LegacyRotationAssumption
  <1>1. TypeOK /\ StateOK(d, mem[d]) /\ StateOK(d, disk[d]) /\ RelayOK /\ CodeOK(d)
    BY DEF IInv, StatesOK, CodesOK
  <1> DEFINE m == [mem[d] EXCEPT !.rot.step = "deleting"]
  <1>2. mem[d] \in State /\ mem[d].rot # NoRot /\ mem[d].rot.step = "copying" /\ bg[d] = Idle
    BY <1>1 DEF TypeOK, PushNewAccount, Copying, Driving, Ready, StepOf, Rotating, Rot
  <1>3. /\ m \in State /\ m.account = mem[d].account /\ m.frozen = mem[d].frozen
        /\ m.rot # NoRot /\ m.rot.step = "deleting" /\ m.rot.code = mem[d].rot.code
    <2>1. "deleting" \in Step
      BY DEF Step
    <2> QED BY <1>2, <2>1, StepState
  <1>4. /\ Save(d, m)
        /\ UNCHANGED <<bg, cmd, cur, next, mark, swap, left, markers, acctFrozen>>
    BY DEF PushNewAccount, SaveStep, relayVars, keychain, history
  <1> HIDE DEF m
  <1>5. Firm(mem[d]) /\ Firm(m)
    BY <1>2, <1>3 DEF Firm, Cancellable
  <1> QED BY <1>2, <1>3, <1>4, <1>5, FirmStep

(* The switch begins. *)
LEMMA EnterSwitchingCodes ==
    ASSUME LegacyRotationAssumption, IInv, CodesOK, NEW d \in Device, EnterSwitching(d)
    PROVE  CodesOK'
  <1> USE LegacyRotationAssumption
  <1>1. TypeOK /\ StateOK(d, mem[d]) /\ StateOK(d, disk[d]) /\ RelayOK /\ CodeOK(d)
    BY DEF IInv, StatesOK, CodesOK
  <1> DEFINE m == [mem[d] EXCEPT !.rot.step = "switching"]
  <1>2. mem[d] \in State /\ mem[d].rot # NoRot /\ mem[d].rot.step = "deleting" /\ bg[d] = Idle
    BY <1>1 DEF TypeOK, EnterSwitching, Driving, Ready, StepOf, Rotating, Rot
  <1>3. /\ m \in State /\ m.account = mem[d].account /\ m.frozen = mem[d].frozen
        /\ m.rot # NoRot /\ m.rot.step = "switching" /\ m.rot.code = mem[d].rot.code
    <2>1. "switching" \in Step
      BY DEF Step
    <2> QED BY <1>2, <2>1, StepState
  <1>4. /\ Save(d, m)
        /\ UNCHANGED <<bg, cmd, cur, next, mark, swap, left, markers, acctFrozen>>
    BY DEF EnterSwitching, SaveStep, relayVars, keychain, history
  <1> HIDE DEF m
  <1>5. Firm(mem[d]) /\ Firm(m)
    BY <1>2, <1>3 DEF Firm, Cancellable
  <1> QED BY <1>2, <1>3, <1>4, <1>5, FirmStep

(* The new chains are created. *)
LEMMA CreateChainsCodes ==
    ASSUME LegacyRotationAssumption, IInv, CodesOK, NEW d \in Device, CreateChains(d)
    PROVE  CodesOK'
  <1> USE LegacyRotationAssumption
  <1>1. TypeOK /\ StateOK(d, mem[d]) /\ StateOK(d, disk[d]) /\ RelayOK /\ CodeOK(d)
    BY DEF IInv, StatesOK, CodesOK
  <1> DEFINE r == [mem[d].rot EXCEPT !.plan = @ \cup listed, !.created = TRUE]
             m == [mem[d] EXCEPT !.rot = r]
  <1>2. /\ mem[d] \in State /\ mem[d].rot # NoRot /\ mem[d].rot.step = "copying" /\ bg[d] = Idle
        /\ listed \subseteq Space
    BY <1>1 DEF TypeOK, CreateChains, Copying, Driving, Ready, StepOf, Rotating, Rot
  <1>3. mem[d].rot \in Rotation
    BY <1>2, StateParts
  <1>4. Save(d, m) /\ UNCHANGED <<bg, cmd, cur, next, mark, swap, left, markers, acctFrozen>>
    <2>1. [mem[d] EXCEPT !.rot.plan = @ \cup listed, !.rot.created = TRUE] = m
      BY <1>2, <1>3 DEF State, Rotation
    <2> QED BY <2>1 DEF CreateChains, relayVars, keychain, history
  <1>5. r \in Rotation /\ r.step = "copying" /\ r.code = mem[d].rot.code
    BY <1>2, <1>3 DEF Rotation
  <1> HIDE DEF r
  <1>6. m \in State /\ m.account = mem[d].account /\ m.frozen = mem[d].frozen /\ m.rot = r
        /\ r # NoRot
    BY <1>2, <1>5 DEF State
  <1> HIDE DEF m
  <1>7. Firm(mem[d]) /\ Firm(m)
    BY <1>2, <1>5, <1>6 DEF Firm, Cancellable
  <1> QED BY <1>2, <1>4, <1>5, <1>6, <1>7, FirmStep

(* A space is copied. *)
LEMMA CopySpaceCodes ==
    ASSUME LegacyRotationAssumption, IInv, CodesOK, NEW d \in Device, NEW s \in Space,
           CopySpace(d, s)
    PROVE  CodesOK'
  <1> USE LegacyRotationAssumption
  <1>1. TypeOK /\ StateOK(d, mem[d]) /\ StateOK(d, disk[d]) /\ RelayOK /\ CodeOK(d)
    BY DEF IInv, StatesOK, CodesOK
  <1> DEFINE r == [mem[d].rot EXCEPT !.copied = @ \cup {s}]
             m == [mem[d] EXCEPT !.rot = r]
  <1>2. /\ mem[d] \in State /\ mem[d].rot # NoRot /\ mem[d].rot.step = "copying" /\ bg[d] = Idle
        /\ listed \subseteq Space
    BY <1>1 DEF TypeOK, CopySpace, Copying, Driving, Ready, StepOf, Rotating, Rot
  <1>3. mem[d].rot \in Rotation
    BY <1>2, StateParts
  <1>4. Save(d, m) /\ UNCHANGED <<bg, cmd, cur, next, mark, swap, left, markers, acctFrozen>>
    <2>1. [mem[d] EXCEPT !.rot.copied = @ \cup {s}] = m
      BY <1>2, <1>3 DEF State, Rotation
    <2> QED BY <2>1 DEF CopySpace, relayVars, keychain, history
  <1>5. r \in Rotation /\ r.step = "copying" /\ r.code = mem[d].rot.code
    BY <1>2, <1>3 DEF Rotation
  <1> HIDE DEF r
  <1>6. m \in State /\ m.account = mem[d].account /\ m.frozen = mem[d].frozen /\ m.rot = r
        /\ r # NoRot
    BY <1>2, <1>5 DEF State
  <1> HIDE DEF m
  <1>7. Firm(mem[d]) /\ Firm(m)
    BY <1>2, <1>5, <1>6 DEF Firm, Cancellable
  <1> QED BY <1>2, <1>4, <1>5, <1>6, <1>7, FirmStep

(* A space is deleted. *)
LEMMA DeleteSpaceCodes ==
    ASSUME LegacyRotationAssumption, IInv, CodesOK, NEW d \in Device, NEW s \in Space,
           DeleteSpace(d, s)
    PROVE  CodesOK'
  <1> USE LegacyRotationAssumption
  <1>1. TypeOK /\ StateOK(d, mem[d]) /\ StateOK(d, disk[d]) /\ RelayOK /\ CodeOK(d)
    BY DEF IInv, StatesOK, CodesOK
  <1> DEFINE r == [mem[d].rot EXCEPT !.deleted = @ \cup {s}]
             m == [mem[d] EXCEPT !.rot = r]
  <1>2. /\ mem[d] \in State /\ mem[d].rot # NoRot /\ mem[d].rot.step = "deleting" /\ bg[d] = Idle
        /\ listed \subseteq Space
    BY <1>1 DEF TypeOK, DeleteSpace, Driving, Ready, StepOf, Rotating, Rot
  <1>3. mem[d].rot \in Rotation
    BY <1>2, StateParts
  <1>4. Save(d, m) /\ UNCHANGED <<bg, cmd, cur, next, mark, swap, left, markers, acctFrozen>>
    <2>1. [mem[d] EXCEPT !.rot.deleted = @ \cup {s}] = m
      BY <1>2, <1>3 DEF State, Rotation
    <2> QED BY <2>1 DEF DeleteSpace, relayVars, keychain, history
  <1>5. r \in Rotation /\ r.step = "deleting" /\ r.code = mem[d].rot.code
    BY <1>2, <1>3 DEF Rotation
  <1> HIDE DEF r
  <1>6. m \in State /\ m.account = mem[d].account /\ m.frozen = mem[d].frozen /\ m.rot = r
        /\ r # NoRot
    BY <1>2, <1>5 DEF State
  <1> HIDE DEF m
  <1>7. Firm(mem[d]) /\ Firm(m)
    BY <1>2, <1>5, <1>6 DEF Firm, Cancellable
  <1> QED BY <1>2, <1>4, <1>5, <1>6, <1>7, FirmStep

(* A round begins: this device has no marker. *)
LEMMA PullAccountCodes ==
    ASSUME LegacyRotationAssumption, IInv, CodesOK, NEW d \in Device, PullAccount(d)
    PROVE  CodesOK'
  <1> USE LegacyRotationAssumption
  <1>1. TypeOK /\ StateOK(d, mem[d]) /\ StateOK(d, disk[d]) /\ RelayOK /\ CodeOK(d)
    BY DEF IInv, StatesOK, CodesOK
  <1>2. CodeAlone(d)
    BY <1>1 DEF TypeOK, CodeAlone, PullAccount, InRound, Ready, Put, relayVars, keychain, history
  <1>6. d \notin markers
    <2>1. mem[d].rot # NoRot => mem[d].rot.step \in Step
      BY <1>1, StateParts DEF TypeOK
    <2> QED BY <1>1, <2>1 DEF PullAccount, InRound, StateOK, StepOf, Rotating, Rot, Step,
                Cancellable
  <1>3. MarkedOK(d)'
    BY <1>1, <1>6 DEF TypeOK, CodeOK, MarkedOK, StagedOK, HoldingOK, StateOK, Firm, Matters,
                PullAccount, InRound, Ready, Put, relayVars, keychain, history
  <1>4. StagedOK(d)'
    BY <1>1, <1>6 DEF TypeOK, CodeOK, StagedOK, HoldingOK, StateOK, Firm, Matters,
                PullAccount, InRound, Ready, Put, relayVars, keychain, history
  <1>5. HoldingOK(d)'
    BY <1>1, <1>6 DEF TypeOK, CodeOK, MarkedOK, StagedOK, HoldingOK, StateOK, Firm, Matters,
                PullAccount, InRound, Ready, Put, At, Idle, relayVars, keychain, history
  <1> QED BY <1>2, <1>3, <1>4, <1>5, CodeStep DEF CodeOK

(* The staged code is that of the change, which has no marker yet. *)
LEMMA CheckCodeCodes ==
    ASSUME LegacyRotationAssumption, IInv, CodesOK, NEW d \in Device, CheckCode(d)
    PROVE  CodesOK'
  <1> USE LegacyRotationAssumption
  <1>1. TypeOK /\ StateOK(d, mem[d]) /\ StateOK(d, disk[d]) /\ RelayOK /\ CodeOK(d)
    BY DEF IInv, StatesOK, CodesOK
  <1>2. CodeAlone(d)
    BY <1>1 DEF TypeOK, CodeAlone, CheckCode, Driving, Ready, StepOf, Rotating, Rot, Cancellable,
                Put, relayVars, keychain, history
  <1>3. MarkedOK(d)'
    BY <1>1 DEF TypeOK, CodeOK, MarkedOK, StagedOK, HoldingOK, StateOK, Firm, Matters,
                CheckCode, Driving, Ready, StepOf, Rotating, Rot, Cancellable, Put, relayVars,
                keychain, history
  <1>4. StagedOK(d)'
    BY <1>1 DEF TypeOK, CodeOK, StagedOK, HoldingOK, StateOK, Firm, Matters,
                CheckCode, Driving, Ready, StepOf, Rotating, Rot, Cancellable, Put, relayVars,
                keychain, history
  <1>5. HoldingOK(d)'
    BY <1>1 DEF TypeOK, CodeOK, MarkedOK, StagedOK, HoldingOK, StateOK, Firm, Matters,
                CheckCode, Driving, Ready, StepOf, Rotating, Rot, Cancellable, Put, At, Idle,
                relayVars, keychain, history
  <1> QED BY <1>2, <1>3, <1>4, <1>5, CodeStep DEF CodeOK

(* Another device froze the account. *)
LEMMA LoseRaceCodes ==
    ASSUME LegacyRotationAssumption, IInv, CodesOK, NEW d \in Device, LoseRace(d)
    PROVE  CodesOK'
  <1> USE LegacyRotationAssumption
  <1>1. TypeOK /\ StateOK(d, mem[d]) /\ StateOK(d, disk[d]) /\ RelayOK /\ CodeOK(d)
    BY DEF IInv, StatesOK, CodesOK
  <1>2. CodeAlone(d)
    BY <1>1 DEF TypeOK, CodeAlone, LoseRace, Driving, Ready, Put, relayVars, keychain, history
  <1>3. MarkedOK(d)'
    BY <1>1 DEF TypeOK, CodeOK, MarkedOK, StagedOK, HoldingOK, StateOK, Firm, Matters,
                LoseRace, Driving, Ready, Put, relayVars, keychain, history
  <1>4. StagedOK(d)'
    BY <1>1 DEF TypeOK, CodeOK, StagedOK, HoldingOK, StateOK, Firm, Matters,
                LoseRace, Driving, Ready, Put, relayVars, keychain, history
  <1>5. HoldingOK(d)'
    BY <1>1 DEF TypeOK, CodeOK, MarkedOK, StagedOK, HoldingOK, StateOK, Firm, Matters,
                LoseRace, Driving, Ready, Put, At, Idle, relayVars, keychain, history
  <1> QED BY <1>2, <1>3, <1>4, <1>5, CodeStep DEF CodeOK

(* The code of a change that was given up is deleted: no marker waits for it. *)
LEMMA UnstageCodes ==
    ASSUME LegacyRotationAssumption, IInv, CodesOK, NEW d \in Device, Unstage(d)
    PROVE  CodesOK'
  <1> USE LegacyRotationAssumption
  <1>1. TypeOK /\ StateOK(d, mem[d]) /\ StateOK(d, disk[d]) /\ RelayOK /\ CodeOK(d)
    BY DEF IInv, StatesOK, CodesOK
  <1>2. CodeAlone(d)
    BY <1>1 DEF TypeOK, CodeAlone, Unstage, DeleteStaged, Put, relayVars, keychain, history
  <1>3. MarkedOK(d)'
    BY <1>1 DEF TypeOK, CodeOK, MarkedOK, StagedOK, HoldingOK, StateOK, Firm, Matters,
                Unstage, DeleteStaged, Put, relayVars, keychain, history
  <1>4. StagedOK(d)'
    BY <1>1 DEF TypeOK, CodeOK, StagedOK, HoldingOK, StateOK, Firm, Matters,
                Unstage, DeleteStaged, Put, relayVars, keychain, history
  <1>5. HoldingOK(d)'
    BY <1>1 DEF TypeOK, CodeOK, MarkedOK, StagedOK, HoldingOK, StateOK, Firm, Matters,
                Unstage, DeleteStaged, Put, At, Idle, relayVars, keychain, history
  <1> QED BY <1>2, <1>3, <1>4, <1>5, CodeStep DEF CodeOK

(* A code is staged for a new change: the device has no marker. *)
LEMMA StartStageCodes ==
    ASSUME LegacyRotationAssumption, IInv, CodesOK, NEW d \in Device, StartStage(d)
    PROVE  CodesOK'
  <1> USE LegacyRotationAssumption
  <1>1. TypeOK /\ StateOK(d, mem[d]) /\ StateOK(d, disk[d]) /\ RelayOK /\ CodeOK(d)
    BY DEF IInv, StatesOK, CodesOK
  <1>2. CodeAlone(d)
    BY <1>1 DEF TypeOK, CodeAlone, StartStage, AccountReady, Rotating, Rot, NewCode, Put,
                relayVars, keychain, history
  <1>3. MarkedOK(d)'
    BY <1>1 DEF TypeOK, CodeOK, MarkedOK, StagedOK, HoldingOK, StateOK, Firm, Matters,
                StartStage, AccountReady, Rotating, Rot, NewCode, Put, relayVars, keychain, history
  <1>4. StagedOK(d)'
    BY <1>1 DEF TypeOK, CodeOK, StagedOK, HoldingOK, StateOK, Firm, Matters,
                StartStage, AccountReady, Rotating, Rot, NewCode, Put, relayVars, keychain, history
  <1>5. HoldingOK(d)'
    BY <1>1 DEF TypeOK, CodeOK, MarkedOK, StagedOK, HoldingOK, StateOK, Firm, Matters,
                StartStage, AccountReady, Rotating, Rot, NewCode, Put, At, Idle, relayVars,
                keychain, history
  <1> QED BY <1>2, <1>3, <1>4, <1>5, CodeStep DEF CodeOK

(* The code of a cancelled change is deleted: no marker waits for it. *)
LEMMA CommandUnstageCodes ==
    ASSUME LegacyRotationAssumption, IInv, CodesOK, NEW d \in Device, CommandUnstage(d)
    PROVE  CodesOK'
  <1> USE LegacyRotationAssumption
  <1>1. TypeOK /\ StateOK(d, mem[d]) /\ StateOK(d, disk[d]) /\ RelayOK /\ CodeOK(d)
    BY DEF IInv, StatesOK, CodesOK
  <1>2. CodeAlone(d)
    BY <1>1 DEF TypeOK, CodeAlone, CommandUnstage, DeleteStaged, Put, relayVars, keychain, history
  <1>3. MarkedOK(d)'
    BY <1>1 DEF TypeOK, CodeOK, MarkedOK, StagedOK, HoldingOK, StateOK, Firm, Matters,
                CommandUnstage, DeleteStaged, Put, relayVars, keychain, history
  <1>4. StagedOK(d)'
    BY <1>1 DEF TypeOK, CodeOK, StagedOK, HoldingOK, StateOK, Firm, Matters,
                CommandUnstage, DeleteStaged, Put, relayVars, keychain, history
  <1>5. HoldingOK(d)'
    BY <1>1 DEF TypeOK, CodeOK, MarkedOK, StagedOK, HoldingOK, StateOK, Firm, Matters,
                CommandUnstage, DeleteStaged, Put, At, Idle, relayVars, keychain, history
  <1> QED BY <1>2, <1>3, <1>4, <1>5, CodeStep DEF CodeOK

(* The codes are deleted after leaving. *)
LEMMA LeaveForgetCodes ==
    ASSUME LegacyRotationAssumption, IInv, CodesOK, NEW d \in Device, LeaveForget(d)
    PROVE  CodesOK'
  <1> USE LegacyRotationAssumption
  <1>1. TypeOK /\ StateOK(d, mem[d]) /\ StateOK(d, disk[d]) /\ RelayOK /\ CodeOK(d)
    BY DEF IInv, StatesOK, CodesOK
  <1>2. CodeAlone(d)
    BY <1>1 DEF TypeOK, CodeAlone, LeaveForget, Put, relayVars, keychain, history
  <1>3. MarkedOK(d)'
    BY <1>1 DEF TypeOK, CodeOK, MarkedOK, StagedOK, HoldingOK, StateOK, Firm, Matters,
                LeaveForget, Put, relayVars, keychain, history
  <1>4. StagedOK(d)'
    BY <1>1 DEF TypeOK, CodeOK, StagedOK, HoldingOK, StateOK, Firm, Matters,
                LeaveForget, Put, relayVars, keychain, history
  <1>5. HoldingOK(d)'
    BY <1>1 DEF TypeOK, CodeOK, MarkedOK, StagedOK, HoldingOK, StateOK, Firm, Matters,
                LeaveForget, Put, At, Idle, relayVars, keychain, history
  <1> QED BY <1>2, <1>3, <1>4, <1>5, CodeStep DEF CodeOK

(* A refused leave keeps every code. *)
LEMMA LeaveRefusedCodes ==
    ASSUME LegacyRotationAssumption, IInv, CodesOK, NEW d \in Device, LeaveRefused(d)
    PROVE  CodesOK'
  <1> USE LegacyRotationAssumption
  <1>1. TypeOK /\ StateOK(d, mem[d]) /\ StateOK(d, disk[d]) /\ RelayOK /\ CodeOK(d)
    BY DEF IInv, StatesOK, CodesOK
  <1>2. CodeAlone(d)
    BY <1>1 DEF TypeOK, CodeAlone, LeaveRefused, Put, relayVars, keychain, history
  <1>3. MarkedOK(d)'
    BY <1>1 DEF TypeOK, CodeOK, MarkedOK, StagedOK, HoldingOK, StateOK, Firm, Matters,
                LeaveRefused, Put, relayVars, keychain, history
  <1>4. StagedOK(d)'
    BY <1>1 DEF TypeOK, CodeOK, StagedOK, HoldingOK, StateOK, Firm, Matters,
                LeaveRefused, Put, relayVars, keychain, history
  <1>5. HoldingOK(d)'
    BY <1>1 DEF TypeOK, CodeOK, MarkedOK, StagedOK, HoldingOK, StateOK, Firm, Matters,
                LeaveRefused, Put, At, Idle, relayVars, keychain, history
  <1> QED BY <1>2, <1>3, <1>4, <1>5, CodeStep DEF CodeOK

(* A code that was shown is staged: the account is frozen, and not by this device. *)
LEMMA RejoinStageCodes ==
    ASSUME LegacyRotationAssumption, IInv, CodesOK, NEW d \in Device, NEW c \in Code,
           RejoinStage(d, c)
    PROVE  CodesOK'
  <1> USE LegacyRotationAssumption
  <1>1. TypeOK /\ StateOK(d, mem[d]) /\ StateOK(d, disk[d]) /\ RelayOK /\ CodeOK(d)
    BY DEF IInv, StatesOK, CodesOK
  <1>2. CodeAlone(d)
    BY <1>1 DEF TypeOK, CodeAlone, RejoinStage, Put, relayVars, keychain, history
  <1>6. acctFrozen /\ d \notin markers
    BY <1>1 DEF RejoinStage, RelayOK, Sealed, CodeOK, MarkedOK
  <1>3. MarkedOK(d)'
    BY <1>1, <1>6 DEF TypeOK, CodeOK, MarkedOK, StagedOK, HoldingOK, StateOK, Firm, Matters,
                RejoinStage, Put, relayVars, keychain, history
  <1>4. StagedOK(d)'
    BY <1>1, <1>6 DEF TypeOK, CodeOK, StagedOK, HoldingOK, StateOK, Firm, Matters,
                RejoinStage, Put, relayVars, keychain, history
  <1>5. HoldingOK(d)'
    BY <1>1, <1>6 DEF TypeOK, CodeOK, MarkedOK, StagedOK, HoldingOK, StateOK, Firm, Matters,
                RejoinStage, Put, At, Idle, relayVars, keychain, history
  <1> QED BY <1>2, <1>3, <1>4, <1>5, CodeStep DEF CodeOK

(* The code is staged when the marker goes on the account. *)
LEMMA PushMarkerCodes ==
    ASSUME LegacyRotationAssumption, IInv, CodesOK, NEW d \in Device, PushMarker(d)
    PROVE  CodesOK'
  <1> USE LegacyRotationAssumption
  <1>1. TypeOK /\ StateOK(d, mem[d]) /\ StateOK(d, disk[d]) /\ RelayOK /\ CodeOK(d)
    BY DEF IInv, StatesOK, CodesOK
  <1>2. CodeAlone(d)
    BY <1>1 DEF TypeOK, CodeAlone, PushMarker, Driving, Ready, StepOf, Rotating, Rot, Cancellable,
                Step, Put, relayVars, keychain, history
  <1>6. mem[d] = disk[d] /\ Firm(mem[d]) /\ mem[d].rot.code \in Code
    BY <1>1, StateParts DEF TypeOK, PushMarker, Driving, Ready, StepOf, Rotating, Rot, Firm,
                Cancellable
  <1>3. MarkedOK(d)'
    BY <1>1, <1>6 DEF TypeOK, CodeOK, MarkedOK, StagedOK, HoldingOK, StateOK, Firm, Matters,
                PushMarker, Driving, Ready, StepOf, Rotating, Rot, Cancellable, Step, Put,
                relayVars, keychain, history
  <1>4. StagedOK(d)'
    BY <1>1, <1>6 DEF TypeOK, CodeOK, StagedOK, HoldingOK, StateOK, Firm, Matters,
                PushMarker, Driving, Ready, StepOf, Rotating, Rot, Cancellable, Step, Put,
                relayVars, keychain, history
  <1>5. HoldingOK(d)'
    BY <1>1, <1>6 DEF TypeOK, CodeOK, MarkedOK, StagedOK, HoldingOK, StateOK, Firm, Matters,
                PushMarker, Driving, Ready, StepOf, Rotating, Rot, Cancellable, Step, Put, At,
                Idle, relayVars, keychain, history
  <1> QED BY <1>2, <1>3, <1>4, <1>5, CodeStep DEF CodeOK

(* What writing a code leaves in the keychain of the device. *)
LEMMA SetCodeEffect ==
    ASSUME TypeOK, NEW d \in Device, NEW c, SetCode(d, c)
    PROVE  /\ \A x \in Device \ {d} : cur'[x] = cur[x] /\ next'[x] = next[x]
           /\ \/ cur'[d] = c /\ next'[d] = NoCode
              \/ cur'[d] = cur[d] /\ next'[d] = next[d]
  BY DEF TypeOK, SetCode, Put, keychain

(* The code that takes the place of the old one is that of the new account. *)
LEMMA PromoteCodes ==
    ASSUME LegacyRotationAssumption, IInv, CodesOK, NEW d \in Device, Promote(d)
    PROVE  CodesOK'
  <1> USE LegacyRotationAssumption
  <1>1. TypeOK /\ StateOK(d, mem[d]) /\ StateOK(d, disk[d]) /\ RelayOK /\ CodeOK(d)
    BY DEF IInv, StatesOK, CodesOK
  <1>2. /\ mem' = mem /\ disk' = disk /\ UNCHANGED <<relayVars, history>>
        /\ swap' = [swap EXCEPT ![d] = swap[d] \/ UNCHANGED keychain]
    BY DEF Promote, Put
  <1>3. PICK c : SetCode(d, c) /\ mem[d].account # Old /\ disk[d].account # Old
                 /\ (d \in markers => c = mark[d])
    BY <1>1 DEF CodeOK, HoldingOK, Promote
  <1>4. /\ \A x \in Device \ {d} : cur'[x] = cur[x] /\ next'[x] = next[x]
        /\ \/ cur'[d] = c /\ next'[d] = NoCode
           \/ cur'[d] = cur[d] /\ next'[d] = next[d]
    BY <1>1, <1>3, SetCodeEffect
  <1>5. /\ \A x \in Device \ {d} : bg'[x] = bg[x] /\ cmd'[x] = cmd[x] /\ swap'[x] = swap[x]
        /\ bg'[d] \in {bg[d], Idle} /\ cmd'[d] \in {cmd[d], Idle}
    BY <1>1, <1>2 DEF TypeOK, Promote, Put
  <1>6. CodeAlone(d)
    BY <1>2, <1>4, <1>5 DEF CodeAlone, relayVars, history
  <1>7. mem[d].rot = NoRot /\ disk[d].rot = NoRot
    BY <1>1, <1>3 DEF StateOK
  <1>8. MarkedOK(d)'
    BY <1>1, <1>2, <1>3, <1>4 DEF CodeOK, MarkedOK, relayVars, history
  <1>9. StagedOK(d)'
    BY <1>1, <1>2, <1>3, <1>7 DEF CodeOK, StagedOK, Firm, relayVars, history
  <1>10. HoldingOK(d)'
    BY <1>1, <1>2, <1>3, <1>5, <1>7 DEF CodeOK, HoldingOK, Firm, Idle, relayVars, history
  <1> QED BY <1>6, <1>8, <1>9, <1>10, CodeStep DEF CodeOK

(* The code that takes the place of the old one is that of the new account. *)
LEMMA RetrySwapCodes ==
    ASSUME LegacyRotationAssumption, IInv, CodesOK, NEW d \in Device, RetrySwap(d)
    PROVE  CodesOK'
  <1> USE LegacyRotationAssumption
  <1>1. TypeOK /\ StateOK(d, mem[d]) /\ StateOK(d, disk[d]) /\ RelayOK /\ CodeOK(d)
    BY DEF IInv, StatesOK, CodesOK
  <1>2. /\ UNCHANGED <<mem, disk, bg, cmd, relayVars, history>> /\ bg[d] = Idle /\ cmd[d] = Idle
        /\ \A x \in Device \ {d} : swap'[x] = swap[x]
    BY <1>1 DEF TypeOK, RetrySwap, Put
  <1>3. mem[d].account # Old /\ disk[d].account # Old
    BY <1>1 DEF CodeOK, StagedOK, RetrySwap
  <1>4. /\ \A x \in Device \ {d} : cur'[x] = cur[x] /\ next'[x] = next[x]
        /\ \/ cur'[d] = next[d] /\ next'[d] = NoCode /\ next[d] = mem[d].account
           \/ cur'[d] = cur[d] /\ next'[d] = next[d]
    <2>1. CASE next[d] = mem[d].account
      BY <1>1, <2>1, SetCodeEffect DEF RetrySwap
    <2>2. CASE next[d] # mem[d].account
      BY <2>2 DEF RetrySwap, keychain
    <2> QED BY <2>1, <2>2
  <1>5. CodeAlone(d)
    BY <1>2, <1>4 DEF CodeAlone, relayVars, history
  <1>6. mem[d].rot = NoRot /\ disk[d].rot = NoRot
    BY <1>1, <1>3 DEF StateOK
  <1>7. MarkedOK(d)'
    <2>1. next[d] = mem[d].account => mem[d].account # Left
      BY <1>1 DEF TypeOK, LegacyRotationAssumption
    <2> QED BY <1>1, <1>2, <1>3, <1>4, <2>1 DEF CodeOK, MarkedOK, relayVars, history
  <1>8. StagedOK(d)'
    BY <1>1, <1>2, <1>3, <1>6 DEF CodeOK, StagedOK, Firm, relayVars, history
  <1>9. HoldingOK(d)'
    BY <1>2 DEF HoldingOK, Idle
  <1> QED BY <1>5, <1>7, <1>8, <1>9, CodeStep DEF CodeOK

(* A change without a marker is given up. *)
LEMMA YieldCodes ==
    ASSUME LegacyRotationAssumption, IInv, CodesOK, NEW d \in Device, Yield(d)
    PROVE  CodesOK'
  <1> USE LegacyRotationAssumption
  <1>1. TypeOK /\ StateOK(d, mem[d]) /\ StateOK(d, disk[d]) /\ RelayOK /\ CodeOK(d)
    BY DEF IInv, StatesOK, CodesOK
  <1> DEFINE m == [mem[d] EXCEPT !.rot = NoRot, !.frozen = (mem[d].account # Left)]
  <1>2. m \in State /\ m.account = mem[d].account /\ m.rot = NoRot /\ Save(d, m)
    <2>1. mem[d] \in State
      BY <1>1 DEF TypeOK
    <2> QED BY <2>1 DEF State, Yield
  <1> HIDE DEF m
  <1>3. /\ mem'[d] = m /\ disk'[d] \in {disk[d], m}
        /\ \A x \in Device \ {d} : mem'[x] = mem[x] /\ disk'[x] = disk[x]
    BY <1>1, <1>2, SaveFacts
  <1>4. CodeAlone(d)
    BY <1>1, <1>3 DEF TypeOK, CodeAlone, Yield, Put, relayVars, keychain, history
  <1>5. MarkedOK(d)'
    BY <1>1, <1>2, <1>3 DEF TypeOK, CodeOK, MarkedOK, StagedOK, HoldingOK, StateOK, Firm, Matters,
                Yield, Put, relayVars, keychain, history
  <1>6. StagedOK(d)'
    BY <1>1, <1>2, <1>3 DEF TypeOK, CodeOK, MarkedOK, StagedOK, HoldingOK, StateOK, Firm, Matters,
                Yield, Put, relayVars, keychain, history
  <1>7. HoldingOK(d)'
    BY <1>1, <1>2, <1>3 DEF TypeOK, CodeOK, MarkedOK, StagedOK, HoldingOK, StateOK, Firm, Matters,
                Yield, Put, At, Idle, relayVars, keychain, history
  <1> QED BY <1>4, <1>5, <1>6, <1>7, CodeStep DEF CodeOK

(* A change without a marker is cancelled. *)
LEMMA CancelCodes ==
    ASSUME LegacyRotationAssumption, IInv, CodesOK, NEW d \in Device, Cancel(d)
    PROVE  CodesOK'
  <1> USE LegacyRotationAssumption
  <1>1. TypeOK /\ StateOK(d, mem[d]) /\ StateOK(d, disk[d]) /\ RelayOK /\ CodeOK(d)
    BY DEF IInv, StatesOK, CodesOK
  <1> DEFINE m == [mem[d] EXCEPT !.rot = NoRot]
  <1>2. /\ m \in State /\ m.account = mem[d].account /\ m.frozen = mem[d].frozen /\ m.rot = NoRot
        /\ Save(d, m) /\ mem[d].rot # NoRot /\ mem[d].account = Old /\ ~Firm(mem[d])
    <2>1. mem[d] \in State
      BY <1>1 DEF TypeOK
    <2> QED BY <1>1, <2>1 DEF State, StateOK, Cancel, StepOf, Rotating, Rot, Firm, Cancellable
  <1> HIDE DEF m
  <1>3. /\ mem'[d] = m /\ disk'[d] \in {disk[d], m}
        /\ \A x \in Device \ {d} : mem'[x] = mem[x] /\ disk'[x] = disk[x]
    BY <1>1, <1>2, SaveFacts
  <1>4. CodeAlone(d)
    BY <1>1, <1>3 DEF TypeOK, CodeAlone, Cancel, Put, relayVars, keychain, history
  <1>5. MarkedOK(d)'
    BY <1>1, <1>2, <1>3 DEF TypeOK, CodeOK, MarkedOK, StagedOK, HoldingOK, StateOK, Firm, Matters,
                Cancel, Put, relayVars, keychain, history
  <1>6. StagedOK(d)'
    BY <1>1, <1>2, <1>3 DEF TypeOK, CodeOK, MarkedOK, StagedOK, HoldingOK, StateOK, Firm, Matters,
                Cancel, Put, relayVars, keychain, history
  <1>7. HoldingOK(d)'
    BY <1>1, <1>2, <1>3 DEF TypeOK, CodeOK, MarkedOK, StagedOK, HoldingOK, StateOK, Firm, Matters,
                Cancel, Put, At, Idle, relayVars, keychain, history
  <1> QED BY <1>4, <1>5, <1>6, <1>7, CodeStep DEF CodeOK

(* The file catches up with memory. *)
LEMMA ResaveCodes ==
    ASSUME LegacyRotationAssumption, IInv, CodesOK, NEW d \in Device, Resave(d)
    PROVE  CodesOK'
  <1> USE LegacyRotationAssumption
  <1>1. TypeOK /\ StateOK(d, mem[d]) /\ StateOK(d, disk[d]) /\ RelayOK /\ CodeOK(d)
    BY DEF IInv, StatesOK, CodesOK
  <1>2. mem' = mem /\ disk'[d] = mem[d] /\ \A x \in Device \ {d} : disk'[x] = disk[x]
    BY <1>1 DEF TypeOK, Resave, Put
  <1>3. CodeAlone(d)
    BY <1>2 DEF CodeAlone, Resave, relayVars, keychain, history
  <1>4. CodeOK(d)'
    BY <1>1, <1>2 DEF CodeOK, MarkedOK, StagedOK, HoldingOK, Firm, Matters, Resave, Idle,
                relayVars, keychain, history
  <1> QED BY <1>3, <1>4, CodeStep

(* A device that leaves needs no code. *)
LEMMA LeaveClearCodes ==
    ASSUME LegacyRotationAssumption, IInv, CodesOK, NEW d \in Device, LeaveClear(d)
    PROVE  CodesOK'
  <1> USE LegacyRotationAssumption
  <1>1. TypeOK /\ StateOK(d, mem[d]) /\ StateOK(d, disk[d]) /\ RelayOK /\ CodeOK(d)
    BY DEF IInv, StatesOK, CodesOK
  <1> DEFINE m == [account |-> Left, frozen |-> FALSE, rot |-> NoRot]
  <1>2. m \in State /\ m.account = Left /\ m.rot = NoRot /\ ~m.frozen /\ Left # Old /\ Save(d, m)
    BY DEF State, Account, LeaveClear
  <1> HIDE DEF m
  <1>3. /\ mem'[d] = m /\ disk'[d] \in {disk[d], m}
        /\ \A x \in Device \ {d} : mem'[x] = mem[x] /\ disk'[x] = disk[x]
    BY <1>1, <1>2, SaveFacts
  <1>4. CodeAlone(d)
    BY <1>1, <1>3 DEF TypeOK, CodeAlone, LeaveClear, Put, relayVars, keychain, history
  <1>5. MarkedOK(d)'
    BY <1>1, <1>2, <1>3 DEF TypeOK, CodeOK, MarkedOK, StagedOK, HoldingOK, StateOK, Firm, Matters,
                LeaveClear, Put, relayVars, keychain, history
  <1>6. StagedOK(d)'
    BY <1>1, <1>2, <1>3 DEF TypeOK, CodeOK, MarkedOK, StagedOK, HoldingOK, StateOK, Firm, Matters,
                LeaveClear, Put, relayVars, keychain, history
  <1>7. HoldingOK(d)'
    BY <1>1, <1>2, <1>3 DEF TypeOK, CodeOK, MarkedOK, StagedOK, HoldingOK, StateOK, Firm, Matters,
                LeaveClear, Put, At, Idle, relayVars, keychain, history
  <1> QED BY <1>4, <1>5, <1>6, <1>7, CodeStep DEF CodeOK

(* The device is in the account of the code it staged. *)
LEMMA SwitchCodes ==
    ASSUME LegacyRotationAssumption, IInv, CodesOK, NEW d \in Device, Switch(d)
    PROVE  CodesOK'
  <1> USE LegacyRotationAssumption
  <1>1. TypeOK /\ StateOK(d, mem[d]) /\ StateOK(d, disk[d]) /\ RelayOK /\ CodeOK(d)
    BY DEF IInv, StatesOK, CodesOK
  <1> DEFINE m == [account |-> mem[d].rot.code, frozen |-> FALSE, rot |-> NoRot]
  <1>2. /\ m \in State /\ m.account = mem[d].rot.code /\ m.rot = NoRot /\ ~m.frozen /\ Save(d, m)
        /\ m.account \in Code /\ m.account # Old /\ d \in markers /\ bg[d] = Idle
        /\ Firm(mem[d]) /\ mem[d].account = Old
    <2>1. mem[d] \in State /\ mem[d].rot # NoRot /\ mem[d].rot.step = "switching"
      BY <1>1 DEF TypeOK, Switch, Driving, StepOf, Rotating, Rot
    <2>2. mem[d].rot.code \in Code
      BY <2>1, StateParts
    <2> QED BY <1>1, <2>1, <2>2 DEF State, Account, Switch, Install, StateOK, Late, Firm,
                Cancellable,
                Driving, Ready, Rot
  <1> HIDE DEF m
  <1>3. /\ mem'[d] = m /\ disk'[d] \in {disk[d], m}
        /\ \A x \in Device \ {d} : mem'[x] = mem[x] /\ disk'[x] = disk[x]
    BY <1>1, <1>2, SaveFacts
  <1>4. CodeAlone(d)
    BY <1>1, <1>3 DEF TypeOK, CodeAlone, Switch, Install, WasSaved, Rot, Put, relayVars, keychain,
                history
  <1>5. MarkedOK(d)'
    BY <1>1, <1>2, <1>3 DEF TypeOK, CodeOK, MarkedOK, StagedOK, HoldingOK, StateOK, Firm, Matters,
                Switch, Install, WasSaved, Rot, Put, relayVars, keychain, history
  <1>6. StagedOK(d)'
    BY <1>1, <1>2, <1>3 DEF TypeOK, CodeOK, MarkedOK, StagedOK, HoldingOK, StateOK, Firm, Matters,
                Switch, Install, WasSaved, Rot, Put, relayVars, keychain, history
  <1>7. HoldingOK(d)'
    BY <1>1, <1>2, <1>3 DEF TypeOK, CodeOK, MarkedOK, StagedOK, HoldingOK, StateOK, Firm, Matters,
                Switch, Install, WasSaved, Rot, Put, At, Idle, relayVars, keychain, history
  <1> QED BY <1>4, <1>5, <1>6, <1>7, CodeStep DEF CodeOK

(* The device is in an account whose code it staged, and has no marker. *)
LEMMA RejoinCodes ==
    ASSUME LegacyRotationAssumption, IInv, CodesOK, NEW d \in Device, Rejoin(d)
    PROVE  CodesOK'
  <1> USE LegacyRotationAssumption
  <1>1. TypeOK /\ StateOK(d, mem[d]) /\ StateOK(d, disk[d]) /\ RelayOK /\ CodeOK(d)
    BY DEF IInv, StatesOK, CodesOK
  <1> DEFINE m == [account |-> cmd[d].code, frozen |-> FALSE, rot |-> NoRot]
  <1>2. /\ m \in State /\ m.account = cmd[d].code /\ m.rot = NoRot /\ ~m.frozen /\ Save(d, m)
        /\ m.account \in Code /\ m.account # Old /\ d \notin markers /\ acctFrozen
    <2>1. cmd[d].code \in shown /\ cmd[d].code \in Code
      BY DEF IInv, TasksOK, TypeOK, Rejoin
    <2>2. d \notin markers /\ acctFrozen
      BY <1>1, <2>1 DEF CodeOK, MarkedOK, HoldingOK, RelayOK, Sealed, Rejoin
    <2> QED BY <2>1, <2>2 DEF State, Account, Rejoin, Install
  <1> HIDE DEF m
  <1>3. /\ mem'[d] = m /\ disk'[d] \in {disk[d], m}
        /\ \A x \in Device \ {d} : mem'[x] = mem[x] /\ disk'[x] = disk[x]
    BY <1>1, <1>2, SaveFacts
  <1>4. CodeAlone(d)
    BY <1>1, <1>3 DEF TypeOK, CodeAlone, Rejoin, Install, WasSaved, Put, relayVars, keychain,
                history
  <1>5. MarkedOK(d)'
    BY <1>1, <1>2, <1>3 DEF TypeOK, CodeOK, MarkedOK, StagedOK, HoldingOK, StateOK, Firm, Matters,
                Rejoin, Install, WasSaved, Put, relayVars, keychain, history
  <1>6. StagedOK(d)'
    BY <1>1, <1>2, <1>3 DEF TypeOK, CodeOK, MarkedOK, StagedOK, HoldingOK, StateOK, Firm, Matters,
                Rejoin, Install, WasSaved, Put, relayVars, keychain, history
  <1>7. HoldingOK(d)'
    BY <1>1, <1>2, <1>3 DEF TypeOK, CodeOK, MarkedOK, StagedOK, HoldingOK, StateOK, Firm, Matters,
                Rejoin, Install, WasSaved, Put, At, Idle, relayVars, keychain, history
  <1> QED BY <1>4, <1>5, <1>6, <1>7, CodeStep DEF CodeOK

(* The device is blocked, or goes on with a change that has no marker. *)
LEMMA FrozenOutCodes ==
    ASSUME LegacyRotationAssumption, IInv, CodesOK, NEW d \in Device, bg[d].at = "push",
           FrozenOut(d),
           UNCHANGED <<keychain, keys, swap, cmd, live, history, starts, keychainFailures,
           restarts>>
    PROVE  CodesOK'
  <1>1. TypeOK /\ StateOK(d, mem[d]) /\ StateOK(d, disk[d]) /\ CodeOK(d) /\ mem[d] \in State
    BY DEF IInv, StatesOK, CodesOK, TypeOK
  <1>2. PICK m \in State : /\ Save(d, m) /\ m.account = mem[d].account /\ ~Firm(m) /\ ~Firm(mem[d])
                           /\ (m.frozen => m.rot = NoRot) /\ (m.rot = NoRot <=> mem[d].rot = NoRot)
    <2>1. CASE Rotating(d)
      <3> DEFINE m == [mem[d] EXCEPT !.rot.step = "sent"]
      <3>1. mem[d].rot # NoRot /\ mem[d].rot.step = "prepared" /\ "sent" \in Step
        BY <2>1 DEF FrozenOut, StepOf, Rotating, Rot, Step
      <3>2. /\ m \in State /\ m.account = mem[d].account /\ m.frozen = mem[d].frozen
            /\ m.rot # NoRot /\ m.rot.step = "sent"
        BY <1>1, <3>1, StepState
      <3>3. Save(d, m)
        BY <2>1 DEF FrozenOut, SaveStep
      <3> HIDE DEF m
      <3> QED BY <1>1, <3>1, <3>2, <3>3 DEF Firm, Cancellable, CodeOK, StagedOK
    <2>2. CASE ~Rotating(d)
      <3> DEFINE m == [mem[d] EXCEPT !.frozen = TRUE]
      <3>1. mem[d].rot = NoRot /\ m \in State /\ m.account = mem[d].account /\ m.rot = NoRot
        BY <1>1, <2>2 DEF Rotating, Rot, State
      <3>2. Save(d, m)
        BY <2>2 DEF FrozenOut
      <3> HIDE DEF m
      <3> QED BY <3>1, <3>2 DEF Firm
    <2> QED BY <2>1, <2>2
  <1>3. /\ mem'[d] = m /\ disk'[d] \in {disk[d], m}
        /\ \A x \in Device \ {d} : mem'[x] = mem[x] /\ disk'[x] = disk[x]
    BY <1>1, <1>2, SaveFacts
  <1>4. bg'[d] = Idle /\ \A x \in Device \ {d} : bg'[x] = bg[x]
    BY <1>1 DEF TypeOK, FrozenOut, Put
  <1>5. CodeAlone(d)
    BY <1>3, <1>4 DEF CodeAlone, FrozenOut, relayVars, keychain, history
  <1>6. MarkedOK(d)'
    BY <1>1 DEF CodeOK, MarkedOK, HoldingOK, FrozenOut, relayVars
  <1>7. StagedOK(d)'
    BY <1>1, <1>2, <1>3 DEF CodeOK, StagedOK, Firm, Matters, FrozenOut, relayVars, keychain, history
  <1>8. HoldingOK(d)'
    BY <1>1, <1>2, <1>3, <1>4 DEF CodeOK, HoldingOK, FrozenOut, Idle, relayVars, history
  <1> QED BY <1>5, <1>6, <1>7, <1>8, CodeStep DEF CodeOK

(* A refused upload, or one that touches no code. *)
LEMMA PushAccountRowsCodes ==
    ASSUME LegacyRotationAssumption, IInv, CodesOK, NEW d \in Device, PushAccountRows(d)
    PROVE  CodesOK'
  <1>1. CASE FrozenOut(d)
    BY <1>1, FrozenOutCodes DEF PushAccountRows, Pushing
  <1>2. CASE ~FrozenOut(d)
    BY <1>2, CodesSame DEF PushAccountRows, keychain, history
  <1> QED BY <1>1, <1>2

(* A refused upload, or one that touches no code. *)
LEMMA PushEditCodes ==
    ASSUME LegacyRotationAssumption, IInv, CodesOK, NEW d \in Device, NEW e \in Edit, PushEdit(d, e)
    PROVE  CodesOK'
  <1>1. CASE FrozenOut(d)
    BY <1>1, FrozenOutCodes DEF PushEdit, Pushing
  <1>2. CASE ~FrozenOut(d)
    BY <1>2, CodesSame DEF PushEdit, keychain, history
  <1> QED BY <1>1, <1>2

(* A device that sees a marker has none; it is blocked, or will give its change up. *)
LEMMA SeeMarkersCodes ==
    ASSUME LegacyRotationAssumption, IInv, CodesOK, NEW d \in Device, SeeMarkers(d)
    PROVE  CodesOK'
  <1> USE LegacyRotationAssumption
  <1>1. TypeOK /\ StateOK(d, mem[d]) /\ StateOK(d, disk[d]) /\ RelayOK /\ CodeOK(d)
    BY DEF IInv, StatesOK, CodesOK
  <1>2. /\ d \notin markers /\ mem[d] = disk[d] /\ ~Firm(mem[d])
        /\ mem[d].account = Old /\ bg[d] = Idle
    <2>1. mem[d].rot # NoRot => mem[d].rot.step \in Step
      BY <1>1, StateParts DEF TypeOK
    <2> QED BY <1>1, <2>1 DEF SeeMarkers, InRound, Ready, StateOK, StepOf, Rotating, Rot, Step,
                Cancellable, Firm
  <1>3. /\ \A x \in Device \ {d} : mem'[x] = mem[x] /\ disk'[x] = disk[x] /\ bg'[x] = bg[x]
        /\ \/ mem'[d] = mem[d] /\ disk'[d] = disk[d] /\ bg'[d] = At("yield", NoCode)
           \/ /\ bg' = bg /\ mem[d].rot = NoRot
              /\ \A st \in {mem'[d], disk'[d]} : st.account = Old /\ st.rot = NoRot
    <2>1. CASE Rotating(d)
      BY <1>1, <2>1 DEF TypeOK, SeeMarkers, Put
    <2>2. CASE ~Rotating(d)
      <3> DEFINE m == [mem[d] EXCEPT !.frozen = TRUE]
      <3>1. mem[d] \in State /\ mem[d].rot = NoRot /\ Save(d, m) /\ bg' = bg
        BY <1>1, <2>2 DEF TypeOK, SeeMarkers, Rotating, Rot
      <3>2. m \in State /\ m.account = Old /\ m.rot = NoRot
        BY <1>2, <3>1 DEF State
      <3> HIDE DEF m
      <3> QED BY <1>1, <1>2, <3>1, <3>2, SaveFacts
    <2> QED BY <2>1, <2>2
  <1>4. CodeAlone(d)
    BY <1>1, <1>3 DEF TypeOK, CodeAlone, SeeMarkers, Put, relayVars, keychain, history
  <1>5. MarkedOK(d)'
    BY <1>1, <1>2, <1>3 DEF TypeOK, CodeOK, MarkedOK, StagedOK, HoldingOK, StateOK, Firm, Matters,
                SeeMarkers, Put, relayVars, keychain, history
  <1>6. StagedOK(d)'
    BY <1>1, <1>2, <1>3 DEF TypeOK, CodeOK, MarkedOK, StagedOK, HoldingOK, StateOK, Firm, Matters,
                SeeMarkers, Put, relayVars, keychain, history
  <1>7. HoldingOK(d)'
    BY <1>1, <1>2, <1>3 DEF TypeOK, CodeOK, MarkedOK, StagedOK, HoldingOK, StateOK, Firm, Matters,
                SeeMarkers, Put, At, Idle, relayVars, keychain, history
  <1> QED BY <1>4, <1>5, <1>6, <1>7, CodeStep DEF CodeOK

(* The change goes on; it has no marker. *)
LEMMA EndRoundCodes ==
    ASSUME LegacyRotationAssumption, IInv, CodesOK, NEW d \in Device, EndRound(d)
    PROVE  CodesOK'
  <1> USE LegacyRotationAssumption
  <1>1. TypeOK /\ StateOK(d, mem[d]) /\ StateOK(d, disk[d]) /\ RelayOK /\ CodeOK(d)
    BY DEF IInv, StatesOK, CodesOK
  <1>2. d \notin markers
    BY <1>1 DEF CodeOK, HoldingOK, EndRound
  <1>3. /\ \A x \in Device \ {d} : mem'[x] = mem[x] /\ disk'[x] = disk[x] /\ bg'[x] = bg[x]
        /\ bg'[d] = Idle
        /\ \/ mem' = mem /\ disk' = disk
           \/ /\ mem[d].rot # NoRot /\ mem[d].rot.step = "prepared"
              /\ disk'[d] \in {disk[d], mem'[d]}
              /\ mem'[d].account = mem[d].account /\ mem'[d].frozen = mem[d].frozen
              /\ mem'[d].rot # NoRot /\ mem'[d].rot.step = "sent"
              /\ mem'[d].rot.code = mem[d].rot.code
    <2>1. CASE StepOf(d) = "prepared" /\ SaveStep(d, "sent")
      <3> DEFINE m == [mem[d] EXCEPT !.rot.step = "sent"]
      <3>1. /\ mem[d] \in State /\ mem[d].rot # NoRot /\ mem[d].rot.step = "prepared"
            /\ "sent" \in Step
        BY <1>1, <2>1 DEF TypeOK, StepOf, Rotating, Rot, Step
      <3>2. /\ m \in State /\ m.account = mem[d].account /\ m.frozen = mem[d].frozen
            /\ m.rot # NoRot /\ m.rot.step = "sent" /\ m.rot.code = mem[d].rot.code
        BY <3>1, StepState
      <3>3. Save(d, m)
        BY <2>1 DEF EndRound, SaveStep
      <3> HIDE DEF m
      <3>4. bg'[d] = Idle /\ \A x \in Device \ {d} : bg'[x] = bg[x]
        BY <1>1 DEF TypeOK, EndRound, Put
      <3> QED BY <1>1, <3>1, <3>2, <3>3, <3>4, SaveFacts
    <2>2. CASE mem' = mem /\ disk' = disk
      BY <1>1, <2>2 DEF TypeOK, EndRound, Put
    <2> QED BY <2>1, <2>2 DEF EndRound
  <1>4. CodeAlone(d)
    BY <1>1, <1>3 DEF TypeOK, CodeAlone, EndRound, Put, relayVars, keychain, history
  <1>5. MarkedOK(d)'
    BY <1>1, <1>2, <1>3 DEF TypeOK, CodeOK, MarkedOK, StagedOK, HoldingOK, StateOK, Firm, Matters,
                EndRound, Cancellable, Put, relayVars, keychain, history
  <1>6. StagedOK(d)'
    BY <1>1, <1>2, <1>3 DEF TypeOK, CodeOK, MarkedOK, StagedOK, HoldingOK, StateOK, Firm, Matters,
                EndRound, Cancellable, Put, relayVars, keychain, history
  <1>7. HoldingOK(d)'
    BY <1>1, <1>2, <1>3 DEF TypeOK, CodeOK, MarkedOK, StagedOK, HoldingOK, StateOK, Firm, Matters,
                EndRound, Cancellable, Put, At, Idle, relayVars, keychain, history
  <1> QED BY <1>4, <1>5, <1>6, <1>7, CodeStep DEF CodeOK

(* The change is firm from here on, and its code is staged. *)
LEMMA EnterFreezingCodes ==
    ASSUME LegacyRotationAssumption, IInv, CodesOK, NEW d \in Device, EnterFreezing(d)
    PROVE  CodesOK'
  <1> USE LegacyRotationAssumption
  <1>1. TypeOK /\ StateOK(d, mem[d]) /\ StateOK(d, disk[d]) /\ RelayOK /\ CodeOK(d)
    BY DEF IInv, StatesOK, CodesOK
  <1>2. d \notin markers
    BY <1>1 DEF CodeOK, HoldingOK, EnterFreezing
  <1>3. /\ \A x \in Device \ {d} : mem'[x] = mem[x] /\ disk'[x] = disk[x] /\ bg'[x] = bg[x]
        /\ bg'[d] = Idle
        /\ \/ mem' = mem /\ disk' = disk
           \/ /\ mem[d].rot # NoRot /\ mem[d].rot.step = "sent" /\ disk'[d] \in {disk[d], mem'[d]}
              /\ mem'[d].account = mem[d].account /\ mem'[d].frozen = mem[d].frozen
              /\ mem'[d].rot # NoRot /\ mem'[d].rot.step = "freezing"
              /\ mem'[d].rot.code = mem[d].rot.code
    <2>1. CASE StepOf(d) = "sent"
      <3> DEFINE m == [mem[d] EXCEPT !.rot.step = "freezing"]
      <3>1. /\ mem[d] \in State /\ mem[d].rot # NoRot /\ mem[d].rot.step = "sent"
            /\ "freezing" \in Step
        BY <1>1, <2>1 DEF TypeOK, StepOf, Rotating, Rot, Step
      <3>2. /\ m \in State /\ m.account = mem[d].account /\ m.frozen = mem[d].frozen
            /\ m.rot # NoRot /\ m.rot.step = "freezing" /\ m.rot.code = mem[d].rot.code
        BY <3>1, StepState
      <3>3. Save(d, m)
        BY <2>1 DEF EnterFreezing, SaveStep
      <3> HIDE DEF m
      <3>4. bg'[d] = Idle /\ \A x \in Device \ {d} : bg'[x] = bg[x]
        BY <1>1 DEF TypeOK, EnterFreezing, Put
      <3> QED BY <1>1, <3>1, <3>2, <3>3, <3>4, SaveFacts
    <2>2. CASE mem' = mem /\ disk' = disk
      BY <1>1, <2>2 DEF TypeOK, EnterFreezing, Put
    <2> QED BY <2>1, <2>2 DEF EnterFreezing
  <1>4. CodeAlone(d)
    BY <1>1, <1>3 DEF TypeOK, CodeAlone, EnterFreezing, Put, relayVars, keychain, history
  <1>5. MarkedOK(d)'
    BY <1>1, <1>2, <1>3 DEF TypeOK, CodeOK, MarkedOK, StagedOK, HoldingOK, StateOK, Firm, Matters,
                EnterFreezing, Cancellable, Put, relayVars, keychain, history
  <1>6. StagedOK(d)'
    BY <1>1, <1>2, <1>3 DEF TypeOK, CodeOK, MarkedOK, StagedOK, HoldingOK, StateOK, Firm, Matters,
                EnterFreezing, Cancellable, Put, relayVars, keychain, history
  <1>7. HoldingOK(d)'
    BY <1>1, <1>2, <1>3 DEF TypeOK, CodeOK, MarkedOK, StagedOK, HoldingOK, StateOK, Firm, Matters,
                EnterFreezing, Cancellable, Put, At, Idle, relayVars, keychain, history
  <1> QED BY <1>4, <1>5, <1>6, <1>7, CodeStep DEF CodeOK

(* A change is recorded by a device that has none, so it has no marker; or *)
(* the staged code is deleted again.                                       *)
LEMMA StartRecordCodes ==
    ASSUME LegacyRotationAssumption, IInv, CodesOK, NEW d \in Device, StartRecord(d)
    PROVE  CodesOK'
  <1> USE LegacyRotationAssumption
  <1>1. TypeOK /\ StateOK(d, mem[d]) /\ StateOK(d, disk[d]) /\ CodeOK(d) /\ TaskOK(d)
    BY DEF IInv, StatesOK, CodesOK, TasksOK, TaskOK
  <1>2. mem[d].account = Old /\ mem[d].rot = NoRot /\ d \notin markers
    BY <1>1 DEF CodeOK, HoldingOK, StateOK, StartRecord
  <1>3. Matters(d) => ~Firm(disk[d])
    BY <1>1, <1>2 DEF CodeOK, StagedOK, Firm
  <1>4. ~swap[d]
    BY <1>1, <1>2 DEF CodeOK, StagedOK
  <1>5. /\ cmd'[d] = Idle
        /\ \A x \in Device \ {d} : cmd'[x] = cmd[x] /\ next'[x] = next[x]
        /\ UNCHANGED <<bg, cur, mark, swap, left, markers, acctFrozen>>
    BY <1>1 DEF TypeOK, StartRecord, DeleteStaged, Put, relayVars, history
  <1>6. /\ \A x \in Device \ {d} : mem'[x] = mem[x] /\ disk'[x] = disk[x]
        /\ \/ mem' = mem /\ disk' = disk
           \/ /\ disk'[d] \in {disk[d], mem'[d]} /\ ~mem'[d].frozen /\ mem'[d].account = Old
              /\ mem'[d].rot # NoRot /\ mem'[d].rot.step = "prepared"
    <2>1. CASE AccountReady(d)
      <3> DEFINE r == [code |-> cmd[d].code, step |-> "prepared", plan |-> cmd[d].plan,
                       created |-> FALSE, copied |-> {}, deleted |-> {}]
                 m == [mem[d] EXCEPT !.rot = r]
      <3>1. mem[d] \in State /\ ~mem[d].frozen
        BY <1>1, <2>1 DEF TypeOK, AccountReady
      <3>2. cmd[d].code \in Code /\ cmd[d].plan \in SUBSET Space
        BY <1>1 DEF TypeOK, CmdTask, TaskOK, StartRecord
      <3>3. r \in Rotation
        BY <3>2 DEF Rotation, Step
      <3>4. r # NoRot /\ r.step = "prepared"
        BY <3>3 DEF LegacyRotationAssumption
      <3> HIDE DEF r
      <3>5. m \in State /\ m.account = Old /\ m.rot = r /\ ~m.frozen
        BY <1>2, <3>1, <3>3 DEF State
      <3>6. Save(d, m)
        BY <2>1 DEF StartRecord, r
      <3> HIDE DEF m
      <3> QED BY <1>1, <3>4, <3>5, <3>6, SaveFacts
    <2>2. CASE ~AccountReady(d)
      BY <2>2 DEF StartRecord
    <2> QED BY <2>1, <2>2
  <1>7. CodeAlone(d)
    BY <1>5, <1>6 DEF CodeAlone
  <1>8. MarkedOK(d)'
    BY <1>2, <1>5 DEF MarkedOK
  <1>9. StagedOK(d)'
    BY <1>1, <1>2, <1>3, <1>4, <1>5, <1>6 DEF CodeOK, StagedOK, Firm, Matters, Cancellable
  <1>10. HoldingOK(d)'
    BY <1>1, <1>2, <1>5, <1>6 DEF CodeOK, HoldingOK, Firm, Cancellable, Idle
  <1> QED BY <1>7, <1>8, <1>9, <1>10, CodeStep DEF CodeOK

(* Leaving cancels a change without a marker, or leaves the codes to the   *)
(* later steps of the command.                                             *)
LEMMA LeaveDecideCodes ==
    ASSUME LegacyRotationAssumption, IInv, CodesOK, NEW d \in Device, LeaveDecide(d)
    PROVE  CodesOK'
  <1> USE LegacyRotationAssumption
  <1>1. TypeOK /\ StateOK(d, mem[d]) /\ StateOK(d, disk[d]) /\ CodeOK(d)
    BY DEF IInv, StatesOK, CodesOK
  <1>2. CASE StepOf(d) \in Cancellable
    <2> DEFINE m == [mem[d] EXCEPT !.rot = NoRot]
    <2>1. /\ m \in State /\ m.account = mem[d].account /\ m.frozen = mem[d].frozen
          /\ m.rot = NoRot /\ Save(d, m)
          /\ mem[d].rot # NoRot /\ mem[d].account = Old /\ ~Firm(mem[d])
      <3>1. mem[d] \in State
        BY <1>1 DEF TypeOK
      <3> QED BY <1>1, <1>2, <3>1 DEF State, StateOK, LeaveDecide, StepOf, Rotating, Rot, Firm,
                Cancellable
    <2> HIDE DEF m
    <2>2. /\ mem'[d] = m /\ disk'[d] \in {disk[d], m}
          /\ \A x \in Device \ {d} : mem'[x] = mem[x] /\ disk'[x] = disk[x]
      BY <1>1, <2>1, SaveFacts
    <2>3. /\ cmd'[d] = At("unstage", NoCode) /\ \A x \in Device \ {d} : cmd'[x] = cmd[x]
          /\ UNCHANGED <<bg, cur, next, mark, swap, left, markers, acctFrozen>>
      BY <1>1, <1>2 DEF TypeOK, LeaveDecide, Put, relayVars, keychain, history
    <2>4. d \notin markers
      BY <1>1, <2>1 DEF StateOK, Firm
    <2>5. CodeAlone(d)
      BY <2>2, <2>3 DEF CodeAlone
    <2>6. MarkedOK(d)'
      BY <2>3, <2>4 DEF MarkedOK
    <2>7. StagedOK(d)'
      BY <1>1, <2>1, <2>2, <2>3 DEF CodeOK, StagedOK, Firm, Matters
    <2>8. HoldingOK(d)'
      BY <1>1, <2>1, <2>2, <2>3 DEF CodeOK, HoldingOK, Firm, At, Idle
    <2> QED BY <2>5, <2>6, <2>7, <2>8, CodeStep DEF CodeOK
  <1>3. CASE StepOf(d) \notin Cancellable
    <2>1. /\ cmd'[d] = At("leave", NoCode) /\ \A x \in Device \ {d} : cmd'[x] = cmd[x]
          /\ UNCHANGED <<mem, disk, bg, cur, next, mark, swap, left, markers, acctFrozen>>
      BY <1>1, <1>3 DEF TypeOK, LeaveDecide, Put, relayVars, keychain, history
    <2>2. CodeAlone(d)
      BY <2>1 DEF CodeAlone
    <2>3. MarkedOK(d)' /\ StagedOK(d)'
      BY <1>1, <2>1 DEF CodeOK, MarkedOK, StagedOK, Firm, Matters
    <2>4. HoldingOK(d)'
      BY <1>1, <2>1 DEF CodeOK, HoldingOK, Firm, At, Idle
    <2> QED BY <2>2, <2>3, <2>4, CodeStep DEF CodeOK
  <1> QED BY <1>2, <1>3

(* The process starts again with the file; the switch it finds interrupted *)
(* promotes the code of the account the file names.                        *)
LEMMA RestartCodes ==
    ASSUME LegacyRotationAssumption, IInv, CodesOK, NEW d \in Device, Restart(d)
    PROVE  CodesOK'
  <1> USE LegacyRotationAssumption
  <1>1. TypeOK /\ StateOK(d, mem[d]) /\ StateOK(d, disk[d]) /\ CodeOK(d)
    BY DEF IInv, StatesOK, CodesOK
  <1>2. /\ mem'[d] = disk[d] /\ disk' = disk /\ bg'[d] = Idle /\ cmd'[d] = Idle
        /\ \A x \in Device \ {d} : /\ mem'[x] = mem[x] /\ bg'[x] = bg[x] /\ cmd'[x] = cmd[x]
                                   /\ swap'[x] = swap[x]
        /\ UNCHANGED <<mark, left, markers, acctFrozen>>
    BY <1>1 DEF TypeOK, Restart, Put, relayVars, history
  <1>3. /\ \A x \in Device \ {d} : cur'[x] = cur[x] /\ next'[x] = next[x]
        /\ \/ cur'[d] = next[d] /\ next'[d] = NoCode /\ next[d] = disk[d].account
           \/ cur'[d] = cur[d] /\ next'[d] = next[d]
        /\ swap'[d] => next[d] = disk[d].account
    <2>1. CASE disk[d].account \notin {Left, cur[d]} /\ next[d] = disk[d].account
      BY <1>1, <2>1, SetCodeEffect DEF Restart
    <2>2. CASE ~(disk[d].account \notin {Left, cur[d]} /\ next[d] = disk[d].account)
      BY <1>1, <2>2 DEF Restart, keychain, TypeOK, Put
    <2> QED BY <2>1, <2>2
  <1>4. next[d] = disk[d].account => disk[d].account \notin {Old, Left} /\ disk[d].rot = NoRot
    BY <1>1 DEF TypeOK, LegacyRotationAssumption, StateOK
  <1>5. CodeAlone(d)
    BY <1>2, <1>3 DEF CodeAlone
  <1>6. MarkedOK(d)'
    BY <1>1, <1>2, <1>3, <1>4 DEF CodeOK, MarkedOK
  <1>7. StagedOK(d)'
    BY <1>1, <1>2, <1>3, <1>4 DEF CodeOK, StagedOK, Firm, Matters
  <1>8. HoldingOK(d)'
    BY <1>2 DEF HoldingOK, Idle
  <1> QED BY <1>5, <1>6, <1>7, <1>8, CodeStep DEF CodeOK

(* At the start no account is marked and no code is staged. *)
LEMMA InitCodes ==
    ASSUME LegacyRotationAssumption, Init
    PROVE  CodesOK
  BY DEF LegacyRotationAssumption, Init, CodesOK, CodeOK, MarkedOK, StagedOK, HoldingOK, Firm,
         Idle

(* Every step leaves the codes where the devices will look for them. *)
LEMMA StepCodes ==
    ASSUME LegacyRotationAssumption, IInv, CodesOK, [Next]_vars
    PROVE  CodesOK'
  <1>1. ASSUME NEW d \in Device, NEW s \in Space, FreezeSpace(d, s) \/ CreateSpace(d, s)
        PROVE  CodesOK'
    <2>1. UNCHANGED <<mem, disk, bg, cmd, cur, next, mark, swap, left, markers, acctFrozen>>
      BY <1>1 DEF FreezeSpace, CreateSpace, keychain, history
    <2> QED BY <2>1, CodesSame
  <1>2. ASSUME NEW d \in Device, NEW e \in Edit, PushToNew(d, e) \/ MakeEdit(d, e)
        PROVE  CodesOK'
    BY <1>2, CodesSame DEF PushToNew, MakeEdit, relayVars, keychain, history
  <1>3. ASSUME NEW d \in Device, FreezeAccount(d) PROVE CodesOK'
    BY <1>3, CodesSame DEF FreezeAccount, keychain, history
  <1>4. ASSUME NEW d \in Device, Background(d) PROVE CodesOK'
    BY <1>1, <1>2, <1>3, <1>4, ResaveCodes, PullAccountCodes, SeeMarkersCodes,
       PushAccountRowsCodes, PushEditCodes, EndRoundCodes, CheckCodeCodes, EnterFreezingCodes,
       PushMarkerCodes, LoseRaceCodes, CopySpaceCodes, DeleteSpaceCodes, EnterCopyingCodes,
       YieldCodes, UnstageCodes, CreateChainsCodes, PushNewAccountCodes, EnterSwitchingCodes,
       SwitchCodes, RetrySwapCodes DEF Background
  <1>5. ASSUME NEW d \in Device, Command(d) PROVE CodesOK'
    BY <1>5, StartRecordCodes, CommandUnstageCodes, LeaveClearCodes, LeaveRefusedCodes,
       LeaveForgetCodes, RejoinCodes, PromoteCodes DEF Command
  <1>6. ASSUME NEW d \in Device, User(d) PROVE CodesOK'
    BY <1>1, <1>2, <1>6, StartStageCodes, CancelCodes, LeaveDecideCodes, RejoinStageCodes
       DEF User
  <1>7. CASE UNCHANGED vars
    BY <1>7, CodesSame DEF vars, relayVars, keychain, history
  <1> QED BY <1>4, <1>5, <1>6, <1>7, RestartCodes DEF Next

(* The code every other device waits for is never lost: from the moment a  *)
(* device marks the old account (freeze) its keychain holds the code of    *)
(* that change in one of its two slots, until the device itself leaves,    *)
(* whichever saves and keychain writes fail and wherever it is restarted.  *)
THEOREM CodeIsHeld ==
    ASSUME LegacyRotationAssumption
    PROVE  Spec => []CodeHeld
  <1>1. Init => CodesOK
    BY InitCodes
  <1>2. IInv /\ CodesOK /\ [Next]_vars => CodesOK'
    BY StepCodes
  <1>3. TypeOK /\ CodesOK => CodeHeld
    BY DEF TypeOK, CodesOK, CodeOK, MarkedOK, CodeHeld
  <1>4. IInv => TypeOK
    BY DEF IInv
  <1> QED BY <1>1, <1>2, <1>3, <1>4, Invariance, PTL DEF Spec

(* Both together: a change of code that other devices can see will not be  *)
(* taken back (cancel_rotation, leave_account and yield find it too late), *)
(* and the code that ends it is kept.                                      *)
THEOREM CodesAreKept ==
    ASSUME LegacyRotationAssumption
    PROVE  Spec => []CodesKept
  <1>1. TypeOK /\ FrozenIsFinal /\ CodeHeld => CodesKept
    BY DEF CodesKept
  <1> QED BY <1>1, TypeCorrect, MarkIsFinal, CodeIsHeld, PTL
=============================================================================
