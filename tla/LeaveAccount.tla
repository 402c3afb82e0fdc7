---------------------------- MODULE LeaveAccount ----------------------------
(***************************************************************************)
(* Leaving an account: sync/record_leave.rs.  The hosts of the selected    *)
(* spaces become local ones under new identities, their passwords are      *)
(* copied to the new names in the keychain, the account is dropped from    *)
(* the state file, and only then is the sync code deleted.  The plan is    *)
(* kept in a journal; every step can fail and the process can stop.        *)
(*                                                                         *)
(* A host's local copy goes by the name of the host.  A password is a      *)
(* number, 0 for none.                                                     *)
(***************************************************************************)
EXTENDS Naturals, FiniteSets

CONSTANTS
    Host,           \* hosts of the selected spaces
    OtherEdits,     \* may other devices change hosts while leaving is pending?
    MaxPassword,    \* bound on the passwords the user sets
    MaxFaults       \* bound on failed steps and crashes

(* What the module assumes of its constants. *)
LeaveAssumption ==
    /\ IsFiniteSet(Host) /\ OtherEdits \in BOOLEAN
    /\ MaxPassword \in Nat \ {0} /\ MaxFaults \in Nat

VARIABLES
    chain,          \* hosts on the space chain
    mem, disk,      \* [joined, hosts, local, op]
    source, target, \* passwords under a host's old and new name
    code,           \* the sync code is in the keychain
    had,            \* history: the hosts the user saw when the account was left
    pc, todo,       \* what resume_locked() does next; hosts to go through
    faults          \* counter for the bound

vars == <<chain, mem, disk, source, target, code, had, pc, todo, faults>>
passwords == <<source, target>>

NoOp == [activated |-> FALSE, pending |-> FALSE, plan |-> {}, copied |-> {}]

op == mem.op
Pending == op.pending

Init ==
    /\ chain \in SUBSET Host
    /\ mem \in {[joined |-> TRUE, hosts |-> h, local |-> {}, op |-> NoOp] : h \in SUBSET Host}
    /\ disk = mem
    /\ source \in [Host -> {0, 1}]
    /\ target = [h \in Host |-> 0]
    /\ code = TRUE /\ had = {} /\ pc = "idle" /\ todo = {} /\ faults = 0

Fault == faults < MaxFaults /\ faults' = faults + 1

Persist(state) == mem' = state /\ disk' = state

Return == pc' = "idle"

(* store(): the disk first, then the memory; else an error. *)
Stored(state, where) ==
    \/ Persist(state) /\ pc' = where /\ UNCHANGED faults
    \/ Fault /\ Return /\ UNCHANGED <<mem, disk>>

(* source_spaces(): the chain merged into what the device has, its own     *)
(* edits that are not uploaded included.                                   *)
SourceHosts(known) == known \cup chain

(* leave_account(): a fresh gate, the plan, the journal. *)
Leave ==
    /\ pc = "idle" /\ ~Pending /\ mem.joined
    /\ Persist([mem EXCEPT !.op = [activated |-> FALSE, pending |-> TRUE,
                                   plan |-> SourceHosts(mem.hosts), copied |-> {}]])
    /\ pc' = "check"
    /\ UNCHANGED <<todo, chain, passwords, code, had, faults>>

(* proof(): with the account, or with the code once it is gone; an absent  *)
(* code means that the cleanup had succeeded.                              *)
Resume ==
    /\ pc = "idle" /\ Pending
    /\ Stored(mem, IF op.activated THEN "delete_code" ELSE "check")
    /\ UNCHANGED <<todo, chain, passwords, code, had>>

(* The source must be what was planned. *)
CheckSource ==
    /\ pc = "check"
    /\ pc' = IF SourceHosts(op.plan) = op.plan THEN "copy" ELSE "idle"
    /\ todo' = op.plan
    /\ UNCHANGED <<chain, mem, disk, passwords, code, had, faults>>

(* Mutant of CopyPassword: what an earlier call copied is in the way. *)
CopyPasswordOnce ==
    /\ pc = "copy" /\ todo # {}
    /\ \E h \in todo :
          IF target[h] = 0
          THEN /\ todo' = todo \ {h}
               /\ target' = [target EXCEPT ![h] = source[h]]
               /\ Stored([mem EXCEPT !.op.copied = @ \cup {h}], "copy")
          ELSE Return /\ UNCHANGED <<mem, disk, target, todo, faults>>
    /\ UNCHANGED <<chain, source, code, had>>

(* The planned hosts in turn, in every call: a password is copied if the   *)
(* new name has none, another one there is an error; then the journal.     *)
CopyPassword ==
    /\ pc = "copy" /\ todo # {}
    /\ \E h \in todo :
          IF target[h] \in {0, source[h]}
          THEN /\ todo' = todo \ {h}
               /\ target' = [target EXCEPT ![h] = source[h]]
               /\ Stored([mem EXCEPT !.op.copied = @ \cup {h}], "copy")
          ELSE Return /\ UNCHANGED <<mem, disk, target, todo, faults>>
    /\ UNCHANGED <<chain, source, code, had>>

(* Mutant of Detach: the copies are made when the cleanup is done. *)
DetachFirst ==
    /\ pc = "copy" /\ todo = {}
    /\ Stored([mem EXCEPT !.joined = FALSE, !.hosts = {}, !.op.activated = TRUE],
              "delete_code")
    /\ had' = IF mem'.joined THEN had ELSE mem.hosts
    /\ UNCHANGED <<todo, chain, passwords, code>>

(* Mutant of Detach: nothing is left to resume once the hosts are local. *)
DetachForgets ==
    /\ pc = "copy" /\ todo = {}
    /\ Stored([mem EXCEPT !.joined = FALSE, !.local = @ \cup op.plan, !.hosts = {},
                          !.op = NoOp], "delete_code")
    /\ had' = IF mem'.joined THEN had ELSE mem.hosts
    /\ UNCHANGED <<todo, chain, passwords, code>>

(* After a further proof(), in one save: the planned hosts are local, the  *)
(* account and its spaces are gone.                                        *)
Detach ==
    /\ pc = "copy" /\ todo = {}
    /\ Stored([mem EXCEPT !.joined = FALSE, !.local = @ \cup op.plan, !.hosts = {},
                          !.op.activated = TRUE], "delete_code")
    /\ had' = IF mem'.joined THEN had ELSE mem.hosts
    /\ UNCHANGED <<todo, chain, passwords, code>>

(* Mutant of DeleteCode: the code is deleted before the switch is saved. *)
DeleteCodeEarly ==
    /\ pc \in {"copy", "delete_code"} /\ todo = {}
    /\ code' = FALSE
    /\ pc' = IF pc = "copy" THEN "copy" ELSE "finish"
    /\ UNCHANGED <<todo, chain, mem, disk, passwords, had, faults>>

DeleteCode ==
    /\ pc = "delete_code"
    /\ code' = FALSE
    /\ pc' = "finish"
    /\ UNCHANGED <<todo, chain, mem, disk, passwords, had, faults>>

Finish ==
    /\ pc = "finish"
    /\ \/ Persist([mem EXCEPT !.op = NoOp]) /\ UNCHANGED faults
       \/ Fault /\ UNCHANGED <<mem, disk>>
    /\ Return
    /\ UNCHANGED <<todo, chain, passwords, code, had>>

StepFails ==
    /\ pc # "idle" /\ Fault /\ Return
    /\ UNCHANGED <<todo, chain, mem, disk, passwords, code, had>>

Crash ==
    /\ Fault
    /\ mem' = disk /\ pc' = "idle"
    /\ UNCHANGED <<todo, chain, disk, passwords, code, had>>

(* Another device adds a host, or a round of this one brings it. *)
OtherAdds(h) ==
    /\ h \notin chain
    /\ OtherEdits \/ ~Pending
    /\ chain' = chain \cup {h}
    /\ UNCHANGED <<todo, mem, disk, passwords, code, had, pc, faults>>

Round ==
    /\ pc = "idle" /\ ~Pending /\ mem.joined
    /\ Persist([mem EXCEPT !.hosts = @ \cup chain])
    /\ chain' = chain \cup mem.hosts
    /\ UNCHANGED <<todo, passwords, code, had, pc, faults>>

(* Between calls the user saves a password for a host. *)
SavePassword(h, p) ==
    /\ pc = "idle" /\ mem.joined /\ h \in mem.hosts
    /\ OtherEdits \/ ~Pending
    /\ source' = [source EXCEPT ![h] = p]
    /\ UNCHANGED <<todo, chain, mem, disk, target, code, had, pc, faults>>

Step == CheckSource \/ CopyPassword \/ Detach \/ DeleteCode \/ Finish

Next ==
    \/ Leave \/ Resume \/ Step \/ StepFails \/ Crash \/ Round
    \/ \E h \in Host : OtherAdds(h) \/ \E p \in 1..MaxPassword : SavePassword(h, p)

Spec == Init /\ [][Next]_vars

(* A call runs to its end and the user resumes what is pending. *)
FairSpec == Spec /\ WF_vars(Step) /\ WF_vars(Resume)

-----------------------------------------------------------------------------
TypeOK ==
    /\ chain \subseteq Host /\ had \subseteq Host
    /\ {mem, disk} \subseteq
          [joined : BOOLEAN, hosts : SUBSET Host, local : SUBSET Host,
           op : [activated : BOOLEAN, pending : BOOLEAN, plan : SUBSET Host,
                 copied : SUBSET Host]]
    /\ source \in [Host -> 0..MaxPassword] /\ target \in [Host -> 0..MaxPassword]
    /\ code \in BOOLEAN /\ faults \in 0..MaxFaults
    /\ pc # "idle" => Pending

(* Whoever has left the account has, on disk, every host that was there,   *)
(* with a password where the host had one: nothing depends on the account  *)
(* any more.                                                               *)
HostsPreserved ==
    ~disk.joined => /\ had \subseteq disk.local
                    /\ \A h \in had : source[h] # 0 => target[h] # 0

(* The sync code, the only way back into the account, is deleted only when *)
(* the local copies are on disk, and a device in the account has it.       *)
CodeLast == ~code => ~disk.joined /\ disk.op.plan \subseteq disk.local

LeavePreserves == TypeOK /\ HostsPreserved /\ CodeLast

(* If nobody changes the hosts meanwhile, a pending detach completes and   *)
(* the code is deleted.                                                    *)
LeaveCompletes == Pending ~> (~Pending /\ ~code)
=============================================================================
