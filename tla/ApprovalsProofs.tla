-------------------------- MODULE ApprovalsProofs --------------------------
(***************************************************************************)
(* Proofs about what needs the user's consent: first AgentBroker, for any  *)
(* requests, programs, hosts and times, then McpCalls.                     *)
(*                                                                         *)
(* A request signs on an answer it did not see itself: of the request that *)
(* leads, or of one that was remembered.  So the invariant follows the     *)
(* answers: who leads (LeaderOK, AskingOK), where a request relies on what *)
(* (PlaceOK), that the leader opened the key before anybody shares its     *)
(* answer (OpenOK), and from which window a remembered approval is         *)
(* (KeptOK).                                                               *)
(***************************************************************************)
EXTENDS Approvals, FiniteSetTheorems, TLAPS

(* Where a request is only while it may open the key. *)
Unlocking ==
    {"unlock", "keychain", "askPass", "passWindow", "passStopped", "passAnswered", "opened"}

Known(r) == ContextOf[r] # "unknown"
Ended == {"signed", "refused"}

(* The request whose answer others share asks for itself, about the same   *)
(* program and host, and no settings make it ask always.                   *)
Leads(q, r) ==
    /\ q \in Request /\ leader[q] = q /\ ContextOf[q] = ContextOf[r]
    /\ r \notin Granted /\ ~always[r] /\ Known(r)

LeaderOK == \A r \in Request : leader[r] # None => Leads(leader[r], r)

(* Broker.asking names a request that leads, and the one that leads is     *)
(* named there until it is dropped.                                        *)
AskingOK ==
    /\ \A c \in Context : asking[c] # None =>
           leader[asking[c]] = asking[c] /\ ContextOf[asking[c]] = c
    /\ \A r \in Request : leader[r] = r /\ pc[r] \notin Ended => asking[ContextOf[r]] = r

(* What is known of a request from where it is. *)
PlaceOK(r) ==
    /\ pc[r] \in {"idle", "check", "join"} => leader[r] = None
    /\ pc[r] \in {"check", "join"} => r \notin Granted
    /\ pc[r] = "join" => ~always[r] /\ Known(r)
    /\ pc[r] = "follow" => leader[r] # None
    /\ pc[r] \in {"recheck", "drop"} => leader[r] = r
    /\ pc[r] \in {"ask", "window", "stopped", "answered"} /\ ~always[r] /\ Known(r) => leader[r] = r
    /\ pc[r] \notin {"opened", "drop", "signed", "refused"} => tries[r] < Attempts
    /\ pc[r] \in {"stopped", "passStopped"} /\ answer[r] # Silent => answer[r] = channel[r]

PlacesOK == \A r \in Request : PlaceOK(r)

(* A request that may open the key is justified, and the request whose     *)
(* answer it shared holds the key already.                                 *)
MayOpen(r) == Justified(r) /\ (leader[r] \in {None, r} \/ leader[r] \in opened)

OpenOK ==
    /\ \A r \in Request : pc[r] \in Unlocking \/ r \in opened => MayOpen(r)
    /\ \A r \in opened : pc[r] \in {"drop", "signed"}
    /\ \A r \in Request : verdict[r] = "allowed" => r \in opened

(* What is remembered was allowed and asked to be remembered, for this     *)
(* program and host, and lasts no longer than it was kept for.             *)
KeptFor(c, k) ==
    k.by \in allowed /\ ContextOf[k.by] = c /\ k.from <= now /\ k.until = approvals[c]

KeptOK ==
    /\ \A c \in Context : approvals[c] > 0 => \E k \in kept : KeptFor(c, k)
    /\ \A r \in Request : wantsRemember[r] => r \in allowed /\ leader[r] = r

IInv == TypeOK /\ LeaderOK /\ AskingOK /\ PlacesOK /\ OpenOK /\ KeptOK

(* The settings are read; a request of Connect goes on at once, for it is Granted. *)
LEMMA BeginKeeps ==
    ASSUME AgentAssumption, IInv, NEW r \in Request, Begin(r)
    PROVE  IInv'
  <1>1. TypeOK /\ LeaderOK /\ AskingOK /\ PlacesOK /\ OpenOK /\ KeptOK
    BY DEF IInv
  <1>2. TypeOK'
    BY <1>1 DEF AgentAssumption, TypeOK, Begin, Goes, Place, None,
                env, book, once, hub, own, hist
  <1>3. LeaderOK'
    BY <1>1 DEF AgentAssumption, TypeOK, LeaderOK, Leads, Known, AskingOK, PlacesOK, PlaceOK,
                Begin, Goes, None, env, book, once, hub, own, hist
  <1>4. AskingOK'
    BY <1>1 DEF AgentAssumption, TypeOK, LeaderOK, Leads, AskingOK, Known, PlacesOK, PlaceOK,
                Ended, Begin, Goes, None, env, book, once, hub, own, hist
  <1>5. PlacesOK'
    BY <1>1 DEF AgentAssumption, TypeOK, LeaderOK, Leads, Known, PlacesOK, PlaceOK,
                Begin, Goes, None, env, book, once, hub, own, hist
  <1>6. OpenOK'
    BY <1>1 DEF AgentAssumption, TypeOK, LeaderOK, Leads, PlacesOK, PlaceOK, OpenOK, KeptOK,
                KeptFor, MayOpen, Justified, Backed, Known, Unlocking, Begin, Goes, None,
                env, book, once, hub, own, hist
  <1>7. KeptOK'
    BY <1>1 DEF AgentAssumption, TypeOK, LeaderOK, Leads, PlacesOK, PlaceOK, KeptOK, KeptFor,
                Begin, Goes, None, env, book, once, hub, own, hist
  <1> QED BY <1>2, <1>3, <1>4, <1>5, <1>6, <1>7 DEF IInv

(* A remembered approval is one that was kept for this program and host. *)
LEMMA CheckKeeps ==
    ASSUME AgentAssumption, IInv, NEW r \in Request, Check(r)
    PROVE  IInv'
  <1>1. TypeOK /\ LeaderOK /\ AskingOK /\ PlacesOK /\ OpenOK /\ KeptOK
    BY DEF IInv
  <1>2. TypeOK'
    BY <1>1 DEF AgentAssumption, TypeOK, Check, Remembered, Goes, Place, None,
                env, book, once, hub, own, hist
  <1>3. LeaderOK'
    BY <1>1 DEF AgentAssumption, TypeOK, LeaderOK, Leads, Known, AskingOK, PlacesOK, PlaceOK,
                Check, Remembered, Goes, None, env, book, once, hub, own, hist
  <1>4. AskingOK'
    BY <1>1 DEF AgentAssumption, TypeOK, LeaderOK, Leads, AskingOK, Known, PlacesOK, PlaceOK,
                Ended, Check, Remembered, Goes, None, env, book, once, hub, own, hist
  <1>5. PlacesOK'
    BY <1>1 DEF AgentAssumption, TypeOK, LeaderOK, Leads, Known, PlacesOK, PlaceOK,
                Check, Remembered, Goes, None, env, book, once, hub, own, hist
  <1>6. OpenOK'
    BY <1>1 DEF AgentAssumption, TypeOK, LeaderOK, Leads, PlacesOK, PlaceOK, OpenOK, KeptOK,
                KeptFor, MayOpen, Justified, Backed, Known, Unlocking, Check, Remembered, Goes,
                None,
                env, book, once, hub, own, hist
  <1>7. KeptOK'
    BY <1>1 DEF AgentAssumption, TypeOK, LeaderOK, Leads, PlacesOK, PlaceOK, KeptOK, KeptFor,
                Check, Remembered, Goes, None, env, book, once, hub, own, hist
  <1> QED BY <1>2, <1>3, <1>4, <1>5, <1>6, <1>7 DEF IInv

(* A request shares the answer of the one that asks, or leads itself. *)
LEMMA JoinKeeps ==
    ASSUME AgentAssumption, IInv, NEW r \in Request, Join(r)
    PROVE  IInv'
  <1>1. TypeOK /\ LeaderOK /\ AskingOK /\ PlacesOK /\ OpenOK /\ KeptOK
    BY DEF IInv
  <1>2. TypeOK'
    BY <1>1 DEF AgentAssumption, TypeOK, PlacesOK, PlaceOK, Known, Join, Goes, Place, None,
                env, book, once, hub, own, hist
  <1>3. LeaderOK'
    BY <1>1 DEF AgentAssumption, TypeOK, LeaderOK, Leads, Known, AskingOK, PlacesOK, PlaceOK,
                Join, Goes, None, env, book, once, hub, own, hist
  <1>4. AskingOK'
    BY <1>1 DEF AgentAssumption, TypeOK, LeaderOK, Leads, AskingOK, Known, PlacesOK, PlaceOK,
                Ended, Join, Goes, None, env, book, once, hub, own, hist
  <1>5. PlacesOK'
    BY <1>1 DEF AgentAssumption, TypeOK, LeaderOK, Leads, Known, PlacesOK, PlaceOK,
                Join, Goes, None, env, book, once, hub, own, hist
  <1>6. OpenOK'
    BY <1>1 DEF AgentAssumption, TypeOK, LeaderOK, Leads, PlacesOK, PlaceOK, OpenOK, KeptOK,
                KeptFor, MayOpen, Justified, Backed, Known, Unlocking, Join, Goes, None,
                env, book, once, hub, own, hist
  <1>7. KeptOK'
    BY <1>1 DEF AgentAssumption, TypeOK, LeaderOK, Leads, PlacesOK, PlaceOK, KeptOK, KeptFor,
                Join, Goes, None, env, book, once, hub, own, hist
  <1> QED BY <1>2, <1>3, <1>4, <1>5, <1>6, <1>7 DEF IInv

(* A remembered approval is found in the second look. *)
LEMMA RecheckKeeps ==
    ASSUME AgentAssumption, IInv, NEW r \in Request, Recheck(r)
    PROVE  IInv'
  <1>1. TypeOK /\ LeaderOK /\ AskingOK /\ PlacesOK /\ OpenOK /\ KeptOK
    BY DEF IInv
  <1>2. TypeOK'
    BY <1>1 DEF AgentAssumption, TypeOK, Recheck, Remembered, Goes, Place, None,
                env, book, once, hub, own, hist
  <1>3. LeaderOK'
    BY <1>1 DEF AgentAssumption, TypeOK, LeaderOK, Leads, Known, AskingOK, PlacesOK, PlaceOK,
                Recheck, Remembered, Goes, None, env, book, once, hub, own, hist
  <1>4. AskingOK'
    BY <1>1 DEF AgentAssumption, TypeOK, LeaderOK, Leads, AskingOK, Known, PlacesOK, PlaceOK,
                Ended, Recheck, Remembered, Goes, None, env, book, once, hub, own, hist
  <1>5. PlacesOK'
    BY <1>1 DEF AgentAssumption, TypeOK, LeaderOK, Leads, Known, PlacesOK, PlaceOK,
                Recheck, Remembered, Goes, None, env, book, once, hub, own, hist
  <1>6. OpenOK'
    BY <1>1 DEF AgentAssumption, TypeOK, LeaderOK, Leads, PlacesOK, PlaceOK, OpenOK, KeptOK,
                KeptFor, MayOpen, Justified, Backed, Known, Unlocking, Recheck, Remembered, Goes,
                None,
                env, book, once, hub, own, hist
  <1>7. KeptOK'
    BY <1>1 DEF AgentAssumption, TypeOK, LeaderOK, Leads, PlacesOK, PlaceOK, KeptOK, KeptFor,
                Recheck, Remembered, Goes, None, env, book, once, hub, own, hist
  <1> QED BY <1>2, <1>3, <1>4, <1>5, <1>6, <1>7 DEF IInv

(* The answer that is shared allows only when its request holds the key. *)
LEMMA FollowKeeps ==
    ASSUME AgentAssumption, IInv, NEW r \in Request, Follow(r)
    PROVE  IInv'
  <1>1. TypeOK /\ LeaderOK /\ AskingOK /\ PlacesOK /\ OpenOK /\ KeptOK
    BY DEF IInv
  <1>2. TypeOK'
    BY <1>1 DEF AgentAssumption, TypeOK, Follow, Goes, Place, None,
                env, book, once, hub, own, hist
  <1>3. LeaderOK'
    BY <1>1 DEF AgentAssumption, TypeOK, LeaderOK, Leads, Known, AskingOK, PlacesOK, PlaceOK,
                Follow, Goes, None, env, book, once, hub, own, hist
  <1>4. AskingOK'
    BY <1>1 DEF AgentAssumption, TypeOK, LeaderOK, Leads, AskingOK, Known, PlacesOK, PlaceOK,
                Ended, Follow, Goes, None, env, book, once, hub, own, hist
  <1>5. PlacesOK'
    BY <1>1 DEF AgentAssumption, TypeOK, LeaderOK, Leads, Known, PlacesOK, PlaceOK,
                Follow, Goes, None, env, book, once, hub, own, hist
  <1>6. OpenOK'
    BY <1>1 DEF AgentAssumption, TypeOK, LeaderOK, Leads, PlacesOK, PlaceOK, OpenOK, KeptOK,
                KeptFor, MayOpen, Justified, Backed, Known, Unlocking, Follow, Goes, None,
                env, book, once, hub, own, hist
  <1>7. KeptOK'
    BY <1>1 DEF AgentAssumption, TypeOK, LeaderOK, Leads, PlacesOK, PlaceOK, KeptOK, KeptFor,
                Follow, Goes, None, env, book, once, hub, own, hist
  <1> QED BY <1>2, <1>3, <1>4, <1>5, <1>6, <1>7 DEF IInv

(* A wait for another's answer that is over refuses, and opens nothing. *)
LEMMA FollowTimesOutKeeps ==
    ASSUME AgentAssumption, IInv, NEW r \in Request, FollowTimesOut(r)
    PROVE  IInv'
  <1>1. TypeOK /\ LeaderOK /\ AskingOK /\ PlacesOK /\ OpenOK /\ KeptOK
    BY DEF IInv
  <1>2. TypeOK'
    BY <1>1 DEF AgentAssumption, TypeOK, FollowTimesOut, Goes, Place, None,
                env, book, once, hub, own, hist
  <1>3. LeaderOK'
    BY <1>1 DEF AgentAssumption, TypeOK, LeaderOK, Leads, Known, AskingOK, PlacesOK, PlaceOK,
                FollowTimesOut, Goes, None, env, book, once, hub, own, hist
  <1>4. AskingOK'
    BY <1>1 DEF AgentAssumption, TypeOK, LeaderOK, Leads, AskingOK, Known, PlacesOK, PlaceOK,
                Ended, FollowTimesOut, Goes, None, env, book, once, hub, own, hist
  <1>5. PlacesOK'
    BY <1>1 DEF AgentAssumption, TypeOK, LeaderOK, Leads, Known, PlacesOK, PlaceOK,
                FollowTimesOut, Goes, None, env, book, once, hub, own, hist
  <1>6. OpenOK'
    BY <1>1 DEF AgentAssumption, TypeOK, LeaderOK, Leads, PlacesOK, PlaceOK, OpenOK, KeptOK,
                KeptFor, MayOpen, Justified, Backed, Known, Unlocking, FollowTimesOut, Goes, None,
                env, book, once, hub, own, hist
  <1>7. KeptOK'
    BY <1>1 DEF AgentAssumption, TypeOK, LeaderOK, Leads, PlacesOK, PlaceOK, KeptOK, KeptFor,
                FollowTimesOut, Goes, None, env, book, once, hub, own, hist
  <1> QED BY <1>2, <1>3, <1>4, <1>5, <1>6, <1>7 DEF IInv

(* A window opens with no answer in its channel. *)
LEMMA OpenWindowKeeps ==
    ASSUME AgentAssumption, IInv, NEW r \in Request, OpenWindow(r)
    PROVE  IInv'
  <1>1. TypeOK /\ LeaderOK /\ AskingOK /\ PlacesOK /\ OpenOK /\ KeptOK
    BY DEF IInv
  <1>2. TypeOK'
    BY <1>1 DEF AgentAssumption, TypeOK, OpenWindow, Goes, Place, None,
                env, book, once, hub, own, hist
  <1>3. LeaderOK'
    BY <1>1 DEF AgentAssumption, TypeOK, LeaderOK, Leads, Known, AskingOK, PlacesOK, PlaceOK,
                OpenWindow, Goes, None, env, book, once, hub, own, hist
  <1>4. AskingOK'
    BY <1>1 DEF AgentAssumption, TypeOK, LeaderOK, Leads, AskingOK, Known, PlacesOK, PlaceOK,
                Ended, OpenWindow, Goes, None, env, book, once, hub, own, hist
  <1>5. PlacesOK'
    BY <1>1 DEF AgentAssumption, TypeOK, LeaderOK, Leads, Known, PlacesOK, PlaceOK,
                OpenWindow, Goes, None, env, book, once, hub, own, hist
  <1>6. OpenOK'
    BY <1>1 DEF AgentAssumption, TypeOK, LeaderOK, Leads, PlacesOK, PlaceOK, OpenOK, KeptOK,
                KeptFor, MayOpen, Justified, Backed, Known, Unlocking, OpenWindow, Goes, None,
                env, book, once, hub, own, hist
  <1>7. KeptOK'
    BY <1>1 DEF AgentAssumption, TypeOK, LeaderOK, Leads, PlacesOK, PlaceOK, KeptOK, KeptFor,
                OpenWindow, Goes, None, env, book, once, hub, own, hist
  <1> QED BY <1>2, <1>3, <1>4, <1>5, <1>6, <1>7 DEF IInv

(* The answer is the channel's, or none. *)
LEMMA StopWaitingKeeps ==
    ASSUME AgentAssumption, IInv, NEW r \in Request, StopWaiting(r)
    PROVE  IInv'
  <1>1. TypeOK /\ LeaderOK /\ AskingOK /\ PlacesOK /\ OpenOK /\ KeptOK
    BY DEF IInv
  <1>2. TypeOK'
    BY <1>1 DEF AgentAssumption, TypeOK, StopWaiting, Goes, Place, None,
                env, book, once, hub, own, hist
  <1>3. LeaderOK'
    BY <1>1 DEF AgentAssumption, TypeOK, LeaderOK, Leads, Known, AskingOK, PlacesOK, PlaceOK,
                StopWaiting, Goes, None, env, book, once, hub, own, hist
  <1>4. AskingOK'
    BY <1>1 DEF AgentAssumption, TypeOK, LeaderOK, Leads, AskingOK, Known, PlacesOK, PlaceOK,
                Ended, StopWaiting, Goes, None, env, book, once, hub, own, hist
  <1>5. PlacesOK'
    BY <1>1 DEF AgentAssumption, TypeOK, LeaderOK, Leads, Known, PlacesOK, PlaceOK,
                StopWaiting, Goes, None, env, book, once, hub, own, hist
  <1>6. OpenOK'
    BY <1>1 DEF AgentAssumption, TypeOK, LeaderOK, Leads, PlacesOK, PlaceOK, OpenOK, KeptOK,
                KeptFor, MayOpen, Justified, Backed, Known, Unlocking, StopWaiting, Goes, None,
                env, book, once, hub, own, hist
  <1>7. KeptOK'
    BY <1>1 DEF AgentAssumption, TypeOK, LeaderOK, Leads, PlacesOK, PlaceOK, KeptOK, KeptFor,
                StopWaiting, Goes, None, env, book, once, hub, own, hist
  <1> QED BY <1>2, <1>3, <1>4, <1>5, <1>6, <1>7 DEF IInv

(* The channel is looked at once more. *)
LEMMA LeaveKeeps ==
    ASSUME AgentAssumption, IInv, NEW r \in Request, Leave(r)
    PROVE  IInv'
  <1>1. TypeOK /\ LeaderOK /\ AskingOK /\ PlacesOK /\ OpenOK /\ KeptOK
    BY DEF IInv
  <1>2. TypeOK'
    BY <1>1 DEF AgentAssumption, TypeOK, Leave, Goes, Place, None,
                env, book, once, hub, own, hist
  <1>3. LeaderOK'
    BY <1>1 DEF AgentAssumption, TypeOK, LeaderOK, Leads, Known, AskingOK, PlacesOK, PlaceOK,
                Leave, Goes, None, env, book, once, hub, own, hist
  <1>4. AskingOK'
    BY <1>1 DEF AgentAssumption, TypeOK, LeaderOK, Leads, AskingOK, Known, PlacesOK, PlaceOK,
                Ended, Leave, Goes, None, env, book, once, hub, own, hist
  <1>5. PlacesOK'
    BY <1>1 DEF AgentAssumption, TypeOK, LeaderOK, Leads, Known, PlacesOK, PlaceOK,
                Leave, Goes, None, env, book, once, hub, own, hist
  <1>6. OpenOK'
    BY <1>1 DEF AgentAssumption, TypeOK, LeaderOK, Leads, PlacesOK, PlaceOK, OpenOK, KeptOK,
                KeptFor, MayOpen, Justified, Backed, Known, Unlocking, Leave, Goes, None,
                env, book, once, hub, own, hist
  <1>7. KeptOK'
    BY <1>1 DEF AgentAssumption, TypeOK, LeaderOK, Leads, PlacesOK, PlaceOK, KeptOK, KeptFor,
                Leave, Goes, None, env, book, once, hub, own, hist
  <1> QED BY <1>2, <1>3, <1>4, <1>5, <1>6, <1>7 DEF IInv

(* What the user allows in this window. *)
LEMMA DecideKeeps ==
    ASSUME AgentAssumption, IInv, NEW r \in Request, Decide(r)
    PROVE  IInv'
  <1>1. TypeOK /\ LeaderOK /\ AskingOK /\ PlacesOK /\ OpenOK /\ KeptOK
    BY DEF IInv
  <1>2. TypeOK'
    BY <1>1 DEF AgentAssumption, TypeOK, Decide, Refusal, Goes, Place, None,
                env, book, once, hub, own, hist
  <1>3. LeaderOK'
    BY <1>1 DEF AgentAssumption, TypeOK, LeaderOK, Leads, Known, AskingOK, PlacesOK, PlaceOK,
                Decide, Refusal, Goes, None, env, book, once, hub, own, hist
  <1>4. AskingOK'
    BY <1>1 DEF AgentAssumption, TypeOK, LeaderOK, Leads, AskingOK, Known, PlacesOK, PlaceOK,
                Ended, Decide, Refusal, Goes, None, env, book, once, hub, own, hist
  <1>5. PlacesOK'
    BY <1>1 DEF AgentAssumption, TypeOK, LeaderOK, Leads, Known, PlacesOK, PlaceOK,
                Decide, Refusal, Goes, None, env, book, once, hub, own, hist
  <1>6. OpenOK'
    BY <1>1 DEF AgentAssumption, TypeOK, LeaderOK, Leads, PlacesOK, PlaceOK, OpenOK, KeptOK,
                KeptFor, MayOpen, Justified, Backed, Known, Unlocking, Decide, Refusal, Goes, None,
                env, book, once, hub, own, hist
  <1>7. KeptOK'
    <2>1. answer[r].remember => answer[r].allow
      <3>1. answer[r] \in Answers \cup {Silent}
        BY <1>1 DEF TypeOK
      <3>2. CASE answer[r] \in {Silent, Deny}
        BY <3>2 DEF Deny, Silent
      <3>3. CASE answer[r].allow = TRUE
        BY <3>3
      <3> QED BY <3>1, <3>2, <3>3 DEF Answers
    <2> QED BY <1>1, <2>1 DEF TypeOK, KeptOK, KeptFor, Decide, env, book, once, hub
  <1> QED BY <1>2, <1>3, <1>4, <1>5, <1>6, <1>7 DEF IInv

(* The key in memory, or the vault. *)
LEMMA UnlockKeeps ==
    ASSUME AgentAssumption, IInv, NEW r \in Request, Unlock(r)
    PROVE  IInv'
  <1>1. TypeOK /\ LeaderOK /\ AskingOK /\ PlacesOK /\ OpenOK /\ KeptOK
    BY DEF IInv
  <1>2. TypeOK'
    BY <1>1 DEF AgentAssumption, TypeOK, Unlock, Refusal, Goes, Place, None,
                env, book, once, hub, own, hist
  <1>3. LeaderOK'
    BY <1>1 DEF AgentAssumption, TypeOK, LeaderOK, Leads, Known, AskingOK, PlacesOK, PlaceOK,
                Unlock, Refusal, Goes, None, env, book, once, hub, own, hist
  <1>4. AskingOK'
    BY <1>1 DEF AgentAssumption, TypeOK, LeaderOK, Leads, AskingOK, Known, PlacesOK, PlaceOK,
                Ended, Unlock, Refusal, Goes, None, env, book, once, hub, own, hist
  <1>5. PlacesOK'
    BY <1>1 DEF AgentAssumption, TypeOK, LeaderOK, Leads, Known, PlacesOK, PlaceOK,
                Unlock, Refusal, Goes, None, env, book, once, hub, own, hist
  <1>6. OpenOK'
    BY <1>1 DEF AgentAssumption, TypeOK, LeaderOK, Leads, PlacesOK, PlaceOK, OpenOK, KeptOK,
                KeptFor, MayOpen, Justified, Backed, Known, Unlocking, Unlock, Refusal, Goes, None,
                env, book, once, hub, own, hist
  <1>7. KeptOK'
    BY <1>1 DEF AgentAssumption, TypeOK, LeaderOK, Leads, PlacesOK, PlaceOK, KeptOK, KeptFor,
                Unlock, Refusal, Goes, None, env, book, once, hub, own, hist
  <1> QED BY <1>2, <1>3, <1>4, <1>5, <1>6, <1>7 DEF IInv

(* The passphrase of the keychain. *)
LEMMA TryKeychainKeeps ==
    ASSUME AgentAssumption, IInv, NEW r \in Request, TryKeychain(r)
    PROVE  IInv'
  <1>1. TypeOK /\ LeaderOK /\ AskingOK /\ PlacesOK /\ OpenOK /\ KeptOK
    BY DEF IInv
  <1>2. TypeOK'
    BY <1>1 DEF AgentAssumption, TypeOK, TryKeychain, Goes, Place, None,
                env, book, once, hub, own, hist
  <1>3. LeaderOK'
    BY <1>1 DEF AgentAssumption, TypeOK, LeaderOK, Leads, Known, AskingOK, PlacesOK, PlaceOK,
                TryKeychain, Goes, None, env, book, once, hub, own, hist
  <1>4. AskingOK'
    BY <1>1 DEF AgentAssumption, TypeOK, LeaderOK, Leads, AskingOK, Known, PlacesOK, PlaceOK,
                Ended, TryKeychain, Goes, None, env, book, once, hub, own, hist
  <1>5. PlacesOK'
    BY <1>1 DEF AgentAssumption, TypeOK, LeaderOK, Leads, Known, PlacesOK, PlaceOK,
                TryKeychain, Goes, None, env, book, once, hub, own, hist
  <1>6. OpenOK'
    BY <1>1 DEF AgentAssumption, TypeOK, LeaderOK, Leads, PlacesOK, PlaceOK, OpenOK, KeptOK,
                KeptFor, MayOpen, Justified, Backed, Known, Unlocking, TryKeychain, Goes, None,
                env, book, once, hub, own, hist
  <1>7. KeptOK'
    BY <1>1 DEF AgentAssumption, TypeOK, LeaderOK, Leads, PlacesOK, PlaceOK, KeptOK, KeptFor,
                TryKeychain, Goes, None, env, book, once, hub, own, hist
  <1> QED BY <1>2, <1>3, <1>4, <1>5, <1>6, <1>7 DEF IInv

(* No more passphrases than Attempts. *)
LEMMA UsePassphraseKeeps ==
    ASSUME AgentAssumption, IInv, NEW r \in Request, UsePassphrase(r)
    PROVE  IInv'
  <1>1. TypeOK /\ LeaderOK /\ AskingOK /\ PlacesOK /\ OpenOK /\ KeptOK
    BY DEF IInv
  <1>2. TypeOK'
    <2>1. tries[r] \in 0..Attempts /\ tries[r] < Attempts /\ Attempts \in Nat
      BY <1>1 DEF AgentAssumption, TypeOK, PlacesOK, PlaceOK, UsePassphrase
    <2>2. tries' \in [Request -> 0..Attempts]
      BY <1>1, <2>1 DEF TypeOK, UsePassphrase
    <2>3. unlocked' \in 0..(MaxTime + Keep) /\ saved' \in {"none", "right", "stale"}
      BY <1>1 DEF AgentAssumption, TypeOK, UsePassphrase
    <2>4. pc' \in [Request -> Place]
      BY <1>1 DEF TypeOK, UsePassphrase, Goes, Refusal, Place
    <2>5. answer' \in [Request -> Answers \cup {Silent}]
      BY <1>1 DEF TypeOK, UsePassphrase
    <2> QED BY <1>1, <2>2, <2>3, <2>4, <2>5 DEF TypeOK, UsePassphrase, env, once, hist
  <1>3. LeaderOK'
    BY <1>1 DEF AgentAssumption, TypeOK, LeaderOK, Leads, Known, AskingOK, PlacesOK, PlaceOK,
                UsePassphrase, Refusal, Goes, None, env, book, once, hub, own, hist
  <1>4. AskingOK'
    BY <1>1 DEF AgentAssumption, TypeOK, LeaderOK, Leads, AskingOK, Known, PlacesOK, PlaceOK,
                Ended, UsePassphrase, Refusal, Goes, None, env, book, once, hub, own, hist
  <1>5. PlacesOK'
    <2>1. ASSUME NEW q \in Request, q # r PROVE PlaceOK(q)'
      BY <1>1, <2>1 DEF TypeOK, PlacesOK, PlaceOK, Known, UsePassphrase, Goes, env, once
    <2>2. PlaceOK(r)'
      <3>1. /\ pc'[r] \in {"opened", "askPass", "drop", "refused"}
            /\ pc'[r] = "drop" => leader[r] = r
            /\ pc'[r] = "askPass" => tries'[r] # Attempts
        BY <1>1 DEF TypeOK, UsePassphrase, Goes, Refusal
      <3>2. tries'[r] = tries[r] + 1 /\ tries[r] \in Nat /\ tries[r] < Attempts
            /\ Attempts \in Nat
        BY <1>1 DEF AgentAssumption, TypeOK, PlacesOK, PlaceOK, UsePassphrase
      <3>3. leader' = leader
        BY DEF UsePassphrase, once
      <3> QED BY <3>1, <3>2, <3>3 DEF PlaceOK
    <2> QED BY <2>1, <2>2 DEF PlacesOK
  <1>6. OpenOK'
    BY <1>1 DEF AgentAssumption, TypeOK, LeaderOK, Leads, PlacesOK, PlaceOK, OpenOK, KeptOK,
                KeptFor, MayOpen, Justified, Backed, Known, Unlocking, UsePassphrase, Refusal,
                Goes, None,
                env, book, once, hub, own, hist
  <1>7. KeptOK'
    BY <1>1 DEF AgentAssumption, TypeOK, LeaderOK, Leads, PlacesOK, PlaceOK, KeptOK, KeptFor,
                UsePassphrase, Refusal, Goes, None, env, book, once, hub, own, hist
  <1> QED BY <1>2, <1>3, <1>4, <1>5, <1>6, <1>7 DEF IInv

(* What is remembered was allowed in a window of this request. *)
LEMMA RememberKeeps ==
    ASSUME AgentAssumption, IInv, NEW r \in Request, Remember(r)
    PROVE  IInv'
  <1>1. TypeOK /\ LeaderOK /\ AskingOK /\ PlacesOK /\ OpenOK /\ KeptOK
    BY DEF IInv
  <1>2. TypeOK'
    BY <1>1 DEF AgentAssumption, TypeOK, Remember, Goes, Place, None,
                env, book, once, hub, own, hist
  <1>3. LeaderOK'
    BY <1>1 DEF AgentAssumption, TypeOK, LeaderOK, Leads, Known, AskingOK, PlacesOK, PlaceOK,
                Remember, Goes, None, env, book, once, hub, own, hist
  <1>4. AskingOK'
    BY <1>1 DEF AgentAssumption, TypeOK, LeaderOK, Leads, AskingOK, Known, PlacesOK, PlaceOK,
                Ended, Remember, Goes, None, env, book, once, hub, own, hist
  <1>5. PlacesOK'
    BY <1>1 DEF AgentAssumption, TypeOK, LeaderOK, Leads, Known, PlacesOK, PlaceOK,
                Remember, Goes, None, env, book, once, hub, own, hist
  <1>6. OpenOK'
    BY <1>1 DEF AgentAssumption, TypeOK, LeaderOK, Leads, PlacesOK, PlaceOK, OpenOK, KeptOK,
                KeptFor, MayOpen, Justified, Backed, Known, Unlocking, Remember, Goes, None,
                env, book, once, hub, own, hist
  <1>7. KeptOK'
    <2>1. \A q \in Request : wantsRemember'[q] => q \in allowed' /\ leader'[q] = q
      BY <1>1 DEF KeptOK, Remember, once
    <2>2. ASSUME NEW c \in Context, approvals'[c] > 0
          PROVE  \E k \in kept' : KeptFor(c, k)'
      <3>1. CASE wantsRemember[r] /\ c = ContextOf[r]
        <4>1. [by |-> r, from |-> now, until |-> now + Keep] \in kept'
          BY <3>1 DEF Remember
        <4>2. approvals'[c] = now + Keep /\ r \in allowed' /\ now' = now /\ now \in Nat
          BY <1>1, <3>1 DEF TypeOK, KeptOK, Remember, env
        <4> QED BY <3>1, <4>1, <4>2 DEF KeptFor
      <3>2. CASE ~(wantsRemember[r] /\ c = ContextOf[r])
        <4>1. /\ approvals'[c] = approvals[c] /\ kept \subseteq kept'
              /\ allowed' = allowed /\ now' = now
          BY <1>1, <3>2 DEF TypeOK, Remember, env
        <4>2. PICK k \in kept : KeptFor(c, k)
          BY <1>1, <2>2, <4>1 DEF KeptOK
        <4> QED BY <4>1, <4>2 DEF KeptFor
      <3> QED BY <3>1, <3>2
    <2> QED BY <2>1, <2>2 DEF KeptOK
  <1> QED BY <1>2, <1>3, <1>4, <1>5, <1>6, <1>7 DEF IInv

(* The first request tells the others its answer. *)
LEMMA DropKeeps ==
    ASSUME AgentAssumption, IInv, NEW r \in Request, Drop(r)
    PROVE  IInv'
  <1>1. TypeOK /\ LeaderOK /\ AskingOK /\ PlacesOK /\ OpenOK /\ KeptOK
    BY DEF IInv
  <1>2. TypeOK'
    BY <1>1 DEF AgentAssumption, TypeOK, Drop, Goes, Place, None,
                env, book, once, hub, own, hist
  <1>3. LeaderOK'
    BY <1>1 DEF AgentAssumption, TypeOK, LeaderOK, Leads, Known, AskingOK, PlacesOK, PlaceOK,
                Drop, Goes, None, env, book, once, hub, own, hist
  <1>4. AskingOK'
    BY <1>1 DEF AgentAssumption, TypeOK, LeaderOK, Leads, AskingOK, Known, PlacesOK, PlaceOK,
                Ended, Drop, Goes, None, env, book, once, hub, own, hist
  <1>5. PlacesOK'
    BY <1>1 DEF AgentAssumption, TypeOK, LeaderOK, Leads, Known, PlacesOK, PlaceOK,
                Drop, Goes, None, env, book, once, hub, own, hist
  <1>6. OpenOK'
    BY <1>1 DEF AgentAssumption, TypeOK, LeaderOK, Leads, PlacesOK, PlaceOK, OpenOK, KeptOK,
                KeptFor, MayOpen, Justified, Backed, Known, Unlocking, Drop, Goes, None,
                env, book, once, hub, own, hist
  <1>7. KeptOK'
    BY <1>1 DEF AgentAssumption, TypeOK, LeaderOK, Leads, PlacesOK, PlaceOK, KeptOK, KeptFor,
                Drop, Goes, None, env, book, once, hub, own, hist
  <1> QED BY <1>2, <1>3, <1>4, <1>5, <1>6, <1>7 DEF IInv

(* The user answers a window. *)
LEMMA ResolveKeeps ==
    ASSUME AgentAssumption, IInv, NEW r \in Request, NEW a \in Answers, Resolve(r, a)
    PROVE  IInv'
  <1>1. TypeOK /\ LeaderOK /\ AskingOK /\ PlacesOK /\ OpenOK /\ KeptOK
    BY DEF IInv
  <1>2. TypeOK'
    BY <1>1 DEF AgentAssumption, TypeOK, Resolve, Place, None,
                env, book, once, hub, own, hist
  <1>3. LeaderOK'
    BY <1>1 DEF AgentAssumption, TypeOK, LeaderOK, Leads, Known, AskingOK, PlacesOK, PlaceOK,
                Resolve, None, env, book, once, hub, own, hist
  <1>4. AskingOK'
    BY <1>1 DEF AgentAssumption, TypeOK, LeaderOK, Leads, AskingOK, Known, PlacesOK, PlaceOK,
                Ended, Resolve, None, env, book, once, hub, own, hist
  <1>5. PlacesOK'
    BY <1>1 DEF AgentAssumption, TypeOK, LeaderOK, Leads, Known, PlacesOK, PlaceOK,
                Resolve, None, env, book, once, hub, own, hist
  <1>6. OpenOK'
    BY <1>1 DEF AgentAssumption, TypeOK, LeaderOK, Leads, PlacesOK, PlaceOK, OpenOK, KeptOK,
                KeptFor, MayOpen, Justified, Backed, Known, Unlocking, Resolve, None,
                env, book, once, hub, own, hist
  <1>7. KeptOK'
    BY <1>1 DEF AgentAssumption, TypeOK, LeaderOK, Leads, PlacesOK, PlaceOK, KeptOK, KeptFor,
                Resolve, None, env, book, once, hub, own, hist
  <1> QED BY <1>2, <1>3, <1>4, <1>5, <1>6, <1>7 DEF IInv

(* The windows are closed. *)
LEMMA CloseWindowKeeps ==
    ASSUME AgentAssumption, IInv, CloseWindow
    PROVE  IInv'
  <1>1. TypeOK /\ LeaderOK /\ AskingOK /\ PlacesOK /\ OpenOK /\ KeptOK
    BY DEF IInv
  <1>2. TypeOK'
    <2>1. Deny \in Answers
      BY DEF Answers
    <2>2. channel' \in [Request -> Answers \cup {Silent}]
      BY <1>1, <2>1 DEF TypeOK, CloseWindow, DenyAll
    <2> QED BY <1>1, <2>2 DEF TypeOK, CloseWindow, DenyAll, env, book, once, own, hist
  <1>3. LeaderOK'
    BY <1>1 DEF AgentAssumption, TypeOK, LeaderOK, Leads, Known, AskingOK, PlacesOK, PlaceOK,
                CloseWindow, DenyAll, None, env, book, once, hub, own, hist
  <1>4. AskingOK'
    BY <1>1 DEF AgentAssumption, TypeOK, LeaderOK, Leads, AskingOK, Known, PlacesOK, PlaceOK,
                Ended, CloseWindow, DenyAll, None, env, book, once, hub, own, hist
  <1>5. PlacesOK'
    BY <1>1 DEF AgentAssumption, TypeOK, LeaderOK, Leads, Known, PlacesOK, PlaceOK,
                CloseWindow, DenyAll, None, env, book, once, hub, own, hist
  <1>6. OpenOK'
    BY <1>1 DEF AgentAssumption, TypeOK, LeaderOK, Leads, PlacesOK, PlaceOK, OpenOK, KeptOK,
                KeptFor, MayOpen, Justified, Backed, Known, Unlocking, CloseWindow, DenyAll, None,
                env, book, once, hub, own, hist
  <1>7. KeptOK'
    BY <1>1 DEF AgentAssumption, TypeOK, LeaderOK, Leads, PlacesOK, PlaceOK, KeptOK, KeptFor,
                CloseWindow, DenyAll, None, env, book, once, hub, own, hist
  <1> QED BY <1>2, <1>3, <1>4, <1>5, <1>6, <1>7 DEF IInv

(* Time passes. *)
LEMMA TickKeeps ==
    ASSUME AgentAssumption, IInv, Tick
    PROVE  IInv'
  <1>1. TypeOK /\ LeaderOK /\ AskingOK /\ PlacesOK /\ OpenOK /\ KeptOK
    BY DEF IInv
  <1>2. TypeOK'
    BY <1>1 DEF AgentAssumption, TypeOK, Tick, Place, None,
                env, book, once, hub, own, hist
  <1>3. LeaderOK'
    BY <1>1 DEF AgentAssumption, TypeOK, LeaderOK, Leads, Known, AskingOK, PlacesOK, PlaceOK,
                Tick, None, env, book, once, hub, own, hist
  <1>4. AskingOK'
    BY <1>1 DEF AgentAssumption, TypeOK, LeaderOK, Leads, AskingOK, Known, PlacesOK, PlaceOK,
                Ended, Tick, None, env, book, once, hub, own, hist
  <1>5. PlacesOK'
    BY <1>1 DEF AgentAssumption, TypeOK, LeaderOK, Leads, Known, PlacesOK, PlaceOK,
                Tick, None, env, book, once, hub, own, hist
  <1>6. OpenOK'
    BY <1>1 DEF AgentAssumption, TypeOK, LeaderOK, Leads, PlacesOK, PlaceOK, OpenOK, KeptOK,
                KeptFor, MayOpen, Justified, Backed, Known, Unlocking, Tick, None,
                env, book, once, hub, own, hist
  <1>7. KeptOK'
    BY <1>1 DEF AgentAssumption, TypeOK, LeaderOK, Leads, PlacesOK, PlaceOK, KeptOK, KeptFor,
                Tick, None, env, book, once, hub, own, hist
  <1> QED BY <1>2, <1>3, <1>4, <1>5, <1>6, <1>7 DEF IInv

(* An approval that expired is forgotten. *)
LEMMA ExpireKeeps ==
    ASSUME AgentAssumption, IInv, Expire
    PROVE  IInv'
  <1>1. TypeOK /\ LeaderOK /\ AskingOK /\ PlacesOK /\ OpenOK /\ KeptOK
    BY DEF IInv
  <1>2. TypeOK'
    BY <1>1 DEF AgentAssumption, TypeOK, Expire, Remembered, Place, None,
                env, book, once, hub, own, hist
  <1>3. LeaderOK'
    BY <1>1 DEF AgentAssumption, TypeOK, LeaderOK, Leads, Known, AskingOK, PlacesOK, PlaceOK,
                Expire, Remembered, None, env, book, once, hub, own, hist
  <1>4. AskingOK'
    BY <1>1 DEF AgentAssumption, TypeOK, LeaderOK, Leads, AskingOK, Known, PlacesOK, PlaceOK,
                Ended, Expire, Remembered, None, env, book, once, hub, own, hist
  <1>5. PlacesOK'
    BY <1>1 DEF AgentAssumption, TypeOK, LeaderOK, Leads, Known, PlacesOK, PlaceOK,
                Expire, Remembered, None, env, book, once, hub, own, hist
  <1>6. OpenOK'
    BY <1>1 DEF AgentAssumption, TypeOK, LeaderOK, Leads, PlacesOK, PlaceOK, OpenOK, KeptOK,
                KeptFor, MayOpen, Justified, Backed, Known, Unlocking, Expire, Remembered, None,
                env, book, once, hub, own, hist
  <1>7. KeptOK'
    BY <1>1 DEF AgentAssumption, TypeOK, LeaderOK, Leads, PlacesOK, PlaceOK, KeptOK, KeptFor,
                Expire, Remembered, None, env, book, once, hub, own, hist
  <1> QED BY <1>2, <1>3, <1>4, <1>5, <1>6, <1>7 DEF IInv

(* records_pause_legacy begins. *)
LEMMA PauseKeeps ==
    ASSUME AgentAssumption, IInv, Pause
    PROVE  IInv'
  <1>1. TypeOK /\ LeaderOK /\ AskingOK /\ PlacesOK /\ OpenOK /\ KeptOK
    BY DEF IInv
  <1>2. TypeOK'
    <2>1. pauses' \in 0..MaxPauses
      BY <1>1 DEF AgentAssumption, TypeOK, Pause
    <2> QED BY <1>1, <2>1 DEF TypeOK, Pause, book, once, hub, own, hist
  <1>3. LeaderOK'
    BY <1>1 DEF AgentAssumption, TypeOK, LeaderOK, Leads, Known, AskingOK, PlacesOK, PlaceOK,
                Pause, None, env, book, once, hub, own, hist
  <1>4. AskingOK'
    BY <1>1 DEF AgentAssumption, TypeOK, LeaderOK, Leads, AskingOK, Known, PlacesOK, PlaceOK,
                Ended, Pause, None, env, book, once, hub, own, hist
  <1>5. PlacesOK'
    BY <1>1 DEF AgentAssumption, TypeOK, LeaderOK, Leads, Known, PlacesOK, PlaceOK,
                Pause, None, env, book, once, hub, own, hist
  <1>6. OpenOK'
    BY <1>1 DEF AgentAssumption, TypeOK, LeaderOK, Leads, PlacesOK, PlaceOK, OpenOK, KeptOK,
                KeptFor, MayOpen, Justified, Backed, Known, Unlocking, Pause, None,
                env, book, once, hub, own, hist
  <1>7. KeptOK'
    BY <1>1 DEF AgentAssumption, TypeOK, LeaderOK, Leads, PlacesOK, PlaceOK, KeptOK, KeptFor,
                Pause, None, env, book, once, hub, own, hist
  <1> QED BY <1>2, <1>3, <1>4, <1>5, <1>6, <1>7 DEF IInv

(* The windows are closed. *)
LEMMA PauseDeniesKeeps ==
    ASSUME AgentAssumption, IInv, PauseDenies
    PROVE  IInv'
  <1>1. TypeOK /\ LeaderOK /\ AskingOK /\ PlacesOK /\ OpenOK /\ KeptOK
    BY DEF IInv
  <1>2. TypeOK'
    <2>1. Deny \in Answers
      BY DEF Answers
    <2>2. channel' \in [Request -> Answers \cup {Silent}]
      BY <1>1, <2>1 DEF TypeOK, PauseDenies, DenyAll
    <2> QED BY <1>1, <2>2 DEF TypeOK, PauseDenies, DenyAll, book, once, own, hist
  <1>3. LeaderOK'
    BY <1>1 DEF AgentAssumption, TypeOK, LeaderOK, Leads, Known, AskingOK, PlacesOK, PlaceOK,
                PauseDenies, DenyAll, None, env, book, once, hub, own, hist
  <1>4. AskingOK'
    BY <1>1 DEF AgentAssumption, TypeOK, LeaderOK, Leads, AskingOK, Known, PlacesOK, PlaceOK,
                Ended, PauseDenies, DenyAll, None, env, book, once, hub, own, hist
  <1>5. PlacesOK'
    BY <1>1 DEF AgentAssumption, TypeOK, LeaderOK, Leads, Known, PlacesOK, PlaceOK,
                PauseDenies, DenyAll, None, env, book, once, hub, own, hist
  <1>6. OpenOK'
    BY <1>1 DEF AgentAssumption, TypeOK, LeaderOK, Leads, PlacesOK, PlaceOK, OpenOK, KeptOK,
                KeptFor, MayOpen, Justified, Backed, Known, Unlocking, PauseDenies, DenyAll, None,
                env, book, once, hub, own, hist
  <1>7. KeptOK'
    BY <1>1 DEF AgentAssumption, TypeOK, LeaderOK, Leads, PlacesOK, PlaceOK, KeptOK, KeptFor,
                PauseDenies, DenyAll, None, env, book, once, hub, own, hist
  <1> QED BY <1>2, <1>3, <1>4, <1>5, <1>6, <1>7 DEF IInv

(* Every approval is forgotten. *)
LEMMA ClearKeeps ==
    ASSUME AgentAssumption, IInv, Clear
    PROVE  IInv'
  <1>1. TypeOK /\ LeaderOK /\ AskingOK /\ PlacesOK /\ OpenOK /\ KeptOK
    BY DEF IInv
  <1>2. TypeOK'
    BY <1>1 DEF AgentAssumption, TypeOK, Clear, Place, None,
                env, book, once, hub, own, hist
  <1>3. LeaderOK'
    BY <1>1 DEF AgentAssumption, TypeOK, LeaderOK, Leads, Known, AskingOK, PlacesOK, PlaceOK,
                Clear, None, env, book, once, hub, own, hist
  <1>4. AskingOK'
    BY <1>1 DEF AgentAssumption, TypeOK, LeaderOK, Leads, AskingOK, Known, PlacesOK, PlaceOK,
                Ended, Clear, None, env, book, once, hub, own, hist
  <1>5. PlacesOK'
    BY <1>1 DEF AgentAssumption, TypeOK, LeaderOK, Leads, Known, PlacesOK, PlaceOK,
                Clear, None, env, book, once, hub, own, hist
  <1>6. OpenOK'
    BY <1>1 DEF AgentAssumption, TypeOK, LeaderOK, Leads, PlacesOK, PlaceOK, OpenOK, KeptOK,
                KeptFor, MayOpen, Justified, Backed, Known, Unlocking, Clear, None,
                env, book, once, hub, own, hist
  <1>7. KeptOK'
    BY <1>1 DEF AgentAssumption, TypeOK, LeaderOK, Leads, PlacesOK, PlaceOK, KeptOK, KeptFor,
                Clear, None, env, book, once, hub, own, hist
  <1> QED BY <1>2, <1>3, <1>4, <1>5, <1>6, <1>7 DEF IInv

(* records_use_legacy. *)
LEMMA ResumeLegacyKeeps ==
    ASSUME AgentAssumption, IInv, ResumeLegacy
    PROVE  IInv'
  <1>1. TypeOK /\ LeaderOK /\ AskingOK /\ PlacesOK /\ OpenOK /\ KeptOK
    BY DEF IInv
  <1>2. TypeOK'
    BY <1>1 DEF AgentAssumption, TypeOK, ResumeLegacy, Place, None,
                env, book, once, hub, own, hist
  <1>3. LeaderOK'
    BY <1>1 DEF AgentAssumption, TypeOK, LeaderOK, Leads, Known, AskingOK, PlacesOK, PlaceOK,
                ResumeLegacy, None, env, book, once, hub, own, hist
  <1>4. AskingOK'
    BY <1>1 DEF AgentAssumption, TypeOK, LeaderOK, Leads, AskingOK, Known, PlacesOK, PlaceOK,
                Ended, ResumeLegacy, None, env, book, once, hub, own, hist
  <1>5. PlacesOK'
    BY <1>1 DEF AgentAssumption, TypeOK, LeaderOK, Leads, Known, PlacesOK, PlaceOK,
                ResumeLegacy, None, env, book, once, hub, own, hist
  <1>6. OpenOK'
    BY <1>1 DEF AgentAssumption, TypeOK, LeaderOK, Leads, PlacesOK, PlaceOK, OpenOK, KeptOK,
                KeptFor, MayOpen, Justified, Backed, Known, Unlocking, ResumeLegacy, None,
                env, book, once, hub, own, hist
  <1>7. KeptOK'
    BY <1>1 DEF AgentAssumption, TypeOK, LeaderOK, Leads, PlacesOK, PlaceOK, KeptOK, KeptFor,
                ResumeLegacy, None, env, book, once, hub, own, hist
  <1> QED BY <1>2, <1>3, <1>4, <1>5, <1>6, <1>7 DEF IInv

-----------------------------------------------------------------------------
(* Nothing is allowed, kept or asked when the agent starts. *)
LEMMA InitHolds ==
    ASSUME AgentAssumption, Init
    PROVE  IInv
  <1>1. TypeOK
    BY DEF AgentAssumption, Init, TypeOK, Place, None
  <1>2. LeaderOK /\ AskingOK /\ OpenOK /\ KeptOK
    BY DEF AgentAssumption, Init, LeaderOK, AskingOK, OpenOK, Unlocking, KeptOK, None
  <1>3. PlacesOK
    BY DEF AgentAssumption, Init, PlacesOK, PlaceOK, None
  <1> QED BY <1>1, <1>2, <1>3 DEF IInv

(* Every step of a thread, of the user, of the clock or of a command. *)
LEMMA StepKeeps ==
    ASSUME AgentAssumption, IInv, [Next]_vars
    PROVE  IInv'
  <1>1. ASSUME NEW r \in Request, Begin(r) \/ Thread(r) \/ FollowTimesOut(r) PROVE IInv'
    BY <1>1, BeginKeeps, CheckKeeps, JoinKeeps, RecheckKeeps, FollowKeeps, FollowTimesOutKeeps,
       OpenWindowKeeps, StopWaitingKeeps, LeaveKeeps, DecideKeeps, UnlockKeeps, TryKeychainKeeps,
       UsePassphraseKeeps, RememberKeeps, DropKeeps DEF Thread
  <1>2. ASSUME NEW r \in Request, NEW a \in Answers, Resolve(r, a) PROVE IInv'
    BY <1>2, ResolveKeeps
  <1>3. CASE CloseWindow \/ Tick \/ Expire \/ Pause \/ PauseDenies \/ Clear \/ ResumeLegacy
    BY <1>3, CloseWindowKeeps, TickKeeps, ExpireKeeps, PauseKeeps, PauseDeniesKeeps,
       ClearKeeps, ResumeLegacyKeeps
  <1>4. CASE UNCHANGED vars
    BY <1>4 DEF IInv, TypeOK, LeaderOK, Leads, Known, AskingOK, Ended, PlacesOK, PlaceOK, OpenOK,
                MayOpen, Justified, Backed, KeptOK, KeptFor,
                vars, env, book, once, hub, own, hist
  <1> QED BY <1>1, <1>2, <1>3, <1>4 DEF Next

(* The inductive invariant holds in every state of the agent: what asks,   *)
(* what is kept and what may open the key fit together.                    *)
THEOREM Invariance ==
    ASSUME AgentAssumption
    PROVE  Spec => []IInv
  <1>1. Init => IInv
    BY InitHolds
  <1>2. IInv /\ [Next]_vars => IInv'
    BY StepKeeps
  <1> QED BY <1>1, <1>2, PTL DEF Spec

(* Every variable of the agent keeps its type; in particular no request    *)
(* tries more passphrases than PASSPHRASE_ATTEMPTS.                        *)
THEOREM TypeCorrect ==
    ASSUME AgentAssumption
    PROVE  Spec => []TypeOK
  <1>1. IInv => TypeOK
    BY DEF IInv
  <1> QED BY <1>1, Invariance, PTL

(* sign() opens the key only for Connect, for a request whose window the   *)
(* user allowed, or for one that may rely on another's window or on a      *)
(* remembered approval for the same program and host, which had not        *)
(* expired when it was looked up.                                          *)
THEOREM SignsWithConsent ==
    ASSUME AgentAssumption
    PROVE  Spec => []SignedIsAllowed
  <1>1. IInv => SignedIsAllowed
    BY DEF IInv, TypeOK, OpenOK, MayOpen, SignedIsAllowed
  <1> QED BY <1>1, Invariance, PTL

(* ask_once() shows one window at a time about a program and host: both    *)
(* requests would be the one that Broker.asking names.                     *)
THEOREM AsksOnce ==
    ASSUME AgentAssumption
    PROVE  Spec => []OneWindow
  <1>1. IInv => OneWindow
    <2> SUFFICES ASSUME IInv, NEW r \in Request, NEW q \in Request,
                        r # q, ContextOf[r] = ContextOf[q], ContextOf[r] # "unknown",
                        pc[r] = "window", pc[q] = "window", ~always[r], ~always[q]
                 PROVE  FALSE
      BY DEF OneWindow
    <2>1. leader[r] = r /\ leader[q] = q
      BY DEF IInv, PlacesOK, PlaceOK, Known
    <2> QED BY <2>1 DEF IInv, AskingOK, Ended
  <1> QED BY <1>1, Invariance, PTL

(* PromptHub::ask() returns the answer that resolve() took, also when it   *)
(* was sent after the wait was over and before forget().                   *)
THEOREM AnswersCount ==
    ASSUME AgentAssumption
    PROVE  Spec => AnswerCounts
  <1> DEFINE Counts ==
        \A r \in Request :
            pc[r] \in {"stopped", "passStopped"} /\ pc'[r] # pc[r] /\ channel[r] # Silent
                => answer'[r] = channel[r]
  <1>1. ASSUME IInv, [Next]_vars PROVE [Counts]_vars
    <2> SUFFICES ASSUME NEW r \in Request, pc[r] \in {"stopped", "passStopped"},
                        pc'[r] # pc[r], channel[r] # Silent
                 PROVE  answer'[r] = channel[r]
      BY DEF Counts
    <2>1. TypeOK /\ PlaceOK(r)
      BY <1>1 DEF IInv, PlacesOK
    <2>2. Leave(r)
      <3>1. ASSUME NEW q \in Request, Begin(q) \/ Thread(q) \/ FollowTimesOut(q), q # r PROVE FALSE
        BY <2>1, <3>1 DEF TypeOK, Thread, Goes, Begin, Check, Join, Recheck, Follow,
                          FollowTimesOut, OpenWindow, StopWaiting, Leave, Decide, Unlock,
                          TryKeychain, UsePassphrase, Remember, Drop
      <3>2. CASE Begin(r) \/ Thread(r) \/ FollowTimesOut(r)
        BY <2>1, <3>2 DEF Thread, Begin, Check, Join, Recheck, Follow, FollowTimesOut, OpenWindow,
                          StopWaiting, Decide, Unlock, TryKeychain, UsePassphrase, Remember, Drop
      <3>3. \/ \E q \in Request, x \in Answers : Resolve(q, x)
            \/ CloseWindow \/ Tick \/ Expire \/ Pause \/ PauseDenies \/ Clear \/ ResumeLegacy
            \/ UNCHANGED vars
            => pc' = pc
        BY DEF Resolve, CloseWindow, Tick, Expire, Pause, PauseDenies, Clear, ResumeLegacy, vars
      <3> QED BY <1>1, <3>1, <3>2, <3>3 DEF Next
    <2> QED BY <2>1, <2>2 DEF TypeOK, PlaceOK, Leave
  <1> QED BY <1>1, Invariance, PTL DEF Spec, AnswerCounts

(* The three together: what the user decides is what sign() does, for any  *)
(* number of requests, approvals, pauses and passphrase attempts.          *)
THEOREM HonoursConsent ==
    ASSUME AgentAssumption
    PROVE  Spec => ConsentHonoured
  BY SignsWithConsent, AsksOnce, AnswersCount, PTL DEF ConsentHonoured

-----------------------------------------------------------------------------
(***************************************************************************)
(* Calls of AI tools (McpCalls), for every set of calls and hosts and      *)
(* every bound.  What a call may do follows from where its thread is:      *)
(* CallOK says what each place of the thread relies on (an answer of the   *)
(* user or the mode Auto, an endpoint that is the one shown, its entry     *)
(* among the active calls), and the history is about calls that are past   *)
(* those places.                                                           *)
(***************************************************************************)
(* The instance has its own copies of the operators on finite sets. *)
LEMMA SameSizes ==
    ASSUME NEW S
    PROVE  (Mcp!IsFiniteSet(S) <=> IsFiniteSet(S)) /\ Mcp!Cardinality(S) = Cardinality(S)
  <1>1. Mcp!IsFiniteSet(S) <=> IsFiniteSet(S)
    BY DEF Mcp!IsFiniteSet, IsFiniteSet
  <1>2. Mcp!Cardinality(S) = Cardinality(S)
    BY DEF Mcp!Cardinality, Cardinality
  <1> QED BY <1>1, <1>2

(* The places between register and the guard's drop. *)
Registered == Mcp!Place \ {"new", "capture", "policy", "register", "over"}

(* The places after the approval. *)
PastApproval == {"check", "resolve", "connect", "connected", "start", "running", "edit", "save"}

(* The places of an exec after its check. *)
PastCheck == {"resolve", "connect", "connected", "start", "running"}

(* The user said yes, or it is an exec that need not ask. *)
MayGo(c) == c \in yes \/ (Mcp!Kind(c, {"exec"}) /\ snap[c].mode # "ask")

(* A settings command is about to cancel the call. *)
ToCancel(c) == user.at = "cancel" /\ (user.of = "all" \/ user.of = HostOf[c])

CallOK(c) ==
    /\ c \in active <=> place[c] \in Registered
    /\ place[c] \in {"resolve", "connect", "connected"} => Mcp!Kind(c, {"exec"})
    /\ place[c] \in {"edit", "save"} => Mcp!Kind(c, {"create"})
    /\ sent[c] = "allow" => c \in yes
    /\ decision[c] = "allow" => c \in yes
    /\ place[c] \in PastApproval => MayGo(c)
    /\ Mcp!Kind(c, {"exec"}) /\ place[c] \in {"connect", "connected", "start"} => target[c] = shown[c]
    /\ place[c] = "save" => endpoint[HostOf[c]] = shown[c]
    /\ Mcp!Kind(c, {"exec"}) /\ place[c] \in PastCheck /\ (~Mcp!Permitted(c) \/ policy.mode # snap[c].mode)
          => cancel[c] \/ ToCancel(c)

RanOK(r) ==
    /\ place[r.call] \in {"running", "end", "over"} /\ MayGo(r.call)
    /\ Mcp!Kind(r.call, {"exec"}) => r.on = shown[r.call]

SavedOK(s) ==
    place[s.call] \in {"end", "over"} /\ s.on = shown[s.call] /\ s.call \in yes

History == (\A r \in ran : RanOK(r)) /\ (\A s \in created : SavedOK(s))

CallInv == Mcp!TypeOK /\ (\A c \in Call : CallOK(c)) /\ History

(* Only call c moves. *)
Alone(c) ==
    /\ UNCHANGED <<Mcp!rules, endpoint>>
    /\ yes \subseteq yes'
    /\ \A e \in Call \ {c} :
          /\ cancel[e] => cancel'[e]
          /\ sent'[e] = sent[e] /\ snap'[e] = snap[e] /\ shown'[e] = shown[e]
          /\ target'[e] = target[e] /\ decision'[e] = decision[e] /\ place'[e] = place[e]
          /\ e \in active' <=> e \in active

(* A call that is over or running stays where its history is about. *)
Settled(c) ==
    /\ place[c] \in {"running", "end", "over"} =>
          place'[c] \in {"running", "end", "over"} /\ shown'[c] = shown[c] /\ snap'[c] = snap[c]
    /\ place[c] \in {"end", "over"} => place'[c] \in {"end", "over"}

(* The step of one call: it is enough to look at that call. *)
LEMMA AloneStep ==
    ASSUME CallInv, NEW c \in Call, Mcp!TypeOK', Alone(c), Settled(c), CallOK(c)',
           \A r \in ran' \ ran : RanOK(r)', \A s \in created' \ created : SavedOK(s)'
    PROVE  CallInv'
  <1>1. ASSUME NEW e \in Call \ {c} PROVE CallOK(e)'
    <2>1. CallOK(e)
      BY DEF CallInv
    <2> QED BY <2>1 DEF CallOK, Alone, MayGo, ToCancel, Mcp!Permitted, Mcp!Kind, Mcp!rules
  <1>2. ASSUME NEW r \in ran PROVE RanOK(r)'
    <2>1. RanOK(r) /\ r.call \in Call
      BY DEF CallInv, History, Mcp!TypeOK
    <2> QED BY <2>1 DEF RanOK, Alone, Settled, MayGo, Mcp!Kind
  <1>3. ASSUME NEW s \in created PROVE SavedOK(s)'
    <2>1. SavedOK(s) /\ s.call \in Call
      BY DEF CallInv, History, Mcp!TypeOK
    <2> QED BY <2>1 DEF SavedOK, Alone, Settled
  <1> QED BY <1>1, <1>2, <1>3 DEF CallInv, History

(* dispatch() and dispatch_bridge(). *)
LEMMA DispatchKeeps ==
    ASSUME Mcp!McpAssumption, CallInv, NEW c \in Call, Mcp!Dispatch(c)
    PROVE  CallInv'
  <1>1. Mcp!TypeOK /\ CallOK(c)
    BY DEF CallInv
  <1>2. Mcp!TypeOK'
    BY <1>1 DEF Mcp!McpAssumption, Mcp!TypeOK, Mcp!Dispatch, Mcp!At, Mcp!Goes, Mcp!Place,
                Mcp!Decision, Mcp!rules, Mcp!stop, Mcp!window,
                Mcp!own, Mcp!hist
  <1>3. Alone(c) /\ Settled(c)
    BY <1>1 DEF Mcp!TypeOK, Mcp!Dispatch, Mcp!At, Mcp!Goes, Alone, Settled, Mcp!rules, Mcp!stop,
                Mcp!window, Mcp!own, Mcp!hist
  <1>4. CallOK(c)'
    BY <1>1 DEF Mcp!McpAssumption, Mcp!TypeOK, CallOK, Mcp!Dispatch, Mcp!At, Mcp!Goes, Mcp!Place,
                Registered,
                PastApproval, PastCheck,
                MayGo, ToCancel, Mcp!Permitted, Mcp!Kind, Mcp!rules, Mcp!stop, Mcp!window,
                Mcp!own, Mcp!hist
  <1>5. ran' = ran /\ created' = created
    BY DEF Mcp!Dispatch, Mcp!hist
  <1> QED BY <1>2, <1>3, <1>4, <1>5, AloneStep

(* The policy is read again. *)
LEMMA ReadPolicyKeeps ==
    ASSUME Mcp!McpAssumption, CallInv, NEW c \in Call, Mcp!ReadPolicy(c)
    PROVE  CallInv'
  <1>1. Mcp!TypeOK /\ CallOK(c)
    BY DEF CallInv
  <1>2. Mcp!TypeOK'
    BY <1>1 DEF Mcp!McpAssumption, Mcp!TypeOK, Mcp!ReadPolicy, Mcp!At, Mcp!Goes, Mcp!Place,
                Mcp!Decision, Mcp!rules, Mcp!stop, Mcp!window,
                Mcp!own, Mcp!hist
  <1>3. Alone(c) /\ Settled(c)
    BY <1>1 DEF Mcp!TypeOK, Mcp!ReadPolicy, Mcp!At, Mcp!Goes, Alone, Settled, Mcp!rules, Mcp!stop,
                Mcp!window, Mcp!own, Mcp!hist
  <1>4. CallOK(c)'
    BY <1>1 DEF Mcp!McpAssumption, Mcp!TypeOK, CallOK, Mcp!ReadPolicy, Mcp!At, Mcp!Goes,
                Mcp!Place, Registered,
                PastApproval, PastCheck,
                MayGo, ToCancel, Mcp!Permitted, Mcp!Kind, Mcp!rules, Mcp!stop, Mcp!window,
                Mcp!own, Mcp!hist
  <1>5. ran' = ran /\ created' = created
    BY DEF Mcp!ReadPolicy, Mcp!hist
  <1> QED BY <1>2, <1>3, <1>4, <1>5, AloneStep

(* What the window will show is captured, before anything relies on it. *)
LEMMA CaptureKeeps ==
    ASSUME Mcp!McpAssumption, CallInv, NEW c \in Call, Mcp!Capture(c)
    PROVE  CallInv'
  <1>1. Mcp!TypeOK /\ CallOK(c)
    BY DEF CallInv
  <1>2. Mcp!TypeOK'
    BY <1>1 DEF Mcp!McpAssumption, Mcp!TypeOK, Mcp!Capture, Mcp!At, Mcp!Goes, Mcp!Place,
                Mcp!Decision, Mcp!rules, Mcp!stop, Mcp!window,
                Mcp!own, Mcp!hist
  <1>3. Alone(c) /\ Settled(c)
    BY <1>1 DEF Mcp!TypeOK, Mcp!Capture, Mcp!At, Mcp!Goes, Alone, Settled, Mcp!rules, Mcp!stop,
                Mcp!window, Mcp!own, Mcp!hist
  <1>4. CallOK(c)'
    BY <1>1 DEF Mcp!McpAssumption, Mcp!TypeOK, CallOK, Mcp!Capture, Mcp!At, Mcp!Goes, Mcp!Place,
                Registered, PastApproval,
                PastCheck,
                MayGo, ToCancel, Mcp!Permitted, Mcp!Kind, Mcp!rules, Mcp!stop, Mcp!window,
                Mcp!own, Mcp!hist
  <1>5. ran' = ran /\ created' = created
    BY DEF Mcp!Capture, Mcp!hist
  <1> QED BY <1>2, <1>3, <1>4, <1>5, AloneStep

(* The call is entered among the active ones, or was cancelled before. *)
LEMMA RegisterKeeps ==
    ASSUME Mcp!McpAssumption, CallInv, NEW c \in Call, Mcp!Register(c)
    PROVE  CallInv'
  <1>1. Mcp!TypeOK /\ CallOK(c)
    BY DEF CallInv
  <1>2. Mcp!TypeOK'
    <2>1. Mcp!Kind(c, {"exec"}) \in BOOLEAN
      BY DEF Mcp!Kind
    <2>2. place' \in [Call -> Mcp!Place] /\ watcher' \in [Call -> BOOLEAN]
      BY <1>1, <2>1 DEF Mcp!TypeOK, Mcp!Register, Mcp!At, Mcp!Goes, Mcp!Place
    <2>3. pending' \subseteq {e \in Call : place'[e] \in {"recheck", "waiting", "unpend"}}
      BY <1>1 DEF Mcp!TypeOK, Mcp!Register, Mcp!At, Mcp!Goes, Mcp!window
    <2>4. active' \subseteq Call /\ early' \subseteq Call
      BY <1>1 DEF Mcp!TypeOK, Mcp!Register
    <2> QED BY <1>1, <2>2, <2>3, <2>4 DEF Mcp!TypeOK, Mcp!Register, Mcp!rules, Mcp!window, Mcp!hist
  <1>3. Alone(c) /\ Settled(c)
    BY <1>1 DEF Mcp!TypeOK, Mcp!Register, Mcp!At, Mcp!Goes, Alone, Settled, Mcp!rules, Mcp!stop,
                Mcp!window, Mcp!own, Mcp!hist
  <1>4. CallOK(c)'
    BY <1>1 DEF Mcp!McpAssumption, Mcp!TypeOK, CallOK, Mcp!Register, Mcp!At, Mcp!Goes, Mcp!Place,
                Registered,
                PastApproval, PastCheck,
                MayGo, ToCancel, Mcp!Permitted, Mcp!Kind, Mcp!rules, Mcp!stop, Mcp!window,
                Mcp!own, Mcp!hist
  <1>5. ran' = ran /\ created' = created
    BY DEF Mcp!Register, Mcp!hist
  <1> QED BY <1>2, <1>3, <1>4, <1>5, AloneStep

(* An exec in the mode Auto goes on without a window. *)
LEMMA CallDecideKeeps ==
    ASSUME Mcp!McpAssumption, CallInv, NEW c \in Call, Mcp!Decide(c)
    PROVE  CallInv'
  <1>1. Mcp!TypeOK /\ CallOK(c)
    BY DEF CallInv
  <1>2. Mcp!TypeOK'
    BY <1>1 DEF Mcp!McpAssumption, Mcp!TypeOK, Mcp!Decide, Mcp!Live, Mcp!At, Mcp!Goes, Mcp!Place,
                Mcp!Decision, Mcp!rules, Mcp!stop,
                Mcp!window, Mcp!own, Mcp!hist
  <1>3. Alone(c) /\ Settled(c)
    BY <1>1 DEF Mcp!TypeOK, Mcp!Decide, Mcp!Live, Mcp!At, Mcp!Goes, Alone, Settled, Mcp!rules,
                Mcp!stop, Mcp!window, Mcp!own, Mcp!hist
  <1>4. CallOK(c)'
    BY <1>1 DEF Mcp!McpAssumption, Mcp!TypeOK, CallOK, Mcp!Decide, Mcp!Live, Mcp!At, Mcp!Goes,
                Mcp!Place, Registered,
                PastApproval, PastCheck,
                MayGo, ToCancel, Mcp!Permitted, Mcp!Kind, Mcp!rules, Mcp!stop, Mcp!window,
                Mcp!own, Mcp!hist
  <1>5. ran' = ran /\ created' = created
    BY DEF Mcp!Decide, Mcp!hist
  <1> QED BY <1>2, <1>3, <1>4, <1>5, AloneStep

(* The window opens. *)
LEMMA InsertKeeps ==
    ASSUME Mcp!McpAssumption, CallInv, NEW c \in Call, Mcp!Insert(c)
    PROVE  CallInv'
  <1>1. Mcp!TypeOK /\ CallOK(c)
    BY DEF CallInv
  <1>2. Mcp!TypeOK'
    <2>1. place' \in [Call -> Mcp!Place]
      BY <1>1 DEF Mcp!TypeOK, Mcp!Insert, Mcp!Goes, Mcp!Place
    <2>2. pending' \subseteq {d \in Call : place'[d] \in {"recheck", "waiting", "unpend"}}
      <3>1. /\ place \in [Call -> Mcp!Place] /\ place[c] = "insert"
            /\ \A d \in pending : d \in Call /\ place[d] \in {"recheck", "waiting", "unpend"}
        BY <1>1 DEF Mcp!TypeOK, Mcp!Insert, Mcp!At
      <3>2. \/ pending' = pending /\ place' = [place EXCEPT ![c] = "end"]
            \/ /\ pending' = pending \cup {c}
               /\ \E to \in {"waiting", "recheck"} : place' = [place EXCEPT ![c] = to]
        BY DEF Mcp!Insert, Mcp!Goes
      <3> QED BY <3>1, <3>2
    <2> QED BY <1>1, <2>1, <2>2 DEF Mcp!TypeOK, Mcp!Insert, Mcp!rules, Mcp!stop, Mcp!own, Mcp!hist
  <1>3. Alone(c) /\ Settled(c)
    BY <1>1 DEF Mcp!TypeOK, Mcp!Insert, Mcp!Records, Mcp!At, Mcp!Goes, Alone, Settled, Mcp!rules,
                Mcp!stop, Mcp!window, Mcp!own, Mcp!hist
  <1>4. CallOK(c)'
    BY <1>1 DEF Mcp!McpAssumption, Mcp!TypeOK, CallOK, Mcp!Insert, Mcp!Records, Mcp!At, Mcp!Goes,
                Mcp!Place, Registered,
                PastApproval, PastCheck,
                MayGo, ToCancel, Mcp!Permitted, Mcp!Kind, Mcp!rules, Mcp!stop, Mcp!window,
                Mcp!own, Mcp!hist
  <1>5. ran' = ran /\ created' = created
    BY DEF Mcp!Insert, Mcp!hist
  <1> QED BY <1>2, <1>3, <1>4, <1>5, AloneStep

(* A run that was cancelled takes its window back. *)
LEMMA CallRecheckKeeps ==
    ASSUME Mcp!McpAssumption, CallInv, NEW c \in Call, Mcp!Recheck(c)
    PROVE  CallInv'
  <1>1. Mcp!TypeOK /\ CallOK(c)
    BY DEF CallInv
  <1>2. Mcp!TypeOK'
    BY <1>1 DEF Mcp!McpAssumption, Mcp!TypeOK, Mcp!Recheck, Mcp!At, Mcp!Goes, Mcp!Place,
                Mcp!Decision, Mcp!rules, Mcp!stop, Mcp!window,
                Mcp!own, Mcp!hist
  <1>3. Alone(c) /\ Settled(c)
    BY <1>1 DEF Mcp!TypeOK, Mcp!Recheck, Mcp!At, Mcp!Goes, Alone, Settled, Mcp!rules, Mcp!stop,
                Mcp!window, Mcp!own, Mcp!hist
  <1>4. CallOK(c)'
    BY <1>1 DEF Mcp!McpAssumption, Mcp!TypeOK, CallOK, Mcp!Recheck, Mcp!At, Mcp!Goes, Mcp!Place,
                Registered, PastApproval,
                PastCheck,
                MayGo, ToCancel, Mcp!Permitted, Mcp!Kind, Mcp!rules, Mcp!stop, Mcp!window,
                Mcp!own, Mcp!hist
  <1>5. ran' = ran /\ created' = created
    BY DEF Mcp!Recheck, Mcp!hist
  <1> QED BY <1>2, <1>3, <1>4, <1>5, AloneStep

(* The answer that is heard is the one that was sent, or no allowance. *)
LEMMA ReceiveKeeps ==
    ASSUME Mcp!McpAssumption, CallInv, NEW c \in Call, Mcp!Receive(c)
    PROVE  CallInv'
  <1>1. Mcp!TypeOK /\ CallOK(c)
    BY DEF CallInv
  <1>2. Mcp!TypeOK'
    BY <1>1 DEF Mcp!McpAssumption, Mcp!TypeOK, Mcp!Receive, Mcp!Heard, Mcp!Records, Mcp!At,
                Mcp!Goes, Mcp!Place, Mcp!Decision, Mcp!rules,
                Mcp!stop, Mcp!window, Mcp!own, Mcp!hist
  <1>3. Alone(c) /\ Settled(c)
    BY <1>1 DEF Mcp!TypeOK, Mcp!Receive, Mcp!Heard, Mcp!Records, Mcp!At, Mcp!Goes, Alone, Settled,
                Mcp!rules, Mcp!stop, Mcp!window,
                Mcp!own, Mcp!hist
  <1>4. CallOK(c)'
    BY <1>1 DEF Mcp!McpAssumption, Mcp!TypeOK, CallOK, Mcp!Receive, Mcp!Heard, Mcp!Records,
                Mcp!At, Mcp!Goes, Mcp!Place,
                Registered, PastApproval, PastCheck,
                MayGo, ToCancel, Mcp!Permitted, Mcp!Kind, Mcp!rules, Mcp!stop, Mcp!window,
                Mcp!own, Mcp!hist
  <1>5. ran' = ran /\ created' = created
    BY DEF Mcp!Receive, Mcp!hist
  <1> QED BY <1>2, <1>3, <1>4, <1>5, AloneStep

(* Only an allowance goes on. *)
LEMMA UnpendKeeps ==
    ASSUME Mcp!McpAssumption, CallInv, NEW c \in Call, Mcp!Unpend(c)
    PROVE  CallInv'
  <1>1. Mcp!TypeOK /\ CallOK(c)
    BY DEF CallInv
  <1>2. Mcp!TypeOK'
    BY <1>1 DEF Mcp!McpAssumption, Mcp!TypeOK, Mcp!Unpend, Mcp!At, Mcp!Goes, Mcp!Place,
                Mcp!Decision, Mcp!rules, Mcp!stop, Mcp!window,
                Mcp!own, Mcp!hist
  <1>3. Alone(c) /\ Settled(c)
    BY <1>1 DEF Mcp!TypeOK, Mcp!Unpend, Mcp!At, Mcp!Goes, Alone, Settled, Mcp!rules, Mcp!stop,
                Mcp!window, Mcp!own, Mcp!hist
  <1>4. CallOK(c)'
    BY <1>1 DEF Mcp!McpAssumption, Mcp!TypeOK, CallOK, Mcp!Unpend, Mcp!At, Mcp!Goes, Mcp!Place,
                Registered, PastApproval,
                PastCheck,
                MayGo, ToCancel, Mcp!Permitted, Mcp!Kind, Mcp!rules, Mcp!stop, Mcp!window,
                Mcp!own, Mcp!hist
  <1>5. ran' = ran /\ created' = created
    BY DEF Mcp!Unpend, Mcp!hist
  <1> QED BY <1>2, <1>3, <1>4, <1>5, AloneStep

(* After the approval: the permission is looked at again. *)
LEMMA CallCheckKeeps ==
    ASSUME Mcp!McpAssumption, CallInv, NEW c \in Call, Mcp!Check(c)
    PROVE  CallInv'
  <1>1. Mcp!TypeOK /\ CallOK(c)
    BY DEF CallInv
  <1>2. Mcp!TypeOK'
    BY <1>1 DEF Mcp!McpAssumption, Mcp!TypeOK, Mcp!Check, Mcp!Checked, Mcp!Live, Mcp!At, Mcp!Goes,
                Mcp!Place, Mcp!Decision, Mcp!rules,
                Mcp!stop, Mcp!window, Mcp!own, Mcp!hist
  <1>3. Alone(c) /\ Settled(c)
    BY <1>1 DEF Mcp!TypeOK, Mcp!Check, Mcp!Checked, Mcp!Live, Mcp!At, Mcp!Goes, Alone, Settled,
                Mcp!rules, Mcp!stop, Mcp!window, Mcp!own,
                Mcp!hist
  <1>4. CallOK(c)'
    BY <1>1 DEF Mcp!McpAssumption, Mcp!TypeOK, CallOK, Mcp!Check, Mcp!Checked, Mcp!Live, Mcp!At,
                Mcp!Goes, Mcp!Place, Registered,
                PastApproval, PastCheck,
                MayGo, ToCancel, Mcp!Permitted, Mcp!Kind, Mcp!rules, Mcp!stop, Mcp!window,
                Mcp!own, Mcp!hist
  <1>5. ran' = ran /\ created' = created
    BY DEF Mcp!Check, Mcp!hist
  <1> QED BY <1>2, <1>3, <1>4, <1>5, AloneStep

(* The endpoint that is connected to is the one that was approved. *)
LEMMA ResolveTargetKeeps ==
    ASSUME Mcp!McpAssumption, CallInv, NEW c \in Call, Mcp!ResolveTarget(c)
    PROVE  CallInv'
  <1>1. Mcp!TypeOK /\ CallOK(c)
    BY DEF CallInv
  <1>2. Mcp!TypeOK'
    BY <1>1 DEF Mcp!McpAssumption, Mcp!TypeOK, Mcp!ResolveTarget, Mcp!Approved, Mcp!At, Mcp!Goes,
                Mcp!Place, Mcp!Decision, Mcp!rules,
                Mcp!stop, Mcp!window, Mcp!own, Mcp!hist
  <1>3. Alone(c) /\ Settled(c)
    BY <1>1 DEF Mcp!TypeOK, Mcp!ResolveTarget, Mcp!Approved, Mcp!At, Mcp!Goes, Alone, Settled,
                Mcp!rules, Mcp!stop, Mcp!window,
                Mcp!own, Mcp!hist
  <1>4. CallOK(c)'
    BY <1>1 DEF Mcp!McpAssumption, Mcp!TypeOK, CallOK, Mcp!ResolveTarget, Mcp!Approved, Mcp!At,
                Mcp!Goes, Mcp!Place,
                Registered, PastApproval, PastCheck,
                MayGo, ToCancel, Mcp!Permitted, Mcp!Kind, Mcp!rules, Mcp!stop, Mcp!window,
                Mcp!own, Mcp!hist
  <1>5. ran' = ran /\ created' = created
    BY DEF Mcp!ResolveTarget, Mcp!hist
  <1> QED BY <1>2, <1>3, <1>4, <1>5, AloneStep

(* The connection is made and checked again. *)
LEMMA ConnectKeeps ==
    ASSUME Mcp!McpAssumption, CallInv, NEW c \in Call, Mcp!Connect(c)
    PROVE  CallInv'
  <1>1. Mcp!TypeOK /\ CallOK(c)
    BY DEF CallInv
  <1>2. Mcp!TypeOK'
    BY <1>1 DEF Mcp!McpAssumption, Mcp!TypeOK, Mcp!Connect, Mcp!Checked, Mcp!Approved, Mcp!At,
                Mcp!Goes, Mcp!Place, Mcp!Decision,
                Mcp!rules, Mcp!stop, Mcp!window, Mcp!own, Mcp!hist
  <1>3. Alone(c) /\ Settled(c)
    BY <1>1 DEF Mcp!TypeOK, Mcp!Connect, Mcp!Checked, Mcp!Approved, Mcp!At, Mcp!Goes, Alone,
                Settled, Mcp!rules, Mcp!stop, Mcp!window,
                Mcp!own, Mcp!hist
  <1>4. CallOK(c)'
    BY <1>1 DEF Mcp!McpAssumption, Mcp!TypeOK, CallOK, Mcp!Connect, Mcp!Checked, Mcp!Approved,
                Mcp!At, Mcp!Goes, Mcp!Place,
                Registered, PastApproval, PastCheck,
                MayGo, ToCancel, Mcp!Permitted, Mcp!Kind, Mcp!rules, Mcp!stop, Mcp!window,
                Mcp!own, Mcp!hist
  <1>5. ran' = ran /\ created' = created
    BY DEF Mcp!Connect, Mcp!hist
  <1> QED BY <1>2, <1>3, <1>4, <1>5, AloneStep

(* The command is over. *)
LEMMA FinishKeeps ==
    ASSUME Mcp!McpAssumption, CallInv, NEW c \in Call, Mcp!Finish(c)
    PROVE  CallInv'
  <1>1. Mcp!TypeOK /\ CallOK(c)
    BY DEF CallInv
  <1>2. Mcp!TypeOK'
    BY <1>1 DEF Mcp!McpAssumption, Mcp!TypeOK, Mcp!Finish, Mcp!At, Mcp!Goes, Mcp!Place,
                Mcp!Decision, Mcp!rules, Mcp!stop, Mcp!window,
                Mcp!own, Mcp!hist
  <1>3. Alone(c) /\ Settled(c)
    BY <1>1 DEF Mcp!TypeOK, Mcp!Finish, Mcp!At, Mcp!Goes, Alone, Settled, Mcp!rules, Mcp!stop,
                Mcp!window, Mcp!own, Mcp!hist
  <1>4. CallOK(c)'
    BY <1>1 DEF Mcp!McpAssumption, Mcp!TypeOK, CallOK, Mcp!Finish, Mcp!At, Mcp!Goes, Mcp!Place,
                Registered, PastApproval,
                PastCheck,
                MayGo, ToCancel, Mcp!Permitted, Mcp!Kind, Mcp!rules, Mcp!stop, Mcp!window,
                Mcp!own, Mcp!hist
  <1>5. ran' = ran /\ created' = created
    BY DEF Mcp!Finish, Mcp!hist
  <1> QED BY <1>2, <1>3, <1>4, <1>5, AloneStep

(* edit_records(): the host is still as it was shown. *)
LEMMA EditKeeps ==
    ASSUME Mcp!McpAssumption, CallInv, NEW c \in Call, Mcp!Edit(c)
    PROVE  CallInv'
  <1>1. Mcp!TypeOK /\ CallOK(c)
    BY DEF CallInv
  <1>2. Mcp!TypeOK'
    BY <1>1 DEF Mcp!McpAssumption, Mcp!TypeOK, Mcp!Edit, Mcp!Live, Mcp!Approved, Mcp!At, Mcp!Goes,
                Mcp!Place, Mcp!Decision, Mcp!rules,
                Mcp!stop, Mcp!window, Mcp!own, Mcp!hist
  <1>3. Alone(c) /\ Settled(c)
    BY <1>1 DEF Mcp!TypeOK, Mcp!Edit, Mcp!Live, Mcp!Approved, Mcp!At, Mcp!Goes, Alone, Settled,
                Mcp!rules, Mcp!stop, Mcp!window, Mcp!own,
                Mcp!hist
  <1>4. CallOK(c)'
    BY <1>1 DEF Mcp!McpAssumption, Mcp!TypeOK, CallOK, Mcp!Edit, Mcp!Editable, Mcp!Live,
                Mcp!Approved, Mcp!At, Mcp!Goes, Mcp!Place, Registered,
                PastApproval, PastCheck,
                MayGo, ToCancel, Mcp!Permitted, Mcp!Kind, Mcp!rules, Mcp!stop, Mcp!window,
                Mcp!own, Mcp!hist
  <1>5. ran' = ran /\ created' = created
    BY DEF Mcp!Edit, Mcp!hist
  <1> QED BY <1>2, <1>3, <1>4, <1>5, AloneStep

(* The guard's drop. *)
LEMMA EndKeeps ==
    ASSUME Mcp!McpAssumption, CallInv, NEW c \in Call, Mcp!End(c)
    PROVE  CallInv'
  <1>1. Mcp!TypeOK /\ CallOK(c)
    BY DEF CallInv
  <1>2. Mcp!TypeOK'
    BY <1>1 DEF Mcp!McpAssumption, Mcp!TypeOK, Mcp!End, Mcp!At, Mcp!Goes, Mcp!Place, Mcp!Decision,
                Mcp!rules, Mcp!stop, Mcp!window, Mcp!own,
                Mcp!hist
  <1>3. Alone(c) /\ Settled(c)
    BY <1>1 DEF Mcp!TypeOK, Mcp!End, Mcp!At, Mcp!Goes, Alone, Settled, Mcp!rules, Mcp!stop,
                Mcp!window, Mcp!own, Mcp!hist
  <1>4. CallOK(c)'
    BY <1>1 DEF Mcp!McpAssumption, Mcp!TypeOK, CallOK, Mcp!End, Mcp!At, Mcp!Goes, Mcp!Place,
                Registered, PastApproval,
                PastCheck,
                MayGo, ToCancel, Mcp!Permitted, Mcp!Kind, Mcp!rules, Mcp!stop, Mcp!window,
                Mcp!own, Mcp!hist
  <1>5. ran' = ran /\ created' = created
    BY DEF Mcp!End, Mcp!hist
  <1> QED BY <1>2, <1>3, <1>4, <1>5, AloneStep

-----------------------------------------------------------------------------
(* The thread that looks at the policy cancels its call. *)
LEMMA WatchKeeps ==
    ASSUME Mcp!McpAssumption, CallInv, NEW c \in Call, Mcp!Watch(c)
    PROVE  CallInv'
  <1>1. Mcp!TypeOK /\ CallOK(c)
    BY DEF CallInv
  <1>2. Mcp!TypeOK'
    BY <1>1 DEF Mcp!McpAssumption, Mcp!TypeOK, Mcp!Watch, Mcp!Decision, Mcp!rules, Mcp!stop,
                Mcp!window, Mcp!own, Mcp!hist
  <1>3. Alone(c) /\ Settled(c)
    BY <1>1 DEF Mcp!TypeOK, Mcp!Watch, Alone, Settled, Mcp!rules, Mcp!stop, Mcp!window, Mcp!own,
                Mcp!hist
  <1>4. CallOK(c)'
    BY <1>1 DEF Mcp!McpAssumption, Mcp!TypeOK, CallOK, Mcp!Watch, Mcp!Permitted, MayGo, ToCancel,
                Mcp!Kind, Mcp!rules, Mcp!stop,
                Mcp!window, Mcp!own, Mcp!hist
  <1>5. ran' = ran /\ created' = created
    BY DEF Mcp!Watch, Mcp!hist
  <1> QED BY <1>2, <1>3, <1>4, <1>5, AloneStep

(* serve_mcp(): the connection ends. *)
LEMMA ClientCancelsKeeps ==
    ASSUME Mcp!McpAssumption, CallInv, NEW c \in Call, Mcp!ClientCancels(c)
    PROVE  CallInv'
  <1>1. Mcp!TypeOK /\ CallOK(c)
    BY DEF CallInv
  <1>2. Mcp!TypeOK'
    BY <1>1 DEF Mcp!McpAssumption, Mcp!TypeOK, Mcp!ClientCancels, Mcp!Decision, Mcp!rules,
                Mcp!stop, Mcp!window, Mcp!own, Mcp!hist
  <1>3. Alone(c) /\ Settled(c)
    BY <1>1 DEF Mcp!TypeOK, Mcp!ClientCancels, Alone, Settled, Mcp!rules, Mcp!stop, Mcp!window,
                Mcp!own, Mcp!hist
  <1>4. CallOK(c)'
    BY <1>1 DEF Mcp!McpAssumption, Mcp!TypeOK, CallOK, Mcp!ClientCancels, Mcp!Records,
                Mcp!Permitted, MayGo, ToCancel,
                Mcp!Kind, Mcp!rules, Mcp!stop,
                Mcp!window, Mcp!own, Mcp!hist
  <1>5. ran' = ran /\ created' = created
    BY DEF Mcp!ClientCancels, Mcp!hist
  <1> QED BY <1>2, <1>3, <1>4, <1>5, AloneStep

(* cancel_request(), the flag or the note for later. *)
LEMMA CancelRunKeeps ==
    ASSUME Mcp!McpAssumption, CallInv, NEW c \in Call, NEW w \in Mcp!Canceller,
           Mcp!CancelRun(c, w)
    PROVE  CallInv'
  <1>1. Mcp!TypeOK /\ CallOK(c)
    BY DEF CallInv
  <1>2. Mcp!TypeOK'
    <2>1. early' \subseteq Call /\ cancel' \in [Call -> BOOLEAN] /\ hushed' \subseteq Call
      BY <1>1 DEF Mcp!TypeOK, Mcp!CancelRun
    <2>2. canceller' \in [Call -> [Mcp!Canceller -> {"no", "pending", "done"}]]
      BY <1>1 DEF Mcp!TypeOK, Mcp!CancelRun
    <2> QED BY <1>1, <2>1, <2>2 DEF Mcp!TypeOK, Mcp!CancelRun, Mcp!rules, Mcp!window, Mcp!own
  <1>3. Alone(c) /\ Settled(c)
    BY <1>1 DEF Mcp!TypeOK, Mcp!CancelRun, Alone, Settled, Mcp!rules, Mcp!stop, Mcp!window,
                Mcp!own, Mcp!hist
  <1>4. CallOK(c)'
    BY <1>1 DEF Mcp!McpAssumption, Mcp!TypeOK, CallOK, Mcp!CancelRun, Mcp!Permitted, MayGo,
                ToCancel, Mcp!Kind, Mcp!rules,
                Mcp!stop,
                Mcp!window, Mcp!own, Mcp!hist
  <1>5. ran' = ran /\ created' = created
    BY DEF Mcp!CancelRun, Mcp!hist
  <1> QED BY <1>2, <1>3, <1>4, <1>5, AloneStep

(* cancel_request(), the window. *)
LEMMA CancelWindowKeeps ==
    ASSUME Mcp!McpAssumption, CallInv, NEW c \in Call, NEW w \in Mcp!Canceller,
           Mcp!CancelWindow(c, w)
    PROVE  CallInv'
  <1>1. Mcp!TypeOK /\ CallOK(c)
    BY DEF CallInv
  <1>2. Mcp!TypeOK'
    BY <1>1 DEF Mcp!McpAssumption, Mcp!TypeOK, Mcp!CancelWindow, Mcp!Decision, Mcp!rules,
                Mcp!stop, Mcp!window, Mcp!own, Mcp!hist
  <1>3. Alone(c) /\ Settled(c)
    BY <1>1 DEF Mcp!TypeOK, Mcp!CancelWindow, Alone, Settled, Mcp!rules, Mcp!stop, Mcp!window,
                Mcp!own, Mcp!hist
  <1>4. CallOK(c)'
    BY <1>1 DEF Mcp!McpAssumption, Mcp!TypeOK, CallOK, Mcp!CancelWindow, Mcp!Permitted, MayGo,
                ToCancel, Mcp!Kind,
                Mcp!rules, Mcp!stop,
                Mcp!window, Mcp!own, Mcp!hist
  <1>5. ran' = ran /\ created' = created
    BY DEF Mcp!CancelWindow, Mcp!hist
  <1> QED BY <1>2, <1>3, <1>4, <1>5, AloneStep

(* A window's deadline passes. *)
LEMMA CallExpireKeeps ==
    ASSUME Mcp!McpAssumption, CallInv, NEW c \in Call, Mcp!Expire(c)
    PROVE  CallInv'
  <1>1. Mcp!TypeOK /\ CallOK(c)
    BY DEF CallInv
  <1>2. Mcp!TypeOK'
    BY <1>1 DEF Mcp!McpAssumption, Mcp!TypeOK, Mcp!Expire, Mcp!Decision, Mcp!rules, Mcp!stop,
                Mcp!window, Mcp!own, Mcp!hist
  <1>3. Alone(c) /\ Settled(c)
    BY <1>1 DEF Mcp!TypeOK, Mcp!Expire, Alone, Settled, Mcp!rules, Mcp!stop, Mcp!window, Mcp!own,
                Mcp!hist
  <1>4. CallOK(c)'
    BY <1>1 DEF Mcp!McpAssumption, Mcp!TypeOK, CallOK, Mcp!Expire, Mcp!Permitted, MayGo, ToCancel,
                Mcp!Kind, Mcp!rules,
                Mcp!stop,
                Mcp!window, Mcp!own, Mcp!hist
  <1>5. ran' = ran /\ created' = created
    BY DEF Mcp!Expire, Mcp!hist
  <1> QED BY <1>2, <1>3, <1>4, <1>5, AloneStep

(* resolve_approval(): an answer in time. *)
LEMMA CallResolveKeeps ==
    ASSUME Mcp!McpAssumption, CallInv, NEW c \in Call, NEW a \in {"allow", "deny"}, Mcp!Resolve(c, a)
    PROVE  CallInv'
  <1>1. Mcp!TypeOK /\ CallOK(c)
    BY DEF CallInv
  <1>2. Mcp!TypeOK'
    BY <1>1 DEF Mcp!McpAssumption, Mcp!TypeOK, Mcp!Resolve, Mcp!Decision, Mcp!rules, Mcp!stop,
                Mcp!window, Mcp!own, Mcp!hist
  <1>3. Alone(c) /\ Settled(c)
    BY <1>1 DEF Mcp!TypeOK, Mcp!Resolve, Alone, Settled, Mcp!rules, Mcp!stop, Mcp!window, Mcp!own,
                Mcp!hist
  <1>4. CallOK(c)'
    BY <1>1 DEF Mcp!McpAssumption, Mcp!TypeOK, CallOK, Mcp!Resolve, Mcp!Permitted, MayGo,
                ToCancel, Mcp!Kind, Mcp!rules,
                Mcp!stop, Mcp!window, Mcp!own, Mcp!hist
  <1>5. ran' = ran /\ created' = created
    BY DEF Mcp!Resolve
  <1> QED BY <1>2, <1>3, <1>4, <1>5, AloneStep

(* exec(), and execute_ssh(): what runs, runs where it was approved. *)
LEMMA StartKeeps ==
    ASSUME Mcp!McpAssumption, CallInv, NEW c \in Call, Mcp!Start(c)
    PROVE  CallInv'
  <1>1. Mcp!TypeOK /\ CallOK(c) /\ History
    BY DEF CallInv
  <1> DEFINE new == [call |-> c, on |-> IF Mcp!Kind(c, {"exec"}) THEN target[c]
                                       ELSE endpoint[HostOf[c]]]
  <1>2. new \in [call : Call, on : 0..MaxChanges] /\ ran' = ran \cup {new}
    BY <1>1 DEF Mcp!McpAssumption, Mcp!TypeOK, Mcp!Start
  <1>3. Mcp!TypeOK'
    <2> HIDE DEF new
    <2> QED BY <1>1, <1>2 DEF Mcp!TypeOK, Mcp!Start, Mcp!At, Mcp!Goes, Mcp!Place, Mcp!rules,
                Mcp!stop, Mcp!window, Mcp!own
  <1>4. Alone(c) /\ Settled(c)
    BY <1>1 DEF Mcp!TypeOK, Mcp!Start, Mcp!At, Mcp!Goes, Alone, Settled, Mcp!rules, Mcp!stop,
                Mcp!window, Mcp!own
  <1>5. CallOK(c)'
    BY <1>1 DEF Mcp!TypeOK, CallOK, Mcp!Start, Mcp!At, Mcp!Goes, Mcp!Place, Registered,
                PastApproval, PastCheck,
                Mcp!Permitted, MayGo, ToCancel, Mcp!Kind, Mcp!rules, Mcp!stop, Mcp!window, Mcp!own
  <1>6. ASSUME NEW r, r = new PROVE RanOK(r)'
    BY <1>1, <1>6 DEF Mcp!TypeOK, CallOK, Mcp!Start, Mcp!At, Mcp!Goes, PastApproval, MayGo,
                Mcp!Kind, RanOK, Mcp!own
  <1>7. created' = created
    BY DEF Mcp!Start
  <1>8. (\A r \in ran' \ ran : RanOK(r)') /\ (\A s \in created' \ created : SavedOK(s)')
    <2> HIDE DEF new
    <2> QED BY <1>2, <1>6, <1>7
  <1> QED BY <1>3, <1>4, <1>5, <1>8, AloneStep

(* create(): the host is saved as it was shown. *)
LEMMA SaveKeeps ==
    ASSUME Mcp!McpAssumption, CallInv, NEW c \in Call, Mcp!Save(c)
    PROVE  CallInv'
  <1>1. Mcp!TypeOK /\ CallOK(c) /\ History
    BY DEF CallInv
  <1> DEFINE new == [call |-> c, on |-> endpoint[HostOf[c]]]
  <1>2. new \in [call : Call, on : 0..MaxChanges] /\ created' \in {created, created \cup {new}}
    BY <1>1 DEF Mcp!McpAssumption, Mcp!TypeOK, Mcp!Save
  <1>3. Mcp!TypeOK'
    <2> HIDE DEF new
    <2> QED BY <1>1, <1>2 DEF Mcp!TypeOK, Mcp!Save, Mcp!At, Mcp!Goes, Mcp!Place, Mcp!rules,
                Mcp!stop, Mcp!window, Mcp!own
  <1>4. Alone(c) /\ Settled(c)
    BY <1>1 DEF Mcp!TypeOK, Mcp!Save, Mcp!At, Mcp!Goes, Alone, Settled, Mcp!rules, Mcp!stop,
                Mcp!window, Mcp!own
  <1>5. CallOK(c)'
    BY <1>1 DEF Mcp!TypeOK, CallOK, Mcp!Save, Mcp!At, Mcp!Goes, Mcp!Place, Registered,
                PastApproval, PastCheck,
                Mcp!Permitted, MayGo, ToCancel, Mcp!Kind, Mcp!rules, Mcp!stop, Mcp!window, Mcp!own
  <1>6. ASSUME NEW s, s = new PROVE SavedOK(s)'
    BY <1>1, <1>6 DEF Mcp!TypeOK, CallOK, Mcp!Save, Mcp!At, Mcp!Goes, PastApproval, MayGo,
                Mcp!Kind, SavedOK, Mcp!own
  <1>7. ran' = ran
    BY DEF Mcp!Save
  <1>8. (\A r \in ran' \ ran : RanOK(r)') /\ (\A s \in created' \ created : SavedOK(s)')
    <2> HIDE DEF new
    <2> QED BY <1>2, <1>6, <1>7
  <1> QED BY <1>3, <1>4, <1>5, <1>8, AloneStep

-----------------------------------------------------------------------------
(* A step of the user or of a round that moves no call. *)
LEMMA UserStep ==
    ASSUME CallInv, Mcp!TypeOK', UNCHANGED <<Mcp!own, place, Mcp!hist>>, \A c \in Call : CallOK(c)'
    PROVE  CallInv'
  BY DEF CallInv, History, RanOK, SavedOK, MayGo, Mcp!Kind, Mcp!own, Mcp!hist

(* A command saves the policy.  What it withdraws, it is about to cancel. *)
LEMMA SetKeeps ==
    ASSUME Mcp!McpAssumption, CallInv, NEW p \in Mcp!Policy, NEW of \in Host \cup {"none", "all"},
           Mcp!Set(p, of), of # "all" => p.enabled = policy.enabled \/ p.enabled,
           of # "all" => p.mode = policy.mode,
           of # "all" => \A h \in policy.allowed : h \in p.allowed \/ h = of
    PROVE  CallInv'
  <1>1. Mcp!TypeOK /\ UNCHANGED <<endpoint, Mcp!stop, Mcp!window, Mcp!own, place, Mcp!hist>>
        /\ user = Mcp!Idle
    BY DEF CallInv, Mcp!Set
  <1>2. Mcp!TypeOK'
    BY <1>1 DEF Mcp!McpAssumption, Mcp!TypeOK, Mcp!Set, Mcp!Idle, Mcp!stop, Mcp!window, Mcp!own,
                Mcp!hist
  <1>3. ASSUME NEW c \in Call PROVE CallOK(c)'
    <2>1. CallOK(c)
      BY DEF CallInv
    <2> QED BY <1>1, <2>1 DEF Mcp!McpAssumption, Mcp!TypeOK, CallOK, Mcp!Set, Mcp!Idle,
                Mcp!Permitted, MayGo,
                ToCancel, Mcp!Kind,
                              Mcp!stop, Mcp!window, Mcp!own, Mcp!hist
  <1> QED BY <1>1, <1>2, <1>3, UserStep
(* mcp_set_enabled(), mcp_set_approval_mode(), mcp_set_host_allowed(). *)
LEMMA SettingsKeep ==
    ASSUME Mcp!McpAssumption, CallInv,
           \/ \E b \in BOOLEAN : Mcp!SetEnabled(b)
           \/ \E m \in {"ask", "auto"} : Mcp!SetMode(m)
           \/ \E h \in Host : Mcp!Allow(h) \/ Mcp!Revoke(h)
    PROVE  CallInv'
  <1>1. policy \in Mcp!Policy
    BY DEF CallInv, Mcp!TypeOK
  <1>2. ASSUME NEW b \in BOOLEAN, Mcp!SetEnabled(b) PROVE CallInv'
    <2> DEFINE p == [policy EXCEPT !.enabled = b]
               of == IF b THEN "none" ELSE "all"
    <2>1. p \in Mcp!Policy /\ p.mode = policy.mode /\ p.allowed = policy.allowed
          /\ p.enabled = b
      BY <1>1 DEF Mcp!Policy
    <2>2. Mcp!Set(p, of)
      BY <1>2 DEF Mcp!SetEnabled
    <2>3. of \in Host \cup {"none", "all"} /\ (of # "all" => b)
      OBVIOUS
    <2> HIDE DEF p, of
    <2> QED BY <2>1, <2>2, <2>3, SetKeeps
  <1>3. ASSUME NEW m \in {"ask", "auto"}, Mcp!SetMode(m) PROVE CallInv'
    <2> DEFINE p == [policy EXCEPT !.mode = m]
    <2>1. p \in Mcp!Policy
      BY <1>1 DEF Mcp!Policy
    <2>2. Mcp!Set(p, "all")
      BY <1>3 DEF Mcp!SetMode
    <2> HIDE DEF p
    <2> QED BY <2>1, <2>2, SetKeeps
  <1>4. ASSUME NEW h \in Host, Mcp!Allow(h) PROVE CallInv'
    <2> DEFINE p == [policy EXCEPT !.allowed = policy.allowed \cup {h}]
    <2>1. /\ p \in Mcp!Policy /\ p.mode = policy.mode /\ p.enabled = policy.enabled
          /\ \A g \in policy.allowed : g \in p.allowed
      BY <1>1 DEF Mcp!Policy
    <2>2. Mcp!Set(p, "none")
      BY <1>4 DEF Mcp!Allow
    <2> HIDE DEF p
    <2> QED BY <2>1, <2>2, SetKeeps
  <1>5. ASSUME NEW h \in Host, Mcp!Revoke(h) PROVE CallInv'
    <2> DEFINE p == [policy EXCEPT !.allowed = policy.allowed \ {h}]
    <2>1. /\ p \in Mcp!Policy /\ p.mode = policy.mode /\ p.enabled = policy.enabled
          /\ \A g \in policy.allowed : g \in p.allowed \/ g = h
      BY <1>1 DEF Mcp!Policy
    <2>2. Mcp!Set(p, h)
      BY <1>5 DEF Mcp!Revoke
    <2> HIDE DEF p
    <2> QED BY <2>1, <2>2, SetKeeps
  <1> QED BY <1>2, <1>3, <1>4, <1>5

(* A host is edited; not while a create that has compared it is saving. *)
LEMMA ChangeEndpointKeeps ==
    ASSUME Mcp!McpAssumption, CallInv, NEW h \in Host, Mcp!ChangeEndpoint(h)
    PROVE  CallInv'
  <1>1. Mcp!TypeOK /\ UNCHANGED <<Mcp!rules, Mcp!stop, Mcp!window, Mcp!own, place, Mcp!hist>>
    BY DEF CallInv, Mcp!ChangeEndpoint
  <1>2. Mcp!TypeOK'
    <2>1. endpoint' \in [Host -> 0..MaxChanges]
      BY <1>1 DEF Mcp!McpAssumption, Mcp!TypeOK, Mcp!ChangeEndpoint
    <2> QED BY <1>1, <2>1 DEF Mcp!TypeOK, Mcp!rules, Mcp!stop, Mcp!window, Mcp!own, Mcp!hist
  <1>3. ASSUME NEW c \in Call PROVE CallOK(c)'
    <2>1. CallOK(c) /\ place[c] # "save"
      BY DEF CallInv, Mcp!ChangeEndpoint, Mcp!At
    <2> QED BY <1>1, <2>1 DEF CallOK, Mcp!Permitted, MayGo, ToCancel, Mcp!Kind, Mcp!rules,
                Mcp!stop, Mcp!window,
                              Mcp!own, Mcp!hist
  <1> QED BY <1>1, <1>2, <1>3, UserStep

(* cancel_records(): every call past its check that lost its permission is *)
(* among the active ones.                                                  *)
LEMMA CancelActiveKeeps ==
    ASSUME Mcp!McpAssumption, CallInv, Mcp!CancelActive
    PROVE  CallInv'
  <1>1. /\ Mcp!TypeOK
        /\ UNCHANGED <<policy, settings, endpoint, active, early, canceller, Mcp!window>>
        /\ UNCHANGED <<Mcp!own, place, Mcp!hist>> /\ user.at = "cancel"
        /\ user' = [user EXCEPT !.at = "deny"]
    BY DEF CallInv, Mcp!CancelActive
  <1>2. user \in [at : {"cancel", "deny"}, of : Host \cup {"all"}]
    BY <1>1 DEF Mcp!TypeOK, Mcp!Idle
  <1>3. user' \in [at : {"cancel", "deny"}, of : Host \cup {"all"}] /\ user'.at = "deny"
    BY <1>1, <1>2
  <1>4. /\ cancel' \in [Call -> BOOLEAN]
        /\ \A c \in Call : /\ cancel[c] => cancel'[c]
                           /\ c \in active /\ Mcp!Kind(c, {"exec"}) /\ ToCancel(c) => cancel'[c]
    BY <1>1 DEF Mcp!TypeOK, Mcp!CancelActive, Mcp!Records, Mcp!Kind, Mcp!Meant, ToCancel
  <1>5. Mcp!TypeOK'
    BY <1>1, <1>3, <1>4 DEF Mcp!TypeOK, Mcp!window, Mcp!own, Mcp!hist
  <1>6. ASSUME NEW c \in Call PROVE CallOK(c)'
    <2>1. CallOK(c)
      BY DEF CallInv
    <2>2. place[c] \in PastCheck => c \in active
      BY <2>1 DEF CallOK, Registered, PastCheck, Mcp!Place
    <2>3. /\ Mcp!Kind(c, {"exec"}) /\ place[c] \in PastCheck
          /\ ~Mcp!Permitted(c) \/ policy.mode # snap[c].mode
          => cancel'[c]
      BY <1>4, <2>1, <2>2 DEF CallOK
    <2> QED BY <1>1, <2>1, <2>3 DEF CallOK, Mcp!Permitted, MayGo, Mcp!Kind, Mcp!window, Mcp!own,
                Mcp!hist
  <1> QED BY <1>1, <1>5, <1>6, UserStep

(* deny_all_pending(): no window gets an allowance from it. *)
LEMMA DenyPendingKeeps ==
    ASSUME Mcp!McpAssumption, CallInv, Mcp!DenyPending
    PROVE  CallInv'
  <1>1. /\ Mcp!TypeOK
        /\ UNCHANGED <<policy, settings, endpoint, Mcp!stop, expired, Mcp!own, place, Mcp!hist>>
        /\ user.at = "deny" /\ user' = Mcp!Idle
        /\ pending' \subseteq pending
        /\ sent' \in [Call -> Mcp!Decision]
        /\ \A c \in Call : sent'[c] \in {sent[c], "deny"}
    BY DEF CallInv, Mcp!DenyPending, Mcp!TypeOK, Mcp!Decision
  <1>2. Mcp!TypeOK'
    BY <1>1 DEF Mcp!TypeOK, Mcp!stop, Mcp!own, Mcp!hist
  <1>3. ASSUME NEW c \in Call PROVE CallOK(c)'
    <2>1. CallOK(c) /\ ~ToCancel(c)
      BY <1>1 DEF CallInv, ToCancel
    <2> QED BY <1>1, <2>1 DEF CallOK, Mcp!Permitted, MayGo, Mcp!Kind, Mcp!stop, Mcp!own, Mcp!hist
  <1> QED BY <1>1, <1>2, <1>3, UserStep

-----------------------------------------------------------------------------
(* Before any call. *)
LEMMA IInvInit ==
    ASSUME Mcp!McpAssumption, Mcp!Init
    PROVE  CallInv
  <1>1. Mcp!TypeOK
    BY DEF Mcp!McpAssumption, Mcp!Init, Mcp!TypeOK, Mcp!Idle, Mcp!Place, Mcp!Decision
  <1>2. \A c \in Call : CallOK(c)
    BY DEF Mcp!Init, CallOK, Registered, PastApproval, PastCheck, Mcp!Place
  <1>3. History
    BY DEF Mcp!Init, History
  <1> QED BY <1>1, <1>2, <1>3 DEF CallInv

(* Every step keeps the inductive invariant. *)
LEMMA IInvStep ==
    ASSUME Mcp!McpAssumption, CallInv, [Mcp!Next]_(Mcp!vars)
    PROVE  CallInv'
  <1>1. ASSUME NEW c \in Call, Mcp!Thread(c) PROVE CallInv'
    BY <1>1, DispatchKeeps, ReadPolicyKeeps, CaptureKeeps, RegisterKeeps, CallDecideKeeps,
       InsertKeeps, CallRecheckKeeps, ReceiveKeeps, UnpendKeeps, CallCheckKeeps, ResolveTargetKeeps,
       ConnectKeeps, StartKeeps, FinishKeeps, EditKeeps, SaveKeeps, EndKeeps DEF Mcp!Thread
  <1>2. ASSUME NEW c \in Call,
               \/ Mcp!Watch(c) \/ Mcp!ClientCancels(c) \/ Mcp!Expire(c)
               \/ \E w \in Mcp!Canceller : Mcp!CancelRun(c, w) \/ Mcp!CancelWindow(c, w)
               \/ \E a \in {"allow", "deny"} : Mcp!Resolve(c, a)
        PROVE  CallInv'
    BY <1>2, WatchKeeps, ClientCancelsKeeps, CancelRunKeeps, CancelWindowKeeps, CallExpireKeeps,
       CallResolveKeeps
  <1>3. CASE \/ \E b \in BOOLEAN : Mcp!SetEnabled(b)
             \/ \E m \in {"ask", "auto"} : Mcp!SetMode(m)
             \/ \E h \in Host : Mcp!Allow(h) \/ Mcp!Revoke(h)
    BY <1>3, SettingsKeep
  <1>4. CASE (\E h \in Host : Mcp!ChangeEndpoint(h)) \/ Mcp!CancelActive \/ Mcp!DenyPending
    BY <1>4, ChangeEndpointKeeps, CancelActiveKeeps, DenyPendingKeeps
  <1>5. CASE UNCHANGED Mcp!vars
    BY <1>5 DEF CallInv, Mcp!TypeOK, CallOK, History, RanOK, SavedOK, Mcp!Permitted, MayGo,
                ToCancel, Mcp!Kind,
                Mcp!vars, Mcp!rules, Mcp!stop, Mcp!window, Mcp!own, Mcp!hist
  <1> QED BY <1>1, <1>2, <1>3, <1>4, <1>5 DEF Mcp!Next

-----------------------------------------------------------------------------
(* CancellationState.early is not full, so that the next note drops none. *)
NotesFit == Cardinality(early) < EarlyLimit

(* A run that was cancelled before it was registered: the note for it is   *)
(* there when it registers.                                                *)
NoteKept ==
    \A c \in hushed :
        /\ Mcp!Kind(c, {"run"}) /\ \A r \in ran : r.call # c
        /\ place[c] \in {"new", "capture", "register"} => c \in early
        /\ place[c] \in {"new", "capture", "register", "over"}

(* Steps that touch neither notes nor history: the thread of a run goes on *)
(* from where it is.                                                       *)
LEMMA NoteFrame ==
    ASSUME NoteKept, UNCHANGED <<early, hushed, ran>>,
           \A c \in hushed : \/ place'[c] = place[c] \/ place'[c] = "over"
                             \/ place[c] # "over" /\ place'[c] \in {"capture", "register"}
    PROVE  NoteKept'
  BY DEF NoteKept, Mcp!Kind

(* While the notes are not full, no note is dropped for another. *)
LEMMA NoteStep ==
    ASSUME Mcp!McpAssumption, NotesFit, CallInv, NoteKept, [Mcp!Next]_(Mcp!vars)
    PROVE  NoteKept'
  <1>1. Mcp!TypeOK
    BY DEF CallInv
  <1>2. ASSUME NEW c \in Call, Mcp!Register(c) PROVE NoteKept'
    <2>1. /\ early' = early \ {c} /\ place[c] = "register"
          /\ place' = [place EXCEPT ![c] = IF c \in early THEN "over" ELSE "decide"]
          /\ UNCHANGED Mcp!hist
      BY <1>2 DEF Mcp!Register, Mcp!At, Mcp!Goes
    <2> QED BY <1>1, <2>1 DEF NoteKept, Mcp!TypeOK, Mcp!Kind, Mcp!hist
  <1>3. ASSUME NEW c \in Call, NEW w \in Mcp!Canceller, Mcp!CancelRun(c, w) PROVE NoteKept'
    <2>1. /\ Mcp!Kind(c, {"run"}) /\ UNCHANGED <<place, ran>>
          /\ hushed' = IF place[c] \in {"new", "capture", "register"} THEN hushed \cup {c} ELSE hushed
      BY <1>3 DEF Mcp!CancelRun
    <2>2. early' = IF c \in active THEN early ELSE early \cup {c}
      <3>1. early \subseteq Call /\ IsFiniteSet(Call)
        BY <1>1, SameSizes DEF Mcp!TypeOK, Mcp!McpAssumption
      <3>2. Cardinality(early) \in Nat
        BY <3>1, FS_Subset, FS_CardinalityType
      <3>3. ~(Cardinality(early) >= EarlyLimit)
        BY <3>2 DEF NotesFit, Mcp!McpAssumption
      <3> QED BY <1>3, <3>3, SameSizes DEF Mcp!CancelRun
    <2>3. CallOK(c) /\ History
      BY DEF CallInv
    <2>4. place[c] \in {"new", "capture", "register"} =>
             c \notin active /\ \A r \in ran : r.call # c
      BY <2>3 DEF CallOK, History, RanOK, Registered, Mcp!Place
    <2> QED BY <1>1, <2>1, <2>2, <2>4 DEF NoteKept, Mcp!TypeOK, Mcp!Kind
  <1>4. ASSUME NEW c \in Call, NEW w \in Mcp!Canceller, Mcp!CancelWindow(c, w) PROVE NoteKept'
    <2>1. UNCHANGED <<early, place, Mcp!hist>>
      BY <1>4 DEF Mcp!CancelWindow
    <2> QED BY <2>1 DEF NoteKept, Mcp!Kind, Mcp!hist
  <1>5. ASSUME NEW c \in Call, Mcp!Start(c) PROVE NoteKept'
    <2>1. /\ place[c] = "start" /\ place' = [place EXCEPT ![c] = "running"]
          /\ \A r \in ran' : r \in ran \/ r.call = c
          /\ UNCHANGED <<early, hushed>>
      BY <1>5 DEF Mcp!Start, Mcp!At, Mcp!Goes, Mcp!stop
    <2> QED BY <1>1, <2>1 DEF NoteKept, Mcp!TypeOK, Mcp!Kind
  <1>6. ASSUME NEW c \in Call, Mcp!Thread(c), ~Mcp!Register(c), ~Mcp!Start(c) PROVE NoteKept'
    <2>1. UNCHANGED <<early, hushed, ran>>
      BY <1>6 DEF Mcp!Thread, Mcp!Dispatch, Mcp!ReadPolicy, Mcp!Capture, Mcp!Decide, Mcp!Insert,
                Mcp!Recheck, Mcp!Receive, Mcp!Unpend,
                  Mcp!Check, Mcp!ResolveTarget, Mcp!Connect, Mcp!Finish, Mcp!Edit, Mcp!Save,
                  Mcp!End, Mcp!stop, Mcp!hist
    <2>2. \A e \in Call \ {c} : place'[e] = place[e]
      BY <1>1, <1>6 DEF Mcp!TypeOK, Mcp!Thread, Mcp!Dispatch, Mcp!ReadPolicy, Mcp!Capture,
                Mcp!Decide, Mcp!Insert, Mcp!Recheck,
                        Mcp!Receive, Mcp!Unpend, Mcp!Check, Mcp!ResolveTarget, Mcp!Connect,
                        Mcp!Finish, Mcp!Edit, Mcp!Save, Mcp!End,
                        Mcp!Goes
    <2>3. c \in hushed => place[c] \in {"new", "capture"}
      BY <1>6 DEF NoteKept, Mcp!Thread, Mcp!Dispatch, Mcp!ReadPolicy, Mcp!Capture, Mcp!Decide,
                Mcp!Insert, Mcp!Recheck,
                  Mcp!Receive, Mcp!Unpend, Mcp!Check, Mcp!ResolveTarget, Mcp!Connect, Mcp!Finish,
                  Mcp!Edit, Mcp!Save, Mcp!End, Mcp!At
    <2>4. c \in hushed => place'[c] \in {"capture", "register", "over"}
      <3>1. c \in hushed => (Mcp!Dispatch(c) \/ Mcp!Capture(c)) /\ KindOf[c] = "run"
        BY <1>6, <2>3 DEF NoteKept, Mcp!Kind, Mcp!Thread, Mcp!ReadPolicy, Mcp!Decide, Mcp!Insert,
                Mcp!Recheck, Mcp!Receive,
                          Mcp!Unpend, Mcp!Check, Mcp!ResolveTarget, Mcp!Connect, Mcp!Finish,
                          Mcp!Edit, Mcp!Save, Mcp!End, Mcp!At
      <3> QED BY <1>1, <3>1 DEF Mcp!Dispatch, Mcp!Capture, Mcp!Goes, Mcp!Kind, Mcp!TypeOK
    <2>5. hushed \subseteq Call
      BY <1>1 DEF Mcp!TypeOK
    <2> QED BY <2>1, <2>2, <2>3, <2>4, <2>5, NoteFrame
  <1>7. ASSUME \/ \E c \in Call : \/ Mcp!Watch(c) \/ Mcp!ClientCancels(c) \/ Mcp!Expire(c)
                                  \/ \E a \in {"allow", "deny"} : Mcp!Resolve(c, a)
               \/ \E b \in BOOLEAN : Mcp!SetEnabled(b)
               \/ \E m \in {"ask", "auto"} : Mcp!SetMode(m)
               \/ \E h \in Host : Mcp!Allow(h) \/ Mcp!Revoke(h) \/ Mcp!ChangeEndpoint(h)
               \/ Mcp!CancelActive \/ Mcp!DenyPending
               \/ UNCHANGED Mcp!vars
        PROVE  NoteKept'
    <2>1. UNCHANGED <<early, hushed, ran, place>>
      BY <1>7 DEF Mcp!Watch, Mcp!ClientCancels, Mcp!Expire, Mcp!Resolve, Mcp!SetEnabled,
                Mcp!SetMode, Mcp!Allow, Mcp!Revoke, Mcp!Set,
                  Mcp!ChangeEndpoint, Mcp!CancelActive, Mcp!DenyPending, Mcp!vars, Mcp!stop,
                  Mcp!hist
    <2> QED BY <2>1, NoteFrame
  <1> QED BY <1>2, <1>3, <1>4, <1>5, <1>6, <1>7 DEF Mcp!Next

-----------------------------------------------------------------------------
(* The inductive invariant of the calls: what each place of a thread       *)
(* relies on, whatever the user, the clients and the clock do meanwhile.   *)
THEOREM CallInvariance ==
    ASSUME Mcp!McpAssumption
    PROVE  Mcp!Spec => []CallInv
  <1>1. Mcp!Init => CallInv
    BY IInvInit
  <1>2. CallInv /\ [Mcp!Next]_(Mcp!vars) => CallInv'
    BY IInvStep
  <1> QED BY <1>1, <1>2, PTL DEF Mcp!Spec

(* The state of the calls stays within its types, and a window belongs to  *)
(* a call that waits for it.                                               *)
THEOREM CallTypeCorrect ==
    ASSUME Mcp!McpAssumption
    PROVE  Mcp!Spec => []Mcp!TypeOK
  <1>1. Mcp!Spec => []CallInv
    BY CallInvariance
  <1>2. CallInv => Mcp!TypeOK
    BY DEF CallInv
  <1> QED BY <1>1, <1>2, PTL

(* dispatch() to the command or the save: nothing is run on a host or      *)
(* saved as a host that the user did not allow as it was shown.            *)
THEOREM ConsentFirst ==
    ASSUME Mcp!McpAssumption
    PROVE  Mcp!Spec => []Mcp!ConsentGiven
  <1>1. Mcp!Spec => []CallInv
    BY CallInvariance
  <1>2. CallInv => Mcp!ConsentGiven
    BY DEF CallInv, History, RanOK, SavedOK, MayGo, Mcp!ConsentGiven, Mcp!Kind
  <1> QED BY <1>1, <1>2, PTL

(* mcp_set_enabled(), mcp_set_approval_mode() and mcp_set_host_allowed():  *)
(* when the command has returned, no exec that it took the permission from *)
(* is past its check without having been cancelled.                        *)
THEOREM RevocationCancels ==
    ASSUME Mcp!McpAssumption
    PROVE  Mcp!Spec => []Mcp!RevokedIsCancelled
  <1>1. Mcp!Spec => []CallInv
    BY CallInvariance
  <1>2. CallInv => Mcp!RevokedIsCancelled
    BY DEF CallInv, CallOK, Mcp!RevokedIsCancelled, ToCancel, Mcp!Idle, PastCheck
  <1> QED BY <1>1, <1>2, PTL

(* And, as long as the notes of cancel_request() are never full, a run     *)
(* that was cancelled before it was registered neither asks nor starts.    *)
THEOREM OnlyAllowedCalls ==
    ASSUME Mcp!McpAssumption
    PROVE  Mcp!Spec /\ []NotesFit => []Mcp!CallsAllowed
  <1>1. Mcp!Spec => []CallInv
    BY CallInvariance
  <1>2. Mcp!Init => NoteKept
    BY DEF Mcp!Init, NoteKept
  <1>3. CallInv /\ NotesFit /\ NoteKept /\ [Mcp!Next]_(Mcp!vars) => NoteKept'
    BY NoteStep
  <1>4. CallInv /\ NoteKept => Mcp!CallsAllowed
    <2>1. CallInv => Mcp!ConsentGiven
      BY DEF CallInv, History, RanOK, SavedOK, MayGo, Mcp!ConsentGiven, Mcp!Kind
    <2>2. CallInv /\ NoteKept => Mcp!EarlyCancelKept
      BY DEF CallInv, Mcp!TypeOK, NoteKept, Mcp!EarlyCancelKept
    <2> QED BY <2>1, <2>2 DEF Mcp!CallsAllowed
  <1> QED BY <1>1, <1>2, <1>3, <1>4, PTL DEF Mcp!Spec

(* All of it together, on the same condition: what an AI tool does on      *)
(* hosts the user allowed, and a withdrawn permission stops it.            *)
THEOREM HonoursPermissions ==
    ASSUME Mcp!McpAssumption
    PROVE  Mcp!Spec /\ []NotesFit => []CallsHonoured
  <1>1. Mcp!TypeOK /\ Mcp!CallsAllowed /\ Mcp!RevokedIsCancelled => CallsHonoured
    BY DEF CallsHonoured, Mcp!CallsHonoured
  <1> QED BY <1>1, CallTypeCorrect, OnlyAllowedCalls, RevocationCancels, PTL
=============================================================================
