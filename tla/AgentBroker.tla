---------------------------- MODULE AgentBroker ----------------------------
(***************************************************************************)
(* Signing with a vault key: the agent's decisions (agent/broker.rs and    *)
(* agent/approval.rs), the approval windows (agent/prompt.rs) and the      *)
(* pausing of the legacy workspace (sync/record_commands.rs), for one key. *)
(*                                                                         *)
(* A request comes from a program for a host: ContextOf gives the pair, or *)
(* "unknown" when either cannot be told; the requests of Connect are       *)
(* Granted.  Every request has its thread; the user answers windows.  An   *)
(* approval lasts Keep units of time.                                      *)
(***************************************************************************)
EXTENDS Naturals, FiniteSets

CONSTANTS
    Request, Context,
    ContextOf,      \* Request -> Context \cup {"unknown"}
    Granted,        \* the requests of Connect
    HasPassphrase,
    Attempts,       \* PASSPHRASE_ATTEMPTS
    Keep,           \* remember_minutes
    MaxTime, MaxPauses   \* bounds

ASSUME AgentAssumption ==
    /\ ContextOf \in [Request -> Context \cup {"unknown"}] /\ Granted \subseteq Request
    /\ HasPassphrase \in BOOLEAN /\ Attempts \in Nat \ {0}
    /\ MaxTime \in Nat \ {0} /\ {Keep, MaxPauses} \subseteq Nat
    /\ "none" \notin Request

VARIABLES
    now, legacy,        \* the clock; the workspace is the legacy one
    alwaysAsk,          \* AgentSettings.always_ask
    pausing, pauses,    \* where records_pause_legacy is, and how often it ran
    approvals,          \* ApprovalCache: the expiry of each context, 0 for none
    unlocked,           \* the expiry of the opened key in memory, 0 for none
    saved,              \* the keychain's passphrase: "none", "right", "stale"
    asking, verdict,    \* Broker.asking, by context; Pending.answer, by request
    leader,             \* the request whose answer a request shares
    listed, channel,    \* PromptHub: the windows in the list, the answers sent
    answer,             \* what ask() returned
    pc, always,         \* where a request is, the settings it read
    needs, tries,       \* needs_passphrase, the passphrases tried
    wantsRemember,      \* the answer says to remember, and the window offered it
    opened,             \* the requests that hold the key material
    checked,            \* history: when a request last looked for an approval
    allowed,            \*   the requests whose window the user allowed
    kept                \*   what was remembered: by whom, from when, until when

env == <<now, legacy, alwaysAsk, pausing, pauses>>
book == <<approvals, unlocked, saved>>
once == <<asking, verdict, leader>>
hub == <<listed, channel, answer>>
own == <<always, needs, tries, wantsRemember, opened>>
hist == <<checked, allowed, kept>>
vars == <<env, book, once, hub, pc, own, hist>>

None == "none"

(* No answer, the answer of a window that was closed, and the user's. *)
Silent == [allow |-> FALSE, remember |-> FALSE, pass |-> "silent", savePass |-> FALSE]
Deny == [Silent EXCEPT !.pass = "none"]
Passphrases == IF HasPassphrase THEN {"none", "right", "wrong"} ELSE {"none"}
Answers ==
    {Deny} \cup {a \in [allow : {TRUE}, remember : BOOLEAN, pass : Passphrases, savePass : BOOLEAN] :
                   a.savePass => a.pass = "right"}

Init ==
    /\ now = 1 /\ legacy = TRUE /\ alwaysAsk \in BOOLEAN /\ pausing = "no" /\ pauses = 0
    /\ approvals = [c \in Context |-> 0] /\ unlocked = 0
    /\ saved \in IF HasPassphrase THEN {"none", "right", "stale"} ELSE {"none"}
    /\ asking = [c \in Context |-> None] /\ verdict = [r \in Request |-> None]
    /\ leader = [r \in Request |-> None]
    /\ listed = {} /\ channel = [r \in Request |-> Silent] /\ answer = channel
    /\ pc = [r \in Request |-> "idle"] /\ always = [r \in Request |-> FALSE]
    /\ needs = always /\ wantsRemember = always /\ tries = [r \in Request |-> 0] /\ opened = {}
    /\ checked = tries /\ allowed = {} /\ kept = {}

Goes(r, to) == pc' = [pc EXCEPT ![r] = to]
Remembered(c) == approvals[c] > now
Cached == unlocked > now

(* The end of a request that is refused; the one that asks for others      *)
(* still has to tell them.                                                 *)
Refusal(r) == IF leader[r] = r THEN "drop" ELSE "refused"

-----------------------------------------------------------------------------
(* The thread of a request. *)

(* sign(): the keys of this computer (none unless the workspace is the     *)
(* legacy one), then the settings.                                         *)
Begin(r) ==
    /\ pc[r] = "idle"
    /\ always' = [always EXCEPT ![r] = alwaysAsk]
    /\ Goes(r, IF ~legacy THEN "refused" ELSE IF r \in Granted THEN "unlock" ELSE "check")
    /\ UNCHANGED <<env, book, once, hub, needs, tries, wantsRemember, opened, hist>>

(* Mutant of Check: an approval is good for every program and host. *)
CheckAny(r) ==
    /\ pc[r] = "check"
    /\ checked' = [checked EXCEPT ![r] = now]
    /\ Goes(r, IF always[r] \/ ContextOf[r] = "unknown" THEN "ask"
               ELSE IF \E d \in Context : Remembered(d) THEN "unlock" ELSE "join")
    /\ UNCHANGED <<env, book, once, hub, own, allowed, kept>>

(* approve(): the verdict. *)
Check(r) ==
    /\ pc[r] = "check"
    /\ checked' = [checked EXCEPT ![r] = now]
    /\ Goes(r, IF always[r] \/ ContextOf[r] = "unknown" THEN "ask"
               ELSE IF Remembered(ContextOf[r]) THEN "unlock" ELSE "join")
    /\ UNCHANGED <<env, book, once, hub, own, allowed, kept>>

(* Mutant of Join: every request asks for itself. *)
JoinNever(r) ==
    /\ pc[r] = "join"
    /\ leader' = [leader EXCEPT ![r] = r] /\ asking' = [asking EXCEPT ![ContextOf[r]] = r]
    /\ Goes(r, "recheck")
    /\ UNCHANGED <<env, book, verdict, hub, own, hist>>

(* ask_once(): the first request of a context asks, the others share its   *)
(* answer.                                                                 *)
Join(r) ==
    /\ pc[r] = "join"
    /\ LET c == ContextOf[r]
           first == IF asking[c] = None THEN r ELSE asking[c]
       IN /\ leader' = [leader EXCEPT ![r] = first]
          /\ asking' = [asking EXCEPT ![c] = first]
          /\ Goes(r, IF first = r THEN "recheck" ELSE "follow")
    /\ UNCHANGED <<env, book, verdict, hub, own, hist>>

(* The request that asked before it may have been remembered since. *)
Recheck(r) ==
    /\ pc[r] = "recheck"
    /\ checked' = [checked EXCEPT ![r] = now]
    /\ Goes(r, IF Remembered(ContextOf[r]) THEN "unlock" ELSE "ask")
    /\ UNCHANGED <<env, book, once, hub, own, allowed, kept>>

(* Pending::wait(). *)
Follow(r) ==
    /\ pc[r] = "follow" /\ verdict[leader[r]] # None
    /\ Goes(r, IF verdict[leader[r]] = "allowed" THEN "unlock" ELSE "refused")
    /\ UNCHANGED <<env, book, once, hub, own, hist>>

(* SHARED_ANSWER_WAIT is over, as when a keychain call of the first one    *)
(* hangs: that counts as a refusal.                                        *)
FollowTimesOut(r) ==
    /\ pc[r] = "follow" /\ verdict[leader[r]] = None
    /\ Goes(r, "refused")
    /\ UNCHANGED <<env, book, once, hub, own, hist>>

(* PromptHub::ask(): the approval window, or one for the passphrase only. *)
OpenWindow(r) ==
    /\ pc[r] \in {"ask", "askPass"}
    /\ needs' = [needs EXCEPT ![r] = pc[r] = "ask" /\ HasPassphrase /\ ~Cached /\ saved = "none"]
    /\ listed' = listed \cup {r} /\ channel' = [channel EXCEPT ![r] = Silent]
    /\ Goes(r, IF pc[r] = "ask" THEN "window" ELSE "passWindow")
    /\ UNCHANGED <<env, book, once, answer, always, tries, wantsRemember, opened, hist>>

(* recv_timeout() returns, with the answer or without. *)
StopWaiting(r) ==
    /\ pc[r] \in {"window", "passWindow"}
    /\ \E a \in {channel[r], Silent} : answer' = [answer EXCEPT ![r] = a]
    /\ Goes(r, IF pc[r] = "window" THEN "stopped" ELSE "passStopped")
    /\ UNCHANGED <<env, book, once, listed, channel, own, hist>>

(* Mutant of Leave: an answer that comes as the time runs out is lost. *)
LeaveAtOnce(r) ==
    /\ pc[r] \in {"stopped", "passStopped"}
    /\ listed' = listed \ {r}
    /\ channel' = [channel EXCEPT ![r] = Silent]
    /\ Goes(r, IF pc[r] = "stopped" THEN "answered" ELSE "passAnswered")
    /\ UNCHANGED <<env, book, once, answer, own, hist>>

(* forget(), and only then the channel once more. *)
Leave(r) ==
    /\ pc[r] \in {"stopped", "passStopped"}
    /\ listed' = listed \ {r}
    /\ answer' = [answer EXCEPT ![r] = IF @ = Silent THEN channel[r] ELSE @]
    /\ channel' = [channel EXCEPT ![r] = Silent]
    /\ Goes(r, IF pc[r] = "stopped" THEN "answered" ELSE "passAnswered")
    /\ UNCHANGED <<env, book, once, own, hist>>

(* ask_and_unlock(): whether it is allowed. *)
Decide(r) ==
    /\ pc[r] = "answered"
    /\ allowed' = IF answer[r].allow THEN allowed \cup {r} ELSE allowed
    /\ wantsRemember' = [wantsRemember EXCEPT ![r] = answer[r].remember /\ leader[r] = r]
    /\ Goes(r, IF answer[r].allow THEN "unlock" ELSE Refusal(r))
    /\ UNCHANGED <<env, book, once, hub, always, needs, tries, opened, checked, kept>>

(* unlock(): the key in memory, else the vault, which only the legacy      *)
(* workspace reads.                                                        *)
Unlock(r) ==
    /\ pc[r] = "unlock"
    /\ Goes(r, IF Cached THEN "opened" ELSE IF ~legacy THEN Refusal(r)
               ELSE IF HasPassphrase THEN "keychain" ELSE "opened")
    /\ UNCHANGED <<env, book, once, hub, own, hist>>

(* The passphrase of the window, else the keychain's; a stale one is       *)
(* deleted, if the keychain lets it, and the user asked.                   *)
TryKeychain(r) ==
    /\ pc[r] = "keychain"
    /\ LET supplied == needs[r] /\ answer[r].pass # "none" IN
       /\ Goes(r, IF supplied THEN "passAnswered" ELSE IF saved = "right" THEN "opened" ELSE "askPass")
       /\ saved' \in IF ~supplied /\ saved = "stale" THEN {"stale", "none"} ELSE {saved}
    /\ UNCHANGED <<env, approvals, unlocked, once, hub, own, hist>>

(* Attempts in all.  The right one is kept in the keychain when the user   *)
(* says so and the keychain takes it; otherwise the opened key is kept in  *)
(* memory.                                                                 *)
UsePassphrase(r) ==
    /\ pc[r] = "passAnswered"
    /\ tries' = [tries EXCEPT ![r] = @ + 1]
    /\ IF answer[r].pass = "right"
       THEN /\ Goes(r, "opened")
            /\ \/ answer[r].savePass /\ saved' = "right" /\ UNCHANGED unlocked
               \/ unlocked' = now + Keep /\ UNCHANGED saved
       ELSE /\ Goes(r, IF ~answer[r].allow \/ tries'[r] = Attempts THEN Refusal(r) ELSE "askPass")
            /\ UNCHANGED <<saved, unlocked>>
    /\ answer' = [answer EXCEPT ![r] = Silent]
    /\ UNCHANGED <<env, approvals, once, listed, channel, always, needs, wantsRemember, opened, hist>>

(* remember(): only what could be opened; the key in memory lasts as long. *)
Remember(r) ==
    /\ pc[r] = "opened"
    /\ opened' = opened \cup {r}
    /\ IF wantsRemember[r]
       THEN /\ approvals' = [approvals EXCEPT ![ContextOf[r]] = now + Keep]
            /\ unlocked' = IF unlocked \in 1..(now + Keep) THEN now + Keep ELSE unlocked
            /\ kept' = kept \cup {[by |-> r, from |-> now, until |-> now + Keep]}
       ELSE UNCHANGED <<approvals, unlocked, kept>>
    /\ Goes(r, IF leader[r] = r THEN "drop" ELSE "signed")
    /\ UNCHANGED <<env, saved, once, hub, always, needs, tries, wantsRemember, checked, allowed>>

(* Mutant of Drop: only an allowed request wakes the ones that wait. *)
DropIfAllowed(r) ==
    /\ pc[r] = "drop" /\ r \in opened
    /\ asking' = [asking EXCEPT ![ContextOf[r]] = None]
    /\ verdict' = [verdict EXCEPT ![r] = "allowed"]
    /\ Goes(r, "signed")
    /\ UNCHANGED <<env, book, leader, hub, own, hist>>

(* First is dropped: the context can be asked about again, and those that  *)
(* wait get the answer; then the key signs.                                *)
Drop(r) ==
    /\ pc[r] = "drop"
    /\ asking' = [asking EXCEPT ![ContextOf[r]] = None]
    /\ verdict' = [verdict EXCEPT ![r] = IF r \in opened THEN "allowed" ELSE "refused"]
    /\ Goes(r, IF r \in opened THEN "signed" ELSE "refused")
    /\ UNCHANGED <<env, book, leader, hub, own, hist>>

-----------------------------------------------------------------------------
(* The user, the clock and the commands. *)

(* resolve(): once per window, and it reports success. *)
Resolve(r, a) ==
    /\ r \in listed /\ channel[r] = Silent
    /\ channel' = [channel EXCEPT ![r] = a]
    /\ UNCHANGED <<env, book, once, listed, answer, pc, own, hist>>

(* deny_all(): an answer that was sent stays. *)
DenyAll ==
    /\ channel' = [r \in Request |-> IF r \in listed /\ channel[r] = Silent THEN Deny ELSE channel[r]]
    /\ listed' = {}

(* The approval window is closed. *)
CloseWindow ==
    /\ listed # {} /\ DenyAll
    /\ UNCHANGED <<env, book, once, answer, pc, own, hist>>

Tick ==
    /\ now < MaxTime /\ now' = now + 1
    /\ UNCHANGED <<legacy, alwaysAsk, pausing, pauses, book, once, hub, pc, own, hist>>

(* expire(): every minute. *)
Expire ==
    /\ approvals' = [c \in Context |-> IF Remembered(c) THEN approvals[c] ELSE 0]
    /\ unlocked' = IF Cached THEN unlocked ELSE 0
    /\ <<approvals', unlocked'>> # <<approvals, unlocked>>
    /\ UNCHANGED <<env, saved, once, hub, pc, own, hist>>

(* records_pause_legacy: the pause, then deny_all(), then clear(). *)
Pause ==
    /\ pausing = "no" /\ legacy /\ pauses < MaxPauses
    /\ legacy' = FALSE /\ pausing' = "deny" /\ pauses' = pauses + 1
    /\ UNCHANGED <<now, alwaysAsk, book, once, hub, pc, own, hist>>

PauseDenies ==
    /\ pausing = "deny" /\ DenyAll /\ pausing' = "clear"
    /\ UNCHANGED <<now, legacy, alwaysAsk, pauses, book, once, answer, pc, own, hist>>

Clear ==
    /\ pausing = "clear" /\ pausing' = "no"
    /\ approvals' = [c \in Context |-> 0] /\ unlocked' = 0
    /\ UNCHANGED <<now, legacy, alwaysAsk, pauses, saved, once, hub, pc, own, hist>>

(* records_use_legacy. *)
ResumeLegacy ==
    /\ ~legacy /\ pausing = "no"
    /\ legacy' = TRUE
    /\ UNCHANGED <<now, alwaysAsk, pausing, pauses, book, once, hub, pc, own, hist>>

Thread(r) ==
    \/ Check(r) \/ Join(r) \/ Recheck(r) \/ Follow(r) \/ OpenWindow(r) \/ StopWaiting(r)
    \/ Leave(r) \/ Decide(r) \/ Unlock(r) \/ TryKeychain(r) \/ UsePassphrase(r) \/ Remember(r)
    \/ Drop(r)

Next ==
    \/ \E r \in Request : \/ Begin(r) \/ Thread(r) \/ FollowTimesOut(r)
                         \/ \E a \in Answers : Resolve(r, a)
    \/ CloseWindow \/ Tick \/ Expire \/ Pause \/ PauseDenies \/ Clear \/ ResumeLegacy

Spec == Init /\ [][Next]_vars

(* Threads run, and a window waits 60 seconds at most; the user need not   *)
(* answer, and nobody relies on SHARED_ANSWER_WAIT.                        *)
FairSpec == Spec /\ \A r \in Request : WF_vars(Thread(r))

-----------------------------------------------------------------------------
Place ==
    {"idle", "check", "join", "recheck", "follow", "ask", "window", "stopped", "answered",
     "unlock", "keychain", "askPass", "passWindow", "passStopped", "passAnswered",
     "opened", "drop", "signed", "refused"}

TypeOK ==
    /\ now \in 1..MaxTime /\ legacy \in BOOLEAN /\ alwaysAsk \in BOOLEAN
    /\ pausing \in {"no", "deny", "clear"} /\ pauses \in 0..MaxPauses
    /\ approvals \in [Context -> 0..(MaxTime + Keep)] /\ unlocked \in 0..(MaxTime + Keep)
    /\ saved \in {"none", "right", "stale"}
    /\ asking \in [Context -> Request \cup {None}]
    /\ verdict \in [Request -> {None, "allowed", "refused"}]
    /\ leader \in [Request -> Request \cup {None}]
    /\ listed \subseteq Request
    /\ channel \in [Request -> Answers \cup {Silent}] /\ answer \in [Request -> Answers \cup {Silent}]
    /\ pc \in [Request -> Place] /\ tries \in [Request -> 0..Attempts]
    /\ {always, needs, wantsRemember} \subseteq [Request -> BOOLEAN]
    /\ opened \subseteq Request /\ allowed \subseteq Request
    /\ checked \in [Request -> 0..MaxTime]
    /\ kept \subseteq [by : Request, from : 1..MaxTime, until : 1..(MaxTime + Keep)]

(* A signature is backed by the user: Connect, the window of this very     *)
(* request, or, for a program and a host that are known and unless the     *)
(* settings say to ask always, either the window of the request for the    *)
(* same program and host whose answer it shared, or an approval for them   *)
(* that the user had allowed to be remembered and that had not expired     *)
(* when it was looked up.                                                  *)
Backed(q, c) ==
    \/ q \in allowed
    \/ \E k \in kept : k.by \in allowed /\ ContextOf[k.by] = c
                       /\ k.from <= checked[q] /\ checked[q] < k.until

Justified(r) ==
    \/ r \in Granted \cup allowed
    \/ /\ ~always[r] /\ ContextOf[r] # "unknown"
       /\ \E q \in {r, leader[r]} \ {None} : ContextOf[q] = ContextOf[r] /\ Backed(q, ContextOf[r])

SignedIsAllowed == \A r \in opened : Justified(r)

(* The user is never asked by two windows at a time about one program and  *)
(* host, unless every request is to be asked about.                        *)
OneWindow ==
    \A r, q \in Request :
        /\ r # q /\ ContextOf[r] = ContextOf[q] /\ ContextOf[r] # "unknown"
        /\ pc[r] = "window" /\ pc[q] = "window"
        => always[r] \/ always[q]

(* An answer that resolve() took is the answer of the window, also when it *)
(* came in the moment the time ran out.                                    *)
AnswerCounts ==
    [][\A r \in Request :
          pc[r] \in {"stopped", "passStopped"} /\ pc'[r] # pc[r] /\ channel[r] # Silent
              => answer'[r] = channel[r]]_vars

(* The user decides what is signed: nothing without an answer that covers  *)
(* it, no question that another window asks already, and no answer lost.   *)
ConsentHonoured == [](SignedIsAllowed /\ OneWindow) /\ AnswerCounts

(* Every request is answered, also those that share the answer of one that *)
(* is refused.                                                             *)
RequestsEnd ==
    \A r \in Request : (pc[r] # "idle") ~> (pc[r] \in {"signed", "refused"})
=============================================================================
