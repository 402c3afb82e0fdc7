------------------------------ MODULE McpCalls ------------------------------
(***************************************************************************)
(* Calls of AI tools through MCP (mcp.rs, mcp/records.rs,                  *)
(* mcp/management.rs): ssh_exec and create_host of the records workspace,  *)
(* and run of the legacy one.  Each call has its thread; meanwhile the     *)
(* user changes what is allowed, answers windows and edits hosts, clients  *)
(* cancel, and windows time out.                                           *)
(*                                                                         *)
(* A host's endpoint stands for everything a window shows of it: address,  *)
(* route, login and key, or for a new host what would be saved.  What a    *)
(* connect asks is in Connecting; the broker's limit and quitting are jobs *)
(* of SessionBroker, where quitting is one more way to be cancelled.  A    *)
(* call is its id: ids that come twice, which are refused, are left out.   *)
(***************************************************************************)
EXTENDS Naturals, FiniteSets

CONSTANTS
    Call, Host,
    KindOf,         \* Call -> {"exec", "create", "run"}
    HostOf,         \* Call -> Host; of a new host, the one to be
    EarlyLimit,     \* 256
    MaxSettings,    \* bound on changes of the settings
    MaxChanges      \* bound on changes of an endpoint

(* What the module assumes of its constants. *)
McpAssumption ==
    /\ IsFiniteSet(Call) /\ IsFiniteSet(Host) /\ {"none", "all"} \cap Host = {}
    /\ \A c \in Call : KindOf[c] \in {"exec", "create", "run"} /\ HostOf[c] \in Host
    /\ {EarlyLimit, MaxSettings, MaxChanges} \subseteq Nat

VARIABLES
    policy,             \* McpPolicy: [enabled, mode, allowed]
    user,               \* the settings command under way: [at, of]
    endpoint,           \* the version of every host's endpoint
    active, early,      \* records_active and CancellationState.active; .early
    cancel,             \* CancelToken, or the flag of a run
    canceller,          \* where each cancel of a run is
    pending, channel,   \* the windows; the decision sent to a call
    expired,            \* the deadline of its window has passed
    snap,               \* the policy a call read
    shown, target,      \* the endpoint in the window; the one connected to
    decision, watcher, pc,
    ran, saved,         \* history: the endpoints commands ran on, or were saved
    yes,                \*   the calls the user allowed in time
    hushed,             \*   the runs cancelled before they were registered
    settings

rules == <<policy, user, settings>>
stop == <<active, early, cancel, canceller>>
window == <<pending, channel, expired>>
own == <<snap, shown, target, decision, watcher>>
hist == <<ran, saved, yes, hushed>>
vars == <<rules, endpoint, stop, window, own, pc, hist>>

Idle == [at |-> "idle", of |-> "none"]

(* Who cancels a run: the thread that watches its connection, and a cancel *)
(* that the client sends.                                                  *)
Canceller == {"monitor", "client"}
Policy == [enabled : BOOLEAN, mode : {"ask", "auto"}, allowed : SUBSET Host]

Init ==
    /\ policy \in Policy /\ policy.enabled /\ policy.allowed = Host
    /\ user = Idle /\ settings = 0
    /\ endpoint = [h \in Host |-> 0]
    /\ active = {} /\ early = {} /\ cancel = [c \in Call |-> FALSE]
    /\ canceller = [c \in Call |-> [w \in Canceller |-> "no"]]
    /\ pending = {} /\ channel = [c \in Call |-> "none"] /\ expired = [c \in Call |-> FALSE]
    /\ snap = [c \in Call |-> policy]
    /\ shown = [c \in Call |-> 0] /\ target = shown
    /\ decision = [c \in Call |-> "none"] /\ watcher = [c \in Call |-> FALSE]
    /\ pc = [c \in Call |-> "new"]
    /\ ran = {} /\ saved = {} /\ yes = {} /\ hushed = {}

Kind(c, kinds) == KindOf[c] \in kinds
Records(c) == Kind(c, {"exec", "create"})
Goes(c, to) == pc' = [pc EXCEPT ![c] = to]
At(c, place) == pc[c] = place

-----------------------------------------------------------------------------
(* The thread of a call. *)

(* dispatch() and dispatch_bridge(): MCP must be on; a run needs the       *)
(* legacy workspace, which may have been left (require_legacy()).          *)
Dispatch(c) ==
    /\ At(c, "new")
    /\ \/ Goes(c, CASE ~policy.enabled -> "over"
                    [] Kind(c, {"exec", "run"}) -> "capture"
                    [] OTHER -> "policy")
       \/ Kind(c, {"run"}) /\ Goes(c, "over")
    /\ snap' = [snap EXCEPT ![c] = policy]
    /\ UNCHANGED <<rules, endpoint, stop, window, shown, target, decision, watcher, hist>>

(* The policy that the rest of an exec or create goes by. *)
ReadPolicy(c) ==
    /\ At(c, "policy")
    /\ snap' = [snap EXCEPT ![c] = policy]
    /\ Goes(c, CASE Kind(c, {"exec"}) -> "register"
                 [] policy.enabled -> "capture"
                 [] OTHER -> "over")
    /\ UNCHANGED <<rules, endpoint, stop, window, shown, target, decision, watcher, hist>>

(* ApprovedTarget::capture(), candidate(), or the effective configuration  *)
(* of an alias that is allowed: what the window will show.                 *)
Capture(c) ==
    /\ At(c, "capture")
    /\ shown' = [shown EXCEPT ![c] = endpoint[HostOf[c]]]
    /\ Goes(c, CASE Kind(c, {"exec"}) -> IF cancel[c] THEN "over" ELSE "policy"
                 [] Kind(c, {"run"}) /\ HostOf[c] \notin snap[c].allowed -> "over"
                 [] OTHER -> "register")
    /\ UNCHANGED <<rules, endpoint, stop, window, snap, target, decision, watcher, hist>>

(* Mutant of Register: a cancel that came first is forgotten. *)
RegisterAlways(c) ==
    /\ At(c, "register")
    /\ active' = active \cup {c} /\ early' = early \ {c}
    /\ watcher' = [watcher EXCEPT ![c] = Kind(c, {"exec"})]
    /\ Goes(c, "decide")
    /\ UNCHANGED <<rules, endpoint, cancel, canceller, window, snap, shown, target, decision,
                   hist>>

(* records_active, or register_request(), which refuses a call that was    *)
(* cancelled before; an exec starts the thread that watches the policy.    *)
Register(c) ==
    /\ At(c, "register")
    /\ early' = early \ {c}
    /\ IF c \in early
         THEN Goes(c, "over") /\ UNCHANGED <<active, watcher>>
         ELSE /\ active' = active \cup {c}
              /\ watcher' = [watcher EXCEPT ![c] = Kind(c, {"exec"})]
              /\ Goes(c, "decide")
    /\ UNCHANGED <<rules, endpoint, cancel, canceller, window, snap, shown, target, decision,
                   hist>>

(* live(): not cancelled, and the policy is on with the mode that was read.*)
Live(c) == ~cancel[c] /\ policy.enabled /\ policy.mode = snap[c].mode

(* Before anybody is asked: an exec goes by the policy it read. *)
Decide(c) ==
    /\ At(c, "decide")
    /\ Goes(c, CASE Kind(c, {"run"}) -> "insert"
                 [] Kind(c, {"create"}) -> IF Live(c) THEN "insert" ELSE "end"
                 [] ~snap[c].enabled \/ HostOf[c] \notin snap[c].allowed -> "end"
                 [] snap[c].mode = "ask" -> "insert"
                 [] OTHER -> "check")
    /\ UNCHANGED <<rules, endpoint, stop, window, own, hist>>

(* wait_approval() and run_approved(): the window opens. *)
Insert(c) ==
    /\ At(c, "insert")
    /\ IF Records(c) /\ cancel[c]
         THEN Goes(c, "end") /\ UNCHANGED pending
         ELSE /\ pending' = pending \cup {c}
              /\ Goes(c, IF Records(c) THEN "waiting" ELSE "recheck")
    /\ UNCHANGED <<rules, endpoint, stop, channel, expired, own, hist>>

(* Mutant of Recheck: no second look at the flag. *)
RecheckNot(c) ==
    /\ At(c, "recheck") /\ Goes(c, "waiting")
    /\ UNCHANGED <<rules, endpoint, stop, window, own, hist>>

(* A run that was cancelled between Register and Insert wakes itself. *)
Recheck(c) ==
    /\ At(c, "recheck") /\ Goes(c, "waiting")
    /\ IF cancel[c] /\ c \in pending
         THEN pending' = pending \ {c} /\ channel' = [channel EXCEPT ![c] = "cancel"]
         ELSE UNCHANGED <<pending, channel>>
    /\ UNCHANGED <<rules, endpoint, stop, expired, own, hist>>

(* receive_approval(), and recv_timeout() of a run, which sees no flag. *)
Heard(c) ==
    IF Records(c) /\ cancel[c] THEN "cancel"
    ELSE IF expired[c] THEN "timedOut" ELSE channel[c]

Receive(c) ==
    /\ At(c, "waiting") /\ Heard(c) # "none"
    /\ decision' = [decision EXCEPT ![c] = Heard(c)]
    /\ Goes(c, "unpend")
    /\ UNCHANGED <<rules, endpoint, stop, window, snap, shown, target, watcher, hist>>

(* The window is taken away; only an allowance goes on. *)
Unpend(c) ==
    /\ At(c, "unpend")
    /\ pending' = pending \ {c}
    /\ cancel' = [cancel EXCEPT ![c] = @ \/ (Kind(c, {"exec"}) /\ decision[c] = "cancel")]
    /\ Goes(c, IF decision[c] = "allow" THEN "check" ELSE "end")
    /\ UNCHANGED <<rules, endpoint, active, early, canceller, channel, expired, own, hist>>

Permitted(c) == policy.enabled /\ HostOf[c] \in policy.allowed

(* Mutant of Approved: the destination is not compared. *)
ApprovedAnything(c, e) == TRUE

(* ApprovedTarget::check_identity(), and current # proposal of create(). *)
Approved(c, e) == e = shown[c]

(* check() of an exec. *)
Checked(c) == Live(c) /\ Permitted(c) /\ Approved(c, endpoint[HostOf[c]])

(* After the approval.  A run looks at the policy, and at the workspace    *)
(* once more.                                                              *)
Check(c) ==
    /\ At(c, "check")
    /\ \/ Goes(c, CASE Kind(c, {"exec"}) -> IF Checked(c) THEN "resolve" ELSE "end"
                    [] Kind(c, {"create"}) -> IF Live(c) THEN "edit" ELSE "end"
                    [] OTHER -> IF Permitted(c) THEN "start" ELSE "end")
       \/ Kind(c, {"run"}) /\ Goes(c, "end")
    /\ UNCHANGED <<rules, endpoint, stop, window, own, hist>>

(* The connector resolves the host again: check_resolved(). *)
ResolveTarget(c) ==
    /\ At(c, "resolve")
    /\ target' = [target EXCEPT ![c] = endpoint[HostOf[c]]]
    /\ Goes(c, IF Approved(c, target'[c]) THEN "connect" ELSE "end")
    /\ UNCHANGED <<rules, endpoint, stop, window, snap, shown, decision, watcher, hist>>

(* CheckedEngine::connect(), and again when it is connected. *)
Connect(c) ==
    /\ pc[c] \in {"connect", "connected"}
    /\ \/ /\ Checked(c) /\ Approved(c, target[c])
          /\ Goes(c, IF At(c, "connect") THEN "connected" ELSE "start")
       \/ Goes(c, "end")
    /\ UNCHANGED <<rules, endpoint, stop, window, own, hist>>

(* exec(), and execute_ssh(): ssh reads the configuration of the moment. *)
Start(c) ==
    /\ At(c, "start")
    /\ ran' = ran \cup {[call |-> c, on |-> IF Kind(c, {"exec"}) THEN target[c]
                                            ELSE endpoint[HostOf[c]]]}
    /\ Goes(c, "running")
    /\ UNCHANGED <<rules, endpoint, stop, window, own, saved, yes, hushed>>

(* The command is over, timed out, or was cancelled and closed. *)
Finish(c) ==
    /\ At(c, "running") /\ Goes(c, "end")
    /\ UNCHANGED <<rules, endpoint, stop, window, own, hist>>

(* edit_records() of a create, under the lifecycle lock: the edit is made  *)
(* once to see what it changes and again when it is saved, and looks at    *)
(* the proposal both times.                                                *)
Editable(c) == Live(c) /\ Approved(c, endpoint[HostOf[c]])

Edit(c) ==
    /\ At(c, "edit") /\ \A d \in Call : ~At(d, "save")
    /\ Goes(c, IF Editable(c) THEN "save" ELSE "end")
    /\ UNCHANGED <<rules, endpoint, stop, window, own, hist>>

Save(c) ==
    /\ At(c, "save")
    /\ \/ UNCHANGED saved
       \/ Editable(c) /\ saved' = saved \cup {[call |-> c, on |-> endpoint[HostOf[c]]]}
    /\ Goes(c, "end")
    /\ UNCHANGED <<rules, endpoint, stop, window, own, ran, yes, hushed>>

(* The audit entry, and the guard's drop. *)
End(c) ==
    /\ At(c, "end") /\ Goes(c, "over")
    /\ active' = active \ {c} /\ watcher' = [watcher EXCEPT ![c] = FALSE]
    /\ UNCHANGED <<rules, endpoint, early, cancel, canceller, window, snap, shown, target,
                   decision, hist>>

Thread(c) ==
    \/ Dispatch(c) \/ ReadPolicy(c) \/ Capture(c) \/ Register(c) \/ Decide(c) \/ Insert(c)
    \/ Recheck(c) \/ Receive(c) \/ Unpend(c) \/ Check(c) \/ ResolveTarget(c) \/ Connect(c)
    \/ Start(c) \/ Finish(c) \/ Edit(c) \/ Save(c) \/ End(c)

(* Mutant of Watch: the thread sees a policy that is off only. *)
WatchEnabled(c) ==
    /\ watcher[c] /\ snap[c].enabled /\ ~policy.enabled
    /\ cancel' = [cancel EXCEPT ![c] = TRUE] /\ watcher' = [watcher EXCEPT ![c] = FALSE]
    /\ UNCHANGED <<rules, endpoint, active, early, canceller, window, snap, shown, target,
                   decision, pc, hist>>

(* The thread that looks at the policy every 25 ms. *)
Watch(c) ==
    /\ watcher[c] /\ snap[c].enabled /\ HostOf[c] \in snap[c].allowed
    /\ ~Permitted(c) \/ policy.mode # snap[c].mode
    /\ cancel' = [cancel EXCEPT ![c] = TRUE] /\ watcher' = [watcher EXCEPT ![c] = FALSE]
    /\ UNCHANGED <<rules, endpoint, active, early, canceller, window, snap, shown, target,
                   decision, pc, hist>>

-----------------------------------------------------------------------------
(* The client. *)

(* serve_mcp(): the connection ends, and so does the call. *)
ClientCancels(c) ==
    /\ Records(c) /\ pc[c] \notin {"new", "over"} /\ ~cancel[c]
    /\ cancel' = [cancel EXCEPT ![c] = TRUE]
    /\ UNCHANGED <<rules, endpoint, active, early, canceller, window, own, pc, hist>>

(* cancel_request(), under the first lock: the flag of a run, or a note    *)
(* for one that is not there yet, or no longer.                            *)
CancelRun(c, w) ==
    /\ Kind(c, {"run"}) /\ canceller[c][w] = "no"
    /\ canceller' = [canceller EXCEPT ![c][w] = "pending"]
    /\ IF c \in active
         THEN cancel' = [cancel EXCEPT ![c] = TRUE] /\ UNCHANGED early
         ELSE /\ early' = {c} \cup IF Cardinality(early) >= EarlyLimit THEN {} ELSE early
              /\ UNCHANGED cancel
    /\ hushed' = IF pc[c] \in {"new", "capture", "register"} THEN hushed \cup {c} ELSE hushed
    /\ UNCHANGED <<rules, endpoint, active, window, own, pc, ran, saved, yes>>

(* And under the second: its window. *)
CancelWindow(c, w) ==
    /\ canceller[c][w] = "pending"
    /\ canceller' = [canceller EXCEPT ![c][w] = "done"]
    /\ IF c \in pending
         THEN pending' = pending \ {c} /\ channel' = [channel EXCEPT ![c] = "cancel"]
         ELSE UNCHANGED <<pending, channel>>
    /\ UNCHANGED <<rules, endpoint, active, early, cancel, expired, own, pc, hist>>

-----------------------------------------------------------------------------
(* The user, whose commands run one after the other. *)

(* A command saves the policy; what it withdraws, it then cancels: the     *)
(* calls of a host, or "all".                                              *)
Set(p, of) ==
    /\ user = Idle /\ settings < MaxSettings /\ settings' = settings + 1
    /\ policy' = p
    /\ user' = IF of = "none" THEN Idle ELSE [at |-> "cancel", of |-> of]
    /\ UNCHANGED <<endpoint, stop, window, own, pc, hist>>

(* mcp_set_enabled(), mcp_set_approval_mode(), mcp_set_host_allowed(). *)
SetEnabled(b) == Set([policy EXCEPT !.enabled = b], IF b THEN "none" ELSE "all")
SetMode(m) == Set([policy EXCEPT !.mode = m], "all")
Allow(h) == Set([policy EXCEPT !.allowed = @ \cup {h}], "none")
Revoke(h) == Set([policy EXCEPT !.allowed = @ \ {h}], h)

(* The calls that are meant.  A new host is never the one of a command,    *)
(* and the windows of a host are found by its alias, which the command     *)
(* knows of runs only: hosts of the records workspace it names by their id.*)
Meant(c, kind) == user.of = "all" \/ (Kind(c, {kind}) /\ HostOf[c] = user.of)

(* Mutant of CancelActive: calls without a window are left alone. *)
CancelAsking ==
    /\ user.at = "cancel" /\ user' = [user EXCEPT !.at = "deny"]
    /\ cancel' = [c \in Call |-> cancel[c] \/ (c \in pending /\ Records(c))]
    /\ UNCHANGED <<policy, settings, endpoint, active, early, canceller, window, own, pc, hist>>

(* cancel_records() *)
CancelActive ==
    /\ user.at = "cancel" /\ user' = [user EXCEPT !.at = "deny"]
    /\ cancel' = [c \in Call |->
                     cancel[c] \/ (c \in active /\ Records(c) /\ Meant(c, "exec"))]
    /\ UNCHANGED <<policy, settings, endpoint, active, early, canceller, window, own, pc, hist>>

(* deny_all_pending(), or the windows of the alias. *)
DenyPending ==
    LET denied == {c \in pending : Meant(c, "run")} IN
    /\ user.at = "deny" /\ user' = Idle
    /\ pending' = pending \ denied
    /\ channel' = [c \in Call |-> IF c \in denied THEN "deny" ELSE channel[c]]
    /\ UNCHANGED <<policy, settings, endpoint, stop, expired, own, pc, hist>>

(* resolve_approval() *)
Resolve(c, answer) ==
    /\ user = Idle /\ c \in pending /\ pending' = pending \ {c}
    /\ channel' = [channel EXCEPT ![c] = IF expired[c] THEN "timedOut" ELSE answer]
    /\ yes' = IF answer = "allow" /\ ~expired[c] THEN yes \cup {c} ELSE yes
    /\ UNCHANGED <<rules, endpoint, stop, expired, own, pc, ran, saved, hushed>>

(* A host, its group or its key is edited, here or by a round. *)
ChangeEndpoint(h) ==
    /\ endpoint[h] < MaxChanges /\ \A c \in Call : ~At(c, "save")
    /\ endpoint' = [endpoint EXCEPT ![h] = @ + 1]
    /\ UNCHANGED <<rules, stop, window, own, pc, hist>>

(* 120 seconds after the window opened. *)
Expire(c) ==
    /\ pc[c] \in {"recheck", "waiting"} /\ ~expired[c]
    /\ expired' = [expired EXCEPT ![c] = TRUE]
    /\ UNCHANGED <<rules, endpoint, stop, pending, channel, own, pc, hist>>

Next ==
    \/ \E c \in Call :
          \/ Thread(c) \/ Watch(c) \/ ClientCancels(c)
          \/ \E w \in Canceller : CancelRun(c, w) \/ CancelWindow(c, w)
          \/ Expire(c) \/ \E a \in {"allow", "deny"} : Resolve(c, a)
    \/ \E b \in BOOLEAN : SetEnabled(b)
    \/ \E m \in {"ask", "auto"} : SetMode(m)
    \/ \E h \in Host : Allow(h) \/ Revoke(h) \/ ChangeEndpoint(h)
    \/ CancelActive \/ DenyPending

Spec == Init /\ [][Next]_vars

(* Threads and commands run, and a connect or a command ends; nobody has   *)
(* to answer, and no deadline is waited for.                               *)
FairSpec ==
    /\ Spec /\ WF_vars(CancelActive) /\ WF_vars(DenyPending)
    /\ \A c \in Call : /\ WF_vars(Thread(c)) /\ WF_vars(Watch(c))
                       /\ \A w \in Canceller : WF_vars(CancelWindow(c, w))

-----------------------------------------------------------------------------
Place == {"new", "capture", "policy", "register", "decide", "insert", "recheck", "waiting",
          "unpend", "check", "resolve", "connect", "connected", "start", "running", "edit",
          "save", "end", "over"}

Decision == {"none", "allow", "deny", "cancel", "timedOut"}

(* The variables have their types, and a window is that of a call that     *)
(* waits for it.                                                           *)
TypeOK ==
    /\ policy \in Policy /\ settings \in 0..MaxSettings
    /\ user \in {Idle} \cup [at : {"cancel", "deny"}, of : Host \cup {"all"}]
    /\ endpoint \in [Host -> 0..MaxChanges]
    /\ active \subseteq Call /\ early \subseteq Call /\ cancel \in [Call -> BOOLEAN]
    /\ canceller \in [Call -> [Canceller -> {"no", "pending", "done"}]]
    /\ pc \in [Call -> Place]
    /\ pending \subseteq {c \in Call : pc[c] \in {"recheck", "waiting", "unpend"}}
    /\ channel \in [Call -> Decision] /\ expired \in [Call -> BOOLEAN]
    /\ snap \in [Call -> Policy]
    /\ shown \in [Call -> 0..MaxChanges] /\ target \in [Call -> 0..MaxChanges]
    /\ decision \in [Call -> Decision] /\ watcher \in [Call -> BOOLEAN]
    /\ ran \subseteq [call : Call, on : 0..MaxChanges]
    /\ saved \subseteq [call : Call, on : 0..MaxChanges]
    /\ yes \subseteq Call /\ hushed \subseteq Call

(* What an AI tool does, the user allowed: a command of ssh_exec runs only *)
(* on the endpoint that was approved, in the mode Ask only after a yes in  *)
(* time; a host is saved only as it was shown and after a yes, in every    *)
(* mode.                                                                   *)
ConsentGiven ==
    /\ \A r \in ran : /\ Kind(r.call, {"exec"}) => r.on = shown[r.call]
                      /\ (snap[r.call].mode = "ask" \/ Kind(r.call, {"run"})) => r.call \in yes
    /\ \A s \in saved : s.on = shown[s.call] /\ s.call \in yes

(* A run that was cancelled before it was registered neither asks nor      *)
(* starts.                                                                 *)
EarlyCancelKept == \A c \in hushed : c \notin pending /\ \A r \in ran : r.call # c

CallsAllowed == ConsentGiven /\ EarlyCancelKept

(* No command of ssh_exec outlives its permission: when the command that   *)
(* switched MCP off, changed the mode or revoked the host has returned,    *)
(* every call past its check has been cancelled.                           *)
RevokedIsCancelled ==
    user = Idle =>
        \A c \in Call :
            /\ Kind(c, {"exec"}) /\ pc[c] \in {"resolve", "connect", "connected", "start", "running"}
            /\ ~Permitted(c) \/ policy.mode # snap[c].mode
            => cancel[c]

(* What the user allows holds for as long as it is allowed, and no longer. *)
CallsHonoured == TypeOK /\ CallsAllowed /\ RevokedIsCancelled

(* A call that was cancelled, or one of the records workspace that is no   *)
(* longer permitted, and has not ended.                                    *)
Stopped(c) ==
    /\ ~At(c, "over")
    /\ \/ cancel[c] \/ c \in early
       \/ Records(c) /\ ~At(c, "new") /\ ~policy.enabled
       \/ Kind(c, {"exec"}) /\ ~At(c, "new") /\ ~Permitted(c)

(* It ends, without anybody answering its window and without waiting for   *)
(* the deadline.                                                           *)
StoppedEnds == \A c \in Call : Stopped(c) ~> ~Stopped(c)
=============================================================================
