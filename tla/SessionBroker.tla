--------------------------- MODULE SessionBroker ---------------------------
(***************************************************************************)
(* The session broker (session/broker.rs) and the relay of a shell         *)
(* (session/relay.rs): a client opens a session, a worker thread connects  *)
(* it and runs its shell, a reader thread watches the client, and the app  *)
(* quits at any moment (end_all()), telling every client why.              *)
(*                                                                         *)
(* Each session has three kinds of threads that share the table's entry    *)
(* and a ShellControl: the reader (serve()), the worker (run_session(),    *)
(* run_shell()) and, once the app quits, a thread of end_all().  A thread  *)
(* that closes the shell waits in close_settled(): it is in closers[s].    *)
(* Calls of MCP clients and key deployments only register with the quit    *)
(* barrier: they are jobs.                                                 *)
(***************************************************************************)
EXTENDS Naturals, Sequences, FiniteSets, SequencesExt

CONSTANTS
    Session,
    Job,            \* MCP calls and deployments
    Deployments,    \* the jobs that are deployments
    Stalled,        \* sessions whose client is there and has stopped reading
    MaxJobs,        \* MCP calls at a time (16)
    MaxSize,        \* bound on the window sizes a client sends, numbered 1..
    MaxAsks         \* bound on the questions of a connect

(* What the module assumes of its constants. *)
SessionAssumption ==
    /\ Stalled \subseteq Session /\ "quit" \notin Session /\ Deployments \subseteq Job
    /\ {MaxJobs, MaxSize, MaxAsks} \subseteq Nat

VARIABLES
    entry,          \* Table.entries: NoEntry or [state, told]
    quitting,       \* Table.quitting
    job, jobCancel, \* Table.mcp and Table.deployments, and their tokens
    reader,         \* "new", "serving", "leaving", "gone", "done"
    worker,         \* where the session's thread is
    teller,         \* end_all()'s thread for a session being connected
    ender,          \* end_all()'s thread for an open session
    endAll,         \* "no", "waiting", "returned", "timedout"
    present,        \* the client is there
    cancel,         \* CancelToken
    asked,          \* Questions.waiting holds the worker's question
    ownerGone,      \* Questions.gone
    gone,           \* ShellControl.gone
    quitReason,     \* ShellControl.ended_by_app
    shell,          \* "none", "open", "closed", or how it ended
    closers,        \* threads waiting in close_settled()
    printed, settled, ended,
    forwarding,
    size, ptySize, shellSize,
    said,           \* the messages written to the client
    hungup,         \* the connection was closed by the broker
    asks            \* counter for the bound

table == <<entry, quitting, job, jobCancel>>
owner == <<present, cancel, asked, ownerGone>>
control == <<gone, quitReason, shell, closers, printed, settled, ended>>
sizes == <<size, ptySize, shellSize>>
client == <<said, hungup>>
vars == <<table, reader, worker, teller, ender, endAll, owner, control, forwarding, sizes,
          client, asks>>

NoEntry == [state |-> "none", told |-> "no"]
Entered(s) == entry[s] # NoEntry

Init ==
    /\ entry = [s \in Session |-> NoEntry] /\ quitting = FALSE
    /\ job = [j \in Job |-> "new"] /\ jobCancel = [j \in Job |-> FALSE]
    /\ reader = [s \in Session |-> "new"] /\ worker = [s \in Session |-> "none"]
    /\ teller = [s \in Session |-> "none"] /\ ender = [s \in Session |-> "none"] /\ endAll = "no"
    /\ present = [s \in Session |-> TRUE] /\ cancel = [s \in Session |-> FALSE]
    /\ asked = [s \in Session |-> FALSE] /\ ownerGone = [s \in Session |-> FALSE]
    /\ gone = [s \in Session |-> FALSE] /\ quitReason = [s \in Session |-> FALSE]
    /\ shell = [s \in Session |-> "none"] /\ closers = [s \in Session |-> {}]
    /\ printed = [s \in Session |-> FALSE] /\ settled = [s \in Session |-> FALSE]
    /\ ended = [s \in Session |-> FALSE] /\ forwarding = [s \in Session |-> FALSE]
    /\ size = [s \in Session |-> 1] /\ ptySize = [s \in Session |-> 0] /\ shellSize = [s \in Session |-> 0]
    /\ said = [s \in Session |-> <<>>] /\ hungup = [s \in Session |-> FALSE]
    /\ asks = [s \in Session |-> 0]

(* The process is there until end_all() returns. *)
Up == endAll \in {"no", "waiting"}

Set(f, s, v) == [f EXCEPT ![s] = v]
Goes(s, pc) == worker' = Set(worker, s, pc)

(* FrameLink: nothing is written after exited, or to a closed connection;  *)
(* a write to a client that has stopped reading blocks.                    *)
Finished(s) == Contains(said[s], "exited")
CanWrite(s) == s \notin Stalled \/ ~present[s] \/ hungup[s]

(* Mutant of Say: the link does not look at finished. *)
SayAnyway(s, messages) ==
    /\ CanWrite(s)
    /\ said' = IF hungup[s] THEN said ELSE Set(said, s, said[s] \o messages)

Say(s, messages) ==
    /\ CanWrite(s)
    /\ said' = IF Finished(s) \/ hungup[s] THEN said ELSE Set(said, s, said[s] \o messages)

Quiet == UNCHANGED client

-----------------------------------------------------------------------------
(* The client and the reader thread. *)

(* serve(): open_shell has arrived; enter() under the table's lock, and    *)
(* the worker's thread is started, or cannot be (could_not_start()).       *)
Open(s) ==
    /\ Up /\ reader[s] = "new" /\ present[s]
    /\ IF quitting
       THEN /\ Say(s, <<"quit", "exited">>)
            /\ reader' = Set(reader, s, "done")
            /\ UNCHANGED <<entry, worker>>
       ELSE /\ entry' = Set(entry, s, [state |-> "connecting", told |-> "no"])
            /\ \/ reader' = Set(reader, s, "serving") /\ Goes(s, "connecting")
               \/ reader' = Set(reader, s, "done") /\ Goes(s, "failed")
            /\ UNCHANGED said
    /\ UNCHANGED <<quitting, job, jobCancel, teller, ender, endAll, owner, control, forwarding,
                   sizes, hungup, asks>>

ClientLeaves(s) ==
    /\ Up /\ present[s]
    /\ present' = Set(present, s, FALSE)
    /\ UNCHANGED <<table, reader, worker, teller, ender, endAll, cancel, asked, ownerGone, control,
                   forwarding, sizes, client, asks>>

(* The end of the stream, because the client left or the broker hung up. *)
ReadEnd(s) ==
    /\ Up /\ reader[s] = "serving" /\ (~present[s] \/ hungup[s])
    /\ cancel' = Set(cancel, s, TRUE) /\ reader' = Set(reader, s, "leaving")
    /\ UNCHANGED <<table, worker, teller, ender, endAll, present, asked, ownerGone, control,
                   forwarding, sizes, client, asks>>

(* Mutant of close_settled's guard: an open shell is closed at once. *)
WaitsNever(s, who) ==
    IF shell[s] = "open" THEN shell' = Set(shell, s, "closed") /\ UNCHANGED closers
    ELSE UNCHANGED <<shell, closers>>

(* close_settled(): a shell that is not open is left alone. *)
CloseSettled(s, who) ==
    /\ closers' = IF shell[s] = "open" THEN Set(closers, s, closers[s] \cup {who}) ELSE closers
    /\ UNCHANGED shell

(* ConnectionOwner::gone(), then ShellControl::owner_gone(). *)
ReaderGone(s) ==
    /\ Up /\ reader[s] = "leaving"
    /\ ownerGone' = Set(ownerGone, s, TRUE) /\ asked' = Set(asked, s, FALSE)
    /\ gone' = Set(gone, s, TRUE)
    /\ CloseSettled(s, "reader")
    /\ reader' = Set(reader, s, "gone")
    /\ UNCHANGED <<table, worker, teller, ender, endAll, present, cancel, quitReason, printed,
                   settled, ended, forwarding, sizes, client, asks>>

(* The reader joins the worker. *)
ReaderDone(s) ==
    /\ Up /\ reader[s] = "gone" /\ "reader" \notin closers[s] /\ worker[s] = "done"
    /\ reader' = Set(reader, s, "done")
    /\ UNCHANGED <<table, worker, teller, ender, endAll, owner, control, forwarding, sizes, client, asks>>

(* resize(): remembered, and sent to the shell when there is one, under    *)
(* the lock of the size.                                                   *)
Resize(s) ==
    /\ Up /\ reader[s] = "serving" /\ present[s] /\ size[s] < MaxSize
    /\ size' = Set(size, s, size[s] + 1)
    /\ shellSize' = IF shell[s] = "none" THEN shellSize ELSE Set(shellSize, s, size[s] + 1)
    /\ UNCHANGED <<table, reader, worker, teller, ender, endAll, owner, control, forwarding, ptySize,
                   client, asks>>

-----------------------------------------------------------------------------
(* The worker: connecting. *)

(* Mutant of Ask: gone is not looked at under the lock of the questions. *)
AskUnchecked(s) ==
    /\ Up /\ worker[s] = "connecting" /\ asks[s] < MaxAsks
    /\ asks' = Set(asks, s, asks[s] + 1)
    /\ asked' = Set(asked, s, TRUE) /\ Goes(s, "asking")
    /\ UNCHANGED <<table, reader, teller, ender, endAll, present, cancel, ownerGone, control,
                   forwarding, sizes, client>>

(* ConnectionOwner::ask(): the question is entered under the lock, and     *)
(* written after it; a write that fails takes it back.                     *)
Ask(s) ==
    /\ Up /\ worker[s] = "connecting" /\ asks[s] < MaxAsks
    /\ asks' = Set(asks, s, asks[s] + 1)
    /\ IF ownerGone[s] THEN UNCHANGED <<asked, worker>>
       ELSE asked' = Set(asked, s, TRUE) /\ Goes(s, "asking")
    /\ UNCHANGED <<table, reader, teller, ender, endAll, present, cancel, ownerGone, control,
                   forwarding, sizes, client>>

AskWrites(s) ==
    /\ Up /\ worker[s] = "asking"
    /\ Say(s, <<"question">>)
    /\ IF said' = said THEN asked' = Set(asked, s, FALSE) ELSE UNCHANGED asked
    /\ Goes(s, "waiting")
    /\ UNCHANGED <<table, reader, teller, ender, endAll, present, cancel, ownerGone, control,
                   forwarding, sizes, hungup, asks>>

(* The reader delivers the answer.  (A question without a deadline is the  *)
(* one that can wait for ever: deadlines are left out.)                    *)
Answered(s) ==
    /\ Up /\ worker[s] = "waiting" /\ asked[s] /\ present[s] /\ reader[s] = "serving"
    /\ asked' = Set(asked, s, FALSE)
    /\ UNCHANGED <<table, reader, worker, teller, ender, endAll, present, cancel, ownerGone, control,
                   forwarding, sizes, client, asks>>

(* The waiting ask() wakes with an answer, or with Gone. *)
AskReturns(s) ==
    /\ Up /\ worker[s] = "waiting" /\ ~asked[s]
    /\ Goes(s, "connecting")
    /\ UNCHANGED <<table, reader, teller, ender, endAll, owner, control, forwarding, sizes, client, asks>>

(* Connector::connect(): once cancel is set the connect is over, and       *)
(* nobody is told.                                                         *)
ConnectReturns(s, ok) ==
    /\ Up /\ worker[s] = "connecting"
    /\ Goes(s, IF cancel[s] THEN "over" ELSE IF ok THEN "connected" ELSE "failed")
    /\ UNCHANGED <<table, reader, teller, ender, endAll, owner, control, forwarding, sizes, client, asks>>

(* The connect failed: claim() the telling of the client. *)
Claim(s) ==
    /\ Up /\ worker[s] = "failed"
    /\ IF gone[s] \/ ~Entered(s) \/ entry[s].told # "no" THEN Goes(s, "over") /\ UNCHANGED entry
       ELSE Goes(s, "telling") /\ entry' = [entry EXCEPT ![s].told = "session"]
    /\ UNCHANGED <<quitting, job, jobCancel, reader, teller, ender, endAll, owner, control, forwarding,
                   sizes, client, asks>>

TellFailure(s) ==
    /\ Up /\ worker[s] = "telling"
    /\ Say(s, <<"error", "exited">>) /\ Goes(s, "over")
    /\ UNCHANGED <<table, reader, teller, ender, endAll, owner, control, forwarding, sizes, hungup, asks>>

(* Mutant of Promote: end_all() may have told the client already. *)
PromoteAlways(s) ==
    /\ Up /\ worker[s] = "connected"
    /\ IF Entered(s) THEN entry' = [entry EXCEPT ![s].state = "open"] /\ Goes(s, "promoted")
       ELSE UNCHANGED entry /\ Goes(s, "over")
    /\ UNCHANGED <<quitting, job, jobCancel, reader, teller, ender, endAll, owner, control, forwarding,
                   sizes, client, asks>>

Promote(s) ==
    /\ Up /\ worker[s] = "connected"
    /\ IF Entered(s) /\ entry[s].told = "no"
       THEN entry' = [entry EXCEPT ![s].state = "open"] /\ Goes(s, "promoted")
       ELSE UNCHANGED entry /\ Goes(s, "over")
    /\ UNCHANGED <<quitting, job, jobCancel, reader, teller, ender, endAll, owner, control, forwarding,
                   sizes, client, asks>>

-----------------------------------------------------------------------------
(* The worker: run_shell(). *)

Over(s) == gone[s] \/ quitReason[s]

(* say_over(): a client that left is told nothing. *)
SayOver(s) == IF gone[s] THEN UNCHANGED said ELSE Say(s, <<"quit", "exited">>)

BeforeShell(s) ==
    /\ Up /\ worker[s] = "promoted"
    /\ IF Over(s) THEN SayOver(s) /\ Goes(s, "over") /\ UNCHANGED ptySize
       ELSE UNCHANGED said /\ Goes(s, "opening") /\ ptySize' = Set(ptySize, s, size[s])
    /\ UNCHANGED <<table, reader, teller, ender, endAll, owner, control, forwarding, size, shellSize,
                   hungup, asks>>

ShellFails(s) ==
    /\ Up /\ worker[s] = "opening"
    /\ IF Over(s) THEN SayOver(s) ELSE Say(s, <<"error", "exited">>)
    /\ Goes(s, "over")
    /\ UNCHANGED <<table, reader, teller, ender, endAll, owner, control, forwarding, sizes, hungup, asks>>

(* Session::shell() has returned, and control.opened() shows the shell. *)
ShellOpens(s) ==
    /\ Up /\ worker[s] = "opening"
    /\ shell' = Set(shell, s, "open") /\ shellSize' = Set(shellSize, s, ptySize[s])
    /\ Goes(s, "opened")
    /\ UNCHANGED <<table, reader, teller, ender, endAll, owner, gone, quitReason, closers, printed,
                   settled, ended, forwarding, size, ptySize, client, asks>>

(* Mutant of Announce: what came before the shell was open is not looked for. *)
AnnounceBlindly(s) ==
    /\ Up /\ worker[s] = "opened"
    /\ UNCHANGED <<gone, closers, shell>>
    /\ Say(s, <<"opened">>) /\ forwarding' = Set(forwarding, s, TRUE) /\ Goes(s, "sizing")
    /\ UNCHANGED <<table, reader, teller, ender, endAll, owner, quitReason, printed, settled, ended,
                   sizes, hungup, asks>>

(* A shell that nobody waits for is not announced, and closed by a thread  *)
(* of its own; a write that fails means the client is gone.                *)
Announce(s) ==
    /\ Up /\ worker[s] = "opened"
    /\ \/ /\ ~Over(s) /\ ~hungup[s] /\ Say(s, <<"opened">>)
          /\ forwarding' = Set(forwarding, s, TRUE) /\ Goes(s, "sizing")
          /\ UNCHANGED <<gone, closers, shell>>
       \/ /\ Over(s) \/ ~present[s]
          /\ gone' = IF Over(s) THEN gone ELSE Set(gone, s, TRUE)
          /\ CloseSettled(s, "scope") /\ Goes(s, "running")
          /\ UNCHANGED <<said, forwarding>>
    /\ UNCHANGED <<table, reader, teller, ender, endAll, owner, quitReason, printed, settled, ended,
                   sizes, hungup, asks>>

(* Mutant of SendSize: the size the shell was opened with is sent. *)
SendSizeOpened(s) ==
    /\ Up /\ worker[s] = "sizing"
    /\ shellSize' = Set(shellSize, s, ptySize[s]) /\ Goes(s, "running")
    /\ UNCHANGED <<table, reader, teller, ender, endAll, owner, control, forwarding, size, ptySize,
                   client, asks>>

SendSize(s) ==
    /\ Up /\ worker[s] = "sizing"
    /\ shellSize' = Set(shellSize, s, size[s]) /\ Goes(s, "running")
    /\ UNCHANGED <<table, reader, teller, ender, endAll, owner, control, forwarding, size, ptySize,
                   client, asks>>

(* Output: printed(); when it cannot be sent, the client is gone and the   *)
(* shell, which has printed, is closed.                                    *)
Output(s) ==
    /\ Up /\ worker[s] = "running" /\ shell[s] \in {"open", "closed"}
    /\ printed' = Set(printed, s, TRUE)
    /\ \/ UNCHANGED <<gone, shell, forwarding>>
       \/ /\ forwarding[s] /\ ~gone[s] /\ (~present[s] \/ hungup[s])
          /\ gone' = Set(gone, s, TRUE) /\ forwarding' = Set(forwarding, s, FALSE)
          /\ shell' = Set(shell, s, "closed")
    /\ UNCHANGED <<table, reader, worker, teller, ender, endAll, owner, quitReason, closers, settled,
                   ended, sizes, client, asks>>

(* The shell ends: with a status, refused by the server, or without either *)
(* because its connection dropped or it was closed.                        *)
ShellEnds(s) ==
    /\ Up /\ worker[s] = "running" /\ shell[s] \in {"open", "closed"}
    /\ \E how \in {"exited", "refused", IF shell[s] = "open" THEN "dropped" ELSE "closed"} :
          shell' = Set(shell, s, how)
    /\ ended' = Set(ended, s, TRUE) /\ Goes(s, "ended")
    /\ UNCHANGED <<table, reader, teller, ender, endAll, owner, gone, quitReason, closers, printed,
                   settled, forwarding, sizes, client, asks>>

(* The scope's thread is joined, and the client told how it ended. *)
TellEnding(s) ==
    /\ Up /\ worker[s] = "ended" /\ "scope" \notin closers[s]
    /\ IF gone[s] THEN UNCHANGED said
       ELSE Say(s, CASE shell[s] = "exited" -> <<"exited">>
                     [] shell[s] = "refused" -> <<"error", "exited">>
                     [] OTHER -> <<IF quitReason[s] THEN "quit" ELSE "lost", "exited">>)
    /\ Goes(s, "over")
    /\ UNCHANGED <<table, reader, teller, ender, endAll, owner, control, forwarding, sizes, hungup, asks>>

(* Mutant of Forget: the entry is taken out whoever tells the client. *)
ForgetAlways(s) ==
    /\ Up /\ worker[s] = "over"
    /\ IF Entered(s) THEN entry' = Set(entry, s, NoEntry) /\ hungup' = Set(hungup, s, TRUE)
       ELSE UNCHANGED <<entry, hungup>>
    /\ Goes(s, "done")
    /\ UNCHANGED <<quitting, job, jobCancel, reader, teller, ender, endAll, owner, control, forwarding,
                   sizes, said, asks>>

(* SessionOver: forget(). *)
Forget(s) ==
    /\ Up /\ worker[s] = "over"
    /\ IF Entered(s) /\ entry[s].told # "end_all"
       THEN entry' = Set(entry, s, NoEntry) /\ hungup' = Set(hungup, s, TRUE)
       ELSE UNCHANGED <<entry, hungup>>
    /\ Goes(s, "done")
    /\ UNCHANGED <<quitting, job, jobCancel, reader, teller, ender, endAll, owner, control, forwarding,
                   sizes, said, asks>>

-----------------------------------------------------------------------------
(* close_settled(): the settle time passes; a waiting thread goes on once  *)
(* the shell has printed, ended, or settled.                               *)
SettlePasses(s) ==
    /\ Up /\ shell[s] # "none" /\ ~settled[s]
    /\ settled' = Set(settled, s, TRUE)
    /\ UNCHANGED <<table, reader, worker, teller, ender, endAll, owner, gone, quitReason, shell,
                   closers, printed, ended, forwarding, sizes, client, asks>>

CloseNow(s, who) ==
    /\ Up /\ who \in closers[s] /\ (printed[s] \/ ended[s] \/ settled[s])
    /\ closers' = Set(closers, s, closers[s] \ {who})
    /\ shell' = IF ~ended[s] /\ shell[s] = "open" THEN Set(shell, s, "closed") ELSE shell
    /\ UNCHANGED <<table, reader, worker, teller, ender, endAll, owner, gone, quitReason, printed,
                   settled, ended, forwarding, sizes, client, asks>>

-----------------------------------------------------------------------------
(* Quitting, and the jobs of the barrier. *)

(* Mutant of EnterJob: quitting is read before the lock is taken. *)
EnterJobLate(j) ==
    /\ Up /\ job[j] = "new"
    /\ job' = [job EXCEPT ![j] = "running"]
    /\ UNCHANGED <<entry, quitting, jobCancel, reader, worker, teller, ender, endAll, owner, control,
                   forwarding, sizes, client, asks>>

(* serve_mcp(), register_deployment(): the calls of MCP clients are limited. *)
Busy(j) ==
    j \notin Deployments /\ Cardinality({i \in Job \ Deployments : job[i] = "running"}) >= MaxJobs

EnterJob(j) ==
    /\ Up /\ job[j] = "new"
    /\ job' = [job EXCEPT ![j] = IF quitting \/ Busy(j) THEN "over" ELSE "running"]
    /\ UNCHANGED <<entry, quitting, jobCancel, reader, worker, teller, ender, endAll, owner, control,
                   forwarding, sizes, client, asks>>

LeaveJob(j) ==
    /\ Up /\ job[j] = "running"
    /\ job' = [job EXCEPT ![j] = "over"]
    /\ UNCHANGED <<entry, quitting, jobCancel, reader, worker, teller, ender, endAll, owner, control,
                   forwarding, sizes, client, asks>>

(* end_all(), under the table's lock. *)
EndAll ==
    /\ endAll = "no"
    /\ quitting' = TRUE /\ endAll' = "waiting"
    /\ jobCancel' = [j \in Job |-> job[j] = "running" \/ jobCancel[j]]
    /\ LET untold == {s \in Session : entry[s].state = "connecting" /\ entry[s].told = "no"}
           open == {s \in Session : entry[s].state = "open"} IN
       /\ entry' = [s \in Session |-> IF s \in untold THEN [entry[s] EXCEPT !.told = "end_all"] ELSE entry[s]]
       /\ teller' = [s \in Session |-> IF s \in untold THEN "cancel" ELSE teller[s]]
       /\ ender' = [s \in Session |-> IF s \in open THEN "end" ELSE ender[s]]
    /\ UNCHANGED <<job, reader, worker, owner, control, forwarding, sizes, client, asks>>

(* A session being connected: cancel, gone(); then on a thread say_quit(), *)
(* hang_up(), told_quit().                                                 *)
TellerCancels(s) ==
    /\ Up /\ teller[s] = "cancel"
    /\ cancel' = Set(cancel, s, TRUE) /\ ownerGone' = Set(ownerGone, s, TRUE)
    /\ asked' = Set(asked, s, FALSE) /\ teller' = Set(teller, s, "say")
    /\ UNCHANGED <<table, reader, worker, ender, endAll, present, control, forwarding, sizes, client, asks>>

TellerSays(s) ==
    /\ Up /\ teller[s] = "say"
    /\ Say(s, <<"quit", "exited">>) /\ teller' = Set(teller, s, "hangup")
    /\ UNCHANGED <<table, reader, worker, ender, endAll, owner, control, forwarding, sizes, hungup, asks>>

TellerHangsUp(s) ==
    /\ Up /\ teller[s] = "hangup"
    /\ hungup' = Set(hungup, s, TRUE) /\ teller' = Set(teller, s, "remove")
    /\ UNCHANGED <<table, reader, worker, ender, endAll, owner, control, forwarding, sizes, said, asks>>

TellerRemoves(s) ==
    /\ Up /\ teller[s] = "remove"
    /\ entry' = Set(entry, s, NoEntry) /\ teller' = Set(teller, s, "done")
    /\ UNCHANGED <<quitting, job, jobCancel, reader, worker, ender, endAll, owner, control, forwarding,
                   sizes, client, asks>>

(* An open session: ShellControl::end(). *)
EnderEnds(s) ==
    /\ Up /\ ender[s] = "end"
    /\ quitReason' = Set(quitReason, s, TRUE) /\ ender' = Set(ender, s, "close")
    /\ UNCHANGED <<table, reader, worker, teller, endAll, owner, gone, shell, closers, printed,
                   settled, ended, forwarding, sizes, client, asks>>

EnderCloses(s) ==
    /\ Up /\ ender[s] = "close"
    /\ CloseSettled(s, "quit") /\ ender' = Set(ender, s, "done")
    /\ UNCHANGED <<table, reader, worker, teller, endAll, owner, gone, quitReason, printed, settled,
                   ended, forwarding, sizes, client, asks>>

TableEmpty == (\A s \in Session : ~Entered(s)) /\ \A j \in Job : job[j] # "running"

EndAllReturns ==
    /\ endAll = "waiting" /\ TableEmpty
    /\ endAll' = "returned"
    /\ UNCHANGED <<table, reader, worker, teller, ender, owner, control, forwarding, sizes, client, asks>>

EndAllTimesOut ==
    /\ endAll = "waiting" /\ ~TableEmpty
    /\ endAll' = "timedout"
    /\ UNCHANGED <<table, reader, worker, teller, ender, owner, control, forwarding, sizes, client, asks>>

-----------------------------------------------------------------------------
(* What the threads do by themselves. *)
Thread(s) ==
    \/ ReadEnd(s) \/ ReaderGone(s) \/ ReaderDone(s)
    \/ AskWrites(s) \/ AskReturns(s) \/ \E ok \in BOOLEAN : ConnectReturns(s, ok)
    \/ Claim(s) \/ TellFailure(s) \/ Promote(s) \/ BeforeShell(s)
    \/ ShellOpens(s) \/ ShellFails(s) \/ Announce(s) \/ SendSize(s)
    \/ (shell[s] = "closed" /\ ShellEnds(s)) \/ TellEnding(s) \/ Forget(s)

Teller(s) == TellerCancels(s) \/ TellerSays(s) \/ TellerHangsUp(s) \/ TellerRemoves(s)
Ender(s) == EnderEnds(s) \/ EnderCloses(s)
Settle(s) == SettlePasses(s) \/ \E who \in {"reader", "scope", "quit"} : CloseNow(s, who)

Next ==
    \/ \E s \in Session : \/ Thread(s) \/ Teller(s) \/ Ender(s) \/ Settle(s)
                          \/ Open(s) \/ ClientLeaves(s) \/ Resize(s) \/ Ask(s) \/ Answered(s)
                          \/ Output(s) \/ ShellEnds(s)
    \/ \E j \in Job : EnterJob(j) \/ LeaveJob(j)
    \/ EndAll \/ EndAllReturns \/ EndAllTimesOut

Spec == Init /\ [][Next]_vars

(* Threads run; the engine's connect and shell calls return; a shell that  *)
(* was closed ends; a cancelled job leaves.  Clients promise nothing.      *)
FairSpec ==
    /\ Spec
    /\ \A s \in Session : /\ WF_vars(ReadEnd(s) \/ ReaderGone(s) \/ ReaderDone(s))
                          /\ WF_vars(Thread(s)) /\ WF_vars(Teller(s)) /\ WF_vars(Ender(s))
                          /\ WF_vars(SettlePasses(s))
                          /\ \A who \in {"reader", "scope", "quit"} : WF_vars(CloseNow(s, who))
    /\ \A j \in Job : WF_vars(jobCancel[j] /\ LeaveJob(j))
    /\ WF_vars(EndAllReturns)

-----------------------------------------------------------------------------
TypeOK ==
    /\ \A s \in Session : entry[s].state \in {"none", "connecting", "open"}
                          /\ entry[s].told \in {"no", "session", "end_all"}
    /\ \A s \in Session : entry[s].state = "open" => entry[s].told = "no"
    /\ closers \in [Session -> SUBSET {"reader", "scope", "quit"}]
    /\ \A s \in Session : worker[s] \in {"promoted", "opening", "opened", "sizing", "running", "ended"}
                              => entry[s].state = "open"

(* A client is told once how its session ended, an explanation directly    *)
(* followed by exited, and nothing after it: whichever of its threads and  *)
(* end_all() come to tell it, and whatever else is being written.          *)
ToldOnce ==
    \A s \in Session : \A i \in 1..Len(said[s]) :
        /\ said[s][i] = "exited" => i = Len(said[s])
        /\ said[s][i] \in {"error", "quit", "lost"} =>
              i = Len(said[s]) - 1 /\ said[s][i + 1] = "exited"

(* When end_all() returns because the table is empty (the process exits),  *)
(* every client that had a session and is still there has been told, and   *)
(* its connection is closed.                                               *)
QuitTellsEveryone ==
    endAll = "returned" => \A s \in Session :
        worker[s] # "none" /\ present[s] => Finished(s) /\ hungup[s]

(* A client that was told the app quits is never given a shell. *)
NoShellOnceTold ==
    [][\A s \in Session : Contains(said[s], "quit") => ~(shell[s] = "none" /\ shell'[s] = "open")]_vars

(* A shell is closed only after it printed or had its time to settle: one  *)
(* closed before its prompt can strand a process on the server.            *)
ClosedAfterSettle == \A s \in Session : shell[s] = "closed" => printed[s] \/ settled[s]

(* The shell has the size the client sent last. *)
SizeReaches == \A s \in Session : worker[s] = "running" /\ forwarding[s] => shellSize[s] = size[s]

(* Whatever registers while the app quits is refused or cancelled. *)
JobsCancelled == quitting => \A j \in Job : job[j] = "running" => jobCancel[j]

(* Unless its time runs out, end_all() finds the table empty. *)
QuitEmpties == quitting ~> (endAll # "waiting")

(* The session of a client that left leaves the table. *)
LeftIsForgotten ==
    \A s \in Session : (~present[s] /\ Entered(s)) ~> (~Entered(s) \/ ~Up)
=============================================================================
