------------------------------ MODULE Sessions ------------------------------
(***************************************************************************)
(* What the app does for a terminal: setting up its connection             *)
(* (Connecting) and serving its session (SessionBroker).  The broker's     *)
(* worker runs the connect and gets an answer; the two share no other      *)
(* state and stand side by side.  Their names would clash, and the broker  *)
(* is an instance.                                                         *)
(***************************************************************************)
EXTENDS Connecting

CONSTANTS Session, Job, Deployments, Stalled, MaxJobs, MaxSize, MaxAsks

VARIABLES
    entry, quitting, job, jobCancel, reader, worker, teller, ender, endAll, present,
    token, waiting, ownerGone, gone, quitReason, shell, closers, printed, settled, ended,
    forwarding, size, ptySize, shellSize, said, hungup, asks

brokerVars == <<entry, quitting, job, jobCancel, reader, worker, teller, ender, endAll,
    present, token, waiting, ownerGone, gone, quitReason, shell, closers, printed, settled,
    ended, forwarding, size, ptySize, shellSize, said, hungup, asks>>

Broker == INSTANCE SessionBroker WITH cancel <- token, asked <- waiting

ASSUME BrokerAssumption == Broker!SessionAssumption

-----------------------------------------------------------------------------
(* A client is told once how its session ended, and nothing after it; when *)
(* end_all() finds the table empty, every client that is still there has   *)
(* been told and its connection is closed; whatever registers while the    *)
(* app quits is refused or cancelled; and a client that was told the app   *)
(* quits is never given a shell.                                           *)
EndingTold ==
    /\ [](Broker!TypeOK /\ Broker!ToldOnce /\ Broker!QuitTellsEveryone /\ Broker!JobsCancelled)
    /\ Broker!NoShellOnceTold

(* A shell is closed only after it printed or had its time to settle, and  *)
(* while it runs it has the size the client sent last.                     *)
ShellHandled == Broker!ClosedAfterSettle /\ Broker!SizeReaches

(* Nobody waits for ever: unless its time runs out end_all() finds the     *)
(* table empty, and the session of a client that left leaves the table.    *)
NobodyWaits == Broker!QuitEmpties /\ Broker!LeftIsForgotten
=============================================================================
