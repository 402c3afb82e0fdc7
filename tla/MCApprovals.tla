---------------------------- MODULE MCApprovals ----------------------------
(***************************************************************************)
(* What needs the user's consent, for TLC: signatures of the agent         *)
(* (AgentBroker) and calls of AI tools (McpCalls).  The two share nothing, *)
(* and one run checks them side by side.  Signatures come in four          *)
(* scenarios: many requests at once and requests of two programs (the      *)
(* constants of the cfg), two of one program while time passes and the old *)
(* workspace is paused, and a key with a passphrase.  Calls come one at a  *)
(* time, of each kind, until the call is over: calls meet only what the    *)
(* user, the client and the clock do.  While a run is there, which two     *)
(* parties may cancel, the settings change once.                           *)
(***************************************************************************)
EXTENDS Approvals, TLC

CONSTANTS r1, r2, r3, r4, x1, x2, exec, create, run, web

VARIABLE scenario

(* Two requests of one program for one host; of the third the program or   *)
(* the host cannot be told; the fourth is another program's.               *)
Contexts == r1 :> x1 @@ r2 :> x1 @@ r3 :> "unknown" @@ r4 :> x2

Aging == INSTANCE AgentBroker WITH MaxTime <- 2, MaxPauses <- 1
Locked == INSTANCE AgentBroker WITH
              HasPassphrase <- TRUE, Attempts <- 2, MaxTime <- 2, MaxPauses <- 1

Mcps == {exec, create, run}
Kinds == exec :> "exec" @@ create :> "create" @@ run :> "run"
Hosts == exec :> web @@ create :> web @@ run :> web

MCInit ==
    /\ scenario \in {"crowd", "others", "aging", "locked"} \cup Mcps
    /\ IF scenario = "locked" THEN Locked!Init ELSE Init
    /\ Mcp!Init
    /\ scenario \in Mcps => ~alwaysAsk
    /\ scenario \notin Mcps => policy.mode = "ask"

Idle(others) == \A r \in others : pc'[r] = "idle"

MCNext ==
    /\ UNCHANGED scenario
    /\ \/ scenario = "crowd" /\ Next /\ Idle({r4}) /\ UNCHANGED mcpVars
       \/ scenario = "others" /\ Next /\ Idle({r2, r3}) /\ UNCHANGED mcpVars
       \/ scenario = "aging" /\ Aging!Next /\ Idle({r3, r4}) /\ UNCHANGED mcpVars
       \/ scenario = "locked" /\ Locked!Next /\ Idle({r2, r3, r4}) /\ UNCHANGED mcpVars
       \/ /\ scenario \in Mcps /\ Mcp!Next /\ UNCHANGED vars
          /\ place[scenario] # "over" /\ (scenario = run => settings' <= 1)
          /\ \A c \in Mcps \ {scenario} : place'[c] = "new" /\ canceller'[c] = canceller[c]

(* Every thread runs, and ask() waits no longer than 60 s; for the calls   *)
(* of AI tools, as in McpCalls.                                            *)
MCFairness ==
    /\ \A r \in {r1, r2, r3} : WF_vars(scenario = "crowd" /\ Thread(r))
    /\ \A r \in {r1, r4} : WF_vars(scenario = "others" /\ Thread(r))
    /\ \A r \in {r1, r2} : WF_vars(scenario = "aging" /\ Aging!Thread(r))
    /\ WF_vars(scenario = "locked" /\ Locked!Thread(r1))
    /\ WF_mcpVars(scenario \in Mcps /\ Mcp!CancelActive)
    /\ WF_mcpVars(scenario \in Mcps /\ Mcp!DenyPending)
    /\ \A c \in Mcps : /\ WF_mcpVars(scenario = c /\ Mcp!Thread(c))
                       /\ WF_mcpVars(scenario = c /\ Mcp!Watch(c))
                       /\ \A w \in Mcp!Canceller :
                             WF_mcpVars(scenario = c /\ Mcp!CancelWindow(c, w))

MCSpec == MCInit /\ [][MCNext]_<<scenario, vars, mcpVars>> /\ MCFairness

-----------------------------------------------------------------------------
(* The call of the scenario must stop. *)
McpStopped == scenario \in Mcps /\ Mcp!Stopped(scenario)

(* Every request to sign is answered, and a call that was cancelled or is  *)
(* no longer permitted ends without anybody answering its window.          *)
RequestsAnswered ==
    RequestsEnd /\ (McpStopped ~> ~McpStopped)
=============================================================================
