----------------------------- MODULE Approvals -----------------------------
(***************************************************************************)
(* What needs the user's consent: signatures of the agent (AgentBroker)    *)
(* and, beside them, calls of AI tools (McpCalls).  The two share nothing; *)
(* their names would clash, so the second is an instance.                  *)
(***************************************************************************)
EXTENDS AgentBroker

CONSTANTS Call, Host, KindOf, HostOf, EarlyLimit, MaxSettings, MaxChanges

VARIABLES
    policy, user, settings, endpoint, active, early, cancel, canceller, pending, sent,
    expired, snap, shown, target, decision, watcher, place, ran, created, yes, hushed

mcpVars == <<policy, user, settings, endpoint, active, early, cancel, canceller, pending, sent,
             expired, snap, shown, target, decision, watcher, place, ran, created, yes, hushed>>

Mcp == INSTANCE McpCalls WITH channel <- sent, pc <- place, saved <- created

(* The calls' constants are what McpCalls assumes. *)
ASSUME CallsAssumption == Mcp!McpAssumption

(* Nothing is run on a host or saved as a host by an AI tool that the user *)
(* did not allow as it was shown, and a permission that was withdrawn      *)
(* stops the calls that rely on it.                                        *)
CallsHonoured == Mcp!CallsHonoured
=============================================================================
