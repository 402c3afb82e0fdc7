---------------------------- MODULE MCRelayFront ----------------------------
(***************************************************************************)
(* RelayFront for TLC: the limiter and the pull share no state, so one run *)
(* checks them side by side.  In a behaviour of one of them the variables  *)
(* of the other rest.                                                      *)
(***************************************************************************)
EXTENDS RelayFront

CONSTANTS c1, c2, c3, c4

VARIABLE scenario

(* Small limits so that every bucket can run out inside one window.        *)
SmallLimits == [create |-> 1, request |-> 3, pull |-> 3]

(* Four chains in two batches, one that fails and one that is gone; every  *)
(* answer with a row exhausts the budget, and defers the healthy chain     *)
(* behind it.                                                              *)
FourChains == <<c1, c2, c3, c4>>

(* And with a healthy chain in one batch with the one that fails.          *)
Shared == <<c1, c4, c3, c2>>

(* One row per chain, for liveness.                                        *)
Arrive == INSTANCE BatchPull WITH MaxSeq <- 1
Share == INSTANCE BatchPull WITH MaxSeq <- 1, Order <- Shared

ASSUME Arrive!BatchPullAssumption /\ Share!BatchPullAssumption

MCInit == scenario \in {"limiter", "rows", "arrive", "share"} /\ Init /\ Limiter!Init

MCNext ==
    \/ scenario = "limiter" /\ Limiter!Next /\ UNCHANGED <<scenario, vars>>
    \/ scenario = "rows" /\ Next /\ UNCHANGED <<scenario, limiterVars>>
    \/ scenario = "arrive" /\ Arrive!Next /\ UNCHANGED <<scenario, limiterVars>>
    \/ scenario = "share" /\ Share!Next /\ UNCHANGED <<scenario, limiterVars>>

(* The worker starts a round every poll interval and runs it to its end.   *)
MCSpec ==
    /\ MCInit /\ [][MCNext]_<<scenario, vars, limiterVars>>
    /\ WF_vars(scenario = "arrive" /\ Arrive!Round)
    /\ WF_vars(scenario = "share" /\ Share!Round)

-----------------------------------------------------------------------------
(* However large the other chains' answers are, and although some chain    *)
(* fails every time, every other chain's rows arrive.                      *)
EveryRowArrives == scenario \in {"arrive", "share"} => Arrive!RowsArrive
=============================================================================
