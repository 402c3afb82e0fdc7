----------------------------- MODULE MCSessions -----------------------------
(***************************************************************************)
(* Sessions for TLC: a connection and a session share no state, so one run *)
(* checks them side by side.  A behaviour is one of the scenarios below,   *)
(* in which the variables of the other module rest.  One session with one  *)
(* call; and, with no session opened, a deployment and two calls of which  *)
(* one is allowed at a time.                                               *)
(***************************************************************************)
EXTENDS Sessions, TLC

CONSTANTS s1, j1, j2, j3, c1, c2, jump, web, k1, k3

VARIABLE scenario

Brokered == {"jobs", "busy", "sizes"}

(* Keys of two types: a handshake may have none in common with the pin.    *)
TwoTypes == k1 :> "rsa" @@ k3 :> "ed25519"
KeyAuth == jump :> "key" @@ web :> "key"
PasswordFirst == jump :> "password" @@ web :> "interactive"
ThroughJump == <<jump, web>>

(* The constants of the cfg are those of one connection through a jump     *)
(* host, with passwords.  Two connections to one host, which a person also *)
(* forgets:                                                                *)
Pair == INSTANCE Connecting WITH
    Chain <- <<web>>, Auth <- KeyAuth, Saved <- {web}, Prompts <- 1

ASSUME Pair!ConnectAssumption

MCInit ==
    /\ scenario \in Brokered \cup {"pair", "hops"}
    /\ Broker!Init
    /\ IF scenario = "hops" THEN Init ELSE Pair!Init
    /\ scenario # "hops" => pins[jump] = None
    /\ scenario \notin {"pair", "hops"} => pins[web] = None

MCNext ==
    \/ /\ scenario = "jobs" /\ Broker!Next /\ size'[s1] <= 1 /\ \A j \in {j2, j3} : job'[j] = "new"
       /\ UNCHANGED <<scenario, vars>>
    \/ /\ scenario = "busy" /\ Broker!Next /\ reader'[s1] = "new"
       /\ UNCHANGED <<scenario, vars>>
    \/ /\ scenario = "sizes" /\ Broker!Next /\ job' = job
       /\ UNCHANGED <<scenario, vars>>
    \/ scenario = "pair" /\ Pair!Next /\ UNCHANGED <<scenario, brokerVars>>
    \/ /\ scenario = "hops" /\ Next /\ pc'[c2] = "new" /\ ~cancel'[c2]
       /\ UNCHANGED <<scenario, brokerVars>>

(* The fairness of the broker (FairSpec).                                  *)
MCFairness ==
    /\ \A step \in {"read", "thread", "tell", "end", "settle"} :
          WF_brokerVars(scenario \in Brokered /\
              CASE step = "read" -> \/ Broker!ReadEnd(s1) \/ Broker!ReaderGone(s1)
                                    \/ Broker!ReaderDone(s1)
                [] step = "thread" -> Broker!Thread(s1)
                [] step = "tell" -> Broker!Teller(s1)
                [] step = "end" -> Broker!Ender(s1)
                [] step = "settle" -> Broker!SettlePasses(s1))
    /\ \A who \in {"reader", "scope", "quit"} :
          WF_brokerVars(scenario \in Brokered /\ Broker!CloseNow(s1, who))
    /\ \A j \in {j1, j2, j3} :
          WF_brokerVars(scenario \in Brokered /\ jobCancel[j] /\ Broker!LeaveJob(j))
    /\ WF_brokerVars(scenario \in Brokered /\ Broker!EndAllReturns)

MCSpec == MCInit /\ [][MCNext]_<<scenario, vars, brokerVars>> /\ MCFairness
=============================================================================
