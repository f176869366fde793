---------------------------- MODULE MCConnection ----------------------------
(* What a session does with its connection, each part on its own: a client and *)
(* its calls, the session's asks, and the roster of a session without a        *)
(* broker.  The parts share nothing; a behaviour is one of the part it begins  *)
(* with, and the fairness of the others asks nothing of it.                    *)
EXTENDS BrokerClient, AskWaiter, PeerRoster

VARIABLE part

PartsInit ==
  part \in {"client", "asks", "roster"} /\ ClientInit /\ AskInit /\ RosterInit

PartsNext ==
  /\ UNCHANGED part
  /\ \/ part = "client" /\ ClientNext /\ UNCHANGED <<askVars, rosterVars>>
     \/ part = "asks"   /\ AskNext    /\ UNCHANGED <<clientVars, rosterVars>>
     \/ part = "roster" /\ RosterNext /\ UNCHANGED <<clientVars, askVars>>

PartsSpec ==
  /\ PartsInit /\ [][PartsNext]_<<part, clientVars, askVars, rosterVars>>
  /\ ClientFairness /\ AskFairness /\ RosterFairness
=============================================================================
