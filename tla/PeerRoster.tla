----------------------------- MODULE PeerRoster -----------------------------
(***************************************************************************)
(* Who a session knows without a broker (src/p2p/client.ts).  Each session *)
(* has a node; nodes find each other by multicast, say hello, and put the  *)
(* session that answers, or that writes of its own accord, on a roster     *)
(* that two maps make up.  A session that starts again has another node,   *)
(* and what its old one sent may be handled after that: a file transfer    *)
(* when it has been stored, an answer when its stream has been read.       *)
(*                                                                         *)
(* The module is about the roster of one node, and about the sessions that *)
(* come and go around it.                                                  *)
(***************************************************************************)
EXTENDS Naturals

CONSTANTS
  Remotes,     \* the other sessions
  MaxNode      \* bound: nodes of a session, one after the other

ASSUME RosterAssumption == MaxNode \in Nat

VARIABLES
  node,          \* per session: the number of its last node
  running,       \* the sessions whose last node runs
  linked,        \* the nodes this one has a connection to
  peers,         \* peers: per session, its node
  sessionByPeer, \* sessionByPeer: per node, its session
  helloing,      \* nodes whose answer to a hello is awaited
  storing,       \* nodes whose transfer is being received and stored
  listed         \* history: the sessions that joined and have not left, to those who listen

rosterVars == <<node, running, linked, peers, sessionByPeer, helloing, storing, listed>>

Nodes == Remotes \X (1 .. MaxNode)
Runs(p) == p[1] \in running /\ node[p[1]] = p[2]

RosterTypeOK ==
  /\ node \in [Remotes -> 0 .. MaxNode] /\ running \subseteq Remotes
  /\ linked \subseteq Nodes /\ helloing \subseteq Nodes /\ storing \subseteq Nodes
  /\ DOMAIN peers \subseteq Remotes /\ \A s \in DOMAIN peers : peers[s] \in Nodes
  /\ DOMAIN sessionByPeer \subseteq Nodes
  /\ \A p \in DOMAIN sessionByPeer : sessionByPeer[p] \in Remotes
  /\ listed \subseteq Remotes

RosterInit ==
  /\ node = [s \in Remotes |-> 0] /\ running = {}
  /\ linked = {} /\ helloing = {} /\ storing = {} /\ listed = {}
  /\ peers = <<>> /\ sessionByPeer = <<>>

---------------------------------------------------------------------------
(* The roster *)

Knows(p) == p \in DOMAIN sessionByPeer

UpsertPeer_KeepsOld(p, s) ==
  LET gone == IF Knows(p) THEN {sessionByPeer[p]} \ {s} ELSE {} IN
  /\ peers' = [x \in (DOMAIN peers \ gone) \cup {s} |-> IF x = s THEN p ELSE peers[x]]
  /\ sessionByPeer' = [q \in DOMAIN sessionByPeer \cup {p} |->
                         IF q = p THEN s ELSE sessionByPeer[q]]
  /\ listed' = listed \cup {s}

\* upsertPeer: p is the node of s now.  Its node before that, and the session that p had
\* before, are forgotten.
UpsertPeer(p, s) ==
  LET gone == IF Knows(p) THEN {sessionByPeer[p]} \ {s} ELSE {}
      old  == IF s \in DOMAIN peers THEN {peers[s]} \ {p} ELSE {} IN
  /\ peers' = [x \in (DOMAIN peers \ gone) \cup {s} |-> IF x = s THEN p ELSE peers[x]]
  /\ sessionByPeer' = [q \in (DOMAIN sessionByPeer \ old) \cup {p} |->
                         IF q = p THEN s ELSE sessionByPeer[q]]
  /\ listed' = IF s \in DOMAIN peers THEN listed ELSE listed \cup {s}

\* removePeer
RemovePeer(p) ==
  LET gone == IF Knows(p) THEN {sessionByPeer[p]} ELSE {} IN
  /\ peers' = [s \in DOMAIN peers \ gone |-> peers[s]]
  /\ sessionByPeer' = [q \in DOMAIN sessionByPeer \ {p} |-> sessionByPeer[q]]
  /\ listed' = listed \ gone

Roster == <<peers, sessionByPeer, listed>>

---------------------------------------------------------------------------
(* The others *)

StartNode(s) ==
  /\ s \notin running /\ node[s] < MaxNode
  /\ node' = [node EXCEPT ![s] = @ + 1] /\ running' = running \cup {s}
  /\ UNCHANGED <<linked, helloing, storing, Roster>>

StopNode(s) ==
  /\ s \in running /\ running' = running \ {s}
  /\ UNCHANGED <<node, linked, helloing, storing, Roster>>

---------------------------------------------------------------------------
(* This node *)

AnnounceToPeer_ToStrangers(p) ==
  /\ Runs(p) /\ p[1] \notin DOMAIN peers
  /\ helloing' = helloing \cup {p} /\ linked' = linked \cup {p}
  /\ UNCHANGED <<node, running, storing, Roster>>

\* announceToPeer: multicast has found p, or a connection to it was made.  A node that is on
\* the roster is not greeted.
AnnounceToPeer(p) ==
  /\ Runs(p) /\ ~Knows(p)
  /\ helloing' = helloing \cup {p} /\ linked' = linked \cup {p}
  /\ UNCHANGED <<node, running, storing, Roster>>

\* The answer is read, however long ago it was sent; or there is none.
HelloAnswered(p) ==
  /\ p \in helloing /\ helloing' = helloing \ {p}
  /\ UpsertPeer(p, p[1])
  /\ UNCHANGED <<node, running, linked, storing>>

HelloFails(p) ==
  /\ p \in helloing /\ helloing' = helloing \ {p}
  /\ UNCHANGED <<node, running, linked, storing, Roster>>

\* handleEnvelope: a hello, a message or a change of presence, from a node that has, or makes,
\* a connection.
Hears(p) ==
  /\ Runs(p) \/ p \in linked
  /\ linked' = linked \cup {p}
  /\ UpsertPeer(p, p[1])
  /\ UNCHANGED <<node, running, helloing, storing>>

\* handleTransferStream.  The connection may be gone by the time the files are stored.
TransferComes(p) ==
  /\ p \in linked /\ storing' = storing \cup {p}
  /\ UNCHANGED <<node, running, linked, helloing, Roster>>

TransferStored(p) ==
  /\ p \in storing /\ storing' = storing \ {p}
  /\ UpsertPeer(p, p[1])
  /\ UNCHANGED <<node, running, linked, helloing>>

TransferFails(p) ==
  /\ p \in storing /\ storing' = storing \ {p}
  /\ UNCHANGED <<node, running, linked, helloing, Roster>>

\* "peer:disconnect": the other node has stopped, or the network is cut.
Disconnected(p) ==
  /\ p \in linked /\ linked' = linked \ {p}
  /\ RemovePeer(p)
  /\ UNCHANGED <<node, running, helloing, storing>>

RosterNext ==
  \/ \E s \in Remotes : StartNode(s) \/ StopNode(s)
  \/ \E p \in Nodes : \/ AnnounceToPeer(p) \/ HelloAnswered(p) \/ HelloFails(p) \/ Hears(p)
                      \/ TransferComes(p) \/ TransferStored(p) \/ TransferFails(p)
                      \/ Disconnected(p)

\* Multicast finds a node that runs again and again, and its hellos do not all fail.
RosterFairness ==
  \A p \in Nodes : /\ WF_rosterVars(AnnounceToPeer(p))
                   /\ SF_rosterVars(HelloAnswered(p))

RosterSpec == RosterInit /\ [][RosterNext]_rosterVars /\ RosterFairness

---------------------------------------------------------------------------
(* Properties *)

\* The two maps are each other's inverse, and those who listen know the same sessions: however
\* late the old node of a session is heard, no node is taken for known that is on no roster,
\* and no session stays in the list that was announced as having left (upsertPeer, removePeer).
\* A dead node that is heard late may be put back, and is then announced again.
RosterIsOneToOne ==
  /\ \A s \in DOMAIN peers : Knows(peers[s]) /\ sessionByPeer[peers[s]] = s
  /\ \A p \in DOMAIN sessionByPeer :
       sessionByPeer[p] \in DOMAIN peers /\ peers[sessionByPeer[p]] = p
  /\ listed = DOMAIN peers

Lists(p) == p[1] \in DOMAIN peers /\ peers[p[1]] = p

\* A session that stays is listed with the node it has, whatever its old nodes left behind
\* (announceToPeer).
RunningAreListed ==
  \A p \in Nodes : <>[]Runs(p) => []<>Lists(p)
=============================================================================
