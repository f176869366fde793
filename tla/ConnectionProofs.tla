-------------------------- MODULE ConnectionProofs --------------------------
(* What holds of any number of asks that compete for the reply slot, and of *)
(* any number of remote sessions and nodes around a roster.                 *)
EXTENDS BrokerClient, AskWaiter, PeerRoster, SequenceTheorems, TLAPS

---------------------------------------------------------------------------
(* The roster *)

\* A node is only ever known as the node of its own session.
KnownByItsSession == \A p \in DOMAIN sessionByPeer : p \in Nodes /\ sessionByPeer[p] = p[1]

RosterInv == RosterTypeOK /\ RosterIsOneToOne /\ KnownByItsSession

LEMMA NodeHasSession == \A p \in Nodes : p[1] \in Remotes /\ p = <<p[1], p[2]>>
BY DEF Nodes

\* A session that is heard from p is listed with p, and with no other node.
LEMMA Upserts ==
  ASSUME RosterInv, NEW p \in Nodes, UpsertPeer(p, p[1])
  PROVE  /\ DOMAIN peers' \subseteq Remotes /\ \A s \in DOMAIN peers' : peers'[s] \in Nodes
         /\ DOMAIN sessionByPeer' \subseteq Nodes
         /\ \A q \in DOMAIN sessionByPeer' : sessionByPeer'[q] \in Remotes
         /\ listed' \subseteq Remotes
         /\ RosterIsOneToOne' /\ KnownByItsSession'
<1> USE NodeHasSession DEF RosterInv, RosterTypeOK, Knows, KnownByItsSession, RosterIsOneToOne
<1> DEFINE old == IF p[1] \in DOMAIN peers THEN {peers[p[1]]} \ {p} ELSE {}
<1>1. /\ DOMAIN peers' = DOMAIN peers \cup {p[1]}
      /\ \A s \in DOMAIN peers' : peers'[s] = IF s = p[1] THEN p ELSE peers[s]
  BY DEF UpsertPeer
<1>2. /\ DOMAIN sessionByPeer' = (DOMAIN sessionByPeer \ old) \cup {p}
      /\ \A q \in DOMAIN sessionByPeer' :
           sessionByPeer'[q] = IF q = p THEN p[1] ELSE sessionByPeer[q]
  BY DEF UpsertPeer
<1>3. listed' = DOMAIN peers'
  BY <1>1 DEF UpsertPeer
<1>4. KnownByItsSession'
  BY <1>2
<1>5. \A s \in DOMAIN peers' :
        peers'[s] \in DOMAIN sessionByPeer' /\ sessionByPeer'[peers'[s]] = s
  <2> TAKE s \in DOMAIN peers'
  <2>1. CASE s = p[1]
    BY <2>1, <1>1, <1>2
  <2>2. CASE s # p[1]
    <3>1. s \in DOMAIN peers /\ peers'[s] = peers[s] /\ sessionByPeer[peers[s]] = s
      BY <2>2, <1>1
    <3>2. peers[s] # p /\ peers[s] \notin old
      BY <2>2, <3>1
    <3> QED BY <3>1, <3>2, <1>2
  <2> QED BY <2>1, <2>2
<1>6. \A q \in DOMAIN sessionByPeer' :
        sessionByPeer'[q] \in DOMAIN peers' /\ peers'[sessionByPeer'[q]] = q
  <2> TAKE q \in DOMAIN sessionByPeer'
  <2>1. CASE q = p
    BY <2>1, <1>1, <1>2
  <2>2. CASE q # p
    <3>1. q \in DOMAIN sessionByPeer /\ q \notin old /\ sessionByPeer'[q] = sessionByPeer[q]
      BY <2>2, <1>2
    <3>2. sessionByPeer[q] # p[1]
      BY <3>1, <2>2
    <3> QED BY <3>1, <3>2, <1>1
  <2> QED BY <2>1, <2>2
<1>7. RosterIsOneToOne'
  BY <1>3, <1>5, <1>6
<1> QED BY <1>1, <1>2, <1>3, <1>4, <1>7

\* A node that is gone takes its session off the roster, and nobody else's.
LEMMA Removes ==
  ASSUME RosterInv, NEW p \in Nodes, RemovePeer(p)
  PROVE  /\ DOMAIN peers' \subseteq Remotes /\ \A s \in DOMAIN peers' : peers'[s] \in Nodes
         /\ DOMAIN sessionByPeer' \subseteq Nodes
         /\ \A q \in DOMAIN sessionByPeer' : sessionByPeer'[q] \in Remotes
         /\ listed' \subseteq Remotes
         /\ RosterIsOneToOne' /\ KnownByItsSession'
<1> USE NodeHasSession DEF RosterInv, RosterTypeOK, Knows, KnownByItsSession, RosterIsOneToOne
<1> DEFINE gone == IF p \in DOMAIN sessionByPeer THEN {sessionByPeer[p]} ELSE {}
<1>1. /\ DOMAIN peers' = DOMAIN peers \ gone /\ listed' = listed \ gone
      /\ \A s \in DOMAIN peers' : peers'[s] = peers[s]
  BY DEF RemovePeer
<1>2. /\ DOMAIN sessionByPeer' = DOMAIN sessionByPeer \ {p}
      /\ \A q \in DOMAIN sessionByPeer' : sessionByPeer'[q] = sessionByPeer[q]
  BY DEF RemovePeer
<1>3. \A s \in DOMAIN peers' :
        peers'[s] \in DOMAIN sessionByPeer' /\ sessionByPeer'[peers'[s]] = s
  BY <1>1, <1>2
<1>4. \A q \in DOMAIN sessionByPeer' :
        sessionByPeer'[q] \in DOMAIN peers' /\ peers'[sessionByPeer'[q]] = q
  <2> TAKE q \in DOMAIN sessionByPeer'
  <2>1. sessionByPeer[q] \notin gone
    BY <1>2
  <2> QED BY <2>1, <1>1, <1>2
<1>5. KnownByItsSession'
  BY <1>2
<1> QED BY <1>1, <1>2, <1>3, <1>4, <1>5

LEMMA RosterStep == RosterInv /\ [RosterNext]_rosterVars => RosterInv'
<1> SUFFICES ASSUME RosterInv, [RosterNext]_rosterVars PROVE RosterInv'
  OBVIOUS
<1> USE RosterAssumption DEF RosterInv
<1>1. ASSUME NEW s \in Remotes, StartNode(s) \/ StopNode(s) PROVE RosterInv'
  <2>1. node' \in [Remotes -> 0 .. MaxNode] /\ running' \subseteq Remotes
    BY <1>1 DEF StartNode, StopNode, RosterTypeOK
  <2>2. /\ peers' = peers /\ sessionByPeer' = sessionByPeer /\ listed' = listed
        /\ linked' = linked /\ helloing' = helloing /\ storing' = storing
    BY <1>1 DEF StartNode, StopNode, Roster
  <2> QED BY <2>1, <2>2 DEF RosterTypeOK, RosterIsOneToOne, KnownByItsSession, Nodes, Knows
<1>2. ASSUME NEW p \in Nodes, AnnounceToPeer(p) \/ HelloFails(p) \/ TransferComes(p) \/ TransferFails(p)
      PROVE  RosterInv'
  <2>1. /\ peers' = peers /\ sessionByPeer' = sessionByPeer /\ listed' = listed
        /\ node' = node /\ running' = running
    BY <1>2 DEF AnnounceToPeer, HelloFails, TransferComes, TransferFails, Roster
  <2>2. linked' \subseteq Nodes /\ helloing' \subseteq Nodes /\ storing' \subseteq Nodes
    BY <1>2 DEF AnnounceToPeer, HelloFails, TransferComes, TransferFails, RosterTypeOK
  <2> QED BY <2>1, <2>2 DEF RosterTypeOK, RosterIsOneToOne, KnownByItsSession, Knows
<1>3. ASSUME NEW p \in Nodes, HelloAnswered(p) \/ Hears(p) \/ TransferStored(p) PROVE RosterInv'
  <2>1. UpsertPeer(p, p[1]) /\ node' = node /\ running' = running
    BY <1>3 DEF HelloAnswered, Hears, TransferStored
  <2>2. linked' \subseteq Nodes /\ helloing' \subseteq Nodes /\ storing' \subseteq Nodes
    BY <1>3 DEF HelloAnswered, Hears, TransferStored, RosterTypeOK
  <2> QED BY <2>1, <2>2, Upserts DEF RosterTypeOK
<1>4. ASSUME NEW p \in Nodes, Disconnected(p) PROVE RosterInv'
  <2>1. RemovePeer(p) /\ node' = node /\ running' = running
    BY <1>4 DEF Disconnected
  <2>2. linked' \subseteq Nodes /\ helloing' \subseteq Nodes /\ storing' \subseteq Nodes
    BY <1>4 DEF Disconnected, RosterTypeOK
  <2> QED BY <2>1, <2>2, Removes DEF RosterTypeOK
<1>5. CASE UNCHANGED rosterVars
  BY <1>5 DEF rosterVars, RosterTypeOK, RosterIsOneToOne, KnownByItsSession, Knows
<1> QED BY <1>1, <1>2, <1>3, <1>4, <1>5 DEF RosterNext

\* However late the old node of a session is heard, and whatever arrives after a disconnection,
\* the two maps of the roster stay each other's inverse and agree with what listeners were told
\* (upsertPeer, removePeer).
THEOREM RosterStaysOneToOne == RosterSpec => []RosterIsOneToOne
<1>1. RosterInit => RosterInv
  BY RosterAssumption
     DEF RosterInit, RosterInv, RosterTypeOK, RosterIsOneToOne, KnownByItsSession, Nodes
<1>2. RosterInv => RosterIsOneToOne
  BY DEF RosterInv
<1> QED BY <1>1, <1>2, RosterStep, PTL DEF RosterSpec

---------------------------------------------------------------------------
(* The reply slot *)

\* A promise is made when the question is sent, and resolved by the reply that is taken.
PromiseFits(a) ==
  /\ ask[a].stage \in {"idle", "resolving"} => ask[a].promise = "none" /\ sent[a] = "no"
  /\ ask[a].promise = "none" => ask[a].stage \in {"idle", "resolving", "returned"}
  /\ (ask[a].promise = "resolved") <=> (reply[a] = "taken")

PromisesFollowStages == \A a \in Asks : PromiseFits(a)

\* An ask that has not returned has no result, and one that returns a reply was resolved.
ResultsFollowPromises ==
  \A a \in Asks :
    /\ ask[a].stage # "returned" => ask[a].result = "none"
    /\ ask[a].result = "reply" => ask[a].promise = "resolved"

\* Replies come to questions whose send has settled, and the ask returns them.
RepliesComeLate ==
  \A a \in Asks :
    /\ reply[a] # "no" => ask[a].stage \in {"waiting", "returned"}
    /\ ask[a].stage = "returned" /\ ask[a].promise = "resolved" => ask[a].result = "reply"

AskInv ==
  /\ AskTypeOK /\ SlotIsLive
  /\ PromisesFollowStages /\ ResultsFollowPromises

\* What is rejected is what the slot holds.
LEMMA RejectsTyped ==
  ASSUME AskInv, NEW b \in Asks
  PROVE  Rejected(b) \in [Asks -> AskRecord]
<1>1. ask \in [Asks -> AskRecord] /\ "rejected" \in Promises /\ replyWaiter \in Asks \cup {NoAsk}
  BY DEF AskInv, AskTypeOK, Promises
<1>2. CASE replyWaiter = NoAsk
  BY <1>1, <1>2 DEF Rejected
<1>3. CASE replyWaiter \in Asks
  <2>1. [ask EXCEPT ![replyWaiter].promise = "rejected", ![replyWaiter].cause = b] \in [Asks -> AskRecord]
    <3>1. ask[replyWaiter] \in AskRecord
      BY <1>1, <1>3
    <3>2. [ask[replyWaiter] EXCEPT !.promise = "rejected", !.cause = b] \in AskRecord
      BY <1>1, <3>1 DEF AskRecord
    <3> QED BY <1>1, <1>3, <3>2
  <2> QED BY <1>1, <2>1 DEF Rejected
<1> QED BY <1>1, <1>2, <1>3

LEMMA Rejects ==
  ASSUME AskInv, NEW b \in Asks
  PROVE  \A a \in Asks : /\ Rejected(b)[a].stage = ask[a].stage
                         /\ Rejected(b)[a].result = ask[a].result
                         /\ Rejected(b)[a].promise =
                              IF a = replyWaiter THEN "rejected" ELSE ask[a].promise
<1>1. ask \in [Asks -> AskRecord] /\ replyWaiter \in Asks \cup {NoAsk}
  BY DEF AskInv, AskTypeOK
<1>2. CASE replyWaiter = NoAsk
  BY <1>2, AskAssumption DEF Rejected
<1>3. CASE replyWaiter \in Asks
  <2> DEFINE f == [ask EXCEPT ![replyWaiter].promise = "rejected", ![replyWaiter].cause = b]
  <2>1. Rejected(b) = f
    BY <1>3, AskAssumption DEF Rejected
  <2>2. \A a \in Asks : /\ f[a].stage = ask[a].stage /\ f[a].result = ask[a].result
                        /\ f[a].promise = IF a = replyWaiter THEN "rejected" ELSE ask[a].promise
    BY <1>1, <1>3 DEF AskRecord
  <2> HIDE DEF f
  <2> QED BY <2>1, <2>2
<1> QED BY <1>1, <1>2, <1>3

\* An ask that fails leaves the slot empty.
LEMMA FailsTyped ==
  ASSUME AskInv, NEW a \in Asks, FailsWith(a)
  PROVE  ask' \in [Asks -> AskRecord]
<1> DEFINE f == Rejected(a)
<1>1. f \in [Asks -> AskRecord] /\ ask' = [f EXCEPT ![a].stage = "returned", ![a].result = "failed"]
  BY RejectsTyped DEF FailsWith
<1> HIDE DEF f
<1>2. ask' = [f EXCEPT ![a] = [f[a] EXCEPT !.stage = "returned", !.result = "failed"]]
  BY <1>1
<1>3. [f[a] EXCEPT !.stage = "returned", !.result = "failed"] \in AskRecord
  <2>1. f[a] \in AskRecord
    BY <1>1
  <2> QED BY <2>1 DEF AskRecord
<1> QED BY <1>1, <1>2, <1>3

LEMMA Fails ==
  ASSUME AskInv, NEW a \in Asks, FailsWith(a)
  PROVE  \A x \in Asks :
           /\ ask'[x].promise = IF x = replyWaiter THEN "rejected" ELSE ask[x].promise
           /\ ask'[x].stage = IF x = a THEN "returned" ELSE ask[x].stage
           /\ ask'[x].result = IF x = a THEN "failed" ELSE ask[x].result
<1> DEFINE f == Rejected(a)
<1>1. f \in [Asks -> AskRecord] /\ ask' = [f EXCEPT ![a].stage = "returned", ![a].result = "failed"]
  BY RejectsTyped DEF FailsWith
<1>2. \A x \in Asks : /\ f[x].promise = IF x = replyWaiter THEN "rejected" ELSE ask[x].promise
                      /\ f[x].stage = ask[x].stage /\ f[x].result = ask[x].result
  BY Rejects
<1> HIDE DEF f
<1>3. \A x \in Asks : /\ ask'[x].promise = f[x].promise
                      /\ ask'[x].stage = IF x = a THEN "returned" ELSE f[x].stage
                      /\ ask'[x].result = IF x = a THEN "failed" ELSE f[x].result
  BY <1>1 DEF AskRecord
<1> QED BY <1>2, <1>3

\* Whatever empties the slot by a rejection keeps the invariant.
LEMMA Empties ==
  ASSUME AskInv, NEW b \in Asks, ask' = Rejected(b), replyWaiter' = NoAsk,
         reply' = reply, sent' \in [Asks -> {"no", "under way", "delivered", "lost"}],
         \A a \in Asks : sent[a] = "no" => sent'[a] = "no"
  PROVE  AskInv' /\ (RepliesComeLate => RepliesComeLate')
<1>1. AskTypeOK /\ SlotIsLive /\ PromisesFollowStages /\ ResultsFollowPromises
  BY DEF AskInv
<1>2. \A a \in Asks :
        /\ ask'[a].stage = ask[a].stage /\ ask'[a].result = ask[a].result
        /\ ask'[a].promise = IF a = replyWaiter THEN "rejected" ELSE ask[a].promise
  BY Rejects
<1>5. AskTypeOK'
  <2>1. ask' \in [Asks -> AskRecord]
    BY RejectsTyped
  <2>2. reply' \in [Asks -> {"no", "under way", "taken", "injected"}]
    BY <1>1 DEF AskTypeOK
  <2> QED BY <1>1, <2>1, <2>2 DEF AskTypeOK
<1>6. SlotIsLive'
  <2> SUFFICES ASSUME NEW x \in Asks PROVE ask'[x].promise # "pending"
    BY AskAssumption DEF SlotIsLive
  <2>1. ask[x].promise = "pending" <=> replyWaiter = x
    BY <1>1 DEF SlotIsLive
  <2> QED BY <1>2, <2>1
<1>7. PromisesFollowStages'
  <2> SUFFICES ASSUME NEW a \in Asks PROVE PromiseFits(a)'
    BY DEF PromisesFollowStages
  <2>1. PromiseFits(a) /\ (a = replyWaiter => ask[a].promise = "pending" /\ ask[a].stage \in {"sending", "waiting"})
    BY <1>1 DEF PromisesFollowStages, SlotIsLive
  <2> QED BY <1>2, <2>1 DEF PromiseFits
<1>8. \A a \in Asks : ask'[a].promise = "resolved" <=> ask[a].promise = "resolved"
  <2> SUFFICES ASSUME NEW a \in Asks
               PROVE  ask'[a].promise = "resolved" <=> ask[a].promise = "resolved"
    OBVIOUS
  <2>1. a = replyWaiter => ask[a].promise = "pending"
    BY <1>1 DEF SlotIsLive
  <2>2. ask'[a].promise = IF a = replyWaiter THEN "rejected" ELSE ask[a].promise
    BY <1>2
  <2> HIDE <1>1, <1>2
  <2> QED BY <2>1, <2>2
<1>9. ResultsFollowPromises'
  <2>1. \A a \in Asks : ask'[a].stage = ask[a].stage /\ ask'[a].result = ask[a].result
    BY <1>2
  <2> QED BY <1>1, <1>8, <2>1 DEF ResultsFollowPromises
<1>10. RepliesComeLate => RepliesComeLate'
  <2> SUFFICES ASSUME RepliesComeLate, NEW x \in Asks
               PROVE  /\ reply'[x] # "no" => ask'[x].stage \in {"waiting", "returned"}
                      /\ /\ ask'[x].stage = "returned" /\ ask'[x].promise = "resolved"
                         => ask'[x].result = "reply"
    BY DEF RepliesComeLate
  <2>1. /\ reply[x] # "no" => ask[x].stage \in {"waiting", "returned"}
        /\ ask[x].stage = "returned" /\ ask[x].promise = "resolved" => ask[x].result = "reply"
    BY DEF RepliesComeLate
  <2>2. ask'[x].stage = ask[x].stage /\ ask'[x].result = ask[x].result
    BY <1>2
  <2>3. ask'[x].promise = "resolved" <=> ask[x].promise = "resolved"
    BY <1>8
  <2> QED BY <2>1, <2>2, <2>3
<1> QED BY <1>5, <1>6, <1>7, <1>9, <1>10 DEF AskInv

\* An ask that begins, finds the slot taken, or takes it.
LEMMA Begins ==
  ASSUME AskInv, NEW a \in Asks, Start(a) \/ Resolve(a)
  PROVE  AskInv' /\ (RepliesComeLate => RepliesComeLate')
<1> USE AskAssumption DEF AskInv
<1>0. ask \in [Asks -> AskRecord]
  BY DEF AskTypeOK
<1>1. CASE /\ ask[a].stage \in {"idle", "resolving"}
           /\ ask' = [ask EXCEPT ![a].stage = "returned", ![a].result = "failed"]
           /\ UNCHANGED <<replyWaiter, sent, reply>>
  <2>0. /\ ask[a].stage \in {"idle", "resolving"}
        /\ replyWaiter' = replyWaiter /\ sent' = sent /\ reply' = reply
    BY <1>1
  <2>1. ask' \in [Asks -> AskRecord]
    <3>1. ask' = [ask EXCEPT ![a] = [ask[a] EXCEPT !.stage = "returned", !.result = "failed"]]
      BY <1>0, <1>1
    <3>2. ask[a] \in AskRecord
      BY <1>0
    <3>3. [ask[a] EXCEPT !.stage = "returned", !.result = "failed"] \in AskRecord
      BY <3>2 DEF AskRecord, Under, Promises
    <3> QED BY <1>0, <3>1, <3>3
  <2>2. \A x \in Asks : /\ ask'[x].stage = IF x = a THEN "returned" ELSE ask[x].stage
                        /\ ask'[x].result = IF x = a THEN "failed" ELSE ask[x].result
                        /\ ask'[x].promise = ask[x].promise
    BY <1>0, <1>1 DEF AskRecord
  <2>3. AskTypeOK'
    BY <2>0, <2>1 DEF AskTypeOK
  <2>4. SlotIsLive'
    BY <2>0, <2>2 DEF SlotIsLive
  <2>5. PromisesFollowStages'
    BY <2>0, <2>2 DEF PromisesFollowStages, PromiseFits
  <2>6. ResultsFollowPromises'
    BY <2>0, <2>2 DEF PromisesFollowStages, PromiseFits, ResultsFollowPromises
  <2>7. RepliesComeLate => RepliesComeLate'
    BY <2>0, <2>2 DEF PromisesFollowStages, PromiseFits, RepliesComeLate
  <2> QED BY <2>3, <2>4, <2>5, <2>6, <2>7
<1>2. CASE /\ ask[a].stage = "idle" /\ ask' = [ask EXCEPT ![a].stage = "resolving"]
           /\ UNCHANGED <<replyWaiter, sent, reply>>
  <2>0. /\ ask[a].stage = "idle"
        /\ replyWaiter' = replyWaiter /\ sent' = sent /\ reply' = reply
    BY <1>2
  <2>1. ask' \in [Asks -> AskRecord]
    BY <1>0, <1>2 DEF AskRecord, Under
  <2>2. \A x \in Asks : /\ ask'[x].stage = IF x = a THEN "resolving" ELSE ask[x].stage
                        /\ ask'[x].result = ask[x].result /\ ask'[x].promise = ask[x].promise
    BY <1>0, <1>2 DEF AskRecord
  <2>3. AskTypeOK'
    BY <2>0, <2>1 DEF AskTypeOK
  <2>4. SlotIsLive'
    BY <2>0, <2>2 DEF SlotIsLive
  <2>5. PromisesFollowStages'
    BY <2>0, <2>2 DEF PromisesFollowStages, PromiseFits
  <2>6. ResultsFollowPromises'
    BY <2>0, <2>2 DEF PromisesFollowStages, PromiseFits, ResultsFollowPromises
  <2>7. RepliesComeLate => RepliesComeLate'
    BY <2>0, <2>2 DEF PromisesFollowStages, PromiseFits, RepliesComeLate
  <2> QED BY <2>3, <2>4, <2>5, <2>6, <2>7
<1>3. CASE /\ ask[a].stage = "resolving" /\ replyWaiter = NoAsk /\ replyWaiter' = a
           /\ ask' = [ask EXCEPT ![a].stage = "sending", ![a].promise = "pending"]
           /\ sent' = [sent EXCEPT ![a] = "under way"] /\ reply' = reply
  <2>0. ask[a].stage = "resolving" /\ replyWaiter = NoAsk /\ replyWaiter' = a /\ reply' = reply
    BY <1>3
  <2>1. ask' \in [Asks -> AskRecord]
    <3>1. ask' = [ask EXCEPT ![a] = [ask[a] EXCEPT !.stage = "sending", !.promise = "pending"]]
      BY <1>0, <1>3
    <3>2. ask[a] \in AskRecord
      BY <1>0
    <3>3. [ask[a] EXCEPT !.stage = "sending", !.promise = "pending"] \in AskRecord
      BY <3>2 DEF AskRecord, Under, Promises
    <3> QED BY <1>0, <3>1, <3>3
  <2>2. \A x \in Asks : /\ ask'[x].stage = IF x = a THEN "sending" ELSE ask[x].stage
                        /\ ask'[x].promise = IF x = a THEN "pending" ELSE ask[x].promise
                        /\ ask'[x].result = ask[x].result
    BY <1>0, <1>3 DEF AskRecord
  <2>3. sent' \in [Asks -> {"no", "under way", "delivered", "lost"}]
    <3>1. sent' = [sent EXCEPT ![a] = "under way"]
      BY <1>3
    <3>2. sent \in [Asks -> {"no", "under way", "delivered", "lost"}]
      BY DEF AskTypeOK
    <3> QED BY <3>1, <3>2
  <2>4. \A x \in Asks : x # a => sent'[x] = sent[x]
    <3>1. sent' = [sent EXCEPT ![a] = "under way"]
      BY <1>3
    <3> QED BY <3>1 DEF AskTypeOK
  <2>5. AskTypeOK'
    BY <2>0, <2>1, <2>3 DEF AskTypeOK
  <2>6. SlotIsLive'
    BY <2>0, <2>2, AskAssumption DEF SlotIsLive
  <2>7. PromisesFollowStages'
    BY <2>0, <2>2, <2>4 DEF PromisesFollowStages, PromiseFits
  <2>8. ResultsFollowPromises'
    BY <2>0, <2>2 DEF PromisesFollowStages, PromiseFits, ResultsFollowPromises
  <2>9. RepliesComeLate => RepliesComeLate'
    BY <2>0, <2>2 DEF PromisesFollowStages, PromiseFits, RepliesComeLate
  <2> QED BY <2>5, <2>6, <2>7, <2>8, <2>9
<1> QED BY <1>1, <1>2, <1>3 DEF Start, Resolve, Return

\* An ask that fails: in the catch, or because its question was not delivered.
LEMMA Failures ==
  ASSUME AskInv, NEW a \in Asks, FailsWith(a), reply' = reply,
         \/ ask[a].stage \in {"resolving", "sending"}
         \/ ask[a].stage = "waiting" /\ ask[a].promise = "rejected",
         sent' \in [Asks -> {"no", "under way", "delivered", "lost"}],
         \A x \in Asks : sent[x] = "no" => sent'[x] = "no"
  PROVE  AskInv' /\ (RepliesComeLate => RepliesComeLate')
<1>1. AskTypeOK /\ SlotIsLive /\ PromisesFollowStages /\ ResultsFollowPromises /\ replyWaiter' = NoAsk
  BY DEF AskInv, FailsWith
<1>4. \A x \in Asks :
        /\ ask'[x].promise = IF x = replyWaiter THEN "rejected" ELSE ask[x].promise
        /\ ask'[x].stage = IF x = a THEN "returned" ELSE ask[x].stage
        /\ ask'[x].result = IF x = a THEN "failed" ELSE ask[x].result
  BY Fails
<1>5. AskTypeOK'
  <2>1. ask' \in [Asks -> AskRecord]
    BY FailsTyped
  <2>2. reply' \in [Asks -> {"no", "under way", "taken", "injected"}]
    BY <1>1 DEF AskTypeOK
  <2> QED BY <1>1, <2>1, <2>2 DEF AskTypeOK
<1>6. SlotIsLive'
  <2> SUFFICES ASSUME NEW x \in Asks PROVE ask'[x].promise # "pending"
    BY <1>1, AskAssumption DEF SlotIsLive
  <2>1. ask[x].promise = "pending" <=> replyWaiter = x
    BY <1>1 DEF SlotIsLive
  <2> QED BY <1>4, <2>1
<1>7. PromisesFollowStages'
  <2> SUFFICES ASSUME NEW x \in Asks PROVE PromiseFits(x)'
    BY DEF PromisesFollowStages
  <2>1. PromiseFits(x) /\ (x = replyWaiter => ask[x].promise = "pending" /\ ask[x].stage \in {"sending", "waiting"})
    BY <1>1 DEF PromisesFollowStages, SlotIsLive
  <2> QED BY <1>4, <2>1 DEF PromiseFits
<1>8. ResultsFollowPromises'
  <2> SUFFICES ASSUME NEW x \in Asks
               PROVE  /\ ask'[x].stage # "returned" => ask'[x].result = "none"
                      /\ ask'[x].result = "reply" => ask'[x].promise = "resolved"
    BY DEF ResultsFollowPromises
  <2>1. /\ ask[x].stage # "returned" => ask[x].result = "none"
        /\ ask[x].result = "reply" => ask[x].promise = "resolved"
        /\ x = replyWaiter => ask[x].promise = "pending"
    BY <1>1 DEF ResultsFollowPromises, SlotIsLive
  <2>2. /\ ask'[x].promise = IF x = replyWaiter THEN "rejected" ELSE ask[x].promise
        /\ ask'[x].stage = IF x = a THEN "returned" ELSE ask[x].stage
        /\ ask'[x].result = IF x = a THEN "failed" ELSE ask[x].result
    BY <1>4
  <2> HIDE <1>1, <1>4
  <2> QED BY <2>1, <2>2
<1>9. RepliesComeLate => RepliesComeLate'
  <2> SUFFICES ASSUME RepliesComeLate, NEW x \in Asks
               PROVE  /\ reply'[x] # "no" => ask'[x].stage \in {"waiting", "returned"}
                      /\ /\ ask'[x].stage = "returned" /\ ask'[x].promise = "resolved"
                         => ask'[x].result = "reply"
    BY DEF RepliesComeLate
  <2>1. ask[a].promise # "resolved"
    BY <1>1 DEF RepliesComeLate, PromisesFollowStages, PromiseFits
  <2>2. /\ reply[x] # "no" => ask[x].stage \in {"waiting", "returned"}
        /\ ask[x].stage = "returned" /\ ask[x].promise = "resolved" => ask[x].result = "reply"
    BY DEF RepliesComeLate
  <2>3. /\ ask'[x].promise = IF x = replyWaiter THEN "rejected" ELSE ask[x].promise
        /\ ask'[x].stage = IF x = a THEN "returned" ELSE ask[x].stage
        /\ ask'[x].result = IF x = a THEN "failed" ELSE ask[x].result
    BY <1>4
  <2> HIDE <1>1, <1>4
  <2>4. CASE x = a
    <3>1. ask'[x].stage = "returned" /\ ask'[x].promise # "resolved"
      BY <2>1, <2>3, <2>4
    <3> QED BY <3>1
  <2>5. CASE x # a
    <3>1. /\ ask'[x].stage = ask[x].stage /\ ask'[x].result = ask[x].result
          /\ ask'[x].promise = "resolved" => ask[x].promise = "resolved"
      BY <2>3, <2>5
    <3> QED BY <2>2, <3>1
  <2> QED BY <2>4, <2>5
<1> QED BY <1>5, <1>6, <1>7, <1>8, <1>9 DEF AskInv

LEMMA Settles ==
  ASSUME AskInv, NEW a \in Asks, ResolveThrows(a) \/ SendSettles(a) \/ Wake(a)
  PROVE  AskInv' /\ (RepliesComeLate => RepliesComeLate')
<1> USE AskAssumption DEF AskInv
<1>0. ask \in [Asks -> AskRecord]
  BY DEF AskTypeOK
<1>1. CASE /\ ask[a].stage = "sending" /\ sent[a] = "delivered"
           /\ ask' = [ask EXCEPT ![a].stage = "waiting"]
           /\ UNCHANGED <<replyWaiter, sent, reply>>
  <2>0. /\ ask[a].stage = "sending"
        /\ replyWaiter' = replyWaiter /\ sent' = sent /\ reply' = reply
    BY <1>1
  <2>1. ask' \in [Asks -> AskRecord]
    BY <1>0, <1>1 DEF AskRecord, Under
  <2>2. \A x \in Asks : /\ ask'[x].stage = IF x = a THEN "waiting" ELSE ask[x].stage
                        /\ ask'[x].result = ask[x].result /\ ask'[x].promise = ask[x].promise
    BY <1>0, <1>1 DEF AskRecord
  <2>3. AskTypeOK'
    BY <2>0, <2>1 DEF AskTypeOK
  <2>4. SlotIsLive'
    BY <2>0, <2>2 DEF SlotIsLive
  <2>5. PromisesFollowStages'
    BY <2>0, <2>2 DEF PromisesFollowStages, PromiseFits
  <2>6. ResultsFollowPromises'
    BY <2>0, <2>2 DEF PromisesFollowStages, PromiseFits, ResultsFollowPromises
  <2>7. RepliesComeLate => RepliesComeLate'
    BY <2>0, <2>2 DEF PromisesFollowStages, PromiseFits, RepliesComeLate
  <2> QED BY <2>3, <2>4, <2>5, <2>6, <2>7
<1>2. CASE /\ ask[a].stage = "waiting" /\ ask[a].promise = "resolved"
           /\ ask' = [ask EXCEPT ![a].stage = "returned", ![a].result = "reply"]
           /\ UNCHANGED <<replyWaiter, sent, reply>>
  <2>0. /\ ask[a].stage = "waiting" /\ ask[a].promise = "resolved"
        /\ replyWaiter' = replyWaiter /\ sent' = sent /\ reply' = reply
    BY <1>2
  <2>1. ask' \in [Asks -> AskRecord]
    <3>1. ask' = [ask EXCEPT ![a] = [ask[a] EXCEPT !.stage = "returned", !.result = "reply"]]
      BY <1>0, <1>2
    <3>2. ask[a] \in AskRecord
      BY <1>0
    <3>3. [ask[a] EXCEPT !.stage = "returned", !.result = "reply"] \in AskRecord
      BY <3>2 DEF AskRecord, Under, Promises
    <3> QED BY <1>0, <3>1, <3>3
  <2>2. \A x \in Asks : /\ ask'[x].stage = IF x = a THEN "returned" ELSE ask[x].stage
                        /\ ask'[x].result = IF x = a THEN "reply" ELSE ask[x].result
                        /\ ask'[x].promise = ask[x].promise
    BY <1>0, <1>2 DEF AskRecord
  <2>3. AskTypeOK'
    BY <2>0, <2>1 DEF AskTypeOK
  <2>4. SlotIsLive'
    BY <2>0, <2>2 DEF SlotIsLive
  <2>5. PromisesFollowStages'
    BY <2>0, <2>2 DEF PromisesFollowStages, PromiseFits
  <2>6. ResultsFollowPromises'
    BY <2>0, <2>2 DEF PromisesFollowStages, PromiseFits, ResultsFollowPromises
  <2>7. RepliesComeLate => RepliesComeLate'
    BY <2>0, <2>2 DEF PromisesFollowStages, PromiseFits, RepliesComeLate
  <2> QED BY <2>3, <2>4, <2>5, <2>6, <2>7
<1>3. CASE /\ FailsWith(a)
           /\ \/ ResolveThrows(a)
              \/ Wake(a) /\ ask[a].promise = "rejected"
  <2>1. sent' = sent /\ sent \in [Asks -> {"no", "under way", "delivered", "lost"}]
    BY <1>3 DEF AskTypeOK, ResolveThrows, Wake
  <2> QED BY <1>3, <2>1, Failures DEF ResolveThrows, Wake
<1>4. CASE /\ FailsWith(a) /\ reply' = reply /\ ask[a].stage = "sending"
           /\ sent' = [sent EXCEPT ![a] = IF @ = "under way" THEN "lost" ELSE @]
  <2>1. /\ sent' \in [Asks -> {"no", "under way", "delivered", "lost"}]
        /\ \A x \in Asks : sent[x] = "no" => sent'[x] = "no"
    BY <1>4 DEF AskTypeOK
  <2>2. FailsWith(a) /\ reply' = reply /\ ask[a].stage = "sending"
    BY <1>4
  <2> QED BY <2>1, <2>2, Failures
<1> HIDE DEF AskInv
<1>5. CASE ResolveThrows(a)
  BY <1>3, <1>5 DEF ResolveThrows
<1>6. CASE SendSettles(a)
  BY <1>1, <1>4, <1>6 DEF SendSettles
<1>7. CASE Wake(a)
  <2>1. CASE ask[a].promise = "resolved" /\ Return(a, "reply") /\ UNCHANGED replyWaiter
    BY <1>2, <1>7, <2>1 DEF Wake, Return
  <2>2. CASE ask[a].promise = "rejected" /\ FailsWith(a)
    BY <1>3, <1>7, <2>2
  <2> QED BY <1>7, <2>1, <2>2 DEF Wake
<1> QED BY <1>5, <1>6, <1>7

\* An abort empties the slot if the promise is the aborted ask's.
LEMMA Aborts ==
  ASSUME AskInv, NEW a \in Asks, Abort(a)
  PROVE  AskInv' /\ (RepliesComeLate => RepliesComeLate')
<1> USE AskAssumption DEF AskInv
<1>0. ask \in [Asks -> AskRecord] /\ "rejected" \in Promises
  BY DEF AskTypeOK, Promises
<1> DEFINE p == IF ask[a].promise = "pending" THEN "rejected" ELSE ask[a].promise
           c == IF ask[a].promise = "pending" THEN a ELSE ask[a].cause
<1>1. ask' = [ask EXCEPT ![a].aborted = TRUE, ![a].promise = p, ![a].cause = c]
  BY <1>0 DEF Abort, AskRecord
<1>2. p \in Promises /\ c \in Asks \cup {NoAsk} /\ TRUE \in BOOLEAN
  BY <1>0 DEF AskRecord
<1>3. \A x \in Asks : /\ ask'[x].stage = ask[x].stage /\ ask'[x].result = ask[x].result
                      /\ ask'[x].promise = IF x = a THEN p ELSE ask[x].promise
  <2> HIDE DEF p, c
  <2> QED BY <1>0, <1>1 DEF AskRecord
<1>4. ask' \in [Asks -> AskRecord]
  <2> DEFINE r == [ask[a] EXCEPT !.aborted = TRUE, !.promise = p, !.cause = c]
  <2>1. r \in AskRecord
    <3> HIDE DEF p, c
    <3> QED BY <1>0, <1>2 DEF AskRecord
  <2>2. ask' = [ask EXCEPT ![a] = r]
    BY <1>0, <1>1
  <2> HIDE DEF r
  <2> QED BY <1>0, <2>1, <2>2
<1>5. /\ replyWaiter' = IF replyWaiter = a THEN NoAsk ELSE replyWaiter
      /\ sent' = sent /\ reply' = reply
  BY DEF Abort
<1>6. AskTypeOK' /\ SlotIsLive'
  BY <1>3, <1>4, <1>5 DEF AskTypeOK, SlotIsLive
<1>7. PromisesFollowStages' /\ ResultsFollowPromises' /\ (RepliesComeLate => RepliesComeLate')
  BY <1>3, <1>5 DEF PromisesFollowStages, PromiseFits, RepliesComeLate, ResultsFollowPromises, SlotIsLive
<1> QED BY <1>6, <1>7

\* Questions and replies on their way.
LEMMA Travels ==
  ASSUME AskInv, NEW a \in Asks, Deliver(a) \/ Answer(a) \/ ReplyArrives(a)
  PROVE  AskInv' /\ (InOrder /\ RepliesComeLate => RepliesComeLate')
<1> USE AskAssumption DEF AskInv
<1>0. ask \in [Asks -> AskRecord] /\ "resolved" \in Promises
  BY DEF AskTypeOK, Promises
<1>1. CASE Deliver(a)
  <2>1. /\ sent' \in [Asks -> {"no", "under way", "delivered", "lost"}]
        /\ \A x \in Asks : sent[x] = "no" => sent'[x] = "no" \/ sent[a] = "no"
        /\ \A x \in Asks : x # a => sent'[x] = sent[x]
        /\ sent[a] = "under way"
        /\ replyWaiter' = replyWaiter /\ ask' = ask /\ reply' = reply
    BY <1>1 DEF Deliver, AskTypeOK
  <2>2. AskTypeOK' /\ SlotIsLive' /\ ResultsFollowPromises' /\ (RepliesComeLate => RepliesComeLate')
    BY <2>1 DEF AskTypeOK, SlotIsLive, ResultsFollowPromises, RepliesComeLate
  <2>3. PromisesFollowStages'
    BY <2>1 DEF PromisesFollowStages, PromiseFits
  <2> QED BY <2>2, <2>3
<1>2. CASE Answer(a)
  <2>1. /\ reply' \in [Asks -> {"no", "under way", "taken", "injected"}]
        /\ \A x \in Asks : reply'[x] = IF x = a THEN "under way" ELSE reply[x]
        /\ replyWaiter' = replyWaiter /\ ask' = ask /\ sent' = sent
        /\ sent[a] = "delivered" /\ reply[a] = "no"
    BY <1>2 DEF Answer, AskTypeOK
  <2>2. InOrder => ask[a].stage # "sending"
    BY <1>2 DEF Answer
  <2>3. ask[a].stage # "sending" => ask[a].stage \in {"waiting", "returned"}
    BY <1>0, <2>1 DEF PromisesFollowStages, PromiseFits, AskRecord, Under
  <2>4. AskTypeOK' /\ SlotIsLive' /\ ResultsFollowPromises'
    BY <2>1 DEF AskTypeOK, SlotIsLive, ResultsFollowPromises
  <2>6. PromisesFollowStages'
    BY <2>1 DEF PromisesFollowStages, PromiseFits
  <2>5. ask[a].stage # "sending" /\ RepliesComeLate => RepliesComeLate'
    BY <2>1, <2>3 DEF RepliesComeLate
  <2> QED BY <2>2, <2>4, <2>5, <2>6
<1>3. CASE ReplyArrives(a) /\ replyWaiter = a
  <2>1. /\ reply' \in [Asks -> {"no", "under way", "taken", "injected"}]
        /\ \A x \in Asks : reply'[x] = IF x = a THEN "taken" ELSE reply[x]
        /\ replyWaiter' = NoAsk /\ sent' = sent
        /\ ask' = [ask EXCEPT ![a].promise = "resolved"] /\ reply[a] = "under way"
    BY <1>3 DEF ReplyArrives, AskTypeOK
  <2>2. ask' \in [Asks -> AskRecord]
    <3>1. ask' = [ask EXCEPT ![a] = [ask[a] EXCEPT !.promise = "resolved"]]
      BY <1>0, <2>1
    <3>2. ask[a] \in AskRecord
      BY <1>0
    <3>3. [ask[a] EXCEPT !.promise = "resolved"] \in AskRecord
      BY <3>2 DEF AskRecord, Under, Promises
    <3> QED BY <1>0, <3>1, <3>3
  <2>3. \A x \in Asks : /\ ask'[x].stage = ask[x].stage /\ ask'[x].result = ask[x].result
                        /\ ask'[x].promise = IF x = a THEN "resolved" ELSE ask[x].promise
    BY <1>0, <2>1 DEF AskRecord
  <2>4. /\ replyWaiter = a /\ replyWaiter' = NoAsk /\ sent' = sent
        /\ \A x \in Asks : reply'[x] = IF x = a THEN "taken" ELSE reply[x]
        /\ ask[a].promise = "pending" /\ ask[a].stage \in {"sending", "waiting"} /\ reply[a] # "no"
    BY <1>3, <2>1 DEF SlotIsLive
  <2>5. AskTypeOK'
    BY <2>1, <2>2 DEF AskTypeOK
  <2>6. SlotIsLive'
    BY <2>3, <2>4 DEF SlotIsLive
  <2>7. PromisesFollowStages'
    BY <2>3, <2>4 DEF PromisesFollowStages, PromiseFits
  <2>8. ResultsFollowPromises'
    BY <2>3, <2>4 DEF ResultsFollowPromises
  <2>9. RepliesComeLate => RepliesComeLate'
    BY <2>3, <2>4 DEF RepliesComeLate
  <2> QED BY <2>5, <2>6, <2>7, <2>8, <2>9
<1>4. CASE ReplyArrives(a) /\ replyWaiter # a
  <2>1. /\ reply' \in [Asks -> {"no", "under way", "taken", "injected"}]
        /\ \A x \in Asks : reply'[x] = IF x = a THEN "injected" ELSE reply[x]
        /\ replyWaiter' = replyWaiter /\ ask' = ask /\ sent' = sent /\ reply[a] = "under way"
    BY <1>4 DEF ReplyArrives, AskTypeOK
  <2>2. AskTypeOK' /\ SlotIsLive' /\ ResultsFollowPromises'
    BY <2>1 DEF AskTypeOK, SlotIsLive, ResultsFollowPromises
  <2>3. PromisesFollowStages' /\ (RepliesComeLate => RepliesComeLate')
    BY <2>1 DEF PromisesFollowStages, PromiseFits, RepliesComeLate
  <2> QED BY <2>2, <2>3
<1> QED BY <1>1, <1>2, <1>3, <1>4

LEMMA AskStep ==
  ASSUME AskInv, [AskNext]_askVars
  PROVE  AskInv' /\ (InOrder /\ RepliesComeLate => RepliesComeLate')
<1>1. ASSUME NEW a \in Asks, WaiterTimeout(a) PROVE AskInv' /\ (RepliesComeLate => RepliesComeLate')
  <2>1. sent' = sent /\ sent \in [Asks -> {"no", "under way", "delivered", "lost"}]
    BY <1>1 DEF WaiterTimeout, AskInv, AskTypeOK
  <2> QED BY <1>1, <2>1, Empties DEF WaiterTimeout
<1>2. ASSUME EndOfConnection PROVE AskInv' /\ (RepliesComeLate => RepliesComeLate')
  <2>1. replyWaiter \in Asks
    BY <1>2 DEF EndOfConnection, AskInv, AskTypeOK
  <2>2. /\ sent' \in [Asks -> {"no", "under way", "delivered", "lost"}]
        /\ \A a \in Asks : sent[a] = "no" => sent'[a] = "no"
    BY <1>2 DEF EndOfConnection, AskInv, AskTypeOK
  <2> QED BY <1>2, <2>1, <2>2, Empties DEF EndOfConnection
<1>3. ASSUME UNCHANGED askVars PROVE AskInv' /\ (RepliesComeLate => RepliesComeLate')
  BY <1>3 DEF askVars, AskInv, AskTypeOK, SlotIsLive, PromisesFollowStages, PromiseFits, RepliesComeLate,
              ResultsFollowPromises
<1> QED BY <1>1, <1>2, <1>3, Begins, Settles, Aborts, Travels DEF AskNext

LEMMA AskInvHolds == AskSpec => []AskInv
<1>1. AskInit => AskInv
  <2> SUFFICES ASSUME AskInit PROVE AskInv
    OBVIOUS
  <2>1. [stage |-> "idle", promise |-> "none", aborted |-> FALSE, result |-> "none", cause |-> NoAsk]
          \in AskRecord
    BY DEF AskRecord, Promises
  <2>2. AskTypeOK
    BY <2>1 DEF AskInit, AskTypeOK
  <2> QED BY <2>2, AskAssumption DEF AskInit, AskInv, SlotIsLive, PromisesFollowStages, PromiseFits,
                                     ResultsFollowPromises
<1>2. AskInv /\ [AskNext]_askVars => AskInv'
  BY AskStep
<1> QED BY <1>1, <1>2, PTL DEF AskSpec

\* The reply slot holds the one ask whose promise is pending, and that ask is under way: however
\* asks end, none leaves a waiter behind that would refuse every later ask (waitForReply).
THEOREM SlotsAreLive == AskSpec => []SlotIsLive
<1>1. AskInv => SlotIsLive
  BY DEF AskInv
<1> QED BY <1>1, AskInvHolds, PTL

\* Where the answer to a send comes before the replies to its message, as it does from the
\* broker, a reply that was taken from the agent's sight is what its own ask returns.
THEOREM TakenRepliesAreReturned == ASSUME InOrder PROVE AskSpec => []TakenIsReturned
<1>1. AskInit => RepliesComeLate
  <2> SUFFICES ASSUME AskInit PROVE RepliesComeLate
    OBVIOUS
  <2>1. \A a \in Asks : reply[a] = "no" /\ ask[a].stage = "idle"
    BY DEF AskInit
  <2> QED BY <2>1 DEF RepliesComeLate
<1>2. AskInv /\ RepliesComeLate /\ [AskNext]_askVars => RepliesComeLate'
  BY AskStep
<1>3. AskInv /\ RepliesComeLate => TakenIsReturned
  BY DEF AskInv, TakenIsReturned, PromisesFollowStages, PromiseFits, ResultsFollowPromises, RepliesComeLate
<1> QED BY <1>1, <1>2, <1>3, AskInvHolds, PTL DEF AskSpec

---------------------------------------------------------------------------
(* The client's calls *)

\* A call that waits has what will settle it.
WillSettle(c) ==
  /\ call[c].stage # "stuck"
  /\ call[c].stage \in {"listing", "relisting"} <=> c \in pendingLists
  /\ call[c].stage \in {"sent", "resent"} =>
       call[c].id \in MessageIds /\ pendingSends[call[c].id] = c

\* Only a list is without a message, and only the first stage of a call is a list's.
NamesItsMessage(c) ==
  call[c].stage \in Waiting =>
    IF call[c].kind = "list" THEN call[c].id = NoCall /\ call[c].stage = "listing"
                             ELSE call[c].id \in MessageIds

\* The entry of a message is of a call that waits for the answer about it.
EntryIsOwn(m) ==
  pendingSends[m] # NoCall =>
    call[pendingSends[m]].id = m /\ call[pendingSends[m]].stage \in {"sent", "resent"}

\* No two calls wait with one message.
OneCallPerMessage ==
  \A c, d \in Calls :
    c # d /\ call[c].stage \in Waiting /\ call[d].stage \in Waiting /\ call[c].id # NoCall
      => call[c].id # call[d].id

\* A frame that is no list names the message it sends or cancels.
ProperFrames == {f \in Frames : f.type # "list" => f.id \in MessageIds}

CallsAgree ==
  /\ \A c \in Calls : WillSettle(c) /\ NamesItsMessage(c)
  /\ \A m \in MessageIds : EntryIsOwn(m)
  /\ OneCallPerMessage

\* A client that is not connected has nothing pending.
NothingPendingApart ==
  tcp \in {"none", "opening", "ended", "closed"} =>
    pendingLists = {} /\ \A m \in MessageIds : pendingSends[m] = NoCall

ClientInv == ClientTypeOK /\ wire \in Seq(ProperFrames) /\ CallsAgree /\ NothingPendingApart

CallRecords == [kind : Kinds, id : MessageIds \cup {NoCall},
                stage : Waiting \cup {"idle", "done", "stuck"}]

\* The table of lists, and the table of messages, follow call c to its next record r, which
\* is one that c may have.
ListsFollow(c, r) ==
  /\ pendingLists' \subseteq Calls \cup {Probe}
  /\ \A d \in Calls : d # c => (d \in pendingLists' <=> d \in pendingLists)
  /\ r.stage \in {"listing", "relisting"} <=> c \in pendingLists'

EntriesFollow(c, r) ==
  /\ pendingSends' \in [MessageIds -> Calls \cup {NoCall}]
  /\ \A m \in MessageIds : pendingSends'[m] # pendingSends[m]
       => pendingSends[m] \in {c, NoCall} /\ pendingSends'[m] \in {c, NoCall}
  /\ \A m \in MessageIds : pendingSends'[m] = c => m = r.id /\ r.stage \in {"sent", "resent"}
  /\ r.stage \in {"sent", "resent"} => r.id \in MessageIds /\ pendingSends'[r.id] = c

RecordFits(c, r) ==
  /\ r.stage # "stuck"
  /\ r.stage \in Waiting => IF r.kind = "list" THEN r.id = NoCall /\ r.stage = "listing"
                                              ELSE r.id \in MessageIds
  /\ \A d \in Calls : d # c /\ call[d].stage \in Waiting /\ r.stage \in Waiting /\ r.id # NoCall
                      => call[d].id # r.id

\* Where one call goes on, to r, it is enough to look at that call and at its entries.
LEMMA OneCallMoves ==
  ASSUME ClientInv, NEW c \in Calls, NEW r \in CallRecords, call' = [call EXCEPT ![c] = r],
         ListsFollow(c, r), EntriesFollow(c, r), RecordFits(c, r)
  PROVE  CallsAgree' /\ call' \in [Calls -> CallRecords]
<1> USE DEF ListsFollow, EntriesFollow, RecordFits
<1>1. call \in [Calls -> CallRecords] /\ pendingSends \in [MessageIds -> Calls \cup {NoCall}]
  BY DEF ClientInv, ClientTypeOK, CallRecords
<1>2. call'[c] = r /\ \A d \in Calls : d # c => call'[d] = call[d]
  BY <1>1
<1>3. ASSUME NEW d \in Calls PROVE WillSettle(d)'
  <2>1. CASE d = c
    BY <1>2, <2>1 DEF WillSettle
  <2>2. CASE d # c
    <3>1. WillSettle(d) /\ call'[d] = call[d] /\ (d \in pendingLists' <=> d \in pendingLists)
      BY <1>2, <2>2 DEF ClientInv, CallsAgree
    <3>2. d # NoCall
      BY ClientAssumption
    <3> QED BY <2>2, <3>1, <3>2 DEF WillSettle
  <2> QED BY <2>1, <2>2
<1>4. ASSUME NEW d \in Calls PROVE NamesItsMessage(d)'
  BY <1>2 DEF NamesItsMessage, ClientInv, CallsAgree
<1>5. ASSUME NEW m \in MessageIds PROVE EntryIsOwn(m)'
  <2>1. CASE pendingSends'[m] = c
    BY <1>2, <2>1 DEF EntryIsOwn
  <2>2. CASE pendingSends'[m] \notin {c, NoCall}
    <3>1. pendingSends'[m] = pendingSends[m] /\ pendingSends[m] \in Calls
      BY <1>1, <2>2
    <3> QED BY <1>2, <2>2, <3>1 DEF EntryIsOwn, ClientInv, CallsAgree
  <2> QED BY <2>1, <2>2 DEF EntryIsOwn
<1>6. OneCallPerMessage'
  <2> SUFFICES ASSUME NEW d \in Calls, NEW e \in Calls, d # e, call'[d].stage \in Waiting,
                      call'[e].stage \in Waiting, call'[d].id # NoCall
               PROVE  call'[d].id # call'[e].id
    BY DEF OneCallPerMessage
  <2>1. CASE d = c \/ e = c
    BY <1>2, <2>1
  <2>2. CASE d # c /\ e # c
    BY <1>2, <2>2 DEF ClientInv, CallsAgree, OneCallPerMessage
  <2> QED BY <2>1, <2>2
<1>7. call' \in [Calls -> CallRecords]
  BY <1>1
<1> QED BY <1>3, <1>4, <1>5, <1>6, <1>7 DEF CallsAgree

\* Where all that is pending fails, nobody waits.
LEMMA AllFail ==
  ASSUME ClientInv, FailPending
  PROVE  /\ CallsAgree' /\ NothingPendingApart'
         /\ call' \in [Calls -> CallRecords]
         /\ pendingSends' \in [MessageIds -> Calls \cup {NoCall}] /\ pendingLists' \subseteq Calls \cup {Probe}
<1> DEFINE failing == pendingLists \cup {pendingSends[m] : m \in MessageIds}
<1>1. /\ call \in [Calls -> CallRecords]
      /\ pendingSends' = [m \in MessageIds |-> NoCall] /\ pendingLists' = {}
      /\ call' = [c \in Calls |-> IF c \in failing THEN [call[c] EXCEPT !.stage = "done"] ELSE call[c]]
  BY DEF FailPending, ClientInv, ClientTypeOK, CallRecords
<1> HIDE DEF failing
<1>2. ASSUME NEW c \in Calls
      PROVE  call'[c] \in CallRecords /\ call'[c].stage \notin Waiting \cup {"stuck"}
  <2>1. call[c] \in CallRecords /\ WillSettle(c)
    BY <1>1 DEF ClientInv, CallsAgree
  <2>2. CASE c \in failing
    BY <1>1, <2>1, <2>2 DEF CallRecords, Waiting
  <2>3. CASE c \notin failing
    <3>1. c \notin pendingLists /\ \A m \in MessageIds : pendingSends[m] # c
      BY <2>3 DEF failing
    <3>2. call[c].stage \notin Waiting \cup {"stuck"}
      BY <2>1, <3>1 DEF WillSettle, Waiting
    <3> QED BY <1>1, <2>1, <2>3, <3>2
  <2> QED BY <2>2, <2>3
<1>3. ASSUME NEW c \in Calls PROVE (WillSettle(c) /\ NamesItsMessage(c))'
  BY <1>1, <1>2 DEF WillSettle, NamesItsMessage, Waiting
<1>4. ASSUME NEW m \in MessageIds PROVE EntryIsOwn(m)'
  BY <1>1 DEF EntryIsOwn
<1>5. OneCallPerMessage'
  BY <1>2 DEF OneCallPerMessage
<1>6. CallsAgree'
  BY <1>3, <1>4, <1>5 DEF CallsAgree
<1>7. NothingPendingApart'
  BY <1>1 DEF NothingPendingApart
<1>8. call' \in [Calls -> CallRecords]
  BY <1>1, <1>2
<1> QED BY <1>1, <1>6, <1>7, <1>8

\* A step that leaves the calls and their tables alone, or takes the heartbeat's list out of
\* one or puts it in.
LEMMA CallsUntouched ==
  ASSUME ClientInv, UNCHANGED <<call, pendingSends>>,
         pendingLists' \in {pendingLists, pendingLists \cup {Probe}, pendingLists \ {Probe}}
  PROVE  /\ CallsAgree' /\ call' \in [Calls -> CallRecords]
         /\ pendingSends' \in [MessageIds -> Calls \cup {NoCall}] /\ pendingLists' \subseteq Calls \cup {Probe}
<1>1. \A c \in Calls : c \in pendingLists' <=> c \in pendingLists
  BY ClientAssumption
<1>2. ASSUME NEW c \in Calls PROVE (WillSettle(c) /\ NamesItsMessage(c))'
  BY <1>1 DEF ClientInv, CallsAgree, WillSettle, NamesItsMessage
<1>3. ASSUME NEW m \in MessageIds PROVE EntryIsOwn(m)'
  BY DEF ClientInv, CallsAgree, EntryIsOwn
<1>4. OneCallPerMessage'
  BY DEF ClientInv, CallsAgree, OneCallPerMessage
<1>5. CallsAgree'
  BY <1>2, <1>3, <1>4 DEF CallsAgree
<1> QED BY <1>5 DEF ClientInv, ClientTypeOK, CallRecords

\* A frame of a call, or of the heartbeat, is written.
LEMMA Writing ==
  ASSUME NEW q \in Seq(ProperFrames), NEW c \in Calls \cup {Probe},
         NEW type \in {"list", "send", "cancel_message"},
         NEW m \in MessageIds \cup {NoCall}, type # "list" => m \in MessageIds
  PROVE  Append(q, Frame(c, type, m)) \in Seq(ProperFrames)
<1>1. Frame(c, type, m) \in ProperFrames
  BY DEF Frame, Frames, ProperFrames
<1> QED BY <1>1

\* The type of the rest of the state, and of the wire.
LEMMA ClientTypes ==
  ASSUME ClientInv, wire' \in Seq(ProperFrames), call' \in [Calls -> CallRecords],
         pendingSends' \in [MessageIds -> Calls \cup {NoCall}], pendingLists' \subseteq Calls \cup {Probe},
         UNCHANGED tcpVars, UNCHANGED mute
  PROVE  ClientTypeOK'
<1>1. wire' \in Seq(Frames)
  BY DEF ProperFrames
<1> QED BY <1>1 DEF ClientInv, ClientTypeOK, tcpVars, CallRecords

LEMMA ConnectionKeeps ==
  ASSUME ClientInv, Dial \/ Registered \/ ConnectFails \/ Lose \/ CloseEvent \/ Disconnect \/ GoMute
  PROVE  ClientInv'
<1>1. wire' \in {wire, <<>>}
  BY DEF Dial, Registered, ConnectFails, Lose, CloseEvent, Disconnect, GoMute
<1>2. wire' \in Seq(ProperFrames) /\ wire' \in Seq(Frames)
  <2>1. <<>> \in Seq(ProperFrames) /\ <<>> \in Seq(Frames)
    OBVIOUS
  <2>2. wire \in Seq(ProperFrames) /\ wire \in Seq(Frames)
    BY DEF ClientInv, ClientTypeOK
  <2> QED BY <1>1, <2>1, <2>2
<1>3. /\ CallsAgree' /\ NothingPendingApart'
      /\ call' \in [Calls -> CallRecords]
      /\ pendingSends' \in [MessageIds -> Calls \cup {NoCall}] /\ pendingLists' \subseteq Calls \cup {Probe}
  <2>1. CASE CloseEvent \/ Disconnect
    BY <2>1, AllFail DEF CloseEvent, Disconnect
  <2>2. CASE Dial \/ Registered \/ ConnectFails \/ Lose \/ GoMute
    <3>1. UNCHANGED callVars
      BY <2>2 DEF Dial, Registered, ConnectFails, Lose, GoMute
    <3>2. NothingPendingApart'
      BY <2>2, <3>1 DEF Dial, Registered, ConnectFails, Lose, GoMute, ClientInv,
                        NothingPendingApart, tcpVars, callVars
    <3> QED BY <3>1, <3>2, CallsUntouched DEF callVars
  <2> QED BY <2>1, <2>2
<1>4. /\ tcp' \in Sockets
      /\ {disconnecting', registered', told', mute'} \subseteq BOOLEAN
      /\ connecting' \in {"no", "pending", "resolved", "rejected"}
      /\ leaving' \in {"no", "pending", "resolved"}
  <2> USE DEF ClientInv, ClientTypeOK, Sockets
  <2>1. CASE Dial \/ Registered
    BY <2>1 DEF Dial, Registered
  <2>2. CASE ConnectFails \/ Lose
    BY <2>2 DEF ConnectFails, Lose
  <2>3. CASE CloseEvent
    BY <2>3 DEF CloseEvent
  <2>4. CASE Disconnect \/ GoMute
    BY <2>4 DEF Disconnect, GoMute, tcpVars
  <2> QED BY <2>1, <2>2, <2>3, <2>4
<1> QED BY <1>2, <1>3, <1>4 DEF ClientInv, ClientTypeOK, CallRecords

LEMMA ClientInitHolds == ClientInit => ClientInv
<1> SUFFICES ASSUME ClientInit PROVE ClientInv
  OBVIOUS
<1>1. wire \in Seq(Frames) /\ wire \in Seq(ProperFrames)
  BY DEF ClientInit
<1>2. \A c \in Calls : call[c] = [kind |-> "list", id |-> NoCall, stage |-> "idle"]
  BY DEF ClientInit
<1>3. call \in [Calls -> [kind : Kinds, id : MessageIds \cup {NoCall},
                          stage : Waiting \cup {"idle", "done", "stuck"}]]
  BY DEF ClientInit, Kinds
<1>4. ClientTypeOK
  BY <1>1, <1>3 DEF ClientInit, ClientTypeOK, Sockets
<1>5. CallsAgree
  BY <1>2 DEF ClientInit, CallsAgree, WillSettle, NamesItsMessage, EntryIsOwn, OneCallPerMessage, Waiting
<1> QED BY <1>1, <1>4, <1>5 DEF ClientInit, ClientInv, NothingPendingApart

\* What the invariant says of one call, or of one entry.
LEMMA OfOneCall ==
  ASSUME ClientInv, NEW c \in Calls
  PROVE  /\ call[c] \in CallRecords /\ WillSettle(c) /\ NamesItsMessage(c)
         /\ \A m \in MessageIds : pendingSends[m] = c
              => m = call[c].id /\ call[c].stage \in {"sent", "resent"}
<1>1. call[c] \in CallRecords
  BY DEF ClientInv, ClientTypeOK, CallRecords
<1>2. c # NoCall
  BY ClientAssumption
<1> QED BY <1>1, <1>2 DEF ClientInv, CallsAgree, EntryIsOwn

\* A call that goes on to a list.
LEMMA GoesToList ==
  ASSUME ClientInv, NEW c \in Calls, NEW r \in CallRecords,
         call' = [call EXCEPT ![c] = r],
         IF call[c].stage \in {"sent", "resent"}
         THEN pendingSends' = [pendingSends EXCEPT ![call[c].id] = NoCall]
         ELSE pendingSends' = pendingSends,
         r.stage \in {"listing", "relisting"}, pendingLists' = pendingLists \cup {c},
         IF r.kind = "list" THEN r.id = NoCall /\ r.stage = "listing" ELSE r.id \in MessageIds,
         \A d \in Calls : d # c /\ call[d].stage \in Waiting /\ r.id # NoCall => call[d].id # r.id
  PROVE  CallsAgree' /\ call' \in [Calls -> CallRecords]
         /\ pendingSends' \in [MessageIds -> Calls \cup {NoCall}]
<1>1. pendingSends \in [MessageIds -> Calls \cup {NoCall}] /\ pendingLists \subseteq Calls \cup {Probe}
  BY DEF ClientInv, ClientTypeOK
<1>2. pendingSends' \in [MessageIds -> Calls \cup {NoCall}]
  BY <1>1
<1>3. c # NoCall
  BY ClientAssumption
<1>4. ASSUME NEW m \in MessageIds
      PROVE  /\ pendingSends'[m] # c
             /\ pendingSends'[m] # pendingSends[m]
                  => pendingSends[m] = c /\ pendingSends'[m] = NoCall
  BY <1>1, <1>3, OfOneCall DEF WillSettle
<1>5. pendingLists' \subseteq Calls \cup {Probe}
  BY <1>1
<1>6. ListsFollow(c, r)
  BY <1>1 DEF ListsFollow
<1>7. EntriesFollow(c, r)
  BY <1>2, <1>4 DEF EntriesFollow
<1>8. RecordFits(c, r)
  BY DEF RecordFits, Waiting
<1> QED BY <1>2, <1>6, <1>7, <1>8, OneCallMoves

\* A call that goes on to its message.
LEMMA GoesToMessage ==
  ASSUME ClientInv, NEW c \in Calls, NEW r \in CallRecords,
         call[c].stage \notin {"sent", "resent"},
         call' = [call EXCEPT ![c] = r],
         r.stage \in {"sent", "resent"}, r.kind # "list", r.id \in MessageIds,
         pendingSends' = [pendingSends EXCEPT ![r.id] = c],
         pendingLists' = pendingLists \ {c},
         \A d \in Calls : d # c /\ call[d].stage \in Waiting => call[d].id # r.id
  PROVE  CallsAgree' /\ call' \in [Calls -> CallRecords]
         /\ pendingSends' \in [MessageIds -> Calls \cup {NoCall}]
<1>1. pendingSends \in [MessageIds -> Calls \cup {NoCall}] /\ pendingLists \subseteq Calls \cup {Probe}
  BY DEF ClientInv, ClientTypeOK
<1>2. pendingSends' \in [MessageIds -> Calls \cup {NoCall}]
  BY <1>1
<1>3. pendingSends[r.id] \in {c, NoCall}
  <2> SUFFICES ASSUME pendingSends[r.id] \in Calls, pendingSends[r.id] # c PROVE FALSE
    BY <1>1
  <2> DEFINE d == pendingSends[r.id]
  <2>1. call[d].id = r.id /\ call[d].stage \in {"sent", "resent"}
    BY OfOneCall
  <2> QED BY <2>1 DEF Waiting
<1>4. ASSUME NEW m \in MessageIds
      PROVE  /\ pendingSends'[m] = c => m = r.id
             /\ pendingSends'[m] # pendingSends[m] => m = r.id /\ pendingSends'[m] = c
  BY <1>1, OfOneCall
<1>5. pendingSends'[r.id] = c
  BY <1>1
<1>6. pendingLists' \subseteq Calls \cup {Probe}
  BY <1>1
<1>7. ListsFollow(c, r)
  BY <1>1 DEF ListsFollow
<1>8. EntriesFollow(c, r)
  BY <1>2, <1>3, <1>4, <1>5 DEF EntriesFollow
<1>9. RecordFits(c, r)
  BY DEF RecordFits, Waiting
<1> QED BY <1>2, <1>7, <1>8, <1>9, OneCallMoves

\* A call that ends, or never was one: its entries go with it.
LEMMA Ends ==
  ASSUME ClientInv, NEW c \in Calls, NEW r \in CallRecords,
         call' = [call EXCEPT ![c] = r], r.stage = "done",
         pendingLists' = pendingLists \ {c},
         IF call[c].stage \in {"sent", "resent"}
         THEN pendingSends' = [pendingSends EXCEPT ![call[c].id] = NoCall]
         ELSE pendingSends' = pendingSends
  PROVE  CallsAgree' /\ call' \in [Calls -> CallRecords]
         /\ pendingSends' \in [MessageIds -> Calls \cup {NoCall}]
<1>1. pendingSends \in [MessageIds -> Calls \cup {NoCall}] /\ pendingLists \subseteq Calls \cup {Probe}
  BY DEF ClientInv, ClientTypeOK
<1>2. pendingSends' \in [MessageIds -> Calls \cup {NoCall}]
  BY <1>1
<1>3. c # NoCall
  BY ClientAssumption
<1>4. ASSUME NEW m \in MessageIds
      PROVE  /\ pendingSends'[m] # c
             /\ pendingSends'[m] # pendingSends[m]
                  => pendingSends[m] = c /\ pendingSends'[m] = NoCall
  BY <1>1, <1>3, OfOneCall DEF WillSettle
<1>5. pendingLists' \subseteq Calls \cup {Probe}
  BY <1>1
<1>6. ListsFollow(c, r)
  BY <1>1 DEF ListsFollow
<1>7. EntriesFollow(c, r)
  BY <1>2, <1>4 DEF EntriesFollow
<1>8. RecordFits(c, r)
  BY DEF RecordFits, Waiting
<1> QED BY <1>2, <1>6, <1>7, <1>8, OneCallMoves

LEMMA BeginCallKeeps ==
  ASSUME ~Overlaps, ClientInv, NEW c \in Calls, NEW kind \in Kinds,
         NEW m \in MessageIds \cup {NoCall}, BeginCall(c, kind, m)
  PROVE  ClientInv'
<1> DEFINE Stage(stage) == [kind |-> kind, id |-> m, stage |-> stage]
<1>1. /\ call[c].stage = "idle" /\ (kind = "list" <=> m = NoCall)
      /\ kind # "list" => \A d \in Calls : call[d].stage \in Waiting => call[d].id # m
      /\ UNCHANGED <<tcpVars, mute>>
  BY DEF BeginCall
<1>2. c \notin pendingLists /\ \A s \in {"done", "listing", "sent"} : Stage(s) \in CallRecords
  BY <1>1, OfOneCall DEF WillSettle, CallRecords, Waiting
<1>3. wire \in Seq(ProperFrames)
  BY DEF ClientInv
<1>4. /\ CallsAgree' /\ call' \in [Calls -> CallRecords]
      /\ pendingSends' \in [MessageIds -> Calls \cup {NoCall}]
      /\ pendingLists' \subseteq Calls \cup {Probe} /\ wire' \in Seq(ProperFrames)
      /\ ~Active => UNCHANGED <<pendingSends, pendingLists>>
  <2>1. pendingLists \subseteq Calls \cup {Probe}
    BY DEF ClientInv, ClientTypeOK
  <2>2. CASE ~Active
    <3>1. call' = [call EXCEPT ![c] = Stage("done")] /\ UNCHANGED <<pendingSends, pendingLists, wire>>
      <4>1. call' = [call EXCEPT ![c] = Stage("done")]
        BY <2>2 DEF BeginCall
      <4>2. UNCHANGED <<pendingSends, pendingLists, wire>>
        BY <2>2 DEF BeginCall
      <4> QED BY <4>1, <4>2
    <3>2. pendingLists' = pendingLists \ {c}
      BY <1>2, <3>1
    <3>3. Stage("done").stage = "done" /\ Stage("done") \in CallRecords
      BY <1>2
    <3>4. CallsAgree' /\ call' \in [Calls -> CallRecords]
          /\ pendingSends' \in [MessageIds -> Calls \cup {NoCall}]
      <4> HIDE DEF Stage
      <4> QED BY <1>1, <3>1, <3>2, <3>3, Ends
    <3> QED BY <1>3, <2>1, <3>1, <3>4
  <2>3. CASE Active /\ kind \in {"list", "exact"}
    <3>1. call' = [call EXCEPT ![c] = Stage("listing")] /\ List(c) /\ pendingSends' = pendingSends
      BY <2>3 DEF BeginCall
    <3>2. /\ Stage("listing").stage = "listing" /\ Stage("listing") \in CallRecords
          /\ Stage("listing").kind = kind /\ Stage("listing").id = m
      BY <1>2
    <3>3. /\ IF kind = "list" THEN m = NoCall ELSE m \in MessageIds
          /\ \A d \in Calls : d # c /\ call[d].stage \in Waiting /\ m # NoCall => call[d].id # m
      BY <1>1
    <3>4. CallsAgree' /\ call' \in [Calls -> CallRecords]
          /\ pendingSends' \in [MessageIds -> Calls \cup {NoCall}]
      <4> HIDE DEF Stage
      <4> QED BY <1>1, <3>1, <3>2, <3>3, GoesToList DEF List
    <3>5. wire' \in Seq(ProperFrames)
      BY <1>3, <3>1, Writing DEF List
    <3> QED BY <2>1, <2>3, <3>1, <3>4, <3>5 DEF List
  <2>4. CASE Active /\ kind \notin {"list", "exact"}
    <3>1. /\ call' = [call EXCEPT ![c] = Stage("sent")] /\ pendingLists' = pendingLists
          /\ Post(c, m, "send") \/ Post(c, m, "cancel_message")
      BY <2>4 DEF BeginCall, Kinds
    <3>2. pendingLists' = pendingLists \ {c}
      BY <1>2, <3>1
    <3>3. /\ Stage("sent").stage = "sent" /\ Stage("sent") \in CallRecords
          /\ Stage("sent").kind = kind /\ Stage("sent").id = m /\ kind # "list"
      BY <1>2, <2>4
    <3>4. m \in MessageIds /\ \A d \in Calls : d # c /\ call[d].stage \in Waiting => call[d].id # m
      BY <1>1, <2>4
    <3>5. CallsAgree' /\ call' \in [Calls -> CallRecords]
          /\ pendingSends' \in [MessageIds -> Calls \cup {NoCall}]
      <4> HIDE DEF Stage
      <4> QED BY <1>1, <3>1, <3>2, <3>3, <3>4, GoesToMessage DEF Post
    <3>6. wire' \in Seq(ProperFrames)
      <4>1. /\ Append(wire, Frame(c, "send", m)) \in Seq(ProperFrames)
            /\ Append(wire, Frame(c, "cancel_message", m)) \in Seq(ProperFrames)
        BY <1>3, <3>4, Writing
      <4> QED BY <3>1, <4>1 DEF Post
    <3> QED BY <2>1, <2>4, <3>1, <3>5, <3>6
  <2> QED BY <2>2, <2>3, <2>4
<1>5. NothingPendingApart'
  BY <1>1, <1>4 DEF ClientInv, NothingPendingApart, Active, tcpVars
<1>6. ClientTypeOK'
  BY <1>1, <1>4, ClientTypes
<1> QED BY <1>4, <1>5, <1>6 DEF ClientInv

\* The session list a call waited for, with what is left on the wire.
LEMMA ListedKeeps ==
  ASSUME ClientInv, NEW c \in Calls, c \in pendingLists, Listed(c), wire # <<>>,
         pendingLists' = pendingLists \ {c}
  PROVE  /\ CallsAgree' /\ call' \in [Calls -> CallRecords]
         /\ pendingSends' \in [MessageIds -> Calls \cup {NoCall}] /\ wire' \in Seq(ProperFrames)
<1> DEFINE Stage(stage) == [call[c] EXCEPT !.stage = stage]
<1>1. /\ call[c] \in CallRecords /\ call[c].stage \in {"listing", "relisting"}
      /\ IF call[c].kind = "list" THEN call[c].id = NoCall /\ call[c].stage = "listing"
                                  ELSE call[c].id \in MessageIds
  BY OfOneCall DEF WillSettle, NamesItsMessage, Waiting
<1>2. call \in [Calls -> CallRecords]
  BY DEF ClientInv, ClientTypeOK, CallRecords
<1>3. Tail(wire) \in Seq(ProperFrames)
  BY DEF ClientInv
<1>4. ASSUME NEW s \in {"sent", "resent", "done"}
      PROVE  /\ Stage(s) \in CallRecords /\ Stage(s).stage = s
             /\ Stage(s).kind = call[c].kind /\ Stage(s).id = call[c].id
  BY <1>1 DEF CallRecords, Waiting
<1>5. ASSUME NEW s \in {"sent", "resent"}, call' = [call EXCEPT ![c] = Stage(s)],
             pendingSends' = [pendingSends EXCEPT ![call[c].id] = c], call[c].kind # "list",
             wire' = Append(Tail(wire), Frame(c, "send", call[c].id))
      PROVE  /\ CallsAgree' /\ call' \in [Calls -> CallRecords]
             /\ pendingSends' \in [MessageIds -> Calls \cup {NoCall}] /\ wire' \in Seq(ProperFrames)
  <2>1. call[c].id \in MessageIds /\ call[c].id # NoCall
    BY <1>1, <1>5, ClientAssumption
  <2>2. \A d \in Calls : d # c /\ call[d].stage \in Waiting => call[d].id # call[c].id
    <3>1. call[c].stage \in Waiting
      BY <1>1 DEF Waiting
    <3> QED BY <2>1, <3>1 DEF ClientInv, CallsAgree, OneCallPerMessage
  <2>3. wire' \in Seq(ProperFrames)
    BY <1>3, <1>5, <2>1, Writing
  <2>4. /\ Stage(s) \in CallRecords /\ Stage(s).stage \in {"sent", "resent"}
        /\ Stage(s).kind # "list" /\ Stage(s).id = call[c].id
    BY <1>4, <1>5
  <2>5. call[c].stage \notin {"sent", "resent"}
    BY <1>1
  <2>6. CallsAgree' /\ call' \in [Calls -> CallRecords]
        /\ pendingSends' \in [MessageIds -> Calls \cup {NoCall}]
    <3>1. /\ call' = [call EXCEPT ![c] = Stage(s)] /\ Stage(s).id \in MessageIds
          /\ pendingSends' = [pendingSends EXCEPT ![Stage(s).id] = c]
          /\ \A d \in Calls : d # c /\ call[d].stage \in Waiting => call[d].id # Stage(s).id
      <4> HIDE DEF Stage
      <4> QED BY <1>5, <2>1, <2>2, <2>4
    <3> HIDE DEF Stage
    <3> QED BY <2>4, <2>5, <3>1, GoesToMessage
  <2> QED BY <2>3, <2>6
<1>6. ASSUME call' = [call EXCEPT ![c] = Stage("done")], wire' = Tail(wire), pendingSends' = pendingSends
      PROVE  /\ CallsAgree' /\ call' \in [Calls -> CallRecords]
             /\ pendingSends' \in [MessageIds -> Calls \cup {NoCall}] /\ wire' \in Seq(ProperFrames)
  <2>1. Stage("done") \in CallRecords /\ Stage("done").stage = "done"
    BY <1>4
  <2> HIDE DEF Stage
  <2> QED BY <1>1, <1>3, <1>6, <2>1, Ends
<1>7. CASE call[c].kind = "exact" /\ call[c].stage = "listing"
  BY <1>1, <1>2, <1>5, <1>7 DEF Listed
<1>8. CASE call[c].stage = "relisting"
  BY <1>1, <1>2, <1>5, <1>6, <1>8 DEF Listed
<1>9. CASE ~(call[c].kind = "exact" /\ call[c].stage = "listing") /\ call[c].stage # "relisting"
  BY <1>1, <1>2, <1>6, <1>9 DEF Listed
<1> QED BY <1>7, <1>8, <1>9

LEMMA AnswerListKeeps == ClientInv /\ AnswerList => ClientInv'
<1> SUFFICES ASSUME ClientInv, AnswerList PROVE ClientInv'
  OBVIOUS
<1>1. /\ wire # <<>> /\ tcp = "open" /\ UNCHANGED <<tcpVars, mute>>
      /\ pendingLists' = pendingLists \ {Head(wire).of}
      /\ IF Head(wire).of \in pendingLists /\ Head(wire).of # Probe
         THEN Listed(Head(wire).of)
         ELSE wire' = Tail(wire) /\ UNCHANGED <<call, pendingSends>>
  BY DEF AnswerList
<1>2. pendingLists \subseteq Calls \cup {Probe}
  BY DEF ClientInv, ClientTypeOK
<1>3. /\ CallsAgree' /\ call' \in [Calls -> CallRecords]
      /\ pendingSends' \in [MessageIds -> Calls \cup {NoCall}] /\ wire' \in Seq(ProperFrames)
  <2>1. CASE Head(wire).of \in pendingLists /\ Head(wire).of # Probe
    <3>1. PICK c \in Calls : c = Head(wire).of
      BY <1>2, <2>1
    <3> QED BY <1>1, <2>1, <3>1, ListedKeeps
  <2>2. CASE ~(Head(wire).of \in pendingLists /\ Head(wire).of # Probe)
    <3>1. pendingLists' \in {pendingLists, pendingLists \ {Probe}}
      BY <1>1, <2>2
    <3>2. UNCHANGED <<call, pendingSends>> /\ wire' = Tail(wire)
      BY <1>1, <2>2
    <3>3. wire' \in Seq(ProperFrames)
      BY <1>1, <3>2 DEF ClientInv
    <3> QED BY <3>1, <3>2, <3>3, CallsUntouched
  <2> QED BY <2>1, <2>2
<1>4. pendingLists' \subseteq Calls \cup {Probe}
  BY <1>1, <1>2
<1>5. ClientTypeOK'
  BY <1>1, <1>3, <1>4, ClientTypes
<1>6. NothingPendingApart'
  BY <1>1 DEF NothingPendingApart, tcpVars
<1> QED BY <1>3, <1>5, <1>6 DEF ClientInv

LEMMA AnswerSendKeeps ==
  ASSUME ClientInv, NEW how \in Answers, AnswerSend(how)
  PROVE  ClientInv'
<1> DEFINE m == Head(wire).id
           c == pendingSends[m]
           Stage(stage) == [call[c] EXCEPT !.stage = stage]
           again == how = "rebound" /\ call[c].kind = "exact" /\ call[c].stage = "sent"
<1>1. /\ wire # <<>> /\ Head(wire).type # "list" /\ tcp = "open" /\ UNCHANGED <<tcpVars, mute>>
      /\ pendingSends' = [pendingSends EXCEPT ![m] = NoCall]
  BY DEF AnswerSend
<1>2. /\ pendingLists \subseteq Calls \cup {Probe} /\ call \in [Calls -> CallRecords]
      /\ pendingSends \in [MessageIds -> Calls \cup {NoCall}] /\ wire \in Seq(ProperFrames)
  BY DEF ClientInv, ClientTypeOK, CallRecords
<1>3. m \in MessageIds /\ c \in Calls \cup {NoCall} /\ Tail(wire) \in Seq(ProperFrames)
  <2>1. Head(wire) \in ProperFrames /\ Tail(wire) \in Seq(ProperFrames)
    BY <1>1, <1>2
  <2> QED BY <1>1, <1>2, <2>1 DEF ProperFrames
<1>4. /\ CallsAgree' /\ call' \in [Calls -> CallRecords]
      /\ pendingSends' \in [MessageIds -> Calls \cup {NoCall}] /\ wire' \in Seq(ProperFrames)
      /\ pendingLists' \subseteq Calls \cup {Probe}
  <2>1. CASE c = NoCall
    <3>1. call' = call /\ wire' = Tail(wire) /\ pendingLists' = pendingLists
      BY <2>1 DEF AnswerSend
    <3>2. pendingSends' = pendingSends
      BY <1>1, <1>2, <1>3, <2>1
    <3> QED BY <1>2, <1>3, <3>1, <3>2, CallsUntouched
  <2>2. CASE c # NoCall
    <3>1. c \in Calls
      BY <1>3, <2>2
    <3>2. /\ call[c] \in CallRecords /\ m = call[c].id /\ call[c].stage \in {"sent", "resent"}
          /\ call[c].kind # "list" /\ c \notin pendingLists
      BY <1>3, <3>1, OfOneCall DEF WillSettle, NamesItsMessage, Waiting
    <3>3. \A s \in {"relisting", "done"} :
            /\ Stage(s) \in CallRecords /\ Stage(s).stage = s
            /\ Stage(s).kind = call[c].kind /\ Stage(s).id = m
      BY <3>2 DEF CallRecords, Waiting
    <3>4. pendingSends' = [pendingSends EXCEPT ![call[c].id] = NoCall]
      BY <1>1, <3>2
    <3>5. CASE again
      <4>1. /\ call' = [call EXCEPT ![c] = Stage("relisting")] /\ pendingLists' = pendingLists \cup {c}
            /\ wire' = Append(Tail(wire), Frame(c, "list", NoCall))
        BY <1>2, <2>2, <3>1, <3>5 DEF AnswerSend
      <4>2. wire' \in Seq(ProperFrames)
        BY <1>3, <3>1, <4>1, Writing
      <4>3. \A d \in Calls : d # c /\ call[d].stage \in Waiting => call[d].id # m
        <5>1. call[c].stage \in Waiting /\ call[c].id # NoCall
          BY <1>3, <3>2, ClientAssumption DEF Waiting
        <5> QED BY <3>1, <3>2, <5>1 DEF ClientInv, CallsAgree, OneCallPerMessage
      <4>4. /\ Stage("relisting") \in CallRecords /\ Stage("relisting").stage = "relisting"
            /\ Stage("relisting").kind # "list" /\ Stage("relisting").id = m
        BY <3>2, <3>3
      <4>5. CallsAgree' /\ call' \in [Calls -> CallRecords]
            /\ pendingSends' \in [MessageIds -> Calls \cup {NoCall}]
        <5>1. /\ call' = [call EXCEPT ![c] = Stage("relisting")] /\ pendingLists' = pendingLists \cup {c}
              /\ IF call[c].stage \in {"sent", "resent"}
                 THEN pendingSends' = [pendingSends EXCEPT ![call[c].id] = NoCall]
                 ELSE pendingSends' = pendingSends
          BY <3>2, <3>4, <4>1
        <5>2. /\ IF Stage("relisting").kind = "list"
                 THEN Stage("relisting").id = NoCall /\ Stage("relisting").stage = "listing"
                 ELSE Stage("relisting").id \in MessageIds
              /\ \A d \in Calls : d # c /\ call[d].stage \in Waiting /\ Stage("relisting").id # NoCall
                                   => call[d].id # Stage("relisting").id
          <6> HIDE DEF Stage, m, c
          <6> QED BY <1>3, <4>3, <4>4
        <5> HIDE DEF Stage, m, c
        <5> QED BY <3>1, <4>4, <5>1, <5>2, GoesToList
      <4> QED BY <1>2, <3>1, <4>1, <4>2, <4>5
    <3>6. CASE ~again
      <4>1. call' = [call EXCEPT ![c] = Stage("done")] /\ wire' = Tail(wire) /\ pendingLists' = pendingLists
        BY <1>2, <2>2, <3>1, <3>6 DEF AnswerSend
      <4>2. pendingLists' = pendingLists \ {c}
        BY <3>2, <4>1
      <4>3. Stage("done") \in CallRecords /\ Stage("done").stage = "done"
        BY <3>3
      <4>4. CallsAgree' /\ call' \in [Calls -> CallRecords]
            /\ pendingSends' \in [MessageIds -> Calls \cup {NoCall}]
        <5> HIDE DEF Stage, m, c
        <5> QED BY <3>1, <3>2, <3>4, <4>1, <4>2, <4>3, Ends
      <4> QED BY <1>2, <1>3, <4>1, <4>4
    <3> QED BY <3>5, <3>6
  <2> QED BY <2>1, <2>2
<1>5. ClientTypeOK'
  BY <1>1, <1>4, ClientTypes
<1>6. NothingPendingApart'
  BY <1>1 DEF NothingPendingApart, tcpVars
<1> QED BY <1>4, <1>5, <1>6 DEF ClientInv

LEMMA TimeoutKeeps ==
  ASSUME ClientInv, NEW c \in Calls, SendTimeout(c) \/ ListTimeout(c)
  PROVE  ClientInv'
<1> DEFINE done == [call[c] EXCEPT !.stage = "done"]
<1>1. /\ call[c] \in CallRecords /\ WillSettle(c) /\ done \in CallRecords /\ done.stage = "done"
  BY OfOneCall DEF CallRecords
<1>2. pendingLists \subseteq Calls \cup {Probe} /\ call \in [Calls -> CallRecords]
  BY DEF ClientInv, ClientTypeOK, CallRecords
<1>3. /\ call' = [call EXCEPT ![c] = done] /\ pendingLists' = pendingLists \ {c}
      /\ IF call[c].stage \in {"sent", "resent"}
         THEN pendingSends' = [pendingSends EXCEPT ![call[c].id] = NoCall]
         ELSE pendingSends' = pendingSends
  <2>1. CASE SendTimeout(c)
    <3>1. c \notin pendingLists /\ pendingSends[call[c].id] # NoCall
      BY <1>1, <2>1, ClientAssumption DEF SendTimeout, WillSettle
    <3> QED BY <1>2, <2>1, <3>1 DEF SendTimeout
  <2>2. CASE ListTimeout(c)
    BY <1>1, <1>2, <2>2 DEF ListTimeout, WillSettle
  <2> QED BY <2>1, <2>2
<1>4. CallsAgree' /\ call' \in [Calls -> CallRecords]
      /\ pendingSends' \in [MessageIds -> Calls \cup {NoCall}]
  <2> HIDE DEF done
  <2> QED BY <1>1, <1>3, Ends
<1>5. wire' \in Seq(ProperFrames) /\ UNCHANGED <<tcpVars, mute>>
  BY DEF SendTimeout, ListTimeout, ClientInv
<1>6. ClientTypeOK'
  BY <1>2, <1>3, <1>4, <1>5, ClientTypes
<1>7. NothingPendingApart'
  <2>1. pendingSends \in [MessageIds -> Calls \cup {NoCall}]
    BY DEF ClientInv, ClientTypeOK
  <2>2. \A m \in MessageIds : pendingSends[m] = NoCall => pendingSends'[m] = NoCall
    BY <1>3, <2>1
  <2> QED BY <1>3, <1>5, <2>2 DEF ClientInv, NothingPendingApart, tcpVars
<1> QED BY <1>4, <1>5, <1>6, <1>7 DEF ClientInv

LEMMA HeartbeatKeeps == ClientInv /\ (Heartbeat \/ HeartbeatFails) => ClientInv'
<1> SUFFICES ASSUME ClientInv, Heartbeat \/ HeartbeatFails PROVE ClientInv'
  OBVIOUS
<1>1. /\ UNCHANGED <<call, pendingSends, mute>>
      /\ pendingLists' \in {pendingLists \cup {Probe}, pendingLists \ {Probe}}
  BY DEF Heartbeat, HeartbeatFails, List
<1>2. CallsAgree' /\ call' \in [Calls -> CallRecords]
      /\ pendingSends' \in [MessageIds -> Calls \cup {NoCall}] /\ pendingLists' \subseteq Calls \cup {Probe}
  BY <1>1, CallsUntouched
<1>3. CASE Heartbeat
  <2>1. Append(wire, Frame(Probe, "list", NoCall)) \in Seq(ProperFrames)
    BY Writing DEF ClientInv
  <2>2. wire' \in Seq(ProperFrames) /\ UNCHANGED <<tcpVars, mute>>
    BY <1>3, <2>1 DEF Heartbeat, List
  <2>3. ClientTypeOK'
    BY <1>2, <2>2, ClientTypes
  <2>4. NothingPendingApart'
    BY <1>3 DEF Heartbeat, Active, NothingPendingApart, tcpVars
  <2> QED BY <1>2, <2>2, <2>3, <2>4 DEF ClientInv
<1>4. CASE HeartbeatFails
  <2>1. <<>> \in Seq(ProperFrames) /\ <<>> \in Seq(Frames)
    OBVIOUS
  <2>2. wire' \in Seq(ProperFrames) /\ wire' \in Seq(Frames) /\ tcp' = "dead"
    BY <1>4, <2>1 DEF HeartbeatFails
  <2>3. ClientTypeOK'
    BY <1>1, <1>2, <1>4, <2>2
       DEF HeartbeatFails, ClientInv, ClientTypeOK, Sockets, CallRecords
  <2> QED BY <1>2, <2>2, <2>3 DEF ClientInv, NothingPendingApart
<1> QED BY <1>3, <1>4

LEMMA ClientStep == ~Overlaps /\ ClientInv /\ [ClientNext]_clientVars => ClientInv'
<1> SUFFICES ASSUME ~Overlaps, ClientInv, [ClientNext]_clientVars PROVE ClientInv'
  OBVIOUS
<1>1. CASE Dial \/ Registered \/ ConnectFails \/ Lose \/ CloseEvent \/ Disconnect \/ GoMute
  BY <1>1, ConnectionKeeps
<1>2. ASSUME NEW c \in Calls, NEW kind \in Kinds, NEW m \in MessageIds \cup {NoCall},
             BeginCall(c, kind, m)
      PROVE  ClientInv'
  BY <1>2, BeginCallKeeps
<1>3. CASE AnswerList
  BY <1>3, AnswerListKeeps
<1>4. ASSUME NEW how \in Answers, AnswerSend(how) PROVE ClientInv'
  BY <1>4, AnswerSendKeeps
<1>5. ASSUME NEW c \in Calls, SendTimeout(c) \/ ListTimeout(c) PROVE ClientInv'
  BY <1>5, TimeoutKeeps
<1>6. CASE Heartbeat \/ HeartbeatFails
  BY <1>6, HeartbeatKeeps
<1>7. CASE UNCHANGED clientVars
  <2>1. UNCHANGED <<call, pendingSends, pendingLists, wire, mute, tcpVars>>
    BY <1>7 DEF clientVars, callVars
  <2>2. CallsAgree' /\ call' \in [Calls -> CallRecords]
        /\ pendingSends' \in [MessageIds -> Calls \cup {NoCall}] /\ pendingLists' \subseteq Calls \cup {Probe}
    BY <2>1, CallsUntouched
  <2>3. wire' \in Seq(ProperFrames)
    BY <2>1 DEF ClientInv
  <2>4. ClientTypeOK'
    BY <2>1, <2>2, <2>3, ClientTypes
  <2> QED BY <2>1, <2>2, <2>3, <2>4 DEF ClientInv, NothingPendingApart, tcpVars
<1> QED BY <1>1, <1>2, <1>3, <1>4, <1>5, <1>6, <1>7 DEF ClientNext

\* If no two calls that wait name one message (ids are minted with randomUUID, and a retry comes
\* after the call it repeats), a call that waits has an entry that will settle it, an entry is of
\* a call that waits for it, and a connection that is over has left none, for any number of calls.
THEOREM CallsAreRemembered == ~Overlaps => (ClientSpec => []NothingIsForgotten)
<1> SUFFICES ASSUME ~Overlaps PROVE ClientSpec => []NothingIsForgotten
  OBVIOUS
<1>1. ClientInv => NothingIsForgotten
  <2> SUFFICES ASSUME ClientInv PROVE NothingIsForgotten
    OBVIOUS
  <2>1. ASSUME NEW c \in Calls
        PROVE  /\ call[c].stage # "stuck"
               /\ call[c].stage \in {"listing", "relisting"} <=> c \in pendingLists
               /\ call[c].stage \in {"sent", "resent"} <=>
                    \E m \in MessageIds : pendingSends[m] = c /\ m = call[c].id
    BY OfOneCall DEF WillSettle
  <2>2. NothingPendingApart
    BY DEF ClientInv
  <2> QED BY <2>1, <2>2 DEF NothingIsForgotten, NothingPendingApart
<1>2. ClientInv /\ [ClientNext]_clientVars => ClientInv'
  BY ClientStep
<1> QED BY <1>1, <1>2, ClientInitHolds, PTL DEF ClientSpec
=============================================================================
