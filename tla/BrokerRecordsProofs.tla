------------------------ MODULE BrokerRecordsProofs -------------------------
(***************************************************************************)
(* What the broker keeps of asks and messages beside the sessions: the     *)
(* files that outlive it, the records that answer a retry, and the limits  *)
(* of its tables.                                                          *)
(***************************************************************************)
EXTENDS BrokerRoutingProofs, FiniteSetTheorems

---------------------------------------------------------------------------
(* The pending-asks directory *)

FileOf(i, edge) == <<Scope[edge.from], i>>

\* Every edge is of the message that made it.
EdgesHaveAuthors ==
  \A i \in DOMAIN askEdges : \E m \in Messages : m.id = i /\ m.author = askEdges[i].from

\* Every edge has its file, as old as the edge.
EdgesHaveFiles ==
  \A i \in DOMAIN askEdges :
    /\ FileOf(i, askEdges[i]) \in DOMAIN askFiles
    /\ askFiles[FileOf(i, askEdges[i])].at = askEdges[i].at

\* Only a broker that died leaves files without an edge.
FilesHaveEdges ==
  ~CanCrash => \A f \in DOMAIN askFiles :
                 f[2] \in DOMAIN askEdges /\ f = FileOf(f[2], askEdges[f[2]])

Files == EdgesHaveAuthors /\ EdgesHaveFiles /\ FilesHaveEdges

LEMMA FilesInit == Init => Files
BY DEF Init, Files, EdgesHaveAuthors, EdgesHaveFiles, FilesHaveEdges, Empty

\* The same edges and files, but for the session an edge goes to.
LEMMA FilesSame ==
  ASSUME Files, DOMAIN askEdges' = DOMAIN askEdges, UNCHANGED askFiles,
         \A i \in DOMAIN askEdges :
           askEdges'[i].from = askEdges[i].from /\ askEdges'[i].at = askEdges[i].at
  PROVE  Files'
BY DEF Files, EdgesHaveAuthors, EdgesHaveFiles, FilesHaveEdges, FileOf

\* Edge and file of an ask go together, by age or by name.
LEMMA FilesPrune ==
  ASSUME TypeOK, Files, NEW id, NEW s,
         id \in DOMAIN LiveEdges => s = Scope[askEdges[id].from],
         askEdges' = Drop(LiveEdges, {id}), askFiles' = Drop(LiveFiles, {<<s, id>>})
  PROVE  Files'
<1>1. /\ DOMAIN askEdges' = {i \in DOMAIN askEdges : now - askEdges[i].at =< AskTimeout /\ i # id}
      /\ \A i \in DOMAIN askEdges' : askEdges'[i] = askEdges[i]
  BY DEF Drop, LiveEdges, Fresh
<1>2. /\ DOMAIN askFiles' = {f \in DOMAIN askFiles : now - askFiles[f].at =< AskTimeout /\ f # <<s, id>>}
      /\ \A f \in DOMAIN askFiles' : askFiles'[f] = askFiles[f]
  BY DEF Drop, LiveFiles, Fresh
<1>3. EdgesHaveAuthors'
  <2> SUFFICES ASSUME NEW i \in DOMAIN askEdges'
               PROVE  \E m \in Messages : m.id = i /\ m.author = askEdges'[i].from
    BY DEF EdgesHaveAuthors
  <2>1. i \in DOMAIN askEdges /\ askEdges'[i] = askEdges[i]
    BY <1>1
  <2>2. \E m \in Messages : m.id = i /\ m.author = askEdges[i].from
    BY <2>1 DEF Files, EdgesHaveAuthors
  <2> QED BY <2>1, <2>2
<1>4. EdgesHaveFiles'
  <2> SUFFICES ASSUME NEW i \in DOMAIN askEdges'
               PROVE  /\ FileOf(i, askEdges'[i]) \in DOMAIN askFiles'
                      /\ askFiles'[FileOf(i, askEdges'[i])].at = askEdges'[i].at
    BY DEF EdgesHaveFiles
  <2>1. /\ FileOf(i, askEdges[i]) \in DOMAIN askFiles
        /\ askFiles[FileOf(i, askEdges[i])].at = askEdges[i].at
    BY <1>1 DEF Files, EdgesHaveFiles
  <2>2. FileOf(i, askEdges[i]) # <<s, id>>
    BY <1>1 DEF FileOf
  <2> HIDE DEF FileOf
  <2> QED BY <1>1, <1>2, <2>1, <2>2
<1>5. FilesHaveEdges'
  <2> SUFFICES ASSUME ~CanCrash, NEW f \in DOMAIN askFiles'
               PROVE  f[2] \in DOMAIN askEdges' /\ f = FileOf(f[2], askEdges'[f[2]])
    BY DEF FilesHaveEdges
  <2>1. /\ f[2] \in DOMAIN askEdges /\ f = FileOf(f[2], askEdges[f[2]])
        /\ askFiles[f].at = askEdges[f[2]].at
    BY <1>2 DEF Files, FilesHaveEdges, EdgesHaveFiles
  <2>2. f[2] # id
    BY <1>2, <2>1 DEF FileOf, LiveEdges, Fresh
  <2> QED BY <1>1, <1>2, <2>1, <2>2
<1> QED BY <1>3, <1>4, <1>5 DEF Files

\* An ask adds an edge and a file, in the place of those of an earlier send of the same id.
LEMMA FilesPut ==
  ASSUME TypeOK, Files, NEW m \in Messages, NEW t, NEW id,
         id \in DOMAIN LiveEdges => Scope[m.author] = Scope[askEdges[id].from],
         askEdges' = Drop(Put(LiveEdges, m.id, [from |-> m.author, to |-> t, at |-> now]), {id}),
         askFiles' = Drop(Put(LiveFiles, <<Scope[m.author], m.id>>, [at |-> now]),
                          {<<Scope[m.author], id>>})
  PROVE  Files'
<1> DEFINE s == Scope[m.author]
           edge == [from |-> m.author, to |-> t, at |-> now]
<1>1. /\ \A i : i \in DOMAIN askEdges' <=> (i \in DOMAIN LiveEdges \/ i = m.id) /\ i # id
      /\ \A i \in DOMAIN askEdges' : askEdges'[i] = IF i = m.id THEN edge ELSE askEdges[i]
      /\ \A i \in DOMAIN LiveEdges : i \in DOMAIN askEdges /\ now - askEdges[i].at =< AskTimeout
  BY DEF Drop, Put, LiveEdges, Fresh
<1>2. /\ \A f : f \in DOMAIN askFiles' <=> (f \in DOMAIN LiveFiles \/ f = <<s, m.id>>) /\ f # <<s, id>>
      /\ \A f \in DOMAIN askFiles' : askFiles'[f].at = IF f = <<s, m.id>> THEN now ELSE askFiles[f].at
      /\ \A f : f \in DOMAIN LiveFiles <=>
                  f \in DOMAIN askFiles /\ now - askFiles[f].at =< AskTimeout
  BY DEF Drop, Put, LiveFiles, Fresh
<1>3. \A i \in DOMAIN LiveEdges :
        FileOf(i, askEdges[i]) \in DOMAIN LiveFiles /\ askFiles[FileOf(i, askEdges[i])].at = askEdges[i].at
  <2> HIDE DEF FileOf
  <2> QED BY <1>1, <1>2 DEF Files, EdgesHaveFiles
<1>4. EdgesHaveAuthors'
  <2> SUFFICES ASSUME NEW i \in DOMAIN askEdges'
               PROVE  \E n \in Messages : n.id = i /\ n.author = askEdges'[i].from
    BY DEF EdgesHaveAuthors
  <2>1. edge.from = m.author
    OBVIOUS
  <2> HIDE DEF edge
  <2>2. CASE i = m.id
    BY <1>1, <2>1, <2>2
  <2>3. CASE i # m.id
    <3>1. i \in DOMAIN askEdges /\ askEdges'[i] = askEdges[i]
      BY <1>1, <2>3
    <3> QED BY <3>1 DEF Files, EdgesHaveAuthors
  <2> QED BY <2>2, <2>3
<1>5. EdgesHaveFiles'
  <2> SUFFICES ASSUME NEW i \in DOMAIN askEdges'
               PROVE  /\ FileOf(i, askEdges'[i]) \in DOMAIN askFiles'
                      /\ askFiles'[FileOf(i, askEdges'[i])].at = askEdges'[i].at
    BY DEF EdgesHaveFiles
  <2>1. CASE i = m.id
    <3>1. askEdges'[i] = edge /\ i # id
      BY <1>1, <2>1
    <3>2. FileOf(i, edge) = <<s, m.id>> /\ FileOf(i, edge) # <<s, id>> /\ edge.at = now
      BY <2>1, <3>1 DEF FileOf
    <3> HIDE DEF edge, s, FileOf
    <3> QED BY <1>2, <3>1, <3>2
  <2>2. CASE i # m.id
    <3>1. i \in DOMAIN LiveEdges /\ askEdges'[i] = askEdges[i] /\ i # id
      BY <1>1, <2>2
    <3>2. FileOf(i, askEdges[i]) # <<s, id>> /\ FileOf(i, askEdges[i]) # <<s, m.id>>
      BY <2>2, <3>1 DEF FileOf
    <3> HIDE DEF edge, s, FileOf
    <3> QED BY <1>2, <1>3, <3>1, <3>2
  <2> QED BY <2>1, <2>2
<1>6. FilesHaveEdges'
  <2> SUFFICES ASSUME ~CanCrash, NEW f \in DOMAIN askFiles'
               PROVE  f[2] \in DOMAIN askEdges' /\ f = FileOf(f[2], askEdges'[f[2]])
    BY DEF FilesHaveEdges
  <2>1. CASE f = <<s, m.id>>
    <3>1. m.id # id /\ f[2] = m.id
      BY <1>2, <2>1
    <3>2. m.id \in DOMAIN askEdges' /\ askEdges'[m.id] = edge
      BY <1>1, <3>1
    <3>3. FileOf(m.id, edge) = f
      BY <2>1 DEF FileOf
    <3> HIDE DEF edge
    <3> QED BY <3>1, <3>2, <3>3
  <2>2. CASE f # <<s, m.id>>
    <3>0. f \in DOMAIN askFiles /\ now - askFiles[f].at =< AskTimeout /\ f # <<s, id>>
      BY <1>2, <2>2
    <3>1. /\ f[2] \in DOMAIN askEdges /\ f = FileOf(f[2], askEdges[f[2]])
          /\ askFiles[f].at = askEdges[f[2]].at
      <4> HIDE DEF FileOf
      <4> QED BY <3>0 DEF Files, FilesHaveEdges, EdgesHaveFiles
    <3>2. f[2] # m.id
      <4> SUFFICES ASSUME f[2] = m.id PROVE FALSE
        OBVIOUS
      <4>1. PICK n \in Messages : n.id = m.id /\ n.author = askEdges[m.id].from
        BY <3>1 DEF Files, EdgesHaveAuthors
      <4>2. Scope[n.author] = s
        BY <4>1, ScopeIdsAssumption
      <4> QED BY <2>2, <3>1, <4>1, <4>2 DEF FileOf
    <3>3. f[2] \in DOMAIN LiveEdges
      BY <3>0, <3>1 DEF LiveEdges, Fresh
    <3>4. f[2] # id
      BY <3>0, <3>1, <3>3 DEF FileOf
    <3> HIDE DEF edge, FileOf
    <3> QED BY <1>1, <3>1, <3>2, <3>3, <3>4
  <2> QED BY <2>1, <2>2
<1> QED BY <1>4, <1>5, <1>6 DEF Files

\* A reply is of the scope of the ask it ends.
LEMMA ReplyScope ==
  ASSUME TypeOK, ScopesNeverMix, NEW k, NEW m \in Messages, NEW t,
         m.replyTo # None => AnswersAsk(k, m, t) \/ AnswersMessage(k, m, t),
         m.replyTo \in DOMAIN LiveEdges
  PROVE  /\ AnswersAsk(k, m, t) /\ m.replyTo \in DOMAIN askEdges
         /\ askEdges[m.replyTo].to = k /\ askEdges[m.replyTo].from = t
         /\ Scope[k] = Scope[askEdges[m.replyTo].from]
<1>1. m.replyTo \in DOMAIN askEdges /\ LiveEdges[m.replyTo] = askEdges[m.replyTo]
  BY DEF LiveEdges, Fresh
<1>2. m.replyTo # None
  BY <1>1, ConstantsAssumption DEF TypeOK, IsMap
<1>3. AnswersAsk(k, m, t)
  BY <1>2 DEF AnswersMessage
<1> QED BY <1>1, <1>3 DEF AnswersAsk, ScopesNeverMix

LEMMA FilesSend ==
  ASSUME TypeOK, Inv, Files, NEW c \in Conns, NEW m \in Messages, NEW dest \in Dests,
         NEW e \in {None} \cup Quoted, Send(c, m, dest, e)
  PROVE  Files'
<1> DEFINE k == conn[c]
<1>1. k \in Keys /\ m.author = k
  BY OwnerType DEF Send
<1>2. ScopesNeverMix
  BY DEF Inv
<1>3. None \notin DOMAIN LiveEdges
  BY ConstantsAssumption DEF LiveEdges, Fresh, TypeOK, IsMap
<1>4. CASE SendExactMiss(k, m, dest, e) \/ SendRefused(k, m, dest, e)
  <2>1. askEdges' = Drop(LiveEdges, {None}) /\ askFiles' = LiveFiles
    BY <1>3, <1>4 DEF SendExactMiss, SendRefused, PruneOnSend, Drop, LiveEdges, Fresh
  <2>2. askFiles' = Drop(LiveFiles, {<<Scope[k], None>>})
    <3>1. <<Scope[k], None>> \notin DOMAIN LiveFiles
      BY ConstantsAssumption DEF LiveFiles, Fresh, TypeOK, IsMap, FileKeys
    <3> QED BY <2>1, <3>1 DEF Drop, LiveFiles, Fresh
  <2> QED BY <1>3, <2>1, <2>2, FilesPrune
<1>5. ASSUME NEW t \in Live, SendLive(k, m, dest, e, t)
      PROVE  Files'
  <2>1. m.replyTo \in DOMAIN LiveEdges => Scope[k] = Scope[askEdges[m.replyTo].from]
    BY <1>2, <1>5, ReplyScope DEF SendLive, CanDeliver
  <2>2. CASE m.ask
    BY <1>1, <1>5, <2>1, <2>2, FilesPut DEF SendLive
  <2>3. CASE ~m.ask
    BY <1>5, <2>1, <2>3, FilesPrune DEF SendLive
  <2> QED BY <2>2, <2>3, MessageType
<1>6. ASSUME NEW d \in DOMAIN away,
             SendQueued(k, m, dest, e, d) \/ \E t \in Live : SendStandIn(k, m, dest, e, d, t)
      PROVE  Files'
  <2>1. m.replyTo # None => AnswersAsk(k, m, d)
    BY <1>6 DEF SendQueued, SendStandIn, CanLeaveFor
  <2>2. m.replyTo \in DOMAIN LiveEdges => Scope[k] = Scope[askEdges[m.replyTo].from]
    BY <1>2, <2>1, ReplyScope
  <2>3. \A X : X \subseteq DOMAIN mailbox => MailAsks(X) = {} /\ MailAskFiles(X) = {}
    BY DEF Inv, NoAskQueued, MailAsks, MailAskFiles
  <2>4. PICK X : /\ X \subseteq DOMAIN mailbox
                 /\ askEdges' = Drop(LiveEdges, MailAsks(X) \cup {m.replyTo})
                 /\ askFiles' = Drop(LiveFiles, MailAskFiles(X) \cup {<<Scope[k], m.replyTo>>})
    <3>1. CASE SendQueued(k, m, dest, e, d)
      <4>1. OldMail \cup Surplus(DOMAIN mailbox \ OldMail, MaxMailbox) \subseteq DOMAIN mailbox
        BY DEF OldMail, Surplus
      <4> QED BY <3>1, <4>1 DEF SendQueued
    <3>2. CASE \E t \in Live : SendStandIn(k, m, dest, e, d, t)
      <4>1. {} \subseteq DOMAIN mailbox /\ MailAsks({}) = {} /\ MailAskFiles({}) = {}
        BY DEF MailAsks, MailAskFiles
      <4> QED BY <3>2, <4>1 DEF SendStandIn
    <3> QED BY <1>6, <3>1, <3>2
  <2>5. askEdges' = Drop(LiveEdges, {m.replyTo}) /\ askFiles' = Drop(LiveFiles, {<<Scope[k], m.replyTo>>})
    BY <2>3, <2>4
  <2> QED BY <2>2, <2>5, FilesPrune
<1> QED BY <1>4, <1>5, <1>6 DEF Send

\* A registration leaves every ask and its file where they are.
LEMMA FilesRegister ==
  ASSUME TypeOK, Inv, Files, NEW c \in Conns, NEW k \in Keys, NEW info \in Profiles[k],
         Register(c, k, info)
  PROVE  Files'
<1>1. MailAsks(OldMail) = {} /\ MailAskFiles(OldMail) = {}
  BY DEF Inv, NoAskQueued, MailAsks, MailAskFiles, OldMail
<1>2. UNCHANGED askFiles
  BY <1>1 DEF Register, Drop, TypeOK, IsMap
<1>3. DOMAIN askEdges' = DOMAIN askEdges
  BY <1>1 DEF Register, Drop
<1>4. Part(askEdges', askEdges)
  BY RegisterEdges DEF Inv, Asks
<1> QED BY <1>2, <1>3, <1>4, FilesSame DEF Part

\* An ask that its asker ends takes its file with it.
LEMMA FilesEnd ==
  ASSUME TypeOK, Files, NEW S \in SUBSET DOMAIN askEdges, NEW s,
         \A i \in S : Scope[askEdges[i].from] = s,
         askEdges' = Drop(askEdges, S), askFiles' = Drop(askFiles, {<<s, i>> : i \in S})
  PROVE  Files'
<1>1. /\ DOMAIN askEdges' = DOMAIN askEdges \ S
      /\ \A i \in DOMAIN askEdges' : askEdges'[i] = askEdges[i]
  BY DEF Drop
<1>2. /\ DOMAIN askFiles' = DOMAIN askFiles \ {<<s, i>> : i \in S}
      /\ \A f \in DOMAIN askFiles' : askFiles'[f] = askFiles[f]
  BY DEF Drop
<1>3. EdgesHaveAuthors'
  BY <1>1 DEF Files, EdgesHaveAuthors
<1>4. EdgesHaveFiles'
  <2> SUFFICES ASSUME NEW i \in DOMAIN askEdges'
               PROVE  /\ FileOf(i, askEdges'[i]) \in DOMAIN askFiles'
                      /\ askFiles'[FileOf(i, askEdges'[i])].at = askEdges'[i].at
    BY DEF EdgesHaveFiles
  <2>1. /\ FileOf(i, askEdges[i]) \in DOMAIN askFiles
        /\ askFiles[FileOf(i, askEdges[i])].at = askEdges[i].at
    BY <1>1 DEF Files, EdgesHaveFiles
  <2>2. FileOf(i, askEdges[i]) \notin {<<s, j>> : j \in S}
    BY <1>1 DEF FileOf
  <2> HIDE DEF FileOf
  <2> QED BY <1>1, <1>2, <2>1, <2>2
<1>5. FilesHaveEdges'
  <2> SUFFICES ASSUME ~CanCrash, NEW f \in DOMAIN askFiles'
               PROVE  f[2] \in DOMAIN askEdges' /\ f = FileOf(f[2], askEdges'[f[2]])
    BY DEF FilesHaveEdges
  <2>1. f[2] \in DOMAIN askEdges /\ f = FileOf(f[2], askEdges[f[2]])
    BY <1>2 DEF Files, FilesHaveEdges
  <2>2. f[2] \notin S
    BY <1>2, <2>1 DEF FileOf
  <2> QED BY <1>1, <2>1, <2>2
<1> QED BY <1>3, <1>4, <1>5 DEF Files

LEMMA FilesStep == TypeOK /\ Inv /\ Files /\ [Next]_vars => Files'
<1> SUFFICES ASSUME TypeOK, Inv, Files, [Next]_vars PROVE Files'
  OBVIOUS
<1>1. MailAsks(OldMail) = {} /\ MailAskFiles(OldMail) = {}
  BY DEF Inv, NoAskQueued, MailAsks, MailAskFiles, OldMail
<1>2. Drop(askEdges, {}) = askEdges /\ Drop(askFiles, {}) = askFiles
  BY DEF Drop, TypeOK, IsMap
<1>3. ASSUME NEW c \in Conns, NEW k \in Keys, RegisterRefused(c, k)
      PROVE  Files'
  <2>1. UNCHANGED <<askEdges, askFiles>>
    BY <1>1, <1>2, <1>3 DEF RegisterRefused, TypeOK
  <2> QED BY <2>1, FilesSame
<1>4. ASSUME NEW c \in Conns, NEW id \in Ids, CancelMessage(c, id)
      PROVE  Files'
  <2>1. PICK S : /\ S \subseteq {id} \cap DOMAIN askEdges
                 /\ \A i \in S : askEdges[i].from = conn[c]
                 /\ askEdges' = Drop(askEdges, S)
                 /\ askFiles' = Drop(askFiles, {<<Scope[conn[c]], i>> : i \in S})
    BY <1>1, <1>2, <1>4 DEF CancelMessage, TypeOK
  <2> QED BY <2>1, FilesEnd
<1>5. ASSUME NEW c \in Conns, NEW id \in Ids, CancelAsk(c, id)
      PROVE  Files'
  BY <1>5, FilesEnd DEF CancelAsk
<1>6. CASE Restart
  BY <1>6 DEF Restart, Files, EdgesHaveAuthors, EdgesHaveFiles, FilesHaveEdges, Empty
<1>7. CASE UNCHANGED <<askEdges, askFiles>>
  BY <1>7, FilesSame
<1> QED BY <1>3, <1>4, <1>5, <1>6, <1>7, FilesRegister, FilesSend
        DEF Next, Leave, Presence, Receipt, Tick, vars, tables

\* The directory that a broker reads when it starts lists every ask that waits, and as long
\* as no broker has died nothing else.
THEOREM FilesTrackAsks == Spec => []AskFilesTrackAsks
<1>1. TypeOK /\ Inv /\ Files /\ [Next]_vars => (TypeOK /\ Inv /\ Files)'
  BY InvStep, FilesStep
<1>2. Files => AskFilesTrackAsks
  BY DEF Files, EdgesHaveFiles, FilesHaveEdges, FileOf, AskFilesTrackAsks
<1> QED BY <1>1, <1>2, InvInit, FilesInit, PTL DEF Spec

---------------------------------------------------------------------------
(* Who ends an ask *)

\* What a send leaves in the records of itself.
LEMMA Recorded ==
  ASSUME NEW recs, NEW p, NEW fp, NEW state, NEW code, RecordDelivery(recs, p, fp, state, code)
  PROVE  /\ p \in DOMAIN records' /\ records'[p].at = now
         /\ records'[p].state = state /\ records'[p].code = code
BY DEF RecordDelivery, Put

\* An id that is not answered from its record gets a new one.
LEMMA RecordedAnew ==
  ASSUME TypeOK, NEW k, NEW m, NEW id, ~Replayed(k, m, id), NEW recs, NEW fp, NEW state,
         RecordDelivery(recs, <<k, m.id>>, fp, state, None), <<k, m.id>> \in DOMAIN records
  PROVE  records'[<<k, m.id>>] # records[<<k, m.id>>]
<1> DEFINE p == <<k, m.id>>
<1>1. records'[p].at = now /\ records'[p].code = None
  BY Recorded
<1>2. CASE p \in DOMAIN LiveRecords
  <2>1. records[p].code = "E_TARGET_REBOUND"
    BY <1>2 DEF Replayed, LiveRecords, Fresh
  <2> QED BY <1>1, <2>1, ConstantsAssumption DEF Failures
<1>3. CASE p \notin DOMAIN LiveRecords
  <2>1. records[p].at \in 0..MaxTime
    BY DEF TypeOK, IsMap, RecordType
  <2>2. ~(now - records[p].at =< RecordRetention)
    BY <1>3 DEF LiveRecords, Fresh
  <2> QED BY <1>1, <2>1, <2>2, BoundsAssumption DEF TypeOK
<1> QED BY <1>2, <1>3

\* The only ask a send ends is the one it answers.
LEMMA SendEndsAsk ==
  ASSUME TypeOK, Inv, NEW c \in Conns, NEW m \in Messages, NEW dest \in Dests,
         NEW e \in {None} \cup Quoted, Send(c, m, dest, e),
         NEW i \in DOMAIN askEdges \ DOMAIN askEdges', now - askEdges[i].at =< AskTimeout
  PROVE  AcceptedReply(i, askEdges[i])
<1> DEFINE k == conn[c]
           p == <<k, m.id>>
           accepted(t) == \E recs, fp :
             \E state \in {"socket_delivered", "queued"} :
                /\ RecordDelivery(recs, p, fp, state, None)
                /\ ~Replayed(k, m, IdOf[t])
                /\ m.replyTo # None => AnswersAsk(k, m, t) \/ AnswersMessage(k, m, t)
<1>1. k \in Keys /\ m.author = k /\ i \in DOMAIN LiveEdges
  BY OwnerType DEF Send, LiveEdges, Fresh
<1>2. ~(SendExactMiss(k, m, dest, e) \/ SendRefused(k, m, dest, e))
  BY <1>1 DEF SendExactMiss, SendRefused, PruneOnSend
<1>3. \E t : accepted(t) /\ i = m.replyTo
  <2>1. ASSUME NEW t \in Live, SendLive(k, m, dest, e, t)
        PROVE  accepted(t) /\ i = m.replyTo
    <3>1. i = m.replyTo
      BY <1>1, <2>1 DEF SendLive, Put, Drop
    <3> QED BY <2>1, <3>1 DEF SendLive, CanDeliver
  <2>2. ASSUME NEW d \in DOMAIN away, NEW t \in Live, SendStandIn(k, m, dest, e, d, t)
        PROVE  accepted(d) /\ i = m.replyTo
    <3>1. i = m.replyTo
      BY <1>1, <2>2 DEF SendStandIn, Drop
    <3> QED BY <2>2, <3>1 DEF SendStandIn, CanLeaveFor
  <2>3. ASSUME NEW d \in DOMAIN away, SendQueued(k, m, dest, e, d)
        PROVE  accepted(d) /\ i = m.replyTo
    <3>1. \A X : X \subseteq DOMAIN mailbox => MailAsks(X) = {}
      BY DEF Inv, NoAskQueued, MailAsks
    <3>2. PICK X \in SUBSET DOMAIN mailbox :
            askEdges' = Drop(LiveEdges, MailAsks(X) \cup {m.replyTo})
      <4>1. OldMail \cup Surplus(DOMAIN mailbox \ OldMail, MaxMailbox) \subseteq DOMAIN mailbox
        BY DEF OldMail, Surplus
      <4> QED BY <2>3, <4>1 DEF SendQueued
    <3>3. i = m.replyTo
      BY <1>1, <3>1, <3>2 DEF Drop
    <3>4. \E recs, fp : RecordDelivery(recs, p, fp, "queued", None)
      BY <2>3 DEF SendQueued
    <3> QED BY <2>3, <3>3, <3>4 DEF SendQueued, CanLeaveFor
  <2> QED BY <1>2, <2>1, <2>2, <2>3 DEF Send
<1>4. PICK t, recs, fp : \E state \in {"socket_delivered", "queued"} :
                /\ RecordDelivery(recs, p, fp, state, None)
                /\ ~Replayed(k, m, IdOf[t])
                /\ m.replyTo # None => AnswersAsk(k, m, t) \/ AnswersMessage(k, m, t)
                /\ i = m.replyTo
  BY <1>3
<1>5. askEdges[i].to = k
  <2> HIDE DEF k
  <2>1. m.replyTo # None => AnswersAsk(k, m, t) \/ AnswersMessage(k, m, t)
    BY <1>4
  <2>2. i = m.replyTo /\ m.replyTo \in DOMAIN LiveEdges /\ ScopesNeverMix
    BY <1>1, <1>4 DEF Inv
  <2> QED BY <2>1, <2>2, ReplyScope
<1>6. p \in DOMAIN records' /\ records'[p].state \in {"socket_delivered", "queued"}
  BY <1>4, Recorded
<1>7. p \in DOMAIN records => records'[p] # records[p]
  BY <1>4, RecordedAnew
<1> QED BY <1>1, <1>4, <1>5, <1>6, <1>7 DEF AcceptedReply

\* An ask stops counting as unanswered by its age, by an accepted answer of the session that
\* was asked, by the session that asks, or with the broker: replacing, leaving, mailing and
\* the requests of third sessions end none.
THEOREM AskEndsOnlyByItsParties == Spec => AskEndsByItsParties
<1>1. TypeOK /\ Inv /\ [Next]_vars =>
        [\A i \in DOMAIN askEdges \ DOMAIN askEdges' :
           \/ now - askEdges[i].at > AskTimeout
           \/ AcceptedReply(i, askEdges[i])
           \/ \E c \in Conns : /\ Owns(c) /\ conn[c] = askEdges[i].from
                               /\ CancelAsk(c, i) \/ CancelMessage(c, i)
           \/ Live' = {}]_vars
  <2> SUFFICES ASSUME TypeOK, Inv, Next, NEW i \in DOMAIN askEdges \ DOMAIN askEdges',
                      ~(now - askEdges[i].at > AskTimeout), ~AcceptedReply(i, askEdges[i]),
                      Live' # {}
               PROVE  \E c \in Conns : /\ Owns(c) /\ conn[c] = askEdges[i].from
                                       /\ CancelAsk(c, i) \/ CancelMessage(c, i)
    OBVIOUS
  <2>1. now - askEdges[i].at =< AskTimeout
    BY BoundsAssumption DEF TypeOK, IsMap, EdgeType
  <2>2. MailAsks(OldMail) = {}
    BY DEF Inv, NoAskQueued, MailAsks, OldMail
  <2>3. ASSUME NEW c \in Conns, NEW k \in Keys, NEW info \in Profiles[k], Register(c, k, info)
        PROVE  FALSE
    BY <2>2, <2>3 DEF Register, Drop
  <2>4. ASSUME NEW c \in Conns, NEW k \in Keys, RegisterRefused(c, k)
        PROVE  FALSE
    BY <2>2, <2>4 DEF RegisterRefused, Drop
  <2>5. ASSUME NEW c \in Conns, NEW m \in Messages, NEW dest \in Dests,
               NEW e \in {None} \cup Quoted, Send(c, m, dest, e)
        PROVE  FALSE
    BY <2>1, <2>5, SendEndsAsk
  <2>6. ASSUME NEW c \in Conns, NEW id \in Ids, CancelMessage(c, id)
        PROVE  id = i /\ Owns(c) /\ conn[c] = askEdges[i].from
    BY <2>2, <2>6 DEF CancelMessage, Drop
  <2>7. ASSUME NEW c \in Conns, NEW id \in Ids, CancelAsk(c, id)
        PROVE  id = i /\ Owns(c) /\ conn[c] = askEdges[i].from
    BY <2>7 DEF CancelAsk, Drop
  <2>8. CASE Restart
    BY <2>8 DEF Restart, Live, Empty
  <2>9. CASE UNCHANGED askEdges
    BY <2>9
  <2> QED BY <2>3, <2>4, <2>5, <2>6, <2>7, <2>8, <2>9
          DEF Next, Leave, Presence, Receipt, Tick, tables
<1> QED BY <1>1, InvInit, InvStep, PTL DEF Spec, AskEndsByItsParties

---------------------------------------------------------------------------
(* What the records say *)

Known        == DOMAIN records \cup forgotten
Delivered(p) == \E g \in got : g[1] = p[1] /\ g[2] = p[2]
PairOf(i)    == <<mailbox[i].m.author, mailbox[i].m.id>>
Copies(p)    == {i \in DOMAIN mailbox : PairOf(i) = p}
TakenBack    == {"E_DELIVERY_CANCELLED", "E_DELIVERY_SUPERSEDED"}

\* The record of p says what happened to p.
Truth(p) ==
  /\ records[p].state = "socket_delivered" => Delivered(p) /\ Copies(p) = {}
  /\ records[p].state = "queued" => ~Delivered(p) /\ \E i : Copies(p) = {i}
  /\ records[p].state = "failed" =>
       /\ Copies(p) = {}
       /\ records[p].code \notin TakenBack => ~Delivered(p)

RecordsTrue == \A p \in DOMAIN records \ forgotten : Truth(p)

\* Nothing is delivered or queued that was never recorded, no route is left by what was not
\* delivered, only failures have a code, and what was delivered twice was forgotten between.
GotKnown        == \A g \in got : <<g[1], g[2]>> \in Known
MailKnown       == \A i \in DOMAIN mailbox : PairOf(i) \in Known
RoutesDelivered == \A i \in DOMAIN routes : Delivered(<<routes[i].from, i>>)
CodesFit        == \A p \in DOMAIN records : records[p].code # None => records[p].state = "failed"

Ledger == GotKnown /\ MailKnown /\ RoutesDelivered /\ CodesFit /\ AtMostOnce /\ RecordsTrue

LEMMA LedgerInit == Init => Ledger
BY DEF Init, Ledger, GotKnown, MailKnown, RoutesDelivered, CodesFit, AtMostOnce, RecordsTrue, Empty

\* How one pair goes on: as it was, failed with a copy lost, taken back, or flushed.
LEMMA TruthKept ==
  ASSUME NEW p, Truth(p), Copies(p)' \subseteq Copies(p),
         records[p].state \in {"socket_delivered", "queued", "failed"},
         \/ /\ records'[p].state = records[p].state /\ records'[p].code = records[p].code
            /\ Copies(p)' = Copies(p) /\ (Delivered(p)' <=> Delivered(p))
         \/ /\ records'[p].state = "failed"
            /\ Copies(p)' # Copies(p) /\ (Delivered(p)' <=> Delivered(p))
         \/ /\ records'[p].state = "failed" /\ records'[p].code \in TakenBack
            /\ Delivered(p)
         \/ /\ records'[p].state = "socket_delivered"
            /\ Copies(p)' # Copies(p) /\ Delivered(p)'
  PROVE  Truth(p)'
<1>1. CASE /\ records'[p].state = records[p].state /\ records'[p].code = records[p].code
           /\ Copies(p)' = Copies(p) /\ (Delivered(p)' <=> Delivered(p))
  BY <1>1 DEF Truth, TakenBack
<1>2. CASE Copies(p)' # Copies(p)
  <2>1. Copies(p) # {} BY <1>2
  <2>2. ~Delivered(p) /\ \E i : Copies(p) = {i} BY <2>1 DEF Truth
  <2>3. Copies(p)' = {} BY <1>2, <2>2
  <2> QED BY <2>2, <2>3 DEF Truth, TakenBack
<1>3. CASE records'[p].state = "failed" /\ records'[p].code \in TakenBack /\ Delivered(p)
  <2>1. Copies(p) = {} BY <1>3 DEF Truth
  <2>2. Copies(p)' = {} BY <2>1
  <2> QED BY <1>3, <2>2 DEF Truth, TakenBack
<1> QED BY <1>1, <1>2, <1>3

\* What a send leaves in the records of everything else, and what it makes forgotten.
LEMMA RecordedOthers ==
  ASSUME NEW recs, NEW p, NEW fp, NEW state, NEW code, RecordDelivery(recs, p, fp, state, code)
  PROVE  /\ \A q \in DOMAIN records' : q # p => q \in DOMAIN recs /\ records'[q] = recs[q]
         /\ p \in DOMAIN records /\ p \notin DOMAIN recs => p \in forgotten'
         /\ forgotten \subseteq forgotten' /\ Known \subseteq Known' /\ p \in Known'
<1>1. DOMAIN Room(recs) \subseteq DOMAIN recs
      /\ \A q \in DOMAIN Room(recs) : Room(recs)[q] = recs[q]
  BY DEF Room, Drop
<1>2. /\ DOMAIN records' = DOMAIN Room(recs) \cup {p}
      /\ \A q \in DOMAIN records' : q # p => records'[q] = Room(recs)[q]
      /\ forgotten' = forgotten \cup (DOMAIN records \ DOMAIN Room(recs))
  BY DEF RecordDelivery, Put
<1> QED BY <1>1, <1>2 DEF Known

\* A pair that is not answered from its record is new, failed, or forgotten.
LEMMA SendsAreNew ==
  ASSUME Ledger, NEW k, NEW m, NEW id, ~Replayed(k, m, id), NEW recs, NEW fp, NEW state, NEW code,
         RecordDelivery(recs, <<k, m.id>>, fp, state, code), DOMAIN recs = DOMAIN LiveRecords
  PROVE  <<k, m.id>> \in forgotten' \/ (Copies(<<k, m.id>>) = {} /\ ~Delivered(<<k, m.id>>))
<1> DEFINE p == <<k, m.id>>
<1> SUFFICES ASSUME p \notin forgotten' PROVE Copies(p) = {} /\ ~Delivered(p)
  OBVIOUS
<1>1. p \notin forgotten /\ (p \in DOMAIN records => p \in DOMAIN LiveRecords)
  BY RecordedOthers
<1>2. CASE p \in DOMAIN LiveRecords
  <2>1. p \in DOMAIN records /\ records[p].code = "E_TARGET_REBOUND"
    BY <1>2 DEF Replayed, LiveRecords, Fresh
  <2>2. records[p].state = "failed" /\ Truth(p)
    BY <1>1, <2>1, ConstantsAssumption DEF Ledger, CodesFit, RecordsTrue, Failures
  <2> QED BY <2>1, <2>2 DEF Truth, TakenBack
<1>3. CASE p \notin DOMAIN LiveRecords
  <2>1. p \notin Known
    BY <1>1, <1>3 DEF Known
  <2> QED BY <2>1 DEF Ledger, GotKnown, MailKnown, Copies, Delivered
<1> QED BY <1>2, <1>3

\* A copy that leaves the mailbox has a record, if it was not forgotten, that says so.
LEMMA CopiesShrink ==
  ASSUME Part(mailbox', mailbox), NEW p
  PROVE  /\ Copies(p)' \subseteq Copies(p)
         /\ Copies(p) \subseteq DOMAIN mailbox' => Copies(p)' = Copies(p)
BY DEF Part, Copies, PairOf

\* A step that delivers and queues nothing.
LEMMA LedgerQuiet ==
  ASSUME TypeOK, Ledger, UNCHANGED <<got, dup>>, Part(mailbox', mailbox), Part(routes', routes),
         DOMAIN records' \subseteq DOMAIN records,
         forgotten' = forgotten \cup (DOMAIN records \ DOMAIN records'),
         \A p \in DOMAIN records' :
           \/ records'[p] = records[p] /\ Copies(p) \subseteq DOMAIN mailbox'
           \/ records'[p].state = "failed" /\ ~(Copies(p) \subseteq DOMAIN mailbox')
           \/ /\ records'[p].state = "failed" /\ records'[p].code \in TakenBack
              /\ Delivered(p)
  PROVE  Ledger'
<1>1. Known' = Known /\ \A p : Delivered(p)' <=> Delivered(p)
  BY DEF Known, Delivered
<1>2. GotKnown' /\ MailKnown' /\ AtMostOnce'
  BY <1>1 DEF Ledger, GotKnown, MailKnown, AtMostOnce, Part, PairOf
<1>3. RoutesDelivered'
  BY DEF Ledger, RoutesDelivered, Delivered, Part
<1>4. CodesFit'
  BY DEF Ledger, CodesFit
<1>5. RecordsTrue'
  <2> SUFFICES ASSUME NEW p \in DOMAIN records' \ forgotten' PROVE Truth(p)'
    BY DEF RecordsTrue
  <2>1. p \in DOMAIN records /\ Truth(p)
    BY DEF Ledger, RecordsTrue
  <2>2. records[p].state \in {"socket_delivered", "queued", "failed"}
    BY <2>1 DEF TypeOK, IsMap, RecordType
  <2>3. ~(Copies(p) \subseteq DOMAIN mailbox') => Copies(p)' # Copies(p)
    BY DEF Copies
  <2> QED BY <1>1, <2>1, <2>2, <2>3, CopiesShrink, TruthKept
<1> QED BY <1>2, <1>3, <1>4, <1>5 DEF Ledger

LEMMA LedgerRefused ==
  ASSUME TypeOK, Ledger, NEW c \in Conns, NEW k \in Keys, RegisterRefused(c, k)
  PROVE  Ledger'
<1>1. /\ UNCHANGED <<got, dup, forgotten>> /\ DOMAIN records' = DOMAIN records
      /\ Part(mailbox', mailbox) /\ Part(routes', routes)
      /\ DOMAIN mailbox' = DOMAIN mailbox \ OldMail
  BY DropPart DEF RegisterRefused, Fail, history
<1>2. \A p \in DOMAIN records' :
        \/ records'[p] = records[p] /\ Copies(p) \subseteq DOMAIN mailbox'
        \/ records'[p].state = "failed" /\ ~(Copies(p) \subseteq DOMAIN mailbox')
  <2> SUFFICES ASSUME NEW p \in DOMAIN records
               PROVE  \/ records'[p] = records[p] /\ Copies(p) \subseteq DOMAIN mailbox'
                      \/ records'[p].state = "failed" /\ ~(Copies(p) \subseteq DOMAIN mailbox')
    BY <1>1
  <2>1. p \in MailPairs(OldMail) <=> \E i \in Copies(p) : i \in OldMail
    BY DEF MailPairs, Copies, PairOf, OldMail
  <2>2. records'[p] = IF p \in MailPairs(OldMail)
                      THEN [records[p] EXCEPT !.state = "failed", !.code = "E_DELIVERY_EXPIRED"]
                      ELSE records[p]
    BY DEF RegisterRefused, Fail
  <2>3. p \in MailPairs(OldMail) => records'[p].state = "failed"
    BY <2>2 DEF TypeOK, IsMap, RecordType
  <2> QED BY <1>1, <2>1, <2>2, <2>3 DEF Copies
<1> QED BY <1>1, <1>2, LedgerQuiet

LEMMA LedgerCancel ==
  ASSUME TypeOK, Ledger, NEW c \in Conns, NEW id \in Ids, CancelMessage(c, id)
  PROVE  Ledger'
<1> DEFINE k == conn[c]
           q == <<k, id>>
           copy == IF Owns(c) THEN QueuedCopy(k, id) ELSE {}
           recalled == /\ Owns(c) /\ id \in DOMAIN LiveRoutes \ MailIds(OldMail)
                       /\ LiveRoutes[id].from = k /\ LiveRoutes[id].to \in Live
           done == copy # {} \/ recalled
           expired == Fail(records, MailPairs(OldMail), "E_DELIVERY_EXPIRED")
<1>1. copy \subseteq Copies(q)
  BY DEF QueuedCopy, Copies, PairOf
<1>2. recalled => Delivered(q)
  <2>1. ASSUME recalled PROVE id \in DOMAIN routes /\ routes[id].from = k
    BY <2>1 DEF LiveRoutes, Fresh
  <2> QED BY <2>1 DEF Ledger, RoutesDelivered
<1>3. /\ UNCHANGED <<got, dup, forgotten>>
      /\ Part(mailbox', mailbox) /\ Part(routes', routes)
      /\ DOMAIN mailbox' = DOMAIN mailbox \ (OldMail \cup copy)
      /\ records' = Fail(expired, IF done THEN {q} ELSE {}, "E_DELIVERY_CANCELLED")
  BY DropPart, LiveRoutesShrink DEF CancelMessage, history
<1> HIDE DEF copy, recalled
<1>4. DOMAIN records' = DOMAIN records
      /\ \A p \in DOMAIN records :
           /\ p \notin MailPairs(OldMail) => expired[p] = records[p]
           /\ p \in MailPairs(OldMail) => expired[p].state = "failed"
           /\ expired[p] \in RecordType
           /\ ~(done /\ p = q) => records'[p] = expired[p]
           /\ done /\ p = q => /\ records'[p].state = "failed"
                              /\ records'[p].code = "E_DELIVERY_CANCELLED"
  <2>1. IsMap(expired, Pairs, RecordType) /\ DOMAIN expired = DOMAIN records
    BY FailMap DEF TypeOK, Codes, Failures
  <2>2. \A p \in DOMAIN records :
           /\ p \notin MailPairs(OldMail) => expired[p] = records[p]
           /\ p \in MailPairs(OldMail) => expired[p].state = "failed"
           /\ expired[p] \in RecordType
    BY <2>1 DEF Fail, TypeOK, IsMap, RecordType
  <2> HIDE DEF expired
  <2> QED BY <1>3, <2>1, <2>2 DEF Fail, RecordType
<1> HIDE DEF done, expired, q
<1>5. \A p \in DOMAIN records' :
        \/ records'[p] = records[p] /\ Copies(p) \subseteq DOMAIN mailbox'
        \/ records'[p].state = "failed" /\ ~(Copies(p) \subseteq DOMAIN mailbox')
        \/ /\ records'[p].state = "failed" /\ records'[p].code \in TakenBack
           /\ Delivered(p)
  <2> SUFFICES ASSUME NEW p \in DOMAIN records
               PROVE  \/ records'[p] = records[p] /\ Copies(p) \subseteq DOMAIN mailbox'
                      \/ records'[p].state = "failed" /\ ~(Copies(p) \subseteq DOMAIN mailbox')
                      \/ /\ records'[p].state = "failed" /\ records'[p].code \in TakenBack
                         /\ Delivered(p)
    BY <1>4
  <2>1. p \in MailPairs(OldMail) <=> \E i \in Copies(p) : i \in OldMail
    BY DEF MailPairs, Copies, PairOf, OldMail
  <2>2. Copies(p) \subseteq DOMAIN mailbox
    BY DEF Copies
  <2>3. p # q => Copies(p) \cap copy = {}
    BY <1>1 DEF Copies
  <2>4. CASE done /\ p = q
    <3>1. CASE copy # {} BY <1>1, <1>3, <1>4, <2>4, <3>1
    <3>2. CASE recalled BY <1>2, <1>4, <2>4, <3>2 DEF TakenBack
    <3> QED BY <2>4, <3>1, <3>2 DEF done
  <2>5. CASE ~(done /\ p = q)
    <3>1. Copies(p) \cap copy = {} BY <2>3, <2>5 DEF done
    <3> QED BY <1>3, <1>4, <2>1, <2>2, <2>5, <3>1
  <2> QED BY <2>4, <2>5
<1> QED BY <1>3, <1>4, <1>5, LedgerQuiet

\* What a frame written for p does to the history.
LEMMA DeliverHistory ==
  ASSUME NEW k, NEW m, NEW t, Deliver(k, m, t)
  PROVE  /\ Delivered(<<k, m.id>>)'
         /\ \A q : q[1] # k \/ q[2] # m.id => (Delivered(q)' <=> Delivered(q))
         /\ dup' \subseteq dup \cup {<<k, m.id>>}
         /\ ~Delivered(<<k, m.id>>) => dup' = dup
         /\ \A g \in got' : g \in got \/ (g[1] = k /\ g[2] = m.id)
<1>1. got' = got \cup {<<k, m.id, t>>}
  BY DEF Deliver
<1>2. dup' = IF \E g \in got : g[1] = k /\ g[2] = m.id THEN dup \cup {<<k, m.id>>} ELSE dup
  BY DEF Deliver
<1>3. <<k, m.id, t>>[1] = k /\ <<k, m.id, t>>[2] = m.id
  OBVIOUS
<1> QED BY <1>1, <1>2, <1>3 DEF Delivered

\* A send that writes a record: of a failure, of a delivery, or of a place in the mailbox.
LEMMA LedgerRecorded ==
  ASSUME TypeOK, Ledger, NEW k \in Keys, NEW m \in Messages, NEW id, ~Replayed(k, m, id),
         NEW recs, DOMAIN recs = DOMAIN LiveRecords, NEW fp, NEW state, NEW code,
         RecordDelivery(recs, <<k, m.id>>, fp, state, code),
         \/ /\ state = "failed" /\ code \notin TakenBack
            /\ UNCHANGED <<got, dup>> /\ Copies(<<k, m.id>>)' = Copies(<<k, m.id>>)
         \/ /\ state = "socket_delivered" /\ code = None
            /\ \E t : Deliver(k, m, t) /\ Copies(<<k, m.id>>)' = Copies(<<k, m.id>>)
         \/ /\ state = "queued" /\ code = None
            /\ UNCHANGED <<got, dup>>
            /\ Copies(<<k, m.id>>) = {} => \E i : Copies(<<k, m.id>>)' = {i},
         \A q \in DOMAIN recs : q # <<k, m.id>> =>
           /\ Copies(q)' \subseteq Copies(q)
           /\ \/ recs[q] = records[q] /\ Copies(q)' = Copies(q)
              \/ recs[q].state = "failed" /\ Copies(q)' # Copies(q)
              \/ recs[q].state = "failed" /\ recs[q].code \in TakenBack /\ Delivered(q),
         \A i \in DOMAIN mailbox' :
           \/ PairOf(i)' = <<k, m.id>>
           \/ i \in DOMAIN mailbox /\ PairOf(i)' = PairOf(i),
         \A i \in DOMAIN routes' :
           \/ i \in DOMAIN routes /\ routes'[i].from = routes[i].from
           \/ i = m.id /\ routes'[i].from = k /\ \E t : Deliver(k, m, t)
  PROVE  Ledger'
<1> DEFINE p == <<k, m.id>>
<1>1. Known \subseteq Known' /\ p \in Known' /\ forgotten \subseteq forgotten'
  BY RecordedOthers
<1>2. p \in forgotten' \/ (Copies(p) = {} /\ ~Delivered(p))
  BY SendsAreNew
<1>3. /\ \A g \in got' : g \in got \/ (g[1] = k /\ g[2] = m.id)
      /\ \A q \in Pairs : q # p => (Delivered(q)' <=> Delivered(q))
      /\ \A q : Delivered(q) => Delivered(q)'
  <2>1. CASE UNCHANGED got
    BY <2>1 DEF Delivered
  <2>2. ASSUME NEW t, Deliver(k, m, t)
        PROVE  /\ \A g \in got' : g \in got \/ (g[1] = k /\ g[2] = m.id)
               /\ \A q \in Pairs : q # p => (Delivered(q)' <=> Delivered(q))
    BY <2>2, DeliverHistory DEF Pairs
  <2>3. got \subseteq got'
    BY DEF Deliver
  <2>4. \A q : Delivered(q) => Delivered(q)'
    BY <2>3 DEF Delivered
  <2> QED BY <2>1, <2>2, <2>4
<1>4. GotKnown'
  BY <1>1, <1>3 DEF Ledger, GotKnown
<1>5. MailKnown'
  BY <1>1 DEF Ledger, MailKnown
<1>6. RoutesDelivered'
  <2> SUFFICES ASSUME NEW i \in DOMAIN routes'
               PROVE  \E g \in got' : g[1] = routes'[i].from /\ g[2] = i
    BY DEF RoutesDelivered, Delivered
  <2>1. CASE i \in DOMAIN routes /\ routes'[i].from = routes[i].from
    <3>1. got \subseteq got'
      BY DEF Deliver
    <3> QED BY <2>1, <3>1 DEF Ledger, RoutesDelivered, Delivered
  <2>2. ASSUME i = m.id, routes'[i].from = k, NEW t, Deliver(k, m, t)
        PROVE  \E g \in got' : g[1] = routes'[i].from /\ g[2] = i
    <3>1. <<k, m.id, t>> \in got' BY <2>2 DEF Deliver
    <3> QED BY <2>2, <3>1
  <2> QED BY <2>1, <2>2
<1>7. /\ \A q \in DOMAIN records' : q # p => q \in DOMAIN recs /\ records'[q] = recs[q]
      /\ records'[p].state = state /\ records'[p].code = code
  BY Recorded, RecordedOthers
<1>8. \A q \in DOMAIN recs : q \in DOMAIN records
  BY DEF LiveRecords, Fresh
<1>9. CodesFit'
  BY <1>7, <1>8 DEF Ledger, CodesFit
<1>10. AtMostOnce'
  <2>1. CASE UNCHANGED dup
    BY <1>1, <2>1 DEF Ledger, AtMostOnce
  <2>2. ASSUME NEW t, Deliver(k, m, t) PROVE AtMostOnce'
    BY <1>1, <1>2, <2>2, DeliverHistory DEF Ledger, AtMostOnce
  <2> QED BY <2>1, <2>2
<1>11. RecordsTrue'
  <2> SUFFICES ASSUME NEW q \in DOMAIN records' \ forgotten' PROVE Truth(q)'
    BY DEF RecordsTrue
  <2>1. CASE q = p
    <3>1. Copies(p) = {} /\ ~Delivered(p) BY <1>2, <2>1
    <3>2. CASE state \in {"failed", "queued"} /\ UNCHANGED got
      <4>1. ~Delivered(p)' BY <3>1, <3>2 DEF Delivered
      <4>2. CASE state = "failed" /\ Copies(p)' = Copies(p)
        BY <1>7, <2>1, <3>1, <4>1, <4>2 DEF Truth
      <4>3. CASE state = "queued" /\ \E i : Copies(p)' = {i}
        BY <1>7, <2>1, <4>1, <4>3 DEF Truth
      <4> QED BY <3>1, <3>2, <4>2, <4>3
    <3>3. ASSUME NEW t, Deliver(k, m, t), state = "socket_delivered", Copies(p)' = Copies(p)
          PROVE  Truth(q)'
      <4>1. Delivered(p)' BY <3>3, DeliverHistory
      <4> QED BY <1>7, <2>1, <3>1, <3>3, <4>1 DEF Truth
    <3> QED BY <3>2, <3>3
  <2>2. CASE q # p
    <3>1. q \in DOMAIN recs /\ records'[q] = recs[q] /\ q \in DOMAIN records /\ q \notin forgotten
      BY <1>1, <1>7, <1>8, <2>2
    <3>2. Truth(q) /\ q \in Pairs /\ records[q].state \in {"socket_delivered", "queued", "failed"}
      BY <3>1 DEF Ledger, RecordsTrue, TypeOK, IsMap, RecordType
    <3>3. Delivered(q)' <=> Delivered(q)
      BY <1>3, <2>2, <3>2
    <3> QED BY <2>2, <3>1, <3>2, <3>3, TruthKept
  <2> QED BY <2>1, <2>2
<1> QED BY <1>4, <1>5, <1>6, <1>9, <1>10, <1>11 DEF Ledger

\* The records that a send prunes are those it finds.
LEMMA LiveRecordsPart ==
  /\ DOMAIN LiveRecords \subseteq DOMAIN records
  /\ \A q \in DOMAIN LiveRecords : LiveRecords[q] = records[q]
BY DEF LiveRecords, Fresh

LEMMA SameMail ==
  ASSUME UNCHANGED mailbox
  PROVE  /\ \A q : Copies(q)' = Copies(q)
         /\ \A i \in DOMAIN mailbox' : i \in DOMAIN mailbox /\ PairOf(i)' = PairOf(i)
BY DEF Copies, PairOf

LEMMA LedgerSendExactMiss ==
  ASSUME TypeOK, Ledger, NEW k \in Keys, NEW m \in Messages, NEW dest, NEW e,
         SendExactMiss(k, m, dest, e)
  PROVE  Ledger'
<1>1. PICK code \in {"E_TARGET_NOT_FOUND", "E_TARGET_REBOUND"} :
        RecordDelivery(LiveRecords, <<k, m.id>>, Fingerprint(m, dest), "failed", code)
  BY DEF SendExactMiss
<1>2. /\ ~Replayed(k, m, dest) /\ UNCHANGED <<mailbox, got, dup>>
      /\ Part(routes', routes)
  BY LiveRoutesShrink DEF SendExactMiss, ExactMiss, PruneOnSend
<1>3. code \notin TakenBack
  BY <1>1 DEF TakenBack
<1>4. \A i \in DOMAIN routes' : i \in DOMAIN routes /\ routes'[i].from = routes[i].from
  BY <1>2 DEF Part
<1> QED BY <1>1, <1>2, <1>3, <1>4, LiveRecordsPart, SameMail, LedgerRecorded

LEMMA LedgerSendLive ==
  ASSUME TypeOK, Ledger, NEW k \in Keys, NEW m \in Messages, NEW dest, NEW e, NEW t,
         SendLive(k, m, dest, e, t)
  PROVE  Ledger'
<1> DEFINE old == <<k, m.supersedes>>
           recs == Fail(LiveRecords, {old}, "E_DELIVERY_SUPERSEDED")
<1>1. /\ RecordDelivery(recs, <<k, m.id>>, Fingerprint(m, IdOf[t]), "socket_delivered", None)
      /\ ~Replayed(k, m, IdOf[t]) /\ Deliver(k, m, t) /\ UNCHANGED mailbox
      /\ routes' = Put(LiveRoutes, m.id, [from |-> k, to |-> t, at |-> now])
  BY DEF SendLive, CanDeliver
<1>2. DOMAIN recs = DOMAIN LiveRecords
  BY DEF Fail
<1>3. \A q \in DOMAIN recs :
        \/ recs[q] = records[q]
        \/ recs[q].state = "failed" /\ recs[q].code \in TakenBack /\ Delivered(q)
  <2> SUFFICES ASSUME NEW q \in DOMAIN recs, q = old
               PROVE  recs[q].state = "failed" /\ recs[q].code \in TakenBack /\ Delivered(q)
    BY <1>2, LiveRecordsPart DEF Fail
  <2>1. q \in DOMAIN records /\ records[q] \in RecordType /\ LiveRecords[q] = records[q] /\ q \in Pairs
    BY <1>2, LiveRecordsPart DEF TypeOK, IsMap
  <2>2. m.supersedes # None
    BY <2>1, ConstantsAssumption DEF Pairs
  <2>3. m.supersedes \in DOMAIN routes /\ routes[m.supersedes].from = k
    BY <2>2 DEF SendLive, CanDeliver, LiveRoutes, Fresh
  <2>4. Delivered(q)
    BY <2>3 DEF Ledger, RoutesDelivered, Delivered
  <2>5. recs[q] = [records[q] EXCEPT !.state = "failed", !.code = "E_DELIVERY_SUPERSEDED"]
    BY <1>2, <2>1 DEF Fail
  <2> QED BY <2>1, <2>4, <2>5 DEF RecordType, TakenBack
<1>4. \A i \in DOMAIN routes' :
        \/ i \in DOMAIN routes /\ routes'[i].from = routes[i].from
        \/ i = m.id /\ routes'[i].from = k /\ \E u : Deliver(k, m, u)
  <2>1. Part(LiveRoutes, routes) BY LiveRoutesShrink
  <2> QED BY <1>1, <2>1 DEF Put, Part
<1> HIDE DEF recs, old
<1> QED BY <1>1, <1>2, <1>3, <1>4, SameMail, LedgerRecorded

LEMMA LedgerSendStandIn ==
  ASSUME TypeOK, Ledger, NEW k \in Keys, NEW m \in Messages, NEW dest, NEW e, NEW d, NEW t,
         SendStandIn(k, m, dest, e, d, t)
  PROVE  Ledger'
<1>1. /\ RecordDelivery(LiveRecords, <<k, m.id>>, Fingerprint(m, IdOf[d]), "socket_delivered", None)
      /\ ~Replayed(k, m, IdOf[d]) /\ Deliver(k, m, t) /\ UNCHANGED mailbox
      /\ routes' = Put(LiveRoutes, m.id, [from |-> k, to |-> t, at |-> now])
  BY DEF SendStandIn, CanLeaveFor
<1>2. \A i \in DOMAIN routes' :
        \/ i \in DOMAIN routes /\ routes'[i].from = routes[i].from
        \/ i = m.id /\ routes'[i].from = k /\ \E u : Deliver(k, m, u)
  <2>1. Part(LiveRoutes, routes) BY LiveRoutesShrink
  <2> QED BY <1>1, <2>1 DEF Put, Part
<1> QED BY <1>1, <1>2, LiveRecordsPart, SameMail, LedgerRecorded

LEMMA LedgerSendQueued ==
  ASSUME TypeOK, Ledger, NEW k \in Keys, NEW m \in Messages, m.author = k, NEW dest, NEW e,
         NEW d, SendQueued(k, m, dest, e, d)
  PROVE  Ledger'
<1> DEFINE full == Surplus(DOMAIN mailbox \ OldMail, MaxMailbox)
           lost == OldMail \cup full
           expired == Fail(LiveRecords, MailPairs(OldMail), "E_DELIVERY_EXPIRED")
           recs == Fail(expired, MailPairs(full), "E_DELIVERY_EVICTED")
           p == <<k, m.id>>
           entry == [m |-> m, fromInfo |-> sessions[k].info, to |-> d,
                     toInfo |-> away[d].info, at |-> now]
<1>1. /\ RecordDelivery(recs, p, Fingerprint(m, IdOf[d]), "queued", None)
      /\ ~Replayed(k, m, IdOf[d]) /\ UNCHANGED <<got, dup>>
      /\ Part(routes', routes)
  BY LiveRoutesShrink DEF SendQueued, CanLeaveFor
<1>2. PICK n \in 1..MaxSeq : IsNext(n, DOMAIN mailbox) /\ mailbox' = Put(Drop(mailbox, lost), n, entry)
  BY DEF SendQueued
<1>3. entry.m = m
  OBVIOUS
<1>4. lost \subseteq DOMAIN mailbox
  BY DEF OldMail, Surplus
<1>5. n \notin DOMAIN mailbox
  <2>1. \A o \in DOMAIN mailbox : o < n BY <1>2 DEF IsNext
  <2> QED BY <2>1
<1>6. DOMAIN recs = DOMAIN LiveRecords
  BY DEF Fail
<1>7. \A q \in DOMAIN recs :
        \/ recs[q] = records[q] /\ Copies(q) \cap lost = {}
        \/ recs[q].state = "failed" /\ Copies(q) \cap lost # {}
  <2> SUFFICES ASSUME NEW q \in DOMAIN LiveRecords
               PROVE  \/ recs[q] = records[q] /\ Copies(q) \cap lost = {}
                      \/ recs[q].state = "failed" /\ Copies(q) \cap lost # {}
    BY <1>6
  <2>1. q \in DOMAIN records /\ LiveRecords[q] = records[q] /\ records[q] \in RecordType
    BY LiveRecordsPart DEF TypeOK, IsMap
  <2>2. \A X : X \subseteq DOMAIN mailbox => (q \in MailPairs(X) <=> Copies(q) \cap X # {})
    BY DEF MailPairs, Copies, PairOf
  <2>3. full \subseteq DOMAIN mailbox /\ OldMail \subseteq DOMAIN mailbox
    BY DEF OldMail, Surplus
  <2> HIDE DEF full
  <2>4. q \in DOMAIN expired /\ expired[q] \in RecordType
        /\ IF q \in MailPairs(OldMail) THEN expired[q].state = "failed" ELSE expired[q] = records[q]
    BY <2>1 DEF Fail, RecordType, Codes, Failures
  <2> HIDE DEF expired
  <2>5. IF q \in MailPairs(full) THEN recs[q].state = "failed" ELSE recs[q] = expired[q]
    BY <2>4 DEF Fail, RecordType
  <2> HIDE DEF recs
  <2> QED BY <2>2, <2>3, <2>4, <2>5
<1> HIDE DEF entry, recs, expired, lost, full
<1>8. /\ DOMAIN mailbox' = (DOMAIN mailbox \ lost) \cup {n} /\ mailbox'[n].m = m
      /\ \A i \in DOMAIN mailbox' : i # n => mailbox'[i] = mailbox[i]
  BY <1>2, <1>3 DEF Put, Drop
<1>9. /\ PairOf(n)' = p
      /\ \A i \in DOMAIN mailbox' : i # n => i \in DOMAIN mailbox /\ PairOf(i)' = PairOf(i)
  BY <1>8 DEF PairOf
<1>10. \A q : q # p => Copies(q)' = Copies(q) \ lost
  BY <1>5, <1>8, <1>9 DEF Copies
<1>11. Copies(p) = {} => Copies(p)' = {n}
  BY <1>8, <1>9 DEF Copies
<1>12. \A i \in DOMAIN mailbox' :
         \/ PairOf(i)' = p
         \/ i \in DOMAIN mailbox /\ PairOf(i)' = PairOf(i)
  BY <1>9
<1>13. \A q \in DOMAIN recs : q # p =>
         /\ Copies(q)' \subseteq Copies(q)
         /\ \/ recs[q] = records[q] /\ Copies(q)' = Copies(q)
            \/ recs[q].state = "failed" /\ Copies(q)' # Copies(q)
  BY <1>7, <1>10
<1>14. \A i \in DOMAIN routes' : i \in DOMAIN routes /\ routes'[i].from = routes[i].from
  BY <1>1 DEF Part
<1> QED BY <1>1, <1>6, <1>11, <1>12, <1>13, <1>14, LedgerRecorded

LEMMA LedgerSendRefused ==
  ASSUME TypeOK, Ledger, NEW k, NEW m, NEW dest, NEW e, SendRefused(k, m, dest, e)
  PROVE  Ledger'
<1>1. /\ UNCHANGED <<got, dup, mailbox>> /\ Part(routes', routes)
      /\ forgotten' = forgotten \cup (DOMAIN records \ DOMAIN records')
      /\ records' \in {records, LiveRecords}
  BY LiveRoutesShrink DEF SendRefused, PruneOnSend
<1>2. DOMAIN records' \subseteq DOMAIN records /\ \A p \in DOMAIN records' : records'[p] = records[p]
  BY <1>1, LiveRecordsPart
<1>3. Part(mailbox', mailbox) /\ \A p : Copies(p) \subseteq DOMAIN mailbox'
  BY <1>1, PartSelf DEF Copies
<1> QED BY <1>1, <1>2, <1>3, LedgerQuiet

\* Registering hands over the mail of the session and throws away what is too old.
LEMMA LedgerRegister ==
  ASSUME TypeOK, Ledger, NEW c \in Conns, NEW k \in Keys, NEW info \in Profiles[k],
         Register(c, k, info)
  PROVE  Ledger'
<1> DEFINE mail == MailFor(k, info, Put(sessions, k, [conn |-> c, info |-> info]))
           rts == Drop(routes, MailIds(OldMail) \cup (IF k \in Live THEN RoutesOf(k) ELSE {}))
           recs == Fail(records, MailPairs(OldMail), "E_DELIVERY_EXPIRED")
           lastOf(id) == CHOOSE i \in mail : /\ mailbox[i].m.id = id
                                             /\ \A j \in mail : mailbox[j].m.id = id => j =< i
<1>1. /\ mail \subseteq DOMAIN mailbox /\ mail \cap OldMail = {}
      /\ OldMail \subseteq DOMAIN mailbox /\ DOMAIN mailbox \subseteq 1..MaxSeq
  BY DEF MailFor, OldMail, TypeOK, IsMap
<1>2. /\ UNCHANGED forgotten
      /\ mailbox' = Drop(mailbox, OldMail \cup mail)
      /\ got' = got \cup {<<p[1], p[2], k>> : p \in MailPairs(mail)}
      /\ dup' = dup \cup {p \in MailPairs(mail) :
                            \/ \E g \in got : g[1] = p[1] /\ g[2] = p[2]
                            \/ \E i, j \in mail : i # j /\ MailPairs({i, j}) = {p}}
      /\ DOMAIN routes' = DOMAIN rts \cup MailIds(mail)
      /\ \A i \in DOMAIN routes' : IF i \in MailIds(mail)
                                  THEN routes'[i].from = mailbox[lastOf(i)].m.author
                                  ELSE routes'[i] = rts[i]
  BY DEF Register
<1>3. DOMAIN records' = DOMAIN records
      /\ \A p \in DOMAIN records :
            /\ p \in MailPairs(mail) => /\ records'[p].state = "socket_delivered"
                                       /\ records'[p].code = None
            /\ p \notin MailPairs(mail) /\ p \in MailPairs(OldMail) => records'[p].state = "failed"
            /\ p \notin MailPairs(mail) /\ p \notin MailPairs(OldMail) => records'[p] = records[p]
  <2>1. records' = [p \in DOMAIN recs |->
                     IF p \in MailPairs(mail)
                     THEN [recs[p] EXCEPT !.state = "socket_delivered", !.code = None]
                     ELSE recs[p]]
    BY DEF Register
  <2>2. IsMap(recs, Pairs, RecordType) /\ DOMAIN recs = DOMAIN records
    BY FailMap DEF TypeOK, Codes, Failures
  <2>3. \A p \in DOMAIN records :
           /\ p \notin MailPairs(OldMail) => recs[p] = records[p]
           /\ p \in MailPairs(OldMail) => recs[p].state = "failed"
    BY DEF Fail, TypeOK, IsMap, RecordType
  <2> HIDE DEF recs, mail
  <2>4. \A p \in DOMAIN records : recs[p] \in RecordType
    BY <2>2 DEF IsMap
  <2> QED BY <2>1, <2>2, <2>3, <2>4 DEF RecordType
<1>4. \A id \in MailIds(mail) : lastOf(id) \in mail /\ mailbox[lastOf(id)].m.id = id
  <2> HIDE DEF mail
  <2> SUFFICES ASSUME NEW id \in MailIds(mail)
               PROVE  lastOf(id) \in mail /\ mailbox[lastOf(id)].m.id = id
    OBVIOUS
  <2> DEFINE S == {i \in mail : mailbox[i].m.id = id}
  <2>1. S # {} /\ S \subseteq 0..MaxSeq BY <1>1, BoundsAssumption DEF MailIds
  <2>2. PICK i \in S : \A j \in S : j =< i
    <3> HIDE DEF S
    <3> QED BY <2>1, MaxExists, BoundsAssumption
  <2>3. \E n \in mail : mailbox[n].m.id = id /\ \A j \in mail : mailbox[j].m.id = id => j =< n
    BY <2>2
  <2> QED BY <2>3
<1> HIDE DEF mail, recs, lastOf
<1>5. /\ \A i \in DOMAIN mailbox' : i \in DOMAIN mailbox \ (OldMail \cup mail) /\ PairOf(i)' = PairOf(i)
      /\ \A p : Copies(p)' = Copies(p) \ (OldMail \cup mail)
  BY <1>2 DEF Drop, Copies, PairOf
<1>6. \A p : \A X : X \subseteq DOMAIN mailbox => (p \in MailPairs(X) <=> Copies(p) \cap X # {})
  BY DEF MailPairs, Copies, PairOf
<1>7. \A p \in MailPairs(mail) : p \in Pairs /\ p = <<p[1], p[2]>>
  BY <1>1, MailEntryType DEF MailPairs, Pairs
<1>8. /\ \A p \in MailPairs(mail) : Delivered(p)'
      /\ \A p \in Pairs : p \notin MailPairs(mail) => (Delivered(p)' <=> Delivered(p))
      /\ \A p : Delivered(p) => Delivered(p)'
  <2>1. \A p \in MailPairs(mail) : Delivered(p)'
    <3> SUFFICES ASSUME NEW p \in MailPairs(mail) PROVE \E g \in got' : g[1] = p[1] /\ g[2] = p[2]
      BY DEF Delivered
    <3>1. <<p[1], p[2], k>> \in got' BY <1>2
    <3> QED BY <3>1
  <2>2. ASSUME NEW p \in Pairs, p \notin MailPairs(mail), NEW g \in got', g[1] = p[1], g[2] = p[2]
        PROVE  g \in got
    <3> SUFFICES ASSUME NEW q \in MailPairs(mail), g = <<q[1], q[2], k>> PROVE FALSE
      BY <1>2
    <3>1. q[1] = p[1] /\ q[2] = p[2] BY <2>2
    <3>2. p = <<p[1], p[2]>> BY DEF Pairs
    <3> QED BY <1>7, <2>2, <3>1, <3>2
  <2>3. got \subseteq got' BY <1>2
  <2>4. \A p : Delivered(p) => Delivered(p)' BY <2>3 DEF Delivered
  <2> QED BY <2>1, <2>2, <2>4 DEF Delivered
<1>9. Known' = Known
  BY <1>2, <1>3 DEF Known
<1>10. \A p \in MailPairs(mail) : p \in Known
  BY <1>1 DEF Ledger, MailKnown, MailPairs, PairOf
<1>11. GotKnown'
  <2> SUFFICES ASSUME NEW g \in got' PROVE <<g[1], g[2]>> \in Known
    BY <1>9 DEF GotKnown
  <2>1. CASE g \in got BY <2>1 DEF Ledger, GotKnown
  <2>2. ASSUME NEW p \in MailPairs(mail), g = <<p[1], p[2], k>> PROVE <<g[1], g[2]>> \in Known
    <3>1. <<g[1], g[2]>> = p BY <1>7, <2>2
    <3> QED BY <1>10, <3>1
  <2> QED BY <1>2, <2>1, <2>2
<1>12. MailKnown'
  BY <1>5, <1>9 DEF Ledger, MailKnown
<1>13. RoutesDelivered'
  <2> SUFFICES ASSUME NEW i \in DOMAIN routes'
               PROVE  \E g \in got' : g[1] = routes'[i].from /\ g[2] = i
    BY DEF RoutesDelivered, Delivered
  <2>1. CASE i \in MailIds(mail)
    <3> DEFINE p == PairOf(lastOf(i))
    <3>1. p \in MailPairs(mail) /\ p[1] = routes'[i].from /\ p[2] = i
      BY <1>2, <1>4, <2>1 DEF MailPairs, PairOf
    <3>2. <<p[1], p[2], k>> \in got'
      BY <1>2, <3>1
    <3> QED BY <3>1, <3>2
  <2>2. CASE i \notin MailIds(mail)
    <3>1. i \in DOMAIN rts /\ routes'[i] = rts[i] BY <1>2, <2>2
    <3>2. i \in DOMAIN routes /\ routes'[i] = routes[i] BY <3>1 DEF Drop
    <3>3. \E g \in got : g[1] = routes[i].from /\ g[2] = i
      BY <3>2 DEF Ledger, RoutesDelivered, Delivered
    <3> QED BY <1>2, <3>2, <3>3
  <2> QED BY <2>1, <2>2
<1>14. CodesFit'
  <2>1. \A p \in DOMAIN records : records[p].code # None => records[p].state = "failed"
    BY DEF Ledger, CodesFit
  <2> QED BY <1>3, <2>1 DEF CodesFit
<1>15. \A p \in MailPairs(mail) : p \in forgotten \/ (~Delivered(p) /\ \E i : Copies(p) = {i})
  <2> SUFFICES ASSUME NEW p \in MailPairs(mail), p \notin forgotten
               PROVE  ~Delivered(p) /\ \E i : Copies(p) = {i}
    OBVIOUS
  <2>1. p \in DOMAIN records /\ Truth(p) BY <1>10 DEF Known, Ledger, RecordsTrue
  <2>2. Copies(p) # {} BY <1>1, <1>6
  <2>3. records[p].state \in {"socket_delivered", "queued", "failed"}
    BY <2>1 DEF TypeOK, IsMap, RecordType
  <2> QED BY <2>1, <2>2, <2>3 DEF Truth
<1>16. AtMostOnce'
  <2> SUFFICES ASSUME NEW p \in MailPairs(mail), p \notin forgotten,
                      \/ \E g \in got : g[1] = p[1] /\ g[2] = p[2]
                      \/ \E i, j \in mail : i # j /\ MailPairs({i, j}) = {p}
               PROVE  FALSE
    BY <1>2 DEF Ledger, AtMostOnce
  <2>1. PICK i, j \in mail : i # j /\ MailPairs({i, j}) = {p}
    BY <1>15 DEF Delivered
  <2>2. i \in Copies(p) /\ j \in Copies(p)
    BY <1>1, <2>1 DEF MailPairs, Copies, PairOf
  <2> QED BY <1>15, <2>1, <2>2
<1>17. RecordsTrue'
  <2> SUFFICES ASSUME NEW p \in DOMAIN records, p \notin forgotten PROVE Truth(p)'
    BY <1>2, <1>3 DEF RecordsTrue
  <2>1. Truth(p) /\ p \in Pairs /\ records[p].state \in {"socket_delivered", "queued", "failed"}
    BY DEF Ledger, RecordsTrue, TypeOK, IsMap, RecordType
  <2>2. Copies(p)' \subseteq Copies(p) BY <1>5
  <2>3. CASE p \in MailPairs(mail)
    <3>1. Copies(p)' # Copies(p) BY <1>1, <1>5, <1>6, <2>3
    <3> QED BY <1>3, <1>8, <2>1, <2>2, <2>3, <3>1, TruthKept
  <2>4. CASE p \notin MailPairs(mail) /\ p \in MailPairs(OldMail)
    <3>1. Copies(p)' # Copies(p) BY <1>1, <1>5, <1>6, <2>4
    <3> QED BY <1>3, <1>8, <2>1, <2>2, <2>4, <3>1, TruthKept
  <2>5. CASE p \notin MailPairs(mail) /\ p \notin MailPairs(OldMail)
    <3>1. Copies(p)' = Copies(p) BY <1>1, <1>5, <1>6, <2>5
    <3> QED BY <1>3, <1>8, <2>1, <2>2, <2>5, <3>1, TruthKept
  <2> QED BY <2>3, <2>4, <2>5
<1> QED BY <1>11, <1>12, <1>13, <1>14, <1>16, <1>17 DEF Ledger

LEMMA LedgerStep == TypeOK /\ Ledger /\ [Next]_vars => Ledger'
<1> SUFFICES ASSUME TypeOK, Ledger, [Next]_vars PROVE Ledger'
  OBVIOUS
<1>1. ASSUME UNCHANGED <<got, dup, forgotten, records, mailbox>>, Part(routes', routes)
      PROVE  Ledger'
  <2>1. Part(mailbox', mailbox) /\ \A p : Copies(p) \subseteq DOMAIN mailbox'
    BY <1>1, PartSelf DEF Copies
  <2> QED BY <1>1, <2>1, LedgerQuiet
<1>2. ASSUME NEW c \in Conns, NEW m \in Messages, NEW dest \in Dests,
             NEW e \in {None} \cup Quoted, Send(c, m, dest, e)
      PROVE  Ledger'
  <2>1. PICK k \in Keys : k = conn[c] /\ m.author = k
    BY <1>2, OwnerType DEF Send
  <2> QED BY <1>2, <2>1, LedgerSendExactMiss, LedgerSendLive, LedgerSendStandIn, LedgerSendQueued,
             LedgerSendRefused DEF Send
<1>3. ASSUME NEW c \in Conns,
             \/ Leave(c) \/ Receipt(c)
             \/ \E info \in Infos : Presence(c, info)
             \/ \E id \in Ids : CancelAsk(c, id)
      PROVE  Ledger'
  <2>1. UNCHANGED <<got, dup, forgotten, records, mailbox>>
    BY <1>3 DEF Leave, Receipt, Presence, CancelAsk, history
  <2>2. UNCHANGED routes \/ routes' = LiveRoutes \/ \E S : routes' = Drop(routes, S)
    BY <1>3 DEF Leave, Receipt, Presence, CancelAsk
  <2>3. Part(routes', routes)
    <3>1. CASE UNCHANGED routes \/ routes' = LiveRoutes BY <3>1, PartSelf, LiveRoutesShrink
    <3>2. CASE \E S : routes' = Drop(routes, S) BY <3>2, DropPart
    <3> QED BY <2>2, <3>1, <3>2
  <2> QED BY <1>1, <2>1, <2>3
<1>4. CASE Tick \/ UNCHANGED vars
  BY <1>1, <1>4, PartSelf DEF Tick, vars, tables, history
<1>5. CASE Restart
  <2>1. /\ UNCHANGED <<got, dup>> /\ Part(mailbox', mailbox) /\ Part(routes', routes)
        /\ DOMAIN records' = {} /\ forgotten' = forgotten \cup DOMAIN records
    BY <1>5, EmptyPart DEF Restart, Empty
  <2> QED BY <2>1, LedgerQuiet
<1> QED BY <1>2, <1>3, <1>4, <1>5, LedgerRegister, LedgerRefused, LedgerCancel DEF Next

\* Whatever the clients send again, and however sessions, mail and records come and go, a
\* message is written to a socket twice only if its record was forgotten.
THEOREM DeliveredAtMostOnce == Spec => []AtMostOnce
<1>1. TypeOK /\ Ledger /\ [Next]_vars => (TypeOK /\ Ledger)'
  BY TypeStep, LedgerStep
<1>2. Ledger => AtMostOnce
  BY DEF Ledger
<1> QED BY <1>1, <1>2, TypeInit, LedgerInit, PTL DEF Spec

\* The answer that a retry gets from its record is what became of the message.
THEOREM RecordsAreTrue == Spec => []RecordsTellTheTruth
<1>1. TypeOK /\ Ledger /\ [Next]_vars => (TypeOK /\ Ledger)'
  BY TypeStep, LedgerStep
<1>2. TypeOK /\ Ledger => RecordsTellTheTruth
  <2> SUFFICES ASSUME TypeOK, Ledger, NEW p \in DOMAIN records \ forgotten
               PROVE  LET copies    == {i \in DOMAIN mailbox : MailPairs({i}) = {p}}
                          delivered == \E g \in got : g[1] = p[1] /\ g[2] = p[2]
                      IN  CASE records[p].state = "socket_delivered" -> delivered /\ copies = {}
                            [] records[p].state = "queued" -> ~delivered /\ Cardinality(copies) = 1
                            [] records[p].state = "failed" ->
                                 /\ copies = {}
                                 /\ records[p].code \notin {"E_DELIVERY_CANCELLED", "E_DELIVERY_SUPERSEDED"}
                                      => ~delivered
    BY DEF RecordsTellTheTruth
  <2>1. Copies(p) = {i \in DOMAIN mailbox : MailPairs({i}) = {p}}
    BY DEF Copies, PairOf, MailPairs
  <2>2. records[p].state \in {"socket_delivered", "queued", "failed"} /\ Truth(p)
    BY DEF Ledger, RecordsTrue, TypeOK, IsMap, RecordType
  <2>3. \A i : Copies(p) = {i} => Cardinality(Copies(p)) = 1
    BY FS_Singleton
  <2> QED BY <2>1, <2>2, <2>3 DEF Truth, Delivered, TakenBack
<1> QED BY <1>1, <1>2, TypeInit, LedgerInit, PTL DEF Spec

---------------------------------------------------------------------------
(* Limits *)

\* What a table of n keeps leaves room for one more.
LEMMA SurplusLeavesRoom ==
  ASSUME NEW S, IsFiniteSet(S), S \subseteq Nat, NEW n \in Nat \ {0}
  PROVE  /\ IsFiniteSet(S \ Surplus(S, n))
         /\ Cardinality(S \ Surplus(S, n)) \in Nat
         /\ Cardinality(S \ Surplus(S, n)) =< n - 1
<1> DEFINE T == S \ Surplus(S, n)
           After(i) == {j \in S : j > i}
<1>1. IsFiniteSet(T) /\ Cardinality(T) \in Nat
  BY FS_Subset, FS_CardinalityType
<1>2. CASE T = {}
  BY <1>1, <1>2, FS_EmptySet
<1>3. CASE T # {}
  <2>1. PICK x \in T : \A y \in T : x =< y
    <3> HIDE DEF T
    <3>1. T \subseteq Nat BY DEF T
    <3> QED BY <1>3, <3>1, MinExists
  <2>2. x \in S /\ ~(Cardinality(After(x)) >= n - 1)
    BY DEF Surplus
  <2>3. IsFiniteSet(After(x)) /\ Cardinality(After(x)) \in Nat
    BY FS_Subset, FS_CardinalityType
  <2>4. T \subseteq After(x) \cup {x}
    <3> SUFFICES ASSUME NEW y \in T, y # x PROVE y \in S /\ y > x
      OBVIOUS
    <3>1. x =< y /\ x \in Nat /\ y \in Nat /\ y \in S BY <2>1
    <3> HIDE DEF T
    <3> QED BY <3>1
  <2> HIDE DEF T, After
  <2>5. /\ IsFiniteSet(After(x) \cup {x})
        /\ Cardinality(After(x) \cup {x}) =< Cardinality(After(x)) + 1
        /\ Cardinality(After(x) \cup {x}) \in Nat
    <3>1. /\ IsFiniteSet(After(x) \cup {x})
          /\ Cardinality(After(x) \cup {x}) = IF x \in After(x) THEN Cardinality(After(x))
                                              ELSE Cardinality(After(x)) + 1
      BY <2>3, FS_AddElement
    <3> QED BY <2>3, <3>1
  <2>6. Cardinality(T) =< Cardinality(After(x) \cup {x})
    BY <2>4, <2>5, FS_Subset
  <2> HIDE DEF Surplus
  <2>7. Cardinality(T) =< n - 1
    BY <1>1, <2>2, <2>3, <2>5, <2>6
  <2> QED BY <1>1, <2>7 DEF T
<1> QED BY <1>2, <1>3

\* The places of the records differ.
PlacesDiffer(recs) == \A p, q \in DOMAIN recs : recs[p].ord = recs[q].ord => p = q

\* The records kept when one more is written.
LEMMA RoomLeavesRoom ==
  ASSUME NEW recs, IsMap(recs, Pairs, RecordType), IsFiniteSet(DOMAIN recs), PlacesDiffer(recs)
  PROVE  /\ IsFiniteSet(DOMAIN Room(recs)) /\ Cardinality(DOMAIN Room(recs)) \in Nat
         /\ Cardinality(DOMAIN Room(recs)) =< MaxRecords - 1
         /\ PlacesDiffer(Room(recs)) /\ IsMap(Room(recs), Pairs, RecordType)
<1> DEFINE S == {recs[p].ord : p \in DOMAIN recs}
           full == Surplus(S, MaxRecords)
           K == DOMAIN Room(recs)
           f == [p \in K |-> recs[p].ord]
<1>1. /\ K = {p \in DOMAIN recs : recs[p].ord \notin full}
      /\ \A p \in K : Room(recs)[p] = recs[p]
      /\ IsMap(Room(recs), Pairs, RecordType)
  <2>1. Room(recs) = Drop(recs, {p \in DOMAIN recs : recs[p].ord \in full})
    BY DEF Room
  <2> HIDE DEF full
  <2>2. IsMap(Room(recs), Pairs, RecordType)
    <3>1. PICK X : Room(recs) = Drop(recs, X) BY <2>1
    <3>2. IsMap(Drop(recs, X), Pairs, RecordType) BY DropMap
    <3> QED BY <3>1, <3>2
  <2> QED BY <2>1, <2>2 DEF Drop
<1>2. S \subseteq 1..MaxSeq
  BY DEF IsMap, RecordType
<1>3. IsFiniteSet(S) /\ S \subseteq Nat
  <2> HIDE DEF S
  <2>1. 1 \in Int /\ MaxSeq \in Int BY BoundsAssumption
  <2>2. IsFiniteSet(1..MaxSeq) BY <2>1, FS_Interval
  <2>3. IsFiniteSet(S) BY <1>2, <2>2, FS_Subset
  <2> QED BY <1>2, <2>3
<1>4. MaxRecords \in Nat \ {0} BY BoundsAssumption
<1>5. /\ IsFiniteSet(S \ full) /\ Cardinality(S \ full) \in Nat
      /\ Cardinality(S \ full) =< MaxRecords - 1
  <2> HIDE DEF S
  <2> QED BY <1>3, <1>4, SurplusLeavesRoom
<1>6. IsFiniteSet(K) /\ Cardinality(K) \in Nat
  BY <1>1, FS_Subset, FS_CardinalityType
<1>7. f \in Injection(K, S \ full)
  BY <1>1 DEF Injection, IsInjective, PlacesDiffer
<1>8. Cardinality(K) =< Cardinality(S \ full)
  <2> HIDE DEF S, full, K, f
  <2> QED BY <1>5, <1>6, <1>7, FS_Injection
<1>9. PlacesDiffer(Room(recs))
  BY <1>1 DEF PlacesDiffer
<1> HIDE DEF K, S, full, f
<1>10. Cardinality(K) =< MaxRecords - 1
  BY <1>4, <1>5, <1>6, <1>8
<1> QED BY <1>1, <1>6, <1>9, <1>10 DEF K

Bounded ==
  /\ IsFiniteSet(Live) /\ Cardinality(Live) =< MaxSessions
  /\ IsFiniteSet(DOMAIN mailbox) /\ Cardinality(DOMAIN mailbox) =< MaxMailbox
  /\ IsFiniteSet(DOMAIN records) /\ Cardinality(DOMAIN records) =< MaxRecords
  /\ PlacesDiffer(records)

\* A finite table that lost entries is no larger.
LEMMA FewerEntries ==
  ASSUME NEW S, IsFiniteSet(S), NEW n \in Nat, Cardinality(S) =< n, NEW T, T \subseteq S
  PROVE  IsFiniteSet(T) /\ Cardinality(T) =< n
<1>1. IsFiniteSet(T) /\ Cardinality(T) =< Cardinality(S)
  BY FS_Subset
<1>2. Cardinality(T) \in Nat /\ Cardinality(S) \in Nat
  BY <1>1, FS_CardinalityType
<1> QED BY <1>1, <1>2

\* One more in a table with room for it.
LEMMA OneMoreEntry ==
  ASSUME NEW S, IsFiniteSet(S), NEW n \in Nat, Cardinality(S) =< n - 1, NEW x
  PROVE  IsFiniteSet(S \cup {x}) /\ Cardinality(S \cup {x}) =< n
<1>1. Cardinality(S) \in Nat
  BY FS_CardinalityType
<1>2. /\ IsFiniteSet(S \cup {x})
      /\ Cardinality(S \cup {x}) = IF x \in S THEN Cardinality(S) ELSE Cardinality(S) + 1
  BY FS_AddElement
<1> QED BY <1>1, <1>2

LEMMA BoundedInit == Init => Bounded
<1> SUFFICES ASSUME Init PROVE Bounded
  OBVIOUS
<1>1. Live = {} /\ DOMAIN mailbox = {} /\ DOMAIN records = {}
  BY DEF Init, Live, Empty
<1>2. 0 =< MaxSessions /\ 0 =< MaxMailbox /\ 0 =< MaxRecords
  BY BoundsAssumption
<1> QED BY <1>1, <1>2, FS_EmptySet DEF Bounded, PlacesDiffer

\* A step that adds nothing to the mailbox and no record.
LEMMA BoundedQuiet ==
  ASSUME Bounded, DOMAIN mailbox' \subseteq DOMAIN mailbox, DOMAIN records' \subseteq DOMAIN records,
         \A p \in DOMAIN records' : records'[p].ord = records[p].ord
  PROVE  /\ IsFiniteSet(DOMAIN mailbox') /\ Cardinality(DOMAIN mailbox') =< MaxMailbox
         /\ IsFiniteSet(DOMAIN records') /\ Cardinality(DOMAIN records') =< MaxRecords
         /\ PlacesDiffer(records')
<1>1. MaxMailbox \in Nat /\ MaxRecords \in Nat
  BY BoundsAssumption
<1>2. PlacesDiffer(records')
  BY DEF Bounded, PlacesDiffer
<1> QED BY <1>1, <1>2, FewerEntries DEF Bounded

LEMMA BoundedRecorded ==
  ASSUME TypeOK, Bounded, NEW recs, IsMap(recs, Pairs, RecordType),
         DOMAIN recs \subseteq DOMAIN records, \A p \in DOMAIN recs : recs[p].ord = records[p].ord,
         NEW p, NEW fp, NEW state, NEW code, RecordDelivery(recs, p, fp, state, code)
  PROVE  /\ IsFiniteSet(DOMAIN records') /\ Cardinality(DOMAIN records') =< MaxRecords
         /\ PlacesDiffer(records')
<1> DEFINE kept == Room(recs)
<1>1. IsFiniteSet(DOMAIN recs) /\ PlacesDiffer(recs)
  BY FS_Subset DEF Bounded, PlacesDiffer
<1>2. /\ IsFiniteSet(DOMAIN kept) /\ Cardinality(DOMAIN kept) \in Nat
      /\ Cardinality(DOMAIN kept) =< MaxRecords - 1
      /\ PlacesDiffer(kept) /\ IsMap(kept, Pairs, RecordType)
  BY <1>1, RoomLeavesRoom
<1>3. PICK n \in 1..MaxSeq :
         /\ IF p \in DOMAIN kept THEN n = kept[p].ord
            ELSE IsNext(n, {kept[q].ord : q \in DOMAIN kept})
         /\ records' = Put(kept, p, [fp |-> fp, state |-> state, code |-> code,
                                      at |-> now, ord |-> n])
  BY DEF RecordDelivery
<1> HIDE DEF kept
<1>4. /\ DOMAIN records' = DOMAIN kept \cup {p}
      /\ records'[p].ord = n
      /\ \A q \in DOMAIN kept : q # p => records'[q] = kept[q]
  BY <1>3 DEF Put
<1>5. MaxRecords \in Nat
  BY BoundsAssumption
<1>6. \A q \in DOMAIN kept : q # p => kept[q].ord # n
  <2> SUFFICES ASSUME NEW q \in DOMAIN kept, q # p, kept[q].ord = n PROVE FALSE
    OBVIOUS
  <2>1. CASE p \in DOMAIN kept
    BY <1>2, <1>3, <2>1 DEF PlacesDiffer
  <2>2. CASE p \notin DOMAIN kept
    <3>1. kept[q].ord < n BY <1>3, <2>2 DEF IsNext
    <3> QED BY <3>1
  <2> QED BY <2>1, <2>2
<1>7. PlacesDiffer(records')
  BY <1>2, <1>4, <1>6 DEF PlacesDiffer
<1>8. IsFiniteSet(DOMAIN kept \cup {p}) /\ Cardinality(DOMAIN kept \cup {p}) =< MaxRecords
  <2> DEFINE S == DOMAIN kept
  <2>1. IsFiniteSet(S) /\ Cardinality(S) =< MaxRecords - 1
    BY <1>2
  <2> HIDE DEF S
  <2>2. IsFiniteSet(S \cup {p}) /\ Cardinality(S \cup {p}) =< MaxRecords
    BY <1>5, <2>1, OneMoreEntry
  <2> QED BY <2>2 DEF S
<1> QED BY <1>4, <1>7, <1>8

\* Only a registration adds a session, and only if there is room.
LEMMA SessionsStep ==
  ASSUME TypeOK, Bounded, [Next]_vars
  PROVE  IsFiniteSet(Live') /\ Cardinality(Live') =< MaxSessions
<1>0. MaxSessions \in Nat
  BY BoundsAssumption
<1>1. ASSUME NEW c \in Conns, NEW k \in Keys, NEW info \in Profiles[k], Register(c, k, info)
      PROVE  IsFiniteSet(Live') /\ Cardinality(Live') =< MaxSessions
  <2>1. Live' = Live \cup {k}
    BY <1>1 DEF Register, Live, Put
  <2>2. CASE k \in Live
    <3>1. Live' = Live BY <2>1, <2>2
    <3> QED BY <3>1 DEF Bounded
  <2>3. CASE Cardinality(Live) < MaxSessions
    <3>1. Cardinality(Live) \in Nat BY FS_CardinalityType DEF Bounded
    <3>2. Cardinality(Live) =< MaxSessions - 1 BY <1>0, <2>3, <3>1
    <3> QED BY <1>0, <2>1, <3>2, OneMoreEntry DEF Bounded
  <2> QED BY <1>1, <2>2, <2>3 DEF Register, CanRegister
<1>2. ASSUME Live' \subseteq Live
      PROVE  IsFiniteSet(Live') /\ Cardinality(Live') =< MaxSessions
  BY <1>0, <1>2, FewerEntries DEF Bounded
<1>3. ASSUME NEW c \in Conns, Leave(c) \/ \E info \in Infos : Presence(c, info)
      PROVE  Live' \subseteq Live
  BY <1>3 DEF Leave, Presence, Live, Drop
<1>4. CASE Restart
  BY <1>2, <1>4 DEF Restart, Live, Empty
<1>5. CASE UNCHANGED sessions
  BY <1>2, <1>5 DEF Live
<1>6. ASSUME NEW c \in Conns, NEW m \in Messages, NEW dest \in Dests,
             NEW e \in {None} \cup Quoted, Send(c, m, dest, e)
      PROVE  UNCHANGED sessions
  BY <1>6 DEF Send, SendExactMiss, SendLive, SendStandIn, SendQueued, SendRefused
<1> QED BY <1>1, <1>2, <1>3, <1>4, <1>5, <1>6
        DEF Next, RegisterRefused, Receipt, CancelMessage, CancelAsk, Tick, vars, tables

TablesFit ==
  /\ IsFiniteSet(DOMAIN mailbox) /\ Cardinality(DOMAIN mailbox) =< MaxMailbox
  /\ IsFiniteSet(DOMAIN records) /\ Cardinality(DOMAIN records) =< MaxRecords
  /\ PlacesDiffer(records)

\* What fails records leaves them their places.
LEMMA FailKeepsPlaces ==
  ASSUME NEW recs, IsMap(recs, Pairs, RecordType), NEW P, NEW code \in Codes
  PROVE  /\ IsMap(Fail(recs, P, code), Pairs, RecordType) /\ DOMAIN Fail(recs, P, code) = DOMAIN recs
         /\ \A p \in DOMAIN recs : Fail(recs, P, code)[p].ord = recs[p].ord
<1>1. IsMap(Fail(recs, P, code), Pairs, RecordType) /\ DOMAIN Fail(recs, P, code) = DOMAIN recs
  BY FailMap
<1>2. ASSUME NEW p \in DOMAIN recs PROVE Fail(recs, P, code)[p].ord = recs[p].ord
  <2>1. recs[p] \in RecordType BY DEF IsMap
  <2> QED BY <2>1 DEF Fail, RecordType
<1> QED BY <1>1, <1>2

LEMMA BoundedSend ==
  ASSUME TypeOK, Bounded, NEW c \in Conns, NEW m \in Messages, NEW dest \in Dests,
         NEW e \in {None} \cup Quoted, Send(c, m, dest, e)
  PROVE  TablesFit'
<1> DEFINE k == conn[c]
           p == <<k, m.id>>
           RecordsFit == /\ IsFiniteSet(DOMAIN records) /\ Cardinality(DOMAIN records) =< MaxRecords
                         /\ PlacesDiffer(records)
<1>1. IsMap(LiveRecords, Pairs, RecordType)
  BY LiveTypes
<1>2. ASSUME NEW fp, NEW state, NEW code, RecordDelivery(LiveRecords, p, fp, state, code)
      PROVE  RecordsFit'
  BY <1>1, <1>2, LiveRecordsPart, BoundedRecorded
<1>3. ASSUME NEW P, NEW C \in Codes, NEW fp, NEW state, NEW code,
             RecordDelivery(Fail(LiveRecords, P, C), p, fp, state, code)
      PROVE  RecordsFit'
  <2> DEFINE recs == Fail(LiveRecords, P, C)
  <2>1. /\ IsMap(recs, Pairs, RecordType) /\ DOMAIN recs \subseteq DOMAIN records
        /\ \A q \in DOMAIN recs : recs[q].ord = records[q].ord
    BY <1>1, FailKeepsPlaces, LiveRecordsPart
  <2> HIDE DEF recs
  <2> QED BY <1>3, <2>1, BoundedRecorded DEF recs
<1>4. ASSUME NEW P, NEW C \in Codes, NEW Q, NEW D \in Codes, NEW fp, NEW state, NEW code,
             RecordDelivery(Fail(Fail(LiveRecords, P, C), Q, D), p, fp, state, code)
      PROVE  RecordsFit'
  <2> DEFINE first == Fail(LiveRecords, P, C)
             recs == Fail(first, Q, D)
  <2>1. /\ IsMap(first, Pairs, RecordType) /\ DOMAIN first \subseteq DOMAIN records
        /\ \A q \in DOMAIN first : first[q].ord = records[q].ord
    BY <1>1, FailKeepsPlaces, LiveRecordsPart
  <2> HIDE DEF first
  <2>2. /\ IsMap(recs, Pairs, RecordType) /\ DOMAIN recs \subseteq DOMAIN records
        /\ \A q \in DOMAIN recs : recs[q].ord = records[q].ord
    BY <2>1, FailKeepsPlaces
  <2>3. RecordDelivery(recs, p, fp, state, code)
    BY <1>4 DEF first
  <2> HIDE DEF recs
  <2> QED BY <2>2, <2>3, BoundedRecorded
<1>5. ASSUME UNCHANGED mailbox, RecordsFit' PROVE TablesFit'
  BY <1>5 DEF TablesFit, Bounded
<1>6. CASE SendExactMiss(k, m, dest, e)
  BY <1>2, <1>5, <1>6 DEF SendExactMiss
<1>7. ASSUME NEW t \in Live, SendLive(k, m, dest, e, t) PROVE TablesFit'
  BY <1>3, <1>5, <1>7 DEF SendLive, Codes, Failures
<1>8. ASSUME NEW d \in DOMAIN away, NEW t \in Live, SendStandIn(k, m, dest, e, d, t) PROVE TablesFit'
  BY <1>2, <1>5, <1>8 DEF SendStandIn
<1>9. ASSUME NEW d \in DOMAIN away, SendQueued(k, m, dest, e, d) PROVE TablesFit'
  <2> DEFINE full == Surplus(DOMAIN mailbox \ OldMail, MaxMailbox)
             left == (DOMAIN mailbox \ OldMail) \ full
  <2>1. RecordsFit'
    BY <1>4, <1>9 DEF SendQueued, Codes, Failures
  <2>2. PICK n, entry : mailbox' = Put(Drop(mailbox, OldMail \cup full), n, entry)
    BY <1>9 DEF SendQueued
  <2>3. DOMAIN mailbox' = left \cup {n}
    BY <2>2 DEF Put, Drop
  <2>4. IsFiniteSet(DOMAIN mailbox \ OldMail) /\ DOMAIN mailbox \ OldMail \subseteq Nat
    BY FS_Subset DEF Bounded, TypeOK, IsMap
  <2>5. MaxMailbox \in Nat \ {0}
    BY BoundsAssumption
  <2>6. IsFiniteSet(left) /\ Cardinality(left) =< MaxMailbox - 1
    BY <2>4, <2>5, SurplusLeavesRoom
  <2> HIDE DEF left, full, RecordsFit
  <2>7. IsFiniteSet(DOMAIN mailbox') /\ Cardinality(DOMAIN mailbox') =< MaxMailbox
    <3>1. MaxMailbox \in Nat BY <2>5
    <3>2. IsFiniteSet(left \cup {n}) /\ Cardinality(left \cup {n}) =< MaxMailbox
      BY <2>6, <3>1, OneMoreEntry
    <3> QED BY <2>3, <3>2
  <2> QED BY <2>1, <2>7 DEF TablesFit, RecordsFit
<1>10. CASE SendRefused(k, m, dest, e)
  <2>1. UNCHANGED mailbox /\ records' \in {records, LiveRecords}
    BY <1>10 DEF SendRefused
  <2> QED BY <2>1, LiveRecordsPart, BoundedQuiet DEF TablesFit
<1> HIDE DEF k
<1> QED BY <1>6, <1>7, <1>8, <1>9, <1>10 DEF Send, k

LEMMA BoundedStep == TypeOK /\ Bounded /\ [Next]_vars => Bounded'
<1> SUFFICES ASSUME TypeOK, Bounded, [Next]_vars PROVE TablesFit'
  BY SessionsStep DEF TablesFit, Bounded
<1>1. "E_DELIVERY_EXPIRED" \in Codes /\ "E_DELIVERY_CANCELLED" \in Codes
  BY DEF Codes, Failures
<1>2. IsMap(records, Pairs, RecordType)
  BY DEF TypeOK
<1>3. ASSUME NEW c \in Conns, NEW k \in Keys, NEW info \in Profiles[k], Register(c, k, info)
      PROVE  TablesFit'
  <2> DEFINE mail == MailFor(k, info, Put(sessions, k, [conn |-> c, info |-> info]))
             recs == Fail(records, MailPairs(OldMail), "E_DELIVERY_EXPIRED")
  <2>1. /\ DOMAIN mailbox' \subseteq DOMAIN mailbox
        /\ records' = [p \in DOMAIN recs |->
                         IF p \in MailPairs(mail)
                         THEN [recs[p] EXCEPT !.state = "socket_delivered", !.code = None]
                         ELSE recs[p]]
    BY <1>3 DEF Register, Drop
  <2>2. /\ IsMap(recs, Pairs, RecordType) /\ DOMAIN recs = DOMAIN records
        /\ \A p \in DOMAIN recs : recs[p].ord = records[p].ord
    BY <1>1, <1>2, FailKeepsPlaces
  <2> HIDE DEF recs, mail
  <2>3. DOMAIN records' = DOMAIN records /\ \A p \in DOMAIN records' : records'[p].ord = records[p].ord
    <3>1. ASSUME NEW p \in DOMAIN recs PROVE records'[p].ord = recs[p].ord
      <4>1. recs[p] \in RecordType BY <2>2 DEF IsMap
      <4> QED BY <2>1, <4>1 DEF RecordType
    <3> QED BY <2>1, <2>2, <3>1
  <2> QED BY <2>1, <2>3, BoundedQuiet DEF TablesFit
<1>4. ASSUME NEW c \in Conns, NEW k \in Keys, RegisterRefused(c, k)
      PROVE  TablesFit'
  <2>1. DOMAIN mailbox' \subseteq DOMAIN mailbox
    BY <1>4 DEF RegisterRefused, Drop
  <2>2. DOMAIN records' = DOMAIN records /\ \A p \in DOMAIN records' : records'[p].ord = records[p].ord
    <3>1. records' = Fail(records, MailPairs(OldMail), "E_DELIVERY_EXPIRED")
      BY <1>4 DEF RegisterRefused
    <3> QED BY <1>1, <1>2, <3>1, FailKeepsPlaces
  <2> QED BY <2>1, <2>2, BoundedQuiet DEF TablesFit
<1>5. ASSUME NEW c \in Conns, NEW id \in Ids, CancelMessage(c, id)
      PROVE  TablesFit'
  <2> DEFINE expired == Fail(records, MailPairs(OldMail), "E_DELIVERY_EXPIRED")
  <2>1. DOMAIN mailbox' \subseteq DOMAIN mailbox
    BY <1>5 DEF CancelMessage, Drop
  <2>2. /\ IsMap(expired, Pairs, RecordType) /\ DOMAIN expired = DOMAIN records
        /\ \A p \in DOMAIN records : expired[p].ord = records[p].ord
    BY <1>1, <1>2, FailKeepsPlaces
  <2>3. PICK P : records' = Fail(expired, P, "E_DELIVERY_CANCELLED")
    BY <1>5 DEF CancelMessage
  <2> HIDE DEF expired
  <2>4. DOMAIN records' = DOMAIN records /\ \A p \in DOMAIN records' : records'[p].ord = records[p].ord
    BY <1>1, <2>2, <2>3, FailKeepsPlaces
  <2> QED BY <2>1, <2>4, BoundedQuiet DEF TablesFit
<1>6. CASE UNCHANGED <<mailbox, records>>
  BY <1>6 DEF TablesFit, Bounded
<1>7. CASE Restart
  <2>1. DOMAIN mailbox' = {} /\ DOMAIN records' = {}
    BY <1>7 DEF Restart, Empty
  <2> QED BY <2>1, BoundedQuiet DEF TablesFit
<1>8. ASSUME NEW c \in Conns,
             \/ Leave(c) \/ Receipt(c)
             \/ \E info \in Infos : Presence(c, info)
             \/ \E id \in Ids : CancelAsk(c, id)
      PROVE  UNCHANGED <<mailbox, records>>
  BY <1>8 DEF Leave, Receipt, Presence, CancelAsk
<1>9. CASE Tick \/ UNCHANGED vars
  BY <1>6, <1>9 DEF Tick, vars, tables
<1> QED BY <1>3, <1>4, <1>5, <1>6, <1>7, <1>8, <1>9, BoundedSend DEF Next

\* However many sessions, messages and retries there are, the sessions, the mailbox and the
\* records stay within their limits.
THEOREM TablesStayBounded == Spec => []TablesBounded
<1>1. TypeOK /\ Bounded /\ [Next]_vars => (TypeOK /\ Bounded)'
  BY TypeStep, BoundedStep
<1>2. Bounded => TablesBounded
  BY DEF Bounded, TablesBounded
<1> QED BY <1>1, <1>2, TypeInit, BoundedInit, PTL DEF Spec

---------------------------------------------------------------------------
(* Where replies go *)

\* What was delivered was written by its author.
GotAuthored == \A g \in got : \E m \in Messages : m.id = g[2] /\ m.author = g[1]

\* A queued reply waits for the session whose ask it answers.
MailAnswers ==
  \A i \in DOMAIN mailbox :
    mailbox[i].m.replyTo # None =>
      \E q \in Messages : q.id = mailbox[i].m.replyTo /\ q.author = mailbox[i].to

Origins == GotAuthored /\ MailAnswers

LEMMA OriginsInit == Init => Origins
BY DEF Init, Origins, GotAuthored, MailAnswers, Empty

\* Only sends and registrations write frames.
LEMMA GotSteps ==
  ASSUME TypeOK, Next,
         ~\E c \in Conns, m \in Messages, dest \in Dests, e \in {None} \cup Quoted :
            Send(c, m, dest, e) /\ \E t : Deliver(conn[c], m, t),
         ~\E c \in Conns, k \in Keys : \E info \in Profiles[k] : Register(c, k, info)
  PROVE  UNCHANGED got
<1>1. ASSUME NEW c \in Conns, NEW m \in Messages, NEW dest \in Dests,
             NEW e \in {None} \cup Quoted, Send(c, m, dest, e)
      PROVE  UNCHANGED got
  BY <1>1 DEF Send, SendExactMiss, SendLive, SendStandIn, SendQueued, SendRefused
<1>2. ASSUME NEW c \in Conns,
             \/ \E k \in Keys : RegisterRefused(c, k)
             \/ Leave(c) \/ Receipt(c)
             \/ \E info \in Infos : Presence(c, info)
             \/ \E id \in Ids : CancelAsk(c, id) \/ CancelMessage(c, id)
      PROVE  UNCHANGED got
  BY <1>2 DEF RegisterRefused, Leave, Receipt, Presence, CancelAsk, CancelMessage, history
<1>3. CASE Tick \/ Restart
  BY <1>3 DEF Tick, Restart, history
<1> QED BY <1>1, <1>2, <1>3 DEF Next

\* The new deliveries of a registration come out of the mailbox.
LEMMA FlushedMail ==
  ASSUME NEW c \in Conns, NEW k \in Keys, NEW info \in Profiles[k], Register(c, k, info),
         NEW g \in got' \ got
  PROVE  \E i \in MailFor(k, info, Put(sessions, k, [conn |-> c, info |-> info])) :
            i \in DOMAIN mailbox /\ g = <<mailbox[i].m.author, mailbox[i].m.id, k>>
<1> DEFINE mail == MailFor(k, info, Put(sessions, k, [conn |-> c, info |-> info]))
<1>1. mail \subseteq DOMAIN mailbox /\ got' = got \cup {<<p[1], p[2], k>> : p \in MailPairs(mail)}
  BY DEF Register, MailFor
<1> HIDE DEF mail
<1>2. PICK p \in MailPairs(mail) : g = <<p[1], p[2], k>>
  BY <1>1
<1>3. PICK i \in mail : p = <<mailbox[i].m.author, mailbox[i].m.id>>
  BY DEF MailPairs
<1> QED BY <1>1, <1>2, <1>3 DEF mail

LEMMA OriginsStep == TypeOK /\ Files /\ Origins /\ [Next]_vars => Origins'
<1> SUFFICES ASSUME TypeOK, Files, Origins, [Next]_vars PROVE Origins'
  OBVIOUS
<1>1. CASE UNCHANGED vars
  BY <1>1 DEF vars, tables, history, Origins, GotAuthored, MailAnswers
<1>2. CASE Next
  <2>1. GotAuthored'
    <3>1. ASSUME NEW c \in Conns, NEW m \in Messages, NEW dest \in Dests,
                 NEW e \in {None} \cup Quoted, Send(c, m, dest, e), NEW t, Deliver(conn[c], m, t)
          PROVE  GotAuthored'
      <4>1. m.author = conn[c] /\ got' = got \cup {<<conn[c], m.id, t>>}
        BY <3>1 DEF Send, Deliver
      <4>2. \A g \in got' : g \in got \/ (m.id = g[2] /\ m.author = g[1])
        BY <4>1
      <4> QED BY <4>2 DEF Origins, GotAuthored
    <3>2. ASSUME NEW c \in Conns, NEW k \in Keys, NEW info \in Profiles[k], Register(c, k, info)
          PROVE  GotAuthored'
      <4>1. ASSUME NEW g \in got' \ got
            PROVE  \E m \in Messages : m.id = g[2] /\ m.author = g[1]
        <5>1. PICK i \in DOMAIN mailbox : g = <<mailbox[i].m.author, mailbox[i].m.id, k>>
          BY <3>2, FlushedMail
        <5>2. mailbox[i].m \in Messages BY MailEntryType
        <5> QED BY <5>1, <5>2
      <4> QED BY <4>1 DEF Origins, GotAuthored
    <3>3. CASE UNCHANGED got
      BY <3>3 DEF Origins, GotAuthored
    <3> QED BY <1>2, <3>1, <3>2, <3>3, GotSteps
  <2>2. MailAnswers'
    <3>1. ASSUME NEW c \in Conns, NEW m \in Messages, NEW dest \in Dests,
                 NEW e \in {None} \cup Quoted, NEW d \in DOMAIN away,
                 SendQueued(conn[c], m, dest, e, d)
          PROVE  MailAnswers'
      <4>1. m.replyTo # None => \E q \in Messages : q.id = m.replyTo /\ q.author = d
        <5>1. SUFFICES ASSUME m.replyTo # None
                       PROVE  m.replyTo \in DOMAIN askEdges /\ askEdges[m.replyTo].from = d
          BY DEF Files, EdgesHaveAuthors
        <5>2. AnswersAsk(conn[c], m, d) BY <3>1, <5>1 DEF SendQueued, CanLeaveFor
        <5> QED BY <5>2 DEF AnswersAsk, LiveEdges, Fresh
      <4> QED BY <3>1, <4>1, SendQueuedMail DEF Origins, MailAnswers
    <3>2. CASE Part(mailbox', mailbox)
      BY <3>2 DEF Origins, MailAnswers, Part
    <3> QED BY <1>2, <3>1, <3>2, MailboxShrinks
  <2> QED BY <2>1, <2>2 DEF Origins
<1> QED BY <1>1, <1>2

\* Where the frame g of the reply m may go.
ReachesAsker(g, m) ==
  \E q \in Messages :
    /\ q.id = m.replyTo
    /\ \/ g[3] = q.author
       \/ \E info \in RememberedAs(q.author, m) :
            g[3] \in SharingIdentity(sessions', info, Scope[q.author])

\* A reply that is handed over at once goes to the author of what it answers, or to the one
\* session that stands in for it.
LEMMA SendReaches ==
  ASSUME TypeOK, Files, Ledger, Origins, NEW c \in Conns, NEW m \in Messages, NEW dest \in Dests,
         NEW e \in {None} \cup Quoted, Send(c, m, dest, e), NEW g \in got' \ got,
         NEW n \in Messages, g[1] = n.author, g[2] = n.id, n.replyTo # None,
         <<g[1], g[2]>> \in DOMAIN records' => records'[<<g[1], g[2]>>].fp[2] = n
  PROVE  ReachesAsker(g, n)
<1> DEFINE k == conn[c]
<1>1. m.author = k
  BY DEF Send
<1>2. ASSUME NEW recs, NEW id, NEW state, NEW code, NEW t, Deliver(k, m, t),
             RecordDelivery(recs, <<k, m.id>>, Fingerprint(m, id), state, code)
      PROVE  g[3] = t /\ n = m
  <2>1. g = <<k, m.id, t>>
    BY <1>2 DEF Deliver
  <2>2. <<k, m.id>> \in DOMAIN records' /\ records'[<<k, m.id>>].fp = <<id, m>>
    BY <1>2 DEF RecordDelivery, Put, Fingerprint
  <2> QED BY <2>1, <2>2
<1>3. ASSUME NEW t, m.replyTo # None, AnswersAsk(k, m, t) \/ AnswersMessage(k, m, t)
      PROVE  \E q \in Messages : q.id = m.replyTo /\ q.author = t
  <2>1. CASE AnswersAsk(k, m, t)
    <3>1. m.replyTo \in DOMAIN askEdges /\ askEdges[m.replyTo].from = t
      BY <2>1 DEF AnswersAsk, LiveEdges, Fresh
    <3> QED BY <3>1 DEF Files, EdgesHaveAuthors
  <2>2. CASE AnswersMessage(k, m, t)
    <3>1. m.replyTo \in DOMAIN routes /\ routes[m.replyTo].from = t
      BY <2>2 DEF AnswersMessage, LiveRoutes, Fresh
    <3>2. PICK h \in got : h[1] = t /\ h[2] = m.replyTo
      BY <3>1 DEF Ledger, RoutesDelivered, Delivered
    <3> QED BY <3>2 DEF Origins, GotAuthored
  <2> QED BY <1>3, <2>1, <2>2
<1>4. ASSUME NEW t \in Live, SendLive(k, m, dest, e, t) PROVE ReachesAsker(g, n)
  <2>1. g[3] = t /\ n = m
    BY <1>2, <1>4 DEF SendLive
  <2>2. AnswersAsk(k, m, t) \/ AnswersMessage(k, m, t)
    BY <1>4, <2>1 DEF SendLive, CanDeliver
  <2> QED BY <1>3, <2>1, <2>2 DEF ReachesAsker
<1>5. ASSUME NEW d \in DOMAIN away, NEW t \in Live, SendStandIn(k, m, dest, e, d, t)
      PROVE  ReachesAsker(g, n)
  <2>1. g[3] = t /\ n = m
    BY <1>2, <1>5 DEF SendStandIn
  <2>2. AnswersAsk(k, m, d)
    BY <1>5, <2>1 DEF SendStandIn, CanLeaveFor
  <2>3. UNCHANGED sessions /\ t \in SharingIdentity(sessions, away[d].info, Scope[d])
    BY <1>5 DEF SendStandIn, StandIns
  <2>4. PICK q \in Messages : q.id = m.replyTo /\ q.author = d
    BY <1>3, <2>1, <2>2
  <2>5. away[d].info \in RememberedAs(q.author, n)
    BY <1>5, <2>4 DEF RememberedAs
  <2> QED BY <2>1, <2>3, <2>4, <2>5 DEF ReachesAsker
<1>6. UNCHANGED got => FALSE
  OBVIOUS
<1> QED BY <1>4, <1>5, <1>6 DEF Send, SendExactMiss, SendQueued, SendRefused

\* An author gives an id to one message only.
UniqueIds == \A m, n \in Messages : m.id = n.id /\ m.author = n.author => m = n

\* Every session chose its name: none bears a runtime alias.
NoAliases == \A info \in Infos : ~info.alias

\* Where names are chosen, a reply that waited goes to the author of what it answers, when that
\* session is back, or to the one session called, and working, as it was.
LEMMA FlushReaches ==
  ASSUME TypeOK, Origins, UniqueIds, NoAliases,
         NEW c \in Conns, NEW k \in Keys, NEW info \in Profiles[k], Register(c, k, info),
         NEW g \in got' \ got, NEW n \in Messages,
         g[1] = n.author, g[2] = n.id, n.replyTo # None
  PROVE  ReachesAsker(g, n)
<1> DEFINE live == Put(sessions, k, [conn |-> c, info |-> info])
<1>1. PICK i \in MailFor(k, info, live) :
         i \in DOMAIN mailbox /\ g = <<mailbox[i].m.author, mailbox[i].m.id, k>>
  BY FlushedMail
<1>2. mailbox[i].m \in Messages /\ mailbox[i].to \in Keys
  BY <1>1, MailEntryType
<1>3. mailbox[i].m = n /\ g[3] = k
  BY <1>1, <1>2 DEF UniqueIds
<1>4. PICK q \in Messages : q.id = n.replyTo /\ q.author = mailbox[i].to
  BY <1>1, <1>3 DEF Origins, MailAnswers
<1>5. CASE mailbox[i].to = k
  BY <1>3, <1>4, <1>5 DEF ReachesAsker
<1>6. CASE mailbox[i].to # k
  <2>1. /\ Cardinality(SharingIdentity(live, info, Scope[k])) = 1
        /\ mailbox[i].toInfo.name = info.name /\ mailbox[i].toInfo.cwd = info.cwd
        /\ Scope[mailbox[i].to] = Scope[k]
    BY <1>1, <1>6 DEF MailFor
  <2>2. SharingIdentity(live, info, Scope[k]) # {}
    <3>1. Cardinality({}) = 0 BY FS_EmptySet
    <3> HIDE DEF live
    <3> QED BY <2>1, <3>1
  <2>3. info.name # None /\ ~info.alias
    BY <2>2 DEF SharingIdentity
  <2>4. sessions' = live /\ k \in DOMAIN live /\ live[k].info = info
    BY DEF Register, Put
  <2>5. ~mailbox[i].toInfo.alias
    BY <1>1, MailEntryType DEF NoAliases
  <2>6. k \in SharingIdentity(sessions', mailbox[i].toInfo, Scope[q.author])
    BY <1>4, <2>1, <2>3, <2>4, <2>5 DEF SharingIdentity
  <2>7. mailbox[i].toInfo \in RememberedAs(q.author, n)
    BY <1>1, <1>3, <1>4 DEF RememberedAs
  <2> QED BY <1>3, <1>4, <2>6, <2>7 DEF ReachesAsker
<1> QED BY <1>5, <1>6

\* With ids minted for one message each and names that were chosen, every reply that is written
\* to a socket, at once or after it waited, goes to the session whose message it answers, or to
\* one called, and working, as that session was.  Without NoAliases the flush gives a reply to
\* a session whose chosen name is another's alias: flushMailboxForSession does not look.
THEOREM RepliesReachNamedAskers == UniqueIds /\ NoAliases => (Spec => ReplyReachesAsker)
<1> SUFFICES ASSUME UniqueIds, NoAliases PROVE Spec => ReplyReachesAsker
  OBVIOUS
<1> DEFINE IInv == TypeOK /\ Inv /\ Files /\ Ledger /\ Origins
           Reach == \A g \in got' \ got, m \in Messages :
                      /\ g[1] = m.author /\ g[2] = m.id /\ m.replyTo # None
                      /\ <<g[1], g[2]>> \in DOMAIN records' =>
                           records'[<<g[1], g[2]>>].fp[2] = m
                      => ReachesAsker(g, m)
<1>1. Init => IInv
  BY TypeInit, InvInit, FilesInit, LedgerInit, OriginsInit
<1>2. IInv /\ [Next]_vars => IInv'
  BY TypeStep, InvStep, FilesStep, LedgerStep, OriginsStep
<1>3. IInv /\ [Next]_vars => [Reach]_vars
  <2> SUFFICES ASSUME IInv, Next PROVE Reach
    BY DEF vars, history
  <2> SUFFICES ASSUME NEW g \in got' \ got, NEW m \in Messages,
                      g[1] = m.author, g[2] = m.id, m.replyTo # None,
                      <<g[1], g[2]>> \in DOMAIN records' =>
                        records'[<<g[1], g[2]>>].fp[2] = m
               PROVE  ReachesAsker(g, m)
    OBVIOUS
  <2>1. CASE \E c \in Conns, n \in Messages, dest \in Dests, e \in {None} \cup Quoted :
               Send(c, n, dest, e)
    BY <2>1, SendReaches
  <2>2. CASE \E c \in Conns, k \in Keys : \E info \in Profiles[k] : Register(c, k, info)
    BY <2>2, FlushReaches
  <2>3. got' # got
    OBVIOUS
  <2> QED BY <2>1, <2>2, <2>3, GotSteps
<1> HIDE DEF IInv
<1> QED BY <1>1, <1>2, <1>3, PTL DEF Spec, ReplyReachesAsker, ReachesAsker
=============================================================================
