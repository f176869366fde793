------------------------ MODULE BrokerRoutingProofs ------------------------
(***************************************************************************)
(* What BrokerRouting guarantees for any number of sessions, sockets,      *)
(* messages and scopes, and for any limits and timeouts.                   *)
(***************************************************************************)
EXTENDS BrokerRouting, Extrema, TLAPS

---------------------------------------------------------------------------
(* The operators on maps *)

LEMMA EmptyMap == ASSUME NEW K, NEW V PROVE IsMap(Empty, K, V)
BY DEF IsMap, Empty

LEMMA PutMap ==
  ASSUME NEW K, NEW V, NEW f, IsMap(f, K, V), NEW x \in K, NEW v \in V
  PROVE  IsMap(Put(f, x, v), K, V) /\ DOMAIN Put(f, x, v) = DOMAIN f \cup {x}
BY DEF IsMap, Put

LEMMA DropMap ==
  ASSUME NEW K, NEW V, NEW f, IsMap(f, K, V), NEW S
  PROVE  /\ IsMap(Drop(f, S), K, V)
         /\ DOMAIN Drop(f, S) = DOMAIN f \ S
         /\ \A x \in DOMAIN f \ S : Drop(f, S)[x] = f[x]
BY DEF IsMap, Drop

LEMMA FreshMap ==
  ASSUME NEW K, NEW V, NEW f, IsMap(f, K, V), NEW ttl
  PROVE  /\ IsMap(Fresh(f, ttl), K, V)
         /\ DOMAIN Fresh(f, ttl) \subseteq DOMAIN f
         /\ \A x \in DOMAIN Fresh(f, ttl) : Fresh(f, ttl)[x] = f[x]
BY DEF IsMap, Fresh

---------------------------------------------------------------------------
(* Types *)

LEMMA FailMap ==
  ASSUME NEW f, IsMap(f, Pairs, RecordType), NEW P, NEW code \in Codes
  PROVE  IsMap(Fail(f, P, code), Pairs, RecordType) /\ DOMAIN Fail(f, P, code) = DOMAIN f
<1>1. DOMAIN Fail(f, P, code) = DOMAIN f
  BY DEF Fail
<1>2. ASSUME NEW p \in DOMAIN f
      PROVE  Fail(f, P, code)[p] \in RecordType
  <2>1. f[p] \in RecordType
    BY <1>2 DEF IsMap
  <2>2. [f[p] EXCEPT !.state = "failed", !.code = code] \in RecordType
    BY <2>1 DEF RecordType
  <2> QED BY <1>2, <2>1, <2>2 DEF Fail
<1>3. Fail(f, P, code) \in [DOMAIN f -> RecordType]
  BY <1>2 DEF Fail
<1> QED BY <1>1, <1>3 DEF IsMap

LEMMA RecordDeliveryMap ==
  ASSUME NEW f, IsMap(f, Pairs, RecordType), now \in 0..MaxTime, forgotten \subseteq Pairs,
         DOMAIN records \subseteq Pairs,
         NEW p \in Pairs, NEW fp \in TargetIds \X Messages,
         NEW state \in {"socket_delivered", "queued", "failed"}, NEW code \in Codes,
         RecordDelivery(f, p, fp, state, code)
  PROVE  IsMap(records', Pairs, RecordType) /\ forgotten' \subseteq Pairs
<1> DEFINE kept == Room(f)
<1>1. IsMap(kept, Pairs, RecordType) BY DropMap DEF Room
<1>2. PICK n \in 1..MaxSeq : records' = Put(kept, p, [fp |-> fp, state |-> state, code |-> code,
                                      at |-> now, ord |-> n])
  BY DEF RecordDelivery
<1>3. [fp |-> fp, state |-> state, code |-> code, at |-> now, ord |-> n] \in RecordType
  BY DEF RecordType, TargetIds
<1>4. IsMap(records', Pairs, RecordType)
  <2> HIDE DEF kept
  <2> QED BY <1>1, <1>2, <1>3, PutMap
<1>5. forgotten' \subseteq Pairs BY DEF RecordDelivery
<1> QED BY <1>4, <1>5

\* What the prunes leave has the type of what they prune.
LEMMA LiveTypes ==
  ASSUME TypeOK
  PROVE  /\ IsMap(LiveEdges, Ids, EdgeType)
         /\ IsMap(LiveFiles, FileKeys, FileType)
         /\ IsMap(LiveRoutes, Ids, EdgeType)
         /\ IsMap(LiveRecords, Pairs, RecordType)
         /\ IsMap(LiveAway, Keys, AwayType)
BY FreshMap DEF TypeOK, LiveEdges, LiveFiles, LiveRoutes, LiveRecords, LiveAway

LEMMA MessageType ==
  ASSUME NEW m \in Messages
  PROVE  /\ m.id \in Ids /\ m.author \in Keys /\ m.ask \in BOOLEAN
         /\ m.replyTo \in Ids \cup {None} /\ m.supersedes \in Ids \cup {None}
BY ConstantsAssumption

LEMMA OwnerType ==
  ASSUME TypeOK, NEW c \in Conns, Owns(c)
  PROVE  conn[c] \in Keys /\ conn[c] \in Live /\ sessions[conn[c]] \in SessionType
BY DEF TypeOK, Owns, IsMap, Live

LEMMA MailEntryType ==
  ASSUME TypeOK, NEW i \in DOMAIN mailbox
  PROVE  /\ i \in 1..MaxSeq
         /\ mailbox[i] \in MailType
         /\ mailbox[i].m \in Messages /\ mailbox[i].m.id \in Ids
         /\ mailbox[i].m.author \in Keys /\ mailbox[i].to \in Keys
         /\ mailbox[i].fromInfo \in Infos /\ mailbox[i].toInfo \in Infos
         /\ mailbox[i].at \in 0..MaxTime
BY MessageType DEF TypeOK, IsMap, MailType

LEMMA TypeInit == Init => TypeOK
<1> SUFFICES ASSUME Init PROVE TypeOK OBVIOUS
<1>1. 0 \in 0..MaxTime /\ (\A k \in Keys : 0 =< MaxEpoch[k]) BY BoundsAssumption
<1> QED BY <1>1, EmptyMap DEF Init, TypeOK

LEMMA TypeLeave == ASSUME TypeOK, NEW c \in Conns, Leave(c) PROVE TypeOK'
<1> DEFINE k == conn[c]
<1>1. k \in Keys BY DEF TypeOK, Leave
<1>2. conn' \in [Conns -> Keys \cup {None}] BY DEF TypeOK, Leave
<1>3. CASE Owns(c)
  <2>0. /\ sessions' = Drop(sessions, {k}) /\ routes' = Drop(routes, RoutesOf(k))
        /\ away' = Put(LiveAway, k, [info |-> sessions[k].info, at |-> now])
    BY <1>3 DEF Leave
  <2>1. IsMap(sessions', Keys, SessionType)
    BY <2>0, DropMap DEF TypeOK
  <2>2. [info |-> sessions[k].info, at |-> now] \in AwayType
    BY <1>3, OwnerType DEF TypeOK, AwayType, SessionType
  <2>3. IsMap(away', Keys, AwayType)
    BY <1>1, <2>0, <2>2, LiveTypes, PutMap
  <2>4. IsMap(routes', Ids, EdgeType)
    BY <2>0, DropMap DEF TypeOK
  <2> QED BY <1>2, <2>1, <2>3, <2>4 DEF TypeOK, Leave, history
<1>4. CASE ~Owns(c)
  BY <1>2, <1>4 DEF TypeOK, Leave, history
<1> QED BY <1>3, <1>4

LEMMA TypePresence ==
  ASSUME TypeOK, NEW c \in Conns, NEW info \in Infos, Presence(c, info) PROVE TypeOK'
<1>1. IsMap(sessions', Keys, SessionType)
  BY OwnerType DEF TypeOK, Presence, IsMap, SessionType
<1> QED BY <1>1 DEF TypeOK, Presence, history

LEMMA TypeReceipt == ASSUME TypeOK, NEW c \in Conns, Receipt(c) PROVE TypeOK'
BY LiveTypes DEF TypeOK, Receipt, history

LEMMA TypeCancelMessage ==
  ASSUME TypeOK, NEW c \in Conns, NEW id \in Ids, CancelMessage(c, id) PROVE TypeOK'
<1>1. IsMap(mailbox', 1..MaxSeq, MailType)
  BY DropMap DEF TypeOK, CancelMessage
<1>2. IsMap(askEdges', Ids, EdgeType)
  BY DropMap DEF TypeOK, CancelMessage
<1>3. IsMap(askFiles', FileKeys, FileType)
  BY DropMap DEF TypeOK, CancelMessage
<1>4. IsMap(routes', Ids, EdgeType)
  BY LiveTypes, DropMap DEF CancelMessage
<1>5. IsMap(records', Pairs, RecordType)
  BY FailMap DEF TypeOK, CancelMessage, Codes, Failures
<1> QED BY <1>1, <1>2, <1>3, <1>4, <1>5 DEF TypeOK, CancelMessage, history

LEMMA TypeCancelAsk ==
  ASSUME TypeOK, NEW c \in Conns, NEW id \in Ids, CancelAsk(c, id) PROVE TypeOK'
BY DropMap DEF TypeOK, CancelAsk, history

LEMMA TypeTick == ASSUME TypeOK, Tick PROVE TypeOK'
<1>1. now' \in 0..MaxTime
  BY BoundsAssumption DEF TypeOK, Tick
<1>2. UNCHANGED <<conn, epoch, tables, history>>
  BY DEF Tick
<1> QED BY <1>1, <1>2 DEF TypeOK, tables, history

LEMMA TypeRestart == ASSUME TypeOK, Restart PROVE TypeOK'
<1>1. conn' \in [Conns -> Keys \cup {None}] BY DEF Restart
<1>2. forgotten' \subseteq Pairs BY DEF TypeOK, Restart, IsMap
<1> QED BY <1>1, <1>2, EmptyMap, LiveTypes DEF TypeOK, Restart

LEMMA TypeRegisterRefused ==
  ASSUME TypeOK, NEW c \in Conns, NEW k \in Keys, RegisterRefused(c, k) PROVE TypeOK'
<1>1. IsMap(records', Pairs, RecordType)
  BY FailMap DEF TypeOK, RegisterRefused, Codes, Failures
<1> QED BY <1>1, DropMap, LiveTypes DEF TypeOK, RegisterRefused, history

\* What every send leaves after its prunes, and after a reply ends its ask.
LEMMA TypePruneOnSend ==
  ASSUME TypeOK, PruneOnSend
  PROVE  /\ IsMap(askEdges', Ids, EdgeType) /\ IsMap(askFiles', FileKeys, FileType)
         /\ IsMap(routes', Ids, EdgeType)
BY LiveTypes DEF PruneOnSend

LEMMA FingerprintType ==
  ASSUME NEW k \in Keys, NEW m \in Messages
  PROVE  Fingerprint(m, IdOf[k]) \in TargetIds \X Messages
BY DEF Fingerprint, TargetIds

LEMMA TypeSendExactMiss ==
  ASSUME TypeOK, NEW k \in Keys, NEW m \in Messages, m.author = k, NEW dest \in Dests,
         NEW e, SendExactMiss(k, m, dest, e)
  PROVE  TypeOK'
<1>2. <<k, m.id>> \in Pairs /\ Fingerprint(m, dest) \in TargetIds \X Messages
  BY MessageType DEF Pairs, Fingerprint, TargetIds
<1>3. IsMap(records', Pairs, RecordType) /\ forgotten' \subseteq Pairs
  <2>1. PICK code \in Codes : RecordDelivery(LiveRecords, <<k, m.id>>, Fingerprint(m, dest),
                                             "failed", code)
    BY DEF SendExactMiss, Codes, Failures
  <2>2. DOMAIN records \subseteq Pairs BY DEF TypeOK, IsMap
  <2> QED BY <1>2, <2>1, <2>2, LiveTypes, RecordDeliveryMap DEF TypeOK
<1> QED BY <1>3, TypePruneOnSend DEF TypeOK, SendExactMiss

LEMMA TypeDeliver ==
  ASSUME TypeOK, NEW k \in Keys, NEW m \in Messages, m.author = k, NEW t \in Keys,
         Deliver(k, m, t)
  PROVE  got' \subseteq Keys \X Ids \X Keys /\ dup' \subseteq Pairs
BY MessageType DEF TypeOK, Deliver, Pairs

LEMMA TypeSendLive ==
  ASSUME TypeOK, NEW k \in Keys, NEW m \in Messages, m.author = k, NEW dest, NEW e,
         NEW t \in Keys, SendLive(k, m, dest, e, t)
  PROVE  TypeOK'
<1> DEFINE edge == [from |-> k, to |-> t, at |-> now]
<1>1. edge \in EdgeType /\ m.id \in Ids BY MessageType DEF TypeOK, EdgeType
<1>2. IsMap(askEdges', Ids, EdgeType)
  <2>1. IsMap(Put(LiveEdges, m.id, edge), Ids, EdgeType) BY <1>1, LiveTypes, PutMap
  <2>2. PICK f : IsMap(f, Ids, EdgeType) /\ askEdges' = Drop(f, {m.replyTo})
    BY <2>1, LiveTypes DEF SendLive
  <2> QED BY <2>2, DropMap
<1>3. IsMap(askFiles', FileKeys, FileType)
  <2>1. <<Scope[k], m.id>> \in FileKeys /\ [at |-> now] \in FileType
    BY <1>1 DEF TypeOK, FileKeys, FileType
  <2>2. IsMap(Put(LiveFiles, <<Scope[k], m.id>>, [at |-> now]), FileKeys, FileType)
    BY <2>1, LiveTypes, PutMap
  <2>3. PICK f : IsMap(f, FileKeys, FileType) /\ askFiles' = Drop(f, {<<Scope[k], m.replyTo>>})
    BY <2>2, LiveTypes DEF SendLive
  <2> QED BY <2>3, DropMap
<1>4. IsMap(routes', Ids, EdgeType) BY <1>1, LiveTypes, PutMap DEF SendLive
<1>5. IsMap(records', Pairs, RecordType) /\ forgotten' \subseteq Pairs
  <2>1. IsMap(Fail(LiveRecords, {<<k, m.supersedes>>}, "E_DELIVERY_SUPERSEDED"), Pairs,
              RecordType)
    BY LiveTypes, FailMap DEF Codes, Failures
  <2>2. <<k, m.id>> \in Pairs BY MessageType DEF Pairs
  <2>3. DOMAIN records \subseteq Pairs /\ None \in Codes BY DEF TypeOK, IsMap, Codes
  <2> QED BY <2>1, <2>2, <2>3, FingerprintType, RecordDeliveryMap DEF TypeOK, SendLive
<1>6. got' \subseteq Keys \X Ids \X Keys /\ dup' \subseteq Pairs
  BY TypeDeliver DEF SendLive
<1> QED BY <1>2, <1>3, <1>4, <1>5, <1>6 DEF TypeOK, SendLive

LEMMA TypeSendStandIn ==
  ASSUME TypeOK, NEW k \in Keys, NEW m \in Messages, m.author = k, NEW dest, NEW e,
         NEW d \in DOMAIN away, NEW t \in Keys, SendStandIn(k, m, dest, e, d, t)
  PROVE  TypeOK'
<1>1. d \in Keys /\ m.id \in Ids /\ <<k, m.id>> \in Pairs
  BY MessageType DEF TypeOK, IsMap, Pairs
<1>2. IsMap(askEdges', Ids, EdgeType) /\ IsMap(askFiles', FileKeys, FileType)
  BY LiveTypes, DropMap DEF SendStandIn
<1>3. IsMap(routes', Ids, EdgeType)
  <2>1. [from |-> k, to |-> t, at |-> now] \in EdgeType BY DEF TypeOK, EdgeType
  <2> QED BY <1>1, <2>1, LiveTypes, PutMap DEF SendStandIn
<1>4. IsMap(records', Pairs, RecordType) /\ forgotten' \subseteq Pairs
  <2>1. DOMAIN records \subseteq Pairs /\ None \in Codes BY DEF TypeOK, IsMap, Codes
  <2> QED BY <1>1, <2>1, LiveTypes, FingerprintType, RecordDeliveryMap DEF TypeOK, SendStandIn
<1>5. got' \subseteq Keys \X Ids \X Keys /\ dup' \subseteq Pairs
  BY TypeDeliver DEF SendStandIn
<1> QED BY <1>2, <1>3, <1>4, <1>5, LiveTypes DEF TypeOK, SendStandIn

LEMMA TypeSendQueued ==
  ASSUME TypeOK, NEW k \in Keys, NEW m \in Messages, m.author = k, NEW dest, NEW e,
         NEW d \in DOMAIN away, k \in Live, SendQueued(k, m, dest, e, d)
  PROVE  TypeOK'
<1> DEFINE full == Surplus(DOMAIN mailbox \ OldMail, MaxMailbox)
           recs == Fail(Fail(LiveRecords, MailPairs(OldMail), "E_DELIVERY_EXPIRED"),
                        MailPairs(full), "E_DELIVERY_EVICTED")
           entry == [m |-> m, fromInfo |-> sessions[k].info, to |-> d,
                     toInfo |-> away[d].info, at |-> now]
<1>1. d \in Keys /\ m.id \in Ids /\ <<k, m.id>> \in Pairs
  BY MessageType DEF TypeOK, IsMap, Pairs
<1>2. IsMap(askEdges', Ids, EdgeType) /\ IsMap(askFiles', FileKeys, FileType)
      /\ IsMap(routes', Ids, EdgeType)
  BY LiveTypes, DropMap DEF SendQueued
<1>3. IsMap(mailbox', 1..MaxSeq, MailType)
  <2>1. entry \in MailType
    BY <1>1 DEF TypeOK, IsMap, Live, MailType, SessionType, AwayType
  <2>2. PICK n \in 1..MaxSeq : mailbox' = Put(Drop(mailbox, OldMail \cup full), n, entry)
    BY DEF SendQueued
  <2>3. IsMap(Drop(mailbox, OldMail \cup full), 1..MaxSeq, MailType) BY DropMap DEF TypeOK
  <2> HIDE DEF full, entry
  <2> QED BY <2>1, <2>2, <2>3, PutMap
<1>4. IsMap(records', Pairs, RecordType) /\ forgotten' \subseteq Pairs
  <2>1. IsMap(Fail(LiveRecords, MailPairs(OldMail), "E_DELIVERY_EXPIRED"), Pairs, RecordType)
    BY LiveTypes, FailMap DEF Codes, Failures
  <2>2. IsMap(recs, Pairs, RecordType) BY <2>1, FailMap DEF Codes, Failures
  <2>3. DOMAIN records \subseteq Pairs /\ None \in Codes BY DEF TypeOK, IsMap, Codes
  <2>4. RecordDelivery(recs, <<k, m.id>>, Fingerprint(m, IdOf[d]), "queued", None)
    BY DEF SendQueued
  <2> HIDE DEF recs
  <2> QED BY <1>1, <2>2, <2>3, <2>4, FingerprintType, RecordDeliveryMap DEF TypeOK
<1> QED BY <1>2, <1>3, <1>4, LiveTypes DEF TypeOK, SendQueued

LEMMA TypeSendRefused ==
  ASSUME TypeOK, NEW k \in Keys, NEW m \in Messages, NEW dest, NEW e,
         SendRefused(k, m, dest, e)
  PROVE  TypeOK'
<1>1. IsMap(records', Pairs, RecordType) /\ IsMap(away', Keys, AwayType)
  BY LiveTypes DEF TypeOK, SendRefused
<1>2. forgotten' \subseteq Pairs BY DEF TypeOK, SendRefused, IsMap
<1> QED BY <1>1, <1>2, TypePruneOnSend DEF TypeOK, SendRefused

LEMMA TypeSend ==
  ASSUME TypeOK, NEW c \in Conns, NEW m \in Messages, NEW dest \in Dests, NEW e,
         Send(c, m, dest, e)
  PROVE  TypeOK'
<1>1. conn[c] \in Keys /\ conn[c] \in Live /\ m.author = conn[c] BY OwnerType DEF Send
<1>2. Live \subseteq Keys BY DEF TypeOK, IsMap, Live
<1> QED BY <1>1, <1>2, TypeSendExactMiss, TypeSendLive, TypeSendStandIn, TypeSendQueued,
           TypeSendRefused DEF Send

LEMMA TypeRegister ==
  ASSUME TypeOK, NEW c \in Conns, NEW k \in Keys, NEW info \in Profiles[k],
         Register(c, k, info)
  PROVE  TypeOK'
<1> DEFINE live == Put(sessions, k, [conn |-> c, info |-> info])
           mail == MailFor(k, info, live)
           edges == Drop(askEdges, MailAsks(OldMail))
           rts == Drop(routes, MailIds(OldMail) \cup (IF k \in Live THEN RoutesOf(k) ELSE {}))
           recs == Fail(records, MailPairs(OldMail), "E_DELIVERY_EXPIRED")
<1>1. mail \subseteq DOMAIN mailbox /\ DOMAIN mailbox \subseteq 1..MaxSeq
  BY DEF MailFor, TypeOK, IsMap
<1>2. conn' \in [Conns -> Keys \cup {None}] BY DEF TypeOK, Register
<1>3. epoch' \in [Keys -> Nat] /\ \A l \in Keys : epoch'[l] =< MaxEpoch[l]
  <2>1. epoch[k] < MaxEpoch[k] /\ epoch' = [epoch EXCEPT ![k] = @ + 1]
    BY DEF Register, CanRegister
  <2>2. epoch \in [Keys -> Nat] /\ \A l \in Keys : epoch[l] =< MaxEpoch[l] BY DEF TypeOK
  <2>3. MaxEpoch \in [Keys -> Nat] BY BoundsAssumption
  <2> QED BY <2>1, <2>2, <2>3
<1>4. IsMap(sessions', Keys, SessionType)
  <2>1. [conn |-> c, info |-> info] \in SessionType BY DEF SessionType, Infos
  <2> QED BY <2>1, PutMap DEF TypeOK, Register
<1>5. IsMap(away', Keys, AwayType) BY LiveTypes, DropMap DEF Register
<1>6. IsMap(askFiles', FileKeys, FileType) BY DropMap DEF TypeOK, Register
<1>7. IsMap(mailbox', 1..MaxSeq, MailType) BY DropMap DEF TypeOK, Register
<1>8. IsMap(askEdges', Ids, EdgeType)
  <2>1. IsMap(edges, Ids, EdgeType) BY DropMap DEF TypeOK
  <2>2. /\ DOMAIN askEdges' = DOMAIN edges
        /\ \A i \in DOMAIN edges : askEdges'[i] \in {edges[i], [edges[i] EXCEPT !.to = k]}
        /\ askEdges' = [i \in DOMAIN askEdges' |-> askEdges'[i]]
    <3> HIDE DEF edges, mail
    <3>1. askEdges' = [i \in DOMAIN edges |->
            IF \E j \in mail : mailbox[j].m.id = i /\ mailbox[j].to = edges[i].to
            THEN [edges[i] EXCEPT !.to = k] ELSE edges[i]]
      BY DEF Register, edges, mail
    <3> QED BY <3>1
  <2> HIDE DEF edges
  <2>3. \A i \in DOMAIN edges : edges[i] \in EdgeType /\ [edges[i] EXCEPT !.to = k] \in EdgeType
    BY <2>1 DEF IsMap, EdgeType
  <2> QED BY <2>1, <2>2, <2>3 DEF IsMap
<1>9. IsMap(routes', Ids, EdgeType)
  <2> DEFINE lastOf(id) == CHOOSE i \in mail : /\ mailbox[i].m.id = id
                                              /\ \A j \in mail : mailbox[j].m.id = id => j =< i
  <2>1. IsMap(rts, Ids, EdgeType) BY DropMap DEF TypeOK
  <2>2. \A id \in MailIds(mail) : lastOf(id) \in mail
    <3> HIDE DEF mail
    <3> SUFFICES ASSUME NEW id \in MailIds(mail) PROVE lastOf(id) \in mail OBVIOUS
    <3> DEFINE S == {i \in mail : mailbox[i].m.id = id}
    <3>1. S # {} /\ S \subseteq 0..MaxSeq BY <1>1, BoundsAssumption DEF MailIds
    <3>2. PICK i \in S : \A j \in S : j =< i
      <4> HIDE DEF S
      <4> QED BY <3>1, MaxExists, BoundsAssumption
    <3>3. \E n \in mail : mailbox[n].m.id = id /\ \A j \in mail : mailbox[j].m.id = id => j =< n
      BY <3>2
    <3> QED BY <3>3
  <2>3. MailIds(mail) \subseteq Ids BY <1>1, MailEntryType DEF MailIds
  <2>4. routes' = [i \in DOMAIN rts \cup MailIds(mail) |->
                    IF i \in MailIds(mail)
                    THEN [from |-> mailbox[lastOf(i)].m.author, to |-> k,
                          at |-> mailbox[lastOf(i)].at]
                    ELSE rts[i]]
    BY DEF Register
  <2> HIDE DEF rts, mail, lastOf
  <2>5. \A i \in MailIds(mail) :
          [from |-> mailbox[lastOf(i)].m.author, to |-> k, at |-> mailbox[lastOf(i)].at]
            \in EdgeType
    BY <1>1, <2>2, MailEntryType DEF EdgeType
  <2> QED BY <2>1, <2>3, <2>4, <2>5 DEF IsMap
<1>10. MailPairs(mail) \subseteq Pairs BY <1>1, MailEntryType DEF MailPairs, Pairs
<1>11. IsMap(records', Pairs, RecordType)
  <2>1. IsMap(recs, Pairs, RecordType) BY FailMap DEF TypeOK, Codes, Failures
  <2>2. records' = [p \in DOMAIN recs |->
                     IF p \in MailPairs(mail)
                     THEN [recs[p] EXCEPT !.state = "socket_delivered", !.code = None]
                     ELSE recs[p]]
    BY DEF Register
  <2> HIDE DEF recs, mail
  <2>3. \A p \in DOMAIN recs :
          [recs[p] EXCEPT !.state = "socket_delivered", !.code = None] \in RecordType
    <3> SUFFICES ASSUME NEW r \in RecordType
                 PROVE  [r EXCEPT !.state = "socket_delivered", !.code = None] \in RecordType
      BY <2>1 DEF IsMap
    <3>1. [r EXCEPT !.state = "socket_delivered"] \in RecordType BY DEF RecordType
    <3> QED BY <3>1 DEF RecordType, Codes
  <2> QED BY <2>1, <2>2, <2>3 DEF IsMap
<1>12. got' \subseteq Keys \X Ids \X Keys
  <2>1. got' = got \cup {<<p[1], p[2], k>> : p \in MailPairs(mail)} BY DEF Register
  <2> HIDE DEF mail
  <2> QED BY <1>10, <2>1 DEF TypeOK, Pairs
<1>13. dup' \subseteq Pairs
  <2>1. dup' \subseteq dup \cup MailPairs(mail) BY DEF Register
  <2> HIDE DEF mail
  <2> QED BY <1>10, <2>1 DEF TypeOK
<1> QED BY <1>2, <1>3, <1>4, <1>5, <1>6, <1>7, <1>8, <1>9, <1>11, <1>12, <1>13
        DEF TypeOK, Register

LEMMA TypeStep == TypeOK /\ [Next]_vars => TypeOK'
<1> SUFFICES ASSUME TypeOK, [Next]_vars PROVE TypeOK' OBVIOUS
<1>1. CASE UNCHANGED vars BY <1>1 DEF TypeOK, vars, tables, history
<1>2. CASE Next
  BY <1>2, TypeRegister, TypeRegisterRefused, TypeLeave, TypePresence, TypeSend, TypeReceipt,
     TypeCancelMessage, TypeCancelAsk, TypeTick, TypeRestart DEF Next
<1> QED BY <1>1, <1>2

\* Every table keeps its type, whatever clients send and whenever sockets close, entries
\* age and the broker dies.
THEOREM TypeCorrect == Spec => []TypeOK
BY TypeInit, TypeStep, PTL DEF Spec

---------------------------------------------------------------------------
(* Sockets, sessions and the mail of the absent *)

\* f is g without some of its entries.
Part(f, g) == DOMAIN f \subseteq DOMAIN g /\ \A x \in DOMAIN f : f[x] = g[x]

LEMMA DropPart == ASSUME NEW f, NEW S PROVE Part(Drop(f, S), f) /\ DOMAIN Drop(f, S) = DOMAIN f \ S
BY DEF Part, Drop

LEMMA FreshPart == ASSUME NEW f, NEW ttl PROVE Part(Fresh(f, ttl), f)
BY DEF Part, Fresh

LEMMA PartTrans == ASSUME NEW f, NEW g, NEW h, Part(f, g), Part(g, h) PROVE Part(f, h)
BY DEF Part

LEMMA PartSelf == ASSUME NEW f PROVE Part(f, f)
BY DEF Part

LEMMA EmptyPart == ASSUME NEW f PROVE Part(Empty, f)
BY DEF Part, Empty

LEMMA FoundInScope ==
  ASSUME NEW peers, NEW dest, NEW scope, NEW t \in Found(peers, dest, scope)
  PROVE  t \in DOMAIN peers /\ Scope[t] = scope
BY DEF Found

\* The mailbox only loses entries, except to a send that queues.
LEMMA MailboxShrinks ==
  ASSUME TypeOK, Next,
         ~\E c \in Conns, m \in Messages, dest \in Dests, e \in {None} \cup Quoted :
            \E d \in DOMAIN away : Send(c, m, dest, e) /\ SendQueued(conn[c], m, dest, e, d)
  PROVE  Part(mailbox', mailbox)
<1>1. ASSUME NEW c \in Conns, NEW k \in Keys, NEW info \in Profiles[k], Register(c, k, info)
      PROVE  Part(mailbox', mailbox)
  BY <1>1, DropPart DEF Register
<1>2. ASSUME NEW c \in Conns, NEW k \in Keys, RegisterRefused(c, k)
      PROVE  Part(mailbox', mailbox)
  BY <1>2, DropPart DEF RegisterRefused
<1>3. ASSUME NEW c \in Conns, NEW id \in Ids, CancelMessage(c, id)
      PROVE  Part(mailbox', mailbox)
  BY <1>3, DropPart DEF CancelMessage
<1>4. ASSUME NEW c \in Conns, NEW m \in Messages, NEW dest \in Dests,
             NEW e \in {None} \cup Quoted, Send(c, m, dest, e)
      PROVE  Part(mailbox', mailbox)
  <2>1. UNCHANGED mailbox
    BY <1>4 DEF Send, SendExactMiss, SendLive, SendStandIn, SendRefused
  <2> QED BY <2>1, PartSelf
<1>5. CASE UNCHANGED mailbox BY <1>5, PartSelf
<1>6. CASE Restart BY <1>6, EmptyPart DEF Restart
<1>7. CASE Tick BY <1>7, <1>5 DEF Tick, tables
<1>8. ASSUME NEW c \in Conns, Leave(c) \/ Receipt(c) \/ (\E info \in Infos : Presence(c, info))
                              \/ (\E id \in Ids : CancelAsk(c, id))
      PROVE  Part(mailbox', mailbox)
  BY <1>8, <1>5 DEF Leave, Receipt, Presence, CancelAsk
<1> QED BY <1>1, <1>2, <1>3, <1>4, <1>6, <1>7, <1>8 DEF Next

Presences == SessionsOwnSockets /\ AwayIsAbsent /\ MailWaitsForTheAbsent

LEMMA PresencesInit == Init => Presences
BY DEF Init, Presences, SessionsOwnSockets, AwayIsAbsent, MailWaitsForTheAbsent, Live, Empty

\* A step that leaves the sessions alone, remembers no one new and queues nothing.
LEMMA PresencesKept ==
  ASSUME Presences, UNCHANGED <<conn, sessions>>, DOMAIN away' \subseteq DOMAIN away,
         Part(mailbox', mailbox)
  PROVE  Presences'
BY DEF Presences, SessionsOwnSockets, AwayIsAbsent, MailWaitsForTheAbsent, Live, Part

LEMMA LiveAwayShrinks == DOMAIN LiveAway \subseteq DOMAIN away
BY FreshPart DEF LiveAway, Part

LEMMA PresencesRegister ==
  ASSUME TypeOK, Presences, NEW c \in Conns, NEW k \in Keys, NEW info \in Profiles[k],
         Register(c, k, info)
  PROVE  Presences'
<1> DEFINE new == [conn |-> c, info |-> info]
<1>1. /\ conn[c] = None /\ conn' = [conn EXCEPT ![c] = k]
      /\ sessions' = Put(sessions, k, new) /\ away' = Drop(LiveAway, {k})
      /\ mailbox' = Drop(mailbox, OldMail \cup MailFor(k, info, Put(sessions, k, new)))
  BY DEF Register, CanRegister
<1>2. Live' = Live \cup {k} /\ sessions'[k] = new
      /\ \A l \in Live : l # k => sessions'[l] = sessions[l]
  BY <1>1 DEF Live, Put
<1>3. SessionsOwnSockets'
  <2> SUFFICES ASSUME NEW l \in Live' PROVE conn'[sessions'[l].conn] = l
    BY DEF SessionsOwnSockets
  <2>1. CASE l = k BY <1>1, <1>2, <2>1 DEF TypeOK
  <2>2. CASE l # k
    <3>1. l \in Live /\ conn[sessions[l].conn] = l /\ l \in Keys /\ l # None
      BY <1>2, <2>2, ConstantsAssumption DEF Presences, SessionsOwnSockets, TypeOK, IsMap, Live
    <3>2. sessions[l].conn # c BY <1>1, <3>1
    <3>3. sessions[l].conn \in Conns BY <3>1 DEF TypeOK, IsMap, Live, SessionType
    <3> QED BY <1>1, <1>2, <2>2, <3>1, <3>2, <3>3 DEF TypeOK
  <2> QED BY <2>1, <2>2
<1>4. AwayIsAbsent'
  <2>1. DOMAIN away' \subseteq DOMAIN away \ {k} BY <1>1, LiveAwayShrinks DEF Drop
  <2> QED BY <1>2, <2>1 DEF Presences, AwayIsAbsent
<1>5. MailWaitsForTheAbsent'
  <2> SUFFICES ASSUME NEW i \in DOMAIN mailbox' PROVE mailbox'[i].to \notin Live'
    BY DEF MailWaitsForTheAbsent
  <2>1. /\ i \in DOMAIN mailbox \ OldMail /\ mailbox'[i] = mailbox[i]
        /\ i \notin MailFor(k, info, Put(sessions, k, new))
    BY <1>1 DEF Drop
  <2>2. mailbox[i].to # k BY <2>1 DEF MailFor
  <2> QED BY <1>2, <2>1, <2>2 DEF Presences, MailWaitsForTheAbsent
<1> QED BY <1>3, <1>4, <1>5 DEF Presences

LEMMA PresencesLeave ==
  ASSUME TypeOK, Presences, NEW c \in Conns, Leave(c) PROVE Presences'
<1> DEFINE k == conn[c]
<1>1. k # None /\ conn' = [conn EXCEPT ![c] = None] /\ UNCHANGED mailbox BY DEF Leave
<1>2. CASE Owns(c)
  <2>1. /\ sessions' = Drop(sessions, {k})
        /\ away' = Put(LiveAway, k, [info |-> sessions[k].info, at |-> now])
    BY <1>2 DEF Leave
  <2>2. Live' = Live \ {k} /\ \A l \in Live' : sessions'[l] = sessions[l]
    BY <2>1 DEF Live, Drop
  <2>3. DOMAIN away' \subseteq DOMAIN away \cup {k}
    BY <2>1, LiveAwayShrinks DEF Put
  <2>4. \A l \in Live' : sessions[l].conn # c
    BY <2>2 DEF Presences, SessionsOwnSockets
  <2> QED BY <1>1, <2>2, <2>3, <2>4
          DEF Presences, SessionsOwnSockets, AwayIsAbsent, MailWaitsForTheAbsent, TypeOK
<1>3. CASE ~Owns(c)
  <2>1. UNCHANGED <<sessions, away>> BY <1>3 DEF Leave
  <2>2. \A l \in Live : sessions[l].conn # c
    BY <1>3 DEF Presences, SessionsOwnSockets, Owns
  <2> QED BY <1>1, <2>1, <2>2
          DEF Presences, SessionsOwnSockets, AwayIsAbsent, MailWaitsForTheAbsent, TypeOK, Live
<1> QED BY <1>2, <1>3

LEMMA PresencesPresence ==
  ASSUME TypeOK, Presences, NEW c \in Conns, NEW info \in Infos, Presence(c, info)
  PROVE  Presences'
<1>1. Live' = Live /\ \A l \in Live : sessions'[l].conn = sessions[l].conn
  BY DEF Presence, Live, TypeOK, IsMap, SessionType
<1>2. UNCHANGED <<conn, away, mailbox>> BY DEF Presence
<1> QED BY <1>1, <1>2
        DEF Presences, SessionsOwnSockets, AwayIsAbsent, MailWaitsForTheAbsent

LEMMA PresencesSendQueued ==
  ASSUME TypeOK, Presences, NEW k, NEW m, NEW dest, NEW e, NEW d \in DOMAIN away,
         SendQueued(k, m, dest, e, d)
  PROVE  Presences'
<1>1. UNCHANGED <<conn, sessions>> /\ away' = LiveAway BY DEF SendQueued
<1>2. d \notin Live BY DEF Presences, AwayIsAbsent
<1>3. \A i \in DOMAIN mailbox' : mailbox'[i].to = d \/ \E j \in DOMAIN mailbox : mailbox'[i] = mailbox[j]
  <2> DEFINE lost == OldMail \cup Surplus(DOMAIN mailbox \ OldMail, MaxMailbox)
             entry == [m |-> m, fromInfo |-> sessions[k].info, to |-> d,
                       toInfo |-> away[d].info, at |-> now]
  <2>1. PICK n \in 1..MaxSeq : mailbox' = Put(Drop(mailbox, lost), n, entry) BY DEF SendQueued
  <2>2. entry.to = d OBVIOUS
  <2> HIDE DEF lost, entry
  <2> QED BY <2>1, <2>2 DEF Put, Drop
<1>4. MailWaitsForTheAbsent'
  BY <1>1, <1>2, <1>3 DEF Presences, MailWaitsForTheAbsent, Live
<1> QED BY <1>1, <1>4, LiveAwayShrinks DEF Presences, SessionsOwnSockets, AwayIsAbsent, Live

LEMMA PresencesStep == TypeOK /\ Presences /\ [Next]_vars => Presences'
<1> SUFFICES ASSUME TypeOK, Presences, [Next]_vars PROVE Presences' OBVIOUS
<1>1. CASE UNCHANGED vars
  BY <1>1, PresencesKept, PartSelf DEF vars, tables
<1>2. ASSUME NEW c \in Conns, NEW m \in Messages, NEW dest \in Dests,
             NEW e \in {None} \cup Quoted, Send(c, m, dest, e)
      PROVE  Presences'
  <2>1. ASSUME NEW d \in DOMAIN away, SendQueued(conn[c], m, dest, e, d) PROVE Presences'
    BY <2>1, PresencesSendQueued
  <2>2. CASE ~\E d \in DOMAIN away : SendQueued(conn[c], m, dest, e, d)
    <3>1. UNCHANGED <<conn, sessions, mailbox>> /\ away' \in {away, LiveAway}
      BY <1>2, <2>2 DEF Send, SendExactMiss, SendLive, SendStandIn, SendRefused
    <3> QED BY <3>1, PartSelf, LiveAwayShrinks, PresencesKept
  <2> QED BY <2>1, <2>2
<1>3. ASSUME NEW c \in Conns, NEW k \in Keys, RegisterRefused(c, k) PROVE Presences'
  BY <1>3, DropPart, LiveAwayShrinks, PresencesKept DEF RegisterRefused
<1>4. ASSUME NEW c \in Conns,
             Receipt(c) \/ \E id \in Ids : CancelMessage(c, id) \/ CancelAsk(c, id)
      PROVE  Presences'
  <2>1. UNCHANGED <<conn, sessions, away>>
    BY <1>4 DEF Receipt, CancelMessage, CancelAsk
  <2>2. UNCHANGED mailbox \/ \E S : mailbox' = Drop(mailbox, S)
    BY <1>4 DEF Receipt, CancelMessage, CancelAsk
  <2>3. Part(mailbox', mailbox)
    <3>1. CASE UNCHANGED mailbox BY <3>1, PartSelf
    <3>2. CASE \E S : mailbox' = Drop(mailbox, S) BY <3>2, DropPart
    <3> QED BY <2>2, <3>1, <3>2
  <2> QED BY <2>1, <2>3, PresencesKept
<1>5. CASE Tick BY <1>5, PresencesKept, PartSelf DEF Tick, tables
<1>6. CASE Restart
  BY <1>6 DEF Restart, Presences, SessionsOwnSockets, AwayIsAbsent, MailWaitsForTheAbsent,
              Live, Empty
<1>7. CASE Next
  BY <1>2, <1>3, <1>4, <1>5, <1>6, <1>7, PresencesRegister, PresencesLeave, PresencesPresence
     DEF Next
<1> QED BY <1>1, <1>7

\* The socket of every registered session takes that session for its own, however late the
\* close events of the sockets it replaced are handled.
THEOREM SocketsOwned == Spec => []SessionsOwnSockets
<1>1. TypeOK /\ Presences /\ [Next]_vars => (TypeOK /\ Presences)'
  BY TypeStep, PresencesStep
<1>2. Presences => SessionsOwnSockets BY DEF Presences
<1> QED BY <1>1, <1>2, TypeInit, PresencesInit, PTL DEF Spec

\* No mail waits for a session that is registered: registering hands over all of it, and
\* nothing is queued for a session that is there.
THEOREM NoMailForThePresent == Spec => []MailWaitsForTheAbsent
<1>1. TypeOK /\ Presences /\ [Next]_vars => (TypeOK /\ Presences)'
  BY TypeStep, PresencesStep
<1>2. Presences => MailWaitsForTheAbsent BY DEF Presences
<1> QED BY <1>1, <1>2, TypeInit, PresencesInit, PTL DEF Spec

---------------------------------------------------------------------------
(* Asks *)

Asks == NoAskQueued /\ EdgesAreAsks /\ NoMutualAsk

LEMMA AsksInit == Init => Asks
BY DEF Init, Asks, NoAskQueued, EdgesAreAsks, NoMutualAsk, Empty

LEMMA AsksShrink ==
  ASSUME Asks, Part(askEdges', askEdges) PROVE EdgesAreAsks' /\ NoMutualAsk'
BY DEF Asks, EdgesAreAsks, NoMutualAsk, Part

\* What the prunes of a send leave, a reply's ask taken out.
LEMMA LiveEdgesShrink == ASSUME NEW S PROVE Part(Drop(LiveEdges, S), askEdges) /\ Part(LiveEdges, askEdges)
BY DropPart, FreshPart, PartTrans DEF LiveEdges

\* The mail that a registration hands over holds no ask, so it moves no edge.
LEMMA RegisterEdges ==
  ASSUME TypeOK, Asks, NEW c \in Conns, NEW k \in Keys, NEW info \in Profiles[k],
         Register(c, k, info)
  PROVE  Part(askEdges', askEdges)
<1> DEFINE mail == MailFor(k, info, Put(sessions, k, [conn |-> c, info |-> info]))
           edges == Drop(askEdges, MailAsks(OldMail))
<1>1. Part(edges, askEdges) BY DropPart
<1>2. mail \subseteq DOMAIN mailbox BY DEF MailFor
<1>3. askEdges' = [i \in DOMAIN edges |->
                    IF \E j \in mail : mailbox[j].m.id = i /\ mailbox[j].to = edges[i].to
                    THEN [edges[i] EXCEPT !.to = k] ELSE edges[i]]
  BY DEF Register
<1> HIDE DEF mail, edges
<1>4. \A i \in DOMAIN edges, j \in mail : mailbox[j].m.id # i
  <2> SUFFICES ASSUME NEW i \in DOMAIN edges, NEW j \in mail, mailbox[j].m.id = i PROVE FALSE
    OBVIOUS
  <2>1. PICK m \in Messages : m.id = i /\ m.ask BY <1>1 DEF Asks, EdgesAreAsks, Part
  <2>2. mailbox[j].m \in Messages /\ ~mailbox[j].m.ask
    BY <1>2, MailEntryType DEF Asks, NoAskQueued
  <2> QED BY <2>1, <2>2, AskIdsAssumption
<1>5. Part(askEdges', edges) BY <1>3, <1>4 DEF Part
<1> QED BY <1>1, <1>5, PartTrans

\* Only a send to a live session adds an edge.
LEMMA EdgesShrink ==
  ASSUME TypeOK, Asks, Next,
         ~\E c \in Conns, m \in Messages, dest \in Dests, e \in {None} \cup Quoted :
            \E t \in Live : Send(c, m, dest, e) /\ SendLive(conn[c], m, dest, e, t)
  PROVE  Part(askEdges', askEdges)
<1>1. CASE UNCHANGED askEdges BY <1>1, PartSelf
<1>2. ASSUME NEW c \in Conns, NEW m \in Messages, NEW dest \in Dests,
             NEW e \in {None} \cup Quoted, Send(c, m, dest, e)
      PROVE  Part(askEdges', askEdges)
  <2>1. askEdges' = LiveEdges \/ \E S : askEdges' = Drop(LiveEdges, S)
    BY <1>2 DEF Send, SendExactMiss, SendStandIn, SendQueued, SendRefused, PruneOnSend
  <2>2. CASE askEdges' = LiveEdges BY <2>2, LiveEdgesShrink
  <2>3. ASSUME NEW S, askEdges' = Drop(LiveEdges, S) PROVE Part(askEdges', askEdges)
    BY <2>3, LiveEdgesShrink
  <2> QED BY <2>1, <2>2, <2>3
<1>3. ASSUME NEW c \in Conns, NEW k \in Keys, RegisterRefused(c, k)
      PROVE  Part(askEdges', askEdges)
  BY <1>3, DropPart DEF RegisterRefused
<1>4. ASSUME NEW c \in Conns, NEW id \in Ids, CancelMessage(c, id)
      PROVE  Part(askEdges', askEdges)
  BY <1>4, DropPart, PartTrans DEF CancelMessage
<1>5. ASSUME NEW c \in Conns, NEW id \in Ids, CancelAsk(c, id)
      PROVE  Part(askEdges', askEdges)
  BY <1>5, DropPart DEF CancelAsk
<1>6. ASSUME NEW c \in Conns, Leave(c) \/ Receipt(c) \/ \E info \in Infos : Presence(c, info)
      PROVE  Part(askEdges', askEdges)
  BY <1>1, <1>6 DEF Leave, Receipt, Presence
<1>7. CASE Tick BY <1>1, <1>7 DEF Tick, tables
<1>8. CASE Restart BY <1>8, EmptyPart DEF Restart
<1> QED BY <1>2, <1>3, <1>4, <1>5, <1>6, <1>7, <1>8, RegisterEdges DEF Next

LEMMA SendLiveEdges ==
  ASSUME TypeOK, Asks, NEW k \in Keys, NEW m \in Messages, NEW dest, NEW e, NEW t \in Live,
         SendLive(k, m, dest, e, t)
  PROVE  EdgesAreAsks' /\ NoMutualAsk'
<1>1. CASE ~m.ask
  <2>1. askEdges' = Drop(LiveEdges, {m.replyTo}) BY <1>1 DEF SendLive
  <2> QED BY <2>1, LiveEdgesShrink, AsksShrink
<1>2. CASE m.ask
  <2> DEFINE edge == [from |-> k, to |-> t, at |-> now]
  <2>1. askEdges' = Drop(Put(LiveEdges, m.id, edge), {m.replyTo}) BY <1>2 DEF SendLive
  <2>2. \A i \in DOMAIN askEdges' :
          /\ i # m.replyTo
          /\ i # m.id => (i \in DOMAIN LiveEdges /\ askEdges'[i] = LiveEdges[i])
          /\ i = m.id => (askEdges'[i].from = k /\ askEdges'[i].to = t)
    BY <2>1 DEF Put, Drop
  <2>3. \A i \in DOMAIN LiveEdges : i \in DOMAIN askEdges /\ LiveEdges[i] = askEdges[i]
    BY LiveEdgesShrink DEF Part
  <2>4. ~MutualAsk(k, m, t) BY <1>2 DEF SendLive, CanDeliver
  <2>5. EdgesAreAsks' BY <1>2, <2>2, <2>3 DEF Asks, EdgesAreAsks
  <2>6. \A i \in DOMAIN askEdges' : i # m.id => ~(askEdges'[i].from = t /\ askEdges'[i].to = k)
    BY <2>2, <2>4 DEF MutualAsk
  <2>7. \A i, j \in DOMAIN askEdges' : i # m.id /\ j # m.id /\ i # j =>
          ~(askEdges'[i].from = askEdges'[j].to /\ askEdges'[i].to = askEdges'[j].from)
    BY <2>2, <2>3 DEF Asks, NoMutualAsk
  <2>8. NoMutualAsk' BY <2>2, <2>6, <2>7 DEF NoMutualAsk
  <2> QED BY <2>5, <2>8
<1> QED BY <1>1, <1>2, MessageType

\* What a send queues is no ask.
LEMMA SendQueuedMail ==
  ASSUME NEW k, NEW m, NEW dest, NEW e, NEW d, SendQueued(k, m, dest, e, d)
  PROVE  \A i \in DOMAIN mailbox' :
           \/ mailbox'[i].m = m /\ mailbox'[i].to = d /\ ~m.ask
           \/ i \in DOMAIN mailbox /\ mailbox'[i] = mailbox[i]
<1> DEFINE lost == OldMail \cup Surplus(DOMAIN mailbox \ OldMail, MaxMailbox)
           entry == [m |-> m, fromInfo |-> sessions[k].info, to |-> d,
                     toInfo |-> away[d].info, at |-> now]
<1>1. PICK n \in 1..MaxSeq : mailbox' = Put(Drop(mailbox, lost), n, entry) BY DEF SendQueued
<1>2. entry.to = d /\ entry.m = m OBVIOUS
<1>3. ~m.ask BY DEF SendQueued, CanLeaveFor
<1> HIDE DEF lost, entry
<1> QED BY <1>1, <1>2, <1>3 DEF Put, Drop

LEMMA AsksStep == TypeOK /\ Asks /\ [Next]_vars => Asks'
<1> SUFFICES ASSUME TypeOK, Asks, [Next]_vars PROVE Asks' OBVIOUS
<1>1. CASE UNCHANGED vars
  BY <1>1 DEF vars, tables, Asks, NoAskQueued, EdgesAreAsks, NoMutualAsk
<1>2. CASE Next
  <2>1. NoAskQueued'
    <3>1. ASSUME NEW c \in Conns, NEW m \in Messages, NEW dest \in Dests,
                 NEW e \in {None} \cup Quoted, NEW d \in DOMAIN away,
                 SendQueued(conn[c], m, dest, e, d)
          PROVE  NoAskQueued'
      BY <3>1, SendQueuedMail DEF Asks, NoAskQueued
    <3>2. CASE Part(mailbox', mailbox) BY <3>2 DEF Asks, NoAskQueued, Part
    <3> QED BY <1>2, <3>1, <3>2, MailboxShrinks
  <2>2. EdgesAreAsks' /\ NoMutualAsk'
    <3>1. ASSUME NEW c \in Conns, NEW m \in Messages, NEW dest \in Dests,
                 NEW e \in {None} \cup Quoted, NEW t \in Live,
                 Send(c, m, dest, e), SendLive(conn[c], m, dest, e, t)
          PROVE  EdgesAreAsks' /\ NoMutualAsk'
      BY <3>1, OwnerType, SendLiveEdges DEF Send
    <3>2. CASE Part(askEdges', askEdges) BY <3>2, AsksShrink
    <3> QED BY <1>2, <3>1, <3>2, EdgesShrink
  <2> QED BY <2>1, <2>2 DEF Asks
<1> QED BY <1>1, <1>2

\* No two sessions ever wait for each other's reply.
THEOREM MutualAskRefused == Spec => []NoMutualAsk
<1>1. TypeOK /\ Asks /\ [Next]_vars => (TypeOK /\ Asks)' BY TypeStep, AsksStep
<1>2. Asks => NoMutualAsk BY DEF Asks
<1> QED BY <1>1, <1>2, TypeInit, AsksInit, PTL DEF Spec

---------------------------------------------------------------------------
(* Scopes *)

LEMMA ScopesInit == Init => ScopesNeverMix
BY DEF Init, ScopesNeverMix, Empty

LEMMA RouteScopesShrink ==
  ASSUME ScopesNeverMix, Part(routes', routes)
  PROVE  \A i \in DOMAIN routes' : Scope[routes'[i].from] = Scope[routes'[i].to]
BY DEF ScopesNeverMix, Part

LEMMA LiveRoutesShrink ==
  ASSUME NEW S PROVE Part(Drop(LiveRoutes, S), routes) /\ Part(LiveRoutes, routes)
BY DropPart, FreshPart, PartTrans DEF LiveRoutes

\* A delivery whose ends share a scope, and the route it leaves.
LEMMA ScopesDeliver ==
  ASSUME ScopesNeverMix, NEW k, NEW m, NEW t, Scope[k] = Scope[t], Deliver(k, m, t),
         routes' = Put(LiveRoutes, m.id, [from |-> k, to |-> t, at |-> now])
  PROVE  /\ \A g \in got' : Scope[g[1]] = Scope[g[3]]
         /\ \A i \in DOMAIN routes' : Scope[routes'[i].from] = Scope[routes'[i].to]
<1>1. \A g \in got' : Scope[g[1]] = Scope[g[3]]
  BY DEF ScopesNeverMix, Deliver
<1>2. \A i \in DOMAIN LiveRoutes : i \in DOMAIN routes /\ LiveRoutes[i] = routes[i]
  BY LiveRoutesShrink DEF Part
<1>3. \A i \in DOMAIN routes' : Scope[routes'[i].from] = Scope[routes'[i].to]
  BY <1>2 DEF ScopesNeverMix, Put
<1> QED BY <1>1, <1>3

LEMMA ScopesSend ==
  ASSUME TypeOK, Asks, ScopesNeverMix, NEW c \in Conns, NEW m \in Messages,
         NEW dest \in Dests, NEW e \in {None} \cup Quoted, Send(c, m, dest, e)
  PROVE  ScopesNeverMix'
<1> DEFINE k == conn[c]
           EdgesOk == \A i \in DOMAIN askEdges : Scope[askEdges[i].from] = Scope[askEdges[i].to]
           RoutesOk == \A i \in DOMAIN routes : Scope[routes[i].from] = Scope[routes[i].to]
           MailOk == \A i \in DOMAIN mailbox : Scope[mailbox[i].m.author] = Scope[mailbox[i].to]
           GotOk == \A g \in got : Scope[g[1]] = Scope[g[3]]
<1>1. k \in Keys /\ m.author = k BY OwnerType DEF Send
<1>2. EdgesOk /\ RoutesOk /\ MailOk /\ GotOk BY DEF ScopesNeverMix
<1>3. \A i \in DOMAIN LiveEdges : i \in DOMAIN askEdges /\ LiveEdges[i] = askEdges[i]
  BY LiveEdgesShrink DEF Part
<1>4. ASSUME askEdges' = LiveEdges \/ \E S : askEdges' = Drop(LiveEdges, S)
      PROVE  EdgesOk'
  <2>1. Part(askEdges', askEdges) BY <1>4, LiveEdgesShrink
  <2> QED BY <1>2, <2>1 DEF Part
<1>5. CASE SendExactMiss(k, m, dest, e) \/ SendRefused(k, m, dest, e)
  <2>1. askEdges' = LiveEdges /\ routes' = LiveRoutes /\ UNCHANGED <<mailbox, got>>
    BY <1>5 DEF SendExactMiss, SendRefused, PruneOnSend
  <2>2. RoutesOk' BY <2>1, LiveRoutesShrink, RouteScopesShrink
  <2> QED BY <1>2, <1>4, <2>1, <2>2 DEF ScopesNeverMix
<1>6. ASSUME NEW t \in Live, SendLive(k, m, dest, e, t) PROVE ScopesNeverMix'
  <2> DEFINE edge == [from |-> k, to |-> t, at |-> now]
  <2>1. Scope[t] = Scope[k]
    <3>1. t \in Found(sessions, dest, Scope[k]) BY <1>6 DEF SendLive, CanDeliver
    <3> QED BY <3>1, FoundInScope
  <2>2. /\ askEdges' = Drop(IF m.ask THEN Put(LiveEdges, m.id, edge) ELSE LiveEdges, {m.replyTo})
        /\ routes' = Put(LiveRoutes, m.id, edge) /\ Deliver(k, m, t) /\ UNCHANGED mailbox
    BY <1>6 DEF SendLive
  <2>3. EdgesOk' BY <1>2, <1>3, <2>1, <2>2 DEF Put, Drop
  <2>4. RoutesOk' /\ GotOk' BY <2>1, <2>2, ScopesDeliver
  <2> QED BY <1>2, <2>2, <2>3, <2>4 DEF ScopesNeverMix
<1>7. ASSUME NEW d \in DOMAIN away, NEW t \in Live, SendStandIn(k, m, dest, e, d, t)
      PROVE  ScopesNeverMix'
  <2>1. Scope[d] = Scope[k]
    <3>1. d \in Found(LiveAway, dest, Scope[k]) BY <1>7 DEF SendStandIn, CanLeaveFor
    <3> QED BY <3>1, FoundInScope
  <2>2. Scope[t] = Scope[d] BY <1>7 DEF SendStandIn, StandIns, SharingIdentity
  <2>3. /\ askEdges' = Drop(LiveEdges, {m.replyTo}) /\ Deliver(k, m, t) /\ UNCHANGED mailbox
        /\ routes' = Put(LiveRoutes, m.id, [from |-> k, to |-> t, at |-> now])
    BY <1>7 DEF SendStandIn
  <2>4. RoutesOk' /\ GotOk' BY <2>1, <2>2, <2>3, ScopesDeliver
  <2> QED BY <1>2, <1>4, <2>3, <2>4 DEF ScopesNeverMix
<1>8. ASSUME NEW d \in DOMAIN away, SendQueued(k, m, dest, e, d) PROVE ScopesNeverMix'
  <2>1. Scope[d] = Scope[k]
    <3>1. d \in Found(LiveAway, dest, Scope[k]) BY <1>8 DEF SendQueued, CanLeaveFor
    <3> QED BY <3>1, FoundInScope
  <2>2. MailOk' BY <1>1, <1>2, <1>8, <2>1, SendQueuedMail
  <2>3. (\E S : askEdges' = Drop(LiveEdges, S)) /\ (\E S : routes' = Drop(LiveRoutes, S))
        /\ UNCHANGED got
    BY <1>8 DEF SendQueued
  <2>4. RoutesOk' BY <2>3, LiveRoutesShrink, RouteScopesShrink
  <2> QED BY <1>2, <1>4, <2>2, <2>3, <2>4 DEF ScopesNeverMix
<1> QED BY <1>5, <1>6, <1>7, <1>8 DEF Send

LEMMA ScopesRegister ==
  ASSUME TypeOK, Asks, ScopesNeverMix, NEW c \in Conns, NEW k \in Keys,
         NEW info \in Profiles[k], Register(c, k, info)
  PROVE  ScopesNeverMix'
<1> DEFINE mail == MailFor(k, info, Put(sessions, k, [conn |-> c, info |-> info]))
           rts == Drop(routes, MailIds(OldMail) \cup (IF k \in Live THEN RoutesOf(k) ELSE {}))
           from(i) == mailbox[CHOOSE n \in mail :
                               /\ mailbox[n].m.id = i
                               /\ \A j \in mail : mailbox[j].m.id = i => j =< n].m.author
<1>1. \A i \in mail : i \in DOMAIN mailbox /\ Scope[mailbox[i].m.author] = Scope[k]
  BY DEF MailFor, ScopesNeverMix
<1>2. \A i \in DOMAIN askEdges' : Scope[askEdges'[i].from] = Scope[askEdges'[i].to]
  BY RegisterEdges DEF Part, ScopesNeverMix
<1>3. \A i \in DOMAIN mailbox' : Scope[mailbox'[i].m.author] = Scope[mailbox'[i].to]
  BY DEF Register, Drop, ScopesNeverMix
<1>4. \A g \in got' : Scope[g[1]] = Scope[g[3]]
  <2>1. got' = got \cup {<<p[1], p[2], k>> : p \in MailPairs(mail)} BY DEF Register
  <2>2. \A p \in MailPairs(mail) : Scope[p[1]] = Scope[k] BY <1>1 DEF MailPairs
  <2> HIDE DEF mail
  <2> QED BY <2>1, <2>2 DEF ScopesNeverMix
<1>5. \A i \in DOMAIN routes' : Scope[routes'[i].from] = Scope[routes'[i].to]
  <2>1. Part(rts, routes) BY DropPart
  <2> HIDE DEF rts
  <2>2. /\ DOMAIN routes' = DOMAIN rts \cup MailIds(mail)
        /\ \A i \in DOMAIN routes' :
             IF i \in MailIds(mail) THEN routes'[i].to = k /\ routes'[i].from = from(i)
             ELSE routes'[i] = rts[i]
    <3>1. routes' = [i \in DOMAIN rts \cup MailIds(mail) |->
                       IF i \in MailIds(mail)
                       THEN [from |-> from(i), to |-> k,
                             at |-> mailbox[CHOOSE n \in mail :
                                      /\ mailbox[n].m.id = i
                                      /\ \A j \in mail : mailbox[j].m.id = i => j =< n].at]
                       ELSE rts[i]]
      BY DEF Register, rts
    <3> HIDE DEF mail, from
    <3> QED BY <3>1
  <2>3. \A i \in MailIds(mail) : Scope[from(i)] = Scope[k]
    <3> HIDE DEF mail
    <3> SUFFICES ASSUME NEW i \in MailIds(mail) PROVE Scope[from(i)] = Scope[k] OBVIOUS
    <3> DEFINE S == {n \in mail : mailbox[n].m.id = i}
    <3>1. S # {} /\ S \subseteq 0..MaxSeq
      BY <1>1, BoundsAssumption DEF MailIds, TypeOK, IsMap
    <3>2. PICK n \in S : \A j \in S : j =< n
      <4> HIDE DEF S
      <4> QED BY <3>1, MaxExists, BoundsAssumption
    <3>3. \E n2 \in mail : /\ mailbox[n2].m.id = i
                          /\ \A j \in mail : mailbox[j].m.id = i => j =< n2
      BY <3>2
    <3> DEFINE newest == CHOOSE l \in mail : /\ mailbox[l].m.id = i
                                             /\ \A j \in mail : mailbox[j].m.id = i => j =< l
    <3>4. newest \in mail BY <3>3
    <3>5. from(i) = mailbox[newest].m.author OBVIOUS
    <3> HIDE DEF newest, from
    <3>6. Scope[mailbox[newest].m.author] = Scope[k] BY <1>1, <3>4
    <3> QED BY <3>5, <3>6
  <2> HIDE DEF mail, from
  <2> QED BY <2>1, <2>2, <2>3 DEF Part, ScopesNeverMix
<1> QED BY <1>2, <1>3, <1>4, <1>5 DEF ScopesNeverMix

LEMMA ScopesStep == TypeOK /\ Asks /\ ScopesNeverMix /\ [Next]_vars => ScopesNeverMix'
<1> SUFFICES ASSUME TypeOK, Asks, ScopesNeverMix, [Next]_vars PROVE ScopesNeverMix' OBVIOUS
<1>1. ASSUME Part(askEdges', askEdges), Part(routes', routes), Part(mailbox', mailbox),
             UNCHANGED got
      PROVE  ScopesNeverMix'
  BY <1>1 DEF ScopesNeverMix, Part
<1>2. ASSUME NEW c \in Conns, Leave(c) \/ Receipt(c) \/ \E info \in Infos : Presence(c, info)
      PROVE  ScopesNeverMix'
  <2>1. UNCHANGED <<askEdges, mailbox, got>>
    <3>1. CASE Leave(c) BY <3>1 DEF Leave, history
    <3>2. CASE Receipt(c) BY <3>2 DEF Receipt, history
    <3>3. CASE \E info \in Infos : Presence(c, info) BY <3>3 DEF Presence, history
    <3> QED BY <1>2, <3>1, <3>2, <3>3
  <2>2. Part(routes', routes)
    <3>1. CASE Leave(c)
      <4>1. routes' = routes \/ routes' = Drop(routes, RoutesOf(conn[c])) BY <3>1 DEF Leave
      <4>2. Part(Drop(routes, RoutesOf(conn[c])), routes) BY DropPart
      <4>3. Part(routes, routes) BY PartSelf
      <4> QED BY <4>1, <4>2, <4>3
    <3>2. CASE Receipt(c)
      <4>1. routes' = LiveRoutes BY <3>2 DEF Receipt
      <4> QED BY <4>1, LiveRoutesShrink
    <3>3. CASE \E info \in Infos : Presence(c, info)
      <4>1. routes' = routes BY <3>3 DEF Presence
      <4> QED BY <4>1, PartSelf
    <3> QED BY <1>2, <3>1, <3>2, <3>3
  <2> QED BY <1>1, <2>1, <2>2, PartSelf
<1>5. ASSUME NEW c \in Conns, NEW k \in Keys, RegisterRefused(c, k) PROVE ScopesNeverMix'
  BY <1>1, <1>5, DropPart DEF RegisterRefused, history
<1>6. ASSUME NEW c \in Conns, NEW id \in Ids, CancelMessage(c, id) PROVE ScopesNeverMix'
  <2>1. Part(askEdges', askEdges) BY <1>6, DropPart, PartTrans DEF CancelMessage
  <2>2. Part(routes', routes) BY <1>6, LiveRoutesShrink DEF CancelMessage
  <2>3. Part(mailbox', mailbox) BY <1>6, DropPart DEF CancelMessage
  <2> QED BY <1>1, <1>6, <2>1, <2>2, <2>3 DEF CancelMessage, history
<1>7. ASSUME NEW c \in Conns, NEW id \in Ids, CancelAsk(c, id) PROVE ScopesNeverMix'
  BY <1>1, <1>7, DropPart, PartSelf DEF CancelAsk, history
<1>3. CASE Tick \/ UNCHANGED vars BY <1>1, <1>3, PartSelf DEF Tick, vars, tables, history
<1>4. CASE Restart BY <1>1, <1>4, EmptyPart DEF Restart
<1> QED BY <1>2, <1>3, <1>4, <1>5, <1>6, <1>7, ScopesSend, ScopesRegister DEF Next

\* Whatever sessions of different scopes are called, no ask, route, queued message or
\* delivery joins two scopes.
THEOREM ScopesApart == Spec => []ScopesNeverMix
<1>1. TypeOK /\ Asks /\ ScopesNeverMix /\ [Next]_vars => (TypeOK /\ Asks /\ ScopesNeverMix)'
  BY TypeStep, AsksStep, ScopesStep
<1> QED BY <1>1, TypeInit, AsksInit, ScopesInit, PTL DEF Spec

LEMMA InvInit == Init => TypeOK /\ Inv
BY TypeInit, PresencesInit, AsksInit, ScopesInit DEF Inv, Presences, Asks

LEMMA InvStep == TypeOK /\ Inv /\ [Next]_vars => TypeOK' /\ Inv'
BY TypeStep, PresencesStep, AsksStep, ScopesStep DEF Inv, Presences, Asks

\* The invariant that the runs check is the one the proofs rest on.
THEOREM InvHolds == Spec => []Inv
BY InvInit, InvStep, PTL DEF Spec

\* A registered session disappears only because its own socket unregistered or closed, or
\* because the broker died; never because of a socket it has left behind.
THEOREM LeavesOnlyWithItsSocket == Spec => LeavesWithItsSocket
<1>1. TypeOK /\ Presences /\ [Next]_vars =>
        [\A k \in Live : k \notin Live' => conn'[sessions[k].conn] = None \/ Live' = {}]_vars
  <2> SUFFICES ASSUME TypeOK, Presences, [Next]_vars, NEW k \in Live, k \notin Live'
               PROVE  conn'[sessions[k].conn] = None \/ Live' = {}
    OBVIOUS
  <2>1. ~UNCHANGED sessions BY DEF Live
  <2>2. ASSUME NEW c \in Conns, NEW l \in Keys, NEW info \in Profiles[l], Register(c, l, info)
        PROVE  FALSE
    BY <2>2 DEF Register, Live, Put
  <2>3. ASSUME NEW c \in Conns, NEW info \in Infos, Presence(c, info) PROVE FALSE
    BY <2>3 DEF Presence, Live
  <2>4. ASSUME NEW c \in Conns, Leave(c) PROVE conn'[sessions[k].conn] = None
    <3>1. Owns(c) /\ sessions' = Drop(sessions, {conn[c]}) BY <2>4 DEF Leave, Live
    <3>2. k = conn[c] BY <3>1 DEF Live, Drop
    <3> QED BY <2>4, <3>1, <3>2 DEF Leave, Owns, TypeOK
  <2>5. CASE Restart BY <2>5 DEF Restart, Live, Empty
  <2>6. ASSUME NEW c \in Conns, NEW m \in Messages, NEW dest \in Dests,
               NEW e \in {None} \cup Quoted, Send(c, m, dest, e)
        PROVE  FALSE
    BY <2>1, <2>6 DEF Send, SendExactMiss, SendLive, SendStandIn, SendQueued, SendRefused
  <2>7. ASSUME NEW c \in Conns,
               \/ \E l \in Keys : RegisterRefused(c, l)
               \/ Receipt(c)
               \/ \E id \in Ids : CancelMessage(c, id) \/ CancelAsk(c, id)
        PROVE  FALSE
    BY <2>1, <2>7 DEF RegisterRefused, Receipt, CancelMessage, CancelAsk
  <2>8. CASE Tick \/ UNCHANGED vars BY <2>1, <2>8 DEF Tick, vars, tables
  <2> QED BY <2>2, <2>3, <2>4, <2>5, <2>6, <2>7, <2>8 DEF Next
<1>2. TypeOK /\ Presences /\ [Next]_vars => (TypeOK /\ Presences)'
  BY TypeStep, PresencesStep
<1> QED BY <1>1, <1>2, TypeInit, PresencesInit, PTL DEF Spec, LeavesWithItsSocket
=============================================================================
