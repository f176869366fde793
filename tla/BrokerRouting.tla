--------------------------- MODULE BrokerRouting ---------------------------
(***************************************************************************)
(* Message routing in the intercom broker (src/broker/broker.ts): sessions *)
(* and the sockets they own, blocking asks, receipt routes, the mailbox    *)
(* for recently disconnected sessions, and the delivery records that make  *)
(* a retried message id safe.                                              *)
(*                                                                         *)
(* The broker is one Node process, so every client message is handled in   *)
(* one uninterrupted callback: one action per handler.  The interleaving   *)
(* is between sockets, whose requests, replacements and close events come  *)
(* in any order, and with time, which ages the entries of every table.     *)
(*                                                                         *)
(* A definition X_Variant is X with a plausible mistake; no action uses    *)
(* it.  Each shows that the property it is paired with can fail.           *)
(***************************************************************************)
EXTENDS Integers, FiniteSets

CONSTANTS
  Keys,        \* scoped session keys: the JSON of a scope and a session id
  Conns,       \* sockets
  Scope,       \* the scope of each key
  IdOf,        \* the session id of each key
  Profiles,    \* what the client of each key may say of itself: [name, alias, cwd]
  Messages,    \* what clients may send: [id, author, ask, replyTo, supersedes, body]
  Dests,       \* what a client may write in "to": ids, names, id prefixes
  Prefix,      \* pairs <<dest, id>>: dest is a proper prefix of id
  None,        \* undefined
  MaxSessions, MaxMailbox, MaxRecords,
  AskTimeout, RouteRetention, RecordRetention, AwayRetention, MailRetention,
  CanCrash,    \* may the broker process die and be spawned again?
  Quoted,      \* bound: the endpoint epochs that exact sends quote
  MaxTime,     \* bound: the clock stops here
  MaxSeq,      \* bound: the places of the mailbox and the records are numbered up to it
  MaxEpoch     \* bound: how often each key registers

Ids   == {m.id : m \in Messages}
Pairs == Keys \X Ids
Infos == UNION {Profiles[k] : k \in Keys}
Failures == {"E_TARGET_NOT_FOUND", "E_TARGET_REBOUND", "E_DELIVERY_EXPIRED",
             "E_DELIVERY_EVICTED", "E_DELIVERY_CANCELLED", "E_DELIVERY_SUPERSEDED"}
Codes == Failures \cup {None}

ASSUME ConstantsAssumption ==
  /\ None \notin Keys \cup Conns \cup Ids \cup Dests \cup Failures \cup Nat
  /\ \A m \in Messages :
       m \in [id : Ids, author : Keys, ask : BOOLEAN, replyTo : Ids \cup {None},
              supersedes : Ids \cup {None}, body : {m.body}]
  /\ \A k \in Keys : \A p \in Profiles[k] : p.alias \in BOOLEAN
  /\ \A k, l \in Keys : Scope[k] = Scope[l] /\ IdOf[k] = IdOf[l] => k = l

ASSUME BoundsAssumption ==
  /\ {MaxSessions, MaxMailbox, MaxRecords, MaxSeq} \subseteq Nat \ {0}
  /\ {AskTimeout, RouteRetention, RecordRetention, AwayRetention, MailRetention,
      MaxTime} \subseteq Nat
  /\ MaxEpoch \in [Keys -> Nat]
  /\ CanCrash \in BOOLEAN /\ Quoted \subseteq Nat

\* A message id is minted for one message: whether it waits for a reply does not
\* change when the id is sent again.
ASSUME AskIdsAssumption == \A m, n \in Messages : m.id = n.id => m.ask = n.ask

\* Nor do sessions of two scopes ever mint the same one.
ASSUME ScopeIdsAssumption ==
  \A m, n \in Messages : m.id = n.id => Scope[m.author] = Scope[n.author]

VARIABLES
  now,           \* Date.now(), in ticks
  conn,          \* per socket: the key it registered, as its handler remembers it
  epoch,         \* per key: the endpointEpoch of its latest registration
  sessions,      \* key -> [conn, info]: the registered sessions
  away,          \* key -> [info, at]: disconnectedSessions
  askEdges,      \* id -> [from, to, at]: asks waiting for a reply
  askFiles,      \* <<scope, id>> -> [at]: the pending-asks directory, on disk
  routes,        \* id -> [from, to, at]: messageReceiptRoutes
  mailbox,       \* place -> [m, fromInfo, to, toInfo, at]: mailboxMessages, oldest first
  records,       \* <<from, id>> -> [fp, state, code, at, ord]: deliveryRecords
  got,           \* history: <<from, id, to>>: "message" frames written
  dup,           \* history: <<from, id>> written more than once
  forgotten      \* history: <<from, id>> whose record was pruned, evicted or lost

tables  == <<sessions, away, askEdges, askFiles, routes, mailbox, records>>
history == <<got, dup, forgotten>>
vars    == <<now, conn, epoch, tables, history>>

Live == DOMAIN sessions

---------------------------------------------------------------------------
(* Maps: the JavaScript Maps of the broker, as functions on a finite domain. *)

IsMap(f, K, V) == DOMAIN f \subseteq K /\ f \in [DOMAIN f -> V]
Empty          == [x \in {} |-> None]
Put(f, x, v)   == [y \in DOMAIN f \cup {x} |-> IF y = x THEN v ELSE f[y]]
Drop(f, S)     == [y \in DOMAIN f \ S |-> f[y]]
\* What a prune leaves: the entries not older than ttl.
Fresh(f, ttl)  == LET K == {x \in DOMAIN f : now - f[x].at =< ttl}
                  IN  [y \in K |-> f[y]]
\* n is the place after every place in S.
IsNext(n, S)   == (\A o \in S : o < n) /\ (n = 1 \/ n - 1 \in S)
Surplus_OneMore(S, n) == {i \in S : Cardinality({j \in S : j > i}) >= n}

\* All but the newest n - 1 of S: what makes room for one more in a table of n.
Surplus(S, n)  == {i \in S : Cardinality({j \in S : j > i}) >= n - 1}

---------------------------------------------------------------------------
(* Reading the tables *)

LiveEdges   == Fresh(askEdges, AskTimeout)
LiveFiles_Early == Fresh(askFiles, AskTimeout - 1)
LiveFiles   == Fresh(askFiles, AskTimeout)
LiveRoutes  == Fresh(routes, RouteRetention)
LiveRecords == Fresh(records, RecordRetention)
LiveAway    == Fresh(away, AwayRetention)
OldMail     == {i \in DOMAIN mailbox : now - mailbox[i].at > MailRetention}

Found_AnyScope(peers, dest, scope) ==
  LET byId   == {k \in DOMAIN peers : IdOf[k] = dest}
      byName == {k \in DOMAIN peers : peers[k].info.name = dest}
  IN  IF byId # {} THEN byId
      ELSE IF byName # {} THEN byName
      ELSE {k \in DOMAIN peers : <<dest, IdOf[k]>> \in Prefix}

\* The sessions a destination names: an id, else a name, else an id prefix.
Found(peers, dest, scope) ==
  LET here   == {k \in DOMAIN peers : Scope[k] = scope}
      byId   == {k \in here : IdOf[k] = dest}
      byName == {k \in here : peers[k].info.name = dest}
  IN  IF byId # {} THEN byId
      ELSE IF byName # {} THEN byName
      ELSE {k \in here : <<dest, IdOf[k]>> \in Prefix}

\* The live sessions with the mailbox identity of info: an explicit name and a directory.
SharingIdentity(live, info, scope) ==
  {k \in DOMAIN live :
     /\ Scope[k] = scope
     /\ info.name # None /\ ~info.alias /\ ~live[k].info.alias
     /\ live[k].info.name = info.name /\ live[k].info.cwd = info.cwd}

\* The socket is registered and still owns its session.
Owns(c) == conn[c] \in Live /\ sessions[conn[c]].conn = c

Fingerprint(m, id) == <<id, m>>

Replayed_SameWords(k, m, id) ==
  LET p == <<k, m.id>>
  IN  /\ p \in DOMAIN LiveRecords
      /\ LiveRecords[p].fp = Fingerprint(m, id) /\ LiveRecords[p].code # "E_TARGET_REBOUND"

Replayed_UnlessFailed(k, m, id) ==
  LET p == <<k, m.id>>
  IN  p \in DOMAIN LiveRecords /\ LiveRecords[p].state # "failed"

\* The id was seen before: the recorded outcome is answered again, or, with other
\* content, the reuse refused.  Only a rebound endpoint leaves the way open.
Replayed(k, m, id) ==
  LET p == <<k, m.id>>
  IN  /\ p \in DOMAIN LiveRecords
      /\ ~ /\ LiveRecords[p].fp = Fingerprint(m, id)
           /\ LiveRecords[p].code = "E_TARGET_REBOUND"

---------------------------------------------------------------------------
(* Writing the tables *)

Fail_Nothing(recs, P, code) == recs

Fail(recs, P, code) ==
  [p \in DOMAIN recs |-> IF p \in P
                         THEN [recs[p] EXCEPT !.state = "failed", !.code = code]
                         ELSE recs[p]]

\* The records kept when one more is about to be written.
Room(recs) ==
  LET full == Surplus({recs[p].ord : p \in DOMAIN recs}, MaxRecords)
  IN  Drop(recs, {p \in DOMAIN recs : recs[p].ord \in full})

\* recordDelivery: a Map keeps the position of a key that is set again.
RecordDelivery(recs, p, fp, state, code) ==
  LET kept == Room(recs)
  IN  /\ \E n \in 1..MaxSeq :
           /\ IF p \in DOMAIN kept THEN n = kept[p].ord
              ELSE IsNext(n, {kept[q].ord : q \in DOMAIN kept})
           /\ records' = Put(kept, p, [fp |-> fp, state |-> state, code |-> code,
                                      at |-> now, ord |-> n])
      /\ forgotten' = forgotten \cup (DOMAIN records \ DOMAIN kept)

MailIds(X)      == {mailbox[i].m.id : i \in X}
MailPairs(X)    == {<<mailbox[i].m.author, mailbox[i].m.id>> : i \in X}
MailAsks(X)     == {mailbox[i].m.id : i \in {j \in X : mailbox[j].m.ask}}
MailAskFiles(X) == {<<Scope[mailbox[i].m.author], mailbox[i].m.id>> :
                       i \in {j \in X : mailbox[j].m.ask}}

\* Every route that starts or ends at k.
RoutesOf(k) == {i \in DOMAIN routes : routes[i].from = k \/ routes[i].to = k}

\* One "message" frame is written to the socket of session t.
Deliver(k, m, t) ==
  /\ got' = got \cup {<<k, m.id, t>>}
  /\ dup' = IF \E g \in got : g[1] = k /\ g[2] = m.id THEN dup \cup {<<k, m.id>>} ELSE dup

---------------------------------------------------------------------------
(* Registration, and the mail that waits for it *)

Init ==
  /\ now = 0
  /\ conn = [c \in Conns |-> None]
  /\ epoch = [k \in Keys |-> 0]
  /\ sessions = Empty /\ away = Empty /\ askEdges = Empty /\ askFiles = Empty
  /\ routes = Empty /\ mailbox = Empty /\ records = Empty
  /\ got = {} /\ dup = {} /\ forgotten = {}

MailFor_ByName(k, info, live) ==
  {i \in DOMAIN mailbox \ OldMail :
     /\ Scope[mailbox[i].to] = Scope[k]
     /\ Cardinality(SharingIdentity(live, info, Scope[k])) = 1
     /\ mailbox[i].toInfo.name = info.name /\ mailbox[i].toInfo.cwd = info.cwd}

\* The mail that flushMailboxForSession hands to k: addressed to its key, or to a
\* session of its explicit name and directory when no other live session has them
\* and the sender had another identity when it wrote.
MailFor(k, info, live) ==
  {i \in DOMAIN mailbox \ OldMail :
     /\ Scope[mailbox[i].to] = Scope[k]
     /\ \/ mailbox[i].to = k
        \/ /\ Cardinality(SharingIdentity(live, info, Scope[k])) = 1
           /\ ~ /\ mailbox[i].fromInfo.name = info.name
                /\ mailbox[i].fromInfo.cwd = info.cwd
                /\ Scope[mailbox[i].m.author] = Scope[k]
           /\ mailbox[i].toInfo.name = info.name
           /\ mailbox[i].toInfo.cwd = info.cwd}

CanRegister_Again(c, k) == epoch[k] < MaxEpoch[k] /\ (k \in Live \/ Cardinality(Live) < MaxSessions)

\* A socket registers once, and a new session needs room.
CanRegister(c, k) ==
  /\ conn[c] = None
  /\ epoch[k] < MaxEpoch[k]
  /\ k \in Live \/ Cardinality(Live) < MaxSessions

\* A registration is accepted.  A session already under the key is replaced: its
\* socket is ended but stays open until its own close event.
Register(c, k, info) ==
  LET live == Put(sessions, k, [conn |-> c, info |-> info])
      mail == MailFor(k, info, live)
      lastOf(id) == CHOOSE i \in mail : /\ mailbox[i].m.id = id
                                        /\ \A j \in mail : mailbox[j].m.id = id => j =< i
      edges == Drop(askEdges, MailAsks(OldMail))
      rts == Drop(routes, MailIds(OldMail) \cup (IF k \in Live THEN RoutesOf(k) ELSE {}))
      recs == Fail(records, MailPairs(OldMail), "E_DELIVERY_EXPIRED")
  IN
  /\ CanRegister(c, k)
  /\ conn' = [conn EXCEPT ![c] = k]
  /\ epoch' = [epoch EXCEPT ![k] = @ + 1]
  /\ sessions' = live
  /\ away' = Drop(LiveAway, {k})
  /\ askEdges' = [i \in DOMAIN edges |->
                    IF \E j \in mail : mailbox[j].m.id = i /\ mailbox[j].to = edges[i].to
                    THEN [edges[i] EXCEPT !.to = k] ELSE edges[i]]
  /\ askFiles' = Drop(askFiles, MailAskFiles(OldMail))
  /\ routes' = [i \in DOMAIN rts \cup MailIds(mail) |->
                  IF i \in MailIds(mail)
                  THEN [from |-> mailbox[lastOf(i)].m.author, to |-> k,
                        at |-> mailbox[lastOf(i)].at]
                  ELSE rts[i]]
  /\ mailbox' = Drop(mailbox, OldMail \cup mail)
  /\ records' = [p \in DOMAIN recs |->
                   IF p \in MailPairs(mail)
                   THEN [recs[p] EXCEPT !.state = "socket_delivered", !.code = None]
                   ELSE recs[p]]
  /\ got' = got \cup {<<p[1], p[2], k>> : p \in MailPairs(mail)}
  /\ dup' = dup \cup {p \in MailPairs(mail) :
                        \/ \E g \in got : g[1] = p[1] /\ g[2] = p[2]
                        \/ \E i, j \in mail : i # j /\ MailPairs({i, j}) = {p}}
  /\ UNCHANGED <<now, forgotten>>

\* The table of sessions is full: the tables are pruned and the socket destroyed.
RegisterRefused(c, k) ==
  /\ conn[c] = None /\ k \notin Live /\ Cardinality(Live) >= MaxSessions
  /\ away' = LiveAway
  /\ askEdges' = Drop(askEdges, MailAsks(OldMail))
  /\ askFiles' = Drop(askFiles, MailAskFiles(OldMail))
  /\ routes' = Drop(routes, MailIds(OldMail))
  /\ mailbox' = Drop(mailbox, OldMail)
  /\ records' = Fail(records, MailPairs(OldMail), "E_DELIVERY_EXPIRED")
  /\ UNCHANGED <<now, conn, epoch, sessions, history>>

Leave_AnySocket(c) ==
  LET k == conn[c]
  IN  /\ k # None /\ k \in Live
      /\ conn' = [conn EXCEPT ![c] = None]
      /\ sessions' = Drop(sessions, {k})
      /\ away' = Put(LiveAway, k, [info |-> sessions[k].info, at |-> now])
      /\ routes' = Drop(routes, RoutesOf(k))
      /\ UNCHANGED <<now, epoch, askEdges, askFiles, mailbox, records, history>>

\* The socket unregisters, or its close event is handled.  Only the socket that
\* still owns the session takes the session with it; asks outlive the session.
Leave(c) ==
  LET k == conn[c]
  IN  /\ k # None
      /\ conn' = [conn EXCEPT ![c] = None]
      /\ IF Owns(c)
         THEN /\ sessions' = Drop(sessions, {k})
              /\ away' = Put(LiveAway, k, [info |-> sessions[k].info, at |-> now])
              /\ routes' = Drop(routes, RoutesOf(k))
         ELSE UNCHANGED <<sessions, away, routes>>
      /\ UNCHANGED <<now, epoch, askEdges, askFiles, mailbox, records, history>>

\* A presence update renames the session (it cannot take the name away) or says whether
\* the name is a fallback alias.
Presence(c, info) ==
  /\ Owns(c) /\ info \in Profiles[conn[c]]
  /\ info.cwd = sessions[conn[c]].info.cwd
  /\ info.name = None => sessions[conn[c]].info.name = None
  /\ sessions' = [sessions EXCEPT ![conn[c]].info = info]
  /\ UNCHANGED <<now, conn, epoch, away, askEdges, askFiles, routes, mailbox, records,
                 history>>

---------------------------------------------------------------------------
(* Sending.  Every send of a socket that owns its session first prunes the  *)
(* asks, their files and the routes; e is the endpoint epoch of an exact     *)
(* send, None for an ordinary one.                                           *)

PruneOnSend == askEdges' = LiveEdges /\ askFiles' = LiveFiles /\ routes' = LiveRoutes

\* An exact send to an endpoint that is gone, or has registered again since.
ExactMiss(k, m, dest, e) ==
  /\ e # None
  /\ \A t \in Live : Scope[t] = Scope[k] /\ IdOf[t] = dest => epoch[t] # e
  /\ ~Replayed(k, m, dest)

SendExactMiss(k, m, dest, e) ==
  LET gone == \A t \in Live : Scope[t] = Scope[k] => IdOf[t] # dest
  IN  /\ ExactMiss(k, m, dest, e)
      /\ PruneOnSend
      /\ RecordDelivery(LiveRecords, <<k, m.id>>, Fingerprint(m, dest), "failed",
                        IF gone THEN "E_TARGET_NOT_FOUND" ELSE "E_TARGET_REBOUND")
      /\ UNCHANGED <<now, conn, epoch, sessions, away, mailbox, got, dup>>

AnswersAsk_ByAnyone(k, m, t) ==
  m.replyTo \in DOMAIN LiveEdges /\ LiveEdges[m.replyTo].from = t

\* m answers a pending ask of t to k.
AnswersAsk(k, m, t) ==
  /\ m.replyTo \in DOMAIN LiveEdges
  /\ LiveEdges[m.replyTo].to = k /\ LiveEdges[m.replyTo].from = t

\* m answers a message that k had from t, and that is no pending ask.
AnswersMessage(k, m, t) ==
  /\ m.replyTo \notin DOMAIN LiveEdges
  /\ m.replyTo \in DOMAIN LiveRoutes
  /\ LiveRoutes[m.replyTo].to = k /\ LiveRoutes[m.replyTo].from = t

MutualAsk_Swapped(k, m, t) ==
  \E i \in DOMAIN LiveEdges : i # m.replyTo /\ LiveEdges[i].from = k /\ LiveEdges[i].to = t

\* Session t already waits for a reply of k, other than the one m brings.
MutualAsk(k, m, t) ==
  \E i \in DOMAIN LiveEdges : i # m.replyTo /\ LiveEdges[i].from = t /\ LiveEdges[i].to = k

\* The send of m by k resolves to the live session t and passes every check.
CanDeliver(k, m, dest, e, t) ==
  /\ Found(sessions, dest, Scope[k]) = {t}
  /\ e # None => IdOf[t] = dest /\ epoch[t] = e
  /\ m.replyTo # None => AnswersAsk(k, m, t) \/ AnswersMessage(k, m, t)
  /\ ~Replayed(k, m, IdOf[t])
  /\ m.supersedes # None => /\ m.supersedes \in DOMAIN LiveRoutes
                            /\ LiveRoutes[m.supersedes].from = k
                            /\ LiveRoutes[m.supersedes].to = t
  /\ m.ask => ~MutualAsk(k, m, t)

SendLive(k, m, dest, e, t) ==
  LET edge == [from |-> k, to |-> t, at |-> now]
  IN  /\ CanDeliver(k, m, dest, e, t)
      /\ askEdges' = Drop(IF m.ask THEN Put(LiveEdges, m.id, edge) ELSE LiveEdges,
                          {m.replyTo})
      /\ askFiles' = Drop(IF m.ask THEN Put(LiveFiles, <<Scope[k], m.id>>, [at |-> now])
                          ELSE LiveFiles, {<<Scope[k], m.replyTo>>})
      /\ routes' = Put(LiveRoutes, m.id, edge)
      /\ RecordDelivery(Fail(LiveRecords, {<<k, m.supersedes>>}, "E_DELIVERY_SUPERSEDED"),
                        <<k, m.id>>, Fingerprint(m, IdOf[t]), "socket_delivered", None)
      /\ Deliver(k, m, t)
      /\ UNCHANGED <<now, conn, epoch, sessions, away, mailbox>>

CanLeaveFor_QueuesAsks(k, m, dest, e, d) ==
  /\ e = None
  /\ Found(sessions, dest, Scope[k]) = {} /\ Found(LiveAway, dest, Scope[k]) = {d}
  /\ m.replyTo # None => AnswersAsk(k, m, d)
  /\ ~Replayed(k, m, IdOf[d])
  /\ m.supersedes = None

\* The send of m by k resolves to d, which has disconnected, and passes every check.
CanLeaveFor(k, m, dest, e, d) ==
  /\ e = None
  /\ Found(sessions, dest, Scope[k]) = {} /\ Found(LiveAway, dest, Scope[k]) = {d}
  /\ m.replyTo # None => AnswersAsk(k, m, d)
  /\ ~Replayed(k, m, IdOf[d])
  /\ m.supersedes = None /\ ~m.ask

\* The live sessions that stand in for the disconnected d, the sender aside.
StandIns(k, d) == SharingIdentity(sessions, away[d].info, Scope[d]) \ {k}

\* One live session has the mailbox identity of d: it gets the message at once.
SendStandIn(k, m, dest, e, d, t) ==
  /\ CanLeaveFor(k, m, dest, e, d)
  /\ StandIns(k, d) = {t}
  /\ askEdges' = Drop(LiveEdges, {m.replyTo})
  /\ askFiles' = Drop(LiveFiles, {<<Scope[k], m.replyTo>>})
  /\ routes' = Put(LiveRoutes, m.id, [from |-> k, to |-> t, at |-> now])
  /\ RecordDelivery(LiveRecords, <<k, m.id>>, Fingerprint(m, IdOf[d]), "socket_delivered",
                    None)
  /\ away' = LiveAway
  /\ Deliver(k, m, t)
  /\ UNCHANGED <<now, conn, epoch, sessions, mailbox>>

\* No single session does: the message waits in the mailbox, which drops what is too
\* old, and the oldest when it is full.
SendQueued(k, m, dest, e, d) ==
  LET full == Surplus(DOMAIN mailbox \ OldMail, MaxMailbox)
      lost == OldMail \cup full
      recs == Fail(Fail(LiveRecords, MailPairs(OldMail), "E_DELIVERY_EXPIRED"),
                   MailPairs(full), "E_DELIVERY_EVICTED")
  IN  /\ CanLeaveFor(k, m, dest, e, d)
      /\ Cardinality(StandIns(k, d)) # 1
      /\ \E n \in 1..MaxSeq :
           /\ IsNext(n, DOMAIN mailbox)
           /\ mailbox' = Put(Drop(mailbox, lost), n,
                             [m |-> m, fromInfo |-> sessions[k].info, to |-> d,
                              toInfo |-> away[d].info, at |-> now])
      /\ askEdges' = Drop(LiveEdges, MailAsks(lost) \cup {m.replyTo})
      /\ askFiles' = Drop(LiveFiles, MailAskFiles(lost) \cup {<<Scope[k], m.replyTo>>})
      /\ routes' = Drop(LiveRoutes, MailIds(lost))
      /\ RecordDelivery(recs, <<k, m.id>>, Fingerprint(m, IdOf[d]), "queued", None)
      /\ away' = LiveAway
      /\ UNCHANGED <<now, conn, epoch, sessions, got, dup>>

\* The checks of a send that ends with no delivery come as far as the delivery records.
ReachesRecords(k, m, dest, e) ==
  LET found == Found(sessions, dest, Scope[k])
      gone  == Found(LiveAway, dest, Scope[k])
      asked == m.replyTo \in DOMAIN LiveEdges \cup {None}
  IN  \/ e # None
      \/ \E t \in found : found = {t} /\ (asked \/ AnswersMessage(k, m, t))
      \/ found = {} /\ asked /\ Cardinality(gone) = 1

\* Every other send is refused, or answered from its record: only the prunes remain.
SendRefused(k, m, dest, e) ==
  /\ ~ExactMiss(k, m, dest, e)
  /\ \A t \in Keys : ~CanDeliver(k, m, dest, e, t) /\ ~CanLeaveFor(k, m, dest, e, t)
  /\ PruneOnSend
  /\ records' = IF ReachesRecords(k, m, dest, e) THEN LiveRecords ELSE records
  /\ away' = IF e = None /\ Found(sessions, dest, Scope[k]) = {} THEN LiveAway ELSE away
  /\ forgotten' = forgotten \cup (DOMAIN records \ DOMAIN records')
  /\ UNCHANGED <<now, conn, epoch, sessions, mailbox, got, dup>>

\* The "send" handler, for a socket that owns its session (for any other it answers
\* E_SENDER_NOT_FOUND and changes nothing).
Send(c, m, dest, e) ==
  LET k == conn[c]
  IN  /\ Owns(c) /\ m.author = k
      /\ \/ SendExactMiss(k, m, dest, e)
         \/ \E t \in Live : SendLive(k, m, dest, e, t)
         \/ \E d \in DOMAIN away, t \in Live : SendStandIn(k, m, dest, e, d, t)
         \/ \E d \in DOMAIN away : SendQueued(k, m, dest, e, d)
         \/ SendRefused(k, m, dest, e)

---------------------------------------------------------------------------
(* Receipts and cancellations *)

\* A receipt goes back along the route of its message, if both ends are there: frames
\* only, so all that changes is the prune.
Receipt(c) ==
  /\ conn[c] # None
  /\ routes' = LiveRoutes
  /\ UNCHANGED <<now, conn, epoch, sessions, away, askEdges, askFiles, mailbox, records,
                 history>>

\* The queued copy of a message of k, if there is one (the oldest).
QueuedCopy(k, id) ==
  LET mine == {i \in DOMAIN mailbox \ OldMail :
                 mailbox[i].m.id = id /\ mailbox[i].m.author = k}
  IN  {i \in mine : \A j \in mine : i =< j}

\* The sender takes a message back: out of the mailbox, or by a control frame to the
\* session that got it.  Its ask, if it was one, is over.
CancelMessage(c, id) ==
  LET k == conn[c]
      copy == IF Owns(c) THEN QueuedCopy(k, id) ELSE {}
      recalled == /\ Owns(c) /\ id \in DOMAIN LiveRoutes \ MailIds(OldMail)
                  /\ LiveRoutes[id].from = k /\ LiveRoutes[id].to \in Live
      done == copy # {} \/ recalled
      edges == Drop(askEdges, MailAsks(OldMail))
      over == IF done /\ id \in DOMAIN edges /\ edges[id].from = k THEN {id} ELSE {}
  IN  /\ k # None
      /\ mailbox' = Drop(mailbox, OldMail \cup copy)
      /\ askEdges' = Drop(edges, over)
      /\ askFiles' = Drop(askFiles, MailAskFiles(OldMail) \cup {<<Scope[k], i>> : i \in over})
      /\ routes' = Drop(LiveRoutes, MailIds(OldMail))
      /\ records' = Fail(Fail(records, MailPairs(OldMail), "E_DELIVERY_EXPIRED"),
                         IF done THEN {<<k, id>>} ELSE {}, "E_DELIVERY_CANCELLED")
      /\ UNCHANGED <<now, conn, epoch, sessions, away, history>>

CancelAsk_KeepsFile(c, id) ==
  /\ Owns(c)
  /\ id \in DOMAIN askEdges /\ askEdges[id].from = conn[c]
  /\ askEdges' = Drop(askEdges, {id})
  /\ UNCHANGED <<now, conn, epoch, sessions, away, askFiles, routes, mailbox, records, history>>

\* The asker stops waiting.
CancelAsk(c, id) ==
  /\ Owns(c)
  /\ id \in DOMAIN askEdges /\ askEdges[id].from = conn[c]
  /\ askEdges' = Drop(askEdges, {id})
  /\ askFiles' = Drop(askFiles, {<<Scope[conn[c]], id>>})
  /\ UNCHANGED <<now, conn, epoch, sessions, away, routes, mailbox, records, history>>

---------------------------------------------------------------------------
(* Time, and the death of the broker *)

Tick ==
  /\ now < MaxTime
  /\ now' = now + 1
  /\ UNCHANGED <<conn, epoch, tables, history>>

\* The broker dies and a client spawns another: its tables are gone, the pending-asks
\* directory is read and pruned, every client has to register again.
Restart ==
  /\ CanCrash
  /\ conn' = [c \in Conns |-> None]
  /\ sessions' = Empty /\ away' = Empty /\ askEdges' = Empty /\ routes' = Empty
  /\ mailbox' = Empty /\ records' = Empty
  /\ askFiles' = LiveFiles
  /\ forgotten' = forgotten \cup DOMAIN records
  /\ UNCHANGED <<now, epoch, got, dup>>

---------------------------------------------------------------------------

Next ==
  \/ \E c \in Conns, k \in Keys : \E info \in Profiles[k] : Register(c, k, info)
  \/ \E c \in Conns, k \in Keys : RegisterRefused(c, k)
  \/ \E c \in Conns : Leave(c)
  \/ \E c \in Conns : \E info \in Infos : Presence(c, info)
  \/ \E c \in Conns, m \in Messages, dest \in Dests, e \in {None} \cup Quoted :
       Send(c, m, dest, e)
  \/ \E c \in Conns : Receipt(c)
  \/ \E c \in Conns, id \in Ids : CancelMessage(c, id) \/ CancelAsk(c, id)
  \/ Tick
  \/ Restart

Spec == Init /\ [][Next]_vars

---------------------------------------------------------------------------
(* Properties *)

SessionType == [conn : Conns, info : Infos]
AwayType    == [info : Infos, at : 0..MaxTime]
EdgeType    == [from : Keys, to : Keys, at : 0..MaxTime]
FileKeys    == {Scope[k] : k \in Keys} \X Ids
FileType    == [at : 0..MaxTime]
MailType    == [m : Messages, fromInfo : Infos, to : Keys, toInfo : Infos, at : 0..MaxTime]
\* What a fingerprint may name as its target: the id of a session, or what was quoted.
TargetIds   == {IdOf[k] : k \in Keys} \cup Dests
RecordType  == [fp : TargetIds \X Messages,
                state : {"socket_delivered", "queued", "failed"}, code : Codes,
                at : 0..MaxTime, ord : 1..MaxSeq]

\* Every table holds entries of its type, whatever the order of registrations, sends,
\* prunes and restarts.
TypeOK ==
  /\ now \in 0..MaxTime
  /\ conn \in [Conns -> Keys \cup {None}]
  /\ epoch \in [Keys -> Nat] /\ \A k \in Keys : epoch[k] =< MaxEpoch[k]
  /\ IsMap(sessions, Keys, SessionType)
  /\ IsMap(away, Keys, AwayType)
  /\ IsMap(askEdges, Ids, EdgeType)
  /\ IsMap(askFiles, FileKeys, FileType)
  /\ IsMap(routes, Ids, EdgeType)
  /\ IsMap(mailbox, 1..MaxSeq, MailType)
  /\ IsMap(records, Pairs, RecordType)
  /\ got \subseteq Keys \X Ids \X Keys
  /\ dup \subseteq Pairs
  /\ forgotten \subseteq Pairs

\* No two sessions wait for each other's reply: the broker refuses the ask that would
\* close the circle, and no reply, cancellation, reconnection or redelivery closes it
\* afterwards.
NoMutualAsk ==
  \A i, j \in DOMAIN askEdges :
    i # j => ~(askEdges[i].from = askEdges[j].to /\ askEdges[i].to = askEdges[j].from)

\* A registered session is the session of the socket it writes to: the late close event
\* of a replaced socket, or its late requests, cannot leave a session without its socket.
SessionsOwnSockets == \A k \in Live : conn[sessions[k].conn] = k

\* A session leaves only with the socket it has now (or with the broker).
LeavesWithItsSocket ==
  [][\A k \in Live : k \notin Live' =>
       conn'[sessions[k].conn] = None \/ Live' = {}]_vars

\* The reply edge.to wrote to ask i was accepted in this step.
AcceptedReply(i, edge) ==
  \E m \in Messages :
    /\ m.replyTo = i /\ m.author = edge.to
    /\ LET p == <<m.author, m.id>>
       IN  /\ p \in DOMAIN records'
           /\ p \in DOMAIN records => records'[p] # records[p]
           /\ records'[p].state \in {"socket_delivered", "queued"}

\* An ask stops counting as unanswered because the session that was asked answered it,
\* the asker cancelled it, it timed out, or the broker died: never through a third session.
AskEndsByItsParties ==
  [][\A i \in DOMAIN askEdges \ DOMAIN askEdges' :
       \/ now - askEdges[i].at > AskTimeout
       \/ AcceptedReply(i, askEdges[i])
       \/ \E c \in Conns : /\ Owns(c) /\ conn[c] = askEdges[i].from
                           /\ CancelAsk(c, i) \/ CancelMessage(c, i)
       \/ Live' = {}]_vars

\* The pending-asks directory lists every ask that waits, and, as long as the broker
\* has not died, nothing else: the tables and the disk never drift apart.
AskFilesTrackAsks ==
  LET files == {<<Scope[askEdges[i].from], i>> : i \in DOMAIN askEdges}
  IN  files \subseteq DOMAIN askFiles /\ (~CanCrash => DOMAIN askFiles = files)

\* Sending the same id again delivers nothing twice for as long as the broker keeps the
\* id's record, through disconnections, the mailbox and its flush.
AtMostOnce == dup \subseteq forgotten

\* What the sender is told of an id, now and on every retry, is what happened to it: a
\* queued message is in the mailbox, once; a delivered one was delivered; one that
\* failed for its target, its age or lack of room was not, and is not waiting either.
RecordsTellTheTruth ==
  \A p \in DOMAIN records \ forgotten :
    LET copies    == {i \in DOMAIN mailbox : MailPairs({i}) = {p}}
        delivered == \E g \in got : g[1] = p[1] /\ g[2] = p[2]
    IN  CASE records[p].state = "socket_delivered" -> delivered /\ copies = {}
          [] records[p].state = "queued" -> ~delivered /\ Cardinality(copies) = 1
          [] records[p].state = "failed" ->
               /\ copies = {}
               /\ records[p].code \notin {"E_DELIVERY_CANCELLED", "E_DELIVERY_SUPERSEDED"}
                    => ~delivered

\* No mail waits for a session that is there.
MailWaitsForTheAbsent == \A i \in DOMAIN mailbox : mailbox[i].to \notin Live

\* Asks, routes, mail and deliveries stay within one scope.
ScopesNeverMix ==
  /\ \A i \in DOMAIN askEdges : Scope[askEdges[i].from] = Scope[askEdges[i].to]
  /\ \A i \in DOMAIN routes : Scope[routes[i].from] = Scope[routes[i].to]
  /\ \A i \in DOMAIN mailbox : Scope[mailbox[i].m.author] = Scope[mailbox[i].to]
  /\ \A g \in got : Scope[g[1]] = Scope[g[3]]

\* The tables keep to their limits.
TablesBounded ==
  /\ Cardinality(Live) =< MaxSessions
  /\ Cardinality(DOMAIN mailbox) =< MaxMailbox
  /\ Cardinality(DOMAIN records) =< MaxRecords

---------------------------------------------------------------------------
(* What makes the invariants inductive *)

\* No session is both registered and remembered as disconnected.
AwayIsAbsent == DOMAIN away \cap Live = {}

\* Blocking asks never wait in the mailbox.
NoAskQueued == \A i \in DOMAIN mailbox : ~mailbox[i].m.ask

\* Every edge comes from a message that waits for a reply.
EdgesAreAsks == \A i \in DOMAIN askEdges : \E m \in Messages : m.id = i /\ m.ask

\* The sockets, the sessions, the disconnected and the mail fit together; so do the asks
\* and the messages.  With TypeOK, every step keeps this.
Inv ==
  /\ SessionsOwnSockets /\ AwayIsAbsent /\ MailWaitsForTheAbsent
  /\ NoAskQueued /\ EdgesAreAsks /\ NoMutualAsk
  /\ ScopesNeverMix

---------------------------------------------------------------------------
(* What the code does not keep *)

\* Mail addressed to another session is never handed to the session that wrote it.
NoMailToSender ==
  \A p \in DOMAIN records \ forgotten :
    records[p].fp[1] # IdOf[p[1]] => <<p[1], p[2], p[1]>> \notin got

\* The identities of session k that the broker goes by when the reply m is for it and k is
\* not there: the one k is remembered with, and the one that m was queued with.
RememberedAs(k, m) ==
  {away[j].info : j \in DOMAIN away \cap {k}}
    \cup {mailbox[i].toInfo :
            i \in {j \in DOMAIN mailbox : mailbox[j].m = m /\ mailbox[j].to = k}}

\* A reply goes to the session whose message it answers, or to one that has the mailbox
\* identity of that session, which is an explicit name and a directory: a runtime alias
\* "must not transfer mail to another process" (broker.ts:1367-1372).
ReplyReachesAsker ==
  [][\A g \in got' \ got, m \in Messages :
       /\ g[1] = m.author /\ g[2] = m.id /\ m.replyTo # None
       /\ <<g[1], g[2]>> \in DOMAIN records' => records'[<<g[1], g[2]>>].fp[2] = m
       => \E q \in Messages :
           /\ q.id = m.replyTo
           /\ \/ g[3] = q.author
              \/ \E info \in RememberedAs(q.author, m) :
                   g[3] \in SharingIdentity(sessions', info, Scope[q.author])
     ]_vars
=============================================================================
