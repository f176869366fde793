----------------------------- MODULE ExtensionBus -----------------------------
(***************************************************************************)
(* The extension bus for one namespace: the broker elects, per scope, an   *)
(* owner among the sessions that can own the namespace, tells every        *)
(* session that has it who the owner is and what the shared state is, and  *)
(* lets the owner publish and commit (src/broker/broker.ts).  The sessions *)
(* keep a view of both (src/index.ts).                                     *)
(*                                                                         *)
(* The broker handles one message at a time, but what it writes and what   *)
(* the sessions send travel on sockets: a session acts on a view the       *)
(* broker may have left behind, and a socket may be dead on one side only. *)
(* The shared state is the register of RevisionRegister.                   *)
(***************************************************************************)
EXTENDS Integers, Sequences, FiniteSets

CONSTANTS
  Keys,       \* scoped session keys, one process each
  Conns,      \* sockets: each connects once
  Scope,      \* the scope of each key
  Kinds,      \* per key: the capabilities its extension may register, "member" or "eligible"
  Payloads,   \* per key: what its extension may commit
  None,
  Audiences,  \* whom events may be for: "owner", "capable"
  CanDie,     \* may the broker process die?
  MaxRev,     \* bound: the last revision of the shared state
  MaxQueue    \* bound: frames of a session waiting at the broker

Scopes == {Scope[k] : k \in Keys}
Caps   == {"none", "member", "eligible"}

ASSUME BusAssumption ==
  /\ None \notin Keys \cup Conns \cup UNION {Payloads[k] : k \in Keys}
  /\ None \notin [key : Keys, conn : Conns, epoch : Nat]
  /\ Kinds \in [Keys -> SUBSET {"member", "eligible"}]
  /\ Audiences \subseteq {"owner", "capable"}
  /\ CanDie \in BOOLEAN /\ MaxRev \in Nat /\ MaxQueue \in Nat

VARIABLES
  key,         \* per socket: the key its handler remembers, or None
  sessions,    \* key -> [conn, cap, order]: the registered sessions
  nextOrder,   \* nextOwnerOrder
  owners,      \* per scope: [key, conn, epoch], or None: namespaceOwners
  epochs,      \* per scope: how many epochs were minted
  store,       \* per scope: the shared state [rev, val]
  attached,    \* the sockets that are open at the broker
  toBroker,    \* per socket: the messages the broker has not handled yet
  toClient,    \* per socket: the messages the session has not handled yet
  fresh,       \* the sockets not used yet
  client,      \* per key: the socket of the session's client, or None
  up,          \* per key: is the client registered?
  cap,         \* per key: the capability of the extension, "none" before it registers
  owner,       \* per key: the session's view of the owner, [key, epoch] or None
  state        \* per key: the session's view of the shared state

broker == <<key, sessions, nextOrder, owners, epochs, store>>
wire   == <<attached, toBroker, toClient>>
ends  == <<fresh, client, up, cap, owner, state>>
vars   == <<broker, wire, ends>>

Live    == DOMAIN sessions
Blank   == [rev |-> 0, val |-> None]
Nothing == [c \in Conns |-> <<>>]
Owns(c) == key[c] \in Live /\ sessions[key[c]].conn = c
Put(f, x, v) == [y \in DOMAIN f \cup {x} |-> IF y = x THEN v ELSE f[y]]
Drop(f, S)   == [y \in DOMAIN f \ S |-> f[y]]

---------------------------------------------------------------------------
(* What the broker writes *)

Known(o) == IF o = None THEN None ELSE [key |-> o.key, epoch |-> o.epoch]

Registered    == [type |-> "registered"]
OwnerFrame(o) == [type |-> "owner", owner |-> Known(o)]
StateFrame(s) == [type |-> "state", state |-> s]
Event(o)      == [type |-> "message", owner |-> Known(o)]

\* The session on socket c, among these sessions, has the namespace in scope s.
HasSpace(sess, c, s) ==
  \E k \in DOMAIN sess : sess[k].conn = c /\ sess[k].cap # "none" /\ Scope[k] = s

ToMembers(sess, s, frame) == [c \in Conns |-> IF HasSpace(sess, c, s) THEN <<frame>> ELSE <<>>]

\* Nothing reaches a session that has given the socket up.
Write(first, then, last) ==
  toClient' = [c \in Conns |-> IF \E k \in Keys : client[k] = c
                               THEN toClient[c] \o first[c] \o then[c] \o last[c]
                               ELSE <<>>]

On(c, frames) == [Nothing EXCEPT ![c] = frames]

---------------------------------------------------------------------------
(* Election *)

Candidates(sess, s) == {k \in DOMAIN sess : Scope[k] = s /\ sess[k].cap = "eligible"}
Winner(sess, s)     == CHOOSE k \in Candidates(sess, s) :
                         \A l \in Candidates(sess, s) : sess[k].order =< sess[l].order

Elected_SameKey(sess, s) ==
  IF Candidates(sess, s) = {} THEN None
  ELSE LET w == Winner(sess, s)
       IN  IF owners[s] # None /\ owners[s].key = w
           THEN owners[s]
           ELSE [key |-> w, conn |-> sess[w].conn, epoch |-> epochs[s] + 1]

\* The session that came first owns the namespace; on a new socket it gets a new epoch.
Elected(sess, s) ==
  IF Candidates(sess, s) = {} THEN None
  ELSE LET w == Winner(sess, s)
       IN  IF owners[s] # None /\ owners[s].key = w /\ owners[s].conn = sess[w].conn
           THEN owners[s]
           ELSE [key |-> w, conn |-> sess[w].conn, epoch |-> epochs[s] + 1]

\* recomputeNamespaceOwners
Elect(sess) ==
  /\ owners' = [s \in Scopes |-> Elected(sess, s)]
  /\ epochs' = [s \in Scopes |-> IF owners'[s] \in {None, owners[s]} THEN epochs[s]
                                 ELSE epochs[s] + 1]

Notices_OfOwners(sess) ==
  [c \in Conns |->
     IF \E s \in Scopes : HasSpace(sess, c, s) /\ Elected(sess, s) \notin {None, owners[s]}
     THEN <<OwnerFrame(Elected(sess, CHOOSE s \in Scopes : HasSpace(sess, c, s)))>>
     ELSE <<>>]

\* The notices of the elections that changed an owner.
Notices(sess) ==
  [c \in Conns |->
     IF \E s \in Scopes : HasSpace(sess, c, s) /\ Elected(sess, s) # owners[s]
     THEN <<OwnerFrame(Elected(sess, CHOOSE s \in Scopes : HasSpace(sess, c, s)))>>
     ELSE <<>>]

Welcome_OwnerOnly(sess, s) == <<OwnerFrame(Elected(sess, s))>>

\* What a session with the namespace is told when it comes.
Welcome(sess, s) ==
  <<OwnerFrame(Elected(sess, s))>> \o (IF store[s] = Blank THEN <<>> ELSE <<StateFrame(store[s])>>)

---------------------------------------------------------------------------
(* The handlers of the broker *)

Init ==
  /\ key = [c \in Conns |-> None]
  /\ sessions = [k \in {} |-> None] /\ nextOrder = 0
  /\ owners = [s \in Scopes |-> None] /\ epochs = [s \in Scopes |-> 0]
  /\ store = [s \in Scopes |-> Blank]
  /\ attached = {} /\ toBroker = Nothing /\ toClient = Nothing
  /\ fresh = Conns
  /\ client = [k \in Keys |-> None] /\ up = [k \in Keys |-> FALSE]
  /\ cap = [k \in Keys |-> "none"]
  /\ owner = [k \in Keys |-> None] /\ state = [k \in Keys |-> Blank]

\* The broker takes the next message of socket c, which is of this type.
Takes(c, type) ==
  /\ c \in attached /\ toBroker[c] # <<>> /\ Head(toBroker[c]).type = type
  /\ toBroker' = [toBroker EXCEPT ![c] = Tail(@)]
  /\ UNCHANGED <<attached, ends>>

Order_New(k) == nextOrder

\* A session that is replaced keeps its place in the order.
Order(k) == IF k \in Live THEN sessions[k].order ELSE nextOrder

\* "register": the session may be there already, on another socket.
Register(c) ==
  LET m    == Head(toBroker[c])
      k    == m.key
      sess == Put(sessions, k, [conn |-> c, cap |-> m.cap, order |-> Order(k)])
  IN  /\ Takes(c, "register") /\ key[c] = None
      /\ key' = [key EXCEPT ![c] = k]
      /\ sessions' = sess
      /\ nextOrder' = IF Order(k) = nextOrder THEN nextOrder + 1 ELSE nextOrder
      /\ Elect(sess)
      /\ Write(On(c, <<Registered>>), Notices(sess),
               IF m.cap = "none" THEN Nothing ELSE On(c, Welcome(sess, Scope[k])))
      /\ UNCHANGED store

\* "extension_capabilities_update"
Capabilities(c) ==
  LET sess == [sessions EXCEPT ![key[c]].cap = Head(toBroker[c]).cap]
  IN  /\ Takes(c, "capabilities") /\ Owns(c)
      /\ sessions' = sess
      /\ Elect(sess)
      /\ Write(Nothing, Notices(sess), On(c, Welcome(sess, Scope[key[c]])))
      /\ UNCHANGED <<key, nextOrder, store>>

\* The sender has the namespace, and what it quotes is the epoch of the owner it is.
IsOwner(c, epoch) ==
  LET o == owners[Scope[key[c]]]
  IN  /\ Owns(c) /\ sessions[key[c]].cap # "none"
      /\ o # None /\ o.key = key[c] /\ o.conn = c /\ o.epoch = epoch

MayCommit_AnyRevision(c, m) ==
  IsOwner(c, m.epoch) /\ store[Scope[key[c]]].rev < MaxRev

\* The commit m is accepted if the store can write it.
MayCommit(c, m) ==
  /\ IsOwner(c, m.epoch)
  /\ m.base.rev = store[Scope[key[c]]].rev /\ store[Scope[key[c]]].rev < MaxRev

\* "extension_state_commit", accepted: all are told.  (The answer to the committer, which
\* keeps nothing of it, is left out.)
Commit(c) ==
  LET m == Head(toBroker[c])
      s == Scope[key[c]]
  IN  /\ Takes(c, "commit") /\ MayCommit(c, m)
      /\ store' = [store EXCEPT ![s] = [rev |-> @.rev + 1, val |-> m.val]]
      /\ Write(Nothing, ToMembers(sessions, s, StateFrame(store'[s])), Nothing)
      /\ UNCHANGED <<key, sessions, nextOrder, owners, epochs>>

\* Refused, or the store cannot write it.
CommitFails(c) ==
  /\ Takes(c, "commit")
  /\ UNCHANGED <<broker, toClient>>

\* "extension_publish": to the owner or to every session with the namespace.  The owner
\* alone may publish what only an owner may.
Publish(c) ==
  LET m == Head(toBroker[c])
      s == Scope[key[c]]
      allowed == /\ Owns(c) /\ sessions[key[c]].cap # "none"
                 /\ m.epoch # None => IsOwner(c, m.epoch)
                 /\ m.audience = "owner" => owners[s] # None
      to == IF m.audience = "capable" THEN ToMembers(sessions, s, Event(owners[s]))
            ELSE On(owners[s].conn, <<Event(owners[s])>>)
  IN  /\ Takes(c, "publish")
      /\ Write(Nothing, IF allowed THEN to ELSE Nothing, Nothing)
      /\ UNCHANGED broker

\* The socket unregisters or is closed at the broker, or its message is one of a socket
\* that has been replaced, which ends it: what it sent and the broker has not read is gone.
Close(c) ==
  /\ c \in attached
  /\ attached' = attached \ {c} /\ toBroker' = [toBroker EXCEPT ![c] = <<>>]
  /\ key' = [key EXCEPT ![c] = None]
  /\ LET sess == IF Owns(c) THEN Drop(sessions, {key[c]}) ELSE sessions
     IN  sessions' = sess /\ Elect(sess) /\ Write(Nothing, Notices(sess), Nothing)
  /\ UNCHANGED <<nextOrder, store, ends>>

Handle(c) == Register(c) \/ Capabilities(c) \/ Commit(c) \/ CommitFails(c) \/ Publish(c)

\* The broker dies, with its tables; another is spawned and finds the shared state.
Die ==
  /\ CanDie
  /\ key' = [c \in Conns |-> None] /\ sessions' = [k \in {} |-> None] /\ nextOrder' = 0
  /\ owners' = [s \in Scopes |-> None]
  /\ attached' = {} /\ toBroker' = Nothing
  /\ UNCHANGED <<epochs, store, toClient, ends>>

---------------------------------------------------------------------------
(* The sessions *)

Sends(k, m) == toBroker' = [toBroker EXCEPT ![client[k]] = Append(@, m)]

\* A message sent into a socket that the broker has closed is lost.
Reaches(k) == client[k] \in attached

Capability(k) == [type |-> "capabilities", cap |-> cap[k]]

\* The client connects and registers, with the extension if it is there.
Connect(k, c) ==
  /\ client[k] = None /\ c \in fresh
  /\ client' = [client EXCEPT ![k] = c] /\ fresh' = fresh \ {c}
  /\ attached' = attached \cup {c}
  /\ toBroker' = [toBroker EXCEPT ![c] = <<[type |-> "register", key |-> k, cap |-> cap[k]]>>]
  /\ UNCHANGED <<broker, toClient, up, cap, owner, state>>

\* An extension registers with its session, which tells the broker if it can.
Extend(k, kind) ==
  /\ cap[k] = "none" /\ cap' = [cap EXCEPT ![k] = kind]
  /\ IF up[k] /\ Reaches(k) THEN Sends(k, [type |-> "capabilities", cap |-> kind])
                            ELSE UNCHANGED toBroker
  /\ UNCHANGED <<broker, attached, toClient, fresh, client, up, owner, state>>

Announce_Never(k) == UNCHANGED toBroker

\* Once registered, the session names its extension again: it may be new.
Announce(k) ==
  IF cap[k] # "none" /\ Reaches(k) THEN Sends(k, Capability(k)) ELSE UNCHANGED toBroker

\* The session handles the next message of the broker.
Receive(k) ==
  /\ client[k] # None /\ toClient[client[k]] # <<>>
  /\ toClient' = [toClient EXCEPT ![client[k]] = Tail(@)]
  /\ LET m == Head(toClient[client[k]])
     IN  /\ up' = [up EXCEPT ![k] = @ \/ m.type = "registered"]
         /\ IF m.type = "registered" THEN Announce(k) ELSE UNCHANGED toBroker
         /\ owner' = IF m.type = "owner" THEN [owner EXCEPT ![k] = m.owner] ELSE owner
         /\ state' = IF m.type = "state" THEN [state EXCEPT ![k] = m.state] ELSE state
  /\ UNCHANGED <<broker, attached, fresh, client, cap>>

\* commitState of a session that takes itself for the owner, on the state it has seen.
AskCommit(k, val) ==
  /\ up[k] /\ owner[k] # None /\ owner[k].key = k
  /\ Reaches(k) /\ Len(toBroker[client[k]]) < MaxQueue
  /\ Sends(k, [type |-> "commit", epoch |-> owner[k].epoch, base |-> state[k], val |-> val])
  /\ UNCHANGED <<broker, attached, toClient, ends>>

\* No event is on its way (a bound).
Silent == \A c \in Conns : /\ \A i \in 1..Len(toBroker[c]) : toBroker[c][i].type # "publish"
                           /\ \A i \in 1..Len(toClient[c]) : toClient[c][i].type # "message"

\* publish, as the owner or as anybody.
AskPublish(k, audience, asOwner) ==
  /\ up[k] /\ cap[k] # "none"
  /\ asOwner => owner[k] # None
  /\ Reaches(k) /\ Len(toBroker[client[k]]) < MaxQueue /\ Silent
  /\ Sends(k, [type |-> "publish", audience |-> audience,
               epoch |-> IF asOwner THEN owner[k].epoch ELSE None])
  /\ UNCHANGED <<broker, attached, toClient, ends>>

\* The client finds its socket closed, by the broker, by its own heartbeat or by an error.
\* It forgets the owner and keeps the state; the broker may not know yet.
Disconnect(k) ==
  /\ client[k] # None
  /\ client' = [client EXCEPT ![k] = None] /\ up' = [up EXCEPT ![k] = FALSE]
  /\ owner' = [owner EXCEPT ![k] = None]
  /\ toClient' = [toClient EXCEPT ![client[k]] = <<>>]
  /\ UNCHANGED <<broker, attached, toBroker, fresh, cap, state>>

---------------------------------------------------------------------------

Next ==
  \/ \E c \in Conns : Handle(c) \/ Close(c)
  \/ Die
  \/ \E k \in Keys, c \in Conns : Connect(k, c)
  \/ \E k \in Keys : \E kind \in Kinds[k] : Extend(k, kind)
  \/ \E k \in Keys : Receive(k) \/ Disconnect(k)
  \/ \E k \in Keys : \E val \in Payloads[k] : AskCommit(k, val)
  \/ \E k \in Keys, audience \in Audiences, asOwner \in BOOLEAN :
       AskPublish(k, audience, asOwner)

Spec == Init /\ [][Next]_vars

\* The client notices that the broker has closed its socket, or has ended it because
\* another replaced it.
Notice(k) ==
  /\ client[k] # None
  /\ client[k] \notin attached \/ (key[client[k]] # None /\ ~Owns(client[k]))
  /\ Disconnect(k)

\* Both ends read what arrives, and a client notices that its socket was closed: its
\* socket reports it or the heartbeat finds out.
Fairness ==
  /\ \A c \in Conns : WF_vars(Handle(c))
  /\ \A k \in Keys : WF_vars(Receive(k)) /\ WF_vars(Notice(k))

FairSpec == Spec /\ Fairness

---------------------------------------------------------------------------
(* Properties *)

\* Per scope, the owner is the session with the right to own that came first, on the
\* socket it has now; there is none only if no session has the right.
OwnersElected ==
  \A s \in Scopes :
    IF Candidates(sessions, s) = {} THEN owners[s] = None
    ELSE /\ owners[s] # None
         /\ owners[s].key \in Candidates(sessions, s)
         /\ owners[s].conn = sessions[owners[s].key].conn
         /\ \A k \in Candidates(sessions, s) : sessions[owners[s].key].order =< sessions[k].order

\* A session that comes, or returns on a new socket, never takes the namespace from a
\* session that is there with the right to own it.  Only one that was there first does,
\* when its extension registers later.
OwnershipStays ==
  [][\A s \in Scopes :
       owners[s] # None /\ owners[s].key \in Candidates(sessions', s) =>
         /\ owners'[s] # None
         /\ owners'[s].key # owners[s].key =>
              /\ owners'[s].key \in Live
              /\ sessions[owners'[s].key].order < sessions[owners[s].key].order]_vars

\* The last of the messages of this type that wait for session k, or what it has seen.
LastTold(k, type, seen) ==
  LET q  == toClient[client[k]]
      at == {i \in 1..Len(q) : q[i].type = type}
  IN  IF at = {} THEN seen ELSE q[CHOOSE i \in at : \A j \in at : j =< i][type]

\* Once a session has read what waits for it, it knows the owner and the state of its
\* scope: no election, replacement or commit passes a session by.
ViewsConverge ==
  \A k \in Live :
    sessions[k].cap # "none" /\ client[k] = sessions[k].conn =>
      /\ LastTold(k, "owner", owner[k]) = Known(owners[Scope[k]])
      /\ LastTold(k, "state", state[k]) = store[Scope[k]]

\* When an event of the namespace arrives, the session knows the owner that it names.
EventsNameTheOwner ==
  \A k \in Keys : client[k] # None =>
    LET q == toClient[client[k]]
    IN  \A i \in 1..Len(q) : q[i].type = "message" =>
          LET before == {j \in 1..i : q[j].type = "owner"}
          IN  q[i].owner = IF before = {} THEN owner[k]
                           ELSE q[CHOOSE j \in before : \A l \in before : l =< j].owner

\* A commit that is accepted was made from the very state it replaces, whoever owned the
\* namespace in between and however late it arrives.
NoLostUpdate ==
  [][\A s \in Scopes : store'[s] # store[s] =>
       \E c \in attached : /\ toBroker[c] # <<>> /\ toBroker'[c] = Tail(toBroker[c])
                           /\ Head(toBroker[c]).type = "commit"
                           /\ Head(toBroker[c]).base = store[s]]_vars

\* A session that stays connected gets to know the owner, again and again.
OwnerBecomesKnown ==
  \A k \in Keys : []<>(client[k] = None \/ cap[k] = "none" \/ owner[k] = Known(owners[Scope[k]]))

---------------------------------------------------------------------------
(* Types, and what makes the elections right *)

Goods     == UNION {Payloads[k] : k \in Keys}
States    == [rev : Nat, val : Goods \cup {None}]
Views     == [key : Keys, epoch : Nat] \cup {None}
Requests  == [type : {"register"}, key : Keys, cap : Caps]
             \cup [type : {"capabilities"}, cap : Caps]
             \cup [type : {"commit"}, epoch : Nat, base : States, val : Goods]
             \cup [type : {"publish"}, audience : Audiences, epoch : Nat \cup {None}]
Frames    == [type : {"registered"}] \cup [type : {"owner", "message"}, owner : Views]
             \cup [type : {"state"}, state : States]
SessionsT == [conn : Conns, cap : Caps, order : Nat]
OwnersT   == [key : Keys, conn : Conns, epoch : Nat] \cup {None}

\* The tables of the broker, the messages on the sockets and the views of the sessions
\* hold what they should, after any replacement, loss or death of the broker.
TypeOK ==
  /\ key \in [Conns -> Keys \cup {None}]
  /\ Live \subseteq Keys /\ sessions \in [Live -> SessionsT]
  /\ nextOrder \in Nat /\ epochs \in [Scopes -> Nat]
  /\ owners \in [Scopes -> OwnersT] /\ store \in [Scopes -> States]
  /\ attached \subseteq Conns /\ fresh \subseteq Conns
  /\ toBroker \in [Conns -> Seq(Requests)] /\ toClient \in [Conns -> Seq(Frames)]
  /\ client \in [Keys -> Conns \cup {None}] /\ up \in [Keys -> BOOLEAN]
  /\ cap \in [Keys -> Caps]
  /\ owner \in [Keys -> Views] /\ state \in [Keys -> States]

\* No two sessions came at the same time.
OrdersDistinct ==
  \A k \in Live : /\ sessions[k].order < nextOrder
                  /\ \A l \in Live \ {k} : sessions[k].order # sessions[l].order
=============================================================================
