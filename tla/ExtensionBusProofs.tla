------------------------- MODULE ExtensionBusProofs -------------------------
(* What ExtensionBus guarantees for any number of sessions, sockets, scopes  *)
(* and payloads: its types, the elections, and what the sessions know of     *)
(* them and of the shared state.                                             *)
EXTENDS ExtensionBus, Extrema, SequenceTheorems, TLAPS

---------------------------------------------------------------------------
(* What the broker writes has its type *)

LEMMA NothingTyped == ASSUME NEW T PROVE Nothing \in [Conns -> Seq(T)]
BY EmptySeq DEF Nothing

LEMMA OnTyped ==
  ASSUME NEW T, NEW c, NEW frames \in Seq(T)
  PROVE  On(c, frames) \in [Conns -> Seq(T)]
BY NothingTyped DEF On, Nothing

LEMMA WriteTyped ==
  ASSUME TypeOK, NEW first \in [Conns -> Seq(Frames)], NEW then \in [Conns -> Seq(Frames)],
         NEW last \in [Conns -> Seq(Frames)], Write(first, then, last)
  PROVE  toClient' \in [Conns -> Seq(Frames)]
<1>1. \A c \in Conns : toClient[c] \o first[c] \o then[c] \o last[c] \in Seq(Frames)
  BY ConcatProperties DEF TypeOK
<1>2. <<>> \in Seq(Frames)
  BY EmptySeq
<1> QED BY <1>1, <1>2 DEF Write

LEMMA KnownTyped == ASSUME NEW o \in OwnersT PROVE Known(o) \in Views
BY DEF OwnersT, Known, Views

\* An owner that is elected is one, and so are all owners after an election.
LEMMA ElectedTyped ==
  ASSUME TypeOK, NEW sess, NEW s \in Scopes,
         DOMAIN sess \subseteq Keys, sess \in [DOMAIN sess -> SessionsT]
  PROVE  /\ Candidates(sess, s) # {} => Winner(sess, s) \in Candidates(sess, s)
         /\ \A k \in Candidates(sess, s) : sess[Winner(sess, s)].order =< sess[k].order
         /\ Elected(sess, s) \in OwnersT
<1> DEFINE C == Candidates(sess, s)
           O == {sess[k].order : k \in C}
<1>1. C \subseteq DOMAIN sess /\ \A k \in C : sess[k] \in SessionsT
  BY DEF Candidates
<1>2. ASSUME C # {}
      PROVE  Winner(sess, s) \in C /\ \A k \in C : sess[Winner(sess, s)].order =< sess[k].order
  <2>1. O \subseteq Nat /\ O # {}
    BY <1>1, <1>2 DEF SessionsT
  <2>2. PICK n \in O : \A m \in O : n =< m
    <3> HIDE DEF O
    <3> QED BY <2>1, MinExists
  <2>3. \E k \in C : \A l \in C : sess[k].order =< sess[l].order
    BY <2>2
  <2> QED BY <2>3 DEF Winner
<1>3. ASSUME C # {} PROVE Elected(sess, s) \in OwnersT
  <2>1. Winner(sess, s) \in Keys /\ sess[Winner(sess, s)].conn \in Conns
    BY <1>1, <1>2, <1>3 DEF SessionsT
  <2>2. owners[s] \in OwnersT /\ epochs[s] + 1 \in Nat
    BY DEF TypeOK
  <2> QED BY <1>3, <2>1, <2>2 DEF Elected, OwnersT
<1>4. C = {} => Elected(sess, s) \in OwnersT
  BY DEF Elected, OwnersT
<1> QED BY <1>2, <1>3, <1>4

LEMMA ElectTyped ==
  ASSUME TypeOK, NEW sess, DOMAIN sess \subseteq Keys, sess \in [DOMAIN sess -> SessionsT],
         Elect(sess)
  PROVE  owners' \in [Scopes -> OwnersT] /\ epochs' \in [Scopes -> Nat]
<1>1. owners' \in [Scopes -> OwnersT]
  BY ElectedTyped DEF Elect
<1>2. epochs' \in [Scopes -> Nat]
  BY DEF Elect, TypeOK
<1> QED BY <1>1, <1>2

LEMMA FramesTyped ==
  /\ Registered \in Frames
  /\ \A o \in OwnersT : OwnerFrame(o) \in Frames /\ Event(o) \in Frames
  /\ \A x \in States : StateFrame(x) \in Frames
<1>1. \A o \in OwnersT : OwnerFrame(o) \in Frames /\ Event(o) \in Frames
  <2> SUFFICES ASSUME NEW o \in OwnersT PROVE OwnerFrame(o) \in Frames /\ Event(o) \in Frames
    OBVIOUS
  <2>1. Known(o) \in Views
    BY KnownTyped
  <2> QED BY <2>1 DEF OwnerFrame, Event, Frames
<1> QED BY <1>1 DEF Registered, StateFrame, Frames

LEMMA Singleton == ASSUME NEW T, NEW x \in T PROVE <<x>> \in Seq(T)
OBVIOUS

LEMMA NoticesTyped ==
  ASSUME TypeOK, NEW sess, DOMAIN sess \subseteq Keys, sess \in [DOMAIN sess -> SessionsT]
  PROVE  Notices(sess) \in [Conns -> Seq(Frames)]
<1> SUFFICES ASSUME NEW c \in Conns,
                    \E s \in Scopes : HasSpace(sess, c, s) /\ Elected(sess, s) # owners[s]
             PROVE  <<OwnerFrame(Elected(sess, CHOOSE s \in Scopes : HasSpace(sess, c, s)))>>
                      \in Seq(Frames)
  BY EmptySeq DEF Notices
<1> DEFINE t == CHOOSE s \in Scopes : HasSpace(sess, c, s)
<1>1. t \in Scopes
  OBVIOUS
<1> HIDE DEF t
<1>2. OwnerFrame(Elected(sess, t)) \in Frames
  BY <1>1, ElectedTyped, FramesTyped
<1>3. <<OwnerFrame(Elected(sess, t))>> \in Seq(Frames)
  BY <1>2, Singleton
<1> QED BY <1>3 DEF t

LEMMA WelcomeTyped ==
  ASSUME TypeOK, NEW sess, DOMAIN sess \subseteq Keys, sess \in [DOMAIN sess -> SessionsT],
         NEW s \in Scopes
  PROVE  Welcome(sess, s) \in Seq(Frames)
<1>1. OwnerFrame(Elected(sess, s)) \in Frames /\ StateFrame(store[s]) \in Frames
  BY ElectedTyped, FramesTyped DEF TypeOK
<1>2. /\ <<OwnerFrame(Elected(sess, s))>> \in Seq(Frames)
      /\ <<StateFrame(store[s])>> \in Seq(Frames) /\ <<>> \in Seq(Frames)
  BY <1>1, Singleton, EmptySeq
<1> QED BY <1>2, ConcatProperties DEF Welcome

LEMMA MembersTyped ==
  ASSUME NEW sess, NEW s, NEW frame \in Frames
  PROVE  ToMembers(sess, s, frame) \in [Conns -> Seq(Frames)]
BY Singleton, EmptySeq DEF ToMembers

---------------------------------------------------------------------------
(* Types *)

\* The message a handler takes is a request, and so are those it leaves.
LEMMA TakesTyped ==
  ASSUME TypeOK, NEW c \in Conns, NEW type, Takes(c, type)
  PROVE  /\ Head(toBroker[c]) \in Requests /\ Head(toBroker[c]).type = type
         /\ toBroker' \in [Conns -> Seq(Requests)]
<1>1. toBroker[c] \in Seq(Requests) /\ toBroker[c] # <<>>
  BY DEF TypeOK, Takes
<1>2. Head(toBroker[c]) \in Requests /\ Tail(toBroker[c]) \in Seq(Requests)
  BY <1>1, HeadTailProperties
<1> QED BY <1>2 DEF TypeOK, Takes

LEMMA RequestsByType ==
  ASSUME NEW m \in Requests
  PROVE  /\ m.type = "register" => m.key \in Keys /\ m.cap \in Caps
         /\ m.type = "capabilities" => m.cap \in Caps
         /\ m.type = "commit" => m.val \in Goods
BY DEF Requests

LEMMA FramesByType ==
  ASSUME NEW m \in Frames
  PROVE  /\ m.type = "owner" => m.owner \in Views
         /\ m.type = "state" => m.state \in States
BY DEF Frames

\* What a session sends has its type.
LEMMA SendsTyped ==
  ASSUME TypeOK, NEW k \in Keys, NEW m \in Requests, Sends(k, m)
  PROVE  toBroker' \in [Conns -> Seq(Requests)]
<1>1. \A c \in Conns : Append(toBroker[c], m) \in Seq(Requests)
  BY AppendProperties DEF TypeOK
<1> QED BY <1>1 DEF TypeOK, Sends

LEMMA RegisterTypes ==
  ASSUME TypeOK, NEW c \in Conns, Register(c)
  PROVE  TypeOK'
<1> DEFINE m == Head(toBroker[c])
           k == m.key
           sess == Put(sessions, k, [conn |-> c, cap |-> m.cap, order |-> Order(k)])
<1>1. /\ k \in Keys /\ m.cap \in Caps /\ toBroker' \in [Conns -> Seq(Requests)]
      /\ UNCHANGED <<attached, ends>>
  BY TakesTyped, RequestsByType DEF Register, Takes
<1>2. /\ sessions' = sess /\ Elect(sess) /\ key' = [key EXCEPT ![c] = k]
      /\ nextOrder' = IF Order(k) = nextOrder THEN nextOrder + 1 ELSE nextOrder
      /\ Write(On(c, <<Registered>>), Notices(sess),
               IF m.cap = "none" THEN Nothing ELSE On(c, Welcome(sess, Scope[k])))
      /\ UNCHANGED store
  BY DEF Register
<1>3. Order(k) \in Nat
  BY DEF Order, TypeOK, SessionsT
<1>4. DOMAIN sess \subseteq Keys /\ sess \in [DOMAIN sess -> SessionsT]
  BY <1>1, <1>3 DEF TypeOK, Put, SessionsT
<1>5. Scope[k] \in Scopes
  BY <1>1 DEF Scopes
<1> HIDE DEF k, m, sess
<1>6. owners' \in [Scopes -> OwnersT] /\ epochs' \in [Scopes -> Nat]
  BY <1>2, <1>4, ElectTyped
<1>7. /\ On(c, <<Registered>>) \in [Conns -> Seq(Frames)]
      /\ Notices(sess) \in [Conns -> Seq(Frames)]
      /\ (IF m.cap = "none" THEN Nothing ELSE On(c, Welcome(sess, Scope[k])))
           \in [Conns -> Seq(Frames)]
  BY <1>4, <1>5, FramesTyped, Singleton, OnTyped, NothingTyped, NoticesTyped, WelcomeTyped
<1>8. toClient' \in [Conns -> Seq(Frames)]
  BY <1>2, <1>7, WriteTyped
<1>9. key' \in [Conns -> Keys \cup {None}] /\ nextOrder' \in Nat
  BY <1>1, <1>2, <1>3 DEF TypeOK
<1>10. Live' \subseteq Keys /\ sessions' \in [Live' -> SessionsT]
  BY <1>2, <1>4 DEF Live
<1> QED BY <1>1, <1>2, <1>6, <1>8, <1>9, <1>10 DEF TypeOK, ends

LEMMA CapabilitiesTypes ==
  ASSUME TypeOK, NEW c \in Conns, Capabilities(c)
  PROVE  TypeOK'
<1> DEFINE k == key[c]
           sess == [sessions EXCEPT ![k].cap = Head(toBroker[c]).cap]
<1>1. /\ Head(toBroker[c]).cap \in Caps /\ toBroker' \in [Conns -> Seq(Requests)]
      /\ UNCHANGED <<attached, ends>>
  BY TakesTyped, RequestsByType DEF Capabilities, Takes
<1>2. /\ sessions' = sess /\ Elect(sess)
      /\ Write(Nothing, Notices(sess), On(c, Welcome(sess, Scope[k])))
      /\ UNCHANGED <<key, nextOrder, store>>
  BY DEF Capabilities
<1>3. DOMAIN sess \subseteq Keys /\ sess \in [DOMAIN sess -> SessionsT]
  <2>1. k \in Live /\ sessions[k] \in SessionsT
    BY DEF Capabilities, Owns, TypeOK
  <2>2. [sessions[k] EXCEPT !.cap = Head(toBroker[c]).cap] \in SessionsT
    BY <1>1, <2>1 DEF SessionsT
  <2> QED BY <2>1, <2>2 DEF TypeOK, Live
<1>4. Scope[k] \in Scopes
  BY DEF Capabilities, Owns, TypeOK, Scopes
<1> HIDE DEF k, sess
<1>5. owners' \in [Scopes -> OwnersT] /\ epochs' \in [Scopes -> Nat]
  BY <1>2, <1>3, ElectTyped
<1>6. /\ Nothing \in [Conns -> Seq(Frames)]
      /\ Notices(sess) \in [Conns -> Seq(Frames)]
      /\ On(c, Welcome(sess, Scope[k])) \in [Conns -> Seq(Frames)]
  BY <1>3, <1>4, OnTyped, NothingTyped, NoticesTyped, WelcomeTyped
<1>7. toClient' \in [Conns -> Seq(Frames)]
  BY <1>2, <1>6, WriteTyped
<1> QED BY <1>1, <1>2, <1>3, <1>5, <1>7 DEF TypeOK, ends, Live

LEMMA CommitTypes ==
  ASSUME TypeOK, NEW c \in Conns, Commit(c)
  PROVE  TypeOK'
<1> DEFINE m == Head(toBroker[c])
           s == Scope[key[c]]
<1>1. /\ m.val \in Goods /\ toBroker' \in [Conns -> Seq(Requests)]
      /\ UNCHANGED <<attached, ends>>
  BY TakesTyped, RequestsByType DEF Commit, Takes
<1>2. s \in Scopes
  BY DEF Commit, MayCommit, IsOwner, Owns, TypeOK, Scopes
<1>3. store' \in [Scopes -> States]
  BY <1>1, <1>2 DEF Commit, TypeOK, States
<1>4. Write(Nothing, ToMembers(sessions, s, StateFrame(store'[s])), Nothing)
  BY DEF Commit
<1>5. toClient' \in [Conns -> Seq(Frames)]
  <2>1. StateFrame(store'[s]) \in Frames
    BY <1>2, <1>3, FramesTyped
  <2>2. ToMembers(sessions, s, StateFrame(store'[s])) \in [Conns -> Seq(Frames)]
    BY <2>1, MembersTyped
  <2> QED BY <1>4, <2>2, NothingTyped, WriteTyped
<1> QED BY <1>1, <1>3, <1>5 DEF TypeOK, Commit, ends, Live

LEMMA PublishTypes ==
  ASSUME TypeOK, NEW c \in Conns, Publish(c)
  PROVE  TypeOK'
<1> DEFINE m == Head(toBroker[c])
           s == Scope[key[c]]
           allowed == /\ Owns(c) /\ sessions[key[c]].cap # "none"
                      /\ m.epoch # None => IsOwner(c, m.epoch)
                      /\ m.audience = "owner" => owners[s] # None
           to == IF m.audience = "capable" THEN ToMembers(sessions, s, Event(owners[s]))
                 ELSE On(owners[s].conn, <<Event(owners[s])>>)
<1>1. toBroker' \in [Conns -> Seq(Requests)] /\ UNCHANGED <<attached, ends>>
  BY TakesTyped DEF Publish, Takes
<1>2. Write(Nothing, IF allowed THEN to ELSE Nothing, Nothing) /\ UNCHANGED broker
  BY DEF Publish
<1>3. allowed => to \in [Conns -> Seq(Frames)]
  <2> SUFFICES ASSUME allowed PROVE to \in [Conns -> Seq(Frames)]
    OBVIOUS
  <2>1. Event(owners[s]) \in Frames
    BY FramesTyped DEF Owns, TypeOK, Scopes
  <2>2. ToMembers(sessions, s, Event(owners[s])) \in [Conns -> Seq(Frames)]
    BY <2>1, MembersTyped
  <2>3. On(owners[s].conn, <<Event(owners[s])>>) \in [Conns -> Seq(Frames)]
    BY <2>1, Singleton, OnTyped
  <2> QED BY <2>2, <2>3
<1>4. toClient' \in [Conns -> Seq(Frames)]
  <2> HIDE DEF allowed, to
  <2> QED BY <1>2, <1>3, NothingTyped, WriteTyped
<1> QED BY <1>1, <1>2, <1>4 DEF TypeOK, broker, ends, Live

LEMMA CloseTypes ==
  ASSUME TypeOK, NEW c \in Conns, Close(c)
  PROVE  TypeOK'
<1> DEFINE sess == IF Owns(c) THEN Drop(sessions, {key[c]}) ELSE sessions
<1>1. sessions' = sess /\ Elect(sess) /\ Write(Nothing, Notices(sess), Nothing)
  BY DEF Close
<1>2. DOMAIN sess \subseteq Keys /\ sess \in [DOMAIN sess -> SessionsT]
  BY DEF TypeOK, Drop
<1>3. /\ key' \in [Conns -> Keys \cup {None}] /\ attached' \subseteq Conns
      /\ toBroker' \in [Conns -> Seq(Requests)]
  BY EmptySeq DEF Close, TypeOK
<1> HIDE DEF sess
<1>4. owners' \in [Scopes -> OwnersT] /\ epochs' \in [Scopes -> Nat]
  BY <1>1, <1>2, ElectTyped
<1>5. toClient' \in [Conns -> Seq(Frames)]
  BY <1>1, <1>2, NothingTyped, NoticesTyped, WriteTyped
<1> QED BY <1>1, <1>2, <1>3, <1>4, <1>5 DEF TypeOK, Close, ends, Live

LEMMA ReceiveTypes ==
  ASSUME TypeOK, NEW k \in Keys, Receive(k)
  PROVE  TypeOK'
<1> DEFINE c == client[k]
           m == Head(toClient[c])
<1>1. c \in Conns /\ toClient[c] \in Seq(Frames) /\ toClient[c] # <<>>
  BY DEF Receive, TypeOK
<1>2. m \in Frames /\ Tail(toClient[c]) \in Seq(Frames)
  BY <1>1, HeadTailProperties
<1>3. toClient' \in [Conns -> Seq(Frames)]
  BY <1>1, <1>2 DEF Receive, TypeOK
<1>4. Capability(k) \in Requests
  BY DEF Capability, Requests, TypeOK
<1>5. toBroker' \in [Conns -> Seq(Requests)]
  BY <1>4, SendsTyped DEF Receive, Announce, TypeOK
<1>6. owner' \in [Keys -> Views] /\ state' \in [Keys -> States] /\ up' \in [Keys -> BOOLEAN]
  BY <1>2, FramesByType DEF Receive, TypeOK
<1> QED BY <1>3, <1>5, <1>6 DEF TypeOK, Receive, broker, Live

LEMMA ConnectTypes ==
  ASSUME TypeOK, NEW k \in Keys, NEW c \in Conns, Connect(k, c)
  PROVE  TypeOK'
<1>1. [type |-> "register", key |-> k, cap |-> cap[k]] \in Requests
  BY DEF Requests, TypeOK
<1>2. toBroker' \in [Conns -> Seq(Requests)]
  BY <1>1, Singleton DEF Connect, TypeOK
<1> QED BY <1>2 DEF TypeOK, Connect, broker, Live

LEMMA ExtendTypes ==
  ASSUME TypeOK, NEW k \in Keys, NEW kind \in Kinds[k], Extend(k, kind)
  PROVE  TypeOK'
<1>1. kind \in Caps
  BY BusAssumption DEF Caps
<1>2. [type |-> "capabilities", cap |-> kind] \in Requests
  BY <1>1 DEF Requests
<1>3. toBroker' \in [Conns -> Seq(Requests)]
  BY <1>2, SendsTyped DEF Extend, TypeOK
<1> QED BY <1>1, <1>3 DEF TypeOK, Extend, broker, Live

LEMMA AskCommitTypes ==
  ASSUME TypeOK, NEW k \in Keys, NEW val \in Payloads[k], AskCommit(k, val)
  PROVE  TypeOK'
<1>1. owner[k].epoch \in Nat /\ state[k] \in States /\ val \in Goods
  BY DEF AskCommit, TypeOK, Views, Goods
<1>2. [type |-> "commit", epoch |-> owner[k].epoch, base |-> state[k], val |-> val] \in Requests
  BY <1>1 DEF Requests
<1>3. toBroker' \in [Conns -> Seq(Requests)]
  BY <1>2, SendsTyped DEF AskCommit
<1> QED BY <1>3 DEF TypeOK, AskCommit, broker, ends, Live

LEMMA AskPublishTypes ==
  ASSUME TypeOK, NEW k \in Keys, NEW audience \in Audiences, NEW asOwner \in BOOLEAN,
         AskPublish(k, audience, asOwner)
  PROVE  TypeOK'
<1> DEFINE e == IF asOwner THEN owner[k].epoch ELSE None
<1>1. e \in Nat \cup {None}
  BY DEF AskPublish, TypeOK, Views
<1>2. [type |-> "publish", audience |-> audience, epoch |-> e] \in Requests
  <2> HIDE DEF e
  <2> QED BY <1>1 DEF Requests
<1>3. toBroker' \in [Conns -> Seq(Requests)]
  BY <1>2, SendsTyped DEF AskPublish
<1> QED BY <1>3 DEF TypeOK, AskPublish, broker, ends, Live

LEMMA DisconnectTypes ==
  ASSUME TypeOK, NEW k \in Keys, Disconnect(k)
  PROVE  TypeOK'
<1>1. toClient' \in [Conns -> Seq(Frames)]
  BY EmptySeq DEF Disconnect, TypeOK
<1>2. /\ owner' \in [Keys -> Views] /\ client' \in [Keys -> Conns \cup {None}]
      /\ up' \in [Keys -> BOOLEAN]
  BY DEF Disconnect, TypeOK, Views
<1> QED BY <1>1, <1>2 DEF TypeOK, Disconnect, broker, Live

LEMMA DieTypes == ASSUME TypeOK, Die PROVE TypeOK'
<1>1. key' \in [Conns -> Keys \cup {None}] /\ owners' \in [Scopes -> OwnersT]
  BY DEF Die, OwnersT
<1>2. toBroker' \in [Conns -> Seq(Requests)]
  BY NothingTyped DEF Die
<1>3. Live' = {} /\ sessions' \in [Live' -> SessionsT] /\ nextOrder' \in Nat
  BY DEF Die, Live
<1> QED BY <1>1, <1>2, <1>3 DEF TypeOK, Die, ends, Live

LEMMA TypeInit == Init => TypeOK
<1> SUFFICES ASSUME Init PROVE TypeOK
  OBVIOUS
<1>1. Live = {} /\ sessions \in [Live -> SessionsT]
  BY DEF Init, Live
<1>2. toBroker \in [Conns -> Seq(Requests)] /\ toClient \in [Conns -> Seq(Frames)]
  BY NothingTyped DEF Init
<1>3. Blank \in States
  BY DEF Blank, States
<1> QED BY <1>1, <1>2, <1>3 DEF Init, TypeOK, OwnersT, Views, Caps

LEMMA TypeStep == TypeOK /\ [Next]_vars => TypeOK'
<1> SUFFICES ASSUME TypeOK, [Next]_vars PROVE TypeOK'
  OBVIOUS
<1>1. ASSUME NEW c \in Conns, Handle(c) PROVE TypeOK'
  <2>1. CASE CommitFails(c)
    <3>1. toBroker' \in [Conns -> Seq(Requests)] /\ UNCHANGED <<attached, ends>>
      BY <2>1, TakesTyped DEF CommitFails, Takes
    <3> QED BY <2>1, <3>1 DEF TypeOK, CommitFails, broker, ends, Live
  <2> QED BY <1>1, <2>1, RegisterTypes, CapabilitiesTypes, CommitTypes, PublishTypes DEF Handle
<1>2. ASSUME UNCHANGED vars PROVE TypeOK'
  BY <1>2 DEF TypeOK, vars, broker, wire, ends, Live
<1> QED BY <1>1, <1>2, CloseTypes, DieTypes, ConnectTypes, ExtendTypes, ReceiveTypes,
           DisconnectTypes, AskCommitTypes, AskPublishTypes DEF Next

\* Tables, sockets and views hold what they should, for any number of sessions, sockets
\* and scopes (ConnectedSession, namespaceOwners, and the messages of protocol.ts).
THEOREM BusTypeCorrect == Spec => []TypeOK
BY TypeInit, TypeStep, PTL DEF Spec

---------------------------------------------------------------------------
(* Elections *)

\* A step that elects keeps every session's place in the order, and gives the one session
\* that may be new the place behind all others.
Elects ==
  /\ Elect(sessions')
  /\ nextOrder' \in Nat /\ nextOrder' >= nextOrder
  /\ \A k \in Live' :
       \/ k \in Live /\ sessions'[k].order = sessions[k].order
       \/ /\ k \notin Live /\ Live' \ Live = {k}
          /\ sessions'[k].order = nextOrder /\ nextOrder' = nextOrder + 1

LEMMA RegisterElects ==
  ASSUME TypeOK, OrdersDistinct, NEW c \in Conns, Register(c)
  PROVE  Elects
<1> DEFINE m == Head(toBroker[c])
           k == m.key
<1>1. /\ sessions' = Put(sessions, k, [conn |-> c, cap |-> m.cap, order |-> Order(k)])
      /\ Elect(sessions')
      /\ nextOrder' = IF Order(k) = nextOrder THEN nextOrder + 1 ELSE nextOrder
  BY DEF Register
<1> HIDE DEF k
<1>2. CASE k \in Live
  <2>1. Order(k) = sessions[k].order /\ sessions[k].order < nextOrder /\ nextOrder \in Nat
    BY <1>2 DEF Order, OrdersDistinct, TypeOK
  <2>2. nextOrder' = nextOrder
    BY <1>1, <1>2, <2>1 DEF TypeOK, SessionsT
  <2>3. Live' = Live /\ \A l \in Live : sessions'[l].order = sessions[l].order
    BY <1>1, <1>2, <2>1 DEF Put, Live
  <2> QED BY <1>1, <2>1, <2>2, <2>3 DEF Elects
<1>3. CASE k \notin Live
  <2>1. nextOrder \in Nat /\ nextOrder' = nextOrder + 1
    BY <1>1, <1>3 DEF Order, TypeOK
  <2>2. Live' = Live \cup {k} /\ sessions'[k].order = nextOrder
    BY <1>1, <1>3 DEF Put, Live, Order
  <2>3. \A l \in Live : sessions'[l].order = sessions[l].order
    BY <1>1, <1>3 DEF Put, Live
  <2>4. Live' \ Live = {k}
    BY <1>3, <2>2
  <2> QED BY <1>1, <1>3, <2>1, <2>2, <2>3, <2>4 DEF Elects
<1> QED BY <1>2, <1>3

LEMMA CapabilitiesElects ==
  ASSUME TypeOK, NEW c \in Conns, Capabilities(c)
  PROVE  Elects
<1>1. /\ sessions' = [sessions EXCEPT ![key[c]].cap = Head(toBroker[c]).cap]
      /\ Elect(sessions') /\ nextOrder' = nextOrder
  BY DEF Capabilities
<1>2. Live' = Live /\ \A k \in Live : sessions'[k].order = sessions[k].order
  BY <1>1 DEF Live, TypeOK, SessionsT
<1> QED BY <1>1, <1>2 DEF Elects, TypeOK

LEMMA CloseElects ==
  ASSUME TypeOK, NEW c \in Conns, Close(c)
  PROVE  Elects
<1>1. /\ sessions' = IF Owns(c) THEN Drop(sessions, {key[c]}) ELSE sessions
      /\ Elect(sessions') /\ nextOrder' = nextOrder
  BY DEF Close
<1>2. \A k \in Live' : k \in Live /\ sessions'[k].order = sessions[k].order
  BY <1>1 DEF Live, Drop
<1>3. nextOrder' \in Nat /\ nextOrder' >= nextOrder
  BY <1>1 DEF TypeOK
<1> QED BY <1>1, <1>2, <1>3 DEF Elects

\* Every step elects, forgets all sessions, or leaves sessions and owners alone.
LEMMA StepElects ==
  ASSUME TypeOK, OrdersDistinct, [Next]_vars
  PROVE  \/ Elects
         \/ Live' = {} /\ nextOrder' = 0 /\ owners' = [s \in Scopes |-> None]
         \/ UNCHANGED <<sessions, nextOrder, owners>>
<1>1. ASSUME NEW c \in Conns, Handle(c)
      PROVE  Elects \/ UNCHANGED <<sessions, nextOrder, owners>>
  <2>1. CASE Commit(c) \/ CommitFails(c) \/ Publish(c)
    BY <2>1 DEF Commit, CommitFails, Publish, broker
  <2> QED BY <1>1, <2>1, RegisterElects, CapabilitiesElects DEF Handle
<1>2. ASSUME Die PROVE Live' = {} /\ nextOrder' = 0 /\ owners' = [s \in Scopes |-> None]
  BY <1>2 DEF Die, Live
<1>3. ASSUME NEW k \in Keys,
             \/ \E c \in Conns : Connect(k, c)
             \/ \E kind \in Kinds[k] : Extend(k, kind)
             \/ Receive(k) \/ Disconnect(k)
             \/ \E val \in Payloads[k] : AskCommit(k, val)
             \/ \E audience \in Audiences, asOwner \in BOOLEAN : AskPublish(k, audience, asOwner)
      PROVE  UNCHANGED <<sessions, nextOrder, owners>>
  BY <1>3 DEF Connect, Extend, Receive, Disconnect, AskCommit, AskPublish, broker
<1>4. CASE UNCHANGED vars
  BY <1>4 DEF vars, broker
<1> QED BY <1>1, <1>2, <1>3, <1>4, CloseElects DEF Next

\* The inductive invariant of the elections: the owner is the first eligible session, and
\* "first" is well defined because no two sessions came at the same time.
BusInv == TypeOK /\ OrdersDistinct /\ OwnersElected

LEMMA OrdersStep == TypeOK /\ OrdersDistinct /\ [Next]_vars => OrdersDistinct'
<1> SUFFICES ASSUME TypeOK, OrdersDistinct, [Next]_vars PROVE OrdersDistinct'
  OBVIOUS
<1>1. CASE Elects
  <2>1. nextOrder \in Nat /\ nextOrder' \in Nat /\ nextOrder' >= nextOrder
    BY <1>1 DEF Elects, TypeOK
  <2>2. \A j \in Live : sessions[j].order \in Nat /\ sessions[j].order < nextOrder
    BY DEF OrdersDistinct, TypeOK, SessionsT
  <2>3. \A j \in Live' : \/ j \in Live /\ sessions'[j].order = sessions[j].order
                         \/ /\ Live' \ Live = {j} /\ sessions'[j].order = nextOrder
                            /\ nextOrder' = nextOrder + 1
    BY <1>1 DEF Elects
  <2>4. \A k \in Live' : sessions'[k].order < nextOrder'
    BY <2>1, <2>2, <2>3
  <2>5. ASSUME NEW k \in Live', NEW l \in Live' \ {k}
        PROVE  sessions'[k].order # sessions'[l].order
    <3>1. k \in Live /\ l \in Live => sessions[k].order # sessions[l].order
      BY DEF OrdersDistinct
    <3>2. ~(Live' \ Live = {k} /\ Live' \ Live = {l})
      OBVIOUS
    <3> QED BY <2>1, <2>2, <2>3, <3>1, <3>2
  <2> QED BY <2>4, <2>5 DEF OrdersDistinct
<1>2. CASE Live' = {}
  BY <1>2 DEF OrdersDistinct
<1>3. CASE UNCHANGED <<sessions, nextOrder, owners>>
  BY <1>3 DEF OrdersDistinct, Live
<1> QED BY <1>1, <1>2, <1>3, StepElects

\* An election among typed sessions elects the first.
LEMMA ElectElects ==
  ASSUME TypeOK, TypeOK', Elect(sessions'), NEW s \in Scopes
  PROVE  /\ Candidates(sessions', s) = {} => owners'[s] = None
         /\ Candidates(sessions', s) # {} =>
              /\ owners'[s] # None
              /\ owners'[s].key = Winner(sessions', s)
              /\ owners'[s].key \in Candidates(sessions', s)
              /\ owners'[s].conn = sessions'[owners'[s].key].conn
              /\ \A k \in Candidates(sessions', s) :
                   sessions'[owners'[s].key].order =< sessions'[k].order
<1> DEFINE w == Winner(sessions', s)
<1>1. owners'[s] = Elected(sessions', s)
  BY DEF Elect
<1>2. CASE Candidates(sessions', s) = {}
  BY <1>1, <1>2 DEF Elected
<1>3. CASE Candidates(sessions', s) # {}
  <2>1. /\ w \in Candidates(sessions', s)
        /\ \A k \in Candidates(sessions', s) : sessions'[w].order =< sessions'[k].order
        /\ owners'[s] \in OwnersT
    BY <1>1, <1>3, ElectedTyped DEF TypeOK, Live
  <2>2. w \in Keys /\ sessions'[w].conn \in Conns /\ epochs[s] + 1 \in Nat
    BY <2>1 DEF Candidates, TypeOK, Live, SessionsT
  <2>3. owners'[s].key = w /\ owners'[s].conn = sessions'[w].conn /\ owners'[s] # None
    BY <1>1, <1>3, <2>2, BusAssumption DEF Elected
  <2> QED BY <1>3, <2>1, <2>3
<1> QED BY <1>2, <1>3

LEMMA OwnersStep ==
  TypeOK /\ TypeOK' /\ OrdersDistinct /\ OwnersElected /\ [Next]_vars => OwnersElected'
<1> SUFFICES ASSUME TypeOK, TypeOK', OrdersDistinct, OwnersElected, [Next]_vars
             PROVE  OwnersElected'
  OBVIOUS
<1>1. CASE Elects
  BY <1>1, ElectElects DEF Elects, OwnersElected
<1>2. CASE Live' = {} /\ owners' = [s \in Scopes |-> None]
  BY <1>2 DEF OwnersElected, Candidates, Live
<1>3. CASE UNCHANGED <<sessions, nextOrder, owners>>
  BY <1>3 DEF OwnersElected, Candidates
<1> QED BY <1>1, <1>2, <1>3, StepElects

LEMMA BusInit == Init => BusInv
<1> SUFFICES ASSUME Init PROVE OrdersDistinct /\ OwnersElected
  BY TypeInit DEF BusInv
<1>1. Live = {} /\ \A s \in Scopes : owners[s] = None /\ Candidates(sessions, s) = {}
  BY DEF Init, Live, Candidates
<1> QED BY <1>1 DEF OrdersDistinct, OwnersElected

LEMMA BusStep == BusInv /\ [Next]_vars => BusInv'
BY TypeStep, OrdersStep, OwnersStep DEF BusInv

THEOREM BusInvHolds == Spec => []BusInv
BY BusInit, BusStep, PTL DEF Spec

\* The owner of a scope is always the session with the right to own that came first, on
\* the socket it has now (recomputeNamespaceOwners).
THEOREM FirstSessionOwns == Spec => []OwnersElected
<1>1. BusInv => OwnersElected
  BY DEF BusInv
<1> QED BY <1>1, BusInvHolds, PTL

LEMMA StaysStep ==
  ASSUME BusInv, BusInv', [Next]_vars, NEW s \in Scopes,
         owners[s] # None, owners[s].key \in Candidates(sessions', s)
  PROVE  /\ owners'[s] # None
         /\ owners'[s].key # owners[s].key =>
              /\ owners'[s].key \in Live
              /\ sessions[owners'[s].key].order < sessions[owners[s].key].order
<1> DEFINE o == owners[s].key
           w == owners'[s].key
<1>1. o \in Live /\ sessions[o].order \in Nat /\ sessions[o].order < nextOrder
      /\ nextOrder \in Nat
  BY DEF BusInv, OwnersElected, Candidates, Live, OrdersDistinct, TypeOK, SessionsT
<1>2. CASE Elects
  <2>1. /\ owners'[s] # None /\ w \in Live'
        /\ sessions'[w].order =< sessions'[o].order
    BY <1>2, ElectElects DEF Elects, BusInv, Candidates, Live
  <2>2. o \in Live' /\ sessions'[o].order = sessions[o].order
    BY <1>1, <1>2 DEF Elects, Candidates, Live
  <2>3. CASE w \in Live
    <3>1. sessions'[w].order = sessions[w].order /\ sessions[w].order \in Nat
      BY <1>2, <2>1, <2>3 DEF Elects, BusInv, TypeOK, SessionsT
    <3>2. w # o => sessions[w].order # sessions[o].order
      BY <1>1, <2>3 DEF BusInv, OrdersDistinct
    <3> QED BY <1>1, <2>1, <2>2, <2>3, <3>1, <3>2
  <2>4. CASE w \notin Live
    <3>1. sessions'[w].order = nextOrder
      BY <1>2, <2>1, <2>4 DEF Elects
    <3> QED BY <1>1, <2>1, <2>2, <3>1
  <2> QED BY <2>3, <2>4
<1>3. CASE Live' = {}
  BY <1>3 DEF Candidates, Live
<1>4. CASE UNCHANGED <<sessions, nextOrder, owners>>
  BY <1>4
<1> QED BY <1>2, <1>3, <1>4, StepElects DEF BusInv

\* A session never loses the namespace to one that came later, reconnected or replaced
\* itself (recomputeNamespaceOwners with the order kept by register).
THEOREM NewcomersWait == Spec => OwnershipStays
<1>1. ASSUME BusInv, BusInv', [Next]_vars
      PROVE  [\A s \in Scopes :
                owners[s] # None /\ owners[s].key \in Candidates(sessions', s) =>
                  /\ owners'[s] # None
                  /\ owners'[s].key # owners[s].key =>
                       /\ owners'[s].key \in Live
                       /\ sessions[owners'[s].key].order < sessions[owners[s].key].order]_vars
  BY <1>1, StaysStep
<1> QED BY <1>1, BusInvHolds, PTL DEF OwnershipStays, Spec

---------------------------------------------------------------------------
(* The frames of a queue *)

Elements(q) == {q[i] : i \in 1 .. Len(q)}

LEMMA HeadAndTail ==
  ASSUME NEW T, NEW q \in Seq(T), q # <<>>
  PROVE  /\ Len(q) \in Nat \ {0} /\ Head(q) = q[1] /\ Head(q) \in Elements(q)
         /\ Tail(q) \in Seq(T) /\ Len(Tail(q)) = Len(q) - 1
         /\ \A i \in 1 .. Len(Tail(q)) : Tail(q)[i] = q[i + 1]
         /\ Elements(Tail(q)) \subseteq Elements(q)
<1>1. /\ Len(q) \in Nat \ {0} /\ Head(q) = q[1] /\ Tail(q) \in Seq(T)
      /\ Len(Tail(q)) = Len(q) - 1 /\ \A i \in 1 .. Len(Tail(q)) : Tail(q)[i] = q[i + 1]
  BY HeadTailProperties, EmptySeq, LenProperties
<1>2. Elements(Tail(q)) \subseteq Elements(q)
  <2> SUFFICES ASSUME NEW i \in 1 .. Len(Tail(q)) PROVE Tail(q)[i] \in Elements(q)
    BY DEF Elements
  <2>1. i + 1 \in 1 .. Len(q) BY <1>1
  <2> QED BY <1>1, <2>1 DEF Elements
<1>3. q[1] \in Elements(q)
  BY <1>1 DEF Elements
<1> QED BY <1>1, <1>2, <1>3

LEMMA AppendHas ==
  ASSUME NEW T, NEW q \in Seq(T), NEW m \in T
  PROVE  Elements(Append(q, m)) = Elements(q) \cup {m}
<1>1. /\ Len(Append(q, m)) = Len(q) + 1 /\ Len(q) \in Nat
      /\ Append(q, m)[Len(q) + 1] = m
      /\ \A i \in 1 .. Len(q) : Append(q, m)[i] = q[i]
  BY AppendProperties, LenProperties
<1> QED BY <1>1 DEF Elements

LEMMA EmptyHas == Elements(<<>>) = {}
BY EmptySeq DEF Elements

LEMMA OneHas == ASSUME NEW m PROVE Elements(<<m>>) = {m} /\ Len(<<m>>) = 1
BY DEF Elements

LEMMA ConcatHas ==
  ASSUME NEW T, NEW p \in Seq(T), NEW q \in Seq(T)
  PROVE  /\ Elements(p \o q) = Elements(p) \cup Elements(q)
         /\ p \o q \in Seq(T) /\ Len(p \o q) = Len(p) + Len(q) /\ Len(p) \in Nat /\ Len(q) \in Nat
         /\ \A i \in 1 .. Len(p) : (p \o q)[i] = p[i]
         /\ \A i \in 1 .. Len(q) : (p \o q)[Len(p) + i] = q[i]
<1>1. /\ p \o q \in Seq(T) /\ Len(p \o q) = Len(p) + Len(q) /\ Len(p) \in Nat /\ Len(q) \in Nat
      /\ \A i \in 1 .. Len(p) + Len(q) :
           (p \o q)[i] = IF i <= Len(p) THEN p[i] ELSE q[i - Len(p)]
  BY ConcatProperties, LenProperties
<1>2. \A i \in 1 .. Len(p) : (p \o q)[i] = p[i]
  BY <1>1
<1>3. \A i \in 1 .. Len(q) : (p \o q)[Len(p) + i] = q[i]
  <2> SUFFICES ASSUME NEW i \in 1 .. Len(q) PROVE (p \o q)[Len(p) + i] = q[i]
    OBVIOUS
  <2>1. Len(p) + i \in 1 .. Len(p) + Len(q) /\ ~(Len(p) + i <= Len(p)) /\ Len(p) + i - Len(p) = i
    BY <1>1
  <2> QED BY <1>1, <2>1
<1>4. \A i \in 1 .. Len(p) + Len(q) :
        (p \o q)[i] \in Elements(p) \cup Elements(q)
  <2> SUFFICES ASSUME NEW i \in 1 .. Len(p) + Len(q)
               PROVE  (p \o q)[i] \in Elements(p) \cup Elements(q)
    OBVIOUS
  <2>1. CASE i <= Len(p)
    BY <1>1, <1>2, <2>1 DEF Elements
  <2>2. CASE ~(i <= Len(p))
    <3>1. i - Len(p) \in 1 .. Len(q) BY <1>1, <2>2
    <3> QED BY <1>1, <2>2, <3>1 DEF Elements
  <2> QED BY <2>1, <2>2
<1>5. Elements(p \o q) \subseteq Elements(p) \cup Elements(q)
  BY <1>1, <1>4 DEF Elements
<1>6. Elements(p) \subseteq Elements(p \o q)
  BY <1>1, <1>2 DEF Elements
<1>7. Elements(q) \subseteq Elements(p \o q)
  <2> SUFFICES ASSUME NEW i \in 1 .. Len(q) PROVE q[i] \in Elements(p \o q)
    BY DEF Elements
  <2>1. Len(p) + i \in 1 .. Len(p \o q) BY <1>1
  <2> QED BY <1>3, <2>1 DEF Elements
<1> QED BY <1>1, <1>2, <1>3, <1>5, <1>6, <1>7

\* v is what the last of the first n frames of this type says, or x if there is none.
LatestOf(q, n, type, x, v) ==
  \/ v = x /\ \A i \in 1 .. n : q[i].type # type
  \/ \E i \in 1 .. n : /\ q[i].type = type /\ q[i][type] = v
                       /\ \A j \in i + 1 .. n : q[j].type # type

LEMMA LatestExtends ==
  ASSUME NEW q, NEW r, NEW n \in Nat, NEW m \in Nat, n <= m, NEW type, NEW x, NEW v,
         LatestOf(q, n, type, x, v),
         \A i \in 1 .. n : r[i] = q[i], \A i \in n + 1 .. m : r[i].type # type
  PROVE  LatestOf(r, m, type, x, v)
<1>1. \A i \in 1 .. m : i \in 1 .. n \/ i \in n + 1 .. m
  OBVIOUS
<1>2. CASE v = x /\ \A i \in 1 .. n : q[i].type # type
  BY <1>1, <1>2 DEF LatestOf
<1>3. CASE \E i \in 1 .. n : /\ q[i].type = type /\ q[i][type] = v
                             /\ \A j \in i + 1 .. n : q[j].type # type
  <2>1. PICK i \in 1 .. n : /\ q[i].type = type /\ q[i][type] = v
                            /\ \A j \in i + 1 .. n : q[j].type # type
    BY <1>3
  <2>2. i \in 1 .. m /\ r[i] = q[i]
    OBVIOUS
  <2>3. ASSUME NEW j \in i + 1 .. m PROVE r[j].type # type
    <3>1. CASE j \in n + 1 .. m BY <3>1
    <3>2. CASE j \in i + 1 .. n
      <4>1. j \in 1 .. n BY <3>2
      <4> QED BY <2>1, <3>2, <4>1
    <3>3. j \in i + 1 .. n \/ j \in n + 1 .. m OBVIOUS
    <3> QED BY <3>1, <3>2, <3>3
  <2> QED BY <2>1, <2>2, <2>3 DEF LatestOf
<1> QED BY <1>2, <1>3 DEF LatestOf

LEMMA LatestIsLast ==
  ASSUME NEW q, NEW n \in Nat, NEW type, NEW x, NEW i \in 1 .. n, q[i].type = type,
         \A j \in i + 1 .. n : q[j].type # type
  PROVE  LatestOf(q, n, type, x, q[i][type])
BY DEF LatestOf

\* Reading the first frame leaves the rest to be read.
LEMMA LatestAfterHead ==
  ASSUME NEW T, NEW q \in Seq(T), q # <<>>, NEW n \in 1 .. Len(q), NEW type, NEW x, NEW v,
         LatestOf(q, n, type, x, v)
  PROVE  LatestOf(Tail(q), n - 1, type, IF Head(q).type = type THEN Head(q)[type] ELSE x, v)
<1>1. /\ Len(q) \in Nat \ {0} /\ Head(q) = q[1] /\ Len(Tail(q)) = Len(q) - 1
      /\ \A i \in 1 .. Len(Tail(q)) : Tail(q)[i] = q[i + 1]
  BY HeadAndTail
<1>2. \A i \in 1 .. n - 1 : i + 1 \in 1 .. n /\ Tail(q)[i] = q[i + 1]
  BY <1>1
<1>3. CASE v = x /\ \A i \in 1 .. n : q[i].type # type
  <2>1. Head(q).type # type BY <1>1, <1>3
  <2>2. \A i \in 1 .. n - 1 : Tail(q)[i].type # type BY <1>2, <1>3
  <2> QED BY <1>3, <2>1, <2>2 DEF LatestOf
<1>4. CASE \E i \in 1 .. n : /\ q[i].type = type /\ q[i][type] = v
                             /\ \A j \in i + 1 .. n : q[j].type # type
  <2>1. PICK i \in 1 .. n : /\ q[i].type = type /\ q[i][type] = v
                            /\ \A j \in i + 1 .. n : q[j].type # type
    BY <1>4
  <2>2. CASE i = 1
    <3>1. Head(q).type = type /\ Head(q)[type] = v BY <1>1, <2>1, <2>2
    <3>2. \A j \in 1 .. n - 1 : Tail(q)[j].type # type
      <4> SUFFICES ASSUME NEW j \in 1 .. n - 1 PROVE Tail(q)[j].type # type OBVIOUS
      <4>1. j + 1 \in i + 1 .. n BY <2>2
      <4> QED BY <1>2, <2>1, <4>1
    <3> QED BY <3>1, <3>2 DEF LatestOf
  <2>3. CASE i # 1
    <3>1. i - 1 \in 1 .. n - 1 /\ (i - 1) + 1 = i BY <2>3
    <3>2. Tail(q)[i - 1] = q[i] BY <1>2, <3>1
    <3>3. \A j \in (i - 1) + 1 .. n - 1 : Tail(q)[j].type # type
      <4> SUFFICES ASSUME NEW j \in (i - 1) + 1 .. n - 1 PROVE Tail(q)[j].type # type OBVIOUS
      <4>1. j + 1 \in i + 1 .. n /\ j \in 1 .. n - 1 OBVIOUS
      <4> QED BY <1>2, <2>1, <4>1
    <3> QED BY <2>1, <3>1, <3>2, <3>3 DEF LatestOf
  <2> QED BY <2>2, <2>3
<1> QED BY <1>3, <1>4 DEF LatestOf

---------------------------------------------------------------------------
(* Whose a socket is *)

\* Socket c is session k's: its client's, the one it registered, or the one it has yet to.
Belongs(k, c) ==
  \/ client[k] = c \/ key[c] = k
  \/ \E m \in Elements(toBroker[c]) : m.type = "register" /\ m.key = k

SocketsHaveOneSession ==
  \A c \in Conns, k, l \in Keys : Belongs(k, c) /\ Belongs(l, c) => k = l
FreshAreUnused ==
  \A c \in fresh : toBroker[c] = <<>> /\ \A k \in Keys : ~Belongs(k, c)
SessionsAreRegistered == \A k \in Live : key[sessions[k].conn] = k
ClosedAreEmpty == \A c \in Conns : (\A k \in Keys : client[k] # c) => toClient[c] = <<>>

Sockets == SocketsHaveOneSession /\ FreshAreUnused /\ SessionsAreRegistered /\ ClosedAreEmpty

\* Session k begins to use socket c.
Begins(k, c) == c \in fresh /\ c \notin fresh' /\ client' = [client EXCEPT ![k] = c]

\* Where a message that waits at the broker comes from.
Sent(k, c, m) ==
  \/ client[k] = c /\ m.type \in {"capabilities", "publish"}
  \/ client[k] = c /\ m.type = "commit" /\ m.base = state[k]
  \/ Begins(k, c) /\ m.type = "register" /\ m.key = k

LEMMA SendsAdds ==
  ASSUME TypeOK, TypeOK', NEW k \in Keys, NEW n \in Requests, Sends(k, n), NEW c \in Conns,
         NEW m \in Elements(toBroker'[c])
  PROVE  m \in Elements(toBroker[c]) \/ (client[k] = c /\ m = n)
<1>1. toBroker[c] \in Seq(Requests) /\ toBroker \in [Conns -> Seq(Requests)]
  BY DEF TypeOK
<1>2. CASE client[k] = c
  <2>1. toBroker'[c] = Append(toBroker[c], n)
    BY <1>1, <1>2 DEF Sends
  <2> QED BY <1>1, <1>2, <2>1, AppendHas
<1>3. CASE client[k] # c
  BY <1>1, <1>3 DEF Sends
<1> QED BY <1>2, <1>3

LEMMA TakesLeaves ==
  ASSUME TypeOK, NEW d \in Conns, NEW type, Takes(d, type), NEW c \in Conns
  PROVE  Elements(toBroker'[c]) \subseteq Elements(toBroker[c])
<1>1. toBroker[c] \in Seq(Requests) /\ toBroker \in [Conns -> Seq(Requests)]
  BY DEF TypeOK
<1>2. CASE c = d
  <2>1. toBroker[c] # <<>> /\ toBroker'[c] = Tail(toBroker[c])
    BY <1>1, <1>2 DEF Takes
  <2> QED BY <1>1, <2>1, HeadAndTail
<1>3. CASE c # d
  BY <1>1, <1>3 DEF Takes
<1> QED BY <1>2, <1>3

LEMMA WaitingWasSent ==
  ASSUME TypeOK, TypeOK', [Next]_vars, NEW c \in Conns, NEW m \in Elements(toBroker'[c])
  PROVE  m \in Elements(toBroker[c]) \/ \E k \in Keys : Sent(k, c, m)
<1>1. ASSUME NEW d \in Conns, Handle(d) PROVE m \in Elements(toBroker[c])
  BY <1>1, TakesLeaves DEF Handle, Register, Capabilities, Commit, CommitFails, Publish
<1>2. ASSUME NEW d \in Conns, Close(d) PROVE m \in Elements(toBroker[c])
  BY <1>2, EmptyHas DEF Close, TypeOK
<1>3. ASSUME Die PROVE FALSE
  BY <1>3, EmptyHas DEF Die, Nothing
<1>4. ASSUME NEW k \in Keys, NEW d \in Conns, Connect(k, d)
      PROVE  m \in Elements(toBroker[c]) \/ Sent(k, c, m)
  <2>1. CASE c = d
    <3>1. toBroker'[c] = <<[type |-> "register", key |-> k, cap |-> cap[k]]>> /\ Begins(k, c)
      BY <1>4, <2>1 DEF Connect, TypeOK, Begins
    <3>2. m = [type |-> "register", key |-> k, cap |-> cap[k]]
      BY <3>1, OneHas
    <3> QED BY <3>1, <3>2 DEF Sent
  <2>2. CASE c # d
    BY <1>4, <2>2 DEF Connect, TypeOK
  <2> QED BY <2>1, <2>2
<1>5. ASSUME NEW k \in Keys, NEW kind \in Kinds[k], Extend(k, kind)
      PROVE  m \in Elements(toBroker[c]) \/ Sent(k, c, m)
  <2>1. kind \in Caps BY BusAssumption DEF Caps
  <2>2. [type |-> "capabilities", cap |-> kind] \in Requests BY <2>1 DEF Requests
  <2>3. CASE Sends(k, [type |-> "capabilities", cap |-> kind])
    BY <2>2, <2>3, SendsAdds DEF Sent
  <2>4. CASE UNCHANGED toBroker BY <2>4
  <2> QED BY <1>5, <2>3, <2>4 DEF Extend
<1>6. ASSUME NEW k \in Keys, Receive(k)
      PROVE  m \in Elements(toBroker[c]) \/ Sent(k, c, m)
  <2>1. Capability(k) \in Requests /\ Capability(k).type = "capabilities"
    BY DEF Capability, Requests, TypeOK
  <2>2. CASE Sends(k, Capability(k))
    BY <2>1, <2>2, SendsAdds DEF Sent
  <2>3. CASE UNCHANGED toBroker BY <2>3
  <2> QED BY <1>6, <2>2, <2>3 DEF Receive, Announce
<1>7. ASSUME NEW k \in Keys, NEW val \in Payloads[k], AskCommit(k, val)
      PROVE  m \in Elements(toBroker[c]) \/ Sent(k, c, m)
  <2> DEFINE n == [type |-> "commit", epoch |-> owner[k].epoch, base |-> state[k], val |-> val]
  <2>1. owner[k].epoch \in Nat /\ state[k] \in States /\ val \in Goods
    BY <1>7 DEF AskCommit, TypeOK, Views, Goods
  <2>2. n \in Requests /\ n.type = "commit" /\ n.base = state[k]
    BY <2>1 DEF Requests
  <2>3. Sends(k, n) BY <1>7 DEF AskCommit
  <2> HIDE DEF n
  <2> QED BY <2>2, <2>3, SendsAdds DEF Sent
<1>8. ASSUME NEW k \in Keys, NEW audience \in Audiences, NEW asOwner \in BOOLEAN,
             AskPublish(k, audience, asOwner)
      PROVE  m \in Elements(toBroker[c]) \/ Sent(k, c, m)
  <2> DEFINE e == IF asOwner THEN owner[k].epoch ELSE None
             n == [type |-> "publish", audience |-> audience, epoch |-> e]
  <2>1. e \in Nat \cup {None}
    BY <1>8 DEF AskPublish, TypeOK, Views
  <2>2. n \in Requests /\ n.type = "publish"
    <3> HIDE DEF e
    <3> QED BY <2>1 DEF Requests
  <2>3. Sends(k, n) BY <1>8 DEF AskPublish
  <2> HIDE DEF n
  <2> QED BY <2>2, <2>3, SendsAdds DEF Sent
<1>9. ASSUME (\E k \in Keys : Disconnect(k)) \/ UNCHANGED vars
      PROVE  m \in Elements(toBroker[c])
  BY <1>9 DEF Disconnect, vars, wire
<1> QED BY <1>1, <1>2, <1>3, <1>4, <1>5, <1>6, <1>7, <1>8, <1>9 DEF Next

\* What a step does to keys and clients.
LEMMA EndsStep ==
  ASSUME TypeOK, TypeOK', [Next]_vars
  PROVE  /\ \A c \in Conns : \/ key'[c] \in {key[c], None}
                             \/ \E m \in Elements(toBroker[c]) : m.type = "register" /\ key'[c] = m.key
         /\ \A k \in Keys : \/ client'[k] \in {client[k], None}
                            \/ client'[k] \in Conns /\ Begins(k, client'[k])
         /\ fresh' \subseteq fresh
<1> DEFINE P == /\ \A c \in Conns : \/ key'[c] \in {key[c], None}
                                    \/ \E m \in Elements(toBroker[c]) :
                                         m.type = "register" /\ key'[c] = m.key
                /\ \A k \in Keys : \/ client'[k] \in {client[k], None}
                                   \/ client'[k] \in Conns /\ Begins(k, client'[k])
                /\ fresh' \subseteq fresh
<1>1. ASSUME NEW d \in Conns, Register(d) PROVE P
  <2>1. toBroker[d] \in Seq(Requests) /\ toBroker[d] # <<>> BY <1>1 DEF Register, Takes, TypeOK
  <2>2. Head(toBroker[d]) \in Elements(toBroker[d]) BY <2>1, HeadAndTail
  <2>3. UNCHANGED <<client, fresh>> BY <1>1 DEF Register, Takes, ends
  <2>4. key' = [key EXCEPT ![d] = Head(toBroker[d]).key] /\ Head(toBroker[d]).type = "register"
    BY <1>1 DEF Register, Takes
  <2> QED BY <2>2, <2>3, <2>4 DEF TypeOK
<1>2. ASSUME NEW d \in Conns, Capabilities(d) \/ Commit(d) \/ CommitFails(d) \/ Publish(d) PROVE P
  BY <1>2 DEF Capabilities, Commit, CommitFails, Publish, Takes, broker, ends
<1>3. ASSUME NEW d \in Conns, Close(d) PROVE P
  BY <1>3 DEF Close, ends, TypeOK
<1>4. ASSUME Die PROVE P
  BY <1>4 DEF Die, ends
<1>5. ASSUME NEW k \in Keys, NEW c \in Conns, Connect(k, c) PROVE P
  <2>1. Begins(k, c) /\ client' = [client EXCEPT ![k] = c] /\ UNCHANGED key /\ fresh' \subseteq fresh
    BY <1>5 DEF Connect, broker, Begins
  <2> QED BY <2>1 DEF TypeOK
<1>6. ASSUME NEW k \in Keys, Disconnect(k) PROVE P
  BY <1>6 DEF Disconnect, broker, TypeOK
<1>7. ASSUME NEW k \in Keys, Receive(k) \/ (\E kind \in Kinds[k] : Extend(k, kind))
               \/ (\E val \in Payloads[k] : AskCommit(k, val))
               \/ \E audience \in Audiences, asOwner \in BOOLEAN : AskPublish(k, audience, asOwner)
      PROVE  P
  BY <1>7 DEF Receive, Extend, AskCommit, AskPublish, broker, ends
<1>8. ASSUME UNCHANGED vars PROVE P
  BY <1>8 DEF vars, broker, ends
<1> QED BY <1>1, <1>2, <1>3, <1>4, <1>5, <1>6, <1>7, <1>8 DEF Next, Handle

\* A socket comes to belong to a session only when that begins to use it.
LEMMA BelongsStep ==
  ASSUME TypeOK, TypeOK', [Next]_vars, NEW k \in Keys, NEW c \in Conns, Belongs(k, c)'
  PROVE  Belongs(k, c) \/ Begins(k, c)
<1>1. CASE client'[k] = c
  BY <1>1, EndsStep, BusAssumption DEF Belongs
<1>2. CASE key'[c] = k
  BY <1>2, EndsStep, BusAssumption DEF Belongs
<1>3. ASSUME NEW m \in Elements(toBroker'[c]), m.type = "register", m.key = k
      PROVE  Belongs(k, c) \/ Begins(k, c)
  <2>1. m \in Elements(toBroker[c]) \/ \E l \in Keys : Sent(l, c, m)
    BY WaitingWasSent
  <2> QED BY <1>3, <2>1 DEF Sent, Belongs
<1>4. Elements(toBroker[c])' = Elements(toBroker'[c])
  BY DEF Elements
<1> QED BY <1>1, <1>2, <1>3, <1>4 DEF Belongs

LEMMA SocketsInit == Init => Sockets
<1> SUFFICES ASSUME Init PROVE Sockets
  OBVIOUS
<1>1. \A c \in Conns : Elements(toBroker[c]) = {} /\ toBroker[c] = <<>> /\ toClient[c] = <<>>
  BY EmptyHas DEF Init, Nothing
<1>2. \A c \in Conns, k \in Keys : ~Belongs(k, c)
  BY <1>1, BusAssumption DEF Init, Belongs
<1> QED BY <1>1, <1>2
        DEF Init, Sockets, SocketsHaveOneSession, FreshAreUnused, SessionsAreRegistered, ClosedAreEmpty, Live

LEMMA OneSessionStep ==
  ASSUME TypeOK, TypeOK', Sockets, [Next]_vars
  PROVE  SocketsHaveOneSession' /\ FreshAreUnused'
<1>1. ASSUME NEW c \in Conns, NEW k \in Keys, NEW l \in Keys, Belongs(k, c)', Belongs(l, c)'
      PROVE  k = l
  <2>1. (Belongs(k, c) \/ Begins(k, c)) /\ (Belongs(l, c) \/ Begins(l, c))
    BY <1>1, BelongsStep
  <2>2. CASE Belongs(k, c) /\ Belongs(l, c)
    BY <2>2 DEF Sockets, SocketsHaveOneSession
  <2>3. CASE c \in fresh
    <3>1. ~Belongs(k, c) /\ ~Belongs(l, c)
      BY <2>3 DEF Sockets, FreshAreUnused
    <3>2. client' = [client EXCEPT ![k] = c] /\ client' = [client EXCEPT ![l] = c]
      BY <2>1, <3>1 DEF Begins
    <3>3. client[k] # c
      BY <3>1 DEF Belongs
    <3> QED BY <3>2, <3>3 DEF TypeOK
  <2> QED BY <2>1, <2>2, <2>3 DEF Begins
<1>2. ASSUME NEW c \in fresh' PROVE toBroker'[c] = <<>> /\ \A k \in Keys : ~Belongs(k, c)'
  <2>1. c \in fresh /\ c \in Conns
    BY EndsStep DEF TypeOK
  <2>2. toBroker[c] = <<>> /\ \A k \in Keys : ~Belongs(k, c)
    BY <2>1 DEF Sockets, FreshAreUnused
  <2>3. \A k \in Keys : ~Belongs(k, c)'
    BY <2>1, <2>2, BelongsStep DEF Begins
  <2>4. Elements(toBroker'[c]) = {}
    <3> SUFFICES ASSUME NEW m \in Elements(toBroker'[c]) PROVE FALSE
      OBVIOUS
    <3>1. m \in Elements(toBroker[c]) \/ \E k \in Keys : Sent(k, c, m)
      BY <2>1, WaitingWasSent
    <3> QED BY <2>2, <3>1, EmptyHas DEF Sent, Begins, Belongs
  <2>5. toBroker'[c] = <<>>
    <3>1. toBroker'[c] \in Seq(Requests) BY <2>1 DEF TypeOK
    <3>2. toBroker'[c] # <<>> => Head(toBroker'[c]) \in Elements(toBroker'[c])
      BY <3>1, HeadAndTail
    <3> QED BY <2>4, <3>2
  <2> QED BY <2>3, <2>5
<1> QED BY <1>1, <1>2 DEF SocketsHaveOneSession, FreshAreUnused

LEMMA RegisteredStep ==
  ASSUME TypeOK, TypeOK', Sockets, [Next]_vars
  PROVE  SessionsAreRegistered'
<1> USE DEF Sockets, SessionsAreRegistered
<1>1. ASSUME NEW c \in Conns, Register(c) PROVE SessionsAreRegistered'
  <2> DEFINE k == Head(toBroker[c]).key
             info == [conn |-> c, cap |-> Head(toBroker[c]).cap, order |-> Order(k)]
  <2>1. /\ key[c] = None /\ key' = [key EXCEPT ![c] = k] /\ sessions' = Put(sessions, k, info)
        /\ info.conn = c
    BY <1>1 DEF Register
  <2> HIDE DEF k, info
  <2> SUFFICES ASSUME NEW l \in Live' PROVE key'[sessions'[l].conn] = l
    OBVIOUS
  <2>2. CASE l = k
    BY <2>1, <2>2 DEF Put, TypeOK
  <2>3. CASE l # k
    <3>1. l \in Live /\ sessions'[l] = sessions[l]
      BY <2>1, <2>3 DEF Put, Live
    <3>2. key[sessions[l].conn] = l /\ l # None /\ sessions[l].conn \in Conns
      BY <3>1, BusAssumption DEF TypeOK, SessionsT
    <3> QED BY <2>1, <3>1, <3>2 DEF TypeOK
  <2> QED BY <2>2, <2>3
<1>2. ASSUME NEW c \in Conns, Capabilities(c) PROVE SessionsAreRegistered'
  <2>1. UNCHANGED key /\ sessions' = [sessions EXCEPT ![key[c]].cap = Head(toBroker[c]).cap]
    BY <1>2 DEF Capabilities
  <2>2. Live' = Live /\ \A l \in Live : sessions'[l].conn = sessions[l].conn
    BY <2>1 DEF Live, TypeOK, SessionsT
  <2> QED BY <2>1, <2>2
<1>3. ASSUME NEW c \in Conns, Close(c) PROVE SessionsAreRegistered'
  <2>1. /\ key' = [key EXCEPT ![c] = None]
        /\ sessions' = IF Owns(c) THEN Drop(sessions, {key[c]}) ELSE sessions
    BY <1>3 DEF Close
  <2> SUFFICES ASSUME NEW l \in Live' PROVE key'[sessions'[l].conn] = l
    OBVIOUS
  <2>2. /\ l \in Live /\ sessions'[l] = sessions[l] /\ ~(Owns(c) /\ l = key[c])
    BY <2>1 DEF Drop, Live
  <2>3. key[sessions[l].conn] = l /\ sessions[l].conn \in Conns
    BY <2>2 DEF TypeOK, SessionsT
  <2>4. sessions[l].conn # c
    BY <2>2, <2>3 DEF Owns
  <2> QED BY <2>1, <2>2, <2>3, <2>4 DEF TypeOK
<1>4. ASSUME Die PROVE SessionsAreRegistered'
  BY <1>4 DEF Die, Live
<1>5. ASSUME UNCHANGED <<key, sessions>> PROVE SessionsAreRegistered'
  BY <1>5 DEF Live
<1>6. ASSUME NEW c \in Conns, Commit(c) \/ CommitFails(c) \/ Publish(c)
      PROVE  UNCHANGED <<key, sessions>>
  BY <1>6 DEF Commit, CommitFails, Publish, broker
<1>7. ASSUME NEW k \in Keys,
             \/ \E c \in Conns : Connect(k, c)
             \/ \E kind \in Kinds[k] : Extend(k, kind)
             \/ Receive(k) \/ Disconnect(k)
             \/ \E val \in Payloads[k] : AskCommit(k, val)
             \/ \E audience \in Audiences, asOwner \in BOOLEAN : AskPublish(k, audience, asOwner)
      PROVE  UNCHANGED <<key, sessions>>
  BY <1>7 DEF Connect, Extend, Receive, Disconnect, AskCommit, AskPublish, broker
<1>8. UNCHANGED vars => UNCHANGED <<key, sessions>>
  BY DEF vars, broker
<1> QED BY <1>1, <1>2, <1>3, <1>4, <1>5, <1>6, <1>7, <1>8 DEF Next, Handle

\* What the steps write to the sessions: the broker to the clients there are, or nothing.
LEMMA ClientSteps ==
  ASSUME [Next]_vars
  PROVE  \/ /\ UNCHANGED client
            /\ \E first, then, last : Write(first, then, last)
         \/ UNCHANGED <<client, toClient>>
         \/ \E k \in Keys : Receive(k) \/ Disconnect(k) \/ \E c \in Conns : Connect(k, c)
<1>1. ASSUME NEW c \in Conns, Register(c) \/ Capabilities(c) \/ Commit(c) \/ Publish(c)
      PROVE  UNCHANGED client /\ \E first, then, last : Write(first, then, last)
  BY <1>1 DEF Register, Capabilities, Commit, Publish, Takes, ends
<1>2. ASSUME NEW c \in Conns, Close(c)
      PROVE  UNCHANGED client /\ \E first, then, last : Write(first, then, last)
  BY <1>2 DEF Close, ends
<1>3. ASSUME NEW c \in Conns, CommitFails(c) PROVE UNCHANGED <<client, toClient>>
  BY <1>3 DEF CommitFails, Takes, ends
<1>4. Die \/ UNCHANGED vars => UNCHANGED <<client, toClient>>
  BY DEF Die, vars, ends, wire
<1>5. ASSUME NEW k \in Keys,
             \/ \E kind \in Kinds[k] : Extend(k, kind)
             \/ \E val \in Payloads[k] : AskCommit(k, val)
             \/ \E audience \in Audiences, asOwner \in BOOLEAN : AskPublish(k, audience, asOwner)
      PROVE  UNCHANGED <<client, toClient>>
  BY <1>5 DEF Extend, AskCommit, AskPublish, ends
<1> QED BY <1>1, <1>2, <1>3, <1>4, <1>5 DEF Next, Handle

LEMMA ClosedStep ==
  ASSUME TypeOK, TypeOK', Sockets, [Next]_vars
  PROVE  ClosedAreEmpty'
<1> SUFFICES ASSUME NEW c \in Conns, \A k \in Keys : client'[k] # c PROVE toClient'[c] = <<>>
  BY DEF ClosedAreEmpty
<1>0. (\A k \in Keys : client[k] # c) => toClient[c] = <<>>
  BY DEF Sockets, ClosedAreEmpty
<1>1. CASE UNCHANGED client /\ \E first, then, last : Write(first, then, last)
  BY <1>1 DEF Write
<1>2. CASE UNCHANGED <<client, toClient>>
  BY <1>0, <1>2
<1>3. ASSUME NEW k \in Keys, Receive(k) PROVE toClient'[c] = <<>>
  <2>1. UNCHANGED client /\ client[k] # c
    BY <1>3 DEF Receive
  <2> QED BY <1>0, <1>3, <2>1 DEF Receive, TypeOK
<1>4. ASSUME NEW k \in Keys, Disconnect(k) PROVE toClient'[c] = <<>>
  BY <1>0, <1>4 DEF Disconnect, TypeOK
<1>5. ASSUME NEW k \in Keys, NEW d \in Conns, Connect(k, d) PROVE toClient'[c] = <<>>
  BY <1>0, <1>5, BusAssumption DEF Connect, TypeOK
<1> QED BY <1>1, <1>2, <1>3, <1>4, <1>5, ClientSteps

LEMMA SocketsStep == ASSUME TypeOK, TypeOK', Sockets, [Next]_vars PROVE Sockets'
BY OneSessionStep, RegisteredStep, ClosedStep DEF Sockets

---------------------------------------------------------------------------
(* What the broker writes to whom *)

\* Session k has the namespace, on socket c.
HasIt(k, c) == k \in Live /\ sessions[k].conn = c /\ sessions[k].cap # "none"

\* Session k was sent first f, then the news, then l: a welcome, or nothing when it does
\* not get the namespace.
Wrote(k, c, f, l) ==
  /\ toClient'[c] = toClient[c] \o f \o Notices(sessions')[c] \o l
  /\ \/ l = Welcome(sessions', Scope[k])
     \/ l = <<>> /\ (HasIt(k, c)' => HasIt(k, c))

\* The elections write the news, and greet the session that brings the namespace.
LEMMA ElectingWrites ==
  ASSUME TypeOK, TypeOK', Sockets, NEW d \in Conns, Register(d) \/ Capabilities(d) \/ Close(d),
         NEW k \in Keys, NEW c \in Conns, client[k] = c
  PROVE  /\ Elect(sessions') /\ UNCHANGED <<store, ends>>
         /\ \E f \in {<<>>, <<Registered>>} : \E l : Wrote(k, c, f, l)
<1> DEFINE Q == /\ Elect(sessions') /\ UNCHANGED <<store, ends>>
                /\ \E f \in {<<>>, <<Registered>>} : \E l : Wrote(k, c, f, l)
<1>0. Belongs(k, c)
  BY DEF Belongs
<1>1. ASSUME Register(d) PROVE Q
  <2> DEFINE m == Head(toBroker[d])
             info == [conn |-> d, cap |-> m.cap, order |-> Order(m.key)]
  <2>1. /\ sessions' = Put(sessions, m.key, info) /\ Elect(sessions') /\ UNCHANGED store
        /\ Write(On(d, <<Registered>>), Notices(sessions'),
                 IF m.cap = "none" THEN Nothing ELSE On(d, Welcome(sessions', Scope[m.key])))
        /\ Takes(d, "register")
    BY <1>1 DEF Register
  <2>2. m.key \in Keys /\ Belongs(m.key, d) /\ UNCHANGED ends
    <3>1. m.key \in Keys /\ m.type = "register"
      BY <2>1, TakesTyped, RequestsByType
    <3>2. toBroker[d] \in Seq(Requests) /\ toBroker[d] # <<>> BY <2>1 DEF Takes, TypeOK
    <3>3. m \in Elements(toBroker[d]) BY <3>2, HeadAndTail
    <3> QED BY <2>1, <3>1, <3>3 DEF Belongs, Takes
  <2>3. /\ m.cap = info.cap /\ info.conn = d
        /\ \A l \in Live' : (l = m.key /\ sessions'[l] = info) \/ (l \in Live /\ sessions'[l] = sessions[l])
    <3>1. m.cap = info.cap /\ info.conn = d OBVIOUS
    <3> HIDE DEF info, m
    <3>2. Live' = Live \cup {m.key} /\ sessions'[m.key] = info
      BY <2>1 DEF Put, Live
    <3>3. \A l \in Live : l # m.key => sessions'[l] = sessions[l]
      BY <2>1 DEF Put, Live
    <3> QED BY <3>1, <3>2, <3>3
  <2> HIDE DEF info
  <2>4. CASE c = d
    <3>1. m.key = k
      BY <1>0, <2>2, <2>4 DEF Sockets, SocketsHaveOneSession
    <3>2. CASE m.cap = "none"
      <4>1. toClient'[c] = toClient[c] \o <<Registered>> \o Notices(sessions')[c] \o <<>>
        BY <2>1, <2>4, <3>2 DEF Write, On, Nothing
      <4>2. sessions' = Put(sessions, k, info) /\ info.cap = "none"
        BY <2>1, <2>3, <3>1, <3>2
      <4>3. ~HasIt(k, c)'
        BY <4>2 DEF HasIt, Put
      <4>4. Wrote(k, c, <<Registered>>, <<>>) BY <4>1, <4>3 DEF Wrote
      <4> QED BY <2>1, <2>2, <4>4
    <3>3. CASE m.cap # "none"
      <4>1. toClient'[c] = toClient[c] \o <<Registered>> \o Notices(sessions')[c]
                            \o Welcome(sessions', Scope[k])
        BY <2>1, <2>4, <3>1, <3>3 DEF Write, On, Nothing
      <4> DEFINE w == Welcome(sessions', Scope[k])
      <4>2. toClient'[c] = toClient[c] \o <<Registered>> \o Notices(sessions')[c] \o w
        BY <4>1
      <4>3. w = Welcome(sessions', Scope[k]) OBVIOUS
      <4> HIDE DEF w
      <4>4. Wrote(k, c, <<Registered>>, w) BY <4>2, <4>3 DEF Wrote
      <4> QED BY <2>1, <2>2, <4>4
    <3> QED BY <3>2, <3>3
  <2>5. CASE c # d
    <3>1. toClient'[c] = toClient[c] \o <<>> \o Notices(sessions')[c] \o <<>>
      BY <2>1, <2>5 DEF Write, On, Nothing
    <3>2. HasIt(k, c)' => HasIt(k, c)
      BY <2>3, <2>5 DEF HasIt
    <3>3. Wrote(k, c, <<>>, <<>>) BY <3>1, <3>2 DEF Wrote
    <3> QED BY <2>1, <2>2, <3>3
  <2> QED BY <2>4, <2>5
<1>2. ASSUME Capabilities(d) PROVE Q
  <2>1. /\ sessions' = [sessions EXCEPT ![key[d]].cap = Head(toBroker[d]).cap]
        /\ Elect(sessions') /\ UNCHANGED store
        /\ Write(Nothing, Notices(sessions'), On(d, Welcome(sessions', Scope[key[d]])))
        /\ Takes(d, "capabilities") /\ Owns(d)
    BY <1>2 DEF Capabilities
  <2>2. key[d] \in Keys /\ Belongs(key[d], d) /\ sessions[key[d]].conn = d /\ UNCHANGED ends
    BY <2>1 DEF Owns, TypeOK, Belongs, Takes
  <2>3. CASE c = d
    <3>1. key[d] = k
      BY <1>0, <2>2, <2>3 DEF Sockets, SocketsHaveOneSession
    <3>2. toClient'[c] = toClient[c] \o <<>> \o Notices(sessions')[c] \o Welcome(sessions', Scope[k])
      BY <2>1, <2>3, <3>1 DEF Write, On, Nothing
    <3> DEFINE w == Welcome(sessions', Scope[k])
    <3>3. toClient'[c] = toClient[c] \o <<>> \o Notices(sessions')[c] \o w
      BY <3>2
    <3>4. w = Welcome(sessions', Scope[k]) OBVIOUS
    <3> HIDE DEF w
    <3>5. Wrote(k, c, <<>>, w) BY <3>3, <3>4 DEF Wrote
    <3> QED BY <2>1, <2>2, <3>5
  <2>4. CASE c # d
    <3>1. toClient'[c] = toClient[c] \o <<>> \o Notices(sessions')[c] \o <<>>
      BY <2>1, <2>4 DEF Write, On, Nothing
    <3>2. HasIt(k, c)' => HasIt(k, c)
      <4>1. sessions \in [Live -> SessionsT] /\ Live' = Live BY <2>1 DEF TypeOK, Live
      <4>2. k = key[d] => sessions'[k].conn = sessions[k].conn BY <2>1, <4>1 DEF Owns, SessionsT
      <4>3. k # key[d] => sessions'[k] = sessions[k] BY <2>1, <4>1
      <4> QED BY <2>2, <2>4, <4>1, <4>2, <4>3 DEF HasIt
    <3>3. Wrote(k, c, <<>>, <<>>) BY <3>1, <3>2 DEF Wrote
    <3> QED BY <2>1, <2>2, <3>3
  <2> QED BY <2>3, <2>4
<1>3. ASSUME Close(d) PROVE Q
  <2>1. /\ sessions' = IF Owns(d) THEN Drop(sessions, {key[d]}) ELSE sessions
        /\ Elect(sessions') /\ UNCHANGED <<store, ends>>
        /\ Write(Nothing, Notices(sessions'), Nothing)
    BY <1>3 DEF Close
  <2>2. toClient'[c] = toClient[c] \o <<>> \o Notices(sessions')[c] \o <<>>
    BY <2>1 DEF Write, Nothing
  <2>3. HasIt(k, c)' => HasIt(k, c)
    BY <2>1 DEF HasIt, Drop, Live
  <2>4. Wrote(k, c, <<>>, <<>>) BY <2>2, <2>3 DEF Wrote
  <2> QED BY <2>1, <2>4
<1> QED BY <1>1, <1>2, <1>3

\* The one session on a socket reads the news of its own scope there.
LEMMA NoticeFor ==
  ASSUME TypeOK', SessionsAreRegistered', NEW k \in Keys, NEW c \in Conns, HasIt(k, c)'
  PROVE  Notices(sessions')[c] = IF Elected(sessions', Scope[k]) # owners[Scope[k]]
                                 THEN <<OwnerFrame(Elected(sessions', Scope[k]))>> ELSE <<>>
<1>1. Scope[k] \in Scopes /\ HasSpace(sessions', c, Scope[k])
  BY DEF Scopes, HasSpace, HasIt, Live
<1>2. \A s : HasSpace(sessions', c, s) => s = Scope[k]
  BY DEF SessionsAreRegistered, HasIt, HasSpace, Live
<1>3. (CHOOSE s \in Scopes : HasSpace(sessions', c, s)) = Scope[k]
  BY <1>1, <1>2
<1>4. (\E s \in Scopes : HasSpace(sessions', c, s) /\ Elected(sessions', s) # owners[s])
        <=> Elected(sessions', Scope[k]) # owners[Scope[k]]
  BY <1>1, <1>2
<1>5. Notices(sessions')[c] =
        IF \E s \in Scopes : HasSpace(sessions', c, s) /\ Elected(sessions', s) # owners[s]
        THEN <<OwnerFrame(Elected(sessions', CHOOSE s \in Scopes : HasSpace(sessions', c, s)))>>
        ELSE <<>>
  BY DEF Notices
<1> QED BY <1>3, <1>4, <1>5

\* The news are about owners.
LEMMA NoticesAreOfOwners ==
  ASSUME NEW sess, NEW c \in Conns, NEW m \in Elements(Notices(sess)[c])
  PROVE  m.type = "owner"
<1>1. \A o : OwnerFrame(o).type = "owner"
  BY DEF OwnerFrame
<1>2. Notices(sess)[c] = <<>> \/ \E o : Notices(sess)[c] = <<OwnerFrame(o)>>
  BY DEF Notices
<1>3. CASE Notices(sess)[c] = <<>>
  BY <1>3, EmptyHas
<1>4. ASSUME NEW o, Notices(sess)[c] = <<OwnerFrame(o)>> PROVE m.type = "owner"
  <2>1. m = OwnerFrame(o) BY <1>4, OneHas
  <2> QED BY <1>1, <2>1
<1> QED BY <1>2, <1>3, <1>4

LEMMA CommitWrites ==
  ASSUME TypeOK, TypeOK', Sockets, NEW d \in Conns, Commit(d),
         NEW k \in Keys, NEW c \in Conns, client[k] = c
  PROVE  /\ UNCHANGED <<sessions, owners, ends>>
         /\ \/ /\ toClient'[c] = toClient[c] \o <<>> \o <<StateFrame(store'[Scope[k]])>> \o <<>>
            \/ /\ toClient'[c] = toClient[c] \o <<>> \o <<>> \o <<>>
               /\ HasIt(k, c) => store'[Scope[k]] = store[Scope[k]]
<1> DEFINE s == Scope[key[d]]
<1>1. /\ Write(Nothing, ToMembers(sessions, s, StateFrame(store'[s])), Nothing)
      /\ UNCHANGED <<sessions, owners, ends>>
      /\ store' = [store EXCEPT ![s] = [rev |-> @.rev + 1, val |-> Head(toBroker[d]).val]]
  BY DEF Commit, Takes
<1> HIDE DEF s
<1>2. CASE HasSpace(sessions, c, s)
  <2>1. toClient'[c] = toClient[c] \o <<>> \o <<StateFrame(store'[s])>> \o <<>>
    BY <1>1, <1>2 DEF Write, ToMembers, Nothing
  <2>2. PICK l \in Live : sessions[l].conn = c /\ Scope[l] = s
    BY <1>2 DEF HasSpace, Live
  <2>3. l \in Keys /\ Belongs(l, c) /\ Belongs(k, c)
    BY <2>2 DEF Sockets, SessionsAreRegistered, Belongs, TypeOK
  <2>4. l = k
    BY <2>3 DEF Sockets, SocketsHaveOneSession
  <2> QED BY <1>1, <2>1, <2>2, <2>4
<1>3. CASE ~HasSpace(sessions, c, s)
  <2>1. toClient'[c] = toClient[c] \o <<>> \o <<>> \o <<>>
    BY <1>1, <1>3 DEF Write, ToMembers, Nothing
  <2>2. HasIt(k, c) => Scope[k] # s
    BY <1>3 DEF HasIt, HasSpace, Live
  <2>3. Scope[k] # s => store'[Scope[k]] = store[Scope[k]]
    BY <1>1 DEF TypeOK, Scopes
  <2> QED BY <1>1, <2>1, <2>2, <2>3
<1> QED BY <1>2, <1>3

LEMMA PublishWrites ==
  ASSUME TypeOK, TypeOK', Sockets, OwnersElected, NEW d \in Conns, Publish(d),
         NEW k \in Keys, NEW c \in Conns, client[k] = c
  PROVE  /\ UNCHANGED <<sessions, owners, store, ends>>
         /\ \/ /\ toClient'[c] = toClient[c] \o <<>> \o <<Event(owners[Scope[k]])>> \o <<>>
               /\ HasIt(k, c)
            \/ toClient'[c] = toClient[c] \o <<>> \o <<>> \o <<>>
<1> DEFINE m == Head(toBroker[d])
           s == Scope[key[d]]
           allowed == /\ Owns(d) /\ sessions[key[d]].cap # "none"
                      /\ m.epoch # None => IsOwner(d, m.epoch)
                      /\ m.audience = "owner" => owners[s] # None
           to == IF m.audience = "capable" THEN ToMembers(sessions, s, Event(owners[s]))
                 ELSE On(owners[s].conn, <<Event(owners[s])>>)
<1>1. /\ Write(Nothing, IF allowed THEN to ELSE Nothing, Nothing)
      /\ UNCHANGED <<sessions, owners, store, ends>> /\ Takes(d, "publish")
  BY DEF Publish, Takes, broker
<1>2. toClient'[c] = toClient[c] \o <<>> \o (IF allowed THEN to ELSE Nothing)[c] \o <<>>
  <2> HIDE DEF allowed, to
  <2> QED BY <1>1 DEF Write, Nothing
<1>3. ASSUME NEW l \in Live, sessions[l].conn = c PROVE l = k
  <2>1. l \in Keys /\ Belongs(l, c) /\ Belongs(k, c)
    BY <1>3 DEF Sockets, SessionsAreRegistered, Belongs, TypeOK
  <2> QED BY <2>1 DEF Sockets, SocketsHaveOneSession
<1>4. CASE allowed /\ to[c] # <<>>
  <2>1. CASE m.audience = "capable"
    <3>1. HasSpace(sessions, c, s) /\ to[c] = <<Event(owners[s])>>
      BY <1>4, <2>1 DEF ToMembers
    <3>2. PICK l \in Live : sessions[l].conn = c /\ sessions[l].cap # "none" /\ Scope[l] = s
      BY <3>1 DEF HasSpace, Live
    <3>3. HasIt(k, c) /\ s = Scope[k]
      BY <1>3, <3>2 DEF HasIt
    <3> QED BY <1>1, <1>2, <1>4, <3>1, <3>3
  <2>2. CASE m.audience # "capable"
    <3>1. m.audience = "owner"
      <4>1. m \in Requests /\ m.type = "publish" BY <1>1, TakesTyped
      <4>2. m.audience \in Audiences BY <4>1 DEF Requests
      <4> QED BY <2>2, <4>2, BusAssumption
    <3>2. s \in Scopes /\ owners[s] # None
      BY <1>4, <3>1 DEF Owns, TypeOK, Scopes
    <3>3. /\ owners[s].key \in Candidates(sessions, s)
          /\ owners[s].conn = sessions[owners[s].key].conn
      BY <3>2 DEF OwnersElected
    <3>4. owners[s].conn = c /\ to[c] = <<Event(owners[s])>>
      <4>1. to = On(owners[s].conn, <<Event(owners[s])>>) BY <2>2
      <4> HIDE DEF to
      <4> QED BY <1>4, <4>1 DEF On, Nothing
    <3>5. HasIt(k, c) /\ s = Scope[k]
      BY <1>3, <3>3, <3>4 DEF HasIt, Candidates, Live
    <3> QED BY <1>1, <1>2, <1>4, <3>4, <3>5
  <2> QED BY <2>1, <2>2
<1>5. CASE ~allowed
  BY <1>1, <1>2, <1>5 DEF Nothing
<1>6. CASE allowed /\ to[c] = <<>>
  <2> HIDE DEF allowed, to
  <2> QED BY <1>1, <1>2, <1>6
<1> QED BY <1>4, <1>5, <1>6

---------------------------------------------------------------------------
(* What a session reads last *)

\* What is read last of the frames p and then w.
LEMMA LatestConcat ==
  ASSUME NEW T, NEW p \in Seq(T), NEW w \in Seq(T), NEW type, NEW x, NEW u, NEW v,
         LatestOf(p, Len(p), type, x, u), LatestOf(w, Len(w), type, u, v)
  PROVE  LatestOf(p \o w, Len(p \o w), type, x, v)
<1> DEFINE r == p \o w
           n == Len(p)
<1>1. /\ Len(r) = n + Len(w) /\ n \in Nat /\ Len(w) \in Nat
      /\ \A i \in 1 .. n : r[i] = p[i]
      /\ \A i \in 1 .. Len(w) : r[n + i] = w[i]
  BY ConcatHas
<1>2. \A i \in n + 1 .. Len(r) : i - n \in 1 .. Len(w) /\ r[i] = w[i - n]
  <2> SUFFICES ASSUME NEW i \in n + 1 .. Len(r) PROVE i - n \in 1 .. Len(w) /\ r[i] = w[i - n]
    OBVIOUS
  <2> HIDE DEF r, n
  <2>1. PICK j \in 1 .. Len(w) : j = i - n BY <1>1
  <2>2. r[n + j] = w[j] /\ n + j = i BY <1>1, <2>1
  <2> QED BY <2>1, <2>2
<1> HIDE DEF r, n
<1>0. LatestOf(p, n, type, x, u)
  BY DEF n
<1>3. CASE v = u /\ \A i \in 1 .. Len(w) : w[i].type # type
  <2>1. \A i \in n + 1 .. Len(r) : r[i].type # type BY <1>2, <1>3
  <2>2. Len(r) \in Nat /\ n <= Len(r) BY <1>1
  <2>3. LatestOf(r, Len(r), type, x, u)
    BY <1>0, <1>1, <2>1, <2>2, LatestExtends
  <2> QED BY <1>3, <2>3 DEF r
<1>4. CASE \E i \in 1 .. Len(w) : /\ w[i].type = type /\ w[i][type] = v
                                  /\ \A j \in i + 1 .. Len(w) : w[j].type # type
  <2>1. PICK i \in 1 .. Len(w) : /\ w[i].type = type /\ w[i][type] = v
                                 /\ \A j \in i + 1 .. Len(w) : w[j].type # type
    BY <1>4
  <2>2. n + i \in 1 .. Len(r) /\ r[n + i] = w[i] /\ Len(r) \in Nat
    <3>1. r[n + i] = w[i] BY <1>1
    <3>2. n + i \in 1 .. Len(r) /\ Len(r) \in Nat BY <1>1
    <3> QED BY <3>1, <3>2
  <2>3. ASSUME NEW j \in n + i + 1 .. Len(r) PROVE r[j].type # type
    <3>1. j \in n + 1 .. Len(r) /\ j - n \in i + 1 .. Len(w) BY <1>1
    <3>2. r[j] = w[j - n] BY <1>2, <3>1
    <3> QED BY <2>1, <3>1, <3>2
  <2>4. LatestOf(r, Len(r), type, x, r[n + i][type])
    BY <2>1, <2>2, <2>3, LatestIsLast
  <2> QED BY <2>1, <2>2, <2>4 DEF r
<1> QED BY <1>3, <1>4 DEF LatestOf

\* Frames of other types change nothing, the last of its type counts.
LEMMA LatestOfNone ==
  ASSUME NEW T, NEW w \in Seq(T), NEW type, NEW x, \A m \in Elements(w) : m.type # type
  PROVE  LatestOf(w, Len(w), type, x, x)
BY DEF LatestOf, Elements

LEMMA LatestOfOne ==
  ASSUME NEW m, NEW x
  PROVE  LatestOf(<<m>>, Len(<<m>>), m.type, x, m[m.type])
<1> DEFINE w == <<m>>
<1>1. Len(w) = 1 /\ w[1] = m
  OBVIOUS
<1> HIDE DEF w
<1>2. \A j \in 1 + 1 .. Len(w) : w[j].type # m.type
  BY <1>1
<1>3. 1 \in 1 .. Len(w) /\ w[1].type = m.type /\ w[1][m.type] = m[m.type]
  BY <1>1
<1>4. LatestOf(w, Len(w), m.type, x, m[m.type])
  BY <1>2, <1>3 DEF LatestOf
<1> QED BY <1>4 DEF w

\* Something is read last: what the session had, or what a frame says.
LEMMA LatestExists ==
  ASSUME NEW T, NEW q \in Seq(T), NEW type, NEW x
  PROVE  \E v : /\ LatestOf(q, Len(q), type, x, v)
                /\ v = x \/ \E m \in Elements(q) : m.type = type /\ m[type] = v
<1> DEFINE at == {i \in 1 .. Len(q) : q[i].type = type}
<1>1. Len(q) \in Nat
  BY LenProperties
<1>2. CASE at = {}
  BY <1>2 DEF LatestOf
<1>3. CASE at # {}
  <2>1. at \subseteq 0 .. Len(q) BY <1>1
  <2> HIDE DEF at
  <2>2. PICK i \in at : \A j \in at : j <= i
    BY <1>1, <1>3, <2>1, MaxExists
  <2>3. i \in 1 .. Len(q) /\ q[i].type = type BY DEF at
  <2>4. ASSUME NEW j \in i + 1 .. Len(q) PROVE q[j].type # type
    <3>1. j \in 1 .. Len(q) /\ ~(j <= i) BY <1>1, <2>3
    <3> QED BY <2>2, <3>1 DEF at
  <2>5. LatestOf(q, Len(q), type, x, q[i][type])
    BY <2>3, <2>4 DEF LatestOf
  <2>6. q[i] \in Elements(q) BY <2>3 DEF Elements
  <2> QED BY <2>3, <2>5, <2>6
<1> QED BY <1>2, <1>3

\* The frames of three writes in a row, behind those that wait.
Behind(q, w)      == q \o w
Joined(f, g, l)   == f \o g \o l
After(q, f, g, l) == q \o f \o g \o l

LEMMA BehindHas ==
  ASSUME NEW T, NEW q \in Seq(T), NEW w \in Seq(T)
  PROVE  Behind(q, w) \in Seq(T) /\ Elements(Behind(q, w)) = Elements(q) \cup Elements(w)
BY ConcatHas DEF Behind

LEMMA BehindTwice ==
  ASSUME NEW T, NEW q \in Seq(T), NEW w \in Seq(T), NEW l \in Seq(T)
  PROVE  Behind(Behind(q, w), l) = Behind(q, Behind(w, l))
<1>1. (q \o w) \o l = q \o (w \o l)
  BY ConcatAssociative
<1> QED BY <1>1 DEF Behind

LEMMA ThreeHave ==
  ASSUME NEW T, NEW q \in Seq(T), NEW f \in Seq(T), NEW g \in Seq(T), NEW l \in Seq(T)
  PROVE  /\ Joined(f, g, l) \in Seq(T)
         /\ Elements(Joined(f, g, l)) = Elements(f) \cup Elements(g) \cup Elements(l)
         /\ After(q, f, g, l) = Behind(q, Joined(f, g, l))
<1>1. /\ Joined(f, g, l) = Behind(Behind(f, g), l)
      /\ After(q, f, g, l) = Behind(Behind(Behind(q, f), g), l)
  BY DEF Joined, After, Behind
<1>2. Behind(f, g) \in Seq(T) /\ Elements(Behind(f, g)) = Elements(f) \cup Elements(g)
  BY BehindHas
<1>3. /\ Behind(Behind(f, g), l) \in Seq(T)
      /\ Elements(Behind(Behind(f, g), l)) = Elements(Behind(f, g)) \cup Elements(l)
  BY <1>2, BehindHas
<1>4. Behind(Behind(q, f), g) = Behind(q, Behind(f, g))
  BY BehindTwice
<1>5. Behind(Behind(q, Behind(f, g)), l) = Behind(q, Behind(Behind(f, g), l))
  BY <1>2, BehindTwice
<1> QED BY <1>1, <1>2, <1>3, <1>4, <1>5

LEMMA ThreeRead ==
  ASSUME NEW T, NEW f \in Seq(T), NEW g \in Seq(T), NEW l \in Seq(T), NEW type,
         NEW x, NEW u, NEW v, LatestOf(f, Len(f), type, x, x), LatestOf(g, Len(g), type, x, u),
         LatestOf(l, Len(l), type, u, v)
  PROVE  LatestOf(Joined(f, g, l), Len(Joined(f, g, l)), type, x, v)
<1> DEFINE h == f \o g
<1>1. LatestOf(h, Len(h), type, x, u) BY LatestConcat
<1>2. h \in Seq(T) BY ConcatHas
<1> HIDE DEF h
<1>3. LatestOf(h \o l, Len(h \o l), type, x, v) BY <1>1, <1>2, LatestConcat
<1> QED BY <1>3 DEF h, Joined

---------------------------------------------------------------------------
(* What a step tells a session *)

\* x is what a shared state that is now y is or was.
IsPast(x, y) == x.rev =< y.rev /\ (x.rev = y.rev => x = y)

\* The frames w tell session k, on socket c, only what is so; and they leave it with the
\* owner and the state there are, if it knew those there were or if w welcomes it.
News(k, c, w) ==
  /\ \A m \in Elements(w) : m.type = "state" => m.state = store'[Scope[k]]
  /\ \A m \in Elements(w) : m.type = "message" =>
       w = <<m>> /\ HasIt(k, c) /\ m.owner = Known(owners[Scope[k]])
  /\ HasIt(k, c)' =>
       \/ \A x : LatestOf(w, Len(w), "owner", x, Known(owners'[Scope[k]]))
       \/ /\ HasIt(k, c)
          /\ LatestOf(w, Len(w), "owner", Known(owners[Scope[k]]), Known(owners'[Scope[k]]))
  /\ HasIt(k, c)' =>
       \/ /\ UNCHANGED store
          /\ \A x \in States : IsPast(x, store[Scope[k]]) => LatestOf(w, Len(w), "state", x, store[Scope[k]])
       \/ /\ HasIt(k, c)
          /\ LatestOf(w, Len(w), "state", store[Scope[k]], store'[Scope[k]])

Tells(k, c) == \E w \in Seq(Frames) : toClient'[c] = toClient[c] \o w /\ News(k, c, w)

LEMMA WelcomeTells ==
  ASSUME TypeOK, NEW sess, DOMAIN sess \subseteq Keys, sess \in [DOMAIN sess -> SessionsT],
         NEW s \in Scopes
  PROVE  /\ \A m \in Elements(Welcome(sess, s)) :
              m.type = "owner" \/ (m.type = "state" /\ m.state = store[s])
         /\ \A x : LatestOf(Welcome(sess, s), Len(Welcome(sess, s)), "owner", x, Known(Elected(sess, s)))
         /\ \A x \in States : IsPast(x, store[s]) =>
              LatestOf(Welcome(sess, s), Len(Welcome(sess, s)), "state", x, store[s])
<1> DEFINE o == OwnerFrame(Elected(sess, s))
           p == <<o>>
           r == IF store[s] = Blank THEN <<>> ELSE <<StateFrame(store[s])>>
<1>1. o \in Frames /\ o.type = "owner" /\ o.owner = Known(Elected(sess, s))
  BY ElectedTyped, FramesTyped DEF OwnerFrame
<1>2. StateFrame(store[s]) \in Frames /\ StateFrame(store[s]).type = "state"
      /\ StateFrame(store[s]).state = store[s]
  BY FramesTyped DEF StateFrame, TypeOK
<1>3. Welcome(sess, s) = p \o r
  BY DEF Welcome
<1>4. p \in Seq(Frames) /\ r \in Seq(Frames)
  BY <1>1, <1>2, Singleton, EmptySeq
<1>5. Elements(p) = {o}
  BY OneHas
<1>6. \A m \in Elements(r) : m.type = "state" /\ m.state = store[s]
  BY <1>2, EmptyHas, OneHas
<1>7. \A x : LatestOf(p, Len(p), "owner", x, Known(Elected(sess, s)))
  <2> HIDE DEF o
  <2> QED BY <1>1, LatestOfOne
<1>8. \A x : LatestOf(p, Len(p), "state", x, x)
  BY <1>1, <1>4, <1>5, LatestOfNone
<1>9. \A x : LatestOf(r, Len(r), "owner", x, x)
  BY <1>4, <1>6, LatestOfNone
<1>10. ASSUME NEW x \in States, IsPast(x, store[s]) PROVE LatestOf(r, Len(r), "state", x, store[s])
  <2>1. CASE store[s] = Blank
    <3>1. x.rev = store[s].rev /\ r = <<>>
      BY <1>10, <2>1 DEF IsPast, States, Blank
    <3>2. x = store[s] BY <1>10, <3>1 DEF IsPast
    <3>3. LatestOf(r, Len(r), "state", x, x) BY <1>4, <3>1, EmptyHas, LatestOfNone
    <3> QED BY <3>2, <3>3
  <2>2. CASE store[s] # Blank
    <3> DEFINE m == StateFrame(store[s])
    <3>1. r = <<m>> BY <2>2
    <3>2. m.type = "state" /\ m["state"] = store[s] BY <1>2
    <3> HIDE DEF m, r
    <3> QED BY <3>1, <3>2, LatestOfOne
  <2> QED BY <2>1, <2>2
<1> HIDE DEF p, r
<1>11. Elements(p \o r) = Elements(p) \cup Elements(r)
  BY <1>4, ConcatHas
<1>12. \A x : LatestOf(p \o r, Len(p \o r), "owner", x, Known(Elected(sess, s)))
  BY <1>4, <1>7, <1>9, LatestConcat
<1>13. \A x \in States : IsPast(x, store[s]) => LatestOf(p \o r, Len(p \o r), "state", x, store[s])
  BY <1>4, <1>8, <1>10, LatestConcat
<1> QED BY <1>1, <1>3, <1>5, <1>6, <1>11, <1>12, <1>13

\* What an election tells a session that has the namespace is the change, if there is one.
LEMMA NoticeTells ==
  ASSUME TypeOK, TypeOK', SessionsAreRegistered', Elect(sessions'),
         NEW k \in Keys, NEW c \in Conns, HasIt(k, c)'
  PROVE  LatestOf(Notices(sessions')[c], Len(Notices(sessions')[c]), "owner",
                  Known(owners[Scope[k]]), Known(owners'[Scope[k]]))
<1> DEFINE o == OwnerFrame(Elected(sessions', Scope[k]))
<1>1. owners'[Scope[k]] = Elected(sessions', Scope[k])
  BY DEF Elect, Scopes
<1>2. Notices(sessions')[c] = IF Elected(sessions', Scope[k]) # owners[Scope[k]] THEN <<o>> ELSE <<>>
  BY NoticeFor
<1>3. o.type = "owner" /\ o["owner"] = Known(owners'[Scope[k]])
  BY <1>1 DEF OwnerFrame
<1> HIDE DEF o
<1>4. CASE Elected(sessions', Scope[k]) # owners[Scope[k]]
  <2>1. Notices(sessions')[c] = <<o>> BY <1>2, <1>4
  <2> QED BY <1>3, <2>1, LatestOfOne
<1>5. CASE Elected(sessions', Scope[k]) = owners[Scope[k]]
  <2>1. Notices(sessions')[c] = <<>> /\ Known(owners'[Scope[k]]) = Known(owners[Scope[k]])
    BY <1>1, <1>2, <1>5
  <2>2. <<>> \in Seq(Frames) /\ Elements(<<>>) = {} BY EmptySeq, EmptyHas
  <2>3. LatestOf(<<>>, Len(<<>>), "owner", Known(owners[Scope[k]]), Known(owners[Scope[k]]))
    BY <2>2, LatestOfNone
  <2> QED BY <2>1, <2>3
<1> QED BY <1>4, <1>5

LEMMA ElectingTells ==
  ASSUME TypeOK, TypeOK', Sockets, Sockets',
         NEW d \in Conns, Register(d) \/ Capabilities(d) \/ Close(d),
         NEW k \in Keys, NEW c \in Conns, client[k] = c
  PROVE  Tells(k, c)
<1> DEFINE g == Notices(sessions')[c]
           o == Known(owners[Scope[k]])
           n == Known(owners'[Scope[k]])
<1>1. /\ Elect(sessions') /\ UNCHANGED <<store, ends>>
      /\ \E f \in {<<>>, <<Registered>>} : \E l : Wrote(k, c, f, l)
  BY ElectingWrites
<1>2. PICK f : f \in {<<>>, <<Registered>>} /\ \E l : Wrote(k, c, f, l)
  BY <1>1
<1>3. PICK l : Wrote(k, c, f, l)
  BY <1>2
<1>4. Scope[k] \in Scopes /\ owners'[Scope[k]] = Elected(sessions', Scope[k])
  BY <1>1 DEF Scopes, Elect
<1>5. DOMAIN sessions' \subseteq Keys /\ sessions' \in [DOMAIN sessions' -> SessionsT]
  BY DEF TypeOK, Live
<1>6. /\ f \in Seq(Frames) /\ g \in Seq(Frames) /\ l \in Seq(Frames)
      /\ toClient[c] \in Seq(Frames)
  <2>1. f \in Seq(Frames) BY <1>2, FramesTyped, Singleton, EmptySeq
  <2>2. g \in Seq(Frames) BY <1>5, NoticesTyped
  <2>3. l \in Seq(Frames) BY <1>3, <1>4, <1>5, WelcomeTyped, EmptySeq DEF Wrote
  <2> QED BY <2>1, <2>2, <2>3 DEF TypeOK
<1>7. \A m \in Elements(f) : m.type = "registered"
  BY <1>2, EmptyHas, OneHas DEF Registered
<1>8. \A m \in Elements(g) : m.type = "owner"
  BY NoticesAreOfOwners
<1>9. /\ toClient'[c] = After(toClient[c], f, g, l)
      /\ l = Welcome(sessions', Scope[k]) \/ (l = <<>> /\ (HasIt(k, c)' => HasIt(k, c)))
  BY <1>3 DEF Wrote, After
<1>10. \A m \in Elements(l) : m.type = "owner" \/ (m.type = "state" /\ m.state = store[Scope[k]])
  BY <1>4, <1>5, <1>9, WelcomeTells, EmptyHas
<1>11. /\ \A x : LatestOf(f, Len(f), "owner", x, x)
       /\ \A x : LatestOf(f, Len(f), "state", x, x) /\ LatestOf(g, Len(g), "state", x, x)
  BY <1>6, <1>7, <1>8, LatestOfNone
<1>12. \A x : \E u : LatestOf(g, Len(g), "owner", x, u)
  BY <1>6, LatestExists
<1>13. HasIt(k, c)' => LatestOf(g, Len(g), "owner", o, n)
  BY <1>1, NoticeTells DEF Sockets
<1>14. \/ /\ \A x : LatestOf(l, Len(l), "owner", x, n)
          /\ \A x \in States : IsPast(x, store[Scope[k]]) => LatestOf(l, Len(l), "state", x, store[Scope[k]])
       \/ /\ \A x : LatestOf(l, Len(l), "owner", x, x) /\ LatestOf(l, Len(l), "state", x, x)
          /\ HasIt(k, c)' => HasIt(k, c)
  <2>1. CASE l = Welcome(sessions', Scope[k])
    BY <1>4, <1>5, <2>1, WelcomeTells
  <2>2. CASE l = <<>> /\ (HasIt(k, c)' => HasIt(k, c))
    BY <1>6, <2>2, EmptyHas, LatestOfNone
  <2> QED BY <1>9, <2>1, <2>2
<1> HIDE DEF g, o, n
<1>15. /\ Joined(f, g, l) \in Seq(Frames)
       /\ toClient'[c] = toClient[c] \o Joined(f, g, l)
       /\ Elements(Joined(f, g, l)) = Elements(f) \cup Elements(g) \cup Elements(l)
  <2>1. /\ Joined(f, g, l) \in Seq(Frames)
        /\ Elements(Joined(f, g, l)) = Elements(f) \cup Elements(g) \cup Elements(l)
    BY <1>6, ThreeHave
  <2>2. After(toClient[c], f, g, l) = Behind(toClient[c], Joined(f, g, l))
    BY <1>6, ThreeHave
  <2> QED BY <1>9, <2>1, <2>2 DEF Behind
<1>16. \A x, u, v, type : LatestOf(f, Len(f), type, x, x) /\ LatestOf(g, Len(g), type, x, u)
                            /\ LatestOf(l, Len(l), type, u, v)
                          => LatestOf(Joined(f, g, l), Len(Joined(f, g, l)), type, x, v)
  BY <1>6, ThreeRead
<1> DEFINE w == Joined(f, g, l)
<1>17. \A m \in Elements(w) : m.type # "message" /\ (m.type = "state" => m.state = store'[Scope[k]])
  BY <1>1, <1>7, <1>8, <1>10, <1>15
<1>18. ASSUME HasIt(k, c)'
       PROVE  \/ \A x : LatestOf(w, Len(w), "owner", x, n)
              \/ HasIt(k, c) /\ LatestOf(w, Len(w), "owner", o, n)
  <2> HIDE DEF w
  <2>1. CASE \A x : LatestOf(l, Len(l), "owner", x, n)
    BY <1>11, <1>12, <1>16, <2>1 DEF w
  <2>2. CASE /\ \A x : LatestOf(l, Len(l), "owner", x, x)
             /\ HasIt(k, c)' => HasIt(k, c)
    BY <1>11, <1>13, <1>16, <1>18, <2>2 DEF w
  <2> QED BY <1>14, <2>1, <2>2
<1>19. ASSUME HasIt(k, c)'
       PROVE  \/ \A x \in States : IsPast(x, store[Scope[k]]) => LatestOf(w, Len(w), "state", x, store[Scope[k]])
              \/ HasIt(k, c) /\ LatestOf(w, Len(w), "state", store[Scope[k]], store[Scope[k]])
  <2> HIDE DEF w
  <2>1. CASE \A x \in States : IsPast(x, store[Scope[k]]) => LatestOf(l, Len(l), "state", x, store[Scope[k]])
    BY <1>11, <1>16, <2>1 DEF w
  <2>2. CASE /\ \A x : LatestOf(l, Len(l), "state", x, x)
             /\ HasIt(k, c)' => HasIt(k, c)
    BY <1>11, <1>16, <1>19, <2>2 DEF w
  <2> QED BY <1>14, <2>1, <2>2
<1>20. UNCHANGED store
  BY <1>1
<1>21. w \in Seq(Frames) /\ toClient'[c] = toClient[c] \o w
  BY <1>15
<1> HIDE DEF w
<1>22. News(k, c, w)
  BY <1>17, <1>18, <1>19, <1>20 DEF News, o, n
<1> QED BY <1>21, <1>22 DEF Tells

LEMMA OneWrite ==
  ASSUME NEW T, NEW q \in Seq(T), NEW g \in Seq(T)
  PROVE  q \o <<>> \o g \o <<>> = q \o g
BY ConcatEmptySeq, ConcatHas

LEMMA CommitTells ==
  ASSUME TypeOK, TypeOK', Sockets, NEW d \in Conns, Commit(d),
         NEW k \in Keys, NEW c \in Conns, client[k] = c
  PROVE  Tells(k, c)
<1> DEFINE new == store'[Scope[k]]
           m == StateFrame(new)
<1>1. /\ UNCHANGED <<sessions, owners, ends>>
      /\ \/ toClient'[c] = toClient[c] \o <<>> \o <<m>> \o <<>>
         \/ /\ toClient'[c] = toClient[c] \o <<>> \o <<>> \o <<>>
            /\ HasIt(k, c) => new = store[Scope[k]]
  BY CommitWrites
<1>2. new \in States /\ m \in Frames
  BY FramesTyped DEF TypeOK, Scopes
<1>3. toClient[c] \in Seq(Frames) /\ <<m>> \in Seq(Frames) /\ <<>> \in Seq(Frames)
  BY <1>2, Singleton, EmptySeq DEF TypeOK
<1>4. m.type = "state" /\ m.state = new /\ m["state"] = new
  BY DEF StateFrame
<1>5. HasIt(k, c)' => HasIt(k, c)
  BY <1>1 DEF HasIt, Live
<1>6. UNCHANGED owners /\ Elements(<<>>) = {} /\ Elements(<<m>>) = {m}
  BY <1>1, EmptyHas, OneHas
<1> HIDE DEF m, new
<1>7. /\ \A x : LatestOf(<<>>, Len(<<>>), "owner", x, x) /\ LatestOf(<<>>, Len(<<>>), "state", x, x)
      /\ \A x : LatestOf(<<m>>, Len(<<m>>), "owner", x, x)
  BY <1>3, <1>4, <1>6, LatestOfNone
<1>8. \A x : LatestOf(<<m>>, Len(<<m>>), "state", x, new)
  BY <1>4, LatestOfOne
<1>9. CASE toClient'[c] = toClient[c] \o <<>> \o <<m>> \o <<>>
  <2>1. toClient'[c] = toClient[c] \o <<m>> BY <1>3, <1>9, OneWrite
  <2>2. \A e \in Elements(<<m>>) : e.type # "message" /\ e.state = new
    BY <1>4, <1>6
  <2>3. News(k, c, <<m>>)
    BY <1>5, <1>6, <1>7, <1>8, <2>2 DEF News, new
  <2> QED BY <1>3, <2>1, <2>3 DEF Tells
<1>10. CASE /\ toClient'[c] = toClient[c] \o <<>> \o <<>> \o <<>>
            /\ HasIt(k, c) => new = store[Scope[k]]
  <2>1. toClient'[c] = toClient[c] \o <<>> BY <1>3, <1>10, OneWrite
  <2>2. HasIt(k, c) => store'[Scope[k]] = store[Scope[k]] BY <1>10 DEF new
  <2>3. News(k, c, <<>>)
    BY <1>5, <1>6, <1>7, <2>2 DEF News
  <2> QED BY <1>3, <2>1, <2>3 DEF Tells
<1> QED BY <1>1, <1>9, <1>10

LEMMA PublishTells ==
  ASSUME TypeOK, TypeOK', Sockets, OwnersElected, NEW d \in Conns, Publish(d),
         NEW k \in Keys, NEW c \in Conns, client[k] = c
  PROVE  Tells(k, c)
<1> DEFINE m == Event(owners[Scope[k]])
<1>1. /\ UNCHANGED <<sessions, owners, store, ends>>
      /\ \/ toClient'[c] = toClient[c] \o <<>> \o <<m>> \o <<>> /\ HasIt(k, c)
         \/ toClient'[c] = toClient[c] \o <<>> \o <<>> \o <<>>
  BY PublishWrites
<1>2. m \in Frames
  BY FramesTyped DEF TypeOK, Scopes
<1>3. toClient[c] \in Seq(Frames) /\ <<m>> \in Seq(Frames) /\ <<>> \in Seq(Frames)
  BY <1>2, Singleton, EmptySeq DEF TypeOK
<1>4. m.type = "message" /\ m.owner = Known(owners[Scope[k]])
  BY DEF Event
<1>5. HasIt(k, c)' => HasIt(k, c)
  BY <1>1 DEF HasIt, Live
<1>6. UNCHANGED <<owners, store>> /\ Elements(<<>>) = {} /\ Elements(<<m>>) = {m}
  BY <1>1, EmptyHas, OneHas
<1> HIDE DEF m
<1>7. /\ \A x : LatestOf(<<>>, Len(<<>>), "owner", x, x) /\ LatestOf(<<>>, Len(<<>>), "state", x, x)
      /\ \A x : LatestOf(<<m>>, Len(<<m>>), "owner", x, x) /\ LatestOf(<<m>>, Len(<<m>>), "state", x, x)
  BY <1>3, <1>4, <1>6, LatestOfNone
<1>8. CASE toClient'[c] = toClient[c] \o <<>> \o <<m>> \o <<>> /\ HasIt(k, c)
  <2>1. toClient'[c] = toClient[c] \o <<m>> BY <1>3, <1>8, OneWrite
  <2>2. News(k, c, <<m>>)
    BY <1>4, <1>5, <1>6, <1>7, <1>8 DEF News
  <2> QED BY <1>3, <2>1, <2>2 DEF Tells
<1>9. CASE toClient'[c] = toClient[c] \o <<>> \o <<>> \o <<>>
  <2>1. toClient'[c] = toClient[c] \o <<>> BY <1>3, <1>9, OneWrite
  <2>2. News(k, c, <<>>)
    BY <1>5, <1>6, <1>7 DEF News
  <2> QED BY <1>3, <2>1, <2>2 DEF Tells
<1> QED BY <1>1, <1>8, <1>9

\* What a step leaves as it is it tells nothing new.
LEMMA QuietTells ==
  ASSUME TypeOK, NEW k \in Keys, NEW c \in Conns, toClient'[c] = toClient[c], UNCHANGED store,
         HasIt(k, c)' => HasIt(k, c) /\ UNCHANGED owners
  PROVE  Tells(k, c)
<1>1. toClient[c] \in Seq(Frames) /\ <<>> \in Seq(Frames) /\ Elements(<<>>) = {}
  BY EmptySeq, EmptyHas DEF TypeOK
<1>2. toClient'[c] = toClient[c] \o <<>>
  BY <1>1, ConcatEmptySeq
<1>3. \A x : LatestOf(<<>>, Len(<<>>), "owner", x, x) /\ LatestOf(<<>>, Len(<<>>), "state", x, x)
  BY <1>1, LatestOfNone
<1>4. News(k, c, <<>>)
  BY <1>1, <1>3 DEF News
<1> QED BY <1>1, <1>2, <1>4 DEF Tells

Reads(k, c) ==
  /\ toClient[c] # <<>> /\ toClient'[c] = Tail(toClient[c])
  /\ owner'[k] = IF Head(toClient[c]).type = "owner" THEN Head(toClient[c])["owner"] ELSE owner[k]
  /\ state'[k] = IF Head(toClient[c]).type = "state" THEN Head(toClient[c])["state"] ELSE state[k]
  /\ UNCHANGED <<sessions, owners, store>>

\* A step opens the socket a session has then, lets it read the next frame there, or tells
\* it something.
LEMMA QueueStep ==
  ASSUME TypeOK, TypeOK', Sockets, Sockets', OwnersElected, [Next]_vars,
         NEW k \in Keys, NEW c \in Conns, client'[k] = c
  PROVE  \/ toClient'[c] = <<>> /\ ~HasIt(k, c)' /\ state'[k] = state[k]
         \/ client[k] = c /\ Reads(k, c)
         \/ client[k] = c /\ owner'[k] = owner[k] /\ state'[k] = state[k] /\ Tells(k, c)
<1> DEFINE P == \/ toClient'[c] = <<>> /\ ~HasIt(k, c)' /\ state'[k] = state[k]
                \/ client[k] = c /\ Reads(k, c)
                \/ client[k] = c /\ owner'[k] = owner[k] /\ state'[k] = state[k] /\ Tells(k, c)
<1>1. ASSUME NEW d \in Conns, Register(d) \/ Capabilities(d) \/ Close(d) PROVE P
  <2>1. UNCHANGED ends
    BY <1>1 DEF Register, Capabilities, Close, Takes
  <2>2. client[k] = c /\ owner'[k] = owner[k] /\ state'[k] = state[k]
    BY <2>1 DEF ends
  <2>3. Tells(k, c)
    BY <1>1, <2>2, ElectingTells
  <2> QED BY <2>2, <2>3
<1>2. ASSUME NEW d \in Conns, Commit(d) PROVE P
  <2>1. client[k] = c /\ owner'[k] = owner[k] /\ state'[k] = state[k]
    BY <1>2 DEF Commit, Takes, ends
  <2>2. Tells(k, c)
    BY <1>2, <2>1, CommitTells
  <2> QED BY <2>1, <2>2
<1>3. ASSUME NEW d \in Conns, Publish(d) PROVE P
  <2>1. client[k] = c /\ owner'[k] = owner[k] /\ state'[k] = state[k]
    BY <1>3 DEF Publish, Takes, ends
  <2>2. Tells(k, c)
    BY <1>3, <2>1, PublishTells
  <2> QED BY <2>1, <2>2
<1>4. ASSUME UNCHANGED <<toClient, client, owner, state, store, sessions, owners>> PROVE P
  <2>1. client[k] = c /\ owner'[k] = owner[k] /\ state'[k] = state[k]
    BY <1>4
  <2>2. HasIt(k, c)' => HasIt(k, c) /\ UNCHANGED owners
    BY <1>4 DEF HasIt, Live
  <2>3. Tells(k, c)
    BY <1>4, <2>2, QuietTells
  <2> QED BY <2>1, <2>3
<1>5. ASSUME NEW d \in Conns, CommitFails(d) PROVE P
  BY <1>4, <1>5 DEF CommitFails, Takes, broker, ends
<1>6. ASSUME Die PROVE P
  <2>1. client[k] = c /\ owner'[k] = owner[k] /\ state'[k] = state[k]
    BY <1>6 DEF Die, ends
  <2>2. ~HasIt(k, c)' /\ toClient'[c] = toClient[c] /\ UNCHANGED store
    BY <1>6 DEF HasIt, Live, Die
  <2>3. Tells(k, c)
    BY <2>2, QuietTells
  <2> QED BY <2>1, <2>3
<1>7. ASSUME NEW l \in Keys,
             \/ \E kind \in Kinds[l] : Extend(l, kind)
             \/ \E val \in Payloads[l] : AskCommit(l, val)
             \/ \E audience \in Audiences, asOwner \in BOOLEAN : AskPublish(l, audience, asOwner)
      PROVE  P
  BY <1>4, <1>7 DEF Extend, AskCommit, AskPublish, broker, ends
<1>8. ASSUME UNCHANGED vars PROVE P
  BY <1>4, <1>8 DEF vars, broker, wire, ends
\* The steps of the clients.
<1>9. ASSUME NEW l \in Keys, client[l] = c, client[k] = c PROVE l = k
  <2>1. Belongs(l, c) /\ Belongs(k, c) BY <1>9 DEF Belongs
  <2> QED BY <2>1 DEF Sockets, SocketsHaveOneSession
<1>10. ASSUME NEW l \in Keys, Receive(l) PROVE P
  <2>1. client[k] = c /\ UNCHANGED broker
    BY <1>10 DEF Receive
  <2>2. CASE l = k
    <3>1. toClient[c] # <<>> /\ toClient'[c] = Tail(toClient[c])
      BY <1>10, <2>1, <2>2 DEF Receive, TypeOK
    <3>2. owner'[k] = IF Head(toClient[c]).type = "owner" THEN Head(toClient[c]).owner ELSE owner[k]
      BY <1>10, <2>1, <2>2 DEF Receive, TypeOK
    <3>3. state'[k] = IF Head(toClient[c]).type = "state" THEN Head(toClient[c]).state ELSE state[k]
      BY <1>10, <2>1, <2>2 DEF Receive, TypeOK
    <3>4. UNCHANGED <<sessions, owners, store>> BY <2>1 DEF broker
    <3> QED BY <2>1, <3>1, <3>2, <3>3, <3>4 DEF Reads
  <2>3. CASE l # k
    <3>1. /\ toClient' = [toClient EXCEPT ![client[l]] = Tail(@)]
          /\ owner'[k] = owner[k] /\ state'[k] = state[k] /\ client[l] # c
      BY <1>9, <1>10, <2>1, <2>3 DEF Receive, TypeOK
    <3>2. toClient'[c] = toClient[c]
      BY <3>1 DEF TypeOK
    <3>3. UNCHANGED store /\ (HasIt(k, c)' => HasIt(k, c) /\ UNCHANGED owners)
      BY <2>1 DEF broker, HasIt, Live
    <3>4. Tells(k, c) BY <3>2, <3>3, QuietTells
    <3> QED BY <2>1, <3>1, <3>4
  <2> QED BY <2>2, <2>3
<1>11. ASSUME NEW l \in Keys, Disconnect(l) PROVE P
  <2>1. l # k /\ client[k] = c /\ UNCHANGED broker
    BY <1>11, BusAssumption DEF Disconnect, TypeOK
  <2>2. /\ toClient' = [toClient EXCEPT ![client[l]] = <<>>]
        /\ owner'[k] = owner[k] /\ state'[k] = state[k] /\ client[l] # c
    BY <1>9, <1>11, <2>1 DEF Disconnect, TypeOK
  <2>3. toClient'[c] = toClient[c]
    BY <2>2 DEF TypeOK
  <2>4. UNCHANGED store /\ (HasIt(k, c)' => HasIt(k, c) /\ UNCHANGED owners)
    BY <2>1 DEF broker, HasIt, Live
  <2>5. Tells(k, c) BY <2>3, <2>4, QuietTells
  <2> QED BY <2>1, <2>2, <2>5
<1>12. ASSUME NEW l \in Keys, NEW d \in Conns, Connect(l, d) PROVE P
  <2>1. UNCHANGED <<broker, toClient, owner, state>> /\ client' = [client EXCEPT ![l] = d] /\ d \in fresh
    BY <1>12 DEF Connect
  <2>2. CASE l = k
    <3>1. c = d BY <2>1, <2>2 DEF TypeOK
    <3>2. \A j \in Keys : ~Belongs(j, c)
      BY <2>1, <3>1 DEF Sockets, FreshAreUnused
    <3>3. toClient[c] = <<>>
      BY <3>2 DEF Belongs, Sockets, ClosedAreEmpty
    <3>4. ~HasIt(k, c)
      BY <3>2 DEF HasIt, Belongs, Sockets, SessionsAreRegistered
    <3>5. ~HasIt(k, c)'
      BY <2>1, <3>4 DEF broker, HasIt, Live
    <3> QED BY <2>1, <3>3, <3>5
  <2>3. CASE l # k
    <3>1. UNCHANGED <<store, owners, sessions>> /\ client[k] = c /\ toClient'[c] = toClient[c]
      BY <2>1, <2>3 DEF broker, TypeOK
    <3>2. HasIt(k, c)' => HasIt(k, c) /\ UNCHANGED owners
      BY <3>1 DEF HasIt, Live
    <3>3. Tells(k, c) BY <3>1, <3>2, QuietTells
    <3> QED BY <2>1, <3>1, <3>3
  <2> QED BY <2>2, <2>3
<1> QED BY <1>1, <1>2, <1>3, <1>5, <1>6, <1>7, <1>8, <1>10, <1>11, <1>12 DEF Next, Handle

---------------------------------------------------------------------------
(* The states there were: no update is lost *)

ViewsArePast == \A k \in Keys : IsPast(state[k], store[Scope[k]])
FramesArePast ==
  \A k \in Keys : client[k] # None =>
    \A m \in Elements(toClient[client[k]]) : m.type = "state" => IsPast(m.state, store[Scope[k]])
CommitsArePast ==
  \A k \in Keys, c \in Conns : Belongs(k, c) =>
    \A m \in Elements(toBroker[c]) : m.type = "commit" => IsPast(m.base, store[Scope[k]])

\* Whatever a session has seen, is about to read or has sent is, or was, the shared state.
Past == ViewsArePast /\ FramesArePast /\ CommitsArePast

\* The shared state only moves on.
LEMMA PastStays ==
  ASSUME TypeOK, [Next]_vars, NEW s \in Scopes, NEW x, x.rev \in Nat, IsPast(x, store[s])
  PROVE  IsPast(x, store'[s])
<1>1. ASSUME NEW c \in Conns, Commit(c) PROVE IsPast(x, store'[s])
  <2> DEFINE new == [rev |-> store[s].rev + 1, val |-> Head(toBroker[c]).val]
  <2>1. store'[s] = store[s] \/ store'[s] = new
    BY <1>1 DEF Commit, TypeOK
  <2>2. store[s].rev \in Nat /\ new.rev = store[s].rev + 1
    BY DEF TypeOK, States
  <2> HIDE DEF new
  <2> QED BY <2>1, <2>2 DEF IsPast
<1>2. ASSUME NEW c \in Conns, Register(c) \/ Capabilities(c) \/ CommitFails(c) \/ Publish(c) \/ Close(c)
      PROVE  UNCHANGED store
  BY <1>2 DEF Register, Capabilities, CommitFails, Publish, Close, broker
<1>3. Die \/ UNCHANGED vars => UNCHANGED store
  BY DEF Die, vars, broker
<1>4. ASSUME NEW k \in Keys,
             \/ Receive(k) \/ Disconnect(k) \/ \E c \in Conns : Connect(k, c)
             \/ \E kind \in Kinds[k] : Extend(k, kind)
             \/ \E val \in Payloads[k] : AskCommit(k, val)
             \/ \E audience \in Audiences, asOwner \in BOOLEAN : AskPublish(k, audience, asOwner)
      PROVE  UNCHANGED store
  BY <1>4 DEF Receive, Disconnect, Connect, Extend, AskCommit, AskPublish, broker
<1> QED BY <1>1, <1>2, <1>3, <1>4 DEF Next, Handle

LEMMA NowIsPast == ASSUME NEW x, x.rev \in Nat PROVE IsPast(x, x)
BY DEF IsPast

LEMMA QueuesTyped ==
  ASSUME TypeOK, NEW c \in Conns
  PROVE  /\ toClient[c] \in Seq(Frames) /\ toBroker[c] \in Seq(Requests)
         /\ \A m \in Elements(toClient[c]) : m \in Frames
         /\ \A m \in Elements(toBroker[c]) : m \in Requests
BY ElementOfSeq DEF TypeOK, Elements

\* The next state a session sees is the one it saw or the frame it reads.
LEMMA StateStep ==
  ASSUME TypeOK, [Next]_vars, NEW k \in Keys
  PROVE  \/ state'[k] = state[k]
         \/ /\ client[k] # None
            /\ \E m \in Elements(toClient[client[k]]) : m.type = "state" /\ state'[k] = m.state
<1>1. ASSUME NEW l \in Keys, Receive(l)
      PROVE  \/ state'[k] = state[k]
             \/ /\ client[k] # None
                /\ \E m \in Elements(toClient[client[k]]) : m.type = "state" /\ state'[k] = m.state
  <2>1. CASE l = k
    <3> DEFINE q == toClient[client[k]]
    <3>1. /\ client[k] # None /\ q # <<>>
          /\ state' = IF Head(q).type = "state" THEN [state EXCEPT ![k] = Head(q).state] ELSE state
      BY <1>1, <2>1 DEF Receive
    <3>2. q \in Seq(Frames) BY <3>1 DEF TypeOK
    <3> HIDE DEF q
    <3>3. Head(q) \in Elements(q) BY <3>1, <3>2, HeadAndTail
    <3>4. state'[k] = state[k] \/ (Head(q).type = "state" /\ state'[k] = Head(q).state)
      BY <3>1 DEF TypeOK
    <3> QED BY <3>1, <3>3, <3>4 DEF q
  <2>2. CASE l # k
    BY <1>1, <2>2 DEF Receive, TypeOK
  <2> QED BY <2>1, <2>2
<1>2. ASSUME NEW c \in Conns, Handle(c) \/ Close(c) PROVE UNCHANGED state
  BY <1>2 DEF Handle, Register, Capabilities, Commit, CommitFails, Publish, Close, Takes, ends
<1>3. Die \/ UNCHANGED vars => UNCHANGED state
  BY DEF Die, vars, ends
<1>4. ASSUME NEW l \in Keys,
             \/ Disconnect(l) \/ \E c \in Conns : Connect(l, c)
             \/ \E kind \in Kinds[l] : Extend(l, kind)
             \/ \E val \in Payloads[l] : AskCommit(l, val)
             \/ \E audience \in Audiences, asOwner \in BOOLEAN : AskPublish(l, audience, asOwner)
      PROVE  UNCHANGED state
  BY <1>4 DEF Disconnect, Connect, Extend, AskCommit, AskPublish, ends
<1> QED BY <1>1, <1>2, <1>3, <1>4 DEF Next

LEMMA PastInit == Init => Past
<1> SUFFICES ASSUME Init PROVE Past
  OBVIOUS
<1>1. \A c \in Conns : Elements(toBroker[c]) = {}
  BY EmptyHas DEF Init, Nothing
<1>2. \A k \in Keys : state[k] = Blank /\ store[Scope[k]] = Blank /\ client[k] = None
  BY DEF Init, Scopes
<1>3. Blank.rev \in Nat
  BY DEF Blank
<1> QED BY <1>1, <1>2, <1>3, NowIsPast DEF Past, ViewsArePast, FramesArePast, CommitsArePast

LEMMA PastStep ==
  ASSUME TypeOK, TypeOK', Sockets, Sockets', OwnersElected, Past, [Next]_vars
  PROVE  Past'
<1>1. \A k \in Keys : Scope[k] \in Scopes
  BY DEF Scopes
<1>2. ASSUME NEW k \in Keys PROVE IsPast(state'[k], store'[Scope[k]])
  <2>1. PICK x : x = state'[k]
    OBVIOUS
  <2>2. x.rev \in Nat
    BY <2>1 DEF TypeOK, States
  <2>3. IsPast(x, store[Scope[k]])
    <3>1. CASE x = state[k]
      BY <3>1 DEF Past, ViewsArePast
    <3>2. CASE /\ client[k] # None
               /\ \E m \in Elements(toClient[client[k]]) : m.type = "state" /\ x = m.state
      BY <3>2 DEF Past, FramesArePast
    <3> QED BY <2>1, <3>1, <3>2, StateStep
  <2>4. IsPast(x, store'[Scope[k]])
    BY <1>1, <2>2, <2>3, PastStays
  <2> QED BY <2>1, <2>4
<1>3. ASSUME NEW k \in Keys, client'[k] # None, NEW m \in Elements(toClient'[client'[k]]), m.type = "state"
      PROVE  IsPast(m.state, store'[Scope[k]])
  <2>1. PICK c \in Conns : client'[k] = c
    BY <1>3 DEF TypeOK
  <2>2. ASSUME client[k] = c, m \in Elements(toClient[c]) PROVE IsPast(m.state, store'[Scope[k]])
    <3>1. m \in Frames BY <2>2, QueuesTyped
    <3>2. m.state.rev \in Nat BY <1>3, <3>1, FramesByType DEF States
    <3>3. IsPast(m.state, store[Scope[k]])
      BY <1>3, <2>1, <2>2, BusAssumption DEF Past, FramesArePast
    <3> QED BY <1>1, <3>2, <3>3, PastStays
  <2>3. m \in Elements(toClient'[c])
    BY <1>3, <2>1
  <2>4. CASE toClient'[c] = <<>>
    BY <2>3, <2>4, EmptyHas
  <2>5. CASE client[k] = c /\ Reads(k, c)
    <3>1. toClient[c] \in Seq(Frames) /\ toClient[c] # <<>> /\ toClient'[c] = Tail(toClient[c])
      BY <2>5, QueuesTyped DEF Reads
    <3>2. m \in Elements(toClient[c])
      BY <2>3, <3>1, HeadAndTail
    <3> QED BY <2>2, <2>5, <3>2
  <2>6. CASE client[k] = c /\ Tells(k, c)
    <3>1. PICK w \in Seq(Frames) : toClient'[c] = toClient[c] \o w /\ News(k, c, w)
      BY <2>6 DEF Tells
    <3>2. Elements(toClient'[c]) = Elements(toClient[c]) \cup Elements(w)
      BY <3>1, QueuesTyped, ConcatHas
    <3>3. CASE m \in Elements(w)
      <4>1. m.state = store'[Scope[k]] BY <1>3, <3>1, <3>3 DEF News
      <4>2. store'[Scope[k]].rev \in Nat BY <1>1 DEF TypeOK, States
      <4> QED BY <4>1, <4>2, NowIsPast
    <3> QED BY <2>2, <2>3, <2>6, <3>2, <3>3
  <2> QED BY <2>1, <2>4, <2>5, <2>6, QueueStep
<1>4. ASSUME NEW k \in Keys, NEW c \in Conns, Belongs(k, c)', NEW m \in Elements(toBroker'[c]),
             m.type = "commit"
      PROVE  IsPast(m.base, store'[Scope[k]])
  <2>1. Belongs(k, c) \/ Begins(k, c)
    BY <1>4, BelongsStep
  <2>2. m \in Elements(toBroker[c]) \/ \E l \in Keys : Sent(l, c, m)
    BY <1>4, WaitingWasSent
  <2>3. CASE m \in Elements(toBroker[c])
    <3>1. toBroker[c] # <<>> BY <2>3, EmptyHas
    <3>2. Belongs(k, c) BY <2>1, <3>1 DEF Begins, Sockets, FreshAreUnused
    <3>3. IsPast(m.base, store[Scope[k]]) BY <1>4, <2>3, <3>2 DEF Past, CommitsArePast
    <3>4. m \in Requests BY <2>3, QueuesTyped
    <3>5. m.base.rev \in Nat BY <1>4, <3>4 DEF Requests, States
    <3> QED BY <1>1, <3>3, <3>5, PastStays
  <2>4. ASSUME NEW l \in Keys, Sent(l, c, m) PROVE IsPast(m.base, store'[Scope[k]])
    <3>1. client[l] = c /\ m.base = state[l] BY <1>4, <2>4 DEF Sent
    <3>2. Belongs(l, c) BY <3>1 DEF Belongs
    <3>3. Belongs(k, c) BY <2>1, <3>2 DEF Begins, Sockets, FreshAreUnused
    <3>4. l = k BY <3>2, <3>3 DEF Sockets, SocketsHaveOneSession
    <3>5. IsPast(m.base, store[Scope[k]]) BY <3>1, <3>4 DEF Past, ViewsArePast
    <3>6. m.base.rev \in Nat BY <3>1 DEF TypeOK, States
    <3> QED BY <1>1, <3>5, <3>6, PastStays
  <2> QED BY <2>2, <2>3, <2>4
<1>5. ViewsArePast'
  BY <1>2 DEF ViewsArePast
<1>6. FramesArePast'
  BY <1>3 DEF FramesArePast, IsPast, Elements
<1>7. CommitsArePast'
  BY <1>4 DEF CommitsArePast, IsPast, Elements
<1> QED BY <1>5, <1>6, <1>7 DEF Past

LEMMA UpdateStep ==
  ASSUME TypeOK, Past, [Next]_vars, NEW s \in Scopes, store'[s] # store[s]
  PROVE  \E c \in attached : /\ toBroker[c] # <<>> /\ toBroker'[c] = Tail(toBroker[c])
                             /\ Head(toBroker[c]).type = "commit"
                             /\ Head(toBroker[c]).base = store[s]
<1>1. ASSUME NEW c \in Conns, Commit(c)
      PROVE  /\ c \in attached /\ toBroker[c] # <<>> /\ toBroker'[c] = Tail(toBroker[c])
             /\ Head(toBroker[c]).type = "commit" /\ Head(toBroker[c]).base = store[s]
  <2> DEFINE m == Head(toBroker[c])
             k == key[c]
  <2>1. /\ Takes(c, "commit") /\ MayCommit(c, m)
        /\ store' = [store EXCEPT ![Scope[k]] = [rev |-> @.rev + 1, val |-> m.val]]
    BY <1>1 DEF Commit
  <2>2. /\ c \in attached /\ toBroker[c] # <<>> /\ toBroker'[c] = Tail(toBroker[c])
        /\ m.type = "commit"
    BY <2>1 DEF Takes, TypeOK
  <2>3. k \in Keys /\ m.base.rev = store[Scope[k]].rev
    BY <2>1 DEF MayCommit, IsOwner, Owns, TypeOK
  <2>4. s = Scope[k]
    BY <2>1 DEF TypeOK
  <2>5. m \in Elements(toBroker[c])
    BY <2>2, QueuesTyped, HeadAndTail
  <2>6. Belongs(k, c)
    BY DEF Belongs
  <2> HIDE DEF m, k
  <2>7. IsPast(m.base, store[s])
    BY <2>2, <2>3, <2>4, <2>5, <2>6 DEF Past, CommitsArePast
  <2> QED BY <2>2, <2>3, <2>4, <2>7 DEF IsPast, m
<1>2. ASSUME NEW c \in Conns, Register(c) \/ Capabilities(c) \/ CommitFails(c) \/ Publish(c) \/ Close(c)
      PROVE  UNCHANGED store
  BY <1>2 DEF Register, Capabilities, CommitFails, Publish, Close, broker
<1>3. Die \/ UNCHANGED vars => UNCHANGED store
  BY DEF Die, vars, broker
<1>4. ASSUME NEW k \in Keys,
             \/ Receive(k) \/ Disconnect(k) \/ \E c \in Conns : Connect(k, c)
             \/ \E kind \in Kinds[k] : Extend(k, kind)
             \/ \E val \in Payloads[k] : AskCommit(k, val)
             \/ \E audience \in Audiences, asOwner \in BOOLEAN : AskPublish(k, audience, asOwner)
      PROVE  UNCHANGED store
  BY <1>4 DEF Receive, Disconnect, Connect, Extend, AskCommit, AskPublish, broker
<1> QED BY <1>1, <1>2, <1>3, <1>4 DEF Next, Handle

---------------------------------------------------------------------------
(* What the sessions know: the owner and the state *)

\* A session that has the namespace has been told the owner and the state there are.
Told ==
  \A k \in Keys, c \in Conns : client[k] = c /\ HasIt(k, c) =>
    /\ LatestOf(toClient[c], Len(toClient[c]), "owner", owner[k], Known(owners[Scope[k]]))
    /\ LatestOf(toClient[c], Len(toClient[c]), "state", state[k], store[Scope[k]])

\* And it has been told the owner that an event names before the event.
Named ==
  \A k \in Keys, c \in Conns : client[k] = c =>
    \A i \in 1 .. Len(toClient[c]) : toClient[c][i].type = "message" =>
      LatestOf(toClient[c], i, "owner", owner[k], toClient[c][i].owner)

LEMMA ToldInit == Init => Told /\ Named
BY BusAssumption DEF Init, Told, Named

\* What is read last may be the present state, if all that is read is past.
LEMMA LatestStates ==
  ASSUME TypeOK, Past, NEW k \in Keys, NEW c \in Conns, client[k] = c
  PROVE  \E x \in States : /\ LatestOf(toClient[c], Len(toClient[c]), "state", state[k], x)
                           /\ IsPast(x, store[Scope[k]])
<1> DEFINE q == toClient[c]
<1>1. q \in Seq(Frames) /\ \A m \in Elements(q) : m \in Frames
  BY QueuesTyped
<1>2. \A m \in Elements(q) : m.type = "state" => m.state \in States /\ IsPast(m.state, store[Scope[k]])
  <2>1. client[k] # None BY BusAssumption
  <2> QED BY <1>1, <2>1, FramesByType DEF Past, FramesArePast
<1>3. state[k] \in States /\ IsPast(state[k], store[Scope[k]])
  BY DEF TypeOK, Past, ViewsArePast
<1> HIDE DEF q
<1>4. PICK x : /\ LatestOf(q, Len(q), "state", state[k], x)
               /\ x = state[k] \/ \E m \in Elements(q) : m.type = "state" /\ m["state"] = x
  BY <1>1, LatestExists
<1>5. x \in States /\ IsPast(x, store[Scope[k]])
  BY <1>2, <1>3, <1>4
<1> QED BY <1>4, <1>5 DEF q

LEMMA ToldStep ==
  ASSUME TypeOK, TypeOK', Sockets, Sockets', OwnersElected, Past, Told, [Next]_vars
  PROVE  Told'
<1> SUFFICES ASSUME NEW k \in Keys, NEW c \in Conns, client'[k] = c, HasIt(k, c)'
             PROVE  /\ LatestOf(toClient'[c], Len(toClient'[c]), "owner", owner'[k], Known(owners'[Scope[k]]))
                    /\ LatestOf(toClient'[c], Len(toClient'[c]), "state", state'[k], store'[Scope[k]])
  BY DEF Told, Known, LatestOf
<1> DEFINE q == toClient[c]
           old == Known(owners[Scope[k]])
           new == Known(owners'[Scope[k]])
<1>1. q \in Seq(Frames) /\ Len(q) \in Nat
  BY QueuesTyped, LenProperties
<1>2. CASE client[k] = c /\ Reads(k, c)
  <2>1. /\ q # <<>> /\ toClient'[c] = Tail(q) /\ UNCHANGED <<owners, store, sessions>>
        /\ owner'[k] = IF Head(q).type = "owner" THEN Head(q)["owner"] ELSE owner[k]
        /\ state'[k] = IF Head(q).type = "state" THEN Head(q)["state"] ELSE state[k]
    BY <1>2 DEF Reads
  <2>2. HasIt(k, c) /\ old = new
    BY <2>1 DEF HasIt, Live
  <2>3. /\ LatestOf(q, Len(q), "owner", owner[k], old)
        /\ LatestOf(q, Len(q), "state", state[k], store[Scope[k]])
    BY <1>2, <2>2 DEF Told
  <2> HIDE DEF q, old, new
  <2>4. Len(q) \in 1 .. Len(q) /\ Len(Tail(q)) = Len(q) - 1
    <3>1. Len(q) \in Nat \ {0} /\ Len(Tail(q)) = Len(q) - 1 BY <1>1, <2>1, HeadAndTail
    <3> QED BY <3>1
  <2>5. LatestOf(Tail(q), Len(q) - 1, "owner", IF Head(q).type = "owner" THEN Head(q)["owner"] ELSE owner[k], old)
    BY <1>1, <2>1, <2>3, <2>4, LatestAfterHead
  <2>6. LatestOf(Tail(q), Len(q) - 1, "state", IF Head(q).type = "state" THEN Head(q)["state"] ELSE state[k],
                 store[Scope[k]])
    BY <1>1, <2>1, <2>3, <2>4, LatestAfterHead
  <2>7. Len(toClient'[c]) = Len(q) - 1
    BY <2>1, <2>4
  <2> QED BY <2>1, <2>2, <2>5, <2>6, <2>7 DEF new
<1>3. CASE client[k] = c /\ owner'[k] = owner[k] /\ state'[k] = state[k] /\ Tells(k, c)
  <2>1. PICK w \in Seq(Frames) : toClient'[c] = q \o w /\ News(k, c, w)
    BY <1>3 DEF Tells
  <2>2. \/ \A x : LatestOf(w, Len(w), "owner", x, new)
        \/ HasIt(k, c) /\ LatestOf(w, Len(w), "owner", old, new)
    BY <2>1 DEF News
  <2>3. \/ /\ UNCHANGED store
           /\ \A x \in States : IsPast(x, store[Scope[k]]) => LatestOf(w, Len(w), "state", x, store[Scope[k]])
        \/ /\ HasIt(k, c)
           /\ LatestOf(w, Len(w), "state", store[Scope[k]], store'[Scope[k]])
    BY <2>1 DEF News
  <2>4. HasIt(k, c) => /\ LatestOf(q, Len(q), "owner", owner[k], old)
                       /\ LatestOf(q, Len(q), "state", state[k], store[Scope[k]])
    BY <1>3 DEF Told
  <2>5. \E x : LatestOf(q, Len(q), "owner", owner[k], x)
    BY <1>1, LatestExists
  <2>6. \E x \in States : LatestOf(q, Len(q), "state", state[k], x) /\ IsPast(x, store[Scope[k]])
    BY <1>3, LatestStates
  <2> HIDE DEF q, old, new
  <2>7. \E x : LatestOf(q, Len(q), "owner", owner[k], x) /\ LatestOf(w, Len(w), "owner", x, new)
    BY <2>2, <2>4, <2>5
  <2>8. \E x : LatestOf(q, Len(q), "state", state[k], x) /\ LatestOf(w, Len(w), "state", x, store'[Scope[k]])
    BY <2>3, <2>4, <2>6
  <2>9. LatestOf(q \o w, Len(q \o w), "owner", owner[k], new)
    BY <1>1, <2>7, LatestConcat
  <2>10. LatestOf(q \o w, Len(q \o w), "state", state[k], store'[Scope[k]])
    BY <1>1, <2>8, LatestConcat
  <2> QED BY <1>3, <2>1, <2>9, <2>10 DEF new
<1> QED BY <1>2, <1>3, QueueStep

LEMMA NamedStep ==
  ASSUME TypeOK, TypeOK', Sockets, Sockets', OwnersElected, Told, Named, [Next]_vars
  PROVE  Named'
<1> SUFFICES ASSUME NEW k \in Keys, NEW c \in Conns, client'[k] = c,
                    NEW i \in 1 .. Len(toClient'[c]), toClient'[c][i].type = "message"
             PROVE  LatestOf(toClient'[c], i, "owner", owner'[k], toClient'[c][i].owner)
  BY DEF Named, LatestOf
<1> DEFINE q == toClient[c]
           r == toClient'[c]
<1>1. q \in Seq(Frames) /\ Len(q) \in Nat
  BY QueuesTyped, LenProperties
<1>2. client[k] = c => \A j \in 1 .. Len(q) : q[j].type = "message" =>
                         LatestOf(q, j, "owner", owner[k], q[j].owner)
  BY DEF Named
<1>3. i \in 1 .. Len(r) /\ r[i].type = "message"
  OBVIOUS
<1>4. CASE r = <<>>
  <2>1. Len(r) = 0 BY <1>4, EmptySeq
  <2> QED BY <1>3, <2>1
<1>5. CASE client[k] = c /\ Reads(k, c)
  <2>1. /\ q # <<>> /\ r = Tail(q)
        /\ owner'[k] = IF Head(q).type = "owner" THEN Head(q)["owner"] ELSE owner[k]
    BY <1>5 DEF Reads
  <2> HIDE DEF q, r
  <2>2. /\ Len(r) = Len(q) - 1 /\ \A j \in 1 .. Len(r) : r[j] = q[j + 1]
    BY <1>1, <2>1, HeadAndTail
  <2>3. i + 1 \in 1 .. Len(q) /\ r[i] = q[i + 1] /\ (i + 1) - 1 = i
    BY <1>1, <1>3, <2>2
  <2>4. LatestOf(q, i + 1, "owner", owner[k], r[i].owner)
    BY <1>2, <1>3, <1>5, <2>3
  <2>5. PICK n \in 1 .. Len(q) : n = i + 1
    BY <2>3
  <2>6. LatestOf(Tail(q), n - 1, "owner", IF Head(q).type = "owner" THEN Head(q)["owner"] ELSE owner[k], r[i].owner)
    BY <1>1, <2>1, <2>4, <2>5, LatestAfterHead
  <2>7. n - 1 = i
    BY <2>3, <2>5
  <2>8. LatestOf(r, i, "owner", owner'[k], r[i].owner)
    BY <2>1, <2>6, <2>7
  <2> QED BY <2>8 DEF r
<1>6. CASE client[k] = c /\ owner'[k] = owner[k] /\ Tells(k, c)
  <2>1. PICK w \in Seq(Frames) : r = q \o w /\ News(k, c, w)
    BY <1>6 DEF Tells
  <2> HIDE DEF q, r
  <2>2. /\ Len(r) = Len(q) + Len(w) /\ Len(w) \in Nat
        /\ \A j \in 1 .. Len(q) : r[j] = q[j]
        /\ \A j \in 1 .. Len(w) : r[Len(q) + j] = w[j]
    BY <1>1, <2>1, ConcatHas
  <2>3. CASE i \in 1 .. Len(q)
    <3>1. r[i] = q[i] /\ i \in Nat /\ i <= i
      BY <1>1, <2>2, <2>3
    <3>2. LatestOf(q, i, "owner", owner[k], r[i].owner)
      BY <1>2, <1>3, <1>6, <2>3, <3>1
    <3>3. /\ \A j \in 1 .. i : r[j] = q[j]
          /\ \A j \in i + 1 .. i : r[j].type # "owner"
      <4>1. \A j \in 1 .. i : j \in 1 .. Len(q) BY <1>1, <2>3
      <4>2. \A j \in i + 1 .. i : FALSE BY <3>1
      <4> QED BY <2>2, <4>1, <4>2
    <3>4. LatestOf(r, i, "owner", owner[k], r[i].owner)
      BY <3>1, <3>2, <3>3, LatestExtends
    <3> QED BY <1>6, <3>4 DEF r
  <2>4. CASE i \notin 1 .. Len(q)
    <3>1. PICK j \in 1 .. Len(w) : i = Len(q) + j
      <4>1. i - Len(q) \in 1 .. Len(w) /\ i = Len(q) + (i - Len(q)) BY <1>1, <1>3, <2>2, <2>4
      <4> QED BY <4>1
    <3>2. r[i] = w[j] /\ r[i] \in Elements(w)
      <4>1. r[i] = w[j] BY <2>2, <3>1
      <4>2. w[j] \in Elements(w) BY DEF Elements
      <4> QED BY <4>1, <4>2
    <3>3. w = <<r[i]>> /\ HasIt(k, c) /\ r[i].owner = Known(owners[Scope[k]])
      BY <1>3, <2>1, <3>2 DEF News
    <3>4. Len(w) = 1
      <4>1. PICK m : m = r[i] OBVIOUS
      <4>2. w = <<m>> BY <3>3, <4>1
      <4> QED BY <4>2, OneHas
    <3>5. i = Len(q) + 1
      BY <1>1, <3>1, <3>4
    <3>6. LatestOf(q, Len(q), "owner", owner[k], r[i].owner)
      BY <1>6, <3>3 DEF Told, q
    <3>7. \A l \in Len(q) + 1 .. i : r[l].type # "owner"
      <4>1. \A l \in Len(q) + 1 .. i : l = i BY <1>1, <3>5
      <4> QED BY <1>3, <4>1
    <3>8. LatestOf(r, i, "owner", owner[k], r[i].owner)
      <4>1. i \in Nat /\ Len(q) <= i BY <1>1, <3>5
      <4> QED BY <1>1, <2>2, <3>6, <3>7, <4>1, LatestExtends
    <3> QED BY <1>6, <3>8 DEF r
  <2> QED BY <2>3, <2>4
<1> QED BY <1>4, <1>5, <1>6, QueueStep

---------------------------------------------------------------------------

WireInv == BusInv /\ Sockets /\ Past /\ Told /\ Named

LEMMA WireInit == Init => WireInv
BY BusInit, SocketsInit, PastInit, ToldInit DEF WireInv

LEMMA WireStep == WireInv /\ [Next]_vars => WireInv'
<1> SUFFICES ASSUME WireInv, [Next]_vars PROVE WireInv'
  OBVIOUS
<1>1. BusInv' /\ TypeOK /\ TypeOK' /\ OwnersElected
  BY BusStep DEF WireInv, BusInv
<1>2. Sockets'
  BY <1>1, SocketsStep DEF WireInv
<1>3. Past' /\ Told' /\ Named'
  BY <1>1, <1>2, PastStep, ToldStep, NamedStep DEF WireInv
<1> QED BY <1>1, <1>2, <1>3 DEF WireInv

THEOREM WireInvHolds == Spec => []WireInv
BY WireInit, WireStep, PTL DEF Spec

\* A commit that is accepted was made from the very state it replaces: however late it
\* comes, from whichever socket and owner, the base it names is the state there is
\* (ExtensionStateStore, and the view a session commits from).
THEOREM CommitsReplaceWhatTheySaw == Spec => NoLostUpdate
<1>1. WireInv /\ [Next]_vars =>
        [\A s \in Scopes : store'[s] # store[s] =>
           \E c \in attached : /\ toBroker[c] # <<>> /\ toBroker'[c] = Tail(toBroker[c])
                               /\ Head(toBroker[c]).type = "commit"
                               /\ Head(toBroker[c]).base = store[s]]_vars
  BY UpdateStep DEF WireInv, BusInv
<1> QED BY <1>1, WireInvHolds, PTL DEF Spec, NoLostUpdate

\* The frame that counts is the last of its type.
LastOf(q, n, type, x) ==
  LET at == {i \in 1 .. n : q[i].type = type}
  IN  IF at = {} THEN x ELSE q[CHOOSE i \in at : \A j \in at : j =< i][type]

LEMMA LatestIsTold ==
  ASSUME NEW q, NEW n \in Nat, NEW type, NEW x, NEW v, LatestOf(q, n, type, x, v)
  PROVE  v = LastOf(q, n, type, x)
<1> DEFINE at == {i \in 1 .. n : q[i].type = type}
<1>1. CASE v = x /\ \A i \in 1 .. n : q[i].type # type
  BY <1>1 DEF LastOf
<1>2. CASE \E i \in 1 .. n : /\ q[i].type = type /\ q[i][type] = v
                             /\ \A j \in i + 1 .. n : q[j].type # type
  <2>1. PICK i \in 1 .. n : /\ q[i].type = type /\ q[i][type] = v
                            /\ \A j \in i + 1 .. n : q[j].type # type
    BY <1>2
  <2>2. i \in at
    BY <2>1
  <2>3. \A j \in at : j =< i
    <3> SUFFICES ASSUME NEW j \in at, ~(j =< i) PROVE FALSE
      OBVIOUS
    <3>1. j \in i + 1 .. n OBVIOUS
    <3> QED BY <2>1, <3>1
  <2>4. \A j \in at : (\A l \in at : l =< j) => j = i
    BY <2>2, <2>3
  <2> HIDE DEF at
  <2>5. (CHOOSE j \in at : \A l \in at : l =< j) = i
    BY <2>2, <2>3, <2>4
  <2> QED BY <2>1, <2>2, <2>5 DEF at, LastOf
<1> QED BY <1>1, <1>2 DEF LatestOf

\* Once a session has read what waits for it, it knows the owner and the shared state of
\* its scope, whatever elections, replacements and commits there were
\* (recomputeNamespaceOwners, extension_state).
THEOREM NoSessionIsPassedBy == Spec => []ViewsConverge
<1>1. WireInv => ViewsConverge
  <2> SUFFICES ASSUME WireInv, NEW k \in Live, sessions[k].cap # "none", client[k] = sessions[k].conn
               PROVE  /\ LastTold(k, "owner", owner[k]) = Known(owners[Scope[k]])
                      /\ LastTold(k, "state", state[k]) = store[Scope[k]]
    BY DEF ViewsConverge
  <2> DEFINE c == client[k]
             q == toClient[c]
  <2>1. TypeOK /\ Told
    BY DEF WireInv, BusInv
  <2>2. k \in Keys /\ c \in Conns /\ HasIt(k, c)
    BY <2>1 DEF TypeOK, SessionsT, HasIt
  <2>3. Len(q) \in Nat
    BY <2>1, <2>2, QueuesTyped, LenProperties
  <2>4. /\ LatestOf(q, Len(q), "owner", owner[k], Known(owners[Scope[k]]))
        /\ LatestOf(q, Len(q), "state", state[k], store[Scope[k]])
    BY <2>1, <2>2 DEF Told
  <2> HIDE DEF q
  <2>5. Known(owners[Scope[k]]) = LastOf(q, Len(q), "owner", owner[k])
    BY <2>3, <2>4, LatestIsTold
  <2>6. store[Scope[k]] = LastOf(q, Len(q), "state", state[k])
    BY <2>3, <2>4, LatestIsTold
  <2> QED BY <2>5, <2>6 DEF LastTold, LastOf, q
<1> QED BY <1>1, WireInvHolds, PTL

\* When an event arrives, the session knows the owner that the event names: no event
\* overtakes the notice of an election (extension_publish).
THEOREM EventsFollowElections == Spec => []EventsNameTheOwner
<1>1. WireInv => EventsNameTheOwner
  <2> SUFFICES ASSUME WireInv, NEW k \in Keys, client[k] # None,
                      NEW i \in 1 .. Len(toClient[client[k]]), toClient[client[k]][i].type = "message"
               PROVE  toClient[client[k]][i].owner =
                        LET before == {j \in 1 .. i : toClient[client[k]][j].type = "owner"}
                        IN  IF before = {} THEN owner[k]
                            ELSE toClient[client[k]][CHOOSE j \in before : \A l \in before : l =< j].owner
    BY DEF EventsNameTheOwner
  <2> DEFINE c == client[k]
             q == toClient[c]
  <2>1. TypeOK /\ Named
    BY DEF WireInv, BusInv
  <2>2. c \in Conns
    BY <2>1 DEF TypeOK
  <2>3. Len(q) \in Nat
    BY <2>1, <2>2, QueuesTyped, LenProperties
  <2>4. LatestOf(q, i, "owner", owner[k], q[i].owner)
    BY <2>1, <2>2 DEF Named
  <2>5. i \in Nat
    BY <2>3
  <2> HIDE DEF q
  <2>6. q[i].owner = LastOf(q, i, "owner", owner[k])
    BY <2>4, <2>5, LatestIsTold
  <2> QED BY <2>6 DEF LastOf, q
<1> QED BY <1>1, WireInvHolds, PTL
=============================================================================
