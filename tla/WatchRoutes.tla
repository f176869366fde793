---------------------------- MODULE WatchRoutes -----------------------------
(***************************************************************************)
(* Watches: a session reads a page of another's history through the broker *)
(* (watch and handleBrokerMessage of src/broker/client.ts, watch_* of      *)
(* src/broker/broker.ts).  The requester, the broker and the target each   *)
(* keep the watch in a table of their own with a timer of its own, and     *)
(* each of them may give it up while a frame of another is on its way.     *)
(*                                                                         *)
(* A socket is <<session, number>>.  A session that lost its socket opens  *)
(* another and registers, and the broker may hear of that before it hears  *)
(* of the loss.                                                            *)
(***************************************************************************)
EXTENDS Naturals, Sequences, FiniteSets, SequencesExt

CONSTANTS
  Watchers,       \* sessions, all of one scope
  Watches,        \* calls of watch
  Asker, Watched, \* [Watches -> Watchers]: who watches whom
  MaxOut, MaxIn,  \* watches of one requester, and of one target
  MaxSocket       \* bound: sockets of a session

ASSUME WatchAssumption ==
  /\ Watches # {} /\ Asker \in [Watches -> Watchers] /\ Watched \in [Watches -> Watchers]
  /\ MaxOut \in Nat /\ MaxIn \in Nat /\ MaxSocket \in Nat \ {0}

VARIABLES
  link,     \* per session: the number of its socket, and whether the client has it open
  member,   \* per session: the number of the socket that sessions has for it, or 0
  up, down, \* per socket: the frames to the broker, and from it
  routes,   \* watches: [w, asker, target], with the sockets' numbers
  watch,    \* per watch: what its requester knows
  inbound,  \* inboundWatches, per session: watches whose page is being made
  cut       \* the sockets the broker has destroyed because of a watch_response

watchVars == <<link, member, up, down, routes, watch, inbound, cut>>

WatchSockets == Watchers \X (1 .. MaxSocket)
Frame(type, w, n) == [type |-> type, w |-> w, n |-> n]
Hello == Frame("register", CHOOSE w \in Watches : TRUE, 0)
Bye   == Frame("close", CHOOSE w \in Watches : TRUE, 0)

WatchTypeOK ==
  /\ link \in [Watchers -> [n : 0 .. MaxSocket, open : BOOLEAN]]
  /\ member \in [Watchers -> 0 .. MaxSocket]
  /\ routes \subseteq [w : Watches, asker : 1 .. MaxSocket, target : 1 .. MaxSocket]
  /\ watch \in [Watches -> {"new", "pending", "page", "error"}]
  /\ inbound \in [Watchers -> SUBSET Watches]
  /\ cut \subseteq WatchSockets

WatchInit ==
  /\ link = [s \in Watchers |-> [n |-> 0, open |-> FALSE]]
  /\ member = [s \in Watchers |-> 0]
  /\ up = [k \in WatchSockets |-> <<>>] /\ down = [k \in WatchSockets |-> <<>>]
  /\ routes = {} /\ cut = {}
  /\ watch = [w \in Watches |-> "new"]
  /\ inbound = [s \in Watchers |-> {}]

Socket(s) == <<s, link[s].n>>

\* What the broker writes to the sockets of members, each frame [to, frame]; others get none.
Written(frames) ==
  [k \in WatchSockets |->
     IF member[k[1]] = k[2] THEN down[k] \o SetToSeq({f.frame : f \in {g \in frames : g.to = k}})
     ELSE down[k]]

AskerSocket(r)  == <<Asker[r.w], r.asker>>
TargetSocket(r) == <<Watched[r.w], r.target>>

---------------------------------------------------------------------------
(* The sessions *)

Open(s) ==
  /\ ~link[s].open /\ link[s].n < MaxSocket
  /\ link' = [link EXCEPT ![s] = [n |-> @.n + 1, open |-> TRUE]]
  /\ up' = [up EXCEPT ![<<s, link[s].n + 1>>] = <<Hello>>]
  /\ UNCHANGED <<member, down, routes, watch, inbound, cut>>

\* onClose and failPending: what was sent may still arrive.
LoseSocket(s) ==
  /\ link[s].open
  /\ link' = [link EXCEPT ![s].open = FALSE]
  /\ up' = [up EXCEPT ![Socket(s)] = Append(@, Bye)]
  /\ down' = [down EXCEPT ![Socket(s)] = <<>>]
  /\ watch' = [w \in Watches |-> IF Asker[w] = s /\ watch[w] = "pending" THEN "error" ELSE watch[w]]
  /\ inbound' = [inbound EXCEPT ![s] = {}]
  /\ UNCHANGED <<member, routes, cut>>

\* watch(): the target was listed on one of its sockets, which need not be its last.
Watch(w) ==
  /\ watch[w] = "new" /\ link[Asker[w]].open
  /\ Cardinality({v \in Watches : Asker[v] = Asker[w] /\ watch[v] = "pending"}) < MaxOut
  /\ \E n \in 1 .. link[Watched[w]].n :
       up' = [up EXCEPT ![Socket(Asker[w])] = Append(@, Frame("watch_request", w, n))]
  /\ watch' = [watch EXCEPT ![w] = "pending"]
  /\ UNCHANGED <<link, member, down, routes, inbound, cut>>

\* The requester's timer, or its tool's signal.
GiveUp(w) ==
  /\ watch[w] = "pending"
  /\ watch' = [watch EXCEPT ![w] = "error"]
  /\ up' = [up EXCEPT ![Socket(Asker[w])] = Append(@, Frame("watch_cancel", w, 0))]
  /\ UNCHANGED <<link, member, down, routes, inbound, cut>>

\* The provider has made its page, or failed or timed out.  One that was cancelled is silent.
Provide(s, w) ==
  /\ w \in inbound[s]
  /\ inbound' = [inbound EXCEPT ![s] = @ \ {w}]
  /\ up' = [up EXCEPT ![Socket(s)] = Append(@, Frame("watch_response", w, 0))]
  /\ UNCHANGED <<link, member, down, routes, watch, cut>>

\* handleBrokerMessage
Hear(s) ==
  LET k == Socket(s)
      f == Head(down[k]) IN
  /\ link[s].open /\ down[k] # <<>>
  /\ down' = [down EXCEPT ![k] = Tail(@)]
  /\ CASE f.type = "watch_request" ->
            IF Cardinality(inbound[s]) >= MaxIn
            THEN /\ up' = [up EXCEPT ![k] = Append(@, Frame("watch_response", f.w, 0))]
                 /\ UNCHANGED <<watch, inbound>>
            ELSE inbound' = [inbound EXCEPT ![s] = @ \cup {f.w}] /\ UNCHANGED <<watch, up>>
       [] f.type = "watch_cancel" ->
            inbound' = [inbound EXCEPT ![s] = @ \ {f.w}] /\ UNCHANGED <<watch, up>>
       [] OTHER ->
            /\ watch' = IF watch[f.w] = "pending"
                        THEN [watch EXCEPT ![f.w] = IF f.type = "watch_page" THEN "page" ELSE "error"]
                        ELSE watch
            /\ UNCHANGED <<inbound, up>>
  /\ UNCHANGED <<link, member, routes, cut>>

---------------------------------------------------------------------------
(* The broker *)

ClearWatches_OfTheTarget(k) ==
  LET mine == {r \in routes : TargetSocket(r) = k} IN
  /\ routes' = routes \ mine
  /\ down' = Written({[to |-> AskerSocket(r), frame |-> Frame("watch_error", r.w, 0)] : r \in mine})

\* clearWatches: the other side of each watch of the socket is told.
ClearWatches(k) ==
  LET mine == {r \in routes : k \in {AskerSocket(r), TargetSocket(r)}} IN
  /\ routes' = routes \ mine
  /\ down' = Written({[to |-> TargetSocket(r), frame |-> Frame("watch_cancel", r.w, 0)] :
                        r \in {x \in mine : TargetSocket(x) # k}}
               \cup  {[to |-> AskerSocket(r), frame |-> Frame("watch_error", r.w, 0)] :
                        r \in {x \in mine : AskerSocket(x) # k}})

\* register replaces a session that is still there; close and unregister remove it.
HandleSession(s, n, f) ==
  /\ \/ /\ f.type = "register" /\ member[s] # n
        /\ ClearWatches(<<s, member[s]>>)
        /\ member' = [member EXCEPT ![s] = n]
     \/ /\ f.type = "close"
        /\ ClearWatches(<<s, n>>)
        /\ member' = IF member[s] = n THEN [member EXCEPT ![s] = 0] ELSE member
  /\ UNCHANGED cut

\* watch_request: a target that is gone or was listed on another socket, and a requester or
\* a target with too many watches, end it at once.
HandleRequest(s, n, f) ==
  LET t == Watched[f.w] IN
  /\ f.type = "watch_request" /\ member[s] = n
  /\ IF member[t] # f.n
        \/ Cardinality({r \in routes : AskerSocket(r) = <<s, n>>}) >= MaxOut
        \/ Cardinality({r \in routes : TargetSocket(r) = <<t, f.n>>}) >= MaxIn
     THEN /\ down' = Written({[to |-> <<s, n>>, frame |-> Frame("watch_error", f.w, 0)]})
          /\ UNCHANGED routes
     ELSE /\ routes' = routes \cup {[w |-> f.w, asker |-> n, target |-> f.n]}
          /\ down' = Written({[to |-> <<t, f.n>>, frame |-> Frame("watch_request", f.w, 0)]})
  /\ UNCHANGED <<member, cut>>

\* watch_response: late ones are dropped; one of a route whose sessions have changed is taken
\* for a forgery, and costs the sender its socket.
HandleResponse(s, n, f) ==
  LET mine == {r \in routes : r.w = f.w} IN
  /\ f.type = "watch_response"
  /\ IF mine = {} THEN UNCHANGED <<routes, down, cut>>
     ELSE LET r == CHOOSE x \in mine : TRUE IN
          IF TargetSocket(r) # <<s, n>> \/ member[s] # r.target \/ member[Asker[f.w]] # r.asker
          THEN cut' = cut \cup {<<s, n>>} /\ UNCHANGED <<routes, down>>
          ELSE /\ routes' = routes \ {r}
               /\ down' = Written({[to |-> AskerSocket(r), frame |-> Frame("watch_page", f.w, 0)]})
               /\ UNCHANGED cut
  /\ UNCHANGED member

HandleCancel(s, n, f) ==
  LET mine == {r \in routes : r.w = f.w /\ AskerSocket(r) = <<s, n>>} IN
  /\ f.type = "watch_cancel"
  /\ routes' = routes \ mine
  /\ down' = Written({[to |-> TargetSocket(r), frame |-> Frame("watch_cancel", r.w, 0)] : r \in mine})
  /\ UNCHANGED <<member, cut>>

\* A frame of a socket is handled.  A watch_request of a socket that is no longer the session's
\* destroys that socket.
Handle(s, n) ==
  /\ up[<<s, n>>] # <<>>
  /\ LET f == Head(up[<<s, n>>]) IN
       \/ HandleSession(s, n, f) \/ HandleRequest(s, n, f)
       \/ HandleResponse(s, n, f) \/ HandleCancel(s, n, f)
       \/ /\ f.type = "watch_request" /\ member[s] # n
          /\ UNCHANGED <<member, routes, down, cut>>
  /\ up' = [up EXCEPT ![<<s, n>>] = Tail(@)]
  /\ UNCHANGED <<link, watch, inbound>>

\* The broker's timer.
RouteTimeout(r) ==
  /\ routes' = routes \ {r}
  /\ down' = Written({[to |-> AskerSocket(r), frame |-> Frame("watch_error", r.w, 0)],
                      [to |-> TargetSocket(r), frame |-> Frame("watch_cancel", r.w, 0)]})
  /\ UNCHANGED <<link, member, up, watch, inbound, cut>>

WatchNext ==
  \/ \E s \in Watchers : Open(s) \/ LoseSocket(s) \/ Hear(s) \/ \E w \in Watches : Provide(s, w)
  \/ \E w \in Watches : Watch(w) \/ GiveUp(w)
  \/ \E k \in WatchSockets : Handle(k[1], k[2])
  \/ \E r \in routes : RouteTimeout(r)

\* Nothing has to happen: the property is about what may not.
WatchSpec == WatchInit /\ [][WatchNext]_watchVars

---------------------------------------------------------------------------
(* Properties *)

\* A target that does what the protocol asks is never cut off for it: no answer of its own is
\* taken for a forged or stale one, whoever left and came back while it was made.  (The check
\* of watch_response relies on clearWatches having removed every route of a session that
\* is gone.)
NoTargetIsCutOff == cut = {}
=============================================================================
