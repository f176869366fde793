---------------------------- MODULE BrokerClient ----------------------------
(***************************************************************************)
(* IntercomClient (src/broker/client.ts): one connection of a session to   *)
(* the broker, and the calls made over it.  A call that sends a message    *)
(* or cancels one is settled by the answer that names its message, a list  *)
(* by the answer to its request; each has a timer, and the end of the      *)
(* connection fails what is left.  A heartbeat lists the sessions now and  *)
(* then, and destroys a socket on which nobody answers any more.           *)
(*                                                                         *)
(* The session makes a client for each attempt, so a client connects once  *)
(* (SessionLink).  The broker answers the frames of a socket in order, and *)
(* may stop answering at any time while the socket stays open.             *)
(***************************************************************************)
EXTENDS Naturals, Sequences

CONSTANTS
  Calls,       \* calls of send, cancelMessage and listSessions
  MessageIds,
  Probe,       \* the list the heartbeat asks for
  NoCall,
  Overlaps     \* may a call name a message for which another call waits?

ASSUME ClientAssumption ==
  /\ NoCall \notin Calls \cup {Probe} \cup MessageIds /\ Probe \notin Calls
  /\ Overlaps \in BOOLEAN

VARIABLES
  tcp,          \* what has become of the socket
  disconnecting, \* disconnecting
  registered,    \* _sessionId # null
  connecting,    \* what connect() has answered
  leaving,       \* what disconnect() has answered
  told,          \* history: has "disconnected" been emitted?
  call,          \* per call: [kind, id, stage]
  pendingSends,  \* per message: the call its answer settles, or NoCall
  pendingLists,  \* the calls, and Probe, whose list is awaited
  wire,          \* frames the broker has not answered, oldest first
  mute           \* has the broker stopped answering?

tcpVars   == <<tcp, disconnecting, registered, connecting, leaving, told>>
callVars   == <<call, pendingSends, pendingLists>>
clientVars == <<tcpVars, callVars, wire, mute>>

\* "ended" is half-closed by disconnect(), "dead" is closed while the close event is due.
Sockets == {"none", "opening", "open", "ended", "dead", "closed"}
Kinds   == {"send", "exact", "cancel", "list"}
Waiting == {"listing", "sent", "relisting", "resent"}
Answers == {"delivered", "failed", "rebound"}
Frames  == [of : Calls \cup {Probe}, type : {"list", "send", "cancel_message"},
            id : MessageIds \cup {NoCall}]

ClientTypeOK ==
  /\ tcp \in Sockets
  /\ {disconnecting, registered, told, mute} \subseteq BOOLEAN
  /\ connecting \in {"no", "pending", "resolved", "rejected"}
  /\ leaving \in {"no", "pending", "resolved"}
  /\ call \in [Calls -> [kind : Kinds, id : MessageIds \cup {NoCall},
                         stage : Waiting \cup {"idle", "done", "stuck"}]]
  /\ pendingSends \in [MessageIds -> Calls \cup {NoCall}]
  /\ pendingLists \subseteq Calls \cup {Probe}
  /\ wire \in Seq(Frames)

ClientInit ==
  /\ tcp = "none" /\ disconnecting = FALSE /\ registered = FALSE
  /\ connecting = "no" /\ leaving = "no" /\ told = FALSE /\ mute = FALSE
  /\ call = [c \in Calls |-> [kind |-> "list", id |-> NoCall, stage |-> "idle"]]
  /\ pendingSends = [m \in MessageIds |-> NoCall]
  /\ pendingLists = {} /\ wire = <<>>

---------------------------------------------------------------------------
(* The connection *)

\* isConnected, requireActiveSocket
Active == tcp = "open" /\ registered /\ ~disconnecting

\* The close event of a socket settles only the lists.
FailPending_Lists ==
  /\ call' = [c \in Calls |->
                IF c \in pendingLists
                THEN [call[c] EXCEPT !.stage = "done"] ELSE call[c]]
  /\ pendingSends' = [m \in MessageIds |-> NoCall]
  /\ pendingLists' = {}

\* failPending: every call an entry refers to is rejected.
FailPending ==
  /\ call' = [c \in Calls |->
                IF c \in pendingLists \cup {pendingSends[m] : m \in MessageIds}
                THEN [call[c] EXCEPT !.stage = "done"] ELSE call[c]]
  /\ pendingSends' = [m \in MessageIds |-> NoCall]
  /\ pendingLists' = {}

\* connect()
Dial ==
  /\ tcp = "none"
  /\ tcp' = "opening" /\ connecting' = "pending"
  /\ UNCHANGED <<disconnecting, registered, leaving, told, callVars, wire, mute>>

\* "registered" arrives, also after disconnect() has half-closed the socket.
Registered ==
  /\ tcp \in {"opening", "ended"} /\ connecting = "pending" /\ ~mute
  /\ registered' = TRUE /\ connecting' = "resolved"
  /\ tcp' = IF tcp = "opening" THEN "open" ELSE tcp
  /\ UNCHANGED <<disconnecting, leaving, told, callVars, wire, mute>>

\* The connection is refused, the broker answers with an error or with garbage, or nothing
\* comes in time: the listeners go first, so onClose does not run.
ConnectFails ==
  /\ tcp \in {"opening", "ended"} /\ connecting = "pending"
  /\ tcp' = "closed" /\ connecting' = "rejected"
  /\ leaving' = IF leaving = "pending" THEN "resolved" ELSE leaving
  /\ UNCHANGED <<disconnecting, registered, told, callVars, wire, mute>>

\* The socket ends: closed by the broker or by an error, or, after a disconnect, by its
\* timer of two seconds.
Lose ==
  /\ tcp \in {"opening", "open", "ended"}
  /\ tcp' = "dead" /\ wire' = <<>>
  /\ UNCHANGED <<disconnecting, registered, connecting, leaving, told, callVars, mute>>

\* onClose
CloseEvent ==
  /\ tcp = "dead"
  /\ tcp' = "closed" /\ disconnecting' = FALSE /\ registered' = FALSE
  /\ connecting' = IF connecting = "pending" THEN "rejected" ELSE connecting
  /\ told' = (told \/ (connecting = "resolved" /\ ~disconnecting))
  /\ leaving' = IF leaving = "pending" THEN "resolved" ELSE leaving
  /\ FailPending
  /\ UNCHANGED <<wire, mute>>

\* disconnect(): what is pending fails at once.  When that is a heartbeat, its failure
\* destroys the socket; otherwise the socket is half-closed.
Disconnect ==
  /\ tcp \in {"opening", "open"} /\ leaving = "no"
  /\ disconnecting' = TRUE /\ leaving' = "pending"
  /\ tcp' = IF Probe \in pendingLists THEN "dead" ELSE "ended"
  /\ wire' = IF Probe \in pendingLists THEN <<>> ELSE wire
  /\ FailPending
  /\ UNCHANGED <<registered, connecting, told, mute>>

\* The broker hangs, or the machine it ran on is gone.
GoMute == ~mute /\ mute' = TRUE /\ UNCHANGED <<tcpVars, callVars, wire>>

---------------------------------------------------------------------------
(* Calls *)

Frame(c, type, m) == [of |-> c, type |-> type, id |-> m]

\* sendOnce, cancelMessage: the entry of the message is the latest call's.
Post(c, m, type) ==
  /\ pendingSends' = [pendingSends EXCEPT ![m] = c]
  /\ wire' = Append(wire, Frame(c, type, m))

List(c) ==
  /\ pendingLists' = pendingLists \cup {c}
  /\ wire' = Append(wire, Frame(c, "list", NoCall))

\* A call of the session's.  A message to a broker that supports exact sends is preceded
\* by a list, from which its target is taken.
BeginCall(c, kind, m) ==
  /\ tcp # "none" /\ call[c].stage = "idle"
  /\ (kind = "list") = (m = NoCall)
  /\ kind # "list" =>
       Overlaps \/ \A d \in Calls : call[d].stage \in Waiting => call[d].id # m
  /\ call' = [call EXCEPT ![c] =
       [kind |-> kind, id |-> m,
        stage |-> CASE ~Active -> "done"
                    [] Active /\ kind \in {"list", "exact"} -> "listing"
                    [] OTHER -> "sent"]]
  /\ CASE ~Active -> UNCHANGED <<pendingSends, pendingLists, wire>>
       [] Active /\ kind \in {"list", "exact"} -> List(c) /\ UNCHANGED pendingSends
       [] Active /\ kind = "send" -> Post(c, m, "send") /\ UNCHANGED pendingLists
       [] OTHER -> Post(c, m, "cancel_message") /\ UNCHANGED pendingLists
  /\ UNCHANGED <<tcpVars, mute>>

\* The sessions of an exact send name its target, or none; on the second list, none means
\* that the first answer stands.
Listed(c) ==
  LET w == Tail(wire) IN
  CASE call[c].kind = "exact" /\ call[c].stage = "listing" ->
         /\ call' = [call EXCEPT ![c].stage = "sent"]
         /\ pendingSends' = [pendingSends EXCEPT ![call[c].id] = c]
         /\ wire' = Append(w, Frame(c, "send", call[c].id))
    [] call[c].stage = "relisting" ->
         \/ /\ call' = [call EXCEPT ![c].stage = "resent"]
            /\ pendingSends' = [pendingSends EXCEPT ![call[c].id] = c]
            /\ wire' = Append(w, Frame(c, "send", call[c].id))
         \/ /\ call' = [call EXCEPT ![c].stage = "done"]
            /\ wire' = w /\ UNCHANGED pendingSends
    [] OTHER ->
         /\ call' = [call EXCEPT ![c].stage = "done"]
         /\ wire' = w /\ UNCHANGED pendingSends

\* "sessions": a request that is no longer waited for is left alone.
AnswerList ==
  LET f == Head(wire) IN
  /\ ~mute /\ wire # <<>> /\ f.type = "list" /\ tcp = "open"
  /\ pendingLists' = pendingLists \ {f.of}
  /\ IF f.of \in pendingLists /\ f.of # Probe
     THEN Listed(f.of)
     ELSE wire' = Tail(wire) /\ UNCHANGED <<call, pendingSends>>
  /\ UNCHANGED <<tcpVars, mute>>

\* "delivered" and "delivery_failed" settle the call that is waiting for the message they
\* name.  An exact send whose target was rebound lists once more.
AnswerSend(how) ==
  LET f == Head(wire)
      c == pendingSends[f.id] IN
  /\ ~mute /\ wire # <<>> /\ f.type # "list" /\ tcp = "open"
  /\ how = "rebound" => call[f.of].kind = "exact"
  /\ pendingSends' = [pendingSends EXCEPT ![f.id] = NoCall]
  /\ IF c # NoCall /\ how = "rebound" /\ call[c].kind = "exact" /\ call[c].stage = "sent"
     THEN /\ call' = [call EXCEPT ![c].stage = "relisting"]
          /\ pendingLists' = pendingLists \cup {c}
          /\ wire' = Append(Tail(wire), Frame(c, "list", NoCall))
     ELSE /\ call' = IF c = NoCall THEN call
                     ELSE [call EXCEPT ![c].stage = "done"]
          /\ wire' = Tail(wire) /\ UNCHANGED pendingLists
  /\ UNCHANGED <<tcpVars, mute>>

\* A timer looks for an entry under the message's id, and drops it, whoever it belongs to.
\* It fires once: a call it finds no entry for is never settled.
SendTimeout(c) ==
  /\ call[c].stage \in {"sent", "resent"}
  /\ pendingSends' = [pendingSends EXCEPT ![call[c].id] = NoCall]
  /\ call' = IF pendingSends[call[c].id] = NoCall THEN [call EXCEPT ![c].stage = "stuck"]
             ELSE [call EXCEPT ![c].stage = "done"]
  /\ UNCHANGED <<tcpVars, pendingLists, wire, mute>>

ListTimeout(c) ==
  /\ c \in pendingLists
  /\ pendingLists' = pendingLists \ {c}
  /\ call' = [call EXCEPT ![c].stage = "done"]
  /\ UNCHANGED <<tcpVars, pendingSends, wire, mute>>

\* The heartbeat.  One list at a time.
Heartbeat ==
  /\ Active /\ Probe \notin pendingLists
  /\ List(Probe)
  /\ UNCHANGED <<tcpVars, call, pendingSends, mute>>

HeartbeatFails_IfDestroyed ==
  /\ Probe \in pendingLists /\ tcp = "dead"
  /\ pendingLists' = pendingLists \ {Probe}
  /\ UNCHANGED <<tcpVars, call, pendingSends, wire, mute>>

\* The list of the heartbeat fails: unless the client is leaving, the socket is destroyed.
HeartbeatFails ==
  /\ Probe \in pendingLists /\ tcp = "open"
  /\ pendingLists' = pendingLists \ {Probe}
  /\ tcp' = "dead" /\ wire' = <<>>
  /\ UNCHANGED <<disconnecting, registered, connecting, leaving, told, call, pendingSends,
                 mute>>

ClientNext ==
  \/ Dial \/ Registered \/ ConnectFails \/ Lose \/ CloseEvent \/ Disconnect \/ GoMute
  \/ \E c \in Calls, kind \in Kinds, m \in MessageIds \cup {NoCall} : BeginCall(c, kind, m)
  \/ AnswerList
  \/ \E how \in Answers : AnswerSend(how)
  \/ \E c \in Calls : SendTimeout(c) \/ ListTimeout(c)
  \/ Heartbeat \/ HeartbeatFails

\* Timers fire, and a closed socket's event comes.
ClientFairness ==
  /\ \A c \in Calls : WF_clientVars(SendTimeout(c)) /\ WF_clientVars(ListTimeout(c))
  /\ WF_clientVars(ConnectFails) /\ WF_clientVars(CloseEvent)
  /\ WF_clientVars(Heartbeat) /\ WF_clientVars(HeartbeatFails)
  /\ WF_clientVars(tcp = "ended" /\ connecting # "pending" /\ Lose)

ClientSpec == ClientInit /\ [][ClientNext]_clientVars /\ ClientFairness

---------------------------------------------------------------------------
(* Properties *)

\* The tables and the calls agree: a call that waits for a list or for an answer has an entry
\* that will settle it, an entry belongs to a call that waits for it, and a connection that
\* is over has left none (sendOnce, cancelMessage, failPending).
NothingIsForgotten ==
  /\ \A c \in Calls :
       /\ call[c].stage # "stuck"
       /\ call[c].stage \in {"listing", "relisting"} <=> c \in pendingLists
       /\ call[c].stage \in {"sent", "resent"} <=>
            \E m \in MessageIds : pendingSends[m] = c /\ m = call[c].id
  /\ tcp \in {"none", "opening", "ended", "closed"} =>
       pendingLists = {} /\ \A m \in MessageIds : pendingSends[m] = NoCall

\* Nobody waits for ever on a broker that has stopped answering although its socket stays
\* open: every call ends, and the session is told that the connection is lost, unless it had
\* asked for the end itself or never had one (the timers of sendOnce, cancelMessage and
\* listSessions, startLivenessHeartbeat, disconnect).
NobodyWaitsForever ==
  /\ \A c \in Calls : call[c].stage \in Waiting ~> call[c].stage = "done"
  /\ mute /\ tcp # "none" ~>
       tcp = "closed" /\ (told \/ connecting = "rejected" \/ leaving = "resolved")
=============================================================================
