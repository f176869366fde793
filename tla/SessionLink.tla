----------------------------- MODULE SessionLink -----------------------------
(***************************************************************************)
(* How a session keeps itself connected (src/index.ts): one connection     *)
(* attempt at a time, shared by all who need it; timers that start the     *)
(* first attempt and the retries; and the generations that tell a runtime  *)
(* from the one that replaced it while an attempt was being awaited.       *)
(*                                                                         *)
(* Each attempt makes a client of its own, so an attempt stands for its    *)
(* client and its socket too.  The broker and the network are free to let  *)
(* any attempt fail and any socket close (src/broker/client.ts).           *)
(***************************************************************************)
EXTENDS Naturals

CONSTANTS
  Attempts,   \* calls of ensureConnected that make a client
  Unset,
  MaxGen      \* bound: starts and ends of the session's runtime

ASSUME LinkAssumption == Unset \notin Attempts \cup Nat /\ MaxGen \in Nat

VARIABLES
  gen,        \* runtimeGeneration
  live,       \* has a runtime started that is not shutting down?
  startup,    \* the generation that armed startupConnectTimer, or Unset
  timer,      \* the generation that armed reconnectTimer, or Unset
  promise,    \* the attempt behind reconnectPromise, or Unset
  client,     \* the attempt whose client is the session's, or Unset
  attempt,    \* per attempt: [gen, reason, awaited, phase]
  socket,     \* per attempt: its socket, one of Sockets
  gaveUp      \* history: has an attempt that the startup did not wait for failed since the
              \* session was connected?

timers == <<startup, timer>>
linkVars == <<gen, live, timers, promise, client, attempt, socket, gaveUp>>

Reasons == {"startup", "background", "tool"}   \* "overlay" is treated like "tool"
Phases  == {"spawning", "connecting", "leaving", "over"}
\* "open" is registered, "broken" is closed by the other side or by the heartbeat before the
\* session has heard of it, "closing" is closed by the session.
Sockets == {"none", "open", "broken", "closing", "closed"}

Connected == client # Unset /\ socket[client] = "open"

\* The attempt under way is one of this generation.
Pending == promise # Unset /\ attempt[promise].gen = gen

Belongs(a) == live /\ attempt[a].gen = gen

\* Nothing refers to a, nor to its socket.
Free(a) == attempt[a].phase = "over" /\ socket[a] \in {"none", "closed"} /\ a \notin {client, promise}

\* disconnect() of the session's client: while it has no socket this does nothing, and
\* while it is registering the attempt fails later.
Close(a) ==
  socket' = [c \in Attempts |-> IF c = a /\ socket[c] \in {"open", "broken"} THEN "closing"
                                ELSE socket[c]]

LinkInit ==
  /\ gen = 0 /\ live = FALSE /\ startup = Unset /\ timer = Unset
  /\ promise = Unset /\ client = Unset /\ gaveUp = FALSE
  /\ attempt = [a \in Attempts |->
                  [gen |-> 0, reason |-> "startup", awaited |-> FALSE, phase |-> "over"]]
  /\ socket = [a \in Attempts |-> "none"]

---------------------------------------------------------------------------
(* The runtime *)

\* startSessionRuntime: the attempt under way, if any, is not waited for.
Start ==
  /\ gen < MaxGen
  /\ gen' = gen + 1 /\ live' = TRUE
  /\ startup' = gen + 1 /\ timer' = Unset
  /\ client' = Unset /\ Close(client) /\ gaveUp' = FALSE
  /\ UNCHANGED <<promise, attempt>>

\* session_shutdown
End ==
  /\ live /\ gen < MaxGen
  /\ live' = FALSE /\ gen' = gen + 1
  /\ startup' = Unset /\ timer' = Unset
  /\ client' = Unset /\ Close(client)
  /\ UNCHANGED <<promise, attempt, gaveUp>>

---------------------------------------------------------------------------
(* Attempts *)

\* ensureConnected: the client that is there, the attempt under way, or a new attempt.
Ensure(reason) ==
  \/ /\ Connected
     /\ UNCHANGED <<promise, client, attempt, socket>>
  \/ /\ ~Connected /\ Pending
     /\ attempt' = [attempt EXCEPT ![promise].awaited = @ \/ reason = "startup"]
     /\ UNCHANGED <<promise, client, socket>>
  \/ /\ ~Connected /\ ~Pending
     /\ \E a \in {b \in Attempts : Free(b)} :
          /\ attempt' = [attempt EXCEPT ![a] = [gen |-> gen, reason |-> reason,
                           awaited |-> reason = "startup", phase |-> "spawning"]]
          /\ client' = a /\ promise' = a
          /\ socket' = [socket EXCEPT ![a] = "none"]

\* Tools, overlays, the outbox and the relays need a client.
Need(reason) ==
  /\ live
  /\ timer' = IF Connected THEN timer ELSE Unset
  /\ Ensure(reason)
  /\ UNCHANGED <<gen, live, startup, gaveUp>>

StartupFires ==
  /\ startup # Unset /\ startup' = Unset
  /\ IF live /\ startup = gen
     THEN Ensure("startup") /\ timer' = (IF Connected THEN timer ELSE Unset)
     ELSE UNCHANGED <<timer, promise, client, attempt, socket>>
  /\ UNCHANGED <<gen, live, gaveUp>>

TimerFires ==
  /\ timer # Unset /\ timer' = Unset
  /\ IF live /\ timer = gen THEN Ensure("background")
                            ELSE UNCHANGED <<promise, client, attempt, socket>>
  /\ UNCHANGED <<gen, live, startup, gaveUp>>

Over(a) == attempt' = [attempt EXCEPT ![a].phase = "over"]

\* scheduleReconnect, with this reconnectPromise: nothing while an attempt is under way.
Schedules(underWay) == live /\ timer = Unset /\ underWay = Unset

\* The attempt fails: its catch and finally blocks, and then the catch of the startup timer.
\* The first calls scheduleReconnect before the second has cleared reconnectPromise.
Fails(a) ==
  LET left == IF promise = a THEN Unset ELSE promise
  IN  /\ Over(a)
      /\ promise' = left
      /\ client' = IF client = a \/ (attempt[a].awaited /\ Belongs(a)) THEN Unset ELSE client
      /\ timer' = IF Belongs(a) /\ (\/ attempt[a].reason = "background" /\ Schedules(promise)
                                    \/ attempt[a].awaited /\ Schedules(left))
                  THEN gen ELSE timer
      /\ gaveUp' = (gaveUp \/ (Belongs(a) /\ ~attempt[a].awaited))
      /\ UNCHANGED <<gen, live, startup>>

\* spawnBrokerIfNeeded has returned: the client connects, with the registration of whatever
\* runtime there is now.
Spawned(a) ==
  /\ attempt[a].phase = "spawning"
  /\ IF live
     THEN /\ attempt' = [attempt EXCEPT ![a].phase = "connecting"]
          /\ UNCHANGED <<gen, live, timers, promise, client, gaveUp>>
     ELSE Fails(a)
  /\ UNCHANGED socket

SpawnFails(a) == attempt[a].phase = "spawning" /\ Fails(a) /\ UNCHANGED socket

Registered_Unchecked(a) ==
  /\ attempt[a].phase = "connecting"
  /\ Over(a) /\ client' = a /\ gaveUp' = FALSE
  /\ promise' = IF promise = a THEN Unset ELSE promise
  /\ socket' = [socket EXCEPT ![a] = "open"]
  /\ UNCHANGED <<gen, live, timers>>

\* The broker has registered the client.  An attempt that another runtime made leaves.
Registered(a) ==
  /\ attempt[a].phase = "connecting"
  /\ IF Belongs(a)
     THEN /\ Over(a) /\ client' = a /\ gaveUp' = FALSE
          /\ promise' = IF promise = a THEN Unset ELSE promise
          /\ socket' = [socket EXCEPT ![a] = "open"]
     ELSE /\ attempt' = [attempt EXCEPT ![a].phase = "leaving"]
          /\ socket' = [socket EXCEPT ![a] = "closing"]
          /\ UNCHANGED <<client, promise, gaveUp>>
  /\ UNCHANGED <<gen, live, timers>>

ConnectFails(a) ==
  /\ attempt[a].phase = "connecting"
  /\ Fails(a) /\ socket' = [socket EXCEPT ![a] = "closed"]

\* disconnect() of a stale attempt is done.
Left(a) ==
  /\ attempt[a].phase = "leaving"
  /\ Fails(a) /\ socket' = [socket EXCEPT ![a] = "closed"]

Lost_OfAny(a) ==
  /\ socket[a] \in {"open", "broken", "closing"} /\ attempt[a].phase = "over"
  /\ socket' = [socket EXCEPT ![a] = "closed"]
  /\ client' = Unset
  /\ timer' = IF live THEN (IF promise = Unset THEN gen ELSE Unset) ELSE timer
  /\ UNCHANGED <<gen, live, startup, promise, attempt, gaveUp>>

Lost_Waits(a) ==
  /\ socket[a] \in {"open", "broken", "closing"} /\ attempt[a].phase = "over"
  /\ socket' = [socket EXCEPT ![a] = "closed"]
  /\ IF client = a /\ socket[a] # "closing" THEN client' = Unset ELSE UNCHANGED client
  /\ UNCHANGED <<gen, live, startup, timer, promise, attempt, gaveUp>>

\* The socket is no longer good for anything; its close event is to come.
Break(a) ==
  /\ socket[a] = "open" /\ socket' = [socket EXCEPT ![a] = "broken"]
  /\ UNCHANGED <<gen, live, timers, promise, client, attempt, gaveUp>>

\* The socket closes.  If it is the client's, and the client did not ask for it, a
\* reconnection is scheduled.
Lost(a) ==
  /\ socket[a] \in {"open", "broken", "closing"} /\ attempt[a].phase = "over"
  /\ socket' = [socket EXCEPT ![a] = "closed"]
  /\ IF client = a /\ socket[a] # "closing"
     THEN /\ client' = Unset
          /\ timer' = IF live THEN (IF promise = Unset THEN gen ELSE Unset) ELSE timer
     ELSE UNCHANGED <<client, timer>>
  /\ UNCHANGED <<gen, live, startup, promise, attempt, gaveUp>>

---------------------------------------------------------------------------

LinkNext ==
  \/ Start \/ End \/ StartupFires \/ TimerFires
  \/ \E reason \in {"background", "tool"} : Need(reason)
  \/ \E a \in Attempts : \/ Spawned(a) \/ SpawnFails(a)
                         \/ Registered(a) \/ ConnectFails(a) \/ Left(a)
                         \/ Break(a) \/ Lost(a)

LinkSpec == LinkInit /\ [][LinkNext]_linkVars

---------------------------------------------------------------------------
(* Properties *)

\* A socket that is registered is the session's: no attempt, however late it comes back
\* and whatever has replaced the runtime meanwhile, leaves one open behind its back.
OpenIsOwned ==
  \A a \in Attempts : socket[a] = "open" => client = a /\ live /\ attempt[a].gen = gen

\* The session works on the attempt under way, or on none, and on one at a time.
OneAttempt ==
  /\ Pending => client = promise
  /\ \A a \in Attempts : Belongs(a) /\ attempt[a].phase # "over" => promise = a

\* A session that is offline has an attempt under way or a timer that starts one, or
\* will hear that its socket closed; unless an attempt has failed that was not the first.
NotForgotten ==
  live /\ ~Connected =>
    \/ startup = gen \/ timer = gen \/ Pending \/ gaveUp
    \/ client # Unset /\ socket[client] = "broken"

\* "already queued the next retry": an attempt of the retry timer, or of another background
\* caller, that fails leaves a timer behind that starts the next.
FailureQueuesRetry ==
  [][\A a \in Attempts :
       Belongs(a) /\ attempt[a].reason = "background" /\ attempt[a].phase # "over"
         /\ attempt'[a].phase = "over" /\ socket'[a] # "open"
       => timer' = gen \/ startup' = gen]_linkVars

\* The timers, the promise and the attempts hold what they should.
LinkTypeOK ==
  /\ gen \in 0..MaxGen /\ live \in BOOLEAN /\ gaveUp \in BOOLEAN
  /\ startup \in Nat \cup {Unset} /\ timer \in Nat \cup {Unset}
  /\ promise \in Attempts \cup {Unset} /\ client \in Attempts \cup {Unset}
  /\ attempt \in [Attempts -> [gen : Nat, reason : Reasons, awaited : BOOLEAN, phase : Phases]]
  /\ socket \in [Attempts -> Sockets]
=============================================================================
