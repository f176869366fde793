---------------------------- MODULE SessionProofs ----------------------------
(* What holds of the parts of a session, for any number of attempts and of     *)
(* replaced runtimes, of requests, events and results.                         *)
EXTENDS SessionLink, ReplyTracker, Outbox, WatchRoutes, WatchHistory, EvidenceInbox, Extrema,
        FiniteSetTheorems, SequenceTheorems, TLAPS

---------------------------------------------------------------------------
(* The link (SessionLink) *)

\* No attempt is of a generation to come.
NoneAhead == \A a \in Attempts : attempt[a].gen <= gen

\* The promise is of an attempt that is not over.
PromiseIsUnderWay == promise # Unset => attempt[promise].phase # "over"

\* An attempt that is not over has not been connected yet.
NotYetOpen ==
  \A a \in Attempts : attempt[a].phase # "over" => socket[a] \notin {"open", "broken"}

\* The session's client was made for the runtime there is, and once it has been connected
\* no attempt is under way, not even one that an earlier runtime made.
ClientIsCurrent ==
  client # Unset =>
    /\ live /\ attempt[client].gen = gen
    /\ socket[client] \in {"open", "broken"} => promise = Unset

\* Timers of a runtime that has been replaced are cleared.
TimersAreCurrent ==
  /\ startup # Unset => live /\ startup = gen
  /\ timer # Unset => live /\ timer = gen

LinkInv ==
  /\ LinkTypeOK /\ OpenIsOwned /\ OneAttempt /\ NotForgotten
  /\ NoneAhead /\ PromiseIsUnderWay /\ NotYetOpen /\ ClientIsCurrent /\ TimersAreCurrent

LEMMA InitLink == LinkInit => LinkInv
<1> SUFFICES ASSUME LinkInit PROVE LinkInv
  OBVIOUS
<1>1. LinkTypeOK
  <2>1. [gen |-> 0, reason |-> "startup", awaited |-> FALSE, phase |-> "over"]
          \in [gen : Nat, reason : Reasons, awaited : BOOLEAN, phase : Phases]
    BY DEF Reasons, Phases
  <2>2. attempt \in [Attempts -> [gen : Nat, reason : Reasons, awaited : BOOLEAN, phase : Phases]]
    BY <2>1 DEF LinkInit
  <2>3. gen \in 0..MaxGen /\ socket \in [Attempts -> Sockets]
    BY LinkAssumption DEF LinkInit, Sockets
  <2> QED BY <2>2, <2>3 DEF LinkInit, LinkTypeOK
<1>2. OpenIsOwned /\ NotForgotten /\ NotYetOpen
  BY DEF LinkInit, OpenIsOwned, NotForgotten, NotYetOpen
<1>3. OneAttempt /\ NoneAhead /\ PromiseIsUnderWay /\ ClientIsCurrent /\ TimersAreCurrent
  BY DEF LinkInit, OneAttempt, NoneAhead, PromiseIsUnderWay, ClientIsCurrent, TimersAreCurrent,
         Pending, Belongs
<1> QED BY <1>1, <1>2, <1>3 DEF LinkInv

---------------------------------------------------------------------------
(* The runtime *)

\* A runtime that starts or ends closes the client it had and leaves nothing of its own.
LEMMA Restarts ==
  ASSUME LinkInv, Start \/ End
  PROVE  LinkInv'
<1> USE LinkAssumption DEF LinkInv, LinkTypeOK, timers
<1>1. /\ gen' = gen + 1 /\ timer' = Unset /\ client' = Unset /\ Close(client)
      /\ promise' = promise /\ attempt' = attempt /\ gen < MaxGen
  BY DEF Start, End
<1>2. (live' = TRUE /\ startup' = gen') \/ (live' = FALSE /\ startup' = Unset)
  BY DEF Start, End
<1>3. LinkTypeOK'
  <2>1. socket' \in [Attempts -> Sockets]
    BY <1>1 DEF Close, Sockets
  <2>2. gaveUp' \in BOOLEAN
    BY DEF Start, End
  <2>3. gen' \in 0..MaxGen /\ gen' \in Nat
    BY <1>1
  <2> QED BY <1>1, <1>2, <2>1, <2>2, <2>3
<1>4. OpenIsOwned'
  BY <1>1 DEF OpenIsOwned, Close
<1>5. ~Pending' /\ \A a \in Attempts : ~Belongs(a)'
  BY <1>1 DEF Pending, Belongs, NoneAhead
<1>6. OneAttempt'
  BY <1>5 DEF OneAttempt
<1>7. NotForgotten'
  BY <1>1, <1>2 DEF NotForgotten
<1>8. NoneAhead' /\ PromiseIsUnderWay' /\ ClientIsCurrent' /\ TimersAreCurrent'
  BY <1>1, <1>2 DEF NoneAhead, PromiseIsUnderWay, ClientIsCurrent, TimersAreCurrent
<1>9. NotYetOpen'
  BY <1>1 DEF NotYetOpen, Close
<1> QED BY <1>3, <1>4, <1>6, <1>7, <1>8, <1>9

---------------------------------------------------------------------------
(* ensureConnected *)

\* A caller finds a client or an attempt, or makes one; either way the session is connected
\* or an attempt is under way.
LEMMA Ensures ==
  ASSUME LinkInv, live, NEW reason \in Reasons, Ensure(reason),
         gen' = gen, live' = live, startup' \in {startup, Unset},
         timer' \in {timer, Unset}, gaveUp' = gaveUp
  PROVE  LinkInv'
<1> USE LinkAssumption DEF LinkInv, LinkTypeOK
<1>1. CASE Connected /\ UNCHANGED <<promise, client, attempt, socket>>
  BY <1>1 DEF OpenIsOwned, OneAttempt, NotForgotten, NoneAhead, PromiseIsUnderWay, NotYetOpen,
              ClientIsCurrent, TimersAreCurrent, Pending, Belongs, Connected
<1>2. CASE /\ Pending
           /\ attempt' = [attempt EXCEPT ![promise].awaited = @ \/ reason = "startup"]
           /\ UNCHANGED <<promise, client, socket>>
  <2>1. /\ attempt' \in [Attempts -> [gen : Nat, reason : Reasons, awaited : BOOLEAN, phase : Phases]]
        /\ \A a \in Attempts : attempt'[a].gen = attempt[a].gen /\ attempt'[a].phase = attempt[a].phase
    BY <1>2
  <2>2. LinkTypeOK'
    BY <1>2, <2>1
  <2> QED BY <1>2, <2>1, <2>2 DEF OpenIsOwned, OneAttempt, NotForgotten, NoneAhead,
             PromiseIsUnderWay, NotYetOpen, ClientIsCurrent, TimersAreCurrent, Pending, Belongs
<1>3. ASSUME ~Connected, ~Pending, NEW a \in Attempts, Free(a),
             attempt' = [attempt EXCEPT ![a] = [gen |-> gen, reason |-> reason,
                           awaited |-> reason = "startup", phase |-> "spawning"]],
             client' = a, promise' = a, socket' = [socket EXCEPT ![a] = "none"]
      PROVE  LinkInv'
  <2>1. [gen |-> gen, reason |-> reason, awaited |-> reason = "startup", phase |-> "spawning"]
          \in [gen : Nat, reason : Reasons, awaited : BOOLEAN, phase : Phases]
    BY DEF Phases
  <2>2. LinkTypeOK'
    BY <1>3, <2>1 DEF Sockets
  <2>3. \A b \in Attempts : socket[b] # "open"
    BY <1>3 DEF OpenIsOwned, Connected
  <2>4. \A b \in Attempts \ {a} : attempt'[b] = attempt[b] /\ socket'[b] = socket[b]
    BY <1>3
  <2>5. attempt'[a].gen = gen /\ attempt'[a].phase = "spawning" /\ socket'[a] = "none"
    BY <1>3
  <2>6. Pending'
    BY <1>3, <2>5 DEF Pending
  <2>7. OpenIsOwned'
    BY <2>3, <2>4, <2>5 DEF OpenIsOwned
  <2>8. OneAttempt'
    <3>1. \A b \in Attempts : Belongs(b) => attempt[b].phase = "over"
      BY <1>3 DEF OneAttempt, Pending, Belongs
    <3> QED BY <1>3, <2>4, <3>1 DEF OneAttempt, Belongs
  <2>9. NotForgotten'
    BY <2>6 DEF NotForgotten
  <2>10. NoneAhead' /\ PromiseIsUnderWay' /\ NotYetOpen' /\ ClientIsCurrent' /\ TimersAreCurrent'
    BY <1>3, <2>4, <2>5 DEF NoneAhead, PromiseIsUnderWay, NotYetOpen, ClientIsCurrent, TimersAreCurrent
  <2> QED BY <2>2, <2>7, <2>8, <2>9, <2>10
<1> QED BY <1>1, <1>2, <1>3 DEF Ensure

---------------------------------------------------------------------------
(* Attempts *)

\* What changes when an attempt goes from one phase to another.
LEMMA PhaseChanges ==
  ASSUME LinkTypeOK, NEW a \in Attempts, NEW phase \in Phases,
         attempt' = [attempt EXCEPT ![a].phase = phase]
  PROVE  /\ attempt' \in [Attempts -> [gen : Nat, reason : Reasons, awaited : BOOLEAN, phase : Phases]]
         /\ attempt'[a].phase = phase
         /\ \A b \in Attempts : attempt'[b].gen = attempt[b].gen
         /\ \A b \in Attempts \ {a} : attempt'[b] = attempt[b]
BY DEF LinkTypeOK

\* The catch and finally blocks of an attempt, whoever waits for it and whatever has replaced
\* the runtime by then.
LEMMA Failures ==
  ASSUME LinkInv, NEW a \in Attempts, attempt[a].phase # "over", Fails(a),
         socket' \in {socket, [socket EXCEPT ![a] = "closed"]}
  PROVE  LinkInv'
<1> USE LinkAssumption DEF LinkInv, LinkTypeOK
<1> DEFINE left == IF promise = a THEN Unset ELSE promise
<1>1. /\ Over(a) /\ promise' = left /\ gen' = gen /\ live' = live /\ startup' = startup
      /\ client' = IF client = a \/ (attempt[a].awaited /\ Belongs(a)) THEN Unset ELSE client
      /\ timer' = IF Belongs(a) /\ (\/ attempt[a].reason = "background" /\ Schedules(promise)
                                    \/ attempt[a].awaited /\ Schedules(left))
                  THEN gen ELSE timer
      /\ gaveUp' = (gaveUp \/ (Belongs(a) /\ ~attempt[a].awaited))
  BY Zenon DEF Fails
<1>2. /\ attempt' \in [Attempts -> [gen : Nat, reason : Reasons, awaited : BOOLEAN, phase : Phases]]
      /\ attempt'[a].phase = "over"
      /\ \A b \in Attempts : attempt'[b].gen = attempt[b].gen
      /\ \A b \in Attempts \ {a} : attempt'[b] = attempt[b]
  BY <1>1, PhaseChanges DEF Over, Phases
<1>3. /\ socket' \in [Attempts -> Sockets]
      /\ \A b \in Attempts \ {a} : socket'[b] = socket[b]
      /\ socket'[a] \notin {"open", "broken"} /\ socket[a] \notin {"open", "broken"}
  BY DEF Sockets, NotYetOpen
<1>4. gaveUp' \in BOOLEAN
  BY <1>1, Zenon DEF Belongs
<1>5. LinkTypeOK'
  BY <1>1, <1>2, <1>3, <1>4
\* It is the one attempt under way, or it is of another runtime and has no client here.
<1>6. Belongs(a) => promise = a /\ client = a
  BY DEF OneAttempt, Belongs, Pending
<1>7. ~Belongs(a) => client # a
  BY DEF ClientIsCurrent, Belongs
<1>8. client' = IF client = a THEN Unset ELSE client
  BY <1>1, <1>6
<1>9. OpenIsOwned'
  BY <1>1, <1>2, <1>3, <1>8 DEF OpenIsOwned
<1>10. OneAttempt'
  BY <1>1, <1>2, <1>8 DEF OneAttempt, Pending, Belongs
<1>11. NotForgotten'
  <2>1. CASE Belongs(a) /\ ~attempt[a].awaited
    BY <1>1, <2>1 DEF NotForgotten
  <2>2. CASE Belongs(a) /\ attempt[a].awaited
    BY <1>1, <1>6, <2>2 DEF NotForgotten, Schedules, Belongs, TimersAreCurrent
  <2>3. CASE ~Belongs(a)
    BY <1>1, <1>2, <1>3, <1>7, <1>8, <2>3 DEF NotForgotten, Pending, Connected, Belongs
  <2> QED BY <2>1, <2>2, <2>3
<1>12. NoneAhead' /\ PromiseIsUnderWay' /\ NotYetOpen'
  BY <1>1, <1>2, <1>3 DEF NoneAhead, PromiseIsUnderWay, NotYetOpen
<1>13. ClientIsCurrent'
  BY <1>1, <1>2, <1>3, <1>8 DEF ClientIsCurrent
<1>14. TimersAreCurrent'
  BY <1>1 DEF TimersAreCurrent, Belongs
<1> QED BY <1>5, <1>9, <1>10, <1>11, <1>12, <1>13, <1>14

LEMMA Spawns ==
  ASSUME LinkInv, NEW a \in Attempts, Spawned(a)
  PROVE  LinkInv'
<1> USE LinkAssumption DEF LinkInv, LinkTypeOK
<1>1. CASE ~live
  BY <1>1, Failures DEF Spawned
<1>2. CASE live
  <2>1. /\ attempt' = [attempt EXCEPT ![a].phase = "connecting"] /\ attempt[a].phase = "spawning"
        /\ UNCHANGED <<gen, live, startup, timer, promise, client, gaveUp, socket>>
    BY <1>2 DEF Spawned, timers
  <2>2. /\ attempt' \in [Attempts -> [gen : Nat, reason : Reasons, awaited : BOOLEAN, phase : Phases]]
        /\ attempt'[a].phase = "connecting"
        /\ \A b \in Attempts : attempt'[b].gen = attempt[b].gen
        /\ \A b \in Attempts \ {a} : attempt'[b] = attempt[b]
    BY <2>1, PhaseChanges DEF Phases
  <2>3. LinkTypeOK'
    BY <2>1, <2>2
  <2>4. OpenIsOwned' /\ OneAttempt' /\ NotForgotten'
    BY <2>1, <2>2 DEF OpenIsOwned, OneAttempt, NotForgotten, Pending, Belongs, Connected
  <2>5. NoneAhead' /\ PromiseIsUnderWay' /\ NotYetOpen' /\ ClientIsCurrent' /\ TimersAreCurrent'
    BY <2>1, <2>2 DEF NoneAhead, PromiseIsUnderWay, NotYetOpen, ClientIsCurrent, TimersAreCurrent
  <2> QED BY <2>3, <2>4, <2>5
<1> QED BY <1>1, <1>2

\* The broker's answer makes the attempt the session's client, or makes it leave.
LEMMA Registrations ==
  ASSUME LinkInv, NEW a \in Attempts, Registered(a)
  PROVE  LinkInv'
<1> USE LinkAssumption DEF LinkInv, LinkTypeOK
<1>1. CASE Belongs(a)
  <2>1. /\ attempt' = [attempt EXCEPT ![a].phase = "over"] /\ attempt[a].phase = "connecting"
        /\ client' = a /\ gaveUp' = FALSE /\ promise' = IF promise = a THEN Unset ELSE promise
        /\ socket' = [socket EXCEPT ![a] = "open"]
        /\ UNCHANGED <<gen, live, startup, timer>>
    BY <1>1 DEF Registered, Over, timers
  <2>2. /\ attempt' \in [Attempts -> [gen : Nat, reason : Reasons, awaited : BOOLEAN, phase : Phases]]
        /\ attempt'[a].phase = "over"
        /\ \A b \in Attempts : attempt'[b].gen = attempt[b].gen
        /\ \A b \in Attempts \ {a} : attempt'[b] = attempt[b]
    BY <2>1, PhaseChanges DEF Phases
  <2>3. /\ socket' \in [Attempts -> Sockets] /\ socket'[a] = "open"
        /\ \A b \in Attempts \ {a} : socket'[b] = socket[b]
    BY <2>1 DEF Sockets
  <2>4. promise = a /\ client = a /\ promise' = Unset
    BY <1>1, <2>1 DEF OneAttempt, Belongs, Pending
  <2>5. LinkTypeOK'
    BY <2>1, <2>2, <2>3, <2>4
  <2>6. OpenIsOwned'
    BY <1>1, <2>1, <2>2, <2>3, <2>4 DEF OpenIsOwned, Belongs
  <2>7. OneAttempt'
    BY <2>1, <2>2, <2>4 DEF OneAttempt, Pending, Belongs
  <2>8. NotForgotten'
    BY <2>1, <2>3 DEF NotForgotten, Connected
  <2>9. NoneAhead' /\ PromiseIsUnderWay' /\ NotYetOpen' /\ ClientIsCurrent' /\ TimersAreCurrent'
    BY <1>1, <2>1, <2>2, <2>3, <2>4
    DEF NoneAhead, PromiseIsUnderWay, NotYetOpen, ClientIsCurrent, TimersAreCurrent, Belongs
  <2> QED BY <2>5, <2>6, <2>7, <2>8, <2>9
<1>2. CASE ~Belongs(a)
  <2>1. /\ attempt' = [attempt EXCEPT ![a].phase = "leaving"] /\ attempt[a].phase = "connecting"
        /\ socket' = [socket EXCEPT ![a] = "closing"]
        /\ UNCHANGED <<gen, live, startup, timer, client, promise, gaveUp>>
    BY <1>2 DEF Registered, timers
  <2>2. /\ attempt' \in [Attempts -> [gen : Nat, reason : Reasons, awaited : BOOLEAN, phase : Phases]]
        /\ attempt'[a].phase = "leaving"
        /\ \A b \in Attempts : attempt'[b].gen = attempt[b].gen
        /\ \A b \in Attempts \ {a} : attempt'[b] = attempt[b]
    BY <2>1, PhaseChanges DEF Phases
  <2>3. /\ socket' \in [Attempts -> Sockets] /\ socket'[a] = "closing"
        /\ \A b \in Attempts \ {a} : socket'[b] = socket[b]
    BY <2>1 DEF Sockets
  <2>4. client # a
    BY <1>2 DEF ClientIsCurrent, Belongs
  <2>5. LinkTypeOK'
    BY <2>1, <2>2, <2>3
  <2>6. OpenIsOwned' /\ NotForgotten'
    BY <2>1, <2>2, <2>3, <2>4 DEF OpenIsOwned, NotForgotten, Pending, Connected
  <2>7. OneAttempt'
    BY <1>2, <2>1, <2>2 DEF OneAttempt, Pending, Belongs
  <2>8. NoneAhead' /\ PromiseIsUnderWay' /\ NotYetOpen' /\ ClientIsCurrent' /\ TimersAreCurrent'
    BY <2>1, <2>2, <2>3, <2>4
    DEF NoneAhead, PromiseIsUnderWay, NotYetOpen, ClientIsCurrent, TimersAreCurrent
  <2> QED BY <2>5, <2>6, <2>7, <2>8
<1> QED BY <1>1, <1>2

---------------------------------------------------------------------------
(* Sockets *)

LEMMA Breaks ==
  ASSUME LinkInv, NEW a \in Attempts, Break(a)
  PROVE  LinkInv'
<1> USE LinkAssumption DEF LinkInv, LinkTypeOK
<1>1. /\ socket[a] = "open" /\ socket' = [socket EXCEPT ![a] = "broken"]
      /\ UNCHANGED <<gen, live, startup, timer, promise, client, attempt, gaveUp>>
  BY DEF Break, timers
<1>2. /\ socket' \in [Attempts -> Sockets] /\ socket'[a] = "broken" /\ client = a
      /\ \A b \in Attempts \ {a} : socket'[b] = socket[b]
  BY <1>1 DEF Sockets, OpenIsOwned
<1>3. LinkTypeOK'
  BY <1>1, <1>2
<1> QED BY <1>1, <1>2, <1>3 DEF OpenIsOwned, OneAttempt, NotForgotten, NoneAhead, PromiseIsUnderWay,
           NotYetOpen, ClientIsCurrent, TimersAreCurrent, Pending, Belongs

LEMMA Losses ==
  ASSUME LinkInv, NEW a \in Attempts, Lost(a)
  PROVE  LinkInv'
<1> USE LinkAssumption DEF LinkInv, LinkTypeOK
<1>1. /\ attempt[a].phase = "over" /\ socket' = [socket EXCEPT ![a] = "closed"]
      /\ socket[a] \in {"open", "broken", "closing"}
      /\ UNCHANGED <<gen, live, startup, promise, attempt, gaveUp>>
  BY DEF Lost
<1>2. /\ socket' \in [Attempts -> Sockets] /\ socket'[a] = "closed"
      /\ \A b \in Attempts \ {a} : socket'[b] = socket[b]
  BY <1>1 DEF Sockets
<1>3. CASE client = a /\ socket[a] # "closing"
  <2>1. promise = Unset /\ live
    BY <1>1, <1>3 DEF ClientIsCurrent
  <2>2. client' = Unset /\ timer' = gen
    BY <1>3, <2>1 DEF Lost
  <2>3. LinkTypeOK'
    BY <1>1, <1>2, <2>2
  <2>4. \A b \in Attempts : socket'[b] # "open"
    BY <1>1, <1>2, <1>3 DEF OpenIsOwned
  <2> QED BY <1>1, <1>2, <2>1, <2>2, <2>3, <2>4
          DEF OpenIsOwned, OneAttempt, NotForgotten, NoneAhead, PromiseIsUnderWay, NotYetOpen,
              ClientIsCurrent, TimersAreCurrent, Pending, Belongs
<1>4. CASE ~(client = a /\ socket[a] # "closing")
  <2>1. UNCHANGED <<client, timer>>
    BY <1>4 DEF Lost
  <2>2. LinkTypeOK'
    BY <1>1, <1>2, <2>1
  <2>3. OpenIsOwned' /\ OneAttempt' /\ NoneAhead' /\ PromiseIsUnderWay' /\ NotYetOpen'
          /\ ClientIsCurrent' /\ TimersAreCurrent'
    BY <1>1, <1>2, <2>1
    DEF OpenIsOwned, OneAttempt, NoneAhead, PromiseIsUnderWay, NotYetOpen, ClientIsCurrent,
        TimersAreCurrent, Pending, Belongs
  <2>4. NotForgotten'
    BY <1>1, <1>2, <1>4, <2>1 DEF NotForgotten, Pending, Connected
  <2> QED BY <2>2, <2>3, <2>4
<1> QED BY <1>3, <1>4

---------------------------------------------------------------------------

\* Whatever is awaited while the runtime is replaced, what the session relies on stays true.
THEOREM LinkInvHolds == LinkSpec => []LinkInv
<1>1. LinkInv /\ [LinkNext]_linkVars => LinkInv'
  <2> SUFFICES ASSUME LinkInv, [LinkNext]_linkVars PROVE LinkInv'
    OBVIOUS
  <2>1. CASE Start \/ End BY <2>1, Restarts
  <2>2. CASE StartupFires
    <3>1. CASE live /\ startup = gen
      BY <2>2, <3>1, Ensures DEF StartupFires, Reasons
    <3>2. CASE ~(live /\ startup = gen)
      BY <2>2, <3>2 DEF StartupFires, LinkInv, TimersAreCurrent
    <3> QED BY <3>1, <3>2
  <2>3. CASE TimerFires
    <3>1. CASE live /\ timer = gen
      BY <2>3, <3>1, Ensures DEF TimerFires, Reasons
    <3>2. CASE ~(live /\ timer = gen)
      BY <2>3, <3>2 DEF TimerFires, LinkInv, TimersAreCurrent
    <3> QED BY <3>1, <3>2
  <2>4. ASSUME NEW reason \in {"background", "tool"}, Need(reason) PROVE LinkInv'
    BY <2>4, Ensures DEF Need, Reasons
  <2>5. ASSUME NEW a \in Attempts, Spawned(a) PROVE LinkInv'
    BY <2>5, Spawns
  <2>6. ASSUME NEW a \in Attempts, SpawnFails(a) \/ ConnectFails(a) \/ Left(a) PROVE LinkInv'
    BY <2>6, Failures DEF SpawnFails, ConnectFails, Left
  <2>7. ASSUME NEW a \in Attempts, Registered(a) PROVE LinkInv'
    BY <2>7, Registrations
  <2>8. ASSUME NEW a \in Attempts, Break(a) \/ Lost(a) PROVE LinkInv'
    BY <2>8, Breaks, Losses
  <2>9. CASE UNCHANGED linkVars
    <3>1. UNCHANGED <<gen, live, startup, timer, promise, client, attempt, socket, gaveUp>>
      BY <2>9 DEF linkVars, timers
    <3> QED BY <3>1
            DEF LinkInv, LinkTypeOK, OpenIsOwned, OneAttempt, NotForgotten, NoneAhead, NotYetOpen,
                PromiseIsUnderWay, ClientIsCurrent, TimersAreCurrent, Pending, Belongs, Connected
  <2> QED BY <2>1, <2>2, <2>3, <2>4, <2>5, <2>6, <2>7, <2>8, <2>9 DEF LinkNext
<1> QED BY <1>1, InitLink, PTL DEF LinkSpec

\* Everything the session keeps about its connection has its type.
THEOREM LinkTypeCorrect == LinkSpec => []LinkTypeOK
<1>1. LinkInv => LinkTypeOK
  BY DEF LinkInv
<1> QED BY <1>1, LinkInvHolds, PTL

\* No registered socket is left open behind the session's back (getLiveContext in
\* ensureConnected, disconnect in startSessionRuntime and session_shutdown).
THEOREM OpenSocketsAreOwned == LinkSpec => []OpenIsOwned
<1>1. LinkInv => OpenIsOwned
  BY DEF LinkInv
<1> QED BY <1>1, LinkInvHolds, PTL

\* Callers share one attempt per runtime (reconnectPromise and its generation).
THEOREM AttemptsAreShared == LinkSpec => []OneAttempt
<1>1. LinkInv => OneAttempt
  BY DEF LinkInv
<1> QED BY <1>1, LinkInvHolds, PTL

\* A session that lost its connection comes back to it, until an attempt fails that the
\* startup did not wait for (attachClientHandlers, scheduleReconnect).
THEOREM LostSessionsRetry == LinkSpec => []NotForgotten
<1>1. LinkInv => NotForgotten
  BY DEF LinkInv
<1> QED BY <1>1, LinkInvHolds, PTL

---------------------------------------------------------------------------
(* The outbox (Outbox) *)

UnderWay == {r \in Chains : request[r].stage \notin {"new", "over"}}

\* A request that is under way has an id of its own, which this runtime or an earlier one has
\* taken, and is pending under it until it has its result.
RequestsHaveTheirIds ==
  \A r \in Requests \cap UnderWay :
    /\ request[r].id \in outboxIds \cup everUsed
    /\ pendingBox[request[r].id] = r \/ outcome[r].is # "none"
    /\ \A q \in Requests \cap UnderWay : request[q].id = request[r].id => q = r

\* What is pending is a request of this runtime that is under way.
BoxIsCurrent ==
  \A i \in RequestIds :
    pendingBox[i] # NoRequest =>
      /\ pendingBox[i] \in UnderWay /\ request[pendingBox[i]].id = i
      /\ request[pendingBox[i]].gen = runtime

OutboxInv == OutboxTypeOK /\ RequestsHaveTheirIds /\ BoxIsCurrent /\ ResultsAreOwn

LEMMA InitOutbox == OutboxInit => OutboxInv
<1> SUFFICES ASSUME OutboxInit PROVE OutboxInv
  OBVIOUS
<1>1. OutboxTypeOK
  <2>1. /\ [id |-> NoRequest, gen |-> 0, stage |-> "new"] \in
             [id : RequestIds \cup {NoRequest}, gen : 0 .. MaxRuntime,
              stage : {"new", "connecting", "finding", "confirming", "sending", "over"}]
        /\ [is |-> "none", by |-> NoRequest] \in
             [is : {"none", "sent", "failed", "rejected"}, by : Chains \cup {Session, NoRequest}]
    BY OutboxAssumption
  <2>2. /\ request \in [Chains -> [id : RequestIds \cup {NoRequest}, gen : 0 .. MaxRuntime,
             stage : {"new", "connecting", "finding", "confirming", "sending", "over"}]]
        /\ outcome \in [Chains -> [is : {"none", "sent", "failed", "rejected"},
                                   by : Chains \cup {Session, NoRequest}]]
    BY <2>1 DEF OutboxInit
  <2>3. runtime \in 0 .. MaxRuntime
    BY OutboxAssumption DEF OutboxInit
  <2> QED BY <2>2, <2>3 DEF OutboxInit, OutboxTypeOK
<1>2. UnderWay = {} /\ \A i \in RequestIds : pendingBox[i] = NoRequest
  BY DEF OutboxInit, UnderWay
<1>3. ResultsAreOwn
  BY DEF OutboxInit, ResultsAreOwn, Chains
<1> QED BY <1>1, <1>2, <1>3 DEF OutboxInv, RequestsHaveTheirIds, BoxIsCurrent

\* A chain that gives its own result takes no other's.
LEMMA Settles ==
  ASSUME OutboxInv, NEW r \in UnderWay, NEW is \in {"sent", "failed"}, Settle(r, is),
         arrived \subseteq arrived', arrived' \subseteq Chains, is = "sent" => r \in arrived',
         UNCHANGED <<runtime, started, outboxIds, everUsed>>
  PROVE  OutboxInv'
<1> USE OutboxAssumption DEF OutboxInv, OutboxTypeOK, Chains
<1>1. OutboxTypeOK'
  BY DEF Settle, UnderWay, RequestsHaveTheirIds
<1>2. UnderWay' = UnderWay \ {r}
  BY DEF Settle, UnderWay
<1>3. CASE r \in Relays
  <2>1. RequestsHaveTheirIds' /\ BoxIsCurrent'
    BY <1>2, <1>3 DEF Settle, RequestsHaveTheirIds, BoxIsCurrent
  <2>2. ResultsAreOwn'
    BY <1>3 DEF Settle, ResultsAreOwn
  <2> QED BY <1>1, <2>1, <2>2
<1>4. CASE r \in Requests
  <2>1. /\ r \notin Relays /\ request[r].id \in RequestIds
        /\ pendingBox[request[r].id] \in {r, NoRequest}
    BY <1>4 DEF RequestsHaveTheirIds, BoxIsCurrent
  <2>2. RequestsHaveTheirIds' /\ BoxIsCurrent'
    BY <1>2, <1>4, <2>1 DEF Settle, RequestsHaveTheirIds, BoxIsCurrent
  <2>3. ResultsAreOwn'
    BY <1>4, <2>1 DEF Settle, ResultsAreOwn, RequestsHaveTheirIds
  <2> QED BY <1>1, <2>2, <2>3
<1> QED BY <1>3, <1>4 DEF UnderWay

\* The requests that are pending when a runtime starts or ends all have the same result.
LEMMA BoxFails ==
  ASSUME OutboxInv, FailBox, runtime' = runtime + 1, runtime < MaxRuntime, started' \in BOOLEAN,
         outboxIds' \subseteq RequestIds, everUsed' \subseteq RequestIds,
         outboxIds \cup everUsed \subseteq outboxIds' \cup everUsed',
         UNCHANGED <<request, arrived>>
  PROVE  OutboxInv'
<1> USE OutboxAssumption DEF OutboxInv, OutboxTypeOK, Chains
<1>1. pendingBox' = [i \in RequestIds |-> NoRequest]
  BY DEF FailBox, BoxIsCurrent
<1>2. OutboxTypeOK'
  BY <1>1 DEF FailBox
<1>3. RequestsHaveTheirIds'
  BY <1>1 DEF FailBox, RequestsHaveTheirIds, UnderWay, BoxIsCurrent
<1>4. BoxIsCurrent'
  BY <1>1 DEF BoxIsCurrent
<1>5. ResultsAreOwn'
  BY DEF FailBox, ResultsAreOwn
<1> QED BY <1>2, <1>3, <1>4, <1>5

\* An id is good for one request: of this runtime, and, if extensions do not use ids again,
\* of all.
LEMMA Submits ==
  ASSUME OutboxInv, ~ReusedLater, NEW r \in Requests, NEW i \in RequestIds, Submit(r, i)
  PROVE  OutboxInv'
<1> USE OutboxAssumption DEF OutboxInv, OutboxTypeOK, Chains
<1>1. i \notin everUsed /\ request[r].stage = "new" /\ r \notin UnderWay
  BY DEF Submit, UnderWay
<1>2. CASE /\ request' = [request EXCEPT ![r] = [id |-> i, gen |-> runtime, stage |-> "over"]]
           /\ outcome' = [outcome EXCEPT ![r] = [is |-> "rejected", by |-> r]]
           /\ UNCHANGED pendingBox
  <2>1. OutboxTypeOK'
    BY <1>2 DEF Submit
  <2>2. UnderWay' = UnderWay
    BY <1>1, <1>2 DEF UnderWay
  <2>3. RequestsHaveTheirIds' /\ BoxIsCurrent'
    BY <1>1, <1>2, <2>2 DEF Submit, RequestsHaveTheirIds, BoxIsCurrent
  <2>4. ResultsAreOwn'
    BY <1>2 DEF Submit, ResultsAreOwn
  <2> QED BY <2>1, <2>3, <2>4
<1>3. CASE /\ i \notin outboxIds /\ started
           /\ request' = [request EXCEPT ![r] = [id |-> i, gen |-> runtime, stage |-> "connecting"]]
           /\ pendingBox' = [pendingBox EXCEPT ![i] = r]
           /\ UNCHANGED outcome
  <2>1. OutboxTypeOK'
    BY <1>3 DEF Submit
  <2>2. UnderWay' = UnderWay \cup {r}
    BY <1>3 DEF UnderWay
  <2>3. \A q \in Requests \cap UnderWay : request[q].id # i
    BY <1>1, <1>3 DEF RequestsHaveTheirIds
  <2>4. RequestsHaveTheirIds' /\ BoxIsCurrent'
    BY <1>1, <1>3, <2>2, <2>3 DEF Submit, RequestsHaveTheirIds, BoxIsCurrent
  <2>5. ResultsAreOwn'
    BY <1>3 DEF Submit, ResultsAreOwn
  <2> QED BY <2>1, <2>4, <2>5
<1> QED BY <1>2, <1>3 DEF Submit

LEMMA OutboxStep == OutboxInv /\ ~ReusedLater /\ [OutboxNext]_outboxVars => OutboxInv'
<1> SUFFICES ASSUME OutboxInv, ~ReusedLater, [OutboxNext]_outboxVars PROVE OutboxInv'
  OBVIOUS
<1>1. ASSUME NEW r \in Relays, Relay(r) PROVE OutboxInv'
  <2> USE OutboxAssumption DEF OutboxInv, OutboxTypeOK, Chains
  <2>1. OutboxTypeOK'
    BY <1>1 DEF Relay
  <2>2. r \notin Requests /\ Requests \cap UnderWay' = Requests \cap UnderWay
    BY <1>1 DEF Relay, UnderWay
  <2>3. RequestsHaveTheirIds' /\ BoxIsCurrent'
    BY <1>1, <2>2 DEF Relay, RequestsHaveTheirIds, BoxIsCurrent, UnderWay
  <2>4. ResultsAreOwn'
    BY <1>1, <2>2 DEF Relay, ResultsAreOwn
  <2> QED BY <2>1, <2>3, <2>4
<1>2. ASSUME NEW r \in Relays, RelayHere(r) PROVE OutboxInv'
  <2>1. r \in UnderWay /\ arrived' \subseteq Chains
    BY <1>2 DEF RelayHere, UnderWay, Chains, OutboxInv, OutboxTypeOK
  <2> QED BY <1>2, <2>1, Settles DEF RelayHere
<1>3. ASSUME NEW r \in Chains, Proceed(r) PROVE OutboxInv'
  <2>1. r \in UnderWay /\ arrived \subseteq Chains
    BY <1>3 DEF Proceed, UnderWay, OutboxInv, OutboxTypeOK
  <2>2. CASE Settle(r, "failed")
    BY <1>3, <2>1, <2>2, Settles DEF Proceed
  <2>3. ASSUME NEW s \in {"finding", "confirming", "sending"},
               request' = [request EXCEPT ![r].stage = s], UNCHANGED <<pendingBox, outcome>>
        PROVE  OutboxInv'
    <3> USE OutboxAssumption DEF OutboxInv, OutboxTypeOK, Chains
    <3>1. OutboxTypeOK'
      BY <1>3, <2>3 DEF Proceed
    <3>2. UnderWay' = UnderWay
      BY <2>1, <2>3 DEF UnderWay
    <3>3. RequestsHaveTheirIds' /\ BoxIsCurrent'
      BY <1>3, <2>3, <3>2 DEF Proceed, RequestsHaveTheirIds, BoxIsCurrent
    <3>4. ResultsAreOwn'
      BY <1>3, <2>3 DEF Proceed, ResultsAreOwn
    <3> QED BY <3>1, <3>3, <3>4
  <2>4. request[r] \in [id : RequestIds \cup {NoRequest}, gen : 0 .. MaxRuntime,
          stage : {"new", "connecting", "finding", "confirming", "sending", "over"}]
    BY DEF OutboxInv, OutboxTypeOK
  <2>5. CASE /\ request' = [request EXCEPT ![r].stage =
                              IF r \in Relays /\ @ = "finding" THEN "sending" ELSE After[@]]
             /\ UNCHANGED <<pendingBox, outcome>>
    <3> DEFINE s == IF r \in Relays /\ request[r].stage = "finding" THEN "sending"
                    ELSE After[request[r].stage]
    <3>1. s \in {"finding", "confirming", "sending"}
      BY <1>3 DEF Proceed, After
    <3>2. request' = [request EXCEPT ![r].stage = s]
      BY <2>5
    <3> HIDE DEF s
    <3> QED BY <2>3, <2>5, <3>1, <3>2
  <2> QED BY <1>3, <2>2, <2>5 DEF Proceed
<1>4. ASSUME NEW r \in Chains, Arrives(r) PROVE OutboxInv'
  BY <1>4 DEF Arrives, OutboxInv, OutboxTypeOK, RequestsHaveTheirIds, BoxIsCurrent,
              ResultsAreOwn, UnderWay
<1>5. ASSUME NEW r \in Chains, Sent(r) PROVE OutboxInv'
  <2>1. r \in UnderWay /\ arrived \subseteq Chains
    BY <1>5 DEF Sent, UnderWay, OutboxInv, OutboxTypeOK
  <2> QED BY <1>5, <2>1, Settles DEF Sent
<1>6. CASE StartRuntime
  BY <1>6, BoxFails DEF StartRuntime, OutboxInv, OutboxTypeOK
<1>7. CASE EndRuntime
  BY <1>7, BoxFails DEF EndRuntime, OutboxInv, OutboxTypeOK
<1>8. CASE UNCHANGED outboxVars
  BY <1>8 DEF outboxVars, OutboxInv, OutboxTypeOK, RequestsHaveTheirIds, BoxIsCurrent,
              ResultsAreOwn, UnderWay
<1> QED BY <1>1, <1>2, <1>3, <1>4, <1>5, <1>6, <1>7, <1>8, Submits DEF OutboxNext

\* If extensions do not use an id again in a later runtime, every request has a result of its
\* own chain or of the end of its session, however requests, runtimes and answers interleave
\* (settleOutboxRequest, failPendingOutboxRequests).
THEOREM OutboxResultsAreOwn == ~ReusedLater => (OutboxSpec => []ResultsAreOwn)
<1> SUFFICES ASSUME ~ReusedLater PROVE OutboxSpec => []ResultsAreOwn
  OBVIOUS
<1>1. OutboxInv /\ [OutboxNext]_outboxVars => OutboxInv'
  BY OutboxStep
<1>2. OutboxInv => ResultsAreOwn
  BY DEF OutboxInv
<1> QED BY <1>1, <1>2, InitOutbox, PTL DEF OutboxSpec

---------------------------------------------------------------------------
(* The pages of a history (WatchHistory) *)

\* What a reader of the present branch has been shown, lo to hi, is where its cursors are.
CursorsAreEnds ==
  reader.branch = branch =>
    /\ reader.older.snapshot < events
    /\ \/ reader.older.position = Null /\ reader.older.snapshot = Null /\ reader.lo = 0
       \/ /\ reader.older.position = reader.lo /\ reader.lo <= reader.older.snapshot
    /\ reader.newer.position = reader.hi /\ reader.hi < events
    /\ reader.newer.snapshot < events

HistoryInv ==
  HistoryTypeOK /\ reader.branch <= branch /\ CursorsAreEnds /\ ReadersMissNothing

Readers == [branch : Null .. MaxBranch, older : Cursors, newer : Cursors,
            lo : 0 .. MaxEvents, hi : Null .. MaxEvents - 1, astray : BOOLEAN]

LEMMA UnreadType == Unread \in Readers /\ Unread.branch = Null /\ ~Unread.astray
<1>1. [snapshot |-> Null, position |-> Null] \in Cursors
  BY HistoryAssumption DEF Cursors, Null
<1>2. 0 \in 0 .. MaxEvents /\ Null \in Null .. MaxEvents - 1 /\ Null \in Null .. MaxBranch
  BY HistoryAssumption DEF Null
<1> QED BY <1>1, <1>2 DEF Unread, Readers

LEMMA InitHistory == HistoryInit => HistoryInv
BY HistoryAssumption
   DEF HistoryInit, HistoryInv, HistoryTypeOK, CursorsAreEnds, ReadersMissNothing, Unread, Null,
       Cursors

LEMMA HistoryStep == HistoryInv /\ [HistoryNext]_historyVars => HistoryInv'
<1> SUFFICES ASSUME HistoryInv, [HistoryNext]_historyVars PROVE HistoryInv'
  OBVIOUS
<1> USE HistoryAssumption DEF HistoryInv, HistoryTypeOK, Null, Cursors, ReadersMissNothing
<1>1. CASE Grow
  BY <1>1 DEF Grow, CursorsAreEnds
<1>2. CASE ChangeBranch
  BY <1>2 DEF ChangeBranch, CursorsAreEnds
<1>3. CASE Newest
  BY <1>3 DEF Newest, CursorsAreEnds, Sizes, Page, First, ToShow, Least
<1>4. CASE Older
  <2>1. CASE Stale(reader)
    <3>1. reader' = Unread /\ UNCHANGED <<events, branch>>
      BY <1>4, <2>1 DEF Older
    <3> QED BY <3>1, UnreadType DEF CursorsAreEnds, Readers
  <2>2. CASE ~Stale(reader)
    <3> DEFINE c == reader.older
    <3>1. PICK n \in Sizes("older", c) :
            reader' = [reader EXCEPT !.older = Page("older", c, n).older,
              !.lo = IF n = 0 THEN @ ELSE Page("older", c, n).low,
              !.astray = @ \/ reader.branch # branch
                           \/ (n > 0 /\ Page("older", c, n).high # reader.lo - 1)
                           \/ (~Page("older", c, n).hasOlder /\ n = 0 /\ reader.lo # 0)]
      BY <1>4, <2>2 DEF Older
    <3>2. /\ c.snapshot < events /\ c.snapshot \in Int /\ reader.lo \in Nat /\ reader.branch = branch
          /\ \/ c.position = -1 /\ c.snapshot = -1 /\ reader.lo = 0
             \/ c.position = reader.lo /\ reader.lo <= c.snapshot
      BY <2>2 DEF CursorsAreEnds, Stale
    <3>3. ToShow("older", c) = reader.lo
      BY <3>2 DEF ToShow, First, Least
    <3>4. n \in 0 .. reader.lo /\ (n = 0 => reader.lo = 0)
      BY <3>2, <3>3, <3>1 DEF Sizes, Least
    <3>5. n > 0 => /\ Page("older", c, n).high = reader.lo - 1
                   /\ Page("older", c, n).low = reader.lo - n
                   /\ Page("older", c, n).older = [snapshot |-> c.snapshot, position |-> reader.lo - n]
      BY <3>2, <3>4 DEF Page, First
    <3>6. n = 0 => Page("older", c, n).older = [snapshot |-> c.snapshot, position |-> c.position]
      BY <3>2 DEF Page
    <3>7. c \in [snapshot : -1 .. MaxEvents - 1, position : -1 .. MaxEvents - 1]
      OBVIOUS
    <3>8. UNCHANGED <<events, branch>> BY <1>4 DEF Older
    <3> HIDE DEF c
    <3>9. /\ reader' \in [branch : Null .. MaxBranch, older : Cursors, newer : Cursors,
                          lo : 0 .. MaxEvents, hi : Null .. MaxEvents - 1, astray : BOOLEAN]
          /\ ~reader'.astray /\ reader'.branch = reader.branch
          /\ reader'.newer = reader.newer /\ reader'.hi = reader.hi
      <4> DEFINE p == Page("older", c, n)
                 lo == IF n = 0 THEN reader.lo ELSE p.low
                 astray == reader.astray \/ reader.branch # branch
                           \/ (n > 0 /\ p.high # reader.lo - 1)
                           \/ (~p.hasOlder /\ n = 0 /\ reader.lo # 0)
      <4>1. p.older \in Cursors
        BY <3>2, <3>4, <3>5, <3>6, <3>7
      <4>2. lo \in 0 .. MaxEvents
        BY <3>2, <3>4, <3>5
      <4>3. astray = FALSE
        BY <3>2, <3>4, <3>5
      <4>4. reader' = [reader EXCEPT !.older = p.older, !.lo = lo, !.astray = astray]
        BY <3>1
      <4> HIDE DEF p, lo, astray
      <4> QED BY <4>1, <4>2, <4>3, <4>4
    <3>10. /\ reader'.older.snapshot < events
           /\ \/ reader'.older.position = Null /\ reader'.older.snapshot = Null /\ reader'.lo = 0
              \/ reader'.older.position = reader'.lo /\ reader'.lo <= reader'.older.snapshot
      BY <3>1, <3>2, <3>4, <3>5, <3>6
    <3> QED BY <3>8, <3>9, <3>10, <3>2 DEF CursorsAreEnds
  <2> QED BY <2>1, <2>2
<1>5. CASE Newer
  <2>1. CASE Stale(reader)
    <3>1. reader' = Unread /\ UNCHANGED <<events, branch>>
      BY <1>5, <2>1 DEF Newer
    <3> QED BY <3>1, UnreadType DEF CursorsAreEnds, Readers
  <2>2. CASE ~Stale(reader)
    <3> DEFINE c == reader.newer
    <3>1. PICK n \in Sizes("newer", c) :
            reader' = [reader EXCEPT !.newer = Page("newer", c, n).newer,
              !.hi = IF n = 0 THEN @ ELSE Page("newer", c, n).high,
              !.astray = @ \/ reader.branch # branch
                \/ (n > 0 /\ Page("newer", c, n).low # reader.hi + 1)
                \/ (~Page("newer", c, n).hasNewer
                     /\ (IF n = 0 THEN reader.hi ELSE Page("newer", c, n).high) # events - 1)]
      BY <1>5, <2>2 DEF Newer
    <3>2. /\ c.snapshot < events /\ c.snapshot \in Int /\ reader.hi \in Int /\ reader.hi < events
          /\ c.position = reader.hi /\ reader.hi >= -1 /\ reader.branch = branch /\ events \in Nat
      BY <2>2 DEF CursorsAreEnds, Stale
    <3>3. ToShow("newer", c) = events - (reader.hi + 1)
      BY <3>2 DEF ToShow, First
    <3>4. n \in 0 .. events - (reader.hi + 1) /\ (n = 0 => reader.hi = events - 1)
      BY <3>1, <3>2, <3>3 DEF Sizes, Least
    <3>5. n > 0 => /\ Page("newer", c, n).low = reader.hi + 1
                   /\ Page("newer", c, n).high = reader.hi + n
                   /\ Page("newer", c, n).newer = [snapshot |-> events - 1, position |-> reader.hi + n]
                   /\ reader.hi + n < events - 1 => Page("newer", c, n).hasNewer
      <4>1. First("newer", c) = reader.hi + 1 BY <3>2 DEF First
      <4>2. n > 0 => First("newer", c) + n - 1 = reader.hi + n BY <3>2, <3>4, <4>1
      <4> QED BY <4>1, <4>2 DEF Page
    <3>6. n = 0 => /\ Page("newer", c, n).newer.snapshot = events - 1
                   /\ Page("newer", c, n).newer =
                        [snapshot |-> events - 1,
                         position |-> IF c.position # -1 THEN c.position ELSE c.snapshot]
      BY <3>2 DEF Page
    <3>7. c \in [snapshot : -1 .. MaxEvents - 1, position : -1 .. MaxEvents - 1]
      OBVIOUS
    <3>8. UNCHANGED <<events, branch>> BY <1>5 DEF Newer
    <3>9. c.position = -1 /\ n = 0 => c.snapshot = -1
      BY <3>2, <3>4, <3>7
    <3> HIDE DEF c
    <3>10. /\ reader' \in [branch : Null .. MaxBranch, older : Cursors, newer : Cursors,
                           lo : 0 .. MaxEvents, hi : Null .. MaxEvents - 1, astray : BOOLEAN]
           /\ ~reader'.astray /\ reader'.branch = reader.branch
           /\ reader'.older = reader.older /\ reader'.lo = reader.lo
      <4> DEFINE p == Page("newer", c, n)
                 hi == IF n = 0 THEN reader.hi ELSE p.high
                 astray == reader.astray \/ reader.branch # branch
                           \/ (n > 0 /\ p.low # reader.hi + 1)
                           \/ (~p.hasNewer
                                /\ (IF n = 0 THEN reader.hi ELSE p.high) # events - 1)
      <4>1. p.newer \in Cursors
        BY <3>2, <3>4, <3>5, <3>6, <3>7, <3>9
      <4>2. hi \in -1 .. MaxEvents - 1
        BY <3>2, <3>4, <3>5
      <4>3. astray = FALSE
        <5>1. n > 0 => p.low = reader.hi + 1 /\ p.high = reader.hi + n
                       /\ (reader.hi + n < events - 1 => p.hasNewer)
          BY <3>5
        <5>2. n \in Int /\ n >= 0 /\ n =< events - (reader.hi + 1)
          BY <3>2, <3>4
        <5> HIDE DEF p
        <5>3. CASE n = 0 BY <3>2, <3>4, <5>3
        <5>4. CASE n > 0
          <6>1. p.low = reader.hi + 1 /\ p.high = reader.hi + n
            BY <5>1, <5>4
          <6>2. reader.hi + n < events - 1 \/ reader.hi + n = events - 1 BY <3>2, <5>2
          <6>3. ~(~p.hasNewer /\ p.high # events - 1)
            <7>1. CASE reader.hi + n < events - 1
              <8>1. p.hasNewer BY <5>1, <5>4, <7>1
              <8> QED BY <8>1
            <7>2. CASE reader.hi + n = events - 1
              <8>1. p.high = events - 1 BY <6>1, <7>2
              <8> QED BY <8>1
            <7> QED BY <6>2, <7>1, <7>2
          <6>4. ~(reader.astray \/ reader.branch # branch)
            BY <3>2 DEF CursorsAreEnds
          <6>5. (IF n = 0 THEN reader.hi ELSE p.high) = p.high BY <5>2, <5>4
          <6>6. ~(n > 0 /\ p.low # reader.hi + 1) BY <6>1
          <6>7. ~(~p.hasNewer /\ (IF n = 0 THEN reader.hi ELSE p.high) # events - 1)
            BY <6>3, <6>5
          <6>8. ~astray BY <6>4, <6>6, <6>7
          <6>9. astray \in BOOLEAN OBVIOUS
          <6> HIDE DEF astray
          <6> QED BY <6>8, <6>9
        <5>5. n = 0 \/ n > 0 BY <5>2
        <5> HIDE DEF astray
        <5> QED BY <5>3, <5>4, <5>5
      <4>4. reader' = [reader EXCEPT !.newer = p.newer, !.hi = hi, !.astray = astray]
        BY <3>1
      <4> HIDE DEF p, hi, astray
      <4> QED BY <4>1, <4>2, <4>3, <4>4
    <3>11. /\ reader'.newer.position = reader'.hi /\ reader'.hi < events
           /\ reader'.newer.snapshot < events
      BY <3>1, <3>2, <3>4, <3>5, <3>6, <3>9
    <3> QED BY <3>2, <3>8, <3>10, <3>11 DEF CursorsAreEnds
  <2> QED BY <2>1, <2>2
<1>6. CASE UNCHANGED historyVars
  BY <1>6 DEF historyVars, CursorsAreEnds
<1> QED BY <1>1, <1>2, <1>3, <1>4, <1>5, <1>6 DEF HistoryNext

\* However long the branch grows, however many events fit in a page, and whenever the branch
\* changes, a reader that follows the cursors is shown every event once and in order.
THEOREM PagesMissNothing == HistorySpec => []ReadersMissNothing
<1>1. HistoryInv => ReadersMissNothing
  BY DEF HistoryInv
<1> QED BY <1>1, InitHistory, HistoryStep, PTL DEF HistorySpec

---------------------------------------------------------------------------
(* The retained evidence (EvidenceInbox).  Usage is a fold over a set, which takes the      *)
(* elements of the set in an order that is not known: the sum is the same in all of them.  *)

Held == {i \in Items : stage[i] \in {"kept", "told"}}

Total(S) == MapThenSumSet(Bytes, S)

Chosen(s) == CHOOSE x \in s : TRUE

\* One step of the fold, f having the sums of smaller sets.
SumStep(f, s) == IF s = {} THEN 0 ELSE Bytes(Chosen(s)) + f[s \ {Chosen(s)}]

IsSum(f, S) == f = [s \in SUBSET S |-> SumStep(f, s)]

\* The same for sets of at most n elements.
IsSumTo(f, S, n) ==
  f \in [SUBSET S -> Int] /\ \A s \in SUBSET S : Cardinality(s) <= n => f[s] = SumStep(f, s)

LEMMA BytesType == \A i \in Items : Bytes(i) \in Nat
BY EvidenceAssumption DEF Bytes

\* A set without one of its elements has one less.
LEMMA OneLess ==
  ASSUME NEW s \in SUBSET Items, NEW x \in s
  PROVE  /\ IsFiniteSet(s) /\ Cardinality(s) \in Nat /\ Cardinality(s \ {x}) \in Nat
         /\ Cardinality(s \ {x}) = Cardinality(s) - 1
<1>1. IsFiniteSet(s) /\ IsFiniteSet(s \ {x})
  BY EvidenceAssumption, FS_Subset
<1> QED BY <1>1, FS_RemoveElement, FS_CardinalityType

LEMMA SumExists ==
  ASSUME NEW S \in SUBSET Items
  PROVE  \E f \in [SUBSET S -> Int] : IsSum(f, S)
<1> DEFINE Bad == {n \in Nat : ~\E f : IsSumTo(f, S, n)}
<1>1. Bad = {}
  <2> SUFFICES ASSUME Bad # {} PROVE FALSE
    OBVIOUS
  <2>1. PICK n \in Bad : \A m \in Bad : n <= m
    <3> HIDE DEF Bad
    <3>1. Bad \subseteq Nat BY DEF Bad
    <3> QED BY <3>1, MinExists
  <2>2. CASE n = 0
    <3> DEFINE f == [s \in SUBSET S |-> 0]
    <3>1. ASSUME NEW s \in SUBSET S, Cardinality(s) <= 0 PROVE s = {}
      <4>1. IsFiniteSet(s) BY EvidenceAssumption, FS_Subset
      <4>2. Cardinality(s) \in Nat BY <4>1, FS_CardinalityType
      <4> QED BY <3>1, <4>1, <4>2, FS_EmptySet
    <3>2. IsSumTo(f, S, 0)
      BY <3>1 DEF IsSumTo, SumStep
    <3> QED BY <2>1, <2>2, <3>2
  <2>3. CASE n # 0
    <3>1. n - 1 \in Nat /\ ~(n <= n - 1) BY <2>1, <2>3
    <3>2. PICK f : IsSumTo(f, S, n - 1) BY <2>1, <3>1
    <3> DEFINE g == [s \in SUBSET S |-> SumStep(f, s)]
    <3>3. ASSUME NEW s \in SUBSET S, s # {}
          PROVE  /\ Chosen(s) \in s /\ s \ {Chosen(s)} \in SUBSET S
                 /\ Cardinality(s \ {Chosen(s)}) = Cardinality(s) - 1
                 /\ Cardinality(s) \in Nat /\ Bytes(Chosen(s)) \in Int
      <4>1. Chosen(s) \in s BY <3>3 DEF Chosen
      <4> QED BY <4>1, OneLess, BytesType
    <3>4. g \in [SUBSET S -> Int]
      <4>1. ASSUME NEW s \in SUBSET S PROVE SumStep(f, s) \in Int
        <5>1. CASE s = {} BY <5>1 DEF SumStep
        <5>2. CASE s # {}
          <6>1. f[s \ {Chosen(s)}] \in Int BY <3>2, <3>3, <5>2 DEF IsSumTo
          <6>2. Bytes(Chosen(s)) \in Int BY <3>3, <5>2
          <6> QED BY <5>2, <6>1, <6>2 DEF SumStep
        <5> QED BY <5>1, <5>2
      <4> QED BY <4>1
    <3>5. ASSUME NEW s \in SUBSET S, Cardinality(s) <= n PROVE g[s] = SumStep(g, s)
      <4>1. CASE s = {} BY <4>1 DEF SumStep
      <4>2. CASE s # {}
        <5> DEFINE t == s \ {Chosen(s)}
        <5>1. t \in SUBSET S /\ Cardinality(t) <= n - 1 BY <2>1, <3>3, <3>5, <4>2
        <5>2. g[t] = SumStep(f, t) BY <5>1
        <5>3. f[t] = SumStep(f, t) BY <3>2, <5>1 DEF IsSumTo
        <5>4. g[s] = SumStep(f, s) OBVIOUS
        <5> HIDE DEF g
        <5> QED BY <4>2, <5>2, <5>3, <5>4 DEF SumStep
      <4> QED BY <4>1, <4>2
    <3>6. IsSumTo(g, S, n) BY <3>4, <3>5 DEF IsSumTo
    <3> HIDE DEF g
    <3> QED BY <2>1, <3>6
  <2> QED BY <2>2, <2>3
<1>2. IsFiniteSet(S) /\ Cardinality(S) \in Nat
  BY EvidenceAssumption, FS_Subset, FS_CardinalityType
<1>3. PICK f : IsSumTo(f, S, Cardinality(S))
  BY <1>1, <1>2
<1>4. ASSUME NEW s \in SUBSET S PROVE f[s] = SumStep(f, s)
  BY <1>2, <1>3, FS_Subset DEF IsSumTo
<1>5. f = [s \in SUBSET S |-> SumStep(f, s)]
  <2>1. DOMAIN f = SUBSET S /\ f = [s \in SUBSET S |-> f[s]]
    BY <1>3 DEF IsSumTo
  <2> QED BY <1>4, <2>1
<1> QED BY <1>3, <1>5 DEF IsSum, IsSumTo

\* Whichever element is taken first.
LEMMA SumAdds ==
  ASSUME NEW S \in SUBSET Items, NEW f \in [SUBSET S -> Int], IsSum(f, S)
  PROVE  \A s \in SUBSET S : \A x \in s : f[s] = Bytes(x) + f[s \ {x}]
<1> DEFINE Wrong == {s \in SUBSET S : \E x \in s : f[s] # Bytes(x) + f[s \ {x}]}
           Bad == {Cardinality(s) : s \in Wrong}
<1> SUFFICES ASSUME Wrong # {} PROVE FALSE
  OBVIOUS
<1>1. \A s \in SUBSET S : \A x \in s :
        /\ s \ {x} \in SUBSET S /\ Bytes(x) \in Int
        /\ Cardinality(s \ {x}) = Cardinality(s) - 1 /\ Cardinality(s) \in Nat
  <2> SUFFICES ASSUME NEW s \in SUBSET S, NEW x \in s
               PROVE  /\ Bytes(x) \in Int
                      /\ Cardinality(s \ {x}) = Cardinality(s) - 1 /\ Cardinality(s) \in Nat
    OBVIOUS
  <2>1. s \in SUBSET Items /\ x \in Items OBVIOUS
  <2> QED BY <2>1, OneLess, BytesType
<1>2. PICK s \in Wrong : \A t \in Wrong : Cardinality(s) <= Cardinality(t)
  <2>1. \A s \in Wrong : Cardinality(s) \in Nat
    BY EvidenceAssumption, FS_Subset, FS_CardinalityType
  <2> HIDE DEF Wrong
  <2>2. Bad # {} /\ Bad \subseteq Nat BY <2>1
  <2>3. PICK n \in Bad : \A m \in Bad : n <= m
    <3> HIDE DEF Bad
    <3> QED BY <2>2, MinExists
  <2> QED BY <2>3
<1>3. PICK x \in s : f[s] # Bytes(x) + f[s \ {x}]
  BY <1>2
<1> DEFINE c == Chosen(s)
           d == Chosen(s \ {x})
<1>4. c \in s BY <1>3 DEF Chosen
<1>5. f[s] = Bytes(c) + f[s \ {c}]
  BY <1>2, <1>3 DEF IsSum, SumStep
<1>6. c # x BY <1>3, <1>5
<1> HIDE DEF c
<1>7. \A t \in SUBSET S : Cardinality(t) < Cardinality(s) => t \notin Wrong
  <2> SUFFICES ASSUME NEW t \in SUBSET S, Cardinality(t) < Cardinality(s), t \in Wrong PROVE FALSE
    OBVIOUS
  <2>1. Cardinality(s) <= Cardinality(t) BY <1>2
  <2>2. Cardinality(s) \in Nat /\ Cardinality(t) \in Nat BY <1>1, <1>2
  <2> QED BY <2>1, <2>2
<1>8. s \ {c} \notin Wrong /\ s \ {x} \notin Wrong
  <2>1. \A y \in s : /\ s \ {y} \in SUBSET S /\ Cardinality(s \ {y}) = Cardinality(s) - 1
                     /\ Cardinality(s) \in Nat
    BY <1>1, <1>2
  <2>2. \A y \in s : Cardinality(s \ {y}) < Cardinality(s)
    BY <2>1
  <2> HIDE DEF Wrong
  <2> QED BY <1>3, <1>4, <1>7, <2>1, <2>2
<1> DEFINE rest == (s \ {c}) \ {x}
<1>9. f[s \ {c}] = Bytes(x) + f[rest] /\ f[s \ {x}] = Bytes(c) + f[rest]
  <2>1. f[s \ {x}] = Bytes(c) + f[(s \ {x}) \ {c}]
    BY <1>2, <1>3, <1>4, <1>6, <1>8
  <2>2. (s \ {x}) \ {c} = rest
    OBVIOUS
  <2> QED BY <1>2, <1>3, <1>4, <1>6, <1>8, <2>1, <2>2
<1>10. rest \in SUBSET S
  BY <1>2
<1>11. Bytes(x) \in Int /\ Bytes(c) \in Int /\ f[rest] \in Int
  BY <1>1, <1>2, <1>3, <1>4, <1>10
<1> HIDE DEF rest
<1> QED BY <1>3, <1>5, <1>9, <1>11

\* The sums of the subsets of a set do not depend on the set.
LEMMA SumUnique ==
  ASSUME NEW S \in SUBSET Items, NEW T \in SUBSET S,
         NEW f, IsSum(f, S), NEW g, IsSum(g, T)
  PROVE  \A s \in SUBSET T : f[s] = g[s]
<1> DEFINE Wrong == {s \in SUBSET T : f[s] # g[s]}
           Bad == {Cardinality(s) : s \in Wrong}
<1> SUFFICES ASSUME Wrong # {} PROVE FALSE
  OBVIOUS
<1>1. \A s \in SUBSET T : IsFiniteSet(s) /\ Cardinality(s) \in Nat
  BY EvidenceAssumption, FS_Subset, FS_CardinalityType
<1>2. PICK s \in Wrong : \A t \in Wrong : Cardinality(s) <= Cardinality(t)
  <2>1. Bad # {} /\ Bad \subseteq Nat BY <1>1
  <2>2. PICK n \in Bad : \A m \in Bad : n <= m
    <3> HIDE DEF Bad
    <3> QED BY <2>1, MinExists
  <2> QED BY <2>2
<1>3. f[s] = SumStep(f, s) /\ g[s] = SumStep(g, s)
  BY <1>2 DEF IsSum
<1>4. s # {}
  BY <1>2, <1>3 DEF SumStep
<1> DEFINE c == Chosen(s)
<1>5. c \in s BY <1>4 DEF Chosen
<1>6. f[s \ {c}] # g[s \ {c}]
  BY <1>2, <1>3, <1>4 DEF SumStep
<1>7. s \ {c} \in Wrong
  BY <1>2, <1>6
<1>8. Cardinality(s \ {c}) = Cardinality(s) - 1 /\ Cardinality(s) \in Nat
  BY <1>2, <1>5, OneLess
<1>9. Cardinality(s) <= Cardinality(s \ {c})
  BY <1>2, <1>7
<1> QED BY <1>8, <1>9

LEMMA TotalIsSum ==
  ASSUME NEW S \in SUBSET Items
  PROVE  \E f \in [SUBSET S -> Int] : IsSum(f, S) /\ Total(S) = f[S]
<1> DEFINE f == CHOOSE f : IsSum(f, S)
<1>1. PICK g \in [SUBSET S -> Int] : IsSum(g, S)
  BY SumExists
<1>2. IsSum(f, S)
  BY <1>1
<1>3. Total(S) = f[S]
  BY DEF Total, MapThenSumSet, MapThenFoldSet, IsSum, SumStep, Chosen
<1> HIDE DEF f
<1>4. f \in [SUBSET S -> Int]
  <2>1. f = [s \in SUBSET S |-> f[s]] BY <1>2 DEF IsSum
  <2>2. \A s \in SUBSET S : f[s] = g[s]
    BY <1>1, <1>2, SumUnique
  <2> QED BY <1>1, <2>1, <2>2
<1> QED BY <1>2, <1>3, <1>4

\* Each result counts once.
LEMMA TotalAdds ==
  ASSUME NEW S \in SUBSET Items
  PROVE  /\ Total(S) \in Int
         /\ \A x \in S : Total(S) = Bytes(x) + Total(S \ {x})
         /\ S = {} => Total(S) = 0
<1>1. PICK f \in [SUBSET S -> Int] : IsSum(f, S) /\ Total(S) = f[S]
  BY TotalIsSum
<1>2. ASSUME NEW x \in S PROVE Total(S) = Bytes(x) + Total(S \ {x})
  <2>1. S \ {x} \in SUBSET S /\ S \ {x} \in SUBSET Items OBVIOUS
  <2>2. PICK g \in [SUBSET (S \ {x}) -> Int] : IsSum(g, S \ {x}) /\ Total(S \ {x}) = g[S \ {x}]
    BY <2>1, TotalIsSum
  <2>3. f[S \ {x}] = g[S \ {x}]
    BY <1>1, <2>1, <2>2, SumUnique
  <2>4. f[S] = Bytes(x) + f[S \ {x}]
    <3>1. S \in SUBSET S OBVIOUS
    <3>2. \A s \in SUBSET S : \A y \in s : f[s] = Bytes(y) + f[s \ {y}]
      BY <1>1, SumAdds
    <3> QED BY <3>1, <3>2
  <2> QED BY <1>1, <2>2, <2>3, <2>4
<1>3. S = {} => f[S] = 0
  BY <1>1 DEF IsSum, SumStep
<1> QED BY <1>1, <1>2, <1>3

\* At most one result is being written, and what it may write is what the others leave.
OneIsWritten ==
  /\ \A i \in Items : stage[i] = "writing" <=> writer = i
  /\ writer = NoItem => written = 0
  /\ writer # NoItem =>
       /\ available = MaxBytes - (Total(Held) + stray)
       /\ written <= available

EvidenceInv == EvidenceTypeOK /\ OneIsWritten /\ EvidenceFits

LEMMA UsageIs == Usage = Total(Held) + written + stray
BY DEF Usage, Total, Held

LEMMA InitEvidence == EvidenceInit => EvidenceInv
<1> SUFFICES ASSUME EvidenceInit PROVE EvidenceInv
  OBVIOUS
<1>1. Held = {}
  BY DEF EvidenceInit, Held
<1>2. Usage = 0
  BY <1>1, UsageIs, TotalAdds DEF EvidenceInit
<1> QED BY <1>2, EvidenceAssumption
        DEF EvidenceInit, EvidenceInv, EvidenceTypeOK, OneIsWritten, EvidenceFits

LEMMA EvidenceStep == EvidenceInv /\ [EvidenceNext]_evidenceVars => EvidenceInv'
<1> SUFFICES ASSUME EvidenceInv, [EvidenceNext]_evidenceVars PROVE EvidenceInv'
  OBVIOUS
<1> USE EvidenceAssumption DEF EvidenceInv, EvidenceTypeOK, Becomes
<1>1. /\ Held \in SUBSET Items /\ Total(Held) \in Int /\ Usage = Total(Held) + written + stray
      /\ Held' \in SUBSET Items /\ Total(Held') \in Int
  BY TotalAdds, UsageIs DEF Held
<1>2. Usage' = Total(Held') + written' + stray'
  BY DEF Usage, Total, Held
<1>3. \A i \in Items : Bytes(i) \in Nat /\ Size[i] <= Bytes(i)
  BY DEF Bytes
<1>4. ASSUME EvidenceTypeOK', OneIsWritten', Usage' <= MaxBytes,
             crashes' = 0 => \A i \in inbox' : stage'[i] \in {"arriving", "queued", "writing", "kept"}
      PROVE  EvidenceInv'
  BY <1>4 DEF EvidenceFits
<1>5. ASSUME NEW i \in Items, ToolResult(i) \/ TransferComes(i) \/ Arrived(i) \/ Tell(i)
      PROVE  EvidenceInv'
  <2>1. EvidenceTypeOK'
    BY <1>5 DEF ToolResult, TransferComes, Arrived, Tell
  <2>2. Held' = Held
    BY <1>5 DEF Held, ToolResult, TransferComes, Arrived, Tell
  <2>3. OneIsWritten'
    BY <1>5, <2>2 DEF OneIsWritten, ToolResult, TransferComes, Arrived, Tell
  <2>4. Usage' = Usage
    BY <1>1, <1>2, <1>5, <2>2 DEF ToolResult, TransferComes, Arrived, Tell
  <2>5. crashes' = 0 => \A j \in inbox' : stage'[j] \in {"arriving", "queued", "writing", "kept"}
    BY <1>5 DEF EvidenceFits, ToolResult, TransferComes, Arrived, Tell
  <2> QED BY <1>4, <2>1, <2>3, <2>4, <2>5 DEF EvidenceFits
<1>6. ASSUME NEW i \in Items, Turn(i) PROVE EvidenceInv'
  <2>1. EvidenceTypeOK' /\ Held' = Held /\ written = 0
    BY <1>1, <1>6 DEF Turn, QueueIsFree, Held, OneIsWritten
  <2>2. OneIsWritten'
    BY <1>1, <1>6, <2>1 DEF OneIsWritten, Turn, QueueIsFree, EvidenceFits
  <2>3. Usage' = Usage
    BY <1>1, <1>2, <1>6, <2>1 DEF Turn
  <2>4. crashes' = 0 => \A j \in inbox' : stage'[j] \in {"arriving", "queued", "writing", "kept"}
    BY <1>6 DEF EvidenceFits, Turn
  <2> QED BY <1>4, <2>1, <2>2, <2>3, <2>4 DEF EvidenceFits
<1>7. ASSUME NEW i \in Items, RetainFails(i) \/ Copy(i) \/ WriteRecord(i) PROVE EvidenceInv'
  <2>1. EvidenceTypeOK' /\ Held' = Held /\ writer = i
    BY <1>3, <1>7 DEF RetainFails, Copy, WriteRecord, Held, OneIsWritten
  <2>2. OneIsWritten'
    BY <1>1, <1>7, <2>1 DEF OneIsWritten, RetainFails, Copy, WriteRecord
  <2>3. Usage' <= MaxBytes
    BY <1>1, <1>2, <1>3, <1>7, <2>1 DEF OneIsWritten, EvidenceFits, RetainFails, Copy, WriteRecord
  <2>4. crashes' = 0 => \A j \in inbox' : stage'[j] \in {"arriving", "queued", "writing", "kept"}
    BY <1>7 DEF EvidenceFits, RetainFails, Copy, WriteRecord
  <2> QED BY <1>4, <2>1, <2>2, <2>3, <2>4
<1>8. ASSUME NEW i \in Items, Retained(i) PROVE EvidenceInv'
  <2>1. EvidenceTypeOK' /\ writer = i
    BY <1>8 DEF Retained, OneIsWritten
  <2>2. OneIsWritten'
    BY <1>8, <2>1 DEF OneIsWritten, Retained
  <2>3. Usage' = Usage
    <3>1. i \in Held' /\ Held' \ {i} = Held
      BY <1>8 DEF Retained, Held
    <3>2. Total(Held') = Bytes(i) + Total(Held)
      BY <1>1, <3>1, TotalAdds
    <3> QED BY <1>1, <1>2, <1>3, <1>8, <3>2 DEF Retained
  <2>4. crashes' = 0 => \A j \in inbox' : stage'[j] \in {"arriving", "queued", "writing", "kept"}
    BY <1>8 DEF EvidenceFits, Retained
  <2> QED BY <1>4, <2>1, <2>2, <2>3, <2>4 DEF EvidenceFits
<1>9. ASSUME NEW i \in Items, Delete(i) PROVE EvidenceInv'
  <2>1. EvidenceTypeOK'
    BY <1>9 DEF Delete
  <2>2. OneIsWritten'
    BY <1>9 DEF OneIsWritten, Delete, QueueIsFree
  <2>3. Usage' <= MaxBytes
    <3>1. i \in Held /\ Held' = Held \ {i}
      BY <1>9 DEF Delete, Held
    <3>2. Total(Held) = Bytes(i) + Total(Held')
      BY <1>1, <3>1, TotalAdds
    <3> QED BY <1>1, <1>2, <1>3, <1>9, <3>2 DEF Delete, EvidenceFits
  <2>4. crashes' = 0 => \A j \in inbox' : stage'[j] \in {"arriving", "queued", "writing", "kept"}
    BY <1>9 DEF EvidenceFits, Delete
  <2> QED BY <1>4, <2>1, <2>2, <2>3, <2>4
<1>10. CASE EvidenceCrash
  <2>1. EvidenceTypeOK' /\ Held' = Held
    BY <1>10 DEF EvidenceCrash, Held
  <2>2. OneIsWritten'
    BY <1>10 DEF OneIsWritten, EvidenceCrash
  <2>3. Usage' = Usage
    BY <1>1, <1>2, <1>10, <2>1 DEF EvidenceCrash
  <2> QED BY <1>4, <1>10, <2>1, <2>2, <2>3 DEF EvidenceCrash, EvidenceFits
<1>11. CASE UNCHANGED evidenceVars
  <2>1. Usage' = Usage /\ Held' = Held
    BY <1>1, <1>2, <1>11 DEF evidenceVars, Held
  <2> QED BY <1>11, <2>1 DEF evidenceVars, OneIsWritten, EvidenceFits
<1> QED BY <1>5, <1>6, <1>7, <1>8, <1>9, <1>10, <1>11 DEF EvidenceNext

\* Whatever its results and its limit, the store never holds more than the limit, and the
\* inbox keeps nothing of a transfer that is over (retain, checkCapacity, usage).
THEOREM EvidenceStaysInBounds == EvidenceSpec => []EvidenceFits
<1>1. EvidenceInv => EvidenceFits
  BY DEF EvidenceInv
<1> QED BY <1>1, InitEvidence, EvidenceStep, PTL DEF EvidenceSpec

---------------------------------------------------------------------------
(* What a session owes (ReplyTracker) *)

Elements(s) == {s[i] : i \in 1 .. Len(s)}

\* One step of a filter, f having the results for shorter prefixes of s.
FilterStep(f, s, S, n) ==
  IF n = 0 THEN <<>> ELSE IF s[n] \in S THEN f[n - 1] ELSE Append(f[n - 1], s[n])

IsFilter(f, s, S) == f = [n \in 0 .. Len(s) |-> FilterStep(f, s, S, n)]

\* The same for the prefixes of at most k elements.
IsFilterTo(f, s, S, k) ==
  DOMAIN f = 0 .. Len(s) /\ \A n \in 0 .. Len(s) : n <= k => f[n] = FilterStep(f, s, S, n)

LEMMA FilterExists ==
  ASSUME NEW M, NEW s \in Seq(M), NEW S
  PROVE  \E f : IsFilter(f, s, S)
<1>0. Len(s) \in Nat
  BY LenProperties
<1> DEFINE Bad == {k \in Nat : ~\E f : IsFilterTo(f, s, S, k)}
<1>1. Bad = {}
  <2> SUFFICES ASSUME Bad # {} PROVE FALSE
    OBVIOUS
  <2>1. PICK k \in Bad : \A m \in Bad : k <= m
    <3> HIDE DEF Bad
    <3>1. Bad \subseteq Nat BY DEF Bad
    <3> QED BY <3>1, MinExists
  <2>2. CASE k = 0
    <3> DEFINE f == [n \in 0 .. Len(s) |-> <<>>]
    <3>1. IsFilterTo(f, s, S, 0)
      BY <1>0 DEF IsFilterTo, FilterStep
    <3> QED BY <2>1, <2>2, <3>1
  <2>3. CASE k # 0
    <3>1. k - 1 \in Nat /\ ~(k <= k - 1) BY <2>1, <2>3
    <3>2. PICK f : IsFilterTo(f, s, S, k - 1) BY <2>1, <3>1
    <3> DEFINE g == [n \in 0 .. Len(s) |-> FilterStep(f, s, S, n)]
    <3>3. ASSUME NEW n \in 0 .. Len(s), n <= k PROVE g[n] = FilterStep(g, s, S, n)
      <4>1. CASE n = 0 BY <4>1 DEF FilterStep
      <4>2. CASE n # 0
        <5>1. n - 1 \in 0 .. Len(s) /\ n - 1 <= k - 1 BY <1>0, <2>1, <3>3, <4>2
        <5>2. g[n - 1] = FilterStep(f, s, S, n - 1) /\ g[n] = FilterStep(f, s, S, n) BY <5>1
        <5>3. f[n - 1] = g[n - 1] BY <3>2, <5>1, <5>2 DEF IsFilterTo
        <5> HIDE DEF g
        <5> QED BY <4>2, <5>2, <5>3 DEF FilterStep
      <4> QED BY <4>1, <4>2
    <3>4. IsFilterTo(g, s, S, k) BY <3>3 DEF IsFilterTo
    <3> HIDE DEF g
    <3> QED BY <2>1, <3>4
  <2> QED BY <2>2, <2>3
<1>2. PICK f : IsFilterTo(f, s, S, Len(s))
  BY <1>0, <1>1
<1> DEFINE g == [n \in 0 .. Len(s) |-> FilterStep(f, s, S, n)]
<1>3. \A n \in 0 .. Len(s) : g[n] = f[n]
  BY <1>0, <1>2 DEF IsFilterTo
<1>4. ASSUME NEW n \in 0 .. Len(s) PROVE FilterStep(g, s, S, n) = FilterStep(f, s, S, n)
  <2>1. n # 0 => n - 1 \in 0 .. Len(s) BY <1>0
  <2> HIDE DEF g
  <2> QED BY <1>3, <2>1 DEF FilterStep
<1>5. IsFilter(g, s, S)
  BY <1>4 DEF IsFilter
<1> QED BY <1>5

\* A filter leaves the elements that are not in S, and no others.
LEMMA FilteredHas ==
  ASSUME NEW M, NEW s \in Seq(M), NEW S
  PROVE  /\ Filtered(s, S) \in Seq(M) /\ Len(Filtered(s, S)) <= Len(s)
         /\ Elements(Filtered(s, S)) = Elements(s) \ S
<1> DEFINE f == CHOOSE f : IsFilter(f, s, S)
           P(n) == /\ f[n] \in Seq(M) /\ Len(f[n]) <= n
                   /\ Elements(f[n]) = {s[i] : i \in 1 .. n} \ S
           Bad == {n \in 0 .. Len(s) : ~P(n)}
<1>0. Len(s) \in Nat /\ \A i \in 1 .. Len(s) : s[i] \in M
  BY LenProperties, ElementOfSeq
<1>1. Filtered(s, S) = f[Len(s)]
  BY DEF Filtered, IsFilter, FilterStep
<1>2. IsFilter(f, s, S)
  BY FilterExists
<1> HIDE DEF f
<1>3. \A n \in 0 .. Len(s) : f[n] = FilterStep(f, s, S, n)
  BY <1>2 DEF IsFilter
<1>4. Bad = {}
  <2> SUFFICES ASSUME Bad # {} PROVE FALSE
    OBVIOUS
  <2>1. PICK k \in Bad : \A m \in Bad : k <= m
    <3> HIDE DEF Bad
    <3>1. Bad \subseteq Nat BY <1>0 DEF Bad
    <3> QED BY <3>1, MinExists
  <2>2. k # 0
    <3> SUFFICES ASSUME k = 0 PROVE P(0)
      BY <2>1
    <3>1. f[0] = <<>> BY <1>0, <1>3 DEF FilterStep
    <3>2. Elements(<<>>) = {} BY DEF Elements
    <3>3. <<>> \in Seq(M) /\ Len(<<>>) = 0 BY EmptySeq
    <3> QED BY <3>1, <3>2, <3>3
  <2>3. /\ k - 1 \in 0 .. Len(s) /\ k \in 1 .. Len(s) /\ ~(k <= k - 1) /\ k - 1 \notin Bad
        /\ k - 1 \in Nat
    <3> HIDE DEF P
    <3>1. k \in 0 .. Len(s) BY <2>1
    <3>2. k - 1 \in 0 .. Len(s) /\ k \in 1 .. Len(s) /\ ~(k <= k - 1) /\ k - 1 \in Nat
      BY <1>0, <2>2, <3>1
    <3>3. k - 1 \notin Bad BY <2>1, <3>2
    <3> QED BY <3>2, <3>3
  <2>4. P(k - 1) BY <2>3
  <2>5. f[k] = IF s[k] \in S THEN f[k - 1] ELSE Append(f[k - 1], s[k])
    BY <1>3, <2>1, <2>2 DEF FilterStep
  <2>6. {s[i] : i \in 1 .. k} = {s[i] : i \in 1 .. k - 1} \cup {s[k]}
    BY <1>0, <2>3
  <2>7. CASE s[k] \in S
    <3>1. P(k) BY <2>3, <2>4, <2>5, <2>6, <2>7, LenProperties
    <3> QED BY <2>1, <3>1
  <2>8. CASE s[k] \notin S
    <3> DEFINE t == f[k - 1]
               u == Append(t, s[k])
    <3>1. t \in Seq(M) /\ Len(t) \in Nat /\ Len(t) <= k - 1 /\ s[k] \in M
      BY <1>0, <2>3, <2>4, LenProperties
    <3> HIDE DEF t
    <3>2. /\ u \in Seq(M) /\ Len(u) = Len(t) + 1
          /\ \A i \in 1 .. Len(t) : u[i] = t[i]
          /\ u[Len(t) + 1] = s[k]
      BY <3>1, AppendProperties
    <3> HIDE DEF u
    <3>3. Elements(u) = Elements(t) \cup {s[k]}
      <4>1. Elements(t) \cup {s[k]} \subseteq Elements(u)
        <5>1. Len(t) + 1 \in 1 .. Len(u) /\ \A i \in 1 .. Len(t) : i \in 1 .. Len(u)
          BY <3>1, <3>2
        <5> QED BY <3>2, <5>1 DEF Elements
      <4>2. ASSUME NEW i \in 1 .. Len(u) PROVE u[i] \in Elements(t) \cup {s[k]}
        <5>1. i \in 1 .. Len(t) \/ i = Len(t) + 1 BY <3>1, <3>2
        <5> QED BY <3>2, <5>1 DEF Elements
      <4> QED BY <4>1, <4>2 DEF Elements
    <3>4. f[k] = u BY <2>5, <2>8 DEF t, u
    <3>5. Elements(t) = {s[i] : i \in 1 .. k - 1} \ S BY <2>4 DEF t
    <3>6. P(k)
      <4>1. f[k] \in Seq(M) /\ Len(f[k]) <= k BY <2>3, <3>1, <3>2, <3>4
      <4>2. Elements(f[k]) = {s[i] : i \in 1 .. k} \ S BY <2>6, <2>8, <3>3, <3>4, <3>5
      <4> QED BY <4>1, <4>2
    <3> QED BY <2>1, <3>6
  <2> QED BY <2>7, <2>8
<1>5. P(Len(s))
  <2>1. Len(s) \in 0 .. Len(s) BY <1>0
  <2> HIDE DEF P
  <2> QED BY <1>4, <2>1
<1> QED BY <1>1, <1>5 DEF Elements

\* An ask that is over is nowhere.
NotWaiting(m) == m \notin DOMAIN pendingAsks /\ m # current /\ m \notin Elements(turns)

TrackerInv ==
  /\ TrackerTypeOK
  /\ DOMAIN pendingAsks \cap Plain = {}
  /\ ~tooLate /\ \A m \in settled : NotWaiting(m)

LEMMA GoneIs == ASSUME TrackerTypeOK PROVE \A m : Contains(turns, m) <=> m \in Elements(turns)
BY DEF Contains, Elements

LEMMA InitTracker == TrackerInit => TrackerInv
<1> SUFFICES ASSUME TrackerInit PROVE TrackerInv
  OBVIOUS
<1>1. DOMAIN <<>> = {} /\ Len(<<>>) = 0 /\ <<>> \in Seq(Mail) /\ <<>> \in Seq(Mail \X (0 .. MaxNow))
  BY EmptySeq
<1>2. TrackerTypeOK
  <2>1. pendingAsks = <<>> /\ seen = <<>> /\ cancelledAsks = <<>> /\ turns = <<>>
    BY DEF TrackerInit
  <2>2. /\ DOMAIN pendingAsks \subseteq Mail \ Plain /\ \A m \in DOMAIN pendingAsks : pendingAsks[m] \in 0 .. now
        /\ DOMAIN cancelledAsks \subseteq Mail \ Plain
    BY <1>1, <2>1
  <2>3. seen \in Seq(Mail \X (0 .. MaxNow)) /\ Len(seen) <= SeenMax /\ turns \in Seq(Mail)
    BY <1>1, <2>1, TrackerAssumption
  <2>4. now \in 0 .. MaxNow
    <3>1. now = 0 /\ MaxNow \in Nat BY TrackerAssumption DEF TrackerInit
    <3> QED BY <3>1
  <2>5. /\ replying \subseteq Mail /\ settled \subseteq Mail
        /\ current \in Mail \cup {NoMail} /\ tooLate \in BOOLEAN
    BY DEF TrackerInit
  <2> QED BY <2>2, <2>3, <2>4, <2>5 DEF TrackerTypeOK
<1> QED BY <1>1, <1>2 DEF TrackerInit, TrackerInv

\* Dismissing asks leaves fewer of them, and fewer turns.
LEMMA Dismissed ==
  ASSUME TrackerInv, NEW S, Dismiss(S)
  PROVE  /\ DOMAIN pendingAsks' = DOMAIN pendingAsks \ S
         /\ \A m \in DOMAIN pendingAsks' : pendingAsks'[m] = pendingAsks[m]
         /\ turns' \in Seq(Mail) /\ Elements(turns)' = Elements(turns) \ S
         /\ current' \in Mail \cup {NoMail} /\ current' \in {current, NoMail}
         /\ current \in S => current' = NoMail
<1>1. turns \in Seq(Mail)
  BY DEF TrackerInv, TrackerTypeOK
<1>2. turns' \in Seq(Mail) /\ Elements(turns') = Elements(turns) \ S
  BY <1>1, FilteredHas DEF Dismiss
<1>3. Elements(turns)' = Elements(turns')
  BY DEF Elements
<1> QED BY <1>2, <1>3 DEF Dismiss, Without, TrackerInv, TrackerTypeOK

\* What the filter still remembers it does not take for new.
LEMMA RememberedIsDuplicate ==
  ASSUME TrackerTypeOK, NEW m \in Mail, Remembered(m)
  PROVE  Duplicate(m)
<1> DEFINE Old == {s \in Mail \X (0 .. MaxNow) : now - s[2] > Retention}
<1>1. seen \in Seq(Mail \X (0 .. MaxNow)) /\ Len(seen) \in Nat /\ now \in Nat
  BY LenProperties, TrackerAssumption DEF TrackerTypeOK
<1>2. PICK i \in DOMAIN seen : seen[i][1] = m /\ now - seen[i][2] <= Retention
  BY DEF Remembered
<1>3. i \in 1 .. Len(seen) /\ seen[i] \in Mail \X (0 .. MaxNow)
  BY <1>1, <1>2, LenProperties, ElementOfSeq
<1>4. seen[i] \notin Old
  BY <1>1, <1>2, <1>3, TrackerAssumption
<1> HIDE DEF Old
<1>5. seen[i] \in Elements(Filtered(seen, Old)) /\ Filtered(seen, Old) \in Seq(Mail \X (0 .. MaxNow))
  <2>1. /\ Filtered(seen, Old) \in Seq(Mail \X (0 .. MaxNow))
        /\ Elements(Filtered(seen, Old)) = Elements(seen) \ Old
    BY <1>1, FilteredHas
  <2>2. seen[i] \in Elements(seen)
    BY <1>3 DEF Elements
  <2> QED BY <1>4, <2>1, <2>2
<1>6. Kept = Filtered(seen, Old)
  BY DEF Kept, Old
<1>7. PICK j \in 1 .. Len(Kept) : Kept[j] = seen[i]
  BY <1>5, <1>6 DEF Elements
<1>8. j \in DOMAIN Kept
  BY <1>5, <1>6, <1>7, LenProperties
<1> QED BY <1>2, <1>7, <1>8 DEF Duplicate

\* The filter keeps within its limit.
LEMMA KeptType ==
  ASSUME TrackerTypeOK
  PROVE  Kept \in Seq(Mail \X (0 .. MaxNow)) /\ Len(Kept) <= SeenMax
<1>1. seen \in Seq(Mail \X (0 .. MaxNow)) /\ Len(seen) <= SeenMax /\ Len(seen) \in Nat
  BY LenProperties DEF TrackerTypeOK
<1>2. Kept \in Seq(Mail \X (0 .. MaxNow)) /\ Len(Kept) <= Len(seen)
  BY <1>1, FilteredHas DEF Kept
<1>3. Len(Kept) \in Nat
  BY <1>2, LenProperties
<1> QED BY <1>1, <1>2, <1>3, TrackerAssumption

LEMMA NotedType ==
  ASSUME TrackerTypeOK, NEW m \in Mail
  PROVE  Noted(m) \in Seq(Mail \X (0 .. MaxNow)) /\ Len(Noted(m)) <= SeenMax
<1> DEFINE T == Mail \X (0 .. MaxNow)
           all == Append(Kept, <<m, now>>)
<1>1. Kept \in Seq(T) /\ Len(Kept) <= SeenMax /\ Len(Kept) \in Nat /\ SeenMax \in Nat
  BY KeptType, LenProperties, TrackerAssumption
<1>2. <<m, now>> \in T
  BY DEF TrackerTypeOK
<1> HIDE DEF T
<1>3. all \in Seq(T) /\ Len(all) = Len(Kept) + 1
  BY <1>1, <1>2, AppendProperties
<1>4. CASE Len(all) > SeenMax
  <2>1. \A i \in Len(all) - SeenMax + 1 .. Len(all) : all[i] \in T
    <3>1. \A i \in 1 .. Len(all) : all[i] \in T BY <1>3, ElementOfSeq
    <3> QED BY <1>1, <1>3, <1>4, <3>1
  <2>2. Len(all) - SeenMax + 1 \in Int /\ Len(all) \in Int
    BY <1>1, <1>3
  <2> DEFINE sub == SubSeq(all, Len(all) - SeenMax + 1, Len(all))
  <2>3. /\ sub \in Seq(T)
        /\ Len(sub) = IF Len(all) - SeenMax + 1 <= Len(all)
                      THEN Len(all) - (Len(all) - SeenMax + 1) + 1 ELSE 0
    <3> HIDE DEF all
    <3> QED BY <2>1, <2>2, SubSeqProperties
  <2>4. Noted(m) = sub BY <1>4 DEF Noted
  <2>5. Len(sub) <= SeenMax BY <1>1, <1>3, <2>3
  <2> QED BY <2>3, <2>4, <2>5 DEF T
<1>5. CASE ~(Len(all) > SeenMax)
  BY <1>1, <1>3, <1>5 DEF Noted, T
<1> QED BY <1>4, <1>5

LEMMA MailArrives ==
  ASSUME TrackerInv, NEW m \in Mail, Arrive(m)
  PROVE  TrackerInv'
<1> USE TrackerAssumption DEF TrackerInv, TrackerTypeOK
<1>1. CASE Duplicate(m)
  <2>1. TrackerTypeOK'
    BY <1>1, KeptType DEF Arrive
  <2>2. \A x \in settled' : NotWaiting(x)'
    BY <1>1 DEF Arrive, NotWaiting, Elements
  <2> QED BY <1>1, <2>1, <2>2 DEF Arrive
<1>2. CASE ~Duplicate(m)
  <2>1. ~Remembered(m)
    BY <1>2, RememberedIsDuplicate
  <2>2. seen' \in Seq(Mail \X (0 .. MaxNow)) /\ Len(seen') <= SeenMax
    BY <1>2, NotedType DEF Arrive
  <2>3. /\ DOMAIN pendingAsks' \subseteq DOMAIN pendingAsks \cup ({m} \ Plain)
        /\ \A x \in DOMAIN pendingAsks' : pendingAsks'[x] <= now'
    BY <1>2 DEF Arrive
  <2>4. turns' \in Seq(Mail) /\ Elements(turns)' \subseteq Elements(turns) \cup {m}
    <3>1. CASE turns' = Append(turns, m)
      <4>1. /\ turns' \in Seq(Mail) /\ Len(turns') = Len(turns) + 1
            /\ \A i \in 1 .. Len(turns) : turns'[i] = turns[i]
            /\ turns'[Len(turns) + 1] = m /\ Len(turns) \in Nat
        BY <3>1, AppendProperties, LenProperties
      <4> QED BY <4>1 DEF Elements
    <3>2. CASE UNCHANGED turns
      BY <3>2 DEF Elements
    <3> QED BY <1>2, <3>1, <3>2 DEF Arrive
  <2>5. TrackerTypeOK' /\ DOMAIN pendingAsks' \cap Plain = {}
    BY <2>2, <2>3, <2>4 DEF Arrive
  <2>6. \A x \in settled' : NotWaiting(x)'
    BY <2>1, <2>3, <2>4 DEF Arrive, NotWaiting
  <2> QED BY <2>5, <2>6 DEF Arrive
<1> QED BY <1>1, <1>2

LEMMA AsksAreDismissed ==
  ASSUME TrackerInv, NEW S, Dismiss(S), S \cap Mail \subseteq settled' \/ settled' = settled,
         settled' \subseteq settled \cup (S \cap Mail),
         DOMAIN cancelledAsks' \subseteq Mail \ Plain, replying' \subseteq Mail,
         tooLate' = FALSE, UNCHANGED <<now, seen>>
  PROVE  TrackerInv'
<1>0. /\ DOMAIN pendingAsks' = DOMAIN pendingAsks \ S
      /\ \A m \in DOMAIN pendingAsks' : pendingAsks'[m] = pendingAsks[m]
      /\ turns' \in Seq(Mail) /\ Elements(turns)' = Elements(turns) \ S
      /\ current' \in Mail \cup {NoMail} /\ current' \in {current, NoMail}
      /\ current \in S => current' = NoMail
  BY Dismissed
<1>1. TrackerTypeOK'
  BY <1>0 DEF TrackerInv, TrackerTypeOK
<1>2. \A x \in settled' : NotWaiting(x)'
  <2> SUFFICES ASSUME NEW x \in settled' PROVE NotWaiting(x)'
    OBVIOUS
  <2>1. x \in Mail /\ x # NoMail
    BY TrackerAssumption DEF TrackerInv, TrackerTypeOK
  <2>2. x \in S \/ NotWaiting(x)
    BY DEF TrackerInv
  <2>3. x \notin DOMAIN pendingAsks' /\ x \notin Elements(turns)'
    BY <1>0, <2>2 DEF NotWaiting
  <2>4. x # current'
    BY <1>0, <2>1, <2>2 DEF NotWaiting
  <2> QED BY <2>3, <2>4 DEF NotWaiting
<1> QED BY <1>0, <1>1, <1>2 DEF TrackerInv

LEMMA TurnsBegin ==
  ASSUME TrackerInv, BeginTurn
  PROVE  TrackerInv'
<1> USE TrackerAssumption DEF TrackerInv, TrackerTypeOK
<1> DEFINE kept == Filtered(turns, TooOld(pendingAsks))
<1>1. kept \in Seq(Mail) /\ Elements(kept) \subseteq Elements(turns)
  BY FilteredHas
<1>2. /\ current' = IF kept = <<>> THEN NoMail ELSE Head(kept)
      /\ turns' = IF kept = <<>> THEN kept ELSE Tail(kept)
  BY DEF BeginTurn
<1> HIDE DEF kept
<1>3. /\ turns' \in Seq(Mail) /\ Elements(turns') \subseteq Elements(kept)
      /\ current' \in Mail \cup {NoMail} /\ current' # NoMail => current' \in Elements(kept)
  <2>1. CASE kept = <<>>
    BY <1>1, <1>2, <2>1
  <2>2. CASE kept # <<>>
    <3>1. /\ Head(kept) \in Mail /\ Tail(kept) \in Seq(Mail) /\ Len(Tail(kept)) = Len(kept) - 1
          /\ \A i \in 1 .. Len(Tail(kept)) : Tail(kept)[i] = kept[i + 1]
          /\ Len(kept) \in Nat \ {0}
      BY <1>1, <2>2, HeadTailProperties, EmptySeq
    <3>2. Head(kept) = kept[1]
      BY <1>1, <2>2
    <3>3. Elements(Tail(kept)) \subseteq Elements(kept)
      BY <3>1 DEF Elements
    <3> QED BY <1>2, <2>2, <3>1, <3>2, <3>3 DEF Elements
  <2> QED BY <2>1, <2>2
<1>4. TrackerTypeOK' /\ DOMAIN pendingAsks' \subseteq DOMAIN pendingAsks
  BY <1>3 DEF BeginTurn, Without
<1>5. \A x \in settled' : NotWaiting(x)'
  <2>1. Elements(turns)' = Elements(turns') BY DEF Elements
  <2>2. settled' = settled /\ settled \subseteq Mail BY DEF BeginTurn
  <2> QED BY <1>1, <1>3, <1>4, <2>1, <2>2 DEF NotWaiting
<1> QED BY <1>4, <1>5 DEF BeginTurn

\* What a reply may be for is an ask that is left, or the mail of the turn.
LEMMA TargetsWait ==
  ASSUME NEW pending, NEW cancelled, NEW cur, NEW how \in {"id", "sender", "none", "send"}
  PROVE  Targets(pending, cancelled, cur)[how] \subseteq pending \cup ({cur} \ {NoMail})
<1> DEFINE of(s) == {m \in pending : From[m] = s}
           only(S) == IF Cardinality(S) = 1 THEN S ELSE {}
<1>1. \A s : only(of(s)) \subseteq pending
  OBVIOUS
<1>2. only(pending) \subseteq pending
  OBVIOUS
<1>3. Targets(pending, cancelled, cur) =
        [id     |-> pending \cup ({cur} \ {NoMail}),
         sender |-> UNION {only(of(s)) : s \in {From[m] : m \in Mail}},
         none   |-> IF cur # NoMail THEN {cur} ELSE only(pending),
         send   |-> UNION {only(of(s)) : s \in {From[m] : m \in Mail} \ {From[m] : m \in cancelled}}]
  BY DEF Targets
<1> HIDE DEF of, only
<1> QED BY <1>1, <1>2, <1>3

LEMMA RepliesBegin ==
  ASSUME TrackerInv, NEW how \in {"id", "sender", "none", "send"}, BeginReply(how)
  PROVE  TrackerInv'
<1> DEFINE old == TooOld(pendingAsks)
<1>1. Dismiss(old) /\ DOMAIN cancelledAsks' \subseteq DOMAIN cancelledAsks
      /\ UNCHANGED <<now, seen, settled>>
  BY DEF BeginReply, Without
<1>2. /\ DOMAIN pendingAsks' = DOMAIN pendingAsks \ old
      /\ current' \in {current, NoMail} /\ current' \in Mail \cup {NoMail}
      /\ current \in old => current' = NoMail
  BY <1>1, Dismissed
<1>3. PICK m \in DOMAIN pendingAsks' \cup ({current'} \ {NoMail}) :
         /\ replying' = replying \cup {m}
         /\ tooLate' = (tooLate \/ m \in settled \/
                          (m \in DOMAIN pendingAsks /\ now - pendingAsks[m] > AskTimeout))
  BY TargetsWait DEF BeginReply
<1>4. m \in Mail /\ m \notin old /\ (m \in DOMAIN pendingAsks \/ m = current)
  BY <1>2, <1>3 DEF TrackerInv, TrackerTypeOK
<1>5. m \notin settled
  BY <1>4 DEF TrackerInv, NotWaiting
<1>6. ~(m \in DOMAIN pendingAsks /\ now - pendingAsks[m] > AskTimeout)
  BY <1>4 DEF TooOld
<1>7. tooLate' = FALSE
  BY <1>3, <1>5, <1>6 DEF TrackerInv, TrackerTypeOK
<1>8. replying' \subseteq Mail /\ DOMAIN cancelledAsks' \subseteq Mail \ Plain
  BY <1>1, <1>3, <1>4 DEF TrackerInv, TrackerTypeOK
<1> HIDE DEF old
<1> QED BY <1>1, <1>7, <1>8, AsksAreDismissed

LEMMA TrackerStep == TrackerInv /\ [TrackerNext]_trackerVars => TrackerInv'
<1> SUFFICES ASSUME TrackerInv, [TrackerNext]_trackerVars PROVE TrackerInv'
  OBVIOUS
<1>0. tooLate = FALSE /\ replying \subseteq Mail /\ DOMAIN cancelledAsks \subseteq Mail \ Plain
      /\ DOMAIN pendingAsks \subseteq Mail \ Plain
  BY DEF TrackerInv, TrackerTypeOK
<1>1. ASSUME NEW m \in Mail, NEW act \in {"cancel", "superseded"}, Control(m, act)
      PROVE  TrackerInv'
  <2>1. DOMAIN cancelledAsks' \subseteq Mail \ Plain
    BY <1>0, <1>1 DEF Control
  <2>2. CASE m \in Plain
    BY <1>0, <1>1, <2>1, <2>2, AsksAreDismissed DEF Control
  <2>3. CASE m \notin Plain
    BY <1>0, <1>1, <2>1, <2>3, AsksAreDismissed DEF Control
  <2> QED BY <2>2, <2>3
<1>2. ASSUME NEW m \in Mail, EndReply(m) PROVE TrackerInv'
  <2>1. CASE UNCHANGED <<pendingAsks, turns, current, settled>>
    BY <1>2, <2>1 DEF EndReply, TrackerInv, TrackerTypeOK, NotWaiting, Elements
  <2>2. CASE Dismiss({m}) /\ settled' = settled \cup ({m} \ Plain)
    <3>1. CASE m \in Plain
      BY <1>0, <1>2, <2>2, <3>1, AsksAreDismissed DEF EndReply
    <3>2. CASE m \notin Plain
      BY <1>0, <1>2, <2>2, <3>2, AsksAreDismissed DEF EndReply
    <3> QED BY <3>1, <3>2
  <2> QED BY <1>2, <2>1, <2>2 DEF EndReply
<1>3. CASE EndTurn
  BY <1>3, TrackerAssumption DEF EndTurn, TrackerInv, TrackerTypeOK, NotWaiting, Elements
<1>4. CASE Reset
  <2>1. DOMAIN <<>> = {} /\ Len(<<>>) = 0 /\ <<>> \in Seq(Mail)
    BY EmptySeq
  <2> QED BY <1>4, <2>1, TrackerAssumption
          DEF Reset, TrackerInv, TrackerTypeOK, NotWaiting, Elements
<1>5. CASE Tick
  BY <1>5, TrackerAssumption DEF Tick, TrackerInv, TrackerTypeOK, NotWaiting, Elements
<1>6. CASE UNCHANGED trackerVars
  BY <1>6 DEF trackerVars, TrackerInv, TrackerTypeOK, NotWaiting, Elements
<1> QED BY <1>1, <1>2, <1>3, <1>4, <1>5, <1>6, MailArrives, TurnsBegin, RepliesBegin
        DEF TrackerNext

\* However much mail there is and in whatever order it arrives, is answered, cancelled and
\* delivered once more: an ask that is over stays away from the asks and the turns for as long
\* as its id is remembered, and no reply is begun to one that is over or too old
\* (dismissPendingAsk, hasSeenInboundMessage, beginTurn).
THEOREM SettledAsksStayGone == TrackerSpec => []SettledAskIsGone
<1>1. TrackerInv => SettledAskIsGone
  BY GoneIs DEF TrackerInv, NotWaiting, SettledAskIsGone
<1> QED BY <1>1, InitTracker, TrackerStep, PTL DEF TrackerSpec

---------------------------------------------------------------------------
(* The watches (WatchRoutes) *)

FrameTypes == {"register", "close", "watch_request", "watch_cancel", "watch_response",
               "watch_page", "watch_error"}
WatchFrames == [type : FrameTypes, w : Watches, n : 0 .. MaxSocket]

\* What may wait on socket k, to the broker and from it, if n is the number of the socket on
\* which the target of w was listed.
UpFrames(k, w, n) ==
  {f \in WatchFrames :
     /\ f.type = "watch_request" /\ f.w = w => k[1] = Asker[w] /\ f.n = n
     /\ f.type = "watch_response" /\ f.w = w => k = <<Watched[w], n>>}
DownFrames(k, w, n) ==
  {f \in WatchFrames : f.type = "watch_request" /\ f.w = w => k = <<Watched[w], n>>}

\* Every trace of watch w leads to socket n of its target: the request on its way to the broker
\* and from it, the page that is being made, the answer, and the route.
UpTraces(w, n)    == \A k \in WatchSockets : up[k] \in Seq(UpFrames(k, w, n))
DownTraces(w, n)  == \A k \in WatchSockets : down[k] \in Seq(DownFrames(k, w, n))
PageTraces(w, n)  ==
  \A s \in Watchers : w \in inbound[s] => link[s].open /\ Socket(s) = <<Watched[w], n>>
RouteTraces(w, n) == \A r \in routes : r.w = w => r.target = n
Traces(w, n) == UpTraces(w, n) /\ DownTraces(w, n) /\ PageTraces(w, n) /\ RouteTraces(w, n)

\* A watch that was called has one such number, and one that was not has left no trace.
OneTarget ==
  \A w \in Watches :
    /\ \E n \in 1 .. MaxSocket : Traces(w, n)
    /\ watch[w] = "new" => \A n \in 1 .. MaxSocket : Traces(w, n)

\* Both sessions of a route are there, on the sockets it was made with.
RoutesAreLive ==
  \A r \in routes : member[Asker[r.w]] = r.asker /\ member[Watched[r.w]] = r.target

WatchInv ==
  /\ WatchTypeOK /\ IsFiniteSet(routes)
  /\ up \in [WatchSockets -> Seq(WatchFrames)] /\ down \in [WatchSockets -> Seq(WatchFrames)]
  /\ \A s \in Watchers : link[s].open => link[s].n # 0
  /\ OneTarget /\ RoutesAreLive /\ NoTargetIsCutOff

\* A set with finitely many elements can be put in a row.
LEMMA RowOfSet ==
  ASSUME NEW S, IsFiniteSet(S)
  PROVE  SetToSeq(S) \in Seq(S)
<1>1. Cardinality(S) \in Nat /\ ExistsBijection(1 .. Cardinality(S), S)
  BY FS_CardinalityType
<1>2. PICK f \in [1 .. Cardinality(S) -> S] : IsInjective(f)
  BY <1>1 DEF ExistsBijection, Bijection, Injection
<1>3. SetToSeq(S) \in [1 .. Cardinality(S) -> S]
  BY <1>2 DEF SetToSeq
<1> QED BY <1>1, <1>3

\* What one thing is made of each element of a finite set is finite too.
LEMMA RowOfFrames ==
  ASSUME NEW S, IsFiniteSet(S)
  PROVE  IsFiniteSet({g.frame : g \in S})
<1> DEFINE T == {g.frame : g \in S}
           f == [g \in S |-> g.frame]
<1>1. f \in Surjection(S, T)
  BY DEF Surjection
<1> QED BY <1>1, FS_Surjection

\* The frames that a set of routes gives rise to are finitely many.
LEMMA FewFrames ==
  ASSUME NEW mine \in SUBSET routes, IsFiniteSet(routes), NEW type
  PROVE  /\ IsFiniteSet({[to |-> AskerSocket(r), frame |-> Frame(type, r.w, 0)] : r \in mine})
         /\ IsFiniteSet({[to |-> TargetSocket(r), frame |-> Frame(type, r.w, 0)] : r \in mine})
<1> DEFINE A == {[to |-> AskerSocket(r), frame |-> Frame(type, r.w, 0)] : r \in mine}
           T == {[to |-> TargetSocket(r), frame |-> Frame(type, r.w, 0)] : r \in mine}
           a == [r \in mine |-> [to |-> AskerSocket(r), frame |-> Frame(type, r.w, 0)]]
           t == [r \in mine |-> [to |-> TargetSocket(r), frame |-> Frame(type, r.w, 0)]]
<1>1. IsFiniteSet(mine)
  BY FS_Subset
<1>2. a \in Surjection(mine, A)
  BY DEF Surjection
<1>3. t \in Surjection(mine, T)
  BY DEF Surjection
<1>4. IsFiniteSet(A) /\ IsFiniteSet(T)
  BY <1>1, <1>2, <1>3, FS_Surjection
<1> QED BY <1>4

\* What is written to a socket keeps to what may wait there, if each frame does.
LEMMA WrittenKeeps ==
  ASSUME NEW frames, IsFiniteSet(frames), NEW k \in WatchSockets, NEW S,
         down[k] \in Seq(S), \A g \in frames : g.to = k => g.frame \in S
  PROVE  Written(frames)[k] \in Seq(S)
<1> DEFINE here == {g \in frames : g.to = k}
           new  == {g.frame : g \in here}
<1>1. IsFiniteSet(here)
  BY FS_Subset
<1>2. IsFiniteSet(new)
  BY <1>1, RowOfFrames
<1>3. SetToSeq(new) \in Seq(new)
  BY <1>2, RowOfSet
<1>4. new \subseteq S
  OBVIOUS
<1>5. SetToSeq(new) \in Seq(S)
  <2> HIDE DEF new
  <2> DEFINE row == SetToSeq(new)
  <2>1. row \in Seq(new)
    BY <1>3
  <2> HIDE DEF row
  <2>2. row \in Seq(S)
    BY <1>4, <2>1
  <2> QED BY <2>2 DEF row
<1>6. Written(frames)[k] = down[k] \/ Written(frames)[k] = down[k] \o SetToSeq(new)
  BY DEF Written
<1>7. down[k] \o SetToSeq(new) \in Seq(S)
  <2> HIDE DEF new
  <2> QED BY <1>5, ConcatProperties
<1> QED BY <1>6, <1>7

LEMMA WrittenSomewhere ==
  \A frames : /\ DOMAIN Written(frames) = WatchSockets
              /\ Written(frames) = [k \in WatchSockets |-> Written(frames)[k]]
BY DEF Written

\* Frames that are neither a request nor an answer may wait anywhere.
LEMMA HarmlessFrames ==
  ASSUME NEW v \in Watches, NEW k \in WatchSockets, NEW w \in Watches, NEW n \in 1 .. MaxSocket,
         NEW type \in FrameTypes \ {"watch_request", "watch_response"}
  PROVE  Frame(type, v, 0) \in UpFrames(k, w, n) /\ Frame(type, v, 0) \in DownFrames(k, w, n)
<1>1. 0 \in 0 .. MaxSocket
  BY WatchAssumption
<1> QED BY <1>1 DEF Frame, WatchFrames, UpFrames, DownFrames

LEMMA HelloAndBye ==
  ASSUME NEW k \in WatchSockets, NEW w \in Watches, NEW n \in 1 .. MaxSocket
  PROVE  Hello \in UpFrames(k, w, n) /\ Bye \in UpFrames(k, w, n)
BY WatchAssumption, HarmlessFrames DEF Hello, Bye, FrameTypes

\* A frame that is sent, on a socket where it may wait.
LEMMA UpKeeps ==
  ASSUME NEW w \in Watches, NEW n \in 1 .. MaxSocket, NEW x, NEW f,
         up \in [WatchSockets -> Seq(WatchFrames)], UpTraces(w, n),
         up' = [up EXCEPT ![x] = Append(@, f)],
         x \in WatchSockets => f \in UpFrames(x, w, n)
  PROVE  UpTraces(w, n)'
<1> SUFFICES ASSUME NEW k \in WatchSockets PROVE up'[k] \in Seq(UpFrames(k, w, n))
  BY DEF UpTraces, UpFrames, WatchSockets, WatchFrames
<1>0. up[k] \in Seq(UpFrames(k, w, n))
  BY DEF UpTraces
<1>1. CASE k = x
  <2>1. up'[k] = Append(up[k], f)
    BY <1>1
  <2> QED BY <1>0, <1>1, <2>1
<1>2. CASE k # x
  BY <1>0, <1>2
<1> QED BY <1>1, <1>2

\* A frame that is taken from a socket.
LEMMA UpShrinks ==
  ASSUME NEW w \in Watches, NEW n \in 1 .. MaxSocket, NEW x \in WatchSockets,
         up \in [WatchSockets -> Seq(WatchFrames)], UpTraces(w, n),
         up[x] # <<>>, up' = [up EXCEPT ![x] = Tail(@)]
  PROVE  UpTraces(w, n)' /\ Head(up[x]) \in UpFrames(x, w, n)
<1> SUFFICES ASSUME NEW k \in WatchSockets
             PROVE  up'[k] \in Seq(UpFrames(k, w, n)) /\ Head(up[x]) \in UpFrames(x, w, n)
  BY DEF UpTraces, UpFrames, WatchSockets, WatchFrames
<1>0. up[k] \in Seq(UpFrames(k, w, n)) /\ up[x] \in Seq(UpFrames(x, w, n))
  BY DEF UpTraces
<1>1. CASE k = x
  BY <1>0, <1>1
<1>2. CASE k # x
  BY <1>0, <1>2
<1> QED BY <1>1, <1>2

LEMMA DownShrinks ==
  ASSUME NEW w \in Watches, NEW n \in 1 .. MaxSocket, NEW x \in WatchSockets,
         down \in [WatchSockets -> Seq(WatchFrames)], DownTraces(w, n),
         down[x] # <<>>, down' = [down EXCEPT ![x] = Tail(@)]
  PROVE  DownTraces(w, n)' /\ Head(down[x]) \in DownFrames(x, w, n)
<1> SUFFICES ASSUME NEW k \in WatchSockets
             PROVE  down'[k] \in Seq(DownFrames(k, w, n)) /\ Head(down[x]) \in DownFrames(x, w, n)
  BY DEF DownTraces, DownFrames, WatchSockets, WatchFrames
<1>0. down[k] \in Seq(DownFrames(k, w, n)) /\ down[x] \in Seq(DownFrames(x, w, n))
  BY DEF DownTraces
<1>1. CASE k = x
  BY <1>0, <1>1
<1>2. CASE k # x
  BY <1>0, <1>2
<1> QED BY <1>1, <1>2

\* The session actions leave the traces of a watch where they lead.
LEMMA OpenTraces ==
  ASSUME WatchInv, NEW w \in Watches, NEW n \in 1 .. MaxSocket, Traces(w, n),
         NEW s \in Watchers, Open(s)
  PROVE  Traces(w, n)'
<1>1. up \in [WatchSockets -> Seq(WatchFrames)] /\ UpTraces(w, n)
  BY DEF WatchInv, Traces
<1>2. UpTraces(w, n)'
  <2> SUFFICES ASSUME NEW k \in WatchSockets PROVE up'[k] \in Seq(UpFrames(k, w, n))
    BY DEF UpTraces, UpFrames, WatchSockets, WatchFrames
  <2>1. up'[k] = up[k] \/ up'[k] = <<Hello>>
    BY <1>1 DEF Open
  <2>2. Hello \in UpFrames(k, w, n)
    BY HelloAndBye
  <2>3. <<Hello>> \in Seq(UpFrames(k, w, n))
    BY <2>2
  <2> QED BY <1>1, <2>1, <2>3 DEF UpTraces
<1>3. DownTraces(w, n)' /\ RouteTraces(w, n)'
  BY DEF Traces, DownTraces, DownFrames, RouteTraces, Open, WatchSockets, WatchFrames
<1>4. PageTraces(w, n)'
  <2> SUFFICES ASSUME NEW t \in Watchers, w \in inbound[t]
               PROVE  link'[t].open /\ <<t, link'[t].n>> = <<Watched[w], n>>
    BY DEF PageTraces, Socket, Open
  <2>1. link[t].open /\ <<t, link[t].n>> = <<Watched[w], n>>
    BY DEF Traces, PageTraces, Socket
  <2>2. t # s
    BY <2>1 DEF Open
  <2>3. link'[t] = link[t]
    BY <2>2 DEF Open, WatchInv, WatchTypeOK
  <2> QED BY <2>1, <2>3
<1> QED BY <1>2, <1>3, <1>4 DEF Traces

LEMMA LoseTraces ==
  ASSUME WatchInv, NEW w \in Watches, NEW n \in 1 .. MaxSocket, Traces(w, n),
         NEW s \in Watchers, LoseSocket(s)
  PROVE  Traces(w, n)'
<1>1. /\ up \in [WatchSockets -> Seq(WatchFrames)] /\ UpTraces(w, n)
      /\ down \in [WatchSockets -> Seq(WatchFrames)] /\ DownTraces(w, n)
  BY DEF WatchInv, Traces
<1>2. UpTraces(w, n)'
  <2>1. up' = [up EXCEPT ![Socket(s)] = Append(@, Bye)]
    BY DEF LoseSocket
  <2>2. Socket(s) \in WatchSockets => Bye \in UpFrames(Socket(s), w, n)
    BY HelloAndBye
  <2> QED BY <1>1, <2>1, <2>2, UpKeeps
<1>3. DownTraces(w, n)'
  <2> SUFFICES ASSUME NEW k \in WatchSockets PROVE down'[k] \in Seq(DownFrames(k, w, n))
    BY DEF DownTraces, DownFrames, WatchSockets, WatchFrames
  <2>1. down'[k] = down[k] \/ down'[k] = <<>>
    BY <1>1 DEF LoseSocket
  <2>2. <<>> \in Seq(DownFrames(k, w, n))
    OBVIOUS
  <2> QED BY <1>1, <2>1, <2>2 DEF DownTraces
<1>4. RouteTraces(w, n)'
  BY DEF Traces, RouteTraces, LoseSocket
<1>5. PageTraces(w, n)'
  <2> SUFFICES ASSUME NEW t \in Watchers, w \in inbound'[t]
               PROVE  link'[t].open /\ <<t, link'[t].n>> = <<Watched[w], n>>
    BY DEF PageTraces, Socket
  <2>1. t # s /\ w \in inbound[t]
    BY DEF LoseSocket, WatchInv, WatchTypeOK
  <2>2. link[t].open /\ <<t, link[t].n>> = <<Watched[w], n>>
    BY <2>1 DEF Traces, PageTraces, Socket
  <2>3. link'[t] = link[t]
    BY <2>1 DEF LoseSocket, WatchInv, WatchTypeOK
  <2> QED BY <2>2, <2>3
<1> QED BY <1>2, <1>3, <1>4, <1>5 DEF Traces

\* What a call sends, whichever watch it is.
LEMMA CallTraces ==
  ASSUME WatchInv, NEW w \in Watches, NEW n \in 1 .. MaxSocket, Traces(w, n),
         NEW v \in Watches, NEW m \in 0 .. MaxSocket, NEW type \in {"watch_request", "watch_cancel"},
         type = "watch_request" /\ v = w => m = n,
         up' = [up EXCEPT ![Socket(Asker[v])] = Append(@, Frame(type, v, m))],
         UNCHANGED <<link, down, routes, inbound>>
  PROVE  Traces(w, n)'
<1>1. up \in [WatchSockets -> Seq(WatchFrames)] /\ UpTraces(w, n)
  BY DEF WatchInv, Traces
<1>2. UpTraces(w, n)'
  <2>1. Socket(Asker[v])[1] = Asker[v]
    BY DEF Socket
  <2>2. Frame(type, v, m) \in UpFrames(Socket(Asker[v]), w, n)
    BY <2>1 DEF Frame, UpFrames, WatchFrames, FrameTypes
  <2> QED BY <1>1, <2>2, UpKeeps
<1>3. DownTraces(w, n)' /\ RouteTraces(w, n)' /\ PageTraces(w, n)'
  BY DEF Traces, DownTraces, DownFrames, RouteTraces, PageTraces, Socket, WatchSockets, WatchFrames
<1> QED BY <1>2, <1>3 DEF Traces

LEMMA ProvideTraces ==
  ASSUME WatchInv, NEW w \in Watches, NEW n \in 1 .. MaxSocket, Traces(w, n),
         NEW s \in Watchers, NEW v \in Watches, Provide(s, v)
  PROVE  Traces(w, n)'
<1>1. up \in [WatchSockets -> Seq(WatchFrames)] /\ UpTraces(w, n)
  BY DEF WatchInv, Traces
<1>2. UpTraces(w, n)'
  <2>1. v = w => Socket(s) = <<Watched[w], n>>
    BY DEF Traces, PageTraces, Provide
  <2>2. Frame("watch_response", v, 0) \in UpFrames(Socket(s), w, n)
    BY <2>1, WatchAssumption DEF Frame, UpFrames, WatchFrames, FrameTypes
  <2>3. up' = [up EXCEPT ![Socket(s)] = Append(@, Frame("watch_response", v, 0))]
    BY DEF Provide
  <2> QED BY <1>1, <2>2, <2>3, UpKeeps
<1>3. DownTraces(w, n)' /\ RouteTraces(w, n)'
  BY DEF Traces, DownTraces, DownFrames, RouteTraces, Provide, WatchSockets, WatchFrames
<1>4. PageTraces(w, n)'
  <2> SUFFICES ASSUME NEW t \in Watchers, w \in inbound'[t]
               PROVE  link[t].open /\ <<t, link[t].n>> = <<Watched[w], n>>
    BY DEF PageTraces, Socket, Provide
  <2>1. w \in inbound[t]
    BY DEF Provide, WatchInv, WatchTypeOK
  <2> QED BY <2>1 DEF Traces, PageTraces, Socket
<1> QED BY <1>2, <1>3, <1>4 DEF Traces

\* A session that hears a frame: it heard it where the frame belongs, so what it keeps or
\* answers belongs there too.
LEMMA HearTraces ==
  ASSUME WatchInv, NEW w \in Watches, NEW n \in 1 .. MaxSocket, Traces(w, n),
         NEW s \in Watchers, Hear(s)
  PROVE  Traces(w, n)'
<1> DEFINE k == Socket(s)
           f == Head(down[k])
<1>1. /\ up \in [WatchSockets -> Seq(WatchFrames)] /\ UpTraces(w, n)
      /\ down \in [WatchSockets -> Seq(WatchFrames)] /\ DownTraces(w, n)
  BY DEF WatchInv, Traces
<1>2. k \in WatchSockets /\ link[s].open
  <2>1. link[s].open /\ link[s].n \in 0 .. MaxSocket /\ link[s].n # 0
    BY DEF Hear, WatchInv, WatchTypeOK
  <2>2. link[s].n \in 1 .. MaxSocket
    BY <2>1, WatchAssumption
  <2> QED BY <2>1, <2>2 DEF Socket, WatchSockets
<1>3. DownTraces(w, n)' /\ f \in DownFrames(k, w, n)
  <2>1. down[k] # <<>> /\ down' = [down EXCEPT ![k] = Tail(@)]
    BY DEF Hear
  <2> HIDE DEF k
  <2> QED BY <1>1, <1>2, <2>1, DownShrinks
<1>4. f \in WatchFrames /\ (f.type = "watch_request" /\ f.w = w => k = <<Watched[w], n>>)
  BY <1>3 DEF DownFrames
<1>5. UNCHANGED <<link, routes>>
  BY DEF Hear
<1>6. \/ /\ f.type = "watch_request"
         /\ up' = [up EXCEPT ![k] = Append(@, Frame("watch_response", f.w, 0))]
         /\ UNCHANGED inbound
      \/ /\ f.type = "watch_request"
         /\ inbound' = [inbound EXCEPT ![s] = @ \cup {f.w}] /\ UNCHANGED up
      \/ inbound' = [inbound EXCEPT ![s] = @ \ {f.w}] /\ UNCHANGED up
      \/ UNCHANGED <<inbound, up>>
  BY DEF Hear
<1> HIDE DEF f
<1>7. UpTraces(w, n)'
  <2>1. CASE UNCHANGED up
    BY <1>1, <2>1 DEF UpTraces, UpFrames, WatchSockets, WatchFrames
  <2>2. CASE /\ f.type = "watch_request"
             /\ up' = [up EXCEPT ![k] = Append(@, Frame("watch_response", f.w, 0))]
    <3>1. Frame("watch_response", f.w, 0) \in UpFrames(k, w, n)
      BY <1>4, <2>2, WatchAssumption DEF Frame, UpFrames, WatchFrames, FrameTypes
    <3> HIDE DEF k
    <3> QED BY <1>1, <2>2, <3>1, UpKeeps
  <2> QED BY <1>6, <2>1, <2>2
<1>8. PageTraces(w, n)'
  <2> SUFFICES ASSUME NEW t \in Watchers, w \in inbound'[t]
               PROVE  link[t].open /\ <<t, link[t].n>> = <<Watched[w], n>>
    BY <1>5 DEF PageTraces, Socket
  <2>1. w \in inbound[t] \/ (t = s /\ f.w = w /\ f.type = "watch_request")
    BY <1>6 DEF WatchInv, WatchTypeOK
  <2>2. CASE w \in inbound[t]
    BY <2>2 DEF Traces, PageTraces, Socket
  <2>3. CASE t = s /\ f.w = w /\ f.type = "watch_request"
    BY <1>2, <1>4, <2>3 DEF Socket
  <2> QED BY <2>1, <2>2, <2>3
<1>9. RouteTraces(w, n)'
  BY <1>5 DEF Traces, RouteTraces
<1> QED BY <1>3, <1>7, <1>8, <1>9 DEF Traces

\* The broker's handlers.  What they write are frames that may wait anywhere, but for the
\* request they pass on.
Harmless(frames) ==
  /\ IsFiniteSet(frames)
  /\ \A g \in frames : \E type \in FrameTypes \ {"watch_request", "watch_response"}, v \in Watches :
       g.frame = Frame(type, v, 0)

LEMMA HarmlessKeep ==
  ASSUME WatchInv, NEW w \in Watches, NEW n \in 1 .. MaxSocket, DownTraces(w, n),
         NEW frames, Harmless(frames), down' = Written(frames)
  PROVE  DownTraces(w, n)'
<1> SUFFICES ASSUME NEW k \in WatchSockets PROVE Written(frames)[k] \in Seq(DownFrames(k, w, n))
  BY DEF DownTraces, DownFrames, WatchSockets, WatchFrames
<1>1. down[k] \in Seq(DownFrames(k, w, n))
  BY DEF DownTraces
<1>2. \A g \in frames : g.frame \in DownFrames(k, w, n)
  BY HarmlessFrames DEF Harmless
<1> QED BY <1>1, <1>2, WrittenKeeps DEF Harmless

\* The frames for the requesters and the targets of some routes are such frames.
LEMMA NoticesAreHarmless ==
  ASSUME WatchInv, NEW mine \in SUBSET routes,
         NEW type \in FrameTypes \ {"watch_request", "watch_response"}
  PROVE  /\ Harmless({[to |-> AskerSocket(r), frame |-> Frame(type, r.w, 0)] : r \in mine})
         /\ Harmless({[to |-> TargetSocket(r), frame |-> Frame(type, r.w, 0)] : r \in mine})
<1>1. IsFiniteSet(routes) /\ \A r \in mine : r.w \in Watches
  BY DEF WatchInv, WatchTypeOK
<1>2. /\ IsFiniteSet({[to |-> AskerSocket(r), frame |-> Frame(type, r.w, 0)] : r \in mine})
      /\ IsFiniteSet({[to |-> TargetSocket(r), frame |-> Frame(type, r.w, 0)] : r \in mine})
  BY <1>1, FewFrames
<1> QED BY <1>1, <1>2 DEF Harmless

LEMMA BothAreHarmless ==
  ASSUME NEW A, NEW B, Harmless(A), Harmless(B)
  PROVE  Harmless(A \cup B)
<1>1. IsFiniteSet(A \cup B)
  BY FS_Union DEF Harmless
<1> QED BY <1>1 DEF Harmless

LEMMA OneIsHarmless ==
  ASSUME NEW k, NEW v \in Watches, NEW type \in FrameTypes \ {"watch_request", "watch_response"}
  PROVE  Harmless({[to |-> k, frame |-> Frame(type, v, 0)]})
<1>1. IsFiniteSet({[to |-> k, frame |-> Frame(type, v, 0)]})
  BY FS_Singleton
<1> QED BY <1>1 DEF Harmless

LEMMA ClearingIsHarmless ==
  ASSUME WatchInv, NEW k, ClearWatches(k)
  PROVE  /\ \E frames : Harmless(frames) /\ down' = Written(frames)
         /\ routes' \subseteq routes
<1> DEFINE mine == {r \in routes : k \in {AskerSocket(r), TargetSocket(r)}}
           A == {[to |-> TargetSocket(r), frame |-> Frame("watch_cancel", r.w, 0)] :
                   r \in {x \in mine : TargetSocket(x) # k}}
           B == {[to |-> AskerSocket(r), frame |-> Frame("watch_error", r.w, 0)] :
                   r \in {x \in mine : AskerSocket(x) # k}}
<1>1. routes' \subseteq routes /\ down' = Written(A \cup B)
  BY DEF ClearWatches
<1>2. /\ {x \in mine : TargetSocket(x) # k} \in SUBSET routes
      /\ {x \in mine : AskerSocket(x) # k} \in SUBSET routes
  OBVIOUS
<1>3. "watch_cancel" \in FrameTypes \ {"watch_request", "watch_response"}
      /\ "watch_error" \in FrameTypes \ {"watch_request", "watch_response"}
  BY DEF FrameTypes
<1>4. Harmless(A)
  <2> HIDE DEF mine
  <2> QED BY <1>2, <1>3, NoticesAreHarmless
<1>5. Harmless(B)
  <2> HIDE DEF mine
  <2> QED BY <1>2, <1>3, NoticesAreHarmless
<1>6. Harmless(A \cup B)
  <2> HIDE DEF A, B
  <2> QED BY <1>4, <1>5, BothAreHarmless
<1> QED BY <1>1, <1>6

\* The frame the broker takes, and where the watch it is about leads.
LEMMA FrameFits ==
  ASSUME WatchInv, NEW s \in Watchers, NEW m \in 1 .. MaxSocket, up[<<s, m>>] # <<>>, NEW f,
         f = Head(up[<<s, m>>])
  PROVE  /\ f \in WatchFrames
         /\ \A w \in Watches, n \in 1 .. MaxSocket : Traces(w, n) => f \in UpFrames(<<s, m>>, w, n)
         /\ \E n \in 1 .. MaxSocket : Traces(f.w, n) /\ f \in UpFrames(<<s, m>>, f.w, n)
<1>1. <<s, m>> \in WatchSockets /\ up \in [WatchSockets -> Seq(WatchFrames)]
  BY DEF WatchInv, WatchSockets
<1>2. up[<<s, m>>] \in Seq(WatchFrames)
  BY <1>1
<1>3. f \in WatchFrames
  BY <1>2
<1>4. ASSUME NEW w \in Watches, NEW n \in 1 .. MaxSocket, Traces(w, n)
      PROVE  f \in UpFrames(<<s, m>>, w, n)
  <2>1. up[<<s, m>>] \in Seq(UpFrames(<<s, m>>, w, n))
    BY <1>1, <1>4 DEF Traces, UpTraces
  <2> QED BY <2>1
<1>5. f.w \in Watches
  BY <1>3 DEF WatchFrames
<1>6. PICK n \in 1 .. MaxSocket : Traces(f.w, n)
  BY <1>5 DEF WatchInv, OneTarget
<1> QED BY <1>3, <1>4, <1>5, <1>6

\* What a handler has to leave as it should be.
HandledWell ==
  /\ \A w \in Watches, n \in 1 .. MaxSocket : Traces(w, n) => DownTraces(w, n)' /\ RouteTraces(w, n)'
  /\ DOMAIN down' = WatchSockets /\ down' = [k \in WatchSockets |-> down'[k]]
  /\ member' \in [Watchers -> 0 .. MaxSocket]
  /\ routes' \subseteq [w : Watches, asker : 1 .. MaxSocket, target : 1 .. MaxSocket]
  /\ IsFiniteSet(routes') /\ RoutesAreLive' /\ cut' = {}

\* Notices may be written and routes go, while the sessions stay.
LEMMA NoticesAreFine ==
  ASSUME WatchInv, NEW frames, Harmless(frames), down' = Written(frames) \/ down' = down,
         routes' \subseteq routes, UNCHANGED <<member, cut>>
  PROVE  HandledWell
<1>1. \A w \in Watches, n \in 1 .. MaxSocket : Traces(w, n) => RouteTraces(w, n)'
  BY DEF Traces, RouteTraces
<1>2. \A w \in Watches, n \in 1 .. MaxSocket : Traces(w, n) => DownTraces(w, n)'
  <2>1. CASE down' = Written(frames)
    BY <2>1, HarmlessKeep DEF Traces
  <2>2. CASE down' = down
    BY <2>2 DEF Traces, DownTraces, DownFrames, WatchSockets, WatchFrames
  <2> QED BY <2>1, <2>2
<1>3. DOMAIN down' = WatchSockets /\ down' = [k \in WatchSockets |-> down'[k]]
  <2>1. CASE down' = Written(frames)
    BY <2>1, WrittenSomewhere
  <2>2. CASE down' = down
    BY <2>2 DEF WatchInv
  <2> QED BY <2>1, <2>2
<1>4. /\ member' \in [Watchers -> 0 .. MaxSocket] /\ cut' = {}
      /\ routes' \subseteq [w : Watches, asker : 1 .. MaxSocket, target : 1 .. MaxSocket]
  BY DEF WatchInv, WatchTypeOK, NoTargetIsCutOff
<1>5. IsFiniteSet(routes')
  BY FS_Subset DEF WatchInv
<1>6. RoutesAreLive'
  BY DEF WatchInv, RoutesAreLive
<1> QED BY <1>1, <1>2, <1>3, <1>4, <1>5, <1>6 DEF HandledWell

\* A session that is replaced or gone takes the watches of its socket with it.
LEMMA SessionHandled ==
  ASSUME WatchInv, NEW s \in Watchers, NEW m \in 1 .. MaxSocket, NEW f, HandleSession(s, m, f)
  PROVE  HandledWell
<1>1. PICK k : /\ ClearWatches(k)
               /\ \/ k = <<s, member[s]>> /\ member' = [member EXCEPT ![s] = m]
                  \/ k = <<s, m>> /\ member' = IF member[s] = m THEN [member EXCEPT ![s] = 0] ELSE member
  BY DEF HandleSession
<1>2. PICK frames : Harmless(frames) /\ down' = Written(frames)
  BY <1>1, ClearingIsHarmless
<1>3. routes' \subseteq routes
  BY <1>1, ClearingIsHarmless
<1>4. \A w \in Watches, n \in 1 .. MaxSocket : Traces(w, n) => DownTraces(w, n)' /\ RouteTraces(w, n)'
  <2>1. \A w \in Watches, n \in 1 .. MaxSocket : Traces(w, n) => RouteTraces(w, n)'
    BY <1>3 DEF Traces, RouteTraces
  <2>2. \A w \in Watches, n \in 1 .. MaxSocket : Traces(w, n) => DownTraces(w, n)'
    BY <1>2, HarmlessKeep DEF Traces
  <2> QED BY <2>1, <2>2
<1>5. DOMAIN down' = WatchSockets /\ down' = [x \in WatchSockets |-> down'[x]]
  BY <1>2, WrittenSomewhere
<1>6. member \in [Watchers -> 0 .. MaxSocket]
  BY DEF WatchInv, WatchTypeOK
<1>7. member' \in [Watchers -> 0 .. MaxSocket]
  BY <1>1, <1>6, WatchAssumption
<1>8. routes' \subseteq [w : Watches, asker : 1 .. MaxSocket, target : 1 .. MaxSocket] /\ IsFiniteSet(routes')
  BY <1>3, FS_Subset DEF WatchInv, WatchTypeOK
<1>9. RoutesAreLive'
  <2> SUFFICES ASSUME NEW r \in routes'
               PROVE  member'[Asker[r.w]] = r.asker /\ member'[Watched[r.w]] = r.target
    BY DEF RoutesAreLive
  <2>1. r \in routes /\ k # AskerSocket(r) /\ k # TargetSocket(r)
    BY <1>1 DEF ClearWatches
  <2>2. /\ member[Asker[r.w]] = r.asker /\ member[Watched[r.w]] = r.target
        /\ Asker[r.w] \in Watchers /\ Watched[r.w] \in Watchers
    BY <2>1, WatchAssumption DEF WatchInv, WatchTypeOK, RoutesAreLive
  <2>3. k # <<Asker[r.w], r.asker>> /\ k # <<Watched[r.w], r.target>>
    BY <2>1 DEF AskerSocket, TargetSocket
  <2>4. CASE Asker[r.w] # s /\ Watched[r.w] # s
    BY <1>1, <1>6, <2>2, <2>4
  <2>5. CASE k = <<s, member[s]>>
    BY <2>2, <2>3, <2>4, <2>5
  <2>6. CASE k = <<s, m>> /\ member' = IF member[s] = m THEN [member EXCEPT ![s] = 0] ELSE member
    BY <2>2, <2>3, <2>4, <2>6
  <2> QED BY <1>1, <2>5, <2>6
<1>10. cut' = {}
  BY DEF HandleSession, WatchInv, NoTargetIsCutOff
<1> QED BY <1>4, <1>5, <1>7, <1>8, <1>9, <1>10 DEF HandledWell

\* A request is passed on only to the socket it names, on which its target is there, by a
\* session that is there.
LEMMA RequestHandled ==
  ASSUME WatchInv, NEW s \in Watchers, NEW m \in 1 .. MaxSocket, up[<<s, m>>] # <<>>, NEW f,
         f = Head(up[<<s, m>>]), HandleRequest(s, m, f)
  PROVE  HandledWell
<1> DEFINE t == Watched[f.w]
           x == [w |-> f.w, asker |-> m, target |-> f.n]
           g == [to |-> <<t, f.n>>, frame |-> Frame("watch_request", f.w, 0)]
<1>1. f \in WatchFrames /\ f.w \in Watches /\ f.type = "watch_request" /\ member[s] = m
  <2>1. f \in WatchFrames
    BY FrameFits
  <2>2. f.type = "watch_request" /\ member[s] = m
    BY DEF HandleRequest
  <2> QED BY <2>1, <2>2 DEF WatchFrames
<1>2. UNCHANGED <<member, cut>>
  BY DEF HandleRequest
<1>3. CASE /\ down' = Written({[to |-> <<s, m>>, frame |-> Frame("watch_error", f.w, 0)]})
           /\ UNCHANGED routes
  <2>1. "watch_error" \in FrameTypes \ {"watch_request", "watch_response"}
    BY DEF FrameTypes
  <2>2. Harmless({[to |-> <<s, m>>, frame |-> Frame("watch_error", f.w, 0)]})
    BY <1>1, <2>1, OneIsHarmless
  <2> QED BY <1>2, <1>3, <2>2, NoticesAreFine
<1>4. CASE member[t] = f.n /\ routes' = routes \cup {x} /\ down' = Written({g})
  <2>1. PICK n \in 1 .. MaxSocket : Traces(f.w, n) /\ f \in UpFrames(<<s, m>>, f.w, n)
    BY FrameFits
  <2>2. s = Asker[f.w] /\ f.n = n
    BY <1>1, <2>1 DEF UpFrames
  <2>3. IsFiniteSet({g})
    BY FS_Singleton
  <2>4. ASSUME NEW w \in Watches, NEW i \in 1 .. MaxSocket, Traces(w, i)
        PROVE  DownTraces(w, i)' /\ RouteTraces(w, i)'
    <3>1. f \in UpFrames(<<s, m>>, w, i)
      BY <2>4, FrameFits
    <3>2. f.w = w => f.n = i
      BY <1>1, <3>1 DEF UpFrames
    <3>3. RouteTraces(w, i)'
      BY <1>4, <2>4, <3>2 DEF Traces, RouteTraces
    <3>4. DownTraces(w, i)'
      <4> SUFFICES ASSUME NEW k \in WatchSockets PROVE Written({g})[k] \in Seq(DownFrames(k, w, i))
        BY <1>4 DEF DownTraces, DownFrames, WatchSockets, WatchFrames
      <4>1. down[k] \in Seq(DownFrames(k, w, i))
        BY <2>4 DEF Traces, DownTraces
      <4>2. \A h \in {g} : h.to = k => h.frame \in DownFrames(k, w, i)
        BY <1>1, <3>2, WatchAssumption DEF Frame, DownFrames, WatchFrames, FrameTypes
      <4> QED BY <2>3, <4>1, <4>2, WrittenKeeps
    <3> QED BY <3>3, <3>4
  <2>5. DOMAIN down' = WatchSockets /\ down' = [k \in WatchSockets |-> down'[k]]
    BY <1>4, WrittenSomewhere
  <2>6. member' \in [Watchers -> 0 .. MaxSocket] /\ cut' = {}
    BY <1>2 DEF WatchInv, WatchTypeOK, NoTargetIsCutOff
  <2>7. routes' \subseteq [w : Watches, asker : 1 .. MaxSocket, target : 1 .. MaxSocket]
    <3>1. x \in [w : Watches, asker : 1 .. MaxSocket, target : 1 .. MaxSocket]
      BY <1>1, <2>2
    <3> HIDE DEF x
    <3> QED BY <1>4, <3>1 DEF WatchInv, WatchTypeOK
  <2>8. IsFiniteSet(routes')
    BY <1>4, FS_AddElement DEF WatchInv
  <2>9. RoutesAreLive'
    <3>1. member[Asker[x.w]] = x.asker /\ member[Watched[x.w]] = x.target
      BY <1>1, <1>4, <2>2
    <3> HIDE DEF x
    <3> QED BY <1>2, <1>4, <3>1 DEF WatchInv, RoutesAreLive
  <2> QED BY <2>4, <2>5, <2>6, <2>7, <2>8, <2>9 DEF HandledWell
<1> QED BY <1>3, <1>4 DEF HandleRequest

\* An answer comes on the socket the request was written to.  If its route is still there, so
\* are both sessions, on the sockets it was made with, and the answer is passed on.
LEMMA ResponseHandled ==
  ASSUME WatchInv, NEW s \in Watchers, NEW m \in 1 .. MaxSocket, up[<<s, m>>] # <<>>, NEW f,
         f = Head(up[<<s, m>>]), HandleResponse(s, m, f)
  PROVE  HandledWell
<1> DEFINE mine == {r \in routes : r.w = f.w}
<1>1. f \in WatchFrames /\ f.w \in Watches /\ f.type = "watch_response"
  <2>1. f \in WatchFrames
    BY FrameFits
  <2>2. f.type = "watch_response"
    BY DEF HandleResponse
  <2> QED BY <2>1, <2>2 DEF WatchFrames
<1>2. UNCHANGED member
  BY DEF HandleResponse
<1>3. "watch_page" \in FrameTypes \ {"watch_request", "watch_response"}
  BY DEF FrameTypes
<1>4. CASE mine = {}
  <2>1. UNCHANGED <<routes, down, cut>>
    BY <1>4 DEF HandleResponse
  <2>2. Harmless({[to |-> 0, frame |-> Frame("watch_page", f.w, 0)]})
    BY <1>1, <1>3, OneIsHarmless
  <2> QED BY <1>2, <2>1, <2>2, NoticesAreFine
<1>5. CASE mine # {}
  <2> DEFINE r == CHOOSE x \in mine : TRUE
  <2>1. r \in routes /\ r.w = f.w
    BY <1>5
  <2>2. IF TargetSocket(r) # <<s, m>> \/ member[s] # r.target \/ member[Asker[f.w]] # r.asker
        THEN cut' = cut \cup {<<s, m>>} /\ UNCHANGED <<routes, down>>
        ELSE /\ routes' = routes \ {r}
             /\ down' = Written({[to |-> AskerSocket(r), frame |-> Frame("watch_page", f.w, 0)]})
             /\ UNCHANGED cut
    BY <1>5 DEF HandleResponse
  <2> HIDE DEF r
  <2>3. PICK n \in 1 .. MaxSocket : Traces(f.w, n) /\ f \in UpFrames(<<s, m>>, f.w, n)
    BY FrameFits
  <2>4. <<s, m>> = <<Watched[f.w], n>>
    BY <1>1, <2>3 DEF UpFrames
  <2>5. r.target = n
    BY <2>1, <2>3 DEF Traces, RouteTraces
  <2>6. TargetSocket(r) = <<s, m>>
    <3>1. TargetSocket(r) = <<Watched[f.w], n>>
      BY <2>1, <2>5 DEF TargetSocket
    <3> QED BY <2>4, <3>1
  <2>7. member[s] = r.target /\ member[Asker[f.w]] = r.asker
    BY <2>1, <2>4 DEF WatchInv, RoutesAreLive
  <2>8. /\ routes' \subseteq routes /\ UNCHANGED cut
        /\ down' = Written({[to |-> AskerSocket(r), frame |-> Frame("watch_page", f.w, 0)]})
    BY <2>2, <2>6, <2>7
  <2>9. Harmless({[to |-> AskerSocket(r), frame |-> Frame("watch_page", f.w, 0)]})
    BY <1>1, <1>3, OneIsHarmless
  <2> QED BY <1>2, <2>8, <2>9, NoticesAreFine
<1> QED BY <1>4, <1>5

LEMMA CancelHandled ==
  ASSUME WatchInv, NEW s \in Watchers, NEW m \in 1 .. MaxSocket, NEW f, HandleCancel(s, m, f)
  PROVE  HandledWell
<1> DEFINE mine == {r \in routes : r.w = f.w /\ AskerSocket(r) = <<s, m>>}
           frames == {[to |-> TargetSocket(r), frame |-> Frame("watch_cancel", r.w, 0)] : r \in mine}
<1>1. routes' = routes \ mine /\ down' = Written(frames) /\ UNCHANGED <<member, cut>>
  BY DEF HandleCancel
<1>2. Harmless(frames)
  <2>1. "watch_cancel" \in FrameTypes \ {"watch_request", "watch_response"}
    BY DEF FrameTypes
  <2>2. mine \in SUBSET routes
    OBVIOUS
  <2> HIDE DEF mine
  <2> QED BY <2>1, <2>2, NoticesAreHarmless
<1>3. routes' \subseteq routes
  BY <1>1
<1> HIDE DEF frames, mine
<1> QED BY <1>1, <1>2, <1>3, NoticesAreFine

LEMMA StaleHandled ==
  ASSUME WatchInv, NEW s \in Watchers, NEW m \in 1 .. MaxSocket, up[<<s, m>>] # <<>>,
         UNCHANGED <<member, routes, down, cut>>
  PROVE  HandledWell
<1>1. PICK v \in Watches : TRUE
  BY WatchAssumption
<1>2. "watch_error" \in FrameTypes \ {"watch_request", "watch_response"}
  BY DEF FrameTypes
<1>3. Harmless({[to |-> 0, frame |-> Frame("watch_error", v, 0)]})
  BY <1>2, OneIsHarmless
<1> QED BY <1>3, NoticesAreFine

LEMMA TimeoutHandled ==
  ASSUME WatchInv, NEW r \in routes, RouteTimeout(r)
  PROVE  HandledWell
<1> DEFINE a == [to |-> AskerSocket(r), frame |-> Frame("watch_error", r.w, 0)]
           b == [to |-> TargetSocket(r), frame |-> Frame("watch_cancel", r.w, 0)]
<1>1. r.w \in Watches
  BY DEF WatchInv, WatchTypeOK
<1>2. "watch_cancel" \in FrameTypes \ {"watch_request", "watch_response"}
      /\ "watch_error" \in FrameTypes \ {"watch_request", "watch_response"}
  BY DEF FrameTypes
<1>3. Harmless({a}) /\ Harmless({b})
  BY <1>1, <1>2, OneIsHarmless
<1>4. routes' \subseteq routes /\ down' = Written({a, b}) /\ UNCHANGED <<member, cut>>
  BY DEF RouteTimeout
<1>5. {a, b} = {a} \cup {b}
  OBVIOUS
<1> HIDE DEF a, b
<1>6. Harmless({a, b})
  BY <1>3, <1>5, BothAreHarmless
<1> QED BY <1>4, <1>6, NoticesAreFine

\* The broker's steps: what they leave of the sessions' state, and the frame they take.
LEMMA BrokerSteps ==
  ASSUME WatchInv,
         \/ \E k \in WatchSockets : Handle(k[1], k[2])
         \/ \E r \in routes : RouteTimeout(r)
  PROVE  /\ HandledWell /\ UNCHANGED <<link, watch, inbound>>
         /\ up' = [k \in WatchSockets |-> up'[k]]
         /\ \A w \in Watches, n \in 1 .. MaxSocket : UpTraces(w, n) => UpTraces(w, n)'
<1>0. up \in [WatchSockets -> Seq(WatchFrames)]
  BY DEF WatchInv
<1>1. CASE \E k \in WatchSockets : Handle(k[1], k[2])
  <2>1. PICK s \in Watchers, m \in 1 .. MaxSocket : Handle(s, m)
    BY <1>1 DEF WatchSockets
  <2>2. /\ up[<<s, m>>] # <<>> /\ up' = [up EXCEPT ![<<s, m>>] = Tail(@)]
        /\ UNCHANGED <<link, watch, inbound>>
    BY <2>1 DEF Handle
  <2>3. <<s, m>> \in WatchSockets
    BY DEF WatchSockets
  <2>4. PICK f : /\ f = Head(up[<<s, m>>])
                 /\ \/ HandleSession(s, m, f) \/ HandleRequest(s, m, f)
                    \/ HandleResponse(s, m, f) \/ HandleCancel(s, m, f)
                    \/ UNCHANGED <<member, routes, down, cut>>
    BY <2>1 DEF Handle
  <2>5. HandledWell
    BY <2>2, <2>4, SessionHandled, RequestHandled, ResponseHandled, CancelHandled, StaleHandled
  <2>6. \A w \in Watches, n \in 1 .. MaxSocket : UpTraces(w, n) => UpTraces(w, n)'
    BY <1>0, <2>2, <2>3, UpShrinks
  <2>7. up' = [k \in WatchSockets |-> up'[k]]
    BY <1>0, <2>2
  <2> QED BY <2>2, <2>5, <2>6, <2>7
<1>2. CASE \E r \in routes : RouteTimeout(r)
  <2>1. HandledWell
    BY <1>2, TimeoutHandled
  <2>2. UNCHANGED <<link, up, watch, inbound>>
    BY <1>2 DEF RouteTimeout
  <2>3. \A w \in Watches, n \in 1 .. MaxSocket : UpTraces(w, n) => UpTraces(w, n)'
    BY <2>2 DEF UpTraces, UpFrames, WatchSockets, WatchFrames
  <2> QED BY <1>0, <2>1, <2>2, <2>3
<1> QED BY <1>1, <1>2

LEMMA BrokerTraces ==
  ASSUME WatchInv, NEW w \in Watches, NEW n \in 1 .. MaxSocket, Traces(w, n),
         \/ \E k \in WatchSockets : Handle(k[1], k[2])
         \/ \E r \in routes : RouteTimeout(r)
  PROVE  Traces(w, n)'
<1>1. HandledWell /\ UNCHANGED <<link, watch, inbound>>
  BY BrokerSteps
<1>2. DownTraces(w, n)' /\ RouteTraces(w, n)'
  BY <1>1 DEF HandledWell
<1>3. UpTraces(w, n)'
  BY BrokerSteps DEF Traces
<1>4. PageTraces(w, n)'
  BY <1>1 DEF Traces, PageTraces, Socket
<1> QED BY <1>2, <1>3, <1>4 DEF Traces

\* A session's step, named.
LEMMA SessionSteps ==
  ASSUME WatchNext
  PROVE  \/ \E s \in Watchers : Open(s) \/ LoseSocket(s) \/ Hear(s)
         \/ \E s \in Watchers, v \in Watches : Provide(s, v)
         \/ \E v \in Watches : Watch(v) \/ GiveUp(v)
         \/ \E k \in WatchSockets : Handle(k[1], k[2])
         \/ \E r \in routes : RouteTimeout(r)
BY DEF WatchNext

LEMMA GiveUpTraces ==
  ASSUME WatchInv, NEW w \in Watches, NEW n \in 1 .. MaxSocket, Traces(w, n),
         NEW v \in Watches, GiveUp(v)
  PROVE  Traces(w, n)'
<1>1. up' = [up EXCEPT ![Socket(Asker[v])] = Append(@, Frame("watch_cancel", v, 0))]
      /\ UNCHANGED <<link, down, routes, inbound>>
  BY DEF GiveUp
<1>2. 0 \in 0 .. MaxSocket
  BY WatchAssumption
<1> QED BY <1>1, <1>2, CallTraces

\* A call: its own number is the socket it names, and the numbers of the others stay.
LEMMA WatchTraces ==
  ASSUME WatchInv, NEW v \in Watches, Watch(v)
  PROVE  /\ \A w \in Watches, n \in 1 .. MaxSocket : w # v /\ Traces(w, n) => Traces(w, n)'
         /\ \E n \in 1 .. MaxSocket : Traces(v, n)'
<1>1. PICK i \in 1 .. link[Watched[v]].n :
        up' = [up EXCEPT ![Socket(Asker[v])] = Append(@, Frame("watch_request", v, i))]
  BY DEF Watch
<1>2. Watched[v] \in Watchers /\ MaxSocket \in Nat
  BY WatchAssumption
<1>3. link[Watched[v]].n \in 0 .. MaxSocket
  BY <1>2 DEF WatchInv, WatchTypeOK
<1>4. i \in 1 .. MaxSocket /\ i \in 0 .. MaxSocket
  BY <1>2, <1>3
<1>5. UNCHANGED <<link, down, routes, inbound>>
  BY DEF Watch
<1>6. ASSUME NEW w \in Watches, NEW n \in 1 .. MaxSocket, w # v, Traces(w, n)
      PROVE  Traces(w, n)'
  BY <1>1, <1>4, <1>5, <1>6, CallTraces
<1>7. Traces(v, i)
  BY <1>4 DEF WatchInv, OneTarget, Watch
<1>8. Traces(v, i)'
  BY <1>1, <1>4, <1>5, <1>7, CallTraces
<1> QED BY <1>4, <1>6, <1>8

\* A watch that has been called has been called for good.
LEMMA CalledIsCalled ==
  ASSUME WatchInv, WatchNext, NEW w \in Watches, watch'[w] = "new"
  PROVE  watch[w] = "new" /\ ~Watch(w)
<1>0. watch \in [Watches -> {"new", "pending", "page", "error"}]
  BY DEF WatchInv, WatchTypeOK
<1>1. ASSUME NEW s \in Watchers, Open(s) \/ LoseSocket(s)
      PROVE  watch[w] = "new"
  BY <1>0, <1>1 DEF Open, LoseSocket
<1>2. ASSUME NEW s \in Watchers, Hear(s)
      PROVE  watch[w] = "new"
  <2> DEFINE f == Head(down[Socket(s)])
             answer == IF f.type = "watch_page" THEN "page" ELSE "error"
  <2>1. watch' = [watch EXCEPT ![f.w] = answer] \/ watch' = watch
    BY <1>2 DEF Hear
  <2>2. answer # "new"
    OBVIOUS
  <2> HIDE DEF f, answer
  <2> QED BY <1>0, <2>1, <2>2
<1>3. ASSUME NEW s \in Watchers, NEW v \in Watches, Provide(s, v)
      PROVE  watch[w] = "new"
  BY <1>0, <1>3 DEF Provide
<1>4. ASSUME NEW v \in Watches, Watch(v) \/ GiveUp(v)
      PROVE  watch[w] = "new" /\ v # w
  BY <1>0, <1>4 DEF Watch, GiveUp
<1>5. ASSUME \/ \E k \in WatchSockets : Handle(k[1], k[2])
             \/ \E r \in routes : RouteTimeout(r)
      PROVE  watch[w] = "new"
  BY <1>5, BrokerSteps
<1>6. ~Watch(w)
  BY <1>4
<1>7. watch[w] = "new"
  BY <1>1, <1>2, <1>3, <1>4, <1>5, SessionSteps
<1> QED BY <1>6, <1>7

LEMMA TracesStay ==
  ASSUME WatchInv, WatchNext, NEW w \in Watches, NEW n \in 1 .. MaxSocket, Traces(w, n), ~Watch(w)
  PROVE  Traces(w, n)'
<1>1. ASSUME NEW s \in Watchers, Open(s) \/ LoseSocket(s) \/ Hear(s)
      PROVE  Traces(w, n)'
  BY <1>1, OpenTraces, LoseTraces, HearTraces
<1>2. ASSUME NEW s \in Watchers, NEW v \in Watches, Provide(s, v)
      PROVE  Traces(w, n)'
  BY <1>2, ProvideTraces
<1>3. ASSUME NEW v \in Watches, Watch(v)
      PROVE  Traces(w, n)'
  BY <1>3, WatchTraces
<1>4. ASSUME NEW v \in Watches, GiveUp(v)
      PROVE  Traces(w, n)'
  BY <1>4, GiveUpTraces
<1>5. ASSUME \/ \E k \in WatchSockets : Handle(k[1], k[2])
             \/ \E r \in routes : RouteTimeout(r)
      PROVE  Traces(w, n)'
  BY <1>5, BrokerTraces
<1> QED BY <1>1, <1>2, <1>3, <1>4, <1>5, SessionSteps

LEMMA OneTargetStays ==
  ASSUME WatchInv, WatchNext
  PROVE  OneTarget'
<1> SUFFICES ASSUME NEW w \in Watches
             PROVE  /\ \E n \in 1 .. MaxSocket : Traces(w, n)'
                    /\ watch'[w] = "new" => \A n \in 1 .. MaxSocket : Traces(w, n)'
  BY DEF OneTarget
<1>1. \E n \in 1 .. MaxSocket : Traces(w, n)'
  <2>1. CASE Watch(w)
    BY <2>1, WatchTraces
  <2>2. CASE ~Watch(w)
    <3>1. PICK n \in 1 .. MaxSocket : Traces(w, n)
      BY DEF WatchInv, OneTarget
    <3> QED BY <2>2, <3>1, TracesStay
  <2> QED BY <2>1, <2>2
<1>2. ASSUME watch'[w] = "new", NEW n \in 1 .. MaxSocket
      PROVE  Traces(w, n)'
  <2>1. watch[w] = "new" /\ ~Watch(w)
    BY <1>2, CalledIsCalled
  <2>2. Traces(w, n)
    BY <2>1 DEF WatchInv, OneTarget
  <2> QED BY <2>1, <2>2, TracesStay
<1> QED BY <1>1, <1>2

\* What a session does leaves the broker's tables alone, and its own in order.
LEMMA SessionsInOrder ==
  ASSUME WatchInv, WatchNext
  PROVE  /\ link' \in [Watchers -> [n : 0 .. MaxSocket, open : BOOLEAN]]
         /\ watch' \in [Watches -> {"new", "pending", "page", "error"}]
         /\ inbound' \in [Watchers -> SUBSET Watches]
         /\ \A s \in Watchers : link'[s].open => link'[s].n # 0
<1>0. /\ link \in [Watchers -> [n : 0 .. MaxSocket, open : BOOLEAN]]
      /\ watch \in [Watches -> {"new", "pending", "page", "error"}]
      /\ inbound \in [Watchers -> SUBSET Watches]
      /\ \A s \in Watchers : link[s].open => link[s].n # 0
  BY DEF WatchInv, WatchTypeOK
<1>1. ASSUME NEW s \in Watchers, Open(s)
      PROVE  /\ link' \in [Watchers -> [n : 0 .. MaxSocket, open : BOOLEAN]]
             /\ \A t \in Watchers : link'[t].open => link'[t].n # 0
             /\ UNCHANGED <<watch, inbound>>
  <2> DEFINE l == [n |-> link[s].n + 1, open |-> TRUE]
  <2>1. link' = [link EXCEPT ![s] = l] /\ link[s].n < MaxSocket /\ UNCHANGED <<watch, inbound>>
    BY <1>1 DEF Open
  <2>2. link[s].n \in 0 .. MaxSocket /\ MaxSocket \in Nat
    BY <1>0, WatchAssumption
  <2>3. link[s].n + 1 \in 0 .. MaxSocket /\ link[s].n + 1 # 0
    BY <2>1, <2>2
  <2>4. l \in [n : 0 .. MaxSocket, open : BOOLEAN] /\ l.n # 0
    BY <2>3
  <2> HIDE DEF l
  <2> QED BY <1>0, <2>1, <2>4
<1>2. ASSUME NEW s \in Watchers, LoseSocket(s)
      PROVE  /\ link' \in [Watchers -> [n : 0 .. MaxSocket, open : BOOLEAN]]
             /\ \A t \in Watchers : link'[t].open => link'[t].n # 0
             /\ watch' \in [Watches -> {"new", "pending", "page", "error"}]
             /\ inbound' \in [Watchers -> SUBSET Watches]
  <2> DEFINE l == [link[s] EXCEPT !.open = FALSE]
  <2>1. link' = [link EXCEPT ![s] = l]
    BY <1>2 DEF LoseSocket
  <2>2. l \in [n : 0 .. MaxSocket, open : BOOLEAN] /\ ~l.open
    BY <1>0
  <2>3. watch' \in [Watches -> {"new", "pending", "page", "error"}] /\ inbound' \in [Watchers -> SUBSET Watches]
    BY <1>0, <1>2 DEF LoseSocket
  <2> HIDE DEF l
  <2> QED BY <1>0, <2>1, <2>2, <2>3
<1>3. ASSUME NEW s \in Watchers, Hear(s)
      PROVE  /\ UNCHANGED link
             /\ watch' \in [Watches -> {"new", "pending", "page", "error"}]
             /\ inbound' \in [Watchers -> SUBSET Watches]
  <2> DEFINE k == Socket(s)
             f == Head(down[k])
             answer == IF f.type = "watch_page" THEN "page" ELSE "error"
  <2>1. link[s].open /\ link[s].n \in 0 .. MaxSocket /\ link[s].n # 0 /\ MaxSocket \in Nat
    BY <1>0, <1>3, WatchAssumption DEF Hear
  <2>2. link[s].n \in 1 .. MaxSocket
    BY <2>1
  <2>3. k \in WatchSockets
    BY <2>2 DEF Socket, WatchSockets
  <2>4. down[k] \in Seq(WatchFrames) /\ down[k] # <<>>
    BY <1>3, <2>3 DEF Hear, WatchInv
  <2>5. f \in WatchFrames
    <3> HIDE DEF k
    <3> QED BY <2>4
  <2>6. f.w \in Watches
    <3> HIDE DEF f
    <3> QED BY <2>5 DEF WatchFrames
  <2>7. /\ UNCHANGED link
        /\ watch' = [watch EXCEPT ![f.w] = answer] \/ watch' = watch
        /\ \/ inbound' = [inbound EXCEPT ![s] = @ \cup {f.w}]
           \/ inbound' = [inbound EXCEPT ![s] = @ \ {f.w}]
           \/ inbound' = inbound
    BY <1>3 DEF Hear
  <2>8. answer \in {"page", "error"}
    OBVIOUS
  <2> HIDE DEF answer, f
  <2>9. watch' \in [Watches -> {"new", "pending", "page", "error"}]
    BY <1>0, <2>7, <2>8
  <2>10. inbound' \in [Watchers -> SUBSET Watches]
    BY <1>0, <2>6, <2>7
  <2> QED BY <2>7, <2>9, <2>10
<1>4. ASSUME NEW s \in Watchers, NEW v \in Watches, Provide(s, v)
      PROVE  UNCHANGED <<link, watch>> /\ inbound' \in [Watchers -> SUBSET Watches]
  BY <1>0, <1>4 DEF Provide
<1>5. ASSUME NEW v \in Watches, Watch(v) \/ GiveUp(v)
      PROVE  UNCHANGED <<link, inbound>> /\ watch' \in [Watches -> {"new", "pending", "page", "error"}]
  BY <1>0, <1>5 DEF Watch, GiveUp
<1>6. ASSUME \/ \E k \in WatchSockets : Handle(k[1], k[2])
             \/ \E r \in routes : RouteTimeout(r)
      PROVE  UNCHANGED <<link, watch, inbound>>
  BY <1>6, BrokerSteps
<1>7. CASE \E s \in Watchers : Open(s) \/ LoseSocket(s) \/ Hear(s)
  BY <1>0, <1>1, <1>2, <1>3, <1>7
<1>8. CASE \/ \E s \in Watchers, v \in Watches : Provide(s, v)
           \/ \E v \in Watches : Watch(v) \/ GiveUp(v)
  BY <1>0, <1>4, <1>5, <1>8
<1>9. CASE \/ \E k \in WatchSockets : Handle(k[1], k[2])
           \/ \E r \in routes : RouteTimeout(r)
  BY <1>0, <1>6, <1>9
<1> QED BY <1>7, <1>8, <1>9, SessionSteps

LEMMA BrokerInOrder ==
  ASSUME WatchInv, WatchNext
  PROVE  /\ member' \in [Watchers -> 0 .. MaxSocket]
         /\ routes' \subseteq [w : Watches, asker : 1 .. MaxSocket, target : 1 .. MaxSocket]
         /\ IsFiniteSet(routes') /\ RoutesAreLive' /\ cut' = {}
         /\ up' = [k \in WatchSockets |-> up'[k]] /\ down' = [k \in WatchSockets |-> down'[k]]
<1>0. /\ member \in [Watchers -> 0 .. MaxSocket] /\ IsFiniteSet(routes) /\ RoutesAreLive /\ cut = {}
      /\ routes \subseteq [w : Watches, asker : 1 .. MaxSocket, target : 1 .. MaxSocket]
  BY DEF WatchInv, WatchTypeOK, NoTargetIsCutOff
<1>1. up \in [WatchSockets -> Seq(WatchFrames)] /\ down \in [WatchSockets -> Seq(WatchFrames)]
  BY DEF WatchInv
<1>2. CASE \/ \E k \in WatchSockets : Handle(k[1], k[2])
           \/ \E r \in routes : RouteTimeout(r)
  BY <1>2, BrokerSteps DEF HandledWell
<1>3. CASE \/ \E s \in Watchers : Open(s) \/ LoseSocket(s) \/ Hear(s)
           \/ \E s \in Watchers, v \in Watches : Provide(s, v)
           \/ \E v \in Watches : Watch(v) \/ GiveUp(v)
  <2>1. UNCHANGED <<member, routes, cut>>
    BY <1>3 DEF Open, LoseSocket, Hear, Provide, Watch, GiveUp
  <2>2. RoutesAreLive'
    BY <1>0, <2>1 DEF RoutesAreLive
  <2>3. \/ up' = up
        \/ \E x, v : up' = [up EXCEPT ![x] = v]
    BY <1>3 DEF Open, LoseSocket, Hear, Provide, Watch, GiveUp
  <2>4. \/ down' = down
        \/ \E x, v : down' = [down EXCEPT ![x] = v]
    BY <1>3 DEF Open, LoseSocket, Hear, Provide, Watch, GiveUp
  <2>5. up' = [k \in WatchSockets |-> up'[k]]
    BY <1>1, <2>3
  <2>6. down' = [k \in WatchSockets |-> down'[k]]
    BY <1>1, <2>4
  <2> QED BY <1>0, <2>1, <2>2, <2>5, <2>6
<1> QED BY <1>2, <1>3, SessionSteps

LEMMA WatchInvStays ==
  ASSUME WatchInv, WatchNext
  PROVE  WatchInv'
<1>1. OneTarget'
  BY OneTargetStays
<1>2. PICK w \in Watches, n \in 1 .. MaxSocket : Traces(w, n)'
  <2>1. PICK w \in Watches : TRUE
    BY WatchAssumption
  <2> QED BY <1>1, <2>1 DEF OneTarget
<1>3. \A k \in WatchSockets : up'[k] \in Seq(UpFrames(k, w, n)) /\ down'[k] \in Seq(DownFrames(k, w, n))
  BY <1>2 DEF Traces, UpTraces, DownTraces, UpFrames, DownFrames, WatchSockets, WatchFrames
<1>4. \A k \in WatchSockets :
        UpFrames(k, w, n) \subseteq WatchFrames /\ DownFrames(k, w, n) \subseteq WatchFrames
  BY DEF UpFrames, DownFrames
<1>5. \A k \in WatchSockets : up'[k] \in Seq(WatchFrames) /\ down'[k] \in Seq(WatchFrames)
  BY <1>3, <1>4
<1>6. up' \in [WatchSockets -> Seq(WatchFrames)]' /\ down' \in [WatchSockets -> Seq(WatchFrames)]'
  <2>1. up' = [k \in WatchSockets |-> up'[k]] /\ down' = [k \in WatchSockets |-> down'[k]]
    BY BrokerInOrder
  <2> QED BY <1>5, <2>1 DEF WatchSockets, WatchFrames
<1>7. WatchTypeOK'
  BY SessionsInOrder, BrokerInOrder DEF WatchTypeOK, WatchSockets
<1>8. /\ (\A s \in Watchers : link[s].open => link[s].n # 0)'
      /\ IsFiniteSet(routes)' /\ RoutesAreLive' /\ NoTargetIsCutOff'
  BY SessionsInOrder, BrokerInOrder DEF NoTargetIsCutOff
<1> QED BY <1>1, <1>6, <1>7, <1>8 DEF WatchInv

LEMMA WatchInvStarts == WatchInit => WatchInv
<1> SUFFICES ASSUME WatchInit PROVE WatchInv
  OBVIOUS
<1>0. MaxSocket \in Nat \ {0} /\ Watches # {}
  BY WatchAssumption
<1>1. WatchTypeOK
  BY <1>0 DEF WatchInit, WatchTypeOK
<1>2. \A S : <<>> \in Seq(S)
  OBVIOUS
<1>3. up \in [WatchSockets -> Seq(WatchFrames)] /\ down \in [WatchSockets -> Seq(WatchFrames)]
  BY <1>2 DEF WatchInit
<1>4. IsFiniteSet(routes) /\ RoutesAreLive /\ NoTargetIsCutOff
  BY FS_EmptySet DEF WatchInit, RoutesAreLive, NoTargetIsCutOff
<1>5. \A s \in Watchers : link[s].open => link[s].n # 0
  BY DEF WatchInit
<1>6. ASSUME NEW w \in Watches, NEW n \in 1 .. MaxSocket
      PROVE  Traces(w, n)
  <2>1. UpTraces(w, n) /\ DownTraces(w, n)
    BY <1>2 DEF WatchInit, UpTraces, DownTraces
  <2>2. PageTraces(w, n) /\ RouteTraces(w, n)
    BY DEF WatchInit, PageTraces, RouteTraces
  <2> QED BY <2>1, <2>2 DEF Traces
<1>7. OneTarget
  <2>1. 1 \in 1 .. MaxSocket
    BY <1>0
  <2> QED BY <1>6, <2>1 DEF OneTarget
<1> QED BY <1>1, <1>3, <1>4, <1>5, <1>7 DEF WatchInv

\* A target that does what the protocol asks is never cut off for it, whoever left and came
\* back while its page was made.
THEOREM TargetsAreNotCutOff == WatchSpec => []NoTargetIsCutOff
<1>1. WatchInit => WatchInv
  BY WatchInvStarts
<1>2. WatchInv /\ [WatchNext]_watchVars => WatchInv'
  <2> SUFFICES ASSUME WatchInv, [WatchNext]_watchVars PROVE WatchInv'
    OBVIOUS
  <2>1. CASE WatchNext
    BY <2>1, WatchInvStays
  <2>2. CASE UNCHANGED watchVars
    <3> USE <2>2 DEF watchVars
    <3>1. WatchTypeOK' /\ RoutesAreLive' /\ NoTargetIsCutOff'
      BY DEF WatchInv, WatchTypeOK, RoutesAreLive, NoTargetIsCutOff, WatchSockets
    <3>2. \A w, n : Traces(w, n)' = Traces(w, n)
      BY DEF Traces, UpTraces, DownTraces, PageTraces, RouteTraces, Socket, UpFrames, DownFrames,
             WatchSockets, WatchFrames
    <3>3. OneTarget'
      BY <3>2 DEF WatchInv, OneTarget
    <3> QED BY <3>1, <3>3 DEF WatchInv, WatchSockets, WatchFrames
  <2> QED BY <2>1, <2>2
<1>3. WatchInv => NoTargetIsCutOff
  BY DEF WatchInv
<1> QED BY <1>1, <1>2, <1>3, PTL DEF WatchSpec
=============================================================================
