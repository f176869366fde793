------------------------------- MODULE Outbox -------------------------------
(***************************************************************************)
(* Messages that other extensions have the session send for them           *)
(* (src/index.ts): the outbox, whose requests each get one result, and the *)
(* relays of subagents, whose results are acknowledged.  A request is a    *)
(* chain of awaits: connect, find the target, confirm, send.  The session  *)
(* may be replaced or end during each, and another request may come.       *)
(***************************************************************************)
EXTENDS Naturals

CONSTANTS
  Requests,      \* requests of extensions
  RequestIds,    \* the ids they choose
  Relays,        \* relays of subagents, which have no id of this kind
  NoRequest,
  Confirms,      \* config.confirmSend
  ReusedLater,   \* may an id be used again in a later runtime of the session?
  MaxRuntime     \* bound: starts and ends of the session's runtime

ASSUME OutboxAssumption ==
  /\ NoRequest \notin Requests /\ Requests \cap Relays = {}
  /\ MaxRuntime \in Nat /\ Confirms \in BOOLEAN /\ ReusedLater \in BOOLEAN

VARIABLES
  runtime,     \* runtimeGeneration
  started,     \* getLiveContext: is the runtime one that has started and not ended?
  outboxIds,   \* outboxRequestIds
  pendingBox,  \* pendingOutboxRequests: per id the request, or NoRequest
  request,     \* per request and relay: [id, gen, stage]
  outcome,     \* per request and relay: its result, and whose chain emitted it
  arrived,     \* the requests and relays whose message was delivered
  everUsed     \* history: the ids of earlier runtimes

outboxVars == <<runtime, started, outboxIds, pendingBox, request, outcome, arrived, everUsed>>

Chains  == Requests \cup Relays
Session == "session"      \* the end of the session emitted the result

OutboxTypeOK ==
  /\ runtime \in 0 .. MaxRuntime /\ started \in BOOLEAN
  /\ outboxIds \subseteq RequestIds /\ everUsed \subseteq RequestIds
  /\ pendingBox \in [RequestIds -> Requests \cup {NoRequest}]
  /\ request \in [Chains -> [id : RequestIds \cup {NoRequest}, gen : 0 .. MaxRuntime,
       stage : {"new", "connecting", "finding", "confirming", "sending", "over"}]]
  /\ outcome \in [Chains -> [is : {"none", "sent", "failed", "rejected"},
                             by : Chains \cup {Session, NoRequest}]]
  /\ arrived \subseteq Chains

OutboxInit ==
  /\ runtime = 0 /\ started = FALSE /\ outboxIds = {} /\ arrived = {} /\ everUsed = {}
  /\ pendingBox = [i \in RequestIds |-> NoRequest]
  /\ request = [r \in Chains |-> [id |-> NoRequest, gen |-> 0, stage |-> "new"]]
  /\ outcome = [r \in Chains |-> [is |-> "none", by |-> NoRequest]]

Now(r) == started /\ runtime = request[r].gen

\* The chain of r is over, with this result: the outbox has it for the request that is pending
\* under the id (settleOutboxRequest), a relay for itself and while the session is the same.
Settle(r, is) ==
  /\ request' = [request EXCEPT ![r].stage = "over"]
  /\ IF r \in Relays
     THEN /\ outcome' = IF Now(r) THEN [outcome EXCEPT ![r] = [is |-> is, by |-> r]] ELSE outcome
          /\ UNCHANGED pendingBox
     ELSE LET i == request[r].id IN
          /\ outcome' = IF pendingBox[i] = NoRequest THEN outcome
                        ELSE [outcome EXCEPT ![pendingBox[i]] = [is |-> is, by |-> r]]
          /\ pendingBox' = [pendingBox EXCEPT ![i] = NoRequest]

---------------------------------------------------------------------------

Submit_AnyId(r, i) ==
  /\ request[r].stage = "new" /\ (started \/ runtime = 0)
  /\ ReusedLater \/ i \notin everUsed
  /\ outboxIds' = outboxIds \cup {i}
  /\ request' = [request EXCEPT ![r] = [id |-> i, gen |-> runtime, stage |-> "connecting"]]
  /\ pendingBox' = [pendingBox EXCEPT ![i] = r]
  /\ UNCHANGED <<runtime, started, outcome, arrived, everUsed>>

\* handleOutboxRequest, up to its first await.  An id is good for one request of a runtime;
\* without a session, or without a user interface to confirm with, that is the end.
Submit(r, i) ==
  /\ request[r].stage = "new" /\ (started \/ runtime = 0)
  /\ ReusedLater \/ i \notin everUsed
  /\ outboxIds' = outboxIds \cup {i}
  /\ \/ /\ i \in outboxIds \/ ~started \/ Confirms
        /\ request' = [request EXCEPT ![r] = [id |-> i, gen |-> runtime, stage |-> "over"]]
        /\ outcome' = [outcome EXCEPT ![r] = [is |-> "rejected", by |-> r]]
        /\ UNCHANGED pendingBox
     \/ /\ i \notin outboxIds /\ started
        /\ request' = [request EXCEPT ![r] = [id |-> i, gen |-> runtime, stage |-> "connecting"]]
        /\ pendingBox' = [pendingBox EXCEPT ![i] = r]
        /\ UNCHANGED outcome
  /\ UNCHANGED <<runtime, started, arrived, everUsed>>

\* relaySubagentIntercomPayload
Relay(r) ==
  /\ request[r].stage = "new" /\ started
  /\ request' = [request EXCEPT ![r].gen = runtime, ![r].stage = "connecting"]
  /\ UNCHANGED <<runtime, started, outboxIds, pendingBox, outcome, arrived, everUsed>>

\* The target is the session itself, or its name: the message is shown to its own agent.
RelayHere(r) ==
  /\ request[r].stage \in {"connecting", "finding"} /\ Now(r)
  /\ arrived' = arrived \cup {r} /\ Settle(r, "sent")
  /\ UNCHANGED <<runtime, started, outboxIds, everUsed>>

After == [connecting |-> "finding",
          finding |-> IF Confirms THEN "confirming" ELSE "sending",
          confirming |-> "sending"]

\* An await of the chain settles before the message is sent: with what it was for, or with a
\* reason to give up; the session is looked at again each time.
Proceed(r) ==
  /\ request[r].stage \in {"connecting", "finding", "confirming"}
  /\ \/ Settle(r, "failed")         \* not connected, no such target, ambiguous, not confirmed
     \/ /\ Now(r)
        /\ request' = [request EXCEPT ![r].stage =
                         IF r \in Relays /\ @ = "finding" THEN "sending" ELSE After[@]]
        /\ UNCHANGED <<pendingBox, outcome>>
  /\ UNCHANGED <<runtime, started, outboxIds, arrived, everUsed>>

\* The broker delivers the message, and the session is yet to hear of it.
Arrives(r) ==
  /\ request[r].stage = "sending" /\ r \notin arrived
  /\ arrived' = arrived \cup {r}
  /\ UNCHANGED <<runtime, started, outboxIds, pendingBox, request, outcome, everUsed>>

\* The send settles.
Sent(r) ==
  /\ request[r].stage = "sending"
  /\ \/ r \in arrived /\ Now(r) /\ Settle(r, "sent")
     \/ Settle(r, "failed")
  /\ UNCHANGED <<runtime, started, outboxIds, arrived, everUsed>>

\* failPendingOutboxRequests of this generation.
FailBox ==
  /\ outcome' = [r \in Chains |->
       IF \E i \in RequestIds : pendingBox[i] = r /\ request[r].gen = runtime
       THEN [is |-> "failed", by |-> Session] ELSE outcome[r]]
  /\ pendingBox' = [i \in RequestIds |->
       IF pendingBox[i] # NoRequest /\ request[pendingBox[i]].gen = runtime
       THEN NoRequest ELSE pendingBox[i]]

\* startSessionRuntime: the ids may be used again.
StartRuntime ==
  /\ runtime < MaxRuntime
  /\ FailBox
  /\ runtime' = runtime + 1 /\ started' = TRUE
  /\ outboxIds' = {} /\ everUsed' = everUsed \cup outboxIds
  /\ UNCHANGED <<request, arrived>>

\* session_shutdown
EndRuntime ==
  /\ started /\ runtime < MaxRuntime
  /\ FailBox
  /\ runtime' = runtime + 1 /\ started' = FALSE
  /\ UNCHANGED <<outboxIds, request, arrived, everUsed>>

OutboxNext ==
  \/ \E r \in Requests, i \in RequestIds : Submit(r, i)
  \/ \E r \in Relays : Relay(r) \/ RelayHere(r)
  \/ \E r \in Chains : Proceed(r) \/ Arrives(r) \/ Sent(r)
  \/ StartRuntime \/ EndRuntime

OutboxSpec == OutboxInit /\ [][OutboxNext]_outboxVars

---------------------------------------------------------------------------
(* Properties *)

\* A request whose chain is over has had a result, and it is its own: emitted by its own chain
\* or by the end of its session.  One that is said to be sent was delivered.
ResultsAreOwn ==
  \A r \in Chains :
    /\ outcome[r].is = "sent" => r \in arrived
    /\ outcome[r].by \in {r, Session, NoRequest}
    /\ r \in Requests /\ request[r].stage = "over" => outcome[r].is # "none"
=============================================================================
