----------------------------- MODULE AskWaiter ------------------------------
(***************************************************************************)
(* The blocking asks of a session (src/index.ts): the tools "ask" and      *)
(* contact_supervisor.  An ask finds its target, takes the one slot for    *)
(* the reply that is waited for, sends the question, and returns with the  *)
(* reply or a failure.  The slot is emptied by the reply, by a timer, by   *)
(* an abort of the tool, by the end of the connection or of the session,   *)
(* and by any ask that fails.                                              *)
(*                                                                         *)
(* Tools run side by side, and a tool that was aborted goes on until what  *)
(* it awaits has settled.  Each await is a step of its own.                *)
(***************************************************************************)
EXTENDS Naturals

CONSTANTS
  Asks,       \* calls of the tools; each sends a question of its own
  NoAsk,
  InOrder     \* does the answer to a send come before the replies to its message?

ASSUME AskAssumption == NoAsk \notin Asks

VARIABLES
  replyWaiter, \* the ask in the slot, or NoAsk
  ask,         \* per ask: [stage, promise, aborted, result, cause]
  sent,        \* per ask: what has become of its question
  reply        \* per ask: what has become of the reply to it

askVars == <<replyWaiter, ask, sent, reply>>

Under    == {"resolving", "sending", "waiting"}
Promises == {"none", "pending", "resolved", "rejected"}

AskRecord ==
  [stage : Under \cup {"idle", "returned"}, promise : Promises, aborted : BOOLEAN,
   result : {"none", "reply", "failed"}, cause : Asks \cup {NoAsk}]

AskTypeOK ==
  /\ replyWaiter \in Asks \cup {NoAsk}
  /\ ask \in [Asks -> AskRecord]
  /\ sent  \in [Asks -> {"no", "under way", "delivered", "lost"}]
  /\ reply \in [Asks -> {"no", "under way", "taken", "injected"}]

AskInit ==
  /\ replyWaiter = NoAsk
  /\ ask = [a \in Asks |-> [stage |-> "idle", promise |-> "none", aborted |-> FALSE,
                            result |-> "none", cause |-> NoAsk]]
  /\ sent  = [a \in Asks |-> "no"]
  /\ reply = [a \in Asks |-> "no"]

---------------------------------------------------------------------------
(* The slot *)

\* The ask returns by itself; nobody's waiter is touched.
Return(a, result) ==
  ask' = [ask EXCEPT ![a].stage = "returned", ![a].result = result]

\* rejectReplyWaiter: whoever is in the slot is rejected, by the doing of b.
Rejected(b) ==
  IF replyWaiter = NoAsk THEN ask
  ELSE [ask EXCEPT ![replyWaiter].promise = "rejected", ![replyWaiter].cause = b]

\* The catch of the tool, and the path of a message that was not delivered.  What the ask
\* itself was promised is settled by now, whoever settled it.
FailsWith(a) ==
  /\ ask' = [Rejected(a) EXCEPT ![a].stage = "returned", ![a].result = "failed"]
  /\ replyWaiter' = NoAsk

---------------------------------------------------------------------------
(* Steps of an ask *)

Start(a) ==
  /\ ask[a].stage = "idle"
  /\ IF replyWaiter # NoAsk \/ ask[a].aborted
     THEN Return(a, "failed") ELSE ask' = [ask EXCEPT ![a].stage = "resolving"]
  /\ UNCHANGED <<replyWaiter, sent, reply>>

\* The target cannot be listed, or its name is ambiguous.
ResolveThrows(a) ==
  /\ ask[a].stage = "resolving" /\ FailsWith(a) /\ UNCHANGED <<sent, reply>>

\* The target is known: the slot is looked at again, taken, and the question sent.
Resolve(a) ==
  /\ ask[a].stage = "resolving"
  /\ \/ /\ Return(a, "failed")                        \* nobody by that name, or the session itself
        /\ UNCHANGED <<replyWaiter, sent>>
     \/ /\ ask[a].aborted \/ replyWaiter # NoAsk
        /\ Return(a, "failed") /\ UNCHANGED <<replyWaiter, sent>>
     \/ /\ ~ask[a].aborted /\ replyWaiter = NoAsk
        /\ replyWaiter' = a
        /\ ask' = [ask EXCEPT ![a].stage = "sending", ![a].promise = "pending"]
        /\ sent' = [sent EXCEPT ![a] = "under way"]
  /\ UNCHANGED reply

\* The question is on its way to the target, which may answer it.
Deliver(a) ==
  /\ sent[a] = "under way"
  /\ sent' = [sent EXCEPT ![a] = "delivered"]
  /\ UNCHANGED <<replyWaiter, ask, reply>>

\* The send settles.  A delivered question has its ask wait for the promise.
SendSettles(a) ==
  /\ ask[a].stage = "sending"
  /\ \/ /\ sent[a] = "delivered"
        /\ ask' = [ask EXCEPT ![a].stage = "waiting"]
        /\ UNCHANGED <<replyWaiter, sent>>
     \/ /\ FailsWith(a)                               \* refused, lost or timed out
        /\ sent' = [sent EXCEPT ![a] = IF @ = "under way" THEN "lost" ELSE @]
  /\ UNCHANGED reply

\* The promise of the ask is settled: the reply is returned; a rejection ends in the catch.
Wake(a) ==
  /\ ask[a].stage = "waiting"
  /\ \/ ask[a].promise = "resolved" /\ Return(a, "reply") /\ UNCHANGED replyWaiter
     \/ ask[a].promise = "rejected" /\ FailsWith(a)
  /\ UNCHANGED <<sent, reply>>

---------------------------------------------------------------------------
(* What happens to the slot *)

WaiterTimeout_WhileSending(a) ==
  /\ replyWaiter = a /\ ask[a].stage = "sending"
  /\ ask' = Rejected(a) /\ replyWaiter' = NoAsk
  /\ UNCHANGED <<sent, reply>>

\* The timer of waitForReply.
WaiterTimeout(a) ==
  /\ replyWaiter = a
  /\ ask' = Rejected(a) /\ replyWaiter' = NoAsk
  /\ UNCHANGED <<sent, reply>>

Abort_KeepsSlot(a) ==
  /\ ask[a].stage \in Under \cup {"idle"} /\ ~ask[a].aborted
  /\ ask' = [ask EXCEPT ![a].aborted = TRUE,
                        ![a].promise = IF @ = "pending" THEN "rejected" ELSE @]
  /\ UNCHANGED <<replyWaiter, sent, reply>>

\* The tool's signal: before the ask, while it resolves, or while its waiter is in the slot
\* (onAbort, which also tells the broker with cancel_ask).
Abort(a) ==
  /\ ask[a].stage \in Under \cup {"idle"} /\ ~ask[a].aborted
  /\ ask' = [ask EXCEPT ![a].aborted = TRUE,
                        ![a].promise = IF @ = "pending" THEN "rejected" ELSE @,
                        ![a].cause = IF ask[a].promise = "pending" THEN a ELSE @]
  /\ replyWaiter' = IF replyWaiter = a THEN NoAsk ELSE replyWaiter
  /\ UNCHANGED <<sent, reply>>

\* "disconnected", startSessionRuntime and session_shutdown; no reply comes on the connection
\* that is over.
EndOfConnection ==
  /\ replyWaiter # NoAsk
  /\ ask' = Rejected(replyWaiter) /\ replyWaiter' = NoAsk
  /\ sent' = [a \in Asks |-> IF sent[a] = "under way" THEN "lost" ELSE sent[a]]
  /\ UNCHANGED reply

Answer(a) ==
  /\ sent[a] = "delivered" /\ reply[a] = "no"
  /\ InOrder => ask[a].stage # "sending"
  /\ reply' = [reply EXCEPT ![a] = "under way"]
  /\ UNCHANGED <<replyWaiter, ask, sent>>

ReplyArrives_ToAny(a) ==
  /\ reply[a] = "under way"
  /\ IF replyWaiter # NoAsk
     THEN /\ ask' = [ask EXCEPT ![replyWaiter].promise = "resolved"]
          /\ replyWaiter' = NoAsk
          /\ reply' = [reply EXCEPT ![a] = "taken"]
     ELSE reply' = [reply EXCEPT ![a] = "injected"] /\ UNCHANGED <<replyWaiter, ask>>
  /\ UNCHANGED sent

\* handleIncomingMessage: the reply of the target to the question waited for resolves the
\* waiter; any other is shown to the agent like a message nobody waited for.
ReplyArrives(a) ==
  /\ reply[a] = "under way"
  /\ IF replyWaiter = a
     THEN /\ ask' = [ask EXCEPT ![a].promise = "resolved"]
          /\ replyWaiter' = NoAsk
          /\ reply' = [reply EXCEPT ![a] = "taken"]
     ELSE reply' = [reply EXCEPT ![a] = "injected"] /\ UNCHANGED <<replyWaiter, ask>>
  /\ UNCHANGED sent

AskNext ==
  \/ \E a \in Asks : \/ Start(a) \/ ResolveThrows(a) \/ Resolve(a) \/ Deliver(a)
                     \/ SendSettles(a) \/ Wake(a) \/ WaiterTimeout(a) \/ Abort(a)
                     \/ Answer(a) \/ ReplyArrives(a)
  \/ EndOfConnection

\* The client settles what it is asked (BrokerClient.NobodyWaitsForever), and the waiter has a timer.
AskFairness ==
  \A a \in Asks : /\ WF_askVars(ResolveThrows(a) \/ Resolve(a)) /\ WF_askVars(SendSettles(a))
                  /\ WF_askVars(Wake(a)) /\ WF_askVars(WaiterTimeout(a))

AskSpec == AskInit /\ [][AskNext]_askVars /\ AskFairness

---------------------------------------------------------------------------
(* Properties *)

\* The slot holds the one ask whose promise is pending, and that ask has not returned: no ask
\* leaves a waiter behind that would refuse every later ask with "Already waiting for a
\* reply" (waitForReply and its cleanup, against every way an ask ends).
SlotIsLive ==
  \A a \in Asks : /\ ask[a].promise = "pending" <=> replyWaiter = a
                  /\ replyWaiter = a => ask[a].stage \in {"sending", "waiting"}

\* A reply that the waiter has taken, and that the agent therefore does not see as a message,
\* is what its own ask returns; an ask returns no other.
TakenIsReturned ==
  \A a \in Asks :
    /\ reply[a] = "taken" /\ ask[a].stage = "returned" => ask[a].result = "reply"
    /\ ask[a].result = "reply" => reply[a] = "taken"

\* Every ask returns, whatever its target, the broker and the other asks do.
EveryAskReturns ==
  \A a \in Asks : ask[a].stage \in Under ~> ask[a].stage = "returned"

\* An ask's waiter is rejected for the ask's own reasons.  index.ts:2733 says of the rejection
\* in the catch that the waiter is cleanup-only, and that the real failure is its own.
FailsForItsOwnReasons ==
  \A a \in Asks : ask[a].cause \in {a, NoAsk}
=============================================================================
