---------------------------- MODULE ReplyTracker ----------------------------
(***************************************************************************)
(* What a session owes to others (src/reply-tracker.ts and the inbound     *)
(* half of src/index.ts): the mail that arrives is filtered for ids seen   *)
(* before, asks are recorded until they are answered, cancelled or too     *)
(* old, each mail shown to the agent is queued as the context of a turn,   *)
(* and the agent answers the ask it names, the one of the turn it is in,   *)
(* or the only one there is.  A reply is sent while all of this goes on.   *)
(***************************************************************************)
EXTENDS Naturals, Sequences, SequencesExt, FiniteSets

CONSTANTS
  Mail,        \* messages of other sessions
  Plain,       \* those of them that expect no reply
  From,        \* [Mail -> senders]
  NoMail,
  AskTimeout,  \* getAskTimeoutMs, in ticks
  Retention,   \* INBOUND_MESSAGE_DEDUPE_RETENTION_MS, in ticks
  SeenMax,     \* INBOUND_MESSAGE_DEDUPE_MAX
  MaxNow, MaxQueue    \* bounds: ticks, contexts waiting for a turn

ASSUME TrackerAssumption ==
  /\ NoMail \notin Mail /\ Plain \subseteq Mail
  /\ {AskTimeout, Retention, SeenMax, MaxNow, MaxQueue} \subseteq Nat

VARIABLES
  now,
  pendingAsks,   \* the asks recorded: [set of messages -> time]
  cancelledAsks, \* those cancelled that are still remembered
  turns,         \* pendingTurnContexts
  current,       \* currentTurnContext, or NoMail
  seen,          \* seenInboundMessages, oldest first: <<message, time>>
  replying,      \* the messages whose reply is being sent
  settled,       \* history: asks answered, cancelled or superseded, until the filter has
                 \* forgotten the id and the message comes again, as a new one
  tooLate        \* history: has a reply been begun to an ask that was settled or too old?

trackerVars == <<now, pendingAsks, cancelledAsks, turns, current, seen, replying, settled, tooLate>>

TrackerTypeOK ==
  /\ now \in 0 .. MaxNow
  /\ DOMAIN pendingAsks \subseteq Mail \ Plain /\ \A m \in DOMAIN pendingAsks : pendingAsks[m] \in 0 .. now
  /\ DOMAIN cancelledAsks \subseteq Mail \ Plain
  /\ turns \in Seq(Mail) /\ current \in Mail \cup {NoMail}
  /\ seen \in Seq(Mail \X (0 .. MaxNow)) /\ Len(seen) <= SeenMax
  /\ replying \subseteq Mail /\ settled \subseteq Mail /\ tooLate \in BOOLEAN

TrackerInit ==
  /\ now = 0 /\ pendingAsks = <<>> /\ cancelledAsks = <<>> /\ turns = <<>> /\ current = NoMail
  /\ seen = <<>> /\ replying = {} /\ settled = {} /\ tooLate = FALSE

---------------------------------------------------------------------------
(* The tables *)

Without(f, S) == [m \in DOMAIN f \ S |-> f[m]]

\* The array s without the elements that are in S.
Filtered(s, S) ==
  LET f[n \in 0 .. Len(s)] ==
        IF n = 0 THEN <<>> ELSE IF s[n] \in S THEN f[n - 1] ELSE Append(f[n - 1], s[n])
  IN  f[Len(s)]

Dismiss_AskOnly(S) ==
  /\ pendingAsks' = Without(pendingAsks, S)
  /\ UNCHANGED <<turns, current>>

\* dismissPendingAsk, for every message of S.
Dismiss(S) ==
  /\ pendingAsks' = Without(pendingAsks, S)
  /\ turns' = Filtered(turns, S)
  /\ current' = IF current \in S THEN NoMail ELSE current

TooOld(f) == {m \in DOMAIN f : now - f[m] > AskTimeout}

\* hasSeenInboundMessage: the filter when m has arrived, and whether m was in it.
Kept == Filtered(seen, {s \in Mail \X (0 .. MaxNow) : now - s[2] > Retention})
Duplicate(m) == \E i \in DOMAIN Kept : Kept[i][1] = m
Remembered(m) == \E i \in DOMAIN seen : seen[i][1] = m /\ now - seen[i][2] <= Retention
Noted(m) ==
  LET all == Append(Kept, <<m, now>>) IN
  IF Len(all) > SeenMax THEN SubSeq(all, Len(all) - SeenMax + 1, Len(all)) ELSE all

---------------------------------------------------------------------------
(* Mail *)

\* handleIncomingMessage.  An interactive session is shown the mail at once or at its next
\* step; one without a user interface that is busy answers that it cannot answer, or, when
\* that is not possible, leaves the mail at that.
Arrive(m) ==
  /\ IF Duplicate(m)
     THEN seen' = Kept /\ UNCHANGED <<pendingAsks, turns, replying>>
     ELSE /\ seen' = Noted(m)
          /\ pendingAsks' = IF m \in Plain THEN pendingAsks
                            ELSE [x \in DOMAIN pendingAsks \cup {m} |->
                                    IF x = m THEN now ELSE pendingAsks[x]]
          /\ \/ Len(turns) < MaxQueue /\ turns' = Append(turns, m) /\ UNCHANGED replying
             \/ replying' = replying \cup {m} /\ UNCHANGED turns
             \/ UNCHANGED <<turns, replying>>
  /\ settled' = IF Remembered(m) THEN settled ELSE settled \ {m}
  /\ UNCHANGED <<now, cancelledAsks, current, tooLate>>

\* handleMessageControl: the sender cancels its message, or has sent another in its place.
Control(m, action) ==
  /\ \E i \in DOMAIN seen : seen[i][1] = m
  /\ cancelledAsks' = IF action = "cancel" /\ m \in DOMAIN pendingAsks
                      THEN [x \in DOMAIN cancelledAsks \cup {m} |->
                              IF x = m THEN pendingAsks[m] ELSE cancelledAsks[x]]
                      ELSE cancelledAsks
  /\ Dismiss({m})
  /\ settled' = settled \cup ({m} \ Plain)
  /\ UNCHANGED <<now, seen, replying, tooLate>>

---------------------------------------------------------------------------
(* Turns and replies *)

\* beginTurn: asks that are too old go first, and their contexts with them.
BeginTurn ==
  LET live == Filtered(turns, TooOld(pendingAsks)) IN
  /\ pendingAsks' = Without(pendingAsks, TooOld(pendingAsks))
  /\ cancelledAsks' = Without(cancelledAsks, TooOld(cancelledAsks))
  /\ current' = IF live = <<>> THEN NoMail ELSE Head(live)
  /\ turns' = IF live = <<>> THEN live ELSE Tail(live)
  /\ UNCHANGED <<now, seen, replying, settled, tooLate>>

EndTurn ==
  /\ current # NoMail /\ current' = NoMail
  /\ UNCHANGED <<now, pendingAsks, cancelledAsks, turns, seen, replying, settled, tooLate>>

\* resolveReplyTarget and findUniquePendingAskFrom: the messages a tool's reply may be for.
\* By its id: a pending ask or the mail of the turn.  By sender: the only ask of that sender.
\* With neither: the mail of the turn, or the only ask.  A plain send to a sender answers its
\* only ask, unless an ask of that sender has been cancelled.
Targets(pending, cancelled, cur) ==
  LET of(s)  == {m \in pending : From[m] = s}
      only(S) == IF Cardinality(S) = 1 THEN S ELSE {} IN
  [id     |-> pending \cup ({cur} \ {NoMail}),
   sender |-> UNION {only(of(s)) : s \in {From[m] : m \in Mail}},
   none   |-> IF cur # NoMail THEN {cur} ELSE only(pending),
   send   |-> UNION {only(of(s)) : s \in {From[m] : m \in Mail} \ {From[m] : m \in cancelled}}]

\* The tools "reply" and "send" settle on a message and begin to send.  (Two replies to one
\* message at a time are taken for one.)
BeginReply(how) ==
  /\ Dismiss(TooOld(pendingAsks))
  /\ cancelledAsks' = Without(cancelledAsks, TooOld(cancelledAsks))
  /\ \E m \in Targets(DOMAIN pendingAsks', DOMAIN cancelledAsks', current')[how] :
       /\ replying' = replying \cup {m}
       /\ tooLate' = (tooLate \/ m \in settled \/
                        (m \in DOMAIN pendingAsks /\ now - pendingAsks[m] > AskTimeout))
  /\ UNCHANGED <<now, seen, settled>>

\* The send settles: an ask whose reply was delivered, or whose sender is gone, is over.
EndReply(m) ==
  /\ m \in replying /\ replying' = replying \ {m}
  /\ \/ Dismiss({m}) /\ settled' = settled \cup ({m} \ Plain)
     \/ UNCHANGED <<pendingAsks, turns, current, settled>>
  /\ UNCHANGED <<now, cancelledAsks, seen, tooLate>>

\* startSessionRuntime, session_shutdown: replies under way settle later.
Reset ==
  /\ pendingAsks # <<>> \/ turns # <<>> \/ current # NoMail
  /\ pendingAsks' = <<>> /\ cancelledAsks' = <<>> /\ turns' = <<>> /\ current' = NoMail
  /\ UNCHANGED <<now, seen, replying, settled, tooLate>>

Tick ==
  /\ now < MaxNow /\ now' = now + 1
  /\ UNCHANGED <<pendingAsks, cancelledAsks, turns, current, seen, replying, settled, tooLate>>

TrackerNext ==
  \/ \E m \in Mail : Arrive(m) \/ EndReply(m) \/ \E act \in {"cancel", "superseded"} : Control(m, act)
  \/ BeginTurn \/ EndTurn \/ Reset \/ Tick
  \/ \E how \in {"id", "sender", "none", "send"} : BeginReply(how)

TrackerSpec == TrackerInit /\ [][TrackerNext]_trackerVars

---------------------------------------------------------------------------
(* Properties *)

\* An ask that was answered, cancelled or superseded is nowhere to be found again, neither
\* among the asks nor as the context of a turn, although its message may arrive once more, for
\* as long as the filter has room and time for its id; and no reply is begun to an ask that is
\* over, or too old (dismissPendingAsk, hasSeenInboundMessage, beginTurn).
SettledAskIsGone ==
  /\ ~tooLate
  /\ \A m \in settled : m \notin DOMAIN pendingAsks /\ m # current /\ ~Contains(turns, m)
=============================================================================
