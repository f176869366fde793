----------------------------- MODULE MCSession ------------------------------
(* The parts of a session and of what it talks to, each on its own: the link,  *)
(* the asks it must answer, its outbox, the watches the broker routes for it,  *)
(* the history a watcher pages through, its retained evidence, and the store   *)
(* of the state its extension shares.  The parts share nothing; a behaviour is *)
(* one of the part it begins with.                                             *)
EXTENDS SessionLink, ReplyTracker, Outbox, WatchRoutes, WatchHistory, EvidenceInbox,
        ExtensionStore, TLC

CONSTANTS a1, a2, p1, x, y,   \* two asks of x, a plain message of y
          s1, s2, w1, w2,     \* two sessions, the second watched twice by the first
          own1, own2, got     \* two results of the session's own, one it receives

VARIABLE part

MCFrom    == a1 :> x @@ a2 :> x @@ p1 :> y
MCAsker   == w1 :> s1 @@ w2 :> s1
MCWatched == w1 :> s2 @@ w2 :> s2
MCSize    == own1 :> 2 @@ own2 :> 1 @@ got :> 1

PartsInit ==
  /\ part \in {"link", "tracker", "outbox", "watches", "history", "evidence", "store"}
  /\ LinkInit /\ TrackerInit /\ OutboxInit /\ WatchInit /\ HistoryInit /\ EvidenceInit /\ Init

PartsNext ==
  /\ UNCHANGED part
  /\ \/ /\ part = "link" /\ LinkNext
        /\ UNCHANGED <<trackerVars, outboxVars, watchVars, historyVars, evidenceVars, vars>>
     \/ /\ part = "tracker" /\ TrackerNext
        /\ UNCHANGED <<linkVars, outboxVars, watchVars, historyVars, evidenceVars, vars>>
     \/ /\ part = "outbox" /\ OutboxNext
        /\ UNCHANGED <<linkVars, trackerVars, watchVars, historyVars, evidenceVars, vars>>
     \/ /\ part = "watches" /\ WatchNext
        /\ UNCHANGED <<linkVars, trackerVars, outboxVars, historyVars, evidenceVars, vars>>
     \/ /\ part = "history" /\ HistoryNext
        /\ UNCHANGED <<linkVars, trackerVars, outboxVars, watchVars, evidenceVars, vars>>
     \/ /\ part = "evidence" /\ EvidenceNext
        /\ UNCHANGED <<linkVars, trackerVars, outboxVars, watchVars, historyVars, vars>>
     \/ /\ part = "store" /\ Next
        /\ UNCHANGED <<linkVars, trackerVars, outboxVars, watchVars, historyVars, evidenceVars>>

partsVars == <<part, linkVars, trackerVars, outboxVars, watchVars, historyVars, evidenceVars, vars>>

PartsSpec == PartsInit /\ [][PartsNext]_partsVars
=============================================================================
