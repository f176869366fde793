---------------------------- MODULE WatchHistory ----------------------------
(***************************************************************************)
(* The pages of a watched history (src/watch.ts): a page starts at the     *)
(* newest event or where a cursor says, takes as many events as its limits *)
(* allow, and gives a cursor to go on from in either direction.  Meanwhile *)
(* the history grows, and when the session moves to another branch it      *)
(* becomes another history, for which the old cursors are stale.           *)
(*                                                                         *)
(* An event is its index, counted from 0 as in the code; Null is no event. *)
(* A reader follows the older cursors back and the newer ones forward.     *)
(***************************************************************************)
EXTENDS Integers

CONSTANTS
  MaxEvents,       \* bound: events of a branch
  MaxBranch,       \* bound: changes of the branch
  MaxPage          \* what fits in a page: its limit, or fewer events when they are long

ASSUME HistoryAssumption ==
  MaxEvents \in Nat /\ MaxBranch \in Nat /\ MaxPage \in Nat \ {0}

VARIABLES
  events,      \* how many events the branch has
  branch,      \* generation
  reader       \* [branch, older, newer, lo, hi, astray]: its cursors, the events it was shown,
               \* and whether it was shown an event twice, or missed one without being told

historyVars == <<events, branch, reader>>

Null == -1
Cursors == [snapshot : Null .. MaxEvents - 1, position : Null .. MaxEvents - 1]

HistoryTypeOK ==
  /\ events \in 0 .. MaxEvents /\ branch \in 0 .. MaxBranch
  /\ reader \in [branch : Null .. MaxBranch, older : Cursors, newer : Cursors,
                 lo : 0 .. MaxEvents, hi : Null .. MaxEvents - 1, astray : BOOLEAN]

Unread == [branch |-> Null, older |-> [snapshot |-> Null, position |-> Null],
           newer |-> [snapshot |-> Null, position |-> Null], lo |-> 0, hi |-> Null, astray |-> FALSE]

HistoryInit == events = 0 /\ branch = 0 /\ reader = Unread

---------------------------------------------------------------------------
(* page() *)

Least(x, y) == IF x < y THEN x ELSE y

First_FromSnapshot(dir, c) ==
  IF dir = "newer" THEN c.snapshot + 1
  ELSE IF c.position # Null THEN c.position - 1 ELSE c.snapshot

\* Where a page begins.  c is the cursor, with the newest event for a request without one.
First(dir, c) ==
  IF dir = "newer" THEN c.position + 1
  ELSE IF c.position # Null THEN c.position - 1 ELSE c.snapshot

\* How many events there are to show from there.
ToShow(dir, c) ==
  IF dir = "newer" THEN events - First(dir, c)
  ELSE Least(First(dir, c), c.snapshot) + 1

\* make(): a page of n events, low to high, and its cursors.  A page without events keeps the
\* position it was asked for.
Page(dir, c, n) ==
  LET start == First(dir, c)
      low   == IF dir = "newer" THEN start ELSE start - n + 1
      high  == IF dir = "newer" THEN start + n - 1 ELSE start
      event(i, else) == IF i \in 0 .. events - 1 THEN i ELSE else
      older == IF dir = "newer" THEN event(low, Null) ELSE IF n > 0 THEN low ELSE c.position
      newer == IF dir = "older" THEN event(high, c.snapshot)
               ELSE IF n > 0 THEN high
               ELSE IF c.position # Null THEN c.position ELSE c.snapshot IN
  [low |-> low, high |-> high,
   older |-> [snapshot |-> c.snapshot, position |-> older],
   newer |-> [snapshot |-> events - 1, position |-> newer],
   hasOlder |-> low > 0, hasNewer |-> high < events - 1]

\* A page has at least one event if there is one: a first event that is too long is cut.
Sizes(dir, c) ==
  LET left == ToShow(dir, c) IN IF left <= 0 THEN {0} ELSE 1 .. Least(left, MaxPage)

---------------------------------------------------------------------------

Grow ==
  /\ events < MaxEvents /\ events' = events + 1
  /\ UNCHANGED <<branch, reader>>

\* session_tree: reset() takes another generation, and the branch has other events.
ChangeBranch ==
  /\ branch < MaxBranch /\ branch' = branch + 1
  /\ events' \in 0 .. MaxEvents
  /\ UNCHANGED reader

\* A watch without a cursor, by a reader who knows nothing yet.
Newest ==
  /\ reader.branch = Null
  /\ LET c == [snapshot |-> events - 1, position |-> Null] IN
     \E n \in Sizes("older", c) :
       LET p == Page("older", c, n) IN
       reader' = [branch |-> branch, older |-> p.older, newer |-> p.newer,
                  lo |-> p.low, hi |-> p.high,
                  astray |-> p.hasNewer \/ (p.hasOlder # (p.low > 0))]
  /\ UNCHANGED <<events, branch>>

\* decode: a cursor of another generation is refused, and the reader starts again.
Stale(r) == r.branch # branch

Older ==
  /\ reader.branch # Null
  /\ IF Stale(reader) THEN reader' = Unread
     ELSE \E n \in Sizes("older", reader.older) :
       LET p == Page("older", reader.older, n) IN
       reader' = [reader EXCEPT !.older = p.older, !.lo = IF n = 0 THEN @ ELSE p.low,
         !.astray = @ \/ reader.branch # branch \/ (n > 0 /\ p.high # reader.lo - 1)
                      \/ (~p.hasOlder /\ n = 0 /\ reader.lo # 0)]
  /\ UNCHANGED <<events, branch>>

Newer ==
  /\ reader.branch # Null
  /\ IF Stale(reader) THEN reader' = Unread
     ELSE \E n \in Sizes("newer", reader.newer) :
       LET p == Page("newer", reader.newer, n) IN
       reader' = [reader EXCEPT !.newer = p.newer, !.hi = IF n = 0 THEN @ ELSE p.high,
         !.astray = @ \/ reader.branch # branch \/ (n > 0 /\ p.low # reader.hi + 1)
                      \/ (~p.hasNewer /\ (IF n = 0 THEN reader.hi ELSE p.high) # events - 1)]
  /\ UNCHANGED <<events, branch>>

HistoryNext == Grow \/ ChangeBranch \/ Newest \/ Older \/ Newer

HistorySpec == HistoryInit /\ [][HistoryNext]_historyVars

---------------------------------------------------------------------------
(* Properties *)

\* A reader that follows the cursors is shown every event of the branch once and in order, in
\* both directions, however many fit in each page and while the history grows; the end is
\* announced only at the end, and a change of the branch never goes unnoticed.
ReadersMissNothing == ~reader.astray
=============================================================================
