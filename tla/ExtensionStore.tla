--------------------------- MODULE ExtensionStore ---------------------------
(***************************************************************************)
(* The file store behind the extension state of one namespace              *)
(* (src/broker/extension-state.ts): a main file, a backup of the state     *)
(* before it, and a cache in the broker.  A commit is a series of system   *)
(* calls; any of them may fail, and the broker may die, or the power go,   *)
(* between any two.  Namespaces have files of their own and do not         *)
(* interfere.                                                              *)
(***************************************************************************)
EXTENDS Naturals

CONSTANTS
  Payloads,    \* what serializePayload accepts
  Invalid,     \* what it rejects
  None, Absent, Torn,
  SyncWorks,   \* can a directory be flushed, on this platform and every time?
  PowerCuts,   \* may the power go?
  MaxDamage,   \* bound: how often something else spoils the main file
  MaxRev       \* bound: the last revision

States  == [rev : Nat, val : Payloads]
Initial == [rev |-> 0, val |-> None]
Steps   == {"write", "copy", "rename", "sync"}
Commits == [step : Steps, base : States \cup {Initial}, new : States]

ASSUME StoreAssumption ==
  /\ None \notin Payloads /\ Invalid \notin Payloads
  /\ {None, Absent, Torn} \cap States = {} /\ None \notin Commits
  /\ None \notin {Absent, Torn}
  /\ SyncWorks \in BOOLEAN /\ PowerCuts \in BOOLEAN
  /\ MaxDamage \in Nat /\ MaxRev \in Nat

VARIABLES
  main, bak,         \* the two files, as they read now
  mainMay, bakMay,   \* what they may read after a power cut instead: not yet flushed
  cache,             \* states.get(namespace): a state, or None
  op,                \* the commit in progress, or None
  asked, answer,     \* the last call of commitState: [exp, val], and its result; or None
  damage,            \* how often the main file was spoiled
  doubt,             \* history: the states since the last acknowledged one
  acked,             \* history: the revision of the last acknowledged commit
  hurt               \* history: a copy to the backup was cut short, or the power was

files == <<main, bak, mainMay, bakMay>>
history == <<doubt, acked, hurt>>
vars  == <<files, cache, op, asked, answer, damage, history>>

Readable(x) == x \in States

\* What loadState returns when nothing is cached: the main file, else the backup.
Seen(x, y) == IF Readable(x) THEN x ELSE IF Readable(y) THEN y ELSE None
Loaded     == IF cache # None THEN cache ELSE Seen(main, bak)
Current    == IF Loaded # None THEN Loaded ELSE Initial

Told(committed, rev, val) == [committed |-> committed, rev |-> rev, val |-> val]

---------------------------------------------------------------------------

Init ==
  /\ main = Absent /\ bak = Absent /\ mainMay = {} /\ bakMay = {}
  /\ cache = None /\ op = None /\ asked = None /\ answer = None
  /\ damage = 0 /\ doubt = {} /\ acked = 0 /\ hurt = FALSE

\* loadState, for a reader.
Load ==
  /\ op = None
  /\ cache' = Loaded
  /\ asked' = None /\ answer' = None
  /\ UNCHANGED <<files, op, damage, history>>

\* commitState, up to the checks that refuse the commit.  (A revision that is no natural
\* number is refused like a payload that is invalid.)
Refuse(exp, val) ==
  /\ op = None
  /\ cache' = Loaded
  /\ asked' = [exp |-> exp, val |-> val]
  /\ \/ val = Invalid /\ answer' = Told(FALSE, Current.rev, None)
     \/ val # Invalid /\ exp # Current.rev /\ answer' = Told(FALSE, Current.rev, Current.val)
  /\ UNCHANGED <<files, op, damage, history>>

Begin_AnyRevision(exp, val) ==
  /\ op = None
  /\ val # Invalid /\ exp =< Current.rev /\ Current.rev < MaxRev
  /\ cache' = Loaded
  /\ op' = [step |-> "write", base |-> Current, new |-> [rev |-> exp + 1, val |-> val]]
  /\ asked' = [exp |-> exp, val |-> val] /\ answer' = None
  /\ UNCHANGED <<files, damage, history>>

\* commitState, past its checks.
Begin(exp, val) ==
  /\ op = None
  /\ val # Invalid /\ exp = Current.rev /\ Current.rev < MaxRev
  /\ cache' = Loaded
  /\ op' = [step |-> "write", base |-> Current, new |-> [rev |-> exp + 1, val |-> val]]
  /\ asked' = [exp |-> exp, val |-> val] /\ answer' = None
  /\ UNCHANGED <<files, damage, history>>

At(step)   == op # None /\ op.step = step
GoTo(step) == op' = [op EXCEPT !.step = step]

\* The temporary file, under a name of its own, is written and flushed.
WriteTemp ==
  /\ At("write") /\ GoTo("copy")
  /\ UNCHANGED <<files, cache, asked, answer, damage, history>>

CopyBackup_Always ==
  /\ At("copy") /\ GoTo("rename")
  /\ bak' = main /\ bakMay' = bakMay \cup {bak, Torn}
  /\ UNCHANGED <<main, mainMay, cache, asked, answer, damage, history>>

\* A main file that reads well becomes the backup.  The copy is never flushed.
CopyBackup ==
  /\ At("copy") /\ GoTo("rename")
  /\ IF Readable(main) THEN bak' = main /\ bakMay' = bakMay \cup {bak, Torn}
                       ELSE UNCHANGED <<bak, bakMay>>
  /\ UNCHANGED <<main, mainMay, cache, asked, answer, damage, history>>

\* The temporary file takes the place of the main file.
Rename ==
  /\ At("rename") /\ GoTo("sync")
  /\ main' = op.new /\ mainMay' = mainMay \cup {main}
  /\ UNCHANGED <<bak, bakMay, cache, asked, answer, damage, history>>

\* The directory is flushed, if that is possible, and the commit acknowledged.
Finish ==
  /\ At("sync")
  /\ mainMay' = IF SyncWorks THEN {} ELSE mainMay
  /\ cache' = op.new /\ op' = None
  /\ answer' = Told(TRUE, op.new.rev, None) /\ acked' = op.new.rev /\ doubt' = {}
  /\ UNCHANGED <<main, bak, bakMay, asked, damage, hurt>>

\* An interrupted copy leaves a backup that reads badly, or no trace.
Interrupted ==
  \/ UNCHANGED <<bak, bakMay, hurt>>
  \/ /\ At("copy") /\ Readable(main)
     /\ bak' = Torn /\ bakMay' = bakMay \cup {bak} /\ hurt' = TRUE

\* A system call fails before the rename: the caller is told that nothing changed.
Fail ==
  /\ op # None /\ op.step # "sync"
  /\ Interrupted
  /\ op' = None /\ answer' = Told(FALSE, op.base.rev, None)
  /\ UNCHANGED <<main, mainMay, cache, asked, damage, doubt, acked>>

---------------------------------------------------------------------------

\* A commit past its rename happens with nobody told.
Unheard == IF At("sync") THEN {op.base} ELSE {}

\* The broker dies.  The next one starts with an empty cache.
Crash ==
  /\ Interrupted
  /\ cache' = None /\ op' = None /\ asked' = None /\ answer' = None
  /\ doubt' = doubt \cup Unheard
  /\ UNCHANGED <<main, mainMay, damage, acked>>

\* The power goes: of what was not flushed, anything may be lost.
PowerCut ==
  /\ PowerCuts
  /\ main' \in {main} \cup mainMay
  /\ bak' \in {bak} \cup bakMay \cup (IF At("copy") /\ Readable(main) THEN {Torn} ELSE {})
  /\ mainMay' = {} /\ bakMay' = {}
  /\ cache' = None /\ op' = None /\ asked' = None /\ answer' = None
  /\ doubt' = doubt \cup Unheard /\ hurt' = TRUE
  /\ UNCHANGED <<damage, acked>>

\* Something else spoils the main file.
Damage ==
  /\ damage < MaxDamage
  /\ damage' = damage + 1
  /\ main' = Torn
  /\ UNCHANGED <<bak, mainMay, bakMay, cache, op, asked, answer, history>>

Next ==
  \/ Load
  \/ \E exp \in 0..MaxRev, val \in Payloads \cup {Invalid} : Refuse(exp, val) \/ Begin(exp, val)
  \/ WriteTemp \/ CopyBackup \/ Rename \/ Finish
  \/ Fail \/ Crash \/ PowerCut \/ Damage

Spec == Init /\ [][Next]_vars

---------------------------------------------------------------------------
(* Properties *)

Contents     == States \cup {Absent, Torn}
StoreCalls   == [exp : Nat, val : Payloads \cup {Invalid}]
StoreAnswers == [committed : BOOLEAN, rev : Nat, val : Payloads \cup {None}]

\* The files hold a state, or what does not read as one, and the cache a state.
TypeOK ==
  /\ main \in Contents /\ bak \in Contents
  /\ mainMay \subseteq Contents /\ bakMay \subseteq Contents
  /\ cache \in States \cup {None}
  /\ op \in Commits \cup {None}
  /\ asked \in StoreCalls \cup {None} /\ answer \in StoreAnswers \cup {None}
  /\ damage \in 0..MaxDamage
  /\ doubt \subseteq States \cup {Initial} /\ acked \in Nat /\ hurt \in BOOLEAN

\* What a reader is told: during a commit, the state it started from.
Visible == IF op # None THEN op.base ELSE Current

\* The store keeps the promise of the register: compare-and-set, truthful answers, and no
\* acknowledged commit undone, whatever call fails and whenever the broker dies or the
\* power goes; until something else spoils the main file.
Register == INSTANCE RevisionRegister WITH reg <- Visible

KeepsItsPromise ==
  /\ Register!Init
  /\ [][damage' = 0 => Register!Next \/ UNCHANGED Register!registerVars]_vars

\* The main file spoiled once costs at most the last acknowledged commit, if no copy was
\* cut short: a spoiled file is never copied over the backup, which is one state behind.
OneFaultOneLoss ==
  damage =< 1 /\ ~hurt /\ acked > 1 =>
    Seen(main, bak) # None /\ Seen(main, bak).rev + 1 >= acked

---------------------------------------------------------------------------
(* What makes the promise inductive, as long as nothing spoils the main file *)

\* What the main file may read after the next power cut.
MainAfter == {main} \cup (IF PowerCuts THEN mainMay ELSE {})

\* The cache is what the files say, except between a rename and its acknowledgement.
CacheIsFresh == ~At("sync") /\ cache # None => cache = Seen(main, bak)

\* A commit in progress adds one revision to the current state, for the call that waits;
\* past its rename, the main file has the new state.
CommitAnswersCall ==
  op # None =>
    /\ asked = [exp |-> op.base.rev, val |-> op.new.val] /\ answer = None
    /\ op.new.rev = op.base.rev + 1
    /\ IF At("sync") THEN main = op.new ELSE op.base = Current

\* The main file always reads as a state one may be told of, or is not there yet.
MainIsPlausible ==
  \A x \in MainAfter :
    \/ x = Absent
    \/ x \in States \cap (doubt \cup {Visible})
    \/ At("sync") /\ x = op.new

\* As long as the main file may turn out missing, the initial state and whatever the
\* backup may read are in doubt.
MissingIsUnacknowledged ==
  Absent \in MainAfter =>
    /\ \A y \in {bak} \cup bakMay : Readable(y) => y \in doubt \cup {Visible}
    /\ Initial \in doubt \/ (doubt = {} /\ Visible = Initial)

Inv ==
  /\ damage = 0
  /\ CacheIsFresh /\ CommitAnswersCall /\ MainIsPlausible /\ MissingIsUnacknowledged
=============================================================================
