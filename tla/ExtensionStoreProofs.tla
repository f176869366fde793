------------------------ MODULE ExtensionStoreProofs ------------------------
(* The file store of the extension state keeps the promise of the register,  *)
(* for any payloads, until something else spoils the main file, if power     *)
(* cuts come only where directories can be flushed.                          *)
EXTENDS ExtensionStore, TLAPS

\* The three ways a file or a variable can hold no state are no states, nor is the
\* initial state one that a file could hold.
LEMMA NotStates ==
  /\ None \notin States /\ Absent \notin States /\ Torn \notin States
  /\ Initial \notin States /\ None \notin Commits /\ Absent # None
BY StoreAssumption DEF States, Initial

\* Reading: what is seen is a state or nothing, and so is the current state.
LEMMA Reading ==
  ASSUME TypeOK
  PROVE  /\ Loaded \in States \cup {None}
         /\ Current \in States \cup {Initial}
         /\ Current.rev \in Nat /\ Current.val \in Payloads \cup {None}
<1>1. Loaded \in States \cup {None}
  BY NotStates DEF TypeOK, Loaded, Seen, Readable
<1>2. Current \in States \cup {Initial}
  BY <1>1 DEF Current
<1>3. Current.rev \in Nat /\ Current.val \in Payloads \cup {None}
  BY <1>2 DEF States, Initial
<1> QED BY <1>1, <1>2, <1>3

LEMMA Telling ==
  ASSUME NEW b \in BOOLEAN, NEW r \in Nat, NEW v \in Payloads \cup {None}
  PROVE  Told(b, r, v) \in StoreAnswers
BY DEF Told, StoreAnswers

\* A commit that begins is one.
LEMMA Beginning ==
  ASSUME TypeOK, NEW exp \in 0..MaxRev, NEW val \in Payloads \cup {Invalid}, Begin(exp, val)
  PROVE  /\ op' \in Commits /\ op'.step = "write" /\ op'.base = Current
         /\ op'.new = [rev |-> exp + 1, val |-> val] /\ asked' \in StoreCalls
<1>1. exp \in Nat /\ val \in Payloads
  BY StoreAssumption DEF Begin
<1>2. asked' \in StoreCalls
  BY <1>1 DEF Begin, StoreCalls
<1>3. op' = [step |-> "write", base |-> Current, new |-> [rev |-> exp + 1, val |-> val]]
  BY DEF Begin
<1>4. [rev |-> exp + 1, val |-> val] \in States
  BY <1>1 DEF States
<1>5. op' \in Commits
  BY <1>3, <1>4, Reading DEF Commits, Steps
<1> QED BY <1>2, <1>3, <1>5

LEMMA TypeInit == Init => TypeOK
<1> SUFFICES ASSUME Init PROVE TypeOK
  OBVIOUS
<1>1. damage \in 0..MaxDamage
  BY StoreAssumption DEF Init
<1>2. main \in Contents /\ bak \in Contents
  BY DEF Init, Contents
<1> QED BY <1>1, <1>2 DEF Init, TypeOK

LEMMA TypeStep == TypeOK /\ [Next]_vars => TypeOK'
<1> SUFFICES ASSUME TypeOK, [Next]_vars PROVE TypeOK'
  OBVIOUS
<1> USE DEF TypeOK, files, history
<1>1. CASE Load
  BY <1>1, Reading DEF Load
<1>2. ASSUME NEW exp \in 0..MaxRev, NEW val \in Payloads \cup {Invalid}, Refuse(exp, val)
      PROVE  TypeOK'
  <2>1. exp \in Nat
    BY StoreAssumption
  <2>2. asked' \in StoreCalls
    BY <1>2, <2>1 DEF Refuse, StoreCalls
  <2>3. answer' \in StoreAnswers
    <3>1. \/ answer' = Told(FALSE, Current.rev, None)
          \/ answer' = Told(FALSE, Current.rev, Current.val)
      BY <1>2 DEF Refuse
    <3> QED BY <3>1, Reading, Telling
  <2> QED BY <1>2, <2>2, <2>3, Reading DEF Refuse
<1>3. ASSUME NEW exp \in 0..MaxRev, NEW val \in Payloads \cup {Invalid}, Begin(exp, val)
      PROVE  TypeOK'
  BY <1>3, Beginning, Reading DEF Begin
<1>4. CASE WriteTemp
  BY <1>4 DEF WriteTemp, At, GoTo, Commits, Steps
<1>5. CASE CopyBackup
  BY <1>5 DEF CopyBackup, At, GoTo, Commits, Steps, Contents, Readable
<1>6. CASE Rename
  BY <1>6 DEF Rename, At, GoTo, Commits, Steps, Contents
<1>7. CASE Finish
  <2>1. op.new \in States /\ op.new.rev \in Nat
    BY <1>7 DEF Finish, At, Commits, States
  <2>2. answer' \in StoreAnswers
    BY <1>7, <2>1, Telling DEF Finish
  <2> QED BY <1>7, <2>1, <2>2 DEF Finish
<1>8. CASE Fail
  <2>1. op.base.rev \in Nat
    BY <1>8 DEF Fail, Commits, States, Initial
  <2>2. answer' \in StoreAnswers
    BY <1>8, <2>1, Telling DEF Fail
  <2> QED BY <1>8, <2>2 DEF Fail, Interrupted, Contents
<1>9. Unheard \subseteq States \cup {Initial}
  BY DEF Unheard, At, Commits
<1>10. CASE Crash
  BY <1>9, <1>10 DEF Crash, Interrupted, Contents
<1>11. CASE PowerCut
  BY <1>9, <1>11 DEF PowerCut, Contents
<1>12. CASE Damage
  BY <1>12, StoreAssumption DEF Damage, Contents
<1>13. CASE UNCHANGED vars
  BY <1>13 DEF vars
<1> QED BY <1>1, <1>2, <1>3, <1>4, <1>5, <1>6, <1>7, <1>8, <1>10, <1>11, <1>12, <1>13 DEF Next

\* The files, the cache and the commit in progress keep their types through every failed
\* call, death of the broker, power cut and damage.
THEOREM StoreTypeCorrect == Spec => []TypeOK
<1>1. Init => TypeOK
  BY TypeInit
<1>2. TypeOK /\ [Next]_vars => TypeOK'
  BY TypeStep
<1> QED BY <1>1, <1>2, PTL DEF Spec

---------------------------------------------------------------------------
(* The invariant *)

\* The condition of the theorems: power cuts come only where directories can be flushed.
Trusted == PowerCuts => SyncWorks

\* Before the rename, a reader is told what the files say, cached or not.
LEMMA BeforeRename ==
  ASSUME TypeOK, Inv, ~At("sync")
  PROVE  /\ Visible = Current
         /\ Loaded = Seen(main, bak)
BY DEF Inv, CommitAnswersCall, CacheIsFresh, Visible, Loaded

\* Past it, the commit in progress is told of by its old state only.
LEMMA PastRename ==
  ASSUME TypeOK, Inv, At("sync")
  PROVE  /\ Visible = op.base /\ main = op.new
         /\ op.new \in States /\ op.base \in States \cup {Initial}
BY DEF Inv, CommitAnswersCall, Visible, At, TypeOK, Commits

\* A copy to the backup, whole or cut short, hides behind a main file that reads well.
LEMMA BackupHidden ==
  ASSUME NEW x, NEW y, NEW z, Readable(x)
  PROVE  Seen(x, y) = Seen(x, z)
BY DEF Seen

LEMMA InvInit == Init => Inv
<1> SUFFICES ASSUME Init PROVE Inv
  OBVIOUS
<1>1. ~At("sync") /\ MainAfter = {Absent}
  BY DEF Init, At, MainAfter
<1>2. Visible = Initial
  BY NotStates DEF Init, Visible, Current, Loaded, Seen, Readable
<1>3. \A y \in {bak} \cup bakMay : ~Readable(y)
  BY NotStates DEF Init, Readable
<1> QED BY <1>1, <1>2, <1>3 DEF Init, Inv, CacheIsFresh, CommitAnswersCall, MainIsPlausible,
                            MissingIsUnacknowledged

\* A step that moves neither the files nor what a reader is told keeps the two parts of
\* the invariant that are about the files.
LEMMA FilesUntouched ==
  ASSUME TypeOK, Inv, UNCHANGED <<files, doubt>>, Visible' = Visible, ~At("sync")
  PROVE  MainIsPlausible' /\ MissingIsUnacknowledged'
<1>1. MainAfter' = MainAfter
  BY DEF MainAfter, files
<1>2. MainIsPlausible'
  BY <1>1 DEF Inv, MainIsPlausible
<1>3. MissingIsUnacknowledged'
  BY <1>1 DEF Inv, MissingIsUnacknowledged, files
<1> QED BY <1>2, <1>3

\* Filling the cache from the files changes nothing that can be told.
LEMMA Caching ==
  ASSUME TypeOK, Inv, ~At("sync"), cache' = Loaded, UNCHANGED files
  PROVE  Current' = Current /\ CacheIsFresh'
<1>1. Loaded = Seen(main, bak) /\ Seen(main, bak)' = Seen(main, bak)
  BY BeforeRename DEF files, Seen, Readable
<1>2. Loaded' = Loaded
  BY <1>1 DEF Loaded
<1> QED BY <1>1, <1>2 DEF Current, CacheIsFresh

LEMMA LoadKeeps == TypeOK /\ Inv /\ Load => Inv'
<1> SUFFICES ASSUME TypeOK, Inv, Load PROVE Inv'
  OBVIOUS
<1>1. ~At("sync") /\ op' = None
  BY DEF Load, At
<1>2. Visible' = Visible
  BY <1>1, Caching DEF Load, Visible
<1> QED BY <1>1, <1>2, Caching, FilesUntouched
           DEF Load, Inv, CommitAnswersCall, history

LEMMA RefuseKeeps ==
  ASSUME TypeOK, Inv, NEW exp, NEW val, Refuse(exp, val)
  PROVE  Inv'
<1>1. ~At("sync") /\ op' = None
  BY DEF Refuse, At
<1>2. Visible' = Visible
  BY <1>1, Caching DEF Refuse, Visible
<1> QED BY <1>1, <1>2, Caching, FilesUntouched
           DEF Refuse, Inv, CommitAnswersCall, history

LEMMA BeginKeeps ==
  ASSUME TypeOK, Inv, NEW exp \in 0..MaxRev, NEW val \in Payloads \cup {Invalid},
         Begin(exp, val)
  PROVE  Inv' /\ Visible' = Visible
<1>1. ~At("sync") /\ op' # None /\ ~At("sync")'
  BY Beginning, NotStates DEF Begin, At
<1>2. Visible' = Visible
  BY <1>1 DEF Begin, Visible
<1>3. Current' = Current /\ CacheIsFresh'
  BY <1>1, Caching DEF Begin
<1>4. CommitAnswersCall'
  BY <1>1, <1>3 DEF Begin, CommitAnswersCall
<1> QED BY <1>1, <1>2, <1>3, <1>4, FilesUntouched DEF Begin, Inv, history

\* The commit in progress goes from one step to the next and is otherwise the same.
LEMMA Advancing ==
  ASSUME TypeOK, NEW step \in Steps, NEW next \in Steps, At(step), GoTo(next)
  PROVE  /\ op # None /\ op' # None
         /\ op'.base = op.base /\ op'.new = op.new
         /\ \A s \in Steps : At(s)' <=> s = next
         /\ \A s \in Steps : At(s) <=> s = step
         /\ Visible = op.base /\ Visible' = Visible
<1>1. op \in Commits /\ op.step = step /\ op' = [op EXCEPT !.step = next]
  BY DEF At, GoTo, TypeOK
<1>2. op' # None /\ op'.base = op.base /\ op'.new = op.new /\ op'.step = next
  BY <1>1, NotStates DEF Commits
<1> QED BY <1>1, <1>2, NotStates DEF At, Visible

LEMMA WriteTempKeeps == TypeOK /\ Inv /\ WriteTemp => Inv' /\ Visible' = Visible
<1> SUFFICES ASSUME TypeOK, Inv, WriteTemp PROVE Inv' /\ Visible' = Visible
  OBVIOUS
<1>1. At("write") /\ GoTo("copy") /\ {"write", "copy", "sync"} \subseteq Steps
  BY DEF WriteTemp, Steps
<1>2. /\ op # None /\ op' # None /\ op'.base = op.base /\ op'.new = op.new
      /\ ~At("sync") /\ ~At("sync")' /\ Visible' = Visible
  BY <1>1, Advancing
<1>3. Seen(main, bak)' = Seen(main, bak) /\ Current' = Current
  BY DEF WriteTemp, files, Current, Loaded, Seen, Readable
<1>4. CacheIsFresh'
  BY <1>2, <1>3 DEF WriteTemp, CacheIsFresh, Inv
<1>5. CommitAnswersCall'
  BY <1>2, <1>3 DEF WriteTemp, CommitAnswersCall, Inv
<1> QED BY <1>2, <1>4, <1>5, FilesUntouched DEF WriteTemp, Inv, history

LEMMA CopyBackupKeeps == TypeOK /\ Inv /\ CopyBackup => Inv' /\ Visible' = Visible
<1> SUFFICES ASSUME TypeOK, Inv, CopyBackup PROVE Inv' /\ Visible' = Visible
  OBVIOUS
<1>1. At("copy") /\ GoTo("rename") /\ {"copy", "rename", "sync"} \subseteq Steps
  BY DEF CopyBackup, Steps
<1>2. /\ op # None /\ op' # None /\ op'.base = op.base /\ op'.new = op.new
      /\ ~At("sync") /\ ~At("sync")' /\ Visible' = Visible
  BY <1>1, Advancing
<1>3. Seen(main, bak)' = Seen(main, bak) /\ cache' = cache
  BY BackupHidden DEF CopyBackup, Seen, Readable
<1>4. CacheIsFresh'
  BY <1>2, <1>3 DEF CacheIsFresh, Inv
<1>5. Current' = Current
  BY <1>3 DEF Current, Loaded
<1>6. CommitAnswersCall'
  BY <1>2, <1>5 DEF CopyBackup, CommitAnswersCall, Inv
<1>7. MainAfter' = MainAfter /\ doubt' = doubt
  BY DEF CopyBackup, MainAfter, history
<1>8. MainIsPlausible'
  BY <1>2, <1>7 DEF MainIsPlausible, Inv
<1>9. main \in MainAfter /\ (Readable(main) => main \in doubt \cup {Visible})
  BY <1>2, NotStates DEF MainAfter, MainIsPlausible, Inv, Readable, TypeOK, Contents
<1>10. MissingIsUnacknowledged'
  BY <1>2, <1>7, <1>9, NotStates DEF CopyBackup, MissingIsUnacknowledged, Inv, Readable
<1> QED BY <1>2, <1>4, <1>6, <1>8, <1>10 DEF CopyBackup, Inv

LEMMA RenameKeeps == TypeOK /\ Inv /\ Rename => Inv' /\ Visible' = Visible
<1> SUFFICES ASSUME TypeOK, Inv, Rename PROVE Inv' /\ Visible' = Visible
  OBVIOUS
<1>1. At("rename") /\ GoTo("sync") /\ {"rename", "sync"} \subseteq Steps
  BY DEF Rename, Steps
<1>2. /\ op # None /\ op' # None /\ op'.base = op.base /\ op'.new = op.new
      /\ ~At("sync") /\ At("sync")' /\ Visible' = Visible
  BY <1>1, Advancing
<1>3. CacheIsFresh'
  BY <1>2 DEF CacheIsFresh
<1>4. main' = op.new /\ CommitAnswersCall'
  BY <1>2 DEF Rename, CommitAnswersCall, Inv
<1>5. MainAfter' \subseteq {op'.new} \cup MainAfter /\ doubt' = doubt
  BY <1>2 DEF Rename, MainAfter, history
<1>6. MainIsPlausible'
  BY <1>2, <1>5 DEF MainIsPlausible, Inv
<1>7. op.new # Absent
  BY <1>2, NotStates DEF TypeOK, Commits
<1>8. MissingIsUnacknowledged'
  BY <1>2, <1>5, <1>7 DEF Rename, MissingIsUnacknowledged, Inv, Readable
<1> QED BY <1>2, <1>3, <1>4, <1>6, <1>8 DEF Rename, Inv

LEMMA FinishKeeps ==
  ASSUME TypeOK, Inv, Finish, Trusted
  PROVE  Inv' /\ Visible' = op.new
<1>1. At("sync") /\ op' = None /\ ~At("sync")'
  BY DEF Finish, At
<1>2. main' = op.new /\ op.new \in States /\ op.new # Absent /\ op.new # None
  BY <1>1, PastRename, NotStates DEF Finish
<1>3. Visible' = op.new
  BY <1>1, <1>2 DEF Finish, Visible, Current, Loaded
<1>4. MainAfter' = {op.new}
  BY <1>2 DEF Finish, MainAfter, Trusted
<1>5. CacheIsFresh'
  BY <1>2 DEF Finish, CacheIsFresh, Seen, Readable
<1>6. CommitAnswersCall'
  BY <1>1 DEF CommitAnswersCall
<1> QED BY <1>2, <1>3, <1>4, <1>5, <1>6
           DEF Finish, Inv, MainIsPlausible, MissingIsUnacknowledged

\* A copy cut short leaves the reader nothing new.
LEMMA Interruption ==
  ASSUME Interrupted, main' = main
  PROVE  /\ Seen(main, bak)' = Seen(main, bak)
         /\ {bak'} \cup bakMay' \subseteq {bak, Torn} \cup bakMay
BY DEF Interrupted, Seen, Readable

LEMMA FailKeeps == TypeOK /\ Inv /\ Fail => Inv' /\ Visible' = Visible
<1> SUFFICES ASSUME TypeOK, Inv, Fail PROVE Inv' /\ Visible' = Visible
  OBVIOUS
<1>1. ~At("sync") /\ op' = None /\ ~At("sync")'
  BY DEF Fail, At
<1>2. Seen(main, bak)' = Seen(main, bak) /\ cache' = cache
  BY Interruption DEF Fail
<1>3. Visible' = Visible
  BY <1>1, <1>2, BeforeRename DEF Visible, Current, Loaded
<1>4. CacheIsFresh'
  BY <1>1, <1>2 DEF CacheIsFresh, Inv
<1>5. CommitAnswersCall'
  BY <1>1 DEF CommitAnswersCall
<1>6. MainAfter' = MainAfter /\ doubt' = doubt
  BY DEF Fail, MainAfter
<1>7. MainIsPlausible'
  BY <1>1, <1>3, <1>6 DEF MainIsPlausible, Inv
<1>8. {bak'} \cup bakMay' \subseteq {bak, Torn} \cup bakMay
  BY Interruption DEF Fail
<1>9. MissingIsUnacknowledged'
  BY <1>3, <1>6, <1>8, NotStates DEF MissingIsUnacknowledged, Inv, Readable
<1> QED BY <1>3, <1>4, <1>5, <1>7, <1>9 DEF Fail, Inv

\* The commit that the death of the broker cuts short past its rename has happened.
LEMMA CrashKeeps ==
  ASSUME TypeOK, Inv, Crash
  PROVE  /\ Inv'
         /\ ~At("sync") => Visible' = Visible /\ doubt' = doubt
         /\ At("sync") => Visible' = op.new /\ doubt' = doubt \cup {Visible}
<1>1. op' = None /\ cache' = None /\ ~At("sync")'
  BY DEF Crash, At
<1>2. Seen(main, bak)' = Seen(main, bak)
  BY Interruption DEF Crash
<1>3. CacheIsFresh' /\ CommitAnswersCall'
  BY <1>1 DEF CacheIsFresh, CommitAnswersCall
<1>4. MainAfter' = MainAfter
  BY DEF Crash, MainAfter
<1>5. {bak'} \cup bakMay' \subseteq {bak, Torn} \cup bakMay
  BY Interruption DEF Crash
<1>6. Loaded' = Seen(main, bak)
  BY <1>1, <1>2 DEF Loaded
<1>7. CASE ~At("sync")
  <2>1. Visible' = Visible /\ doubt' = doubt
    BY <1>1, <1>6, <1>7, BeforeRename DEF Visible, Current, Crash, Unheard
  <2>2. MainIsPlausible'
    BY <1>1, <1>4, <1>7, <2>1 DEF MainIsPlausible, Inv
  <2>3. MissingIsUnacknowledged'
    BY <1>4, <1>5, <2>1, NotStates DEF MissingIsUnacknowledged, Inv, Readable
  <2> QED BY <1>3, <1>7, <2>1, <2>2, <2>3 DEF Crash, Inv
<1>8. CASE At("sync")
  <2>1. Visible = op.base /\ main = op.new /\ op.new \in States
    BY <1>8, PastRename
  <2>2. Visible' = op.new
    BY <1>1, <1>6, <2>1, NotStates DEF Visible, Current, Seen, Readable
  <2>3. doubt' = doubt \cup {Visible}
    BY <1>8, <2>1 DEF Crash, Unheard
  <2>4. MainIsPlausible'
    BY <1>4, <2>1, <2>2, <2>3 DEF MainIsPlausible, Inv
  <2>5. MissingIsUnacknowledged'
    BY <1>4, <1>5, <2>3, NotStates DEF MissingIsUnacknowledged, Inv, Readable
  <2> QED BY <1>3, <1>8, <2>2, <2>3, <2>4, <2>5 DEF Crash, Inv
<1> QED BY <1>7, <1>8

\* What the next broker reads after a power cut is the new state of the commit it cut
\* short, or a state in doubt, or what was told before.
LEMMA PowerCutKeeps ==
  ASSUME TypeOK, Inv, PowerCut
  PROVE  /\ Inv'
         /\ doubt' = doubt \cup (IF At("sync") THEN {Visible} ELSE {})
         /\ \/ At("sync") /\ Visible' = op.new
            \/ Visible' \in doubt \cup {Visible}
<1>1. op' = None /\ cache' = None /\ ~At("sync")' /\ PowerCuts
  BY DEF PowerCut, At
<1>2. main' \in MainAfter /\ MainAfter' = {main'}
  BY DEF PowerCut, MainAfter
<1>3. bak' \in {bak, Torn} \cup bakMay /\ bakMay' = {}
  BY DEF PowerCut
<1>4. doubt' = doubt \cup (IF At("sync") THEN {Visible} ELSE {})
  BY PastRename DEF PowerCut, Unheard
<1>5. Visible' = IF main' \in States THEN main'
                 ELSE IF bak' \in States THEN bak' ELSE Initial
  BY <1>1, NotStates DEF Visible, Current, Loaded, Seen, Readable
<1>6. CacheIsFresh' /\ CommitAnswersCall'
  BY <1>1 DEF CacheIsFresh, CommitAnswersCall
<1>7. CASE main' = Absent
  <2>1. Absent \in MainAfter
    BY <1>2, <1>7
  <2>2. bak' \in States => bak' \in doubt \cup {Visible}
    BY <1>3, <2>1, NotStates DEF MissingIsUnacknowledged, Inv, Readable
  <2>3. Initial \in doubt \/ (doubt = {} /\ Visible = Initial)
    BY <2>1 DEF MissingIsUnacknowledged, Inv
  <2>4. Visible' \in doubt \cup {Visible}
    BY <1>5, <1>7, <2>2, <2>3, NotStates
  <2>5. Initial \in doubt' \/ (doubt' = {} /\ Visible' = Initial)
    BY <1>4, <2>3, <2>4
  <2>6. MissingIsUnacknowledged'
    BY <1>3, <1>5, <1>7, <2>5, NotStates DEF MissingIsUnacknowledged, Readable
  <2>7. MainIsPlausible'
    BY <1>2, <1>7 DEF MainIsPlausible
  <2> QED BY <1>4, <1>6, <2>4, <2>6, <2>7 DEF PowerCut, Inv
<1>8. CASE main' # Absent
  <2>1. main' \in States /\ (main' \in doubt \cup {Visible} \/ (At("sync") /\ main' = op.new))
    BY <1>2, <1>8, PastRename DEF MainIsPlausible, Inv
  <2>2. Visible' = main'
    BY <1>5, <2>1
  <2>3. MainIsPlausible' /\ MissingIsUnacknowledged'
    BY <1>2, <1>8, <2>1, <2>2 DEF MainIsPlausible, MissingIsUnacknowledged
  <2> QED BY <1>4, <1>6, <2>1, <2>2, <2>3 DEF PowerCut, Inv
<1> QED BY <1>7, <1>8

\* A main file that nothing has spoiled after a step was not spoiled before it, nor by it.
LEMMA Unspoilt == TypeOK /\ [Next]_vars /\ damage' = 0 => damage = 0 /\ ~Damage
<1> SUFFICES ASSUME TypeOK, [Next]_vars, damage' = 0 PROVE damage = 0 /\ ~Damage
  OBVIOUS
<1>1. damage \in Nat /\ ~Damage
  BY StoreAssumption DEF TypeOK, Damage
<1>2. damage' = damage
  BY <1>1 DEF Next, Load, Refuse, Begin, WriteTemp, CopyBackup, Rename, Finish, Fail, Crash,
              PowerCut, vars
<1> QED BY <1>1, <1>2

LEMMA InvStep == TypeOK /\ Inv /\ Trusted /\ damage' = 0 /\ [Next]_vars => Inv'
<1> SUFFICES ASSUME TypeOK, Inv, Trusted, damage' = 0, [Next]_vars PROVE Inv'
  OBVIOUS
<1>1. CASE Load
  BY <1>1, LoadKeeps
<1>2. ASSUME NEW exp \in 0..MaxRev, NEW val \in Payloads \cup {Invalid}, Refuse(exp, val)
      PROVE  Inv'
  BY <1>2, RefuseKeeps
<1>3. ASSUME NEW exp \in 0..MaxRev, NEW val \in Payloads \cup {Invalid}, Begin(exp, val)
      PROVE  Inv'
  BY <1>3, BeginKeeps
<1>4. CASE WriteTemp
  BY <1>4, WriteTempKeeps
<1>5. CASE CopyBackup
  BY <1>5, CopyBackupKeeps
<1>6. CASE Rename
  BY <1>6, RenameKeeps
<1>7. CASE Finish
  BY <1>7, FinishKeeps
<1>8. CASE Fail
  BY <1>8, FailKeeps
<1>9. CASE Crash
  BY <1>9, CrashKeeps
<1>10. CASE PowerCut
  BY <1>10, PowerCutKeeps
<1>11. CASE Damage
  BY <1>11, Unspoilt
<1>12. CASE UNCHANGED vars
  BY <1>12 DEF vars, files, history, Inv, CacheIsFresh, CommitAnswersCall, MainIsPlausible,
              MissingIsUnacknowledged, MainAfter, Visible, Current, Loaded, Seen, Readable, At
<1> QED BY <1>1, <1>2, <1>3, <1>4, <1>5, <1>6, <1>7, <1>8, <1>9, <1>10, <1>11, <1>12 DEF Next

---------------------------------------------------------------------------
(* Every step is a step of the register, or none *)

LEMMA RegisterInit == Init => Register!Init
<1> SUFFICES ASSUME Init PROVE Register!Init
  OBVIOUS
<1>1. Visible = Initial
  BY NotStates DEF Init, Visible, Current, Loaded, Seen, Readable
<1> QED BY <1>1 DEF Init, Register!Init, Register!Initial, Initial

\* Past its rename, the commit in progress is what the call asked for.
LEMMA CommitApplies ==
  ASSUME TypeOK, Inv, At("sync"), Visible' = op.new
  PROVE  Register!Applies
<1>1. op \in Commits /\ op # None /\ Visible = op.base
  BY PastRename DEF At, TypeOK
<1>2. /\ asked = [exp |-> op.base.rev, val |-> op.new.val] /\ answer = None
      /\ op.new.rev = op.base.rev + 1
  BY <1>1 DEF Inv, CommitAnswersCall
<1>3. /\ op.base.rev \in Nat /\ op.new.val \in Payloads
      /\ op.new = [rev |-> op.new.rev, val |-> op.new.val]
  BY <1>1 DEF Commits, States, Initial
<1>4. asked \in Register!Calls
  BY <1>2, <1>3 DEF Register!Calls
<1> QED BY <1>1, <1>2, <1>3, <1>4 DEF Register!Applies

LEMMA RegisterStep ==
  TypeOK /\ TypeOK' /\ Inv /\ Trusted /\ damage' = 0 /\ [Next]_vars
    => [Register!Next]_<<Visible, doubt, asked, answer>>
<1> SUFFICES ASSUME TypeOK, TypeOK', Inv, Trusted, damage' = 0, [Next]_vars
             PROVE  [Register!Next]_<<Visible, doubt, asked, answer>>
  OBVIOUS
<1> USE DEF history
<1>1. CASE Load
  <2>1. ~At("sync")
    BY <1>1 DEF Load, At
  <2>2. Visible' = Visible
    BY <1>1, <2>1, Caching DEF Load, Visible
  <2> QED BY <1>1, <2>2 DEF Load, Register!Next, Register!Quiet, Register!Stays
<1>2. ASSUME NEW exp \in 0..MaxRev, NEW val \in Payloads \cup {Invalid}, Refuse(exp, val)
      PROVE  [Register!Next]_<<Visible, doubt, asked, answer>>
  <2>1. ~At("sync") /\ op = None /\ op' = None
    BY <1>2 DEF Refuse, At
  <2>2. Visible = Current /\ Visible' = Visible
    BY <1>2, <2>1, Caching DEF Refuse, Visible
  <2>3. exp \in Nat /\ asked' = [exp |-> exp, val |-> val] /\ asked' \in Register!Calls
    BY <1>2, StoreAssumption DEF Refuse, Register!Calls
  <2>4. doubt' = doubt
    BY <1>2 DEF Refuse
  <2>5. CASE answer' = Told(FALSE, Current.rev, None)
    BY <2>2, <2>3, <2>4, <2>5 DEF Told, Register!Next, Register!Fail, Register!Told, Register!Stays
  <2>6. CASE exp # Current.rev /\ answer' = Told(FALSE, Current.rev, Current.val)
    BY <2>2, <2>3, <2>4, <2>6 DEF Told, Register!Next, Register!Refuse, Register!Told, Register!Stays
  <2> QED BY <1>2, <2>5, <2>6 DEF Refuse
<1>3. ASSUME NEW exp \in 0..MaxRev, NEW val \in Payloads \cup {Invalid}, Begin(exp, val)
      PROVE  [Register!Next]_<<Visible, doubt, asked, answer>>
  <2>1. Visible' = Visible /\ asked' \in Register!Calls
    BY <1>3, BeginKeeps, Beginning DEF StoreCalls, Register!Calls
  <2> QED BY <1>3, <2>1 DEF Begin, Register!Next, Register!Ask, Register!Stays
<1>4. CASE WriteTemp
  BY <1>4, WriteTempKeeps DEF WriteTemp
<1>5. CASE CopyBackup
  BY <1>5, CopyBackupKeeps DEF CopyBackup
<1>6. CASE Rename
  BY <1>6, RenameKeeps DEF Rename
<1>7. CASE Finish
  <2>1. At("sync") /\ op.new.rev = Visible.rev + 1
    BY <1>7, PastRename DEF Finish, At, Inv, CommitAnswersCall
  <2>2. Register!Applies
    BY <1>7, <2>1, FinishKeeps, CommitApplies
  <2> QED BY <1>7, <2>1, <2>2 DEF Finish, Told, Register!Next, Register!Commit, Register!Told
<1>8. CASE Fail
  <2>1. ~At("sync") /\ op # None /\ Visible' = Visible /\ Visible = op.base
    BY <1>8, FailKeeps DEF Fail, At, Visible
  <2>2. asked' \in Register!Calls
    <3>1. asked = [exp |-> op.base.rev, val |-> op.new.val] /\ asked' = asked
      BY <1>8, <2>1 DEF Fail, Inv, CommitAnswersCall
    <3>2. op.base.rev \in Nat /\ op.new.val \in Payloads
      BY <2>1 DEF TypeOK, Commits, States, Initial
    <3> QED BY <3>1, <3>2 DEF Register!Calls
  <2> QED BY <1>8, <2>1, <2>2 DEF Fail, Told, Register!Next, Register!Fail, Register!Told,
                                 Register!Stays
<1>9. CASE Crash
  <2>1. CASE ~At("sync")
    BY <1>9, <2>1, CrashKeeps DEF Crash, Register!Next, Register!Quiet, Register!Stays
  <2>2. CASE At("sync")
    <3>1. Visible' = op.new /\ doubt' = doubt \cup {Visible}
      BY <1>9, <2>2, CrashKeeps
    <3>2. Register!Applies
      BY <2>2, <3>1, CommitApplies
    <3> QED BY <1>9, <3>1, <3>2 DEF Crash, Register!Next, Register!CommitUnheard
  <2> QED BY <2>1, <2>2
<1>10. CASE PowerCut
  <2>1. CASE At("sync") /\ Visible' = op.new
    <3>1. doubt' = doubt \cup {Visible}
      BY <1>10, <2>1, PowerCutKeeps
    <3>2. Register!Applies
      BY <2>1, CommitApplies
    <3> QED BY <1>10, <3>1, <3>2 DEF PowerCut, Register!Next, Register!CommitUnheard
  <2>2. CASE Visible' \in doubt \cup {Visible}
    <3>1. doubt' \in {doubt, doubt \cup {Visible}}
      BY <1>10, PowerCutKeeps
    <3> QED BY <1>10, <2>2, <3>1 DEF PowerCut, Register!Next, Register!Revert
  <2> QED BY <1>10, <2>1, <2>2, PowerCutKeeps
<1>11. CASE Damage
  BY <1>11, Unspoilt
<1>12. CASE UNCHANGED vars
  BY <1>12 DEF vars, files, Visible, Current, Loaded, Seen, Readable
<1> QED BY <1>1, <1>2, <1>3, <1>4, <1>5, <1>6, <1>7, <1>8, <1>9, <1>10, <1>11, <1>12 DEF Next

\* As long as nothing spoils the main file, whichever system call fails and whenever the
\* broker dies or the power goes: a commit takes effect only on the revision it quotes, every
\* answer is true, and no acknowledged commit is undone.
THEOREM StoreKeepsItsPromise == Trusted => (Spec => KeepsItsPromise)
<1> SUFFICES ASSUME Trusted PROVE Spec => KeepsItsPromise
  OBVIOUS
<1> DEFINE J == damage = 0 => Inv
<1>1. Init => TypeOK /\ J /\ Register!Init
  BY TypeInit, InvInit, RegisterInit
<1>2. TypeOK /\ J /\ [Next]_vars => TypeOK' /\ J'
  <2> SUFFICES ASSUME TypeOK, J, [Next]_vars, damage' = 0 PROVE Inv'
    BY TypeStep
  <2>1. Inv
    BY Unspoilt
  <2> QED BY <2>1, InvStep
<1>3. TypeOK /\ TypeOK' /\ J /\ [Next]_vars
        => [damage' = 0 => Register!Next \/ UNCHANGED Register!registerVars]_vars
  <2> SUFFICES ASSUME TypeOK, TypeOK', J, [Next]_vars, damage' = 0
               PROVE  Register!Next \/ UNCHANGED Register!registerVars
    OBVIOUS
  <2>1. Inv
    BY Unspoilt
  <2> QED BY <2>1, RegisterStep DEF Register!registerVars
<1> QED BY <1>1, <1>2, <1>3, PTL DEF Spec, KeepsItsPromise

\* A store whose main file nothing spoils implements the register.
THEOREM StoreImplementsRegister == Trusted /\ MaxDamage = 0 => (Spec => Register!Spec)
<1> SUFFICES ASSUME Trusted, MaxDamage = 0 PROVE Spec => Register!Spec
  OBVIOUS
<1>1. Init => TypeOK /\ Inv /\ Register!Init
  BY TypeInit, InvInit, RegisterInit
<1>2. TypeOK' => damage' = 0
  BY DEF TypeOK
<1>3. TypeOK /\ Inv /\ [Next]_vars => TypeOK' /\ Inv'
  BY <1>2, TypeStep, InvStep
<1>4. TypeOK /\ TypeOK' /\ Inv /\ [Next]_vars => [Register!Next]_Register!registerVars
  BY <1>2, RegisterStep DEF Register!registerVars
<1> QED BY <1>1, <1>3, <1>4, PTL DEF Spec, Register!Spec

---------------------------------------------------------------------------
(* One fault costs one commit *)

\* A file, or the cache, with x in it has lost at most the last of n commits.
Keeps(x, n) == n > 1 => x \in States /\ x.rev + 1 >= n

\* As long as nothing spoiled the main file, it holds all that was acknowledged; the cache
\* and the commit in progress are of it; and the backup is the state the commit started from.
FilesAgree ==
  damage = 0 =>
    /\ main = Absent => bak = Absent /\ acked = 0
    /\ main # Absent => Readable(main) /\ main.rev >= acked
    /\ cache # None /\ ~At("sync") => cache = main
    /\ op # None /\ ~At("sync") => op.base = IF Readable(main) THEN main ELSE Initial
    /\ At("rename") /\ op.base # Initial => bak = op.base
    /\ At("sync") => main = op.new

\* The backup has lost at most one commit, counting one that waits for its acknowledgement.
BackupIsNear ==
  damage = 0 => Keeps(bak, acked) /\ (At("sync") => Keeps(bak, op.new.rev))

\* What can be read has lost at most one commit, spoiled main file or not; so has the cache,
\* and the commit in progress starts from such a state.
OneCommitBehind ==
  /\ Keeps(Seen(main, bak), acked)
  /\ At("sync") => Keeps(Seen(main, bak), op.new.rev)
  /\ cache # None => Keeps(cache, acked)
  /\ op # None => op.new.rev = op.base.rev + 1 /\ (acked > 1 => op.base.rev + 1 >= acked)

LossInv == damage =< 1 /\ ~hurt => FilesAgree /\ BackupIsNear /\ OneCommitBehind

\* The hypotheses of the lemmas below: the invariant, where it says something.
AtMostOneFault ==
  TypeOK /\ damage =< 1 /\ ~hurt /\ FilesAgree /\ BackupIsNear /\ OneCommitBehind

LEMMA LossInit == Init => LossInv
BY NotStates DEF Init, LossInv, FilesAgree, BackupIsNear, OneCommitBehind, Keeps, At

\* With the main file unspoilt, what is seen is the main file.
LEMMA SeenUnspoilt ==
  ASSUME AtMostOneFault, damage = 0
  PROVE  Seen(main, bak) = IF Readable(main) THEN main ELSE None
BY NotStates DEF AtMostOneFault, FilesAgree, Seen, Readable

\* What a reader, or a commit, is given has lost at most one commit.
LEMMA LoadedIsNear ==
  ASSUME AtMostOneFault, ~At("sync")
  PROVE  /\ Keeps(Loaded, acked)
         /\ acked > 1 => Current.rev + 1 >= acked
         /\ damage = 0 /\ Loaded # None => Loaded = main
         /\ damage = 0 => Current = IF Readable(main) THEN main ELSE Initial
<1>1. Keeps(Loaded, acked)
  BY DEF AtMostOneFault, OneCommitBehind, Loaded
<1>2. acked > 1 => Current.rev + 1 >= acked
  BY <1>1, NotStates DEF Current, Keeps
<1>3. ASSUME damage = 0, Loaded # None PROVE Loaded = main
  BY <1>3, SeenUnspoilt DEF AtMostOneFault, FilesAgree, Loaded
<1>4. ASSUME damage = 0 PROVE Current = IF Readable(main) THEN main ELSE Initial
  <2>1. CASE Loaded = None
    BY <1>4, <2>1, SeenUnspoilt, NotStates DEF Loaded, Current, Readable
  <2>2. CASE Loaded # None
    <3>1. Loaded = main /\ main \in States
      BY <1>3, <1>4, <2>2, Reading DEF AtMostOneFault
    <3> QED BY <2>2, <3>1 DEF Current, Readable
  <2> QED BY <2>1, <2>2
<1> QED BY <1>1, <1>2, <1>3, <1>4

\* Filling the cache, with no commit in progress.
LEMMA LossLoading ==
  ASSUME AtMostOneFault, op = None, op' = None, cache' = Loaded,
         UNCHANGED <<files, damage, history>>
  PROVE  FilesAgree' /\ BackupIsNear' /\ OneCommitBehind'
<1>1. ~At("sync") /\ ~At("sync")' /\ ~At("rename")'
  BY DEF At
<1>2. FilesAgree'
  BY <1>1, LoadedIsNear DEF AtMostOneFault, FilesAgree, files, history, Readable
<1>3. BackupIsNear'
  BY <1>1 DEF AtMostOneFault, BackupIsNear, Keeps, files, history
<1>4. OneCommitBehind'
  BY <1>1, LoadedIsNear
     DEF AtMostOneFault, OneCommitBehind, Keeps, Seen, Readable, files, history
<1> QED BY <1>2, <1>3, <1>4

LEMMA LossBegin ==
  ASSUME AtMostOneFault, NEW exp \in 0..MaxRev, NEW val \in Payloads \cup {Invalid}, Begin(exp, val)
  PROVE  FilesAgree' /\ BackupIsNear' /\ OneCommitBehind'
<1>1. ~At("sync") /\ op' # None /\ ~At("sync")' /\ ~At("rename")' /\ ~At("copy")'
  BY Beginning, NotStates DEF AtMostOneFault, Begin, At
<1>2. /\ op'.base = Current /\ op'.new.rev = Current.rev + 1
      /\ cache' = Loaded /\ UNCHANGED <<files, damage, history>>
  BY Beginning DEF AtMostOneFault, Begin
<1>3. FilesAgree'
  BY <1>1, <1>2, LoadedIsNear DEF AtMostOneFault, FilesAgree, files, history, Readable
<1>4. BackupIsNear'
  BY <1>1, <1>2 DEF AtMostOneFault, BackupIsNear, Keeps, files, history
<1>5. OneCommitBehind'
  BY <1>1, <1>2, LoadedIsNear
     DEF AtMostOneFault, OneCommitBehind, Keeps, Seen, Readable, files, history
<1> QED BY <1>3, <1>4, <1>5

LEMMA LossWriteTemp ==
  AtMostOneFault /\ WriteTemp => FilesAgree' /\ BackupIsNear' /\ OneCommitBehind'
<1> SUFFICES ASSUME AtMostOneFault, WriteTemp
             PROVE  FilesAgree' /\ BackupIsNear' /\ OneCommitBehind'
  OBVIOUS
<1>1. /\ op # None /\ op' # None /\ op'.base = op.base /\ op'.new = op.new
      /\ ~At("sync") /\ ~At("sync")' /\ ~At("rename")'
  BY Advancing DEF AtMostOneFault, WriteTemp, Steps
<1>2. UNCHANGED <<files, cache, damage, history>>
  BY DEF WriteTemp
<1>3. FilesAgree'
  BY <1>1, <1>2 DEF AtMostOneFault, FilesAgree, files, history, Readable
<1>4. BackupIsNear'
  BY <1>1, <1>2 DEF AtMostOneFault, BackupIsNear, Keeps, files, history
<1>5. OneCommitBehind'
  BY <1>1, <1>2 DEF AtMostOneFault, OneCommitBehind, Keeps, Seen, Readable, files, history
<1> QED BY <1>3, <1>4, <1>5

LEMMA LossCopyBackup ==
  AtMostOneFault /\ CopyBackup => FilesAgree' /\ BackupIsNear' /\ OneCommitBehind'
<1> SUFFICES ASSUME AtMostOneFault, CopyBackup
             PROVE  FilesAgree' /\ BackupIsNear' /\ OneCommitBehind'
  OBVIOUS
<1>1. /\ op # None /\ op' # None /\ op'.base = op.base /\ op'.new = op.new
      /\ ~At("sync") /\ ~At("sync")'
  BY Advancing DEF AtMostOneFault, CopyBackup, Steps
<1>2. /\ UNCHANGED <<main, cache, damage, acked, hurt>>
      /\ bak' = IF Readable(main) THEN main ELSE bak
  BY DEF CopyBackup, history
<1>3. FilesAgree'
  BY <1>1, <1>2, NotStates DEF AtMostOneFault, FilesAgree, Readable
<1>4. ASSUME damage = 0 PROVE Keeps(bak', acked)
  <2>1. CASE Readable(main)
    <3>1. main \in States /\ main.rev \in Nat /\ main.rev >= acked /\ acked \in Nat
      BY <1>4, <2>1, NotStates DEF AtMostOneFault, FilesAgree, TypeOK, Readable, States
    <3> QED BY <1>2, <2>1, <3>1 DEF Keeps
  <2>2. CASE ~Readable(main)
    BY <1>2, <1>4, <2>2 DEF AtMostOneFault, BackupIsNear
  <2> QED BY <2>1, <2>2
<1>5. BackupIsNear'
  BY <1>1, <1>2, <1>4 DEF BackupIsNear, Keeps
<1>6. Seen(main, bak)' = Seen(main, bak)
  BY <1>2 DEF Seen, Readable
<1>7. OneCommitBehind'
  BY <1>1, <1>2, <1>6 DEF AtMostOneFault, OneCommitBehind, Keeps
<1> QED BY <1>3, <1>5, <1>7

LEMMA LossRename ==
  AtMostOneFault /\ Rename => FilesAgree' /\ BackupIsNear' /\ OneCommitBehind'
<1> SUFFICES ASSUME AtMostOneFault, Rename
             PROVE  FilesAgree' /\ BackupIsNear' /\ OneCommitBehind'
  OBVIOUS
<1>1. /\ op # None /\ op' # None /\ op'.base = op.base /\ op'.new = op.new
      /\ At("rename") /\ ~At("sync") /\ At("sync")' /\ ~At("rename")'
  BY Advancing DEF AtMostOneFault, Rename, Steps
<1>2. main' = op.new /\ UNCHANGED <<bak, cache, damage, acked, hurt>>
  BY DEF Rename, history
<1>3. /\ op.new \in States /\ op.new.rev \in Nat /\ op.base \in States \cup {Initial}
      /\ op.base.rev \in Nat /\ acked \in Nat
  BY <1>1 DEF AtMostOneFault, TypeOK, Commits, States, Initial
<1>4. op.new.rev = op.base.rev + 1 /\ (acked > 1 => op.base.rev + 1 >= acked)
  BY <1>1 DEF AtMostOneFault, OneCommitBehind
<1>5. damage = 0 => op.new.rev >= acked
  BY <1>1, <1>3, <1>4 DEF AtMostOneFault, FilesAgree, Initial
<1>6. FilesAgree'
  BY <1>1, <1>2, <1>3, <1>5, NotStates DEF FilesAgree, Readable
<1>7. ASSUME damage = 0 PROVE Keeps(bak, op.new.rev)
  <2>1. CASE op.base = Initial
    BY <1>4, <2>1 DEF Keeps, Initial
  <2>2. CASE op.base # Initial
    <3>1. bak = op.base /\ op.base \in States
      BY <1>1, <1>3, <1>7, <2>2 DEF AtMostOneFault, FilesAgree
    <3> QED BY <1>3, <1>4, <3>1 DEF Keeps
  <2> QED BY <2>1, <2>2
<1>8. BackupIsNear'
  BY <1>1, <1>2, <1>7 DEF AtMostOneFault, BackupIsNear, Keeps
<1>9. Seen(main, bak)' = op.new
  BY <1>2, <1>3 DEF Seen, Readable
<1>10. Keeps(op.new, acked) /\ Keeps(op.new, op.new.rev)
  BY <1>3, <1>4 DEF Keeps
<1>11. OneCommitBehind'
  BY <1>1, <1>2, <1>4, <1>9, <1>10 DEF AtMostOneFault, OneCommitBehind, Keeps
<1> QED BY <1>6, <1>8, <1>11

LEMMA LossFinish ==
  AtMostOneFault /\ Finish => FilesAgree' /\ BackupIsNear' /\ OneCommitBehind'
<1> SUFFICES ASSUME AtMostOneFault, Finish
             PROVE  FilesAgree' /\ BackupIsNear' /\ OneCommitBehind'
  OBVIOUS
<1>1. At("sync") /\ op # None /\ op' = None /\ ~At("sync")' /\ ~At("rename")'
  BY DEF Finish, At
<1>2. cache' = op.new /\ acked' = op.new.rev /\ UNCHANGED <<main, bak, damage, hurt>>
  BY DEF Finish
<1>3. op.new \in States /\ op.new.rev \in Nat
  BY <1>1 DEF AtMostOneFault, TypeOK, Commits, States
<1>4. FilesAgree'
  BY <1>1, <1>2, <1>3, NotStates DEF AtMostOneFault, FilesAgree, Readable
<1>5. BackupIsNear'
  BY <1>1, <1>2 DEF AtMostOneFault, BackupIsNear, Keeps
<1>6. Keeps(op.new, op.new.rev)
  BY <1>3 DEF Keeps
<1>7. Seen(main, bak)' = Seen(main, bak)
  BY <1>2 DEF Seen, Readable
<1>8. OneCommitBehind'
  BY <1>1, <1>2, <1>6, <1>7 DEF AtMostOneFault, OneCommitBehind, Keeps
<1> QED BY <1>4, <1>5, <1>8

\* The commit in progress ends, if there is one, and the files stay as they are.
LEMMA LossAbandon ==
  ASSUME AtMostOneFault, op' = None, cache' = None \/ (cache' = cache /\ ~At("sync")),
         UNCHANGED <<main, bak, damage, acked>>
  PROVE  FilesAgree' /\ BackupIsNear' /\ OneCommitBehind'
<1>1. ~At("sync")' /\ ~At("rename")'
  BY DEF At
<1>2. FilesAgree'
  BY <1>1 DEF AtMostOneFault, FilesAgree, Readable
<1>3. BackupIsNear'
  BY <1>1 DEF AtMostOneFault, BackupIsNear, Keeps
<1>4. OneCommitBehind'
  BY <1>1 DEF AtMostOneFault, OneCommitBehind, Keeps, Seen, Readable
<1> QED BY <1>2, <1>3, <1>4

\* The fault itself: the backup is all that is left.
LEMMA LossDamage ==
  AtMostOneFault /\ Damage /\ damage' =< 1 => FilesAgree' /\ BackupIsNear' /\ OneCommitBehind'
<1> SUFFICES ASSUME AtMostOneFault, Damage, damage' =< 1
             PROVE  FilesAgree' /\ BackupIsNear' /\ OneCommitBehind'
  OBVIOUS
<1>1. damage = 0 /\ damage' = 1
  BY StoreAssumption DEF Damage, AtMostOneFault, TypeOK
<1>2. main' = Torn /\ UNCHANGED <<bak, cache, op, acked, hurt>>
  BY DEF Damage, history
<1>3. At("sync")' <=> At("sync")
  BY <1>2 DEF At
<1>4. Keeps(bak, acked) /\ (At("sync") => Keeps(bak, op.new.rev))
  BY <1>1 DEF AtMostOneFault, BackupIsNear
<1>5. \A n : Keeps(bak, n) => Keeps(Seen(main, bak)', n)
  BY <1>2, NotStates DEF Keeps, Seen, Readable
<1>6. OneCommitBehind'
  BY <1>2, <1>3, <1>4, <1>5 DEF AtMostOneFault, OneCommitBehind, Keeps
<1> QED BY <1>1, <1>6 DEF FilesAgree, BackupIsNear

LEMMA LossStep == TypeOK /\ LossInv /\ [Next]_vars => LossInv'
<1> SUFFICES ASSUME TypeOK, LossInv, [Next]_vars, damage' =< 1, ~hurt'
             PROVE  FilesAgree' /\ BackupIsNear' /\ OneCommitBehind'
  BY DEF LossInv
<1>1. damage =< 1
  <2>1. damage \in Nat
    BY StoreAssumption DEF TypeOK
  <2>2. damage' = damage \/ damage' = damage + 1
    BY DEF Next, Load, Refuse, Begin, WriteTemp, CopyBackup, Rename, Finish, Fail, Crash,
           PowerCut, Damage, vars
  <2> QED BY <2>1, <2>2
<1>2. ~hurt
  BY DEF TypeOK, Next, Load, Refuse, Begin, WriteTemp, CopyBackup, Rename, Finish, Fail, Crash,
         PowerCut, Damage, Interrupted, vars, history
<1>3. AtMostOneFault
  BY <1>1, <1>2 DEF LossInv, AtMostOneFault
<1>4. CASE Load
  BY <1>3, <1>4, LossLoading DEF Load
<1>5. ASSUME NEW exp \in 0..MaxRev, NEW val \in Payloads \cup {Invalid}, Refuse(exp, val)
      PROVE  FilesAgree' /\ BackupIsNear' /\ OneCommitBehind'
  BY <1>3, <1>5, LossLoading DEF Refuse
<1>6. ASSUME NEW exp \in 0..MaxRev, NEW val \in Payloads \cup {Invalid}, Begin(exp, val)
      PROVE  FilesAgree' /\ BackupIsNear' /\ OneCommitBehind'
  BY <1>3, <1>6, LossBegin
<1>7. CASE WriteTemp \/ CopyBackup \/ Rename \/ Finish
  BY <1>3, <1>7, LossWriteTemp, LossCopyBackup, LossRename, LossFinish
<1>8. CASE Fail
  BY <1>3, <1>8, LossAbandon DEF Fail, Interrupted, At
<1>9. CASE Crash
  BY <1>3, <1>9, LossAbandon DEF Crash, Interrupted
<1>10. CASE PowerCut
  BY <1>10 DEF PowerCut
<1>11. CASE Damage
  BY <1>3, <1>11, LossDamage
<1>12. CASE UNCHANGED vars
  BY <1>3, <1>12 DEF vars, files, history, AtMostOneFault, FilesAgree, BackupIsNear,
                     OneCommitBehind, Keeps, Seen, Readable, At
<1> QED BY <1>4, <1>5, <1>6, <1>7, <1>8, <1>9, <1>10, <1>11, <1>12 DEF Next

\* Whichever calls fail and however often the broker dies: if the main file is spoiled once,
\* and no copy to the backup was cut short, at most the last acknowledged commit is lost.
\* The backup is always one state behind, since a spoiled file is never copied over it.
THEOREM OneFaultCostsOneCommit == Spec => []OneFaultOneLoss
<1>1. Init => TypeOK /\ LossInv
  BY TypeInit, LossInit
<1>2. TypeOK /\ LossInv /\ [Next]_vars => TypeOK' /\ LossInv'
  BY TypeStep, LossStep
<1>3. LossInv => OneFaultOneLoss
  BY NotStates DEF LossInv, OneCommitBehind, OneFaultOneLoss, Keeps
<1> QED BY <1>1, <1>2, <1>3, PTL DEF Spec
=============================================================================
