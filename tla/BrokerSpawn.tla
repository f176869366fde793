----------------------------- MODULE BrokerSpawn -----------------------------
(***************************************************************************)
(* How sessions come to have a broker: spawnBrokerIfNeeded with its lock   *)
(* file (src/broker/spawn.ts), the claim of a broker that starts           *)
(* (src/broker/runtime-claim.ts, the constructor and start of              *)
(* src/broker/broker.ts) and its end (shutdown).                           *)
(*                                                                         *)
(* All of them are processes that share three files and nothing else: the  *)
(* lock, the broker's PID and the socket in the file system.  One step is  *)
(* one system call, so every check may be stale when it is acted on.       *)
(***************************************************************************)
EXTENDS Naturals

CONSTANTS
  Clients,     \* session processes: one that dies is replaced by another of that name
  Brokers,     \* broker processes, likewise
  None, Gone,  \* no file, or none; a file that names no process, or a process that is no more
  MaxRetries,  \* maxRetries of acquireSpawnLock
  MaxMishaps   \* bound: processes that die or are too slow, locks that are stolen, calls that
               \* fail, and sessions that leave

ASSUME SpawnAssumption ==
  /\ {None, Gone} \cap (Clients \cup Brokers) = {} /\ None # Gone
  /\ None \notin [by : Clients \cup {Gone}, written : BOOLEAN]
  /\ MaxRetries \in Nat \ {0} /\ MaxMishaps \in Nat

VARIABLES
  lock,     \* the spawn lock: None, or [by, written]
  pidFile,  \* the broker whose PID is in the file, Gone or None
  sock,     \* the broker that bound the socket's path, Gone or None
  at,       \* per client: where it is in spawnBrokerIfNeeded and connect
  tries,    \* per client: attempts at the lock
  conn,     \* per client: the broker it is connected to, or None
  child,    \* per client: the broker it has launched and waits for, Gone if that has ended
  broker,   \* per broker: "off" or a step of its life
  used,     \* per broker: has a session registered?
  mishaps   \* how many there have been

files == <<lock, pidFile, sock>>
vars  == <<files, at, tries, conn, child, broker, used, mishaps>>

\* What a client does with the lock it has taken.
Holding == {"write", "restrict", "second", "launch", "await", "finish", "abandon"}
Steps   == {"idle", "first", "create", "judge", "read", "unlink", "wait", "connect", "up"}
             \cup Holding
\* A broker that has bound the path listens; it answers when onListening is over.
Coming  == {"started", "claimed", "cleared", "bound", "secured", "named"}
Life    == {"off", "up", "leaving", "closing"} \cup Coming

Alive(b)     == b \in Brokers /\ broker[b] # "off"
Serves(b)    == b \in Brokers /\ broker[b] = "up"
Listening(b) == b \in Brokers /\ broker[b] \in {"bound", "secured", "named", "up"}
\* The process at the path answers.
Reachable    == Serves(sock)

Go(c, step) == at' = [at EXCEPT ![c] = step]
Mishap      == mishaps < MaxMishaps /\ mishaps' = mishaps + 1

Init ==
  /\ lock = None /\ pidFile = None /\ sock = None
  /\ at = [c \in Clients |-> "idle"] /\ tries = [c \in Clients |-> 0]
  /\ conn = [c \in Clients |-> None] /\ child = [c \in Clients |-> None]
  /\ broker = [b \in Brokers |-> "off"] /\ used = [b \in Brokers |-> FALSE]
  /\ mishaps = 0

---------------------------------------------------------------------------
(* A client *)

\* Only c's place changes.
Only(c, step) ==
  /\ Go(c, step)
  /\ UNCHANGED <<files, tries, conn, child, broker, used>>

\* Somebody needs a client: ensureConnected.
Begin(c) == at[c] = "idle" /\ Only(c, "first") /\ UNCHANGED mishaps

\* isBrokerRunning, checkSocketConnectable: a broker answers, or none listens, or the one that
\* is there takes too long.
Finds(c, step)  == Reachable /\ Only(c, step) /\ UNCHANGED mishaps
Misses(c, step) == /\ Only(c, step)
                   /\ IF Listening(sock) THEN Mishap ELSE UNCHANGED mishaps

First(c) ==
  /\ at[c] = "first"
  /\ \/ Finds(c, "connect")
     \/ Misses(c, "create")

\* acquireSpawnLock: the file is created, its contents are written, its mode is restricted.
Create(c) ==
  /\ at[c] = "create"
  /\ IF lock = None
     THEN /\ lock' = [by |-> c, written |-> FALSE] /\ Go(c, "write")
          /\ tries' = [tries EXCEPT ![c] = 0]
     ELSE Go(c, "judge") /\ UNCHANGED <<lock, tries>>
  /\ UNCHANGED <<pidFile, sock, conn, child, broker, used, mishaps>>

\* The contents go to the file that c created, which may have been unlinked.  If they cannot
\* be written the error goes to the caller, and an empty lock stays.
Write(c) ==
  LET mine == lock # None /\ lock.by = c
  IN  /\ at[c] = "write"
      /\ \/ /\ Go(c, "restrict") /\ UNCHANGED mishaps
            /\ lock' = IF mine THEN [lock EXCEPT !.written = TRUE] ELSE lock
         \/ /\ Go(c, "idle") /\ Mishap
            /\ lock' = IF mine THEN [lock EXCEPT !.by = Gone] ELSE lock
      /\ UNCHANGED <<pidFile, sock, tries, conn, child, broker, used>>

\* chmod fails if there is no lock any more.
Restrict(c) ==
  /\ at[c] = "restrict"
  /\ Only(c, IF lock = None THEN "idle" ELSE "second")
  /\ UNCHANGED mishaps

\* isSpawnLockStale: is the file there?
Judge(c) ==
  /\ at[c] = "judge"
  /\ IF lock = None
     THEN Go(c, "wait") /\ tries' = [tries EXCEPT ![c] = 0]
     ELSE Go(c, "read") /\ UNCHANGED tries
  /\ UNCHANGED <<files, conn, child, broker, used, mishaps>>

Stale_Missing == lock = None

\* The lock is gone, or empty, or names a process that is gone.
Stale == IF lock = None THEN TRUE ELSE lock.by = Gone

\* isSpawnLockStale: what does it say?  A lock that its creator has not filled in yet is taken
\* for stale, and so is one whose creator has been stopped for too long: two mishaps.
Read(c) ==
  /\ at[c] = "read"
  /\ \/ Stale /\ Go(c, "unlink") /\ UNCHANGED <<tries, mishaps>>
     \/ ~Stale /\ Go(c, "unlink") /\ Mishap /\ UNCHANGED tries
     \/ /\ ~Stale /\ lock.written
        /\ Go(c, "wait") /\ tries' = [tries EXCEPT ![c] = 0] /\ UNCHANGED mishaps
  /\ UNCHANGED <<files, conn, child, broker, used>>

\* Whatever lock is there by now is removed.
Unlink(c) ==
  /\ at[c] = "unlink" /\ lock' = None
  /\ IF tries[c] + 1 < MaxRetries
     THEN Go(c, "create") /\ tries' = [tries EXCEPT ![c] = @ + 1]
     ELSE Go(c, "wait") /\ tries' = [tries EXCEPT ![c] = 0]
  /\ UNCHANGED <<pidFile, sock, conn, child, broker, used, mishaps>>

Second_Trusting(c) == at[c] = "second" /\ Only(c, "launch") /\ UNCHANGED mishaps

\* isBrokerRunning again, with the lock.
Second(c) ==
  /\ at[c] = "second"
  /\ \/ Finds(c, "finish")
     \/ Misses(c, "launch")

\* spawn: it fails only when there is no room for one more process.
Launch(c) ==
  /\ at[c] = "launch"
  /\ \/ \E b \in Brokers :
          /\ broker[b] = "off" /\ broker' = [broker EXCEPT ![b] = "started"]
          /\ child' = [child EXCEPT ![c] = b] /\ Go(c, "await")
     \/ /\ \A b \in Brokers : broker[b] # "off"
        /\ Go(c, "abandon") /\ UNCHANGED <<broker, child>>
  /\ UNCHANGED <<files, tries, conn, used, mishaps>>

\* waitForBroker times out: too early only if a broker answers, or is on its way and slow.
TimesOut(c, step) ==
  /\ Only(c, step)
  /\ IF Reachable \/ \E b \in Brokers : broker[b] \in Coming THEN Mishap ELSE UNCHANGED mishaps

\* With the lock, the end of the process that was launched ends the wait, whichever other
\* broker is on its way.
Await(c) ==
  /\ at[c] = "await"
  /\ \/ Finds(c, "finish")
     \/ child[c] = Gone /\ Only(c, "abandon") /\ UNCHANGED mishaps
     \/ TimesOut(c, "abandon")

Wait(c) ==
  /\ at[c] = "wait"
  /\ \/ Finds(c, "connect")
     \/ TimesOut(c, "idle")

Release_OnSuccess(c) ==
  /\ at[c] \in {"finish", "abandon"}
  /\ lock' = IF at[c] = "finish" THEN None ELSE lock
  /\ child' = [child EXCEPT ![c] = None]
  /\ Go(c, IF at[c] = "finish" THEN "connect" ELSE "idle")
  /\ UNCHANGED <<pidFile, sock, tries, conn, broker, used, mishaps>>

\* releaseSpawnLock, whoever's lock is there.
Release(c) ==
  /\ at[c] \in {"finish", "abandon"}
  /\ lock' = None
  /\ child' = [child EXCEPT ![c] = None]
  /\ Go(c, IF at[c] = "finish" THEN "connect" ELSE "idle")
  /\ UNCHANGED <<pidFile, sock, tries, conn, broker, used, mishaps>>

\* The session registers, or nobody answers any more.
Connect(c) ==
  /\ at[c] = "connect"
  /\ \/ /\ Reachable /\ Go(c, "up")
        /\ conn' = [conn EXCEPT ![c] = sock] /\ used' = [used EXCEPT ![sock] = TRUE]
        /\ UNCHANGED <<files, tries, child, broker, mishaps>>
     \/ Misses(c, "idle")

\* The session notices that its broker is gone.
Notice(c) ==
  /\ at[c] = "up" /\ conn[c] = None
  /\ Only(c, "idle") /\ UNCHANGED mishaps

Leave(c) ==
  /\ at[c] = "up" /\ conn[c] # None /\ Mishap
  /\ Go(c, "idle") /\ conn' = [conn EXCEPT ![c] = None]
  /\ UNCHANGED <<files, tries, child, broker, used>>

\* The process dies, and with it what its lock says.
ClientDies(c) ==
  /\ at[c] # "idle" /\ Mishap
  /\ Go(c, "idle") /\ tries' = [tries EXCEPT ![c] = 0] /\ conn' = [conn EXCEPT ![c] = None]
  /\ child' = [child EXCEPT ![c] = None]
  /\ lock' = IF lock # None /\ lock.by = c THEN [lock EXCEPT !.by = Gone] ELSE lock
  /\ UNCHANGED <<pidFile, sock, broker, used>>

---------------------------------------------------------------------------
(* A broker *)

Becomes(b, life) == broker' = [broker EXCEPT ![b] = life]

\* The process ends: files that name it name nobody, its connections close, and who launched
\* it hears of it.
Exits(b, pid, path) ==
  /\ Becomes(b, "off") /\ used' = [used EXCEPT ![b] = FALSE]
  /\ pidFile' = IF pid = b THEN Gone ELSE pid
  /\ sock' = IF path = b THEN Gone ELSE path
  /\ conn' = [c \in Clients |-> IF conn[c] = b THEN None ELSE conn[c]]
  /\ child' = [c \in Clients |-> IF child[c] = b THEN Gone ELSE child[c]]

\* The process goes on.
Advances(b, life) == Becomes(b, life) /\ UNCHANGED <<conn, child, used>>

Claim_Unchecked(b) ==
  /\ broker[b] = "started" /\ Advances(b, "claimed")
  /\ UNCHANGED <<files, at, tries, mishaps>>

\* assertNoLiveBroker
Claim(b) ==
  /\ broker[b] = "started"
  /\ IF Alive(pidFile) THEN Exits(b, pidFile, sock)
     ELSE Advances(b, "claimed") /\ UNCHANGED <<pidFile, sock>>
  /\ UNCHANGED <<lock, at, tries, mishaps>>

\* The constructor removes the socket that is there.
Clear(b) ==
  /\ broker[b] = "claimed" /\ Advances(b, "cleared") /\ sock' = None
  /\ UNCHANGED <<lock, pidFile, at, tries, mishaps>>

\* listen: the path must be free.
Listen(b) ==
  /\ broker[b] = "cleared"
  /\ IF sock = None THEN Advances(b, "bound") /\ sock' = b /\ UNCHANGED pidFile
     ELSE Exits(b, pidFile, sock)
  /\ UNCHANGED <<lock, at, tries, mishaps>>

\* onListening restricts the socket, whoever's it is; if there is none, the error ends the
\* process.
Secure(b) ==
  /\ broker[b] = "bound"
  /\ IF sock = None THEN Exits(b, pidFile, sock)
     ELSE Advances(b, "secured") /\ UNCHANGED <<pidFile, sock>>
  /\ UNCHANGED <<lock, at, tries, mishaps>>

WritePid(b) ==
  /\ broker[b] = "secured" /\ Advances(b, "named") /\ pidFile' = b
  /\ UNCHANGED <<lock, sock, at, tries, mishaps>>

\* It restricts the PID file likewise; then the broker answers.
SecurePid(b) ==
  /\ broker[b] = "named"
  /\ IF pidFile = None THEN Exits(b, pidFile, sock)
     ELSE Advances(b, "up") /\ UNCHANGED <<pidFile, sock>>
  /\ UNCHANGED <<lock, at, tries, mishaps>>

\* shutdown: when the last session has left, or by a signal.  The socket, the PID file and,
\* as the server closes, the socket again are removed, whoever's they are.
Shutdown(b) ==
  /\ Serves(b) /\ Becomes(b, "leaving") /\ sock' = None
  /\ conn' = [c \in Clients |-> IF conn[c] = b THEN None ELSE conn[c]]
  /\ IF used[b] /\ \A c \in Clients : conn[c] # b THEN UNCHANGED mishaps ELSE Mishap
  /\ UNCHANGED <<lock, pidFile, at, tries, child, used>>

Withdraw(b) ==
  /\ broker[b] = "leaving" /\ Advances(b, "closing") /\ pidFile' = None
  /\ UNCHANGED <<lock, sock, at, tries, mishaps>>

Quit(b) ==
  /\ broker[b] = "closing" /\ Exits(b, pidFile, None)
  /\ UNCHANGED <<lock, at, tries, mishaps>>

BrokerDies(b) ==
  /\ Alive(b) /\ Mishap /\ Exits(b, pidFile, sock)
  /\ UNCHANGED <<lock, at, tries>>

---------------------------------------------------------------------------

\* A client that has begun goes on.
Proceeds(c) ==
  \/ First(c) \/ Create(c) \/ Write(c) \/ Restrict(c) \/ Judge(c) \/ Read(c) \/ Unlink(c)
  \/ Second(c) \/ Launch(c) \/ Await(c) \/ Wait(c) \/ Release(c) \/ Connect(c) \/ Notice(c)

Client(c) == Begin(c) \/ Proceeds(c)

\* A broker that starts, or shuts down, goes on.
Starts(b) ==
  \/ Claim(b) \/ Clear(b) \/ Listen(b) \/ Secure(b) \/ WritePid(b) \/ SecurePid(b)
  \/ Withdraw(b) \/ Quit(b)

Next ==
  \/ \E c \in Clients : Client(c) \/ Leave(c) \/ ClientDies(c)
  \/ \E b \in Brokers : Starts(b) \/ Shutdown(b) \/ BrokerDies(b)

Spec == Init /\ [][Next]_vars

\* Every process that runs goes on with what it has begun.  No session is obliged to begin: an
\* attempt in the background that fails arms no other (src/index.ts:1494, 1561).  That a broker
\* loses its socket within the one turn of its event loop between listen and onListening may
\* happen any number of times, but not every time for ever.
FairSpec ==
  /\ Spec
  /\ \A c \in Clients : WF_vars(Proceeds(c))
  /\ \A b \in Brokers : WF_vars(Starts(b)) /\ SF_vars(Secure(b) /\ broker'[b] = "secured")

---------------------------------------------------------------------------
(* Properties *)

\* b serves at the path, the PID file names it, and no other broker is past its claim.
Settled(b) ==
  /\ broker[b] = "up" /\ sock = b /\ pidFile = b
  /\ \A d \in Brokers \ {b} : broker[d] \in {"off", "started"}

\* Once a broker has settled nothing but its own end unsettles it: neither a session that
\* finds it too slow, nor a stolen lock, nor any number of brokers started beside it.
SettledStays ==
  [][\A b \in Brokers : Settled(b) => Settled(b)' \/ broker'[b] \in {"leaving", "off"}]_vars

\* As long as every process lives, is fast enough and stays, one broker at most is launched,
\* whichever sessions need one at a time and however their steps at the lock interleave: who
\* gets the lock after the first looks for a broker again.
OneStart ==
  mishaps = 0 => \A b, d \in Brokers : broker[b] # "off" /\ broker[d] # "off" => b = d

\* A lock in the file system is being worked under, or names no process that runs.
LockIsTended ==
  lock # None /\ lock.by # Gone => at[lock.by] \in Holding

\* The PID file names a broker that serves, but not at the path.
Stranded == Serves(pidFile) /\ sock # pidFile

\* A session that asks for a broker again and again gets one again and again, whichever
\* processes have died at whichever step and whatever files they have left; unless a broker
\* that nobody can reach holds the PID file.
Reconnects ==
  \A c \in Clients : []<>(at[c] = "first") => []<>(conn[c] # None \/ Stranded)

TypeOK ==
  /\ lock \in [by : Clients \cup {Gone}, written : BOOLEAN] \cup {None}
  /\ pidFile \in Brokers \cup {Gone, None} /\ sock \in Brokers \cup {Gone, None}
  /\ at \in [Clients -> Steps] /\ tries \in [Clients -> Nat]
  /\ conn \in [Clients -> Brokers \cup {None}]
  /\ child \in [Clients -> Brokers \cup {Gone, None}]
  /\ broker \in [Brokers -> Life] /\ used \in [Brokers -> BOOLEAN]
  /\ mishaps \in Nat
=============================================================================
