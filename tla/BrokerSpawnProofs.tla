-------------------------- MODULE BrokerSpawnProofs --------------------------
(* What holds of any number of sessions and brokers, however many of them die *)
(* and however slow they are.                                                 *)
EXTENDS BrokerSpawn, TLAPS

\* An exit leaves everything of its type.
LEMMA ExitsTyped ==
  ASSUME TypeOK, NEW b \in Brokers, NEW pid \in Brokers \cup {Gone, None},
         NEW path \in Brokers \cup {Gone, None}, Exits(b, pid, path)
  PROVE  /\ broker' \in [Brokers -> Life] /\ used' \in [Brokers -> BOOLEAN]
         /\ pidFile' \in Brokers \cup {Gone, None} /\ sock' \in Brokers \cup {Gone, None}
         /\ conn' \in [Clients -> Brokers \cup {None}]
         /\ child' \in [Clients -> Brokers \cup {Gone, None}]
BY DEF TypeOK, Exits, Becomes, Life

\* Every variable of src/broker/spawn.ts and of the broker's start and end keeps its type.
THEOREM SpawnTypeCorrect == Spec => []TypeOK
<1>1. Init => TypeOK
  BY DEF Init, TypeOK, Steps, Life
<1>2. TypeOK /\ [Next]_vars => TypeOK'
  <2> SUFFICES ASSUME TypeOK, [Next]_vars PROVE TypeOK'
    OBVIOUS
  <2> USE SpawnAssumption DEF TypeOK
  <2>1. ASSUME NEW c \in Clients, Client(c) PROVE TypeOK'
    <3> USE DEF Go, Only, Mishap, Finds, Misses, TimesOut, Steps, Holding, files
    <3>1. CASE Begin(c)    BY <3>1 DEF Begin
    <3>2. CASE First(c)    BY <3>2 DEF First
    <3>3. CASE Create(c)
      <4>1. CASE lock = None
        <5>1. [by |-> c, written |-> FALSE] \in [by : Clients \cup {Gone}, written : BOOLEAN]
          OBVIOUS
        <5>2. /\ lock' = [by |-> c, written |-> FALSE]
              /\ UNCHANGED <<pidFile, sock, conn, child, broker, used, mishaps>>
          BY <3>3, <4>1 DEF Create
        <5>3. at' = [at EXCEPT ![c] = "write"] /\ tries' = [tries EXCEPT ![c] = 0]
          BY <3>3, <4>1 DEF Create
        <5>4. at' \in [Clients -> Steps] /\ tries' \in [Clients -> Nat]
          BY <5>3
        <5> QED BY <5>1, <5>2, <5>4
      <4>2. CASE lock # None BY <3>3, <4>2 DEF Create
      <4> QED BY <4>1, <4>2
    <3>4. CASE Write(c)
      <4>1. \/ lock' = lock
            \/ lock # None /\ lock' = [lock EXCEPT !.written = TRUE]
            \/ lock # None /\ lock' = [lock EXCEPT !.by = Gone]
        BY <3>4 DEF Write
      <4>2. lock' \in [by : Clients \cup {Gone}, written : BOOLEAN] \cup {None}
        BY <4>1
      <4>3. at' \in [Clients -> Steps] /\ mishaps' \in Nat
        BY <3>4 DEF Write
      <4> QED BY <3>4, <4>2, <4>3 DEF Write
    <3>5. CASE Restrict(c) BY <3>5 DEF Restrict
    <3>6. CASE Judge(c)    BY <3>6 DEF Judge
    <3>7. CASE Read(c)     BY <3>7 DEF Read
    <3>8. CASE Unlink(c)   BY <3>8 DEF Unlink
    <3>9. CASE Second(c)   BY <3>9 DEF Second
    <3>10. CASE Launch(c)  BY <3>10 DEF Launch, Life, Coming
    <3>11. CASE Await(c)   BY <3>11 DEF Await
    <3>12. CASE Wait(c)    BY <3>12 DEF Wait
    <3>13. CASE Release(c) BY <3>13 DEF Release
    <3>14. CASE Connect(c)
      <4>1. ASSUME Reachable, Go(c, "up"), UNCHANGED <<files, tries, child, broker, mishaps>>,
                   conn' = [conn EXCEPT ![c] = sock], used' = [used EXCEPT ![sock] = TRUE]
            PROVE  TypeOK'
        <5>1. sock \in Brokers
          BY <4>1 DEF Reachable, Serves
        <5>2. at' \in [Clients -> Steps]
          BY <4>1
        <5>3. conn' \in [Clients -> Brokers \cup {None}]
          BY <4>1, <5>1
        <5>4. used' \in [Brokers -> BOOLEAN]
          BY <4>1, <5>1
        <5> QED BY <4>1, <5>2, <5>3, <5>4
      <4>2. CASE Misses(c, "idle") BY <4>2
      <4> QED BY <3>14, <4>1, <4>2 DEF Connect
    <3>15. CASE Notice(c)  BY <3>15 DEF Notice
    <3> QED BY <2>1, <3>1, <3>2, <3>3, <3>4, <3>5, <3>6, <3>7, <3>8, <3>9, <3>10, <3>11,
              <3>12, <3>13, <3>14, <3>15 DEF Client, Proceeds
  <2>2. ASSUME NEW c \in Clients, Leave(c) PROVE TypeOK'
    BY <2>2 DEF Leave, Go, Mishap, Steps, files
  <2>3. ASSUME NEW c \in Clients, ClientDies(c) PROVE TypeOK'
    BY <2>3 DEF ClientDies, Go, Mishap, Steps, files
  <2>4. ASSUME NEW b \in Brokers, Starts(b) PROVE TypeOK'
    <3>1. CASE Exits(b, pidFile, sock) /\ UNCHANGED <<lock, at, tries, mishaps>>
      BY <3>1, ExitsTyped
    <3>2. CASE Exits(b, pidFile, None) /\ UNCHANGED <<lock, at, tries, mishaps>>
      BY <3>2, ExitsTyped
    <3>3. ASSUME NEW life \in Life, Advances(b, life),
                 UNCHANGED <<lock, at, tries, mishaps>>,
                 sock' \in {sock, None, b}, pidFile' \in {pidFile, None, b}
          PROVE  TypeOK'
      BY <3>3 DEF Advances, Becomes
    <3> QED BY <2>4, <3>1, <3>2, <3>3 DEF Starts, Claim, Clear, Listen, Secure, WritePid,
              SecurePid, Withdraw, Quit, Life, Coming
  <2>5. ASSUME NEW b \in Brokers, Shutdown(b) PROVE TypeOK'
    BY <2>5 DEF Shutdown, Becomes, Life, Coming, Mishap
  <2>6. ASSUME NEW b \in Brokers, BrokerDies(b) PROVE TypeOK'
    <3>1. Exits(b, pidFile, sock) /\ mishaps' \in Nat /\ UNCHANGED <<lock, at, tries>>
      BY <2>6 DEF BrokerDies, Mishap
    <3> QED BY <3>1, ExitsTyped
  <2>7. CASE UNCHANGED vars BY <2>7 DEF vars, files
  <2> QED BY <2>1, <2>2, <2>3, <2>4, <2>5, <2>6, <2>7 DEF Next
<1> QED BY <1>1, <1>2, PTL DEF Spec

---------------------------------------------------------------------------

\* A client that lets go of the lock leaves none behind; one that dies leaves one that
\* names nobody (acquireSpawnLock, releaseSpawnLock).
THEOREM LocksAreTended == Spec => []LockIsTended
<1>1. Init => LockIsTended
  BY DEF Init, LockIsTended
<1>2. TypeOK /\ LockIsTended /\ [Next]_vars => LockIsTended'
  <2> SUFFICES ASSUME TypeOK, LockIsTended, [Next]_vars PROVE LockIsTended'
    OBVIOUS
  <2> USE SpawnAssumption DEF TypeOK, LockIsTended
  <2>1. ASSUME NEW c \in Clients, Client(c) PROVE LockIsTended'
    <3> USE DEF Go, Only, Finds, Misses, TimesOut, Steps, Holding, files
    <3>1. CASE Begin(c)    BY <3>1 DEF Begin
    <3>2. CASE First(c)    BY <3>2 DEF First
    <3>3. CASE Create(c)   BY <3>3 DEF Create
    <3>4. CASE Write(c)    BY <3>4 DEF Write
    <3>5. CASE Restrict(c) BY <3>5 DEF Restrict
    <3>6. CASE Judge(c)    BY <3>6 DEF Judge
    <3>7. CASE Read(c)     BY <3>7 DEF Read
    <3>8. CASE Unlink(c)   BY <3>8 DEF Unlink
    <3>9. CASE Second(c)   BY <3>9 DEF Second
    <3>10. CASE Launch(c)  BY <3>10 DEF Launch
    <3>11. CASE Await(c)   BY <3>11 DEF Await
    <3>12. CASE Wait(c)    BY <3>12 DEF Wait
    <3>13. CASE Release(c) BY <3>13 DEF Release
    <3>14. CASE Connect(c) BY <3>14 DEF Connect
    <3>15. CASE Notice(c)  BY <3>15 DEF Notice
    <3> QED BY <2>1, <3>1, <3>2, <3>3, <3>4, <3>5, <3>6, <3>7, <3>8, <3>9, <3>10, <3>11,
              <3>12, <3>13, <3>14, <3>15 DEF Client, Proceeds
  <2>2. ASSUME NEW c \in Clients, Leave(c) PROVE LockIsTended'
    BY <2>2 DEF Leave, Go, Steps, Holding, files
  <2>3. ASSUME NEW c \in Clients, ClientDies(c) PROVE LockIsTended'
    BY <2>3 DEF ClientDies, Go, Steps, Holding
  <2>4. ASSUME NEW b \in Brokers, Starts(b) \/ Shutdown(b) \/ BrokerDies(b)
        PROVE  LockIsTended'
    BY <2>4 DEF Starts, Claim, Clear, Listen, Secure, WritePid, SecurePid, Withdraw, Quit,
       Shutdown, BrokerDies
  <2>5. CASE UNCHANGED vars BY <2>5 DEF vars, files
  <2> QED BY <2>1, <2>2, <2>3, <2>4, <2>5 DEF Next
<1> QED BY <1>1, <1>2, SpawnTypeCorrect, PTL DEF Spec

\* A step of a client leaves the socket, the PID file and the brokers that have started.
LEMMA ClientsLeaveBrokers ==
  ASSUME TypeOK, NEW c \in Clients, Client(c) \/ Leave(c) \/ ClientDies(c)
  PROVE  /\ sock' = sock /\ pidFile' = pidFile /\ broker' \in [Brokers -> Life]
         /\ \A d \in Brokers : broker'[d] = broker[d] \/ (broker'[d] = "started" /\ broker[d] = "off")
<1> USE DEF TypeOK, Only, files, Finds, Misses, TimesOut
<1>1. CASE Launch(c) BY <1>1 DEF Launch, Life, Coming
<1>2. CASE Leave(c) \/ ClientDies(c) BY <1>2 DEF Leave, ClientDies
<1>3. CASE Client(c) /\ ~Launch(c)
  BY <1>3 DEF Client, Proceeds, Begin, First, Create, Write, Restrict, Judge, Read, Unlink, Second,
              Await, Wait, Release, Connect, Notice
<1> QED BY <1>1, <1>2, <1>3

\* assertNoLiveBroker protects a broker whose PID is in the file: a broker that is started
\* beside it exits before it touches the socket.
THEOREM SettledBrokersStay == Spec => SettledStays
<1>1. TypeOK /\ [Next]_vars =>
        \A b \in Brokers : Settled(b) => Settled(b)' \/ broker'[b] \in {"leaving", "off"}
  <2> SUFFICES ASSUME TypeOK, [Next]_vars, NEW b \in Brokers, Settled(b)
               PROVE  Settled(b)' \/ broker'[b] \in {"leaving", "off"}
    OBVIOUS
  <2> USE DEF TypeOK, Settled
  <2>1. ASSUME NEW c \in Clients, Client(c) \/ Leave(c) \/ ClientDies(c)
        PROVE  Settled(b)'
    BY <2>1, ClientsLeaveBrokers
  <2>2. ASSUME NEW d \in Brokers, Starts(d) PROVE Settled(b)'
    <3>1. CASE Claim(d)
      <4>1. Exits(d, pidFile, sock) /\ d # b
        BY <3>1 DEF Claim, Alive
      <4> QED BY <4>1 DEF Exits, Becomes
    <3>2. CASE ~Claim(d)
      <4>1. d # b /\ broker[d] \notin {"off", "started"} => FALSE
        OBVIOUS
      <4>2. broker[d] \notin {"off", "started", "up"}
        BY <2>2, <3>2 DEF Starts, Clear, Listen, Secure, WritePid, SecurePid, Withdraw, Quit
      <4> QED BY <4>1, <4>2
    <3> QED BY <2>2, <3>1, <3>2 DEF Starts
  <2>3. ASSUME NEW d \in Brokers, Shutdown(d)
        PROVE  broker'[b] \in {"leaving", "off"}
    BY <2>3 DEF Shutdown, Serves, Becomes
  <2>4. ASSUME NEW d \in Brokers, BrokerDies(d)
        PROVE  Settled(b)' \/ broker'[b] \in {"leaving", "off"}
    BY <2>4 DEF BrokerDies, Exits, Becomes
  <2>5. CASE UNCHANGED vars BY <2>5 DEF vars, files
  <2> QED BY <2>1, <2>2, <2>3, <2>4, <2>5 DEF Next
<1>2. TypeOK /\ [Next]_vars =>
        [\A b \in Brokers : Settled(b) => Settled(b)' \/ broker'[b] \in {"leaving", "off"}]_vars
  BY <1>1
<1> QED BY <1>2, SpawnTypeCorrect, PTL DEF Spec, SettledStays
---------------------------------------------------------------------------
(* One broker at most is launched while nothing goes wrong.  The lock is held *)
(* by one client from the time it is created until the broker that client has *)
(* launched serves: all others that come meanwhile find a lock that is not    *)
(* stale and wait.  Afterwards locks may be removed that are not one's own,   *)
(* but whoever gets one then finds the broker at the second look.             *)

\* There is a lock, or nobody works under it; it stays.
LockHeld ==
  /\ lock # None => lock.by \in Clients /\ at[lock.by] \in Holding
  /\ \A c \in Clients :
       /\ at[c] \in Holding => lock # None /\ lock.by = c
       /\ at[c] = "read" => lock # None
       /\ at[c] \notin {"unlink", "finish", "abandon"}

\* No broker has been launched.
Before ==
  /\ LockHeld /\ sock = None /\ pidFile = None
  /\ \A d \in Brokers : broker[d] = "off" /\ ~used[d]
  /\ \A c \in Clients : at[c] # "await"

\* b starts, and who holds the lock waits for it.
During(b) ==
  /\ LockHeld
  /\ \A d \in Brokers : ~used[d] /\ (d # b => broker[d] = "off")
  /\ broker[b] \in Coming
  /\ lock # None /\ at[lock.by] = "await" /\ child[lock.by] = b
  /\ sock = IF broker[b] \in {"started", "claimed", "cleared"} THEN None ELSE b
  /\ pidFile = IF broker[b] = "named" THEN b ELSE None

\* b serves; nobody launches another, and b stays as long as its sessions do.
After(b) ==
  /\ broker[b] = "up" /\ sock = b
  /\ \A d \in Brokers : d # b => broker[d] = "off"
  /\ \A c \in Clients : at[c] # "launch"
  /\ used[b] => \E c \in Clients : conn[c] = b

StartInv ==
  Brokers # {} /\ mishaps = 0 => Before \/ \E b \in Brokers : During(b) \/ After(b)

\* Mishaps are counted, and none is forgotten.
LEMMA MishapsGrow ==
  ASSUME TypeOK, [Next]_vars PROVE mishaps' = mishaps \/ mishaps' = mishaps + 1
<1> USE DEF Mishap, Only, Finds, Misses, TimesOut, files
<1>1. ASSUME NEW c \in Clients, Client(c) \/ Leave(c) \/ ClientDies(c)
      PROVE  mishaps' = mishaps \/ mishaps' = mishaps + 1
  <2>1. CASE Client(c)
    BY <2>1 DEF Client, Proceeds, Begin, First, Create, Write, Restrict, Judge, Read, Unlink,
                Second, Launch, Await, Wait, Release, Connect, Notice
  <2>2. CASE Leave(c) \/ ClientDies(c) BY <2>2 DEF Leave, ClientDies
  <2> QED BY <1>1, <2>1, <2>2
<1>2. ASSUME NEW b \in Brokers, Starts(b) \/ Shutdown(b) \/ BrokerDies(b)
      PROVE  mishaps' = mishaps \/ mishaps' = mishaps + 1
  BY <1>2 DEF Starts, Claim, Clear, Listen, Secure, WritePid, SecurePid, Withdraw, Quit,
              Shutdown, BrokerDies
<1> QED BY <1>1, <1>2 DEF Next, vars

\* Without a mishap the lock stays with who has it, while no broker answers.
LEMMA LockStays ==
  ASSUME TypeOK, LockHeld, mishaps' = mishaps, NEW c \in Clients, Client(c), ~Reachable,
         at[c] = "launch" => \E b \in Brokers : broker[b] = "off",
         at[c] = "await" => child[c] # Gone /\ \E b \in Brokers : broker[b] \in Coming
  PROVE  LockHeld'
<1> USE SpawnAssumption DEF TypeOK, LockHeld, Go, Only, Finds, Misses, TimesOut, Mishap,
                            Holding, Steps, files
<1>1. CASE Begin(c)    BY <1>1 DEF Begin
<1>2. CASE First(c)    BY <1>2 DEF First
<1>3. CASE Create(c)
  <2>1. CASE lock = None
    <3>1. lock' # None /\ lock'.by = c /\ at' = [at EXCEPT ![c] = "write"]
      <4> HIDE DEF TypeOK, LockHeld
      <4>1. lock' = [by |-> c, written |-> FALSE] /\ at' = [at EXCEPT ![c] = "write"]
        BY <1>3, <2>1 DEF Create
      <4>2. [by |-> c, written |-> FALSE] \in [by : Clients \cup {Gone}, written : BOOLEAN]
        OBVIOUS
      <4> QED BY <4>1, <4>2
    <3> QED BY <2>1, <3>1
  <2>2. CASE lock # None BY <1>3, <2>2 DEF Create
  <2> QED BY <2>1, <2>2
<1>4. CASE Write(c)
  <2>1. lock # None /\ lock.by = c /\ lock' = [lock EXCEPT !.written = TRUE]
        /\ at' = [at EXCEPT ![c] = "restrict"]
    BY <1>4 DEF Write
  <2>2. lock' \in [by : Clients \cup {Gone}, written : BOOLEAN] /\ lock'.by = c
    BY <2>1
  <2> QED BY <2>1, <2>2
<1>5. CASE Restrict(c) BY <1>5 DEF Restrict
<1>6. CASE Judge(c)    BY <1>6 DEF Judge
<1>7. CASE Read(c)     BY <1>7 DEF Read, Stale
<1>8. CASE Unlink(c)   BY <1>8 DEF Unlink
<1>9. CASE Second(c)   BY <1>9 DEF Second
<1>10. CASE Launch(c)  BY <1>10 DEF Launch
<1>11. CASE Await(c)   BY <1>11 DEF Await
<1>12. CASE Wait(c)    BY <1>12 DEF Wait
<1>13. CASE Release(c) BY <1>13 DEF Release
<1>14. CASE Connect(c) BY <1>14 DEF Connect
<1>15. CASE Notice(c)  BY <1>15 DEF Notice
<1> QED BY <1>1, <1>2, <1>3, <1>4, <1>5, <1>6, <1>7, <1>8, <1>9, <1>10, <1>11, <1>12, <1>13,
            <1>14, <1>15 DEF Client, Proceeds

\* A client that neither launches a broker nor registers with one moves, and nothing else.
LEMMA OthersOnlyMove ==
  ASSUME TypeOK, NEW c \in Clients, Client(c), ~Launch(c)
  PROVE  /\ UNCHANGED <<sock, pidFile, broker>>
         /\ ~Reachable => UNCHANGED <<used, conn>>
         /\ at[c] # "await" => at'[c] # "await"
         /\ \A d \in Clients \ {c} : at'[d] = at[d] /\ child'[d] = child[d]
BY DEF TypeOK, Client, Proceeds, Begin, First, Create, Write, Restrict, Judge, Read, Unlink,
       Second, Await, Wait, Release, Connect, Notice, Go, Only, Finds, Misses, TimesOut, files

\* Who gets the lock first launches a broker, and there is one to launch.
LEMMA BeforeMoves ==
  ASSUME TypeOK, Brokers # {}, Before, mishaps' = mishaps, NEW c \in Clients, Client(c)
  PROVE  Before' \/ \E b \in Brokers : During(b)'
<1>1. ~Reachable
  BY SpawnAssumption DEF Before, Reachable, Serves
<1>2. LockHeld'
  BY <1>1, LockStays DEF Before
<1>3. CASE Launch(c)
  <2>1. PICK b \in Brokers : /\ broker' = [broker EXCEPT ![b] = "started"]
                             /\ child' = [child EXCEPT ![c] = b] /\ Go(c, "await")
    BY <1>3 DEF Launch, Before
  <2>2. at'[c] = "await" /\ child'[c] = b
    BY <2>1 DEF TypeOK, Go
  <2>3. lock' # None /\ lock'.by = c
    BY <1>2, <2>2 DEF LockHeld, Holding
  <2>4. broker'[b] = "started" /\ \A d \in Brokers : d # b => broker'[d] = "off"
    BY <2>1 DEF TypeOK, Before
  <2>5. UNCHANGED <<sock, pidFile, used>>
    BY <1>3 DEF Launch, files
  <2>6. During(b)'
    BY <1>2, <2>2, <2>3, <2>4, <2>5 DEF During, Before, Coming
  <2> QED BY <2>6
<1>4. CASE ~Launch(c)
  <2>1. Before'
    BY <1>1, <1>2, <1>4, OthersOnlyMove DEF Before
  <2> QED BY <2>1
<1> QED BY <1>3, <1>4

\* The others wait, and so does who has launched b.
LEMMA DuringMoves ==
  ASSUME TypeOK, NEW b \in Brokers, During(b), mishaps' = mishaps, NEW c \in Clients, Client(c)
  PROVE  During(b)'
<1> DEFINE h == lock.by
<1>1. /\ h \in Clients /\ at[h] = "await" /\ child[h] = b /\ child[h] # Gone
      /\ at[c] \in {"launch", "await"} => c = h
  BY SpawnAssumption DEF During, LockHeld, Holding
<1>2. ~Reachable
  BY SpawnAssumption DEF During, Reachable, Serves, Coming
<1>3. LockHeld'
  BY <1>1, <1>2, LockStays DEF During
<1>4. ~Launch(c)
  BY <1>1 DEF Launch
<1>5. c # h
  <2> SUFFICES ASSUME c = h PROVE FALSE
    OBVIOUS
  <2>1. Await(h)
    BY <1>1 DEF Client, Proceeds, Begin, First, Create, Write, Restrict, Judge, Read, Unlink,
                Second, Launch, Wait, Release, Connect, Notice
  <2>2. Mishap
    BY <1>1, <1>2, <2>1 DEF Await, Finds, TimesOut, During
  <2> QED BY <2>2 DEF Mishap, TypeOK
<1>6. at'[h] = "await" /\ child'[h] = b
  BY <1>1, <1>4, <1>5, OthersOnlyMove
<1>7. lock' # None /\ lock'.by = h
  BY <1>1, <1>3, <1>6 DEF LockHeld, Holding
<1>8. UNCHANGED <<sock, pidFile, broker, used>>
  BY <1>2, <1>4, OthersOnlyMove
<1> QED BY <1>3, <1>6, <1>7, <1>8 DEF During

\* Whoever has the lock finds the broker at the second look.
LEMMA AfterMoves ==
  ASSUME TypeOK, NEW b \in Brokers, After(b), mishaps' = mishaps, NEW c \in Clients, Client(c)
  PROVE  After(b)'
<1>1. Listening(sock) /\ sock = b
  BY DEF After, Listening
<1>2. ~Mishap
  BY DEF Mishap, TypeOK
<1>3. ~Launch(c)
  BY DEF Launch, After
<1>4. UNCHANGED <<sock, pidFile, broker>> /\ \A d \in Clients \ {c} : at'[d] = at[d]
  BY <1>3, OthersOnlyMove
<1>5. at'[c] # "launch"
  BY <1>1, <1>2, <1>3 DEF TypeOK, Client, Proceeds, Begin, First, Create, Write, Restrict, Judge,
     Read, Unlink, Second, Await, Wait, Release, Connect, Notice, Go, Only, Finds, Misses,
     TimesOut
<1>6. (used[b] => \E d \in Clients : conn[d] = b)'
  <2>1. CASE Connect(c) /\ conn' = [conn EXCEPT ![c] = sock]
    BY <1>1, <2>1 DEF TypeOK
  <2>2. CASE UNCHANGED <<conn, used>>
    BY <2>2 DEF After
  <2> QED BY <1>3, <2>1, <2>2 DEF Client, Proceeds, Begin, First, Create, Write, Restrict,
             Judge, Read, Unlink, Second, Await, Wait, Release, Connect, Notice, Only, Finds,
             Misses, TimesOut
<1> QED BY <1>4, <1>5, <1>6 DEF After

\* The one broker comes up, and has no reason to go.
LEMMA OneComesUp ==
  ASSUME TypeOK, NEW b \in Brokers, During(b) \/ After(b), mishaps' = mishaps,
         NEW d \in Brokers, Starts(d) \/ Shutdown(d) \/ BrokerDies(d)
  PROVE  During(b)' \/ After(b)'
<1> USE SpawnAssumption DEF TypeOK
<1>1. ~Mishap
  BY DEF Mishap
<1>2. ~BrokerDies(d)
  BY <1>1 DEF BrokerDies
<1>3. d = b
  BY <1>2 DEF During, After, Starts, Claim, Clear, Listen, Secure, WritePid, SecurePid, Withdraw,
              Quit, Shutdown, Serves
<1>4. CASE After(b)
  BY <1>1, <1>2, <1>3, <1>4 DEF After, Starts, Claim, Clear, Listen, Secure, WritePid, SecurePid,
     Withdraw, Quit, Shutdown, Serves
<1>5. CASE During(b)
  <2>1. ~Shutdown(b) /\ ~Withdraw(b) /\ ~Quit(b)
    BY <1>5 DEF During, Coming, Shutdown, Serves, Withdraw, Quit
  <2>2. UNCHANGED <<lock, at>>
    BY <1>2, <1>3, <2>1 DEF Starts, Claim, Clear, Listen, Secure, WritePid, SecurePid
  <2>3. LockHeld'
    BY <1>5, <2>2 DEF During, LockHeld
  <2>4. PICK life \in {"claimed", "cleared", "bound", "secured", "named", "up"} :
          /\ Advances(b, life)
          /\ sock' = IF life \in {"claimed", "cleared"} THEN None ELSE b
          /\ pidFile' = IF life \in {"named", "up"} THEN b ELSE None
    <3> USE <1>5 DEF During
    <3>1. CASE Claim(b)     BY <3>1 DEF Claim, Alive
    <3>2. CASE Clear(b)     BY <3>2 DEF Clear
    <3>3. CASE Listen(b)    BY <3>3 DEF Listen
    <3>4. CASE Secure(b)    BY <3>4 DEF Secure
    <3>5. CASE WritePid(b)  BY <3>5 DEF WritePid
    <3>6. CASE SecurePid(b) BY <3>6 DEF SecurePid
    <3> QED BY <1>2, <1>3, <2>1, <3>1, <3>2, <3>3, <3>4, <3>5, <3>6 DEF Starts
  <2>5. /\ broker'[b] = life /\ UNCHANGED <<child, used>>
        /\ \A e \in Brokers : e # b => broker'[e] = "off"
    BY <1>5, <2>4 DEF Advances, Becomes, During
  <2>6. CASE life = "up"
    BY <1>5, <2>2, <2>3, <2>4, <2>5, <2>6 DEF During, After, LockHeld, Holding
  <2>7. CASE life # "up"
    BY <1>5, <2>2, <2>3, <2>4, <2>5, <2>7 DEF During, Coming
  <2> QED BY <2>6, <2>7
<1> QED BY <1>4, <1>5

\* As long as nothing goes wrong one broker at most is launched, however many sessions need one
\* and however their steps interleave (acquireSpawnLock and the second isBrokerRunning).
THEOREM OneBrokerStarts == Spec => []OneStart
<1>1. Init => StartInv
  BY DEF Init, StartInv, Before, LockHeld, Holding
<1>2. TypeOK /\ StartInv /\ [Next]_vars => StartInv'
  <2> SUFFICES ASSUME TypeOK, StartInv, [Next]_vars, Brokers # {}, mishaps' = 0
               PROVE  Before' \/ \E b \in Brokers : During(b)' \/ After(b)'
    BY DEF StartInv
  <2>1. mishaps = 0 /\ mishaps' = mishaps
    BY MishapsGrow DEF TypeOK
  <2>2. ~Mishap
    BY <2>1 DEF Mishap
  <2>3. Before \/ \E b \in Brokers : During(b) \/ After(b)
    BY <2>1 DEF StartInv
  <2>4. ASSUME NEW c \in Clients, Client(c)
        PROVE  Before' \/ \E b \in Brokers : During(b)' \/ After(b)'
    BY <2>1, <2>3, <2>4, BeforeMoves, DuringMoves, AfterMoves
  <2>5. ASSUME NEW c \in Clients, Leave(c) \/ ClientDies(c) PROVE FALSE
    BY <2>2, <2>5 DEF Leave, ClientDies
  <2>6. ASSUME NEW d \in Brokers, Starts(d) \/ Shutdown(d) \/ BrokerDies(d)
        PROVE  Before' \/ \E b \in Brokers : During(b)' \/ After(b)'
    <3>1. ~Before
      BY <2>2, <2>6 DEF Before, Starts, Claim, Clear, Listen, Secure, WritePid, SecurePid,
         Withdraw, Quit, Shutdown, Serves, BrokerDies
    <3> QED BY <2>1, <2>3, <2>6, <3>1, OneComesUp
  <2>7. CASE UNCHANGED vars
    BY <2>3, <2>7 DEF vars, files, Before, During, After, LockHeld
  <2> QED BY <2>4, <2>5, <2>6, <2>7 DEF Next
<1>3. StartInv => OneStart
  BY DEF StartInv, OneStart, Before, During, After
<1> QED BY <1>1, <1>2, <1>3, SpawnTypeCorrect, PTL DEF Spec
=============================================================================
