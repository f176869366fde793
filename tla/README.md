# A verification of pi-intercom

TLA+ models of the intercom in this repository (`pi-intercom`: messages between coding-agent sessions,
through a broker on the same host or directly between hosts), the TLC runs that check them on small
instances, and proofs, checked by TLAPS, that hold for every value of the constants. `PROJECT.json` lists the
components, the runs, the mutants, the hazards and, definition by definition, the source lines each models.

1. [The system](#1-the-system)
2. [The modules](#2-the-modules)
3. [The runs](#3-the-runs)
4. [Fairness](#4-fairness)
5. [The proofs](#5-the-proofs)
6. [Where the code does not keep its word](#6-where-the-code-does-not-keep-its-word)
7. [What is not modelled](#7-what-is-not-modelled)
8. [The plan](#8-the-plan)

## 1. The system

### Components, their state and their operations

| Component | Source | State | Operations |
|---|---|---|---|
| Routing | `broker/broker.ts` | `sessions`, `disconnectedSessions`, `askEdges` and the pending-asks directory, `messageReceiptRoutes`, `mailboxMessages`, `deliveryRecords`, the key each socket's handler remembers | register, unregister, close, presence, send, message_receipt, cancel_message, cancel_ask, the prunes |
| Extension bus | `broker/broker.ts` 1424-1765, `index.ts` 881-958, 1388-1488 | `namespaceOwners`, epochs, `ownerOrder`; per session the owner and the state it was last told | register and capability updates, elections, publish, commit, owner and state notices |
| Extension state store | `broker/extension-state.ts` | a main file, a backup, a cache | `loadState`, `commitState` |
| Spawning and the runtime claim | `broker/spawn.ts`, `broker/runtime-claim.ts`, broker start and shutdown | the lock file, the PID file, the socket in the file system | `spawnBrokerIfNeeded`, `assertNoLiveBroker`, listen, `shutdown` |
| Session connection | `index.ts`, `broker/client.ts` | `client`, `runtimeGeneration`, `reconnectPromise`, the startup and reconnect timers, the sockets | `startSessionRuntime`, `session_shutdown`, `ensureConnected`, `scheduleReconnect`, the `disconnected` handler |
| Broker client's calls | `broker/client.ts` | the socket, `pendingSends`, `pendingLists`, the heartbeat | `connect`, `disconnect`, `send` (exact targets too), `cancelMessage`, `listSessions`, the close event |
| Asks of a session | `index.ts` | `replyWaiter` | the tools ask and contact_supervisor, aborts, timers, `handleIncomingMessage` |
| What a session owes | `index.ts`, `reply-tracker.ts` | `seenInboundMessages`, `pendingAsks`, cancelled asks, turn contexts | mail and message controls, turns, the tools reply and send |
| Outbox and relays | `index.ts` | `outboxRequestIds`, `pendingOutboxRequests` | outbox requests, subagent relays, the end of a session |
| Watches | `broker/broker.ts` 607-651, `broker/client.ts` | at the broker, the requester and the target a table each, with a timer each | watch_request, watch_response, watch_cancel, timeouts |
| Watch history | `watch.ts`, `index.ts` | the events of the branch; cursors | pages in both directions, change of branch |
| P2P roster | `p2p/client.ts` | `peers`, `sessionByPeer`, hellos and transfers under way | discovery, hello, envelopes, transfers, disconnections |
| Evidence | `evidence.ts`, `evidence-extension.ts`, `p2p/transfer.ts` | retained results, the partial directory being written, the inbox of transfers | retain, capacity, delete, reception |
| Admission | `broker/broker.ts` 278-380 | unregistered sockets, tokens | registration timeout, eviction, rate limit |
| Telemetry | `p2p/telemetry.ts` | the queues of observers | queueing, dropping |
| Framing, configuration, project agents, user interface, viewers | the rest | little that another component relies on | parsing, rendering |

### How they interact

A session's extension (`index.ts`) starts with a runtime. Its connection logic makes an `IntercomClient`, makes
sure that a broker runs (`spawn.ts`, one lock file for all processes of the user) and registers over a socket
of its own. The broker is a single Node process: each frame of a socket is handled in one callback that no
other callback interrupts. What interleaves is:

- the requests of different sockets, the close event of a socket with the registration that replaced it, and
  both with the passing of time, which ages every table;
- frames on their way: a client acts on what it was last told, the broker has moved on;
- in a session, everything that happens while `spawnBrokerIfNeeded` or `connect` is awaited;
- in the file system, the system calls of any number of processes that share a lock, a PID file and a socket,
  and of a broker that dies between two calls of a commit.

### What makes each part correct

- Routing: two sessions never block on each other; an ask ends through its parties, its timeout or the broker's
  death; a retried id is not delivered twice while its record lives, and the record tells the truth; mail
  waits only for the absent; scopes never mix; the tables keep to their limits; the disk agrees with the table.
- Bus: one owner per namespace and scope, the first that is eligible; a newcomer does not take over; commits
  are compare-and-set whoever owned in between; every member's view catches up.
- Store: a linearizable compare-and-set register in spite of failing calls, crashes and power cuts.
- Spawning: one broker is started, not two; one that has settled is not displaced; a session that keeps asking
  gets to a broker again whatever died.
- Connection: no registered socket behind the session's back; one attempt at a time; a lost connection is retried.
- Client: every call is settled, by its own answer or its timer, and a broker that falls silent is noticed.
- Asks: the one reply slot is never left occupied; a reply kept from the agent is what the ask returns.
- What is owed: an ask that is over never comes back, and is not answered again.
- Outbox: every request has one result, its own, and what is said to be sent was delivered.
- Watches: nobody loses its socket because another gave up first; a reader of pages misses nothing.
- Roster: its two maps agree, with each other and with what listeners were told; who stays is listed.
- Evidence: the capacity is kept, whatever is received or fails half-way.

The `hazards` of PROJECT.json list, line by line, where each of these could go wrong.

## 2. The modules

`X_Variant`, next to a definition `X`, is `X` with a plausible mistake; no action uses it. The `mutants` of
PROJECT.json put it in X's place to show that the property named there can fail.

### BrokerRouting (broker.ts)

One action per handler, the whole of it: `Register` includes the replacement of an older socket, the prunes,
and the mailbox flush; `Send` is split into the outcomes of the one handler in the order of its checks
(`SendExactMiss`, `SendLive`, `SendStandIn`, `SendQueued`, `SendRefused`), each with the prunes that come
first. JavaScript Maps are functions on finite domains, timestamps are ticks of `now` (`Tick`), which stand for
any delay against the retention times: a retention of 0 or 1 ticks makes "too old" and "not yet" both happen.
`Restart` is the death of the broker and its next start, of which only `askFiles` survives. Messages are
records of what routing looks at: id, author, whether a reply is expected, the id replied to or superseded, a
body that tells two contents of one id apart. Names, aliases, directories and id prefixes are those of
`Profiles` and `Prefix`. History variables (`got`, `dup`, `forgotten`) record the frames written, for the
properties only. `Extrema` has the lemmas about least and greatest elements the proofs use.

### RevisionRegister and ExtensionStore (extension-state.ts)

`RevisionRegister` is what the store promises: a register changed by compare-and-set, whose answers are true
and whose acknowledged commits last. `ExtensionStore` has one action per system call (`WriteTemp`,
`CopyBackup`, `Rename`, `Finish`), any of which may fail or be cut short (`Fail`, `Interrupted`), the death of
the broker (`Crash`), power cuts that leave unflushed files as they were before, and `Damage`, when something else spoils
the main file. `KeepsItsPromise` is the refinement: `reg` is what `loadState` would return, `doubt` the states a power cut may
bring back.

### ExtensionBus (broker.ts, client.ts, index.ts)

The owner election, the epochs, publish and commit, and both ends of the sockets as queues of frames. A
session's `commitState` quotes the revision its view shows (the explicit `expectedRevision` that an extension
may pass is taken to be one it has seen). One namespace and any number of scopes; a namespace touches no state
of another.

### BrokerSpawn (spawn.ts, runtime-claim.ts, broker.ts start and shutdown)

One action per system call. `at[c]` is the place of session process `c` in `spawnBrokerIfNeeded`; `broker[b]`
the stage of broker process `b`: started, claimed, cleared (the old socket removed), bound, secured (the socket
restricted), named (PID written), up, leaving, closing. `child[c]` is the broker that `c` has launched, whose end ends its
wait at once. A process that dies leaves its files, which then name `Gone`. Judging a lock by its age or before it is
filled, timeouts that come too early, a lock that cannot be written, deaths and departures are `mishaps`, of which there are at
most `MaxMishaps`. The model knows that:

- the lock is created before its contents are written, and a client that reads it in between takes it for
  stale and removes it; `releaseSpawnLock` and the retry remove whatever lock is there by then;
- `assertNoLiveBroker` is checked when a broker is constructed and the PID written only when it listens, so two
  brokers may pass it together and the second then removes the socket of the first;
- `onListening` restricts the socket and the PID file, and ends the broker when one of them has been removed meanwhile;
- `shutdown` removes the socket and the PID file whoever's they are, and libuv removes the socket's path once more as the
  server closes;
- a lock file that was created but could not be written stays, empty, and is stale for whoever reads it.

### SessionLink (index.ts, client.ts)

The connection of one session. An attempt stands for the `IntercomClient` it makes and for its socket.
Generations number the runtimes; `Start` and `End` happen at any await. `Fails` is the catch and the finally
block of `ensureConnected` in their order, followed by the catch of the startup timer if that awaits the same
promise.

### BrokerClient (client.ts)

One connection and the calls over it. A call is of one of four kinds; an exact send lists first and sends then, and
once more if the target was rebound. `wire` holds the frames the broker has not answered; it answers in
order, and may fall silent for good (`mute`) with the socket open, which is what timers and heartbeat are for.
`Overlaps = TRUE` lets two calls name one message at a time; the second then takes the first one's entry (section 6),
so the run assumes the ids that `randomUUID` gives. A call that fails before it is registered, and the
receipts and presence updates that are only written, keep nothing and are left out.

### AskWaiter (index.ts)

The tools that block. Each await is a step; a tool that was aborted goes on until what it awaits has settled.
`FailsWith` is the catch of the tool with its `rejectReplyWaiter`, which rejects whoever is in the slot:
`cause` records who did it (section 6). `InOrder` says that the answer to a send comes before the replies to
its message. The broker writes both to one socket in that order; between hosts, nothing orders them.

### ReplyTracker (reply-tracker.ts, index.ts)

What arrives: the filter of ids seen, the asks recorded, the contexts of turns. `Dismiss` is `dismissPendingAsk` and
`markReplied`; `Targets` is how a reply finds what it answers. Ticks of `now` age asks and filter alike: by default
both are one hour in the code.

### Outbox (index.ts)

A request is a chain of awaits with the generation it began in; `Settle` is `settleOutboxRequest`, and `FailBox`
what the start or the end of a runtime does to the requests of the one before. `ReusedLater = FALSE`: an extension
does not use an id again in a later runtime of the session (section 6).

### WatchRoutes (broker.ts, client.ts) and WatchHistory (watch.ts, index.ts)

WatchRoutes has the three tables a watch is in and the sockets between them as queues of frames; a session that
lost its socket opens another, and the broker may hear of that before it hears of the loss. `cut` records the
sockets the broker destroys when a watch_response does not fit. WatchHistory is about the pages: an event is its
index, what fits in a page is any number up to `MaxPage`, and `reader.astray` says whether a reader who follows the
cursors was shown an event twice or missed one.

### PeerRoster (p2p/client.ts)

The roster of one node. A session that starts again has another node. What comes late, the answer to a hello or a
transfer that has been stored, is a step that is possible whenever it has been begun, whatever happened since.

### EvidenceInbox (evidence.ts, evidence-extension.ts, p2p/transfer.ts, p2p/client.ts)

Results on their way into the store: `checkCapacity` before a transfer is read, the copy in the turn of the mutation
queue, and the removal of what failed. `written` counts the bytes of the one partial directory there is,
`stray` those left by sessions that ended half-way.

### MCSession and MCConnection

Each composes parts of a session that share no variable, so that one run checks each: a behaviour belongs to the part
it begins with, and the others stand still. They are no statement about parts working together; where parts interact,
the models have the interaction in one module (the bus with both ends of its sockets, watches with three tables, asks
with the client's answers).

## 3. The runs

| Run | Module, cfg | What it shows |
|---|---|---|
| `routing_asks` | MCRoutingAsks | asks, counter-asks, answers by the wrong session, retries, replaced sockets, timeouts |
| `routing_mail` | MCRoutingMail | retries and reused ids while the target leaves, returns, or is stood in for, with a mailbox of one and two records |
| `routing_replies` | MCRoutingReplies | finds `ReplyReachesAsker` violated (section 6) |
| `routing_scopes` | MCRoutingScopes | two scopes with the same ids and names, exact sends, id prefixes, a message that supersedes another, a broker that dies; the inductive invariant |
| `self_mail` | MCSelfMail | finds `NoMailToSender` violated (section 6) |
| `bus_owners` | MCBus, MCBusOwners.cfg | events name an owner their receiver knows; owners become known (liveness) |
| `bus_state` | MCBus, MCBusState.cfg | elections, no lost update, views converge, no newcomer takes over |
| `session_parts` | MCSession | the link (sockets owned, attempts shared, lost connections retried), inbound asks, the outbox, watches, pages, evidence, and the store: it implements the register, and one fault costs one commit at most |
| `link_retry` | MCLink, MCLinkRetry.cfg | finds `FailureQueuesRetry` violated (section 6) |
| `connection` | MCConnection | calls over a socket, asks and their slot, the roster; that calls and asks end and who stays is listed (liveness) |
| `ask_blame` | MCAsk | finds `FailsForItsOwnReasons` violated (section 6) |
| `broker_spawn` | MCSpawn | one broker is started while nothing goes wrong, settled brokers stay, who keeps asking reconnects (liveness) |

### Bounds, and why they are enough to be worth something

- Sessions: two parties and, where a third can interfere, a bystander or namesake. Every routing check looks at two
  sessions and at most one that shares a name with one of them. Three sockets let a session be replaced twice,
  or replaced while the other is connected; they are symmetric.
- `MaxEpoch` bounds registrations per session, `MaxTime` the clock (one tick is past every retention set to 0),
  `MaxSeq` the places of mailbox and records. A mailbox of one and two records overflow in a few steps, which
  the real limits (256, 4096) hardly do in a test.
- Store: `MaxRev` 3: the main file, the backup and the commit in progress hold three different states. One
  damage: what is claimed is one fault, one loss.
- Bus: two sessions, two or three sockets, queues of one frame from each client. Two sessions contend for
  the namespace; the third socket is the late one. `bus_owners` leaves commits out and `bus_state` leaves
  events and the broker's death out, to keep each finite and fast; both have all elections.
- Link: two attempts and four generations: the attempt of a runtime that ended, and that of one that replaced
  it. The proofs are for any number.
- Client: two calls of any kind over one socket, and two message ids: a call's entry, its timer and the close event
  race the other's.
- Asks: two: one in the slot and one that comes while it is taken, given up or emptied. A third meets what the second does.
- What is owed: two asks of one sender and a plain message of another, so that "the only ask" is and is not one; `SeenMax` 2, so
  that the filter forgets by number, and one tick, which is past every retention, so that it forgets by age.
- Outbox: two requests, two ids, a relay, and three starts or ends of a runtime.
- Watches: two sessions, one watched twice by the other with room for one watch at each end, and two sockets each: a socket
  is lost and opened again while frames of the first are on their way.
- Pages: six events, pages of up to three: a page may end short of, at, and past either end; the branch changes once.
- Roster: one session and three nodes of its; two nodes' late messages and the node there is. Sessions meet in the roster only
  if two use one node, which the code's peer ids exclude.
- Evidence: room for a result of each kind but not for all; two ends in the middle of something.
- Spawn: two clients, two brokers and two mishaps: enough for the lock to be stolen and a process to die while
  its victim works on. A launch beyond the two brokers fails, as a `spawn` may. `OneStart` is about the behaviours without
  a mishap; TLC has checked its invariant (section 5) for three clients too.

`CHECK_DEADLOCK FALSE` is set in every cfg: the bounds (clock, epochs, generations, mishaps, calls) let a model come
to a halt where the program would go on.

The type invariants of ReplyTracker, Outbox, WatchRoutes, WatchHistory, EvidenceInbox, BrokerClient, AskWaiter and
PeerRoster hold in these instances; they say nothing a reader would doubt and are not listed among the properties.
Between them the runs fire every action. Each property has a mutant of the code that breaks it.

## 4. Fairness

Safety properties assume none. Three runs check liveness:

- `bus_owners` (`FairSpec` of ExtensionBus): a frame that waits on a socket is handled (`Handle`), a frame
  that waits at a session is received (`Receive`), and a session whose socket the broker has closed notices
  (`Notice`). The first two are the event loops of the processes; the third is the close event or, if that
  never comes, the liveness heartbeat of `broker/client.ts` (143-185). No session is obliged to connect,
  register an extension, commit or publish.
- `broker_spawn` (`FairSpec` of BrokerSpawn): a session process that has begun goes on (`Proceeds`), and so does each broker
  that is starting or leaving (`Starts`). No session is obliged to begin: a failed attempt in the background arms no
  other (section 6). So `Reconnects` states the demand itself: a session that asks again and again gets a broker again
  and again. Strong fairness of `Secure` says that a broker does not lose its socket in the one turn of its event
  loop between `listen` and `onListening` every time for ever; the livelock it rules out is described in section 6.
- `connection`: for the client (`ClientFairness`), its timers fire, an attempt to connect fails in the end if it does not
  succeed (its timeout), the close event comes after a socket is destroyed, the heartbeat goes on and gives a silent
  broker up, and a socket that `disconnect` has ended goes away. Nothing is asked of the broker. For the asks
  (`AskFairness`), the tool's own awaits settle, which for lists and sends is what the client's `NobodyWaitsForever` says, and
  the waiter's timer fires; no reply is assumed. For the roster (`RosterFairness`), multicast finds a node that stays up
  again and again, and hellos to it, tried for ever, do not fail for ever (strong fairness of `HelloAnswered`).

The network itself is never assumed to deliver: sockets may break at any time.

## 5. The proofs

All theorems are about the specifications that TLC checks, for every value of the constants that satisfies
the assumptions next to them:

- `ConstantsAssumption`, `BoundsAssumption`: types and bounds, and that the session key is made of scope and id;
  `AskIdsAssumption`: one id is not used once for an ask and once for a message that waits for no answer (ids
  are minted by `randomUUID`); `ScopeIdsAssumption`: for the same reason, sessions of two scopes mint different ids. The
  directory of pending asks needs this one: its files are named by scope and id, the table of asks is kept by the id alone.
- `StoreAssumption`, `BusAssumption`, `SpawnAssumption`, `LinkAssumption`, `ClientAssumption`, `AskAssumption`, `RosterAssumption`,
  `TrackerAssumption`, `OutboxAssumption`, `WatchAssumption`, `HistoryAssumption`, `EvidenceAssumption`: types, and that `None` and the like
  are different from the values they stand beside.
- Three theorems carry a hypothesis that the run of their property satisfies: `CallsAreRemembered` has `~Overlaps`,
  `OutboxResultsAreOwn` has `~ReusedLater` and `TakenRepliesAreReturned` has `InOrder`, whose other sides section 6
  describes. The two about the store have `Trusted`. `RepliesReachNamedAskers` has two: `UniqueIds` (an author gives an
  id to one message only, as `randomUUID` does; what a reused id costs is `routing_mail`'s subject) and `NoAliases` (every name is an
  explicit one), without which its property is false: that is what `routing_replies` shows.

| Module | Theorems | The argument |
|---|---|---|
| BrokerRoutingProofs | `TypeCorrect`, `InvHolds`, `MutualAskRefused`, `SocketsOwned`, `LeavesOnlyWithItsSocket`, `NoMailForThePresent`, `ScopesApart` | `Inv` (below) with `TypeOK` is inductive; each theorem is one of its parts or follows in one step |
| BrokerRecordsProofs | `FilesTrackAsks`, `AskEndsOnlyByItsParties`, `DeliveredAtMostOnce`, `RecordsAreTrue`, `TablesStayBounded`, `RepliesReachNamedAskers` | on top of `Inv`: `Files`, `Ledger`, `Bounded` and `Origins`, one lemma per handler for each |
| ExtensionStoreProofs | `StoreTypeCorrect`, `StoreImplementsRegister`, `StoreKeepsItsPromise`; `OneFaultCostsOneCommit` | each step of the store is a step or a stutter of the register, given `Inv`; `LossInv` is inductive |
| ExtensionBusProofs | `BusTypeCorrect`, `BusInvHolds`, `FirstSessionOwns`, `NewcomersWait`; `WireInvHolds`, `CommitsReplaceWhatTheySaw`, `NoSessionIsPassedBy`, `EventsFollowElections` | every step elects in the table it leaves behind, forgets all sessions, or changes neither sessions nor owners; and for a session a step opens its socket, reads a frame or adds frames that tell it what is so (`QueueStep`) |
| SessionProofs | `LinkInvHolds`, `LinkTypeCorrect`, `OpenSocketsAreOwned`, `AttemptsAreShared`, `LostSessionsRetry`; `OutboxResultsAreOwn`; `SettledAsksStayGone`; `PagesMissNothing`; `EvidenceStaysInBounds`; `TargetsAreNotCutOff` | one inductive invariant per part: `LinkInv`, `OutboxInv`, `TrackerInv`, `HistoryInv`, `EvidenceInv`, `WatchInv` |
| BrokerSpawnProofs | `SpawnTypeCorrect`, `LocksAreTended`, `SettledBrokersStay`; `OneBrokerStarts` | `TypeOK` is enough for the first three: each step is looked at on its own; `StartInv` is inductive |
| ConnectionProofs | `SlotsAreLive`, `TakenRepliesAreReturned`; `RosterStaysOneToOne`; `CallsAreRemembered` | `AskInv`, `RosterInv` and `ClientInv` are inductive; `RepliesComeLate` is too where answers come in order |

Why the invariants are as they are:

- Routing. `NoMutualAsk` is kept by the check of `Send` only if nothing else makes an edge: mail would, when it is
  flushed, were it not that blocking asks are never queued (`NoAskQueued`), which holds for a retry too because
  the edges are of messages that wait for a reply (`EdgesAreAsks`). `MailWaitsForTheAbsent` needs
  `AwayIsAbsent`, because mail is queued for sessions remembered as disconnected. `ScopesNeverMix` needs
  the asks' parts for the edges that a flush rewrites.
- Records. `Files` adds to the property that an edge is as old as its file, so that both are pruned together, and was made by
  a message of its sender. `Ledger` ties what was delivered (`got`) to the records, the mailbox and the routes: what was
  delivered or is queued has a record unless that was forgotten (`GotKnown`, `MailKnown`), a route is left by a delivery only
  (`RoutesDelivered`: what a cancellation takes back was delivered). Without these `RecordsTellTheTruth` is not
  inductive: a new record could be the second of a message delivered before. `Bounded` adds to the limits that no two records
  have one place (`PlacesDiffer`), or the oldest could be two. `Origins` says that a reply that waits does so for a session that
  wrote the message it answers (`MailAnswers`), which `AnswersAsk` and the routes have made sure of when it was queued.
- Store. `CacheIsFresh`, `CommitAnswersCall`, `MainIsPlausible` and `MissingIsUnacknowledged` say what a reader
  may find after a power cut at each step of a commit. The refinement needs `Trusted`: nothing else spoils the
  main file, and if the power may go, directories can be flushed. Without it the theorem is false: see section 6.
  `OneFaultCostsOneCommit` has no such hypothesis. `LossInv` says that the backup is the state the commit started from
  when the rename comes (`FilesAgree`), so it is one behind what is being acknowledged (`BackupIsNear`); what remains of
  that after the fault, for the files, the cache and the commit under way, is `OneCommitBehind`.
- Bus. `OrdersDistinct` makes "came first" well defined. What the sessions know (`WireInv`) rests on `Sockets`: a socket is
  of one session, from the `register` it sends to the handler that remembers it, so no session reads another's frames
  or has another's commit taken for its own. `Past` follows a state from the view a session has, over the frames it is about
  to read, to the commits it has sent: each is, or was, the state of its scope, and the revision tells which. That is
  why the revision alone, which is what the broker compares, is enough for `NoLostUpdate`. `Told` says that the last
  owner and state a session is to read are those there are. It needs `Past`: the broker does not welcome a session with a state
  when there is none, and what that session still has from before must then be the blank state. `Named` puts the owner of an event
  before the event. It needs `Told` at the moment the event is written.
- Spawning. `StartInv` follows the one start there is: `Before` anything is launched, and `During` the start, the lock stays
  with the client that created it first (`LockHeld`), because all others find it, find that it is not stale, and wait; the
  broker's stage says what the PID file and the socket hold. `After`, locks that are not one's own may well be
  removed, but whoever creates the next one finds the broker at the second look, and the broker has no reason to
  go as long as no session leaves.
- Link. `OpenIsOwned` relies on `OneAttempt` (an attempt that comes back is the session's client or is stale) and
  `NotForgotten` on `ClientIsCurrent` (no stale attempt is under way while a client is connected: the
  `disconnected` handler would clear the timer and arm none) and on `TimersAreCurrent`.
- Asks. `SlotIsLive` needs to know that an ask without a promise has not sent (`PromisesFollowStages`). That a reply is
  returned by its ask needs `RepliesComeLate`: an ask whose send is yet to settle and which has its reply already
  returns the failure of the send, and the reply is lost. With `InOrder` no reply is on its way by then.
- Client. An entry is found by the message and not by the call, so `NothingIsForgotten` needs `OneCallPerMessage`: of the
  calls that wait, listing ones too, no two have one message. `EntryIsOwn` follows the entries back to their calls.
- Outbox. `OutboxInv` says of each stage of a chain what the maps hold: a chain that goes on after an await finds its own
  request under its id, or none.
- Inbound asks. The filter of seen ids is what keeps a settled ask away, but no invariant about the filter is needed: a message
  leaves `settled` in the very step that takes it for a new one, and the proof shows that it does so whenever the filter lets
  it pass (`RememberedIsDuplicate`).
- Pages. `CursorsAreEnds`: as long as the reader's branch is the session's, its two cursors are the ends of what
  it was shown, whether a page was cut short, empty, or taken from a history that had grown.
- Watches. The broker cuts a target off when its answer does not fit the route. `Traces` says where each trace of a watch leads: the
  request on its way in and out, the page that is being made, the answer and the route are all about one socket of the target,
  the one it was listed on. So an answer fits its route's target, and `RoutesAreLive`, which `clearWatches` keeps whenever a
  session is replaced or goes, says that the two sessions of the route are still those it was made for.
- Evidence. What `Usage` adds up is a sum over a set: the proof shows by the least number of elements without it (`MinExists` of
  Extrema) that the sum exists, is unique and grows by one term at a time, then that a result is written only after
  its size was checked in its own turn of the queue.
- Roster. A node is only ever known as the node of its own session (`KnownByItsSession`), so putting one on the
  roster displaces its session's older node and no other session.

Left to TLC: liveness (`OwnerBecomesKnown`, `Reconnects`, `NobodyWaitsForever`, `EveryAskReturns`,
`RunningAreListed`). The induction theorems of the library cannot be instantiated; where a proof needs
induction over data (sums, filters), it takes a least counterexample with `MinExists` instead.

## 6. Where the code does not keep its word

Four runs end in a violation, and their findings quote the lines:

- `routing_replies`: the comment at `broker.ts:1367` and CHANGELOG.md:57 say that a runtime alias transfers no mail. The
  flush (`broker.ts:1223`) looks at the flag of the session that registers and not at that of the session the mail was
  written to, so the reply to a session that had nothing but an alias goes to one whose explicit name, in the
  same directory, is that alias. The two tests (`intercom.integration.test.ts` 3518, 3577) have the newcomer bear the alias.
  Where there are no aliases the property is proved (`RepliesReachNamedAskers`).
- `self_mail`: the mailbox flush recognises the sender of a mail by the name it had when it wrote. A session that
  takes the name of the session it wrote to is handed its own message.
- `link_retry`: when an attempt of the retry timer fails, `scheduleReconnect` is called while the promise of that very
  attempt is still set, and returns. A session that is offline and whose first retry fails stays offline
  until something else needs a client. An attempt of a tool that fails has also cleared the timer and arms none.
  This is why `NotForgotten` excepts sessions for which such an attempt has failed (`gaveUp`).
- `ask_blame`: an ask that fails rejects whoever is in the reply slot. A first ask that was aborted while it was being
  sent has left the slot to a second; when its send settles, its catch rejects the second ask's waiter, for no fault of the
  second's. The comment there calls the rejection cleanup only.

Other limits of the code that the models made plain:

- Two brokers that pass `assertNoLiveBroker` together displace one another, and the one that can no longer be
  reached stays. If it holds the PID file (`Stranded`), no broker can start until it ends, and `Reconnects` has to
  except that state. One mishap leads there, a client that gives a slow broker up and launches another; the state lasts
  when that other dies after it has removed the socket of the first, and otherwise passes. A broker that starts while
  another's `shutdown` is between its PID file and the end of its server loses its socket the same way.
- Two such brokers may also go on without end: a broker removes the socket of another that is between `listen` and
  `onListening`, that one dies of it, its client (whose child has ended) removes the lock of the first one's client and launches
  again, and so on in turn. Each round needs the removal to hit one turn of an event loop; `FairSpec` assumes that
  it does not hit every time.
- Where a directory cannot be flushed, or its flush fails, `commitState` acknowledges all the same; a power cut
  may undo the commit, and its revision number is then given to another. After a fallback to the backup, too.
- A session that was there first takes the namespace when its extension registers later. The comment at
  `broker.ts:1441` describes another order, (startedAt, sessionId), than the `ownerOrder` the code uses.
- A circle of three blocking asks is accepted and ends by its timeouts.
- A retry of queued mail after its record has gone (one hour) and before the mail has (one day) is delivered twice.
- Two calls of the client that name one message at a time: the second overwrites the entry of the first, and the timer of
  either removes whatever entry there is; one of the two may wait for ever (`Overlaps`, `client.ts:733`). An answer that comes after the timer settles a newer call of the same id (`client.ts:454`).
- `disconnect` during a heartbeat: the heartbeat's list fails and the socket is destroyed instead of closed in good order.
- An outbox id used again in a later runtime: the chain of the old request may settle the new one (`ReusedLater`).
- The filter of ids seen forgets after an hour, or a thousand ids: mail that is delivered once more after that is new.
- The table of asks is kept by message id alone, their files by scope and id: an id used in two scopes would leave
  the file of one behind. Ids are random UUIDs, and `ScopeIdsAssumption` says so.
- Between hosts a reply may overtake the answer to the send (`InOrder` FALSE). If the send then fails, the ask fails, and
  its reply has been taken from the agent's sight.
- Between hosts a transfer that is stored after its connection has gone puts the dead node back on the roster
  (`p2p/client.ts:653`), until it is heard from again or disconnects again; and a transfer that the receiver aborts after
  it has shown the message is reported as failed (`p2p/client.ts:658`).
- The partial directory of a session that ended half-way counts against the capacity for ever: nothing removes it.
- Telemetry replaces queued todo and presence events without counting them as dropped (`p2p/telemetry.ts` 113-133);
  README.md:167 says that the interface marks dropped telemetry.

## 7. What is not modelled

- Errors of the file system in the records of pending asks (`broker.ts` 1264-1288). They are thrown out of the handler, in the
  middle of a send or a cancellation, and cost the socket of the request (`framing.ts`).
- An ask of one session that is overwritten in the table by a third session's ask with the same id (`broker.ts:753`):
  `AskEndsByItsParties` looks at the ids that leave the table. The ids are random UUIDs.
- Admission: the registration timeout, the eviction of unregistered sockets and the token bucket each look at one
  socket and one counter, and nothing else depends on more than that they refuse.
- Framing and protocol checks: a sequential reader of bytes, covered by its unit tests. The models send only what it accepts.
- Telemetry queues and viewers: nothing depends on them. Plain p2p transfers: received like evidence, but left in place.
- Sends, receipts, controls and watches between hosts: each is one request and one answer
  between two nodes, with no mailbox and no records; the maps of message routes behind them are bounded caches.
- The launch command of the broker (Windows launcher, tsx lookup), the TCP endpoint file, and PIDs that the
  operating system gives away again. PIDs are the identities of processes in BrokerSpawn.
- Rendering, commands, the web viewers, configuration and project agents: they keep nothing another component relies on.
- A watch of one event by its id, and the filter of watched pages: they keep no state.
- `session_shutdown` is one step of SessionLink, although it awaits the disconnection before it returns: the host is
  taken to wait for it before it starts the next runtime.

## 8. The plan

The components above that carry state are modelled, and every safety property a passing run checks is stated by a theorem. What
could be added:

1. An abstract specification of the life of one message (unsent, queued, delivered, answered, gone) that BrokerRouting is
   shown to implement, as the register is for the store.
2. The safe halves of the liveness properties: what has to hold of a state in which an ask, a call or a reconnection waits, so
   that the step that ends the wait stays possible. `NotForgotten` and `NothingIsForgotten` are two of them.
