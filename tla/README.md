# Bitswap and its storage: specifications, model checking and proofs

This directory holds TLA+ specifications of the bitswap implementation in this
repository (`bitswap/`, with the RaWa extension: want-forwards that hide who
asks for a block) and of the parts of the repository that keep state on disk
beneath it (the blockstore's caches, the pinner, the provide queue), TLC models
that check them on small instances, and TLAPS proofs of their main invariants
for instances of any size.

Each module names the file it models in its header. Actions and operators keep
the Go names where TLA+ allows it. `PROJECT.json` maps every definition to the
lines it stands for.

## The system and its parts

A node asks its peers for blocks (client), answers their requests (server) and,
in this fork, passes the searches of others on (relay).

| part | state | operations | who calls it |
|---|---|---|---|
| connect event manager (`network/connecteventmanager.go`) | per peer: reported state, applied state, pending flag; a queue of changed peers; a stop flag | `Connected`, `Disconnected`, `MarkUnresponsive`, `OnMessage`, `Stop`, worker | libp2p notifications, the message queues, the stream handler; it calls `PeerConnected`/`PeerDisconnected` of client and server |
| forward graph manager (`client/internal/peermanager/forwardgraphmanager.go`) | connected peers, successors, reconstruction timer | `AddPeer`, `RemovePeer`, `SelectNewSuccessors`, `GetSuccessorByStrategy`, its goroutine | peer manager |
| peer want manager (`.../peerwantmanager.go`) | per peer: want-blocks, want-haves, queue; reverse index; broadcast wants; four gauges | `addPeer`, `removePeer`, `broadcastWantHaves`, `sendWants`, `sendCancels`, `forwardWants`, getters | peer manager |
| peer manager (`.../peermanager.go`) | peer pool, sessions per peer | `Connected`, `Disconnected`, `SendWants`, `BroadcastWantHaves`, `SendCancels`, `ForwardWants`, `RegisterSession`, `UnregisterSession` | client, sessions, relay manager |
| relay manager (`relaymanager/relaymanager.go`) | per key: source to receiver, receiver to source, running proxies; protected connections | `ProcessForwards`, `ForwardSearch`, `ProcessForwardHaves`, the callback of a proxy session | client (a message came in), sessions |
| provider query manager (`client/internal/providerquerymanager/`) | statuses per key with listeners and the providers so far; message channel; query buffer; workers | `FindProvidersAsync`, run loop with four kinds of messages, buffer worker, query workers | sessions |
| message queue and don't-have timeouts (`client/internal/messagequeue/`) | pending and sent wants, cancels, forwards, forward-haves; timers | `AddWants`, `AddCancels`, `Add...`, send loop, rebroadcast, response handling | peer want manager |
| session want sender, block presence, session peers (`client/internal/session/sessionwantsender.go`, `blockpresencemanager/`, `sessionpeermanager/`) | wants with their peers, the peer each waits for, peers of the session, presences | `Add`, `Cancel`, `Update`, `SignalAvailability`, its goroutine | session, peer manager |
| sessions, interests, session manager, getter, client (`client/internal/session*`, `getter/`, `notifications/`, `client/client.go`) | calls and subscriptions, live wants, interests per key and session | `GetBlocks`, `ReceiveFrom`, `CancelSessionWants`, `RemoveSession`, the way of a block | users, network |
| decision engine and peer ledger (`server/internal/decision/`, `server/server.go`) | wants per peer and peers per want, task queue, envelopes in the workers' hands | `MessageReceived`, `NotifyNewBlocks`, `nextEnvelope`, `PeerConnected`, `PeerDisconnected` | server |
| cached blockstore (`../blockstore/arc_cache.go`, `bloom_cache.go`) | cache, filter, locks per key, the datastore | `Put`, `PutMany`, `DeleteBlock`, reads, filling the filter | client, server |
| pinner (`../pinning/pinner/dspinner/pin.go`) | pin records, two indexes, the dirty flag, what is durable | `Pin`, `Unpin`, `Update`, `Flush`, `New` with its rebuild | users |
| provide queue and batched provider (`../provider/queue/queue.go`, `../provider/batched/system.go`) | entries on disk, the head, the batch, two timers | `Provide`, `Reprovide`, the batch loop, `Close` | users, blockservice |

The rest of the repository (MFS, UnixFS, IPNS, the gateway, HTTP routing) is not
modelled. `PROJECT.json` lists every part, modelled or not, with the reason.

Where it gets hard: locks that are released around callbacks (connect events),
checks made under one lock and used under another (`OnMessage`), timers whose
channel may or may not have been drained (forward graph), channels closed from
three places (provider queries), messages that outlive the request they belong
to (provider queries), maps on several nodes that must agree although
connections break and searches are repeated (relay), a list that is read, sent
and only then marked as sent (message queue), a decision about a block that is
taken before the sessions are told of it (client), a size that is looked up
before the lock is taken (engine), a cache that is written after the store
(blockstore), and a flag on disk that vouches for other writes (pinner).
`PROJECT.json` lists these
hazards with their line and the properties that cover them.

## Modules

### ConnectEventManager

One action is one critical section of `c.lk`. `OnMessage` is two actions, for it
checks under the read lock and sets under the write lock. The worker is
`TakeChange` (up to the unlock), one `NotifyListener` per listener (the lock is free and the
peer may change again) and `Exit`. `told` is what a listener has concluded from
the calls it got, and `linked` the peers with a connection, by what libp2p has
notified; the rest of the state is the Go struct. A peer that is not in the Go
map has the zero value in the three per-peer functions.

Run `network` (this module with two peers and two listeners, and the provider
query manager below; they share no state, so each is explored while the other
rests): listeners lag by at most the call in progress (`ListenersFollow`), a
listener with no news to come knows whether a peer has a connection, so that a
message that races with a disconnect brings nobody back (`ConnectionsKnown`),
listeners end up with the final state (`ListenersSettle`),
and `Stop` returns (`StopReturns`). Two peers are enough to have one being
reported and another queued, and two listeners to be between two calls.
Fairness: weak, on the worker only, which is one goroutine whose waits end. That
the queue holds a peer exactly when a change is pending (`QueueExact`) and that
events alternate (`EventsAlternate`) is proved.

### ForwardGraphManager

The successors of the privacy subgraph: chosen when peers come and go and when
the timer or the signal asks for a new graph. Random and closest choices are any
choice of the right size. The timer's channel is modelled as far as `Stop` and
the receive distinguish: running, expired with a value in the channel, expired
and received.

Run `forward_graph_select` expects a violation of `SelectReturns`: when the
timer fires, `run` receives its value and `SelectNewSuccessors` waits for
another one with the lock held. The temporal formula is checked under weak
fairness of that goroutine.

### PeerWantManager and PeerManager

`PeerWantManager` models the bookkeeping of wants: sets per peer, the reverse
index, the broadcast wants, the gauges, and what each peer's queue was handed.
`PeerManager` composes it with the forward graph and adds the pool and the
sessions' registrations. `pm.pqLk` is held by every operation, so one action is
one operation of the peer manager.

Run `peer_manager` (two peers, two keys, one session, degrees 2, 4 and 9, lists
of distinct keys): the reverse index is the inverse of the per-peer sets
(`ReverseIndexExact`), the queues ask for what the sets say (`QueuesHoldWants`)
and sessions hold current information (`SignalsCurrent`). Peers and keys are
symmetric. Two keys are needed for a list to have an order and two peers for a
key to be wanted from more than one. `PoolsAgree`, `SuccessorsRegular` and
`GaugesExact` are proved.

### RelayNetwork

The relay managers of all nodes of a network, the want-forwards and
forward-haves between them, and the life of the proxy sessions they start. All
maps are keyed by the cid first, so the model follows one cid. The probability
of forwarding is a free choice. Several equal messages on one connection are
one, as in the sender's queue. `Cut` loses a connection and the messages on it.
A proxy session reports its end up to three times (`broadcast`,
`findMorePeers`, `handleShutdown`), while a new session for the same source may
already run; the phases running, closing and straggling tell these apart.
`ProcessForwardHaves` reads the map of the hops three times without the lock. One
step stands for these reads, for an entry only changes from none or the node itself
to another source and then stays. That Go may abort a process whose map is read and
written at the same time is left out.

Run `relay_network` (three fully connected nodes, one requestor that searches
twice, one fragile connection): the two maps describe the same hops
(`HopsReversible`), an answer travels only where a search went
(`HavesSolicited`), a search is only dropped as "already proxied" while a
session for it runs (`ProxiedMeansRunning`), an answer on the path reaches the
requestor unless a connection is lost (`AnswerArrives`), and the walks of single
searches end (`ForwardsDieOut`). Three nodes are the smallest network in which
a search comes back to where it started. Fairness: a message on a connection
that stays up is delivered and handled (weak fairness per pair of nodes);
sessions get none. Deadlock checking is off, since a network may fall silent.

### ProviderQueryManager

The callers with the goroutine of `receiveProviders`, the run loop, the query
workers with the goroutines that connect to providers, and the bounded channel
`providerQueryMessages` between them. A query goes by the name of the request
that started it. A handler of the run loop is one action with the receipt of its
message, except where the shutdown can interrupt it (`HandleNewAborted`, the
subset of listeners in `HandleProvider`). Closing a channel counts in `closes`,
so that closing twice is visible. A caller may not have noticed that its channel
was closed and cancels all the same: then its cancel message arrives at a
status that is gone or belongs to a later query.

Run `network` again (two requests for one key, one provider, a message channel
with one place, two workers): no channel is closed twice (`TypeOK`), nobody
waits on a channel nobody will close (`NobodyForgotten`), callers get every provider if nobody cancels
(`CompleteDelivery`), every call ends (`EveryCallEnds`). One place in the channel
makes every sender wait for the run loop; two requests let a query be joined, or
abandoned and started again. Fairness: weak, per goroutine; a network query ends
because it has a timeout, and a session reads or ends. The buffer worker is fair
only until the shutdown. Deadlock checking is off, since all calls end.

### DontHaveTimeouts and DontHaveTimeoutMgr

`DontHaveTimeouts` states what the interface `DontHaveTimeoutManager` promises: a
want that was added is cancelled or reported, sooner or later, while the manager
runs. `DontHaveTimeoutMgr` is the implementation: the map of active wants, the
queue from oldest to newest that still holds cancelled ones, the timeout that
changes with every measurement, and the one timer with its channel and the
goroutine that reads it. One action is one critical section of `dhtm.lk`;
`AddPending` is two, since it reads the clock before it takes the lock. Time is
discrete, and a want carries its age up to the longest timeout. The averages of
latencies are left out: after a measurement the timeout is any value. `Stop` and
`Reset` of the timer leave a value in its channel, as in the code; it causes an
early check and no more.

Run `dont_have_timeouts` (two keys, timeouts up to 3 units, at most three entries
in the queue): a check is due before a want is over its timeout
(`CheckScheduled`), and the manager implements `DontHaveTimeouts` with its fairness
(`KeepsPromise`). Three entries let a key be active behind a cancelled entry of
its own and another key's; three units let a timeout grow, shrink and fall below
the age of a want. Fairness: time passes, `consumeTimeouts` runs until the
shutdown, and a `fireTimeout` goroutine that was started runs.

### MessageQueue

The queue of one peer: the pending and sent lists, cancels and forward-haves; the
caller, one at a time under the peer manager's `pqLk`; and the goroutine
`runQueue`. One action is one critical section of `mq.wllock`, so a message takes
several: the lists are read (`SendMessage`), marked as sent as far as they have
not changed (`Extract`), sent (`SendMsg`), and the timeouts chosen
(`SimulateDontHave`) and started (`AddTimeouts`). Callers act between any two of
them. A call names one key; longer lists only make several such changes at once.
A message may be full after any number of entries, in the order the code adds
them. The delay before a send is counted in signals (`MaxDebounce`). `remote` is
what the peer has been told, `owed` the forward-haves it has yet to get.

Run `message_queue` (a key wanted from the peer, a broadcast key, a want-forward
and a key with two providers, of which the callers use any two; a timer that can
be reset once before it fires): what is recorded as sent was told
(`SentIsTold`), what was told is recorded or has a cancel coming
(`RemoteAccounted`), no forward-have is dropped (`HavesNotLost`), and pending
work goes out however long callers keep adding (`WorkGoesOut`). Two kinds of
entries, one of them with two providers, are enough for a message to be cut
between kinds and within one; the runs of pairs cover every pair. Fairness: weak,
on the goroutine, on a caller inside `AddCancels`, and on the timer; calls get
none. An idle queue waits for calls, which are always possible, so deadlock
checking stays on. `TimerMatches` and `WorkSignalled` are proved. Four exceptions are written into the
properties, because the code has them:

* a key both broadcast and wanted from the peer has one entry in the message, and
  a change of either want removes it for both (`SentIsTold` leaves such keys out);
* a want clears a pending cancel (`withdrawn`), so until it is sent the peer's view
  is recorded nowhere;
* a provider added while others of its key are being put into a message is deleted
  with them (`Overtaken`);
* when everything in a message was cancelled while it was built, the work that did
  not fit is not signalled (`emptied`).

### PeerLedger and Engine

`PeerLedger` has the operations of `peer_ledger.go` as operators on the pair of
maps. `Engine` is the decision engine around it: a message is handled in three
parts (`ReceiveMessage` up to the size lookup, which needs no lock, and with which
the message is abandoned if it fails; `UpdateLedger` under `e.lock`, where CIDs that
are too long are skipped; `PushAnswers` after it), a new block is stored,
the waiting peers are read and each is told (`StoreBlock`, `ReadWaiting`,
`NotifyPeer`), and a worker pops tasks, makes an envelope, records what was sent
sends it and gives the tasks back (`PopTasks`, `MakeEnvelope`, `MessageSent`,
`SendBlocks`). The
task queue is a library; `PushTasks` models what this code sees of it, with the
merging of tasks (`HasNewInfo`, `Merge`) from `taskmerger.go`. Peers come, go and
have their ledgers cleared; a message may still be under way then.

Run `server` (one peer, two blocks, an identity CID and one that is too long, two
workers, one of the keys denied by the filter, a wantlist limit of one, four messages
or block events):
only what was asked for is sent (`OnlyAskedFor`), the two maps are inverse
(`LedgerInverse`), active tasks are in a worker's hands (`ActiveHeld`), a
want-block survives a HAVE that crosses it (`WantBlockKept`), and a peer that
waits for a block the node has is being answered (`WaitingAreAnswered`). Two
workers are needed for an answer to be under way while the next one is made, and
a limit of one for a wantlist to overflow. Exceptions that the code has and the
properties name: a full wantlist leaves the old keys in the map by peer
(`emptied`); a block that arrives between the size lookup and the ledger entry is
noticed by neither side, a task may be cut off by the queue's limit, or skipped
because of one that is already settled (`missed`). Not stated as properties:
`CancelWant` answers true when the peer has any want at all, although its comment
says "if the cid was present"; a message handled after `PeerDisconnected` leaves
wants of a peer that is gone.

### BlockstoreCache

The cache of known presences and sizes (`arc_cache.go`) over the Bloom filter
(`bloom_cache.go`) over the store. A call goes through the steps at which it
looks at or changes something shared: filter, cache, locks per key, store, note.
The lock objects appear and disappear with their users. `Evict` drops any entry;
the size policy of the cache does not matter. The filter is filled from a listing
that may break off, while everything else goes on.

The second half of run `server` (two callers; every call on one key, or batches of
two keys; reads, writes and lists may fail): what the cache says is so
(`CacheTruthful`), a block that was stored is found (`StoredIsFound`), and the
locks of `PutMany` never wait in a circle (`NoCircularWait`). Exceptions: a failed
`PutMany` does not invalidate its entries (`torn`), and a listing that broke off
is taken for a complete one. The two halves share no state but the set of stored
blocks, which the engine reads as a set, so each is explored while the other
rests. Deadlock checking is off: messages and calls are bounded.

### Pinner

A pin is a record and an entry in the index of its mode. The datastore has two
faces: `store`, what the program sees, and `durable`, the states a restart may
find, which are those since the last `Sync` (the datastore keeps writes in order).
A call computes its writes under the lock and makes them one by one; `Write` and
`WriteFails` are the two outcomes of each. `Pin` and `Update` release the lock to
fetch. `Restart` may happen anywhere, also during a rebuild; writes of the flag
and the flushes may fail, and the code goes on as it does there.

Run `storage` (two CIDs, two clients, two pins, two faults; CIDs and clients are
symmetric; `SyncRepairFrequency` scaled down from 50 to 1, so that a rebuild of
two records has an intermediate flush): what a start finds with the flag clear can
be trusted (`IndexesTrusted`), an acknowledged pin survives and `Update` never
loses both CIDs (`PinsSurvive`), and a CID is not pinned recursively twice
(`RecursiveOnce`, except by `Update`, which does not look again after its fetch).
Two faults allow a failed write followed by a restart, and a restart during the
rebuild after a restart.

Run `pins_rebuilt` expects a violation of `RebuildResolves`: the intermediate
flush of a rebuild clears the flag before all records are checked.

### ProvideQueue and BatchedProvider

The queue keeps CIDs in the datastore under a counter, and its goroutine offers
the head on a channel; writes and deletes may fail and the queue may be opened
anew (`NewQueue`). `BatchedProvider` is its consumer: the loop that collects CIDs
from the queue and from reprovides until there is a pause or the batch is old, and
announces them; two timers with their channels; the two sources of reprovides; and
`Close`, which ends the context and closes the queue.

The second half of run `storage` (two CIDs, one of them insecure, two provides at
most, a key set of one): the queue offers the oldest entry (`FirstInFirstOut`),
and the timers run exactly while there is a batch (`TimersFollowBatch`). The
exception to the first is a queue that adds to the entries an earlier process
left: its counter starts again at zero. Two CIDs are enough for an order, and for
an entry to be overwritten after a restart.

Run `provide_close` expects a violation of `CloseStops`: the closed queue is
always ready to be received from, so the loop never looks at its context.
Fairness: weak, on the loop, on the timer, and on `Close` going on; the violation
is a cycle of the loop itself.

### SessionWantSender

The goroutine of one requestor session that decides which peer is asked for which
block. `OnChange` takes all queued changes at once, as the code does: adds and
cancels in order, then the last word on each peer's availability, then the
answers. `SendNextWant` is one turn of the loop that follows; peers come and go
between two turns. A message goes from the network through a goroutine that first
dials its sender (`Receive`, `Reach`, `Deliver`); the dial may succeed before the
peer manager has heard of the connection, or fail before it has heard of its end. An
update names one key. The channel of changes is bounded (`ChangesBufferSize`). The
session's loop and its goroutines wait for room in it. A signal about a peer that
finds no room is left to a goroutine of its own (`Signal`, `held`), and these
goroutines run in any order (`DeliverSignal`), so that "up" and "down" may be queued
the wrong way round.

Run `sessions` (two peers, which are symmetric, two wants, five changes, a channel
with two places instead of 128, a limit of one DONT_HAVE instead of 16): no want waits for a peer that has gone, once the
signal is taken (`WaitsOnPresent`), none is left without a peer that might have
the block (`NoWantIdles`), and a want-block is out to one peer at a time
(`OneWantBlock`). Five changes are enough to add a want, have it answered, lose
the peer, have it back and answer late, and two places for a signal to find the
channel full. The first has two exceptions: a message that is applied after its
sender left (`late`), and an "up" that is queued after the "down" it came before
(`misled`); the latter does happen within these bounds.

### SessionManager

Two sessions and one key through the whole client: a call subscribes and queues
its want, the session's loop records the interest, its sender asks, a block is
split into wanted and unwanted, the sessions are told, the CANCELs go out and the
block is published; calls and sessions end at any time. Each lock or channel is
a step of its own. A call, or the end of its session, may find the call's block
published and not taken yet; the cancel is then queued all the same (`CancelCall`,
`EndSession`). What the peers were asked is one flag, `asked`, since every
session here has a peer.

The second half of run `sessions` (two sessions, two calls, one block from a peer
or from the node itself): no peer is asked for a key without a session that is
interested (`AsksAreWanted`), and an open call does not lose its interest
(`InterestKept`). Two calls may be of one session, which gives the first
exception: one call cancels the key the other wants. The second exception is what
run `requests_stay_open` shows by violating `RequestsStayOpen`: a duplicate that
was found unwanted just before the call's want was recorded is taken for the answer. Deadlock checking
is off: calls are bounded.

## Proofs

Every theorem is checked by TLAPS (Z3, Zenon, and LS4 for the temporal steps).
The constants are arbitrary up to the named assumptions of the modules; no proof
depends on the bounds of a run.

Components that share no state and no names share a module of proofs.

* **NetworkProofs**, the connect event manager: `EventsTypeCorrect`, `QueueIsExact`,
  `ListenersFollowState`, `EventsDoAlternate`, `ConnectionsAreKnown`. The invariant
  `EventsInv` adds `CallMatches`: the event being announced is the one the applied
  state calls for. Without it nothing says what the remaining listeners will be told.
  `ConnectionsAreKnown` also needs that the recorded state is that of the connection
  (`LinksRecorded`), which the second check of `OnMessage` protects. Assumptions:
  the empty peer is no peer, there is at least one listener.
* **NetworkProofs**, the provider query manager: `TypeCorrect` (with it: no channel
  is closed twice), `ListenersStayLive`, `NobodyIsForgotten`, `DeliveryIsComplete`, for
  any number of requests, keys and workers and any channel capacity. The invariant `QueryInv` adds
  that a request's first message is sent once (`NewOnce`) and finds the request
  unregistered (`NewFresh`, `EarlyFresh`), that a recorded query has yet to report
  its end (`StatusPending`), that readers are listed (`ReadersListed`) and that the
  run loop only returns after the shutdown (`ExitedDown`). `StatusPending` is the
  heart: a late finished message may delete a newer status, but a status is never
  left behind by the query it names. `DeliveryIsComplete` needs `DeliveryInv`. Until
  the shutdown a query's messages are in order and its end comes last (`Ordered`); and
  for a key nobody cancels (`Calm`) there is one query that has not reported its end
  (`OneQuery`), what it connected to is recorded or on its way (`Recorded`), every
  listener has what was recorded (`UpToDate`), and who is no listener any more has all
  of its query (`Served`). Without `OneQuery` the end of an earlier query would close
  the channels of a later one, which is what a cancel can bring about.
* **PeerManagerProofs**: `TypeCorrect`, `PoolsDoAgree`, `IndexIsExact`,
  `QueuesDoHoldWants`, `GraphStaysRegular`, `SignalsStayCurrent`, and
  `GaugesAreExact` for cancel lists without repetition. The invariant has one
  part per manager (`GraphInv`, `PwmInv`), that they know the same peers, and
  that a session that is not registered was told nothing (`StrangersUntold`).
  Each manager's steps are proved once and used for every peer manager operation
  that calls them. `GaugesAreExact` adds arithmetic over cardinalities: a step
  moves exactly the keys it counts. Assumptions: peers and keys are finite sets,
  degrees are numbers, cancel lists are sequences of keys.
* **RoutingProofs**, the relay network: `RelayTypeCorrect`, `HopsAreReversible`,
  `HavesAreSolicited`, `ProxiedIsRunning`, in a network of any size.
  `HavesSolicited` is not inductive: to relay an answer one hop further, the next
  node must have recorded the hop. `SourcesRecorded` says so. Assumptions: the
  absent entry is no node, the bounds are numbers.
* **RoutingProofs**, provide queue and batched provider: `TimersFollow` and
  `QueueIsFIFO`. `TimersInv` adds that outside the collecting loop both timers are
  off. `QueueInv` says that the entries to come, the one being offered first, are a
  sequence with increasing numbers whose CIDs are those owed: a delete may have
  worked although it failed, so the entry offered need not be in the datastore any
  more. It says this until a restart mixes entries of two lives of the program. Assumption: CIDs are positive numbers, so that none is the undefined one.
* **WantSenderProofs**, the don't-have timeouts: `TypeCorrect`, `MapAndQueueAgree`,
  `QueueStaysInOrder`, `ChecksInTime`, and `ImplementsInterface`, the safety part of
  the refinement. The invariant `TimeoutInv` adds that wants waiting for the lock
  are younger than the queue (`AddingLast`), without which order is lost when they
  are appended, and that nothing is queued before the start (`StartedFirst`).
  Assumptions: the keys are finite, the default timeout is positive and at most the
  maximum.
* **WantSenderProofs**, the session want sender: `SenderInvariance`,
  `WaitsArePresent`, `WantsAreSent` and the action property `OneWantBlockAtATime`,
  for any peers, wants, size of the channel and limit of DONT_HAVEs. The invariant
  `SenderInv` adds that of the words about a peer's availability in the channel an
  "up" is followed by a "down" once the peer has left, unless a goroutine holds the
  "down" or held the "up" too long (`WordsOK`, `Excused`), so that the last word,
  which the batch goes by, is true but for these; that a member of the session is
  registered and present or has its "down" coming (`MembersOK`); that a want knows of the members and of nobody
  else but the late ones (`KnowsOK`); and that the wants the sending loop has passed
  are settled (`VisitedOK`). Of a peer's count of DONT_HAVEs it says only that the
  limit is not passed. Assumptions: nobody is no peer, the absent want is no want,
  the bounds are numbers.
* **ClientProofs**, the message queue: `TypeCorrect`, `DrainNeverHangs`,
  `WakeupsNotLost`, `RecordedIsTold`, `ToldIsRecorded`, `HavesReachThePeer`, for any
  keys and providers and any debounce. The invariant `MessageQueueInv` adds that a
  key is not both pending and cancelled (`CancelsApart`), that keys stay on the lists
  they are called for (`KeysKept`), that an older peer is not sent want-haves
  (`HavesDropped`), and what the batch in the making (`BatchSound`) and the finished
  message (`MsgSound`) say about the lists at the time. These carry the argument over
  the window in which the lock is free. Assumptions: peer and broadcast keys are
  keys, the debounce bound is positive.
* **ClientProofs**, sessions and interests: `ManagerInvariance`, `AsksStayWanted`,
  `InterestIsKept`, for any sessions, calls and handlers. The invariant `ManagerInv`
  adds that a cancel anywhere comes from a cancelled call (`CancelsOK`); that, unless
  two calls of the session overlap, its want is ahead of its cancel in both queues
  and the interest outlives what is recorded and tracked (`OrderOK`), which is why
  the last cancel finds the want; and that an answer in the session's queue is older
  than the want of an open call, or its handler has yet to publish (`KeptOK`).
  Assumption: sessions and calls are
  numbered, sessions from one.
* **EngineProofs**: `TypeCorrect`, `LedgerInverseHolds`, `ActiveHeldAlways`,
  `OnlyAskedForAlways`, `WaitersAreAnswered` and the action property
  `WantBlockKeptAlways`, for any peers, keys, workers and messages. `LedgerInverse`
  and `ActiveHeld` are inductive with the types. `OnlyAskedFor` is not: `AskedInv`
  adds that every pending and active task, every message being handled, every ledger
  entry and every notification goes back to what the peer asked for and the filter
  allows (`Justified`), since each of them may become a task. `WaitingAreAnswered`
  needs `AnsweredInv`: the same of peers whose connection is down but not being
  forgotten (`AnsweredOK`), that what a handler is about to push is in the ledger as
  it was asked (`TypesMatch`), that a worker has one task of a key (`HeldOnce`) and
  that a HAVE in an envelope stands for no want-block (`HavesPlain`), for otherwise
  sending it would take a want from the ledger that it does not answer. Assumptions:
  messages are well formed, the bounds are numbers.
* **PinnerProofs**: `PinnerInvariance`, `IndexesAreTrusted`, `PinsAreKept`,
  `PinnedOnce`, for any CIDs, clients and bounds on faults. `PinnerInv` speaks of
  every state of the datastore a restart may find, not only of the one the program
  sees (`StoresOK`): what is promised is indexed in all of them, and one without the
  flag has an index entry for every record that counts. It adds who holds the lock
  (`LockOK`), the one pin between its two writes (`IndexesComplete`), when the flag
  must be there (`FlagOK`), what a call still has to write (`WritesOK`), that `Update`
  has the old or the new CID in every such state (`UpdateOK`), and that a CID being
  fetched is unpinned as long as the count of changes stands still (`FetchOK`).
  Assumptions: the bounds are numbers, a rebuild syncs after at least one pin.
* **BlockstoreCacheProofs**: `CacheInvariance`, `CacheIsTruthful`,
  `StoredBlocksAreFound`, `LocksAreOrdered`, for any blocks, callers and workload.
  `CacheInv` has the life of a lock object (`MapOK`, `WritersAlone`, `GripsOK`), what
  a call knows when it is about to note its answer (`AnswersOK`), that a wrong entry
  of the cache has a call that will correct it (`TruthOK`), what the filter has, will
  have or missed (`FilterOK`), and what is owed to the calls (`AckedOK`, `OwedOK`).
  Assumptions: keys are numbers, of the keys of a call there is a last one, only
  `PutMany` has more than one key, and callers are finite.

Only model-checked: the liveness properties (`ListenersSettle`, `StopReturns`,
`AnswerArrives`, `ForwardsDieOut`, `EveryCallEnds`, `WorkGoesOut`, and the fairness of
`DontHaveTimeouts` in `KeepsPromise`), since liveness under fairness and ENABLED are
out of this prover's reach, as is induction over data.

## Findings

Four runs show a disagreement between the code and one of its comments; the
quotations are in `PROJECT.json`: the forward graph's second receive from its
timer, the rebuild that clears the dirty flag early, the batched provider that
does not stop, and the call that a duplicate block leaves waiting.

Behaviour of the same kind that was met while modelling, and has no run of its own:

* a cancel list that names a key twice takes it from the gauges twice
  (`peerwantmanager.go:359`; `GaugesAreExact` is proved for lists without
  repetition);
* a second search of a requestor forgets the receiver of the first, which is then
  chosen again (`relaymanager.go:239`, against the comment at 133);
* a key whose last listener cancelled gets a second provider query while the first
  still runs (`providerquerymanager.go:445`, against the comment at 75);
* a want that clears a pending cancel and is cancelled itself before it is sent is
  never cancelled at the peer (`messagequeue.go:412`);
* the exceptions written into the properties, named with each module above.

## Not modelled

Of bitswap: the search timers of a session (`handlePeriodicSearch` re-arms only
while there are live wants, `session.go:449`; `handleShutdown` goes through the
unforwarded search timers without their lock, `session.go:497`), the nested read
lock of `ForwardInterestedSessions` (`sessioninterestmanager.go:240`), CANCELs that
cross a fresh want between two sessions' calls of the peer manager, the creation of
a session whose context is already done (`sessionmanager.go:109`), the score
ledger, wire formats, statistics. Of the provider system: the simple provider and
reprovider. Of the pinner: names, which no caller gives.

Elsewhere: MFS, UnixFS with the HAMT, merkledag, IPNS and the name system, the
block service, the gateway and HTTP routing. They make up most of the repository's
lines and are for the most part sequential library code, parsers, HTTP handlers and
generated code, whose correctness is a matter of data (bytes, paths, headers,
encodings) that a model would have to leave out; the republishers of MFS and IPNS
are the exceptions worth a model next. File system access, floating point
statistics and metrics stay out for good. The reasons are with the components in
`PROJECT.json`.
