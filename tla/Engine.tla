------------------------------- MODULE Engine -------------------------------
(***************************************************************************)
(* The server side of bitswap: the decision engine                         *)
(* (bitswap/server/internal/decision/engine.go, taskmerger.go,             *)
(* blockstoremanager.go) and the server's send loop                        *)
(* (bitswap/server/server.go).                                             *)
(*                                                                         *)
(* For every peer a handler goroutine takes its messages in three steps:   *)
(* look the wanted keys up in the blockstore, record the wants under       *)
(* e.lock, push tasks on the request queue.  Workers pop tasks, fetch the  *)
(* blocks, make an envelope, tell the ledger, send it and release the      *)
(* tasks.  New blocks are announced by NotifyNewBlocks, which reads who    *)
(* waits and pushes afterwards.  The request queue is go-peertaskqueue;    *)
(* what it does is taken from how the engine uses it.                      *)
(***************************************************************************)
EXTENDS PeerLedger, FiniteSets

CONSTANTS
    Worker,     \* the engine's and the server's task workers, in pairs
    Message,    \* the messages peers may send
    Denied,     \* the pairs <<p, k>> peerBlockRequestFilter refuses
    Identity,   \* the keys that are identity CIDs
    Oversized,  \* the other keys whose CIDs are longer than maxCidSize
    MaxWants,   \* maxQueuedWantlistEntriesPerPeer
    MaxEvents   \* bound on messages, block changes and lost connections

ASSUME MaxWantsAssumption == MaxWants \in Nat /\ MaxEvents \in Nat
ASSUME OversizedAssumption == Oversized \cap Identity = {}

\* What a peer asks for: want[k] is NoWant for a key it does not mention,
\* and SendDontHave is one flag for the whole message.
ASSUME MessageAssumption ==
    Message \subseteq [full : BOOLEAN, want : [Key -> WantType \cup {NoWant}],
                       cancel : SUBSET Key, sendDontHave : BOOLEAN]

VARIABLES
    ledger,     \* e.peerLedger
    pending,    \* the queue's pending task for each peer and key
    active,     \* the popped tasks that were not given back by TasksDone
    rx,         \* the message a peer's handler is at, and how far it is
    hand,       \* the envelope each worker is at, and how far it is
    notify,     \* for each key, how far its NotifyNewBlocks is
    store,      \* the keys whose blocks are in the blockstore
    conn,       \* the connection of each peer
    asked,      \* history: the pairs <<p, k>> p has sent a want-block for
    emptied,    \* history: the peers that sent a full wantlist since connecting
    events,     \* how many of the bounded events have happened
    missed      \* history: the wants no answer was prepared for, see Missed

vars == <<ledger, pending, active, rx, hand, notify, store, conn,
          asked, emptied, events, missed>>

\* One of the bounded events: something the outside world does.
Event == events < MaxEvents /\ events' = events + 1

-----------------------------------------------------------------------------
(* Tasks and the request queue.                                            *)

\* type taskData, without the sizes.
Task == [HaveBlock : BOOLEAN, IsWantBlock : BOOLEAN, SendDontHave : BOOLEAN]

NoTask == [none |-> TRUE]

\* HasNewInfo: whether a new task says more than the active ones.
HasNewInfo(task, existing) ==
    \/ task.IsWantBlock /\ \A t \in existing : ~t.IsWantBlock
    \/ task.HaveBlock /\ \A t \in existing : ~t.HaveBlock

\* Mutant: a pending DONT_HAVE stays one when the block has come.
MergeKeepsDontHave(task, existing) ==
    [existing EXCEPT !.IsWantBlock = existing.IsWantBlock \/ task.IsWantBlock]

\* Merge: what a pending task becomes when another for its key is pushed.
Merge(task, existing) ==
    LET have1 == existing.HaveBlock \/ task.HaveBlock
        upgrade == ~existing.IsWantBlock /\ task.IsWantBlock
    IN [existing EXCEPT
          !.IsWantBlock = existing.IsWantBlock \/ task.IsWantBlock,
          !.HaveBlock = IF upgrade /\ (~have1 \/ task.HaveBlock)
                        THEN task.HaveBlock ELSE have1]

ActiveTasks(p, k) ==
    {a.task : a \in {b \in active : b.peer = p /\ b.key = k}}

\* A push is skipped when the active tasks for the key already say as much.
SaysNothingNew(p, k, task) ==
    /\ ActiveTasks(p, k) # {}
    /\ ~HasNewInfo(task, ActiveTasks(p, k))

\* PushTasksTruncated for the tasks of `new' (NoTask where there is none):
\* a task is skipped, merged with the pending one for its key, or queued if
\* the peer has fewer than MaxWants pending; `queued' are those that are.
PushTasks(p, new, queued) ==
    LET pushed == {k \in Key : new[k] # NoTask /\ ~SaysNothingNew(p, k, new[k])}
        fresh  == {k \in pushed : pending[p][k] = NoTask}
        before == {k \in Key : pending[p][k] # NoTask}
        room   == MaxWants - Cardinality(before)
    IN /\ queued \subseteq fresh
       /\ IF room >= Cardinality(fresh) THEN queued = fresh
                                        ELSE Cardinality(queued) = room
       /\ pending' = [pending EXCEPT ![p] = [k \in Key |->
             IF k \in queued THEN new[k]
             ELSE IF k \in pushed \ fresh THEN Merge(new[k], pending[p][k])
             ELSE pending[p][k]]]

\* A task that says at least as much as a want of this type asks for.
Enough(task, type) == task.HaveBlock /\ (type = "block" => task.IsWantBlock)

\* A worker holds such a task, and will still act on it or is carrying it out.
InHand(p, k, type) ==
    \E a \in active :
        /\ a.peer = p /\ a.key = k /\ Enough(a.task, type)
        /\ \/ hand[a.by].pc = "popped"
           \/ /\ hand[a.by].pc = "ready"
              /\ k \in hand[a.by].blocks \cup hand[a.by].haves

\* The keys whose push came to nothing although no answer is on its way.
Missed(p, new, queued) ==
    {k \in Key : /\ new[k] # NoTask
                 /\ new[k].HaveBlock
                 /\ IF SaysNothingNew(p, k, new[k])
                    THEN ~InHand(p, k, ledger.cids[k][p])
                    ELSE pending[p][k] = NoTask /\ k \notin queued}

-----------------------------------------------------------------------------
(* The handler of a peer's messages.                                       *)

Idle == [pc |-> "idle"]

\* Mutant: a want-have is answered with the block.
sendAsBlockAlways(type) == type \in WantType

\* sendAsBlock: only a want-block is answered with the block.
sendAsBlock(type) == type = "block"

\* The first part of MessageReceived, up to the size lookup: the wants the
\* filter lets through, and which of them are in the blockstore now.  When
\* the lookup fails the message is abandoned.
ReceiveMessage(p, m) ==
    /\ Event
    /\ conn[p] = "up"
    /\ rx[p] = Idle
    /\ \/ /\ LET allowed == {k \in Key : m.want[k] # NoWant /\ <<p, k>> \notin Denied}
             IN rx' = [rx EXCEPT ![p] = [pc |-> "sized", msg |-> m, wants |-> allowed,
                                         found |-> allowed \cap store]]
          /\ asked' = asked \cup {<<p, k>> : k \in {k \in Key : m.want[k] = "block"}}
       \/ UNCHANGED <<rx, asked>>
    /\ UNCHANGED <<ledger, pending, active, hand, notify, store, conn,
                   emptied, missed>>

\* The wants that go in the ledger: they are truncated to the room it has,
\* and those that are too long are skipped.
Accepted(p, wants, l, kept) ==
    LET s == Cardinality(WantlistForPeer(l, p))
    IN \E truncated \in SUBSET wants :
         /\ IF s + Cardinality(wants) > MaxWants
            THEN Cardinality(truncated) = IF s > MaxWants THEN 0 ELSE MaxWants - s
            ELSE truncated = wants
         /\ kept = truncated \ Oversized

\* The entries of the message one after the other: `kept' are the wants that
\* are accepted, `recorded' and `cancelled' the wants and cancels that are
\* carried out, `dropped' the pending tasks a cancel takes away.  An identity
\* CID ends the loop where it is met, after any part of the entries
\* before it, and the connection is to be killed.
Process(p, kept, recorded, cancelled, dropped) ==
    LET m == rx[p].msg
        l == IF m.full THEN ClearPeerWantlist(ledger, p) ELSE ledger
        wanted == Wants(l, p, m.want, recorded)
        broken == (kept \cup m.cancel) \cap Identity # {}
    IN /\ Accepted(p, rx[p].wants, l, kept)
       /\ recorded \subseteq kept \ Identity
       /\ kept \cap Identity = {} => recorded = kept
       /\ cancelled \subseteq m.cancel \ (Identity \cup Oversized)
       /\ kept \cap Identity # {} => cancelled = {}
       /\ ~broken => cancelled = m.cancel \ Oversized
       /\ dropped \in CancelWantFound(wanted, p, cancelled)
       /\ ledger' = CancelWant(wanted, p, cancelled)
       /\ pending' = [pending EXCEPT ![p] = [k \in Key |->
                        IF k \in dropped THEN NoTask ELSE @[k]]]
       /\ rx' = [rx EXCEPT ![p] =
                   IF broken THEN [pc |-> "kill"]
                   ELSE [@ EXCEPT !.pc = "ledgered", !.wants = kept]]
       /\ missed' = (missed \ ({p} \X recorded)) \cup
                    ({p} \X {k \in recorded : /\ k \notin rx[p].found \/ broken
                                              /\ k \in store
                                              /\ notify[k].pc # "stored"})

\* The part of MessageReceived under e.lock.
UpdateLedger(p) ==
    /\ rx[p].pc = "sized"
    /\ \E kept \in SUBSET rx[p].wants, recorded \in SUBSET rx[p].wants,
          cancelled \in SUBSET rx[p].msg.cancel, dropped \in SUBSET rx[p].msg.cancel :
         Process(p, kept, recorded, cancelled, dropped)
    /\ emptied' = IF rx[p].msg.full THEN emptied \cup {p} ELSE emptied
    /\ UNCHANGED <<active, hand, notify, store, conn, asked, events>>

\* The tasks MessageReceived makes: DONT_HAVE for what is denied or was not
\* found, if the peer wants to be told, a HAVE or the block for the rest.
TasksFor(p) ==
    LET m == rx[p].msg
    IN [k \in Key |->
          IF k \in rx[p].wants \cap rx[p].found
          THEN [HaveBlock |-> TRUE, IsWantBlock |-> sendAsBlock(m.want[k]),
                SendDontHave |-> m.sendDontHave]
          ELSE IF /\ m.sendDontHave
                  /\ \/ k \in rx[p].wants
                     \/ m.want[k] # NoWant /\ <<p, k>> \in Denied
          THEN [HaveBlock |-> FALSE, IsWantBlock |-> m.want[k] = "block",
                SendDontHave |-> TRUE]
          ELSE NoTask]

\* The rest of MessageReceived.
PushAnswers(p) ==
    /\ rx[p].pc = "ledgered"
    /\ \E queued \in SUBSET Key :
         /\ PushTasks(p, TasksFor(p), queued)
         /\ missed' = missed \cup ({p} \X Missed(p, TasksFor(p), queued))
    /\ rx' = [rx EXCEPT ![p] = Idle]
    /\ UNCHANGED <<ledger, active, hand, notify, store, conn, asked, emptied, events>>

\* ReceiveMessage, when MessageReceived said the connection must be killed.
KillConnection(p) ==
    /\ rx[p].pc = "kill"
    /\ rx' = [rx EXCEPT ![p] = Idle]
    /\ conn' = [conn EXCEPT ![p] = IF @ = "up" THEN "lost" ELSE @]
    /\ UNCHANGED <<ledger, pending, active, hand, notify, store, asked,
                   emptied, missed, events>>

-----------------------------------------------------------------------------
(* New blocks.                                                             *)

\* The caller stores the block and then calls NotifyNewBlocks.
StoreBlock(k) ==
    /\ Event
    /\ notify[k].pc = "none"
    /\ store' = store \cup {k}
    /\ notify' = [notify EXCEPT ![k].pc = "stored"]
    /\ UNCHANGED <<ledger, pending, active, rx, hand, conn, asked, emptied, missed>>

DeleteBlock(k) ==
    /\ Event
    /\ k \in store
    /\ store' = store \ {k}
    /\ UNCHANGED <<ledger, pending, active, rx, hand, notify, conn, asked,
                   emptied, missed>>

\* NotifyNewBlocks, under the read lock: who waits for the block.
ReadWaiting(k) ==
    /\ notify[k].pc = "stored"
    /\ notify' = [notify EXCEPT ![k] = [pc |-> "read",
                    todo |-> {<<p, ledger.cids[k][p]>> : p \in PeersOf(ledger, k)}]]
    /\ UNCHANGED <<ledger, pending, active, rx, hand, store, conn, asked,
                   emptied, missed, events>>

\* NotifyNewBlocks, after it: one peer that waits gets its task.
NotifyPeer(k) ==
    /\ \E entry \in notify[k].todo, queued \in SUBSET Key :
         LET p   == entry[1]
             new == [c \in Key |-> IF c # k THEN NoTask ELSE
                       [HaveBlock |-> TRUE, SendDontHave |-> FALSE,
                        IsWantBlock |-> sendAsBlock(entry[2])]]
         IN /\ PushTasks(p, new, queued)
            /\ missed' = (missed \ {<<p, c>> : c \in {k} \cap
                                      {c \in Key : ledger.cids[c][p] = entry[2]}})
                         \cup ({p} \X Missed(p, new, queued))
            /\ notify' = [notify EXCEPT ![k].todo = @ \ {entry}]
    /\ UNCHANGED <<ledger, active, rx, hand, store, conn, asked, emptied, events>>

NotifyDone(k) ==
    /\ notify[k].pc = "read" /\ notify[k].todo = {}
    /\ notify' = [notify EXCEPT ![k].pc = "none"]
    /\ UNCHANGED <<ledger, pending, active, rx, hand, store, conn, asked,
                   emptied, missed, events>>

-----------------------------------------------------------------------------
(* The workers.                                                            *)

EmptyHanded == [pc |-> "idle"]

Held(w) == {a \in active : a.by = w}

\* nextEnvelope: PopTasks gives some of the tasks of some peer.
PopTasks(w) ==
    /\ hand[w] = EmptyHanded
    /\ \E p \in Peer : \E ks \in SUBSET {k \in Key : pending[p][k] # NoTask} :
         /\ ks # {}
         /\ active' = active \cup
              {[by |-> w, peer |-> p, key |-> k, task |-> pending[p][k]] : k \in ks}
         /\ pending' = [pending EXCEPT ![p] = [k \in Key |->
                          IF k \in ks THEN NoTask ELSE @[k]]]
         /\ hand' = [hand EXCEPT ![w] = [pc |-> "popped", peer |-> p]]
    /\ UNCHANGED <<ledger, rx, notify, store, conn, asked, emptied, missed, events>>

TasksDone(w) ==
    /\ active' = active \ Held(w)
    /\ hand' = [hand EXCEPT ![w] = EmptyHanded]

\* Mutant: an empty message is dropped without giving its tasks back.
MakeEnvelopeLeaks(w) ==
    /\ hand[w].pc = "popped"
    /\ hand' = [hand EXCEPT ![w] = EmptyHanded]
    /\ UNCHANGED <<ledger, pending, active, rx, notify, store, conn, asked,
                   emptied, missed, events>>

\* nextEnvelope: fetch the blocks and fill the message; one with nothing in
\* it is not sent, and its tasks are given back.
MakeEnvelope(w) ==
    /\ hand[w].pc = "popped"
    /\ LET tasks  == Held(w)
           blocks == {a.key : a \in {a \in tasks : /\ a.task.HaveBlock
                                                   /\ a.task.IsWantBlock
                                                   /\ a.key \in store}}
           haves  == {a.key : a \in {a \in tasks : /\ a.task.HaveBlock
                                                   /\ ~a.task.IsWantBlock}}
           donts  == {a.key : a \in {a \in tasks :
                        \/ ~a.task.HaveBlock
                        \/ /\ a.task.IsWantBlock
                           /\ a.key \notin store
                           /\ a.task.SendDontHave}}
       IN IF blocks \cup haves \cup donts = {}
          THEN TasksDone(w)
          ELSE /\ hand' = [hand EXCEPT ![w] =
                             [pc |-> "ready", peer |-> @.peer, blocks |-> blocks,
                              haves |-> haves, donts |-> donts]]
               /\ UNCHANGED active
    /\ UNCHANGED <<ledger, pending, rx, notify, store, conn, asked, emptied, missed, events>>

\* MessageSent, which the server calls before it sends: what the peer is about
\* to be told is no longer wanted by it.
MessageSent(w) ==
    /\ hand[w].pc = "ready"
    /\ LET p == hand[w].peer
       IN ledger' = CancelWantWithType(
                      CancelWantWithType(ledger, p, hand[w].blocks, "block"),
                      p, hand[w].haves, "have")
    /\ hand' = [hand EXCEPT ![w].pc = "sent"]
    /\ UNCHANGED <<pending, active, rx, notify, store, conn, asked, emptied, missed, events>>

\* sendBlocks: whether or not the message gets through, Sent gives the tasks
\* back.
SendBlocks(w) ==
    /\ hand[w].pc = "sent"
    /\ TasksDone(w)
    /\ UNCHANGED <<ledger, pending, rx, notify, store, conn, asked, emptied, missed, events>>

-----------------------------------------------------------------------------
(* Connections.                                                            *)

PeerConnected(p) ==
    /\ conn[p] = "down"
    /\ conn' = [conn EXCEPT ![p] = "up"]
    /\ UNCHANGED <<ledger, pending, active, rx, hand, notify, store, asked,
                   emptied, missed, events>>

ConnectionLost(p) ==
    /\ Event
    /\ conn[p] = "up"
    /\ conn' = [conn EXCEPT ![p] = "lost"]
    /\ UNCHANGED <<ledger, pending, active, rx, hand, notify, store, asked,
                   emptied, missed>>

\* PeerDisconnected clears the queue before it takes e.lock ...
ClearQueue(p) ==
    /\ conn[p] = "lost"
    /\ pending' = [pending EXCEPT ![p] = [k \in Key |-> NoTask]]
    /\ conn' = [conn EXCEPT ![p] = "cleared"]
    /\ UNCHANGED <<ledger, active, rx, hand, notify, store, asked, emptied, missed, events>>

\* ... and the ledger under it.
ForgetPeer(p) ==
    /\ conn[p] = "cleared"
    /\ ledger' = PeerDisconnected(ledger, p)
    /\ conn' = [conn EXCEPT ![p] = "down"]
    /\ emptied' = emptied \ {p}
    /\ UNCHANGED <<pending, active, rx, hand, notify, store, asked, missed, events>>

-----------------------------------------------------------------------------
Init ==
    /\ ledger = newPeerLedger
    /\ pending = [p \in Peer |-> [k \in Key |-> NoTask]]
    /\ active = {}
    /\ rx = [p \in Peer |-> Idle]
    /\ hand = [w \in Worker |-> EmptyHanded]
    /\ notify = [k \in Key |-> [pc |-> "none", todo |-> {}]]
    /\ store \in SUBSET (Key \ Identity)
    /\ conn = [p \in Peer |-> "up"]
    /\ asked = {} /\ emptied = {} /\ missed = {} /\ events = 0

Next ==
    \/ \E p \in Peer, m \in Message : ReceiveMessage(p, m)
    \/ \E p \in Peer : UpdateLedger(p) \/ PushAnswers(p) \/ KillConnection(p)
    \/ \E k \in Key \ Identity : StoreBlock(k) \/ DeleteBlock(k)
    \/ \E k \in Key : ReadWaiting(k) \/ NotifyPeer(k) \/ NotifyDone(k)
    \/ \E w \in Worker : \/ PopTasks(w) \/ MakeEnvelope(w)
                         \/ MessageSent(w) \/ SendBlocks(w)
    \/ \E p \in Peer : \/ PeerConnected(p) \/ ConnectionLost(p)
                       \/ ClearQueue(p) \/ ForgetPeer(p)

Spec == Init /\ [][Next]_vars

-----------------------------------------------------------------------------
(* Properties.                                                             *)

\* The shape of the state.
TypeOK ==
    /\ ledger \in Ledger
    /\ pending \in [Peer -> [Key -> Task \cup {NoTask}]]
    /\ active \subseteq [by : Worker, peer : Peer, key : Key, task : Task]
    /\ rx \in [Peer -> {Idle} \cup [pc : {"kill"}] \cup
                 [pc : {"sized", "ledgered"}, msg : Message,
                  wants : SUBSET Key, found : SUBSET Key]]
    /\ hand \in [Worker -> {EmptyHanded} \cup [pc : {"popped"}, peer : Peer] \cup
                   [pc : {"ready", "sent"}, peer : Peer, blocks : SUBSET Key,
                    haves : SUBSET Key, donts : SUBSET Key]]
    /\ notify \in [Key -> [pc : {"none", "stored", "read"},
                          todo : SUBSET (Peer \X WantType)]]
    /\ store \subseteq Key
    /\ conn \in [Peer -> {"up", "lost", "cleared", "down"}]
    /\ asked \subseteq Peer \X Key
    /\ emptied \subseteq Peer
    /\ events \in 0..MaxEvents
    /\ missed \subseteq Peer \X Key

\* A block goes only to a peer that sent a want-block for it: this network
\* answers a want-have with a HAVE however small the block is (sendAsBlock),
\* and neither a merge of tasks nor an announcement may turn one into the
\* other.  Of a key the request filter denies the peer learns nothing.
OnlyAskedFor ==
    \A w \in Worker : hand[w].pc \in {"ready", "sent"} =>
        /\ \A k \in hand[w].blocks : <<hand[w].peer, k>> \in asked \ Denied
        /\ \A k \in hand[w].haves : <<hand[w].peer, k>> \notin Denied

\* The two maps of the ledger are inversions of each other, except for a peer
\* that has sent a full wantlist: ClearPeerWantlist leaves the old keys in the
\* map by peer, and only there.
LedgerInverse ==
    \A p \in Peer, k \in Key :
        /\ ledger.cids[k][p] # NoWant => ledger.peers[p][k] = ledger.cids[k][p]
        /\ p \notin emptied => ledger.peers[p][k] = ledger.cids[k][p]

\* The block is on its way, or the peer withdraws, replaces or loses the want.
MayDrop(p, k) ==
    \/ \E w \in Worker : /\ hand[w].pc = "ready" /\ hand[w].peer = p
                         /\ k \in hand[w].blocks
    \/ /\ rx[p].pc = "sized"
       /\ \/ rx[p].msg.full \/ k \in rx[p].msg.cancel
          \/ rx[p].msg.want[k] = "have"
    \/ conn[p] = "cleared"

\* A want-block stays until the block is on its way, or its peer withdraws,
\* replaces or loses it: a HAVE that crosses the upgrade does not remove it.
WantBlockKept ==
    [][\A p \in Peer, k \in Key :
         ledger.cids[k][p] = "block" /\ ledger'.cids[k][p] # "block" =>
            MayDrop(p, k)]_vars

\* The tasks the queue counts as active are in the hands of a worker that is
\* working on them: one left behind would silence every later task for its key.
ActiveHeld ==
    \A a \in active : hand[a.by].pc # "idle" /\ hand[a.by].peer = a.peer

\* Something that says as much as the want asks for is still to go out.
Answering(p, k) ==
    LET type == ledger.cids[k][p]
    IN \/ pending[p][k] # NoTask /\ Enough(pending[p][k], type)
       \/ InHand(p, k, type)
       \/ notify[k].pc = "stored"
       \/ <<p, type>> \in notify[k].todo
       \/ rx[p].pc = "ledgered" /\ k \in rx[p].wants \cap rx[p].found

\* A connected peer that waits for a block the node has is being answered,
\* unless the want was missed: the block came between the size lookup and the
\* ledger entry, the queue had no room for the task, or the task was skipped
\* for one a worker had already settled.
WaitingAreAnswered ==
    \A p \in Peer, k \in Key :
        (/\ conn[p] = "up" /\ k \in store /\ ledger.cids[k][p] # NoWant
         /\ <<p, k>> \notin missed) => Answering(p, k)
=============================================================================
