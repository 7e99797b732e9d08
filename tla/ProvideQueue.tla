---------------------------- MODULE ProvideQueue ----------------------------
(***************************************************************************)
(* The queue of cids to announce (provider/queue/queue.go): a goroutine    *)
(* that keeps the queue in the datastore, under keys made of a counter and *)
(* of the cid at the head, and hands its head to whoever receives.  The    *)
(* counter starts at zero with every NewQueue; what an earlier queue left  *)
(* in the datastore is still there.                                        *)
(***************************************************************************)
EXTENDS Naturals, Sequences, FiniteSets

CONSTANTS
    ProvCid,        \* the cids, numbered in the order of their strings
    MaxEnqueues,    \* bound on the counter of one queue
    MaxQueued       \* bound on the entries in the datastore

ASSUME ProvCidAssumption == ProvCid \subseteq Nat \ {0}

VARIABLES
    queue,          \* the entries in the datastore: [n, head, cid]
    counter,
    held,           \* the entry the goroutine offers
    working,        \* the goroutine runs; dequeue is open
    owed,           \* history: the cids stored and not handed out, in order
    mode            \* history: has a new queue found old entries, and added some

queueVars == <<queue, counter, held, working, owed, mode>>

\* cid.Undef, whose string sorts before every other.
Undef == 0
NoEntry == [n |-> 0, head |-> Undef, cid |-> Undef]

SameKey(d, e) == d.n = e.n /\ d.head = e.head
Without(q, e) == {d \in q : ~SameKey(d, e)}

\* getQueueHead: the entry whose key sorts first.
getQueueHead(q) ==
    IF q = {} THEN NoEntry
    ELSE CHOOSE e \in q : \A d \in q : e.n < d.n \/ (e.n = d.n /\ e.head <= d.head)

\* The loop reads the head only when it offers nothing.
Offer(q, h) == IF h # NoEntry THEN h ELSE getQueueHead(q)

\* Old and new entries are mixed until the queue has been empty.
ModeAfter(q, h) == IF q = {} /\ h = NoEntry THEN "fresh" ELSE mode

\* The goroutine takes a cid and stores it.  The caller has been told that
\* all is well; a Put that fails is logged, whether it had its effect or not.
Enqueue(c) ==
    LET entry == [n |-> counter, head |-> held.cid, cid |-> c]
    IN /\ working /\ counter < MaxEnqueues /\ Cardinality(queue) < MaxQueued
       /\ counter' = counter + 1
       /\ mode' = IF mode = "left" THEN "mixed" ELSE mode
       /\ \E kept \in BOOLEAN :
            /\ queue' = IF kept THEN Without(queue, entry) \cup {entry} ELSE queue
            /\ owed' = IF mode' = "mixed" THEN <<>>
                       ELSE IF kept THEN Append(owed, c) ELSE owed
       /\ held' = Offer(queue', held)
       /\ UNCHANGED working

\* Mutant: an entry is given up for deleted though Delete failed.
HandOverForgets(c) ==
    /\ working /\ held # NoEntry /\ c = held.cid
    /\ \E gone \in BOOLEAN :
         /\ queue' = IF gone THEN Without(queue, held) ELSE queue
         /\ held' = Offer(queue', NoEntry)
    /\ mode' = ModeAfter(queue', held')
    /\ owed' = IF mode' = "mixed" \/ owed = <<>> THEN <<>> ELSE Tail(owed)
    /\ UNCHANGED <<counter, working>>

\* A receiver takes the cid offered.  When Delete fails the same entry is
\* offered again.
HandOver(c) ==
    /\ working /\ held # NoEntry /\ c = held.cid
    /\ \E gone \in BOOLEAN, ok \in BOOLEAN :
         /\ ok => gone
         /\ queue' = IF gone THEN Without(queue, held) ELSE queue
         /\ held' = Offer(queue', IF ok THEN NoEntry ELSE held)
         /\ mode' = ModeAfter(queue', held')
         /\ owed' = IF mode' = "mixed" \/ owed = <<>> THEN <<>>
                    ELSE IF ok THEN Tail(owed) ELSE owed
    /\ UNCHANGED <<counter, working>>

\* Close, or the head cannot be read: the goroutine ends and closes dequeue.
QueueStops ==
    /\ working /\ working' = FALSE
    /\ UNCHANGED <<queue, counter, held, owed, mode>>

\* NewQueue over the same datastore.
NewQueue ==
    /\ ~working /\ working' = TRUE
    /\ counter' = 0
    /\ held' = getQueueHead(queue)
    /\ mode' = IF queue = {} THEN "fresh" ELSE IF mode = "fresh" THEN "left" ELSE mode
    /\ owed' = IF held # NoEntry /\ held \notin queue /\ owed # <<>> THEN Tail(owed) ELSE owed
    /\ UNCHANGED queue

QueueInit ==
    /\ queue = {} /\ counter = 0 /\ held = NoEntry /\ working = TRUE
    /\ owed = <<>> /\ mode = "fresh"

-----------------------------------------------------------------------------
\* "FIFO interface": what the queue offers is the oldest of the cids stored
\* and not yet handed out, across failing writes and restarts; except once a
\* new queue has added entries to those an earlier one left.  The counter
\* starts again at zero: new entries come before the old ones and may even
\* replace them.
FirstInFirstOut ==
    working /\ mode # "mixed" =>
        IF held = NoEntry THEN owed = <<>> ELSE owed # <<>> /\ held.cid = Head(owed)
=============================================================================
