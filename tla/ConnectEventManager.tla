------------------------- MODULE ConnectEventManager -------------------------
(***************************************************************************)
(* bitswap/network/connecteventmanager.go: the object between the libp2p   *)
(* notifications and bitswap's PeerConnected / PeerDisconnected.  Any      *)
(* goroutine records the latest state of a peer; one worker goroutine      *)
(* drains a queue of changed peers and calls the listeners with the lock   *)
(* released, so the state may move on while a listener is being told.      *)
(*                                                                         *)
(* One action is one critical section of c.lk.  A peer that is not in the  *)
(* Go map has the zero value of peerState in newState, curState, pending.  *)
(***************************************************************************)
EXTENDS Naturals, Sequences

CONSTANTS
    Peer,           \* the remote peers
    NoPeer,         \* the empty peer.ID
    NumListeners    \* len(connListeners)

ASSUME NoPeerAssumption == NoPeer \notin Peer
ASSUME NumListenersAssumption == NumListeners \in Nat \ {0}

VARIABLES
    peers,          \* the keys of c.peers
    newState,       \* peerState.newState: what the network last reported
    curState,       \* peerState.curState: what the worker last applied
    pending,        \* peerState.pending: the peer is in changeQueue
    changeQueue,
    stop,
    workerPc,       \* "wait" (in waitChange), "call" (telling listeners), "done"
    callPeer,       \* the peer the worker is telling the listeners about
    callConnected,  \* TRUE for PeerConnected, FALSE for PeerDisconnected
    callNext,       \* index of the next listener to tell
    onMessage,      \* peers with an OnMessage call between its two lockings
    told,           \* listener -> the peers it believes to be connected
    linked          \* history: the peers with a connection, as libp2p told it

eventVars == <<peers, newState, curState, pending, changeQueue, stop, workerPc,
          callPeer, callConnected, callNext, onMessage, told, linked>>

Disconnected == "disconnected"
Responsive == "responsive"
Unresponsive == "unresponsive"
State == {Disconnected, Responsive, Unresponsive}
Listener == 1 .. NumListeners

workerVars == <<workerPc, callPeer, callConnected, callNext, told>>

EventsInit ==
    /\ peers = {}
    /\ newState = [p \in Peer |-> Disconnected]
    /\ curState = [p \in Peer |-> Disconnected]
    /\ pending = [p \in Peer |-> FALSE]
    /\ changeQueue = <<>>
    /\ stop = FALSE
    /\ workerPc = "wait"
    /\ callPeer = NoPeer
    /\ callConnected = FALSE
    /\ callNext = 1
    /\ onMessage = {}
    /\ told = [l \in Listener |-> {}]
    /\ linked = {}

-----------------------------------------------------------------------------
(* setState, called with c.lk held.                                        *)

SetState(p, s) ==
    /\ peers' = peers \cup {p}
    /\ newState' = [newState EXCEPT ![p] = s]
    /\ IF ~pending[p] /\ s # curState[p]
       THEN /\ pending' = [pending EXCEPT ![p] = TRUE]
            /\ changeQueue' = Append(changeQueue, p)
       ELSE UNCHANGED <<pending, changeQueue>>

EnqueueFrame == UNCHANGED <<curState, stop, workerVars>>

\* The early return of the notifications: nothing is recorded.
NoNews == UNCHANGED <<peers, newState, pending, changeQueue>>

\* Connected(p): a connection was opened, not necessarily the first.
Connected(p) ==
    /\ linked' = linked \cup {p}
    /\ IF newState[p] = Responsive THEN NoNews ELSE SetState(p, Responsive)
    /\ EnqueueFrame
    /\ UNCHANGED onMessage

\* Disconnected(p): the last connection was dropped.
PeerGone(p) ==
    /\ p \in linked
    /\ linked' = linked \ {p}
    /\ IF newState[p] = Disconnected THEN NoNews ELSE SetState(p, Disconnected)
    /\ EnqueueFrame
    /\ UNCHANGED onMessage

\* MarkUnresponsive(p): sending to p failed repeatedly.
MarkUnresponsive(p) ==
    /\ newState[p] = Responsive
    /\ SetState(p, Unresponsive)
    /\ EnqueueFrame
    /\ UNCHANGED <<onMessage, linked>>

\* OnMessage(p), first part: the check under the read lock.
OnMessageCheck(p) ==
    /\ newState[p] = Unresponsive
    /\ onMessage' = onMessage \cup {p}
    /\ NoNews
    /\ EnqueueFrame
    /\ UNCHANGED linked

\* Faulty variant: the second part without the second check.
OnMessageSetUnchecked(p) ==
    /\ p \in onMessage
    /\ onMessage' = onMessage \ {p}
    /\ SetState(p, Responsive)
    /\ EnqueueFrame
    /\ UNCHANGED linked

\* OnMessage(p), second part: under the write lock the state is checked again.
OnMessageSet(p) ==
    /\ p \in onMessage
    /\ onMessage' = onMessage \ {p}
    /\ IF newState[p] = Unresponsive THEN SetState(p, Responsive) ELSE NoNews
    /\ EnqueueFrame
    /\ UNCHANGED linked

\* Stop(): the caller then waits for the worker to close c.done.
Stop ==
    /\ ~stop
    /\ stop' = TRUE
    /\ UNCHANGED <<peers, newState, curState, pending, changeQueue, onMessage,
                   linked, workerVars>>

-----------------------------------------------------------------------------
(* The worker.                                                             *)

StartCall(p, connected) ==
    /\ workerPc' = "call"
    /\ callPeer' = p
    /\ callConnected' = connected
    /\ callNext' = 1

NoCall == UNCHANGED <<workerPc, callPeer, callConnected, callNext>>

\* Faulty variant: unresponsive -> disconnected triggers a disconnect event.
ApplyAlways(p, old, new) == StartCall(p, new = Responsive)

\* Which listener calls follow when the worker moves p from old to new.
Apply(p, old, new) ==
    IF new = Responsive \/ old = Responsive
    THEN StartCall(p, new = Responsive)
    ELSE NoCall

\* Faulty variant: the worker forgets to record that the peer has left the queue.
TakeKeepsPending ==
    /\ workerPc = "wait"
    /\ ~stop
    /\ changeQueue # <<>>
    /\ LET p == Head(changeQueue) IN
       /\ changeQueue' = Tail(changeQueue)
       /\ IF p \notin peers \/ curState[p] = newState[p]
          THEN UNCHANGED <<peers, curState>> /\ NoCall
          ELSE /\ curState' = [curState EXCEPT ![p] = newState[p]]
               /\ peers' = IF newState[p] = Disconnected
                           THEN peers \ {p} ELSE peers
               /\ Apply(p, curState[p], newState[p])
    /\ UNCHANGED <<pending, newState, stop, onMessage, told, linked>>

\* One round of the worker's loop up to the point where it unlocks: take the
\* head of the queue, apply its state, and decide which listener calls follow.
TakeChange ==
    /\ workerPc = "wait"
    /\ ~stop
    /\ changeQueue # <<>>
    /\ LET p == Head(changeQueue) IN
       /\ changeQueue' = Tail(changeQueue)
       /\ IF p \notin peers
          THEN UNCHANGED <<peers, pending, curState>> /\ NoCall
          ELSE /\ pending' = [pending EXCEPT ![p] = FALSE]
               /\ IF curState[p] = newState[p]
                  THEN UNCHANGED <<peers, curState>> /\ NoCall
                  ELSE /\ curState' = [curState EXCEPT ![p] = newState[p]]
                       /\ peers' = IF newState[p] = Disconnected
                                   THEN peers \ {p} ELSE peers
                       /\ Apply(p, curState[p], newState[p])
    /\ UNCHANGED <<newState, stop, onMessage, told, linked>>

\* One call to a listener, with c.lk released.
NotifyListener ==
    /\ workerPc = "call"
    /\ told' = [told EXCEPT ![callNext] =
                  IF callConnected THEN @ \cup {callPeer} ELSE @ \ {callPeer}]
    /\ IF callNext = NumListeners
       THEN /\ workerPc' = "wait"
            /\ callPeer' = NoPeer
            /\ callConnected' = FALSE
            /\ callNext' = 1
       ELSE /\ callNext' = callNext + 1
            /\ UNCHANGED <<workerPc, callPeer, callConnected>>
    /\ UNCHANGED <<peers, newState, curState, pending, changeQueue, stop,
                   onMessage, linked>>

\* Faulty variant: stop is only looked at once the queue is empty.
ExitWhenDrained ==
    /\ workerPc = "wait"
    /\ stop
    /\ changeQueue = <<>>
    /\ workerPc' = "done"
    /\ UNCHANGED <<peers, newState, curState, pending, changeQueue, stop,
                   callPeer, callConnected, callNext, onMessage, told, linked>>

\* waitChange returns false: the worker closes c.done.
Exit ==
    /\ workerPc = "wait"
    /\ stop
    /\ workerPc' = "done"
    /\ UNCHANGED <<peers, newState, curState, pending, changeQueue, stop,
                   callPeer, callConnected, callNext, onMessage, told, linked>>

EventWorker == TakeChange \/ NotifyListener \/ Exit

Network ==
    \E p \in Peer :
        \/ Connected(p)
        \/ PeerGone(p)
        \/ MarkUnresponsive(p)
        \/ OnMessageCheck(p)
        \/ OnMessageSet(p)

EventsNext == Network \/ Stop \/ EventWorker

(* The worker is a goroutine that only ever waits on c.cond and on the     *)
(* listeners it calls; both return.                                        *)
EventsSpec == EventsInit /\ [][EventsNext]_eventVars /\ WF_eventVars(EventWorker)

-----------------------------------------------------------------------------
(* Properties.                                                             *)

EventsTypeOK ==
    /\ peers \subseteq Peer
    /\ newState \in [Peer -> State]
    /\ curState \in [Peer -> State]
    /\ pending \in [Peer -> BOOLEAN]
    /\ changeQueue \in Seq(Peer)
    /\ stop \in BOOLEAN
    /\ workerPc \in {"wait", "call", "done"}
    /\ callPeer \in Peer \cup {NoPeer}
    /\ callConnected \in BOOLEAN
    /\ callNext \in Listener
    /\ onMessage \subseteq Peer
    /\ told \in [Listener -> SUBSET Peer]
    /\ linked \subseteq Peer

\* The change queue holds each peer at most once, exactly when its pending
\* flag says so, and only peers that are still tracked: the branch of worker()
\* that logs "a change was enqueued for a peer we're not tracking" is dead,
\* and no state change is left without an entry in the queue.
QueueExact ==
    /\ \A i, j \in 1 .. Len(changeQueue) :
          changeQueue[i] = changeQueue[j] => i = j
    /\ \A p \in Peer :
          pending[p] <=> \E i \in 1 .. Len(changeQueue) : changeQueue[i] = p
    /\ \A p \in Peer : pending[p] => p \in peers
    /\ \A p \in Peer : newState[p] # curState[p] => pending[p]

\* What the listeners believe is the state the worker last applied: a listener
\* that the worker is not about to call counts a peer as connected exactly
\* when its applied state is responsive, and a listener still to be called in
\* the current round has the opposite belief about the peer in question.
ListenersFollow ==
    \A l \in Listener, p \in Peer :
        IF workerPc = "call" /\ callPeer = p /\ l >= callNext
        THEN (p \in told[l]) <=> (curState[p] # Responsive)
        ELSE (p \in told[l]) <=> (curState[p] = Responsive)

\* PeerConnected and PeerDisconnected alternate for every listener and peer:
\* no listener is told twice in a row that a peer connected, or that it left.
EventsAlternate == [][NotifyListener => told'[callNext] # told[callNext]]_eventVars

\* The worker has a change of p queued, or is about to tell l about p.
NewsFor(l, p) ==
    \/ pending[p]
    \/ workerPc = "call" /\ callPeer = p /\ l >= callNext

\* A listener for which there is no news of a peer knows its connection.  It
\* does not count the peer as connected once the last connection is gone,
\* whatever messages, failures and notifications raced on the way, and a
\* disconnect between the two lockings of OnMessage in particular ("we can't
\* treat this as evidence of a connection").  And it does count a peer with a
\* connection, unless the peer is marked as unresponsive.
ConnectionsKnown ==
    \A l \in Listener, p \in Peer :
        ~NewsFor(l, p) =>
            (p \in told[l]) <=> (p \in linked /\ newState[p] # Unresponsive)

\* A peer whose reported state stops changing ends up, in the view of every
\* listener, connected exactly when that state is responsive, unless the
\* manager is stopped.
ListenersSettle ==
    \A p \in Peer, s \in State :
        <>[](newState[p] = s /\ ~stop)
            => <>[](\A l \in Listener : (p \in told[l]) <=> (s = Responsive))

\* Stop() returns: once the stop flag is up the worker closes c.done.
StopReturns == stop ~> (workerPc = "done")
=============================================================================
