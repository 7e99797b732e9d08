--------------------------- MODULE NetworkProofs ---------------------------
(***************************************************************************)
(* Proofs about the two components at the network.  The connect event      *)
(* manager, for any peers and listeners: the queue of changes is exact,    *)
(* and the listeners follow the states.  The provider query manager, for   *)
(* any requests, keys, providers, channel capacity and number of workers:  *)
(* channels are closed once, the run loop never waits for a listener,      *)
(* nobody waits for a channel that will not be closed, and who does not    *)
(* cancel reads every provider the query could connect to.                 *)
(***************************************************************************)
EXTENDS ConnectEventManager, ProviderQueryManager, TLAPS

(* The connect event manager: its inductive invariant.                     *)

\* While the worker is telling the listeners about a peer, that peer is a
\* real one and the event announced is the one its applied state calls for.
CallMatches ==
    workerPc = "call" =>
        /\ callPeer \in Peer
        /\ callConnected <=> (curState[callPeer] = Responsive)

\* The inductive invariant: the properties, and what the call in progress
\* carries.
EventsInv == EventsTypeOK /\ QueueExact /\ ListenersFollow /\ CallMatches

-----------------------------------------------------------------------------
\* Appending a peer that is not yet queued keeps the entries distinct and adds
\* exactly that peer.
LEMMA AppendDistinct ==
    ASSUME NEW q \in Seq(Peer), NEW p \in Peer,
           \A i, j \in 1 .. Len(q) : q[i] = q[j] => i = j,
           \A i \in 1 .. Len(q) : q[i] # p
    PROVE  /\ Append(q, p) \in Seq(Peer)
           /\ \A i, j \in 1 .. Len(Append(q, p)) :
                 Append(q, p)[i] = Append(q, p)[j] => i = j
           /\ \A r \in Peer :
                 (\E i \in 1 .. Len(Append(q, p)) : Append(q, p)[i] = r)
                   <=> (r = p \/ \E i \in 1 .. Len(q) : q[i] = r)
<1> DEFINE a == Append(q, p)
<1>1. /\ a \in Seq(Peer)
      /\ Len(a) = Len(q) + 1
      /\ a[Len(q) + 1] = p
      /\ \A i \in 1 .. Len(q) : a[i] = q[i]
  OBVIOUS
<1>2. 1 .. Len(a) = (1 .. Len(q)) \cup {Len(q) + 1}
  BY <1>1
<1> HIDE DEF a
<1>3. \A i, j \in 1 .. Len(a) : a[i] = a[j] => i = j
  BY <1>1, <1>2, Zenon
<1>4. \A r \in Peer : (\E i \in 1 .. Len(a) : a[i] = r)
                        <=> (r = p \/ \E i \in 1 .. Len(q) : q[i] = r)
  BY <1>1, <1>2, Zenon
<1> QED
  BY <1>1, <1>3, <1>4, Zenon DEF a

\* Taking the head of a queue of distinct peers removes exactly that peer.
LEMMA TailDistinct ==
    ASSUME NEW q \in Seq(Peer), q # <<>>,
           \A i, j \in 1 .. Len(q) : q[i] = q[j] => i = j
    PROVE  /\ Head(q) \in Peer
           /\ Head(q) = q[1] /\ 1 \in 1 .. Len(q)
           /\ Tail(q) \in Seq(Peer)
           /\ \A i, j \in 1 .. Len(Tail(q)) : Tail(q)[i] = Tail(q)[j] => i = j
           /\ \A r \in Peer :
                 (\E i \in 1 .. Len(Tail(q)) : Tail(q)[i] = r)
                   <=> (r # Head(q) /\ \E i \in 1 .. Len(q) : q[i] = r)
<1> DEFINE t == Tail(q)
<1>1. /\ t \in Seq(Peer)
      /\ Len(q) \in Nat /\ Len(q) > 0
      /\ Len(t) = Len(q) - 1
      /\ \A i \in 1 .. Len(t) : t[i] = q[i + 1]
      /\ Head(q) = q[1]
      /\ Head(q) \in Peer
  OBVIOUS
<1> HIDE DEF t
<1>2. \A i, j \in 1 .. Len(t) : t[i] = t[j] => i = j
  BY <1>1
<1>3. ASSUME NEW r \in Peer
      PROVE  (\E i \in 1 .. Len(t) : t[i] = r)
               <=> (r # Head(q) /\ \E i \in 1 .. Len(q) : q[i] = r)
  <2>1. ASSUME NEW i \in 1 .. Len(t), t[i] = r
        PROVE  r # Head(q) /\ \E k \in 1 .. Len(q) : q[k] = r
    BY <1>1, <2>1
  <2>2. ASSUME r # Head(q), NEW k \in 1 .. Len(q), q[k] = r
        PROVE  \E i \in 1 .. Len(t) : t[i] = r
    <3>1. k - 1 \in 1 .. Len(t) /\ t[k - 1] = q[(k - 1) + 1]
      BY <1>1, <2>2
    <3> QED
      BY <3>1, <2>2
  <2> QED
    BY <2>1, <2>2, Zenon
<1> QED
  BY <1>1, <1>2, <1>3 DEF t

-----------------------------------------------------------------------------
\* setState keeps the queue exact: the one place where peers are enqueued.
LEMMA SetStateQueue ==
    ASSUME EventsTypeOK, QueueExact, NEW p \in Peer, NEW s \in State,
           SetState(p, s), curState' = curState
    PROVE  /\ peers' \subseteq Peer
           /\ newState' \in [Peer -> State]
           /\ pending' \in [Peer -> BOOLEAN]
           /\ changeQueue' \in Seq(Peer)
           /\ QueueExact'
<1>1. CASE ~pending[p] /\ s # curState[p]
  <2>1. /\ changeQueue' = Append(changeQueue, p)
        /\ pending' = [pending EXCEPT ![p] = TRUE]
        /\ peers' = peers \cup {p}
        /\ newState' = [newState EXCEPT ![p] = s]
    BY <1>1, Zenon DEF SetState
  <2>2. \A i \in 1 .. Len(changeQueue) : changeQueue[i] # p
    BY <1>1, Zenon DEF QueueExact, EventsTypeOK
  <2>3. /\ changeQueue' \in Seq(Peer)
        /\ \A i, j \in 1 .. Len(changeQueue') :
              changeQueue'[i] = changeQueue'[j] => i = j
        /\ \A r \in Peer : (\E i \in 1 .. Len(changeQueue') : changeQueue'[i] = r)
              <=> (r = p \/ \E i \in 1 .. Len(changeQueue) : changeQueue[i] = r)
    BY <2>1, <2>2, AppendDistinct DEF QueueExact, EventsTypeOK
  <2>4. /\ peers' \subseteq Peer
        /\ newState' \in [Peer -> State]
        /\ pending' \in [Peer -> BOOLEAN]
    BY <2>1, Zenon DEF EventsTypeOK
  <2>5. \A r \in Peer : pending'[r] <=> (r = p \/ pending[r])
    BY <2>1, Zenon DEF EventsTypeOK
  <2>6. \A r \in Peer :
            pending'[r] <=> \E i \in 1 .. Len(changeQueue') : changeQueue'[i] = r
    BY <2>3, <2>5, Zenon DEF QueueExact
  <2>7. \A r \in Peer : pending'[r] => r \in peers'
    BY <2>1, <2>5, Zenon DEF QueueExact
  <2>8. \A r \in Peer : newState'[r] # curState'[r] => pending'[r]
    BY <2>1, <2>5 DEF QueueExact, EventsTypeOK
  <2> QED
    BY <2>3, <2>4, <2>6, <2>7, <2>8, Zenon DEF QueueExact
<1>2. CASE ~(~pending[p] /\ s # curState[p])
  <2>1. /\ UNCHANGED <<pending, changeQueue>>
        /\ peers' = peers \cup {p}
        /\ newState' = [newState EXCEPT ![p] = s]
    BY <1>2, Zenon DEF SetState
  <2>2. \A r \in Peer : newState'[r] # curState'[r] => pending'[r]
    BY <1>2, <2>1 DEF QueueExact, EventsTypeOK
  <2> QED
    BY <2>1, <2>2 DEF QueueExact, EventsTypeOK
<1> QED
  BY <1>1, <1>2, Zenon

\* A step that touches neither the worker nor the applied states keeps the
\* facts about them.
LEMMA WorkerUntouched ==
    ASSUME ListenersFollow, CallMatches, UNCHANGED <<curState, workerVars>>
    PROVE  ListenersFollow' /\ CallMatches'
BY DEF ListenersFollow, CallMatches, workerVars

\* A step of one of the callers, which goes through setState.
LEMMA NewChangeStep ==
    ASSUME EventsInv, NEW p \in Peer, NEW s \in State,
           SetState(p, s), EnqueueFrame, onMessage' \subseteq Peer,
           linked' \subseteq Peer
    PROVE  EventsInv'
<1>1. curState' = curState
  BY Zenon DEF EnqueueFrame
<1>2. /\ peers' \subseteq Peer
      /\ newState' \in [Peer -> State]
      /\ pending' \in [Peer -> BOOLEAN]
      /\ changeQueue' \in Seq(Peer)
      /\ QueueExact'
  BY <1>1, SetStateQueue, Zenon DEF EventsInv
<1>3. EventsTypeOK'
  BY <1>2, Zenon DEF EventsInv, EventsTypeOK, EnqueueFrame, workerVars
<1>4. ListenersFollow' /\ CallMatches'
  BY WorkerUntouched, Zenon DEF EventsInv, EnqueueFrame
<1> QED
  BY <1>2, <1>3, <1>4, Zenon DEF EventsInv

\* A step of one of the callers that records nothing.
LEMMA NoNewsStep ==
    ASSUME EventsInv, NoNews, EnqueueFrame, onMessage' \subseteq Peer,
           linked' \subseteq Peer
    PROVE  EventsInv'
<1>1. EventsTypeOK' /\ QueueExact'
  BY Zenon DEF NoNews, EnqueueFrame, workerVars, EventsInv, EventsTypeOK, QueueExact
<1> QED
  BY <1>1, WorkerUntouched, Zenon DEF EnqueueFrame, EventsInv

\* The worker's round up to the unlock.
LEMMA TakeStep ==
    ASSUME EventsInv, TakeChange
    PROVE  EventsInv'
<1> DEFINE p == Head(changeQueue)
<1>0. /\ changeQueue \in Seq(Peer)
      /\ changeQueue # <<>>
      /\ changeQueue' = Tail(changeQueue)
      /\ \A i, j \in 1 .. Len(changeQueue) :
            changeQueue[i] = changeQueue[j] => i = j
  BY Zenon DEF EventsInv, EventsTypeOK, QueueExact, TakeChange
<1>1. /\ p \in Peer
      /\ p = changeQueue[1] /\ 1 \in 1 .. Len(changeQueue)
      /\ changeQueue' \in Seq(Peer)
      /\ \A i, j \in 1 .. Len(changeQueue') :
            changeQueue'[i] = changeQueue'[j] => i = j
      /\ \A r \in Peer :
            (\E i \in 1 .. Len(changeQueue') : changeQueue'[i] = r)
              <=> (r # p /\ \E i \in 1 .. Len(changeQueue) : changeQueue[i] = r)
  BY <1>0, TailDistinct
<1>2. pending[p] /\ p \in peers
  BY <1>1, Zenon DEF EventsInv, QueueExact
<1> HIDE DEF p
<1>3. /\ workerPc = "wait"
      /\ pending' = [pending EXCEPT ![p] = FALSE]
      /\ UNCHANGED <<newState, stop, onMessage, told, linked>>
      /\ IF curState[p] = newState[p]
         THEN UNCHANGED <<peers, curState>> /\ NoCall
         ELSE /\ curState' = [curState EXCEPT ![p] = newState[p]]
              /\ peers' = IF newState[p] = Disconnected
                          THEN peers \ {p} ELSE peers
              /\ Apply(p, curState[p], newState[p])
  BY <1>2, Zenon DEF TakeChange, p
<1>4. /\ \A r \in Peer : pending'[r] <=> (r # p /\ pending[r])
      /\ \A r \in Peer : r # p => curState'[r] = curState[r]
      /\ curState'[p] = newState[p]
      /\ \A r \in Peer : r # p /\ r \in peers => r \in peers'
  BY <1>1, <1>3 DEF EventsInv, EventsTypeOK
<1>5. QueueExact'
  <2>1. \A r \in Peer :
            pending'[r] <=> \E i \in 1 .. Len(changeQueue') : changeQueue'[i] = r
    BY <1>1, <1>4 DEF EventsInv, QueueExact
  <2>2. \A r \in Peer : pending'[r] => r \in peers'
    BY <1>4, Zenon DEF EventsInv, QueueExact
  <2>3. \A r \in Peer : newState'[r] # curState'[r] => pending'[r]
    BY <1>3, <1>4, Zenon DEF EventsInv, QueueExact
  <2> QED
    BY <1>1, <2>1, <2>2, <2>3, Zenon DEF QueueExact
<1>6. EventsTypeOK'
  <2>1. 1 \in Listener
    BY NumListenersAssumption, SMTT(30) DEF Listener
  <2>2. \/ UNCHANGED <<workerPc, callPeer, callConnected, callNext>>
        \/ /\ workerPc' = "call" /\ callPeer' = p /\ callNext' = 1
           /\ callConnected' = (newState[p] = Responsive)
    BY <1>3, Zenon DEF Apply, StartCall, NoCall
  <2>3. /\ workerPc' \in {"wait", "call", "done"}
        /\ callPeer' \in Peer \cup {NoPeer}
        /\ callNext' \in Listener
    BY <1>1, <2>1, <2>2 DEF EventsInv, EventsTypeOK
  <2>4. callConnected' \in BOOLEAN
    BY <2>2, ZenonT(30) DEF EventsInv, EventsTypeOK
  <2>5. /\ peers' \subseteq Peer
        /\ curState' \in [Peer -> State]
        /\ pending' \in [Peer -> BOOLEAN]
    <3>1. /\ peers \subseteq Peer
          /\ curState \in [Peer -> State] /\ newState \in [Peer -> State]
          /\ pending \in [Peer -> BOOLEAN]
      BY Zenon DEF EventsInv, EventsTypeOK
    <3>2. peers' \subseteq Peer /\ pending' \in [Peer -> BOOLEAN]
      BY <1>3, <3>1, Zenon
    <3>3. curState' \in [Peer -> State]
      BY <1>1, <1>3, <3>1, SMT
    <3> QED
      BY <3>2, <3>3, Zenon
  <2> QED
    BY <1>1, <1>3, <2>3, <2>4, <2>5, Zenon DEF EventsInv, EventsTypeOK
<1>7. ListenersFollow' /\ CallMatches'
  <2>1. \A l \in Listener, r \in Peer :
            (r \in told[l]) <=> (curState[r] = Responsive)
    BY <1>3, Zenon DEF EventsInv, ListenersFollow
  <2>2. CASE workerPc' = "wait"
    <3>1. (curState'[p] = Responsive) <=> (curState[p] = Responsive)
      BY <1>3, <2>2, Zenon DEF Apply, StartCall, NoCall, EventsInv, EventsTypeOK
    <3> QED
      BY <1>3, <1>4, <2>1, <2>2, <3>1, Zenon DEF ListenersFollow, CallMatches
  <2>3. CASE workerPc' # "wait"
    <3>1. /\ workerPc' = "call"
          /\ callPeer' = p
          /\ callNext' = 1
          /\ callConnected' = (newState[p] = Responsive)
          /\ (curState'[p] = Responsive) <=> (curState[p] # Responsive)
      BY <1>3, <1>4, <2>3, Zenon DEF Apply, StartCall, NoCall
    <3>2. \A l \in Listener : l >= callNext'
      BY <3>1 DEF Listener
    <3>3. ASSUME NEW l \in Listener, NEW r \in Peer
          PROVE  IF r = p
                 THEN (r \in told'[l]) <=> (curState'[r] # Responsive)
                 ELSE (r \in told'[l]) <=> (curState'[r] = Responsive)
      BY <1>3, <1>4, <2>1, <3>1, Zenon
    <3>5. ListenersFollow'
      BY <3>1, <3>2, <3>3, Zenon DEF ListenersFollow
    <3>4. CallMatches'
      BY <1>1, <1>4, <3>1, Zenon DEF CallMatches
    <3> QED
      BY <3>5, <3>4, Zenon
  <2> QED
    BY <2>2, <2>3, Zenon
<1> QED
  BY <1>5, <1>6, <1>7, Zenon DEF EventsInv

\* A call to a listener moves exactly that listener to the applied state.
LEMMA NotifyStep ==
    ASSUME EventsInv, NotifyListener
    PROVE  EventsInv' /\ told'[callNext] # told[callNext]
<1>1. /\ workerPc = "call"
      /\ callPeer \in Peer
      /\ callNext \in Listener /\ callNext \in Nat
      /\ callConnected <=> (curState[callPeer] = Responsive)
  BY DEF NotifyListener, EventsInv, CallMatches, EventsTypeOK, Listener
<1>2. told' = [told EXCEPT ![callNext] =
                 IF callConnected THEN @ \cup {callPeer} ELSE @ \ {callPeer}]
  BY Zenon DEF NotifyListener
<1>3. UNCHANGED <<peers, newState, curState, pending, changeQueue, stop,
                  onMessage, linked>>
  BY Zenon DEF NotifyListener
<1>4. QueueExact'
  BY <1>3, Zenon DEF EventsInv, QueueExact
<1>5. /\ \A l \in Listener : l # callNext => told'[l] = told[l]
      /\ \A r \in Peer : r # callPeer =>
            ((r \in told'[callNext]) <=> (r \in told[callNext]))
      /\ (callPeer \in told'[callNext]) <=> (curState[callPeer] = Responsive)
      /\ told' \in [Listener -> SUBSET Peer]
  <2>1. /\ told \in [Listener -> SUBSET Peer]
        /\ told'[callNext] = IF callConnected
                             THEN told[callNext] \cup {callPeer}
                             ELSE told[callNext] \ {callPeer}
        /\ \A l \in Listener : l # callNext => told'[l] = told[l]
        /\ DOMAIN told' = Listener
    BY <1>1, <1>2, Zenon DEF EventsInv, EventsTypeOK
  <2>2. CASE callConnected
    BY <1>1, <1>2, <2>1, <2>2
  <2>3. CASE ~callConnected
    BY <1>1, <1>2, <2>1, <2>3, Zenon
  <2> QED
    BY <2>2, <2>3, Zenon
<1>6. (callPeer \in told[callNext]) <=> (curState[callPeer] # Responsive)
  BY <1>1 DEF EventsInv, ListenersFollow
<1>7. told'[callNext] # told[callNext]
  BY <1>5, <1>6, Zenon
<1>8. CASE callNext = NumListeners
  <2>1. workerPc' = "wait" /\ callPeer' = NoPeer /\ callNext' = 1
        /\ callConnected' = FALSE
    BY <1>8, Zenon DEF NotifyListener
  <2>2. 1 \in Listener
    BY NumListenersAssumption DEF Listener
  <2>3. EventsTypeOK'
    BY <1>3, <1>5, <2>1, <2>2, Zenon DEF EventsInv, EventsTypeOK
  <2>4. \A l \in Listener : l # callNext => ~(l >= callNext)
    BY <1>8, NumListenersAssumption DEF Listener
  <2>5. ASSUME NEW l \in Listener, NEW r \in Peer
        PROVE  (r \in told'[l]) <=> (curState'[r] = Responsive)
    BY <1>1, <1>3, <1>5, <2>4, Zenon DEF EventsInv, ListenersFollow
  <2>6. ListenersFollow' /\ CallMatches'
    BY <2>1, <2>5, Zenon DEF ListenersFollow, CallMatches
  <2> QED
    BY <1>4, <1>7, <2>3, <2>6, Zenon DEF EventsInv
<1>9. CASE callNext # NumListeners
  <2>1. callNext' = callNext + 1 /\ UNCHANGED <<workerPc, callPeer, callConnected>>
    BY <1>9, Zenon DEF NotifyListener
  <2>2. callNext + 1 \in Listener
    BY <1>1, <1>9, NumListenersAssumption DEF Listener
  <2>3. EventsTypeOK'
    BY <1>3, <1>5, <2>1, <2>2, Zenon DEF EventsInv, EventsTypeOK
  <2>4. \A l \in Listener : l >= callNext + 1 <=> (l >= callNext /\ l # callNext)
    BY <1>1 DEF Listener
  <2>5. ASSUME NEW l \in Listener, NEW r \in Peer
        PROVE  IF r = callPeer /\ l >= callNext + 1
               THEN (r \in told'[l]) <=> (curState'[r] # Responsive)
               ELSE (r \in told'[l]) <=> (curState'[r] = Responsive)
    BY <1>1, <1>3, <1>5, <2>4, Zenon DEF EventsInv, ListenersFollow
  <2>6. ListenersFollow'
    BY <1>1, <2>1, <2>5, Zenon DEF ListenersFollow
  <2>7. CallMatches'
    BY <1>1, <1>3, <2>1, Zenon DEF CallMatches
  <2> QED
    BY <1>4, <1>7, <2>3, <2>6, <2>7, Zenon DEF EventsInv
<1> QED
  BY <1>8, <1>9, Zenon

-----------------------------------------------------------------------------
\* The invariant holds initially and every step of the manager keeps it.
LEMMA EventsInvInit == EventsInit => EventsInv
<1> SUFFICES ASSUME EventsInit PROVE EventsInv
  OBVIOUS
<1>1. EventsTypeOK
  <2>1. 1 \in Listener
    BY NumListenersAssumption DEF Listener
  <2>2. [p \in Peer |-> Disconnected] \in [Peer -> State]
    BY Zenon DEF State
  <2>3. [l \in Listener |-> {}] \in [Listener -> SUBSET Peer]
    OBVIOUS
  <2>4. [p \in Peer |-> FALSE] \in [Peer -> BOOLEAN]
    OBVIOUS
  <2>5. <<>> \in Seq(Peer)
    OBVIOUS
  <2>6. /\ newState \in [Peer -> State] /\ curState \in [Peer -> State]
        /\ pending \in [Peer -> BOOLEAN] /\ changeQueue \in Seq(Peer)
        /\ told \in [Listener -> SUBSET Peer] /\ callNext \in Listener
    BY <2>1, <2>2, <2>3, <2>4, <2>5, Zenon DEF EventsInit
  <2> QED
    BY <2>6, Zenon DEF EventsInit, EventsTypeOK
<1>2. QueueExact
  BY DEF EventsInit, QueueExact
<1>3. ListenersFollow
  <2>1. workerPc # "call"
    BY Zenon DEF EventsInit
  <2>2. \A l \in Listener : told[l] = {}
    BY Zenon DEF EventsInit
  <2>3. \A p \in Peer : curState[p] # Responsive
    BY Zenon DEF EventsInit, Disconnected, Responsive
  <2> QED
    BY <2>1, <2>2, <2>3, Zenon DEF ListenersFollow
<1>4. CallMatches
  BY Zenon DEF EventsInit, CallMatches
<1> QED
  BY <1>1, <1>2, <1>3, <1>4, Zenon DEF EventsInv

\* Every step of the manager preserves the inductive invariant.
LEMMA EventsInvStep == EventsInv /\ [EventsNext]_eventVars => EventsInv'
<1> SUFFICES ASSUME EventsInv, [EventsNext]_eventVars PROVE EventsInv'
  OBVIOUS
<1>0. /\ Responsive \in State /\ Disconnected \in State
      /\ Unresponsive \in State
      /\ onMessage \subseteq Peer /\ linked \subseteq Peer
  BY Zenon DEF State, EventsInv, EventsTypeOK
<1>1. ASSUME NEW p \in Peer, Connected(p) PROVE EventsInv'
  <2>1. linked' \subseteq Peer /\ onMessage' \subseteq Peer /\ EnqueueFrame
    BY <1>0, <1>1, Zenon DEF Connected
  <2>2. NoNews \/ SetState(p, Responsive)
    BY <1>1, Zenon DEF Connected
  <2> QED
    BY <1>0, <2>1, <2>2, NewChangeStep, NoNewsStep, Zenon
<1>2. ASSUME NEW p \in Peer, PeerGone(p) PROVE EventsInv'
  <2>1. linked' \subseteq Peer /\ onMessage' \subseteq Peer /\ EnqueueFrame
    BY <1>0, <1>2, Zenon DEF PeerGone
  <2>2. NoNews \/ SetState(p, Disconnected)
    BY <1>2, Zenon DEF PeerGone
  <2> QED
    BY <1>0, <2>1, <2>2, NewChangeStep, NoNewsStep, Zenon
<1>3. ASSUME NEW p \in Peer, MarkUnresponsive(p) PROVE EventsInv'
  BY <1>0, <1>3, NewChangeStep, Zenon DEF MarkUnresponsive
<1>4. ASSUME NEW p \in Peer, OnMessageCheck(p) PROVE EventsInv'
  BY <1>0, <1>4, NoNewsStep, Zenon DEF OnMessageCheck
<1>5. ASSUME NEW p \in Peer, OnMessageSet(p) PROVE EventsInv'
  <2>1. linked' \subseteq Peer /\ onMessage' \subseteq Peer /\ EnqueueFrame
    BY <1>0, <1>5, Zenon DEF OnMessageSet
  <2>2. NoNews \/ SetState(p, Responsive)
    BY <1>5, Zenon DEF OnMessageSet
  <2> QED
    BY <1>0, <2>1, <2>2, NewChangeStep, NoNewsStep, Zenon
<1>6. ASSUME Stop PROVE EventsInv'
  <2>1. EventsTypeOK' /\ QueueExact'
    BY <1>6, Zenon DEF Stop, workerVars, EventsInv, EventsTypeOK, QueueExact
  <2> QED
    BY <1>6, <2>1, WorkerUntouched, Zenon DEF Stop, EventsInv
<1>7. ASSUME Exit PROVE EventsInv'
  <2>1. EventsTypeOK' /\ QueueExact'
    BY <1>7, Zenon DEF Exit, EventsInv, EventsTypeOK, QueueExact
  <2>2. ListenersFollow' /\ CallMatches'
    BY <1>7, ZenonT(30) DEF Exit, EventsInv, ListenersFollow, CallMatches
  <2> QED
    BY <2>1, <2>2, Zenon DEF EventsInv
<1>8. CASE UNCHANGED eventVars
  BY <1>8, Zenon DEF eventVars, EventsInv, EventsTypeOK, QueueExact, ListenersFollow,
     CallMatches
<1> QED
  BY <1>1, <1>2, <1>3, <1>4, <1>5, <1>6, <1>7, <1>8, TakeStep, NotifyStep, Zenon DEF
     EventsNext, Network, EventWorker

\* The invariant holds in every reachable state.
THEOREM EventsInvariance == EventsSpec => []EventsInv
BY EventsInvInit, EventsInvStep, PTL DEF EventsSpec

\* Type correctness.
THEOREM EventsTypeCorrect == EventsSpec => []EventsTypeOK
BY EventsInvariance, PTL DEF EventsInv

\* The "a peer we're not tracking" branch of worker() is never taken and no
\* change is lost, for any number of peers.
THEOREM QueueIsExact == EventsSpec => []QueueExact
BY EventsInvariance, PTL DEF EventsInv

\* Listeners follow the applied state, for any number of peers and listeners.
THEOREM ListenersFollowState == EventsSpec => []ListenersFollow
BY EventsInvariance, PTL DEF EventsInv

\* Connect and disconnect events alternate for every listener and peer.
THEOREM EventsDoAlternate == EventsSpec => EventsAlternate
<1>1. EventsInv /\ [EventsNext]_eventVars
        => [NotifyListener => told'[callNext] # told[callNext]]_eventVars
  BY NotifyStep, Zenon
<1> QED
  BY <1>1, EventsInvariance, PTL DEF EventsSpec, EventsAlternate

\* The recorded state says disconnected exactly for the peers without a
\* connection.  This is what the second check of OnMessage protects.
LinksRecorded == \A p \in Peer : (p \in linked) <=> (newState[p] # Disconnected)

\* Each notification moves the record and the connection together, and the
\* other steps move the record between responsive and unresponsive only.
LEMMA LinksStep ==
    ASSUME EventsTypeOK, LinksRecorded, [EventsNext]_eventVars
    PROVE  LinksRecorded'
<1>1. /\ Responsive # Disconnected /\ Unresponsive # Disconnected
      /\ newState \in [Peer -> State]
  BY Zenon DEF EventsTypeOK, Responsive, Unresponsive, Disconnected
<1>2. ASSUME NEW p \in Peer, Connected(p) PROVE LinksRecorded'
  <2>1. linked' = linked \cup {p}
    BY <1>2, Zenon DEF Connected
  <2>2. newState'[p] = Responsive
    BY <1>1, <1>2, Zenon DEF Connected, NoNews, SetState
  <2>3. \A q \in Peer : q # p => newState'[q] = newState[q]
    BY <1>1, <1>2, Zenon DEF Connected, NoNews, SetState
  <2> QED
    BY <1>1, <2>1, <2>2, <2>3, Zenon DEF LinksRecorded
<1>3. ASSUME NEW p \in Peer, PeerGone(p) PROVE LinksRecorded'
  <2>1. linked' = linked \ {p}
    BY <1>3, Zenon DEF PeerGone
  <2>2. newState'[p] = Disconnected
    BY <1>1, <1>3, Zenon DEF PeerGone, NoNews, SetState
  <2>3. \A q \in Peer : q # p => newState'[q] = newState[q]
    BY <1>1, <1>3, Zenon DEF PeerGone, NoNews, SetState
  <2> QED
    BY <1>1, <2>1, <2>2, <2>3, Zenon DEF LinksRecorded
<1>4. ASSUME NEW p \in Peer, NEW s \in {Responsive, Unresponsive},
             newState[p] # Disconnected, SetState(p, s), linked' = linked
      PROVE  LinksRecorded'
  <2>1. newState'[p] = s /\ s # Disconnected
    BY <1>1, <1>4, Zenon DEF SetState
  <2>2. \A q \in Peer : q # p => newState'[q] = newState[q]
    BY <1>1, <1>4, Zenon DEF SetState
  <2> QED
    BY <1>4, <2>1, <2>2, Zenon DEF LinksRecorded
<1>5. ASSUME NEW p \in Peer, MarkUnresponsive(p) PROVE LinksRecorded'
  BY <1>1, <1>4, <1>5, Zenon DEF MarkUnresponsive
<1>6. ASSUME newState' = newState, linked' = linked PROVE LinksRecorded'
  BY <1>6, Zenon DEF LinksRecorded
<1>7. ASSUME NEW p \in Peer, OnMessageSet(p) PROVE LinksRecorded'
  BY <1>1, <1>4, <1>6, <1>7, Zenon DEF OnMessageSet, NoNews
<1>8. ASSUME NEW p \in Peer, OnMessageCheck(p) PROVE LinksRecorded'
  BY <1>6, <1>8, Zenon DEF OnMessageCheck, NoNews
<1>9. ASSUME Stop \/ EventWorker PROVE LinksRecorded'
  BY <1>6, <1>9, Zenon DEF Stop, EventWorker, TakeChange, NotifyListener, Exit
<1>10. CASE UNCHANGED eventVars
  BY <1>6, <1>10, Zenon DEF eventVars
<1> QED
  BY <1>2, <1>3, <1>5, <1>7, <1>8, <1>9, <1>10, Zenon DEF EventsNext, Network

\* No listener goes on believing in a connection that is gone, or misses one
\* that is there, for any number of peers and listeners: the recorded state
\* is the connection's, without a queue entry the applied state is the
\* recorded one, and without a call under way the listener follows it.
THEOREM ConnectionsAreKnown == EventsSpec => []ConnectionsKnown
<1>1. EventsInit => LinksRecorded
  BY Zenon DEF EventsInit, LinksRecorded
<1>2. EventsInv /\ LinksRecorded /\ [EventsNext]_eventVars => LinksRecorded'
  BY LinksStep, Zenon DEF EventsInv
<1>3. EventsInv /\ LinksRecorded => ConnectionsKnown
  <2> SUFFICES ASSUME EventsInv, LinksRecorded, NEW l \in Listener, NEW p \in Peer,
                      ~NewsFor(l, p)
               PROVE  (p \in told[l]) <=> (p \in linked /\ newState[p] # Unresponsive)
    BY Zenon DEF ConnectionsKnown
  <2>1. curState[p] = newState[p]
    BY Zenon DEF EventsInv, QueueExact, NewsFor
  <2>2. (p \in told[l]) <=> (curState[p] = Responsive)
    BY Zenon DEF EventsInv, ListenersFollow, NewsFor
  <2>3. newState[p] \in {Disconnected, Responsive, Unresponsive}
    BY Zenon DEF EventsInv, EventsTypeOK, State
  <2>4. /\ Responsive # Disconnected /\ Unresponsive # Disconnected
        /\ Responsive # Unresponsive
    BY Zenon DEF Responsive, Unresponsive, Disconnected
  <2> QED
    BY <2>1, <2>2, <2>3, <2>4, Zenon DEF LinksRecorded
<1> QED
  BY <1>1, <1>2, <1>3, EventsInvariance, PTL DEF EventsSpec

-----------------------------------------------------------------------------
(* The provider query manager: its inductive invariant.                    *)

Early == {"idle", "sending"}

(* A request waits in the channel at most once.                            *)
NewOnce ==
    \A i, j \in 1 .. Len(messages) :
       /\ messages[i].kind = "new"
       /\ messages[j].kind = "new"
       /\ messages[i].req = messages[j].req
       => i = j

Unregistered(r) == closes[r] = 0 /\ \A k \in Key : r \notin listeners[k]

(* While it does, it has no channel yet, and its caller is there.          *)
NewFresh ==
    \A i \in 1 .. Len(messages) :
       messages[i].kind = "new" =>
          /\ Unregistered(messages[i].req)
          /\ call[messages[i].req] \in {"awaiting", "done"}
          /\ down \/ call[messages[i].req] = "awaiting"

(* Before that, it is nowhere.                                             *)
EarlyFresh ==
    \A r \in Request : call[r] \in Early =>
       /\ Unregistered(r)
       /\ \A i \in 1 .. Len(messages) :
             messages[i].kind = "new" => messages[i].req # r

(* Until the shutdown, the query recorded for a key has yet to end.        *)
StatusPending ==
    ~down => \A k \in Key : status[k] # None =>
                KeyOf[status[k]] = k /\ Unfinished(status[k])

(* Until the shutdown, who reads from an open channel is a listener.       *)
ReadersListed ==
    ~down => \A r \in Reading : closes[r] = 0 => r \in listeners[KeyOf[r]]

ExitedDown == runExited => down

QueryInv ==
    /\ TypeOK
    /\ ListenersLive
    /\ NewOnce
    /\ NewFresh
    /\ EarlyFresh
    /\ StatusPending
    /\ ReadersListed
    /\ ExitedDown

-----------------------------------------------------------------------------
(* The messages built by the code are messages.                            *)
LEMMA MessageTypes ==
    ASSUME NEW r \in Request
    PROVE  /\ \A kd \in {"new", "cancel", "finished"} : Message(kd, r, None) \in Messages
           /\ \A p \in Provider : Message("provider", r, p) \in Messages
           /\ \A kd, p : /\ Message(kd, r, p).kind = kd
                         /\ Message(kd, r, p).req = r
                         /\ Message(kd, r, p).prov = p
  BY Zenon DEF Message, Messages

\* The fields of a message on providerQueryMessages.
LEMMA MessageFields ==
    ASSUME NEW m \in Messages
    PROVE  /\ m.req \in Request
           /\ m.kind = "provider" => m.prov \in Provider
           /\ m.kind = "finished" => m = Message("finished", m.req, None)
  BY Zenon DEF Message, Messages

(* Sending adds a message at the end.                                      *)
LEMMA SendFacts ==
    ASSUME messages \in Seq(Messages), NEW m \in Messages, Send(m)
    PROVE  /\ messages' \in Seq(Messages)
           /\ Len(messages') = Len(messages) + 1
           /\ \A i \in 1 .. Len(messages) : messages'[i] = messages[i]
           /\ messages'[Len(messages) + 1] = m
  BY DEF Send

(* The run loop takes the first message.                                   *)
LEMMA ReceiveFacts ==
    ASSUME messages \in Seq(Messages), NEW m, Receive(m)
    PROVE  /\ messages' \in Seq(Messages)
           /\ m \in Messages
           /\ Len(messages) \in Nat /\ Len(messages) >= 1
           /\ m = messages[1]
           /\ Len(messages') = Len(messages) - 1
           /\ \A i \in 1 .. Len(messages') : messages'[i] = messages[i + 1]
           /\ ~runExited
  BY DEF Receive

\* The initial state, before any request, satisfies the invariant.
LEMMA InitIInv == Init => QueryInv
  <1> SUFFICES ASSUME Init PROVE QueryInv
    OBVIOUS
  <1>1. TypeOK
    <2>1. messages \in Seq(Messages) /\ buffer \in Seq(Request)
      BY DEF Init
    <2>2. down \in BOOLEAN /\ runExited \in BOOLEAN
      BY Zenon DEF Init
    <2> QED
      BY <2>1, <2>2, Zenon DEF Init, TypeOK, Stage
  <1>2. Len(messages) = 0
    BY Zenon DEF Init
  <1>3. ListenersLive
    BY Zenon DEF Init, ListenersLive
  <1>4. NewOnce /\ NewFresh
    BY <1>2 DEF NewOnce, NewFresh
  <1>5. EarlyFresh
    BY <1>2 DEF EarlyFresh, Unregistered, Init
  <1>6. StatusPending /\ ReadersListed /\ ExitedDown
    BY Zenon DEF StatusPending, ReadersListed, Reading, ExitedDown, Init
  <1> QED
    BY <1>1, <1>3, <1>4, <1>5, <1>6, Zenon DEF QueryInv

-----------------------------------------------------------------------------
(* Steps of callers and workers.                                           *)

Live == {"buffered", "searching", "draining"}
Open == {"receiving", "cancelling", "cancelled"}

Rest == ListenersLive /\ NewOnce /\ NewFresh /\ EarlyFresh /\ StatusPending
          /\ ReadersListed /\ ExitedDown

(* A caller moves on: it does not begin anew, it starts to read only when  *)
(* answered, and it stops reading only when its channel is closed or the   *)
(* manager shuts down.                                                     *)
Onwards(r) ==
    /\ call'[r] \in Early => call[r] \in Early
    /\ call'[r] \in Open => call[r] \in Open
    /\ call[r] \in Open => call'[r] \in Open \/ closes[r] # 0 \/ down
    /\ call[r] = "awaiting" => call'[r] = "awaiting" \/ (call'[r] = "done" /\ down)
    /\ call[r] = "done" => call'[r] = "done"

\* Steps that leave statuses, channels and unhandled requests alone.
LEMMA Frame ==
    ASSUME QueryInv, TypeOK',
           UNCHANGED <<listeners, closes, status, down, runExited>>,
           messages' = messages \/ \E m \in Messages : m.kind # "new" /\ Send(m),
           \A r \in Request : Onwards(r),
           \A q \in Request : query[q] \in Live => down \/ Unfinished(q)'
    PROVE  Rest'
  <1> USE DEF QueryInv
  <1>1. /\ Len(messages) \in Nat /\ Len(messages') \in Nat
        /\ Len(messages') >= Len(messages)
        /\ \A i \in 1 .. Len(messages) : messages'[i] = messages[i]
        /\ \A i \in 1 .. Len(messages') :
              messages'[i].kind = "new" => i \in 1 .. Len(messages)
    <2>1. CASE messages' = messages
      BY <2>1 DEF TypeOK
    <2>2. CASE \E m \in Messages : m.kind # "new" /\ Send(m)
      <3>1. PICK m \in Messages : m.kind # "new" /\ Send(m)
        BY <2>2, Zenon
      <3>2. messages \in Seq(Messages)
        BY Zenon DEF TypeOK
      <3>3. /\ messages' \in Seq(Messages)
            /\ Len(messages') = Len(messages) + 1
            /\ \A i \in 1 .. Len(messages) : messages'[i] = messages[i]
            /\ messages'[Len(messages) + 1] = m
        BY <3>1, <3>2, SendFacts, Zenon
      <3> QED
        BY <3>1, <3>2, <3>3
    <2> QED
      BY <2>1, <2>2, Zenon
  <1>2. ListenersLive'
    <2> SUFFICES ASSUME ~runExited, NEW k \in Key, NEW r \in listeners[k]
                 PROVE  /\ KeyOf[r] = k /\ status[k] # None /\ closes[r] = 0
                        /\ r \in Reading' \/ down
      BY Zenon DEF ListenersLive
    <2>1. r \in Request
      BY Zenon DEF TypeOK
    <2>2. KeyOf[r] = k /\ status[k] # None /\ closes[r] = 0 /\ (r \in Reading \/ down)
      BY Zenon DEF ListenersLive
    <2>3. Onwards(r)
      BY <2>1, Zenon
    <2> QED
      BY <2>1, <2>2, <2>3, Zenon DEF Onwards, Reading, Open
  <1>3. NewOnce'
    BY <1>1, Zenon DEF NewOnce
  <1>4. NewFresh'
    <2> SUFFICES ASSUME NEW i \in 1 .. Len(messages'), messages'[i].kind = "new"
                 PROVE  /\ closes[messages'[i].req] = 0
                        /\ \A k \in Key : messages'[i].req \notin listeners[k]
                        /\ call'[messages'[i].req] \in {"awaiting", "done"}
                        /\ down \/ call'[messages'[i].req] = "awaiting"
      BY Zenon DEF NewFresh, Unregistered
    <2>1. i \in 1 .. Len(messages) /\ messages'[i] = messages[i]
      BY <1>1, Zenon
    <2>2. messages[i] \in Messages
      BY <2>1 DEF TypeOK
    <2>3. messages[i].req \in Request
      BY <2>2, MessageFields, Zenon
    <2>4. Onwards(messages[i].req)
      BY <2>3, Zenon
    <2>5. /\ Unregistered(messages[i].req)
          /\ call[messages[i].req] \in {"awaiting", "done"}
          /\ down \/ call[messages[i].req] = "awaiting"
      BY <2>1, Zenon DEF NewFresh
    <2> QED
      BY <2>1, <2>4, <2>5, Zenon DEF Onwards, Unregistered
  <1>5. EarlyFresh'
    <2> SUFFICES ASSUME NEW r \in Request, call'[r] \in Early
                 PROVE  /\ Unregistered(r)
                        /\ \A i \in 1 .. Len(messages') :
                              messages'[i].kind = "new" => messages'[i].req # r
      BY Zenon DEF EarlyFresh, Unregistered
    <2>1. Onwards(r)
      OBVIOUS
    <2>2. /\ Unregistered(r)
          /\ \A i \in 1 .. Len(messages) :
                messages[i].kind = "new" => messages[i].req # r
      BY <2>1, Zenon DEF EarlyFresh, Onwards
    <2> QED
      BY <1>1, <2>2, Zenon
  <1>6. StatusPending'
    <2> SUFFICES ASSUME ~down, NEW k \in Key, status[k] # None
                 PROVE  KeyOf[status[k]] = k /\ Unfinished(status[k])'
      BY Zenon DEF StatusPending
    <2>1. KeyOf[status[k]] = k /\ Unfinished(status[k]) /\ status[k] \in Request
      BY DEF StatusPending, TypeOK
    <2>2. CASE query[status[k]] \in Live
      BY <2>1, <2>2, Zenon
    <2>3. CASE query[status[k]] \notin Live
      <3>1. PICK i \in DOMAIN messages :
               messages[i] = Message("finished", status[k], None)
        BY <2>1, <2>3, Zenon DEF Unfinished, Live
      <3>2. i \in 1 .. Len(messages)
        BY <3>1 DEF TypeOK
      <3>3. i \in DOMAIN messages' /\ messages'[i] = messages[i]
        BY <1>1, <3>2 DEF TypeOK
      <3>4. Message("finished", status[k], None)' = Message("finished", status[k], None)
        BY Zenon DEF Message
      <3> QED
        BY <2>1, <3>1, <3>3, <3>4, Zenon DEF Unfinished
    <2> QED
      BY <2>2, <2>3, Zenon
  <1>7. ReadersListed'
    BY Zenon DEF ReadersListed, Reading, Onwards, Open
  <1>8. ExitedDown'
    BY Zenon DEF ExitedDown
  <1> QED
    BY <1>2, <1>3, <1>4, <1>5, <1>6, <1>7, <1>8, Zenon DEF Rest

\* The steps of a caller other than queueing its request.
LEMMA CallerStep ==
    ASSUME QueryInv, NEW r \in Request,
           \/ Ask(r) \/ SessionEnds(r) \/ Abandon(r) \/ Leave(r) \/ Cancel(r)
           \/ \E p \in Provider : Take(r, p)
    PROVE  QueryInv'
  <1>0. TypeOK
    BY Zenon DEF QueryInv
  <1>1. UNCHANGED <<listeners, closes, status, down, runExited, query>>
    BY Zenon DEF Ask, SessionEnds, Abandon, Leave, Cancel, Take, CallerFrame, statusVars,
       workVars
  <1>2. messages' = messages \/ \E m \in Messages : m.kind # "new" /\ Send(m)
    <2>1. CASE Cancel(r)
      <3>1. Message("cancel", r, None) \in Messages /\ Message("cancel", r, None).kind = "cancel"
        BY MessageTypes
      <3> QED
        BY <2>1, <3>1, Zenon DEF Cancel
    <2>2. CASE ~Cancel(r)
      BY <2>2, Zenon DEF Ask, SessionEnds, Abandon, Leave, Take
    <2> QED
      BY <2>1, <2>2, Zenon
  <1>3. messages' \in Seq(Messages)
    BY <1>0, <1>2, SendFacts, Zenon DEF TypeOK
  <1>4. call' \in [Request -> Stage]
    BY <1>0, ZenonT(60) DEF TypeOK, Ask, SessionEnds, Abandon, Leave, Cancel, Take, Move, Stage
  <1>5. TypeOK'
    <2>1. ctxDone' \subseteq Request
      BY <1>0 DEF TypeOK, Ask, SessionEnds, Abandon, Leave, Cancel, Take, CallerFrame
    <2>2. unread' \in [Request -> SUBSET Provider] /\ taken' \in [Request -> SUBSET Provider]
      <3>1. CASE \E p \in Provider : Take(r, p)
        <4>1. PICK p \in Provider : Take(r, p)
          BY <3>1, Zenon
        <4>2. unread[r] \ {p} \in SUBSET Provider /\ taken[r] \cup {p} \in SUBSET Provider
          BY <1>0, Zenon DEF TypeOK
        <4> QED
          BY <1>0, <4>1, <4>2, Zenon DEF TypeOK, Take
      <3>2. CASE Leave(r)
        BY <1>0, <3>2, Zenon DEF TypeOK, Leave, CallerFrame
      <3>3. CASE Ask(r) \/ SessionEnds(r) \/ Abandon(r) \/ Cancel(r)
        BY <1>0, <3>3, Zenon DEF TypeOK, Ask, SessionEnds, Abandon, Cancel, CallerFrame
      <3> QED
        BY <3>1, <3>2, <3>3, Zenon
    <2>3. UNCHANGED <<joined, providersSoFar, buffer, seen, connecting, connected>>
      BY Zenon DEF Ask, SessionEnds, Abandon, Leave, Cancel, Take, CallerFrame, statusVars,
         workVars
    <2> QED
      BY <1>0, <1>1, <1>3, <1>4, <2>1, <2>2, <2>3, Zenon DEF TypeOK
  <1>6. \A o \in Request : Onwards(o)
    <2>1. ASSUME NEW o \in Request, o # r PROVE call'[o] = call[o]
      BY <1>0, <2>1, Zenon DEF TypeOK, Ask, SessionEnds, Abandon, Leave, Cancel, Take, Move
    <2>2. Onwards(r)
      BY <1>0 DEF TypeOK, Onwards, Early, Open, Ask, SessionEnds, Abandon, Leave, Cancel,
                  Take, Move
    <2> QED
      BY <2>1, <2>2, Zenon DEF Onwards
  <1>7. \A q \in Request : query[q] \in Live => down \/ Unfinished(q)'
    BY <1>1, Zenon DEF Unfinished, Live
  <1>8. Rest'
    BY <1>1, <1>2, <1>5, <1>6, <1>7, Frame, Zenon
  <1> QED
    BY <1>5, <1>8, Zenon DEF QueryInv, Rest

\* The buffer worker and the query workers.
LEMMA WorkerStep ==
    ASSUME QueryInv,
           \/ Dispatch
           \/ \E q \in Request : \/ SearchEnds(q) \/ Finish(q) \/ WorkerExit(q)
                                \/ \E p \in Provider : Found(q, p) \/ Connect(q, p)
    PROVE  QueryInv'
  <1>0. TypeOK
    BY Zenon DEF QueryInv
  <1>1. UNCHANGED <<callVars, statusVars, down, runExited>>
    BY Zenon DEF Dispatch, SearchEnds, Finish, WorkerExit, Found, Connect, WorkerFrame
  <1>2. \A q \in Request :
          /\ Message("finished", q, None) \in Messages
          /\ Message("finished", q, None).kind = "finished"
          /\ \A p \in Provider : /\ Message("provider", q, p) \in Messages
                                 /\ Message("provider", q, p).kind = "provider"
    BY MessageTypes
  <1>3. messages' = messages \/ \E m \in Messages : m.kind # "new" /\ Send(m)
    BY <1>2, Zenon DEF Dispatch, SearchEnds, Finish, WorkerExit, Found, Connect
  <1>4. messages' \in Seq(Messages)
    BY <1>0, <1>3, SendFacts, Zenon DEF TypeOK
  <1>5. buffer' \in Seq(Request)
    <2>1. CASE Dispatch
      BY <1>0, <2>1 DEF TypeOK, Dispatch
    <2>2. CASE UNCHANGED buffer
      BY <1>0, <2>2, Zenon DEF TypeOK
    <2> QED
      BY <2>1, <2>2, Zenon DEF SearchEnds, Finish, WorkerExit, Found, Connect
  <1>6. /\ query' \in [Request -> {"none", "buffered", "searching", "draining", "ended"}]
        /\ \A q \in Request : query[q] \in Live => query'[q] \in Live \/ down \/ Finish(q)
    <2>1. CASE Dispatch
      BY <1>0, <2>1, Zenon DEF TypeOK, Dispatch, Live
    <2>2. CASE ~Dispatch
      BY <1>0, <2>2 DEF TypeOK, SearchEnds, Finish, WorkerExit, Found, Connect, Live
    <2> QED
      BY <2>1, <2>2, Zenon
  <1>7. /\ seen' \in [Request -> SUBSET Provider]
        /\ connecting' \in [Request -> SUBSET Provider]
        /\ connected' \in [Request -> SUBSET Provider]
    <2>1. CASE \E q \in Request, p \in Provider : Found(q, p)
      <3>1. PICK q \in Request, p \in Provider : Found(q, p)
        BY <2>1, Zenon
      <3>2. /\ seen[q] \cup {p} \in SUBSET Provider
            /\ connecting[q] \cup {p} \in SUBSET Provider
        BY <1>0, Zenon DEF TypeOK
      <3> QED
        BY <1>0, <3>1, <3>2, Zenon DEF TypeOK, Found
    <2>2. CASE \E q \in Request, p \in Provider : Connect(q, p)
      <3>1. PICK q \in Request, p \in Provider : Connect(q, p)
        BY <2>2, Zenon
      <3>2. /\ connected[q] \cup {p} \in SUBSET Provider
            /\ connecting[q] \ {p} \in SUBSET Provider
        BY <1>0, Zenon DEF TypeOK
      <3> QED
        BY <1>0, <3>1, <3>2 DEF TypeOK, Connect
    <2>3. CASE Dispatch
      BY <1>0, <2>3, Zenon DEF TypeOK, Dispatch
    <2>4. CASE \E q \in Request : SearchEnds(q) \/ Finish(q) \/ WorkerExit(q)
      BY <1>0, <2>4, ZenonT(60) DEF TypeOK, SearchEnds, Finish, WorkerExit
    <2> QED
      BY <2>1, <2>2, <2>3, <2>4, Zenon
  <1>8. TypeOK'
    BY <1>0, <1>1, <1>4, <1>5, <1>6, <1>7, Zenon DEF TypeOK, callVars, statusVars
  <1>9. \A r \in Request : Onwards(r)
    BY <1>1, Zenon DEF Onwards, callVars
  <1>10. ASSUME NEW q \in Request, query[q] \in Live PROVE down \/ Unfinished(q)'
    <2>1. CASE query'[q] \in Live
      BY <2>1, Zenon DEF Unfinished, Live
    <2>2. CASE Finish(q)
      <3>1. Send(Message("finished", q, None))
        BY <2>2, Zenon DEF Finish
      <3>2. messages'[Len(messages) + 1] = Message("finished", q, None)
        BY <1>0, <1>2, <3>1, SendFacts, Zenon DEF TypeOK
      <3>3. Len(messages) + 1 \in DOMAIN messages'
        BY <1>0, <1>2, <3>1, SendFacts DEF TypeOK
      <3> QED
        BY <3>2, <3>3, Zenon DEF Unfinished, Message
    <2> QED
      BY <1>6, <1>10, <2>1, <2>2, Zenon
  <1>11. UNCHANGED <<listeners, closes, status, down, runExited>>
    BY <1>1, Zenon DEF statusVars
  <1>12. Rest'
    BY <1>3, <1>8, <1>9, <1>10, <1>11, Frame, Zenon
  <1> QED
    BY <1>8, <1>12, Zenon DEF QueryInv, Rest

\* The manager is told to shut down.
LEMMA ShutdownStep ==
    ASSUME QueryInv, Shutdown
    PROVE  QueryInv'
  <1> USE DEF Shutdown, callVars, statusVars, workVars
  <1>1. TypeOK'
    BY Zenon DEF QueryInv, TypeOK
  <1>2. ListenersLive'
    BY Zenon DEF QueryInv, ListenersLive
  <1>3. NewOnce'
    BY Zenon DEF QueryInv, NewOnce
  <1>4. NewFresh'
    BY Zenon DEF QueryInv, NewFresh, Unregistered
  <1>5. EarlyFresh'
    BY Zenon DEF QueryInv, EarlyFresh, Unregistered
  <1>6. StatusPending' /\ ReadersListed' /\ ExitedDown'
    BY Zenon DEF StatusPending, ReadersListed, ExitedDown
  <1> QED
    BY <1>1, <1>2, <1>3, <1>4, <1>5, <1>6, Zenon DEF QueryInv

\* A caller queues its request, or gives up before that.
LEMMA EnqueueStep ==
    ASSUME QueryInv, NEW r \in Request, Enqueue(r)
    PROVE  QueryInv'
  <1>0. TypeOK
    BY Zenon DEF QueryInv
  <1>1. /\ UNCHANGED <<listeners, closes, status, providersSoFar, down, runExited, query>>
        /\ UNCHANGED <<ctxDone, taken, joined, unread, buffer, seen, connecting, connected>>
    BY Zenon DEF Enqueue, CallerFrame, statusVars, workVars
  <1>2. call[r] = "sending" /\ \A o \in Request : o # r => call'[o] = call[o]
    BY <1>0, Zenon DEF TypeOK, Enqueue, Move
  <1>3. CASE (down \/ r \in ctxDone) /\ Move(r, "done") /\ UNCHANGED messages
    <2>1. call' \in [Request -> Stage] /\ call'[r] = "done"
      BY <1>0, <1>3, Zenon DEF TypeOK, Move, Stage
    <2>2. TypeOK'
      BY <1>0, <1>1, <1>3, <2>1, Zenon DEF TypeOK
    <2>3. \A o \in Request : Onwards(o)
      BY <1>2, <2>1, Zenon DEF Onwards, Early, Open
    <2>4. \A q \in Request : query[q] \in Live => down \/ Unfinished(q)'
      BY <1>1, Zenon DEF Unfinished, Live
    <2>5. Rest'
      BY <1>1, <1>3, <2>2, <2>3, <2>4, Frame, Zenon
    <2> QED
      BY <2>2, <2>5, Zenon DEF QueryInv, Rest
  <1>4. CASE Send(Message("new", r, None)) /\ Move(r, "awaiting")
    <2> DEFINE m == Message("new", r, None)
    <2>1. m \in Messages /\ m.kind = "new" /\ m.req = r
      BY MessageTypes
    <2> HIDE DEF m
    <2>2. messages \in Seq(Messages) /\ Send(m)
      BY <1>0, <1>4, Zenon DEF TypeOK, m
    <2>3. /\ messages' \in Seq(Messages)
          /\ Len(messages') = Len(messages) + 1
          /\ \A i \in 1 .. Len(messages) : messages'[i] = messages[i]
          /\ messages'[Len(messages) + 1] = m
      BY <2>1, <2>2, SendFacts, Zenon
    <2>4. Len(messages) \in Nat
      BY <2>2
    <2>5. call' \in [Request -> Stage] /\ call'[r] = "awaiting"
      BY <1>0, <1>4, Zenon DEF TypeOK, Move, Stage
    <2>6. TypeOK'
      BY <1>0, <1>1, <2>3, <2>5, Zenon DEF TypeOK
    <2>7. /\ Unregistered(r)
          /\ \A i \in 1 .. Len(messages) : messages[i].kind = "new" => messages[i].req # r
      BY <1>2, Zenon DEF QueryInv, EarlyFresh, Early
    <2>8. Reading' = Reading
      BY <1>2, <2>5, Zenon DEF Reading
    <2>9. ListenersLive'
      BY <1>1, <2>8, ZenonT(60) DEF QueryInv, ListenersLive
    <2>10. NewOnce'
      BY <2>1, <2>3, <2>4, <2>7 DEF QueryInv, NewOnce
    <2>11. NewFresh'
      <3> SUFFICES ASSUME NEW i \in 1 .. Len(messages'), messages'[i].kind = "new"
                   PROVE  /\ closes[messages'[i].req] = 0
                          /\ \A k \in Key : messages'[i].req \notin listeners[k]
                          /\ call'[messages'[i].req] \in {"awaiting", "done"}
                          /\ down \/ call'[messages'[i].req] = "awaiting"
        BY <1>1, Zenon DEF NewFresh, Unregistered
      <3>1. CASE i = Len(messages) + 1
        BY <2>1, <2>3, <2>5, <2>7, <3>1, Zenon DEF Unregistered
      <3>2. CASE i # Len(messages) + 1
        <4>1. i \in 1 .. Len(messages) /\ messages'[i] = messages[i]
          BY <2>3, <2>4, <3>2, SMTT(30)
        <4>2. messages[i] \in Messages
          BY <2>2, <4>1
        <4>3. messages[i].req \in Request /\ messages[i].req # r
          BY <2>7, <4>1, <4>2, MessageFields, Zenon
        <4>4. /\ Unregistered(messages[i].req)
              /\ call[messages[i].req] \in {"awaiting", "done"}
              /\ down \/ call[messages[i].req] = "awaiting"
          BY <4>1, Zenon DEF QueryInv, NewFresh
        <4> QED
          BY <1>2, <4>1, <4>3, <4>4, ZenonT(60) DEF Unregistered
      <3> QED
        BY <3>1, <3>2, Zenon
    <2>12. EarlyFresh'
      <3> SUFFICES ASSUME NEW o \in Request, call'[o] \in Early
                   PROVE  /\ Unregistered(o)
                          /\ \A i \in 1 .. Len(messages') :
                                messages'[i].kind = "new" => messages'[i].req # o
        BY <1>1, Zenon DEF EarlyFresh, Unregistered
      <3>1. o # r /\ call[o] \in Early
        BY <1>2, <2>5, Zenon DEF Early
      <3>2. /\ Unregistered(o)
            /\ \A i \in 1 .. Len(messages) :
                  messages[i].kind = "new" => messages[i].req # o
        BY <3>1, Zenon DEF QueryInv, EarlyFresh
      <3> QED
        BY <2>1, <2>3, <2>4, <3>1, <3>2
    <2>13. StatusPending'
      <3> SUFFICES ASSUME ~down, NEW k \in Key, status[k] # None
                   PROVE  KeyOf[status[k]] = k /\ Unfinished(status[k])'
        BY <1>1, Zenon DEF StatusPending
      <3>1. KeyOf[status[k]] = k /\ Unfinished(status[k])
        BY Zenon DEF QueryInv, StatusPending
      <3>2. {messages[i] : i \in DOMAIN messages} \subseteq {messages'[i] : i \in DOMAIN messages'}
        BY <2>2, <2>3, <2>4
      <3> QED
        BY <1>1, <3>1, <3>2, Zenon DEF Unfinished, Message
    <2>14. ReadersListed' /\ ExitedDown'
      BY <1>1, <2>8, Zenon DEF QueryInv, ReadersListed, ExitedDown
    <2> QED
      BY <2>6, <2>9, <2>10, <2>11, <2>12, <2>13, <2>14, Zenon DEF QueryInv
  <1> QED
    BY <1>3, <1>4, Zenon DEF Enqueue

-----------------------------------------------------------------------------
(* Steps of the run loop.                                                  *)

(* What is known of the messages that stay in the channel, and of the one  *)
(* that is handled.                                                        *)
LEMMA Popped ==
    ASSUME QueryInv, NEW m, Receive(m)
    PROVE  /\ NewOnce'
           /\ \A i \in 1 .. Len(messages') : messages'[i].kind = "new" =>
                 /\ messages'[i].req \in Request
                 /\ Unregistered(messages'[i].req)
                 /\ call[messages'[i].req] \in {"awaiting", "done"}
                 /\ down \/ call[messages'[i].req] = "awaiting"
                 /\ m.kind = "new" => messages'[i].req # m.req
           /\ \A r \in Request : call[r] \in Early =>
                 /\ Unregistered(r)
                 /\ \A i \in 1 .. Len(messages') :
                       messages'[i].kind = "new" => messages'[i].req # r
           /\ \A q \in Request :
                 /\ Unfinished(q)
                 /\ m.kind # "finished" \/ m.req # q
                 => \/ query[q] \in Live
                    \/ Message("finished", q, None) \in {messages'[i] : i \in DOMAIN messages'}
           /\ m.kind = "new" => /\ Unregistered(m.req)
                                /\ call[m.req] \in {"awaiting", "done"}
  <1>0. messages \in Seq(Messages)
    BY Zenon DEF QueryInv, TypeOK
  <1>1. /\ messages' \in Seq(Messages)
        /\ m \in Messages
        /\ Len(messages) \in Nat /\ Len(messages) >= 1
        /\ m = messages[1]
        /\ Len(messages') = Len(messages) - 1
        /\ \A i \in 1 .. Len(messages') : messages'[i] = messages[i + 1]
    BY <1>0, ReceiveFacts, Zenon
  <1>2. \A i \in 1 .. Len(messages') :
           /\ i + 1 \in 1 .. Len(messages) /\ i + 1 # 1
           /\ messages'[i] = messages[i + 1]
           /\ messages'[i] \in Messages
    BY <1>0, <1>1
  <1>3. NewOnce'
    <2> SUFFICES ASSUME NEW i \in 1 .. Len(messages'), NEW j \in 1 .. Len(messages'),
                        messages'[i].kind = "new", messages'[j].kind = "new",
                        messages'[i].req = messages'[j].req
                 PROVE  i = j
      BY Zenon DEF NewOnce
    <2>1. i + 1 \in 1 .. Len(messages) /\ j + 1 \in 1 .. Len(messages)
      BY <1>2, Zenon
    <2>2. messages'[i] = messages[i + 1] /\ messages'[j] = messages[j + 1]
      BY <1>2, Zenon
    <2>3. i + 1 = j + 1
      BY <2>1, <2>2, Zenon DEF QueryInv, NewOnce
    <2> QED
      BY <1>1, <2>3
  <1>4. ASSUME NEW i \in 1 .. Len(messages'), messages'[i].kind = "new"
        PROVE  /\ messages'[i].req \in Request
               /\ Unregistered(messages'[i].req)
               /\ call[messages'[i].req] \in {"awaiting", "done"}
               /\ down \/ call[messages'[i].req] = "awaiting"
               /\ m.kind = "new" => messages'[i].req # m.req
    <2>1. i + 1 \in 1 .. Len(messages) /\ i + 1 # 1 /\ messages'[i] = messages[i + 1]
      BY <1>2, Zenon
    <2>2. messages'[i] \in Messages
      BY <1>2, Zenon
    <2>3. messages'[i].req \in Request
      BY <2>2, MessageFields, Zenon
    <2>4. m.kind = "new" => messages'[i].req # m.req
      BY <1>1, <1>4, <2>1 DEF QueryInv, NewOnce
    <2> QED
      BY <1>4, <2>1, <2>3, <2>4, Zenon DEF QueryInv, NewFresh
  <1>5. ASSUME NEW r \in Request, call[r] \in Early
        PROVE  /\ Unregistered(r)
               /\ \A i \in 1 .. Len(messages') :
                     messages'[i].kind = "new" => messages'[i].req # r
    BY <1>2, <1>5, Zenon DEF QueryInv, EarlyFresh
  <1>6. ASSUME NEW q \in Request, Unfinished(q), m.kind # "finished" \/ m.req # q
        PROVE  \/ query[q] \in Live
               \/ Message("finished", q, None) \in {messages'[i] : i \in DOMAIN messages'}
    <2>1. CASE query[q] \in Live
      BY <2>1, Zenon
    <2>2. CASE query[q] \notin Live
      <3>1. PICK i \in DOMAIN messages : messages[i] = Message("finished", q, None)
        BY <1>6, <2>2, Zenon DEF Unfinished, Live
      <3>2. Message("finished", q, None).kind = "finished" /\ Message("finished", q, None).req = q
        BY MessageTypes
      <3>3. i \in 1 .. Len(messages) /\ i # 1
        BY <1>0, <1>1, <1>6, <3>1, <3>2
      <3>4. i - 1 \in DOMAIN messages' /\ messages'[i - 1] = messages[i]
        BY <1>1, <3>3
      <3> QED
        BY <3>1, <3>4, Zenon
    <2> QED
      BY <2>1, <2>2, Zenon
  <1>7. m.kind = "new" => Unregistered(m.req) /\ call[m.req] \in {"awaiting", "done"}
    BY <1>1 DEF QueryInv, NewFresh
  <1> QED
    BY <1>3, <1>4, <1>5, <1>6, <1>7, Zenon

(* A handler that closes listeners, and registers nobody, leaves the       *)
(* requests that wait in the channel, or have not come that far, alone.    *)
LEMMA Closing ==
    ASSUME QueryInv, NEW m, Receive(m), UNCHANGED <<call, down>>,
           \A k \in Key : listeners'[k] \subseteq listeners[k],
           \A r \in Request : closes'[r] = closes[r] \/ \E k \in Key : r \in listeners[k]
    PROVE  NewOnce' /\ NewFresh' /\ EarlyFresh'
  <1>1. NewOnce'
    BY Popped, Zenon
  <1>2. ASSUME NEW r \in Request, Unregistered(r)
        PROVE  closes'[r] = 0 /\ \A k \in Key : r \notin listeners'[k]
    BY <1>2, Zenon DEF Unregistered
  <1>3. NewFresh'
    <2> SUFFICES ASSUME NEW i \in 1 .. Len(messages'), messages'[i].kind = "new"
                 PROVE  /\ closes'[messages'[i].req] = 0
                        /\ \A k \in Key : messages'[i].req \notin listeners'[k]
                        /\ call[messages'[i].req] \in {"awaiting", "done"}
                        /\ down \/ call[messages'[i].req] = "awaiting"
      BY Zenon DEF NewFresh, Unregistered
    <2>1. /\ messages'[i].req \in Request
          /\ Unregistered(messages'[i].req)
          /\ call[messages'[i].req] \in {"awaiting", "done"}
          /\ down \/ call[messages'[i].req] = "awaiting"
      BY Popped, Zenon
    <2> QED
      BY <1>2, <2>1, Zenon
  <1>4. EarlyFresh'
    <2> SUFFICES ASSUME NEW r \in Request, call[r] \in Early
                 PROVE  /\ closes'[r] = 0 /\ \A k \in Key : r \notin listeners'[k]
                        /\ \A i \in 1 .. Len(messages') :
                              messages'[i].kind = "new" => messages'[i].req # r
      BY Zenon DEF EarlyFresh, Unregistered
    <2>1. /\ Unregistered(r)
          /\ \A i \in 1 .. Len(messages') :
                messages'[i].kind = "new" => messages'[i].req # r
      BY Popped, Zenon
    <2> QED
      BY <1>2, <2>1, Zenon
  <1> QED
    BY <1>1, <1>3, <1>4, Zenon

\* receivedProviderMessage.handle preserves the invariant.
LEMMA HandleProviderStep ==
    ASSUME QueryInv, NEW m, HandleProvider(m)
    PROVE  QueryInv'
  <1>0. TypeOK /\ Receive(m)
    BY Zenon DEF QueryInv, HandleProvider
  <1>1. UNCHANGED <<call, ctxDone, taken, joined, status, listeners, closes, buffer,
                    query, seen, connecting, connected, down, runExited>>
    BY Zenon DEF HandleProvider, workVars
  <1>2. m \in Messages /\ messages' \in Seq(Messages)
    BY <1>0, ReceiveFacts, Zenon DEF TypeOK
  <1>3. m.req \in Request /\ m.kind = "provider" /\ m.prov \in Provider
    BY <1>2, MessageFields, Zenon DEF HandleProvider
  <1>4. TypeOK'
    <2>1. providersSoFar' \in [Key -> SUBSET Provider]
      <3>1. KeyOf[m.req] \in Key
        BY <1>3, KeyOfAssumption, Zenon
      <3>2. providersSoFar[KeyOf[m.req]] \cup {m.prov} \in SUBSET Provider
        BY <1>0, <1>3, <3>1, Zenon DEF TypeOK
      <3>3. \/ providersSoFar' = providersSoFar
            \/ providersSoFar' = [providersSoFar EXCEPT ![KeyOf[m.req]] = @ \cup {m.prov}]
        BY Zenon DEF HandleProvider
      <3> QED
        BY <1>0, <3>1, <3>2, <3>3, Zenon DEF TypeOK
    <2>2. unread' \in [Request -> SUBSET Provider]
      <3>1. CASE status[KeyOf[m.req]] = None
        BY <1>0, <3>1, Zenon DEF HandleProvider, TypeOK
      <3>2. CASE status[KeyOf[m.req]] # None
        <4>1. PICK to : unread' = [r \in Request |->
                                     IF r \in to /\ call[r] = "receiving"
                                     THEN unread[r] \cup {m.prov} ELSE unread[r]]
          BY <3>2, Zenon DEF HandleProvider
        <4> QED
          BY <1>0, <1>3, <4>1 DEF TypeOK
      <3> QED
        BY <3>1, <3>2, Zenon
    <2> QED
      BY <1>0, <1>1, <1>2, <2>1, <2>2, Zenon DEF TypeOK
  <1>5. NewOnce' /\ NewFresh' /\ EarlyFresh'
    BY <1>0, <1>1, Closing, Zenon
  <1>6. ListenersLive' /\ ReadersListed' /\ ExitedDown'
    BY <1>1, Zenon DEF QueryInv, ListenersLive, ReadersListed, ExitedDown, Reading
  <1>7. StatusPending'
    <2> SUFFICES ASSUME ~down, NEW k \in Key, status[k] # None
                 PROVE  KeyOf[status[k]] = k /\ Unfinished(status[k])'
      BY <1>1, Zenon DEF StatusPending
    <2>1. KeyOf[status[k]] = k /\ Unfinished(status[k]) /\ status[k] \in Request
      BY <1>0, Zenon DEF QueryInv, StatusPending, TypeOK
    <2>2. \/ query[status[k]] \in Live
          \/ Message("finished", status[k], None) \in {messages'[i] : i \in DOMAIN messages'}
      BY <1>0, <1>3, <2>1, Popped, Zenon
    <2> QED
      BY <1>1, <2>1, <2>2, Zenon DEF Unfinished, Live, Message
  <1> QED
    BY <1>4, <1>5, <1>6, <1>7, Zenon DEF QueryInv

\* finishedProviderQueryMessage.handle preserves the invariant.
LEMMA HandleFinishedStep ==
    ASSUME QueryInv, NEW m, HandleFinished(m)
    PROVE  QueryInv'
  <1> DEFINE k == KeyOf[m.req]
  <1>0. TypeOK /\ Receive(m)
    BY Zenon DEF QueryInv, HandleFinished
  <1>1. UNCHANGED <<call, ctxDone, unread, taken, joined, buffer, query, seen, connecting,
                    connected, down, runExited>>
    BY Zenon DEF HandleFinished, HandlerFrame, callVars, workVars
  <1>2. m \in Messages /\ messages' \in Seq(Messages) /\ ~runExited
    BY <1>0, ReceiveFacts, Zenon DEF TypeOK
  <1>3. m.req \in Request /\ m.kind = "finished" /\ k \in Key
    BY <1>2, MessageFields, KeyOfAssumption, Zenon DEF HandleFinished
  <1>4. /\ status'[k] = None
        /\ \A l \in Key : l # k => status'[l] = status[l] /\ listeners'[l] = listeners[l]
        /\ listeners'[k] = {}
        /\ \A r \in Request : closes'[r] = IF r \in listeners[k] THEN 1 ELSE closes[r]
        /\ status' \in [Key -> Request \cup {None}]
        /\ listeners' \in [Key -> SUBSET Request]
        /\ providersSoFar' \in [Key -> SUBSET Provider]
        /\ closes' \in [Request -> {0, 1}]
    <2>1. status[k] = None => listeners[k] = {}
      BY <1>2, <1>3, Zenon DEF QueryInv, ListenersLive
    <2>2. \A r \in listeners[k] : closes[r] = 0
      BY <1>2, <1>3, Zenon DEF QueryInv, ListenersLive
    <2>3. CASE status[k] = None
      BY <1>0, <2>1, <2>3, Zenon DEF HandleFinished, statusVars, TypeOK
    <2>4. CASE status[k] # None
      <3>1. Close(listeners[k]) /\ DeleteStatus(k)
        BY <2>4, Zenon DEF HandleFinished
      <3>2. closes' = [r \in Request |-> IF r \in listeners[k] THEN closes[r] + 1 ELSE closes[r]]
        BY <3>1, Zenon DEF Close
      <3>3. \A r \in Request : closes'[r] = IF r \in listeners[k] THEN 1 ELSE closes[r]
        BY <2>2, <3>2
      <3>4. closes' \in [Request -> {0, 1}]
        BY <1>0, <2>2, <3>2 DEF TypeOK
      <3> QED
        BY <1>0, <1>3, <3>1, <3>3, <3>4, Zenon DEF DeleteStatus, TypeOK
    <2> QED
      BY <2>3, <2>4, Zenon
  <1>5. TypeOK'
    BY <1>0, <1>1, <1>2, <1>4, Zenon DEF TypeOK
  <1>6. \A l \in Key : listeners'[l] \subseteq listeners[l]
    BY <1>4, Zenon
  <1>7. \A r \in Request : closes'[r] = closes[r] \/ \E l \in Key : r \in listeners[l]
    BY <1>3, <1>4, Zenon
  <1>8. NewOnce' /\ NewFresh' /\ EarlyFresh'
    BY <1>0, <1>1, <1>6, <1>7, Closing, Zenon
  <1>9. ListenersLive'
    <2> SUFFICES ASSUME NEW l \in Key, NEW r \in listeners'[l]
                 PROVE  /\ KeyOf[r] = l /\ status'[l] # None /\ closes'[r] = 0
                        /\ r \in Reading' \/ down
      BY <1>1, Zenon DEF ListenersLive
    <2>1. l # k /\ r \in listeners[l] /\ r \in Request
      BY <1>0, <1>4, Zenon DEF TypeOK
    <2>2. KeyOf[r] = l /\ status[l] # None /\ closes[r] = 0 /\ (r \in Reading \/ down)
      BY <1>2, <2>1, Zenon DEF QueryInv, ListenersLive
    <2>3. r \notin listeners[k]
      BY <1>2, <1>3, <2>1, <2>2, Zenon DEF QueryInv, ListenersLive
    <2> QED
      BY <1>1, <1>4, <2>1, <2>2, <2>3, Zenon DEF Reading
  <1>10. ReadersListed'
    <2> SUFFICES ASSUME ~down, NEW r \in Reading, closes'[r] = 0
                 PROVE  r \in listeners'[KeyOf[r]]
      BY <1>1, Zenon DEF ReadersListed, Reading
    <2>1. r \in Request /\ KeyOf[r] \in Key
      BY KeyOfAssumption, Zenon DEF Reading
    <2>2. closes[r] = 0 /\ r \notin listeners[k]
      BY <1>4, <2>1
    <2>3. r \in listeners[KeyOf[r]]
      BY <2>2, Zenon DEF QueryInv, ReadersListed
    <2> QED
      BY <1>4, <2>1, <2>2, <2>3, Zenon
  <1>11. StatusPending'
    <2> SUFFICES ASSUME ~down, NEW l \in Key, status'[l] # None
                 PROVE  KeyOf[status'[l]] = l /\ Unfinished(status[l])' 
      BY <1>1, Zenon DEF StatusPending
    <2>1. l # k /\ status'[l] = status[l]
      BY <1>4, Zenon
    <2>2. KeyOf[status[l]] = l /\ Unfinished(status[l]) /\ status[l] \in Request
      BY <1>0, <2>1 DEF QueryInv, StatusPending, TypeOK
    <2>3. \/ query[status[l]] \in Live
          \/ Message("finished", status[l], None) \in {messages'[i] : i \in DOMAIN messages'}
      BY <1>0, <2>1, <2>2, Popped, Zenon
    <2> QED
      BY <1>1, <2>1, <2>2, <2>3, Zenon DEF Unfinished, Live, Message
  <1> QED
    BY <1>1, <1>5, <1>8, <1>9, <1>10, <1>11, Zenon DEF QueryInv, ExitedDown

\* cancelRequestMessage.handle preserves the invariant.
LEMMA HandleCancelStep ==
    ASSUME QueryInv, NEW m, HandleCancel(m)
    PROVE  QueryInv'
  <1> DEFINE r == m.req
  <1> DEFINE k == KeyOf[r]
  <1>0. TypeOK /\ Receive(m)
    BY Zenon DEF QueryInv, HandleCancel
  <1>1. UNCHANGED <<call, ctxDone, unread, taken, joined, buffer, query, seen, connecting,
                    connected, down, runExited>>
    BY Zenon DEF HandleCancel, HandlerFrame, callVars, workVars
  <1>2. m \in Messages /\ messages' \in Seq(Messages) /\ ~runExited
    BY <1>0, ReceiveFacts, Zenon DEF TypeOK
  <1>3. r \in Request /\ m.kind = "cancel" /\ k \in Key
    BY <1>2, MessageFields, KeyOfAssumption, Zenon DEF HandleCancel
  <1>4. /\ \A l \in Key : l # k => status'[l] = status[l] /\ listeners'[l] = listeners[l]
        /\ listeners'[k] = listeners[k] \ {r}
        /\ status'[k] \in {status[k], None}
        /\ listeners'[k] # {} => status'[k] = status[k]
        /\ \A o \in Request :
              closes'[o] = IF o = r /\ r \in listeners[k] THEN 1 ELSE closes[o]
        /\ status' \in [Key -> Request \cup {None}]
        /\ listeners' \in [Key -> SUBSET Request]
        /\ providersSoFar' \in [Key -> SUBSET Provider]
        /\ closes' \in [Request -> {0, 1}]
    <2>1. status[k] = None => r \notin listeners[k]
      BY <1>2, <1>3, Zenon DEF QueryInv, ListenersLive
    <2>2. r \in listeners[k] => closes[r] = 0
      BY <1>2, <1>3, Zenon DEF QueryInv, ListenersLive
    <2>3. CASE status[k] = None \/ r \notin listeners[k]
      <3>1. UNCHANGED statusVars
        BY <2>3, Zenon DEF HandleCancel
      <3>2. UNCHANGED <<status, listeners, providersSoFar, closes>>
        BY <3>1, Zenon DEF statusVars
      <3> QED
        BY <1>0, <1>3, <2>1, <2>3, <3>2, Zenon DEF TypeOK
    <2>4. CASE status[k] # None /\ r \in listeners[k]
      <3>1. /\ Close({r})
            /\ IF listeners[k] = {r}
               THEN DeleteStatus(k)
               ELSE /\ listeners' = [listeners EXCEPT ![k] = @ \ {r}]
                    /\ UNCHANGED <<status, providersSoFar>>
        BY <2>4, Zenon DEF HandleCancel
      <3>2. closes' = [o \in Request |-> IF o \in {r} THEN closes[o] + 1 ELSE closes[o]]
        BY <3>1, Zenon DEF Close
      <3>3. \A o \in Request : closes'[o] = IF o = r /\ r \in listeners[k] THEN 1 ELSE closes[o]
        BY <2>2, <2>4, <3>2
      <3>4. closes' \in [Request -> {0, 1}]
        BY <1>0, <2>2, <2>4, <3>2 DEF TypeOK
      <3>5. CASE listeners[k] = {r}
        BY <1>0, <1>3, <3>1, <3>3, <3>4, <3>5, ZenonT(60) DEF DeleteStatus, TypeOK
      <3>6. CASE listeners[k] # {r}
        <4>1. listeners[k] \ {r} \in SUBSET Request
          BY <1>0, <1>3, Zenon DEF TypeOK
        <4>2. /\ listeners' \in [Key -> SUBSET Request]
              /\ listeners'[k] = listeners[k] \ {r}
              /\ \A l \in Key : l # k => listeners'[l] = listeners[l]
          BY <1>0, <1>3, <3>1, <3>6, <4>1, ZenonT(60) DEF TypeOK
        <4> QED
          BY <1>0, <3>1, <3>3, <3>4, <3>6, <4>2, Zenon DEF TypeOK
      <3> QED
        BY <3>5, <3>6, Zenon
    <2> QED
      BY <2>3, <2>4, Zenon
  <1> HIDE DEF r
  <1>5. TypeOK'
    BY <1>0, <1>1, <1>2, <1>4, Zenon DEF TypeOK
  <1>6. \A l \in Key : listeners'[l] \subseteq listeners[l]
    BY <1>4, Zenon
  <1>7. \A o \in Request : closes'[o] = closes[o] \/ \E l \in Key : o \in listeners[l]
    BY <1>3, <1>4, Zenon
  <1>8. NewOnce' /\ NewFresh' /\ EarlyFresh'
    BY <1>0, <1>1, <1>6, <1>7, Closing, Zenon
  <1>9. ListenersLive'
    <2> SUFFICES ASSUME NEW l \in Key, NEW o \in listeners'[l]
                 PROVE  /\ KeyOf[o] = l /\ status'[l] # None /\ closes'[o] = 0
                        /\ o \in Reading' \/ down
      BY <1>1, Zenon DEF ListenersLive
    <2>1. o \in listeners[l] /\ o \in Request
      BY <1>0, <1>6, Zenon DEF TypeOK
    <2>2. KeyOf[o] = l /\ status[l] # None /\ closes[o] = 0 /\ (o \in Reading \/ down)
      BY <1>2, <2>1, Zenon DEF QueryInv, ListenersLive
    <2>3. status'[l] = status[l]
      BY <1>4, Zenon
    <2>4. ~(o = r /\ r \in listeners[k])
      BY <1>4, <2>2, Zenon
    <2> QED
      BY <1>1, <1>4, <2>1, <2>2, <2>3, <2>4, Zenon DEF Reading
  <1>10. ReadersListed'
    <2> SUFFICES ASSUME ~down, NEW o \in Reading, closes'[o] = 0
                 PROVE  o \in listeners'[KeyOf[o]]
      BY <1>1, Zenon DEF ReadersListed, Reading
    <2>1. o \in Request /\ KeyOf[o] \in Key
      BY KeyOfAssumption, Zenon DEF Reading
    <2>2. closes[o] = 0 /\ ~(o = r /\ r \in listeners[k])
      BY <1>4, <2>1
    <2>3. o \in listeners[KeyOf[o]]
      BY <2>2, Zenon DEF QueryInv, ReadersListed
    <2> QED
      BY <1>4, <2>1, <2>2, <2>3, Zenon
  <1>11. StatusPending'
    <2> SUFFICES ASSUME ~down, NEW l \in Key, status'[l] # None
                 PROVE  KeyOf[status'[l]] = l /\ Unfinished(status[l])'
      BY <1>1, Zenon DEF StatusPending
    <2>1. status'[l] = status[l]
      BY <1>4, Zenon
    <2>2. KeyOf[status[l]] = l /\ Unfinished(status[l]) /\ status[l] \in Request
      BY <1>0, <2>1, Zenon DEF QueryInv, StatusPending, TypeOK
    <2>3. \/ query[status[l]] \in Live
          \/ Message("finished", status[l], None) \in {messages'[i] : i \in DOMAIN messages'}
      BY <1>0, <1>3, <2>2, Popped, Zenon
    <2> QED
      BY <1>1, <2>1, <2>2, <2>3, Zenon DEF Unfinished, Live, Message
  <1> QED
    BY <1>1, <1>5, <1>8, <1>9, <1>10, <1>11, Zenon DEF QueryInv, ExitedDown

\* The run loop closes every channel as it returns.
LEMMA RunExitStep ==
    ASSUME QueryInv, RunExit
    PROVE  QueryInv'
  <1>0. TypeOK
    BY Zenon DEF QueryInv
  <1>1. UNCHANGED <<call, ctxDone, unread, taken, joined, messages, status, listeners,
                    providersSoFar, buffer, query, seen, connecting, connected, down>>
    BY Zenon DEF RunExit, callVars, workVars
  <1>2. down /\ ~runExited /\ runExited'
    BY Zenon DEF RunExit
  <1>3. closes' = [r \in Request |-> IF r \in UNION {listeners[k] : k \in Key}
                                     THEN closes[r] + 1 ELSE closes[r]]
    BY Zenon DEF RunExit, Close
  <1>4. \A r \in Request :
           /\ r \in UNION {listeners[k] : k \in Key} => closes[r] = 0
           /\ Unregistered(r) => r \notin UNION {listeners[k] : k \in Key}
    BY <1>2 DEF QueryInv, ListenersLive, Unregistered
  <1>5. closes' \in [Request -> {0, 1}] /\ \A r \in Request : Unregistered(r) => closes'[r] = 0
    BY <1>0, <1>3, <1>4 DEF TypeOK, Unregistered
  <1>6. TypeOK'
    BY <1>0, <1>1, <1>2, <1>5, Zenon DEF TypeOK
  <1>7. NewOnce'
    BY <1>1, Zenon DEF QueryInv, NewOnce
  <1>8. NewFresh'
    <2>1. \A i \in 1 .. Len(messages) : messages[i].req \in Request
      <3> TAKE i \in 1 .. Len(messages)
      <3>1. messages[i] \in Messages
        BY <1>0 DEF TypeOK
      <3> QED
        BY <3>1, MessageFields, Zenon
    <2> QED
      BY <1>1, <1>5, <2>1, Zenon DEF QueryInv, NewFresh, Unregistered
  <1>9. EarlyFresh'
    BY <1>1, <1>5, Zenon DEF QueryInv, EarlyFresh, Unregistered
  <1> QED
    BY <1>1, <1>2, <1>6, <1>7, <1>8, <1>9, Zenon DEF QueryInv, ListenersLive, StatusPending,
       ReadersListed, ExitedDown

(* Afterwards the key has a status: the one it had, or a new one whose     *)
(* query is buffered.                                                      *)
LEMMA CreateFacts ==
    ASSUME TypeOK, NEW r \in Request, CreateStatus(r)
    PROVE  /\ KeyOf[r] \in Key
           /\ status' \in [Key -> Request \cup {None}]
           /\ providersSoFar' \in [Key -> SUBSET Provider]
           /\ buffer' \in Seq(Request)
           /\ query' \in [Request -> {"none", "buffered", "searching", "draining", "ended"}]
           /\ status'[KeyOf[r]] # None
           /\ \A l \in Key : \/ status'[l] = status[l]
                             \/ l = KeyOf[r] /\ status'[l] = r /\ query'[r] = "buffered"
           /\ \A q \in Request : query'[q] = query[q] \/ query'[q] = "buffered"
  <1>1. KeyOf[r] \in Key
    BY KeyOfAssumption, Zenon
  <1>2. CASE status[KeyOf[r]] # None
    BY <1>1, <1>2, Zenon DEF CreateStatus, TypeOK
  <1>3. CASE status[KeyOf[r]] = None
    <2>1. /\ status' = [status EXCEPT ![KeyOf[r]] = r]
          /\ providersSoFar' = [providersSoFar EXCEPT ![KeyOf[r]] = {}]
          /\ buffer' = Append(buffer, r)
          /\ query' = [query EXCEPT ![r] = "buffered"]
      BY <1>3, Zenon DEF CreateStatus
    <2>2. buffer' \in Seq(Request)
      BY <2>1 DEF TypeOK
    <2> QED
      BY <1>1, <2>1, <2>2, NoneAssumption, Zenon DEF TypeOK
  <1> QED
    BY <1>2, <1>3, Zenon

\* newProvideQueryMessage.handle preserves the invariant.
LEMMA HandleNewStep ==
    ASSUME QueryInv, NEW m, HandleNew(m)
    PROVE  QueryInv'
  <1> DEFINE r == m.req
  <1> DEFINE k == KeyOf[r]
  <1>0. TypeOK /\ Receive(m)
    BY Zenon DEF QueryInv, HandleNew
  <1>1. UNCHANGED <<ctxDone, taken, closes, seen, connecting, connected, down, runExited>>
    BY Zenon DEF HandleNew
  <1>2. m \in Messages /\ messages' \in Seq(Messages) /\ ~runExited
    BY <1>0, ReceiveFacts, Zenon DEF TypeOK
  <1>3. r \in Request /\ m.kind = "new" /\ k \in Key /\ CreateStatus(r)
    BY <1>2, MessageFields, KeyOfAssumption, Zenon DEF HandleNew
  <1>4. /\ status' \in [Key -> Request \cup {None}]
        /\ providersSoFar' \in [Key -> SUBSET Provider]
        /\ buffer' \in Seq(Request)
        /\ query' \in [Request -> {"none", "buffered", "searching", "draining", "ended"}]
        /\ status'[k] # None
        /\ \A l \in Key : \/ status'[l] = status[l]
                          \/ l = k /\ status'[l] = r /\ query'[r] = "buffered"
        /\ \A q \in Request : query'[q] = query[q] \/ query'[q] = "buffered"
    BY <1>0, <1>3, CreateFacts, Zenon
  <1>5. /\ listeners' = [listeners EXCEPT ![k] = @ \cup {r}]
        /\ joined' = [joined EXCEPT ![r] = status'[k]]
        /\ unread' = [unread EXCEPT ![r] = providersSoFar'[k]]
        /\ call' = [call EXCEPT ![r] = "receiving"]
        /\ call[r] = "awaiting"
    BY Zenon DEF HandleNew, Move
  <1>6. Unregistered(r)
    BY <1>0, <1>3, Popped, Zenon
  <1> HIDE DEF r
  <1>7. /\ listeners' \in [Key -> SUBSET Request]
        /\ listeners'[k] = listeners[k] \cup {r}
        /\ \A l \in Key : l # k => listeners'[l] = listeners[l]
    <2>1. listeners[k] \cup {r} \in SUBSET Request
      BY <1>0, <1>3, Zenon DEF TypeOK
    <2> QED
      BY <1>0, <1>3, <1>5, <2>1, Zenon DEF TypeOK
  <1>8. /\ call' \in [Request -> Stage] /\ call'[r] = "receiving"
        /\ \A o \in Request : o # r => call'[o] = call[o]
    BY <1>0, <1>3, <1>5, Zenon DEF TypeOK, Stage
  <1>9. TypeOK'
    <2>1. joined' \in [Request -> Request \cup {None}]
      BY <1>0, <1>3, <1>4, <1>5, Zenon DEF TypeOK
    <2>2. unread' \in [Request -> SUBSET Provider]
      BY <1>0, <1>3, <1>4, <1>5 DEF TypeOK
    <2> QED
      BY <1>0, <1>1, <1>2, <1>4, <1>7, <1>8, <2>1, <2>2, Zenon DEF TypeOK
  <1>10. ListenersLive'
    <2> SUFFICES ASSUME NEW l \in Key, NEW o \in listeners'[l]
                 PROVE  /\ KeyOf[o] = l /\ status'[l] # None /\ closes[o] = 0
                        /\ o \in Reading' \/ down
      BY <1>1, Zenon DEF ListenersLive
    <2>1. CASE o \in listeners[l]
      <3>1. o \in Request
        BY <1>0, <2>1, Zenon DEF TypeOK
      <3>2. KeyOf[o] = l /\ status[l] # None /\ closes[o] = 0 /\ (o \in Reading \/ down)
        BY <1>2, <2>1, Zenon DEF QueryInv, ListenersLive
      <3>3. status'[l] # None
        BY <1>4, <3>2, Zenon
      <3>4. o \in Reading => o \in Reading'
        BY <1>8, <3>1, Zenon DEF Reading
      <3> QED
        BY <3>2, <3>3, <3>4, Zenon
    <2>2. CASE o \notin listeners[l]
      <3>1. l = k /\ o = r
        BY <1>7, <2>2, Zenon
      <3> QED
        BY <1>3, <1>4, <1>6, <1>8, <3>1, Zenon DEF Unregistered, Reading
    <2> QED
      BY <2>1, <2>2, Zenon
  <1>11. NewOnce'
    BY <1>0, Popped, Zenon
  <1>12. ASSUME NEW o \in Request, o # r, Unregistered(o)
         PROVE  closes[o] = 0 /\ \A l \in Key : o \notin listeners'[l]
    BY <1>7, <1>12, Zenon DEF Unregistered
  <1>13. NewFresh'
    <2> SUFFICES ASSUME NEW i \in 1 .. Len(messages'), messages'[i].kind = "new"
                 PROVE  /\ closes[messages'[i].req] = 0
                        /\ \A l \in Key : messages'[i].req \notin listeners'[l]
                        /\ call'[messages'[i].req] \in {"awaiting", "done"}
                        /\ down \/ call'[messages'[i].req] = "awaiting"
      BY <1>1, Zenon DEF NewFresh, Unregistered
    <2>1. /\ messages'[i].req \in Request
          /\ Unregistered(messages'[i].req)
          /\ call[messages'[i].req] \in {"awaiting", "done"}
          /\ down \/ call[messages'[i].req] = "awaiting"
          /\ messages'[i].req # r
      BY <1>0, <1>3, Popped, Zenon DEF r
    <2> QED
      BY <1>8, <1>12, <2>1, Zenon
  <1>14. EarlyFresh'
    <2> SUFFICES ASSUME NEW o \in Request, call'[o] \in Early
                 PROVE  /\ closes[o] = 0 /\ \A l \in Key : o \notin listeners'[l]
                        /\ \A i \in 1 .. Len(messages') :
                              messages'[i].kind = "new" => messages'[i].req # o
      BY <1>1, Zenon DEF EarlyFresh, Unregistered
    <2>1. o # r /\ call[o] \in Early
      BY <1>8, Zenon DEF Early
    <2>2. /\ Unregistered(o)
          /\ \A i \in 1 .. Len(messages') :
                messages'[i].kind = "new" => messages'[i].req # o
      BY <1>0, <2>1, Popped, Zenon
    <2> QED
      BY <1>12, <2>1, <2>2, Zenon
  <1>15. ReadersListed'
    <2> SUFFICES ASSUME ~down, NEW o \in Reading', closes[o] = 0
                 PROVE  o \in listeners'[KeyOf[o]]
      BY <1>1, Zenon DEF ReadersListed
    <2>1. o \in Request /\ KeyOf[o] \in Key
      BY KeyOfAssumption, Zenon DEF Reading
    <2>2. CASE o = r
      BY <1>7, <2>2, Zenon
    <2>3. CASE o # r
      <3>1. o \in Reading
        BY <1>8, <2>1, <2>3, Zenon DEF Reading
      <3>2. o \in listeners[KeyOf[o]]
        BY <3>1, Zenon DEF QueryInv, ReadersListed
      <3> QED
        BY <1>7, <2>1, <3>2, Zenon
    <2> QED
      BY <2>2, <2>3, Zenon
  <1>16. StatusPending'
    <2> SUFFICES ASSUME ~down, NEW l \in Key, status'[l] # None
                 PROVE  KeyOf[status'[l]] = l /\ Unfinished(status[l])'
      BY <1>1, Zenon DEF StatusPending
    <2>1. CASE l = k /\ status'[l] = r /\ query'[r] = "buffered"
      BY <2>1, Zenon DEF Unfinished
    <2>2. CASE status'[l] = status[l]
      <3>1. KeyOf[status[l]] = l /\ Unfinished(status[l]) /\ status[l] \in Request
        BY <1>0, <2>2, Zenon DEF QueryInv, StatusPending, TypeOK
      <3>2. \/ query[status[l]] \in Live
            \/ Message("finished", status[l], None) \in {messages'[i] : i \in DOMAIN messages'}
        BY <1>0, <1>3, <3>1, Popped, Zenon
      <3>3. query[status[l]] \in Live => query'[status[l]] \in Live
        BY <1>4, <3>1, Zenon DEF Live
      <3> QED
        BY <2>2, <3>1, <3>2, <3>3, Zenon DEF Unfinished, Live, Message
    <2> QED
      BY <1>4, <2>1, <2>2, Zenon
  <1> QED
    BY <1>1, <1>9, <1>10, <1>11, <1>13, <1>14, <1>15, <1>16, Zenon DEF QueryInv, ExitedDown

\* The same when the shutdown interrupts it.
LEMMA HandleNewAbortedStep ==
    ASSUME QueryInv, NEW m, HandleNewAborted(m)
    PROVE  QueryInv'
  <1> DEFINE r == m.req
  <1> DEFINE k == KeyOf[r]
  <1>0. TypeOK /\ Receive(m) /\ down
    BY Zenon DEF QueryInv, HandleNewAborted
  <1>1. UNCHANGED <<call, ctxDone, unread, taken, joined, closes, seen, connecting,
                    connected, down, runExited>>
    BY Zenon DEF HandleNewAborted, callVars
  <1>2. m \in Messages /\ messages' \in Seq(Messages) /\ ~runExited
    BY <1>0, ReceiveFacts, Zenon DEF TypeOK
  <1>3. r \in Request /\ m.kind = "new" /\ k \in Key
    BY <1>2, MessageFields, KeyOfAssumption, Zenon DEF HandleNewAborted
  <1>4. Unregistered(r) /\ call[r] \in {"awaiting", "done"}
    BY <1>0, <1>3, Popped, Zenon
  <1>5. /\ status' \in [Key -> Request \cup {None}]
        /\ providersSoFar' \in [Key -> SUBSET Provider]
        /\ buffer' \in Seq(Request)
        /\ query' \in [Request -> {"none", "buffered", "searching", "draining", "ended"}]
        /\ listeners' \in [Key -> SUBSET Request]
        /\ listeners'[k] \subseteq listeners[k] \cup {r}
        /\ \A l \in Key : l # k => listeners'[l] = listeners[l]
        /\ status'[k] # None
        /\ \A l \in Key : l # k => status'[l] = status[l]
    <2>1. CASE /\ status[k] = None
               /\ status' = [status EXCEPT ![k] = r]
               /\ providersSoFar' = [providersSoFar EXCEPT ![k] = {}]
               /\ UNCHANGED <<listeners, buffer, query>>
      BY <1>0, <1>3, <2>1, NoneAssumption, Zenon DEF TypeOK
    <2>2. CASE CreateStatus(r) /\ listeners' = [listeners EXCEPT ![k] = @ \cup {r}]
      <3>1. /\ status' \in [Key -> Request \cup {None}]
            /\ providersSoFar' \in [Key -> SUBSET Provider]
            /\ buffer' \in Seq(Request)
            /\ query' \in [Request -> {"none", "buffered", "searching", "draining", "ended"}]
            /\ status'[k] # None
            /\ \A l \in Key : \/ status'[l] = status[l]
                              \/ l = k /\ status'[l] = r /\ query'[r] = "buffered"
        BY <1>0, <1>3, <2>2, CreateFacts, Zenon
      <3>2. listeners[k] \cup {r} \in SUBSET Request
        BY <1>0, <1>3, Zenon DEF TypeOK
      <3>3. /\ listeners' \in [Key -> SUBSET Request]
            /\ listeners'[k] = listeners[k] \cup {r}
            /\ \A l \in Key : l # k => listeners'[l] = listeners[l]
        BY <1>0, <1>3, <2>2, <3>2, Zenon DEF TypeOK
      <3> QED
        BY <3>1, <3>3, Zenon
    <2> QED
      BY <2>1, <2>2, Zenon DEF HandleNewAborted
  <1> HIDE DEF r
  <1>6. TypeOK'
    BY <1>0, <1>1, <1>2, <1>5, Zenon DEF TypeOK
  <1>7. ListenersLive'
    <2> SUFFICES ASSUME NEW l \in Key, NEW o \in listeners'[l]
                 PROVE  KeyOf[o] = l /\ status'[l] # None /\ closes[o] = 0
      BY <1>0, <1>1, Zenon DEF ListenersLive
    <2>1. CASE o \in listeners[l]
      <3>1. KeyOf[o] = l /\ status[l] # None /\ closes[o] = 0
        BY <1>2, <2>1, Zenon DEF QueryInv, ListenersLive
      <3> QED
        BY <1>5, <3>1, Zenon
    <2>2. CASE o \notin listeners[l]
      BY <1>4, <1>5, <2>2, Zenon DEF Unregistered
    <2> QED
      BY <2>1, <2>2, Zenon
  <1>8. NewOnce'
    BY <1>0, Popped, Zenon
  <1>9. ASSUME NEW o \in Request, o # r, Unregistered(o)
        PROVE  closes[o] = 0 /\ \A l \in Key : o \notin listeners'[l]
    BY <1>5, <1>9, Zenon DEF Unregistered
  <1>10. NewFresh'
    <2> SUFFICES ASSUME NEW i \in 1 .. Len(messages'), messages'[i].kind = "new"
                 PROVE  /\ closes[messages'[i].req] = 0
                        /\ \A l \in Key : messages'[i].req \notin listeners'[l]
                        /\ call[messages'[i].req] \in {"awaiting", "done"}
      BY <1>0, <1>1, Zenon DEF NewFresh, Unregistered
    <2>1. /\ messages'[i].req \in Request
          /\ Unregistered(messages'[i].req)
          /\ call[messages'[i].req] \in {"awaiting", "done"}
          /\ messages'[i].req # r
      BY <1>0, <1>3, Popped, Zenon DEF r
    <2> QED
      BY <1>9, <2>1, Zenon
  <1>11. EarlyFresh'
    <2> SUFFICES ASSUME NEW o \in Request, call[o] \in Early
                 PROVE  /\ closes[o] = 0 /\ \A l \in Key : o \notin listeners'[l]
                        /\ \A i \in 1 .. Len(messages') :
                              messages'[i].kind = "new" => messages'[i].req # o
      BY <1>1, Zenon DEF EarlyFresh, Unregistered
    <2>1. o # r
      BY <1>4, Zenon DEF Early
    <2>2. /\ Unregistered(o)
          /\ \A i \in 1 .. Len(messages') :
                messages'[i].kind = "new" => messages'[i].req # o
      BY <1>0, Popped, Zenon
    <2> QED
      BY <1>9, <2>1, <2>2, Zenon
  <1> QED
    BY <1>0, <1>1, <1>6, <1>7, <1>8, <1>10, <1>11, Zenon DEF QueryInv, StatusPending,
       ReadersListed, ExitedDown

\* Every step of the manager preserves the invariant.
LEMMA NextIInv == QueryInv /\ [Next]_vars => QueryInv'
  <1> SUFFICES ASSUME QueryInv, [Next]_vars PROVE QueryInv'
    OBVIOUS
  <1>1. CASE UNCHANGED vars
    <2>1. /\ UNCHANGED <<call, ctxDone, unread, taken, joined, messages, status, listeners>>
          /\ UNCHANGED <<providersSoFar, closes, buffer, query, seen, connecting, connected>>
          /\ UNCHANGED <<down, runExited>>
      BY <1>1, Zenon DEF vars, callVars, statusVars, workVars
    <2>2. TypeOK' /\ NewOnce' /\ ExitedDown'
      BY <2>1, Zenon DEF QueryInv, TypeOK, NewOnce, ExitedDown
    <2>3. \A r : Onwards(r)
      BY <2>1, Zenon DEF Onwards
    <2>4. \A q \in Request : query[q] \in Live => down \/ Unfinished(q)'
      BY <2>1, Zenon DEF Unfinished, Live
    <2>5. Rest'
      BY <2>1, <2>2, <2>3, <2>4, Frame, Zenon
    <2> QED
      BY <2>2, <2>5, Zenon DEF QueryInv, Rest
  <1>2. CASE \E r \in Request : Ask(r) \/ SessionEnds(r) \/ Caller(r)
    <2>1. PICK r \in Request : Ask(r) \/ SessionEnds(r) \/ Caller(r)
      BY <1>2, Zenon
    <2>2. CASE Enqueue(r)
      BY <2>2, EnqueueStep, Zenon
    <2>3. CASE ~Enqueue(r)
      BY <2>1, <2>3, CallerStep, Zenon DEF Caller
    <2> QED
      BY <2>2, <2>3, Zenon
  <1>3. CASE \/ Dispatch \/ \E q \in Request : Worker(q)
             \/ \E q \in Request, p \in Provider : Found(q, p)
    <2>1. \/ Dispatch
          \/ \E q \in Request : \/ SearchEnds(q) \/ Finish(q) \/ WorkerExit(q)
                               \/ \E p \in Provider : Found(q, p) \/ Connect(q, p)
      BY <1>3, Zenon DEF Worker
    <2> QED
      BY <2>1, WorkerStep, Zenon
  <1>4. CASE RunLoop
    <2>1. CASE RunExit
      BY <2>1, RunExitStep, Zenon
    <2>2. CASE \E i \in DOMAIN messages : Handle(messages[i])
      <3>1. PICK m : Handle(m)
        BY <2>2, Zenon
      <3> QED
        BY <3>1, HandleNewStep, HandleNewAbortedStep, HandleProviderStep,
           HandleFinishedStep, HandleCancelStep, Zenon DEF Handle
    <2> QED
      BY <1>4, <2>1, <2>2, Zenon DEF RunLoop
  <1>5. CASE Shutdown
    BY <1>5, ShutdownStep, Zenon
  <1> QED
    BY <1>1, <1>2, <1>3, <1>4, <1>5, Zenon DEF Next

(* The strengthened invariant of the provider query manager's state holds  *)
(* in every reachable state.                                               *)
THEOREM Invariance == Spec => []QueryInv
  BY InitIInv, NextIInv, PTL DEF Spec

(* Every variable keeps its type, and no channel is closed twice by the    *)
(* finished, cancel and shutdown paths.                                    *)
THEOREM TypeCorrect == Spec => []TypeOK
  <1>1. QueryInv => TypeOK
    BY Zenon DEF QueryInv
  <1> QED
    BY <1>1, Invariance, PTL

(* The run loop never sends on a closed channel, nor waits for a listener  *)
(* that has gone (receivedProviderMessage.handle).                         *)
THEOREM ListenersStayLive == Spec => []ListenersLive
  <1>1. QueryInv => ListenersLive
    BY Zenon DEF QueryInv
  <1> QED
    BY <1>1, Invariance, PTL

(* A goroutine that waits on an open channel is a listener of a key whose  *)
(* query has yet to report its end (receiveProviders).                     *)
THEOREM NobodyIsForgotten == Spec => []NobodyForgotten
  <1>1. ASSUME QueryInv PROVE NobodyForgotten
    <2> SUFFICES ASSUME ~down, NEW r \in Reading, closes[r] = 0
                 PROVE  /\ r \in listeners[KeyOf[r]]
                        /\ status[KeyOf[r]] # None
                        /\ Unfinished(status[KeyOf[r]])
      BY Zenon DEF NobodyForgotten
    <2>1. r \in Request /\ KeyOf[r] \in Key
      BY KeyOfAssumption, Zenon DEF Reading
    <2>2. r \in listeners[KeyOf[r]]
      BY <1>1, Zenon DEF QueryInv, ReadersListed
    <2>3. ~runExited
      BY <1>1, Zenon DEF QueryInv, ExitedDown
    <2>4. status[KeyOf[r]] # None
      BY <1>1, <2>1, <2>2, <2>3, Zenon DEF QueryInv, ListenersLive
    <2> QED
      BY <1>1, <2>1, <2>2, <2>4, Zenon DEF QueryInv, StatusPending
  <1> QED
    BY <1>1, Invariance, PTL

-----------------------------------------------------------------------------
(* The provider query manager: who does not cancel gets all providers.     *)

\* The messages on their way to the run loop.
Sent == {messages[i] : i \in DOMAIN messages}

\* The request has not been answered by the run loop.
Unanswered == {"idle", "sending", "awaiting"}

\* Only a request whose session has ended cancels.
CancelsMeant ==
    /\ \A r \in Request : call[r] \in {"cancelling", "cancelled"} => r \in ctxDone
    /\ \A m \in Sent : m.kind = "cancel" => m.req \in ctxDone

\* A request that is not answered yet has no query, and its session read nothing.
UnansweredFresh ==
    \A r \in Request : call[r] \in Unanswered => query[r] = "none" /\ taken[r] = {}

\* A query connects to providers while a worker has it.
WorkInOrder ==
    \A q \in Request :
        /\ query[q] \in {"none", "buffered"} => connected[q] = {}
        /\ connecting[q] # {} => query[q] \in {"searching", "draining"}

\* A query sends nothing before a worker has it, and nothing after its end.
SentInOrder ==
    \A m \in Sent :
        /\ m.kind = "provider" =>
              \/ query[m.req] \in {"searching", "draining"}
              \/ Message("finished", m.req, None) \in Sent
        /\ m.kind = "finished" => query[m.req] = "ended"

\* The message of its end comes once, and is its last.
EndsLast ==
    \A i \in 1 .. Len(messages), j \in 1 .. Len(messages) :
        /\ messages[i].kind = "finished" /\ messages[j].req = messages[i].req
        /\ messages[j].kind \in {"provider", "finished"}
        => j <= i

\* The buffer holds queries no worker has taken, each once.
BufferInOrder ==
    /\ \A i \in 1 .. Len(buffer) : query[buffer[i]] = "buffered"
    /\ \A i \in 1 .. Len(buffer), j \in 1 .. Len(buffer) : buffer[i] = buffer[j] => i = j

Ordered == UnansweredFresh /\ WorkInOrder /\ SentInOrder /\ EndsLast /\ BufferInOrder

\* The query of the key's status is the only one that has not reported its end.
OneQuery(k) == \A q \in Request : KeyOf[q] = k /\ Unfinished(q) => status[k] = q

\* What it connected to has been recorded or is on its way.
Recorded(k) ==
    status[k] # None => \A p \in Provider :
        p \in connected[status[k]] <=>
            p \in providersSoFar[k] \/ Message("provider", status[k], p) \in Sent

\* Every listener has what was recorded.
UpToDate(k) ==
    \A r \in listeners[k] : /\ call[r] = "receiving" /\ joined[r] = status[k]
                            /\ taken[r] \cup unread[r] = providersSoFar[k]

\* Who is no longer a listener has all its query connected to.
Complete(r) ==
    /\ joined[r] \in Request
    /\ query[joined[r]] = "ended"
    /\ taken[r] \cup unread[r] = connected[joined[r]]
    /\ call[r] = "done" => unread[r] = {}

Served(k) ==
    \A r \in Request :
        KeyOf[r] = k /\ call[r] \in {"receiving", "done"} /\ r \notin listeners[k] => Complete(r)

Delivery(k) == OneQuery(k) /\ Recorded(k) /\ UpToDate(k) /\ Served(k)

\* Nobody who asks for the key has cancelled.
Calm(k) == \A o \in ctxDone : KeyOf[o] # k

\* The inductive invariant.
DeliveryInv ==
    /\ QueryInv /\ CancelsMeant
    /\ ~down => Ordered /\ \A k \in Key : Calm(k) => Delivery(k)

-----------------------------------------------------------------------------
\* Sending adds a message to those on their way.
LEMMA SentAfterSend ==
    ASSUME messages \in Seq(Messages), NEW m \in Messages, Send(m)
    PROVE  Sent' = Sent \cup {m}
<1>1. /\ messages' \in Seq(Messages)
      /\ Len(messages') = Len(messages) + 1
      /\ \A i \in 1 .. Len(messages) : messages'[i] = messages[i]
      /\ messages'[Len(messages) + 1] = m
  BY SendFacts, Zenon
<1>2. /\ DOMAIN messages = 1 .. Len(messages) /\ DOMAIN messages' = 1 .. Len(messages')
      /\ 1 .. Len(messages') = (1 .. Len(messages)) \cup {Len(messages) + 1}
  BY <1>1
<1>3. \A n : n \in Sent' <=> n \in Sent \cup {m}
  <2>1. ASSUME NEW n, n \in Sent' PROVE n \in Sent \cup {m}
    <3>1. PICK i \in 1 .. Len(messages') : n = messages'[i]
      BY <1>2, <2>1, Zenon DEF Sent
    <3> QED
      BY <1>1, <1>2, <3>1, Zenon DEF Sent
  <2>2. ASSUME NEW n, n \in Sent PROVE n \in Sent'
    <3>1. PICK i \in 1 .. Len(messages) : n = messages[i]
      BY <1>2, <2>2, Zenon DEF Sent
    <3>2. i \in DOMAIN messages' /\ n = messages'[i]
      BY <1>1, <1>2, <3>1, Zenon
    <3> QED
      BY <3>2, Zenon DEF Sent
  <2>3. m \in Sent'
    <3>1. Len(messages) + 1 \in DOMAIN messages'
      BY <1>2, Zenon
    <3> QED
      BY <1>1, <3>1, Zenon DEF Sent
  <2> QED
    BY <2>1, <2>2, <2>3, Zenon
<1> QED
  BY <1>3, Zenon

\* Receiving takes one away, unless it is there twice.
LEMMA SentAfterReceive ==
    ASSUME messages \in Seq(Messages), NEW m, Receive(m)
    PROVE  /\ m \in Messages /\ m \in Sent
           /\ Sent' \subseteq Sent /\ Sent \subseteq Sent' \cup {m}
<1>1. /\ messages' \in Seq(Messages)
      /\ m \in Messages
      /\ Len(messages) \in Nat /\ Len(messages) >= 1
      /\ m = messages[1]
      /\ Len(messages') = Len(messages) - 1
      /\ \A i \in 1 .. Len(messages') : messages'[i] = messages[i + 1]
  BY ReceiveFacts, Zenon
<1>2. /\ DOMAIN messages = 1 .. Len(messages) /\ DOMAIN messages' = 1 .. Len(messages')
      /\ 1 \in 1 .. Len(messages)
      /\ \A i \in 1 .. Len(messages') : i + 1 \in 1 .. Len(messages)
  BY <1>1
<1>3. \A i \in 1 .. Len(messages) :
         i = 1 \/ (i - 1 \in 1 .. Len(messages') /\ messages'[i - 1] = messages[i])
  BY <1>1
<1>4. m \in Sent
  BY <1>1, <1>2, Zenon DEF Sent
<1>5. ASSUME NEW n, n \in Sent' PROVE n \in Sent
  <2>1. PICK i \in 1 .. Len(messages') : n = messages'[i]
    BY <1>2, <1>5, Zenon DEF Sent
  <2>2. i + 1 \in DOMAIN messages /\ n = messages[i + 1]
    BY <1>1, <1>2, <2>1, Zenon
  <2> QED
    BY <2>2, Zenon DEF Sent
<1>6. ASSUME NEW n, n \in Sent PROVE n \in Sent' \cup {m}
  <2>1. PICK i \in 1 .. Len(messages) : n = messages[i]
    BY <1>2, <1>6, Zenon DEF Sent
  <2>2. i = 1 \/ (i - 1 \in DOMAIN messages' /\ n = messages'[i - 1])
    BY <1>2, <1>3, <2>1, Zenon
  <2> QED
    BY <1>1, <2>1, <2>2, Zenon DEF Sent
<1> QED
  BY <1>1, <1>4, <1>5, <1>6, Zenon

\* What is on its way is a message.
LEMMA SentTypes ==
    ASSUME messages \in Seq(Messages)
    PROVE  Sent \subseteq Messages
BY DEF Sent

\* After its last message a query sends no other.
LEMMA EndsLastSend ==
    ASSUME messages \in Seq(Messages), EndsLast, NEW m \in Messages, Send(m),
           m.kind \in {"provider", "finished"} => Message("finished", m.req, None) \notin Sent
    PROVE  EndsLast'
<1>1. /\ messages' \in Seq(Messages)
      /\ Len(messages') = Len(messages) + 1
      /\ \A i \in 1 .. Len(messages) : messages'[i] = messages[i]
      /\ messages'[Len(messages) + 1] = m
  BY SendFacts, Zenon
<1>2. SUFFICES ASSUME NEW i \in 1 .. Len(messages'), NEW j \in 1 .. Len(messages'),
                      messages'[i].kind = "finished", messages'[j].req = messages'[i].req,
                      messages'[j].kind \in {"provider", "finished"}
               PROVE  j <= i
  BY Zenon DEF EndsLast
<1>3. CASE i \in 1 .. Len(messages) /\ j \in 1 .. Len(messages)
  BY <1>1, <1>2, <1>3, Zenon DEF EndsLast
<1>4. CASE i = Len(messages) + 1
  BY <1>1, <1>4
<1>5. CASE i \in 1 .. Len(messages) /\ j = Len(messages) + 1
  <2>1. messages[i] \in Messages /\ i \in DOMAIN messages /\ messages'[i] = messages[i]
    BY <1>1, <1>5
  <2>2. messages[i] = Message("finished", m.req, None)
    BY <1>1, <1>2, <1>5, <2>1, MessageFields, Zenon
  <2>3. messages[i] \in Sent
    BY <2>1, Zenon DEF Sent
  <2> QED
    BY <1>1, <1>2, <1>5, <2>2, <2>3, Zenon
<1> QED
  BY <1>1, <1>3, <1>4, <1>5

\* With its last message received, nothing of a query is on its way.
LEMMA EndsLastReceive ==
    ASSUME messages \in Seq(Messages), EndsLast, NEW m, Receive(m)
    PROVE  /\ EndsLast'
           /\ m.kind = "finished" => \A n \in Sent' :
                 n.req = m.req => n.kind \notin {"provider", "finished"}
<1>1. /\ messages' \in Seq(Messages)
      /\ Len(messages) \in Nat /\ Len(messages) >= 1
      /\ m = messages[1]
      /\ Len(messages') = Len(messages) - 1
      /\ \A i \in 1 .. Len(messages') : messages'[i] = messages[i + 1]
  BY ReceiveFacts, Zenon
<1>2. \A i \in 1 .. Len(messages') :
         i + 1 \in 1 .. Len(messages) /\ messages'[i] = messages[i + 1]
  BY <1>1
<1>3. EndsLast'
  <2>1. SUFFICES ASSUME NEW i \in 1 .. Len(messages'), NEW j \in 1 .. Len(messages'),
                        messages'[i].kind = "finished", messages'[j].req = messages'[i].req,
                        messages'[j].kind \in {"provider", "finished"}
                 PROVE  j <= i
    BY Zenon DEF EndsLast
  <2>2. j + 1 <= i + 1
    BY <1>2, <2>1, Zenon DEF EndsLast
  <2> QED
    BY <2>2
<1>4. ASSUME m.kind = "finished", NEW n \in Sent', n.req = m.req
      PROVE  n.kind \notin {"provider", "finished"}
  <2>1. PICK i \in DOMAIN messages' : n = messages'[i]
    BY <1>4, Zenon DEF Sent
  <2>2. i \in 1 .. Len(messages') /\ 1 \in 1 .. Len(messages)
    BY <1>1, <2>1
  <2>3. i + 1 \in 1 .. Len(messages) /\ n = messages[i + 1]
    BY <1>2, <2>1, <2>2, Zenon
  <2>4. n.kind \in {"provider", "finished"} => i + 1 <= 1
    BY <1>1, <1>4, <2>2, <2>3, Zenon DEF EndsLast
  <2> QED
    BY <2>2, <2>4
<1> QED
  BY <1>3, <1>4, Zenon

\* Steps that leave the queries alone, and of their messages take none but a
\* provider's.
LEMMA OrderKept ==
    ASSUME Ordered, EndsLast', UNCHANGED <<query, connected, connecting, buffer>>,
           \A m \in Sent' : m.kind \in {"provider", "finished"} => m \in Sent,
           \A m \in Sent : m.kind = "finished" => m \in Sent',
           \A r \in Request : call'[r] \in Unanswered =>
              call[r] \in Unanswered /\ taken'[r] = taken[r]
    PROVE  Ordered'
<1>1. UnansweredFresh'
  BY Zenon DEF Ordered, UnansweredFresh
<1>2. WorkInOrder' /\ BufferInOrder'
  BY Zenon DEF Ordered, WorkInOrder, BufferInOrder
<1>3. SentInOrder'
  <2>1. SUFFICES ASSUME NEW m \in Sent'
                 PROVE  /\ m.kind = "provider" =>
                             \/ query[m.req] \in {"searching", "draining"}
                             \/ Message("finished", m.req, None) \in Sent'
                        /\ m.kind = "finished" => query[m.req] = "ended"
    BY Zenon DEF SentInOrder, Message
  <2>2. m.kind \in {"provider", "finished"} => m \in Sent
    OBVIOUS
  <2>3. Message("finished", m.req, None).kind = "finished"
    BY Zenon DEF Message
  <2> QED
    BY <2>2, <2>3, Zenon DEF Ordered, SentInOrder
<1> QED
  BY <1>1, <1>2, <1>3, Zenon DEF Ordered

\* Queueing or cancelling a request sends nothing for a query.
LEMMA OtherSend ==
    ASSUME QueryInv, Ordered, NEW r \in Request, NEW kd \in {"new", "cancel"},
           Send(Message(kd, r, None))
    PROVE  /\ EndsLast'
           /\ Sent' = Sent \cup {Message(kd, r, None)}
           /\ \A m \in Sent' : m.kind \in {"provider", "finished"} => m \in Sent
<1>1. messages \in Seq(Messages)
  BY Zenon DEF QueryInv, TypeOK
<1>2. Message(kd, r, None) \in Messages /\ Message(kd, r, None).kind = kd
  <2>1. kd \in {"new", "cancel", "finished"}
    OBVIOUS
  <2> QED
    BY <2>1, MessageTypes, SMT
<1>3. kd \notin {"provider", "finished"}
  OBVIOUS
<1>4. EndsLast'
  BY <1>1, <1>2, <1>3, EndsLastSend, Zenon DEF Ordered
<1>5. Sent' = Sent \cup {Message(kd, r, None)}
  BY <1>1, <1>2, SentAfterSend, Zenon
<1> QED
  BY <1>2, <1>3, <1>4, <1>5, Zenon

\* Unread messages stay.
LEMMA NothingSent ==
    ASSUME Ordered, messages' = messages
    PROVE  Sent' = Sent /\ EndsLast'
BY Zenon DEF Sent, Ordered, EndsLast

\* The steps of a caller.
LEMMA CallerOrder ==
    ASSUME QueryInv, Ordered, NEW r \in Request,
           Ask(r) \/ SessionEnds(r) \/ Caller(r)
    PROVE  Ordered'
<1>1. UNCHANGED <<query, connected, connecting, buffer>>
  BY Zenon DEF Ask, SessionEnds, Caller, Enqueue, Abandon, Leave, Cancel, Take, CallerFrame,
     workVars
<1>2. /\ EndsLast'
      /\ \A m \in Sent' : m.kind \in {"provider", "finished"} => m \in Sent
      /\ \A m \in Sent : m.kind = "finished" => m \in Sent'
  <2>1. \/ messages' = messages
        \/ \E kd \in {"new", "cancel"} : Send(Message(kd, r, None))
    BY Zenon DEF Ask, SessionEnds, Caller, Enqueue, Abandon, Leave, Cancel, Take
  <2> QED
    BY <2>1, OtherSend, NothingSent, Zenon
<1>3. ASSUME NEW o \in Request, call'[o] \in Unanswered
      PROVE  call[o] \in Unanswered /\ taken'[o] = taken[o]
  <2>1. call \in [Request -> Stage] /\ taken \in [Request -> SUBSET Provider]
    BY Zenon DEF QueryInv, TypeOK
  <2>2. CASE \E p \in Provider : Take(r, p)
    BY <1>3, <2>1, <2>2, Zenon DEF Take, Unanswered
  <2>3. CASE SessionEnds(r)
    BY <1>3, <2>1, <2>3, Zenon DEF SessionEnds
  <2>4. CASE ~SessionEnds(r) /\ ~\E p \in Provider : Take(r, p)
    <3>1. taken' = taken
      BY <2>4, Zenon DEF Ask, Caller, Enqueue, Abandon, Leave, Cancel, CallerFrame
    <3>2. \/ Move(r, "sending") /\ call[r] = "idle"
          \/ Move(r, "awaiting") /\ call[r] = "sending"
          \/ Move(r, "done") \/ Move(r, "cancelling") \/ Move(r, "cancelled")
      BY <2>4, Zenon DEF Ask, Caller, Enqueue, Abandon, Leave, Cancel
    <3>3. call'[o] # call[o] =>
            \/ o = r /\ call[r] \in Unanswered
            \/ call'[o] \in {"done", "cancelling", "cancelled"}
      BY <2>1, <3>2, Zenon DEF Move, Unanswered
    <3> QED
      BY <1>3, <3>1, <3>3, Zenon DEF Unanswered
  <2> QED
    BY <2>2, <2>3, <2>4, Zenon
<1> QED
  BY <1>1, <1>2, <1>3, OrderKept, Zenon

\* A worker takes the first query of the buffer.
LEMMA DispatchOrder ==
    ASSUME QueryInv, Ordered, Dispatch
    PROVE  /\ Ordered'
           /\ Head(buffer) \in Request /\ query[Head(buffer)] = "buffered"
           /\ query' = [query EXCEPT ![Head(buffer)] = "searching"]
<1> DEFINE q == Head(buffer)
<1>0. /\ buffer \in Seq(Request)
      /\ query \in [Request -> {"none", "buffered", "searching", "draining", "ended"}]
  BY Zenon DEF QueryInv, TypeOK
<1>1. /\ buffer # <<>> /\ buffer' = Tail(buffer)
      /\ query' = [query EXCEPT ![q] = "searching"]
      /\ UNCHANGED <<messages, connecting, connected, call, taken>>
  BY Zenon DEF Dispatch, WorkerFrame, callVars
<1>2. /\ q = buffer[1] /\ q \in Request /\ 1 \in 1 .. Len(buffer)
      /\ \A i \in 1 .. Len(buffer') :
            /\ i + 1 \in 1 .. Len(buffer) /\ i + 1 # 1
            /\ buffer'[i] = buffer[i + 1]
      /\ \A i \in 1 .. Len(buffer'), j \in 1 .. Len(buffer') : i + 1 = j + 1 => i = j
  BY <1>0, <1>1
<1>3. query[q] = "buffered"
  BY <1>2, Zenon DEF Ordered, BufferInOrder
<1> HIDE DEF q
<1>4. query'[q] = "searching" /\ \A o \in Request : o # q => query'[o] = query[o]
  BY <1>0, <1>1, <1>2, Zenon
<1>5. Sent' = Sent /\ EndsLast'
  BY <1>1, NothingSent, Zenon
<1>6. UnansweredFresh'
  BY <1>1, <1>3, <1>4, Zenon DEF Ordered, UnansweredFresh
<1>7. WorkInOrder'
  BY <1>1, <1>3, <1>4, Zenon DEF Ordered, WorkInOrder
<1>8. SentInOrder'
  <2>1. SUFFICES ASSUME NEW m \in Sent
                 PROVE  /\ m.kind = "provider" =>
                             \/ query'[m.req] \in {"searching", "draining"}
                             \/ Message("finished", m.req, None) \in Sent
                        /\ m.kind = "finished" => query'[m.req] = "ended"
    BY <1>5, Zenon DEF SentInOrder, Message
  <2>2. m.req \in Request
    BY SentTypes, MessageFields, Zenon DEF QueryInv, TypeOK
  <2> QED
    BY <1>3, <1>4, <2>2, Zenon DEF Ordered, SentInOrder
<1>9. BufferInOrder'
  <2>1. ASSUME NEW i \in 1 .. Len(buffer') PROVE query'[buffer'[i]] = "buffered"
    <3>1. /\ i + 1 \in 1 .. Len(buffer) /\ i + 1 # 1
          /\ buffer'[i] = buffer[i + 1]
      BY <1>2, Zenon
    <3>2. buffer[i + 1] \in Request
      BY <1>0, <3>1
    <3>3. buffer[i + 1] # q /\ query[buffer[i + 1]] = "buffered"
      BY <1>2, <3>1, Zenon DEF Ordered, BufferInOrder
    <3> QED
      BY <1>4, <3>1, <3>2, <3>3, Zenon
  <2>2. ASSUME NEW i \in 1 .. Len(buffer'), NEW j \in 1 .. Len(buffer'),
               buffer'[i] = buffer'[j]
        PROVE  i = j
    <3>1. /\ i + 1 \in 1 .. Len(buffer) /\ j + 1 \in 1 .. Len(buffer)
          /\ buffer[i + 1] = buffer[j + 1]
      BY <1>2, <2>2, Zenon
    <3>2. i + 1 = j + 1
      BY <3>1, Zenon DEF Ordered, BufferInOrder
    <3> QED
      BY <1>2, <3>2, Zenon
  <2> QED
    BY <2>1, <2>2, Zenon DEF BufferInOrder
<1> QED
  BY <1>1, <1>2, <1>3, <1>5, <1>6, <1>7, <1>8, <1>9, Zenon DEF Ordered, q

\* A query that a worker has sent no last message.
LEMMA NotOver ==
    ASSUME QueryInv, Ordered, NEW q \in Request, query[q] # "ended"
    PROVE  Message("finished", q, None) \notin Sent
<1>1. Message("finished", q, None).kind = "finished" /\ Message("finished", q, None).req = q
  BY Zenon DEF Message
<1> QED
  BY <1>1, Zenon DEF Ordered, SentInOrder

\* The steps of a worker that has a query.
LEMMA WorkerOrder ==
    ASSUME QueryInv, Ordered, NEW q \in Request,
           \/ SearchEnds(q) \/ Finish(q)
           \/ \E p \in Provider : Found(q, p) \/ Connect(q, p)
    PROVE  /\ Ordered'
           /\ query[q] \in {"searching", "draining"}
           /\ \A o \in Request : o # q =>
                 query'[o] = query[o] /\ connected'[o] = connected[o]
<1>0. /\ messages \in Seq(Messages)
      /\ query \in [Request -> {"none", "buffered", "searching", "draining", "ended"}]
      /\ connecting \in [Request -> SUBSET Provider]
      /\ connected \in [Request -> SUBSET Provider]
  BY Zenon DEF QueryInv, TypeOK
<1>1. UNCHANGED <<call, taken, buffer>>
  BY Zenon DEF SearchEnds, Finish, Found, Connect, WorkerFrame, callVars
<1>2. query[q] \in {"searching", "draining"}
  BY Zenon DEF SearchEnds, Finish, Found, Connect, Ordered, WorkInOrder
<1>3. \A o \in Request : o # q => /\ query'[o] = query[o] /\ connected'[o] = connected[o]
                                   /\ connecting'[o] = connecting[o]
  BY <1>0, Zenon DEF SearchEnds, Finish, Found, Connect
<1>4. /\ query'[q] \in {"searching", "draining", "ended"}
      /\ query'[q] = "ended" => connecting'[q] = {} /\ Finish(q)
  BY <1>0, <1>2, Zenon DEF SearchEnds, Finish, Found, Connect
<1>5. \/ messages' = messages /\ query'[q] # "ended"
      \/ Send(Message("finished", q, None)) /\ query'[q] = "ended"
      \/ \E p \in Provider : Send(Message("provider", q, p)) /\ query'[q] = query[q]
  BY <1>0, <1>2, Zenon DEF SearchEnds, Finish, Found, Connect
<1>6. /\ EndsLast' /\ Sent \subseteq Sent'
      /\ \A m \in Sent' : \/ m \in Sent
                          \/ m.req = q /\ (m.kind = "finished" => query'[q] = "ended")
      /\ query'[q] = "ended" => Message("finished", q, None) \in Sent'
  <2>0. Message("finished", q, None) \notin Sent
    BY <1>2, NotOver
  <2>1. CASE messages' = messages /\ query'[q] # "ended"
    BY <2>1, NothingSent, Zenon
  <2>2. CASE Send(Message("finished", q, None)) /\ query'[q] = "ended"
    <3>1. Message("finished", q, None) \in Messages /\ Message("finished", q, None).req = q
      BY MessageTypes
    <3>2. Sent' = Sent \cup {Message("finished", q, None)}
      BY <1>0, <2>2, <3>1, SentAfterSend, Zenon
    <3>3. EndsLast'
      BY <1>0, <2>0, <2>2, <3>1, EndsLastSend, Zenon DEF Ordered
    <3> QED
      BY <2>2, <3>1, <3>2, <3>3, Zenon
  <2>3. CASE \E p \in Provider : Send(Message("provider", q, p)) /\ query'[q] = query[q]
    <3>0. PICK p \in Provider : Send(Message("provider", q, p)) /\ query'[q] = query[q]
      BY <2>3, Zenon
    <3>1. /\ Message("provider", q, p) \in Messages /\ Message("provider", q, p).req = q
          /\ Message("provider", q, p).kind = "provider"
      BY MessageTypes
    <3>2. Sent' = Sent \cup {Message("provider", q, p)}
      BY <1>0, <3>0, <3>1, SentAfterSend, Zenon
    <3>3. EndsLast'
      BY <1>0, <2>0, <3>0, <3>1, EndsLastSend, Zenon DEF Ordered
    <3>4. query'[q] # "ended"
      BY <1>2, <3>0
    <3> QED
      BY <3>1, <3>2, <3>3, <3>4, Zenon
  <2> QED
    BY <1>5, <2>1, <2>2, <2>3, Zenon
<1>7. UnansweredFresh' /\ WorkInOrder'
  <2>1. UnansweredFresh'
    BY <1>1, <1>2, <1>3, Zenon DEF Ordered, UnansweredFresh
  <2>2. ASSUME NEW o \in Request
        PROVE  /\ query'[o] \in {"none", "buffered"} => connected'[o] = {}
               /\ connecting'[o] # {} => query'[o] \in {"searching", "draining"}
    <3>1. CASE o = q
      BY <1>4, <3>1
    <3>2. CASE o # q
      BY <1>3, <3>2, Zenon DEF Ordered, WorkInOrder
    <3> QED
      BY <3>1, <3>2, Zenon
  <2> QED
    BY <2>1, <2>2, Zenon DEF WorkInOrder
<1>8. SentInOrder'
  <2>1. SUFFICES ASSUME NEW m \in Sent'
                 PROVE  /\ m.kind = "provider" =>
                             \/ query'[m.req] \in {"searching", "draining"}
                             \/ Message("finished", m.req, None) \in Sent'
                        /\ m.kind = "finished" => query'[m.req] = "ended"
    BY Zenon DEF SentInOrder, Message
  <2>2. CASE m \in Sent /\ m.req # q
    <3>1. m.req \in Request
      BY <1>0, <2>2, SentTypes, MessageFields, Zenon
    <3> QED
      BY <1>3, <1>6, <2>2, <3>1, Zenon DEF Ordered, SentInOrder
  <2>3. CASE m.req = q
    <3>1. m.kind = "finished" => query'[q] = "ended"
      BY <1>2, <1>6, <2>3 DEF Ordered, SentInOrder
    <3> QED
      BY <1>4, <1>6, <2>3, <3>1, Zenon
  <2> QED
    BY <1>6, <2>2, <2>3, Zenon
<1>9. BufferInOrder'
  <2>1. ASSUME NEW i \in 1 .. Len(buffer) PROVE query'[buffer[i]] = "buffered"
    <3>1. query[buffer[i]] = "buffered" /\ buffer[i] \in Request
      BY DEF Ordered, BufferInOrder, QueryInv, TypeOK
    <3> QED
      BY <1>2, <1>3, <3>1
  <2> QED
    BY <1>1, <2>1, Zenon DEF Ordered, BufferInOrder
<1> QED
  BY <1>2, <1>3, <1>6, <1>7, <1>8, <1>9, Zenon DEF Ordered

\* The handlers that leave the queries alone.
LEMMA HandlerOrder ==
    ASSUME QueryInv, Ordered, NEW m, HandleProvider(m) \/ HandleCancel(m)
    PROVE  Ordered'
<1>0. messages \in Seq(Messages) /\ Receive(m) /\ m.kind # "finished"
  BY Zenon DEF QueryInv, TypeOK, HandleProvider, HandleCancel
<1>1. EndsLast'
  BY <1>0, EndsLastReceive, Zenon DEF Ordered
<1>2. Sent' \subseteq Sent /\ Sent \subseteq Sent' \cup {m}
  BY <1>0, SentAfterReceive, Zenon
<1>3. UNCHANGED <<query, connected, connecting, buffer, call, taken>>
  BY Zenon DEF HandleProvider, HandleCancel, HandlerFrame, callVars, workVars
<1> QED
  BY <1>0, <1>1, <1>2, <1>3, OrderKept, Zenon

\* The handler of a query's end.
LEMMA FinishedOrder ==
    ASSUME QueryInv, Ordered, NEW m, HandleFinished(m)
    PROVE  Ordered'
<1>0. messages \in Seq(Messages) /\ Receive(m) /\ m.kind = "finished"
  BY Zenon DEF QueryInv, TypeOK, HandleFinished
<1>1. /\ EndsLast'
      /\ \A n \in Sent' : n.req = m.req => n.kind \notin {"provider", "finished"}
  BY <1>0, EndsLastReceive, Zenon DEF Ordered
<1>2. Sent' \subseteq Sent /\ Sent \subseteq Sent' \cup {m}
  BY <1>0, SentAfterReceive, Zenon
<1>3. UNCHANGED <<query, connected, connecting, buffer, call, taken>>
  BY Zenon DEF HandleFinished, HandlerFrame, callVars, workVars
<1>4. UnansweredFresh' /\ WorkInOrder' /\ BufferInOrder'
  BY <1>3, Zenon DEF Ordered, UnansweredFresh, WorkInOrder, BufferInOrder
<1>5. SentInOrder'
  <2>1. SUFFICES ASSUME NEW n \in Sent'
                 PROVE  /\ n.kind = "provider" =>
                             \/ query[n.req] \in {"searching", "draining"}
                             \/ Message("finished", n.req, None) \in Sent'
                        /\ n.kind = "finished" => query[n.req] = "ended"
    BY <1>3, Zenon DEF SentInOrder, Message
  <2>2. n \in Sent /\ (n.kind = "provider" => n.req # m.req)
    BY <1>1, <1>2, Zenon
  <2>3. Message("finished", n.req, None).req = n.req
    BY Zenon DEF Message
  <2> QED
    BY <1>2, <2>2, <2>3, Zenon DEF Ordered, SentInOrder
<1> QED
  BY <1>1, <1>4, <1>5, Zenon DEF Ordered

\* What the answer to a request changes for the queries: at most its own one
\* begins.
LEMMA NewFacts ==
    ASSUME QueryInv, Ordered, NEW m, HandleNew(m)
    PROVE  /\ m \in Messages /\ m.req \in Request /\ KeyOf[m.req] \in Key
           /\ query[m.req] = "none" /\ taken[m.req] = {}
           /\ call' = [call EXCEPT ![m.req] = "receiving"]
           /\ UNCHANGED <<ctxDone, taken, connected, connecting>>
           /\ \A n : n \in Sent' => n \in Sent
           /\ \A n \in Sent : n.kind # "new" => n \in Sent'
           /\ \/ status[KeyOf[m.req]] # None /\ UNCHANGED <<query, buffer>>
              \/ /\ status[KeyOf[m.req]] = None /\ buffer' = Append(buffer, m.req)
                 /\ query' = [query EXCEPT ![m.req] = "buffered"]
<1>0. messages \in Seq(Messages) /\ Receive(m) /\ m.kind = "new"
  BY Zenon DEF QueryInv, TypeOK, HandleNew
<1>1. m \in Messages /\ Sent' \subseteq Sent /\ Sent \subseteq Sent' \cup {m}
  BY <1>0, SentAfterReceive, Zenon
<1>2. m.req \in Request /\ KeyOf[m.req] \in Key
  BY <1>1, MessageFields, KeyOfAssumption, Zenon
<1>3. query[m.req] = "none" /\ taken[m.req] = {}
  BY <1>2, Zenon DEF HandleNew, Ordered, UnansweredFresh, Unanswered
<1>4. /\ call' = [call EXCEPT ![m.req] = "receiving"]
      /\ UNCHANGED <<ctxDone, taken, connected, connecting>>
  BY Zenon DEF HandleNew, Move
<1>5. \/ status[KeyOf[m.req]] # None /\ UNCHANGED <<query, buffer>>
      \/ /\ status[KeyOf[m.req]] = None /\ buffer' = Append(buffer, m.req)
         /\ query' = [query EXCEPT ![m.req] = "buffered"]
  BY Zenon DEF HandleNew, CreateStatus
<1> QED
  BY <1>0, <1>1, <1>2, <1>3, <1>4, <1>5, Zenon

\* The handler of a request.
LEMMA NewOrder ==
    ASSUME QueryInv, Ordered, NEW m, HandleNew(m)
    PROVE  Ordered'
<1> DEFINE r == m.req
<1>0. /\ messages \in Seq(Messages) /\ Receive(m)
      /\ call \in [Request -> Stage] /\ buffer \in Seq(Request)
      /\ query \in [Request -> {"none", "buffered", "searching", "draining", "ended"}]
  BY Zenon DEF QueryInv, TypeOK, HandleNew
<1>1. /\ r \in Request /\ query[r] = "none"
      /\ call' = [call EXCEPT ![r] = "receiving"]
      /\ UNCHANGED <<taken, connected, connecting>>
      /\ \A n : n \in Sent' => n \in Sent
      /\ \A n \in Sent : n.kind # "new" => n \in Sent'
      /\ \/ UNCHANGED <<query, buffer>>
         \/ buffer' = Append(buffer, r) /\ query' = [query EXCEPT ![r] = "buffered"]
  BY NewFacts, Zenon
<1> HIDE DEF r
<1>2. EndsLast'
  BY <1>0, EndsLastReceive, Zenon DEF Ordered
<1>3. call'[r] = "receiving" /\ \A o \in Request : o # r => call'[o] = call[o]
  BY <1>0, <1>1, Zenon
<1>4. CASE UNCHANGED <<query, buffer>>
  <2>1. \A o \in Request : call'[o] \in Unanswered => call[o] \in Unanswered
    BY <1>3, Zenon DEF Unanswered
  <2>2. /\ \A n \in Sent' : n.kind \in {"provider", "finished"} => n \in Sent
        /\ \A n \in Sent : n.kind = "finished" => n \in Sent'
    BY <1>1, Zenon
  <2> QED
    BY <1>1, <1>2, <1>4, <2>1, <2>2, OrderKept, Zenon
<1>5. CASE buffer' = Append(buffer, r) /\ query' = [query EXCEPT ![r] = "buffered"]
  <2>1. query'[r] = "buffered" /\ \A o \in Request : o # r => query'[o] = query[o]
    BY <1>0, <1>1, <1>5, Zenon
  <2>2. UnansweredFresh'
    <3>1. "receiving" \notin Unanswered
      BY DEF Unanswered
    <3> QED
      BY <1>1, <1>3, <2>1, <3>1, Zenon DEF Ordered, UnansweredFresh
  <2>3. WorkInOrder'
    BY <1>1, <2>1, Zenon DEF Ordered, WorkInOrder
  <2>4. SentInOrder'
    <3>1. SUFFICES ASSUME NEW n \in Sent'
                   PROVE  /\ n.kind = "provider" =>
                               \/ query'[n.req] \in {"searching", "draining"}
                               \/ Message("finished", n.req, None) \in Sent'
                          /\ n.kind = "finished" => query'[n.req] = "ended"
      BY Zenon DEF SentInOrder, Message
    <3>2. n \in Sent /\ n.req \in Request
      BY <1>0, <1>1, SentTypes, MessageFields, Zenon
    <3>3. Message("finished", n.req, None).kind # "new"
      BY DEF Message
    <3>4. /\ n.kind = "provider" =>
                \/ query[n.req] \in {"searching", "draining"}
                \/ Message("finished", n.req, None) \in Sent'
          /\ n.kind = "finished" => query[n.req] = "ended"
      BY <1>1, <3>2, <3>3, Zenon DEF Ordered, SentInOrder
    <3> QED
      BY <1>1, <2>1, <3>2, <3>4, Zenon
  <2>5. BufferInOrder'
    <3>1. /\ Len(buffer) \in Nat /\ Len(buffer') = Len(buffer) + 1
          /\ buffer'[Len(buffer) + 1] = r
          /\ \A i \in 1 .. Len(buffer) : buffer'[i] = buffer[i] /\ buffer[i] \in Request
      BY <1>0, <1>1, <1>5
    <3>2. 1 .. Len(buffer') = (1 .. Len(buffer)) \cup {Len(buffer) + 1}
      BY <3>1
    <3>3. \A i \in 1 .. Len(buffer) : buffer[i] # r /\ query'[buffer[i]] = "buffered"
      BY <1>1, <2>1, <3>1 DEF Ordered, BufferInOrder
    <3>4. \A i \in 1 .. Len(buffer') : query'[buffer'[i]] = "buffered"
      BY <2>1, <3>1, <3>2, <3>3, Zenon
    <3>5. ASSUME NEW i \in 1 .. Len(buffer'), NEW j \in 1 .. Len(buffer'),
                 buffer'[i] = buffer'[j]
          PROVE  i = j
      <4>1. CASE i \in 1 .. Len(buffer) /\ j \in 1 .. Len(buffer)
        BY <3>1, <3>5, <4>1, Zenon DEF Ordered, BufferInOrder
      <4>2. CASE i = Len(buffer) + 1 \/ j = Len(buffer) + 1
        BY <3>1, <3>2, <3>3, <3>5, <4>2, Zenon
      <4> QED
        BY <3>2, <4>1, <4>2, Zenon
    <3> QED
      BY <3>4, <3>5, Zenon DEF BufferInOrder
  <2> QED
    BY <1>2, <2>2, <2>3, <2>4, <2>5, Zenon DEF Ordered
<1> QED
  BY <1>1, <1>4, <1>5, Zenon

-----------------------------------------------------------------------------
\* What a step does to a request for the key that it does not answer: nothing
\* that counts, or it has not been answered before or after, or it leaves with
\* nothing unread when its channel is closed.
Keeps(r, k) ==
    \/ /\ call'[r] = call[r] /\ joined'[r] = joined[r]
       /\ taken'[r] \cup unread'[r] = taken[r] \cup unread[r]
       /\ call[r] = "done" => unread'[r] = unread[r]
    \/ call[r] \in Unanswered /\ call'[r] \in Unanswered
    \/ /\ call[r] = "receiving" /\ call'[r] = "done" /\ r \notin listeners[k]
       /\ UNCHANGED <<joined, taken, unread>> /\ unread[r] = {}

\* Steps that neither answer a request for the key nor end its query.
LEMMA DeliveryKept ==
    ASSUME TypeOK, NEW k \in Key, Delivery(k), Recorded(k)',
           status'[k] = status[k], listeners'[k] = listeners[k],
           providersSoFar'[k] = providersSoFar[k],
           \A q \in Request : KeyOf[q] = k /\ Unfinished(q)' => Unfinished(q),
           \A q \in Request : query[q] = "ended" =>
              query'[q] = "ended" /\ connected'[q] = connected[q],
           \A r \in Request : KeyOf[r] = k => Keeps(r, k),
           \A r \in listeners[k] : KeyOf[r] = k
    PROVE  Delivery(k)'
<1>1. OneQuery(k)'
  BY Zenon DEF Delivery, OneQuery
<1>2. UpToDate(k)'
  <2>1. SUFFICES ASSUME NEW r \in listeners[k]
                 PROVE  /\ call'[r] = "receiving" /\ joined'[r] = status[k]
                        /\ taken'[r] \cup unread'[r] = providersSoFar[k]
    BY Zenon DEF UpToDate
  <2>2. r \in Request
    BY Zenon DEF TypeOK
  <2>3. /\ call[r] = "receiving" /\ joined[r] = status[k]
        /\ taken[r] \cup unread[r] = providersSoFar[k]
    BY Zenon DEF Delivery, UpToDate
  <2>4. Keeps(r, k) /\ call[r] \notin Unanswered
    BY <2>2, <2>3 DEF Unanswered
  <2> QED
    BY <2>3, <2>4, Zenon DEF Keeps
<1>3. Served(k)'
  <2>1. SUFFICES ASSUME NEW r \in Request, KeyOf[r] = k, r \notin listeners[k],
                        call'[r] \in {"receiving", "done"}
                 PROVE  Complete(r)'
    BY Zenon DEF Served
  <2>2. Keeps(r, k) /\ call'[r] \notin Unanswered
    BY <2>1 DEF Unanswered
  <2>3. call[r] \in {"receiving", "done"}
    BY <2>1, <2>2, Zenon DEF Keeps
  <2>4. Complete(r)
    BY <2>1, <2>3, Zenon DEF Delivery, Served
  <2>5. /\ joined'[r] = joined[r] /\ taken'[r] \cup unread'[r] = taken[r] \cup unread[r]
        /\ call'[r] = "done" => unread'[r] = {}
    BY <2>2, <2>4, Zenon DEF Keeps, Complete
  <2> QED
    BY <2>4, <2>5, Zenon DEF Complete
<1> QED
  BY <1>1, <1>2, <1>3, Zenon DEF Delivery

\* The steps of a caller do not touch the delivery of a key nobody cancels.
LEMMA CallerDelivery ==
    ASSUME DeliveryInv, ~down, NEW k \in Key, Calm(k)', NEW r \in Request,
           Ask(r) \/ SessionEnds(r) \/ Caller(r)
    PROVE  Delivery(k)'
<1>0. /\ TypeOK /\ ListenersLive /\ ~runExited /\ Ordered /\ QueryInv
      /\ messages \in Seq(Messages)
      /\ call \in [Request -> Stage] /\ unread \in [Request -> SUBSET Provider]
      /\ taken \in [Request -> SUBSET Provider]
  BY Zenon DEF DeliveryInv, QueryInv, TypeOK, ExitedDown
<1>1. ctxDone \subseteq ctxDone'
  BY Zenon DEF Ask, SessionEnds, Caller, Enqueue, Abandon, Leave, Cancel, Take, CallerFrame
<1>2. Calm(k) /\ Delivery(k)
  BY <1>1, Zenon DEF Calm, DeliveryInv
<1>3. UNCHANGED <<query, connected, status, listeners, providersSoFar>>
  BY Zenon DEF Ask, SessionEnds, Caller, Enqueue, Abandon, Leave, Cancel, Take, CallerFrame,
     workVars, statusVars
<1>4. /\ \A m \in Sent' : m.kind \in {"provider", "finished"} => m \in Sent
      /\ Sent \subseteq Sent'
  <2>1. \/ messages' = messages
        \/ \E kd \in {"new", "cancel"} : Send(Message(kd, r, None))
    BY Zenon DEF Ask, SessionEnds, Caller, Enqueue, Abandon, Leave, Cancel, Take
  <2> QED
    BY <1>0, <2>1, OtherSend, NothingSent, Zenon
<1>5. Recorded(k)'
  <2>1. \A q, p : Message("provider", q, p) \in Sent' <=> Message("provider", q, p) \in Sent
    BY <1>4, Zenon DEF Message
  <2> QED
    BY <1>2, <1>3, <2>1, Zenon DEF Delivery, Recorded, Message
<1>6. \A q \in Request : Unfinished(q)' => Unfinished(q)
  <2>1. \A q : Message("finished", q, None) \in Sent' => Message("finished", q, None) \in Sent
    BY <1>4, Zenon DEF Message
  <2> QED
    BY <1>3, <2>1, Zenon DEF Unfinished, Sent, Message
<1>7. \A o \in listeners[k] : KeyOf[o] = k /\ closes[o] = 0
  BY <1>0, Zenon DEF ListenersLive
<1>8. ASSUME NEW o \in Request, KeyOf[o] = k PROVE Keeps(o, k)
  <2>1. o \notin ctxDone
    BY <1>2, <1>8, Zenon DEF Calm
  <2>2. call[o] \notin {"cancelling", "cancelled"}
    BY <2>1, Zenon DEF DeliveryInv, CancelsMeant
  <2>3. CASE o # r \/ SessionEnds(r)
    <3>1. UNCHANGED joined /\ call'[o] = call[o]
            /\ taken'[o] = taken[o] /\ unread'[o] = unread[o]
      BY <1>0, <2>3, Zenon DEF Ask, SessionEnds, Caller, Enqueue, Abandon, Leave, Cancel, Take,
         CallerFrame, Move
    <3> QED
      BY <3>1, Zenon DEF Keeps
  <2>4. CASE o = r /\ \E p \in Provider : Take(r, p)
    <3>1. PICK p \in Provider : Take(r, p)
      BY <2>4, Zenon
    <3>2. /\ UNCHANGED <<call, joined>> /\ p \in unread[r] /\ call[r] = "receiving"
          /\ unread'[r] = unread[r] \ {p} /\ taken'[r] = taken[r] \cup {p}
      BY <1>0, <3>1, Zenon DEF Take
    <3>3. taken'[r] \cup unread'[r] = taken[r] \cup unread[r]
      BY <3>2, Zenon
    <3> QED
      BY <2>4, <3>2, <3>3 DEF Keeps
  <2>5. CASE o = r /\ Leave(r)
    <3>1. /\ closes[r] > 0 /\ unread[r] = {} /\ Move(r, "done") /\ call[r] = "receiving"
          /\ unread' = [unread EXCEPT ![r] = {}] /\ UNCHANGED <<joined, taken>>
      BY <2>1, <2>5, Zenon DEF Leave, CallerFrame
    <3>2. unread' = unread /\ call'[r] = "done"
      BY <1>0, <3>1, Zenon DEF Move
    <3>3. r \notin listeners[k]
      BY <1>7, <3>1
    <3> QED
      BY <2>5, <3>1, <3>2, <3>3, Zenon DEF Keeps
  <2>6. CASE o = r /\ (Ask(r) \/ Enqueue(r) \/ Abandon(r) \/ Cancel(r))
    <3>1. \/ call[r] = "idle" /\ Move(r, "sending")
          \/ call[r] = "sending" /\ Move(r, "awaiting")
      BY <2>1, <2>2, <2>6, Zenon DEF Ask, Enqueue, Abandon, Cancel
    <3>2. call[r] \in Unanswered /\ call'[r] \in Unanswered
      BY <1>0, <3>1, Zenon DEF Move, Unanswered
    <3> QED
      BY <2>6, <3>2, Zenon DEF Keeps
  <2> QED
    BY <2>3, <2>4, <2>5, <2>6, Zenon DEF Caller
<1> QED
  BY <1>0, <1>2, <1>3, <1>5, <1>6, <1>7, <1>8, DeliveryKept, Zenon

\* Nor do the workers: what the key's query connects to goes on its way.
LEMMA WorkerDelivery ==
    ASSUME DeliveryInv, ~down, NEW k \in Key, Calm(k)', NEW q \in Request,
           \/ SearchEnds(q) \/ Finish(q)
           \/ \E p \in Provider : Found(q, p) \/ Connect(q, p)
    PROVE  Delivery(k)'
<1>0. /\ TypeOK /\ ListenersLive /\ ~runExited /\ Ordered /\ QueryInv
      /\ messages \in Seq(Messages)
      /\ query \in [Request -> {"none", "buffered", "searching", "draining", "ended"}]
      /\ connected \in [Request -> SUBSET Provider]
  BY Zenon DEF DeliveryInv, QueryInv, TypeOK, ExitedDown
<1>1. /\ UNCHANGED <<ctxDone, call, unread, taken, joined, status, listeners, providersSoFar>>
  BY Zenon DEF SearchEnds, Finish, Found, Connect, WorkerFrame, callVars, statusVars
<1>2. Calm(k) /\ Delivery(k)
  BY <1>1, Zenon DEF Calm, DeliveryInv
<1>3. /\ query[q] \in {"searching", "draining"}
      /\ \A o \in Request : o # q => query'[o] = query[o] /\ connected'[o] = connected[o]
  BY <1>0, WorkerOrder
<1>4. Unfinished(q)
  BY <1>3 DEF Unfinished
<1>5. \A o \in Request : query[o] = "ended" =>
         query'[o] = "ended" /\ connected'[o] = connected[o]
  BY <1>3
<1>6. \/ messages' = messages /\ UNCHANGED connected
      \/ Send(Message("finished", q, None)) /\ UNCHANGED connected
      \/ \E p \in Provider : /\ Send(Message("provider", q, p))
                             /\ connected' = [connected EXCEPT ![q] = @ \cup {p}]
  BY Zenon DEF SearchEnds, Finish, Found, Connect
<1>7. /\ \A o \in Request : o # q =>
            (Message("finished", o, None) \in Sent' => Message("finished", o, None) \in Sent)
      /\ \A o \in Request, p \in Provider :
            /\ Message("provider", o, p) \in Sent => Message("provider", o, p) \in Sent'
            /\ o # q => (Message("provider", o, p) \in Sent' => Message("provider", o, p) \in Sent)
      /\ \A p \in Provider : p \in connected'[q] /\ p \notin connected[q] =>
            Message("provider", q, p) \in Sent'
      /\ \A p \in Provider : Message("provider", q, p) \in Sent' =>
            Message("provider", q, p) \in Sent \/ p \in connected'[q]
      /\ connected[q] \subseteq connected'[q]
  <2>1. CASE messages' = messages /\ UNCHANGED connected
    BY <1>0, <2>1, NothingSent, Zenon
  <2>2. CASE Send(Message("finished", q, None)) /\ UNCHANGED connected
    <3>1. Message("finished", q, None) \in Messages
      BY MessageTypes
    <3>2. Sent' = Sent \cup {Message("finished", q, None)}
      BY <1>0, <2>2, <3>1, SentAfterSend, Zenon
    <3>3. \A o, p : /\ Message("provider", o, p) # Message("finished", q, None)
                    /\ o # q => Message("finished", o, None) # Message("finished", q, None)
      BY Zenon DEF Message
    <3> QED
      BY <2>2, <3>2, <3>3, Zenon
  <2>3. CASE \E p \in Provider : /\ Send(Message("provider", q, p))
                                 /\ connected' = [connected EXCEPT ![q] = @ \cup {p}]
    <3>0. PICK x \in Provider : /\ Send(Message("provider", q, x))
                                /\ connected' = [connected EXCEPT ![q] = @ \cup {x}]
      BY <2>3, Zenon
    <3>1. Message("provider", q, x) \in Messages
      BY MessageTypes
    <3>2. Sent' = Sent \cup {Message("provider", q, x)}
      BY <1>0, <3>0, <3>1, SentAfterSend, Zenon
    <3>3. \A o, p : /\ Message("finished", o, None) # Message("provider", q, x)
                    /\ o # q \/ p # x => Message("provider", o, p) # Message("provider", q, x)
      BY Zenon DEF Message
    <3>4. connected'[q] = connected[q] \cup {x}
      BY <1>0, <3>0, Zenon
    <3> QED
      BY <3>2, <3>3, <3>4, Zenon
  <2> QED
    BY <1>6, <2>1, <2>2, <2>3, Zenon
<1>8. Recorded(k)'
  <2>1. SUFFICES ASSUME status[k] # None, NEW p \in Provider
                 PROVE  p \in connected'[status[k]] <=>
                          p \in providersSoFar[k] \/ Message("provider", status[k], p) \in Sent'
    BY <1>1, Zenon DEF Recorded, Message
  <2>2. status[k] \in Request
    BY <1>0, <2>1, Zenon DEF TypeOK
  <2>3. p \in connected[status[k]] <=>
          p \in providersSoFar[k] \/ Message("provider", status[k], p) \in Sent
    BY <1>2, <2>1, Zenon DEF Delivery, Recorded
  <2> QED
    BY <1>3, <1>7, <2>2, <2>3, Zenon
<1>9. ASSUME NEW o \in Request, Unfinished(o)' PROVE Unfinished(o)
  <2>1. CASE o = q
    BY <1>4, <2>1, Zenon
  <2>2. CASE o # q
    BY <1>3, <1>7, <1>9, <2>2, Zenon DEF Unfinished, Sent, Message
  <2> QED
    BY <2>1, <2>2, Zenon
<1>10. /\ \A r \in listeners[k] : KeyOf[r] = k
       /\ \A r \in Request : Keeps(r, k)
  BY <1>0, <1>1, Zenon DEF ListenersLive, Keeps
<1> QED
  BY <1>0, <1>1, <1>2, <1>5, <1>8, <1>9, <1>10, DeliveryKept, Zenon

\* A query goes from the buffer to a worker.
LEMMA DispatchDelivery ==
    ASSUME DeliveryInv, ~down, NEW k \in Key, Calm(k)', Dispatch
    PROVE  Delivery(k)'
<1>0. /\ TypeOK /\ ListenersLive /\ ~runExited /\ Ordered /\ QueryInv
      /\ query \in [Request -> {"none", "buffered", "searching", "draining", "ended"}]
  BY Zenon DEF DeliveryInv, QueryInv, TypeOK, ExitedDown
<1>1. /\ UNCHANGED <<ctxDone, call, unread, taken, joined, status, listeners, providersSoFar>>
      /\ UNCHANGED <<messages, connected>>
  BY Zenon DEF Dispatch, WorkerFrame, callVars, statusVars
<1>2. Calm(k) /\ Delivery(k)
  BY <1>1, Zenon DEF Calm, DeliveryInv
<1>3. /\ Head(buffer) \in Request /\ query[Head(buffer)] = "buffered"
      /\ query' = [query EXCEPT ![Head(buffer)] = "searching"]
  BY <1>0, DispatchOrder, Zenon
<1>4. \A o \in Request : \/ query'[o] = query[o]
                         \/ query[o] = "buffered" /\ query'[o] = "searching"
  BY <1>0, <1>3, Zenon
<1>5. \A o \in Request : Unfinished(o)' => Unfinished(o)
  BY <1>1, <1>4, Zenon DEF Unfinished, Message
<1>6. \A o \in Request : query[o] = "ended" =>
         query'[o] = "ended" /\ connected'[o] = connected[o]
  BY <1>1, <1>4
<1>7. Recorded(k)'
  BY <1>1, <1>2, Zenon DEF Delivery, Recorded, Sent, Message
<1>8. /\ \A r \in listeners[k] : KeyOf[r] = k
      /\ \A r \in Request : Keeps(r, k)
  BY <1>0, <1>1, Zenon DEF ListenersLive, Keeps
<1> QED
  BY <1>0, <1>1, <1>2, <1>5, <1>6, <1>7, <1>8, DeliveryKept, Zenon

\* The run loop handles a message about another key.
LEMMA OtherKey ==
    ASSUME DeliveryInv, ~down, NEW k \in Key, Calm(k), NEW m, Receive(m), KeyOf[m.req] # k,
           status'[k] = status[k], listeners'[k] = listeners[k],
           providersSoFar'[k] = providersSoFar[k], UNCHANGED connected,
           \A q \in Request : KeyOf[q] = k \/ query[q] = "ended" => query'[q] = query[q],
           \A r \in Request : KeyOf[r] = k =>
              /\ call'[r] = call[r] /\ joined'[r] = joined[r]
              /\ taken'[r] = taken[r] /\ unread'[r] = unread[r]
    PROVE  Delivery(k)'
<1>0. /\ TypeOK /\ ListenersLive /\ ~runExited /\ messages \in Seq(Messages) /\ Delivery(k)
      /\ StatusPending
  BY Zenon DEF DeliveryInv, QueryInv, TypeOK, ExitedDown
<1>1. Sent' \subseteq Sent /\ Sent \subseteq Sent' \cup {m}
  BY <1>0, SentAfterReceive, Zenon
<1>2. ASSUME NEW kd, NEW q, NEW p, KeyOf[q] = k
      PROVE  Message(kd, q, p) \in Sent' <=> Message(kd, q, p) \in Sent
  <2>1. Message(kd, q, p).req = q
    BY Zenon DEF Message
  <2>2. Message(kd, q, p) # m
    BY <1>2, <2>1, Zenon
  <2> QED
    BY <1>1, <2>2, Zenon
<1>3. Recorded(k)'
  <2>1. SUFFICES ASSUME status[k] # None, NEW p \in Provider
                 PROVE  p \in connected[status[k]] <=>
                          p \in providersSoFar[k] \/ Message("provider", status[k], p) \in Sent'
    BY Zenon DEF Recorded, Message
  <2>2. KeyOf[status[k]] = k
    BY <1>0, <2>1, Zenon DEF StatusPending
  <2> QED
    BY <1>0, <1>2, <2>1, <2>2, Zenon DEF Delivery, Recorded
<1>4. ASSUME NEW q \in Request, KeyOf[q] = k, Unfinished(q)' PROVE Unfinished(q)
  BY <1>2, <1>4, Zenon DEF Unfinished, Sent, Message
<1>5. /\ \A r \in listeners[k] : KeyOf[r] = k
      /\ \A r \in Request : KeyOf[r] = k => Keeps(r, k)
  BY <1>0, Zenon DEF ListenersLive, Keeps
<1>6. \A q \in Request : query[q] = "ended" =>
         query'[q] = "ended" /\ connected'[q] = connected[q]
  BY Zenon
<1> QED
  BY <1>0, <1>3, <1>4, <1>5, <1>6, DeliveryKept, Zenon

\* A cancelled request is one for another key.
LEMMA CancelDelivery ==
    ASSUME DeliveryInv, ~down, NEW k \in Key, Calm(k)', NEW m, HandleCancel(m)
    PROVE  Delivery(k)'
<1>0. /\ TypeOK /\ messages \in Seq(Messages) /\ Receive(m) /\ m.kind = "cancel"
  BY Zenon DEF DeliveryInv, QueryInv, TypeOK, HandleCancel
<1>1. m \in Messages /\ m \in Sent
  BY <1>0, SentAfterReceive, Zenon
<1>2. UNCHANGED <<ctxDone, call, unread, taken, joined, query, connected>>
  BY Zenon DEF HandleCancel, HandlerFrame, callVars, workVars
<1>3. Calm(k)
  BY <1>2, Zenon DEF Calm
<1>4. m.req \in ctxDone
  BY <1>0, <1>1, Zenon DEF DeliveryInv, CancelsMeant
<1>5. KeyOf[m.req] # k
  BY <1>3, <1>4, Zenon DEF Calm
<1>6. /\ status'[k] = status[k] /\ listeners'[k] = listeners[k]
      /\ providersSoFar'[k] = providersSoFar[k]
  BY <1>0, <1>5, Zenon DEF HandleCancel, DeleteStatus, statusVars, TypeOK
<1> QED
  BY <1>0, <1>2, <1>3, <1>5, <1>6, OtherKey, Zenon

\* A message of a query of a key that nobody cancels is of the one recorded.
LEMMA MessageOfQuery ==
    ASSUME DeliveryInv, ~down, NEW m \in Sent, m.kind \in {"provider", "finished"},
           Calm(KeyOf[m.req])
    PROVE  /\ m \in Messages /\ m.req \in Request /\ KeyOf[m.req] \in Key
           /\ Delivery(KeyOf[m.req]) /\ status[KeyOf[m.req]] = m.req
<1>0. messages \in Seq(Messages) /\ Ordered
  BY Zenon DEF DeliveryInv, QueryInv, TypeOK
<1>1. m \in Messages /\ m.req \in Request /\ KeyOf[m.req] \in Key
  BY <1>0, SentTypes, MessageFields, KeyOfAssumption, Zenon
<1>2. Delivery(KeyOf[m.req])
  BY <1>1, Zenon DEF DeliveryInv
<1>3. m.kind = "finished" => m = Message("finished", m.req, None)
  BY <1>1, MessageFields, Zenon
<1>4. Unfinished(m.req)
  BY <1>0, <1>3, Zenon DEF Unfinished, Ordered, SentInOrder, Sent
<1> QED
  BY <1>1, <1>2, <1>4, Zenon DEF Delivery, OneQuery

\* A provider goes to all listeners, and is recorded for those to come.
LEMMA ProviderDelivery ==
    ASSUME DeliveryInv, ~down, NEW k \in Key, Calm(k)', NEW m, HandleProvider(m)
    PROVE  Delivery(k)'
<1>0. /\ TypeOK /\ ListenersLive /\ ~runExited /\ messages \in Seq(Messages)
      /\ unread \in [Request -> SUBSET Provider]
      /\ providersSoFar \in [Key -> SUBSET Provider]
      /\ Receive(m) /\ m.kind = "provider"
  BY Zenon DEF DeliveryInv, QueryInv, TypeOK, ExitedDown, HandleProvider
<1>1. m \in Messages /\ m \in Sent /\ Sent' \subseteq Sent /\ Sent \subseteq Sent' \cup {m}
  BY <1>0, SentAfterReceive, Zenon
<1>2. UNCHANGED <<ctxDone, call, taken, joined, status, listeners, query, connected>>
  BY Zenon DEF HandleProvider, workVars
<1>3. Calm(k)
  BY <1>2, Zenon DEF Calm
<1>4. \A j \in Key : \A r \in listeners[j] : KeyOf[r] = j /\ r \in Request
  BY <1>0, Zenon DEF ListenersLive, TypeOK
<1>5. CASE KeyOf[m.req] # k
  <2>1. providersSoFar'[k] = providersSoFar[k]
    BY <1>0, <1>5, Zenon DEF HandleProvider
  <2>2. m.req \in Request /\ KeyOf[m.req] \in Key
    BY <1>1, MessageFields, KeyOfAssumption, Zenon
  <2>3. ASSUME NEW r \in Request, KeyOf[r] = k PROVE unread'[r] = unread[r]
    <3>1. r \notin listeners[KeyOf[m.req]]
      BY <1>4, <1>5, <2>2, <2>3, Zenon
    <3> QED
      BY <3>1, Zenon DEF HandleProvider
  <2> QED
    BY <1>0, <1>2, <1>3, <1>5, <2>1, <2>3, OtherKey, Zenon
<1>6. CASE KeyOf[m.req] = k
  <2>1. /\ m.req \in Request /\ Delivery(k) /\ status[k] = m.req
    BY <1>0, <1>1, <1>3, <1>6, MessageOfQuery
  <2>2. status[k] # None
    BY <2>1, NoneAssumption, Zenon
  <2>3. /\ providersSoFar' = [providersSoFar EXCEPT ![k] = @ \cup {m.prov}]
        /\ unread' = [r \in Request |->
                        IF r \in listeners[k] /\ call[r] = "receiving"
                        THEN unread[r] \cup {m.prov} ELSE unread[r]]
    BY <1>6, <2>2, Zenon DEF HandleProvider
  <2>4. providersSoFar'[k] = providersSoFar[k] \cup {m.prov}
    BY <1>0, <2>3, Zenon
  <2>5. m = Message("provider", m.req, m.prov) /\ m.prov \in Provider
    BY <1>0, <1>1, Zenon DEF Message, Messages
  <2>6. OneQuery(k)'
    <3>1. \A q : Message("finished", q, None) \in Sent' => Message("finished", q, None) \in Sent
      BY <1>1, Zenon
    <3>2. \A q \in Request : Unfinished(q)' => Unfinished(q)
      BY <1>2, <3>1, Zenon DEF Unfinished, Sent, Message
    <3> QED
      BY <1>2, <2>1, <3>2, Zenon DEF Delivery, OneQuery
  <2>7. Recorded(k)'
    <3>1. SUFFICES ASSUME NEW p \in Provider
                   PROVE  p \in connected[m.req] <=>
                            p \in providersSoFar'[k] \/ Message("provider", m.req, p) \in Sent'
      BY <1>2, <2>1, Zenon DEF Recorded, Message
    <3>2. p \in connected[m.req] <=>
            p \in providersSoFar[k] \/ Message("provider", m.req, p) \in Sent
      BY <2>1, <2>2, Zenon DEF Delivery, Recorded
    <3>3. p # m.prov => Message("provider", m.req, p) # m
      <4>1. Message("provider", m.req, p).prov = p
        BY Zenon DEF Message
      <4> QED
        BY <4>1, Zenon
    <3> QED
      BY <1>1, <2>4, <2>5, <3>2, <3>3, Zenon
  <2>8. UpToDate(k)'
    <3>1. SUFFICES ASSUME NEW r \in listeners[k]
                   PROVE  /\ call[r] = "receiving" /\ joined[r] = status[k]
                          /\ taken[r] \cup unread'[r] = providersSoFar'[k]
      BY <1>2, Zenon DEF UpToDate
    <3>2. /\ call[r] = "receiving" /\ joined[r] = status[k] /\ r \in Request
          /\ taken[r] \cup unread[r] = providersSoFar[k]
      BY <1>4, <2>1, Zenon DEF Delivery, UpToDate
    <3>3. unread'[r] = unread[r] \cup {m.prov}
      BY <2>3, <3>2, Zenon
    <3>4. taken[r] \cup unread'[r] = providersSoFar[k] \cup {m.prov}
      BY <3>2, <3>3
    <3> QED
      BY <2>4, <3>2, <3>4, Zenon
  <2>9. Served(k)'
    <3>1. \A r \in Request : r \notin listeners[k] => unread'[r] = unread[r]
      BY <2>3, Zenon
    <3> QED
      BY <1>2, <2>1, <3>1, Zenon DEF Delivery, Served, Complete
  <2> QED
    BY <2>6, <2>7, <2>8, <2>9, Zenon DEF Delivery
<1> QED
  BY <1>5, <1>6, Zenon

\* With the end of the query everybody who listens has all of it.
LEMMA FinishedDelivery ==
    ASSUME DeliveryInv, ~down, NEW k \in Key, Calm(k)', NEW m, HandleFinished(m)
    PROVE  Delivery(k)'
<1>0. /\ TypeOK /\ messages \in Seq(Messages) /\ Ordered
      /\ Receive(m) /\ m.kind = "finished"
  BY Zenon DEF DeliveryInv, QueryInv, TypeOK, HandleFinished
<1>1. m \in Messages /\ m \in Sent /\ Sent' \subseteq Sent /\ Sent \subseteq Sent' \cup {m}
  BY <1>0, SentAfterReceive, Zenon
<1>2. UNCHANGED <<ctxDone, call, taken, joined, unread, query, connected>>
  BY Zenon DEF HandleFinished, HandlerFrame, callVars, workVars
<1>3. Calm(k)
  BY <1>2, Zenon DEF Calm
<1>4. CASE KeyOf[m.req] # k
  <2>1. /\ status'[k] = status[k] /\ listeners'[k] = listeners[k]
        /\ providersSoFar'[k] = providersSoFar[k]
    BY <1>0, <1>4, Zenon DEF HandleFinished, DeleteStatus, statusVars, TypeOK
  <2> QED
    BY <1>0, <1>2, <1>3, <1>4, <2>1, OtherKey, Zenon
<1>5. CASE KeyOf[m.req] = k
  <2>1. /\ m.req \in Request /\ Delivery(k) /\ status[k] = m.req
    BY <1>0, <1>1, <1>3, <1>5, MessageOfQuery
  <2>2. status[k] # None
    BY <2>1, NoneAssumption, Zenon
  <2>3. status'[k] = None /\ listeners'[k] = {}
    BY <1>0, <1>5, <2>2, Zenon DEF HandleFinished, DeleteStatus, TypeOK
  <2>4. \A n \in Sent' : n.req = m.req => n.kind \notin {"provider", "finished"}
    BY <1>0, EndsLastReceive, Zenon DEF Ordered
  <2>5. query[m.req] = "ended"
    BY <1>0, <1>1, Zenon DEF Ordered, SentInOrder
  <2>6. OneQuery(k)'
    <3>1. SUFFICES ASSUME NEW q \in Request, KeyOf[q] = k, Unfinished(q)'
                   PROVE  FALSE
      BY Zenon DEF OneQuery
    <3>2. /\ Message("finished", q, None).kind = "finished"
          /\ Message("finished", q, None).req = q
      BY Zenon DEF Message
    <3>3. \/ query[q] \in {"buffered", "searching", "draining"}
          \/ Message("finished", q, None) \in Sent'
      BY <1>2, <3>1, Zenon DEF Unfinished, Sent, Message
    <3>4. Unfinished(q)
      BY <1>1, <3>3, Zenon DEF Unfinished, Sent
    <3>5. q = m.req
      BY <2>1, <3>1, <3>4, Zenon DEF Delivery, OneQuery
    <3>6. Message("finished", q, None) \in Sent'
      BY <2>5, <3>3, <3>5
    <3> QED
      BY <2>4, <3>2, <3>5, <3>6, Zenon
  <2>7. Recorded(k)' /\ UpToDate(k)'
    BY <2>3, Zenon DEF Recorded, UpToDate
  <2>8. Served(k)'
    <3>1. SUFFICES ASSUME NEW r \in Request, KeyOf[r] = k, call[r] \in {"receiving", "done"}
                   PROVE  Complete(r)
      BY <1>2, Zenon DEF Served, Complete
    <3>2. CASE r \notin listeners[k]
      BY <2>1, <3>1, <3>2, Zenon DEF Delivery, Served
    <3>3. CASE r \in listeners[k]
      <4>1. /\ call[r] = "receiving" /\ joined[r] = m.req
            /\ taken[r] \cup unread[r] = providersSoFar[k]
        BY <2>1, <3>3, Zenon DEF Delivery, UpToDate
      <4>2. \A p \in Provider : Message("provider", m.req, p) \notin Sent
        <5>1. \A p : /\ Message("provider", m.req, p).kind = "provider"
                     /\ Message("provider", m.req, p).req = m.req
          BY Zenon DEF Message
        <5> QED
          BY <1>0, <1>1, <2>4, <5>1
      <4>3. \A p \in Provider : p \in connected[m.req] <=> p \in providersSoFar[k]
        BY <2>1, <2>2, <4>2, Zenon DEF Delivery, Recorded
      <4>4. connected[m.req] \subseteq Provider /\ providersSoFar[k] \subseteq Provider
        BY <1>0, <2>1, Zenon DEF TypeOK
      <4>5. connected[m.req] = providersSoFar[k]
        BY <4>3, <4>4, Zenon
      <4> QED
        BY <2>1, <2>5, <4>1, <4>5 DEF Complete
    <3> QED
      BY <3>2, <3>3, Zenon
  <2> QED
    BY <2>6, <2>7, <2>8, Zenon DEF Delivery
<1> QED
  BY <1>4, <1>5, Zenon

\* Who asks gets what was recorded and, as a listener, what comes; or the key's
\* query starts, with nothing yet.
LEMMA NewDelivery ==
    ASSUME DeliveryInv, ~down, NEW k \in Key, Calm(k)', NEW m, HandleNew(m)
    PROVE  Delivery(k)'
<1> DEFINE r == m.req
<1>0. /\ TypeOK /\ ListenersLive /\ ~runExited /\ messages \in Seq(Messages) /\ Ordered
      /\ QueryInv /\ Receive(m)
      /\ call \in [Request -> Stage] /\ joined \in [Request -> Request \cup {None}]
      /\ unread \in [Request -> SUBSET Provider] /\ taken \in [Request -> SUBSET Provider]
      /\ query \in [Request -> {"none", "buffered", "searching", "draining", "ended"}]
      /\ status \in [Key -> Request \cup {None}] /\ listeners \in [Key -> SUBSET Request]
      /\ providersSoFar \in [Key -> SUBSET Provider]
  BY Zenon DEF DeliveryInv, QueryInv, TypeOK, ExitedDown, HandleNew
<1>1. /\ r \in Request /\ KeyOf[r] \in Key /\ query[r] = "none" /\ taken[r] = {}
      /\ call' = [call EXCEPT ![r] = "receiving"]
      /\ UNCHANGED <<ctxDone, taken, connected>>
      /\ \A n : n \in Sent' => n \in Sent
      /\ \A n \in Sent : n.kind # "new" => n \in Sent'
      /\ \/ status[KeyOf[r]] # None /\ query' = query
         \/ status[KeyOf[r]] = None /\ query' = [query EXCEPT ![r] = "buffered"]
  BY <1>0, NewFacts, Zenon
<1>2. /\ listeners' = [listeners EXCEPT ![KeyOf[r]] = @ \cup {r}]
      /\ joined' = [joined EXCEPT ![r] = status'[KeyOf[r]]]
      /\ unread' = [unread EXCEPT ![r] = providersSoFar'[KeyOf[r]]]
      /\ \/ status[KeyOf[r]] # None /\ UNCHANGED <<status, providersSoFar>>
         \/ /\ status[KeyOf[r]] = None /\ status' = [status EXCEPT ![KeyOf[r]] = r]
            /\ providersSoFar' = [providersSoFar EXCEPT ![KeyOf[r]] = {}]
  BY Zenon DEF HandleNew, CreateStatus
<1> HIDE DEF r
<1>3. Calm(k) /\ Delivery(k)
  BY <1>1, Zenon DEF Calm, DeliveryInv
<1>4. \A o \in Request : o # r =>
         /\ call'[o] = call[o] /\ joined'[o] = joined[o] /\ unread'[o] = unread[o]
         /\ query'[o] = query[o]
  BY <1>0, <1>1, <1>2, Zenon
<1>5. CASE KeyOf[r] # k
  <2>1. /\ status'[k] = status[k] /\ listeners'[k] = listeners[k]
        /\ providersSoFar'[k] = providersSoFar[k]
    BY <1>0, <1>2, <1>5, Zenon
  <2>2. \A q \in Request : KeyOf[q] = k \/ query[q] = "ended" => query'[q] = query[q]
    BY <1>1, <1>4, <1>5
  <2>3. \A o \in Request : KeyOf[o] = k =>
           /\ call'[o] = call[o] /\ joined'[o] = joined[o]
           /\ taken'[o] = taken[o] /\ unread'[o] = unread[o]
    BY <1>1, <1>4, <1>5, Zenon
  <2> QED
    BY <1>0, <1>1, <1>3, <1>5, <2>1, <2>2, <2>3, OtherKey, Zenon DEF r
<1>6. CASE KeyOf[r] = k
  <2>1. /\ call'[r] = "receiving" /\ joined'[r] = status'[k] /\ unread'[r] = providersSoFar'[k]
        /\ listeners'[k] = listeners[k] \cup {r}
    BY <1>0, <1>1, <1>2, <1>6, Zenon
  <2>2. \A q, p : /\ Message("provider", q, p) \in Sent' <=> Message("provider", q, p) \in Sent
                  /\ Message("finished", q, p) \in Sent' <=> Message("finished", q, p) \in Sent
    <3>1. \A q, p : /\ Message("provider", q, p).kind = "provider"
                    /\ Message("finished", q, p).kind = "finished"
      BY Zenon DEF Message
    <3> QED
      BY <1>1, <3>1
  <2>3. /\ ~Unfinished(r)
        /\ \A p : Message("provider", r, p) \notin Sent
    <3>1. Message("finished", r, None) \notin Sent
      BY <1>0, <1>1, NotOver
    <3>2. \A p : /\ Message("provider", r, p).kind = "provider"
                 /\ Message("provider", r, p).req = r
      BY Zenon DEF Message
    <3>3. query[r] \notin {"searching", "draining", "buffered"}
      BY <1>1
    <3> QED
      BY <1>0, <3>1, <3>2, <3>3, Zenon DEF Ordered, SentInOrder, Unfinished, Sent
  <2>4. \A q \in Request : q # r /\ Unfinished(q)' => Unfinished(q)
    BY <1>4, <2>2, Zenon DEF Unfinished, Sent, Message
  <2>5. Served(k)'
    <3>1. SUFFICES ASSUME NEW o \in Request, KeyOf[o] = k, call'[o] \in {"receiving", "done"},
                          o \notin listeners'[k]
                   PROVE  Complete(o)'
      BY Zenon DEF Served
    <3>2. o # r /\ o \notin listeners[k] /\ call[o] \in {"receiving", "done"}
      BY <1>4, <2>1, <3>1, Zenon
    <3>3. Complete(o)
      BY <1>3, <3>1, <3>2, Zenon DEF Delivery, Served
    <3>4. joined[o] # r
      BY <1>1, <3>3 DEF Complete
    <3> QED
      BY <1>1, <1>4, <3>2, <3>3, <3>4, Zenon DEF Complete
  <2>6. CASE status[k] # None
    <3>1. UNCHANGED <<status, providersSoFar, query>>
      BY <1>1, <1>2, <1>6, <2>6, Zenon
    <3>2. OneQuery(k)'
      <4>1. \A q \in Request : Unfinished(q)' => Unfinished(q)
        BY <2>2, <3>1, Zenon DEF Unfinished, Sent, Message
      <4> QED
        BY <1>3, <3>1, <4>1, Zenon DEF Delivery, OneQuery
    <3>3. Recorded(k)'
      BY <1>1, <1>3, <2>2, <3>1, Zenon DEF Delivery, Recorded, Message
    <3>4. UpToDate(k)'
      <4>1. SUFFICES ASSUME NEW o \in listeners'[k]
                     PROVE  /\ call'[o] = "receiving" /\ joined'[o] = status[k]
                            /\ taken[o] \cup unread'[o] = providersSoFar[k]
        BY <1>1, <3>1, Zenon DEF UpToDate
      <4>2. CASE o = r
        BY <1>1, <2>1, <3>1, <4>2
      <4>3. CASE o # r
        <5>1. o \in listeners[k] /\ o \in Request
          BY <1>0, <2>1, <4>3, Zenon
        <5> QED
          BY <1>3, <1>4, <4>3, <5>1, Zenon DEF Delivery, UpToDate
      <4> QED
        BY <4>2, <4>3, Zenon
    <3> QED
      BY <2>5, <3>2, <3>3, <3>4, Zenon DEF Delivery
  <2>7. CASE status[k] = None
    <3>1. status'[k] = r /\ providersSoFar'[k] = {} /\ query'[r] = "buffered"
      BY <1>0, <1>1, <1>2, <1>6, <2>7, Zenon
    <3>2. listeners[k] = {}
      BY <1>0, <2>7, Zenon DEF ListenersLive
    <3>3. OneQuery(k)'
      <4>1. SUFFICES ASSUME NEW q \in Request, KeyOf[q] = k, Unfinished(q)'
                     PROVE  q = r
        BY <3>1, Zenon DEF OneQuery
      <4>2. q # r => status[k] = q
        BY <1>3, <2>4, <4>1, Zenon DEF Delivery, OneQuery
      <4> QED
        BY <2>7, <4>2, NoneAssumption, Zenon
    <3>4. Recorded(k)'
      <4>1. connected[r] = {}
        BY <1>0, <1>1, Zenon DEF Ordered, WorkInOrder
      <4> QED
        BY <1>1, <2>2, <2>3, <3>1, <4>1, Zenon DEF Recorded, Message
    <3>5. UpToDate(k)'
      <4>1. \A o \in listeners'[k] : o = r
        BY <2>1, <3>2, Zenon
      <4>2. taken'[r] \cup unread'[r] = providersSoFar'[k]
        BY <1>1, <2>1
      <4> QED
        BY <2>1, <3>1, <4>1, <4>2, Zenon DEF UpToDate
    <3> QED
      BY <2>5, <3>3, <3>4, <3>5, Zenon DEF Delivery
  <2> QED
    BY <2>6, <2>7, Zenon
<1> QED
  BY <1>5, <1>6, Zenon

-----------------------------------------------------------------------------
\* A step that lets nobody cancel keeps those who do.
LEMMA CancelsKept ==
    ASSUME CancelsMeant, ctxDone \subseteq ctxDone',
           \A r \in Request : call'[r] \in {"cancelling", "cancelled"} =>
              call[r] \in {"cancelling", "cancelled"} \/ r \in ctxDone,
           \A m \in Sent' : m.kind = "cancel" =>
              m \in Sent \/ (m.req \in Request /\ call[m.req] = "cancelling")
    PROVE  CancelsMeant'
<1>1. ASSUME NEW r \in Request, call'[r] \in {"cancelling", "cancelled"}
      PROVE  r \in ctxDone'
  BY <1>1, Zenon DEF CancelsMeant
<1>2. ASSUME NEW m \in Sent', m.kind = "cancel" PROVE m.req \in ctxDone'
  <2>1. CASE m \in Sent
    BY <1>2, <2>1, Zenon DEF CancelsMeant
  <2>2. CASE m.req \in Request /\ call[m.req] = "cancelling"
    <3>1. m.req \in ctxDone
      BY <2>2 DEF CancelsMeant
    <3> QED
      BY <3>1, Zenon
  <2> QED
    BY <1>2, <2>1, <2>2, Zenon
<1> QED
  BY <1>1, <1>2, Zenon DEF CancelsMeant

\* Only sessions that have ended cancel, whatever happens.
LEMMA CancelsStep ==
    ASSUME QueryInv, CancelsMeant, Next
    PROVE  CancelsMeant'
<1>0. messages \in Seq(Messages) /\ call \in [Request -> Stage]
  BY Zenon DEF QueryInv, TypeOK
<1>1. ASSUME NEW r \in Request, Ask(r) \/ SessionEnds(r) \/ Caller(r)
      PROVE  CancelsMeant'
  <2>1. ctxDone \subseteq ctxDone'
    BY <1>1, Zenon DEF Ask, SessionEnds, Caller, Enqueue, Abandon, Leave, Cancel, Take,
       CallerFrame
  <2>2. \A o \in Request : call'[o] \in {"cancelling", "cancelled"} =>
           call[o] \in {"cancelling", "cancelled"} \/ o \in ctxDone
    <3>1. \/ UNCHANGED call
          \/ Move(r, "sending") \/ Move(r, "awaiting") \/ Move(r, "done")
          \/ Move(r, "cancelling") /\ r \in ctxDone
          \/ Move(r, "cancelled") /\ call[r] = "cancelling"
      BY <1>1, Zenon DEF Ask, SessionEnds, Caller, Enqueue, Abandon, Leave, Cancel, Take
    <3>2. \A o \in Request : \/ call'[o] = call[o]
                             \/ call'[o] \in {"sending", "awaiting", "done"}
                             \/ o = r /\ r \in ctxDone
                             \/ o = r /\ call[r] = "cancelling"
      BY <1>0, <3>1, Zenon DEF Move
    <3> QED
      BY <3>2, Zenon
  <2>3. \A m \in Sent' : m.kind = "cancel" =>
           m \in Sent \/ (m.req \in Request /\ call[m.req] = "cancelling")
    <3>1. \/ messages' = messages
          \/ Send(Message("new", r, None))
          \/ Send(Message("cancel", r, None)) /\ call[r] = "cancelling"
      BY <1>1, Zenon DEF Ask, SessionEnds, Caller, Enqueue, Abandon, Leave, Cancel, Take
    <3>2. /\ Message("new", r, None) \in Messages /\ Message("new", r, None).kind = "new"
          /\ Message("cancel", r, None) \in Messages /\ Message("cancel", r, None).req = r
      BY MessageTypes
    <3>3. CASE messages' = messages
      BY <3>3, Zenon DEF Sent
    <3>4. CASE Send(Message("new", r, None))
      <4>1. Sent' = Sent \cup {Message("new", r, None)}
        BY <1>0, <3>2, <3>4, SentAfterSend, Zenon
      <4> QED
        BY <3>2, <4>1
    <3>5. CASE Send(Message("cancel", r, None)) /\ call[r] = "cancelling"
      <4>1. Sent' = Sent \cup {Message("cancel", r, None)}
        BY <1>0, <3>2, <3>5, SentAfterSend, Zenon
      <4> QED
        BY <3>2, <3>5, <4>1, Zenon
    <3> QED
      BY <3>1, <3>3, <3>4, <3>5, Zenon
  <2> QED
    BY <2>1, <2>2, <2>3, CancelsKept, Zenon
<1>2. ASSUME NEW q \in Request, Worker(q) \/ \E p \in Provider : Found(q, p)
      PROVE  CancelsMeant'
  <2>1. UNCHANGED <<call, ctxDone>>
    BY <1>2, Zenon DEF Worker, SearchEnds, Finish, WorkerExit, Connect, Found, WorkerFrame,
       callVars
  <2>2. \/ messages' = messages
        \/ \E m \in Messages : Send(m) /\ m.kind # "cancel"
    <3>1. \/ messages' = messages
          \/ Send(Message("finished", q, None))
          \/ \E p \in Provider : Send(Message("provider", q, p))
      BY <1>2, Zenon DEF Worker, SearchEnds, Finish, WorkerExit, Connect, Found
    <3>2. /\ Message("finished", q, None) \in Messages
          /\ Message("finished", q, None).kind = "finished"
          /\ \A p \in Provider : /\ Message("provider", q, p) \in Messages
                                 /\ Message("provider", q, p).kind = "provider"
      BY MessageTypes
    <3> QED
      BY <3>1, <3>2
  <2>3. \A m \in Sent' : m.kind = "cancel" => m \in Sent
    <3>1. CASE messages' = messages
      BY <3>1, Zenon DEF Sent
    <3>2. ASSUME NEW n \in Messages, Send(n), n.kind # "cancel"
          PROVE  \A m \in Sent' : m.kind = "cancel" => m \in Sent
      <4>1. Sent' = Sent \cup {n}
        BY <1>0, <3>2, SentAfterSend, Zenon
      <4> QED
        BY <3>2, <4>1, Zenon
    <3> QED
      BY <2>2, <3>1, <3>2, Zenon
  <2> QED
    BY <2>1, <2>3, CancelsKept, Zenon
<1>3. ASSUME NEW m, Handle(m) PROVE CancelsMeant'
  <2>1. Receive(m) /\ UNCHANGED ctxDone
    BY <1>3, Zenon DEF Handle, HandleNew, HandleNewAborted, HandleProvider, HandleFinished,
       HandleCancel, HandlerFrame, callVars
  <2>2. UNCHANGED call \/ Move(m.req, "receiving")
    BY <1>3, Zenon DEF Handle, HandleNew, HandleNewAborted, HandleProvider, HandleFinished,
       HandleCancel, HandlerFrame, callVars
  <2>3. \A o \in Request : call'[o] \in {"cancelling", "cancelled"} =>
           call[o] \in {"cancelling", "cancelled"}
    <3>1. \A o \in Request : call'[o] = call[o] \/ call'[o] = "receiving"
      BY <1>0, <2>2, Zenon DEF Move
    <3> QED
      BY <3>1, Zenon
  <2>4. Sent' \subseteq Sent
    BY <1>0, <2>1, SentAfterReceive, Zenon
  <2> QED
    BY <2>1, <2>3, <2>4, CancelsKept, Zenon
<1>4. CASE RunExit \/ Dispatch \/ Shutdown
  <2>1. UNCHANGED <<call, ctxDone, messages>>
    BY <1>4, Zenon DEF RunExit, Dispatch, Shutdown, WorkerFrame, callVars
  <2> QED
    BY <2>1, Zenon DEF CancelsMeant, Sent
<1> QED
  BY <1>1, <1>2, <1>3, <1>4, Zenon DEF Next, RunLoop

\* Before the first request there is nothing to deliver.
LEMMA DeliveryInit == Init => DeliveryInv
<1> SUFFICES ASSUME Init PROVE DeliveryInv
  OBVIOUS
<1>1. QueryInv
  BY InitIInv, Zenon
<1>2. Sent = {} /\ Len(messages) = 0 /\ Len(buffer) = 0
  BY DEF Init, Sent
<1>3. CancelsMeant
  BY <1>2, Zenon DEF Init, CancelsMeant
<1>4. Ordered
  <2>1. UnansweredFresh /\ WorkInOrder
    BY Zenon DEF Init, UnansweredFresh, WorkInOrder
  <2>2. SentInOrder
    BY <1>2, Zenon DEF SentInOrder
  <2>3. EndsLast /\ BufferInOrder
    BY <1>2 DEF EndsLast, BufferInOrder
  <2> QED
    BY <2>1, <2>2, <2>3, Zenon DEF Ordered
<1>5. ASSUME NEW k \in Key PROVE Delivery(k)
  <2>1. OneQuery(k)
    BY <1>2, Zenon DEF Init, OneQuery, Unfinished, Sent
  <2>2. Recorded(k) /\ UpToDate(k)
    BY Zenon DEF Init, Recorded, UpToDate
  <2>3. Served(k)
    BY Zenon DEF Init, Served
  <2> QED
    BY <2>1, <2>2, <2>3, Zenon DEF Delivery
<1> QED
  BY <1>1, <1>3, <1>4, <1>5, Zenon DEF DeliveryInv

\* Every step of the manager keeps the invariant.
LEMMA DeliveryStep == DeliveryInv /\ [Next]_vars => DeliveryInv'
<1> SUFFICES ASSUME DeliveryInv, [Next]_vars PROVE DeliveryInv'
  OBVIOUS
<1>1. QueryInv'
  BY NextIInv, Zenon DEF DeliveryInv
<1>2. CASE UNCHANGED vars
  <2>1. /\ UNCHANGED <<call, ctxDone, unread, taken, joined, messages, status, listeners>>
        /\ UNCHANGED <<providersSoFar, buffer, query, connecting, connected, down>>
    BY <1>2, Zenon DEF vars, callVars, statusVars, workVars
  <2>2. CancelsMeant'
    BY <2>1, Zenon DEF DeliveryInv, CancelsMeant, Sent
  <2>3. ASSUME ~down PROVE Ordered'
    <3>1. Ordered
      BY <2>3, Zenon DEF DeliveryInv
    <3>2. Sent' = Sent /\ EndsLast'
      BY <2>1, <3>1, NothingSent, Zenon
    <3> QED
      BY <2>1, <3>1, <3>2, OrderKept, Zenon
  <2>4. ASSUME ~down, NEW k \in Key, Calm(k)' PROVE Delivery(k)'
    <3>1. Delivery(k)
      BY <2>1, <2>4, Zenon DEF DeliveryInv, Calm
    <3>2. OneQuery(k)'
      BY <2>1, <3>1, Zenon DEF Delivery, OneQuery, Unfinished, Message
    <3>3. Recorded(k)'
      BY <2>1, <3>1, Zenon DEF Delivery, Recorded, Sent, Message
    <3>4. UpToDate(k)' /\ Served(k)'
      BY <2>1, <3>1, Zenon DEF Delivery, UpToDate, Served, Complete
    <3> QED
      BY <3>2, <3>3, <3>4, Zenon DEF Delivery
  <2> QED
    BY <1>1, <2>1, <2>2, <2>3, <2>4, Zenon DEF DeliveryInv
<1>3. CASE Next
  <2>1. CancelsMeant' /\ QueryInv
    BY <1>3, CancelsStep, Zenon DEF DeliveryInv
  <2>2. SUFFICES ASSUME ~down'
                 PROVE  Ordered' /\ \A k \in Key : Calm(k)' => Delivery(k)'
    BY <1>1, <2>1, Zenon DEF DeliveryInv
  <2>3. ~Shutdown
    BY <2>2, Zenon DEF Shutdown
  <2>4. ~down
    <3>1. UNCHANGED down
      BY <1>3, <2>3, Zenon DEF Next, Ask, SessionEnds, Caller, Enqueue, Abandon, Leave, Cancel,
         Take, CallerFrame, Worker, SearchEnds, Finish, WorkerExit, Connect, Found, Dispatch,
         WorkerFrame, RunLoop, RunExit, Handle, HandleNew, HandleNewAborted, HandleProvider,
         HandleFinished, HandleCancel, HandlerFrame
    <3> QED
      BY <2>2, <3>1, Zenon
  <2>5. Ordered
    BY <2>4, Zenon DEF DeliveryInv
  <2>6. ASSUME NEW r \in Request, Ask(r) \/ SessionEnds(r) \/ Caller(r)
        PROVE  Ordered' /\ \A k \in Key : Calm(k)' => Delivery(k)'
    BY <2>1, <2>4, <2>5, <2>6, CallerOrder, CallerDelivery, Zenon
  <2>7. ASSUME NEW q \in Request, Worker(q) \/ \E p \in Provider : Found(q, p)
        PROVE  Ordered' /\ \A k \in Key : Calm(k)' => Delivery(k)'
    <3>1. \/ SearchEnds(q) \/ Finish(q)
          \/ \E p \in Provider : Found(q, p) \/ Connect(q, p)
      BY <2>4, <2>7, Zenon DEF Worker, WorkerExit
    <3> QED
      BY <2>1, <2>4, <2>5, <3>1, WorkerOrder, WorkerDelivery, Zenon
  <2>8. ASSUME NEW m, Handle(m)
        PROVE  Ordered' /\ \A k \in Key : Calm(k)' => Delivery(k)'
    <3>1. HandleNew(m) \/ HandleProvider(m) \/ HandleFinished(m) \/ HandleCancel(m)
      BY <2>4, <2>8, Zenon DEF Handle, HandleNewAborted
    <3>2. Ordered'
      BY <2>1, <2>5, <3>1, HandlerOrder, FinishedOrder, NewOrder, Zenon
    <3> QED
      BY <2>4, <3>1, <3>2, NewDelivery, ProviderDelivery, FinishedDelivery, CancelDelivery,
         Zenon
  <2>9. CASE Dispatch
    BY <2>1, <2>4, <2>5, <2>9, DispatchOrder, DispatchDelivery, Zenon
  <2> QED
    BY <1>3, <2>3, <2>4, <2>6, <2>7, <2>8, <2>9, Zenon DEF Next, RunLoop, RunExit
<1> QED
  BY <1>2, <1>3, Zenon

\* The inductive invariant holds in every reachable state.
THEOREM DeliveryInvariance == Spec => []DeliveryInv
  BY DeliveryInit, DeliveryStep, PTL DEF Spec

(* If nobody who asks for a key cancels, every request, however late it    *)
(* joins the query, reads exactly the providers the query could connect to *)
(* (newProvideQueryMessage, receivedProviderMessage, wg.Wait before the    *)
(* finished message).                                                      *)
THEOREM DeliveryIsComplete == Spec => []CompleteDelivery
<1>1. ASSUME DeliveryInv PROVE CompleteDelivery
  <2>1. SUFFICES ASSUME NEW r \in Request, call[r] = "done", ~down,
                        \A o \in ctxDone : KeyOf[o] # KeyOf[r]
                 PROVE  taken[r] = connected[joined[r]]
    BY Zenon DEF CompleteDelivery
  <2>2. KeyOf[r] \in Key
    BY KeyOfAssumption, Zenon
  <2>3. Delivery(KeyOf[r])
    BY <1>1, <2>1, <2>2, Zenon DEF DeliveryInv, Calm
  <2>4. r \notin listeners[KeyOf[r]]
    BY <2>1, <2>3 DEF Delivery, UpToDate
  <2>5. Complete(r)
    BY <2>1, <2>3, <2>4, Zenon DEF Delivery, Served
  <2> QED
    BY <2>1, <2>5 DEF Complete
<1> QED
  BY <1>1, DeliveryInvariance, PTL
=============================================================================
