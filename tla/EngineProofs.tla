---------------------------- MODULE EngineProofs ----------------------------
(***************************************************************************)
(* Proofs about the decision engine: the shape of its state, that a block  *)
(* goes only to a peer that asked for it, the relation of the ledger's two *)
(* maps, that active tasks are in a worker's hands, that a want-block is   *)
(* not lost to a HAVE, and that peers that wait are answered.              *)
(***************************************************************************)
EXTENDS Engine, TLAPS

\* A function changed at one argument keeps its type.
LEMMA ChangedPoint ==
    ASSUME NEW S, NEW T, NEW f \in [S -> T], NEW x, NEW y \in T
    PROVE  [f EXCEPT ![x] = y] \in [S -> T]
BY Zenon

-----------------------------------------------------------------------------
(* The ledger, point by point.                                             *)

\* Wants sets the given keys for its peer in both maps and nothing else.
LEMMA WantsPoint ==
    ASSUME NEW l \in Ledger, NEW p \in Peer, NEW ks \in SUBSET Key,
           NEW want \in [Key -> WantType \cup {NoWant}]
    PROVE  /\ Wants(l, p, want, ks) \in Ledger
           /\ \A q \in Peer, c \in Key :
                /\ Wants(l, p, want, ks).peers[q][c] =
                     IF q = p /\ c \in ks THEN want[c] ELSE l.peers[q][c]
                /\ Wants(l, p, want, ks).cids[c][q] =
                     IF q = p /\ c \in ks THEN want[c] ELSE l.cids[c][q]
BY DEF Wants, Ledger

\* Forget removes the given keys of its peer from both maps, nothing else.
LEMMA ForgetPoint ==
    ASSUME NEW l \in Ledger, NEW p \in Peer, NEW ks \in SUBSET Key
    PROVE  /\ Forget(l, p, ks) \in Ledger
           /\ \A q \in Peer, c \in Key :
                /\ Forget(l, p, ks).peers[q][c] =
                     IF q = p /\ c \in ks THEN NoWant ELSE l.peers[q][c]
                /\ Forget(l, p, ks).cids[c][q] =
                     IF q = p /\ c \in ks THEN NoWant ELSE l.cids[c][q]
BY DEF Forget, Ledger

\* ClearPeerWantlist removes what its peer wants from the map by key only.
LEMMA ClearPoint ==
    ASSUME NEW l \in Ledger, NEW p \in Peer
    PROVE  /\ ClearPeerWantlist(l, p) \in Ledger
           /\ ClearPeerWantlist(l, p).peers = l.peers
           /\ \A q \in Peer, c \in Key :
                ClearPeerWantlist(l, p).cids[c][q] =
                   IF q = p /\ l.peers[p][c] # NoWant THEN NoWant ELSE l.cids[c][q]
BY Zenon DEF ClearPeerWantlist, Ledger

\* PeerDisconnected also empties its peer's entry in the map by peer.
LEMMA DisconnectedPoint ==
    ASSUME NEW l \in Ledger, NEW p \in Peer
    PROVE  /\ PeerDisconnected(l, p) \in Ledger
           /\ \A q \in Peer, c \in Key :
                /\ PeerDisconnected(l, p).peers[q][c] =
                     IF q = p THEN NoWant ELSE l.peers[q][c]
                /\ PeerDisconnected(l, p).cids[c][q] =
                     IF q = p /\ l.peers[p][c] # NoWant THEN NoWant ELSE l.cids[c][q]
<1> DEFINE c0 == ClearPeerWantlist(l, p)
<1>1. /\ c0 \in Ledger
      /\ c0.peers = l.peers
      /\ \A q \in Peer, c \in Key : c0.cids[c][q] =
            IF q = p /\ l.peers[p][c] # NoWant THEN NoWant ELSE l.cids[c][q]
  BY ClearPoint, Zenon
<1> HIDE DEF c0
<1>2. PeerDisconnected(l, p) = [c0 EXCEPT !.peers[p] = [k \in Key |-> NoWant]]
  BY Zenon DEF PeerDisconnected, c0
<1>3. /\ PeerDisconnected(l, p) \in Ledger
      /\ PeerDisconnected(l, p).cids = c0.cids
      /\ PeerDisconnected(l, p).peers = [c0.peers EXCEPT ![p] = [k \in Key |-> NoWant]]
  <2>1. c0.peers \in [Peer -> [Key -> WantType \cup {NoWant}]]
    BY <1>1, Zenon DEF Ledger
  <2>2. PeerDisconnected(l, p) =
          [peers |-> [c0.peers EXCEPT ![p] = [k \in Key |-> NoWant]], cids |-> c0.cids]
    BY <1>1, <1>2, Zenon DEF Ledger
  <2>3. [c0.peers EXCEPT ![p] = [k \in Key |-> NoWant]]
           \in [Peer -> [Key -> WantType \cup {NoWant}]]
    BY <2>1, Zenon
  <2> QED
    BY <1>1, <2>2, <2>3 DEF Ledger
<1> QED
  BY <1>1, <1>3 DEF Ledger

\* CancelWant and CancelWantWithType forget some of the keys they are given.
LEMMA CancelPoint ==
    ASSUME NEW l \in Ledger, NEW p \in Peer, NEW ks \in SUBSET Key
    PROVE  /\ CancelWant(l, p, ks) \in Ledger
           /\ \A q \in Peer, c \in Key :
                \/ /\ CancelWant(l, p, ks).peers[q][c] = l.peers[q][c]
                   /\ CancelWant(l, p, ks).cids[c][q] = l.cids[c][q]
                \/ /\ q = p /\ c \in ks
                   /\ CancelWant(l, p, ks).peers[q][c] = NoWant
                   /\ CancelWant(l, p, ks).cids[c][q] = NoWant
<1>1. CASE WantlistForPeer(l, p) = {}
  BY <1>1, Zenon DEF CancelWant
<1>2. CASE WantlistForPeer(l, p) # {}
  BY <1>2, ForgetPoint DEF CancelWant
<1> QED
  BY <1>1, <1>2, Zenon

\* CancelWantWithType forgets the wants it is given, if they are of the type.
LEMMA CancelTypePoint ==
    ASSUME NEW l \in Ledger, NEW p \in Peer, NEW ks \in SUBSET Key, NEW type
    PROVE  /\ CancelWantWithType(l, p, ks, type) \in Ledger
           /\ \A q \in Peer, c \in Key :
                \/ /\ CancelWantWithType(l, p, ks, type).peers[q][c] = l.peers[q][c]
                   /\ CancelWantWithType(l, p, ks, type).cids[c][q] = l.cids[c][q]
                \/ /\ q = p /\ c \in ks
                   /\ ~(type = "have" /\ l.peers[p][c] = "block")
                   /\ CancelWantWithType(l, p, ks, type).peers[q][c] = NoWant
                   /\ CancelWantWithType(l, p, ks, type).cids[c][q] = NoWant
<1> DEFINE gone == {k \in ks : /\ l.peers[p][k] # NoWant
                               /\ ~(type = "have" /\ l.peers[p][k] = "block")}
<1>1. gone \in SUBSET Key
  OBVIOUS
<1>2. CancelWantWithType(l, p, ks, type) = Forget(l, p, gone)
  BY Zenon DEF CancelWantWithType
<1> QED
  BY <1>1, <1>2, ForgetPoint

-----------------------------------------------------------------------------
(* Tasks.                                                                  *)

\* A merged task asks for the block, or says it is there, only if one of the
\* two tasks did.
LEMMA MergeFacts ==
    ASSUME NEW t \in Task, NEW e \in Task
    PROVE  /\ Merge(t, e) \in Task
           /\ Merge(t, e).IsWantBlock => t.IsWantBlock \/ e.IsWantBlock
           /\ Merge(t, e).HaveBlock => t.HaveBlock \/ e.HaveBlock
BY Zenon DEF Merge, Task

\* No task is not a task.
LEMMA NoTaskApart == NoTask \notin Task
BY DEF NoTask, Task

\* What a push leaves pending: what was there, a new task, or a merged one.
LEMMA PushFacts ==
    ASSUME NEW p \in Peer, NEW new \in [Key -> Task \cup {NoTask}], NEW queued,
           pending \in [Peer -> [Key -> Task \cup {NoTask}]],
           PushTasks(p, new, queued)
    PROVE  /\ pending' \in [Peer -> [Key -> Task \cup {NoTask}]]
           /\ \A q \in Peer, k \in Key :
                \/ pending'[q][k] = pending[q][k]
                \/ q = p /\ new[k] \in Task /\ pending'[q][k] = new[k]
                \/ /\ q = p /\ new[k] \in Task /\ pending[q][k] \in Task
                   /\ pending'[q][k] = Merge(new[k], pending[q][k])
<1> DEFINE pushed == {k \in Key : new[k] # NoTask /\ ~SaysNothingNew(p, k, new[k])}
           fresh == {k \in pushed : pending[p][k] = NoTask}
           row == [k \in Key |-> IF k \in queued THEN new[k]
                     ELSE IF k \in pushed \ fresh THEN Merge(new[k], pending[p][k])
                     ELSE pending[p][k]]
<1>1. /\ queued \subseteq fresh
      /\ pending' = [pending EXCEPT ![p] = row]
  BY Zenon DEF PushTasks
<1>2. \A k \in Key :
        \/ row[k] = pending[p][k]
        \/ new[k] \in Task /\ row[k] = new[k]
        \/ /\ new[k] \in Task /\ pending[p][k] \in Task
           /\ row[k] = Merge(new[k], pending[p][k])
  BY <1>1
<1>3. \A k \in Key : row[k] \in Task \cup {NoTask}
  BY <1>2, MergeFacts
<1>4. row \in [Key -> Task \cup {NoTask}]
  BY <1>3, Zenon
<1> HIDE DEF row
<1> QED
  BY <1>1, <1>2, <1>4, Zenon

\* The tasks MessageReceived makes are tasks.
LEMMA TasksForType ==
    ASSUME TypeOK, NEW p \in Peer, rx[p].pc = "ledgered"
    PROVE  TasksFor(p) \in [Key -> Task \cup {NoTask}]
<1>1. /\ rx[p].msg \in Message
      /\ rx[p].msg.sendDontHave \in BOOLEAN
  BY MessageAssumption DEF TypeOK, Idle
<1> QED
  BY <1>1, Zenon DEF TasksFor, Task, sendAsBlock

\* The message a handler is at is well formed.
LEMMA RxFacts ==
    ASSUME TypeOK, NEW p \in Peer, rx[p].pc \in {"sized", "ledgered"}
    PROVE  /\ rx[p].msg \in Message
           /\ rx[p].wants \in SUBSET Key /\ rx[p].found \in SUBSET Key
           /\ rx[p].msg.want \in [Key -> WantType \cup {NoWant}]
           /\ rx[p].msg.cancel \in SUBSET Key
           /\ rx[p].msg.sendDontHave \in BOOLEAN
           /\ rx[p] \in [pc : {"sized", "ledgered"}, msg : Message,
                         wants : SUBSET Key, found : SUBSET Key]
<1>1. rx[p] \in [pc : {"sized", "ledgered"}, msg : Message,
                 wants : SUBSET Key, found : SUBSET Key]
  BY DEF TypeOK, Idle
<1> QED
  BY <1>1, MessageAssumption, Zenon

\* What UpdateLedger does to the ledger, the queue and the handler.
LEMMA UpdateLedgerFacts ==
    ASSUME TypeOK, NEW p \in Peer, UpdateLedger(p)
    PROVE  \E kept \in SUBSET Key, recorded \in SUBSET Key,
              cancelled \in SUBSET Key, dropped \in SUBSET Key :
             /\ kept \subseteq rx[p].wants /\ recorded \subseteq kept
             /\ cancelled \subseteq rx[p].msg.cancel
             /\ ledger' = CancelWant(
                   Wants(IF rx[p].msg.full THEN ClearPeerWantlist(ledger, p) ELSE ledger,
                         p, rx[p].msg.want, recorded), p, cancelled)
             /\ pending' = [pending EXCEPT ![p] = [k \in Key |->
                                    IF k \in dropped THEN NoTask ELSE @[k]]]
             /\ \/ rx' = [rx EXCEPT ![p] = [pc |-> "kill"]]
                \/ rx' = [rx EXCEPT ![p] = [@ EXCEPT !.pc = "ledgered", !.wants = kept]]
             /\ missed' \subseteq missed \cup ({p} \X recorded)
<1>1. rx[p].wants \in SUBSET Key /\ rx[p].msg.cancel \in SUBSET Key
  BY RxFacts, Zenon DEF UpdateLedger
<1>2. PICK kept \in SUBSET Key, recorded \in SUBSET Key,
           cancelled \in SUBSET Key, dropped \in SUBSET Key :
        /\ kept \subseteq rx[p].wants
        /\ Process(p, kept, recorded, cancelled, dropped)
  BY <1>1, Zenon DEF UpdateLedger
<1>3. /\ recorded \subseteq kept
      /\ cancelled \subseteq rx[p].msg.cancel
      /\ ledger' = CancelWant(
            Wants(IF rx[p].msg.full THEN ClearPeerWantlist(ledger, p) ELSE ledger,
                  p, rx[p].msg.want, recorded), p, cancelled)
      /\ pending' = [pending EXCEPT ![p] = [k \in Key |->
                              IF k \in dropped THEN NoTask ELSE @[k]]]
  BY <1>2, Zenon DEF Process
<1>4. \/ rx' = [rx EXCEPT ![p] = [pc |-> "kill"]]
      \/ rx' = [rx EXCEPT ![p] = [@ EXCEPT !.pc = "ledgered", !.wants = kept]]
  BY <1>2, Zenon DEF Process
<1>5. missed' \subseteq missed \cup ({p} \X recorded)
  BY <1>2, Zenon DEF Process
<1> QED
  BY <1>2, <1>3, <1>4, <1>5, Zenon

-----------------------------------------------------------------------------
(* The shape of the state.                                                 *)

\* An engine without peers.
LEMMA TypeInit == Init => TypeOK
BY MaxWantsAssumption DEF Init, TypeOK, newPeerLedger, Ledger, NoTask, Idle, EmptyHanded

\* Every handler and task worker keeps the types.
LEMMA TypeStep == TypeOK /\ [Next]_vars => TypeOK'
<1> SUFFICES ASSUME TypeOK, [Next]_vars PROVE TypeOK'
  OBVIOUS
<1> USE MaxWantsAssumption
<1>1. ASSUME NEW p \in Peer, NEW m \in Message, ReceiveMessage(p, m) PROVE TypeOK'
  <2>1. rx' \in [Peer -> {Idle} \cup [pc : {"kill"}] \cup
                 [pc : {"sized", "ledgered"}, msg : Message,
                  wants : SUBSET Key, found : SUBSET Key]]
    <3>1. rx' = rx \/ \E ks \in SUBSET Key, found \in SUBSET Key :
             rx' = [rx EXCEPT ![p] = [pc |-> "sized", msg |-> m, wants |-> ks,
                                      found |-> found]]
      BY <1>1, Zenon DEF ReceiveMessage
    <3>2. CASE rx' = rx
      BY <3>2, Zenon DEF TypeOK
    <3>3. ASSUME NEW ks \in SUBSET Key, NEW found \in SUBSET Key,
                 rx' = [rx EXCEPT ![p] = [pc |-> "sized", msg |-> m, wants |-> ks,
                                          found |-> found]]
          PROVE  rx' \in [Peer -> {Idle} \cup [pc : {"kill"}] \cup
                             [pc : {"sized", "ledgered"}, msg : Message,
                              wants : SUBSET Key, found : SUBSET Key]]
      BY <3>3, Zenon DEF TypeOK
    <3> QED
      BY <3>1, <3>2, <3>3, Zenon
  <2>2. asked' \subseteq Peer \X Key
    BY <1>1 DEF TypeOK, ReceiveMessage
  <2> QED
    BY <1>1, <2>1, <2>2 DEF TypeOK, ReceiveMessage, Event
<1>2. ASSUME NEW p \in Peer, UpdateLedger(p) PROVE TypeOK'
  <2> DEFINE m == rx[p].msg
             l == IF m.full THEN ClearPeerWantlist(ledger, p) ELSE ledger
  <2>1. /\ m.want \in [Key -> WantType \cup {NoWant}]
        /\ rx[p] \in [pc : {"sized", "ledgered"}, msg : Message,
                      wants : SUBSET Key, found : SUBSET Key]
    BY <1>2, RxFacts, Zenon DEF UpdateLedger
  <2>2. l \in Ledger
    BY ClearPoint, Zenon DEF TypeOK
  <2>3. PICK kept \in SUBSET Key, recorded \in SUBSET Key,
             cancelled \in SUBSET Key, dropped \in SUBSET Key :
          /\ ledger' = CancelWant(Wants(l, p, m.want, recorded), p, cancelled)
          /\ pending' = [pending EXCEPT ![p] = [k \in Key |->
                                    IF k \in dropped THEN NoTask ELSE @[k]]]
          /\ \/ rx' = [rx EXCEPT ![p] = [pc |-> "kill"]]
             \/ rx' = [rx EXCEPT ![p] = [@ EXCEPT !.pc = "ledgered", !.wants = kept]]
          /\ missed' \subseteq missed \cup ({p} \X recorded)
    BY <1>2, UpdateLedgerFacts, Zenon
  <2>9. m.want \in [Key -> WantType \cup {NoWant}]
    BY <2>1, Zenon
  <2> HIDE DEF m, l
  <2>4. Wants(l, p, m.want, recorded) \in Ledger
    BY <2>2, <2>9, WantsPoint
  <2>5. ledger' \in Ledger
    BY <2>3, <2>4, CancelPoint, Zenon
  <2>6. pending' \in [Peer -> [Key -> Task \cup {NoTask}]]
    BY <2>3 DEF TypeOK
  <2>7. rx' \in [Peer -> {Idle} \cup [pc : {"kill"}] \cup
                 [pc : {"sized", "ledgered"}, msg : Message,
                  wants : SUBSET Key, found : SUBSET Key]]
    <3>1. /\ [pc |-> "kill"] \in [pc : {"kill"}]
          /\ [rx[p] EXCEPT !.pc = "ledgered", !.wants = kept] \in
               [pc : {"sized", "ledgered"}, msg : Message,
                wants : SUBSET Key, found : SUBSET Key]
      BY <2>1, Zenon
    <3> DEFINE T == {Idle} \cup [pc : {"kill"}] \cup
                    [pc : {"sized", "ledgered"}, msg : Message,
                     wants : SUBSET Key, found : SUBSET Key]
               ledgered == [rx[p] EXCEPT !.pc = "ledgered", !.wants = kept]
    <3>2. rx \in [Peer -> T]
      BY Zenon DEF TypeOK
    <3>3. [pc |-> "kill"] \in T /\ ledgered \in T
      BY <3>1, Zenon
    <3>4. \/ rx' = [rx EXCEPT ![p] = [pc |-> "kill"]]
          \/ rx' = [rx EXCEPT ![p] = ledgered]
      BY <2>3, Zenon
    <3> HIDE DEF T, ledgered
    <3>5. rx' \in [Peer -> T]
      BY <3>2, <3>3, <3>4, ChangedPoint
    <3> QED
      BY <3>5, Zenon DEF T
  <2>8. missed' \subseteq Peer \X Key
    BY <2>3 DEF TypeOK
  <2> QED
    BY <1>2, <2>5, <2>6, <2>7, <2>8, Zenon DEF TypeOK, UpdateLedger
<1>3. ASSUME NEW p \in Peer, PushAnswers(p) PROVE TypeOK'
  <2>1. PICK queued \in SUBSET Key :
          /\ PushTasks(p, TasksFor(p), queued)
          /\ missed' = missed \cup ({p} \X Missed(p, TasksFor(p), queued))
    BY <1>3, Zenon DEF PushAnswers
  <2>2. pending' \in [Peer -> [Key -> Task \cup {NoTask}]]
    BY <1>3, <2>1, TasksForType, PushFacts, Zenon DEF TypeOK, PushAnswers
  <2>3. missed' \subseteq Peer \X Key
    BY <2>1 DEF TypeOK, Missed
  <2>4. rx' \in [Peer -> {Idle} \cup [pc : {"kill"}] \cup
                 [pc : {"sized", "ledgered"}, msg : Message,
                  wants : SUBSET Key, found : SUBSET Key]]
    BY <1>3, Zenon DEF TypeOK, PushAnswers
  <2> QED
    BY <1>3, <2>2, <2>3, <2>4, Zenon DEF TypeOK, PushAnswers
<1>4. ASSUME NEW p \in Peer, KillConnection(p) PROVE TypeOK'
  BY <1>4, Zenon DEF TypeOK, KillConnection
<1>5. ASSUME NEW k \in Key, StoreBlock(k) \/ DeleteBlock(k) PROVE TypeOK'
  <2>1. CASE StoreBlock(k)
    <3>1. notify' \in [Key -> [pc : {"none", "stored", "read"},
                             todo : SUBSET (Peer \X WantType)]]
      <4> DEFINE T == [pc : {"none", "stored", "read"},
                       todo : SUBSET (Peer \X WantType)]
                 told == [notify[k] EXCEPT !.pc = "stored"]
      <4>1. notify \in [Key -> T]
        BY Zenon DEF TypeOK
      <4>2. told \in T
        BY <4>1, Zenon
      <4>3. notify' = [notify EXCEPT ![k] = told]
        BY <2>1, Zenon DEF StoreBlock
      <4> HIDE DEF T, told
      <4>4. notify' \in [Key -> T]
        BY <4>1, <4>2, <4>3, ChangedPoint, Zenon
      <4> QED
        BY <4>4, Zenon DEF T
    <3> QED
      BY <2>1, <3>1 DEF TypeOK, StoreBlock, Event
  <2>2. CASE DeleteBlock(k)
    BY <2>2 DEF TypeOK, DeleteBlock, Event
  <2> QED
    BY <1>5, <2>1, <2>2, Zenon
<1>6. ASSUME NEW k \in Key, ReadWaiting(k) PROVE TypeOK'
  <2>1. {<<p, ledger.cids[k][p]>> : p \in PeersOf(ledger, k)} \in SUBSET (Peer \X WantType)
    BY DEF TypeOK, Ledger, PeersOf
  <2> QED
    BY <1>6, <2>1, Zenon DEF TypeOK, ReadWaiting
<1>7. ASSUME NEW k \in Key, NotifyPeer(k) PROVE TypeOK'
  <2>1. PICK entry \in notify[k].todo, queued \in SUBSET Key :
          LET new == [c \in Key |-> IF c # k THEN NoTask ELSE
                       [HaveBlock |-> TRUE, SendDontHave |-> FALSE,
                        IsWantBlock |-> sendAsBlock(entry[2])]]
          IN /\ PushTasks(entry[1], new, queued)
             /\ missed' \subseteq missed \cup ({entry[1]} \X Missed(entry[1], new, queued))
             /\ notify' = [notify EXCEPT ![k].todo = @ \ {entry}]
    BY <1>7, Zenon DEF NotifyPeer
  <2> DEFINE new == [c \in Key |-> IF c # k THEN NoTask ELSE
                       [HaveBlock |-> TRUE, SendDontHave |-> FALSE,
                        IsWantBlock |-> sendAsBlock(entry[2])]]
  <2>2. entry[1] \in Peer
    BY <2>1 DEF TypeOK
  <2>3. new \in [Key -> Task \cup {NoTask}]
    BY Zenon DEF Task, sendAsBlock
  <2>4. pending' \in [Peer -> [Key -> Task \cup {NoTask}]]
    BY <2>1, <2>2, <2>3, PushFacts, Zenon DEF TypeOK
  <2>5. missed' \subseteq Peer \X Key
    BY <2>1, <2>2, Zenon DEF TypeOK, Missed
  <2>6. notify' \in [Key -> [pc : {"none", "stored", "read"},
                          todo : SUBSET (Peer \X WantType)]]
    <3> DEFINE T == [pc : {"none", "stored", "read"},
                     todo : SUBSET (Peer \X WantType)]
               told == [notify[k] EXCEPT !.todo = @ \ {entry}]
    <3>1. notify \in [Key -> T]
      BY Zenon DEF TypeOK
    <3>2. told \in T
      BY <3>1, Zenon
    <3>3. notify' = [notify EXCEPT ![k] = told]
      BY <2>1, Zenon
    <3> HIDE DEF T, told
    <3>4. notify' \in [Key -> T]
      BY <3>1, <3>2, <3>3, ChangedPoint, Zenon
    <3> QED
      BY <3>4, Zenon DEF T
  <2> QED
    BY <1>7, <2>4, <2>5, <2>6, Zenon DEF TypeOK, NotifyPeer
<1>8. ASSUME NEW k \in Key, NotifyDone(k) PROVE TypeOK'
  BY <1>8, SMTT(30) DEF TypeOK, NotifyDone
<1>9. ASSUME NEW w \in Worker, PopTasks(w) PROVE TypeOK'
  <2>1. PICK p \in Peer : \E ks \in SUBSET {k \in Key : pending[p][k] # NoTask} :
         /\ active' = active \cup
              {[by |-> w, peer |-> p, key |-> k, task |-> pending[p][k]] : k \in ks}
         /\ pending' = [pending EXCEPT ![p] = [k \in Key |->
                          IF k \in ks THEN NoTask ELSE @[k]]]
         /\ hand' = [hand EXCEPT ![w] = [pc |-> "popped", peer |-> p]]
    BY <1>9, Zenon DEF PopTasks
  <2>2. PICK ks \in SUBSET {k \in Key : pending[p][k] # NoTask} :
         /\ active' = active \cup
              {[by |-> w, peer |-> p, key |-> k, task |-> pending[p][k]] : k \in ks}
         /\ pending' = [pending EXCEPT ![p] = [k \in Key |->
                          IF k \in ks THEN NoTask ELSE @[k]]]
         /\ hand' = [hand EXCEPT ![w] = [pc |-> "popped", peer |-> p]]
    BY <2>1, Zenon
  <2>3. active' \subseteq [by : Worker, peer : Peer, key : Key, task : Task]
    BY <2>2 DEF TypeOK
  <2>4. pending' \in [Peer -> [Key -> Task \cup {NoTask}]]
    BY <2>2 DEF TypeOK
  <2>5. hand' \in [Worker -> {EmptyHanded} \cup [pc : {"popped"}, peer : Peer] \cup
                   [pc : {"ready", "sent"}, peer : Peer, blocks : SUBSET Key,
                    haves : SUBSET Key, donts : SUBSET Key]]
    BY <2>2, Zenon DEF TypeOK
  <2> QED
    BY <1>9, <2>3, <2>4, <2>5, Zenon DEF TypeOK, PopTasks
<1>10. ASSUME NEW w \in Worker, MakeEnvelope(w) PROVE TypeOK'
  <2>1. hand[w] \in [pc : {"popped"}, peer : Peer]
    BY <1>10 DEF TypeOK, MakeEnvelope, EmptyHanded
  <2>2. CASE TasksDone(w)
    BY <1>10, <2>2, Zenon DEF TypeOK, MakeEnvelope, TasksDone
  <2>3. CASE ~TasksDone(w)
    <3>1. PICK blocks \in SUBSET Key, haves \in SUBSET Key, donts \in SUBSET Key :
            /\ hand' = [hand EXCEPT ![w] =
                          [pc |-> "ready", peer |-> @.peer, blocks |-> blocks,
                           haves |-> haves, donts |-> donts]]
            /\ UNCHANGED active
      <4> DEFINE tasks  == Held(w)
                 blocks == {a.key : a \in {a \in tasks : /\ a.task.HaveBlock
                                                   /\ a.task.IsWantBlock
                                                   /\ a.key \in store}}
                 haves  == {a.key : a \in {a \in tasks : /\ a.task.HaveBlock
                                                   /\ ~a.task.IsWantBlock}}
                 donts  == {a.key : a \in {a \in tasks :
                              \/ ~a.task.HaveBlock
                              \/ /\ a.task.IsWantBlock
                                 /\ a.key \notin store
                                 /\ a.task.SendDontHave}}
      <4>1. \A a \in tasks : a.key \in Key
        BY Zenon DEF Held, TypeOK
      <4>2. blocks \in SUBSET Key /\ haves \in SUBSET Key /\ donts \in SUBSET Key
        BY <4>1, Zenon
      <4>3. /\ hand' = [hand EXCEPT ![w] =
                          [pc |-> "ready", peer |-> @.peer, blocks |-> blocks,
                           haves |-> haves, donts |-> donts]]
            /\ UNCHANGED active
        BY <1>10, <2>3, Zenon DEF MakeEnvelope
      <4> QED
        BY <4>2, <4>3, Zenon
    <3> QED
      BY <1>10, <2>1, <3>1, Zenon DEF TypeOK, MakeEnvelope
  <2> QED
    BY <2>2, <2>3, Zenon
<1>11. ASSUME NEW w \in Worker, MessageSent(w) PROVE TypeOK'
  <2>1. hand[w] \in [pc : {"ready", "sent"}, peer : Peer, blocks : SUBSET Key,
                     haves : SUBSET Key, donts : SUBSET Key]
    BY <1>11 DEF TypeOK, MessageSent, EmptyHanded
  <2>2. ledger' \in Ledger
    <3> DEFINE l1 == CancelWantWithType(ledger, hand[w].peer, hand[w].blocks, "block")
    <3>1. l1 \in Ledger
      BY <2>1, CancelTypePoint, Zenon DEF TypeOK
    <3>2. ledger' = CancelWantWithType(l1, hand[w].peer, hand[w].haves, "have")
      BY <1>11, Zenon DEF MessageSent
    <3>3. hand[w].peer \in Peer /\ hand[w].haves \in SUBSET Key
      BY <2>1, Zenon
    <3> HIDE DEF l1
    <3>4. CancelWantWithType(l1, hand[w].peer, hand[w].haves, "have") \in Ledger
      BY <3>1, <3>3, CancelTypePoint, SMTT(30)
    <3> QED
      BY <3>2, <3>4, Zenon
  <2>3. hand' \in [Worker -> {EmptyHanded} \cup [pc : {"popped"}, peer : Peer] \cup
                   [pc : {"ready", "sent"}, peer : Peer, blocks : SUBSET Key,
                    haves : SUBSET Key, donts : SUBSET Key]]
    BY <1>11, <2>1, Zenon DEF TypeOK, MessageSent
  <2> QED
    BY <1>11, <2>2, <2>3, Zenon DEF TypeOK, MessageSent
<1>12. ASSUME NEW w \in Worker, SendBlocks(w) PROVE TypeOK'
  BY <1>12, Zenon DEF TypeOK, SendBlocks, TasksDone
<1>13. ASSUME NEW p \in Peer, PeerConnected(p) \/ ConnectionLost(p) PROVE TypeOK'
  BY <1>13 DEF TypeOK, PeerConnected, ConnectionLost, Event
<1>14. ASSUME NEW p \in Peer, ClearQueue(p) PROVE TypeOK'
  BY <1>14, Zenon DEF TypeOK, ClearQueue
<1>15. ASSUME NEW p \in Peer, ForgetPeer(p) PROVE TypeOK'
  <2>1. ledger' \in Ledger
    BY <1>15, DisconnectedPoint, Zenon DEF TypeOK, ForgetPeer
  <2> QED
    BY <1>15, <2>1, Zenon DEF TypeOK, ForgetPeer
<1>16. ASSUME UNCHANGED vars PROVE TypeOK'
  BY <1>16, Zenon DEF TypeOK, vars
<1> QED
  BY <1>1, <1>2, <1>3, <1>4, <1>5, <1>6, <1>7, <1>8, <1>9, <1>10, <1>11, <1>12, <1>13,
     <1>14, <1>15, <1>16, Zenon DEF Next

\* TypeOK holds throughout.
THEOREM TypeCorrect == Spec => []TypeOK
BY TypeInit, TypeStep, PTL DEF Spec

-----------------------------------------------------------------------------
(* The ledger's two maps.                                                  *)

\* Both maps of the ledger are empty at first.
LEMMA InverseInit == Init => LedgerInverse
BY SMTT(30) DEF Init, LedgerInverse, newPeerLedger

\* Every handler changes both maps of the ledger together.
LEMMA InverseStep == TypeOK /\ LedgerInverse /\ [Next]_vars => LedgerInverse'
<1> SUFFICES ASSUME TypeOK, LedgerInverse, [Next]_vars PROVE LedgerInverse'
  OBVIOUS
<1>1. ASSUME UNCHANGED <<ledger, emptied>> PROVE LedgerInverse'
  BY <1>1, Zenon DEF LedgerInverse
<1>2. ASSUME NEW p \in Peer, UpdateLedger(p) PROVE LedgerInverse'
  <2> DEFINE m == rx[p].msg
             l == IF m.full THEN ClearPeerWantlist(ledger, p) ELSE ledger
  <2>1. m.want \in [Key -> WantType \cup {NoWant}]
    BY <1>2, RxFacts, Zenon DEF UpdateLedger
  <2>2. /\ l \in Ledger
        /\ \A q \in Peer, c \in Key :
             /\ l.cids[c][q] # NoWant => l.peers[q][c] = l.cids[c][q]
             /\ q \notin emptied' => l.peers[q][c] = l.cids[c][q]
    <3>0. /\ ledger \in Ledger
          /\ emptied' = IF m.full THEN emptied \cup {p} ELSE emptied
      BY <1>2, Zenon DEF TypeOK, UpdateLedger
    <3>1. CASE m.full
      <4>1. /\ l \in Ledger /\ l.peers = ledger.peers
            /\ \A q \in Peer, c \in Key : l.cids[c][q] =
                 IF q = p /\ ledger.peers[p][c] # NoWant THEN NoWant ELSE ledger.cids[c][q]
        BY <3>0, <3>1, ClearPoint
      <4> HIDE DEF l
      <4> QED
        BY <3>0, <3>1, <4>1 DEF LedgerInverse
    <3>2. CASE ~m.full
      BY <3>0, <3>2, Zenon DEF LedgerInverse
    <3> QED
      BY <3>1, <3>2, Zenon
  <2>3. PICK recorded \in SUBSET Key, cancelled \in SUBSET Key :
          ledger' = CancelWant(Wants(l, p, m.want, recorded), p, cancelled)
    BY <1>2, UpdateLedgerFacts, Zenon
  <2> HIDE DEF m, l
  <2> DEFINE l1 == Wants(l, p, m.want, recorded)
  <2>4. /\ l1 \in Ledger
        /\ \A q \in Peer, c \in Key :
             \/ l1.peers[q][c] = l1.cids[c][q]
             \/ l1.peers[q][c] = l.peers[q][c] /\ l1.cids[c][q] = l.cids[c][q]
    BY <2>1, <2>2, WantsPoint
  <2> HIDE DEF l1
  <2>5. \A q \in Peer, c \in Key :
             \/ ledger'.peers[q][c] = ledger'.cids[c][q]
             \/ ledger'.peers[q][c] = l1.peers[q][c] /\ ledger'.cids[c][q] = l1.cids[c][q]
    BY <2>3, <2>4, CancelPoint DEF l1
  <2> QED
    BY <2>2, <2>4, <2>5, SMTT(30) DEF LedgerInverse
<1>3. ASSUME NEW w \in Worker, MessageSent(w) PROVE LedgerInverse'
  <2> DEFINE p == hand[w].peer
             l1 == CancelWantWithType(ledger, p, hand[w].blocks, "block")
  <2>1. p \in Peer /\ hand[w].blocks \in SUBSET Key /\ hand[w].haves \in SUBSET Key
    BY <1>3 DEF TypeOK, MessageSent, EmptyHanded
  <2>2. ledger' = CancelWantWithType(l1, p, hand[w].haves, "have")
    BY <1>3, Zenon DEF MessageSent
  <2>3. /\ l1 \in Ledger
        /\ \A q \in Peer, c \in Key :
             \/ l1.peers[q][c] = l1.cids[c][q]
             \/ l1.peers[q][c] = ledger.peers[q][c] /\ l1.cids[c][q] = ledger.cids[c][q]
    <3>1. ledger \in Ledger
      BY Zenon DEF TypeOK
    <3> HIDE DEF p
    <3> QED
      BY <2>1, <3>1, CancelTypePoint, SMTT(30)
  <2> HIDE DEF p, l1
  <2>4. \A q \in Peer, c \in Key :
             \/ ledger'.peers[q][c] = ledger'.cids[c][q]
             \/ ledger'.peers[q][c] = l1.peers[q][c] /\ ledger'.cids[c][q] = l1.cids[c][q]
    BY <2>1, <2>2, <2>3, CancelTypePoint, SMTT(30)
  <2>5. emptied' = emptied
    BY <1>3, Zenon DEF MessageSent
  <2> QED
    BY <2>3, <2>4, <2>5 DEF LedgerInverse
<1>4. ASSUME NEW p \in Peer, ForgetPeer(p) PROVE LedgerInverse'
  <2>1. ledger' = PeerDisconnected(ledger, p) /\ emptied' = emptied \ {p}
    BY <1>4, Zenon DEF ForgetPeer
  <2>2. \A q \in Peer, c \in Key :
          /\ ledger'.peers[q][c] = IF q = p THEN NoWant ELSE ledger.peers[q][c]
          /\ ledger'.cids[c][q] =
               IF q = p /\ ledger.peers[p][c] # NoWant THEN NoWant ELSE ledger.cids[c][q]
    BY <2>1, DisconnectedPoint DEF TypeOK
  <2> QED
    BY <2>1, <2>2 DEF LedgerInverse
<1> QED
  BY <1>1, <1>2, <1>3, <1>4, Zenon
  DEF Next, vars, ReceiveMessage, PushAnswers, KillConnection, StoreBlock,
      DeleteBlock, ReadWaiting, NotifyPeer, NotifyDone, PopTasks, MakeEnvelope,
      SendBlocks, PeerConnected, ConnectionLost, ClearQueue

\* The ledger's maps are inversions of each other, but for a peer that sent a
\* full wantlist.
THEOREM LedgerInverseHolds == Spec => []LedgerInverse
<1>1. Init => TypeOK /\ LedgerInverse
  BY TypeInit, InverseInit, Zenon
<1>2. TypeOK /\ LedgerInverse /\ [Next]_vars => (TypeOK /\ LedgerInverse)'
  BY TypeStep, InverseStep, Zenon
<1> QED
  BY <1>1, <1>2, PTL DEF Spec

-----------------------------------------------------------------------------
(* Active tasks.                                                           *)

\* Tasks become active when a worker takes them, and inactive when it is done.
LEMMA HeldStep == TypeOK /\ ActiveHeld /\ [Next]_vars => ActiveHeld'
<1> SUFFICES ASSUME TypeOK, ActiveHeld, [Next]_vars PROVE ActiveHeld'
  OBVIOUS
<1>1. ASSUME UNCHANGED <<active, hand>> PROVE ActiveHeld'
  BY <1>1, Zenon DEF ActiveHeld
<1>2. ASSUME NEW w \in Worker, PopTasks(w) PROVE ActiveHeld'
  <2>1. PICK p \in Peer : \E ks \in SUBSET Key :
         /\ active' = active \cup
              {[by |-> w, peer |-> p, key |-> k, task |-> pending[p][k]] : k \in ks}
         /\ hand' = [hand EXCEPT ![w] = [pc |-> "popped", peer |-> p]]
    BY <1>2, Zenon DEF PopTasks
  <2>2. \A a \in active : a.by # w
    BY <1>2 DEF ActiveHeld, PopTasks, EmptyHanded
  <2> QED
    BY <2>1, <2>2 DEF ActiveHeld, TypeOK
<1>3. ASSUME NEW w \in Worker, TasksDone(w) PROVE ActiveHeld'
  BY <1>3, Zenon DEF ActiveHeld, TasksDone, Held, TypeOK
<1>4. ASSUME NEW w \in Worker, MakeEnvelope(w) PROVE ActiveHeld'
  <2>1. CASE TasksDone(w)
    BY <1>3, <2>1, Zenon
  <2>2. CASE ~TasksDone(w)
    <3>1. /\ active' = active
          /\ \E b, h, d : hand' = [hand EXCEPT ![w] =
                             [pc |-> "ready", peer |-> @.peer, blocks |-> b,
                              haves |-> h, donts |-> d]]
      BY <1>4, <2>2, Zenon DEF MakeEnvelope
    <3> QED
      BY <3>1 DEF ActiveHeld, TypeOK
  <2> QED
    BY <2>1, <2>2, Zenon
<1>5. ASSUME NEW w \in Worker, MessageSent(w) PROVE ActiveHeld'
  BY <1>5, SMTT(30) DEF ActiveHeld, MessageSent, TypeOK
<1> QED
  BY <1>1, <1>2, <1>3, <1>4, <1>5, Zenon DEF Next, vars, ReceiveMessage, UpdateLedger,
     PushAnswers, KillConnection, StoreBlock, DeleteBlock, ReadWaiting, NotifyPeer,
     NotifyDone, SendBlocks, PeerConnected, ConnectionLost, ClearQueue, ForgetPeer

\* Every active task is in the hands of a worker that is working on it.
THEOREM ActiveHeldAlways == Spec => []ActiveHeld
<1>1. Init => TypeOK /\ ActiveHeld
  BY TypeInit, Zenon DEF Init, ActiveHeld
<1>2. TypeOK /\ ActiveHeld /\ [Next]_vars => (TypeOK /\ ActiveHeld)'
  BY TypeStep, HeldStep, Zenon
<1> QED
  BY <1>1, <1>2, PTL DEF Spec

-----------------------------------------------------------------------------
(* Blocks only on request.  A task may ask for the block only if its peer  *)
(* did, and say that the block is there only if the filter lets the peer   *)
(* know; so must everything a task is made from.                           *)

\* What a task with these flags needs.
Justified(p, k, isWantBlock, haveBlock) ==
    /\ isWantBlock => <<p, k>> \in asked
    /\ haveBlock => <<p, k>> \notin Denied

\* The tasks in the queue, in the workers' hands, in the handlers' messages, in
\* the ledger and in the announcements.
PendingJustified ==
    \A p \in Peer, k \in Key : pending[p][k] \in Task =>
        Justified(p, k, pending[p][k].IsWantBlock, pending[p][k].HaveBlock)

ActiveJustified ==
    \A a \in active : Justified(a.peer, a.key, a.task.IsWantBlock, a.task.HaveBlock)

MessagesJustified ==
    \A p \in Peer : rx[p].pc \in {"sized", "ledgered"} => \A k \in Key :
        /\ Justified(p, k, rx[p].msg.want[k] = "block", k \in rx[p].wants)
        /\ k \in rx[p].wants => rx[p].msg.want[k] # NoWant

LedgerJustified ==
    \A p \in Peer, k \in Key :
        Justified(p, k, ledger.cids[k][p] = "block", ledger.cids[k][p] # NoWant)

NotifyJustified ==
    \A k \in Key : \A e \in notify[k].todo : Justified(e[1], k, e[2] = "block", TRUE)

\* The inductive invariant.
AskedInv ==
    /\ PendingJustified /\ ActiveJustified /\ MessagesJustified
    /\ LedgerJustified /\ NotifyJustified /\ OnlyAskedFor

\* A push of justified tasks leaves justified tasks.
LEMMA PushJustified ==
    ASSUME NEW p \in Peer, NEW new \in [Key -> Task \cup {NoTask}], NEW queued,
           pending \in [Peer -> [Key -> Task \cup {NoTask}]],
           PushTasks(p, new, queued), PendingJustified, asked' = asked,
           \A k \in Key : new[k] \in Task =>
              Justified(p, k, new[k].IsWantBlock, new[k].HaveBlock)
    PROVE  PendingJustified'
<1>1. \A q \in Peer, k \in Key :
        \/ pending'[q][k] = pending[q][k]
        \/ q = p /\ new[k] \in Task /\ pending'[q][k] = new[k]
        \/ /\ q = p /\ new[k] \in Task /\ pending[q][k] \in Task
           /\ pending'[q][k] = Merge(new[k], pending[q][k])
  BY PushFacts
<1> SUFFICES ASSUME NEW q \in Peer, NEW k \in Key, pending'[q][k] \in Task
             PROVE  /\ pending'[q][k].IsWantBlock => <<q, k>> \in asked
                    /\ pending'[q][k].HaveBlock => <<q, k>> \notin Denied
  BY Zenon DEF PendingJustified, Justified
<1>2. CASE pending'[q][k] = pending[q][k]
  BY <1>2, Zenon DEF PendingJustified, Justified
<1>3. CASE q = p /\ new[k] \in Task /\ pending'[q][k] = new[k]
  BY <1>3, Zenon DEF Justified
<1>4. CASE /\ q = p /\ new[k] \in Task /\ pending[q][k] \in Task
           /\ pending'[q][k] = Merge(new[k], pending[q][k])
  <2>1. /\ Merge(new[k], pending[q][k]).IsWantBlock =>
             new[k].IsWantBlock \/ pending[q][k].IsWantBlock
        /\ Merge(new[k], pending[q][k]).HaveBlock =>
             new[k].HaveBlock \/ pending[q][k].HaveBlock
    BY <1>4, MergeFacts, Zenon
  <2> QED
    BY <1>4, <2>1, Zenon DEF PendingJustified, Justified
<1> QED
  BY <1>1, <1>2, <1>3, <1>4, Zenon

\* What the steps that change the ledger do to the map by key.
LEMMA LedgerShrinks ==
    ASSUME TypeOK, [Next]_vars, NEW q \in Peer, NEW c \in Key
    PROVE  \/ ledger'.cids[c][q] = ledger.cids[c][q]
           \/ ledger'.cids[c][q] = NoWant
           \/ /\ UpdateLedger(q) /\ c \in rx[q].wants
              /\ ledger'.cids[c][q] = rx[q].msg.want[c]
<1>1. CASE UNCHANGED ledger
  BY <1>1, Zenon
<1>2. ASSUME NEW p \in Peer, UpdateLedger(p)
      PROVE  \/ ledger'.cids[c][q] = ledger.cids[c][q]
             \/ ledger'.cids[c][q] = NoWant
             \/ p = q /\ c \in rx[q].wants /\ ledger'.cids[c][q] = rx[q].msg.want[c]
  <2> DEFINE m == rx[p].msg
             l == IF m.full THEN ClearPeerWantlist(ledger, p) ELSE ledger
  <2>1. m.want \in [Key -> WantType \cup {NoWant}]
    BY <1>2, RxFacts, Zenon DEF UpdateLedger
  <2>2. l \in Ledger /\ l.cids[c][q] \in {ledger.cids[c][q], NoWant}
    BY ClearPoint, SMTT(30) DEF TypeOK
  <2>3. PICK recorded \in SUBSET Key, cancelled \in SUBSET Key :
          /\ recorded \subseteq rx[p].wants
          /\ ledger' = CancelWant(Wants(l, p, m.want, recorded), p, cancelled)
    BY <1>2, UpdateLedgerFacts, ZenonT(30)
  <2>0. m.want = rx[p].msg.want
    OBVIOUS
  <2> HIDE DEF m, l
  <2> DEFINE l1 == Wants(l, p, m.want, recorded)
  <2>4. /\ l1 \in Ledger
        /\ l1.cids[c][q] = IF q = p /\ c \in recorded THEN m.want[c] ELSE l.cids[c][q]
    <3> DEFINE want == m.want
    <3>1. want \in [Key -> WantType \cup {NoWant}] /\ l \in Ledger /\ recorded \in SUBSET Key
      BY <2>1, <2>2, Zenon
    <3> HIDE DEF want
    <3>2. /\ Wants(l, p, want, recorded) \in Ledger
          /\ \A r \in Peer, d \in Key : Wants(l, p, want, recorded).cids[d][r] =
               IF r = p /\ d \in recorded THEN want[d] ELSE l.cids[d][r]
      BY <3>1, WantsPoint, SMTT(30)
    <3> QED
      BY <3>2, Zenon DEF want
  <2> HIDE DEF l1
  <2>5. ledger'.cids[c][q] \in {l1.cids[c][q], NoWant}
    BY <2>3, <2>4, CancelPoint DEF l1
  <2> QED
    BY <2>0, <2>2, <2>3, <2>4, <2>5, Zenon
<1>3. ASSUME NEW w \in Worker, MessageSent(w)
      PROVE  ledger'.cids[c][q] \in {ledger.cids[c][q], NoWant}
  <2> DEFINE p == hand[w].peer
             l1 == CancelWantWithType(ledger, p, hand[w].blocks, "block")
  <2>1. p \in Peer /\ hand[w].blocks \in SUBSET Key /\ hand[w].haves \in SUBSET Key
    BY <1>3 DEF TypeOK, MessageSent, EmptyHanded
  <2>2. ledger' = CancelWantWithType(l1, p, hand[w].haves, "have")
    BY <1>3, Zenon DEF MessageSent
  <2>3. l1 \in Ledger /\ l1.cids[c][q] \in {ledger.cids[c][q], NoWant}
    <3>1. ledger \in Ledger
      BY Zenon DEF TypeOK
    <3> HIDE DEF p
    <3> QED
      BY <2>1, <3>1, CancelTypePoint, SMTT(30)
  <2> HIDE DEF p, l1
  <2>4. ledger'.cids[c][q] \in {l1.cids[c][q], NoWant}
    BY <2>1, <2>2, <2>3, CancelTypePoint
  <2> QED
    BY <2>3, <2>4, Zenon
<1>4. ASSUME NEW p \in Peer, ForgetPeer(p)
      PROVE  ledger'.cids[c][q] \in {ledger.cids[c][q], NoWant}
  BY <1>4, DisconnectedPoint DEF ForgetPeer, TypeOK
<1> QED
  BY <1>1, <1>2, <1>3, <1>4, Zenon
  DEF Next, vars, ReceiveMessage, PushAnswers, KillConnection, StoreBlock,
      DeleteBlock, ReadWaiting, NotifyPeer, NotifyDone, PopTasks, MakeEnvelope,
      SendBlocks, PeerConnected, ConnectionLost, ClearQueue

\* Nothing is asked for at first.
LEMMA AskedInit == Init => AskedInv
<1> SUFFICES ASSUME Init PROVE AskedInv
  OBVIOUS
<1>1. PendingJustified
  BY NoTaskApart, Zenon DEF Init, PendingJustified
<1>2. ActiveJustified
  BY Zenon DEF Init, ActiveJustified
<1>3. MessagesJustified
  BY Zenon DEF Init, MessagesJustified, Idle
<1>4. LedgerJustified
  BY Zenon DEF Init, LedgerJustified, Justified, newPeerLedger, NoWant
<1>5. NotifyJustified
  BY Zenon DEF Init, NotifyJustified
<1>6. OnlyAskedFor
  BY Zenon DEF Init, OnlyAskedFor, EmptyHanded
<1> QED
  BY <1>1, <1>2, <1>3, <1>4, <1>5, <1>6, Zenon DEF AskedInv

\* What was asked for stays asked for.
LEMMA AskedGrows == [Next]_vars => asked \subseteq asked'
BY ZenonT(30) DEF Next, vars, ReceiveMessage, UpdateLedger, PushAnswers, KillConnection,
       StoreBlock, DeleteBlock, ReadWaiting, NotifyPeer, NotifyDone, PopTasks,
       MakeEnvelope, MessageSent, SendBlocks, PeerConnected, ConnectionLost,
       ClearQueue, ForgetPeer

\* Messages under way stay justified.
LEMMA MessagesStep == TypeOK /\ MessagesJustified /\ [Next]_vars => MessagesJustified'
<1> SUFFICES ASSUME TypeOK, MessagesJustified, [Next]_vars PROVE MessagesJustified'
  OBVIOUS
<1>0. asked \subseteq asked'
  BY AskedGrows, Zenon
<1>1. ASSUME UNCHANGED rx PROVE MessagesJustified'
  BY <1>0, <1>1, Zenon DEF MessagesJustified, Justified
<1>2. ASSUME NEW p \in Peer, NEW m \in Message, ReceiveMessage(p, m)
      PROVE  MessagesJustified'
  <2>1. \A q \in Peer : q # p => rx'[q] = rx[q]
    BY <1>2, Zenon DEF ReceiveMessage, TypeOK
  <2>3. CASE UNCHANGED rx
    BY <1>1, <2>3, Zenon
  <2> SUFFICES ASSUME ~UNCHANGED rx PROVE MessagesJustified'
    BY <2>3, Zenon
  <2>2. /\ rx'[p].msg = m
        /\ rx'[p].wants = {k \in Key : m.want[k] # NoWant /\ <<p, k>> \notin Denied}
        /\ \A k \in Key : m.want[k] = "block" => <<p, k>> \in asked'
    <3> DEFINE allowed == {k \in Key : m.want[k] # NoWant /\ <<p, k>> \notin Denied}
               y == [pc |-> "sized", msg |-> m, wants |-> allowed,
                     found |-> allowed \cap store]
    <3>1. /\ rx' = [rx EXCEPT ![p] = y]
          /\ asked' = asked \cup {<<p, k>> : k \in {k \in Key : m.want[k] = "block"}}
      BY <1>2, Zenon DEF ReceiveMessage
    <3>2. y.msg = m /\ y.wants = allowed
      OBVIOUS
    <3> HIDE DEF y
    <3>3. rx'[p] = y
      BY <3>1, Zenon DEF TypeOK
    <3>4. \A k \in Key : m.want[k] = "block" => <<p, k>> \in asked'
      BY <3>1, Zenon
    <3> QED
      BY <3>2, <3>3, <3>4, Zenon
  <2> QED
    BY <1>0, <2>1, <2>2, SMTT(30) DEF MessagesJustified, Justified
<1>3. ASSUME NEW p \in Peer, UpdateLedger(p) PROVE MessagesJustified'
  <2>0. rx[p] \in [pc : {"sized", "ledgered"}, msg : Message,
                   wants : SUBSET Key, found : SUBSET Key] /\ rx[p].pc = "sized"
    BY <1>3, RxFacts, Zenon DEF UpdateLedger
  <2>1. PICK kept \in SUBSET Key :
          /\ kept \subseteq rx[p].wants
          /\ \/ rx' = [rx EXCEPT ![p] = [pc |-> "kill"]]
             \/ rx' = [rx EXCEPT ![p] = [@ EXCEPT !.pc = "ledgered", !.wants = kept]]
    BY <1>3, UpdateLedgerFacts, Zenon
  <2>2. /\ \A q \in Peer : q # p => rx'[q] = rx[q]
        /\ \/ rx'[p].pc = "kill"
           \/ rx'[p].msg = rx[p].msg /\ rx'[p].wants = kept
    <3> DEFINE r == rx[p]
               next == [r EXCEPT !.pc = "ledgered", !.wants = kept]
    <3>1. next.msg = r.msg /\ next.wants = kept
      BY <2>0, Zenon
    <3>2. /\ rx \in [Peer -> {Idle} \cup [pc : {"kill"}] \cup
                       [pc : {"sized", "ledgered"}, msg : Message,
                        wants : SUBSET Key, found : SUBSET Key]]
          /\ \/ rx' = [rx EXCEPT ![p] = [pc |-> "kill"]]
             \/ rx' = [rx EXCEPT ![p] = next]
      BY <2>1, Zenon DEF TypeOK
    <3> HIDE DEF next
    <3> QED
      BY <3>1, <3>2
  <2> QED
    BY <1>0, <2>0, <2>1, <2>2, SMTT(30) DEF MessagesJustified, Justified
<1>4. ASSUME NEW p \in Peer, PushAnswers(p) \/ KillConnection(p)
      PROVE  MessagesJustified'
  <2>1. rx' = [rx EXCEPT ![p] = Idle]
    BY <1>4, Zenon DEF PushAnswers, KillConnection
  <2> QED
    BY <1>0, <2>1, Zenon DEF MessagesJustified, Justified, TypeOK, Idle
<1> QED
  BY <1>1, <1>2, <1>3, <1>4, Zenon DEF Next, vars, StoreBlock, DeleteBlock, ReadWaiting,
     NotifyPeer, NotifyDone, PopTasks, MakeEnvelope, MessageSent, SendBlocks,
     PeerConnected, ConnectionLost, ClearQueue, ForgetPeer

\* What the ledger holds, a peer asked for.
LEMMA LedgerStep ==
    TypeOK /\ AskedInv /\ [Next]_vars => LedgerJustified' /\ NotifyJustified'
<1> SUFFICES ASSUME TypeOK, AskedInv, [Next]_vars
             PROVE  LedgerJustified' /\ NotifyJustified'
  OBVIOUS
<1>0. asked \subseteq asked'
  BY AskedGrows, Zenon
<1>1. LedgerJustified'
  <2> SUFFICES ASSUME NEW p \in Peer, NEW k \in Key
               PROVE  /\ ledger'.cids[k][p] = "block" => <<p, k>> \in asked'
                      /\ ledger'.cids[k][p] # NoWant => <<p, k>> \notin Denied
    BY Zenon DEF LedgerJustified, Justified
  <2>1. CASE ledger'.cids[k][p] = ledger.cids[k][p]
    BY <1>0, <2>1, Zenon DEF AskedInv, LedgerJustified, Justified
  <2>2. CASE ledger'.cids[k][p] = NoWant
    BY <2>2, Zenon DEF NoWant
  <2>3. CASE /\ UpdateLedger(p) /\ k \in rx[p].wants
             /\ ledger'.cids[k][p] = rx[p].msg.want[k]
    BY <1>0, <2>3, SMTT(30) DEF AskedInv, MessagesJustified, Justified, UpdateLedger
  <2> QED
    BY <2>1, <2>2, <2>3, LedgerShrinks, Zenon
<1>2. NotifyJustified'
  <2>1. ASSUME UNCHANGED notify PROVE NotifyJustified'
    BY <1>0, <2>1, Zenon DEF AskedInv, NotifyJustified, Justified
  <2>2. ASSUME NEW k \in Key, ReadWaiting(k) PROVE NotifyJustified'
    <3>1. /\ \A c \in Key : c # k => notify'[c] = notify[c]
          /\ notify'[k].todo = {<<p, ledger.cids[k][p]>> : p \in PeersOf(ledger, k)}
      BY <2>2, Zenon DEF ReadWaiting, TypeOK
    <3>2. \A e \in notify'[k].todo : /\ e[2] = "block" => <<e[1], k>> \in asked'
                                     /\ <<e[1], k>> \notin Denied
      BY <1>0, <3>1 DEF AskedInv, LedgerJustified, Justified, PeersOf
    <3> QED
      BY <1>0, <3>1, <3>2, ZenonT(30) DEF AskedInv, NotifyJustified, Justified
  <2>3. ASSUME NEW k \in Key, \/ StoreBlock(k) \/ NotifyPeer(k) \/ NotifyDone(k)
        PROVE  NotifyJustified'
    <3>0. \/ notify' = [notify EXCEPT ![k].pc = "stored"]
          \/ notify' = [notify EXCEPT ![k].pc = "none"]
          \/ \E e : notify' = [notify EXCEPT ![k].todo = @ \ {e}]
      BY <2>3, Zenon DEF StoreBlock, NotifyPeer, NotifyDone
    <3>1. \A c \in Key : notify'[c].todo \subseteq notify[c].todo
      BY <3>0, SMTT(30) DEF TypeOK
    <3> QED
      BY <1>0, <3>1, Zenon DEF AskedInv, NotifyJustified, Justified
  <2> QED
    BY <2>1, <2>2, <2>3, Zenon DEF Next, vars, ReceiveMessage, UpdateLedger, PushAnswers,
       KillConnection, DeleteBlock, PopTasks, MakeEnvelope, MessageSent, SendBlocks,
       PeerConnected, ConnectionLost, ClearQueue, ForgetPeer
<1> QED
  BY <1>1, <1>2, Zenon

\* What the request queue holds, a peer asked for.
LEMMA PendingStep == TypeOK /\ AskedInv /\ [Next]_vars => PendingJustified'
<1> SUFFICES ASSUME TypeOK, AskedInv, [Next]_vars PROVE PendingJustified'
  OBVIOUS
<1>0. asked \subseteq asked'
  BY AskedGrows, Zenon
<1>1. ASSUME UNCHANGED pending PROVE PendingJustified'
  BY <1>0, <1>1, Zenon DEF AskedInv, PendingJustified, Justified
<1>2. ASSUME \A q \in Peer, k \in Key : pending'[q][k] \in {pending[q][k], NoTask}
      PROVE  PendingJustified'
  BY <1>0, <1>2, NoTaskApart, Zenon DEF AskedInv, PendingJustified, Justified
<1>3. ASSUME NEW p \in Peer, UpdateLedger(p) PROVE PendingJustified'
  <2>1. PICK dropped \in SUBSET Key :
          pending' = [pending EXCEPT ![p] = [k \in Key |->
                                    IF k \in dropped THEN NoTask ELSE @[k]]]
    BY <1>3, UpdateLedgerFacts, ZenonT(30)
  <2> QED
    BY <1>2, <2>1, Zenon DEF TypeOK
<1>4. ASSUME NEW p \in Peer, PushAnswers(p) PROVE PendingJustified'
  <2>1. PICK queued \in SUBSET Key : PushTasks(p, TasksFor(p), queued)
    BY <1>4, Zenon DEF PushAnswers
  <2>2. rx[p].pc = "ledgered" /\ asked' = asked
    BY <1>4, Zenon DEF PushAnswers
  <2>3. TasksFor(p) \in [Key -> Task \cup {NoTask}]
    BY <2>2, TasksForType, Zenon
  <2>4. ASSUME NEW k \in Key, TasksFor(p)[k] \in Task
        PROVE  Justified(p, k, TasksFor(p)[k].IsWantBlock, TasksFor(p)[k].HaveBlock)
    <3>1. /\ rx[p].msg.want[k] = "block" => <<p, k>> \in asked
          /\ k \in rx[p].wants => <<p, k>> \notin Denied
      BY <2>2, Zenon DEF AskedInv, MessagesJustified, Justified
    <3> QED
      BY <2>4, <3>1, NoTaskApart, Zenon DEF TasksFor, Justified, sendAsBlock
  <2> QED
    BY <2>1, <2>2, <2>3, <2>4, PushJustified, Zenon DEF TypeOK, AskedInv
<1>5. ASSUME NEW k \in Key, NotifyPeer(k) PROVE PendingJustified'
  <2>1. PICK entry \in notify[k].todo, queued \in SUBSET Key :
          PushTasks(entry[1],
                    [c \in Key |-> IF c # k THEN NoTask ELSE
                       [HaveBlock |-> TRUE, SendDontHave |-> FALSE,
                        IsWantBlock |-> sendAsBlock(entry[2])]], queued)
    BY <1>5, Zenon DEF NotifyPeer
  <2> DEFINE p == entry[1]
             new == [c \in Key |-> IF c # k THEN NoTask ELSE
                       [HaveBlock |-> TRUE, SendDontHave |-> FALSE,
                        IsWantBlock |-> sendAsBlock(entry[2])]]
  <2>2. p \in Peer /\ asked' = asked
    BY <1>5 DEF NotifyPeer, TypeOK
  <2>3. new \in [Key -> Task \cup {NoTask}]
    BY Zenon DEF Task, sendAsBlock
  <2>4. ASSUME NEW c \in Key, new[c] \in Task
        PROVE  Justified(p, c, new[c].IsWantBlock, new[c].HaveBlock)
    BY <2>4, NoTaskApart, Zenon
    DEF Justified, sendAsBlock, AskedInv, NotifyJustified
  <2>5. PushTasks(p, new, queued)
    BY <2>1, Zenon
  <2> HIDE DEF p, new
  <2> QED
    BY <2>2, <2>3, <2>4, <2>5, PushJustified, Zenon DEF TypeOK, AskedInv
<1>6. ASSUME NEW w \in Worker, PopTasks(w) PROVE PendingJustified'
  <2>1. PICK p \in Peer, ks \in SUBSET Key :
          pending' = [pending EXCEPT ![p] = [k \in Key |->
                          IF k \in ks THEN NoTask ELSE @[k]]]
    BY <1>6, ZenonT(30) DEF PopTasks
  <2> QED
    BY <1>2, <2>1, Zenon DEF TypeOK
<1>7. ASSUME NEW p \in Peer, ClearQueue(p) PROVE PendingJustified'
  BY <1>2, <1>7, Zenon DEF ClearQueue, TypeOK
<1> QED
  BY <1>1, <1>3, <1>4, <1>5, <1>6, <1>7, Zenon DEF Next, vars, ReceiveMessage,
     KillConnection, StoreBlock, DeleteBlock, ReadWaiting, NotifyDone, MakeEnvelope,
     MessageSent, SendBlocks, PeerConnected, ConnectionLost, ForgetPeer

\* What a worker serves, a peer asked for.
LEMMA ActiveStep == TypeOK /\ AskedInv /\ [Next]_vars => ActiveJustified'
<1> SUFFICES ASSUME TypeOK, AskedInv, [Next]_vars PROVE ActiveJustified'
  OBVIOUS
<1>0. asked \subseteq asked'
  BY AskedGrows, Zenon
<1>1. ASSUME active' \subseteq active PROVE ActiveJustified'
  BY <1>0, <1>1, Zenon DEF AskedInv, ActiveJustified, Justified
<1>2. ASSUME NEW w \in Worker, PopTasks(w) PROVE ActiveJustified'
  <2>1. PICK p \in Peer : \E ks \in SUBSET {k \in Key : pending[p][k] # NoTask} :
          active' = active \cup
              {[by |-> w, peer |-> p, key |-> k, task |-> pending[p][k]] : k \in ks}
    BY <1>2, Zenon DEF PopTasks
  <2>2. \A k \in Key : pending[p][k] # NoTask => pending[p][k] \in Task
    BY DEF TypeOK
  <2>3. ASSUME NEW a \in active'
        PROVE  /\ a.task.IsWantBlock => <<a.peer, a.key>> \in asked
               /\ a.task.HaveBlock => <<a.peer, a.key>> \notin Denied
    <3>1. CASE a \in active
      BY <3>1, Zenon DEF AskedInv, ActiveJustified, Justified
    <3>2. CASE a \notin active
      <4>1. PICK k \in Key : /\ pending[p][k] \in Task
                             /\ a = [by |-> w, peer |-> p, key |-> k,
                                     task |-> pending[p][k]]
        BY <2>1, <2>2, <3>2, Zenon
      <4>2. a.peer = p /\ a.key = k /\ a.task = pending[p][k]
        BY <4>1, Zenon
      <4> QED
        BY <4>1, <4>2, Zenon DEF AskedInv, PendingJustified, Justified
    <3> QED
      BY <3>1, <3>2, Zenon
  <2> QED
    BY <1>0, <2>3, ZenonT(30) DEF ActiveJustified, Justified
<1>3. ASSUME NEW w \in Worker, MakeEnvelope(w) \/ SendBlocks(w)
      PROVE  active' \subseteq active
  BY <1>3, Zenon DEF MakeEnvelope, SendBlocks, TasksDone
<1> QED
  BY <1>1, <1>2, <1>3, Zenon DEF Next, vars, ReceiveMessage, UpdateLedger, PushAnswers,
     KillConnection, StoreBlock, DeleteBlock, ReadWaiting, NotifyPeer, NotifyDone,
     MessageSent, PeerConnected, ConnectionLost, ClearQueue, ForgetPeer

\* A worker sends only what was asked for.
LEMMA OnlyAskedStep ==
    TypeOK /\ ActiveHeld /\ AskedInv /\ [Next]_vars => OnlyAskedFor'
<1> SUFFICES ASSUME TypeOK, ActiveHeld, AskedInv, [Next]_vars PROVE OnlyAskedFor'
  OBVIOUS
<1>0. asked \subseteq asked'
  BY AskedGrows, Zenon
<1>1. ASSUME UNCHANGED hand PROVE OnlyAskedFor'
  BY <1>0, <1>1, Zenon DEF AskedInv, OnlyAskedFor
<1>2. ASSUME NEW w \in Worker, PopTasks(w) PROVE OnlyAskedFor'
  <2>1. PICK p \in Peer : hand' = [hand EXCEPT ![w] = [pc |-> "popped", peer |-> p]]
    BY <1>2, Zenon DEF PopTasks
  <2> QED
    BY <1>0, <2>1, Zenon DEF AskedInv, OnlyAskedFor, TypeOK
<1>3. ASSUME NEW w \in Worker, TasksDone(w) PROVE OnlyAskedFor'
  BY <1>0, <1>3, Zenon DEF AskedInv, OnlyAskedFor, TypeOK, TasksDone, EmptyHanded
<1>4. ASSUME NEW w \in Worker, MakeEnvelope(w) PROVE OnlyAskedFor'
  <2>1. CASE TasksDone(w)
    BY <1>3, <2>1, Zenon
  <2>2. CASE ~TasksDone(w)
    <3>1. PICK blocks \in SUBSET Key, haves \in SUBSET Key, donts \in SUBSET Key :
            /\ hand' = [hand EXCEPT ![w] =
                             [pc |-> "ready", peer |-> @.peer, blocks |-> blocks,
                              haves |-> haves, donts |-> donts]]
            /\ \A k \in blocks : \E a \in Held(w) :
                  a.key = k /\ a.task.HaveBlock /\ a.task.IsWantBlock
            /\ \A k \in haves : \E a \in Held(w) : a.key = k /\ a.task.HaveBlock
      <4> DEFINE tasks  == Held(w)
                 blocks == {a.key : a \in {a \in tasks : /\ a.task.HaveBlock
                                                   /\ a.task.IsWantBlock
                                                   /\ a.key \in store}}
                 haves  == {a.key : a \in {a \in tasks : /\ a.task.HaveBlock
                                                   /\ ~a.task.IsWantBlock}}
                 donts  == {a.key : a \in {a \in tasks :
                        \/ ~a.task.HaveBlock
                        \/ /\ a.task.IsWantBlock
                           /\ a.key \notin store
                           /\ a.task.SendDontHave}}
      <4>1. hand' = [hand EXCEPT ![w] =
                             [pc |-> "ready", peer |-> @.peer, blocks |-> blocks,
                              haves |-> haves, donts |-> donts]]
        BY <1>4, <2>2, Zenon DEF MakeEnvelope
      <4>2. blocks \in SUBSET Key /\ haves \in SUBSET Key /\ donts \in SUBSET Key
        BY DEF Held, TypeOK
      <4>3. /\ \A k \in blocks : \E a \in Held(w) :
                  a.key = k /\ a.task.HaveBlock /\ a.task.IsWantBlock
            /\ \A k \in haves : \E a \in Held(w) : a.key = k /\ a.task.HaveBlock
        OBVIOUS
      <4> HIDE DEF tasks, blocks, haves, donts
      <4> QED
        BY <4>1, <4>2, <4>3, ZenonT(30)
    <3>2. \A a \in Held(w) :
            /\ a.task.IsWantBlock => <<hand[w].peer, a.key>> \in asked
            /\ a.task.HaveBlock => <<hand[w].peer, a.key>> \notin Denied
      BY Zenon DEF Held, ActiveHeld, AskedInv, ActiveJustified, Justified
    <3>3. /\ \A k \in blocks : <<hand[w].peer, k>> \in asked \ Denied
          /\ \A k \in haves : <<hand[w].peer, k>> \notin Denied
      BY <3>1, <3>2, Zenon
    <3>4. /\ \A v \in Worker : v # w => hand'[v] = hand[v]
          /\ hand'[w].peer = hand[w].peer /\ hand'[w].blocks = blocks
          /\ hand'[w].haves = haves
      BY <3>1, Zenon DEF TypeOK
    <3> QED
      BY <1>0, <3>3, <3>4, Zenon DEF AskedInv, OnlyAskedFor
  <2> QED
    BY <2>1, <2>2, Zenon
<1>5. ASSUME NEW w \in Worker, MessageSent(w) PROVE OnlyAskedFor'
  <2>1. /\ hand[w].pc = "ready"
        /\ \A v \in Worker : v # w => hand'[v] = hand[v]
        /\ hand'[w].peer = hand[w].peer /\ hand'[w].blocks = hand[w].blocks
        /\ hand'[w].haves = hand[w].haves
    BY <1>5 DEF MessageSent, TypeOK, EmptyHanded
  <2> QED
    BY <1>0, <2>1, Zenon DEF AskedInv, OnlyAskedFor
<1>6. ASSUME NEW w \in Worker, SendBlocks(w) PROVE OnlyAskedFor'
  BY <1>3, <1>6, Zenon DEF SendBlocks
<1> QED
  BY <1>1, <1>2, <1>4, <1>5, <1>6
  DEF Next, vars, ReceiveMessage, UpdateLedger, PushAnswers, KillConnection,
      StoreBlock, DeleteBlock, ReadWaiting, NotifyPeer, NotifyDone,
      PeerConnected, ConnectionLost, ClearQueue, ForgetPeer

\* Every step keeps all of it justified.
LEMMA AskedStep ==
    TypeOK /\ ActiveHeld /\ AskedInv /\ [Next]_vars => AskedInv'
BY MessagesStep, LedgerStep, PendingStep, ActiveStep, OnlyAskedStep DEF AskedInv

\* Of this server a peer gets only the blocks it sent a want-block for, and
\* learns nothing of a key the request filter denies it, however its wants,
\* upgrades, cancels and the arrival of blocks interleave (sendAsBlock, Merge,
\* NotifyNewBlocks).
THEOREM OnlyAskedForAlways == Spec => []OnlyAskedFor
<1>1. Init => TypeOK /\ ActiveHeld /\ AskedInv
  BY TypeInit, AskedInit, Zenon DEF Init, ActiveHeld
<1>2. TypeOK /\ ActiveHeld /\ AskedInv /\ [Next]_vars
        => (TypeOK /\ ActiveHeld /\ AskedInv)'
  BY TypeStep, HeldStep, AskedStep, Zenon
<1>3. AskedInv => OnlyAskedFor
  BY Zenon DEF AskedInv
<1> QED
  BY <1>1, <1>2, <1>3, PTL DEF Spec

-----------------------------------------------------------------------------
(* Want-blocks are kept.                                                   *)

\* A want for a block leaves the ledger in a step that may drop it only.
LEMMA KeptStep ==
    TypeOK /\ LedgerInverse /\ MessagesJustified /\ [Next]_vars =>
      \A p \in Peer, k \in Key :
         ledger.cids[k][p] = "block" /\ ledger'.cids[k][p] # "block" => MayDrop(p, k)
<1> SUFFICES ASSUME TypeOK, LedgerInverse, MessagesJustified, [Next]_vars,
                    NEW q \in Peer, NEW c \in Key,
                    ledger.cids[c][q] = "block", ledger'.cids[c][q] # "block"
             PROVE  MayDrop(q, c)
  OBVIOUS
<1>1. ASSUME NEW p \in Peer, UpdateLedger(p) PROVE MayDrop(q, c)
  <2> DEFINE m == rx[p].msg
             l == IF m.full THEN ClearPeerWantlist(ledger, p) ELSE ledger
  <2>1. /\ m.want \in [Key -> WantType \cup {NoWant}]
        /\ rx[p].pc = "sized"
    BY <1>1, RxFacts, Zenon DEF UpdateLedger
  <2>2. l \in Ledger /\ (l.cids[c][q] = "block" \/ (q = p /\ m.full))
    <3>1. ledger \in Ledger
      BY Zenon DEF TypeOK
    <3>2. /\ ClearPeerWantlist(ledger, p) \in Ledger
          /\ q # p => ClearPeerWantlist(ledger, p).cids[c][q] = ledger.cids[c][q]
      BY <3>1, ClearPoint, Zenon
    <3> QED
      BY <3>1, <3>2, Zenon
  <2>3. PICK recorded \in SUBSET Key, cancelled \in SUBSET Key :
          /\ recorded \subseteq rx[p].wants /\ cancelled \subseteq m.cancel
          /\ ledger' = CancelWant(Wants(l, p, m.want, recorded), p, cancelled)
    BY <1>1, UpdateLedgerFacts, ZenonT(30)
  <2>4. \A k \in recorded : m.want[k] # NoWant
    BY <2>1, <2>3, Zenon DEF MessagesJustified
  <2>0. m = rx[p].msg
    BY Zenon
  <2> HIDE DEF m, l
  <2> DEFINE l1 == Wants(l, p, m.want, recorded)
  <2>5. /\ l1 \in Ledger
        /\ l1.cids[c][q] = IF q = p /\ c \in recorded THEN m.want[c] ELSE l.cids[c][q]
    <3>1. l \in Ledger /\ m.want \in [Key -> WantType \cup {NoWant}]
      BY <2>1, <2>2, Zenon
    <3>2. /\ l1 \in Ledger
          /\ \A r \in Peer, k \in Key : l1.cids[k][r] =
                IF r = p /\ k \in recorded THEN m.want[k] ELSE l.cids[k][r]
      BY <3>1, WantsPoint, SMTT(30)
    <3> QED
      BY <3>2, Zenon
  <2> HIDE DEF l1
  <2>6. \/ ledger'.cids[c][q] = l1.cids[c][q]
        \/ q = p /\ c \in cancelled
    BY <2>3, <2>5, CancelPoint, SMTT(30) DEF l1
  <2>7. q = p /\ (m.full \/ c \in m.cancel \/ m.want[c] = "have")
    BY <2>1, <2>2, <2>3, <2>4, <2>5, <2>6, Zenon DEF WantType
  <2> QED
    BY <2>0, <2>1, <2>7, Zenon DEF MayDrop
<1>2. ASSUME NEW w \in Worker, MessageSent(w) PROVE MayDrop(q, c)
  <2> DEFINE p == hand[w].peer
             l1 == CancelWantWithType(ledger, p, hand[w].blocks, "block")
  <2>1. /\ p \in Peer /\ hand[w].blocks \in SUBSET Key /\ hand[w].haves \in SUBSET Key
        /\ hand[w].pc = "ready"
    BY <1>2 DEF TypeOK, MessageSent, EmptyHanded
  <2>2. ledger' = CancelWantWithType(l1, p, hand[w].haves, "have")
    BY <1>2, Zenon DEF MessageSent
  <2>3. ledger.peers[q][c] = "block"
    BY Zenon DEF LedgerInverse, NoWant
  <2>4. /\ l1 \in Ledger
        /\ \/ l1.peers[q][c] = "block" /\ l1.cids[c][q] = "block"
           \/ q = p /\ c \in hand[w].blocks
    <3>1. ledger \in Ledger
      BY Zenon DEF TypeOK
    <3> DEFINE bs == hand[w].blocks
    <3>2. bs \in SUBSET Key /\ p \in Peer
      BY <2>1, Zenon
    <3>3. l1 = CancelWantWithType(ledger, p, bs, "block")
      BY Zenon
    <3> HIDE DEF p, bs, l1
    <3>4. /\ l1 \in Ledger
          /\ \/ /\ l1.peers[q][c] = ledger.peers[q][c]
                /\ l1.cids[c][q] = ledger.cids[c][q]
             \/ q = p /\ c \in bs
      BY <3>1, <3>2, <3>3, ForgetPoint, SMTT(30) DEF CancelWantWithType
    <3> QED
      BY <2>3, <3>4, Zenon DEF bs
  <2>0. p = hand[w].peer
    BY Zenon
  <2> HIDE DEF p, l1
  <2>5. \/ ledger'.cids[c][q] = l1.cids[c][q]
        \/ q = p /\ l1.peers[p][c] # "block"
    BY <2>1, <2>2, <2>4, CancelTypePoint, SMTT(30)
  <2>6. q = p /\ c \in hand[w].blocks
    BY <2>4, <2>5, Zenon
  <2> QED
    BY <2>0, <2>1, <2>6, Zenon DEF MayDrop
<1>3. ASSUME NEW p \in Peer, ForgetPeer(p) PROVE MayDrop(q, c)
  <2>1. q = p
    BY <1>3, DisconnectedPoint DEF ForgetPeer, TypeOK
  <2> QED
    BY <1>3, <2>1, Zenon DEF ForgetPeer, MayDrop
<1>4. ~UNCHANGED ledger
  OBVIOUS
<1> QED
  BY <1>1, <1>2, <1>3, <1>4, ZenonT(30)
  DEF Next, vars, ReceiveMessage, PushAnswers, KillConnection, StoreBlock,
      DeleteBlock, ReadWaiting, NotifyPeer, NotifyDone, PopTasks, MakeEnvelope,
      SendBlocks, PeerConnected, ConnectionLost, ClearQueue

\* A want-block leaves the ledger only when its block is about to be sent, or
\* when the peer cancels it, replaces its wantlist, downgrades it or goes: the
\* HAVE that crosses an upgrade does not take it away (CancelWantWithType).
THEOREM WantBlockKeptAlways == Spec => WantBlockKept
<1> DEFINE I == TypeOK /\ LedgerInverse /\ MessagesJustified
<1>1. Init => I
  BY TypeInit, InverseInit, AskedInit, Zenon DEF AskedInv
<1>2. I /\ [Next]_vars => I'
  BY TypeStep, InverseStep, MessagesStep, Zenon
<1>3. I /\ [Next]_vars =>
        [\A p \in Peer, k \in Key :
           ledger.cids[k][p] = "block" /\ ledger'.cids[k][p] # "block" =>
              MayDrop(p, k)]_vars
  BY KeptStep, Zenon
<1> QED
  BY <1>1, <1>2, <1>3, PTL DEF Spec, WantBlockKept

-----------------------------------------------------------------------------
(* Peers that wait are answered.  The queue of a peer is empty from        *)
(* ClearQueue to ForgetPeer; at all other times, connected or not, a want  *)
(* for a block of the store that was not missed is being answered.         *)

\* WaitingAreAnswered, of every peer but one that is being forgotten.
AnsweredOK ==
    \A p \in Peer, k \in Key :
        /\ conn[p] # "cleared" /\ k \in store /\ ledger.cids[k][p] # NoWant
        /\ <<p, k>> \notin missed
        => Answering(p, k)

\* The wants a handler is about to push are in the ledger as they were asked, or
\* were answered in the meantime.
TypesMatch ==
    \A p \in Peer : rx[p].pc = "ledgered" =>
        \A k \in rx[p].wants : ledger.cids[k][p] \in {NoWant, rx[p].msg.want[k]}

\* A worker has one task of a key, and a HAVE answers no want-block.
HeldOnce == \A a \in active, b \in active : a.by = b.by /\ a.key = b.key => a = b
HavesPlain ==
    \A a \in active :
        hand[a.by].pc = "ready" /\ a.key \in hand[a.by].haves => ~a.task.IsWantBlock

\* The inductive invariant.
AnsweredInv ==
    /\ TypeOK /\ LedgerInverse /\ ActiveHeld
    /\ TypesMatch /\ HeldOnce /\ HavesPlain /\ AnsweredOK

\* The four ways in which a want is being answered.
Queued(p, k, type) == pending[p][k] # NoTask /\ Enough(pending[p][k], type)
\* NotifyNewBlocks is to come for the key, or for this want of it.
Announced(p, k, type) == notify[k].pc = "stored" \/ <<p, type>> \in notify[k].todo
\* The peer's handler is about to push what it found.
Handled(p, k) == rx[p].pc = "ledgered" /\ k \in rx[p].wants \cap rx[p].found
Ways(p, k, type) ==
    Queued(p, k, type) \/ InHand(p, k, type) \/ Announced(p, k, type) \/ Handled(p, k)

\* A want has a type.
LEMMA NoWantApart == NoWant \notin WantType
BY DEF NoWant, WantType

\* They are what Answering says.
LEMMA AnsweringWays ==
    ASSUME NEW p, NEW k, NEW type
    PROVE  /\ ledger.cids[k][p] = type => (Answering(p, k) <=> Ways(p, k, type))
           /\ ledger'.cids[k][p] = type => (Answering(p, k)' <=> Ways(p, k, type)')
BY Zenon DEF Answering, Ways, Queued, Announced, Handled

\* Tasks only get better: a task that says enough still does after a merge, and
\* the merge with a task that says enough does.
LEMMA MergeEnough ==
    ASSUME NEW t \in Task, NEW e \in Task, NEW type
    PROVE  /\ Enough(e, type) => Enough(Merge(t, e), type)
           /\ Enough(t, type) => Enough(Merge(t, e), type)
BY DEF Enough, Merge, Task

\* A worker's step at its own tasks leaves those of the others in hand.
LEMMA InHandStays ==
    ASSUME NEW p, NEW k, NEW type, NEW a \in active, a \in active',
           a.peer = p, a.key = k, Enough(a.task, type),
           \/ hand[a.by].pc = "popped"
           \/ /\ hand[a.by].pc = "ready"
              /\ k \in hand[a.by].blocks \cup hand[a.by].haves,
           hand'[a.by] = hand[a.by]
    PROVE  InHand(p, k, type)'
BY Zenon DEF InHand

\* What a push does for a key: a task that has the block and is enough for the
\* want leaves it answered, or the want is missed.
LEMMA PushAnswersKey ==
    ASSUME TypeOK, NEW p \in Peer, NEW new \in [Key -> Task \cup {NoTask}], NEW queued,
           PushTasks(p, new, queued), NEW k \in Key, NEW type
    PROVE  /\ Queued(p, k, type) => Queued(p, k, type)'
           /\ /\ new[k] # NoTask /\ Enough(new[k], type) /\ ledger.cids[k][p] = type
              /\ k \notin Missed(p, new, queued)
              => Queued(p, k, type)' \/ InHand(p, k, type)
<1> DEFINE pushed == {x \in Key : new[x] # NoTask /\ ~SaysNothingNew(p, x, new[x])}
           fresh == {x \in pushed : pending[p][x] = NoTask}
           row == [x \in Key |-> IF x \in queued THEN new[x]
                     ELSE IF x \in pushed \ fresh THEN Merge(new[x], pending[p][x])
                     ELSE pending[p][x]]
<1>1. /\ queued \subseteq fresh
      /\ pending' = [pending EXCEPT ![p] = row]
  BY Zenon DEF PushTasks
<1>0. pending \in [Peer -> [Key -> Task \cup {NoTask}]]
  BY Zenon DEF TypeOK
<1>2. pending[p][k] \in Task \cup {NoTask} /\ new[k] \in Task \cup {NoTask}
  BY <1>0
<1>3. pending'[p][k] = IF k \in queued THEN new[k]
                       ELSE IF k \in pushed \ fresh THEN Merge(new[k], pending[p][k])
                       ELSE pending[p][k]
  BY <1>0, <1>1, Zenon
<1>4. ASSUME Queued(p, k, type) PROVE Queued(p, k, type)'
  <2>1. k \notin queued /\ pending[p][k] \in Task
    BY <1>1, <1>2, <1>4, Zenon DEF Queued
  <2>2. CASE k \in pushed
    <3>1. new[k] \in Task /\ pending'[p][k] = Merge(new[k], pending[p][k])
      BY <1>2, <1>3, <2>1, <2>2, NoTaskApart, Zenon
    <3>2. /\ Merge(new[k], pending[p][k]) \in Task
          /\ Enough(pending[p][k], type) => Enough(Merge(new[k], pending[p][k]), type)
      BY <2>1, <3>1, MergeEnough, MergeFacts
    <3> QED
      BY <1>4, <3>1, <3>2, NoTaskApart, Zenon DEF Queued
  <2>3. CASE k \notin pushed
    BY <1>3, <1>4, <2>1, <2>3, Zenon DEF Queued
  <2> QED
    BY <2>2, <2>3, Zenon
<1>5. ASSUME new[k] # NoTask, Enough(new[k], type), ledger.cids[k][p] = type,
             k \notin Missed(p, new, queued)
      PROVE  Queued(p, k, type)' \/ InHand(p, k, type)
  <2>1. new[k] \in Task /\ new[k].HaveBlock
    BY <1>2, <1>5, Zenon DEF Enough
  <2>2. CASE SaysNothingNew(p, k, new[k])
    BY <1>5, <2>1, <2>2, Zenon DEF Missed
  <2>3. CASE ~SaysNothingNew(p, k, new[k])
    <3>1. k \in pushed /\ (pending[p][k] # NoTask \/ k \in queued)
      BY <1>5, <2>1, <2>3, Zenon DEF Missed
    <3>2. CASE k \in queued
      BY <1>3, <1>5, <3>2, Zenon DEF Queued
    <3>3. CASE k \notin queued
      <4>1. pending[p][k] \in Task /\ pending'[p][k] = Merge(new[k], pending[p][k])
        BY <1>2, <1>3, <3>1, <3>3, Zenon
      <4>2. /\ Merge(new[k], pending[p][k]) \in Task
            /\ Enough(new[k], type) => Enough(Merge(new[k], pending[p][k]), type)
        BY <2>1, <4>1, MergeEnough, MergeFacts
      <4> QED
        BY <1>5, <4>1, <4>2, NoTaskApart, Zenon DEF Queued
    <3> QED
      BY <3>2, <3>3, Zenon
  <2> QED
    BY <2>2, <2>3, Zenon
<1> QED
  BY <1>4, <1>5, Zenon


\* UpdateLedger leaves the wants it recorded as they were asked.
LEMMA TypesMatchStep ==
    TypeOK /\ TypesMatch /\ [Next]_vars => TypesMatch'
<1> SUFFICES ASSUME TypeOK, TypesMatch, [Next]_vars, NEW q \in Peer, rx'[q].pc = "ledgered",
                    NEW c \in rx'[q].wants
             PROVE  ledger'.cids[c][q] \in {NoWant, rx'[q].msg.want[c]}
  BY Zenon DEF TypesMatch
<1>1. ASSUME rx'[q] = rx[q], ~UpdateLedger(q)
      PROVE  ledger'.cids[c][q] \in {NoWant, rx'[q].msg.want[c]}
  <2>1. c \in Key
    BY <1>1, RxFacts, Zenon
  <2>2. ledger'.cids[c][q] \in {ledger.cids[c][q], NoWant}
    BY <1>1, <2>1, LedgerShrinks, Zenon
  <2> QED
    BY <1>1, <2>2, Zenon DEF TypesMatch
<1>2. ASSUME UpdateLedger(q)
      PROVE  ledger'.cids[c][q] \in {NoWant, rx'[q].msg.want[c]}
  <2> DEFINE m == rx[q].msg
             l == IF m.full THEN ClearPeerWantlist(ledger, q) ELSE ledger
  <2>1. PICK kept \in SUBSET rx[q].wants, recorded \in SUBSET rx[q].wants,
             cancelled \in SUBSET m.cancel, dropped \in SUBSET m.cancel :
             Process(q, kept, recorded, cancelled, dropped)
    BY <1>2, Zenon DEF UpdateLedger
  <2>2. /\ m.want \in [Key -> WantType \cup {NoWant}] /\ rx[q].wants \in SUBSET Key
        /\ m.cancel \in SUBSET Key
        /\ rx[q] \in [pc : {"sized", "ledgered"}, msg : Message,
                      wants : SUBSET Key, found : SUBSET Key]
    BY <1>2, RxFacts, Zenon DEF UpdateLedger
  <2>3. /\ rx' = [rx EXCEPT ![q] =
                   IF (kept \cup m.cancel) \cap Identity # {} THEN [pc |-> "kill"]
                   ELSE [@ EXCEPT !.pc = "ledgered", !.wants = kept]]
        /\ kept \cap Identity = {} => recorded = kept
        /\ ledger' = CancelWant(Wants(l, q, m.want, recorded), q, cancelled)
    BY <2>1, Zenon DEF Process
  <2>4. (kept \cup m.cancel) \cap Identity = {}
    BY <2>3 DEF TypeOK
  <2>5. rx'[q] = [rx[q] EXCEPT !.pc = "ledgered", !.wants = kept]
    BY <2>3, <2>4, Zenon DEF TypeOK
  <2>6. rx'[q].wants = kept /\ rx'[q].msg = m
    BY <2>2, <2>5
  <2>7. c \in recorded
    BY <2>3, <2>4, <2>6, Zenon
  <2>8. l \in Ledger
    BY ClearPoint, Zenon DEF TypeOK
  <2> DEFINE want == m.want
  <2>9. want \in [Key -> WantType \cup {NoWant}]
    BY <2>2, Zenon
  <2>10. ledger' = CancelWant(Wants(l, q, want, recorded), q, cancelled)
    BY <2>3, Zenon
  <2>11. rx'[q].msg.want[c] = want[c]
    BY <2>6, Zenon
  <2> HIDE DEF m, l, want
  <2> DEFINE l1 == Wants(l, q, want, recorded)
  <2>12. l1 \in Ledger /\ l1.cids[c][q] = want[c]
    BY <2>2, <2>7, <2>8, <2>9, WantsPoint, SMTT(30)
  <2> HIDE DEF l1
  <2>13. ledger'.cids[c][q] \in {l1.cids[c][q], NoWant}
    BY <2>2, <2>7, <2>10, <2>12, CancelPoint, SMTT(30) DEF l1
  <2> QED
    BY <2>11, <2>12, <2>13, Zenon
<1>3. ASSUME NEW p \in Peer, p # q, UpdateLedger(p)
      PROVE  rx'[q] = rx[q]
  <2>1. PICK y : rx' = [rx EXCEPT ![p] = y]
    BY <1>3, ZenonT(60) DEF UpdateLedger, Process
  <2> QED
    BY <1>3, <2>1, Zenon DEF TypeOK
<1>4. ASSUME NEW p \in Peer, NEW m \in Message, ReceiveMessage(p, m)
      PROVE  rx'[q] = rx[q]
  <2>1. rx' = rx \/ \E ks, found :
           rx' = [rx EXCEPT ![p] = [pc |-> "sized", msg |-> m, wants |-> ks,
                                    found |-> found]]
    BY <1>4, Zenon DEF ReceiveMessage
  <2>2. ASSUME NEW x, rx' = [rx EXCEPT ![p] = x], x.pc = "sized" PROVE rx'[q] = rx[q]
    <3>1. p # q
      BY <2>2 DEF TypeOK
    <3> QED
      BY <2>2, <3>1, Zenon DEF TypeOK
  <2>3. \A ks, found :
           [pc |-> "sized", msg |-> m, wants |-> ks, found |-> found].pc = "sized"
    OBVIOUS
  <2> QED
    BY <2>1, <2>2, <2>3, Zenon
<1>5. ASSUME NEW p \in Peer, PushAnswers(p) \/ KillConnection(p)
      PROVE  rx'[q] = rx[q]
  <2>1. rx' = [rx EXCEPT ![p] = Idle]
    BY <1>5, Zenon DEF PushAnswers, KillConnection
  <2> QED
    BY <2>1, Zenon DEF TypeOK, Idle
<1>6. CASE UNCHANGED rx
  BY <1>1, <1>2, <1>6, Zenon
<1> QED
  BY <1>1, <1>2, <1>3, <1>4, <1>5, <1>6, ZenonT(60)
  DEF Next, vars, StoreBlock, DeleteBlock, ReadWaiting, NotifyPeer, NotifyDone, PopTasks,
      MakeEnvelope, MessageSent, SendBlocks, PeerConnected, ConnectionLost, ClearQueue,
      ForgetPeer


\* A worker takes its tasks at once, and sorts them once.
LEMMA TasksStep ==
    TypeOK /\ ActiveHeld /\ HeldOnce /\ HavesPlain /\ [Next]_vars => HeldOnce' /\ HavesPlain'
<1> SUFFICES ASSUME TypeOK, ActiveHeld, HeldOnce, HavesPlain, [Next]_vars
             PROVE  HeldOnce' /\ HavesPlain'
  OBVIOUS
<1>1. ASSUME UNCHANGED <<active, hand>> PROVE HeldOnce' /\ HavesPlain'
  BY <1>1, Zenon DEF HeldOnce, HavesPlain
<1>2. ASSUME NEW w \in Worker, PopTasks(w) PROVE HeldOnce' /\ HavesPlain'
  <2>1. PICK p \in Peer, ks \in SUBSET Key :
         /\ active' = active \cup
              {[by |-> w, peer |-> p, key |-> k, task |-> pending[p][k]] : k \in ks}
         /\ hand' = [hand EXCEPT ![w] = [pc |-> "popped", peer |-> p]]
    BY <1>2, ZenonT(60) DEF PopTasks
  <2>2. \A a \in active : a.by # w
    BY <1>2 DEF ActiveHeld, PopTasks, EmptyHanded
  <2>3. \A a \in active' : \/ a \in active /\ a.by # w
                           \/ \E k \in ks : a = [by |-> w, peer |-> p, key |-> k,
                                                 task |-> pending[p][k]]
    BY <2>1, <2>2, Zenon
  <2>4. HeldOnce'
    BY <2>3 DEF HeldOnce
  <2>5. HavesPlain'
    BY <2>1, <2>3 DEF HavesPlain, TypeOK
  <2> QED
    BY <2>4, <2>5, Zenon
<1>3. ASSUME NEW w \in Worker, TasksDone(w) PROVE HeldOnce' /\ HavesPlain'
  BY <1>3, ZenonT(60) DEF HeldOnce, HavesPlain, TasksDone, Held, TypeOK
<1>4. ASSUME NEW w \in Worker, MakeEnvelope(w) PROVE HeldOnce' /\ HavesPlain'
  <2>1. CASE TasksDone(w)
    BY <1>3, <2>1, Zenon
  <2>2. CASE ~TasksDone(w)
    <3>1. /\ active' = active
          /\ \E b, d : hand' = [hand EXCEPT ![w] =
               [pc |-> "ready", peer |-> @.peer, blocks |-> b,
                haves |-> {a.key : a \in {a \in Held(w) : a.task.HaveBlock
                                                          /\ ~a.task.IsWantBlock}},
                donts |-> d]]
      BY <1>4, <2>2, Zenon DEF MakeEnvelope
    <3>2. PICK b, d : hand' = [hand EXCEPT ![w] =
               [pc |-> "ready", peer |-> @.peer, blocks |-> b,
                haves |-> {a.key : a \in {a \in Held(w) : a.task.HaveBlock
                                                          /\ ~a.task.IsWantBlock}},
                donts |-> d]]
      BY <3>1, Zenon
    <3>3. hand \in [Worker -> {hand[x] : x \in Worker}] /\ \A a \in active : a.by \in Worker
      BY ZenonT(60) DEF TypeOK
    <3>4. /\ hand'[w].haves = {a.key : a \in {a \in Held(w) : a.task.HaveBlock
                                                               /\ ~a.task.IsWantBlock}}
          /\ \A x \in Worker : x # w => hand'[x] = hand[x]
      BY <3>2, Zenon DEF TypeOK
    <3>5. HeldOnce'
      BY <3>1, Zenon DEF HeldOnce
    <3>6. ASSUME NEW a \in active, a.by = w, a.key \in hand'[w].haves
          PROVE  ~a.task.IsWantBlock
      BY <3>4, <3>6, Zenon DEF HeldOnce, Held
    <3> QED
      BY <3>1, <3>3, <3>4, <3>5, <3>6, Zenon DEF HavesPlain
  <2> QED
    BY <2>1, <2>2, Zenon
<1>5. ASSUME NEW w \in Worker, MessageSent(w) PROVE HeldOnce' /\ HavesPlain'
  <2>1. /\ active' = active
        /\ \A x \in Worker : x # w => hand'[x] = hand[x]
        /\ hand'[w].pc = "sent"
    BY <1>5, SMTT(30) DEF MessageSent, TypeOK
  <2>2. \A a \in active : a.by \in Worker
    BY Zenon DEF TypeOK
  <2> QED
    BY <2>1, <2>2, Zenon DEF HeldOnce, HavesPlain
<1> QED
  BY <1>1, <1>2, <1>3, <1>4, <1>5, Zenon DEF Next, vars, ReceiveMessage, UpdateLedger,
     PushAnswers, KillConnection, StoreBlock, DeleteBlock, ReadWaiting, NotifyPeer,
     NotifyDone, SendBlocks, PeerConnected, ConnectionLost, ClearQueue, ForgetPeer


\* A want stays answered while a worker takes tasks, fills its envelope, tells
\* the ledger and gives the tasks back.
LEMMA WorkersAnswer ==
    ASSUME AnsweredInv, NEW w \in Worker,
           PopTasks(w) \/ MakeEnvelope(w) \/ MessageSent(w) \/ SendBlocks(w),
           NEW p \in Peer, NEW k \in Key, NEW type \in WantType,
           ledger.cids[k][p] = type, ledger'.cids[k][p] = type,
           k \in store, Ways(p, k, type)
    PROVE  Ways(p, k, type)'
<1>1. /\ TypeOK /\ LedgerInverse /\ ActiveHeld /\ HeldOnce /\ HavesPlain
      /\ UNCHANGED <<rx, notify>>
  BY Zenon DEF AnsweredInv, PopTasks, MakeEnvelope, MessageSent, SendBlocks
<1>2. Announced(p, k, type) \/ Handled(p, k) => Ways(p, k, type)'
  BY <1>1, Zenon DEF Ways, Announced, Handled
<1>3. ASSUME Queued(p, k, type) PROVE Ways(p, k, type)'
  <2>1. CASE UNCHANGED pending
    BY <1>3, <2>1, Zenon DEF Ways, Queued
  <2>2. CASE PopTasks(w)
    <3>1. PICK o \in Peer : \E ks \in SUBSET Key :
         /\ active' = active \cup
              {[by |-> w, peer |-> o, key |-> x, task |-> pending[o][x]] : x \in ks}
         /\ pending' = [pending EXCEPT ![o] = [x \in Key |->
                          IF x \in ks THEN NoTask ELSE @[x]]]
         /\ hand' = [hand EXCEPT ![w] = [pc |-> "popped", peer |-> o]]
      BY <2>2, ZenonT(60) DEF PopTasks
    <3>2. PICK ks \in SUBSET Key :
         /\ active' = active \cup
              {[by |-> w, peer |-> o, key |-> x, task |-> pending[o][x]] : x \in ks}
         /\ pending' = [pending EXCEPT ![o] = [x \in Key |->
                          IF x \in ks THEN NoTask ELSE @[x]]]
         /\ hand' = [hand EXCEPT ![w] = [pc |-> "popped", peer |-> o]]
      BY <3>1, Zenon
    <3>3. pending'[p][k] = IF p = o /\ k \in ks THEN NoTask ELSE pending[p][k]
      BY <1>1, <3>2, Zenon DEF TypeOK
    <3>4. CASE p = o /\ k \in ks
      <4> DEFINE a == [by |-> w, peer |-> p, key |-> k, task |-> pending[p][k]]
      <4>1. a \in active'
        BY <3>2, <3>4, Zenon
      <4>2. a.by = w /\ a.peer = p /\ a.key = k /\ a.task = pending[p][k]
        BY Zenon
      <4>3. hand'[w].pc = "popped"
        BY <1>1, <3>2, Zenon DEF TypeOK
      <4> HIDE DEF a
      <4>4. InHand(p, k, type)'
        BY <1>3, <4>1, <4>2, <4>3, Zenon DEF InHand, Queued
      <4> QED
        BY <4>4, Zenon DEF Ways
    <3>5. CASE ~(p = o /\ k \in ks)
      BY <1>3, <3>3, <3>5, Zenon DEF Ways, Queued
    <3> QED
      BY <3>4, <3>5, Zenon
  <2> QED
    BY <2>1, <2>2, Zenon DEF MakeEnvelope, MessageSent, SendBlocks
<1>4. ASSUME InHand(p, k, type) PROVE Ways(p, k, type)'
  <2>1. PICK a \in active :
          /\ a.peer = p /\ a.key = k /\ Enough(a.task, type)
          /\ \/ hand[a.by].pc = "popped"
             \/ hand[a.by].pc = "ready" /\ k \in hand[a.by].blocks \cup hand[a.by].haves
    BY <1>4, Zenon DEF InHand
  <2>2. a.by \in Worker /\ a.task \in Task
    BY <1>1, Zenon DEF TypeOK
  <2>3. ASSUME a \in active', hand'[a.by] = hand[a.by] PROVE Ways(p, k, type)'
    BY <2>1, <2>3, InHandStays, Zenon DEF Ways
  <2>4. CASE a.by # w
    <3>1. a \in active'
      BY <2>4, Zenon DEF PopTasks, MakeEnvelope, MessageSent, SendBlocks, TasksDone, Held
    <3>2. hand'[a.by] = hand[a.by]
      BY <1>1, <2>2, <2>4, ZenonT(60) DEF PopTasks, MakeEnvelope, MessageSent, SendBlocks,
         TasksDone, TypeOK
    <3> QED
      BY <2>3, <3>1, <3>2, Zenon
  <2>5. CASE a.by = w /\ MakeEnvelope(w)
    <3>1. hand[w].pc = "popped"
      BY <2>5, Zenon DEF MakeEnvelope
    <3> DEFINE blocks == {b.key : b \in {b \in Held(w) : /\ b.task.HaveBlock
                                                        /\ b.task.IsWantBlock
                                                        /\ b.key \in store}}
               haves == {b.key : b \in {b \in Held(w) : /\ b.task.HaveBlock
                                                       /\ ~b.task.IsWantBlock}}
    <3>2. k \in blocks \cup haves
      BY <2>1, <2>5, Zenon DEF Held, Enough
    <3>3. /\ active' = active
          /\ \E d : hand' = [hand EXCEPT ![w] =
                      [pc |-> "ready", peer |-> @.peer, blocks |-> blocks,
                       haves |-> haves, donts |-> d]]
      BY <2>5, <3>2, ZenonT(60) DEF MakeEnvelope
    <3> HIDE DEF blocks, haves
    <3>4. hand'[w].pc = "ready" /\ hand'[w].blocks = blocks /\ hand'[w].haves = haves
      BY <1>1, <3>3 DEF TypeOK
    <3>5. InHand(p, k, type)'
      BY <2>1, <2>5, <3>2, <3>3, <3>4, Zenon DEF InHand
    <3> QED
      BY <3>5, Zenon DEF Ways
  <2>6. CASE a.by = w /\ MessageSent(w)
    <3>1. hand[w].pc = "ready" /\ hand[w].peer = p
      BY <1>1, <2>1, <2>6, Zenon DEF MessageSent, ActiveHeld
    <3> DEFINE bs == hand[w].blocks
               hs == hand[w].haves
               l1 == CancelWantWithType(ledger, p, bs, "block")
    <3>2. bs \in SUBSET Key /\ hs \in SUBSET Key /\ ledger \in Ledger
      BY <1>1, <3>1, SMTT(30) DEF TypeOK, EmptyHanded
    <3>3. ledger' = CancelWantWithType(l1, p, hs, "have")
      BY <2>6, <3>1, Zenon DEF MessageSent
    <3>4. k \in bs \/ (k \in hs /\ type # "block")
      BY <1>1, <2>1, <2>6, <3>1, Zenon DEF HavesPlain, Enough
    <3>5. type # NoWant /\ ledger.peers[p][k] = type
      BY <1>1, NoWantApart, Zenon DEF LedgerInverse
    <3> HIDE DEF bs, hs, l1
    <3>6. /\ l1 \in Ledger
          /\ \/ l1.cids[k][p] = NoWant
             \/ k \notin bs /\ l1.peers[p][k] = type
      <4> DEFINE gone == {x \in bs : /\ ledger.peers[p][x] # NoWant
                                    /\ ~("block" = "have" /\ ledger.peers[p][x] = "block")}
      <4>1. l1 = Forget(ledger, p, gone) /\ gone \in SUBSET Key
        BY <3>2, Zenon DEF l1, CancelWantWithType
      <4>2. k \in bs => k \in gone
        BY <3>5, SMTT(30)
      <4>3. gone \subseteq bs
        BY Zenon
      <4> HIDE DEF gone
      <4>4. /\ Forget(ledger, p, gone) \in Ledger
            /\ \A r \in Peer, x \in Key :
                 /\ Forget(ledger, p, gone).peers[r][x] =
                      IF r = p /\ x \in gone THEN NoWant ELSE ledger.peers[r][x]
                 /\ Forget(ledger, p, gone).cids[x][r] =
                      IF r = p /\ x \in gone THEN NoWant ELSE ledger.cids[x][r]
        BY <3>2, <4>1, ForgetPoint, SMTT(30)
      <4>5. l1 \in Ledger
        BY <4>1, <4>4, Zenon
      <4>6. CASE k \in bs
        <5>1. Forget(ledger, p, gone).cids[k][p] = NoWant
          BY <4>2, <4>4, <4>6, SMT
        <5> QED
          BY <4>1, <4>5, <5>1, Zenon
      <4>7. CASE k \notin bs
        <5>1. Forget(ledger, p, gone).peers[p][k] = ledger.peers[p][k]
          BY <4>3, <4>4, <4>7, SMT
        <5> QED
          BY <3>5, <4>1, <4>5, <4>7, <5>1, Zenon
      <4> QED
        BY <4>6, <4>7, Zenon
    <3>7. CASE l1.cids[k][p] = NoWant
      BY <3>2, <3>3, <3>5, <3>6, <3>7, CancelTypePoint, SMTT(30)
    <3>8. CASE k \notin bs /\ l1.peers[p][k] = type
      <4> DEFINE gone == {x \in hs : /\ l1.peers[p][x] # NoWant
                                    /\ ~("have" = "have" /\ l1.peers[p][x] = "block")}
      <4>1. ledger' = Forget(l1, p, gone) /\ gone \in SUBSET Key
        BY <3>2, <3>3, Zenon DEF CancelWantWithType
      <4>2. k \in gone
        BY <3>4, <3>5, <3>8, Zenon
      <4> HIDE DEF gone
      <4>3. ledger'.cids[k][p] = NoWant
        BY <3>6, <4>1, <4>2, ForgetPoint, SMTT(30)
      <4> QED
        BY <3>5, <4>3, Zenon
    <3> QED
      BY <3>6, <3>7, <3>8, Zenon
  <2>7. CASE a.by = w /\ (PopTasks(w) \/ SendBlocks(w))
    <3>1. hand[w] = EmptyHanded \/ hand[w].pc = "sent"
      BY <2>7, Zenon DEF PopTasks, SendBlocks
    <3>2. hand[w].pc \in {"popped", "ready"}
      BY <2>1, <2>7, Zenon
    <3> QED
      BY <3>1, <3>2, SMT DEF EmptyHanded
  <2> QED
    BY <2>4, <2>5, <2>6, <2>7, Zenon
<1> QED
  BY <1>2, <1>3, <1>4, Zenon DEF Ways


\* A want that is in the ledger when MessageReceived leaves e.lock is about to be
\* pushed, or was in the ledger before and keeps its task, or is missed.
LEMMA LedgerAnswers ==
    ASSUME AnsweredInv, NEW p \in Peer, UpdateLedger(p), NEW k \in Key,
           NEW type \in WantType, ledger'.cids[k][p] = type,
           k \in store, <<p, k>> \notin missed',
           /\ ledger.cids[k][p] = type /\ <<p, k>> \notin missed => Ways(p, k, type)
    PROVE  Ways(p, k, type)'
<1> DEFINE m == rx[p].msg
           l == IF m.full THEN ClearPeerWantlist(ledger, p) ELSE ledger
<1>1. PICK kept \in SUBSET rx[p].wants, recorded \in SUBSET rx[p].wants,
           cancelled \in SUBSET m.cancel, dropped \in SUBSET m.cancel :
           Process(p, kept, recorded, cancelled, dropped)
  BY Zenon DEF UpdateLedger
<1>2. /\ TypeOK /\ LedgerInverse /\ UNCHANGED <<active, hand, notify, store>>
      /\ rx[p].pc = "sized"
  BY Zenon DEF AnsweredInv, UpdateLedger
<1>3. /\ m.want \in [Key -> WantType \cup {NoWant}] /\ rx[p].wants \in SUBSET Key
      /\ m.cancel \in SUBSET Key /\ ledger \in Ledger
      /\ rx[p] \in [pc : {"sized", "ledgered"}, msg : Message,
                    wants : SUBSET Key, found : SUBSET Key]
  BY <1>2, RxFacts, Zenon DEF TypeOK
<1> DEFINE broken == (kept \cup m.cancel) \cap Identity # {}
           l1 == Wants(l, p, m.want, recorded)
<1>4. /\ recorded \subseteq kept
      /\ dropped \in CancelWantFound(l1, p, cancelled)
      /\ ledger' = CancelWant(l1, p, cancelled)
      /\ pending' = [pending EXCEPT ![p] = [x \in Key |->
                        IF x \in dropped THEN NoTask ELSE @[x]]]
      /\ rx' = [rx EXCEPT ![p] =
                   IF broken THEN [pc |-> "kill"]
                   ELSE [@ EXCEPT !.pc = "ledgered", !.wants = kept]]
      /\ missed' = (missed \ ({p} \X recorded)) \cup
                    ({p} \X {x \in recorded : /\ x \notin rx[p].found \/ broken
                                              /\ x \in store
                                              /\ notify[x].pc # "stored"})
  BY <1>1, Zenon DEF Process
<1>5. l \in Ledger /\ \A x \in Key : l.cids[x][p] \in {ledger.cids[x][p], NoWant}
  BY <1>3, ClearPoint, SMTT(30)
<1>6. type # NoWant
  BY DEF WantType, NoWant
<1>7. ASSUME k \in recorded PROVE Ways(p, k, type)'
  <2>1. (k \in rx[p].found /\ ~broken) \/ notify[k].pc = "stored"
    BY <1>4, <1>7, Zenon
  <2>2. CASE notify[k].pc = "stored"
    BY <1>2, <2>2, Zenon DEF Ways, Announced
  <2>3. CASE k \in rx[p].found /\ ~broken
    <3>1. rx'[p] = [rx[p] EXCEPT !.pc = "ledgered", !.wants = kept]
      BY <1>2, <1>4, <2>3, Zenon DEF TypeOK
    <3>2. rx'[p].pc = "ledgered" /\ rx'[p].wants = kept /\ rx'[p].found = rx[p].found
      BY <1>3, <3>1
    <3> QED
      BY <1>4, <1>7, <2>3, <3>2, Zenon DEF Ways, Handled
  <2> QED
    BY <2>1, <2>2, <2>3, Zenon
<1>8. ASSUME k \notin recorded PROVE Ways(p, k, type)'
  <2> DEFINE want == m.want
  <2>1. want \in [Key -> WantType \cup {NoWant}] /\ recorded \in SUBSET Key
    BY <1>3, Zenon
  <2>2. l1 = Wants(l, p, want, recorded)
    BY Zenon
  <2> HIDE DEF l, want, l1
  <2>3. l1 \in Ledger /\ l1.cids[k][p] = l.cids[k][p]
    <3>1. /\ Wants(l, p, want, recorded) \in Ledger
          /\ \A x \in Key : Wants(l, p, want, recorded).cids[x][p] =
               IF x \in recorded THEN want[x] ELSE l.cids[x][p]
      BY <1>5, <2>1, WantsPoint, SMTT(30)
    <3> QED
      BY <1>8, <2>2, <3>1, Zenon
  <2>4. cancelled \in SUBSET Key
    BY <1>3, Zenon
  <2>5. ledger'.cids[k][p] \in {l1.cids[k][p], NoWant}
    BY <1>4, <2>3, <2>4, CancelPoint, SMTT(30)
  <2>6. ledger.cids[k][p] = type /\ l1.cids[k][p] = type
    BY <1>5, <1>6, <2>3, <2>5, Zenon
  <2>7. <<p, k>> \notin missed
    BY <1>4, <1>8, Zenon
  <2>8. Ways(p, k, type)
    BY <2>6, <2>7, Zenon
  <2>9. k \notin dropped
    <3>1. CASE WantlistForPeer(l1, p) = {}
      BY <1>4, <3>1, Zenon DEF CancelWantFound
    <3>2. CASE WantlistForPeer(l1, p) # {}
      <4>1. ledger' = Forget(l1, p, cancelled)
        BY <1>4, <3>2, Zenon DEF CancelWant
      <4>2. k \notin cancelled
        BY <1>6, <2>3, <2>4, <4>1, ForgetPoint, SMTT(30)
      <4>3. dropped \subseteq cancelled
        BY <1>4, <3>2 DEF CancelWantFound
      <4> QED
        BY <4>2, <4>3, Zenon
    <3> QED
      BY <3>1, <3>2, Zenon
  <2>10. pending'[p][k] = pending[p][k]
    BY <1>2, <1>4, <2>9, Zenon DEF TypeOK
  <2>11. ~Handled(p, k)
    BY <1>2, Zenon DEF Handled
  <2> QED
    BY <1>2, <2>8, <2>10, <2>11, Zenon DEF Ways, Queued, InHand, Announced
<1> QED
  BY <1>7, <1>8, Zenon

\* The tasks that MessageReceived pushes answer what it found.
LEMMA PushesAnswer ==
    ASSUME AnsweredInv, NEW p \in Peer, PushAnswers(p), NEW k \in Key,
           NEW type \in WantType, ledger.cids[k][p] = type,
           Ways(p, k, type), <<p, k>> \notin missed'
    PROVE  Ways(p, k, type)'
<1>1. PICK queued \in SUBSET Key :
        /\ PushTasks(p, TasksFor(p), queued)
        /\ missed' = missed \cup ({p} \X Missed(p, TasksFor(p), queued))
  BY Zenon DEF PushAnswers
<1>2. /\ TypeOK /\ TypesMatch /\ rx[p].pc = "ledgered"
      /\ UNCHANGED <<active, hand, notify>>
  BY Zenon DEF AnsweredInv, PushAnswers
<1> DEFINE new == TasksFor(p)
<1>3. new \in [Key -> Task \cup {NoTask}]
  BY <1>2, TasksForType, Zenon
<1>4. Handled(p, k) => new[k] # NoTask /\ Enough(new[k], type)
  <2> SUFFICES ASSUME Handled(p, k) PROVE new[k] # NoTask /\ Enough(new[k], type)
    OBVIOUS
  <2>1. k \in rx[p].wants \cap rx[p].found
    BY Zenon DEF Handled
  <2>2. new[k] = [HaveBlock |-> TRUE, IsWantBlock |-> sendAsBlock(rx[p].msg.want[k]),
                  SendDontHave |-> rx[p].msg.sendDontHave]
    BY <2>1, Zenon DEF TasksFor
  <2>3. type = rx[p].msg.want[k]
    BY <1>2, <2>1 DEF TypesMatch, WantType, NoWant
  <2>4. PICK h \in BOOLEAN, b \in BOOLEAN, d \in BOOLEAN :
          /\ h /\ (b <=> type = "block")
          /\ new[k] = [HaveBlock |-> h, IsWantBlock |-> b, SendDontHave |-> d]
    <3>1. rx[p].msg.sendDontHave \in BOOLEAN
      BY <1>2, RxFacts, Zenon
    <3> QED
      BY <2>2, <2>3, <3>1, Zenon DEF sendAsBlock
  <2> HIDE DEF new
  <2>5. new[k] \in Task
    BY <2>4 DEF Task
  <2>6. new[k].HaveBlock = h /\ new[k].IsWantBlock = b
    BY <2>4
  <2> QED
    BY <2>4, <2>5, <2>6, NoTaskApart, Zenon DEF Enough
<1>5. PushTasks(p, new, queued) /\ k \notin Missed(p, new, queued)
  BY <1>1, Zenon
<1> HIDE DEF new
<1>6. /\ Queued(p, k, type) => Queued(p, k, type)'
      /\ new[k] # NoTask /\ Enough(new[k], type) => Queued(p, k, type)' \/ InHand(p, k, type)
  BY <1>2, <1>3, <1>5, PushAnswersKey, Zenon
<1>7. InHand(p, k, type) => InHand(p, k, type)'
  BY <1>2, Zenon DEF InHand
<1>8. Announced(p, k, type) => Announced(p, k, type)'
  BY <1>2, Zenon DEF Announced
<1> QED
  BY <1>4, <1>6, <1>7, <1>8, Zenon DEF Ways


\* NotifyNewBlocks answers the peer it turns to, and leaves the others as they are.
LEMMA NotifyAnswers ==
    ASSUME AnsweredInv, NEW k \in Key, NotifyPeer(k), NEW q \in Peer, NEW c \in Key,
           NEW type \in WantType, ledger.cids[c][q] = type, <<q, c>> \notin missed',
           <<q, c>> \notin missed => Ways(q, c, type)
    PROVE  Ways(q, c, type)'
<1>1. TypeOK /\ UNCHANGED <<ledger, active, hand, rx>>
  BY Zenon DEF AnsweredInv, NotifyPeer
<1>2. PICK entry \in notify[k].todo, queued \in SUBSET Key :
         LET p   == entry[1]
             new == [x \in Key |-> IF x # k THEN NoTask ELSE
                       [HaveBlock |-> TRUE, SendDontHave |-> FALSE,
                        IsWantBlock |-> sendAsBlock(entry[2])]]
         IN /\ PushTasks(p, new, queued)
            /\ missed' = (missed \ {<<p, x>> : x \in {k} \cap
                                      {x \in Key : ledger.cids[x][p] = entry[2]}})
                         \cup ({p} \X Missed(p, new, queued))
            /\ notify' = [notify EXCEPT ![k].todo = @ \ {entry}]
  BY Zenon DEF NotifyPeer
<1> DEFINE p == entry[1]
           new == [x \in Key |-> IF x # k THEN NoTask ELSE
                     [HaveBlock |-> TRUE, SendDontHave |-> FALSE,
                      IsWantBlock |-> sendAsBlock(entry[2])]]
<1>3. p \in Peer /\ entry = <<p, entry[2]>>
  BY <1>1 DEF TypeOK
<1>4. new \in [Key -> Task \cup {NoTask}]
  BY Zenon DEF Task, sendAsBlock
<1>5. entry[2] = type => new[k] # NoTask /\ Enough(new[k], type)
  <2> SUFFICES ASSUME entry[2] = type PROVE new[k] # NoTask /\ Enough(new[k], type)
    OBVIOUS
  <2>1. new[k] = [HaveBlock |-> TRUE, SendDontHave |-> FALSE,
                  IsWantBlock |-> sendAsBlock(entry[2])]
    BY Zenon
  <2>2. PICK h \in BOOLEAN, b \in BOOLEAN, d \in BOOLEAN :
          /\ h /\ (b <=> type = "block")
          /\ new[k] = [HaveBlock |-> h, IsWantBlock |-> b, SendDontHave |-> d]
    BY <2>1, Zenon DEF sendAsBlock
  <2> HIDE DEF new
  <2>3. new[k] \in Task
    BY <2>2 DEF Task
  <2>4. new[k].HaveBlock = h /\ new[k].IsWantBlock = b
    BY <2>2
  <2> QED
    BY <2>2, <2>3, <2>4, NoTaskApart, Zenon DEF Enough
<1>6. /\ PushTasks(p, new, queued)
      /\ missed' = (missed \ {<<p, x>> : x \in {k} \cap
                                      {x \in Key : ledger.cids[x][p] = entry[2]}})
                   \cup ({p} \X Missed(p, new, queued))
      /\ notify' = [notify EXCEPT ![k].todo = @ \ {entry}]
  BY <1>2, Zenon
<1> HIDE DEF p, new
<1>7. /\ notify'[c].pc = notify[c].pc
      /\ \A e \in notify[c].todo : c # k \/ e # entry => e \in notify'[c].todo
  BY <1>1, <1>6 DEF TypeOK
<1>8. /\ p = q => c \notin Missed(p, new, queued)
      /\ ~(q = p /\ c = k /\ type = entry[2]) => <<q, c>> \notin missed
  BY <1>6, Zenon
<1>9. Queued(q, c, type) => Queued(q, c, type)'
  <2>1. CASE q = p
    BY <1>1, <1>3, <1>4, <1>6, <2>1, PushAnswersKey, Zenon
  <2>2. CASE q # p
    <3>1. pending'[q] = pending[q]
      BY <1>1, <1>3, <1>6, <2>2, Zenon DEF PushTasks, TypeOK
    <3> QED
      BY <3>1, Zenon DEF Queued
  <2> QED
    BY <2>1, <2>2, Zenon
<1>10. InHand(q, c, type) => InHand(q, c, type)'
  BY <1>1, Zenon DEF InHand
<1>11. Handled(q, c) => Handled(q, c)'
  BY <1>1, Zenon DEF Handled
<1>12. CASE q = p /\ c = k /\ type = entry[2]
  <2>1. new[c] # NoTask /\ Enough(new[c], type) /\ c \notin Missed(p, new, queued)
    BY <1>5, <1>8, <1>12, Zenon
  <2>2. Queued(q, c, type)' \/ InHand(q, c, type)
    BY <1>1, <1>3, <1>4, <1>6, <1>12, <2>1, PushAnswersKey, Zenon
  <2> QED
    BY <1>10, <2>2, Zenon DEF Ways
<1>13. CASE ~(q = p /\ c = k /\ type = entry[2])
  <2>1. Announced(q, c, type) => Announced(q, c, type)'
    <3>1. c # k \/ <<q, type>> # entry
      BY <1>3, <1>13
    <3> QED
      BY <1>7, <3>1, Zenon DEF Announced
  <2> QED
    BY <1>8, <1>9, <1>10, <1>11, <1>13, <2>1, Zenon DEF Ways
<1> QED
  BY <1>12, <1>13, Zenon

\* A step that leaves the answers of a peer to a key as they are.
LEMMA WaysStay ==
    ASSUME NEW p, NEW k, NEW type, Ways(p, k, type), UNCHANGED <<active, hand>>,
           pending'[p][k] = pending[p][k], notify'[k] = notify[k], rx'[p] = rx[p]
    PROVE  Ways(p, k, type)'
BY Zenon DEF Ways, Queued, InHand, Announced, Handled

\* Every step leaves the wants that are not missed answered.
LEMMA AnsweredStep == AnsweredInv /\ [Next]_vars => AnsweredOK'
<1> SUFFICES ASSUME AnsweredInv, [Next]_vars, NEW q \in Peer, NEW c \in Key,
                    NEW type \in WantType, ledger'.cids[c][q] = type,
                    conn'[q] # "cleared", c \in store', <<q, c>> \notin missed'
             PROVE  Ways(q, c, type)'
  <2> SUFFICES ASSUME AnsweredInv, [Next]_vars, NEW q \in Peer, NEW c \in Key,
                      conn'[q] # "cleared", c \in store', ledger'.cids[c][q] # NoWant,
                      <<q, c>> \notin missed'
               PROVE  Answering(q, c)'
    BY ZenonT(60) DEF AnsweredOK
  <2>1. ledger'.cids[c][q] \in WantType
    <3>1. ledger' \in Ledger
      BY TypeStep, Zenon DEF AnsweredInv, TypeOK
    <3> QED
      BY <3>1 DEF Ledger
  <2> QED
    BY <2>1, AnsweringWays, Zenon
<1>1. TypeOK /\ LedgerInverse /\ AnsweredOK
  BY Zenon DEF AnsweredInv
<1>2. ASSUME conn[q] # "cleared", c \in store, ledger.cids[c][q] = type, <<q, c>> \notin missed
      PROVE  Ways(q, c, type)
  BY <1>1, <1>2, AnsweringWays, NoWantApart, Zenon DEF AnsweredOK
<1>3. ASSUME UpdateLedger(q) PROVE Ways(q, c, type)'
  <2>1. UNCHANGED <<conn, store>>
    BY <1>3, Zenon DEF UpdateLedger
  <2> QED
    BY <1>2, <1>3, <2>1, LedgerAnswers, Zenon
<1>4. ASSUME ~UpdateLedger(q) PROVE ledger.cids[c][q] = type
  BY <1>1, <1>4, LedgerShrinks, NoWantApart, Zenon
<1> SUFFICES ASSUME ~UpdateLedger(q) PROVE Ways(q, c, type)'
  BY <1>3, Zenon
<1>5. ASSUME conn[q] # "cleared", UNCHANGED <<active, hand>>, c \in store,
             <<q, c>> \notin missed,
             pending'[q][c] = pending[q][c], notify'[c] = notify[c], rx'[q] = rx[q]
      PROVE  Ways(q, c, type)'
  BY <1>2, <1>4, <1>5, WaysStay, Zenon
<1>6. ASSUME NEW p \in Peer, NEW m \in Message, ReceiveMessage(p, m) PROVE Ways(q, c, type)'
  <2>1. /\ UNCHANGED <<conn, store, missed, active, hand, pending, notify>>
        /\ UNCHANGED rx \/ \E y : rx' = [rx EXCEPT ![p] = y]
        /\ rx[p] = Idle
    BY <1>6, Zenon DEF ReceiveMessage
  <2>2. Ways(q, c, type)
    BY <1>2, <1>4, <2>1, Zenon
  <2>3. CASE p = q
    <3>1. ~Handled(q, c)
      BY <2>1, <2>3 DEF Handled, Idle
    <3> QED
      BY <2>1, <2>2, <3>1, Zenon DEF Ways, Queued, InHand, Announced
  <2>4. CASE p # q
    BY <1>1, <1>5, <2>1, <2>4, Zenon DEF TypeOK
  <2> QED
    BY <2>3, <2>4, Zenon
<1>7. ASSUME NEW p \in Peer, UpdateLedger(p) PROVE Ways(q, c, type)'
  <2>1. p # q /\ UNCHANGED <<conn, store, active, hand, notify>>
    BY <1>7, Zenon DEF UpdateLedger
  <2>2. PICK kept, recorded, cancelled, dropped : Process(p, kept, recorded, cancelled, dropped)
    BY <1>7, Zenon DEF UpdateLedger
  <2>3. /\ \E y : rx' = [rx EXCEPT ![p] = y]
        /\ \E y : pending' = [pending EXCEPT ![p] = y]
        /\ \E y : missed' = (missed \ ({p} \X recorded)) \cup ({p} \X y)
    BY <2>2, Zenon DEF Process
  <2>4. rx'[q] = rx[q] /\ pending'[q] = pending[q] /\ <<q, c>> \notin missed
    BY <1>1, <2>1, <2>3, Zenon DEF TypeOK
  <2> QED
    BY <1>5, <2>1, <2>4, Zenon
<1>8. ASSUME NEW p \in Peer, PushAnswers(p) PROVE Ways(q, c, type)'
  <2>1. /\ UNCHANGED <<conn, store, active, hand, notify, ledger>>
        /\ \E y : rx' = [rx EXCEPT ![p] = y]
        /\ \E y : pending' = [pending EXCEPT ![p] = y]
        /\ \E y : missed' = missed \cup y
    BY <1>8, Zenon DEF PushAnswers, PushTasks
  <2>2. <<q, c>> \notin missed
    BY <2>1, Zenon
  <2>3. CASE p = q
    BY <1>2, <1>4, <1>8, <2>1, <2>2, <2>3, PushesAnswer, Zenon
  <2>4. CASE p # q
    BY <1>1, <1>5, <2>1, <2>2, <2>4, Zenon DEF TypeOK
  <2> QED
    BY <2>3, <2>4, Zenon
<1>9. ASSUME NEW p \in Peer, KillConnection(p) PROVE Ways(q, c, type)'
  <2>1. /\ UNCHANGED <<store, missed, active, hand, pending, notify>>
        /\ rx' = [rx EXCEPT ![p] = Idle]
        /\ rx[p].pc = "kill"
        /\ conn' = [conn EXCEPT ![p] = IF @ = "up" THEN "lost" ELSE @]
    BY <1>9, Zenon DEF KillConnection
  <2>2. conn[q] # "cleared"
    BY <1>1, <2>1 DEF TypeOK
  <2>3. Ways(q, c, type)
    BY <1>2, <1>4, <2>1, <2>2, Zenon
  <2>4. CASE p = q
    <3>1. ~Handled(q, c)
      BY <2>1, <2>4 DEF Handled
    <3> QED
      BY <2>1, <2>3, <3>1, Zenon DEF Ways, Queued, InHand, Announced
  <2>5. CASE p # q
    BY <1>1, <1>5, <2>1, <2>2, <2>5, Zenon DEF TypeOK
  <2> QED
    BY <2>4, <2>5, Zenon
<1>10. ASSUME NEW k \in Key, StoreBlock(k) PROVE Ways(q, c, type)'
  <2>1. /\ UNCHANGED <<conn, missed, active, hand, pending, rx>>
        /\ store' = store \cup {k}
        /\ notify' = [notify EXCEPT ![k].pc = "stored"]
    BY <1>10, Zenon DEF StoreBlock
  <2>2. CASE k = c
    <3>1. notify'[c].pc = "stored"
      BY <1>1, <2>1, <2>2 DEF TypeOK
    <3> QED
      BY <3>1, Zenon DEF Ways, Announced
  <2>3. CASE k # c
    BY <1>1, <1>5, <2>1, <2>3, Zenon DEF TypeOK
  <2> QED
    BY <2>2, <2>3, Zenon
<1>11. ASSUME NEW k \in Key, DeleteBlock(k) PROVE Ways(q, c, type)'
  BY <1>5, <1>11, Zenon DEF DeleteBlock
<1>12. ASSUME NEW k \in Key, ReadWaiting(k) PROVE Ways(q, c, type)'
  <2>1. /\ UNCHANGED <<conn, store, missed, active, hand, pending, rx>>
        /\ notify' = [notify EXCEPT ![k] = [pc |-> "read",
                    todo |-> {<<p, ledger.cids[k][p]>> : p \in PeersOf(ledger, k)}]]
    BY <1>12, Zenon DEF ReadWaiting
  <2>2. CASE k = c
    <3>1. <<q, type>> \in notify'[c].todo
      <4>1. q \in PeersOf(ledger, c)
        BY <1>4, NoWantApart, Zenon DEF PeersOf
      <4>2. notify'[c].todo = {<<p, ledger.cids[c][p]>> : p \in PeersOf(ledger, c)}
        BY <1>1, <2>1, <2>2 DEF TypeOK
      <4> QED
        BY <1>4, <4>1, <4>2, Zenon
    <3> QED
      BY <3>1, Zenon DEF Ways, Announced
  <2>3. CASE k # c
    BY <1>1, <1>5, <2>1, <2>3, Zenon DEF TypeOK
  <2> QED
    BY <2>2, <2>3, Zenon
<1>13. ASSUME NEW k \in Key, NotifyPeer(k) PROVE Ways(q, c, type)'
  <2>1. UNCHANGED <<conn, store, ledger>>
    BY <1>13, Zenon DEF NotifyPeer
  <2> QED
    BY <1>2, <1>4, <1>13, <2>1, NotifyAnswers, Zenon
<1>14. ASSUME NEW k \in Key, NotifyDone(k) PROVE Ways(q, c, type)'
  <2>1. /\ UNCHANGED <<conn, store, missed, active, hand, pending, rx>>
        /\ notify' = [notify EXCEPT ![k].pc = "none"]
        /\ notify[k].pc = "read" /\ notify[k].todo = {}
    BY <1>14, Zenon DEF NotifyDone
  <2>2. Ways(q, c, type)
    BY <1>2, <1>4, <2>1, Zenon
  <2>3. CASE k = c
    <3>1. ~Announced(q, c, type)
      BY <2>1, <2>3 DEF Announced
    <3> QED
      BY <2>1, <2>2, <3>1, Zenon DEF Ways, Queued, InHand, Handled
  <2>4. CASE k # c
    BY <1>1, <1>5, <2>1, <2>4, Zenon DEF TypeOK
  <2> QED
    BY <2>3, <2>4, Zenon
<1>15. ASSUME NEW w \in Worker,
              PopTasks(w) \/ MakeEnvelope(w) \/ MessageSent(w) \/ SendBlocks(w)
       PROVE  Ways(q, c, type)'
  <2>1. UNCHANGED <<conn, store, missed>>
    BY <1>15, Zenon DEF PopTasks, MakeEnvelope, MessageSent, SendBlocks
  <2> QED
    BY <1>2, <1>4, <1>15, <2>1, WorkersAnswer, Zenon
<1>16. ASSUME NEW p \in Peer, PeerConnected(p) \/ ConnectionLost(p) PROVE Ways(q, c, type)'
  <2>1. /\ UNCHANGED <<store, missed, active, hand, pending, notify, rx>>
        /\ conn[p] \in {"up", "down"}
        /\ \E y : conn' = [conn EXCEPT ![p] = y]
    BY <1>16, Zenon DEF PeerConnected, ConnectionLost
  <2>2. conn[q] # "cleared"
    <3>1. p = q \/ conn'[q] = conn[q]
      BY <1>1, <2>1, Zenon DEF TypeOK
    <3> QED
      BY <2>1, <3>1
  <2> QED
    BY <1>5, <2>1, <2>2, Zenon
<1>17. ASSUME NEW p \in Peer, ClearQueue(p) PROVE Ways(q, c, type)'
  <2>1. /\ UNCHANGED <<store, missed, active, hand, notify, rx>>
        /\ \E y : pending' = [pending EXCEPT ![p] = y]
        /\ conn' = [conn EXCEPT ![p] = "cleared"]
    BY <1>17, Zenon DEF ClearQueue
  <2>2. p # q /\ conn[q] # "cleared" /\ pending'[q] = pending[q]
    BY <1>1, <2>1, Zenon DEF TypeOK
  <2> QED
    BY <1>5, <2>1, <2>2, Zenon
<1>18. ASSUME NEW p \in Peer, ForgetPeer(p) PROVE Ways(q, c, type)'
  <2>1. /\ UNCHANGED <<store, missed, active, hand, pending, notify, rx>>
        /\ ledger' = PeerDisconnected(ledger, p)
        /\ conn' = [conn EXCEPT ![p] = "down"]
    BY <1>18, Zenon DEF ForgetPeer
  <2>2. p # q
    <3>1. ledger'.cids[c][q] =
               IF q = p /\ ledger.peers[p][c] # NoWant THEN NoWant ELSE ledger.cids[c][q]
      BY <1>1, <2>1, DisconnectedPoint DEF TypeOK
    <3>2. ledger.peers[q][c] # NoWant
      BY <1>1, <1>4, NoWantApart, Zenon DEF LedgerInverse
    <3> QED
      BY <3>1, <3>2, NoWantApart, Zenon
  <2>3. conn[q] # "cleared"
    BY <1>1, <2>1, <2>2, Zenon DEF TypeOK
  <2> QED
    BY <1>5, <2>1, <2>3, Zenon
<1>19. ASSUME UNCHANGED vars PROVE Ways(q, c, type)'
  BY <1>5, <1>19, Zenon DEF vars
<1> QED
  BY <1>6, <1>7, <1>8, <1>9, <1>10, <1>11, <1>12, <1>13, <1>14, <1>15, <1>16, <1>17,
     <1>18, <1>19, Zenon DEF Next

\* The engine forgets no peer that waits for a block it has: an answer is queued,
\* in a worker's hands, or about to be pushed, unless the want was missed.
THEOREM WaitersAreAnswered == Spec => []WaitingAreAnswered
<1>1. Init => AnsweredInv
  <2> SUFFICES ASSUME Init PROVE AnsweredInv
    OBVIOUS
  <2>1. \A p \in Peer : rx[p].pc # "ledgered"
    BY Zenon DEF Init, Idle
  <2>2. \A p \in Peer, k \in Key : ledger.cids[k][p] = NoWant
    BY DEF Init, newPeerLedger
  <2> QED
    BY <2>1, <2>2, TypeInit, InverseInit, Zenon
    DEF Init, AnsweredInv, ActiveHeld, TypesMatch, HeldOnce, HavesPlain, AnsweredOK
<1>2. AnsweredInv /\ [Next]_vars => AnsweredInv'
  BY TypeStep, InverseStep, HeldStep, TypesMatchStep, TasksStep, AnsweredStep, Zenon
  DEF AnsweredInv
<1>3. AnsweredInv => WaitingAreAnswered
  BY DEF AnsweredInv, AnsweredOK, WaitingAreAnswered
<1> QED
  BY <1>1, <1>2, <1>3, PTL DEF Spec
=============================================================================
