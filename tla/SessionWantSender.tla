--------------------------- MODULE SessionWantSender ---------------------------
(***************************************************************************)
(* The want sender of one requestor session (client/internal/session/      *)
(* sessionwantsender.go), with the session's peers (sessionpeermanager),   *)
(* the presences every session shares (blockpresencemanager) and what the  *)
(* peer manager tells the session.                                         *)
(*                                                                         *)
(* The sender is one goroutine that takes all queued changes at once.      *)
(* Around it run: the network (peers come, go and answer), the loop of the *)
(* session, one goroutine for each message handed to the session, which    *)
(* dials the sender of the message before it queues the change, and the    *)
(* goroutine that prunes a peer. The channel of changes is bounded: these  *)
(* wait for room in it, but a signal about a peer must not wait and is     *)
(* left to a goroutine of its own when there is none.                      *)
(***************************************************************************)
EXTENDS Naturals, Sequences, FiniteSets

CONSTANTS
  Peer,           \* the remote peers
  Want,           \* the keys the client asks the session for
  DontHaveLimit,  \* peerDontHaveLimit
  NotWanted,      \* the entry of a key the session does not want
  ChangesBufferSize,  \* changesBufferSize
  MaxChanges      \* bound: changes ever queued, messages on their way included

ASSUME WantSenderAssumption ==
  /\ DontHaveLimit \in Nat /\ MaxChanges \in Nat
  /\ ChangesBufferSize \in Nat \ {0}

Nobody == "nobody"
Nothing == "nothing"

\* A presence orders as in the code, where a peer without an entry reads as
\* DONT_HAVE.
Presence == {"none", "dontHave", "unknown", "have"}

\* An entry of the changes channel; `linked` is about a change that a goroutine
\* still holds, and says that it needs no dial, or that the dial is over.
Change == [kind : {"add", "cancel", "up", "down", "block", "have", "dontHave"},
           peer : Peer \cup {Nobody}, key : Want \cup {Nothing},
           linked : BOOLEAN]

WantInfo == [presence : [Peer -> Presence], sentTo : Peer \cup {Nobody},
             exhausted : BOOLEAN]

\* The values for no peer and no want are neither.
ASSUME EntriesAssumption == Nobody \notin Peer /\ NotWanted \notin WantInfo

VARIABLES
  wants,      \* sws.wants: NotWanted or the want's info
  members,    \* the peers of the SessionPeerManager
  receiver,   \* sws.wantReceiver
  streak,     \* sws.peerConsecutiveDontHaves
  swbt,       \* the want-blocks sent to each peer, as pairs
  presences,  \* the BlockPresenceManager: "have", "dontHave" or "none"
  interest,   \* the keys the session is interested in, in the interest manager
  changes,    \* the changes channel
  updates,    \* the changes held by the session's goroutines, which can wait
  held,       \* how many signals about a peer are held by their goroutines
  pruning,    \* the peers a pruning goroutine is about to signal
  connected,  \* the peers the PeerManager has a queue for
  registered, \* the peers about which the PeerManager signals this session
  stage,      \* where onChange is
  cancels,    \* the keys onChange collected to cancel
  unsent,     \* the wants sendNextWants has not visited
  late,       \* history: the peers a message of which was applied too late
  misled,     \* history: the peers whose coming was queued after their going
  spent       \* how much of MaxChanges is used

senderVars == <<wants, members, receiver, streak, swbt, presences, interest,
                changes, updates, held, pruning, connected, registered, stage,
                cancels, unsent, late, misled, spent>>

\* ------------------------------------------------------------- presences

\* updateWantBlockPresence: what is known of the peer and the key.
Seen(p, k) ==
  IF presences[k][p] = "none" THEN "unknown" ELSE presences[k][p]

\* updateBlockPresence of the manager never turns a HAVE into a DONT_HAVE.
Learn(p, k, presence) ==
  presences' = IF presences[k][p] = "have" THEN presences
               ELSE [presences EXCEPT ![k] = [@ EXCEPT ![p] = presence]]

\* setPeerBlockPresence for a set of peers: a HAVE ends the exhaustion.
SetPresence(w, k, peers) ==
  [w EXCEPT !.presence = [p \in Peer |-> IF p \in peers THEN Seen(p, k)
                                         ELSE w.presence[p]],
            !.exhausted = @ /\ \A p \in peers : Seen(p, k) # "have"]

\* Mutant: the want goes on waiting for the peers that left.
RemovePeersWaiting(w, peers) ==
  [w EXCEPT !.presence = [p \in Peer |-> IF p \in peers THEN "none"
                                         ELSE w.presence[p]]]

\* removePeer for a set of peers.
RemovePeers(w, peers) ==
  [w EXCEPT !.presence = [p \in Peer |-> IF p \in peers THEN "none"
                                         ELSE w.presence[p]],
            !.sentTo = IF @ \in peers THEN Nobody ELSE @]

\* trackWant of a key without an entry.
NewWant(k) ==
  SetPresence([presence |-> [p \in Peer |-> "none"], sentTo |-> Nobody,
               exhausted |-> FALSE], k, members)

\* ------------------------------------------------------------- onChange

\* The positions in the batch of changes of the given kinds, about a key or
\* a peer.
AboutKey(k, kinds) ==
  {i \in DOMAIN changes : changes[i].key = k /\ changes[i].kind \in kinds}
AboutPeer(p, kinds) ==
  {i \in DOMAIN changes : changes[i].peer = p /\ changes[i].kind \in kinds}

\* Whether the batch has an update of that kind from the peer about the key.
Said(p, k, kind) ==
  \E i \in DOMAIN changes :
    changes[i].kind = kind /\ changes[i].peer = p /\ changes[i].key = k

\* The adds and cancels of the batch, in order.
Tracked(k) ==
  LET dropped == AboutKey(k, {"cancel"})
      added == {i \in AboutKey(k, {"add"}) : \A j \in dropped : i > j}
  IN IF added # {} /\ (wants[k] = NotWanted \/ dropped # {}) THEN NewWant(k)
     ELSE IF dropped # {} THEN NotWanted
     ELSE wants[k]

\* The last word of the batch on the availability of a peer. A block or a
\* HAVE counts as the peer being available.
SaidAvailable(p, available) ==
  \E i \in AboutPeer(p, IF available THEN {"up", "block", "have"} ELSE {"down"}) :
    \A j \in AboutPeer(p, {"up", "block", "have", "down"}) : j <= i

NewlyAvailable == {p \in Peer \ members : SaidAvailable(p, TRUE)}
NewlyUnavailable == {p \in members : SaidAvailable(p, FALSE)}

\* updateWantsPeerAvailability for the peers whose availability changed.
Repeopled(w, k, up, down) == RemovePeers(SetPresence(w, k, up), down)

\* Mutant: any DONT_HAVE ends the wait, whoever sent it.
AnsweredByAnyone(w, k) ==
  LET deniers == {p \in Peer : Said(p, k, "dontHave")}
      heard == deniers \cup {p \in Peer : Said(p, k, "have")}
  IN [SetPresence(w, k, heard) EXCEPT
        !.sentTo = IF deniers # {} THEN Nobody ELSE @]

\* The DONT_HAVEs and HAVEs of the batch about a key whose block did not come
\* with it. A DONT_HAVE ends the wait for the peer the want-block went to.
Answered(w, k) ==
  LET deniers == {p \in Peer : Said(p, k, "dontHave")}
      heard == deniers \cup {p \in Peer : Said(p, k, "have")}
  IN [SetPresence(w, k, heard) EXCEPT
        !.sentTo = IF @ \in deniers /\ <<@, k>> \in swbt THEN Nobody ELSE @]

\* The wants after the batch, before the check for exhausted ones.
Updated(up, down) ==
  [k \in Want |->
     LET w == Tracked(k)
     IN IF AboutKey(k, {"block"}) # {} \/ w = NotWanted THEN NotWanted
        ELSE Answered(Repeopled(w, k, up, down), k)]

\* checkForExhaustedWants: after a DONT_HAVE, or after the loss of a peer.
Exhausted(k, peers, down) ==
  /\ \/ down # {}
     \/ AboutKey(k, {"dontHave"}) # {} /\ AboutKey(k, {"block"}) = {}
  /\ IF down # {} /\ peers = {} THEN TRUE
     ELSE /\ \E p \in Peer : presences[k][p] # "none"
          /\ \A p \in peers : presences[k][p] = "dontHave"

\* The DONT_HAVEs of the batch counted up to the limit, and the peers to prune
\* because they went past it and have nothing the session wants.
Streak(p) == streak[p] + Cardinality(AboutPeer(p, {"dontHave"}))
Pruned(updated) ==
  {p \in Peer : /\ Streak(p) > DontHaveLimit
                /\ AboutPeer(p, {"dontHave"}) # {}
                /\ AboutPeer(p, {"have"}) = {}
                /\ \A k \in Want : updated[k] = NotWanted
                                   \/ presences[k][p] # "have"}

\* sendNextWants is called when there are peers, and goes through all wants.
StartSending(ws, peers) ==
  LET all == {k \in Want : peers # {} /\ ws[k] # NotWanted} IN
  unsent' = all /\ stage' = IF all = {} THEN "idle" ELSE "send"

\* The sender, back in its main loop, takes all the changes queued. Those that
\* find room while it does belong to the next batch.
CollectChanges == stage = "idle" /\ changes # <<>> /\ changes' = <<>>

\* onChange up to the cancels. A message is late when its sender is gone, or
\* left the session, by the time it is applied.
OnChange ==
  LET up == NewlyAvailable
      down == NewlyUnavailable
      peers == (members \cup up) \ down
  IN
  /\ CollectChanges
  /\ \E updated \in {Updated(up, down)} :
       /\ wants' = [k \in Want |->
                      IF updated[k] = NotWanted THEN NotWanted
                      ELSE [updated[k] EXCEPT !.exhausted = @ \/ Exhausted(k, peers, down)]]
       /\ members' = peers
       /\ registered' = registered \cup
                          {p \in Peer : AboutPeer(p, {"block", "have"}) # {}}
       /\ streak' = [p \in Peer |-> IF Streak(p) > DontHaveLimit THEN DontHaveLimit
                                    ELSE Streak(p)]
       /\ pruning' = pruning \cup Pruned(updated)
       /\ late' = late \cup
                    {p \in Peer : /\ AboutPeer(p, {"block", "have", "dontHave"}) # {}
                                  /\ p \notin peers \cap connected}
       /\ cancels' = {k \in Want : AboutKey(k, {"cancel"}) # {}}
       /\ IF cancels' = {} THEN StartSending(updated, peers)
          ELSE stage' = "cancel" /\ UNCHANGED unsent
       /\ UNCHANGED <<receiver, swbt, presences, interest, updates, held, connected,
                      misled, spent>>

\* CancelSessionWants; then the wants are sent.
CancelSessionWants ==
  /\ stage = "cancel"
  /\ interest' = interest \ cancels
  /\ presences' = [k \in Want |-> IF k \in cancels \cap interest
                                  THEN [p \in Peer |-> "none"]
                                  ELSE presences[k]]
  /\ cancels' = {}
  /\ StartSending(wants, members)
  /\ UNCHANGED <<wants, members, receiver, streak, swbt, changes, updates, held,
                 pruning, connected, registered, late, misled, spent>>

\* ------------------------------------------------------------- sendNextWants

\* Mutant: only a peer that said HAVE can be the best one.
BestPeersHaving(w) == {p \in Peer : w.presence[p] = "have"}

\* calculateBestPeer: any peer with the best presence above DONT_HAVE.
BestPeers(w) ==
  LET having == {p \in Peer : w.presence[p] = "have"}
      unknown == {p \in Peer : w.presence[p] = "unknown"}
  IN IF having # {} THEN having ELSE unknown

\* The current receiver cannot serve the want. A peer without an entry reads
\* as DONT_HAVE.
MustReplace(w) ==
  receiver \in Peer => w.presence[receiver] \in {"none", "dontHave"}

\* One turn of the loop over the wants: a want that waits for an answer stays
\* as it is; otherwise it goes to the receiver, or to its best peer, which
\* becomes the receiver; without one it is left for later. After the last one
\* the sender is back in its main loop.
SendNextWant(k) ==
  /\ stage = "send" /\ k \in unsent
  /\ unsent' = unsent \ {k}
  /\ stage' = IF unsent' = {} THEN "idle" ELSE "send"
  /\ LET w == wants[k] IN
     \/ /\ w.sentTo = Nobody => MustReplace(w) /\ BestPeers(w) = {}
        /\ UNCHANGED <<wants, receiver, swbt>>
     \/ \E p \in IF MustReplace(w) THEN BestPeers(w) ELSE {receiver} :
          /\ w.sentTo = Nobody
          /\ receiver' = p
          /\ wants' = [wants EXCEPT ![k].sentTo = p]
          /\ swbt' = swbt \cup {<<p, k>>}
  /\ UNCHANGED <<members, streak, presences, interest, changes, updates, held,
                 pruning, connected, registered, cancels, late, misled, spent>>

\* ------------------------------------------------------------- the others

\* addChange: waits for room in the channel.
Room == Len(changes) < ChangesBufferSize
Queue(kind, p, k) ==
  /\ Room
  /\ changes' = Append(changes, [kind |-> kind, peer |-> p, key |-> k,
                                 linked |-> TRUE])

\* A signal gets into the channel. The peer is misled about when it is said to
\* be there, is not, and nothing that follows says so.
QueueSignal(kind, p) ==
  /\ Queue(kind, p, Nothing)
  /\ misled' = IF kind = "down" THEN misled \ {p}
               ELSE IF p \notin connected' /\ held'[p]["down"] = 0
               THEN misled \cup {p} ELSE misled

\* addChangeNonBlocking: without room a new goroutine holds the signal.
Signal(kind, p) ==
  \/ UNCHANGED held /\ QueueSignal(kind, p)
  \/ /\ ~Room
     /\ held' = [held EXCEPT ![p][kind] = @ + 1]
     /\ UNCHANGED <<changes, misled>>

Spend == spent < MaxChanges /\ spent' = spent + 1

Sleeping == <<wants, members, receiver, streak, swbt, registered, stage,
              cancels, unsent, late>>

NoSignal == UNCHANGED <<held, misled>>

\* Session.wantBlocks records the interest and adds the want. The session's
\* loop does nothing else before that is queued.
LoopFree == \A u \in updates : u.kind # "add"
AddWant(k) ==
  /\ Spend /\ LoopFree
  /\ interest' = interest \cup {k}
  /\ updates' = updates \cup {[kind |-> "add", peer |-> Nobody, key |-> k,
                               linked |-> TRUE]}
  /\ NoSignal
  /\ UNCHANGED <<presences, changes, pruning, connected, Sleeping>>

\* The client cancels its call.
CancelWant(k) ==
  /\ Spend /\ LoopFree /\ k \in interest
  /\ Queue("cancel", Nobody, k)
  /\ NoSignal
  /\ UNCHANGED <<presences, interest, updates, pruning, connected, Sleeping>>

\* SessionManager.ReceiveFrom notes the presence; Session.ReceiveFrom gives a
\* key of interest to a goroutine of its own.
Receive(p, k, kind) ==
  /\ Spend
  /\ IF kind = "block" THEN UNCHANGED presences ELSE Learn(p, k, kind)
  /\ updates' = IF k \in interest
                THEN updates \cup {[kind |-> kind, peer |-> p, key |-> k,
                                    linked |-> FALSE]}
                ELSE updates
  /\ NoSignal
  /\ UNCHANGED <<interest, changes, pruning, connected, Sleeping>>

\* A message of a connected peer.
ReceiveFrom(p, k, kind) == p \in connected /\ Receive(p, k, kind)

\* A FORWARD_HAVE about a peer we need not be connected to.
ReceiveForwardHave(p, k) == p \notin connected /\ Receive(p, k, "have")

\* ConnectToAddr succeeds, or fails and the update is lost. The PeerManager
\* may not have heard yet that the peer has come, or that it has gone.
Reach(u) ==
  /\ ~u.linked
  /\ updates' = (updates \ {u}) \cup {[u EXCEPT !.linked = TRUE]}
  /\ NoSignal
  /\ UNCHANGED <<presences, interest, changes, pruning, connected, spent,
                 Sleeping>>

ReachFails(u) ==
  /\ ~u.linked
  /\ updates' = updates \ {u}
  /\ NoSignal
  /\ UNCHANGED <<presences, interest, changes, pruning, connected, spent,
                 Sleeping>>

\* findMorePeers: a provider the query manager is connected to counts as a
\* HAVE, without an entry in the BlockPresenceManager.
FoundProvider(p, k) ==
  /\ Spend /\ p \in connected /\ k \in interest
  /\ updates' = updates \cup {[kind |-> "have", peer |-> p, key |-> k,
                               linked |-> TRUE]}
  /\ NoSignal
  /\ UNCHANGED <<presences, interest, changes, pruning, connected, Sleeping>>

\* A goroutine queues the change it holds.
Deliver(u) ==
  /\ u.linked
  /\ updates' = updates \ {u}
  /\ Queue(u.kind, u.peer, u.key)
  /\ NoSignal
  /\ UNCHANGED <<presences, interest, pruning, connected, spent, Sleeping>>

\* PeerManager.Connected and Disconnected with signalAvailability.
PeerConnected(p) ==
  /\ Spend /\ p \notin connected
  /\ connected' = connected \cup {p}
  /\ IF p \in registered THEN Signal("up", p)
     ELSE NoSignal /\ UNCHANGED changes
  /\ UNCHANGED <<presences, interest, updates, pruning, Sleeping>>

PeerDisconnected(p) ==
  /\ Spend /\ p \in connected
  /\ connected' = connected \ {p}
  /\ IF p \in registered THEN Signal("down", p)
     ELSE NoSignal /\ UNCHANGED changes
  /\ UNCHANGED <<presences, interest, updates, pruning, Sleeping>>

\* The pruning goroutine signals that the peer is unavailable.
Prune(p) ==
  /\ p \in pruning
  /\ pruning' = pruning \ {p}
  /\ Signal("down", p)
  /\ UNCHANGED <<presences, interest, updates, connected, spent, Sleeping>>

\* A goroutine finds room for the signal it holds. The goroutines run in any
\* order, and a signal that found room at once may be long ahead of them.
DeliverSignal(kind, p) ==
  /\ held[p][kind] > 0
  /\ held' = [held EXCEPT ![p][kind] = @ - 1]
  /\ UNCHANGED <<presences, interest, updates, pruning, connected, spent,
                 Sleeping>>
  /\ QueueSignal(kind, p)

SenderInit ==
  /\ wants = [k \in Want |-> NotWanted]
  /\ members = {} /\ receiver = Nobody /\ swbt = {}
  /\ streak = [p \in Peer |-> 0]
  /\ presences = [k \in Want |-> [p \in Peer |-> "none"]]
  /\ interest = {} /\ changes = <<>> /\ updates = {} /\ pruning = {}
  /\ held = [p \in Peer |-> [kind \in {"up", "down"} |-> 0]]
  /\ connected = Peer /\ registered = {}
  /\ stage = "idle" /\ cancels = {} /\ unsent = {}
  /\ late = {} /\ misled = {} /\ spent = 0

SenderNext ==
  \/ OnChange \/ CancelSessionWants
  \/ \E k \in Want : SendNextWant(k) \/ AddWant(k) \/ CancelWant(k)
  \/ \E p \in Peer : PeerConnected(p) \/ PeerDisconnected(p) \/ Prune(p)
                    \/ \E kind \in {"up", "down"} : DeliverSignal(kind, p)
  \/ \E p \in Peer, k \in Want :
       \/ \E kind \in {"block", "have", "dontHave"} : ReceiveFrom(p, k, kind)
       \/ ReceiveForwardHave(p, k) \/ FoundProvider(p, k)
  \/ \E u \in updates : Reach(u) \/ ReachFails(u) \/ Deliver(u)

SenderSpec == SenderInit /\ [][SenderNext]_senderVars

\* ------------------------------------------------------------- properties

Waits(k, p) == wants[k] # NotWanted /\ wants[k].sentTo = p

\* No want waits for the answer of a peer that has gone, once the signal that
\* it has gone is taken: removePeer clears sentTo "so we no longer wait". There
\* are two exceptions. A message of a peer is applied when the peer is gone or
\* no longer in the session: it comes back into the want's presences, the want
\* goes to it, and no later signal about it takes it out again. Or the channel
\* was full when the peer came back, so that a goroutine still holds the signal
\* of its coming when that of its next going is already queued.
WaitsOnPresent ==
  \A k \in Want, p \in Peer :
    Waits(k, p) => \/ p \in connected \cup late \cup misled
                   \/ AboutPeer(p, {"down"}) # {} \/ held[p]["down"] > 0

\* Between two batches, a want that waits for nobody is one that every peer of
\* the session is known not to have: no want is left behind because of the
\* receiver that other wants chose, the order of the loop, or the peers that
\* came and went within the batch.
NoWantIdles ==
  stage = "idle" =>
    \A k \in Want, p \in members :
      wants[k] # NotWanted /\ wants[k].sentTo = Nobody
        => wants[k].presence[p] = "dontHave"

\* "it sends a single optimistic want-block request to one peer": as long as
\* the client keeps the want, a want-block goes to another peer only after the
\* first one answered DONT_HAVE or left the session.
OneWantBlock ==
  [][\A k \in Want, p \in Peer :
       /\ Waits(k, p) /\ wants'[k] # NotWanted /\ wants'[k].sentTo # p
       => \/ Said(p, k, "dontHave")
          \/ AboutPeer(p, {"down"}) # {}
          \/ AboutKey(k, {"cancel"}) # {}]_wants
================================================================================
