----------------------------- MODULE SessionManager -----------------------------
(***************************************************************************)
(* Several sessions and one key: the calls of the clients (client/internal/*)
(* getter and notifications), the loop of each session and of its want     *)
(* sender as far as interest and cancels go (client/internal/session), the *)
(* interest manager (client/internal/sessioninterestmanager), the session  *)
(* manager (client/internal/sessionmanager) and the way of a block through *)
(* the client (client/client.go). Each lock or channel of the code is one  *)
(* step here; between two of them every other goroutine may run.           *)
(*                                                                         *)
(* Every session has a peer to ask, and the peer manager's state is        *)
(* whether the key is asked for at all: `asked`. A call has one key, so    *)
(* what handleIncoming cancels is that key or nothing.                     *)
(***************************************************************************)
EXTENDS Naturals, Sequences, FiniteSets

CONSTANTS
  Session,     \* the requestor sessions, by their numbers
  Call,        \* the calls of GetBlocks, in the order they are made
  Handler,     \* the goroutines that handle blocks
  MaxBlocks    \* bound: how often a block for the key comes in

ASSUME SessionsAssumption ==
  Session \subseteq Nat \ {0} /\ Call \subseteq Nat /\ MaxBlocks \in Nat

VARIABLES
  call,      \* each call: its phase and its session
  incoming,  \* s.incoming: "want", "cancel", "receive"
  recorded,  \* the sessions between RecordSessionInterest and sws.Add
  live,      \* the sessions with the key in sessionWants
  interested, \* the interest manager: "none", "wants", "interested"
  queued,    \* sws.changes: "add", "cancel", "block"
  arriving,  \* how many block updates are in goroutines, per session
  tracked,   \* the sessions whose sender has the want
  waiting,   \* the sessions whose sender sent the want and waits
  sender,    \* where each sender is: "idle", "cancel", "cancels", "send"
  asked,     \* the peer manager has asked a peer for the key
  handler,   \* each block handler
  ending,    \* how far each session is in its shutdown
  blocks,    \* how many blocks came in
  stale      \* history: the sessions told of a block that is not published

managerVars == <<call, incoming, recorded, live, interested, queued, arriving,
                 tracked, waiting, sender, asked, handler, ending, blocks,
                 stale>>

NoSession == 0

Resting == [phase |-> "none", wanted |-> FALSE, local |-> FALSE, todo |-> {}]

\* The calls of a session in a phase.
CallsOf(s, phase) == {c \in Call : call[c].session = s /\ call[c].phase = phase}

\* The loop of the session still runs.
Running(s) == ending[s] \in {"no", "closing"}

\* ------------------------------------------------------------- calls

\* A session is there from its first call on; GetNextSessionID numbers them.
Started(s) == \E c \in Call : call[c].session = s

\* GetBlocks: subscribes to the key and queues the want.
GetBlocks(c, s) ==
  /\ call[c].phase = "none" /\ ending[s] = "no"
  /\ \A d \in Call : d < c => call[d].phase # "none"
  /\ \A r \in Session : r < s => Started(r)
  /\ call' = [call EXCEPT ![c] = [phase |-> "open", session |-> s]]
  /\ incoming' = [incoming EXCEPT ![s] = Append(@, "want")]
  /\ UNCHANGED <<recorded, live, interested, queued, arriving, tracked,
                 waiting, sender, asked, handler, ending, blocks, stale>>

\* The context of the call ends before handleIncoming has taken the block, be
\* it published or not; handleIncoming queues the cancel.
CancelCall(c) ==
  LET s == call[c].session IN
  /\ call[c].phase \in {"open", "served"} /\ ending[s] = "no"
  /\ call' = [call EXCEPT ![c].phase = "cancelled"]
  /\ incoming' = [incoming EXCEPT ![s] = Append(@, "cancel")]
  /\ UNCHANGED <<recorded, live, interested, queued, arriving, tracked,
                 waiting, sender, asked, handler, ending, blocks, stale>>

\* ------------------------------------------------------------- session loop

TakeOp(s, op) ==
  /\ Running(s) /\ s \notin recorded
  /\ incoming[s] # <<>> /\ Head(incoming[s]) = op
  /\ incoming' = [incoming EXCEPT ![s] = Tail(@)]

\* wantBlocks: the interest and sessionWants first ...
WantBlocks(s) ==
  /\ TakeOp(s, "want")
  /\ interested' = [interested EXCEPT ![s] = "wants"]
  /\ live' = live \cup {s}
  /\ recorded' = recorded \cup {s}
  /\ UNCHANGED <<call, queued, arriving, tracked, waiting, sender, asked,
                 handler, ending, blocks, stale>>

\* ... then the change for the want sender.
AddToSender(s) ==
  /\ s \in recorded
  /\ recorded' = recorded \ {s}
  /\ queued' = [queued EXCEPT ![s] = Append(@, "add")]
  /\ UNCHANGED <<call, incoming, live, interested, arriving, tracked, waiting,
                 sender, asked, handler, ending, blocks, stale>>

\* opCancel: CancelPending finds nothing, as all wants of a requestor session
\* are live; the sender is told.
CancelOp(s) ==
  /\ TakeOp(s, "cancel")
  /\ queued' = [queued EXCEPT ![s] = Append(@, "cancel")]
  /\ UNCHANGED <<call, recorded, live, interested, arriving, tracked, waiting,
                 sender, asked, handler, ending, blocks, stale>>

\* handleReceive.
HandleReceive(s) ==
  /\ TakeOp(s, "receive")
  /\ live' = live \ {s}
  /\ interested' = IF s \in live /\ interested[s] = "wants"
                   THEN [interested EXCEPT ![s] = "interested"]
                   ELSE interested
  /\ UNCHANGED <<call, recorded, queued, arriving, tracked, waiting, sender,
                 asked, handler, ending, blocks, stale>>

\* ------------------------------------------------------------- want sender

\* Whether the batch tracks the key afresh, or drops it.
AddedLast(batch) ==
  \E i \in DOMAIN batch :
    batch[i] = "add" /\ \A j \in DOMAIN batch : batch[j] = "cancel" => j < i
Has(batch, kind) == \E i \in DOMAIN batch : batch[i] = kind

\* onChange: the adds and cancels in order, then the blocks. Without a cancel
\* sendNextWants follows at once.
SenderOnChange(s) ==
  LET batch == queued[s]
      cancelled == Has(batch, "cancel")
      kept == /\ ~Has(batch, "block")
              /\ AddedLast(batch) \/ (s \in tracked /\ ~cancelled)
  IN
  /\ sender[s] = "idle" /\ batch # <<>>
  /\ queued' = [queued EXCEPT ![s] = <<>>]
  /\ tracked' = IF kept THEN tracked \cup {s} ELSE tracked \ {s}
  /\ waiting' = IF kept /\ ~cancelled THEN waiting \cup {s} ELSE waiting \ {s}
  /\ asked' = (asked \/ (kept /\ ~cancelled /\ s \notin waiting))
  /\ sender' = [sender EXCEPT ![s] = IF cancelled THEN "cancel" ELSE "idle"]
  /\ UNCHANGED <<call, incoming, recorded, live, interested, arriving, handler,
                 ending, blocks, stale>>

\* Mutant: the check is made before the session is taken out.
CancelKeysEarly(s) == \A t \in Session : interested[t] = "none"

\* The key is reported as of no interest to any session any more.
CancelKeys(s) ==
  /\ interested[s] # "none"
  /\ \A t \in Session \ {s} : interested[t] = "none"

\* Mutant: the key is dropped for every session.
RemoveEverybodyInterested(s) ==
  /\ sender[s] = "cancel"
  /\ interested' = [t \in Session |-> "none"]
  /\ sender' = [sender EXCEPT ![s] = "cancels"]
  /\ UNCHANGED <<call, incoming, recorded, live, queued, arriving, tracked,
                 waiting, asked, handler, ending, blocks, stale>>

\* CancelSessionWants: RemoveSessionInterested ...
RemoveSessionInterested(s) ==
  /\ sender[s] = "cancel"
  /\ interested' = [interested EXCEPT ![s] = "none"]
  /\ sender' = [sender EXCEPT ![s] = IF CancelKeys(s) THEN "cancels" ELSE "send"]
  /\ UNCHANGED <<call, incoming, recorded, live, queued, arriving, tracked,
                 waiting, asked, handler, ending, blocks, stale>>

\* ... and the CANCELs to the peers.
SendCancels(s) ==
  /\ sender[s] = "cancels"
  /\ asked' = FALSE
  /\ sender' = [sender EXCEPT ![s] = "send"]
  /\ UNCHANGED <<call, incoming, recorded, live, interested, queued, arriving,
                 tracked, waiting, handler, ending, blocks, stale>>

\* sendNextWants after the cancels.
SendNextWants(s) ==
  /\ sender[s] = "send"
  /\ sender' = [sender EXCEPT ![s] = "idle"]
  /\ asked' = (asked \/ s \in tracked \ waiting)
  /\ waiting' = waiting \cup (tracked \cap {s})
  /\ UNCHANGED <<call, incoming, recorded, live, interested, queued, arriving,
                 tracked, handler, ending, blocks, stale>>

\* ------------------------------------------------------------- blocks

\* A block comes from a peer: SplitWantedUnwanted decides whether it is
\* published.
BlockArrives(h) ==
  /\ handler[h].phase = "none" /\ blocks < MaxBlocks
  /\ blocks' = blocks + 1
  /\ handler' = [handler EXCEPT ![h] =
       [phase |-> "split", todo |-> {}, local |-> FALSE,
        wanted |-> \E s \in Session : interested[s] = "wants"]]
  /\ UNCHANGED <<call, incoming, recorded, live, interested, queued, arriving,
                 tracked, waiting, sender, asked, ending, stale>>

\* Client.NotifyNewBlocks: the node itself has stored the block, which is
\* published in any case.
NotifyNewBlocks(h) ==
  /\ handler[h].phase = "none" /\ blocks < MaxBlocks
  /\ blocks' = blocks + 1
  /\ handler' = [handler EXCEPT ![h] = [phase |-> "split", todo |-> {},
                                       local |-> TRUE, wanted |-> TRUE]]
  /\ UNCHANGED <<call, incoming, recorded, live, interested, queued, arriving,
                 tracked, waiting, sender, asked, ending, stale>>

\* InterestedSessions.
FindSessions(h) ==
  /\ handler[h].phase = "split"
  /\ handler' = [handler EXCEPT ![h] =
       [@ EXCEPT !.phase = "sessions", !.todo = {s \in Session : interested[s] # "none"}]]
  /\ UNCHANGED <<call, incoming, recorded, live, interested, queued, arriving,
                 tracked, waiting, sender, asked, ending, blocks, stale>>

\* Session.ReceiveFrom for one session. If it is still interested, be it only
\* because it once forwarded the want, a goroutine takes the update and the
\* loop is told, unless the session closes. A block of the node's own has no
\* sender the goroutine could dial, so its update is lost.
TellSession(h, s) ==
  /\ handler[h].phase = "sessions" /\ s \in handler[h].todo
  /\ handler' = [handler EXCEPT ![h].todo = handler[h].todo \ {s}]
  /\ \/ /\ Running(s)
        /\ arriving' = [arriving EXCEPT ![s] = IF handler[h].local THEN @ ELSE @ + 1]
        /\ \/ incoming' = [incoming EXCEPT ![s] = Append(@, "receive")]
           \/ ending[s] = "closing" /\ UNCHANGED incoming
        /\ stale' = IF handler[h].wanted THEN stale ELSE stale \cup {s}
     \/ /\ interested[s] = "none" \/ ending[s] # "no"
        /\ UNCHANGED <<arriving, incoming, stale>>
  /\ UNCHANGED <<call, recorded, live, interested, queued, tracked, waiting,
                 sender, asked, ending, blocks>>

\* The goroutine's update reaches the sender, or is lost with the connection.
UpdateArrives(s) ==
  /\ arriving[s] > 0
  /\ arriving' = [arriving EXCEPT ![s] = @ - 1]
  /\ \/ queued' = [queued EXCEPT ![s] = Append(@, "block")]
     \/ UNCHANGED queued
  /\ UNCHANGED <<call, incoming, recorded, live, interested, tracked, waiting,
                 sender, asked, handler, ending, blocks, stale>>

\* SendCancels of SessionManager.ReceiveFrom.
CancelReceived(h) ==
  /\ handler[h].phase = "sessions" /\ handler[h].todo = {}
  /\ asked' = FALSE
  /\ handler' = [handler EXCEPT ![h].phase = "publish"]
  /\ UNCHANGED <<call, incoming, recorded, live, interested, queued, arriving,
                 tracked, waiting, sender, ending, blocks, stale>>

\* Publish: every call that is subscribed gets a wanted block, which it may
\* still have to take.
Publish(h) ==
  /\ handler[h].phase = "publish"
  /\ call' = [c \in Call |-> IF handler[h].wanted /\ call[c].phase = "open"
                             THEN [call[c] EXCEPT !.phase = "served"]
                             ELSE call[c]]
  /\ handler' = [handler EXCEPT ![h] = Resting]
  /\ UNCHANGED <<incoming, recorded, live, interested, queued, arriving,
                 tracked, waiting, sender, asked, ending, blocks, stale>>

\* ------------------------------------------------------------- shutdown

\* The session's context ends, and with it its calls, those with a block they
\* have not taken included, which queue their cancel or not. The loops stop
\* when they come round to it.
EndSession(s) ==
  /\ ending[s] = "no" /\ Started(s)
  /\ ending' = [ending EXCEPT ![s] = "closing"]
  /\ \E untaken \in SUBSET CallsOf(s, "served") :
       LET ended == CallsOf(s, "open") \cup untaken IN
       /\ call' = [c \in Call |-> IF c \in ended
                                  THEN [call[c] EXCEPT !.phase = "cancelled"]
                                  ELSE call[c]]
       /\ \E n \in 0..Cardinality(ended) :
            incoming' = [incoming EXCEPT ![s] = @ \o [i \in 1..n |-> "cancel"]]
  /\ UNCHANGED <<recorded, live, interested, queued, arriving, tracked,
                 waiting, sender, asked, handler, blocks, stale>>

\* handleShutdown: the loop is over, the sender is between two batches, and
\* what they were sent stays behind. RemoveSession takes the session's interest
\* out ...
RemoveSession(s) ==
  /\ ending[s] = "closing" /\ s \notin recorded /\ sender[s] = "idle"
  /\ interested' = [interested EXCEPT ![s] = "none"]
  /\ ending' = [ending EXCEPT ![s] = IF CancelKeys(s) THEN "cancels" ELSE "over"]
  /\ incoming' = [incoming EXCEPT ![s] = <<>>]
  /\ queued' = [queued EXCEPT ![s] = <<>>]
  /\ arriving' = [arriving EXCEPT ![s] = 0]
  /\ live' = live \ {s} /\ tracked' = tracked \ {s} /\ waiting' = waiting \ {s}
  /\ UNCHANGED <<call, recorded, sender, asked, handler, blocks, stale>>

\* ... and the CANCELs.
CancelsOfSession(s) ==
  /\ ending[s] = "cancels"
  /\ asked' = FALSE
  /\ ending' = [ending EXCEPT ![s] = "over"]
  /\ UNCHANGED <<call, incoming, recorded, live, interested, queued, arriving,
                 tracked, waiting, sender, handler, blocks, stale>>

ManagerInit ==
  /\ call = [c \in Call |-> [phase |-> "none", session |-> NoSession]]
  /\ incoming = [s \in Session |-> <<>>] /\ queued = [s \in Session |-> <<>>]
  /\ recorded = {} /\ live = {} /\ tracked = {} /\ waiting = {} /\ stale = {}
  /\ interested = [s \in Session |-> "none"]
  /\ arriving = [s \in Session |-> 0]
  /\ sender = [s \in Session |-> "idle"]
  /\ ending = [s \in Session |-> "no"]
  /\ asked = FALSE /\ blocks = 0
  /\ handler = [h \in Handler |-> Resting]

ManagerNext ==
  \/ \E c \in Call : CancelCall(c) \/ \E s \in Session : GetBlocks(c, s)
  \/ \E s \in Session :
       \/ WantBlocks(s) \/ AddToSender(s) \/ CancelOp(s) \/ HandleReceive(s)
       \/ SenderOnChange(s) \/ RemoveSessionInterested(s) \/ SendCancels(s)
       \/ SendNextWants(s) \/ UpdateArrives(s)
       \/ EndSession(s) \/ RemoveSession(s) \/ CancelsOfSession(s)
  \/ \E h \in Handler :
       \/ BlockArrives(h) \/ NotifyNewBlocks(h) \/ FindSessions(h)
       \/ CancelReceived(h) \/ Publish(h)
       \/ \E s \in Session : TellSession(h, s)

ManagerSpec == ManagerInit /\ [][ManagerNext]_managerVars

\* ------------------------------------------------------------- properties

CancelOnItsWay ==
  \/ \E s \in Session : sender[s] = "cancels" \/ ending[s] = "cancels"
  \/ \E h \in Handler : handler[h].phase \in {"split", "sessions"}

\* Two calls of the session were about the key, and one of them was cancelled.
Overlapped(s) ==
  \E c \in CallsOf(s, "cancelled"), d \in Call : d # c /\ call[d].session = s

\* A peer is asked for the key only as long as some session is interested in
\* it or the CANCEL is on its way: no call, block or shutdown of any session
\* leaves a want behind at the peers. The exception is a session of which one
\* call cancels the key that another wants: the want is sent without the
\* interest, so nothing cancels it, not even RemoveSession.
AsksAreWanted ==
  asked => \/ CancelOnItsWay
           \/ \E s \in Session : interested[s] # "none" \/ Overlapped(s)

\* The want of an open call is in the interest manager, or it is on its way
\* there, or a block is about to be published to the call.
Heard(c) ==
  LET s == call[c].session IN
  \/ interested[s] = "wants" \/ Has(incoming[s], "want")
  \/ \E h \in Handler : handler[h].phase # "none" /\ handler[h].wanted

\* "returns a channel that found blocks will be returned on": as long as a
\* call is open, a block for it is not taken for unwanted.
RequestsStayOpen ==
  \A c \in Call : call[c].phase = "open" => Heard(c)

\* An open call loses its interest in two cases only: another call of its
\* session cancels the same key, or its session is told of a duplicate block
\* that was found unwanted before its want was recorded, and takes that for
\* the answer.
InterestKept ==
  \A c \in Call : call[c].phase = "open" =>
    Heard(c) \/ Overlapped(call[c].session) \/ call[c].session \in stale
================================================================================
