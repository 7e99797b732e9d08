---------------------------- MODULE ClientProofs ----------------------------
(***************************************************************************)
(* Proofs about the two ends of the client's way of a want.  The session   *)
(* manager, for any sessions, calls and handlers: what is asked for is     *)
(* wanted by somebody, and a block that arrives still finds the interest   *)
(* of the sessions that wait for it.  The message queue of a peer, for any *)
(* keys, providers and delays: no wakeup of runQueue is lost, its timer is *)
(* never waited for in vain, and what the queue records as sent agrees     *)
(* with what the peer was told.                                            *)
(***************************************************************************)
EXTENDS SessionManager, MessageQueue, TLAPS

(* The session manager: its inductive invariant.                           *)

\* The values of the manager's variables.
ManagerTypeOK ==
    /\ call \in [Call -> [phase : {"none", "open", "cancelled", "served"},
                          session : Session \cup {NoSession}]]
    /\ incoming \in [Session -> Seq({"want", "cancel", "receive"})]
    /\ queued \in [Session -> Seq({"add", "cancel", "block"})]
    /\ recorded \in SUBSET Session /\ live \in SUBSET Session
    /\ tracked \in SUBSET Session /\ waiting \in SUBSET Session /\ stale \in SUBSET Session
    /\ interested \in [Session -> {"none", "wants", "interested"}]
    /\ arriving \in [Session -> Nat]
    /\ sender \in [Session -> {"idle", "cancel", "cancels", "send"}]
    /\ ending \in [Session -> {"no", "closing", "cancels", "over"}]
    /\ asked \in BOOLEAN /\ blocks \in Nat
    /\ handler \in [Handler -> [phase : {"none", "split", "sessions", "publish"},
                                wanted : BOOLEAN, local : BOOLEAN, todo : SUBSET Session]]

\* A call has a session from its start on, and is open while the session is.
CallsOK ==
    \A c \in Call :
        /\ call[c].phase = "none" => call[c].session = NoSession
        /\ call[c].phase # "none" => call[c].session \in Session
        /\ call[c].phase = "open" => ending[call[c].session] = "no"

\* A cancel comes from a cancelled call.
CancelKnown(s) ==
    Has(incoming[s], "cancel") \/ Has(queued[s], "cancel") \/ sender[s] # "idle"
    => CallsOf(s, "cancelled") # {}

\* Of every session.
CancelsOK == \A s \in Session : CancelKnown(s)

\* No x comes after a y in the queue.
NoneAfter(q, x, y) == \A i \in DOMAIN q, j \in DOMAIN q : i < j /\ q[i] = y => q[j] # x

\* The want of a session with one call is ahead of its cancel on every way, and
\* the interest is there until the cancel has passed the sender.
InOrder(s) ==
    /\ NoneAfter(incoming[s], "want", "cancel")
    /\ NoneAfter(queued[s], "add", "cancel")
    /\ Has(queued[s], "cancel") \/ sender[s] # "idle" =>
          ~Has(incoming[s], "want") /\ s \notin recorded
    /\ sender[s] # "idle" \/ interested[s] = "none" =>
          s \notin tracked \cup recorded /\ ~Has(queued[s], "add")

\* Two calls of a session may cross; the order is promised when there is one.
Ordered(s) == Overlapped(s) \/ InOrder(s)

\* Of every session.
OrderOK == \A s \in Session : Ordered(s)

\* A want is queued, and no answer behind it.
WantLast(q) ==
    \E i \in DOMAIN q : q[i] = "want" /\ \A j \in DOMAIN q : i < j => q[j] # "receive"

\* Some handler found the block wanted, and will publish it.
Published == \E h \in Handler : handler[h].phase # "none" /\ handler[h].wanted

\* An answer in the queue of the session's loop is older than the want of the
\* open call, or its handler has yet to publish the block.
Kept(s) ==
    \/ Overlapped(s) \/ s \in stale \/ Published \/ WantLast(incoming[s])
    \/ interested[s] = "wants" /\ ~Has(incoming[s], "receive")

\* The session of an open call still has its interest.
KeptOK == \A c \in Call : call[c].phase = "open" => Kept(call[c].session)

\* The inductive invariant.
ManagerInv ==
    /\ ManagerTypeOK /\ CallsOK /\ CancelsOK /\ OrderOK /\ KeptOK /\ AsksAreWanted

-----------------------------------------------------------------------------
(* Queues.                                                                 *)

\* A new entry is the last one.
LEMMA AppendFacts ==
    ASSUME NEW S, NEW q \in Seq(S), NEW x \in S
    PROVE  /\ Append(q, x) \in Seq(S)
           /\ \A y : Has(Append(q, x), y) <=> Has(q, y) \/ x = y
           /\ \A y, z : NoneAfter(q, y, z) /\ (x # y \/ ~Has(q, z)) =>
                           NoneAfter(Append(q, x), y, z)
           /\ WantLast(q) /\ x # "receive" => WantLast(Append(q, x))
           /\ x = "want" => WantLast(Append(q, x))
<1>1. /\ Append(q, x) \in Seq(S) /\ Len(q) \in Nat /\ DOMAIN q = 1..Len(q)
      /\ DOMAIN Append(q, x) = 1..(Len(q) + 1)
      /\ Append(q, x)[Len(q) + 1] = x
      /\ \A i \in 1..Len(q) : Append(q, x)[i] = q[i]
  OBVIOUS
<1>2. \A y : Has(Append(q, x), y) <=> Has(q, y) \/ x = y
  BY <1>1 DEF Has
<1>3. \A y, z : NoneAfter(q, y, z) /\ (x # y \/ ~Has(q, z)) => NoneAfter(Append(q, x), y, z)
  BY <1>1 DEF Has, NoneAfter
<1>4. WantLast(q) /\ x # "receive" => WantLast(Append(q, x))
  BY <1>1 DEF WantLast
<1>5. x = "want" => WantLast(Append(q, x))
  BY <1>1 DEF WantLast
<1> QED
  BY <1>1, <1>2, <1>3, <1>4, <1>5, Zenon

\* The first entry is taken.
LEMMA TailFacts ==
    ASSUME NEW S, NEW q \in Seq(S), q # <<>>
    PROVE  /\ Tail(q) \in Seq(S) /\ Head(q) \in S
           /\ \A y : Has(q, y) <=> Head(q) = y \/ Has(Tail(q), y)
           /\ \A y, z : NoneAfter(q, y, z) =>
                           NoneAfter(Tail(q), y, z) /\ (Head(q) = z => ~Has(Tail(q), y))
           /\ WantLast(q) =>
                 WantLast(Tail(q)) \/ (Head(q) = "want" /\ ~Has(Tail(q), "receive"))
<1>1. /\ Tail(q) \in Seq(S) /\ Head(q) \in S /\ Len(q) \in Nat \ {0}
      /\ DOMAIN q = 1..Len(q) /\ Head(q) = q[1]
      /\ DOMAIN Tail(q) = 1..(Len(q) - 1)
      /\ \A i \in 1..(Len(q) - 1) : Tail(q)[i] = q[i + 1]
  OBVIOUS
<1>2. \A i \in 2..Len(q) : i - 1 \in 1..(Len(q) - 1) /\ Tail(q)[i - 1] = q[i]
  BY <1>1
<1>3. \A y : Has(q, y) <=> Head(q) = y \/ Has(Tail(q), y)
  <2> TAKE y
  <2>1. ASSUME NEW i \in DOMAIN q, q[i] = y, i # 1 PROVE Has(Tail(q), y)
    <3>1. i - 1 \in DOMAIN Tail(q) /\ Tail(q)[i - 1] = y
      BY <1>1, <1>2, <2>1
    <3> QED
      BY <3>1, Zenon DEF Has
  <2>2. ASSUME NEW i \in DOMAIN Tail(q), Tail(q)[i] = y PROVE Has(q, y)
    BY <1>1, <2>2 DEF Has
  <2> QED
    BY <1>1, <2>1, <2>2 DEF Has
<1>4. ASSUME NEW y, NEW z, NoneAfter(q, y, z)
      PROVE  NoneAfter(Tail(q), y, z) /\ (Head(q) = z => ~Has(Tail(q), y))
  BY <1>1, <1>4 DEF Has, NoneAfter
<1>5. ASSUME WantLast(q)
      PROVE  WantLast(Tail(q)) \/ (Head(q) = "want" /\ ~Has(Tail(q), "receive"))
  <2>1. PICK i \in DOMAIN q : q[i] = "want" /\ \A j \in DOMAIN q : i < j => q[j] # "receive"
    BY <1>5, Zenon DEF WantLast
  <2>2. CASE i = 1
    BY <1>1, <2>1, <2>2 DEF Has
  <2>3. CASE i # 1
    <3>1. i - 1 \in DOMAIN Tail(q) /\ Tail(q)[i - 1] = "want"
      BY <1>1, <1>2, <2>1, <2>3
    <3>2. \A j \in DOMAIN Tail(q) : i - 1 < j => Tail(q)[j] # "receive"
      BY <1>1, <2>1
    <3> QED
      BY <3>1, <3>2, Zenon DEF WantLast
  <2> QED
    BY <2>2, <2>3, Zenon
<1> QED
  BY <1>1, <1>3, <1>4, <1>5, Zenon

\* The calls that end with their session queue cancels.
LEMMA CancelFacts ==
    ASSUME NEW S, "cancel" \in S, NEW q \in Seq(S), NEW n \in Nat
    PROVE  LET p == q \o [i \in 1..n |-> "cancel"] IN
           /\ p \in Seq(S)
           /\ \A y : Has(p, y) => Has(q, y) \/ (n > 0 /\ y = "cancel")
           /\ NoneAfter(q, "want", "cancel") => NoneAfter(p, "want", "cancel")
<1> DEFINE r == [i \in 1..n |-> "cancel"]
<1> DEFINE p == q \o r
<1>1. r \in Seq(S) /\ Len(r) = n /\ \A i \in 1..n : r[i] = "cancel"
  OBVIOUS
<1> HIDE DEF r
<1>2. /\ p \in Seq(S) /\ Len(q) \in Nat /\ DOMAIN q = 1..Len(q) /\ DOMAIN p = 1..(Len(q) + n)
      /\ \A i \in 1..Len(q) : p[i] = q[i]
      /\ \A i \in (Len(q) + 1)..(Len(q) + n) : p[i] = "cancel"
  BY <1>1
<1> HIDE DEF p
<1>3. \A y : Has(p, y) => Has(q, y) \/ (n > 0 /\ y = "cancel")
  BY <1>2 DEF Has
<1>4. NoneAfter(q, "want", "cancel") => NoneAfter(p, "want", "cancel")
  BY <1>2 DEF NoneAfter
<1> QED
  BY <1>2, <1>3, <1>4, Zenon DEF p, r

\* An empty queue has no entry.
LEMMA EmptyFacts == \A y, z : ~Has(<<>>, y) /\ NoneAfter(<<>>, y, z)
  BY DEF Has, NoneAfter

-----------------------------------------------------------------------------
(* Types.                                                                  *)

\* The records of the calls and of the handlers.
Calls == [phase : {"none", "open", "cancelled", "served"}, session : Session \cup {NoSession}]
Handlers == [phase : {"none", "split", "sessions", "publish"}, wanted : BOOLEAN,
             local : BOOLEAN, todo : SUBSET Session]

\* The steps of the calls, which end or begin one.
LEMMA CallTypes ==
    ASSUME ManagerTypeOK, ManagerNext
    PROVE  call' \in [Call -> Calls]
<1>1. call \in [Call -> Calls]
  BY Zenon DEF ManagerTypeOK, Calls
<1>2. \A r \in Calls : [r EXCEPT !.phase = "cancelled"] \in Calls
                       /\ [r EXCEPT !.phase = "served"] \in Calls
  BY Zenon DEF Calls
<1>3. ASSUME NEW c \in Call, CancelCall(c) PROVE call' \in [Call -> Calls]
  BY <1>1, <1>2, <1>3, Zenon DEF CancelCall
<1>4. ASSUME NEW c \in Call, NEW s \in Session, GetBlocks(c, s) PROVE call' \in [Call -> Calls]
  BY <1>1, <1>4, Zenon DEF GetBlocks, Calls
<1>5. ASSUME NEW h \in Handler, Publish(h) PROVE call' \in [Call -> Calls]
  BY <1>1, <1>2, <1>5, Zenon DEF Publish
<1>6. ASSUME NEW s \in Session, EndSession(s) PROVE call' \in [Call -> Calls]
  BY <1>1, <1>2, <1>6, Zenon DEF EndSession
<1>7. CASE UNCHANGED call
  BY <1>1, <1>7, Zenon
<1> QED
  BY <1>3, <1>4, <1>5, <1>6, <1>7, Zenon DEF ManagerNext, WantBlocks, AddToSender, CancelOp,
     HandleReceive, SenderOnChange, RemoveSessionInterested, SendCancels, SendNextWants,
     UpdateArrives, RemoveSession, CancelsOfSession, BlockArrives, NotifyNewBlocks,
     FindSessions, CancelReceived, TellSession

\* The steps of the handlers.
LEMMA HandlerTypes ==
    ASSUME ManagerTypeOK, ManagerNext
    PROVE  handler' \in [Handler -> Handlers]
<1>1. handler \in [Handler -> Handlers]
  BY Zenon DEF ManagerTypeOK, Handlers
<1>0. \A w \in BOOLEAN, l \in BOOLEAN :
        /\ [phase |-> "split", todo |-> {}, local |-> l, wanted |-> w] \in Handlers
        /\ [phase |-> "none", wanted |-> w, local |-> l, todo |-> {}] \in Handlers
  BY Zenon DEF Handlers
<1>2. ASSUME NEW h \in Handler, BlockArrives(h) \/ NotifyNewBlocks(h)
      PROVE  handler' \in [Handler -> Handlers]
  <2>1. \E w \in BOOLEAN, l \in BOOLEAN :
          handler' = [handler EXCEPT ![h] =
                        [phase |-> "split", todo |-> {}, local |-> l, wanted |-> w]]
    BY <1>2, Zenon DEF BlockArrives, NotifyNewBlocks
  <2> QED
    BY <1>0, <1>1, <2>1, Zenon
<1>3. ASSUME NEW h \in Handler, FindSessions(h) PROVE handler' \in [Handler -> Handlers]
  BY <1>1, <1>3, Zenon DEF FindSessions, Handlers
<1>4. ASSUME NEW h \in Handler, NEW s \in Session, TellSession(h, s) PROVE handler' \in [Handler -> Handlers]
  BY <1>1, <1>4 DEF TellSession, Handlers
<1>5. ASSUME NEW h \in Handler, CancelReceived(h) PROVE handler' \in [Handler -> Handlers]
  BY <1>1, <1>5 DEF CancelReceived, Handlers
<1>7. ASSUME NEW h \in Handler, Publish(h) PROVE handler' \in [Handler -> Handlers]
  <2>1. Resting \in Handlers
    BY <1>0, Zenon DEF Resting
  <2> QED
    BY <1>1, <1>7, <2>1, Zenon DEF Publish
<1>6. CASE UNCHANGED handler
  BY <1>1, <1>6, Zenon
<1> QED
  BY <1>2, <1>3, <1>4, <1>5, <1>6, <1>7, Zenon DEF ManagerNext, CancelCall, GetBlocks, WantBlocks,
     AddToSender, CancelOp, HandleReceive, SenderOnChange, RemoveSessionInterested, SendCancels,
     SendNextWants, UpdateArrives, EndSession, RemoveSession, CancelsOfSession

\* What there is for each session.
SessionTypes ==
    /\ incoming \in [Session -> Seq({"want", "cancel", "receive"})]
    /\ queued \in [Session -> Seq({"add", "cancel", "block"})]
    /\ recorded \in SUBSET Session /\ live \in SUBSET Session
    /\ tracked \in SUBSET Session /\ waiting \in SUBSET Session /\ stale \in SUBSET Session
    /\ interested \in [Session -> {"none", "wants", "interested"}]
    /\ arriving \in [Session -> Nat]
    /\ sender \in [Session -> {"idle", "cancel", "cancels", "send"}]
    /\ ending \in [Session -> {"no", "closing", "cancels", "over"}]
    /\ blocks \in Nat

\* Every variable keeps its type.
LEMMA ManagerTypeStep ==
    ASSUME ManagerTypeOK, CallsOK, ManagerNext
    PROVE  ManagerTypeOK'
<1>1. SessionTypes
  BY Zenon DEF ManagerTypeOK, SessionTypes
<1>2. \A s \in Session : /\ incoming[s] \in Seq({"want", "cancel", "receive"})
                         /\ queued[s] \in Seq({"add", "cancel", "block"})
  BY <1>1, Zenon DEF SessionTypes
<1>3. /\ \A s \in Session, x \in {"want", "cancel", "receive"} :
            Append(incoming[s], x) \in Seq({"want", "cancel", "receive"})
      /\ \A s \in Session, x \in {"add", "cancel", "block"} :
            Append(queued[s], x) \in Seq({"add", "cancel", "block"})
  BY <1>2
<1>17. ASSUME NEW s \in Session, NEW x \in {"want", "cancel", "receive"}
       PROVE  [incoming EXCEPT ![s] = Append(incoming[s], x)]
                \in [Session -> Seq({"want", "cancel", "receive"})]
  BY <1>1, <1>3, Zenon DEF SessionTypes
<1>18. ASSUME NEW s \in Session, NEW x \in {"add", "cancel", "block"}
       PROVE  [queued EXCEPT ![s] = Append(queued[s], x)] \in [Session -> Seq({"add", "cancel", "block"})]
  BY <1>1, <1>3, Zenon DEF SessionTypes
<1>19. ASSUME NEW s \in Session
       PROVE  /\ [arriving EXCEPT ![s] = arriving[s] + 1] \in [Session -> Nat]
              /\ [arriving EXCEPT ![s] = arriving[s]] \in [Session -> Nat]
              /\ arriving[s] > 0 => [arriving EXCEPT ![s] = arriving[s] - 1] \in [Session -> Nat]
  BY <1>1 DEF SessionTypes
<1>4. \A s \in Session : incoming[s] # <<>> => Tail(incoming[s]) \in Seq({"want", "cancel", "receive"})
  BY <1>2
<1>5. ASSUME NEW c \in Call, NEW s \in Session, GetBlocks(c, s) PROVE SessionTypes'
  BY <1>1, <1>3, <1>5, Zenon DEF SessionTypes, GetBlocks
<1>6. ASSUME NEW c \in Call, CancelCall(c), call[c].session \in Session PROVE SessionTypes'
  BY <1>1, <1>3, <1>6, Zenon DEF SessionTypes, CancelCall
<1>7. ASSUME NEW s \in Session, WantBlocks(s) \/ CancelOp(s) \/ HandleReceive(s) PROVE SessionTypes'
  <2>1. incoming' \in [Session -> Seq({"want", "cancel", "receive"})]
    <3>1. incoming[s] # <<>> /\ incoming' = [incoming EXCEPT ![s] = Tail(incoming[s])]
      BY <1>7, Zenon DEF WantBlocks, CancelOp, HandleReceive, TakeOp
    <3> QED
      BY <1>1, <1>4, <3>1, Zenon DEF SessionTypes
  <2>2. CASE WantBlocks(s)
    BY <1>1, <2>1, <2>2, Zenon DEF SessionTypes, WantBlocks
  <2>3. CASE CancelOp(s)
    BY <1>1, <1>18, <2>1, <2>3, Zenon DEF SessionTypes, CancelOp
  <2>4. CASE HandleReceive(s)
    BY <1>1, <2>1, <2>4, Zenon DEF SessionTypes, HandleReceive
  <2> QED
    BY <1>7, <2>2, <2>3, <2>4, Zenon
<1>8. ASSUME NEW s \in Session, AddToSender(s) \/ UpdateArrives(s) PROVE SessionTypes'
  <2>1. CASE AddToSender(s)
    BY <1>1, <1>18, <2>1, Zenon DEF SessionTypes, AddToSender
  <2>2. CASE UpdateArrives(s)
    <3>1. \/ queued' = queued
          \/ queued' = [queued EXCEPT ![s] = Append(queued[s], "block")]
      BY <2>2, Zenon DEF UpdateArrives
    <3>4. [queued EXCEPT ![s] = Append(queued[s], "block")]
             \in [Session -> Seq({"add", "cancel", "block"})]
      BY <1>18, Zenon
    <3>2. queued' \in [Session -> Seq({"add", "cancel", "block"})]
      BY <1>1, <3>1, <3>4, Zenon DEF SessionTypes
    <3>3. arriving' \in [Session -> Nat]
      BY <1>19, <2>2, Zenon DEF UpdateArrives
    <3> QED
      BY <1>1, <2>2, <3>2, <3>3, Zenon DEF SessionTypes, UpdateArrives
  <2> QED
    BY <1>8, <2>1, <2>2, Zenon
<1>9. ASSUME NEW s \in Session,
             RemoveSessionInterested(s) \/ SendCancels(s) \/ SendNextWants(s) \/ CancelsOfSession(s)
      PROVE  SessionTypes'
  <2>1. CASE RemoveSessionInterested(s)
    BY <1>1, <2>1, Zenon DEF SessionTypes, RemoveSessionInterested
  <2>2. CASE SendCancels(s) \/ SendNextWants(s)
    BY <1>1, <2>2, Zenon DEF SessionTypes, SendCancels, SendNextWants
  <2>3. CASE CancelsOfSession(s)
    BY <1>1, <2>3, Zenon DEF SessionTypes, CancelsOfSession
  <2> QED
    BY <1>9, <2>1, <2>2, <2>3, Zenon
<1>10. ASSUME NEW s \in Session, SenderOnChange(s) PROVE SessionTypes'
  <2>1. /\ queued' = [queued EXCEPT ![s] = <<>>]
        /\ tracked' = tracked \cup {s} \/ tracked' = tracked \ {s}
        /\ waiting' = waiting \cup {s} \/ waiting' = waiting \ {s}
        /\ \E x \in {"idle", "cancel"} : sender' = [sender EXCEPT ![s] = x]
        /\ UNCHANGED <<incoming, recorded, live, interested, arriving, ending, blocks, stale>>
    BY <1>10, Zenon DEF SenderOnChange
  <2> QED
    BY <1>1, <2>1 DEF SessionTypes
<1>11. ASSUME NEW s \in Session, RemoveSession(s) PROVE SessionTypes'
  BY <1>1, <1>11 DEF SessionTypes, RemoveSession
<1>12. ASSUME NEW s \in Session, EndSession(s) PROVE SessionTypes'
  <2>1. PICK ended : \E n \in 0..Cardinality(ended) :
           incoming' = [incoming EXCEPT ![s] = incoming[s] \o [i \in 1..n |-> "cancel"]]
    BY <1>12, Zenon DEF EndSession
  <2>5. PICK n \in 0..Cardinality(ended) :
           incoming' = [incoming EXCEPT ![s] = incoming[s] \o [i \in 1..n |-> "cancel"]]
    BY <2>1, Zenon
  <2>2. incoming[s] \o [i \in 1..n |-> "cancel"] \in Seq({"want", "cancel", "receive"})
    BY <1>2, CancelFacts
  <2>3. /\ ending' = [ending EXCEPT ![s] = "closing"]
        /\ UNCHANGED <<recorded, live, interested, queued, arriving, tracked, waiting, sender,
                       blocks, stale>>
    BY <1>12, Zenon DEF EndSession
  <2>4. incoming' \in [Session -> Seq({"want", "cancel", "receive"})]
    BY <1>1, <2>2, <2>5, Zenon DEF SessionTypes
  <2> QED
    BY <1>1, <2>3, <2>4, Zenon DEF SessionTypes
<1>13. ASSUME NEW h \in Handler, NEW s \in Session, TellSession(h, s) PROVE SessionTypes'
  <2>1. /\ UNCHANGED <<recorded, live, interested, queued, tracked, waiting, sender, ending, blocks>>
        /\ stale' \in {stale, stale \cup {s}}
    BY <1>13, Zenon DEF TellSession
  <2>2. \/ incoming' = incoming
        \/ incoming' = [incoming EXCEPT ![s] = Append(incoming[s], "receive")]
    BY <1>13, Zenon DEF TellSession
  <2>3. \/ arriving' = arriving
        \/ arriving' = [arriving EXCEPT ![s] = arriving[s]]
        \/ arriving' = [arriving EXCEPT ![s] = arriving[s] + 1]
    BY <1>13, Zenon DEF TellSession
  <2>6. [incoming EXCEPT ![s] = Append(incoming[s], "receive")]
           \in [Session -> Seq({"want", "cancel", "receive"})]
    BY <1>17, Zenon
  <2>4. incoming' \in [Session -> Seq({"want", "cancel", "receive"})]
    BY <1>1, <2>2, <2>6, Zenon DEF SessionTypes
  <2>5. arriving' \in [Session -> Nat]
    BY <1>1, <1>19, <2>3 DEF SessionTypes
  <2> QED
    BY <1>1, <2>1, <2>4, <2>5, Zenon DEF SessionTypes
<1>14. ASSUME NEW h \in Handler,
              \/ BlockArrives(h) \/ NotifyNewBlocks(h) \/ FindSessions(h) \/ CancelReceived(h)
              \/ Publish(h)
       PROVE  SessionTypes'
  <2>1. /\ blocks' \in {blocks, blocks + 1}
        /\ UNCHANGED <<incoming, recorded, live, interested, queued, arriving, tracked, waiting,
                       sender, ending, stale>>
    BY <1>14, Zenon DEF BlockArrives, NotifyNewBlocks, FindSessions, CancelReceived, Publish
  <2> QED
    BY <1>1, <2>1 DEF SessionTypes
<1>20. \A c \in Call : CancelCall(c) => call[c].session \in Session
  <2>1. \A x : x \in {"open", "served"} => x # "none"
    OBVIOUS
  <2> QED
    BY <2>1, Zenon DEF CancelCall, CallsOK
<1>15. SessionTypes'
  BY <1>20, <1>5, <1>6, <1>7, <1>8, <1>9, <1>10, <1>11, <1>12, <1>13, <1>14, ZenonT(60)
     DEF ManagerNext
<1>16. asked' \in BOOLEAN
  BY Zenon DEF ManagerTypeOK, ManagerNext, CancelCall, GetBlocks, WantBlocks, AddToSender,
     CancelOp, HandleReceive, SenderOnChange, RemoveSessionInterested, SendCancels,
     SendNextWants, UpdateArrives, EndSession, RemoveSession, CancelsOfSession, BlockArrives,
     NotifyNewBlocks, FindSessions, CancelReceived, Publish, TellSession
<1> QED
  BY <1>15, <1>16, CallTypes, HandlerTypes, Zenon DEF ManagerTypeOK, SessionTypes, Calls, Handlers

-----------------------------------------------------------------------------
(* Calls.                                                                  *)

\* A call begins with GetBlocks, and ends for good; a session that nobody ends
\* goes on.
LEMMA CallMoves ==
    ASSUME ManagerTypeOK, CallsOK, ManagerNext, NEW c \in Call
    PROVE  /\ call[c].phase \notin {"none", "open", "served"} => call'[c] = call[c]
           /\ call[c].phase = "served" =>
                 call'[c].session = call[c].session /\ call'[c].phase \in {"served", "cancelled"}
           /\ call[c].phase = "open" =>
                 /\ call'[c].session = call[c].session
                 /\ call'[c].phase # "open" => call'[c].phase \in {"cancelled", "served"}
           /\ call[c].phase = "none" =>
                 \/ call'[c] = call[c]
                 \/ \E s \in Session : GetBlocks(c, s) /\ call'[c] = [phase |-> "open", session |-> s]
<1>1. call \in [Call -> Calls]
  BY Zenon DEF ManagerTypeOK, Calls
<1>2. \A r \in Calls, x \in {"cancelled", "served"} :
        [r EXCEPT !.phase = x].session = r.session /\ [r EXCEPT !.phase = x].phase = x
  BY Zenon DEF Calls
<1>3. CASE \E d \in Call : CancelCall(d)
  <2>1. PICK d \in Call : CancelCall(d)
    BY <1>3, Zenon
  <2>2. call[d].phase \in {"open", "served"} /\ call' = [call EXCEPT ![d] = [call[d] EXCEPT !.phase = "cancelled"]]
    BY <2>1, Zenon DEF CancelCall
  <2> QED
    BY <1>1, <1>2, <2>2
<1>4. CASE \E d \in Call, s \in Session : GetBlocks(d, s)
  <2>1. PICK d \in Call, s \in Session : GetBlocks(d, s)
    BY <1>4, Zenon
  <2>2. call[d].phase = "none" /\ call' = [call EXCEPT ![d] = [phase |-> "open", session |-> s]]
    BY <2>1, Zenon DEF GetBlocks
  <2>3. CASE c = d
    BY <1>1, <2>1, <2>2, <2>3, Zenon
  <2>4. CASE c # d
    BY <1>1, <2>2, <2>4, Zenon
  <2> QED
    BY <2>3, <2>4, Zenon
<1>5. CASE \E h \in Handler : Publish(h)
  <2>1. \/ call'[c] = call[c]
        \/ call[c].phase = "open" /\ call'[c] = [call[c] EXCEPT !.phase = "served"]
    BY <1>5, ZenonT(60) DEF Publish
  <2> QED
    BY <1>1, <1>2, <2>1, ZenonT(60)
<1>6. CASE \E s \in Session : EndSession(s)
  <2>1. \/ call'[c] = call[c]
        \/ /\ call[c].phase \in {"open", "served"}
           /\ call'[c] = [call[c] EXCEPT !.phase = "cancelled"]
    <3>1. PICK s \in Session : EndSession(s)
      BY <1>6, Zenon
    <3>2. PICK untaken \in SUBSET CallsOf(s, "served") :
            call' = [d \in Call |-> IF d \in CallsOf(s, "open") \cup untaken
                                    THEN [call[d] EXCEPT !.phase = "cancelled"]
                                    ELSE call[d]]
      BY <3>1, Zenon DEF EndSession
    <3>3. c \in CallsOf(s, "open") \cup untaken => call[c].phase \in {"open", "served"}
      BY Zenon DEF CallsOf
    <3> QED
      BY <3>2, <3>3, Zenon
  <2>2. CASE call'[c] = call[c]
    BY <2>2
  <2>3. CASE /\ call[c].phase \in {"open", "served"}
             /\ call'[c] = [call[c] EXCEPT !.phase = "cancelled"]
    <3>1. call'[c].session = call[c].session /\ call'[c].phase = "cancelled"
      BY <1>1, <1>2, <2>3, Zenon
    <3> QED
      BY <2>3, <3>1, Zenon
  <2> QED
    BY <2>1, <2>2, <2>3, Zenon
<1>7. CASE UNCHANGED call
  BY <1>7, Zenon
<1> QED
  BY <1>3, <1>4, <1>5, <1>6, <1>7, Zenon DEF ManagerNext, WantBlocks, AddToSender, CancelOp,
     HandleReceive, SenderOnChange, RemoveSessionInterested, SendCancels, SendNextWants,
     UpdateArrives, RemoveSession, CancelsOfSession, BlockArrives, NotifyNewBlocks,
     FindSessions, CancelReceived, TellSession

\* A session goes on until EndSession.
LEMMA EndingKept ==
    ASSUME ManagerTypeOK, ManagerNext, NEW s \in Session, ending[s] = "no", ~EndSession(s)
    PROVE  ending'[s] = "no"
<1>1. ending \in [Session -> {"no", "closing", "cancels", "over"}]
  BY Zenon DEF ManagerTypeOK
<1>2. ASSUME NEW t \in Session, EndSession(t) \/ RemoveSession(t) \/ CancelsOfSession(t)
      PROVE  ending'[s] = "no"
  <2>1. s # t
    BY <1>2, Zenon DEF RemoveSession, CancelsOfSession
  <2>2. \E x : ending' = [ending EXCEPT ![t] = x]
    BY <1>2, Zenon DEF EndSession, RemoveSession, CancelsOfSession
  <2> QED
    BY <1>1, <2>1, <2>2, Zenon
<1>3. CASE UNCHANGED ending
  BY <1>3, Zenon
<1> QED
  BY <1>2, <1>3, Zenon DEF ManagerNext, CancelCall, GetBlocks, WantBlocks, AddToSender, CancelOp,
     HandleReceive, SenderOnChange, RemoveSessionInterested, SendCancels, SendNextWants,
     UpdateArrives, BlockArrives, NotifyNewBlocks, FindSessions, CancelReceived, Publish,
     TellSession

\* The calls of a session that ends are over.
LEMMA CallsStep ==
    ASSUME ManagerTypeOK, CallsOK, ManagerNext
    PROVE  CallsOK'
<1> SUFFICES ASSUME NEW c \in Call
             PROVE  /\ call'[c].phase = "none" => call'[c].session = NoSession
                    /\ call'[c].phase # "none" => call'[c].session \in Session
                    /\ call'[c].phase = "open" => ending'[call'[c].session] = "no"
  BY Zenon DEF CallsOK
<1>1. CASE call[c].phase = "none" /\ call'[c] # call[c]
  <2>1. PICK s \in Session : GetBlocks(c, s) /\ call'[c] = [phase |-> "open", session |-> s]
    BY <1>1, CallMoves, Zenon
  <2>2. call'[c].phase = "open" /\ call'[c].session = s /\ "open" # "none"
    BY <2>1
  <2>3. ending'[s] = "no"
    BY <2>1, Zenon DEF GetBlocks
  <2> QED
    BY <2>2, <2>3, Zenon
<1>2. CASE call[c].phase = "open"
  <2> SUFFICES ASSUME call'[c].phase = "open" PROVE ending'[call[c].session] = "no"
    <3>1. /\ call'[c].session = call[c].session /\ call[c].phase # "none"
          /\ call'[c].phase # "none"
      BY <1>2, CallMoves
    <3> QED
      BY <3>1, Zenon DEF CallsOK
  <2>1. call[c].session \in Session /\ ending[call[c].session] = "no"
    <3>1. call[c].phase # "none"
      BY <1>2
    <3> QED
      BY <1>2, <3>1, Zenon DEF CallsOK
  <2>2. ~EndSession(call[c].session)
    <3> SUFFICES ASSUME EndSession(call[c].session) PROVE FALSE
      OBVIOUS
    <3>1. call[c] \in Calls /\ c \in CallsOf(call[c].session, "open")
      BY <1>2, Zenon DEF CallsOf, ManagerTypeOK, Calls
    <3>2. call'[c] = [call[c] EXCEPT !.phase = "cancelled"]
      BY <3>1, Zenon DEF EndSession
    <3> QED
      BY <3>1, <3>2, Zenon DEF Calls
  <2> QED
    BY <2>1, <2>2, EndingKept, Zenon
<1>3. CASE call[c].phase = "none" /\ call'[c] = call[c]
  BY <1>3, Zenon DEF CallsOK
<1>4. CASE call[c].phase \notin {"none", "open"}
  <2>1. /\ call'[c].session = call[c].session
        /\ call'[c].phase # "none" /\ call'[c].phase # "open"
    BY <1>4, CallMoves
  <2> QED
    BY <1>4, <2>1, Zenon DEF CallsOK
<1> QED
  BY <1>1, <1>2, <1>3, <1>4, Zenon

\* A cancelled call stays, and a call stays with its session.
LEMMA Monotone ==
    ASSUME ManagerTypeOK, CallsOK, ManagerNext, NEW s \in Session
    PROVE  /\ CallsOf(s, "cancelled") # {} => CallsOf(s, "cancelled")' # {}
           /\ Overlapped(s) => Overlapped(s)'
<1>1. \A c \in Call : call[c].session = s => call'[c].session = s
  <2> SUFFICES ASSUME NEW c \in Call, call[c].session = s PROVE call'[c].session = s
    OBVIOUS
  <2>1. call[c].phase # "none"
    BY SessionsAssumption, Zenon DEF CallsOK, NoSession
  <2>2. call[c].phase \in {"none", "open", "served", "cancelled"}
    BY Zenon DEF ManagerTypeOK
  <2> QED
    BY <2>1, <2>2, CallMoves
<1>2. \A c \in Call : call[c].phase = "cancelled" => call'[c].phase = "cancelled"
  BY CallMoves, Zenon
<1> QED
  BY <1>1, <1>2, Zenon DEF Overlapped, CallsOf

-----------------------------------------------------------------------------
(* What a step does to one session.                                        *)

\* Nothing that the order of wants and cancels depends on changes.
SameSession(t) ==
    /\ incoming'[t] = incoming[t] /\ queued'[t] = queued[t]
    /\ interested'[t] = interested[t] /\ sender'[t] = sender[t]
    /\ t \in recorded' <=> t \in recorded
    /\ t \in tracked' <=> t \in tracked

\* The steps of the session, of its calls and of the handlers that tell it.
StepOf(t) ==
    \/ \E c \in Call : GetBlocks(c, t) \/ (call[c].session = t /\ CancelCall(c))
    \/ WantBlocks(t) \/ AddToSender(t) \/ CancelOp(t) \/ HandleReceive(t)
    \/ SenderOnChange(t) \/ RemoveSessionInterested(t) \/ SendCancels(t)
    \/ SendNextWants(t) \/ UpdateArrives(t) \/ EndSession(t) \/ RemoveSession(t)
    \/ \E h \in Handler : TellSession(h, t)

\* A step of one session leaves the others alone.
LEMMA OneSession ==
    ASSUME ManagerTypeOK, ManagerNext, NEW t \in Session
    PROVE  SameSession(t) \/ StepOf(t)
<1>1. /\ DOMAIN incoming = Session /\ DOMAIN queued = Session
      /\ DOMAIN interested = Session /\ DOMAIN sender = Session
  BY Zenon DEF ManagerTypeOK
<1>2. ASSUME NEW s, s # t,
             /\ incoming' = incoming \/ \E x : incoming' = [incoming EXCEPT ![s] = x]
             /\ queued' = queued \/ \E x : queued' = [queued EXCEPT ![s] = x]
             /\ interested' = interested \/ \E x : interested' = [interested EXCEPT ![s] = x]
             /\ sender' = sender \/ \E x : sender' = [sender EXCEPT ![s] = x]
             /\ recorded' \in {recorded, recorded \cup {s}, recorded \ {s}}
             /\ tracked' \in {tracked, tracked \cup {s}, tracked \ {s}}
      PROVE  SameSession(t)
  <2>1. incoming'[t] = incoming[t]
    BY <1>1, <1>2, Zenon
  <2>2. queued'[t] = queued[t]
    BY <1>1, <1>2, Zenon
  <2>3. interested'[t] = interested[t]
    BY <1>1, <1>2, Zenon
  <2>4. sender'[t] = sender[t]
    BY <1>1, <1>2
  <2>5. (t \in recorded' <=> t \in recorded) /\ (t \in tracked' <=> t \in tracked)
    BY <1>2
  <2> QED
    BY <2>1, <2>2, <2>3, <2>4, <2>5, Zenon DEF SameSession
<1>3. ASSUME UNCHANGED <<incoming, queued, interested, sender, recorded, tracked>>
      PROVE  SameSession(t)
  BY <1>3, Zenon DEF SameSession
<1>4. ASSUME NEW c \in Call, CancelCall(c), call[c].session # t PROVE SameSession(t)
  <2>1. \E x : incoming' = [incoming EXCEPT ![call[c].session] = x]
    BY <1>4, Zenon DEF CancelCall
  <2> QED
    BY <1>2, <1>4, <2>1, Zenon DEF CancelCall
<1>5. ASSUME NEW c \in Call, NEW s \in Session, GetBlocks(c, s), s # t PROVE SameSession(t)
  <2>1. \E x : incoming' = [incoming EXCEPT ![s] = x]
    BY <1>5, Zenon DEF GetBlocks
  <2> QED
    BY <1>2, <1>5, <2>1, Zenon DEF GetBlocks
<1>6. ASSUME NEW s \in Session, s # t,
             WantBlocks(s) \/ AddToSender(s) \/ CancelOp(s) \/ HandleReceive(s)
      PROVE  SameSession(t)
  <2>1. incoming' = incoming \/ \E x : incoming' = [incoming EXCEPT ![s] = x]
    BY <1>6, Zenon DEF WantBlocks, AddToSender, CancelOp, HandleReceive, TakeOp
  <2>2. queued' = queued \/ \E x : queued' = [queued EXCEPT ![s] = x]
    BY <1>6, Zenon DEF WantBlocks, AddToSender, CancelOp, HandleReceive
  <2>3. interested' = interested \/ \E x : interested' = [interested EXCEPT ![s] = x]
    BY <1>6, Zenon DEF WantBlocks, AddToSender, CancelOp, HandleReceive
  <2>4. /\ sender' = sender /\ tracked' = tracked
        /\ recorded' \in {recorded, recorded \cup {s}, recorded \ {s}}
    BY <1>6, Zenon DEF WantBlocks, AddToSender, CancelOp, HandleReceive
  <2> QED
    BY <1>2, <1>6, <2>1, <2>2, <2>3, <2>4, Zenon
<1>7. ASSUME NEW s \in Session, s # t, SenderOnChange(s) \/ UpdateArrives(s)
      PROVE  SameSession(t)
  <2>1. queued' = queued \/ \E x : queued' = [queued EXCEPT ![s] = x]
    BY <1>7, Zenon DEF SenderOnChange, UpdateArrives
  <2>2. sender' = sender \/ \E x : sender' = [sender EXCEPT ![s] = x]
    BY <1>7, Zenon DEF SenderOnChange, UpdateArrives
  <2>3. /\ tracked' \in {tracked, tracked \cup {s}, tracked \ {s}}
        /\ incoming' = incoming /\ interested' = interested /\ recorded' = recorded
    BY <1>7, Zenon DEF SenderOnChange, UpdateArrives
  <2> QED
    BY <1>2, <1>7, <2>1, <2>2, <2>3, Zenon
<1>8. ASSUME NEW s \in Session, s # t,
             RemoveSessionInterested(s) \/ SendCancels(s) \/ SendNextWants(s)
      PROVE  SameSession(t)
  <2>1. interested' = interested \/ \E x : interested' = [interested EXCEPT ![s] = x]
    BY <1>8, Zenon DEF RemoveSessionInterested, SendCancels, SendNextWants
  <2>2. sender' = sender \/ \E x : sender' = [sender EXCEPT ![s] = x]
    BY <1>8, Zenon DEF RemoveSessionInterested, SendCancels, SendNextWants
  <2>3. UNCHANGED <<incoming, queued, recorded, tracked>>
    BY <1>8, Zenon DEF RemoveSessionInterested, SendCancels, SendNextWants
  <2> QED
    BY <1>2, <1>8, <2>1, <2>2, <2>3, Zenon
<1>9. ASSUME NEW s \in Session, s # t, EndSession(s) \/ RemoveSession(s)
      PROVE  SameSession(t)
  <2>1. incoming' = incoming \/ \E x : incoming' = [incoming EXCEPT ![s] = x]
    BY <1>9, Zenon DEF EndSession, RemoveSession
  <2>2. queued' = queued \/ \E x : queued' = [queued EXCEPT ![s] = x]
    BY <1>9, Zenon DEF EndSession, RemoveSession
  <2>3. interested' = interested \/ \E x : interested' = [interested EXCEPT ![s] = x]
    BY <1>9, Zenon DEF EndSession, RemoveSession
  <2>4. /\ sender' = sender /\ recorded' = recorded
        /\ tracked' \in {tracked, tracked \cup {s}, tracked \ {s}}
    BY <1>9, Zenon DEF EndSession, RemoveSession
  <2> QED
    BY <1>2, <1>9, <2>1, <2>2, <2>3, <2>4, Zenon
<1>10. ASSUME NEW h \in Handler, NEW s \in Session, s # t, TellSession(h, s)
       PROVE  SameSession(t)
  <2>1. incoming' = incoming \/ \E x : incoming' = [incoming EXCEPT ![s] = x]
    BY <1>10, Zenon DEF TellSession
  <2> QED
    BY <1>2, <1>10, <2>1, Zenon DEF TellSession
<1>11. ASSUME \/ \E s \in Session : CancelsOfSession(s)
              \/ \E h \in Handler : \/ BlockArrives(h) \/ NotifyNewBlocks(h)
                                    \/ FindSessions(h) \/ CancelReceived(h) \/ Publish(h)
       PROVE  SameSession(t)
  <2>1. CASE \E s \in Session : CancelsOfSession(s)
    BY <1>3, <2>1, Zenon DEF CancelsOfSession
  <2>2. CASE \E h \in Handler : BlockArrives(h) \/ NotifyNewBlocks(h)
    BY <1>3, <2>2, Zenon DEF BlockArrives, NotifyNewBlocks
  <2>3. CASE \E h \in Handler : FindSessions(h) \/ CancelReceived(h) \/ Publish(h)
    BY <1>3, <2>3, Zenon DEF FindSessions, CancelReceived, Publish
  <2> QED
    BY <1>11, <2>1, <2>2, <2>3, Zenon
<1>12. CASE \E c \in Call : CancelCall(c) \/ \E s \in Session : GetBlocks(c, s)
  BY <1>4, <1>5, <1>12, Zenon DEF StepOf
<1>13. ASSUME NEW s \in Session,
              \/ WantBlocks(s) \/ AddToSender(s) \/ CancelOp(s) \/ HandleReceive(s)
              \/ SenderOnChange(s) \/ RemoveSessionInterested(s) \/ SendCancels(s)
              \/ SendNextWants(s) \/ UpdateArrives(s)
              \/ EndSession(s) \/ RemoveSession(s) \/ CancelsOfSession(s)
       PROVE  SameSession(t) \/ StepOf(t)
  <2>1. CASE s = t
    BY <1>11, <1>13, <2>1, Zenon DEF StepOf
  <2>2. CASE s # t
    BY <1>6, <1>7, <1>8, <1>9, <1>11, <1>13, <2>2, Zenon
  <2> QED
    BY <2>1, <2>2, Zenon
<1>14. CASE \E h \in Handler :
              \/ BlockArrives(h) \/ NotifyNewBlocks(h) \/ FindSessions(h)
              \/ CancelReceived(h) \/ Publish(h)
              \/ \E s \in Session : TellSession(h, s)
  BY <1>10, <1>11, <1>14, Zenon DEF StepOf
<1> QED
  BY <1>12, <1>13, <1>14, Zenon DEF ManagerNext

\* A cancel is known by a call that was cancelled, wherever it has got to.
LEMMA CancelsStep ==
    ASSUME ManagerTypeOK, CallsOK, CancelsOK, ManagerNext
    PROVE  CancelsOK'
<1> SUFFICES ASSUME NEW t \in Session PROVE CancelKnown(t)'
  BY Zenon DEF CancelsOK
<1>1. /\ CancelKnown(t)
      /\ CallsOf(t, "cancelled") # {} => CallsOf(t, "cancelled")' # {}
  BY Monotone, Zenon DEF CancelsOK
<1>2. /\ incoming[t] \in Seq({"want", "cancel", "receive"})
      /\ queued[t] \in Seq({"add", "cancel", "block"})
      /\ DOMAIN incoming = Session /\ DOMAIN queued = Session /\ DOMAIN sender = Session
      /\ DOMAIN call = Call
  BY Zenon DEF ManagerTypeOK
<1>3. /\ \A x \in {"want", "cancel", "receive"} : \A y :
            Has(Append(incoming[t], x), y) <=> Has(incoming[t], y) \/ x = y
      /\ \A x \in {"add", "cancel", "block"} : \A y :
            Has(Append(queued[t], x), y) <=> Has(queued[t], y) \/ x = y
  BY <1>2, AppendFacts
<1>4. incoming[t] # <<>> => \A y : Has(incoming[t], y) <=> Head(incoming[t]) = y \/ Has(Tail(incoming[t]), y)
  BY <1>2, TailFacts, Zenon
<1>5. ASSUME SameSession(t) PROVE CancelKnown(t)'
  BY <1>1, <1>5, Zenon DEF CancelKnown, SameSession
<1>6. ASSUME NEW c \in Call, GetBlocks(c, t) PROVE CancelKnown(t)'
  <2>1. incoming'[t] = Append(incoming[t], "want") /\ queued' = queued /\ sender' = sender
    BY <1>2, <1>6, Zenon DEF GetBlocks
  <2> QED
    BY <1>1, <1>3, <2>1, Zenon DEF CancelKnown
<1>7. ASSUME NEW c \in Call, CancelCall(c), call[c].session = t PROVE CancelKnown(t)'
  <2>1. call[c] \in Calls /\ call'[c] = [call[c] EXCEPT !.phase = "cancelled"]
    BY <1>2, <1>7, Zenon DEF CancelCall, ManagerTypeOK, Calls
  <2>2. call'[c].phase = "cancelled" /\ call'[c].session = t
    BY <1>7, <2>1, Zenon DEF Calls
  <2> QED
    BY <2>2, Zenon DEF CancelKnown, CallsOf
<1>8. ASSUME WantBlocks(t) \/ HandleReceive(t) PROVE CancelKnown(t)'
  <2>1. /\ incoming[t] # <<>> /\ incoming'[t] = Tail(incoming[t])
        /\ queued' = queued /\ sender' = sender
    BY <1>2, <1>8, Zenon DEF WantBlocks, HandleReceive, TakeOp
  <2> QED
    BY <1>1, <1>4, <2>1, Zenon DEF CancelKnown
<1>9. ASSUME AddToSender(t) PROVE CancelKnown(t)'
  <2>1. queued'[t] = Append(queued[t], "add") /\ incoming' = incoming /\ sender' = sender
    BY <1>2, <1>9, Zenon DEF AddToSender
  <2> QED
    BY <1>1, <1>3, <2>1, Zenon DEF CancelKnown
<1>10. ASSUME CancelOp(t) PROVE CancelKnown(t)'
  <2>1. incoming[t] # <<>> /\ Head(incoming[t]) = "cancel"
    BY <1>10, Zenon DEF CancelOp, TakeOp
  <2> QED
    BY <1>1, <1>4, <2>1, Zenon DEF CancelKnown
<1>11. ASSUME SenderOnChange(t) PROVE CancelKnown(t)'
  <2>1. /\ incoming' = incoming /\ queued'[t] = <<>>
        /\ ~Has(queued[t], "cancel") => sender'[t] = "idle"
    BY <1>2, <1>11, Zenon DEF SenderOnChange
  <2> QED
    BY <1>1, <2>1, EmptyFacts, Zenon DEF CancelKnown
<1>12. ASSUME RemoveSessionInterested(t) \/ SendCancels(t) \/ SendNextWants(t)
       PROVE  CancelKnown(t)'
  <2>1. sender[t] # "idle"
    BY <1>12, Zenon DEF RemoveSessionInterested, SendCancels, SendNextWants
  <2> QED
    BY <1>1, <2>1, Zenon DEF CancelKnown
<1>13. ASSUME UpdateArrives(t) PROVE CancelKnown(t)'
  <2>1. queued'[t] = Append(queued[t], "block") \/ queued' = queued
    BY <1>2, <1>13, Zenon DEF UpdateArrives
  <2>2. incoming' = incoming /\ sender' = sender
    BY <1>13, Zenon DEF UpdateArrives
  <2> QED
    BY <1>1, <1>3, <2>1, <2>2, Zenon DEF CancelKnown
<1>14. ASSUME EndSession(t) PROVE CancelKnown(t)'
  <2>1. PICK untaken \in SUBSET CallsOf(t, "served") :
          /\ call' = [d \in Call |-> IF d \in CallsOf(t, "open") \cup untaken
                                    THEN [call[d] EXCEPT !.phase = "cancelled"]
                                    ELSE call[d]]
          /\ \E n \in 0..Cardinality(CallsOf(t, "open") \cup untaken) :
                incoming' = [incoming EXCEPT ![t] = incoming[t] \o [i \in 1..n |-> "cancel"]]
    BY <1>14, Zenon DEF EndSession
  <2> DEFINE ended == CallsOf(t, "open") \cup untaken
  <2>2. CASE ended # {}
    <3>1. PICK c \in Call : c \in ended /\ call[c].session = t
      BY <2>2, Zenon DEF CallsOf
    <3>2. call[c] \in Calls /\ call'[c] = [call[c] EXCEPT !.phase = "cancelled"]
      BY <2>1, <3>1, Zenon DEF ManagerTypeOK, Calls
    <3>3. call'[c].phase = "cancelled" /\ call'[c].session = t
      BY <3>1, <3>2, Zenon DEF Calls
    <3> QED
      BY <3>3, Zenon DEF CancelKnown, CallsOf
  <2>3. CASE ended = {}
    <3>1. Cardinality({}) = 0
      BY Zenon DEF Cardinality
    <3>2. \E n \in 0..0 : incoming'[t] = incoming[t] \o [i \in 1..n |-> "cancel"]
      BY <1>2, <2>1, <2>3, <3>1, Zenon
    <3>3. \A y : Has(incoming'[t], y) => Has(incoming[t], y)
      BY <1>2, <3>2, CancelFacts
    <3>4. queued' = queued /\ sender' = sender
      BY <1>14, Zenon DEF EndSession
    <3> QED
      BY <1>1, <3>3, <3>4, Zenon DEF CancelKnown
  <2> QED
    BY <2>2, <2>3, Zenon
<1>15. ASSUME RemoveSession(t) PROVE CancelKnown(t)'
  <2>1. incoming'[t] = <<>> /\ queued'[t] = <<>> /\ sender'[t] = "idle"
    BY <1>2, <1>15, Zenon DEF RemoveSession
  <2> QED
    BY <2>1, EmptyFacts, Zenon DEF CancelKnown
<1>16. ASSUME NEW h \in Handler, TellSession(h, t) PROVE CancelKnown(t)'
  <2>1. incoming'[t] = Append(incoming[t], "receive") \/ incoming' = incoming
    BY <1>2, <1>16, Zenon DEF TellSession
  <2>2. queued' = queued /\ sender' = sender
    BY <1>16, Zenon DEF TellSession
  <2> QED
    BY <1>1, <1>3, <2>1, <2>2, Zenon DEF CancelKnown
<1> QED
  BY <1>5, <1>6, <1>7, <1>8, <1>9, <1>10, <1>11, <1>12, <1>13, <1>14, <1>15, <1>16,
     OneSession, Zenon DEF StepOf

\* The want of a session with one call stays ahead of its cancel.
LEMMA OrderStep ==
    ASSUME ManagerTypeOK, CallsOK, CancelsOK, OrderOK, ManagerNext
    PROVE  OrderOK'
<1> SUFFICES ASSUME NEW t \in Session PROVE Ordered(t)'
  BY Zenon DEF OrderOK
<1>1. CASE Overlapped(t)
  BY <1>1, Monotone, Zenon DEF Ordered
<1> SUFFICES ASSUME InOrder(t) PROVE Ordered(t)'
  BY <1>1, Zenon DEF OrderOK, Ordered
<1>2. /\ incoming[t] \in Seq({"want", "cancel", "receive"})
      /\ queued[t] \in Seq({"add", "cancel", "block"})
      /\ DOMAIN incoming = Session /\ DOMAIN queued = Session /\ DOMAIN sender = Session
      /\ DOMAIN interested = Session /\ DOMAIN call = Call
  BY Zenon DEF ManagerTypeOK
<1>3. /\ \A x \in {"want", "cancel", "receive"} :
            /\ \A y : Has(Append(incoming[t], x), y) <=> Has(incoming[t], y) \/ x = y
            /\ \A y, z : NoneAfter(incoming[t], y, z) /\ (x # y \/ ~Has(incoming[t], z)) =>
                            NoneAfter(Append(incoming[t], x), y, z)
      /\ \A x \in {"add", "cancel", "block"} :
            /\ \A y : Has(Append(queued[t], x), y) <=> Has(queued[t], y) \/ x = y
            /\ \A y, z : NoneAfter(queued[t], y, z) /\ (x # y \/ ~Has(queued[t], z)) =>
                            NoneAfter(Append(queued[t], x), y, z)
  BY <1>2, AppendFacts
<1>4. incoming[t] # <<>> =>
        /\ \A y : Has(incoming[t], y) <=> Head(incoming[t]) = y \/ Has(Tail(incoming[t]), y)
        /\ \A y, z : NoneAfter(incoming[t], y, z) =>
              /\ NoneAfter(Tail(incoming[t]), y, z)
              /\ Head(incoming[t]) = z => ~Has(Tail(incoming[t]), y)
  BY <1>2, TailFacts, Zenon
<1>5. ASSUME SameSession(t) PROVE Ordered(t)'
  BY <1>5, Zenon DEF Ordered, InOrder, SameSession
<1>6. ASSUME NEW c \in Call, GetBlocks(c, t) PROVE Ordered(t)'
  <2>1. call[c].phase = "none" /\ call' = [call EXCEPT ![c] = [phase |-> "open", session |-> t]]
    BY <1>6, Zenon DEF GetBlocks
  <2>2. CASE CallsOf(t, "cancelled") # {}
    <3>1. PICK e \in Call : call[e].session = t /\ call[e].phase = "cancelled"
      BY <2>2, Zenon DEF CallsOf
    <3>2. e # c /\ call'[e] = call[e] /\ call'[c].session = t
      BY <1>2, <2>1, <3>1, Zenon
    <3> QED
      BY <3>1, <3>2, Zenon DEF Ordered, Overlapped, CallsOf
  <2>3. CASE CallsOf(t, "cancelled") = {}
    <3>1. ~Has(incoming[t], "cancel") /\ ~Has(queued[t], "cancel") /\ sender[t] = "idle"
      BY <2>3, Zenon DEF CancelsOK, CancelKnown
    <3>2. incoming'[t] = Append(incoming[t], "want")
      BY <1>2, <1>6, Zenon DEF GetBlocks
    <3>3. UNCHANGED <<queued, sender, interested, recorded, tracked>>
      BY <1>6, Zenon DEF GetBlocks
    <3>4. NoneAfter(incoming'[t], "want", "cancel")
      BY <1>3, <3>1, <3>2, Zenon DEF InOrder
    <3> QED
      BY <3>1, <3>3, <3>4, Zenon DEF Ordered, InOrder
  <2> QED
    BY <2>2, <2>3, Zenon
<1>7. ASSUME NEW c \in Call, CancelCall(c), call[c].session = t PROVE Ordered(t)'
  <2>1. incoming'[t] = Append(incoming[t], "cancel")
    BY <1>2, <1>7, Zenon DEF CancelCall
  <2>2. UNCHANGED <<queued, sender, interested, recorded, tracked>>
    BY <1>7, Zenon DEF CancelCall
  <2>3. /\ NoneAfter(incoming'[t], "want", "cancel")
        /\ Has(incoming'[t], "want") => Has(incoming[t], "want")
    BY <1>3, <2>1, "cancel" # "want", Zenon DEF InOrder
  <2> QED
    BY <2>2, <2>3, Zenon DEF Ordered, InOrder
<1>8. ASSUME WantBlocks(t) PROVE Ordered(t)'
  <2>1. /\ incoming[t] # <<>> /\ Head(incoming[t]) = "want"
        /\ incoming'[t] = Tail(incoming[t]) /\ interested'[t] = "wants"
    BY <1>2, <1>8, Zenon DEF WantBlocks, TakeOp
  <2>2. UNCHANGED <<queued, sender>>
    BY <1>8, Zenon DEF WantBlocks
  <2>3. Has(incoming[t], "want") /\ NoneAfter(incoming'[t], "want", "cancel")
    BY <1>4, <2>1, Zenon DEF InOrder
  <2>4. "wants" # "none"
    OBVIOUS
  <2> QED
    BY <2>1, <2>2, <2>3, <2>4, Zenon DEF Ordered, InOrder
<1>9. ASSUME AddToSender(t) PROVE Ordered(t)'
  <2>1. queued'[t] = Append(queued[t], "add") /\ t \in recorded /\ t \notin recorded'
    BY <1>2, <1>9, Zenon DEF AddToSender
  <2>2. UNCHANGED <<incoming, sender, interested, tracked>>
    BY <1>9, Zenon DEF AddToSender
  <2>3. ~Has(queued[t], "cancel") /\ sender[t] = "idle" /\ interested[t] # "none"
    BY <2>1, Zenon DEF InOrder
  <2>4. NoneAfter(queued'[t], "add", "cancel") /\ ~Has(queued'[t], "cancel")
    BY <1>3, <2>1, <2>3, "add" # "cancel", Zenon DEF InOrder
  <2> QED
    BY <2>2, <2>3, <2>4, Zenon DEF Ordered, InOrder
<1>10. ASSUME CancelOp(t) PROVE Ordered(t)'
  <2>1. /\ incoming[t] # <<>> /\ Head(incoming[t]) = "cancel" /\ t \notin recorded
        /\ incoming'[t] = Tail(incoming[t]) /\ queued'[t] = Append(queued[t], "cancel")
    BY <1>2, <1>10, Zenon DEF CancelOp, TakeOp
  <2>2. UNCHANGED <<sender, interested, recorded, tracked>>
    BY <1>10, Zenon DEF CancelOp
  <2>3. ~Has(incoming'[t], "want") /\ NoneAfter(incoming'[t], "want", "cancel")
    BY <1>4, <2>1, Zenon DEF InOrder
  <2>4. NoneAfter(queued'[t], "add", "cancel") /\ (Has(queued'[t], "add") => Has(queued[t], "add"))
    BY <1>3, <2>1, "add" # "cancel", Zenon DEF InOrder
  <2> QED
    BY <2>1, <2>2, <2>3, <2>4, Zenon DEF Ordered, InOrder
<1>11. ASSUME HandleReceive(t) PROVE Ordered(t)'
  <2>1. /\ incoming[t] # <<>> /\ incoming'[t] = Tail(incoming[t])
        /\ interested'[t] = "none" => interested[t] = "none"
    BY <1>2, <1>11, Zenon DEF HandleReceive, TakeOp
  <2>2. UNCHANGED <<queued, sender, recorded, tracked>>
    BY <1>11, Zenon DEF HandleReceive
  <2>3. /\ NoneAfter(incoming'[t], "want", "cancel")
        /\ Has(incoming'[t], "want") => Has(incoming[t], "want")
    BY <1>4, <2>1, Zenon DEF InOrder
  <2> QED
    BY <2>1, <2>2, <2>3, Zenon DEF Ordered, InOrder
<1>12. ASSUME SenderOnChange(t) PROVE Ordered(t)'
  <2> DEFINE kept == /\ ~Has(queued[t], "block")
                     /\ AddedLast(queued[t]) \/ (t \in tracked /\ ~Has(queued[t], "cancel"))
  <2>1. sender[t] = "idle" /\ UNCHANGED <<incoming, interested, recorded>>
    BY <1>12, Zenon DEF SenderOnChange
  <2>2. queued'[t] = <<>> /\ (~Has(queued[t], "cancel") => sender'[t] = "idle")
    BY <1>2, <1>12, Zenon DEF SenderOnChange
  <2>3. t \in tracked' => kept
    BY <1>12, Zenon DEF SenderOnChange
  <2>4. Has(queued[t], "cancel") => ~AddedLast(queued[t])
    <3>1. \A i \in DOMAIN queued[t] : i \in Nat
      BY <1>2
    <3> QED
      BY <3>1, Zenon DEF InOrder, NoneAfter, Has, AddedLast
  <2>5. AddedLast(queued[t]) => Has(queued[t], "add")
    BY Zenon DEF AddedLast, Has
  <2>6. Has(queued[t], "cancel") =>
          t \notin tracked' /\ t \notin recorded /\ ~Has(incoming[t], "want")
    BY <2>3, <2>4, Zenon DEF InOrder
  <2>7. interested[t] = "none" => t \notin tracked' /\ t \notin recorded
    BY <2>3, <2>5, Zenon DEF InOrder
  <2> HIDE DEF kept
  <2> QED
    BY <2>1, <2>2, <2>6, <2>7, EmptyFacts, Zenon DEF Ordered, InOrder
<1>13. ASSUME RemoveSessionInterested(t) \/ SendCancels(t) \/ SendNextWants(t)
       PROVE  Ordered(t)'
  <2>1. sender[t] # "idle"
    BY <1>13, Zenon DEF RemoveSessionInterested, SendCancels, SendNextWants
  <2>2. UNCHANGED <<incoming, queued, recorded, tracked>>
    BY <1>13, Zenon DEF RemoveSessionInterested, SendCancels, SendNextWants
  <2> QED
    BY <2>1, <2>2, Zenon DEF Ordered, InOrder
<1>14. ASSUME UpdateArrives(t) PROVE Ordered(t)'
  <2>1. queued'[t] = Append(queued[t], "block") \/ queued' = queued
    BY <1>2, <1>14 DEF UpdateArrives
  <2>2. UNCHANGED <<incoming, sender, interested, recorded, tracked>>
    BY <1>14, Zenon DEF UpdateArrives
  <2>3. /\ NoneAfter(queued'[t], "add", "cancel")
        /\ Has(queued'[t], "cancel") => Has(queued[t], "cancel")
        /\ Has(queued'[t], "add") => Has(queued[t], "add")
    BY <1>3, <2>1, "block" # "add", "block" # "cancel", Zenon DEF InOrder
  <2> QED
    BY <2>2, <2>3, Zenon DEF Ordered, InOrder
<1>15. ASSUME EndSession(t) PROVE Ordered(t)'
  <2>1. PICK n \in Nat : incoming' = [incoming EXCEPT ![t] = incoming[t] \o [i \in 1..n |-> "cancel"]]
    <3>1. \A m, n : n \in 0..m => n \in Nat
      OBVIOUS
    <3>4. PICK ended : \E n \in 0..Cardinality(ended) :
            incoming' = [incoming EXCEPT ![t] = incoming[t] \o [i \in 1..n |-> "cancel"]]
      BY <1>15, Zenon DEF EndSession
    <3>2. PICK n \in 0..Cardinality(ended) :
            incoming' = [incoming EXCEPT ![t] = incoming[t] \o [i \in 1..n |-> "cancel"]]
      BY <3>4, Zenon
    <3>3. n \in Nat
      BY <3>1, <3>2, Zenon
    <3> QED
      BY <3>2, <3>3, Zenon
  <2>2. incoming'[t] = incoming[t] \o [i \in 1..n |-> "cancel"]
    BY <1>2, <2>1, Zenon
  <2>3. /\ \A y : Has(incoming'[t], y) => Has(incoming[t], y) \/ (n > 0 /\ y = "cancel")
        /\ NoneAfter(incoming[t], "want", "cancel") => NoneAfter(incoming'[t], "want", "cancel")
    BY <1>2, <2>2, CancelFacts, Zenon
  <2>4. /\ NoneAfter(incoming'[t], "want", "cancel")
        /\ Has(incoming'[t], "want") => Has(incoming[t], "want")
    BY <2>3 DEF InOrder
  <2>5. UNCHANGED <<queued, sender, interested, recorded, tracked>>
    BY <1>15, Zenon DEF EndSession
  <2> QED
    BY <2>4, <2>5, Zenon DEF Ordered, InOrder
<1>16. ASSUME RemoveSession(t) PROVE Ordered(t)'
  <2>1. /\ incoming'[t] = <<>> /\ queued'[t] = <<>>
        /\ t \notin tracked' /\ t \notin recorded'
    BY <1>2, <1>16, Zenon DEF RemoveSession
  <2> QED
    BY <2>1, EmptyFacts, Zenon DEF Ordered, InOrder
<1>17. ASSUME NEW h \in Handler, TellSession(h, t) PROVE Ordered(t)'
  <2>1. incoming'[t] = Append(incoming[t], "receive") \/ incoming' = incoming
    BY <1>2, <1>17, Zenon DEF TellSession
  <2>2. UNCHANGED <<queued, sender, interested, recorded, tracked>>
    BY <1>17, Zenon DEF TellSession
  <2>3. /\ NoneAfter(incoming'[t], "want", "cancel")
        /\ Has(incoming'[t], "want") => Has(incoming[t], "want")
    BY <1>3, <2>1, "receive" # "want", Zenon DEF InOrder
  <2> QED
    BY <2>2, <2>3, Zenon DEF Ordered, InOrder
<1> QED
  BY <1>5, <1>6, <1>7, <1>8, <1>9, <1>10, <1>11, <1>12, <1>13, <1>14, <1>15, <1>16, <1>17,
     OneSession, Zenon DEF StepOf

-----------------------------------------------------------------------------
(* The want of an open call.                                               *)

\* A handler keeps the verdict on its block until Publish has served every open
\* call.
LEMMA PublishedKept ==
    ASSUME ManagerTypeOK, ManagerNext, Published, NEW c \in Call, call'[c].phase = "open"
    PROVE  Published'
<1>1. PICK h \in Handler : handler[h].phase # "none" /\ handler[h].wanted
  BY Zenon DEF Published
<1>2. /\ handler \in [Handler -> Handlers] /\ call \in [Call -> Calls]
  BY Zenon DEF ManagerTypeOK, Handlers, Calls
<1>3. ASSUME UNCHANGED handler PROVE Published'
  BY <1>1, <1>3, Zenon DEF Published
<1>4. ASSUME NEW g \in Handler, BlockArrives(g) \/ NotifyNewBlocks(g) PROVE Published'
  <2>1. handler[g].phase = "none" /\ \E x : handler' = [handler EXCEPT ![g] = x]
    BY <1>4, Zenon DEF BlockArrives, NotifyNewBlocks
  <2>2. handler'[h] = handler[h]
    BY <1>1, <1>2, <2>1, Zenon
  <2> QED
    BY <1>1, <2>2, Zenon DEF Published
<1>5. ASSUME NEW g \in Handler, FindSessions(g) PROVE Published'
  <2>1. PICK T : handler' = [handler EXCEPT ![g] = [[handler[g] EXCEPT !.phase = "sessions"] EXCEPT !.todo = T]]
    BY <1>5, Zenon DEF FindSessions
  <2>2. CASE g = h
    <3>1. handler'[h].phase = "sessions" /\ handler'[h].wanted = handler[h].wanted
      BY <1>2, <2>1, <2>2, Zenon DEF Handlers
    <3>2. "sessions" # "none"
      OBVIOUS
    <3> QED
      BY <1>1, <3>1, <3>2, Zenon DEF Published
  <2>3. CASE g # h
    <3>1. handler'[h] = handler[h]
      BY <1>2, <2>1, <2>3, Zenon
    <3> QED
      BY <1>1, <3>1, Zenon DEF Published
  <2> QED
    BY <2>2, <2>3, Zenon
<1>6. ASSUME NEW g \in Handler, NEW s \in Session, TellSession(g, s) PROVE Published'
  <2>1. PICK T : handler' = [handler EXCEPT ![g] = [handler[g] EXCEPT !.todo = T]]
    BY <1>6, Zenon DEF TellSession
  <2>2. handler'[h].phase = handler[h].phase /\ handler'[h].wanted = handler[h].wanted
    BY <1>2, <2>1, Zenon DEF Handlers
  <2> QED
    BY <1>1, <2>2, Zenon DEF Published
<1>7. ASSUME NEW g \in Handler, CancelReceived(g) PROVE Published'
  <2>1. handler' = [handler EXCEPT ![g] = [handler[g] EXCEPT !.phase = "publish"]]
    BY <1>7, Zenon DEF CancelReceived
  <2>2. handler'[h].phase # "none" /\ handler'[h].wanted = handler[h].wanted
    BY <1>1, <1>2, <2>1, Zenon DEF Handlers
  <2> QED
    BY <1>1, <2>2, Zenon DEF Published
<1>8. ASSUME NEW g \in Handler, Publish(g) PROVE Published'
  <2>1. g # h
    <3> SUFFICES ASSUME g = h PROVE FALSE
      OBVIOUS
    <3>1. call[c].phase # "open" => call'[c] = call[c]
      BY <1>8, Zenon DEF Publish
    <3>2. call[c].phase = "open" => call'[c] = [call[c] EXCEPT !.phase = "served"]
      BY <1>1, <1>8, Zenon DEF Publish
    <3>3. call[c] \in Calls
      BY <1>2
    <3> QED
      BY <3>1, <3>2, <3>3, Zenon DEF Calls
  <2>2. handler'[h] = handler[h]
    BY <1>2, <1>8, <2>1 DEF Publish
  <2> QED
    BY <1>1, <2>2, Zenon DEF Published
<1>9. CASE \E d \in Call : CancelCall(d) \/ \E s \in Session : GetBlocks(d, s)
  BY <1>3, <1>9, Zenon DEF CancelCall, GetBlocks
<1>10. ASSUME NEW s \in Session,
              WantBlocks(s) \/ AddToSender(s) \/ CancelOp(s) \/ HandleReceive(s)
       PROVE  Published'
  BY <1>3, <1>10, Zenon DEF WantBlocks, AddToSender, CancelOp, HandleReceive
<1>11. ASSUME NEW s \in Session,
              SenderOnChange(s) \/ RemoveSessionInterested(s) \/ SendCancels(s) \/ SendNextWants(s)
       PROVE  Published'
  BY <1>3, <1>11, Zenon DEF SenderOnChange, RemoveSessionInterested, SendCancels, SendNextWants
<1>12. ASSUME NEW s \in Session,
              UpdateArrives(s) \/ EndSession(s) \/ RemoveSession(s) \/ CancelsOfSession(s)
       PROVE  Published'
  BY <1>3, <1>12, Zenon DEF UpdateArrives, EndSession, RemoveSession, CancelsOfSession
<1> QED
  BY <1>4, <1>5, <1>6, <1>7, <1>8, <1>9, <1>10, <1>11, <1>12, Zenon DEF ManagerNext

\* A session that was told of an unwanted block stays in the history.
LEMMA StaleKept ==
    ASSUME ManagerTypeOK, ManagerNext
    PROVE  stale \subseteq stale'
<1>1. ASSUME UNCHANGED stale PROVE stale \subseteq stale'
  BY <1>1, Zenon
<1>2. ASSUME NEW h \in Handler, NEW s \in Session, TellSession(h, s) PROVE stale \subseteq stale'
  BY <1>2, Zenon DEF TellSession
<1>3. CASE \E d \in Call : CancelCall(d) \/ \E s \in Session : GetBlocks(d, s)
  BY <1>1, <1>3, Zenon DEF CancelCall, GetBlocks
<1>4. ASSUME NEW s \in Session,
             WantBlocks(s) \/ AddToSender(s) \/ CancelOp(s) \/ HandleReceive(s)
      PROVE  stale \subseteq stale'
  BY <1>1, <1>4, Zenon DEF WantBlocks, AddToSender, CancelOp, HandleReceive
<1>5. ASSUME NEW s \in Session,
             SenderOnChange(s) \/ RemoveSessionInterested(s) \/ SendCancels(s) \/ SendNextWants(s)
      PROVE  stale \subseteq stale'
  BY <1>1, <1>5, Zenon DEF SenderOnChange, RemoveSessionInterested, SendCancels, SendNextWants
<1>6. ASSUME NEW s \in Session,
             UpdateArrives(s) \/ EndSession(s) \/ RemoveSession(s) \/ CancelsOfSession(s)
      PROVE  stale \subseteq stale'
  BY <1>1, <1>6, Zenon DEF UpdateArrives, EndSession, RemoveSession, CancelsOfSession
<1>7. ASSUME NEW h \in Handler,
             \/ BlockArrives(h) \/ NotifyNewBlocks(h) \/ FindSessions(h)
             \/ CancelReceived(h) \/ Publish(h)
      PROVE  stale \subseteq stale'
  BY <1>1, <1>7, Zenon DEF BlockArrives, NotifyNewBlocks, FindSessions, CancelReceived, Publish
<1> QED
  BY <1>2, <1>3, <1>4, <1>5, <1>6, <1>7, Zenon DEF ManagerNext

\* The want of an open call stays ahead of every answer that is none to it.
LEMMA KeptStep ==
    ASSUME ManagerTypeOK, CallsOK, CancelsOK, KeptOK, ManagerNext
    PROVE  KeptOK'
<1> SUFFICES ASSUME NEW c \in Call, NEW t \in Session,
                    call'[c].phase = "open", call'[c].session = t
             PROVE  Kept(t)'
  BY CallsStep, Zenon DEF KeptOK, CallsOK, Kept, Overlapped, CallsOf, Published
<1>1. CASE call[c].phase = "none"
  <2>1. PICK s \in Session : GetBlocks(c, s) /\ call'[c] = [phase |-> "open", session |-> s]
    BY <1>1, CallMoves, "none" # "open", Zenon
  <2>2. /\ s = t /\ incoming'[t] = Append(incoming[t], "want")
        /\ incoming[t] \in Seq({"want", "cancel", "receive"})
    BY <2>1 DEF GetBlocks, ManagerTypeOK
  <2>3. WantLast(incoming'[t])
    BY <2>2, AppendFacts
  <2> QED
    BY <2>3, Zenon DEF Kept
<1>2. CASE call[c].phase # "none" /\ call[c].phase # "open"
  BY <1>2, CallMoves, Zenon
<1>3. CASE call[c].phase = "open"
  <2>1. call[c].session = t /\ ending[t] = "no"
    BY <1>3, CallMoves, Zenon DEF CallsOK
  <2> DEFINE Plain == \/ WantLast(incoming[t])
                      \/ interested[t] = "wants" /\ ~Has(incoming[t], "receive")
  <2>2. CASE Overlapped(t) \/ t \in stale \/ Published
    BY <2>2, Monotone, StaleKept, PublishedKept, Zenon DEF Kept
  <2> SUFFICES ASSUME ~Overlapped(t), Plain PROVE Kept(t)'
    BY <1>3, <2>1, <2>2, Zenon DEF KeptOK, Kept
  <2>3. /\ incoming[t] \in Seq({"want", "cancel", "receive"})
        /\ DOMAIN incoming = Session /\ DOMAIN interested = Session
        /\ DOMAIN handler = Handler /\ handler \in [Handler -> Handlers]
    BY Zenon DEF ManagerTypeOK, Handlers
  <2>4. \A x \in {"want", "cancel", "receive"} :
          /\ \A y : Has(Append(incoming[t], x), y) <=> Has(incoming[t], y) \/ x = y
          /\ WantLast(incoming[t]) /\ x # "receive" => WantLast(Append(incoming[t], x))
    BY <2>3, AppendFacts
  <2>5. incoming[t] # <<>> =>
          /\ \A y : Has(incoming[t], y) <=> Head(incoming[t]) = y \/ Has(Tail(incoming[t]), y)
          /\ WantLast(incoming[t]) =>
                \/ WantLast(Tail(incoming[t]))
                \/ Head(incoming[t]) = "want" /\ ~Has(Tail(incoming[t]), "receive")
    BY <2>3, TailFacts
  <2>6. ASSUME incoming'[t] = incoming[t], interested'[t] = interested[t] PROVE Kept(t)'
    BY <2>6, Zenon DEF Kept
  <2>7. ASSUME NEW x \in {"want", "cancel"}, incoming'[t] = Append(incoming[t], x),
               interested' = interested
        PROVE  Kept(t)'
    <3>1. x # "receive" /\ x \in {"want", "cancel", "receive"}
      BY <2>7, Zenon
    <3>2. WantLast(incoming[t]) => WantLast(incoming'[t])
      BY <2>4, <2>7, <3>1, Zenon
    <3>3. Has(incoming'[t], "receive") => Has(incoming[t], "receive")
      BY <2>4, <2>7, <3>1, Zenon
    <3> QED
      BY <2>7, <3>2, <3>3, Zenon DEF Kept
  <2>8. ASSUME SameSession(t) PROVE Kept(t)'
    BY <2>6, <2>8, Zenon DEF SameSession
  <2>9. ASSUME NEW d \in Call, GetBlocks(d, t) PROVE Kept(t)'
    BY <2>3, <2>7, <2>9, Zenon DEF GetBlocks
  <2>10. ASSUME NEW d \in Call, CancelCall(d), call[d].session = t PROVE Kept(t)'
    BY <2>3, <2>7, <2>10, Zenon DEF CancelCall
  <2>11. ASSUME WantBlocks(t) PROVE Kept(t)'
    <3>1. incoming[t] # <<>> /\ incoming'[t] = Tail(incoming[t]) /\ interested'[t] = "wants"
      BY <2>3, <2>11, Zenon DEF WantBlocks, TakeOp
    <3> QED
      BY <2>5, <3>1, Zenon DEF Kept
  <2>12. ASSUME CancelOp(t) PROVE Kept(t)'
    <3>1. /\ incoming[t] # <<>> /\ incoming'[t] = Tail(incoming[t])
          /\ Head(incoming[t]) # "want" /\ interested' = interested
      BY <2>3, <2>12, Zenon DEF CancelOp, TakeOp
    <3> QED
      BY <2>5, <3>1, Zenon DEF Kept
  <2>13. ASSUME HandleReceive(t) PROVE Kept(t)'
    <3>1. /\ incoming[t] # <<>> /\ incoming'[t] = Tail(incoming[t])
          /\ Head(incoming[t]) # "want" /\ Head(incoming[t]) = "receive"
      BY <2>3, <2>13, Zenon DEF HandleReceive, TakeOp
    <3> QED
      BY <2>5, <3>1, Zenon DEF Kept
  <2>14. ASSUME RemoveSessionInterested(t) PROVE Kept(t)'
    <3>1. sender[t] # "idle"
      BY <2>14, Zenon DEF RemoveSessionInterested
    <3>2. PICK e \in Call : call[e].session = t /\ call[e].phase = "cancelled"
      BY <3>1, Zenon DEF CancelsOK, CancelKnown, CallsOf
    <3>3. e # c
      BY <1>3, <3>2, Zenon
    <3> QED
      BY <2>1, <3>2, <3>3, Zenon DEF Overlapped, CallsOf
  <2>15. ASSUME EndSession(t) PROVE FALSE
    <3>1. call[c] \in Calls /\ c \in CallsOf(t, "open")
      BY <1>3, <2>1, Zenon DEF CallsOf, ManagerTypeOK, Calls
    <3>2. call'[c] = [call[c] EXCEPT !.phase = "cancelled"]
      BY <2>15, <3>1, Zenon DEF EndSession
    <3> QED
      BY <3>1, <3>2, Zenon DEF Calls
  <2>16. ~RemoveSession(t)
    BY <2>1, "no" # "closing", Zenon DEF RemoveSession
  <2>17. ASSUME NEW h \in Handler, TellSession(h, t) PROVE Kept(t)'
    <3>1. PICK T : handler' = [handler EXCEPT ![h] = [handler[h] EXCEPT !.todo = T]]
      BY <2>17, Zenon DEF TellSession
    <3>2. handler'[h].phase = handler[h].phase /\ handler'[h].wanted = handler[h].wanted
      BY <2>3, <3>1 DEF Handlers
    <3>3. handler[h].phase # "none" /\ interested' = interested
      BY <2>17, Zenon DEF TellSession
    <3>4. CASE handler[h].wanted
      BY <3>2, <3>3, <3>4, Zenon DEF Kept, Published
    <3>5. CASE ~handler[h].wanted
      <4>1. t \in stale' \/ incoming' = incoming
        BY <2>17, <3>5, Zenon DEF TellSession
      <4> QED
        BY <2>6, <3>3, <4>1, Zenon DEF Kept
    <3> QED
      BY <3>4, <3>5, Zenon
  <2>18. ASSUME AddToSender(t) \/ SenderOnChange(t) \/ UpdateArrives(t) PROVE Kept(t)'
    BY <2>6, <2>18, Zenon DEF AddToSender, SenderOnChange, UpdateArrives
  <2>19. ASSUME SendCancels(t) \/ SendNextWants(t) PROVE Kept(t)'
    BY <2>6, <2>19, Zenon DEF SendCancels, SendNextWants
  <2> HIDE DEF Plain
  <2> QED
    BY <2>8, <2>9, <2>10, <2>11, <2>12, <2>13, <2>14, <2>15, <2>16, <2>17, <2>18, <2>19,
       OneSession, Zenon DEF StepOf
<1> QED
  BY <1>1, <1>2, <1>3, Zenon

-----------------------------------------------------------------------------
(* What the peers are asked for.                                           *)

\* A CANCEL that is on its way stays so until it is sent, and the last interest
\* goes only with a CANCEL.
LEMMA CancelKept ==
    ASSUME ManagerTypeOK, CallsOK, ManagerNext, asked',
           CancelOnItsWay \/ \E s \in Session : interested[s] # "none" \/ Overlapped(s)
    PROVE  CancelOnItsWay' \/ \E s \in Session : interested'[s] # "none" \/ Overlapped(s)'
<1> DEFINE Goal == CancelOnItsWay' \/ \E s \in Session : interested'[s] # "none" \/ Overlapped(s)'
<1>1. /\ DOMAIN sender = Session /\ DOMAIN ending = Session /\ DOMAIN interested = Session
      /\ handler \in [Handler -> Handlers]
  BY Zenon DEF ManagerTypeOK, Handlers
<1>2. CASE \E s \in Session : Overlapped(s)
  BY <1>2, Monotone, Zenon
<1>3. ASSUME NEW s \in Session, sender[s] = "cancels" PROVE Goal
  <2>1. SameSession(s) => sender'[s] = "cancels"
    BY <1>3, Zenon DEF SameSession
  <2>2. ASSUME StepOf(s) PROVE sender'[s] = "cancels"
    <3>1. ~SenderOnChange(s) /\ ~RemoveSessionInterested(s) /\ ~SendNextWants(s) /\ ~RemoveSession(s)
      BY <1>3, Zenon DEF SenderOnChange, RemoveSessionInterested, SendNextWants,
         RemoveSession
    <3>2. ~SendCancels(s)
      BY Zenon DEF SendCancels
    <3>3. CASE WantBlocks(s) \/ AddToSender(s) \/ CancelOp(s) \/ HandleReceive(s)
      BY <1>3, <3>3, Zenon DEF WantBlocks, AddToSender, CancelOp, HandleReceive
    <3>4. CASE \/ UpdateArrives(s) \/ EndSession(s) \/ \E h \in Handler : TellSession(h, s)
               \/ \E c \in Call : GetBlocks(c, s) \/ CancelCall(c)
      BY <1>3, <3>4, Zenon DEF UpdateArrives, EndSession, TellSession, GetBlocks, CancelCall
    <3> QED
      BY <2>2, <3>1, <3>2, <3>3, <3>4, Zenon DEF StepOf
  <2> QED
    BY <2>1, <2>2, OneSession, Zenon DEF CancelOnItsWay
<1>4. ASSUME NEW s \in Session, ending[s] = "cancels" PROVE Goal
  <2>1. ASSUME NEW t \in Session, EndSession(t) \/ RemoveSession(t) PROVE ending'[s] = "cancels"
    <3>1. s # t /\ \E x : ending' = [ending EXCEPT ![t] = x]
      BY <1>4, <2>1, Zenon DEF EndSession, RemoveSession
    <3> QED
      BY <1>1, <1>4, <3>1
  <2>2. ASSUME NEW t \in Session, CancelsOfSession(t) PROVE FALSE
    BY <2>2, Zenon DEF CancelsOfSession
  <2>3. ASSUME UNCHANGED ending PROVE ending'[s] = "cancels"
    BY <1>4, <2>3, Zenon
  <2>4. ASSUME NEW t \in Session,
               WantBlocks(t) \/ AddToSender(t) \/ CancelOp(t) \/ HandleReceive(t)
        PROVE  ending'[s] = "cancels"
    BY <2>3, <2>4, Zenon DEF WantBlocks, AddToSender, CancelOp, HandleReceive
  <2>5. ASSUME NEW t \in Session,
               \/ SenderOnChange(t) \/ RemoveSessionInterested(t) \/ SendCancels(t)
               \/ SendNextWants(t) \/ UpdateArrives(t)
        PROVE  ending'[s] = "cancels"
    BY <2>3, <2>5, Zenon DEF SenderOnChange, RemoveSessionInterested, SendCancels,
       SendNextWants, UpdateArrives
  <2>6. ASSUME NEW h \in Handler,
               \/ BlockArrives(h) \/ NotifyNewBlocks(h) \/ FindSessions(h)
               \/ CancelReceived(h) \/ Publish(h) \/ \E t \in Session : TellSession(h, t)
        PROVE  ending'[s] = "cancels"
    BY <2>3, <2>6, Zenon DEF BlockArrives, NotifyNewBlocks, FindSessions, CancelReceived,
       Publish, TellSession
  <2>7. ASSUME NEW c \in Call, CancelCall(c) \/ \E t \in Session : GetBlocks(c, t)
        PROVE  ending'[s] = "cancels"
    BY <2>3, <2>7, Zenon DEF CancelCall, GetBlocks
  <2>8. ending'[s] = "cancels"
    BY <2>1, <2>2, <2>4, <2>5, <2>6, <2>7, Zenon DEF ManagerNext
  <2> QED
    BY <2>8, Zenon DEF CancelOnItsWay
<1>5. ASSUME NEW h \in Handler, handler[h].phase \in {"split", "sessions"} PROVE Goal
  <2>1. ASSUME NEW g \in Handler, BlockArrives(g) \/ NotifyNewBlocks(g) \/ Publish(g)
        PROVE  handler'[h].phase \in {"split", "sessions"}
    <3>1. handler[g].phase \in {"none", "publish"} /\ \E x : handler' = [handler EXCEPT ![g] = x]
      BY <2>1, Zenon DEF BlockArrives, NotifyNewBlocks, Publish
    <3> QED
      BY <1>1, <1>5, <3>1, Zenon
  <2>2. ASSUME NEW g \in Handler, FindSessions(g)
        PROVE  handler'[h].phase \in {"split", "sessions"}
    <3>1. PICK T : handler' = [handler EXCEPT ![g] = [[handler[g] EXCEPT !.phase = "sessions"] EXCEPT !.todo = T]]
      BY <2>2, Zenon DEF FindSessions
    <3> QED
      BY <1>1, <1>5, <3>1 DEF Handlers
  <2>3. ASSUME NEW g \in Handler, NEW t \in Session, TellSession(g, t)
        PROVE  handler'[h].phase \in {"split", "sessions"}
    <3>1. PICK T : handler' = [handler EXCEPT ![g] = [handler[g] EXCEPT !.todo = T]]
      BY <2>3, Zenon DEF TellSession
    <3> QED
      BY <1>1, <1>5, <3>1 DEF Handlers
  <2>4. ASSUME NEW g \in Handler, CancelReceived(g) PROVE FALSE
    BY <2>4, Zenon DEF CancelReceived
  <2>5. ASSUME UNCHANGED handler PROVE handler'[h].phase \in {"split", "sessions"}
    BY <1>5, <2>5, Zenon
  <2>6. ASSUME NEW t \in Session,
               WantBlocks(t) \/ AddToSender(t) \/ CancelOp(t) \/ HandleReceive(t)
        PROVE  handler'[h].phase \in {"split", "sessions"}
    BY <2>5, <2>6, Zenon DEF WantBlocks, AddToSender, CancelOp, HandleReceive
  <2>7. ASSUME NEW t \in Session,
               \/ SenderOnChange(t) \/ RemoveSessionInterested(t) \/ SendCancels(t)
               \/ SendNextWants(t) \/ UpdateArrives(t)
        PROVE  handler'[h].phase \in {"split", "sessions"}
    BY <2>5, <2>7, Zenon DEF SenderOnChange, RemoveSessionInterested, SendCancels,
       SendNextWants, UpdateArrives
  <2>8. ASSUME NEW t \in Session, EndSession(t) \/ RemoveSession(t) \/ CancelsOfSession(t)
        PROVE  handler'[h].phase \in {"split", "sessions"}
    BY <2>5, <2>8, Zenon DEF EndSession, RemoveSession, CancelsOfSession
  <2>9. ASSUME NEW c \in Call, CancelCall(c) \/ \E t \in Session : GetBlocks(c, t)
        PROVE  handler'[h].phase \in {"split", "sessions"}
    BY <2>5, <2>9, Zenon DEF CancelCall, GetBlocks
  <2>10. handler'[h].phase \in {"split", "sessions"}
    BY <2>1, <2>2, <2>3, <2>4, <2>6, <2>7, <2>8, <2>9, Zenon DEF ManagerNext
  <2> QED
    BY <2>10, Zenon DEF CancelOnItsWay
<1>6. ASSUME NEW s \in Session, interested[s] # "none" PROVE Goal
  <2>1. CASE SameSession(s)
    BY <1>6, <2>1, Zenon DEF SameSession
  <2>2. CASE RemoveSessionInterested(s) \/ RemoveSession(s)
    <3>1. CASE CancelKeys(s)
      <4>1. sender'[s] = "cancels" \/ ending'[s] = "cancels"
        BY <1>1, <2>2, <3>1, Zenon DEF RemoveSessionInterested, RemoveSession
      <4> QED
        BY <4>1, Zenon DEF CancelOnItsWay
    <3>2. CASE ~CancelKeys(s)
      <4>1. PICK t \in Session \ {s} : interested[t] # "none"
        BY <1>6, <3>2, Zenon DEF CancelKeys
      <4>2. interested'[t] = interested[t]
        BY <1>1, <2>2, <4>1, Zenon DEF RemoveSessionInterested, RemoveSession
      <4> QED
        BY <4>1, <4>2, Zenon
    <3> QED
      BY <3>1, <3>2, Zenon
  <2>3. CASE WantBlocks(s) \/ HandleReceive(s)
    <3>1. interested'[s] # "none"
      BY <1>1, <1>6, <2>3, Zenon DEF WantBlocks, HandleReceive
    <3> QED
      BY <3>1, Zenon
  <2>4. CASE \/ AddToSender(s) \/ CancelOp(s) \/ SenderOnChange(s) \/ SendCancels(s)
             \/ SendNextWants(s)
    BY <1>6, <2>4, Zenon DEF AddToSender, CancelOp, SenderOnChange, SendCancels, SendNextWants
  <2>5. CASE \/ UpdateArrives(s) \/ EndSession(s) \/ \E h \in Handler : TellSession(h, s)
             \/ \E c \in Call : GetBlocks(c, s) \/ CancelCall(c)
    BY <1>6, <2>5, Zenon DEF UpdateArrives, EndSession, TellSession, GetBlocks, CancelCall
  <2> HIDE DEF Goal
  <2> QED
    BY <2>1, <2>2, <2>3, <2>4, <2>5, OneSession, Zenon DEF StepOf
<1> QED
  BY <1>2, <1>3, <1>4, <1>5, <1>6, Zenon DEF CancelOnItsWay

\* A sender asks a peer only for a key its session is interested in.
LEMMA AsksStep ==
    ASSUME ManagerTypeOK, CallsOK, OrderOK, AsksAreWanted, ManagerNext
    PROVE  AsksAreWanted'
<1> SUFFICES ASSUME asked'
             PROVE  CancelOnItsWay' \/ \E s \in Session : interested'[s] # "none" \/ Overlapped(s)'
  BY Zenon DEF AsksAreWanted
<1>1. CASE asked
  BY <1>1, CancelKept, Zenon DEF AsksAreWanted
<1>2. ASSUME NEW s \in Session, SenderOnChange(s), ~asked
      PROVE  interested[s] # "none" \/ Overlapped(s)
  <2>1. AddedLast(queued[s]) \/ s \in tracked
    BY <1>2, Zenon DEF SenderOnChange
  <2>2. AddedLast(queued[s]) => Has(queued[s], "add")
    BY Zenon DEF AddedLast, Has
  <2> QED
    BY <2>1, <2>2, Zenon DEF OrderOK, Ordered, InOrder
<1>3. ASSUME NEW s \in Session, SendNextWants(s), ~asked
      PROVE  interested[s] # "none" \/ Overlapped(s)
  <2>1. s \in tracked /\ sender[s] # "idle"
    BY <1>3, Zenon DEF SendNextWants
  <2> QED
    BY <2>1, Zenon DEF OrderOK, Ordered, InOrder
<1>4. CASE ~asked
  <2>1. \E s \in Session : SenderOnChange(s) \/ SendNextWants(s)
    <3>1. ASSUME UNCHANGED asked PROVE FALSE
      BY <1>4, <3>1, Zenon
    <3>2. ASSUME NEW t \in Session,
                 WantBlocks(t) \/ AddToSender(t) \/ CancelOp(t) \/ HandleReceive(t)
          PROVE  FALSE
      BY <3>1, <3>2, Zenon DEF WantBlocks, AddToSender, CancelOp, HandleReceive
    <3>3. ASSUME NEW t \in Session,
                 RemoveSessionInterested(t) \/ SendCancels(t) \/ UpdateArrives(t)
          PROVE  FALSE
      BY <3>1, <3>3, Zenon DEF RemoveSessionInterested, SendCancels, UpdateArrives
    <3>4. ASSUME NEW t \in Session, EndSession(t) \/ RemoveSession(t) \/ CancelsOfSession(t)
          PROVE  FALSE
      BY <3>1, <3>4, Zenon DEF EndSession, RemoveSession, CancelsOfSession
    <3>5. ASSUME NEW h \in Handler,
                 \/ BlockArrives(h) \/ NotifyNewBlocks(h) \/ FindSessions(h)
                 \/ CancelReceived(h) \/ Publish(h) \/ \E t \in Session : TellSession(h, t)
          PROVE  FALSE
      BY <3>1, <3>5, Zenon DEF BlockArrives, NotifyNewBlocks, FindSessions, CancelReceived,
         Publish, TellSession
    <3>6. ASSUME NEW c \in Call, CancelCall(c) \/ \E t \in Session : GetBlocks(c, t) PROVE FALSE
      BY <3>1, <3>6, Zenon DEF CancelCall, GetBlocks
    <3> QED
      BY <3>2, <3>3, <3>4, <3>5, <3>6, Zenon DEF ManagerNext
  <2> QED
    BY <1>2, <1>3, <1>4, <2>1, CancelKept, Zenon
<1> QED
  BY <1>1, <1>4, Zenon

-----------------------------------------------------------------------------
(* The theorems.                                                           *)

\* Whatever the calls, blocks and shutdowns of the sessions do, the interest,
\* the queues and the wants at the peers stay in step.
THEOREM ManagerInvariance == ManagerSpec => []ManagerInv
<1>1. ManagerInit => ManagerInv
  <2> SUFFICES ASSUME ManagerInit PROVE ManagerInv
    OBVIOUS
  <2>1. ManagerTypeOK
    <3>1. \A b \in BOOLEAN : [phase |-> "none", wanted |-> b, local |-> b, todo |-> {}] \in Handlers
      BY Zenon DEF Handlers
    <3>2. FALSE \in BOOLEAN
      BY Zenon
    <3>3. Resting \in Handlers
      BY <3>1, <3>2, Zenon DEF Resting
    <3>4. handler \in [Handler -> Handlers]
      BY <3>3, Zenon DEF ManagerInit
    <3>5. asked \in BOOLEAN
      BY Zenon DEF ManagerInit
    <3>6. call \in [Call -> Calls]
      BY Zenon DEF ManagerInit, Calls, NoSession
    <3>7. /\ incoming \in [Session -> Seq({"want", "cancel", "receive"})]
          /\ queued \in [Session -> Seq({"add", "cancel", "block"})]
          /\ recorded \in SUBSET Session /\ live \in SUBSET Session
          /\ tracked \in SUBSET Session /\ waiting \in SUBSET Session
          /\ stale \in SUBSET Session
      BY DEF ManagerInit
    <3>8. /\ interested \in [Session -> {"none", "wants", "interested"}]
          /\ arriving \in [Session -> Nat] /\ blocks \in Nat
          /\ sender \in [Session -> {"idle", "cancel", "cancels", "send"}]
          /\ ending \in [Session -> {"no", "closing", "cancels", "over"}]
      BY Zenon DEF ManagerInit
    <3> QED
      BY <3>4, <3>5, <3>6, <3>7, <3>8, Zenon DEF ManagerTypeOK, Handlers, Calls
  <2>2. CallsOK /\ KeptOK
    BY Zenon DEF ManagerInit, CallsOK, KeptOK
  <2>3. CancelsOK
    BY EmptyFacts, Zenon DEF ManagerInit, CancelsOK, CancelKnown
  <2>4. OrderOK
    BY EmptyFacts DEF ManagerInit, OrderOK, Ordered, InOrder
  <2>5. AsksAreWanted
    BY Zenon DEF ManagerInit, AsksAreWanted
  <2> QED
    BY <2>1, <2>2, <2>3, <2>4, <2>5, Zenon DEF ManagerInv
<1>2. ManagerInv /\ [ManagerNext]_managerVars => ManagerInv'
  <2> SUFFICES ASSUME ManagerInv, [ManagerNext]_managerVars PROVE ManagerInv'
    OBVIOUS
  <2>1. CASE ManagerNext
    BY <2>1, ManagerTypeStep, CallsStep, CancelsStep, OrderStep, KeptStep, AsksStep, Zenon
       DEF ManagerInv
  <2>2. CASE UNCHANGED managerVars
    <3>1. ManagerTypeOK' /\ CallsOK'
      BY <2>2, Zenon DEF managerVars, ManagerInv, ManagerTypeOK, CallsOK
    <3>2. \A s \in Session : Overlapped(s)' <=> Overlapped(s)
      BY <2>2, Zenon DEF managerVars, Overlapped, CallsOf
    <3>3. CancelsOK'
      BY <2>2, Zenon DEF managerVars, ManagerInv, CancelsOK, CancelKnown, CallsOf
    <3>4. OrderOK'
      BY <2>2, <3>2, Zenon DEF managerVars, ManagerInv, OrderOK, Ordered, InOrder
    <3>5. KeptOK'
      BY <2>2, Zenon DEF managerVars, ManagerInv, KeptOK, Kept, Published, Overlapped, CallsOf
    <3>6. AsksAreWanted'
      BY <2>2, <3>2, Zenon DEF managerVars, ManagerInv, AsksAreWanted, CancelOnItsWay
    <3> QED
      BY <3>1, <3>3, <3>4, <3>5, <3>6, Zenon DEF ManagerInv
  <2> QED
    BY <2>1, <2>2, Zenon
<1> QED
  BY <1>1, <1>2, PTL DEF ManagerSpec

\* No call, block or shutdown of any number of sessions leaves a want behind at
\* the peers, but for a session that cancels a key one of its calls still wants.
THEOREM AsksStayWanted == ManagerSpec => []AsksAreWanted
<1>1. ManagerInv => AsksAreWanted
  BY Zenon DEF ManagerInv
<1> QED
  BY <1>1, ManagerInvariance, PTL

\* An open call keeps its want in the interest manager until its block is about
\* to be published, but for a cancel of the same key in its session and for a
\* late duplicate.
THEOREM InterestIsKept == ManagerSpec => []InterestKept
<1>1. ManagerInv => InterestKept
  BY Zenon DEF ManagerInv, KeptOK, Kept, InterestKept, Heard, Published, WantLast, Has
<1> QED
  BY <1>1, ManagerInvariance, PTL

-----------------------------------------------------------------------------
(* The message queue: its inductive invariant.                             *)

(* A key with a pending cancel is on no list of wants.                     *)
CancelsApart ==
    \A k \in cancels : peerPending[k] = "none" /\ k \notin bcstPending /\ ~WasSent(k)

(* The lists have the keys they were given.                                *)
KeysKept ==
    /\ \A k \in Key : peerPending[k] # "none" \/ peerSent[k] # "none" => k \in PeerKey
    /\ bcstPending \cup bcstSent \subseteq BcstKey

(* The message that is built says one thing of a key: cancel, want-have or *)
(* want-block; it can be broadcast as well.                                *)
BatchSound ==
    pc = "extracting" =>
       \A k \in Key :
          /\ <<"cancel", k>> \in batch =>
                <<"bcst", k>> \notin batch /\ \A t \in Want : <<t, k>> \notin batch
          /\ ~(<<"have", k>> \in batch /\ <<"block", k>> \in batch)
          /\ (\E t \in Want : <<t, k>> \in batch) => k \in PeerKey
          /\ <<"bcst", k>> \in batch => k \in BcstKey

(* A peer that does not support HAVE is not sent the peer's want-haves.    *)
HavesDropped ==
    ~supportsHave => \A k \in Key : peerSent[k] # "have"
                                      /\ (pc = "extracting" => <<"have", k>> \notin batch)

(* The message on its way agrees with the lists, cancels apart.            *)
MsgSound ==
    pc = "sending" =>
       \A k \in Key :
          /\ (\E t \in Want : <<t, k>> \in msg)
                => WasSent(k) \/ k \in cancels \/ k \in withdrawn
          /\ <<"cancel", k>> \in msg => ~WasSent(k)

(* The forward-haves owed to the peer are pending or on their way, and the *)
(* message that is built has all of a key or none.                         *)
HavesKept ==
    /\ pc # "extracting" => batch = {}
    /\ ~down =>
          \A e \in owed :
             /\ e \in forwardHaves \/ (pc = "sending" /\ <<"provider", e>> \in msg)
             /\ (\E q \in Provider : <<"provider", <<e[1], q>>>> \in batch)
                   => <<"provider", e>> \in batch

MessageQueueInv ==
    /\ TypeOK
    /\ TimerMatches
    /\ WorkSignalled
    /\ CancelsApart
    /\ KeysKept
    /\ BatchSound
    /\ HavesDropped
    /\ MsgSound
    /\ SentIsTold
    /\ RemoteAccounted
    /\ HavesKept

-----------------------------------------------------------------------------
(* Entries are pairs.                                                      *)
LEMMA InPairs ==
    ASSUME NEW es \in SUBSET Entries
    PROVE  \A kind, k : k \in In(kind, es) <=> <<kind, k>> \in es
<1> SUFFICES ASSUME NEW kind, NEW k PROVE k \in In(kind, es) <=> <<kind, k>> \in es
    BY Zenon
<1>1. \A e \in es : e = <<e[1], e[2]>>
    BY DEF Entries
<1>2. ASSUME k \in In(kind, es) PROVE <<kind, k>> \in es
  <2>1. PICK e \in es : e[1] = kind /\ e[2] = k
      BY <1>2, Zenon DEF In
  <2> QED
      BY <1>1, <2>1, Zenon
<1>3. ASSUME <<kind, k>> \in es PROVE k \in In(kind, es)
  <2>1. <<kind, k>>[1] = kind /\ <<kind, k>>[2] = k
      OBVIOUS
  <2> QED
      BY <1>3, <2>1, Zenon DEF In
<1> QED
    BY <1>2, <1>3, Zenon

(* The entries of the lists, by kind.                                      *)
LEMMA WorkEntries ==
    ASSUME TypeOK, NEW p \in [Key -> Want \cup {"none"}], NEW bc \in SUBSET Key
    PROVE  /\ WorkIn(p, bc) \in SUBSET Entries
           /\ \A k : <<"cancel", k>> \in WorkIn(p, bc) => k \in cancels
           /\ \A k : <<"bcst", k>> \in WorkIn(p, bc) => k \in bc
           /\ \A k, t : t \in Want /\ <<t, k>> \in WorkIn(p, bc) => k \in Key /\ p[k] = t
<1> DEFINE C == {<<"cancel", k>> : k \in cancels}
           P == {<<p[k], k>> : k \in {x \in Key : p[x] # "none"}}
           F == {<<"forward", k>> : k \in forwardPending}
           B == {<<"bcst", k>> : k \in bc}
           H == {<<"provider", e>> : e \in forwardHaves}
<1>1. WorkIn(p, bc) = C \cup P \cup F \cup B \cup H
    BY Zenon DEF WorkIn
<1>2. C \in SUBSET Entries
    BY DEF TypeOK, Entries
<1>3. P \in SUBSET Entries
    BY DEF Want, Entries
<1>4. F \in SUBSET Entries
    BY DEF TypeOK, Entries
<1>5. B \in SUBSET Entries
    BY DEF Entries
<1>6. H \in SUBSET Entries
    BY DEF TypeOK, Entries
<1>7. \A x, k : /\ <<x, k>> \in C => x = "cancel" /\ k \in cancels
                /\ <<x, k>> \in P => k \in Key /\ x = p[k] /\ x \in Want
                /\ <<x, k>> \in F => x = "forward"
                /\ <<x, k>> \in B => x = "bcst" /\ k \in bc
                /\ <<x, k>> \in H => x = "provider"
    BY Zenon DEF Want
<1> HIDE DEF C, P, F, B, H
<1>8. WorkIn(p, bc) \in SUBSET Entries
    BY <1>1, <1>2, <1>3, <1>4, <1>5, <1>6, Zenon
<1>9. \A k : <<"cancel", k>> \in WorkIn(p, bc) => k \in cancels
    BY <1>1, <1>7 DEF Want
<1>10. \A k : <<"bcst", k>> \in WorkIn(p, bc) => k \in bc
    BY <1>1, <1>7 DEF Want
<1>11. \A k, t : t \in Want /\ <<t, k>> \in WorkIn(p, bc) => k \in Key /\ p[k] = t
    BY <1>1, <1>7, Zenon DEF Want
<1> QED
    BY <1>8, <1>9, <1>10, <1>11, Zenon

(* The invariant holds at first.                                           *)
LEMMA InitIInv == Init => MessageQueueInv
<1> SUFFICES ASSUME Init PROVE MessageQueueInv
    OBVIOUS
<1>1. TypeOK
  <2>1. NoWants \in [Key -> Want \cup {"none"}]
      BY Zenon DEF NoWants
  <2>2. 0 \in 0 .. MaxDebounce
      BY DebounceAssumption
  <2> QED
      BY <2>1, <2>2, Zenon DEF Init, TypeOK
<1>2. Work = {}
    BY Zenon DEF Init, Work, WorkIn, NoWants
<1>3. TimerMatches /\ WorkSignalled
    BY <1>2, Zenon DEF Init, TimerMatches, WorkSignalled
<1>4. CancelsApart /\ KeysKept /\ BatchSound /\ HavesDropped /\ MsgSound
    BY Zenon DEF Init, CancelsApart, KeysKept, BatchSound, HavesDropped, MsgSound, NoWants
<1>5. SentIsTold /\ RemoteAccounted
    BY Zenon DEF Init, SentIsTold, RemoteAccounted, WasSent, NoWants
<1> QED
    BY <1>1, <1>3, <1>4, <1>5, Zenon DEF MessageQueueInv, Init, HavesKept

(* Steps that have nothing to do with forward-haves.                       *)
LEMMA HavesFrame ==
    ASSUME MessageQueueInv, UNCHANGED <<owed, forwardHaves, batch>>, down => down',
           \/ UNCHANGED <<pc, msg>>
           \/ {pc, pc'} \cap {"extracting", "sending"} = {}
           \/ pc # "extracting" /\ pc' # "extracting" /\ down'
    PROVE  HavesKept'
<1>1. HavesKept
    BY Zenon DEF MessageQueueInv
<1>2. CASE UNCHANGED <<pc, msg>>
    BY <1>1, <1>2, Zenon DEF HavesKept
<1>3. CASE {pc, pc'} \cap {"extracting", "sending"} = {}
    BY <1>1, <1>3, Zenon DEF HavesKept
<1>4. CASE pc # "extracting" /\ pc' # "extracting" /\ down'
    BY <1>1, <1>4, Zenon DEF HavesKept
<1> QED
    BY <1>2, <1>3, <1>4, Zenon

-----------------------------------------------------------------------------
(* A call that adds work leaves the lists of sent wants and the message as *)
(* they are, and a cancel that it clears is withdrawn.                     *)
LEMMA CallingKeeps ==
    ASSUME MessageQueueInv, Calling, UNCHANGED <<peerSent, bcstSent>>,
           withdrawn \subseteq withdrawn', cancels \subseteq cancels' \cup withdrawn'
    PROVE  /\ TimerMatches' /\ WorkSignalled' /\ BatchSound' /\ HavesDropped'
           /\ MsgSound' /\ SentIsTold' /\ RemoteAccounted'
<1>1. /\ outgoingWork' = TRUE
      /\ UNCHANGED <<workScheduled, scheduleWork, pc, batch, msg, supportsHave, remote, down>>
    BY Zenon DEF Calling, SignalWorkReady, timerVars, sendVars
<1>2. TimerMatches' /\ WorkSignalled'
    BY <1>1, Zenon DEF MessageQueueInv, TimerMatches, WorkSignalled, Awake
<1>3. BatchSound' /\ HavesDropped'
    BY <1>1, Zenon DEF MessageQueueInv, BatchSound, HavesDropped
<1>4. \A k : WasSent(k)' <=> WasSent(k)
    BY Zenon DEF WasSent
<1>5. MsgSound'
    BY <1>1, <1>4, Zenon DEF MessageQueueInv, MsgSound
<1>6. SentIsTold'
    BY <1>1, <1>4, Zenon DEF MessageQueueInv, SentIsTold, OnTheWay
<1>7. RemoteAccounted'
    BY <1>1, <1>4, Zenon DEF MessageQueueInv, RemoteAccounted, OnTheWay
<1> QED
    BY <1>2, <1>3, <1>5, <1>6, <1>7, Zenon

(* AddWants, AddBroadcastWantHaves, AddForwardWants, AddForwardHaves and   *)
(* the first step of AddCancels.                                           *)
LEMMA CallerKeeps == MessageQueueInv /\ Caller => MessageQueueInv'
<1> SUFFICES ASSUME MessageQueueInv, Caller PROVE MessageQueueInv'
    OBVIOUS
<1>1. ASSUME NEW k \in PeerKey, NEW type \in Want, AddWants(k, type)
      PROVE  MessageQueueInv'
  <2>1. /\ Calling
        /\ peerPending' = [peerPending EXCEPT ![k] = Add(peerPending[k], type)]
        /\ cancels' = cancels \ {k}
        /\ withdrawn' = withdrawn \cup ({k} \cap cancels)
        /\ UNCHANGED <<peerSent, bcstPending, bcstSent, forwardPending, forwardHaves, owed>>
      BY <1>1, Zenon DEF AddWants, ClearCancel, forwardVars
  <2>2. k \in Key /\ Add(peerPending[k], type) \in Want \cup {"none"}
      BY KeyAssumption, Zenon DEF Add, MessageQueueInv, TypeOK
  <2>3. TypeOK'
      BY <2>1, <2>2 DEF MessageQueueInv, TypeOK, Calling, SignalWorkReady, cancelVars, timerVars, sendVars
  <2>4. CancelsApart'
      BY <2>1, Zenon DEF MessageQueueInv, TypeOK, CancelsApart, WasSent
  <2>5. KeysKept'
      BY <2>1, Zenon DEF MessageQueueInv, TypeOK, KeysKept
  <2>6. withdrawn \subseteq withdrawn' /\ cancels \subseteq cancels' \cup withdrawn'
      BY <2>1, Zenon
  <2>7. HavesKept'
      BY <2>1, HavesFrame, Zenon DEF Calling, sendVars
  <2> QED
      BY <2>1, <2>3, <2>4, <2>5, <2>6, <2>7, CallingKeeps, Zenon DEF MessageQueueInv
<1>2. ASSUME NEW k \in BcstKey, AddBroadcastWantHaves(k)
      PROVE  MessageQueueInv'
  <2>1. /\ Calling
        /\ bcstPending' = bcstPending \cup {k}
        /\ cancels' = cancels \ {k}
        /\ withdrawn' = withdrawn \cup ({k} \cap cancels)
        /\ UNCHANGED <<peerPending, peerSent, bcstSent, forwardPending, forwardHaves, owed>>
      BY <1>2, Zenon DEF AddBroadcastWantHaves, ClearCancel, forwardVars
  <2>2. k \in Key
      BY KeyAssumption, Zenon
  <2>3. TypeOK'
      BY <2>1, <2>2 DEF MessageQueueInv, TypeOK, Calling, SignalWorkReady, cancelVars, timerVars, sendVars
  <2>4. CancelsApart'
      BY <2>1, Zenon DEF MessageQueueInv, CancelsApart, WasSent
  <2>5. KeysKept'
      BY <2>1, Zenon DEF MessageQueueInv, KeysKept
  <2>6. withdrawn \subseteq withdrawn' /\ cancels \subseteq cancels' \cup withdrawn'
      BY <2>1, Zenon
  <2>7. HavesKept'
      BY <2>1, HavesFrame, Zenon DEF Calling, sendVars
  <2> QED
      BY <2>1, <2>3, <2>4, <2>5, <2>6, <2>7, CallingKeeps, Zenon DEF MessageQueueInv
<1>3. ASSUME NEW k \in ForwardKey, AddForwardWants(k)
      PROVE  MessageQueueInv'
  <2>1. /\ Calling
        /\ forwardPending' = forwardPending \cup {k}
        /\ UNCHANGED <<peerPending, peerSent, bcstPending, bcstSent, cancels, forwardHaves,
                       owed, withdrawn>>
      BY <1>3, Zenon DEF AddForwardWants, wantVars
  <2>2. TypeOK'
      BY <2>1 DEF MessageQueueInv, TypeOK, Calling, SignalWorkReady, cancelVars, timerVars, sendVars
  <2>3. CancelsApart' /\ KeysKept'
      BY <2>1, Zenon DEF MessageQueueInv, CancelsApart, KeysKept, WasSent
  <2>4. withdrawn \subseteq withdrawn' /\ cancels \subseteq cancels' \cup withdrawn'
      BY <2>1, Zenon
  <2>5. HavesKept'
      BY <2>1, HavesFrame, Zenon DEF Calling, sendVars
  <2> QED
      BY <2>1, <2>2, <2>3, <2>4, <2>5, CallingKeeps, Zenon DEF MessageQueueInv
<1>4. ASSUME NEW k \in HaveKey, NEW p \in Provider, AddForwardHaves(k, p)
      PROVE  MessageQueueInv'
  <2>1. /\ Calling
        /\ forwardHaves' = forwardHaves \cup {<<k, p>>}
        /\ owed' = IF Overtaken(k, p) THEN owed ELSE owed \cup {<<k, p>>}
        /\ UNCHANGED <<peerPending, peerSent, bcstPending, bcstSent, cancels, forwardPending,
                       withdrawn>>
      BY <1>4, Zenon DEF AddForwardHaves, wantVars
  <2>2. TypeOK'
    <3>1. forwardHaves' \subseteq HaveKey \X Provider /\ owed' \subseteq HaveKey \X Provider
        BY <2>1 DEF MessageQueueInv, TypeOK
    <3> QED
        BY <2>1, <3>1, Zenon DEF MessageQueueInv, TypeOK, Calling, SignalWorkReady, cancelVars,
           timerVars, sendVars
  <2>3. CancelsApart' /\ KeysKept'
      BY <2>1, Zenon DEF MessageQueueInv, CancelsApart, KeysKept, WasSent
  <2>4. withdrawn \subseteq withdrawn' /\ cancels \subseteq cancels' \cup withdrawn'
      BY <2>1, Zenon
  <2>5. HavesKept'
    <3>1. UNCHANGED <<pc, batch, msg, down>>
        BY <2>1, Zenon DEF Calling, sendVars
    <3>2. HavesKept
        BY Zenon DEF MessageQueueInv
    <3>3. ASSUME ~down, NEW e \in owed'
          PROVE  /\ e \in forwardHaves' \/ (pc = "sending" /\ <<"provider", e>> \in msg)
                 /\ (\E q \in Provider : <<"provider", <<e[1], q>>>> \in batch)
                       => <<"provider", e>> \in batch
      <4>1. CASE e \in owed
          BY <2>1, <3>2, <3>3, <4>1, Zenon DEF HavesKept
      <4>2. CASE e \notin owed
        <5>1. e = <<k, p>> /\ ~Overtaken(k, p) /\ e[1] = k
            BY <2>1, <4>2
        <5> QED
            BY <2>1, <5>1, Zenon DEF Overtaken
      <4> QED
          BY <4>1, <4>2, Zenon
    <3> QED
        BY <3>1, <3>2, <3>3, Zenon DEF HavesKept
  <2> QED
      BY <2>1, <2>2, <2>3, <2>4, <2>5, CallingKeeps, Zenon DEF MessageQueueInv
<1>5. ASSUME NEW k \in Key, AddCancels(k)
      PROVE  MessageQueueInv'
  <2>1. /\ cancelPc = "idle" /\ cancelPc' = "lock"
        /\ cancelling' = {k}
        /\ awaiting' = awaiting \ {k}
        /\ UNCHANGED <<peerPending, peerSent, bcstPending, bcstSent, cancels, outgoingWork,
                       forwardPending, forwardHaves, workScheduled, scheduleWork, pc, batch,
                       msg, expecting, supportsHave, remote, owed, down, withdrawn, emptied>>
      BY <1>5, Zenon DEF AddCancels, CancelFrame, wantVars, forwardVars, timerVars,
         sendVars, peerVars
  <2>2. TypeOK'
      BY <2>1 DEF MessageQueueInv, TypeOK
  <2>3. WorkSignalled'
    <3>1. Work' = Work
        BY <2>1, Zenon DEF Work, WorkIn
    <3>2. cancelPc # "signal"
        BY <2>1
    <3> QED
        BY <2>1, <3>1, <3>2, Zenon DEF MessageQueueInv, WorkSignalled, Awake
  <2>4. TimerMatches' /\ CancelsApart' /\ KeysKept' /\ BatchSound' /\ HavesDropped'
      BY <2>1, Zenon DEF MessageQueueInv, TimerMatches, CancelsApart, KeysKept, BatchSound,
         HavesDropped, WasSent
  <2>5. MsgSound' /\ SentIsTold' /\ RemoteAccounted'
      BY <2>1, Zenon DEF MessageQueueInv, MsgSound, SentIsTold, RemoteAccounted, OnTheWay, WasSent
  <2>6. HavesKept'
      BY <2>1, HavesFrame, Zenon
  <2> QED
      BY <2>2, <2>3, <2>4, <2>5, <2>6, Zenon DEF MessageQueueInv
<1> QED
    BY <1>1, <1>2, <1>3, <1>4, <1>5, Zenon DEF Caller

(* The other two steps of AddCancels: a sent want gets its cancel.         *)
LEMMA CancelKeeps == MessageQueueInv /\ CallerGoesOn => MessageQueueInv'
<1> SUFFICES ASSUME MessageQueueInv, CallerGoesOn PROVE MessageQueueInv'
    OBVIOUS
<1>1. CASE AddCancelsSignal
  <2>1. /\ cancelPc' = "idle" /\ outgoingWork' = TRUE
        /\ UNCHANGED <<peerPending, peerSent, bcstPending, bcstSent, cancels, cancelling,
                       forwardPending, forwardHaves, workScheduled, scheduleWork, pc, batch, awaiting,
                       msg, expecting, supportsHave, remote, owed, down, withdrawn, emptied>>
      BY <1>1, Zenon DEF AddCancelsSignal, SignalWorkReady, CancelFrame, wantVars,
         forwardVars, timerVars, sendVars, peerVars
  <2>2. TypeOK'
      BY <2>1 DEF MessageQueueInv, TypeOK
  <2>3. WorkSignalled'
      BY <2>1, Zenon DEF WorkSignalled, Awake
  <2>4. TimerMatches' /\ CancelsApart' /\ KeysKept' /\ BatchSound' /\ HavesDropped'
      BY <2>1, Zenon DEF MessageQueueInv, TimerMatches, CancelsApart, KeysKept, BatchSound,
         HavesDropped, WasSent
  <2>5. MsgSound' /\ SentIsTold' /\ RemoteAccounted'
      BY <2>1, Zenon DEF MessageQueueInv, MsgSound, SentIsTold, RemoteAccounted, OnTheWay, WasSent
  <2>6. HavesKept'
      BY <2>1, HavesFrame, Zenon
  <2> QED
      BY <2>2, <2>3, <2>4, <2>5, <2>6, Zenon DEF MessageQueueInv
<1>2. ASSUME NEW k \in Key, AddCancelsLocked(k)
      PROVE  MessageQueueInv'
  <2>1. /\ cancelPc = "lock"
        /\ peerPending' = [peerPending EXCEPT ![k] = "none"]
        /\ peerSent' = [peerSent EXCEPT ![k] = "none"]
        /\ bcstPending' = bcstPending \ {k}
        /\ bcstSent' = bcstSent \ {k}
        /\ cancels' = IF WasSent(k) THEN cancels \cup {k} ELSE cancels
        /\ cancelPc' = IF WasSent(k) THEN "signal" ELSE "idle"
        /\ cancelling' = {}
        /\ UNCHANGED <<awaiting, outgoingWork, forwardPending, forwardHaves, workScheduled,
                       scheduleWork, pc, batch, msg, expecting, supportsHave, remote, owed,
                       down, withdrawn, emptied>>
      BY <1>2, Zenon DEF AddCancelsLocked, CancelFrame, forwardVars, timerVars, sendVars,
         peerVars
  <2>2. TypeOK'
      BY <2>1 DEF MessageQueueInv, TypeOK
  <2>3. \A x \in Key : /\ x # k => (WasSent(x)' <=> WasSent(x)) /\ peerPending'[x] = peerPending[x]
                                    /\ peerSent'[x] = peerSent[x]
                       /\ x = k => ~WasSent(x)' /\ peerPending'[x] = "none" /\ peerSent'[x] = "none"
      BY <2>1, Zenon DEF MessageQueueInv, TypeOK, WasSent
  <2>4. WorkSignalled'
    <3>1. CASE WasSent(k)
        BY <2>1, <3>1, Zenon DEF WorkSignalled, Awake
    <3>2. CASE ~WasSent(k)
      <4>1. Work' # {} => Work # {}
        <5>1. \A x \in Key : peerPending'[x] # "none" => peerPending[x] # "none"
            BY <2>3, Zenon
        <5> QED
            BY <2>1, <3>2, <5>1 DEF Work, WorkIn
      <4> QED
          BY <2>1, <3>2, <4>1, Zenon DEF MessageQueueInv, WorkSignalled, Awake
    <3> QED
        BY <3>1, <3>2, Zenon
  <2>5. TimerMatches' /\ BatchSound'
      BY <2>1, Zenon DEF MessageQueueInv, TimerMatches, BatchSound
  <2>6. CancelsApart'
      BY <2>1, <2>3 DEF MessageQueueInv, TypeOK, CancelsApart
  <2>7. KeysKept' /\ HavesDropped'
      BY <2>1, <2>3, Zenon DEF MessageQueueInv, KeysKept, HavesDropped
  <2>8. MsgSound'
      BY <2>1, <2>3, Zenon DEF MessageQueueInv, MsgSound
  <2>9. SentIsTold'
      BY <2>1, <2>3, Zenon DEF MessageQueueInv, SentIsTold, OnTheWay
  <2>10. RemoteAccounted'
      BY <2>1, <2>3 DEF MessageQueueInv, TypeOK, RemoteAccounted, OnTheWay
  <2>11. HavesKept'
      BY <2>1, HavesFrame, Zenon
  <2> QED
      BY <2>2, <2>4, <2>5, <2>6, <2>7, <2>8, <2>9, <2>10, <2>11, Zenon DEF MessageQueueInv
<1> QED
    BY <1>1, <1>2, Zenon DEF CallerGoesOn

-----------------------------------------------------------------------------
(* An iteration of runQueue that sends nothing, because there is no work   *)
(* or because the timer was set.                                           *)
LEMMA IdleKeeps ==
    ASSUME MessageQueueInv, LoopFrame, NextIteration, UNCHANGED <<wantVars, down, batch, emptied>>,
           pc = "select", outgoingWork' \in BOOLEAN, workScheduled' \in 0 .. MaxDebounce,
           scheduleWork' \in {"off", "running", "fired"}, TimerMatches',
           Work = {} \/ workScheduled' # 0
    PROVE  MessageQueueInv'
<1>1. UNCHANGED <<peerPending, peerSent, bcstPending, bcstSent, cancels, down, batch, emptied,
                  awaiting, forwardPending, forwardHaves, cancelPc, cancelling, msg, expecting,
                  supportsHave, remote, owed, withdrawn>>
    BY Zenon DEF LoopFrame, wantVars, forwardVars, cancelVars, peerVars
<1>2. pc' \in {"select", "done"}
    BY Zenon DEF NextIteration
<1>3. TypeOK'
    BY <1>1, <1>2, Zenon DEF MessageQueueInv, TypeOK
<1>4. WorkSignalled'
    BY <1>1 DEF WorkSignalled, Awake, Work, WorkIn
<1>5. CancelsApart' /\ KeysKept' /\ BatchSound' /\ HavesDropped'
    BY <1>1, <1>2, Zenon DEF MessageQueueInv, CancelsApart, KeysKept, BatchSound, HavesDropped,
       WasSent
<1>6. MsgSound' /\ SentIsTold' /\ RemoteAccounted'
    BY <1>1, <1>2 DEF MessageQueueInv, MsgSound, SentIsTold, RemoteAccounted, OnTheWay, WasSent
<1>7. HavesKept'
    BY <1>1, <1>2, HavesFrame
<1> QED
    BY <1>3, <1>4, <1>5, <1>6, <1>7, Zenon DEF MessageQueueInv

(* One that reads the lists: no wants for a key with a pending cancel, and *)
(* no want-haves for a peer that does not support them.                    *)
LEMMA SendMessageKeeps ==
    ASSUME MessageQueueInv, NEW p \in [Key -> Want \cup {"none"}], NEW bc \in SUBSET BcstKey,
           \A k \in cancels : p[k] = "none" /\ k \notin bc,
           \A k \in Key : p[k] # "none" => k \in PeerKey,
           SendMessage(p, bc), LoopFrame,
           pc = "select", outgoingWork' \in BOOLEAN, workScheduled' \in 0 .. MaxDebounce,
           scheduleWork' \in {"off", "running", "fired"}, TimerMatches'
    PROVE  MessageQueueInv'
<1>1. /\ bcstPending' = bc
      /\ UNCHANGED <<bcstSent, cancels, awaiting, forwardPending, forwardHaves, cancelPc,
                     cancelling, msg, expecting, supportsHave, remote, owed, withdrawn>>
    BY Zenon DEF SendMessage, LoopFrame, forwardVars, cancelVars, peerVars
<1>2. bc \in SUBSET Key
    BY KeyAssumption, Zenon
<1>3. CASE /\ peerPending' = p
           /\ down' = TRUE
           /\ pc' = "done"
           /\ UNCHANGED <<peerSent, batch, emptied>>
  <2>1. TypeOK'
      BY <1>1, <1>2, <1>3, Zenon DEF MessageQueueInv, TypeOK
  <2>2. CancelsApart' /\ KeysKept'
      BY <1>1, <1>3, Zenon DEF MessageQueueInv, CancelsApart, KeysKept, WasSent
  <2>3. BatchSound' /\ HavesDropped' /\ MsgSound'
      BY <1>1, <1>3, Zenon DEF MessageQueueInv, BatchSound, HavesDropped, MsgSound
  <2>4. WorkSignalled' /\ SentIsTold' /\ RemoteAccounted'
      BY <1>3, Zenon DEF WorkSignalled, SentIsTold, RemoteAccounted
  <2>5. HavesKept'
      BY <1>1, <1>3, HavesFrame, Zenon
  <2> QED
      BY <2>1, <2>2, <2>3, <2>4, <2>5, Zenon DEF MessageQueueInv
<1>4. CASE /\ peerPending' = Supported(p)
           /\ peerSent' = [k \in Key |->
                             IF p[k] = "have" /\ ~supportsHave /\ peerSent[k] = "have"
                             THEN "none" ELSE peerSent[k]]
           /\ batch' \in Batches(WorkIn(Supported(p), bc))
           /\ pc' = "extracting"
           /\ emptied' = FALSE
           /\ UNCHANGED down
  <2> DEFINE W == WorkIn(Supported(p), bc)
  <2>1. /\ Supported(p) \in [Key -> Want \cup {"none"}]
        /\ \A k \in Key : /\ Supported(p)[k] # "none" => Supported(p)[k] = p[k]
                          /\ ~supportsHave => Supported(p)[k] # "have"
      BY Zenon DEF Supported
  <2>2. /\ W \in SUBSET Entries
        /\ \A k : <<"cancel", k>> \in W => k \in cancels
        /\ \A k : <<"bcst", k>> \in W => k \in bc
        /\ \A k, t : t \in Want /\ <<t, k>> \in W => k \in Key /\ Supported(p)[k] = t
    <3>1. TypeOK
        BY Zenon DEF MessageQueueInv
    <3> QED
        BY <1>2, <2>1, <3>1, WorkEntries, Zenon
  <2> HIDE DEF W
  <2>3. batch' \subseteq W
      BY <1>4, Zenon DEF Batches, W
  <2>4. peerSent' = peerSent
    <3>1. \A k \in Key : peerSent'[k] = peerSent[k]
        BY <1>4, Zenon DEF MessageQueueInv, HavesDropped
    <3> QED
        BY <1>4, <3>1, Zenon DEF MessageQueueInv, TypeOK
  <2>5. TypeOK'
    <3>1. batch' \subseteq Entries
        BY <2>2, <2>3, Zenon
    <3> QED
        BY <1>1, <1>2, <1>4, <2>1, <2>4, <3>1, Zenon DEF MessageQueueInv, TypeOK
  <2>6. CancelsApart'
    <3>1. cancels \subseteq Key
        BY Zenon DEF MessageQueueInv, TypeOK
    <3> QED
        BY <1>1, <1>4, <2>1, <2>4, <3>1, Zenon DEF MessageQueueInv, CancelsApart, WasSent
  <2>7. KeysKept'
      BY <1>1, <1>4, <2>1, <2>4, Zenon DEF MessageQueueInv, KeysKept
  <2>8. BatchSound'
    <3> SUFFICES ASSUME NEW k \in Key
                 PROVE  /\ <<"cancel", k>> \in batch' =>
                              <<"bcst", k>> \notin batch' /\ \A t \in Want : <<t, k>> \notin batch'
                        /\ ~(<<"have", k>> \in batch' /\ <<"block", k>> \in batch')
                        /\ (\E t \in Want : <<t, k>> \in batch') => k \in PeerKey
                        /\ <<"bcst", k>> \in batch' => k \in BcstKey
        BY Zenon DEF BatchSound
    <3>1. \A t \in Want : <<t, k>> \in batch' => Supported(p)[k] = t /\ p[k] = t /\ t # "none"
        BY <2>1, <2>2, <2>3, Zenon DEF Want
    <3>2. <<"bcst", k>> \in batch' => k \in bc
        BY <2>2, <2>3, Zenon
    <3>3. <<"cancel", k>> \in batch' => k \in cancels
        BY <2>2, <2>3, Zenon
    <3> QED
        BY <3>1, <3>2, <3>3, Zenon DEF Want
  <2>9. HavesDropped'
    <3>1. \A k \in Key : <<"have", k>> \in batch' => Supported(p)[k] = "have"
        BY <2>2, <2>3, Zenon DEF Want
    <3> QED
        BY <1>1, <2>1, <2>4, <3>1, Zenon DEF MessageQueueInv, HavesDropped
  <2>10. WorkSignalled' /\ MsgSound'
      BY <1>4, Zenon DEF WorkSignalled, MsgSound
  <2>11. SentIsTold' /\ RemoteAccounted'
      BY <1>1, <1>4, <2>4, Zenon DEF MessageQueueInv, SentIsTold, RemoteAccounted, OnTheWay, WasSent
  <2>12. HavesKept'
    <3> SUFFICES ASSUME ~down, NEW e \in owed
                 PROVE  /\ e \in forwardHaves
                        /\ (\E q \in Provider : <<"provider", <<e[1], q>>>> \in batch')
                              => <<"provider", e>> \in batch'
        BY <1>1, <1>4, Zenon DEF HavesKept
    <3>1. e \in forwardHaves
        BY Zenon DEF MessageQueueInv, HavesKept
    <3>2. <<"provider", e>> \in W
        BY <3>1, Zenon DEF W, WorkIn
    <3>3. ASSUME NEW q \in Provider, <<"provider", <<e[1], q>>>> \in batch',
                 <<"provider", e>> \notin batch'
          PROVE  FALSE
      <4>1. \A x \in batch', y \in W \ batch' : Rank[x[1]] = 5 => x[2][1] # y[2][1]
          BY <1>4, Zenon DEF Batches, W
      <4>2. Rank["provider"] = 5
          BY Zenon DEF Rank
      <4>3. /\ <<"provider", <<e[1], q>>>>[1] = "provider"
            /\ <<"provider", <<e[1], q>>>>[2][1] = e[1]
            /\ <<"provider", e>>[2] = e
          OBVIOUS
      <4> QED
          BY <3>2, <3>3, <4>1, <4>2, <4>3, Zenon
    <3> QED
        BY <3>1, <3>3, Zenon
  <2> QED
      BY <2>5, <2>6, <2>7, <2>8, <2>9, <2>10, <2>11, <2>12, Zenon DEF MessageQueueInv
<1> QED
    BY <1>3, <1>4, Zenon DEF SendMessage

(* What sendIfReady sends, or not, is what is pending.                     *)
LEMMA SendIfReadyKeeps ==
    ASSUME MessageQueueInv, SendIfReady, LoopFrame,
           pc = "select", outgoingWork' \in BOOLEAN, workScheduled' \in 0 .. MaxDebounce,
           scheduleWork' \in {"off", "running", "fired"}, TimerMatches'
    PROVE  MessageQueueInv'
<1>1. CASE Work = {}
  <2>1. NextIteration /\ UNCHANGED <<wantVars, down, batch, emptied>>
      BY <1>1, Zenon DEF SendIfReady
  <2> QED
      BY <1>1, <2>1, IdleKeeps, Zenon
<1>2. CASE Work # {}
  <2>1. SendMessage(peerPending, bcstPending)
      BY <1>2, Zenon DEF SendIfReady
  <2>2. peerPending \in [Key -> Want \cup {"none"}] /\ bcstPending \in SUBSET BcstKey
      BY Zenon DEF MessageQueueInv, TypeOK, KeysKept
  <2>3. \A k \in cancels : peerPending[k] = "none" /\ k \notin bcstPending
      BY Zenon DEF MessageQueueInv, CancelsApart
  <2>4. \A k \in Key : peerPending[k] # "none" => k \in PeerKey
      BY Zenon DEF MessageQueueInv, KeysKept
  <2> QED
      BY <2>1, <2>2, <2>3, <2>4, SendMessageKeeps, Zenon
<1> QED
    BY <1>1, <1>2, Zenon

(* The iterations of runQueue that may read the lists, and its timer.      *)
LEMMA SelectKeeps ==
    MessageQueueInv /\ (RebroadcastWantlist \/ ReceiveWork \/ ReceiveTimer \/ TimerFires) => MessageQueueInv'
<1> SUFFICES ASSUME MessageQueueInv, RebroadcastWantlist \/ ReceiveWork \/ ReceiveTimer \/ TimerFires
             PROVE  MessageQueueInv'
    OBVIOUS
<1>t. /\ outgoingWork \in BOOLEAN
      /\ workScheduled \in 0 .. MaxDebounce
      /\ scheduleWork \in {"off", "running", "fired"}
      /\ workScheduled # 0 <=> scheduleWork # "off"
    BY Zenon DEF MessageQueueInv, TypeOK, TimerMatches
<1>z. 0 \in 0 .. MaxDebounce
    BY DebounceAssumption
<1>1. CASE RebroadcastWantlist
  <2> DEFINE p == [k \in Key |-> IF peerSent[k] = "none" THEN peerPending[k]
                                 ELSE Add(peerPending[k], peerSent[k])]
             bc == bcstPending \cup bcstSent
  <2>1. /\ pc = "select"
        /\ SendMessage(p, bc)
        /\ UNCHANGED <<outgoingWork, workScheduled, scheduleWork>>
        /\ LoopFrame
      BY <1>1, Zenon DEF RebroadcastWantlist, timerVars
  <2>2. p \in [Key -> Want \cup {"none"}] /\ bc \in SUBSET BcstKey
      BY Zenon DEF MessageQueueInv, TypeOK, KeysKept, Add
  <2>3. \A k \in cancels : p[k] = "none" /\ k \notin bc
      BY Zenon DEF MessageQueueInv, TypeOK, CancelsApart, WasSent
  <2>4. \A k \in Key : p[k] # "none" => k \in PeerKey
      BY Zenon DEF MessageQueueInv, KeysKept
  <2>5. TimerMatches'
      BY <1>t, <2>1, Zenon DEF TimerMatches
  <2> HIDE DEF p, bc
  <2>6. /\ outgoingWork' \in BOOLEAN /\ workScheduled' \in 0 .. MaxDebounce
        /\ scheduleWork' \in {"off", "running", "fired"}
      BY <1>t, <2>1, Zenon
  <2> QED
      BY <2>1, <2>2, <2>3, <2>4, <2>5, <2>6, SendMessageKeeps, Zenon
<1>2. CASE ReceiveWork
  <2>1. pc = "select" /\ outgoingWork' \in BOOLEAN /\ LoopFrame
      BY <1>2, Zenon DEF ReceiveWork
  <2>2. CASE /\ workScheduled' = 0
             /\ scheduleWork' = IF workScheduled = 0 THEN scheduleWork ELSE "off"
             /\ SendIfReady
    <3>1. TimerMatches' /\ workScheduled' \in 0 .. MaxDebounce
            /\ scheduleWork' \in {"off", "running", "fired"}
        BY <1>t, <1>z, <2>2, Zenon DEF TimerMatches
    <3> QED
        BY <2>1, <2>2, <3>1, SendIfReadyKeeps, Zenon
  <2>3. CASE /\ workScheduled < MaxDebounce
             /\ workScheduled' = workScheduled + 1
             /\ scheduleWork' = "running"
             /\ NextIteration
             /\ UNCHANGED <<wantVars, down, batch, emptied>>
    <3>1. workScheduled' \in 0 .. MaxDebounce /\ workScheduled' # 0
        BY <1>t, <2>3, DebounceAssumption
    <3>2. TimerMatches' /\ scheduleWork' \in {"off", "running", "fired"}
        BY <2>3, <3>1, Zenon DEF TimerMatches
    <3> QED
        BY <2>1, <2>3, <3>1, <3>2, IdleKeeps, Zenon
  <2> QED
      BY <1>2, <2>2, <2>3, Zenon DEF ReceiveWork
<1>3. CASE ReceiveTimer
  <2>1. /\ pc = "select" /\ outgoingWork' = outgoingWork /\ LoopFrame /\ SendIfReady
        /\ workScheduled' = 0 /\ scheduleWork' = "off"
      BY <1>3, Zenon DEF ReceiveTimer
  <2>2. /\ TimerMatches' /\ workScheduled' \in 0 .. MaxDebounce
        /\ scheduleWork' \in {"off", "running", "fired"} /\ outgoingWork' \in BOOLEAN
      BY <1>t, <1>z, <2>1, Zenon DEF TimerMatches
  <2> QED
      BY <2>1, <2>2, SendIfReadyKeeps, Zenon
<1>4. CASE TimerFires
  <2>1. /\ scheduleWork = "running" /\ scheduleWork' = "fired"
        /\ UNCHANGED <<peerPending, peerSent, bcstPending, bcstSent, cancels, down, batch, emptied,
                       awaiting, forwardPending, forwardHaves, cancelPc, cancelling, msg, expecting,
                       supportsHave, remote, owed, withdrawn, outgoingWork, workScheduled, pc>>
      BY <1>4, Zenon DEF TimerFires, LoopFrame, wantVars, forwardVars, cancelVars, peerVars
  <2>2. TypeOK'
      BY <2>1 DEF MessageQueueInv, TypeOK
  <2>3. TimerMatches'
      BY <1>t, <2>1, Zenon DEF TimerMatches
  <2>4. WorkSignalled'
      BY <2>1 DEF MessageQueueInv, WorkSignalled, Awake, Work, WorkIn
  <2>5. CancelsApart' /\ KeysKept' /\ BatchSound' /\ HavesDropped'
      BY <2>1, Zenon DEF MessageQueueInv, CancelsApart, KeysKept, BatchSound, HavesDropped, WasSent
  <2>6. MsgSound' /\ SentIsTold' /\ RemoteAccounted'
      BY <2>1, Zenon DEF MessageQueueInv, MsgSound, SentIsTold, RemoteAccounted, OnTheWay, WasSent
  <2>7. HavesKept'
      BY <2>1, HavesFrame, Zenon
  <2> QED
      BY <2>2, <2>3, <2>4, <2>5, <2>6, <2>7, Zenon DEF MessageQueueInv
<1> QED
    BY <1>1, <1>2, <1>3, <1>4, Zenon

-----------------------------------------------------------------------------
(* What the message says of a key.                                         *)
LEMMA MessageSays ==
    ASSUME MessageQueueInv, pc = "extracting"
    PROVE  /\ Message \in SUBSET Entries
           /\ \A k \in Key :
                 /\ <<"cancel", k>> \in Message <=>
                       <<"cancel", k>> \in batch /\ k \notin Changed
                 /\ (\E t \in Want : <<t, k>> \in Message) <=>
                       /\ k \notin Changed
                       /\ <<"bcst", k>> \in batch \/ \E t \in Want : <<t, k>> \in batch
           /\ \A e : <<"provider", e>> \in batch => <<"provider", e>> \in Message
<1> DEFINE C == {<<"cancel", k>> : k \in In("cancel", batch) \ Changed}
           B == {<<"block", k>> : k \in Wanted("block")}
           H == {<<"have", k>> : k \in Wanted("have") \ Wanted("block")}
           F == {<<"forward", k>> : k \in In("forward", batch) \cap forwardPending}
           P == {<<"provider", e>> : e \in In("provider", batch)}
<1>1. Message = C \cup B \cup H \cup F \cup P
    BY Zenon DEF Message
<1>2. batch \in SUBSET Entries
    BY Zenon DEF MessageQueueInv, TypeOK
<1>3. \A kind, k : k \in In(kind, batch) <=> <<kind, k>> \in batch
    BY <1>2, InPairs, Zenon
<1>4. \A x, k : /\ <<x, k>> \in C <=> x = "cancel" /\ k \in In("cancel", batch) \ Changed
                /\ <<x, k>> \in B <=> x = "block" /\ k \in Wanted("block")
                /\ <<x, k>> \in H <=> x = "have" /\ k \in Wanted("have") \ Wanted("block")
                /\ <<x, k>> \in F => x = "forward"
                /\ <<x, k>> \in P <=> x = "provider" /\ k \in In("provider", batch)
    OBVIOUS
<1>5. \A k : /\ <<"have", k>> \in batch => k \in Key
             /\ <<"block", k>> \in batch => k \in Key
             /\ <<"bcst", k>> \in batch => k \in Key
             /\ <<"cancel", k>> \in batch => k \in Key
             /\ <<"provider", k>> \in batch => k \in HaveKey \X Provider
    BY <1>2, Zenon DEF Entries
<1>6. Wanted("block") \subseteq Key /\ Wanted("have") \subseteq Key
    BY <1>3, <1>5, Zenon DEF Wanted
<1>7. Message \in SUBSET Entries
  <2>1. C \in SUBSET Entries
    <3>1. In("cancel", batch) \ Changed \subseteq Key
        BY <1>3, <1>5, Zenon
    <3> QED
        BY <3>1 DEF Entries
  <2>2. B \in SUBSET Entries
      BY <1>6 DEF Entries
  <2>3. H \in SUBSET Entries
      BY <1>6 DEF Entries
  <2>4. F \in SUBSET Entries
      BY DEF MessageQueueInv, TypeOK, Entries
  <2>5. P \in SUBSET Entries
    <3>1. In("provider", batch) \subseteq HaveKey \X Provider
        BY <1>3, <1>5, Zenon
    <3> QED
        BY <3>1 DEF Entries
  <2> QED
      BY <1>1, <2>1, <2>2, <2>3, <2>4, <2>5, Zenon
<1> HIDE DEF C, B, H, F, P
<1>8. \A k : <<"cancel", k>> \in Message <=> <<"cancel", k>> \in batch /\ k \notin Changed
    BY <1>1, <1>3, <1>4, Zenon
<1>9. \A k : (\E t \in Want : <<t, k>> \in Message) <=> k \in Wanted("block") \cup Wanted("have")
    BY <1>1, <1>4, Zenon DEF Want
<1>10. \A k : k \in Wanted("block") \cup Wanted("have") <=>
                 /\ k \notin Changed
                 /\ <<"bcst", k>> \in batch \/ \E t \in Want : <<t, k>> \in batch
    BY <1>3, Zenon DEF Wanted, Want, MessageQueueInv, TypeOK
<1> QED
    BY <1>1, <1>3, <1>4, <1>7, <1>8, <1>9, <1>10, Zenon

(* MarkSent and the removal of what changed: everything that is recorded   *)
(* as sent by this message is in it, and the other way round.              *)
LEMMA ExtractKeeps == MessageQueueInv /\ Extract => MessageQueueInv'
<1> SUFFICES ASSUME MessageQueueInv, Extract PROVE MessageQueueInv'
    OBVIOUS
<1>1. /\ pc = "extracting"
      /\ MovePeerWants /\ MoveOthers
      /\ msg' = Message /\ batch' = {}
      /\ IF Message = {} THEN NextIteration ELSE pc' = "sending"
      /\ emptied' = (Message = {})
      /\ withdrawn' = withdrawn \ {k \in Key : peerSent'[k] # "none" \/ k \in bcstSent'}
      /\ UNCHANGED <<awaiting, cancelPc, cancelling, outgoingWork, workScheduled, scheduleWork,
                     expecting, supportsHave, remote, owed, down>>
    BY Zenon DEF Extract, cancelVars, timerVars, peerVars
<1>2. /\ Message \in SUBSET Entries
      /\ \A k \in Key :
            /\ <<"cancel", k>> \in Message <=> <<"cancel", k>> \in batch /\ k \notin Changed
            /\ (\E t \in Want : <<t, k>> \in Message) <=>
                  /\ k \notin Changed
                  /\ <<"bcst", k>> \in batch \/ \E t \in Want : <<t, k>> \in batch
      /\ \A e : <<"provider", e>> \in batch => <<"provider", e>> \in Message
    BY <1>1, MessageSays, Zenon
<1>3. \A kind, k : k \in In(kind, batch) <=> <<kind, k>> \in batch
  <2>1. batch \in SUBSET Entries
      BY Zenon DEF MessageQueueInv, TypeOK
  <2> QED
      BY <2>1, InPairs, Zenon
<1>4. \A k \in Key : k \in Changed <=>
         \/ \E t \in Want : <<t, k>> \in batch /\ ~MarkSent(t, k)
         \/ <<"bcst", k>> \in batch /\ k \notin bcstPending
         \/ <<"cancel", k>> \in batch /\ k \notin cancels
    BY <1>3, Zenon DEF Changed
<1>5. \A k \in Key : /\ bcstPending' \subseteq bcstPending
                     /\ k \in bcstSent' <=> k \in bcstSent \/ (<<"bcst", k>> \in batch /\ k \in bcstPending)
                     /\ k \in cancels' <=> k \in cancels /\ <<"cancel", k>> \notin batch
    BY <1>1, <1>3, Zenon DEF MoveOthers
<1>6. \A k \in Key :
         /\ peerPending'[k] # "none" => peerPending[k] # "none"
         /\ peerSent'[k] # "none" <=> peerSent[k] # "none" \/ \E t \in Want : MarkSent(t, k)
         /\ peerSent'[k] = "have" => peerSent[k] = "have" \/ <<"have", k>> \in batch
    BY <1>1, Zenon DEF MovePeerWants, MarkSent, Want, Add
<1>7. \A k \in Key : \A t \in Want : MarkSent(t, k) => <<t, k>> \in batch /\ peerPending[k] # "none"
    BY Zenon DEF MarkSent
<1>8. \A k \in Key : WasSent(k)' <=>
         \/ WasSent(k)
         \/ <<"bcst", k>> \in batch /\ k \in bcstPending
         \/ \E t \in Want : MarkSent(t, k)
    BY <1>5, <1>6, Zenon DEF WasSent
<1>9. TypeOK'
  <2>1. peerPending' \in [Key -> Want \cup {"none"}] /\ peerSent' \in [Key -> Want \cup {"none"}]
      BY <1>1, Zenon DEF MovePeerWants, MessageQueueInv, TypeOK, Want, Add
  <2>2. /\ bcstPending' \subseteq Key /\ bcstSent' \subseteq Key
        /\ forwardPending' \subseteq ForwardKey /\ cancels' \subseteq Key
        /\ forwardHaves' \subseteq HaveKey \X Provider
      BY <1>1, Zenon DEF MoveOthers, MessageQueueInv, TypeOK
  <2>3. pc' \in {"select", "sending", "done"}
      BY <1>1, Zenon DEF NextIteration
  <2>4. withdrawn' \subseteq Key
      BY <1>1, Zenon DEF MessageQueueInv, TypeOK
  <2>5. msg' \subseteq Entries /\ batch' \subseteq Entries /\ emptied' \in BOOLEAN
      BY <1>1, <1>2, Zenon
  <2> QED
      BY <1>1, <2>1, <2>2, <2>3, <2>4, <2>5 DEF MessageQueueInv, TypeOK
<1>10. TimerMatches'
    BY <1>1, Zenon DEF MessageQueueInv, TimerMatches
<1>11. WorkSignalled'
    BY <1>1, Zenon DEF WorkSignalled
<1>12. CancelsApart'
  <2>1. \A k \in cancels : k \in Key /\ peerPending[k] = "none" /\ k \notin bcstPending /\ ~WasSent(k)
      BY Zenon DEF MessageQueueInv, TypeOK, CancelsApart
  <2>2. \A k \in cancels' : k \in cancels
      BY <1>1, Zenon DEF MoveOthers
  <2> QED
      BY <1>5, <1>6, <1>7, <1>8, <2>1, <2>2, Zenon DEF CancelsApart
<1>13. KeysKept'
  <2>1. bcstPending' \cup bcstSent' \subseteq BcstKey
      BY <1>1, Zenon DEF MessageQueueInv, KeysKept, MoveOthers
  <2> QED
      BY <1>6, <1>7, <2>1, Zenon DEF MessageQueueInv, KeysKept
<1>14. BatchSound' /\ HavesDropped'
  <2>1. pc' # "extracting"
      BY <1>1, Zenon DEF NextIteration
  <2> QED
      BY <1>1, <1>6, <2>1, Zenon DEF MessageQueueInv, BatchSound, HavesDropped
<1>15. MsgSound'
  <2> SUFFICES ASSUME NEW k \in Key
               PROVE  /\ (\E t \in Want : <<t, k>> \in msg')
                            => WasSent(k)' \/ k \in cancels' \/ k \in withdrawn'
                      /\ <<"cancel", k>> \in msg' => ~WasSent(k)'
      BY Zenon DEF MsgSound
  <2>1. (\E t \in Want : <<t, k>> \in Message) => WasSent(k)'
      BY <1>2, <1>4, <1>8, Zenon
  <2>2. <<"cancel", k>> \in Message => ~WasSent(k)'
    <3>1. SUFFICES ASSUME <<"cancel", k>> \in Message PROVE ~WasSent(k)'
        OBVIOUS
    <3>2. <<"cancel", k>> \in batch /\ k \in cancels
        BY <1>2, <1>4, <3>1, Zenon
    <3>3. ~WasSent(k) /\ <<"bcst", k>> \notin batch /\ \A t \in Want : <<t, k>> \notin batch
        BY <1>1, <3>2, Zenon DEF MessageQueueInv, CancelsApart, BatchSound
    <3> QED
        BY <1>7, <1>8, <3>3, Zenon
  <2> QED
      BY <1>1, <2>1, <2>2, Zenon
<1>16. SentIsTold'
  <2> SUFFICES ASSUME ~down, NEW k \in Key \ (PeerKey \cap BcstKey), WasSent(k)'
               PROVE  k \in remote \/ OnTheWay(Want \X {k})'
      BY <1>1, Zenon DEF SentIsTold
  <2>1. CASE WasSent(k)
      BY <1>1, <2>1, Zenon DEF MessageQueueInv, SentIsTold, OnTheWay
  <2>2. CASE ~WasSent(k)
    <3>1. \/ <<"bcst", k>> \in batch /\ k \in bcstPending
          \/ \E t \in Want : MarkSent(t, k)
        BY <1>8, <2>2, Zenon
    <3>2. /\ ~(<<"have", k>> \in batch /\ <<"block", k>> \in batch)
          /\ ~(<<"bcst", k>> \in batch /\ \E t \in Want : <<t, k>> \in batch)
          /\ <<"bcst", k>> \in batch \/ (\E t \in Want : <<t, k>> \in batch)
                => <<"cancel", k>> \notin batch
        BY <1>1, Zenon DEF MessageQueueInv, BatchSound
    <3>3. k \notin Changed /\ (<<"bcst", k>> \in batch \/ \E t \in Want : <<t, k>> \in batch)
        BY <1>4, <1>7, <3>1, <3>2, Zenon DEF Want
    <3>4. PICK t \in Want : <<t, k>> \in Message
        BY <1>2, <3>3, Zenon
    <3>5. <<t, k>> \in (Want \X {k}) \cap msg' /\ pc' = "sending"
        BY <1>1, <3>4, Zenon
    <3> QED
        BY <3>5, Zenon DEF OnTheWay
  <2> QED
      BY <2>1, <2>2, Zenon
<1>17. RemoteAccounted'
  <2> SUFFICES ASSUME ~down, NEW k \in remote
               PROVE  WasSent(k)' \/ k \in cancels' \/ k \in withdrawn'
                        \/ OnTheWay({<<"cancel", k>>})'
      BY <1>1, Zenon DEF RemoteAccounted
  <2>1. k \in Key /\ (WasSent(k) \/ k \in cancels \/ k \in withdrawn)
      BY <1>1, Zenon DEF MessageQueueInv, TypeOK, RemoteAccounted, OnTheWay
  <2>2. CASE WasSent(k)
      BY <1>8, <2>1, <2>2, Zenon
  <2>3. CASE k \in withdrawn
      BY <1>1, <2>1, <2>3, Zenon DEF WasSent
  <2>4. CASE k \in cancels
    <3>1. CASE <<"cancel", k>> \notin batch
        BY <1>5, <2>1, <2>4, <3>1, Zenon
    <3>2. CASE <<"cancel", k>> \in batch
      <4>1. <<"bcst", k>> \notin batch /\ \A t \in Want : <<t, k>> \notin batch
          BY <1>1, <2>1, <3>2, Zenon DEF MessageQueueInv, BatchSound
      <4>2. k \notin Changed
          BY <1>4, <2>1, <2>4, <4>1, Zenon
      <4>3. <<"cancel", k>> \in msg' /\ pc' = "sending"
          BY <1>1, <1>2, <2>1, <3>2, <4>2, Zenon
      <4> QED
          BY <4>3, Zenon DEF OnTheWay
    <3> QED
        BY <3>1, <3>2, Zenon
  <2> QED
      BY <2>1, <2>2, <2>3, <2>4, Zenon
<1>18. HavesKept'
  <2> SUFFICES ASSUME ~down, NEW e \in owed
               PROVE  e \in forwardHaves' \/ (pc' = "sending" /\ <<"provider", e>> \in msg')
      BY <1>1, Zenon DEF HavesKept
  <2>1. /\ e \in forwardHaves /\ e \in HaveKey \X Provider
        /\ (\E q \in Provider : <<"provider", <<e[1], q>>>> \in batch)
              => <<"provider", e>> \in batch
      BY <1>1, Zenon DEF MessageQueueInv, TypeOK, HavesKept
  <2>2. CASE <<"provider", e>> \in batch
      BY <1>1, <1>2, <2>2, Zenon
  <2>3. CASE <<"provider", e>> \notin batch
    <3>1. ASSUME NEW x \in In("provider", batch) PROVE x[1] # e[1]
      <4>1. <<"provider", x>> \in batch
          BY <1>3, Zenon
      <4>2. x \in HaveKey \X Provider
          BY <4>1, Zenon DEF MessageQueueInv, TypeOK, Entries
      <4>3. x = <<x[1], x[2]>> /\ x[2] \in Provider
          BY <4>2
      <4> QED
          BY <2>1, <2>3, <4>1, <4>3, Zenon
    <3> QED
        BY <1>1, <2>1, <3>1, Zenon DEF MoveOthers
  <2> QED
      BY <2>2, <2>3, Zenon
<1> QED
    BY <1>9, <1>10, <1>11, <1>12, <1>13, <1>14, <1>15, <1>16, <1>17, <1>18, Zenon DEF MessageQueueInv

-----------------------------------------------------------------------------
(* The message arrives: the peer knows what it says.                       *)
LEMMA SendMsgKeeps == MessageQueueInv /\ SendMsg => MessageQueueInv'
<1> SUFFICES ASSUME MessageQueueInv, SendMsg PROVE MessageQueueInv'
    OBVIOUS
<1>1. /\ pc = "sending" /\ pc' = "sent"
      /\ remote' = (remote \ In("cancel", msg)) \cup In("have", msg) \cup In("block", msg)
      /\ owed' = owed \ In("provider", msg)
      /\ UNCHANGED <<awaiting, outgoingWork, msg, expecting, down, peerPending, peerSent,
                     bcstPending, bcstSent, cancels, forwardPending, forwardHaves, cancelPc,
                     cancelling, workScheduled, scheduleWork, batch, supportsHave, withdrawn,
                     emptied>>
    BY Zenon DEF SendMsg, SentFrame, wantVars, forwardVars, cancelVars, timerVars
<1>2. msg \in SUBSET Entries
    BY Zenon DEF MessageQueueInv, TypeOK
<1>3. \A kind, k : k \in In(kind, msg) <=> <<kind, k>> \in msg
    BY <1>2, InPairs, Zenon
<1>4. In("have", msg) \subseteq Key /\ In("block", msg) \subseteq Key
  <2>1. \A k : (<<"have", k>> \in msg => k \in Key) /\ (<<"block", k>> \in msg => k \in Key)
      BY <1>2, Zenon DEF Entries
  <2> QED
      BY <1>3, <2>1, Zenon
<1>5. TypeOK'
  <2>1. remote' \subseteq Key
      BY <1>1, <1>4, Zenon DEF MessageQueueInv, TypeOK
  <2>2. owed' \subseteq HaveKey \X Provider
      BY <1>1, Zenon DEF MessageQueueInv, TypeOK
  <2> QED
      BY <1>1, <2>1, <2>2 DEF MessageQueueInv, TypeOK
<1>6. TimerMatches' /\ WorkSignalled' /\ BatchSound' /\ MsgSound'
    BY <1>1, Zenon DEF MessageQueueInv, TimerMatches, WorkSignalled, BatchSound, MsgSound
<1>7. CancelsApart' /\ KeysKept' /\ HavesDropped'
    BY <1>1, Zenon DEF MessageQueueInv, CancelsApart, KeysKept, HavesDropped, WasSent
<1>8. SentIsTold'
  <2> SUFFICES ASSUME ~down, NEW k \in Key \ (PeerKey \cap BcstKey), WasSent(k)
               PROVE  k \in remote'
      BY <1>1, Zenon DEF SentIsTold, WasSent
  <2>1. k \in remote \/ \E t \in Want : <<t, k>> \in msg
      BY DEF MessageQueueInv, SentIsTold, OnTheWay
  <2>2. <<"cancel", k>> \notin msg
      BY <1>1, Zenon DEF MessageQueueInv, MsgSound
  <2> QED
      BY <1>1, <1>3, <2>1, <2>2, Zenon DEF Want
<1>9. RemoteAccounted'
  <2> SUFFICES ASSUME ~down, NEW k \in remote'
               PROVE  WasSent(k) \/ k \in cancels \/ k \in withdrawn
      BY <1>1, Zenon DEF RemoteAccounted, WasSent
  <2>1. CASE \E t \in Want : <<t, k>> \in msg
    <3>1. k \in Key
        BY <1>3, <1>4, <2>1, Zenon DEF Want
    <3> QED
        BY <1>1, <2>1, <3>1, Zenon DEF MessageQueueInv, MsgSound
  <2>2. CASE ~\E t \in Want : <<t, k>> \in msg
    <3>1. k \in remote /\ <<"cancel", k>> \notin msg
        BY <1>1, <1>3, <2>2, Zenon DEF Want
    <3> QED
        BY <3>1, Zenon DEF MessageQueueInv, RemoteAccounted, OnTheWay
  <2> QED
      BY <2>1, <2>2, Zenon
<1>10. HavesKept'
    BY <1>1, <1>3, Zenon DEF MessageQueueInv, HavesKept
<1> QED
    BY <1>5, <1>6, <1>7, <1>8, <1>9, <1>10, Zenon DEF MessageQueueInv

(* The steps around it change neither the lists nor what the peer knows.   *)
LEMMA OtherStepsKeep ==
    ASSUME MessageQueueInv, SentFrame, UNCHANGED <<remote, owed>>,
           awaiting' \subseteq Key, expecting' \subseteq Key, msg' \subseteq Entries,
           outgoingWork' \in BOOLEAN, down' \in BOOLEAN, down => down',
           \/ UNCHANGED <<pc, outgoingWork, msg>>
           \/ pc \notin {"extracting", "sending"} /\ pc' \in {"adding", "done"}
           \/ pc \notin {"extracting", "sending"} /\ pc' = "select" /\ (Work # {} => outgoingWork')
           \/ down' /\ pc # "extracting" /\ pc' = "done"
    PROVE  MessageQueueInv'
<1>1. UNCHANGED <<peerPending, peerSent, bcstPending, bcstSent, cancels, forwardPending,
                  forwardHaves, cancelPc, cancelling, workScheduled, scheduleWork, batch,
                  supportsHave, withdrawn, emptied, remote, owed>>
    BY Zenon DEF SentFrame, wantVars, forwardVars, cancelVars, timerVars
<1>2. TypeOK'
    BY <1>1 DEF MessageQueueInv, TypeOK
<1>3. Work' = Work
    BY <1>1, Zenon DEF Work, WorkIn
<1>4. TimerMatches' /\ CancelsApart' /\ KeysKept'
    BY <1>1, Zenon DEF MessageQueueInv, TimerMatches, CancelsApart, KeysKept, WasSent
<1>5. BatchSound' /\ HavesDropped'
    BY <1>1, Zenon DEF MessageQueueInv, BatchSound, HavesDropped
<1>6. WorkSignalled'
    BY <1>1, <1>3, Zenon DEF MessageQueueInv, WorkSignalled, Awake
<1>7. MsgSound'
    BY <1>1, Zenon DEF MessageQueueInv, MsgSound, WasSent
<1>8. SentIsTold'
    BY <1>1, Zenon DEF MessageQueueInv, SentIsTold, OnTheWay, WasSent
<1>9. RemoteAccounted'
    BY <1>1, Zenon DEF MessageQueueInv, RemoteAccounted, OnTheWay, WasSent
<1>10. HavesKept'
    BY <1>1, HavesFrame, Zenon
<1> QED
    BY <1>2, <1>4, <1>5, <1>6, <1>7, <1>8, <1>9, <1>10, Zenon DEF MessageQueueInv

(* Every step keeps the invariant.                                         *)
LEMMA NextIInv == MessageQueueInv /\ [Next]_vars => MessageQueueInv'
<1> SUFFICES ASSUME MessageQueueInv, [Next]_vars PROVE MessageQueueInv'
    OBVIOUS
<1>t. /\ awaiting \subseteq Key /\ expecting \subseteq Key /\ msg \subseteq Entries
      /\ outgoingWork \in BOOLEAN /\ down \in BOOLEAN
    BY Zenon DEF MessageQueueInv, TypeOK
<1>1. CASE Caller
    BY <1>1, CallerKeeps, Zenon
<1>2. CASE CallerGoesOn
    BY <1>2, CancelKeeps, Zenon
<1>3. CASE RebroadcastWantlist \/ ReceiveWork \/ ReceiveTimer \/ TimerFires
    BY <1>3, SelectKeeps, Zenon
<1>4. CASE Extract
    BY <1>4, ExtractKeeps, Zenon
<1>5. CASE SendMsg
    BY <1>5, SendMsgKeeps, Zenon
<1>6. CASE SendMsgFails
    BY <1>t, <1>6, OtherStepsKeep, Zenon DEF SendMsgFails
<1>7. CASE SimulateDontHave
  <2>1. In("block", msg) \subseteq Key
    <3>1. \A k : k \in In("block", msg) <=> <<"block", k>> \in msg
        BY <1>t, InPairs, Zenon
    <3>2. \A k : <<"block", k>> \in msg => k \in Key
        BY <1>t, Zenon DEF Entries
    <3> QED
        BY <3>1, <3>2, Zenon
  <2>2. /\ pc = "sent" /\ pc' = "adding" /\ msg' = {} /\ SentFrame
        /\ UNCHANGED <<awaiting, outgoingWork, down, remote, owed>>
        /\ expecting' \subseteq Key
      BY <1>7, <2>1, Zenon DEF SimulateDontHave
  <2> QED
      BY <1>t, <2>2, OtherStepsKeep, Zenon
<1>8. CASE AddTimeouts
  <2>1. /\ pc = "adding" /\ NextIteration /\ SentFrame
        /\ awaiting' = awaiting \cup expecting
        /\ expecting' = {}
        /\ UNCHANGED <<msg, down, remote, owed>>
        /\ outgoingWork' \in BOOLEAN
        /\ Work # {} => outgoingWork'
      BY <1>t, <1>8, Zenon DEF AddTimeouts, SignalWorkReady
  <2>2. pc' \in {"select", "done"}
      BY <2>1, Zenon DEF NextIteration
  <2> QED
      BY <1>t, <2>1, <2>2, OtherStepsKeep, Zenon
<1>9. CASE Exit
    BY <1>t, <1>9, OtherStepsKeep, Zenon DEF Exit
<1>10. CASE Shutdown
    BY <1>t, <1>10, OtherStepsKeep, Zenon DEF Shutdown
<1>11. ASSUME NEW late \in SUBSET awaiting, TimeOut(late)
       PROVE  MessageQueueInv'
    BY <1>t, <1>11, OtherStepsKeep, Zenon DEF TimeOut
<1>12. CASE UNCHANGED vars
    BY <1>t, <1>12, OtherStepsKeep, Zenon DEF vars, SentFrame, wantVars, forwardVars,
       cancelVars, timerVars, sendVars, peerVars
<1> QED
    BY <1>1, <1>2, <1>3, <1>4, <1>5, <1>6, <1>7, <1>8, <1>9, <1>10, <1>11, <1>12, Zenon DEF
       Next, RunQueue

(* The invariant always holds.                                             *)
LEMMA AlwaysIInv == Spec => []MessageQueueInv
<1> QED
    BY InitIInv, NextIInv, PTL DEF Spec

-----------------------------------------------------------------------------
(* The variables have their types; the work is delayed at most MaxDebounce *)
(* times.                                                                  *)
THEOREM TypeCorrect == Spec => []TypeOK
<1>1. MessageQueueInv => TypeOK
    BY Zenon DEF MessageQueueInv
<1> QED
    BY <1>1, AlwaysIInv, PTL

(* runQueue never waits for the value of a timer that is not running.      *)
THEOREM DrainNeverHangs == Spec => []TimerMatches
<1>1. MessageQueueInv => TimerMatches
    BY Zenon DEF MessageQueueInv
<1> QED
    BY <1>1, AlwaysIInv, PTL

(* No wakeup of runQueue is lost, unless the message came out empty.       *)
THEOREM WakeupsNotLost == Spec => []WorkSignalled
<1>1. MessageQueueInv => WorkSignalled
    BY Zenon DEF MessageQueueInv
<1> QED
    BY <1>1, AlwaysIInv, PTL

(* What extractOutgoingMessage records as sent was told to the peer.       *)
THEOREM RecordedIsTold == Spec => []SentIsTold
<1>1. MessageQueueInv => SentIsTold
    BY Zenon DEF MessageQueueInv
<1> QED
    BY <1>1, AlwaysIInv, PTL

(* What the peer was told is recorded, or its cancel is under way, unless  *)
(* a new want withdrew the cancel.                                         *)
THEOREM ToldIsRecorded == Spec => []RemoteAccounted
<1>1. MessageQueueInv => RemoteAccounted
    BY Zenon DEF MessageQueueInv
<1> QED
    BY <1>1, AlwaysIInv, PTL

(* extractOutgoingMessage forgets no forward-have that it did not send,    *)
(* but for those added while it sends others of their key.                 *)
THEOREM HavesReachThePeer == Spec => []HavesNotLost
<1>1. MessageQueueInv => HavesNotLost
  <2> SUFFICES ASSUME MessageQueueInv, ~down, NEW e \in owed
               PROVE  e \in forwardHaves \cup In("provider", msg)
      BY Zenon DEF HavesNotLost
  <2>1. msg \in SUBSET Entries
      BY Zenon DEF MessageQueueInv, TypeOK
  <2>2. e \in In("provider", msg) <=> <<"provider", e>> \in msg
      BY <2>1, InPairs, Zenon
  <2> QED
      BY <2>2, Zenon DEF MessageQueueInv, HavesKept
<1> QED
    BY <1>1, AlwaysIInv, PTL

=============================================================================
