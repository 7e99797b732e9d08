------------------------- MODULE ProviderQueryManager -------------------------
(***************************************************************************)
(* bitswap/client/internal/providerquerymanager/providerquerymanager.go:   *)
(* sessions ask for the providers of a key; the manager runs one network   *)
(* query for all of them and hands every provider it can connect to on to  *)
(* each of them, until the query ends or they lose interest.               *)
(*                                                                         *)
(* The processes are the callers (FindProvidersAsync and the goroutine of  *)
(* receiveProviders), the run loop, the query workers with one goroutine   *)
(* per provider found, and the network.  They meet in the bounded channel  *)
(* providerQueryMessages.  A send on an unbuffered channel is one step of  *)
(* its two ends, enabled when the receiver is there.                       *)
(*                                                                         *)
(* A request is one call of FindProvidersAsync; a query goes by the name   *)
(* of the request that started it.  The order in which a caller sees the   *)
(* providers, and repetitions, are left out.                               *)
(***************************************************************************)
EXTENDS Naturals, Sequences, FiniteSets

CONSTANTS
    Request,
    Key,
    KeyOf,          \* the key a request asks for
    Provider,
    None,           \* no request, no provider
    QueueCap,       \* capacity of providerQueryMessages
    MaxWorkers      \* maxInProcessRequests

ASSUME KeyOfAssumption == KeyOf \in [Request -> Key]
ASSUME NoneAssumption == None \notin Request
ASSUME CapacityAssumption == QueueCap \in Nat \ {0} /\ MaxWorkers \in Nat \ {0}

VARIABLES
    call,           \* request -> its caller: "idle", "sending", "awaiting",
                    \* "receiving", "cancelling", "cancelled" or "done"
    ctxDone,        \* requests whose session context is done
    unread,         \* request -> receivedProviders
    taken,          \* request -> providers the session has read
    joined,         \* request -> the query whose status it was added to
    messages,       \* providerQueryMessages
    status,         \* key -> query of its inProgressRequestStatus, or None
    listeners,      \* key -> requests whose channels are listeners
    providersSoFar, \* key -> providers
    closes,         \* request -> how often its channel was closed
    buffer,         \* providerQueryRequestBuffer
    query,          \* query -> "none", "buffered", "searching", "draining", "ended"
    seen,           \* query -> providers the network returned
    connecting,     \* query -> providers being connected to
    connected,      \* query -> providers connected to
    down,           \* pqm.ctx is done
    runExited       \* the run loop has returned

callVars == <<call, ctxDone, unread, taken, joined>>
statusVars == <<status, listeners, providersSoFar, closes>>
workVars == <<query, seen, connecting, connected>>
vars == <<callVars, messages, statusVars, buffer, workVars, down, runExited>>

Init ==
    /\ call = [r \in Request |-> "idle"]
    /\ ctxDone = {}
    /\ unread = [r \in Request |-> {}]
    /\ taken = [r \in Request |-> {}]
    /\ joined = [r \in Request |-> None]
    /\ messages = <<>>
    /\ status = [k \in Key |-> None]
    /\ listeners = [k \in Key |-> {}]
    /\ providersSoFar = [k \in Key |-> {}]
    /\ closes = [r \in Request |-> 0]
    /\ buffer = <<>>
    /\ query = [r \in Request |-> "none"]
    /\ seen = [r \in Request |-> {}]
    /\ connecting = [r \in Request |-> {}]
    /\ connected = [r \in Request |-> {}]
    /\ down = FALSE
    /\ runExited = FALSE

Message(kind, r, p) == [kind |-> kind, req |-> r, prov |-> p]

Send(m) == Len(messages) < QueueCap /\ messages' = Append(messages, m)

Move(r, pc) == call' = [call EXCEPT ![r] = pc]

-----------------------------------------------------------------------------
(* FindProvidersAsync.                                                     *)

CallerFrame ==
    UNCHANGED <<ctxDone, taken, joined, statusVars, buffer, workVars, down, runExited>>

Ask(r) ==
    /\ call[r] = "idle"
    /\ Move(r, "sending")
    /\ UNCHANGED <<unread, messages>>
    /\ CallerFrame

\* The session's context ends, at any time during the call.
SessionEnds(r) ==
    /\ call[r] \notin {"idle", "done"}
    /\ r \notin ctxDone
    /\ ctxDone' = ctxDone \cup {r}
    /\ UNCHANGED <<call, unread, taken, joined, messages, statusVars, buffer,
                   workVars, down, runExited>>

\* The first select: the message is queued, or one of the contexts is done.
Enqueue(r) ==
    /\ call[r] = "sending"
    /\ \/ Send(Message("new", r, None)) /\ Move(r, "awaiting")
       \/ (down \/ r \in ctxDone) /\ Move(r, "done") /\ UNCHANGED messages
    /\ UNCHANGED unread
    /\ CallerFrame

\* Faulty variant: the second select gives up when the session ends.
AbandonImpatient(r) ==
    /\ call[r] = "awaiting"
    /\ down \/ r \in ctxDone
    /\ Move(r, "done")
    /\ UNCHANGED <<unread, messages>>
    /\ CallerFrame

\* The second select waits for the run loop's answer (HandleNew) and gives up
\* only when the manager shuts down.
Abandon(r) ==
    /\ call[r] = "awaiting"
    /\ down
    /\ Move(r, "done")
    /\ UNCHANGED <<unread, messages>>
    /\ CallerFrame

-----------------------------------------------------------------------------
(* The goroutine of receiveProviders.  Its channel is closed when closes   *)
(* is not zero; incomingProviders is then nil.                             *)

\* The session reads a provider.
Take(r, p) ==
    /\ call[r] = "receiving"
    /\ p \in unread[r]
    /\ unread' = [unread EXCEPT ![r] = @ \ {p}]
    /\ taken' = [taken EXCEPT ![r] = @ \cup {p}]
    /\ UNCHANGED <<call, ctxDone, joined, messages, statusVars, buffer, workVars,
                   down, runExited>>

\* The loop ends, or a context does.  The goroutine may not have noticed yet
\* that its channel was closed; then it cancels all the same.
Leave(r) ==
    /\ call[r] = "receiving"
    /\ \/ closes[r] > 0 /\ unread[r] = {} /\ Move(r, "done")
       \/ r \in ctxDone /\ Move(r, "cancelling")
       \/ r \in ctxDone /\ closes[r] > 0 /\ Move(r, "done")
       \/ down /\ Move(r, "done")
    /\ unread' = [unread EXCEPT ![r] = {}]
    /\ UNCHANGED messages
    /\ CallerFrame

\* cancelProviderRequest: the cancel message is sent at most once; until the
\* channel is closed whatever comes in is thrown away.
Cancel(r) ==
    /\ \/ call[r] = "cancelling" /\ Send(Message("cancel", r, None))
             /\ Move(r, "cancelled")
       \/ call[r] \in {"cancelling", "cancelled"} /\ (closes[r] > 0 \/ down)
             /\ Move(r, "done") /\ UNCHANGED messages
    /\ UNCHANGED unread
    /\ CallerFrame

-----------------------------------------------------------------------------
(* The run loop.                                                           *)

\* The next message is m; its handler is part of the same step.
Receive(m) ==
    /\ ~runExited
    /\ messages # <<>>
    /\ m = Head(messages)
    /\ messages' = Tail(messages)

\* The requests whose goroutine reads from its channel.
Reading == {r \in Request : call[r] \in {"receiving", "cancelling", "cancelled"}}

CreateStatus(r) ==
    LET k == KeyOf[r] IN
    IF status[k] # None
    THEN UNCHANGED <<status, providersSoFar, buffer, query>>
    ELSE /\ status' = [status EXCEPT ![k] = r]
         /\ providersSoFar' = [providersSoFar EXCEPT ![k] = {}]
         /\ buffer' = Append(buffer, r)
         /\ query' = [query EXCEPT ![r] = "buffered"]

\* newProvideQueryMessage: a query is started unless there is one; the caller
\* gets its channel and the providers so far.
HandleNew(m) ==
    LET r == m.req
        k == KeyOf[r]
    IN
    /\ Receive(m)
    /\ m.kind = "new"
    /\ call[r] = "awaiting"
    /\ CreateStatus(r)
    /\ listeners' = [listeners EXCEPT ![k] = @ \cup {r}]
    /\ joined' = [joined EXCEPT ![r] = status'[k]]
    /\ unread' = [unread EXCEPT ![r] = providersSoFar'[k]]
    /\ Move(r, "receiving")
    /\ UNCHANGED <<ctxDone, taken, closes, seen, connecting, connected, down, runExited>>

\* The same, when the shutdown interrupts one of the handler's two sends.
HandleNewAborted(m) ==
    LET r == m.req
        k == KeyOf[r]
    IN
    /\ down
    /\ Receive(m)
    /\ m.kind = "new"
    /\ \/ /\ status[k] = None
          /\ status' = [status EXCEPT ![k] = r]
          /\ providersSoFar' = [providersSoFar EXCEPT ![k] = {}]
          /\ UNCHANGED <<listeners, buffer, query>>
       \/ /\ CreateStatus(r)
          /\ listeners' = [listeners EXCEPT ![k] = @ \cup {r}]
    /\ UNCHANGED <<callVars, closes, seen, connecting, connected, down, runExited>>

\* receivedProviderMessage: every listener gets the provider, one by one unless
\* the shutdown interrupts.
HandleProvider(m) ==
    LET k == KeyOf[m.req] IN
    /\ Receive(m)
    /\ m.kind = "provider"
    /\ IF status[k] = None
       THEN UNCHANGED <<providersSoFar, unread>>
       ELSE /\ providersSoFar' = [providersSoFar EXCEPT ![k] = @ \cup {m.prov}]
            /\ \E to \in IF down THEN SUBSET listeners[k] ELSE {listeners[k]} :
                  /\ to \subseteq Reading
                  /\ unread' = [r \in Request |->
                                  IF r \in to /\ call[r] = "receiving"
                                  THEN unread[r] \cup {m.prov} ELSE unread[r]]
    /\ UNCHANGED <<call, ctxDone, taken, joined, status, listeners, closes, buffer,
                   workVars, down, runExited>>

\* Close the channels in rs.
Close(rs) == closes' = [r \in Request |-> IF r \in rs THEN closes[r] + 1 ELSE closes[r]]

DeleteStatus(k) ==
    /\ status' = [status EXCEPT ![k] = None]
    /\ listeners' = [listeners EXCEPT ![k] = {}]
    /\ providersSoFar' = [providersSoFar EXCEPT ![k] = {}]

HandlerFrame == UNCHANGED <<callVars, buffer, workVars, down, runExited>>

\* finishedProviderQueryMessage: the key's status goes, whichever query it is.
HandleFinished(m) ==
    LET k == KeyOf[m.req] IN
    /\ Receive(m)
    /\ m.kind = "finished"
    /\ IF status[k] = None
       THEN UNCHANGED statusVars
       ELSE Close(listeners[k]) /\ DeleteStatus(k)
    /\ HandlerFrame

\* Faulty variant: the check for a restarted request is missing.
HandleCancelUnchecked(m) ==
    LET r == m.req
        k == KeyOf[r]
    IN
    /\ Receive(m)
    /\ m.kind = "cancel"
    /\ IF status[k] = None
       THEN UNCHANGED statusVars
       ELSE /\ Close({r})
            /\ IF listeners[k] \ {r} = {}
               THEN DeleteStatus(k)
               ELSE /\ listeners' = [listeners EXCEPT ![k] = @ \ {r}]
                    /\ UNCHANGED <<status, providersSoFar>>
    /\ HandlerFrame

\* Faulty variant: one cancelled request ends the query for all.
HandleCancelForAll(m) ==
    LET r == m.req
        k == KeyOf[r]
    IN
    /\ Receive(m)
    /\ m.kind = "cancel"
    /\ IF status[k] = None \/ r \notin listeners[k]
       THEN UNCHANGED statusVars
       ELSE Close({r}) /\ DeleteStatus(k)
    /\ HandlerFrame

\* cancelRequestMessage: the listener goes, and with the last one the status.
HandleCancel(m) ==
    LET r == m.req
        k == KeyOf[r]
    IN
    /\ Receive(m)
    /\ m.kind = "cancel"
    /\ IF status[k] = None \/ r \notin listeners[k]
       THEN UNCHANGED statusVars
       ELSE /\ Close({r})
            /\ IF listeners[k] = {r}
               THEN DeleteStatus(k)
               ELSE /\ listeners' = [listeners EXCEPT ![k] = @ \ {r}]
                    /\ UNCHANGED <<status, providersSoFar>>
    /\ HandlerFrame

\* The run loop returns and closes what is left.
RunExit ==
    /\ down
    /\ ~runExited
    /\ runExited' = TRUE
    /\ Close(UNION {listeners[k] : k \in Key})
    /\ UNCHANGED <<callVars, messages, status, listeners, providersSoFar, buffer,
                   workVars, down>>

-----------------------------------------------------------------------------
(* The buffer worker and the query workers.                                *)

Working == {q \in Request : query[q] \in {"searching", "draining"}}

WorkerFrame == UNCHANGED <<callVars, statusVars, down, runExited>>

\* A worker takes the next query from the buffer.
Dispatch ==
    /\ buffer # <<>>
    /\ Cardinality(Working) < MaxWorkers
    /\ query' = [query EXCEPT ![Head(buffer)] = "searching"]
    /\ buffer' = Tail(buffer)
    /\ UNCHANGED <<messages, seen, connecting, connected>>
    /\ WorkerFrame

\* The network returns another provider, and a goroutine connects to it.
Found(q, p) ==
    /\ query[q] = "searching"
    /\ p \notin seen[q]
    /\ seen' = [seen EXCEPT ![q] = @ \cup {p}]
    /\ connecting' = [connecting EXCEPT ![q] = @ \cup {p}]
    /\ UNCHANGED <<messages, buffer, query, connected>>
    /\ WorkerFrame

\* ConnectTo fails, or the provider is sent to the run loop.
Connect(q, p) ==
    /\ p \in connecting[q]
    /\ connecting' = [connecting EXCEPT ![q] = @ \ {p}]
    /\ \/ UNCHANGED <<messages, connected>>
       \/ /\ Send(Message("provider", q, p))
          /\ connected' = [connected EXCEPT ![q] = @ \cup {p}]
    /\ UNCHANGED <<buffer, query, seen>>
    /\ WorkerFrame

\* The network's channel is closed: the query is exhausted, timed out or
\* cancelled.
SearchEnds(q) ==
    /\ query[q] = "searching"
    /\ query' = [query EXCEPT ![q] = "draining"]
    /\ UNCHANGED <<messages, buffer, seen, connecting, connected>>
    /\ WorkerFrame

\* Faulty variant: the worker does not wait for the connecting goroutines.
FinishEarly(q) ==
    /\ query[q] = "draining"
    /\ Send(Message("finished", q, None))
    /\ query' = [query EXCEPT ![q] = "ended"]
    /\ seen' = [seen EXCEPT ![q] = {}]
    /\ UNCHANGED <<buffer, connecting, connected>>
    /\ WorkerFrame

\* wg.Wait, then the last message of the query.
Finish(q) ==
    /\ query[q] = "draining"
    /\ connecting[q] = {}
    /\ Send(Message("finished", q, None))
    /\ query' = [query EXCEPT ![q] = "ended"]
    /\ seen' = [seen EXCEPT ![q] = {}]
    /\ UNCHANGED <<buffer, connecting, connected>>
    /\ WorkerFrame

\* The manager shuts down: whoever waits in a send gives up.
WorkerExit(q) ==
    /\ down
    /\ q \in Working
    /\ query' = [query EXCEPT ![q] = "ended"]
    /\ seen' = [seen EXCEPT ![q] = {}]
    /\ connecting' = [connecting EXCEPT ![q] = {}]
    /\ UNCHANGED <<messages, buffer, connected>>
    /\ WorkerFrame

Shutdown ==
    /\ ~down
    /\ down' = TRUE
    /\ UNCHANGED <<callVars, messages, statusVars, buffer, workVars, runExited>>

-----------------------------------------------------------------------------
Handle(m) == HandleNew(m) \/ HandleNewAborted(m) \/ HandleProvider(m)
               \/ HandleFinished(m) \/ HandleCancel(m)

RunLoop == RunExit \/ \E i \in DOMAIN messages : Handle(messages[i])

Caller(r) == Enqueue(r) \/ Abandon(r) \/ Leave(r) \/ Cancel(r)
               \/ \E p \in Provider : Take(r, p)

Worker(q) == SearchEnds(q) \/ Finish(q) \/ WorkerExit(q)
               \/ \E p \in Provider : Connect(q, p)

Next ==
    \/ \E r \in Request : Ask(r) \/ SessionEnds(r) \/ Caller(r) \/ Worker(r)
    \/ \E r \in Request, p \in Provider : Found(r, p)
    \/ RunLoop \/ Dispatch \/ Shutdown

(* Every process that can go on does.  A network query ends, for it has a  *)
(* timeout, and so does an attempt to connect; a session reads what it is  *)
(* offered.                                                                *)
Fairness ==
    /\ WF_vars(RunLoop)
    /\ WF_vars(~down /\ Dispatch)
    /\ \A r \in Request : WF_vars(Caller(r)) /\ WF_vars(Worker(r))

Spec == Init /\ [][Next]_vars /\ Fairness

-----------------------------------------------------------------------------
Stage == {"idle", "sending", "awaiting", "receiving", "cancelling", "cancelled", "done"}

Messages == [kind : {"new", "cancel", "finished"}, req : Request, prov : {None}]
              \cup [kind : {"provider"}, req : Request, prov : Provider]

(* Type invariant of providerquerymanager.go's state.  A finished query, a *)
(* cancelled request and the shutdown all close channels; none is closed   *)
(* twice, which would panic.                                               *)
TypeOK ==
    /\ call \in [Request -> Stage]
    /\ ctxDone \subseteq Request
    /\ unread \in [Request -> SUBSET Provider]
    /\ taken \in [Request -> SUBSET Provider]
    /\ joined \in [Request -> Request \cup {None}]
    /\ messages \in Seq(Messages)
    /\ status \in [Key -> Request \cup {None}]
    /\ listeners \in [Key -> SUBSET Request]
    /\ providersSoFar \in [Key -> SUBSET Provider]
    /\ closes \in [Request -> {0, 1}]
    /\ buffer \in Seq(Request)
    /\ query \in [Request -> {"none", "buffered", "searching", "draining", "ended"}]
    /\ seen \in [Request -> SUBSET Provider]
    /\ connecting \in [Request -> SUBSET Provider]
    /\ connected \in [Request -> SUBSET Provider]
    /\ down \in BOOLEAN
    /\ runExited \in BOOLEAN

(* While the run loop runs, a registered listener is an open channel whose *)
(* goroutine reads from it: sending to the listeners neither panics nor,   *)
(* unless the manager shuts down, blocks the run loop                      *)
(* (receivedProviderMessage.handle).                                       *)
ListenersLive ==
    ~runExited => \A k \in Key : \A r \in listeners[k] :
                     /\ KeyOf[r] = k
                     /\ status[k] # None
                     /\ closes[r] = 0
                     /\ r \in Reading \/ down

(* A query still has its last message to send, or to be handled.           *)
Unfinished(q) ==
    \/ query[q] \in {"buffered", "searching", "draining"}
    \/ Message("finished", q, None) \in {messages[i] : i \in DOMAIN messages}

(* A goroutine that waits on an open channel is a listener of its key, and *)
(* the query recorded for the key will still report its end: neither a     *)
(* cancelled request nor the late message of an earlier query leaves       *)
(* anybody waiting for a channel nobody will close.                        *)
NobodyForgotten ==
    ~down => \A r \in Reading :
                closes[r] = 0 => /\ r \in listeners[KeyOf[r]]
                                 /\ status[KeyOf[r]] # None
                                 /\ Unfinished(status[KeyOf[r]])

(* If nobody who asks for a key cancels, every request, however late it    *)
(* joins, reads exactly the providers its query could connect to           *)
(* (providersSoFar, wg.Wait before the finished message).                  *)
CompleteDelivery ==
    \A r \in Request :
       /\ call[r] = "done"
       /\ ~down
       /\ \A o \in ctxDone : KeyOf[o] # KeyOf[r]
       => taken[r] = connected[joined[r]]

(* Every call of FindProvidersAsync comes to its end: the channel it       *)
(* returned is closed, also when the message channel is full and when the  *)
(* session's end races with the end of the query.                          *)
EveryCallEnds == \A r \in Request : (call[r] # "idle") ~> (call[r] = "done")

=============================================================================
