----------------------------- MODULE MessageQueue -----------------------------
(***************************************************************************)
(* bitswap/client/internal/messagequeue/messagequeue.go: the queue of what *)
(* is to be sent to one peer.  The peer manager, one call at a time (its   *)
(* pqLk), adds wants, cancels, want-forwards and forward-haves; one        *)
(* goroutine waits a little for more (debouncing), reads the lists, builds *)
(* a message without the lock, takes the lock again to mark as sent what   *)
(* has not changed meanwhile, and sends.                                   *)
(*                                                                         *)
(* One action is one critical section of mq.wllock.  A call names one key. *)
(* How many entries fit into a message is left open, at least one does.    *)
(* Priorities and the measuring of latencies are left out, and with them   *)
(* the sent list of want-forwards, which nothing else reads.  Of the       *)
(* DONT_HAVE timeout manager (DontHaveTimeoutMgr) the model has the wants  *)
(* that await a response.                                                  *)
(***************************************************************************)
EXTENDS Naturals

CONSTANTS
    Key,            \* the keys of wants
    PeerKey,        \* the keys wanted from this peer
    BcstKey,        \* the keys that are broadcast
    ForwardKey,     \* the keys of want-forwards
    HaveKey,        \* the keys of forward-haves
    Provider,
    MaxDebounce     \* bound on sendMessageMaxDelay / sendMessageDebounce

ASSUME KeyAssumption == PeerKey \cup BcstKey \subseteq Key
ASSUME DebounceAssumption == MaxDebounce \in Nat \ {0}

VARIABLES
    peerPending, peerSent,          \* peerWants: key -> type, or "none"
    bcstPending, bcstSent,          \* bcstWants
    forwardPending,                 \* forwardWants
    cancels,
    forwardHaves,   \* <<key, provider>>
    awaiting,       \* the want-blocks with a DONT_HAVE timeout
    cancelPc,       \* AddCancels: "idle", "lock" or "signal"
    cancelling,     \* its key
    outgoingWork,   \* the channel holds a signal
    workScheduled,  \* 0: the zero time, n: n signals since it was set
    scheduleWork,   \* the timer: "off", "running", or "fired" with a value
    pc,             \* runQueue: "select", "extracting", "sending", "sent",
                    \* "adding" or "done"
    batch,          \* the work that was put into the message
    msg,            \* what is left of it when the message is sent
    expecting,      \* the want-blocks that get a timeout
    supportsHave,   \* the peer understands HAVE and DONT_HAVE
    down,           \* mq.ctx is done
    remote,         \* the keys the peer takes for wanted
    owed,           \* the forward-haves not yet with the peer, those Overtaken
                    \* left out
    withdrawn,      \* keys whose cancel was cleared before it was sent, until
                    \* they are sent again
    emptied         \* nothing was left of the last message

wantVars == <<peerPending, peerSent, bcstPending, bcstSent, cancels>>
forwardVars == <<forwardPending, forwardHaves>>
cancelVars == <<cancelPc, cancelling>>
timerVars == <<workScheduled, scheduleWork>>
sendVars == <<pc, batch, msg, expecting>>
peerVars == <<supportsHave, remote, owed>>
vars == <<awaiting, wantVars, forwardVars, cancelVars, outgoingWork, timerVars,
          sendVars, peerVars, down, withdrawn, emptied>>

Want == {"have", "block"}
NoWants == [k \in Key |-> "none"]

Init ==
    /\ peerPending = NoWants /\ peerSent = NoWants
    /\ bcstPending = {} /\ bcstSent = {}
    /\ forwardPending = {} /\ forwardHaves = {}
    /\ cancels = {}
    /\ awaiting = {}
    /\ cancelPc = "idle" /\ cancelling = {}
    /\ outgoingWork = FALSE
    /\ workScheduled = 0 /\ scheduleWork = "off"
    /\ pc = "select"
    /\ batch = {} /\ msg = {} /\ expecting = {}
    /\ supportsHave \in BOOLEAN
    /\ down = FALSE
    /\ remote = {} /\ owed = {} /\ withdrawn = {}
    /\ emptied = FALSE

\* The lists as a set of entries <<kind, key>>: a want for the peer has its
\* type for its kind, a forward-have is one entry per provider.
WorkIn(peerWants, bcstWants) ==
    {<<"cancel", k>> : k \in cancels}
      \cup {<<peerWants[k], k>> : k \in {x \in Key : peerWants[x] # "none"}}
      \cup {<<"forward", k>> : k \in forwardPending}
      \cup {<<"bcst", k>> : k \in bcstWants}
      \cup {<<"provider", e>> : e \in forwardHaves}

\* hasPendingWork is that this is not empty.
Work == WorkIn(peerPending, bcstPending)

-----------------------------------------------------------------------------
(* The peer manager's calls.                                               *)

\* Wantlist.Add: want-block overrides want-have.
Add(old, type) == IF old = "none" \/ type = "block" THEN type ELSE old

\* signalWorkReady does nothing when the channel is full.
SignalWorkReady == outgoingWork' = TRUE

Calling ==
    /\ cancelPc = "idle"
    /\ SignalWorkReady
    /\ UNCHANGED <<awaiting, cancelVars, timerVars, sendVars, supportsHave, remote,
                   down, emptied>>

\* A want clears a pending cancel.
ClearCancel(k) ==
    /\ cancels' = cancels \ {k}
    /\ withdrawn' = withdrawn \cup ({k} \cap cancels)

AddWants(k, type) ==
    /\ Calling
    /\ peerPending' = [peerPending EXCEPT ![k] = Add(@, type)]
    /\ ClearCancel(k)
    /\ UNCHANGED <<peerSent, bcstPending, bcstSent, forwardVars, owed>>

AddBroadcastWantHaves(k) ==
    /\ Calling
    /\ bcstPending' = bcstPending \cup {k}
    /\ ClearCancel(k)
    /\ UNCHANGED <<peerPending, peerSent, bcstSent, forwardVars, owed>>

AddForwardWants(k) ==
    /\ Calling
    /\ forwardPending' = forwardPending \cup {k}
    /\ UNCHANGED <<wantVars, forwardHaves, owed, withdrawn>>

\* Others of its key, but not this one, are in the message being built.
Overtaken(k, p) ==
    /\ <<"provider", <<k, p>>>> \notin batch
    /\ \E q \in Provider : <<"provider", <<k, q>>>> \in batch

AddForwardHaves(k, p) ==
    /\ Calling
    /\ forwardHaves' = forwardHaves \cup {<<k, p>>}
    /\ owed' = IF Overtaken(k, p) THEN owed ELSE owed \cup {<<k, p>>}
    /\ UNCHANGED <<wantVars, forwardPending, withdrawn>>

CancelFrame ==
    UNCHANGED <<forwardVars, timerVars, sendVars, peerVars, down, withdrawn, emptied>>

\* AddCancels first stops the DONT_HAVE timeout, under the timeouts' lock.
AddCancels(k) ==
    /\ cancelPc = "idle"
    /\ cancelPc' = "lock"
    /\ cancelling' = {k}
    /\ awaiting' = awaiting \ {k}
    /\ UNCHANGED <<wantVars, outgoingWork>>
    /\ CancelFrame

WasSent(k) == k \in bcstSent \/ peerSent[k] # "none"

\* Then it takes the key off the lists ...
AddCancelsLocked(k) ==
    /\ cancelPc = "lock"
    /\ cancelling = {k}
    /\ peerPending' = [peerPending EXCEPT ![k] = "none"]
    /\ peerSent' = [peerSent EXCEPT ![k] = "none"]
    /\ bcstPending' = bcstPending \ {k}
    /\ bcstSent' = bcstSent \ {k}
    /\ cancels' = IF WasSent(k) THEN cancels \cup {k} ELSE cancels
    /\ cancelPc' = IF WasSent(k) THEN "signal" ELSE "idle"
    /\ cancelling' = {}
    /\ UNCHANGED <<awaiting, outgoingWork>>
    /\ CancelFrame

\* ... and signals without the lock.
AddCancelsSignal ==
    /\ cancelPc = "signal"
    /\ cancelPc' = "idle"
    /\ SignalWorkReady
    /\ UNCHANGED <<awaiting, wantVars, cancelling>>
    /\ CancelFrame

-----------------------------------------------------------------------------
(* runQueue: the first half of sendMessage, up to the unlock in            *)
(* extractOutgoingMessage.                                                 *)

Rank == [cancel |-> 1, have |-> 2, block |-> 2, forward |-> 3, bcst |-> 4,
         provider |-> 5]

\* Entries go into the message in this order, all providers of a key at once,
\* until one makes it full.
Batches(work) ==
    {b \in SUBSET work :
        /\ work # {} => b # {}
        /\ \A e \in b, f \in work \ b :
              /\ Rank[e[1]] <= Rank[f[1]]
              /\ Rank[e[1]] = 5 => e[2][1] # f[2][1]}

\* A peer that does not support HAVE is not sent want-haves: they are dropped.
Supported(wants) ==
    [k \in Key |-> IF wants[k] = "have" /\ ~supportsHave THEN "none" ELSE wants[k]]

\* runQueue looks at mq.ctx between two iterations; onShutdown changes nothing
\* the model has.
NextIteration == pc' = IF down THEN "done" ELSE "select"

\* sendMessage with these pending wants: no sender, or a batch is read.
SendMessage(peerWants, bcstWants) ==
    /\ bcstPending' = bcstWants
    /\ \/ /\ peerPending' = peerWants
          /\ down' = TRUE
          /\ pc' = "done"
          /\ UNCHANGED <<peerSent, batch, emptied>>
       \/ /\ peerPending' = Supported(peerWants)
          /\ peerSent' = [k \in Key |->
                            IF peerWants[k] = "have" /\ ~supportsHave /\ peerSent[k] = "have"
                            THEN "none" ELSE peerSent[k]]
          /\ batch' \in Batches(WorkIn(Supported(peerWants), bcstWants))
          /\ pc' = "extracting"
          /\ emptied' = FALSE
          /\ UNCHANGED down
    /\ UNCHANGED <<bcstSent, cancels>>

SendIfReady ==
    IF Work = {}
    THEN NextIteration /\ UNCHANGED <<wantVars, down, batch, emptied>>
    ELSE SendMessage(peerPending, bcstPending)

LoopFrame ==
    UNCHANGED <<awaiting, forwardVars, cancelVars, msg, expecting, peerVars, withdrawn>>

\* The rebroadcast timer: the sent wants become pending again (Absorb).
RebroadcastWantlist ==
    /\ pc = "select"
    /\ bcstSent # {} \/ \E k \in Key : peerSent[k] # "none"
    /\ SendMessage([k \in Key |-> IF peerSent[k] = "none" THEN peerPending[k]
                                  ELSE Add(peerPending[k], peerSent[k])],
                   bcstPending \cup bcstSent)
    /\ UNCHANGED <<outgoingWork, timerVars>>
    /\ LoopFrame

\* A signal: the scheduled timer, which must be running or have fired, is
\* stopped or drained; then the work is sent at once or the timer is reset.
ReceiveWork ==
    /\ pc = "select"
    /\ outgoingWork
    /\ outgoingWork' = FALSE
    /\ workScheduled # 0 => scheduleWork # "off"
    /\ \/ /\ workScheduled' = 0
          /\ scheduleWork' = IF workScheduled = 0 THEN scheduleWork ELSE "off"
          /\ SendIfReady
       \/ /\ workScheduled < MaxDebounce
          /\ workScheduled' = workScheduled + 1
          /\ scheduleWork' = "running"
          /\ NextIteration
          /\ UNCHANGED <<wantVars, down, batch, emptied>>
    /\ LoopFrame

TimerFires ==
    /\ scheduleWork = "running"
    /\ scheduleWork' = "fired"
    /\ UNCHANGED <<wantVars, outgoingWork, workScheduled, down, pc, batch, emptied>>
    /\ LoopFrame

\* Faulty variant: the time of the first signal is not cleared.
ReceiveTimerForgets ==
    /\ pc = "select"
    /\ scheduleWork = "fired"
    /\ scheduleWork' = "off"
    /\ SendIfReady
    /\ UNCHANGED <<outgoingWork, workScheduled>>
    /\ LoopFrame

\* Nothing was added for a while.
ReceiveTimer ==
    /\ pc = "select"
    /\ scheduleWork = "fired"
    /\ scheduleWork' = "off"
    /\ workScheduled' = 0
    /\ SendIfReady
    /\ UNCHANGED outgoingWork
    /\ LoopFrame

-----------------------------------------------------------------------------
(* The second half of extractOutgoingMessage, with the lock taken again.   *)

In(kind, es) == {e[2] : e \in {x \in es : x[1] = kind}}

\* recallWantlist.MarkSent for a peer entry: the want is still pending, and
\* not as a want-block if it was read as a want-have.
MarkSent(type, k) ==
    /\ <<type, k>> \in batch
    /\ peerPending[k] # "none"
    /\ ~(type = "have" /\ peerPending[k] = "block")

\* The keys whose want or cancel changed since the lists were read.
Changed ==
    {k \in Key : \E t \in Want : <<t, k>> \in batch /\ ~MarkSent(t, k)}
      \cup (In("bcst", batch) \ bcstPending)
      \cup (In("cancel", batch) \ cancels)

\* What the wantlist of the message says of the keys, without the changed
\* ones: want-block overrides want-have, and a broadcast want is a want-block
\* for a peer that does not support HAVE.
Wanted(type) ==
    LET bcst == IF supportsHave THEN "have" ELSE "block"
    IN  (In(type, batch) \cup IF type = bcst THEN In("bcst", batch) ELSE {}) \ Changed

Message ==
    {<<"cancel", k>> : k \in In("cancel", batch) \ Changed}
      \cup {<<"block", k>> : k \in Wanted("block")}
      \cup {<<"have", k>> : k \in Wanted("have") \ Wanted("block")}
      \cup {<<"forward", k>> : k \in In("forward", batch) \cap forwardPending}
      \cup {<<"provider", e>> : e \in In("provider", batch)}

\* Faulty variant: wants that no longer fitted are marked as well.
MoveAllPeerWants ==
    /\ peerPending' = NoWants
    /\ peerSent' = [k \in Key |-> IF peerPending[k] = "none" THEN peerSent[k]
                                  ELSE Add(peerSent[k], peerPending[k])]

\* The peer wants of the batch move from pending to sent.
MovePeerWants ==
    /\ peerPending' = [k \in Key |-> IF \E t \in Want : MarkSent(t, k)
                                     THEN "none" ELSE peerPending[k]]
    /\ peerSent' = [k \in Key |-> IF MarkSent("block", k) THEN "block"
                                  ELSE IF MarkSent("have", k) THEN Add(peerSent[k], "have")
                                  ELSE peerSent[k]]

\* Faulty variant: cancels that no longer fitted are forgotten as well.
MoveAllCancels ==
    /\ bcstPending' = bcstPending \ In("bcst", batch)
    /\ bcstSent' = bcstSent \cup (In("bcst", batch) \cap bcstPending)
    /\ forwardPending' = forwardPending \ In("forward", batch)
    /\ forwardHaves' = {e \in forwardHaves :
                          \A x \in In("provider", batch) : x[1] # e[1]}
    /\ cancels' = {}

\* Faulty variant: forward-haves that no longer fitted are forgotten as well.
MoveAllHaves ==
    /\ bcstPending' = bcstPending \ In("bcst", batch)
    /\ bcstSent' = bcstSent \cup (In("bcst", batch) \cap bcstPending)
    /\ forwardPending' = forwardPending \ In("forward", batch)
    /\ forwardHaves' = {}
    /\ cancels' = cancels \ In("cancel", batch)

\* So do the broadcast wants; the rest is forgotten.
MoveOthers ==
    /\ bcstPending' = bcstPending \ In("bcst", batch)
    /\ bcstSent' = bcstSent \cup (In("bcst", batch) \cap bcstPending)
    /\ forwardPending' = forwardPending \ In("forward", batch)
    /\ forwardHaves' = {e \in forwardHaves :
                          \A x \in In("provider", batch) : x[1] # e[1]}
    /\ cancels' = cancels \ In("cancel", batch)

Extract ==
    /\ pc = "extracting"
    /\ MovePeerWants
    /\ MoveOthers
    /\ msg' = Message
    /\ batch' = {}
    /\ IF Message = {} THEN NextIteration ELSE pc' = "sending"
    /\ emptied' = (Message = {})
    /\ withdrawn' = withdrawn \ {k \in Key : peerSent'[k] # "none" \/ k \in bcstSent'}
    /\ UNCHANGED <<awaiting, cancelVars, outgoingWork, timerVars, expecting,
                   peerVars, down>>

-----------------------------------------------------------------------------
(* The rest of sendMessage.                                                *)

SentFrame ==
    UNCHANGED <<wantVars, forwardVars, cancelVars, timerVars, batch, supportsHave,
                withdrawn, emptied>>

\* SendMsg: the peer gets the message.
SendMsg ==
    /\ pc = "sending"
    /\ remote' = (remote \ In("cancel", msg)) \cup In("have", msg) \cup In("block", msg)
    /\ owed' = owed \ In("provider", msg)
    /\ pc' = "sent"
    /\ UNCHANGED <<awaiting, outgoingWork, msg, expecting, down>>
    /\ SentFrame

\* SendMsg fails for good, and the queue shuts down.
SendMsgFails ==
    /\ pc = "sending"
    /\ down' = TRUE
    /\ msg' = {}
    /\ pc' = "done"
    /\ UNCHANGED <<awaiting, outgoingWork, expecting, remote, owed>>
    /\ SentFrame

\* simulateDontHaveWithTimeout: the want-blocks that are still wanted ...
SimulateDontHave ==
    /\ pc = "sent"
    /\ expecting' = {k \in In("block", msg) : peerSent[k] # "none"}
    /\ msg' = {}
    /\ pc' = "adding"
    /\ UNCHANGED <<awaiting, outgoingWork, down, remote, owed>>
    /\ SentFrame

\* ... get a timeout; then the work that is left is signalled.
AddTimeouts ==
    /\ pc = "adding"
    /\ awaiting' = awaiting \cup expecting
    /\ expecting' = {}
    /\ IF Work = {} THEN UNCHANGED outgoingWork ELSE SignalWorkReady
    /\ NextIteration
    /\ UNCHANGED <<msg, down, remote, owed>>
    /\ SentFrame

\* runQueue waits in its select when mq.ctx ends.
Exit ==
    /\ pc = "select"
    /\ down
    /\ pc' = "done"
    /\ UNCHANGED <<awaiting, outgoingWork, msg, expecting, down, remote, owed>>
    /\ SentFrame

\* The peer disconnects.
Shutdown ==
    /\ ~down
    /\ down' = TRUE
    /\ UNCHANGED <<awaiting, outgoingWork, pc, msg, expecting, remote, owed>>
    /\ SentFrame

\* Wants time out.
TimeOut(late) ==
    /\ late # {}
    /\ awaiting' = awaiting \ late
    /\ UNCHANGED <<outgoingWork, pc, msg, expecting, down, remote, owed>>
    /\ SentFrame

-----------------------------------------------------------------------------
Caller ==
    \/ \E k \in PeerKey, type \in Want : AddWants(k, type)
    \/ \E k \in BcstKey : AddBroadcastWantHaves(k)
    \/ \E k \in ForwardKey : AddForwardWants(k)
    \/ \E k \in HaveKey, p \in Provider : AddForwardHaves(k, p)
    \/ \E k \in Key : AddCancels(k)

CallerGoesOn == AddCancelsSignal \/ \E k \in Key : AddCancelsLocked(k)

RunQueue ==
    \/ RebroadcastWantlist \/ ReceiveWork \/ ReceiveTimer \/ Extract
    \/ SendMsg \/ SendMsgFails \/ SimulateDontHave \/ AddTimeouts \/ Exit

Next ==
    \/ Caller \/ CallerGoesOn \/ RunQueue \/ TimerFires \/ Shutdown
    \/ \E late \in SUBSET awaiting : TimeOut(late)

(* The queue's goroutine and a caller that holds pqLk go on, and the       *)
(* debounce timer fires.                                                   *)
Spec ==
    /\ Init
    /\ [][Next]_vars
    /\ WF_vars(CallerGoesOn)
    /\ WF_vars(RunQueue)
    /\ WF_vars(TimerFires)

-----------------------------------------------------------------------------
Entries ==
    ({"cancel", "have", "block", "bcst"} \X Key)
      \cup ({"forward"} \X ForwardKey)
      \cup ({"provider"} \X (HaveKey \X Provider))

TypeOK ==
    /\ awaiting \subseteq Key
    /\ peerPending \in [Key -> Want \cup {"none"}]
    /\ peerSent \in [Key -> Want \cup {"none"}]
    /\ bcstPending \subseteq Key
    /\ bcstSent \subseteq Key
    /\ forwardPending \subseteq ForwardKey
    /\ cancels \subseteq Key
    /\ forwardHaves \subseteq HaveKey \X Provider
    /\ cancelPc \in {"idle", "lock", "signal"}
    /\ cancelling \subseteq Key
    /\ outgoingWork \in BOOLEAN
    /\ workScheduled \in 0 .. MaxDebounce
    /\ scheduleWork \in {"off", "running", "fired"}
    /\ pc \in {"select", "extracting", "sending", "sent", "adding", "done"}
    /\ batch \subseteq Entries
    /\ msg \subseteq Entries
    /\ expecting \subseteq Key
    /\ supportsHave \in BOOLEAN
    /\ down \in BOOLEAN
    /\ remote \subseteq Key
    /\ owed \subseteq HaveKey \X Provider
    /\ withdrawn \subseteq Key
    /\ emptied \in BOOLEAN

\* The message is on its way, or about to be.
OnTheWay(es) == pc = "sending" /\ es \cap msg # {}

(* "Need to drain the timer if Stop() returns false": runQueue waits for   *)
(* the timer's value only when the timer is running or has fired and was   *)
(* not received, so neither the loop nor a drain ever hangs.               *)
TimerMatches == workScheduled # 0 <=> scheduleWork # "off"

(* A want that is recorded as sent ("The list of wants that have been      *)
(* sent") was told to the peer or is in the message on its way, also when  *)
(* it was cancelled and wanted again while the message was being built.    *)
(* Keys that are both broadcast and wanted from the peer are left out: for *)
(* them msg.Remove takes away both entries when one has changed.           *)
SentIsTold ==
    ~down => \A k \in Key \ (PeerKey \cap BcstKey) :
                WasSent(k) => k \in remote \/ OnTheWay(Want \X {k})

(* What the peer takes for wanted is recorded as sent, or its cancel is    *)
(* pending or on its way; the one exception are keys whose pending cancel  *)
(* a new want has cleared (ClearCancel), until that want is sent.          *)
RemoteAccounted ==
    ~down => \A k \in remote : WasSent(k) \/ k \in cancels \/ k \in withdrawn
                                  \/ OnTheWay({<<"cancel", k>>})

(* A forward-have that was added is with the peer, pending or on its way,  *)
(* also when a message was cut short.  The one exception are those that    *)
(* were added while others of their key were put into a message: they are  *)
(* forgotten with these (Overtaken).                                       *)
HavesNotLost == ~down => owed \subseteq forwardHaves \cup In("provider", msg)

(* No wakeup is lost: when runQueue goes back to its select with work      *)
(* pending, a signal is in the channel or about to be, or the timer has    *)
(* been set; unless all of the last message was removed again.             *)
Awake == outgoingWork \/ workScheduled # 0 \/ cancelPc = "signal"

WorkSignalled == pc = "select" /\ ~down /\ Work # {} => Awake \/ emptied

(* Pending work is sent, however long callers keep adding, unless the      *)
(* queue shuts down or the message is emptied.                             *)
WorkGoesOut == Work # {} ~> (pc = "sending" \/ Work = {} \/ down \/ emptied)
=============================================================================
