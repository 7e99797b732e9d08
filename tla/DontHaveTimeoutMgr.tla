-------------------------- MODULE DontHaveTimeoutMgr --------------------------
(***************************************************************************)
(* bitswap/client/internal/messagequeue/donthavetimeoutmgr.go: a DONT_HAVE *)
(* is simulated for every want-block that a peer does not answer in time.  *)
(*                                                                         *)
(* One action is one critical section of dhtm.lk.  Time is discrete: Tick  *)
(* lets a unit of it pass.  A pendingWant carries its age (the time since  *)
(* it was sent) up to MaxTimeout, for no timeout is longer.  What the      *)
(* timeout becomes when a latency is measured is any value up to           *)
(* MaxTimeout.                                                             *)
(***************************************************************************)
EXTENDS Naturals, Sequences, FiniteSets

CONSTANTS
    Key,
    DefaultTimeout, \* dontHaveTimeout
    MaxTimeout,     \* maxTimeout
    MaxQueue        \* bound on the length of wantQueue

ASSUME TimeoutAssumption ==
    MaxTimeout \in Nat \ {0} /\ DefaultTimeout \in 1 .. MaxTimeout
ASSUME QueueAssumption == MaxQueue \in Nat

VARIABLES
    started,
    activeWants,    \* the keys of activeWants
    wantQueue,      \* the pendingWants, oldest first
    timeout,
    measured,       \* messageLatency has samples
    timer,          \* time until checkForTimeoutsTimer expires, 0: not running
    expired,        \* its channel holds a value
    consuming,      \* the timer exists, and with it consumeTimeouts
    pinging,        \* measurePingLatency waits for its ping
    adding,         \* the keys of an AddPending waiting for the lock
    addingAge,      \* the time since it read the clock
    firing,         \* the arguments of the fireTimeout goroutines
    down            \* dhtm.ctx is done

vars == <<started, activeWants, wantQueue, timeout, measured, timer, expired,
          consuming, pinging, adding, addingAge, firing, down>>

Init ==
    /\ started = FALSE
    /\ activeWants = {}
    /\ wantQueue = <<>>
    /\ timeout = DefaultTimeout
    /\ measured = FALSE
    /\ timer = 0
    /\ expired = FALSE
    /\ consuming = FALSE
    /\ pinging = FALSE
    /\ adding = {}
    /\ addingAge = 0
    /\ firing = {}
    /\ down = FALSE

PendingWant == [c : Key, active : BOOLEAN, age : 0 .. MaxTimeout]

-----------------------------------------------------------------------------
(* checkForTimeouts, for a queue q, the wants active in it and timeout t.  *)

\* The loop goes on past this pendingWant.
Passed(pw, t) == ~pw.active \/ pw.age >= t

\* The loop stops after n pendingWants.
StopsAfter(q, t, n) ==
    /\ \A i \in 1 .. n : Passed(q[i], t)
    /\ n < Len(q) => ~Passed(q[n + 1], t)

\* The keys among the first n that were not answered in time.
Late(q, n) == {q[i].c : i \in {j \in 1 .. n : q[j].active}}

\* Faulty variant: the next check is not scheduled.
ScheduleNothing(q, t, n) == UNCHANGED <<timer, consuming>>

\* The next check is due when the oldest want left is over its timeout.
Schedule(q, t, n) ==
    IF n = Len(q) \/ down
    THEN UNCHANGED <<timer, consuming>>
    ELSE timer' = t - q[n + 1].age /\ consuming' = TRUE

CheckForTimeouts(q, active, t) ==
    \E n \in 0 .. Len(q) :
        /\ StopsAfter(q, t, n)
        /\ wantQueue' = SubSeq(q, n + 1, Len(q))
        /\ activeWants' = active \ Late(q, n)
        /\ firing' = IF Late(q, n) = {} THEN firing ELSE firing \cup {Late(q, n)}
        /\ Schedule(q, t, n)

checkVars == <<wantQueue, activeWants, firing, timer, consuming>>

-----------------------------------------------------------------------------
(* The message queue's calls, all but CancelPending from one goroutine.    *)

\* Start: the latency is known, or measured by a ping.
Start ==
    /\ ~started
    /\ ~down
    /\ started' = TRUE
    /\ \/ \E t \in 0 .. MaxTimeout : timeout' = t /\ UNCHANGED pinging
       \/ pinging' = TRUE /\ UNCHANGED timeout
    /\ UNCHANGED <<checkVars, measured, expired, adding, addingAge, down>>

\* AddPending reads the clock before it takes the lock.
AddPendingStart(ks) ==
    /\ started
    /\ ~down
    /\ adding = {}
    /\ ks # {}
    /\ Len(wantQueue) + Cardinality(ks) <= MaxQueue
    /\ adding' = ks
    /\ addingAge' = 0
    /\ UNCHANGED <<checkVars, started, timeout, measured, expired, pinging, down>>

\* The orders in which the keys ks, which fit in the queue, can be listed.
Orders(ks) ==
    {s \in UNION {[1 .. n -> ks] : n \in 0 .. MaxQueue} :
        /\ \A c \in ks : \E i \in DOMAIN s : s[i] = c
        /\ \A i, j \in DOMAIN s : s[i] = s[j] => i = j}

\* The queue with the keys in s, which are not active yet.
Enqueued(s) ==
    wantQueue \o [i \in DOMAIN s |-> [c |-> s[i], active |-> TRUE, age |-> addingAge]]

\* AddPending with the lock; q is the queue with the new wants.
AddPendingTo(q) ==
    /\ IF activeWants = {}
       THEN CheckForTimeouts(q, activeWants \cup adding, timeout)
       ELSE /\ wantQueue' = q
            /\ activeWants' = activeWants \cup adding
            /\ UNCHANGED <<firing, timer, consuming>>
    /\ adding' = {}
    /\ addingAge' = 0

AddPending ==
    /\ adding # {}
    /\ \E s \in Orders(adding \ activeWants) : AddPendingTo(Enqueued(s))
    /\ UNCHANGED <<started, timeout, measured, expired, pinging, down>>

\* CancelPending: the response is here, or the want is no longer wanted.
CancelPending(ks) ==
    /\ activeWants' = activeWants \ ks
    /\ wantQueue' = [i \in DOMAIN wantQueue |->
                       IF wantQueue[i].c \in ks
                       THEN [wantQueue[i] EXCEPT !.active = FALSE]
                       ELSE wantQueue[i]]
    /\ UNCHANGED <<firing, timer, consuming, started, timeout, measured,
                   expired, pinging, adding, addingAge, down>>

\* Faulty variant: a shorter timeout is not checked against the waiting wants.
UpdateMessageLatencyUnchecked(t) ==
    /\ started
    /\ adding = {}
    /\ ~down
    /\ measured' = TRUE
    /\ timeout' = t
    /\ UNCHANGED <<checkVars, started, expired, pinging, adding, addingAge, down>>

\* UpdateMessageLatency, after which the timeout is t.
UpdateMessageLatency(t) ==
    /\ started
    /\ adding = {}
    /\ ~down
    /\ measured' = TRUE
    /\ timeout' = t
    /\ IF t < timeout
       THEN CheckForTimeouts(wantQueue, activeWants, t)
       ELSE UNCHANGED checkVars
    /\ UNCHANGED <<started, expired, pinging, adding, addingAge, down>>

\* Shutdown, called by the goroutine that adds wants.
Shutdown ==
    /\ ~down
    /\ adding = {}
    /\ down' = TRUE
    /\ timer' = 0
    /\ UNCHANGED <<wantQueue, activeWants, firing, consuming, started, timeout,
                   measured, expired, pinging, adding, addingAge>>

-----------------------------------------------------------------------------
(* The manager's own goroutines, and time.                                 *)

\* measurePingLatency fails, comes after a message, or sets the timeout.
PingAnswered ==
    /\ pinging
    /\ pinging' = FALSE
    /\ \/ UNCHANGED <<checkVars, timeout>>
       \/ /\ ~measured
          /\ \E t \in 0 .. MaxTimeout :
                timeout' = t /\ CheckForTimeouts(wantQueue, activeWants, t)
    /\ UNCHANGED <<started, measured, expired, adding, addingAge, down>>

\* consumeTimeouts receives from the timer's channel.
ConsumeTimeout ==
    /\ consuming
    /\ expired
    /\ expired' = FALSE
    /\ CheckForTimeouts(wantQueue, activeWants, timeout)
    /\ UNCHANGED <<started, timeout, measured, pinging, adding, addingAge, down>>

FireTimeout(ks) ==
    /\ ks \in firing
    /\ firing' = firing \ {ks}
    /\ UNCHANGED <<wantQueue, activeWants, timer, consuming, started, timeout,
                   measured, expired, pinging, adding, addingAge, down>>

Older(age) == IF age < MaxTimeout THEN age + 1 ELSE age

Tick ==
    /\ wantQueue' = [i \in DOMAIN wantQueue |->
                       [wantQueue[i] EXCEPT !.age = Older(@)]]
    /\ addingAge' = IF adding = {} THEN 0 ELSE Older(addingAge)
    /\ timer' = IF timer > 0 THEN timer - 1 ELSE 0
    /\ expired' = (expired \/ timer = 1)
    /\ UNCHANGED <<activeWants, firing, consuming, started, timeout, measured,
                   pinging, adding, down>>

Next ==
    \/ Start \/ AddPending \/ Shutdown
    \/ \E ks \in SUBSET Key : AddPendingStart(ks) \/ CancelPending(ks)
    \/ \E t \in 0 .. MaxTimeout : UpdateMessageLatency(t)
    \/ PingAnswered \/ ConsumeTimeout \/ Tick
    \/ \E ks \in SUBSET Key : FireTimeout(ks)

(* Time passes, and the goroutines run, consumeTimeouts until the shutdown. *)
Spec ==
    /\ Init
    /\ [][Next]_vars
    /\ WF_vars(Tick)
    /\ WF_vars(~down /\ ConsumeTimeout)
    /\ \A ks \in SUBSET Key : WF_vars(FireTimeout(ks))

-----------------------------------------------------------------------------
TypeOK ==
    /\ started \in BOOLEAN
    /\ activeWants \subseteq Key
    /\ wantQueue \in Seq(PendingWant)
    /\ timeout \in 0 .. MaxTimeout
    /\ measured \in BOOLEAN
    /\ timer \in 0 .. MaxTimeout
    /\ expired \in BOOLEAN
    /\ consuming \in BOOLEAN
    /\ pinging \in BOOLEAN
    /\ adding \subseteq Key
    /\ addingAge \in 0 .. MaxTimeout
    /\ firing \subseteq SUBSET Key
    /\ down \in BOOLEAN

(* The map and the queue describe the same wants: a key is active exactly  *)
(* when one pendingWant of the queue is active for it, whatever cancelled  *)
(* ones the queue still holds (AddPending, CancelPending).                 *)
ActiveExact ==
    /\ activeWants = {wantQueue[i].c : i \in {j \in DOMAIN wantQueue : wantQueue[j].active}}
    /\ \A i, j \in DOMAIN wantQueue :
          /\ wantQueue[i].active /\ wantQueue[j].active
          /\ wantQueue[i].c = wantQueue[j].c
          => i = j

(* "The queue is in order from earliest to latest, so if we didn't find an *)
(* expired entry we can stop iterating" (checkForTimeouts), although the   *)
(* clock is read before the lock is taken.                                 *)
QueueInOrder ==
    \A i, j \in DOMAIN wantQueue : i < j => wantQueue[i].age >= wantQueue[j].age

(* "If there was already an earlier pending item in the queue, then there  *)
(* must already be a timeout check scheduled" (AddPending): while a want   *)
(* is active, a check is due no later than the want is over the timeout,   *)
(* or its channel already holds a value, and somebody receives it.         *)
CheckScheduled ==
    ~down => \A i \in DOMAIN wantQueue :
                wantQueue[i].active =>
                   /\ consuming
                   /\ expired \/ (timer > 0 /\ wantQueue[i].age + timer <= timeout)

(* The manager keeps the promise of its interface.                         *)
Promise == INSTANCE DontHaveTimeouts
              WITH awaiting <- activeWants, stopped <- down
KeepsPromise == Promise!DhSpec
=============================================================================
