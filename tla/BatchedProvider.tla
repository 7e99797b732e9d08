-------------------------- MODULE BatchedProvider --------------------------
(***************************************************************************)
(* The batched provider system (provider/batched/system.go): a loop that   *)
(* collects cids from the queue and from reprovides, until none has come   *)
(* for a while or the batch is old, and announces them at once.            *)
(***************************************************************************)
EXTENDS ProvideQueue

CONSTANTS
    Insecure,       \* the cids that ValidateCid rejects
    KeySet          \* the cids that the key provider yields

VARIABLES
    bpc,            \* where the loop is
    m,              \* the cids collected
    pause, maxc,    \* pauseDetectTimer and maxCollectionDurationTimer
    performed,      \* performedReprovide
    keys,           \* the cids of the batch being announced
    recent,         \* the last reprovide is less than half an interval ago
    cids,           \* the cids each reprovide has yet to pass on
    ended           \* the context of the system is done

batchVars == <<bpc, m, pause, maxc, performed, keys, recent, cids, ended>>
provideVars == <<queueVars, batchVars>>

\* The periodic reprovides, and a caller of Reprovide.
Reproviding == {"ticker", "caller"}

\* stopAndEmptyTimer of a timer that was stopped waits for ever.
Stuck(timer) == timer = "off"

-----------------------------------------------------------------------------
(* Collecting.                                                             *)

\* Mutant: the batch has no age limit.
CollectPauseOnly(c) ==
    /\ m' = m \cup {c}
    /\ IF m # {} /\ Stuck(pause)
       THEN bpc' = "stuck" /\ UNCHANGED <<pause, maxc>>
       ELSE bpc' = "top" /\ pause' = "on" /\ UNCHANGED maxc

\* resetTimersAfterReceivingProvide, and the cid joins the batch.
Collect(c) ==
    /\ m' = m \cup {c}
    /\ IF m # {} /\ Stuck(pause)
       THEN bpc' = "stuck" /\ UNCHANGED <<pause, maxc>>
       ELSE /\ bpc' = "top" /\ pause' = "on"
            /\ maxc' = IF m = {} THEN "on" ELSE maxc

\* The timer that fired has been read; the other one is stopped.
BreakLoop(other) ==
    /\ bpc' = IF Stuck(other) THEN "stuck" ELSE "out"
    /\ pause' = "off" /\ maxc' = "off"

\* The loop returns when the context is done, and stops its timers.
LoopReturns ==
    /\ ended /\ bpc' = "stopped"
    /\ m' = {} /\ keys' = {} /\ performed' = FALSE
    /\ pause' = "off" /\ maxc' = "off"
    /\ UNCHANGED <<queueVars, recent, cids, ended>>

\* The first select: an old batch goes out first.
CheckAge ==
    /\ bpc = "top" /\ maxc = "fired" /\ BreakLoop(pause)
    /\ UNCHANGED <<queueVars, m, performed, keys, recent, cids, ended>>

\* A receive from the queue: its head, or Undef once the queue is closed.
Receive ==
    /\ \/ \E c \in ProvCid : HandOver(c) /\ Collect(c)
       \/ ~working /\ Collect(Undef) /\ UNCHANGED queueVars
    /\ UNCHANGED <<performed, keys, recent, cids, ended>>

\* The second select: the queue comes before reprovides, when its goroutine
\* is already offering.
Poll ==
    \/ bpc = "top" /\ maxc # "fired" /\ Receive
    \/ /\ bpc = "top" /\ maxc # "fired" /\ working
       /\ bpc' = "wait"
       /\ UNCHANGED <<queueVars, m, pause, maxc, performed, keys, recent, cids, ended>>

\* The third select.
WaitReceive == bpc = "wait" /\ Receive

WaitReprovide ==
    /\ bpc = "wait"
    /\ \E p \in Reproviding : \E c \in cids[p] :
         /\ cids' = [cids EXCEPT ![p] = @ \ {c}]
         /\ Collect(c)
    /\ performed' = TRUE
    /\ UNCHANGED <<queueVars, keys, recent, ended>>

WaitTimer ==
    /\ bpc = "wait"
    /\ \/ pause = "fired" /\ BreakLoop(maxc)
       \/ maxc = "fired" /\ BreakLoop(pause)
    /\ UNCHANGED <<queueVars, m, performed, keys, recent, cids, ended>>

WaitDone == bpc = "wait" /\ LoopReturns

-----------------------------------------------------------------------------
(* Announcing.                                                             *)

\* The batch is taken; if nothing valid is in it, the loop starts again.
TakeBatch ==
    /\ bpc = "out"
    /\ m' = {} /\ keys' = m \ Insecure
    /\ IF keys' = {} THEN bpc' = "top" /\ performed' = FALSE
       ELSE bpc' = "ready" /\ UNCHANGED performed
    /\ UNCHANGED <<queueVars, pause, maxc, recent, cids, ended>>

\* The routing system may not be ready: the loop looks again each minute, until
\* the context is done.
AwaitReady == bpc = "ready" /\ LoopReturns

\* ProvideMany fails once the context is done, and may fail before.  The time
\* of a reprovide is stored with the first batch that had cids of it.
ProvideMany ==
    /\ bpc = "ready"
    /\ bpc' = "top" /\ keys' = {} /\ performed' = FALSE
    /\ \/ UNCHANGED recent
       \/ ~ended /\ performed /\ recent' = TRUE
    /\ UNCHANGED <<queueVars, m, pause, maxc, cids, ended>>

-----------------------------------------------------------------------------
(* Reprovides, time, and the end.                                          *)

\* reprovide: periodically, unless there was one lately, or on demand.
Reprovide(p) ==
    /\ cids[p] = {} /\ ~ended
    /\ p = "ticker" => ~recent
    /\ cids' = [cids EXCEPT ![p] = KeySet]
    /\ UNCHANGED <<queueVars, bpc, m, pause, maxc, performed, keys, recent, ended>>

\* A reprovide whose context is done stops where it is.
ReprovideDone(p) ==
    /\ cids[p] # {} /\ (p = "ticker" => ended)
    /\ cids' = [cids EXCEPT ![p] = {}]
    /\ UNCHANGED <<queueVars, bpc, m, pause, maxc, performed, keys, recent, ended>>

PauseFires ==
    /\ pause = "on" /\ pause' = "fired"
    /\ UNCHANGED <<queueVars, bpc, m, maxc, performed, keys, recent, cids, ended>>

MaxFires ==
    /\ maxc = "on" /\ maxc' = "fired"
    /\ UNCHANGED <<queueVars, bpc, m, pause, performed, keys, recent, cids, ended>>

TimePasses ==
    /\ recent /\ recent' = FALSE
    /\ UNCHANGED <<queueVars, bpc, m, pause, maxc, performed, keys, cids, ended>>

\* Provide: a caller enqueues a cid, from any goroutine.
Provide(c) == Enqueue(c) /\ UNCHANGED batchVars

\* Close: the context ends, then the queue is closed.
Close ==
    /\ ~ended /\ ended' = TRUE
    /\ UNCHANGED <<queueVars, bpc, m, pause, maxc, performed, keys, recent, cids>>

CloseQueue == QueueStops /\ UNCHANGED batchVars

\* The program starts again, after a Close that returned or a crash.
StartAgain ==
    /\ NewQueue
    /\ bpc' = "top" /\ m' = {} /\ pause' = "off" /\ maxc' = "off" /\ performed' = FALSE
    /\ keys' = {} /\ cids' = [p \in Reproviding |-> {}] /\ ended' = FALSE
    /\ UNCHANGED recent

Loop == CheckAge \/ Poll \/ WaitReceive \/ WaitReprovide \/ WaitTimer \/ WaitDone
        \/ TakeBatch \/ AwaitReady \/ ProvideMany

ProvideInit ==
    /\ QueueInit
    /\ bpc = "top" /\ m = {} /\ pause = "off" /\ maxc = "off" /\ performed = FALSE
    /\ keys = {} /\ recent = FALSE /\ cids = [p \in Reproviding |-> {}] /\ ended = FALSE

ProvideNext ==
    \/ Loop
    \/ \E p \in Reproviding : Reprovide(p) \/ ReprovideDone(p)
    \/ \E c \in ProvCid : Provide(c)
    \/ PauseFires \/ MaxFires \/ TimePasses \/ Close \/ CloseQueue \/ StartAgain

ProvideSpec == ProvideInit /\ [][ProvideNext]_provideVars
\* The system as the Go scheduler and its timers run it: the loop goes on,
\* the age limit of a batch passes, and Close goes on to close the queue.
FairProvideSpec ==
    /\ ProvideSpec
    /\ WF_provideVars(Loop) /\ WF_provideVars(MaxFires)
    /\ WF_provideVars(ended /\ CloseQueue)

-----------------------------------------------------------------------------
\* "at the start of every loop the maxCollectionDurationTimer and
\* pauseDetectTimer should be already be stopped and have empty channels":
\* while the loop collects, both timers run, or have fired and not been read,
\* exactly when the batch has a cid.  So no stopAndEmptyTimer waits for ever,
\* no batch is cut short by the timer of the one before, and none is kept
\* for longer than the age limit.
TimersFollowBatch ==
    /\ bpc # "stuck"
    /\ bpc \in {"top", "wait"} => /\ m = {} <=> pause = "off"
                                  /\ m = {} <=> maxc = "off"

\* "Close stops the provider": once the context has ended the loop ends.
CloseStops == ended ~> (bpc = "stopped" \/ ~ended)
=============================================================================
