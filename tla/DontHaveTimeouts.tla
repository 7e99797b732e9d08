--------------------------- MODULE DontHaveTimeouts ---------------------------
(***************************************************************************)
(* What the DontHaveTimeoutManager interface promises (messagequeue.go):   *)
(* "AddPending adds the wants as pending a response.  If they are not      *)
(* cancelled before the timeout, the OnDontHaveTimeout method will be      *)
(* called."  When a want is over its timeout is left open.                 *)
(***************************************************************************)
EXTENDS FiniteSets

CONSTANT Key

VARIABLES
    awaiting,       \* the wants pending a response
    firing,         \* the sets of keys OnDontHaveTimeout is about to get
    stopped         \* the manager has been shut down

dhVars == <<awaiting, firing, stopped>>

DhInit ==
    /\ awaiting = {}
    /\ firing = {}
    /\ stopped = FALSE

\* Of the wants in pending, those in late are over the timeout.
Expire(pending, late) ==
    /\ awaiting' = pending \ late
    /\ firing' = IF late = {} THEN firing ELSE firing \cup {late}

\* A want may be late by the time it is added.
AddPending(ks) ==
    /\ \E late \in SUBSET (awaiting \cup ks) : Expire(awaiting \cup ks, late)
    /\ UNCHANGED stopped

CancelPending(ks) ==
    /\ awaiting' = awaiting \ ks
    /\ UNCHANGED <<firing, stopped>>

TimeOut(late) ==
    /\ late # {}
    /\ late \subseteq awaiting
    /\ Expire(awaiting, late)
    /\ UNCHANGED stopped

\* OnDontHaveTimeout is called with ks, unless the manager is shut down.
FireTimeout(ks) ==
    /\ ks \in firing
    /\ firing' = firing \ {ks}
    /\ UNCHANGED <<awaiting, stopped>>

DhShutdown ==
    /\ stopped' = TRUE
    /\ UNCHANGED <<awaiting, firing>>

DhNext ==
    \/ \E ks \in SUBSET Key : AddPending(ks) \/ CancelPending(ks)
    \/ \E ks \in SUBSET Key : TimeOut(ks) \/ FireTimeout(ks)
    \/ DhShutdown

DhSafety == DhInit /\ [][DhNext]_dhVars

\* While the manager runs, every want is cancelled or times out, and the
\* timeout is reported.
DhSpec ==
    /\ DhSafety
    /\ \A c \in Key : WF_dhVars(\E ks \in SUBSET Key :
                                    c \in ks /\ ~stopped /\ TimeOut(ks))
    /\ \A ks \in SUBSET Key : WF_dhVars(FireTimeout(ks))
=============================================================================
