------------------------------ MODULE MCNetwork ------------------------------
(* Two independent parts of the network side of the client, explored one   *)
(* at a time while the other rests in its initial state.                   *)
(* "events": two peers and two listeners, so that the queue can hold both  *)
(* peers in either order while the worker is half way through its calls.   *)
(* "queries": two requests for one key, so that a query can be joined, or  *)
(* abandoned and started again by the other; a message channel with a      *)
(* single place and two workers.                                           *)
EXTENDS ConnectEventManager, ProviderQueryManager

VARIABLE part

MCKeyOf == [r \in Request |-> CHOOSE k \in Key : TRUE]

NetworkInit == EventsInit /\ Init /\ part \in {"events", "queries"}

NetworkNext ==
    \/ part = "events" /\ EventsNext /\ UNCHANGED <<vars, part>>
    \/ part = "queries" /\ Next /\ UNCHANGED <<eventVars, part>>

\* A part at rest has nothing to do, so that the fairness of either asks
\* nothing of it.
NetworkSpec ==
    /\ NetworkInit
    /\ [][NetworkNext]_<<eventVars, vars, part>>
    /\ WF_eventVars(EventWorker)
    /\ Fairness
=============================================================================
