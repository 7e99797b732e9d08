----------------------------- MODULE PeerManager -----------------------------
(***************************************************************************)
(* bitswap/client/internal/peermanager/peermanager.go: the pool of         *)
(* connected peers.  It composes the peerWantManager with the              *)
(* forwardGraphManager, owns the peers' message queues and tells the       *)
(* sessions when a peer they use comes or goes.                            *)
(*                                                                         *)
(* Every operation holds pqLk (or psLk, for the session registry) from     *)
(* start to end and is one action.  Connected and Disconnected also need   *)
(* the lock of the forward graph, so they wait while it is held.           *)
(***************************************************************************)
EXTENDS PeerWantManager

CONSTANTS
    Session,
    CancelLists     \* the key lists SendCancels is called with

ASSUME CancelListsAssumption == CancelLists \subseteq Seq(Cid)

VARIABLES
    peerQueues,     \* the keys of pm.peerQueues
    peerSessions,   \* peer -> registered sessions
    signals         \* session -> peer -> last SignalAvailability since the
                    \* session registered: "none", "up" or "down"

pmVars == <<peerQueues, peerSessions, signals>>
vars == <<fgmVars, pwmVars, pmVars>>

Init ==
    /\ FgmInit
    /\ PwmInit
    /\ peerQueues = {}
    /\ peerSessions = [p \in Peer |-> {}]
    /\ signals = [s \in Session |-> [p \in Peer |-> "none"]]

\* signalAvailability(p, isConnected).
SignalAvailability(p, sig) ==
    signals' = [s \in Session |->
                  IF s \in peerSessions[p]
                  THEN [signals[s] EXCEPT ![p] = sig] ELSE signals[s]]

\* Connected(p): the pool's entry, the want manager's and the signal.
Connected(p) ==
    /\ peerQueues' = peerQueues \cup {p}
    /\ IF p \in peerWants THEN UNCHANGED <<pwmVars, fgmVars>> ELSE addPeer(p)
    /\ SignalAvailability(p, "up")
    /\ UNCHANGED peerSessions

\* Faulty variant: the sessions are not told about the disconnect.
DisconnectedSilently(p) ==
    /\ p \in peerQueues
    /\ peerQueues' = peerQueues \ {p}
    /\ removePeer(p)
    /\ UNCHANGED <<peerSessions, signals>>

\* Disconnected(p): the signal, the queue's shutdown, the want manager.
Disconnected(p) ==
    /\ p \in peerQueues
    /\ SignalAvailability(p, "down")
    /\ peerQueues' = peerQueues \ {p}
    /\ removePeer(p)
    /\ UNCHANGED peerSessions

\* SendWants(p, blks, hvs).
SendWants(p, blks, hvs) ==
    /\ p \in peerQueues
    /\ sendWants(p, blks, hvs)
    /\ UNCHANGED pmVars

BroadcastWantHaves(ks) == broadcastWantHaves(ks) /\ UNCHANGED pmVars

SendCancels(cancelKs) == sendCancels(cancelKs) /\ UNCHANGED pmVars

\* RegisterSession(p, s), by a session that starts to use p.
RegisterSession(p, s) ==
    /\ s \notin peerSessions[p]
    /\ peerSessions' = [peerSessions EXCEPT ![p] = @ \cup {s}]
    /\ UNCHANGED <<fgmVars, pwmVars, peerQueues, signals>>

\* UnregisterSession(s), when the session shuts down; a session that
\* registers afterwards is a new one and has been told nothing.
UnregisterSession(s) ==
    /\ \E p \in Peer : s \in peerSessions[p]
    /\ peerSessions' = [p \in Peer |-> peerSessions[p] \ {s}]
    /\ signals' = [signals EXCEPT ![s] = [p \in Peer |-> "none"]]
    /\ UNCHANGED <<fgmVars, pwmVars, peerQueues>>

GraphStep == FgmStep /\ UNCHANGED <<pwmVars, pmVars>>

Next ==
    \/ \E p \in Peer : Connected(p) \/ Disconnected(p)
    \/ \E p \in Peer, blks, hvs \in SUBSET Cid : SendWants(p, blks, hvs)
    \/ \E ks \in SUBSET Cid : BroadcastWantHaves(ks)
    \/ \E cancelKs \in CancelLists : SendCancels(cancelKs)
    \/ \E p \in Peer, s \in Session : RegisterSession(p, s)
    \/ \E s \in Session : UnregisterSession(s)
    \/ GraphStep

Spec == Init /\ [][Next]_vars

-----------------------------------------------------------------------------
TypeOK ==
    /\ FgmTypeOK
    /\ PwmTypeOK
    /\ peerQueues \subseteq Peer
    /\ peerSessions \in [Peer -> SUBSET Session]
    /\ signals \in [Session -> [Peer -> {"none", "up", "down"}]]

\* The three records of who is connected agree: the pool's queues, the want
\* manager's peers and the forward graph's peers.  So sendWants never meets an
\* unknown peer ("In practice this should never happen") and a successor
\* chosen by the forward strategy always has a queue to put the want-forward
\* in: forwardWants fails only when no successor is left.
PoolsAgree ==
    /\ peerQueues = peerWants
    /\ peerWants = connectedPeers
    /\ \A exclude \in SUBSET Peer :
          ForwardTargets(exclude, NoPeer) = SuccessorsExcept(exclude)

\* The last thing a registered session was told about a peer is still true:
\* no disconnect or reconnect passes a registered session by.
SignalsCurrent ==
    \A s \in Session, p \in Peer :
        s \in peerSessions[p] =>
            /\ signals[s][p] = "up" => p \in peerQueues
            /\ signals[s][p] = "down" => p \notin peerQueues
=============================================================================
