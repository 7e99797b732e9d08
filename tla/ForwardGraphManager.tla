------------------------- MODULE ForwardGraphManager -------------------------
(***************************************************************************)
(* bitswap/client/internal/peermanager/forwardgraphmanager.go: the privacy *)
(* subgraph.  Out of the connected peers it keeps at most degree/2         *)
(* successors, the only peers a want-forward is freshly sent to, and       *)
(* replaces them when one leaves, when the reconstruction timer fires and  *)
(* when the evaluation asks for it.                                        *)
(*                                                                         *)
(* One action is one critical section of fgm.lk, except that a call to     *)
(* SelectNewSuccessors that has to drain the timer's channel keeps the     *)
(* lock until it can.  The random choices are existential quantifiers.     *)
(***************************************************************************)
EXTENDS Naturals, FiniteSets

CONSTANTS
    Peer,
    NoPeer,         \* the empty peer.ID
    MaxDegree,      \* math.MaxUint64: use the complete graph
    Degrees         \* the degrees the manager may be configured with

ASSUME NoSuccessorAssumption == NoPeer \notin Peer
ASSUME DegreeAssumption == MaxDegree \in Nat /\ Degrees \subseteq 0 .. MaxDegree
ASSUME PeerFinite == IsFiniteSet(Peer)

VARIABLES
    degree,
    connectedPeers,
    successors,
    protected,      \* peers protected under the tag "bs-fgw"
    timer,          \* reconstructGraphTimer: "armed", "fired" (a value is in
                    \* its channel) or "idle" (neither)
    runPc,          \* goroutine run: "select", "rebuild" or "exited"
    lk              \* fgm.lk: "free", or the caller that holds it while it
                    \* waits for the timer's channel: "run" or "api"

fgmVars == <<degree, connectedPeers, successors, protected, timer, runPc, lk>>
graphVars == <<degree, connectedPeers, successors, protected>>

(* newForwardGraphManager, and setForwardGraphDegree, which is only called *)
(* as a construction option, before a peer is connected.                   *)
FgmInit ==
    /\ degree \in Degrees
    /\ connectedPeers = {}
    /\ successors = {}
    /\ protected = {}
    /\ timer = "armed"
    /\ runPc = "select"
    /\ lk = "free"

useCompleteGraph == degree = MaxDegree
successorTarget == degree \div 2

\* The peers a fresh want-forward may go to; both forward strategies return a
\* member of this set, or the empty peer.ID when there is none.
SuccessorsExcept(exclude) ==
    (IF useCompleteGraph THEN connectedPeers ELSE successors) \ exclude

GetSuccessorByStrategy(exclude) ==
    IF SuccessorsExcept(exclude) = {} THEN {NoPeer} ELSE SuccessorsExcept(exclude)

-----------------------------------------------------------------------------
\* The successor sets findOneNewSuccessor may leave.
FindOneNewSuccessor(conn, succ) ==
    IF useCompleteGraph \/ conn \subseteq succ
    THEN {succ}
    ELSE {succ \cup {p} : p \in conn \ succ}

AddSuccessors(s) ==
    /\ successors' = s
    /\ protected' = (protected \ (successors \ s)) \cup s

\* AddPeer(p): called when a peer connects.
FgmAddPeer(p) ==
    /\ lk = "free"
    /\ connectedPeers' = connectedPeers \cup {p}
    /\ IF useCompleteGraph \/ Cardinality(successors) >= successorTarget
       THEN UNCHANGED <<successors, protected>>
       ELSE \E s \in FindOneNewSuccessor(connectedPeers', successors) :
                AddSuccessors(s)
    /\ UNCHANGED <<degree, timer, runPc, lk>>

\* RemovePeer(p): called when a peer disconnects.
FgmRemovePeer(p) ==
    /\ lk = "free"
    /\ connectedPeers' = connectedPeers \ {p}
    /\ IF useCompleteGraph \/ p \notin successors
       THEN UNCHANGED <<successors, protected>>
       ELSE \E s \in FindOneNewSuccessor(connectedPeers', successors \ {p}) :
                AddSuccessors(s)
    /\ UNCHANGED <<degree, timer, runPc, lk>>

-----------------------------------------------------------------------------
\* The successor sets SelectNewSuccessors may choose: all old ones are
\* dropped, then findOneNewSuccessor runs until the target or no peer is left.
NewSuccessorSets ==
    {s \in SUBSET connectedPeers :
        /\ Cardinality(s) <= successorTarget
        /\ Cardinality(s) = successorTarget \/ s = connectedPeers}

\* SelectNewSuccessors, up to its return or to the wait for the channel:
\* Stop() returns false when the timer is no longer running, and the value it
\* left in its channel is then received with the lock held.
SelectNewSuccessors(caller) ==
    /\ lk = "free"
    /\ IF useCompleteGraph
       THEN UNCHANGED <<successors, protected, timer, lk>>
       ELSE /\ \E s \in NewSuccessorSets : AddSuccessors(s)
            /\ IF timer = "armed"
               THEN UNCHANGED <<timer, lk>>
               ELSE lk' = caller /\ UNCHANGED timer
    /\ UNCHANGED <<degree, connectedPeers>>

\* <-reconstructGraphTimer.C, then Reset.
DrainTimer ==
    /\ lk # "free"
    /\ timer = "fired"
    /\ timer' = "armed"
    /\ lk' = "free"
    /\ runPc' = IF lk = "run" THEN "select" ELSE runPc
    /\ UNCHANGED graphVars

\* The evaluation's call (Bitswap.SelectNewSuccessors).
ApiSelect == SelectNewSuccessors("api") /\ UNCHANGED runPc

TimerFires ==
    /\ timer = "armed"
    /\ timer' = "fired"
    /\ UNCHANGED <<graphVars, runPc, lk>>

\* run(): the timer's channel is ready.
RunReceives ==
    /\ runPc = "select"
    /\ timer = "fired"
    /\ timer' = "idle"
    /\ runPc' = "rebuild"
    /\ UNCHANGED <<graphVars, lk>>

\* run(): the call to SelectNewSuccessors.
RunSelect ==
    /\ runPc = "rebuild"
    /\ SelectNewSuccessors("run")
    /\ runPc' = IF lk' = "free" THEN "select" ELSE "rebuild"

\* run(): the context is done; a stopped timer no longer fires.
RunExit ==
    /\ runPc = "select"
    /\ timer' = IF timer = "armed" THEN "idle" ELSE timer
    /\ runPc' = "exited"
    /\ UNCHANGED <<graphVars, lk>>

RunGoroutine == RunReceives \/ RunSelect \/ DrainTimer
FgmStep == TimerFires \/ RunGoroutine \/ RunExit \/ ApiSelect

FgmNext ==
    \/ \E p \in Peer \ connectedPeers : FgmAddPeer(p)
    \/ \E p \in connectedPeers : FgmRemovePeer(p)
    \/ FgmStep

(* Timers fire, and a goroutine that can take a step takes it.             *)
FgmSpec ==
    /\ FgmInit
    /\ [][FgmNext]_fgmVars
    /\ WF_fgmVars(TimerFires)
    /\ WF_fgmVars(RunGoroutine)

-----------------------------------------------------------------------------
FgmTypeOK ==
    /\ degree \in Degrees
    /\ connectedPeers \subseteq Peer
    /\ successors \subseteq Peer
    /\ protected \subseteq Peer
    /\ timer \in {"armed", "fired", "idle"}
    /\ runPc \in {"select", "rebuild", "exited"}
    /\ lk \in {"free", "run", "api"}

\* The subgraph is as regular as the connections allow: unless the complete
\* graph is used, the successors are connected peers, there are degree/2 of
\* them or all connected peers are successors, and exactly the successors'
\* connections are protected from being pruned.
SuccessorsRegular ==
    IF useCompleteGraph
    THEN successors = {} /\ protected = {}
    ELSE /\ successors \subseteq connectedPeers
         /\ protected = successors
         /\ Cardinality(successors) <= successorTarget
         /\ Cardinality(successors) = successorTarget
              \/ successors = connectedPeers

\* "Replaces all successors with newly chosen ones. Returns the new
\* successors.": the call that run() makes when the timer has fired returns.
SelectReturns == (lk = "run") ~> (lk = "free")
=============================================================================
