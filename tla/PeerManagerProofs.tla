-------------------------- MODULE PeerManagerProofs --------------------------
(***************************************************************************)
(* Proofs about PeerManager, and the managers it composes, for any sets of *)
(* peers, keys and sessions and any degree of the forward graph.           *)
(***************************************************************************)
EXTENDS PeerManager, FiniteSetTheorems, TLAPS

-----------------------------------------------------------------------------
(* The forward graph.                                                      *)

GraphInv == FgmTypeOK /\ SuccessorsRegular

\* Sets of peers have a size, and the target is a number.
LEMMA PeerSets ==
    ASSUME FgmTypeOK
    PROVE  /\ successorTarget \in Nat
           /\ \A S \in SUBSET Peer : IsFiniteSet(S) /\ Cardinality(S) \in Nat
<1>1. successorTarget \in Nat
  BY DegreeAssumption DEF FgmTypeOK, successorTarget
<1>2. \A S \in SUBSET Peer : IsFiniteSet(S)
  BY PeerFinite, FS_Subset, Zenon
<1>3. \A S \in SUBSET Peer : Cardinality(S) \in Nat
  BY <1>2, FS_CardinalityType, Zenon
<1> QED
  BY <1>1, <1>2, <1>3, Zenon

\* AddPeer keeps the graph regular.
LEMMA GraphAdd ==
    ASSUME GraphInv, NEW p \in Peer, FgmAddPeer(p)
    PROVE  GraphInv' /\ connectedPeers' = connectedPeers \cup {p}
<1>1. /\ connectedPeers' = connectedPeers \cup {p}
      /\ connectedPeers' \subseteq Peer
      /\ UNCHANGED <<degree, timer, runPc, lk>>
  BY Zenon DEF FgmAddPeer, GraphInv, FgmTypeOK
<1>2. successorTarget' = successorTarget /\ (useCompleteGraph' <=> useCompleteGraph)
  BY <1>1, Zenon DEF successorTarget, useCompleteGraph
<1>3. /\ successorTarget \in Nat
      /\ IsFiniteSet(successors) /\ Cardinality(successors) \in Nat
  BY PeerSets, Zenon DEF GraphInv, FgmTypeOK
<1>4. CASE useCompleteGraph
  BY <1>1, <1>2, <1>4, Zenon DEF FgmAddPeer, GraphInv, FgmTypeOK, SuccessorsRegular
<1>5. CASE ~useCompleteGraph /\ Cardinality(successors) >= successorTarget
  <2>1. UNCHANGED <<successors, protected>>
    BY <1>5, Zenon DEF FgmAddPeer
  <2>2. Cardinality(successors) = successorTarget
    BY <1>3, <1>5 DEF GraphInv, SuccessorsRegular
  <2> QED
    BY <1>1, <1>2, <1>5, <2>1, <2>2, Zenon DEF GraphInv, FgmTypeOK, SuccessorsRegular
<1>6. CASE ~useCompleteGraph /\ ~(Cardinality(successors) >= successorTarget)
  <2>1. PICK s \in FindOneNewSuccessor(connectedPeers', successors) :
            AddSuccessors(s)
    BY <1>6, Zenon DEF FgmAddPeer
  <2>2. successors = connectedPeers /\ protected = successors
    BY <1>3, <1>6, Zenon DEF GraphInv, SuccessorsRegular
  <2>3. s = successors \cup {p}
    BY <1>1, <1>6, <2>1, <2>2 DEF FindOneNewSuccessor
  <2>4. Cardinality(s) <= successorTarget
    <3>1. Cardinality(successors \cup {p}) =
             IF p \in successors THEN Cardinality(successors)
             ELSE Cardinality(successors) + 1
      BY <1>3, FS_AddElement, Zenon
    <3> QED
      BY <1>3, <1>6, <2>3, <3>1
  <2>5. successors' = connectedPeers' /\ protected' = successors'
    BY <1>1, <2>1, <2>2, <2>3, Zenon DEF AddSuccessors
  <2>6. Cardinality(successors') <= successorTarget'
    BY <1>2, <2>1, <2>4, Zenon DEF AddSuccessors
  <2> QED
    BY <1>1, <1>2, <1>6, <2>5, <2>6, Zenon DEF GraphInv, FgmTypeOK, SuccessorsRegular
<1> QED
  BY <1>1, <1>4, <1>5, <1>6, Zenon

\* RemovePeer keeps the graph regular: a lost successor is replaced whenever a
\* connected peer is left to replace it.
LEMMA GraphRemove ==
    ASSUME GraphInv, NEW p \in Peer, FgmRemovePeer(p)
    PROVE  GraphInv' /\ connectedPeers' = connectedPeers \ {p}
<1>1. /\ connectedPeers' = connectedPeers \ {p}
      /\ connectedPeers' \subseteq Peer
      /\ UNCHANGED <<degree, timer, runPc, lk>>
  BY Zenon DEF FgmRemovePeer, GraphInv, FgmTypeOK
<1>2. successorTarget' = successorTarget /\ (useCompleteGraph' <=> useCompleteGraph)
  BY <1>1, Zenon DEF successorTarget, useCompleteGraph
<1>3. /\ successorTarget \in Nat
      /\ IsFiniteSet(successors) /\ Cardinality(successors) \in Nat
  BY PeerSets, Zenon DEF GraphInv, FgmTypeOK
<1>4. CASE useCompleteGraph
  BY <1>1, <1>2, <1>4, Zenon DEF FgmRemovePeer, GraphInv, FgmTypeOK, SuccessorsRegular
<1>5. CASE ~useCompleteGraph /\ p \notin successors
  <2>1. UNCHANGED <<successors, protected>>
    BY <1>5, Zenon DEF FgmRemovePeer
  <2>2. /\ successors \subseteq connectedPeers'
        /\ successors = connectedPeers => successors = connectedPeers'
    BY <1>1, <1>5, Zenon DEF GraphInv, SuccessorsRegular
  <2> QED
    BY <1>1, <1>2, <1>5, <2>1, <2>2, Zenon DEF GraphInv, FgmTypeOK, SuccessorsRegular
<1>6. CASE ~useCompleteGraph /\ p \in successors
  <2> DEFINE base == successors \ {p}
  <2>1. PICK s \in FindOneNewSuccessor(connectedPeers', base) : AddSuccessors(s)
    BY <1>6, Zenon DEF FgmRemovePeer
  <2>2. /\ successors \subseteq connectedPeers /\ protected = successors
        /\ Cardinality(successors) <= successorTarget
        /\ Cardinality(successors) = successorTarget \/ successors = connectedPeers
    BY <1>6, Zenon DEF GraphInv, SuccessorsRegular
  <2>3. /\ IsFiniteSet(base) /\ Cardinality(base) = Cardinality(successors) - 1
        /\ base \subseteq connectedPeers'
    BY <1>1, <1>3, <1>6, <2>2, FS_RemoveElement, Zenon
  <2>4. /\ s \subseteq connectedPeers'
        /\ Cardinality(s) <= successorTarget
        /\ Cardinality(s) = successorTarget \/ s = connectedPeers'
    <3>1. CASE connectedPeers' \subseteq base
      <4>1. s = base
        BY <2>1, <3>1, Zenon DEF FindOneNewSuccessor
      <4> QED
        BY <1>3, <2>2, <2>3, <3>1, <4>1
    <3>2. CASE ~(connectedPeers' \subseteq base)
      <4>1. PICK q \in connectedPeers' \ base : s = base \cup {q}
        BY <1>6, <2>1, <3>2, Zenon DEF FindOneNewSuccessor
      <4>2. Cardinality(base \cup {q}) = Cardinality(base) + 1
        BY <2>3, <4>1, FS_AddElement, Zenon
      <4>3. successors # connectedPeers
        BY <1>1, <3>2, Zenon
      <4> QED
        BY <1>3, <2>2, <2>3, <4>1, <4>2, <4>3
    <3> QED
      BY <3>1, <3>2, Zenon
  <2>5. successors' = s /\ protected' = s
    BY <2>1, <2>2, Zenon DEF AddSuccessors
  <2> QED
    BY <1>1, <1>2, <1>6, <2>4, <2>5, Zenon DEF GraphInv, FgmTypeOK, SuccessorsRegular
<1> QED
  BY <1>1, <1>4, <1>5, <1>6, Zenon

\* The steps of the forward graph itself: the timer, its goroutine and a call of
\* SelectNewSuccessors.
LEMMA GraphSteps ==
    ASSUME GraphInv, FgmStep
    PROVE  GraphInv' /\ UNCHANGED connectedPeers
<1>1. ASSUME NEW caller \in {"run", "api"}, SelectNewSuccessors(caller),
             runPc' \in {"select", "rebuild", "exited"}
      PROVE  GraphInv' /\ UNCHANGED connectedPeers
  <2>1. UNCHANGED <<degree, connectedPeers>>
    BY <1>1, Zenon DEF SelectNewSuccessors
  <2>2. successorTarget' = successorTarget /\ (useCompleteGraph' <=> useCompleteGraph)
    BY <2>1, Zenon DEF successorTarget, useCompleteGraph
  <2>3. timer' \in {"armed", "fired", "idle"} /\ lk' \in {"free", "run", "api"}
    BY <1>1, Zenon DEF SelectNewSuccessors, GraphInv, FgmTypeOK
  <2>4. CASE useCompleteGraph
    <3>1. UNCHANGED <<successors, protected>>
      BY <1>1, <2>4, Zenon DEF SelectNewSuccessors
    <3> QED
      BY <1>1, <2>1, <2>2, <2>3, <2>4, <3>1, Zenon DEF GraphInv, FgmTypeOK,
         SuccessorsRegular
  <2>5. CASE ~useCompleteGraph
    <3>1. PICK s \in NewSuccessorSets : AddSuccessors(s)
      BY <1>1, <2>5, Zenon DEF SelectNewSuccessors
    <3>2. successors' = s /\ protected' = s
      BY <2>5, <3>1, Zenon DEF AddSuccessors, GraphInv, SuccessorsRegular
    <3>3. /\ s \subseteq connectedPeers
          /\ Cardinality(s) <= successorTarget
          /\ Cardinality(s) = successorTarget \/ s = connectedPeers
      BY <3>1, Zenon DEF NewSuccessorSets
    <3> QED
      BY <1>1, <2>1, <2>2, <2>3, <2>5, <3>2, <3>3, Zenon DEF GraphInv, FgmTypeOK,
         SuccessorsRegular
  <2> QED
    BY <2>1, <2>4, <2>5, Zenon
<1>2. CASE UNCHANGED graphVars /\ timer' \in {"armed", "fired", "idle"}
             /\ runPc' \in {"select", "rebuild", "exited"}
             /\ lk' \in {"free", "run", "api"}
  BY <1>2, Zenon DEF graphVars, GraphInv, FgmTypeOK, SuccessorsRegular, successorTarget,
     useCompleteGraph
<1>3. CASE TimerFires \/ RunReceives \/ RunExit \/ DrainTimer
  BY <1>2, <1>3, Zenon DEF TimerFires, RunReceives, RunExit, DrainTimer, GraphInv,
     FgmTypeOK
<1>4. CASE RunSelect
  BY <1>1, <1>4, Zenon DEF RunSelect
<1>5. CASE ApiSelect
  BY <1>1, <1>5, Zenon DEF ApiSelect, GraphInv, FgmTypeOK
<1> QED
  BY <1>3, <1>4, <1>5, Zenon DEF FgmStep, RunGoroutine

-----------------------------------------------------------------------------
(* The want manager.                                                       *)

\* The index and the lists, without the reports computed from them.
IndexExact ==
    /\ \A p \in Peer, c \in Cid :
          p \in wantPeers[c] <=> p \in peerWants /\ c \in SentTo(p)
    /\ \A p \in Peer : wantBlocks[p] \cap wantHaves[p] = {}

\* The queue a new peer will be given is empty.
NewQueuesEmpty ==
    \A p \in Peer : p \notin peerWants =>
        \A c \in Cid : queueWants[p][c] = "none"

PwmInv == PwmTypeOK /\ IndexExact /\ QueuesHoldWants /\ NewQueuesEmpty

\* The reports agree because the index does.
LEMMA IndexGivesReports ==
    ASSUME PwmTypeOK, IndexExact
    PROVE  ReverseIndexExact
<1>1. ASSUME NEW c \in Cid
      PROVE  wantPeers[c] # {} <=> \E p \in peerWants : c \in SentTo(p)
  BY <1>1, Zenon DEF PwmTypeOK, IndexExact
<1>2. ASSUME NEW c
      PROVE  c \in getWants <=> c \in getWantBlocks \cup getWantHaves
  <2>1. c \in getWants <=> c \in broadcastWants \/ (c \in Cid /\ wantPeers[c] # {})
    BY Zenon DEF getWants
  <2>2. c \in getWantBlocks <=> \E p \in peerWants : c \in wantBlocks[p]
    BY Zenon DEF getWantBlocks
  <2>3. c \in getWantHaves <=>
           c \in broadcastWants \/ \E p \in peerWants : c \in wantHaves[p]
    BY Zenon DEF getWantHaves
  <2>4. (\E p \in peerWants : c \in SentTo(p)) => c \in Cid
    BY Zenon DEF PwmTypeOK, SentTo
  <2> QED
    BY <1>1, <2>1, <2>2, <2>3, <2>4, Zenon DEF SentTo
<1>3. getWants = getWantBlocks \cup getWantHaves
  BY <1>2, Zenon
<1> QED
  BY <1>3, Zenon DEF ReverseIndexExact, IndexExact

\* Sets of keys have a size.
LEMMA KeySets ==
    \A S \in SUBSET Cid : IsFiniteSet(S) /\ Cardinality(S) \in Nat
<1>1. \A S \in SUBSET Cid : IsFiniteSet(S)
  BY CidFinite, FS_Subset, Zenon
<1> QED
  BY <1>1, FS_CardinalityType, Zenon

\* So have the positions of a list of keys.
LEMMA Positions ==
    ASSUME NEW l \in Seq(Cid), NEW S \in SUBSET DOMAIN l
    PROVE  IsFiniteSet(S) /\ Cardinality(S) \in Nat
<1>1. DOMAIN l = 1 .. Len(l) /\ Len(l) \in Nat
  OBVIOUS
<1>2. IsFiniteSet(DOMAIN l)
  BY <1>1, FS_Interval
<1>3. IsFiniteSet(S)
  BY <1>2, FS_Subset, Zenon
<1> QED
  BY <1>3, FS_CardinalityType, Zenon

\* A peer is added: its queue starts with the broadcast wants.
LEMMA PwmAdd ==
    ASSUME PwmInv, NEW p \in Peer, p \notin peerWants, addPeer(p)
    PROVE  PwmInv' /\ peerWants' = peerWants \cup {p}
<1>1. /\ peerWants' = peerWants \cup {p}
      /\ queueBcst' = [queueBcst EXCEPT ![p] = @ \cup broadcastWants]
      /\ UNCHANGED <<wantBlocks, wantHaves, wantPeers, broadcastWants, wantGauge,
                     wantBlockGauge, queueWants>>
  BY Zenon DEF addPeer
<1>2. PwmTypeOK'
  BY <1>1, Zenon DEF PwmInv, PwmTypeOK
<1>3. SentTo(p) = {} /\ queueBcst[p] = {}
  BY Zenon DEF PwmInv, QueuesHoldWants
<1>4. \A q \in Peer : SentTo(q)' = SentTo(q)
  BY <1>1, Zenon DEF SentTo
<1>5. IndexExact'
  BY <1>1, <1>3, <1>4 DEF PwmInv, IndexExact
<1>6. NewQueuesEmpty'
  BY <1>1, Zenon DEF PwmInv, NewQueuesEmpty
<1>7. QueuesHoldWants'
  <2> SUFFICES ASSUME NEW q \in Peer
               PROVE  /\ q \in peerWants' =>
                            queueBcst'[q] \cup {c \in Cid : queueWants'[q][c] # "none"}
                              = broadcastWants' \cup SentTo(q)'
                      /\ {c \in Cid : queueWants'[q][c] = "block"} = wantBlocks'[q]
                      /\ q \notin peerWants' => queueBcst'[q] = {} /\ SentTo(q)' = {}
    BY Zenon DEF QueuesHoldWants
  <2>1. {c \in Cid : queueWants'[q][c] = "block"} = wantBlocks'[q]
    BY <1>1, Zenon DEF PwmInv, QueuesHoldWants
  <2>2. CASE q = p
    <3>1. queueBcst'[q] = broadcastWants
      BY <1>1, <1>3, <2>2, Zenon DEF PwmInv, PwmTypeOK
    <3>2. {c \in Cid : queueWants'[q][c] # "none"} = {}
      BY <1>1, <2>2, Zenon DEF PwmInv, NewQueuesEmpty
    <3> QED
      BY <1>1, <1>3, <1>4, <2>1, <2>2, <3>1, <3>2, Zenon
  <2>3. CASE q # p
    <3>1. queueBcst'[q] = queueBcst[q] /\ (q \in peerWants' <=> q \in peerWants)
      BY <1>1, <2>3, Zenon DEF PwmInv, PwmTypeOK
    <3> QED
      BY <1>1, <1>4, <2>1, <3>1 DEF PwmInv, QueuesHoldWants
  <2> QED
    BY <2>2, <2>3, Zenon
<1> QED
  BY <1>1, <1>2, <1>5, <1>6, <1>7, Zenon DEF PwmInv

\* A peer is removed, with its wants and its queue.
LEMMA PwmRemove ==
    ASSUME PwmInv, NEW p \in Peer, removePeer(p)
    PROVE  PwmInv' /\ peerWants' = peerWants \ {p}
<1>1. /\ peerWants' = peerWants \ {p}
      /\ wantPeers' = [c \in Cid |-> IF c \in SentTo(p)
                                     THEN wantPeers[c] \ {p} ELSE wantPeers[c]]
      /\ wantBlocks' = [wantBlocks EXCEPT ![p] = {}]
      /\ wantHaves' = [wantHaves EXCEPT ![p] = {}]
      /\ queueWants' = [queueWants EXCEPT ![p] = NoWants]
      /\ queueBcst' = [queueBcst EXCEPT ![p] = {}]
      /\ UNCHANGED broadcastWants
  BY Zenon DEF removePeer
<1>2. PwmTypeOK'
  <2>1. NoWants \in [Cid -> WantType]
    BY Zenon DEF NoWants, WantType
  <2>2. wantGauge' \in Int /\ wantBlockGauge' \in Int
    BY KeySets DEF removePeer, PwmInv, PwmTypeOK
  <2>3. wantPeers' \in [Cid -> SUBSET Peer]
    BY <1>1, Zenon DEF PwmInv, PwmTypeOK
  <2> QED
    BY <1>1, <2>1, <2>2, <2>3, Zenon DEF PwmInv, PwmTypeOK
<1>3. /\ SentTo(p)' = {} /\ wantBlocks'[p] = {} /\ wantHaves'[p] = {}
      /\ \A q \in Peer : q # p => /\ SentTo(q)' = SentTo(q)
                                  /\ wantBlocks'[q] = wantBlocks[q]
                                  /\ wantHaves'[q] = wantHaves[q]
                                  /\ queueWants'[q] = queueWants[q]
                                  /\ queueBcst'[q] = queueBcst[q]
                                  /\ q \in peerWants' <=> q \in peerWants
  BY <1>1, Zenon DEF SentTo, PwmInv, PwmTypeOK
<1>4. IndexExact'
  <2>1. \A q \in Peer : wantBlocks'[q] \cap wantHaves'[q] = {}
    BY <1>3, Zenon DEF PwmInv, IndexExact
  <2>2. ASSUME NEW q \in Peer, NEW c \in Cid
        PROVE  q \in wantPeers'[c] <=> q \in peerWants' /\ c \in SentTo(q)'
    <3>1. q \in wantPeers'[c] <=> q \in wantPeers[c] /\ (q # p \/ c \notin SentTo(p))
      BY <1>1, Zenon
    <3> QED
      BY <1>1, <1>3, <3>1 DEF PwmInv, IndexExact
  <2> QED
    BY <2>1, <2>2, Zenon DEF IndexExact
<1>5. /\ queueBcst'[p] = {} /\ \A c \in Cid : queueWants'[p][c] = "none"
      /\ p \notin peerWants'
  BY <1>1, Zenon DEF PwmInv, PwmTypeOK, NoWants
<1>6. NewQueuesEmpty'
  BY <1>3, <1>5 DEF PwmInv, NewQueuesEmpty
<1>7. QueuesHoldWants'
  <2> SUFFICES ASSUME NEW q \in Peer
               PROVE  /\ q \in peerWants' =>
                            queueBcst'[q] \cup {c \in Cid : queueWants'[q][c] # "none"}
                              = broadcastWants' \cup SentTo(q)'
                      /\ {c \in Cid : queueWants'[q][c] = "block"} = wantBlocks'[q]
                      /\ q \notin peerWants' => queueBcst'[q] = {} /\ SentTo(q)' = {}
    BY Zenon DEF QueuesHoldWants
  <2>1. CASE q = p
    BY <1>3, <1>5, <2>1, Zenon
  <2>2. CASE q # p
    BY <1>1, <1>3, <2>2 DEF PwmInv, QueuesHoldWants
  <2> QED
    BY <2>1, <2>2, Zenon
<1> QED
  BY <1>1, <1>2, <1>4, <1>6, <1>7, Zenon DEF PwmInv

\* A broadcast reaches every known peer that was not sent the key before.
LEMMA PwmBroadcast ==
    ASSUME PwmInv, NEW ks \in SUBSET Cid, broadcastWantHaves(ks)
    PROVE  PwmInv' /\ UNCHANGED peerWants
<1> DEFINE unsent == ks \ broadcastWants
<1>1. /\ broadcastWants' = broadcastWants \cup unsent
      /\ queueBcst' = [p \in Peer |-> IF p \in peerWants
                                      THEN queueBcst[p] \cup (unsent \ SentTo(p))
                                      ELSE queueBcst[p]]
      /\ wantGauge' = wantGauge + Cardinality({c \in unsent : wantPeers[c] = {}})
      /\ UNCHANGED <<peerWants, wantBlocks, wantHaves, wantPeers, wantBlockGauge,
                     queueWants>>
  BY Zenon DEF broadcastWantHaves
<1>2. PwmTypeOK'
  <2>1. wantGauge' \in Int
    BY <1>1, KeySets DEF PwmInv, PwmTypeOK
  <2>2. queueBcst' \in [Peer -> SUBSET Cid]
    BY <1>1, Zenon DEF PwmInv, PwmTypeOK
  <2> QED
    BY <1>1, <2>1, <2>2, Zenon DEF PwmInv, PwmTypeOK
<1>3. \A q \in Peer : SentTo(q)' = SentTo(q)
  BY <1>1, Zenon DEF SentTo
<1>4. IndexExact' /\ NewQueuesEmpty'
  BY <1>1, <1>3, Zenon DEF PwmInv, IndexExact, NewQueuesEmpty
<1>5. QueuesHoldWants'
  <2> SUFFICES ASSUME NEW q \in Peer
               PROVE  /\ q \in peerWants' =>
                            queueBcst'[q] \cup {c \in Cid : queueWants'[q][c] # "none"}
                              = broadcastWants' \cup SentTo(q)'
                      /\ {c \in Cid : queueWants'[q][c] = "block"} = wantBlocks'[q]
                      /\ q \notin peerWants' => queueBcst'[q] = {} /\ SentTo(q)' = {}
    BY Zenon DEF QueuesHoldWants
  <2>1. {c \in Cid : queueWants'[q][c] = "block"} = wantBlocks'[q]
    BY <1>1, Zenon DEF PwmInv, QueuesHoldWants
  <2>2. CASE q \in peerWants
    <3>1. queueBcst'[q] = queueBcst[q] \cup (unsent \ SentTo(q))
      BY <1>1, <2>2, Zenon
    <3>2. queueBcst[q] \cup {c \in Cid : queueWants[q][c] # "none"}
            = broadcastWants \cup SentTo(q)
      BY <2>2, Zenon DEF PwmInv, QueuesHoldWants
    <3>3. {c \in Cid : queueWants'[q][c] # "none"}
            = {c \in Cid : queueWants[q][c] # "none"}
      BY <1>1, Zenon
    <3>4. queueBcst'[q] \cup {c \in Cid : queueWants'[q][c] # "none"}
            = broadcastWants' \cup SentTo(q)'
      BY <1>1, <1>3, <3>1, <3>2, <3>3
    <3> QED
      BY <1>1, <2>1, <2>2, <3>4, Zenon
  <2>3. CASE q \notin peerWants
    BY <1>1, <1>3, <2>1, <2>3, Zenon DEF PwmInv, QueuesHoldWants
  <2> QED
    BY <2>2, <2>3, Zenon
<1> QED
  BY <1>1, <1>2, <1>4, <1>5, Zenon DEF PwmInv

\* Wants are sent to one peer; a want-block replaces a want-have.
LEMMA PwmSend ==
    ASSUME PwmInv, NEW p \in Peer, NEW blks \in SUBSET Cid, NEW hvs \in SUBSET Cid,
           sendWants(p, blks, hvs)
    PROVE  PwmInv' /\ UNCHANGED peerWants
<1> DEFINE fltBlks == blks \ wantBlocks[p]
           fltHvs == (hvs \ broadcastWants) \ (SentTo(p) \cup fltBlks)
<1>1. /\ p \in peerWants
      /\ wantBlocks' = [wantBlocks EXCEPT ![p] = @ \cup fltBlks]
      /\ wantHaves' = [wantHaves EXCEPT ![p] = (@ \ fltBlks) \cup fltHvs]
      /\ wantPeers' = [c \in Cid |-> IF c \in fltBlks \cup fltHvs
                                     THEN wantPeers[c] \cup {p} ELSE wantPeers[c]]
      /\ queueWants' = [queueWants EXCEPT ![p] = AddToQueue(@, fltBlks, fltHvs)]
      /\ UNCHANGED <<peerWants, broadcastWants, queueBcst>>
  BY Zenon DEF sendWants
<1>2. fltBlks \subseteq Cid /\ fltHvs \subseteq Cid /\ fltBlks \cap fltHvs = {}
  OBVIOUS
<1>3. fltHvs \cap wantBlocks[p] = {}
  BY Zenon DEF SentTo
<1>4. wantGauge' \in Int /\ wantBlockGauge' \in Int
  BY KeySets DEF sendWants, PwmInv, PwmTypeOK
<1> HIDE DEF fltBlks, fltHvs
<1>5. \A c \in Cid : queueWants'[p][c] =
         IF c \in fltBlks THEN "block"
         ELSE IF c \in fltHvs /\ queueWants[p][c] = "none" THEN "have"
         ELSE queueWants[p][c]
  BY <1>1, Zenon DEF AddToQueue, PwmInv, PwmTypeOK
<1>6. PwmTypeOK'
  <2>1. AddToQueue(queueWants[p], fltBlks, fltHvs) \in [Cid -> WantType]
    BY DEF AddToQueue, PwmInv, PwmTypeOK, WantType
  <2>2. queueWants' \in [Peer -> [Cid -> WantType]]
    BY <1>1, <2>1, Zenon DEF PwmInv, PwmTypeOK
  <2>3. wantPeers' \in [Cid -> SUBSET Peer]
    BY <1>1, Zenon DEF PwmInv, PwmTypeOK
  <2>4. wantBlocks' \in [Peer -> SUBSET Cid] /\ wantHaves' \in [Peer -> SUBSET Cid]
    BY <1>1, <1>2, Zenon DEF PwmInv, PwmTypeOK
  <2> QED
    BY <1>1, <1>4, <2>2, <2>3, <2>4, Zenon DEF PwmInv, PwmTypeOK
<1>7. /\ wantBlocks'[p] = wantBlocks[p] \cup fltBlks
      /\ wantHaves'[p] = (wantHaves[p] \ fltBlks) \cup fltHvs
      /\ SentTo(p)' = SentTo(p) \cup fltBlks \cup fltHvs
      /\ \A q \in Peer : q # p => /\ wantBlocks'[q] = wantBlocks[q]
                                  /\ wantHaves'[q] = wantHaves[q]
                                  /\ SentTo(q)' = SentTo(q)
                                  /\ queueWants'[q] = queueWants[q]
  BY <1>1, Zenon DEF SentTo, PwmInv, PwmTypeOK
<1>8. IndexExact'
  <2>1. \A q \in Peer : wantBlocks'[q] \cap wantHaves'[q] = {}
    BY <1>2, <1>3, <1>7, Zenon DEF PwmInv, IndexExact
  <2>2. ASSUME NEW q \in Peer, NEW c \in Cid
        PROVE  q \in wantPeers'[c] <=> q \in peerWants' /\ c \in SentTo(q)'
    <3>1. q \in wantPeers'[c] <=>
             q \in wantPeers[c] \/ (q = p /\ c \in fltBlks \cup fltHvs)
      BY <1>1, Zenon
    <3> QED
      BY <1>1, <1>7, <3>1 DEF PwmInv, IndexExact
  <2> QED
    BY <2>1, <2>2, Zenon DEF IndexExact
<1>9. NewQueuesEmpty'
  BY <1>1, <1>7 DEF PwmInv, NewQueuesEmpty
<1>10. QueuesHoldWants'
  <2> SUFFICES ASSUME NEW q \in Peer
               PROVE  /\ q \in peerWants' =>
                            queueBcst'[q] \cup {c \in Cid : queueWants'[q][c] # "none"}
                              = broadcastWants' \cup SentTo(q)'
                      /\ {c \in Cid : queueWants'[q][c] = "block"} = wantBlocks'[q]
                      /\ q \notin peerWants' => queueBcst'[q] = {} /\ SentTo(q)' = {}
    BY Zenon DEF QueuesHoldWants
  <2>1. CASE q # p
    BY <1>1, <1>7, <2>1 DEF PwmInv, QueuesHoldWants
  <2>2. CASE q = p
    <3>1. /\ queueBcst[p] \cup {c \in Cid : queueWants[p][c] # "none"}
               = broadcastWants \cup SentTo(p)
          /\ {c \in Cid : queueWants[p][c] = "block"} = wantBlocks[p]
      BY <1>1, Zenon DEF PwmInv, QueuesHoldWants
    <3>2. {c \in Cid : queueWants'[p][c] # "none"}
            = {c \in Cid : queueWants[p][c] # "none"} \cup fltBlks \cup fltHvs
      BY <1>2, <1>5, Zenon
    <3>3. {c \in Cid : queueWants'[p][c] = "block"} = wantBlocks'[p]
      BY <1>2, <1>5, <1>7, <3>1
    <3>4. queueBcst'[p] \cup {c \in Cid : queueWants'[p][c] # "none"}
            = broadcastWants' \cup SentTo(p)'
      BY <1>1, <1>7, <3>1, <3>2, Zenon
    <3> QED
      BY <1>1, <2>2, <3>3, <3>4, Zenon
  <2> QED
    BY <2>1, <2>2, Zenon
<1> QED
  BY <1>1, <1>6, <1>8, <1>9, <1>10, Zenon DEF PwmInv

\* Cancels reach every peer whose queue asks for a cancelled key.
LEMMA PwmCancel ==
    ASSUME PwmInv, NEW l \in Seq(Cid), sendCancels(l)
    PROVE  PwmInv' /\ UNCHANGED peerWants
<1> DEFINE ks == Keys(l)
<1>1. /\ wantBlocks' = [p \in Peer |-> IF p \in CancelPeers(ks)
                                       THEN wantBlocks[p] \ ks ELSE wantBlocks[p]]
      /\ wantHaves' = [p \in Peer |-> IF p \in CancelPeers(ks)
                                      THEN wantHaves[p] \ ks ELSE wantHaves[p]]
      /\ queueWants' =
           [p \in Peer |-> IF p \in CancelPeers(ks)
              THEN [c \in Cid |-> IF c \in ToCancel(p, ks) THEN "none"
                                  ELSE queueWants[p][c]]
              ELSE queueWants[p]]
      /\ queueBcst' = [p \in Peer |-> IF p \in CancelPeers(ks)
                                      THEN queueBcst[p] \ ToCancel(p, ks)
                                      ELSE queueBcst[p]]
      /\ broadcastWants' = broadcastWants \ ks
      /\ wantPeers' = [c \in Cid |-> IF c \in ks THEN {} ELSE wantPeers[c]]
      /\ UNCHANGED peerWants
  BY Zenon DEF sendCancels
<1>2. ks \subseteq Cid
  BY DEF Keys
<1>3. wantGauge' \in Int /\ wantBlockGauge' \in Int
  BY Positions DEF sendCancels, PwmInv, PwmTypeOK
<1> HIDE DEF ks
<1>4. PwmTypeOK'
  <2>1. wantBlocks' \in [Peer -> SUBSET Cid] /\ wantHaves' \in [Peer -> SUBSET Cid]
    BY <1>1, Zenon DEF PwmInv, PwmTypeOK
  <2>2. queueWants' \in [Peer -> [Cid -> WantType]]
    BY <1>1, Zenon DEF PwmInv, PwmTypeOK, WantType
  <2>3. queueBcst' \in [Peer -> SUBSET Cid] /\ wantPeers' \in [Cid -> SUBSET Peer]
    BY <1>1, Zenon DEF PwmInv, PwmTypeOK
  <2> QED
    BY <1>1, <1>3, <2>1, <2>2, <2>3, Zenon DEF PwmInv, PwmTypeOK
\* A peer that is sent no cancel has none of the keys.
<1>5. ASSUME NEW q \in Peer, q \notin CancelPeers(ks)
      PROVE  SentTo(q) \cap ks = {} /\ (q \in peerWants => broadcastWants \cap ks = {})
  <2>1. CASE q \notin peerWants
    BY <2>1 DEF PwmInv, QueuesHoldWants
  <2>2. CASE q \in peerWants
    <3>1. ks \cap broadcastWants = {} /\ \A c \in ks : q \notin wantPeers[c]
      BY <1>5, <2>2 DEF CancelPeers
    <3> QED
      BY <1>2, <2>2, <3>1 DEF PwmInv, IndexExact
  <2> QED
    BY <2>1, <2>2
<1>6. \A q \in Peer : /\ wantBlocks'[q] = wantBlocks[q] \ ks
                      /\ wantHaves'[q] = wantHaves[q] \ ks
                      /\ SentTo(q)' = SentTo(q) \ ks
  BY <1>1, <1>5 DEF SentTo
<1>7. IndexExact'
  <2>1. \A q \in Peer : wantBlocks'[q] \cap wantHaves'[q] = {}
    BY <1>6 DEF PwmInv, IndexExact
  <2>2. ASSUME NEW q \in Peer, NEW c \in Cid
        PROVE  q \in wantPeers'[c] <=> q \in peerWants' /\ c \in SentTo(q)'
    BY <1>1, <1>6 DEF PwmInv, IndexExact
  <2> QED
    BY <2>1, <2>2 DEF IndexExact
<1>8. NewQueuesEmpty'
  BY <1>1 DEF PwmInv, NewQueuesEmpty
<1>9. QueuesHoldWants'
  <2> SUFFICES ASSUME NEW q \in Peer
               PROVE  /\ q \in peerWants' =>
                            queueBcst'[q] \cup {c \in Cid : queueWants'[q][c] # "none"}
                              = broadcastWants' \cup SentTo(q)'
                      /\ {c \in Cid : queueWants'[q][c] = "block"} = wantBlocks'[q]
                      /\ q \notin peerWants' => queueBcst'[q] = {} /\ SentTo(q)' = {}
    BY DEF QueuesHoldWants
  <2>1. /\ q \in peerWants => queueBcst[q] \cup {c \in Cid : queueWants[q][c] # "none"}
             = broadcastWants \cup SentTo(q)
        /\ {c \in Cid : queueWants[q][c] = "block"} = wantBlocks[q]
        /\ q \notin peerWants => queueBcst[q] = {} /\ SentTo(q) = {}
    BY DEF PwmInv, QueuesHoldWants
  <2>2. CASE q \in CancelPeers(ks)
    <3>1. q \in peerWants
      BY <2>2 DEF CancelPeers
    <3>2. /\ queueBcst'[q] = queueBcst[q] \ ToCancel(q, ks)
          /\ \A c \in Cid : queueWants'[q][c] =
                IF c \in ToCancel(q, ks) THEN "none" ELSE queueWants[q][c]
      BY <1>1, <2>2
    <3>3. ToCancel(q, ks) = ks \cap (broadcastWants \cup SentTo(q))
      BY DEF ToCancel
    <3>4. {c \in Cid : queueWants'[q][c] # "none"}
            = {c \in Cid : queueWants[q][c] # "none"} \ ToCancel(q, ks)
      BY <3>2
    <3>5. queueBcst'[q] \cup {c \in Cid : queueWants'[q][c] # "none"}
            = broadcastWants' \cup SentTo(q)'
      BY <1>1, <1>6, <2>1, <3>1, <3>2, <3>3, <3>4
    <3>6. {c \in Cid : queueWants'[q][c] = "block"}
            = {c \in Cid : queueWants[q][c] = "block"} \ ToCancel(q, ks)
      BY <3>2
    <3>7. {c \in Cid : queueWants'[q][c] = "block"} = wantBlocks'[q]
      BY <1>6, <2>1, <3>3, <3>6 DEF SentTo
    <3> QED
      BY <1>1, <3>1, <3>5, <3>7, ZenonT(60)
  <2>3. CASE q \notin CancelPeers(ks)
    <3>1. queueBcst'[q] = queueBcst[q] /\ queueWants'[q] = queueWants[q]
      BY <1>1, <2>3
    <3>2. SentTo(q)' = SentTo(q) /\ wantBlocks'[q] = wantBlocks[q]
      BY <1>5, <1>6, <2>3, ZenonT(60) DEF SentTo
    <3>3. q \in peerWants => broadcastWants' = broadcastWants
      BY <1>1, <1>5, <2>3
    <3> QED
      BY <1>1, <2>1, <3>1, <3>2, <3>3
  <2> QED
    BY <2>2, <2>3
<1> QED
  BY <1>1, <1>4, <1>7, <1>8, <1>9 DEF PwmInv

-----------------------------------------------------------------------------
(* The peer manager.                                                       *)

\* The three records of the connected peers are one set.
SamePeers == peerQueues = peerWants /\ peerWants = connectedPeers

PmTypeOK ==
    /\ peerQueues \subseteq Peer
    /\ peerSessions \in [Peer -> SUBSET Session]
    /\ signals \in [Session -> [Peer -> {"none", "up", "down"}]]

\* A session that is not registered for a peer has been told nothing about it.
StrangersUntold ==
    \A s \in Session, p \in Peer :
        s \notin peerSessions[p] => signals[s][p] = "none"

\* The inductive invariant.
IInv == GraphInv /\ PwmInv /\ PmTypeOK /\ SamePeers
          /\ SignalsCurrent /\ StrangersUntold

\* A successor is a connected peer, so it has a queue.
LEMMA TargetsHaveQueues ==
    ASSUME GraphInv, SamePeers
    PROVE  PoolsAgree
<1> SUFFICES ASSUME NEW exclude \in SUBSET Peer
             PROVE  ForwardTargets(exclude, NoPeer) = SuccessorsExcept(exclude)
  BY Zenon DEF SamePeers, PoolsAgree
<1>1. SuccessorsExcept(exclude) \subseteq peerWants
  BY Zenon DEF GraphInv, SuccessorsRegular, SamePeers, SuccessorsExcept
<1>2. NoPeer \notin peerWants
  BY NoSuccessorAssumption, Zenon DEF GraphInv, FgmTypeOK, SamePeers
<1>3. CASE SuccessorsExcept(exclude) = {}
  BY <1>2, <1>3, Zenon DEF ForwardTargets, GetSuccessorByStrategy
<1>4. CASE SuccessorsExcept(exclude) # {}
  BY <1>1, <1>4, Zenon DEF ForwardTargets, GetSuccessorByStrategy
<1> QED
  BY <1>3, <1>4, Zenon

\* Nothing the forward graph's invariant speaks of changes.
LEMMA GraphStutter ==
    ASSUME GraphInv, UNCHANGED fgmVars
    PROVE  GraphInv' /\ UNCHANGED connectedPeers
BY DEF GraphInv, FgmTypeOK, SuccessorsRegular, successorTarget, useCompleteGraph,
       fgmVars

\* Nothing the want manager's invariant speaks of changes.
LEMMA PwmStutter ==
    ASSUME PwmInv, UNCHANGED pwmVars
    PROVE  PwmInv' /\ UNCHANGED peerWants
<1>1. \A p \in Peer : SentTo(p)' = SentTo(p)
  BY Zenon DEF pwmVars, SentTo
<1>2. PwmTypeOK' /\ IndexExact' /\ NewQueuesEmpty' /\ UNCHANGED peerWants
  BY <1>1 DEF PwmInv, PwmTypeOK, IndexExact, NewQueuesEmpty, pwmVars
<1>3. QueuesHoldWants'
  BY <1>1 DEF PwmInv, QueuesHoldWants, pwmVars
<1> QED
  BY <1>2, <1>3, Zenon DEF PwmInv

\* The initial state, with no peer connected, satisfies the invariant.
LEMMA InitIInv == Init => IInv
<1> SUFFICES ASSUME Init PROVE IInv
  OBVIOUS
<1>1. FgmInit /\ PwmInit /\ peerQueues = {}
  BY Zenon DEF Init
<1>2. FgmTypeOK
  BY <1>1, Zenon DEF FgmInit, FgmTypeOK
<1>3. SuccessorsRegular
  <2>1. Cardinality(successors) = 0 /\ successorTarget \in Nat
    BY <1>1, <1>2, FS_EmptySet, PeerSets, Zenon DEF FgmInit
  <2> QED
    BY <1>1, <2>1 DEF FgmInit, SuccessorsRegular
<1>4. PwmTypeOK
  <2>1. queueWants \in [Peer -> [Cid -> WantType]]
    BY <1>1, Zenon DEF PwmInit, NoWants, WantType
  <2>2. /\ wantBlocks \in [Peer -> SUBSET Cid] /\ wantHaves \in [Peer -> SUBSET Cid]
        /\ wantPeers \in [Cid -> SUBSET Peer] /\ queueBcst \in [Peer -> SUBSET Cid]
    BY <1>1, Zenon DEF PwmInit
  <2> QED
    BY <1>1, <2>1, <2>2 DEF PwmInit, PwmTypeOK
<1>5. \A p \in Peer : SentTo(p) = {}
  BY <1>1, Zenon DEF PwmInit, SentTo
<1>6. IndexExact
  BY <1>1, <1>5, Zenon DEF PwmInit, IndexExact
<1>7. \A p \in Peer, c \in Cid : queueWants[p][c] = "none"
  BY <1>1, Zenon DEF PwmInit, NoWants
<1>8. QueuesHoldWants /\ NewQueuesEmpty
  BY <1>1, <1>5, <1>7, Zenon DEF PwmInit, QueuesHoldWants, NewQueuesEmpty
<1>9. PmTypeOK
  BY Zenon DEF Init, PmTypeOK
<1>10. SamePeers /\ SignalsCurrent /\ StrangersUntold
  BY <1>1, Zenon DEF Init, FgmInit, PwmInit, SamePeers, SignalsCurrent, StrangersUntold
<1> QED
  BY <1>2, <1>3, <1>4, <1>6, <1>8, <1>9, <1>10, Zenon DEF IInv, GraphInv, PwmInv

\* What a signal leaves a registered session believing.
LEMMA SignalStep ==
    ASSUME PmTypeOK, SignalsCurrent, StrangersUntold,
           NEW p \in Peer, NEW sig \in {"up", "down"},
           SignalAvailability(p, sig), UNCHANGED peerSessions,
           peerQueues' = IF sig = "up" THEN peerQueues \cup {p} ELSE peerQueues \ {p}
    PROVE  PmTypeOK' /\ SignalsCurrent' /\ StrangersUntold'
<1>1. \A s \in Session, q \in Peer :
         signals'[s][q] = IF q = p /\ s \in peerSessions[p] THEN sig ELSE signals[s][q]
  BY Zenon DEF SignalAvailability, PmTypeOK
<1>2. signals' \in [Session -> [Peer -> {"none", "up", "down"}]]
  BY Zenon DEF SignalAvailability, PmTypeOK
<1>3. PmTypeOK'
  BY <1>2, Zenon DEF PmTypeOK
<1>4. SignalsCurrent'
  <2> SUFFICES ASSUME NEW s \in Session, NEW q \in Peer, s \in peerSessions[q]
               PROVE  /\ signals'[s][q] = "up" => q \in peerQueues'
                      /\ signals'[s][q] = "down" => q \notin peerQueues'
    BY Zenon DEF SignalsCurrent
  <2>1. CASE q = p
    BY <1>1, <2>1, Zenon
  <2>2. CASE q # p
    BY <1>1, <2>2, Zenon DEF SignalsCurrent
  <2> QED
    BY <2>1, <2>2, Zenon
<1>5. StrangersUntold'
  BY <1>1 DEF StrangersUntold
<1> QED
  BY <1>3, <1>4, <1>5, Zenon

\* A peer connects: all records gain it, and the sessions are told.
LEMMA ConnectedStep ==
    ASSUME IInv, NEW p \in Peer, Connected(p)
    PROVE  IInv'
<1>1. PmTypeOK' /\ SignalsCurrent' /\ StrangersUntold'
  BY SignalStep, Zenon DEF IInv, Connected
<1>2. CASE p \in peerWants
  <2>1. UNCHANGED <<pwmVars, fgmVars>> /\ peerQueues' = peerQueues
    BY <1>2, Zenon DEF Connected, IInv, SamePeers
  <2> QED
    BY <1>1, <2>1, GraphStutter, PwmStutter, Zenon DEF IInv, SamePeers
<1>3. CASE p \notin peerWants
  <2>1. addPeer(p) /\ peerQueues' = peerQueues \cup {p}
    BY <1>3, Zenon DEF Connected
  <2>2. PwmInv' /\ peerWants' = peerWants \cup {p}
    BY <1>3, <2>1, PwmAdd DEF IInv
  <2>3. GraphInv' /\ connectedPeers' = connectedPeers \cup {p}
    BY <2>1, GraphAdd, Zenon DEF IInv, addPeer
  <2> QED
    BY <1>1, <2>1, <2>2, <2>3 DEF IInv, SamePeers
<1> QED
  BY <1>2, <1>3, Zenon

\* A peer disconnects: all records lose it, and the sessions are told.
LEMMA DisconnectedStep ==
    ASSUME IInv, NEW p \in Peer, Disconnected(p)
    PROVE  IInv'
<1>1. PmTypeOK' /\ SignalsCurrent' /\ StrangersUntold'
  BY SignalStep, Zenon DEF IInv, Disconnected
<1>2. removePeer(p) /\ peerQueues' = peerQueues \ {p}
  BY Zenon DEF Disconnected
<1>3. PwmInv' /\ peerWants' = peerWants \ {p}
  BY <1>2, PwmRemove, Zenon DEF IInv
<1>4. GraphInv' /\ connectedPeers' = connectedPeers \ {p}
  BY <1>2, GraphRemove, Zenon DEF IInv, removePeer
<1> QED
  BY <1>1, <1>2, <1>3, <1>4 DEF IInv, SamePeers

\* The session registry.
LEMMA RegistryStep ==
    ASSUME IInv, NEW s \in Session,
           (\E p \in Peer : RegisterSession(p, s)) \/ UnregisterSession(s)
    PROVE  IInv'
<1>1. UNCHANGED <<fgmVars, pwmVars, peerQueues>>
  BY Zenon DEF RegisterSession, UnregisterSession
<1>2. GraphInv' /\ PwmInv' /\ SamePeers'
  BY <1>1, GraphStutter, PwmStutter, Zenon DEF IInv, SamePeers
<1>3. ASSUME NEW p \in Peer, RegisterSession(p, s)
      PROVE  PmTypeOK' /\ SignalsCurrent' /\ StrangersUntold'
  <2>1. /\ peerSessions' = [peerSessions EXCEPT ![p] = @ \cup {s}]
        /\ s \notin peerSessions[p]
        /\ UNCHANGED <<peerQueues, signals>>
    BY <1>3, Zenon DEF RegisterSession
  <2>2. PmTypeOK'
    BY <2>1, Zenon DEF IInv, PmTypeOK
  <2>3. \A t \in Session, q \in Peer :
           t \in peerSessions'[q] <=> t \in peerSessions[q] \/ (t = s /\ q = p)
    BY <2>1, Zenon DEF IInv, PmTypeOK
  <2>4. signals[s][p] = "none"
    BY <2>1 DEF IInv, StrangersUntold
  <2>5. SignalsCurrent'
    BY <2>1, <2>3, <2>4, Zenon DEF IInv, SignalsCurrent
  <2>6. StrangersUntold'
    BY <2>1, <2>3 DEF IInv, StrangersUntold
  <2> QED
    BY <2>2, <2>5, <2>6, Zenon
<1>4. ASSUME UnregisterSession(s)
      PROVE  PmTypeOK' /\ SignalsCurrent' /\ StrangersUntold'
  <2>1. /\ peerSessions' = [p \in Peer |-> peerSessions[p] \ {s}]
        /\ signals' = [signals EXCEPT ![s] = [p \in Peer |-> "none"]]
        /\ UNCHANGED peerQueues
    BY <1>4, Zenon DEF UnregisterSession
  <2>2. [p \in Peer |-> "none"] \in [Peer -> {"none", "up", "down"}]
    OBVIOUS
  <2>3. peerSessions' \in [Peer -> SUBSET Session]
    BY <2>1, Zenon DEF IInv, PmTypeOK
  <2>4. signals' \in [Session -> [Peer -> {"none", "up", "down"}]]
    BY <2>1, <2>2, Zenon DEF IInv, PmTypeOK
  <2>5. PmTypeOK'
    BY <2>1, <2>3, <2>4 DEF IInv, PmTypeOK
  <2>6. /\ \A p \in Peer : signals'[s][p] = "none"
        /\ \A t \in Session : t # s => signals'[t] = signals[t]
        /\ \A t \in Session, p \in Peer :
              t \in peerSessions'[p] <=> t \in peerSessions[p] /\ t # s
    BY <2>1, Zenon DEF IInv, PmTypeOK
  <2>7. SignalsCurrent'
    BY <2>1, <2>6 DEF IInv, SignalsCurrent
  <2>8. StrangersUntold'
    BY <2>6 DEF IInv, StrangersUntold
  <2> QED
    BY <2>5, <2>7, <2>8, Zenon
<1> QED
  BY <1>2, <1>3, <1>4, Zenon DEF IInv

\* Wants, broadcasts, cancels and the forward graph's own steps.
LEMMA WantStep ==
    ASSUME IInv, UNCHANGED pmVars, UNCHANGED peerWants, UNCHANGED connectedPeers,
           GraphInv', PwmInv'
    PROVE  IInv'
<1>1. PmTypeOK' /\ SignalsCurrent' /\ StrangersUntold'
  BY Zenon DEF IInv, PmTypeOK, SignalsCurrent, StrangersUntold, pmVars
<1> QED
  BY <1>1, Zenon DEF IInv, SamePeers, pmVars

\* Every step of the peer manager preserves the invariant.
LEMMA NextIInv == IInv /\ [Next]_vars => IInv'
<1> SUFFICES ASSUME IInv, [Next]_vars PROVE IInv'
  OBVIOUS
<1>1. CASE UNCHANGED vars
  <2>1. UNCHANGED <<fgmVars, pwmVars, pmVars>>
    BY <1>1, Zenon DEF vars
  <2> QED
    BY <2>1, GraphStutter, PwmStutter, WantStep, Zenon DEF IInv
<1>2. ASSUME NEW p \in Peer, Connected(p) \/ Disconnected(p) PROVE IInv'
  BY <1>2, ConnectedStep, DisconnectedStep, Zenon
<1>3. ASSUME NEW p \in Peer, NEW blks \in SUBSET Cid, NEW hvs \in SUBSET Cid,
             SendWants(p, blks, hvs)
      PROVE  IInv'
  <2>1. sendWants(p, blks, hvs) /\ UNCHANGED fgmVars /\ UNCHANGED pmVars
    BY <1>3, Zenon DEF SendWants, sendWants
  <2>2. PwmInv' /\ UNCHANGED peerWants
    BY <2>1, PwmSend DEF IInv
  <2> QED
    BY <2>1, <2>2, GraphStutter, WantStep DEF IInv
<1>4. ASSUME NEW ks \in SUBSET Cid, BroadcastWantHaves(ks) PROVE IInv'
  <2>1. broadcastWantHaves(ks) /\ UNCHANGED fgmVars /\ UNCHANGED pmVars
    BY <1>4, Zenon DEF BroadcastWantHaves, broadcastWantHaves
  <2>2. PwmInv' /\ UNCHANGED peerWants
    BY <2>1, PwmBroadcast, Zenon DEF IInv
  <2> QED
    BY <2>1, <2>2, GraphStutter, WantStep, Zenon DEF IInv
<1>5. ASSUME NEW l \in CancelLists, SendCancels(l) PROVE IInv'
  <2>1. sendCancels(l) /\ UNCHANGED fgmVars /\ UNCHANGED pmVars
    BY <1>5, Zenon DEF SendCancels, sendCancels
  <2>2. PwmInv' /\ UNCHANGED peerWants
    BY <2>1, CancelListsAssumption, PwmCancel, Zenon DEF IInv
  <2> QED
    BY <2>1, <2>2, GraphStutter, WantStep, Zenon DEF IInv
<1>6. ASSUME NEW s \in Session,
             (\E p \in Peer : RegisterSession(p, s)) \/ UnregisterSession(s)
      PROVE  IInv'
  BY <1>6, RegistryStep, Zenon
<1>7. CASE GraphStep
  <2>1. FgmStep /\ UNCHANGED pwmVars /\ UNCHANGED pmVars
    BY <1>7, Zenon DEF GraphStep
  <2> QED
    BY <2>1, GraphSteps, PwmStutter, WantStep, Zenon DEF IInv
<1> QED
  BY <1>1, <1>2, <1>3, <1>4, <1>5, <1>6, <1>7, Zenon DEF Next

-----------------------------------------------------------------------------
\* The inductive invariant holds in every reachable state.
THEOREM Invariance == Spec => []IInv
  BY InitIInv, NextIInv, PTL DEF Spec

\* Every variable of the pool, the want manager and the forward graph keeps its
\* type.
THEOREM TypeCorrect == Spec => []TypeOK
<1>1. IInv => TypeOK
  BY Zenon DEF IInv, GraphInv, PwmInv, PmTypeOK, TypeOK
<1> QED
  BY <1>1, Invariance, PTL

\* Pool, want manager and forward graph always agree on who is connected, and a
\* chosen successor always has a queue.
THEOREM PoolsDoAgree == Spec => []PoolsAgree
<1>1. IInv => PoolsAgree
  BY TargetsHaveQueues, Zenon DEF IInv
<1> QED
  BY <1>1, Invariance, PTL

\* The reverse index names exactly the peers with a pending want for the key.
THEOREM IndexIsExact == Spec => []ReverseIndexExact
<1>1. IInv => ReverseIndexExact
  BY IndexGivesReports, Zenon DEF IInv, PwmInv
<1> QED
  BY <1>1, Invariance, PTL

\* A connected peer's queue asks for the broadcast wants and the peer's own, and
\* for nothing that was cancelled.
THEOREM QueuesDoHoldWants == Spec => []QueuesHoldWants
<1>1. IInv => QueuesHoldWants
  BY Zenon DEF IInv, PwmInv
<1> QED
  BY <1>1, Invariance, PTL

\* The forward graph stays regular through connects, disconnects and
\* reconstructions.
THEOREM GraphStaysRegular == Spec => []SuccessorsRegular
<1>1. IInv => SuccessorsRegular
  BY Zenon DEF IInv, GraphInv
<1> QED
  BY <1>1, Invariance, PTL

\* What a registered session was last told about a peer is still true.
THEOREM SignalsStayCurrent == Spec => []SignalsCurrent
<1>1. IInv => SignalsCurrent
  BY Zenon DEF IInv
<1> QED
  BY <1>1, Invariance, PTL

-----------------------------------------------------------------------------
(* The gauges, for callers that name no key twice in one SendCancels.      *)

DistinctCancels ==
    \A l \in CancelLists : \A i, j \in DOMAIN l : l[i] = l[j] => i = j

\* The number of keys in two sets without a common key.
LEMMA SizeOfSum ==
    ASSUME NEW A \in SUBSET Cid, NEW B \in SUBSET Cid, A \cap B = {}
    PROVE  Cardinality(A \cup B) = Cardinality(A) + Cardinality(B)
<1>1. IsFiniteSet(A) /\ IsFiniteSet(B)
  BY KeySets, Zenon
<1>2. Cardinality(A \cup B) = Cardinality(A) + Cardinality(B) - Cardinality(A \cap B)
  BY <1>1, FS_Union, Zenon
<1>3. Cardinality(A) \in Nat /\ Cardinality(B) \in Nat /\ Cardinality(A \cap B) = 0
  BY KeySets, FS_EmptySet
<1> QED
  BY <1>2, <1>3

\* The number of keys left when a subset is taken away.
LEMMA SizeOfRest ==
    ASSUME NEW A \in SUBSET Cid, NEW B \in SUBSET A
    PROVE  Cardinality(A \ B) = Cardinality(A) - Cardinality(B)
<1> DEFINE C == A \ B
<1>0. C \in SUBSET Cid /\ B \in SUBSET Cid /\ C \cap B = {}
  OBVIOUS
<1>a. Cardinality(C \cup B) = Cardinality(A)
  <2>1. C \cup B = A
    OBVIOUS
  <2> QED
    BY <2>1, Zenon
<1> HIDE DEF C
<1>1. Cardinality(C \cup B) = Cardinality(C) + Cardinality(B)
  BY <1>0, SizeOfSum, Zenon
<1>2. Cardinality(C) \in Nat /\ Cardinality(B) \in Nat
  BY <1>0, KeySets
<1>3. Cardinality(C) = Cardinality(A) - Cardinality(B)
  BY <1>a, <1>1, <1>2
<1> QED
  BY <1>3, Zenon DEF C

\* In a list without repetitions the positions of some keys are as many as the
\* keys.
LEMMA SizeOfPositions ==
    ASSUME NEW l \in Seq(Cid), \A i, j \in DOMAIN l : l[i] = l[j] => i = j,
           NEW S \in SUBSET Cid
    PROVE  Cardinality({i \in DOMAIN l : l[i] \in S}) = Cardinality(Keys(l) \cap S)
<1> DEFINE I == {i \in DOMAIN l : l[i] \in S}
           T == Keys(l) \cap S
           f == [i \in I |-> l[i]]
<1>1. f \in [I -> T]
  BY Zenon DEF Keys
<1>2. \A i, j \in I : f[i] = f[j] => i = j
  OBVIOUS
<1>3. \A c \in T : \E i \in I : f[i] = c
  BY Zenon DEF Keys
<1>4. f \in Bijection(I, T)
  BY <1>1, <1>2, <1>3, Zenon DEF Bijection, Injection, Surjection, IsInjective
<1>5. IsFiniteSet(I)
  BY Positions, Zenon
<1>6. ExistsBijection(I, T)
  BY <1>4, Zenon DEF ExistsBijection
<1>7. Cardinality(T) = Cardinality(I)
  BY <1>5, <1>6, FS_Bijection
<1> QED
  BY <1>7, Zenon

\* What the code counts per key is membership in the reports.
LEMMA CountsAreReports ==
    ASSUME PwmInv
    PROVE  /\ getWants \in SUBSET Cid /\ getWantBlocks \in SUBSET getWants
           /\ \A c \in Cid : BlockPeers(c) # {} <=> c \in getWantBlocks
           /\ \A c \in Cid : Wanted(c) <=> c \in getWants
<1>1. /\ getWants \in SUBSET Cid
      /\ getWants = getWantBlocks \cup getWantHaves
  BY IndexGivesReports, Zenon DEF PwmInv, PwmTypeOK, getWants, ReverseIndexExact
<1>2. ASSUME NEW c \in Cid PROVE BlockPeers(c) # {} <=> c \in getWantBlocks
  BY DEF BlockPeers, getWantBlocks, PwmInv, PwmTypeOK, IndexExact, SentTo
<1>3. ASSUME NEW c \in Cid PROVE Wanted(c) <=> c \in getWants
  <2>1. BlockPeers(c) \cup HavePeers(c) = wantPeers[c]
    BY Zenon DEF BlockPeers, HavePeers, PwmInv, PwmTypeOK, IndexExact, SentTo
  <2>2. c \in getWants <=> c \in broadcastWants \/ wantPeers[c] # {}
    BY Zenon DEF getWants
  <2> QED
    BY <2>1, <2>2, Zenon DEF Wanted
<1> QED
  BY <1>1, <1>2, <1>3, Zenon

\* A new peer has no wants of its own.
LEMMA GaugesAdd ==
    ASSUME PwmInv, GaugesExact, NEW p \in Peer, p \notin peerWants, addPeer(p)
    PROVE  GaugesExact'
<1>1. /\ peerWants' = peerWants \cup {p}
      /\ UNCHANGED <<wantBlocks, wantPeers, broadcastWants, wantGauge, wantBlockGauge>>
  BY Zenon DEF addPeer
<1>2. wantBlocks[p] = {}
  BY Zenon DEF PwmInv, QueuesHoldWants, SentTo
<1>3. getWantBlocks' = getWantBlocks
  <2>1. \A c : c \in getWantBlocks' <=> c \in getWantBlocks
    BY <1>1, <1>2, Zenon DEF getWantBlocks
  <2> QED
    BY <2>1, Zenon
<1>4. getWants' = getWants
  BY <1>1 DEF getWants
<1> QED
  BY <1>1, <1>3, <1>4, Zenon DEF GaugesExact

\* The gauges lose the keys that only the removed peer was asked for.
LEMMA GaugesRemove ==
    ASSUME PwmInv, GaugesExact, NEW p \in Peer, p \in peerWants, removePeer(p)
    PROVE  GaugesExact'
<1> DEFINE unblocked == {c \in wantBlocks[p] : BlockPeers(c) \ {p} = {}}
           unwanted(c) == /\ BlockPeers(c) \ {p} = {}
                          /\ HavePeers(c) \ {p} = {}
                          /\ c \notin broadcastWants
           U1 == {c \in wantBlocks[p] : unwanted(c)}
           U2 == {c \in wantHaves[p] : unwanted(c)}
<1>1. /\ peerWants' = peerWants \ {p}
      /\ wantPeers' = [c \in Cid |-> IF c \in SentTo(p)
                                     THEN wantPeers[c] \ {p} ELSE wantPeers[c]]
      /\ wantBlockGauge' = wantBlockGauge - Cardinality(unblocked)
      /\ wantGauge' = wantGauge - Cardinality(U1) - Cardinality(U2)
      /\ wantBlocks' = [wantBlocks EXCEPT ![p] = {}]
      /\ UNCHANGED broadcastWants
  BY Zenon DEF removePeer
<1>2. /\ getWants \in SUBSET Cid /\ getWantBlocks \in SUBSET getWants
      /\ wantBlocks[p] \subseteq Cid /\ wantHaves[p] \subseteq Cid
      /\ wantBlocks[p] \cap wantHaves[p] = {}
  BY CountsAreReports, Zenon DEF PwmInv, PwmTypeOK, IndexExact
<1>3. \A c \in Cid : BlockPeers(c) \cup HavePeers(c) = wantPeers[c]
  BY Zenon DEF BlockPeers, HavePeers, PwmInv, PwmTypeOK, IndexExact, SentTo
<1>4. \A c \in Cid : c \in getWants <=> c \in broadcastWants \/ wantPeers[c] # {}
  BY Zenon DEF getWants
<1>5. \A c \in Cid : c \in getWants' <=> c \in broadcastWants \/ wantPeers[c] \ {p} # {}
  <2> SUFFICES ASSUME NEW c \in Cid
               PROVE  wantPeers'[c] = wantPeers[c] \ {p}
    BY <1>1, Zenon DEF getWants
  <2>1. c \notin SentTo(p) => p \notin wantPeers[c]
    BY Zenon DEF PwmInv, IndexExact
  <2> QED
    BY <1>1, <2>1, Zenon
<1>6. \A c \in Cid : unwanted(c) <=> c \notin getWants'
  BY <1>3, <1>5
<1>7. \A c \in getWants : c \notin SentTo(p) => c \in getWants'
  BY <1>2, <1>4, <1>5 DEF PwmInv, IndexExact
<1>8. \A c \in SentTo(p) : c \in getWants
  BY <1>2, <1>4, Zenon DEF SentTo, PwmInv, IndexExact
<1>9. getWants' = getWants \ (U1 \cup U2)
  <2>1. getWants' \subseteq getWants
    <3>1. getWants' \subseteq Cid
      BY <1>1, <1>2, Zenon DEF getWants, PwmInv, PwmTypeOK
    <3> QED
      BY <1>4, <1>5, <3>1, Zenon
  <2>2. \A c \in Cid : c \in U1 \cup U2 <=> c \in SentTo(p) /\ c \notin getWants'
    BY <1>6, Zenon DEF SentTo
  <2> HIDE DEF U1, U2, unwanted
  <2> QED
    BY <1>2, <1>7, <2>1, <2>2, Zenon
<1>10. /\ U1 \cup U2 \in SUBSET getWants /\ U1 \cap U2 = {}
       /\ U1 \in SUBSET Cid /\ U2 \in SUBSET Cid
  BY <1>2, <1>8 DEF SentTo
<1>11. getWantBlocks' = getWantBlocks \ unblocked /\ unblocked \in SUBSET getWantBlocks
  <2>1. \A c : c \in getWantBlocks' <=>
                  \E q \in peerWants : q # p /\ c \in wantBlocks[q]
    BY <1>1, Zenon DEF getWantBlocks, PwmInv, PwmTypeOK
  <2>2. \A c : c \in getWantBlocks <=> \E q \in peerWants : c \in wantBlocks[q]
    BY Zenon DEF getWantBlocks
  <2>3. \A c \in Cid, q \in Peer :
           q \in BlockPeers(c) <=> q \in peerWants /\ c \in wantBlocks[q]
    BY Zenon DEF BlockPeers, PwmInv, PwmTypeOK, IndexExact, SentTo
  <2>4. \A c \in wantBlocks[p] : c \in unblocked <=> c \notin getWantBlocks'
    BY <1>2, <2>1, <2>3 DEF BlockPeers, PwmInv, PwmTypeOK
  <2>5. unblocked \in SUBSET wantBlocks[p]
    OBVIOUS
  <2> HIDE DEF unblocked
  <2> QED
    BY <2>1, <2>2, <2>4, <2>5, Zenon
<1> HIDE DEF U1, U2, unblocked, unwanted
<1>12. Cardinality(getWants \ (U1 \cup U2)) = Cardinality(getWants) - Cardinality(U1 \cup U2)
  BY <1>2, <1>10, SizeOfRest, Zenon
<1>13. Cardinality(U1 \cup U2) = Cardinality(U1) + Cardinality(U2)
  BY <1>10, SizeOfSum, Zenon
<1>14. /\ getWantBlocks \in SUBSET Cid
       /\ Cardinality(getWantBlocks \ unblocked)
             = Cardinality(getWantBlocks) - Cardinality(unblocked)
  BY <1>2, <1>11, SizeOfRest
<1>15. /\ Cardinality(U1) \in Nat /\ Cardinality(U2) \in Nat
       /\ Cardinality(getWants) \in Nat
  BY <1>2, <1>10, KeySets, Zenon
<1> QED
  BY <1>1, <1>9, <1>11, <1>12, <1>13, <1>14, <1>15 DEF GaugesExact

\* A broadcast adds the keys no peer was asked for.
LEMMA GaugesBroadcast ==
    ASSUME PwmInv, GaugesExact, NEW ks \in SUBSET Cid, broadcastWantHaves(ks)
    PROVE  GaugesExact'
<1> DEFINE new == {c \in ks \ broadcastWants : wantPeers[c] = {}}
<1>1. /\ broadcastWants' = broadcastWants \cup (ks \ broadcastWants)
      /\ wantGauge' = wantGauge + Cardinality(new)
      /\ UNCHANGED <<peerWants, wantBlocks, wantPeers, wantBlockGauge>>
  BY Zenon DEF broadcastWantHaves
<1>2. getWantBlocks' = getWantBlocks
  BY <1>1, Zenon DEF getWantBlocks
<1>3. getWants \in SUBSET Cid /\ new \in SUBSET Cid /\ getWants \cap new = {}
  BY Zenon DEF getWants, PwmInv, PwmTypeOK
<1>4. getWants' = getWants \cup new
  BY <1>1 DEF getWants
<1> HIDE DEF new
<1>5. Cardinality(getWants \cup new) = Cardinality(getWants) + Cardinality(new)
  BY <1>3, SizeOfSum, Zenon
<1> QED
  BY <1>1, <1>2, <1>4, <1>5, Zenon DEF GaugesExact

\* Sending wants adds the keys nobody wanted, or nobody wanted as a block.
LEMMA GaugesSend ==
    ASSUME PwmInv, GaugesExact, NEW p \in Peer,
           NEW blks \in SUBSET Cid, NEW hvs \in SUBSET Cid, sendWants(p, blks, hvs)
    PROVE  GaugesExact'
<1> DEFINE fltBlks == blks \ wantBlocks[p]
           fltHvs == (hvs \ broadcastWants) \ (SentTo(p) \cup fltBlks)
           B == {c \in fltBlks : BlockPeers(c) = {}}
           F1 == {c \in fltBlks : ~Wanted(c)}
           F2 == {c \in fltHvs : ~Wanted(c)}
<1>1. /\ p \in peerWants
      /\ wantBlocks' = [wantBlocks EXCEPT ![p] = @ \cup fltBlks]
      /\ wantPeers' = [c \in Cid |-> IF c \in fltBlks \cup fltHvs
                                     THEN wantPeers[c] \cup {p} ELSE wantPeers[c]]
      /\ wantBlockGauge' = wantBlockGauge + Cardinality(B)
      /\ wantGauge' = wantGauge + Cardinality(F1) + Cardinality(F2)
      /\ UNCHANGED <<peerWants, broadcastWants>>
  BY Zenon DEF sendWants
<1>2. /\ getWants \in SUBSET Cid /\ getWantBlocks \in SUBSET getWants
      /\ \A c \in Cid : BlockPeers(c) # {} <=> c \in getWantBlocks
      /\ \A c \in Cid : Wanted(c) <=> c \in getWants
  BY CountsAreReports, Zenon
<1>3. fltBlks \subseteq Cid /\ fltHvs \subseteq Cid /\ fltBlks \cap fltHvs = {}
  OBVIOUS
<1> HIDE DEF fltBlks, fltHvs
<1>4. getWantBlocks' = getWantBlocks \cup fltBlks
  <2>1. \A c : c \in getWantBlocks' <=>
           \E q \in peerWants : c \in wantBlocks[q] \/ (q = p /\ c \in fltBlks)
    BY <1>1 DEF getWantBlocks, PwmInv, PwmTypeOK
  <2>2. \A c : c \in getWantBlocks <=> \E q \in peerWants : c \in wantBlocks[q]
    BY Zenon DEF getWantBlocks
  <2> QED
    BY <1>1, <2>1, <2>2
<1>5. getWants' = getWants \cup fltBlks \cup fltHvs
  BY <1>1, <1>3, Zenon DEF getWants
<1>6. /\ B \in SUBSET Cid /\ B \cap getWantBlocks = {}
      /\ getWantBlocks' = getWantBlocks \cup B
  BY <1>2, <1>3, <1>4, Zenon
<1>7. /\ F1 \in SUBSET Cid /\ F2 \in SUBSET Cid /\ F1 \cap F2 = {}
      /\ getWants \cap F1 = {} /\ (getWants \cup F1) \cap F2 = {}
      /\ getWants' = (getWants \cup F1) \cup F2
  BY <1>2, <1>3, <1>5
<1> HIDE DEF B, F1, F2
<1>8. Cardinality(getWantBlocks \cup B) = Cardinality(getWantBlocks) + Cardinality(B)
  BY <1>2, <1>6, SizeOfSum, Zenon
<1>9. Cardinality(getWants \cup F1) = Cardinality(getWants) + Cardinality(F1)
  BY <1>2, <1>7, SizeOfSum
<1>10. getWants \cup F1 \in SUBSET Cid
  BY <1>2, <1>7, Zenon
<1>11. Cardinality((getWants \cup F1) \cup F2)
          = Cardinality(getWants \cup F1) + Cardinality(F2)
  BY <1>7, <1>10, SizeOfSum
<1> QED
  BY <1>1, <1>6, <1>7, <1>8, <1>9, <1>11 DEF GaugesExact

\* Cancels take away each key that was wanted, once.
LEMMA GaugesCancel ==
    ASSUME PwmInv, GaugesExact, NEW l \in Seq(Cid), sendCancels(l),
           \A i, j \in DOMAIN l : l[i] = l[j] => i = j
    PROVE  GaugesExact'
<1> DEFINE ks == Keys(l)
           IB == {i \in DOMAIN l : BlockPeers(l[i]) # {}}
           IW == {i \in DOMAIN l : Wanted(l[i])}
<1>1. /\ wantBlocks' = [p \in Peer |-> IF p \in CancelPeers(ks)
                                       THEN wantBlocks[p] \ ks ELSE wantBlocks[p]]
      /\ wantBlockGauge' = wantBlockGauge - Cardinality(IB)
      /\ wantGauge' = wantGauge - Cardinality(IW)
      /\ broadcastWants' = broadcastWants \ ks
      /\ wantPeers' = [c \in Cid |-> IF c \in ks THEN {} ELSE wantPeers[c]]
      /\ UNCHANGED peerWants
  BY Zenon DEF sendCancels
<1>2. /\ getWants \in SUBSET Cid /\ getWantBlocks \in SUBSET getWants
      /\ \A c \in Cid : BlockPeers(c) # {} <=> c \in getWantBlocks
      /\ \A c \in Cid : Wanted(c) <=> c \in getWants
  BY CountsAreReports, Zenon
<1>3. ks \subseteq Cid
  BY DEF Keys
<1>4. /\ IB = {i \in DOMAIN l : l[i] \in getWantBlocks}
      /\ IW = {i \in DOMAIN l : l[i] \in getWants}
  BY <1>2
<1>5. Cardinality(IB) = Cardinality(ks \cap getWantBlocks)
  <2>1. getWantBlocks \in SUBSET Cid
    BY <1>2, Zenon
  <2>2. Cardinality({i \in DOMAIN l : l[i] \in getWantBlocks})
           = Cardinality(Keys(l) \cap getWantBlocks)
    BY <2>1, SizeOfPositions, Zenon
  <2> QED
    BY <1>4, <2>2, Zenon
<1>6. Cardinality(IW) = Cardinality(ks \cap getWants)
  <2>1. Cardinality({i \in DOMAIN l : l[i] \in getWants})
           = Cardinality(Keys(l) \cap getWants)
    BY <1>2, SizeOfPositions, Zenon
  <2> QED
    BY <1>4, <2>1, Zenon
<1> HIDE DEF ks, IB, IW
<1>7. getWants' = getWants \ (ks \cap getWants)
  BY <1>1, <1>3, Zenon DEF getWants
<1>8. getWantBlocks' = getWantBlocks \ (ks \cap getWantBlocks)
  <2>1. ASSUME NEW q \in peerWants PROVE wantBlocks'[q] = wantBlocks[q] \ ks
    <3>1. q \in Peer
      BY <2>1 DEF PwmInv, PwmTypeOK
    <3>2. CASE q \in CancelPeers(ks)
      BY <1>1, <3>1, <3>2, Zenon
    <3>3. CASE q \notin CancelPeers(ks)
      <4>1. \A c \in ks : q \notin wantPeers[c]
        BY <3>3, Zenon DEF CancelPeers
      <4>2. wantBlocks[q] \cap ks = {}
        BY <1>3, <3>1, <4>1 DEF PwmInv, IndexExact, SentTo
      <4> QED
        BY <1>1, <3>1, <3>3, <4>2
    <3> QED
      BY <3>2, <3>3, Zenon
  <2>2. \A c : c \in getWantBlocks' <=> \E q \in peerWants : c \in wantBlocks[q] \ ks
    <3>1. \A c : c \in getWantBlocks' <=> \E q \in peerWants : c \in wantBlocks'[q]
      BY <1>1, Zenon DEF getWantBlocks
    <3> QED
      BY <2>1, <3>1
  <2>3. \A c : c \in getWantBlocks <=> \E q \in peerWants : c \in wantBlocks[q]
    BY Zenon DEF getWantBlocks
  <2> QED
    BY <2>2, <2>3
<1>9. Cardinality(getWants \ (ks \cap getWants))
         = Cardinality(getWants) - Cardinality(ks \cap getWants)
  BY <1>2, SizeOfRest, Zenon
<1>10. Cardinality(getWantBlocks \ (ks \cap getWantBlocks))
          = Cardinality(getWantBlocks) - Cardinality(ks \cap getWantBlocks)
  BY <1>2, SizeOfRest, Zenon
<1> QED
  BY <1>1, <1>5, <1>6, <1>7, <1>8, <1>9, <1>10 DEF GaugesExact

\* Steps that leave the want manager alone, or only change its forward graph.
LEMMA GaugesStutter ==
    ASSUME GaugesExact, UNCHANGED pwmVars
    PROVE  GaugesExact'
BY DEF GaugesExact, getWants, getWantBlocks, pwmVars

\* As long as no call of SendCancels names a key twice, the gauges are the numbers
\* of keys that are wanted, and wanted as a block.
THEOREM GaugesAreExact ==
    ASSUME DistinctCancels
    PROVE  Spec => []GaugesExact
<1>1. Init => GaugesExact
  <2> SUFFICES ASSUME Init PROVE GaugesExact
    OBVIOUS
  <2>1. getWants = {} /\ getWantBlocks = {} /\ wantGauge = 0 /\ wantBlockGauge = 0
    BY Zenon DEF Init, PwmInit, getWants, getWantBlocks
  <2> QED
    BY <2>1, FS_EmptySet, Zenon DEF GaugesExact
<1>2. IInv /\ GaugesExact /\ [Next]_vars => GaugesExact'
  <2> SUFFICES ASSUME IInv, GaugesExact, [Next]_vars PROVE GaugesExact'
    OBVIOUS
  <2>0. PwmInv
    BY Zenon DEF IInv
  <2>1. CASE UNCHANGED pwmVars
    BY <2>1, GaugesStutter, Zenon
  <2>2. ASSUME NEW p \in Peer, Connected(p) PROVE GaugesExact'
    <3>1. CASE p \in peerWants
      BY <2>1, <2>2, <3>1, Zenon DEF Connected
    <3>2. CASE p \notin peerWants
      BY <2>0, <2>2, <3>2, GaugesAdd DEF Connected
    <3> QED
      BY <3>1, <3>2
  <2>3. ASSUME NEW p \in Peer, Disconnected(p) PROVE GaugesExact'
    BY <2>0, <2>3, GaugesRemove, Zenon DEF Disconnected, IInv, SamePeers
  <2>4. ASSUME NEW p \in Peer, NEW blks \in SUBSET Cid, NEW hvs \in SUBSET Cid,
               SendWants(p, blks, hvs)
        PROVE  GaugesExact'
    BY <2>0, <2>4, GaugesSend DEF SendWants
  <2>5. ASSUME NEW ks \in SUBSET Cid, BroadcastWantHaves(ks) PROVE GaugesExact'
    BY <2>0, <2>5, GaugesBroadcast, Zenon DEF BroadcastWantHaves
  <2>6. ASSUME NEW l \in CancelLists, SendCancels(l) PROVE GaugesExact'
    <3>1. l \in Seq(Cid) /\ \A i, j \in DOMAIN l : l[i] = l[j] => i = j
      BY CancelListsAssumption, Zenon DEF DistinctCancels
    <3>2. sendCancels(l)
      BY <2>6, Zenon DEF SendCancels
    <3> QED
      BY <2>0, <3>1, <3>2, GaugesCancel
  <2> QED
    BY <2>1, <2>2, <2>3, <2>4, <2>5, <2>6
       DEF Next, vars, RegisterSession, UnregisterSession, GraphStep
<1> QED
  BY <1>1, <1>2, Invariance, PTL DEF Spec
=============================================================================
