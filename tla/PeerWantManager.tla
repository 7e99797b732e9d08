--------------------------- MODULE PeerWantManager ---------------------------
(***************************************************************************)
(* bitswap/client/internal/peermanager/peerwantmanager.go: which want-haves*)
(* and want-blocks each connected peer has been sent, the reverse index    *)
(* from a key to the peers that were sent a want for it, the broadcast     *)
(* wants, and the two gauges.  Every operation runs under the pqLk of the  *)
(* PeerManager and is one action.  It owns the forwardGraphManager.        *)
(*                                                                         *)
(* A key that is absent from the Go map wantPeers has the empty set here:  *)
(* the code never keeps an empty entry.  queueWants and queueBcst are what *)
(* the peers' message queues hold (their pending and sent lists together), *)
(* as AddWants, AddBroadcastWantHaves and AddCancels leave them.  The keys *)
(* of a call form a set where a repeated key changes nothing; the keys of  *)
(* sendCancels form a sequence, because each occurrence moves the gauges.  *)
(***************************************************************************)
EXTENDS ForwardGraphManager, Integers, Sequences

CONSTANT Cid

ASSUME CidFinite == IsFiniteSet(Cid)

VARIABLES
    peerWants,      \* the keys of pwm.peerWants
    wantBlocks,     \* peer -> peerWant.wantBlocks ({} for an unknown peer)
    wantHaves,      \* peer -> peerWant.wantHaves
    wantPeers,      \* key -> peers: the reverse index
    broadcastWants,
    wantGauge,
    wantBlockGauge,
    queueWants,     \* peer -> key -> "none", "have" or "block"
    queueBcst       \* peer -> keys held as broadcast want-haves

pwmVars == <<peerWants, wantBlocks, wantHaves, wantPeers, broadcastWants,
             wantGauge, wantBlockGauge, queueWants, queueBcst>>

WantType == {"none", "have", "block"}
NoWants == [c \in Cid |-> "none"]

PwmInit ==
    /\ peerWants = {}
    /\ wantBlocks = [p \in Peer |-> {}]
    /\ wantHaves = [p \in Peer |-> {}]
    /\ wantPeers = [c \in Cid |-> {}]
    /\ broadcastWants = {}
    /\ wantGauge = 0
    /\ wantBlockGauge = 0
    /\ queueWants = [p \in Peer |-> NoWants]
    /\ queueBcst = [p \in Peer |-> {}]

-----------------------------------------------------------------------------
(* wantPeerCounts: the peers with a pending want-block, those with a       *)
(* pending want-have, and whether the key is wanted at all.                *)

BlockPeers(c) == {p \in wantPeers[c] \cap peerWants : c \in wantBlocks[p]}
HavePeers(c) ==
    {p \in wantPeers[c] \cap peerWants :
        c \in wantHaves[p] /\ c \notin wantBlocks[p]}
Wanted(c) == BlockPeers(c) # {} \/ HavePeers(c) # {} \/ c \in broadcastWants

\* What AddWants leaves in a queue that held old.
AddToQueue(old, blks, hvs) ==
    [c \in Cid |-> IF c \in blks THEN "block"
                   ELSE IF c \in hvs /\ old[c] = "none" THEN "have"
                   ELSE old[c]]

SentTo(p) == wantBlocks[p] \cup wantHaves[p]

-----------------------------------------------------------------------------
\* addPeer(p), for a peer that is not known yet.
addPeer(p) ==
    /\ FgmAddPeer(p)
    /\ peerWants' = peerWants \cup {p}
    /\ queueBcst' = [queueBcst EXCEPT ![p] = @ \cup broadcastWants]
    /\ UNCHANGED <<wantBlocks, wantHaves, wantPeers, broadcastWants, wantGauge,
                   wantBlockGauge, queueWants>>

\* removePeer(p).  The gauges go down for the keys that, once p has left the
\* reverse index, no peer has a want-block for, and that nobody wants.
removePeer(p) ==
    LET unblocked == {c \in wantBlocks[p] : BlockPeers(c) \ {p} = {}}
        unwanted(c) == /\ BlockPeers(c) \ {p} = {}
                       /\ HavePeers(c) \ {p} = {}
                       /\ c \notin broadcastWants
    IN
    /\ FgmRemovePeer(p)
    /\ peerWants' = peerWants \ {p}
    /\ wantPeers' = [c \in Cid |-> IF c \in SentTo(p)
                                   THEN wantPeers[c] \ {p} ELSE wantPeers[c]]
    /\ wantBlockGauge' = wantBlockGauge - Cardinality(unblocked)
    /\ wantGauge' = wantGauge - Cardinality({c \in wantBlocks[p] : unwanted(c)})
                              - Cardinality({c \in wantHaves[p] : unwanted(c)})
    /\ wantBlocks' = [wantBlocks EXCEPT ![p] = {}]
    /\ wantHaves' = [wantHaves EXCEPT ![p] = {}]
    /\ queueWants' = [queueWants EXCEPT ![p] = NoWants]
    /\ queueBcst' = [queueBcst EXCEPT ![p] = {}]
    /\ UNCHANGED broadcastWants

\* broadcastWantHaves(ks): every known peer that has not been sent the key is
\* sent a want-have for it.
broadcastWantHaves(ks) ==
    LET unsent == ks \ broadcastWants IN
    /\ unsent # {}
    /\ broadcastWants' = broadcastWants \cup unsent
    /\ wantGauge' = wantGauge + Cardinality({c \in unsent : wantPeers[c] = {}})
    /\ queueBcst' = [p \in Peer |-> IF p \in peerWants
                                    THEN queueBcst[p] \cup (unsent \ SentTo(p))
                                    ELSE queueBcst[p]]
    /\ UNCHANGED <<peerWants, wantBlocks, wantHaves, wantPeers, wantBlockGauge,
                   queueWants>>
    /\ UNCHANGED fgmVars

\* Faulty variant: an upgraded want-have stays recorded as a want-have.
sendWantsNoUpgrade(p, blks, hvs) ==
    LET fltBlks == blks \ wantBlocks[p]
        fltHvs == (hvs \ broadcastWants) \ (SentTo(p) \cup fltBlks)
        fresh(ks) == {c \in ks : ~Wanted(c)}
    IN
    /\ p \in peerWants
    /\ wantBlocks' = [wantBlocks EXCEPT ![p] = @ \cup fltBlks]
    /\ wantHaves' = [wantHaves EXCEPT ![p] = @ \cup fltHvs]
    /\ wantPeers' = [c \in Cid |-> IF c \in fltBlks \cup fltHvs
                                   THEN wantPeers[c] \cup {p} ELSE wantPeers[c]]
    /\ wantBlockGauge' =
         wantBlockGauge + Cardinality({c \in fltBlks : BlockPeers(c) = {}})
    /\ wantGauge' = wantGauge + Cardinality(fresh(fltBlks))
                              + Cardinality(fresh(fltHvs))
    /\ queueWants' =
         [queueWants EXCEPT ![p] = AddToQueue(@, fltBlks, fltHvs)]
    /\ UNCHANGED <<peerWants, broadcastWants, queueBcst>>
    /\ UNCHANGED fgmVars

\* sendWants(p, blks, hvs): only what p has not been sent yet; a want-have that
\* is already a broadcast want is not sent again, a want-block upgrades a
\* want-have.
sendWants(p, blks, hvs) ==
    LET fltBlks == blks \ wantBlocks[p]
        fltHvs == (hvs \ broadcastWants) \ (SentTo(p) \cup fltBlks)
        fresh(ks) == {c \in ks : ~Wanted(c)}
    IN
    /\ p \in peerWants
    /\ wantBlocks' = [wantBlocks EXCEPT ![p] = @ \cup fltBlks]
    /\ wantHaves' = [wantHaves EXCEPT ![p] = (@ \ fltBlks) \cup fltHvs]
    /\ wantPeers' = [c \in Cid |-> IF c \in fltBlks \cup fltHvs
                                   THEN wantPeers[c] \cup {p} ELSE wantPeers[c]]
    /\ wantBlockGauge' =
         wantBlockGauge + Cardinality({c \in fltBlks : BlockPeers(c) = {}})
    /\ wantGauge' = wantGauge + Cardinality(fresh(fltBlks))
                              + Cardinality(fresh(fltHvs))
    /\ queueWants' =
         [queueWants EXCEPT ![p] = AddToQueue(@, fltBlks, fltHvs)]
    /\ UNCHANGED <<peerWants, broadcastWants, queueBcst>>
    /\ UNCHANGED fgmVars

-----------------------------------------------------------------------------
Keys(cancelKs) == {cancelKs[i] : i \in DOMAIN cancelKs}

\* Faulty variant: broadcast cancels go only to the peers of the index.
CancelPeersIndexed(ks) == {p \in peerWants : \E c \in ks : p \in wantPeers[c]}

\* The peers sendCancels sends to: all of them when a broadcast want is among
\* the keys, otherwise those the reverse index names.
CancelPeers(ks) ==
    IF ks \cap broadcastWants # {}
    THEN peerWants
    ELSE {p \in peerWants : \E c \in ks : p \in wantPeers[c]}

\* The keys p is sent a cancel for.
ToCancel(p, ks) == ks \cap (broadcastWants \cup SentTo(p))

\* sendCancels(cancelKs).
sendCancels(cancelKs) ==
    LET ks == Keys(cancelKs)
        cancelPeers == CancelPeers(ks)
    IN
    /\ cancelKs # <<>>
    /\ wantBlocks' = [p \in Peer |-> IF p \in cancelPeers
                                     THEN wantBlocks[p] \ ks ELSE wantBlocks[p]]
    /\ wantHaves' = [p \in Peer |-> IF p \in cancelPeers
                                    THEN wantHaves[p] \ ks ELSE wantHaves[p]]
    /\ queueWants' =
         [p \in Peer |-> IF p \in cancelPeers
            THEN [c \in Cid |-> IF c \in ToCancel(p, ks) THEN "none"
                                ELSE queueWants[p][c]]
            ELSE queueWants[p]]
    /\ queueBcst' = [p \in Peer |-> IF p \in cancelPeers
                                    THEN queueBcst[p] \ ToCancel(p, ks)
                                    ELSE queueBcst[p]]
    /\ wantBlockGauge' = wantBlockGauge
         - Cardinality({i \in DOMAIN cancelKs : BlockPeers(cancelKs[i]) # {}})
    /\ wantGauge' = wantGauge
         - Cardinality({i \in DOMAIN cancelKs : Wanted(cancelKs[i])})
    /\ broadcastWants' = broadcastWants \ ks
    /\ wantPeers' = [c \in Cid |-> IF c \in ks THEN {} ELSE wantPeers[c]]
    /\ UNCHANGED peerWants
    /\ UNCHANGED fgmVars

\* forwardWants(c, exclude, to): the peers a want-forward may be handed to; none
\* stands for the error return.  With no peer given the strategy chooses one.
ForwardTargets(exclude, to) ==
    (IF to = NoPeer THEN GetSuccessorByStrategy(exclude) ELSE {to}) \cap peerWants

-----------------------------------------------------------------------------
(* What the want manager reports (CurrentWants, CurrentWantBlocks,         *)
(* CurrentWantHaves).                                                      *)
getWantBlocks == UNION {wantBlocks[p] : p \in peerWants}
getWantHaves == broadcastWants \cup UNION {wantHaves[p] : p \in peerWants}
getWants == broadcastWants \cup {c \in Cid : wantPeers[c] # {}}

PwmTypeOK ==
    /\ peerWants \subseteq Peer
    /\ wantBlocks \in [Peer -> SUBSET Cid]
    /\ wantHaves \in [Peer -> SUBSET Cid]
    /\ wantPeers \in [Cid -> SUBSET Peer]
    /\ broadcastWants \subseteq Cid
    /\ wantGauge \in Int
    /\ wantBlockGauge \in Int
    /\ queueWants \in [Peer -> [Cid -> WantType]]
    /\ queueBcst \in [Peer -> SUBSET Cid]

\* The reverse index names exactly the peers that have a pending want-have or
\* want-block for the key, all of them known peers, and no peer has both for
\* one key.  The branches "reverse index has extra peer" and "index missing
\* peer" are dead, and CurrentWants, which reads the index, agrees with
\* CurrentWantBlocks and CurrentWantHaves, which read the peers' lists.
ReverseIndexExact ==
    /\ \A p \in Peer, c \in Cid :
          p \in wantPeers[c] <=> p \in peerWants /\ c \in SentTo(p)
    /\ \A p \in Peer : wantBlocks[p] \cap wantHaves[p] = {}
    /\ getWants = getWantBlocks \cup getWantHaves

\* "A peer's wants is the union of the broadcast wants and the wants in this
\* list": the queue of a connected peer asks for exactly those keys, with
\* want-block for exactly the recorded want-blocks.  So a cancel reaches every
\* peer that was sent the want, and no want outlives its cancel.
QueuesHoldWants ==
    \A p \in Peer :
        /\ p \in peerWants =>
              queueBcst[p] \cup {c \in Cid : queueWants[p][c] # "none"}
                = broadcastWants \cup SentTo(p)
        /\ {c \in Cid : queueWants[p][c] = "block"} = wantBlocks[p]
        /\ p \notin peerWants => queueBcst[p] = {} /\ SentTo(p) = {}

\* The gauges are the number of keys wanted and of keys wanted as a block
\* ("Keeps track of the number of active want-haves & want-blocks").
GaugesExact ==
    /\ wantGauge = Cardinality(getWants)
    /\ wantBlockGauge = Cardinality(getWantBlocks)
=============================================================================
