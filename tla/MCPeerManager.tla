---------------------------- MODULE MCPeerManager ----------------------------
(* Two peers, two keys and one session; every list of different keys.      *)
EXTENDS PeerManager, TLC

MCDistinctLists ==
    {<<c>> : c \in Cid} \cup {l \in Cid \X Cid : l[1] # l[2]}

\* Peers and keys are interchangeable.
MCSymmetry == Permutations(Peer) \cup Permutations(Cid)
=============================================================================
