----------------------------- MODULE PeerLedger -----------------------------
(***************************************************************************)
(* The decision engine's record of who waits for what: the peerLedger of   *)
(* bitswap/server/internal/decision/peer_ledger.go.  It keeps every want   *)
(* twice, by peer and by key.  A want is its type; priorities, which only  *)
(* order the answers, are left out.  An absent map entry is NoWant.        *)
(***************************************************************************)
EXTENDS Naturals

CONSTANTS Peer, Key

NoWant == "none"
WantType == {"have", "block"}

\* type peerLedger
Ledger == [peers : [Peer -> [Key -> WantType \cup {NoWant}]],
           cids  : [Key -> [Peer -> WantType \cup {NoWant}]]]

newPeerLedger == [peers |-> [p \in Peer |-> [k \in Key |-> NoWant]],
                  cids  |-> [k \in Key |-> [p \in Peer |-> NoWant]]]

\* The keys of l.peers[p]; the map has no entry for p exactly when this is
\* empty, because CancelWant deletes an inner map with its last want.
WantlistForPeer(l, p) == {k \in Key : l.peers[p][k] # NoWant}

\* Peers(k): who waits for k, and for what kind of answer.
PeersOf(l, k) == {p \in Peer : l.cids[k][p] # NoWant}

\* Wants, for every key of ks: want gives the types.
Wants(l, p, want, ks) ==
    [peers |-> [l.peers EXCEPT ![p] =
                  [k \in Key |-> IF k \in ks THEN want[k] ELSE @[k]]],
     cids  |-> [k \in Key |-> IF k \in ks
                  THEN [l.cids[k] EXCEPT ![p] = want[k]] ELSE l.cids[k]]]

\* Mutant: the index by key keeps the peer.
ForgetByPeerOnly(l, p, ks) ==
    [l EXCEPT !.peers[p] = [k \in Key |-> IF k \in ks THEN NoWant ELSE @[k]]]

\* delete(wants, k) and removePeerFromCid, for every key of ks.
Forget(l, p, ks) ==
    [peers |-> [l.peers EXCEPT ![p] =
                  [k \in Key |-> IF k \in ks THEN NoWant ELSE @[k]]],
     cids  |-> [k \in Key |-> IF k \in ks
                  THEN [l.cids[k] EXCEPT ![p] = NoWant] ELSE l.cids[k]]]

\* CancelWant, for every key of ks in any order.  It does nothing for a peer
\* without wants, and answers true while p has any want left, whichever it
\* is: CancelWantFound is the possible sets of keys for which it answers true.
CancelWant(l, p, ks) == IF WantlistForPeer(l, p) = {} THEN l ELSE Forget(l, p, ks)

CancelWantFound(l, p, ks) ==
    LET w == WantlistForPeer(l, p)
    IN IF w = {} THEN {{}}
       ELSE IF w \subseteq ks THEN {d \in SUBSET ks : w \subseteq d}
       ELSE {ks}

\* Mutant: the type of the want is not looked at.
CancelWantAnyType(l, p, ks, type) ==
    Forget(l, p, {k \in ks : l.peers[p][k] # NoWant})

\* CancelWantWithType, for every key of ks.  A HAVE that went out does not
\* take away a want-block.
CancelWantWithType(l, p, ks, type) ==
    Forget(l, p, {k \in ks : /\ l.peers[p][k] # NoWant
                             /\ ~(type = "have" /\ l.peers[p][k] = "block")})

\* Only the index by key is emptied: the keys stay in l.peers[p].
ClearPeerWantlist(l, p) ==
    [l EXCEPT !.cids = [k \in Key |->
        IF l.peers[p][k] # NoWant THEN [l.cids[k] EXCEPT ![p] = NoWant]
                                  ELSE l.cids[k]]]

PeerDisconnected(l, p) ==
    [ClearPeerWantlist(l, p) EXCEPT !.peers[p] = [k \in Key |-> NoWant]]
=============================================================================
