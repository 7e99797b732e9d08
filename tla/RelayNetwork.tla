----------------------------- MODULE RelayNetwork -----------------------------
(***************************************************************************)
(* bitswap/relaymanager/relaymanager.go on every node of a small network,  *)
(* with the messages between the nodes and the life of the proxy sessions  *)
(* it starts (bitswap/client/internal/session/session.go).                 *)
(*                                                                         *)
(* A requestor hands its search to one peer; each peer either hands it on  *)
(* (want-forward) or becomes the proxy, looks for providers and sends      *)
(* what it finds back (forward-have) along the recorded path.              *)
(*                                                                         *)
(* Every map of the relay manager is keyed by the cid first and no         *)
(* operation mixes cids, so the model follows one cid.  One action is one  *)
(* critical section of a node's rm.lk, or the handling of one message.     *)
(* Messages of one kind from a to b that are not yet handled are one       *)
(* message, as in the sender's queue.  The forward graph is the complete   *)
(* one (the default); ForwardWants fails when no peer is left to choose.   *)
(***************************************************************************)
EXTENDS Naturals, FiniteSets

CONSTANTS
    Node,
    None,           \* no entry in a map
    Requestor,      \* the nodes that search for the cid
    MaxSearches,    \* bound on the searches of one requestor
    Fragile,        \* the connections that may be lost
    MaxCuts,        \* bound on how often that happens
    ProxyId         \* names for the proxy sessions of one node and source

ASSUME NodeAssumption == Requestor \subseteq Node /\ None \notin Node
ASSUME FragileAssumption == Fragile \subseteq Node \X Node
ASSUME BoundAssumption == MaxSearches \in Nat /\ MaxCuts \in Nat

VARIABLES
    fromMap,        \* node -> want source -> relayed to (source = node: self)
    toMap,          \* node -> relayed to -> want source
    proxyMap,       \* node -> want source -> proxied
    proxies,        \* the proxy sessions: [node, src, id, phase]
    forwards,       \* want-forwards under way: <<sender, receiver>>
    haves,          \* forward-haves under way: <<sender, receiver>>
    links,          \* the connected pairs, in both directions
    tagged,         \* <<n, p>>: n protects its connection to p ("bs-rel-")
    searches,       \* node -> number of searches started
    heard,           \* requestors whose session got a forward-have
    cuts            \* number of connections lost so far

mapVars == <<fromMap, toMap>>
vars == <<fromMap, toMap, proxyMap, proxies, forwards, haves, links, tagged,
          searches, heard, cuts>>

Pairs == {e \in Node \X Node : e[1] # e[2]}
Proxy == [node : Node, src : Node, id : ProxyId,
          phase : {"running", "closing", "straggling"}]

Init ==
    /\ fromMap = [n \in Node |-> [s \in Node |-> None]]
    /\ toMap = [n \in Node |-> [t \in Node |-> None]]
    /\ proxyMap = [n \in Node |-> [s \in Node |-> FALSE]]
    /\ proxies = {}
    /\ forwards = {}
    /\ haves = {}
    /\ links = Pairs
    /\ tagged = {}
    /\ searches = [n \in Node |-> 0]
    /\ heard = {}
    /\ cuts = 0

-----------------------------------------------------------------------------
(* Forwarding.                                                             *)

AlreadySentTo(n) == {fromMap[n][s] : s \in Node} \ {None}

\* Faulty variant: peers that other sources were relayed to are not excluded.
ExcludesSenderOnly(n, from) == {from}

\* The peers ProcessForwards does not forward to.
Excludes(n, from) == {from} \cup AlreadySentTo(n)

\* The peers ForwardWants may choose.
Choices(n, exclude) == {t \in Node : <<n, t>> \in links} \ exclude

\* Faulty variant: the way back is recorded for the first source only.
ForwardFreshKeepsFirst(n, src, to, queued) ==
    /\ fromMap' = [fromMap EXCEPT ![n][src] = to]
    /\ toMap' = [toMap EXCEPT ![n][to] = IF @ = None THEN src ELSE @]
    /\ forwards' = queued \cup {<<n, to>>}

\* Record the new hop and queue the want-forward.
ForwardFresh(n, src, to, queued) ==
    /\ fromMap' = [fromMap EXCEPT ![n][src] = to]
    /\ toMap' = [toMap EXCEPT ![n][to] = src]
    /\ forwards' = queued \cup {<<n, to>>}

\* ForwardSearch, called by a session of requestor n.
ForwardSearch(n) ==
    /\ n \in Requestor
    /\ searches[n] < MaxSearches
    /\ searches' = [searches EXCEPT ![n] = @ + 1]
    /\ IF Choices(n, AlreadySentTo(n)) = {}
       THEN UNCHANGED <<mapVars, forwards>>
       ELSE \E to \in Choices(n, AlreadySentTo(n)) :
                ForwardFresh(n, n, to, forwards)
    /\ UNCHANGED <<proxyMap, proxies, haves, links, tagged, heard, cuts>>

\* startProxyPhase and the assignment of proxyMap that follows it.
StartProxyPhase(n, src) ==
    \E id \in ProxyId :
        /\ \A x \in proxies : x.node = n /\ x.src = src => x.id # id
        /\ proxies' = proxies \cup
              {[node |-> n, src |-> src, id |-> id, phase |-> "running"]}
        /\ proxyMap' = [proxyMap EXCEPT ![n][src] = TRUE]

NoProxy == UNCHANGED <<proxies, proxyMap>>

\* Handle the want-forward that n gets from src; m is the set of want-forwards
\* without it.
ProcessForwards(n, src) ==
    LET m == forwards \ {<<src, n>>} IN
    /\ <<src, n>> \in forwards
    /\ tagged' = tagged \cup {<<n, src>>}
    /\ \/ \* already the proxy for this combination
          /\ proxyMap[n][src]
          /\ forwards' = m
          /\ NoProxy
          /\ UNCHANGED mapVars
       \/ \* a duplicate: the same receiver again, or proxy when that fails
          /\ ~proxyMap[n][src]
          /\ fromMap[n][src] # None
          /\ IF <<n, fromMap[n][src]>> \in links
             THEN forwards' = m \cup {<<n, fromMap[n][src]>>} /\ NoProxy
             ELSE forwards' = m /\ StartProxyPhase(n, src)
          /\ UNCHANGED mapVars
       \/ \* the random decision, or the lack of a successor, makes n the proxy
          /\ ~proxyMap[n][src]
          /\ fromMap[n][src] = None
          /\ forwards' = m
          /\ StartProxyPhase(n, src)
          /\ UNCHANGED mapVars
       \/ \* hand it on
          /\ ~proxyMap[n][src]
          /\ fromMap[n][src] = None
          /\ \E to \in Choices(n, Excludes(n, src)) :
                ForwardFresh(n, src, to, m)
          /\ NoProxy
    /\ UNCHANGED <<haves, links, searches, heard, cuts>>

-----------------------------------------------------------------------------
(* The way back.                                                           *)

\* RelayHaves(to): a forward-have for a peer that is gone is dropped.
RelayHaves(n, to, rest) ==
    /\ haves' = IF <<n, to>> \in links THEN rest \cup {<<n, to>>} ELSE rest
    /\ tagged' = tagged \ {<<n, to>>}

\* Faulty variant: the relay looks the sender up in the wrong map.
ProcessForwardHavesSwapped(n, sender) ==
    LET rest == haves \ {<<sender, n>>}
        relayTo == fromMap[n][sender]
    IN
    /\ <<sender, n>> \in haves
    /\ heard' = IF n \in Requestor /\ searches[n] > 0 /\ relayTo = n
               THEN heard \cup {n} ELSE heard
    /\ IF relayTo = None \/ relayTo = n
       THEN haves' = rest /\ UNCHANGED tagged
       ELSE RelayHaves(n, relayTo, rest)
    /\ UNCHANGED <<mapVars, proxyMap, proxies, forwards, links, searches, cuts>>

\* Node n gets a forward-have from sender: its sessions are notified, then
\* ProcessForwardHaves relays it to the source recorded for the sender.  The
\* code looks the sender up three times, without the lock.  One step stands for
\* them: an entry only ever changes from none to n and from either to another
\* source, which is excluded from then on, so the lookups together say what
\* the last of them says.
ProcessForwardHaves(n, sender) ==
    LET rest == haves \ {<<sender, n>>}
        relayTo == toMap[n][sender]
    IN
    /\ <<sender, n>> \in haves
    /\ heard' = IF n \in Requestor /\ searches[n] > 0 THEN heard \cup {n} ELSE heard
    /\ IF relayTo = None \/ relayTo = n
       THEN haves' = rest /\ UNCHANGED tagged
       ELSE RelayHaves(n, relayTo, rest)
    /\ UNCHANGED <<mapVars, proxyMap, proxies, forwards, links, searches, cuts>>

-----------------------------------------------------------------------------
(* A proxy session x and its callback into the relay manager.  It is       *)
(* "running" until it first reports its end, "closing" from then until     *)
(* its run loop has gone through handleShutdown, and "straggling" while    *)
(* only goroutines of findMorePeers are left.                              *)

\* Faulty variant: the end of a session is not recorded.
ClosedIgnored(x) == UNCHANGED proxyMap

\* The callback with sessionClosed.
Closed(x) == proxyMap' = [proxyMap EXCEPT ![x.node][x.src] = FALSE]

Become(x, phases) ==
    proxies' = (proxies \ {x}) \cup {[x EXCEPT !.phase = q] : q \in phases}

SessionFrame ==
    UNCHANGED <<mapVars, forwards, links, searches, heard, cuts>>

\* foundProvider: the block is here, a peer answered HAVE, or the DHT did.
ProxyFinds(x) ==
    /\ RelayHaves(x.node, x.src, haves)
    /\ SessionFrame
    /\ UNCHANGED <<proxyMap, proxies>>

\* broadcast, on an idle tick after a provider was found, reports the end and
\* cancels the context.
BroadcastEnds(x) ==
    /\ x.phase # "straggling"
    /\ Closed(x)
    /\ Become(x, {"closing"})
    /\ SessionFrame
    /\ UNCHANGED <<haves, tagged>>

\* findMorePeers does the same when its provider search has run dry.  Several
\* searches may be out, so this may happen again.
SearchRunsDry(x) ==
    /\ Closed(x)
    /\ \/ x.phase # "straggling" /\ Become(x, {"closing"})
       \/ x.phase = "straggling" /\ Become(x, {})
    /\ SessionFrame
    /\ UNCHANGED <<haves, tagged>>

\* handleShutdown, the last thing the run loop does, reports the end once more;
\* a provider search may still be out.
HandleShutdown(x) ==
    /\ x.phase = "closing"
    /\ Closed(x)
    /\ Become(x, {"straggling"}) \/ Become(x, {})
    /\ SessionFrame
    /\ UNCHANGED <<haves, tagged>>

-----------------------------------------------------------------------------
(* Connections.                                                            *)

Both(e) == {e, <<e[2], e[1]>>}

\* A connection is lost, and with it the messages under way.
Cut(e) ==
    /\ e \in links
    /\ cuts < MaxCuts
    /\ cuts' = cuts + 1
    /\ links' = links \ Both(e)
    /\ forwards' = forwards \ Both(e)
    /\ haves' = haves \ Both(e)
    /\ UNCHANGED <<mapVars, proxyMap, proxies, tagged, searches, heard>>

Reconnect(e) ==
    /\ e \in Pairs \ links
    /\ links' = links \cup Both(e)
    /\ UNCHANGED <<mapVars, proxyMap, proxies, forwards, haves, tagged,
                   searches, heard, cuts>>

Deliver(n, s) == ProcessForwards(n, s) \/ ProcessForwardHaves(n, s)

SessionStep(x) ==
    ProxyFinds(x) \/ BroadcastEnds(x) \/ SearchRunsDry(x) \/ HandleShutdown(x)

Next ==
    \/ \E n \in Node : ForwardSearch(n)
    \/ \E n, s \in Node : Deliver(n, s)
    \/ \E x \in proxies : SessionStep(x)
    \/ \E e \in Fragile : Cut(e) \/ Reconnect(e)

(* A message on a connection that stays up is delivered and handled.       *)
Spec ==
    /\ Init
    /\ [][Next]_vars
    /\ \A n, s \in Node : WF_vars(ProcessForwards(n, s))
    /\ \A n, s \in Node : WF_vars(ProcessForwardHaves(n, s))

-----------------------------------------------------------------------------
TypeOK ==
    /\ fromMap \in [Node -> [Node -> Node \cup {None}]]
    /\ toMap \in [Node -> [Node -> Node \cup {None}]]
    /\ proxyMap \in [Node -> [Node -> BOOLEAN]]
    /\ proxies \subseteq Proxy
    /\ forwards \subseteq Pairs
    /\ haves \subseteq Pairs
    /\ links \subseteq Pairs
    /\ tagged \subseteq Node \X Node
    /\ searches \in [Node -> 0 .. MaxSearches]
    /\ heard \subseteq Requestor
    /\ cuts \in 0 .. MaxCuts

\* The two maps describe the same hops: what is relayed for a source to a peer
\* comes back from that peer to that source.  So two sources of the cid never
\* share a receiver, and a search is never sent back to where it came from.
HopsReversible ==
    \A n, s \in Node : fromMap[n][s] # None =>
        /\ toMap[n][fromMap[n][s]] = s
        /\ fromMap[n][s] \notin {s, n}

\* Forward-haves only travel where a want-forward went before, in the opposite
\* direction, on every hop of the way back: the branch "received a forward-have
\* from a peer to which we did not relay" is never taken.
HavesSolicited ==
    /\ \A e \in haves \cup {<<x.node, x.src>> : x \in proxies} :
          toMap[e[2]][e[1]] # None
    /\ \A e \in forwards : toMap[e[1]][e[2]] # None

\* "If we are already the proxy, the session is still running": a want-forward
\* is only dropped while some session for its combination of cid and source
\* has not been shut down, even though a session reports its end up to three
\* times and a newer one may have been started in between.
ProxiedMeansRunning ==
    \A n, s \in Node : proxyMap[n][s] =>
        \E x \in proxies : x.node = n /\ x.src = s /\ x.phase = "running"

\* The hops of requestor r's latest search, as far as it has been handed on.
PathOf(r) ==
    LET next(e) == IF e = <<None, None>> \/ fromMap[e[2]][e[1]] = None
                   THEN <<None, None>>
                   ELSE <<e[2], fromMap[e[2]][e[1]]>>
        hop[k \in 1 .. Cardinality(Pairs)] ==
            IF k = 1
            THEN IF fromMap[r][r] = None THEN <<None, None>>
                 ELSE <<r, fromMap[r][r]>>
            ELSE next(hop[k - 1])
    IN  {hop[k] : k \in 1 .. Cardinality(Pairs)} \ {<<None, None>>}

\* A forward-have sent anywhere on the path of a requestor's search reaches the
\* requestor's session, unless a connection is lost on the way.
AnswerArrives ==
    \A r \in Requestor :
        (cuts = 0 /\ \E e \in PathOf(r) : <<e[2], e[1]>> \in haves)
            ~> (r \in heard \/ cuts > 0)

\* When no requestor searches more than once, the want-forwards die out: every
\* walk ends, at a proxy or at a lost connection, and none goes in circles.
ForwardsDieOut ==
    [](\A n \in Node : searches[n] <= 1) => <>[](forwards = {})

=============================================================================
