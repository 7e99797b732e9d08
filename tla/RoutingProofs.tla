--------------------------- MODULE RoutingProofs ---------------------------
(***************************************************************************)
(* Proofs about how content is searched and announced: the relay network,  *)
(* for any set of nodes and any bounds, and the provide queue with its     *)
(* batched consumer, for any CIDs and any bounds.                          *)
(***************************************************************************)
EXTENDS RelayNetwork, BatchedProvider, TLAPS

-----------------------------------------------------------------------------
(* The relay network: its inductive invariant.                             *)

\* Whoever a node relays for has itself recorded that it handed its search to
\* this node: the way back can be followed hop by hop.
SourcesRecorded ==
    \A n, t \in Node :
        toMap[n][t] # None /\ toMap[n][t] # n => toMap[toMap[n][t]][n] # None

\* The maps alone, and the inductive invariant.
MapInv ==
    /\ fromMap \in [Node -> [Node -> Node \cup {None}]]
    /\ toMap \in [Node -> [Node -> Node \cup {None}]]
    /\ HopsReversible
    /\ SourcesRecorded

RelayInv == TypeOK /\ HopsReversible /\ SourcesRecorded
          /\ HavesSolicited /\ ProxiedMeansRunning

-----------------------------------------------------------------------------
\* Recording a new hop n -> to for src, when to is no other source's receiver
\* and src is n itself or has recorded n, keeps the maps in order and forgets
\* no entry.
LEMMA FreshHop ==
    ASSUME MapInv, NEW n \in Node, NEW src \in Node, NEW to \in Node,
           NEW queued, ForwardFresh(n, src, to, queued),
           to # n, to # src,
           \A s \in Node : fromMap[n][s] # to,
           src # n => toMap[src][n] # None
    PROVE  /\ MapInv'
           /\ toMap'[n][to] # None
           /\ \A h, t \in Node : toMap[h][t] # None => toMap'[h][t] # None
<1>1. /\ fromMap' = [fromMap EXCEPT ![n][src] = to]
      /\ toMap' = [toMap EXCEPT ![n][to] = src]
  BY Zenon DEF ForwardFresh
<1>2. /\ fromMap' \in [Node -> [Node -> Node \cup {None}]]
      /\ toMap' \in [Node -> [Node -> Node \cup {None}]]
  BY <1>1, Zenon DEF MapInv
<1>3. /\ toMap'[n][to] = src
      /\ \A h, t \in Node : h # n \/ t # to => toMap'[h][t] = toMap[h][t]
      /\ fromMap'[n][src] = to
      /\ \A h, s \in Node : h # n \/ s # src => fromMap'[h][s] = fromMap[h][s]
  BY <1>1, Zenon DEF MapInv
<1>4. src # None /\ to # None
  BY NodeAssumption, Zenon
<1>5. \A h, t \in Node : toMap[h][t] # None => toMap'[h][t] # None
  BY <1>3, <1>4
<1>6. HopsReversible'
  <2> SUFFICES ASSUME NEW h \in Node, NEW s \in Node, fromMap'[h][s] # None
               PROVE  /\ toMap'[h][fromMap'[h][s]] = s
                      /\ fromMap'[h][s] \notin {s, h}
    BY Zenon DEF HopsReversible
  <2>1. CASE h = n /\ s = src
    BY <1>3, <2>1, Zenon
  <2>2. CASE h # n \/ s # src
    <3>1. fromMap'[h][s] = fromMap[h][s] /\ fromMap[h][s] \in Node
      BY <1>2, <1>3, <2>2 DEF MapInv
    <3>2. toMap[h][fromMap[h][s]] = s /\ fromMap[h][s] \notin {s, h}
      BY <3>1, Zenon DEF MapInv, HopsReversible
    <3>3. h # n \/ fromMap[h][s] # to
      BY <3>1, Zenon
    <3> QED
      BY <1>3, <3>1, <3>2, <3>3
  <2> QED
    BY <2>1, <2>2, Zenon
<1>7. SourcesRecorded'
  <2> SUFFICES ASSUME NEW h \in Node, NEW t \in Node,
                      toMap'[h][t] # None, toMap'[h][t] # h
               PROVE  toMap'[toMap'[h][t]][h] # None
    BY Zenon DEF SourcesRecorded
  <2>1. CASE h = n /\ t = to
    BY <1>3, <1>5, <2>1, Zenon
  <2>2. CASE h # n \/ t # to
    <3>1. toMap'[h][t] = toMap[h][t] /\ toMap[h][t] \in Node
      BY <1>2, <1>3, <2>2
    <3>2. toMap[toMap[h][t]][h] # None
      BY <3>1, Zenon DEF MapInv, SourcesRecorded
    <3> QED
      BY <1>5, <3>1, <3>2, Zenon
  <2> QED
    BY <2>1, <2>2, Zenon
<1> QED
  BY <1>2, <1>3, <1>4, <1>5, <1>6, <1>7, Zenon DEF MapInv

-----------------------------------------------------------------------------
\* Starting a proxy session keeps the typing and the link between proxyMap and
\* the running sessions.
LEMMA ProxyStart ==
    ASSUME RelayInv, NEW n \in Node, NEW src \in Node, StartProxyPhase(n, src)
    PROVE  /\ proxies' \subseteq Proxy
           /\ proxyMap' \in [Node -> [Node -> BOOLEAN]]
           /\ ProxiedMeansRunning'
           /\ \A x \in proxies' : x \in proxies \/ (x.node = n /\ x.src = src)
<1>1. PICK id \in ProxyId :
        /\ proxies' = proxies \cup
              {[node |-> n, src |-> src, id |-> id, phase |-> "running"]}
        /\ proxyMap' = [proxyMap EXCEPT ![n][src] = TRUE]
  BY Zenon DEF StartProxyPhase
<1> DEFINE new == [node |-> n, src |-> src, id |-> id, phase |-> "running"]
<1>2. new \in Proxy /\ new.node = n /\ new.src = src /\ new.phase = "running"
  BY Zenon DEF Proxy
<1>3. proxies' = proxies \cup {new}
  BY <1>1, Zenon
<1> HIDE DEF new
<1>4. proxies' \subseteq Proxy
  BY <1>2, <1>3, Zenon DEF RelayInv, TypeOK
<1>5. proxyMap' \in [Node -> [Node -> BOOLEAN]]
  BY <1>1, Zenon DEF RelayInv, TypeOK
<1>6. ProxiedMeansRunning'
  <2> SUFFICES ASSUME NEW h \in Node, NEW s \in Node, proxyMap'[h][s]
               PROVE  \E x \in proxies' :
                          x.node = h /\ x.src = s /\ x.phase = "running"
    BY Zenon DEF ProxiedMeansRunning
  <2>1. CASE h = n /\ s = src
    BY <1>2, <1>3, <2>1, Zenon
  <2>2. CASE h # n \/ s # src
    <3>1. proxyMap[h][s]
      BY <1>1, <2>2, Zenon DEF RelayInv, TypeOK
    <3> QED
      BY <1>3, <3>1 DEF RelayInv, ProxiedMeansRunning
  <2> QED
    BY <2>1, <2>2, Zenon
<1> QED
  BY <1>2, <1>3, <1>4, <1>5, <1>6, Zenon

\* The end of a session leaves every combination that is still marked as proxied
\* with its running session.
LEMMA ProxyEnd ==
    ASSUME RelayInv, NEW x \in proxies, Closed(x),
           NEW phases \in SUBSET {"closing", "straggling"}, Become(x, phases)
    PROVE  /\ proxies' \subseteq Proxy
           /\ proxyMap' \in [Node -> [Node -> BOOLEAN]]
           /\ ProxiedMeansRunning'
           /\ \A y \in proxies' :
                \E z \in proxies : y.node = z.node /\ y.src = z.src
<1>1. /\ x \in Proxy /\ x.node \in Node /\ x.src \in Node
      /\ proxies \subseteq Proxy
  BY Zenon DEF RelayInv, TypeOK, Proxy
<1>2. \A q \in phases : /\ [x EXCEPT !.phase = q] \in Proxy
                        /\ [x EXCEPT !.phase = q].node = x.node
                        /\ [x EXCEPT !.phase = q].src = x.src
  BY <1>1, Zenon DEF Proxy
<1>3. /\ \A y \in proxies' : \/ y \in proxies
                             \/ \E q \in phases : y = [x EXCEPT !.phase = q]
      /\ \A y \in proxies : y # x => y \in proxies'
  BY Zenon DEF Become
<1>4. proxies' \subseteq Proxy
  BY <1>1, <1>2, <1>3, Zenon
<1>5. \A y \in proxies' : \E z \in proxies : y.node = z.node /\ y.src = z.src
  BY <1>2, <1>3, Zenon
<1>6. proxyMap' \in [Node -> [Node -> BOOLEAN]]
  BY <1>1, Zenon DEF RelayInv, TypeOK, Closed
<1>7. ProxiedMeansRunning'
  <2> SUFFICES ASSUME NEW h \in Node, NEW s \in Node, proxyMap'[h][s]
               PROVE  \E y \in proxies' :
                          y.node = h /\ y.src = s /\ y.phase = "running"
    BY Zenon DEF ProxiedMeansRunning
  <2>1. h # x.node \/ s # x.src
    BY <1>1, Zenon DEF RelayInv, TypeOK, Closed
  <2>2. proxyMap[h][s]
    BY <1>1, <2>1, Zenon DEF RelayInv, TypeOK, Closed
  <2>3. PICK y \in proxies : y.node = h /\ y.src = s /\ y.phase = "running"
    BY <2>2 DEF RelayInv, ProxiedMeansRunning
  <2> QED
    BY <1>3, <2>1, <2>3, Zenon
<1> QED
  BY <1>4, <1>5, <1>6, <1>7, Zenon

-----------------------------------------------------------------------------
\* The source of a proxy session has handed its search to the session's node.
LEMMA ProxySolicited ==
    HavesSolicited => \A x \in proxies : toMap[x.src][x.node] # None
<1> SUFFICES ASSUME HavesSolicited, NEW x \in proxies
             PROVE  toMap[x.src][x.node] # None
  OBVIOUS
<1> DEFINE e == <<x.node, x.src>>
<1>1. e \in haves \cup {<<y.node, y.src>> : y \in proxies}
  OBVIOUS
<1>2. toMap[e[2]][e[1]] # None
  BY <1>1, Zenon DEF HavesSolicited
<1> QED
  BY <1>2, Zenon

\* The initial state, with empty maps on every node, satisfies the invariant.
LEMMA RelayInvInit == Init => RelayInv
<1> SUFFICES ASSUME Init PROVE RelayInv
  OBVIOUS
<1>1. /\ fromMap \in [Node -> [Node -> Node \cup {None}]]
      /\ toMap \in [Node -> [Node -> Node \cup {None}]]
      /\ proxyMap \in [Node -> [Node -> BOOLEAN]]
  BY Zenon DEF Init
<1>2. /\ proxies \subseteq Proxy /\ forwards \subseteq Pairs /\ haves \subseteq Pairs
      /\ links \subseteq Pairs /\ tagged \subseteq Node \X Node
      /\ heard \subseteq Requestor
  BY Zenon DEF Init
<1>3. searches \in [Node -> 0 .. MaxSearches] /\ cuts \in 0 .. MaxCuts
  BY BoundAssumption DEF Init
<1>4. TypeOK
  BY <1>1, <1>2, <1>3, Zenon DEF TypeOK
<1>5. HopsReversible /\ SourcesRecorded
  BY Zenon DEF Init, HopsReversible, SourcesRecorded
<1>6. HavesSolicited
  BY Zenon DEF Init, HavesSolicited
<1>7. ProxiedMeansRunning
  BY Zenon DEF Init, ProxiedMeansRunning
<1> QED
  BY <1>4, <1>5, <1>6, <1>7, Zenon DEF RelayInv

\* A requestor hands out its search.
LEMMA SearchStep ==
    ASSUME RelayInv, NEW n \in Node, ForwardSearch(n)
    PROVE  RelayInv'
<1>0. MapInv
  BY Zenon DEF RelayInv, TypeOK, MapInv
<1>1. searches' \in [Node -> 0 .. MaxSearches]
  BY BoundAssumption DEF RelayInv, TypeOK, ForwardSearch
<1>2. UNCHANGED <<proxyMap, proxies, haves, links, tagged, heard, cuts>>
  BY Zenon DEF ForwardSearch
<1>3. ProxiedMeansRunning'
  BY <1>2 DEF RelayInv, ProxiedMeansRunning
<1>4. CASE UNCHANGED <<mapVars, forwards>>
  <2>1. TypeOK'
    BY <1>1, <1>2, <1>4, Zenon DEF RelayInv, TypeOK, mapVars
  <2>2. HopsReversible' /\ SourcesRecorded'
    BY <1>4, Zenon DEF RelayInv, HopsReversible, SourcesRecorded, mapVars
  <2>3. HavesSolicited'
    BY <1>2, <1>4, Zenon DEF RelayInv, HavesSolicited, mapVars
  <2> QED
    BY <1>3, <2>1, <2>2, <2>3, Zenon DEF RelayInv
<1>5. ASSUME NEW to \in Choices(n, AlreadySentTo(n)),
             ForwardFresh(n, n, to, forwards)
      PROVE  RelayInv'
  <2>1. to \in Node /\ to # n /\ <<n, to>> \in Pairs
    BY <1>5, Zenon DEF Choices, RelayInv, TypeOK, Pairs
  <2>2. \A s \in Node : fromMap[n][s] # to
    BY <1>5, <2>1, NodeAssumption, Zenon DEF Choices, AlreadySentTo
  <2>3. /\ MapInv'
        /\ toMap'[n][to] # None
        /\ \A h, t \in Node : toMap[h][t] # None => toMap'[h][t] # None
    BY <1>0, <1>5, <2>1, <2>2, FreshHop, Zenon
  <2>4. forwards' = forwards \cup {<<n, to>>}
    BY <1>5, Zenon DEF ForwardFresh
  <2>5. TypeOK'
    BY <1>1, <1>2, <2>1, <2>3, <2>4, Zenon DEF RelayInv, TypeOK, MapInv
  <2>6. HavesSolicited'
    BY <1>2, <2>1, <2>3, <2>4 DEF RelayInv, TypeOK, HavesSolicited, Pairs, Proxy
  <2> QED
    BY <1>3, <2>3, <2>5, <2>6, Zenon DEF RelayInv, MapInv
<1> QED
  BY <1>4, <1>5, Zenon DEF ForwardSearch

\* A want-forward is handled: dropped, sent on, or turned into a proxy session.
LEMMA ForwardsStep ==
    ASSUME RelayInv, NEW n \in Node, NEW src \in Node, ProcessForwards(n, src)
    PROVE  RelayInv'
<1> DEFINE h == forwards \ {<<src, n>>}
<1>0. MapInv
  BY Zenon DEF RelayInv, TypeOK, MapInv
<1>1. /\ <<src, n>> \in forwards
      /\ tagged' = tagged \cup {<<n, src>>}
      /\ UNCHANGED <<haves, links, searches, heard, cuts>>
  BY Zenon DEF ProcessForwards
<1>2. src # n /\ toMap[src][n] # None
  BY <1>1, Zenon DEF RelayInv, TypeOK, HavesSolicited, Pairs
<1>3. tagged' \subseteq Node \X Node
  BY <1>1 DEF RelayInv, TypeOK
\* The maps are unchanged, and the queue grows at most by a repeated hop.
<1>4. ASSUME UNCHANGED mapVars, forwards' \subseteq Pairs,
             \A e \in forwards' : toMap[e[1]][e[2]] # None,
             proxies' \subseteq Proxy, proxyMap' \in [Node -> [Node -> BOOLEAN]],
             ProxiedMeansRunning',
             \A x \in proxies' : x \in proxies \/ (x.node = n /\ x.src = src)
      PROVE  RelayInv'
  <2>1. TypeOK'
    BY <1>1, <1>3, <1>4 DEF RelayInv, TypeOK, mapVars
  <2>2. HopsReversible' /\ SourcesRecorded'
    BY <1>4 DEF RelayInv, HopsReversible, SourcesRecorded, mapVars
  <2>3. \A e \in haves : toMap[e[2]][e[1]] # None
    BY DEF RelayInv, HavesSolicited
  <2>4. \A x \in proxies' : toMap[x.src][x.node] # None
    BY <1>2, <1>4, ProxySolicited DEF RelayInv
  <2>5. HavesSolicited'
    BY <1>1, <1>4, <2>3, <2>4 DEF HavesSolicited, mapVars
  <2> QED
    BY <1>4, <2>1, <2>2, <2>5 DEF RelayInv
<1>5. /\ h \subseteq Pairs
      /\ \A e \in h : toMap[e[1]][e[2]] # None
  BY DEF RelayInv, TypeOK, HavesSolicited
<1>6. ASSUME NoProxy
      PROVE  /\ proxies' \subseteq Proxy
             /\ proxyMap' \in [Node -> [Node -> BOOLEAN]]
             /\ ProxiedMeansRunning'
             /\ \A x \in proxies' : x \in proxies \/ (x.node = n /\ x.src = src)
  BY <1>6 DEF RelayInv, TypeOK, ProxiedMeansRunning, NoProxy
<1>7. CASE forwards' = h /\ NoProxy /\ UNCHANGED mapVars
  BY <1>4, <1>5, <1>6, <1>7
<1>8. CASE forwards' = h /\ StartProxyPhase(n, src) /\ UNCHANGED mapVars
  BY <1>4, <1>5, <1>8, ProxyStart
<1>9. CASE /\ fromMap[n][src] # None
           /\ forwards' = h \cup {<<n, fromMap[n][src]>>}
           /\ <<n, fromMap[n][src]>> \in links
           /\ NoProxy
           /\ UNCHANGED mapVars
  <2>1. /\ <<n, fromMap[n][src]>> \in Pairs
        /\ toMap[n][fromMap[n][src]] = src
    BY <1>9 DEF RelayInv, TypeOK, HopsReversible
  <2>2. src # None
    BY NodeAssumption
  <2>3. /\ forwards' \subseteq Pairs
        /\ \A e \in forwards' : toMap[e[1]][e[2]] # None
    BY <1>5, <1>9, <2>1, <2>2
  <2> QED
    BY <1>4, <1>6, <1>9, <2>3
<1>10. ASSUME NEW to \in Choices(n, Excludes(n, src)),
              ForwardFresh(n, src, to, h), NoProxy
       PROVE  RelayInv'
  <2>1. to \in Node /\ to # n /\ to # src /\ <<n, to>> \in Pairs
    BY <1>10 DEF Choices, Excludes, RelayInv, TypeOK, Pairs
  <2>2. \A s \in Node : fromMap[n][s] # to
    BY <1>10, <2>1, NodeAssumption DEF Choices, Excludes, AlreadySentTo
  <2>3. /\ MapInv'
        /\ toMap'[n][to] # None
        /\ \A k, t \in Node : toMap[k][t] # None => toMap'[k][t] # None
    <3> HIDE DEF h
    <3> QED
      BY <1>0, <1>2, <1>10, <2>1, <2>2, FreshHop
  <2>4. forwards' = h \cup {<<n, to>>} /\ UNCHANGED <<proxies, proxyMap>>
    BY <1>10 DEF ForwardFresh, NoProxy
  <2>5. TypeOK'
    BY <1>1, <1>3, <1>5, <2>1, <2>3, <2>4, Zenon DEF RelayInv, TypeOK, MapInv
  <2>6. HavesSolicited'
    BY <1>1, <2>1, <2>3, <2>4 DEF RelayInv, TypeOK, HavesSolicited, Pairs, Proxy
  <2>7. ProxiedMeansRunning'
    BY <2>4 DEF RelayInv, ProxiedMeansRunning
  <2> QED
    BY <2>3, <2>5, <2>6, <2>7 DEF RelayInv, MapInv
<1> QED
  BY <1>7, <1>8, <1>9, <1>10, Zenon DEF ProcessForwards

\* A forward-have is handled: kept here, or sent on to the recorded source.
LEMMA HavesStep ==
    ASSUME RelayInv, NEW n \in Node, NEW sender \in Node,
           ProcessForwardHaves(n, sender)
    PROVE  RelayInv'
<1> DEFINE rest == haves \ {<<sender, n>>}
           relayTo == toMap[n][sender]
<1>1. /\ UNCHANGED <<mapVars, proxyMap, proxies, forwards, links, searches, cuts>>
      /\ heard' \subseteq heard \cup (Requestor \cap {n})
  BY Zenon DEF ProcessForwardHaves
<1>2. /\ haves' \subseteq Pairs
      /\ tagged' \subseteq Node \X Node
      /\ \A e \in haves' : toMap[e[2]][e[1]] # None
  <2>1. /\ rest \subseteq Pairs /\ tagged \subseteq Node \X Node
        /\ \A e \in rest : toMap[e[2]][e[1]] # None
    BY Zenon DEF RelayInv, TypeOK, HavesSolicited
  <2>2. CASE haves' = rest /\ UNCHANGED tagged
    BY <2>1, <2>2, Zenon
  <2>3. CASE relayTo # None /\ relayTo # n /\ RelayHaves(n, relayTo, rest)
    <3>1. relayTo \in Node /\ toMap[relayTo][n] # None
      BY <2>3 DEF RelayInv, TypeOK, SourcesRecorded
    <3>2. <<n, relayTo>> \in Pairs
      BY <2>3, <3>1, Zenon DEF Pairs
    <3>3. /\ haves' \subseteq rest \cup {<<n, relayTo>>}
          /\ tagged' \subseteq tagged
      BY <2>3, Zenon DEF RelayHaves
    <3> QED
      BY <2>1, <3>1, <3>2, <3>3
  <2> QED
    BY <2>2, <2>3, Zenon DEF ProcessForwardHaves
<1>3. TypeOK'
  BY <1>1, <1>2, Zenon DEF RelayInv, TypeOK, mapVars
<1>4. HopsReversible' /\ SourcesRecorded'
  BY <1>1, Zenon DEF RelayInv, HopsReversible, SourcesRecorded, mapVars
<1>5. HavesSolicited'
  BY <1>1, <1>2, Zenon DEF RelayInv, HavesSolicited, mapVars
<1>6. ProxiedMeansRunning'
  BY <1>1 DEF RelayInv, ProxiedMeansRunning
<1> QED
  BY <1>3, <1>4, <1>5, <1>6, Zenon DEF RelayInv

\* A step of a proxy session: an answer for its source, or a report of its end.
LEMMA SessionSteps ==
    ASSUME RelayInv, NEW x \in proxies, SessionStep(x)
    PROVE  RelayInv'
<1>1. x.node \in Node /\ x.src \in Node /\ toMap[x.src][x.node] # None
  BY ProxySolicited, Zenon DEF RelayInv, TypeOK, Proxy
<1>2. CASE ProxyFinds(x)
  <2>1. /\ UNCHANGED <<mapVars, forwards, links, searches, heard, cuts,
                       proxyMap, proxies>>
        /\ tagged' \subseteq tagged
        /\ \/ UNCHANGED haves
           \/ <<x.node, x.src>> \in links /\ haves' = haves \cup {<<x.node, x.src>>}
    BY <1>2, Zenon DEF ProxyFinds, RelayHaves, SessionFrame
  <2>2. TypeOK'
    BY <2>1, ZenonT(30) DEF RelayInv, TypeOK, mapVars
  <2>3. HopsReversible' /\ SourcesRecorded' /\ ProxiedMeansRunning'
    BY <2>1 DEF RelayInv, HopsReversible, SourcesRecorded, ProxiedMeansRunning, mapVars
  <2>4. HavesSolicited'
    BY <1>1, <2>1, Zenon DEF RelayInv, HavesSolicited, mapVars
  <2> QED
    BY <2>2, <2>3, <2>4, Zenon DEF RelayInv
<1>3. ASSUME NEW phases \in SUBSET {"closing", "straggling"},
             Closed(x), Become(x, phases), SessionFrame,
             UNCHANGED <<haves, tagged>>
      PROVE  RelayInv'
  <2>1. /\ proxies' \subseteq Proxy
        /\ proxyMap' \in [Node -> [Node -> BOOLEAN]]
        /\ ProxiedMeansRunning'
        /\ \A y \in proxies' :
              \E z \in proxies : y.node = z.node /\ y.src = z.src
    BY <1>3, ProxyEnd, Zenon
  <2>2. TypeOK'
    BY <1>3, <2>1, Zenon DEF RelayInv, TypeOK, SessionFrame, mapVars
  <2>3. HopsReversible' /\ SourcesRecorded'
    BY <1>3, Zenon DEF RelayInv, HopsReversible, SourcesRecorded, SessionFrame, mapVars
  <2>4. HavesSolicited'
    <3>1. \A y \in proxies' : toMap[y.src][y.node] # None
      BY <2>1, ProxySolicited, Zenon DEF RelayInv
    <3> QED
      BY <1>3, <3>1 DEF RelayInv, HavesSolicited, SessionFrame, mapVars
  <2> QED
    BY <2>1, <2>2, <2>3, <2>4, Zenon DEF RelayInv
<1>4. CASE BroadcastEnds(x) \/ SearchRunsDry(x) \/ HandleShutdown(x)
  <2>1. /\ Closed(x) /\ SessionFrame /\ UNCHANGED <<haves, tagged>>
        /\ \/ Become(x, {"closing"}) \/ Become(x, {"straggling"}) \/ Become(x, {})
    BY <1>4, Zenon DEF BroadcastEnds, SearchRunsDry, HandleShutdown
  <2>2. /\ {"closing"} \in SUBSET {"closing", "straggling"}
        /\ {"straggling"} \in SUBSET {"closing", "straggling"}
        /\ {} \in SUBSET {"closing", "straggling"}
    OBVIOUS
  <2> QED
    BY <1>3, <2>1, <2>2, Zenon
<1> QED
  BY <1>2, <1>4, Zenon DEF SessionStep

\* Connections come and go.
LEMMA LinkStep ==
    ASSUME RelayInv, NEW e \in Fragile, Cut(e) \/ Reconnect(e)
    PROVE  RelayInv'
<1>1. /\ UNCHANGED <<mapVars, proxyMap, proxies, tagged, searches, heard>>
      /\ forwards' \subseteq forwards /\ haves' \subseteq haves
  BY Zenon DEF Cut, Reconnect
<1>2. e \in Pairs => Both(e) \subseteq Pairs
  BY DEF Both, Pairs
<1>3. links' \subseteq Pairs
  BY <1>2, Zenon DEF Cut, Reconnect, RelayInv, TypeOK
<1>4. cuts' \in 0 .. MaxCuts
  BY BoundAssumption DEF Cut, Reconnect, RelayInv, TypeOK
<1>5. TypeOK'
  BY <1>1, <1>3, <1>4, Zenon DEF RelayInv, TypeOK, mapVars
<1>6. HopsReversible' /\ SourcesRecorded' /\ ProxiedMeansRunning'
  BY <1>1 DEF RelayInv, HopsReversible, SourcesRecorded, ProxiedMeansRunning, mapVars
<1>7. HavesSolicited'
  BY <1>1, Zenon DEF RelayInv, HavesSolicited, mapVars
<1> QED
  BY <1>5, <1>6, <1>7, Zenon DEF RelayInv

-----------------------------------------------------------------------------
\* The inductive invariant holds in every reachable state.
THEOREM RelayInvariance == Spec => []RelayInv
<1>1. Init => RelayInv
  BY RelayInvInit, Zenon
<1>2. RelayInv /\ [Next]_vars => RelayInv'
  <2> SUFFICES ASSUME RelayInv, [Next]_vars PROVE RelayInv'
    OBVIOUS
  <2>1. CASE UNCHANGED vars
    BY <2>1 DEF RelayInv, vars, TypeOK, HopsReversible, SourcesRecorded,
                HavesSolicited, ProxiedMeansRunning
  <2>2. ASSUME NEW n \in Node, ForwardSearch(n) PROVE RelayInv'
    BY <2>2, SearchStep, Zenon
  <2>3. ASSUME NEW n \in Node, NEW s \in Node, Deliver(n, s) PROVE RelayInv'
    BY <2>3, ForwardsStep, HavesStep, Zenon DEF Deliver
  <2>4. ASSUME NEW x \in proxies, SessionStep(x) PROVE RelayInv'
    BY <2>4, SessionSteps, Zenon
  <2>5. ASSUME NEW e \in Fragile, Cut(e) \/ Reconnect(e) PROVE RelayInv'
    BY <2>5, LinkStep, Zenon
  <2> QED
    BY <2>1, <2>2, <2>3, <2>4, <2>5, Zenon DEF Next
<1> QED
  BY <1>1, <1>2, PTL DEF Spec

\* Every variable of the relay network keeps its type, for any network.
THEOREM RelayTypeCorrect == Spec => []TypeOK
<1>1. RelayInv => TypeOK
  BY Zenon DEF RelayInv
<1> QED
  BY <1>1, RelayInvariance, PTL

\* On every node the two relay maps describe the same hops: what was relayed for
\* a source to a peer comes back from that peer to that source.
THEOREM HopsAreReversible == Spec => []HopsReversible
<1>1. RelayInv => HopsReversible
  BY Zenon DEF RelayInv
<1> QED
  BY <1>1, RelayInvariance, PTL

\* No forward-have travels where no want-forward went before, at any distance
\* from the requestor.
THEOREM HavesAreSolicited == Spec => []HavesSolicited
<1>1. RelayInv => HavesSolicited
  BY Zenon DEF RelayInv
<1> QED
  BY <1>1, RelayInvariance, PTL

\* A want-forward is only dropped as "already the proxy" while a session for its
\* combination runs, however often sessions report their end.
THEOREM ProxiedIsRunning == Spec => []ProxiedMeansRunning
<1>1. RelayInv => ProxiedMeansRunning
  BY Zenon DEF RelayInv
<1> QED
  BY <1>1, RelayInvariance, PTL

-----------------------------------------------------------------------------
(* The batched provider: its timers.                                       *)

\* TimersFollowBatch, and outside the collecting loop both timers are off and,
\* once the batch is taken, nothing is collected.
TimersInv ==
    /\ bpc \in {"top", "wait", "out", "ready", "stopped"}
    /\ pause \in {"off", "on", "fired"} /\ maxc \in {"off", "on", "fired"}
    /\ bpc \in {"top", "wait"} => (m = {} <=> pause = "off") /\ (m = {} <=> maxc = "off")
    /\ bpc \notin {"top", "wait"} => pause = "off" /\ maxc = "off"
    /\ bpc = "ready" => m = {}

\* A cid is put in the batch: the pause starts again, the maximum only once.
LEMMA CollectStep ==
    ASSUME TimersInv, bpc \in {"top", "wait"}, NEW c, Collect(c)
    PROVE  TimersInv'
BY DEF TimersInv, Collect, Stuck

\* Every step of the loop, the timers and the callers keeps the timers right.
LEMMA TimersStep ==
    ASSUME TimersInv, [ProvideNext]_provideVars
    PROVE  TimersInv'
<1>1. CASE Loop
  <2>1. CASE CheckAge \/ WaitTimer
    BY <2>1, Zenon DEF TimersInv, CheckAge, WaitTimer, BreakLoop, Stuck
  <2>2. CASE Poll
    <3>1. CASE bpc = "top" /\ Receive
      BY <3>1, CollectStep, Zenon DEF Receive
    <3>2. CASE bpc = "top" /\ bpc' = "wait" /\ UNCHANGED <<m, pause, maxc>>
      BY <3>2, Zenon DEF TimersInv
    <3> QED
      BY <2>2, <3>1, <3>2, Zenon DEF Poll
  <2>3. CASE WaitReceive
    BY <2>3, CollectStep, Zenon DEF WaitReceive, Receive
  <2>4. CASE WaitReprovide
    BY <2>4, CollectStep, Zenon DEF WaitReprovide
  <2>5. CASE WaitDone \/ AwaitReady
    BY <2>5, Zenon DEF TimersInv, WaitDone, AwaitReady, LoopReturns
  <2>6. CASE TakeBatch
    BY <2>6, Zenon DEF TimersInv, TakeBatch
  <2>7. CASE ProvideMany
    BY <2>7, Zenon DEF TimersInv, ProvideMany
  <2> QED
    BY <1>1, <2>1, <2>2, <2>3, <2>4, <2>5, <2>6, <2>7, Zenon DEF Loop
<1>2. CASE PauseFires \/ MaxFires
  BY <1>2, Zenon DEF TimersInv, PauseFires, MaxFires
<1>3. CASE StartAgain
  BY <1>3, Zenon DEF TimersInv, StartAgain
<1>4. CASE UNCHANGED <<bpc, m, pause, maxc>>
  BY <1>4, Zenon DEF TimersInv
<1>5. CASE \E p \in Reproviding : Reprovide(p) \/ ReprovideDone(p)
  BY <1>4, <1>5, Zenon DEF Reprovide, ReprovideDone
<1>6. CASE (\E c \in ProvCid : Provide(c)) \/ TimePasses \/ Close \/ CloseQueue
  BY <1>4, <1>6, Zenon DEF Provide, TimePasses, Close, CloseQueue, batchVars
<1>7. CASE UNCHANGED provideVars
  BY <1>4, <1>7, Zenon DEF provideVars, batchVars
<1> QED
  BY <1>1, <1>2, <1>3, <1>5, <1>6, <1>7, Zenon DEF ProvideNext

\* The loop of the batched provider collects with both timers running exactly
\* when the batch has a cid, and never waits for a timer that cannot fire.
THEOREM TimersFollow == ProvideSpec => []TimersFollowBatch
<1>1. ProvideInit => TimersInv
  BY Zenon DEF ProvideInit, TimersInv
<1>2. TimersInv /\ [ProvideNext]_provideVars => TimersInv'
  BY TimersStep, Zenon
<1>3. TimersInv => TimersFollowBatch
  BY Zenon DEF TimersInv, TimersFollowBatch
<1> QED
  BY <1>1, <1>2, <1>3, PTL DEF ProvideSpec

-----------------------------------------------------------------------------
(* The provide queue: first in, first out.                                 *)

Entry == [n : Nat, head : ProvCid \cup {Undef}, cid : ProvCid]

\* The entries that are still to be handed out: those of the datastore, and
\* the one offered, whose Delete may have had its effect and failed.
Waiting(q, h) == q \cup ({h} \ {NoEntry})

\* The entries waiting, in the order of their numbers; the one offered first.
InOrder(es, q, h, o) ==
    /\ es \in Seq(Entry) /\ o \in Seq(ProvCid) /\ Len(es) = Len(o)
    /\ \A i \in 1..Len(es) : o[i] = es[i].cid
    /\ \A i \in 1..Len(es), j \in 1..Len(es) : i < j => es[i].n < es[j].n
    /\ \A e : e \in Waiting(q, h) <=> \E i \in 1..Len(es) : e = es[i]
    /\ h # NoEntry => es[1] = h

QueueInv ==
    /\ counter \in Nat /\ mode \in {"fresh", "left", "mixed"}
    /\ mode = "mixed" => owed = <<>>
    /\ mode = "fresh" => \A e \in Waiting(queue, held) : e.n < counter
    /\ mode # "mixed" =>
         /\ held = NoEntry => queue = {}
         /\ \E es : InOrder(es, queue, held, owed)

\* Entries are not the absence of one.
LEMMA EntryFacts ==
    ASSUME NEW e \in Entry
    PROVE  e # NoEntry /\ e.n \in Nat /\ e.cid \in ProvCid /\ e.head \in Nat
<1>1. e.n \in Nat /\ e.cid \in ProvCid /\ e.head \in ProvCid \cup {Undef}
  BY Zenon DEF Entry
<1>2. e.head \in Nat /\ e.cid # 0
  <2>1. \A c \in ProvCid : c \in Nat /\ c # 0
    BY ProvCidAssumption, Zenon
  <2> QED
    BY <1>1, <2>1 DEF Undef
<1>3. NoEntry.cid = 0
  BY Zenon DEF NoEntry, Undef
<1> QED
  BY <1>1, <1>2, <1>3, Zenon

\* With nothing waiting, the empty sequence is in order.
LEMMA NothingWaits ==
    InOrder(<<>>, {}, NoEntry, <<>>) /\ Waiting({}, NoEntry) = {}
BY DEF InOrder, Waiting

\* The head that getQueueHead finds is the first in the order.
LEMMA HeadFacts ==
    ASSUME NEW es, NEW q, NEW o, InOrder(es, q, NoEntry, o)
    PROVE  /\ InOrder(es, q, getQueueHead(q), o)
           /\ Waiting(q, getQueueHead(q)) = q
           /\ getQueueHead(q) = NoEntry => q = {}
<1>1. Waiting(q, NoEntry) = q
  BY Zenon DEF Waiting
<1>2. CASE q = {}
  BY <1>2, Zenon DEF getQueueHead, Waiting
<1>3. CASE q # {}
  <2>1. /\ es \in Seq(Entry) /\ Len(es) \in Nat
        /\ \A i \in 1..Len(es), j \in 1..Len(es) : i < j => es[i].n < es[j].n
        /\ \A e : e \in q <=> \E i \in 1..Len(es) : e = es[i]
    BY <1>1 DEF InOrder
  <2>2. \A i \in 1..Len(es) : es[i] \in Entry /\ es[i].n \in Nat
    BY <2>1, EntryFacts
  <2>3. 1 \in 1..Len(es) /\ es[1] \in q
    BY <1>3, <2>1
  <2> DEFINE First(e) == \A d \in q : e.n < d.n \/ (e.n = d.n /\ e.head <= d.head)
  <2>4. First(es[1])
    <3> SUFFICES ASSUME NEW d \in q
                 PROVE  es[1].n < d.n \/ (es[1].n = d.n /\ es[1].head <= d.head)
      OBVIOUS
    <3>1. PICK i \in 1..Len(es) : d = es[i]
      BY <2>1, Zenon
    <3>2. CASE i = 1
      <4>1. es[1].head \in Nat
        BY <2>2, <2>3, EntryFacts, Zenon
      <4> QED
        BY <2>2, <2>3, <3>1, <3>2, <4>1
    <3>3. CASE 1 < i
      BY <2>1, <2>3, <3>1, <3>3, Zenon
    <3> QED
      BY <2>1, <3>2, <3>3
  <2> DEFINE hd == CHOOSE e \in q : First(e)
  <2>5. hd \in q /\ First(hd)
    BY <2>3, <2>4, Zenon
  <2>6. getQueueHead(q) = hd
    BY <1>3, Zenon DEF getQueueHead
  <2>7. PICK i \in 1..Len(es) : hd = es[i]
    BY <2>1, <2>5, Zenon
  <2>8. hd.n <= es[1].n
    <3>1. hd.n < es[1].n \/ hd.n = es[1].n
      BY <2>3, <2>5, Zenon
    <3>2. hd.n \in Nat /\ es[1].n \in Nat
      BY <2>2, <2>3, <2>7, Zenon
    <3> HIDE DEF hd
    <3> QED
      BY <3>1, <3>2
  <2> HIDE DEF hd
  <2>9. i = 1
    <3>1. 1 < i => es[1].n < es[i].n
      BY <2>1, <2>3, Zenon
    <3> QED
      BY <2>1, <2>2, <2>3, <2>7, <2>8, <3>1
  <2>10. hd = es[1] /\ hd # NoEntry
    BY <2>2, <2>3, <2>7, <2>9, EntryFacts, Zenon
  <2>11. Waiting(q, hd) = q
    BY <2>5, <2>10, Zenon DEF Waiting
  <2> QED
    BY <1>1, <2>6, <2>10, <2>11, Zenon DEF InOrder
<1> QED
  BY <1>2, <1>3, Zenon

\* What waits when the first entry is gone.
LEMMA FirstGone ==
    ASSUME NEW es, NEW q, NEW h, NEW o, InOrder(es, q, h, o), h # NoEntry
    PROVE  /\ o # <<>> /\ Head(o) = h.cid
           /\ Without(q, h) = q \ {h}
           /\ InOrder(Tail(es), q \ {h}, NoEntry, Tail(o))
<1>1. /\ es \in Seq(Entry) /\ o \in Seq(ProvCid) /\ Len(es) = Len(o) /\ Len(es) \in Nat
      /\ \A i \in 1..Len(es) : o[i] = es[i].cid
      /\ \A i \in 1..Len(es), j \in 1..Len(es) : i < j => es[i].n < es[j].n
      /\ \A e : e \in q \cup {h} <=> \E i \in 1..Len(es) : e = es[i]
      /\ es[1] = h
  BY DEF InOrder, Waiting
<1>2. 1 \in 1..Len(es) /\ es # <<>> /\ o # <<>> /\ Head(o) = o[1]
  <2>1. PICK i \in 1..Len(es) : h = es[i]
    BY <1>1, Zenon
  <2>2. Len(es) >= 1
    BY <1>1, <2>1
  <2>3. es # <<>> /\ o # <<>>
    BY <1>1, <2>2
  <2> QED
    BY <1>1, <2>2, <2>3
<1>3. \A i \in 1..Len(es) : es[i] \in Entry /\ es[i].n \in Nat
  BY <1>1, EntryFacts
<1>4. \A i \in 1..Len(es) : i # 1 => es[i].n # h.n /\ es[i] # h
  <2> SUFFICES ASSUME NEW i \in 1..Len(es), i # 1
               PROVE  es[i].n # h.n
    OBVIOUS
  <2>1. es[1].n < es[i].n
    BY <1>1, <1>2
  <2> QED
    BY <1>1, <1>2, <1>3, <2>1
<1>5. Without(q, h) = q \ {h}
  BY <1>1, <1>4 DEF Without, SameKey
<1>6. /\ Tail(es) \in Seq(Entry) /\ Tail(o) \in Seq(ProvCid)
      /\ Len(Tail(es)) = Len(es) - 1 /\ Len(Tail(o)) = Len(es) - 1
      /\ \A i \in 1..(Len(es) - 1) : Tail(es)[i] = es[i + 1] /\ Tail(o)[i] = o[i + 1]
  BY <1>1, <1>2
<1>7. \A i \in 1..(Len(es) - 1) : i + 1 \in 1..Len(es) /\ i + 1 # 1
  BY <1>1
<1>8. \A i \in 1..(Len(es) - 1), j \in 1..(Len(es) - 1) :
         i < j => Tail(es)[i].n < Tail(es)[j].n
  <2> SUFFICES ASSUME NEW i \in 1..(Len(es) - 1), NEW j \in 1..(Len(es) - 1), i < j
               PROVE  es[i + 1].n < es[j + 1].n
    BY <1>6, Zenon
  <2>1. i + 1 < j + 1
    OBVIOUS
  <2> QED
    BY <1>1, <1>7, <2>1, Zenon
<1>9. ASSUME NEW e
      PROVE  e \in Waiting(q \ {h}, NoEntry) <=> \E i \in 1..(Len(es) - 1) : e = Tail(es)[i]
  <2>1. Waiting(q \ {h}, NoEntry) = q \ {h}
    BY Zenon DEF Waiting
  <2>2. ASSUME e \in q \ {h}
        PROVE  \E i \in 1..(Len(es) - 1) : e = Tail(es)[i]
    <3>1. PICK i \in 1..Len(es) : e = es[i]
      BY <1>1, <2>2, Zenon
    <3>2. i # 1
      BY <1>1, <2>2, <3>1, Zenon
    <3>3. i - 1 \in 1..(Len(es) - 1) /\ (i - 1) + 1 = i
      BY <1>1, <3>2
    <3>4. e = Tail(es)[i - 1]
      BY <1>6, <3>1, <3>3, Zenon
    <3> QED
      BY <3>3, <3>4, Zenon
  <2>3. ASSUME NEW i \in 1..(Len(es) - 1), e = Tail(es)[i]
        PROVE  e \in q \ {h}
    <3>1. e = es[i + 1] /\ i + 1 \in 1..Len(es) /\ e # h
      BY <1>4, <1>6, <1>7, <2>3, Zenon
    <3> QED
      BY <1>1, <3>1, Zenon
  <2> QED
    BY <2>1, <2>2, <2>3, Zenon
<1>10. \A i \in 1..(Len(es) - 1) : Tail(o)[i] = Tail(es)[i].cid
  BY <1>1, <1>6, <1>7
<1>11. InOrder(Tail(es), q \ {h}, NoEntry, Tail(o))
  BY <1>6, <1>8, <1>9, <1>10, ZenonT(30) DEF InOrder
<1> QED
  BY <1>1, <1>2, <1>5, <1>11, Zenon

\* What waits when an entry with a greater number is stored.
LEMMA LastAdded ==
    ASSUME NEW es, NEW q, NEW h, NEW o, InOrder(es, q, h, o), NEW e \in Entry,
           \A d \in Waiting(q, h) : d.n < e.n, h = NoEntry => q = {}
    PROVE  /\ Without(q, e) = q
           /\ InOrder(Append(es, e), q \cup {e}, Offer(q \cup {e}, h), Append(o, e.cid))
           /\ Waiting(q \cup {e}, Offer(q \cup {e}, h)) = Waiting(q, h) \cup {e}
           /\ Offer(q \cup {e}, h) # NoEntry
<1> DEFINE k == Len(es)
<1>1. /\ es \in Seq(Entry) /\ o \in Seq(ProvCid) /\ Len(es) = Len(o) /\ k \in Nat
      /\ \A i \in 1..k : o[i] = es[i].cid
      /\ \A i \in 1..k, j \in 1..k : i < j => es[i].n < es[j].n
      /\ \A d : d \in Waiting(q, h) <=> \E i \in 1..k : d = es[i]
      /\ h # NoEntry => es[1] = h
  BY DEF InOrder
<1>2. e # NoEntry /\ e.n \in Nat /\ e.cid \in ProvCid
  BY EntryFacts, Zenon
<1>3. Without(q, e) = q
  <2> SUFFICES ASSUME NEW d \in q PROVE d.n # e.n
    BY Zenon DEF Without, SameKey
  <2>1. d \in Waiting(q, h)
    BY Zenon DEF Waiting
  <2>2. PICK i \in 1..k : d = es[i]
    BY <1>1, <2>1, Zenon
  <2>3. d.n \in Nat /\ d.n < e.n
    BY <1>1, <2>1, <2>2, EntryFacts
  <2> QED
    BY <1>2, <2>3
<1> DEFINE h2 == Offer(q \cup {e}, h)
<1>4. h2 = IF h = NoEntry THEN e ELSE h
  <2>1. CASE h = NoEntry
    <3>1. q \cup {e} = {e}
      BY <2>1, Zenon
    <3>2. e.head \in Nat /\ e.head <= e.head
      BY EntryFacts
    <3>3. getQueueHead({e}) = CHOOSE d \in {e} :
                                \A c \in {e} : d.n < c.n \/ (d.n = c.n /\ d.head <= c.head)
      BY Zenon DEF getQueueHead
    <3>4. getQueueHead({e}) = e
      BY <3>2, <3>3, Zenon
    <3> QED
      BY <2>1, <3>1, <3>4, Zenon DEF Offer
  <2>2. CASE h # NoEntry
    BY <2>2, Zenon DEF Offer
  <2> QED
    BY <2>1, <2>2, Zenon
<1>5. Waiting(q \cup {e}, h2) = Waiting(q, h) \cup {e} /\ h2 # NoEntry
  BY <1>2, <1>4, Zenon DEF Waiting
<1> HIDE DEF h2
<1> DEFINE es2 == Append(es, e)
           o2 == Append(o, e.cid)
<1>6. /\ es2 \in Seq(Entry) /\ o2 \in Seq(ProvCid) /\ Len(es2) = k + 1 /\ Len(o2) = k + 1
      /\ \A i \in 1..k : es2[i] = es[i] /\ o2[i] = o[i]
      /\ es2[k + 1] = e /\ o2[k + 1] = e.cid
  BY <1>1, <1>2
<1>7. \A i \in 1..(k + 1) : i \in 1..k \/ i = k + 1
  BY <1>1
<1>8. \A i \in 1..k : i \in 1..(k + 1) /\ i < k + 1 /\ ~(k + 1 < i) /\ ~(k + 1 < k + 1)
  BY <1>1
<1>13. k + 1 \in 1..(k + 1) /\ ~(k + 1 < k + 1)
  BY <1>1
<1>9. \A i \in 1..k : es[i].n < e.n
  BY <1>1, Zenon
<1> HIDE DEF es2, o2, k
<1>10. \A i \in 1..(k + 1), j \in 1..(k + 1) : i < j => es2[i].n < es2[j].n
  <2> SUFFICES ASSUME NEW i \in 1..(k + 1), NEW j \in 1..(k + 1), i < j
               PROVE  es2[i].n < es2[j].n
    OBVIOUS
  <2>1. CASE i \in 1..k /\ j \in 1..k
    BY <1>1, <1>6, <2>1, Zenon
  <2>2. CASE i \in 1..k /\ j = k + 1
    BY <1>6, <1>9, <2>2, Zenon
  <2>3. i # k + 1
    BY <1>1, SMTT(30)
  <2> QED
    BY <1>7, <2>1, <2>2, <2>3, Zenon
<1>11. ASSUME NEW d
       PROVE  d \in Waiting(q, h) \cup {e} <=> \E i \in 1..(k + 1) : d = es2[i]
  BY <1>1, <1>6, <1>7, <1>8, <1>13, SMTT(30)
<1>12. h2 # NoEntry => es2[1] = h2
  <2>1. CASE h = NoEntry
    <3>1. Waiting(q, h) = {}
      BY <2>1, Zenon DEF Waiting
    <3>2. 1 \in 1..k => es[1] \in Waiting(q, h)
      BY <1>1, Zenon
    <3>3. k = 0
      BY <1>1, <3>1, <3>2
    <3> QED
      BY <1>4, <1>6, <2>1, <3>3
  <2>2. CASE h # NoEntry
    <3>1. h \in Waiting(q, h)
      BY <2>2, Zenon DEF Waiting
    <3>2. 1 \in 1..k
      BY <1>1, <3>1
    <3> QED
      BY <1>1, <1>4, <1>6, <2>2, <3>2, Zenon
  <2> QED
    BY <2>1, <2>2, Zenon
<1>14. \A i \in 1..(k + 1) : o2[i] = es2[i].cid
  BY <1>1, <1>6, <1>7, Zenon
<1>16. \A d : d \in Waiting(q \cup {e}, h2) <=> \E i \in 1..Len(es2) : d = es2[i]
  BY <1>5, <1>6, <1>11, ZenonT(30)
<1>17. /\ Len(es2) = Len(o2)
       /\ \A i \in 1..Len(es2) : o2[i] = es2[i].cid
       /\ \A i \in 1..Len(es2), j \in 1..Len(es2) : i < j => es2[i].n < es2[j].n
  BY <1>6, <1>10, <1>14, Zenon
<1>15. InOrder(es2, q \cup {e}, h2, o2)
  BY <1>6, <1>12, <1>16, <1>17, ZenonT(30) DEF InOrder
<1> QED
  BY <1>3, <1>5, <1>15, Zenon DEF es2, o2, h2

\* Storing a cid, with and without effect.
LEMMA EnqueueQueue ==
    ASSUME QueueInv, NEW c \in ProvCid, Enqueue(c)
    PROVE  QueueInv'
<1> DEFINE entry == [n |-> counter, head |-> held.cid, cid |-> c]
<1>1. PICK kept \in BOOLEAN :
         /\ queue' = IF kept THEN Without(queue, entry) \cup {entry} ELSE queue
         /\ owed' = IF mode' = "mixed" THEN <<>>
                    ELSE IF kept THEN Append(owed, c) ELSE owed
  BY Zenon DEF Enqueue
<1>2. /\ counter' = counter + 1 /\ held' = Offer(queue', held)
      /\ mode' = IF mode = "left" THEN "mixed" ELSE mode
  BY Zenon DEF Enqueue
<1>3. counter \in Nat /\ counter' \in Nat /\ mode' \in {"fresh", "left", "mixed"}
  BY <1>2 DEF QueueInv
<1>4. CASE mode' = "mixed"
  BY <1>1, <1>3, <1>4, Zenon DEF QueueInv
<1>5. CASE mode' # "mixed"
  <2>1. mode = "fresh" /\ mode' = "fresh"
    BY <1>2, <1>5, Zenon DEF QueueInv
  <2>2. PICK es : InOrder(es, queue, held, owed)
    BY <2>1, Zenon DEF QueueInv
  <2>3. /\ held = NoEntry => queue = {}
        /\ \A e \in Waiting(queue, held) : e.n < counter
    BY <2>1, Zenon DEF QueueInv
  <2>4. held.cid \in ProvCid \cup {Undef}
    <3>1. CASE held = NoEntry
      BY <3>1, Zenon DEF NoEntry
    <3>2. CASE held # NoEntry
      <4>1. held \in Waiting(queue, held)
        BY <3>2, Zenon DEF Waiting
      <4>2. held \in Entry
        BY <2>2, <4>1 DEF InOrder
      <4> QED
        BY <4>2, EntryFacts, Zenon
    <3> QED
      BY <3>1, <3>2, Zenon
  <2>5. entry \in Entry /\ entry.n = counter /\ entry.cid = c
    BY <1>3, <2>4, Zenon DEF Entry
  <2>6. CASE kept
    <3> HIDE DEF entry
    <3>1. /\ Without(queue, entry) = queue
          /\ InOrder(Append(es, entry), queue \cup {entry}, Offer(queue \cup {entry}, held),
                     Append(owed, entry.cid))
          /\ Waiting(queue \cup {entry}, Offer(queue \cup {entry}, held))
                = Waiting(queue, held) \cup {entry}
          /\ Offer(queue \cup {entry}, held) # NoEntry
      BY <2>2, <2>3, <2>5, LastAdded
    <3>2. queue' = queue \cup {entry} /\ owed' = Append(owed, c)
      BY <1>1, <1>5, <2>6, <3>1, Zenon
    <3>3. /\ InOrder(Append(es, entry), queue', held', owed') /\ held' # NoEntry
          /\ Waiting(queue', held') = Waiting(queue, held) \cup {entry}
      BY <1>2, <2>5, <3>1, <3>2, Zenon
    <3>4. \A e \in Waiting(queue, held) : e.n \in Nat
      BY <2>2, EntryFacts DEF InOrder
    <3>5. \A e \in Waiting(queue', held') : e.n < counter'
      BY <1>2, <1>3, <2>3, <2>5, <3>3, <3>4
    <3> QED
      BY <1>3, <2>1, <3>3, <3>5, Zenon DEF QueueInv
  <2>7. CASE ~kept
    <3>1. queue' = queue /\ owed' = owed
      BY <1>1, <1>5, <2>7, Zenon
    <3>2. held' = held
      BY <1>2, <2>3, <3>1, Zenon DEF Offer, getQueueHead
    <3>4. \A e \in Waiting(queue, held) : e.n \in Nat
      BY <2>2, EntryFacts DEF InOrder
    <3>5. \A e \in Waiting(queue, held) : e.n < counter'
      BY <1>2, <1>3, <2>3, <3>4
    <3> QED
      BY <1>3, <2>1, <2>2, <2>3, <3>1, <3>2, <3>5, Zenon DEF QueueInv
  <2> QED
    BY <2>6, <2>7, Zenon
<1> QED
  BY <1>4, <1>5, Zenon

\* Handing out the head, whether its Delete succeeds or not.
LEMMA HandOverQueue ==
    ASSUME QueueInv, NEW c \in ProvCid, HandOver(c)
    PROVE  QueueInv'
<1>1. PICK gone \in BOOLEAN, ok \in BOOLEAN :
         /\ ok => gone
         /\ queue' = IF gone THEN Without(queue, held) ELSE queue
         /\ held' = Offer(queue', IF ok THEN NoEntry ELSE held)
         /\ mode' = ModeAfter(queue', held')
         /\ owed' = IF mode' = "mixed" \/ owed = <<>> THEN <<>>
                    ELSE IF ok THEN Tail(owed) ELSE owed
  BY Zenon DEF HandOver
<1>2. held # NoEntry /\ counter' = counter
  BY Zenon DEF HandOver
<1>3. mode' = IF queue' = {} /\ held' = NoEntry THEN "fresh" ELSE mode
  BY <1>1, Zenon DEF ModeAfter
<1>4. counter' \in Nat /\ mode' \in {"fresh", "left", "mixed"}
  BY <1>2, <1>3, Zenon DEF QueueInv
<1>5. CASE mode' = "mixed"
  BY <1>1, <1>4, <1>5, Zenon DEF QueueInv
<1>6. CASE mode = "mixed" /\ mode' # "mixed"
  <2>1. queue' = {} /\ held' = NoEntry /\ owed' = <<>>
    BY <1>1, <1>3, <1>6, Zenon DEF QueueInv
  <2> QED
    BY <1>4, <1>6, <2>1, NothingWaits, Zenon DEF QueueInv
<1>7. CASE mode # "mixed" /\ mode' # "mixed"
  <2>1. PICK es : InOrder(es, queue, held, owed)
    BY <1>7, Zenon DEF QueueInv
  <2>2. /\ owed # <<>> /\ Without(queue, held) = queue \ {held}
        /\ InOrder(Tail(es), queue \ {held}, NoEntry, Tail(owed))
    BY <1>2, <2>1, FirstGone, Zenon
  <2>3. CASE ok
    <3>1. queue' = queue \ {held} /\ owed' = Tail(owed) /\ held' = getQueueHead(queue')
      BY <1>1, <1>7, <2>2, <2>3, Zenon DEF Offer
    <3>2. /\ InOrder(Tail(es), queue', held', owed') /\ Waiting(queue', held') = queue'
          /\ held' = NoEntry => queue' = {}
      BY <2>2, <3>1, HeadFacts, Zenon
    <3>3. mode' = "fresh" => \A e \in Waiting(queue', held') : e.n < counter'
      <4>1. CASE mode = "fresh"
        BY <1>2, <3>1, <3>2, <4>1, Zenon DEF QueueInv, Waiting
      <4>2. CASE mode # "fresh" /\ mode' = "fresh"
        BY <1>3, <3>2, <4>2, Zenon
      <4> QED
        BY <4>1, <4>2, Zenon
    <3> QED
      BY <1>4, <1>7, <3>2, <3>3, Zenon DEF QueueInv
  <2>4. CASE ~ok
    <3>1. held' = held /\ owed' = owed /\ mode' = mode
      BY <1>1, <1>2, <1>3, <1>7, <2>2, <2>4, Zenon DEF Offer
    <3>2. Waiting(queue', held') = Waiting(queue, held)
      BY <1>1, <1>2, <2>2, <3>1, Zenon DEF Waiting
    <3>3. InOrder(es, queue', held', owed')
      BY <2>1, <3>1, <3>2, Zenon DEF InOrder
    <3> QED
      BY <1>2, <1>4, <3>1, <3>2, <3>3, Zenon DEF QueueInv
  <2> QED
    BY <2>3, <2>4, Zenon
<1> QED
  BY <1>5, <1>6, <1>7, Zenon

\* A new queue over what an earlier one left.
LEMMA NewQueueQueue ==
    ASSUME QueueInv, NewQueue
    PROVE  QueueInv'
<1>1. /\ counter' = 0 /\ queue' = queue /\ held' = getQueueHead(queue)
      /\ mode' = IF queue = {} THEN "fresh" ELSE IF mode = "fresh" THEN "left" ELSE mode
      /\ owed' = IF held # NoEntry /\ held \notin queue /\ owed # <<>>
                 THEN Tail(owed) ELSE owed
  BY Zenon DEF NewQueue
<1>2. counter' \in Nat /\ mode' \in {"fresh", "left", "mixed"}
  BY <1>1, Zenon DEF QueueInv
<1>3. CASE mode = "mixed"
  <2>1. owed' = <<>>
    BY <1>1, <1>3, Zenon DEF QueueInv
  <2>2. CASE queue = {}
    <3>1. held' = NoEntry /\ queue' = {}
      BY <1>1, <2>2, Zenon DEF getQueueHead
    <3> QED
      BY <1>2, <2>1, <3>1, NothingWaits, Zenon DEF QueueInv
  <2>3. CASE queue # {}
    BY <1>1, <1>2, <1>3, <2>1, <2>3, Zenon DEF QueueInv
  <2> QED
    BY <2>2, <2>3, Zenon
<1>4. CASE mode # "mixed"
  <2>1. PICK es : InOrder(es, queue, held, owed)
    BY <1>4, Zenon DEF QueueInv
  <2>2. PICK fs : InOrder(fs, queue, NoEntry, owed')
    <3>1. CASE held # NoEntry /\ held \notin queue
      <4>1. owed # <<>> /\ InOrder(Tail(es), queue \ {held}, NoEntry, Tail(owed))
        BY <2>1, <3>1, FirstGone, Zenon
      <4>2. queue \ {held} = queue
        BY <3>1, Zenon
      <4> QED
        BY <1>1, <3>1, <4>1, <4>2, Zenon
    <3>2. CASE ~(held # NoEntry /\ held \notin queue)
      <4>1. owed' = owed
        BY <1>1, <3>2, Zenon
      <4>2. Waiting(queue, held) = Waiting(queue, NoEntry)
        BY <3>2, Zenon DEF Waiting
      <4>3. InOrder(es, queue, NoEntry, owed)
        BY <2>1, <4>2, Zenon DEF InOrder
      <4> QED
        BY <4>1, <4>3, Zenon
    <3> QED
      BY <3>1, <3>2, Zenon
  <2>3. /\ InOrder(fs, queue', held', owed') /\ Waiting(queue', held') = queue'
        /\ held' = NoEntry => queue' = {}
    BY <1>1, <2>2, HeadFacts, Zenon
  <2>4. mode' = "fresh" => Waiting(queue', held') = {}
    BY <1>1, <2>3, Zenon
  <2>5. mode' # "mixed"
    BY <1>1, <1>4, Zenon
  <2> QED
    BY <1>2, <2>3, <2>4, <2>5, Zenon DEF QueueInv
<1> QED
  BY <1>3, <1>4, Zenon

\* Every step of the queue's worker and of its callers keeps the order.
LEMMA QueueStep ==
    ASSUME QueueInv, [ProvideNext]_provideVars
    PROVE  QueueInv'
<1>1. CASE UNCHANGED queueVars
  BY <1>1, Zenon DEF QueueInv, queueVars
<1>2. CASE \E c \in ProvCid : HandOver(c)
  BY <1>2, HandOverQueue, Zenon
<1>3. CASE \E c \in ProvCid : Provide(c)
  BY <1>3, EnqueueQueue, Zenon DEF Provide
<1>4. CASE StartAgain
  BY <1>4, NewQueueQueue, Zenon DEF StartAgain
<1>5. CASE CloseQueue
  BY <1>5, Zenon DEF QueueInv, CloseQueue, QueueStops
<1>6. CASE Loop
  <2>1. CASE Receive
    BY <1>1, <1>2, <2>1, Zenon DEF Receive
  <2>2. CASE CheckAge \/ Poll \/ WaitReceive \/ WaitReprovide \/ WaitTimer \/ WaitDone
    BY <1>1, <2>1, <2>2, Zenon DEF CheckAge, Poll, WaitReceive, WaitReprovide, WaitTimer,
       WaitDone, LoopReturns
  <2>3. CASE TakeBatch \/ AwaitReady \/ ProvideMany
    BY <1>1, <2>3, Zenon DEF TakeBatch, AwaitReady, ProvideMany, LoopReturns
  <2> QED
    BY <1>6, <2>2, <2>3, Zenon DEF Loop
<1>7. CASE \E p \in Reproviding : Reprovide(p) \/ ReprovideDone(p)
  BY <1>1, <1>7, Zenon DEF Reprovide, ReprovideDone
<1>8. CASE PauseFires \/ MaxFires \/ TimePasses \/ Close
  BY <1>1, <1>8, Zenon DEF PauseFires, MaxFires, TimePasses, Close
<1>9. CASE UNCHANGED provideVars
  BY <1>1, <1>9, Zenon DEF provideVars
<1> QED
  BY <1>3, <1>4, <1>5, <1>6, <1>7, <1>8, <1>9, Zenon DEF ProvideNext

\* The provide queue hands out the oldest cid it has stored, through failing
\* writes, deletes that fail with or without effect, and restarts, until a new
\* queue adds to the entries of an earlier one.
THEOREM QueueIsFIFO == ProvideSpec => []FirstInFirstOut
<1>1. ProvideInit => QueueInv
  BY NothingWaits DEF ProvideInit, QueueInit, QueueInv
<1>2. QueueInv /\ [ProvideNext]_provideVars => QueueInv'
  BY QueueStep, Zenon
<1>3. QueueInv => FirstInFirstOut
  <2> SUFFICES ASSUME QueueInv, mode # "mixed"
               PROVE  IF held = NoEntry THEN owed = <<>>
                      ELSE owed # <<>> /\ held.cid = Head(owed)
    BY Zenon DEF FirstInFirstOut
  <2>1. PICK es : InOrder(es, queue, held, owed)
    BY Zenon DEF QueueInv
  <2>2. CASE held = NoEntry
    <3>1. queue = {} /\ Waiting(queue, held) = {}
      BY <2>2, Zenon DEF QueueInv, Waiting
    <3>2. 1 \notin 1..Len(es)
      BY <2>1, <3>1, Zenon DEF InOrder
    <3>3. es \in Seq(Entry) /\ owed \in Seq(ProvCid) /\ Len(es) = Len(owed)
      BY <2>1, Zenon DEF InOrder
    <3>4. Len(owed) = 0
      BY <3>2, <3>3
    <3> QED
      BY <2>2, <3>3, <3>4
  <2>3. CASE held # NoEntry
    BY <2>1, <2>3, FirstGone, Zenon
  <2> QED
    BY <2>2, <2>3, Zenon
<1> QED
  BY <1>1, <1>2, <1>3, PTL DEF ProvideSpec

=============================================================================
