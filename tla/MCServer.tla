------------------------------ MODULE MCServer ------------------------------
(* The server side: the decision engine, and the cached blockstore that it   *)
(* answers from.  The engine knows of the blockstore only which blocks are   *)
(* there, so each is explored while the other rests.  One peer, two blocks,  *)
(* an identity CID and one that is too long (its block is not there at the   *)
(* start), two workers; two goroutines that make every call for one key, or  *)
(* store overlapping batches.                                                *)
EXTENDS Engine, BlockstoreCache, TLC

CONSTANTS k1, k2, id, big, peer1

VARIABLE part

MCWant(f) == [k \in Key |-> IF k \in DOMAIN f THEN f[k] ELSE NoWant]
MCMsg(full, want, cancel, dh) ==
    [full |-> full, want |-> MCWant(want), cancel |-> cancel, sendDontHave |-> dh]

MCMessage ==
    {MCMsg(FALSE, k1 :> t, {}, TRUE) : t \in WantType}
    \cup {MCMsg(FALSE, k1 :> "block" @@ k2 :> "have" @@ big :> "have", {}, FALSE),
          MCMsg(TRUE, k2 :> "block", {}, TRUE),
          MCMsg(FALSE, <<>>, {k1, k2, big}, FALSE),
          MCMsg(FALSE, id :> "have" @@ k1 :> "have", {}, FALSE),
          MCMsg(FALSE, <<>>, {id, k1}, FALSE)}
MCDenied == {<<peer1, k2>>}

MCWorkload ==
    { [calls |-> [op : {"Has", "Get", "GetSize", "Put", "PutMany", "Delete"}, keys : {{1}}],
       filter |-> TRUE],
      [calls |-> [op : {"PutMany"}, keys : {{1, 2}}], filter |-> FALSE] }

MCSymmetry == Permutations(Worker) \cup Permutations(Caller)

ServerInit ==
    /\ part \in {"engine", "blockstore"} /\ Init /\ CacheInit
    /\ IF part = "engine" THEN stored = {} /\ program.filter /\ big \notin store
                          ELSE store = {}

ServerNext ==
    \/ part = "engine" /\ Next /\ UNCHANGED <<part, cacheVars>>
    \/ part = "blockstore" /\ CacheNext /\ UNCHANGED <<part, vars>>

ServerSpec == ServerInit /\ [][ServerNext]_<<part, vars, cacheVars>>
=============================================================================
