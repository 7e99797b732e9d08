--------------------------- MODULE MCMessageQueue ---------------------------
(* One key that is wanted from the peer, one that is broadcast, a          *)
(* want-forward and a forward-have; the callers use any two of the four,   *)
(* so that a message that is cut short leaves work of another kind behind. *)
EXTENDS MessageQueue, FiniteSets

VARIABLE used

Kinds == {"want", "broadcast", "want-forward", "forward-have"}

MCInit == Init /\ used \in {ks \in SUBSET Kinds : Cardinality(ks) = 2}

MCNext ==
    /\ Next
    /\ peerPending' # NoWants => "want" \in used
    /\ bcstPending' # {} => "broadcast" \in used
    /\ forwardPending' # {} => "want-forward" \in used
    /\ forwardHaves' # {} => "forward-have" \in used
    /\ cancelling' \cap PeerKey # {} => "want" \in used
    /\ cancelling' \cap BcstKey # {} => "broadcast" \in used
    /\ UNCHANGED used

MCSpec ==
    /\ MCInit
    /\ [][MCNext]_<<vars, used>>
    /\ WF_vars(CallerGoesOn)
    /\ WF_vars(RunQueue)
    /\ WF_vars(TimerFires)
=============================================================================
