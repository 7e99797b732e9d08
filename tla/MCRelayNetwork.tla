--------------------------- MODULE MCRelayNetwork ---------------------------
(* Three fully connected nodes: the smallest network in which a search can *)
(* come back to the node that started it.  One requestor that searches     *)
(* twice; the connection to one of the relays may be lost and come back.   *)
EXTENDS RelayNetwork

CONSTANTS a, b, c

MCFragile == {<<a, b>>}
=============================================================================
