------------------------ MODULE MCForwardGraphManager ------------------------
(* Three peers; degrees with no, one and two successors, and the complete  *)
(* graph.                                                                  *)
EXTENDS ForwardGraphManager
=============================================================================
