------------------------ MODULE MCDontHaveTimeoutMgr ------------------------
(* Two wants; a timeout that can be raised and lowered and that a want can *)
(* be half way through; a queue that can hold a cancelled want beside two  *)
(* active ones.                                                            *)
EXTENDS DontHaveTimeoutMgr
=============================================================================
