------------------------------ MODULE MCStorage ------------------------------
(* Two components that keep their state in the datastore across restarts:   *)
(* the pinner, and the provide queue with its batched consumer.  They share *)
(* no state, so each is explored while the other rests.                     *)
EXTENDS Pinner, BatchedProvider, TLC

VARIABLE part

MCSymmetry == Permutations(Cid) \cup Permutations(Client)

StorageInit == part \in {"pinner", "provide"} /\ PinnerInit /\ ProvideInit

StorageNext ==
    \/ part = "pinner" /\ PinnerNext /\ UNCHANGED <<part, provideVars>>
    \/ part = "provide" /\ ProvideNext /\ UNCHANGED <<part, pinnerVars>>

StorageSpec == StorageInit /\ [][StorageNext]_<<part, pinnerVars, provideVars>>
=============================================================================
