------------------------------ MODULE MCSessions ------------------------------
(* The two halves of the sessions: how one session's sender spreads its wants *)
(* over its peers, and how the interest of several sessions, the cancels and  *)
(* the blocks meet in the session manager.  Each is explored while the other  *)
(* rests.                                                                     *)
EXTENDS SessionWantSender, SessionManager, TLC

VARIABLE part

MCSymmetry == Permutations(Peer)

SessionsInit == part \in {"sender", "manager"} /\ SenderInit /\ ManagerInit

SessionsNext ==
    \/ part = "sender" /\ SenderNext /\ UNCHANGED <<part, managerVars>>
    \/ part = "manager" /\ ManagerNext /\ UNCHANGED <<part, senderVars>>

SessionsSpec ==
    SessionsInit /\ [][SessionsNext]_<<part, senderVars, managerVars>>
===============================================================================
