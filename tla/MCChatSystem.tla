---------------------------- MODULE MCChatSystem ----------------------------
(* Model checking of ChatSystem.  Sessions are only compared, so that the  *)
(* runs in which page p1 has session s1 stand for all.                     *)
EXTENDS ChatSystem, TLC

CONSTANTS p1, s1

MCInit == Init /\ home[p1] = s1

MCSpec == MCInit /\ [][Next]_vars /\ Fairness
=============================================================================
