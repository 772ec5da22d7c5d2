---------------------------- MODULE MCTermination ----------------------------
(* Small instances of TimeWarpTerminationManager.                           *)
EXTENDS TimeWarpTerminationManager

(* Node 0, which has the token, and the last node have work at the start.  *)
AtFirst == [n \in Node |-> IF n = 0 THEN 1 ELSE 0]
AtLast  == [n \in Node |-> IF n = NumNodes - 1 THEN 1 ELSE 0]
=============================================================================
