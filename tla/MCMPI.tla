-------------------------------- MODULE MCMPI --------------------------------
(* Small instances of TimeWarpMPICommunicationManager.                      *)
EXTENDS TimeWarpMPICommunicationManager

(* Node 0 sends most, to itself and to the others.                          *)
MostlyNode0 == [n \in Node |-> IF n = 0 THEN 3 ELSE 1]
=============================================================================
