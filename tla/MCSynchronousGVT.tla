--------------------------- MODULE MCSynchronousGVT ---------------------------
(* Small instances of TimeWarpSynchronousGVTManager.                        *)
EXTENDS TimeWarpSynchronousGVTManager

OneNode     == [lp \in LP |-> 0]
NodePerLP   == [lp \in LP |-> (lp - 1) % NumNodes]
OneQueue    == [lp \in LP |-> 0]
QueuePerLP  == [lp \in LP |-> (lp - 1) % NumSchedulers]
StaggeredEvents == [lp \in LP |-> {2 * lp - 1}]
LastHasEvent == [lp \in LP |-> IF lp = NumLPs THEN {1} ELSE {}]
=============================================================================
