------------------------- MODULE MCTimeWarpEventSet -------------------------
(* Small instances of TimeWarpEventSetClient.                               *)
EXTENDS TimeWarpEventSetClient

E(recv, ts, send, sender, gen) ==
    [ts |-> ts, send |-> send, sender |-> sender, gen |-> gen,
     recv |-> recv, type |-> POSITIVE]

(* Two LPs that share scheduler 0, or have one scheduler each.             *)
SharedQueue   == [lp \in LP |-> 0]
OneQueuePerLP == [lp \in LP |-> (lp - 1) % NumSchedulers]

(* LP 1 gets two events and a straggler with equal receive times (send     *)
(* time and sender decide), LP 2 one event.                                *)
TieMessages == {E(1, 2, 1, 1, 0), E(1, 2, 1, 2, 0), E(2, 2, 1, 1, 1)}

(* The same with a later event for LP 1, so that a rollback takes back    *)
(* more than one event.                                                    *)
TieAndLateMessages == TieMessages \cup {E(1, 3, 2, 2, 1)}
=============================================================================
