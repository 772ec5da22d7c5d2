---------------------- MODULE MCTimeWarpEventDispatcher ----------------------
(* Small simulation models for TimeWarpEventDispatcher.                     *)
EXTENDS TimeWarpEventDispatcher

To(lp, time) == [recv |-> lp, ts |-> time]

OneQueue      == [lp \in LP |-> 0]
OneQueuePerLP == [lp \in LP |-> (lp - 1) % NumSchedulers]

(* LP 1 is behind: it sends LP 2 an event that LP 2, which keeps itself    *)
(* busy, has likely simulated past.  What LP 2 sends depends on how many   *)
(* events it has received, so an event processed out of order has wrong    *)
(* effects, at LP 2 and at LP 1.                                           *)
BehindInitial == <<<<To(1, 1)>>, <<To(2, 3)>>>>
BehindSends(lp, s, e) ==
    IF lp = 1 THEN <<To(2, e.ts + 1)>>
    ELSE IF Len(s) % 2 = 0 THEN <<To(2, e.ts + 1), To(1, e.ts + 2)>>
    ELSE <<To(1, e.ts + 2)>>

(* The LPs answer each other, so an anti-message for an event that has been  *)
(* processed has consequences to undo in turn.  LP 2 answers every other    *)
(* event, so it answers the wrong one when it is ahead.                     *)
EchoInitial == <<<<To(1, 1)>>, <<To(2, 3)>>>>
EchoSends(lp, s, e) ==
    IF lp = 1 THEN <<To(2, e.ts + 1)>>
    ELSE IF Len(s) % 2 = 0 THEN <<To(1, e.ts + 1)>> ELSE <<>>

(* A chain of events without delay: LP 2, then LP 1, then LP 1 again.  The *)
(* last event has an earlier sender name than the one that caused it.      *)
ZeroInitial == <<<<>>, <<To(2, 1)>>>>
ZeroSends(lp, s, e) ==
    IF lp = 2 \/ e.sender = 2 THEN <<To(1, e.ts)>> ELSE <<>>

(* LP 2 sends itself and LP 1 an event without delay, and LP 1 answers     *)
(* without delay: by its sender's name the answer sorts before what LP 2   *)
(* sent itself, which a sequential run has processed by then.              *)
TieInitial == <<<<>>, <<To(2, 1)>>>>
TieSends(lp, s, e) ==
    IF lp = 1 THEN <<To(2, e.ts)>>
    ELSE IF Len(s) = 0 THEN <<To(2, e.ts), To(1, e.ts)>> ELSE <<>>
=============================================================================
