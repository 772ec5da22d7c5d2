---------------- MODULE MCTimeWarpEventDispatcherRefinement ----------------
(* An instance of TimeWarpEventDispatcherRefinement and                    *)
(* TimeWarpEventDispatcherLog with the simulation models of                *)
(* MCTimeWarpEventDispatcher.                                              *)
EXTENDS MCTimeWarpEventDispatcher, TimeWarpEventDispatcherLog

(* Who an event of the model goes to follows from its sender and delay.    *)
BehindReceiver(e) == IF e.send = 0 THEN e.sender
                     ELSE IF e.sender = 2 /\ e.ts = e.send + 2 THEN 1 ELSE 2
MaxGeneration == 12
BehindUniverse ==
    {e \in [ts : 1 .. MaxSimTime, send : 0 .. MaxSimTime, sender : LP,
            gen : 0 .. MaxGeneration, recv : LP, type : {POSITIVE}] :
        e.send < e.ts /\ e.recv = BehindReceiver(e)}

(* The LPs of the other model send to each other, but for the first event. *)
EchoReceiver(e) == IF e.send = 0 THEN e.sender ELSE 3 - e.sender
EchoUniverse ==
    {e \in [ts : 1 .. MaxSimTime, send : 0 .. MaxSimTime, sender : LP,
            gen : 0 .. MaxGeneration, recv : LP, type : {POSITIVE}] :
        e.send < e.ts /\ e.recv = EchoReceiver(e)}
=============================================================================
