---------------------- MODULE SequentialEventDispatcher ----------------------
(***************************************************************************)
(* The sequential simulation (SequentialEventDispatcher.cpp on top of      *)
(* STLLTSFQueue.cpp): one event list sorted by operator<, one loop.  It is *)
(* what the optimistic engine must be indistinguishable from.              *)
(***************************************************************************)
EXTENDS LogicalProcess

CONSTANTS LPs,         \* the LPs, numbered in the order of their names
          MaxEvents    \* a bound on the loop, larger than any run

(* A configuration of the loop: event list, LP states, generation          *)
(* counters.                                                               *)
Start ==
    [events     |-> UNION {NewEvents(lp, InitialSends[lp], 0, 0) : lp \in LPs},
     state      |-> [lp \in LPs |-> InitialState],
     generation |-> [lp \in LPs |-> Cardinality(InTime(InitialSends[lp]))]]

LtsfPop(events) == CHOOSE e \in events : \A f \in events : BeforeOrSame(e, f)

ProcessNext(c) ==
    LET e     == LtsfPop(c.events)
        sends == Sends(e.recv, c.state[e.recv], e)
    IN  [events     |-> (c.events \ {e})
                        \cup NewEvents(e.recv, sends, e.ts, c.generation[e.recv]),
         state      |-> [c.state EXCEPT ![e.recv] = NextState(@, e)],
         generation |-> [c.generation EXCEPT ![e.recv] = @ + Cardinality(InTime(sends))]]

startSimulation[n \in 0 .. MaxEvents] ==
    IF n = 0 THEN Start
    ELSE LET c == startSimulation[n - 1]
         IN  IF c.events = {} THEN c ELSE ProcessNext(c)

(* The outcome of the run.                                                 *)
SequentialState == startSimulation[MaxEvents].state

(* The bound was large enough for the loop to end.                         *)
SequentialDone == startSimulation[MaxEvents].events = {}
=============================================================================
