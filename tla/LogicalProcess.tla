---------------------------- MODULE LogicalProcess ----------------------------
(***************************************************************************)
(* The simulation model: what logical processes do, as far as the kernel   *)
(* can tell (LogicalProcess.hpp).  The model is a parameter.               *)
(*                                                                         *)
(* receiveEvent is deterministic, so the state of an LP is a function of   *)
(* the events it received.  The state used here is that very sequence, the *)
(* one that tells any two histories apart.                                 *)
(***************************************************************************)
EXTENDS WarpedEvent, Sequences, FiniteSets

CONSTANTS MaxSimTime,      \* max_sim_time_
          InitialSends,    \* initializeLP: for each LP a sequence of sends
          Sends(_, _, _)   \* receiveEvent: what LP lp in this state sends
                           \* on this event, a sequence of [recv, ts]

InitialState == <<>>

(* What an event leaves in the state.  The generation is left out: it is   *)
(* not the same in two runs.                                               *)
Trace(event) == <<event.ts, event.sender>>

NextState(state, event) == Append(state, Trace(event))

(* receiveEvent of one event after the other.                              *)
NextStates(state, events) == state \o [i \in DOMAIN events |-> Trace(events[i])]

(* What the dispatcher makes of an event an LP returns, a send: it gets    *)
(* the sender, the send time and the sender's next generation number.      *)
NewEvent(lp, send, send_time, generation) ==
    [ts |-> send.ts, send |-> send_time, sender |-> lp, gen |-> generation,
     recv |-> send.recv, type |-> POSITIVE]

(* Of the events an LP returns at once those past the end of the           *)
(* simulation are dropped; the others are numbered one after the other.    *)
InTime(sends) == {i \in DOMAIN sends : sends[i].ts <= MaxSimTime}

NewEvents(lp, sends, send_time, generation) ==
    {NewEvent(lp, sends[i], send_time,
              generation + Cardinality({k \in InTime(sends) : k < i})) : i \in InTime(sends)}
=============================================================================
