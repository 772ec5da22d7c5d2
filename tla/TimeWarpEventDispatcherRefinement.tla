------------------ MODULE TimeWarpEventDispatcherRefinement ------------------
(***************************************************************************)
(* The dispatcher uses the event set as TimeWarpEventSetClient allows: what *)
(* is proved of the client holds of the event set inside the engine.  The  *)
(* client's own variables are history variables here: `sent' records what  *)
(* was ever inserted, and `horizon' is the GVT until the engine terminates, *)
(* when everything that is left is committed.                              *)
(***************************************************************************)
EXTENDS TimeWarpEventDispatcher, TimeWarpEventSetClient

History == <<sent, horizon>>

HistoryInit == Init /\ sent = {} /\ horizon = 0
Remember ==
    /\ sent' = sent \cup Pending'
    /\ horizon' = IF pc'[Master] = "terminated" THEN Infinity ELSE gvt'
HistoryStep == EngineNext /\ Remember
HistoryNext == \/ Running(HistoryStep)
               \/ (\E t \in Worker : Abort(t)) /\ UNCHANGED History
HistorySpec == HistoryInit /\ [][HistoryNext]_<<vars, History>> /\ Fairness

(* Every step of the engine is a step of the general client of the event   *)
(* set: a worker never cancels or replenishes before it rolled back, never *)
(* sends an event twice or an anti-message without its event, and fossil   *)
(* collection stays behind the GVT.                                        *)
ImplementsClient == ClientSpec

-----------------------------------------------------------------------------
(* The inductive invariant of the engine, of which the invariant of the    *)
(* client, IInv, is a part.                                                *)

(* Every event and anti-message that was sent; none is forgotten, so an    *)
(* event can be told from all that ever came before it.                    *)
Known == sent \cup InNetwork

Handling == {"rollback", "cancelEvents", "cancelEvent", "receiveEvent",
             "sendEvents", "replenish"}

(* A sequence of anything: what an LP's state is, is the model's business. *)
IsSequence(q) == q \in Seq({q[i] : i \in DOMAIN q})

(* The parameters of sendEvents for one event.                             *)
ToSend == [source : Event, sender : LP, recv : LP, ts : Nat]

(* What the output manager records of one event sent.                      *)
Recorded == [input : Event, output : Event]

EngineTypeOK ==
    /\ pc \in [Thread -> Handling \cup {"getEvent", "initialize", "running", "terminated"}]
    /\ new_events \in [Thread -> Seq(ToSend)]
    /\ events_to_cancel \in [Worker -> Seq(Event)]
    /\ state_queue = [lp \in LP |-> state_queue[lp]]
    /\ \A lp \in LP : IsSequence(state_queue[lp])
    /\ count \in [LP -> Nat]
    /\ output_queue \in [LP -> Seq(Recorded)]
    /\ generation \in [LP -> Nat]
    /\ gvt \in Nat
    /\ network \in [Scheduler \X Scheduler -> Seq(Event)]

(* The master initialises, lets the workers run and terminates.            *)
MasterControl ==
    /\ pc[Master] \in {"initialize", "running", "terminated"}
    /\ pc[Master] = "initialize" =>
           gvt = 0 /\ \A lp \in LP : processed_queue[lp] = <<>>
    /\ new_events[Master] # <<>> => pc[Master] = "initialize"
    /\ pc[Master] = "terminated" => Outstanding = {}
    /\ horizon = IF pc[Master] = "terminated" THEN Infinity ELSE gvt
    /\ gvt <= Infinity

(* A worker's place in processEvents and the event it handles: once it has *)
(* rolled its LP back nothing makes its event a straggler again.           *)
InStep(t) ==
    /\ pc[t] \in Handling \cup {"getEvent"}
    /\ pc[t] = "getEvent" <=> held[t] = NoEvent
    /\ pc[Master] # "running" => pc[t] = "getEvent"
    /\ pc[t] = "rollback" => IsStraggler(held[t].recv, held[t])
    /\ pc[t] \in Handling \ {"rollback"} => ~ IsStraggler(held[t].recv, held[t])
    /\ pc[t] = "cancelEvent" => held[t].type = NEGATIVE
    /\ pc[t] \in {"receiveEvent", "sendEvents", "replenish"} => held[t].type = POSITIVE
    /\ new_events[t] # <<>> => pc[t] = "sendEvents"
    /\ events_to_cancel[t] # <<>> => pc[t] = "cancelEvents"
WorkersInStep == \A t \in Worker : InStep(t)

(* Sender and generation number identify an event and its anti-message.    *)
KnownIsIdentified ==
    /\ Known \subseteq Sendable
    /\ \A e \in Known : /\ e.sender \in LP
                        /\ e.gen < generation[e.sender]
                        /\ e.send <= e.ts
    /\ \A e, f \in Known :
           e.sender = f.sender /\ e.gen = f.gen => PositiveEvent(e) = PositiveEvent(f)

(* A message is in one place of the network, and no longer there when it   *)
(* has been received.                                                      *)
NetworkHoldsOnce ==
    /\ InNetwork \cap sent = {}
    /\ \A l, m \in DOMAIN network : \A i \in DOMAIN network[l], j \in DOMAIN network[m] :
           network[l][i] = network[m][j] => l = m /\ i = j

(* What the output queue of an LP records was sent, and not yet cancelled. *)
OutputIsSent ==
    \A lp \in LP : \A i \in DOMAIN output_queue[lp] :
        LET o == output_queue[lp][i]
        IN  /\ o.output \in Known
            /\ o.output.type = POSITIVE
            /\ o.output.sender = lp
            /\ o.output.send = o.input.ts
            /\ NegativeEvent(o.output) \notin Known
            /\ \A j \in DOMAIN output_queue[lp] :
                   output_queue[lp][j].output = o.output => i = j

(* Its entries are in the order of the events that caused them, and these  *)
(* have been processed.                                                    *)
OutputIsCaused ==
    \A lp \in LP : \A i \in DOMAIN output_queue[lp] :
        LET cause == output_queue[lp][i].input
        IN  /\ \A j \in DOMAIN output_queue[lp] :
                   i < j => ~ Before(output_queue[lp][j].input, cause)
            /\ \/ cause = InitialEvent
               \/ cause \in Processed(lp) \cup JustReceived(lp)
               \/ pc[Master] = "terminated"

(* What a worker has yet to cancel was sent by the LP it rolled back, is   *)
(* cancelled once, and is not recorded any more.                           *)
ToCancelIsSent ==
    \A t \in Worker : \A i \in DOMAIN events_to_cancel[t] :
        LET e == events_to_cancel[t][i]
        IN  /\ e \in Known
            /\ e.type = POSITIVE
            /\ e.sender = held[t].recv
            /\ NegativeEvent(e) \notin Known
            /\ \A j \in DOMAIN events_to_cancel[t] :
                   events_to_cancel[t][j] = e => i = j
            /\ \A j \in DOMAIN output_queue[e.sender] :
                   output_queue[e.sender][j].output # e

(* What a thread has yet to send is caused by the event it handles.        *)
ToSendIsCaused ==
    \A t \in Thread : \A i \in DOMAIN new_events[t] :
        LET next == new_events[t][i]
        IN  /\ next.source = IF t = Master THEN InitialEvent ELSE held[t]
            /\ t # Master => next.sender = held[t].recv
            /\ next.source.ts <= next.ts
            /\ next.ts < Infinity

(* The GVT has passed nothing outstanding.                                 *)
OutstandingNotBeforeGVT ==
    \A e \in InNetwork \cup BeingSent \cup BeingCancelled : gvt <= e.ts

(* An LP's first saved state is older than anything that can still arrive. *)
FirstStateIsOld ==
    \A lp \in LP :
        /\ state_queue[lp] = <<>> => pc[Master] = "initialize" /\ count[lp] = 0
        /\ \A i \in DOMAIN state_queue[lp] :
               state_queue[lp][i].event \in Message \cup {InitialEvent}
        /\ state_queue[lp] # <<>> =>
               \/ state_queue[lp][1].event = InitialEvent
               \/ state_queue[lp][1].event.ts < gvt

(* An event that was sent is recorded, or being cancelled, or cancelled,   *)
(* or committed.                                                           *)
SentIsRecorded ==
    \A e \in Known : e.type = POSITIVE =>
        \/ \E i \in DOMAIN output_queue[e.sender] : output_queue[e.sender][i].output = e
        \/ e \in BeingCancelled
        \/ NegativeEvent(e) \in Known
        \/ e.send < gvt

EngineInv == /\ IInv
             /\ EngineTypeOK
             /\ MasterControl
             /\ WorkersInStep
             /\ KnownIsIdentified
             /\ NetworkHoldsOnce
             /\ OutputIsSent
             /\ OutputIsCaused
             /\ ToCancelIsSent
             /\ ToSendIsCaused
             /\ OutstandingNotBeforeGVT
             /\ FirstStateIsOld
             /\ SentIsRecorded

-----------------------------------------------------------------------------
(* The inductive invariant of the saved states.                            *)

TraceOf == Nat \X Nat

(* Saved states are in the order of the events that led to them; these     *)
(* have been processed, unless the GVT has passed them; and a rollback     *)
(* leaves the LP in its newest saved state.                                *)
StateOK(lp) ==
    LET q == state_queue[lp]
    IN  /\ \A i \in DOMAIN q : q[i].state \in Seq(TraceOf)
        /\ \A i, j \in DOMAIN q : i < j => Before(q[i].event, q[j].event)
        /\ \A i \in DOMAIN q : \/ q[i].event = InitialEvent
                               \/ q[i].event \in Processed(lp) \cup JustReceived(lp)
                               \/ q[i].event.ts < gvt
                               \/ pc[Master] = "terminated"
        /\ InPast(lp) => state[lp] = Last(q).state
        /\ ~ InPast(lp) /\ q # <<>> /\ pc[Master] # "terminated" => Reproduced(lp)

StateInv == /\ state \in [LP -> Seq(TraceOf)]
            /\ \A lp \in LP : StateOK(lp)
=============================================================================
