----------------------- MODULE TimeWarpEventDispatcher -----------------------
(***************************************************************************)
(* The optimistic engine (TimeWarpEventDispatcher.cpp): worker threads     *)
(* take events from the event set, process them speculatively, and undo    *)
(* what a straggler or an anti-message proves wrong: the events, the saved *)
(* states and the messages sent.  The state manager, the output manager    *)
(* and the LP's own counters belong to whoever holds the LP's scheduled    *)
(* event; threads meet in the event set and in the network.                *)
(*                                                                         *)
(* Between two steps of a worker other workers run, the GVT advances and   *)
(* messages arrive.  The GVT algorithm and the termination algorithm are   *)
(* modules of their own; here the GVT is any time that nothing outstanding *)
(* precedes, and termination happens when nothing is outstanding.          *)
(***************************************************************************)
EXTENDS TimeWarpEventSet, LogicalProcess

CONSTANTS StatePeriod,   \* period_: a state is saved every so many events
          Remote,        \* each scheduler (its LPs and workers) is a node
          Fifo,          \* the network keeps the order of messages
          GvtTimes,      \* bound on the values of the GVT
          MaxEvents      \* bound on the sequential run

ASSUME PeriodAssumption == StatePeriod \in Nat \ {0}
ASSUME NetworkAssumption ==
    /\ Remote \in BOOLEAN /\ Fifo \in BOOLEAN
    /\ Remote => ~ LpMigration
ASSUME TimesAssumption ==
    /\ Infinity \in Nat
    /\ MaxSimTime \in Nat /\ MaxSimTime <= Infinity
    /\ GvtTimes \subseteq (0 .. MaxSimTime) \cup {Infinity}

INSTANCE SequencesExt

Sequential == INSTANCE SequentialEventDispatcher WITH LPs <- LP

Master == NumWorkers            \* thread_id of the thread that initialises
Thread == Worker \cup {Master}

VARIABLES pc,                \* where each thread is in its loop
          new_events,        \* what the thread in sendEvents has yet to send
          events_to_cancel,  \* what the thread in cancelEvents has yet to cancel
          state,             \* the LP's state object
          state_queue,       \* saved states, each with the event that led to it
          count,             \* events until the next state is saved
          output_queue,      \* events sent, each with the event that caused it
          generation,        \* generation_
          last_fossil_collect_gvt,
          gvt,               \* the GVT all threads see
          network            \* messages between two nodes

lpVars == <<state, state_queue, count, output_queue, generation,
            last_fossil_collect_gvt>>
toSend == <<new_events, events_to_cancel>>
engineVars == <<queues, held, pc, toSend, lpVars, gvt, network>>
vars       == <<engineVars, aborted>>

NetworkEmpty == \A link \in DOMAIN network : network[link] = <<>>

InNetwork      == UNION {ToSet(network[link]) : link \in DOMAIN network}
BeingSent      == UNION {ToSet(new_events[t]) : t \in Thread}
BeingCancelled == UNION {ToSet(events_to_cancel[t]) : t \in Worker}

Outstanding == Pending \cup InNetwork \cup BeingSent \cup BeingCancelled

-----------------------------------------------------------------------------
(* The managers' operations on the LP of the event being handled.          *)

(* saveState of the periodic state manager.                                *)
saveState(lp, event, new) ==
    IF count[lp] = 0
    THEN /\ state_queue' = [state_queue EXCEPT
                              ![lp] = Append(@, [event |-> event, state |-> new])]
         /\ count' = [count EXCEPT ![lp] = StatePeriod - 1]
    ELSE /\ count' = [count EXCEPT ![lp] = @ - 1]
         /\ UNCHANGED state_queue

(* restoreState pops the states saved at or after the straggler; the one   *)
(* it restores stays, and an assertion says that there is one.             *)
restoreState(lp, straggler) ==
    LET q == state_queue[lp]
        k == KeptBy([i \in DOMAIN q |-> q[i].event], straggler)
    IN  /\ k > 0
        /\ state_queue' = [state_queue EXCEPT ![lp] = SubSeq(q, 1, k)]
        /\ state' = [state EXCEPT ![lp] = q[k].state]

(* Faulty SentBefore: as the comment of removeEventsSentAfter says, only   *)
(* the consequences of events strictly after the straggler go.             *)
SentUntil(lp, straggler) ==
    LET q == output_queue[lp]
    IN  CHOOSE k \in 0 .. Len(q) :
            /\ k > 0 => BeforeOrSame(q[k].input, straggler)
            /\ \A i \in k + 1 .. Len(q) : After(q[i].input, straggler)

(* Faulty SentBefore: the event sent is compared, not the one that caused  *)
(* it.                                                                     *)
SentForBefore(lp, straggler) ==
    LET q == output_queue[lp]
    IN  KeptBy([i \in DOMAIN q |-> q[i].output], straggler)

(* How many of the events an LP sent a rollback leaves alone.              *)
SentBefore(lp, straggler) ==
    LET q == output_queue[lp]
    IN  KeptBy([i \in DOMAIN q |-> q[i].input], straggler)

(* The output manager's rollback: what was sent at or after the straggler  *)
(* is removed, to be cancelled in the order in which it was sent.          *)
removeEventsSentAfter(t, lp, straggler) ==
    LET q == output_queue[lp]
        k == SentBefore(lp, straggler)
    IN  /\ output_queue' = [output_queue EXCEPT ![lp] = SubSeq(q, 1, k)]
        /\ events_to_cancel' = [events_to_cancel EXCEPT
              ![t] = [i \in 1 .. Len(q) - k |-> q[k + i].output]]

(* The first state to keep: the last one older than the GVT.               *)
FirstKept(q, time) ==
    CHOOSE k \in DOMAIN q : /\ \A i \in 2 .. k : q[i].event.ts < time
                            /\ k < Len(q) => q[k + 1].event.ts >= time

(* How many of the events an LP sent were caused before `time'.            *)
SentAndPassed(q, time) ==
    CHOOSE k \in 0 .. Len(q) : /\ \A i \in 1 .. k : q[i].input.ts < time
                               /\ k < Len(q) => q[k + 1].input.ts >= time

(* Faulty fossilCollectAll: events are collected up to the GVT.            *)
CollectToGVT(lp, time) ==
    /\ output_queue' = [output_queue EXCEPT
                          ![lp] = SubSeq(@, SentAndPassed(@, time) + 1, Len(@))]
    /\ state_queue' = [state_queue EXCEPT
                         ![lp] = SubSeq(@, FirstKept(@, time), Len(@))]
    /\ fossilCollect(lp, time)

(* The three fossil collections of processEvents; the time up to which     *)
(* events go is that of the oldest state kept.                             *)
fossilCollectAll(lp, time) ==
    LET sends  == output_queue[lp]
        states == state_queue[lp]
        first  == FirstKept(states, time)
    IN  /\ output_queue' = [output_queue EXCEPT
              ![lp] = SubSeq(sends, SentAndPassed(sends, time) + 1, Len(sends))]
        /\ state_queue' = [state_queue EXCEPT
              ![lp] = SubSeq(states, first, Len(states))]
        /\ fossilCollect(lp, states[first].event.ts)

(* Faulty CoastForwarded: the restored state is left as it is.             *)
NotForwarded(lp) == state[lp]

(* coastForward: process again, from the restored state, what is left in   *)
(* the processed queue after it; what the LP sends is ignored.             *)
CoastForwarded(lp) ==
    NextStates(state[lp], getEventsForCoastForward(lp, Last(state_queue[lp]).event))

(* The parameters of sendEvents, for each of the events to be sent.        *)
Returned(source, lp, sends) ==
    [i \in DOMAIN sends |-> [source |-> source, sender |-> lp,
                             recv |-> sends[i].recv, ts |-> sends[i].ts]]

Node(lp) == Partition[lp]
Local(e) == Remote => Node(e.sender) = Node(e.recv)

(* sendLocalEvent or enqueueRemoteEvent.                                   *)
Transmit(e) ==
    IF Local(e)
    THEN insertEvent(e.recv, e) /\ UNCHANGED network
    ELSE /\ network' = [network EXCEPT ![<<Node(e.sender), Node(e.recv)>>] = Append(@, e)]
         /\ UNCHANGED queues

-----------------------------------------------------------------------------
Init == /\ initialize
        /\ held = [t \in Worker |-> NoEvent]
        /\ pc = [t \in Thread |-> IF t = Master THEN "initialize" ELSE "getEvent"]
        /\ new_events = [t \in Thread |-> <<>>]
        /\ events_to_cancel = [t \in Worker |-> <<>>]
        /\ state = [lp \in LP |-> InitialState]
        /\ state_queue = [lp \in LP |-> <<>>]
        /\ count = [lp \in LP |-> 0]
        /\ output_queue = [lp \in LP |-> <<>>]
        /\ generation = [lp \in LP |-> 0]
        /\ last_fossil_collect_gvt = [lp \in LP |-> 0]
        /\ gvt = 0
        /\ network = [link \in Scheduler \X Scheduler |-> <<>>]
        /\ aborted = FALSE

(* initialize: the LPs in order send their initial events and save their   *)
(* first state; the workers start when every message has arrived.          *)
InitializeLP(lp) ==
    /\ pc[Master] = "initialize" /\ new_events[Master] = <<>>
    /\ state_queue[lp] = <<>>
    /\ \A other \in 1 .. lp - 1 : state_queue[other] # <<>>
    /\ new_events' = [new_events EXCEPT
                        ![Master] = Returned(InitialEvent, lp, InitialSends[lp])]
    /\ saveState(lp, InitialEvent, state[lp])
    /\ UNCHANGED <<queues, held, pc, events_to_cancel, state, output_queue,
                   generation, last_fossil_collect_gvt, gvt, network>>

StartWorkers ==
    /\ pc[Master] = "initialize" /\ new_events[Master] = <<>>
    /\ \A lp \in LP : state_queue[lp] # <<>>
    /\ NetworkEmpty
    /\ pc' = [pc EXCEPT ![Master] = "running"]
    /\ UNCHANGED <<queues, held, toSend, lpVars, gvt, network>>

(* The loop of sendEvents: an event past the end of the simulation is      *)
(* dropped, any other is numbered, recorded and sent.                      *)
SendEvent(t) ==
    LET next == Head(new_events[t])
        lp   == next.sender
        e    == NewEvent(lp, next, next.source.ts, generation[lp])
    IN  /\ new_events[t] # <<>>
        /\ new_events' = [new_events EXCEPT ![t] = Tail(@)]
        /\ IF next.ts <= MaxSimTime
           THEN /\ generation' = [generation EXCEPT ![lp] = @ + 1]
                /\ output_queue' = [output_queue EXCEPT
                      ![lp] = Append(@, [input |-> next.source, output |-> e])]
                /\ Transmit(e)
           ELSE UNCHANGED <<queues, generation, output_queue, network>>
        /\ UNCHANGED <<held, pc, events_to_cancel, state, state_queue, count,
                       last_fossil_collect_gvt, gvt>>

(* The loop of cancelEvents.  What was sent is within the simulation time, *)
(* so is its anti-message.                                                 *)
SendAntiMessage(t) ==
    /\ events_to_cancel[t] # <<>>
    /\ events_to_cancel' = [events_to_cancel EXCEPT ![t] = Tail(@)]
    /\ Transmit(NegativeEvent(Head(events_to_cancel[t])))
    /\ UNCHANGED <<held, pc, new_events, lpVars, gvt>>

(* receiveEventMessage: run by the receiving node's master thread.         *)
Receive(link, i) ==
    /\ Fifo => i = 1
    /\ insertEvent(network[link][i].recv, network[link][i])
    /\ network' = [network EXCEPT ![link] = RemoveAt(@, i)]
    /\ UNCHANGED <<held, pc, toSend, lpVars, gvt>>

-----------------------------------------------------------------------------
(* processEvents.                                                          *)

(* Faulty Handle: an anti-message is received like an event.               *)
HandleAsEvent(event) == "receiveEvent"

Handle(event) == IF event.type = NEGATIVE THEN "cancelEvent" ELSE "receiveEvent"

Goto(t, l) == pc' = [pc EXCEPT ![t] = l]

GetEvent(t, event) ==
    /\ pc[Master] = "running" /\ pc[t] = "getEvent"
    /\ getEvent(t, event)
    /\ held' = [held EXCEPT ![t] = event]
    /\ Goto(t, IF IsStraggler(event.recv, event) THEN "rollback" ELSE Handle(event))
    /\ UNCHANGED <<toSend, lpVars, gvt, network>>

Rollback(t) ==
    LET event == held[t]
        lp    == event.recv
    IN  /\ pc[t] = "rollback"
        /\ rollback(lp, event)
        /\ restoreState(lp, event)
        /\ removeEventsSentAfter(t, lp, event)
        /\ Goto(t, "cancelEvents")
        /\ UNCHANGED <<held, new_events, count, generation,
                       last_fossil_collect_gvt, gvt, network>>

CoastForward(t) ==
    /\ pc[t] = "cancelEvents" /\ events_to_cancel[t] = <<>>
    /\ state' = [state EXCEPT ![held[t].recv] = CoastForwarded(held[t].recv)]
    /\ Goto(t, Handle(held[t]))
    /\ UNCHANGED <<queues, held, toSend, state_queue, count, output_queue,
                   generation, last_fossil_collect_gvt, gvt, network>>

CancelEvent(t) ==
    /\ pc[t] = "cancelEvent"
    /\ cancelEvent(held[t].recv, held[t])
    /\ held' = [held EXCEPT ![t] = NoEvent]
    /\ Goto(t, "getEvent")
    /\ UNCHANGED <<toSend, lpVars, gvt, network>>

(* The assertion of cancelEvent fails, which ends the process and with it  *)
(* the whole job.                                                          *)
Abort(t) ==
    /\ ~ aborted
    /\ pc[t] = "cancelEvent"
    /\ ~ CancelAsserts(held[t].recv, held[t])
    /\ aborted' = TRUE
    /\ UNCHANGED engineVars

(* receiveEvent and saveState; the events that the LP returns are sent     *)
(* next.                                                                   *)
ReceiveEvent(t) ==
    LET event == held[t]
        lp    == event.recv
    IN  /\ pc[t] = "receiveEvent"
        /\ state' = [state EXCEPT ![lp] = NextState(@, event)]
        /\ saveState(lp, event, NextState(state[lp], event))
        /\ new_events' = [new_events EXCEPT
                            ![t] = Returned(event, lp, Sends(lp, state[lp], event))]
        /\ Goto(t, "sendEvents")
        /\ UNCHANGED <<queues, held, events_to_cancel, output_queue, generation,
                       last_fossil_collect_gvt, gvt, network>>

FossilCollect(t) ==
    LET lp == held[t].recv
    IN  /\ pc[t] = "sendEvents" /\ new_events[t] = <<>>
        /\ IF gvt > last_fossil_collect_gvt[lp]
           THEN /\ fossilCollectAll(lp, gvt)
                /\ last_fossil_collect_gvt' = [last_fossil_collect_gvt EXCEPT ![lp] = gvt]
           ELSE UNCHANGED <<queues, output_queue, state_queue, last_fossil_collect_gvt>>
        /\ Goto(t, "replenish")
        /\ UNCHANGED <<held, toSend, state, count, generation, gvt, network>>

ReplenishScheduler(t) ==
    /\ pc[t] = "replenish"
    /\ replenishScheduler(held[t].recv)
    /\ held' = [held EXCEPT ![t] = NoEvent]
    /\ Goto(t, "getEvent")
    /\ UNCHANGED <<toSend, lpVars, gvt, network>>

-----------------------------------------------------------------------------
(* What the GVT manager promises: the GVT never passes an event that is    *)
(* pending, on its way or about to be sent.                                *)
AdvanceGVT(time) ==
    /\ pc[Master] = "running"
    /\ gvt < time
    /\ \A e \in Outstanding : time <= e.ts
    /\ gvt' = time
    /\ UNCHANGED <<queues, held, pc, toSend, lpVars, network>>

(* What the termination manager promises, and the final commit.            *)
Terminate ==
    /\ pc[Master] = "running"
    /\ Outstanding = {}
    /\ \A t \in Worker : pc[t] = "getEvent"
    /\ Goto(Master, "terminated")
    /\ UNCHANGED <<queues, held, toSend, lpVars, gvt, network>>

FinalCollect(lp) ==
    /\ pc[Master] = "terminated"
    /\ processed_queue[lp] # <<>>
    /\ fossilCollect(lp, Infinity)
    /\ UNCHANGED <<held, pc, toSend, lpVars, gvt, network>>

WorkerStep(t) == \/ \E event \in Pending : GetEvent(t, event)
                 \/ Rollback(t)
                 \/ SendAntiMessage(t)
                 \/ CoastForward(t)
                 \/ CancelEvent(t)
                 \/ ReceiveEvent(t)
                 \/ SendEvent(t)
                 \/ FossilCollect(t)
                 \/ ReplenishScheduler(t)

ReceiveStep == \E link \in DOMAIN network :
                   \E i \in DOMAIN network[link] : Receive(link, i)

MasterStep == \/ \E lp \in LP : InitializeLP(lp)
              \/ SendEvent(Master)
              \/ StartWorkers
              \/ ReceiveStep
              \/ Terminate
              \/ \E lp \in LP : FinalCollect(lp)

EngineNext == \/ \E t \in Worker : WorkerStep(t)
              \/ MasterStep
              \/ \E time \in GvtTimes : AdvanceGVT(time)

(* Steps are taken while no assertion has ended the job.                   *)
Running(Step) == ~ aborted /\ Step /\ UNCHANGED aborted

Next == \/ Running(EngineNext)
        \/ \E t \in Worker : Abort(t)

Spec == Init /\ [][Next]_vars

(* Threads loop for ever; MPI delivers every message.                      *)
Fairness == /\ \A t \in Worker : WF_vars(Running(WorkerStep(t)) \/ Abort(t))
            /\ WF_vars(Running(MasterStep))
            /\ \A link \in {l \in Scheduler \X Scheduler : l[1] # l[2]} :
                   WF_vars(Running(network[link] # <<>> /\ Receive(link, 1)))

FairSpec == Spec /\ Fairness

-----------------------------------------------------------------------------
(* Properties.                                                             *)

HandledBy(t, lp) == held[t] # NoEvent /\ held[t].recv = lp

(* Between restoring a state and coasting forward the LP is in the past.   *)
InPast(lp) == \E t \in Worker : HandledBy(t, lp) /\ pc[t] = "cancelEvents"

(* The assertions of rollback and coastForward: nothing is rolled back     *)
(* past the GVT; whatever states fossil collection removed, one saved      *)
(* strictly before the straggler is left; and nothing after the straggler  *)
(* is processed again.                                                     *)
RollbackAssertions ==
    \A t \in Worker :
        LET lp == held[t].recv
        IN  /\ pc[t] = "rollback" =>
                   /\ held[t].ts >= gvt
                   /\ \E i \in DOMAIN state_queue[lp] :
                          Before(state_queue[lp][i].event, held[t])
            /\ pc[t] = "cancelEvents" =>
                   \A e \in ToSet(getEventsForCoastForward(lp, Last(state_queue[lp]).event)) :
                       BeforeOrSame(e, held[t])

(* An event the LP received that is not in its processed queue yet.        *)
JustReceived(lp) ==
    {held[t] : t \in {u \in Worker : /\ HandledBy(u, lp)
                                     /\ pc[u] \in {"sendEvents", "replenish"}}}

(* An LP's newest saved state, and the processed events after it, amount to *)
(* the LP's state.                                                         *)
Reproduced(lp) ==
    LET saved    == Last(state_queue[lp])
        replayed == NextStates(saved.state,
                               getEventsForCoastForward(lp, saved.event))
        now      == {e \in JustReceived(lp) : After(e, saved.event)}
    IN  state[lp] = IF now = {} THEN replayed
                    ELSE NextState(replayed, CHOOSE e \in now : TRUE)

(* The newest saved state and the processed events after it always         *)
(* reproduce the LP's state, so that coasting forward after a rollback     *)
(* lands where the LP would be had the undone events never arrived: event  *)
(* fossil collection keeps every event a later rollback must replay.       *)
StateIsReproducible ==
    \A lp \in LP : ~ InPast(lp) /\ state_queue[lp] # <<>> /\ pc[Master] # "terminated" =>
        Reproduced(lp)

(* Two logs are the same as far as entries before `time' go.               *)
SameUntil(a, b, time) ==
    \A i \in DOMAIN a \cup DOMAIN b :
        \/ i \in DOMAIN a /\ a[i][1] < time
        \/ i \in DOMAIN b /\ b[i][1] < time
        => i \in DOMAIN a /\ i \in DOMAIN b /\ a[i] = b[i]

(* What the GVT has passed is exactly what the sequential simulation does: *)
(* the same events, in the same order, at every LP; and after termination  *)
(* that is everything.                                                     *)
CommittedIsSequential ==
    \A lp \in LP :
        /\ ~ InPast(lp) => SameUntil(state[lp], Sequential!SequentialState[lp], gvt)
        /\ pc[Master] = "terminated" => state[lp] = Sequential!SequentialState[lp]

(* The event that caused e is known and has been processed, and not been   *)
(* rolled back since.                                                      *)
HasCause(e) ==
    \E i \in DOMAIN output_queue[e.sender] :
        LET o == output_queue[e.sender][i]
        IN  /\ o.output = e
            /\ \/ o.input = InitialEvent
               \/ o.input \in ToSet(processed_queue[e.sender])
               \/ o.input \in JustReceived(e.sender)

(* No event outlives its cause: whatever rollbacks, anti-messages and       *)
(* fossil collections did, the cause of an event that can still be         *)
(* received or rolled back stands, or the event is being cancelled, or its *)
(* cause is committed.                                                     *)
NoOrphan ==
    pc[Master] # "terminated" =>
        \A lp \in LP : \A e \in input_queue[lp] \cup ToSet(processed_queue[lp]) :
            e.type = POSITIVE =>
                \/ HasCause(e)
                \/ NegativeEvent(e) \in Pending \cup InNetwork
                \/ e \in BeingCancelled
                \/ e.send < gvt

(* The promise the GVT managers rely on, kept with rollbacks: what a        *)
(* straggler or an anti-message makes a worker put back, send or cancel is  *)
(* not earlier than something outstanding.  The initial events have the     *)
(* time at which they are sent as their cause.                              *)
OutstandingTimes == {e.ts : e \in Outstanding}
                    \cup (IF pc[Master] = "initialize" THEN {InitialEvent.ts} ELSE {})
Service == INSTANCE GVTService WITH Nodes <- Scheduler,
                                    outstanding <- OutstandingTimes,
                                    gvt <- [n \in Scheduler |-> gvt]
ImplementsGVTService == Service!Spec

(* "We assume that if we have a negative message, then we also have the    *)
(* positive message either in the input queue or in the processed queue":  *)
(* the assertion of cancelEvent that relies on it never fails.             *)
CancelAssertionHolds == ~ aborted

(* An event whose cause the GVT has passed is never cancelled: output      *)
(* fossil collection and rollback agree on what is committed.              *)
CommittedIsNotCancelled ==
    [][\A t \in Worker : pc[t] = "rollback" /\ pc'[t] = "cancelEvents" =>
           \A e \in ToSet(events_to_cancel'[t]) : e.send >= gvt]_vars

(* What removeEventsSentAfter says of itself: the events it removes are    *)
(* those caused by events "STRICTLY GREATER than the straggler event".     *)
OnlyLaterIsCancelled ==
    [][\A t \in Worker : pc[t] = "rollback" /\ pc'[t] = "cancelEvents" =>
           LET lp == held[t].recv
           IN  \A o \in ToSet(output_queue[lp]) \ ToSet(output_queue'[lp]) :
                   After(o.input, held[t])]_vars

(* A rollback undoes the consequences of events that came too early, never *)
(* the straggler it makes room for: what LogicalProcess.hpp lets a model   *)
(* send, "Events must not be created with a timestamp less than the        *)
(* current simulation time", is sorted after the event that caused it.     *)
StragglerIsNotUndone ==
    \A t \in Worker : pc[t] = "cancelEvents" =>
        held[t] \notin ToSet(events_to_cancel[t])

(* Speculation ends: however events straggle, every message is received,   *)
(* every wrong event cancelled, and the simulation terminates.             *)
EventuallyTerminates == <>(pc[Master] = "terminated")
=============================================================================
