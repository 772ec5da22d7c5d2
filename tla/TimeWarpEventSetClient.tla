------------------------ MODULE TimeWarpEventSetClient ------------------------
(***************************************************************************)
(* The most general client of the event set: any thread may insert at any  *)
(* time, and a worker that took an event rolls its LP back if it has to,   *)
(* then cancels or replenishes, as the NOTEs of TimeWarpEventSet.cpp and   *)
(* the rules of processEvents demand.  The steps of                        *)
(* TimeWarpEventDispatcher are checked to be steps of this client.         *)
(***************************************************************************)
EXTENDS TimeWarpEventSet

CONSTANT Message   \* the positive events that may be sent

ASSUME MessageAssumption ==
    /\ Infinity \in Nat
    /\ Message \subseteq {e \in Event : /\ e.type = POSITIVE
                                        /\ e.recv \in LP
                                        /\ e.ts < Infinity}

VARIABLES sent,     \* events and anti-messages inserted so far
          horizon   \* the GVT: nothing earlier is inserted any more

eventSetVars == <<queues, held, sent, horizon>>
clientVars   == <<eventSetVars, aborted>>

Sendable == Message \cup {NegativeEvent(m) : m \in Message}

ClientInit == /\ initialize
              /\ held = [t \in Worker |-> NoEvent]
              /\ sent = {}
              /\ horizon = 0
              /\ aborted = FALSE

(* An event or an anti-message arrives.  The generation number tells it    *)
(* from every event that came before; an anti-message may overtake its     *)
(* event on the way.                                                       *)
Insert(event) ==
    /\ event \notin sent
    /\ event.ts >= horizon
    /\ sent' = sent \cup {event}
    /\ Distinct(sent')
    /\ insertEvent(event.recv, event)
    /\ UNCHANGED <<held, horizon>>

ClientGetEvent(t, event) ==
    /\ held[t] = NoEvent
    /\ getEvent(t, event)
    /\ held' = [held EXCEPT ![t] = event]
    /\ UNCHANGED <<sent, horizon>>

ClientRollback(t, event) ==
    /\ held[t] = event
    /\ IsStraggler(event.recv, event)
    /\ rollback(event.recv, event)
    /\ UNCHANGED <<held, sent, horizon>>

ClientCancelEvent(t, event) ==
    /\ held[t] = event
    /\ event.type = NEGATIVE
    /\ ~ IsStraggler(event.recv, event)
    /\ cancelEvent(event.recv, event)
    /\ held' = [held EXCEPT ![t] = NoEvent]
    /\ UNCHANGED <<sent, horizon>>

(* The assertion of cancelEvent fails: nothing is behind the anti-message. *)
ClientAbort(t, event) ==
    /\ held[t] = event
    /\ event.type = NEGATIVE
    /\ ~ IsStraggler(event.recv, event)
    /\ ~ CancelAsserts(event.recv, event)
    /\ aborted' = TRUE
    /\ UNCHANGED eventSetVars

ClientFossilCollect(t, event, time) ==
    /\ held[t] = event
    /\ event.type = POSITIVE
    /\ ~ IsStraggler(event.recv, event)
    /\ time <= horizon
    /\ fossilCollect(event.recv, time)
    /\ UNCHANGED <<held, sent, horizon>>

ClientReplenishScheduler(t, event) ==
    /\ held[t] = event
    /\ event.type = POSITIVE
    /\ ~ IsStraggler(event.recv, event)
    /\ replenishScheduler(event.recv)
    /\ held' = [held EXCEPT ![t] = NoEvent]
    /\ UNCHANGED <<sent, horizon>>

(* The GVT may become any time no pending event precedes.                  *)
AdvanceHorizon(h) ==
    /\ horizon < h
    /\ \A e \in Pending : h <= e.ts
    /\ horizon' = h
    /\ UNCHANGED <<queues, held, sent>>

(* After termination everything that is left is committed.                 *)
ClientFinalCollect(lp) ==
    /\ horizon = Infinity
    /\ \A t \in Worker : held[t] = NoEvent
    /\ fossilCollect(lp, Infinity)
    /\ UNCHANGED <<held, sent, horizon>>

ClientWorkerStep(t) ==
    \E event \in Pending : \/ ClientGetEvent(t, event)
                           \/ ClientRollback(t, event)
                           \/ ClientCancelEvent(t, event)
                           \/ ClientReplenishScheduler(t, event)

Times == {InitialEvent.ts, Infinity} \cup {e.ts : e \in Message}

ClientStep ==
    \/ \E e \in Sendable : Insert(e)
    \/ \E t \in Worker : ClientWorkerStep(t)
    \/ \E t \in Worker, e \in Pending, time \in Times : ClientFossilCollect(t, e, time)
    \/ \E h \in Times : AdvanceHorizon(h)
    \/ \E lp \in LP : ClientFinalCollect(lp)

(* An assertion that fails ends the process, and with it every thread.     *)
ClientNext ==
    /\ ~ aborted
    /\ \/ ClientStep /\ UNCHANGED aborted
       \/ \E t \in Worker, e \in Pending : ClientAbort(t, e)

ClientSpec == ClientInit /\ [][ClientNext]_clientVars

(* A worker's loop never stops while there is something in its queue.      *)
ClientFairStep(t) ==
    /\ ~ aborted
    /\ \/ ClientWorkerStep(t) /\ UNCHANGED aborted
       \/ \E e \in Pending : ClientAbort(t, e)
ClientFairSpec == ClientSpec /\ \A t \in Worker : WF_clientVars(ClientFairStep(t))

-----------------------------------------------------------------------------
(* Properties.                                                             *)

Held == {held[t] : t \in Worker} \ {NoEvent}

(* The shape of the event set's state; queues are per LP, a processed      *)
(* queue holds positive events only.                                       *)
TypeOK ==
    /\ input_queue \in [LP -> SUBSET Event]
    /\ processed_queue \in [LP -> Seq(Event)]
    /\ scheduled_event_pointer \in [LP -> Event \cup {NoEvent}]
    /\ schedule_queue \in [Scheduler -> SUBSET Event]
    /\ input_queue_scheduler_map \in [LP -> Scheduler]
    /\ held \in [Worker -> Event \cup {NoEvent}]
    /\ sent \in SUBSET Event
    /\ horizon \in Nat

(* An LP has a scheduled event exactly when it has pending events, and the *)
(* scheduled event is one of them (the assertion of insertEvent and the    *)
(* erase of replenishScheduler rely on it).                                *)
PointerNamesPending ==
    \A lp \in LP :
        /\ scheduled_event_pointer[lp] = NoEvent <=> input_queue[lp] = {}
        /\ input_queue[lp] # {} => scheduled_event_pointer[lp] \in input_queue[lp]

(* What a schedule queue or a worker has is the scheduled event of an LP,  *)
(* and it is the queue the LP is mapped to.                                *)
QueuedIsScheduled ==
    \A s \in Scheduler : \A e \in schedule_queue[s] :
        /\ e.recv \in LP
        /\ e = scheduled_event_pointer[e.recv]
        /\ s = input_queue_scheduler_map[e.recv]
        /\ e \notin Held
HeldIsScheduled ==
    \A e \in Held : e.recv \in LP /\ e = scheduled_event_pointer[e.recv]
HeldByOneWorker ==
    \A t, u \in Worker : held[t] = held[u] /\ held[t] # NoEvent => t = u
ScheduledIsSomewhere ==
    \A lp \in LP : input_queue[lp] # {} =>
        \/ scheduled_event_pointer[lp] \in schedule_queue[input_queue_scheduler_map[lp]]
        \/ scheduled_event_pointer[lp] \in Held

(* The scheduled event of an LP is in exactly one place: in the schedule   *)
(* queue the LP is mapped to, or in the hands of one worker; neither a     *)
(* queue nor a worker has anything else.  So no LP is ever processed by    *)
(* two workers, and none drops out of scheduling.                          *)
ScheduledOnce == /\ QueuedIsScheduled
                 /\ HeldIsScheduled
                 /\ HeldByOneWorker
                 /\ ScheduledIsSomewhere

(* While no worker holds an LP's event, its scheduled event is its least:  *)
(* an insertion that comes before it has replaced it.                      *)
LeastIsScheduled ==
    \A lp \in LP :
        \/ input_queue[lp] = {}
        \/ scheduled_event_pointer[lp] \in Held
        \/ IsFirst(scheduled_event_pointer[lp], input_queue[lp])

(* Events of an LP are processed in the order of operator<, with nothing   *)
(* processed twice.                                                        *)
ProcessedInOrder ==
    \A lp \in LP : \A i, j \in DOMAIN processed_queue[lp] :
        i < j => Before(processed_queue[lp][i], processed_queue[lp][j])

Processed(lp) == {processed_queue[lp][i] : i \in DOMAIN processed_queue[lp]}

(* Rule 2 of processEvents: whenever an anti-message waits in an input     *)
(* queue and its event has arrived, the event is pending or processed at   *)
(* the same LP, also after fossil collection.                              *)
AntiMessageHasTarget ==
    \A lp \in LP : \A e \in input_queue[lp] :
        e.type = NEGATIVE /\ PositiveEvent(e) \in sent =>
            PositiveEvent(e) \in input_queue[lp] \cup Processed(lp)

(* An anti-message that overtook its event waits for it.                   *)
EarlyAntiMessageWaits ==
    \A e \in sent : e.type = NEGATIVE /\ PositiveEvent(e) \notin sent =>
        e \in input_queue[e.recv]

(* The clauses of CancelFindsItsEvent.                                     *)
CancelFindsIfSent ==
    \A e \in Held : e.type = NEGATIVE /\ ~ IsStraggler(e.recv, e) =>
        IF PositiveEvent(e) \in sent
        THEN CancelFinds(e.recv, e) /\ Successor(e.recv, e) = PositiveEvent(e)
        ELSE ~ CancelFinds(e.recv, e)
AbortsOnlyEarly ==
    aborted => \E e \in Held : /\ e.type = NEGATIVE
                               /\ PositiveEvent(e) \notin sent
                               /\ ~ CancelAsserts(e.recv, e)

(* Rule 2 of processEvents as far as it holds.  When a worker is about to  *)
(* cancel and the event has arrived, the assertion of cancelEvent holds,   *)
(* the event is found and it is what gets erased.  If the anti-message has *)
(* overtaken its event the assertion may fail, and if it holds nothing is  *)
(* erased in the place of the event.  So no process is aborted but because *)
(* of an anti-message whose event is missing and that has nothing behind   *)
(* it in the input queue.                                                  *)
CancelFindsItsEvent ==
    /\ CancelFindsIfSent
    /\ AbortsOnlyEarly

(* The clauses of NoEventLost.                                             *)
NotInBothQueues ==
    \A lp \in LP : input_queue[lp] \cap Processed(lp) = {}
UncancelledIsKept ==
    \A e \in sent \cap Message :
        NegativeEvent(e) \notin sent /\ e.ts >= horizon =>
            e \in input_queue[e.recv] \cup Processed(e.recv)
CancelledIsGone ==
    \A e \in sent \cap Message :
        NegativeEvent(e) \in sent \ input_queue[e.recv] =>
            e \notin input_queue[e.recv] \cup Processed(e.recv)

(* No event is lost or duplicated, whatever interleaving of insertions,    *)
(* rollbacks and cancellations: an uncancelled event the GVT has not       *)
(* passed is in exactly one of its receiver's two queues, and one whose    *)
(* anti-message is gone is in neither.                                     *)
NoEventLost == NotInBothQueues /\ UncancelledIsKept /\ CancelledIsGone

(* The queues hold what was sent to their LP, all of it different for the  *)
(* order of the queues; nothing pending precedes the GVT.                  *)
QueuesHoldSent ==
    /\ sent \subseteq Sendable
    /\ Distinct(sent)
    /\ \A lp \in LP : input_queue[lp] \subseteq {e \in sent : e.recv = lp}
    /\ \A lp \in LP : Processed(lp) \subseteq {e \in sent \cap Message : e.recv = lp}
PendingNotBeforeHorizon ==
    \A lp \in LP : \A e \in input_queue[lp] : e.ts >= horizon

(* The inductive invariant.                                                *)
IInv == /\ TypeOK
        /\ QueuesHoldSent
        /\ PendingNotBeforeHorizon
        /\ PointerNamesPending
        /\ ScheduledOnce
        /\ LeastIsScheduled
        /\ ProcessedInOrder
        /\ NoEventLost
        /\ AntiMessageHasTarget
        /\ EarlyAntiMessageWaits

(* Nothing before the GVT returns to an input queue (the assertion of the  *)
(* dispatcher: "We have major problems if we are rolling back past the     *)
(* GVT").                                                                  *)
NoRollbackPastHorizon ==
    [][\A lp \in LP : \A e \in input_queue'[lp] \ input_queue[lp] :
           e.ts >= horizon]_clientVars

(* Anti-messages that overtook their events and wait for them.             *)
Early == {e \in Pending : e.type = NEGATIVE /\ PositiveEvent(e) \notin sent}

(* Workers drain the event set: once every anti-message's event has come,  *)
(* nothing stays pending.  While one is missing its LP is rescheduled over *)
(* and over as long as an event is behind the anti-message; if none is the *)
(* process is aborted, and that is the only other way a run may end.       *)
EventuallyDrained == <>aborted \/ (<>[](Early = {}) => <>[](Pending = {}))
=============================================================================
