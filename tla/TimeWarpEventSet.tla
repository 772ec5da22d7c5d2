--------------------------- MODULE TimeWarpEventSet ---------------------------
(***************************************************************************)
(* The pending event set of one node (TimeWarpEventSet.cpp): per LP an     *)
(* input queue, a processed queue and a pointer to its scheduled event;    *)
(* per scheduler a queue holding at most one event of each LP.  The input  *)
(* queue lock of an LP covers insertEvent, rollback, cancelEvent,          *)
(* startScheduling and replenishScheduler, so each of them is one step;    *)
(* getEvent takes the schedule queue lock only.                            *)
(*                                                                         *)
(* This module holds the operations; TimeWarpEventSetClient uses them in   *)
(* every way the NOTEs of the source allow, TimeWarpEventDispatcher the    *)
(* way processEvents does.                                                 *)
(***************************************************************************)
EXTENDS WarpedEvent, Sequences

CONSTANTS NumLPs,          \* num_of_lps_
          NumSchedulers,   \* num_of_schedulers_
          NumWorkers,      \* num_of_worker_threads
          Partition,       \* the scheduler each LP starts on
          LpMigration,     \* is_lp_migration_on_
          Infinity         \* (unsigned int)-1, later than every event

LP        == 1 .. NumLPs
Scheduler == 0 .. NumSchedulers - 1
Worker    == 0 .. NumWorkers - 1

ASSUME SizesAssumption == /\ NumLPs \in Nat \ {0}
                          /\ NumSchedulers \in Nat \ {0}
                          /\ NumWorkers \in Nat \ {0}
ASSUME PartitionAssumption == Partition \in [LP -> Scheduler]
ASSUME MigrationAssumption == LpMigration \in BOOLEAN

VARIABLES input_queue,               \* input_queue_
          processed_queue,           \* processed_queue_, smallest first
          scheduled_event_pointer,   \* scheduled_event_pointer_
          schedule_queue,            \* schedule_queue_
          input_queue_scheduler_map, \* input_queue_scheduler_map_
          held,                      \* the event each worker is handling
          aborted                    \* an assertion has ended the process

queues == <<input_queue, processed_queue, scheduled_event_pointer,
            schedule_queue, input_queue_scheduler_map>>

Pending == UNION {input_queue[lp] : lp \in LP}

-----------------------------------------------------------------------------
(* Operations.                                                             *)

worker_thread_scheduler_map(t) == t % NumSchedulers

initialize ==
    /\ input_queue = [lp \in LP |-> {}]
    /\ processed_queue = [lp \in LP |-> <<>>]
    /\ scheduled_event_pointer = [lp \in LP |-> NoEvent]
    /\ schedule_queue = [s \in Scheduler |-> {}]
    /\ input_queue_scheduler_map = Partition

(* Put the first pending event of an LP that has none scheduled into queue *)
(* s, or record that the LP has nothing left.                              *)
Schedule(lp, pending, s) ==
    IF pending = {}
    THEN /\ scheduled_event_pointer' = [scheduled_event_pointer EXCEPT ![lp] = NoEvent]
         /\ UNCHANGED schedule_queue
    ELSE /\ scheduled_event_pointer' = [scheduled_event_pointer EXCEPT ![lp] = First(pending)]
         /\ schedule_queue' = [schedule_queue EXCEPT ![s] = @ \cup {First(pending)}]

(* Faulty insertEvent: a smaller event does not replace the scheduled one. *)
InsertWithoutReplacing(lp, event) ==
    /\ input_queue' = [input_queue EXCEPT ![lp] = @ \cup {event}]
    /\ IF scheduled_event_pointer[lp] = NoEvent
       THEN Schedule(lp, {event}, input_queue_scheduler_map[lp])
       ELSE UNCHANGED <<scheduled_event_pointer, schedule_queue>>
    /\ UNCHANGED <<processed_queue, input_queue_scheduler_map>>

(* Faulty insertEvent: the result of the erase from the schedule queue is  *)
(* ignored, so an event that a worker holds is replaced as well.           *)
InsertReplacingHeld(lp, event) ==
    LET pending == input_queue[lp] \cup {event}
        s       == input_queue_scheduler_map[lp]
    IN  /\ input_queue' = [input_queue EXCEPT ![lp] = pending]
        /\ scheduled_event_pointer' =
              [scheduled_event_pointer EXCEPT ![lp] = First(pending)]
        /\ schedule_queue' = [schedule_queue EXCEPT
              ![s] = (@ \ {scheduled_event_pointer[lp]}) \cup {First(pending)}]
        /\ UNCHANGED <<processed_queue, input_queue_scheduler_map>>

(* The event replaces the scheduled one if it is smaller, but only while   *)
(* the scheduled one is still in its schedule queue: once a worker holds   *)
(* it, the worker reschedules the LP itself and a rollback follows.        *)
insertEvent(lp, event) ==
    LET pending   == input_queue[lp] \cup {event}
        s         == input_queue_scheduler_map[lp]
        scheduled == scheduled_event_pointer[lp]
        replace   == First(pending) # scheduled /\ scheduled \in schedule_queue[s]
    IN  /\ input_queue' = [input_queue EXCEPT ![lp] = pending]
        /\ IF scheduled = NoEvent
           THEN Schedule(lp, {event}, s)
           ELSE IF replace
           THEN /\ scheduled_event_pointer' =
                     [scheduled_event_pointer EXCEPT ![lp] = First(pending)]
                /\ schedule_queue' = [schedule_queue EXCEPT
                     ![s] = (@ \ {scheduled}) \cup {First(pending)}]
           ELSE UNCHANGED <<scheduled_event_pointer, schedule_queue>>
        /\ UNCHANGED <<processed_queue, input_queue_scheduler_map>>

(* The event leaves the schedule queue only; it stays in the input queue   *)
(* and the pointer keeps naming it.                                        *)
getEvent(t, event) ==
    LET s == worker_thread_scheduler_map(t)
    IN  /\ IsFirst(event, schedule_queue[s])
        /\ schedule_queue' = [schedule_queue EXCEPT ![s] = @ \ {event}]
        /\ UNCHANGED <<input_queue, processed_queue, scheduled_event_pointer,
                       input_queue_scheduler_map>>

lastProcessedEvent(lp) == LET p == processed_queue[lp]
                          IN  IF p = <<>> THEN NoEvent ELSE p[Len(p)]

(* Faulty KeptBy: one event too many is popped.                            *)
KeptWithOneLess(p, straggler) ==
    CHOOSE k \in 0 .. Len(p) :
        /\ k < Len(p) => Before(p[k + 1], straggler) \/ k = 0
        /\ \A i \in k + 2 .. Len(p) : SameOrAfter(p[i], straggler)

(* How many processed events a rollback keeps: events are popped from the  *)
(* back for as long as the last one is not before the straggler.           *)
KeptBy(p, straggler) ==
    CHOOSE k \in 0 .. Len(p) :
        /\ k > 0 => Before(p[k], straggler)
        /\ \A i \in k + 1 .. Len(p) : SameOrAfter(p[i], straggler)

(* Faulty rollback: the loop looks at an event after it has put it back.   *)
RollbackOneMore(lp, straggler) ==
    LET p == processed_queue[lp]
        k == KeptBy(p, straggler)
    IN  /\ processed_queue' = [processed_queue EXCEPT ![lp] = SubSeq(p, 1, k - 1)]
        /\ input_queue' = [input_queue EXCEPT
                             ![lp] = @ \cup {p[i] : i \in DOMAIN p \cap (k .. Len(p))}]
        /\ UNCHANGED <<scheduled_event_pointer, schedule_queue,
                       input_queue_scheduler_map>>

rollback(lp, straggler) ==
    LET p == processed_queue[lp]
        k == KeptBy(p, straggler)
    IN  /\ processed_queue' = [processed_queue EXCEPT ![lp] = SubSeq(p, 1, k)]
        /\ input_queue' = [input_queue EXCEPT
                             ![lp] = @ \cup {p[i] : i \in k + 1 .. Len(p)}]
        /\ UNCHANGED <<scheduled_event_pointer, schedule_queue,
                       input_queue_scheduler_map>>

(* How many processed events coasting forward leaves alone: it goes back   *)
(* from the last one to the first that does not come after `restored'.     *)
CoastedOver(p, restored) ==
    CHOOSE k \in 0 .. Len(p) :
        /\ k > 0 => ~ After(p[k], restored)
        /\ \A i \in k + 1 .. Len(p) : After(p[i], restored)

(* The events to reprocess after the state of `restored' was restored.     *)
getEventsForCoastForward(lp, restored) ==
    LET p == processed_queue[lp]
    IN  SubSeq(p, CoastedOver(p, restored) + 1, Len(p))

(* What cancelEvent asserts before it looks at the event behind the        *)
(* anti-message: there is one.  If not the process ends there.             *)
CancelAsserts(lp, neg) == \E e \in input_queue[lp] : compareEvents(neg, e)

(* The anti-message and its successor in the input queue go if they match. *)
Successor(lp, neg)   == First({e \in input_queue[lp] : compareEvents(neg, e)})
CancelFinds(lp, neg) == /\ CancelAsserts(lp, neg)
                        /\ SameEvent(Successor(lp, neg), neg)
(* Faulty AfterCancel: only the anti-message is erased.                    *)
CancelLeavesEvent(lp, neg) == input_queue[lp] \ {neg}

AfterCancel(lp, neg) == IF CancelFinds(lp, neg)
                        THEN input_queue[lp] \ {neg, Successor(lp, neg)}
                        ELSE input_queue[lp]

(* Faulty cancelEvent: startScheduling is forgotten.                       *)
CancelWithoutSchedule(lp, neg) ==
    /\ CancelAsserts(lp, neg)
    /\ input_queue' = [input_queue EXCEPT ![lp] = AfterCancel(lp, neg)]
    /\ UNCHANGED <<scheduled_event_pointer, schedule_queue, processed_queue,
                   input_queue_scheduler_map>>

(* cancelEvent and startScheduling under one hold of the input queue lock. *)
cancelEvent(lp, neg) ==
    /\ CancelAsserts(lp, neg)
    /\ input_queue' = [input_queue EXCEPT ![lp] = AfterCancel(lp, neg)]
    /\ Schedule(lp, AfterCancel(lp, neg), input_queue_scheduler_map[lp])
    /\ UNCHANGED <<processed_queue, input_queue_scheduler_map>>

(* Faulty replenishScheduler: the LP migrates after its next event has     *)
(* been put into the queue of its old scheduler.                           *)
ReplenishOldScheduler(lp) ==
    LET done    == scheduled_event_pointer[lp]
        pending == input_queue[lp] \ {done}
    IN  /\ input_queue' = [input_queue EXCEPT ![lp] = pending]
        /\ processed_queue' = [processed_queue EXCEPT ![lp] = Append(@, done)]
        /\ Schedule(lp, pending, input_queue_scheduler_map[lp])
        /\ input_queue_scheduler_map' = [input_queue_scheduler_map EXCEPT
                                           ![lp] = (@ + 1) % NumSchedulers]

(* The scheduled event has been processed: it changes queue, the LP moves  *)
(* to the next scheduler if migration is on, and its next event is         *)
(* scheduled there.                                                        *)
replenishScheduler(lp) ==
    LET done    == scheduled_event_pointer[lp]
        pending == input_queue[lp] \ {done}
        s       == IF LpMigration
                   THEN (input_queue_scheduler_map[lp] + 1) % NumSchedulers
                   ELSE input_queue_scheduler_map[lp]
    IN  /\ input_queue' = [input_queue EXCEPT ![lp] = pending]
        /\ processed_queue' = [processed_queue EXCEPT ![lp] = Append(@, done)]
        /\ input_queue_scheduler_map' = [input_queue_scheduler_map EXCEPT ![lp] = s]
        /\ Schedule(lp, pending, s)

(* Drop processed events older than `time', but never the last one; at the *)
(* end of the simulation `time' is infinite and all of them go.            *)
CollectedBy(p, time) ==
    CHOOSE k \in 0 .. Len(p) :
        /\ k < Len(p) \/ p = <<>>
        /\ \A i \in 1 .. k : p[i].ts < time
        /\ k + 1 < Len(p) => p[k + 1].ts >= time

fossilCollect(lp, time) ==
    LET p == processed_queue[lp]
    IN  /\ processed_queue' = [processed_queue EXCEPT
            ![lp] = IF time = Infinity
                    THEN <<>> ELSE SubSeq(p, CollectedBy(p, time) + 1, Len(p))]
        /\ UNCHANGED <<input_queue, scheduled_event_pointer, schedule_queue,
                       input_queue_scheduler_map>>

(* Faulty IsStraggler: only receive times are compared.                    *)
StragglesInTime(lp, event) ==
    /\ lastProcessedEvent(lp) # NoEvent
    /\ event.ts < lastProcessedEvent(lp).ts

(* Faulty IsStraggler: the anti-message of the last event is not counted.  *)
StragglesBefore(lp, event) ==
    /\ lastProcessedEvent(lp) # NoEvent
    /\ Before(event, lastProcessedEvent(lp))

(* The condition under which the dispatcher rolls an LP back before it     *)
(* handles the event it took.                                              *)
IsStraggler(lp, event) ==
    LET last == lastProcessedEvent(lp)
    IN  /\ last # NoEvent
        /\ \/ Before(event, last)
           \/ SameEvent(event, last) /\ event.type = NEGATIVE
=============================================================================
