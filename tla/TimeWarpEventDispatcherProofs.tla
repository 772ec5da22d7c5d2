--------------------- MODULE TimeWarpEventDispatcherProofs ---------------------
(***************************************************************************)
(* The safety of the optimistic engine for every number of LPs, schedulers *)
(* and workers, every partition, with and without LP migration, on one     *)
(* node or several, over a network that reorders, with any state period    *)
(* and any simulation model that obeys LogicalProcess.hpp.                 *)
(***************************************************************************)
EXTENDS TimeWarpEventDispatcherRefinement, WellFoundedInduction, TLAPS

(***************************************************************************)
(* The event set, for its most general client: every set of messages, any  *)
(* thread inserting at any time.                                           *)
(***************************************************************************)
-----------------------------------------------------------------------------
(* The event orders of WarpedEvent, for every event.                       *)

(* A null pointer is not an event.                                         *)
LEMMA NoEventIsNoEvent == NoEvent \notin Event
  <1> SUFFICES ASSUME NoEvent \in Event PROVE FALSE
    OBVIOUS
  <1>1. DOMAIN NoEvent = {"none"}
    BY DEF NoEvent
  <1>2. "ts" \in DOMAIN NoEvent
    BY DEF Event
  <1> QED
    BY <1>1, <1>2

(* operator< is irreflexive and transitive.                                *)
LEMMA BeforeIsStrictOrder ==
  ASSUME NEW a \in Event, NEW b \in Event, NEW c \in Event
  PROVE  /\ ~ Before(a, a)
         /\ Before(a, b) => ~ Before(b, a)
         /\ Before(a, b) /\ Before(b, c) => Before(a, c)
  BY DEF Before, Event

(* operator< is total up to operator==, and the two exclude each other, so *)
(* operator>= is "not less" and operator> is "not less or equal" without   *)
(* a case left over.                                                       *)
LEMMA BeforeIsTotal ==
  ASSUME NEW a \in Event, NEW b \in Event
  PROVE  /\ Before(a, b) \/ Before(b, a) \/ SameEvent(a, b)
         /\ SameEvent(a, b) => ~ Before(a, b) /\ ~ Before(b, a)
         /\ After(a, b) <=> Before(b, a)
  BY DEF Before, SameEvent, BeforeOrSame, After, Event

(* compareEvents is a strict weak ordering, which std::multiset demands.   *)
LEMMA compareEventsIsStrictOrder ==
  ASSUME NEW a \in Event, NEW b \in Event, NEW c \in Event
  PROVE  /\ ~ compareEvents(a, a)
         /\ compareEvents(a, b) => ~ compareEvents(b, a)
         /\ compareEvents(a, b) /\ compareEvents(b, c) => compareEvents(a, c)
         /\ compareEvents(a, b) \/ compareEvents(b, a)
              \/ (SameEvent(a, b) /\ a.type = b.type)
  BY DEF compareEvents, Before, SameEvent, Event, NEGATIVE, POSITIVE

(* Nothing sorts between an anti-message and the event it cancels, so the  *)
(* successor that cancelEvent inspects is that event if it is there.       *)
LEMMA AntiMessageIsAdjacent ==
  ASSUME NEW p \in Event, p.type = POSITIVE, NEW e \in Event
  PROVE  /\ NegativeEvent(p) \in Event
         /\ compareEvents(NegativeEvent(p), p)
         /\ compareEvents(NegativeEvent(p), e) /\ compareEvents(e, p) => FALSE
  BY DEF compareEvents, Before, SameEvent, NegativeEvent, Event, NEGATIVE, POSITIVE

(* The initial state's event precedes every event that is received after   *)
(* time zero or has a named sender: it is always there to restore.         *)
LEMMA InitialEventIsFirst ==
  ASSUME NEW e \in Event, e.ts > 0 \/ e.sender > 0
  PROVE  InitialEvent \in Event /\ Before(InitialEvent, e)
  BY DEF InitialEvent, Before, Event, NEGATIVE, POSITIVE

-----------------------------------------------------------------------------
(* Minima.                                                                 *)

LEMMA NatMinimum ==
  ASSUME NEW T \in SUBSET Nat, T # {}
  PROVE  \E m \in T : \A n \in T : m <= n
  <1>1. PICK m \in T : \A n \in T : ~ (<<n, m>> \in OpToRel(<, Nat))
    BY NatLessThanWellFounded, WFMin
  <1>2. \A n \in T : ~ (n < m)
    BY <1>1 DEF OpToRel
  <1> QED
    BY <1>2

(* A nonempty queue has a first event: *begin() is well defined.           *)
LEMMA FirstIsFirst ==
  ASSUME NEW S \in SUBSET Event, S # {}, Distinct(S)
  PROVE  First(S) \in S /\ IsFirst(First(S), S)
  <1>1. PICK t \in {e.ts : e \in S} : \A n \in {e.ts : e \in S} : t <= n
    <2>1. {e.ts : e \in S} \in SUBSET Nat /\ {e.ts : e \in S} # {}
      BY DEF Event
    <2> QED
      BY <2>1, NatMinimum
  <1> DEFINE S1 == {e \in S : e.ts = t}
  <1>2. PICK s \in {e.send : e \in S1} : \A n \in {e.send : e \in S1} : s <= n
    <2>1. {e.send : e \in S1} \in SUBSET Nat /\ {e.send : e \in S1} # {}
      BY <1>1 DEF Event
    <2> QED
      BY <2>1, NatMinimum
  <1> DEFINE S2 == {e \in S1 : e.send = s}
  <1>3. PICK n \in {e.sender : e \in S2} : \A m \in {e.sender : e \in S2} : n <= m
    <2>1. {e.sender : e \in S2} \in SUBSET Nat /\ {e.sender : e \in S2} # {}
      BY <1>2 DEF Event
    <2> QED
      BY <2>1, NatMinimum
  <1> DEFINE S3 == {e \in S2 : e.sender = n}
  <1>4. PICK g \in {e.gen : e \in S3} : \A m \in {e.gen : e \in S3} : g <= m
    <2>1. {e.gen : e \in S3} \in SUBSET Nat /\ {e.gen : e \in S3} # {}
      BY <1>3 DEF Event
    <2> QED
      BY <2>1, NatMinimum
  <1> DEFINE S4 == {e \in S3 : e.gen = g}
  <1>5. PICK y \in {e.type : e \in S4} : \A m \in {e.type : e \in S4} : y <= m
    <2>1. {e.type : e \in S4} \in SUBSET Nat /\ {e.type : e \in S4} # {}
      BY <1>4 DEF Event, NEGATIVE, POSITIVE
    <2> QED
      BY <2>1, NatMinimum
  <1>6. PICK e \in S4 : e.type = y
    BY <1>5
  <1>7. ASSUME NEW f \in S, f # e
        PROVE  compareEvents(e, f)
    <2>1. /\ e.ts = t /\ e.send = s /\ e.sender = n /\ e.gen = g
          /\ e \in S /\ e \in Event /\ f \in Event
      BY <1>6
    <2>2. ~ (SameEvent(e, f) /\ e.type = f.type)
      BY <1>7, <2>1 DEF Distinct
    <2>3. t <= f.ts
      BY <1>1
    <2>4. CASE f.ts # t
      BY <2>1, <2>3, <2>4 DEF compareEvents, Before, Event
    <2>5. CASE f.ts = t /\ f.send # s
      <3>1. s <= f.send
        BY <1>2, <2>5
      <3> QED
        BY <2>1, <2>5, <3>1 DEF compareEvents, Before, Event
    <2>6. CASE f.ts = t /\ f.send = s /\ f.sender # n
      <3>1. n <= f.sender
        BY <1>3, <2>6
      <3> QED
        BY <2>1, <2>6, <3>1 DEF compareEvents, Before, Event
    <2>7. CASE f.ts = t /\ f.send = s /\ f.sender = n /\ f.gen # g
      <3>1. g <= f.gen
        BY <1>4, <2>7
      <3> QED
        BY <2>1, <2>7, <3>1 DEF compareEvents, Before, Event
    <2>8. CASE f.ts = t /\ f.send = s /\ f.sender = n /\ f.gen = g
      <3>1. y <= f.type
        BY <1>5, <2>8
      <3>2. SameEvent(e, f) /\ e.type # f.type
        BY <2>1, <2>2, <2>8 DEF SameEvent
      <3> QED
        BY <1>6, <2>1, <3>1, <3>2 DEF compareEvents, Event, NEGATIVE, POSITIVE
    <2> QED
      BY <2>4, <2>5, <2>6, <2>7, <2>8
  <1>8. e \in S /\ IsFirst(e, S)
    BY <1>6, <1>7 DEF IsFirst
  <1> QED
    BY <1>8 DEF First

(* The first event of a queue is unique.                                   *)
LEMMA FirstIsUnique ==
  ASSUME NEW S \in SUBSET Event, NEW e \in S, IsFirst(e, S), Distinct(S)
  PROVE  First(S) = e
  <1>1. IsFirst(First(S), S) /\ First(S) \in S
    BY FirstIsFirst
  <1>2. ASSUME First(S) # e PROVE FALSE
    BY <1>1, <1>2, compareEventsIsStrictOrder DEF IsFirst
  <1> QED
    BY <1>2

-----------------------------------------------------------------------------
(* The processed queue.                                                    *)

(* How far a rollback pops.                                                *)
LEMMA KeptByIsDefined ==
  ASSUME NEW p \in Seq(Event), NEW straggler \in Event
  PROVE  /\ KeptBy(p, straggler) \in 0 .. Len(p)
         /\ KeptBy(p, straggler) > 0 => Before(p[KeptBy(p, straggler)], straggler)
         /\ \A i \in KeptBy(p, straggler) + 1 .. Len(p) : SameOrAfter(p[i], straggler)
  <1> DEFINE Stop(k) == k = 0 \/ Before(p[k], straggler)
             T == {n \in 0 .. Len(p) : Stop(Len(p) - n)}
  <1>1. PICK m \in T : \A n \in T : m <= n
    <2>1. T \in SUBSET Nat /\ Len(p) \in T
      OBVIOUS
    <2> QED
      BY <2>1, NatMinimum
  <1> DEFINE k == Len(p) - m
  <1>2. k \in 0 .. Len(p) /\ Stop(k)
    OBVIOUS
  <1>3. ASSUME NEW i \in k + 1 .. Len(p) PROVE SameOrAfter(p[i], straggler)
    <2>1. Len(p) - i \notin T
      BY <1>1
    <2>2. Len(p) - (Len(p) - i) = i /\ Len(p) - i \in 0 .. Len(p)
      OBVIOUS
    <2> QED
      BY <2>1, <2>2 DEF SameOrAfter
  <1>4. /\ k > 0 => Before(p[k], straggler)
        /\ \A i \in k + 1 .. Len(p) : SameOrAfter(p[i], straggler)
    BY <1>2, <1>3
  <1> HIDE DEF k
  <1> QED
    BY <1>2, <1>4 DEF KeptBy

(* What fossil collection drops: a prefix of old events, never all of them.*)
LEMMA CollectedByIsDefined ==
  ASSUME NEW p \in Seq(Event), NEW time \in Nat
  PROVE  /\ CollectedBy(p, time) \in 0 .. Len(p)
         /\ CollectedBy(p, time) < Len(p) \/ p = <<>>
         /\ \A i \in 1 .. CollectedBy(p, time) : p[i].ts < time
  <1> DEFINE Stop(k) == k + 1 >= Len(p) \/ p[k + 1].ts >= time
             T == {k \in 0 .. Len(p) : Stop(k) /\ (k < Len(p) \/ p = <<>>)}
  <1>1. PICK k \in T : \A n \in T : k <= n
    <2>1. T \in SUBSET Nat
      OBVIOUS
    <2>2. CASE p = <<>>
      <3>1. 0 \in T
        BY <2>2
      <3> QED
        BY <2>1, <3>1, NatMinimum
    <2>3. CASE p # <<>>
      <3>1. Len(p) \in Nat \ {0}
        BY <2>3
      <3>2. Len(p) - 1 \in T
        BY <3>1
      <3> QED
        BY <2>1, <3>2, NatMinimum
    <2> QED
      BY <2>2, <2>3
  <1>2. ASSUME NEW i \in 1 .. k PROVE p[i].ts < time
    <2>0. k \in 0 .. Len(p) /\ Len(p) \in Nat
      BY <1>1
    <2>1. i - 1 \in 0 .. Len(p) /\ i - 1 < k /\ i - 1 < Len(p) /\ i \in 1 .. Len(p)
      BY <2>0
    <2>2. ~ Stop(i - 1)
      <3>1. i - 1 \notin T
        BY <1>1, <2>0, <2>1
      <3> QED
        BY <2>1, <3>1
    <2>5. ~ (p[i].ts >= time)
      BY <2>1, <2>2
    <2>3. p[i] \in Event
      BY <2>1
    <2>4. p[i].ts \in Nat
      BY <2>3 DEF Event
    <2> QED
      BY <2>4, <2>5
  <1>3. k + 1 < Len(p) => p[k + 1].ts >= time
    BY <1>1
  <1> QED
    BY <1>1, <1>2, <1>3 DEF CollectedBy

-----------------------------------------------------------------------------
(* The messages.                                                           *)

LEMMA SendableFacts ==
  ASSUME NEW e \in Sendable
  PROVE  /\ e \in Event
         /\ e.recv \in LP
         /\ e.ts < Infinity
         /\ PositiveEvent(e) \in Message
         /\ PositiveEvent(e).recv = e.recv
         /\ PositiveEvent(e).ts = e.ts
         /\ SameEvent(PositiveEvent(e), e)
         /\ e.type = POSITIVE => e \in Message /\ e = PositiveEvent(e)
         /\ e.type = NEGATIVE => e = NegativeEvent(PositiveEvent(e))
  <1>1. CASE e \in Message
    <2>1. e \in Event /\ e.type = POSITIVE /\ e.recv \in LP /\ e.ts < Infinity
      BY <1>1, MessageAssumption
    <2>2. PositiveEvent(e) = e
      BY <2>1 DEF PositiveEvent, Event
    <2> QED
      BY <1>1, <2>1, <2>2 DEF SameEvent, NEGATIVE, POSITIVE
  <1>2. ASSUME NEW m \in Message, e = NegativeEvent(m)
        PROVE  /\ e \in Event
               /\ e.recv \in LP /\ e.ts < Infinity
               /\ PositiveEvent(e) = m /\ m \in Message
               /\ m.recv = e.recv /\ m.ts = e.ts
               /\ SameEvent(m, e)
               /\ e.type # POSITIVE
               /\ e = NegativeEvent(m)
    <2>1. m \in Event /\ m.type = POSITIVE /\ m.recv \in LP /\ m.ts < Infinity
      BY MessageAssumption
    <2>2. e \in Event /\ e.type = NEGATIVE /\ PositiveEvent(e) = m
      BY <1>2, <2>1 DEF NegativeEvent, PositiveEvent, Event, NEGATIVE, POSITIVE
    <2> QED
      BY <1>2, <2>1, <2>2 DEF NegativeEvent, SameEvent, Event, NEGATIVE, POSITIVE
  <1> QED
    BY <1>1, <1>2 DEF Sendable

LEMMA MessageFacts ==
  ASSUME NEW m \in Message
  PROVE  /\ m \in Event /\ m.type = POSITIVE /\ m.recv \in LP /\ m.ts < Infinity
         /\ m \in Sendable
         /\ PositiveEvent(m) = m
         /\ NegativeEvent(m) \in Sendable
         /\ NegativeEvent(m).type = NEGATIVE
         /\ NegativeEvent(m).recv = m.recv
         /\ NegativeEvent(m).ts = m.ts
         /\ NegativeEvent(m) # m
         /\ PositiveEvent(NegativeEvent(m)) = m
  <1>1. m \in Event /\ m.type = POSITIVE /\ m.recv \in LP /\ m.ts < Infinity
    BY MessageAssumption
  <1>2. m \in Sendable /\ NegativeEvent(m) \in Sendable
    BY DEF Sendable
  <1>3. PositiveEvent(m) = m
    BY <1>1 DEF PositiveEvent, Event
  <1>4. /\ NegativeEvent(m).type = NEGATIVE
        /\ NegativeEvent(m).recv = m.recv
        /\ NegativeEvent(m).ts = m.ts
        /\ NegativeEvent(m) # m
    BY <1>1 DEF NegativeEvent, Event, NEGATIVE, POSITIVE
  <1>5. PositiveEvent(NegativeEvent(m)) = m
    BY <1>1 DEF NegativeEvent, PositiveEvent, Event
  <1> QED
    BY <1>1, <1>2, <1>3, <1>4, <1>5

(* The kernel's order sorts any set of events that were sent.              *)
LEMMA SentIsDistinct ==
  ASSUME QueuesHoldSent, NEW S \in SUBSET sent
  PROVE  S \in SUBSET Sendable /\ S \in SUBSET Event /\ Distinct(S)
  BY SendableFacts DEF QueuesHoldSent, Distinct

-----------------------------------------------------------------------------
(* Consequences of the invariant used by every step.                       *)

(* What a queue holds is sendable, its own LP's, and ordered.              *)
LEMMA QueueFacts ==
  ASSUME TypeOK, QueuesHoldSent, NEW lp \in LP
  PROVE  /\ input_queue[lp] \in SUBSET Sendable
         /\ input_queue[lp] \in SUBSET Event
         /\ Distinct(input_queue[lp])
         /\ \A e \in input_queue[lp] : e.recv = lp /\ e \in sent
         /\ processed_queue[lp] \in Seq(Event)
         /\ Processed(lp) \in SUBSET Event
         /\ \A e \in Processed(lp) : e.recv = lp /\ e \in sent /\ e \in Message
  <1>1. input_queue[lp] \in SUBSET sent
    BY DEF QueuesHoldSent
  <1> QED
    BY <1>1, SentIsDistinct DEF TypeOK, QueuesHoldSent

(* The scheduled event of an LP is its own, and that of no other LP.       *)
LEMMA PointerFacts ==
  ASSUME TypeOK, QueuesHoldSent, PointerNamesPending, NEW lp \in LP,
         scheduled_event_pointer[lp] # NoEvent
  PROVE  /\ scheduled_event_pointer[lp] \in input_queue[lp]
         /\ scheduled_event_pointer[lp] \in Sendable
         /\ scheduled_event_pointer[lp] \in Event
         /\ scheduled_event_pointer[lp].recv = lp
         /\ \A l \in LP : scheduled_event_pointer[l] = scheduled_event_pointer[lp] => l = lp
  <1>1. ASSUME NEW l \in LP, scheduled_event_pointer[l] # NoEvent
        PROVE  /\ scheduled_event_pointer[l] \in input_queue[l]
               /\ scheduled_event_pointer[l] \in Sendable
               /\ scheduled_event_pointer[l] \in Event
               /\ scheduled_event_pointer[l].recv = l
    BY <1>1, QueueFacts DEF PointerNamesPending
  <1> QED
    BY <1>1

LEMMA InitInv == ClientInit => IInv
  <1> SUFFICES ASSUME ClientInit PROVE IInv
    OBVIOUS
  <1> USE DEF ClientInit, initialize
  <1>1. TypeOK
    BY SizesAssumption, PartitionAssumption DEF TypeOK
  <1>2. \A lp \in LP : Processed(lp) = {}
    BY DEF Processed
  <1>3. QueuesHoldSent /\ PendingNotBeforeHorizon /\ NoEventLost
    BY <1>2 DEF QueuesHoldSent, Distinct, PendingNotBeforeHorizon, NoEventLost,
                NotInBothQueues, UncancelledIsKept, CancelledIsGone
  <1>4. PointerNamesPending /\ LeastIsScheduled /\ ProcessedInOrder
        /\ AntiMessageHasTarget /\ EarlyAntiMessageWaits
    BY DEF PointerNamesPending, LeastIsScheduled, ProcessedInOrder,
           AntiMessageHasTarget, EarlyAntiMessageWaits
  <1>5. ScheduledOnce
    BY DEF ScheduledOnce, QueuedIsScheduled, HeldIsScheduled, HeldByOneWorker,
           ScheduledIsSomewhere, Held
  <1> QED
    BY <1>1, <1>3, <1>4, <1>5 DEF IInv

LEMMA InsertInv ==
  ASSUME IInv, NEW e \in Sendable, Insert(e)
  PROVE  IInv'
  <1> DEFINE lp      == e.recv
             s       == input_queue_scheduler_map[lp]
             old     == scheduled_event_pointer[lp]
             pending == input_queue[lp] \cup {e}
             new     == First(pending)
  <1> USE DEF IInv
  <1>1. /\ e \in Event /\ e.recv \in LP /\ lp \in LP /\ s \in Scheduler
        /\ e \notin sent /\ e.ts >= horizon /\ sent' = sent \cup {e}
        /\ held' = held /\ horizon' = horizon
        /\ processed_queue' = processed_queue
        /\ input_queue_scheduler_map' = input_queue_scheduler_map
        /\ input_queue' = [input_queue EXCEPT ![lp] = pending]
        /\ Held' = Held
    BY SendableFacts DEF Insert, insertEvent, TypeOK, Held
  <1>2. /\ input_queue[lp] \in SUBSET Sendable /\ pending \in SUBSET Sendable
        /\ pending \in SUBSET Event
        /\ new \in pending /\ IsFirst(new, pending)
    <2>1. input_queue[lp] \in SUBSET Sendable /\ input_queue[lp] \in SUBSET sent
      BY QueueFacts, <1>1
    <2>2. pending \in SUBSET Sendable /\ pending # {} /\ pending \in SUBSET sent'
      BY <1>1, <2>1
    <2>3. pending \in SUBSET Event /\ Distinct(pending)
      BY <1>1, <2>2, SendableFacts DEF Insert, Distinct
    <2>4. new \in pending /\ IsFirst(new, pending)
      BY <2>2, <2>3, FirstIsFirst
    <2> QED
      BY <2>1, <2>2, <2>3, <2>4
  <1>3. \A l \in LP : Processed(l)' = Processed(l)
    BY <1>1 DEF Processed
  <1>4. \A l \in LP : /\ input_queue'[l] = IF l = lp THEN pending ELSE input_queue[l]
                      /\ e \notin input_queue[l] /\ e \notin Processed(l)
    BY <1>1, QueueFacts DEF TypeOK
  (* The three ways the schedule can change. *)
  <1>5. \/ /\ old = NoEvent /\ input_queue[lp] = {} /\ new = e
           /\ scheduled_event_pointer' = [scheduled_event_pointer EXCEPT ![lp] = new]
           /\ schedule_queue' = [schedule_queue EXCEPT ![s] = @ \cup {new}]
        \/ /\ old \in input_queue[lp] /\ old \in schedule_queue[s] /\ new # old
           /\ scheduled_event_pointer' = [scheduled_event_pointer EXCEPT ![lp] = new]
           /\ schedule_queue' = [schedule_queue EXCEPT ![s] = (@ \ {old}) \cup {new}]
        \/ /\ old \in input_queue[lp] /\ (new = old \/ old \notin schedule_queue[s])
           /\ scheduled_event_pointer' = scheduled_event_pointer
           /\ schedule_queue' = schedule_queue
    <2>1. CASE old = NoEvent
      <3>1. input_queue[lp] = {} /\ pending = {e}
        BY <1>1, <2>1 DEF PointerNamesPending
      <3>2. Schedule(lp, {e}, s)
        BY <2>1 DEF Insert, insertEvent
      <3> QED
        BY <2>1, <3>1, <3>2, <1>2 DEF Schedule
    <2>2. CASE old # NoEvent
      <3>1. old \in input_queue[lp]
        BY <1>1, <2>2 DEF PointerNamesPending
      <3> QED
        BY <2>2, <3>1 DEF Insert, insertEvent
    <2> QED
      BY <2>1, <2>2
  <1> HIDE DEF pending, new
  <1>6. TypeOK'
    <2>1. pending \in SUBSET Event /\ new \in Event /\ sent' \in SUBSET Event
      BY <1>1, <1>2 DEF TypeOK
    <2>2. scheduled_event_pointer' \in [LP -> Event \cup {NoEvent}]
      <3>1. scheduled_event_pointer \in [LP -> Event \cup {NoEvent}]
        BY DEF TypeOK
      <3>2. \/ scheduled_event_pointer' = scheduled_event_pointer
            \/ scheduled_event_pointer' = [scheduled_event_pointer EXCEPT ![lp] = new]
        BY <1>5
      <3> QED
        BY <2>1, <3>1, <3>2
    <2>3. schedule_queue' \in [Scheduler -> SUBSET Event]
      <3>1. schedule_queue \in [Scheduler -> SUBSET Event]
        BY DEF TypeOK
      <3>2. CASE schedule_queue' = schedule_queue
        BY <3>1, <3>2
      <3>3. CASE schedule_queue' = [schedule_queue EXCEPT ![s] = @ \cup {new}]
        BY <2>1, <3>1, <3>3
      <3>4. CASE schedule_queue' = [schedule_queue EXCEPT ![s] = (@ \ {old}) \cup {new}]
        BY <2>1, <3>1, <3>4
      <3> QED
        BY <1>5, <3>2, <3>3, <3>4
    <2>4. input_queue' \in [LP -> SUBSET Event]
      BY <1>1, <2>1 DEF TypeOK
    <2> QED
      BY <1>1, <2>1, <2>2, <2>3, <2>4 DEF TypeOK
  <1>7. QueuesHoldSent'
    <2>1. sent' \subseteq Sendable /\ Distinct(sent)'
      BY <1>1 DEF QueuesHoldSent, Insert, Distinct
    <2>2. \A l \in LP : input_queue'[l] \subseteq {f \in sent' : f.recv = l}
      BY <1>1, <1>4 DEF QueuesHoldSent, pending
    <2>3. \A l \in LP : Processed(l)' \subseteq {f \in sent' \cap Message : f.recv = l}
      BY <1>1, <1>3 DEF QueuesHoldSent
    <2> QED
      BY <2>1, <2>2, <2>3 DEF QueuesHoldSent
  <1>8. PendingNotBeforeHorizon'
    BY <1>1, <1>4 DEF PendingNotBeforeHorizon, pending
  <1>9. PointerNamesPending'
    <2>1. ASSUME NEW l \in LP, l # lp
          PROVE  /\ input_queue'[l] = input_queue[l]
                 /\ scheduled_event_pointer'[l] = scheduled_event_pointer[l]
      BY <1>4, <1>5, <2>1 DEF TypeOK
    <2>2. scheduled_event_pointer'[lp] \in pending /\ scheduled_event_pointer'[lp] # NoEvent
      BY <1>1, <1>2, <1>5, NoEventIsNoEvent DEF TypeOK, pending
    <2> QED
      BY <1>1, <1>4, <2>1, <2>2 DEF PointerNamesPending
  <1>10. QueuedIsScheduled'
    <2> SUFFICES ASSUME NEW q \in Scheduler, NEW f \in schedule_queue'[q]
                 PROVE  /\ f.recv \in LP
                        /\ f = scheduled_event_pointer'[f.recv]
                        /\ q = input_queue_scheduler_map[f.recv]
                        /\ f \notin Held
      BY <1>1 DEF QueuedIsScheduled
    <2>1. CASE f \in schedule_queue[q] /\ f # old
      <3>1. f.recv \in LP /\ f = scheduled_event_pointer[f.recv]
            /\ q = input_queue_scheduler_map[f.recv] /\ f \notin Held
        BY <2>1 DEF ScheduledOnce, QueuedIsScheduled
      <3>2. f.recv # lp
        BY <3>1, <2>1
      <3> QED
        BY <1>1, <1>5, <3>1, <3>2 DEF TypeOK
    <2>2. CASE f = old
      <3>1. f # NoEvent
        BY <1>6, NoEventIsNoEvent DEF TypeOK
      <3>2. f.recv = lp
        BY <1>1, <2>2, <3>1, PointerFacts
      <3>3. f \in schedule_queue[q] => q = s
        BY <1>1, <3>2 DEF ScheduledOnce, QueuedIsScheduled
      <3>4. CASE old \in schedule_queue[s] /\ new # old
        <4>1. \/ f \in (schedule_queue[s] \ {old}) \cup {new}
              \/ f \in schedule_queue[q] /\ q # s
          BY <1>1, <1>5, <2>2, <3>1, <3>4 DEF TypeOK
        <4> QED
          BY <2>2, <3>3, <3>4, <4>1
      <3>5. CASE schedule_queue' = schedule_queue /\ scheduled_event_pointer' = scheduled_event_pointer
        BY <1>1, <3>5 DEF ScheduledOnce, QueuedIsScheduled
      <3> QED
        BY <1>5, <2>2, <3>1, <3>4, <3>5
    <2>3. CASE f \notin schedule_queue[q] /\ f # old
      <3>1. f = new /\ q = s /\ scheduled_event_pointer' = [scheduled_event_pointer EXCEPT ![lp] = new]
        BY <1>1, <1>5, <2>3 DEF TypeOK
      <3>2. f.recv = lp
        BY <1>1, <1>2, <3>1, QueueFacts DEF pending
      <3>3. f \notin Held
        BY <2>3, <3>2, <1>1 DEF ScheduledOnce, HeldIsScheduled
      <3> QED
        BY <1>1, <3>1, <3>2, <3>3 DEF TypeOK
    <2> QED
      BY <2>1, <2>2, <2>3
  <1>11. HeldIsScheduled'
    <2> SUFFICES ASSUME NEW f \in Held
                 PROVE  f.recv \in LP /\ f = scheduled_event_pointer'[f.recv]
      BY <1>1 DEF HeldIsScheduled
    <2>1. f.recv \in LP /\ f = scheduled_event_pointer[f.recv]
      BY DEF ScheduledOnce, HeldIsScheduled
    <2>2. f # NoEvent
      BY DEF Held
    <2>3. CASE f.recv = lp
      <3>1. old \notin schedule_queue[s]
        BY <1>1, <2>1, <2>3 DEF ScheduledOnce, QueuedIsScheduled
      <3> QED
        BY <1>5, <2>1, <2>2, <2>3, <3>1
    <2>4. CASE f.recv # lp
      BY <1>1, <1>5, <2>1, <2>4 DEF TypeOK
    <2> QED
      BY <2>3, <2>4
  <1>12. HeldByOneWorker'
    BY <1>1 DEF ScheduledOnce, HeldByOneWorker
  <1>13. ScheduledIsSomewhere' /\ LeastIsScheduled'
    <2>1. ASSUME NEW l \in LP, l # lp
          PROVE  /\ input_queue'[l] = input_queue[l]
                 /\ scheduled_event_pointer'[l] = scheduled_event_pointer[l]
                 /\ scheduled_event_pointer[l] \in schedule_queue[input_queue_scheduler_map[l]]
                       /\ input_queue[l] # {}
                    => scheduled_event_pointer[l] \in schedule_queue'[input_queue_scheduler_map[l]]
      <3>1. input_queue'[l] = input_queue[l]
            /\ scheduled_event_pointer'[l] = scheduled_event_pointer[l]
        BY <1>4, <1>5, <2>1 DEF TypeOK
      <3>2. ASSUME input_queue[l] # {} PROVE scheduled_event_pointer[l] # old
        BY <1>1, <2>1, <3>2, PointerFacts DEF PointerNamesPending
      <3>3. ASSUME NEW q \in Scheduler, NEW f \in schedule_queue[q], f # old
            PROVE  f \in schedule_queue'[q]
        <4>1. CASE schedule_queue' = schedule_queue
          BY <4>1, <3>3
        <4>2. CASE schedule_queue' = [schedule_queue EXCEPT ![s] = @ \cup {new}]
          BY <3>3, <4>2 DEF TypeOK
        <4>3. CASE schedule_queue' = [schedule_queue EXCEPT ![s] = (@ \ {old}) \cup {new}]
          BY <3>3, <4>3 DEF TypeOK
        <4> QED
          BY <1>5, <4>1, <4>2, <4>3
      <3>4. input_queue_scheduler_map[l] \in Scheduler
        BY DEF TypeOK
      <3> QED
        BY <3>1, <3>2, <3>3, <3>4
    <2>2. \/ scheduled_event_pointer'[lp] \in schedule_queue'[s]
             /\ IsFirst(scheduled_event_pointer'[lp], pending)
          \/ scheduled_event_pointer'[lp] \in Held
      <3>1. CASE old \in Held
        <4>1. old # NoEvent /\ old \notin schedule_queue[s]
          BY <1>1, <3>1 DEF ScheduledOnce, QueuedIsScheduled, Held
        <4> QED
          BY <1>5, <3>1, <4>1
      <3>2. CASE old \notin Held
        <4>1. old \in input_queue[lp] => old \in schedule_queue[s]
          BY <1>1, <3>2 DEF ScheduledOnce, ScheduledIsSomewhere
        <4> QED
          BY <1>1, <1>2, <1>5, <4>1 DEF TypeOK
      <3> QED
        BY <3>1, <3>2
    <2>3. ScheduledIsSomewhere'
      BY <1>1, <1>4, <2>1, <2>2 DEF ScheduledOnce, ScheduledIsSomewhere
    <2>4. LeastIsScheduled'
      BY <1>1, <1>4, <2>1, <2>2 DEF LeastIsScheduled
    <2> QED
      BY <2>3, <2>4
  <1>14. ProcessedInOrder'
    BY <1>1 DEF ProcessedInOrder
  <1>15. NoEventLost'
    <2>1. NotInBothQueues'
      BY <1>3, <1>4 DEF NoEventLost, NotInBothQueues, pending
    <2>2. UncancelledIsKept'
      BY <1>1, <1>3, <1>4, MessageFacts DEF NoEventLost, UncancelledIsKept, pending
    <2>3. CancelledIsGone'
      <3> SUFFICES ASSUME NEW f \in sent' \cap Message,
                          NegativeEvent(f) \in sent' \ input_queue'[f.recv]
                   PROVE  f \notin input_queue'[f.recv] \cup Processed(f.recv)
        BY <1>3, MessageFacts DEF CancelledIsGone
      <3>1. NegativeEvent(f).recv = f.recv /\ f.recv \in LP
        BY MessageFacts
      <3>2. NegativeEvent(f) # e /\ NegativeEvent(f) \in sent \ input_queue[f.recv]
        BY <1>1, <1>4, <3>1 DEF pending
      <3>3. f \in sent
        BY <3>1, <3>2, MessageFacts DEF EarlyAntiMessageWaits
      <3>4. f # e
        BY <1>1, <3>3
      <3> QED
        BY <1>4, <3>1, <3>2, <3>3, <3>4 DEF NoEventLost, CancelledIsGone, pending
    <2> QED
      BY <2>1, <2>2, <2>3 DEF NoEventLost
  <1>16. AntiMessageHasTarget'
    <2> SUFFICES ASSUME NEW l \in LP, NEW f \in input_queue'[l], f.type = NEGATIVE,
                        PositiveEvent(f) \in sent'
                 PROVE  PositiveEvent(f) \in input_queue'[l] \cup Processed(l)
      BY <1>3 DEF AntiMessageHasTarget
    <2>1. CASE f \in input_queue[l] /\ PositiveEvent(f) \in sent
      BY <1>4, <2>1 DEF AntiMessageHasTarget, pending
    <2>2. CASE f \in input_queue[l] /\ PositiveEvent(f) \notin sent
      <3>1. PositiveEvent(f) = e /\ l = lp
        BY <1>1, <2>2, QueueFacts, SendableFacts
      <3> QED
        BY <1>4, <3>1 DEF pending
    <2>3. CASE f \notin input_queue[l]
      <3>1. f = e /\ l = lp
        BY <1>4, <2>3 DEF pending
      <3>2. PositiveEvent(e) \in Message /\ PositiveEvent(e).recv = lp
            /\ PositiveEvent(e).ts >= horizon
            /\ NegativeEvent(PositiveEvent(e)) \notin sent
        BY <1>1, <3>1, SendableFacts
      <3>3. PositiveEvent(e) \in sent
        BY <1>1, <3>1, <3>2, MessageFacts DEF NEGATIVE, POSITIVE
      <3>4. PositiveEvent(e) \in input_queue[lp] \cup Processed(lp)
        BY <3>2, <3>3 DEF NoEventLost, UncancelledIsKept
      <3> QED
        BY <1>4, <3>1, <3>4 DEF pending
    <2> QED
      BY <2>1, <2>2, <2>3
  <1>17. EarlyAntiMessageWaits'
    BY <1>1, <1>4, SendableFacts DEF EarlyAntiMessageWaits, QueuesHoldSent, pending
  <1> QED
    BY <1>6, <1>7, <1>8, <1>9, <1>10, <1>11, <1>12, <1>13, <1>14, <1>15, <1>16, <1>17
       DEF ScheduledOnce

LEMMA GetEventInv ==
  ASSUME IInv, NEW t \in Worker, NEW e \in Pending, ClientGetEvent(t, e)
  PROVE  IInv'
  <1> DEFINE s == worker_thread_scheduler_map(t)
  <1> USE DEF IInv
  <1>1. s \in Scheduler
    BY SizesAssumption DEF worker_thread_scheduler_map, Scheduler, Worker
  <1>2. /\ e \in schedule_queue[s] /\ held[t] = NoEvent
        /\ schedule_queue' = [schedule_queue EXCEPT ![s] = @ \ {e}]
        /\ held' = [held EXCEPT ![t] = e]
        /\ input_queue' = input_queue /\ processed_queue' = processed_queue
        /\ scheduled_event_pointer' = scheduled_event_pointer
        /\ input_queue_scheduler_map' = input_queue_scheduler_map
        /\ sent' = sent /\ horizon' = horizon
    BY DEF ClientGetEvent, getEvent, IsFirst
  <1>3. /\ e \in Event /\ e # NoEvent
        /\ e.recv \in LP /\ e = scheduled_event_pointer[e.recv]
        /\ s = input_queue_scheduler_map[e.recv] /\ e \notin Held
    BY <1>1, <1>2, NoEventIsNoEvent
       DEF TypeOK, ScheduledOnce, QueuedIsScheduled
  <1>4. Held' = Held \cup {e}
    BY <1>2, <1>3 DEF Held, TypeOK
  <1>5. TypeOK'
    <2>1. schedule_queue' \in [Scheduler -> SUBSET Event]
      BY <1>1, <1>2 DEF TypeOK
    <2>2. held' \in [Worker -> Event \cup {NoEvent}]
      BY <1>2, <1>3 DEF TypeOK
    <2> QED
      BY <1>2, <2>1, <2>2 DEF TypeOK
  <1>6. \A l \in LP : Processed(l)' = Processed(l)
    BY <1>2 DEF Processed
  <1>7. QueuesHoldSent' /\ PendingNotBeforeHorizon' /\ PointerNamesPending'
        /\ ProcessedInOrder' /\ AntiMessageHasTarget' /\ EarlyAntiMessageWaits'
        /\ NoEventLost'
    BY <1>2, <1>6, MessageFacts DEF QueuesHoldSent, PendingNotBeforeHorizon, PointerNamesPending,
         ProcessedInOrder, AntiMessageHasTarget, EarlyAntiMessageWaits, NoEventLost,
         NotInBothQueues, UncancelledIsKept, CancelledIsGone
  <1>8. QueuedIsScheduled'
    <2> SUFFICES ASSUME NEW q \in Scheduler, NEW f \in schedule_queue'[q]
                 PROVE  f \in schedule_queue[q] /\ f # e
      BY <1>2, <1>4 DEF ScheduledOnce, QueuedIsScheduled
    <2>1. f \in schedule_queue[q]
      BY <1>1, <1>2 DEF TypeOK
    <2>2. ASSUME f = e PROVE FALSE
      <3>1. q = s
        BY <1>3, <2>1, <2>2 DEF ScheduledOnce, QueuedIsScheduled
      <3> QED
        BY <1>1, <1>2, <2>2, <3>1 DEF TypeOK
    <2> QED
      BY <2>1, <2>2
  <1>9. HeldIsScheduled'
    BY <1>2, <1>3, <1>4 DEF ScheduledOnce, HeldIsScheduled
  <1>10. HeldByOneWorker'
    <2> SUFFICES ASSUME NEW u \in Worker, NEW v \in Worker,
                        held'[u] = held'[v], held'[u] # NoEvent
                 PROVE  u = v
      BY DEF HeldByOneWorker
    <2>1. \A w \in Worker : held[w] # e
      BY <1>3 DEF Held
    <2> QED
      BY <1>2, <2>1 DEF TypeOK, ScheduledOnce, HeldByOneWorker
  <1>11. ScheduledIsSomewhere'
    <2> SUFFICES ASSUME NEW l \in LP, input_queue[l] # {},
                        scheduled_event_pointer[l] \notin Held \cup {e}
                 PROVE  scheduled_event_pointer[l] \in
                            schedule_queue'[input_queue_scheduler_map[l]]
      BY <1>2, <1>4 DEF ScheduledIsSomewhere
    <2>1. scheduled_event_pointer[l] \in schedule_queue[input_queue_scheduler_map[l]]
      BY DEF ScheduledOnce, ScheduledIsSomewhere
    <2>2. input_queue_scheduler_map[l] \in Scheduler
      BY DEF TypeOK
    <2> QED
      BY <1>1, <1>2, <2>1, <2>2 DEF TypeOK
  <1>12. LeastIsScheduled'
    BY <1>2, <1>4 DEF LeastIsScheduled
  <1> QED
    BY <1>5, <1>7, <1>8, <1>9, <1>10, <1>11, <1>12 DEF ScheduledOnce

(* The held event of an LP.                                                *)
LEMMA HeldFacts ==
  ASSUME IInv, NEW t \in Worker, NEW e \in Pending, held[t] = e
  PROVE  /\ e \in Held /\ e # NoEvent
         /\ e.recv \in LP
         /\ e = scheduled_event_pointer[e.recv]
         /\ e \in input_queue[e.recv]
         /\ e \in Sendable /\ e \in Event /\ e \in sent
         /\ e.ts >= horizon
  <1>1. PICK l \in LP : e \in input_queue[l]
    BY DEF Pending
  <1>2. e \in Event /\ e \in Sendable /\ e # NoEvent
    BY <1>1, QueueFacts, NoEventIsNoEvent DEF IInv
  <1>3. e \in Held
    BY <1>2 DEF Held
  <1>4. e.recv \in LP /\ e = scheduled_event_pointer[e.recv]
    BY <1>3 DEF IInv, ScheduledOnce, HeldIsScheduled
  <1>5. e \in input_queue[e.recv]
    BY <1>2, <1>4, PointerFacts DEF IInv
  <1> QED
    BY <1>2, <1>3, <1>4, <1>5, QueueFacts DEF IInv, PendingNotBeforeHorizon

(* A worker gives its event up and schedules the LP's first pending event. *)
LEMMA RescheduleInv ==
  ASSUME IInv, NEW t \in Worker, NEW e \in Pending, held[t] = e,
         NEW pending \in SUBSET input_queue[e.recv], NEW s \in Scheduler,
         input_queue' = [input_queue EXCEPT ![e.recv] = pending],
         Schedule(e.recv, pending, s),
         input_queue_scheduler_map' = [input_queue_scheduler_map EXCEPT ![e.recv] = s],
         held' = [held EXCEPT ![t] = NoEvent]
  PROVE  /\ scheduled_event_pointer' \in [LP -> Event \cup {NoEvent}]
         /\ schedule_queue' \in [Scheduler -> SUBSET Event]
         /\ input_queue_scheduler_map' \in [LP -> Scheduler]
         /\ held' \in [Worker -> Event \cup {NoEvent}]
         /\ PointerNamesPending'
         /\ ScheduledOnce'
         /\ LeastIsScheduled'
  <1> DEFINE lp  == e.recv
             new == First(pending)
  <1> USE DEF IInv
  <1>1. /\ e \in Held /\ e # NoEvent /\ lp \in LP
        /\ e = scheduled_event_pointer[lp] /\ e \in input_queue[lp]
    BY HeldFacts
  <1>2. /\ pending \in SUBSET Sendable /\ pending \in SUBSET Event
        /\ \A f \in pending : f.recv = lp /\ f # NoEvent
        /\ pending # {} => new \in pending /\ IsFirst(new, pending)
    <2>1. pending \in SUBSET Sendable
      BY <1>1, QueueFacts
    <2> QED
      BY <1>1, <2>1, QueueFacts, FirstIsFirst, NoEventIsNoEvent DEF Distinct
  <1> HIDE DEF new
  <1>3. Held' = Held \ {e}
    BY <1>1 DEF Held, TypeOK, ScheduledOnce, HeldByOneWorker
  <1>4. \/ /\ pending = {}
           /\ scheduled_event_pointer' = [scheduled_event_pointer EXCEPT ![lp] = NoEvent]
           /\ schedule_queue' = schedule_queue
        \/ /\ pending # {}
           /\ scheduled_event_pointer' = [scheduled_event_pointer EXCEPT ![lp] = new]
           /\ schedule_queue' = [schedule_queue EXCEPT ![s] = @ \cup {new}]
    BY DEF Schedule, new
  <1>5. scheduled_event_pointer' \in [LP -> Event \cup {NoEvent}]
    BY <1>1, <1>2, <1>4 DEF TypeOK
  <1>6. schedule_queue' \in [Scheduler -> SUBSET Event]
    BY <1>2, <1>4 DEF TypeOK
  <1>7. input_queue_scheduler_map' \in [LP -> Scheduler]
    BY <1>1 DEF TypeOK
  <1>8. held' \in [Worker -> Event \cup {NoEvent}]
    BY DEF TypeOK
  <1>9. ASSUME NEW l \in LP
        PROVE  /\ input_queue'[l] = IF l = lp THEN pending ELSE input_queue[l]
               /\ scheduled_event_pointer'[l] =
                    IF l = lp THEN (IF pending = {} THEN NoEvent ELSE new)
                              ELSE scheduled_event_pointer[l]
               /\ input_queue_scheduler_map'[l] =
                    IF l = lp THEN s ELSE input_queue_scheduler_map[l]
    BY <1>1, <1>4 DEF TypeOK
  <1>10. ASSUME NEW q \in Scheduler
         PROVE  /\ schedule_queue[q] \subseteq schedule_queue'[q]
                /\ \A f \in schedule_queue'[q] \ schedule_queue[q] :
                       f = new /\ q = s /\ pending # {}
                /\ pending # {} => new \in schedule_queue'[s]
    BY <1>4 DEF TypeOK
  <1>11. PointerNamesPending'
    BY <1>2, <1>9 DEF PointerNamesPending
  <1>12. QueuedIsScheduled'
    <2> SUFFICES ASSUME NEW q \in Scheduler, NEW f \in schedule_queue'[q]
                 PROVE  /\ f.recv \in LP
                        /\ f = scheduled_event_pointer'[f.recv]
                        /\ q = input_queue_scheduler_map'[f.recv]
                        /\ f \notin Held \ {e}
      BY <1>3 DEF QueuedIsScheduled
    <2>1. CASE f \in schedule_queue[q]
      <3>1. f.recv \in LP /\ f = scheduled_event_pointer[f.recv]
            /\ q = input_queue_scheduler_map[f.recv] /\ f \notin Held
        BY <2>1 DEF ScheduledOnce, QueuedIsScheduled
      <3>2. f.recv # lp
        BY <1>1, <3>1
      <3> QED
        BY <1>9, <3>1, <3>2
    <2>2. CASE f \notin schedule_queue[q]
      <3>1. f = new /\ q = s /\ pending # {} /\ f.recv = lp
        BY <1>2, <1>10, <2>2
      <3>2. f \in Held => f = e
        BY <1>1, <3>1 DEF ScheduledOnce, HeldIsScheduled
      <3> QED
        BY <1>1, <1>9, <3>1, <3>2
    <2> QED
      BY <2>1, <2>2
  <1>13. HeldIsScheduled'
    <2> SUFFICES ASSUME NEW f \in Held, f # e
                 PROVE  f.recv \in LP /\ f = scheduled_event_pointer'[f.recv]
      BY <1>3 DEF HeldIsScheduled
    <2>1. f.recv \in LP /\ f = scheduled_event_pointer[f.recv]
      BY DEF ScheduledOnce, HeldIsScheduled
    <2> QED
      BY <1>1, <1>9, <2>1
  <1>14. HeldByOneWorker'
    BY DEF TypeOK, ScheduledOnce, HeldByOneWorker
  <1>15. ScheduledIsSomewhere' /\ LeastIsScheduled'
    <2> SUFFICES ASSUME NEW l \in LP, input_queue'[l] # {}
                 PROVE  \/ /\ scheduled_event_pointer'[l] \in
                                schedule_queue'[input_queue_scheduler_map'[l]]
                           /\ IsFirst(scheduled_event_pointer'[l], input_queue'[l])
                        \/ scheduled_event_pointer'[l] \in Held \ {e}
      BY <1>3 DEF ScheduledIsSomewhere, LeastIsScheduled
    <2>1. CASE l = lp
      BY <1>2, <1>9, <1>10, <2>1
    <2>2. CASE l # lp
      <3>1. input_queue[l] # {} /\ scheduled_event_pointer[l] # e
        BY <1>1, <1>9, <2>2, PointerFacts
      <3>2. input_queue_scheduler_map[l] \in Scheduler
        BY DEF TypeOK
      <3> QED
        BY <1>9, <1>10, <2>2, <3>1, <3>2
           DEF ScheduledOnce, ScheduledIsSomewhere, LeastIsScheduled
    <2> QED
      BY <2>1, <2>2
  <1> QED
    BY <1>5, <1>6, <1>7, <1>8, <1>11, <1>12, <1>13, <1>14, <1>15 DEF ScheduledOnce

(* Only the queue contents of one LP change; its event stays held.         *)
LEMMA RollbackInv ==
  ASSUME IInv, NEW t \in Worker, NEW e \in Pending, ClientRollback(t, e)
  PROVE  IInv'
  <1> DEFINE lp == e.recv
             p  == processed_queue[lp]
             k  == KeptBy(p, e)
             moved == {p[i] : i \in k + 1 .. Len(p)}
  <1> USE DEF IInv
  <1>1. /\ e \in Held /\ lp \in LP /\ e = scheduled_event_pointer[lp]
        /\ e \in input_queue[lp] /\ e \in Event /\ e.ts >= horizon
    BY HeldFacts DEF ClientRollback
  <1>2. /\ p \in Seq(Event) /\ k \in 0 .. Len(p) /\ Len(p) \in Nat
        /\ \A i \in k + 1 .. Len(p) : SameOrAfter(p[i], e)
    BY <1>1, QueueFacts, KeptByIsDefined
  <1>3. /\ processed_queue' = [processed_queue EXCEPT ![lp] = SubSeq(p, 1, k)]
        /\ input_queue' = [input_queue EXCEPT ![lp] = @ \cup moved]
        /\ scheduled_event_pointer' = scheduled_event_pointer
        /\ schedule_queue' = schedule_queue
        /\ input_queue_scheduler_map' = input_queue_scheduler_map
        /\ held' = held /\ sent' = sent /\ horizon' = horizon /\ Held' = Held
    BY DEF ClientRollback, rollback, Held
  <1> HIDE DEF k
  <1>4. /\ SubSeq(p, 1, k) \in Seq(Event)
        /\ Len(SubSeq(p, 1, k)) = k
        /\ \A i \in 1 .. k : SubSeq(p, 1, k)[i] = p[i]
        /\ DOMAIN SubSeq(p, 1, k) = 1 .. k
    BY <1>2
  <1>5. \A l \in LP :
           /\ l # lp => /\ Processed(l)' = Processed(l)
                        /\ processed_queue'[l] = processed_queue[l]
                        /\ input_queue'[l] = input_queue[l]
           /\ l = lp => /\ Processed(l)' = {p[i] : i \in 1 .. k}
                        /\ processed_queue'[l] = SubSeq(p, 1, k)
                        /\ input_queue'[l] = input_queue[l] \cup moved
    <2> TAKE l \in LP
    <2>1. CASE l # lp
      BY <1>1, <1>3, <2>1 DEF TypeOK, Processed
    <2>2. CASE l = lp
      <3>1. processed_queue'[lp] = SubSeq(p, 1, k) /\ input_queue'[lp] = input_queue[lp] \cup moved
        BY <1>1, <1>3 DEF TypeOK
      <3>2. Processed(lp)' = {SubSeq(p, 1, k)[i] : i \in 1 .. k}
        BY <1>4, <3>1 DEF Processed
      <3> QED
        BY <1>4, <2>2, <3>1, <3>2
    <2> QED
      BY <2>1, <2>2
  <1>6. /\ Processed(lp) = {p[i] : i \in 1 .. k} \cup moved
        /\ {p[i] : i \in 1 .. k} \cap moved = {}
    <2>1. DOMAIN p = 1 .. Len(p)
      BY <1>2
    <2>2. Processed(lp) = {p[i] : i \in 1 .. k} \cup moved
      BY <1>2, <2>1 DEF Processed
    <2>3. ASSUME NEW i \in 1 .. k, NEW j \in k + 1 .. Len(p), p[i] = p[j]
          PROVE  FALSE
      <3>1. i \in DOMAIN p /\ j \in DOMAIN p /\ i < j
        BY <1>2, <2>1
      <3>2. Before(p[i], p[j]) /\ p[i] \in Event
        BY <1>1, <1>2, <3>1 DEF ProcessedInOrder
      <3> QED
        BY <2>3, <3>2, BeforeIsStrictOrder
    <2> QED
      BY <2>2, <2>3
  <1>7. \A l \in LP : /\ Processed(l)' \subseteq Processed(l)
                      /\ input_queue[l] \subseteq input_queue'[l]
                      /\ input_queue'[l] \cup Processed(l)' = input_queue[l] \cup Processed(l)
                      /\ input_queue'[l] \subseteq input_queue[l] \cup Processed(l)
    BY <1>5, <1>6
  <1>8. \A f \in moved : f.ts >= horizon /\ f \in Event /\ f \in Message
    <2> SUFFICES ASSUME NEW i \in k + 1 .. Len(p) PROVE p[i].ts >= horizon /\ p[i] \in Event /\ p[i] \in Message
      OBVIOUS
    <2>1. SameOrAfter(p[i], e) /\ p[i] \in Event /\ p[i] \in Processed(lp)
      BY <1>2, <1>6
    <2>2. p[i].ts >= e.ts
      BY <1>1, <2>1 DEF SameOrAfter, Before, Event
    <2>3. p[i].ts \in Nat /\ e.ts \in Nat /\ horizon \in Nat
      BY <1>1, <2>1 DEF Event, TypeOK
    <2>4. p[i] \in Message
      BY <1>1, <2>1, QueueFacts
    <2> QED
      BY <1>1, <2>1, <2>2, <2>3, <2>4
  <1> HIDE DEF moved
  <1>9. TypeOK'
    <2>1. processed_queue' \in [LP -> Seq(Event)]
      BY <1>3, <1>4 DEF TypeOK
    <2>2. input_queue' \in [LP -> SUBSET Event]
      BY <1>3, <1>8 DEF TypeOK
    <2> QED
      BY <1>3, <2>1, <2>2 DEF TypeOK
  <1>10. QueuesHoldSent'
    BY <1>3, <1>7 DEF QueuesHoldSent
  <1>11. PendingNotBeforeHorizon'
    BY <1>3, <1>5, <1>8 DEF PendingNotBeforeHorizon
  <1>12. PointerNamesPending'
    BY <1>1, <1>3, <1>5 DEF PointerNamesPending
  <1>13. ScheduledOnce'
    BY <1>1, <1>3, <1>5 DEF ScheduledOnce, QueuedIsScheduled, HeldIsScheduled,
       HeldByOneWorker, ScheduledIsSomewhere
  <1>14. LeastIsScheduled'
    BY <1>1, <1>3, <1>5 DEF LeastIsScheduled
  <1>15. ProcessedInOrder'
    <2> SUFFICES ASSUME NEW l \in LP, NEW i \in DOMAIN processed_queue'[l],
                        NEW j \in DOMAIN processed_queue'[l], i < j
                 PROVE  Before(processed_queue'[l][i], processed_queue'[l][j])
      BY DEF ProcessedInOrder
    <2>1. CASE l = lp
      <3>1. i \in 1 .. k /\ j \in 1 .. k /\ i \in DOMAIN p /\ j \in DOMAIN p
        BY <1>2, <1>4, <1>5, <2>1
      <3> QED
        BY <1>1, <1>4, <1>5, <2>1, <3>1 DEF ProcessedInOrder
    <2>2. CASE l # lp
      BY <1>5, <2>2 DEF ProcessedInOrder
    <2> QED
      BY <2>1, <2>2
  <1>16. NoEventLost'
    <2>1. NotInBothQueues'
      BY <1>5, <1>6 DEF NoEventLost, NotInBothQueues
    <2>2. UncancelledIsKept'
      BY <1>3, <1>7, MessageFacts DEF NoEventLost, UncancelledIsKept
    <2>3. CancelledIsGone'
      <3> SUFFICES ASSUME NEW f \in sent \cap Message,
                          NegativeEvent(f) \in sent \ input_queue'[f.recv]
                   PROVE  f \notin input_queue'[f.recv] \cup Processed(f.recv)'
        BY <1>3 DEF CancelledIsGone
      <3> QED
        BY <1>7, MessageFacts DEF NoEventLost, CancelledIsGone
    <2> QED
      BY <2>1, <2>2, <2>3 DEF NoEventLost
  <1>17. AntiMessageHasTarget'
    <2> SUFFICES ASSUME NEW l \in LP, NEW f \in input_queue'[l], f.type = NEGATIVE,
                        PositiveEvent(f) \in sent
                 PROVE  PositiveEvent(f) \in input_queue'[l] \cup Processed(l)'
      BY <1>3 DEF AntiMessageHasTarget
    <2>1. f \in input_queue[l]
      BY <1>5, <1>8, MessageFacts DEF NEGATIVE, POSITIVE
    <2> QED
      BY <1>7, <2>1 DEF AntiMessageHasTarget
  <1>18. EarlyAntiMessageWaits'
    BY <1>3, <1>7, SendableFacts DEF EarlyAntiMessageWaits, QueuesHoldSent
  <1> QED
    BY <1>9, <1>10, <1>11, <1>12, <1>13, <1>14, <1>15, <1>16, <1>17, <1>18

(* The find of cancelEvent, if the event has arrived.                      *)
LEMMA CancelFindsTarget ==
  ASSUME IInv, NEW e \in Held, e.type = NEGATIVE, ~ IsStraggler(e.recv, e),
         PositiveEvent(e) \in sent
  PROVE  /\ CancelFinds(e.recv, e)
         /\ Successor(e.recv, e) = PositiveEvent(e)
         /\ PositiveEvent(e) \in input_queue[e.recv]
  <1> DEFINE lp  == e.recv
             p   == processed_queue[lp]
             pos == PositiveEvent(e)
             S   == {f \in input_queue[lp] : compareEvents(e, f)}
  <1> USE DEF IInv
  <1>1. /\ lp \in LP /\ e \in input_queue[lp] /\ e \in Sendable /\ e \in Event
    BY PointerFacts DEF ScheduledOnce, HeldIsScheduled, Held
  <1>2. /\ pos \in Message /\ pos \in Event /\ pos.type = POSITIVE
        /\ SameEvent(pos, e) /\ e = NegativeEvent(pos)
    BY <1>1, SendableFacts, MessageFacts
  <1>3. pos \in input_queue[lp]
    <2> SUFFICES ASSUME pos \in Processed(lp) PROVE FALSE
      BY <1>1 DEF AntiMessageHasTarget
    <2>1. PICK i \in DOMAIN p : p[i] = pos
      BY DEF Processed
    <2>2. p \in Seq(Event) /\ DOMAIN p = 1 .. Len(p) /\ Len(p) \in Nat
      BY <1>1, QueueFacts
    <2>3. /\ p # <<>> /\ Len(p) \in DOMAIN p
          /\ lastProcessedEvent(lp) = p[Len(p)] /\ p[Len(p)] \in Event
      BY <2>1, <2>2 DEF lastProcessedEvent
    <2>4. ~ Before(e, p[Len(p)]) /\ ~ SameEvent(e, p[Len(p)])
      BY <1>1, <2>3, NoEventIsNoEvent DEF IsStraggler
    <2>5. i = Len(p) \/ Before(pos, p[Len(p)])
      BY <1>1, <2>1, <2>2, <2>3 DEF ProcessedInOrder
    <2> QED
      BY <1>1, <1>2, <2>1, <2>3, <2>4, <2>5 DEF SameEvent, Before, Event
  <1>4. pos \in S /\ IsFirst(pos, S)
    <2>1. compareEvents(e, pos)
      BY <1>2, AntiMessageIsAdjacent
    <2>2. ASSUME NEW f \in S, f # pos PROVE compareEvents(pos, f)
      <3>1. f \in Event /\ compareEvents(e, f)
        BY <1>1, QueueFacts
      <3>2. ~ compareEvents(f, pos)
        BY <1>2, <3>1, AntiMessageIsAdjacent
      <3>3. ~ (SameEvent(f, pos) /\ f.type = pos.type)
        BY <1>1, <1>3, <2>2, QueueFacts DEF Distinct
      <3> QED
        BY <1>2, <3>1, <3>2, <3>3, compareEventsIsStrictOrder
    <2> QED
      BY <1>3, <2>1, <2>2 DEF IsFirst
  <1>5. First(S) = pos
    <2>1. S \in SUBSET Event /\ Distinct(S)
      BY <1>1, QueueFacts DEF Distinct
    <2> QED
      BY <1>4, <2>1, FirstIsUnique
  <1> QED
    BY <1>2, <1>3, <1>4, <1>5 DEF CancelFinds, CancelAsserts, Successor

(* ... and if the anti-message overtook it: nothing that is not the event  *)
(* itself is operator== to its anti-message.                               *)
LEMMA CancelFindsNothing ==
  ASSUME IInv, NEW e \in Held, e.type = NEGATIVE, PositiveEvent(e) \notin sent
  PROVE  ~ CancelFinds(e.recv, e)
  <1> DEFINE lp == e.recv
             S  == {f \in input_queue[lp] : compareEvents(e, f)}
  <1> SUFFICES ASSUME CancelFinds(lp, e) PROVE FALSE
    OBVIOUS
  <1> USE DEF IInv
  <1>1. /\ lp \in LP /\ e \in input_queue[lp] /\ e \in Sendable /\ e \in Event
    BY PointerFacts DEF ScheduledOnce, HeldIsScheduled, Held
  <1>2. First(S) \in S /\ SameEvent(First(S), e)
    <2>1. S \in SUBSET Event /\ S # {} /\ Distinct(S)
      BY <1>1, QueueFacts DEF Distinct, CancelFinds, CancelAsserts
    <2> QED
      BY <2>1, FirstIsFirst DEF CancelFinds, Successor
  <1>3. PICK f \in S : f = First(S)
    BY <1>2
  <1>4. f \in Event /\ f \in Sendable /\ f \in sent /\ f.recv = lp
        /\ SameEvent(f, e) /\ compareEvents(e, f)
    BY <1>1, <1>2, <1>3, QueueFacts
  <1>5. f.type = POSITIVE
    BY <1>1, <1>4 DEF compareEvents, Before, SameEvent, Event, NEGATIVE, POSITIVE
  <1>6. f = PositiveEvent(e)
    BY <1>1, <1>4, <1>5 DEF SameEvent, PositiveEvent, Event
  <1> QED
    BY <1>4, <1>6

(* An anti-message and its event annihilate and the LP is rescheduled; an  *)
(* anti-message that overtook its event is put back.                       *)
LEMMA CancelEventInv ==
  ASSUME IInv, NEW t \in Worker, NEW e \in Pending, ClientCancelEvent(t, e)
  PROVE  IInv'
  <1> DEFINE lp  == e.recv
             pos == PositiveEvent(e)
             pending == AfterCancel(lp, e)
             s == input_queue_scheduler_map[lp]
  <1> USE DEF IInv
  <1>1. /\ held[t] = e /\ e \in Held /\ lp \in LP /\ s \in Scheduler
        /\ e \in input_queue[lp] /\ e \in Sendable /\ e.type = NEGATIVE
        /\ e \in sent /\ ~ IsStraggler(lp, e)
    BY HeldFacts DEF ClientCancelEvent, TypeOK
  <1>2. \/ /\ pos \in sent /\ pos \in input_queue[lp]
           /\ pending = input_queue[lp] \ {e, pos}
        \/ /\ pos \notin sent /\ pending = input_queue[lp]
    BY <1>1, CancelFindsTarget, CancelFindsNothing DEF AfterCancel
  <1>3. /\ pos \in Message /\ pos.recv = lp /\ e = NegativeEvent(pos)
    BY <1>1, SendableFacts
  <1> HIDE DEF pending
  <1>5. /\ input_queue' = [input_queue EXCEPT ![lp] = pending]
        /\ Schedule(lp, pending, s)
        /\ input_queue_scheduler_map' = input_queue_scheduler_map
        /\ held' = [held EXCEPT ![t] = NoEvent]
        /\ processed_queue' = processed_queue
        /\ sent' = sent /\ horizon' = horizon
    BY DEF ClientCancelEvent, cancelEvent, pending
  <1>6. /\ scheduled_event_pointer' \in [LP -> Event \cup {NoEvent}]
        /\ schedule_queue' \in [Scheduler -> SUBSET Event]
        /\ input_queue_scheduler_map' \in [LP -> Scheduler]
        /\ held' \in [Worker -> Event \cup {NoEvent}]
        /\ PointerNamesPending' /\ ScheduledOnce' /\ LeastIsScheduled'
    <2>1. input_queue_scheduler_map' = [input_queue_scheduler_map EXCEPT ![lp] = s]
      BY <1>1, <1>5 DEF TypeOK
    <2>2. pending \in SUBSET input_queue[e.recv]
      BY <1>2
    <2> HIDE DEF s
    <2>3. Schedule(e.recv, pending, s) /\ input_queue' = [input_queue EXCEPT ![e.recv] = pending]
      BY <1>5
    <2> QED
      BY <1>1, <1>5, <2>1, <2>2, <2>3, RescheduleInv
  <1>7. \A l \in LP : /\ input_queue'[l] = IF l = lp THEN pending ELSE input_queue[l]
                      /\ input_queue'[l] \subseteq input_queue[l]
                      /\ Processed(l)' = Processed(l)
    BY <1>1, <1>2, <1>5 DEF TypeOK, Processed
  <1>8. TypeOK'
    BY <1>2, <1>5, <1>6, <1>1 DEF TypeOK
  <1>9. QueuesHoldSent'
    BY <1>5, <1>7 DEF QueuesHoldSent
  <1>10. PendingNotBeforeHorizon'
    BY <1>5, <1>7 DEF PendingNotBeforeHorizon
  <1>11. ProcessedInOrder'
    BY <1>5 DEF ProcessedInOrder
  <1>12. ASSUME NEW f \in Message, f # pos
         PROVE  /\ f.recv \in LP
                /\ \A g \in {f, NegativeEvent(f)} :
                      g \in input_queue'[f.recv] <=> g \in input_queue[f.recv]
    <2>1. f # e /\ NegativeEvent(f) # e /\ NegativeEvent(f) # pos /\ f.recv \in LP
      BY <1>1, <1>3, <1>12, MessageFacts DEF NEGATIVE, POSITIVE
    <2>2. input_queue'[f.recv] = input_queue[f.recv]
          \/ input_queue'[f.recv] = input_queue[f.recv] \ {e, pos}
      BY <1>2, <1>7, <2>1
    <2>3. \A g \in {f, NegativeEvent(f)} : g # e /\ g # pos
      BY <1>12, <2>1
    <2> QED
      BY <2>1, <2>2, <2>3
  <1>13. pos \in sent => pos \notin Processed(lp)
    BY <1>1, <1>2 DEF NoEventLost, NotInBothQueues
  <1>14. NoEventLost'
    <2>1. NotInBothQueues'
      BY <1>7 DEF NoEventLost, NotInBothQueues
    <2>2. UncancelledIsKept'
      <3> SUFFICES ASSUME NEW f \in sent \cap Message,
                          NegativeEvent(f) \notin sent, f.ts >= horizon
                   PROVE  f \in input_queue'[f.recv] \cup Processed(f.recv)
        BY <1>5, <1>7, MessageFacts DEF UncancelledIsKept
      <3>1. f # pos
        BY <1>1, <1>3
      <3> QED
        BY <1>12, <3>1 DEF NoEventLost, UncancelledIsKept
    <2>3. CancelledIsGone'
      <3> SUFFICES ASSUME NEW f \in sent \cap Message,
                          NegativeEvent(f) \in sent \ input_queue'[f.recv]
                   PROVE  f \notin input_queue'[f.recv] \cup Processed(f.recv)
        BY <1>5, <1>7, MessageFacts DEF CancelledIsGone
      <3>1. CASE f = pos
        BY <1>1, <1>2, <1>3, <1>7, <1>13, <3>1
      <3>2. CASE f # pos
        BY <1>12, <3>2 DEF NoEventLost, CancelledIsGone
      <3> QED
        BY <3>1, <3>2
    <2> QED
      BY <2>1, <2>2, <2>3 DEF NoEventLost
  <1>15. AntiMessageHasTarget'
    <2> SUFFICES ASSUME NEW l \in LP, NEW f \in input_queue'[l], f.type = NEGATIVE,
                        PositiveEvent(f) \in sent
                 PROVE  PositiveEvent(f) \in input_queue'[l] \cup Processed(l)
      BY <1>5, <1>7 DEF AntiMessageHasTarget
    <2>1. f \in input_queue[l] /\ (f = e => l # lp)
      BY <1>1, <1>2, <1>3, <1>7
    <2>2. PositiveEvent(f) \in input_queue[l] \cup Processed(l)
      BY <2>1 DEF AntiMessageHasTarget
    <2>3. f \in Sendable /\ f = NegativeEvent(PositiveEvent(f)) /\ PositiveEvent(f) \in Message
      BY <2>1, QueueFacts, SendableFacts
    <2>4. PositiveEvent(f).recv = l /\ f.recv = l
      BY <2>1, <2>3, QueueFacts, SendableFacts
    <2>5. PositiveEvent(f) # pos
      BY <1>3, <2>1, <2>3, <2>4
    <2> QED
      BY <1>7, <1>12, <2>2, <2>3, <2>4, <2>5
  <1>16. EarlyAntiMessageWaits'
    <2> SUFFICES ASSUME NEW f \in sent, f.type = NEGATIVE, PositiveEvent(f) \notin sent
                 PROVE  f \in input_queue'[f.recv]
      BY <1>5 DEF EarlyAntiMessageWaits
    <2>1. f \in input_queue[f.recv]
      BY DEF EarlyAntiMessageWaits
    <2>2. /\ f \in Sendable /\ f = NegativeEvent(PositiveEvent(f))
          /\ PositiveEvent(f) \in Message /\ PositiveEvent(f).recv = f.recv /\ f.recv \in LP
      BY SendableFacts DEF QueuesHoldSent
    <2>3. CASE PositiveEvent(f) = pos
      BY <1>2, <1>7, <2>1, <2>2, <2>3
    <2>4. CASE PositiveEvent(f) # pos
      BY <1>12, <2>1, <2>2, <2>4
    <2> QED
      BY <2>3, <2>4
  <1> QED
    BY <1>6, <1>8, <1>9, <1>10, <1>11, <1>14, <1>15, <1>16

(* The processed event moves to the end of the processed queue.            *)
LEMMA ReplenishInv ==
  ASSUME IInv, NEW t \in Worker, NEW e \in Pending, ClientReplenishScheduler(t, e)
  PROVE  IInv'
  <1> DEFINE lp == e.recv
             p  == processed_queue[lp]
             pending == input_queue[lp] \ {e}
             s == IF LpMigration THEN (input_queue_scheduler_map[lp] + 1) % NumSchedulers
                                 ELSE input_queue_scheduler_map[lp]
  <1> USE DEF IInv
  <1>1. /\ held[t] = e /\ e \in Held /\ lp \in LP /\ e = scheduled_event_pointer[lp]
        /\ e \in input_queue[lp] /\ e \in Sendable /\ e \in Event /\ e.type = POSITIVE
        /\ e \in sent /\ e \in Message
    BY HeldFacts, SendableFacts DEF ClientReplenishScheduler
  <1>2. s \in Scheduler
    <2>1. input_queue_scheduler_map[lp] \in Scheduler
      BY <1>1 DEF TypeOK
    <2> QED
      BY <2>1, SizesAssumption DEF Scheduler
  <1>3. /\ input_queue' = [input_queue EXCEPT ![lp] = pending]
        /\ Schedule(lp, pending, s)
        /\ input_queue_scheduler_map' = [input_queue_scheduler_map EXCEPT ![lp] = s]
        /\ held' = [held EXCEPT ![t] = NoEvent]
        /\ processed_queue' = [processed_queue EXCEPT ![lp] = Append(@, e)]
        /\ sent' = sent /\ horizon' = horizon
    BY <1>1 DEF ClientReplenishScheduler, replenishScheduler
  <1>4. /\ scheduled_event_pointer' \in [LP -> Event \cup {NoEvent}]
        /\ schedule_queue' \in [Scheduler -> SUBSET Event]
        /\ input_queue_scheduler_map' \in [LP -> Scheduler]
        /\ held' \in [Worker -> Event \cup {NoEvent}]
        /\ PointerNamesPending' /\ ScheduledOnce' /\ LeastIsScheduled'
    <2>1. pending \in SUBSET input_queue[e.recv]
      OBVIOUS
    <2> HIDE DEF pending, s
    <2>2. /\ Schedule(e.recv, pending, s) /\ input_queue' = [input_queue EXCEPT ![e.recv] = pending]
          /\ input_queue_scheduler_map' = [input_queue_scheduler_map EXCEPT ![e.recv] = s]
      BY <1>3
    <2> QED
      BY <1>1, <1>2, <1>3, <2>1, <2>2, RescheduleInv
  <1> HIDE DEF s
  <1>5. /\ p \in Seq(Event) /\ Len(p) \in Nat /\ DOMAIN p = 1 .. Len(p)
        /\ Append(p, e) \in Seq(Event)
        /\ DOMAIN Append(p, e) = 1 .. Len(p) + 1
        /\ \A i \in 1 .. Len(p) : Append(p, e)[i] = p[i]
        /\ Append(p, e)[Len(p) + 1] = e
    BY <1>1, QueueFacts
  <1>6. \A l \in LP :
           /\ l # lp => /\ Processed(l)' = Processed(l)
                        /\ processed_queue'[l] = processed_queue[l]
                        /\ input_queue'[l] = input_queue[l]
           /\ l = lp => /\ Processed(l)' = Processed(l) \cup {e}
                        /\ processed_queue'[l] = Append(p, e)
                        /\ input_queue'[l] = input_queue[l] \ {e}
    <2> TAKE l \in LP
    <2>1. CASE l # lp
      BY <1>1, <1>3, <2>1 DEF TypeOK, Processed
    <2>2. CASE l = lp
      <3>1. processed_queue'[lp] = Append(p, e) /\ input_queue'[lp] = input_queue[lp] \ {e}
        BY <1>1, <1>3 DEF TypeOK
      <3>2. Processed(lp)' = {Append(p, e)[i] : i \in 1 .. Len(p) + 1}
        BY <1>5, <3>1 DEF Processed
      <3>3. Processed(lp) = {p[i] : i \in 1 .. Len(p)}
        BY <1>5 DEF Processed
      <3>4. 1 .. Len(p) + 1 = (1 .. Len(p)) \cup {Len(p) + 1}
        BY <1>5
      <3>5. {Append(p, e)[i] : i \in 1 .. Len(p) + 1} = {p[i] : i \in 1 .. Len(p)} \cup {e}
        BY <1>5, <3>4
      <3> QED
        BY <2>2, <3>1, <3>2, <3>3, <3>5
    <2> QED
      BY <2>1, <2>2
  <1>7. \A l \in LP : /\ input_queue'[l] \subseteq input_queue[l]
                      /\ Processed(l) \subseteq Processed(l)'
                      /\ input_queue'[l] \cup Processed(l)' = input_queue[l] \cup Processed(l)
    BY <1>1, <1>6
  <1>8. TypeOK'
    <2>1. processed_queue' \in [LP -> Seq(Event)]
      BY <1>3, <1>5 DEF TypeOK
    <2>2. input_queue' \in [LP -> SUBSET Event]
      BY <1>1, <1>3 DEF TypeOK
    <2> QED
      BY <1>3, <1>4, <2>1, <2>2 DEF TypeOK
  <1>9. QueuesHoldSent'
    <2>1. \A l \in LP : Processed(l)' \subseteq {f \in sent \cap Message : f.recv = l}
      BY <1>1, <1>6 DEF QueuesHoldSent
    <2> QED
      BY <1>3, <1>7, <2>1 DEF QueuesHoldSent
  <1>10. PendingNotBeforeHorizon'
    BY <1>3, <1>7 DEF PendingNotBeforeHorizon
  <1>11. ProcessedInOrder'
    <2> SUFFICES ASSUME NEW l \in LP, NEW i \in DOMAIN processed_queue'[l],
                        NEW j \in DOMAIN processed_queue'[l], i < j
                 PROVE  Before(processed_queue'[l][i], processed_queue'[l][j])
      BY DEF ProcessedInOrder
    <2>1. CASE l # lp
      BY <1>6, <2>1 DEF ProcessedInOrder
    <2>2. CASE l = lp /\ j # Len(p) + 1
      <3>1. i \in DOMAIN p /\ j \in DOMAIN p
        <4>1. DOMAIN processed_queue'[l] = 1 .. Len(p) + 1
          BY <1>5, <1>6, <2>2
        <4>2. Len(p) \in Nat /\ DOMAIN p = 1 .. Len(p)
          BY <1>5
        <4> QED
          BY <2>2, <4>1, <4>2
      <3> QED
        BY <1>1, <1>5, <1>6, <2>2, <3>1 DEF ProcessedInOrder
    <2>3. CASE l = lp /\ j = Len(p) + 1
      <3>1. /\ i \in DOMAIN p /\ p # <<>> /\ Len(p) \in DOMAIN p
            /\ p[i] \in Event /\ p[Len(p)] \in Event
            /\ lastProcessedEvent(lp) = p[Len(p)]
        BY <1>5, <1>6, <2>3 DEF lastProcessedEvent
      <3>2. ~ Before(e, p[Len(p)])
        BY <3>1, NoEventIsNoEvent DEF ClientReplenishScheduler, IsStraggler
      <3>3. p[Len(p)] \in Processed(lp) /\ p[Len(p)].type = POSITIVE
        BY <1>1, <3>1, QueueFacts, MessageFacts DEF Processed
      <3>4. p[Len(p)] # e
        BY <1>1, <3>3 DEF NoEventLost, NotInBothQueues
      <3>5. ~ SameEvent(e, p[Len(p)])
        BY <1>1, <3>3, <3>4, QueueFacts, MessageFacts DEF QueuesHoldSent, Distinct
      <3>6. Before(p[Len(p)], e)
        BY <1>1, <3>1, <3>2, <3>5, BeforeIsTotal
      <3>7. i = Len(p) \/ Before(p[i], p[Len(p)])
        BY <1>1, <1>5, <3>1 DEF ProcessedInOrder
      <3>8. Before(p[i], e)
        BY <1>1, <3>1, <3>6, <3>7, BeforeIsStrictOrder
      <3> QED
        BY <1>5, <1>6, <2>3, <3>1, <3>8
    <2>4. l = lp => DOMAIN processed_queue'[l] = 1 .. Len(p) + 1
      BY <1>5, <1>6
    <2> QED
      BY <2>1, <2>2, <2>3, <2>4
  <1>12. NoEventLost'
    <2>1. NotInBothQueues'
      BY <1>6 DEF NoEventLost, NotInBothQueues
    <2>2. UncancelledIsKept'
      BY <1>3, <1>7, MessageFacts DEF NoEventLost, UncancelledIsKept
    <2>3. CancelledIsGone'
      <3> SUFFICES ASSUME NEW f \in sent \cap Message,
                          NegativeEvent(f) \in sent \ input_queue'[f.recv]
                   PROVE  f \notin input_queue[f.recv] \cup Processed(f.recv)
        BY <1>3, <1>7, MessageFacts DEF CancelledIsGone
      <3>1. NegativeEvent(f) # e /\ f.recv \in LP /\ NegativeEvent(f).recv = f.recv
        BY <1>1, MessageFacts DEF NEGATIVE, POSITIVE
      <3>2. NegativeEvent(f) \notin input_queue[f.recv]
        BY <1>6, <3>1
      <3> QED
        BY <3>2 DEF NoEventLost, CancelledIsGone
    <2> QED
      BY <2>1, <2>2, <2>3 DEF NoEventLost
  <1>13. AntiMessageHasTarget'
    BY <1>3, <1>7 DEF AntiMessageHasTarget
  <1>14. EarlyAntiMessageWaits'
    BY <1>1, <1>3, <1>6, SendableFacts DEF EarlyAntiMessageWaits, QueuesHoldSent,
       NEGATIVE, POSITIVE
  <1> QED
    BY <1>4, <1>8, <1>9, <1>10, <1>11, <1>12, <1>13, <1>14

(* A prefix of a processed queue, all of it before the GVT, is dropped.    *)
LEMMA CollectInv ==
  ASSUME IInv, NEW lp \in LP, NEW k \in 0 .. Len(processed_queue[lp]),
         \A i \in 1 .. k : processed_queue[lp][i].ts < horizon,
         processed_queue' = [processed_queue EXCEPT
             ![lp] = SubSeq(processed_queue[lp], k + 1, Len(processed_queue[lp]))],
         UNCHANGED <<input_queue, scheduled_event_pointer, schedule_queue,
                     input_queue_scheduler_map, held, sent, horizon>>
  PROVE  IInv'
  <1> DEFINE p == processed_queue[lp]
             q == SubSeq(p, k + 1, Len(p))
  <1> USE DEF IInv
  <1>1. /\ p \in Seq(Event) /\ Len(p) \in Nat /\ DOMAIN p = 1 .. Len(p)
        /\ q \in Seq(Event) /\ DOMAIN q = 1 .. Len(p) - k
        /\ \A i \in 1 .. Len(p) - k : q[i] = p[k + i]
    BY QueueFacts
  <1>2. Held' = Held
    BY DEF Held
  <1>3. \A l \in LP :
           /\ l # lp => Processed(l)' = Processed(l) /\ processed_queue'[l] = processed_queue[l]
           /\ l = lp => processed_queue'[l] = q
    BY DEF TypeOK, Processed
  <1>4. /\ Processed(lp)' \subseteq Processed(lp)
        /\ \A f \in Processed(lp) \ Processed(lp)' : f.ts < horizon
    <2>1. Processed(lp)' = {q[i] : i \in 1 .. Len(p) - k}
      BY <1>1, <1>3 DEF Processed
    <2>2. Processed(lp) = {p[i] : i \in 1 .. Len(p)}
      BY <1>1 DEF Processed
    <2>3. ASSUME NEW i \in 1 .. Len(p) - k PROVE q[i] \in Processed(lp)
      <3>1. k + i \in 1 .. Len(p) /\ q[i] = p[k + i]
        BY <1>1
      <3> QED
        BY <2>2, <3>1
    <2>4. ASSUME NEW j \in 1 .. Len(p), p[j] \notin Processed(lp)'
          PROVE  p[j].ts < horizon
      <3>1. CASE j \in 1 .. k
        BY <3>1
      <3>2. CASE j \notin 1 .. k
        <4>1. j - k \in 1 .. Len(p) - k /\ k + (j - k) = j
          BY <1>1, <3>2
        <4>2. q[j - k] = p[j]
          BY <1>1, <4>1
        <4> QED
          BY <2>1, <2>4, <4>1, <4>2
      <3> QED
        BY <3>1, <3>2
    <2> QED
      BY <2>1, <2>2, <2>3, <2>4
  <1>5. \A l \in LP : Processed(l)' \subseteq Processed(l)
    BY <1>3, <1>4
  <1>6. TypeOK'
    BY <1>1 DEF TypeOK
  <1>7. QueuesHoldSent'
    BY <1>5 DEF QueuesHoldSent
  <1>8. PendingNotBeforeHorizon' /\ PointerNamesPending' /\ LeastIsScheduled'
    BY <1>2 DEF PendingNotBeforeHorizon, PointerNamesPending, LeastIsScheduled
  <1>9. ScheduledOnce'
    BY <1>2 DEF ScheduledOnce, QueuedIsScheduled, HeldIsScheduled, HeldByOneWorker,
       ScheduledIsSomewhere
  <1>10. ProcessedInOrder'
    <2> SUFFICES ASSUME NEW l \in LP, NEW i \in DOMAIN processed_queue'[l],
                        NEW j \in DOMAIN processed_queue'[l], i < j
                 PROVE  Before(processed_queue'[l][i], processed_queue'[l][j])
      BY DEF ProcessedInOrder
    <2>1. CASE l # lp
      BY <1>3, <2>1 DEF ProcessedInOrder
    <2>2. CASE l = lp
      <3>1. i \in 1 .. Len(p) - k /\ j \in 1 .. Len(p) - k
        BY <1>1, <1>3, <2>2
      <3>2. k + i \in DOMAIN p /\ k + j \in DOMAIN p /\ k + i < k + j
        <4>1. k \in 0 .. Len(p)
          OBVIOUS
        <4> HIDE DEF IInv, p, q
        <4>2. PICK len \in Nat : DOMAIN p = 1 .. len /\ Len(p) = len
          BY <1>1
        <4>3. /\ k \in Nat /\ k <= len /\ i \in 1 .. len - k
              /\ j \in 1 .. len - k /\ i < j
          BY <3>1, <4>1, <4>2
        <4>4. k + i \in 1 .. len /\ k + j \in 1 .. len /\ k + i < k + j
          BY <4>2, <4>3
        <4> QED
          BY <4>2, <4>4
      <3>3. Before(p[k + i], p[k + j])
        BY <3>2 DEF ProcessedInOrder
      <3>4. processed_queue'[l] = q
        BY <1>3, <2>2
      <3>5. q[i] = p[k + i] /\ q[j] = p[k + j]
        BY <1>1, <3>1
      <3> QED
        BY <3>3, <3>4, <3>5
    <2> QED
      BY <2>1, <2>2
  <1>11. NoEventLost'
    <2>1. NotInBothQueues'
      BY <1>5 DEF NoEventLost, NotInBothQueues
    <2>2. UncancelledIsKept'
      <3> SUFFICES ASSUME NEW f \in sent \cap Message,
                          NegativeEvent(f) \notin sent, f.ts >= horizon
                   PROVE  f \in input_queue[f.recv] \cup Processed(f.recv)'
        BY DEF UncancelledIsKept
      <3>1. f.recv \in LP /\ f \in Event
        BY MessageFacts
      <3>2. f \in input_queue[f.recv] \cup Processed(f.recv)
        BY DEF NoEventLost, UncancelledIsKept
      <3>3. ~ (f.ts < horizon)
        BY <3>1 DEF Event, TypeOK
      <3> QED
        BY <1>3, <1>4, <3>1, <3>2, <3>3
    <2>3. CancelledIsGone'
      BY <1>5, MessageFacts DEF NoEventLost, CancelledIsGone
    <2> QED
      BY <2>1, <2>2, <2>3 DEF NoEventLost
  <1>12. AntiMessageHasTarget'
    <2> SUFFICES ASSUME NEW l \in LP, NEW f \in input_queue[l], f.type = NEGATIVE,
                        PositiveEvent(f) \in sent
                 PROVE  PositiveEvent(f) \in input_queue[l] \cup Processed(l)'
      BY DEF AntiMessageHasTarget
    <2>1. PositiveEvent(f) \in input_queue[l] \cup Processed(l)
      BY DEF AntiMessageHasTarget
    <2>2. f \in Sendable /\ f.ts >= horizon /\ PositiveEvent(f).ts = f.ts /\ f \in Event
      BY QueueFacts, SendableFacts DEF PendingNotBeforeHorizon
    <2>3. ~ (PositiveEvent(f).ts < horizon)
      BY <2>2 DEF Event, TypeOK
    <2> QED
      BY <1>3, <1>4, <2>1, <2>3
  <1>13. EarlyAntiMessageWaits'
    BY DEF EarlyAntiMessageWaits
  <1> QED
    BY <1>6, <1>7, <1>8, <1>9, <1>10, <1>11, <1>12, <1>13

(* At infinity everything is before the GVT.                               *)
LEMMA CollectAllInv ==
  ASSUME IInv, NEW lp \in LP, horizon >= Infinity, fossilCollect(lp, Infinity),
         UNCHANGED <<held, sent, horizon>>
  PROVE  IInv'
  <1> DEFINE p == processed_queue[lp]
  <1>1. p \in Seq(Event) /\ DOMAIN p = 1 .. Len(p) /\ Len(p) \in Nat
    BY QueueFacts DEF IInv
  <1>2. SubSeq(p, Len(p) + 1, Len(p)) = <<>>
    BY <1>1
  <1>3. ASSUME NEW i \in 1 .. Len(p) PROVE p[i].ts < horizon
    <2>1. p[i] \in Processed(lp)
      BY <1>1 DEF Processed
    <2>2. p[i] \in Event /\ p[i].ts < Infinity
      BY <2>1, QueueFacts, MessageFacts DEF IInv
    <2> QED
      BY <2>2, MessageAssumption DEF IInv, TypeOK, Event
  <1>4. /\ processed_queue' = [processed_queue EXCEPT ![lp] = SubSeq(p, Len(p) + 1, Len(p))]
        /\ UNCHANGED <<input_queue, scheduled_event_pointer, schedule_queue,
                       input_queue_scheduler_map, held, sent, horizon>>
    BY <1>2 DEF fossilCollect
  <1>5. Len(p) \in 0 .. Len(p)
    BY <1>1
  <1> QED
    BY <1>3, <1>4, <1>5, CollectInv

LEMMA FossilCollectInv ==
  ASSUME IInv, NEW t \in Worker, NEW e \in Pending, NEW time \in Times,
         ClientFossilCollect(t, e, time)
  PROVE  IInv'
  <1> DEFINE lp == e.recv
             p  == processed_queue[lp]
             k  == CollectedBy(p, time)
  <1>1. /\ held[t] = e /\ lp \in LP /\ time <= horizon /\ fossilCollect(lp, time)
        /\ UNCHANGED <<held, sent, horizon>>
    BY HeldFacts DEF ClientFossilCollect
  <1>2. time \in Nat /\ horizon \in Nat
    BY MessageFacts, MessageAssumption DEF Times, Event, InitialEvent, IInv, TypeOK
  <1>3. CASE time = Infinity
    BY <1>1, <1>2, <1>3, CollectAllInv
  <1>4. CASE time # Infinity
    <2>1. p \in Seq(Event)
      BY <1>1, QueueFacts DEF IInv
    <2>2. k \in 0 .. Len(p) /\ \A i \in 1 .. k : p[i].ts < time
      BY <1>2, <2>1, CollectedByIsDefined
    <2>3. ASSUME NEW i \in 1 .. k PROVE p[i].ts < horizon
      <3>1. p[i] \in Event
        BY <2>1, <2>2
      <3> QED
        BY <1>1, <1>2, <2>2, <3>1 DEF Event
    <2>4. processed_queue' = [processed_queue EXCEPT ![lp] = SubSeq(p, k + 1, Len(p))]
      BY <1>1, <1>4 DEF fossilCollect
    <2>5. UNCHANGED <<input_queue, scheduled_event_pointer, schedule_queue,
                      input_queue_scheduler_map, held, sent, horizon>>
      BY <1>1 DEF fossilCollect
    <2> HIDE DEF k
    <2> QED
      BY <1>1, <2>2, <2>3, <2>4, <2>5, CollectInv
  <1> QED
    BY <1>3, <1>4

LEMMA AdvanceHorizonInv ==
  ASSUME IInv, NEW h \in Times, AdvanceHorizon(h)
  PROVE  IInv'
  <1> USE DEF IInv, AdvanceHorizon, queues
  <1>1. h \in Nat /\ horizon \in Nat /\ horizon < h
    BY MessageFacts, MessageAssumption DEF Times, Event, InitialEvent, TypeOK
  <1>2. Held' = Held /\ \A l \in LP : Processed(l)' = Processed(l)
    BY DEF Held, Processed
  <1>3. TypeOK' /\ QueuesHoldSent' /\ PointerNamesPending' /\ ProcessedInOrder'
        /\ AntiMessageHasTarget' /\ EarlyAntiMessageWaits'
    BY <1>1, <1>2 DEF TypeOK, QueuesHoldSent, PointerNamesPending, ProcessedInOrder,
       AntiMessageHasTarget, EarlyAntiMessageWaits
  <1>4. ScheduledOnce' /\ LeastIsScheduled'
    BY <1>2 DEF ScheduledOnce, QueuedIsScheduled, HeldIsScheduled, HeldByOneWorker,
       ScheduledIsSomewhere, LeastIsScheduled
  <1>5. PendingNotBeforeHorizon'
    <2> SUFFICES ASSUME NEW l \in LP, NEW f \in input_queue[l] PROVE f.ts >= h
      BY DEF PendingNotBeforeHorizon
    <2>1. f \in Pending /\ f \in Event
      BY QueueFacts DEF Pending
    <2> QED
      BY <1>1, <2>1 DEF Event
  <1>6. NoEventLost'
    <2>1. NotInBothQueues' /\ CancelledIsGone'
      BY <1>2, MessageFacts DEF NoEventLost, NotInBothQueues, CancelledIsGone
    <2>2. UncancelledIsKept'
      <3> SUFFICES ASSUME NEW f \in sent \cap Message, NegativeEvent(f) \notin sent, f.ts >= h
                   PROVE  f \in input_queue[f.recv] \cup Processed(f.recv)
        BY <1>2, MessageFacts DEF UncancelledIsKept
      <3>1. f.ts >= horizon
        BY <1>1, MessageFacts DEF Event
      <3> QED
        BY <3>1 DEF NoEventLost, UncancelledIsKept
    <2> QED
      BY <2>1, <2>2 DEF NoEventLost
  <1> QED
    BY <1>3, <1>4, <1>5, <1>6

LEMMA FinalCollectInv ==
  ASSUME IInv, NEW lp \in LP, ClientFinalCollect(lp)
  PROVE  IInv'
  BY CollectAllInv, MessageAssumption DEF ClientFinalCollect

LEMMA StutterInv == IInv /\ UNCHANGED eventSetVars => IInv'
  <1> SUFFICES ASSUME IInv, UNCHANGED eventSetVars PROVE IInv'
    OBVIOUS
  <1> USE DEF eventSetVars, queues
  <1>1. Held' = Held /\ \A l \in LP : Processed(l)' = Processed(l)
    BY DEF Held, Processed
  <1>2. (TypeOK /\ QueuesHoldSent /\ PendingNotBeforeHorizon /\ PointerNamesPending)'
    BY <1>1 DEF IInv, TypeOK, QueuesHoldSent, PendingNotBeforeHorizon, PointerNamesPending
  <1>3. (ScheduledOnce /\ LeastIsScheduled /\ ProcessedInOrder)'
    BY <1>1 DEF IInv, ScheduledOnce, QueuedIsScheduled, HeldIsScheduled, HeldByOneWorker,
       ScheduledIsSomewhere, LeastIsScheduled, ProcessedInOrder
  <1>4. (NoEventLost /\ AntiMessageHasTarget /\ EarlyAntiMessageWaits)'
    BY <1>1, MessageFacts DEF IInv, NoEventLost, NotInBothQueues, UncancelledIsKept,
       CancelledIsGone, AntiMessageHasTarget, EarlyAntiMessageWaits
  <1> QED
    BY <1>2, <1>3, <1>4 DEF IInv

-----------------------------------------------------------------------------
(* Theorems.                                                               *)

(* Every interleaving of insertions, workers, cancellations, fossil        *)
(* collections and GVT advances preserves the inductive invariant.         *)
THEOREM Invariance == ClientSpec => []IInv
  <1>1. IInv /\ [ClientStep]_eventSetVars => IInv'
    <2> SUFFICES ASSUME IInv, [ClientStep]_eventSetVars PROVE IInv'
      OBVIOUS
    <2>1. ASSUME NEW e \in Sendable, Insert(e) PROVE IInv'
      BY <2>1, InsertInv
    <2>2. ASSUME NEW t \in Worker, ClientWorkerStep(t) PROVE IInv'
      BY <2>2, GetEventInv, RollbackInv, CancelEventInv, ReplenishInv DEF ClientWorkerStep
    <2>3. ASSUME NEW t \in Worker, NEW e \in Pending, NEW time \in Times,
                 ClientFossilCollect(t, e, time)
          PROVE  IInv'
      BY <2>3, FossilCollectInv
    <2>4. ASSUME NEW h \in Times, AdvanceHorizon(h) PROVE IInv'
      BY <2>4, AdvanceHorizonInv
    <2>5. ASSUME NEW lp \in LP, ClientFinalCollect(lp) PROVE IInv'
      BY <2>5, FinalCollectInv
    <2>6. CASE UNCHANGED eventSetVars
      BY <2>6, StutterInv
    <2> QED
      BY <2>1, <2>2, <2>3, <2>4, <2>5, <2>6 DEF ClientStep
  <1>2. [ClientNext]_clientVars => [ClientStep]_eventSetVars
    BY DEF ClientNext, ClientAbort, clientVars
  <1> QED
    BY InitInv, <1>1, <1>2, PTL DEF ClientSpec

(* The event set's state always has its type.                              *)
THEOREM TypeCorrect == ClientSpec => []TypeOK
  BY Invariance, PTL DEF IInv

(* The scheduled event of an LP is in one schedule queue or in one         *)
(* worker's hands: no LP is processed by two workers or forgotten.         *)
THEOREM SchedulingIsExclusive == ClientSpec => [](PointerNamesPending /\ ScheduledOnce)
  BY Invariance, PTL DEF IInv

(* Outside a worker, the least pending event of an LP is the scheduled one.*)
THEOREM LeastEventIsScheduled == ClientSpec => []LeastIsScheduled
  BY Invariance, PTL DEF IInv

(* An LP's processed queue is strictly ordered at all times.               *)
THEOREM HistoryIsOrdered == ClientSpec => []ProcessedInOrder
  BY Invariance, PTL DEF IInv

(* No event is lost, duplicated, or left behind by its anti-message.       *)
THEOREM NothingIsLost == ClientSpec => []NoEventLost
  BY Invariance, PTL DEF IInv

(* Rule 2 of processEvents: the assertion of cancelEvent holds and its find *)
(* succeeds whenever the event has arrived, and it never hits anything     *)
(* else; what makes the assertion fail, and ends the process, is an        *)
(* anti-message that has overtaken its event and has nothing behind it.    *)
THEOREM CancellationSucceeds == ClientSpec => [](AntiMessageHasTarget /\ CancelFindsItsEvent)
  <1>1. IInv => AntiMessageHasTarget /\ CancelFindsIfSent
    BY CancelFindsTarget, CancelFindsNothing DEF CancelFindsIfSent, IInv
  <1>2. ClientInit => AbortsOnlyEarly
    BY DEF ClientInit, AbortsOnlyEarly
  <1>3. ASSUME IInv, AbortsOnlyEarly, [ClientNext]_clientVars PROVE AbortsOnlyEarly'
    <2>1. CASE \E t \in Worker, e \in Pending : ClientAbort(t, e)
      <3>1. PICK t \in Worker, e \in Pending : ClientAbort(t, e)
        BY <2>1
      <3>2. e \in Held
        BY <1>3, <3>1, HeldFacts DEF ClientAbort
      <3>3. ~ CancelFinds(e.recv, e)
        BY <3>1 DEF ClientAbort, CancelFinds
      <3>4. e.type = NEGATIVE /\ PositiveEvent(e) \notin sent /\ ~ CancelAsserts(e.recv, e)
        BY <1>1, <1>3, <3>1, <3>2, <3>3 DEF ClientAbort, CancelFindsIfSent
      <3>5. Held' = Held /\ sent' = sent /\ input_queue' = input_queue
        BY <3>1 DEF ClientAbort, eventSetVars, queues, Held
      <3> QED
        BY <3>2, <3>4, <3>5 DEF AbortsOnlyEarly, CancelAsserts
    <2>2. CASE ~ aborted /\ UNCHANGED aborted
      BY <2>2 DEF AbortsOnlyEarly
    <2>3. CASE UNCHANGED clientVars
      <3>1. /\ Held' = Held /\ sent' = sent /\ input_queue' = input_queue
            /\ aborted' = aborted
        BY <2>3 DEF clientVars, eventSetVars, queues, Held
      <3> QED
        BY <1>3, <3>1 DEF AbortsOnlyEarly, CancelAsserts
    <2> QED
      BY <1>3, <2>1, <2>2, <2>3 DEF ClientNext
  <1>4. IInv /\ AbortsOnlyEarly /\ [ClientNext]_clientVars => AbortsOnlyEarly'
    BY <1>3
  <1>5. CancelFindsIfSent /\ AbortsOnlyEarly => CancelFindsItsEvent
    BY DEF CancelFindsItsEvent
  <1> QED
    BY <1>1, <1>2, <1>4, <1>5, Invariance, PTL DEF ClientSpec

(* Nothing before the GVT is ever rolled back, provided the GVT is right.  *)
THEOREM NoRollbackPastGVT == ClientSpec => NoRollbackPastHorizon
  <1>1. IInv /\ IInv' /\ [ClientNext]_clientVars =>
          [\A lp \in LP : \A e \in input_queue'[lp] \ input_queue[lp] : e.ts >= horizon]_clientVars
    <2> SUFFICES ASSUME IInv, IInv', ClientNext, NEW lp \in LP,
                        NEW e \in input_queue'[lp] \ input_queue[lp]
                 PROVE  e.ts >= horizon
      OBVIOUS
    <2>1. e.ts >= horizon' /\ e.ts \in Nat
      BY QueueFacts DEF IInv, PendingNotBeforeHorizon, Event, TypeOK
    <2>2. horizon' = horizon \/ horizon < horizon'
      BY DEF ClientNext, ClientAbort, eventSetVars, ClientStep, Insert, ClientWorkerStep, ClientGetEvent, ClientRollback, ClientCancelEvent, ClientReplenishScheduler,
         ClientFossilCollect, AdvanceHorizon, ClientFinalCollect
    <2>3. horizon \in Nat /\ horizon' \in Nat
      BY DEF IInv, TypeOK
    <2> QED
      BY <2>1, <2>2, <2>3
  <1> QED
    BY <1>1, Invariance, PTL DEF ClientSpec, NoRollbackPastHorizon

-----------------------------------------------------------------------------
(***************************************************************************)
(* The engine.                                                             *)
(***************************************************************************)

(* What LogicalProcess.hpp asks of a model: "Events must not be created    *)
(* with a timestamp less than the current simulation time"; and no event   *)
(* has the time that stands for infinity.                                  *)
Send == [recv : LP, ts : 0 .. Infinity - 1]
ModelIsCausal ==
    /\ \A lp \in LP : InitialSends[lp] \in Seq(Send)
    /\ \A lp \in LP : \A e \in Message : \A s :
           /\ Sends(lp, s, e) \in Seq(Send)
           /\ \A i \in DOMAIN Sends(lp, s, e) : e.ts <= Sends(lp, s, e)[i].ts

(* Whatever an LP may send is a message of the client.                     *)
MessageIsAll ==
    \A e \in Event : /\ e.type = POSITIVE
                     /\ e.sender \in LP
                     /\ e.recv \in LP
                     /\ e.ts < Infinity
                     /\ e.ts <= MaxSimTime
                     => e \in Message

-----------------------------------------------------------------------------
(* Where events are.                                                       *)

LEMMA MasterIsNoWorker == Master \notin Worker /\ Thread = Worker \cup {Master}
  BY SizesAssumption DEF Master, Thread, Worker

LEMMA InNetworkIs ==
  ASSUME EngineTypeOK
  PROVE  /\ DOMAIN network = Scheduler \X Scheduler
         /\ \A e : e \in InNetwork <=>
              \E l \in Scheduler \X Scheduler : \E i \in DOMAIN network[l] : e = network[l][i]
  <1>1. DOMAIN network = Scheduler \X Scheduler
    BY DEF EngineTypeOK
  <1> QED
    BY <1>1 DEF InNetwork, ToSet

LEMMA BeingSentIs ==
  \A e : e \in BeingSent <=>
     \E t \in Thread : \E i \in DOMAIN new_events[t] : e = new_events[t][i]
  BY DEF BeingSent, ToSet

LEMMA BeingCancelledIs ==
  \A e : e \in BeingCancelled <=>
     \E t \in Worker : \E i \in DOMAIN events_to_cancel[t] : e = events_to_cancel[t][i]
  BY DEF BeingCancelled, ToSet

LEMMA PendingIsSent ==
  ASSUME IInv
  PROVE  Pending \subseteq sent
  BY QueueFacts DEF IInv, Pending

(* The event a worker handles is pending, and nobody else handles its LP.  *)
LEMMA Handled ==
  ASSUME IInv, NEW t \in Worker, held[t] # NoEvent
  PROVE  /\ held[t] \in Pending
         /\ held[t] \in Held
         /\ held[t].recv \in LP
         /\ held[t] = scheduled_event_pointer[held[t].recv]
         /\ held[t] \in input_queue[held[t].recv]
         /\ held[t] \in Sendable /\ held[t] \in Event /\ held[t] \in sent
         /\ held[t].ts >= horizon
         /\ \A u \in Worker : held[u] # NoEvent /\ held[u].recv = held[t].recv => u = t
  <1>1. \A u \in Worker : held[u] # NoEvent =>
           /\ held[u] \in Held /\ held[u].recv \in LP
           /\ held[u] = scheduled_event_pointer[held[u].recv]
    BY DEF IInv, ScheduledOnce, HeldIsScheduled, Held
  <1>2. held[t] \in input_queue[held[t].recv]
    BY <1>1, PointerFacts DEF IInv
  <1>3. held[t] \in Pending
    BY <1>1, <1>2 DEF Pending
  <1>4. \A u \in Worker : held[u] # NoEvent /\ held[u].recv = held[t].recv => u = t
    BY <1>1 DEF IInv, ScheduledOnce, HeldByOneWorker
  <1> QED
    BY <1>3, <1>4, HeldFacts

LEMMA MessageTimes ==
  ASSUME MessageIsAll, NEW time \in GvtTimes
  PROVE  time \in Nat /\ time \in Times
  <1>1. CASE time = Infinity
    BY <1>1, TimesAssumption DEF Times
  <1>2. CASE time # Infinity
    <2>1. time \in 0 .. MaxSimTime /\ time < Infinity
      BY <1>2, TimesAssumption
    <2>2. 1 \in LP
      BY SizesAssumption DEF LP
    <2> DEFINE e == [ts |-> time, send |-> 0, sender |-> 1, gen |-> 0, recv |-> 1, type |-> POSITIVE]
    <2>3. e \in Event
      BY <2>1 DEF Event, POSITIVE
    <2>4. e \in Message
      BY <2>1, <2>2, <2>3 DEF MessageIsAll
    <2> QED
      BY <2>1, <2>4 DEF Times
  <1> QED
    BY <1>1, <1>2

-----------------------------------------------------------------------------
(* Sending and receiving.                                                  *)

(* A step that puts nothing new into the input queues.                     *)
LEMMA NothingInserted ==
  ASSUME IInv, Remember, Pending' \subseteq sent
  PROVE  sent' = sent
  BY DEF Remember

(* A message that is told from every other by sender and number may be     *)
(* inserted.                                                               *)
LEMMA Inserted ==
  ASSUME IInv, NEW e \in Sendable, e \notin sent, e.ts >= horizon,
         insertEvent(e.recv, e), sent' = sent \cup Pending',
         held' = held, horizon' = horizon,
         \A f \in sent : f.sender = e.sender /\ f.gen = e.gen
                            => PositiveEvent(f) = PositiveEvent(e)
  PROVE  /\ Insert(e) /\ IInv'
         /\ sent' = sent \cup {e}
         /\ processed_queue' = processed_queue
  <1>1. e \in Event /\ e.recv \in LP
    BY SendableFacts
  <1>2. /\ input_queue' = [input_queue EXCEPT ![e.recv] = @ \cup {e}]
        /\ processed_queue' = processed_queue
    BY DEF insertEvent
  <1>3. \A lp \in LP : input_queue'[lp] =
           IF lp = e.recv THEN input_queue[lp] \cup {e} ELSE input_queue[lp]
    BY <1>1, <1>2 DEF IInv, TypeOK
  <1>4. Pending' = Pending \cup {e}
    <2>1. \A f : f \in Pending' <=> \E lp \in LP : f \in input_queue'[lp]
      BY DEF Pending
    <2>2. \A f : f \in Pending <=> \E lp \in LP : f \in input_queue[lp]
      BY DEF Pending
    <2> QED
      BY <1>1, <1>3, <2>1, <2>2
  <1>5. sent' = sent \cup {e}
    BY <1>4, PendingIsSent
  <1>6. ASSUME NEW f \in sent, SameEvent(f, e), f.type = e.type
        PROVE  f = e
    <2>1. f \in Event /\ PositiveEvent(f) = PositiveEvent(e)
      BY <1>6 DEF SameEvent, IInv, TypeOK
    <2> QED
      BY <1>1, <1>6, <2>1 DEF PositiveEvent, Event
  <1>7. Distinct(sent')
    <2> SUFFICES ASSUME NEW f \in sent \cup {e}, NEW g \in sent \cup {e},
                        SameEvent(f, g), f.type = g.type
                 PROVE  f = g
      BY <1>5 DEF Distinct
    <2>1. CASE f \in sent /\ g \in sent
      BY <2>1 DEF IInv, QueuesHoldSent, Distinct
    <2>2. SameEvent(g, f)
      BY DEF SameEvent
    <2> QED
      BY <1>6, <2>1, <2>2
  <1>8. Insert(e)
    BY <1>5, <1>7 DEF Insert
  <1> QED
    BY <1>2, <1>5, <1>8, InsertInv

(* What is appended to a link of the network, and what is taken from it.   *)
LEMMA NetworkAppends ==
  ASSUME EngineTypeOK, NetworkHoldsOnce, NEW e \in Event, NEW link \in Scheduler \X Scheduler,
         e \notin Known, network' = [network EXCEPT ![link] = Append(@, e)], sent' = sent
  PROVE  /\ network' \in [Scheduler \X Scheduler -> Seq(Event)]
         /\ InNetwork' = InNetwork \cup {e}
         /\ NetworkHoldsOnce'
  <1> DEFINE N == Scheduler \X Scheduler
             q == network[link]
  <1>1. network \in [N -> Seq(Event)]
    BY DEF EngineTypeOK
  <1>2. /\ q \in Seq(Event) /\ Len(q) \in Nat /\ DOMAIN q = 1 .. Len(q)
        /\ Append(q, e) \in Seq(Event)
        /\ DOMAIN Append(q, e) = 1 .. Len(q) + 1
        /\ \A i \in 1 .. Len(q) : Append(q, e)[i] = q[i]
        /\ Append(q, e)[Len(q) + 1] = e
    BY <1>1
  <1>3. /\ network' \in [N -> Seq(Event)]
        /\ \A l \in N : network'[l] = IF l = link THEN Append(q, e) ELSE network[l]
    BY <1>1, <1>2
  <1>4. ASSUME NEW l \in N, NEW i \in DOMAIN network'[l]
        PROVE  \/ i \in DOMAIN network[l] /\ network'[l][i] = network[l][i]
               \/ l = link /\ i = Len(q) + 1 /\ network'[l][i] = e
    BY <1>2, <1>3, <1>4
  <1>5. ASSUME NEW l \in N, NEW i \in DOMAIN network[l]
        PROVE  i \in DOMAIN network'[l] /\ network'[l][i] = network[l][i]
    BY <1>2, <1>3, <1>5
  <1>6. Len(q) + 1 \in DOMAIN network'[link] /\ network'[link][Len(q) + 1] = e
    BY <1>2, <1>3
  <1>7. \A f : f \in InNetwork <=> \E l \in N : \E i \in DOMAIN network[l] : f = network[l][i]
    BY InNetworkIs
  <1>8. \A f : f \in InNetwork' <=> \E l \in N : \E i \in DOMAIN network'[l] : f = network'[l][i]
    BY <1>3 DEF InNetwork, ToSet
  <1>9. InNetwork' = InNetwork \cup {e}
    BY <1>4, <1>5, <1>6, <1>7, <1>8
  <1>10. NetworkHoldsOnce'
    <2>1. InNetwork' \cap sent' = {}
      BY <1>9 DEF NetworkHoldsOnce, Known
    <2>2. ASSUME NEW l \in N, NEW m \in N, NEW i \in DOMAIN network'[l],
                 NEW j \in DOMAIN network'[m], network'[l][i] = network'[m][j]
          PROVE  l = m /\ i = j
      <3>1. \A k \in N : \A n \in DOMAIN network[k] : network[k][n] # e
        BY <1>7 DEF Known
      <3>2. CASE i \in DOMAIN network[l] /\ network'[l][i] = network[l][i]
        <4>1. j \in DOMAIN network[m] /\ network'[m][j] = network[m][j]
          BY <1>4, <2>2, <3>1, <3>2
        <4> QED
          BY <1>1, <2>2, <3>2, <4>1 DEF NetworkHoldsOnce
      <3>3. CASE l = link /\ i = Len(q) + 1 /\ network'[l][i] = e
        <4>1. m = link /\ j = Len(q) + 1
          BY <1>4, <2>2, <3>1, <3>3
        <4> QED
          BY <3>3, <4>1
      <3> QED
        BY <1>4, <3>2, <3>3
    <2> QED
      BY <1>3, <2>1, <2>2 DEF NetworkHoldsOnce
  <1> QED
    BY <1>3, <1>9, <1>10

LEMMA RemoveAtFacts ==
  ASSUME NEW S, NEW q \in Seq(S), NEW i \in 1 .. Len(q)
  PROVE  /\ RemoveAt(q, i) \in Seq(S)
         /\ Len(RemoveAt(q, i)) = Len(q) - 1
         /\ \A j \in 1 .. Len(q) - 1 :
               RemoveAt(q, i)[j] = q[IF j < i THEN j ELSE j + 1]
  <1>1. /\ SubSeq(q, 1, i - 1) \in Seq(S) /\ Len(SubSeq(q, 1, i - 1)) = i - 1
        /\ \A j \in 1 .. i - 1 : SubSeq(q, 1, i - 1)[j] = q[j]
    OBVIOUS
  <1>2. /\ SubSeq(q, i + 1, Len(q)) \in Seq(S) /\ Len(SubSeq(q, i + 1, Len(q))) = Len(q) - i
        /\ \A j \in 1 .. Len(q) - i : SubSeq(q, i + 1, Len(q))[j] = q[i + j]
    OBVIOUS
  <1> DEFINE a == SubSeq(q, 1, i - 1)
             b == SubSeq(q, i + 1, Len(q))
  <1>3. RemoveAt(q, i) = a \o b
    BY DEF RemoveAt
  <1> HIDE DEF a, b
  <1>4. a \in Seq(S) /\ b \in Seq(S) /\ Len(a) = i - 1 /\ Len(b) = Len(q) - i
    BY <1>1, <1>2 DEF a, b
  <1>5. a \o b \in Seq(S) /\ Len(a \o b) = Len(q) - 1
    BY <1>4
  <1>6. ASSUME NEW j \in 1 .. Len(q) - 1
        PROVE  (a \o b)[j] = q[IF j < i THEN j ELSE j + 1]
    <2>1. CASE j < i
      <3>1. j \in 1 .. i - 1
        BY <2>1
      <3>2. (a \o b)[j] = a[j]
        BY <1>4, <3>1
      <3> QED
        BY <1>1, <2>1, <3>1, <3>2 DEF a
    <2>2. CASE ~ (j < i)
      <3>1. j - (i - 1) \in 1 .. Len(q) - i /\ i + (j - (i - 1)) = j + 1
        BY <2>2
      <3>2. (a \o b)[j] = b[j - (i - 1)]
        BY <1>4, <2>2, <3>1
      <3> QED
        BY <1>2, <2>2, <3>1, <3>2 DEF b
    <2> QED
      BY <2>1, <2>2
  <1> QED
    BY <1>3, <1>5, <1>6

LEMMA NetworkDelivers ==
  ASSUME EngineTypeOK, NetworkHoldsOnce, NEW link \in Scheduler \X Scheduler,
         NEW i \in DOMAIN network[link],
         network' = [network EXCEPT ![link] = RemoveAt(@, i)],
         sent' = sent \cup {network[link][i]}
  PROVE  /\ network' \in [Scheduler \X Scheduler -> Seq(Event)]
         /\ InNetwork' \subseteq InNetwork
         /\ Known' = Known
         /\ NetworkHoldsOnce'
  <1> DEFINE N == Scheduler \X Scheduler
             q == network[link]
             e == q[i]
             Old(j) == IF j < i THEN j ELSE j + 1
  <1>1. network \in [N -> Seq(Event)]
    BY DEF EngineTypeOK
  <1>2. q \in Seq(Event) /\ Len(q) \in Nat /\ DOMAIN q = 1 .. Len(q) /\ i \in 1 .. Len(q)
    BY <1>1
  <1>3. /\ RemoveAt(q, i) \in Seq(Event)
        /\ DOMAIN RemoveAt(q, i) = 1 .. Len(q) - 1
        /\ \A j \in 1 .. Len(q) - 1 : RemoveAt(q, i)[j] = q[Old(j)]
    <2>1. RemoveAt(q, i) \in Seq(Event) /\ Len(RemoveAt(q, i)) = Len(q) - 1
      BY <1>2, RemoveAtFacts
    <2>2. \A j \in 1 .. Len(q) - 1 : RemoveAt(q, i)[j] = q[IF j < i THEN j ELSE j + 1]
      BY <1>2, RemoveAtFacts
    <2>3. PICK r : r = RemoveAt(q, i)
      OBVIOUS
    <2>4. DOMAIN r = 1 .. Len(q) - 1
      BY <2>1, <2>3
    <2> QED
      BY <2>1, <2>2, <2>3, <2>4
  <1>4. /\ network' \in [N -> Seq(Event)]
        /\ \A l \in N : network'[l] = IF l = link THEN RemoveAt(q, i) ELSE network[l]
    BY <1>1, <1>3
  <1>5. ASSUME NEW l \in N, NEW j \in DOMAIN network'[l]
        PROVE  \/ l # link /\ j \in DOMAIN network[l] /\ network'[l][j] = network[l][j]
               \/ /\ l = link /\ j \in 1 .. Len(q) - 1
                  /\ Old(j) \in DOMAIN network[l] /\ Old(j) # i
                  /\ network'[l][j] = network[l][Old(j)]
    <2>1. CASE l # link
      BY <1>4, <1>5, <2>1
    <2>2. CASE l = link
      <3>1. j \in 1 .. Len(q) - 1
        BY <1>3, <1>4, <1>5, <2>2
      <3>2. Old(j) \in 1 .. Len(q) /\ Old(j) # i
        BY <1>2, <3>1
      <3> QED
        BY <1>2, <1>3, <1>4, <2>2, <3>1, <3>2
    <2> QED
      BY <2>1, <2>2
  <1>6. ASSUME NEW l \in N, NEW j \in DOMAIN network[l], l # link \/ j # i
        PROVE  \E k \in DOMAIN network'[l] : network'[l][k] = network[l][j]
    <2>1. CASE l # link
      BY <1>4, <1>6, <2>1
    <2>2. CASE l = link
      <3> DEFINE k == IF j < i THEN j ELSE j - 1
      <3>1. j \in 1 .. Len(q) /\ j # i
        BY <1>2, <1>6, <2>2
      <3>2. k \in 1 .. Len(q) - 1 /\ Old(k) = j
        BY <1>2, <3>1
      <3> HIDE DEF k
      <3>3. network'[link] = RemoveAt(q, i) /\ k \in DOMAIN network'[l]
        BY <1>3, <1>4, <2>2, <3>2
      <3>4. network'[l][k] = q[Old(k)]
        BY <1>3, <2>2, <3>2, <3>3
      <3> QED
        BY <2>2, <3>2, <3>3, <3>4
    <2> QED
      BY <2>1, <2>2
  <1> HIDE DEF Old
  <1>7. \A f : f \in InNetwork <=> \E l \in N : \E j \in DOMAIN network[l] : f = network[l][j]
    BY InNetworkIs
  <1>8. \A f : f \in InNetwork' <=> \E l \in N : \E j \in DOMAIN network'[l] : f = network'[l][j]
    BY <1>4 DEF InNetwork, ToSet
  <1>9. InNetwork' \subseteq InNetwork
    BY <1>5, <1>7, <1>8
  <1>10. e \in InNetwork /\ e \notin InNetwork'
    <2>1. e \in InNetwork
      BY <1>2, <1>7
    <2>2. ASSUME NEW l \in N, NEW j \in DOMAIN network'[l], network'[l][j] = e
          PROVE  FALSE
      <3>1. CASE l # link
        <4>1. j \in DOMAIN network[l] /\ network[l][j] = network[link][i]
          BY <1>5, <2>2, <3>1
        <4> QED
          BY <1>1, <3>1, <4>1 DEF NetworkHoldsOnce
      <3>2. CASE l = link
        <4>1. Old(j) \in DOMAIN network[link] /\ Old(j) # i /\ network[link][Old(j)] = network[link][i]
          BY <1>5, <2>2, <3>2
        <4> QED
          BY <1>1, <4>1 DEF NetworkHoldsOnce
      <3> QED
        BY <3>1, <3>2
    <2> QED
      BY <1>8, <2>1, <2>2
  <1>11. \A f \in InNetwork : f # e => f \in InNetwork'
    BY <1>6, <1>7, <1>8
  <1>12. Known' = Known
    BY <1>9, <1>10, <1>11 DEF Known
  <1>13. NetworkHoldsOnce'
    <2>1. InNetwork' \cap sent' = {}
      BY <1>9, <1>10 DEF NetworkHoldsOnce
    <2>2. ASSUME NEW l \in N, NEW m \in N, NEW j \in DOMAIN network'[l],
                 NEW k \in DOMAIN network'[m], network'[l][j] = network'[m][k]
          PROVE  l = m /\ j = k
      <3>1. PICK j0 \in DOMAIN network[l] : /\ network'[l][j] = network[l][j0]
                                            /\ IF l = link THEN j0 = Old(j) /\ j \in Nat ELSE j0 = j
        BY <1>2, <1>5, <2>2
      <3>2. PICK k0 \in DOMAIN network[m] : /\ network'[m][k] = network[m][k0]
                                            /\ IF m = link THEN k0 = Old(k) /\ k \in Nat ELSE k0 = k
        BY <1>2, <1>5, <2>2
      <3>3. l = m /\ j0 = k0
        BY <1>1, <2>2, <3>1, <3>2 DEF NetworkHoldsOnce
      <3> QED
        BY <1>2, <3>1, <3>2, <3>3 DEF Old
    <2> QED
      BY <1>4, <2>1, <2>2 DEF NetworkHoldsOnce
  <1> QED
    BY <1>4, <1>9, <1>12, <1>13

(* A message is transmitted: inserted here, or put on its way.             *)
LEMMA Transmitted ==
  ASSUME EngineInv, Remember, NEW e \in Sendable, e \notin Known, gvt <= e.ts,
         pc[Master] # "terminated", e.sender \in LP, e.send <= e.ts,
         \A f \in Known : f.sender = e.sender /\ f.gen = e.gen
                             => PositiveEvent(f) = PositiveEvent(e),
         Transmit(e), held' = held, pc' = pc, gvt' = gvt,
         \A lp \in LP : generation[lp] <= generation'[lp],
         generation' \in [LP -> Nat], e.gen < generation'[e.sender]
  PROVE  /\ [ClientStep]_eventSetVars /\ IInv'
         /\ Known' = Known \cup {e} /\ InNetwork' \subseteq InNetwork \cup {e}
         /\ network' \in [Scheduler \X Scheduler -> Seq(Event)]
         /\ NetworkHoldsOnce' /\ KnownIsIdentified'
         /\ processed_queue' = processed_queue /\ horizon' = horizon
  <1>1. e \in Event /\ e.recv \in LP
    BY SendableFacts
  <1>2. horizon' = horizon /\ horizon = gvt
    BY DEF EngineInv, MasterControl, Remember
  <1>3. /\ [ClientStep]_eventSetVars /\ IInv'
        /\ Known' = Known \cup {e} /\ InNetwork' \subseteq InNetwork \cup {e}
        /\ network' \in [Scheduler \X Scheduler -> Seq(Event)]
        /\ NetworkHoldsOnce' /\ processed_queue' = processed_queue
    <2>1. CASE Local(e)
      <3>1. insertEvent(e.recv, e) /\ network' = network
        BY <2>1 DEF Transmit
      <3>2. Insert(e) /\ IInv' /\ sent' = sent \cup {e} /\ processed_queue' = processed_queue
        BY <1>2, <3>1, Inserted DEF EngineInv, Known, Remember
      <3>3. InNetwork' = InNetwork
        BY <3>1 DEF InNetwork
      <3>4. NetworkHoldsOnce'
        BY <3>1, <3>2, <3>3 DEF EngineInv, NetworkHoldsOnce, Known
      <3>5. [ClientStep]_eventSetVars
        BY <3>2 DEF ClientStep
      <3> QED
        BY <3>1, <3>2, <3>3, <3>4, <3>5 DEF Known, EngineInv, EngineTypeOK
    <2>2. CASE ~ Local(e)
      <3> DEFINE link == <<Node(e.sender), Node(e.recv)>>
      <3>1. /\ network' = [network EXCEPT ![link] = Append(@, e)]
            /\ UNCHANGED queues
        BY <2>2 DEF Transmit
      <3>2. link \in Scheduler \X Scheduler
        BY <1>1, PartitionAssumption DEF Node
      <3>3. sent' = sent
        <4>1. Pending' = Pending
          BY <3>1 DEF queues, Pending
        <4> QED
          BY <4>1, PendingIsSent, NothingInserted DEF EngineInv
      <3> HIDE DEF link
      <3>4. /\ network' \in [Scheduler \X Scheduler -> Seq(Event)]
            /\ InNetwork' = InNetwork \cup {e} /\ NetworkHoldsOnce'
        BY <1>1, <3>1, <3>2, <3>3, NetworkAppends DEF EngineInv
      <3>5. UNCHANGED eventSetVars
        BY <1>2, <3>1, <3>3 DEF eventSetVars
      <3> QED
        BY <3>1, <3>3, <3>4, <3>5, StutterInv DEF EngineInv, Known, queues
    <2> QED
      BY <2>1, <2>2
  <1>4. KnownIsIdentified'
    <2>1. /\ Known' \subseteq Sendable
          /\ \A f \in Known : f.sender \in LP /\ f.gen < generation[f.sender] /\ f.send <= f.ts
      BY <1>3 DEF EngineInv, KnownIsIdentified
    <2>2. ASSUME NEW f \in Known' PROVE f.gen < generation'[f.sender]
      <3>1. CASE f = e
        BY <3>1
      <3>2. CASE f \in Known
        <4>1. f.gen \in Nat /\ generation[f.sender] \in Nat /\ generation'[f.sender] \in Nat
              /\ generation[f.sender] <= generation'[f.sender] /\ f.gen < generation[f.sender]
          BY <1>3, <2>1, <3>2, SendableFacts DEF Event, EngineInv, EngineTypeOK
        <4> QED
          BY <4>1
      <3> QED
        BY <1>3, <3>1, <3>2
    <2>3. ASSUME NEW f \in Known', NEW g \in Known', f.sender = g.sender, f.gen = g.gen
          PROVE  PositiveEvent(f) = PositiveEvent(g)
      BY <1>3, <2>3 DEF EngineInv, KnownIsIdentified
    <2> QED
      BY <1>3, <2>1, <2>2, <2>3 DEF KnownIsIdentified
  <1> QED
    BY <1>2, <1>3, <1>4

(* A step that neither sends nor receives nor forgets what was sent.       *)
LEMMA Quiet ==
  ASSUME EngineInv, sent' = sent, gvt <= gvt', gvt' \in Nat,
         UNCHANGED <<network, generation, output_queue, events_to_cancel>>,
         \A t \in Worker : events_to_cancel[t] # <<>> => held'[t] = held[t]
  PROVE  /\ Known' = Known /\ InNetwork' = InNetwork /\ BeingCancelled' = BeingCancelled
         /\ KnownIsIdentified' /\ NetworkHoldsOnce'
         /\ OutputIsSent' /\ ToCancelIsSent' /\ SentIsRecorded'
  <1>1. Known' = Known /\ InNetwork' = InNetwork /\ BeingCancelled' = BeingCancelled
    BY DEF Known, InNetwork, BeingCancelled
  <1>2. KnownIsIdentified' /\ NetworkHoldsOnce'
    BY <1>1 DEF EngineInv, KnownIsIdentified, NetworkHoldsOnce
  <1>3. OutputIsSent'
    BY <1>1 DEF EngineInv, OutputIsSent
  <1>4. ToCancelIsSent'
    <2> SUFFICES ASSUME NEW t \in Worker, NEW i \in DOMAIN events_to_cancel[t]
                 PROVE  held'[t] = held[t]
      BY <1>1 DEF EngineInv, ToCancelIsSent
    <2>1. events_to_cancel[t] \in Seq(Event)
      BY DEF EngineInv, EngineTypeOK
    <2> QED
      BY <2>1
  <1>5. SentIsRecorded'
    <2> SUFFICES ASSUME NEW e \in Known, e.send < gvt PROVE e.send < gvt'
      BY <1>1 DEF EngineInv, SentIsRecorded
    <2>1. e.send \in Nat /\ gvt \in Nat
      BY SendableFacts DEF EngineInv, KnownIsIdentified, EngineTypeOK, Event
    <2> QED
      BY <2>1
  <1> QED
    BY <1>1, <1>2, <1>3, <1>4, <1>5

-----------------------------------------------------------------------------
(* Workers.                                                                *)

(* What is known of the event of a worker that handles one.                *)
LEMMA Engaged ==
  ASSUME EngineInv, NEW t \in Worker, pc[t] \in Handling
  PROVE  /\ held[t] # NoEvent
         /\ held[t] \in Pending /\ held[t] \in Held
         /\ held[t].recv \in LP
         /\ held[t] = scheduled_event_pointer[held[t].recv]
         /\ held[t] \in input_queue[held[t].recv]
         /\ held[t] \in Sendable /\ held[t] \in Event /\ held[t] \in sent
         /\ held[t] \in Known /\ held[t].sender \in LP
         /\ horizon = gvt /\ held[t].ts >= gvt
         /\ held[t].ts \in Nat /\ gvt \in Nat /\ held[t].ts < Infinity
         /\ pc[Master] = "running" /\ t # Master
         /\ \A u \in Worker : held[u] # NoEvent /\ held[u].recv = held[t].recv => u = t
  <1>1. pc[t] # "getEvent" /\ held[t] # NoEvent
    BY DEF EngineInv, WorkersInStep, InStep, Handling
  <1>2. pc[Master] = "running" /\ t # Master
    BY <1>1, MasterIsNoWorker DEF EngineInv, WorkersInStep, InStep
  <1>3. horizon = gvt
    BY <1>2 DEF EngineInv, MasterControl
  <1>4. /\ held[t] \in Pending /\ held[t] \in Held
        /\ held[t].recv \in LP
        /\ held[t] = scheduled_event_pointer[held[t].recv]
        /\ held[t] \in input_queue[held[t].recv]
        /\ held[t] \in Sendable /\ held[t] \in Event /\ held[t] \in sent
        /\ held[t].ts >= horizon
        /\ \A u \in Worker : held[u] # NoEvent /\ held[u].recv = held[t].recv => u = t
    BY <1>1, Handled DEF EngineInv
  <1>5. held[t].ts \in Nat /\ gvt \in Nat /\ held[t].ts < Infinity
    BY <1>4, SendableFacts DEF Event, EngineInv, EngineTypeOK
  <1>6. held[t] \in Known /\ held[t].sender \in LP
    BY <1>4 DEF EngineInv, KnownIsIdentified, Known
  <1> QED
    BY <1>1, <1>2, <1>3, <1>4, <1>5, <1>6

(* A worker that does nothing stays in step, as long as nobody changes the *)
(* processed queue of its LP.                                              *)
LEMMA OthersInStep ==
  ASSUME EngineInv, NEW u \in Worker,
         pc'[Master] = pc[Master] \/ pc[u] = "getEvent",
         pc'[u] = pc[u], held'[u] = held[u], new_events'[u] = new_events[u],
         events_to_cancel'[u] = events_to_cancel[u],
         held[u] # NoEvent =>
             processed_queue'[held[u].recv] = processed_queue[held[u].recv]
  PROVE  InStep(u)'
  <1>1. InStep(u)
    BY DEF EngineInv, WorkersInStep
  <1>2. held[u] # NoEvent => (IsStraggler(held[u].recv, held[u]))' = IsStraggler(held[u].recv, held[u])
    BY DEF IsStraggler, lastProcessedEvent
  <1>3. pc[u] \in Handling => held[u] # NoEvent
    BY <1>1 DEF InStep, Handling
  <1>4. /\ pc'[u] = "rollback" => (IsStraggler(held[u].recv, held[u]))'
        /\ pc'[u] \in Handling \ {"rollback"} => ~ (IsStraggler(held[u].recv, held[u]))'
    BY <1>1, <1>2, <1>3 DEF InStep, Handling
  <1>5. /\ pc'[u] \in Handling \cup {"getEvent"}
        /\ pc'[u] = "getEvent" <=> held'[u] = NoEvent
        /\ pc'[Master] # "running" => pc'[u] = "getEvent"
        /\ pc'[u] = "cancelEvent" => held'[u].type = NEGATIVE
        /\ pc'[u] \in {"receiveEvent", "sendEvents", "replenish"} => held'[u].type = POSITIVE
        /\ new_events'[u] # <<>> => pc'[u] = "sendEvents"
        /\ events_to_cancel'[u] # <<>> => pc'[u] = "cancelEvents"
    BY <1>1 DEF InStep
  <1> QED
    BY <1>4, <1>5 DEF InStep

(* One worker moves.                                                       *)
LEMMA WorkerMoves ==
  ASSUME EngineInv, NEW t \in Worker, NEW x, pc' = [pc EXCEPT ![t] = x],
         held' = held \/ \E e : held' = [held EXCEPT ![t] = e],
         new_events' = new_events \/ \E s : new_events' = [new_events EXCEPT ![t] = s],
         events_to_cancel' = events_to_cancel
             \/ \E s : events_to_cancel' = [events_to_cancel EXCEPT ![t] = s],
         \A lp \in LP : \/ processed_queue'[lp] = processed_queue[lp]
                        \/ pc[t] \in Handling /\ lp = held[t].recv,
         InStep(t)'
  PROVE  WorkersInStep' /\ pc'[Master] = pc[Master]
  <1>1. /\ pc'[Master] = pc[Master]
        /\ \A u \in Worker \ {t} : /\ pc'[u] = pc[u] /\ held'[u] = held[u]
                                   /\ new_events'[u] = new_events[u]
                                   /\ events_to_cancel'[u] = events_to_cancel[u]
    BY MasterIsNoWorker DEF EngineInv, EngineTypeOK, IInv, TypeOK
  <1>2. ASSUME NEW u \in Worker, u # t, held[u] # NoEvent
        PROVE  processed_queue'[held[u].recv] = processed_queue[held[u].recv]
    <2>1. held[u].recv \in LP
      BY <1>2, Handled DEF EngineInv
    <2>2. pc[t] \in Handling => held[u].recv # held[t].recv
      BY <1>2, Engaged
    <2> QED
      BY <2>1, <2>2
  <1> QED
    BY <1>1, <1>2, OthersInStep DEF WorkersInStep

(* An event that is no straggler sorts before nothing that was processed.  *)
LEMMA NothingProcessedIsLater ==
  ASSUME IInv, NEW lp \in LP, NEW e \in Event, ~ IsStraggler(lp, e),
         NEW f \in Processed(lp)
  PROVE  ~ Before(e, f)
  <1> DEFINE p == processed_queue[lp]
  <1>1. p \in Seq(Event) /\ Len(p) \in Nat /\ DOMAIN p = 1 .. Len(p)
    BY QueueFacts DEF IInv
  <1>2. PICK i \in DOMAIN p : p[i] = f
    BY DEF Processed
  <1>3. /\ p # <<>> /\ Len(p) \in DOMAIN p /\ lastProcessedEvent(lp) = p[Len(p)]
        /\ p[Len(p)] \in Event /\ f \in Event
    BY <1>1, <1>2 DEF lastProcessedEvent
  <1>4. ~ Before(e, p[Len(p)])
    BY <1>3, NoEventIsNoEvent DEF IsStraggler
  <1>5. i = Len(p) \/ Before(f, p[Len(p)])
    BY <1>1, <1>2, <1>3 DEF IInv, ProcessedInOrder
  <1> QED
    BY <1>2, <1>3, <1>4, <1>5, BeforeIsStrictOrder

LEMMA JustReceivedIs ==
  \A lp, e : e \in JustReceived(lp) <=>
     \E u \in Worker : /\ e = held[u] /\ held[u] # NoEvent /\ held[u].recv = lp
                       /\ pc[u] \in {"sendEvents", "replenish"}
  BY DEF JustReceived, HandledBy

LEMMA JustReceivedStays ==
  ASSUME \A u \in Worker : pc[u] \in {"sendEvents", "replenish"} =>
             held'[u] = held[u] /\ pc'[u] \in {"sendEvents", "replenish"},
         NEW lp, NEW e \in JustReceived(lp)
  PROVE  e \in JustReceived(lp)'
  <1>1. \E u \in Worker : /\ e = held[u] /\ held[u] # NoEvent /\ held[u].recv = lp
                          /\ pc[u] \in {"sendEvents", "replenish"}
    BY JustReceivedIs
  <1>2. \E u \in Worker : /\ e = held'[u] /\ held'[u] # NoEvent /\ held'[u].recv = lp
                          /\ pc'[u] \in {"sendEvents", "replenish"}
    BY <1>1
  <1> QED
    BY <1>2 DEF JustReceived, HandledBy

(* The causes of what was sent stand when nothing is undone.               *)
LEMMA CausesStand ==
  ASSUME EngineInv, output_queue' = output_queue,
         \/ pc'[Master] = "terminated"
         \/ /\ pc'[Master] = pc[Master]
            /\ \A lp \in LP : \A e \in Processed(lp) \cup JustReceived(lp) :
                   e \in Processed(lp)' \cup JustReceived(lp)'
  PROVE  OutputIsCaused'
  <1> SUFFICES ASSUME NEW lp \in LP, NEW i \in DOMAIN output_queue[lp]
               PROVE  \/ output_queue[lp][i].input = InitialEvent
                      \/ output_queue[lp][i].input \in Processed(lp)' \cup JustReceived(lp)'
                      \/ pc'[Master] = "terminated"
    BY DEF EngineInv, OutputIsCaused
  <1> QED
    BY DEF EngineInv, OutputIsCaused

-----------------------------------------------------------------------------
(* The LP's own queues.                                                    *)

(* What an LP returned is sent with its cause.                             *)
LEMMA ReturnedType ==
  ASSUME NEW source \in Event, NEW lp \in LP, NEW sends \in Seq(Send)
  PROVE  Returned(source, lp, sends) \in Seq(ToSend)
  <1> DEFINE r(i) == [source |-> source, sender |-> lp, recv |-> sends[i].recv,
                      ts |-> sends[i].ts]
  <1>1. Len(sends) \in Nat /\ DOMAIN sends = 1 .. Len(sends)
    OBVIOUS
  <1>2. ASSUME NEW i \in DOMAIN sends
        PROVE  r(i) \in ToSend
    <2>1. sends[i] \in Send
      BY <1>1, <1>2
    <2> QED
      BY <2>1, TimesAssumption DEF Send, ToSend
  <1>3. Returned(source, lp, sends) = [i \in 1 .. Len(sends) |-> r(i)]
    BY <1>1 DEF Returned
  <1> HIDE DEF r
  <1>4. Returned(source, lp, sends) \in [1 .. Len(sends) -> ToSend]
    BY <1>1, <1>2, <1>3
  <1> QED
    BY <1>1, <1>4

LEMMA ReturnedFacts ==
  ASSUME NEW source, NEW lp, NEW sends \in Seq(Send)
  PROVE  /\ DOMAIN Returned(source, lp, sends) = DOMAIN sends
         /\ \A i \in DOMAIN sends :
               LET next == Returned(source, lp, sends)[i]
               IN  /\ next.source = source /\ next.sender = lp /\ next.ts = sends[i].ts
                   /\ next.ts \in Nat /\ next.ts < Infinity
  <1>1. \A i \in DOMAIN sends : sends[i] \in Send
    OBVIOUS
  <1>2. \A i \in DOMAIN sends : sends[i].ts \in Nat /\ sends[i].ts < Infinity
    BY <1>1, TimesAssumption DEF Send
  <1> QED
    BY <1>2 DEF Returned

(* saveState appends to an LP's saved states or leaves them.               *)
LEMMA Saved ==
  ASSUME EngineInv, NEW lp \in LP, NEW event \in Message \cup {InitialEvent}, NEW new,
         saveState(lp, event, new), gvt' = gvt, pc'[Master] = pc[Master],
         state_queue[lp] = <<>> => event = InitialEvent
  PROVE  /\ state_queue' = [l \in LP |-> state_queue'[l]]
         /\ \A l \in LP : IsSequence(state_queue'[l])
         /\ count' \in [LP -> Nat]
         /\ FirstStateIsOld'
  <1> DEFINE q == state_queue[lp]
             r == [event |-> event, state |-> new]
             a == Append(q, r)
             Q == {q[i] : i \in DOMAIN q}
  <1>1. q \in Seq(Q) /\ count[lp] \in Nat /\ count \in [LP -> Nat]
    BY DEF EngineInv, EngineTypeOK, IsSequence
  <1>2. /\ q \in Seq(Q \cup {r}) /\ Len(q) \in Nat /\ DOMAIN q = 1 .. Len(q)
        /\ Len(a) = Len(q) + 1 /\ a \in Seq(Q \cup {r}) /\ DOMAIN a = 1 .. Len(q) + 1
        /\ \A i \in 1 .. Len(q) : a[i] = q[i]
        /\ a[Len(q) + 1] = r
    <2>1. q \in Seq(Q \cup {r})
      BY <1>1
    <2> HIDE DEF q, Q, r
    <2> QED
      BY <2>1
  <1>3. CASE count[lp] = 0
    <2>1. /\ state_queue' = [state_queue EXCEPT ![lp] = a]
          /\ count' = [count EXCEPT ![lp] = StatePeriod - 1]
      BY <1>3 DEF saveState
    <2>2. count' \in [LP -> Nat]
      BY <1>1, <2>1, PeriodAssumption
    <2>3. /\ state_queue' = [l \in LP |-> state_queue'[l]]
          /\ \A l \in LP : state_queue'[l] = IF l = lp THEN a ELSE state_queue[l]
      BY <2>1 DEF EngineInv, EngineTypeOK
    <2> HIDE DEF a, q, r
    <2>4. IsSequence(a)
      <3>1. a \in Seq({a[i] : i \in DOMAIN a})
        BY <1>2
      <3> QED
        BY <3>1 DEF IsSequence
    <2>5. ASSUME NEW l \in LP
          PROVE  IsSequence(state_queue'[l])
      <3>1. CASE l = lp
        <4>1. state_queue'[l] = a
          BY <2>3, <3>1
        <4> QED
          BY <2>4, <4>1
      <3>2. CASE l # lp
        <4>1. state_queue'[l] = state_queue[l]
          BY <2>3, <3>2
        <4> QED
          BY <4>1 DEF EngineInv, EngineTypeOK
      <3> QED
        BY <3>1, <3>2
    <2>6. \A i \in DOMAIN a : a[i].event \in Message \cup {InitialEvent}
      <3> SUFFICES ASSUME NEW i \in DOMAIN a PROVE a[i].event \in Message \cup {InitialEvent}
        OBVIOUS
      <3>1. CASE i \in DOMAIN q
        BY <1>2, <3>1 DEF EngineInv, FirstStateIsOld, q
      <3>2. CASE i = Len(q) + 1
        BY <1>2, <3>2 DEF r
      <3> QED
        BY <1>2, <3>1, <3>2
    <2>7. a # <<>> /\ (a[1].event = InitialEvent \/ a[1].event.ts < gvt)
      <3>1. a # <<>>
        BY <1>2
      <3>2. CASE q = <<>>
        <4>1. Len(q) + 1 = 1 /\ a[1] = r
          BY <1>2, <3>2
        <4> QED
          BY <3>1, <3>2, <4>1 DEF q, r
      <3>3. CASE q # <<>>
        <4>1. 1 \in 1 .. Len(q)
          BY <1>2, <3>3
        <4>2. a[1] = q[1]
          BY <1>2, <4>1
        <4> QED
          BY <3>1, <3>3, <4>2 DEF EngineInv, FirstStateIsOld, q
      <3> QED
        BY <3>2, <3>3
    <2>8. ASSUME NEW l \in LP
          PROVE  /\ state_queue'[l] = <<>> => pc'[Master] = "initialize" /\ count'[l] = 0
                 /\ \A i \in DOMAIN state_queue'[l] :
                        state_queue'[l][i].event \in Message \cup {InitialEvent}
                 /\ state_queue'[l] # <<>> =>
                        \/ state_queue'[l][1].event = InitialEvent
                        \/ state_queue'[l][1].event.ts < gvt'
      <3>1. CASE l = lp
        BY <2>3, <2>6, <2>7, <3>1
      <3>2. CASE l # lp
        <4>1. count'[l] = count[l] /\ state_queue'[l] = state_queue[l]
          BY <1>1, <2>1, <2>3, <3>2
        <4> QED
          BY <4>1 DEF EngineInv, FirstStateIsOld
      <3> QED
        BY <3>1, <3>2
    <2> QED
      BY <2>2, <2>3, <2>5, <2>8 DEF FirstStateIsOld
  <1>4. CASE count[lp] # 0
    <2>1. state_queue' = state_queue /\ count' = [count EXCEPT ![lp] = @ - 1]
      BY <1>4 DEF saveState
    <2>2. count' \in [LP -> Nat]
      <3>1. count[lp] - 1 \in Nat
        BY <1>1, <1>4
      <3> QED
        BY <1>1, <2>1, <3>1
    <2>3. \A l \in LP : state_queue[l] = <<>> => count[l] = 0 /\ l # lp /\ count'[l] = count[l]
      BY <1>1, <1>4, <2>1 DEF EngineInv, FirstStateIsOld
    <2>4. FirstStateIsOld'
      BY <2>1, <2>3 DEF EngineInv, FirstStateIsOld
    <2>5. /\ state_queue' = [l \in LP |-> state_queue'[l]]
          /\ \A l \in LP : IsSequence(state_queue'[l])
      BY <2>1 DEF EngineInv, EngineTypeOK
    <2> QED
      BY <2>2, <2>4, <2>5
  <1> QED
    BY <1>3, <1>4

-----------------------------------------------------------------------------
(* The steps of the engine: each is a step of the client or none, and      *)
(* preserves the invariant.                                                *)

LEMMA ClientStutters ==
  ASSUME EngineInv, Remember, UNCHANGED <<queues, held, gvt>>,
         pc'[Master] = "terminated" <=> pc[Master] = "terminated"
  PROVE  /\ sent' = sent /\ horizon' = horizon
         /\ [ClientStep]_eventSetVars /\ IInv'
         /\ Pending' = Pending /\ processed_queue' = processed_queue
         /\ \A lp \in LP : Processed(lp)' = Processed(lp)
  <1>1. Pending' = Pending
    BY DEF queues, Pending
  <1>2. sent' = sent
    BY <1>1, PendingIsSent, NothingInserted DEF EngineInv
  <1>3. horizon' = horizon
    BY DEF EngineInv, MasterControl, Remember
  <1>4. UNCHANGED eventSetVars
    BY <1>2, <1>3 DEF eventSetVars
  <1>5. IInv'
    BY <1>4, StutterInv DEF EngineInv
  <1> QED
    BY <1>1, <1>2, <1>3, <1>4, <1>5 DEF queues, Processed

LEMMA InitializeLPStep ==
  ASSUME ModelIsCausal, EngineInv, Remember, NEW lp \in LP, InitializeLP(lp)
  PROVE  [ClientStep]_eventSetVars /\ EngineInv'
  <1> DEFINE sends == Returned(InitialEvent, lp, InitialSends[lp])
  <1>1. /\ pc[Master] = "initialize" /\ new_events[Master] = <<>> /\ state_queue[lp] = <<>>
        /\ new_events' = [new_events EXCEPT ![Master] = sends]
        /\ saveState(lp, InitialEvent, state[lp])
        /\ UNCHANGED <<queues, held, pc, events_to_cancel, state, output_queue,
                       generation, last_fossil_collect_gvt, gvt, network>>
    BY DEF InitializeLP
  <1>2. /\ sent' = sent /\ horizon' = horizon /\ [ClientStep]_eventSetVars /\ IInv'
        /\ Pending' = Pending /\ processed_queue' = processed_queue
        /\ \A l \in LP : Processed(l)' = Processed(l)
    BY <1>1, ClientStutters
  <1>3. gvt \in Nat /\ gvt = 0
    BY <1>1 DEF EngineInv, EngineTypeOK, MasterControl
  <1>4. /\ Known' = Known /\ InNetwork' = InNetwork /\ BeingCancelled' = BeingCancelled
        /\ KnownIsIdentified' /\ NetworkHoldsOnce'
        /\ OutputIsSent' /\ ToCancelIsSent' /\ SentIsRecorded'
    BY <1>1, <1>2, <1>3, Quiet
  <1>5. /\ InitialEvent \in Event /\ InitialEvent.ts = 0
        /\ Master \in Thread /\ Master \notin Worker
    BY MasterIsNoWorker DEF InitialEvent, Event, POSITIVE, NEGATIVE
  <1>6. /\ sends \in Seq(ToSend)
        /\ \A i \in DOMAIN sends : /\ sends[i].source = InitialEvent
                                   /\ sends[i].ts \in Nat /\ sends[i].ts < Infinity
    <2>1. InitialSends[lp] \in Seq(Send)
      BY DEF ModelIsCausal
    <2>2. sends \in Seq(ToSend)
      BY <1>5, <2>1, ReturnedType
    <2>3. \A i \in DOMAIN sends : sends[i].source = InitialEvent /\ sends[i].ts \in Nat /\ sends[i].ts < Infinity
      BY <2>1, ReturnedFacts
    <2> HIDE DEF sends
    <2> QED
      BY <2>2, <2>3
  <1> HIDE DEF sends
  <1>7. /\ state_queue' = [l \in LP |-> state_queue'[l]]
        /\ \A l \in LP : IsSequence(state_queue'[l])
        /\ count' \in [LP -> Nat]
        /\ FirstStateIsOld'
    BY <1>1, Saved
  <1>8. new_events' \in [Thread -> Seq(ToSend)]
    BY <1>1, <1>6 DEF EngineInv, EngineTypeOK
  <1>9. EngineTypeOK'
    BY <1>1, <1>7, <1>8 DEF EngineInv, EngineTypeOK
  <1>10. \A t \in Thread : new_events'[t] = IF t = Master THEN sends ELSE new_events[t]
    BY <1>1 DEF EngineInv, EngineTypeOK
  <1>11. MasterControl'
    BY <1>1, <1>2 DEF EngineInv, MasterControl
  <1>12. WorkersInStep'
    <2> SUFFICES ASSUME NEW u \in Worker PROVE InStep(u)'
      BY DEF WorkersInStep
    <2>1. u \in Thread /\ u # Master
      BY <1>5, MasterIsNoWorker
    <2> QED
      BY <1>1, <1>2, <1>10, <2>1, OthersInStep
  <1>13. OutputIsCaused'
    <2>1. \A l \in LP : JustReceived(l)' = JustReceived(l)
      BY <1>1 DEF JustReceived, HandledBy
    <2> QED
      BY <1>1, <1>2, <2>1, CausesStand
  <1>14. ToSendIsCaused'
    BY <1>1, <1>5, <1>6, <1>10 DEF EngineInv, ToSendIsCaused
  <1>15. OutstandingNotBeforeGVT'
    <2> SUFFICES ASSUME NEW e \in BeingSent' PROVE gvt <= e.ts
      BY <1>1, <1>4 DEF EngineInv, OutstandingNotBeforeGVT
    <2>1. PICK t \in Thread : \E i \in DOMAIN new_events'[t] : e = new_events'[t][i]
      BY DEF BeingSent, ToSet
    <2>2. CASE t = Master
      BY <1>3, <1>6, <1>10, <2>1, <2>2
    <2>3. CASE t # Master
      <3>1. e \in BeingSent
        BY <1>10, <2>1, <2>3, BeingSentIs
      <3> QED
        BY <3>1 DEF EngineInv, OutstandingNotBeforeGVT
    <2> QED
      BY <2>2, <2>3
  <1> QED
    BY <1>2, <1>4, <1>7, <1>9, <1>11, <1>12, <1>13, <1>14, <1>15 DEF EngineInv

LEMMA StartWorkersStep ==
  ASSUME EngineInv, Remember, StartWorkers
  PROVE  [ClientStep]_eventSetVars /\ EngineInv'
  <1>1. /\ pc[Master] = "initialize" /\ new_events[Master] = <<>>
        /\ \A lp \in LP : state_queue[lp] # <<>>
        /\ pc' = [pc EXCEPT ![Master] = "running"]
        /\ UNCHANGED <<queues, held, toSend, lpVars, gvt, network>>
    BY DEF StartWorkers
  <1>2. /\ pc'[Master] = "running"
        /\ Master \in Thread /\ Master \notin Worker
        /\ \A t \in Worker : pc'[t] = pc[t] /\ pc[t] = "getEvent"
    BY <1>1, MasterIsNoWorker DEF EngineInv, EngineTypeOK, WorkersInStep, InStep
  <1>3. /\ sent' = sent /\ horizon' = horizon /\ [ClientStep]_eventSetVars /\ IInv'
        /\ Pending' = Pending /\ processed_queue' = processed_queue
        /\ \A l \in LP : Processed(l)' = Processed(l)
    BY <1>1, <1>2, ClientStutters
  <1>4. /\ Known' = Known /\ InNetwork' = InNetwork /\ BeingCancelled' = BeingCancelled
        /\ KnownIsIdentified' /\ NetworkHoldsOnce'
        /\ OutputIsSent' /\ ToCancelIsSent' /\ SentIsRecorded'
    <2>1. gvt' = gvt /\ gvt \in Nat /\ gvt <= gvt' /\ held' = held
          /\ UNCHANGED <<network, generation, output_queue, events_to_cancel>>
      BY <1>1 DEF EngineInv, EngineTypeOK, lpVars, toSend
    <2> QED
      BY <1>3, <2>1, Quiet
  <1>5. EngineTypeOK'
    BY <1>1 DEF EngineInv, EngineTypeOK, lpVars, toSend
  <1>6. MasterControl'
    BY <1>1, <1>2, <1>3 DEF EngineInv, MasterControl, toSend
  <1>7. WorkersInStep'
    BY <1>1, <1>2, <1>3, OthersInStep DEF WorkersInStep, toSend
  <1>8. OutputIsCaused'
    <2> SUFFICES ASSUME NEW lp \in LP, NEW i \in DOMAIN output_queue[lp]
                 PROVE  \/ output_queue[lp][i].input = InitialEvent
                        \/ output_queue[lp][i].input \in Processed(lp)
      BY <1>1, <1>3 DEF EngineInv, OutputIsCaused, lpVars
    <2>1. JustReceived(lp) = {}
      BY <1>2, JustReceivedIs
    <2> QED
      BY <1>1, <2>1 DEF EngineInv, OutputIsCaused
  <1>9. ToSendIsCaused' /\ OutstandingNotBeforeGVT'
    <2>1. BeingSent' = BeingSent
      BY <1>1 DEF BeingSent, toSend
    <2> QED
      BY <1>1, <1>4, <2>1 DEF EngineInv, ToSendIsCaused, OutstandingNotBeforeGVT, toSend
  <1>10. FirstStateIsOld'
    BY <1>1 DEF EngineInv, FirstStateIsOld, lpVars
  <1> QED
    BY <1>3, <1>4, <1>5, <1>6, <1>7, <1>8, <1>9, <1>10 DEF EngineInv

(* The head of what a thread has to send is caused by the event the thread *)
(* handles, later than all that the LP has processed.                      *)
LEMMA NextToSend ==
  ASSUME EngineInv, NEW t \in Thread, new_events[t] # <<>>
  PROVE  LET next == Head(new_events[t])
         IN  /\ next.sender \in LP /\ next.recv \in LP /\ next.ts \in Nat
             /\ next.source \in Event /\ next.source.ts <= next.ts
             /\ next.ts < Infinity /\ gvt <= next.ts /\ gvt \in Nat
             /\ pc[Master] # "terminated"
             /\ t \in Worker => pc[t] = "sendEvents"
             /\ \/ next.source = InitialEvent
                \/ next.source \in JustReceived(next.sender)
             /\ \A i \in DOMAIN output_queue[next.sender] :
                    ~ Before(next.source, output_queue[next.sender][i].input)
  <1> DEFINE next == Head(new_events[t])
             q == output_queue[next.sender]
  <1>1. new_events[t] \in Seq(ToSend) /\ 1 \in DOMAIN new_events[t] /\ next = new_events[t][1]
    BY DEF EngineInv, EngineTypeOK
  <1>2. next \in ToSend
    BY <1>1
  <1>3. /\ next.sender \in LP /\ next.recv \in LP /\ next.ts \in Nat /\ next.source \in Event
        /\ gvt \in Nat
    BY <1>2 DEF ToSend, EngineInv, EngineTypeOK
  <1>4. /\ next.source = IF t = Master THEN InitialEvent ELSE held[t]
        /\ t # Master => next.sender = held[t].recv
        /\ next.source.ts <= next.ts /\ next.ts < Infinity
    BY <1>1 DEF EngineInv, ToSendIsCaused
  <1>5. gvt <= next.ts
    BY <1>1, BeingSentIs DEF EngineInv, OutstandingNotBeforeGVT
  <1> HIDE DEF next
  <1>6. \A i \in DOMAIN q :
           \/ q[i].input = InitialEvent
           \/ q[i].input \in Processed(next.sender) \cup JustReceived(next.sender)
           \/ pc[Master] = "terminated"
    BY <1>3 DEF EngineInv, OutputIsCaused
  <1>7. InitialEvent \in Event
    BY DEF InitialEvent, Event, POSITIVE
  <1>8. CASE t = Master
    <2>1. pc[Master] = "initialize" /\ processed_queue[next.sender] = <<>>
      BY <1>3, <1>8 DEF EngineInv, MasterControl
    <2>2. JustReceived(next.sender) = {} /\ Processed(next.sender) = {}
      BY <2>1, JustReceivedIs DEF Processed, EngineInv, WorkersInStep, InStep
    <2>3. \A i \in DOMAIN q : ~ Before(next.source, q[i].input)
      BY <1>4, <1>6, <1>7, <1>8, <2>1, <2>2, BeforeIsStrictOrder
    <2> QED
      BY <1>3, <1>4, <1>5, <1>8, <2>1, <2>3, MasterIsNoWorker DEF next
  <1>9. CASE t # Master
    <2>1. t \in Worker /\ pc[t] = "sendEvents"
      BY <1>9, MasterIsNoWorker DEF EngineInv, WorkersInStep, InStep
    <2>2. /\ held[t] \in Event /\ held[t].sender \in LP /\ held[t].recv \in LP
          /\ pc[Master] = "running" /\ held[t] # NoEvent
          /\ \A u \in Worker : held[u] # NoEvent /\ held[u].recv = held[t].recv => u = t
      BY <2>1, Engaged DEF Handling
    <2>3. ~ IsStraggler(held[t].recv, held[t])
      BY <2>1 DEF EngineInv, WorkersInStep, InStep, Handling
    <2>4. held[t] \in JustReceived(held[t].recv)
      BY <2>1, <2>2, JustReceivedIs
    <2>5. ASSUME NEW i \in DOMAIN q PROVE ~ Before(held[t], q[i].input)
      <3>1. CASE q[i].input = InitialEvent
        <4>1. held[t].sender > 0
          BY <2>2 DEF LP
        <4> QED
          BY <2>2, <3>1, <4>1, InitialEventIsFirst, BeforeIsStrictOrder
      <3>2. CASE q[i].input \in Processed(next.sender)
        BY <1>4, <1>9, <2>2, <2>3, <3>2, NothingProcessedIsLater DEF EngineInv
      <3>3. CASE q[i].input \in JustReceived(next.sender)
        <4>1. q[i].input = held[t]
          BY <1>4, <1>9, <2>2, <3>3, JustReceivedIs
        <4> QED
          BY <2>2, <4>1, BeforeIsStrictOrder
      <3> QED
        BY <1>6, <2>2, <3>1, <3>2, <3>3
    <2> QED
      BY <1>3, <1>4, <1>5, <1>9, <2>1, <2>2, <2>4, <2>5 DEF next
  <1> QED
    BY <1>8, <1>9

(* What becomes of a thread's list when its head has been dealt with.      *)
LEMMA TailFacts ==
  ASSUME NEW S, NEW q \in Seq(S), q # <<>>
  PROVE  /\ Tail(q) \in Seq(S)
         /\ \A i \in DOMAIN Tail(q) : i \in Nat /\ i + 1 \in DOMAIN q /\ Tail(q)[i] = q[i + 1]
         /\ 1 \in DOMAIN q /\ Head(q) = q[1] /\ Head(q) \in S
  OBVIOUS

LEMMA OutputAppended ==
  ASSUME EngineTypeOK, NEW lp \in LP, NEW r \in Recorded,
         output_queue' = [output_queue EXCEPT ![lp] = Append(@, r)]
  PROVE  /\ output_queue' \in [LP -> Seq(Recorded)]
         /\ \A l \in LP : \A i \in DOMAIN output_queue[l] :
               i \in DOMAIN output_queue'[l] /\ output_queue'[l][i] = output_queue[l][i]
         /\ \A l \in LP : \A i \in DOMAIN output_queue'[l] :
               \/ i \in DOMAIN output_queue[l] /\ output_queue'[l][i] = output_queue[l][i]
               \/ /\ l = lp /\ i = Len(output_queue[lp]) + 1 /\ output_queue'[l][i] = r
                  /\ \A j \in DOMAIN output_queue[l] : j \in Nat /\ j < i
         /\ \E i \in DOMAIN output_queue'[lp] : output_queue'[lp][i] = r
  <1> DEFINE q == output_queue[lp]
  <1>1. output_queue \in [LP -> Seq(Recorded)] /\ q \in Seq(Recorded) /\ Len(q) \in Nat
        /\ DOMAIN q = 1 .. Len(q)
    BY DEF EngineTypeOK
  <1>2. /\ Append(q, r) \in Seq(Recorded) /\ DOMAIN Append(q, r) = 1 .. Len(q) + 1
        /\ \A i \in 1 .. Len(q) : Append(q, r)[i] = q[i]
        /\ Append(q, r)[Len(q) + 1] = r
    BY <1>1
  <1>3. /\ output_queue' \in [LP -> Seq(Recorded)]
        /\ \A l \in LP : output_queue'[l] = IF l = lp THEN Append(q, r) ELSE output_queue[l]
    BY <1>1, <1>2
  <1>4. ASSUME NEW l \in LP, NEW i \in DOMAIN output_queue'[l]
        PROVE  \/ i \in DOMAIN output_queue[l] /\ output_queue'[l][i] = output_queue[l][i]
               \/ /\ l = lp /\ i = Len(q) + 1 /\ output_queue'[l][i] = r
                  /\ \A j \in DOMAIN output_queue[l] : j \in Nat /\ j < i
    BY <1>1, <1>2, <1>3, <1>4
  <1>5. \A l \in LP : \A i \in DOMAIN output_queue[l] :
               i \in DOMAIN output_queue'[l] /\ output_queue'[l][i] = output_queue[l][i]
    BY <1>1, <1>2, <1>3
  <1>6. Len(q) + 1 \in DOMAIN output_queue'[lp] /\ output_queue'[lp][Len(q) + 1] = r
    BY <1>1, <1>2, <1>3
  <1> QED
    BY <1>3, <1>4, <1>5, <1>6

(* The event is numbered, recorded and transmitted.                        *)
LEMMA SendEventSends ==
  ASSUME MessageIsAll, EngineInv, Remember, NEW t \in Thread, SendEvent(t),
         Head(new_events[t]).ts <= MaxSimTime
  PROVE  /\ [ClientStep]_eventSetVars /\ IInv'
         /\ KnownIsIdentified' /\ NetworkHoldsOnce'
         /\ OutputIsSent' /\ OutputIsCaused' /\ ToCancelIsSent' /\ SentIsRecorded'
         /\ network' \in [Scheduler \X Scheduler -> Seq(Event)]
         /\ output_queue' \in [LP -> Seq(Recorded)]
         /\ generation' \in [LP -> Nat]
         /\ processed_queue' = processed_queue /\ horizon' = horizon
         /\ \A e \in InNetwork' : gvt <= e.ts
  <1> DEFINE next == Head(new_events[t])
             lp == next.sender
             e == NewEvent(lp, next, next.source.ts, generation[lp])
             r == [input |-> next.source, output |-> e]
  <1>1. /\ new_events[t] # <<>>
        /\ generation' = [generation EXCEPT ![lp] = @ + 1]
        /\ output_queue' = [output_queue EXCEPT ![lp] = Append(@, r)]
        /\ Transmit(e)
        /\ UNCHANGED <<held, pc, events_to_cancel, state, state_queue, count,
                       last_fossil_collect_gvt, gvt>>
    BY DEF SendEvent
  <1>2. /\ lp \in LP /\ next.recv \in LP /\ next.ts \in Nat
        /\ next.source \in Event /\ next.source.ts <= next.ts
        /\ next.ts < Infinity /\ gvt <= next.ts /\ gvt \in Nat
        /\ pc[Master] # "terminated"
        /\ \/ next.source = InitialEvent
           \/ next.source \in JustReceived(lp)
        /\ \A i \in DOMAIN output_queue[lp] :
               ~ Before(next.source, output_queue[lp][i].input)
    BY <1>1, NextToSend
  <1>3. generation \in [LP -> Nat] /\ lp \in Nat
    BY <1>2 DEF EngineInv, EngineTypeOK, LP
  <1>4. /\ e.ts = next.ts /\ e.send = next.source.ts /\ e.sender = lp /\ e.gen = generation[lp]
        /\ e.recv = next.recv /\ e.type = POSITIVE
        /\ e \in Event
    BY <1>2, <1>3 DEF NewEvent, Event, LP
  <1>5. r \in Recorded /\ r.input = next.source /\ r.output = e
    BY <1>2, <1>4 DEF Recorded
  <1>6. next.ts <= MaxSimTime
    OBVIOUS
  <1> HIDE DEF e, next, r
  <1>7. e \in Message /\ e \in Sendable
    BY <1>2, <1>4, <1>6, MessageFacts DEF MessageIsAll
  <1>8. \A f \in Known : f.sender = lp => f.gen # generation[lp]
    <2> SUFFICES ASSUME NEW f \in Known, f.sender = lp PROVE f.gen # generation[lp]
      OBVIOUS
    <2>1. f.gen < generation[lp] /\ f \in Event
      BY SendableFacts DEF EngineInv, KnownIsIdentified
    <2> QED
      BY <1>2, <1>3, <2>1 DEF Event
  <1>9. e \notin Known /\ NegativeEvent(e) \notin Known /\ NegativeEvent(e) # e
    <2>1. NegativeEvent(e).sender = lp /\ NegativeEvent(e).gen = generation[lp]
      BY <1>4, <1>7 DEF NegativeEvent, Event
    <2> QED
      BY <1>4, <1>7, <1>8, <2>1, MessageFacts
  <1>10. /\ generation' \in [LP -> Nat] /\ e.gen < generation'[e.sender]
         /\ \A l \in LP : generation[l] <= generation'[l]
    <2>1. \A l \in LP : generation'[l] = IF l = lp THEN generation[l] + 1 ELSE generation[l]
      BY <1>1, <1>3
    <2>2. \A l \in LP : generation[l] \in Nat
      BY <1>3
    <2>3. generation' \in [LP -> Nat]
      BY <1>1, <1>2, <1>3, <2>2
    <2> QED
      BY <1>2, <1>4, <2>1, <2>2, <2>3
  <1>11. gvt <= e.ts /\ e.sender \in LP /\ e.send <= e.ts
    BY <1>2, <1>4
  <1>12. /\ [ClientStep]_eventSetVars /\ IInv'
         /\ Known' = Known \cup {e} /\ InNetwork' \subseteq InNetwork \cup {e}
         /\ network' \in [Scheduler \X Scheduler -> Seq(Event)]
         /\ NetworkHoldsOnce' /\ KnownIsIdentified'
         /\ processed_queue' = processed_queue /\ horizon' = horizon
    BY <1>1, <1>2, <1>4, <1>7, <1>8, <1>9, <1>10, <1>11, Transmitted
  <1>13. /\ output_queue' \in [LP -> Seq(Recorded)]
         /\ \A l \in LP : \A i \in DOMAIN output_queue[l] :
               i \in DOMAIN output_queue'[l] /\ output_queue'[l][i] = output_queue[l][i]
         /\ \A l \in LP : \A i \in DOMAIN output_queue'[l] :
               \/ i \in DOMAIN output_queue[l] /\ output_queue'[l][i] = output_queue[l][i]
               \/ /\ l = lp /\ i = Len(output_queue[lp]) + 1 /\ output_queue'[l][i] = r
                  /\ \A j \in DOMAIN output_queue[l] : j \in Nat /\ j < i
         /\ \E i \in DOMAIN output_queue'[lp] : output_queue'[lp][i] = r
    <2>1. EngineTypeOK /\ lp \in LP /\ r \in Recorded
      BY <1>2, <1>5 DEF EngineInv
    <2>2. output_queue' = [output_queue EXCEPT ![lp] = Append(@, r)]
      BY <1>1
    <2> HIDE DEF lp
    <2> QED
      BY <2>1, <2>2, OutputAppended
  <1>14. \A l \in LP : \A i \in DOMAIN output_queue[l] : output_queue[l][i].output # e
    BY <1>9 DEF EngineInv, OutputIsSent
  <1>15. OutputIsSent'
    <2> SUFFICES ASSUME NEW l \in LP, NEW i \in DOMAIN output_queue'[l]
                 PROVE  LET o == output_queue'[l][i]
                        IN  /\ o.output \in Known'
                            /\ o.output.type = POSITIVE
                            /\ o.output.sender = l
                            /\ o.output.send = o.input.ts
                            /\ NegativeEvent(o.output) \notin Known'
                            /\ \A j \in DOMAIN output_queue'[l] :
                                   output_queue'[l][j].output = o.output => i = j
      BY DEF OutputIsSent
    <2>1. CASE i \in DOMAIN output_queue[l] /\ output_queue'[l][i] = output_queue[l][i]
      <3> DEFINE o == output_queue[l][i]
      <3>1. /\ o.output \in Known /\ o.output.type = POSITIVE /\ o.output.sender = l
            /\ o.output.send = o.input.ts /\ NegativeEvent(o.output) \notin Known
            /\ \A j \in DOMAIN output_queue[l] : output_queue[l][j].output = o.output => i = j
        BY <2>1 DEF EngineInv, OutputIsSent
      <3>2. NegativeEvent(o.output) # e
        <4>1. o.output \in Event
          BY <3>1, SendableFacts DEF EngineInv, KnownIsIdentified
        <4> QED
          BY <1>4, <4>1 DEF NegativeEvent, Event, POSITIVE, NEGATIVE
      <3>3. \A j \in DOMAIN output_queue'[l] : output_queue'[l][j].output = o.output => i = j
        BY <1>5, <1>13, <1>14, <2>1, <3>1
      <3> QED
        BY <1>12, <2>1, <3>1, <3>2, <3>3
    <2>2. CASE l = lp /\ i = Len(output_queue[lp]) + 1 /\ output_queue'[l][i] = r
      <3>1. \A j \in DOMAIN output_queue'[l] : output_queue'[l][j].output = e => i = j
        BY <1>13, <1>14, <2>2
      <3> QED
        BY <1>4, <1>5, <1>9, <1>12, <2>2, <3>1
    <2> QED
      BY <1>13, <2>1, <2>2
  <1>16. OutputIsCaused'
    <2>1. \A l \in LP : Processed(l)' = Processed(l) /\ JustReceived(l)' = JustReceived(l)
      BY <1>1, <1>12 DEF Processed, JustReceived, HandledBy
    <2> SUFFICES ASSUME NEW l \in LP, NEW i \in DOMAIN output_queue'[l]
                 PROVE  /\ \A j \in DOMAIN output_queue'[l] : i < j =>
                               ~ Before(output_queue'[l][j].input, output_queue'[l][i].input)
                        /\ \/ output_queue'[l][i].input = InitialEvent
                           \/ output_queue'[l][i].input \in Processed(l) \cup JustReceived(l)
                           \/ pc[Master] = "terminated"
      BY <1>1, <2>1 DEF OutputIsCaused
    <2>2. CASE i \in DOMAIN output_queue[l] /\ output_queue'[l][i] = output_queue[l][i]
      <3>1. \A j \in DOMAIN output_queue'[l] : i < j =>
                ~ Before(output_queue'[l][j].input, output_queue[l][i].input)
        BY <1>2, <1>5, <1>13, <2>2 DEF EngineInv, OutputIsCaused
      <3> QED
        BY <2>2, <3>1 DEF EngineInv, OutputIsCaused
    <2>3. CASE l = lp /\ i = Len(output_queue[lp]) + 1 /\ output_queue'[l][i] = r
      <3>1. \A j \in DOMAIN output_queue'[l] : ~ (i < j)
        <4>1. output_queue[lp] \in Seq(Recorded) /\ i \in Nat
          BY <1>2, <2>3 DEF EngineInv, EngineTypeOK
        <4>2. \A j \in DOMAIN output_queue[lp] : j \in Nat /\ j < i
          BY <2>3, <4>1
        <4>3. ASSUME NEW j \in DOMAIN output_queue'[l] PROVE j = i \/ (j \in Nat /\ j < i)
          <5>1. j \in DOMAIN output_queue[l] \/ (l = lp /\ j = Len(output_queue[lp]) + 1)
            BY <1>13
          <5> QED
            BY <2>3, <4>2, <5>1
        <4> QED
          BY <4>1, <4>3
      <3> QED
        BY <1>2, <1>5, <2>3, <3>1
    <2> QED
      BY <1>13, <2>2, <2>3
  <1>17. ToCancelIsSent'
    <2>0. events_to_cancel' = events_to_cancel /\ held' = held
      BY <1>1
    <2> SUFFICES ASSUME NEW u \in Worker, NEW i \in DOMAIN events_to_cancel[u]
                 PROVE  LET c == events_to_cancel[u][i]
                        IN  /\ c \in Known'
                            /\ c.type = POSITIVE
                            /\ c.sender = held[u].recv
                            /\ NegativeEvent(c) \notin Known'
                            /\ \A j \in DOMAIN events_to_cancel[u] :
                                   events_to_cancel[u][j] = c => i = j
                            /\ \A j \in DOMAIN output_queue'[c.sender] :
                                   output_queue'[c.sender][j].output # c
      BY <2>0 DEF ToCancelIsSent
    <2> DEFINE c == events_to_cancel[u][i]
    <2>1. /\ c \in Known /\ c.type = POSITIVE /\ c.sender = held[u].recv
          /\ NegativeEvent(c) \notin Known
          /\ \A j \in DOMAIN events_to_cancel[u] : events_to_cancel[u][j] = c => i = j
          /\ \A j \in DOMAIN output_queue[c.sender] : output_queue[c.sender][j].output # c
      BY DEF EngineInv, ToCancelIsSent
    <2>2. c \in Event /\ c.sender \in LP
      BY <2>1, SendableFacts DEF EngineInv, KnownIsIdentified
    <2> HIDE DEF c
    <2>3. NegativeEvent(c) # e
      BY <1>4, <2>2 DEF NegativeEvent, Event, POSITIVE, NEGATIVE
    <2>4. \A j \in DOMAIN output_queue'[c.sender] : output_queue'[c.sender][j].output # c
      BY <1>5, <1>9, <1>13, <2>1, <2>2
    <2> QED
      BY <1>12, <2>1, <2>3, <2>4 DEF c
  <1>18. SentIsRecorded'
    <2> SUFFICES ASSUME NEW f \in Known', f.type = POSITIVE
                 PROVE  \/ \E i \in DOMAIN output_queue'[f.sender] : output_queue'[f.sender][i].output = f
                        \/ f \in BeingCancelled
                        \/ NegativeEvent(f) \in Known'
                        \/ f.send < gvt
      BY <1>1 DEF SentIsRecorded, BeingCancelled
    <2>1. CASE f = e
      BY <1>4, <1>5, <1>13, <2>1
    <2>2. CASE f \in Known
      <3>1. f.sender \in LP
        BY <2>2 DEF EngineInv, KnownIsIdentified
      <3>2. Known \subseteq Known'
        BY <1>12
      <3>3. \/ \E i \in DOMAIN output_queue[f.sender] : output_queue[f.sender][i].output = f
            \/ f \in BeingCancelled
            \/ NegativeEvent(f) \in Known
            \/ f.send < gvt
        BY <2>2 DEF EngineInv, SentIsRecorded
      <3>4. \A i \in DOMAIN output_queue[f.sender] :
               i \in DOMAIN output_queue'[f.sender]
               /\ output_queue'[f.sender][i] = output_queue[f.sender][i]
        BY <1>13, <3>1
      <3> QED
        BY <3>2, <3>3, <3>4
    <2> QED
      BY <1>12, <2>1, <2>2
  <1>19. \A f \in InNetwork' : gvt <= f.ts
    BY <1>11, <1>12 DEF EngineInv, OutstandingNotBeforeGVT
  <1> QED
    BY <1>10, <1>12, <1>13, <1>15, <1>16, <1>17, <1>18, <1>19

LEMMA SendEventStep ==
  ASSUME MessageIsAll, EngineInv, Remember, NEW t \in Thread, SendEvent(t)
  PROVE  [ClientStep]_eventSetVars /\ EngineInv'
  <1>1. /\ new_events[t] # <<>>
        /\ new_events' = [new_events EXCEPT ![t] = Tail(@)]
        /\ UNCHANGED <<held, pc, events_to_cancel, state, state_queue, count,
                       last_fossil_collect_gvt, gvt>>
    BY DEF SendEvent
  <1>2. Head(new_events[t]).ts \in Nat
    BY <1>1, NextToSend
  <1>3. /\ [ClientStep]_eventSetVars /\ IInv'
        /\ KnownIsIdentified' /\ NetworkHoldsOnce'
        /\ OutputIsSent' /\ OutputIsCaused' /\ ToCancelIsSent' /\ SentIsRecorded'
        /\ network' \in [Scheduler \X Scheduler -> Seq(Event)]
        /\ output_queue' \in [LP -> Seq(Recorded)]
        /\ generation' \in [LP -> Nat]
        /\ processed_queue' = processed_queue /\ horizon' = horizon
        /\ \A e \in InNetwork' : gvt <= e.ts
    <2>1. CASE Head(new_events[t]).ts <= MaxSimTime
      BY <2>1, SendEventSends
    <2>2. CASE ~ (Head(new_events[t]).ts <= MaxSimTime)
      <3>1. UNCHANGED <<queues, generation, output_queue, network>>
        BY <2>2 DEF SendEvent
      <3>2. /\ sent' = sent /\ horizon' = horizon /\ [ClientStep]_eventSetVars /\ IInv'
            /\ processed_queue' = processed_queue
            /\ \A l \in LP : Processed(l)' = Processed(l)
        BY <1>1, <3>1, ClientStutters
      <3>3. gvt' = gvt /\ gvt \in Nat /\ gvt <= gvt' /\ held' = held
            /\ UNCHANGED <<network, generation, output_queue, events_to_cancel>>
        BY <1>1, <3>1 DEF EngineInv, EngineTypeOK
      <3>4. /\ InNetwork' = InNetwork
            /\ KnownIsIdentified' /\ NetworkHoldsOnce'
            /\ OutputIsSent' /\ ToCancelIsSent' /\ SentIsRecorded'
        BY <3>2, <3>3, Quiet
      <3>5. OutputIsCaused'
        <4>1. \A l \in LP : JustReceived(l)' = JustReceived(l)
          BY <1>1 DEF JustReceived, HandledBy
        <4> QED
          BY <1>1, <3>1, <3>2, <4>1, CausesStand
      <3> QED
        BY <3>1, <3>2, <3>4, <3>5 DEF EngineInv, EngineTypeOK, OutstandingNotBeforeGVT
    <2> QED
      BY <2>1, <2>2
  <1>4. /\ new_events \in [Thread -> Seq(ToSend)]
        /\ new_events' \in [Thread -> Seq(ToSend)]
        /\ \A u \in Thread : \A i \in DOMAIN new_events'[u] :
              \E j \in DOMAIN new_events[u] : new_events'[u][i] = new_events[u][j]
        /\ \A u \in Thread : new_events[u] = <<>> => new_events'[u] = <<>>
    <2>1. new_events \in [Thread -> Seq(ToSend)]
      BY DEF EngineInv, EngineTypeOK
    <2>2. /\ Tail(new_events[t]) \in Seq(ToSend)
          /\ \A i \in DOMAIN Tail(new_events[t]) :
                i + 1 \in DOMAIN new_events[t] /\ Tail(new_events[t])[i] = new_events[t][i + 1]
      BY <1>1, <2>1, TailFacts
    <2>3. \A u \in Thread : new_events'[u] = IF u = t THEN Tail(new_events[t]) ELSE new_events[u]
      BY <1>1, <2>1
    <2>4. new_events' \in [Thread -> Seq(ToSend)]
      BY <1>1, <2>1, <2>2
    <2> QED
      BY <1>1, <2>1, <2>2, <2>3, <2>4
  <1>5. EngineTypeOK'
    BY <1>1, <1>3, <1>4 DEF EngineInv, EngineTypeOK
  <1>6. MasterControl'
    <2>1. Outstanding' = {} \/ pc[Master] # "terminated"
      BY <1>1, NextToSend
    <2> QED
      BY <1>1, <1>3, <1>4, <2>1, MasterIsNoWorker DEF EngineInv, MasterControl
  <1>7. WorkersInStep'
    <2> SUFFICES ASSUME NEW u \in Worker PROVE InStep(u)'
      BY DEF WorkersInStep
    <2>1. u \in Thread
      BY MasterIsNoWorker
    <2>2. InStep(u) /\ (new_events[u] = <<>> => new_events'[u] = <<>>)
      BY <1>4, <2>1 DEF EngineInv, WorkersInStep
    <2> QED
      BY <1>1, <1>3, <2>2 DEF InStep, IsStraggler, lastProcessedEvent
  <1>8. ToSendIsCaused'
    <2> SUFFICES ASSUME NEW u \in Thread, NEW i \in DOMAIN new_events'[u]
                 PROVE  LET next == new_events'[u][i]
                        IN  /\ next.source = IF u = Master THEN InitialEvent ELSE held[u]
                            /\ u # Master => next.sender = held[u].recv
                            /\ next.source.ts <= next.ts
                            /\ next.ts < Infinity
      BY <1>1 DEF ToSendIsCaused
    <2>1. PICK j \in DOMAIN new_events[u] : new_events'[u][i] = new_events[u][j]
      BY <1>4
    <2> QED
      BY <2>1 DEF EngineInv, ToSendIsCaused
  <1>9. OutstandingNotBeforeGVT'
    <2>1. ASSUME NEW e \in BeingSent' PROVE gvt <= e.ts
      <3>1. \E u \in Thread : \E i \in DOMAIN new_events'[u] : e = new_events'[u][i]
        BY <2>1 DEF BeingSent, ToSet
      <3>2. e \in BeingSent
        BY <1>4, <3>1, BeingSentIs
      <3> QED
        BY <3>2 DEF EngineInv, OutstandingNotBeforeGVT
    <2>2. BeingCancelled' = BeingCancelled
      BY <1>1 DEF BeingCancelled
    <2> QED
      BY <1>1, <1>3, <2>1, <2>2 DEF EngineInv, OutstandingNotBeforeGVT
  <1>10. FirstStateIsOld'
    BY <1>1 DEF EngineInv, FirstStateIsOld
  <1> QED
    BY <1>3, <1>5, <1>6, <1>7, <1>8, <1>9, <1>10 DEF EngineInv

(* Sending an anti-message: the event is known, not recorded any more and  *)
(* not yet cancelled.                                                      *)
LEMMA SendAntiMessageStep ==
  ASSUME EngineInv, Remember, NEW t \in Worker, SendAntiMessage(t)
  PROVE  [ClientStep]_eventSetVars /\ EngineInv'
  <1> DEFINE q == events_to_cancel[t]
             e == Head(q)
             n == NegativeEvent(e)
  <1>1. /\ q # <<>>
        /\ events_to_cancel' = [events_to_cancel EXCEPT ![t] = Tail(@)]
        /\ Transmit(n)
        /\ UNCHANGED <<held, pc, new_events, state, state_queue, count, output_queue,
                       generation, last_fossil_collect_gvt, gvt>>
    BY DEF SendAntiMessage, lpVars
  <1>2. /\ events_to_cancel \in [Worker -> Seq(Event)] /\ q \in Seq(Event)
        /\ Tail(q) \in Seq(Event)
        /\ \A i \in DOMAIN Tail(q) : i \in Nat /\ i + 1 \in DOMAIN q /\ Tail(q)[i] = q[i + 1]
        /\ 1 \in DOMAIN q /\ e = q[1]
    <2>1. events_to_cancel \in [Worker -> Seq(Event)] /\ q \in Seq(Event)
      BY DEF EngineInv, EngineTypeOK
    <2> QED
      BY <1>1, <2>1, TailFacts
  <1>3. /\ \A u \in Worker : events_to_cancel'[u] = IF u = t THEN Tail(q) ELSE events_to_cancel[u]
        /\ events_to_cancel' \in [Worker -> Seq(Event)]
    BY <1>1, <1>2
  <1>4. pc[t] = "cancelEvents" /\ pc[Master] = "running" /\ gvt \in Nat
        /\ \A u \in Worker : held[u] # NoEvent /\ held[u].recv = held[t].recv => u = t
    <2>1. pc[t] = "cancelEvents"
      BY <1>1 DEF EngineInv, WorkersInStep, InStep
    <2> QED
      BY <2>1, Engaged DEF Handling
  <1>5. /\ e \in Known /\ e.type = POSITIVE /\ e.sender = held[t].recv /\ n \notin Known
        /\ \A j \in DOMAIN q : q[j] = e => j = 1
        /\ \A j \in DOMAIN output_queue[e.sender] : output_queue[e.sender][j].output # e
    <2>1. /\ q[1] \in Known /\ q[1].type = POSITIVE /\ q[1].sender = held[t].recv
          /\ NegativeEvent(q[1]) \notin Known
          /\ \A j \in DOMAIN q : q[j] = q[1] => 1 = j
          /\ \A j \in DOMAIN output_queue[q[1].sender] :
                 output_queue[q[1].sender][j].output # q[1]
      BY <1>2 DEF EngineInv, ToCancelIsSent
    <2> HIDE DEF e, q
    <2> QED
      BY <1>2, <2>1
  <1>6. e \in BeingCancelled /\ gvt <= e.ts
    BY <1>2, BeingCancelledIs DEF EngineInv, OutstandingNotBeforeGVT
  <1>7. /\ e \in Sendable /\ e.sender \in LP /\ e.gen < generation[e.sender] /\ e.send <= e.ts
        /\ \A f \in Known : f.sender = e.sender /\ f.gen = e.gen => PositiveEvent(f) = PositiveEvent(e)
        /\ Known \subseteq Sendable
    BY <1>5 DEF EngineInv, KnownIsIdentified
  <1>8. /\ n \in Sendable /\ n.sender = e.sender /\ n.gen = e.gen /\ n.ts = e.ts
        /\ n.send = e.send /\ PositiveEvent(n) = e /\ PositiveEvent(e) = e
        /\ n.type = NEGATIVE /\ e \in Event
    <2>1. e \in Message
      BY <1>5, <1>7, SendableFacts
    <2>2. e \in Event
      BY <2>1, MessageFacts
    <2>3. n.sender = e.sender /\ n.gen = e.gen /\ n.ts = e.ts /\ n.send = e.send
      BY <2>2 DEF NegativeEvent, Event
    <2> QED
      BY <2>1, <2>2, <2>3, MessageFacts
  <1>9. generation \in [LP -> Nat] /\ generation' = generation
    BY <1>1 DEF EngineInv, EngineTypeOK
  <1> HIDE DEF e, n, q
  <1>10. /\ [ClientStep]_eventSetVars /\ IInv'
         /\ Known' = Known \cup {n} /\ InNetwork' \subseteq InNetwork \cup {n}
         /\ network' \in [Scheduler \X Scheduler -> Seq(Event)]
         /\ NetworkHoldsOnce' /\ KnownIsIdentified'
         /\ processed_queue' = processed_queue /\ horizon' = horizon
    <2>1. /\ n \in Sendable /\ n \notin Known /\ gvt <= n.ts /\ pc[Master] # "terminated"
          /\ n.sender \in LP /\ n.send <= n.ts /\ n.gen < generation'[n.sender]
          /\ generation' \in [LP -> Nat] /\ \A l \in LP : generation[l] <= generation'[l]
          /\ \A f \in Known : f.sender = n.sender /\ f.gen = n.gen
                             => PositiveEvent(f) = PositiveEvent(n)
      BY <1>4, <1>5, <1>6, <1>7, <1>8, <1>9
    <2>2. Transmit(n) /\ held' = held /\ pc' = pc /\ gvt' = gvt
      BY <1>1
    <2> QED
      BY <2>1, <2>2, Transmitted
  <1>11. ASSUME NEW c \in Event, NegativeEvent(c) = n, c.type = POSITIVE
         PROVE  c = e
    BY <1>5, <1>8, <1>11 DEF NegativeEvent, PositiveEvent, Event, n
  <1>12. OutputIsSent'
    <2> SUFFICES ASSUME NEW l \in LP, NEW i \in DOMAIN output_queue[l]
                 PROVE  NegativeEvent(output_queue[l][i].output) # n
      BY <1>1, <1>10 DEF EngineInv, OutputIsSent
    <2> DEFINE c == output_queue[l][i].output
    <2>1. c \in Known /\ c.type = POSITIVE /\ c.sender = l
      BY DEF EngineInv, OutputIsSent
    <2>2. c \in Event
      BY <1>7, <2>1, SendableFacts
    <2>3. c # e
      BY <1>5, <2>1
    <2> QED
      BY <1>11, <2>1, <2>2, <2>3
  <1>13. OutputIsCaused'
    <2>1. \A l \in LP : JustReceived(l)' = JustReceived(l) /\ Processed(l)' = Processed(l)
      BY <1>1, <1>10 DEF JustReceived, HandledBy, Processed
    <2> QED
      BY <1>1, <2>1, CausesStand
  <1>14. ToCancelIsSent'
    <2>0. output_queue' = output_queue /\ held' = held
      BY <1>1
    <2> SUFFICES ASSUME NEW u \in Worker, NEW i \in DOMAIN events_to_cancel'[u]
                 PROVE  LET c == events_to_cancel'[u][i]
                        IN  /\ c \in Known'
                            /\ c.type = POSITIVE
                            /\ c.sender = held[u].recv
                            /\ NegativeEvent(c) \notin Known'
                            /\ \A j \in DOMAIN events_to_cancel'[u] :
                                   events_to_cancel'[u][j] = c => i = j
                            /\ \A j \in DOMAIN output_queue[c.sender] :
                                   output_queue[c.sender][j].output # c
      BY <2>0 DEF ToCancelIsSent
    <2> DEFINE c == events_to_cancel'[u][i]
    <2>1. /\ c \in Known /\ c.type = POSITIVE /\ c.sender = held[u].recv
          /\ NegativeEvent(c) \notin Known
          /\ \A j \in DOMAIN events_to_cancel'[u] : events_to_cancel'[u][j] = c => i = j
          /\ \A j \in DOMAIN output_queue[c.sender] : output_queue[c.sender][j].output # c
          /\ c # e
      <3>1. CASE u = t
        <4>1. /\ i \in DOMAIN Tail(q) /\ c = Tail(q)[i] /\ i \in Nat
              /\ i + 1 \in DOMAIN q /\ c = q[i + 1] /\ i + 1 # 1
              /\ events_to_cancel'[u] = Tail(q)
          BY <1>2, <1>3, <3>1
        <4>2. \A j \in DOMAIN events_to_cancel'[u] :
                 j \in Nat /\ j + 1 \in DOMAIN q /\ events_to_cancel'[u][j] = q[j + 1]
          BY <1>2, <4>1
        <4>3. /\ c \in Known /\ c.type = POSITIVE /\ c.sender = held[u].recv
              /\ NegativeEvent(c) \notin Known
              /\ \A j \in DOMAIN q : q[j] = c => i + 1 = j
              /\ \A j \in DOMAIN output_queue[c.sender] : output_queue[c.sender][j].output # c
          BY <3>1, <4>1 DEF EngineInv, ToCancelIsSent, q
        <4>4. c # e
          BY <1>2, <4>1, <4>3
        <4> HIDE DEF c
        <4>5. \A j \in DOMAIN events_to_cancel'[u] : events_to_cancel'[u][j] = c => i = j
          BY <4>1, <4>2, <4>3
        <4> QED
          BY <4>3, <4>4, <4>5
      <3>2. CASE u # t
        <4>1. events_to_cancel'[u] = events_to_cancel[u]
          BY <1>3, <3>2
        <4>2. /\ c \in Known /\ c.type = POSITIVE /\ c.sender = held[u].recv
              /\ NegativeEvent(c) \notin Known
              /\ \A j \in DOMAIN events_to_cancel[u] : events_to_cancel[u][j] = c => i = j
              /\ \A j \in DOMAIN output_queue[c.sender] : output_queue[c.sender][j].output # c
          BY <4>1 DEF EngineInv, ToCancelIsSent
        <4>3. c # e
          <5>1. events_to_cancel[u] # <<>>
            <6>1. events_to_cancel[u] \in Seq(Event) /\ i \in DOMAIN events_to_cancel[u]
              BY <1>2, <4>1
            <6> QED
              BY <6>1
          <5>2. held[u] # NoEvent
            BY <5>1 DEF EngineInv, WorkersInStep, InStep
          <5> QED
            BY <1>4, <1>5, <3>2, <4>2, <5>2
        <4> QED
          BY <4>1, <4>2, <4>3
      <3> QED
        BY <3>1, <3>2
    <2>2. c \in Event
      BY <1>7, <2>1, SendableFacts
    <2>3. c \in Known' /\ NegativeEvent(c) \notin Known'
      BY <1>10, <1>11, <2>1, <2>2
    <2> QED
      BY <2>1, <2>3
  <1>15. SentIsRecorded'
    <2> SUFFICES ASSUME NEW f \in Known', f.type = POSITIVE
                 PROVE  \/ \E i \in DOMAIN output_queue[f.sender] : output_queue[f.sender][i].output = f
                        \/ f \in BeingCancelled'
                        \/ NegativeEvent(f) \in Known'
                        \/ f.send < gvt
      BY <1>1 DEF SentIsRecorded
    <2>1. f \in Known
      BY <1>8, <1>10 DEF POSITIVE, NEGATIVE
    <2>2. CASE f \in BeingCancelled
      <3>1. PICK u \in Worker : \E i \in DOMAIN events_to_cancel[u] : f = events_to_cancel[u][i]
        BY <2>2, BeingCancelledIs
      <3>2. PICK i \in DOMAIN events_to_cancel[u] : f = events_to_cancel[u][i]
        BY <3>1
      <3>3. CASE u = t /\ i = 1
        BY <1>2, <1>10, <3>2, <3>3 DEF n, q
      <3>4. CASE u = t /\ i # 1
        <4>1. i \in DOMAIN q /\ i # 1 /\ f = q[i]
          BY <3>2, <3>4 DEF q
        <4>2. i - 1 \in DOMAIN Tail(q) /\ Tail(q)[i - 1] = q[i]
          BY <1>2, <4>1
        <4>3. i - 1 \in DOMAIN events_to_cancel'[t] /\ events_to_cancel'[t][i - 1] = f
          BY <1>3, <4>1, <4>2
        <4> QED
          BY <4>3 DEF BeingCancelled, ToSet
      <3>5. CASE u # t
        <4>1. i \in DOMAIN events_to_cancel'[u] /\ events_to_cancel'[u][i] = f
          BY <1>3, <3>2, <3>5
        <4> QED
          BY <4>1 DEF BeingCancelled, ToSet
      <3> QED
        BY <3>3, <3>4, <3>5
    <2> QED
      BY <1>10, <2>1, <2>2 DEF EngineInv, SentIsRecorded
  <1>16. EngineTypeOK'
    BY <1>1, <1>3, <1>10 DEF EngineInv, EngineTypeOK
  <1>17. MasterControl'
    BY <1>1, <1>4, <1>10 DEF EngineInv, MasterControl
  <1>18. WorkersInStep'
    <2> SUFFICES ASSUME NEW u \in Worker PROVE InStep(u)'
      BY DEF WorkersInStep
    <2>1. CASE u = t
      <3>1. InStep(u) /\ pc[u] = "cancelEvents"
        BY <1>4, <2>1 DEF EngineInv, WorkersInStep
      <3> QED
        BY <1>1, <1>10, <3>1 DEF InStep, IsStraggler, lastProcessedEvent
    <2>2. CASE u # t
      BY <1>1, <1>3, <1>10, <2>2, OthersInStep
    <2> QED
      BY <2>1, <2>2
  <1>19. ToSendIsCaused'
    BY <1>1 DEF EngineInv, ToSendIsCaused
  <1>20. OutstandingNotBeforeGVT'
    <2>1. BeingSent' = BeingSent
      BY <1>1 DEF BeingSent
    <2>2. ASSUME NEW f \in BeingCancelled' PROVE f \in BeingCancelled
      <3>1. PICK u \in Worker : \E i \in DOMAIN events_to_cancel'[u] : f = events_to_cancel'[u][i]
        BY <2>2 DEF BeingCancelled, ToSet
      <3>2. \E i \in DOMAIN events_to_cancel[u] : f = events_to_cancel[u][i]
        BY <1>2, <1>3, <3>1 DEF q
      <3> QED
        BY <3>2, BeingCancelledIs
    <2> QED
      BY <1>1, <1>6, <1>8, <1>10, <2>1, <2>2 DEF EngineInv, OutstandingNotBeforeGVT
  <1>21. FirstStateIsOld'
    BY <1>1 DEF EngineInv, FirstStateIsOld
  <1> QED
    BY <1>10, <1>12, <1>13, <1>14, <1>15, <1>16, <1>17, <1>18, <1>19, <1>20, <1>21 DEF EngineInv

LEMMA ReceiveMessageStep ==
  ASSUME EngineInv, Remember, NEW link \in DOMAIN network, NEW i \in DOMAIN network[link],
         Receive(link, i)
  PROVE  [ClientStep]_eventSetVars /\ EngineInv'
  <1> DEFINE e == network[link][i]
  <1>1. /\ insertEvent(e.recv, e)
        /\ network' = [network EXCEPT ![link] = RemoveAt(@, i)]
        /\ UNCHANGED <<held, pc, new_events, events_to_cancel, state, state_queue, count,
                       output_queue, generation, last_fossil_collect_gvt, gvt>>
    BY DEF Receive, toSend, lpVars
  <1>2. link \in Scheduler \X Scheduler
    BY InNetworkIs DEF EngineInv
  <1>3. e \in InNetwork /\ e \in Known
    BY <1>2, InNetworkIs DEF EngineInv, Known
  <1>4. /\ e \in Sendable /\ e \notin sent /\ gvt <= e.ts
        /\ \A f \in sent : f.sender = e.sender /\ f.gen = e.gen => PositiveEvent(f) = PositiveEvent(e)
    <2>1. e \in Sendable /\ gvt <= e.ts
      BY <1>3 DEF EngineInv, KnownIsIdentified, OutstandingNotBeforeGVT
    <2>2. e \notin sent
      BY <1>3 DEF EngineInv, NetworkHoldsOnce
    <2>3. \A f \in sent : f.sender = e.sender /\ f.gen = e.gen => PositiveEvent(f) = PositiveEvent(e)
      BY <1>3 DEF EngineInv, KnownIsIdentified, Known
    <2> QED
      BY <2>1, <2>2, <2>3
  <1>5. pc[Master] # "terminated"
    BY <1>3 DEF EngineInv, MasterControl, Outstanding
  <1>6. horizon = gvt /\ horizon' = horizon
    BY <1>1, <1>5 DEF EngineInv, MasterControl, Remember
  <1> HIDE DEF e
  <1>7. e \in Event /\ gvt \in Nat /\ e.ts \in Nat /\ e.ts >= horizon
    <2>1. e \in Event /\ gvt \in Nat
      BY <1>4, SendableFacts DEF EngineInv, EngineTypeOK
    <2> QED
      BY <1>4, <1>6, <2>1 DEF Event
  <1>8. Insert(e) /\ IInv' /\ sent' = sent \cup {e} /\ processed_queue' = processed_queue
    <2>1. IInv /\ sent' = sent \cup Pending' /\ held' = held
      BY <1>1 DEF EngineInv, Remember
    <2> QED
      BY <1>1, <1>4, <1>6, <1>7, <2>1, Inserted
  <1>9. [ClientStep]_eventSetVars
    BY <1>4, <1>8 DEF ClientStep
  <1>10. /\ network' \in [Scheduler \X Scheduler -> Seq(Event)]
         /\ InNetwork' \subseteq InNetwork /\ Known' = Known /\ NetworkHoldsOnce'
    BY <1>1, <1>2, <1>8, NetworkDelivers DEF EngineInv, e
  <1>11. KnownIsIdentified' /\ OutputIsSent' /\ ToCancelIsSent' /\ SentIsRecorded'
    <2>1. KnownIsIdentified'
      BY <1>1, <1>10 DEF EngineInv, KnownIsIdentified
    <2>2. OutputIsSent'
      BY <1>1, <1>10 DEF EngineInv, OutputIsSent
    <2>0. UNCHANGED <<held, events_to_cancel, output_queue>> /\ Known' = Known
      BY <1>1, <1>10
    <2>3. ToCancelIsSent'
      BY <2>0 DEF EngineInv, ToCancelIsSent
    <2>4. BeingCancelled' = BeingCancelled
      BY <1>1 DEF BeingCancelled
    <2>5. SentIsRecorded'
      BY <1>1, <1>10, <2>4 DEF EngineInv, SentIsRecorded
    <2> QED
      BY <2>1, <2>2, <2>3, <2>5
  <1>12. OutputIsCaused'
    <2>1. \A l \in LP : JustReceived(l)' = JustReceived(l) /\ Processed(l)' = Processed(l)
      BY <1>1, <1>8 DEF JustReceived, HandledBy, Processed
    <2> QED
      BY <1>1, <2>1, CausesStand
  <1>13. EngineTypeOK'
    BY <1>1, <1>10 DEF EngineInv, EngineTypeOK
  <1>14. MasterControl'
    BY <1>1, <1>5, <1>6, <1>8 DEF EngineInv, MasterControl
  <1>15. WorkersInStep'
    BY <1>1, <1>8, OthersInStep DEF WorkersInStep
  <1>16. ToSendIsCaused'
    BY <1>1 DEF EngineInv, ToSendIsCaused
  <1>17. OutstandingNotBeforeGVT'
    <2>1. BeingSent' = BeingSent /\ BeingCancelled' = BeingCancelled
      BY <1>1 DEF BeingSent, BeingCancelled
    <2> QED
      BY <1>1, <1>10, <2>1 DEF EngineInv, OutstandingNotBeforeGVT
  <1>18. FirstStateIsOld'
    BY <1>1 DEF EngineInv, FirstStateIsOld
  <1> QED
    BY <1>8, <1>9, <1>10, <1>11, <1>12, <1>13, <1>14, <1>15, <1>16, <1>17, <1>18 DEF EngineInv

(* A step of a worker that neither sends, saves, collects nor forgets.     *)
LEMMA WorkerStepInv ==
  ASSUME EngineInv, IInv', sent' = sent, horizon' = horizon,
         UNCHANGED <<new_events, events_to_cancel, state_queue, count, output_queue,
                     generation, gvt, network>>,
         pc[Master] = "running", pc'[Master] = "running",
         pc' \in [Thread -> Handling \cup {"getEvent", "initialize", "running", "terminated"}],
         \A u \in Worker : events_to_cancel[u] # <<>> \/ new_events[u] # <<>>
                               => held'[u] = held[u],
         WorkersInStep', OutputIsCaused'
  PROVE  EngineInv'
  <1>1. gvt' = gvt /\ gvt \in Nat /\ gvt <= gvt'
        /\ UNCHANGED <<network, generation, output_queue, events_to_cancel>>
    BY DEF EngineInv, EngineTypeOK
  <1>2. /\ InNetwork' = InNetwork /\ BeingCancelled' = BeingCancelled
        /\ KnownIsIdentified' /\ NetworkHoldsOnce'
        /\ OutputIsSent' /\ ToCancelIsSent' /\ SentIsRecorded'
    BY <1>1, Quiet
  <1>3. EngineTypeOK'
    BY DEF EngineInv, EngineTypeOK
  <1>4. MasterControl'
    BY DEF EngineInv, MasterControl
  <1>5. ToSendIsCaused'
    <2> SUFFICES ASSUME NEW u \in Thread, NEW i \in DOMAIN new_events[u]
                 PROVE  u = Master \/ held'[u] = held[u]
      BY DEF EngineInv, ToSendIsCaused
    <2>1. new_events[u] # <<>>
      <3>1. new_events[u] \in Seq(ToSend)
        BY DEF EngineInv, EngineTypeOK
      <3> QED
        BY <3>1
    <2> QED
      BY <2>1, MasterIsNoWorker
  <1>6. OutstandingNotBeforeGVT'
    <2>1. BeingSent' = BeingSent
      BY DEF BeingSent
    <2> QED
      BY <1>2, <2>1 DEF EngineInv, OutstandingNotBeforeGVT
  <1>7. FirstStateIsOld'
    BY DEF EngineInv, FirstStateIsOld
  <1> QED
    BY <1>2, <1>3, <1>4, <1>5, <1>6, <1>7 DEF EngineInv

LEMMA GetEventStep ==
  ASSUME EngineInv, Remember, NEW t \in Worker, NEW event \in Pending, GetEvent(t, event)
  PROVE  [ClientStep]_eventSetVars /\ EngineInv'
  <1> DEFINE next == IF IsStraggler(event.recv, event) THEN "rollback" ELSE Handle(event)
  <1>1. /\ pc[Master] = "running" /\ pc[t] = "getEvent"
        /\ getEvent(t, event)
        /\ held' = [held EXCEPT ![t] = event]
        /\ pc' = [pc EXCEPT ![t] = next]
        /\ UNCHANGED <<new_events, events_to_cancel, state, state_queue, count, output_queue,
                       generation, last_fossil_collect_gvt, gvt, network>>
    BY DEF GetEvent, Goto, toSend, lpVars
  <1>2. /\ event \in Event /\ event # NoEvent /\ event.type \in {NEGATIVE, POSITIVE}
        /\ event.recv \in LP
    <2>1. PICK lp \in LP : event \in input_queue[lp]
      BY DEF Pending
    <2>2. event \in Event /\ event.recv = lp
      BY <2>1, QueueFacts DEF EngineInv, IInv
    <2> QED
      BY <2>2, NoEventIsNoEvent DEF Event
  <1>3. /\ next \in Handling
        /\ next = "rollback" => IsStraggler(event.recv, event)
        /\ next # "rollback" => ~ IsStraggler(event.recv, event)
        /\ next = "cancelEvent" => event.type = NEGATIVE
        /\ next = "receiveEvent" => event.type = POSITIVE
        /\ next \in {"rollback", "cancelEvent", "receiveEvent"}
    BY <1>2 DEF Handle, Handling
  <1>4. /\ processed_queue' = processed_queue /\ Pending' = Pending
        /\ \A l \in LP : Processed(l)' = Processed(l)
    BY <1>1 DEF getEvent, Pending, Processed
  <1>5. sent' = sent /\ horizon' = horizon
    <2>1. pc'[Master] = "running"
      BY <1>1, MasterIsNoWorker DEF EngineInv, EngineTypeOK
    <2>2. sent' = sent
      BY <1>4, PendingIsSent, NothingInserted DEF EngineInv
    <2> QED
      BY <1>1, <2>1, <2>2 DEF Remember, EngineInv, MasterControl
  <1>6. held[t] = NoEvent /\ new_events[t] = <<>> /\ events_to_cancel[t] = <<>>
    BY <1>1 DEF EngineInv, WorkersInStep, InStep
  <1>7. ClientGetEvent(t, event)
    BY <1>1, <1>5, <1>6 DEF ClientGetEvent
  <1>8. [ClientStep]_eventSetVars /\ IInv'
    BY <1>7, GetEventInv DEF ClientStep, ClientWorkerStep, EngineInv
  <1> HIDE DEF next
  <1>9. pc'[t] = next /\ held'[t] = event
    BY <1>1, MasterIsNoWorker DEF EngineInv, EngineTypeOK, IInv, TypeOK
  <1>10. InStep(t)'
    <2>1. (IsStraggler(event.recv, event))' <=> IsStraggler(event.recv, event)
      BY <1>4 DEF IsStraggler, lastProcessedEvent
    <2>2. /\ pc'[t] = "rollback" => (IsStraggler(held[t].recv, held[t]))'
          /\ pc'[t] \in Handling \ {"rollback"} => ~ (IsStraggler(held[t].recv, held[t]))'
      BY <1>3, <1>4, <1>9 DEF IsStraggler, lastProcessedEvent
    <2>3. pc'[Master] = "running"
      BY <1>1, MasterIsNoWorker DEF EngineInv, EngineTypeOK
    <2>4. /\ pc'[t] \in Handling /\ pc'[t] # "getEvent" /\ held'[t] # NoEvent
          /\ pc'[t] = "cancelEvent" => held'[t].type = NEGATIVE
          /\ pc'[t] \in {"receiveEvent", "sendEvents", "replenish"} => held'[t].type = POSITIVE
          /\ new_events'[t] = <<>> /\ events_to_cancel'[t] = <<>>
      BY <1>1, <1>2, <1>3, <1>6, <1>9 DEF Handling
    <2> QED
      BY <2>2, <2>3, <2>4 DEF InStep
  <1>11. WorkersInStep' /\ pc'[Master] = pc[Master]
    BY <1>1, <1>4, <1>10, WorkerMoves
  <1>12. OutputIsCaused'
    <2>1. \A u \in Worker : pc[u] \in {"sendEvents", "replenish"} =>
             held'[u] = held[u] /\ pc'[u] \in {"sendEvents", "replenish"}
      BY <1>1, MasterIsNoWorker DEF EngineInv, EngineTypeOK, IInv, TypeOK
    <2>2. \A l \in LP : \A e \in Processed(l) \cup JustReceived(l) :
             e \in Processed(l)' \cup JustReceived(l)'
      BY <1>4, <2>1, JustReceivedStays
    <2> QED
      BY <1>1, <1>11, <2>2, CausesStand
  <1>13. \A u \in Worker : events_to_cancel[u] # <<>> \/ new_events[u] # <<>>
                               => held'[u] = held[u]
    BY <1>1, <1>6 DEF EngineInv, IInv, TypeOK
  <1>14. pc' \in [Thread -> Handling \cup {"getEvent", "initialize", "running", "terminated"}]
    BY <1>1, <1>3, MasterIsNoWorker DEF EngineInv, EngineTypeOK
  <1> QED
    BY <1>1, <1>5, <1>8, <1>11, <1>12, <1>13, <1>14, WorkerStepInv

LEMMA CoastForwardStep ==
  ASSUME EngineInv, Remember, NEW t \in Worker, CoastForward(t)
  PROVE  [ClientStep]_eventSetVars /\ EngineInv'
  <1>1. /\ pc[t] = "cancelEvents" /\ events_to_cancel[t] = <<>>
        /\ pc' = [pc EXCEPT ![t] = Handle(held[t])]
        /\ UNCHANGED <<queues, held, new_events, events_to_cancel, state_queue, count,
                       output_queue, generation, last_fossil_collect_gvt, gvt, network>>
    BY DEF CoastForward, Goto, toSend
  <1>2. /\ held[t] # NoEvent /\ held[t] \in Event /\ pc[Master] = "running" /\ t # Master
        /\ ~ IsStraggler(held[t].recv, held[t]) /\ new_events[t] = <<>>
    BY <1>1, Engaged DEF EngineInv, WorkersInStep, InStep, Handling
  <1>3. /\ Handle(held[t]) \in {"cancelEvent", "receiveEvent"}
        /\ Handle(held[t]) = "cancelEvent" => held[t].type = NEGATIVE
        /\ Handle(held[t]) = "receiveEvent" => held[t].type = POSITIVE
    BY <1>2 DEF Handle, Event
  <1>4. pc'[t] = Handle(held[t]) /\ pc'[Master] = "running"
    BY <1>1, <1>2, MasterIsNoWorker DEF EngineInv, EngineTypeOK
  <1>5. /\ sent' = sent /\ horizon' = horizon /\ [ClientStep]_eventSetVars /\ IInv'
        /\ processed_queue' = processed_queue
        /\ \A l \in LP : Processed(l)' = Processed(l)
    BY <1>1, <1>2, <1>4, ClientStutters
  <1>6. InStep(t)'
    BY <1>1, <1>2, <1>3, <1>4, <1>5 DEF InStep, Handling, IsStraggler, lastProcessedEvent
  <1>7. WorkersInStep'
    BY <1>1, <1>5, <1>6, WorkerMoves
  <1>8. OutputIsCaused'
    <2>1. \A u \in Worker : pc[u] \in {"sendEvents", "replenish"} =>
             held'[u] = held[u] /\ pc'[u] \in {"sendEvents", "replenish"}
      BY <1>1, MasterIsNoWorker DEF EngineInv, EngineTypeOK
    <2>2. \A l \in LP : \A e \in Processed(l) \cup JustReceived(l) :
             e \in Processed(l)' \cup JustReceived(l)'
      BY <1>5, <2>1, JustReceivedStays
    <2> QED
      BY <1>1, <1>2, <1>4, <2>2, CausesStand
  <1>9. pc' \in [Thread -> Handling \cup {"getEvent", "initialize", "running", "terminated"}]
    BY <1>1, <1>3, MasterIsNoWorker DEF EngineInv, EngineTypeOK, Handling
  <1> QED
    BY <1>1, <1>2, <1>4, <1>5, <1>7, <1>8, <1>9, WorkerStepInv

LEMMA PendingShrinks ==
  ASSUME EngineInv, Remember, \A lp \in LP : input_queue'[lp] \subseteq input_queue[lp],
         pc'[Master] = pc[Master], gvt' = gvt
  PROVE  sent' = sent /\ horizon' = horizon
  <1>1. Pending' \subseteq Pending
    <2>1. \A e : e \in Pending' <=> \E lp \in LP : e \in input_queue'[lp]
      BY DEF Pending
    <2>2. \A e : e \in Pending <=> \E lp \in LP : e \in input_queue[lp]
      BY DEF Pending
    <2> QED
      BY <2>1, <2>2
  <1>2. sent' = sent
    BY <1>1, PendingIsSent, NothingInserted DEF EngineInv
  <1> QED
    BY <1>2 DEF Remember, EngineInv, MasterControl

LEMMA CancelEventStep ==
  ASSUME EngineInv, Remember, NEW t \in Worker, CancelEvent(t)
  PROVE  [ClientStep]_eventSetVars /\ EngineInv'
  <1> DEFINE e == held[t]
  <1>1. /\ pc[t] = "cancelEvent"
        /\ cancelEvent(e.recv, e)
        /\ held' = [held EXCEPT ![t] = NoEvent]
        /\ pc' = [pc EXCEPT ![t] = "getEvent"]
        /\ UNCHANGED <<new_events, events_to_cancel, state, state_queue, count, output_queue,
                       generation, last_fossil_collect_gvt, gvt, network>>
    BY DEF CancelEvent, Goto, toSend, lpVars
  <1>2. /\ e \in Pending /\ e.recv \in LP /\ pc[Master] = "running" /\ t # Master
    BY <1>1, Engaged DEF Handling
  <1>3. /\ e.type = NEGATIVE /\ ~ IsStraggler(e.recv, e)
        /\ new_events[t] = <<>> /\ events_to_cancel[t] = <<>>
    BY <1>1 DEF EngineInv, WorkersInStep, InStep, Handling
  <1>4. pc'[t] = "getEvent" /\ pc'[Master] = "running"
    BY <1>1, <1>2, MasterIsNoWorker DEF EngineInv, EngineTypeOK
  <1>5. processed_queue' = processed_queue /\ \A l \in LP : Processed(l)' = Processed(l)
    BY <1>1 DEF cancelEvent, Processed
  <1>6. \A l \in LP : input_queue'[l] \subseteq input_queue[l]
    <2>1. input_queue' = [input_queue EXCEPT ![e.recv] = AfterCancel(e.recv, e)]
      BY <1>1 DEF cancelEvent
    <2>2. AfterCancel(e.recv, e) \subseteq input_queue[e.recv]
      BY DEF AfterCancel
    <2> HIDE DEF e
    <2> QED
      BY <2>1, <2>2 DEF EngineInv, IInv, TypeOK
  <1>7. sent' = sent /\ horizon' = horizon
    BY <1>1, <1>2, <1>4, <1>6, PendingShrinks
  <1>8. ClientCancelEvent(t, e)
    BY <1>1, <1>3, <1>7 DEF ClientCancelEvent
  <1>9. [ClientStep]_eventSetVars /\ IInv'
    BY <1>2, <1>8, CancelEventInv DEF ClientStep, ClientWorkerStep, EngineInv
  <1>10. held'[t] = NoEvent
    BY <1>1 DEF EngineInv, IInv, TypeOK
  <1>11. InStep(t)'
    BY <1>1, <1>3, <1>4, <1>10 DEF InStep, Handling
  <1>12. WorkersInStep'
    BY <1>1, <1>5, <1>11, WorkerMoves
  <1>13. OutputIsCaused'
    <2>1. \A u \in Worker : pc[u] \in {"sendEvents", "replenish"} =>
             held'[u] = held[u] /\ pc'[u] \in {"sendEvents", "replenish"}
      BY <1>1, MasterIsNoWorker DEF EngineInv, EngineTypeOK, IInv, TypeOK
    <2>2. \A l \in LP : \A f \in Processed(l) \cup JustReceived(l) :
             f \in Processed(l)' \cup JustReceived(l)'
      BY <1>5, <2>1, JustReceivedStays
    <2> QED
      BY <1>1, <1>2, <1>4, <2>2, CausesStand
  <1>14. pc' \in [Thread -> Handling \cup {"getEvent", "initialize", "running", "terminated"}]
    BY <1>1, MasterIsNoWorker DEF EngineInv, EngineTypeOK
  <1>15. \A u \in Worker : events_to_cancel[u] # <<>> \/ new_events[u] # <<>>
                               => held'[u] = held[u]
    BY <1>1, <1>3 DEF EngineInv, IInv, TypeOK
  <1> QED
    BY <1>1, <1>2, <1>4, <1>7, <1>9, <1>12, <1>13, <1>14, <1>15, WorkerStepInv

LEMMA ReplenishStep ==
  ASSUME EngineInv, Remember, NEW t \in Worker, ReplenishScheduler(t)
  PROVE  [ClientStep]_eventSetVars /\ EngineInv'
  <1> DEFINE e == held[t]
             lp == e.recv
             p == processed_queue[lp]
  <1>1. /\ pc[t] = "replenish"
        /\ replenishScheduler(lp)
        /\ held' = [held EXCEPT ![t] = NoEvent]
        /\ pc' = [pc EXCEPT ![t] = "getEvent"]
        /\ UNCHANGED <<new_events, events_to_cancel, state, state_queue, count, output_queue,
                       generation, last_fossil_collect_gvt, gvt, network>>
    BY DEF ReplenishScheduler, Goto, toSend, lpVars
  <1>2. /\ e \in Pending /\ lp \in LP /\ pc[Master] = "running" /\ t # Master /\ e \in Event
        /\ e # NoEvent /\ e = scheduled_event_pointer[lp]
        /\ \A u \in Worker : held[u] # NoEvent /\ held[u].recv = lp => u = t
    BY <1>1, Engaged DEF Handling
  <1>3. /\ e.type = POSITIVE /\ ~ IsStraggler(lp, e)
        /\ new_events[t] = <<>> /\ events_to_cancel[t] = <<>>
    BY <1>1 DEF EngineInv, WorkersInStep, InStep, Handling
  <1>4. pc'[t] = "getEvent" /\ pc'[Master] = "running"
    BY <1>1, <1>2, MasterIsNoWorker DEF EngineInv, EngineTypeOK
  <1>5. /\ processed_queue' = [processed_queue EXCEPT ![lp] = Append(@, e)]
        /\ input_queue' = [input_queue EXCEPT ![lp] = @ \ {e}]
    BY <1>1, <1>2 DEF replenishScheduler
  <1> HIDE DEF e
  <1>6. \A l \in LP : input_queue'[l] \subseteq input_queue[l]
    BY <1>5 DEF EngineInv, IInv, TypeOK
  <1>7. sent' = sent /\ horizon' = horizon
    BY <1>1, <1>2, <1>4, <1>6, PendingShrinks
  <1>8. ClientReplenishScheduler(t, e)
    BY <1>1, <1>3, <1>7 DEF ClientReplenishScheduler, e
  <1>9. [ClientStep]_eventSetVars /\ IInv'
    BY <1>2, <1>8, ReplenishInv DEF ClientStep, ClientWorkerStep, EngineInv
  <1>10. held'[t] = NoEvent
    BY <1>1 DEF EngineInv, IInv, TypeOK
  <1>11. InStep(t)'
    BY <1>1, <1>3, <1>4, <1>10 DEF InStep, Handling
  <1>12. \A l \in LP : l # lp => processed_queue'[l] = processed_queue[l]
    BY <1>5 DEF EngineInv, IInv, TypeOK
  <1>13. WorkersInStep'
    <2>1. \A l \in LP : processed_queue'[l] = processed_queue[l]
             \/ (pc[t] \in Handling /\ l = held[t].recv)
      BY <1>1, <1>12 DEF Handling, e
    <2> QED
      BY <1>1, <1>11, <2>1, WorkerMoves
  <1>14. \A l \in LP : \A f \in Processed(l) \cup JustReceived(l) :
             f \in Processed(l)' \cup JustReceived(l)'
    <2>1. /\ p \in Seq(Event) /\ processed_queue'[lp] = Append(p, e)
          /\ \A i \in DOMAIN p : i \in DOMAIN Append(p, e) /\ Append(p, e)[i] = p[i]
          /\ Len(p) + 1 \in DOMAIN Append(p, e) /\ Append(p, e)[Len(p) + 1] = e
      <3>1. p \in Seq(Event)
        BY <1>2, QueueFacts DEF EngineInv, IInv
      <3>2. processed_queue'[lp] = Append(p, e)
        BY <1>2, <1>5 DEF EngineInv, IInv, TypeOK
      <3> HIDE DEF p
      <3> QED
        BY <1>2, <3>1, <3>2
    <2>2. ASSUME NEW l \in LP, NEW f \in Processed(l) PROVE f \in Processed(l)'
      <3>1. \E i \in DOMAIN processed_queue[l] : processed_queue[l][i] = f
        BY <2>2 DEF Processed
      <3>2. \E i \in DOMAIN processed_queue'[l] : processed_queue'[l][i] = f
        BY <1>12, <2>1, <3>1
      <3> QED
        BY <3>2 DEF Processed
    <2>3. ASSUME NEW l \in LP, NEW f \in JustReceived(l)
          PROVE  f \in Processed(l)' \cup JustReceived(l)'
      <3>1. PICK u \in Worker : /\ f = held[u] /\ held[u] # NoEvent /\ held[u].recv = l
                                /\ pc[u] \in {"sendEvents", "replenish"}
        BY <2>3, JustReceivedIs
      <3>2. CASE u = t
        <4>1. f = e /\ l = lp
          BY <3>1, <3>2 DEF e
        <4>2. \E i \in DOMAIN processed_queue'[l] : processed_queue'[l][i] = f
          BY <2>1, <4>1
        <4> QED
          BY <4>2 DEF Processed
      <3>3. CASE u # t
        <4>1. held'[u] = held[u] /\ pc'[u] = pc[u]
          BY <1>1, <3>3, MasterIsNoWorker DEF EngineInv, EngineTypeOK, IInv, TypeOK
        <4>2. \E v \in Worker : /\ f = held'[v] /\ held'[v] # NoEvent /\ held'[v].recv = l
                                /\ pc'[v] \in {"sendEvents", "replenish"}
          BY <3>1, <4>1
        <4> QED
          BY <4>2 DEF JustReceived, HandledBy
      <3> QED
        BY <3>2, <3>3
    <2> QED
      BY <2>2, <2>3
  <1>15. OutputIsCaused'
    BY <1>1, <1>2, <1>4, <1>14, CausesStand
  <1>16. pc' \in [Thread -> Handling \cup {"getEvent", "initialize", "running", "terminated"}]
    BY <1>1, MasterIsNoWorker DEF EngineInv, EngineTypeOK
  <1>17. \A u \in Worker : events_to_cancel[u] # <<>> \/ new_events[u] # <<>>
                               => held'[u] = held[u]
    BY <1>1, <1>3 DEF EngineInv, IInv, TypeOK
  <1> QED
    BY <1>1, <1>2, <1>4, <1>7, <1>9, <1>13, <1>15, <1>16, <1>17, WorkerStepInv

LEMMA ReceiveEventStep ==
  ASSUME ModelIsCausal, EngineInv, Remember, NEW t \in Worker, ReceiveEvent(t)
  PROVE  [ClientStep]_eventSetVars /\ EngineInv'
  <1> DEFINE e == held[t]
             lp == e.recv
             s == Sends(lp, state[lp], e)
             sends == Returned(e, lp, s)
  <1>1. /\ pc[t] = "receiveEvent"
        /\ saveState(lp, e, NextState(state[lp], e))
        /\ new_events' = [new_events EXCEPT ![t] = sends]
        /\ pc' = [pc EXCEPT ![t] = "sendEvents"]
        /\ UNCHANGED <<queues, held, events_to_cancel, output_queue, generation,
                       last_fossil_collect_gvt, gvt, network>>
    BY DEF ReceiveEvent, Goto
  <1>2. /\ e # NoEvent /\ e \in Event /\ e \in Sendable /\ lp \in LP /\ e.ts \in Nat /\ gvt \in Nat
        /\ e.ts >= gvt /\ pc[Master] = "running" /\ t # Master /\ t \in Thread
        /\ \A u \in Worker : held[u] # NoEvent /\ held[u].recv = lp => u = t
    BY <1>1, Engaged, MasterIsNoWorker DEF Handling
  <1>3. /\ e.type = POSITIVE /\ ~ IsStraggler(lp, e)
        /\ events_to_cancel[t] = <<>> /\ new_events[t] = <<>>
    BY <1>1 DEF EngineInv, WorkersInStep, InStep, Handling
  <1>4. e \in Message
    BY <1>2, <1>3, SendableFacts
  <1>5. pc'[t] = "sendEvents" /\ pc'[Master] = "running"
    BY <1>1, <1>2, MasterIsNoWorker DEF EngineInv, EngineTypeOK
  <1>6. /\ sent' = sent /\ horizon' = horizon /\ [ClientStep]_eventSetVars /\ IInv'
        /\ Pending' = Pending /\ processed_queue' = processed_queue
        /\ \A l \in LP : Processed(l)' = Processed(l)
    BY <1>1, <1>2, <1>5, ClientStutters
  <1>7. /\ InNetwork' = InNetwork /\ BeingCancelled' = BeingCancelled
        /\ KnownIsIdentified' /\ NetworkHoldsOnce'
        /\ OutputIsSent' /\ ToCancelIsSent' /\ SentIsRecorded'
    BY <1>1, <1>2, <1>6, Quiet
  <1>8. /\ sends \in Seq(ToSend)
        /\ \A i \in DOMAIN sends : /\ sends[i].source = e /\ sends[i].sender = lp
                                   /\ sends[i].ts \in Nat /\ sends[i].ts < Infinity
                                   /\ e.ts <= sends[i].ts
    <2>1. s \in Seq(Send) /\ \A i \in DOMAIN s : e.ts <= s[i].ts
      BY <1>2, <1>4 DEF ModelIsCausal
    <2> HIDE DEF s, e
    <2>2. sends \in Seq(ToSend)
      BY <1>2, <2>1, ReturnedType
    <2>3. \A i \in DOMAIN sends : /\ i \in DOMAIN s
                                  /\ sends[i].source = e /\ sends[i].sender = lp
                                  /\ sends[i].ts = s[i].ts
                                  /\ sends[i].ts \in Nat /\ sends[i].ts < Infinity
      BY <2>1, ReturnedFacts
    <2> HIDE DEF sends
    <2> QED
      BY <2>1, <2>2, <2>3
  <1> HIDE DEF sends
  <1>9. /\ state_queue' = [l \in LP |-> state_queue'[l]]
        /\ \A l \in LP : IsSequence(state_queue'[l])
        /\ count' \in [LP -> Nat]
        /\ FirstStateIsOld'
    <2>1. state_queue[lp] # <<>>
      BY <1>2 DEF EngineInv, FirstStateIsOld
    <2>2. e \in Message \cup {InitialEvent} /\ gvt' = gvt /\ pc'[Master] = pc[Master]
      BY <1>1, <1>2, <1>4, <1>5
    <2> QED
      BY <1>1, <1>2, <2>1, <2>2, Saved
  <1>10. /\ new_events' \in [Thread -> Seq(ToSend)]
         /\ \A u \in Thread : new_events'[u] = IF u = t THEN sends ELSE new_events[u]
    BY <1>1, <1>2, <1>8 DEF EngineInv, EngineTypeOK
  <1>11. EngineTypeOK'
    <2>1. pc' \in [Thread -> Handling \cup {"getEvent", "initialize", "running", "terminated"}]
      BY <1>1 DEF EngineInv, EngineTypeOK, Handling
    <2> QED
      BY <1>1, <1>9, <1>10, <2>1 DEF EngineInv, EngineTypeOK
  <1>12. MasterControl'
    BY <1>1, <1>2, <1>5, <1>6, <1>10, MasterIsNoWorker DEF EngineInv, MasterControl
  <1>13. InStep(t)'
    BY <1>1, <1>2, <1>3, <1>5, <1>6 DEF InStep, Handling, IsStraggler, lastProcessedEvent
  <1>14. WorkersInStep'
    BY <1>1, <1>6, <1>13, WorkerMoves
  <1>15. OutputIsCaused'
    <2>1. \A u \in Worker : pc[u] \in {"sendEvents", "replenish"} =>
             held'[u] = held[u] /\ pc'[u] \in {"sendEvents", "replenish"}
      BY <1>1, MasterIsNoWorker DEF EngineInv, EngineTypeOK
    <2>2. \A l \in LP : \A f \in Processed(l) \cup JustReceived(l) :
             f \in Processed(l)' \cup JustReceived(l)'
      BY <1>6, <2>1, JustReceivedStays
    <2> QED
      BY <1>1, <1>2, <1>5, <2>2, CausesStand
  <1>16. ToSendIsCaused'
    <2> SUFFICES ASSUME NEW u \in Thread, NEW i \in DOMAIN new_events'[u]
                 PROVE  LET next == new_events'[u][i]
                        IN  /\ next.source = IF u = Master THEN InitialEvent ELSE held[u]
                            /\ u # Master => next.sender = held[u].recv
                            /\ next.source.ts <= next.ts
                            /\ next.ts < Infinity
      BY <1>1 DEF ToSendIsCaused
    <2>1. CASE u = t
      BY <1>2, <1>8, <1>10, <2>1
    <2>2. CASE u # t
      BY <1>10, <2>2 DEF EngineInv, ToSendIsCaused
    <2> QED
      BY <2>1, <2>2
  <1>17. OutstandingNotBeforeGVT'
    <2> SUFFICES ASSUME NEW f \in BeingSent' PROVE gvt <= f.ts
      BY <1>1, <1>7 DEF EngineInv, OutstandingNotBeforeGVT
    <2>1. PICK u \in Thread : \E i \in DOMAIN new_events'[u] : f = new_events'[u][i]
      BY DEF BeingSent, ToSet
    <2>2. CASE u = t
      BY <1>2, <1>8, <1>10, <2>1, <2>2
    <2>3. CASE u # t
      <3>1. f \in BeingSent
        BY <1>10, <2>1, <2>3, BeingSentIs
      <3> QED
        BY <3>1 DEF EngineInv, OutstandingNotBeforeGVT
    <2> QED
      BY <2>2, <2>3
  <1> QED
    BY <1>6, <1>7, <1>9, <1>11, <1>12, <1>14, <1>15, <1>16, <1>17 DEF EngineInv

-----------------------------------------------------------------------------
(* Fossil collection and rollback keep a part of a sequence.               *)

LEMMA SubSeqFacts ==
  ASSUME NEW S, NEW q \in Seq(S), NEW m \in 1 .. Len(q) + 1, NEW n \in m - 1 .. Len(q)
  PROVE  /\ SubSeq(q, m, n) \in Seq(S)
         /\ \A i \in DOMAIN SubSeq(q, m, n) :
               i \in Nat /\ i + (m - 1) \in m .. n /\ SubSeq(q, m, n)[i] = q[i + (m - 1)]
         /\ \A j \in m .. n :
               j - (m - 1) \in DOMAIN SubSeq(q, m, n) /\ SubSeq(q, m, n)[j - (m - 1)] = q[j]
         /\ Len(SubSeq(q, m, n)) = n - (m - 1)
  <1>1. n \in Int /\ m \in Int /\ m >= 1 /\ n >= m - 1 /\ n <= Len(q)
    OBVIOUS
  <1>2. /\ SubSeq(q, m, n) \in Seq(S) /\ Len(SubSeq(q, m, n)) = n - (m - 1)
        /\ DOMAIN SubSeq(q, m, n) = 1 .. n - (m - 1)
        /\ \A i \in 1 .. n - (m - 1) : SubSeq(q, m, n)[i] = q[i + (m - 1)]
    BY <1>1
  <1>3. \A i \in 1 .. n - (m - 1) : i \in Nat /\ i + (m - 1) \in m .. n
    BY <1>1
  <1>4. \A j \in m .. n : j - (m - 1) \in 1 .. n - (m - 1) /\ (j - (m - 1)) + (m - 1) = j
    BY <1>1
  <1>5. PICK s : s = SubSeq(q, m, n)
    OBVIOUS
  <1>6. /\ s \in Seq(S) /\ Len(s) = n - (m - 1) /\ DOMAIN s = 1 .. n - (m - 1)
        /\ \A i \in 1 .. n - (m - 1) : s[i] = q[i + (m - 1)]
    BY <1>2, <1>5
  <1>7. \A i \in DOMAIN s : i \in Nat /\ i + (m - 1) \in m .. n /\ s[i] = q[i + (m - 1)]
    BY <1>3, <1>6
  <1>8. \A j \in m .. n : j - (m - 1) \in DOMAIN s /\ s[j - (m - 1)] = q[j]
    BY <1>4, <1>6
  <1> QED
    BY <1>5, <1>6, <1>7, <1>8

LEMMA SequenceIs ==
  ASSUME NEW S, NEW s \in Seq(S)
  PROVE  IsSequence(s)
  BY DEF IsSequence

(* The last saved state older than the GVT.                                *)
LEMMA FirstKeptIsDefined ==
  ASSUME NEW S, NEW q \in Seq(S), q # <<>>, NEW time \in Nat,
         \A i \in DOMAIN q : q[i].event.ts \in Nat
  PROVE  /\ FirstKept(q, time) \in 1 .. Len(q)
         /\ \A i \in 2 .. FirstKept(q, time) : q[i].event.ts < time
  <1> DEFINE T == {i \in 2 .. Len(q) : q[i].event.ts >= time}
             Is(k) == /\ \A i \in 2 .. k : q[i].event.ts < time
                      /\ k < Len(q) => q[k + 1].event.ts >= time
  <1>1. DOMAIN q = 1 .. Len(q) /\ Len(q) \in Nat /\ Len(q) >= 1
    OBVIOUS
  <1>2. \E k \in DOMAIN q : Is(k)
    <2>1. CASE T = {}
      <3>1. Len(q) \in DOMAIN q /\ ~ (Len(q) < Len(q))
        BY <1>1
      <3>2. ASSUME NEW i \in 2 .. Len(q) PROVE q[i].event.ts < time
        <4>1. i \in DOMAIN q /\ i \notin T
          BY <1>1, <2>1
        <4> QED
          BY <4>1
      <3>3. Is(Len(q))
        BY <3>1, <3>2
      <3> QED
        BY <3>1, <3>3
    <2>2. CASE T # {}
      <3>1. PICK m \in T : \A n \in T : m <= n
        <4>1. T \in SUBSET Nat
          BY <1>1
        <4> QED
          BY <2>2, <4>1, NatMinimum
      <3>2. /\ m \in 2 .. Len(q) /\ q[m].event.ts >= time
            /\ \A n \in 2 .. m - 1 : n \in 2 .. Len(q) /\ ~ (m <= n)
        BY <1>1, <3>1
      <3>3. m - 1 \in DOMAIN q /\ (m - 1) + 1 = m
        BY <1>1, <3>2
      <3>4. \A i \in 2 .. m - 1 : q[i].event.ts < time
        <4> SUFFICES ASSUME NEW i \in 2 .. m - 1 PROVE q[i].event.ts < time
          OBVIOUS
        <4>1. i \in 2 .. Len(q) /\ i \notin T /\ i \in DOMAIN q
          BY <1>1, <3>1, <3>2
        <4> QED
          BY <4>1
      <3> QED
        BY <3>2, <3>3, <3>4
    <2> QED
      BY <2>1, <2>2
  <1>3. FirstKept(q, time) = CHOOSE k \in DOMAIN q : Is(k)
    BY DEF FirstKept
  <1>4. FirstKept(q, time) \in DOMAIN q /\ Is(FirstKept(q, time))
    <2> HIDE DEF Is
    <2> QED
      BY <1>2, <1>3
  <1> QED
    BY <1>1, <1>4

(* What an LP sent before the GVT.                                         *)
LEMMA SentAndPassedIsDefined ==
  ASSUME NEW q \in Seq(Recorded), NEW time \in Nat
  PROVE  /\ SentAndPassed(q, time) \in 0 .. Len(q)
         /\ \A i \in 1 .. SentAndPassed(q, time) : q[i].input.ts < time
         /\ SentAndPassed(q, time) < Len(q) => q[SentAndPassed(q, time) + 1].input.ts >= time
  <1> DEFINE T == {i \in 1 .. Len(q) : q[i].input.ts >= time}
             Is(k) == /\ \A i \in 1 .. k : q[i].input.ts < time
                      /\ k < Len(q) => q[k + 1].input.ts >= time
  <1>1. Len(q) \in Nat /\ DOMAIN q = 1 .. Len(q)
        /\ \A i \in 1 .. Len(q) : q[i].input.ts \in Nat
    <2>1. Len(q) \in Nat /\ DOMAIN q = 1 .. Len(q)
          /\ \A i \in 1 .. Len(q) : q[i] \in Recorded
      OBVIOUS
    <2>2. \A r \in Recorded : r.input.ts \in Nat
      BY DEF Recorded, Event
    <2> QED
      BY <2>1, <2>2
  <1>2. \E k \in 0 .. Len(q) : Is(k)
    <2>1. CASE T = {}
      <3>1. Len(q) \in 0 .. Len(q) /\ \A i \in 1 .. Len(q) : q[i].input.ts < time
        BY <1>1, <2>1
      <3> QED
        BY <1>1, <3>1
    <2>2. CASE T # {}
      <3>1. PICK m \in T : \A n \in T : m <= n
        <4>1. T \in SUBSET Nat
          BY <1>1
        <4> QED
          BY <2>2, <4>1, NatMinimum
      <3>2. /\ m \in 1 .. Len(q) /\ q[m].input.ts >= time
            /\ \A n \in 1 .. m - 1 : n \in 1 .. Len(q) /\ ~ (m <= n)
        BY <1>1, <3>1
      <3>3. m - 1 \in 0 .. Len(q) /\ (m - 1) + 1 = m
        BY <1>1, <3>2
      <3>4. \A i \in 1 .. m - 1 : q[i].input.ts < time
        <4> SUFFICES ASSUME NEW i \in 1 .. m - 1 PROVE q[i].input.ts < time
          OBVIOUS
        <4>1. i \in 1 .. Len(q) /\ i \notin T
          BY <1>1, <3>1, <3>2
        <4> QED
          BY <1>1, <4>1
      <3> QED
        BY <3>2, <3>3, <3>4
    <2> QED
      BY <2>1, <2>2
  <1>3. SentAndPassed(q, time) = CHOOSE k \in 0 .. Len(q) : Is(k)
    BY DEF SentAndPassed
  <1>4. SentAndPassed(q, time) \in 0 .. Len(q) /\ Is(SentAndPassed(q, time))
    <2> HIDE DEF Is
    <2> QED
      BY <1>2, <1>3
  <1> QED
    BY <1>1, <1>4

(* The output queue of one LP is cut down to its entries from m to n.      *)
LEMMA OutputKept ==
  ASSUME EngineInv, NEW lp \in LP, NEW m \in 1 .. Len(output_queue[lp]) + 1,
         NEW n \in m - 1 .. Len(output_queue[lp]), Known' = Known,
         output_queue' = [output_queue EXCEPT ![lp] = SubSeq(output_queue[lp], m, n)]
  PROVE  /\ output_queue' \in [LP -> Seq(Recorded)]
         /\ OutputIsSent'
         /\ \A l \in LP : \A i \in DOMAIN output_queue'[l] :
               \E j \in DOMAIN output_queue[l] : /\ output_queue'[l][i] = output_queue[l][j]
                                                 /\ l = lp => j \in m .. n
         /\ \A l \in LP : \A j \in DOMAIN output_queue[l] : l # lp \/ j \in m .. n =>
               \E i \in DOMAIN output_queue'[l] : output_queue'[l][i] = output_queue[l][j]
         /\ \A l \in LP : \A i, j \in DOMAIN output_queue'[l] : i < j =>
               ~ Before(output_queue'[l][j].input, output_queue'[l][i].input)
  <1> DEFINE q == output_queue[lp]
             c == SubSeq(q, m, n)
             d(l) == IF l = lp THEN m - 1 ELSE 0
  <1>1. /\ output_queue \in [LP -> Seq(Recorded)] /\ q \in Seq(Recorded) /\ Len(q) \in Nat
        /\ DOMAIN q = 1 .. Len(q)
    BY DEF EngineInv, EngineTypeOK
  <1>2. /\ c \in Seq(Recorded)
        /\ \A i \in DOMAIN c : i \in Nat /\ i + (m - 1) \in m .. n /\ c[i] = q[i + (m - 1)]
        /\ \A j \in m .. n : j - (m - 1) \in DOMAIN c /\ c[j - (m - 1)] = q[j]
    <2> HIDE DEF q
    <2> QED
      BY <1>1, SubSeqFacts DEF q
  <1>3. m .. n \subseteq DOMAIN q /\ m \in Nat
    BY <1>1
  <1> HIDE DEF c
  <1>4. \A l \in LP : output_queue'[l] = IF l = lp THEN c ELSE output_queue[l]
    BY <1>1 DEF c
  <1>5. output_queue' \in [LP -> Seq(Recorded)]
    BY <1>1, <1>2 DEF c
  <1> HIDE DEF q
  <1>6. ASSUME NEW l \in LP, NEW i \in DOMAIN output_queue'[l]
        PROVE  /\ i \in Nat /\ d(l) \in Nat /\ i + d(l) \in DOMAIN output_queue[l]
               /\ output_queue'[l][i] = output_queue[l][i + d(l)]
               /\ l = lp => i + d(l) \in m .. n
    <2>1. CASE l = lp
      <3>1. output_queue'[l] = c /\ output_queue[l] = q /\ d(l) = m - 1 /\ i \in DOMAIN c
        BY <1>4, <1>6, <2>1 DEF q
      <3>2. i \in Nat /\ i + (m - 1) \in m .. n /\ c[i] = q[i + (m - 1)]
        BY <1>2, <3>1
      <3>3. m - 1 \in Nat
        BY <1>3
      <3> HIDE DEF d
      <3> QED
        BY <1>3, <3>1, <3>2, <3>3
    <2>2. CASE l # lp
      <3>1. i \in DOMAIN output_queue[l] /\ output_queue'[l][i] = output_queue[l][i]
        BY <1>4, <1>6, <2>2
      <3>2. i \in Nat /\ i + 0 = i
        BY <1>1, <3>1
      <3> QED
        BY <2>2, <3>1, <3>2
    <2> QED
      BY <2>1, <2>2
  <1>7. ASSUME NEW l \in LP, NEW j \in DOMAIN output_queue[l], l # lp \/ j \in m .. n
        PROVE  \E i \in DOMAIN output_queue'[l] : output_queue'[l][i] = output_queue[l][j]
    <2>1. CASE l = lp
      <3>1. output_queue'[l] = c /\ output_queue[l] = q /\ j \in m .. n
        BY <1>4, <1>7, <2>1 DEF q
      <3> QED
        BY <1>2, <3>1
    <2>2. CASE l # lp
      BY <1>4, <1>7, <2>2
    <2> QED
      BY <2>1, <2>2
  <1> HIDE DEF d
  <1>8. ASSUME NEW l \in LP, NEW i \in DOMAIN output_queue'[l], NEW j \in DOMAIN output_queue'[l], i < j
        PROVE  ~ Before(output_queue'[l][j].input, output_queue'[l][i].input)
    <2>1. i + d(l) < j + d(l)
      BY <1>6, <1>8
    <2> QED
      BY <1>6, <2>1 DEF EngineInv, OutputIsCaused
  <1>9. OutputIsSent'
    <2> SUFFICES ASSUME NEW l \in LP, NEW i \in DOMAIN output_queue'[l]
                 PROVE  LET o == output_queue'[l][i]
                        IN  /\ o.output \in Known
                            /\ o.output.type = POSITIVE
                            /\ o.output.sender = l
                            /\ o.output.send = o.input.ts
                            /\ NegativeEvent(o.output) \notin Known
                            /\ \A j \in DOMAIN output_queue'[l] :
                                   output_queue'[l][j].output = o.output => i = j
      BY DEF OutputIsSent
    <2> DEFINE o == output_queue[l][i + d(l)]
    <2>1. i + d(l) \in DOMAIN output_queue[l] /\ output_queue'[l][i] = o
      BY <1>6
    <2>2. /\ o.output \in Known /\ o.output.type = POSITIVE /\ o.output.sender = l
          /\ o.output.send = o.input.ts /\ NegativeEvent(o.output) \notin Known
          /\ \A j \in DOMAIN output_queue[l] : output_queue[l][j].output = o.output => i + d(l) = j
      BY <2>1 DEF EngineInv, OutputIsSent
    <2> HIDE DEF o
    <2>3. \A j \in DOMAIN output_queue'[l] : output_queue'[l][j].output = o.output => i = j
      <3> SUFFICES ASSUME NEW j \in DOMAIN output_queue'[l], output_queue'[l][j].output = o.output
                   PROVE  i = j
        OBVIOUS
      <3>1. j + d(l) \in DOMAIN output_queue[l] /\ output_queue[l][j + d(l)] = output_queue'[l][j]
        BY <1>6
      <3>2. i + d(l) = j + d(l)
        BY <2>2, <3>1
      <3> QED
        BY <1>6, <3>2
    <2> QED
      BY <2>1, <2>2, <2>3
  <1>11. \A l \in LP : \A i \in DOMAIN output_queue'[l] :
            \E j \in DOMAIN output_queue[l] : /\ output_queue'[l][i] = output_queue[l][j]
                                              /\ l = lp => j \in m .. n
    <2> SUFFICES ASSUME NEW l \in LP, NEW i \in DOMAIN output_queue'[l]
                 PROVE  \E j \in DOMAIN output_queue[l] : /\ output_queue'[l][i] = output_queue[l][j]
                                                          /\ l = lp => j \in m .. n
      OBVIOUS
    <2>1. /\ i + d(l) \in DOMAIN output_queue[l]
          /\ output_queue'[l][i] = output_queue[l][i + d(l)]
          /\ l = lp => i + d(l) \in m .. n
      BY <1>6
    <2>2. PICK j : j = i + d(l)
      OBVIOUS
    <2> QED
      BY <2>1, <2>2
  <1>12. \A l \in LP : \A j \in DOMAIN output_queue[l] : l # lp \/ j \in m .. n =>
            \E i \in DOMAIN output_queue'[l] : output_queue'[l][i] = output_queue[l][j]
    BY <1>7
  <1>13. \A l \in LP : \A i, j \in DOMAIN output_queue'[l] : i < j =>
            ~ Before(output_queue'[l][j].input, output_queue'[l][i].input)
    BY <1>8
  <1> QED
    BY <1>5, <1>9, <1>11, <1>12, <1>13

(* Fossil collection drops what the GVT has passed and keeps the last      *)
(* processed event, so that nobody becomes a straggler.                    *)
LEMMA CollectKeeps ==
  ASSUME EngineInv, NEW lp \in LP, NEW time \in Nat, time # Infinity, fossilCollect(lp, time)
  PROVE  /\ input_queue' = input_queue
         /\ \A l \in LP : l # lp => processed_queue'[l] = processed_queue[l]
         /\ (lastProcessedEvent(lp))' = lastProcessedEvent(lp)
         /\ \A l \in LP : \A e \in Processed(l) : e.ts >= time => e \in Processed(l)'
         /\ \A l \in LP : l # lp => Processed(l)' = Processed(l)
  <1> DEFINE p == processed_queue[lp]
             k == CollectedBy(p, time)
             c == SubSeq(p, k + 1, Len(p))
  <1>1. p \in Seq(Event) /\ Len(p) \in Nat /\ DOMAIN p = 1 .. Len(p)
    BY QueueFacts DEF EngineInv, IInv
  <1>2. /\ k \in 0 .. Len(p) /\ (k < Len(p) \/ p = <<>>)
        /\ \A i \in 1 .. k : p[i].ts < time
    <2> HIDE DEF p
    <2> QED
      BY <1>1, CollectedByIsDefined
  <1>3. /\ processed_queue' = [processed_queue EXCEPT ![lp] = c]
        /\ input_queue' = input_queue
    BY DEF fossilCollect
  <1> HIDE DEF k, p
  <1>4. k + 1 \in 1 .. Len(p) + 1 /\ Len(p) \in (k + 1) - 1 .. Len(p) /\ (k + 1) - 1 = k
    BY <1>1, <1>2
  <1>5. /\ c \in Seq(Event) /\ Len(c) = Len(p) - k
        /\ \A j \in k + 1 .. Len(p) : j - k \in DOMAIN c /\ c[j - k] = p[j]
    <2>1. PICK m, r : m = k + 1 /\ r = c
      OBVIOUS
    <2>2. m \in 1 .. Len(p) + 1 /\ Len(p) \in m - 1 .. Len(p) /\ m - 1 = k
      BY <1>4, <2>1
    <2>3. /\ r \in Seq(Event) /\ Len(r) = Len(p) - (m - 1)
          /\ \A j \in m .. Len(p) : j - (m - 1) \in DOMAIN r /\ r[j - (m - 1)] = p[j]
      <3>1. r = SubSeq(p, m, Len(p)) /\ p \in Seq(Event)
        BY <1>1, <2>1
      <3>2. /\ SubSeq(p, m, Len(p)) \in Seq(Event)
            /\ Len(SubSeq(p, m, Len(p))) = Len(p) - (m - 1)
        BY <2>2, <3>1, SubSeqFacts
      <3>3. \A j \in m .. Len(p) : /\ j - (m - 1) \in DOMAIN SubSeq(p, m, Len(p))
                                   /\ SubSeq(p, m, Len(p))[j - (m - 1)] = p[j]
        BY <2>2, <3>1, SubSeqFacts
      <3> QED
        BY <3>1, <3>2, <3>3
    <2> HIDE DEF c
    <2> QED
      BY <2>1, <2>2, <2>3
  <1> HIDE DEF c
  <1>6. /\ processed_queue'[lp] = c
        /\ \A l \in LP : l # lp => processed_queue'[l] = processed_queue[l]
    BY <1>3 DEF EngineInv, IInv, TypeOK
  <1>7. (lastProcessedEvent(lp))' = lastProcessedEvent(lp)
    <2>1. CASE p = <<>>
      <3>1. Len(c) = 0 /\ c = <<>>
        BY <1>2, <1>5, <2>1
      <3> QED
        BY <1>6, <2>1, <3>1 DEF lastProcessedEvent, p
    <2>2. CASE p # <<>>
      <3>1. Len(p) \in k + 1 .. Len(p)
        BY <1>1, <1>2, <2>2
      <3>2. c # <<>> /\ c[Len(c)] = p[Len(p)]
        BY <1>5, <3>1
      <3> QED
        BY <1>6, <2>2, <3>2 DEF lastProcessedEvent, p
    <2> QED
      BY <2>1, <2>2
  <1>8. ASSUME NEW l \in LP, NEW e \in Processed(l), e.ts >= time
        PROVE  e \in Processed(l)'
    <2>1. PICK j \in DOMAIN processed_queue[l] : processed_queue[l][j] = e
      BY <1>8 DEF Processed
    <2>2. \E i \in DOMAIN processed_queue'[l] : processed_queue'[l][i] = e
      <3>1. CASE l = lp
        <4>1. j \in 1 .. Len(p) /\ p[j] = e /\ p[j] \in Event
          BY <1>1, <2>1, <3>1 DEF p
        <4>2. ~ (j \in 1 .. k)
          BY <1>2, <1>8, <4>1 DEF Event
        <4>3. j \in k + 1 .. Len(p)
          BY <1>2, <4>1, <4>2
        <4> QED
          BY <1>5, <1>6, <3>1, <4>1, <4>3
      <3>2. CASE l # lp
        BY <1>6, <2>1, <3>2
      <3> QED
        BY <3>1, <3>2
    <2> QED
      BY <2>2 DEF Processed
  <1>9. \A l \in LP : l # lp => Processed(l)' = Processed(l)
    BY <1>6 DEF Processed
  <1> QED
    BY <1>3, <1>6, <1>7, <1>8, <1>9

(* The saved states of one LP are cut down to those from m to n.           *)
LEMMA StatesKept ==
  ASSUME EngineInv, NEW lp \in LP, NEW m \in 1 .. Len(state_queue[lp]),
         NEW n \in m .. Len(state_queue[lp]),
         state_queue' = [state_queue EXCEPT ![lp] = SubSeq(state_queue[lp], m, n)],
         count' = count, gvt' = gvt, pc'[Master] = pc[Master],
         \/ state_queue[lp][m].event = InitialEvent
         \/ state_queue[lp][m].event.ts < gvt
  PROVE  /\ state_queue' = [l \in LP |-> state_queue'[l]]
         /\ \A l \in LP : IsSequence(state_queue'[l])
         /\ FirstStateIsOld'
  <1> DEFINE q == state_queue[lp]
             c == SubSeq(q, m, n)
             Q == {q[i] : i \in DOMAIN q}
  <1>1. q \in Seq(Q) /\ Len(q) \in Nat /\ DOMAIN q = 1 .. Len(q)
    <2>1. q \in Seq(Q)
      BY DEF EngineInv, EngineTypeOK, IsSequence
    <2> HIDE DEF q, Q
    <2> QED
      BY <2>1
  <1>2. /\ c \in Seq(Q) /\ Len(c) = n - (m - 1)
        /\ \A i \in DOMAIN c : i \in Nat /\ i + (m - 1) \in m .. n /\ c[i] = q[i + (m - 1)]
    <2>1. n \in m - 1 .. Len(q) /\ m \in 1 .. Len(q) + 1
      BY <1>1
    <2> HIDE DEF q
    <2>2. PICK S : S = Q
      OBVIOUS
    <2> HIDE DEF Q
    <2>3. q \in Seq(S)
      BY <1>1, <2>2
    <2> QED
      BY <2>1, <2>2, <2>3, SubSeqFacts
  <1>3. /\ state_queue' = [l \in LP |-> state_queue'[l]]
        /\ \A l \in LP : state_queue'[l] = IF l = lp THEN c ELSE state_queue[l]
    BY DEF EngineInv, EngineTypeOK
  <1>4. m \in Nat /\ n \in Nat /\ m <= n /\ m >= 1 /\ m .. n \subseteq DOMAIN q
    BY <1>1
  <1> HIDE DEF c, Q
  <1>5. c # <<>> /\ c[1] = q[m]
    <2>1. 1 \in DOMAIN c /\ 1 + (m - 1) = m /\ c # <<>>
      BY <1>2, <1>4
    <2> QED
      BY <1>2, <2>1
  <1>6. IsSequence(c)
    BY <1>2, SequenceIs
  <1>7. \A i \in DOMAIN c : c[i].event \in Message \cup {InitialEvent}
    BY <1>2, <1>4 DEF EngineInv, FirstStateIsOld
  <1>8. c[1].event = InitialEvent \/ c[1].event.ts < gvt
    BY <1>5
  <1> HIDE DEF q
  <1>9. ASSUME NEW l \in LP
        PROVE  /\ IsSequence(state_queue'[l])
               /\ state_queue'[l] = <<>> => pc'[Master] = "initialize" /\ count'[l] = 0
               /\ \A i \in DOMAIN state_queue'[l] :
                      state_queue'[l][i].event \in Message \cup {InitialEvent}
               /\ state_queue'[l] # <<>> =>
                      \/ state_queue'[l][1].event = InitialEvent
                      \/ state_queue'[l][1].event.ts < gvt'
    <2>1. CASE l = lp
      <3>1. state_queue'[l] = c
        BY <1>3, <2>1
      <3> QED
        BY <1>5, <1>6, <1>7, <1>8, <3>1
    <2>2. CASE l # lp
      <3>1. state_queue'[l] = state_queue[l] /\ count'[l] = count[l]
        BY <1>3, <2>2
      <3> QED
        BY <3>1 DEF EngineInv, EngineTypeOK, FirstStateIsOld
    <2> QED
      BY <2>1, <2>2
  <1> QED
    BY <1>3, <1>9 DEF FirstStateIsOld

LEMMA FossilCollectStep ==
  ASSUME EngineInv, Remember, NEW t \in Worker, FossilCollect(t)
  PROVE  [ClientStep]_eventSetVars /\ EngineInv'
  <1> DEFINE e == held[t]
             lp == e.recv
             sends == output_queue[lp]
             states == state_queue[lp]
             k == SentAndPassed(sends, gvt)
             first == FirstKept(states, gvt)
             time == states[first].event.ts
  <1>1. /\ pc[t] = "sendEvents" /\ new_events[t] = <<>>
        /\ pc' = [pc EXCEPT ![t] = "replenish"]
        /\ UNCHANGED <<held, new_events, events_to_cancel, state, count, generation, gvt, network>>
    BY DEF FossilCollect, Goto, toSend
  <1>2. /\ e \in Pending /\ e # NoEvent /\ e \in Event /\ lp \in LP /\ e.ts \in Nat /\ gvt \in Nat
        /\ e.ts >= gvt /\ e.ts < Infinity /\ horizon = gvt
        /\ pc[Master] = "running" /\ t # Master
        /\ \A u \in Worker : held[u] # NoEvent /\ held[u].recv = lp => u = t
    BY <1>1, Engaged DEF Handling
  <1>3. /\ e.type = POSITIVE /\ ~ IsStraggler(lp, e) /\ events_to_cancel[t] = <<>>
    BY <1>1 DEF EngineInv, WorkersInStep, InStep, Handling
  <1>4. pc'[t] = "replenish" /\ pc'[Master] = "running"
    BY <1>1, <1>2, MasterIsNoWorker DEF EngineInv, EngineTypeOK
  <1>5. /\ states # <<>> /\ Len(states) \in Nat /\ DOMAIN states = 1 .. Len(states)
        /\ \A i \in DOMAIN states : /\ states[i].event \in Message \cup {InitialEvent}
                                    /\ states[i].event.ts \in Nat
                                    /\ states[i].event.ts \in Times
        /\ (states[1].event = InitialEvent \/ states[1].event.ts < gvt)
    <2>1. /\ states # <<>>
          /\ \A i \in DOMAIN states : states[i].event \in Message \cup {InitialEvent}
          /\ (states[1].event = InitialEvent \/ states[1].event.ts < gvt)
      BY <1>2 DEF EngineInv, FirstStateIsOld
    <2>2. Len(states) \in Nat /\ DOMAIN states = 1 .. Len(states)
      BY <1>2 DEF EngineInv, EngineTypeOK, IsSequence
    <2>3. \A f \in Message \cup {InitialEvent} : f.ts \in Nat /\ f.ts \in Times
      BY MessageFacts DEF Times, Event, InitialEvent
    <2> QED
      BY <2>1, <2>2, <2>3
  <1>6. first \in 1 .. Len(states) /\ \A i \in 2 .. first : states[i].event.ts < gvt
    <2>1. states \in Seq({states[i] : i \in DOMAIN states})
      BY <1>2 DEF EngineInv, EngineTypeOK, IsSequence
    <2> HIDE DEF states
    <2> QED
      BY <1>2, <1>5, <2>1, FirstKeptIsDefined
  <1>7. sends \in Seq(Recorded) /\ Len(sends) \in Nat /\ DOMAIN sends = 1 .. Len(sends)
    BY <1>2 DEF EngineInv, EngineTypeOK
  <1>8. /\ k \in 0 .. Len(sends)
        /\ \A i \in 1 .. k : sends[i].input.ts < gvt
        /\ k < Len(sends) => sends[k + 1].input.ts >= gvt
    <2> HIDE DEF sends
    <2> QED
      BY <1>2, <1>7, SentAndPassedIsDefined
  <1> HIDE DEF e, k, first
  <1>9. /\ states[first].event = InitialEvent \/ time < gvt
        /\ time \in Nat /\ time \in Times /\ time <= gvt /\ time # Infinity
    <2>1. states[first].event = InitialEvent \/ time < gvt
      BY <1>5, <1>6
    <2>2. time \in Nat /\ time \in Times
      BY <1>5, <1>6
    <2>3. time <= gvt
      BY <1>2, <2>1, <2>2 DEF InitialEvent
    <2> QED
      BY <1>2, <2>1, <2>2, <2>3, MessageAssumption
  <1> HIDE DEF time
  <1>10. CASE gvt > last_fossil_collect_gvt[lp]
    <2>1. /\ output_queue' = [output_queue EXCEPT ![lp] = SubSeq(sends, k + 1, Len(sends))]
          /\ state_queue' = [state_queue EXCEPT ![lp] = SubSeq(states, first, Len(states))]
          /\ fossilCollect(lp, time)
          /\ last_fossil_collect_gvt' = [last_fossil_collect_gvt EXCEPT ![lp] = gvt]
      BY <1>10 DEF FossilCollect, fossilCollectAll, e, k, first, time
    <2>2. /\ input_queue' = input_queue
          /\ \A l \in LP : l # lp => processed_queue'[l] = processed_queue[l]
          /\ (lastProcessedEvent(lp))' = lastProcessedEvent(lp)
          /\ \A l \in LP : \A f \in Processed(l) : f.ts >= time => f \in Processed(l)'
          /\ \A l \in LP : l # lp => Processed(l)' = Processed(l)
      <3>1. lp' = lp
        BY <1>1 DEF e
      <3>2. PICK x \in LP : x = lp
        BY <1>2
      <3>3. fossilCollect(x, time)
        BY <2>1, <3>2
      <3>4. /\ input_queue' = input_queue
            /\ \A l \in LP : l # x => processed_queue'[l] = processed_queue[l]
            /\ (lastProcessedEvent(x))' = lastProcessedEvent(x)
            /\ \A l \in LP : \A f \in Processed(l) : f.ts >= time => f \in Processed(l)'
            /\ \A l \in LP : l # x => Processed(l)' = Processed(l)
        BY <1>9, <3>3, CollectKeeps
      <3> QED
        BY <3>1, <3>2, <3>4 DEF lastProcessedEvent
    <2>3. sent' = sent /\ horizon' = horizon
      BY <1>1, <1>2, <1>4, <2>2, PendingShrinks
    <2>4. ClientFossilCollect(t, e, time)
      BY <1>1, <1>2, <1>3, <1>9, <2>1, <2>3 DEF ClientFossilCollect, e
    <2>5. [ClientStep]_eventSetVars /\ IInv'
      BY <1>2, <1>9, <2>4, FossilCollectInv DEF ClientStep, EngineInv
    <2>6. Known' = Known /\ InNetwork' = InNetwork /\ BeingCancelled' = BeingCancelled
      BY <1>1, <2>3 DEF Known, InNetwork, BeingCancelled
    <2>7. /\ output_queue' \in [LP -> Seq(Recorded)]
          /\ OutputIsSent'
          /\ \A l \in LP : \A i \in DOMAIN output_queue'[l] :
                \E j \in DOMAIN output_queue[l] : /\ output_queue'[l][i] = output_queue[l][j]
                                                  /\ l = lp => j \in k + 1 .. Len(sends)
          /\ \A l \in LP : \A j \in DOMAIN output_queue[l] : l # lp \/ j \in k + 1 .. Len(sends) =>
                \E i \in DOMAIN output_queue'[l] : output_queue'[l][i] = output_queue[l][j]
          /\ \A l \in LP : \A i, j \in DOMAIN output_queue'[l] : i < j =>
                ~ Before(output_queue'[l][j].input, output_queue'[l][i].input)
      <3>1. k + 1 \in 1 .. Len(sends) + 1 /\ Len(sends) \in (k + 1) - 1 .. Len(sends)
        BY <1>7, <1>8
      <3> QED
        BY <1>2, <2>1, <2>6, <3>1, OutputKept
    <2>8. /\ state_queue' = [l \in LP |-> state_queue'[l]]
          /\ \A l \in LP : IsSequence(state_queue'[l])
          /\ FirstStateIsOld'
      <3>1. Len(states) \in first .. Len(states)
        BY <1>5, <1>6
      <3>2. /\ states[first].event = InitialEvent \/ states[first].event.ts < gvt
            /\ count' = count /\ gvt' = gvt /\ pc'[Master] = pc[Master]
        BY <1>1, <1>2, <1>4, <1>9 DEF time
      <3> QED
        BY <1>2, <1>6, <2>1, <3>1, <3>2, StatesKept
    <2>9. KnownIsIdentified' /\ NetworkHoldsOnce'
      BY <1>1, <2>3, <2>6 DEF EngineInv, KnownIsIdentified, NetworkHoldsOnce
    <2>10. OutputIsCaused'
      <3>1. \A u \in Worker : pc[u] \in {"sendEvents", "replenish"} =>
               held'[u] = held[u] /\ pc'[u] \in {"sendEvents", "replenish"}
        BY <1>1, MasterIsNoWorker DEF EngineInv, EngineTypeOK
      <3> SUFFICES ASSUME NEW l \in LP, NEW i \in DOMAIN output_queue'[l]
                   PROVE  \/ output_queue'[l][i].input = InitialEvent
                          \/ output_queue'[l][i].input \in Processed(l)' \cup JustReceived(l)'
        BY <2>7 DEF OutputIsCaused
      <3>2. PICK j \in DOMAIN output_queue[l] : /\ output_queue'[l][i] = output_queue[l][j]
                                                /\ l = lp => j \in k + 1 .. Len(sends)
        BY <2>7
      <3> DEFINE c == output_queue[l][j].input
      <3>3. c = InitialEvent \/ c \in Processed(l) \/ c \in JustReceived(l)
        BY <1>2 DEF EngineInv, OutputIsCaused
      <3>4. CASE c \in JustReceived(l)
        BY <3>1, <3>2, <3>4, JustReceivedStays
      <3>5. CASE c \in Processed(l) /\ l # lp
        BY <2>2, <3>2, <3>5
      <3>6. CASE c \in Processed(l) /\ l = lp
        <4>1. /\ j \in DOMAIN sends /\ k + 1 \in DOMAIN sends /\ k + 1 <= j /\ j \in Nat
              /\ c = sends[j].input /\ k \in Nat
          BY <1>7, <1>8, <3>2, <3>6
        <4>2. sends[k + 1].input.ts >= gvt /\ sends[k + 1].input \in Event /\ c \in Event
          <5>1. sends[k + 1] \in Recorded /\ sends[j] \in Recorded /\ k < Len(sends)
            BY <1>7, <4>1
          <5> QED
            BY <1>8, <4>1, <5>1 DEF Recorded
        <4>3. k + 1 = j \/ ~ Before(c, sends[k + 1].input)
          BY <1>2, <4>1 DEF EngineInv, OutputIsCaused
        <4>4. c.ts >= gvt
          BY <1>2, <4>1, <4>2, <4>3 DEF Before, Event
        <4>5. c.ts >= time
          BY <1>2, <1>9, <4>2, <4>4 DEF Event
        <4> QED
          BY <2>2, <3>2, <3>6, <4>5
      <3> QED
        BY <3>2, <3>3, <3>4, <3>5, <3>6
    <2>11. ToCancelIsSent'
      <3>0. events_to_cancel' = events_to_cancel /\ held' = held
        BY <1>1
      <3> SUFFICES ASSUME NEW u \in Worker, NEW i \in DOMAIN events_to_cancel[u]
                   PROVE  \A j \in DOMAIN output_queue'[events_to_cancel[u][i].sender] :
                             output_queue'[events_to_cancel[u][i].sender][j].output
                                # events_to_cancel[u][i]
        BY <2>6, <3>0 DEF EngineInv, ToCancelIsSent
      <3> DEFINE f == events_to_cancel[u][i]
      <3>1. /\ f.sender \in LP
            /\ \A j \in DOMAIN output_queue[f.sender] : output_queue[f.sender][j].output # f
        BY DEF EngineInv, ToCancelIsSent, KnownIsIdentified
      <3> HIDE DEF f
      <3>2. ASSUME NEW j \in DOMAIN output_queue'[f.sender]
            PROVE  output_queue'[f.sender][j].output # f
        <4>1. \E n \in DOMAIN output_queue[f.sender] :
                 output_queue'[f.sender][j] = output_queue[f.sender][n]
          BY <2>7, <3>1
        <4> QED
          BY <3>1, <4>1
      <3> QED
        BY <3>2 DEF f
    <2>12. SentIsRecorded'
      <3>0. gvt' = gvt
        BY <1>1
      <3> SUFFICES ASSUME NEW f \in Known, f.type = POSITIVE,
                          NEW j \in DOMAIN output_queue[f.sender],
                          output_queue[f.sender][j].output = f
                   PROVE  \/ \E i \in DOMAIN output_queue'[f.sender] :
                                 output_queue'[f.sender][i].output = f
                          \/ f.send < gvt
        BY <2>6, <3>0 DEF EngineInv, SentIsRecorded
      <3>1. f.sender \in LP
        BY DEF EngineInv, KnownIsIdentified
      <3>2. CASE f.sender # lp \/ j \in k + 1 .. Len(sends)
        BY <2>7, <3>1, <3>2
      <3>3. CASE f.sender = lp /\ ~ (j \in k + 1 .. Len(sends))
        <4>1. j \in 1 .. k
          BY <1>7, <1>8, <3>3
        <4>2. f.send = sends[j].input.ts
          BY <1>2, <3>3 DEF EngineInv, OutputIsSent
        <4> QED
          BY <1>8, <4>1, <4>2
      <3> QED
        BY <3>2, <3>3
    <2>13. EngineTypeOK'
      <3>1. pc' \in [Thread -> Handling \cup {"getEvent", "initialize", "running", "terminated"}]
        BY <1>1 DEF EngineInv, EngineTypeOK, Handling
      <3> QED
        BY <1>1, <2>7, <2>8, <3>1 DEF EngineInv, EngineTypeOK
    <2>14. MasterControl'
      BY <1>1, <1>2, <1>4, <2>3 DEF EngineInv, MasterControl
    <2>15. InStep(t)'
      <3>1. ~ (IsStraggler(held[t].recv, held[t]))'
        BY <1>1, <1>3, <2>2 DEF IsStraggler, lastProcessedEvent, e
      <3> QED
        BY <1>1, <1>2, <1>3, <1>4, <3>1 DEF InStep, Handling, e
    <2>16. WorkersInStep'
      <3>1. \A l \in LP : processed_queue'[l] = processed_queue[l]
             \/ (pc[t] \in Handling /\ l = held[t].recv)
        BY <1>1, <2>2 DEF Handling, e
      <3> QED
        BY <1>1, <2>15, <3>1, WorkerMoves
    <2>17. ToSendIsCaused' /\ OutstandingNotBeforeGVT'
      <3>1. BeingSent' = BeingSent
        BY <1>1 DEF BeingSent
      <3> QED
        BY <1>1, <2>6, <3>1 DEF EngineInv, ToSendIsCaused, OutstandingNotBeforeGVT
    <2> QED
      BY <2>5, <2>7, <2>8, <2>9, <2>10, <2>11, <2>12, <2>13, <2>14, <2>16, <2>17 DEF EngineInv
  <1>11. CASE ~ (gvt > last_fossil_collect_gvt[lp])
    <2>1. UNCHANGED <<queues, output_queue, state_queue, last_fossil_collect_gvt>>
      BY <1>11 DEF FossilCollect, e
    <2>2. /\ sent' = sent /\ horizon' = horizon /\ [ClientStep]_eventSetVars /\ IInv'
          /\ processed_queue' = processed_queue
          /\ \A l \in LP : Processed(l)' = Processed(l)
      BY <1>1, <1>2, <1>4, <2>1, ClientStutters
    <2>3. InStep(t)'
      BY <1>1, <1>2, <1>3, <1>4, <2>2 DEF InStep, Handling, IsStraggler, lastProcessedEvent, e
    <2>4. WorkersInStep'
      BY <1>1, <2>2, <2>3, WorkerMoves
    <2>5. OutputIsCaused'
      <3>1. \A u \in Worker : pc[u] \in {"sendEvents", "replenish"} =>
               held'[u] = held[u] /\ pc'[u] \in {"sendEvents", "replenish"}
        BY <1>1, MasterIsNoWorker DEF EngineInv, EngineTypeOK
      <3>2. \A l \in LP : \A f \in Processed(l) \cup JustReceived(l) :
               f \in Processed(l)' \cup JustReceived(l)'
        BY <2>2, <3>1, JustReceivedStays
      <3> QED
        BY <1>2, <1>4, <2>1, <3>2, CausesStand
    <2>6. pc' \in [Thread -> Handling \cup {"getEvent", "initialize", "running", "terminated"}]
      BY <1>1 DEF EngineInv, EngineTypeOK, Handling
    <2> QED
      BY <1>1, <1>2, <1>4, <2>1, <2>2, <2>4, <2>5, <2>6, WorkerStepInv
  <1> QED
    BY <1>10, <1>11

LEMMA NotAfterBefore ==
  ASSUME NEW a \in Event, NEW b \in Event, NEW c \in Event, ~ Before(b, a), Before(b, c)
  PROVE  Before(a, c)
  BY DEF Before, Event

(* What a rollback cancels was caused at or after the straggler.           *)
LEMMA WhatIsCancelled ==
  ASSUME EngineInv, NEW t \in Worker, Rollback(t)
  PROVE  LET lp == held[t].recv
             q == output_queue[lp]
             k == SentBefore(lp, held[t])
         IN  /\ lp \in LP /\ q \in Seq(Recorded) /\ Len(q) \in Nat /\ DOMAIN q = 1 .. Len(q)
             /\ k \in 0 .. Len(q)
             /\ \A i \in 1 .. k : Before(q[i].input, held[t])
             /\ \A i \in k + 1 .. Len(q) : /\ ~ Before(q[i].input, held[t])
                                           /\ q[i].output \in Event
                                           /\ q[i].output.send >= gvt
                                           /\ q[i].output.ts >= gvt
                                           /\ held[t].ts <= q[i].output.ts
             /\ output_queue' = [output_queue EXCEPT ![lp] = SubSeq(q, 1, k)]
             /\ events_to_cancel' \in [Worker -> Seq(Event)]
             /\ \A u \in Worker : u # t => events_to_cancel'[u] = events_to_cancel[u]
             /\ DOMAIN events_to_cancel'[t] = 1 .. Len(q) - k
             /\ \A i \in 1 .. Len(q) - k : events_to_cancel'[t][i] = q[i + k].output
  <1> DEFINE e == held[t]
             lp == e.recv
             q == output_queue[lp]
             inputs == [i \in DOMAIN q |-> q[i].input]
             k == SentBefore(lp, e)
             c == [i \in 1 .. Len(q) - k |-> q[k + i].output]
  <1>1. /\ pc[t] = "rollback"
        /\ output_queue' = [output_queue EXCEPT ![lp] = SubSeq(q, 1, k)]
        /\ events_to_cancel' = [events_to_cancel EXCEPT ![t] = c]
    BY DEF Rollback, removeEventsSentAfter
  <1>2. e \in Event /\ lp \in LP /\ e.ts \in Nat /\ gvt \in Nat /\ e.ts >= gvt
    BY <1>1, Engaged DEF Handling
  <1>3. q \in Seq(Recorded) /\ Len(q) \in Nat /\ DOMAIN q = 1 .. Len(q)
        /\ \A i \in 1 .. Len(q) : q[i] \in Recorded
    <2>1. q \in Seq(Recorded)
      BY <1>2 DEF EngineInv, EngineTypeOK
    <2> HIDE DEF q
    <2> QED
      BY <2>1
  <1>4. \A i \in 1 .. Len(q) : q[i].input \in Event /\ q[i].output \in Event
    BY <1>3 DEF Recorded
  <1> HIDE DEF q, e
  <1>5. inputs \in Seq(Event) /\ Len(inputs) = Len(q) /\ \A i \in 1 .. Len(q) : inputs[i] = q[i].input
    BY <1>3, <1>4
  <1>6. k = KeptBy(inputs, e)
    BY DEF SentBefore, q
  <1> HIDE DEF inputs, k
  <1>7. /\ k \in 0 .. Len(q)
        /\ k > 0 => Before(inputs[k], e)
        /\ \A i \in k + 1 .. Len(q) : SameOrAfter(inputs[i], e)
    BY <1>2, <1>5, <1>6, KeptByIsDefined
  <1>8. ASSUME NEW i \in 1 .. k PROVE Before(q[i].input, e)
    <2>1. i \in 1 .. Len(q) /\ k \in 1 .. Len(q) /\ k > 0
      BY <1>3, <1>7
    <2>2. Before(q[k].input, e)
      BY <1>5, <1>7, <2>1
    <2>3. i = k \/ ~ Before(q[k].input, q[i].input)
      BY <1>2, <1>3, <2>1 DEF EngineInv, OutputIsCaused, q
    <2> QED
      BY <1>2, <1>4, <2>1, <2>2, <2>3, NotAfterBefore
  <1>9. ASSUME NEW i \in k + 1 .. Len(q)
        PROVE  /\ ~ Before(q[i].input, e)
               /\ q[i].output \in Event /\ q[i].output.send >= gvt /\ q[i].output.ts >= gvt
               /\ e.ts <= q[i].output.ts
    <2>1. i \in 1 .. Len(q) /\ q[i].input \in Event /\ q[i].output \in Event
      BY <1>3, <1>4, <1>7
    <2>2. ~ Before(q[i].input, e)
      BY <1>5, <1>7, <2>1 DEF SameOrAfter
    <2>3. q[i].input.ts >= e.ts
      <3>1. q[i].input.ts \in Nat
        BY <2>1 DEF Event
      <3>2. ~ (q[i].input.ts < e.ts)
        BY <2>2 DEF Before
      <3> QED
        BY <1>2, <3>1, <3>2
    <2>4. q[i].output.send = q[i].input.ts /\ q[i].output \in Known
      BY <1>2, <1>3, <2>1 DEF EngineInv, OutputIsSent, q
    <2>5. q[i].output.send <= q[i].output.ts
      BY <2>4 DEF EngineInv, KnownIsIdentified
    <2>6. q[i].output.send \in Nat /\ q[i].output.ts \in Nat /\ q[i].input.ts \in Nat
      BY <2>1 DEF Event
    <2> QED
      BY <1>2, <2>1, <2>2, <2>3, <2>4, <2>5, <2>6
  <1>10. /\ c \in Seq(Event) /\ DOMAIN c = 1 .. Len(q) - k
         /\ \A i \in 1 .. Len(q) - k : c[i] = q[i + k].output
    <2>1. Len(q) - k \in Nat /\ \A i \in 1 .. Len(q) - k : k + i \in 1 .. Len(q) /\ k + i = i + k
      BY <1>3, <1>7
    <2>2. c \in [1 .. Len(q) - k -> Event]
      BY <1>4, <2>1
    <2> QED
      BY <2>1, <2>2
  <1> HIDE DEF c
  <1>11. /\ events_to_cancel' \in [Worker -> Seq(Event)]
         /\ \A u \in Worker : events_to_cancel'[u] = IF u = t THEN c ELSE events_to_cancel[u]
    BY <1>1, <1>10 DEF EngineInv, EngineTypeOK
  <1> QED
    BY <1>1, <1>2, <1>3, <1>7, <1>8, <1>9, <1>10, <1>11 DEF q, k, e

(* What a rollback leaves of the processed queue of the straggler's LP.    *)
LEMMA WhatIsUndone ==
  ASSUME IInv, NEW lp \in LP, NEW e \in Event, rollback(lp, e)
  PROVE  /\ \A l \in LP : l # lp => processed_queue'[l] = processed_queue[l]
         /\ \A f \in Processed(lp) : Before(f, e) => f \in Processed(lp)'
         /\ Pending' \subseteq sent
         /\ ~ (IsStraggler(lp, e))'
  <1> DEFINE p == processed_queue[lp]
             k == KeptBy(p, e)
             c == SubSeq(p, 1, k)
             moved == {p[i] : i \in k + 1 .. Len(p)}
  <1>1. p \in Seq(Event) /\ Len(p) \in Nat /\ DOMAIN p = 1 .. Len(p)
    BY QueueFacts DEF IInv
  <1>2. /\ k \in 0 .. Len(p)
        /\ k > 0 => Before(p[k], e)
        /\ \A i \in k + 1 .. Len(p) : SameOrAfter(p[i], e)
    <2> HIDE DEF p
    <2> QED
      BY <1>1, KeptByIsDefined
  <1>3. /\ processed_queue' = [processed_queue EXCEPT ![lp] = c]
        /\ input_queue' = [input_queue EXCEPT ![lp] = @ \cup moved]
    BY DEF rollback
  <1> HIDE DEF k, p
  <1>4. k \in Nat /\ c \in Seq(Event) /\ Len(c) = k /\ DOMAIN c = 1 .. k
        /\ \A i \in 1 .. k : c[i] = p[i]
    BY <1>1, <1>2
  <1> HIDE DEF c
  <1>5. /\ processed_queue'[lp] = c
        /\ \A l \in LP : l # lp => processed_queue'[l] = processed_queue[l]
        /\ \A l \in LP : input_queue'[l] = IF l = lp THEN input_queue[l] \cup moved ELSE input_queue[l]
    BY <1>3 DEF IInv, TypeOK
  <1>6. ASSUME NEW f \in Processed(lp), Before(f, e) PROVE f \in Processed(lp)'
    <2>1. PICK i \in DOMAIN p : p[i] = f
      BY <1>6 DEF Processed, p
    <2>2. ~ (i \in k + 1 .. Len(p))
      BY <1>2, <1>6, <2>1 DEF SameOrAfter
    <2>3. i \in DOMAIN c /\ c[i] = f
      BY <1>1, <1>4, <2>1, <2>2
    <2> QED
      BY <1>5, <2>3 DEF Processed
  <1>7. Pending' \subseteq sent
    <2> SUFFICES ASSUME NEW f \in Pending' PROVE f \in sent
      OBVIOUS
    <2>1. PICK l \in LP : f \in input_queue'[l]
      BY DEF Pending
    <2>2. CASE f \in input_queue[l]
      BY <2>2, QueueFacts DEF IInv
    <2>3. CASE l = lp /\ f \in moved
      <3>1. PICK i \in k + 1 .. Len(p) : f = p[i]
        BY <2>3
      <3>2. i \in DOMAIN p
        BY <1>1, <1>4, <3>1
      <3>3. f \in Processed(lp)
        BY <3>1, <3>2 DEF Processed, p
      <3> QED
        BY <3>3, QueueFacts DEF IInv
    <2> QED
      BY <1>5, <2>1, <2>2, <2>3
  <1>8. ~ (IsStraggler(lp, e))'
    <2>1. CASE k = 0
      <3>1. c = <<>>
        BY <1>4, <2>1
      <3> QED
        BY <1>5, <3>1 DEF IsStraggler, lastProcessedEvent
    <2>2. CASE k > 0
      <3>1. c # <<>> /\ c[Len(c)] = p[k] /\ p[k] \in Event
        BY <1>1, <1>2, <1>4, <2>2
      <3>2. ~ Before(e, p[k]) /\ ~ SameEvent(e, p[k])
        BY <1>2, <2>2, <3>1, BeforeIsStrictOrder, BeforeIsTotal
      <3> QED
        BY <1>5, <3>1, <3>2 DEF IsStraggler, lastProcessedEvent
    <2> QED
      BY <1>2, <2>1, <2>2
  <1> QED
    BY <1>5, <1>6, <1>7, <1>8

(* The assertions of rollback.                                             *)
LEMMA FirstStateIsBefore ==
  ASSUME EngineInv, NEW t \in Worker, pc[t] = "rollback"
  PROVE  LET q == state_queue[held[t].recv]
         IN  /\ q # <<>> /\ 1 \in DOMAIN q /\ DOMAIN q = 1 .. Len(q) /\ Len(q) \in Nat
             /\ \A i \in DOMAIN q : q[i].event \in Event
             /\ Before(q[1].event, held[t])
             /\ q[1].event = InitialEvent \/ q[1].event.ts < gvt
  <1> DEFINE lp == held[t].recv
             q == state_queue[lp]
  <1>1. /\ lp \in LP /\ held[t] \in Event /\ held[t].sender \in LP /\ held[t].ts >= gvt
        /\ held[t].ts \in Nat /\ gvt \in Nat /\ pc[Master] = "running"
    BY Engaged DEF Handling
  <1>2. IsSequence(q) /\ q # <<>> /\ (q[1].event = InitialEvent \/ q[1].event.ts < gvt)
        /\ \A i \in DOMAIN q : q[i].event \in Message \cup {InitialEvent}
    BY <1>1 DEF EngineInv, EngineTypeOK, FirstStateIsOld
  <1>3. DOMAIN q = 1 .. Len(q) /\ Len(q) \in Nat /\ 1 \in DOMAIN q
    <2>1. q \in Seq({q[i] : i \in DOMAIN q})
      BY <1>2 DEF IsSequence
    <2>2. PICK S : q \in Seq(S)
      BY <2>1
    <2> HIDE DEF q
    <2> QED
      BY <1>2, <2>2
  <1>4. \A f \in Message \cup {InitialEvent} : f \in Event
    BY MessageFacts DEF InitialEvent, Event, POSITIVE
  <1>5. Before(q[1].event, held[t])
    <2>1. CASE q[1].event = InitialEvent
      <3>1. held[t].sender > 0
        BY <1>1 DEF LP
      <3> QED
        BY <1>1, <2>1, <3>1, InitialEventIsFirst
    <2>2. CASE q[1].event.ts < gvt
      <3>1. q[1].event.ts \in Nat
        BY <1>2, <1>3, <1>4 DEF Event
      <3> QED
        BY <1>1, <2>2, <3>1 DEF Before
    <2> QED
      BY <1>2, <2>1, <2>2
  <1> QED
    BY <1>2, <1>3, <1>4, <1>5

LEMMA RollbackStep ==
  ASSUME EngineInv, Remember, NEW t \in Worker, Rollback(t)
  PROVE  [ClientStep]_eventSetVars /\ EngineInv'
  <1> DEFINE e == held[t]
             lp == e.recv
             q == output_queue[lp]
             k == SentBefore(lp, e)
             states == state_queue[lp]
             events == [i \in DOMAIN states |-> states[i].event]
             n == KeptBy(events, e)
  <1>1. /\ pc[t] = "rollback"
        /\ rollback(lp, e)
        /\ n > 0
        /\ state_queue' = [state_queue EXCEPT ![lp] = SubSeq(states, 1, n)]
        /\ pc' = [pc EXCEPT ![t] = "cancelEvents"]
        /\ \E s : events_to_cancel' = [events_to_cancel EXCEPT ![t] = s]
        /\ UNCHANGED <<held, new_events, count, generation, last_fossil_collect_gvt, gvt, network>>
    BY DEF Rollback, restoreState, removeEventsSentAfter, Goto
  <1>2. /\ e \in Pending /\ e # NoEvent /\ e \in Event /\ lp \in LP /\ e.ts \in Nat /\ gvt \in Nat
        /\ e.ts >= gvt /\ pc[Master] = "running" /\ t # Master
        /\ \A u \in Worker : held[u] # NoEvent /\ held[u].recv = lp => u = t
    BY <1>1, Engaged DEF Handling
  <1>3. IsStraggler(lp, e) /\ new_events[t] = <<>> /\ events_to_cancel[t] = <<>>
    BY <1>1 DEF EngineInv, WorkersInStep, InStep, Handling
  <1>4. pc'[t] = "cancelEvents" /\ pc'[Master] = "running"
    BY <1>1, <1>2, MasterIsNoWorker DEF EngineInv, EngineTypeOK
  <1>5. /\ q \in Seq(Recorded) /\ Len(q) \in Nat /\ DOMAIN q = 1 .. Len(q)
        /\ k \in 0 .. Len(q)
        /\ \A i \in 1 .. k : Before(q[i].input, e)
        /\ \A i \in k + 1 .. Len(q) : q[i].output.send >= gvt /\ q[i].output.ts >= gvt
        /\ output_queue' = [output_queue EXCEPT ![lp] = SubSeq(q, 1, k)]
        /\ events_to_cancel' \in [Worker -> Seq(Event)]
        /\ \A u \in Worker : u # t => events_to_cancel'[u] = events_to_cancel[u]
        /\ DOMAIN events_to_cancel'[t] = 1 .. Len(q) - k
        /\ \A i \in 1 .. Len(q) - k : events_to_cancel'[t][i] = q[i + k].output
    BY WhatIsCancelled
  <1> HIDE DEF k
  <1>6. /\ \A l \in LP : l # lp => processed_queue'[l] = processed_queue[l]
        /\ \A l \in LP : \A f \in Processed(l) : l # lp \/ Before(f, e) => f \in Processed(l)'
        /\ Pending' \subseteq sent
        /\ ~ (IsStraggler(lp, e))'
    <2>1. PICK x \in LP, f \in Event : x = lp /\ f = e
      BY <1>2
    <2>2. rollback(x, f)
      BY <1>1, <2>1
    <2>3. IInv
      BY DEF EngineInv
    <2>4. /\ \A l \in LP : l # x => processed_queue'[l] = processed_queue[l]
          /\ \A g \in Processed(x) : Before(g, f) => g \in Processed(x)'
          /\ Pending' \subseteq sent
          /\ ~ (IsStraggler(x, f))'
      BY <2>2, <2>3, WhatIsUndone
    <2>5. \A l \in LP : l # x => Processed(l)' = Processed(l)
      BY <2>4 DEF Processed
    <2>6. ~ (IsStraggler(lp, e))'
      BY <1>1, <2>1, <2>4 DEF IsStraggler, lastProcessedEvent
    <2> QED
      BY <2>1, <2>4, <2>5, <2>6
  <1>7. sent' = sent /\ horizon' = horizon
    <2>1. sent' = sent
      BY <1>6, NothingInserted DEF EngineInv
    <2> QED
      BY <1>1, <1>2, <1>4, <2>1 DEF EngineInv, MasterControl, Remember
  <1>8. ClientRollback(t, e)
    BY <1>1, <1>3, <1>7 DEF ClientRollback
  <1>9. [ClientStep]_eventSetVars /\ IInv'
    BY <1>2, <1>8, RollbackInv DEF ClientStep, ClientWorkerStep, EngineInv
  <1>10. Known' = Known /\ InNetwork' = InNetwork
    BY <1>1, <1>7 DEF Known, InNetwork
  <1>11. /\ output_queue' \in [LP -> Seq(Recorded)]
         /\ OutputIsSent'
         /\ \A l \in LP : \A i \in DOMAIN output_queue'[l] :
               \E j \in DOMAIN output_queue[l] : /\ output_queue'[l][i] = output_queue[l][j]
                                                 /\ l = lp => j \in 1 .. k
         /\ \A l \in LP : \A j \in DOMAIN output_queue[l] : l # lp \/ j \in 1 .. k =>
               \E i \in DOMAIN output_queue'[l] : output_queue'[l][i] = output_queue[l][j]
         /\ \A l \in LP : \A i, j \in DOMAIN output_queue'[l] : i < j =>
               ~ Before(output_queue'[l][j].input, output_queue'[l][i].input)
    <2>1. 1 \in 1 .. Len(q) + 1 /\ k \in 1 - 1 .. Len(q)
      BY <1>5
    <2> QED
      BY <1>2, <1>5, <1>10, <2>1, OutputKept
  <1>12. /\ state_queue' = [l \in LP |-> state_queue'[l]]
         /\ \A l \in LP : IsSequence(state_queue'[l])
         /\ FirstStateIsOld'
    <2>1. /\ states # <<>> /\ DOMAIN states = 1 .. Len(states) /\ Len(states) \in Nat
          /\ \A i \in DOMAIN states : states[i].event \in Event
          /\ states[1].event = InitialEvent \/ states[1].event.ts < gvt
      BY <1>1, FirstStateIsBefore
    <2>2. events \in Seq(Event) /\ Len(events) = Len(states)
      <3> HIDE DEF states
      <3> QED
        BY <2>1
    <2> HIDE DEF events
    <2>3. n \in 0 .. Len(events)
      BY <1>2, <2>2, KeptByIsDefined
    <2> HIDE DEF n
    <2>4. 1 \in 1 .. Len(states) /\ n \in 1 .. Len(states)
      BY <1>1, <2>1, <2>2, <2>3
    <2>5. count' = count /\ gvt' = gvt /\ pc'[Master] = pc[Master]
      BY <1>1, <1>2, <1>4
    <2> QED
      BY <1>1, <1>2, <2>1, <2>4, <2>5, StatesKept
  <1> HIDE DEF n, events
  <1>13. KnownIsIdentified' /\ NetworkHoldsOnce'
    BY <1>1, <1>7, <1>10 DEF EngineInv, KnownIsIdentified, NetworkHoldsOnce
  <1>14. OutputIsCaused'
    <2>1. \A u \in Worker : pc[u] \in {"sendEvents", "replenish"} =>
             held'[u] = held[u] /\ pc'[u] \in {"sendEvents", "replenish"}
      BY <1>1, MasterIsNoWorker DEF EngineInv, EngineTypeOK
    <2> SUFFICES ASSUME NEW l \in LP, NEW i \in DOMAIN output_queue'[l]
                 PROVE  \/ output_queue'[l][i].input = InitialEvent
                        \/ output_queue'[l][i].input \in Processed(l)' \cup JustReceived(l)'
      BY <1>11 DEF OutputIsCaused
    <2>2. PICK j \in DOMAIN output_queue[l] : /\ output_queue'[l][i] = output_queue[l][j]
                                              /\ l = lp => j \in 1 .. k
      BY <1>11
    <2> DEFINE c == output_queue[l][j].input
    <2>3. c = InitialEvent \/ c \in Processed(l) \/ c \in JustReceived(l)
      BY <1>2 DEF EngineInv, OutputIsCaused
    <2>4. CASE c \in JustReceived(l)
      BY <2>1, <2>2, <2>4, JustReceivedStays
    <2>5. CASE c \in Processed(l)
      <3>1. l # lp \/ Before(c, e)
        BY <1>5, <2>2
      <3> QED
        BY <1>6, <2>2, <2>5, <3>1
    <2> QED
      BY <2>2, <2>3, <2>4, <2>5
  <1>15. ToCancelIsSent'
    <2>0. held' = held
      BY <1>1
    <2> SUFFICES ASSUME NEW u \in Worker, NEW i \in DOMAIN events_to_cancel'[u]
                 PROVE  LET c == events_to_cancel'[u][i]
                        IN  /\ c \in Known
                            /\ c.type = POSITIVE
                            /\ c.sender = held[u].recv
                            /\ NegativeEvent(c) \notin Known
                            /\ \A j \in DOMAIN events_to_cancel'[u] :
                                   events_to_cancel'[u][j] = c => i = j
                            /\ \A j \in DOMAIN output_queue'[c.sender] :
                                   output_queue'[c.sender][j].output # c
      BY <1>10, <2>0 DEF ToCancelIsSent
    <2>1. CASE u = t
      <3>1. /\ i \in 1 .. Len(q) - k /\ events_to_cancel'[u][i] = q[i + k].output
            /\ i + k \in DOMAIN q /\ k \in Nat /\ i \in Nat
        BY <1>5, <2>1
      <3> DEFINE c == q[i + k].output
      <3>2. /\ c \in Known /\ c.type = POSITIVE /\ c.sender = lp /\ NegativeEvent(c) \notin Known
            /\ \A j \in DOMAIN q : q[j].output = c => i + k = j
        BY <1>2, <3>1 DEF EngineInv, OutputIsSent
      <3> HIDE DEF c
      <3>3. ASSUME NEW j \in DOMAIN events_to_cancel'[u], events_to_cancel'[u][j] = c PROVE i = j
        <4>0. j \in 1 .. Len(q) - k
          BY <1>5, <2>1
        <4>1. j + k \in DOMAIN q /\ j \in Nat
          BY <1>5, <3>1, <4>0
        <4>3. q[j + k].output = c
          BY <1>5, <2>1, <3>3, <4>0
        <4>2. i + k = j + k
          BY <3>2, <4>1, <4>3
        <4> QED
          BY <3>1, <4>1, <4>2
      <3>4. ASSUME NEW j \in DOMAIN output_queue'[lp] PROVE output_queue'[lp][j].output # c
        <4>1. PICK x \in DOMAIN q : output_queue'[lp][j] = q[x] /\ x \in 1 .. k
          BY <1>2, <1>11
        <4>2. x # i + k
          BY <3>1, <4>1
        <4> QED
          BY <3>2, <4>1, <4>2
      <3> QED
        BY <2>1, <3>1, <3>2, <3>3, <3>4 DEF c
    <2>2. CASE u # t
      <3> DEFINE c == events_to_cancel[u][i]
      <3>1. events_to_cancel'[u] = events_to_cancel[u]
        BY <1>5, <2>2
      <3>2. /\ c \in Known /\ c.type = POSITIVE /\ c.sender = held[u].recv
            /\ NegativeEvent(c) \notin Known
            /\ \A j \in DOMAIN events_to_cancel[u] : events_to_cancel[u][j] = c => i = j
            /\ \A j \in DOMAIN output_queue[c.sender] : output_queue[c.sender][j].output # c
        BY <3>1 DEF EngineInv, ToCancelIsSent
      <3>3. c.sender \in LP
        BY <3>2 DEF EngineInv, KnownIsIdentified
      <3> HIDE DEF c
      <3>4. ASSUME NEW j \in DOMAIN output_queue'[c.sender] PROVE output_queue'[c.sender][j].output # c
        <4>1. \E x \in DOMAIN output_queue[c.sender] : output_queue'[c.sender][j] = output_queue[c.sender][x]
          BY <1>11, <3>3
        <4> QED
          BY <3>2, <4>1
      <3> QED
        BY <3>1, <3>2, <3>4 DEF c
    <2> QED
      BY <2>1, <2>2
  <1>16. SentIsRecorded'
    <2>0. gvt' = gvt
      BY <1>1
    <2> SUFFICES ASSUME NEW f \in Known, f.type = POSITIVE
                 PROVE  \/ \E i \in DOMAIN output_queue'[f.sender] : output_queue'[f.sender][i].output = f
                        \/ f \in BeingCancelled'
                        \/ NegativeEvent(f) \in Known
                        \/ f.send < gvt
      BY <1>10, <2>0 DEF SentIsRecorded
    <2>1. f.sender \in LP
      BY DEF EngineInv, KnownIsIdentified
    <2>2. CASE f \in BeingCancelled
      <3>1. PICK u \in Worker : \E i \in DOMAIN events_to_cancel[u] : f = events_to_cancel[u][i]
        BY <2>2, BeingCancelledIs
      <3>2. u # t
        BY <1>3, <3>1
      <3>3. \E i \in DOMAIN events_to_cancel'[u] : f = events_to_cancel'[u][i]
        BY <1>5, <3>1, <3>2
      <3> QED
        BY <3>3 DEF BeingCancelled, ToSet
    <2>3. ASSUME NEW j \in DOMAIN output_queue[f.sender], output_queue[f.sender][j].output = f
          PROVE  \/ \E i \in DOMAIN output_queue'[f.sender] : output_queue'[f.sender][i].output = f
                 \/ f \in BeingCancelled'
      <3>1. CASE f.sender # lp \/ j \in 1 .. k
        BY <1>11, <2>1, <2>3, <3>1
      <3>2. CASE f.sender = lp /\ ~ (j \in 1 .. k)
        <4>1. j - k \in 1 .. Len(q) - k /\ (j - k) + k = j
          <5>1. j \in 1 .. Len(q) /\ ~ (j \in 1 .. k)
            BY <1>5, <2>3, <3>2
          <5>2. Len(q) \in Nat /\ k \in 0 .. Len(q)
            BY <1>5
          <5> HIDE DEF q
          <5> QED
            BY <5>1, <5>2
        <4>2. j - k \in DOMAIN events_to_cancel'[t] /\ events_to_cancel'[t][j - k] = f
          BY <1>5, <2>3, <3>2, <4>1
        <4> QED
          BY <4>2 DEF BeingCancelled, ToSet
      <3> QED
        BY <3>1, <3>2
    <2> QED
      BY <2>2, <2>3 DEF EngineInv, SentIsRecorded
  <1>17. EngineTypeOK'
    <2>1. pc' \in [Thread -> Handling \cup {"getEvent", "initialize", "running", "terminated"}]
      BY <1>1 DEF EngineInv, EngineTypeOK, Handling
    <2> QED
      BY <1>1, <1>5, <1>11, <1>12, <2>1 DEF EngineInv, EngineTypeOK
  <1>18. MasterControl'
    BY <1>1, <1>2, <1>4, <1>7 DEF EngineInv, MasterControl
  <1>19. InStep(t)'
    <2>1. ~ (IsStraggler(held[t].recv, held[t]))'
      BY <1>6
    <2> QED
      BY <1>1, <1>2, <1>3, <1>4, <2>1 DEF InStep, Handling
  <1>20. WorkersInStep'
    <2>1. \A l \in LP : processed_queue'[l] = processed_queue[l]
             \/ (pc[t] \in Handling /\ l = held[t].recv)
      BY <1>1, <1>6 DEF Handling
    <2> QED
      BY <1>1, <1>19, <2>1, WorkerMoves
  <1>21. ToSendIsCaused'
    BY <1>1 DEF EngineInv, ToSendIsCaused
  <1>22. OutstandingNotBeforeGVT'
    <2>1. BeingSent' = BeingSent
      BY <1>1 DEF BeingSent
    <2>2. ASSUME NEW f \in BeingCancelled' PROVE gvt <= f.ts
      <3>1. PICK u \in Worker : \E i \in DOMAIN events_to_cancel'[u] : f = events_to_cancel'[u][i]
        BY <2>2 DEF BeingCancelled, ToSet
      <3>2. CASE u = t
        <4>1. PICK i \in 1 .. Len(q) - k : f = q[i + k].output
          BY <1>5, <3>1, <3>2
        <4>2. i + k \in k + 1 .. Len(q)
          BY <1>5, <4>1
        <4>3. q[i + k].output.ts >= gvt /\ q[i + k].output \in Event
          <5>1. q[i + k] \in Recorded
            BY <1>5, <4>2
          <5> QED
            BY <1>5, <4>2, <5>1 DEF Recorded
        <4> QED
          BY <1>2, <4>1, <4>3 DEF Event
      <3>3. CASE u # t
        <4>1. f \in BeingCancelled
          BY <1>5, <3>1, <3>3, BeingCancelledIs
        <4> QED
          BY <4>1 DEF EngineInv, OutstandingNotBeforeGVT
      <3> QED
        BY <3>2, <3>3
    <2> QED
      BY <1>1, <1>10, <2>1, <2>2 DEF EngineInv, OutstandingNotBeforeGVT
  <1> QED
    BY <1>9, <1>11, <1>12, <1>13, <1>14, <1>15, <1>16, <1>17, <1>18, <1>20, <1>21, <1>22 DEF EngineInv

LEMMA AdvanceGVTStep ==
  ASSUME MessageIsAll, EngineInv, Remember, NEW time \in GvtTimes, AdvanceGVT(time)
  PROVE  [ClientStep]_eventSetVars /\ EngineInv'
  <1>1. /\ pc[Master] = "running" /\ gvt < time /\ gvt' = time
        /\ \A e \in Outstanding : time <= e.ts
        /\ UNCHANGED <<queues, held, pc, new_events, events_to_cancel, state, state_queue,
                       count, output_queue, generation, last_fossil_collect_gvt, network>>
    BY DEF AdvanceGVT, toSend, lpVars
  <1>2. /\ time \in Nat /\ time \in Times /\ gvt \in Nat /\ gvt <= gvt' /\ time <= Infinity
        /\ Infinity \in Nat
    <2>1. time \in Nat /\ time \in Times
      BY MessageTimes
    <2>2. time <= Infinity /\ Infinity \in Nat
      BY TimesAssumption
    <2>3. gvt \in Nat
      BY DEF EngineInv, EngineTypeOK
    <2> QED
      BY <1>1, <2>1, <2>2, <2>3
  <1>3. Pending' = Pending
    BY <1>1 DEF Pending, queues
  <1>4. sent' = sent /\ horizon' = time /\ horizon = gvt
    BY <1>1, <1>3, PendingIsSent, NothingInserted DEF EngineInv, MasterControl, Remember
  <1>5. AdvanceHorizon(time)
    BY <1>1, <1>4 DEF AdvanceHorizon, Outstanding
  <1>6. [ClientStep]_eventSetVars /\ IInv'
    BY <1>2, <1>5, AdvanceHorizonInv DEF ClientStep, EngineInv
  <1>7. /\ Known' = Known /\ InNetwork' = InNetwork /\ BeingCancelled' = BeingCancelled
        /\ KnownIsIdentified' /\ NetworkHoldsOnce'
        /\ OutputIsSent' /\ ToCancelIsSent' /\ SentIsRecorded'
    BY <1>1, <1>2, <1>4, Quiet
  <1>8. EngineTypeOK'
    BY <1>1, <1>2 DEF EngineInv, EngineTypeOK
  <1>9. MasterControl'
    BY <1>1, <1>2, <1>4 DEF EngineInv, MasterControl
  <1>10. processed_queue' = processed_queue /\ \A l \in LP : Processed(l)' = Processed(l)
    BY <1>1 DEF queues, Processed
  <1>11. WorkersInStep'
    <2> SUFFICES ASSUME NEW u \in Worker PROVE InStep(u)'
      BY DEF WorkersInStep
    <2> QED
      BY <1>1, <1>10, OthersInStep
  <1>12. OutputIsCaused'
    <2>1. \A l \in LP : JustReceived(l)' = JustReceived(l)
      BY <1>1 DEF JustReceived, HandledBy
    <2> QED
      BY <1>1, <1>10, <2>1, CausesStand
  <1>13. ToSendIsCaused'
    BY <1>1 DEF EngineInv, ToSendIsCaused
  <1>14. OutstandingNotBeforeGVT'
    <2>1. BeingSent' = BeingSent
      BY <1>1 DEF BeingSent
    <2> QED
      BY <1>1, <1>7, <2>1 DEF OutstandingNotBeforeGVT, Outstanding
  <1>15. FirstStateIsOld'
    <2> SUFFICES ASSUME NEW lp \in LP, state_queue[lp] # <<>>,
                        state_queue[lp][1].event.ts < gvt
                 PROVE  state_queue[lp][1].event.ts < time
      BY <1>1 DEF EngineInv, FirstStateIsOld
    <2>1. 1 \in DOMAIN state_queue[lp]
      <3>1. IsSequence(state_queue[lp])
        BY DEF EngineInv, EngineTypeOK
      <3> QED
        BY <3>1 DEF IsSequence
    <2>2. state_queue[lp][1].event \in Message \cup {InitialEvent}
      BY <2>1 DEF EngineInv, FirstStateIsOld
    <2>3. state_queue[lp][1].event.ts \in Nat
      BY <2>2, MessageFacts DEF Event, InitialEvent
    <2> QED
      BY <1>1, <1>2, <2>3
  <1> QED
    BY <1>6, <1>7, <1>8, <1>9, <1>11, <1>12, <1>13, <1>14, <1>15 DEF EngineInv

LEMMA TerminateStep ==
  ASSUME EngineInv, Remember, Terminate
  PROVE  [ClientStep]_eventSetVars /\ EngineInv'
  <1>1. /\ pc[Master] = "running" /\ Outstanding = {}
        /\ pc' = [pc EXCEPT ![Master] = "terminated"]
        /\ \A t \in Worker : pc[t] = "getEvent"
        /\ UNCHANGED <<queues, held, new_events, events_to_cancel, state, state_queue,
                       count, output_queue, generation, last_fossil_collect_gvt, gvt, network>>
    BY DEF Terminate, Goto, toSend, lpVars
  <1>2. /\ pc'[Master] = "terminated" /\ Master \notin Worker
        /\ \A t \in Worker : pc'[t] = pc[t]
    BY <1>1, MasterIsNoWorker DEF EngineInv, EngineTypeOK
  <1>3. gvt \in Nat /\ gvt <= gvt' /\ gvt <= Infinity /\ Infinity \in Nat /\ Infinity \in Times
    BY <1>1, TimesAssumption DEF EngineInv, EngineTypeOK, MasterControl, Times
  <1>4. Pending' = Pending /\ Pending = {}
    BY <1>1 DEF Pending, queues, Outstanding
  <1>5. sent' = sent /\ horizon' = Infinity /\ horizon = gvt
    BY <1>1, <1>2, <1>4, NothingInserted DEF EngineInv, MasterControl, Remember
  <1>6. [ClientStep]_eventSetVars /\ IInv'
    <2>1. CASE gvt = Infinity
      <3>1. UNCHANGED eventSetVars
        BY <1>1, <1>5, <2>1 DEF eventSetVars
      <3> QED
        BY <3>1, StutterInv DEF EngineInv
    <2>2. CASE gvt # Infinity
      <3>1. AdvanceHorizon(Infinity)
        BY <1>1, <1>3, <1>4, <1>5, <2>2 DEF AdvanceHorizon
      <3> QED
        BY <1>3, <3>1, AdvanceHorizonInv DEF ClientStep, EngineInv
    <2> QED
      BY <2>1, <2>2
  <1>7. /\ Known' = Known /\ InNetwork' = InNetwork /\ BeingCancelled' = BeingCancelled
        /\ KnownIsIdentified' /\ NetworkHoldsOnce'
        /\ OutputIsSent' /\ ToCancelIsSent' /\ SentIsRecorded'
    BY <1>1, <1>3, <1>5, Quiet
  <1>8. EngineTypeOK'
    BY <1>1 DEF EngineInv, EngineTypeOK
  <1>9. BeingSent' = BeingSent
    BY <1>1 DEF BeingSent
  <1>10. MasterControl'
    <2>1. Outstanding' = {}
      BY <1>1, <1>4, <1>7, <1>9 DEF Outstanding
    <2> QED
      BY <1>1, <1>2, <1>5, <2>1 DEF EngineInv, MasterControl
  <1>11. processed_queue' = processed_queue
    BY <1>1 DEF queues
  <1>12. WorkersInStep'
    <2> SUFFICES ASSUME NEW u \in Worker PROVE InStep(u)'
      BY DEF WorkersInStep
    <2> QED
      BY <1>1, <1>2, <1>11, OthersInStep
  <1>13. OutputIsCaused'
    BY <1>1, <1>2, CausesStand
  <1>14. ToSendIsCaused' /\ OutstandingNotBeforeGVT'
    BY <1>1, <1>7, <1>9 DEF EngineInv, ToSendIsCaused, OutstandingNotBeforeGVT
  <1>15. FirstStateIsOld'
    BY <1>1 DEF EngineInv, FirstStateIsOld
  <1> QED
    BY <1>6, <1>7, <1>8, <1>10, <1>12, <1>13, <1>14, <1>15 DEF EngineInv

LEMMA FinalCollectStep ==
  ASSUME EngineInv, Remember, NEW lp \in LP, FinalCollect(lp)
  PROVE  [ClientStep]_eventSetVars /\ EngineInv'
  <1>1. /\ pc[Master] = "terminated"
        /\ fossilCollect(lp, Infinity)
        /\ UNCHANGED <<held, pc, new_events, events_to_cancel, state, state_queue,
                       count, output_queue, generation, last_fossil_collect_gvt, gvt, network>>
    BY DEF FinalCollect, toSend, lpVars
  <1>2. gvt \in Nat /\ gvt <= gvt'
    BY <1>1 DEF EngineInv, EngineTypeOK
  <1>3. Pending' = Pending
    BY <1>1 DEF Pending, fossilCollect
  <1>4. sent' = sent /\ horizon' = Infinity /\ horizon = Infinity
    BY <1>1, <1>3, PendingIsSent, NothingInserted DEF EngineInv, MasterControl, Remember
  <1>5. \A t \in Worker : pc[t] = "getEvent" /\ held[t] = NoEvent
    BY <1>1 DEF EngineInv, WorkersInStep, InStep
  <1>6. ClientFinalCollect(lp)
    BY <1>1, <1>4, <1>5 DEF ClientFinalCollect
  <1>7. [ClientStep]_eventSetVars /\ IInv'
    BY <1>6, FinalCollectInv DEF ClientStep, EngineInv
  <1>8. /\ Known' = Known /\ InNetwork' = InNetwork /\ BeingCancelled' = BeingCancelled
        /\ KnownIsIdentified' /\ NetworkHoldsOnce'
        /\ OutputIsSent' /\ ToCancelIsSent' /\ SentIsRecorded'
    BY <1>1, <1>2, <1>4, Quiet
  <1>9. EngineTypeOK'
    BY <1>1 DEF EngineInv, EngineTypeOK
  <1>10. BeingSent' = BeingSent
    BY <1>1 DEF BeingSent
  <1>11. MasterControl'
    <2>1. Outstanding' = {}
      BY <1>1, <1>3, <1>8, <1>10 DEF Outstanding, EngineInv, MasterControl
    <2> QED
      BY <1>1, <1>4, <2>1 DEF EngineInv, MasterControl
  <1>12. WorkersInStep'
    <2> SUFFICES ASSUME NEW u \in Worker PROVE InStep(u)'
      BY DEF WorkersInStep
    <2> QED
      BY <1>1, <1>5, OthersInStep
  <1>13. OutputIsCaused'
    BY <1>1, CausesStand
  <1>14. ToSendIsCaused' /\ OutstandingNotBeforeGVT'
    BY <1>1, <1>8, <1>10 DEF EngineInv, ToSendIsCaused, OutstandingNotBeforeGVT
  <1>15. FirstStateIsOld'
    BY <1>1 DEF EngineInv, FirstStateIsOld
  <1> QED
    BY <1>7, <1>8, <1>9, <1>11, <1>12, <1>13, <1>14, <1>15 DEF EngineInv

LEMMA EngineStutters ==
  ASSUME EngineInv, UNCHANGED <<engineVars, History>>
  PROVE  [ClientStep]_eventSetVars /\ EngineInv'
  <1>1. /\ UNCHANGED <<queues, held, pc, new_events, events_to_cancel, state, state_queue,
                       count, output_queue, generation, last_fossil_collect_gvt, gvt, network>>
        /\ sent' = sent /\ horizon' = horizon
    BY DEF engineVars, History, toSend, lpVars
  <1>2. gvt \in Nat /\ gvt <= gvt'
    BY <1>1 DEF EngineInv, EngineTypeOK
  <1>3. UNCHANGED eventSetVars
    BY <1>1 DEF eventSetVars
  <1>4. [ClientStep]_eventSetVars /\ IInv'
    BY <1>3, StutterInv DEF EngineInv
  <1>5. /\ Known' = Known /\ InNetwork' = InNetwork /\ BeingCancelled' = BeingCancelled
        /\ KnownIsIdentified' /\ NetworkHoldsOnce'
        /\ OutputIsSent' /\ ToCancelIsSent' /\ SentIsRecorded'
    BY <1>1, <1>2, Quiet
  <1>6. EngineTypeOK'
    BY <1>1 DEF EngineInv, EngineTypeOK
  <1>7. BeingSent' = BeingSent /\ Pending' = Pending /\ processed_queue' = processed_queue
        /\ \A l \in LP : Processed(l)' = Processed(l) /\ JustReceived(l)' = JustReceived(l)
    BY <1>1 DEF BeingSent, Pending, queues, Processed, JustReceived, HandledBy
  <1>8. MasterControl'
    BY <1>1, <1>5, <1>7 DEF EngineInv, MasterControl, Outstanding
  <1>9. WorkersInStep'
    <2> SUFFICES ASSUME NEW u \in Worker PROVE InStep(u)'
      BY DEF WorkersInStep
    <2> QED
      BY <1>1, <1>7, OthersInStep
  <1>10. OutputIsCaused'
    BY <1>1, <1>7, CausesStand
  <1>11. ToSendIsCaused' /\ OutstandingNotBeforeGVT' /\ FirstStateIsOld'
    BY <1>1, <1>5, <1>7 DEF EngineInv, ToSendIsCaused, OutstandingNotBeforeGVT, FirstStateIsOld
  <1> QED
    BY <1>4, <1>5, <1>6, <1>8, <1>9, <1>10, <1>11 DEF EngineInv

-----------------------------------------------------------------------------
(* The engine.                                                             *)

LEMMA EngineInit ==
  HistoryInit => ClientInit /\ EngineInv
  <1> SUFFICES ASSUME HistoryInit PROVE ClientInit /\ EngineInv
    OBVIOUS
  <1>1. /\ initialize
        /\ held = [t \in Worker |-> NoEvent]
        /\ pc = [t \in Thread |-> IF t = Master THEN "initialize" ELSE "getEvent"]
        /\ new_events = [t \in Thread |-> <<>>]
        /\ events_to_cancel = [t \in Worker |-> <<>>]
        /\ state_queue = [lp \in LP |-> <<>>]
        /\ count = [lp \in LP |-> 0]
        /\ output_queue = [lp \in LP |-> <<>>]
        /\ generation = [lp \in LP |-> 0]
        /\ gvt = 0
        /\ network = [link \in Scheduler \X Scheduler |-> <<>>]
        /\ sent = {} /\ horizon = 0 /\ aborted = FALSE
    BY DEF HistoryInit, Init
  <1>2. Master \in Thread /\ Master \notin Worker /\ Thread = Worker \cup {Master}
    BY MasterIsNoWorker
  <1>3. ClientInit
    BY <1>1 DEF ClientInit
  <1>4. IInv
    BY <1>3, InitInv
  <1>5. \A t \in Worker : pc[t] = "getEvent" /\ held[t] = NoEvent /\ new_events[t] = <<>>
    BY <1>1, <1>2
  <1>6. EngineTypeOK
    BY <1>1, <1>2 DEF EngineTypeOK, IsSequence
  <1>7. InNetwork = {} /\ BeingSent = {} /\ BeingCancelled = {} /\ Known = {}
    <2>1. \A e : e \notin InNetwork
      BY <1>1, <1>6, InNetworkIs
    <2>2. \A e : e \notin BeingSent
      BY <1>1, BeingSentIs
    <2>3. \A e : e \notin BeingCancelled
      BY <1>1, BeingCancelledIs
    <2> QED
      BY <1>1, <2>1, <2>2, <2>3 DEF Known
  <1>8. MasterControl
    BY <1>1, <1>2, TimesAssumption DEF MasterControl, initialize
  <1>9. WorkersInStep
    BY <1>1, <1>2, <1>5 DEF WorkersInStep, InStep, Handling
  <1>10. KnownIsIdentified /\ NetworkHoldsOnce /\ OutstandingNotBeforeGVT /\ SentIsRecorded
    BY <1>1, <1>7 DEF KnownIsIdentified, NetworkHoldsOnce, OutstandingNotBeforeGVT, SentIsRecorded
  <1>11. OutputIsSent /\ OutputIsCaused /\ ToCancelIsSent /\ ToSendIsCaused
    BY <1>1 DEF OutputIsSent, OutputIsCaused, ToCancelIsSent, ToSendIsCaused
  <1>12. FirstStateIsOld
    BY <1>1, <1>2 DEF FirstStateIsOld
  <1> QED
    BY <1>3, <1>4, <1>6, <1>8, <1>9, <1>10, <1>11, <1>12 DEF EngineInv

(* A step of a worker, and any step.                                       *)
LEMMA WorkerStepStep ==
  ASSUME ModelIsCausal, MessageIsAll, EngineInv, Remember, NEW t \in Worker, WorkerStep(t)
  PROVE  [ClientStep]_eventSetVars /\ EngineInv'
  <1>1. t \in Thread
    BY MasterIsNoWorker
  <1>2. CASE \E event \in Pending : GetEvent(t, event)
    BY <1>2, GetEventStep
  <1>3. CASE Rollback(t)
    BY <1>3, RollbackStep
  <1>4. CASE SendAntiMessage(t)
    BY <1>4, SendAntiMessageStep
  <1>5. CASE CoastForward(t)
    BY <1>5, CoastForwardStep
  <1>6. CASE CancelEvent(t)
    BY <1>6, CancelEventStep
  <1>7. CASE ReceiveEvent(t)
    BY <1>7, ReceiveEventStep
  <1>8. CASE SendEvent(t)
    BY <1>1, <1>8, SendEventStep
  <1>9. CASE FossilCollect(t)
    BY <1>9, FossilCollectStep
  <1>10. CASE ReplenishScheduler(t)
    BY <1>10, ReplenishStep
  <1> QED
    BY <1>2, <1>3, <1>4, <1>5, <1>6, <1>7, <1>8, <1>9, <1>10 DEF WorkerStep

LEMMA EngineStep ==
  ASSUME ModelIsCausal, MessageIsAll, EngineInv, [HistoryStep]_<<engineVars, History>>
  PROVE  [ClientStep]_eventSetVars /\ EngineInv'
  <1>1. CASE UNCHANGED <<engineVars, History>>
    BY <1>1, EngineStutters
  <1>2. CASE HistoryStep
    <2>1. Remember /\ EngineNext
      BY <1>2 DEF HistoryStep
    <2>2. CASE \E t \in Worker : WorkerStep(t)
      BY <2>1, <2>2, WorkerStepStep
    <2>3. CASE \E lp \in LP : InitializeLP(lp)
      BY <2>1, <2>3, InitializeLPStep
    <2>4. CASE SendEvent(Master)
      <3>1. Master \in Thread
        BY MasterIsNoWorker
      <3> QED
        BY <2>1, <2>4, <3>1, SendEventStep
    <2>5. CASE StartWorkers
      BY <2>1, <2>5, StartWorkersStep
    <2>6. CASE ReceiveStep
      BY <2>1, <2>6, ReceiveMessageStep DEF ReceiveStep
    <2>7. CASE Terminate
      BY <2>1, <2>7, TerminateStep
    <2>8. CASE \E lp \in LP : FinalCollect(lp)
      BY <2>1, <2>8, FinalCollectStep
    <2>9. CASE \E time \in GvtTimes : AdvanceGVT(time)
      BY <2>1, <2>9, AdvanceGVTStep
    <2> QED
      BY <2>1, <2>2, <2>3, <2>4, <2>5, <2>6, <2>7, <2>8, <2>9 DEF EngineNext, MasterStep
  <1> QED
    BY <1>1, <1>2

(* A step of the job is one of the engine, or the assertion of cancelEvent *)
(* ends the job and nothing else changes.                                  *)
LEMMA StepOrAbort ==
  [HistoryNext]_<<vars, History>> => [HistoryStep]_<<engineVars, History>>
  BY DEF HistoryNext, Running, Abort, vars

LEMMA AbortStep ==
  ASSUME EngineInv, NEW t \in Worker, Abort(t), UNCHANGED History
  PROVE  ClientNext
  <1>1. /\ pc[t] = "cancelEvent" /\ ~ aborted /\ aborted'
        /\ ~ CancelAsserts(held[t].recv, held[t])
        /\ UNCHANGED eventSetVars
    BY DEF Abort, engineVars, eventSetVars, History
  <1>2. held[t] \in Pending
    BY <1>1, Engaged DEF Handling
  <1>3. held[t].type = NEGATIVE /\ ~ IsStraggler(held[t].recv, held[t])
    BY <1>1 DEF EngineInv, WorkersInStep, InStep, Handling
  <1>4. aborted' = TRUE
    BY DEF Abort
  <1>5. ClientAbort(t, held[t])
    BY <1>1, <1>3, <1>4 DEF ClientAbort
  <1> QED
    BY <1>1, <1>2, <1>5 DEF ClientNext

(* The invariant of the engine: where every event is, who may handle it,   *)
(* what recorded it and what caused it.                                    *)
THEOREM EngineInvariance ==
  ASSUME ModelIsCausal, MessageIsAll
  PROVE  HistorySpec => []EngineInv
  <1>1. HistoryInit => EngineInv
    BY EngineInit
  <1>2. EngineInv /\ [HistoryNext]_<<vars, History>> => EngineInv'
    BY EngineStep, StepOrAbort
  <1> QED
    BY <1>1, <1>2, PTL DEF HistorySpec

(* The dispatcher uses the event set as its general client: no event is    *)
(* inserted twice, an LP is rolled back before anything else is done with  *)
(* a straggler, and fossil collection stays behind the GVT.                *)
THEOREM EngineRefinesClient ==
  ASSUME ModelIsCausal, MessageIsAll
  PROVE  HistorySpec => ImplementsClient
  <1>1. HistoryInit => EngineInv /\ ClientInit
    BY EngineInit
  <1>2. ASSUME EngineInv, [HistoryNext]_<<vars, History>>
        PROVE  EngineInv' /\ [ClientNext]_clientVars
    <2>1. EngineInv' /\ [ClientStep]_eventSetVars
      BY <1>2, EngineStep, StepOrAbort
    <2>2. CASE \E t \in Worker : Abort(t) /\ UNCHANGED History
      BY <1>2, <2>1, <2>2, AbortStep
    <2>3. CASE Running(HistoryStep)
      BY <2>1, <2>3 DEF Running, ClientNext, clientVars
    <2>4. CASE UNCHANGED <<vars, History>>
      BY <2>1, <2>4 DEF vars, engineVars, History, clientVars, eventSetVars
    <2> QED
      BY <1>2, <2>2, <2>3, <2>4 DEF HistoryNext
  <1>3. EngineInv /\ [HistoryNext]_<<vars, History>> => EngineInv' /\ [ClientNext]_clientVars
    BY <1>2
  <1> QED
    BY <1>1, <1>3, PTL DEF HistorySpec, ImplementsClient, ClientSpec

(* Inside the engine, too, the scheduled event of an LP is in exactly one  *)
(* place and its least pending event, so one worker at a time handles it.  *)
THEOREM EngineSchedulesOnce ==
  ASSUME ModelIsCausal, MessageIsAll
  PROVE  HistorySpec => [](PointerNamesPending /\ ScheduledOnce /\ LeastIsScheduled)
  <1>1. EngineInv => PointerNamesPending /\ ScheduledOnce /\ LeastIsScheduled
    BY DEF EngineInv, IInv
  <1> QED
    BY <1>1, EngineInvariance, PTL

(* Whatever stragglers, anti-messages and fossil collections do, no event  *)
(* that was sent is lost or received twice; an event that has arrived is   *)
(* found by cancelEvent, and only an anti-message that has overtaken its   *)
(* event makes the assertion of cancelEvent end the job.                   *)
THEOREM EngineLosesNothing ==
  ASSUME ModelIsCausal, MessageIsAll
  PROVE  HistorySpec => [](NoEventLost /\ CancelFindsItsEvent)
  <1>1. HistorySpec => ImplementsClient
    BY EngineRefinesClient
  <1>2. ClientSpec => []NoEventLost
    BY NothingIsLost
  <1>3. ClientSpec => [](AntiMessageHasTarget /\ CancelFindsItsEvent)
    BY CancellationSucceeds
  <1> QED
    BY <1>1, <1>2, <1>3, PTL DEF ImplementsClient

-----------------------------------------------------------------------------
(* Rollback.                                                               *)

(* What coasting forward processes again.                                  *)
LEMMA CoastedOverIsDefined ==
  ASSUME NEW p \in Seq(Event), NEW r
  PROVE  /\ CoastedOver(p, r) \in 0 .. Len(p)
         /\ CoastedOver(p, r) > 0 => ~ After(p[CoastedOver(p, r)], r)
         /\ \A i \in CoastedOver(p, r) + 1 .. Len(p) : After(p[i], r)
  <1> DEFINE Stop(k) == k = 0 \/ ~ After(p[k], r)
             T == {n \in 0 .. Len(p) : Stop(Len(p) - n)}
  <1>1. PICK m \in T : \A n \in T : m <= n
    <2>1. T \in SUBSET Nat /\ Len(p) \in T
      OBVIOUS
    <2> QED
      BY <2>1, NatMinimum
  <1> DEFINE k == Len(p) - m
  <1>2. k \in 0 .. Len(p) /\ Stop(k)
    OBVIOUS
  <1>3. ASSUME NEW i \in k + 1 .. Len(p) PROVE After(p[i], r)
    <2>1. Len(p) - i \notin T
      BY <1>1
    <2>2. Len(p) - (Len(p) - i) = i /\ Len(p) - i \in 0 .. Len(p)
      OBVIOUS
    <2> QED
      BY <2>1, <2>2
  <1>4. /\ k > 0 => ~ After(p[k], r)
        /\ \A i \in k + 1 .. Len(p) : After(p[i], r)
    BY <1>2, <1>3
  <1> HIDE DEF k
  <1> QED
    BY <1>2, <1>4 DEF CoastedOver

LEMMA CoastedOverIsUnique ==
  ASSUME NEW p \in Seq(Event), NEW r, NEW k \in 0 .. Len(p),
         k > 0 => ~ After(p[k], r), \A i \in k + 1 .. Len(p) : After(p[i], r)
  PROVE  CoastedOver(p, r) = k
  <1> DEFINE n == CoastedOver(p, r)
  <1>1. n \in 0 .. Len(p) /\ (n > 0 => ~ After(p[n], r)) /\ \A i \in n + 1 .. Len(p) : After(p[i], r)
    BY CoastedOverIsDefined
  <1> HIDE DEF n
  <1>2. ~ (n < k)
    <2> SUFFICES ASSUME n < k PROVE FALSE
      OBVIOUS
    <2>1. k \in n + 1 .. Len(p) /\ k > 0
      BY <1>1
    <2> QED
      BY <1>1, <2>1
  <1>3. ~ (k < n)
    <2> SUFFICES ASSUME k < n PROVE FALSE
      OBVIOUS
    <2>1. n \in k + 1 .. Len(p) /\ n > 0
      BY <1>1
    <2> QED
      BY <1>1, <2>1
  <1>4. n = k
    BY <1>1, <1>2, <1>3
  <1> QED
    BY <1>4 DEF n

LEMMA ReplayIsProcessed ==
  ASSUME NEW lp, processed_queue[lp] \in Seq(Event), NEW r,
         NEW e \in ToSet(getEventsForCoastForward(lp, r))
  PROVE  \E i \in DOMAIN processed_queue[lp] : e = processed_queue[lp][i]
  <1> DEFINE p == processed_queue[lp]
             k == CoastedOver(p, r)
  <1>1. p \in Seq(Event) /\ Len(p) \in Nat /\ DOMAIN p = 1 .. Len(p)
    OBVIOUS
  <1>2. k \in 0 .. Len(p)
    BY CoastedOverIsDefined
  <1>3. PICK s : s = SubSeq(p, k + 1, Len(p))
    OBVIOUS
  <1>4. e \in ToSet(s)
    BY <1>3 DEF getEventsForCoastForward
  <1> HIDE DEF k, p
  <1>5. k + 1 \in 1 .. Len(p) + 1 /\ Len(p) \in (k + 1) - 1 .. Len(p)
    BY <1>1, <1>2
  <1>6. \A i \in DOMAIN s : i \in Nat /\ i + k \in k + 1 .. Len(p) /\ s[i] = p[i + k]
    BY <1>1, <1>2, <1>3, <1>5, SubSeqFacts
  <1>7. PICK i \in DOMAIN s : e = s[i]
    BY <1>4 DEF ToSet
  <1>8. i + k \in DOMAIN p /\ e = p[i + k]
    BY <1>1, <1>2, <1>6, <1>7
  <1> QED
    BY <1>8 DEF p

LEMMA AssertionsHold ==
  ASSUME EngineInv
  PROVE  RollbackAssertions
  <1>1. ASSUME NEW t \in Worker, pc[t] = "rollback"
        PROVE  /\ held[t].ts >= gvt
               /\ \E i \in DOMAIN state_queue[held[t].recv] :
                      Before(state_queue[held[t].recv][i].event, held[t])
    BY <1>1, Engaged, FirstStateIsBefore DEF Handling
  <1>2. ASSUME NEW t \in Worker, pc[t] = "cancelEvents",
               NEW r, NEW e \in ToSet(getEventsForCoastForward(held[t].recv, r))
        PROVE  BeforeOrSame(e, held[t])
    <2> DEFINE lp == held[t].recv
               p == processed_queue[lp]
    <2>1. held[t] \in Event /\ lp \in LP /\ ~ IsStraggler(lp, held[t])
      BY <1>2, Engaged DEF Handling, EngineInv, WorkersInStep, InStep
    <2>2. p \in Seq(Event) /\ DOMAIN p = 1 .. Len(p) /\ Len(p) \in Nat
      BY <2>1, QueueFacts DEF EngineInv, IInv
    <2>3. PICK i \in DOMAIN p : e = p[i]
      BY <1>2, <2>2, ReplayIsProcessed
    <2>4. e \in Processed(lp) /\ e \in Event
      BY <2>2, <2>3 DEF Processed
    <2>5. ~ Before(held[t], e)
      BY <2>1, <2>4, NothingProcessedIsLater DEF EngineInv
    <2> QED
      BY <2>1, <2>4, <2>5, BeforeIsTotal DEF BeforeOrSame, SameEvent
  <1> QED
    BY <1>1, <1>2 DEF RollbackAssertions

(* The assertions of rollback and coastForward: nothing is rolled back     *)
(* past the GVT, a state saved before any straggler is left, and only what *)
(* precedes the straggler is processed again.                              *)
THEOREM RollbackSucceeds ==
  ASSUME ModelIsCausal, MessageIsAll
  PROVE  HistorySpec => []RollbackAssertions
  <1>1. EngineInv => RollbackAssertions
    BY AssertionsHold
  <1> QED
    BY <1>1, EngineInvariance, PTL

(* Only a rollback makes a worker start to cancel.                         *)
LEMMA RollbackCancels ==
  ASSUME EngineInv, EngineNext, NEW t \in Worker, pc[t] = "rollback", pc'[t] = "cancelEvents"
  PROVE  Rollback(t)
  <1>1. /\ pc \in [Thread -> Handling \cup {"getEvent", "initialize", "running", "terminated"}]
        /\ t \in Thread /\ t # Master /\ pc' # pc
    BY MasterIsNoWorker DEF EngineInv, EngineTypeOK
  <1>2. ASSUME NEW u \in Worker, WorkerStep(u)
        PROVE  Rollback(t)
    <2>1. CASE Rollback(u)
      <3>1. u = t
        BY <1>1, <2>1 DEF Rollback, Goto
      <3> QED
        BY <2>1, <3>1
    <2>2. ASSUME NEW x, pc' = [pc EXCEPT ![u] = x], pc[u] # "rollback" PROVE FALSE
      BY <1>1, <2>2
    <2>3. CASE \E event \in Pending : GetEvent(u, event)
      <3>1. pc[u] = "getEvent" /\ \E x : pc' = [pc EXCEPT ![u] = x]
        BY <2>3 DEF GetEvent, Goto
      <3> QED
        BY <2>2, <3>1
    <2>4. CASE CoastForward(u)
      <3>1. pc[u] = "cancelEvents" /\ \E x : pc' = [pc EXCEPT ![u] = x]
        BY <2>4 DEF CoastForward, Goto
      <3> QED
        BY <2>2, <3>1
    <2>5. CASE CancelEvent(u)
      <3>1. pc[u] = "cancelEvent" /\ \E x : pc' = [pc EXCEPT ![u] = x]
        BY <2>5 DEF CancelEvent, Goto
      <3> QED
        BY <2>2, <3>1
    <2>6. CASE ReceiveEvent(u)
      <3>1. pc[u] = "receiveEvent" /\ \E x : pc' = [pc EXCEPT ![u] = x]
        BY <2>6 DEF ReceiveEvent, Goto
      <3> QED
        BY <2>2, <3>1
    <2>7. CASE FossilCollect(u)
      <3>1. pc[u] = "sendEvents" /\ \E x : pc' = [pc EXCEPT ![u] = x]
        BY <2>7 DEF FossilCollect, Goto
      <3> QED
        BY <2>2, <3>1
    <2>8. CASE ReplenishScheduler(u)
      <3>1. pc[u] = "replenish" /\ \E x : pc' = [pc EXCEPT ![u] = x]
        BY <2>8 DEF ReplenishScheduler, Goto
      <3> QED
        BY <2>2, <3>1
    <2>9. CASE SendAntiMessage(u) \/ SendEvent(u)
      BY <1>1, <2>9 DEF SendAntiMessage, SendEvent
    <2> QED
      BY <1>2, <2>1, <2>3, <2>4, <2>5, <2>6, <2>7, <2>8, <2>9 DEF WorkerStep
  <1>3. CASE MasterStep
    <2>1. CASE StartWorkers \/ Terminate
      <3>1. \E x : pc' = [pc EXCEPT ![Master] = x]
        BY <2>1 DEF StartWorkers, Terminate, Goto
      <3> QED
        BY <1>1, <3>1
    <2>2. CASE \E lp \in LP : InitializeLP(lp) \/ FinalCollect(lp)
      BY <1>1, <2>2 DEF InitializeLP, FinalCollect
    <2>3. CASE SendEvent(Master) \/ ReceiveStep
      BY <1>1, <2>3 DEF SendEvent, ReceiveStep, Receive
    <2> QED
      BY <1>3, <2>1, <2>2, <2>3 DEF MasterStep
  <1>4. CASE \E time \in GvtTimes : AdvanceGVT(time)
    BY <1>1, <1>4 DEF AdvanceGVT
  <1> QED
    BY <1>2, <1>3, <1>4 DEF EngineNext

(* A rollback cancels nothing whose cause the GVT has passed.              *)
THEOREM CommittedStaysSent ==
  ASSUME ModelIsCausal, MessageIsAll
  PROVE  HistorySpec => CommittedIsNotCancelled
  <1> DEFINE Cancels == \A t \in Worker : pc[t] = "rollback" /\ pc'[t] = "cancelEvents" =>
                            \A e \in ToSet(events_to_cancel'[t]) : e.send >= gvt
  <1>1. ASSUME EngineInv, HistoryStep PROVE Cancels
    <2> SUFFICES ASSUME NEW t \in Worker, pc[t] = "rollback", pc'[t] = "cancelEvents",
                        NEW e \in ToSet(events_to_cancel'[t])
                 PROVE  e.send >= gvt
      OBVIOUS
    <2>1. Rollback(t)
      BY <1>1, RollbackCancels DEF HistoryStep
    <2> DEFINE q == output_queue[held[t].recv]
               k == SentBefore(held[t].recv, held[t])
    <2>2. /\ Len(q) \in Nat /\ k \in 0 .. Len(q)
          /\ \A i \in k + 1 .. Len(q) : q[i].output.send >= gvt
          /\ DOMAIN events_to_cancel'[t] = 1 .. Len(q) - k
          /\ \A i \in 1 .. Len(q) - k : events_to_cancel'[t][i] = q[i + k].output
      BY <1>1, <2>1, WhatIsCancelled
    <2> HIDE DEF q, k
    <2>3. PICK i \in DOMAIN events_to_cancel'[t] : e = events_to_cancel'[t][i]
      BY DEF ToSet
    <2>4. i \in 1 .. Len(q) - k /\ i + k \in k + 1 .. Len(q)
      BY <2>2, <2>3
    <2> QED
      BY <2>2, <2>3, <2>4
  <1>2. ASSUME NEW t \in Worker, Abort(t) PROVE Cancels
    BY <1>2 DEF Abort, engineVars
  <1>3. EngineInv /\ [HistoryNext]_<<vars, History>> => [Cancels]_vars
    BY <1>1, <1>2 DEF HistoryNext, Running
  <1> QED
    BY <1>3, EngineInvariance, PTL DEF HistorySpec, CommittedIsNotCancelled

(* No event outlives its cause.                                            *)
LEMMA CauseStands ==
  ASSUME EngineInv
  PROVE  NoOrphan
  <1> SUFFICES ASSUME pc[Master] # "terminated", NEW lp \in LP,
                      NEW e \in input_queue[lp] \cup ToSet(processed_queue[lp]),
                      e.type = POSITIVE
               PROVE  \/ HasCause(e)
                      \/ NegativeEvent(e) \in Pending \cup InNetwork
                      \/ e \in BeingCancelled
                      \/ e.send < gvt
    BY DEF NoOrphan
  <1>1. \A l \in LP : ToSet(processed_queue[l]) = Processed(l)
    BY DEF ToSet, Processed
  <1>2. e \in sent /\ e \in Known /\ e.recv = lp /\ e \in input_queue[lp] \cup Processed(lp)
    BY <1>1, QueueFacts DEF EngineInv, IInv, Known
  <1>3. e \in Sendable /\ e \in Message /\ e.sender \in LP
    BY <1>2, SendableFacts DEF EngineInv, KnownIsIdentified
  <1>4. CASE \E i \in DOMAIN output_queue[e.sender] : output_queue[e.sender][i].output = e
    <2>1. PICK i \in DOMAIN output_queue[e.sender] : output_queue[e.sender][i].output = e
      BY <1>4
    <2> DEFINE cause == output_queue[e.sender][i].input
    <2>2. cause = InitialEvent \/ cause \in Processed(e.sender) \cup JustReceived(e.sender)
      BY <1>3, <2>1 DEF EngineInv, OutputIsCaused
    <2>3. HasCause(e)
      BY <1>1, <1>3, <2>1, <2>2 DEF HasCause
    <2> QED
      BY <2>3
  <1>5. CASE NegativeEvent(e) \in Known
    <2>1. CASE NegativeEvent(e) \in sent
      <3>1. NegativeEvent(e) \in input_queue[e.recv]
        BY <1>2, <1>3, <2>1 DEF EngineInv, IInv, NoEventLost, CancelledIsGone
      <3> QED
        BY <1>2, <3>1 DEF Pending
    <2> QED
      BY <1>5, <2>1 DEF Known
  <1> QED
    BY <1>2, <1>4, <1>5 DEF EngineInv, SentIsRecorded

THEOREM NothingIsOrphaned ==
  ASSUME ModelIsCausal, MessageIsAll
  PROVE  HistorySpec => []NoOrphan
  <1>1. EngineInv => NoOrphan
    BY CauseStands
  <1> QED
    BY <1>1, EngineInvariance, PTL

-----------------------------------------------------------------------------
(* The engine's half of the promise between engine and GVT manager: work   *)
(* comes from work.                                                        *)

LEMMA OutstandingHasTime ==
  ASSUME EngineInv
  PROVE  \A e \in Outstanding : e.ts \in Nat
  <1> SUFFICES ASSUME NEW e \in Outstanding PROVE e.ts \in Nat
    OBVIOUS
  <1>1. CASE e \in Pending
    BY <1>1, PendingIsSent DEF EngineInv, IInv, TypeOK, Event
  <1>2. CASE e \in InNetwork
    BY <1>2, SendableFacts DEF EngineInv, KnownIsIdentified, Known, Event
  <1>3. CASE e \in BeingSent
    <2>1. PICK t \in Thread : \E i \in DOMAIN new_events[t] : e = new_events[t][i]
      BY <1>3, BeingSentIs
    <2>2. new_events[t] \in Seq(ToSend)
      BY DEF EngineInv, EngineTypeOK
    <2>3. e \in ToSend
      BY <2>1, <2>2
    <2> QED
      BY <2>3 DEF ToSend
  <1>4. CASE e \in BeingCancelled
    <2>1. PICK t \in Worker : \E i \in DOMAIN events_to_cancel[t] : e = events_to_cancel[t][i]
      BY <1>4, BeingCancelledIs
    <2>2. events_to_cancel[t] \in Seq(Event)
      BY DEF EngineInv, EngineTypeOK
    <2>3. e \in Event
      BY <2>1, <2>2
    <2> QED
      BY <2>3 DEF Event
  <1> QED
    BY <1>1, <1>2, <1>3, <1>4 DEF Outstanding

LEMMA TimesAre ==
  \A x : x \in OutstandingTimes <=>
     \/ \E e \in Outstanding : x = e.ts
     \/ pc[Master] = "initialize" /\ x = 0
  BY DEF OutstandingTimes, InitialEvent

(* What the engine has to show of a step: whatever is outstanding after it *)
(* was before, or is not earlier than something that was.                  *)
LEMMA Works ==
  ASSUME EngineInv, OutstandingTimes' \in SUBSET Nat, gvt' = gvt,
         pc'[Master] = "initialize" => pc[Master] = "initialize",
         \A e \in Outstanding' : e \in Outstanding \/ \E s \in OutstandingTimes : s <= e.ts
  PROVE  Service!Work
  <1>1. ASSUME NEW x \in OutstandingTimes', x \notin OutstandingTimes
        PROVE  \E s \in OutstandingTimes : s <= x
    <2>1. PICK e \in Outstanding' : x = e.ts
      BY <1>1, TimesAre DEF OutstandingTimes, InitialEvent
    <2>2. e \notin Outstanding
      BY <1>1, <2>1, TimesAre
    <2> QED
      BY <2>1, <2>2
  <1> QED
    BY <1>1 DEF Service!Work

(* An event that is inserted or put on its way was outstanding before.     *)
LEMMA TransmitAdds ==
  ASSUME EngineInv, NEW e \in Event, e.recv \in LP, Transmit(e)
  PROVE  \A f \in Pending' \cup InNetwork' : f \in Pending \cup InNetwork \cup {e}
  <1>1. CASE Local(e)
    <2>1. insertEvent(e.recv, e) /\ network' = network
      BY <1>1 DEF Transmit
    <2>2. \A lp \in LP : input_queue'[lp] \subseteq input_queue[lp] \cup {e}
      BY <2>1 DEF insertEvent, EngineInv, IInv, TypeOK
    <2> QED
      BY <2>1, <2>2 DEF Pending, InNetwork
  <1>2. CASE ~ Local(e)
    <2> DEFINE link == <<Node(e.sender), Node(e.recv)>>
               N == Scheduler \X Scheduler
    <2>1. /\ network' = [network EXCEPT ![link] = Append(@, e)]
          /\ input_queue' = input_queue
      BY <1>2 DEF Transmit, queues
    <2>2. network \in [N -> Seq(Event)]
      BY DEF EngineInv, EngineTypeOK
    <2> HIDE DEF link
    <2>3. ASSUME NEW l \in N, NEW i \in DOMAIN network'[l], network'[l][i] # e
          PROVE  i \in DOMAIN network[l] /\ network'[l][i] = network[l][i]
      <3>1. CASE l = link
        <4>1. network[l] \in Seq(Event) /\ network'[l] = Append(network[l], e)
          BY <2>1, <2>2, <3>1
        <4> QED
          BY <2>3, <4>1
      <3>2. CASE l # link
        BY <2>1, <2>2, <2>3, <3>2
      <3> QED
        BY <3>1, <3>2
    <2>4. DOMAIN network' = N /\ DOMAIN network = N
      BY <2>1, <2>2
    <2>5. ASSUME NEW f \in InNetwork', f # e PROVE f \in InNetwork
      <3>1. PICK l \in N : \E i \in DOMAIN network'[l] : f = network'[l][i]
        BY <2>4 DEF InNetwork, ToSet
      <3>2. PICK i \in DOMAIN network'[l] : f = network'[l][i]
        BY <3>1
      <3>3. i \in DOMAIN network[l] /\ f = network[l][i]
        BY <2>3, <2>5, <3>2
      <3> QED
        BY <3>3, InNetworkIs DEF EngineInv
    <2> QED
      BY <2>1, <2>5 DEF Pending
  <1> QED
    BY <1>1, <1>2

LEMMA RollbackWorks ==
  ASSUME EngineInv, NEW t \in Worker, Rollback(t), NEW f \in Outstanding'
  PROVE  f \in Outstanding \/ \E s \in OutstandingTimes : s <= f.ts
  <1> DEFINE e == held[t]
             lp == e.recv
             p == processed_queue[lp]
             n == KeptBy(p, e)
             q == output_queue[lp]
             k == SentBefore(lp, e)
  <1>1. /\ pc[t] = "rollback" /\ rollback(lp, e)
        /\ UNCHANGED <<new_events, network>>
    BY DEF Rollback
  <1>2. e \in Pending /\ e \in Event /\ e.ts \in Nat /\ lp \in LP
    BY <1>1, Engaged DEF Handling
  <1>3. e.ts \in OutstandingTimes
    BY <1>2, TimesAre DEF Outstanding
  <1>4. CASE f \in Pending'
    <2>1. p \in Seq(Event) /\ DOMAIN p = 1 .. Len(p) /\ Len(p) \in Nat
      BY <1>2, QueueFacts DEF EngineInv, IInv
    <2>2. input_queue' = [input_queue EXCEPT ![lp] = @ \cup {p[i] : i \in n + 1 .. Len(p)}]
      BY <1>1 DEF rollback
    <2> HIDE DEF p
    <2>3. n \in 0 .. Len(p) /\ \A i \in n + 1 .. Len(p) : SameOrAfter(p[i], e)
      BY <1>2, <2>1, KeptByIsDefined
    <2> HIDE DEF n
    <2>4. ASSUME NEW i \in n + 1 .. Len(p) PROVE e.ts <= p[i].ts
      <3>1. i \in DOMAIN p /\ p[i] \in Event /\ ~ Before(p[i], e)
        BY <2>1, <2>3 DEF SameOrAfter
      <3>2. p[i].ts \in Nat /\ ~ (p[i].ts < e.ts)
        BY <3>1 DEF Before, Event
      <3> QED
        BY <1>2, <3>2
    <2>5. f \in Pending \/ \E i \in n + 1 .. Len(p) : f = p[i]
      <3>1. PICK l \in LP : f \in input_queue'[l]
        BY <1>4 DEF Pending
      <3> QED
        BY <1>2, <2>2, <3>1 DEF Pending, EngineInv, IInv, TypeOK
    <2> QED
      BY <1>3, <2>4, <2>5 DEF Outstanding
  <1>5. CASE f \in BeingCancelled'
    <2>1. /\ q \in Seq(Recorded) /\ Len(q) \in Nat /\ DOMAIN q = 1 .. Len(q)
          /\ k \in 0 .. Len(q)
          /\ \A i \in k + 1 .. Len(q) : e.ts <= q[i].output.ts
          /\ \A u \in Worker : u # t => events_to_cancel'[u] = events_to_cancel[u]
          /\ DOMAIN events_to_cancel'[t] = 1 .. Len(q) - k
          /\ \A i \in 1 .. Len(q) - k : events_to_cancel'[t][i] = q[i + k].output
      BY WhatIsCancelled
    <2> HIDE DEF k, q
    <2>2. PICK u \in Worker : \E i \in DOMAIN events_to_cancel'[u] : f = events_to_cancel'[u][i]
      BY <1>5 DEF BeingCancelled, ToSet
    <2>3. CASE u = t
      <3>1. PICK i \in 1 .. Len(q) - k : f = q[i + k].output
        BY <2>1, <2>2, <2>3
      <3>2. i + k \in k + 1 .. Len(q)
        BY <2>1, <3>1
      <3> QED
        BY <1>3, <2>1, <3>1, <3>2
    <2>4. CASE u # t
      BY <2>1, <2>2, <2>4, BeingCancelledIs DEF Outstanding
    <2> QED
      BY <2>3, <2>4
  <1>6. CASE f \in InNetwork' \cup BeingSent'
    BY <1>1, <1>6 DEF InNetwork, BeingSent, Outstanding
  <1> QED
    BY <1>4, <1>5, <1>6 DEF Outstanding

(* What a thread begins to send is not earlier than `time'.                *)
LEMMA SendingAdds ==
  ASSUME EngineInv, NEW t \in Thread, NEW sends, NEW time \in OutstandingTimes,
         new_events' = [new_events EXCEPT ![t] = sends],
         \A i \in DOMAIN sends : time <= sends[i].ts,
         NEW f \in BeingSent'
  PROVE  f \in Outstanding \/ \E s \in OutstandingTimes : s <= f.ts
  <1>1. PICK u \in Thread : \E i \in DOMAIN new_events'[u] : f = new_events'[u][i]
    BY DEF BeingSent, ToSet
  <1>2. new_events'[u] = IF u = t THEN sends ELSE new_events[u]
    BY DEF EngineInv, EngineTypeOK
  <1>3. CASE u = t
    BY <1>1, <1>2, <1>3
  <1>4. CASE u # t
    BY <1>1, <1>2, <1>4, BeingSentIs DEF Outstanding
  <1> QED
    BY <1>3, <1>4

LEMMA ReceiveEventWorks ==
  ASSUME ModelIsCausal, EngineInv, NEW t \in Worker, ReceiveEvent(t), NEW f \in Outstanding'
  PROVE  f \in Outstanding \/ \E s \in OutstandingTimes : s <= f.ts
  <1> DEFINE e == held[t]
             s == Sends(e.recv, state[e.recv], e)
             sends == Returned(e, e.recv, s)
  <1>1. /\ pc[t] = "receiveEvent" /\ new_events' = [new_events EXCEPT ![t] = sends]
        /\ UNCHANGED <<queues, events_to_cancel, network>>
    BY DEF ReceiveEvent
  <1>2. e \in Pending /\ e \in Sendable /\ e.recv \in LP /\ e.type = POSITIVE /\ t \in Thread
    <2>1. e.type = POSITIVE
      BY <1>1 DEF EngineInv, WorkersInStep, InStep
    <2> QED
      BY <1>1, <2>1, Engaged, MasterIsNoWorker DEF Handling
  <1>3. e.ts \in OutstandingTimes
    BY <1>2, TimesAre DEF Outstanding
  <1>4. \A i \in DOMAIN sends : e.ts <= sends[i].ts
    <2>1. s \in Seq(Send) /\ \A i \in DOMAIN s : e.ts <= s[i].ts
      BY <1>2, SendableFacts DEF ModelIsCausal
    <2> HIDE DEF s, e
    <2>2. \A i \in DOMAIN sends : i \in DOMAIN s /\ sends[i].ts = s[i].ts
      BY <2>1, ReturnedFacts
    <2> QED
      BY <2>1, <2>2
  <1> HIDE DEF sends, e
  <1>5. CASE f \in BeingSent'
    BY <1>1, <1>2, <1>3, <1>4, <1>5, SendingAdds
  <1>6. CASE f \in Pending' \cup InNetwork' \cup BeingCancelled'
    BY <1>1, <1>6 DEF Pending, queues, InNetwork, BeingCancelled, Outstanding
  <1> QED
    BY <1>5, <1>6 DEF Outstanding

LEMMA SendEventWorks ==
  ASSUME MessageIsAll, EngineInv, NEW t \in Thread, SendEvent(t), NEW f \in Outstanding'
  PROVE  f \in Outstanding \/ \E s \in OutstandingTimes : s <= f.ts
  <1> DEFINE next == Head(new_events[t])
             e == NewEvent(next.sender, next, next.source.ts, generation[next.sender])
  <1>1. /\ new_events[t] # <<>> /\ new_events' = [new_events EXCEPT ![t] = Tail(@)]
        /\ \/ Transmit(e)
           \/ UNCHANGED <<queues, network>>
        /\ events_to_cancel' = events_to_cancel
    BY DEF SendEvent
  <1>2. new_events \in [Thread -> Seq(ToSend)] /\ new_events[t] \in Seq(ToSend)
    BY DEF EngineInv, EngineTypeOK
  <1>3. /\ \A i \in DOMAIN Tail(new_events[t]) : i + 1 \in DOMAIN new_events[t]
               /\ Tail(new_events[t])[i] = new_events[t][i + 1]
        /\ 1 \in DOMAIN new_events[t] /\ next = new_events[t][1]
    BY <1>1, <1>2, TailFacts
  <1>4. next \in BeingSent /\ next.ts \in OutstandingTimes
    BY <1>3, BeingSentIs, TimesAre DEF Outstanding
  <1>5. e.ts = next.ts /\ e \in Event /\ e.recv \in LP
    <2>1. /\ next.sender \in LP /\ next.recv \in LP /\ next.ts \in Nat /\ next.source \in Event
      BY <1>1, NextToSend
    <2>2. generation[next.sender] \in Nat /\ next.sender \in Nat
      BY <2>1 DEF EngineInv, EngineTypeOK, LP
    <2> HIDE DEF next
    <2> QED
      BY <2>1, <2>2 DEF NewEvent, Event, LP
  <1>6. next.ts <= next.ts
    <2>1. next.ts \in Nat
      BY <1>4, OutstandingHasTime DEF Outstanding
    <2> QED
      BY <2>1
  <1> HIDE DEF e, next
  <1>7. CASE f \in BeingSent'
    <2>1. PICK u \in Thread : \E i \in DOMAIN new_events'[u] : f = new_events'[u][i]
      BY <1>7 DEF BeingSent, ToSet
    <2>2. \E i \in DOMAIN new_events[u] : f = new_events[u][i]
      BY <1>1, <1>2, <1>3, <2>1
    <2> QED
      BY <2>2, BeingSentIs DEF Outstanding
  <1>8. CASE f \in Pending' \cup InNetwork'
    <2>1. CASE Transmit(e)
      <3>1. f \in Pending \cup InNetwork \cup {e}
        BY <1>5, <1>8, <2>1, TransmitAdds
      <3> QED
        BY <1>4, <1>5, <1>6, <3>1 DEF Outstanding
    <2>2. CASE UNCHANGED <<queues, network>>
      BY <1>8, <2>2 DEF Pending, queues, InNetwork, Outstanding
    <2> QED
      BY <1>1, <2>1, <2>2
  <1>9. CASE f \in BeingCancelled'
    BY <1>1, <1>9 DEF BeingCancelled, Outstanding
  <1> QED
    BY <1>7, <1>8, <1>9 DEF Outstanding

LEMMA SendAntiMessageWorks ==
  ASSUME EngineInv, NEW t \in Worker, SendAntiMessage(t), NEW f \in Outstanding'
  PROVE  f \in Outstanding \/ \E s \in OutstandingTimes : s <= f.ts
  <1> DEFINE q == events_to_cancel[t]
             e == Head(q)
             n == NegativeEvent(e)
  <1>1. /\ q # <<>> /\ events_to_cancel' = [events_to_cancel EXCEPT ![t] = Tail(@)]
        /\ Transmit(n) /\ new_events' = new_events
    BY DEF SendAntiMessage
  <1>2. events_to_cancel \in [Worker -> Seq(Event)] /\ q \in Seq(Event)
    BY DEF EngineInv, EngineTypeOK
  <1>3. /\ \A i \in DOMAIN Tail(q) : i + 1 \in DOMAIN q /\ Tail(q)[i] = q[i + 1]
        /\ 1 \in DOMAIN q /\ e = q[1]
    BY <1>1, <1>2, TailFacts
  <1>4. e \in BeingCancelled /\ e.ts \in OutstandingTimes
    BY <1>3, BeingCancelledIs, TimesAre DEF Outstanding
  <1>5. n.ts = e.ts /\ n \in Event /\ n.recv \in LP
    <2>1. e \in Known /\ e.type = POSITIVE
      <3>1. q[1] \in Known /\ q[1].type = POSITIVE
        BY <1>3 DEF EngineInv, ToCancelIsSent
      <3> QED
        BY <1>3, <3>1
    <2>2. e \in Message
      BY <2>1, SendableFacts DEF EngineInv, KnownIsIdentified
    <2> QED
      BY <2>2, MessageFacts DEF NegativeEvent, Event
  <1>6. e.ts <= e.ts
    <2>1. e.ts \in Nat
      BY <1>4, OutstandingHasTime DEF Outstanding
    <2> QED
      BY <2>1
  <1> HIDE DEF n, e
  <1>7. CASE f \in BeingCancelled'
    <2>1. PICK u \in Worker : \E i \in DOMAIN events_to_cancel'[u] : f = events_to_cancel'[u][i]
      BY <1>7 DEF BeingCancelled, ToSet
    <2>2. \E i \in DOMAIN events_to_cancel[u] : f = events_to_cancel[u][i]
      BY <1>1, <1>2, <1>3, <2>1
    <2> QED
      BY <2>2, BeingCancelledIs DEF Outstanding
  <1>8. CASE f \in Pending' \cup InNetwork'
    <2>1. f \in Pending \cup InNetwork \cup {n}
      BY <1>1, <1>5, <1>8, TransmitAdds
    <2> QED
      BY <1>4, <1>5, <1>6, <2>1 DEF Outstanding
  <1>9. CASE f \in BeingSent'
    BY <1>1, <1>9 DEF BeingSent, Outstanding
  <1> QED
    BY <1>7, <1>8, <1>9 DEF Outstanding

LEMMA ReceiveWorks ==
  ASSUME EngineInv, NEW link \in DOMAIN network, NEW i \in DOMAIN network[link],
         Receive(link, i), EngineInv', Remember
  PROVE  \A f \in Outstanding' : f \in Outstanding
  <1> DEFINE e == network[link][i]
  <1>1. /\ insertEvent(e.recv, e)
        /\ network' = [network EXCEPT ![link] = RemoveAt(@, i)]
        /\ UNCHANGED <<new_events, events_to_cancel>>
    BY DEF Receive, toSend
  <1>2. DOMAIN network = Scheduler \X Scheduler /\ link \in Scheduler \X Scheduler /\ e \in InNetwork
    BY InNetworkIs DEF EngineInv
  <1>3. \A lp \in LP : input_queue'[lp] \subseteq input_queue[lp] \cup {e}
    BY <1>1 DEF insertEvent, EngineInv, IInv, TypeOK
  <1>4. \A f \in Pending' : f \in Pending \/ f = e
    BY <1>3 DEF Pending
  <1>5. \A f \in InNetwork' : f \in InNetwork
    <2> DEFINE q == network[link]
    <2>1. q \in Seq(Event) /\ i \in 1 .. Len(q)
      BY <1>2 DEF EngineInv, EngineTypeOK
    <2>2. /\ RemoveAt(q, i) \in Seq(Event) /\ Len(RemoveAt(q, i)) = Len(q) - 1
          /\ \A j \in 1 .. Len(q) - 1 : RemoveAt(q, i)[j] = q[IF j < i THEN j ELSE j + 1]
      BY <2>1, RemoveAtFacts
    <2>3. ASSUME NEW j \in DOMAIN RemoveAt(q, i) PROVE \E k \in DOMAIN q : RemoveAt(q, i)[j] = q[k]
      <3>1. j \in 1 .. Len(q) - 1 /\ (IF j < i THEN j ELSE j + 1) \in 1 .. Len(q)
        BY <2>1, <2>2
      <3> QED
        BY <2>1, <2>2, <3>1
    <2>4. /\ DOMAIN network' = Scheduler \X Scheduler
          /\ \A l \in Scheduler \X Scheduler :
                network'[l] = IF l = link THEN RemoveAt(q, i) ELSE network[l]
      BY <1>1, <1>2 DEF EngineInv, EngineTypeOK
    <2> SUFFICES ASSUME NEW f \in InNetwork' PROVE f \in InNetwork
      OBVIOUS
    <2>5. PICK l \in Scheduler \X Scheduler : \E j \in DOMAIN network'[l] : f = network'[l][j]
      BY <2>4 DEF InNetwork, ToSet
    <2>6. \E k \in DOMAIN network[l] : f = network[l][k]
      BY <2>3, <2>4, <2>5
    <2> QED
      BY <2>6, InNetworkIs DEF EngineInv
  <1> QED
    BY <1>1, <1>2, <1>4, <1>5 DEF Outstanding, BeingSent, BeingCancelled

LEMMA InitializeLPWorks ==
  ASSUME ModelIsCausal, EngineInv, NEW lp \in LP, InitializeLP(lp), NEW f \in Outstanding'
  PROVE  f \in Outstanding \/ \E s \in OutstandingTimes : s <= f.ts
  <1> DEFINE sends == Returned(InitialEvent, lp, InitialSends[lp])
  <1>1. /\ pc[Master] = "initialize" /\ new_events' = [new_events EXCEPT ![Master] = sends]
        /\ UNCHANGED <<queues, events_to_cancel, network>>
    BY DEF InitializeLP
  <1>2. 0 \in OutstandingTimes /\ Master \in Thread
    BY <1>1, TimesAre, MasterIsNoWorker
  <1>3. \A i \in DOMAIN sends : 0 <= sends[i].ts
    <2>1. InitialSends[lp] \in Seq(Send)
      BY DEF ModelIsCausal
    <2>2. \A i \in DOMAIN sends : sends[i].ts \in Nat
      BY <2>1, ReturnedFacts
    <2> HIDE DEF sends
    <2> QED
      BY <2>2
  <1> HIDE DEF sends
  <1>4. CASE f \in BeingSent'
    BY <1>1, <1>2, <1>3, <1>4, SendingAdds
  <1>5. CASE f \in Pending' \cup InNetwork' \cup BeingCancelled'
    BY <1>1, <1>5 DEF Pending, queues, InNetwork, BeingCancelled, Outstanding
  <1> QED
    BY <1>4, <1>5 DEF Outstanding

(* Steps that only take events away or leave them where they are.          *)
LEMMA NothingAdded ==
  ASSUME \A lp \in LP : input_queue'[lp] \subseteq input_queue[lp],
         UNCHANGED <<new_events, events_to_cancel, network>>
  PROVE  \A f \in Outstanding' : f \in Outstanding
  <1>1. \A f \in Pending' : f \in Pending
    BY DEF Pending
  <1> QED
    BY <1>1 DEF Outstanding, InNetwork, BeingSent, BeingCancelled

LEMMA QuietWorks ==
  ASSUME EngineInv, NEW t \in Worker,
         \/ \E event \in Pending : GetEvent(t, event)
         \/ CoastForward(t) \/ CancelEvent(t) \/ FossilCollect(t) \/ ReplenishScheduler(t)
  PROVE  \A f \in Outstanding' : f \in Outstanding
  <1>1. CASE \E event \in Pending : GetEvent(t, event)
    BY <1>1, NothingAdded DEF GetEvent, getEvent, toSend
  <1>2. CASE CoastForward(t)
    BY <1>2, NothingAdded DEF CoastForward, queues, toSend
  <1>3. CASE CancelEvent(t)
    <2> DEFINE lp == held[t].recv
    <2>1. /\ input_queue' = [input_queue EXCEPT ![lp] = AfterCancel(lp, held[t])]
          /\ UNCHANGED <<new_events, events_to_cancel, network>>
      BY <1>3 DEF CancelEvent, cancelEvent, toSend
    <2>2. AfterCancel(lp, held[t]) \subseteq input_queue[lp]
      BY DEF AfterCancel
    <2>3. \A l \in LP : input_queue'[l] \subseteq input_queue[l]
      BY <2>1, <2>2 DEF EngineInv, IInv, TypeOK
    <2> QED
      BY <2>1, <2>3, NothingAdded
  <1>4. CASE FossilCollect(t)
    <2>1. input_queue' = input_queue /\ UNCHANGED <<new_events, events_to_cancel, network>>
      BY <1>4 DEF FossilCollect, fossilCollectAll, fossilCollect, toSend, queues
    <2> QED
      BY <2>1, NothingAdded
  <1>5. CASE ReplenishScheduler(t)
    <2>1. /\ \E s : input_queue' = [input_queue EXCEPT ![held[t].recv] = @ \ s]
          /\ UNCHANGED <<new_events, events_to_cancel, network>>
      BY <1>5 DEF ReplenishScheduler, replenishScheduler, toSend
    <2>2. \A l \in LP : input_queue'[l] \subseteq input_queue[l]
      BY <2>1 DEF EngineInv, IInv, TypeOK
    <2> QED
      BY <2>1, <2>2, NothingAdded
  <1> QED
    BY <1>1, <1>2, <1>3, <1>4, <1>5

LEMMA MasterDoesNotReinitialize ==
  ASSUME EngineInv, EngineNext, pc'[Master] = "initialize"
  PROVE  pc[Master] = "initialize"
  <1>1. /\ pc \in [Thread -> Handling \cup {"getEvent", "initialize", "running", "terminated"}]
        /\ Master \in Thread /\ Master \notin Worker
    BY MasterIsNoWorker DEF EngineInv, EngineTypeOK
  <1> SUFFICES ASSUME pc'[Master] # pc[Master] PROVE FALSE
    OBVIOUS
  <1>2. CASE \E t \in Worker : WorkerStep(t)
    <2>1. PICK t \in Worker : WorkerStep(t)
      BY <1>2
    <2>2. pc' = pc \/ \E x : pc' = [pc EXCEPT ![t] = x]
      BY <2>1 DEF WorkerStep, GetEvent, Rollback, SendAntiMessage, CoastForward, CancelEvent,
                  ReceiveEvent, SendEvent, FossilCollect, ReplenishScheduler, Goto
    <2> QED
      BY <1>1, <2>2
  <1>3. CASE StartWorkers \/ Terminate
    BY <1>1, <1>3 DEF StartWorkers, Terminate, Goto
  <1>4. CASE \/ \E lp \in LP : InitializeLP(lp) \/ FinalCollect(lp)
             \/ SendEvent(Master) \/ ReceiveStep
             \/ \E time \in GvtTimes : AdvanceGVT(time)
    BY <1>4 DEF InitializeLP, FinalCollect, SendEvent, ReceiveStep, Receive, AdvanceGVT
  <1> QED
    BY <1>2, <1>3, <1>4 DEF EngineNext, MasterStep

(* Whatever the engine does, but for its GVT.                              *)
LEMMA EngineWorks ==
  ASSUME ModelIsCausal, MessageIsAll, EngineInv, EngineInv', HistoryStep,
         ~ \E time \in GvtTimes : AdvanceGVT(time),
         NEW f \in Outstanding'
  PROVE  f \in Outstanding \/ \E s \in OutstandingTimes : s <= f.ts
  <1>1. EngineNext /\ Remember /\ Master \in Thread
    BY MasterIsNoWorker DEF HistoryStep
  <1>2. ASSUME NEW t \in Worker, WorkerStep(t)
        PROVE  f \in Outstanding \/ \E s \in OutstandingTimes : s <= f.ts
    <2>1. t \in Thread
      BY MasterIsNoWorker
    <2>2. CASE \/ \E event \in Pending : GetEvent(t, event)
               \/ CoastForward(t) \/ CancelEvent(t) \/ FossilCollect(t) \/ ReplenishScheduler(t)
      BY <2>2, QuietWorks
    <2>3. CASE Rollback(t)
      BY <2>3, RollbackWorks
    <2>4. CASE SendAntiMessage(t)
      BY <2>4, SendAntiMessageWorks
    <2>5. CASE ReceiveEvent(t)
      BY <2>5, ReceiveEventWorks
    <2>6. CASE SendEvent(t)
      BY <2>1, <2>6, SendEventWorks
    <2> QED
      BY <1>2, <2>2, <2>3, <2>4, <2>5, <2>6 DEF WorkerStep
  <1>3. CASE \E lp \in LP : InitializeLP(lp)
    BY <1>3, InitializeLPWorks
  <1>4. CASE SendEvent(Master)
    BY <1>1, <1>4, SendEventWorks
  <1>5. CASE ReceiveStep
    BY <1>1, <1>5, ReceiveWorks DEF ReceiveStep
  <1>6. CASE StartWorkers \/ Terminate
    <2>1. input_queue' = input_queue /\ UNCHANGED <<new_events, events_to_cancel, network>>
      BY <1>6 DEF StartWorkers, Terminate, queues, toSend
    <2> QED
      BY <2>1, NothingAdded
  <1>7. CASE \E lp \in LP : FinalCollect(lp)
    <2>1. input_queue' = input_queue /\ UNCHANGED <<new_events, events_to_cancel, network>>
      BY <1>7 DEF FinalCollect, fossilCollect, toSend
    <2> QED
      BY <2>1, NothingAdded
  <1> QED
    BY <1>1, <1>2, <1>3, <1>4, <1>5, <1>6, <1>7 DEF EngineNext, MasterStep

LEMMA TimesAreNumbers ==
  EngineInv => OutstandingTimes \in SUBSET Nat
  BY OutstandingHasTime, TimesAre

(* With rollbacks, anti-messages and messages in transit the engine keeps  *)
(* its promise to the GVT managers: nothing it makes, puts back or cancels *)
(* is earlier than something outstanding, so the GVT stays a lower bound.  *)
THEOREM EngineKeepsPromise ==
  ASSUME ModelIsCausal, MessageIsAll
  PROVE  HistorySpec => ImplementsGVTService
  <1>1. HistoryInit => Service!Init
    <2> SUFFICES ASSUME HistoryInit PROVE Service!Init
      OBVIOUS
    <2>1. OutstandingTimes \in SUBSET Nat
      BY EngineInit, TimesAreNumbers
    <2>2. gvt = 0
      BY DEF HistoryInit, Init
    <2> QED
      BY <2>1, <2>2 DEF Service!Init
  <1>2. EngineInv => OutstandingTimes \in SUBSET Nat
    BY TimesAreNumbers
  <1>3. ASSUME EngineInv, EngineInv', OutstandingTimes' \in SUBSET Nat,
               [HistoryStep]_<<engineVars, History>>
        PROVE  [Service!Next]_(Service!vars)
    <2>1. CASE \E time \in GvtTimes : AdvanceGVT(time)
      <3>1. PICK time \in GvtTimes : AdvanceGVT(time)
        BY <2>1
      <3>2. /\ gvt < time /\ gvt' = time /\ pc[Master] = "running"
            /\ \A e \in Outstanding : time <= e.ts
            /\ UNCHANGED <<queues, pc, new_events, events_to_cancel, network>>
        BY <3>1 DEF AdvanceGVT, toSend
      <3>3. time \in Nat /\ gvt \in Nat
        <4>1. time \in Nat
          BY MessageTimes
        <4> QED
          BY <1>3, <4>1 DEF EngineInv, EngineTypeOK
      <3>4. OutstandingTimes' = OutstandingTimes
        BY <3>2 DEF OutstandingTimes, Outstanding, Pending, queues, InNetwork, BeingSent,
                    BeingCancelled
      <3>5. \A x \in OutstandingTimes : time <= x
        BY <3>2, TimesAre
      <3>6. Service!Advance
        BY <3>2, <3>3, <3>4, <3>5 DEF Service!Advance
      <3> QED
        BY <3>6 DEF Service!Next
    <2>2. CASE HistoryStep /\ ~ \E time \in GvtTimes : AdvanceGVT(time)
      <3>1. \A f \in Outstanding' : f \in Outstanding \/ \E s \in OutstandingTimes : s <= f.ts
        BY <1>3, <2>2, EngineWorks
      <3>2. gvt' = gvt
        BY <2>2 DEF HistoryStep, EngineNext, WorkerStep, GetEvent, Rollback, SendAntiMessage,
                    CoastForward, CancelEvent, ReceiveEvent, SendEvent, FossilCollect,
                    ReplenishScheduler, MasterStep, InitializeLP, StartWorkers, ReceiveStep,
                    Receive, Terminate, FinalCollect
      <3>3. pc'[Master] = "initialize" => pc[Master] = "initialize"
        BY <1>3, <2>2, MasterDoesNotReinitialize DEF HistoryStep
      <3>4. Service!Work
        BY <1>3, <3>1, <3>2, <3>3, Works
      <3> QED
        BY <3>4 DEF Service!Next
    <2>3. CASE UNCHANGED <<engineVars, History>>
      <3>1. UNCHANGED <<queues, pc, new_events, events_to_cancel, network, gvt>>
        BY <2>3 DEF engineVars, toSend
      <3>2. OutstandingTimes' = OutstandingTimes
        BY <3>1 DEF OutstandingTimes, Outstanding, Pending, queues, InNetwork, BeingSent,
                    BeingCancelled
      <3> QED
        BY <3>1, <3>2 DEF Service!vars
    <2> QED
      BY <1>3, <2>1, <2>2, <2>3
  <1>4. /\ EngineInv /\ EngineInv' /\ (OutstandingTimes \in SUBSET Nat)'
        /\ [HistoryNext]_<<vars, History>>
        => [Service!Next]_(Service!vars)
    BY <1>3, StepOrAbort
  <1>5. HistorySpec => []EngineInv
    BY EngineInvariance
  <1> QED
    BY <1>1, <1>2, <1>4, <1>5, PTL DEF HistorySpec, ImplementsGVTService, Service!Spec

-----------------------------------------------------------------------------
(* Saved states.                                                           *)

(* The part of a processed queue that coasting forward processes again.    *)
Replay(p, r) == SubSeq(p, CoastedOver(p, r) + 1, Len(p))

LEMMA SequencesAgree ==
  ASSUME NEW S, NEW s \in Seq(S), NEW u \in Seq(S), Len(s) = Len(u),
         \A i \in 1 .. Len(s) : s[i] = u[i]
  PROVE  s = u
  <1>1. s = [i \in 1 .. Len(s) |-> s[i]] /\ u = [i \in 1 .. Len(u) |-> u[i]]
    OBVIOUS
  <1> QED
    BY <1>1

LEMMA ReplayFacts ==
  ASSUME NEW p \in Seq(Event), NEW r
  PROVE  LET k == CoastedOver(p, r)
         IN  /\ k \in 0 .. Len(p)
             /\ Replay(p, r) \in Seq(Event)
             /\ Len(Replay(p, r)) = Len(p) - k
             /\ \A i \in 1 .. Len(p) - k : Replay(p, r)[i] = p[i + k]
  <1> DEFINE k == CoastedOver(p, r)
  <1>1. k \in 0 .. Len(p)
    BY CoastedOverIsDefined
  <1> HIDE DEF k
  <1>2. k + 1 \in 1 .. Len(p) + 1 /\ Len(p) \in (k + 1) - 1 .. Len(p)
    BY <1>1
  <1>3. PICK s : s = SubSeq(p, k + 1, Len(p))
    OBVIOUS
  <1>4. /\ s \in Seq(Event) /\ Len(s) = Len(p) - ((k + 1) - 1)
        /\ \A i \in DOMAIN s : s[i] = p[i + ((k + 1) - 1)]
    BY <1>2, <1>3, SubSeqFacts
  <1>5. (k + 1) - 1 = k /\ DOMAIN s = 1 .. Len(s)
    BY <1>1, <1>4
  <1>6. s = Replay(p, r)
    BY <1>3 DEF Replay, k
  <1> QED
    BY <1>1, <1>4, <1>5, <1>6 DEF k

LEMMA ReplayNothing ==
  ASSUME NEW p \in Seq(Event), NEW r, \A i \in 1 .. Len(p) : ~ After(p[i], r)
  PROVE  Replay(p, r) = <<>>
  <1>1. CoastedOver(p, r) = Len(p)
    <2>1. Len(p) \in 0 .. Len(p) /\ (Len(p) > 0 => Len(p) \in 1 .. Len(p))
      OBVIOUS
    <2>2. \A i \in Len(p) + 1 .. Len(p) : After(p[i], r)
      OBVIOUS
    <2> QED
      BY <2>1, <2>2, CoastedOverIsUnique
  <1>2. Replay(p, r) \in Seq(Event) /\ Len(Replay(p, r)) = 0
    BY <1>1, ReplayFacts
  <1> QED
    BY <1>2

LEMMA ReplayAppends ==
  ASSUME NEW p \in Seq(Event), NEW e \in Event, NEW r, After(e, r)
  PROVE  Replay(Append(p, e), r) = Append(Replay(p, r), e)
  <1> DEFINE k == CoastedOver(p, r)
             a == Append(p, e)
             s == Replay(p, r)
  <1>1. /\ k \in 0 .. Len(p)
        /\ k > 0 => ~ After(p[k], r)
        /\ \A i \in k + 1 .. Len(p) : After(p[i], r)
    BY CoastedOverIsDefined
  <1>2. /\ s \in Seq(Event) /\ Len(s) = Len(p) - k
        /\ \A i \in 1 .. Len(p) - k : s[i] = p[i + k]
    BY ReplayFacts
  <1> HIDE DEF k, s
  <1>3. /\ a \in Seq(Event) /\ Len(a) = Len(p) + 1 /\ a[Len(p) + 1] = e
        /\ \A i \in 1 .. Len(p) : a[i] = p[i]
    OBVIOUS
  <1> HIDE DEF a
  <1>4. CoastedOver(a, r) = k
    <2>1. k \in 0 .. Len(a)
      BY <1>1, <1>3
    <2>2. k > 0 => ~ After(a[k], r)
      BY <1>1, <1>3
    <2>3. ASSUME NEW i \in k + 1 .. Len(a) PROVE After(a[i], r)
      <3>1. CASE i = Len(p) + 1
        BY <1>3, <3>1
      <3>2. CASE i # Len(p) + 1
        <4>1. i \in k + 1 .. Len(p) /\ i \in 1 .. Len(p)
          BY <1>1, <1>3, <3>2
        <4> QED
          BY <1>1, <1>3, <4>1
      <3> QED
        BY <3>1, <3>2
    <2> QED
      BY <1>3, <2>1, <2>2, <2>3, CoastedOverIsUnique
  <1>5. /\ Replay(a, r) \in Seq(Event) /\ Len(Replay(a, r)) = Len(a) - k
        /\ \A i \in 1 .. Len(a) - k : Replay(a, r)[i] = a[i + k]
    BY <1>3, <1>4, ReplayFacts
  <1>6. /\ Append(s, e) \in Seq(Event) /\ Len(Append(s, e)) = (Len(p) - k) + 1
        /\ \A i \in 1 .. Len(p) - k : Append(s, e)[i] = s[i]
        /\ Append(s, e)[(Len(p) - k) + 1] = e
    BY <1>2
  <1>7. ASSUME NEW i \in 1 .. Len(Replay(a, r))
        PROVE  Replay(a, r)[i] = Append(s, e)[i]
    <2>1. i \in 1 .. Len(a) - k /\ Replay(a, r)[i] = a[i + k]
      BY <1>5, <1>7
    <2>2. CASE i = (Len(p) - k) + 1
      <3>1. i + k = Len(p) + 1
        BY <1>1, <2>2
      <3> QED
        BY <1>3, <1>6, <2>1, <2>2, <3>1
    <2>3. CASE i # (Len(p) - k) + 1
      <3>1. i \in 1 .. Len(p) - k /\ i + k \in 1 .. Len(p)
        <4>1. Len(p) \in Nat /\ k \in Nat /\ i \in 1 .. (Len(p) + 1) - k
          BY <1>1, <1>3, <2>1
        <4> QED
          BY <2>3, <4>1
      <3> QED
        BY <1>2, <1>3, <1>6, <2>1, <3>1
    <2> QED
      BY <2>2, <2>3
  <1>8. Len(Replay(a, r)) = Len(Append(s, e))
    BY <1>1, <1>3, <1>5, <1>6
  <1>9. Replay(a, r) = Append(s, e)
    BY <1>5, <1>6, <1>7, <1>8, SequencesAgree
  <1> QED
    BY <1>9 DEF a, s

(* What fossil collection removes is not processed again.                  *)
LEMMA ReplayCollected ==
  ASSUME NEW p \in Seq(Event), NEW r, NEW c \in 0 .. Len(p),
         \A i \in 1 .. c : ~ After(p[i], r)
  PROVE  Replay(SubSeq(p, c + 1, Len(p)), r) = Replay(p, r)
  <1> DEFINE k == CoastedOver(p, r)
             s == Replay(p, r)
  <1>1. /\ k \in 0 .. Len(p)
        /\ k > 0 => ~ After(p[k], r)
        /\ \A i \in k + 1 .. Len(p) : After(p[i], r)
    BY CoastedOverIsDefined
  <1>2. /\ s \in Seq(Event) /\ Len(s) = Len(p) - k
        /\ \A i \in 1 .. Len(p) - k : s[i] = p[i + k]
    BY ReplayFacts
  <1> HIDE DEF k, s
  <1>3. PICK d : d = SubSeq(p, c + 1, Len(p))
    OBVIOUS
  <1>4. /\ d \in Seq(Event) /\ Len(d) = Len(p) - c
        /\ \A i \in 1 .. Len(p) - c : d[i] = p[i + c]
    <2>1. c + 1 \in 1 .. Len(p) + 1 /\ Len(p) \in (c + 1) - 1 .. Len(p) /\ (c + 1) - 1 = c
      OBVIOUS
    <2>2. /\ d \in Seq(Event) /\ Len(d) = Len(p) - ((c + 1) - 1)
          /\ \A i \in DOMAIN d : d[i] = p[i + ((c + 1) - 1)]
      BY <1>3, <2>1, SubSeqFacts
    <2>3. DOMAIN d = 1 .. Len(d)
      BY <2>2
    <2> QED
      BY <2>1, <2>2, <2>3
  <1>5. c <= k
    <2> SUFFICES ASSUME k < c PROVE FALSE
      BY <1>1
    <2>1. c \in k + 1 .. Len(p) /\ c \in 1 .. c
      BY <1>1
    <2> QED
      BY <1>1, <2>1
  <1>6. CoastedOver(d, r) = k - c
    <2>1. k - c \in 0 .. Len(d)
      BY <1>1, <1>4, <1>5
    <2>2. k - c > 0 => ~ After(d[k - c], r)
      <3> SUFFICES ASSUME k - c > 0 PROVE ~ After(d[k - c], r)
        OBVIOUS
      <3>1. k - c \in 1 .. Len(p) - c /\ (k - c) + c = k /\ k > 0
        BY <1>1
      <3> QED
        BY <1>1, <1>4, <3>1
    <2>3. ASSUME NEW i \in (k - c) + 1 .. Len(d) PROVE After(d[i], r)
      <3>1. i \in 1 .. Len(p) - c /\ i + c \in k + 1 .. Len(p)
        BY <1>1, <1>4, <1>5
      <3> QED
        BY <1>1, <1>4, <3>1
    <2> QED
      BY <1>4, <2>1, <2>2, <2>3, CoastedOverIsUnique
  <1>7. /\ Replay(d, r) \in Seq(Event) /\ Len(Replay(d, r)) = Len(d) - (k - c)
        /\ \A i \in 1 .. Len(d) - (k - c) : Replay(d, r)[i] = d[i + (k - c)]
    <2>1. LET m == CoastedOver(d, r)
          IN  /\ Replay(d, r) \in Seq(Event)
              /\ Len(Replay(d, r)) = Len(d) - m
              /\ \A i \in 1 .. Len(d) - m : Replay(d, r)[i] = d[i + m]
      <3>1. d \in Seq(Event)
        BY <1>4
      <3> QED
        BY <3>1, ReplayFacts
    <2> QED
      BY <1>6, <2>1
  <1>8. Len(Replay(d, r)) = Len(s)
    BY <1>1, <1>2, <1>4, <1>7
  <1>9. ASSUME NEW i \in 1 .. Len(Replay(d, r))
        PROVE  Replay(d, r)[i] = s[i]
    <2>1. /\ i \in 1 .. Len(d) - (k - c) /\ i \in 1 .. Len(p) - k
          /\ i + (k - c) \in 1 .. Len(p) - c /\ (i + (k - c)) + c = i + k
      BY <1>1, <1>2, <1>4, <1>5, <1>7, <1>8
    <2> QED
      BY <1>2, <1>4, <1>7, <2>1
  <1>10. Replay(d, r) = s
    BY <1>2, <1>7, <1>8, <1>9, SequencesAgree
  <1> QED
    BY <1>3, <1>10 DEF s

LEMMA TraceType ==
  ASSUME NEW e \in Event
  PROVE  Trace(e) \in TraceOf
  BY DEF Trace, TraceOf, Event

(* Processing events one after the other.                                  *)
LEMMA NextStatesFacts ==
  ASSUME NEW s \in Seq(TraceOf), NEW q \in Seq(Event), NEW e \in Event
  PROVE  /\ NextStates(s, <<>>) = s
         /\ NextStates(s, q) \in Seq(TraceOf)
         /\ NextState(s, e) \in Seq(TraceOf)
         /\ NextStates(s, Append(q, e)) = NextState(NextStates(s, q), e)
  <1> DEFINE T(u) == [i \in DOMAIN u |-> Trace(u[i])]
  <1>1. ASSUME NEW u \in Seq(Event)
        PROVE  /\ T(u) \in Seq(TraceOf) /\ Len(T(u)) = Len(u)
               /\ \A i \in 1 .. Len(u) : T(u)[i] = Trace(u[i])
    <2>1. \A i \in 1 .. Len(u) : Trace(u[i]) \in TraceOf
      BY <1>1, TraceType
    <2>2. DOMAIN u = 1 .. Len(u) /\ Len(u) \in Nat
      BY <1>1
    <2> QED
      BY <2>1, <2>2
  <1>2. \A u : NextStates(s, u) = s \o T(u)
    BY DEF NextStates
  <1>3. Trace(e) \in TraceOf
    BY TraceType
  <1>4. NextStates(s, <<>>) = s
    <2>1. T(<<>>) = <<>>
      OBVIOUS
    <2>2. s \o <<>> = s
      OBVIOUS
    <2> QED
      BY <1>2, <2>1, <2>2
  <1> HIDE DEF T
  <1>5. NextStates(s, q) \in Seq(TraceOf)
    <2>1. T(q) \in Seq(TraceOf)
      BY <1>1
    <2>2. s \o T(q) \in Seq(TraceOf)
      BY <2>1
    <2> QED
      BY <1>2, <2>2
  <1>6. NextState(s, e) \in Seq(TraceOf)
    BY <1>3 DEF NextState
  <1>7. T(Append(q, e)) = Append(T(q), Trace(e))
    <2> DEFINE a == Append(q, e)
               b == Append(T(q), Trace(e))
    <2>1. /\ a \in Seq(Event) /\ Len(a) = Len(q) + 1 /\ a[Len(q) + 1] = e
          /\ \A i \in 1 .. Len(q) : a[i] = q[i]
      OBVIOUS
    <2>2. T(q) \in Seq(TraceOf) /\ Len(T(q)) = Len(q) /\ Len(q) \in Nat
          /\ \A i \in 1 .. Len(q) : T(q)[i] = Trace(q[i])
      BY <1>1
    <2>3. /\ b \in Seq(TraceOf) /\ Len(b) = Len(q) + 1 /\ b[Len(q) + 1] = Trace(e)
          /\ \A i \in 1 .. Len(q) : b[i] = T(q)[i]
      BY <1>3, <2>2
    <2> HIDE DEF a, b
    <2>4. /\ T(a) \in Seq(TraceOf) /\ Len(T(a)) = Len(q) + 1
          /\ \A i \in 1 .. Len(q) + 1 : T(a)[i] = Trace(a[i])
      BY <1>1, <2>1
    <2>5. \A i \in 1 .. Len(q) + 1 : T(a)[i] = b[i]
      <3> SUFFICES ASSUME NEW i \in 1 .. Len(q) + 1 PROVE T(a)[i] = b[i]
        OBVIOUS
      <3>1. i = Len(q) + 1 \/ i \in 1 .. Len(q)
        BY <2>2
      <3> QED
        BY <2>1, <2>2, <2>3, <2>4, <3>1
    <2>6. T(a) = b
      BY <2>3, <2>4, <2>5, SequencesAgree
    <2> QED
      BY <2>6 DEF a, b
  <1>8. s \o Append(T(q), Trace(e)) = Append(s \o T(q), Trace(e))
    <2>1. T(q) \in Seq(TraceOf)
      BY <1>1
    <2> QED
      BY <1>3, <2>1
  <1>9. NextStates(s, Append(q, e)) = NextState(NextStates(s, q), e)
    BY <1>2, <1>7, <1>8 DEF NextState
  <1> QED
    BY <1>4, <1>5, <1>6, <1>9

(* Nothing is said of an LP that nobody touches.                           *)
LEMMA StateStands ==
  ASSUME EngineInv, NEW lp \in LP, StateOK(lp), state'[lp] = state[lp],
         state_queue'[lp] = state_queue[lp], processed_queue'[lp] = processed_queue[lp],
         JustReceived(lp)' = JustReceived(lp), InPast(lp)' = InPast(lp),
         gvt' \in Nat, gvt <= gvt',
         pc[Master] = "terminated" => pc'[Master] = "terminated"
  PROVE  StateOK(lp)'
  <1> DEFINE q == state_queue[lp]
  <1>1. Reproduced(lp)' = Reproduced(lp)
    BY DEF Reproduced, getEventsForCoastForward
  <1>2. Processed(lp)' = Processed(lp)
    BY DEF Processed
  <1>3. \A i \in DOMAIN q : q[i].event.ts \in Nat
    <2>1. \A f \in Message \cup {InitialEvent} : f.ts \in Nat
      BY MessageFacts DEF Event, InitialEvent
    <2> QED
      BY <2>1 DEF EngineInv, FirstStateIsOld
  <1>4. gvt \in Nat
    BY DEF EngineInv, EngineTypeOK
  <1>5. \A i \in DOMAIN q : q[i].event.ts < gvt => q[i].event.ts < gvt'
    BY <1>3, <1>4
  <1>6. /\ \A i \in DOMAIN q : q[i].state \in Seq(TraceOf)
        /\ \A i, j \in DOMAIN q : i < j => Before(q[i].event, q[j].event)
        /\ \A i \in DOMAIN q : \/ q[i].event = InitialEvent
                               \/ q[i].event \in Processed(lp) \cup JustReceived(lp)
                               \/ q[i].event.ts < gvt
                               \/ pc[Master] = "terminated"
        /\ InPast(lp) => state[lp] = Last(q).state
        /\ ~ InPast(lp) /\ q # <<>> /\ pc[Master] # "terminated" => Reproduced(lp)
    BY DEF StateOK
  <1>7. \A i \in DOMAIN q : \/ q[i].event = InitialEvent
                            \/ q[i].event \in Processed(lp)' \cup JustReceived(lp)'
                            \/ q[i].event.ts < gvt'
                            \/ pc'[Master] = "terminated"
    BY <1>2, <1>5, <1>6
  <1> QED
    BY <1>1, <1>6, <1>7 DEF StateOK

(* One worker moves that is not sending for the LP or undoing its past.    *)
LEMMA OthersReceived ==
  ASSUME NEW lp, NEW t \in Worker,
         \A u \in Worker : u # t => pc'[u] = pc[u] /\ held'[u] = held[u],
         held[t] # NoEvent /\ held[t].recv = lp
             => pc[t] \notin {"sendEvents", "replenish", "cancelEvents"},
         held'[t] # NoEvent /\ held'[t].recv = lp
             => pc'[t] \notin {"sendEvents", "replenish", "cancelEvents"}
  PROVE  JustReceived(lp)' = JustReceived(lp) /\ InPast(lp)' = InPast(lp)
  <1>1. \A e : e \in JustReceived(lp)' <=>
           \E u \in Worker : /\ e = held'[u] /\ held'[u] # NoEvent /\ held'[u].recv = lp
                             /\ pc'[u] \in {"sendEvents", "replenish"}
    BY DEF JustReceived, HandledBy
  <1>2. \A e : e \in JustReceived(lp)' <=> e \in JustReceived(lp)
    BY <1>1, JustReceivedIs
  <1>3. InPast(lp)' <=> InPast(lp)
    BY DEF InPast, HandledBy
  <1>4. InPast(lp)' \in BOOLEAN /\ InPast(lp) \in BOOLEAN
    BY DEF InPast
  <1> QED
    BY <1>2, <1>3, <1>4

(* What the worker of an LP has received, and whether it undoes the past.  *)
LEMMA WorkerReceived ==
  ASSUME EngineInv, NEW t \in Worker, pc[t] \in Handling,
         \A u \in Worker : u # t => pc'[u] = pc[u] /\ held'[u] = held[u],
         held'[t] = held[t] \/ held'[t] = NoEvent,
         NEW lp, lp = held[t].recv
  PROVE  /\ JustReceived(lp) = IF pc[t] \in {"sendEvents", "replenish"} THEN {held[t]} ELSE {}
         /\ JustReceived(lp)' = IF held'[t] # NoEvent /\ pc'[t] \in {"sendEvents", "replenish"}
                                THEN {held[t]} ELSE {}
         /\ InPast(lp) <=> pc[t] = "cancelEvents"
         /\ InPast(lp)' <=> held'[t] # NoEvent /\ pc'[t] = "cancelEvents"
         /\ \A l : l # lp => JustReceived(l)' = JustReceived(l) /\ InPast(l)' = InPast(l)
  <1> DEFINE e == held[t]
  <1>1. e # NoEvent /\ \A u \in Worker : held[u] # NoEvent /\ held[u].recv = lp => u = t
    BY Engaged
  <1>2. \A u \in Worker : held'[u] # NoEvent /\ held'[u].recv = lp => u = t /\ held'[u] = e
    BY <1>1
  <1>3. JustReceived(lp) = IF pc[t] \in {"sendEvents", "replenish"} THEN {e} ELSE {}
    <2>1. \A f : f \in JustReceived(lp) <=> f = e /\ pc[t] \in {"sendEvents", "replenish"}
      BY <1>1, JustReceivedIs
    <2> QED
      BY <2>1
  <1>4. JustReceived(lp)' = IF held'[t] # NoEvent /\ pc'[t] \in {"sendEvents", "replenish"}
                            THEN {e} ELSE {}
    <2>1. \A f : f \in JustReceived(lp)' <=>
             \E u \in Worker : /\ f = held'[u] /\ held'[u] # NoEvent /\ held'[u].recv = lp
                               /\ pc'[u] \in {"sendEvents", "replenish"}
      BY DEF JustReceived, HandledBy
    <2>2. \A f : f \in JustReceived(lp)' <=>
             f = e /\ held'[t] # NoEvent /\ pc'[t] \in {"sendEvents", "replenish"}
      BY <1>1, <1>2, <2>1
    <2> QED
      BY <2>2
  <1>5. InPast(lp) <=> pc[t] = "cancelEvents"
    BY <1>1 DEF InPast, HandledBy
  <1>6. InPast(lp)' <=> held'[t] # NoEvent /\ pc'[t] = "cancelEvents"
    BY <1>1, <1>2 DEF InPast, HandledBy
  <1>7. ASSUME NEW l, l # lp
        PROVE  JustReceived(l)' = JustReceived(l) /\ InPast(l)' = InPast(l)
    <2>1. /\ held[t] # NoEvent /\ held[t].recv = l => FALSE
          /\ held'[t] # NoEvent /\ held'[t].recv = l => FALSE
      BY <1>1, <1>7
    <2> QED
      BY <2>1, OthersReceived
  <1> QED
    BY <1>3, <1>4, <1>5, <1>6, <1>7

LEMMA WorkersRest ==
  ASSUME NEW lp, \A u \in Worker : pc'[u] = pc[u] /\ held'[u] = held[u]
  PROVE  JustReceived(lp)' = JustReceived(lp) /\ InPast(lp)' = InPast(lp)
  <1>1. \A e : e \in JustReceived(lp)' <=>
           \E u \in Worker : /\ e = held'[u] /\ held'[u] # NoEvent /\ held'[u].recv = lp
                             /\ pc'[u] \in {"sendEvents", "replenish"}
    BY DEF JustReceived, HandledBy
  <1>2. \A e : e \in JustReceived(lp)' <=> e \in JustReceived(lp)
    BY <1>1, JustReceivedIs
  <1>3. InPast(lp)' <=> InPast(lp)
    BY DEF InPast, HandledBy
  <1>4. InPast(lp)' \in BOOLEAN /\ InPast(lp) \in BOOLEAN
    BY DEF InPast
  <1> QED
    BY <1>2, <1>3, <1>4

LEMMA StatesStand ==
  ASSUME EngineInv, EngineInv', StateInv,
         UNCHANGED <<state, state_queue, processed_queue>>,
         \A lp \in LP : JustReceived(lp)' = JustReceived(lp) /\ InPast(lp)' = InPast(lp),
         gvt <= gvt',
         pc[Master] = "terminated" => pc'[Master] = "terminated"
  PROVE  StateInv'
  <1>1. gvt' \in Nat
    BY DEF EngineInv, EngineTypeOK
  <1>2. \A lp \in LP : StateOK(lp)'
    BY <1>1, StateStands DEF StateInv
  <1> QED
    BY <1>2 DEF StateInv

(* The steps that neither save nor restore nor change a processed queue.   *)
LEMMA QuietStates ==
  ASSUME EngineInv, EngineInv', StateInv, HistoryStep,
         \/ \E t \in Worker : \/ \E event \in Pending : GetEvent(t, event)
                              \/ SendAntiMessage(t) \/ CancelEvent(t)
         \/ \E t \in Thread : SendEvent(t)
         \/ StartWorkers \/ ReceiveStep \/ Terminate
         \/ \E time \in GvtTimes : AdvanceGVT(time)
  PROVE  StateInv'
  <1>1. /\ pc \in [Thread -> Handling \cup {"getEvent", "initialize", "running", "terminated"}]
        /\ held = [t \in Worker |-> held[t]]
        /\ Thread = Worker \cup {Master} /\ Master \notin Worker
        /\ gvt \in Nat /\ gvt' \in Nat
    BY MasterIsNoWorker DEF EngineInv, EngineTypeOK, IInv, TypeOK
  <1>2. CASE \E t \in Worker : \E event \in Pending : GetEvent(t, event)
    <2>1. PICK t \in Worker, event \in Pending : GetEvent(t, event)
      BY <1>2
    <2>2. /\ pc[t] = "getEvent"
          /\ held' = [held EXCEPT ![t] = event]
          /\ pc' = [pc EXCEPT ![t] = IF IsStraggler(event.recv, event) THEN "rollback"
                                                                      ELSE Handle(event)]
          /\ UNCHANGED <<state, state_queue, processed_queue, gvt>>
      BY <2>1 DEF GetEvent, getEvent, Goto, lpVars
    <2>3. /\ pc'[t] \in {"rollback", "cancelEvent", "receiveEvent"} /\ pc'[Master] = pc[Master]
          /\ \A u \in Worker : u # t => pc'[u] = pc[u] /\ held'[u] = held[u]
      BY <1>1, <2>2 DEF Handle
    <2>4. \A lp \in LP : JustReceived(lp)' = JustReceived(lp) /\ InPast(lp)' = InPast(lp)
      BY <2>2, <2>3, OthersReceived
    <2> QED
      BY <1>1, <2>2, <2>3, <2>4, StatesStand
  <1>3. CASE \E t \in Worker : CancelEvent(t)
    <2>1. PICK t \in Worker : CancelEvent(t)
      BY <1>3
    <2>2. /\ pc[t] = "cancelEvent"
          /\ held' = [held EXCEPT ![t] = NoEvent]
          /\ pc' = [pc EXCEPT ![t] = "getEvent"]
          /\ UNCHANGED <<state, state_queue, processed_queue, gvt>>
      BY <2>1 DEF CancelEvent, cancelEvent, Goto, lpVars
    <2>3. /\ pc'[t] = "getEvent" /\ pc'[Master] = pc[Master]
          /\ \A u \in Worker : u # t => pc'[u] = pc[u] /\ held'[u] = held[u]
      BY <1>1, <2>2
    <2>4. \A lp \in LP : JustReceived(lp)' = JustReceived(lp) /\ InPast(lp)' = InPast(lp)
      BY <2>2, <2>3, OthersReceived
    <2> QED
      BY <1>1, <2>2, <2>3, <2>4, StatesStand
  <1>4. CASE StartWorkers \/ Terminate
    <2>1. /\ \A u \in Worker : pc'[u] = pc[u] /\ held'[u] = held[u]
          /\ pc[Master] # "terminated"
          /\ UNCHANGED <<state, state_queue, processed_queue, gvt>>
      BY <1>1, <1>4 DEF StartWorkers, Terminate, Goto, lpVars, queues
    <2>2. \A lp \in LP : JustReceived(lp)' = JustReceived(lp) /\ InPast(lp)' = InPast(lp)
      BY <2>1, WorkersRest
    <2> QED
      BY <1>1, <2>1, <2>2, StatesStand
  <1>5. CASE \/ \E t \in Worker : SendAntiMessage(t)
             \/ \E t \in Thread : SendEvent(t)
             \/ ReceiveStep
             \/ \E time \in GvtTimes : AdvanceGVT(time)
    <2>1. UNCHANGED <<pc, held, state, state_queue, processed_queue>> /\ gvt <= gvt'
      <3>1. CASE \E t \in Worker : SendAntiMessage(t)
        <4>1. PICK t \in Worker : SendAntiMessage(t)
          BY <3>1
        <4>2. UNCHANGED <<pc, held, state, state_queue, gvt>>
          BY <4>1 DEF SendAntiMessage, lpVars
        <4>3. processed_queue' = processed_queue
          BY <4>1 DEF SendAntiMessage, Transmit, insertEvent, queues
        <4> QED
          BY <1>1, <4>2, <4>3
      <3>2. CASE \E t \in Thread : SendEvent(t)
        <4>1. PICK t \in Thread : SendEvent(t)
          BY <3>2
        <4>2. UNCHANGED <<pc, held, state, state_queue, gvt>>
          BY <4>1 DEF SendEvent
        <4>3. processed_queue' = processed_queue
          BY <4>1 DEF SendEvent, Transmit, insertEvent, queues
        <4> QED
          BY <1>1, <4>2, <4>3
      <3>3. CASE ReceiveStep
        <4>1. PICK link \in DOMAIN network : \E i \in DOMAIN network[link] : Receive(link, i)
          BY <3>3 DEF ReceiveStep
        <4>2. PICK i \in DOMAIN network[link] : Receive(link, i)
          BY <4>1
        <4>3. UNCHANGED <<pc, held, state, state_queue, gvt>>
          BY <4>2 DEF Receive, lpVars
        <4>4. processed_queue' = processed_queue
          BY <4>2 DEF Receive, insertEvent
        <4> QED
          BY <1>1, <4>3, <4>4
      <3>4. CASE \E time \in GvtTimes : AdvanceGVT(time)
        <4>1. PICK time \in GvtTimes : AdvanceGVT(time)
          BY <3>4
        <4>2. gvt < time /\ gvt' = time
              /\ UNCHANGED <<pc, held, state, state_queue, processed_queue>>
          BY <4>1 DEF AdvanceGVT, lpVars, queues
        <4> QED
          BY <1>1, <4>2
      <3> QED
        BY <1>5, <3>1, <3>2, <3>3, <3>4
    <2>2. \A lp \in LP : JustReceived(lp)' = JustReceived(lp) /\ InPast(lp)' = InPast(lp)
      BY <2>1, WorkersRest
    <2> QED
      BY <2>1, <2>2, StatesStand
  <1> QED
    BY <1>2, <1>3, <1>4, <1>5

(* An LP's saved states while the workers run.                             *)
LEMMA SavedFacts ==
  ASSUME EngineInv, StateInv, NEW lp \in LP
  PROVE  LET q == state_queue[lp]
         IN  /\ q \in Seq({q[i] : i \in DOMAIN q})
             /\ Len(q) \in Nat /\ DOMAIN q = 1 .. Len(q) /\ Last(q) = q[Len(q)]
             /\ pc[Master] # "initialize" => q # <<>> /\ Len(q) \in 1 .. Len(q)
             /\ \A i \in DOMAIN q : /\ q[i].event \in Event
                                    /\ q[i].event.ts \in Nat
                                    /\ q[i].state \in Seq(TraceOf)
             /\ processed_queue[lp] \in Seq(Event)
             /\ DOMAIN processed_queue[lp] = 1 .. Len(processed_queue[lp])
             /\ Len(processed_queue[lp]) \in Nat
  <1> DEFINE q == state_queue[lp]
             p == processed_queue[lp]
  <1>1. IsSequence(q)
    BY DEF EngineInv, EngineTypeOK
  <1>2. q \in Seq({q[i] : i \in DOMAIN q})
    BY <1>1 DEF IsSequence
  <1>3. Len(q) \in Nat /\ DOMAIN q = 1 .. Len(q) /\ (q # <<>> => Len(q) \in 1 .. Len(q))
    <2>1. PICK S : q \in Seq(S)
      BY <1>2
    <2> HIDE DEF q
    <2> QED
      BY <2>1
  <1>4. \A i \in DOMAIN q : q[i].event \in Message \cup {InitialEvent}
    BY DEF EngineInv, FirstStateIsOld
  <1>5. \A f \in Message \cup {InitialEvent} : f \in Event /\ f.ts \in Nat
    BY MessageFacts DEF Event, InitialEvent, POSITIVE
  <1>6. p \in Seq(Event)
    BY QueueFacts DEF EngineInv, IInv
  <1>7. DOMAIN p = 1 .. Len(p) /\ Len(p) \in Nat
    BY <1>6
  <1>8. \A i \in DOMAIN q : q[i].state \in Seq(TraceOf)
    BY DEF StateInv, StateOK
  <1>9. pc[Master] # "initialize" => q # <<>>
    BY DEF EngineInv, FirstStateIsOld
  <1> QED
    BY <1>2, <1>3, <1>4, <1>5, <1>6, <1>7, <1>8, <1>9 DEF Last

LEMMA CoastForwardStates ==
  ASSUME EngineInv, EngineInv', StateInv, NEW t \in Worker, CoastForward(t)
  PROVE  StateInv'
  <1>1. PICK lp : lp = held[t].recv
    OBVIOUS
  <1>2. /\ pc[t] = "cancelEvents"
        /\ state' = [state EXCEPT ![lp] = CoastForwarded(lp)]
        /\ pc' = [pc EXCEPT ![t] = Handle(held[t])]
        /\ UNCHANGED <<held, state_queue, processed_queue, gvt>>
    BY <1>1 DEF CoastForward, Goto, queues
  <1>3. /\ lp \in LP /\ pc[t] \in Handling /\ pc[Master] = "running" /\ t # Master
        /\ held[t] # NoEvent /\ gvt \in Nat
    BY <1>1, <1>2, Engaged DEF Handling
  <1>4. /\ pc'[t] \in {"cancelEvent", "receiveEvent"} /\ pc'[Master] = "running"
        /\ \A u \in Worker : u # t => pc'[u] = pc[u] /\ held'[u] = held[u]
    BY <1>2, <1>3, MasterIsNoWorker DEF EngineInv, EngineTypeOK, Handle
  <1>5. /\ JustReceived(lp) = {} /\ JustReceived(lp)' = {}
        /\ InPast(lp) /\ ~ InPast(lp)'
        /\ \A l : l # lp => JustReceived(l)' = JustReceived(l) /\ InPast(l)' = InPast(l)
    BY <1>1, <1>2, <1>3, <1>4, WorkerReceived
  <1> DEFINE q == state_queue[lp]
             p == processed_queue[lp]
             saved == Last(q)
  <1>6. /\ q # <<>> /\ Len(q) \in DOMAIN q /\ saved = q[Len(q)]
        /\ saved.state \in Seq(TraceOf)
        /\ p \in Seq(Event)
    BY <1>3, SavedFacts
  <1>7. state[lp] = saved.state
    BY <1>3, <1>5 DEF StateInv, StateOK
  <1>8. /\ state'[lp] = NextStates(saved.state, getEventsForCoastForward(lp, saved.event))
        /\ \A l \in LP : l # lp => state'[l] = state[l]
    BY <1>2, <1>3, <1>7 DEF StateInv, CoastForwarded
  <1>9. state'[lp] \in Seq(TraceOf)
    <2>1. Replay(p, saved.event) \in Seq(Event)
      BY <1>6, ReplayFacts
    <2>2. PICK e \in Event : TRUE
      BY <1>3, Engaged
    <2> QED
      BY <1>6, <1>8, <2>1, <2>2, NextStatesFacts DEF Replay, getEventsForCoastForward
  <1>10. state' \in [LP -> Seq(TraceOf)]
    BY <1>2, <1>3, <1>9 DEF StateInv
  <1>11. Reproduced(lp)'
    BY <1>2, <1>5, <1>8 DEF Reproduced, getEventsForCoastForward
  <1>12. StateOK(lp)'
    <2>1. Processed(lp)' = Processed(lp)
      BY <1>2 DEF Processed
    <2> QED
      BY <1>2, <1>3, <1>4, <1>5, <1>11, <2>1 DEF StateInv, StateOK
  <1>13. \A l \in LP : l # lp => StateOK(l)'
    BY <1>2, <1>3, <1>4, <1>5, <1>8, StateStands DEF StateInv
  <1> QED
    BY <1>10, <1>12, <1>13 DEF StateInv

LEMMA InitializeLPStates ==
  ASSUME EngineInv, EngineInv', StateInv, NEW lp \in LP, InitializeLP(lp)
  PROVE  StateInv'
  <1> DEFINE r == [event |-> InitialEvent, state |-> state[lp]]
             q == Append(<<>>, r)
  <1>1. /\ pc[Master] = "initialize" /\ state_queue[lp] = <<>>
        /\ saveState(lp, InitialEvent, state[lp])
        /\ UNCHANGED <<held, pc, state, processed_queue, gvt>>
    BY DEF InitializeLP, queues
  <1>2. count[lp] = 0 /\ processed_queue[lp] = <<>> /\ gvt \in Nat
    BY <1>1 DEF EngineInv, EngineTypeOK, FirstStateIsOld, MasterControl
  <1>3. /\ state_queue'[lp] = q
        /\ \A l \in LP : l # lp => state_queue'[l] = state_queue[l]
    BY <1>1, <1>2 DEF saveState, EngineInv, EngineTypeOK
  <1>4. q # <<>> /\ DOMAIN q = {1} /\ q[1] = r /\ Last(q) = r
    <2> HIDE DEF r
    <2> QED
      BY DEF Last
  <1> HIDE DEF q
  <1>5. \A l \in LP : JustReceived(l)' = JustReceived(l) /\ InPast(l)' = InPast(l)
    BY <1>1, WorkersRest
  <1>6. JustReceived(lp) = {} /\ ~ InPast(lp)
    <2>1. \A u \in Worker : pc[u] = "getEvent"
      BY <1>1 DEF EngineInv, WorkersInStep, InStep
    <2> QED
      BY <2>1 DEF JustReceived, InPast
  <1>7. Reproduced(lp)'
    <2>1. processed_queue[lp] \in Seq(Event) /\ Len(processed_queue[lp]) = 0
      BY <1>2
    <2>2. Replay(processed_queue[lp], InitialEvent) = <<>>
      BY <2>1, ReplayNothing
    <2>3. getEventsForCoastForward(lp, InitialEvent)' = <<>>
      BY <1>1, <2>2 DEF getEventsForCoastForward, Replay
    <2>4. state[lp] \in Seq(TraceOf) /\ InitialEvent \in Event
      BY DEF StateInv, InitialEvent, Event, POSITIVE
    <2>5. NextStates(state[lp], <<>>) = state[lp]
      <3>1. <<>> \in Seq(Event)
        OBVIOUS
      <3> QED
        BY <2>4, <3>1, NextStatesFacts
    <2> QED
      BY <1>1, <1>3, <1>4, <1>5, <1>6, <2>3, <2>5 DEF Reproduced
  <1>8. StateOK(lp)'
    <2>1. \A i \in DOMAIN q : /\ q[i].state \in Seq(TraceOf) /\ q[i].event = InitialEvent
                              /\ \A j \in DOMAIN q : ~ (i < j)
      BY <1>4 DEF StateInv
    <2> QED
      BY <1>3, <1>5, <1>6, <1>7, <2>1 DEF StateOK
  <1>9. \A l \in LP : l # lp => StateOK(l)'
    BY <1>1, <1>2, <1>3, <1>5, StateStands DEF StateInv
  <1> QED
    BY <1>1, <1>8, <1>9 DEF StateInv

(* The event an LP receives comes after all whose states it has saved.     *)
LEMMA SavedIsBefore ==
  ASSUME EngineInv, StateInv, NEW t \in Worker, pc[t] = "receiveEvent",
         NEW lp, lp = held[t].recv, NEW i \in DOMAIN state_queue[lp]
  PROVE  Before(state_queue[lp][i].event, held[t])
  <1> DEFINE e == held[t]
             f == state_queue[lp][i].event
  <1>1. /\ lp \in LP /\ e \in Event /\ e \in sent /\ e \in input_queue[lp] /\ e.sender \in LP
        /\ e.ts >= gvt /\ e.ts \in Nat /\ gvt \in Nat /\ pc[Master] = "running"
        /\ \A u \in Worker : held[u] # NoEvent /\ held[u].recv = lp => u = t
    BY Engaged DEF Handling
  <1>2. ~ IsStraggler(lp, e) /\ e.type = POSITIVE
    BY DEF EngineInv, WorkersInStep, InStep, Handling
  <1>3. f \in Event /\ f.ts \in Nat
    BY <1>1, SavedFacts
  <1>4. /\ f = InitialEvent \/ f \in Processed(lp) \/ f \in JustReceived(lp) \/ f.ts < gvt
    BY <1>1 DEF StateInv, StateOK
  <1>5. JustReceived(lp) = {}
    BY <1>1, JustReceivedIs
  <1>6. CASE f = InitialEvent
    <2>1. e.sender > 0
      BY <1>1 DEF LP
    <2> QED
      BY <1>1, <1>6, <2>1, InitialEventIsFirst
  <1>7. CASE f \in Processed(lp)
    <2>1. f \in sent /\ f.type = POSITIVE
      BY <1>1, <1>7, QueueFacts, MessageFacts DEF EngineInv, IInv
    <2>2. f # e
      BY <1>1, <1>7 DEF EngineInv, IInv, NoEventLost, NotInBothQueues
    <2>3. ~ SameEvent(f, e)
      BY <1>1, <1>2, <2>1, <2>2 DEF EngineInv, IInv, QueuesHoldSent, Distinct
    <2>4. ~ Before(e, f)
      BY <1>1, <1>2, <1>7, NothingProcessedIsLater DEF EngineInv
    <2> QED
      BY <1>1, <1>3, <2>3, <2>4, BeforeIsTotal
  <1>8. CASE f.ts < gvt
    BY <1>1, <1>3, <1>8 DEF Before
  <1> QED
    BY <1>4, <1>5, <1>6, <1>7, <1>8

LEMMA ReceiveEventStates ==
  ASSUME EngineInv, EngineInv', StateInv, NEW t \in Worker, ReceiveEvent(t)
  PROVE  StateInv'
  <1>1. PICK lp : lp = held[t].recv
    OBVIOUS
  <1> DEFINE e == held[t]
             q == state_queue[lp]
             p == processed_queue[lp]
             saved == Last(q)
             new == NextState(state[lp], e)
             r == [event |-> e, state |-> new]
  <1>2. /\ pc[t] = "receiveEvent"
        /\ state' = [state EXCEPT ![lp] = new]
        /\ saveState(lp, e, new)
        /\ pc' = [pc EXCEPT ![t] = "sendEvents"]
        /\ UNCHANGED <<held, processed_queue, gvt>>
    BY <1>1 DEF ReceiveEvent, Goto, queues
  <1>3. /\ lp \in LP /\ pc[t] \in Handling /\ pc[Master] = "running" /\ t # Master
        /\ e # NoEvent /\ gvt \in Nat /\ e \in Event
    BY <1>1, <1>2, Engaged DEF Handling
  <1>4. /\ pc'[t] = "sendEvents" /\ pc'[Master] = "running"
        /\ \A u \in Worker : u # t => pc'[u] = pc[u] /\ held'[u] = held[u]
    BY <1>2, <1>3, MasterIsNoWorker DEF EngineInv, EngineTypeOK
  <1>5. /\ JustReceived(lp) = {} /\ JustReceived(lp)' = {e}
        /\ ~ InPast(lp) /\ ~ InPast(lp)'
        /\ \A l : l # lp => JustReceived(l)' = JustReceived(l) /\ InPast(l)' = InPast(l)
    BY <1>1, <1>2, <1>3, <1>4, WorkerReceived
  <1>6. /\ q # <<>> /\ Len(q) \in DOMAIN q /\ saved = q[Len(q)]
        /\ q \in Seq({q[i] : i \in DOMAIN q}) /\ Len(q) \in Nat /\ DOMAIN q = 1 .. Len(q)
        /\ \A i \in DOMAIN q : q[i].event \in Event /\ q[i].state \in Seq(TraceOf)
        /\ p \in Seq(Event) /\ DOMAIN p = 1 .. Len(p)
    BY <1>3, SavedFacts
  <1>7. \A i \in DOMAIN q : Before(q[i].event, e)
    BY <1>1, <1>2, SavedIsBefore
  <1>8. state[lp] = NextStates(saved.state, getEventsForCoastForward(lp, saved.event))
    BY <1>3, <1>5, <1>6 DEF StateInv, StateOK, Reproduced
  <1>9. new \in Seq(TraceOf)
    <2>1. state[lp] \in Seq(TraceOf) /\ <<>> \in Seq(Event)
      BY <1>3 DEF StateInv
    <2> QED
      BY <1>3, <2>1, NextStatesFacts
  <1>10. /\ state' \in [LP -> Seq(TraceOf)] /\ state'[lp] = new
         /\ \A l \in LP : l # lp => state'[l] = state[l]
    BY <1>2, <1>3, <1>9 DEF StateInv
  <1>11. \A l \in LP : l # lp => state_queue'[l] = state_queue[l]
    BY <1>2 DEF saveState, EngineInv, EngineTypeOK
  <1>12. Processed(lp)' = Processed(lp)
    BY <1>2 DEF Processed
  <1>13. ASSUME count[lp] = 0 PROVE StateOK(lp)'
    <2> DEFINE a == Append(q, r)
    <2>1. state_queue'[lp] = a
      BY <1>2, <1>3, <1>13 DEF saveState, EngineInv, EngineTypeOK
    <2>2. /\ a # <<>> /\ DOMAIN a = 1 .. Len(q) + 1 /\ Last(a) = r
          /\ \A i \in 1 .. Len(q) : a[i] = q[i]
          /\ a[Len(q) + 1] = r
      <3>1. PICK S : q \in Seq(S) /\ r \in S
        <4>1. q \in Seq({q[i] : i \in DOMAIN q} \cup {r})
          <5>1. PICK Q : Q = {q[i] : i \in DOMAIN q}
            OBVIOUS
          <5>2. q \in Seq(Q)
            BY <1>6, <5>1
          <5> HIDE DEF q, r
          <5>3. q \in Seq(Q \cup {r})
            BY <5>2
          <5> QED
            BY <5>1, <5>3
        <4> QED
          BY <4>1
      <3> HIDE DEF q, r
      <3> QED
        BY <3>1 DEF Last
    <2> HIDE DEF a
    <2>3. r.event = e /\ r.state = new
      OBVIOUS
    <2> HIDE DEF r
    <2>4. ASSUME NEW i \in DOMAIN a
          PROVE  \/ i \in DOMAIN q /\ a[i] = q[i] /\ i <= Len(q)
                 \/ i = Len(q) + 1 /\ a[i] = r
      BY <1>6, <2>2
    <2>5. \A i \in DOMAIN a : a[i].state \in Seq(TraceOf)
      BY <1>6, <1>9, <2>3, <2>4
    <2>6. ASSUME NEW i \in DOMAIN a, NEW j \in DOMAIN a, i < j
          PROVE  Before(a[i].event, a[j].event)
      <3>1. i \in DOMAIN q /\ a[i] = q[i]
        BY <1>6, <2>2, <2>4, <2>6
      <3>2. CASE j \in DOMAIN q /\ a[j] = q[j]
        BY <1>3, <2>6, <3>1, <3>2 DEF StateInv, StateOK
      <3>3. CASE a[j] = r
        BY <1>7, <2>3, <3>1, <3>3
      <3> QED
        BY <2>4, <3>2, <3>3
    <2>7. \A i \in DOMAIN a : \/ a[i].event = InitialEvent
                              \/ a[i].event \in Processed(lp)' \cup JustReceived(lp)'
                              \/ a[i].event.ts < gvt'
                              \/ pc'[Master] = "terminated"
      <3> SUFFICES ASSUME NEW i \in DOMAIN a
                   PROVE  \/ a[i].event = InitialEvent
                          \/ a[i].event \in Processed(lp)' \cup JustReceived(lp)'
                          \/ a[i].event.ts < gvt'
        OBVIOUS
      <3>1. CASE i \in DOMAIN q /\ a[i] = q[i]
        BY <1>2, <1>3, <1>5, <1>12, <3>1 DEF StateInv, StateOK
      <3>2. CASE a[i] = r
        BY <1>5, <2>3, <3>2
      <3> QED
        BY <2>4, <3>1, <3>2
    <2>8. Reproduced(lp)'
      <3>1. ~ After(e, e)
        BY <1>3, BeforeIsTotal, BeforeIsStrictOrder
      <3>2. \A i \in 1 .. Len(p) : ~ After(p[i], e)
        <4> SUFFICES ASSUME NEW i \in 1 .. Len(p) PROVE ~ After(p[i], e)
          OBVIOUS
        <4>1. p[i] \in Processed(lp) /\ p[i] \in Event
          BY <1>6 DEF Processed
        <4>2. ~ IsStraggler(lp, e)
          BY <1>1, <1>2 DEF EngineInv, WorkersInStep, InStep, Handling
        <4>3. ~ Before(e, p[i])
          BY <1>3, <4>1, <4>2, NothingProcessedIsLater DEF EngineInv
        <4> QED
          BY <1>3, <4>1, <4>3, BeforeIsTotal
      <3>3. Replay(p, e) = <<>>
        BY <1>6, <3>2, ReplayNothing
      <3>4. getEventsForCoastForward(lp, e)' = <<>>
        BY <1>2, <3>3 DEF getEventsForCoastForward, Replay
      <3>5. NextStates(new, <<>>) = new
        <4>1. <<>> \in Seq(Event)
          OBVIOUS
        <4> QED
          BY <1>3, <1>9, <4>1, NextStatesFacts
      <3>6. Last(state_queue'[lp]).event = e /\ Last(state_queue'[lp]).state = new
        BY <2>1, <2>2, <2>3
      <3>7. {f \in JustReceived(lp)' : After(f, e)} = {}
        BY <1>5, <3>1
      <3> HIDE DEF new
      <3> QED
        BY <1>2, <1>10, <3>4, <3>5, <3>6, <3>7 DEF Reproduced
    <2>9. PICK b : b = a
      OBVIOUS
    <2>10. /\ \A i \in DOMAIN b : b[i].state \in Seq(TraceOf)
           /\ \A i, j \in DOMAIN b : i < j => Before(b[i].event, b[j].event)
           /\ \A i \in DOMAIN b : \/ b[i].event = InitialEvent
                                  \/ b[i].event \in Processed(lp)' \cup JustReceived(lp)'
                                  \/ b[i].event.ts < gvt'
                                  \/ pc'[Master] = "terminated"
           /\ state_queue'[lp] = b
      BY <2>1, <2>5, <2>6, <2>7, <2>9
    <2> QED
      BY <1>5, <2>8, <2>10 DEF StateOK
  <1>14. ASSUME count[lp] # 0 PROVE StateOK(lp)'
    <2>1. state_queue' = state_queue
      BY <1>2, <1>14 DEF saveState
    <2>2. After(e, saved.event)
      BY <1>3, <1>6, <1>7, BeforeIsTotal
    <2>3. Reproduced(lp)'
      <3>0. PICK last : last = saved
        OBVIOUS
      <3>1. {f \in JustReceived(lp)' : After(f, last.event)} = {e}
        BY <1>5, <2>2, <3>0
      <3>2. getEventsForCoastForward(lp, last.event)' = getEventsForCoastForward(lp, last.event)
        BY <1>2 DEF getEventsForCoastForward
      <3>3. Last(state_queue'[lp]) = last
        BY <2>1, <3>0
      <3>4. (CHOOSE f \in {e} : TRUE) = e /\ {e} # {}
        OBVIOUS
      <3>5. state'[lp] = NextState(NextStates(last.state,
                            getEventsForCoastForward(lp, last.event)), e)
        BY <1>8, <1>10, <3>0
      <3> HIDE DEF e
      <3> QED
        BY <3>1, <3>2, <3>3, <3>4, <3>5 DEF Reproduced
    <2>4. /\ \A i \in DOMAIN q : q[i].state \in Seq(TraceOf)
          /\ \A i, j \in DOMAIN q : i < j => Before(q[i].event, q[j].event)
          /\ \A i \in DOMAIN q : \/ q[i].event = InitialEvent
                                 \/ q[i].event \in Processed(lp)' \cup JustReceived(lp)'
                                 \/ q[i].event.ts < gvt'
      BY <1>2, <1>3, <1>5, <1>12 DEF StateInv, StateOK
    <2> QED
      BY <1>5, <2>1, <2>3, <2>4 DEF StateOK
  <1>15. \A l \in LP : l # lp => StateOK(l)'
    BY <1>2, <1>3, <1>4, <1>5, <1>10, <1>11, StateStands DEF StateInv
  <1> QED
    BY <1>10, <1>13, <1>14, <1>15 DEF StateInv

(* What is left of an LP's saved states.                                   *)
IsCut(c, q, m, n) ==
    /\ c # <<>> /\ Last(c) = q[n]
    /\ \A i \in DOMAIN c : \E k \in m .. n : k \in DOMAIN q /\ c[i] = q[k]
    /\ \A i \in DOMAIN c : c[i].state \in Seq(TraceOf)
    /\ \A i, j \in DOMAIN c : i < j => Before(c[i].event, c[j].event)

LEMMA StatesCut ==
  ASSUME EngineInv, StateInv, NEW lp \in LP, NEW m \in 1 .. Len(state_queue[lp]),
         NEW n \in m .. Len(state_queue[lp])
  PROVE  IsCut(SubSeq(state_queue[lp], m, n), state_queue[lp], m, n)
  <1> DEFINE q == state_queue[lp]
  <1>0. PICK c : c = SubSeq(state_queue[lp], m, n)
    OBVIOUS
  <1>1. PICK Q : Q = {q[i] : i \in DOMAIN q}
    OBVIOUS
  <1>2. /\ q \in Seq(Q) /\ Len(q) \in Nat /\ DOMAIN q = 1 .. Len(q)
        /\ \A i \in DOMAIN q : q[i].state \in Seq(TraceOf)
    BY <1>1, SavedFacts
  <1>3. \A i, j \in DOMAIN q : i < j => Before(q[i].event, q[j].event)
    BY DEF StateInv, StateOK
  <1> HIDE DEF q
  <1>4. /\ m \in Nat /\ n \in Nat /\ m >= 1 /\ m <= n /\ n <= Len(q)
        /\ m \in 1 .. Len(q) + 1 /\ n \in m - 1 .. Len(q)
    BY <1>2 DEF q
  <1>5. /\ c \in Seq(Q) /\ Len(c) = n - (m - 1)
        /\ \A i \in DOMAIN c : i \in Nat /\ i + (m - 1) \in m .. n /\ c[i] = q[i + (m - 1)]
    <2>1. c = SubSeq(q, m, n)
      BY <1>0 DEF q
    <2>2. q \in Seq(Q) /\ m \in 1 .. Len(q) + 1 /\ n \in m - 1 .. Len(q)
      BY <1>2, <1>4
    <2>3. /\ SubSeq(q, m, n) \in Seq(Q) /\ Len(SubSeq(q, m, n)) = n - (m - 1)
          /\ \A i \in DOMAIN SubSeq(q, m, n) :
                i \in Nat /\ i + (m - 1) \in m .. n /\ SubSeq(q, m, n)[i] = q[i + (m - 1)]
      BY <2>2, SubSeqFacts
    <2> QED
      BY <2>1, <2>3
  <1>6. DOMAIN c = 1 .. Len(c) /\ Len(c) \in Nat
    BY <1>5
  <1>7. c # <<>> /\ Last(c) = q[n]
    <2>1. Len(c) \in DOMAIN c /\ Len(c) + (m - 1) = n
      BY <1>4, <1>5, <1>6
    <2>2. c # <<>>
      BY <1>6, <2>1
    <2> QED
      BY <1>5, <2>1, <2>2 DEF Last
  <1>8. \A i \in DOMAIN c : i + (m - 1) \in DOMAIN q
    BY <1>2, <1>4, <1>5
  <1>9. ASSUME NEW i \in DOMAIN c, NEW j \in DOMAIN c, i < j
        PROVE  Before(c[i].event, c[j].event)
    <2>1. i + (m - 1) < j + (m - 1)
      BY <1>4, <1>5, <1>9
    <2> QED
      BY <1>3, <1>5, <1>8, <2>1
  <1>10. /\ \A i \in DOMAIN c : \E k \in m .. n : k \in DOMAIN q /\ c[i] = q[k]
         /\ \A i \in DOMAIN c : c[i].state \in Seq(TraceOf)
    BY <1>2, <1>5, <1>8
  <1> QED
    BY <1>0, <1>7, <1>9, <1>10 DEF q, IsCut

LEMMA RollbackStates ==
  ASSUME EngineInv, EngineInv', StateInv, NEW t \in Worker, Rollback(t)
  PROVE  StateInv'
  <1>1. PICK lp : lp = held[t].recv
    OBVIOUS
  <1> DEFINE e == held[t]
             q == state_queue[lp]
             events == [i \in DOMAIN q |-> q[i].event]
             n == KeptBy(events, e)
  <1>2. /\ pc[t] = "rollback"
        /\ rollback(lp, e)
        /\ n > 0
        /\ state_queue' = [state_queue EXCEPT ![lp] = SubSeq(q, 1, n)]
        /\ state' = [state EXCEPT ![lp] = q[n].state]
        /\ pc' = [pc EXCEPT ![t] = "cancelEvents"]
        /\ UNCHANGED <<held, gvt>>
    BY <1>1 DEF Rollback, restoreState, Goto
  <1>3. /\ lp \in LP /\ pc[t] \in Handling /\ pc[Master] = "running" /\ t # Master
        /\ e # NoEvent /\ gvt \in Nat /\ e \in Event
    BY <1>1, <1>2, Engaged DEF Handling
  <1>4. /\ pc'[t] = "cancelEvents" /\ pc'[Master] = "running"
        /\ \A u \in Worker : u # t => pc'[u] = pc[u] /\ held'[u] = held[u]
        /\ held'[t] = held[t] /\ gvt' \in Nat /\ gvt <= gvt'
    BY <1>2, <1>3, MasterIsNoWorker DEF EngineInv, EngineTypeOK
  <1>5. /\ JustReceived(lp) = {} /\ JustReceived(lp)' = {}
        /\ ~ InPast(lp) /\ InPast(lp)'
        /\ \A l : l # lp => JustReceived(l)' = JustReceived(l) /\ InPast(l)' = InPast(l)
    <2>1. pc[t] = "rollback"
      BY <1>2
    <2> HIDE DEF e
    <2> QED
      BY <1>1, <1>3, <1>4, <2>1, WorkerReceived DEF e
  <1>6. /\ Len(q) \in Nat /\ DOMAIN q = 1 .. Len(q)
        /\ \A i \in DOMAIN q : q[i].event \in Event /\ q[i].state \in Seq(TraceOf)
    BY <1>3, SavedFacts
  <1>7. events \in Seq(Event) /\ Len(events) = Len(q) /\ \A i \in 1 .. Len(q) : events[i] = q[i].event
    <2> HIDE DEF q
    <2> QED
      BY <1>6
  <1>8. /\ \A l \in LP : l # lp => processed_queue'[l] = processed_queue[l]
        /\ \A f \in Processed(lp) : Before(f, e) => f \in Processed(lp)'
    <2>1. IInv
      BY DEF EngineInv
    <2>2. PICK f \in Event : f = e
      BY <1>3
    <2> QED
      BY <1>2, <1>3, <2>1, <2>2, WhatIsUndone
  <1> HIDE DEF events
  <1>9. n \in 0 .. Len(q) /\ (n > 0 => Before(events[n], e))
    BY <1>3, <1>7, KeptByIsDefined
  <1> HIDE DEF n
  <1>10. n \in 1 .. Len(q) /\ 1 \in 1 .. Len(q) /\ n \in DOMAIN q /\ Before(q[n].event, e)
    BY <1>2, <1>6, <1>7, <1>9
  <1>11. PICK c : /\ c = SubSeq(q, 1, n)
                  /\ c # <<>> /\ Last(c) = q[n]
                  /\ \A i \in DOMAIN c : \E k \in 1 .. n : k \in DOMAIN q /\ c[i] = q[k]
                  /\ \A i \in DOMAIN c : c[i].state \in Seq(TraceOf)
                  /\ \A i, j \in DOMAIN c : i < j => Before(c[i].event, c[j].event)
    <2>1. lp \in LP /\ 1 \in 1 .. Len(q) /\ n \in 1 .. Len(q)
      BY <1>3, <1>10
    <2>2. IsCut(SubSeq(q, 1, n), q, 1, n)
      BY <2>1, StatesCut
    <2> QED
      BY <2>2 DEF IsCut
  <1>13. /\ state_queue'[lp] = c /\ state'[lp] = q[n].state
         /\ \A l \in LP : l # lp => state_queue'[l] = state_queue[l] /\ state'[l] = state[l]
         /\ state' \in [LP -> Seq(TraceOf)]
    BY <1>2, <1>3, <1>6, <1>10, <1>11 DEF EngineInv, EngineTypeOK, StateInv
  <1>14. \A k \in 1 .. n : Before(q[k].event, e)
    <2> SUFFICES ASSUME NEW k \in 1 .. n PROVE Before(q[k].event, e)
      OBVIOUS
    <2>1. k \in DOMAIN q /\ (k = n \/ k < n)
      BY <1>6, <1>10
    <2>2. k < n => Before(q[k].event, q[n].event)
      BY <1>3, <1>10, <2>1 DEF StateInv, StateOK
    <2> QED
      BY <1>3, <1>6, <1>10, <2>1, <2>2, BeforeIsStrictOrder
  <1>15. ASSUME NEW i \in DOMAIN c
         PROVE  \/ c[i].event = InitialEvent
                \/ c[i].event \in Processed(lp)' \cup JustReceived(lp)'
                \/ c[i].event.ts < gvt'
    <2>1. PICK k \in 1 .. n : k \in DOMAIN q /\ c[i] = q[k]
      BY <1>11
    <2>3. \/ q[k].event = InitialEvent
          \/ q[k].event \in Processed(lp)
          \/ q[k].event.ts < gvt
      BY <1>3, <1>5, <2>1 DEF StateInv, StateOK
    <2> QED
      BY <1>2, <1>8, <1>14, <2>1, <2>3
  <1>16. StateOK(lp)'
    BY <1>5, <1>11, <1>13, <1>15 DEF StateOK
  <1>17. \A l \in LP : l # lp => StateOK(l)'
    BY <1>3, <1>4, <1>5, <1>8, <1>13, StateStands DEF StateInv
  <1> QED
    BY <1>13, <1>16, <1>17 DEF StateInv

LEMMA FossilCollectStates ==
  ASSUME EngineInv, EngineInv', StateInv, NEW t \in Worker, FossilCollect(t)
  PROVE  StateInv'
  <1>1. PICK lp : lp = held[t].recv
    OBVIOUS
  <1> DEFINE e == held[t]
             q == state_queue[lp]
             p == processed_queue[lp]
             first == FirstKept(q, gvt)
             saved == Last(q)
  <1>2. /\ pc[t] = "sendEvents"
        /\ pc' = [pc EXCEPT ![t] = "replenish"]
        /\ UNCHANGED <<held, state, gvt>>
    BY <1>1 DEF FossilCollect, Goto
  <1>3. /\ lp \in LP /\ pc[t] \in Handling /\ pc[Master] = "running" /\ t # Master
        /\ e # NoEvent /\ gvt \in Nat /\ e \in Event /\ e.ts < Infinity /\ e.ts >= gvt
        /\ e.ts \in Nat
    BY <1>1, <1>2, Engaged DEF Handling
  <1>4. /\ pc'[t] = "replenish" /\ pc'[Master] = "running"
        /\ \A u \in Worker : u # t => pc'[u] = pc[u] /\ held'[u] = held[u]
        /\ held'[t] = held[t] /\ gvt' \in Nat /\ gvt <= gvt'
    BY <1>2, <1>3, MasterIsNoWorker DEF EngineInv, EngineTypeOK
  <1>5. /\ JustReceived(lp) = {e} /\ JustReceived(lp)' = {e}
        /\ ~ InPast(lp) /\ ~ InPast(lp)'
        /\ \A l : l # lp => JustReceived(l)' = JustReceived(l) /\ InPast(l)' = InPast(l)
    <2>1. pc[t] = "sendEvents"
      BY <1>2
    <2> HIDE DEF e
    <2> QED
      BY <1>1, <1>3, <1>4, <2>1, WorkerReceived DEF e
  <1>6. /\ q # <<>> /\ Len(q) \in Nat /\ DOMAIN q = 1 .. Len(q)
        /\ Len(q) \in DOMAIN q /\ saved = q[Len(q)]
        /\ \A i \in DOMAIN q : q[i].event \in Event /\ q[i].event.ts \in Nat
        /\ p \in Seq(Event) /\ DOMAIN p = 1 .. Len(p) /\ Len(p) \in Nat
    BY <1>3, SavedFacts
  <1>7. \A i, j \in DOMAIN q : i < j => Before(q[i].event, q[j].event)
    BY <1>3 DEF StateInv, StateOK
  <1>8. first \in 1 .. Len(q) /\ \A i \in 2 .. first : q[i].event.ts < gvt
    <2>1. PICK Q : q \in Seq(Q)
      BY <1>3, SavedFacts
    <2> HIDE DEF q
    <2> QED
      BY <1>3, <1>6, <2>1, FirstKeptIsDefined
  <1>9. CASE ~ (gvt > last_fossil_collect_gvt[lp])
    <2>1. UNCHANGED <<processed_queue, state_queue>>
      BY <1>1, <1>9 DEF FossilCollect, queues
    <2>2. \A l \in LP : JustReceived(l)' = JustReceived(l) /\ InPast(l)' = InPast(l)
      <3>1. InPast(lp)' = InPast(lp)
        BY <1>5 DEF InPast
      <3> QED
        BY <1>5, <3>1
    <2> QED
      BY <1>2, <1>3, <1>4, <2>1, <2>2, StatesStand
  <1>10. CASE gvt > last_fossil_collect_gvt[lp]
    <2>0. PICK time : time = q[first].event.ts
      OBVIOUS
    <2>1. /\ state_queue' = [state_queue EXCEPT ![lp] = SubSeq(q, first, Len(q))]
          /\ fossilCollect(lp, time)
      BY <1>1, <1>10, <2>0 DEF FossilCollect, fossilCollectAll
    <2> HIDE DEF first
    <2>2. /\ time \in Nat /\ time # Infinity /\ time <= gvt
          /\ q[first].event = InitialEvent \/ time < gvt
      <3>1. first \in DOMAIN q /\ time \in Nat
        BY <1>6, <1>8, <2>0
      <3>2. q[1].event = InitialEvent \/ q[1].event.ts < gvt
        BY <1>3, <1>6 DEF EngineInv, FirstStateIsOld
      <3>3. q[first].event = InitialEvent \/ time < gvt
        BY <1>8, <2>0, <3>1, <3>2
      <3>4. time <= gvt
        BY <1>3, <2>0, <3>1, <3>3 DEF InitialEvent
      <3> QED
        BY <1>3, <3>1, <3>3, <3>4, MessageAssumption
    <2>3. \A i \in first .. Len(q) : i \in DOMAIN q /\ time <= q[i].event.ts
      <3> SUFFICES ASSUME NEW i \in first .. Len(q)
                   PROVE  i \in DOMAIN q /\ time <= q[i].event.ts
        OBVIOUS
      <3>1. i \in DOMAIN q /\ first \in DOMAIN q /\ (i = first \/ first < i)
        BY <1>6, <1>8
      <3>2. q[i].event \in Event /\ q[first].event \in Event
            /\ q[i].event.ts \in Nat /\ q[first].event.ts \in Nat
        BY <1>6, <3>1
      <3>3. first < i => Before(q[first].event, q[i].event)
        BY <1>7, <3>1
      <3> QED
        BY <2>0, <3>1, <3>2, <3>3 DEF Before
    <2>4. PICK k \in 0 .. Len(p) :
             /\ \A i \in 1 .. k : p[i].ts < time
             /\ processed_queue' = [processed_queue EXCEPT ![lp] = SubSeq(p, k + 1, Len(p))]
      <3>1. /\ CollectedBy(p, time) \in 0 .. Len(p)
            /\ \A i \in 1 .. CollectedBy(p, time) : p[i].ts < time
        BY <1>6, <2>2, CollectedByIsDefined
      <3>2. processed_queue' = [processed_queue EXCEPT
                                  ![lp] = SubSeq(p, CollectedBy(p, time) + 1, Len(p))]
        BY <2>1, <2>2 DEF fossilCollect
      <3> QED
        BY <3>1, <3>2
    <2>5. /\ processed_queue'[lp] = SubSeq(p, k + 1, Len(p))
          /\ \A l \in LP : l # lp => processed_queue'[l] = processed_queue[l]
      BY <1>3, <2>4 DEF EngineInv, IInv, TypeOK
    <2>6. PICK c : /\ c = SubSeq(q, first, Len(q)) /\ IsCut(c, q, first, Len(q))
                   /\ state_queue'[lp] = c
                   /\ \A l \in LP : l # lp => state_queue'[l] = state_queue[l]
      <3>1. lp \in LP /\ first \in 1 .. Len(q) /\ Len(q) \in first .. Len(q)
        BY <1>3, <1>6, <1>8
      <3>2. IsCut(SubSeq(q, first, Len(q)), q, first, Len(q))
        BY <3>1, StatesCut
      <3> QED
        BY <1>3, <2>1, <3>2 DEF EngineInv, EngineTypeOK
    <2>7. /\ c # <<>> /\ Last(c) = saved
          /\ \A i \in DOMAIN c : \E j \in first .. Len(q) : j \in DOMAIN q /\ c[i] = q[j]
          /\ \A i \in DOMAIN c : c[i].state \in Seq(TraceOf)
          /\ \A i, j \in DOMAIN c : i < j => Before(c[i].event, c[j].event)
      BY <1>6, <2>6 DEF IsCut
    <2>8. \A f \in Processed(lp) : f.ts >= time => f \in Processed(lp)'
      <3>1. fossilCollect(lp, time) /\ time \in Nat /\ time # Infinity
        BY <2>1, <2>2
      <3> QED
        BY <1>3, <3>1, CollectKeeps DEF EngineInv
    <2>9. ASSUME NEW i \in DOMAIN c
          PROVE  \/ c[i].event = InitialEvent
                 \/ c[i].event \in Processed(lp)' \cup JustReceived(lp)'
                 \/ c[i].event.ts < gvt'
      <3>1. PICK j \in first .. Len(q) : j \in DOMAIN q /\ c[i] = q[j]
        BY <2>7
      <3>2. \/ q[j].event = InitialEvent
            \/ q[j].event \in Processed(lp) \cup JustReceived(lp)
            \/ q[j].event.ts < gvt
        BY <1>3, <3>1 DEF StateInv, StateOK
      <3>3. time <= q[j].event.ts /\ q[j].event.ts \in Nat
        BY <1>6, <2>3, <3>1
      <3>4. q[j].event \in Processed(lp) => q[j].event \in Processed(lp)'
        BY <2>2, <2>8, <3>3
      <3> QED
        BY <1>2, <1>5, <3>1, <3>2, <3>4
    <2>10. Reproduced(lp)'
      <3>1. PICK last : last = saved
        OBVIOUS
      <3>2. /\ last.event \in Event /\ last.event.ts \in Nat /\ time <= last.event.ts
        <4>1. Len(q) \in first .. Len(q)
          BY <1>6, <1>8
        <4> QED
          BY <1>6, <2>3, <3>1, <4>1
      <3>3. \A i \in 1 .. k : ~ After(p[i], last.event)
        <4> SUFFICES ASSUME NEW i \in 1 .. k PROVE ~ After(p[i], last.event)
          OBVIOUS
        <4>1. p[i] \in Event /\ p[i].ts < time
          BY <1>6, <2>4
        <4>2. p[i].ts \in Nat
          BY <4>1 DEF Event
        <4>3. ~ Before(last.event, p[i])
          BY <2>2, <3>2, <4>1, <4>2 DEF Before
        <4> QED
          BY <3>2, <4>1, <4>3, BeforeIsTotal
      <3>4. Replay(SubSeq(p, k + 1, Len(p)), last.event) = Replay(p, last.event)
        BY <1>6, <2>4, <3>3, ReplayCollected
      <3>5. getEventsForCoastForward(lp, last.event)' = getEventsForCoastForward(lp, last.event)
        BY <2>5, <3>4 DEF getEventsForCoastForward, Replay
      <3>6. Last(state_queue'[lp]) = last /\ Last(state_queue[lp]) = last
        BY <2>6, <2>7, <3>1
      <3>7. Reproduced(lp)
        BY <1>3, <1>5, <1>6 DEF StateInv, StateOK
      <3>8. JustReceived(lp)' = JustReceived(lp)
        BY <1>5
      <3> QED
        BY <1>2, <3>5, <3>6, <3>7, <3>8 DEF Reproduced
    <2>11. StateOK(lp)'
      BY <1>5, <2>6, <2>7, <2>9, <2>10 DEF StateOK
    <2>12. \A l \in LP : l # lp => StateOK(l)'
      BY <1>2, <1>3, <1>4, <1>5, <2>5, <2>6, StateStands DEF StateInv
    <2> QED
      BY <1>2, <2>11, <2>12 DEF StateInv
  <1> QED
    BY <1>9, <1>10

(* What Append does, index by index.                                       *)
LEMMA AppendFacts ==
  ASSUME NEW S, NEW r \in Seq(S), NEW e \in S
  PROVE  /\ Append(r, e) \in Seq(S) /\ Len(Append(r, e)) = Len(r) + 1
         /\ \A i \in 1 .. Len(r) : i \in DOMAIN Append(r, e) /\ Append(r, e)[i] = r[i]
         /\ Len(r) + 1 \in DOMAIN Append(r, e) /\ Append(r, e)[Len(r) + 1] = e
         /\ DOMAIN Append(r, e) = 1 .. Len(r) + 1
  OBVIOUS

LEMMA ReplenishStates ==
  ASSUME EngineInv, EngineInv', StateInv, NEW t \in Worker, ReplenishScheduler(t)
  PROVE  StateInv'
  <1>1. PICK lp : lp = held[t].recv
    OBVIOUS
  <1>2. PICK e : e = held[t]
    OBVIOUS
  <1> DEFINE q == state_queue[lp]
             p == processed_queue[lp]
             saved == Last(q)
  <1>3. /\ pc[t] = "replenish"
        /\ replenishScheduler(lp)
        /\ held' = [held EXCEPT ![t] = NoEvent]
        /\ pc' = [pc EXCEPT ![t] = "getEvent"]
        /\ UNCHANGED <<state, state_queue, gvt>>
    BY <1>1 DEF ReplenishScheduler, Goto, lpVars
  <1>4. /\ lp \in LP /\ pc[t] \in Handling /\ pc[Master] = "running" /\ t # Master
        /\ e # NoEvent /\ gvt \in Nat /\ e \in Event /\ e = scheduled_event_pointer[lp]
    BY <1>1, <1>2, <1>3, Engaged DEF Handling
  <1>5. /\ pc'[t] = "getEvent" /\ pc'[Master] = "running"
        /\ \A u \in Worker : u # t => pc'[u] = pc[u] /\ held'[u] = held[u]
        /\ held'[t] = NoEvent /\ gvt' \in Nat /\ gvt <= gvt'
    BY <1>3, <1>4, MasterIsNoWorker DEF EngineInv, EngineTypeOK, IInv, TypeOK
  <1>6. /\ JustReceived(lp) = {e} /\ JustReceived(lp)' = {}
        /\ ~ InPast(lp) /\ ~ InPast(lp)'
        /\ \A l : l # lp => JustReceived(l)' = JustReceived(l) /\ InPast(l)' = InPast(l)
    <2>1. pc[t] = "replenish"
      BY <1>3
    <2>2. pc[t] \in Handling /\ lp = held[t].recv /\ held'[t] = NoEvent
      BY <1>1, <1>4, <1>5
    <2>3. /\ JustReceived(lp) = IF pc[t] \in {"sendEvents", "replenish"} THEN {held[t]} ELSE {}
          /\ JustReceived(lp)' = IF held'[t] # NoEvent /\ pc'[t] \in {"sendEvents", "replenish"}
                                 THEN {held[t]} ELSE {}
          /\ InPast(lp) <=> pc[t] = "cancelEvents"
          /\ InPast(lp)' <=> held'[t] # NoEvent /\ pc'[t] = "cancelEvents"
          /\ \A l : l # lp => JustReceived(l)' = JustReceived(l) /\ InPast(l)' = InPast(l)
      BY <1>5, <2>2, WorkerReceived
    <2> QED
      BY <1>2, <2>1, <2>2, <2>3
  <1>7. /\ q # <<>> /\ Len(q) \in DOMAIN q /\ saved = q[Len(q)] /\ saved.event \in Event
        /\ saved.state \in Seq(TraceOf)
        /\ p \in Seq(Event) /\ DOMAIN p = 1 .. Len(p) /\ Len(p) \in Nat
    BY <1>4, SavedFacts
  <1>8. /\ processed_queue'[lp] = Append(p, e)
        /\ \A l \in LP : l # lp => processed_queue'[l] = processed_queue[l]
    BY <1>3, <1>4 DEF replenishScheduler, EngineInv, IInv, TypeOK
  <1>9. PICK a : /\ a = Append(p, e) /\ a \in Seq(Event) /\ Len(a) = Len(p) + 1
                 /\ \A i \in 1 .. Len(p) : i \in DOMAIN a /\ a[i] = p[i]
                 /\ Len(p) + 1 \in DOMAIN a /\ a[Len(p) + 1] = e
                 /\ DOMAIN a = 1 .. Len(p) + 1
    <2>1. PICK r : r = p
      OBVIOUS
    <2>2. r \in Seq(Event) /\ e \in Event
      BY <1>4, <1>7, <2>1
    <2>3. PICK b : b = Append(r, e)
      OBVIOUS
    <2>4. /\ b \in Seq(Event) /\ Len(b) = Len(r) + 1
          /\ \A i \in 1 .. Len(r) : i \in DOMAIN b /\ b[i] = r[i]
          /\ Len(r) + 1 \in DOMAIN b /\ b[Len(r) + 1] = e
          /\ DOMAIN b = 1 .. Len(r) + 1
      BY <2>2, <2>3, AppendFacts
    <2>5. b = Append(p, e)
      BY <2>1, <2>3
    <2> HIDE DEF p
    <2> WITNESS b
    <2> QED
      BY <2>1, <2>4, <2>5
  <1>10. ~ IsStraggler(lp, e)
    BY <1>1, <1>2, <1>3 DEF EngineInv, WorkersInStep, InStep, Handling
  <1>11. \A f \in Processed(lp) \cup JustReceived(lp) : f \in Processed(lp)'
    BY <1>6, <1>7, <1>8, <1>9 DEF Processed
  <1>12. PICK last : last = saved
    OBVIOUS
  <1>13. Reproduced(lp)
    BY <1>4, <1>6, <1>7 DEF StateInv, StateOK
  <1>14. getEventsForCoastForward(lp, last.event) = Replay(p, last.event)
    BY DEF getEventsForCoastForward, Replay
  <1>15. getEventsForCoastForward(lp, last.event)' = Replay(a, last.event)
    BY <1>8, <1>9 DEF getEventsForCoastForward, Replay
  <1>16. PICK s : s = Replay(p, last.event)
    OBVIOUS
  <1>17. s \in Seq(Event)
    BY <1>7, <1>16, ReplayFacts
  <1>18. state[lp] = NextStates(last.state, Replay(a, last.event))
    <2>1. CASE After(e, last.event)
      <3>1. Replay(a, last.event) = Append(s, e)
        BY <1>4, <1>7, <1>9, <1>16, <2>1, ReplayAppends
      <3>2. {f \in JustReceived(lp) : After(f, last.event)} = {e}
        BY <1>6, <2>1
      <3>3. (CHOOSE f \in {e} : TRUE) = e /\ {e} # {}
        OBVIOUS
      <3>4. state[lp] = NextState(NextStates(last.state, s), e)
        BY <1>12, <1>13, <1>14, <1>16, <3>2, <3>3 DEF Reproduced
      <3>5. last.state \in Seq(TraceOf)
        BY <1>7, <1>12
      <3>6. NextStates(last.state, Append(s, e)) = NextState(NextStates(last.state, s), e)
        BY <1>4, <1>17, <3>5, NextStatesFacts
      <3> QED
        BY <3>1, <3>4, <3>6
    <2>2. CASE ~ After(e, last.event)
      <3>1. \A i \in 1 .. Len(p) : ~ After(p[i], last.event)
        <4> SUFFICES ASSUME NEW i \in 1 .. Len(p) PROVE ~ After(p[i], last.event)
          OBVIOUS
        <4>1. p[i] \in Processed(lp) /\ p[i] \in Event
          BY <1>7 DEF Processed
        <4>2. ~ Before(e, p[i])
          BY <1>4, <1>10, <4>1, NothingProcessedIsLater DEF EngineInv
        <4>3. last.event \in Event /\ ~ Before(last.event, e)
          BY <1>4, <1>7, <1>12, <2>2, BeforeIsTotal
        <4>4. ~ Before(last.event, p[i])
          BY <1>4, <4>1, <4>2, <4>3, NotAfterBefore
        <4> QED
          BY <4>1, <4>3, <4>4, BeforeIsTotal
      <3>2. s = <<>>
        BY <1>7, <1>16, <3>1, ReplayNothing
      <3>3. \A i \in 1 .. Len(a) : ~ After(a[i], last.event)
        <4> SUFFICES ASSUME NEW i \in 1 .. Len(a) PROVE ~ After(a[i], last.event)
          OBVIOUS
        <4>1. i \in 1 .. Len(p) \/ i = Len(p) + 1
          BY <1>7, <1>9
        <4> QED
          BY <1>9, <2>2, <3>1, <4>1
      <3>4. Replay(a, last.event) = <<>>
        BY <1>9, <3>3, ReplayNothing
      <3>5. {f \in JustReceived(lp) : After(f, last.event)} = {}
        BY <1>6, <2>2
      <3>6. state[lp] = NextStates(last.state, s)
        BY <1>12, <1>13, <1>14, <1>16, <3>5 DEF Reproduced
      <3> QED
        BY <3>2, <3>4, <3>6
    <2> QED
      BY <2>1, <2>2
  <1>19. Reproduced(lp)'
    <2>1. {f \in JustReceived(lp)' : After(f, last.event)} = {}
      BY <1>6
    <2>2. Last(state_queue'[lp]) = last
      BY <1>3, <1>12
    <2> QED
      BY <1>3, <1>15, <1>18, <2>1, <2>2 DEF Reproduced
  <1>20. StateOK(lp)'
    <2>1. /\ \A i \in DOMAIN q : q[i].state \in Seq(TraceOf)
          /\ \A i, j \in DOMAIN q : i < j => Before(q[i].event, q[j].event)
          /\ \A i \in DOMAIN q : \/ q[i].event = InitialEvent
                                 \/ q[i].event \in Processed(lp)'
                                 \/ q[i].event.ts < gvt'
      BY <1>3, <1>4, <1>11 DEF StateInv, StateOK
    <2> QED
      BY <1>3, <1>6, <1>19, <2>1 DEF StateOK
  <1>21. \A l \in LP : l # lp => StateOK(l)'
    BY <1>3, <1>4, <1>5, <1>6, <1>8, StateStands DEF StateInv
  <1> QED
    BY <1>3, <1>20, <1>21 DEF StateInv

LEMMA FinalCollectStates ==
  ASSUME EngineInv, EngineInv', StateInv, NEW c \in LP, FinalCollect(c)
  PROVE  StateInv'
  <1>1. /\ pc[Master] = "terminated"
        /\ UNCHANGED <<held, pc, state, state_queue, gvt>>
    BY DEF FinalCollect, lpVars
  <1>2. \A lp \in LP : JustReceived(lp)' = JustReceived(lp) /\ InPast(lp)' = InPast(lp)
    BY <1>1, WorkersRest
  <1>3. ASSUME NEW lp \in LP PROVE StateOK(lp)'
    <2> DEFINE q == state_queue[lp]
    <2>1. /\ \A i \in DOMAIN q : q[i].state \in Seq(TraceOf)
          /\ \A i, j \in DOMAIN q : i < j => Before(q[i].event, q[j].event)
          /\ InPast(lp) => state[lp] = Last(q).state
      BY DEF StateInv, StateOK
    <2> QED
      BY <1>1, <1>2, <2>1 DEF StateOK
  <1> QED
    BY <1>1, <1>3 DEF StateInv

LEMMA StutterStates ==
  ASSUME EngineInv, EngineInv', StateInv, UNCHANGED <<engineVars, History>>
  PROVE  StateInv'
  <1>1. /\ UNCHANGED <<state, state_queue, processed_queue, pc, held, gvt>>
        /\ gvt \in Nat
    BY DEF engineVars, lpVars, queues, EngineInv, EngineTypeOK
  <1>2. \A lp \in LP : JustReceived(lp)' = JustReceived(lp) /\ InPast(lp)' = InPast(lp)
    BY <1>1, WorkersRest
  <1> QED
    BY <1>1, <1>2, StatesStand

LEMMA StateInit ==
  HistoryInit => StateInv
  <1> SUFFICES ASSUME HistoryInit PROVE StateInv
    OBVIOUS
  <1>1. /\ held = [t \in Worker |-> NoEvent]
        /\ state = [lp \in LP |-> <<>>]
        /\ state_queue = [lp \in LP |-> <<>>]
    BY DEF HistoryInit, Init, InitialState
  <1>2. ASSUME NEW lp \in LP PROVE StateOK(lp)
    <2>1. state_queue[lp] = <<>> /\ DOMAIN state_queue[lp] = {}
      BY <1>1
    <2>2. ~ InPast(lp)
      BY <1>1 DEF InPast, HandledBy
    <2> QED
      BY <2>1, <2>2 DEF StateOK
  <1>3. state \in [LP -> Seq(TraceOf)]
    BY <1>1
  <1> QED
    BY <1>2, <1>3 DEF StateInv

LEMMA StateStep ==
  ASSUME EngineInv, EngineInv', StateInv, [HistoryStep]_<<engineVars, History>>
  PROVE  StateInv'
  <1>1. CASE UNCHANGED <<engineVars, History>>
    BY <1>1, StutterStates
  <1>2. CASE HistoryStep
    <2>1. EngineNext
      BY <1>2 DEF HistoryStep
    <2>2. CASE \E t \in Worker : WorkerStep(t)
      <3>1. PICK t \in Worker : WorkerStep(t)
        BY <2>2
      <3>2. t \in Thread
        BY MasterIsNoWorker
      <3>3. CASE \/ \E event \in Pending : GetEvent(t, event)
                 \/ SendAntiMessage(t) \/ CancelEvent(t) \/ SendEvent(t)
        BY <1>2, <3>2, <3>3, QuietStates
      <3>4. CASE Rollback(t)
        BY <3>4, RollbackStates
      <3>5. CASE CoastForward(t)
        BY <3>5, CoastForwardStates
      <3>6. CASE ReceiveEvent(t)
        BY <3>6, ReceiveEventStates
      <3>7. CASE FossilCollect(t)
        BY <3>7, FossilCollectStates
      <3>8. CASE ReplenishScheduler(t)
        BY <3>8, ReplenishStates
      <3> QED
        BY <3>1, <3>3, <3>4, <3>5, <3>6, <3>7, <3>8 DEF WorkerStep
    <2>3. CASE \E lp \in LP : InitializeLP(lp)
      BY <2>3, InitializeLPStates
    <2>4. CASE SendEvent(Master) \/ StartWorkers \/ ReceiveStep \/ Terminate
      <3>1. Master \in Thread
        BY MasterIsNoWorker
      <3> QED
        BY <1>2, <2>4, <3>1, QuietStates
    <2>5. CASE \E lp \in LP : FinalCollect(lp)
      BY <2>5, FinalCollectStates
    <2>6. CASE \E time \in GvtTimes : AdvanceGVT(time)
      BY <1>2, <2>6, QuietStates
    <2> QED
      BY <2>1, <2>2, <2>3, <2>4, <2>5, <2>6 DEF EngineNext, MasterStep
  <1> QED
    BY <1>1, <1>2

(* Whatever state period, rollbacks and fossil collections an LP has been  *)
(* through, its newest saved state and the events still in its processed   *)
(* queue reproduce its state.                                              *)
THEOREM StateIsReproduced ==
  ASSUME ModelIsCausal, MessageIsAll
  PROVE  HistorySpec => []StateIsReproducible
  <1>1. HistoryInit => StateInv
    BY StateInit
  <1>2. EngineInv /\ EngineInv' /\ StateInv /\ [HistoryNext]_<<vars, History>> => StateInv'
    BY StateStep, StepOrAbort
  <1>3. StateInv => StateIsReproducible
    BY DEF StateInv, StateOK, StateIsReproducible
  <1>4. HistorySpec => []EngineInv
    BY EngineInvariance
  <1> QED
    BY <1>1, <1>2, <1>3, <1>4, PTL DEF HistorySpec
=============================================================================
