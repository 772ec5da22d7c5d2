----------------------------- MODULE WarpedEvent -----------------------------
(***************************************************************************)
(* Events of the simulation kernel and the orders the kernel sorts them by *)
(* (Event.hpp).  A name is a natural number: LPs are numbered from 1 in    *)
(* the alphabetical order of their names and 0 is the empty name that the  *)
(* initial event carries as its sender.                                    *)
(***************************************************************************)
EXTENDS Naturals

NEGATIVE == 0
POSITIVE == 1

Event == [ts     : Nat,                  \* timestamp(): receive time
          send   : Nat,                  \* send_time_
          sender : Nat,                  \* sender_name_
          gen    : Nat,                  \* generation_
          recv   : Nat,                  \* receiverName()
          type   : {NEGATIVE, POSITIVE}] \* event_type_

(* What stands in for a null std::shared_ptr<Event>.                       *)
NoEvent == [none |-> TRUE]

(* The anti-message of e: everything is copied except the type.            *)
NegativeEvent(e) == [e EXCEPT !.type = NEGATIVE]

PositiveEvent(e) == [e EXCEPT !.type = POSITIVE]

(* The event the initial state of every LP is saved under.                 *)
InitialEvent == [ts |-> 0, send |-> 0, sender |-> 0, gen |-> 0, recv |-> 0,
                 type |-> POSITIVE]

(* operator== : the type and the receiver are not compared.                *)
SameEvent(a, b) == /\ a.ts = b.ts
                   /\ a.send = b.send
                   /\ a.sender = b.sender
                   /\ a.gen = b.gen

(* operator< : receive time, send time, sender, generation.                *)
Before(a, b) ==
    \/ a.ts < b.ts
    \/ a.ts = b.ts /\ a.send < b.send
    \/ a.ts = b.ts /\ a.send = b.send /\ a.sender < b.sender
    \/ a.ts = b.ts /\ a.send = b.send /\ a.sender = b.sender /\ a.gen < b.gen

BeforeOrSame(a, b) == Before(a, b) \/ SameEvent(a, b)     \* operator<=
SameOrAfter(a, b)  == ~ Before(a, b)                      \* operator>=
After(a, b)        == ~ BeforeOrSame(a, b)                \* operator>

(* compareEvents, the order of the input and schedule queues: an           *)
(* anti-message comes immediately before the event it cancels.             *)
compareEvents(a, b) == Before(a, b) \/ (SameEvent(a, b) /\ a.type < b.type)

(* *begin() of a multiset sorted by compareEvents.                         *)
IsFirst(e, S) == e \in S /\ \A f \in S : f # e => compareEvents(e, f)
First(S)      == CHOOSE e \in S : IsFirst(e, S)

(* No two events of a queue are equal for its order.  The kernel numbers   *)
(* the events of a sender with its generation_ counter to achieve this.    *)
Distinct(S) == \A e, f \in S : SameEvent(e, f) /\ e.type = f.type => e = f
=============================================================================
