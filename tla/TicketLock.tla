------------------------------ MODULE TicketLock ------------------------------
(***************************************************************************)
(* The spin lock of the schedule queues (TicketLock.hpp): a thread draws a *)
(* ticket and spins until its number is called.  Both counters are         *)
(* unsigned and wrap around.                                               *)
(***************************************************************************)
EXTENDS Integers, FiniteSets

CONSTANTS Thread,
          Width   \* 2^32, the number of values of an unsigned int

(* There are not more threads than numbers.                                *)
EnoughTickets == /\ Width \in Nat \ {0}
                 /\ IsFiniteSet(Thread) /\ Cardinality(Thread) <= Width

VARIABLES ticket_, users_,
          me,   \* the ticket a thread has drawn
          pc    \* "idle", "spinning" or "locked"

vars == <<ticket_, users_, me, pc>>

FetchAdd(counter) == IF counter + 1 = Width THEN 0 ELSE counter + 1

Init == /\ ticket_ = 0 /\ users_ = 0
        /\ me = [t \in Thread |-> 0]
        /\ pc = [t \in Thread |-> "idle"]

(* lock draws a ticket ...                                                 *)
Draw(t) == /\ pc[t] = "idle"
           /\ me' = [me EXCEPT ![t] = users_]
           /\ users_' = FetchAdd(users_)
           /\ pc' = [pc EXCEPT ![t] = "spinning"]
           /\ UNCHANGED ticket_

(* ... and returns when it is called.                                      *)
Acquire(t) == /\ pc[t] = "spinning" /\ ticket_ = me[t]
              /\ pc' = [pc EXCEPT ![t] = "locked"]
              /\ UNCHANGED <<ticket_, users_, me>>

unlock(t) == /\ pc[t] = "locked"
             /\ ticket_' = FetchAdd(ticket_)
             /\ pc' = [pc EXCEPT ![t] = "idle"]
             /\ UNCHANGED <<users_, me>>

Next == \E t \in Thread : Draw(t) \/ Acquire(t) \/ unlock(t)

Spec == Init /\ [][Next]_vars

-----------------------------------------------------------------------------
(* Properties.                                                             *)

(* The schedule queue has one user at a time.                              *)
MutualExclusion == \A t, u \in Thread : pc[t] = "locked" /\ pc[u] = "locked" => t = u

(* The tickets called before t's is.                                       *)
Ahead(t) == IF me[t] >= ticket_ THEN me[t] - ticket_ ELSE me[t] + Width - ticket_

(* First come, first served: nobody is overtaken by who drew later, across *)
(* the wrap-around of the counters.                                        *)
NoOvertaking ==
    [][\A t, u \in Thread :
           pc[t] = "spinning" /\ pc[u] = "idle" /\ pc'[u] = "spinning" =>
               Ahead(t)' < Ahead(u)']_vars

(* The inductive invariant: the threads that have a ticket have different  *)
(* ones, the next ones to be called, and only the one called has the lock. *)
Queueing == {t \in Thread : pc[t] # "idle"}

Number == 0 .. Width - 1
After(number, n) == IF number + n < Width THEN number + n ELSE number + n - Width

TypeOK == /\ ticket_ \in Number /\ users_ \in Number
          /\ me \in [Thread -> Number]
          /\ pc \in [Thread -> {"idle", "spinning", "locked"}]

IInv == /\ TypeOK
        /\ users_ = After(ticket_, Cardinality(Queueing))
        /\ \A t \in Queueing : Ahead(t) < Cardinality(Queueing)
        /\ \A t, u \in Queueing : me[t] = me[u] => t = u
        /\ \A t \in Thread : pc[t] = "locked" => me[t] = ticket_
=============================================================================
