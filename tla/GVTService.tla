----------------------------- MODULE GVTService -----------------------------
(***************************************************************************)
(* What the engine and the GVT managers promise each other.  The engine:   *)
(* work comes from work, so whatever becomes pending, is sent or is put    *)
(* back by a rollback is not earlier than something outstanding before.    *)
(* The manager: the GVT of a node never goes back and never passes what is *)
(* outstanding on any node (setGvt, and the assertion of rollback that no  *)
(* event goes back past the GVT).                                          *)
(***************************************************************************)
EXTENDS Integers

CONSTANT Nodes

VARIABLES outstanding,   \* receive times of the events pending or on their way
          gvt            \* the GVT of each node

vars == <<outstanding, gvt>>

Init == /\ outstanding \in SUBSET Nat
        /\ gvt = [n \in Nodes |-> 0]

(* Events are processed, sent, received, cancelled or rolled back.         *)
Work == /\ outstanding' \in SUBSET Nat
        /\ \A t \in outstanding' \ outstanding : \E s \in outstanding : s <= t
        /\ UNCHANGED gvt

(* Some nodes set their GVT.                                               *)
Advance == /\ gvt' \in [Nodes -> Nat]
           /\ \A n \in Nodes : /\ gvt'[n] >= gvt[n]
                               /\ gvt'[n] # gvt[n] =>
                                      \A t \in outstanding : gvt'[n] <= t
           /\ UNCHANGED outstanding

Next == Work \/ Advance

Spec == Init /\ [][Next]_vars

-----------------------------------------------------------------------------
(* Properties.                                                             *)

(* No event earlier than a node's GVT will ever be processed again: what   *)
(* was committed stays committed (fossilCollect frees it for good).        *)
GVTIsLowerBound == \A n \in Nodes : \A t \in outstanding : gvt[n] <= t

(* A time that all work has passed is never come back to: neither the GVT  *)
(* nor a straggler or rollback makes work before it.                       *)
NothingComesBack ==
    [][\A time \in Nat : (\A t \in outstanding : time <= t)
                            => \A t \in outstanding' : time <= t]_vars
=============================================================================
