---------------------------- MODULE ScheduleQueue ----------------------------
(***************************************************************************)
(* The two data structures written to take the place of std::multiset as   *)
(* schedule queue, LadderQueue and SplayTree, as TimeWarpEventSet uses a   *)
(* schedule queue: it holds at most one event of an LP, a worker takes the *)
(* least, and insertEvent erases the event of an LP wherever it is, and    *)
(* even if a worker has taken it, to put an earlier one in its place.      *)
(* Each behaviour runs one of them next to the set of events that a sorted *)
(* set would hold.                                                         *)
(***************************************************************************)
EXTENDS Integers, FiniteSets

CONSTANTS Kinds,           \* of "ladder" and "splay"
          NumLPs, MaxTime, \* the events of the ladder queue
          NumEvents,       \* those of the splay tree, told by their addresses
          MAX_RUNG_CNT, THRESHOLD

Ladder == INSTANCE LadderQueue
Splay  == INSTANCE SplayTree WITH Addresses <- 1 .. NumEvents

VARIABLES kind,      \* the queue in use
          queue,     \* its state
          contents,  \* what was put into it and not taken out
          taken,     \* events taken by workers
          reported   \* what the last erase reported, and what was true

vars == <<kind, queue, contents, taken, reported>>

IsLadder == kind = "ladder"
Events   == IF IsLadder THEN [lp : 1 .. NumLPs, ts : 0 .. MaxTime] ELSE 1 .. NumEvents
SameLP(e, f) == IF IsLadder THEN e.lp = f.lp ELSE e = f
LeastOf(S)   == IF IsLadder THEN Ladder!Least(S) ELSE CHOOSE e \in S : \A f \in S : e <= f

(* An event that may take the place of an LP's: an earlier one of that LP, *)
(* which may lie anywhere in memory.                                       *)
Earlier(f, e) == IF IsLadder THEN f.lp = e.lp /\ f.ts < e.ts ELSE f # e

begin        == IF IsLadder THEN Ladder!begin(queue) ELSE Splay!begin(queue)
insert(q, e) == IF IsLadder THEN Ladder!insert(q, e) ELSE Splay!insert(q, e)
erase(q, e)  == IF IsLadder THEN Ladder!erase(q, e) ELSE Splay!erase(q, e)

(* The event that begin returns, as a set: no event if the queue is empty. *)
Returned(q) ==
    IF IsLadder THEN IF q.bottom = {} THEN {} ELSE {Ladder!Least(q.bottom)}
    ELSE {q.current} \ {Splay!Null}

Init == /\ kind \in Kinds
        /\ queue = IF IsLadder THEN Ladder!Empty ELSE Splay!Empty
        /\ contents = {} /\ taken = {}
        /\ reported = [status |-> FALSE, present |-> FALSE]

(* startScheduling, and insertEvent for an LP that has nothing scheduled.  *)
Insert(e) ==
    /\ ~ \E f \in contents \cup taken : SameLP(e, f)
    /\ queue' = insert(queue, e)
    /\ contents' = contents \cup {e}
    /\ UNCHANGED <<kind, taken, reported>>

GetEvent ==
    /\ contents # {}
    /\ IF begin.failed \/ Returned(begin) = {}
       THEN queue' = begin /\ UNCHANGED <<contents, taken>>
       ELSE \E e \in Returned(begin) : /\ queue' = erase(begin, e).q
                                       /\ contents' = contents \ {e}
                                       /\ taken' = taken \cup {e}
    /\ UNCHANGED <<kind, reported>>

(* The worker has finished with the event.                                 *)
Finish(e) ==
    /\ taken' = taken \ {e}
    /\ UNCHANGED <<kind, queue, contents, reported>>

(* insertEvent of f for an LP whose scheduled_event_pointer is e, which is *)
(* in the queue or with a worker.                                          *)
Replace(e, f) ==
    /\ e \in contents \cup taken /\ f \notin contents \cup taken /\ Earlier(f, e)
    /\ LET erased   == erase(queue, e)
           replaces == erased.status /\ ~ erased.q.failed
       IN  /\ queue' = IF replaces THEN insert(erased.q, f) ELSE erased.q
           /\ contents' = (contents \ {e}) \cup IF replaces THEN {f} ELSE {}
           /\ reported' = [status |-> erased.status, present |-> e \in contents]
    /\ UNCHANGED <<kind, taken>>

Next == ~ queue.failed /\ \/ \E e \in Events : Insert(e)
                          \/ GetEvent
                          \/ \E e \in taken : Finish(e)
                          \/ \E e \in contents \cup taken, f \in Events : Replace(e, f)

Spec == Init /\ [][Next]_vars

-----------------------------------------------------------------------------
(* Properties.                                                             *)

(* No assertion of the queue in use fails.                                 *)
AssertionsHold == ~ queue.failed

(* The queue holds what was inserted and not erased and nothing else,      *)
(* wherever the ladder queue has moved it and however the splay tree has   *)
(* turned; the tree counts right.                                          *)
HoldsContents ==
    queue.failed \/
    IF IsLadder THEN Ladder!Contents(queue) = contents
    ELSE /\ Splay!Below(queue, queue.root) = contents
         /\ queue.num_nodes = Cardinality(contents)

(* begin returns the event a sorted queue would return.                    *)
BeginIsLeast ==
    queue.failed \/
    IF contents = {} THEN Returned(begin) = {}
    ELSE ~ begin.failed => Returned(begin) = {LeastOf(contents)}

(* erase tells whether the event was in the queue: insertEvent schedules   *)
(* another event of the LP "only if the event was successfully erased from *)
(* the schedule queue".                                                    *)
EraseTellsPresence == queue.failed \/ reported.status = reported.present
=============================================================================
