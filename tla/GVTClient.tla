------------------------------ MODULE GVTClient ------------------------------
(***************************************************************************)
(* What the GVT managers see of the rest of the engine: nodes with a       *)
(* master thread and worker threads, LPs with pending events, and event    *)
(* messages between nodes.  Of an event only its receive time matters.     *)
(*                                                                         *)
(* The event set appears as TimeWarpEventSetClient proves it to behave: an *)
(* LP whose event no worker holds is in the schedule queue it is mapped    *)
(* to, with its least event.  Rollbacks are left out: what they put back   *)
(* or send is not earlier than the straggler that causes them.             *)
(***************************************************************************)
EXTENDS Integers, FiniteSets

CONSTANTS NumNodes,        \* getNumProcesses()
          NumWorkers,      \* num_worker_threads_ of each node
          NumSchedulers,   \* schedule queues of each node
          NumLPs,
          LpMigration,     \* is_lp_migration_on_
          NodeOf,          \* the node of each LP
          QueueOf,         \* the schedule queue each LP starts on
          InitialEvents,   \* the receive times pending at each LP
          SendTimes,       \* receive times an event sent may have
          MaxSends,        \* bound on the events sent
          Infinity         \* (unsigned int)-1

ASSUME SizesAssumption == NumNodes \in Nat \ {0} /\ NumWorkers \in Nat \ {0}

Node     == 0 .. NumNodes - 1
LP       == 1 .. NumLPs
Worker   == Node \X (0 .. NumWorkers - 1)
Nothing  == [lp |-> 0, ts |-> Infinity]   \* getEvent returned null

ASSUME EventsAssumption == /\ NumLPs \in Nat /\ Infinity \in Nat
                           /\ NodeOf \in [LP -> Node]
                           /\ QueueOf \in [LP -> 0 .. NumSchedulers - 1]
                           /\ InitialEvents \in [LP -> SUBSET Nat]
                           /\ SendTimes \subseteq Nat

VARIABLES pending,    \* receive times in each LP's input queue
          queue,      \* the schedule queue each LP is mapped to
          taken,      \* what each worker is handling
          transit,    \* event messages: [lp, ts, color]
          sends       \* events sent so far

clientVars == <<pending, queue, taken, transit, sends>>

NodeWorkers(n) == {w \in Worker : w[1] = n}
Served(w) == {lp \in LP : NodeOf[lp] = w[1] /\ queue[lp] = w[2] % NumSchedulers}
Scheduled(lp) == pending[lp] # {} /\ \A w \in Worker : taken[w].lp # lp
Least(S) == CHOOSE x \in S : \A y \in S : x <= y

ClientInit == /\ pending = InitialEvents
              /\ queue = QueueOf
              /\ taken = [w \in Worker |-> Nothing]
              /\ transit = {}
              /\ sends = 0

(* What getEvent returns to worker w.                                      *)
NextEvents(w) ==
    LET lps == {lp \in Served(w) : Scheduled(lp)}
        all == {[lp |-> lp, ts |-> Least(pending[lp])] : lp \in lps}
    IN  IF all = {} THEN {Nothing}
        ELSE {e \in all : \A f \in all : e.ts <= f.ts}

Take(w, event) == /\ event \in NextEvents(w)
                  /\ taken' = [taken EXCEPT ![w] = event]

(* The LP's next event is scheduled, on the next queue if migration is on. *)
Replenish(w) ==
    LET lp == taken[w].lp
    IN  /\ pending' = [pending EXCEPT ![lp] = @ \ {taken[w].ts}]
        /\ queue' = IF LpMigration
                    THEN [queue EXCEPT ![lp] = (@ + 1) % NumSchedulers] ELSE queue
        /\ taken' = [taken EXCEPT ![w] = Nothing]

Insert(lp, ts) == pending' = [pending EXCEPT ![lp] = @ \cup {ts}]

(* An event that the one worker w is handling may cause.  The events under *)
(* way to an LP have different times: transit is a set.                    *)
MayCause(w, lp, ts) == /\ taken[w] # Nothing /\ ts > taken[w].ts
                       /\ ts \notin pending[lp]
                       /\ \A m \in transit : m.lp = lp => m.ts # ts

OutstandingTimes == (UNION {pending[lp] : lp \in LP}) \cup {m.ts : m \in transit}

(* Nothing earlier than `time' will ever be processed again.               *)
Bounds(time) == \A ts \in OutstandingTimes : time <= ts
=============================================================================
