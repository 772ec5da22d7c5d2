-------------------- MODULE TimeWarpSynchronousGVTManager --------------------
(***************************************************************************)
(* The synchronous GVT algorithm (TimeWarpSynchronousGVTManager.cpp): the  *)
(* master thread stops its workers at a barrier, all nodes wait until the  *)
(* messages of the old color have arrived, reduce their minima, and let    *)
(* the workers go on.  The master's place in startSimulation's loop is     *)
(* part of the model because the barriers tie it to the workers' loops,    *)
(* which end when the simulation terminates.                               *)
(***************************************************************************)
EXTENDS GVTClient

CONSTANTS MaxRounds,    \* bound on the GVT computations a node starts
          Prompt,       \* timing assumption, see SendRemote
          Settled,      \* messages sent during one computation arrive before
                        \* the next begins
          Terminates    \* the simulation may terminate

WHITE == "WHITE"
RED   == "RED"
Min(a, b) == IF a < b THEN a ELSE b
Sets == INSTANCE FiniteSetsExt

VARIABLES color_,            \* of the messages the node sends
          local_gvt_flag,
          white_msg_count,   \* sent minus received
          recv_min,
          local_min,
          send_min,          \* of each worker; the master has one, too
          gVT,
          terminate,         \* terminationStatus() of each node
          mpc, wpc,          \* places of master and workers
          flag, toReport,    \* see processEvents
          rounds

gvtVars    == <<color_, local_gvt_flag, white_msg_count, recv_min, local_min,
                send_min, gVT>>
workerVars == <<wpc, flag, toReport>>
vars == <<clientVars, gvtVars, terminate, mpc, workerVars, rounds>>

Master(n) == <<n, NumWorkers>>
Thread    == Worker \cup {Master(n) : n \in Node}

Init ==
    /\ ClientInit
    /\ color_ = [n \in Node |-> WHITE]
    /\ local_gvt_flag = [n \in Node |-> 0]
    /\ white_msg_count = [n \in Node |-> 0]
    /\ recv_min = [n \in Node |-> Infinity]
    /\ local_min = [w \in Worker |-> Infinity]
    /\ send_min = [t \in Thread |-> Infinity]
    /\ gVT = [n \in Node |-> 0]
    /\ terminate = [n \in Node |-> FALSE]
    /\ mpc = [n \in Node |-> "handleMessages"]
    /\ wpc = [w \in Worker |-> "top"]
    /\ flag = [w \in Worker |-> 0]
    /\ toReport = [w \in Worker |-> Infinity]
    /\ rounds = [n \in Node |-> 0]

MasterAt(n, l)   == mpc[n] = l
MasterGoes(n, l) == mpc' = [mpc EXCEPT ![n] = l]
Goes(w, l)       == wpc' = [wpc EXCEPT ![w] = l]

-----------------------------------------------------------------------------
(* The worker's loop.                                                      *)

Top(w) ==
    /\ wpc[w] = "top"
    /\ IF terminate[w[1]]
       THEN Goes(w, "exited") /\ UNCHANGED flag
       ELSE /\ flag' = [flag EXCEPT ![w] = local_gvt_flag[w[1]]]
            /\ Goes(w, "getEvent")
    /\ UNCHANGED <<clientVars, gvtVars, terminate, mpc, toReport, rounds>>

GetEvent(w) ==
    /\ wpc[w] = "getEvent"
    /\ \E event \in NextEvents(w) : Take(w, event)
    /\ Goes(w, "report")
    /\ UNCHANGED <<pending, queue, transit, sends, gvtVars, terminate, mpc, flag,
                   toReport, rounds>>

AfterReport(w) == IF taken[w] = Nothing THEN "top" ELSE "process"

(* reportThreadMin, up to its first pthread_barrier_wait.                  *)
reportThreadMin(w) ==
    /\ wpc[w] = "report"
    /\ IF flag[w] > 0
       THEN /\ local_min' = [local_min EXCEPT ![w] = taken[w].ts]
            /\ Goes(w, "barrier1")
       ELSE /\ Goes(w, AfterReport(w))
            /\ UNCHANGED local_min
    /\ UNCHANGED <<clientVars, color_, local_gvt_flag, white_msg_count, recv_min,
                   send_min, gVT, terminate, mpc, flag, toReport, rounds>>

SendLocal(w, lp, ts) ==
    /\ wpc[w] = "process" /\ sends < MaxSends
    /\ NodeOf[lp] = w[1] /\ MayCause(w, lp, ts)
    /\ Insert(lp, ts)
    /\ sends' = sends + 1
    /\ toReport' = [toReport EXCEPT ![w] = ts]
    /\ Goes(w, "reportSend")
    /\ UNCHANGED <<queue, taken, transit, gvtVars, terminate, mpc, flag, rounds>>

(* sendEventUpdate and insertMessage.  Prompt assumes that no message is   *)
(* sent between the two stores of progressGVT, which nothing ensures.      *)
SendRemote(w, lp, ts) ==
    LET n == w[1]
    IN  /\ wpc[w] = "process" /\ sends < MaxSends
        /\ Prompt => mpc[n] # "storeFlag"
        /\ NodeOf[lp] # n /\ MayCause(w, lp, ts)
        /\ white_msg_count' = [white_msg_count EXCEPT
                                 ![n] = IF color_[n] = WHITE THEN @ + 1 ELSE @]
        /\ transit' = transit \cup {[lp |-> lp, ts |-> ts, color |-> color_[n]]}
        /\ sends' = sends + 1
        /\ toReport' = [toReport EXCEPT ![w] = ts]
        /\ Goes(w, "reportSend")
        /\ UNCHANGED <<pending, queue, taken, color_, local_gvt_flag, recv_min,
                       local_min, send_min, gVT, terminate, mpc, flag, rounds>>

SendMinAfter(t, ts) ==
    IF local_gvt_flag[t[1]] > 0
    THEN [send_min EXCEPT ![t] = Min(@, ts)] ELSE send_min

reportThreadSendMin(w) ==
    /\ wpc[w] = "reportSend"
    /\ send_min' = SendMinAfter(w, toReport[w])
    /\ toReport' = [toReport EXCEPT ![w] = Infinity]
    /\ Goes(w, "process")
    /\ UNCHANGED <<clientVars, color_, local_gvt_flag, white_msg_count, recv_min,
                   local_min, gVT, terminate, mpc, flag, rounds>>

ReplenishScheduler(w) ==
    /\ wpc[w] = "process"
    /\ Replenish(w)
    /\ Goes(w, "top")
    /\ UNCHANGED <<transit, sends, gvtVars, terminate, mpc, flag, toReport, rounds>>

-----------------------------------------------------------------------------
(* The master's loop.                                                      *)

(* receiveEventMessage, in handleMessages of the main loop or of the GVT   *)
(* computation; reportThreadSendMin records it under the master's id.      *)
ReceiveEvent(m) ==
    LET n == NodeOf[m.lp]
    IN  /\ mpc[n] \in {"handleMessages", "flushMessages"}
        /\ transit' = transit \ {m}
        /\ IF m.color = WHITE
           THEN /\ white_msg_count' = [white_msg_count EXCEPT ![n] = @ - 1]
                /\ UNCHANGED recv_min
           ELSE /\ recv_min' = [recv_min EXCEPT ![n] = Min(@, m.ts)]
                /\ UNCHANGED white_msg_count
        /\ Insert(m.lp, m.ts)
        /\ send_min' = SendMinAfter(Master(n), m.ts)
        /\ UNCHANGED <<queue, taken, sends, color_, local_gvt_flag, local_min, gVT,
                       terminate, mpc, workerVars, rounds>>

(* receiveTerminator: what the termination manager promises of it.         *)
ReceiveTerminator(n) ==
    /\ Terminates /\ ~ terminate[n]
    /\ MasterAt(n, "handleMessages") \/ MasterAt(n, "flushMessages")
    /\ \A lp \in LP : pending[lp] = {}
    /\ transit = {}
    /\ terminate' = [terminate EXCEPT ![n] = TRUE]
    /\ UNCHANGED <<clientVars, gvtVars, mpc, workerVars, rounds>>

(* checkProgressGVT when it is not time for a GVT, and the loop condition  *)
(* of startSimulation.                                                     *)
NotReady(n) ==
    /\ MasterAt(n, "handleMessages")
    /\ MasterGoes(n, "top")
    /\ UNCHANGED <<clientVars, gvtVars, terminate, workerVars, rounds>>

LoopTop(n) ==
    /\ MasterAt(n, "top")
    /\ MasterGoes(n, IF terminate[n] THEN "exited" ELSE "handleMessages")
    /\ UNCHANGED <<clientVars, gvtVars, terminate, workerVars, rounds>>

(* progressGVT: first the color, then the flag ...                         *)
BeginGVT(n) ==
    /\ MasterAt(n, "handleMessages") /\ rounds[n] < MaxRounds
    /\ Settled /\ (\A k \in Node : rounds[k] <= rounds[n]) =>
           \A m \in transit : m.color = WHITE
    /\ color_' = [color_ EXCEPT ![n] = RED]
    /\ MasterGoes(n, "storeFlag")
    /\ rounds' = [rounds EXCEPT ![n] = @ + 1]
    /\ UNCHANGED <<clientVars, local_gvt_flag, white_msg_count, recv_min, local_min, send_min, gVT,
                   terminate, workerVars>>

StoreFlag(n) ==
    /\ MasterAt(n, "storeFlag")
    /\ local_gvt_flag' = [local_gvt_flag EXCEPT ![n] = 1]
    /\ MasterGoes(n, "barrier1")
    /\ UNCHANGED <<clientVars, color_, white_msg_count, recv_min, local_min, send_min,
                   gVT, terminate, workerVars, rounds>>

(* Faulty Barrier1: the barrier is initialised for one thread less.        *)
BarrierTooSmall(n) ==
    /\ MasterAt(n, "barrier1")
    /\ Cardinality({w \in NodeWorkers(n) : wpc[w] = "barrier1"}) >= NumWorkers - 1
    /\ MasterGoes(n, "flushMessages")
    /\ wpc' = [w \in Worker |-> IF w[1] = n /\ wpc[w] = "barrier1"
                                THEN "barrier2" ELSE wpc[w]]
    /\ UNCHANGED <<clientVars, gvtVars, terminate, flag, toReport, rounds>>

(* ... then all threads of the node meet.                                  *)
Barrier1(n) ==
    /\ MasterAt(n, "barrier1")
    /\ \A w \in NodeWorkers(n) : wpc[w] = "barrier1"
    /\ MasterGoes(n, "flushMessages")
    /\ wpc' = [w \in Worker |-> IF w[1] = n THEN "barrier2" ELSE wpc[w]]
    /\ UNCHANGED <<clientVars, gvtVars, terminate, flag, toReport, rounds>>

ReduceCount(n) ==
    /\ MasterAt(n, "flushMessages")
    /\ MasterGoes(n, "sumAllReduce")
    /\ UNCHANGED <<clientVars, gvtVars, terminate, workerVars, rounds>>

Total(S) == Sets!MapThenSumSet(LAMBDA n : white_msg_count[n], S)

(* Faulty SumAllReduce: the count of one node decides.                     *)
ReduceToFirst ==
    /\ \A n \in Node : MasterAt(n, "sumAllReduce")
    /\ mpc' = [n \in Node |-> IF white_msg_count[0] = 0
                              THEN "minAllReduce" ELSE "flushMessages"]
    /\ UNCHANGED <<clientVars, gvtVars, terminate, workerVars, rounds>>

(* A collective operation: every node has to take part.                    *)
SumAllReduce ==
    /\ \A n \in Node : MasterAt(n, "sumAllReduce")
    /\ mpc' = [n \in Node |-> IF Total(Node) = 0 THEN "minAllReduce" ELSE "flushMessages"]
    /\ UNCHANGED <<clientVars, gvtVars, terminate, workerVars, rounds>>

(* Faulty LocalMinimum: events sent while the workers stopped are ignored. *)
MinimumWithoutSends(n) ==
    Least({recv_min[n]} \cup {local_min[w] : w \in NodeWorkers(n)})

LocalMinimum(n) ==
    Least({recv_min[n]} \cup {local_min[w] : w \in NodeWorkers(n)}
                        \cup {send_min[t] : t \in NodeWorkers(n) \cup {Master(n)}})

(* The minima are taken and started over, reduced, and the color and the   *)
(* flag set back.                                                          *)
MinAllReduce ==
    /\ \A n \in Node : MasterAt(n, "minAllReduce")
    /\ gVT' = [n \in Node |-> Least({LocalMinimum(k) : k \in Node})]
    /\ recv_min' = [n \in Node |-> Infinity]
    /\ local_min' = [w \in Worker |-> Infinity]
    /\ send_min' = [t \in Thread |-> Infinity]
    /\ mpc' = [n \in Node |-> "reset"]
    /\ UNCHANGED <<clientVars, color_, local_gvt_flag, white_msg_count, terminate,
                   workerVars, rounds>>

EndGVT(n) ==
    /\ MasterAt(n, "reset")
    /\ color_' = [color_ EXCEPT ![n] = WHITE]
    /\ local_gvt_flag' = [local_gvt_flag EXCEPT ![n] = 0]
    /\ MasterGoes(n, "barrier2")
    /\ UNCHANGED <<clientVars, white_msg_count, recv_min, local_min, send_min, gVT,
                   terminate, workerVars, rounds>>

Barrier2(n) ==
    /\ MasterAt(n, "barrier2")
    /\ \A w \in NodeWorkers(n) : wpc[w] = "barrier2"
    /\ MasterGoes(n, "top")
    /\ wpc' = [w \in Worker |-> IF w[1] = n THEN AfterReport(w) ELSE wpc[w]]
    /\ UNCHANGED <<clientVars, gvtVars, terminate, flag, toReport, rounds>>

WorkerStep(w) ==
    \/ Top(w)
    \/ GetEvent(w)
    \/ reportThreadMin(w)
    \/ \E lp \in LP, ts \in SendTimes : SendLocal(w, lp, ts) \/ SendRemote(w, lp, ts)
    \/ reportThreadSendMin(w)
    \/ ReplenishScheduler(w)

MasterStep(n) ==
    \/ ReceiveTerminator(n)
    \/ NotReady(n)
    \/ LoopTop(n)
    \/ BeginGVT(n)
    \/ StoreFlag(n)
    \/ Barrier1(n)
    \/ ReduceCount(n)
    \/ SumAllReduce
    \/ MinAllReduce
    \/ EndGVT(n)
    \/ Barrier2(n)

Next == \/ \E w \in Worker : WorkerStep(w)
        \/ \E n \in Node : MasterStep(n)
        \/ \E m \in transit : ReceiveEvent(m)

Spec == Init /\ [][Next]_vars

(* The loops do not stop, the GVT period ends, messages arrive, and the    *)
(* Terminator does, too.                                                   *)
FairSpec ==
    /\ Spec
    /\ \A w \in Worker : WF_vars(WorkerStep(w))
    /\ \A n \in Node : /\ WF_vars(MasterStep(n))
                       /\ SF_vars(BeginGVT(n))
                       /\ SF_vars(ReceiveTerminator(n))
                       /\ SF_vars(\E m \in transit : NodeOf[m.lp] = n /\ ReceiveEvent(m))

-----------------------------------------------------------------------------
(* Properties.                                                             *)

(* The GVT is a lower bound of what is pending and on its way.             *)
GVTIsLowerBound == \A n \in Node : Bounds(gVT[n])

(* Engine and manager keep the promises of GVTService: the GVT of a node   *)
(* never goes back and never passes what is pending or on its way.         *)
Service == INSTANCE GVTService WITH Nodes <- Node,
                                    outstanding <- OutstandingTimes, gvt <- gVT
ImplementsGVTService == Service!Spec

(* The old color's messages have all arrived when the minima are taken.    *)
NoWhiteInTransit ==
    (\A n \in Node : MasterAt(n, "minAllReduce")) => \A m \in transit : m.color = RED

(* The workers of a node stand still while it computes.                    *)
WorkersStopped ==
    \A n \in Node : mpc[n] \in {"flushMessages", "sumAllReduce", "minAllReduce", "reset"} =>
        \A w \in NodeWorkers(n) : wpc[w] = "barrier2"

(* A GVT computation a node has begun ends.                                *)
ComputationEnds == \A n \in Node : MasterAt(n, "barrier1") ~> MasterAt(n, "top")

(* Once the Terminator has come to a node, all its threads leave their     *)
(* loops.                                                                  *)
ThreadsExit ==
    \A n \in Node : terminate[n] ~> /\ MasterAt(n, "exited")
                                    /\ \A w \in NodeWorkers(n) : wpc[w] = "exited"
=============================================================================
