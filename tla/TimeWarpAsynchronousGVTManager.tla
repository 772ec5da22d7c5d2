------------------- MODULE TimeWarpAsynchronousGVTManager -------------------
(***************************************************************************)
(* The asynchronous GVT algorithm (TimeWarpAsynchronousGVTManager.cpp):    *)
(* Mattern's token passes from node to node counting the messages of the   *)
(* old color; at each node the workers report their least event while they *)
(* keep running.  checkProgressGVT runs in the master thread, between the  *)
(* messages it handles; the worker part is the loop of processEvents.      *)
(***************************************************************************)
EXTENDS GVTClient, Sequences

Sets == INSTANCE FiniteSetsExt

CONSTANTS MaxRounds,   \* bound on the GVT computations started
          Prompt,      \* timing assumption, see BeginLocal
          FifoNodes    \* control messages from different nodes keep their order

WHITE == "WHITE"
RED   == "RED"
Other(color) == IF color = WHITE THEN RED ELSE WHITE
Min(a, b) == IF a < b THEN a ELSE b

VARIABLES node,               \* state_ of each node, MatternNodeState
          gvt_state,          \* "IDLE", "LOCAL", "GLOBAL"
          started_global_gvt,
          started_local_gvt,
          local_gvt_flag,     \* workers of the node that have not reported
          calculated,         \* calculated_min_flag_
          local_min,
          send_min,
          msg_count,          \* msg_count_
          global_min_clock,
          gVT,
          control,            \* tokens and updates between nodes
          mpc,                \* the master's place in progressGVT
          wpc,                \* each worker's place in processEvents
          flag,               \* the worker's copy of local_gvt_flag
          toReport,           \* time of the event just sent, or Infinity
          rounds

localVars  == <<local_gvt_flag, calculated, local_min, send_min>>
globalVars == <<node, gvt_state, started_global_gvt, started_local_gvt,
                msg_count, global_min_clock, gVT, control, mpc, rounds>>
workerVars == <<wpc, flag, toReport>>
vars == <<clientVars, localVars, globalVars, workerVars>>

Init ==
    /\ ClientInit
    /\ node = [n \in Node |-> [color |-> WHITE, initial_color |-> WHITE,
                               count |-> [c \in {WHITE, RED} |-> 0],
                               min_send |-> Infinity, min_recv |-> Infinity]]
    /\ gvt_state = [n \in Node |-> "IDLE"]
    /\ started_global_gvt = FALSE
    /\ started_local_gvt = [n \in Node |-> FALSE]
    /\ local_gvt_flag = [n \in Node |-> 0]
    /\ calculated = [w \in Worker |-> FALSE]
    /\ local_min = [w \in Worker |-> Infinity]
    /\ send_min = [w \in Worker |-> Infinity]
    /\ msg_count = [n \in Node |-> 0]
    /\ global_min_clock \in [Node -> {0, Infinity}]   \* not initialised
    /\ gVT = [n \in Node |-> 0]
    /\ control = [link \in Node \X Node |-> <<>>]
    /\ mpc = [n \in Node |-> "idle"]
    /\ wpc = [w \in Worker |-> "top"]
    /\ flag = [w \in Worker |-> 0]
    /\ toReport = [w \in Worker |-> Infinity]
    /\ rounds = 0

-----------------------------------------------------------------------------
(* The worker's loop.                                                      *)

ReadFlag(w) ==
    /\ wpc[w] = "top"
    /\ flag' = [flag EXCEPT ![w] = local_gvt_flag[w[1]]]
    /\ wpc' = [wpc EXCEPT ![w] = "getEvent"]
    /\ UNCHANGED <<clientVars, localVars, globalVars, toReport>>

GetEvent(w) ==
    /\ wpc[w] = "getEvent"
    /\ \E event \in NextEvents(w) : Take(w, event)
    /\ wpc' = [wpc EXCEPT ![w] = "report"]
    /\ UNCHANGED <<pending, queue, transit, sends, localVars, globalVars, flag, toReport>>

reportThreadMin(w) ==
    /\ wpc[w] = "report"
    /\ IF flag[w] > 0 /\ ~ calculated[w]
       THEN /\ local_min' = [local_min EXCEPT ![w] = Min(send_min[w], taken[w].ts)]
            /\ calculated' = [calculated EXCEPT ![w] = TRUE]
            /\ local_gvt_flag' = [local_gvt_flag EXCEPT
                    ![w[1]] = IF @ = 0 THEN Infinity ELSE @ - 1]
            /\ UNCHANGED send_min
       ELSE UNCHANGED localVars
    /\ wpc' = [wpc EXCEPT ![w] = IF taken[w] = Nothing THEN "top" ELSE "process"]
    /\ UNCHANGED <<clientVars, globalVars, flag, toReport>>

(* One event to an LP of the same node, then reportThreadSendMin.          *)
SendLocal(w, lp, ts) ==
    /\ wpc[w] = "process" /\ sends < MaxSends
    /\ NodeOf[lp] = w[1] /\ MayCause(w, lp, ts)
    /\ Insert(lp, ts)
    /\ sends' = sends + 1
    /\ toReport' = [toReport EXCEPT ![w] = ts]
    /\ wpc' = [wpc EXCEPT ![w] = "reportSend"]
    /\ UNCHANGED <<queue, taken, transit, localVars, globalVars, flag>>

(* sendEventUpdate: count the message, color it, and note its time if the  *)
(* node has changed color.                                                 *)
SendRemote(w, lp, ts) ==
    LET n == w[1]
        c == node[n].color
    IN  /\ wpc[w] = "process" /\ sends < MaxSends
        /\ NodeOf[lp] # n /\ MayCause(w, lp, ts)
        /\ node' = [node EXCEPT ![n].count[c] = @ + 1,
                       ![n].min_send = IF c # node[n].initial_color
                                       THEN Min(@, ts) ELSE @]
        /\ transit' = transit \cup {[lp |-> lp, ts |-> ts, color |-> c]}
        /\ sends' = sends + 1
        /\ toReport' = [toReport EXCEPT ![w] = ts]
        /\ wpc' = [wpc EXCEPT ![w] = "reportSend"]
        /\ UNCHANGED <<pending, queue, taken, localVars, flag, gvt_state,
                       started_global_gvt, started_local_gvt, msg_count,
                       global_min_clock, gVT, control, mpc, rounds>>

reportThreadSendMin(w) ==
    /\ wpc[w] = "reportSend"
    /\ IF local_gvt_flag[w[1]] > 0 /\ ~ calculated[w]
       THEN send_min' = [send_min EXCEPT ![w] = Min(@, toReport[w])]
       ELSE UNCHANGED send_min
    /\ toReport' = [toReport EXCEPT ![w] = Infinity]
    /\ wpc' = [wpc EXCEPT ![w] = "process"]
    /\ UNCHANGED <<clientVars, local_gvt_flag, calculated, local_min, globalVars, flag>>

ReplenishScheduler(w) ==
    /\ wpc[w] = "process"
    /\ Replenish(w)
    /\ wpc' = [wpc EXCEPT ![w] = "top"]
    /\ UNCHANGED <<transit, sends, localVars, globalVars, flag, toReport>>

-----------------------------------------------------------------------------
(* The master thread.                                                      *)

(* receiveEventUpdate, then the event is inserted.  The master's own slot  *)
(* of calculated_min_flag_ is always set: it reports no sends.             *)
ReceiveEvent(m) ==
    LET n == NodeOf[m.lp]
    IN  /\ mpc[n] = "idle"
        /\ transit' = transit \ {m}
        /\ node' = [node EXCEPT ![n].count[m.color] = @ - 1,
                       ![n].min_recv = IF m.color = node[n].initial_color
                                       THEN Min(@, m.ts) ELSE @]
        /\ Insert(m.lp, m.ts)
        /\ UNCHANGED <<queue, taken, sends, localVars, workerVars, gvt_state,
                       started_global_gvt, started_local_gvt, msg_count,
                       global_min_clock, gVT, control, mpc, rounds>>

(* Faulty Toggled: the color stays.                                        *)
ToggledMinima(s) == [s EXCEPT !.min_send = Infinity, !.min_recv = Infinity]

(* Change color and start the two minima over.                             *)
Toggled(s) == [s EXCEPT !.color = Other(@), !.min_send = Infinity,
                        !.min_recv = Infinity]
(* Faulty InitialCount: the messages of the node's present color.          *)
InitialCountByColor(s) == s.count[s.color]

InitialCount(s) == s.count[s.initial_color]
Counted(s) == [s EXCEPT !.count[s.initial_color] = 0]

(* checkProgressGVT and the first branch of progressGVT: node 0 becomes    *)
(* LOCAL when the period is over, any node when the token arrives.         *)
(* resetLocalState comes first; the flag is stored afterwards.             *)
(*                                                                         *)
(* Prompt: no worker is still between reading the flag of the last         *)
(* computation and reporting.  The code relies on it but does not ensure   *)
(* it.                                                                     *)
BeginLocal(n) ==
    /\ mpc[n] = "idle"
    /\ \/ gvt_state[n] = "LOCAL" /\ UNCHANGED rounds
       \/ gvt_state[n] = "IDLE" /\ n = 0 /\ rounds < MaxRounds /\ rounds' = rounds + 1
    /\ local_gvt_flag[n] = 0 /\ ~ started_local_gvt[n]
    /\ Prompt => \A w \in NodeWorkers(n) :
                     wpc[w] \in {"getEvent", "report"} => flag[w] = 0
    /\ gvt_state' = [gvt_state EXCEPT ![n] = "LOCAL"]
    /\ IF n = 0 /\ ~ started_global_gvt
       THEN /\ node' = [node EXCEPT ![n] = Counted(Toggled(@))]
            /\ msg_count' = [msg_count EXCEPT ![n] = InitialCount(node[n])]
            /\ started_global_gvt' = TRUE
       ELSE UNCHANGED <<node, msg_count, started_global_gvt>>
    /\ send_min' = [w \in Worker |-> IF w[1] = n THEN Infinity ELSE send_min[w]]
    /\ local_min' = [w \in Worker |-> IF w[1] = n THEN Infinity ELSE local_min[w]]
    /\ calculated' = [w \in Worker |-> IF w[1] = n THEN FALSE ELSE calculated[w]]
    /\ mpc' = [mpc EXCEPT ![n] = "store"]
    /\ UNCHANGED <<clientVars, workerVars, local_gvt_flag, started_local_gvt,
                   global_min_clock, gVT, control>>

(* Faulty StoreFlag: the master, which never reports, is counted.          *)
StoreFlagWithMaster(n) ==
    /\ mpc[n] = "store"
    /\ local_gvt_flag' = [local_gvt_flag EXCEPT ![n] = NumWorkers + 1]
    /\ started_local_gvt' = [started_local_gvt EXCEPT ![n] = TRUE]
    /\ mpc' = [mpc EXCEPT ![n] = "idle"]
    /\ UNCHANGED <<clientVars, workerVars, calculated, local_min, send_min, node,
                   gvt_state, started_global_gvt, msg_count, global_min_clock,
                   gVT, control, rounds>>

StoreFlag(n) ==
    /\ mpc[n] = "store"
    /\ local_gvt_flag' = [local_gvt_flag EXCEPT ![n] = NumWorkers]
    /\ started_local_gvt' = [started_local_gvt EXCEPT ![n] = TRUE]
    /\ mpc' = [mpc EXCEPT ![n] = "idle"]
    /\ UNCHANGED <<clientVars, workerVars, calculated, local_min, send_min, node,
                   gvt_state, started_global_gvt, msg_count, global_min_clock,
                   gVT, control, rounds>>

Post(from, to, msg) == control' = [control EXCEPT ![<<from, to>>] = Append(@, msg)]

(* Faulty LocalMinimum: the loop over the workers stops too early.         *)
MinimumOfFirst(n) == local_min[<<n, 0>>]

LocalMinimum(n) == Least({local_min[w] : w \in NodeWorkers(n)})

(* The second branch: every worker has reported.  sendMatternGVTToken      *)
(* passes the token on; a single node has its GVT.                         *)
FinishLocal(n) ==
    LET clock == IF n = 0 THEN Infinity ELSE global_min_clock[n]
    IN  /\ mpc[n] = "idle"
        /\ gvt_state[n] = "LOCAL" /\ local_gvt_flag[n] = 0 /\ started_local_gvt[n]
        /\ started_local_gvt' = [started_local_gvt EXCEPT ![n] = FALSE]
        /\ IF NumNodes > 1
           THEN /\ gvt_state' = [gvt_state EXCEPT ![n] = "GLOBAL"]
                /\ global_min_clock' = [global_min_clock EXCEPT ![n] = clock]
                /\ Post(n, (n + 1) % NumNodes,
                        [type |-> "token", count |-> msg_count[n],
                         m_send |-> node[n].min_send,
                         m_clock |-> Min(Min(node[n].min_recv, LocalMinimum(n)), clock)])
                /\ UNCHANGED gVT
           ELSE /\ gvt_state' = [gvt_state EXCEPT ![n] = "IDLE"]
                /\ gVT' = [gVT EXCEPT ![n] = LocalMinimum(n)]
                /\ UNCHANGED <<global_min_clock, control>>
        /\ UNCHANGED <<clientVars, workerVars, localVars, node,
                       started_global_gvt, msg_count, mpc, rounds>>

(* receiveMatternGVTToken at the initiator: all messages of the old color  *)
(* are accounted for, or the token goes round once more.                   *)
InitiatorReceivesToken(from) ==
    LET msg == Head(control[<<from, 0>>])
        rest == [control EXCEPT ![<<from, 0>>] = Tail(@)]
    IN  /\ control[<<from, 0>>] # <<>> /\ msg.type = "token" /\ mpc[0] = "idle"
        /\ IF msg.count <= 0
           THEN /\ gvt_state' = [gvt_state EXCEPT ![0] = "GLOBAL"]
                /\ started_global_gvt' = FALSE
                /\ control' = [link \in Node \X Node |->
                      IF link[1] = 0
                      THEN Append(rest[link], [type |-> "update",
                                               gvt |-> Min(msg.m_clock, msg.m_send)])
                      ELSE rest[link]]
                /\ UNCHANGED <<node, msg_count>>
           ELSE /\ gvt_state' = [gvt_state EXCEPT ![0] = "LOCAL"]
                /\ node' = [node EXCEPT ![0] =
                      [Counted(node[0]) EXCEPT !.min_send = Min(@, msg.m_send)]]
                /\ msg_count' = [msg_count EXCEPT ![0] = InitialCount(node[0]) + msg.count]
                /\ control' = rest
                /\ UNCHANGED started_global_gvt
        /\ UNCHANGED <<clientVars, workerVars, localVars, started_local_gvt,
                       global_min_clock, gVT, mpc, rounds>>

NodeReceivesToken(n, from) ==
    LET msg == Head(control[<<from, n>>])
        s   == IF node[n].color = node[n].initial_color THEN Toggled(node[n]) ELSE node[n]
    IN  /\ n # 0
        /\ control[<<from, n>>] # <<>> /\ msg.type = "token" /\ mpc[n] = "idle"
        /\ FifoNodes => \A other \in Node : \A i \in DOMAIN control[<<other, n>>] :
                            control[<<other, n>>][i].type # "update"
        /\ node' = [node EXCEPT ![n] =
               [Counted(s) EXCEPT !.min_send = Min(@, msg.m_send)]]
        /\ global_min_clock' = [global_min_clock EXCEPT ![n] = Min(@, msg.m_clock)]
        /\ msg_count' = [msg_count EXCEPT ![n] = InitialCount(s) + msg.count]
        /\ gvt_state' = [gvt_state EXCEPT ![n] = "LOCAL"]
        /\ control' = [control EXCEPT ![<<from, n>>] = Tail(@)]
        /\ UNCHANGED <<clientVars, workerVars, localVars, started_global_gvt,
                       started_local_gvt, gVT, mpc, rounds>>

receiveGVTUpdate(n) ==
    LET msg == Head(control[<<0, n>>])
    IN  /\ control[<<0, n>>] # <<>> /\ msg.type = "update" /\ mpc[n] = "idle"
        /\ gVT' = [gVT EXCEPT ![n] = msg.gvt]
        /\ global_min_clock' = [global_min_clock EXCEPT ![n] = Infinity]
        /\ node' = [node EXCEPT ![n].initial_color = Other(@)]
        /\ gvt_state' = [gvt_state EXCEPT ![n] = IF @ = "GLOBAL" THEN "IDLE" ELSE @]
        /\ control' = [control EXCEPT ![<<0, n>>] = Tail(@)]
        /\ UNCHANGED <<clientVars, workerVars, localVars, started_global_gvt,
                       started_local_gvt, msg_count, mpc, rounds>>

WorkerStep(w) ==
    \/ ReadFlag(w)
    \/ GetEvent(w)
    \/ reportThreadMin(w)
    \/ \E lp \in LP, ts \in SendTimes : SendLocal(w, lp, ts) \/ SendRemote(w, lp, ts)
    \/ reportThreadSendMin(w)
    \/ ReplenishScheduler(w)

ProgressGVT(n) ==
    \/ BeginLocal(n)
    \/ StoreFlag(n)
    \/ FinishLocal(n)
    \/ \E from \in Node : NodeReceivesToken(n, from)
    \/ n = 0 /\ \E from \in Node : InitiatorReceivesToken(from)
    \/ receiveGVTUpdate(n)

Next == \/ \E w \in Worker : WorkerStep(w)
        \/ \E n \in Node : ProgressGVT(n)
        \/ \E m \in transit : ReceiveEvent(m)

Spec == Init /\ [][Next]_vars

(* The threads' loops do not stop while the simulation runs.  Strong       *)
(* fairness for receptions: the master handles the messages that have      *)
(* arrived once between any two of its other steps.                        *)
FairSpec ==
    /\ Spec
    /\ \A w \in Worker : WF_vars(WorkerStep(w))
    /\ \A n \in Node : WF_vars(ProgressGVT(n))
    /\ \A n \in Node : SF_vars(\E m \in transit : NodeOf[m.lp] = n /\ ReceiveEvent(m))

-----------------------------------------------------------------------------
(* Properties.                                                             *)

(* The GVT a node has is a lower bound of every event that is pending      *)
(* anywhere or on its way: what is committed stays committed.  (rollback   *)
(* of the dispatcher asserts it: "We have major problems if we are rolling *)
(* back past the GVT".)                                                    *)
GVTIsLowerBound == \A n \in Node : Bounds(gVT[n])

(* Engine and manager keep the promises of GVTService: the GVT of a node   *)
(* never goes back and never passes what is pending or on its way.         *)
Service == INSTANCE GVTService WITH Nodes <- Node,
                                    outstanding <- OutstandingTimes, gvt <- gVT
ImplementsGVTService == Service!Spec

(* The GVT the initiator has computed is a lower bound from the moment it  *)
(* is sent out, not only where it has arrived (sendGVTUpdate).             *)
UpdateIsLowerBound ==
    \A link \in Node \X Node : \A i \in DOMAIN control[link] :
        control[link][i].type = "update" => Bounds(control[link][i].gvt)

(* The flag counts the workers that have still to report, so the local     *)
(* computation ends when, and only when, the last one has.                 *)
FlagCountsWorkers ==
    \A n \in Node : started_local_gvt[n] =>
        local_gvt_flag[n] = Cardinality({w \in NodeWorkers(n) : ~ calculated[w]})

(* Between computations all nodes agree on the color of the messages whose *)
(* arrival the next one waits for, and, summed over all nodes, the count   *)
(* of either color is the number of its messages on their way.             *)
AtRest == /\ ~ started_global_gvt
          /\ \A link \in Node \X Node : control[link] = <<>>
ColorsAgree ==
    AtRest => /\ \A n \in Node : node[n].color = node[n].initial_color
              /\ \A n \in Node : node[n].color = node[0].color
              /\ \A c \in {WHITE, RED} :
                     Sets!MapThenSumSet(LAMBDA n : node[n].count[c], Node)
                     = Cardinality({m \in transit : m.color = c})

(* Every GVT computation ends with a new GVT at every node.                *)
ComputationEnds ==
    \A n \in Node : gvt_state[n] # "IDLE" ~> gvt_state[n] = "IDLE"
=============================================================================
