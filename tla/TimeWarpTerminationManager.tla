--------------------- MODULE TimeWarpTerminationManager ---------------------
(***************************************************************************)
(* Termination detection (TimeWarpTerminationManager.cpp): a token goes    *)
(* round the nodes that have been passive since its last visit and adds up *)
(* the events sent but not received.  The worker part is processEvents,    *)
(* the master part the loop of startSimulation; event messages wait in the *)
(* sender's aggregate until a control message takes the same link or the   *)
(* GVT manager flushes them (TimeWarpMPICommunicationManager.cpp).         *)
(*                                                                         *)
(* Of events only their number matters here.                               *)
(***************************************************************************)
EXTENDS Integers, FiniteSets, Sequences

CONSTANTS NumNodes, NumWorkers,
          InitialEvents,   \* events pending at each node after initialize
          MaxSends         \* bound on the events sent by workers

ASSUME SizesAssumption == NumNodes \in Nat \ {0} /\ NumWorkers \in Nat \ {0}

Node   == 0 .. NumNodes - 1
Worker == Node \X (0 .. NumWorkers - 1)
Link   == Node \X Node

ASSUME EventsAssumption == InitialEvents \in [Node -> Nat]

NodeWorkers(n) == {w \in Worker : w[1] = n}

VARIABLES state,               \* state_: "ACTIVE" or "PASSIVE"
          sticky_state,        \* ACTIVE if the node was since the last token
          state_by_thread,
          active_thread_count,
          msg_count,           \* events sent minus received since the last token
          is_master,           \* the node holds the token
          terminate,
          pending,             \* events in the node's event set
          aggregate,           \* events waiting at the sender, per link
          channel,             \* what is on each link
          wpc,                 \* a worker's place in processEvents
          mpc,                 \* a master's place in receiveTerminationToken
          sends

termVars == <<state, sticky_state, state_by_thread, active_thread_count,
              msg_count, is_master, terminate>>
netVars  == <<aggregate, channel>>
vars     == <<termVars, pending, netVars, wpc, mpc, sends>>

Init ==
    /\ state = [n \in Node |-> "ACTIVE"]
    /\ sticky_state = [n \in Node |-> "ACTIVE"]
    /\ state_by_thread = [w \in Worker |-> "ACTIVE"]
    /\ active_thread_count = [n \in Node |-> NumWorkers]
    /\ msg_count = [n \in Node |-> 0]
    /\ is_master = [n \in Node |-> n = 0]
    /\ terminate = [n \in Node |-> FALSE]
    /\ pending = InitialEvents
    /\ aggregate = [l \in Link |-> 0]
    /\ channel = [l \in Link |-> <<>>]
    /\ wpc = [w \in Worker |-> "getEvent"]
    /\ mpc = [n \in Node |-> "handleMessages"]
    /\ sends = 0

Events(k) == [i \in 1 .. k |-> [type |-> "event"]]
Next1(n)  == (n + 1) % NumNodes

(* startSendRequests: a control message takes the events waiting for its   *)
(* receiver along.                                                         *)
SendControl(links, msg) ==
    /\ channel' = [l \in Link |-> IF l \in links
                                  THEN channel[l] \o Events(aggregate[l]) \o <<msg>>
                                  ELSE channel[l]]
    /\ aggregate' = [l \in Link |-> IF l \in links THEN 0 ELSE aggregate[l]]

(* flushMessages, called by the GVT managers, or a full aggregate.         *)
Flush(l) ==
    /\ aggregate[l] > 0
    /\ channel' = [channel EXCEPT ![l] = @ \o Events(aggregate[l])]
    /\ aggregate' = [aggregate EXCEPT ![l] = 0]
    /\ UNCHANGED <<termVars, pending, wpc, mpc, sends>>

-----------------------------------------------------------------------------
(* The workers.                                                            *)

GetEvent(w) ==
    /\ wpc[w] = "getEvent" /\ pending[w[1]] > 0 /\ ~ terminate[w[1]]
    /\ pending' = [pending EXCEPT ![w[1]] = @ - 1]
    /\ wpc' = [wpc EXCEPT ![w] =
                 IF state_by_thread[w] = "PASSIVE" THEN "setThreadActive" ELSE "process"]
    /\ UNCHANGED <<termVars, netVars, mpc, sends>>

setThreadActive(w) ==
    /\ wpc[w] = "setThreadActive"
    /\ state_by_thread' = [state_by_thread EXCEPT ![w] = "ACTIVE"]
    /\ active_thread_count' = [active_thread_count EXCEPT ![w[1]] = @ + 1]
    /\ state' = [state EXCEPT ![w[1]] = "ACTIVE"]
    /\ sticky_state' = [sticky_state EXCEPT ![w[1]] = "ACTIVE"]
    /\ wpc' = [wpc EXCEPT ![w] = "process"]
    /\ UNCHANGED <<msg_count, is_master, terminate, pending, netVars, mpc, sends>>

(* Faulty setThreadPassive: the count is tested before it is decremented.  *)
PassiveWhenNone(w) ==
    /\ wpc[w] = "getEvent" /\ pending[w[1]] = 0 /\ ~ terminate[w[1]]
    /\ state_by_thread[w] = "ACTIVE"
    /\ state_by_thread' = [state_by_thread EXCEPT ![w] = "PASSIVE"]
    /\ active_thread_count' = [active_thread_count EXCEPT ![w[1]] = @ - 1]
    /\ state' = [state EXCEPT ![w[1]] =
                   IF active_thread_count[w[1]] = 0 THEN "PASSIVE" ELSE @]
    /\ UNCHANGED <<sticky_state, msg_count, is_master, terminate, pending,
                   netVars, wpc, mpc, sends>>

(* getEvent returned null.                                                 *)
setThreadPassive(w) ==
    /\ wpc[w] = "getEvent" /\ pending[w[1]] = 0 /\ ~ terminate[w[1]]
    /\ state_by_thread[w] = "ACTIVE"
    /\ state_by_thread' = [state_by_thread EXCEPT ![w] = "PASSIVE"]
    /\ active_thread_count' = [active_thread_count EXCEPT ![w[1]] = @ - 1]
    /\ state' = [state EXCEPT ![w[1]] =
                   IF active_thread_count[w[1]] = 1 THEN "PASSIVE" ELSE @]
    /\ UNCHANGED <<sticky_state, msg_count, is_master, terminate, pending,
                   netVars, wpc, mpc, sends>>

SendLocalEvent(w) ==
    /\ wpc[w] = "process" /\ sends < MaxSends
    /\ sends' = sends + 1
    /\ pending' = [pending EXCEPT ![w[1]] = @ + 1]
    /\ UNCHANGED <<termVars, netVars, wpc, mpc>>

(* enqueueRemoteEvent: the event is counted, then inserted.                *)
updateMsgCount(w) ==
    /\ wpc[w] = "process" /\ sends < MaxSends
    /\ sends' = sends + 1
    /\ msg_count' = [msg_count EXCEPT ![w[1]] = @ + 1]
    /\ wpc' = [wpc EXCEPT ![w] = "insertMessage"]
    /\ UNCHANGED <<state, sticky_state, state_by_thread, active_thread_count,
                   is_master, terminate, pending, netVars, mpc>>

insertMessage(w, to) ==
    /\ wpc[w] = "insertMessage" /\ to # w[1]
    /\ aggregate' = [aggregate EXCEPT ![<<w[1], to>>] = @ + 1]
    /\ wpc' = [wpc EXCEPT ![w] = "process"]
    /\ UNCHANGED <<termVars, pending, channel, mpc, sends>>

Processed(w) ==
    /\ wpc[w] = "process"
    /\ wpc' = [wpc EXCEPT ![w] = "getEvent"]
    /\ UNCHANGED <<termVars, pending, netVars, mpc, sends>>

-----------------------------------------------------------------------------
(* The master threads.                                                     *)

Arrives(l, type) == /\ mpc[l[2]] = "handleMessages"
                    /\ channel[l] # <<>> /\ Head(channel[l]).type = type

ReceiveEvent(l) ==
    /\ Arrives(l, "event")
    /\ channel' = [channel EXCEPT ![l] = Tail(@)]
    /\ msg_count' = [msg_count EXCEPT ![l[2]] = @ - 1]
    /\ pending' = [pending EXCEPT ![l[2]] = @ + 1]
    /\ UNCHANGED <<state, sticky_state, state_by_thread, active_thread_count,
                   is_master, terminate, aggregate, wpc, mpc, sends>>

Token(initiator, count) == [type |-> "token", initiator |-> initiator, count |-> count]

OnLink(l, type) == {i \in DOMAIN channel[l] : channel[l][i].type = type}

(* Faulty InitiateToken: the node keeps thinking it holds the token.       *)
InitiateAsMaster(n) ==
    /\ mpc[n] = "handleMessages" /\ ~ terminate[n]
    /\ state[n] = "PASSIVE" /\ is_master[n] /\ OnLink(<<n, Next1(n)>>, "token") = {}
    /\ msg_count' = [msg_count EXCEPT ![n] = 0]
    /\ SendControl({<<n, Next1(n)>>}, Token(n, msg_count[n]))
    /\ UNCHANGED <<is_master, state, sticky_state, state_by_thread,
                   active_thread_count, terminate, pending, wpc, mpc, sends>>

(* nodePassive() in startSimulation; the master sends its own token.       *)
(* Bound: not while a terminator is on its way to the master, which would  *)
(* only send further terminators.                                          *)
InitiateToken(n) ==
    /\ mpc[n] = "handleMessages" /\ ~ terminate[n]
    /\ \A from \in Node : OnLink(<<from, n>>, "terminator") = {}
    /\ state[n] = "PASSIVE" /\ is_master[n]
    /\ is_master' = [is_master EXCEPT ![n] = FALSE]
    /\ msg_count' = [msg_count EXCEPT ![n] = 0]
    /\ SendControl({<<n, Next1(n)>>}, Token(n, msg_count[n]))
    /\ UNCHANGED <<state, sticky_state, state_by_thread, active_thread_count,
                   terminate, pending, wpc, mpc, sends>>

(* receiveTerminationToken up to its last statement.  The token may have   *)
(* overtaken events sent to the same node, and the node's workers, which   *)
(* have to take an event before the node counts as active ...              *)
receiveTerminationToken(l) ==
    LET n   == l[2]
        msg == Head(channel[l])
        rest == [channel EXCEPT ![l] = Tail(@)]
        out  == <<n, Next1(n)>>
    IN  /\ Arrives(l, "token")
        /\ IF sticky_state[n] = "PASSIVE" /\ msg.initiator = n
           THEN /\ is_master' = [is_master EXCEPT ![n] = TRUE]
                /\ IF msg.count = 0
                   THEN /\ channel' = [k \in Link |->
                              IF k[1] = n
                              THEN rest[k] \o Events(aggregate[k])
                                           \o <<[type |-> "terminator"]>>
                              ELSE rest[k]]
                        /\ aggregate' = [k \in Link |-> IF k[1] = n THEN 0 ELSE aggregate[k]]
                   ELSE channel' = rest /\ UNCHANGED aggregate
                /\ UNCHANGED msg_count
           ELSE IF sticky_state[n] = "PASSIVE"
           THEN /\ is_master' = [is_master EXCEPT ![n] = FALSE]
                /\ msg_count' = [msg_count EXCEPT ![n] = 0]
                /\ channel' = [rest EXCEPT ![out] = @ \o Events(aggregate[out]) \o
                                  <<Token(msg.initiator, msg_count[n] + msg.count)>>]
                /\ aggregate' = [aggregate EXCEPT ![out] = 0]
           ELSE /\ is_master' = [is_master EXCEPT ![n] = TRUE]
                /\ channel' = rest
                /\ UNCHANGED <<msg_count, aggregate>>
        /\ mpc' = [mpc EXCEPT ![n] = state[n]]
        /\ UNCHANGED <<state, sticky_state, state_by_thread, active_thread_count,
                       terminate, pending, wpc, sends>>

(* Faulty SetSticky: once active, always active.                           *)
StickyForEver(n) ==
    /\ mpc[n] # "handleMessages"
    /\ mpc' = [mpc EXCEPT ![n] = "handleMessages"]
    /\ UNCHANGED <<termVars, pending, netVars, wpc, sends>>

(* ... and that statement, sticky_state_ = state_, with the value just     *)
(* read: the lock is not held.                                             *)
SetSticky(n) ==
    /\ mpc[n] # "handleMessages"
    /\ sticky_state' = [sticky_state EXCEPT ![n] = mpc[n]]
    /\ mpc' = [mpc EXCEPT ![n] = "handleMessages"]
    /\ UNCHANGED <<state, state_by_thread, active_thread_count, msg_count, is_master,
                   terminate, pending, netVars, wpc, sends>>

receiveTerminator(l) ==
    /\ Arrives(l, "terminator")
    /\ channel' = [channel EXCEPT ![l] = Tail(@)]
    /\ terminate' = [terminate EXCEPT ![l[2]] = TRUE]
    /\ UNCHANGED <<state, sticky_state, state_by_thread, active_thread_count,
                   msg_count, is_master, pending, aggregate, wpc, mpc, sends>>

WorkerStep(w) == \/ GetEvent(w)
                 \/ setThreadActive(w)
                 \/ setThreadPassive(w)
                 \/ SendLocalEvent(w)
                 \/ updateMsgCount(w)
                 \/ \E to \in Node : insertMessage(w, to)
                 \/ Processed(w)

Receive(l) == \/ ReceiveEvent(l)
              \/ receiveTerminationToken(l)
              \/ receiveTerminator(l)

Next == \/ \E w \in Worker : WorkerStep(w)
        \/ \E l \in Link : Receive(l) \/ Flush(l)
        \/ \E n \in Node : InitiateToken(n) \/ SetSticky(n)

Spec == Init /\ [][Next]_vars

(* Loops go on, messages arrive, and the GVT manager flushes now and then. *)
FairSpec == /\ Spec
            /\ \A w \in Worker : WF_vars(WorkerStep(w))
            /\ \A n \in Node : /\ WF_vars(InitiateToken(n) \/ SetSticky(n))
                               /\ SF_vars(\E from \in Node : Receive(<<from, n>>))
                               /\ WF_vars(\E to \in Node : Flush(<<n, to>>))

-----------------------------------------------------------------------------
(* Properties.                                                             *)

WorkLeft == \/ \E n \in Node : pending[n] > 0
            \/ \E l \in Link : aggregate[l] > 0 \/ OnLink(l, "event") # {}
            \/ \E w \in Worker : wpc[w] # "getEvent"

(* The simulation terminates only when no event is pending, on its way or  *)
(* being processed anywhere.                                               *)
NoEarlyTermination ==
    /\ \A n \in Node : terminate[n] => ~ WorkLeft
    /\ \A l \in Link : OnLink(l, "terminator") # {} => ~ WorkLeft

(* There is one token, held by a master or on a link: it is never lost or  *)
(* duplicated, whoever turns passive when.                                 *)
OneToken ==
    LET onLink == UNION {{l} \X OnLink(l, "token") : l \in Link}
    IN  Cardinality(onLink) + Cardinality({n \in Node : is_master[n]}) = 1

(* The node is passive exactly when all its threads are, whatever order    *)
(* they change in.                                                         *)
StateFollowsThreads ==
    \A n \in Node :
        LET active == {w \in NodeWorkers(n) : state_by_thread[w] = "ACTIVE"}
        IN  /\ active_thread_count[n] = Cardinality(active)
            /\ state[n] = "PASSIVE" <=> active = {}

(* When all events are processed, all nodes learn of it.                   *)
EventuallyTerminates == <>(\A n \in Node : terminate[n])
=============================================================================
