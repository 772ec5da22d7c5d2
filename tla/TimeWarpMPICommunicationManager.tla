------------------- MODULE TimeWarpMPICommunicationManager -------------------
(***************************************************************************)
(* Messages between nodes (TimeWarpMPICommunicationManager.cpp).  Any      *)
(* thread inserts messages into the send queue; the master thread moves    *)
(* them to the aggregate of their receiver and packs an aggregate into one *)
(* MPI message when it is full, when a message other than an event joins   *)
(* it, or when it is flushed.                                              *)
(*                                                                         *)
(* MPI is external: messages of one sender match the receives the receiver *)
(* posts in the order they were sent, but receives complete in any order.  *)
(* Sends complete by themselves.                                           *)
(***************************************************************************)
EXTENDS Naturals, Sequences, FiniteSets
Seqs == INSTANCE SequencesExt

CONSTANTS NumNodes,
          max_aggregate,
          MaxMessages    \* per node, a bound on the messages it inserts

ASSUME AggregateAssumption == NumNodes \in Nat /\ max_aggregate \in Nat \ {0}

Node == 0 .. NumNodes - 1

VARIABLES send_queue,          \* messages waiting for the master thread
          aggregate_messages,  \* per node and receiver
          channel,             \* MPI messages sent and not matched, per link
          receives,            \* matched receives, in the order of posting
          handled,             \* messages handled, per node
          inserted             \* messages inserted, per node

commVars == <<send_queue, aggregate_messages, channel, receives, handled, inserted>>

Message(n, to, event) == [from |-> n, to |-> to, event |-> event, no |-> Len(inserted[n]) + 1]

CommInit == /\ send_queue = [n \in Node |-> <<>>]
            /\ aggregate_messages = [n \in Node |-> [to \in Node |-> <<>>]]
            /\ channel = [link \in Node \X Node |-> <<>>]
            /\ receives = [n \in Node |-> <<>>]
            /\ handled = [n \in Node |-> <<>>]
            /\ inserted = [n \in Node |-> <<>>]

insertMessage(n, to, event) ==
    /\ Len(inserted[n]) < MaxMessages[n]
    /\ send_queue' = [send_queue EXCEPT ![n] = Append(@, Message(n, to, event))]
    /\ inserted' = [inserted EXCEPT ![n] = Append(@, Message(n, to, event))]
    /\ UNCHANGED <<aggregate_messages, channel, receives, handled>>

(* Faulty Aggregate: a control message leaves at once, by itself.          *)
ControlAlone(s, msg) ==
    LET packed == Append(s.aggregate[msg.to], msg)
    IN  IF ~ msg.event
        THEN [s EXCEPT !.sent[msg.to] = Append(@, <<msg>>)]
        ELSE IF Len(packed) >= max_aggregate
        THEN [aggregate |-> [s.aggregate EXCEPT ![msg.to] = <<>>],
              sent      |-> [s.sent EXCEPT ![msg.to] = Append(@, packed)]]
        ELSE [s EXCEPT !.aggregate[msg.to] = packed]

(* One message goes from the send queue of n to the aggregate of its       *)
(* receiver, and the aggregate to MPI if it is time.  s has the aggregates *)
(* of n and what n has sent.                                               *)
Aggregate(s, msg) ==
    LET packed == Append(s.aggregate[msg.to], msg)
    IN  IF Len(packed) >= max_aggregate \/ ~ msg.event
        THEN [aggregate |-> [s.aggregate EXCEPT ![msg.to] = <<>>],
              sent      |-> [s.sent EXCEPT ![msg.to] = Append(@, packed)]]
        ELSE [aggregate |-> [s.aggregate EXCEPT ![msg.to] = packed], sent |-> s.sent]

(* The loop over the send queue: after[i] is the outcome of its first i    *)
(* messages.                                                               *)
Aggregated(n) ==
    LET after[i \in 0 .. Len(send_queue[n])] ==
            IF i = 0
            THEN [aggregate |-> aggregate_messages[n], sent |-> [to \in Node |-> <<>>]]
            ELSE Aggregate(after[i - 1], send_queue[n][i])
    IN  after[Len(send_queue[n])]

startSendRequests(n) ==
    /\ send_queue[n] # <<>>
    /\ send_queue' = [send_queue EXCEPT ![n] = <<>>]
    /\ aggregate_messages' = [aggregate_messages EXCEPT ![n] = Aggregated(n).aggregate]
    /\ channel' = [link \in Node \X Node |->
                      IF link[1] = n THEN channel[link] \o Aggregated(n).sent[link[2]]
                      ELSE channel[link]]
    /\ UNCHANGED <<receives, handled, inserted>>

(* Faulty flushMessages: the loop over the receivers stops too early.      *)
FlushAllButLast(n) ==
    /\ aggregate_messages[n][0] # <<>>
    /\ channel' = [channel EXCEPT ![<<n, 0>>] = Append(@, aggregate_messages[n][0])]
    /\ aggregate_messages' = [aggregate_messages EXCEPT ![n][0] = <<>>]
    /\ UNCHANGED <<send_queue, receives, handled, inserted>>

(* packAndSend to every receiver, also of what is empty (not modelled: an  *)
(* empty MPI message has no effect).                                       *)
flushMessages(n) ==
    /\ \E to \in Node : aggregate_messages[n][to] # <<>>
    /\ channel' = [link \in Node \X Node |->
                      IF link[1] = n /\ aggregate_messages[n][link[2]] # <<>>
                      THEN Append(channel[link], aggregate_messages[n][link[2]])
                      ELSE channel[link]]
    /\ aggregate_messages' = [aggregate_messages EXCEPT ![n] = [to \in Node |-> <<>>]]
    /\ UNCHANGED <<send_queue, receives, handled, inserted>>

(* MPI_Iprobe found a message; the receive posted matches the first one of *)
(* some sender.                                                            *)
startReceiveRequests(link) ==
    /\ channel[link] # <<>>
    /\ receives' = [receives EXCEPT ![link[2]] = Append(@, Head(channel[link]))]
    /\ channel' = [channel EXCEPT ![link] = Tail(@)]
    /\ UNCHANGED <<send_queue, aggregate_messages, handled, inserted>>

(* MPI_Test succeeds for the i-th receive: its messages are handled in the *)
(* order they were packed.                                                 *)
testReceiveRequests(n, i) ==
    /\ handled' = [handled EXCEPT ![n] = @ \o receives[n][i]]
    /\ receives' = [receives EXCEPT ![n] = Seqs!RemoveAt(@, i)]
    /\ UNCHANGED <<send_queue, aggregate_messages, channel, inserted>>

CommNext == \E n \in Node :
            \/ \E to \in Node : insertMessage(n, to, TRUE)
            \/ \E to \in Node : insertMessage(n, to, FALSE)
            \/ startSendRequests(n)
            \/ flushMessages(n)
            \/ \E from \in Node : startReceiveRequests(<<from, n>>)
            \/ \E i \in DOMAIN receives[n] : testReceiveRequests(n, i)

CommSpec == CommInit /\ [][CommNext]_commVars

(* The master loop goes round, the GVT manager flushes now and then, MPI   *)
(* delivers.                                                               *)
CommFairSpec ==
    /\ CommSpec
    /\ \A n \in Node : /\ WF_commVars(startSendRequests(n))
                       /\ WF_commVars(flushMessages(n))
                       /\ WF_commVars(receives[n] # <<>> /\ testReceiveRequests(n, 1))
                       /\ \A from \in Node : WF_commVars(startReceiveRequests(<<from, n>>))

-----------------------------------------------------------------------------
(* Properties.                                                             *)

(* Where messages to a node can be: handled, in a receive, under way, in   *)
(* the aggregate, in the send queue; what is in front is ahead.            *)
Boxes(from, to) == <<handled[to]>> \o receives[to] \o channel[<<from, to>>]
                       \o <<aggregate_messages[from][to], send_queue[from]>>

(* The places of the messages from one node to another: box and position.  *)
Places(from, to) ==
    LET b == Boxes(from, to)
    IN  {p \in UNION {{i} \X DOMAIN b[i] : i \in DOMAIN b} :
            b[p[1]][p[2]].from = from /\ b[p[1]][p[2]].to = to}

MessageAt(from, to, p) == Boxes(from, to)[p[1]][p[2]]

OnItsWay(from, to) == {p \in Places(from, to) : p[1] > 1}

(* Every message inserted is in exactly one place or handled once, also if *)
(* receives complete in any order; and nothing else is anywhere.           *)
NothingLost ==
    \A from, to \in Node :
        /\ {MessageAt(from, to, p) : p \in Places(from, to)}
               = {m \in Seqs!ToSet(inserted[from]) : m.to = to}
        /\ \A p, q \in Places(from, to) :
               MessageAt(from, to, p) = MessageAt(from, to, q) => p = q

(* What has not been handled is in the order it was inserted: aggregation  *)
(* never lets a control message pass an event to the same node.  Only the  *)
(* order in which MPI completes receives can.                              *)
NothingPassed ==
    \A from, to \in Node : \A p, q \in OnItsWay(from, to) :
        p[1] < q[1] \/ (p[1] = q[1] /\ p[2] < q[2])
            => MessageAt(from, to, p).no < MessageAt(from, to, q).no

(* No message is lost, handled twice, or passed by a later one before the  *)
(* receives complete.                                                      *)
NothingLostOrPassed == NothingLost /\ NothingPassed

(* An aggregate never exceeds what its buffer was sized for.               *)
AggregateFits ==
    /\ \A from, to \in Node : Len(aggregate_messages[from][to]) < max_aggregate
    /\ \A link \in Node \X Node : \A i \in DOMAIN channel[link] :
          Len(channel[link][i]) <= max_aggregate

(* An event never stays in an aggregate for ever.                          *)
EventuallyHandled ==
    \A from, to \in Node : []<>(OnItsWay(from, to) = {})
=============================================================================
