---------------------- MODULE TimeWarpEventDispatcherLog ----------------------
(***************************************************************************)
(* The dispatcher with the whole history of every LP next to it, of which  *)
(* the queues of the engine are what rollback and fossil collection have   *)
(* left: the events the LP has received and not undone, each with what     *)
(* became of the LP's sends on it.  The history only records: every step   *)
(* of the engine says what becomes of it and none depends on it.  With it  *)
(* one can say what the engine has computed when its own records have been *)
(* collected.                                                              *)
(***************************************************************************)
EXTENDS TimeWarpEventDispatcherRefinement

(* For each LP entries [event, sent].  The first has InitialEvent and what *)
(* initializeLP sent; `sent' has NoEvent where a send was dropped.         *)
VARIABLE log

InitialEntry == [event |-> InitialEvent, sent |-> <<>>]

LogInit == HistoryInit /\ log = [lp \in LP |-> <<InitialEntry>>]

(* The events of the entries.                                              *)
EventsOf(q) == [i \in DOMAIN q |-> q[i].event]

(* A rollback undoes what is not before the straggler.                     *)
UndoLog(t) ==
    LET lp == held[t].recv
    IN  log' = [log EXCEPT ![lp] = SubSeq(@, 1, KeptBy(EventsOf(@), held[t]))]

LogEvent(t) ==
    log' = [log EXCEPT ![held[t].recv] = Append(@, [event |-> held[t], sent |-> <<>>])]

(* What is sent is a consequence of the LP's latest event.                 *)
LogSend(t) ==
    LET next == Head(new_events[t])
        lp   == next.sender
        q    == log[lp]
        e    == IF next.ts <= MaxSimTime
                THEN NewEvent(lp, next, next.source.ts, generation[lp]) ELSE NoEvent
        last == [event |-> q[Len(q)].event, sent |-> Append(q[Len(q)].sent, e)]
    IN  log' = [log EXCEPT ![lp] = [q EXCEPT ![Len(q)] = last]]

QuietStep ==
    \/ \E t \in Worker : \/ \E event \in Pending : GetEvent(t, event)
                         \/ SendAntiMessage(t)
                         \/ CoastForward(t)
                         \/ CancelEvent(t)
                         \/ FossilCollect(t)
                         \/ ReplenishScheduler(t)
    \/ \E lp \in LP : InitializeLP(lp)
    \/ StartWorkers
    \/ ReceiveStep
    \/ Terminate
    \/ \E lp \in LP : FinalCollect(lp)
    \/ \E time \in GvtTimes : AdvanceGVT(time)

LogStep == /\ \/ \E t \in Worker : Rollback(t) /\ UndoLog(t)
              \/ \E t \in Worker : ReceiveEvent(t) /\ LogEvent(t)
              \/ \E t \in Thread : SendEvent(t) /\ LogSend(t)
              \/ QuietStep /\ UNCHANGED log
           /\ Remember

LogNext == \/ Running(LogStep)
           \/ (\E t \in Worker : Abort(t)) /\ UNCHANGED <<History, log>>

LogSpec == LogInit /\ [][LogNext]_<<vars, History, log>> /\ Fairness

-----------------------------------------------------------------------------
(* The inductive invariant.                                                *)

Entry == [event : Message \cup {InitialEvent}, sent : Seq(Event \cup {NoEvent})]

(* The events an LP has received, and what it has sent on them.            *)
Logged(lp) == {log[lp][i].event : i \in 2 .. Len(log[lp])}

SentAt(lp, i) == {log[lp][i].sent[j] : j \in DOMAIN log[lp][i].sent} \ {NoEvent}
SentBy(lp)    == UNION {SentAt(lp, i) : i \in DOMAIN log[lp]}

(* The log is in the order of operator<, after the initial event.          *)
LogInOrder(lp) ==
    /\ log[lp] # <<>> /\ log[lp][1].event = InitialEvent
    /\ \A i \in 2 .. Len(log[lp]) : log[lp][i].event \in Message /\ log[lp][i].event.recv = lp
    /\ \A i, j \in DOMAIN log[lp] : i < j => Before(log[lp][i].event, log[lp][j].event)

(* It ends with the processed queue and the event being handled; what has  *)
(* been collected is older than the first saved state.                     *)
Collected(lp) == Len(log[lp]) - Len(processed_queue[lp])
                 - (IF JustReceived(lp) = {} THEN 0 ELSE 1)
LogEndsInQueue(lp) ==
    pc[Master] # "terminated" =>
        /\ \A e \in JustReceived(lp) : log[lp][Len(log[lp])].event = e
        /\ Collected(lp) > 0
        /\ \A i \in DOMAIN processed_queue[lp] :
               log[lp][Collected(lp) + i].event = processed_queue[lp][i]
        /\ \A i \in 2 .. Collected(lp) : /\ state_queue[lp] # <<>>
                                         /\ log[lp][i].event.ts < state_queue[lp][1].event.ts

(* An LP's state reflects its log, a saved one the log up to its event.    *)
StateAfter(lp, i) == [k \in 1 .. i - 1 |-> Trace(log[lp][k + 1].event)]

StateIsLogged(lp) == ~ InPast(lp) => state[lp] = StateAfter(lp, Len(log[lp]))

SavedIsLogged(lp) ==
    pc[Master] # "terminated" =>
        \A i \in DOMAIN state_queue[lp] :
            \E k \in DOMAIN log[lp] : /\ log[lp][k].event = state_queue[lp][i].event
                                      /\ state_queue[lp][i].state = StateAfter(lp, k)

(* What the output queue records is logged.                                *)
OutputIsLogged(lp) ==
    \A m \in DOMAIN output_queue[lp] :
        \E i \in DOMAIN log[lp] : /\ log[lp][i].event = output_queue[lp][m].input
                                  /\ output_queue[lp][m].output \in SentAt(lp, i)

(* What the model makes the LP send on the i-th event of the log.          *)
LoggedSends(lp, i) ==
    IF i = 1 THEN InitialSends[lp] ELSE Sends(lp, StateAfter(lp, i - 1), log[lp][i].event)

(* What becomes of a send.                                                 *)
Becomes(made, lp, send, send_time) ==
    made = IF send.ts <= MaxSimTime THEN NewEvent(lp, send, send_time, made.gen) ELSE NoEvent

SendsFor(t, lp) == new_events[t] # <<>> /\ Head(new_events[t]).sender = lp

(* Events have sent what the model says, the last one maybe not all yet.   *)
SentIsModelled(lp) ==
    \A i \in DOMAIN log[lp] :
        LET made  == log[lp][i].sent
            sends == LoggedSends(lp, i)
        IN  /\ Len(made) <= Len(sends)
            /\ \A j \in DOMAIN made : Becomes(made[j], lp, sends[j], log[lp][i].event.ts)
            /\ IF state_queue[lp] = <<>>
               THEN made = <<>>
               ELSE \/ Len(made) = Len(sends)
                    \/ i = Len(log[lp]) /\ \E t \in Thread : SendsFor(t, lp)

(* What a thread has yet to send is the rest.                              *)
RestIsModelled(t) ==
    \A lp \in LP : \A last \in DOMAIN log[lp] : SendsFor(t, lp) /\ last = Len(log[lp]) =>
        LET made  == log[lp][last].sent
            sends == LoggedSends(lp, last)
        IN  /\ state_queue[lp] # <<>>
            /\ Len(sends) = Len(made) + Len(new_events[t])
            /\ \A k \in DOMAIN new_events[t] :
                   new_events[t][k] = [source |-> log[lp][last].event, sender |-> lp,
                                       recv |-> sends[Len(made) + k].recv,
                                       ts |-> sends[Len(made) + k].ts]

(* Generation numbers follow the order of the log.                         *)
SentInOrder(lp) ==
    \A i, k \in DOMAIN log[lp] :
        \A j \in DOMAIN log[lp][i].sent, l \in DOMAIN log[lp][k].sent :
            LET e == log[lp][i].sent[j]
                f == log[lp][k].sent[l]
            IN  e # NoEvent /\ f # NoEvent /\ (i < k \/ (i = k /\ j < l)) => e.gen < f.gen

(* What was sent stands, and has arrived when the GVT passes it.           *)
SentStands(lp) ==
    \A e \in SentBy(lp) : /\ e \in Known
                          /\ NegativeEvent(e) \notin Known
                          /\ e \notin BeingCancelled
                          /\ e.ts < horizon => e \in Logged(e.recv)

(* What is known stands, or is being cancelled, or was cancelled.          *)
KnownIsSent ==
    \A e \in Known : e.type = POSITIVE => \/ e \in SentBy(e.sender)
                                          \/ e \in BeingCancelled
                                          \/ NegativeEvent(e) \in Known

(* An LP does not keep what has been cancelled.                            *)
LoggedStands(lp) ==
    \A e \in Logged(lp) : /\ e \in sent
                          /\ NegativeEvent(e) \in Known =>
                                 NegativeEvent(e) \in Pending \cup InNetwork

LogInv ==
    /\ log \in [LP -> Seq(Entry)]
    /\ \A lp \in LP : /\ LogInOrder(lp)
                      /\ LogEndsInQueue(lp)
                      /\ StateIsLogged(lp)
                      /\ SavedIsLogged(lp)
                      /\ OutputIsLogged(lp)
                      /\ SentIsModelled(lp)
                      /\ SentInOrder(lp)
                      /\ SentStands(lp)
                      /\ LoggedStands(lp)
    /\ \A t \in Thread : RestIsModelled(t)
    /\ KnownIsSent

(* What the queues, states and messages of the engine say agrees with the  *)
(* history of every LP: rollback undoes exactly what is not before the     *)
(* straggler, fossil collection loses nothing that still matters, saved    *)
(* states and generation numbers are those of the history, and what was    *)
(* sent for it, and only that, stands.                                     *)
HistoryInv == EngineInv /\ LogInv
=============================================================================
