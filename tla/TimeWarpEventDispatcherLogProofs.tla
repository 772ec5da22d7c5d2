------------------- MODULE TimeWarpEventDispatcherLogProofs -------------------
(***************************************************************************)
(* What the engine's queues, states and messages say is what the history   *)
(* of every LP says, for every number of LPs, schedulers and workers, any  *)
(* state period, any network and any simulation model, those included      *)
(* whose events take effect at the time at which they are processed.       *)
(***************************************************************************)
EXTENDS TimeWarpEventDispatcherLog, TimeWarpEventDispatcherProofs, FiniteSetTheorems

-----------------------------------------------------------------------------
(* The log.                                                                *)

LEMMA InitialEventFacts ==
  /\ InitialEvent \in Event /\ InitialEvent \notin Message /\ InitialEvent.ts = 0
  /\ InitialEvent.sender = 0
  <1>1. InitialEvent \in Event /\ InitialEvent.recv = 0 /\ InitialEvent.ts = 0
        /\ InitialEvent.sender = 0
    BY DEF InitialEvent, Event, NEGATIVE, POSITIVE
  <1> QED
    BY <1>1, MessageFacts DEF LP

LEMMA LogFacts ==
  ASSUME LogInv, NEW lp \in LP
  PROVE  /\ log[lp] \in Seq(Entry) /\ Len(log[lp]) \in Nat /\ Len(log[lp]) >= 1
         /\ DOMAIN log[lp] = 1 .. Len(log[lp])
         /\ 1 \in DOMAIN log[lp] /\ Len(log[lp]) \in DOMAIN log[lp]
         /\ log[lp][1].event = InitialEvent
         /\ \A i \in DOMAIN log[lp] :
               /\ log[lp][i] \in Entry
               /\ log[lp][i].event \in Event
               /\ log[lp][i].event \in Message \cup {InitialEvent}
               /\ log[lp][i].event.ts \in Nat
               /\ log[lp][i].event.ts < Infinity \/ i = 1
               /\ log[lp][i].sent \in Seq(Event \cup {NoEvent})
               /\ Len(log[lp][i].sent) \in Nat
               /\ DOMAIN log[lp][i].sent = 1 .. Len(log[lp][i].sent)
  <1> DEFINE q == log[lp]
  <1>1. q \in Seq(Entry) /\ q # <<>> /\ q[1].event = InitialEvent
    BY DEF LogInv, LogInOrder
  <1>2. Len(q) \in Nat /\ Len(q) >= 1 /\ DOMAIN q = 1 .. Len(q)
    BY <1>1
  <1>3. ASSUME NEW i \in DOMAIN q
        PROVE  /\ q[i] \in Entry /\ q[i].event \in Event
               /\ q[i].event \in Message \cup {InitialEvent}
               /\ q[i].event.ts \in Nat
               /\ q[i].event.ts < Infinity \/ i = 1
               /\ q[i].sent \in Seq(Event \cup {NoEvent})
    <2>1. q[i] \in Entry
      BY <1>1, <1>2
    <2>2. /\ q[i].event \in Message \cup {InitialEvent}
          /\ q[i].sent \in Seq(Event \cup {NoEvent})
      BY <2>1 DEF Entry
    <2>3. q[i].event \in Event
      BY <2>2, MessageFacts, InitialEventFacts
    <2>4. q[i].event.ts < Infinity \/ i = 1
      <3>1. i = 1 \/ i \in 2 .. Len(q)
        BY <1>2
      <3> QED
        BY <3>1, MessageFacts DEF LogInv, LogInOrder
    <2> QED
      BY <2>1, <2>2, <2>3, <2>4 DEF Event
  <1>4. \A i \in DOMAIN q : Len(q[i].sent) \in Nat /\ DOMAIN q[i].sent = 1 .. Len(q[i].sent)
    BY <1>3
  <1> QED
    BY <1>1, <1>2, <1>3, <1>4

LEMMA SentByIs ==
  ASSUME NEW lp, NEW e
  PROVE  /\ e \in SentBy(lp) <=> \E i \in DOMAIN log[lp] : e \in SentAt(lp, i)
         /\ \A i : e \in SentAt(lp, i) <=>
               e # NoEvent /\ \E j \in DOMAIN log[lp][i].sent : e = log[lp][i].sent[j]
  BY DEF SentBy, SentAt

LEMMA SentFacts ==
  ASSUME LogInv, EngineInv, NEW lp \in LP, NEW i \in DOMAIN log[lp], NEW e \in SentAt(lp, i)
  PROVE  /\ e \in Event /\ e.sender = lp /\ e.send = log[lp][i].event.ts
         /\ e.type = POSITIVE /\ e \in SentBy(lp)
         /\ e \in Known /\ e \in Message /\ e.recv \in LP /\ e.ts \in Nat
         /\ NegativeEvent(e) \notin Known /\ e \notin BeingCancelled
  <1>1. PICK j \in DOMAIN log[lp][i].sent : e = log[lp][i].sent[j] /\ e # NoEvent
    BY SentByIs
  <1>2. Becomes(e, lp, LoggedSends(lp, i)[j], log[lp][i].event.ts)
    BY <1>1 DEF LogInv, SentIsModelled
  <1>3. e.sender = lp /\ e.send = log[lp][i].event.ts /\ e.type = POSITIVE
    BY <1>1, <1>2 DEF Becomes, NewEvent
  <1>4. e \in SentBy(lp)
    BY SentByIs
  <1>5. e \in Known /\ NegativeEvent(e) \notin Known /\ e \notin BeingCancelled
    BY <1>4 DEF LogInv, SentStands
  <1>6. e \in Message
    BY <1>3, <1>5, SendableFacts DEF EngineInv, KnownIsIdentified
  <1> QED
    BY <1>3, <1>4, <1>5, <1>6, MessageFacts DEF Event

(* The state after the first entries of the log.                           *)
LEMMA StateAfterFacts ==
  ASSUME LogInv, NEW lp \in LP, NEW i \in DOMAIN log[lp]
  PROVE  /\ StateAfter(lp, i) \in Seq(TraceOf)
         /\ Len(StateAfter(lp, i)) = i - 1
         /\ \A k \in 1 .. i - 1 : /\ k + 1 \in DOMAIN log[lp]
                                  /\ StateAfter(lp, i)[k] = Trace(log[lp][k + 1].event)
  <1>1. /\ i \in Nat /\ i >= 1 /\ i <= Len(log[lp]) /\ Len(log[lp]) \in Nat
        /\ DOMAIN log[lp] = 1 .. Len(log[lp])
    BY LogFacts
  <1>2. \A k \in 1 .. i - 1 : k + 1 \in DOMAIN log[lp]
    BY <1>1
  <1>3. \A k \in 1 .. i - 1 : Trace(log[lp][k + 1].event) \in TraceOf
    BY <1>2, LogFacts, TraceType
  <1> DEFINE T(k) == Trace(log[lp][k + 1].event)
  <1>4. i - 1 \in Nat /\ \A k \in 1 .. i - 1 : T(k) \in TraceOf
    BY <1>1, <1>3
  <1> HIDE DEF T
  <1>5. /\ [k \in 1 .. i - 1 |-> T(k)] \in Seq(TraceOf)
        /\ Len([k \in 1 .. i - 1 |-> T(k)]) = i - 1
        /\ \A k \in 1 .. i - 1 : [n \in 1 .. i - 1 |-> T(n)][k] = T(k)
    BY <1>4
  <1> QED
    BY <1>2, <1>5 DEF StateAfter, T

-----------------------------------------------------------------------------
(* What a step that does not touch an LP leaves alone.                     *)

LEMMA LogStands ==
  ASSUME NEW lp \in LP, log'[lp] = log[lp]
  PROVE  /\ Logged(lp)' = Logged(lp) /\ SentBy(lp)' = SentBy(lp)
         /\ \A i : SentAt(lp, i)' = SentAt(lp, i)
         /\ \A i : StateAfter(lp, i)' = StateAfter(lp, i)
         /\ \A i : LoggedSends(lp, i)' = LoggedSends(lp, i)
         /\ LogInOrder(lp) => LogInOrder(lp)'
         /\ SentInOrder(lp) => SentInOrder(lp)'
  BY DEF Logged, SentBy, SentAt, StateAfter, LoggedSends, LogInOrder, SentInOrder

LEMMA QueueStands ==
  ASSUME NEW lp \in LP, log'[lp] = log[lp], LogEndsInQueue(lp),
         processed_queue'[lp] = processed_queue[lp], state_queue'[lp] = state_queue[lp],
         JustReceived(lp)' = JustReceived(lp),
         pc[Master] = "terminated" => pc'[Master] = "terminated"
  PROVE  LogEndsInQueue(lp)'
  <1>1. Collected(lp)' = Collected(lp)
    BY DEF Collected
  <1> QED
    BY <1>1 DEF LogEndsInQueue

LEMMA StatesStandLogged ==
  ASSUME NEW lp \in LP, log'[lp] = log[lp], StateIsLogged(lp), SavedIsLogged(lp),
         state'[lp] = state[lp], state_queue'[lp] = state_queue[lp],
         InPast(lp)' = InPast(lp),
         pc[Master] = "terminated" => pc'[Master] = "terminated"
  PROVE  StateIsLogged(lp)' /\ SavedIsLogged(lp)'
  <1>1. \A i : StateAfter(lp, i)' = StateAfter(lp, i)
    BY LogStands
  <1> QED
    BY <1>1 DEF StateIsLogged, SavedIsLogged

LEMMA OutputStands ==
  ASSUME NEW lp \in LP, log'[lp] = log[lp], OutputIsLogged(lp),
         \A m \in DOMAIN output_queue'[lp] : \E j \in DOMAIN output_queue[lp] :
             output_queue'[lp][m] = output_queue[lp][j]
  PROVE  OutputIsLogged(lp)'
  <1>1. \A i : SentAt(lp, i)' = SentAt(lp, i)
    BY LogStands
  <1> SUFFICES ASSUME NEW m \in DOMAIN output_queue'[lp]
               PROVE  \E i \in DOMAIN log'[lp] :
                          /\ log'[lp][i].event = output_queue'[lp][m].input
                          /\ output_queue'[lp][m].output \in SentAt(lp, i)'
    BY DEF OutputIsLogged
  <1>2. PICK j \in DOMAIN output_queue[lp] : output_queue'[lp][m] = output_queue[lp][j]
    OBVIOUS
  <1>3. PICK i \in DOMAIN log[lp] : /\ log[lp][i].event = output_queue[lp][j].input
                                    /\ output_queue[lp][j].output \in SentAt(lp, i)
    BY DEF OutputIsLogged
  <1> QED
    BY <1>1, <1>2, <1>3

LEMMA ModelledStands ==
  ASSUME NEW lp \in LP, log'[lp] = log[lp], SentIsModelled(lp),
         state_queue[lp] = <<>> <=> state_queue'[lp] = <<>>,
         \A t \in Thread : SendsFor(t, lp) => SendsFor(t, lp)'
  PROVE  SentIsModelled(lp)'
  <1>1. \A i : LoggedSends(lp, i)' = LoggedSends(lp, i)
    BY LogStands
  <1> SUFFICES ASSUME NEW i \in DOMAIN log[lp]
               PROVE  LET made  == log'[lp][i].sent
                          sends == LoggedSends(lp, i)'
                      IN  /\ Len(made) <= Len(sends)
                          /\ \A j \in DOMAIN made :
                                 Becomes(made[j], lp, sends[j], log'[lp][i].event.ts)
                          /\ IF state_queue'[lp] = <<>>
                             THEN made = <<>>
                             ELSE \/ Len(made) = Len(sends)
                                  \/ /\ i = Len(log'[lp])
                                     /\ \E t \in Thread : SendsFor(t, lp)'
    BY DEF SentIsModelled, Becomes
  <1>2. LET made  == log[lp][i].sent
            sends == LoggedSends(lp, i)
        IN  /\ Len(made) <= Len(sends)
            /\ \A j \in DOMAIN made : Becomes(made[j], lp, sends[j], log[lp][i].event.ts)
            /\ IF state_queue[lp] = <<>>
               THEN made = <<>>
               ELSE \/ Len(made) = Len(sends)
                    \/ i = Len(log[lp]) /\ \E t \in Thread : SendsFor(t, lp)
    BY DEF SentIsModelled
  <1> QED
    BY <1>1, <1>2

LEMMA RestStands ==
  ASSUME NEW t \in Thread, new_events'[t] = new_events[t], RestIsModelled(t),
         \A lp \in LP : SendsFor(t, lp) => log'[lp] = log[lp],
         \A lp \in LP : state_queue'[lp] = <<>> => state_queue[lp] = <<>>
  PROVE  RestIsModelled(t)'
  <1> SUFFICES ASSUME NEW lp \in LP, NEW last \in DOMAIN log'[lp], SendsFor(t, lp)',
                      last = Len(log'[lp])
               PROVE  LET made  == log'[lp][last].sent
                          sends == LoggedSends(lp, last)'
                      IN  /\ state_queue'[lp] # <<>>
                          /\ Len(sends) = Len(made) + Len(new_events'[t])
                          /\ \A k \in DOMAIN new_events'[t] :
                                 new_events'[t][k] = [source |-> log'[lp][last].event,
                                                      sender |-> lp,
                                                      recv |-> sends[Len(made) + k].recv,
                                                      ts |-> sends[Len(made) + k].ts]
    BY DEF RestIsModelled
  <1>1. SendsFor(t, lp) /\ log'[lp] = log[lp]
    BY DEF SendsFor
  <1>2. LoggedSends(lp, last)' = LoggedSends(lp, last)
    BY <1>1, LogStands
  <1>3. last \in DOMAIN log[lp] /\ last = Len(log[lp])
    BY <1>1
  <1>4. LET made  == log[lp][last].sent
            sends == LoggedSends(lp, last)
        IN  /\ state_queue[lp] # <<>>
            /\ Len(sends) = Len(made) + Len(new_events[t])
            /\ \A k \in DOMAIN new_events[t] :
                   new_events[t][k] = [source |-> log[lp][last].event, sender |-> lp,
                                       recv |-> sends[Len(made) + k].recv,
                                       ts |-> sends[Len(made) + k].ts]
    BY <1>1, <1>3 DEF RestIsModelled
  <1> HIDE DEF RestIsModelled
  <1> QED
    BY <1>1, <1>2, <1>4

LEMMA LoggedFacts ==
  ASSUME LogInv, NEW lp \in LP, NEW e \in Logged(lp)
  PROVE  /\ e \in Message /\ e \in Event /\ e.recv = lp /\ e.type = POSITIVE /\ e \in sent
         /\ NegativeEvent(e) \in Known => NegativeEvent(e) \in Pending \cup InNetwork
  <1>1. e \in Message /\ e.recv = lp
    BY DEF Logged, LogInv, LogInOrder
  <1> QED
    BY <1>1, MessageFacts DEF LogInv, LoggedStands

LEMMA SentByFacts ==
  ASSUME LogInv, EngineInv, NEW lp \in LP, NEW e \in SentBy(lp)
  PROVE  /\ e \in Event /\ e.sender = lp /\ e.type = POSITIVE
         /\ e \in Known /\ e \in Message /\ e.recv \in LP /\ e.ts \in Nat
         /\ NegativeEvent(e) \notin Known /\ e \notin BeingCancelled
         /\ e.ts < horizon => e \in Logged(e.recv)
  <1>1. PICK i \in DOMAIN log[lp] : e \in SentAt(lp, i)
    BY SentByIs
  <1> QED
    BY <1>1, SentFacts DEF LogInv, SentStands

(* A step that records nothing.                                            *)
LEMMA SilentLog ==
  ASSUME LogInv, EngineInv, log' = log, new_events' = new_events,
         \A lp \in LP : state_queue'[lp] = <<>> <=> state_queue[lp] = <<>>,
         \A lp \in LP : \A m \in DOMAIN output_queue'[lp] : \E j \in DOMAIN output_queue[lp] :
             output_queue'[lp][m] = output_queue[lp][j],
         \A lp \in LP : LogEndsInQueue(lp)' /\ StateIsLogged(lp)' /\ SavedIsLogged(lp)',
         \A lp \in LP : \A e \in SentBy(lp) :
             /\ e \in Known' /\ NegativeEvent(e) \notin Known' /\ e \notin BeingCancelled'
             /\ e.ts < horizon' => e \in Logged(e.recv),
         \A lp \in LP : \A e \in Logged(lp) :
             /\ e \in sent'
             /\ NegativeEvent(e) \in Known' => NegativeEvent(e) \in Pending' \cup InNetwork',
         \A e \in Known' : e.type = POSITIVE =>
             /\ e \in Known
             /\ e \in BeingCancelled \/ NegativeEvent(e) \in Known =>
                    e \in BeingCancelled' \/ NegativeEvent(e) \in Known'
  PROVE  LogInv'
  <1>1. \A t, lp : SendsFor(t, lp)' <=> SendsFor(t, lp)
    BY DEF SendsFor
  <1>2. ASSUME NEW lp \in LP
        PROVE  /\ Logged(lp)' = Logged(lp) /\ SentBy(lp)' = SentBy(lp)
               /\ LogInOrder(lp)' /\ SentInOrder(lp)'
               /\ OutputIsLogged(lp)' /\ SentIsModelled(lp)'
    <2>1. log'[lp] = log[lp]
      OBVIOUS
    <2>2. LogInOrder(lp) /\ SentInOrder(lp) /\ OutputIsLogged(lp) /\ SentIsModelled(lp)
      BY DEF LogInv
    <2> QED
      BY <1>1, <2>1, <2>2, LogStands, OutputStands, ModelledStands
  <1>3. ASSUME NEW lp \in LP
        PROVE  SentStands(lp)'
    <2>1. ASSUME NEW e \in SentBy(lp)
          PROVE  e.ts < horizon' => e \in Logged(e.recv)'
      <3>1. e.recv \in LP
        BY SentByFacts
      <3> QED
        BY <1>2, <3>1
    <2> QED
      BY <1>2, <2>1 DEF SentStands
  <1>4. ASSUME NEW lp \in LP
        PROVE  LoggedStands(lp)'
    BY <1>2 DEF LoggedStands
  <1>5. ASSUME NEW t \in Thread
        PROVE  RestIsModelled(t)'
    BY RestStands DEF LogInv
  <1>6. KnownIsSent'
    <2>1. ASSUME NEW e \in Known', e.type = POSITIVE
          PROVE  e \in SentBy(e.sender)' \/ e \in BeingCancelled' \/ NegativeEvent(e) \in Known'
      <3>1. e \in Known /\ e.sender \in LP
        BY <2>1 DEF EngineInv, KnownIsIdentified
      <3> QED
        BY <1>2, <2>1, <3>1 DEF LogInv, KnownIsSent
    <2> QED
      BY <2>1 DEF KnownIsSent
  <1> QED
    BY <1>2, <1>3, <1>4, <1>5, <1>6 DEF LogInv

(* A step that neither puts something on its way nor takes it off.         *)
LEMMA QuietLog ==
  ASSUME LogInv, EngineInv, log' = log, sent' = sent, horizon' = horizon,
         UNCHANGED <<network, new_events, events_to_cancel>>,
         \A lp \in LP : state_queue'[lp] = <<>> <=> state_queue[lp] = <<>>,
         \A lp \in LP : \A m \in DOMAIN output_queue'[lp] : \E j \in DOMAIN output_queue[lp] :
             output_queue'[lp][m] = output_queue[lp][j],
         \A lp \in LP : \A e \in Logged(lp) :
             NegativeEvent(e) \in Pending => NegativeEvent(e) \in Pending',
         \A lp \in LP : LogEndsInQueue(lp)' /\ StateIsLogged(lp)' /\ SavedIsLogged(lp)'
  PROVE  LogInv'
  <1>1. Known' = Known /\ InNetwork' = InNetwork /\ BeingCancelled' = BeingCancelled
    BY DEF Known, InNetwork, BeingCancelled
  <1>2. ASSUME NEW lp \in LP, NEW e \in SentBy(lp)
        PROVE  /\ e \in Known' /\ NegativeEvent(e) \notin Known' /\ e \notin BeingCancelled'
               /\ e.ts < horizon' => e \in Logged(e.recv)
    BY <1>1, SentByFacts
  <1>3. ASSUME NEW lp \in LP, NEW e \in Logged(lp)
        PROVE  /\ e \in sent'
               /\ NegativeEvent(e) \in Known' => NegativeEvent(e) \in Pending' \cup InNetwork'
    BY <1>1, LoggedFacts
  <1> QED
    BY <1>1, <1>2, <1>3, SilentLog

-----------------------------------------------------------------------------
(* The log and the queues.                                                 *)

LEMMA QueueInLog ==
  ASSUME EngineInv, LogInv, NEW lp \in LP, pc[Master] # "terminated"
  PROVE  LET c == Collected(lp)
             p == processed_queue[lp]
             q == log[lp]
         IN  /\ c \in 1 .. Len(q) /\ p \in Seq(Event) /\ Len(p) \in Nat
             /\ Len(q) = c + Len(p) + (IF JustReceived(lp) = {} THEN 0 ELSE 1)
             /\ \A i \in 1 .. Len(p) : c + i \in 2 .. Len(q) /\ q[c + i].event = p[i]
             /\ \A e \in JustReceived(lp) : q[Len(q)].event = e /\ Len(q) >= 2
             /\ \A i \in 2 .. c : /\ state_queue[lp] # <<>>
                                  /\ q[i].event.ts < state_queue[lp][1].event.ts
                                  /\ q[i].event.ts < gvt
  <1> DEFINE c == Collected(lp)
             p == processed_queue[lp]
             q == log[lp]
             now == IF JustReceived(lp) = {} THEN 0 ELSE 1
  <1>1. /\ p \in Seq(Event) /\ Len(p) \in Nat /\ DOMAIN p = 1 .. Len(p)
        /\ Len(q) \in Nat /\ now \in {0, 1}
    <2>1. p \in Seq(Event)
      BY QueueFacts DEF EngineInv, IInv
    <2> QED
      BY <2>1, LogFacts
  <1>2. c = Len(q) - Len(p) - now
    BY DEF Collected
  <1>3. /\ \A e \in JustReceived(lp) : q[Len(q)].event = e
        /\ c > 0
        /\ \A i \in DOMAIN p : q[c + i].event = p[i]
        /\ \A i \in 2 .. c : /\ state_queue[lp] # <<>>
                             /\ q[i].event.ts < state_queue[lp][1].event.ts
    BY DEF LogInv, LogEndsInQueue
  <1> HIDE DEF c, now
  <1>5. c \in 1 .. Len(q) /\ Len(q) = c + Len(p) + now /\ c \in Nat
    <2>1. /\ c = Len(q) - Len(p) - now /\ c > 0
          /\ Len(q) \in Nat /\ Len(p) \in Nat /\ (now = 0 \/ now = 1)
      BY <1>1, <1>2, <1>3
    <2> HIDE DEF p, q
    <2> QED
      BY <2>1
  <1>4. ASSUME NEW i \in 2 .. c
        PROVE  q[i].event.ts < gvt
    <2>1. i \in DOMAIN q
      BY <1>1, <1>5, LogFacts
    <2>2. q[i].event.ts \in Nat /\ gvt \in Nat
      BY <2>1, LogFacts DEF EngineInv, EngineTypeOK
    <2>3. \/ state_queue[lp][1].event = InitialEvent
          \/ state_queue[lp][1].event.ts < gvt
      BY <1>3 DEF EngineInv, FirstStateIsOld
    <2>4. state_queue[lp][1].event \in Message \cup {InitialEvent}
      <3>1. 1 \in DOMAIN state_queue[lp]
        <4>1. IsSequence(state_queue[lp]) /\ state_queue[lp] # <<>>
          BY <1>3 DEF EngineInv, EngineTypeOK
        <4>2. PICK S : state_queue[lp] \in Seq(S)
          BY <4>1 DEF IsSequence
        <4> QED
          BY <4>1, <4>2
      <3> QED
        BY <3>1 DEF EngineInv, FirstStateIsOld
    <2>5. state_queue[lp][1].event.ts \in Nat
      BY <2>4, MessageFacts, InitialEventFacts DEF Event
    <2>6. q[i].event.ts < state_queue[lp][1].event.ts
      BY <1>3
    <2> QED
      BY <2>2, <2>3, <2>5, <2>6, InitialEventFacts
  <1>6. \A i \in 1 .. Len(p) : c + i \in 2 .. Len(q)
    BY <1>1, <1>5
  <1>7. ASSUME NEW e \in JustReceived(lp) PROVE Len(q) >= 2
    <2>1. now = 1
      BY DEF now
    <2> QED
      BY <1>1, <1>5, <2>1
  <1> HIDE DEF p, q
  <1>8. /\ c \in 1 .. Len(q) /\ p \in Seq(Event) /\ Len(p) \in Nat
        /\ Len(q) = c + Len(p) + now
        /\ \A i \in 1 .. Len(p) : c + i \in 2 .. Len(q) /\ q[c + i].event = p[i]
        /\ \A e \in JustReceived(lp) : q[Len(q)].event = e /\ Len(q) >= 2
        /\ \A i \in 2 .. c : /\ state_queue[lp] # <<>>
                             /\ q[i].event.ts < state_queue[lp][1].event.ts
                             /\ q[i].event.ts < gvt
    BY <1>1, <1>3, <1>4, <1>5, <1>6, <1>7
  <1> QED
    BY <1>8 DEF c, p, q, now

(* What an LP has received is what it has processed or is handling, and    *)
(* what the GVT has passed.                                                *)
LEMMA LoggedIsProcessed ==
  ASSUME EngineInv, LogInv, NEW lp \in LP, pc[Master] # "terminated"
  PROVE  /\ Processed(lp) \cup JustReceived(lp) \subseteq Logged(lp)
         /\ \A e \in Logged(lp) : e.ts >= gvt => e \in Processed(lp) \cup JustReceived(lp)
  <1> DEFINE c == Collected(lp)
             p == processed_queue[lp]
             q == log[lp]
  <1>1. /\ c \in 1 .. Len(q) /\ p \in Seq(Event) /\ Len(p) \in Nat
        /\ Len(q) = c + Len(p) + (IF JustReceived(lp) = {} THEN 0 ELSE 1)
        /\ \A i \in 1 .. Len(p) : c + i \in 2 .. Len(q) /\ q[c + i].event = p[i]
        /\ \A e \in JustReceived(lp) : q[Len(q)].event = e /\ Len(q) >= 2
        /\ \A i \in 2 .. c : q[i].event.ts < gvt
        /\ Len(q) \in Nat
    BY QueueInLog, LogFacts
  <1>2. DOMAIN p = 1 .. Len(p)
    BY <1>1
  <1>3. ASSUME NEW e \in Processed(lp) PROVE e \in Logged(lp)
    <2>1. PICK i \in 1 .. Len(p) : e = p[i]
      BY <1>2, <1>3 DEF Processed
    <2>2. c + i \in 2 .. Len(q) /\ q[c + i].event = e
      BY <1>1, <2>1
    <2>3. PICK j \in 2 .. Len(q) : q[j].event = e
      BY <2>2
    <2> QED
      BY <2>3 DEF Logged
  <1>4. ASSUME NEW e \in JustReceived(lp) PROVE e \in Logged(lp)
    <2>1. Len(q) \in 2 .. Len(q)
      BY <1>1
    <2> QED
      BY <1>1, <2>1 DEF Logged
  <1>5. ASSUME NEW e \in Logged(lp), e.ts >= gvt
        PROVE  e \in Processed(lp) \cup JustReceived(lp)
    <2>1. PICK i \in 2 .. Len(q) : e = q[i].event
      BY DEF Logged
    <2>2. e.ts \in Nat /\ gvt \in Nat /\ c \in Nat
      BY <1>1, LoggedFacts DEF Event, EngineInv, EngineTypeOK
    <2>3. i > c
      <3>1. ~ (q[i].event.ts < gvt)
        BY <1>5, <2>1, <2>2
      <3>2. i \notin 2 .. c
        BY <1>1, <3>1
      <3> HIDE DEF c, q
      <3> QED
        BY <2>1, <2>2, <3>2
    <2>4. CASE i <= c + Len(p)
      <3>1. i - c \in 1 .. Len(p) /\ c + (i - c) = i
        BY <1>1, <2>2, <2>3, <2>4
      <3>2. p[i - c] = e
        BY <1>1, <2>1, <3>1
      <3> QED
        BY <1>2, <3>1, <3>2 DEF Processed
    <2>5. CASE i > c + Len(p)
      <3>1. i = Len(q) /\ JustReceived(lp) # {}
        BY <1>1, <2>2, <2>5
      <3> QED
        BY <1>1, <2>1, <3>1
    <2> QED
      BY <1>1, <2>2, <2>4, <2>5
  <1> QED
    BY <1>3, <1>4, <1>5

-----------------------------------------------------------------------------
(* The steps that record nothing.                                          *)

LEMMA GetEventLog ==
  ASSUME EngineInv, LogInv, Remember, log' = log,
         NEW t \in Worker, NEW event \in Pending, GetEvent(t, event)
  PROVE  LogInv'
  <1>1. /\ pc[t] = "getEvent"
        /\ held' = [held EXCEPT ![t] = event]
        /\ pc' = [pc EXCEPT ![t] = IF IsStraggler(event.recv, event) THEN "rollback"
                                                                    ELSE Handle(event)]
        /\ UNCHANGED <<state, state_queue, processed_queue, input_queue, output_queue,
                       network, new_events, events_to_cancel, gvt>>
    BY DEF GetEvent, getEvent, Goto, lpVars, toSend
  <1>2. /\ pc'[t] \in {"rollback", "cancelEvent", "receiveEvent"} /\ pc'[Master] = pc[Master]
        /\ \A u \in Worker : u # t => pc'[u] = pc[u] /\ held'[u] = held[u]
    BY <1>1, MasterIsNoWorker DEF Handle, EngineInv, EngineTypeOK, IInv, TypeOK
  <1>3. \A lp \in LP : JustReceived(lp)' = JustReceived(lp) /\ InPast(lp)' = InPast(lp)
    BY <1>1, <1>2, OthersReceived
  <1>4. sent' = sent /\ horizon' = horizon
    BY <1>1, <1>2, PendingShrinks
  <1>5. Pending' = Pending
    BY <1>1 DEF Pending
  <1>6. \A lp \in LP : LogEndsInQueue(lp)' /\ StateIsLogged(lp)' /\ SavedIsLogged(lp)'
    BY <1>1, <1>2, <1>3, QueueStands, StatesStandLogged DEF LogInv
  <1> QED
    BY <1>1, <1>4, <1>5, <1>6, QuietLog

LEMMA CancelEventLog ==
  ASSUME EngineInv, EngineInv', LogInv, Remember, log' = log, NEW t \in Worker, CancelEvent(t)
  PROVE  LogInv'
  <1>1. PICK n, lp : n = held[t] /\ lp = n.recv
    OBVIOUS
  <1>2. /\ pc[t] = "cancelEvent" /\ cancelEvent(lp, n)
        /\ held' = [held EXCEPT ![t] = NoEvent]
        /\ pc' = [pc EXCEPT ![t] = "getEvent"]
        /\ input_queue' = [input_queue EXCEPT ![lp] = AfterCancel(lp, n)]
        /\ UNCHANGED <<state, state_queue, processed_queue, output_queue,
                       network, new_events, events_to_cancel, gvt>>
    BY <1>1 DEF CancelEvent, cancelEvent, Goto, lpVars, toSend
  <1>3. /\ pc'[t] = "getEvent" /\ pc'[Master] = pc[Master]
        /\ \A u \in Worker : u # t => pc'[u] = pc[u] /\ held'[u] = held[u]
    BY <1>2, MasterIsNoWorker DEF EngineInv, EngineTypeOK, IInv, TypeOK
  <1>4. \A l \in LP : JustReceived(l)' = JustReceived(l) /\ InPast(l)' = InPast(l)
    BY <1>2, <1>3, OthersReceived
  <1>5. /\ lp \in LP /\ n \in input_queue[lp] /\ n \in Event /\ n \in Sendable /\ n \in sent
        /\ n.ts >= gvt /\ pc[Master] = "running" /\ n \in Held /\ n # NoEvent
        /\ \A u \in Worker : held[u] # NoEvent /\ held[u].recv = lp => u = t
        /\ n.type = NEGATIVE /\ ~ IsStraggler(lp, n)
    <2>1. pc[t] \in Handling
      BY <1>2 DEF Handling
    <2> QED
      BY <1>1, <1>2, <2>1, Engaged DEF EngineInv, WorkersInStep, InStep, Handling
  <1>6. /\ \A l \in LP : l # lp => input_queue'[l] = input_queue[l]
        /\ input_queue'[lp] \subseteq input_queue[lp]
        /\ \A e \in input_queue[lp] : e \in input_queue'[lp] \/ e = n \/ e.type = POSITIVE
        /\ n \notin input_queue'[lp] \/ input_queue'[lp] = input_queue[lp]
    <2>1. input_queue'[lp] = AfterCancel(lp, n) /\ \A l \in LP : l # lp => input_queue'[l] = input_queue[l]
      BY <1>2, <1>5 DEF EngineInv, IInv, TypeOK
    <2>2. CancelFinds(lp, n) => Successor(lp, n) = PositiveEvent(n)
      BY <1>1, <1>5, CancelFindsTarget, CancelFindsNothing DEF EngineInv
    <2>3. PositiveEvent(n).type = POSITIVE
      BY <1>5 DEF PositiveEvent, Event
    <2>4. \/ AfterCancel(lp, n) = input_queue[lp]
          \/ AfterCancel(lp, n) = input_queue[lp] \ {n, PositiveEvent(n)}
      BY <2>2 DEF AfterCancel
    <2> QED
      BY <2>1, <2>3, <2>4
  <1>7. sent' = sent /\ horizon' = horizon
    BY <1>2, <1>3, <1>6, PendingShrinks
  <1>8. ASSUME NEW l \in LP, NEW e \in Logged(l), NegativeEvent(e) \in Pending
        PROVE  NegativeEvent(e) \in Pending'
    <2>1. /\ e \in Message /\ e.recv = l /\ e \in sent
          /\ NegativeEvent(e).recv = l /\ NegativeEvent(e).type # POSITIVE
          /\ NegativeEvent(e).ts = e.ts
      BY LoggedFacts, MessageFacts DEF NEGATIVE, POSITIVE
    <2>2. NegativeEvent(e) \in input_queue[l]
      <3>1. PICK k \in LP : NegativeEvent(e) \in input_queue[k]
        BY <1>8 DEF Pending
      <3>2. k = l
        BY <2>1, <3>1, QueueFacts DEF EngineInv, IInv
      <3> QED
        BY <3>1, <3>2
    <2>3. ASSUME NegativeEvent(e) \notin input_queue'[l] PROVE FALSE
      <3>1. l = lp /\ NegativeEvent(e) = n
        BY <1>6, <2>1, <2>2, <2>3
      <3>2. e \in Processed(lp) \cup JustReceived(lp)
        BY <1>5, <2>1, <3>1, LoggedIsProcessed
      <3>3. JustReceived(lp) = {}
        BY <1>2, <1>5, JustReceivedIs
      <3>4. e \in Processed(lp)'
        BY <1>2, <3>2, <3>3 DEF Processed
      <3>5. NegativeEvent(e) \in sent' \ input_queue'[e.recv]
        BY <1>5, <1>7, <2>1, <2>3, <3>1
      <3>6. e \in sent' \cap Message
        BY <1>7, <2>1
      <3>7. CancelledIsGone'
        BY DEF EngineInv, IInv, NoEventLost
      <3> QED
        BY <2>1, <3>1, <3>4, <3>5, <3>6, <3>7 DEF CancelledIsGone
    <2> QED
      BY <2>3 DEF Pending
  <1>9. \A l \in LP : LogEndsInQueue(l)' /\ StateIsLogged(l)' /\ SavedIsLogged(l)'
    BY <1>2, <1>3, <1>4, QueueStands, StatesStandLogged DEF LogInv
  <1> QED
    BY <1>2, <1>7, <1>8, <1>9, QuietLog

(* Coasting forward from the newest saved state lands in the state the log *)
(* leads to: what has been collected is not needed for it.                 *)
LEMMA CoastedIsLogged ==
  ASSUME EngineInv, StateInv, LogInv, NEW lp \in LP, pc[Master] = "running",
         JustReceived(lp) = {}, NEW saved, saved = Last(state_queue[lp])
  PROVE  NextStates(saved.state, getEventsForCoastForward(lp, saved.event))
             = StateAfter(lp, Len(log[lp]))
  <1> DEFINE q == state_queue[lp]
             p == processed_queue[lp]
             r == Replay(p, saved.event)
  <1>0. /\ q # <<>> /\ Len(q) \in 1 .. Len(q) /\ Len(q) \in Nat /\ DOMAIN q = 1 .. Len(q)
        /\ saved = q[Len(q)]
        /\ \A i \in DOMAIN q : /\ q[i].event \in Event /\ q[i].event.ts \in Nat
                               /\ q[i].state \in Seq(TraceOf)
        /\ p \in Seq(Event) /\ Len(p) \in Nat /\ DOMAIN p = 1 .. Len(p)
    BY SavedFacts
  <1> HIDE DEF q, p
  <1>1. /\ Len(q) \in DOMAIN q /\ 1 \in DOMAIN q /\ saved = q[Len(q)] /\ saved.event \in Event
        /\ Len(q) \in Nat /\ DOMAIN q = 1 .. Len(q) /\ q[1].event \in Event
        /\ saved.state \in Seq(TraceOf) /\ saved.event.ts \in Nat /\ q[1].event.ts \in Nat
        /\ p \in Seq(Event) /\ Len(p) \in Nat /\ DOMAIN p = 1 .. Len(p)
    <2>1. 1 \in DOMAIN q /\ Len(q) \in DOMAIN q
      BY <1>0
    <2> QED
      BY <1>0, <2>1
  <1> USE DEF q, p
  <1>2. PICK c, n : c = Collected(lp) /\ n = Len(log[lp])
    OBVIOUS
  <1>3. /\ c \in 1 .. n /\ n \in Nat /\ n = c + Len(p) /\ DOMAIN log[lp] = 1 .. n
        /\ \A i \in 1 .. Len(p) : c + i \in 2 .. n /\ log[lp][c + i].event = p[i]
        /\ \A i \in 2 .. c : log[lp][i].event.ts < q[1].event.ts
        /\ \A i \in 1 .. n : log[lp][i].event \in Event /\ log[lp][i].event.ts \in Nat
    BY <1>2, QueueInLog, LogFacts
  <1>4. \A i, j \in 1 .. n : i < j => Before(log[lp][i].event, log[lp][j].event)
    BY <1>3 DEF LogInv, LogInOrder
  <1>5. PICK k \in 1 .. n : /\ log[lp][k].event = saved.event
                            /\ saved.state = StateAfter(lp, k)
    <2>1. SavedIsLogged(lp) /\ pc[Master] # "terminated"
      BY DEF LogInv
    <2>2. PICK m : m = Len(q) /\ m \in DOMAIN q
      BY <1>1
    <2>3. \E k \in DOMAIN log[lp] : /\ log[lp][k].event = state_queue[lp][m].event
                                     /\ state_queue[lp][m].state = StateAfter(lp, k)
      BY <2>1, <2>2 DEF SavedIsLogged
    <2> QED
      BY <1>1, <1>3, <2>2, <2>3
  <1> HIDE DEF q, p
  <1>6. k >= c
    <2> SUFFICES ASSUME k < c PROVE FALSE
      BY <1>3
    <2>1. k + 1 \in 2 .. c /\ k + 1 \in 1 .. n /\ k < k + 1
      BY <1>3
    <2>2. log[lp][k + 1].event.ts < q[1].event.ts
      BY <1>3, <2>1
    <2>3. saved.event.ts <= log[lp][k + 1].event.ts
      <3>1. PICK j \in 1 .. n : j = k + 1 /\ k < j
        BY <2>1
      <3>2. Before(log[lp][k].event, log[lp][j].event)
        BY <1>4, <3>1
      <3>3. Before(saved.event, log[lp][j].event)
        BY <1>5, <3>2
      <3>4. PICK a \in Nat, b \in Nat : a = saved.event.ts /\ b = log[lp][j].event.ts
        BY <1>1, <1>3
      <3>5. a < b \/ a = b
        BY <3>3, <3>4 DEF Before
      <3>6. a <= b
        BY <3>5
      <3> QED
        BY <3>1, <3>4, <3>6
    <2>4. q[1].event.ts <= saved.event.ts
      <3>1. Len(q) = 1 \/ 1 < Len(q)
        BY <1>1
      <3>2. 1 < Len(q) => Before(q[1].event, saved.event)
        BY <1>1 DEF StateInv, StateOK, q
      <3> QED
        BY <1>1, <3>1, <3>2 DEF Before
    <2>5. /\ log[lp][k + 1].event.ts \in Nat /\ saved.event.ts \in Nat
          /\ q[1].event.ts \in Nat
      BY <1>1, <1>3, <2>1
    <2> QED
      BY <2>2, <2>3, <2>4, <2>5
  <1>7. CoastedOver(p, saved.event) = k - c
    <2>1. k - c \in 0 .. Len(p)
      BY <1>3, <1>6
    <2>2. k - c > 0 => ~ After(p[k - c], saved.event)
      <3> SUFFICES ASSUME k - c > 0 PROVE ~ After(p[k - c], saved.event)
        OBVIOUS
      <3>1. k - c \in 1 .. Len(p) /\ c + (k - c) = k
        BY <1>3, <2>1
      <3>2. p[k - c] = saved.event
        BY <1>3, <1>5, <3>1
      <3> QED
        BY <1>1, <3>2, BeforeIsTotal, BeforeIsStrictOrder
    <2>3. ASSUME NEW i \in k - c + 1 .. Len(p)
          PROVE  After(p[i], saved.event)
      <3>1. i \in 1 .. Len(p) /\ c + i \in 1 .. n /\ k < c + i
        BY <1>3, <1>6
      <3>2. Before(saved.event, log[lp][c + i].event) /\ log[lp][c + i].event = p[i]
        BY <1>3, <1>4, <1>5, <3>1
      <3> QED
        BY <1>1, <1>3, <3>1, <3>2, BeforeIsTotal
    <2>4. PICK d : d = k - c
      OBVIOUS
    <2>5. /\ d \in 0 .. Len(p)
          /\ d > 0 => ~ After(p[d], saved.event)
          /\ \A i \in d + 1 .. Len(p) : After(p[i], saved.event)
      BY <2>1, <2>2, <2>3, <2>4
    <2>6. p \in Seq(Event) /\ saved.event \in Event
      BY <1>1
    <2>7. CoastedOver(p, saved.event) = d
      BY <2>5, <2>6, CoastedOverIsUnique
    <2> QED
      BY <2>4, <2>7
  <1>8. /\ r \in Seq(Event) /\ Len(r) = n - k
        /\ \A i \in 1 .. n - k : r[i] = p[i + (k - c)]
    <2>1. Len(p) - (k - c) = n - k
      BY <1>3
    <2>2. PICK d : d = CoastedOver(p, saved.event)
      OBVIOUS
    <2>3. p \in Seq(Event)
      BY <1>1
    <2>4. /\ r \in Seq(Event) /\ Len(r) = Len(p) - d
          /\ \A i \in 1 .. Len(p) - d : r[i] = p[i + d]
      BY <2>2, <2>3, ReplayFacts
    <2>5. d = k - c
      BY <1>7, <2>2
    <2> QED
      BY <2>1, <2>4, <2>5
  <1> HIDE DEF r
  <1>9. ASSUME NEW i \in 1 .. n - k
        PROVE  r[i] = log[lp][k + i].event
    <2>1. i + (k - c) \in 1 .. Len(p) /\ c + (i + (k - c)) = k + i
      BY <1>3, <1>6
    <2> QED
      BY <1>3, <1>8, <2>1
  <1>10. /\ StateAfter(lp, n) \in Seq(TraceOf) /\ Len(StateAfter(lp, n)) = n - 1
         /\ \A i \in 1 .. n - 1 : StateAfter(lp, n)[i] = Trace(log[lp][i + 1].event)
         /\ StateAfter(lp, k) \in Seq(TraceOf) /\ Len(StateAfter(lp, k)) = k - 1
         /\ \A i \in 1 .. k - 1 : StateAfter(lp, k)[i] = Trace(log[lp][i + 1].event)
    <2>1. n \in DOMAIN log[lp] /\ k \in DOMAIN log[lp]
      BY <1>3
    <2> QED
      BY <2>1, StateAfterFacts
  <1> DEFINE a == [i \in DOMAIN r |-> Trace(r[i])]
             s == saved.state
  <1>11. /\ a \in Seq(TraceOf) /\ Len(a) = n - k
         /\ \A i \in 1 .. n - k : a[i] = Trace(log[lp][k + i].event)
    <2>1. DOMAIN r = 1 .. n - k /\ n - k \in Nat
      BY <1>3, <1>8
    <2>2. \A i \in 1 .. n - k : Trace(r[i]) \in TraceOf
      BY <1>8, <2>1, TraceType
    <2>3. a = [i \in 1 .. n - k |-> Trace(r[i])]
      BY <2>1
    <2> HIDE DEF a
    <2>4. a \in Seq(TraceOf) /\ Len(a) = n - k /\ \A i \in 1 .. n - k : a[i] = Trace(r[i])
      BY <2>1, <2>2, <2>3
    <2> QED
      BY <1>9, <2>4
  <1>12. s \in Seq(TraceOf) /\ Len(s) = k - 1 /\ \A i \in 1 .. k - 1 : s[i] = Trace(log[lp][i + 1].event)
    BY <1>5, <1>10
  <1>13. NextStates(saved.state, getEventsForCoastForward(lp, saved.event)) = s \o a
    BY DEF NextStates, getEventsForCoastForward, Replay, r, p
  <1> HIDE DEF a, s
  <1>14. /\ s \o a \in Seq(TraceOf) /\ Len(s \o a) = n - 1
         /\ \A i \in 1 .. n - 1 : (s \o a)[i] = Trace(log[lp][i + 1].event)
    <2>1. s \o a \in Seq(TraceOf) /\ Len(s \o a) = n - 1
      BY <1>3, <1>11, <1>12
    <2>2. ASSUME NEW i \in 1 .. n - 1
          PROVE  (s \o a)[i] = Trace(log[lp][i + 1].event)
      <3>1. CASE i <= k - 1
        <4>1. i \in 1 .. k - 1 /\ (s \o a)[i] = s[i]
          BY <1>3, <1>11, <1>12, <3>1
        <4> QED
          BY <1>12, <4>1
      <3>2. CASE i > k - 1
        <4>1. i - (k - 1) \in 1 .. n - k /\ (s \o a)[i] = a[i - (k - 1)]
              /\ k + (i - (k - 1)) = i + 1
          BY <1>3, <1>11, <1>12, <3>2
        <4> QED
          BY <1>11, <4>1
      <3>3. i <= k - 1 \/ i > k - 1
        <4>1. i \in Nat /\ k \in Nat
          BY <1>3
        <4> QED
          BY <4>1
      <3> QED
        BY <3>1, <3>2, <3>3
    <2> QED
      BY <2>1, <2>2
  <1>15. s \o a = StateAfter(lp, n)
    <2>1. PICK u, v : u = s \o a /\ v = StateAfter(lp, n)
      OBVIOUS
    <2>2. /\ u \in Seq(TraceOf) /\ v \in Seq(TraceOf) /\ Len(u) = Len(v)
          /\ \A i \in 1 .. Len(u) : u[i] = v[i]
      BY <1>10, <1>14, <2>1
    <2> QED
      BY <2>1, <2>2, SequencesAgree
  <1> QED
    BY <1>2, <1>13, <1>15

LEMMA CoastForwardLog ==
  ASSUME EngineInv, StateInv, LogInv, Remember, log' = log, NEW t \in Worker, CoastForward(t)
  PROVE  LogInv'
  <1>1. PICK lp : lp = held[t].recv
    OBVIOUS
  <1>2. /\ pc[t] = "cancelEvents"
        /\ state' = [state EXCEPT ![lp] = CoastForwarded(lp)]
        /\ pc' = [pc EXCEPT ![t] = Handle(held[t])]
        /\ UNCHANGED <<held, state_queue, input_queue, processed_queue, output_queue,
                       network, new_events, events_to_cancel, gvt>>
    BY <1>1 DEF CoastForward, Goto, queues, toSend
  <1>3. lp \in LP /\ pc[t] \in Handling /\ pc[Master] = "running" /\ held[t] # NoEvent
    BY <1>1, <1>2, Engaged DEF Handling
  <1>4. /\ pc'[t] \in {"cancelEvent", "receiveEvent"} /\ pc'[Master] = "running"
        /\ \A u \in Worker : u # t => pc'[u] = pc[u] /\ held'[u] = held[u]
    BY <1>2, <1>3, MasterIsNoWorker DEF EngineInv, EngineTypeOK, Handle
  <1>5. /\ JustReceived(lp) = {} /\ JustReceived(lp)' = {}
        /\ InPast(lp) /\ ~ InPast(lp)'
        /\ \A l : l # lp => JustReceived(l)' = JustReceived(l) /\ InPast(l)' = InPast(l)
    BY <1>1, <1>2, <1>3, <1>4, WorkerReceived
  <1>6. PICK saved : saved = Last(state_queue[lp])
    OBVIOUS
  <1>7. /\ state'[lp] = NextStates(saved.state, getEventsForCoastForward(lp, saved.event))
        /\ \A l \in LP : l # lp => state'[l] = state[l]
    <2>1. state[lp] = saved.state
      BY <1>3, <1>5, <1>6 DEF StateInv, StateOK
    <2> QED
      BY <1>2, <1>3, <1>6, <2>1 DEF StateInv, CoastForwarded
  <1>8. state'[lp] = StateAfter(lp, Len(log[lp]))
    BY <1>3, <1>5, <1>6, <1>7, CoastedIsLogged
  <1>9. sent' = sent /\ horizon' = horizon /\ Pending' = Pending
    <2>1. \A l \in LP : input_queue'[l] \subseteq input_queue[l]
      BY <1>2
    <2> QED
      BY <1>2, <1>3, <1>4, <2>1, PendingShrinks DEF Pending
  <1>10. ASSUME NEW l \in LP
         PROVE  LogEndsInQueue(l)' /\ StateIsLogged(l)' /\ SavedIsLogged(l)'
    <2>0. LogEndsInQueue(l) /\ StateIsLogged(l) /\ SavedIsLogged(l)
      BY DEF LogInv
    <2>1. LogEndsInQueue(l)'
      <3>1. JustReceived(l)' = JustReceived(l)
        BY <1>5
      <3> QED
        BY <1>2, <1>3, <2>0, <3>1, QueueStands
    <2>2. \A i : StateAfter(l, i)' = StateAfter(l, i)
      BY LogStands
    <2>3. SavedIsLogged(l)'
      BY <1>2, <1>3, <2>0, <2>2 DEF SavedIsLogged
    <2>4. CASE l = lp
      <3>1. PICK n : n = Len(log[l])
        OBVIOUS
      <3>2. state'[l] = StateAfter(l, n)'
        BY <1>8, <2>2, <2>4, <3>1
      <3> QED
        BY <2>1, <2>3, <3>1, <3>2 DEF StateIsLogged
    <2>5. CASE l # lp
      <3>1. InPast(l)' = InPast(l) /\ state'[l] = state[l]
        BY <1>5, <1>7, <2>5
      <3> QED
        BY <1>2, <1>3, <2>0, <2>1, <3>1, StatesStandLogged
    <2> QED
      BY <2>4, <2>5
  <1> QED
    BY <1>2, <1>9, <1>10, QuietLog

LEMMA StartWorkersLog ==
  ASSUME EngineInv, LogInv, Remember, log' = log, StartWorkers
  PROVE  LogInv'
  <1>1. /\ pc[Master] = "initialize"
        /\ pc' = [pc EXCEPT ![Master] = "running"]
        /\ UNCHANGED <<held, state, state_queue, processed_queue, input_queue, output_queue,
                       network, new_events, events_to_cancel, gvt>>
    BY DEF StartWorkers, Goto, lpVars, toSend, queues
  <1>2. /\ pc'[Master] = "running"
        /\ \A u \in Worker : pc'[u] = pc[u] /\ held'[u] = held[u]
    BY <1>1, MasterIsNoWorker DEF EngineInv, EngineTypeOK
  <1>3. \A lp \in LP : JustReceived(lp)' = JustReceived(lp) /\ InPast(lp)' = InPast(lp)
    BY <1>2, WorkersRest
  <1>4. Pending' = Pending
    BY <1>1 DEF Pending
  <1>5. sent' = sent
    BY <1>4, NothingInserted, PendingIsSent DEF EngineInv
  <1>6. horizon' = horizon
    BY <1>1, <1>2 DEF Remember, EngineInv, MasterControl
  <1>7. \A lp \in LP : LogEndsInQueue(lp)' /\ StateIsLogged(lp)' /\ SavedIsLogged(lp)'
    BY <1>1, <1>3, QueueStands, StatesStandLogged DEF LogInv
  <1> QED
    BY <1>1, <1>4, <1>5, <1>6, <1>7, QuietLog

LEMMA FinalCollectLog ==
  ASSUME EngineInv, LogInv, Remember, log' = log, NEW c \in LP, FinalCollect(c)
  PROVE  LogInv'
  <1>1. /\ pc[Master] = "terminated"
        /\ UNCHANGED <<held, pc, state, state_queue, input_queue, output_queue,
                       network, new_events, events_to_cancel, gvt>>
    BY DEF FinalCollect, fossilCollect, lpVars, toSend
  <1>2. \A lp \in LP : JustReceived(lp)' = JustReceived(lp) /\ InPast(lp)' = InPast(lp)
    BY <1>1, WorkersRest
  <1>3. Pending' = Pending
    BY <1>1 DEF Pending
  <1>4. sent' = sent
    BY <1>3, NothingInserted, PendingIsSent DEF EngineInv
  <1>5. horizon' = horizon
    BY <1>1 DEF Remember, EngineInv, MasterControl
  <1>6. ASSUME NEW lp \in LP
        PROVE  LogEndsInQueue(lp)' /\ StateIsLogged(lp)' /\ SavedIsLogged(lp)'
    <2>1. LogEndsInQueue(lp)'
      BY <1>1 DEF LogEndsInQueue
    <2> QED
      BY <1>1, <1>2, <2>1, StatesStandLogged DEF LogInv
  <1> QED
    BY <1>1, <1>3, <1>4, <1>5, <1>6, QuietLog

LEMMA ReplenishLog ==
  ASSUME EngineInv, StateInv, LogInv, Remember, log' = log,
         NEW t \in Worker, ReplenishScheduler(t)
  PROVE  LogInv'
  <1>1. PICK lp, e : lp = held[t].recv /\ e = held[t]
    OBVIOUS
  <1> DEFINE p == processed_queue[lp]
             q == log[lp]
  <1>2. /\ pc[t] = "replenish"
        /\ replenishScheduler(lp)
        /\ held' = [held EXCEPT ![t] = NoEvent]
        /\ pc' = [pc EXCEPT ![t] = "getEvent"]
        /\ UNCHANGED <<state, state_queue, output_queue, network, new_events,
                       events_to_cancel, gvt>>
    BY <1>1 DEF ReplenishScheduler, Goto, lpVars, toSend
  <1>3. /\ lp \in LP /\ pc[t] \in Handling /\ pc[Master] = "running"
        /\ e # NoEvent /\ e \in Event /\ e = scheduled_event_pointer[lp]
        /\ e.type = POSITIVE
    BY <1>1, <1>2, Engaged DEF Handling, EngineInv, WorkersInStep, InStep
  <1>4. /\ pc'[t] = "getEvent" /\ pc'[Master] = "running"
        /\ \A u \in Worker : u # t => pc'[u] = pc[u] /\ held'[u] = held[u]
        /\ held'[t] = NoEvent
    BY <1>2, <1>3, MasterIsNoWorker DEF EngineInv, EngineTypeOK, IInv, TypeOK
  <1>5. /\ JustReceived(lp) = {e} /\ JustReceived(lp)' = {}
        /\ ~ InPast(lp) /\ ~ InPast(lp)'
        /\ \A l : l # lp => JustReceived(l)' = JustReceived(l) /\ InPast(l)' = InPast(l)
    <2>1. /\ JustReceived(lp) = IF pc[t] \in {"sendEvents", "replenish"} THEN {held[t]} ELSE {}
          /\ JustReceived(lp)' = IF held'[t] # NoEvent /\ pc'[t] \in {"sendEvents", "replenish"}
                                 THEN {held[t]} ELSE {}
          /\ InPast(lp) <=> pc[t] = "cancelEvents"
          /\ InPast(lp)' <=> held'[t] # NoEvent /\ pc'[t] = "cancelEvents"
          /\ \A l : l # lp => JustReceived(l)' = JustReceived(l) /\ InPast(l)' = InPast(l)
      BY <1>1, <1>3, <1>4, WorkerReceived
    <2> QED
      BY <1>1, <1>2, <1>4, <2>1
  <1>6. /\ processed_queue'[lp] = Append(p, e)
        /\ input_queue'[lp] = input_queue[lp] \ {e}
        /\ \A l \in LP : l # lp => /\ processed_queue'[l] = processed_queue[l]
                                   /\ input_queue'[l] = input_queue[l]
    BY <1>2, <1>3 DEF replenishScheduler, EngineInv, IInv, TypeOK
  <1>7. /\ Collected(lp) \in 1 .. Len(q) /\ p \in Seq(Event) /\ Len(p) \in Nat
        /\ Len(q) = Collected(lp) + Len(p) + 1 /\ Len(q) \in Nat
        /\ \A i \in 1 .. Len(p) : q[Collected(lp) + i].event = p[i]
        /\ q[Len(q)].event = e
        /\ \A i \in 2 .. Collected(lp) : /\ state_queue[lp] # <<>>
                                         /\ q[i].event.ts < state_queue[lp][1].event.ts
    BY <1>3, <1>5, QueueInLog, LogFacts
  <1>8. PICK a : /\ a = Append(p, e) /\ Len(a) = Len(p) + 1 /\ DOMAIN a = 1 .. Len(p) + 1
                 /\ \A i \in 1 .. Len(p) : a[i] = p[i]
                 /\ a[Len(p) + 1] = e
    <2>1. PICK r : r = p
      OBVIOUS
    <2>2. r \in Seq(Event) /\ e \in Event
      BY <1>3, <1>7, <2>1
    <2>3. /\ Len(Append(r, e)) = Len(r) + 1 /\ DOMAIN Append(r, e) = 1 .. Len(r) + 1
          /\ \A i \in 1 .. Len(r) : Append(r, e)[i] = r[i]
          /\ Append(r, e)[Len(r) + 1] = e
      BY <2>2, AppendFacts
    <2> HIDE DEF p
    <2> QED
      BY <2>1, <2>3
  <1>9. Collected(lp)' = Collected(lp)
    <2>1. PICK c, n, k : c = Collected(lp) /\ n = Len(q) /\ k = Len(p)
      OBVIOUS
    <2>2. c \in Nat /\ n \in Nat /\ k \in Nat /\ n = c + k + 1
      BY <1>7, <2>1
    <2>3. Collected(lp)' = n - (k + 1) - 0
      BY <1>5, <1>6, <1>8, <2>1 DEF Collected
    <2> QED
      BY <2>1, <2>2, <2>3
  <1>10. LogEndsInQueue(lp)'
    <2>1. ASSUME NEW i \in DOMAIN a
          PROVE  q[Collected(lp) + i].event = a[i]
      <3>1. i \in 1 .. Len(p) \/ i = Len(p) + 1
        BY <1>7, <1>8
      <3>2. Collected(lp) + (Len(p) + 1) = Len(q)
        BY <1>7
      <3> QED
        BY <1>7, <1>8, <3>1, <3>2
    <2>2. Collected(lp) > 0
      BY <1>7
    <2> QED
      BY <1>2, <1>5, <1>6, <1>7, <1>8, <1>9, <2>1, <2>2 DEF LogEndsInQueue
  <1>11. \A l \in LP : l # lp => LogEndsInQueue(l)'
    BY <1>2, <1>3, <1>5, <1>6, QueueStands DEF LogInv
  <1>12. ASSUME NEW l \in LP
         PROVE  StateIsLogged(l)' /\ SavedIsLogged(l)'
    <2>1. InPast(l)' = InPast(l)
      BY <1>5 DEF InPast
    <2> QED
      BY <1>2, <1>3, <2>1, StatesStandLogged DEF LogInv
  <1>13. sent' = sent /\ horizon' = horizon
    <2>1. \A l \in LP : input_queue'[l] \subseteq input_queue[l]
      BY <1>6
    <2> QED
      BY <1>2, <1>3, <1>4, <2>1, PendingShrinks
  <1>14. ASSUME NEW l \in LP, NEW f \in Logged(l), NegativeEvent(f) \in Pending
         PROVE  NegativeEvent(f) \in Pending'
    <2>1. NegativeEvent(f).type # POSITIVE
      BY LoggedFacts DEF NegativeEvent, Event, NEGATIVE, POSITIVE
    <2>2. PICK k \in LP : NegativeEvent(f) \in input_queue[k]
      BY <1>14 DEF Pending
    <2>3. NegativeEvent(f) \in input_queue'[k]
      BY <1>3, <1>6, <2>1, <2>2
    <2> QED
      BY <2>3 DEF Pending
  <1> QED
    BY <1>2, <1>10, <1>11, <1>12, <1>13, <1>14, QuietLog

(* The i-th event left once k of m are dropped was the (i + k)-th, also counted *)
(* from behind c earlier ones.                                                 *)
LEMMA ShiftedIndex ==
  ASSUME NEW m \in Nat, NEW k \in 0 .. m, NEW i \in 1 .. m - k, NEW c \in Nat
  PROVE  i + k \in 1 .. m /\ c + (i + k) = c + k + i
  OBVIOUS

(* What fossil collection takes from the processed queue is older than the *)
(* first state it keeps.                                                   *)
LEMMA CollectedIsOld ==
  ASSUME EngineInv, StateInv, LogInv, log' = log, NEW lp \in LP, pc[Master] = "running",
         JustReceived(lp)' = JustReceived(lp),
         NEW first \in 1 .. Len(state_queue[lp]), NEW time \in Nat,
         time = state_queue[lp][first].event.ts,
         NEW k \in 0 .. Len(processed_queue[lp]),
         \A i \in 1 .. k : processed_queue[lp][i].ts < time,
         processed_queue'[lp] = SubSeq(processed_queue[lp], k + 1, Len(processed_queue[lp])),
         state_queue'[lp] = SubSeq(state_queue[lp], first, Len(state_queue[lp]))
  PROVE  LogEndsInQueue(lp)'
  <1> DEFINE p == processed_queue[lp]
             q == log[lp]
             states == state_queue[lp]
  <1>1. PICK c, n, now : /\ c = Collected(lp) /\ n = Len(q)
                         /\ now = IF JustReceived(lp) = {} THEN 0 ELSE 1
    OBVIOUS
  <1>2. /\ c \in 1 .. n /\ n \in Nat /\ p \in Seq(Event) /\ Len(p) \in Nat
        /\ n = c + Len(p) + now /\ now \in {0, 1}
        /\ \A i \in 1 .. Len(p) : c + i \in 2 .. n /\ q[c + i].event = p[i]
        /\ \A e \in JustReceived(lp) : q[n].event = e
        /\ \A i \in 2 .. c : q[i].event.ts < states[1].event.ts
        /\ \A i \in 1 .. n : q[i].event.ts \in Nat
    BY <1>1, QueueInLog, LogFacts
  <1>3. /\ states # <<>> /\ Len(states) \in Nat /\ DOMAIN states = 1 .. Len(states)
        /\ \A i \in DOMAIN states : states[i].event.ts \in Nat
    BY SavedFacts
  <1>4. PICK s : s = processed_queue'[lp] /\ Len(s) = Len(p) - k /\ DOMAIN s = 1 .. Len(p) - k
                 /\ \A i \in 1 .. Len(p) - k : s[i] = p[i + k]
    <2>1. PICK r, m : r = p /\ m = k + 1
      OBVIOUS
    <2>2. r \in Seq(Event) /\ m \in 1 .. Len(r) + 1 /\ Len(r) \in m - 1 .. Len(r)
          /\ Len(r) = Len(p) /\ Len(r) \in Nat
      BY <1>2, <2>1
    <2>3. /\ SubSeq(r, m, Len(r)) \in Seq(Event)
          /\ \A j \in m .. Len(r) : SubSeq(r, m, Len(r))[j - (m - 1)] = r[j]
          /\ Len(SubSeq(r, m, Len(r))) = Len(r) - (m - 1)
      <3>1. r \in Seq(Event) /\ m \in 1 .. Len(r) + 1 /\ Len(r) \in m - 1 .. Len(r)
        BY <2>2
      <3> HIDE DEF p
      <3> QED
        BY <3>1, SubSeqFacts
    <2>4. PICK u : u = SubSeq(r, m, Len(r))
      OBVIOUS
    <2>5. Len(u) = Len(r) - k /\ DOMAIN u = 1 .. Len(r) - k
      BY <2>1, <2>2, <2>3, <2>4
    <2>6. ASSUME NEW i \in 1 .. Len(r) - k
          PROVE  u[i] = r[i + k]
      <3>1. m = k + 1 /\ k \in Nat /\ Len(r) \in Nat /\ i \in 1 .. Len(r) - k
        BY <2>1, <2>2
      <3>2. i + k \in m .. Len(r) /\ (i + k) - (m - 1) = i
        BY <3>1
      <3> QED
        BY <2>3, <2>4, <3>2
    <2>7. u = processed_queue'[lp]
      BY <2>1, <2>4
    <2> HIDE DEF p
    <2> QED
      BY <2>1, <2>2, <2>5, <2>6, <2>7
  <1>5. state_queue'[lp] # <<>> /\ state_queue'[lp][1].event.ts = time
    <2>1. PICK Q, r : r = states /\ r \in Seq(Q)
      BY SavedFacts
    <2>2. r # <<>> /\ first \in 1 .. Len(r) /\ Len(r) \in first - 1 .. Len(r) /\ Len(r) \in Nat
          /\ first \in 1 .. Len(r) + 1 /\ first \in first .. Len(r) /\ first \in Nat
      BY <1>3, <2>1
    <2>3. /\ first - (first - 1) \in DOMAIN SubSeq(r, first, Len(r))
          /\ SubSeq(r, first, Len(r))[first - (first - 1)] = r[first]
      BY <2>1, <2>2, SubSeqFacts
    <2>4. first - (first - 1) = 1
      BY <2>2
    <2>5. PICK v : v = SubSeq(r, first, Len(r))
      OBVIOUS
    <2>6. 1 \in DOMAIN v /\ v[1] = r[first]
      BY <2>3, <2>4, <2>5
    <2>7. v = state_queue'[lp]
      BY <2>1, <2>5
    <2>8. v # <<>>
      BY <2>6
    <2> HIDE DEF states
    <2> QED
      BY <2>1, <2>6, <2>7, <2>8 DEF states
  <1> HIDE DEF p, states
  <1>6. states[1].event.ts <= time /\ states[1].event.ts \in Nat
    <2>1. 1 \in DOMAIN states /\ first \in DOMAIN states /\ (first = 1 \/ 1 < first)
      BY <1>3 DEF states
    <2>2. 1 < first => Before(states[1].event, states[first].event)
      BY <2>1 DEF StateInv, StateOK, states
    <2>3. states[first].event.ts = time /\ states[1].event.ts \in Nat
      BY <1>3, <2>1 DEF states
    <2>4. CASE first = 1
      BY <2>3, <2>4
    <2>5. CASE 1 < first
      BY <2>2, <2>3, <2>5 DEF Before
    <2> QED
      BY <2>1, <2>3, <2>4, <2>5
  <1>7. Collected(lp)' = c + k
    <2>1. Collected(lp)' = n - Len(s) - now
      BY <1>1, <1>4 DEF Collected
    <2>2. n = c + Len(p) + now /\ Len(s) = Len(p) - k /\ k \in Nat /\ c \in Nat /\ now \in Nat
          /\ Len(p) \in Nat
      BY <1>2, <1>4
    <2> QED
      BY <2>1, <2>2
  <1>8. k <= Len(p) /\ k \in Nat /\ c \in Nat /\ Len(p) \in Nat /\ c > 0
    BY <1>2 DEF p
  <1>9. ASSUME NEW i \in DOMAIN s
        PROVE  q[c + k + i].event = s[i]
    <2>1. i \in 1 .. Len(p) - k
      BY <1>4
    <2>2. i + k \in 1 .. Len(p) /\ c + (i + k) = c + k + i
      <3>1. PICK m : m = Len(p)
        OBVIOUS
      <3>2. m \in Nat /\ k \in 0 .. m /\ c \in Nat /\ i \in 1 .. m - k
        BY <1>8, <2>1, <3>1
      <3>3. i + k \in 1 .. m /\ c + (i + k) = c + k + i
        BY <3>2, ShiftedIndex
      <3> QED
        BY <3>1, <3>3
    <2>3. s[i] = p[i + k]
      BY <1>4, <2>1
    <2> QED
      BY <1>2, <2>2, <2>3
  <1>10. ASSUME NEW i \in 2 .. c + k
         PROVE  q[i].event.ts < time
    <2>1. i \in 1 .. n
      BY <1>2, <1>8
    <2>2. CASE i \in 2 .. c
      <3>1. PICK x, y : x = q[i].event.ts /\ y = states[1].event.ts
        OBVIOUS
      <3>2. x < y
        BY <1>2, <2>2, <3>1
      <3>3. x \in Nat /\ y \in Nat /\ y <= time
        BY <1>2, <1>6, <2>1, <3>1
      <3>4. x < time
        BY <3>2, <3>3
      <3> QED
        BY <3>1, <3>4
    <2>3. CASE i \notin 2 .. c
      <3>1. i - c \in 1 .. k /\ i - c \in 1 .. Len(p) /\ c + (i - c) = i
        BY <1>8, <2>3
      <3>2. p[i - c].ts < time /\ q[i].event = p[i - c]
        BY <1>2, <3>1 DEF p
      <3> QED
        BY <3>2
    <2> QED
      BY <2>2, <2>3
  <1>11. c + k > 0
    BY <1>8
  <1>12. \A e \in JustReceived(lp)' : q[Len(q)].event = e
    BY <1>1, <1>2
  <1> QED
    BY <1>4, <1>5, <1>7, <1>9, <1>10, <1>11, <1>12 DEF LogEndsInQueue

LEMMA FossilCollectLog ==
  ASSUME EngineInv, StateInv, LogInv, Remember, log' = log, NEW t \in Worker, FossilCollect(t)
  PROVE  LogInv'
  <1>1. PICK lp, e : lp = held[t].recv /\ e = held[t]
    OBVIOUS
  <1> DEFINE p == processed_queue[lp]
             q == state_queue[lp]
             o == output_queue[lp]
  <1>2. /\ pc[t] = "sendEvents"
        /\ pc' = [pc EXCEPT ![t] = "replenish"]
        /\ UNCHANGED <<held, state, network, new_events, events_to_cancel, gvt>>
    BY <1>1 DEF FossilCollect, Goto, toSend
  <1>3. /\ lp \in LP /\ pc[t] \in Handling /\ pc[Master] = "running"
        /\ e # NoEvent /\ gvt \in Nat
    BY <1>1, <1>2, Engaged DEF Handling
  <1>4. /\ pc'[t] = "replenish" /\ pc'[Master] = "running"
        /\ \A u \in Worker : u # t => pc'[u] = pc[u] /\ held'[u] = held[u]
        /\ held'[t] = held[t]
    BY <1>2, <1>3, MasterIsNoWorker DEF EngineInv, EngineTypeOK
  <1>5. \A l \in LP : JustReceived(l)' = JustReceived(l) /\ InPast(l)' = InPast(l)
    <2>1. /\ JustReceived(lp) = IF pc[t] \in {"sendEvents", "replenish"} THEN {held[t]} ELSE {}
          /\ JustReceived(lp)' = IF held'[t] # NoEvent /\ pc'[t] \in {"sendEvents", "replenish"}
                                 THEN {held[t]} ELSE {}
          /\ InPast(lp) <=> pc[t] = "cancelEvents"
          /\ InPast(lp)' <=> held'[t] # NoEvent /\ pc'[t] = "cancelEvents"
          /\ \A l : l # lp => JustReceived(l)' = JustReceived(l) /\ InPast(l)' = InPast(l)
      BY <1>1, <1>3, <1>4, WorkerReceived
    <2>2. JustReceived(lp)' = JustReceived(lp)
      BY <1>1, <1>2, <1>3, <1>4, <2>1
    <2>3. InPast(lp)' = InPast(lp)
      <3>1. ~ InPast(lp) /\ ~ InPast(lp)'
        BY <1>2, <1>4, <2>1
      <3> QED
        BY <3>1 DEF InPast
    <2> QED
      BY <2>1, <2>2, <2>3
  <1>6. input_queue' = input_queue
    BY <1>1 DEF FossilCollect, fossilCollectAll, fossilCollect, queues
  <1>7. sent' = sent /\ horizon' = horizon /\ Pending' = Pending
    <2>1. \A l \in LP : input_queue'[l] \subseteq input_queue[l]
      BY <1>6
    <2> QED
      BY <1>2, <1>3, <1>4, <1>6, <2>1, PendingShrinks DEF Pending
  <1>8. CASE ~ (gvt > last_fossil_collect_gvt[lp])
    <2>1. UNCHANGED <<processed_queue, state_queue, output_queue>>
      BY <1>1, <1>8 DEF FossilCollect, queues
    <2>2. \A l \in LP : LogEndsInQueue(l)' /\ StateIsLogged(l)' /\ SavedIsLogged(l)'
      BY <1>2, <1>3, <1>5, <2>1, QueueStands, StatesStandLogged DEF LogInv
    <2> QED
      BY <1>2, <1>7, <2>1, <2>2, QuietLog
  <1>9. CASE gvt > last_fossil_collect_gvt[lp]
    <2>1. /\ q # <<>> /\ Len(q) \in Nat /\ DOMAIN q = 1 .. Len(q)
          /\ \A i \in DOMAIN q : q[i].event \in Event /\ q[i].event.ts \in Nat
          /\ p \in Seq(Event) /\ DOMAIN p = 1 .. Len(p) /\ Len(p) \in Nat
          /\ o \in Seq(Recorded) /\ Len(o) \in Nat
      <3>1. o \in Seq(Recorded)
        BY <1>3 DEF EngineInv, EngineTypeOK
      <3>2. Len(o) \in Nat
        BY <3>1
      <3> HIDE DEF o
      <3> QED
        BY <1>3, <3>1, <3>2, SavedFacts
    <2>2. PICK first \in 1 .. Len(q) :
             /\ first = FirstKept(q, gvt)
             /\ \A i \in 2 .. first : q[i].event.ts < gvt
      <3>1. PICK Q : q \in Seq(Q)
        BY <1>3, SavedFacts
      <3> HIDE DEF q
      <3> QED
        BY <1>3, <2>1, <3>1, FirstKeptIsDefined
    <2>3. PICK time : time = q[first].event.ts
      OBVIOUS
    <2>4. /\ output_queue' = [output_queue EXCEPT
                                ![lp] = SubSeq(o, SentAndPassed(o, gvt) + 1, Len(o))]
          /\ state_queue' = [state_queue EXCEPT ![lp] = SubSeq(q, first, Len(q))]
          /\ fossilCollect(lp, time)
      BY <1>1, <1>9, <2>2, <2>3 DEF FossilCollect, fossilCollectAll
    <2>5. time \in Nat /\ time # Infinity
      <3>1. first \in DOMAIN q
        BY <2>1
      <3>2. q[first].event \in Message \cup {InitialEvent}
        BY <1>3, <3>1 DEF EngineInv, FirstStateIsOld
      <3>3. q[first].event = InitialEvent \/ time < Infinity
        BY <2>3, <3>2, MessageFacts
      <3>4. InitialEvent.ts = 0 /\ q[1].event.ts \in Nat /\ e.ts \in Nat /\ e.ts < Infinity
        <4>1. e.ts \in Nat /\ e.ts < Infinity
          BY <1>1, <1>3, Engaged
        <4>2. 1 \in DOMAIN q
          <5>1. 1 <= first /\ first <= Len(q)
            BY <2>1
          <5> QED
            BY <2>1, <5>1
        <4>3. q[1].event.ts \in Nat
          BY <2>1, <4>2
        <4> QED
          BY <4>1, <4>3, InitialEventFacts
      <3> QED
        BY <2>1, <2>3, <3>1, <3>3, <3>4, MessageAssumption
    <2>6. PICK k \in 0 .. Len(p) :
             /\ \A i \in 1 .. k : p[i].ts < time
             /\ processed_queue' = [processed_queue EXCEPT ![lp] = SubSeq(p, k + 1, Len(p))]
      <3>1. /\ CollectedBy(p, time) \in 0 .. Len(p)
            /\ \A i \in 1 .. CollectedBy(p, time) : p[i].ts < time
        BY <2>1, <2>5, CollectedByIsDefined
      <3>2. processed_queue' = [processed_queue EXCEPT
                                  ![lp] = SubSeq(p, CollectedBy(p, time) + 1, Len(p))]
        BY <2>4, <2>5 DEF fossilCollect
      <3> QED
        BY <3>1, <3>2
    <2>7. /\ processed_queue'[lp] = SubSeq(p, k + 1, Len(p))
          /\ state_queue'[lp] = SubSeq(q, first, Len(q))
          /\ \A l \in LP : l # lp => /\ processed_queue'[l] = processed_queue[l]
                                     /\ state_queue'[l] = state_queue[l]
      BY <1>3, <2>4, <2>6 DEF EngineInv, IInv, TypeOK, EngineTypeOK
    <2>8. LogEndsInQueue(lp)'
      <3>1. JustReceived(lp)' = JustReceived(lp)
        BY <1>3, <1>5
      <3> QED
        BY <1>3, <2>2, <2>3, <2>5, <2>6, <2>7, <3>1, CollectedIsOld
    <2>9. \A l \in LP : l # lp => LogEndsInQueue(l)' /\ StateIsLogged(l)' /\ SavedIsLogged(l)'
      BY <1>2, <1>3, <1>5, <2>7, QueueStands, StatesStandLogged DEF LogInv
    <2>10. PICK c : c = SubSeq(q, first, Len(q))
      OBVIOUS
    <2>17. c # <<>> /\ \A i \in DOMAIN c : \E j \in DOMAIN q : c[i] = q[j]
      <3>1. Len(q) \in first .. Len(q)
        BY <2>1
      <3>2. IsCut(SubSeq(q, first, Len(q)), q, first, Len(q))
        BY <1>3, <2>2, <3>1, StatesCut
      <3> QED
        BY <2>10, <3>2 DEF IsCut
    <2>11. \A l, i : StateAfter(l, i)' = StateAfter(l, i)
      BY DEF StateAfter
    <2>12. SavedIsLogged(lp)'
      <3>1. SavedIsLogged(lp)
        BY <1>3 DEF LogInv
      <3>2. ASSUME NEW i \in DOMAIN c
            PROVE  \E n \in DOMAIN log[lp] : /\ log[lp][n].event = c[i].event
                                             /\ c[i].state = StateAfter(lp, n)
        <4>1. PICK j \in DOMAIN q : c[i] = q[j]
          BY <2>17
        <4> QED
          BY <1>3, <3>1, <4>1 DEF SavedIsLogged
      <3>3. state_queue'[lp] = c
        BY <2>7, <2>10
      <3> QED
        BY <2>11, <3>2, <3>3 DEF SavedIsLogged
    <2>13. StateIsLogged(lp)'
      <3>1. StateIsLogged(lp) /\ InPast(lp)' = InPast(lp)
        BY <1>3, <1>5 DEF LogInv
      <3> QED
        BY <1>2, <2>11, <3>1 DEF StateIsLogged
    <2>14. \A l \in LP : state_queue'[l] = <<>> <=> state_queue[l] = <<>>
      BY <2>1, <2>7, <2>10, <2>17
    <2>15. \A l \in LP : \A m \in DOMAIN output_queue'[l] : \E j \in DOMAIN output_queue[l] :
               output_queue'[l][m] = output_queue[l][j]
      <3>1. PICK m : m = SentAndPassed(o, gvt) + 1
        OBVIOUS
      <3>2. m \in 1 .. Len(o) + 1 /\ Len(o) \in m - 1 .. Len(o)
        <4>1. SentAndPassed(o, gvt) \in 0 .. Len(o)
          BY <1>3, <2>1, SentAndPassedIsDefined
        <4> HIDE DEF o
        <4> QED
          BY <2>1, <3>1, <4>1
      <3>3. Known' = Known
        BY <1>2, <1>7 DEF Known, InNetwork
      <3>4. PICK n : n = Len(o)
        OBVIOUS
      <3>5. output_queue' = [output_queue EXCEPT ![lp] = SubSeq(output_queue[lp], m, n)]
        BY <2>4, <3>1, <3>4
      <3>6. m \in 1 .. Len(output_queue[lp]) + 1 /\ n \in m - 1 .. Len(output_queue[lp])
        BY <3>2, <3>4
      <3>7. \A l \in LP : \A i \in DOMAIN output_queue'[l] :
               \E j \in DOMAIN output_queue[l] : /\ output_queue'[l][i] = output_queue[l][j]
                                                 /\ l = lp => j \in m .. n
        BY <1>3, <3>3, <3>5, <3>6, OutputKept
      <3> QED
        BY <3>7
    <2>16. \A l \in LP : LogEndsInQueue(l)' /\ StateIsLogged(l)' /\ SavedIsLogged(l)'
      BY <2>8, <2>9, <2>12, <2>13
    <2> QED
      BY <1>2, <1>7, <2>14, <2>15, <2>16, QuietLog
  <1> QED
    BY <1>8, <1>9

-----------------------------------------------------------------------------
(* The steps by which messages travel and time is committed.               *)

LEMMA RestLog ==
  ASSUME EngineInv, LogInv, log' = log,
         UNCHANGED <<state, state_queue, processed_queue>>,
         \A u \in Worker : pc'[u] = pc[u] /\ held'[u] = held[u],
         pc[Master] = "terminated" => pc'[Master] = "terminated", NEW lp \in LP
  PROVE  LogEndsInQueue(lp)' /\ StateIsLogged(lp)' /\ SavedIsLogged(lp)'
  <1>1. JustReceived(lp)' = JustReceived(lp) /\ InPast(lp)' = InPast(lp)
    BY WorkersRest
  <1> QED
    BY <1>1, QueueStands, StatesStandLogged DEF LogInv

LEMMA ReceiveLog ==
  ASSUME EngineInv, LogInv, Remember, log' = log,
         NEW link \in DOMAIN network, NEW i \in DOMAIN network[link], Receive(link, i)
  PROVE  LogInv'
  <1> DEFINE e == network[link][i]
  <1>1. /\ insertEvent(e.recv, e)
        /\ network' = [network EXCEPT ![link] = RemoveAt(@, i)]
        /\ UNCHANGED <<held, pc, new_events, events_to_cancel, state, state_queue,
                       output_queue, gvt>>
    BY DEF Receive, toSend, lpVars
  <1>2. link \in Scheduler \X Scheduler /\ network \in [Scheduler \X Scheduler -> Seq(Event)]
    BY InNetworkIs DEF EngineInv, EngineTypeOK
  <1>3. e \in InNetwork /\ e \in Known
    BY <1>2, InNetworkIs DEF EngineInv, Known
  <1>4. /\ e \in Sendable /\ e \notin sent /\ gvt <= e.ts
        /\ \A f \in sent : f.sender = e.sender /\ f.gen = e.gen => PositiveEvent(f) = PositiveEvent(e)
    <2>1. e \in Sendable /\ gvt <= e.ts
      BY <1>3 DEF EngineInv, KnownIsIdentified, OutstandingNotBeforeGVT
    <2>2. e \notin sent
      BY <1>3 DEF EngineInv, NetworkHoldsOnce
    <2>3. \A f \in sent : f.sender = e.sender /\ f.gen = e.gen => PositiveEvent(f) = PositiveEvent(e)
      BY <1>3 DEF EngineInv, KnownIsIdentified, Known
    <2> QED
      BY <2>1, <2>2, <2>3
  <1>5. pc[Master] # "terminated"
    BY <1>3 DEF EngineInv, MasterControl, Outstanding
  <1>6. horizon = gvt /\ horizon' = horizon
    BY <1>1, <1>5 DEF EngineInv, MasterControl, Remember
  <1> HIDE DEF e
  <1>7. e \in Event /\ e.recv \in LP /\ e.ts >= horizon
    BY <1>4, <1>6, SendableFacts DEF Event, EngineInv, EngineTypeOK
  <1>8. sent' = sent \cup {e} /\ processed_queue' = processed_queue
    <2>1. IInv /\ sent' = sent \cup Pending' /\ held' = held
      BY <1>1 DEF EngineInv, Remember
    <2> QED
      BY <1>1, <1>4, <1>6, <1>7, <2>1, Inserted
  <1>9. Known' = Known
    BY <1>1, <1>2, <1>8, NetworkDelivers DEF EngineInv, e
  <1>10. \A f : f \in Pending \/ f = e => f \in Pending'
    <2>1. input_queue' = [input_queue EXCEPT ![e.recv] = input_queue[e.recv] \cup {e}]
      BY <1>1 DEF insertEvent
    <2>2. \A l \in LP : /\ input_queue[l] \subseteq input_queue'[l]
                        /\ e \in input_queue'[e.recv]
      BY <1>7, <2>1 DEF EngineInv, IInv, TypeOK
    <2> QED
      BY <1>7, <2>2 DEF Pending
  <1>11. ASSUME NEW f \in InNetwork, f # e PROVE f \in InNetwork'
    <2>1. f \in Known' /\ f \notin sent
      BY <1>9 DEF Known, EngineInv, NetworkHoldsOnce
    <2> QED
      BY <1>8, <1>11, <2>1 DEF Known
  <1>12. BeingCancelled' = BeingCancelled
    BY <1>1 DEF BeingCancelled
  <1>13. ASSUME NEW l \in LP
         PROVE  LogEndsInQueue(l)' /\ StateIsLogged(l)' /\ SavedIsLogged(l)'
    BY <1>1, <1>8, RestLog
  <1>14. ASSUME NEW l \in LP, NEW f \in SentBy(l)
         PROVE  /\ f \in Known' /\ NegativeEvent(f) \notin Known' /\ f \notin BeingCancelled'
                /\ f.ts < horizon' => f \in Logged(f.recv)
    BY <1>6, <1>9, <1>12, SentByFacts
  <1>15. ASSUME NEW l \in LP, NEW f \in Logged(l)
         PROVE  /\ f \in sent'
                /\ NegativeEvent(f) \in Known' => NegativeEvent(f) \in Pending' \cup InNetwork'
    BY <1>8, <1>9, <1>10, <1>11, LoggedFacts
  <1> QED
    BY <1>1, <1>9, <1>12, <1>13, <1>14, <1>15, SilentLog

LEMMA AdvanceLog ==
  ASSUME EngineInv, LogInv, log' = log, sent' = sent, horizon' \in Nat,
         UNCHANGED <<network, new_events, events_to_cancel, state, state_queue,
                     processed_queue, input_queue, output_queue>>,
         \A u \in Worker : pc'[u] = pc[u] /\ held'[u] = held[u],
         pc[Master] = "running",
         \A f \in Outstanding : horizon' <= f.ts
  PROVE  LogInv'
  <1>1. /\ Known' = Known /\ InNetwork' = InNetwork /\ BeingCancelled' = BeingCancelled
        /\ Pending' = Pending
    BY DEF Known, InNetwork, BeingCancelled, Pending
  <1>2. ASSUME NEW lp \in LP, NEW e \in SentBy(lp), e.ts < horizon'
        PROVE  e \in Logged(e.recv)
    <2>1. /\ e \in Message /\ e \in Known /\ e.recv \in LP /\ e.ts \in Nat /\ horizon \in Nat
          /\ NegativeEvent(e) \notin Known
      BY SentByFacts DEF EngineInv, IInv, TypeOK
    <2>2. CASE e.ts < horizon
      BY <2>2, SentByFacts
    <2>3. CASE e.ts >= horizon
      <3>1. e \notin Outstanding
        BY <1>2, <2>1
      <3>2. e \in sent \cap Message /\ NegativeEvent(e) \notin sent /\ e \notin Pending
        BY <2>1, <3>1 DEF Known, Outstanding
      <3>3. e \in input_queue[e.recv] \cup Processed(e.recv)
        BY <2>3, <3>2 DEF EngineInv, IInv, NoEventLost, UncancelledIsKept
      <3>4. e \in Processed(e.recv)
        BY <2>1, <3>2, <3>3 DEF Pending
      <3> QED
        BY <2>1, <3>4, LoggedIsProcessed
    <2> QED
      BY <2>1, <2>2, <2>3
  <1>3. ASSUME NEW lp \in LP, NEW e \in SentBy(lp)
        PROVE  e \in Known' /\ NegativeEvent(e) \notin Known' /\ e \notin BeingCancelled'
    BY <1>1, SentByFacts
  <1>4. ASSUME NEW lp \in LP, NEW e \in Logged(lp)
        PROVE  /\ e \in sent'
               /\ NegativeEvent(e) \in Known' => NegativeEvent(e) \in Pending' \cup InNetwork'
    BY <1>1, LoggedFacts
  <1>5. ASSUME NEW lp \in LP
        PROVE  LogEndsInQueue(lp)' /\ StateIsLogged(lp)' /\ SavedIsLogged(lp)'
    BY RestLog
  <1> QED
    BY <1>1, <1>2, <1>3, <1>4, <1>5, SilentLog

LEMMA AdvanceGVTLog ==
  ASSUME MessageIsAll, EngineInv, LogInv, Remember, log' = log,
         NEW time \in GvtTimes, AdvanceGVT(time)
  PROVE  LogInv'
  <1>1. /\ pc[Master] = "running" /\ gvt' = time
        /\ \A e \in Outstanding : time <= e.ts
        /\ UNCHANGED <<held, pc, new_events, events_to_cancel, state, state_queue,
                       output_queue, network, input_queue, processed_queue>>
    BY DEF AdvanceGVT, toSend, lpVars, queues
  <1>2. time \in Nat
    BY MessageTimes
  <1>3. Pending' = Pending
    BY <1>1 DEF Pending
  <1>4. sent' = sent /\ horizon' = time
    BY <1>1, <1>3, PendingIsSent, NothingInserted DEF EngineInv, MasterControl, Remember
  <1> QED
    BY <1>1, <1>2, <1>4, AdvanceLog

LEMMA TerminateLog ==
  ASSUME EngineInv, LogInv, Remember, log' = log, Terminate
  PROVE  LogInv'
  <1>1. /\ pc[Master] = "running" /\ Outstanding = {}
        /\ pc' = [pc EXCEPT ![Master] = "terminated"]
        /\ UNCHANGED <<held, new_events, events_to_cancel, state, state_queue,
                       output_queue, network, input_queue, processed_queue>>
    BY DEF Terminate, Goto, toSend, lpVars, queues
  <1>2. pc'[Master] = "terminated" /\ \A u \in Worker : pc'[u] = pc[u]
    BY <1>1, MasterIsNoWorker DEF EngineInv, EngineTypeOK
  <1>3. Pending' = Pending /\ Pending = {}
    BY <1>1 DEF Pending, Outstanding
  <1>4. sent' = sent /\ horizon' = Infinity
    BY <1>1, <1>2, <1>3, NothingInserted DEF EngineInv, MasterControl, Remember
  <1>5. Infinity \in Nat
    BY TimesAssumption
  <1> QED
    BY <1>1, <1>2, <1>4, <1>5, AdvanceLog

(* What is sent is on its way or has arrived, and nothing else is lost.    *)
LEMMA TransmitKeeps ==
  ASSUME EngineInv, Remember, NEW n, n.recv \in LP, n \notin Known,
         Known' = Known \cup {n}, Transmit(n)
  PROVE  /\ Pending \subseteq Pending' /\ InNetwork \subseteq InNetwork'
         /\ n \in Pending' \cup InNetwork' /\ sent \subseteq sent'
  <1>0. sent \subseteq sent'
    BY DEF Remember
  <1>1. CASE Local(n)
    <2>1. insertEvent(n.recv, n) /\ network' = network
      BY <1>1 DEF Transmit
    <2>2. input_queue' = [input_queue EXCEPT ![n.recv] = input_queue[n.recv] \cup {n}]
      BY <2>1 DEF insertEvent
    <2>3. \A l \in LP : input_queue[l] \subseteq input_queue'[l]
      BY <2>2 DEF EngineInv, IInv, TypeOK
    <2>4. n \in input_queue'[n.recv]
      BY <2>2 DEF EngineInv, IInv, TypeOK
    <2> QED
      BY <1>0, <2>1, <2>3, <2>4 DEF Pending, InNetwork
  <1>2. CASE ~ Local(n)
    <2>1. UNCHANGED queues
      BY <1>2 DEF Transmit
    <2>2. Pending' = Pending
      BY <2>1 DEF queues, Pending
    <2>3. sent' = sent
      BY <2>2, PendingIsSent, NothingInserted DEF EngineInv
    <2>4. \A f : f \in sent' \cup InNetwork' <=> f \in sent \cup InNetwork \/ f = n
      BY DEF Known
    <2>5. InNetwork \cap sent = {} /\ n \notin sent
      BY DEF EngineInv, NetworkHoldsOnce, Known
    <2> QED
      BY <2>2, <2>3, <2>4, <2>5
  <1> QED
    BY <1>1, <1>2

(* The anti-message that is sent is that of an event being cancelled.      *)
LEMMA SendAntiMessageLog ==
  ASSUME EngineInv, EngineInv', LogInv, Remember, log' = log,
         NEW t \in Worker, SendAntiMessage(t)
  PROVE  LogInv'
  <1> DEFINE q == events_to_cancel[t]
             e == Head(q)
             n == NegativeEvent(e)
  <1>1. /\ q # <<>>
        /\ events_to_cancel' = [events_to_cancel EXCEPT ![t] = Tail(@)]
        /\ Transmit(n)
        /\ UNCHANGED <<held, pc, new_events, state, state_queue, output_queue, generation, gvt>>
    BY DEF SendAntiMessage, lpVars
  <1>2. /\ events_to_cancel \in [Worker -> Seq(Event)] /\ q \in Seq(Event)
        /\ \A i \in DOMAIN Tail(q) : i \in Nat /\ i + 1 \in DOMAIN q /\ Tail(q)[i] = q[i + 1]
        /\ Tail(q) \in Seq(Event)
        /\ 1 \in DOMAIN q /\ e = q[1]
    <2>1. events_to_cancel \in [Worker -> Seq(Event)] /\ q \in Seq(Event)
      BY DEF EngineInv, EngineTypeOK
    <2> QED
      BY <1>1, <2>1, TailFacts
  <1>3. \A u \in Worker : events_to_cancel'[u] = IF u = t THEN Tail(q) ELSE events_to_cancel[u]
    BY <1>1, <1>2
  <1>4. pc[t] = "cancelEvents" /\ pc[Master] = "running"
    <2>1. pc[t] = "cancelEvents"
      BY <1>1 DEF EngineInv, WorkersInStep, InStep
    <2> QED
      BY <2>1, Engaged DEF Handling
  <1>5. /\ e \in Known /\ e.type = POSITIVE /\ n \notin Known
    <2>1. /\ q[1] \in Known /\ q[1].type = POSITIVE /\ NegativeEvent(q[1]) \notin Known
      BY <1>2 DEF EngineInv, ToCancelIsSent
    <2> HIDE DEF e, q
    <2> QED
      BY <1>2, <2>1
  <1>6. e \in BeingCancelled /\ gvt <= e.ts
    BY <1>2, BeingCancelledIs DEF EngineInv, OutstandingNotBeforeGVT
  <1>7. /\ e \in Sendable /\ e.sender \in LP /\ e.gen < generation[e.sender] /\ e.send <= e.ts
        /\ \A f \in Known : f.sender = e.sender /\ f.gen = e.gen => PositiveEvent(f) = PositiveEvent(e)
        /\ Known \subseteq Sendable
    BY <1>5 DEF EngineInv, KnownIsIdentified
  <1>8. /\ n \in Sendable /\ n.sender = e.sender /\ n.gen = e.gen /\ n.ts = e.ts
        /\ n.send = e.send /\ PositiveEvent(n) = e /\ PositiveEvent(e) = e
        /\ n.type = NEGATIVE /\ e \in Event /\ n \in Event /\ n.recv \in LP
    <2>1. e \in Message
      BY <1>5, <1>7, SendableFacts
    <2>2. e \in Event
      BY <2>1, MessageFacts
    <2>3. n.sender = e.sender /\ n.gen = e.gen /\ n.ts = e.ts /\ n.send = e.send
      BY <2>2 DEF NegativeEvent, Event
    <2>4. n \in Event /\ n.recv \in LP
      BY <2>1, MessageFacts, SendableFacts
    <2> QED
      BY <2>1, <2>2, <2>3, <2>4, MessageFacts
  <1>9. generation \in [LP -> Nat] /\ generation' = generation
    BY <1>1 DEF EngineInv, EngineTypeOK
  <1> HIDE DEF e, n, q
  <1>10. Known' = Known \cup {n} /\ processed_queue' = processed_queue /\ horizon' = horizon
    <2>1. /\ n \in Sendable /\ n \notin Known /\ gvt <= n.ts /\ pc[Master] # "terminated"
          /\ n.sender \in LP /\ n.send <= n.ts /\ n.gen < generation'[n.sender]
          /\ generation' \in [LP -> Nat] /\ \A l \in LP : generation[l] <= generation'[l]
          /\ \A f \in Known : f.sender = n.sender /\ f.gen = n.gen
                             => PositiveEvent(f) = PositiveEvent(n)
      BY <1>4, <1>5, <1>6, <1>7, <1>8, <1>9
    <2>2. Transmit(n) /\ held' = held /\ pc' = pc /\ gvt' = gvt
      BY <1>1
    <2> QED
      BY <2>1, <2>2, Transmitted
  <1>11. ASSUME NEW c \in Event, NegativeEvent(c) = n, c.type = POSITIVE
         PROVE  c = e
    BY <1>5, <1>8, <1>11 DEF NegativeEvent, PositiveEvent, Event, n
  <1>12. \A f : f \in BeingCancelled' => f \in BeingCancelled
    <2> SUFFICES ASSUME NEW f \in BeingCancelled' PROVE f \in BeingCancelled
      OBVIOUS
    <2>1. PICK u \in Worker : \E i \in DOMAIN events_to_cancel'[u] : f = events_to_cancel'[u][i]
      BY DEF BeingCancelled, ToSet
    <2>2. \E i \in DOMAIN events_to_cancel[u] : f = events_to_cancel[u][i]
      BY <1>2, <1>3, <2>1 DEF q
    <2> QED
      BY <2>2, BeingCancelledIs
  <1>13. ASSUME NEW f \in BeingCancelled, f # e PROVE f \in BeingCancelled'
    <2>1. PICK u \in Worker : \E i \in DOMAIN events_to_cancel[u] : f = events_to_cancel[u][i]
      BY <1>13, BeingCancelledIs
    <2>2. PICK i \in DOMAIN events_to_cancel[u] : f = events_to_cancel[u][i]
      BY <2>1
    <2>3. CASE u = t
      <3>1. i \in DOMAIN q /\ i # 1 /\ f = q[i]
        BY <1>2, <1>13, <2>2, <2>3 DEF q
      <3>2. i - 1 \in DOMAIN Tail(q) /\ Tail(q)[i - 1] = q[i]
        BY <1>2, <3>1
      <3>3. i - 1 \in DOMAIN events_to_cancel'[t] /\ events_to_cancel'[t][i - 1] = f
        BY <1>3, <3>1, <3>2
      <3> QED
        BY <3>3 DEF BeingCancelled, ToSet
    <2>4. CASE u # t
      <3>1. i \in DOMAIN events_to_cancel'[u] /\ events_to_cancel'[u][i] = f
        BY <1>3, <2>2, <2>4
      <3> QED
        BY <3>1 DEF BeingCancelled, ToSet
    <2> QED
      BY <2>3, <2>4
  <1>14. /\ Pending \subseteq Pending' /\ InNetwork \subseteq InNetwork'
         /\ n \in Pending' \cup InNetwork' /\ sent \subseteq sent'
    <2>1. n.recv \in LP /\ n \notin Known /\ Known' = Known \cup {n} /\ Transmit(n)
      BY <1>1, <1>5, <1>8, <1>10
    <2> QED
      BY <2>1, TransmitKeeps
  <1>15. ASSUME NEW l \in LP
         PROVE  LogEndsInQueue(l)' /\ StateIsLogged(l)' /\ SavedIsLogged(l)'
    BY <1>1, <1>10, RestLog
  <1>16. ASSUME NEW l \in LP, NEW f \in SentBy(l)
         PROVE  /\ f \in Known' /\ NegativeEvent(f) \notin Known' /\ f \notin BeingCancelled'
                /\ f.ts < horizon' => f \in Logged(f.recv)
    <2>1. /\ f \in Event /\ f.type = POSITIVE /\ f \in Known
          /\ NegativeEvent(f) \notin Known /\ f \notin BeingCancelled
          /\ f.ts < horizon => f \in Logged(f.recv)
      BY SentByFacts
    <2>2. NegativeEvent(f) # n
      BY <1>6, <1>11, <2>1
    <2> QED
      BY <1>10, <1>12, <2>1, <2>2
  <1>17. ASSUME NEW l \in LP, NEW f \in Logged(l)
         PROVE  /\ f \in sent'
                /\ NegativeEvent(f) \in Known' => NegativeEvent(f) \in Pending' \cup InNetwork'
    BY <1>10, <1>14, LoggedFacts
  <1>18. ASSUME NEW f \in Known', f.type = POSITIVE
         PROVE  /\ f \in Known
                /\ f \in BeingCancelled \/ NegativeEvent(f) \in Known =>
                       f \in BeingCancelled' \/ NegativeEvent(f) \in Known'
    <2>1. f \in Known
      BY <1>8, <1>10, <1>18 DEF POSITIVE, NEGATIVE
    <2>2. f = e => NegativeEvent(f) \in Known'
      BY <1>10 DEF n
    <2> QED
      BY <1>10, <1>13, <2>1, <2>2
  <1>19. \A l \in LP : state_queue'[l] = <<>> <=> state_queue[l] = <<>>
    BY <1>1
  <1>20. \A l \in LP : \A m \in DOMAIN output_queue'[l] : \E j \in DOMAIN output_queue[l] :
             output_queue'[l][m] = output_queue[l][j]
    BY <1>1
  <1>21. new_events' = new_events
    BY <1>1
  <1> QED
    BY <1>15, <1>16, <1>17, <1>18, <1>19, <1>20, <1>21, SilentLog

-----------------------------------------------------------------------------
(* The steps that record.                                                  *)

LEMMA PrefixLog ==
  ASSUME NEW lp, NEW n \in Nat, \A i \in 1 .. n : log'[lp][i].event = log[lp][i].event
  PROVE  \A i \in 1 .. n : /\ StateAfter(lp, i)' = StateAfter(lp, i)
                           /\ LoggedSends(lp, i)' = LoggedSends(lp, i)
  <1>1. ASSUME NEW i \in 1 .. n
        PROVE  StateAfter(lp, i)' = StateAfter(lp, i)
    <2>1. \A k \in 1 .. i - 1 : Trace(log'[lp][k + 1].event) = Trace(log[lp][k + 1].event)
      <3> SUFFICES ASSUME NEW k \in 1 .. i - 1
                   PROVE  log'[lp][k + 1].event = log[lp][k + 1].event
        OBVIOUS
      <3>1. k + 1 \in 1 .. n
        OBVIOUS
      <3> QED
        BY <3>1
    <2> QED
      BY <2>1 DEF StateAfter
  <1>2. ASSUME NEW i \in 1 .. n
        PROVE  LoggedSends(lp, i)' = LoggedSends(lp, i)
    <2>1. CASE i = 1
      BY <2>1 DEF LoggedSends
    <2>2. CASE i # 1
      <3>1. i - 1 \in 1 .. n
        BY <2>2
      <3>2. StateAfter(lp, i - 1)' = StateAfter(lp, i - 1)
        BY <1>1, <3>1
      <3> QED
        BY <2>2, <3>2 DEF LoggedSends
    <2> QED
      BY <2>1, <2>2
  <1> QED
    BY <1>1, <1>2

LEMMA OtherLogs ==
  ASSUME LogInv, NEW lp \in LP, log'[lp] = log[lp],
         state_queue'[lp] = state_queue[lp], state'[lp] = state[lp],
         processed_queue'[lp] = processed_queue[lp], output_queue'[lp] = output_queue[lp],
         JustReceived(lp)' = JustReceived(lp), InPast(lp)' = InPast(lp),
         pc[Master] = "terminated" => pc'[Master] = "terminated",
         \A t \in Thread : SendsFor(t, lp) => SendsFor(t, lp)'
  PROVE  /\ LogInOrder(lp)' /\ LogEndsInQueue(lp)' /\ StateIsLogged(lp)' /\ SavedIsLogged(lp)'
         /\ OutputIsLogged(lp)' /\ SentIsModelled(lp)' /\ SentInOrder(lp)'
         /\ Logged(lp)' = Logged(lp) /\ SentBy(lp)' = SentBy(lp)
         /\ log'[lp] \in Seq(Entry)
  <1>1. /\ LogInOrder(lp) /\ LogEndsInQueue(lp) /\ StateIsLogged(lp) /\ SavedIsLogged(lp)
        /\ OutputIsLogged(lp) /\ SentIsModelled(lp) /\ SentInOrder(lp)
        /\ log[lp] \in Seq(Entry)
    BY DEF LogInv
  <1>2. LogEndsInQueue(lp)' /\ StateIsLogged(lp)' /\ SavedIsLogged(lp)'
    BY <1>1, QueueStands, StatesStandLogged
  <1>3. OutputIsLogged(lp)' /\ SentIsModelled(lp)'
    BY <1>1, OutputStands, ModelledStands
  <1> QED
    BY <1>1, <1>2, <1>3, LogStands

(* Only the worker that handles an LP's event sends for it.                *)
LEMMA WhoSends ==
  ASSUME EngineInv, NEW t \in Thread, NEW lp \in LP, SendsFor(t, lp)
  PROVE  /\ t = Master => pc[Master] = "initialize"
         /\ t # Master => /\ t \in Worker /\ pc[t] = "sendEvents" /\ held[t] # NoEvent
                          /\ held[t].recv = lp /\ pc[Master] = "running"
         /\ new_events[t] \in Seq(ToSend) /\ Len(new_events[t]) \in Nat
         /\ Len(new_events[t]) >= 1 /\ DOMAIN new_events[t] = 1 .. Len(new_events[t])
         /\ Head(new_events[t]) = new_events[t][1]
  <1>1. new_events[t] \in Seq(ToSend) /\ new_events[t] # <<>>
    BY DEF EngineInv, EngineTypeOK, SendsFor
  <1>2. /\ Len(new_events[t]) \in Nat /\ Len(new_events[t]) >= 1
        /\ DOMAIN new_events[t] = 1 .. Len(new_events[t])
        /\ Head(new_events[t]) = new_events[t][1] /\ 1 \in DOMAIN new_events[t]
    BY <1>1
  <1>3. t = Master => pc[Master] = "initialize"
    BY <1>1 DEF EngineInv, MasterControl
  <1>4. ASSUME t # Master
        PROVE  /\ t \in Worker /\ pc[t] = "sendEvents" /\ held[t] # NoEvent
               /\ held[t].recv = lp /\ pc[Master] = "running"
    <2>1. t \in Worker
      BY <1>4, MasterIsNoWorker
    <2>2. pc[t] = "sendEvents"
      BY <1>1, <2>1 DEF EngineInv, WorkersInStep, InStep
    <2>3. new_events[t][1].sender = held[t].recv
      BY <1>2, <1>4 DEF EngineInv, ToSendIsCaused
    <2> QED
      BY <1>2, <2>1, <2>2, <2>3, Engaged DEF SendsFor, Handling
  <1> QED
    BY <1>1, <1>2, <1>3, <1>4

(* The event an LP receives comes after all it has received.               *)
LEMMA LoggedIsBefore ==
  ASSUME EngineInv, LogInv, NEW t \in Worker, pc[t] = "receiveEvent",
         NEW lp, lp = held[t].recv, NEW i \in DOMAIN log[lp]
  PROVE  Before(log[lp][i].event, held[t])
  <1> DEFINE e == held[t]
             f == log[lp][i].event
  <1>1. /\ lp \in LP /\ e \in Event /\ e \in sent /\ e \in input_queue[lp] /\ e.sender \in LP
        /\ e.ts >= gvt /\ e.ts \in Nat /\ gvt \in Nat /\ pc[Master] = "running"
        /\ \A u \in Worker : held[u] # NoEvent /\ held[u].recv = lp => u = t
    BY Engaged DEF Handling
  <1>2. ~ IsStraggler(lp, e) /\ e.type = POSITIVE
    BY DEF EngineInv, WorkersInStep, InStep, Handling
  <1>3. f \in Event /\ f.ts \in Nat /\ (i = 1 => f = InitialEvent) /\ i \in 1 .. Len(log[lp])
        /\ Len(log[lp]) \in Nat
    BY <1>1, LogFacts
  <1>4. JustReceived(lp) = {}
    BY <1>1, JustReceivedIs
  <1>5. CASE i = 1
    <2>1. e.sender > 0
      BY <1>1 DEF LP
    <2> QED
      BY <1>1, <1>3, <1>5, <2>1, InitialEventIsFirst
  <1>6. CASE i # 1 /\ f.ts < gvt
    BY <1>1, <1>3, <1>6 DEF Before
  <1>7. CASE i # 1 /\ ~ (f.ts < gvt)
    <2>0. i \in 2 .. Len(log[lp])
      BY <1>3, <1>7
    <2>1. f \in Logged(lp)
      BY <2>0 DEF Logged
    <2>2. f \in Processed(lp)
      BY <1>1, <1>3, <1>4, <1>7, <2>1, LoggedIsProcessed
    <2>3. f \in sent /\ f.type = POSITIVE
      BY <1>1, <2>1, LoggedFacts
    <2>4. f # e
      BY <1>1, <2>2 DEF EngineInv, IInv, NoEventLost, NotInBothQueues
    <2>5. ~ SameEvent(f, e)
      BY <1>1, <1>2, <2>3, <2>4 DEF EngineInv, IInv, QueuesHoldSent, Distinct
    <2>6. ~ Before(e, f)
      BY <1>1, <1>2, <2>2, NothingProcessedIsLater DEF EngineInv
    <2> QED
      BY <1>1, <1>3, <2>5, <2>6, BeforeIsTotal
  <1> QED
    BY <1>5, <1>6, <1>7

LEMMA InitializeLPLog ==
  ASSUME ModelIsCausal, EngineInv, StateInv, LogInv, Remember, log' = log,
         NEW lp \in LP, InitializeLP(lp)
  PROVE  LogInv'
  <1> DEFINE sends == InitialSends[lp]
             r == [event |-> InitialEvent, state |-> state[lp]]
             q == Append(<<>>, r)
  <1>1. /\ pc[Master] = "initialize" /\ new_events[Master] = <<>> /\ state_queue[lp] = <<>>
        /\ new_events' = [new_events EXCEPT ![Master] = Returned(InitialEvent, lp, sends)]
        /\ saveState(lp, InitialEvent, state[lp])
        /\ UNCHANGED <<input_queue, processed_queue, held, pc, events_to_cancel, state,
                       output_queue, gvt, network>>
    BY DEF InitializeLP, queues
  <1>2. count[lp] = 0 /\ processed_queue[lp] = <<>>
    BY <1>1 DEF EngineInv, FirstStateIsOld, MasterControl
  <1>3. /\ state_queue'[lp] = q
        /\ \A l \in LP : l # lp => state_queue'[l] = state_queue[l]
    BY <1>1, <1>2 DEF saveState, EngineInv, EngineTypeOK
  <1>4. q # <<>> /\ DOMAIN q = {1} /\ q[1] = r
    <2> HIDE DEF r
    <2> QED
      OBVIOUS
  <1> HIDE DEF q
  <1>5. sends \in Seq(Send) /\ Len(sends) \in Nat /\ DOMAIN sends = 1 .. Len(sends)
    <2>1. sends \in Seq(Send)
      BY DEF ModelIsCausal
    <2> HIDE DEF sends
    <2> QED
      BY <2>1
  <1> HIDE DEF sends
  <1>6. \A l \in LP : JustReceived(l)' = JustReceived(l) /\ InPast(l)' = InPast(l)
    BY <1>1, WorkersRest
  <1>7. JustReceived(lp) = {} /\ ~ InPast(lp)
    <2>1. \A u \in Worker : pc[u] = "getEvent"
      BY <1>1 DEF EngineInv, WorkersInStep, InStep
    <2> QED
      BY <2>1 DEF JustReceived, InPast
  <1>8. /\ Len(log[lp]) = 1 /\ Collected(lp) = 1 /\ DOMAIN log[lp] = {1}
        /\ log[lp][1].event = InitialEvent
        /\ log[lp][1].sent = <<>>
    <2>1. /\ Collected(lp) \in 1 .. Len(log[lp]) /\ Len(log[lp]) \in Nat
          /\ Len(log[lp]) = Collected(lp) + Len(processed_queue[lp]) + 0
          /\ \A i \in 2 .. Collected(lp) : state_queue[lp] # <<>>
      BY <1>1, <1>7, QueueInLog, LogFacts
    <2>2. Len(log[lp]) = Collected(lp)
      BY <1>2, <2>1
    <2>3. ~ (Collected(lp) >= 2)
      <3>1. 2 \notin 2 .. Collected(lp)
        BY <1>1, <2>1
      <3> QED
        BY <2>1, <3>1
    <2>4. Collected(lp) = 1
      BY <2>1, <2>3
    <2>5. DOMAIN log[lp] = 1 .. 1 /\ log[lp][1].event = InitialEvent /\ 1 \in DOMAIN log[lp]
      BY <2>2, <2>4, LogFacts
    <2>6. log[lp][1].sent = <<>>
      BY <1>1, <2>5 DEF LogInv, SentIsModelled
    <2> QED
      BY <2>2, <2>4, <2>5, <2>6
  <1>9. /\ new_events'[Master] = Returned(InitialEvent, lp, sends)
        /\ \A t \in Thread : t # Master => new_events'[t] = new_events[t]
        /\ DOMAIN Returned(InitialEvent, lp, sends) = DOMAIN sends
        /\ Len(Returned(InitialEvent, lp, sends)) = Len(sends)
    <2>1. Returned(InitialEvent, lp, sends) \in Seq(ToSend)
      BY <1>5, ReturnedType, InitialEventFacts
    <2>2. DOMAIN Returned(InitialEvent, lp, sends) = DOMAIN sends
      BY DEF Returned
    <2>3. Len(Returned(InitialEvent, lp, sends)) = Len(sends)
      BY <1>5, <2>1, <2>2
    <2>4. Master \in Thread /\ new_events \in [Thread -> Seq(ToSend)]
      BY MasterIsNoWorker DEF EngineInv, EngineTypeOK
    <2> QED
      BY <1>1, <2>2, <2>3, <2>4
  <1>10. \A t \in Thread : ~ SendsFor(Master, lp) /\ (\A l : SendsFor(t, l) => SendsFor(t, l)' /\ t # Master)
    BY <1>1, <1>9 DEF SendsFor
  <1>11. /\ \A l \in LP : SendsFor(Master, l)' => l = lp /\ sends # <<>>
         /\ Len(sends) > 0 => SendsFor(Master, lp)'
    <2>1. PICK s : s = Returned(InitialEvent, lp, sends)
      OBVIOUS
    <2>2. s \in Seq(ToSend)
      BY <1>5, <2>1, ReturnedType, InitialEventFacts
    <2>3. s # <<>> <=> Len(sends) > 0
      BY <1>5, <1>9, <2>1, <2>2
    <2>4. s # <<>> => Head(s).sender = lp
      <3> SUFFICES ASSUME s # <<>> PROVE Head(s).sender = lp
        OBVIOUS
      <3>1. 1 \in DOMAIN s /\ Head(s) = s[1]
        BY <2>2
      <3> QED
        BY <1>9, <2>1, <3>1 DEF Returned
    <2>5. sends = <<>> => ~ (Len(sends) > 0)
      OBVIOUS
    <2> QED
      BY <1>9, <2>1, <2>3, <2>4, <2>5 DEF SendsFor
  <1>12. \A l \in LP : l # lp =>
           /\ LogInOrder(l)' /\ LogEndsInQueue(l)' /\ StateIsLogged(l)' /\ SavedIsLogged(l)'
           /\ OutputIsLogged(l)' /\ SentIsModelled(l)' /\ SentInOrder(l)'
    BY <1>1, <1>3, <1>6, <1>10, OtherLogs
  <1>13. \A l \in LP : Logged(l)' = Logged(l) /\ SentBy(l)' = SentBy(l)
    BY LogStands
  <1>14. LogInOrder(lp)' /\ SentInOrder(lp)' /\ OutputIsLogged(lp)'
    BY <1>1, LogStands, OutputStands DEF LogInv
  <1>15. LogEndsInQueue(lp)'
    <2>1. Collected(lp)' = Collected(lp)
      BY <1>1, <1>6 DEF Collected
    <2>2. \A i \in 2 .. Collected(lp) : FALSE
      BY <1>8
    <2>3. /\ \A e \in JustReceived(lp) : log[lp][Len(log[lp])].event = e
          /\ Collected(lp) > 0
          /\ \A i \in DOMAIN processed_queue[lp] :
                 log[lp][Collected(lp) + i].event = processed_queue[lp][i]
      BY <1>1 DEF LogInv, LogEndsInQueue
    <2> QED
      BY <1>1, <1>6, <2>1, <2>2, <2>3 DEF LogEndsInQueue
  <1>16. \A l \in LP : \A i : StateAfter(l, i)' = StateAfter(l, i) /\ LoggedSends(l, i)' = LoggedSends(l, i)
    BY LogStands
  <1>17. state[lp] = StateAfter(lp, 1)
    BY <1>7, <1>8 DEF LogInv, StateIsLogged
  <1>18. StateIsLogged(lp)' /\ SavedIsLogged(lp)'
    <2>1. StateIsLogged(lp)'
      BY <1>1, <1>8, <1>16, <1>17 DEF StateIsLogged
    <2>2. ASSUME NEW i \in DOMAIN q
          PROVE  /\ log[lp][1].event = q[i].event /\ q[i].state = StateAfter(lp, 1)
      BY <1>4, <1>8, <1>17
    <2>3. SavedIsLogged(lp)'
      BY <1>3, <1>8, <1>16, <2>2 DEF SavedIsLogged
    <2> QED
      BY <2>1, <2>3
  <1>19. LoggedSends(lp, 1) = sends
    BY DEF LoggedSends, sends
  <1>20. SentIsModelled(lp)'
    <2> DEFINE m == log[lp][1].sent
    <2>1. Len(m) = 0 /\ DOMAIN m = {}
      BY <1>8
    <2>2. Len(m) <= Len(sends) /\ (Len(m) = Len(sends) \/ Len(sends) > 0)
      BY <1>5, <2>1
    <2>3. state_queue'[lp] # <<>> /\ Master \in Thread
      BY <1>3, <1>4, MasterIsNoWorker
    <2> HIDE DEF m
    <2>4. /\ Len(m) <= Len(sends) /\ DOMAIN m = {}
          /\ \/ Len(m) = Len(sends)
             \/ 1 = Len(log'[lp]) /\ \E t \in Thread : SendsFor(t, lp)'
      BY <1>8, <1>11, <2>1, <2>2, <2>3
    <2> QED
      BY <1>8, <1>16, <1>19, <2>3, <2>4 DEF SentIsModelled, m
  <1>21. ASSUME NEW t \in Thread PROVE RestIsModelled(t)'
    <2>1. CASE t # Master
      BY <1>3, <1>4, <1>9, <2>1, RestStands DEF LogInv
    <2>2. CASE t = Master
      <3> SUFFICES ASSUME NEW l \in LP, NEW last \in DOMAIN log'[l], SendsFor(t, l)',
                          last = Len(log'[l])
                   PROVE  LET made == log'[l][last].sent
                              all  == LoggedSends(l, last)'
                          IN  /\ state_queue'[l] # <<>>
                              /\ Len(all) = Len(made) + Len(new_events'[t])
                              /\ \A k \in DOMAIN new_events'[t] :
                                     new_events'[t][k] =
                                         [source |-> log'[l][last].event, sender |-> l,
                                          recv |-> all[Len(made) + k].recv,
                                          ts |-> all[Len(made) + k].ts]
        BY DEF RestIsModelled
      <3>1. l = lp /\ last = 1
        BY <1>8, <1>11, <2>2
      <3>2. Len(log'[l][last].sent) = 0 /\ LoggedSends(l, last)' = sends
            /\ log'[l][last].event = InitialEvent
        BY <1>8, <1>16, <1>19, <3>1
      <3>3. \A k \in DOMAIN sends : 0 + k = k
        BY <1>5
      <3>4. \A k \in DOMAIN new_events'[t] : new_events'[t][k] =
                [source |-> InitialEvent, sender |-> lp, recv |-> sends[0 + k].recv,
                 ts |-> sends[0 + k].ts]
        BY <1>9, <2>2, <3>3 DEF Returned
      <3>5. Len(sends) = 0 + Len(new_events'[t])
        BY <1>5, <1>9, <2>2
      <3>6. state_queue'[l] # <<>>
        BY <1>3, <1>4, <3>1
      <3> QED
        BY <3>1, <3>2, <3>4, <3>5, <3>6
    <2> QED
      BY <2>1, <2>2
  <1>22. /\ Known' = Known /\ InNetwork' = InNetwork /\ BeingCancelled' = BeingCancelled
         /\ Pending' = Pending /\ sent' = sent /\ horizon' = horizon
    <2>1. Pending' = Pending
      BY <1>1 DEF Pending
    <2>2. sent' = sent
      BY <2>1, NothingInserted, PendingIsSent DEF EngineInv
    <2>3. horizon' = horizon
      BY <1>1 DEF Remember, EngineInv, MasterControl
    <2> QED
      BY <1>1, <2>1, <2>2, <2>3 DEF Known, InNetwork, BeingCancelled
  <1>23. \A l \in LP : SentStands(l)' /\ LoggedStands(l)'
    <2> SUFFICES ASSUME NEW l \in LP PROVE SentStands(l)' /\ LoggedStands(l)'
      OBVIOUS
    <2>1. SentStands(l) /\ LoggedStands(l)
      BY DEF LogInv
    <2>2. \A e \in SentBy(l) : e.recv \in LP
      BY SentByFacts
    <2> QED
      BY <1>13, <1>22, <2>1, <2>2 DEF SentStands, LoggedStands
  <1>24. KnownIsSent'
    <2>1. \A e \in Known : e.sender \in LP
      BY DEF EngineInv, KnownIsIdentified
    <2> QED
      BY <1>13, <1>22, <2>1 DEF LogInv, KnownIsSent
  <1>25. log' \in [LP -> Seq(Entry)]
    BY DEF LogInv
  <1> QED
    BY <1>12, <1>14, <1>15, <1>18, <1>20, <1>21, <1>23, <1>24, <1>25 DEF LogInv

(* The log of an LP with one entry more, of which nothing was sent yet.    *)
LongerBy(lp, x, n) ==
    /\ n \in Nat /\ n >= 1 /\ DOMAIN log[lp] = 1 .. n
    /\ Len(log'[lp]) = n + 1 /\ DOMAIN log'[lp] = 1 .. n + 1
    /\ log'[lp] \in Seq(Entry)
    /\ \A i \in 1 .. n : log'[lp][i] = log[lp][i]
    /\ log'[lp][n + 1] = x
    /\ \A i \in 1 .. n : /\ StateAfter(lp, i)' = StateAfter(lp, i)
                         /\ LoggedSends(lp, i)' = LoggedSends(lp, i)
                         /\ SentAt(lp, i)' = SentAt(lp, i)
    /\ StateAfter(lp, n + 1)' = Append(StateAfter(lp, n), Trace(x.event))
    /\ SentBy(lp)' = SentBy(lp)
    /\ Logged(lp)' = Logged(lp) \cup {x.event}

LEMMA LongerLog ==
  ASSUME LogInv, NEW lp \in LP, NEW x \in Entry, x.sent = <<>>,
         log'[lp] = Append(log[lp], x), NEW n, n = Len(log[lp])
  PROVE  LongerBy(lp, x, n)
  <1>1. PICK q : q = log[lp]
    OBVIOUS
  <1>2. q \in Seq(Entry) /\ n \in Nat /\ n >= 1 /\ DOMAIN q = 1 .. n /\ n = Len(q)
    BY <1>1, LogFacts
  <1>3. /\ Append(q, x) \in Seq(Entry) /\ Len(Append(q, x)) = n + 1
        /\ \A i \in 1 .. n : Append(q, x)[i] = q[i]
        /\ Append(q, x)[n + 1] = x /\ DOMAIN Append(q, x) = 1 .. n + 1
    BY <1>2, AppendFacts
  <1>4. /\ Len(log'[lp]) = n + 1 /\ DOMAIN log'[lp] = 1 .. n + 1
        /\ log'[lp] \in Seq(Entry)
        /\ \A i \in 1 .. n : log'[lp][i] = log[lp][i]
        /\ log'[lp][n + 1] = x
    BY <1>1, <1>3
  <1>5. \A i \in 1 .. n : /\ StateAfter(lp, i)' = StateAfter(lp, i)
                          /\ LoggedSends(lp, i)' = LoggedSends(lp, i)
    <2>1. \A i \in 1 .. n : log'[lp][i].event = log[lp][i].event
      BY <1>4
    <2> QED
      BY <1>2, <2>1, PrefixLog
  <1>6. \A i \in 1 .. n : SentAt(lp, i)' = SentAt(lp, i)
    BY <1>4 DEF SentAt
  <1>7. SentAt(lp, n + 1)' = {}
    BY <1>4 DEF SentAt
  <1>8. \A i \in 1 .. n + 1 : i \in 1 .. n \/ i = n + 1
    BY <1>2
  <1>9. SentBy(lp)' = SentBy(lp)
    <2>1. ASSUME NEW e
          PROVE  e \in SentBy(lp)' <=> e \in SentBy(lp)
      <3>1. e \in SentBy(lp)' <=> \E i \in 1 .. n + 1 : e \in SentAt(lp, i)'
        BY <1>4 DEF SentBy
      <3>2. e \in SentBy(lp) <=> \E i \in 1 .. n : e \in SentAt(lp, i)
        BY <1>1, <1>2 DEF SentBy
      <3>3. \A i \in 1 .. n : i \in 1 .. n + 1
        BY <1>2
      <3> QED
        BY <1>6, <1>7, <1>8, <3>1, <3>2, <3>3
    <2> QED
      BY <2>1
  <1>10. Logged(lp)' = Logged(lp) \cup {x.event}
    <2>1. ASSUME NEW e
          PROVE  e \in Logged(lp)' <=> e \in Logged(lp) \cup {x.event}
      <3>1. e \in Logged(lp)' <=> \E i \in 2 .. n + 1 : e = log'[lp][i].event
        BY <1>4 DEF Logged
      <3>2. e \in Logged(lp) <=> \E i \in 2 .. n : e = log[lp][i].event
        BY <1>1, <1>2 DEF Logged
      <3>3. \A i : i \in 2 .. n + 1 <=> i \in 2 .. n \/ i = n + 1
        BY <1>2
      <3>4. \A i \in 2 .. n : i \in 1 .. n
        BY <1>2
      <3> QED
        BY <1>4, <3>1, <3>2, <3>3, <3>4
    <2> QED
      BY <2>1
  <1>11. StateAfter(lp, n + 1)' = Append(StateAfter(lp, n), Trace(x.event))
    <2>1. /\ StateAfter(lp, n) \in Seq(TraceOf)
          /\ Len(StateAfter(lp, n)) = n - 1
          /\ \A k \in 1 .. n - 1 : StateAfter(lp, n)[k] = Trace(log[lp][k + 1].event)
      <3>1. n \in DOMAIN log[lp]
        BY <1>1, <1>2
      <3> QED
        BY <3>1, StateAfterFacts
    <2>2. Trace(x.event) \in TraceOf
      <3>1. x.event \in Event
        BY MessageFacts, InitialEventFacts DEF Entry
      <3> QED
        BY <3>1, TraceType
    <2>3. PICK s : s = StateAfter(lp, n)
      OBVIOUS
    <2>4. PICK v : v = Trace(x.event)
      OBVIOUS
    <2>5. /\ s \in Seq(TraceOf) /\ Len(s) = n - 1 /\ v \in TraceOf
          /\ \A k \in 1 .. n - 1 : s[k] = Trace(log[lp][k + 1].event)
      BY <2>1, <2>2, <2>3, <2>4
    <2>6. Append(s, v) = [k \in 1 .. n |-> IF k = n THEN v ELSE s[k]]
      <3>1. /\ Append(s, v) \in Seq(TraceOf) /\ Len(Append(s, v)) = n
            /\ \A k \in 1 .. n - 1 : Append(s, v)[k] = s[k]
            /\ Append(s, v)[n] = v
        <4>1. Len(s) + 1 = n
          BY <1>2, <2>5
        <4> QED
          BY <2>5, <4>1, AppendFacts
      <3>2. PICK a : a = Append(s, v)
        OBVIOUS
      <3>3. /\ a \in Seq(TraceOf) /\ Len(a) = n
            /\ \A k \in 1 .. n - 1 : a[k] = s[k]
            /\ a[n] = v
        BY <3>1, <3>2
      <3>4. DOMAIN a = 1 .. n /\ a = [k \in 1 .. n |-> a[k]]
        BY <1>2, <3>3
      <3>5. \A k \in 1 .. n : a[k] = IF k = n THEN v ELSE s[k]
        <4> SUFFICES ASSUME NEW k \in 1 .. n PROVE a[k] = IF k = n THEN v ELSE s[k]
          OBVIOUS
        <4>0. n \in Nat
          BY <1>2
        <4>1. k = n \/ (k \in 1 .. n - 1 /\ k # n)
          BY <4>0
        <4> QED
          BY <3>3, <4>1
      <3> QED
        BY <3>2, <3>4, <3>5
    <2>7. \A k \in 1 .. n : Trace(log'[lp][k + 1].event) = IF k = n THEN v ELSE s[k]
      <3> SUFFICES ASSUME NEW k \in 1 .. n
                   PROVE  Trace(log'[lp][k + 1].event) = IF k = n THEN v ELSE s[k]
        OBVIOUS
      <3>1. CASE k = n
        BY <1>4, <2>4, <3>1
      <3>2. CASE k # n
        <4>1. k \in 1 .. n - 1 /\ k + 1 \in 1 .. n
          BY <1>2, <3>2
        <4> QED
          BY <1>4, <2>5, <3>2, <4>1
      <3> QED
        BY <3>1, <3>2
    <2>8. (n + 1) - 1 = n
      BY <1>2
    <2>9. StateAfter(lp, n + 1)' = [k \in 1 .. (n + 1) - 1 |-> Trace(log'[lp][k + 1].event)]
      BY DEF StateAfter
    <2> QED
      BY <2>3, <2>4, <2>6, <2>7, <2>8, <2>9
  <1> QED
    BY <1>1, <1>2, <1>4, <1>5, <1>6, <1>9, <1>10, <1>11 DEF LongerBy

(* Whose turn it is to receive nobody sends for.                           *)
LEMMA NobodySends ==
  ASSUME EngineInv, NEW t \in Worker, pc[t] \in Handling \ {"sendEvents"},
         NEW lp, lp = held[t].recv, NEW u \in Thread
  PROVE  ~ SendsFor(u, lp)
  <1>1. /\ lp \in LP /\ pc[Master] = "running"
        /\ \A v \in Worker : held[v] # NoEvent /\ held[v].recv = lp => v = t
    BY Engaged
  <1> SUFFICES ASSUME SendsFor(u, lp) PROVE FALSE
    OBVIOUS
  <1>2. /\ u = Master => pc[Master] = "initialize"
        /\ u # Master => u \in Worker /\ pc[u] = "sendEvents" /\ held[u] # NoEvent /\ held[u].recv = lp
    BY <1>1, WhoSends
  <1> QED
    BY <1>1, <1>2

LEMMA ReceiveEventLog ==
  ASSUME ModelIsCausal, EngineInv, StateInv, LogInv, Remember,
         NEW t \in Worker, ReceiveEvent(t), LogEvent(t)
  PROVE  LogInv'
  <1>1. PICK lp, e, n : lp = held[t].recv /\ e = held[t] /\ n = Len(log[lp])
    OBVIOUS
  <1> DEFINE x == [event |-> e, sent |-> <<>>]
             new == NextState(state[lp], e)
             sends == Sends(lp, state[lp], e)
             q == state_queue[lp]
             r == [event |-> e, state |-> new]
  <1>2. /\ pc[t] = "receiveEvent"
        /\ state' = [state EXCEPT ![lp] = new]
        /\ saveState(lp, e, new)
        /\ new_events' = [new_events EXCEPT ![t] = Returned(e, lp, sends)]
        /\ pc' = [pc EXCEPT ![t] = "sendEvents"]
        /\ log' = [log EXCEPT ![lp] = Append(@, x)]
        /\ UNCHANGED <<input_queue, processed_queue, held, gvt, events_to_cancel,
                       output_queue, network>>
    BY <1>1 DEF ReceiveEvent, LogEvent, Goto, queues
  <1>3. /\ lp \in LP /\ pc[t] \in Handling /\ pc[Master] = "running" /\ t # Master
        /\ e # NoEvent /\ e \in Event /\ e \in sent /\ e.type = POSITIVE
        /\ e \in input_queue[lp] /\ e.recv = lp /\ t \in Thread /\ e \in Sendable
    BY <1>1, <1>2, Engaged, MasterIsNoWorker DEF Handling, EngineInv, WorkersInStep, InStep
  <1>4. e \in Message
    BY <1>3, SendableFacts
  <1>5. /\ pc'[t] = "sendEvents" /\ pc'[Master] = "running"
        /\ \A u \in Worker : u # t => pc'[u] = pc[u] /\ held'[u] = held[u]
    BY <1>2, <1>3, MasterIsNoWorker DEF EngineInv, EngineTypeOK
  <1>6. /\ JustReceived(lp) = {} /\ JustReceived(lp)' = {e}
        /\ ~ InPast(lp) /\ ~ InPast(lp)'
        /\ \A l : l # lp => JustReceived(l)' = JustReceived(l) /\ InPast(l)' = InPast(l)
    BY <1>1, <1>2, <1>3, <1>5, WorkerReceived
  <1>7. x \in Entry /\ x.sent = <<>> /\ x.event = e
    BY <1>4 DEF Entry
  <1> HIDE DEF x
  <1>8. /\ log'[lp] = Append(log[lp], x)
        /\ \A l \in LP : l # lp => log'[l] = log[l]
        /\ log' = [l \in LP |-> log'[l]]
    BY <1>2, <1>3 DEF LogInv
  <1>9. /\ n \in Nat /\ n >= 1 /\ DOMAIN log[lp] = 1 .. n
        /\ Len(log'[lp]) = n + 1 /\ DOMAIN log'[lp] = 1 .. n + 1
        /\ log'[lp] \in Seq(Entry)
        /\ \A i \in 1 .. n : log'[lp][i] = log[lp][i]
        /\ log'[lp][n + 1] = x
        /\ \A i \in 1 .. n : /\ StateAfter(lp, i)' = StateAfter(lp, i)
                             /\ LoggedSends(lp, i)' = LoggedSends(lp, i)
                             /\ SentAt(lp, i)' = SentAt(lp, i)
        /\ StateAfter(lp, n + 1)' = Append(StateAfter(lp, n), Trace(e))
        /\ SentBy(lp)' = SentBy(lp)
        /\ Logged(lp)' = Logged(lp) \cup {e}
    <2> HIDE DEF LogInv
    <2>1. PICK y : y = x
      OBVIOUS
    <2>2. y \in Entry /\ y.sent = <<>> /\ log'[lp] = Append(log[lp], y)
      BY <1>7, <1>8, <2>1
    <2>3. LongerBy(lp, y, n)
      <3>1. lp \in LP /\ n = Len(log[lp])
        BY <1>1, <1>3
      <3> QED
        BY <2>2, <3>1, LongerLog
    <2> QED
      BY <1>7, <2>1, <2>3 DEF LongerBy
  <1>10. \A i \in 1 .. n + 1 : i \in 1 .. n \/ i = n + 1
    BY <1>9
  <1>11. \A u \in Thread : ~ SendsFor(u, lp)
    BY <1>1, <1>2, NobodySends DEF Handling
  <1>12. state[lp] = StateAfter(lp, n) /\ state'[lp] = new /\ new = Append(state[lp], Trace(e))
    BY <1>1, <1>2, <1>3, <1>6 DEF LogInv, StateIsLogged, StateInv, NextState
  <1>13. /\ q # <<>> /\ state_queue'[lp] # <<>> /\ state_queue'[lp][1] = q[1]
         /\ \A i \in DOMAIN state_queue'[lp] :
               \/ \E j \in DOMAIN q : state_queue'[lp][i] = q[j]
               \/ state_queue'[lp][i].event = e /\ state_queue'[lp][i].state = new
         /\ \A l \in LP : l # lp => state_queue'[l] = state_queue[l]
    <2>1. /\ q # <<>> /\ q \in Seq({q[i] : i \in DOMAIN q}) /\ Len(q) \in Nat
          /\ DOMAIN q = 1 .. Len(q) /\ Len(q) >= 1
      BY <1>3, SavedFacts
    <2>2. CASE count[lp] # 0
      BY <1>2, <2>1, <2>2 DEF saveState
    <2>3. CASE count[lp] = 0
      <3> DEFINE a == Append(q, r)
      <3>1. /\ state_queue'[lp] = a
            /\ \A l \in LP : l # lp => state_queue'[l] = state_queue[l]
        BY <1>2, <1>3, <2>3 DEF saveState, EngineInv, EngineTypeOK
      <3>2. PICK S : q \in Seq(S) /\ r \in S
        <4>1. PICK Q : Q = {q[i] : i \in DOMAIN q}
          OBVIOUS
        <4>2. q \in Seq(Q)
          BY <2>1, <4>1
        <4> HIDE DEF q, r
        <4>3. q \in Seq(Q \cup {r})
          BY <4>2
        <4> QED
          BY <4>3
      <3>3. r.event = e /\ r.state = new
        OBVIOUS
      <3> HIDE DEF q, r
      <3>4. /\ a # <<>> /\ DOMAIN a = 1 .. Len(q) + 1
            /\ \A i \in 1 .. Len(q) : a[i] = q[i]
            /\ a[Len(q) + 1] = r
        BY <3>2
      <3> HIDE DEF a
      <3>5. \A i \in DOMAIN a : (\E j \in DOMAIN q : a[i] = q[j]) \/ a[i] = r
        BY <2>1, <3>4
      <3>6. a[1] = q[1]
        BY <2>1, <3>4
      <3> QED
        BY <2>1, <3>1, <3>3, <3>4, <3>5, <3>6 DEF q
    <2> QED
      BY <2>2, <2>3
  <1>14. \A l \in LP : l # lp =>
           /\ LogInOrder(l)' /\ LogEndsInQueue(l)' /\ StateIsLogged(l)' /\ SavedIsLogged(l)'
           /\ OutputIsLogged(l)' /\ SentIsModelled(l)' /\ SentInOrder(l)'
           /\ Logged(l)' = Logged(l) /\ SentBy(l)' = SentBy(l) /\ log'[l] \in Seq(Entry)
    <2> SUFFICES ASSUME NEW l \in LP, l # lp
                 PROVE  /\ LogInOrder(l)' /\ LogEndsInQueue(l)' /\ StateIsLogged(l)' /\ SavedIsLogged(l)'
                        /\ OutputIsLogged(l)' /\ SentIsModelled(l)' /\ SentInOrder(l)'
                        /\ Logged(l)' = Logged(l) /\ SentBy(l)' = SentBy(l) /\ log'[l] \in Seq(Entry)
      OBVIOUS
    <2>1. state'[l] = state[l]
      BY <1>2 DEF StateInv
    <2>2. new_events[t] = <<>>
      BY <1>2 DEF EngineInv, WorkersInStep, InStep
    <2>3. \A u \in Thread : SendsFor(u, l) => SendsFor(u, l)'
      BY <1>2, <2>2 DEF SendsFor, EngineInv, EngineTypeOK
    <2> HIDE DEF LogInv
    <2> QED
      BY <1>2, <1>3, <1>6, <1>8, <1>13, <2>1, <2>3, OtherLogs
  <1>15. LogInOrder(lp)'
    <2>1. \A i \in 1 .. n : Before(log[lp][i].event, e)
      BY <1>1, <1>2, <1>9, LoggedIsBefore
    <2>2. log[lp][1].event = InitialEvent /\ log'[lp] # <<>> /\ 1 \in 1 .. n
      BY <1>3, <1>9, LogFacts
    <2>3. ASSUME NEW i \in 2 .. n + 1
          PROVE  log'[lp][i].event \in Message /\ log'[lp][i].event.recv = lp
      <3>1. (i \in 1 .. n /\ i \in 2 .. n) \/ i = n + 1
        BY <1>9
      <3>2. \A k \in 2 .. n : log[lp][k].event \in Message /\ log[lp][k].event.recv = lp
        BY <1>1, <1>3 DEF LogInv, LogInOrder
      <3> QED
        BY <1>3, <1>4, <1>7, <1>9, <3>1, <3>2
    <2>4. ASSUME NEW i \in 1 .. n + 1, NEW j \in 1 .. n + 1, i < j
          PROVE  Before(log'[lp][i].event, log'[lp][j].event)
      <3>1. i \in 1 .. n /\ (j \in 1 .. n \/ j = n + 1)
        BY <1>9, <2>4
      <3>2. CASE j \in 1 .. n
        <4>1. Before(log[lp][i].event, log[lp][j].event)
          BY <1>3, <1>9, <2>4, <3>1, <3>2 DEF LogInv, LogInOrder
        <4> QED
          BY <1>9, <3>1, <3>2, <4>1
      <3>3. CASE j = n + 1
        BY <1>7, <1>9, <2>1, <3>1, <3>3
      <3> QED
        BY <3>1, <3>2, <3>3
    <2> QED
      BY <1>9, <2>2, <2>3, <2>4 DEF LogInOrder
  <1>16. LogEndsInQueue(lp)'
    <2>1. PICK c, p : c = Collected(lp) /\ p = processed_queue[lp]
      OBVIOUS
    <2>2. /\ c \in 1 .. n /\ Len(p) \in Nat /\ n = c + Len(p) + 0
          /\ \A i \in 1 .. Len(p) : c + i \in 2 .. n /\ log[lp][c + i].event = p[i]
          /\ \A i \in 2 .. c : log[lp][i].event.ts < q[1].event.ts
          /\ DOMAIN p = 1 .. Len(p)
      <3>1. /\ c \in 1 .. n /\ p \in Seq(Event) /\ Len(p) \in Nat
            /\ n = c + Len(p) + (IF JustReceived(lp) = {} THEN 0 ELSE 1)
            /\ \A i \in 1 .. Len(p) : c + i \in 2 .. n /\ log[lp][c + i].event = p[i]
            /\ \A i \in 2 .. c : log[lp][i].event.ts < q[1].event.ts
        BY <1>1, <1>3, <2>1, QueueInLog
      <3>2. DOMAIN p = 1 .. Len(p)
        BY <3>1
      <3> QED
        BY <1>6, <3>1, <3>2
    <2>3. Collected(lp)' = (n + 1) - Len(p) - 1
      BY <1>2, <1>6, <1>9, <2>1 DEF Collected
    <2>4. Collected(lp)' = c
      BY <1>9, <2>2, <2>3
    <2>5. ASSUME NEW i \in DOMAIN p
          PROVE  log'[lp][c + i].event = p[i]
      <3>1. c + i \in 1 .. n
        BY <1>9, <2>2
      <3> QED
        BY <1>9, <2>2, <3>1
    <2>6. ASSUME NEW i \in 2 .. c
          PROVE  log'[lp][i].event.ts < state_queue'[lp][1].event.ts
      <3>1. i \in 1 .. n
        BY <1>9, <2>2
      <3> QED
        BY <1>9, <1>13, <2>2, <3>1
    <2>7. log'[lp][Len(log'[lp])].event = e /\ c > 0
      BY <1>7, <1>9, <2>2
    <2> QED
      BY <1>2, <1>6, <1>13, <2>1, <2>4, <2>5, <2>6, <2>7 DEF LogEndsInQueue
  <1>17. StateIsLogged(lp)' /\ SavedIsLogged(lp)'
    <2>1. state'[lp] = StateAfter(lp, n + 1)'
      BY <1>9, <1>12
    <2>2. StateIsLogged(lp)'
      BY <1>9, <2>1 DEF StateIsLogged
    <2>3. ASSUME NEW i \in DOMAIN state_queue'[lp]
          PROVE  \E k \in 1 .. n + 1 : /\ log'[lp][k].event = state_queue'[lp][i].event
                                       /\ state_queue'[lp][i].state = StateAfter(lp, k)'
      <3>1. CASE \E j \in DOMAIN q : state_queue'[lp][i] = q[j]
        <4>1. PICK j \in DOMAIN q : state_queue'[lp][i] = q[j]
          BY <3>1
        <4>2. PICK k \in 1 .. n : log[lp][k].event = q[j].event /\ q[j].state = StateAfter(lp, k)
          BY <1>3, <1>9 DEF LogInv, SavedIsLogged
        <4>3. k \in 1 .. n + 1
          BY <1>9
        <4> QED
          BY <1>9, <4>1, <4>2, <4>3
      <3>2. CASE state_queue'[lp][i].event = e /\ state_queue'[lp][i].state = new
        <4>1. n + 1 \in 1 .. n + 1
          BY <1>9
        <4> QED
          BY <1>7, <1>9, <1>12, <2>1, <3>2, <4>1
      <3> QED
        BY <1>13, <3>1, <3>2
    <2>4. SavedIsLogged(lp)'
      BY <1>9, <2>3 DEF SavedIsLogged
    <2> QED
      BY <2>2, <2>4
  <1>18. OutputIsLogged(lp)'
    <2> SUFFICES ASSUME NEW m \in DOMAIN output_queue[lp]
                 PROVE  \E i \in 1 .. n + 1 : /\ log'[lp][i].event = output_queue[lp][m].input
                                              /\ output_queue[lp][m].output \in SentAt(lp, i)'
      BY <1>2, <1>9 DEF OutputIsLogged
    <2>1. PICK i \in 1 .. n : /\ log[lp][i].event = output_queue[lp][m].input
                              /\ output_queue[lp][m].output \in SentAt(lp, i)
      BY <1>3, <1>9 DEF LogInv, OutputIsLogged
    <2>2. i \in 1 .. n + 1
      BY <1>9
    <2> QED
      BY <1>9, <2>1, <2>2
  <1>19. SentInOrder(lp)'
    <2>1. DOMAIN log'[lp][n + 1].sent = {}
      BY <1>7, <1>9
    <2>2. SentInOrder(lp)
      BY <1>3 DEF LogInv
    <2> SUFFICES ASSUME NEW i \in 1 .. n + 1, NEW k \in 1 .. n + 1,
                        NEW j \in DOMAIN log'[lp][i].sent, NEW l \in DOMAIN log'[lp][k].sent
                 PROVE  LET f == log'[lp][i].sent[j]
                            g == log'[lp][k].sent[l]
                        IN  f # NoEvent /\ g # NoEvent /\ (i < k \/ (i = k /\ j < l)) => f.gen < g.gen
      BY <1>9 DEF SentInOrder
    <2>3. i \in 1 .. n /\ k \in 1 .. n
      BY <1>10, <2>1
    <2>4. log'[lp][i] = log[lp][i] /\ log'[lp][k] = log[lp][k]
      BY <1>9, <2>3
    <2> QED
      BY <1>9, <2>2, <2>3, <2>4 DEF SentInOrder
  <1>20. sends \in Seq(Send) /\ Len(sends) \in Nat /\ DOMAIN sends = 1 .. Len(sends)
    <2>1. sends \in Seq(Send)
      BY <1>3, <1>4 DEF ModelIsCausal
    <2> HIDE DEF sends
    <2> QED
      BY <2>1
  <1>21. LoggedSends(lp, n + 1)' = sends
    <2>1. n + 1 # 1 /\ (n + 1) - 1 = n /\ n \in 1 .. n
      BY <1>9
    <2>2. StateAfter(lp, n)' = state[lp]
      BY <1>9, <1>12, <2>1
    <2>3. LoggedSends(lp, n + 1)' = Sends(lp, StateAfter(lp, (n + 1) - 1)', log'[lp][n + 1].event)
      BY <2>1 DEF LoggedSends
    <2> QED
      BY <1>7, <1>9, <2>1, <2>2, <2>3
  <1> HIDE DEF sends
  <1>22. /\ new_events'[t] = Returned(e, lp, sends)
         /\ \A u \in Thread : u # t => new_events'[u] = new_events[u]
         /\ DOMAIN Returned(e, lp, sends) = DOMAIN sends
         /\ Len(Returned(e, lp, sends)) = Len(sends)
    <2>1. Returned(e, lp, sends) \in Seq(ToSend)
      BY <1>3, <1>20, ReturnedType
    <2>2. DOMAIN Returned(e, lp, sends) = DOMAIN sends
      BY DEF Returned
    <2>3. Len(Returned(e, lp, sends)) = Len(sends)
      BY <1>20, <2>1, <2>2
    <2>4. new_events \in [Thread -> Seq(ToSend)]
      BY DEF EngineInv, EngineTypeOK
    <2> QED
      BY <1>2, <1>3, <2>2, <2>3, <2>4
  <1>23. /\ \A l \in LP : SendsFor(t, l)' => l = lp
         /\ Len(sends) > 0 => SendsFor(t, lp)'
    <2>1. PICK s : s = Returned(e, lp, sends)
      OBVIOUS
    <2>2. s \in Seq(ToSend)
      BY <1>3, <1>20, <2>1, ReturnedType
    <2>3. s # <<>> <=> Len(sends) > 0
      BY <1>20, <1>22, <2>1, <2>2
    <2>4. s # <<>> => Head(s).sender = lp
      <3> SUFFICES ASSUME s # <<>> PROVE Head(s).sender = lp
        OBVIOUS
      <3>1. 1 \in DOMAIN s /\ Head(s) = s[1]
        BY <2>2
      <3> QED
        BY <1>22, <2>1, <3>1 DEF Returned
    <2> QED
      BY <1>22, <2>1, <2>3, <2>4 DEF SendsFor
  <1>24. SentIsModelled(lp)'
    <2> SUFFICES ASSUME NEW i \in 1 .. n + 1
                 PROVE  LET made == log'[lp][i].sent
                            all  == LoggedSends(lp, i)'
                        IN  /\ Len(made) <= Len(all)
                            /\ \A j \in DOMAIN made :
                                   Becomes(made[j], lp, all[j], log'[lp][i].event.ts)
                            /\ IF state_queue'[lp] = <<>>
                               THEN made = <<>>
                               ELSE \/ Len(made) = Len(all)
                                    \/ /\ i = Len(log'[lp])
                                       /\ \E u \in Thread : SendsFor(u, lp)'
      BY <1>9 DEF SentIsModelled, Becomes
    <2>1. CASE i \in 1 .. n
      <3>1. LET made == log[lp][i].sent
                all  == LoggedSends(lp, i)
            IN  /\ Len(made) <= Len(all)
                /\ \A j \in DOMAIN made :
                       Becomes(made[j], lp, all[j], log[lp][i].event.ts)
                /\ Len(made) = Len(all)
        BY <1>3, <1>9, <1>11, <1>13, <2>1 DEF LogInv, SentIsModelled
      <3> QED
        BY <1>9, <1>13, <2>1, <3>1
    <2>2. CASE i = n + 1
      <3>1. log'[lp][i].sent = <<>> /\ LoggedSends(lp, i)' = sends /\ i = Len(log'[lp])
        BY <1>7, <1>9, <1>21, <2>2
      <3>2. Len(<<>>) = 0 /\ DOMAIN <<>> = {}
        OBVIOUS
      <3>3. 0 <= Len(sends) /\ (0 = Len(sends) \/ Len(sends) > 0)
        BY <1>20
      <3> QED
        BY <1>3, <1>13, <1>23, <3>1, <3>2, <3>3
    <2> QED
      BY <1>10, <2>1, <2>2
  <1>25. ASSUME NEW u \in Thread PROVE RestIsModelled(u)'
    <2>0. \A l \in LP : state_queue'[l] = <<>> => state_queue[l] = <<>>
      BY <1>13
    <2>1. CASE u # t
      <3>1. \A l \in LP : SendsFor(u, l) => log'[l] = log[l]
        BY <1>8, <1>11
      <3> QED
        BY <1>22, <2>0, <2>1, <3>1, RestStands DEF LogInv
    <2>2. CASE u = t
      <3> SUFFICES ASSUME NEW l \in LP, NEW last \in DOMAIN log'[l], SendsFor(t, l)',
                          last = Len(log'[l])
                   PROVE  LET made == log'[l][last].sent
                              all  == LoggedSends(l, last)'
                          IN  /\ state_queue'[l] # <<>>
                              /\ Len(all) = Len(made) + Len(new_events'[t])
                              /\ \A k \in DOMAIN new_events'[t] :
                                     new_events'[t][k] =
                                         [source |-> log'[l][last].event, sender |-> l,
                                          recv |-> all[Len(made) + k].recv,
                                          ts |-> all[Len(made) + k].ts]
        BY <2>2 DEF RestIsModelled
      <3>1. l = lp /\ last = n + 1
        BY <1>9, <1>23
      <3>2. Len(log'[l][last].sent) = 0 /\ LoggedSends(l, last)' = sends
            /\ log'[l][last].event = e
        BY <1>7, <1>9, <1>21, <3>1
      <3>3. \A k \in DOMAIN sends : 0 + k = k
        BY <1>20
      <3>4. \A k \in DOMAIN new_events'[t] : new_events'[t][k] =
                [source |-> e, sender |-> lp, recv |-> sends[0 + k].recv,
                 ts |-> sends[0 + k].ts]
        BY <1>22, <3>3 DEF Returned
      <3>5. Len(sends) = 0 + Len(new_events'[t])
        BY <1>20, <1>22
      <3>6. state_queue'[l] # <<>>
        BY <1>13, <3>1
      <3> QED
        BY <3>1, <3>2, <3>4, <3>5, <3>6
    <2> QED
      BY <2>1, <2>2
  <1>26. /\ Known' = Known /\ InNetwork' = InNetwork /\ BeingCancelled' = BeingCancelled
         /\ Pending' = Pending /\ sent' = sent /\ horizon' = horizon
    <2>1. Pending' = Pending
      BY <1>2 DEF Pending
    <2>2. sent' = sent
      BY <2>1, NothingInserted, PendingIsSent DEF EngineInv
    <2>3. horizon' = horizon
      BY <1>2, <1>3, <1>5 DEF Remember, EngineInv, MasterControl
    <2> QED
      BY <1>2, <2>1, <2>2, <2>3 DEF Known, InNetwork, BeingCancelled
  <1>27. \A l \in LP : Logged(l) \subseteq Logged(l)' /\ SentBy(l)' = SentBy(l)
    BY <1>9, <1>14
  <1>28. \A l \in LP : SentStands(l)'
    <2> SUFFICES ASSUME NEW l \in LP PROVE SentStands(l)'
      OBVIOUS
    <2>1. SentStands(l)
      BY DEF LogInv
    <2>2. \A f \in SentBy(l) : f.recv \in LP
      BY SentByFacts
    <2> QED
      BY <1>26, <1>27, <2>1, <2>2 DEF SentStands
  <1>29. \A l \in LP : LoggedStands(l)'
    <2>1. \A l \in LP : l # lp => LoggedStands(l)'
      BY <1>14, <1>26 DEF LogInv, LoggedStands
    <2>2. e \in sent /\ (NegativeEvent(e) \in Known => NegativeEvent(e) \in Pending \cup InNetwork)
      <3>1. NegativeEvent(e) \in sent => NegativeEvent(e) \in input_queue[lp]
        BY <1>3, <1>4 DEF EngineInv, IInv, NoEventLost, CancelledIsGone
      <3> QED
        BY <1>3, <3>1 DEF Known, Pending
    <2>3. LoggedStands(lp)'
      BY <1>3, <1>9, <1>26, <2>2 DEF LogInv, LoggedStands
    <2> QED
      BY <2>1, <2>3
  <1>30. KnownIsSent'
    <2>1. \A f \in Known : f.sender \in LP
      BY DEF EngineInv, KnownIsIdentified
    <2> QED
      BY <1>26, <1>27, <2>1 DEF LogInv, KnownIsSent
  <1>31. log' \in [LP -> Seq(Entry)]
    BY <1>8, <1>9, <1>14
  <1> QED
    BY <1>14, <1>15, <1>16, <1>17, <1>18, <1>19, <1>24, <1>25, <1>28, <1>29, <1>30, <1>31 DEF LogInv

(* What is sent is new, and not passed by the GVT.                         *)
SendsNew(lp, x) ==
    /\ Known' = Known \cup ({x} \ {NoEvent})
    /\ Pending \subseteq Pending' /\ InNetwork \subseteq InNetwork' /\ sent \subseteq sent'
    /\ BeingCancelled' = BeingCancelled /\ horizon' = horizon
    /\ processed_queue' = processed_queue
    /\ x # NoEvent => /\ x \in Event /\ x.sender = lp /\ x.type = POSITIVE
                      /\ x.gen = generation[lp] /\ x.ts >= horizon
                      /\ x \notin Known /\ NegativeEvent(x) \notin Known'
    /\ \A f \in Known : NegativeEvent(f) # x

LEMMA SendEventIsNew ==
  ASSUME MessageIsAll, EngineInv, Remember, NEW t \in Thread, SendEvent(t),
         NEW next, next = Head(new_events[t]), NEW lp, lp = next.sender,
         NEW x, x = IF next.ts <= MaxSimTime
                    THEN NewEvent(lp, next, next.source.ts, generation[lp]) ELSE NoEvent
  PROVE  SendsNew(lp, x)
  <1>1. /\ new_events[t] # <<>>
        /\ UNCHANGED <<held, pc, events_to_cancel, gvt>>
        /\ next.ts <= MaxSimTime => /\ generation' = [generation EXCEPT ![lp] = @ + 1]
                                    /\ Transmit(x)
        /\ ~ (next.ts <= MaxSimTime) => UNCHANGED <<queues, generation, network>>
    BY DEF SendEvent
  <1>2. /\ lp \in LP /\ next.recv \in LP /\ next.ts \in Nat
        /\ next.source \in Event /\ next.source.ts <= next.ts
        /\ next.ts < Infinity /\ gvt <= next.ts /\ gvt \in Nat
        /\ pc[Master] # "terminated"
    BY <1>1, NextToSend
  <1>3. generation \in [LP -> Nat] /\ lp \in Nat /\ horizon = gvt
    BY <1>2 DEF EngineInv, EngineTypeOK, LP, MasterControl
  <1>4. BeingCancelled' = BeingCancelled
    BY <1>1 DEF BeingCancelled
  <1>5. CASE next.ts <= MaxSimTime
    <2>1. x = NewEvent(lp, next, next.source.ts, generation[lp])
      BY <1>5
    <2>2. /\ x.ts = next.ts /\ x.send = next.source.ts /\ x.sender = lp /\ x.gen = generation[lp]
          /\ x.recv = next.recv /\ x.type = POSITIVE
          /\ x \in Event
      <3>1. PICK a, b, d, g : a = next.ts /\ b = next.source.ts /\ d = generation[lp] /\ g = next.recv
        OBVIOUS
      <3>2. a \in Nat /\ b \in Nat /\ d \in Nat /\ g \in Nat /\ lp \in Nat
        BY <1>2, <1>3, <3>1 DEF Event, LP
      <3>3. x = [ts |-> a, send |-> b, sender |-> lp, gen |-> d, recv |-> g, type |-> POSITIVE]
        BY <2>1, <3>1 DEF NewEvent
      <3>4. x \in Event
        BY <3>2, <3>3 DEF Event
      <3> QED
        BY <3>1, <3>3, <3>4
    <2>3. x \in Message /\ x \in Sendable
      BY <1>2, <1>5, <2>2, MessageFacts DEF MessageIsAll
    <2>4. \A f \in Known : f \in Event /\ f.gen \in Nat /\ (f.sender = lp => f.gen < generation[lp])
      BY SendableFacts DEF EngineInv, KnownIsIdentified, Event
    <2>5. \A f \in Known : f.sender = lp => f.gen # generation[lp]
      BY <1>2, <1>3, <2>4
    <2>6. x \notin Known /\ NegativeEvent(x) \notin Known /\ NegativeEvent(x) # x
      <3>1. NegativeEvent(x).sender = lp /\ NegativeEvent(x).gen = generation[lp]
        BY <2>2, <2>3 DEF NegativeEvent, Event
      <3> QED
        BY <2>2, <2>3, <2>5, <3>1, MessageFacts
    <2>7. /\ generation' \in [LP -> Nat] /\ x.gen < generation'[x.sender]
          /\ \A l \in LP : generation[l] <= generation'[l]
      <3>1. \A l \in LP : generation'[l] = IF l = lp THEN generation[l] + 1 ELSE generation[l]
        BY <1>1, <1>3, <1>5
      <3>2. \A l \in LP : generation[l] \in Nat
        BY <1>3
      <3>3. generation' \in [LP -> Nat]
        BY <1>1, <1>2, <1>3, <1>5, <3>2
      <3>4. x.gen < generation'[x.sender]
        <4>1. x.sender = lp /\ x.gen = generation[lp]
          BY <2>2
        <4>2. PICK g \in Nat : g = generation[lp] /\ generation'[lp] = g + 1
          BY <1>2, <3>1, <3>2
        <4> QED
          BY <4>1, <4>2
      <3>5. ASSUME NEW l \in LP PROVE generation[l] <= generation'[l]
        <4>1. PICK g \in Nat : g = generation[l]
          BY <3>2
        <4>2. generation'[l] = g \/ generation'[l] = g + 1
          BY <3>1, <4>1
        <4> QED
          BY <4>1, <4>2
      <3> QED
        BY <3>3, <3>4, <3>5
    <2>8. gvt <= x.ts /\ x.sender \in LP /\ x.send <= x.ts /\ x.ts >= horizon
      BY <1>2, <1>3, <2>2
    <2>9. Known' = Known \cup {x} /\ processed_queue' = processed_queue /\ horizon' = horizon
      <3>1. \A f \in Known : f.sender = x.sender /\ f.gen = x.gen
                                => PositiveEvent(f) = PositiveEvent(x)
        BY <2>2, <2>5
      <3>2. Transmit(x) /\ held' = held /\ pc' = pc /\ gvt' = gvt
        BY <1>1, <1>5
      <3> QED
        <4>1. x \in Sendable /\ x \notin Known /\ pc[Master] # "terminated"
          BY <1>2, <2>3, <2>6
        <4>2. Known' = Known \cup {x}
          BY <2>7, <2>8, <3>1, <3>2, <4>1, Transmitted
        <4>3. processed_queue' = processed_queue /\ horizon' = horizon
          BY <2>7, <2>8, <3>1, <3>2, <4>1, Transmitted
        <4> QED
          BY <4>2, <4>3
    <2>10. Pending \subseteq Pending' /\ InNetwork \subseteq InNetwork' /\ sent \subseteq sent'
      BY <1>1, <1>2, <1>5, <2>2, <2>6, <2>9, TransmitKeeps
    <2>11. x # NoEvent
      BY <2>2, NoEventIsNoEvent
    <2>12. \A f \in Known : NegativeEvent(f) # x
      <3>1. ASSUME NEW f \in Known PROVE NegativeEvent(f).type = NEGATIVE
        <4>1. f \in Event
          BY <2>4
        <4> QED
          BY <4>1 DEF NegativeEvent, Event
      <3>2. x.type # NEGATIVE
        BY <2>2 DEF NEGATIVE, POSITIVE
      <3> QED
        BY <3>1, <3>2
    <2> QED
      BY <1>4, <2>2, <2>6, <2>8, <2>9, <2>10, <2>11, <2>12 DEF SendsNew
  <1>6. CASE ~ (next.ts <= MaxSimTime)
    <2>1. x = NoEvent /\ UNCHANGED <<input_queue, processed_queue, network>>
      BY <1>1, <1>6 DEF queues
    <2>2. Pending' = Pending /\ InNetwork' = InNetwork
      BY <2>1 DEF Pending, InNetwork
    <2>3. sent' = sent
      BY <2>2, PendingIsSent, NothingInserted DEF EngineInv
    <2>4. Known' = Known
      BY <2>2, <2>3 DEF Known
    <2>5. horizon' = horizon
      BY <1>1 DEF Remember, EngineInv, MasterControl
    <2>6. \A f \in Known : NegativeEvent(f) # NoEvent
      <3>1. \A f \in Known : f \in Event
        BY SendableFacts DEF EngineInv, KnownIsIdentified
      <3>2. \A f \in Event : NegativeEvent(f) \in Event
        BY DEF NegativeEvent, Event, NEGATIVE, POSITIVE
      <3> QED
        BY <3>1, <3>2, NoEventIsNoEvent
    <2> QED
      BY <1>4, <2>1, <2>2, <2>3, <2>4, <2>5, <2>6 DEF SendsNew
  <1> QED
    BY <1>5, <1>6

(* The log of an LP in whose last entry one more send is recorded.         *)
GrownBy(lp, x, n, m) ==
    /\ n \in Nat /\ n >= 1 /\ DOMAIN log[lp] = 1 .. n /\ n = Len(log[lp])
    /\ Len(log'[lp]) = n /\ DOMAIN log'[lp] = 1 .. n
    /\ log'[lp] \in Seq(Entry)
    /\ \A i \in 1 .. n : /\ log'[lp][i].event = log[lp][i].event
                         /\ i # n => log'[lp][i] = log[lp][i]
    /\ m \in Nat /\ DOMAIN log[lp][n].sent = 1 .. m /\ m = Len(log[lp][n].sent)
    /\ Len(log'[lp][n].sent) = m + 1 /\ DOMAIN log'[lp][n].sent = 1 .. m + 1
    /\ \A j \in 1 .. m : log'[lp][n].sent[j] = log[lp][n].sent[j]
    /\ log'[lp][n].sent[m + 1] = x
    /\ \A i \in 1 .. n : /\ StateAfter(lp, i)' = StateAfter(lp, i)
                         /\ LoggedSends(lp, i)' = LoggedSends(lp, i)
                         /\ SentAt(lp, i) \subseteq SentAt(lp, i)'
    /\ x # NoEvent => x \in SentAt(lp, n)'
    /\ SentBy(lp)' = SentBy(lp) \cup ({x} \ {NoEvent})
    /\ Logged(lp)' = Logged(lp)

LEMMA GrownLog ==
  ASSUME LogInv, NEW lp \in LP, NEW x \in Event \cup {NoEvent}, NEW n, n = Len(log[lp]),
         log'[lp] = [log[lp] EXCEPT ![n] = [event |-> log[lp][n].event,
                                            sent |-> Append(log[lp][n].sent, x)]],
         NEW m, m = Len(log[lp][n].sent)
  PROVE  GrownBy(lp, x, n, m)
  <1>1. PICK q, s, g : q = log[lp] /\ s = log[lp][n].sent /\ g = log[lp][n].event
    OBVIOUS
  <1>2. /\ q \in Seq(Entry) /\ n \in Nat /\ n >= 1 /\ DOMAIN q = 1 .. n /\ n = Len(q)
        /\ n \in DOMAIN q
        /\ q[n] \in Entry /\ s \in Seq(Event \cup {NoEvent}) /\ m \in Nat /\ m = Len(s)
        /\ DOMAIN s = 1 .. m /\ g \in Message \cup {InitialEvent}
    <2>1. n \in DOMAIN log[lp]
      BY LogFacts
    <2> QED
      BY <1>1, <2>1, LogFacts
  <1>3. PICK a : /\ a = Append(s, x) /\ a \in Seq(Event \cup {NoEvent}) /\ Len(a) = m + 1
                 /\ DOMAIN a = 1 .. m + 1 /\ \A j \in 1 .. m : a[j] = s[j]
                 /\ a[m + 1] = x
    <2>1. /\ Append(s, x) \in Seq(Event \cup {NoEvent}) /\ Len(Append(s, x)) = m + 1
          /\ DOMAIN Append(s, x) = 1 .. m + 1 /\ \A j \in 1 .. m : Append(s, x)[j] = s[j]
          /\ Append(s, x)[m + 1] = x
      BY <1>2, AppendFacts
    <2> QED
      BY <2>1
  <1>4. PICK y : y = [event |-> g, sent |-> a]
    OBVIOUS
  <1>5. y \in Entry /\ y.event = g /\ y.sent = a
    BY <1>2, <1>3, <1>4 DEF Entry
  <1>6. log'[lp] = [q EXCEPT ![n] = y]
    BY <1>1, <1>3, <1>4
  <1>7. /\ log'[lp] \in Seq(Entry) /\ Len(log'[lp]) = n /\ DOMAIN log'[lp] = 1 .. n
        /\ log'[lp][n] = y /\ \A i \in 1 .. n : i # n => log'[lp][i] = q[i]
    <2>1. PICK r : r = [q EXCEPT ![n] = y]
      OBVIOUS
    <2>2. n \in Nat /\ q \in [1 .. n -> Entry] /\ n \in 1 .. n
      BY <1>2
    <2>3. r \in [1 .. n -> Entry] /\ r[n] = y /\ \A i \in 1 .. n : i # n => r[i] = q[i]
      BY <1>5, <2>1, <2>2
    <2>4. r \in Seq(Entry) /\ Len(r) = n /\ DOMAIN r = 1 .. n
      <3>1. r = [i \in 1 .. n |-> r[i]] /\ \A i \in 1 .. n : r[i] \in Entry
        BY <2>3
      <3>2. PICK E : E = Entry
        OBVIOUS
      <3>3. [i \in 1 .. n |-> r[i]] \in Seq(E) /\ Len([i \in 1 .. n |-> r[i]]) = n
        <4>1. n \in Nat /\ \A i \in 1 .. n : r[i] \in E
          BY <2>2, <3>1, <3>2
        <4> QED
          BY <4>1
      <3> QED
        BY <3>1, <3>2, <3>3
    <2> QED
      BY <1>6, <2>1, <2>3, <2>4
  <1>8. \A i \in 1 .. n : log'[lp][i].event = log[lp][i].event
    BY <1>1, <1>5, <1>7
  <1>9. \A i \in 1 .. n : /\ StateAfter(lp, i)' = StateAfter(lp, i)
                          /\ LoggedSends(lp, i)' = LoggedSends(lp, i)
    BY <1>2, <1>8, PrefixLog
  <1>10. \A i \in 1 .. n : i # n => SentAt(lp, i)' = SentAt(lp, i)
    BY <1>1, <1>7 DEF SentAt
  <1>11. ASSUME NEW f
         PROVE  f \in SentAt(lp, n)' <=> f \in SentAt(lp, n) \/ (f = x /\ f # NoEvent)
    <2>1. f \in SentAt(lp, n)' <=> f # NoEvent /\ \E j \in 1 .. m + 1 : f = a[j]
      <3>1. log'[lp][n].sent = a /\ DOMAIN a = 1 .. m + 1
        BY <1>3, <1>5, <1>7
      <3>2. SentAt(lp, n)' = {log'[lp][n].sent[j] : j \in DOMAIN log'[lp][n].sent} \ {NoEvent}
        BY DEF SentAt
      <3> QED
        BY <3>1, <3>2
    <2>2. f \in SentAt(lp, n) <=> f # NoEvent /\ \E j \in 1 .. m : f = s[j]
      BY <1>1, <1>2 DEF SentAt
    <2>3. \A j : j \in 1 .. m + 1 <=> j \in 1 .. m \/ j = m + 1
      <3>1. m \in Nat
        BY <1>2
      <3> QED
        BY <3>1
    <2> QED
      BY <1>3, <2>1, <2>2, <2>3
  <1>12. ASSUME NEW f
         PROVE  f \in SentBy(lp)' <=> f \in SentBy(lp) \/ (f = x /\ f # NoEvent)
    <2>1. f \in SentBy(lp)' <=> \E i \in 1 .. n : f \in SentAt(lp, i)'
      BY <1>7 DEF SentBy
    <2>2. f \in SentBy(lp) <=> \E i \in 1 .. n : f \in SentAt(lp, i)
      BY <1>1, <1>2 DEF SentBy
    <2>3. n \in 1 .. n
      BY <1>2
    <2> QED
      BY <1>10, <1>11, <2>1, <2>2, <2>3
  <1>13. Logged(lp)' = Logged(lp)
    <2>1. \A i \in 2 .. n : i \in 1 .. n
      BY <1>2
    <2>2. \A i \in 2 .. n : log'[lp][i].event = log[lp][i].event
      BY <1>8, <2>1
    <2> QED
      BY <1>1, <1>2, <1>7, <2>2 DEF Logged
  <1>14. SentBy(lp)' = SentBy(lp) \cup ({x} \ {NoEvent})
    BY <1>12
  <1>15. \A i \in 1 .. n : SentAt(lp, i) \subseteq SentAt(lp, i)'
    BY <1>10, <1>11
  <1>16. x # NoEvent => x \in SentAt(lp, n)'
    BY <1>11
  <1>17. /\ \A i \in 1 .. n : i # n => log'[lp][i] = log[lp][i]
         /\ DOMAIN log[lp][n].sent = 1 .. m
         /\ Len(log'[lp][n].sent) = m + 1 /\ DOMAIN log'[lp][n].sent = 1 .. m + 1
         /\ \A j \in 1 .. m : log'[lp][n].sent[j] = log[lp][n].sent[j]
         /\ log'[lp][n].sent[m + 1] = x
    BY <1>1, <1>2, <1>3, <1>5, <1>7
  <1> QED
    BY <1>1, <1>2, <1>7, <1>8, <1>9, <1>13, <1>14, <1>15, <1>16, <1>17 DEF GrownBy

(* Threads that send for the same LP are the same.                         *)
LEMMA OneSends ==
  ASSUME EngineInv, NEW t \in Thread, NEW u \in Thread, NEW lp \in LP,
         SendsFor(t, lp), SendsFor(u, lp)
  PROVE  t = u
  <1>1. /\ t = Master => pc[Master] = "initialize"
        /\ t # Master => /\ t \in Worker /\ pc[t] = "sendEvents" /\ held[t].recv = lp
                         /\ pc[Master] = "running"
    BY WhoSends
  <1>2. /\ u = Master => pc[Master] = "initialize"
        /\ u # Master => /\ u \in Worker /\ held[u] # NoEvent /\ held[u].recv = lp
                         /\ pc[Master] = "running"
    BY WhoSends
  <1>3. CASE t = Master
    BY <1>1, <1>2, <1>3
  <1>4. CASE t # Master
    <2>1. \A v \in Worker : held[v] # NoEvent /\ held[v].recv = held[t].recv => v = t
      BY <1>1, <1>4, Engaged DEF Handling
    <2> QED
      BY <1>1, <1>2, <1>4, <2>1
  <1> QED
    BY <1>3, <1>4

LEMMA SendEventLog ==
  ASSUME MessageIsAll, EngineInv, StateInv, LogInv, Remember,
         NEW t \in Thread, SendEvent(t), LogSend(t)
  PROVE  LogInv'
  <1>1. PICK next, lp : next = Head(new_events[t]) /\ lp = next.sender
    OBVIOUS
  <1>2. PICK x : x = IF next.ts <= MaxSimTime
                     THEN NewEvent(lp, next, next.source.ts, generation[lp]) ELSE NoEvent
    OBVIOUS
  <1>3. PICK n, m : n = Len(log[lp]) /\ m = Len(log[lp][n].sent)
    OBVIOUS
  <1>4. /\ new_events[t] # <<>>
        /\ new_events' = [new_events EXCEPT ![t] = Tail(@)]
        /\ \/ /\ next.ts <= MaxSimTime
              /\ output_queue' = [output_queue EXCEPT
                    ![lp] = Append(@, [input |-> next.source, output |-> x])]
           \/ x = NoEvent /\ output_queue' = output_queue
        /\ UNCHANGED <<held, pc, events_to_cancel, state, state_queue, gvt>>
        /\ log' = [log EXCEPT ![lp] = [@ EXCEPT ![n] = [event |-> log[lp][n].event,
                                                        sent |-> Append(log[lp][n].sent, x)]]]
    BY <1>1, <1>2, <1>3 DEF SendEvent, LogSend
  <1>5. /\ lp \in LP /\ next.recv \in LP /\ next.ts \in Nat /\ next.source \in Event
        /\ pc[Master] # "terminated" /\ gvt \in Nat
    BY <1>1, <1>4, NextToSend
  <1>6. SendsNew(lp, x)
    BY <1>1, <1>2, SendEventIsNew
  <1>7. x \in Event \cup {NoEvent}
    BY <1>6 DEF SendsNew
  <1>8. /\ log'[lp] = [log[lp] EXCEPT ![n] = [event |-> log[lp][n].event,
                                              sent |-> Append(log[lp][n].sent, x)]]
        /\ \A l \in LP : l # lp => log'[l] = log[l]
        /\ log' = [l \in LP |-> log'[l]]
    <2>1. log \in [LP -> Seq(Entry)]
      BY DEF LogInv
    <2> QED
      BY <1>4, <1>5, <2>1
  <1>9. GrownBy(lp, x, n, m)
    BY <1>3, <1>5, <1>7, <1>8, GrownLog
  <1>10. SendsFor(t, lp)
    BY <1>1, <1>4 DEF SendsFor
  <1>11. PICK s, made, sends : s = new_events[t] /\ made = log[lp][n].sent /\ sends = LoggedSends(lp, n)
    OBVIOUS
  <1>12. /\ state_queue[lp] # <<>>
         /\ Len(sends) = m + Len(s)
         /\ \A k \in DOMAIN s : s[k] = [source |-> log[lp][n].event, sender |-> lp,
                                        recv |-> sends[m + k].recv, ts |-> sends[m + k].ts]
    <2>1. n \in DOMAIN log[lp]
      BY <1>9 DEF GrownBy
    <2>2. RestIsModelled(t)
      BY DEF LogInv
    <2> QED
      BY <1>3, <1>5, <1>10, <1>11, <2>1, <2>2 DEF RestIsModelled
  <1>13. /\ s \in Seq(ToSend) /\ Len(s) \in Nat /\ Len(s) >= 1 /\ DOMAIN s = 1 .. Len(s)
         /\ next = s[1] /\ Tail(s) \in Seq(ToSend) /\ Len(Tail(s)) = Len(s) - 1
         /\ DOMAIN Tail(s) = 1 .. Len(s) - 1
         /\ \A i \in 1 .. Len(s) - 1 : Tail(s)[i] = s[i + 1]
    <2>1. s \in Seq(ToSend) /\ s # <<>>
      BY <1>4, <1>11 DEF EngineInv, EngineTypeOK
    <2> QED
      BY <1>1, <1>11, <2>1
  <1>14. /\ new_events'[t] = Tail(s)
         /\ \A u \in Thread : u # t => new_events'[u] = new_events[u]
    BY <1>4, <1>11 DEF EngineInv, EngineTypeOK
  <1>15. \A l \in LP : JustReceived(l)' = JustReceived(l) /\ InPast(l)' = InPast(l)
    <2>1. \A u \in Worker : pc'[u] = pc[u] /\ held'[u] = held[u]
      BY <1>4
    <2> QED
      BY <2>1, WorkersRest
  <1>16. \A u \in Thread : u # t => ~ SendsFor(u, lp)
    BY <1>5, <1>10, OneSends
  <1>17. \A u \in Thread : \A l \in LP : l # lp /\ SendsFor(u, l) => SendsFor(u, l)'
    <2>1. \A l \in LP : l # lp => ~ SendsFor(t, l)
      BY <1>1 DEF SendsFor
    <2> QED
      BY <1>14, <2>1 DEF SendsFor
  <1>18. next = [source |-> log[lp][n].event, sender |-> lp,
                 recv |-> sends[m + 1].recv, ts |-> sends[m + 1].ts]
    <2>1. 1 \in DOMAIN s
      BY <1>13
    <2> QED
      BY <1>12, <1>13, <2>1
  <1>19. \A l \in LP : l # lp =>
           /\ LogInOrder(l)' /\ LogEndsInQueue(l)' /\ StateIsLogged(l)' /\ SavedIsLogged(l)'
           /\ OutputIsLogged(l)' /\ SentIsModelled(l)' /\ SentInOrder(l)'
           /\ Logged(l)' = Logged(l) /\ SentBy(l)' = SentBy(l) /\ log'[l] \in Seq(Entry)
    <2> SUFFICES ASSUME NEW l \in LP, l # lp
                 PROVE  /\ LogInOrder(l)' /\ LogEndsInQueue(l)' /\ StateIsLogged(l)' /\ SavedIsLogged(l)'
                        /\ OutputIsLogged(l)' /\ SentIsModelled(l)' /\ SentInOrder(l)'
                        /\ Logged(l)' = Logged(l) /\ SentBy(l)' = SentBy(l) /\ log'[l] \in Seq(Entry)
      OBVIOUS
    <2>1. output_queue'[l] = output_queue[l] /\ processed_queue'[l] = processed_queue[l]
      BY <1>4, <1>6 DEF EngineInv, EngineTypeOK, SendsNew
    <2>2. state'[l] = state[l] /\ state_queue'[l] = state_queue[l] /\ pc' = pc
      BY <1>4
    <2> QED
      BY <1>8, <1>15, <1>17, <2>1, <2>2, OtherLogs
  <1>20. \A i \in 1 .. n : /\ log'[lp][i].event = log[lp][i].event
                           /\ StateAfter(lp, i)' = StateAfter(lp, i)
                           /\ LoggedSends(lp, i)' = LoggedSends(lp, i)
                           /\ SentAt(lp, i) \subseteq SentAt(lp, i)'
    BY <1>9 DEF GrownBy
  <1>21. /\ n \in Nat /\ n >= 1 /\ DOMAIN log[lp] = 1 .. n /\ n \in 1 .. n
         /\ Len(log'[lp]) = n /\ DOMAIN log'[lp] = 1 .. n /\ log'[lp] \in Seq(Entry)
         /\ \A i \in 1 .. n : i # n => log'[lp][i] = log[lp][i]
         /\ m \in Nat /\ DOMAIN made = 1 .. m
         /\ Len(log'[lp][n].sent) = m + 1 /\ DOMAIN log'[lp][n].sent = 1 .. m + 1
         /\ \A j \in 1 .. m : log'[lp][n].sent[j] = made[j]
         /\ log'[lp][n].sent[m + 1] = x
         /\ SentBy(lp)' = SentBy(lp) \cup ({x} \ {NoEvent})
         /\ Logged(lp)' = Logged(lp)
    BY <1>9, <1>11 DEF GrownBy
  <1>22. LogInOrder(lp)'
    <2>1. /\ log[lp][1].event = InitialEvent
          /\ \A i \in 2 .. n : log[lp][i].event \in Message /\ log[lp][i].event.recv = lp
          /\ \A i, j \in 1 .. n : i < j => Before(log[lp][i].event, log[lp][j].event)
      BY <1>3, <1>5, <1>21 DEF LogInv, LogInOrder
    <2>2. \A i \in 2 .. n : i \in 1 .. n
      BY <1>21
    <2>3. 1 \in 1 .. n /\ log'[lp] # <<>>
      BY <1>21
    <2> QED
      BY <1>20, <1>21, <2>1, <2>2, <2>3 DEF LogInOrder
  <1>23. LogEndsInQueue(lp)' /\ StateIsLogged(lp)' /\ SavedIsLogged(lp)'
    <2>1. state'[lp] = state[lp] /\ state_queue'[lp] = state_queue[lp] /\ pc' = pc
          /\ processed_queue'[lp] = processed_queue[lp]
      BY <1>4, <1>6 DEF SendsNew
    <2>2. LogEndsInQueue(lp)'
      <3>1. PICK c, p : c = Collected(lp) /\ p = processed_queue[lp]
        OBVIOUS
      <3>2. /\ \A e \in JustReceived(lp) : log[lp][n].event = e
            /\ c \in 1 .. n /\ Len(p) \in Nat /\ p \in Seq(Event)
            /\ \A i \in 1 .. Len(p) : c + i \in 2 .. n /\ log[lp][c + i].event = p[i]
            /\ \A i \in 2 .. c : /\ state_queue[lp] # <<>>
                                 /\ log[lp][i].event.ts < state_queue[lp][1].event.ts
        BY <1>3, <1>5, <3>1, QueueInLog
      <3>3. Collected(lp)' = c
        BY <1>3, <1>5, <1>15, <1>21, <2>1, <3>1 DEF Collected
      <3>4. \A i \in DOMAIN p : log'[lp][c + i].event = p[i]
        <4>1. \A i \in DOMAIN p : i \in 1 .. Len(p)
          BY <3>2
        <4>2. \A i \in 1 .. Len(p) : c + i \in 1 .. n
          BY <1>21, <3>2
        <4> QED
          BY <1>20, <3>2, <4>1, <4>2
      <3>5. \A i \in 2 .. c : log'[lp][i].event.ts < state_queue[lp][1].event.ts
        <4>1. \A i \in 2 .. c : i \in 1 .. n
          BY <1>21, <3>2
        <4> QED
          BY <1>20, <3>2, <4>1
      <3>6. c > 0 /\ \A e \in JustReceived(lp) : log'[lp][n].event = e
        BY <1>20, <1>21, <3>2
      <3> QED
        BY <1>5, <1>12, <1>15, <1>21, <2>1, <3>1, <3>3, <3>4, <3>5, <3>6 DEF LogEndsInQueue
    <2>3. StateIsLogged(lp)'
      BY <1>3, <1>5, <1>15, <1>20, <1>21, <2>1 DEF LogInv, StateIsLogged
    <2>4. SavedIsLogged(lp)'
      <3>1. ASSUME NEW i \in DOMAIN state_queue[lp]
            PROVE  \E k \in 1 .. n : /\ log'[lp][k].event = state_queue[lp][i].event
                                     /\ state_queue[lp][i].state = StateAfter(lp, k)'
        <4>1. PICK k \in 1 .. n : /\ log[lp][k].event = state_queue[lp][i].event
                                  /\ state_queue[lp][i].state = StateAfter(lp, k)
          BY <1>5, <1>21 DEF LogInv, SavedIsLogged
        <4> QED
          BY <1>20, <4>1
      <3> QED
        BY <1>21, <2>1, <3>1 DEF SavedIsLogged
    <2> QED
      BY <2>2, <2>3, <2>4
  <1>24. OutputIsLogged(lp)'
    <2>1. ASSUME NEW o, \E k \in DOMAIN output_queue[lp] : o = output_queue[lp][k]
          PROVE  \E i \in 1 .. n : /\ log'[lp][i].event = o.input
                                   /\ o.output \in SentAt(lp, i)'
      <3>1. \E i \in 1 .. n : log[lp][i].event = o.input /\ o.output \in SentAt(lp, i)
        BY <1>5, <1>21, <2>1 DEF LogInv, OutputIsLogged
      <3> QED
        BY <1>20, <3>1
    <2>2. CASE output_queue' = output_queue
      BY <1>21, <2>1, <2>2 DEF OutputIsLogged
    <2>3. CASE output_queue' # output_queue
      <3> DEFINE r == [input |-> next.source, output |-> x]
      <3>1. output_queue' = [output_queue EXCEPT ![lp] = Append(@, r)] /\ next.ts <= MaxSimTime
        BY <1>4, <2>3
      <3>2. x # NoEvent /\ x \in Event
        <4>1. x.gen = generation[lp] /\ x.type = POSITIVE /\ DOMAIN x = DOMAIN InitialEvent
          BY <1>2, <3>1 DEF NewEvent, InitialEvent
        <4>2. DOMAIN NoEvent = {"none"} /\ "none" \notin DOMAIN InitialEvent
          BY DEF NoEvent, InitialEvent
        <4> QED
          BY <1>7, <4>1, <4>2
      <3>3. r \in Recorded /\ r.input = log[lp][n].event /\ r.output = x
        BY <1>5, <1>18, <3>2 DEF Recorded
      <3> HIDE DEF r
      <3>4. \A k \in DOMAIN output_queue'[lp] :
               \/ k \in DOMAIN output_queue[lp] /\ output_queue'[lp][k] = output_queue[lp][k]
               \/ output_queue'[lp][k] = r
        BY <1>5, <3>1, <3>3, OutputAppended DEF EngineInv
      <3>5. \E i \in 1 .. n : log'[lp][i].event = r.input /\ r.output \in SentAt(lp, i)'
        BY <1>9, <1>20, <1>21, <3>2, <3>3 DEF GrownBy
      <3>6. \A k \in DOMAIN output_queue'[lp] : \E i \in 1 .. n :
               /\ log'[lp][i].event = output_queue'[lp][k].input
               /\ output_queue'[lp][k].output \in SentAt(lp, i)'
        BY <2>1, <3>4, <3>5
      <3> QED
        BY <1>21, <3>6 DEF OutputIsLogged
    <2> QED
      BY <2>2, <2>3
  <1>25. /\ x # NoEvent => x \notin Known /\ NegativeEvent(x) \notin Known' /\ x.ts >= horizon
                           /\ x.sender = lp /\ x.gen = generation[lp]
         /\ Known' = Known \cup ({x} \ {NoEvent})
         /\ \A f \in Known : NegativeEvent(f) # x
         /\ BeingCancelled' = BeingCancelled /\ horizon' = horizon
         /\ Pending \subseteq Pending' /\ InNetwork \subseteq InNetwork' /\ sent \subseteq sent'
    BY <1>6 DEF SendsNew
  <1>26. SentInOrder(lp)'
    <2> SUFFICES ASSUME NEW i \in 1 .. n, NEW k \in 1 .. n,
                        NEW j \in DOMAIN log'[lp][i].sent, NEW l \in DOMAIN log'[lp][k].sent,
                        log'[lp][i].sent[j] # NoEvent, log'[lp][k].sent[l] # NoEvent,
                        i < k \/ (i = k /\ j < l)
                 PROVE  log'[lp][i].sent[j].gen < log'[lp][k].sent[l].gen
      BY <1>21 DEF SentInOrder
    <2>1. \A a \in 1 .. n : \A b \in DOMAIN log'[lp][a].sent :
             \/ b \in DOMAIN log[lp][a].sent /\ log'[lp][a].sent[b] = log[lp][a].sent[b]
             \/ a = n /\ b = m + 1 /\ log'[lp][a].sent[b] = x
      <3> SUFFICES ASSUME NEW a \in 1 .. n, NEW b \in DOMAIN log'[lp][a].sent
                   PROVE  \/ b \in DOMAIN log[lp][a].sent /\ log'[lp][a].sent[b] = log[lp][a].sent[b]
                          \/ a = n /\ b = m + 1 /\ log'[lp][a].sent[b] = x
        OBVIOUS
      <3>1. CASE a # n
        BY <1>21, <3>1
      <3>2. CASE a = n
        <4>1. b \in 1 .. m + 1 /\ m \in Nat
          BY <1>21, <3>2
        <4>2. b \in 1 .. m \/ b = m + 1
          BY <4>1
        <4> QED
          BY <1>11, <1>21, <3>2, <4>2
      <3> QED
        BY <3>1, <3>2
    <2>2. /\ i \in Nat /\ k \in Nat /\ i <= n /\ k <= n /\ n \in Nat
          /\ (i = n => j \in Nat /\ j <= m + 1) /\ (k = n => l \in Nat /\ l <= m + 1)
          /\ m \in Nat
      <3>1. (i = n => j \in 1 .. m + 1) /\ (k = n => l \in 1 .. m + 1)
        BY <1>21
      <3> QED
        BY <1>21, <3>1
    <2>3. ~ (i = n /\ j = m + 1)
      BY <2>2
    <2>4. j \in DOMAIN log[lp][i].sent /\ log'[lp][i].sent[j] = log[lp][i].sent[j]
      BY <2>1, <2>3
    <2>5. CASE l \in DOMAIN log[lp][k].sent /\ log'[lp][k].sent[l] = log[lp][k].sent[l]
      BY <1>5, <1>21, <2>4, <2>5 DEF LogInv, SentInOrder
    <2>6. CASE log'[lp][k].sent[l] = x
      <3>1. log[lp][i].sent[j] \in SentBy(lp)
        BY <1>21, <2>4, SentByIs
      <3>2. log[lp][i].sent[j] \in Known /\ log[lp][i].sent[j].sender = lp
        BY <1>5, <3>1, SentByFacts
      <3>3. log[lp][i].sent[j].gen < generation[lp]
        BY <3>2 DEF EngineInv, KnownIsIdentified
      <3> QED
        BY <1>25, <2>4, <2>6, <3>3
    <2> QED
      BY <2>1, <2>5, <2>6
  <1>27. Becomes(x, lp, sends[m + 1], log[lp][n].event.ts)
    <2>1. next.ts = sends[m + 1].ts /\ next.recv = sends[m + 1].recv /\ next.source = log[lp][n].event
      BY <1>18
    <2>2. CASE next.ts <= MaxSimTime
      <3>1. x.gen = generation[lp]
        BY <1>2, <2>2 DEF NewEvent
      <3> QED
        BY <1>2, <2>1, <2>2, <3>1 DEF Becomes, NewEvent
    <2>3. CASE ~ (next.ts <= MaxSimTime)
      BY <1>2, <2>1, <2>3 DEF Becomes
    <2> QED
      BY <2>2, <2>3
  <1>28. Len(s) > 1 => SendsFor(t, lp)'
    <2> SUFFICES ASSUME Len(s) > 1 PROVE SendsFor(t, lp)'
      OBVIOUS
    <2>0. Len(s) \in Nat /\ Len(s) - 1 >= 1 /\ 1 \in 1 .. Len(s) - 1 /\ 1 + 1 = 2
      BY <1>12
    <2>4. PICK r : r = Tail(s)
      OBVIOUS
    <2>5. r \in Seq(ToSend) /\ Len(r) >= 1
      BY <1>13, <2>0, <2>4
    <2>6. r # <<>> /\ Head(r) = r[1]
      BY <2>5
    <2>1. Tail(s) # <<>> /\ 1 \in 1 .. Len(s) - 1 /\ Head(Tail(s)) = Tail(s)[1] /\ 1 + 1 = 2
      BY <2>0, <2>4, <2>6
    <2>2. Head(Tail(s)) = s[2] /\ 2 \in DOMAIN s
      BY <1>13, <2>1
    <2>3. s[2].sender = lp
      BY <1>12, <2>2
    <2> QED
      BY <1>14, <2>1, <2>2, <2>3 DEF SendsFor
  <1>29. SentIsModelled(lp)'
    <2> SUFFICES ASSUME NEW i \in 1 .. n
                 PROVE  LET done == log'[lp][i].sent
                            all  == LoggedSends(lp, i)'
                        IN  /\ Len(done) <= Len(all)
                            /\ \A j \in DOMAIN done :
                                   Becomes(done[j], lp, all[j], log'[lp][i].event.ts)
                            /\ IF state_queue'[lp] = <<>>
                               THEN done = <<>>
                               ELSE \/ Len(done) = Len(all)
                                    \/ /\ i = Len(log'[lp])
                                       /\ \E u \in Thread : SendsFor(u, lp)'
      BY <1>21 DEF SentIsModelled, Becomes
    <2>1. LET done == log[lp][i].sent
              all  == LoggedSends(lp, i)
          IN  /\ Len(done) <= Len(all)
              /\ \A j \in DOMAIN done : Becomes(done[j], lp, all[j], log[lp][i].event.ts)
              /\ i # n => Len(done) = Len(all)
      BY <1>3, <1>5, <1>12, <1>21 DEF LogInv, SentIsModelled
    <2>2. CASE i # n
      BY <1>4, <1>12, <1>20, <1>21, <2>1, <2>2
    <2>3. CASE i = n
      <3>1. LoggedSends(lp, n)' = sends /\ log'[lp][n].event = log[lp][n].event
        BY <1>11, <1>20, <1>21
      <3>2. m + 1 <= Len(sends) /\ (m + 1 = Len(sends) \/ Len(s) > 1)
        BY <1>12, <1>13, <1>21
      <3>3. \A j \in 1 .. m + 1 : Becomes(log'[lp][n].sent[j], lp, sends[j], log[lp][n].event.ts)
        <4> SUFFICES ASSUME NEW j \in 1 .. m + 1
                     PROVE  Becomes(log'[lp][n].sent[j], lp, sends[j], log[lp][n].event.ts)
          OBVIOUS
        <4>0. m \in Nat
          BY <1>21
        <4>1. j \in 1 .. m \/ j = m + 1
          BY <4>0
        <4>2. \A k \in 1 .. m : Becomes(made[k], lp, sends[k], log[lp][n].event.ts)
          BY <1>11, <1>21, <2>1, <2>3
        <4> QED
          BY <1>21, <1>27, <4>1, <4>2
      <3>4. state_queue'[lp] # <<>>
        BY <1>4, <1>12
      <3> QED
        BY <1>21, <1>28, <2>3, <3>1, <3>2, <3>3, <3>4
    <2> QED
      BY <2>2, <2>3
  <1>30. ASSUME NEW u \in Thread PROVE RestIsModelled(u)'
    <2>1. CASE u # t
      <3>1. \A l \in LP : SendsFor(u, l) => log'[l] = log[l]
        BY <1>8, <1>16, <2>1
      <3>2. RestIsModelled(u) /\ new_events'[u] = new_events[u]
            /\ \A l \in LP : state_queue'[l] = <<>> => state_queue[l] = <<>>
        BY <1>4, <1>14, <2>1 DEF LogInv
      <3> QED
        BY <3>1, <3>2, RestStands
    <2>2. CASE u = t
      <3> SUFFICES ASSUME NEW l \in LP, NEW last \in DOMAIN log'[l], SendsFor(t, l)',
                          last = Len(log'[l])
                   PROVE  LET done == log'[l][last].sent
                              all  == LoggedSends(l, last)'
                          IN  /\ state_queue'[l] # <<>>
                              /\ Len(all) = Len(done) + Len(new_events'[t])
                              /\ \A k \in DOMAIN new_events'[t] :
                                     new_events'[t][k] =
                                         [source |-> log'[l][last].event, sender |-> l,
                                          recv |-> all[Len(done) + k].recv,
                                          ts |-> all[Len(done) + k].ts]
        BY <2>2 DEF RestIsModelled
      <3>1. l = lp
        <4>1. Tail(s) # <<>> /\ Head(Tail(s)).sender = l
          BY <1>14 DEF SendsFor
        <4>2. Len(s) > 1 /\ 2 \in DOMAIN s /\ Head(Tail(s)) = s[2]
          <5>1. Len(Tail(s)) >= 1 /\ 1 \in 1 .. Len(s) - 1 /\ Head(Tail(s)) = Tail(s)[1] /\ 1 + 1 = 2
            BY <1>13, <4>1
          <5> QED
            BY <1>13, <5>1
        <4> QED
          BY <1>12, <4>1, <4>2
      <3>2. last = n /\ LoggedSends(lp, n)' = sends /\ log'[lp][n].event = log[lp][n].event
        BY <1>11, <1>20, <1>21, <3>1
      <3>3. Len(sends) = (m + 1) + Len(Tail(s))
        BY <1>12, <1>13, <1>21
      <3>4. \A k \in 1 .. Len(s) - 1 : Tail(s)[k] = [source |-> log[lp][n].event, sender |-> lp,
                                                     recv |-> sends[(m + 1) + k].recv,
                                                     ts |-> sends[(m + 1) + k].ts]
        <4> SUFFICES ASSUME NEW k \in 1 .. Len(s) - 1
                     PROVE  Tail(s)[k] = [source |-> log[lp][n].event, sender |-> lp,
                                          recv |-> sends[(m + 1) + k].recv,
                                          ts |-> sends[(m + 1) + k].ts]
          OBVIOUS
        <4>1. k + 1 \in DOMAIN s /\ m + (k + 1) = (m + 1) + k
          BY <1>13, <1>21
        <4> QED
          BY <1>12, <1>13, <4>1
      <3>5. state_queue'[lp] # <<>>
        BY <1>4, <1>12
      <3>6. new_events'[t] = Tail(s) /\ DOMAIN Tail(s) = 1 .. Len(s) - 1
            /\ Len(log'[lp][n].sent) = m + 1
        BY <1>13, <1>14, <1>21
      <3>7. Len(log'[l][last].sent) = m + 1 /\ LoggedSends(l, last)' = sends
            /\ log'[l][last].event = log[lp][n].event /\ state_queue'[l] # <<>>
        BY <3>1, <3>2, <3>5, <3>6
      <3>8. DOMAIN new_events'[t] = 1 .. Len(s) - 1 /\ Len(new_events'[t]) = Len(Tail(s))
        BY <3>6
      <3>9. \A k \in DOMAIN new_events'[t] :
               new_events'[t][k] = [source |-> log'[l][last].event, sender |-> l,
                                    recv |-> sends[(m + 1) + k].recv,
                                    ts |-> sends[(m + 1) + k].ts]
        BY <3>1, <3>4, <3>6, <3>7
      <3> QED
        BY <3>3, <3>7, <3>8, <3>9
    <2> QED
      BY <2>1, <2>2
  <1>31. \A l \in LP : /\ Logged(l)' = Logged(l) /\ SentBy(l) \subseteq SentBy(l)'
                       /\ l # lp => SentBy(l)' = SentBy(l)
    BY <1>19, <1>21
  <1>32. \A l \in LP : SentStands(l)'
    <2> SUFFICES ASSUME NEW l \in LP, NEW e \in SentBy(l)'
                 PROVE  /\ e \in Known' /\ NegativeEvent(e) \notin Known'
                        /\ e \notin BeingCancelled' /\ (e.ts < horizon' => e \in Logged(e.recv)')
      BY DEF SentStands
    <2>1. CASE e \in SentBy(l)
      <3>1. /\ e \in Known /\ NegativeEvent(e) \notin Known /\ e \notin BeingCancelled
            /\ (e.ts < horizon => e \in Logged(e.recv)) /\ e.recv \in LP
        BY <2>1, SentByFacts
      <3> QED
        BY <1>25, <1>31, <3>1
    <2>2. CASE e \notin SentBy(l)
      <3>1. l = lp /\ e = x /\ x # NoEvent
        BY <1>21, <1>31, <2>2
      <3>2. e \notin BeingCancelled
        <4> SUFFICES ASSUME e \in BeingCancelled PROVE FALSE
          OBVIOUS
        <4>1. e \in Known
          BY BeingCancelledIs DEF EngineInv, ToCancelIsSent
        <4> QED
          BY <1>25, <3>1, <4>1
      <3>3. ~ (e.ts < horizon)
        <4>1. horizon = gvt /\ x.ts \in Nat
          BY <1>5, <1>7, <3>1 DEF EngineInv, MasterControl, Event
        <4> QED
          BY <1>5, <1>25, <3>1, <4>1
      <3> QED
        BY <1>25, <3>1, <3>2, <3>3
    <2> QED
      BY <2>1, <2>2
  <1>33. \A l \in LP : LoggedStands(l)'
    <2> SUFFICES ASSUME NEW l \in LP, NEW e \in Logged(l)
                 PROVE  e \in sent' /\ (NegativeEvent(e) \in Known' =>
                                           NegativeEvent(e) \in Pending' \cup InNetwork')
      BY <1>31 DEF LoggedStands
    <2>1. /\ e \in sent
          /\ NegativeEvent(e) \in Known => NegativeEvent(e) \in Pending \cup InNetwork
      BY LoggedFacts
    <2>2. e \in Known
      BY <2>1 DEF Known
    <2> QED
      BY <1>25, <2>1, <2>2
  <1>34. KnownIsSent'
    <2> SUFFICES ASSUME NEW f \in Known', f.type = POSITIVE
                 PROVE  \/ f \in SentBy(f.sender)'
                        \/ f \in BeingCancelled'
                        \/ NegativeEvent(f) \in Known'
      BY DEF KnownIsSent
    <2>1. CASE f \in Known
      <3>1. f.sender \in LP
        BY <2>1 DEF EngineInv, KnownIsIdentified
      <3> QED
        BY <1>25, <1>31, <2>1, <3>1 DEF LogInv, KnownIsSent
    <2>2. CASE f \notin Known
      BY <1>21, <1>25, <2>2
    <2> QED
      BY <2>1, <2>2
  <1>35. log' \in [LP -> Seq(Entry)]
    BY <1>8, <1>19, <1>21
  <1> QED
    BY <1>19, <1>22, <1>23, <1>24, <1>26, <1>29, <1>30, <1>32, <1>33, <1>34, <1>35 DEF LogInv

(* An event is sent once.                                                  *)
LEMMA SentOnce ==
  ASSUME LogInv, EngineInv, NEW lp \in LP, NEW i \in DOMAIN log[lp], NEW k \in DOMAIN log[lp],
         NEW e, e \in SentAt(lp, i), e \in SentAt(lp, k)
  PROVE  i = k
  <1>1. e \in Event /\ e # NoEvent
    BY SentFacts, SentByIs
  <1>2. e.gen \in Nat
    BY <1>1 DEF Event
  <1>3. PICK j \in DOMAIN log[lp][i].sent : e = log[lp][i].sent[j]
    BY DEF SentAt
  <1>4. PICK l \in DOMAIN log[lp][k].sent : e = log[lp][k].sent[l]
    BY DEF SentAt
  <1>5. i \in Nat /\ k \in Nat
    BY LogFacts
  <1>6. SentInOrder(lp) /\ ~ (e.gen < e.gen)
    BY <1>2 DEF LogInv
  <1>7. ~ (i < k)
    BY <1>1, <1>3, <1>4, <1>6 DEF SentInOrder
  <1>8. ~ (k < i)
    BY <1>1, <1>3, <1>4, <1>6 DEF SentInOrder
  <1> QED
    BY <1>5, <1>7, <1>8

(* The log of an LP of which the first k entries are left.                 *)
ShorterBy(lp, k, n) ==
    /\ n \in Nat /\ k \in 1 .. n /\ DOMAIN log[lp] = 1 .. n
    /\ Len(log'[lp]) = k /\ DOMAIN log'[lp] = 1 .. k
    /\ log'[lp] \in Seq(Entry)
    /\ \A i \in 1 .. k : i \in 1 .. n /\ log'[lp][i] = log[lp][i]
    /\ \A i \in 1 .. k : /\ StateAfter(lp, i)' = StateAfter(lp, i)
                         /\ LoggedSends(lp, i)' = LoggedSends(lp, i)
                         /\ SentAt(lp, i)' = SentAt(lp, i)
    /\ SentBy(lp)' \subseteq SentBy(lp) /\ Logged(lp)' \subseteq Logged(lp)
    /\ \A e \in SentBy(lp) : e \in SentBy(lp)' \/ \E i \in k + 1 .. n : e \in SentAt(lp, i)
    /\ \A e \in Logged(lp) : e \in Logged(lp)' \/ \E i \in k + 1 .. n : e = log[lp][i].event

LEMMA ShorterLog ==
  ASSUME LogInv, NEW lp \in LP, NEW n, n = Len(log[lp]), NEW k \in 1 .. n,
         log'[lp] = SubSeq(log[lp], 1, k)
  PROVE  ShorterBy(lp, k, n)
  <1>1. PICK q : q = log[lp]
    OBVIOUS
  <1>2. /\ q \in Seq(Entry) /\ n \in Nat /\ n >= 1 /\ DOMAIN q = 1 .. n /\ n = Len(q)
        /\ k \in Nat /\ 1 <= k /\ k <= n /\ k \in 1 .. n
    BY <1>1, LogFacts
  <1>3. PICK c : c = SubSeq(q, 1, k)
    OBVIOUS
  <1>4. /\ c \in Seq(Entry) /\ Len(c) = k
        /\ \A i \in 1 .. k : c[i] = q[i]
    <2>1. 1 \in 1 .. Len(q) + 1 /\ k \in 1 - 1 .. Len(q)
      BY <1>2
    <2>2. /\ SubSeq(q, 1, k) \in Seq(Entry)
          /\ \A j \in 1 .. k : SubSeq(q, 1, k)[j - (1 - 1)] = q[j]
          /\ Len(SubSeq(q, 1, k)) = k - (1 - 1)
      BY <1>2, <2>1, SubSeqFacts
    <2>3. \A j \in 1 .. k : j - (1 - 1) = j
      BY <1>2
    <2>4. k - (1 - 1) = k
      BY <1>2
    <2> QED
      BY <1>3, <2>2, <2>3, <2>4
  <1>5. /\ Len(log'[lp]) = k /\ DOMAIN log'[lp] = 1 .. k
        /\ log'[lp] \in Seq(Entry)
        /\ \A i \in 1 .. k : i \in 1 .. n /\ log'[lp][i] = log[lp][i]
    <2>1. DOMAIN c = 1 .. k
      BY <1>4
    <2>2. \A i \in 1 .. k : i \in 1 .. n
      BY <1>2
    <2> QED
      BY <1>1, <1>3, <1>4, <2>1, <2>2
  <1>6. \A i \in 1 .. k : /\ StateAfter(lp, i)' = StateAfter(lp, i)
                          /\ LoggedSends(lp, i)' = LoggedSends(lp, i)
    <2>1. \A i \in 1 .. k : log'[lp][i].event = log[lp][i].event
      BY <1>5
    <2> QED
      BY <1>2, <2>1, PrefixLog
  <1>7. \A i \in 1 .. k : SentAt(lp, i)' = SentAt(lp, i)
    BY <1>5 DEF SentAt
  <1>8. \A i \in 1 .. n : i \in 1 .. k \/ i \in k + 1 .. n
    BY <1>2
  <1>9. /\ SentBy(lp)' \subseteq SentBy(lp)
        /\ \A e \in SentBy(lp) : e \in SentBy(lp)' \/ \E i \in k + 1 .. n : e \in SentAt(lp, i)
    <2>1. \A e : e \in SentBy(lp)' <=> \E i \in 1 .. k : e \in SentAt(lp, i)'
      BY <1>5 DEF SentBy
    <2>2. \A e : e \in SentBy(lp) <=> \E i \in 1 .. n : e \in SentAt(lp, i)
      BY <1>1, <1>2 DEF SentBy
    <2>3. \A e : e \in SentBy(lp)' <=> \E i \in 1 .. k : e \in SentAt(lp, i)
      BY <1>7, <2>1
    <2>4. \A i \in 1 .. k : i \in 1 .. n
      BY <1>5
    <2>5. SentBy(lp)' \subseteq SentBy(lp)
      BY <2>2, <2>3, <2>4
    <2>6. \A e \in SentBy(lp) : e \in SentBy(lp)' \/ \E i \in k + 1 .. n : e \in SentAt(lp, i)
      BY <1>8, <2>2, <2>3
    <2> QED
      BY <2>5, <2>6
  <1>10. /\ Logged(lp)' \subseteq Logged(lp)
         /\ \A e \in Logged(lp) : e \in Logged(lp)' \/ \E i \in k + 1 .. n : e = log[lp][i].event
    <2>1. \A e : e \in Logged(lp)' <=> \E i \in 2 .. k : e = log'[lp][i].event
      BY <1>5 DEF Logged
    <2>2. \A e : e \in Logged(lp) <=> \E i \in 2 .. n : e = log[lp][i].event
      BY <1>1, <1>2 DEF Logged
    <2>3. \A i : (i \in 2 .. k => i \in 1 .. k /\ i \in 2 .. n)
                 /\ (i \in 2 .. n => i \in 2 .. k \/ i \in k + 1 .. n)
      BY <1>2
    <2>4. \A e : e \in Logged(lp)' <=> \E i \in 2 .. k : e = log[lp][i].event
      BY <1>5, <2>1, <2>3
    <2>5. Logged(lp)' \subseteq Logged(lp)
      BY <2>2, <2>3, <2>4
    <2>6. \A e \in Logged(lp) : e \in Logged(lp)' \/ \E i \in k + 1 .. n : e = log[lp][i].event
      BY <2>2, <2>3, <2>4
    <2> QED
      BY <2>5, <2>6
  <1> QED
    BY <1>1, <1>2, <1>5, <1>6, <1>7, <1>9, <1>10 DEF ShorterBy

(* A rollback keeps of the log what it keeps of the processed queue, and   *)
(* what has been collected before.                                         *)
RolledBackTo(lp, e, k, n) ==
    /\ n \in Nat /\ n = Len(log[lp]) /\ DOMAIN log[lp] = 1 .. n
    /\ k = KeptBy(EventsOf(log[lp]), e)
    /\ k = Collected(lp) + KeptBy(processed_queue[lp], e)
    /\ KeptBy(processed_queue[lp], e) \in 0 .. Len(processed_queue[lp])
    /\ Collected(lp) \in 1 .. n /\ k \in 1 .. n
    /\ \A i \in 1 .. k : Before(log[lp][i].event, e)
    /\ \A i \in k + 1 .. n : ~ Before(log[lp][i].event, e) /\ gvt <= log[lp][i].event.ts

LEMMA RolledBackLog ==
  ASSUME EngineInv, LogInv, NEW t \in Worker, pc[t] = "rollback",
         NEW lp, lp = held[t].recv, NEW e, e = held[t], NEW n, n = Len(log[lp]),
         NEW k, k = KeptBy(EventsOf(log[lp]), e)
  PROVE  RolledBackTo(lp, e, k, n)
  <1>1. /\ lp \in LP /\ e \in Event /\ e.ts >= gvt /\ e.ts \in Nat /\ gvt \in Nat
        /\ pc[Master] = "running" /\ e.sender \in LP
    BY Engaged DEF Handling
  <1>2. PICK q, p, c, j : /\ q = EventsOf(log[lp]) /\ p = processed_queue[lp]
                          /\ c = Collected(lp) /\ j = KeptBy(p, e)
    OBVIOUS
  <1>3. /\ n \in Nat /\ n >= 1 /\ DOMAIN log[lp] = 1 .. n
        /\ \A i \in 1 .. n : log[lp][i].event \in Event /\ log[lp][i].event.ts \in Nat
        /\ log[lp][1].event = InitialEvent
    BY <1>1, LogFacts
  <1>4. q \in Seq(Event) /\ Len(q) = n /\ \A i \in 1 .. n : q[i] = log[lp][i].event
    <2>1. q = [i \in 1 .. n |-> log[lp][i].event]
      BY <1>2, <1>3 DEF EventsOf
    <2>2. \A i \in 1 .. n : log[lp][i].event \in Event
      BY <1>3
    <2>3. q \in [1 .. n -> Event]
      BY <2>1, <2>2
    <2>4. q \in Seq(Event) /\ Len(q) = n
      BY <1>3, <2>3
    <2> QED
      BY <2>1, <2>4
  <1>5. /\ k \in 0 .. n /\ (k > 0 => Before(q[k], e))
        /\ \A i \in k + 1 .. n : ~ Before(q[i], e)
    <2>1. k = KeptBy(q, e)
      BY <1>2
    <2> QED
      BY <1>1, <1>4, <2>1, KeptByIsDefined DEF SameOrAfter
  <1>6. JustReceived(lp) = {}
    BY <1>1, JustReceivedIs, Engaged DEF Handling
  <1>7. /\ c \in 1 .. n /\ p \in Seq(Event) /\ Len(p) \in Nat /\ n = c + Len(p)
        /\ \A i \in 1 .. Len(p) : c + i \in 2 .. n /\ log[lp][c + i].event = p[i]
        /\ \A i \in 2 .. c : log[lp][i].event.ts < gvt
    <2>1. /\ c \in 1 .. n /\ p \in Seq(Event) /\ Len(p) \in Nat
          /\ n = c + Len(p) + (IF JustReceived(lp) = {} THEN 0 ELSE 1)
          /\ \A i \in 1 .. Len(p) : c + i \in 2 .. n /\ log[lp][c + i].event = p[i]
          /\ \A i \in 2 .. c : log[lp][i].event.ts < gvt
      BY <1>1, <1>2, QueueInLog
    <2> QED
      BY <1>3, <1>6, <2>1
  <1>8. /\ j \in 0 .. Len(p) /\ (j > 0 => Before(p[j], e))
        /\ \A i \in j + 1 .. Len(p) : ~ Before(p[i], e)
    BY <1>1, <1>2, <1>7, KeptByIsDefined DEF SameOrAfter
  <1>9. Before(q[c], e)
    <2>1. CASE c = 1
      <3>1. e.sender > 0
        BY <1>1 DEF LP
      <3>2. q[c] = InitialEvent
        BY <1>3, <1>4, <1>7, <2>1
      <3>3. Before(InitialEvent, e)
        BY <1>1, <3>1, InitialEventIsFirst
      <3> QED
        BY <3>2, <3>3
    <2>2. CASE c # 1
      <3>1. c \in 2 .. c /\ c \in 1 .. n
        BY <1>7, <2>2
      <3>2. q[c].ts \in Nat /\ q[c].ts < gvt
        BY <1>3, <1>4, <1>7, <3>1
      <3>3. q[c].ts < e.ts
        BY <1>1, <3>2
      <3> QED
        BY <3>3 DEF Before
    <2> QED
      BY <2>1, <2>2
  <1>10. k = c + j
    <2>1. ~ (k < c + j)
      <3> SUFFICES ASSUME k < c + j PROVE FALSE
        OBVIOUS
      <3>1. c + j \in k + 1 .. n /\ c + j \in 1 .. n
        BY <1>3, <1>5, <1>7, <1>8
      <3>2. ~ Before(q[c + j], e)
        BY <1>5, <3>1
      <3>3. CASE j = 0
        <4>1. c + j = c
          BY <1>3, <1>7, <3>3
        <4> QED
          BY <1>9, <3>2, <4>1
      <3>4. CASE j # 0
        <4>1. j \in 1 .. Len(p) /\ j > 0
          BY <1>7, <1>8, <3>4
        <4>2. q[c + j] = p[j]
          BY <1>4, <1>7, <3>1, <4>1
        <4> QED
          BY <1>8, <3>2, <4>1, <4>2
      <3> QED
        BY <3>3, <3>4
    <2>2. ~ (k > c + j)
      <3> SUFFICES ASSUME k > c + j PROVE FALSE
        OBVIOUS
      <3>1. k - c \in j + 1 .. Len(p) /\ k - c \in 1 .. Len(p) /\ c + (k - c) = k /\ k \in 1 .. n /\ k > 0
        BY <1>3, <1>5, <1>7, <1>8
      <3>2. q[k] = p[k - c]
        BY <1>4, <1>7, <3>1
      <3> QED
        BY <1>5, <1>8, <3>1, <3>2
    <2>3. k \in Nat /\ c + j \in Nat
      BY <1>3, <1>5, <1>7, <1>8
    <2> QED
      BY <2>1, <2>2, <2>3
  <1>11. k \in 1 .. n
    BY <1>3, <1>5, <1>7, <1>8, <1>10
  <1>12. \A i \in 1 .. k : Before(log[lp][i].event, e)
    <2> SUFFICES ASSUME NEW i \in 1 .. k PROVE Before(log[lp][i].event, e)
      OBVIOUS
    <2>1. i \in 1 .. n /\ (i = k \/ i < k) /\ k > 0
      BY <1>3, <1>11
    <2>2. i < k => Before(log[lp][i].event, log[lp][k].event)
      BY <1>1, <1>3, <1>11, <2>1 DEF LogInv, LogInOrder
    <2>3. Before(log[lp][k].event, e)
      BY <1>4, <1>5, <1>11, <2>1
    <2> QED
      BY <1>1, <1>3, <1>11, <2>1, <2>2, <2>3, BeforeIsStrictOrder
  <1>13. \A i \in k + 1 .. n : ~ Before(log[lp][i].event, e) /\ gvt <= log[lp][i].event.ts
    <2> SUFFICES ASSUME NEW i \in k + 1 .. n
                 PROVE  ~ Before(log[lp][i].event, e) /\ gvt <= log[lp][i].event.ts
      OBVIOUS
    <2>1. i \in 1 .. n
      BY <1>3, <1>11
    <2>2. ~ Before(log[lp][i].event, e)
      BY <1>4, <1>5, <2>1
    <2>3. log[lp][i].event.ts \in Nat
      BY <1>3, <2>1
    <2>4. PICK a \in Nat : a = log[lp][i].event.ts
      BY <2>3
    <2>5. ~ (a < e.ts)
      BY <2>2, <2>4 DEF Before
    <2>6. gvt <= a
      BY <1>1, <2>5
    <2> QED
      BY <2>2, <2>4, <2>6
  <1> QED
    BY <1>2, <1>3, <1>7, <1>8, <1>10, <1>11, <1>12, <1>13 DEF RolledBackTo

(* A rollback leaves the recorded sends on events before the straggler,    *)
(* and cancels the others.                                                 *)
CancelsFrom(lp, e) ==
    /\ \A m \in DOMAIN output_queue'[lp] : \E i \in DOMAIN output_queue[lp] :
           /\ output_queue'[lp][m] = output_queue[lp][i]
           /\ Before(output_queue[lp][i].input, e)
    /\ \A i \in DOMAIN output_queue[lp] :
           ~ Before(output_queue[lp][i].input, e) => output_queue[lp][i].output \in BeingCancelled'
    /\ BeingCancelled \subseteq BeingCancelled'
    /\ \A f \in BeingCancelled' : f \in BeingCancelled
                                  \/ \E i \in DOMAIN output_queue[lp] :
                                         /\ f = output_queue[lp][i].output
                                         /\ ~ Before(output_queue[lp][i].input, e)
    /\ \A l \in LP : l # lp => output_queue'[l] = output_queue[l]

LEMMA CancelledFrom ==
  ASSUME EngineInv, NEW t \in Worker, Rollback(t), NEW lp, lp = held[t].recv,
         NEW e, e = held[t]
  PROVE  CancelsFrom(lp, e)
  <1>1. PICK q, k : q = output_queue[lp] /\ k = SentBefore(lp, e)
    OBVIOUS
  <1>2. /\ lp \in LP /\ q \in Seq(Recorded) /\ Len(q) \in Nat /\ DOMAIN q = 1 .. Len(q)
        /\ k \in 0 .. Len(q)
        /\ \A i \in 1 .. k : Before(q[i].input, e)
        /\ \A i \in k + 1 .. Len(q) : ~ Before(q[i].input, e)
        /\ output_queue' = [output_queue EXCEPT ![lp] = SubSeq(q, 1, k)]
        /\ \A u \in Worker : u # t => events_to_cancel'[u] = events_to_cancel[u]
        /\ DOMAIN events_to_cancel'[t] = 1 .. Len(q) - k
        /\ \A i \in 1 .. Len(q) - k : events_to_cancel'[t][i] = q[i + k].output
    BY <1>1, WhatIsCancelled
  <1>3. /\ output_queue'[lp] = SubSeq(q, 1, k)
        /\ \A l \in LP : l # lp => output_queue'[l] = output_queue[l]
    BY <1>2 DEF EngineInv, EngineTypeOK
  <1>4. \A m \in DOMAIN output_queue'[lp] : m \in 1 .. k /\ output_queue'[lp][m] = q[m]
    <2>1. /\ DOMAIN SubSeq(q, 1, k) = 1 .. k
          /\ \A m \in 1 .. k : SubSeq(q, 1, k)[m] = q[m]
      BY <1>2
    <2> QED
      BY <1>3, <2>1
  <1>5. \A i \in 1 .. k : i \in 1 .. Len(q)
    BY <1>2
  <1>6. \A m \in DOMAIN output_queue'[lp] : \E i \in DOMAIN output_queue[lp] :
           /\ output_queue'[lp][m] = output_queue[lp][i]
           /\ Before(output_queue[lp][i].input, e)
    <2> SUFFICES ASSUME NEW m \in DOMAIN output_queue'[lp]
                 PROVE  \E i \in DOMAIN output_queue[lp] :
                           /\ output_queue'[lp][m] = output_queue[lp][i]
                           /\ Before(output_queue[lp][i].input, e)
      OBVIOUS
    <2>1. m \in 1 .. k /\ m \in DOMAIN q
      BY <1>2, <1>4, <1>5
    <2>2. output_queue'[lp][m] = q[m] /\ Before(q[m].input, e)
      BY <1>2, <1>4, <2>1
    <2> QED
      BY <1>1, <2>1, <2>2
  <1>7. events_to_cancel[t] = <<>>
    BY DEF EngineInv, WorkersInStep, InStep, Rollback
  <1>8. \A f : f \in BeingCancelled' <=>
            \E u \in Worker : \E i \in DOMAIN events_to_cancel'[u] : f = events_to_cancel'[u][i]
    BY DEF BeingCancelled, ToSet
  <1>9. BeingCancelled \subseteq BeingCancelled'
    <2> SUFFICES ASSUME NEW f \in BeingCancelled PROVE f \in BeingCancelled'
      OBVIOUS
    <2>1. PICK u \in Worker : \E i \in DOMAIN events_to_cancel[u] : f = events_to_cancel[u][i]
      BY BeingCancelledIs
    <2>2. u # t
      BY <1>7, <2>1
    <2> QED
      BY <1>2, <1>8, <2>1, <2>2
  <1>10. ASSUME NEW i \in DOMAIN output_queue[lp], ~ Before(output_queue[lp][i].input, e)
         PROVE  output_queue[lp][i].output \in BeingCancelled'
    <2>1. i \in 1 .. Len(q) /\ ~ (i \in 1 .. k)
      BY <1>1, <1>2, <1>10
    <2>2. i - k \in 1 .. Len(q) - k /\ (i - k) + k = i
      BY <1>2, <2>1
    <2>3. i - k \in DOMAIN events_to_cancel'[t] /\ events_to_cancel'[t][i - k] = q[i].output
      BY <1>2, <2>2
    <2> QED
      BY <1>1, <1>8, <2>3
  <1>11. ASSUME NEW f \in BeingCancelled'
         PROVE  f \in BeingCancelled
                \/ \E i \in DOMAIN output_queue[lp] :
                       /\ f = output_queue[lp][i].output
                       /\ ~ Before(output_queue[lp][i].input, e)
    <2>1. PICK u \in Worker : \E i \in DOMAIN events_to_cancel'[u] : f = events_to_cancel'[u][i]
      BY <1>8
    <2>2. CASE u # t
      BY <1>2, <2>1, <2>2, BeingCancelledIs
    <2>3. CASE u = t
      <3>1. PICK i \in 1 .. Len(q) - k : f = q[i + k].output
        BY <1>2, <2>1, <2>3
      <3>2. i + k \in k + 1 .. Len(q) /\ i + k \in DOMAIN q
        BY <1>2
      <3> QED
        BY <1>1, <1>2, <3>1, <3>2
    <2> QED
      BY <2>2, <2>3
  <1> QED
    BY <1>3, <1>6, <1>9, <1>10, <1>11 DEF CancelsFrom

LEMMA RollbackLog ==
  ASSUME EngineInv, StateInv, LogInv, Remember, NEW t \in Worker, Rollback(t), UndoLog(t)
  PROVE  LogInv'
  <1>1. PICK lp, e, n, K : /\ lp = held[t].recv /\ e = held[t] /\ n = Len(log[lp])
                           /\ K = KeptBy(EventsOf(log[lp]), e)
    OBVIOUS
  <1> DEFINE q == state_queue[lp]
             p == processed_queue[lp]
             events == [i \in DOMAIN q |-> q[i].event]
             s == KeptBy(events, e)
  <1>2. /\ pc[t] = "rollback"
        /\ rollback(lp, e)
        /\ s > 0
        /\ state_queue' = [state_queue EXCEPT ![lp] = SubSeq(q, 1, s)]
        /\ state' = [state EXCEPT ![lp] = q[s].state]
        /\ pc' = [pc EXCEPT ![t] = "cancelEvents"]
        /\ log' = [log EXCEPT ![lp] = SubSeq(log[lp], 1, K)]
        /\ UNCHANGED <<held, new_events, gvt, network>>
    BY <1>1 DEF Rollback, restoreState, Goto, UndoLog
  <1>3. /\ lp \in LP /\ pc[t] \in Handling /\ pc[Master] = "running" /\ t # Master
        /\ e # NoEvent /\ gvt \in Nat /\ e \in Event /\ e.ts \in Nat /\ e.ts >= gvt /\ horizon = gvt
    BY <1>1, <1>2, Engaged DEF Handling
  <1>4. /\ pc'[t] = "cancelEvents" /\ pc'[Master] = "running"
        /\ \A u \in Worker : u # t => pc'[u] = pc[u] /\ held'[u] = held[u]
        /\ held'[t] = held[t]
    BY <1>2, <1>3, MasterIsNoWorker DEF EngineInv, EngineTypeOK
  <1>5. /\ JustReceived(lp) = {} /\ JustReceived(lp)' = {} /\ InPast(lp)'
        /\ \A l : l # lp => JustReceived(l)' = JustReceived(l) /\ InPast(l)' = InPast(l)
    <2>1. /\ JustReceived(lp) = IF pc[t] \in {"sendEvents", "replenish"} THEN {held[t]} ELSE {}
          /\ JustReceived(lp)' = IF held'[t] # NoEvent /\ pc'[t] \in {"sendEvents", "replenish"}
                                 THEN {held[t]} ELSE {}
          /\ InPast(lp)' <=> held'[t] # NoEvent /\ pc'[t] = "cancelEvents"
          /\ \A l : l # lp => JustReceived(l)' = JustReceived(l) /\ InPast(l)' = InPast(l)
      BY <1>1, <1>3, <1>4, WorkerReceived
    <2> QED
      BY <1>1, <1>2, <1>3, <1>4, <2>1
  <1>6. /\ n \in Nat /\ DOMAIN log[lp] = 1 .. n
        /\ KeptBy(p, e) \in 0 .. Len(p)
        /\ K = Collected(lp) + KeptBy(p, e)
        /\ Collected(lp) \in 1 .. n /\ K \in 1 .. n
        /\ \A i \in 1 .. K : Before(log[lp][i].event, e)
        /\ \A i \in K + 1 .. n : ~ Before(log[lp][i].event, e) /\ gvt <= log[lp][i].event.ts
    <2>1. RolledBackTo(lp, e, K, n)
      BY <1>1, <1>2, RolledBackLog
    <2> QED
      BY <2>1 DEF RolledBackTo
  <1>7. /\ log'[lp] = SubSeq(log[lp], 1, K)
        /\ \A l \in LP : l # lp => log'[l] = log[l]
        /\ log' = [l \in LP |-> log'[l]]
    BY <1>2, <1>3 DEF LogInv
  <1>8. /\ Len(log'[lp]) = K /\ DOMAIN log'[lp] = 1 .. K
        /\ log'[lp] \in Seq(Entry)
        /\ \A i \in 1 .. K : i \in 1 .. n /\ log'[lp][i] = log[lp][i]
        /\ \A i \in 1 .. K : /\ StateAfter(lp, i)' = StateAfter(lp, i)
                             /\ LoggedSends(lp, i)' = LoggedSends(lp, i)
                             /\ SentAt(lp, i)' = SentAt(lp, i)
        /\ SentBy(lp)' \subseteq SentBy(lp) /\ Logged(lp)' \subseteq Logged(lp)
        /\ \A f \in SentBy(lp) : f \in SentBy(lp)' \/ \E i \in K + 1 .. n : f \in SentAt(lp, i)
        /\ \A f \in Logged(lp) : f \in Logged(lp)' \/ \E i \in K + 1 .. n : f = log[lp][i].event
    <2>1. ShorterBy(lp, K, n)
      BY <1>1, <1>3, <1>6, <1>7, ShorterLog
    <2> QED
      BY <2>1 DEF ShorterBy
  <1>9. /\ \A m \in DOMAIN output_queue'[lp] : \E i \in DOMAIN output_queue[lp] :
               /\ output_queue'[lp][m] = output_queue[lp][i]
               /\ Before(output_queue[lp][i].input, e)
        /\ \A i \in DOMAIN output_queue[lp] :
               ~ Before(output_queue[lp][i].input, e) => output_queue[lp][i].output \in BeingCancelled'
        /\ BeingCancelled \subseteq BeingCancelled'
        /\ \A f \in BeingCancelled' : f \in BeingCancelled
                                      \/ \E i \in DOMAIN output_queue[lp] :
                                             /\ f = output_queue[lp][i].output
                                             /\ ~ Before(output_queue[lp][i].input, e)
        /\ \A l \in LP : l # lp => output_queue'[l] = output_queue[l]
    <2>1. CancelsFrom(lp, e)
      BY <1>1, CancelledFrom
    <2> QED
      BY <2>1 DEF CancelsFrom
  <1>10. /\ Len(q) \in Nat /\ DOMAIN q = 1 .. Len(q)
         /\ \A i \in DOMAIN q : q[i].event \in Event
         /\ q # <<>> /\ Len(q) >= 1 /\ q \in Seq({q[i] : i \in DOMAIN q})
    <2>1. /\ q \in Seq({q[i] : i \in DOMAIN q}) /\ Len(q) \in Nat /\ DOMAIN q = 1 .. Len(q)
          /\ q # <<>> /\ Len(q) \in 1 .. Len(q)
          /\ \A i \in DOMAIN q : q[i].event \in Event
      BY <1>3, SavedFacts
    <2> HIDE DEF q
    <2> QED
      BY <2>1
  <1>11. s \in 1 .. Len(q) /\ \A i \in 1 .. s : Before(q[i].event, e)
    <2>1. events \in Seq(Event) /\ Len(events) = Len(q) /\ \A i \in 1 .. Len(q) : events[i] = q[i].event
      <3> HIDE DEF q
      <3> QED
        BY <1>10
    <2> HIDE DEF events
    <2>2. s \in 0 .. Len(q) /\ (s > 0 => Before(events[s], e))
      BY <1>3, <2>1, KeptByIsDefined
    <2> HIDE DEF s
    <2>3. s \in 1 .. Len(q) /\ Before(q[s].event, e)
      BY <1>2, <1>10, <2>1, <2>2
    <2> SUFFICES ASSUME NEW i \in 1 .. s PROVE Before(q[i].event, e)
      BY <2>3
    <2>4. i \in DOMAIN q /\ s \in DOMAIN q /\ (i = s \/ i < s)
      BY <1>10, <2>3
    <2>5. i < s => Before(q[i].event, q[s].event)
      BY <1>3, <2>4 DEF StateInv, StateOK
    <2> QED
      BY <1>3, <1>10, <2>3, <2>4, <2>5, BeforeIsStrictOrder
  <1> HIDE DEF s
  <1>12. /\ DOMAIN state_queue'[lp] = 1 .. s /\ state_queue'[lp] # <<>>
         /\ \A i \in 1 .. s : i \in DOMAIN q /\ state_queue'[lp][i] = q[i]
         /\ state_queue'[lp][1] = q[1]
         /\ \A l \in LP : l # lp => state_queue'[l] = state_queue[l] /\ state'[l] = state[l]
    <2>1. state_queue'[lp] = SubSeq(q, 1, s)
          /\ \A l \in LP : l # lp => state_queue'[l] = state_queue[l] /\ state'[l] = state[l]
      BY <1>2, <1>3 DEF EngineInv, EngineTypeOK, StateInv
    <2> HIDE DEF q
    <2>2. /\ DOMAIN SubSeq(q, 1, s) = 1 .. s
          /\ \A i \in 1 .. s : SubSeq(q, 1, s)[i] = q[i]
      BY <1>10, <1>11
    <2>3. 1 \in 1 .. s /\ \A i \in 1 .. s : i \in 1 .. Len(q)
      BY <1>10, <1>11
    <2>4. SubSeq(q, 1, s) # <<>>
      <3>1. 1 \in DOMAIN SubSeq(q, 1, s)
        BY <2>2, <2>3
      <3>2. DOMAIN <<>> = {}
        OBVIOUS
      <3> QED
        BY <3>1, <3>2
    <2>5. \A i \in 1 .. s : i \in DOMAIN q /\ state_queue'[lp][i] = q[i]
      BY <1>10, <2>1, <2>2, <2>3
    <2>6. DOMAIN state_queue'[lp] = 1 .. s /\ state_queue'[lp] # <<>> /\ state_queue'[lp][1] = q[1]
      BY <2>1, <2>2, <2>3, <2>4, <2>5
    <2> QED
      BY <2>1, <2>5, <2>6
  <1>13. /\ processed_queue'[lp] = SubSeq(p, 1, KeptBy(p, e))
         /\ \A l \in LP : l # lp => processed_queue'[l] = processed_queue[l]
         /\ Pending \subseteq Pending' /\ Pending' \subseteq sent
    <2>1. /\ processed_queue' = [processed_queue EXCEPT ![lp] = SubSeq(p, 1, KeptBy(p, e))]
          /\ input_queue' = [input_queue EXCEPT ![lp] = @ \cup {p[i] : i \in KeptBy(p, e) + 1 .. Len(p)}]
      BY <1>2 DEF rollback
    <2>2. /\ processed_queue'[lp] = SubSeq(p, 1, KeptBy(p, e))
          /\ \A l \in LP : l # lp => processed_queue'[l] = processed_queue[l]
          /\ \A l \in LP : input_queue[l] \subseteq input_queue'[l]
      BY <1>3, <2>1 DEF EngineInv, IInv, TypeOK
    <2>3. Pending \subseteq Pending'
      BY <2>2 DEF Pending
    <2>4. Pending' \subseteq sent
      <3>1. IInv
        BY DEF EngineInv
      <3>2. PICK f \in Event : f = e
        BY <1>3
      <3> QED
        BY <1>2, <1>3, <3>1, <3>2, WhatIsUndone
    <2> QED
      BY <2>2, <2>3, <2>4
  <1>14. \A u \in Thread : ~ SendsFor(u, lp)
    BY <1>1, <1>2, NobodySends DEF Handling
  <1>15. \A u \in Thread : \A l \in LP : SendsFor(u, l)' <=> SendsFor(u, l)
    BY <1>2 DEF SendsFor
  <1>16. \A l \in LP : l # lp =>
           /\ LogInOrder(l)' /\ LogEndsInQueue(l)' /\ StateIsLogged(l)' /\ SavedIsLogged(l)'
           /\ OutputIsLogged(l)' /\ SentIsModelled(l)' /\ SentInOrder(l)'
           /\ Logged(l)' = Logged(l) /\ SentBy(l)' = SentBy(l) /\ log'[l] \in Seq(Entry)
    <2> SUFFICES ASSUME NEW l \in LP, l # lp
                 PROVE  /\ LogInOrder(l)' /\ LogEndsInQueue(l)' /\ StateIsLogged(l)' /\ SavedIsLogged(l)'
                        /\ OutputIsLogged(l)' /\ SentIsModelled(l)' /\ SentInOrder(l)'
                        /\ Logged(l)' = Logged(l) /\ SentBy(l)' = SentBy(l) /\ log'[l] \in Seq(Entry)
      OBVIOUS
    <2>1. \A u \in Thread : SendsFor(u, l) => SendsFor(u, l)'
      BY <1>15
    <2> HIDE DEF LogInv
    <2> QED
      BY <1>3, <1>5, <1>7, <1>9, <1>12, <1>13, <2>1, OtherLogs
  <1>17. LogInOrder(lp)'
    <2>1. LogInOrder(lp)
      BY <1>3 DEF LogInv
    <2>2. \A i \in 2 .. K : i \in 2 .. n /\ i \in 1 .. K
      BY <1>6
    <2>3. 1 \in 1 .. K /\ log'[lp] # <<>>
      BY <1>6, <1>8
    <2>4. \A i \in 2 .. K : log'[lp][i].event \in Message /\ log'[lp][i].event.recv = lp
      <3> SUFFICES ASSUME NEW i \in 2 .. K
                   PROVE  log'[lp][i].event \in Message /\ log'[lp][i].event.recv = lp
        OBVIOUS
      <3>1. i \in 2 .. Len(log[lp]) /\ log'[lp][i] = log[lp][i]
        BY <1>1, <1>8, <2>2
      <3> QED
        BY <2>1, <3>1 DEF LogInOrder
    <2>5. \A i, j \in 1 .. K : i < j => Before(log'[lp][i].event, log'[lp][j].event)
      BY <1>6, <1>8, <2>1 DEF LogInOrder
    <2>6. log'[lp][1].event = InitialEvent
      BY <1>8, <2>1, <2>3 DEF LogInOrder
    <2> QED
      BY <1>8, <2>3, <2>4, <2>5, <2>6 DEF LogInOrder
  <1>18. LogEndsInQueue(lp)'
    <2>1. PICK c, j : c = Collected(lp) /\ j = KeptBy(p, e)
      OBVIOUS
    <2>2. /\ c \in 1 .. n /\ p \in Seq(Event) /\ Len(p) \in Nat
          /\ \A i \in 1 .. Len(p) : c + i \in 2 .. n /\ log[lp][c + i].event = p[i]
          /\ \A i \in 2 .. c : log[lp][i].event.ts < q[1].event.ts
      BY <1>1, <1>3, <2>1, QueueInLog
    <2>3. j \in 0 .. Len(p) /\ K = c + j /\ K \in 1 .. n
      BY <1>6, <2>1
    <2> HIDE DEF p, q
    <2>4. /\ Len(processed_queue'[lp]) = j /\ DOMAIN processed_queue'[lp] = 1 .. j
          /\ \A i \in 1 .. j : processed_queue'[lp][i] = p[i]
      <3>1. /\ Len(SubSeq(p, 1, j)) = j /\ DOMAIN SubSeq(p, 1, j) = 1 .. j
            /\ \A i \in 1 .. j : SubSeq(p, 1, j)[i] = p[i]
        BY <2>2, <2>3
      <3> QED
        BY <1>13, <2>1, <3>1
    <2>5. Collected(lp)' = K - j - 0
      BY <1>5, <1>8, <2>4 DEF Collected
    <2>6. Collected(lp)' = c /\ c > 0
      BY <1>6, <2>2, <2>3, <2>5
    <2>7. ASSUME NEW i \in 1 .. j
          PROVE  log'[lp][c + i].event = processed_queue'[lp][i]
      <3>1. c + i \in 1 .. K /\ i \in 1 .. Len(p)
        BY <1>6, <2>2, <2>3
      <3> QED
        BY <1>8, <2>2, <2>4, <3>1
    <2>8. ASSUME NEW i \in 2 .. c
          PROVE  log'[lp][i].event.ts < state_queue'[lp][1].event.ts
      <3>1. i \in 1 .. K
        BY <1>6, <2>2, <2>3
      <3> QED
        BY <1>8, <1>12, <2>2, <3>1
    <2> QED
      BY <1>5, <1>12, <2>4, <2>6, <2>7, <2>8 DEF LogEndsInQueue
  <1>19. StateIsLogged(lp)' /\ SavedIsLogged(lp)'
    <2>1. StateIsLogged(lp)'
      BY <1>5 DEF StateIsLogged
    <2>2. ASSUME NEW i \in 1 .. s
          PROVE  \E k \in 1 .. K : /\ log'[lp][k].event = state_queue'[lp][i].event
                                   /\ state_queue'[lp][i].state = StateAfter(lp, k)'
      <3>1. PICK k \in 1 .. n : log[lp][k].event = q[i].event /\ q[i].state = StateAfter(lp, k)
        <4>1. SavedIsLogged(lp) /\ pc[Master] # "terminated"
          BY <1>3 DEF LogInv
        <4>2. i \in DOMAIN q
          BY <1>12
        <4> QED
          BY <1>6, <4>1, <4>2 DEF SavedIsLogged
      <3>2. Before(log[lp][k].event, e)
        BY <1>11, <3>1
      <3>3. k \in 1 .. K \/ k \in K + 1 .. n
        BY <1>6
      <3>4. k \in 1 .. K
        BY <1>6, <3>2, <3>3
      <3> QED
        BY <1>8, <1>12, <3>1, <3>4
    <2>3. SavedIsLogged(lp)'
      BY <1>8, <1>12, <2>2 DEF SavedIsLogged
    <2> QED
      BY <2>1, <2>3
  <1>20. \A i \in 1 .. n : Before(log[lp][i].event, e) <=> i \in 1 .. K
    <2>1. \A i \in 1 .. n : i \in 1 .. K \/ i \in K + 1 .. n
      BY <1>6
    <2> QED
      BY <1>6, <2>1
  <1>21. OutputIsLogged(lp)'
    <2> SUFFICES ASSUME NEW m \in DOMAIN output_queue'[lp]
                 PROVE  \E i \in 1 .. K : /\ log'[lp][i].event = output_queue'[lp][m].input
                                          /\ output_queue'[lp][m].output \in SentAt(lp, i)'
      BY <1>8 DEF OutputIsLogged
    <2>1. PICK l \in DOMAIN output_queue[lp] : /\ output_queue'[lp][m] = output_queue[lp][l]
                                               /\ Before(output_queue[lp][l].input, e)
      BY <1>9
    <2>2. PICK i \in 1 .. n : /\ log[lp][i].event = output_queue[lp][l].input
                              /\ output_queue[lp][l].output \in SentAt(lp, i)
      BY <1>3, <1>6 DEF LogInv, OutputIsLogged
    <2>3. i \in 1 .. K
      BY <1>20, <2>1, <2>2
    <2> QED
      BY <1>8, <2>1, <2>2, <2>3
  <1>22. SentIsModelled(lp)'
    <2> SUFFICES ASSUME NEW i \in 1 .. K
                 PROVE  LET made == log'[lp][i].sent
                            all  == LoggedSends(lp, i)'
                        IN  /\ Len(made) <= Len(all)
                            /\ \A j \in DOMAIN made :
                                   Becomes(made[j], lp, all[j], log'[lp][i].event.ts)
                            /\ IF state_queue'[lp] = <<>>
                               THEN made = <<>>
                               ELSE \/ Len(made) = Len(all)
                                    \/ /\ i = Len(log'[lp])
                                       /\ \E u \in Thread : SendsFor(u, lp)'
      BY <1>8 DEF SentIsModelled, Becomes
    <2>1. LET made == log[lp][i].sent
              all  == LoggedSends(lp, i)
          IN  /\ Len(made) <= Len(all)
              /\ \A j \in DOMAIN made :
                     Becomes(made[j], lp, all[j], log[lp][i].event.ts)
              /\ Len(made) = Len(all)
      BY <1>3, <1>6, <1>8, <1>10, <1>14 DEF LogInv, SentIsModelled
    <2> QED
      BY <1>8, <1>12, <2>1
  <1>23. SentInOrder(lp)'
    <2>1. SentInOrder(lp)
      BY <1>3 DEF LogInv
    <2> SUFFICES ASSUME NEW i \in 1 .. K, NEW k \in 1 .. K,
                        NEW j \in DOMAIN log'[lp][i].sent, NEW l \in DOMAIN log'[lp][k].sent
                 PROVE  LET f == log'[lp][i].sent[j]
                            g == log'[lp][k].sent[l]
                        IN  f # NoEvent /\ g # NoEvent /\ (i < k \/ (i = k /\ j < l)) => f.gen < g.gen
      BY <1>8 DEF SentInOrder
    <2>2. log'[lp][i] = log[lp][i] /\ log'[lp][k] = log[lp][k]
      BY <1>8
    <2> QED
      BY <1>6, <1>8, <2>1, <2>2 DEF SentInOrder
  <1>24. /\ Known' = Known /\ InNetwork' = InNetwork /\ sent' = sent /\ horizon' = horizon
    <2>1. sent' = sent
      BY <1>13, NothingInserted DEF EngineInv
    <2>2. horizon' = horizon
      BY <1>2, <1>3, <1>4 DEF Remember
    <2> QED
      BY <1>2, <2>1, <2>2 DEF Known, InNetwork
  <1>25. \A l \in LP : Logged(l)' \subseteq Logged(l) /\ SentBy(l)' \subseteq SentBy(l)
    BY <1>8, <1>16
  <1>26. \A f \in SentBy(lp)' : f \notin BeingCancelled'
    <2> SUFFICES ASSUME NEW f \in SentBy(lp)', f \in BeingCancelled' PROVE FALSE
      OBVIOUS
    <2>1. f \in SentBy(lp) /\ f \notin BeingCancelled
      BY <1>3, <1>8, SentByFacts
    <2>2. PICK m \in DOMAIN output_queue[lp] : /\ f = output_queue[lp][m].output
                                               /\ ~ Before(output_queue[lp][m].input, e)
      BY <1>9, <2>1
    <2>3. PICK i \in 1 .. n : /\ log[lp][i].event = output_queue[lp][m].input
                              /\ output_queue[lp][m].output \in SentAt(lp, i)
      BY <1>3, <1>6 DEF LogInv, OutputIsLogged
    <2>4. i \notin 1 .. K /\ f \in SentAt(lp, i)
      BY <1>20, <2>2, <2>3
    <2>5. PICK k \in 1 .. K : f \in SentAt(lp, k)'
      BY <1>8 DEF SentBy
    <2>6. k \in 1 .. n /\ f \in SentAt(lp, k)
      BY <1>8, <2>5
    <2>7. i = k
      BY <1>3, <1>6, <2>4, <2>6, SentOnce
    <2> QED
      BY <2>4, <2>5, <2>7
  <1>27. \A l \in LP : SentStands(l)'
    <2> SUFFICES ASSUME NEW l \in LP, NEW f \in SentBy(l)'
                 PROVE  /\ f \in Known' /\ NegativeEvent(f) \notin Known'
                        /\ f \notin BeingCancelled' /\ (f.ts < horizon' => f \in Logged(f.recv)')
      BY DEF SentStands
    <2>1. f \in SentBy(l)
      BY <1>25
    <2>2. /\ f \in Known /\ NegativeEvent(f) \notin Known /\ f \notin BeingCancelled
          /\ (f.ts < horizon => f \in Logged(f.recv)) /\ f.recv \in LP
          /\ f.sender = l /\ f.ts \in Nat
      BY <2>1, SentByFacts
    <2>3. f \notin BeingCancelled'
      <3>1. CASE l = lp
        BY <1>26, <3>1
      <3>2. CASE l # lp
        <4> SUFFICES ASSUME f \in BeingCancelled' PROVE FALSE
          OBVIOUS
        <4>1. PICK m \in DOMAIN output_queue[lp] : f = output_queue[lp][m].output
          BY <1>9, <2>2
        <4>2. f.sender = lp
          BY <1>3, <4>1 DEF EngineInv, OutputIsSent
        <4> QED
          BY <2>2, <3>2, <4>2
      <3> QED
        BY <3>1, <3>2
    <2>4. ASSUME f.ts < horizon
          PROVE  f \in Logged(f.recv)'
      <3>1. f \in Logged(f.recv)
        BY <2>2, <2>4
      <3>2. CASE f.recv # lp
        BY <1>16, <2>2, <3>1, <3>2
      <3>3. CASE f.recv = lp
        <4>1. \A i \in K + 1 .. n : f # log[lp][i].event
          <5> SUFFICES ASSUME NEW i \in K + 1 .. n, f = log[lp][i].event PROVE FALSE
            OBVIOUS
          <5>1. gvt <= f.ts
            BY <1>6
          <5> QED
            BY <1>3, <2>2, <2>4, <5>1
        <4> QED
          BY <1>8, <3>1, <3>3, <4>1
      <3> QED
        BY <3>2, <3>3
    <2> QED
      BY <1>24, <2>2, <2>3, <2>4
  <1>28. \A l \in LP : LoggedStands(l)'
    BY <1>13, <1>24, <1>25 DEF LogInv, LoggedStands
  <1>29. KnownIsSent'
    <2> SUFFICES ASSUME NEW f \in Known, f.type = POSITIVE
                 PROVE  \/ f \in SentBy(f.sender)'
                        \/ f \in BeingCancelled'
                        \/ NegativeEvent(f) \in Known
      BY <1>24 DEF KnownIsSent
    <2>1. f.sender \in LP
      BY DEF EngineInv, KnownIsIdentified
    <2>2. \/ f \in SentBy(f.sender)
          \/ f \in BeingCancelled
          \/ NegativeEvent(f) \in Known
      BY DEF LogInv, KnownIsSent
    <2>3. CASE f \notin SentBy(f.sender) \/ f.sender # lp
      BY <1>9, <1>16, <2>1, <2>2, <2>3
    <2>4. CASE f \in SentBy(f.sender) /\ f.sender = lp
      <3> SUFFICES ASSUME NEW i \in K + 1 .. n, f \in SentAt(lp, i)
                   PROVE  f \in BeingCancelled' \/ NegativeEvent(f) \in Known
        BY <1>8, <2>4
      <3>1. i \in 1 .. n /\ i \notin 1 .. K
        BY <1>6
      <3>2. f.send = log[lp][i].event.ts /\ f.send >= gvt
        <4>1. f.send = log[lp][i].event.ts
          BY <1>3, <1>6, <3>1, SentFacts
        <4>2. gvt <= log[lp][i].event.ts /\ log[lp][i].event.ts \in Nat
          BY <1>3, <1>6, <3>1, LogFacts
        <4> QED
          BY <1>3, <4>1, <4>2
      <3>3. f.send \in Nat /\ ~ (f.send < gvt)
        <4>1. log[lp][i].event.ts \in Nat
          BY <1>3, <1>6, <3>1, LogFacts
        <4> QED
          BY <1>3, <3>2, <4>1
      <3>4. \/ \E m \in DOMAIN output_queue[lp] : output_queue[lp][m].output = f
            \/ f \in BeingCancelled
            \/ NegativeEvent(f) \in Known
        BY <2>4, <3>3 DEF EngineInv, SentIsRecorded
      <3>5. ASSUME NEW m \in DOMAIN output_queue[lp], output_queue[lp][m].output = f
            PROVE  f \in BeingCancelled'
        <4>1. PICK k \in 1 .. n : /\ log[lp][k].event = output_queue[lp][m].input
                                  /\ output_queue[lp][m].output \in SentAt(lp, k)
          BY <1>3, <1>6 DEF LogInv, OutputIsLogged
        <4>2. f \in SentAt(lp, k)
          BY <3>5, <4>1
        <4>3. k = i
          BY <1>3, <1>6, <3>1, <4>2, SentOnce
        <4>4. ~ Before(output_queue[lp][m].input, e)
          BY <1>20, <3>1, <4>1, <4>3
        <4> QED
          BY <1>9, <3>5, <4>4
      <3> QED
        BY <1>9, <3>4, <3>5
    <2> QED
      BY <2>3, <2>4
  <1>30. \A u \in Thread : RestIsModelled(u)'
    <2> SUFFICES ASSUME NEW u \in Thread PROVE RestIsModelled(u)'
      OBVIOUS
    <2>1. \A l \in LP : state_queue'[l] = <<>> => state_queue[l] = <<>>
      BY <1>12
    <2>2. \A l \in LP : SendsFor(u, l) => log'[l] = log[l]
      BY <1>7, <1>14
    <2>3. RestIsModelled(u) /\ new_events'[u] = new_events[u]
      BY <1>2 DEF LogInv
    <2> QED
      BY <2>1, <2>2, <2>3, RestStands
  <1>31. log' \in [LP -> Seq(Entry)]
    <2>1. \A l \in LP : log'[l] \in Seq(Entry)
      BY <1>8, <1>16
    <2> QED
      BY <1>7, <2>1
  <1> QED
    BY <1>16, <1>17, <1>18, <1>19, <1>21, <1>22, <1>23, <1>27, <1>28, <1>29, <1>30, <1>31 DEF LogInv

-----------------------------------------------------------------------------
(* The invariant of the log.                                               *)

LEMMA LogStarts ==
  ASSUME ModelIsCausal, LogInit
  PROVE  LogInv
  <1>1. /\ held = [t \in Worker |-> NoEvent]
        /\ state = [lp \in LP |-> <<>>]
        /\ state_queue = [lp \in LP |-> <<>>]
        /\ output_queue = [lp \in LP |-> <<>>]
        /\ new_events = [t \in Thread |-> <<>>]
        /\ log = [lp \in LP |-> <<InitialEntry>>]
        /\ sent = {} /\ initialize
        /\ network = [l \in Scheduler \X Scheduler |-> <<>>]
    BY DEF LogInit, HistoryInit, Init, InitialState
  <1>2. Known = {}
    BY <1>1 DEF Known, InNetwork, ToSet
  <1>3. \A lp \in LP : processed_queue[lp] = <<>>
    BY <1>1 DEF initialize
  <1>4. \A lp : JustReceived(lp) = {} /\ ~ InPast(lp)
    BY <1>1 DEF JustReceived, InPast, HandledBy
  <1>5. InitialEntry \in Entry /\ InitialEntry.event = InitialEvent /\ InitialEntry.sent = <<>>
    BY DEF InitialEntry, Entry
  <1>6. \A lp \in LP : /\ log[lp] \in Seq(Entry) /\ Len(log[lp]) = 1 /\ DOMAIN log[lp] = {1}
                       /\ log[lp][1] = InitialEntry /\ log[lp] # <<>>
    <2>1. PICK x : x = InitialEntry
      OBVIOUS
    <2>2. /\ <<x>> \in Seq(Entry) /\ Len(<<x>>) = 1 /\ DOMAIN <<x>> = {1} /\ <<x>>[1] = x
          /\ <<x>> # <<>>
      BY <1>5, <2>1
    <2> QED
      BY <1>1, <2>1, <2>2
  <1>7. DOMAIN <<>> = {} /\ Len(<<>>) = 0
    OBVIOUS
  <1>8. \A lp \in LP : SentAt(lp, 1) = {} /\ SentBy(lp) = {} /\ Logged(lp) = {}
    <2> SUFFICES ASSUME NEW lp \in LP
                 PROVE  SentAt(lp, 1) = {} /\ SentBy(lp) = {} /\ Logged(lp) = {}
      OBVIOUS
    <2>1. SentAt(lp, 1) = {}
      BY <1>5, <1>6, <1>7 DEF SentAt
    <2>2. SentBy(lp) = {}
      BY <1>6, <2>1 DEF SentBy
    <2>3. 2 .. 1 = {}
      OBVIOUS
    <2>4. Logged(lp) = {}
      BY <1>6, <2>3 DEF Logged
    <2> QED
      BY <2>1, <2>2, <2>4
  <1>9. ASSUME NEW lp \in LP
        PROVE  /\ LogInOrder(lp) /\ LogEndsInQueue(lp) /\ StateIsLogged(lp) /\ SavedIsLogged(lp)
               /\ OutputIsLogged(lp) /\ SentIsModelled(lp) /\ SentInOrder(lp)
               /\ SentStands(lp) /\ LoggedStands(lp)
    <2>1. 2 .. 1 = {} /\ \A i \in {1} : i = 1
      OBVIOUS
    <2>2. LogInOrder(lp)
      BY <1>5, <1>6, <2>1 DEF LogInOrder
    <2>3. Collected(lp) = 1 - 0 - 0
      BY <1>3, <1>4, <1>6, <1>7 DEF Collected
    <2>4. LogEndsInQueue(lp)
      <3>1. Collected(lp) = 1 /\ 2 .. Collected(lp) = {} /\ Collected(lp) > 0
        BY <2>3
      <3> QED
        BY <1>3, <1>4, <1>7, <3>1 DEF LogEndsInQueue
    <2>5. StateIsLogged(lp) /\ SavedIsLogged(lp)
      <3>1. StateAfter(lp, 1) = <<>>
        <4>1. 1 .. 1 - 1 = {}
          OBVIOUS
        <4>2. StateAfter(lp, 1) = [k \in {} |-> Trace(log[lp][k + 1].event)]
          BY <4>1 DEF StateAfter
        <4>3. PICK f : f = StateAfter(lp, 1)
          OBVIOUS
        <4>4. f \in [{} -> Nat]
          BY <4>2, <4>3
        <4>7. {} = 1 .. 0
          OBVIOUS
        <4>8. f \in [1 .. 0 -> Nat]
          BY <4>4, <4>7
        <4>5. f \in Seq(Nat) /\ Len(f) = 0
          BY <4>8
        <4>6. f = <<>>
          BY <4>5
        <4> QED
          BY <4>3, <4>6
      <3> QED
        BY <1>1, <1>6, <1>7, <3>1 DEF StateIsLogged, SavedIsLogged
    <2>6. OutputIsLogged(lp)
      BY <1>1, <1>7 DEF OutputIsLogged
    <2>7. SentIsModelled(lp)
      <3>1. Len(LoggedSends(lp, 1)) >= 0
        <4>1. LoggedSends(lp, 1) = InitialSends[lp]
          BY DEF LoggedSends
        <4>2. PICK q : q = InitialSends[lp]
          OBVIOUS
        <4>3. q \in Seq(Send)
          BY <4>2 DEF ModelIsCausal
        <4> QED
          BY <4>1, <4>2, <4>3
      <3>2. state_queue[lp] = <<>>
        BY <1>1
      <3> QED
        BY <1>5, <1>6, <1>7, <2>1, <3>1, <3>2 DEF SentIsModelled
    <2>8. SentInOrder(lp)
      BY <1>5, <1>6, <1>7 DEF SentInOrder
    <2>9. SentStands(lp) /\ LoggedStands(lp)
      BY <1>8 DEF SentStands, LoggedStands
    <2> QED
      BY <2>2, <2>4, <2>5, <2>6, <2>7, <2>8, <2>9
  <1>10. \A t \in Thread : RestIsModelled(t)
    BY <1>1 DEF RestIsModelled, SendsFor
  <1>11. KnownIsSent
    BY <1>2 DEF KnownIsSent
  <1>12. log \in [LP -> Seq(Entry)]
    <2>1. log = [lp \in LP |-> log[lp]]
      BY <1>1
    <2> QED
      BY <1>6, <2>1
  <1> QED
    BY <1>9, <1>10, <1>11, <1>12 DEF LogInv

LEMMA StutterLog ==
  ASSUME EngineInv, LogInv, UNCHANGED <<engineVars, History, log>>
  PROVE  LogInv'
  <1>1. /\ UNCHANGED <<network, new_events, events_to_cancel, input_queue, processed_queue,
                       state, state_queue, output_queue, pc, held, sent, horizon, log>>
    BY DEF engineVars, queues, toSend, lpVars, History
  <1>2. Pending' = Pending
    BY <1>1 DEF Pending
  <1>3. \A lp \in LP : LogEndsInQueue(lp)' /\ StateIsLogged(lp)' /\ SavedIsLogged(lp)'
    BY <1>1, RestLog
  <1> QED
    BY <1>1, <1>2, <1>3, QuietLog

LEMMA LogSteps ==
  ASSUME ModelIsCausal, MessageIsAll, EngineInv, EngineInv', StateInv, LogInv,
         [LogStep]_<<engineVars, History, log>>
  PROVE  LogInv'
  <1>1. CASE UNCHANGED <<engineVars, History, log>>
    BY <1>1, StutterLog
  <1>2. CASE LogStep
    <2>1. Remember
      BY <1>2 DEF LogStep
    <2>2. CASE \E t \in Worker : Rollback(t) /\ UndoLog(t)
      BY <2>1, <2>2, RollbackLog
    <2>3. CASE \E t \in Worker : ReceiveEvent(t) /\ LogEvent(t)
      BY <2>1, <2>3, ReceiveEventLog
    <2>4. CASE \E t \in Thread : SendEvent(t) /\ LogSend(t)
      BY <2>1, <2>4, SendEventLog
    <2>5. CASE QuietStep /\ UNCHANGED log
      <3>1. CASE \E t \in Worker : \E event \in Pending : GetEvent(t, event)
        BY <2>1, <2>5, <3>1, GetEventLog
      <3>2. CASE \E t \in Worker : SendAntiMessage(t)
        BY <2>1, <2>5, <3>2, SendAntiMessageLog
      <3>3. CASE \E t \in Worker : CoastForward(t)
        BY <2>1, <2>5, <3>3, CoastForwardLog
      <3>4. CASE \E t \in Worker : CancelEvent(t)
        BY <2>1, <2>5, <3>4, CancelEventLog
      <3>5. CASE \E t \in Worker : FossilCollect(t)
        BY <2>1, <2>5, <3>5, FossilCollectLog
      <3>6. CASE \E t \in Worker : ReplenishScheduler(t)
        BY <2>1, <2>5, <3>6, ReplenishLog
      <3>7. CASE \E lp \in LP : InitializeLP(lp)
        BY <2>1, <2>5, <3>7, InitializeLPLog
      <3>8. CASE StartWorkers
        BY <2>1, <2>5, <3>8, StartWorkersLog
      <3>9. CASE ReceiveStep
        BY <2>1, <2>5, <3>9, ReceiveLog DEF ReceiveStep
      <3>10. CASE Terminate
        BY <2>1, <2>5, <3>10, TerminateLog
      <3>11. CASE \E lp \in LP : FinalCollect(lp)
        BY <2>1, <2>5, <3>11, FinalCollectLog
      <3>12. CASE \E time \in GvtTimes : AdvanceGVT(time)
        BY <2>1, <2>5, <3>12, AdvanceGVTLog
      <3> QED
        BY <2>5, <3>1, <3>2, <3>3, <3>4, <3>5, <3>6, <3>7, <3>8, <3>9, <3>10, <3>11, <3>12
           DEF QuietStep
    <2> QED
      BY <1>2, <2>2, <2>3, <2>4, <2>5 DEF LogStep
  <1> QED
    BY <1>1, <1>2

(* The log only records: what it goes with is a behaviour of the engine.   *)
LEMMA LogOnlyRecords ==
  /\ LogInit => HistoryInit
  /\ [LogStep]_<<engineVars, History, log>> => [HistoryStep]_<<engineVars, History>>
  <1>1. ASSUME LogStep PROVE HistoryStep
    <2>1. Remember
      BY <1>1 DEF LogStep
    <2>2. ASSUME NEW t \in Worker, Rollback(t) \/ ReceiveEvent(t) \/ SendEvent(t)
          PROVE  EngineNext
      BY <2>2 DEF EngineNext, WorkerStep
    <2>3. ASSUME SendEvent(Master) PROVE EngineNext
      BY <2>3 DEF EngineNext, MasterStep
    <2>4. ASSUME QuietStep PROVE EngineNext
      <3>1. ASSUME NEW t \in Worker,
                   \/ \E event \in Pending : GetEvent(t, event)
                   \/ SendAntiMessage(t) \/ CoastForward(t) \/ CancelEvent(t)
                   \/ FossilCollect(t) \/ ReplenishScheduler(t)
            PROVE  EngineNext
        <4>1. WorkerStep(t)
          BY <3>1 DEF WorkerStep
        <4> QED
          BY <4>1 DEF EngineNext
      <3>2. MasterStep => EngineNext
        BY DEF EngineNext
      <3> QED
        BY <2>4, <3>1, <3>2 DEF QuietStep, MasterStep, EngineNext
    <2>5. EngineNext
      BY <1>1, <2>2, <2>3, <2>4, MasterIsNoWorker DEF LogStep
    <2> QED
      BY <2>1, <2>5 DEF HistoryStep
  <1> QED
    BY <1>1 DEF LogInit

(* What the engine has received and not undone is, in the order of         *)
(* operator<, what its state reflects, saved states and the queue of sent  *)
(* events record, and the model made it send; what was sent on it stands.  *)
THEOREM HistoryIsKept ==
  ASSUME ModelIsCausal, MessageIsAll
  PROVE  LogSpec => []HistoryInv
  <1>1. LogInit => EngineInv /\ StateInv /\ LogInv
    BY EngineInit, StateInit, LogStarts, LogOnlyRecords
  <1>2. EngineInv /\ StateInv /\ LogInv /\ [LogNext]_<<vars, History, log>>
            => EngineInv' /\ StateInv' /\ LogInv'
    <2> SUFFICES ASSUME EngineInv, StateInv, LogInv, [LogStep]_<<engineVars, History, log>>
                 PROVE  EngineInv' /\ StateInv' /\ LogInv'
      BY DEF LogNext, Running, Abort, vars
    <2>1. [HistoryStep]_<<engineVars, History>>
      BY LogOnlyRecords
    <2>2. EngineInv'
      BY <2>1, EngineStep
    <2>3. StateInv'
      BY <2>1, <2>2, StateStep
    <2>4. LogInv'
      BY <2>2, LogSteps
    <2> QED
      BY <2>2, <2>3, <2>4
  <1>3. EngineInv /\ StateInv /\ LogInv => HistoryInv
    BY DEF HistoryInv
  <1> QED
    BY <1>1, <1>2, <1>3, PTL DEF LogSpec

-----------------------------------------------------------------------------
(***************************************************************************)
(* What the engine commits is what the sequential simulation does, for     *)
(* every simulation model whose events take effect later than they are     *)
(* processed.                                                              *)
(*                                                                         *)
(* The sequential loop is compared with the log of one state of the        *)
(* engine: it consumes the entries of the log, in the order of operator<   *)
(* across the LPs, as long as they are before the GVT.                     *)
(***************************************************************************)

(* An event has its effects later than it happens.                         *)
ModelDelays ==
    \A lp \in LP : \A e \in Message : \A s : \A i \in DOMAIN Sends(lp, s, e) :
        e.ts < Sends(lp, s, e)[i].ts

(* Events that differ in nothing but the generation number; it is the      *)
(* kernel's, and no model looks at it.                                     *)
SameButGen(e, f) == /\ e.ts = f.ts /\ e.send = f.send /\ e.sender = f.sender
                    /\ e.recv = f.recv /\ e.type = f.type
GenerationIsHidden ==
    \A lp \in LP : \A e, f \in Event : \A s :
        SameButGen(e, f) => Sends(lp, s, e) = Sends(lp, s, f)

-----------------------------------------------------------------------------
(* The sequential loop.                                                    *)

Run == Sequential!startSimulation
OneMore(c) == IF c.events = {} THEN c ELSE Sequential!ProcessNext(c)

(* The loop's definitions are those of the engine's modules.               *)
LEMMA SequentialIs ==
  /\ \A S : Sequential!Cardinality(S) = Cardinality(S)
  /\ \A q : Sequential!InTime(q) = InTime(q)
  /\ \A lp, send, time, g : Sequential!NewEvent(lp, send, time, g) = NewEvent(lp, send, time, g)
  /\ \A e, f : Sequential!BeforeOrSame(e, f) <=> BeforeOrSame(e, f)
  /\ \A s, e : Sequential!NextState(s, e) = NextState(s, e)
  /\ Sequential!InitialState = InitialState
  <1>1. \A S : Sequential!Cardinality(S) = Cardinality(S)
    BY DEF Sequential!Cardinality, Cardinality
  <1>2. \A q : Sequential!InTime(q) = InTime(q)
    BY DEF Sequential!InTime, InTime
  <1>3. \A lp, send, time, g : Sequential!NewEvent(lp, send, time, g) = NewEvent(lp, send, time, g)
    BY DEF Sequential!NewEvent, NewEvent, Sequential!POSITIVE, POSITIVE
  <1>4. \A e, f : Sequential!BeforeOrSame(e, f) <=> BeforeOrSame(e, f)
    BY DEF Sequential!BeforeOrSame, BeforeOrSame, Sequential!Before, Before,
           Sequential!SameEvent, SameEvent
  <1>5. \A s, e : Sequential!NextState(s, e) = NextState(s, e)
    BY DEF Sequential!NextState, NextState, Sequential!Trace, Trace
  <1>6. Sequential!InitialState = InitialState
    BY DEF Sequential!InitialState, InitialState
  <1> QED
    BY <1>1, <1>2, <1>3, <1>4, <1>5, <1>6

NumberedFrom(lp, q, time, g) ==
    {NewEvent(lp, q[j], time, g + Cardinality({m \in InTime(q) : m < j})) : j \in InTime(q)}

LEMMA NewEventsAre ==
  ASSUME NEW lp, NEW q, NEW time, NEW g
  PROVE  Sequential!NewEvents(lp, q, time, g) = NumberedFrom(lp, q, time, g)
  <1>1. \A j : Sequential!NewEvent(lp, q[j], time, g + Sequential!Cardinality({m \in InTime(q) : m < j}))
               = NewEvent(lp, q[j], time, g + Cardinality({m \in InTime(q) : m < j}))
    BY SequentialIs
  <1>2. Sequential!InTime(q) = InTime(q)
    BY SequentialIs
  <1>3. Sequential!NewEvents(lp, q, time, g)
        = {Sequential!NewEvent(lp, q[j], time, g + Sequential!Cardinality({m \in InTime(q) : m < j}))
             : j \in InTime(q)}
    BY <1>2 DEF Sequential!NewEvents
  <1> QED
    BY <1>1, <1>3 DEF NumberedFrom

(* The recursive definition defines the loop.                              *)
LEMMA LoopUpTo ==
  ASSUME NEW m \in Nat
  PROVE  \E f : f = [n \in 0 .. m |-> IF n = 0 THEN Sequential!Start ELSE OneMore(f[n - 1])]
  <1> DEFINE Loops(k, f) == f = [n \in 0 .. k |-> IF n = 0 THEN Sequential!Start
                                                  ELSE OneMore(f[n - 1])]
             T == {k \in Nat : ~ \E f : Loops(k, f)}
  <1>1. ASSUME T # {} PROVE FALSE
    <2>1. PICK k \in T : \A n \in T : k <= n
      BY <1>1, NatMinimum
    <2>2. k \in Nat /\ ~ \E f : Loops(k, f)
      BY <2>1
    <2>3. CASE k = 0
      <3>1. PICK f : f = [n \in 0 .. 0 |-> Sequential!Start]
        OBVIOUS
      <3>2. Loops(0, f)
        BY <3>1
      <3> QED
        BY <2>2, <2>3, <3>2
    <2>4. CASE k > 0
      <3>1. k - 1 \in Nat /\ k - 1 \notin T
        <4>1. k - 1 \in Nat /\ ~ (k <= k - 1)
          BY <2>2, <2>4
        <4> HIDE DEF T
        <4> QED
          BY <2>1, <4>1
      <3>2. PICK g : Loops(k - 1, g)
        BY <3>1
      <3>3. PICK f : f = [n \in 0 .. k |-> IF n = k THEN OneMore(g[k - 1]) ELSE g[n]]
        OBVIOUS
      <3>4. \A n \in 0 .. k - 1 : n \in 0 .. k /\ f[n] = g[n]
        BY <2>2, <3>3
      <3>5. f[k] = OneMore(f[k - 1])
        BY <2>2, <2>4, <3>1, <3>3, <3>4
      <3>6. \A n \in 0 .. k - 1 : f[n] = IF n = 0 THEN Sequential!Start ELSE OneMore(f[n - 1])
        <4> SUFFICES ASSUME NEW n \in 0 .. k - 1
                     PROVE  f[n] = IF n = 0 THEN Sequential!Start ELSE OneMore(f[n - 1])
          OBVIOUS
        <4>1. g[n] = IF n = 0 THEN Sequential!Start ELSE OneMore(g[n - 1])
          BY <3>2
        <4>2. n # 0 => n - 1 \in 0 .. k - 1
          BY <2>2
        <4> QED
          BY <3>4, <4>1, <4>2
      <3>7. \A n \in 0 .. k : n = k \/ n \in 0 .. k - 1
        BY <2>2
      <3>8. \A n \in 0 .. k : f[n] = IF n = 0 THEN Sequential!Start ELSE OneMore(f[n - 1])
        BY <2>4, <3>5, <3>6, <3>7
      <3>9. f = [n \in 0 .. k |-> f[n]]
        BY <3>3
      <3> HIDE DEF T
      <3>10. Loops(k, f)
        BY <3>8, <3>9
      <3> QED
        BY <2>2, <3>10
    <2> QED
      BY <2>2, <2>3, <2>4
  <1> QED
    BY <1>1

LEMMA LoopIs ==
  ASSUME MaxEvents \in Nat
  PROVE  /\ Run[0] = Sequential!Start
         /\ \A n \in 1 .. MaxEvents : Run[n] = OneMore(Run[n - 1])
  <1>1. Run = [n \in 0 .. MaxEvents |-> IF n = 0 THEN Sequential!Start ELSE OneMore(Run[n - 1])]
    BY LoopUpTo DEF Run, Sequential!startSimulation, OneMore
  <1> HIDE DEF Run
  <1>2. 0 \in 0 .. MaxEvents /\ \A n \in 1 .. MaxEvents : n \in 0 .. MaxEvents /\ n # 0
    OBVIOUS
  <1> QED
    BY <1>1, <1>2

-----------------------------------------------------------------------------
(* The loop next to the log.                                               *)

(* What the first entries of the log, k[lp] of each LP, received and sent. *)
DoneUpTo(k) == UNION {{log[lp][i].event : i \in 2 .. k[lp]} : lp \in LP}
SentUpTo(k) == UNION {UNION {SentAt(lp, i) : i \in 1 .. k[lp]} : lp \in LP}

(* The loop has consumed these entries, and what it has created is what    *)
(* they sent, numbered in the same order.                                  *)
Follows(c, k, image) ==
    /\ k \in [LP -> Nat]
    /\ \A lp \in LP : k[lp] \in DOMAIN log[lp]
    /\ \A lp \in LP : \A i \in 2 .. k[lp] : log[lp][i].event.ts < horizon
    /\ DoneUpTo(k) \subseteq SentUpTo(k)
    /\ \A e \in SentUpTo(k) : /\ image[e] \in Event /\ SameButGen(e, image[e])
                              /\ image[e].gen < c.generation[e.sender]
    /\ \A e, f \in SentUpTo(k) :
           e.sender = f.sender /\ e.gen < f.gen => image[e].gen < image[f].gen
    /\ c.events = {image[e] : e \in SentUpTo(k) \ DoneUpTo(k)}
    /\ c.state = [lp \in LP |-> StateAfter(lp, k[lp])]
    /\ c.generation \in [LP -> Nat]

(* The loop has consumed all entries before the GVT, and nothing that is   *)
(* before the GVT in place of later ones.                                  *)
Passed(c, k) ==
    /\ k \in [LP -> Nat]
    /\ \A lp \in LP :
           /\ k[lp] \in DOMAIN log[lp]
           /\ \A i \in DOMAIN log[lp] : i > k[lp] => log[lp][i].event.ts >= horizon
           /\ c.state[lp] \in Seq(TraceOf) /\ Len(c.state[lp]) >= k[lp] - 1
           /\ \A i \in 1 .. k[lp] - 1 : c.state[lp][i] = StateAfter(lp, k[lp])[i]
           /\ \A i \in k[lp] .. Len(c.state[lp]) :
                  horizon <= c.state[lp][i][1] /\ c.state[lp][i][1] < Infinity
    /\ \A e \in c.events : e \in Message /\ e.ts >= horizon
    /\ c.state = [lp \in LP |-> c.state[lp]]
    /\ c.generation \in [LP -> Nat]

LEMMA UpToIs ==
  ASSUME NEW k
  PROVE  /\ \A e : e \in DoneUpTo(k) <=>
               \E lp \in LP : \E i \in 2 .. k[lp] : e = log[lp][i].event
         /\ \A e : e \in SentUpTo(k) <=> \E lp \in LP : \E i \in 1 .. k[lp] : e \in SentAt(lp, i)
  BY DEF DoneUpTo, SentUpTo

(* The engine has initialised its LPs.                                     *)
Started == pc[Master] # "initialize"

LEMMA HorizonFacts ==
  ASSUME EngineInv
  PROVE  /\ gvt \in Nat /\ horizon \in Nat /\ Infinity \in Nat /\ gvt <= horizon
         /\ pc[Master] # "terminated" => horizon = gvt
         /\ pc[Master] = "terminated" => horizon = Infinity
         /\ pc[Master] = "initialize" => horizon = 0
         /\ Started => \A lp \in LP : state_queue[lp] # <<>>
  BY TimesAssumption DEF EngineInv, EngineTypeOK, MasterControl, FirstStateIsOld, Started

(* Nothing before the GVT is outstanding.                                  *)
LEMMA NothingEarlyOutstanding ==
  ASSUME EngineInv, NEW e \in Pending \cup InNetwork \cup BeingCancelled
  PROVE  e.ts >= horizon
  <1>1. CASE pc[Master] = "terminated"
    BY <1>1 DEF EngineInv, MasterControl, Outstanding
  <1>2. CASE pc[Master] # "terminated"
    <2>1. horizon = gvt /\ gvt \in Nat
      BY <1>2, HorizonFacts
    <2>2. CASE e \in Pending
      <3>1. PICK lp \in LP : e \in input_queue[lp]
        BY <2>2 DEF Pending
      <3>2. e.ts >= horizon
        BY <3>1 DEF EngineInv, IInv, PendingNotBeforeHorizon
      <3> QED
        BY <3>2
    <2>3. CASE e \in InNetwork \cup BeingCancelled
      BY <2>1, <2>3 DEF EngineInv, OutstandingNotBeforeGVT
    <2> QED
      BY <2>2, <2>3
  <1> QED
    BY <1>1, <1>2

(* What the model makes an LP send.                                        *)
LEMMA LoggedSendsFacts ==
  ASSUME ModelIsCausal, LogInv, NEW lp \in LP, NEW i \in DOMAIN log[lp]
  PROVE  /\ LoggedSends(lp, i) \in Seq(Send)
         /\ InTime(LoggedSends(lp, i)) \subseteq 1 .. Len(LoggedSends(lp, i))
         /\ \A j \in DOMAIN LoggedSends(lp, i) :
                LoggedSends(lp, i)[j].recv \in LP /\ LoggedSends(lp, i)[j].ts \in Nat
  <1>1. LoggedSends(lp, i) \in Seq(Send)
    <2>1. CASE i = 1
      BY <2>1 DEF LoggedSends, ModelIsCausal
    <2>2. CASE i # 1
      <3>1. i \in 2 .. Len(log[lp])
        BY <2>2, LogFacts
      <3>2. log[lp][i].event \in Message
        BY <3>1 DEF LogInv, LogInOrder
      <3> QED
        BY <2>2, <3>2 DEF LoggedSends, ModelIsCausal
    <2> QED
      BY <2>1, <2>2
  <1>2. PICK q : q = LoggedSends(lp, i)
    OBVIOUS
  <1>3. q \in Seq(Send) /\ DOMAIN q = 1 .. Len(q)
    BY <1>1, <1>2
  <1>4. \A j \in DOMAIN q : q[j] \in Send
    BY <1>3
  <1>5. \A j \in DOMAIN q : q[j].recv \in LP /\ q[j].ts \in Nat
    BY <1>4, TimesAssumption DEF Send
  <1>6. InTime(q) \subseteq 1 .. Len(q)
    BY <1>3 DEF InTime
  <1> QED
    BY <1>2, <1>3, <1>5, <1>6

(* What the i-th entry has sent is what the model says, and later.         *)
SentFor(e, lp, i, j) ==
    /\ j \in DOMAIN log[lp][i].sent /\ e = log[lp][i].sent[j]
    /\ j \in InTime(LoggedSends(lp, i))
    /\ e.ts = LoggedSends(lp, i)[j].ts /\ e.recv = LoggedSends(lp, i)[j].recv
    /\ e.sender = lp /\ e.send = log[lp][i].event.ts /\ e.type = POSITIVE
    /\ e \in Event /\ e \in Message

LEMMA SentForIs ==
  ASSUME ModelIsCausal, EngineInv, LogInv, NEW lp \in LP, NEW i \in DOMAIN log[lp],
         NEW e \in SentAt(lp, i), NEW j \in DOMAIN log[lp][i].sent, e = log[lp][i].sent[j]
  PROVE  SentFor(e, lp, i, j)
  <1>1. e # NoEvent
    BY SentByIs
  <1>2. PICK q, p : q = LoggedSends(lp, i) /\ p = log[lp][i].sent
    OBVIOUS
  <1>3. /\ Len(p) <= Len(q) /\ Becomes(p[j], lp, q[j], log[lp][i].event.ts)
    BY <1>1, <1>2 DEF LogInv, SentIsModelled
  <1>4. /\ q \in Seq(Send) /\ Len(q) \in Nat /\ DOMAIN q = 1 .. Len(q)
        /\ Len(p) \in Nat /\ DOMAIN p = 1 .. Len(p)
    BY <1>2, LoggedSendsFacts, LogFacts
  <1>5. j \in DOMAIN q
    BY <1>1, <1>2, <1>3, <1>4
  <1>6. /\ e = NewEvent(lp, q[j], log[lp][i].event.ts, e.gen)
        /\ q[j].ts <= MaxSimTime
    BY <1>1, <1>2, <1>3 DEF Becomes
  <1>7. /\ e.ts = q[j].ts /\ e.recv = q[j].recv /\ e.sender = lp
        /\ e.send = log[lp][i].event.ts /\ e.type = POSITIVE
    <2>1. PICK x, send, time : x = e.gen /\ send = q[j] /\ time = log[lp][i].event.ts
      OBVIOUS
    <2>2. e = [ts |-> send.ts, send |-> time, sender |-> lp, gen |-> x,
               recv |-> send.recv, type |-> POSITIVE]
      BY <1>6, <2>1 DEF NewEvent
    <2> QED
      BY <2>1, <2>2
  <1>8. e \in Event /\ e \in Message
    BY SentFacts
  <1>9. j \in InTime(q)
    BY <1>5, <1>6 DEF InTime
  <1> QED
    BY <1>1, <1>2, <1>7, <1>8, <1>9 DEF SentFor

LEMMA SentForSome ==
  ASSUME ModelIsCausal, EngineInv, LogInv, NEW lp \in LP, NEW i \in DOMAIN log[lp],
         NEW e \in SentAt(lp, i)
  PROVE  \E j \in DOMAIN log[lp][i].sent : SentFor(e, lp, i, j)
  <1>1. PICK j \in DOMAIN log[lp][i].sent : e = log[lp][i].sent[j] /\ e # NoEvent
    BY SentByIs
  <1> QED
    BY <1>1, SentForIs

LEMMA EffectIsLater ==
  ASSUME ModelDelays, ModelIsCausal, EngineInv, LogInv, NEW lp \in LP, NEW i \in DOMAIN log[lp],
         NEW e \in SentAt(lp, i)
  PROVE  i = 1 \/ log[lp][i].event.ts < e.ts
  <1>1. PICK j \in DOMAIN log[lp][i].sent : SentFor(e, lp, i, j)
    BY SentForSome
  <1> SUFFICES ASSUME i # 1 PROVE log[lp][i].event.ts < e.ts
    OBVIOUS
  <1>2. i \in 2 .. Len(log[lp])
    BY LogFacts
  <1>3. log[lp][i].event \in Message
    BY <1>2 DEF LogInv, LogInOrder
  <1>4. LoggedSends(lp, i) = Sends(lp, StateAfter(lp, i - 1), log[lp][i].event)
    BY DEF LoggedSends
  <1>5. j \in DOMAIN LoggedSends(lp, i) /\ e.ts = LoggedSends(lp, i)[j].ts
    BY <1>1 DEF SentFor, InTime
  <1> QED
    BY <1>3, <1>4, <1>5 DEF ModelDelays

(* An entry before the GVT was sent by an earlier one.                     *)
LEMMA CauseIsLogged ==
  ASSUME ModelDelays, ModelIsCausal, EngineInv, LogInv, NEW lp \in LP, NEW i \in 2 .. Len(log[lp]),
         log[lp][i].event.ts < horizon
  PROVE  \E s \in LP : \E j \in DOMAIN log[s] :
            /\ log[lp][i].event \in SentAt(s, j)
            /\ j = 1 \/ log[s][j].event.ts < log[lp][i].event.ts
  <1>1. PICK e : e = log[lp][i].event
    OBVIOUS
  <1>2. e \in Logged(lp)
    BY <1>1 DEF Logged
  <1>3. /\ e \in Event /\ e.type = POSITIVE /\ e \in sent /\ e \in Message
        /\ NegativeEvent(e) \in Known => NegativeEvent(e) \in Pending \cup InNetwork
    BY <1>2, LoggedFacts
  <1>4. NegativeEvent(e).ts = e.ts /\ e.ts \in Nat /\ horizon \in Nat
    BY <1>3, MessageFacts, HorizonFacts DEF Event
  <1>5. NegativeEvent(e) \notin Known
    <2> SUFFICES ASSUME NegativeEvent(e) \in Pending \cup InNetwork PROVE FALSE
      BY <1>3
    <2>1. NegativeEvent(e).ts >= horizon
      BY NothingEarlyOutstanding
    <2> QED
      BY <1>1, <1>4, <2>1
  <1>6. e \notin BeingCancelled
    <2> SUFFICES ASSUME e \in BeingCancelled PROVE FALSE
      OBVIOUS
    <2>1. e.ts >= horizon
      BY NothingEarlyOutstanding
    <2> QED
      BY <1>1, <1>4, <2>1
  <1>7. e \in Known
    BY <1>3 DEF Known
  <1>8. e.sender \in LP /\ e \in SentBy(e.sender)
    BY <1>3, <1>5, <1>6, <1>7 DEF EngineInv, KnownIsIdentified, LogInv, KnownIsSent
  <1>9. PICK s : s = e.sender
    OBVIOUS
  <1>10. PICK j \in DOMAIN log[s] : e \in SentAt(s, j)
    BY <1>8, <1>9, SentByIs
  <1>11. s \in LP
    BY <1>8, <1>9
  <1>12. j = 1 \/ log[s][j].event.ts < e.ts
    BY <1>10, <1>11, EffectIsLater
  <1> QED
    BY <1>1, <1>10, <1>11, <1>12

(* An entry before the GVT has sent all that the model says.               *)
LEMMA EntryHasSent ==
  ASSUME ModelIsCausal, EngineInv, LogInv, Started, NEW lp \in LP, NEW i \in DOMAIN log[lp],
         i = 1 \/ log[lp][i].event.ts < horizon,
         NEW j \in InTime(LoggedSends(lp, i))
  PROVE  /\ j \in DOMAIN log[lp][i].sent
         /\ log[lp][i].sent[j] \in SentAt(lp, i)
         /\ SentFor(log[lp][i].sent[j], lp, i, j)
  <1>1. PICK q, p : q = LoggedSends(lp, i) /\ p = log[lp][i].sent
    OBVIOUS
  <1>2. /\ q \in Seq(Send) /\ Len(q) \in Nat /\ DOMAIN q = 1 .. Len(q)
        /\ Len(p) \in Nat /\ DOMAIN p = 1 .. Len(p) /\ p \in Seq(Event \cup {NoEvent})
    BY <1>1, LoggedSendsFacts, LogFacts
  <1>3. Len(p) = Len(q)
    <2>1. state_queue[lp] # <<>>
      BY HorizonFacts
    <2>2. ASSUME i = Len(log[lp]), NEW t \in Thread, SendsFor(t, lp)
          PROVE  FALSE
      <3>1. t \in Worker /\ pc[t] = "sendEvents" /\ held[t] # NoEvent /\ held[t].recv = lp
            /\ pc[Master] = "running"
        BY <2>2, WhoSends DEF Started
      <3>2. held[t] \in JustReceived(lp)
        BY <3>1, JustReceivedIs
      <3>3. log[lp][i].event = held[t] /\ i >= 2
        BY <2>2, <3>1, <3>2, QueueInLog
      <3>4. held[t].ts >= horizon /\ held[t] \in Event
        BY <3>1, Handled DEF EngineInv
      <3>5. held[t].ts \in Nat /\ horizon \in Nat
        BY <3>4, HorizonFacts DEF Event
      <3> QED
        BY <3>3, <3>4, <3>5
    <2> QED
      BY <1>1, <2>1, <2>2 DEF LogInv, SentIsModelled
  <1>4. j \in DOMAIN q /\ j \in DOMAIN p /\ q[j].ts <= MaxSimTime
    BY <1>1, <1>2, <1>3 DEF InTime
  <1>5. Becomes(p[j], lp, q[j], log[lp][i].event.ts)
    BY <1>1, <1>4 DEF LogInv, SentIsModelled
  <1>6. p[j] # NoEvent
    <2>1. PICK x, send, time : x = p[j].gen /\ send = q[j] /\ time = log[lp][i].event.ts
      OBVIOUS
    <2>2. p[j] = [ts |-> send.ts, send |-> time, sender |-> lp, gen |-> x,
                  recv |-> send.recv, type |-> POSITIVE]
      BY <1>4, <1>5, <2>1 DEF NewEvent, Becomes
    <2>3. DOMAIN p[j] # DOMAIN NoEvent
      BY <2>2 DEF NoEvent
    <2> QED
      BY <2>3
  <1>7. p[j] \in SentAt(lp, i)
    BY <1>1, <1>4, <1>6, SentByIs
  <1>8. /\ p[j].ts = q[j].ts /\ p[j].recv = q[j].recv /\ p[j].sender = lp
        /\ p[j].send = log[lp][i].event.ts /\ p[j].type = POSITIVE
    <2>1. PICK x, send, time : x = p[j].gen /\ send = q[j] /\ time = log[lp][i].event.ts
      OBVIOUS
    <2>2. p[j] = [ts |-> send.ts, send |-> time, sender |-> lp, gen |-> x,
                  recv |-> send.recv, type |-> POSITIVE]
      BY <1>4, <1>5, <2>1 DEF NewEvent, Becomes
    <2> QED
      BY <2>1, <2>2
  <1>9. p[j] \in Event /\ p[j] \in Message
    BY <1>7, SentFacts
  <1> QED
    BY <1>1, <1>4, <1>7, <1>8, <1>9 DEF SentFor

(* Of two events an LP sent, the one sent earlier has the lower number.    *)
LEMMA SentAreOrdered ==
  ASSUME LogInv, NEW lp \in LP, NEW i \in DOMAIN log[lp], NEW k \in DOMAIN log[lp],
         NEW e \in SentAt(lp, i), NEW f \in SentAt(lp, k), i < k
  PROVE  e.gen < f.gen
  <1>1. PICK j \in DOMAIN log[lp][i].sent : e = log[lp][i].sent[j] /\ e # NoEvent
    BY SentByIs
  <1>2. PICK m \in DOMAIN log[lp][k].sent : f = log[lp][k].sent[m] /\ f # NoEvent
    BY SentByIs
  <1> QED
    BY <1>1, <1>2 DEF LogInv, SentInOrder

-----------------------------------------------------------------------------
(* The next entry.                                                         *)

Waiting(k) == SentUpTo(k) \ DoneUpTo(k)

IsReached(k) == k \in [LP -> Nat] /\ \A lp \in LP : k[lp] \in DOMAIN log[lp]

LEMMA ReachedFacts ==
  ASSUME LogInv, EngineInv, NEW k, IsReached(k)
  PROVE  /\ \A lp \in LP : /\ k[lp] \in Nat /\ k[lp] >= 1 /\ k[lp] <= Len(log[lp])
                           /\ \A i \in 1 .. k[lp] : i \in DOMAIN log[lp]
         /\ \A e \in SentUpTo(k) : /\ e \in Event /\ e \in Message /\ e.sender \in LP
                                   /\ e.recv \in LP /\ e.ts \in Nat /\ e.type = POSITIVE
                                   /\ e.gen \in Nat
                                   /\ e \in SentBy(e.sender)
                                   /\ \E i \in 1 .. k[e.sender] : e \in SentAt(e.sender, i)
  <1>1. \A lp \in LP : /\ k[lp] \in Nat /\ k[lp] >= 1 /\ k[lp] <= Len(log[lp])
                       /\ \A i \in 1 .. k[lp] : i \in DOMAIN log[lp]
    <2> SUFFICES ASSUME NEW lp \in LP
                 PROVE  /\ k[lp] \in Nat /\ k[lp] >= 1 /\ k[lp] <= Len(log[lp])
                        /\ \A i \in 1 .. k[lp] : i \in DOMAIN log[lp]
      OBVIOUS
    <2> QED
      BY LogFacts DEF IsReached
  <1>2. ASSUME NEW e \in SentUpTo(k)
        PROVE  /\ e \in Event /\ e \in Message /\ e.sender \in LP
               /\ e.recv \in LP /\ e.ts \in Nat /\ e.type = POSITIVE /\ e.gen \in Nat
               /\ e \in SentBy(e.sender)
               /\ \E i \in 1 .. k[e.sender] : e \in SentAt(e.sender, i)
    <2>1. PICK lp \in LP : \E i \in 1 .. k[lp] : e \in SentAt(lp, i)
      BY UpToIs
    <2>2. PICK i \in 1 .. k[lp] : e \in SentAt(lp, i)
      BY <2>1
    <2>3. i \in DOMAIN log[lp]
      BY <1>1
    <2>4. /\ e \in Event /\ e.sender = lp /\ e.type = POSITIVE /\ e \in SentBy(lp)
          /\ e \in Message /\ e.recv \in LP /\ e.ts \in Nat
      BY <2>2, <2>3, SentFacts
    <2>5. e.gen \in Nat
      BY <2>4 DEF Event
    <2> QED
      BY <2>2, <2>4, <2>5
  <1> QED
    BY <1>1, <1>2

LEMMA LaterIsNotDone ==
  ASSUME LogInv, EngineInv, NEW k, IsReached(k), NEW lp \in LP, NEW i \in DOMAIN log[lp],
         i > k[lp]
  PROVE  log[lp][i].event \notin DoneUpTo(k)
  <1> SUFFICES ASSUME log[lp][i].event \in DoneUpTo(k) PROVE FALSE
    OBVIOUS
  <1>1. PICK m \in LP : \E j \in 2 .. k[m] : log[lp][i].event = log[m][j].event
    BY UpToIs
  <1>2. PICK j \in 2 .. k[m] : log[lp][i].event = log[m][j].event
    BY <1>1
  <1>3. /\ k[m] \in Nat /\ k[m] <= Len(log[m]) /\ Len(log[m]) \in Nat
        /\ k[lp] \in Nat /\ k[lp] >= 1 /\ DOMAIN log[lp] = 1 .. Len(log[lp])
        /\ Len(log[lp]) \in Nat
    BY ReachedFacts, LogFacts
  <1>4. j \in 2 .. Len(log[m]) /\ i \in 2 .. Len(log[lp])
    BY <1>3
  <1>5. log[lp][i].event.recv = lp /\ log[m][j].event.recv = m
    BY <1>4 DEF LogInv, LogInOrder
  <1>6. m = lp
    BY <1>2, <1>5
  <1>7. j < i /\ j \in DOMAIN log[lp]
    BY <1>3, <1>6
  <1>8. Before(log[lp][j].event, log[lp][i].event) /\ log[lp][i].event \in Event
    BY <1>7, LogFacts DEF LogInv, LogInOrder
  <1> QED
    BY <1>2, <1>6, <1>8, BeforeIsStrictOrder

(* What happens before a number of entries are consumed, waits.            *)
LEMMA ReadyIsBefore ==
  ASSUME ModelDelays, ModelIsCausal, EngineInv, LogInv, NEW k, IsReached(k),
         NEW lp \in LP, NEW i \in DOMAIN log[lp], i > k[lp], log[lp][i].event.ts < horizon
  PROVE  \E w \in Waiting(k) : w = log[lp][i].event \/ Before(w, log[lp][i].event)
  <1> DEFINE Ready(e) == \E w \in Waiting(k) : w = e \/ Before(w, e)
             Bad(x) == \E l \in LP : \E n \in DOMAIN log[l] :
                          /\ n > k[l] /\ log[l][n].event.ts = x /\ x < horizon
                          /\ ~ Ready(log[l][n].event)
             T == {x \in Nat : Bad(x)}
  <1>1. ASSUME T # {} PROVE FALSE
    <2>1. PICK x \in T : \A y \in T : x <= y
      BY <1>1, NatMinimum
    <2>2. x \in Nat /\ Bad(x)
      BY <2>1
    <2>3. PICK l \in LP : \E n \in DOMAIN log[l] :
                          /\ n > k[l] /\ log[l][n].event.ts = x /\ x < horizon
                          /\ ~ Ready(log[l][n].event)
      BY <2>2
    <2> HIDE DEF Ready
    <2>4. PICK n \in DOMAIN log[l] : /\ n > k[l] /\ log[l][n].event.ts = x /\ x < horizon
                                     /\ ~ Ready(log[l][n].event)
      BY <2>3
    <2>5. n \in 2 .. Len(log[l])
      BY <2>4, ReachedFacts, LogFacts
    <2>6. PICK s \in LP : \E j \in DOMAIN log[s] :
            /\ log[l][n].event \in SentAt(s, j)
            /\ j = 1 \/ log[s][j].event.ts < log[l][n].event.ts
      BY <2>4, <2>5, CauseIsLogged
    <2>7. PICK j \in DOMAIN log[s] :
            /\ log[l][n].event \in SentAt(s, j)
            /\ j = 1 \/ log[s][j].event.ts < log[l][n].event.ts
      BY <2>6
    <2>8. /\ k[s] \in Nat /\ k[s] >= 1 /\ DOMAIN log[s] = 1 .. Len(log[s]) /\ Len(log[s]) \in Nat
          /\ log[s][j].event \in Event /\ log[s][j].event.ts \in Nat
          /\ log[l][n].event \in Event /\ log[l][n].event.ts \in Nat
          /\ horizon \in Nat
      BY ReachedFacts, LogFacts, HorizonFacts
    <2>9. CASE j <= k[s]
      <3>1. j \in 1 .. k[s]
        BY <2>8, <2>9
      <3>2. log[l][n].event \in SentUpTo(k)
        BY <2>7, <3>1, UpToIs
      <3>3. log[l][n].event \notin DoneUpTo(k)
        BY <2>4, LaterIsNotDone
      <3> QED
        BY <2>4, <3>2, <3>3 DEF Waiting, Ready
    <2>10. CASE j > k[s]
      <3>1. log[s][j].event.ts < x /\ log[s][j].event.ts < horizon
        BY <2>2, <2>4, <2>7, <2>8, <2>10
      <3>2. log[s][j].event.ts \notin T
        <4>1. ~ (x <= log[s][j].event.ts)
          BY <2>2, <2>8, <3>1
        <4> HIDE DEF T
        <4> QED
          BY <2>1, <4>1
      <3>3. Ready(log[s][j].event)
        BY <2>8, <2>10, <3>1, <3>2
      <3>4. PICK w \in Waiting(k) : w = log[s][j].event \/ Before(w, log[s][j].event)
        BY <3>3 DEF Ready
      <3>5. Before(log[s][j].event, log[l][n].event)
        BY <2>4, <3>1 DEF Before
      <3>6. w \in Event
        BY <3>4, ReachedFacts DEF Waiting
      <3>7. Before(w, log[l][n].event)
        BY <2>8, <3>4, <3>5, <3>6, BeforeIsStrictOrder
      <3> QED
        BY <2>4, <3>7 DEF Ready
    <2> QED
      BY <2>8, <2>9, <2>10
  <1>2. log[lp][i].event.ts \in Nat
    BY LogFacts
  <1>3. Ready(log[lp][i].event)
    <2> SUFFICES ASSUME ~ Ready(log[lp][i].event) PROVE FALSE
      OBVIOUS
    <2> HIDE DEF Ready
    <2>1. Bad(log[lp][i].event.ts)
      OBVIOUS
    <2>2. log[lp][i].event.ts \in T
      BY <1>2, <2>1
    <2> HIDE DEF T
    <2> QED
      BY <1>1, <2>2
  <1> QED
    BY <1>3

(* The least event that waits is the next entry of its receiver.           *)
LEMMA LeastIsNext ==
  ASSUME ModelDelays, ModelIsCausal, EngineInv, LogInv, NEW k, IsReached(k),
         NEW e \in Waiting(k), e.ts < horizon,
         \A w \in Waiting(k) : w = e \/ Before(e, w)
  PROVE  /\ e.recv \in LP
         /\ k[e.recv] + 1 \in DOMAIN log[e.recv]
         /\ log[e.recv][k[e.recv] + 1].event = e
  <1>1. PICK r : r = e.recv
    OBVIOUS
  <1>2. /\ e \in SentUpTo(k) /\ e \notin DoneUpTo(k) /\ e \in Event /\ e.sender \in LP
        /\ e \in SentBy(e.sender) /\ r \in LP /\ e.ts \in Nat
    BY <1>1, ReachedFacts DEF Waiting
  <1>3. e \in Logged(r)
    BY <1>1, <1>2, SentByFacts
  <1>4. PICK i \in 2 .. Len(log[r]) : log[r][i].event = e
    BY <1>3 DEF Logged
  <1>5. /\ k[r] \in Nat /\ k[r] >= 1 /\ DOMAIN log[r] = 1 .. Len(log[r]) /\ Len(log[r]) \in Nat
        /\ horizon \in Nat
    BY <1>2, ReachedFacts, LogFacts, HorizonFacts
  <1>6. i > k[r]
    <2> SUFFICES ASSUME i \in 2 .. k[r] PROVE FALSE
      BY <1>5
    <2> QED
      BY <1>2, <1>4, UpToIs
  <1>7. ~ (i > k[r] + 1)
    <2> SUFFICES ASSUME i > k[r] + 1 PROVE FALSE
      OBVIOUS
    <2>1. PICK n : n = k[r] + 1
      OBVIOUS
    <2>2. n \in DOMAIN log[r] /\ n > k[r] /\ n < i /\ i \in DOMAIN log[r]
      BY <1>5, <2>1
    <2>3. Before(log[r][n].event, e) /\ log[r][n].event \in Event
      BY <1>2, <1>4, <2>2, LogFacts DEF LogInv, LogInOrder
    <2>4. log[r][n].event.ts \in Nat
      BY <2>3 DEF Event
    <2>5. log[r][n].event.ts < horizon
      BY <1>2, <1>5, <2>3, <2>4 DEF Before
    <2>6. PICK w \in Waiting(k) : w = log[r][n].event \/ Before(w, log[r][n].event)
      BY <1>2, <2>2, <2>5, ReadyIsBefore
    <2>7. w \in Event
      BY <2>6, ReachedFacts DEF Waiting
    <2>8. Before(w, e)
      BY <1>2, <2>3, <2>6, <2>7, BeforeIsStrictOrder
    <2> QED
      BY <1>2, <2>6, <2>7, <2>8, BeforeIsStrictOrder
  <1>8. i = k[r] + 1 /\ i \in DOMAIN log[r]
    BY <1>5, <1>6, <1>7
  <1> QED
    BY <1>1, <1>2, <1>4, <1>8

-----------------------------------------------------------------------------
(* The numbers of the events.                                              *)

(* Counting what is smaller counts up.                                     *)
LEMMA CountsUp ==
  ASSUME NEW n \in Nat, NEW S \in SUBSET (1 .. n)
  PROVE  /\ Cardinality(S) \in Nat
         /\ \A j \in S : /\ Cardinality({m \in S : m < j}) \in Nat
                         /\ Cardinality({m \in S : m < j}) < Cardinality(S)
         /\ \A i, j \in S : i < j =>
                Cardinality({m \in S : m < i}) < Cardinality({m \in S : m < j})
  <1>1. IsFiniteSet(S)
    <2>1. IsFiniteSet(1 .. n)
      BY FS_Interval
    <2> QED
      BY <2>1, FS_Subset
  <1>2. ASSUME NEW T \in SUBSET S
        PROVE  IsFiniteSet(T) /\ Cardinality(T) \in Nat
    BY <1>1, FS_Subset, FS_CardinalityType
  <1>3. ASSUME NEW T \in SUBSET S, NEW R \in SUBSET T, R # T
        PROVE  Cardinality(R) < Cardinality(T)
    <2>1. IsFiniteSet(T) /\ Cardinality(T) \in Nat /\ Cardinality(R) \in Nat
      BY <1>2
    <2>2. Cardinality(R) <= Cardinality(T) /\ Cardinality(R) # Cardinality(T)
      BY <1>3, <2>1, FS_Subset
    <2> QED
      BY <2>1, <2>2
  <1>4. ASSUME NEW j \in S
        PROVE  /\ Cardinality({m \in S : m < j}) \in Nat
               /\ Cardinality({m \in S : m < j}) < Cardinality(S)
    <2>1. PICK R : R = {m \in S : m < j}
      OBVIOUS
    <2>2. R \in SUBSET S /\ R # S
      BY <2>1
    <2> QED
      BY <1>2, <1>3, <2>1, <2>2
  <1>5. ASSUME NEW i \in S, NEW j \in S, i < j
        PROVE  Cardinality({m \in S : m < i}) < Cardinality({m \in S : m < j})
    <2>1. PICK R, T : R = {m \in S : m < i} /\ T = {m \in S : m < j}
      OBVIOUS
    <2>2. \A m \in S : m \in Nat
      OBVIOUS
    <2>3. T \in SUBSET S /\ i \in T
      BY <1>5, <2>1
    <2>4. R \in SUBSET T
      <3> SUFFICES ASSUME NEW m \in S, m < i PROVE m < j
        BY <2>1
      <3> QED
        BY <1>5, <2>2
    <2>5. i \notin R
      BY <2>1, <2>2
    <2>6. Cardinality(R) < Cardinality(T)
      BY <1>3, <2>3, <2>4, <2>5
    <2> QED
      BY <2>1, <2>6
  <1>6. Cardinality(S) \in Nat
    BY <1>2
  <1> QED
    BY <1>4, <1>5, <1>6

(* An event that the i-th entry sent, as the loop numbers it from g on.    *)
Place(lp, i, e) == CHOOSE j \in DOMAIN log[lp][i].sent : e = log[lp][i].sent[j]
Earlier(lp, i, j) == Cardinality({m \in InTime(LoggedSends(lp, i)) : m < j})
Renumbered(lp, i, e, g) == [e EXCEPT !.gen = g + Earlier(lp, i, Place(lp, i, e))]

LEMMA PlaceFacts ==
  ASSUME ModelIsCausal, EngineInv, LogInv, NEW lp \in LP, NEW i \in DOMAIN log[lp],
         NEW e \in SentAt(lp, i)
  PROVE  /\ SentFor(e, lp, i, Place(lp, i, e))
         /\ \A j \in DOMAIN log[lp][i].sent : e = log[lp][i].sent[j] => j = Place(lp, i, e)
         /\ \A f \in SentAt(lp, i) : e.gen < f.gen => Place(lp, i, e) < Place(lp, i, f)
  <1>1. \A f \in SentAt(lp, i) : /\ Place(lp, i, f) \in DOMAIN log[lp][i].sent
                                 /\ f = log[lp][i].sent[Place(lp, i, f)]
                                 /\ f # NoEvent /\ f \in Event /\ f.gen \in Nat
    <2> SUFFICES ASSUME NEW f \in SentAt(lp, i)
                 PROVE  /\ Place(lp, i, f) \in DOMAIN log[lp][i].sent
                        /\ f = log[lp][i].sent[Place(lp, i, f)]
                        /\ f # NoEvent /\ f \in Event /\ f.gen \in Nat
      OBVIOUS
    <2>1. PICK j \in DOMAIN log[lp][i].sent : f = log[lp][i].sent[j] /\ f # NoEvent
      BY SentByIs
    <2>2. f \in Event
      BY SentFacts
    <2> QED
      BY <2>1, <2>2 DEF Place, Event
  <1>2. DOMAIN log[lp][i].sent \subseteq Nat
    BY LogFacts
  <1>3. \A j, m \in DOMAIN log[lp][i].sent :
            /\ log[lp][i].sent[j] # NoEvent /\ log[lp][i].sent[m] # NoEvent
            /\ j < m
            => log[lp][i].sent[j].gen < log[lp][i].sent[m].gen
    BY DEF LogInv, SentInOrder
  <1>4. SentFor(e, lp, i, Place(lp, i, e))
    BY <1>1, SentForIs
  <1>5. ASSUME NEW j \in DOMAIN log[lp][i].sent, e = log[lp][i].sent[j]
        PROVE  j = Place(lp, i, e)
    <2>1. PICK m : m = Place(lp, i, e)
      OBVIOUS
    <2>2. m \in DOMAIN log[lp][i].sent /\ e = log[lp][i].sent[m] /\ e # NoEvent /\ e.gen \in Nat
      BY <1>1, <2>1
    <2>3. ~ (e.gen < e.gen)
      BY <2>2
    <2>4. ~ (j < m)
      BY <1>3, <1>5, <2>2, <2>3
    <2>5. ~ (m < j)
      BY <1>3, <1>5, <2>2, <2>3
    <2>6. j \in Nat /\ m \in Nat
      BY <1>2, <2>2
    <2> QED
      BY <2>1, <2>4, <2>5, <2>6
  <1>6. ASSUME NEW f \in SentAt(lp, i), e.gen < f.gen
        PROVE  Place(lp, i, e) < Place(lp, i, f)
    <2>1. PICK m, n : m = Place(lp, i, e) /\ n = Place(lp, i, f)
      OBVIOUS
    <2>2. /\ m \in DOMAIN log[lp][i].sent /\ e = log[lp][i].sent[m] /\ e # NoEvent /\ e.gen \in Nat
          /\ n \in DOMAIN log[lp][i].sent /\ f = log[lp][i].sent[n] /\ f # NoEvent /\ f.gen \in Nat
      BY <1>1, <2>1
    <2>3. m \in Nat /\ n \in Nat
      BY <1>2, <2>2
    <2>4. ~ (n < m) /\ n # m
      BY <1>3, <1>6, <2>2
    <2> QED
      BY <2>1, <2>3, <2>4
  <1> QED
    BY <1>4, <1>5, <1>6

LEMMA RenumberedFacts ==
  ASSUME ModelIsCausal, EngineInv, LogInv, NEW lp \in LP, NEW i \in DOMAIN log[lp], NEW g \in Nat
  PROVE  LET n == Cardinality(InTime(LoggedSends(lp, i)))
         IN  /\ n \in Nat
             /\ \A e \in SentAt(lp, i) :
                    LET f == Renumbered(lp, i, e, g)
                    IN  /\ f \in Event /\ SameButGen(e, f)
                        /\ g <= f.gen /\ f.gen < g + n
             /\ \A e, f \in SentAt(lp, i) :
                    e.gen < f.gen => Renumbered(lp, i, e, g).gen < Renumbered(lp, i, f, g).gen
  <1>1. PICK S, q : S = InTime(LoggedSends(lp, i)) /\ q = LoggedSends(lp, i)
    OBVIOUS
  <1>2. S \in SUBSET (1 .. Len(q)) /\ Len(q) \in Nat
    BY <1>1, LoggedSendsFacts
  <1>3. /\ Cardinality(S) \in Nat
        /\ \A j \in S : Earlier(lp, i, j) \in Nat /\ Earlier(lp, i, j) < Cardinality(S)
        /\ \A j, m \in S : j < m => Earlier(lp, i, j) < Earlier(lp, i, m)
    BY <1>1, <1>2, CountsUp DEF Earlier
  <1>4. \A e \in SentAt(lp, i) : Place(lp, i, e) \in S
    BY <1>1, PlaceFacts DEF SentFor
  <1>5. \A e \in SentAt(lp, i) : e \in Event
    BY SentFacts
  <1>6. ASSUME NEW e \in SentAt(lp, i)
        PROVE  /\ Renumbered(lp, i, e, g) \in Event /\ SameButGen(e, Renumbered(lp, i, e, g))
               /\ Renumbered(lp, i, e, g).gen = g + Earlier(lp, i, Place(lp, i, e))
               /\ Earlier(lp, i, Place(lp, i, e)) \in Nat
               /\ Earlier(lp, i, Place(lp, i, e)) < Cardinality(S)
    <2>1. PICK m : m = Earlier(lp, i, Place(lp, i, e))
      OBVIOUS
    <2>2. m \in Nat /\ m < Cardinality(S) /\ g + m \in Nat
      BY <1>3, <1>4, <2>1
    <2>3. PICK x : x = g + m
      OBVIOUS
    <2>4. Renumbered(lp, i, e, g) = [e EXCEPT !.gen = x] /\ x \in Nat /\ e \in Event
      BY <1>5, <2>1, <2>2, <2>3 DEF Renumbered
    <2>5. PICK f : f = Renumbered(lp, i, e, g)
      OBVIOUS
    <2>6. f \in Event /\ SameButGen(e, f) /\ f.gen = x
      BY <2>4, <2>5 DEF Event, SameButGen
    <2> QED
      BY <2>1, <2>2, <2>3, <2>5, <2>6
  <1>7. ASSUME NEW e \in SentAt(lp, i), NEW f \in SentAt(lp, i), e.gen < f.gen
        PROVE  Renumbered(lp, i, e, g).gen < Renumbered(lp, i, f, g).gen
    <2>1. Place(lp, i, e) < Place(lp, i, f)
      BY <1>7, PlaceFacts
    <2>2. PICK m, n : m = Earlier(lp, i, Place(lp, i, e)) /\ n = Earlier(lp, i, Place(lp, i, f))
      OBVIOUS
    <2>3. m < n
      BY <1>3, <1>4, <2>1, <2>2
    <2>4. m \in Nat /\ n \in Nat /\ Renumbered(lp, i, e, g).gen = g + m
          /\ Renumbered(lp, i, f, g).gen = g + n
      BY <1>6, <2>2
    <2> QED
      BY <2>3, <2>4
  <1>8. ASSUME NEW e \in SentAt(lp, i)
        PROVE  /\ g <= Renumbered(lp, i, e, g).gen
               /\ Renumbered(lp, i, e, g).gen < g + Cardinality(S)
    <2>1. PICK m : m = Earlier(lp, i, Place(lp, i, e))
      OBVIOUS
    <2> QED
      BY <1>3, <1>6, <2>1
  <1> QED
    BY <1>1, <1>3, <1>6, <1>7, <1>8

(* What the loop creates of the sends of an entry before the GVT are the   *)
(* events the engine sent, renumbered.                                     *)
LEMMA RenumberedAre ==
  ASSUME ModelIsCausal, EngineInv, LogInv, Started, NEW lp \in LP, NEW i \in DOMAIN log[lp],
         i = 1 \/ log[lp][i].event.ts < horizon, NEW g \in Nat
  PROVE  Sequential!NewEvents(lp, LoggedSends(lp, i), log[lp][i].event.ts, g)
         = {Renumbered(lp, i, e, g) : e \in SentAt(lp, i)}
  <1> DEFINE made(j) == NewEvent(lp, LoggedSends(lp, i)[j], log[lp][i].event.ts,
                                 g + Earlier(lp, i, j))
  <1>1. NumberedFrom(lp, LoggedSends(lp, i), log[lp][i].event.ts, g)
        = {made(j) : j \in InTime(LoggedSends(lp, i))}
    <2>1. PICK q, time : q = LoggedSends(lp, i) /\ time = log[lp][i].event.ts
      OBVIOUS
    <2>2. \A j : made(j) = NewEvent(lp, q[j], time, g + Cardinality({m \in InTime(q) : m < j}))
      BY <2>1 DEF Earlier
    <2> HIDE DEF made
    <2>3. NumberedFrom(lp, q, time, g)
          = {NewEvent(lp, q[j], time, g + Cardinality({m \in InTime(q) : m < j})) : j \in InTime(q)}
      BY DEF NumberedFrom
    <2>4. NumberedFrom(lp, q, time, g) = {made(j) : j \in InTime(q)}
      BY <2>2, <2>3
    <2> QED
      BY <2>1, <2>4
  <1>2. ASSUME NEW e \in SentAt(lp, i)
        PROVE  Renumbered(lp, i, e, g) = made(Place(lp, i, e))
    <2>1. PICK j : j = Place(lp, i, e)
      OBVIOUS
    <2>2. SentFor(e, lp, i, j)
      BY <2>1, PlaceFacts
    <2>3. PICK send, x, time : /\ send = LoggedSends(lp, i)[j] /\ x = g + Earlier(lp, i, j)
                               /\ time = log[lp][i].event.ts
      OBVIOUS
    <2>4. /\ e \in Event /\ e.ts = send.ts /\ e.recv = send.recv /\ e.sender = lp
          /\ e.send = time /\ e.type = POSITIVE
      BY <2>2, <2>3 DEF SentFor
    <2>5. [e EXCEPT !.gen = x] = NewEvent(lp, send, time, x)
      BY <2>4 DEF NewEvent, Event
    <2> QED
      BY <2>1, <2>3, <2>5 DEF Renumbered
  <1>3. ASSUME NEW j \in InTime(LoggedSends(lp, i))
        PROVE  \E e \in SentAt(lp, i) : j = Place(lp, i, e)
    <2>1. PICK e : e = log[lp][i].sent[j]
      OBVIOUS
    <2>2. e \in SentAt(lp, i) /\ j \in DOMAIN log[lp][i].sent
      BY <2>1, EntryHasSent
    <2> QED
      BY <2>1, <2>2, PlaceFacts
  <1>4. ASSUME NEW e \in SentAt(lp, i)
        PROVE  Place(lp, i, e) \in InTime(LoggedSends(lp, i))
    BY PlaceFacts DEF SentFor
  <1> HIDE DEF made
  <1> QED
    BY <1>1, <1>2, <1>3, <1>4, NewEventsAre

-----------------------------------------------------------------------------
(* The next event of the loop.                                             *)

LEMMA LeastExists ==
  ASSUME NEW S \in SUBSET Event, S # {}
  PROVE  \E e \in S : \A f \in S : BeforeOrSame(e, f)
  <1>0. \A e \in S : e.ts \in Nat /\ e.send \in Nat /\ e.sender \in Nat /\ e.gen \in Nat
    BY DEF Event
  <1>1. PICK a \in {e.ts : e \in S} : \A b \in {e.ts : e \in S} : a <= b
    <2>1. {e.ts : e \in S} \in SUBSET Nat /\ {e.ts : e \in S} # {}
      BY <1>0
    <2> QED
      BY <2>1, NatMinimum
  <1>2. PICK R : R = {e \in S : e.ts = a}
    OBVIOUS
  <1>3. PICK b \in {e.send : e \in R} : \A x \in {e.send : e \in R} : b <= x
    <2>1. {e.send : e \in R} \in SUBSET Nat /\ {e.send : e \in R} # {}
      BY <1>0, <1>1, <1>2
    <2> QED
      BY <2>1, NatMinimum
  <1>4. PICK Q : Q = {e \in R : e.send = b}
    OBVIOUS
  <1>5. PICK c \in {e.sender : e \in Q} : \A x \in {e.sender : e \in Q} : c <= x
    <2>1. {e.sender : e \in Q} \in SUBSET Nat /\ {e.sender : e \in Q} # {}
      BY <1>0, <1>2, <1>3, <1>4
    <2> QED
      BY <2>1, NatMinimum
  <1>6. PICK P : P = {e \in Q : e.sender = c}
    OBVIOUS
  <1>7. PICK d \in {e.gen : e \in P} : \A x \in {e.gen : e \in P} : d <= x
    <2>1. {e.gen : e \in P} \in SUBSET Nat /\ {e.gen : e \in P} # {}
      BY <1>0, <1>2, <1>4, <1>5, <1>6
    <2> QED
      BY <2>1, NatMinimum
  <1>8. PICK e \in P : e.gen = d
    BY <1>7
  <1>9. e \in S /\ e.ts = a /\ e.send = b /\ e.sender = c /\ e.gen = d
    BY <1>2, <1>4, <1>6, <1>8
  <1>10. ASSUME NEW f \in S
         PROVE  BeforeOrSame(e, f)
    <2>1. a <= f.ts /\ a \in Nat /\ b \in Nat /\ c \in Nat /\ d \in Nat
          /\ f.ts \in Nat /\ f.send \in Nat /\ f.sender \in Nat /\ f.gen \in Nat
      BY <1>0, <1>1, <1>9
    <2>2. CASE a < f.ts
      BY <1>9, <2>2 DEF BeforeOrSame, Before
    <2>3. CASE f.ts = a /\ b < f.send
      BY <1>9, <2>3 DEF BeforeOrSame, Before
    <2>4. CASE f.ts = a /\ f.send = b /\ c < f.sender
      BY <1>9, <2>4 DEF BeforeOrSame, Before
    <2>5. CASE f.ts = a /\ f.send = b /\ f.sender = c
      <3>1. f \in P
        BY <1>2, <1>4, <1>6, <2>5
      <3>2. d <= f.gen
        BY <1>7, <3>1
      <3> QED
        BY <1>9, <2>1, <2>5, <3>2 DEF BeforeOrSame, Before, SameEvent
    <2>6. f.ts = a => b <= f.send
      BY <1>2, <1>3
    <2>7. f.ts = a /\ f.send = b => c <= f.sender
      BY <1>2, <1>4, <1>5
    <2> QED
      BY <2>1, <2>2, <2>3, <2>4, <2>5, <2>6, <2>7
  <1> QED
    BY <1>9, <1>10

LEMMA PopFacts ==
  ASSUME NEW S \in SUBSET Event, S # {}
  PROVE  /\ Sequential!LtsfPop(S) \in S
         /\ \A f \in S : BeforeOrSame(Sequential!LtsfPop(S), f)
  <1>1. \E e \in S : \A f \in S : Sequential!BeforeOrSame(e, f)
    BY LeastExists, SequentialIs
  <1>2. /\ Sequential!LtsfPop(S) \in S
        /\ \A f \in S : Sequential!BeforeOrSame(Sequential!LtsfPop(S), f)
    BY <1>1 DEF Sequential!LtsfPop
  <1> QED
    BY <1>2, SequentialIs

(* Sender and number tell the events apart that were sent.                 *)
LEMMA SentAreIdentified ==
  ASSUME LogInv, EngineInv, NEW k, IsReached(k), NEW e \in SentUpTo(k), NEW f \in SentUpTo(k),
         e.sender = f.sender, e.gen = f.gen
  PROVE  e = f
  <1>1. /\ e \in Message /\ f \in Message /\ e.sender \in LP /\ f.sender \in LP
        /\ e \in SentBy(e.sender) /\ f \in SentBy(f.sender)
    BY ReachedFacts
  <1>2. e \in Known /\ f \in Known
    BY <1>1, SentByFacts
  <1>3. PositiveEvent(e) = PositiveEvent(f)
    BY <1>2 DEF EngineInv, KnownIsIdentified
  <1> QED
    BY <1>1, <1>3, MessageFacts

(* Renumbering the events keeps their order.                               *)
LEMMA ImagesAreOrdered ==
  ASSUME LogInv, EngineInv, NEW c, NEW k, NEW image, IsReached(k), Follows(c, k, image),
         NEW e \in SentUpTo(k), NEW f \in SentUpTo(k), BeforeOrSame(image[e], image[f])
  PROVE  e = f \/ Before(e, f)
  <1>1. PICK x, y : x = image[e] /\ y = image[f]
    OBVIOUS
  <1>2. /\ x \in Event /\ SameButGen(e, x) /\ y \in Event /\ SameButGen(f, y)
        /\ e.sender = f.sender /\ e.gen < f.gen => x.gen < y.gen
        /\ f.sender = e.sender /\ f.gen < e.gen => y.gen < x.gen
    BY <1>1 DEF Follows
  <1>3. e \in Event /\ f \in Event /\ e.gen \in Nat /\ f.gen \in Nat
    BY ReachedFacts
  <1>4. x.gen \in Nat /\ y.gen \in Nat
    BY <1>2 DEF Event
  <1>5. CASE Before(x, y)
    <2>1. CASE x.sender = y.sender /\ x.gen < y.gen /\ x.ts = y.ts /\ x.send = y.send
      <3>1. e.sender = f.sender /\ e.ts = f.ts /\ e.send = f.send
        BY <1>2, <2>1 DEF SameButGen
      <3>2. ~ (y.gen < x.gen)
        BY <1>4, <2>1
      <3>3. ~ (f.gen < e.gen)
        BY <1>2, <3>1, <3>2
      <3>4. e.gen = f.gen \/ e.gen < f.gen
        BY <1>3, <3>3
      <3> QED
        BY <3>1, <3>4, SentAreIdentified DEF Before
    <2>2. CASE ~ (x.sender = y.sender /\ x.gen < y.gen /\ x.ts = y.ts /\ x.send = y.send)
      BY <1>2, <1>5, <2>2 DEF SameButGen, Before
    <2> QED
      BY <2>1, <2>2
  <1>6. CASE SameEvent(x, y)
    <2>1. e.sender = f.sender /\ x.gen = y.gen
      BY <1>2, <1>6 DEF SameEvent, SameButGen
    <2>2. ~ (x.gen < y.gen) /\ ~ (y.gen < x.gen)
      BY <1>4, <2>1
    <2>3. ~ (e.gen < f.gen) /\ ~ (f.gen < e.gen)
      BY <1>2, <2>1, <2>2
    <2>4. e.gen = f.gen
      BY <1>3, <2>3
    <2> QED
      BY <2>1, <2>4, SentAreIdentified
  <1> QED
    BY <1>1, <1>5, <1>6 DEF BeforeOrSame

(* What the loop takes next is the least event that waits.                 *)
LEMMA PopIsLeast ==
  ASSUME LogInv, EngineInv, NEW c, NEW k, NEW image, IsReached(k), Follows(c, k, image),
         c.events # {}
  PROVE  \E e \in Waiting(k) : /\ Sequential!LtsfPop(c.events) = image[e]
                               /\ \A w \in Waiting(k) : w = e \/ Before(e, w)
  <1>1. c.events = {image[e] : e \in Waiting(k)} /\ Waiting(k) \subseteq SentUpTo(k)
    BY DEF Follows, Waiting
  <1>2. c.events \in SUBSET Event
    BY <1>1 DEF Follows
  <1>3. PICK x : x = Sequential!LtsfPop(c.events)
    OBVIOUS
  <1>4. x \in c.events /\ \A f \in c.events : BeforeOrSame(x, f)
    BY <1>2, <1>3, PopFacts
  <1>5. PICK e \in Waiting(k) : x = image[e]
    BY <1>1, <1>4
  <1>6. ASSUME NEW w \in Waiting(k)
        PROVE  w = e \/ Before(e, w)
    <2>1. BeforeOrSame(image[e], image[w])
      BY <1>1, <1>4, <1>5
    <2>2. e \in SentUpTo(k) /\ w \in SentUpTo(k)
      BY <1>1
    <2> QED
      BY <2>1, <2>2, ImagesAreOrdered
  <1> QED
    BY <1>3, <1>5, <1>6

-----------------------------------------------------------------------------
(* The loop follows the log.                                               *)

(* One entry more.                                                         *)
ReachesNext(k, r, n, k2) ==
    /\ IsReached(k2) /\ k2[r] = n /\ \A lp \in LP : lp # r => k2[lp] = k[lp]
    /\ SentUpTo(k2) = SentUpTo(k) \cup SentAt(r, n)
    /\ DoneUpTo(k2) = DoneUpTo(k) \cup {log[r][n].event}
    /\ \A f \in SentUpTo(k), h \in SentAt(r, n) : f.sender = h.sender => f.gen < h.gen

LEMMA OneEntryMore ==
  ASSUME LogInv, EngineInv, NEW k, IsReached(k), NEW r \in LP, NEW n, n = k[r] + 1,
         n \in DOMAIN log[r], NEW k2, k2 = [k EXCEPT ![r] = n]
  PROVE  ReachesNext(k, r, n, k2)
  <1>1. k \in [LP -> Nat] /\ k[r] \in Nat /\ k[r] >= 1 /\ n \in Nat /\ n >= 2
    BY ReachedFacts DEF IsReached
  <1>2. /\ k2 \in [LP -> Nat] /\ k2[r] = n /\ \A lp \in LP : lp # r => k2[lp] = k[lp]
    BY <1>1
  <1>3. IsReached(k2)
    BY <1>2 DEF IsReached
  <1>4. \A i : i \in 1 .. n <=> i \in 1 .. k[r] \/ i = n
    BY <1>1
  <1>5. \A i : i \in 2 .. n <=> i \in 2 .. k[r] \/ i = n
    BY <1>1
  <1>6. ASSUME NEW f
        PROVE  f \in SentUpTo(k2) <=> f \in SentUpTo(k) \/ f \in SentAt(r, n)
    <2>1. f \in SentUpTo(k2) <=> \E lp \in LP : \E i \in 1 .. k2[lp] : f \in SentAt(lp, i)
      BY UpToIs
    <2>2. f \in SentUpTo(k) <=> \E lp \in LP : \E i \in 1 .. k[lp] : f \in SentAt(lp, i)
      BY UpToIs
    <2>3. ASSUME f \in SentUpTo(k2) PROVE f \in SentUpTo(k) \/ f \in SentAt(r, n)
      <3>1. PICK lp \in LP : \E i \in 1 .. k2[lp] : f \in SentAt(lp, i)
        BY <2>1, <2>3
      <3>2. PICK i \in 1 .. k2[lp] : f \in SentAt(lp, i)
        BY <3>1
      <3>3. (lp = r /\ i = n) \/ i \in 1 .. k[lp]
        BY <1>2, <1>4
      <3> QED
        BY <2>2, <3>2, <3>3
    <2>4. ASSUME f \in SentUpTo(k) PROVE f \in SentUpTo(k2)
      <3>1. PICK lp \in LP : \E i \in 1 .. k[lp] : f \in SentAt(lp, i)
        BY <2>2, <2>4
      <3>2. PICK i \in 1 .. k[lp] : f \in SentAt(lp, i)
        BY <3>1
      <3>3. i \in 1 .. k2[lp]
        BY <1>2, <1>4
      <3> QED
        BY <2>1, <3>2, <3>3
    <2>5. ASSUME f \in SentAt(r, n) PROVE f \in SentUpTo(k2)
      <3>1. n \in 1 .. k2[r]
        BY <1>2, <1>4
      <3> QED
        BY <2>1, <2>5, <3>1
    <2> QED
      BY <2>3, <2>4, <2>5
  <1>7. ASSUME NEW f
        PROVE  f \in DoneUpTo(k2) <=> f \in DoneUpTo(k) \/ f = log[r][n].event
    <2>1. f \in DoneUpTo(k2) <=> \E lp \in LP : \E i \in 2 .. k2[lp] : f = log[lp][i].event
      BY DEF DoneUpTo
    <2>2. f \in DoneUpTo(k) <=> \E lp \in LP : \E i \in 2 .. k[lp] : f = log[lp][i].event
      BY DEF DoneUpTo
    <2>3. ASSUME f \in DoneUpTo(k2) PROVE f \in DoneUpTo(k) \/ f = log[r][n].event
      <3>1. PICK lp \in LP : \E i \in 2 .. k2[lp] : f = log[lp][i].event
        BY <2>1, <2>3
      <3>2. PICK i \in 2 .. k2[lp] : f = log[lp][i].event
        BY <3>1
      <3>3. (lp = r /\ i = n) \/ i \in 2 .. k[lp]
        BY <1>2, <1>5
      <3> QED
        BY <2>2, <3>2, <3>3
    <2>4. ASSUME f \in DoneUpTo(k) PROVE f \in DoneUpTo(k2)
      <3>1. PICK lp \in LP : \E i \in 2 .. k[lp] : f = log[lp][i].event
        BY <2>2, <2>4
      <3>2. PICK i \in 2 .. k[lp] : f = log[lp][i].event
        BY <3>1
      <3>3. i \in 2 .. k2[lp]
        BY <1>2, <1>5
      <3> QED
        BY <2>1, <3>2, <3>3
    <2>5. ASSUME f = log[r][n].event PROVE f \in DoneUpTo(k2)
      <3>1. n \in 2 .. k2[r]
        BY <1>2, <1>5
      <3> QED
        BY <2>1, <2>5, <3>1
    <2> QED
      BY <2>3, <2>4, <2>5
  <1>8. ASSUME NEW f \in SentUpTo(k), NEW h \in SentAt(r, n), f.sender = h.sender
        PROVE  f.gen < h.gen
    <2>1. h.sender = r
      BY SentFacts
    <2>2. \E i \in 1 .. k[r] : f \in SentAt(r, i)
      BY <1>8, <2>1, ReachedFacts
    <2>3. PICK i \in 1 .. k[r] : f \in SentAt(r, i)
      BY <2>2
    <2>4. i < n /\ i \in DOMAIN log[r]
      BY <1>1, ReachedFacts
    <2> QED
      BY <2>3, <2>4, SentAreOrdered
  <1> QED
    BY <1>2, <1>3, <1>6, <1>7, <1>8 DEF ReachesNext

(* What the loop does with the event of the next entry.                    *)
ConsumesEntry(c, x, r, n) ==
    /\ OneMore(c).events = (c.events \ {x})
                           \cup {Renumbered(r, n, f, c.generation[r]) : f \in SentAt(r, n)}
    /\ OneMore(c).state = [c.state EXCEPT ![r] = Append(@, Trace(log[r][n].event))]
    /\ OneMore(c).generation =
           [c.generation EXCEPT ![r] = @ + Cardinality(InTime(LoggedSends(r, n)))]

LEMMA LoopConsumes ==
  ASSUME ModelIsCausal, GenerationIsHidden, EngineInv, LogInv, Started,
         NEW c, c.events # {}, NEW r \in LP, NEW n \in DOMAIN log[r], n # 1,
         log[r][n].event.ts < horizon,
         NEW x \in Event, x = Sequential!LtsfPop(c.events), SameButGen(log[r][n].event, x),
         c.state[r] = StateAfter(r, n - 1), c.generation[r] \in Nat
  PROVE  ConsumesEntry(c, x, r, n)
  <1>1. PICK e : e = log[r][n].event
    OBVIOUS
  <1>2. /\ e \in Event /\ n \in 2 .. Len(log[r])
    BY <1>1, LogFacts
  <1>3. /\ e.recv = r /\ x.recv = r /\ x.ts = e.ts /\ Trace(x) = Trace(e)
    BY <1>1, <1>2 DEF LogInv, LogInOrder, SameButGen, Trace
  <1>4. Sends(r, c.state[r], x) = LoggedSends(r, n)
    <2>1. Sends(r, c.state[r], x) = Sends(r, c.state[r], e)
      BY <1>1, <1>2 DEF GenerationIsHidden
    <2> QED
      BY <1>1, <2>1 DEF LoggedSends
  <1>5. PICK sends, g : sends = LoggedSends(r, n) /\ g = c.generation[r]
    OBVIOUS
  <1>6. OneMore(c) = Sequential!ProcessNext(c)
    BY DEF OneMore
  <1>7. Sequential!ProcessNext(c) =
          [events     |-> (c.events \ {x}) \cup Sequential!NewEvents(r, sends, e.ts, g),
           state      |-> [c.state EXCEPT ![r] = Sequential!NextState(c.state[r], x)],
           generation |-> [c.generation EXCEPT ![r] = g + Sequential!Cardinality(Sequential!InTime(sends))]]
    BY <1>3, <1>4, <1>5 DEF Sequential!ProcessNext
  <1>8. Sequential!NewEvents(r, sends, e.ts, g) = {Renumbered(r, n, f, g) : f \in SentAt(r, n)}
    <2>1. g \in Nat
      BY <1>5
    <2>2. Sequential!NewEvents(r, LoggedSends(r, n), log[r][n].event.ts, g)
          = {Renumbered(r, n, f, g) : f \in SentAt(r, n)}
      BY <2>1, RenumberedAre
    <2> QED
      BY <1>1, <1>5, <2>2
  <1>9. Sequential!NextState(c.state[r], x) = Append(c.state[r], Trace(e))
    BY <1>3, SequentialIs DEF NextState
  <1>10. Sequential!Cardinality(Sequential!InTime(sends)) = Cardinality(InTime(sends))
    BY SequentialIs
  <1>11. /\ OneMore(c).events = (c.events \ {x}) \cup {Renumbered(r, n, f, g) : f \in SentAt(r, n)}
         /\ OneMore(c).state = [c.state EXCEPT ![r] = Append(c.state[r], Trace(e))]
         /\ OneMore(c).generation = [c.generation EXCEPT ![r] = g + Cardinality(InTime(sends))]
    <2>1. PICK ev, st, gen :
             /\ ev = (c.events \ {x}) \cup Sequential!NewEvents(r, sends, e.ts, g)
             /\ st = [c.state EXCEPT ![r] = Sequential!NextState(c.state[r], x)]
             /\ gen = [c.generation EXCEPT
                          ![r] = g + Sequential!Cardinality(Sequential!InTime(sends))]
      OBVIOUS
    <2>2. OneMore(c) = [events |-> ev, state |-> st, generation |-> gen]
      BY <1>6, <1>7, <2>1
    <2>3. OneMore(c).events = ev /\ OneMore(c).state = st /\ OneMore(c).generation = gen
      BY <2>2
    <2>4. ev = (c.events \ {x}) \cup {Renumbered(r, n, f, g) : f \in SentAt(r, n)}
      BY <1>8, <2>1
    <2>5. st = [c.state EXCEPT ![r] = Append(c.state[r], Trace(e))]
      BY <1>9, <2>1
    <2>6. gen = [c.generation EXCEPT ![r] = g + Cardinality(InTime(sends))]
      BY <1>10, <2>1
    <2> QED
      BY <2>3, <2>4, <2>5, <2>6
  <1> QED
    BY <1>1, <1>5, <1>11 DEF ConsumesEntry

(* The state after one more entry.                                         *)
LEMMA StateAfterNext ==
  ASSUME LogInv, NEW lp \in LP, NEW n \in DOMAIN log[lp], n # 1
  PROVE  StateAfter(lp, n) = Append(StateAfter(lp, n - 1), Trace(log[lp][n].event))
  <1>1. /\ n - 1 \in DOMAIN log[lp] /\ n \in Nat /\ n >= 2 /\ n - 1 \in Nat /\ (n - 1) + 1 = n
    BY LogFacts
  <1>2. PICK s, p, x : s = StateAfter(lp, n) /\ p = StateAfter(lp, n - 1)
                       /\ x = Trace(log[lp][n].event)
    OBVIOUS
  <1>3. /\ s \in Seq(TraceOf) /\ Len(s) = n - 1
        /\ \A j \in 1 .. n - 1 : s[j] = Trace(log[lp][j + 1].event)
    BY <1>2, StateAfterFacts
  <1>4. /\ p \in Seq(TraceOf) /\ Len(p) = (n - 1) - 1
        /\ \A j \in 1 .. (n - 1) - 1 : p[j] = Trace(log[lp][j + 1].event)
    BY <1>1, <1>2, StateAfterFacts
  <1>5. x \in TraceOf
    BY <1>2, LogFacts, TraceType
  <1>6. PICK q : q = Append(p, x)
    OBVIOUS
  <1>7. /\ q \in Seq(TraceOf) /\ Len(q) = Len(p) + 1
        /\ \A j \in 1 .. Len(p) : q[j] = p[j]
        /\ q[Len(p) + 1] = x
    BY <1>4, <1>5, <1>6, AppendFacts
  <1>8. Len(q) = n - 1 /\ Len(p) + 1 = n - 1
    BY <1>1, <1>4, <1>7
  <1>9. \A j \in 1 .. n - 1 : s[j] = q[j]
    <2> SUFFICES ASSUME NEW j \in 1 .. n - 1 PROVE s[j] = q[j]
      OBVIOUS
    <2>1. CASE j = n - 1
      BY <1>1, <1>2, <1>3, <1>7, <1>8, <2>1
    <2>2. CASE j # n - 1
      <3>1. j \in 1 .. (n - 1) - 1 /\ j \in 1 .. Len(p)
        BY <1>1, <1>4, <2>2
      <3> QED
        BY <1>3, <1>4, <1>7, <3>1
    <2> QED
      BY <2>1, <2>2
  <1>10. s = q
    BY <1>1, <1>3, <1>7, <1>8, <1>9, SequencesAgree
  <1> QED
    BY <1>2, <1>6, <1>10

LEMMA FollowsOn ==
  ASSUME ModelIsCausal, ModelDelays, GenerationIsHidden, EngineInv, LogInv, Started,
         NEW c, NEW k, NEW image, Follows(c, k, image), c.events # {},
         NEW e \in Waiting(k), Sequential!LtsfPop(c.events) = image[e],
         \A w \in Waiting(k) : w = e \/ Before(e, w), e.ts < horizon
  PROVE  \E k2, image2 : Follows(OneMore(c), k2, image2)
  <1>1. IsReached(k)
    BY DEF Follows, IsReached
  <1>2. PICK r, n, x, g : r = e.recv /\ n = k[r] + 1 /\ x = image[e] /\ g = c.generation[r]
    OBVIOUS
  <1>3. /\ r \in LP /\ n \in DOMAIN log[r] /\ log[r][n].event = e
    BY <1>1, <1>2, LeastIsNext
  <1>4. /\ k \in [LP -> Nat] /\ k[r] \in Nat /\ k[r] >= 1 /\ n \in Nat /\ n >= 2 /\ n - 1 = k[r]
        /\ n # 1
    BY <1>1, <1>2, <1>3, ReachedFacts DEF IsReached
  <1>5. e \in SentUpTo(k) /\ e \notin DoneUpTo(k) /\ e \in Event
    BY <1>1, ReachedFacts DEF Waiting
  <1>6. x \in Event /\ SameButGen(e, x) /\ g \in Nat
    BY <1>2, <1>3, <1>5 DEF Follows
  <1>7. c.state[r] = StateAfter(r, n - 1)
    BY <1>3, <1>4 DEF Follows
  <1>8. PICK d : d = OneMore(c)
    OBVIOUS
  <1>9. PICK m : m = Cardinality(InTime(LoggedSends(r, n)))
    OBVIOUS
  <1>10. /\ d.events = (c.events \ {x}) \cup {Renumbered(r, n, f, g) : f \in SentAt(r, n)}
         /\ d.state = [c.state EXCEPT ![r] = Append(@, Trace(e))]
         /\ d.generation = [c.generation EXCEPT ![r] = @ + m]
    <2>1. x = Sequential!LtsfPop(c.events) /\ SameButGen(log[r][n].event, x)
      BY <1>2, <1>3, <1>6
    <2>2. log[r][n].event.ts < horizon /\ c.generation[r] \in Nat
      BY <1>2, <1>3, <1>6
    <2>3. ConsumesEntry(c, x, r, n)
      BY <1>3, <1>4, <1>6, <1>7, <2>1, <2>2, LoopConsumes
    <2> QED
      BY <1>2, <1>3, <1>8, <1>9, <2>3 DEF ConsumesEntry
  <1>11. PICK k2 : k2 = [k EXCEPT ![r] = n]
    OBVIOUS
  <1>12. /\ IsReached(k2) /\ k2[r] = n /\ \A lp \in LP : lp # r => k2[lp] = k[lp]
         /\ SentUpTo(k2) = SentUpTo(k) \cup SentAt(r, n)
         /\ DoneUpTo(k2) = DoneUpTo(k) \cup {e}
         /\ \A f \in SentUpTo(k), h \in SentAt(r, n) : f.sender = h.sender => f.gen < h.gen
    <2>1. ReachesNext(k, r, n, k2)
      BY <1>1, <1>2, <1>3, <1>11, OneEntryMore
    <2> QED
      BY <1>3, <2>1 DEF ReachesNext
  <1>13. PICK made : made = [f \in SentAt(r, n) |-> Renumbered(r, n, f, g)]
    OBVIOUS
  <1>14. /\ m \in Nat
         /\ \A f \in SentAt(r, n) : /\ made[f] \in Event /\ SameButGen(f, made[f])
                                    /\ g <= made[f].gen /\ made[f].gen < g + m
         /\ \A f, h \in SentAt(r, n) : f.gen < h.gen => made[f].gen < made[h].gen
    BY <1>3, <1>6, <1>9, <1>13, RenumberedFacts
  <1>15. d.events = (c.events \ {x}) \cup {made[f] : f \in SentAt(r, n)}
    BY <1>10, <1>13
  <1>16. PICK image2 : image2 = [f \in SentUpTo(k2) |-> IF f \in SentUpTo(k) THEN image[f] ELSE made[f]]
    OBVIOUS
  <1>17. \A f \in SentAt(r, n) : /\ f \notin SentUpTo(k) /\ f.sender = r /\ f \in Event /\ f.gen \in Nat
    <2> SUFFICES ASSUME NEW f \in SentAt(r, n)
                 PROVE  f \notin SentUpTo(k) /\ f.sender = r /\ f \in Event /\ f.gen \in Nat
      OBVIOUS
    <2>1. f \in Event /\ f.sender = r
      BY <1>3, SentFacts
    <2>2. f.gen \in Nat /\ ~ (f.gen < f.gen)
      BY <2>1 DEF Event
    <2> QED
      BY <1>12, <2>1, <2>2
  <1>18. /\ \A f \in SentUpTo(k) : f \in SentUpTo(k2) /\ image2[f] = image[f]
         /\ \A f \in SentAt(r, n) : f \in SentUpTo(k2) /\ image2[f] = made[f]
         /\ \A f \in SentUpTo(k2) : f \in SentUpTo(k) \/ f \in SentAt(r, n)
    BY <1>12, <1>16, <1>17
  <1>19. \A f \in SentUpTo(k) : /\ image[f] \in Event /\ SameButGen(f, image[f])
                                /\ image[f].gen < c.generation[f.sender] /\ image[f].gen \in Nat
                                /\ f.sender \in LP /\ f.gen \in Nat
    <2> SUFFICES ASSUME NEW f \in SentUpTo(k)
                 PROVE  /\ image[f] \in Event /\ SameButGen(f, image[f])
                        /\ image[f].gen < c.generation[f.sender] /\ image[f].gen \in Nat
                        /\ f.sender \in LP /\ f.gen \in Nat
      OBVIOUS
    <2>1. /\ image[f] \in Event /\ SameButGen(f, image[f]) /\ image[f].gen < c.generation[f.sender]
      BY DEF Follows
    <2>2. image[f].gen \in Nat
      BY <2>1 DEF Event
    <2> QED
      BY <1>1, <2>1, <2>2, ReachedFacts
  <1>20. /\ d.generation \in [LP -> Nat] /\ d.generation[r] = g + m
         /\ \A lp \in LP : d.generation[lp] >= c.generation[lp]
         /\ c.generation \in [LP -> Nat]
    <2>1. c.generation \in [LP -> Nat]
      BY DEF Follows
    <2>2. d.generation[r] = g + m /\ d.generation \in [LP -> Nat]
      BY <1>2, <1>3, <1>6, <1>10, <1>14, <2>1
    <2>3. \A lp \in LP : lp # r => d.generation[lp] = c.generation[lp]
      BY <1>10, <2>1
    <2>4. \A lp \in LP : d.generation[lp] >= c.generation[lp]
      BY <1>2, <1>6, <1>14, <2>1, <2>2, <2>3
    <2> QED
      BY <2>1, <2>2, <2>4
  <1>21. \A f \in SentUpTo(k2) : /\ image2[f] \in Event /\ SameButGen(f, image2[f])
                                 /\ image2[f].gen < d.generation[f.sender]
    <2> SUFFICES ASSUME NEW f \in SentUpTo(k2)
                 PROVE  /\ image2[f] \in Event /\ SameButGen(f, image2[f])
                        /\ image2[f].gen < d.generation[f.sender]
      OBVIOUS
    <2>1. CASE f \in SentUpTo(k)
      <3>1. /\ image2[f] = image[f] /\ image[f] \in Event /\ SameButGen(f, image[f])
            /\ f.sender \in LP /\ image[f].gen \in Nat /\ image[f].gen < c.generation[f.sender]
        BY <1>18, <1>19, <2>1
      <3>2. /\ d.generation[f.sender] \in Nat /\ c.generation[f.sender] \in Nat
            /\ d.generation[f.sender] >= c.generation[f.sender]
        BY <1>20, <3>1
      <3> QED
        BY <3>1, <3>2
    <2>2. CASE f \in SentAt(r, n)
      BY <1>14, <1>17, <1>18, <1>20, <2>2
    <2> QED
      BY <1>18, <2>1, <2>2
  <1>22. \A f, h \in SentUpTo(k2) :
            f.sender = h.sender /\ f.gen < h.gen => image2[f].gen < image2[h].gen
    <2> SUFFICES ASSUME NEW f \in SentUpTo(k2), NEW h \in SentUpTo(k2),
                        f.sender = h.sender, f.gen < h.gen
                 PROVE  image2[f].gen < image2[h].gen
      OBVIOUS
    <2>1. CASE f \in SentUpTo(k) /\ h \in SentUpTo(k)
      BY <1>18, <2>1 DEF Follows
    <2>2. CASE f \in SentUpTo(k) /\ h \in SentAt(r, n)
      <3>1. image[f].gen < g /\ image[f].gen \in Nat
        BY <1>2, <1>17, <1>19, <2>2
      <3>2. g <= made[h].gen /\ made[h].gen \in Nat
        BY <1>14, <2>2 DEF Event
      <3>3. image2[f] = image[f] /\ image2[h] = made[h]
        BY <1>18, <2>2
      <3> QED
        BY <1>6, <3>1, <3>2, <3>3
    <2>3. CASE f \in SentAt(r, n) /\ h \in SentUpTo(k)
      <3>1. h.gen < f.gen /\ h.gen \in Nat /\ f.gen \in Nat
        BY <1>12, <1>17, <1>19, <2>3
      <3> QED
        BY <3>1
    <2>4. CASE f \in SentAt(r, n) /\ h \in SentAt(r, n)
      BY <1>14, <1>18, <2>4
    <2> QED
      BY <1>18, <2>1, <2>2, <2>3, <2>4
  <1>23. \A f : f \in Waiting(k2) <=> f \in Waiting(k) \ {e} \/ f \in SentAt(r, n)
    <2>1. DoneUpTo(k) \subseteq SentUpTo(k)
      BY DEF Follows
    <2>2. \A f \in SentAt(r, n) : f \notin DoneUpTo(k2)
      BY <1>5, <1>12, <1>17, <2>1
    <2> QED
      BY <1>12, <2>2 DEF Waiting
  <1>24. \A w \in Waiting(k) : image[w] = x => w = e
    <2> SUFFICES ASSUME NEW w \in Waiting(k), image[w] = x PROVE w = e
      OBVIOUS
    <2>1. w \in SentUpTo(k) /\ w \in Event
      BY <1>1, ReachedFacts DEF Waiting
    <2>2. BeforeOrSame(image[w], image[e])
      BY <1>2 DEF BeforeOrSame, SameEvent
    <2>3. w = e \/ Before(w, e)
      BY <1>1, <1>5, <2>1, <2>2, ImagesAreOrdered
    <2> QED
      BY <1>5, <2>1, <2>3, BeforeIsStrictOrder
  <1>25. d.events = {image2[f] : f \in Waiting(k2)}
    <2>1. c.events = {image[f] : f \in Waiting(k)}
      BY DEF Follows, Waiting
    <2>2. \A f \in Waiting(k) : f \in SentUpTo(k)
      BY DEF Waiting
    <2>3. ASSUME NEW y \in d.events
          PROVE  \E f \in Waiting(k2) : y = image2[f]
      <3>1. CASE y \in c.events /\ y # x
        <4>1. PICK f \in Waiting(k) : y = image[f]
          BY <2>1, <3>1
        <4>2. f # e
          BY <1>2, <3>1, <4>1
        <4>3. image2[f] = image[f]
          BY <1>18, <2>2
        <4>4. f \in Waiting(k2)
          BY <1>23, <4>1, <4>2
        <4> QED
          BY <4>1, <4>3, <4>4
      <3>2. CASE \E f \in SentAt(r, n) : y = made[f]
        BY <1>18, <1>23, <3>2
      <3> QED
        BY <1>15, <3>1, <3>2
    <2>4. ASSUME NEW f \in Waiting(k2)
          PROVE  image2[f] \in d.events
      <3>1. CASE f \in Waiting(k) /\ f # e
        <4>1. image2[f] = image[f] /\ image[f] \in c.events /\ image[f] # x
          BY <1>18, <1>24, <2>1, <2>2, <3>1
        <4> QED
          BY <1>15, <4>1
      <3>2. CASE f \in SentAt(r, n)
        BY <1>15, <1>18, <3>2
      <3> QED
        BY <1>23, <3>1, <3>2
    <2> QED
      BY <2>3, <2>4
  <1>26. d.state = [lp \in LP |-> StateAfter(lp, k2[lp])]
    <2>1. c.state = [lp \in LP |-> StateAfter(lp, k[lp])]
      BY DEF Follows
    <2>2. StateAfter(r, n) = Append(StateAfter(r, n - 1), Trace(e))
      BY <1>3, <1>4, StateAfterNext
    <2>3. d.state = [lp \in LP |-> d.state[lp]]
      BY <1>10, <2>1
    <2>4. d.state[r] = StateAfter(r, k2[r])
      BY <1>3, <1>7, <1>10, <1>12, <2>1, <2>2
    <2>5. \A lp \in LP : lp # r => d.state[lp] = StateAfter(lp, k2[lp])
      BY <1>10, <1>12, <2>1
    <2>6. \A lp \in LP : d.state[lp] = StateAfter(lp, k2[lp])
      BY <2>4, <2>5
    <2> QED
      BY <2>3, <2>6
  <1>27. \A lp \in LP : \A i \in 2 .. k2[lp] : log[lp][i].event.ts < horizon
    <2> SUFFICES ASSUME NEW lp \in LP, NEW i \in 2 .. k2[lp]
                 PROVE  log[lp][i].event.ts < horizon
      OBVIOUS
    <2>1. (lp = r /\ i = n) \/ i \in 2 .. k[lp]
      BY <1>4, <1>12
    <2>2. CASE lp = r /\ i = n
      BY <1>3, <2>2
    <2>3. CASE i \in 2 .. k[lp]
      BY <2>3 DEF Follows
    <2> QED
      BY <2>1, <2>2, <2>3
  <1>28. DoneUpTo(k2) \subseteq SentUpTo(k2)
    BY <1>5, <1>12 DEF Follows
  <1>29. Follows(d, k2, image2)
    BY <1>12, <1>20, <1>21, <1>22, <1>25, <1>26, <1>27, <1>28 DEF Follows, IsReached, Waiting
  <1> QED
    BY <1>8, <1>29

-----------------------------------------------------------------------------
(* The loop past the GVT.                                                  *)

(* What the loop creates is a message.                                     *)
LEMMA CreatedFacts ==
  ASSUME MessageIsAll, NEW r \in LP, NEW sends \in Seq(Send), NEW time \in Nat, NEW g \in Nat
  PROVE  /\ \A y \in Sequential!NewEvents(r, sends, time, g) :
                /\ y \in Message
                /\ \E j \in DOMAIN sends : y.ts = sends[j].ts
         /\ Sequential!Cardinality(Sequential!InTime(sends)) \in Nat
  <1>1. PICK S : S = InTime(sends)
    OBVIOUS
  <1>2. /\ S \in SUBSET (1 .. Len(sends)) /\ Len(sends) \in Nat
        /\ \A j \in S : j \in DOMAIN sends /\ sends[j].ts <= MaxSimTime
    BY <1>1 DEF InTime
  <1>3. /\ Cardinality(S) \in Nat
        /\ \A j \in S : Cardinality({m \in S : m < j}) \in Nat
    BY <1>2, CountsUp
  <1>4. Sequential!Cardinality(Sequential!InTime(sends)) \in Nat
    BY <1>1, <1>3, SequentialIs
  <1>5. ASSUME NEW y \in Sequential!NewEvents(r, sends, time, g)
        PROVE  y \in Message /\ \E j \in DOMAIN sends : y.ts = sends[j].ts
    <2>1. y \in NumberedFrom(r, sends, time, g)
      BY NewEventsAre
    <2>2. PICK j \in S : y = NewEvent(r, sends[j], time, g + Cardinality({m \in S : m < j}))
      BY <1>1, <2>1 DEF NumberedFrom
    <2>3. PICK send, x : send = sends[j] /\ x = g + Cardinality({m \in S : m < j})
      OBVIOUS
    <2>4. x \in Nat /\ send \in Send /\ send.ts <= MaxSimTime
      BY <1>2, <1>3, <2>2, <2>3
    <2>5. send.recv \in LP /\ send.ts \in Nat /\ send.ts < Infinity
      BY <2>4, TimesAssumption DEF Send
    <2>6. y = [ts |-> send.ts, send |-> time, sender |-> r, gen |-> x,
               recv |-> send.recv, type |-> POSITIVE]
      BY <2>2, <2>3 DEF NewEvent
    <2>7. r \in Nat /\ send.recv \in Nat
      BY <2>5 DEF LP
    <2>8. y \in Event
      BY <2>4, <2>5, <2>6, <2>7 DEF Event
    <2>9. /\ y.type = POSITIVE /\ y.sender = r /\ y.recv = send.recv /\ y.ts = send.ts
      BY <2>6
    <2>10. y \in Message
      BY <2>4, <2>5, <2>8, <2>9 DEF MessageIsAll
    <2> QED
      BY <1>2, <2>2, <2>3, <2>9, <2>10
  <1> QED
    BY <1>4, <1>5

(* When no event before the GVT waits, no entry before the GVT is left.    *)
LEMMA FollowsToPassed ==
  ASSUME ModelIsCausal, ModelDelays, MessageIsAll, EngineInv, LogInv,
         NEW c, NEW k, NEW image, Follows(c, k, image),
         \A w \in Waiting(k) : w.ts >= horizon
  PROVE  Passed(c, k)
  <1>1. IsReached(k)
    BY DEF Follows, IsReached
  <1>2. horizon \in Nat
    BY HorizonFacts
  <1>3. ASSUME NEW lp \in LP, NEW i \in DOMAIN log[lp], i > k[lp]
        PROVE  log[lp][i].event.ts >= horizon
    <2> SUFFICES ASSUME log[lp][i].event.ts < horizon PROVE FALSE
      BY <1>2, LogFacts
    <2>1. PICK w \in Waiting(k) : w = log[lp][i].event \/ Before(w, log[lp][i].event)
      BY <1>1, <1>3, ReadyIsBefore
    <2>2. w.ts \in Nat /\ log[lp][i].event.ts \in Nat
      BY <1>1, <2>1, ReachedFacts, LogFacts DEF Waiting
    <2>3. w.ts <= log[lp][i].event.ts
      BY <2>1, <2>2 DEF Before
    <2> QED
      BY <1>2, <2>1, <2>2, <2>3
  <1>4. ASSUME NEW y \in c.events
        PROVE  y \in Message /\ y.ts >= horizon
    <2>1. PICK w \in Waiting(k) : y = image[w]
      BY DEF Follows, Waiting
    <2>2. /\ w \in SentUpTo(k) /\ w.sender \in LP /\ w.recv \in LP /\ w.type = POSITIVE
          /\ w \in Message
      BY <1>1, <2>1, ReachedFacts DEF Waiting
    <2>3. \E i \in 1 .. k[w.sender] : w \in SentAt(w.sender, i)
      BY <1>1, <2>2, ReachedFacts
    <2>4. PICK i \in 1 .. k[w.sender] : w \in SentAt(w.sender, i)
      BY <2>3
    <2>5. i \in DOMAIN log[w.sender]
      BY <1>1, <2>2, <2>4, ReachedFacts
    <2>6. PICK s : s = w.sender
      OBVIOUS
    <2>7. PICK j \in DOMAIN log[s][i].sent : SentFor(w, s, i, j)
      BY <2>2, <2>4, <2>5, <2>6, SentForSome
    <2>8. w.ts <= MaxSimTime
      BY <2>7 DEF SentFor, InTime
    <2>9. w.ts < Infinity
      BY <2>2, MessageFacts
    <2>10. y \in Event /\ SameButGen(w, y)
      BY <2>1, <2>2 DEF Follows
    <2>11. /\ y.type = POSITIVE /\ y.sender \in LP /\ y.recv \in LP /\ y.ts = w.ts
      BY <2>2, <2>10 DEF SameButGen
    <2>12. y \in Message
      BY <2>8, <2>9, <2>10, <2>11 DEF MessageIsAll
    <2> QED
      BY <2>1, <2>11, <2>12
  <1>5. ASSUME NEW lp \in LP
        PROVE  /\ c.state[lp] \in Seq(TraceOf) /\ Len(c.state[lp]) = k[lp] - 1
               /\ c.state[lp] = StateAfter(lp, k[lp]) /\ k[lp] \in Nat /\ k[lp] \in DOMAIN log[lp]
    <2>1. c.state[lp] = StateAfter(lp, k[lp])
      BY DEF Follows
    <2>2. k[lp] \in DOMAIN log[lp] /\ k[lp] \in Nat
      BY <1>1, ReachedFacts DEF IsReached
    <2> QED
      BY <2>1, <2>2, StateAfterFacts
  <1>6. ASSUME NEW lp \in LP
        PROVE  /\ c.state[lp] \in Seq(TraceOf) /\ Len(c.state[lp]) >= k[lp] - 1
               /\ \A i \in 1 .. k[lp] - 1 : c.state[lp][i] = StateAfter(lp, k[lp])[i]
               /\ \A i \in k[lp] .. Len(c.state[lp]) :
                     horizon <= c.state[lp][i][1] /\ c.state[lp][i][1] < Infinity
    <2>1. k[lp] .. Len(c.state[lp]) = {}
      BY <1>5
    <2> QED
      BY <1>5, <2>1
  <1>7. c.state = [lp \in LP |-> c.state[lp]] /\ c.generation \in [LP -> Nat]
    BY DEF Follows
  <1> QED
    BY <1>1, <1>3, <1>4, <1>6, <1>7 DEF Passed, IsReached

LEMMA PassedOn ==
  ASSUME ModelIsCausal, MessageIsAll, EngineInv, LogInv, NEW c, NEW k, Passed(c, k)
  PROVE  Passed(OneMore(c), k)
  <1>1. CASE c.events = {}
    BY <1>1 DEF OneMore
  <1>2. CASE c.events # {}
    <2>1. PICK x : x = Sequential!LtsfPop(c.events)
      OBVIOUS
    <2>2. c.events \in SUBSET Event
      BY MessageFacts DEF Passed
    <2>3. x \in c.events
      BY <1>2, <2>1, <2>2, PopFacts
    <2>4. /\ x \in Message /\ x.ts >= horizon /\ x \in Event /\ x.recv \in LP
          /\ x.ts < Infinity /\ x.ts \in Nat /\ horizon \in Nat
      BY <2>3, MessageFacts, HorizonFacts DEF Passed, Event
    <2>5. PICK r, sends, g : r = x.recv /\ sends = Sends(r, c.state[r], x) /\ g = c.generation[r]
      OBVIOUS
    <2>6. /\ r \in LP /\ sends \in Seq(Send) /\ \A j \in DOMAIN sends : x.ts <= sends[j].ts
          /\ g \in Nat
      BY <2>4, <2>5 DEF ModelIsCausal, Passed
    <2>7. PICK m, d : m = Sequential!Cardinality(Sequential!InTime(sends)) /\ d = OneMore(c)
      OBVIOUS
    <2>8. /\ m \in Nat
          /\ \A y \in Sequential!NewEvents(r, sends, x.ts, g) :
                y \in Message /\ \E j \in DOMAIN sends : y.ts = sends[j].ts
      BY <2>4, <2>6, <2>7, CreatedFacts
    <2>9. d = [events     |-> (c.events \ {x}) \cup Sequential!NewEvents(r, sends, x.ts, g),
               state      |-> [c.state EXCEPT ![r] = Append(@, Trace(x))],
               generation |-> [c.generation EXCEPT ![r] = g + m]]
      <3>1. Sequential!NextState(c.state[r], x) = Append(c.state[r], Trace(x))
        BY SequentialIs DEF NextState
      <3>2. d = Sequential!ProcessNext(c)
        BY <1>2, <2>7 DEF OneMore
      <3>3. Sequential!ProcessNext(c) =
              [events     |-> (c.events \ {x}) \cup Sequential!NewEvents(r, sends, x.ts, g),
               state      |-> [c.state EXCEPT ![r] = Sequential!NextState(c.state[r], x)],
               generation |-> [c.generation EXCEPT ![r] = g + m]]
        BY <2>1, <2>5, <2>7 DEF Sequential!ProcessNext
      <3> QED
        BY <3>1, <3>2, <3>3
    <2>10. ASSUME NEW y \in d.events
           PROVE  y \in Message /\ y.ts >= horizon
      <3>1. CASE y \in c.events
        BY <3>1 DEF Passed
      <3>2. CASE y \in Sequential!NewEvents(r, sends, x.ts, g)
        <4>1. y \in Message /\ y \in Event
          BY <2>8, <3>2, MessageFacts
        <4>2. PICK j \in DOMAIN sends : y.ts = sends[j].ts
          BY <2>8, <3>2
        <4>3. x.ts <= y.ts /\ y.ts \in Nat
          BY <2>6, <4>1, <4>2 DEF Event
        <4> QED
          BY <2>4, <4>1, <4>3
      <3> QED
        BY <2>9, <3>1, <3>2
    <2>11. d.generation \in [LP -> Nat]
      BY <2>6, <2>8, <2>9 DEF Passed
    <2>12. d.state = [lp \in LP |-> d.state[lp]]
      BY <2>9 DEF Passed
    <2>13. c.state = [lp \in LP |-> c.state[lp]]
      BY DEF Passed
    <2>14. /\ d.state[r] = Append(c.state[r], Trace(x))
           /\ \A lp \in LP : lp # r => d.state[lp] = c.state[lp]
      BY <2>6, <2>9, <2>13
    <2>15. Trace(x) \in TraceOf /\ Trace(x)[1] = x.ts
      BY <2>4, TraceType DEF Trace
    <2>16. ASSUME NEW lp \in LP
           PROVE  /\ d.state[lp] \in Seq(TraceOf) /\ Len(d.state[lp]) >= k[lp] - 1
                  /\ \A i \in 1 .. k[lp] - 1 : d.state[lp][i] = StateAfter(lp, k[lp])[i]
                  /\ \A i \in k[lp] .. Len(d.state[lp]) :
                        horizon <= d.state[lp][i][1] /\ d.state[lp][i][1] < Infinity
      <3>1. PICK p : p = c.state[lp]
        OBVIOUS
      <3>2. /\ p \in Seq(TraceOf) /\ Len(p) >= k[lp] - 1
            /\ \A i \in 1 .. k[lp] - 1 : p[i] = StateAfter(lp, k[lp])[i]
            /\ \A i \in k[lp] .. Len(p) : horizon <= p[i][1] /\ p[i][1] < Infinity
            /\ k[lp] \in Nat
        BY <3>1 DEF Passed
      <3>3. CASE lp # r
        BY <2>14, <3>1, <3>2, <3>3
      <3>4. CASE lp = r
        <4>1. PICK q : q = d.state[lp]
          OBVIOUS
        <4>2. q = Append(p, Trace(x))
          BY <2>14, <3>1, <3>4, <4>1
        <4>3. /\ q \in Seq(TraceOf) /\ Len(q) = Len(p) + 1 /\ Len(p) \in Nat
              /\ \A i \in 1 .. Len(p) : q[i] = p[i]
              /\ q[Len(p) + 1] = Trace(x)
          BY <2>15, <3>2, <4>2, AppendFacts
        <4>4. k[lp] >= 1
          BY LogFacts DEF Passed
        <4>5. \A i \in 1 .. k[lp] - 1 : i \in 1 .. Len(p)
          BY <3>2, <4>3
        <4>6. \A i \in k[lp] .. Len(q) : i = Len(p) + 1 \/ (i \in 1 .. Len(p) /\ i \in k[lp] .. Len(p))
          BY <3>2, <4>3, <4>4
        <4>7. \A i \in 1 .. k[lp] - 1 : q[i] = StateAfter(lp, k[lp])[i]
          BY <3>2, <4>3, <4>5
        <4>8. \A i \in k[lp] .. Len(q) : horizon <= q[i][1] /\ q[i][1] < Infinity
          BY <2>4, <2>15, <3>2, <4>3, <4>6
        <4>9. Len(q) >= k[lp] - 1
          BY <3>2, <4>3
        <4> QED
          BY <4>1, <4>3, <4>7, <4>8, <4>9
      <3> QED
        BY <3>3, <3>4
    <2>17. Passed(d, k)
      BY <2>10, <2>11, <2>12, <2>16 DEF Passed
    <2> QED
      BY <2>7, <2>17
  <1> QED
    BY <1>1, <1>2

-----------------------------------------------------------------------------
(* The whole loop.                                                         *)

(* Where the loop starts, no entry but the first consumed.                 *)
OneEach == [lp \in LP |-> 1]

LEMMA StartIs ==
  /\ Sequential!Start.events = UNION {Sequential!NewEvents(lp, InitialSends[lp], 0, 0) : lp \in LP}
  /\ Sequential!Start.state = [lp \in LP |-> <<>>]
  /\ Sequential!Start.generation = [lp \in LP |-> Cardinality(InTime(InitialSends[lp]))]
  <1>1. \A lp \in LP : Sequential!Cardinality(Sequential!InTime(InitialSends[lp]))
                       = Cardinality(InTime(InitialSends[lp]))
    BY SequentialIs
  <1>2. Sequential!InitialState = <<>>
    BY SequentialIs DEF InitialState
  <1> QED
    BY <1>1, <1>2 DEF Sequential!Start

LEMMA StartFollows ==
  ASSUME ModelIsCausal, EngineInv, LogInv, Started
  PROVE  \E k, image : Follows(Sequential!Start, k, image)
  <1>1. PICK k, c : k = OneEach /\ c = Sequential!Start
    OBVIOUS
  <1>2. k \in [LP -> Nat] /\ (\A lp \in LP : k[lp] = 1 /\ k[lp] \in DOMAIN log[lp])
    BY <1>1, LogFacts DEF OneEach
  <1>3. \A lp \in LP : 1 .. k[lp] = {1} /\ 2 .. k[lp] = {}
    BY <1>2
  <1>4. \A e : e \in SentUpTo(k) <=> \E lp \in LP : e \in SentAt(lp, 1)
    BY <1>3, UpToIs
  <1>5. DoneUpTo(k) = {}
    BY <1>3, UpToIs
  <1>6. PICK image : image = [e \in SentUpTo(k) |-> Renumbered(e.sender, 1, e, 0)]
    OBVIOUS
  <1>7. \A lp \in LP : \A e \in SentAt(lp, 1) : /\ e.sender = lp /\ e \in SentUpTo(k)
                                                /\ image[e] = Renumbered(lp, 1, e, 0)
    <2>1. \A lp \in LP : 1 \in DOMAIN log[lp]
      BY LogFacts
    <2>2. \A lp \in LP : \A e \in SentAt(lp, 1) : e.sender = lp
      BY <2>1, SentFacts
    <2> QED
      BY <1>4, <1>6, <2>2
  <1>8. ASSUME NEW lp \in LP
        PROVE  /\ LoggedSends(lp, 1) = InitialSends[lp] /\ 1 \in DOMAIN log[lp]
               /\ log[lp][1].event.ts = 0
    BY LogFacts DEF LoggedSends, InitialEvent
  <1>9. ASSUME NEW lp \in LP
        PROVE  /\ c.generation[lp] \in Nat
               /\ \A e \in SentAt(lp, 1) : /\ image[e] \in Event /\ SameButGen(e, image[e])
                                           /\ image[e].gen < c.generation[lp]
               /\ \A e, f \in SentAt(lp, 1) : e.gen < f.gen => image[e].gen < image[f].gen
               /\ Sequential!NewEvents(lp, InitialSends[lp], 0, 0) = {image[e] : e \in SentAt(lp, 1)}
    <2>1. PICK m : m = Cardinality(InTime(LoggedSends(lp, 1)))
      OBVIOUS
    <2>2. c.generation[lp] = m
      BY <1>1, <1>8, <2>1, StartIs
    <2>3. /\ m \in Nat
          /\ \A e \in SentAt(lp, 1) : LET f == Renumbered(lp, 1, e, 0)
                                      IN  /\ f \in Event /\ SameButGen(e, f)
                                          /\ 0 <= f.gen /\ f.gen < 0 + m
          /\ \A e, f \in SentAt(lp, 1) :
                e.gen < f.gen => Renumbered(lp, 1, e, 0).gen < Renumbered(lp, 1, f, 0).gen
      BY <1>8, <2>1, RenumberedFacts
    <2>4. Sequential!NewEvents(lp, LoggedSends(lp, 1), log[lp][1].event.ts, 0)
          = {Renumbered(lp, 1, e, 0) : e \in SentAt(lp, 1)}
      BY <1>8, RenumberedAre
    <2>5. \A e \in SentAt(lp, 1) : Renumbered(lp, 1, e, 0) = image[e]
      BY <1>7
    <2>6. Sequential!NewEvents(lp, InitialSends[lp], 0, 0) = {image[e] : e \in SentAt(lp, 1)}
      BY <1>8, <2>4, <2>5
    <2>7. 0 + m = m
      BY <2>3
    <2> QED
      BY <2>2, <2>3, <2>5, <2>6, <2>7
  <1>10. c.events = {image[e] : e \in SentUpTo(k) \ DoneUpTo(k)}
    <2>1. c.events = UNION {Sequential!NewEvents(lp, InitialSends[lp], 0, 0) : lp \in LP}
      BY <1>1, StartIs
    <2>2. \A y : y \in c.events <=> \E lp \in LP : y \in {image[e] : e \in SentAt(lp, 1)}
      BY <1>9, <2>1
    <2> QED
      BY <1>4, <1>5, <2>2
  <1>11. c.state = [lp \in LP |-> StateAfter(lp, k[lp])]
    <2>1. \A lp \in LP : StateAfter(lp, k[lp]) = <<>>
      BY <1>2 DEF StateAfter
    <2> QED
      BY <1>1, <2>1, StartIs
  <1>12. c.generation \in [LP -> Nat]
    BY <1>1, <1>9, StartIs
  <1>13. \A e \in SentUpTo(k) : /\ image[e] \in Event /\ SameButGen(e, image[e])
                                /\ image[e].gen < c.generation[e.sender]
    BY <1>4, <1>7, <1>9
  <1>14. \A e, f \in SentUpTo(k) :
            e.sender = f.sender /\ e.gen < f.gen => image[e].gen < image[f].gen
    BY <1>4, <1>7, <1>9
  <1>15. Follows(c, k, image)
    BY <1>2, <1>3, <1>5, <1>10, <1>11, <1>12, <1>13, <1>14 DEF Follows
  <1> QED
    BY <1>1, <1>15

(* Before the engine has started everything is past its GVT.               *)
LEMMA StartPassed ==
  ASSUME ModelIsCausal, MessageIsAll, EngineInv, LogInv, ~ Started
  PROVE  Passed(Sequential!Start, OneEach)
  <1>1. PICK k, c : k = OneEach /\ c = Sequential!Start
    OBVIOUS
  <1>2. k \in [LP -> Nat] /\ (\A lp \in LP : k[lp] = 1 /\ k[lp] \in DOMAIN log[lp])
    BY <1>1, LogFacts DEF OneEach
  <1>3. horizon = 0
    BY HorizonFacts DEF Started
  <1>4. ASSUME NEW lp \in LP
        PROVE  /\ Sequential!Cardinality(Sequential!InTime(InitialSends[lp])) \in Nat
               /\ \A y \in Sequential!NewEvents(lp, InitialSends[lp], 0, 0) : y \in Message
    <2>1. InitialSends[lp] \in Seq(Send)
      BY DEF ModelIsCausal
    <2> QED
      BY <2>1, CreatedFacts
  <1>5. c.generation \in [LP -> Nat]
    BY <1>1, <1>4, StartIs, SequentialIs
  <1>6. ASSUME NEW y \in c.events
        PROVE  y \in Message /\ y.ts >= horizon
    <2>1. y \in Message
      BY <1>1, <1>4, StartIs
    <2>2. y.ts \in Nat
      BY <2>1, MessageFacts DEF Event
    <2> QED
      BY <1>3, <2>1, <2>2
  <1>7. \A lp \in LP : c.state[lp] = <<>>
    BY <1>1, StartIs
  <1>8. ASSUME NEW lp \in LP
        PROVE  /\ k[lp] \in DOMAIN log[lp]
               /\ \A i \in DOMAIN log[lp] : i > k[lp] => log[lp][i].event.ts >= horizon
               /\ c.state[lp] \in Seq(TraceOf) /\ Len(c.state[lp]) >= k[lp] - 1
               /\ \A i \in 1 .. k[lp] - 1 : c.state[lp][i] = StateAfter(lp, k[lp])[i]
               /\ \A i \in k[lp] .. Len(c.state[lp]) :
                     horizon <= c.state[lp][i][1] /\ c.state[lp][i][1] < Infinity
    <2>1. \A i \in DOMAIN log[lp] : log[lp][i].event.ts >= horizon
      BY <1>3, LogFacts
    <2>2. c.state[lp] \in Seq(TraceOf) /\ Len(c.state[lp]) = 0
      <3>1. <<>> \in Seq(TraceOf) /\ Len(<<>>) = 0
        OBVIOUS
      <3> QED
        BY <1>7, <3>1
    <2>3. k[lp] = 1
      BY <1>2
    <2>4. 1 .. k[lp] - 1 = {} /\ k[lp] .. Len(c.state[lp]) = {} /\ Len(c.state[lp]) >= k[lp] - 1
      BY <2>2, <2>3
    <2> QED
      BY <1>2, <2>1, <2>2, <2>4
  <1>9. c.state = [lp \in LP |-> c.state[lp]]
    BY <1>1, StartIs
  <1>10. Passed(c, k)
    BY <1>2, <1>5, <1>6, <1>8, <1>9 DEF Passed
  <1> QED
    BY <1>1, <1>10

(* Every turn of the loop has only followed the log, or has passed the     *)
(* GVT.                                                                    *)
FollowsOrPassed(c) == \/ Started /\ \E k, image : Follows(c, k, image)
                      \/ \E k : Passed(c, k)

LEMMA TurnFollows ==
  ASSUME ModelIsCausal, ModelDelays, GenerationIsHidden, MessageIsAll, EngineInv, LogInv,
         NEW c, FollowsOrPassed(c)
  PROVE  FollowsOrPassed(OneMore(c))
  <1>1. CASE \E k : Passed(c, k)
    <2>1. PICK k : Passed(c, k)
      BY <1>1
    <2>2. Passed(OneMore(c), k)
      BY <2>1, PassedOn
    <2> QED
      BY <2>2 DEF FollowsOrPassed
  <1>2. CASE c.events = {}
    BY <1>2 DEF OneMore
  <1>3. CASE Started /\ (\E k, image : Follows(c, k, image)) /\ c.events # {}
    <2>1. PICK k, image : Follows(c, k, image)
      BY <1>3
    <2>2. IsReached(k)
      BY <2>1 DEF Follows, IsReached
    <2>3. PICK e \in Waiting(k) : /\ Sequential!LtsfPop(c.events) = image[e]
                                  /\ \A w \in Waiting(k) : w = e \/ Before(e, w)
      BY <1>3, <2>1, <2>2, PopIsLeast
    <2>4. horizon \in Nat /\ \A w \in Waiting(k) : w.ts \in Nat
      BY <2>2, ReachedFacts, HorizonFacts DEF Waiting
    <2>5. CASE e.ts < horizon
      BY <1>3, <2>1, <2>3, <2>5, FollowsOn DEF FollowsOrPassed
    <2>6. CASE ~ (e.ts < horizon)
      <3>1. ASSUME NEW w \in Waiting(k) PROVE w.ts >= horizon
        <4>1. w = e \/ e.ts <= w.ts
          BY <2>3, <2>4 DEF Before
        <4> QED
          BY <2>4, <2>6, <4>1
      <3>2. Passed(c, k)
        BY <2>1, <3>1, FollowsToPassed
      <3>3. Passed(OneMore(c), k)
        BY <3>2, PassedOn
      <3> QED
        BY <3>3 DEF FollowsOrPassed
    <2> QED
      BY <2>5, <2>6
  <1> QED
    BY <1>1, <1>2, <1>3 DEF FollowsOrPassed

LEMMA LoopFollows ==
  ASSUME ModelIsCausal, ModelDelays, GenerationIsHidden, MessageIsAll, EngineInv, LogInv,
         MaxEvents \in Nat
  PROVE  FollowsOrPassed(Run[MaxEvents])
  <1> DEFINE T == {n \in 0 .. MaxEvents : ~ FollowsOrPassed(Run[n])}
  <1>1. FollowsOrPassed(Sequential!Start)
    <2>1. CASE Started
      BY <2>1, StartFollows DEF FollowsOrPassed
    <2>2. CASE ~ Started
      BY <2>2, StartPassed DEF FollowsOrPassed
    <2> QED
      BY <2>1, <2>2
  <1>2. Run[0] = Sequential!Start /\ \A n \in 1 .. MaxEvents : Run[n] = OneMore(Run[n - 1])
    BY LoopIs
  <1>3. ASSUME T # {} PROVE FALSE
    <2>1. T \in SUBSET Nat
      OBVIOUS
    <2>2. PICK n \in T : \A m \in T : n <= m
      BY <1>3, <2>1, NatMinimum
    <2>3. n \in 0 .. MaxEvents /\ ~ FollowsOrPassed(Run[n])
      BY <2>2
    <2>4. n # 0
      BY <1>1, <1>2, <2>3
    <2>5. n \in 1 .. MaxEvents /\ n - 1 \in 0 .. MaxEvents /\ ~ (n <= n - 1)
      BY <2>3, <2>4
    <2>6. n - 1 \notin T
      <3> HIDE DEF T
      <3> QED
        BY <2>2, <2>5
    <2>7. FollowsOrPassed(Run[n - 1])
      BY <2>5, <2>6
    <2>8. FollowsOrPassed(OneMore(Run[n - 1]))
      BY <2>7, TurnFollows
    <2> QED
      BY <1>2, <2>3, <2>5, <2>8
  <1>4. MaxEvents \in 0 .. MaxEvents
    OBVIOUS
  <1> QED
    BY <1>3, <1>4

(* A loop that has ended has passed the GVT.                               *)
LEMMA LoopPasses ==
  ASSUME ModelIsCausal, ModelDelays, GenerationIsHidden, MessageIsAll, EngineInv, LogInv,
         MaxEvents \in Nat, Sequential!SequentialDone
  PROVE  \E k : Passed(Run[MaxEvents], k)
  <1>1. PICK c : c = Run[MaxEvents]
    OBVIOUS
  <1>2. c.events = {}
    BY <1>1 DEF Sequential!SequentialDone, Run
  <1>3. CASE Started /\ \E k, image : Follows(c, k, image)
    <2>1. PICK k, image : Follows(c, k, image)
      BY <1>3
    <2>2. c.events = {image[e] : e \in Waiting(k)}
      BY <2>1 DEF Follows, Waiting
    <2>3. \A w \in Waiting(k) : w.ts >= horizon
      BY <1>2, <2>2
    <2>4. Passed(c, k)
      BY <2>1, <2>3, FollowsToPassed
    <2> QED
      BY <1>1, <2>4
  <1> QED
    BY <1>1, <1>3, LoopFollows DEF FollowsOrPassed

(* What the log says of an LP and what the loop has made of the same LP.   *)
LEMMA LogIsSequential ==
  ASSUME EngineInv, LogInv, NEW c, NEW k, Passed(c, k), NEW lp \in LP
  PROVE  /\ SameUntil(StateAfter(lp, Len(log[lp])), c.state[lp], gvt)
         /\ pc[Master] = "terminated" => StateAfter(lp, Len(log[lp])) = c.state[lp]
  <1>1. PICK s, a, m, n : /\ s = StateAfter(lp, Len(log[lp])) /\ a = c.state[lp]
                          /\ m = k[lp] /\ n = Len(log[lp])
    OBVIOUS
  <1>2. /\ n \in Nat /\ n >= 1 /\ DOMAIN log[lp] = 1 .. n /\ m \in 1 .. n
        /\ \A i \in m + 1 .. n : log[lp][i].event.ts >= horizon
        /\ \A i \in 2 .. n : log[lp][i].event.ts < Infinity
        /\ \A i \in 1 .. n : log[lp][i].event.ts \in Nat
    <2>1. /\ n \in Nat /\ n >= 1 /\ DOMAIN log[lp] = 1 .. n
          /\ \A i \in 1 .. n : /\ log[lp][i].event.ts \in Nat
                               /\ log[lp][i].event.ts < Infinity \/ i = 1
      BY <1>1, LogFacts
    <2>2. m \in 1 .. n /\ \A i \in 1 .. n : i > m => log[lp][i].event.ts >= horizon
      BY <1>1, <2>1 DEF Passed
    <2> QED
      BY <2>1, <2>2
  <1>3. /\ s \in Seq(TraceOf) /\ Len(s) = n - 1
        /\ \A i \in 1 .. n - 1 : s[i] = Trace(log[lp][i + 1].event)
    BY <1>1, LogFacts, StateAfterFacts
  <1>4. \A i \in 1 .. n - 1 : s[i][1] = log[lp][i + 1].event.ts
    BY <1>3 DEF Trace
  <1>5. /\ a \in Seq(TraceOf) /\ Len(a) \in Nat /\ Len(a) >= m - 1
        /\ \A i \in m .. Len(a) : horizon <= a[i][1] /\ a[i][1] < Infinity
        /\ \A i \in 1 .. m - 1 : a[i] = StateAfter(lp, m)[i]
    BY <1>1 DEF Passed
  <1>6. \A i \in 1 .. m - 1 : a[i] = s[i]
    <2>1. \A i \in 1 .. m - 1 : StateAfter(lp, m)[i] = Trace(log[lp][i + 1].event)
      BY <1>2, StateAfterFacts
    <2>2. \A i \in 1 .. m - 1 : i \in 1 .. n - 1
      BY <1>2
    <2> QED
      BY <1>3, <1>5, <2>1, <2>2
  <1>7. DOMAIN s = 1 .. n - 1 /\ DOMAIN a = 1 .. Len(a)
    BY <1>3, <1>5
  <1>8. \A i \in 1 .. Len(a) : a[i][1] \in Nat
    BY <1>5 DEF TraceOf
  <1>9. \A i \in m .. n - 1 : s[i][1] >= horizon
    <2>1. \A i \in m .. n - 1 : i \in 1 .. n - 1 /\ i + 1 \in m + 1 .. n
      BY <1>2
    <2> QED
      BY <1>2, <1>4, <2>1
  <1>10. gvt \in Nat /\ horizon \in Nat /\ gvt <= horizon /\ Infinity \in Nat
         /\ (pc[Master] = "terminated" => horizon = Infinity)
    BY HorizonFacts
  <1>11. SameUntil(s, a, gvt)
    <2> SUFFICES ASSUME NEW i \in DOMAIN s \cup DOMAIN a,
                        \/ i \in DOMAIN s /\ s[i][1] < gvt
                        \/ i \in DOMAIN a /\ a[i][1] < gvt
                 PROVE  i \in DOMAIN s /\ i \in DOMAIN a /\ s[i] = a[i]
      BY DEF SameUntil
    <2>1. i \in 1 .. m - 1
      <3>1. CASE i \in DOMAIN s /\ s[i][1] < gvt
        <4>1. s[i][1] \in Nat
          BY <1>2, <1>4, <1>7, <3>1
        <4>2. i \notin m .. n - 1
          BY <1>9, <1>10, <3>1, <4>1
        <4> QED
          BY <1>2, <1>7, <3>1, <4>2
      <3>2. CASE i \in DOMAIN a /\ a[i][1] < gvt
        <4>1. a[i][1] \in Nat
          BY <1>7, <1>8, <3>2
        <4>2. i \notin m .. Len(a)
          BY <1>5, <1>10, <3>2, <4>1
        <4> QED
          BY <1>2, <1>5, <1>7, <3>2, <4>2
      <3> QED
        BY <3>1, <3>2
    <2>2. i \in 1 .. n - 1 /\ i \in 1 .. Len(a)
      BY <1>2, <1>5, <2>1
    <2> QED
      BY <1>6, <1>7, <2>1, <2>2
  <1>12. ASSUME pc[Master] = "terminated" PROVE s = a
    <2>1. horizon = Infinity
      BY <1>10, <1>12
    <2>2. m = n
      <3> SUFFICES ASSUME m # n PROVE FALSE
        OBVIOUS
      <3>1. n \in m + 1 .. n /\ n \in 2 .. n /\ n \in 1 .. n
        BY <1>2
      <3> QED
        BY <1>2, <1>10, <2>1, <3>1
    <2>3. Len(a) = m - 1
      <3> SUFFICES ASSUME Len(a) # m - 1 PROVE FALSE
        OBVIOUS
      <3>1. Len(a) \in m .. Len(a) /\ Len(a) \in 1 .. Len(a)
        BY <1>2, <1>5
      <3> QED
        BY <1>5, <1>8, <1>10, <2>1, <3>1
    <2>4. Len(s) = Len(a) /\ \A i \in 1 .. Len(s) : s[i] = a[i]
      BY <1>3, <1>6, <2>2, <2>3
    <2> QED
      BY <1>3, <1>5, <2>4, SequencesAgree
  <1> QED
    BY <1>1, <1>11, <1>12

LEMMA CommittedFromLog ==
  ASSUME ModelIsCausal, ModelDelays, GenerationIsHidden, MessageIsAll, EngineInv, LogInv,
         MaxEvents \in Nat, Sequential!SequentialDone
  PROVE  CommittedIsSequential
  <1>1. PICK c : c = Run[MaxEvents]
    OBVIOUS
  <1>2. PICK k : Passed(c, k)
    BY <1>1, LoopPasses
  <1>3. Sequential!SequentialState = c.state
    BY <1>1 DEF Sequential!SequentialState, Run
  <1>4. ASSUME NEW lp \in LP, ~ InPast(lp)
        PROVE  state[lp] = StateAfter(lp, Len(log[lp]))
    BY <1>4 DEF LogInv, StateIsLogged
  <1>5. ASSUME NEW lp \in LP, pc[Master] = "terminated"
        PROVE  ~ InPast(lp)
    <2>1. \A t \in Worker : pc[t] = "getEvent"
      BY <1>5 DEF EngineInv, WorkersInStep, InStep
    <2> QED
      BY <2>1 DEF InPast
  <1> SUFFICES ASSUME NEW lp \in LP
               PROVE  /\ ~ InPast(lp) => SameUntil(state[lp], c.state[lp], gvt)
                      /\ pc[Master] = "terminated" => state[lp] = c.state[lp]
    BY <1>3 DEF CommittedIsSequential
  <1>6. /\ SameUntil(StateAfter(lp, Len(log[lp])), c.state[lp], gvt)
        /\ pc[Master] = "terminated" => StateAfter(lp, Len(log[lp])) = c.state[lp]
    BY <1>2, LogIsSequential
  <1> QED
    BY <1>4, <1>5, <1>6

(* What the GVT has passed is exactly what the sequential simulation does, *)
(* at every LP, and after termination that is everything: whatever the     *)
(* threads, stragglers, rollbacks, anti-messages and the network did, for  *)
(* a model that delays its effects and a sequential run that ends.         *)
THEOREM CommittedIsWhatSequentialDoes ==
  ASSUME ModelIsCausal, ModelDelays, GenerationIsHidden, MessageIsAll,
         MaxEvents \in Nat, Sequential!SequentialDone
  PROVE  LogSpec => []CommittedIsSequential
  <1>1. HistoryInv => CommittedIsSequential
    BY CommittedFromLog DEF HistoryInv
  <1>2. LogSpec => []HistoryInv
    BY HistoryIsKept
  <1> QED
    BY <1>1, <1>2, PTL
=============================================================================
