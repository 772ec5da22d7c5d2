------------------- MODULE TimeWarpTerminationManagerProofs -------------------
(***************************************************************************)
(* For any number of nodes and workers: there is always one token, and a   *)
(* node's state follows its threads' (neither needs a timing assumption);  *)
(* and where no token overtakes an event, the simulation never ends early. *)
(***************************************************************************)
EXTENDS TimeWarpTerminationManager, FiniteSetTheorems,
        SequenceTheorems, TLAPS

-----------------------------------------------------------------------------
(* The threads' states.                                                    *)

Active(n) == {w \in NodeWorkers(n) : state_by_thread[w] = "ACTIVE"}

(* Only a passive thread is about to become active.                        *)
ThreadInv ==
    /\ wpc \in [Worker -> {"getEvent", "setThreadActive", "process", "insertMessage"}]
    /\ state_by_thread \in [Worker -> {"ACTIVE", "PASSIVE"}]
    /\ state \in [Node -> {"ACTIVE", "PASSIVE"}]
    /\ active_thread_count \in [Node -> Nat]
    /\ \A w \in Worker : wpc[w] = "setThreadActive" => state_by_thread[w] = "PASSIVE"
    /\ StateFollowsThreads

threadVars == <<state, state_by_thread, active_thread_count, wpc>>

LEMMA WorkersFinite ==
    ASSUME NEW n \in Node
    PROVE  /\ IsFiniteSet(NodeWorkers(n))
           /\ Cardinality(NodeWorkers(n)) = NumWorkers
<1> DEFINE ids == 0 .. NumWorkers - 1
           f   == [i \in ids |-> <<n, i>>]
<1>1. NodeWorkers(n) = {<<n, i>> : i \in ids}
  BY DEF NodeWorkers, Worker
<1>2. IsFiniteSet(ids) /\ Cardinality(ids) = NumWorkers
  BY FS_Interval, SizesAssumption
<1>3. f \in Bijection(ids, NodeWorkers(n))
  BY <1>1 DEF Bijection, Injection, Surjection, IsInjective
<1>4. ExistsBijection(ids, NodeWorkers(n))
  BY <1>3 DEF ExistsBijection
<1> QED
  BY <1>2, <1>4, FS_Bijection

LEMMA ActiveFinite ==
    ASSUME NEW n \in Node
    PROVE  IsFiniteSet(Active(n)) /\ Cardinality(Active(n)) \in Nat
  BY WorkersFinite, FS_Subset, FS_CardinalityType DEF Active

(* A worker is one of its node's only.                                     *)
LEMMA OwnNode ==
    ASSUME NEW n \in Node, NEW w \in Worker
    PROVE  w[1] \in Node /\ (w \in NodeWorkers(n) <=> w[1] = n)
  BY DEF Worker, NodeWorkers

(* The three conjuncts about node n follow from the state of its threads.  *)
Follows(n) ==
    /\ active_thread_count[n] = Cardinality(Active(n))
    /\ state[n] = "PASSIVE" <=> Active(n) = {}

LEMMA FollowsAll == StateFollowsThreads <=> \A n \in Node : Follows(n)
  BY DEF StateFollowsThreads, Follows, Active

LEMMA ThreadInit == Init => ThreadInv
<1> SUFFICES ASSUME Init PROVE ThreadInv
  OBVIOUS
<1>1. ASSUME NEW n \in Node PROVE Follows(n)
  <2>1. Active(n) = NodeWorkers(n)
    BY DEF Active, NodeWorkers, Init
  <2>2. Cardinality(NodeWorkers(n)) = NumWorkers /\ IsFiniteSet(NodeWorkers(n))
    BY WorkersFinite
  <2>3. NodeWorkers(n) # {}
    BY <2>2, FS_EmptySet, SizesAssumption
  <2>4. active_thread_count[n] = NumWorkers /\ state[n] = "ACTIVE"
    BY DEF Init
  <2> QED
    BY <2>1, <2>2, <2>3, <2>4 DEF Follows
<1> QED
  BY <1>1, FollowsAll, SizesAssumption DEF Init, ThreadInv

LEMMA setThreadActiveKeeps ==
    ASSUME ThreadInv, NEW w \in Worker, setThreadActive(w)
    PROVE  ThreadInv'
<1> DEFINE m == w[1]
<1>1. /\ m \in Node
      /\ w \in NodeWorkers(m)
      /\ state_by_thread[w] = "PASSIVE"
  <2>1. wpc[w] = "setThreadActive"
    BY DEF setThreadActive
  <2>2. m \in Node /\ w \in NodeWorkers(m)
    BY DEF Worker, NodeWorkers
  <2> QED
    BY <2>1, <2>2 DEF ThreadInv
<1>2. /\ state_by_thread' = [state_by_thread EXCEPT ![w] = "ACTIVE"]
      /\ active_thread_count' = [active_thread_count EXCEPT ![m] = @ + 1]
      /\ state' = [state EXCEPT ![m] = "ACTIVE"]
      /\ wpc' = [wpc EXCEPT ![w] = "process"]
  BY DEF setThreadActive
<1> HIDE DEF m
<1>3. ASSUME NEW n \in Node PROVE Follows(n)'
  <2>0. Follows(n)
    BY FollowsAll DEF ThreadInv
  <2>1. CASE n = m
    <3>1. Active(m)' = Active(m) \cup {w}
      BY <1>1, <1>2 DEF Active, ThreadInv, NodeWorkers
    <3>2. w \notin Active(m)
      BY <1>1 DEF Active
    <3>3. Cardinality(Active(m)') = Cardinality(Active(m)) + 1
      BY <1>1, <3>1, <3>2, ActiveFinite, FS_AddElement
    <3>4. state[m]' = "ACTIVE" /\ active_thread_count[m]' = active_thread_count[m] + 1
      BY <1>1, <1>2 DEF ThreadInv
    <3> QED
      BY <2>0, <2>1, <3>1, <3>3, <3>4 DEF Follows
  <2>2. CASE n # m
    <3>1. Active(n)' = Active(n)
      BY <2>2, <1>1, <1>2, OwnNode DEF Active, ThreadInv, NodeWorkers, m
    <3>2. state[n]' = state[n] /\ active_thread_count[n]' = active_thread_count[n]
      BY <2>2, <1>2 DEF ThreadInv
    <3> QED
      BY <2>0, <3>1, <3>2 DEF Follows
  <2> QED
    BY <2>1, <2>2
<1>4. StateFollowsThreads'
  BY <1>3 DEF StateFollowsThreads, Follows, Active
<1> QED
  BY <1>1, <1>2, <1>4 DEF ThreadInv

LEMMA setThreadPassiveKeeps ==
    ASSUME ThreadInv, NEW w \in Worker, setThreadPassive(w)
    PROVE  ThreadInv'
<1> DEFINE m == w[1]
<1>1. /\ m \in Node
      /\ w \in NodeWorkers(m)
      /\ state_by_thread[w] = "ACTIVE"
      /\ wpc[w] = "getEvent"
  <2>1. state_by_thread[w] = "ACTIVE" /\ wpc[w] = "getEvent"
    BY DEF setThreadPassive
  <2>2. m \in Node /\ w \in NodeWorkers(m)
    BY DEF Worker, NodeWorkers
  <2> QED
    BY <2>1, <2>2
<1>2. /\ state_by_thread' = [state_by_thread EXCEPT ![w] = "PASSIVE"]
      /\ active_thread_count' = [active_thread_count EXCEPT ![m] = @ - 1]
      /\ state' = [state EXCEPT ![m] = IF active_thread_count[m] = 1 THEN "PASSIVE" ELSE @]
      /\ wpc' = wpc
  BY DEF setThreadPassive
<1> HIDE DEF m
<1>3. /\ w \in Active(m)
      /\ Active(m)' = Active(m) \ {w}
      /\ IsFiniteSet(Active(m)) /\ Cardinality(Active(m)) \in Nat
  BY <1>1, <1>2, ActiveFinite DEF Active, ThreadInv, NodeWorkers
<1>4. /\ Cardinality(Active(m)') = Cardinality(Active(m)) - 1
      /\ IsFiniteSet(Active(m)')
  BY <1>3, FS_RemoveElement
<1>5. active_thread_count[m] = Cardinality(Active(m)) /\ state[m] = "ACTIVE"
  BY <1>1, <1>3, FollowsAll DEF ThreadInv, Follows
<1>6. Cardinality(Active(m)') \in Nat /\ (Cardinality(Active(m)') = 0 <=> Active(m)' = {})
  BY <1>4, FS_EmptySet, FS_CardinalityType
<1>7. ASSUME NEW n \in Node PROVE Follows(n)'
  <2>0. Follows(n)
    BY FollowsAll DEF ThreadInv
  <2>1. CASE n = m
    <3>1. active_thread_count[m]' = active_thread_count[m] - 1
      BY <1>1, <1>2 DEF ThreadInv
    <3>2. state[m]' = IF active_thread_count[m] = 1 THEN "PASSIVE" ELSE "ACTIVE"
      BY <1>1, <1>2, <1>5 DEF ThreadInv
    <3>3. active_thread_count[m] = 1 <=> Active(m)' = {}
      BY <1>3, <1>4, <1>5, <1>6
    <3> QED
      BY <2>1, <3>1, <3>2, <3>3, <1>4, <1>5 DEF Follows
  <2>2. CASE n # m
    <3>1. Active(n)' = Active(n)
      BY <2>2, <1>1, <1>2, OwnNode DEF Active, ThreadInv, NodeWorkers, m
    <3>2. state[n]' = state[n] /\ active_thread_count[n]' = active_thread_count[n]
      BY <2>2, <1>2 DEF ThreadInv
    <3> QED
      BY <2>0, <3>1, <3>2 DEF Follows
  <2> QED
    BY <2>1, <2>2
<1>8. StateFollowsThreads'
  BY <1>7 DEF StateFollowsThreads, Follows, Active
<1>9. active_thread_count' \in [Node -> Nat] /\ state' \in [Node -> {"ACTIVE", "PASSIVE"}]
  BY <1>1, <1>2, <1>4, <1>5, <1>6 DEF ThreadInv
<1> QED
  BY <1>1, <1>2, <1>8, <1>9 DEF ThreadInv

(* A step that moves a worker on, and no thread's state.                   *)
LEMMA MoveKeeps ==
    ASSUME ThreadInv, NEW w \in Worker,
           UNCHANGED <<state, state_by_thread, active_thread_count>>,
           NEW pc \in {"getEvent", "setThreadActive", "process", "insertMessage"},
           pc = "setThreadActive" => state_by_thread[w] = "PASSIVE",
           wpc' = [wpc EXCEPT ![w] = pc]
    PROVE  ThreadInv'
<1>1. StateFollowsThreads'
  BY DEF ThreadInv, StateFollowsThreads, NodeWorkers
<1> QED
  BY <1>1 DEF ThreadInv

LEMMA SameThreadsKeep ==
    ASSUME ThreadInv, UNCHANGED threadVars
    PROVE  ThreadInv'
<1>1. StateFollowsThreads'
  BY DEF ThreadInv, StateFollowsThreads, threadVars
<1> QED
  BY <1>1 DEF ThreadInv, threadVars

LEMMA ThreadNext == ThreadInv /\ [Next]_vars => ThreadInv'
<1> SUFFICES ASSUME ThreadInv, [Next]_vars PROVE ThreadInv'
  OBVIOUS
<1>1. ASSUME NEW w \in Worker, WorkerStep(w) PROVE ThreadInv'
  <2>1. CASE GetEvent(w)
    <3> DEFINE pc == IF state_by_thread[w] = "PASSIVE" THEN "setThreadActive" ELSE "process"
    <3>1. /\ wpc' = [wpc EXCEPT ![w] = pc]
          /\ UNCHANGED <<state, state_by_thread, active_thread_count>>
      BY <2>1 DEF GetEvent, termVars
    <3> QED
      BY <3>1, MoveKeeps
  <2>2. CASE setThreadActive(w)
    BY <2>2, setThreadActiveKeeps
  <2>3. CASE setThreadPassive(w)
    BY <2>3, setThreadPassiveKeeps
  <2>4. CASE SendLocalEvent(w)
    BY <2>4, SameThreadsKeep DEF SendLocalEvent, threadVars, termVars
  <2>5. CASE updateMsgCount(w)
    <3>1. /\ wpc' = [wpc EXCEPT ![w] = "insertMessage"]
          /\ UNCHANGED <<state, state_by_thread, active_thread_count>>
      BY <2>5 DEF updateMsgCount
    <3> QED
      BY <3>1, MoveKeeps
  <2>6. ASSUME NEW to \in Node, insertMessage(w, to) PROVE ThreadInv'
    <3>1. /\ wpc' = [wpc EXCEPT ![w] = "process"]
          /\ UNCHANGED <<state, state_by_thread, active_thread_count>>
      BY <2>6 DEF insertMessage, termVars
    <3> QED
      BY <3>1, MoveKeeps
  <2>7. CASE Processed(w)
    <3>1. /\ wpc' = [wpc EXCEPT ![w] = "getEvent"]
          /\ UNCHANGED <<state, state_by_thread, active_thread_count>>
      BY <2>7 DEF Processed, termVars
    <3> QED
      BY <3>1, MoveKeeps
  <2> QED
    BY <1>1, <2>1, <2>2, <2>3, <2>4, <2>5, <2>6, <2>7 DEF WorkerStep
<1>2. ASSUME NEW l \in Link, Receive(l) \/ Flush(l) PROVE UNCHANGED threadVars
  <2>1. CASE ReceiveEvent(l)
    BY <2>1 DEF ReceiveEvent, threadVars
  <2>2. CASE receiveTerminationToken(l)
    BY <2>2 DEF receiveTerminationToken, threadVars
  <2>3. CASE receiveTerminator(l)
    BY <2>3 DEF receiveTerminator, threadVars
  <2>4. CASE Flush(l)
    BY <2>4 DEF Flush, threadVars, termVars
  <2> QED
    BY <1>2, <2>1, <2>2, <2>3, <2>4 DEF Receive
<1>3. ASSUME NEW n \in Node, InitiateToken(n) \/ SetSticky(n) PROVE UNCHANGED threadVars
  BY <1>3 DEF InitiateToken, SetSticky, threadVars
<1>4. CASE UNCHANGED vars
  BY <1>4, SameThreadsKeep DEF vars, termVars, threadVars
<1> QED
  BY <1>1, <1>2, <1>3, <1>4, SameThreadsKeep DEF Next

(* state_ is PASSIVE exactly when all the node's threads are, and the      *)
(* count says how many are not, whatever order setThreadActive and         *)
(* setThreadPassive come in.                                               *)
THEOREM SpecStateFollowsThreads == Spec => []StateFollowsThreads
<1>1. ThreadInv => StateFollowsThreads
  BY DEF ThreadInv
<1> QED
  BY ThreadInit, ThreadNext, <1>1, PTL DEF Spec

-----------------------------------------------------------------------------
(* The token.                                                              *)

Msg == [type : {"event", "terminator"}]
         \cup [type : {"token"}, initiator : Node, count : Int]

NoToken(s)   == \A i \in DOMAIN s : s[i].type # "token"
TokenAt(s, i) == /\ i \in DOMAIN s
                 /\ \A j \in DOMAIN s : s[j].type = "token" <=> j = i
JustOne(s)   == \E i \in DOMAIN s : TokenAt(s, i)

WithMaster == /\ \E n \in Node : \A m \in Node : is_master[m] <=> m = n
              /\ \A l \in Link : NoToken(channel[l])

OnItsWay == /\ \A n \in Node : ~ is_master[n]
            /\ \E l \in Link : /\ JustOne(channel[l])
                               /\ \A k \in Link \ {l} : NoToken(channel[k])

TokenType == /\ channel \in [Link -> Seq(Msg)]
             /\ aggregate \in [Link -> Nat]
             /\ msg_count \in [Node -> Int]
             /\ is_master \in [Node -> BOOLEAN]

TokenInv == TokenType /\ (WithMaster \/ OnItsWay)

LEMMA TailOfOther ==
    ASSUME NEW s \in Seq(Msg), s # <<>>, Head(s).type # "token"
    PROVE  /\ Tail(s) \in Seq(Msg)
           /\ NoToken(s) => NoToken(Tail(s))
           /\ JustOne(s) => JustOne(Tail(s))
<1>1. /\ Tail(s) \in Seq(Msg) /\ Len(s) \in Nat /\ Len(s) > 0
      /\ Len(Tail(s)) = Len(s) - 1
      /\ DOMAIN s = 1 .. Len(s) /\ DOMAIN Tail(s) = 1 .. Len(s) - 1
      /\ \A i \in 1 .. Len(s) - 1 : Tail(s)[i] = s[i + 1]
  OBVIOUS
<1>2. NoToken(s) => NoToken(Tail(s))
  BY <1>1 DEF NoToken
<1>3. ASSUME NEW i \in DOMAIN s, TokenAt(s, i) PROVE JustOne(Tail(s))
  <2>1. i # 1
    BY <1>3 DEF TokenAt
  <2>2. i - 1 \in DOMAIN Tail(s)
    BY <1>1, <2>1
  <2>3. \A j \in DOMAIN Tail(s) : Tail(s)[j].type = "token" <=> j = i - 1
    BY <1>1, <1>3 DEF TokenAt
  <2> QED
    BY <2>2, <2>3 DEF JustOne, TokenAt
<1> QED
  BY <1>1, <1>2, <1>3 DEF JustOne

LEMMA TailOfToken ==
    ASSUME NEW s \in Seq(Msg), s # <<>>, Head(s).type = "token", JustOne(s)
    PROVE  Tail(s) \in Seq(Msg) /\ NoToken(Tail(s))
<1>1. /\ Tail(s) \in Seq(Msg) /\ Len(s) \in Nat /\ Len(s) > 0
      /\ DOMAIN s = 1 .. Len(s) /\ DOMAIN Tail(s) = 1 .. Len(s) - 1
      /\ \A i \in 1 .. Len(s) - 1 : Tail(s)[i] = s[i + 1]
      /\ Head(s) = s[1]
  OBVIOUS
<1>2. PICK i \in DOMAIN s : TokenAt(s, i)
  BY DEF JustOne
<1>3. i = 1
  BY <1>1, <1>2 DEF TokenAt
<1> QED
  BY <1>1, <1>2, <1>3 DEF TokenAt, NoToken

(* What follows without a token changes nothing.                           *)
LEMMA AppendOther ==
    ASSUME NEW s \in Seq(Msg), NEW t \in Seq(Msg), NoToken(t)
    PROVE  /\ s \o t \in Seq(Msg)
           /\ NoToken(s) => NoToken(s \o t)
           /\ JustOne(s) => JustOne(s \o t)
<1>1. /\ s \o t \in Seq(Msg) /\ Len(s) \in Nat /\ Len(t) \in Nat
      /\ DOMAIN s = 1 .. Len(s) /\ DOMAIN t = 1 .. Len(t)
      /\ DOMAIN (s \o t) = 1 .. Len(s) + Len(t)
      /\ \A i \in 1 .. Len(s) : (s \o t)[i] = s[i]
      /\ \A i \in 1 .. Len(s) + Len(t) :
            i > Len(s) => i - Len(s) \in DOMAIN t /\ (s \o t)[i] = t[i - Len(s)]
  OBVIOUS
<1>2. \A i \in DOMAIN (s \o t) :
         (s \o t)[i].type = "token" <=> i \in DOMAIN s /\ s[i].type = "token"
  BY <1>1 DEF NoToken
<1>3. NoToken(s) => NoToken(s \o t)
  BY <1>2 DEF NoToken
<1>4. ASSUME NEW i \in DOMAIN s, TokenAt(s, i) PROVE TokenAt(s \o t, i)
  BY <1>1, <1>2, <1>4 DEF TokenAt
<1>5. DOMAIN s \subseteq DOMAIN (s \o t)
  BY <1>1
<1> QED
  BY <1>1, <1>3, <1>4, <1>5 DEF JustOne

LEMMA AppendToken ==
    ASSUME NEW s \in Seq(Msg), NoToken(s), NEW tok \in Msg, tok.type = "token"
    PROVE  s \o <<tok>> \in Seq(Msg) /\ JustOne(s \o <<tok>>)
<1>1. /\ s \o <<tok>> \in Seq(Msg) /\ Len(s) \in Nat
      /\ DOMAIN s = 1 .. Len(s)
      /\ DOMAIN (s \o <<tok>>) = 1 .. Len(s) + 1
      /\ \A i \in 1 .. Len(s) : (s \o <<tok>>)[i] = s[i]
      /\ (s \o <<tok>>)[Len(s) + 1] = tok
  OBVIOUS
<1>2. TokenAt(s \o <<tok>>, Len(s) + 1)
  BY <1>1 DEF TokenAt, NoToken
<1> QED
  BY <1>1, <1>2 DEF JustOne

LEMMA EventsHaveNoToken ==
    ASSUME NEW k \in Nat
    PROVE  Events(k) \in Seq(Msg) /\ NoToken(Events(k))
<1>1. [type |-> "event"] \in Msg
  BY DEF Msg
<1>2. DOMAIN Events(k) = 1 .. k /\ \A i \in 1 .. k : Events(k)[i] = [type |-> "event"]
  BY DEF Events
<1>3. Events(k) \in [1 .. k -> Msg]
  BY <1>1 DEF Events
<1> QED
  BY <1>2, <1>3, SeqDef DEF NoToken

LEMMA TerminatorIsNoToken ==
    LET t == [type |-> "terminator"]
    IN  <<t>> \in Seq(Msg) /\ NoToken(<<t>>)
<1>1. [type |-> "terminator"] \in Msg
  BY DEF Msg
<1>2. <<[type |-> "terminator"]>> \in Seq(Msg)
  BY <1>1
<1> QED
  BY <1>2 DEF NoToken

LEMMA Successor ==
    ASSUME NEW n \in Node
    PROVE  Next1(n) \in Node /\ <<n, Next1(n)>> \in Link
<1>1. Next1(n) \in Node
  BY SizesAssumption, SMTT(20) DEF Node, Next1
<1> QED
  BY <1>1 DEF Link

(* Whatever else is done to the channels, as long as each keeps its token. *)
LEMMA TokensStay ==
    ASSUME TokenInv, TokenType', is_master' = is_master,
           \A l \in Link : /\ NoToken(channel[l]) => NoToken(channel'[l])
                           /\ JustOne(channel[l]) => JustOne(channel'[l])
    PROVE  TokenInv'
<1>1. CASE WithMaster
  BY <1>1 DEF WithMaster, TokenInv
<1>2. CASE OnItsWay
  <2>1. PICK l \in Link : /\ JustOne(channel[l])
                          /\ \A k \in Link \ {l} : NoToken(channel[k])
    BY <1>2 DEF OnItsWay
  <2>2. JustOne(channel'[l]) /\ \A k \in Link \ {l} : NoToken(channel'[k])
    BY <2>1
  <2>3. OnItsWay'
    BY <1>2, <2>2 DEF OnItsWay
  <2> QED
    BY <2>3 DEF TokenInv
<1> QED
  BY <1>1, <1>2 DEF TokenInv

LEMMA FirstOnLink ==
    ASSUME TokenInv, NEW l \in Link, channel[l] # <<>>, Head(channel[l]).type = "token"
    PROVE  /\ OnItsWay
           /\ JustOne(channel[l])
           /\ \A k \in Link \ {l} : NoToken(channel[k])
<1>1. 1 \in DOMAIN channel[l] /\ channel[l][1].type = "token"
  BY DEF TokenInv, TokenType
<1>2. ~ NoToken(channel[l])
  BY <1>1 DEF NoToken
<1> QED
  BY <1>2 DEF TokenInv, WithMaster, OnItsWay

LEMMA TokenInit == Init => TokenInv
<1> SUFFICES ASSUME Init PROVE TokenInv
  OBVIOUS
<1>1. 0 \in Node
  BY SizesAssumption DEF Node
<1>2. TokenType
  BY DEF Init, TokenType
<1>3. \A l \in Link : NoToken(channel[l])
  BY DEF Init, NoToken
<1>4. \A m \in Node : is_master[m] <=> m = 0
  BY DEF Init
<1> QED
  BY <1>1, <1>2, <1>3, <1>4 DEF TokenInv, WithMaster

LEMMA FlushKeeps ==
    ASSUME TokenInv, NEW l \in Link, Flush(l)
    PROVE  TokenInv'
<1>1. /\ channel' = [channel EXCEPT ![l] = @ \o Events(aggregate[l])]
      /\ aggregate' = [aggregate EXCEPT ![l] = 0]
      /\ UNCHANGED <<msg_count, is_master>>
  BY DEF Flush, termVars
<1>2. /\ channel[l] \in Seq(Msg) /\ aggregate[l] \in Nat
      /\ channel \in [Link -> Seq(Msg)]
  BY DEF TokenInv, TokenType
<1>3. LET s == channel[l] \o Events(aggregate[l])
      IN  /\ s \in Seq(Msg)
          /\ NoToken(channel[l]) => NoToken(s)
          /\ JustOne(channel[l]) => JustOne(s)
  BY <1>2, EventsHaveNoToken, AppendOther
<1>4. TokenType'
  BY <1>1, <1>3 DEF TokenInv, TokenType
<1> QED
  BY <1>1, <1>2, <1>3, <1>4, TokensStay

LEMMA ReceiveOtherKeeps ==
    ASSUME TokenInv, NEW l \in Link,
           channel[l] # <<>>, Head(channel[l]).type # "token",
           channel' = [channel EXCEPT ![l] = Tail(@)],
           msg_count' \in [Node -> Int], UNCHANGED <<aggregate, is_master>>
    PROVE  TokenInv'
<1>1. channel[l] \in Seq(Msg) /\ channel \in [Link -> Seq(Msg)]
  BY DEF TokenInv, TokenType
<1>2. /\ Tail(channel[l]) \in Seq(Msg)
      /\ NoToken(channel[l]) => NoToken(Tail(channel[l]))
      /\ JustOne(channel[l]) => JustOne(Tail(channel[l]))
  BY <1>1, TailOfOther
<1>3. TokenType'
  BY <1>2 DEF TokenInv, TokenType
<1> QED
  BY <1>1, <1>2, <1>3, TokensStay

(* A token is sent after the events that wait for its receiver.            *)
LEMMA SendToken ==
    ASSUME NEW s \in Seq(Msg), NoToken(s), NEW k \in Nat,
           NEW initiator \in Node, NEW count \in Int
    PROVE  LET t == s \o Events(k) \o <<Token(initiator, count)>>
           IN  t \in Seq(Msg) /\ JustOne(t)
<1>1. s \o Events(k) \in Seq(Msg) /\ NoToken(s \o Events(k))
  BY EventsHaveNoToken, AppendOther
<1>2. Token(initiator, count) \in Msg /\ Token(initiator, count).type = "token"
  BY DEF Token, Msg
<1> QED
  BY <1>1, <1>2, AppendToken

LEMMA InitiateTokenKeeps ==
    ASSUME TokenInv, NEW n \in Node, InitiateToken(n)
    PROVE  TokenInv'
<1> DEFINE out == <<n, Next1(n)>>
           t   == channel[out] \o Events(aggregate[out]) \o <<Token(n, msg_count[n])>>
<1>1. /\ channel' = [l \in Link |-> IF l = out THEN t ELSE channel[l]]
      /\ aggregate' = [l \in Link |-> IF l = out THEN 0 ELSE aggregate[l]]
      /\ msg_count' = [msg_count EXCEPT ![n] = 0]
      /\ is_master' = [is_master EXCEPT ![n] = FALSE]
      /\ is_master[n]
  <2>1. SendControl({out}, Token(n, msg_count[n])) /\ is_master[n]
    BY DEF InitiateToken
  <2>2. /\ msg_count' = [msg_count EXCEPT ![n] = 0]
        /\ is_master' = [is_master EXCEPT ![n] = FALSE]
    BY DEF InitiateToken
  <2>3. \A l : l \in {out} <=> l = out
    OBVIOUS
  <2>4. channel' = [l \in Link |-> IF l = out THEN t ELSE channel[l]]
    BY <2>1 DEF SendControl
  <2>5. aggregate' = [l \in Link |-> IF l = out THEN 0 ELSE aggregate[l]]
    BY <2>1 DEF SendControl
  <2> QED
    BY <2>1, <2>2, <2>4, <2>5
<1>2. out \in Link
  BY Successor
<1>3. /\ \A l \in Link : NoToken(channel[l])
      /\ \A m \in Node : is_master[m] <=> m = n
  BY <1>1 DEF TokenInv, WithMaster, OnItsWay
<1>4. channel[out] \in Seq(Msg) /\ aggregate[out] \in Nat /\ msg_count[n] \in Int
  BY <1>2 DEF TokenInv, TokenType
<1>5. t \in Seq(Msg) /\ JustOne(t)
  BY <1>2, <1>3, <1>4, SendToken
<1> HIDE DEF out, t
<1>6. TokenType'
  BY <1>1, <1>5 DEF TokenInv, TokenType
<1>7. \A m \in Node : ~ is_master'[m]
  BY <1>1, <1>3 DEF TokenInv, TokenType
<1>8. JustOne(channel'[out]) /\ \A k \in Link \ {out} : NoToken(channel'[k])
  BY <1>1, <1>2, <1>3, <1>5
<1>9. OnItsWay'
  BY <1>2, <1>7, <1>8 DEF OnItsWay
<1> QED
  BY <1>6, <1>9 DEF TokenInv

LEMMA receiveTerminationTokenKeeps ==
    ASSUME TokenInv, NEW l \in Link, receiveTerminationToken(l)
    PROVE  TokenInv'
<1> DEFINE n    == l[2]
           msg  == Head(channel[l])
           rest == [channel EXCEPT ![l] = Tail(@)]
           out  == <<n, Next1(n)>>
<1>1. n \in Node /\ out \in Link
  BY Successor DEF Link
<1>2. channel[l] # <<>> /\ msg.type = "token"
  BY DEF receiveTerminationToken, Arrives
<1>3. /\ OnItsWay
      /\ JustOne(channel[l])
      /\ \A k \in Link \ {l} : NoToken(channel[k])
  BY <1>2, FirstOnLink
<1>4. channel[l] \in Seq(Msg) /\ channel \in [Link -> Seq(Msg)]
  BY DEF TokenInv, TokenType
<1>5. Tail(channel[l]) \in Seq(Msg) /\ NoToken(Tail(channel[l]))
  BY <1>2, <1>3, <1>4, TailOfToken
<1>6. /\ rest \in [Link -> Seq(Msg)]
      /\ \A k \in Link : NoToken(rest[k])
  BY <1>3, <1>4, <1>5
<1>7. /\ aggregate \in [Link -> Nat] /\ msg_count \in [Node -> Int]
      /\ is_master \in [Node -> BOOLEAN]
      /\ \A m \in Node : ~ is_master[m]
  BY <1>3 DEF TokenInv, TokenType, OnItsWay
<1>8. msg.initiator \in Node /\ msg.count \in Int
  <2>1. msg \in Msg
    BY <1>2, <1>4
  <2> QED
    BY <2>1, <1>2 DEF Msg
<1>9. ASSUME is_master' = [is_master EXCEPT ![n] = TRUE],
             channel' \in [Link -> Seq(Msg)], aggregate' \in [Link -> Nat],
             UNCHANGED msg_count,
             \A k \in Link : NoToken(channel'[k])
      PROVE  TokenInv'
  <2>1. \A m \in Node : is_master'[m] <=> m = n
    BY <1>1, <1>7, <1>9
  <2>2. WithMaster'
    BY <1>1, <1>9, <2>1 DEF WithMaster
  <2>3. TokenType'
    BY <1>1, <1>7, <1>9 DEF TokenType
  <2> QED
    BY <2>2, <2>3 DEF TokenInv
<1>10. CASE sticky_state[n] = "PASSIVE" /\ msg.initiator = n
  <2>1. /\ is_master' = [is_master EXCEPT ![n] = TRUE]
        /\ UNCHANGED msg_count
        /\ IF msg.count = 0
           THEN /\ channel' = [k \in Link |->
                      IF k[1] = n
                      THEN rest[k] \o Events(aggregate[k]) \o <<[type |-> "terminator"]>>
                      ELSE rest[k]]
                /\ aggregate' = [k \in Link |-> IF k[1] = n THEN 0 ELSE aggregate[k]]
           ELSE channel' = rest /\ UNCHANGED aggregate
    BY <1>10 DEF receiveTerminationToken
  <2> HIDE DEF rest, msg, n
  <2>2. ASSUME NEW k \in Link
        PROVE  LET s == rest[k] \o Events(aggregate[k]) \o <<[type |-> "terminator"]>>
               IN  s \in Seq(Msg) /\ NoToken(s)
    <3>1. rest[k] \in Seq(Msg) /\ NoToken(rest[k]) /\ aggregate[k] \in Nat
      BY <1>6, <1>7
    <3>2. /\ rest[k] \o Events(aggregate[k]) \in Seq(Msg)
          /\ NoToken(rest[k] \o Events(aggregate[k]))
      BY <3>1, EventsHaveNoToken, AppendOther
    <3> QED
      BY <3>2, TerminatorIsNoToken, AppendOther
  <2>3. CASE msg.count = 0
    <3>1. /\ channel' \in [Link -> Seq(Msg)]
          /\ \A k \in Link : NoToken(channel'[k])
      BY <1>6, <2>1, <2>2, <2>3
    <3>2. aggregate' \in [Link -> Nat]
      BY <1>7, <2>1, <2>3
    <3> QED
      BY <2>1, <3>1, <3>2, <1>9
  <2>4. CASE msg.count # 0
    BY <1>6, <1>7, <2>1, <2>4, <1>9
  <2> QED
    BY <2>3, <2>4
<1>11. CASE sticky_state[n] = "PASSIVE" /\ msg.initiator # n
  <2> DEFINE count == msg_count[n] + msg.count
             t == rest[out] \o Events(aggregate[out]) \o <<Token(msg.initiator, count)>>
  <2>1. /\ is_master' = [is_master EXCEPT ![n] = FALSE]
        /\ msg_count' = [msg_count EXCEPT ![n] = 0]
        /\ channel' = [rest EXCEPT ![out] = @ \o Events(aggregate[out]) \o
                          <<Token(msg.initiator, count)>>]
        /\ aggregate' = [aggregate EXCEPT ![out] = 0]
    BY <1>11 DEF receiveTerminationToken
  <2> HIDE DEF rest, msg, n
  <2>2. count \in Int
    BY <1>1, <1>7, <1>8
  <2>3. rest[out] \in Seq(Msg) /\ NoToken(rest[out]) /\ aggregate[out] \in Nat
    BY <1>1, <1>6, <1>7
  <2>4. t \in Seq(Msg) /\ JustOne(t)
    BY <1>8, <2>2, <2>3, SendToken
  <2>5. channel' = [rest EXCEPT ![out] = t]
    BY <1>1, <1>6, <2>1
  <2> HIDE DEF t, count, out
  <2>6. /\ JustOne(channel'[out])
        /\ \A k \in Link \ {out} : NoToken(channel'[k])
        /\ channel' \in [Link -> Seq(Msg)]
    BY <1>1, <1>6, <2>4, <2>5
  <2>7. \A m \in Node : ~ is_master'[m]
    BY <1>7, <2>1
  <2>8. TokenType'
    BY <1>1, <1>7, <2>1, <2>6 DEF TokenType
  <2>9. OnItsWay'
    BY <1>1, <2>6, <2>7 DEF OnItsWay
  <2> QED
    BY <2>8, <2>9 DEF TokenInv
<1>12. CASE sticky_state[n] # "PASSIVE"
  <2>1. /\ is_master' = [is_master EXCEPT ![n] = TRUE]
        /\ channel' = rest
        /\ UNCHANGED <<msg_count, aggregate>>
    BY <1>12 DEF receiveTerminationToken
  <2> HIDE DEF rest, n
  <2> QED
    BY <1>6, <1>7, <2>1, <1>9
<1> QED
  BY <1>10, <1>11, <1>12

LEMMA TokenNext == TokenInv /\ [Next]_vars => TokenInv'
<1> SUFFICES ASSUME TokenInv, [Next]_vars PROVE TokenInv'
  OBVIOUS
<1>0. ASSUME UNCHANGED <<channel, aggregate, msg_count, is_master>> PROVE TokenInv'
  BY <1>0 DEF TokenInv, TokenType, WithMaster, OnItsWay
<1>1. ASSUME NEW w \in Worker, WorkerStep(w) PROVE TokenInv'
  <2>1. CASE GetEvent(w) \/ SendLocalEvent(w) \/ Processed(w)
    BY <2>1, <1>0 DEF GetEvent, SendLocalEvent, Processed, termVars, netVars
  <2>2. CASE setThreadActive(w) \/ setThreadPassive(w)
    BY <2>2, <1>0 DEF setThreadActive, setThreadPassive, netVars
  <2>3. CASE updateMsgCount(w)
    <3>1. w[1] \in Node
      BY DEF Worker
    <3>2. /\ msg_count' = [msg_count EXCEPT ![w[1]] = @ + 1]
          /\ UNCHANGED <<channel, aggregate, is_master>>
      BY <2>3 DEF updateMsgCount, netVars
    <3>3. TokenType'
      BY <3>1, <3>2 DEF TokenInv, TokenType
    <3> QED
      BY <3>2, <3>3, TokensStay
  <2>4. ASSUME NEW to \in Node, insertMessage(w, to) PROVE TokenInv'
    <3>1. w[1] \in Node /\ <<w[1], to>> \in Link
      BY DEF Worker, Link
    <3>2. /\ aggregate' = [aggregate EXCEPT ![<<w[1], to>>] = @ + 1]
          /\ UNCHANGED <<channel, msg_count, is_master>>
      BY <2>4 DEF insertMessage, termVars
    <3>3. TokenType'
      BY <3>1, <3>2 DEF TokenInv, TokenType
    <3> QED
      BY <3>2, <3>3, TokensStay
  <2> QED
    BY <1>1, <2>1, <2>2, <2>3, <2>4 DEF WorkerStep
<1>2. ASSUME NEW l \in Link, Receive(l) \/ Flush(l) PROVE TokenInv'
  <2>0. l[2] \in Node
    BY DEF Link
  <2>1. CASE ReceiveEvent(l)
    <3>1. /\ channel[l] # <<>> /\ Head(channel[l]).type = "event"
          /\ channel' = [channel EXCEPT ![l] = Tail(@)]
          /\ msg_count' = [msg_count EXCEPT ![l[2]] = @ - 1]
          /\ UNCHANGED <<aggregate, is_master>>
      BY <2>1 DEF ReceiveEvent, Arrives
    <3>2. msg_count' \in [Node -> Int]
      BY <2>0, <3>1 DEF TokenInv, TokenType
    <3> QED
      BY <3>1, <3>2, ReceiveOtherKeeps
  <2>2. CASE receiveTerminationToken(l)
    BY <2>2, receiveTerminationTokenKeeps
  <2>3. CASE receiveTerminator(l)
    <3>1. /\ channel[l] # <<>> /\ Head(channel[l]).type = "terminator"
          /\ channel' = [channel EXCEPT ![l] = Tail(@)]
          /\ UNCHANGED <<aggregate, is_master, msg_count>>
      BY <2>3 DEF receiveTerminator, Arrives
    <3>2. msg_count' \in [Node -> Int]
      BY <3>1 DEF TokenInv, TokenType
    <3> QED
      BY <3>1, <3>2, ReceiveOtherKeeps
  <2>4. CASE Flush(l)
    BY <2>4, FlushKeeps
  <2> QED
    BY <1>2, <2>1, <2>2, <2>3, <2>4 DEF Receive
<1>3. ASSUME NEW n \in Node, InitiateToken(n) \/ SetSticky(n) PROVE TokenInv'
  <2>1. CASE InitiateToken(n)
    BY <2>1, InitiateTokenKeeps
  <2>2. CASE SetSticky(n)
    BY <2>2, <1>0 DEF SetSticky, netVars
  <2> QED
    BY <1>3, <2>1, <2>2
<1>4. CASE UNCHANGED vars
  BY <1>4, <1>0 DEF vars, termVars, netVars
<1> QED
  BY <1>1, <1>2, <1>3, <1>4 DEF Next

LEMMA TokenInvCounts == TokenInv => OneToken
<1> DEFINE onLink  == UNION {{l} \X OnLink(l, "token") : l \in Link}
           masters == {n \in Node : is_master[n]}
<1>1. ASSUME WithMaster PROVE Cardinality(onLink) + Cardinality(masters) = 1
  <2>1. PICK n \in Node : \A m \in Node : is_master[m] <=> m = n
    BY <1>1 DEF WithMaster
  <2>2. masters = {n}
    BY <2>1
  <2>3. \A l \in Link : OnLink(l, "token") = {}
    BY <1>1 DEF WithMaster, OnLink, NoToken
  <2>4. onLink = {}
    BY <2>3
  <2>5. Cardinality(onLink) = 0 /\ Cardinality(masters) = 1
    <3> HIDE DEF onLink, masters
    <3> QED
      BY <2>2, <2>4, FS_EmptySet, FS_Singleton
  <2> QED
    BY <2>5
<1>2. ASSUME OnItsWay PROVE Cardinality(onLink) + Cardinality(masters) = 1
  <2>1. PICK l \in Link : /\ JustOne(channel[l])
                          /\ \A k \in Link \ {l} : NoToken(channel[k])
    BY <1>2 DEF OnItsWay
  <2>2. PICK i \in DOMAIN channel[l] : TokenAt(channel[l], i)
    BY <2>1 DEF JustOne
  <2>3. OnLink(l, "token") = {i}
    BY <2>2 DEF OnLink, TokenAt
  <2>4. \A k \in Link \ {l} : OnLink(k, "token") = {}
    BY <2>1 DEF OnLink, NoToken
  <2>5. onLink = {<<l, i>>}
    BY <2>3, <2>4
  <2>6. masters = {}
    BY <1>2 DEF OnItsWay
  <2>7. Cardinality(onLink) = 1 /\ Cardinality(masters) = 0
    <3> HIDE DEF onLink, masters
    <3> QED
      BY <2>5, <2>6, FS_EmptySet, FS_Singleton
  <2> QED
    BY <2>7
<1> QED
  BY <1>1, <1>2 DEF TokenInv, OneToken

(* The token is never lost and never duplicated: one node holds it, or it  *)
(* is on one link.                                                         *)
THEOREM SpecOneToken == Spec => []OneToken
  BY TokenInit, TokenNext, TokenInvCounts, PTL DEF Spec

-----------------------------------------------------------------------------
(* Termination would come last if tokens were in time.                     *)

(* What the algorithm relies on and nothing in the code ensures: that a    *)
(* token overtakes neither events sent to the same node nor the node's     *)
(* workers, which have to take an event before the node counts as active.  *)
InTime(l) ==
    /\ \A from \in Node \ {l[1]} :
          aggregate[<<from, l[2]>>] = 0 /\ OnLink(<<from, l[2]>>, "event") = {}
    /\ pending[l[2]] = 0
    /\ \A w \in NodeWorkers(l[2]) : wpc[w] # "setThreadActive"

TokensInTime == \A l \in Link : receiveTerminationToken(l) => InTime(l)

(* How far the token has come from its initiator when it is on its way to  *)
(* node n; all the way round for the initiator itself.                     *)
Ahead(initiator, n) == IF n > initiator THEN n - initiator ELSE n - initiator + NumNodes

(* The nodes it has been to: those between the two.                        *)
Visited(initiator, n) == {m \in Node : Ahead(initiator, m) < Ahead(initiator, n)}

NoEvent(s) == \A i \in DOMAIN s : s[i].type # "event"

(* No event in a node's hands, and none on its way to it.                  *)
Idle(n)  == /\ pending[n] = 0
            /\ \A w \in Worker : w[1] = n => wpc[w] = "getEvent"
Clear(l) == aggregate[l] = 0 /\ NoEvent(channel[l])
Quiet(n) == Idle(n) /\ \A from \in Node : Clear(<<from, n>>)

(* On the link of the token, nothing has been sent after the token.        *)
NothingBehind(l) ==
    /\ aggregate[l] = 0
    /\ \A i, j \in DOMAIN channel[l] :
           channel[l][i].type = "token" /\ channel[l][j].type = "event" => j < i

(* As long as every node that the token has yet to visit was passive since *)
(* the last visit, those it has visited are quiet, and remain so.          *)
RoundOK(l, initiator) ==
    /\ l[2] = Next1(l[1])
    /\ \/ \E n \in Node \ Visited(initiator, l[2]) : sticky_state[n] = "ACTIVE"
       \/ /\ NothingBehind(l)
          /\ \A n \in Visited(initiator, l[2]) : Quiet(n)

RoundInv ==
    \A l \in Link : \A i \in DOMAIN channel[l] :
        channel[l][i].type = "token" => RoundOK(l, channel[l][i].initiator)

(* A thread is active while it processes.                                  *)
ProcessingIsActive ==
    \A w \in Worker : wpc[w] \in {"process", "insertMessage"} => state_by_thread[w] = "ACTIVE"

StickyInv ==
    \A n \in Node : sticky_state[n] = "PASSIVE" => state[n] = "PASSIVE"

(* Nothing happens at a node whose master is about to make it passive; a   *)
(* sticky state that it resets is that of a node that keeps the token.     *)
MasterInv ==
    \A n \in Node : mpc[n] = "PASSIVE" =>
        /\ Idle(n)
        /\ state[n] = "PASSIVE"
        /\ sticky_state[n] = "PASSIVE" \/ is_master[n]

(* Once a terminator has been sent nothing is left anywhere.               *)
Ended == \/ \E n \in Node : terminate[n]
         \/ \E l \in Link : \E i \in DOMAIN channel[l] : channel[l][i].type = "terminator"
EndInv == Ended => \A n \in Node : Quiet(n)

EndType == /\ pending \in [Node -> Nat]
           /\ sticky_state \in [Node -> {"ACTIVE", "PASSIVE"}]
           /\ mpc \in [Node -> {"handleMessages", "ACTIVE", "PASSIVE"}]
           /\ terminate \in [Node -> BOOLEAN]

RoundsInv == /\ ThreadInv
             /\ TokenInv
             /\ EndType
             /\ ProcessingIsActive
             /\ StickyInv
             /\ MasterInv
             /\ RoundInv
             /\ EndInv

-----------------------------------------------------------------------------
(* The way of the token.                                                   *)

LEMMA NextIs ==
    ASSUME NEW n \in Node
    PROVE  Next1(n) = IF n + 1 = NumNodes THEN 0 ELSE n + 1
<1>1. /\ NumNodes \in Nat \ {0} /\ n \in Nat /\ n + 1 <= NumNodes
  BY SizesAssumption DEF Node
<1>2. CASE n + 1 = NumNodes
  BY <1>1, <1>2, SMTT(20) DEF Next1
<1>3. CASE n + 1 < NumNodes
  BY <1>1, <1>3, SMTT(20) DEF Next1
<1> QED
  BY <1>1, <1>2, <1>3

(* Where the token starts it has been nowhere; a node that forwards it is  *)
(* added; and when it is back it has been at all the others.               *)
LEMMA VisitedGrows ==
    ASSUME NEW i \in Node, NEW n \in Node
    PROVE  /\ Visited(i, Next1(i)) = {}
           /\ Visited(i, i) = Node \ {i}
           /\ i # n => Visited(i, Next1(n)) = Visited(i, n) \cup {n}
           /\ n \notin Visited(i, n)
<1>1. /\ NumNodes \in Nat \ {0} /\ i \in 0 .. NumNodes - 1 /\ n \in 0 .. NumNodes - 1
      /\ Node = 0 .. NumNodes - 1
  BY SizesAssumption DEF Node
<1>2. /\ \A m \in Node : Ahead(i, m) \in 1 .. NumNodes /\ (Ahead(i, m) = NumNodes <=> m = i)
      /\ \A m \in Node : Ahead(i, m) = Ahead(i, n) <=> m = n
  BY <1>1 DEF Ahead
<1>3. Ahead(i, Next1(i)) = 1
  BY <1>1, NextIs DEF Ahead
<1>4. i # n => Ahead(i, Next1(n)) = Ahead(i, n) + 1
  BY <1>1, NextIs DEF Ahead
<1>5. Visited(i, Next1(i)) = {}
  BY <1>2, <1>3 DEF Visited
<1>6. Visited(i, i) = Node \ {i}
  BY <1>1, <1>2 DEF Visited
<1>7. ASSUME i # n PROVE Visited(i, Next1(n)) = Visited(i, n) \cup {n}
  <2>1. \A m \in Node : Ahead(i, m) < Ahead(i, n) + 1 <=> Ahead(i, m) < Ahead(i, n) \/ m = n
    BY <1>1, <1>2
  <2> QED
    BY <1>4, <1>7, <2>1 DEF Visited
<1> QED
  BY <1>1, <1>2, <1>5, <1>6, <1>7 DEF Visited

-----------------------------------------------------------------------------
(* What a step does to a link.                                             *)

LEMMA TailIs ==
    ASSUME NEW s \in Seq(Msg), s # <<>>
    PROVE  /\ 1 \in DOMAIN s /\ Head(s) = s[1]
           /\ \A i \in DOMAIN Tail(s) : i \in Nat /\ i + 1 \in DOMAIN s /\ Tail(s)[i] = s[i + 1]
<1>1. /\ Len(s) \in Nat /\ Len(s) > 0
      /\ DOMAIN s = 1 .. Len(s) /\ DOMAIN Tail(s) = 1 .. Len(s) - 1
      /\ \A i \in 1 .. Len(s) - 1 : Tail(s)[i] = s[i + 1]
      /\ Head(s) = s[1]
  OBVIOUS
<1> QED
  BY <1>1

LEMMA ConcatIs ==
    ASSUME NEW s \in Seq(Msg), NEW t \in Seq(Msg)
    PROVE  /\ s \o t \in Seq(Msg)
           /\ \A i \in DOMAIN (s \o t) :
                 \/ i \in DOMAIN s /\ (s \o t)[i] = s[i]
                 \/ /\ \A k \in DOMAIN s : k < i
                    /\ \E j \in DOMAIN t : (s \o t)[i] = t[j] /\ i = Len(s) + j
<1>1. /\ s \o t \in Seq(Msg) /\ Len(s) \in Nat /\ Len(t) \in Nat
      /\ DOMAIN s = 1 .. Len(s) /\ DOMAIN t = 1 .. Len(t)
      /\ DOMAIN (s \o t) = 1 .. Len(s) + Len(t)
      /\ \A i \in 1 .. Len(s) : (s \o t)[i] = s[i]
      /\ \A i \in 1 .. Len(s) + Len(t) :
            i > Len(s) => i - Len(s) \in DOMAIN t /\ (s \o t)[i] = t[i - Len(s)]
  OBVIOUS
<1>2. ASSUME NEW i \in DOMAIN (s \o t), i \notin DOMAIN s
      PROVE  /\ \A k \in DOMAIN s : k < i
             /\ \E j \in DOMAIN t : (s \o t)[i] = t[j] /\ i = Len(s) + j
  <2>1. i > Len(s) /\ i \in 1 .. Len(s) + Len(t)
    BY <1>1, <1>2
  <2> QED
    BY <1>1, <2>1
<1> QED
  BY <1>1, <1>2

LEMMA EventsAre ==
    ASSUME NEW k \in Nat
    PROVE  /\ Events(k) \in Seq(Msg)
           /\ \A i \in DOMAIN Events(k) : Events(k)[i].type = "event"
           /\ k = 0 => NoEvent(Events(k))
<1>1. DOMAIN Events(k) = 1 .. k /\ \A i \in 1 .. k : Events(k)[i] = [type |-> "event"]
  BY DEF Events
<1> QED
  BY <1>1, EventsHaveNoToken DEF NoEvent

(* A control message follows the events that wait for its receiver.        *)
Sent(s, k, msg) == s \o Events(k) \o <<msg>>

LEMMA SentIs ==
    ASSUME NEW s \in Seq(Msg), NEW k \in Nat, NEW msg \in Msg, msg.type # "event"
    PROVE  /\ Sent(s, k, msg) \in Seq(Msg)
           /\ NoEvent(s) /\ k = 0 => NoEvent(Sent(s, k, msg))
           /\ \A i \in DOMAIN Sent(s, k, msg) :
                 \/ i \in DOMAIN s /\ Sent(s, k, msg)[i] = s[i]
                 \/ Sent(s, k, msg)[i].type = "event"
                 \/ /\ Sent(s, k, msg)[i] = msg
                    /\ \A j \in DOMAIN Sent(s, k, msg) :
                          Sent(s, k, msg)[j].type = "event" => j < i
<1> DEFINE u == s \o Events(k)
           m == <<msg>>
<1>1. /\ u \in Seq(Msg)
      /\ \A i \in DOMAIN u : \/ i \in DOMAIN s /\ u[i] = s[i]
                             \/ \E j \in DOMAIN Events(k) : u[i] = Events(k)[j]
  <2>1. Events(k) \in Seq(Msg)
    BY EventsAre
  <2> QED
    BY <2>1, ConcatIs
<1>2. m \in Seq(Msg) /\ DOMAIN m = {1} /\ m[1] = msg
  OBVIOUS
<1>3. \A i \in DOMAIN u : \/ i \in DOMAIN s /\ u[i] = s[i]
                          \/ k # 0 /\ u[i].type = "event"
  BY <1>1, EventsAre DEF NoEvent
<1> HIDE DEF u, m
<1>4. /\ u \o m \in Seq(Msg)
      /\ \A i \in DOMAIN (u \o m) : \/ i \in DOMAIN u /\ (u \o m)[i] = u[i]
                                    \/ /\ \A j \in DOMAIN u : j < i
                                       /\ \E j \in DOMAIN m : (u \o m)[i] = m[j] /\ i = Len(u) + j
  BY <1>1, <1>2, ConcatIs
<1>5. ASSUME NEW i \in DOMAIN (u \o m), i \notin DOMAIN u
      PROVE  /\ (u \o m)[i] = msg
             /\ \A j \in DOMAIN (u \o m) : (u \o m)[j].type = "event" => j < i
  <2>1. (u \o m)[i] = msg /\ i = Len(u) + 1 /\ \A j \in DOMAIN u : j < i
    BY <1>2, <1>4, <1>5
  <2>2. ASSUME NEW j \in DOMAIN (u \o m), (u \o m)[j].type = "event" PROVE j \in DOMAIN u
    BY <1>2, <1>4, <2>2
  <2> QED
    BY <2>1, <2>2
<1>6. Sent(s, k, msg) = u \o m
  BY DEF Sent, u, m
<1>7. ASSUME NoEvent(s), k = 0 PROVE NoEvent(u \o m)
  BY <1>2, <1>3, <1>4, <1>7 DEF NoEvent
<1>8. \A i \in DOMAIN (u \o m) :
         \/ i \in DOMAIN s /\ (u \o m)[i] = s[i]
         \/ (u \o m)[i].type = "event"
         \/ /\ (u \o m)[i] = msg
            /\ \A j \in DOMAIN (u \o m) : (u \o m)[j].type = "event" => j < i
  BY <1>3, <1>4, <1>5
<1> QED
  BY <1>4, <1>6, <1>7, <1>8

-----------------------------------------------------------------------------
(* Steps that leave the token alone.                                       *)

PlainStep ==
    \/ \E w \in Worker : WorkerStep(w)
    \/ \E l \in Link : ReceiveEvent(l) \/ receiveTerminator(l) \/ Flush(l)
    \/ \E n \in Node : SetSticky(n)

Inserting == \E w \in Worker : wpc[w] = "insertMessage"

Kept(l)    == channel'[l] = channel[l] /\ aggregate'[l] = aggregate[l]
Taken(l)   == /\ channel[l] # <<>>
              /\ Head(channel[l]).type # "token"
              /\ channel'[l] = Tail(channel[l])
              /\ aggregate'[l] = aggregate[l]
Flushed(l) == /\ aggregate[l] # 0
              /\ channel'[l] = channel[l] \o Events(aggregate[l])
              /\ aggregate'[l] = 0

LEMMA StepIs ==
    ASSUME Next
    PROVE  \/ PlainStep
           \/ \E l \in Link : receiveTerminationToken(l)
           \/ \E n \in Node : InitiateToken(n)
  BY DEF Next, Receive, PlainStep

LEMMA SentHolds ==
    ASSUME NEW s \in Seq(Msg), NEW k \in Nat, NEW msg \in Msg, msg.type # "event"
    PROVE  \A i \in DOMAIN Sent(s, k, msg) :
              \/ i \in DOMAIN s /\ Sent(s, k, msg)[i] = s[i]
              \/ Sent(s, k, msg)[i].type = "event"
              \/ Sent(s, k, msg)[i] = msg
  BY SentIs

LEMMA PlainLink ==
    ASSUME TokenInv, PlainStep, NEW l \in Link
    PROVE  Kept(l) \/ Taken(l) \/ Flushed(l) \/ (Inserting /\ channel'[l] = channel[l])
<1>1. /\ channel \in [Link -> Seq(Msg)] /\ aggregate \in [Link -> Nat]
  BY DEF TokenInv, TokenType
<1>2. ASSUME NEW w \in Worker, WorkerStep(w)
      PROVE  Kept(l) \/ (Inserting /\ channel'[l] = channel[l])
  <2>1. CASE \E to \in Node : insertMessage(w, to)
    BY <2>1 DEF insertMessage, Inserting
  <2>2. CASE UNCHANGED netVars
    BY <2>2 DEF netVars, Kept
  <2> QED
    BY <1>2, <2>1, <2>2 DEF WorkerStep, GetEvent, setThreadActive, setThreadPassive,
       SendLocalEvent, updateMsgCount, Processed
<1>3. ASSUME NEW k \in Link, channel[k] # <<>>, Head(channel[k]).type # "token",
             channel' = [channel EXCEPT ![k] = Tail(@)], UNCHANGED aggregate
      PROVE  Kept(l) \/ Taken(l)
  BY <1>1, <1>3 DEF Kept, Taken
<1>4. ASSUME NEW k \in Link, ReceiveEvent(k) \/ receiveTerminator(k)
      PROVE  Kept(l) \/ Taken(l)
  BY <1>3, <1>4 DEF ReceiveEvent, receiveTerminator, Arrives
<1>5. ASSUME NEW k \in Link, Flush(k)
      PROVE  Kept(l) \/ Flushed(l)
  BY <1>1, <1>5 DEF Flush, Kept, Flushed
<1>6. ASSUME NEW n \in Node, SetSticky(n) PROVE Kept(l)
  BY <1>6 DEF SetSticky, netVars, Kept
<1> QED
  BY <1>2, <1>4, <1>5, <1>6 DEF PlainStep

(* What is then on a link was on it before, or is an event.                *)
LEMMA PlainMessages ==
    ASSUME TokenInv, PlainStep, NEW l \in Link, NEW i \in DOMAIN channel'[l],
           channel'[l][i].type # "event"
    PROVE  \E j \in DOMAIN channel[l] : channel[l][j] = channel'[l][i]
<1>1. channel[l] \in Seq(Msg) /\ aggregate[l] \in Nat
  BY DEF TokenInv, TokenType
<1>2. CASE channel'[l] = channel[l]
  BY <1>2
<1>3. CASE Taken(l)
  BY <1>1, <1>3, TailIs DEF Taken
<1>4. CASE Flushed(l)
  <2> DEFINE t == Events(aggregate[l])
  <2>1. t \in Seq(Msg) /\ \A j \in DOMAIN t : t[j].type = "event"
    BY <1>1, EventsAre
  <2>2. channel'[l] = channel[l] \o t
    BY <1>4 DEF Flushed
  <2> HIDE DEF t
  <2> QED
    BY <1>1, <2>1, <2>2, ConcatIs
<1> QED
  BY <1>2, <1>3, <1>4, PlainLink DEF Kept

(* A link without events gets none, unless a worker inserts one.           *)
LEMMA ClearAfterPlain ==
    ASSUME TokenInv, PlainStep, ~ Inserting, NEW l \in Link, Clear(l)
    PROVE  Clear(l)'
<1>1. channel[l] \in Seq(Msg)
  BY DEF TokenInv, TokenType
<1>2. CASE Kept(l)
  BY <1>2 DEF Kept, Clear, NoEvent
<1>3. CASE Taken(l)
  BY <1>1, <1>3, TailIs DEF Taken, Clear, NoEvent
<1> QED
  BY <1>2, <1>3, PlainLink DEF Flushed, Clear

(* Nothing gets behind the token, either.                                  *)
LEMMA BehindAfterPlain ==
    ASSUME TokenInv, PlainStep, ~ Inserting, NEW l \in Link, NothingBehind(l)
    PROVE  NothingBehind(l)'
<1>1. channel[l] \in Seq(Msg)
  BY DEF TokenInv, TokenType
<1>2. CASE Kept(l)
  BY <1>2 DEF Kept, NothingBehind
<1>3. CASE Taken(l)
  <2>1. channel'[l] = Tail(channel[l]) /\ aggregate'[l] = 0 /\ channel[l] # <<>>
    BY <1>3 DEF Taken, NothingBehind
  <2>2. ASSUME NEW i \in DOMAIN channel'[l], NEW j \in DOMAIN channel'[l],
               channel'[l][i].type = "token", channel'[l][j].type = "event"
        PROVE  j < i
    <3>1. /\ i \in Nat /\ i + 1 \in DOMAIN channel[l] /\ channel'[l][i] = channel[l][i + 1]
          /\ j \in Nat /\ j + 1 \in DOMAIN channel[l] /\ channel'[l][j] = channel[l][j + 1]
      BY <1>1, <2>1, <2>2, TailIs
    <3>2. j + 1 < i + 1
      BY <2>2, <3>1 DEF NothingBehind
    <3> QED
      BY <3>1, <3>2
  <2> QED
    BY <2>1, <2>2 DEF NothingBehind
<1> QED
  BY <1>2, <1>3, PlainLink DEF Flushed, NothingBehind

-----------------------------------------------------------------------------
(* Quiet nodes stay quiet.                                                 *)


-----------------------------------------------------------------------------
(* Quiet nodes stay quiet.                                                 *)

LEMMA OtherWorker ==
    ASSUME ThreadInv, EndType, NEW w \in Worker, WorkerStep(w), NEW n \in Node, w[1] # n
    PROVE  /\ pending'[n] = pending[n] /\ state'[n] = state[n]
           /\ sticky_state'[n] = sticky_state[n]
           /\ \A u \in Worker : u[1] = n => wpc'[u] = wpc[u]
<1>1. /\ pending \in [Node -> Nat] /\ DOMAIN wpc = Worker
      /\ DOMAIN state = Node /\ DOMAIN sticky_state = Node
      /\ \A u \in Worker : u[1] = n => u # w
  BY DEF EndType, ThreadInv
<1>2. CASE GetEvent(w)
  BY <1>1, <1>2 DEF GetEvent, termVars
<1>3. CASE setThreadActive(w)
  BY <1>1, <1>3 DEF setThreadActive
<1>4. CASE setThreadPassive(w)
  BY <1>1, <1>4 DEF setThreadPassive
<1>5. CASE SendLocalEvent(w)
  BY <1>1, <1>5 DEF SendLocalEvent, termVars
<1>6. CASE updateMsgCount(w)
  BY <1>1, <1>6 DEF updateMsgCount
<1>7. CASE \E to \in Node : insertMessage(w, to)
  BY <1>1, <1>7 DEF insertMessage, termVars
<1>8. CASE Processed(w)
  BY <1>1, <1>8 DEF Processed, termVars
<1> QED
  BY <1>2, <1>3, <1>4, <1>5, <1>6, <1>7, <1>8 DEF WorkerStep

(* An idle node's worker finds nothing, and turns passive.                 *)
LEMMA OwnWorker ==
    ASSUME NEW w \in Worker, WorkerStep(w), Idle(w[1])
    PROVE  setThreadPassive(w)
<1>1. pending[w[1]] = 0 /\ wpc[w] = "getEvent"
  BY DEF Idle
<1> QED
  BY <1>1 DEF WorkerStep, GetEvent, setThreadActive, SendLocalEvent, updateMsgCount,
     insertMessage, Processed

LEMMA IdleStays ==
    ASSUME ThreadInv, TokenInv, EndType, Next, NEW n \in Node, Idle(n),
           mpc[n] # "handleMessages" \/ \A from \in Node : NoEvent(channel[<<from, n>>])
    PROVE  Idle(n)'
<1>1. ASSUME NEW w \in Worker, WorkerStep(w) PROVE Idle(n)'
  <2>1. CASE w[1] = n
    BY <1>1, <2>1, OwnWorker DEF setThreadPassive, Idle
  <2>2. CASE w[1] # n
    BY <1>1, <2>2, OtherWorker DEF Idle
  <2> QED
    BY <2>1, <2>2
<1>2. ASSUME NEW l \in Link, ReceiveEvent(l) PROVE Idle(n)'
  <2>1. /\ channel[l] # <<>> /\ Head(channel[l]).type = "event"
        /\ mpc[l[2]] = "handleMessages"
        /\ pending' = [pending EXCEPT ![l[2]] = @ + 1]
        /\ wpc' = wpc
    BY <1>2 DEF ReceiveEvent, Arrives
  <2>2. l = <<l[1], l[2]>> /\ l[1] \in Node /\ l[2] \in Node /\ channel[l] \in Seq(Msg)
    BY DEF Link, TokenInv, TokenType
  <2>3. ~ NoEvent(channel[l])
    BY <2>1, <2>2, TailIs DEF NoEvent
  <2>4. l[2] # n
    BY <2>1, <2>2, <2>3
  <2>5. pending'[n] = pending[n]
    BY <2>1, <2>4 DEF EndType
  <2> QED
    BY <2>1, <2>5 DEF Idle
<1>3. CASE UNCHANGED <<pending, wpc>>
  BY <1>3 DEF Idle
<1> QED
  BY <1>1, <1>2, <1>3 DEF Next, Receive, receiveTerminationToken, receiveTerminator, Flush,
     InitiateToken, SetSticky

-----------------------------------------------------------------------------
(* The steps of the token.                                                 *)

(* What the token finds at a node: it is alone on its way.                 *)
LEMMA TokenFound ==
    ASSUME TokenInv, NEW l \in Link, receiveTerminationToken(l)
    PROVE  LET rest == [channel EXCEPT ![l] = Tail(@)]
           IN  /\ l = <<l[1], l[2]>> /\ l[1] \in Node /\ l[2] \in Node
               /\ <<l[2], Next1(l[2])>> \in Link
               /\ OnItsWay
               /\ channel \in [Link -> Seq(Msg)] /\ aggregate \in [Link -> Nat]
               /\ 1 \in DOMAIN channel[l] /\ channel[l][1] = Head(channel[l])
               /\ channel[l][1].type = "token"
               /\ channel[l][1].initiator \in Node /\ channel[l][1].count \in Int
               /\ rest \in [Link -> Seq(Msg)]
               /\ \A k \in Link : NoToken(rest[k])
               /\ \A k \in Link : \A i \in DOMAIN rest[k] :
                     \E j \in DOMAIN channel[k] : rest[k][i] = channel[k][j]
<1>1. /\ channel[l] # <<>> /\ Head(channel[l]).type = "token"
      /\ l = <<l[1], l[2]>> /\ l[1] \in Node /\ l[2] \in Node
      /\ <<l[2], Next1(l[2])>> \in Link
  BY Successor DEF receiveTerminationToken, Arrives, Link
<1>2. /\ channel \in [Link -> Seq(Msg)] /\ channel[l] \in Seq(Msg) /\ aggregate \in [Link -> Nat]
  BY DEF TokenInv, TokenType
<1>3. /\ OnItsWay /\ JustOne(channel[l])
      /\ \A k \in Link \ {l} : NoToken(channel[k])
  BY <1>1, FirstOnLink
<1>4. /\ 1 \in DOMAIN channel[l] /\ channel[l][1] = Head(channel[l])
      /\ \A i \in DOMAIN Tail(channel[l]) : \E j \in DOMAIN channel[l] :
            Tail(channel[l])[i] = channel[l][j]
  BY <1>1, <1>2, TailIs
<1>5. Tail(channel[l]) \in Seq(Msg) /\ NoToken(Tail(channel[l]))
  BY <1>1, <1>2, <1>3, TailOfToken
<1>6. channel[l][1] \in Msg
  BY <1>2, <1>4
<1>7. channel[l][1].initiator \in Node /\ channel[l][1].count \in Int
  BY <1>1, <1>4, <1>6 DEF Msg
<1>8. /\ [channel EXCEPT ![l] = Tail(@)] \in [Link -> Seq(Msg)]
      /\ \A k \in Link : [channel EXCEPT ![l] = Tail(@)][k] =
                            IF k = l THEN Tail(channel[l]) ELSE channel[k]
  BY <1>2, <1>5
<1> QED
  BY <1>1, <1>2, <1>3, <1>4, <1>5, <1>7, <1>8

(* A passive node the token arrives at has nothing to do, and no event can *)
(* come to it but one sent after the token.                                *)
LEMMA TokenFindsIdle ==
    ASSUME ThreadInv, ProcessingIsActive, TokensInTime,
           NEW l \in Link, receiveTerminationToken(l), state[l[2]] = "PASSIVE"
    PROVE  /\ Idle(l[2])
           /\ \A from \in Node \ {l[1]} : Clear(<<from, l[2]>>)
<1>1. l[2] \in Node
  BY DEF Link
<1>2. /\ pending[l[2]] = 0
      /\ \A w \in NodeWorkers(l[2]) : wpc[w] # "setThreadActive"
      /\ \A from \in Node \ {l[1]} :
            aggregate[<<from, l[2]>>] = 0 /\ OnLink(<<from, l[2]>>, "event") = {}
  BY DEF TokensInTime, InTime
<1>3. ASSUME NEW w \in Worker, w[1] = l[2] PROVE wpc[w] = "getEvent"
  <2>1. Active(l[2]) = {}
    BY <1>1, FollowsAll DEF ThreadInv, Follows
  <2>2. w \in NodeWorkers(l[2]) /\ w \notin Active(l[2])
    BY <1>1, <1>3, <2>1, OwnNode
  <2>3. state_by_thread[w] # "ACTIVE" /\ wpc[w] # "setThreadActive"
    BY <1>2, <2>2 DEF Active
  <2>4. wpc[w] \in {"getEvent", "setThreadActive", "process", "insertMessage"}
    BY DEF ThreadInv
  <2> QED
    BY <2>3, <2>4 DEF ProcessingIsActive
<1>4. \A from \in Node \ {l[1]} : Clear(<<from, l[2]>>)
  BY <1>2 DEF Clear, NoEvent, OnLink
<1> QED
  BY <1>2, <1>3, <1>4 DEF Idle

(* What it makes of a link: nothing, or it sends a token or terminators.   *)
TokenMakes(l, k) ==
    LET rest == [channel EXCEPT ![l] = Tail(@)][k]
        n    == l[2]
        msg  == channel[l][1]
    IN  \/ channel'[k] = rest /\ aggregate'[k] = aggregate[k]
        \/ /\ sticky_state[n] = "PASSIVE" /\ msg.initiator # n
           /\ k = <<n, Next1(n)>>
           /\ \E count \in Int : channel'[k] = Sent(rest, aggregate[k], Token(msg.initiator, count))
           /\ aggregate'[k] = 0
        \/ /\ sticky_state[n] = "PASSIVE" /\ msg.initiator = n
           /\ channel'[k] = Sent(rest, aggregate[k], [type |-> "terminator"])
           /\ aggregate'[k] = 0

LEMMA TokenLink ==
    ASSUME TokenInv, NEW l \in Link, receiveTerminationToken(l), NEW k \in Link
    PROVE  TokenMakes(l, k)
<1> DEFINE n    == l[2]
           msg  == Head(channel[l])
           rest == [channel EXCEPT ![l] = Tail(@)]
           out  == <<n, Next1(n)>>
<1>1. /\ n \in Node /\ out \in Link /\ channel[l][1] = msg
      /\ channel \in [Link -> Seq(Msg)] /\ aggregate \in [Link -> Nat]
      /\ rest \in [Link -> Seq(Msg)]
      /\ msg.count \in Int
      /\ msg_count \in [Node -> Int]
  BY TokenFound DEF TokenInv, TokenType
<1>2. CASE sticky_state[n] = "PASSIVE" /\ msg.initiator = n /\ msg.count = 0
  <2>1. /\ channel' = [j \in Link |->
              IF j[1] = n
              THEN rest[j] \o Events(aggregate[j]) \o <<[type |-> "terminator"]>>
              ELSE rest[j]]
        /\ aggregate' = [j \in Link |-> IF j[1] = n THEN 0 ELSE aggregate[j]]
    BY <1>2 DEF receiveTerminationToken
  <2> QED
    BY <1>1, <1>2, <2>1 DEF TokenMakes, Sent
<1>3. CASE sticky_state[n] = "PASSIVE" /\ msg.initiator # n
  <2>1. /\ channel' = [rest EXCEPT ![out] = @ \o Events(aggregate[out]) \o
                          <<Token(msg.initiator, msg_count[n] + msg.count)>>]
        /\ aggregate' = [aggregate EXCEPT ![out] = 0]
    BY <1>3 DEF receiveTerminationToken
  <2>2. msg_count[n] + msg.count \in Int
    BY <1>1
  <2>3. CASE k = out
    <3>1. /\ channel'[k] = Sent(rest[k], aggregate[k], Token(msg.initiator, msg_count[n] + msg.count))
          /\ aggregate'[k] = 0
      BY <1>1, <2>1, <2>3 DEF Sent
    <3> QED
      BY <1>1, <1>3, <2>2, <2>3, <3>1 DEF TokenMakes
  <2>4. CASE k # out
    <3>1. channel'[k] = rest[k] /\ aggregate'[k] = aggregate[k]
      BY <1>1, <2>1, <2>4
    <3> QED
      BY <3>1 DEF TokenMakes
  <2> QED
    BY <2>3, <2>4
<1>4. CASE \/ sticky_state[n] = "PASSIVE" /\ msg.initiator = n /\ msg.count # 0
           \/ sticky_state[n] # "PASSIVE"
  <2>1. channel' = rest /\ aggregate' = aggregate
    BY <1>4 DEF receiveTerminationToken
  <2> QED
    BY <2>1 DEF TokenMakes
<1> QED
  BY <1>2, <1>3, <1>4

LEMMA TokensAndTerminators ==
    /\ \A i \in Node : \A c \in Int : /\ Token(i, c) \in Msg /\ Token(i, c).type = "token"
                                      /\ Token(i, c).initiator = i
    /\ [type |-> "terminator"] \in Msg /\ [type |-> "terminator"].type = "terminator"
  BY DEF Token, Msg

LEMMA ClearAfterToken ==
    ASSUME TokenInv, NEW l \in Link, receiveTerminationToken(l), NEW k \in Link, Clear(k)
    PROVE  Clear(k)'
<1> DEFINE left == [channel EXCEPT ![l] = Tail(@)]
           rest == left[k]
<1>1. /\ rest \in Seq(Msg) /\ NoEvent(rest) /\ aggregate[k] = 0
      /\ channel[l][1].initiator \in Node
  <2>1. /\ left \in [Link -> Seq(Msg)] /\ channel[l][1].initiator \in Node
        /\ \A m \in Link : \A i \in DOMAIN left[m] :
              \E j \in DOMAIN channel[m] : left[m][i] = channel[m][j]
    BY TokenFound
  <2> HIDE DEF left
  <2>2. /\ rest \in Seq(Msg)
        /\ \A i \in DOMAIN rest : \E j \in DOMAIN channel[k] : rest[i] = channel[k][j]
    BY <2>1
  <2> HIDE DEF rest
  <2> QED
    BY <2>1, <2>2 DEF Clear, NoEvent
<1>2. TokenMakes(l, k)
  BY TokenLink
<1> HIDE DEF rest
<1>3. CASE channel'[k] = rest /\ aggregate'[k] = aggregate[k]
  BY <1>1, <1>3 DEF Clear
<1>4. ASSUME NEW msg \in Msg, msg.type # "event", channel'[k] = Sent(rest, aggregate[k], msg),
             aggregate'[k] = 0
      PROVE  Clear(k)'
  BY <1>1, <1>4, SentIs DEF Clear
<1> QED
  BY <1>1, <1>2, <1>3, <1>4, TokensAndTerminators DEF TokenMakes, rest, left

LEMMA InitiateLink ==
    ASSUME TokenInv, NEW n \in Node, InitiateToken(n), NEW k \in Link
    PROVE  /\ is_master[n] /\ state[n] = "PASSIVE" /\ mpc[n] = "handleMessages"
           /\ NoToken(channel[k]) /\ channel[k] \in Seq(Msg) /\ aggregate[k] \in Nat
           /\ msg_count[n] \in Int
           /\ IF k = <<n, Next1(n)>>
              THEN /\ channel'[k] = Sent(channel[k], aggregate[k], Token(n, msg_count[n]))
                   /\ aggregate'[k] = 0
              ELSE channel'[k] = channel[k] /\ aggregate'[k] = aggregate[k]
<1>1. /\ SendControl({<<n, Next1(n)>>}, Token(n, msg_count[n]))
      /\ is_master[n] /\ state[n] = "PASSIVE" /\ mpc[n] = "handleMessages"
  BY DEF InitiateToken
<1>2. NoToken(channel[k])
  BY <1>1 DEF TokenInv, WithMaster, OnItsWay
<1>3. channel[k] \in Seq(Msg) /\ aggregate[k] \in Nat /\ msg_count[n] \in Int
  BY DEF TokenInv, TokenType
<1>4. IF k = <<n, Next1(n)>>
      THEN /\ channel'[k] = channel[k] \o Events(aggregate[k]) \o <<Token(n, msg_count[n])>>
           /\ aggregate'[k] = 0
      ELSE channel'[k] = channel[k] /\ aggregate'[k] = aggregate[k]
  BY <1>1 DEF SendControl
<1> QED
  BY <1>1, <1>2, <1>3, <1>4 DEF Sent

LEMMA ClearAfterInitiate ==
    ASSUME TokenInv, NEW n \in Node, InitiateToken(n), NEW k \in Link, Clear(k)
    PROVE  Clear(k)'
<1>1. /\ channel[k] \in Seq(Msg) /\ aggregate[k] = 0 /\ NoEvent(channel[k])
      /\ Token(n, msg_count[n]) \in Msg /\ Token(n, msg_count[n]).type # "event"
  BY InitiateLink, TokensAndTerminators DEF Clear
<1>2. ASSUME NEW msg \in Msg, msg.type # "event", channel'[k] = Sent(channel[k], aggregate[k], msg),
             aggregate'[k] = 0
      PROVE  Clear(k)'
  <2>1. PICK s \in Seq(Msg) : s = channel[k]
    BY <1>1
  <2>2. NoEvent(Sent(s, 0, msg))
    BY <1>1, <1>2, <2>1, SentIs
  <2> QED
    BY <1>1, <1>2, <2>1, <2>2 DEF Clear
<1>3. CASE channel'[k] = channel[k] /\ aggregate'[k] = aggregate[k]
  BY <1>3 DEF Clear
<1> QED
  BY <1>1, <1>2, <1>3, InitiateLink

LEMMA QuietStays ==
    ASSUME ThreadInv, TokenInv, EndType, Next, ~ Inserting, NEW n \in Node, Quiet(n)
    PROVE  Quiet(n)'
<1>1. Idle(n)'
  BY IdleStays DEF Quiet, Clear
<1>2. ASSUME NEW from \in Node PROVE Clear(<<from, n>>)'
  <2> DEFINE l == <<from, n>>
  <2>1. l \in Link /\ Clear(l)
    BY DEF Link, Quiet
  <2> HIDE DEF l
  <2>2. Clear(l)'
    BY <2>1, StepIs, ClearAfterPlain, ClearAfterToken, ClearAfterInitiate
  <2> QED
    BY <2>2 DEF l
<1> QED
  BY <1>1, <1>2 DEF Quiet

LEMMA NoneInserting ==
    ASSUME ThreadInv, ProcessingIsActive, StickyInv,
           \A n \in Node : sticky_state[n] = "PASSIVE" \/ Idle(n)
    PROVE  ~ Inserting
<1> SUFFICES ASSUME NEW w \in Worker, wpc[w] = "insertMessage" PROVE FALSE
  BY DEF Inserting
<1>1. w[1] \in Node /\ w \in NodeWorkers(w[1])
  BY OwnNode DEF Worker
<1>2. ~ Idle(w[1])
  BY DEF Idle
<1>3. state[w[1]] = "PASSIVE"
  BY <1>1, <1>2 DEF StickyInv
<1>4. Active(w[1]) = {}
  BY <1>1, <1>3, FollowsAll DEF ThreadInv, Follows
<1>5. state_by_thread[w] = "ACTIVE"
  BY DEF ProcessingIsActive
<1> QED
  BY <1>1, <1>4, <1>5 DEF Active

-----------------------------------------------------------------------------
(* The local invariants.                                                   *)

LEMMA EndTypeStays == ThreadInv /\ EndType /\ [Next]_vars => EndType'
<1> SUFFICES ASSUME ThreadInv, EndType, [Next]_vars PROVE EndType'
  OBVIOUS
<1>1. ASSUME NEW w \in Worker, WorkerStep(w) PROVE EndType'
  <2>1. w[1] \in Node
    BY DEF Worker
  <2>2. CASE GetEvent(w)
    <3>1. /\ pending[w[1]] > 0 /\ pending' = [pending EXCEPT ![w[1]] = @ - 1]
          /\ UNCHANGED <<sticky_state, mpc, terminate>>
      BY <2>2 DEF GetEvent, termVars
    <3>2. pending[w[1]] - 1 \in Nat
      BY <2>1, <3>1 DEF EndType
    <3> QED
      BY <2>1, <3>1, <3>2 DEF EndType
  <2>3. CASE setThreadActive(w)
    BY <2>3 DEF setThreadActive, EndType
  <2>4. CASE SendLocalEvent(w)
    BY <2>1, <2>4 DEF SendLocalEvent, termVars, EndType
  <2>5. CASE UNCHANGED <<pending, sticky_state, mpc, terminate>>
    BY <2>5 DEF EndType
  <2> QED
    BY <1>1, <2>2, <2>3, <2>4, <2>5 DEF WorkerStep, setThreadPassive, updateMsgCount,
       insertMessage, Processed, termVars
<1>2. ASSUME NEW l \in Link, Receive(l) \/ Flush(l) PROVE EndType'
  <2>1. l[2] \in Node
    BY DEF Link
  <2>2. CASE ReceiveEvent(l)
    BY <2>1, <2>2 DEF ReceiveEvent, EndType
  <2>3. CASE receiveTerminationToken(l)
    <3>1. /\ mpc' = [mpc EXCEPT ![l[2]] = state[l[2]]]
          /\ UNCHANGED <<pending, sticky_state, terminate>>
      BY <2>3 DEF receiveTerminationToken
    <3> QED
      BY <3>1, <2>1 DEF EndType, ThreadInv
  <2>4. CASE receiveTerminator(l)
    BY <2>1, <2>4 DEF receiveTerminator, EndType
  <2>5. CASE Flush(l)
    BY <2>5 DEF Flush, termVars, EndType
  <2> QED
    BY <1>2, <2>2, <2>3, <2>4, <2>5 DEF Receive
<1>3. ASSUME NEW n \in Node, InitiateToken(n) PROVE EndType'
  BY <1>3 DEF InitiateToken, EndType
<1>4. ASSUME NEW n \in Node, SetSticky(n) PROVE EndType'
  BY <1>4 DEF SetSticky, EndType
<1>5. CASE UNCHANGED vars
  BY <1>5 DEF vars, termVars, EndType
<1> QED
  BY <1>1, <1>2, <1>3, <1>4, <1>5 DEF Next

LEMMA ProcessingIsActiveStays ==
    ThreadInv /\ ProcessingIsActive /\ [Next]_vars => ProcessingIsActive'
<1> SUFFICES ASSUME ThreadInv, ProcessingIsActive, [Next]_vars,
                    NEW w \in Worker, wpc'[w] \in {"process", "insertMessage"}
             PROVE  state_by_thread'[w] = "ACTIVE"
  BY DEF ProcessingIsActive
<1>1. /\ wpc \in [Worker -> {"getEvent", "setThreadActive", "process", "insertMessage"}]
      /\ state_by_thread \in [Worker -> {"ACTIVE", "PASSIVE"}]
      /\ wpc[w] \in {"process", "insertMessage"} => state_by_thread[w] = "ACTIVE"
  BY DEF ThreadInv, ProcessingIsActive
<1>2. ASSUME NEW u \in Worker, WorkerStep(u) PROVE state_by_thread'[w] = "ACTIVE"
  <2>1. CASE GetEvent(u)
    BY <1>1, <2>1 DEF GetEvent, termVars
  <2>2. CASE setThreadActive(u)
    BY <1>1, <2>2 DEF setThreadActive
  <2>3. CASE setThreadPassive(u)
    BY <1>1, <2>3 DEF setThreadPassive
  <2>4. CASE SendLocalEvent(u)
    BY <1>1, <2>4 DEF SendLocalEvent, termVars
  <2>5. CASE updateMsgCount(u)
    BY <1>1, <2>5 DEF updateMsgCount
  <2>6. CASE \E to \in Node : insertMessage(u, to)
    BY <1>1, <2>6 DEF insertMessage, termVars
  <2>7. CASE Processed(u)
    BY <1>1, <2>7 DEF Processed, termVars
  <2> QED
    BY <1>2, <2>1, <2>2, <2>3, <2>4, <2>5, <2>6, <2>7 DEF WorkerStep
<1>3. CASE UNCHANGED <<wpc, state_by_thread>>
  BY <1>1, <1>3
<1> QED
  BY <1>2, <1>3 DEF Next, Receive, ReceiveEvent, receiveTerminationToken, receiveTerminator, Flush,
     InitiateToken, SetSticky, termVars, vars

LEMMA StickyStays ==
    ThreadInv /\ EndType /\ StickyInv /\ MasterInv /\ [Next]_vars => StickyInv'
<1> SUFFICES ASSUME ThreadInv, EndType, StickyInv, MasterInv, [Next]_vars, NEW n \in Node,
                    sticky_state'[n] = "PASSIVE"
             PROVE  state'[n] = "PASSIVE"
  BY DEF StickyInv
<1>1. /\ DOMAIN sticky_state = Node /\ DOMAIN state = Node
      /\ sticky_state[n] = "PASSIVE" => state[n] = "PASSIVE"
      /\ mpc[n] = "PASSIVE" => state[n] = "PASSIVE"
  BY DEF EndType, ThreadInv, StickyInv, MasterInv
<1>2. ASSUME NEW w \in Worker, WorkerStep(w) PROVE state'[n] = "PASSIVE"
  <2>1. CASE setThreadActive(w)
    BY <1>1, <2>1, OtherWorker, <1>2 DEF setThreadActive
  <2>2. CASE setThreadPassive(w)
    BY <1>1, <2>2 DEF setThreadPassive
  <2>3. CASE UNCHANGED <<sticky_state, state>>
    BY <1>1, <2>3
  <2> QED
    BY <1>2, <2>1, <2>2, <2>3 DEF WorkerStep, GetEvent, SendLocalEvent, updateMsgCount,
       insertMessage, Processed, termVars
<1>3. ASSUME NEW m \in Node, SetSticky(m) PROVE state'[n] = "PASSIVE"
  BY <1>1, <1>3 DEF SetSticky
<1>4. CASE UNCHANGED <<sticky_state, state>>
  BY <1>1, <1>4
<1> QED
  BY <1>2, <1>3, <1>4 DEF Next, Receive, ReceiveEvent, receiveTerminationToken, receiveTerminator,
     Flush, InitiateToken, termVars, vars

(* Only a node that has the token forgets that it was active.              *)
LEMMA StickyForgets ==
    ASSUME ThreadInv, EndType, MasterInv, Next, NEW n \in Node,
           sticky_state[n] = "ACTIVE", sticky_state'[n] # "ACTIVE"
    PROVE  SetSticky(n) /\ is_master[n]
<1>1. DOMAIN sticky_state = Node
  BY DEF EndType
<1>2. ASSUME NEW w \in Worker, WorkerStep(w) PROVE FALSE
  <2>1. CASE setThreadActive(w)
    BY <1>1, <2>1 DEF setThreadActive
  <2>2. CASE UNCHANGED sticky_state
    BY <2>2
  <2> QED
    BY <1>2, <2>1, <2>2 DEF WorkerStep, GetEvent, setThreadPassive, SendLocalEvent, updateMsgCount,
       insertMessage, Processed, termVars
<1>3. PICK m \in Node : SetSticky(m)
  BY <1>2 DEF Next, Receive, ReceiveEvent, receiveTerminationToken, receiveTerminator,
     Flush, InitiateToken, termVars
<1>4. m = n /\ mpc[n] \in {"ACTIVE", "PASSIVE"} /\ mpc[n] # "ACTIVE"
  BY <1>1, <1>3 DEF SetSticky, EndType
<1> QED
  BY <1>3, <1>4 DEF MasterInv

LEMMA MasterStays ==
    ASSUME ThreadInv, TokenInv, EndType, ProcessingIsActive, StickyInv, MasterInv, TokensInTime,
           Next
    PROVE  MasterInv'
<1> SUFFICES ASSUME NEW n \in Node, mpc'[n] = "PASSIVE"
             PROVE  /\ Idle(n)'
                    /\ state'[n] = "PASSIVE"
                    /\ sticky_state'[n] = "PASSIVE" \/ is_master'[n]
  BY DEF MasterInv
<1>1. /\ mpc \in [Node -> {"handleMessages", "ACTIVE", "PASSIVE"}]
      /\ DOMAIN state = Node /\ DOMAIN sticky_state = Node /\ DOMAIN is_master = Node
  BY DEF EndType, ThreadInv, TokenInv, TokenType
<1>2. ASSUME NEW l \in Link, receiveTerminationToken(l), l[2] = n
      PROVE  /\ Idle(n)' /\ state'[n] = "PASSIVE"
             /\ sticky_state'[n] = "PASSIVE" \/ is_master'[n]
  <2>1. /\ mpc' = [mpc EXCEPT ![n] = state[n]]
        /\ UNCHANGED <<state, sticky_state, pending, wpc>>
        /\ sticky_state[n] # "PASSIVE" => is_master' = [is_master EXCEPT ![n] = TRUE]
    BY <1>2 DEF receiveTerminationToken
  <2>2. state[n] = "PASSIVE"
    BY <1>1, <2>1
  <2>3. Idle(n)
    BY <1>2, <2>2, TokenFindsIdle
  <2> QED
    BY <1>1, <2>1, <2>2, <2>3 DEF Idle
<1>3. ASSUME mpc[n] = "PASSIVE",
             ~ \E l \in Link : receiveTerminationToken(l) /\ l[2] = n
      PROVE  /\ Idle(n)' /\ state'[n] = "PASSIVE"
             /\ sticky_state'[n] = "PASSIVE" \/ is_master'[n]
  <2>1. /\ Idle(n) /\ state[n] = "PASSIVE"
        /\ sticky_state[n] = "PASSIVE" \/ is_master[n]
    BY <1>3 DEF MasterInv
  <2>2. Idle(n)'
    BY <1>3, <2>1, IdleStays
  <2>3. ASSUME NEW w \in Worker, WorkerStep(w)
        PROVE  /\ state'[n] = state[n] /\ sticky_state'[n] = sticky_state[n]
               /\ is_master' = is_master
    <3>1. CASE w[1] # n
      BY <2>3, <3>1, OtherWorker DEF WorkerStep, GetEvent, setThreadActive, setThreadPassive,
         SendLocalEvent, updateMsgCount, insertMessage, Processed, termVars
    <3>2. CASE w[1] = n
      <4>1. setThreadPassive(w) /\ state_by_thread[w] = "ACTIVE"
        BY <2>1, <2>3, <3>2, OwnWorker DEF setThreadPassive
      <4>2. w \in Active(n)
        BY <3>2, <4>1, OwnNode DEF Active
      <4> QED
        BY <2>1, <4>2, FollowsAll DEF ThreadInv, Follows
    <3> QED
      BY <3>1, <3>2
  <2>4. ASSUME NEW l \in Link, receiveTerminationToken(l)
        PROVE  /\ state' = state /\ sticky_state' = sticky_state
               /\ is_master'[n] = is_master[n]
    <3>1. l[2] # n /\ l[2] \in Node
      BY <1>3, <2>4 DEF Link
    <3>2. /\ UNCHANGED <<state, sticky_state>>
          /\ \E b \in BOOLEAN : is_master' = [is_master EXCEPT ![l[2]] = b]
      BY <2>4 DEF receiveTerminationToken
    <3> QED
      BY <1>1, <3>1, <3>2
  <2>5. ASSUME NEW m \in Node, InitiateToken(m)
        PROVE  /\ state' = state /\ sticky_state' = sticky_state
               /\ is_master'[n] = is_master[n]
    BY <1>1, <1>3, <2>5 DEF InitiateToken
  <2>6. ASSUME NEW m \in Node, SetSticky(m)
        PROVE  state' = state /\ is_master' = is_master /\ sticky_state'[n] = sticky_state[n]
    <3>1. m # n
      BY <1>1, <2>6 DEF SetSticky
    <3> QED
      BY <1>1, <2>6, <3>1 DEF SetSticky
  <2>7. CASE UNCHANGED <<state, sticky_state, is_master>>
    BY <2>1, <2>2, <2>7
  <2> QED
    BY <2>1, <2>2, <2>3, <2>4, <2>5, <2>6, <2>7 DEF Next, Receive, ReceiveEvent,
       receiveTerminator, Flush, termVars
<1>4. ASSUME mpc[n] # "PASSIVE" PROVE \E l \in Link : receiveTerminationToken(l) /\ l[2] = n
  <2>1. ASSUME NEW l \in Link, receiveTerminationToken(l) PROVE l[2] = n
    BY <1>1, <1>4, <2>1 DEF receiveTerminationToken
  <2>2. ASSUME NEW m \in Node, SetSticky(m) PROVE FALSE
    BY <1>1, <1>4, <2>2 DEF SetSticky
  <2>3. ASSUME mpc' = mpc PROVE FALSE
    BY <1>4, <2>3
  <2> QED
    BY <2>1, <2>2, <2>3 DEF Next, Receive, ReceiveEvent, receiveTerminator, Flush, InitiateToken,
       WorkerStep, GetEvent, setThreadActive, setThreadPassive, SendLocalEvent, updateMsgCount,
       insertMessage, Processed
<1> QED
  BY <1>2, <1>3, <1>4

-----------------------------------------------------------------------------
(* The round of the token.                                                 *)

(* Where the token has yet to go nobody has been active: then it goes on   *)
(* being true of the others that they are quiet.                           *)
LEMMA CalmRound ==
    ASSUME NEW l \in Link, NEW i \in Node, RoundOK(l, i),
           \A n \in Node \ Visited(i, l[2]) : sticky_state[n] # "ACTIVE"
    PROVE  NothingBehind(l) /\ \A n \in Visited(i, l[2]) : Quiet(n)
  BY DEF RoundOK

LEMMA CalmInserts ==
    ASSUME ThreadInv, EndType, ProcessingIsActive, StickyInv, NEW V,
           \A n \in Node \ V : sticky_state[n] # "ACTIVE",
           \A n \in V : Quiet(n)
    PROVE  ~ Inserting
<1>1. \A n \in Node : sticky_state[n] = "PASSIVE" \/ Idle(n)
  BY DEF EndType, Quiet
<1> QED
  BY <1>1, NoneInserting

LEMMA RoundAfterPlain ==
    ASSUME RoundsInv, Next, PlainStep, NEW l \in Link, NEW i \in DOMAIN channel'[l],
           channel'[l][i].type = "token", NEW ini, ini = channel'[l][i].initiator
    PROVE  RoundOK(l, ini)'
<1>1. PICK j \in DOMAIN channel[l] : channel[l][j] = channel'[l][i]
  BY PlainMessages DEF RoundsInv
<1> DEFINE V == Visited(ini, l[2])
<1>2. RoundOK(l, ini) /\ channel[l][j] \in Msg /\ channel[l][j].type = "token"
  BY <1>1 DEF RoundsInv, RoundInv, TokenInv, TokenType
<1>3. ini \in Node
  BY <1>1, <1>2 DEF Msg
<1>4. \A n \in Node : ~ is_master[n]
  BY <1>2 DEF RoundsInv, TokenInv, WithMaster, OnItsWay, NoToken
<1>5. SUFFICES ASSUME \A n \in Node \ V : sticky_state'[n] # "ACTIVE"
               PROVE  NothingBehind(l)' /\ \A n \in V : Quiet(n)'
  <2>1. l[2] = Next1(l[1])
    BY <1>2 DEF RoundOK
  <2>2. V' = V
    BY DEF Visited
  <2> QED
    BY <1>5, <2>1, <2>2 DEF RoundOK
<1>6. ASSUME NEW n \in Node \ V PROVE sticky_state[n] # "ACTIVE"
  BY <1>4, <1>5, <1>6, StickyForgets DEF RoundsInv
<1>7. NothingBehind(l) /\ \A n \in V : Quiet(n)
  BY <1>2, <1>3, <1>6, CalmRound
<1>8. V \subseteq Node
  BY DEF Visited
<1> HIDE DEF V
<1>9. ~ Inserting
  BY <1>6, <1>7, CalmInserts DEF RoundsInv
<1>10. NothingBehind(l)'
  BY <1>7, <1>9, BehindAfterPlain DEF RoundsInv
<1> QED
  BY <1>7, <1>8, <1>9, <1>10, QuietStays DEF RoundsInv

(* When the token arrives at a passive node, and all before were quiet,    *)
(* so is this one.                                                         *)
LEMMA QuietOnArrival ==
    ASSUME RoundsInv, TokensInTime, NEW l \in Link, receiveTerminationToken(l),
           sticky_state[l[2]] = "PASSIVE", NothingBehind(l)
    PROVE  Quiet(l[2])
<1>1. state[l[2]] = "PASSIVE" /\ l = <<l[1], l[2]>>
  BY DEF RoundsInv, StickyInv, Link
<1>2. Idle(l[2]) /\ \A from \in Node \ {l[1]} : Clear(<<from, l[2]>>)
  BY <1>1, TokenFindsIdle DEF RoundsInv
<1>3. Clear(l)
  <2>1. /\ channel[l] \in Seq(Msg) /\ 1 \in DOMAIN channel[l] /\ channel[l][1].type = "token"
    BY TokenFound DEF RoundsInv
  <2>2. ASSUME NEW j \in DOMAIN channel[l], channel[l][j].type = "event" PROVE FALSE
    <3>1. j < 1 /\ j \in 1 .. Len(channel[l])
      BY <2>1, <2>2 DEF NothingBehind
    <3> QED
      BY <2>1, <3>1
  <2> QED
    BY <2>2 DEF Clear, NoEvent, NothingBehind
<1> QED
  BY <1>1, <1>2, <1>3 DEF Quiet

(* A link on which the token has just been sent has nothing behind it.     *)
LEMMA NothingBehindSent ==
    ASSUME NEW l \in Link, NEW s \in Seq(Msg), NoToken(s), NEW k \in Nat,
           NEW msg \in Msg, msg.type = "token",
           channel'[l] = Sent(s, k, msg), aggregate'[l] = 0
    PROVE  /\ NothingBehind(l)'
           /\ \A i \in DOMAIN channel'[l] :
                 channel'[l][i].type = "token" => channel'[l][i] = msg
<1> DEFINE t == Sent(s, k, msg)
<1>1. \A i \in DOMAIN t :
         \/ i \in DOMAIN s /\ t[i] = s[i]
         \/ t[i].type = "event"
         \/ t[i] = msg /\ \A j \in DOMAIN t : t[j].type = "event" => j < i
  BY SentIs
<1>2. channel'[l] = t
  OBVIOUS
<1> HIDE DEF t
<1>3. \A i \in DOMAIN t : t[i].type = "token" =>
         t[i] = msg /\ \A j \in DOMAIN t : t[j].type = "event" => j < i
  BY <1>1 DEF NoToken
<1> QED
  BY <1>2, <1>3 DEF NothingBehind

LEMMA RoundAfterToken ==
    ASSUME RoundsInv, TokensInTime, Next, NEW l \in Link, receiveTerminationToken(l),
           NEW k \in Link, NEW i \in DOMAIN channel'[k], channel'[k][i].type = "token",
           NEW sent, sent = channel'[k][i].initiator
    PROVE  RoundOK(k, sent)'
<1>0. PICK ini : ini = channel[l][1].initiator
  OBVIOUS
<1> DEFINE n    == l[2]
           left == [channel EXCEPT ![l] = Tail(@)]
           rest == left[k]
           V    == Visited(ini, n)
<1>1. /\ n \in Node /\ ini \in Node /\ <<n, Next1(n)>> \in Link
      /\ left \in [Link -> Seq(Msg)] /\ aggregate \in [Link -> Nat]
      /\ \A m \in Link : NoToken(left[m])
      /\ 1 \in DOMAIN channel[l] /\ channel[l][1].type = "token"
  BY <1>0, TokenFound DEF RoundsInv
<1>2. rest \in Seq(Msg) /\ NoToken(rest) /\ aggregate[k] \in Nat
  BY <1>1
<1>3. TokenMakes(l, k)
  BY TokenLink DEF RoundsInv
<1>4. RoundOK(l, ini)
  BY <1>0, <1>1 DEF RoundsInv, RoundInv
<1>5. UNCHANGED sticky_state
  BY DEF receiveTerminationToken
<1> HIDE DEF left, rest
<1>6. CASE channel'[k] = rest
  BY <1>2, <1>6 DEF NoToken
<1>7. CASE channel'[k] = Sent(rest, aggregate[k], [type |-> "terminator"])
  <2>1. PICK msg \in Msg : msg = [type |-> "terminator"] /\ msg.type = "terminator"
    BY TokensAndTerminators
  <2>2. channel'[k] = Sent(rest, aggregate[k], msg) /\ msg.type # "event"
    BY <1>7, <2>1
  <2> DEFINE t == Sent(rest, aggregate[k], msg)
  <2>3. \A j \in DOMAIN t : \/ j \in DOMAIN rest /\ t[j] = rest[j]
                           \/ t[j].type = "event"
                           \/ t[j] = msg
    BY <1>2, <2>1, <2>2, SentHolds
  <2> HIDE DEF t
  <2> QED
    BY <1>2, <2>1, <2>2, <2>3 DEF NoToken, t
<1>8. CASE /\ sticky_state[n] = "PASSIVE" /\ ini # n
           /\ k = <<n, Next1(n)>>
           /\ \E count \in Int : channel'[k] = Sent(rest, aggregate[k], Token(ini, count))
           /\ aggregate'[k] = 0
  <2>1. PICK count \in Int : channel'[k] = Sent(rest, aggregate[k], Token(ini, count))
    BY <1>8
  <2>2. Token(ini, count) \in Msg /\ Token(ini, count).type = "token"
        /\ Token(ini, count).initiator = ini
    BY <1>1, TokensAndTerminators
  <2>3. NothingBehind(k)' /\ channel'[k][i] = Token(ini, count)
    BY <1>2, <1>8, <2>1, <2>2, NothingBehindSent
  <2>4. sent = ini
    BY <2>2, <2>3
  <2>5. k[1] = n /\ k[2] = Next1(k[1]) /\ Visited(ini, k[2]) = V \cup {n}
    BY <1>1, <1>8, VisitedGrows
  <2>6. SUFFICES ASSUME \A m \in Node \ (V \cup {n}) : sticky_state'[m] # "ACTIVE"
                 PROVE  \A m \in V \cup {n} : Quiet(m)'
    <3>1. Visited(ini, k[2])' = V \cup {n}
      BY <2>5 DEF Visited
    <3>2. RoundOK(k, ini)'
      BY <2>3, <2>5, <2>6, <3>1 DEF RoundOK
    <3> QED
      BY <2>4, <3>2
  <2>7. \A m \in Node \ V : sticky_state[m] # "ACTIVE"
    BY <1>5, <1>8, <2>6
  <2>8. NothingBehind(l) /\ \A m \in V : Quiet(m)
    BY <1>1, <1>4, <2>7, CalmRound
  <2>9. Quiet(n)
    BY <1>8, <2>8, QuietOnArrival
  <2>10. V \cup {n} \subseteq Node
    BY <1>1 DEF Visited
  <2> HIDE DEF V, n
  <2>11. ~ Inserting
    BY <2>7, <2>8, CalmInserts DEF RoundsInv
  <2> QED
    BY <2>8, <2>9, <2>10, <2>11, QuietStays DEF RoundsInv
<1> QED
  BY <1>0, <1>3, <1>6, <1>7, <1>8 DEF TokenMakes, rest, left

LEMMA RoundAfterInitiate ==
    ASSUME RoundsInv, NEW n \in Node, InitiateToken(n),
           NEW k \in Link, NEW i \in DOMAIN channel'[k], channel'[k][i].type = "token",
           NEW sent, sent = channel'[k][i].initiator
    PROVE  RoundOK(k, sent)'
<1> DEFINE msg == Token(n, msg_count[n])
<1>1. /\ NoToken(channel[k]) /\ channel[k] \in Seq(Msg) /\ aggregate[k] \in Nat
      /\ msg_count[n] \in Int
      /\ IF k = <<n, Next1(n)>>
         THEN channel'[k] = Sent(channel[k], aggregate[k], msg) /\ aggregate'[k] = 0
         ELSE channel'[k] = channel[k]
  BY InitiateLink DEF RoundsInv
<1>2. msg \in Msg /\ msg.type = "token" /\ msg.initiator = n
  BY <1>1, TokensAndTerminators
<1> HIDE DEF msg
<1>3. k = <<n, Next1(n)>>
  BY <1>1 DEF NoToken
<1>4. NothingBehind(k)' /\ channel'[k][i] = msg
  BY <1>1, <1>2, <1>3, NothingBehindSent
<1>5. k[1] = n /\ k[2] = Next1(n) /\ Visited(n, Next1(n)) = {}
  BY <1>3, VisitedGrows
<1>6. RoundOK(k, n)'
  BY <1>4, <1>5 DEF RoundOK, Visited
<1> QED
  BY <1>2, <1>4, <1>6

LEMMA RoundStays ==
    ASSUME RoundsInv, TokensInTime, Next
    PROVE  RoundInv'
<1> SUFFICES ASSUME NEW l \in Link, NEW i \in DOMAIN channel'[l], channel'[l][i].type = "token"
             PROVE  RoundOK(l, channel[l][i].initiator)'
  BY DEF RoundInv
<1>1. PICK ini : ini = channel'[l][i].initiator
  OBVIOUS
<1>2. RoundOK(l, ini)'
  BY <1>1, StepIs, RoundAfterPlain, RoundAfterToken, RoundAfterInitiate
<1> QED
  BY <1>1, <1>2 DEF RoundOK, Visited

-----------------------------------------------------------------------------
(* The end.                                                                *)

LEMMA EndStays ==
    ASSUME RoundsInv, TokensInTime, Next
    PROVE  EndInv'
<1> SUFFICES ASSUME Ended' PROVE \A n \in Node : Quiet(n)'
  BY DEF EndInv
<1>1. ASSUME \A n \in Node : Quiet(n) PROVE \A n \in Node : Quiet(n)'
  <2>1. ~ Inserting
    BY <1>1, CalmInserts DEF RoundsInv
  <2> QED
    BY <1>1, <2>1, QuietStays DEF RoundsInv
<1>2. CASE Ended
  BY <1>1, <1>2 DEF RoundsInv, EndInv
<1>3. ASSUME ~ Ended, NEW n \in Node, terminate'[n] PROVE FALSE
  <2>1. ASSUME NEW l \in Link, receiveTerminator(l) PROVE FALSE
    <3>1. channel[l] # <<>> /\ Head(channel[l]).type = "terminator"
      BY <2>1 DEF receiveTerminator, Arrives
    <3>2. channel[l] \in Seq(Msg)
      BY DEF RoundsInv, TokenInv, TokenType
    <3> QED
      BY <1>3, <3>1, <3>2, TailIs DEF Ended
  <2>2. UNCHANGED terminate
    BY <2>1 DEF Next, Receive, ReceiveEvent, receiveTerminationToken, Flush, InitiateToken, SetSticky,
       WorkerStep, GetEvent, setThreadActive, setThreadPassive, SendLocalEvent, updateMsgCount,
       insertMessage, Processed, termVars
  <2> QED
    BY <1>3, <2>2 DEF Ended
<1>4. ASSUME ~ Ended, NEW k \in Link, NEW i \in DOMAIN channel'[k],
             channel'[k][i].type = "terminator"
      PROVE  \A n \in Node : Quiet(n)
  <2>1. CASE PlainStep
    BY <1>4, <2>1, PlainMessages DEF RoundsInv, Ended
  <2>2. ASSUME NEW n \in Node, InitiateToken(n) PROVE FALSE
    <3>1. PICK msg \in Msg : msg = Token(n, msg_count[n]) /\ msg.type = "token"
      BY <2>2, InitiateLink, TokensAndTerminators DEF RoundsInv
    <3>2. /\ channel[k] \in Seq(Msg) /\ aggregate[k] \in Nat
          /\ \/ channel'[k] = channel[k]
             \/ channel'[k] = Sent(channel[k], aggregate[k], msg)
      BY <2>2, <3>1, InitiateLink DEF RoundsInv
    <3>3. \A j \in DOMAIN channel[k] : channel[k][j].type # "terminator"
      BY <1>4 DEF Ended
    <3> DEFINE t == Sent(channel[k], aggregate[k], msg)
    <3>4. \A j \in DOMAIN t : \/ j \in DOMAIN channel[k] /\ t[j] = channel[k][j]
                             \/ t[j].type = "event"
                             \/ t[j] = msg
      BY <3>1, <3>2, SentIs
    <3> HIDE DEF t
    <3>5. \A j \in DOMAIN t : t[j].type # "terminator"
      BY <3>1, <3>3, <3>4
    <3> QED
      BY <1>4, <3>2, <3>3, <3>5 DEF t
  <2>3. ASSUME NEW l \in Link, receiveTerminationToken(l) PROVE \A n \in Node : Quiet(n)
    <3> DEFINE n    == l[2]
               left == [channel EXCEPT ![l] = Tail(@)]
               rest == left[k]
    <3>0. PICK ini : ini = channel[l][1].initiator
      OBVIOUS
    <3>1. /\ n \in Node /\ ini \in Node
          /\ left \in [Link -> Seq(Msg)] /\ aggregate \in [Link -> Nat]
          /\ \A m \in Link : \A j \in DOMAIN left[m] :
                \E h \in DOMAIN channel[m] : left[m][j] = channel[m][h]
          /\ 1 \in DOMAIN channel[l] /\ channel[l][1].type = "token"
      BY <2>3, <3>0, TokenFound DEF RoundsInv
    <3>2. /\ rest \in Seq(Msg) /\ aggregate[k] \in Nat
          /\ \A j \in DOMAIN rest : \E h \in DOMAIN channel[k] : rest[j] = channel[k][h]
      BY <3>1
    <3>3. \A j \in DOMAIN rest : rest[j].type # "terminator"
      BY <1>4, <3>2 DEF Ended
    <3>4. TokenMakes(l, k)
      BY <2>3, TokenLink DEF RoundsInv
    <3>5. RoundOK(l, ini)
      BY <3>0, <3>1 DEF RoundsInv, RoundInv
    <3> HIDE DEF left, rest
    <3>6. channel'[k] # rest
      BY <1>4, <3>3
    <3>7. ASSUME NEW count \in Int, channel'[k] = Sent(rest, aggregate[k], Token(ini, count))
          PROVE  FALSE
      <4>1. PICK msg \in Msg : msg = Token(ini, count) /\ msg.type = "token"
        BY <3>1, TokensAndTerminators
      <4> DEFINE t == Sent(rest, aggregate[k], msg)
      <4>2. \A j \in DOMAIN t : \/ j \in DOMAIN rest /\ t[j] = rest[j]
                              \/ t[j].type = "event"
                              \/ t[j] = msg
        <5>1. rest \in Seq(Msg) /\ aggregate[k] \in Nat /\ msg \in Msg /\ msg.type # "event"
          BY <3>2, <4>1
        <5> QED
          BY <5>1, SentIs
      <4>3. channel'[k] = t
        BY <3>7, <4>1
      <4> HIDE DEF t
      <4>4. \A j \in DOMAIN t : t[j].type # "terminator"
        BY <3>3, <4>1, <4>2
      <4> QED
        BY <1>4, <4>3, <4>4
    <3>8. sticky_state[n] = "PASSIVE" /\ ini = n
      BY <3>0, <3>4, <3>6, <3>7 DEF TokenMakes, rest, left
    <3>9. Visited(ini, n) = Node \ {n}
      BY <3>1, <3>8, VisitedGrows
    <3>10. NothingBehind(l) /\ \A m \in Visited(ini, n) : Quiet(m)
      BY <3>1, <3>5, <3>8, <3>9, CalmRound
    <3>11. Quiet(n)
      BY <2>3, <3>8, <3>10, QuietOnArrival
    <3> QED
      BY <3>9, <3>10, <3>11
  <2> QED
    BY <2>1, <2>2, <2>3, StepIs
<1> QED
  BY <1>1, <1>2, <1>3, <1>4 DEF Ended

LEMMA RoundsInit == Init => RoundsInv
<1> SUFFICES ASSUME Init PROVE RoundsInv
  OBVIOUS
<1>1. \A l \in Link : channel[l] = <<>>
  BY DEF Init
<1>2. RoundInv /\ EndInv
  BY <1>1 DEF RoundInv, EndInv, Ended, Init
<1>3. EndType /\ ProcessingIsActive /\ StickyInv /\ MasterInv
  BY EventsAssumption DEF Init, EndType, ProcessingIsActive, StickyInv, MasterInv
<1> QED
  BY <1>2, <1>3, ThreadInit, TokenInit DEF RoundsInv

LEMMA RoundsNext == RoundsInv /\ [Next /\ TokensInTime]_vars => RoundsInv'
<1> SUFFICES ASSUME RoundsInv, [Next /\ TokensInTime]_vars PROVE RoundsInv'
  OBVIOUS
<1>1. ThreadInv' /\ TokenInv' /\ EndType' /\ ProcessingIsActive' /\ StickyInv'
  BY ThreadNext, TokenNext, EndTypeStays, ProcessingIsActiveStays, StickyStays DEF RoundsInv
<1>2. CASE Next /\ TokensInTime
  BY <1>1, <1>2, MasterStays, RoundStays, EndStays DEF RoundsInv
<1>3. CASE UNCHANGED vars
  <2>1. MasterInv'
    BY <1>3 DEF RoundsInv, MasterInv, Idle, vars, termVars
  <2>2. RoundInv'
    BY <1>3 DEF RoundsInv, RoundInv, RoundOK, Visited, NothingBehind, Quiet, Idle, Clear, NoEvent,
       vars, termVars, netVars
  <2>3. EndInv'
    BY <1>3 DEF RoundsInv, EndInv, Ended, Quiet, Idle, Clear, NoEvent, vars, termVars, netVars
  <2> QED
    BY <1>1, <2>1, <2>2, <2>3 DEF RoundsInv
<1> QED
  BY <1>2, <1>3

(* What would be enough: in a behaviour in which no token comes too early, *)
(* a node that has terminated, or is told to, has nothing left to do, nor  *)
(* has any other.  The count in the token plays no part in it: the sticky  *)
(* states suffice.  The code has other behaviours.                         *)
THEOREM TerminationIfTokensInTime ==
    Init /\ [][Next /\ TokensInTime]_vars => []NoEarlyTermination
<1>1. RoundsInv => NoEarlyTermination
  <2> SUFFICES ASSUME RoundsInv, Ended PROVE ~ WorkLeft
    BY DEF NoEarlyTermination, Ended, OnLink
  <2>1. \A n \in Node : Quiet(n)
    BY DEF RoundsInv, EndInv
  <2>2. \A n \in Node : ~ (pending[n] > 0)
    BY <2>1 DEF Quiet, Idle
  <2>3. \A w \in Worker : wpc[w] = "getEvent"
    BY <2>1, OwnNode DEF Quiet, Idle, Worker
  <2>4. ASSUME NEW l \in Link PROVE ~ (aggregate[l] > 0) /\ OnLink(l, "event") = {}
    <3>1. l[1] \in Node /\ l[2] \in Node /\ l = <<l[1], l[2]>>
      BY DEF Link
    <3>2. Clear(l)
      BY <2>1, <3>1 DEF Quiet
    <3> QED
      BY <3>2 DEF Clear, NoEvent, OnLink
  <2> QED
    BY <2>2, <2>3, <2>4 DEF WorkLeft
<1> QED
  BY <1>1, RoundsInit, RoundsNext, PTL
=============================================================================
