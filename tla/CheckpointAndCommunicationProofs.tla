------------------ MODULE CheckpointAndCommunicationProofs ------------------
(***************************************************************************)
(* Two of the managers beside the engine.                                  *)
(*                                                                         *)
(* The checkpoint manager: the safety of checkpoints for every number of   *)
(* worker threads, every interval and every number of checkpoints after    *)
(* which to pause.                                                         *)
(*                                                                         *)
(* The communication manager: nothing is lost or passed between nodes, for *)
(* every number of nodes, every size of an aggregate and every number of   *)
(* messages.                                                               *)
(***************************************************************************)
EXTENDS GVTSynchronizedCheckpointManager, TimeWarpMPICommunicationManager,
        FiniteSetTheorems, SequenceTheorems, WellFoundedInduction, TLAPS

-----------------------------------------------------------------------------
(*                       GVTSynchronizedCheckpointManager                  *)
-----------------------------------------------------------------------------
(* The inductive invariant.                                                *)

WorkerLabel == {"loop", "receiveEvent", "replenishScheduler", "blockIfNecessary",
                "barrier", "exited"}
MasterLabel == {"loop", "checkpointIfNecessary", "event_set", "lps",
                "doGenerateCheckpoint", "barrier", "pauseIfDue", "exited"}

TypeOK == /\ remaining \in Int /\ time_to_live \in Int /\ checkpointRequired \in BOOLEAN
          /\ barrier \subseteq Thread
          /\ terminate \in {"NOT_TERMINATED", "PAUSED", "NORMAL"}
          /\ DOMAIN pc = Thread
          /\ pc[Master] \in MasterLabel
          /\ \A w \in Worker : pc[w] \in WorkerLabel
          /\ taken \in [Worker -> Nat]
          /\ state \in [Worker -> Nat]
          /\ processed \in [Worker -> Nat]
          /\ archive \in [processed : {<<>>} \cup [Worker -> Nat],
                          state     : {<<>>} \cup [Worker -> Nat]]
          /\ gvts \in Nat /\ checkpoints \in Nat

(* Who waits at the barrier is in the call.                                *)
WaitersAtBarrier == \A t \in barrier : pc[t] = "barrier"

(* The request is made and cleared by the master thread between two        *)
(* iterations of its loop.                                                 *)
RequestInIteration ==
    /\ pc[Master] \in {"loop", "barrier", "pauseIfDue", "exited"} => ~ checkpointRequired
    /\ pc[Master] \in {"event_set", "lps", "doGenerateCheckpoint"} => checkpointRequired

(* Checkpoints made; the one is that the threads have yet to complete.     *)
Made == checkpoints + (IF pc[Master] = "barrier" THEN 1 ELSE 0)

(* remaining counts down from one checkpoint to the next.                  *)
Countdown ==
    interval > 0 =>
        /\ remaining \in 0 .. interval
        /\ checkpointRequired <=> remaining = 0
        /\ gvts = interval * Made + (interval - remaining)

(* time_to_live counts down over all of them; the simulation pauses in the *)
(* iteration in which it gets to zero.                                     *)
TimeToLive ==
    /\ CountTillTermination > 0 => time_to_live = CountTillTermination - Made /\ time_to_live >= 0
    /\ CountTillTermination < 0 => time_to_live = CountTillTermination
    /\ terminate = "PAUSED" => time_to_live = 0 /\ pc[Master] \in {"loop", "exited"}
    /\ pc[Master] \notin {"barrier", "pauseIfDue"} /\ terminate # "PAUSED" => time_to_live # 0

(* Once the master waits, the archive has both parts.                      *)
ArchiveIsWritten ==
    /\ pc[Master] \in {"lps", "doGenerateCheckpoint", "barrier"} =>
           archive.processed \in [Worker -> Nat]
    /\ pc[Master] \in {"doGenerateCheckpoint", "barrier"} => archive.state \in [Worker -> Nat]

Waiting == TypeOK /\ WaitersAtBarrier /\ ArchiveIsWritten
Counted == TypeOK /\ RequestInIteration /\ Countdown /\ TimeToLive

-----------------------------------------------------------------------------
(* Lemmas about the threads.                                               *)

LEMMA MasterIsNoWorker ==
  ASSUME Configured
  PROVE  Master \notin Worker /\ Master \in Thread /\ Worker \subseteq Thread
  BY DEF Master, Worker, Thread, Configured

(* pthread_barrier_wait lets go of all threads or of none.                 *)
LEMMA BarrierIsFull ==
  ASSUME Configured, barrier \subseteq Thread, Cardinality(barrier) = NumWorkers + 1
  PROVE  barrier = Thread
  <1>1. IsFiniteSet(Worker) /\ Cardinality(Worker) = NumWorkers
    <2>1. 0 \in Int /\ NumWorkers - 1 \in Int /\ NumWorkers \in Nat
      BY DEF Configured
    <2>2. IsFiniteSet(0 .. NumWorkers - 1)
          /\ Cardinality(0 .. NumWorkers - 1)
               = IF 0 > NumWorkers - 1 THEN 0 ELSE (NumWorkers - 1) - 0 + 1
      BY <2>1, FS_Interval
    <2> QED
      BY <2>1, <2>2 DEF Worker
  <1>2. IsFiniteSet(Thread) /\ Cardinality(Thread) = NumWorkers + 1
    BY <1>1, MasterIsNoWorker, FS_AddElement DEF Thread
  <1> QED
    BY <1>2, FS_Subset

(* Division and remainder below the modulus.                               *)
LEMMA Quotient ==
  ASSUME NEW a \in Nat, NEW q \in Nat, NEW r \in Nat, r < a
  PROVE  (a * q + r) \div a = q
  OBVIOUS
LEMMA NoWrap ==
  ASSUME NEW x \in Nat, NEW m \in Nat, x < m
  PROVE  x % m = x
  OBVIOUS

-----------------------------------------------------------------------------
(* Types.                                                                  *)

LEMMA TypeInit ==
  ASSUME Configured
  PROVE  Init => TypeOK
  <1> SUFFICES ASSUME Init PROVE TypeOK
    OBVIOUS
  <1>1. remaining \in Int /\ time_to_live \in Int
    BY DEF Init, Configured
  <1>2. DOMAIN pc = Thread /\ \A t \in Thread : pc[t] = "loop"
    BY DEF Init
  <1>3. archive \in [processed : {<<>>} \cup [Worker -> Nat], state : {<<>>} \cup [Worker -> Nat]]
    BY DEF Init, NoArchive
  <1> QED
    BY <1>1, <1>2, <1>3, MasterIsNoWorker DEF Init, TypeOK, MasterLabel, WorkerLabel

LEMMA TypeWorker ==
  ASSUME Configured, TypeOK, NEW w \in Worker, WorkerStep(w)
  PROVE  TypeOK'
  <1> USE MasterIsNoWorker DEF TypeOK, Goto, WorkerLabel, cpVars, engineVars
  <1>1. CASE GetEvent(w)
    BY <1>1 DEF GetEvent
  <1>2. CASE CancelEvent(w)
    BY <1>2 DEF CancelEvent
  <1>3. CASE Idle(w)
    BY <1>3 DEF Idle
  <1>4. CASE ReceiveEvent(w)
    BY <1>4 DEF ReceiveEvent
  <1>5. CASE ReplenishScheduler(w)
    BY <1>5 DEF ReplenishScheduler
  <1>6. CASE blockIfNecessary(w)
    BY <1>6 DEF blockIfNecessary
  <1>7. CASE AtBarrier(w)
    BY <1>7 DEF AtBarrier
  <1>8. CASE Exit(w)
    BY <1>8 DEF Exit
  <1> QED
    BY <1>1, <1>2, <1>3, <1>4, <1>5, <1>6, <1>7, <1>8 DEF WorkerStep

LEMMA TypeMaster ==
  ASSUME Configured, TypeOK, MasterStep
  PROVE  TypeOK'
  <1> USE MasterIsNoWorker DEF TypeOK, Goto, MasterLabel, cpVars, engineVars
  <1>1. CASE onGVT
    <2>1. (remaining - 1) % (MaxTime + 1) \in Int
      BY DEF Configured
    <2>2. remaining' \in Int /\ checkpointRequired' \in BOOLEAN
      BY <1>1, <2>1 DEF onGVT
    <2>3. /\ gvts' = gvts + 1 /\ pc' = [pc EXCEPT ![Master] = "checkpointIfNecessary"]
          /\ UNCHANGED <<time_to_live, barrier, terminate, engineVars, archive, checkpoints>>
      BY <1>1 DEF onGVT
    <2> QED
      BY <2>2, <2>3
  <1>2. CASE checkpointIfNecessary
    BY <1>2 DEF checkpointIfNecessary, NoArchive
  <1>3. CASE ArchiveEventSet
    BY <1>3 DEF ArchiveEventSet
  <1>4. CASE ArchiveLPs
    BY <1>4 DEF ArchiveLPs
  <1>5. CASE ClearRequest
    <2>1. interval \in Int /\ time_to_live \in Int
      BY DEF Configured
    <2>2. remaining' \in Int /\ checkpointRequired' \in BOOLEAN
      BY <1>5, <2>1 DEF ClearRequest
    <2>3. time_to_live' \in Int
      BY <1>5, <2>1 DEF ClearRequest
    <2> QED
      BY <1>5, <2>2, <2>3 DEF ClearRequest
  <1>6. CASE AtBarrier(Master)
    BY <1>6 DEF AtBarrier
  <1>7. CASE Released
    BY <1>7 DEF Released, WorkerLabel
  <1>8. CASE pause
    BY <1>8 DEF pause
  <1>9. CASE receiveTerminator
    BY <1>9 DEF receiveTerminator
  <1>10. CASE Exit(Master)
    BY <1>10 DEF Exit
  <1> QED
    BY <1>1, <1>2, <1>3, <1>4, <1>5, <1>6, <1>7, <1>8, <1>9, <1>10 DEF MasterStep

LEMMA TypeNext ==
  ASSUME Configured
  PROVE  TypeOK /\ [Next]_vars => TypeOK'
  <1> SUFFICES ASSUME TypeOK, [Next]_vars PROVE TypeOK'
    OBVIOUS
  <1>1. CASE UNCHANGED vars
    BY <1>1 DEF TypeOK, vars, cpVars, engineVars
  <1> QED
    BY <1>1, TypeWorker, TypeMaster DEF Next

-----------------------------------------------------------------------------
(* The barrier.                                                            *)

LEMMA WaitingInit ==
  ASSUME Configured
  PROVE  Init => Waiting
  BY TypeInit, MasterIsNoWorker DEF Init, Waiting, WaitersAtBarrier, ArchiveIsWritten

LEMMA WaitingWorker ==
  ASSUME Configured, Waiting, NEW w \in Worker, WorkerStep(w)
  PROVE  WaitersAtBarrier' /\ ArchiveIsWritten'
  <1>1. ASSUME UNCHANGED <<barrier, archive>>, pc[w] # "barrier",
               pc' = pc \/ \E to : pc' = [pc EXCEPT ![w] = to]
        PROVE  WaitersAtBarrier' /\ ArchiveIsWritten'
    BY <1>1, MasterIsNoWorker DEF Waiting, TypeOK, WaitersAtBarrier, ArchiveIsWritten
  <1>2. CASE GetEvent(w)
    BY <1>1, <1>2 DEF GetEvent, Goto
  <1>3. CASE CancelEvent(w)
    BY <1>1, <1>3 DEF CancelEvent
  <1>4. CASE Idle(w)
    BY <1>1, <1>4 DEF Idle, Goto
  <1>5. CASE ReceiveEvent(w)
    BY <1>1, <1>5 DEF ReceiveEvent, Goto
  <1>6. CASE ReplenishScheduler(w)
    BY <1>1, <1>6 DEF ReplenishScheduler, Goto
  <1>7. CASE blockIfNecessary(w)
    BY <1>1, <1>7 DEF blockIfNecessary, Goto
  <1>8. CASE AtBarrier(w)
    BY <1>8 DEF AtBarrier, Waiting, WaitersAtBarrier, ArchiveIsWritten
  <1>9. CASE Exit(w)
    BY <1>1, <1>9 DEF Exit, Goto
  <1> QED
    BY <1>2, <1>3, <1>4, <1>5, <1>6, <1>7, <1>8, <1>9 DEF WorkerStep

LEMMA WaitingMaster ==
  ASSUME Configured, Waiting, MasterStep
  PROVE  WaitersAtBarrier' /\ ArchiveIsWritten'
  <1> USE MasterIsNoWorker DEF Waiting, TypeOK, WaitersAtBarrier, ArchiveIsWritten
  <1>1. CASE onGVT
    BY <1>1 DEF onGVT, Goto
  <1>2. CASE checkpointIfNecessary
    BY <1>2 DEF checkpointIfNecessary, Goto
  <1>3. CASE ArchiveEventSet
    BY <1>3 DEF ArchiveEventSet, Goto, engineVars
  <1>4. CASE ArchiveLPs
    BY <1>4 DEF ArchiveLPs, Goto, engineVars
  <1>5. CASE ClearRequest
    BY <1>5 DEF ClearRequest, Goto
  <1>6. CASE AtBarrier(Master)
    BY <1>6 DEF AtBarrier
  <1>7. CASE Released
    BY <1>7, BarrierIsFull DEF Released
  <1>8. CASE pause
    BY <1>8 DEF pause, Goto
  <1>9. CASE receiveTerminator
    BY <1>9 DEF receiveTerminator
  <1>10. CASE Exit(Master)
    BY <1>10 DEF Exit, Goto
  <1> QED
    BY <1>1, <1>2, <1>3, <1>4, <1>5, <1>6, <1>7, <1>8, <1>9, <1>10 DEF MasterStep

LEMMA WaitingNext ==
  ASSUME Configured
  PROVE  Waiting /\ [Next]_vars => Waiting'
  <1> SUFFICES ASSUME Waiting, [Next]_vars PROVE Waiting'
    OBVIOUS
  <1>1. TypeOK'
    BY TypeNext DEF Waiting
  <1>2. CASE UNCHANGED vars
    BY <1>1, <1>2 DEF Waiting, WaitersAtBarrier, ArchiveIsWritten, vars
  <1> QED
    BY <1>1, <1>2, WaitingWorker, WaitingMaster DEF Next, Waiting

(* A worker that blocked for a checkpoint goes on when the archive has the *)
(* event set and the LPs, however the workers and the master get to the    *)
(* barrier.                                                                *)
THEOREM SpecBlockedByCheckpoint ==
  ASSUME Configured
  PROVE  Spec => BlockedByCheckpoint
  <1> DEFINE Goes == \A w \in Worker : pc[w] = "barrier" /\ pc'[w] # "barrier" =>
                         archive.processed # <<>> /\ archive.state # <<>>
  <1>1. ASSUME Waiting, [Next]_vars PROVE [Goes]_vars
    <2> SUFFICES ASSUME Next, NEW w \in Worker, pc[w] = "barrier", pc'[w] # "barrier"
                 PROVE  archive.processed # <<>> /\ archive.state # <<>>
      BY <1>1
    <2>0. pc[w] = "barrier" /\ pc'[w] # "barrier"
      OBVIOUS
    <2>1. Released
      <3>1. ASSUME NEW v \in Worker, WorkerStep(v) PROVE FALSE
        <4>1. pc[v] # "barrier" => pc'[w] = pc[w]
          <5>1. ASSUME pc[v] # "barrier", NEW to, pc' = [pc EXCEPT ![v] = to]
                PROVE  pc'[w] = pc[w]
            BY <2>0, <5>1
          <5> QED
            BY <3>1, <5>1 DEF WorkerStep, GetEvent, CancelEvent, Idle, ReceiveEvent,
               ReplenishScheduler, blockIfNecessary, AtBarrier, Exit, Goto
        <4>2. pc[v] = "barrier" => pc' = pc
          BY <3>1 DEF WorkerStep, GetEvent, CancelEvent, Idle, ReceiveEvent,
             ReplenishScheduler, blockIfNecessary, AtBarrier, Exit, Goto
        <4> QED
          BY <2>0, <4>1, <4>2
      <3>2. ASSUME MasterStep PROVE Released
        <4>1. w # Master /\ w \in Thread
          BY MasterIsNoWorker
        <4>2. \A from, to : Goto(Master, from, to) => pc'[w] = pc[w]
          BY <1>1, <4>1 DEF Goto, Waiting, TypeOK
        <4> QED
          BY <3>2, <4>2 DEF MasterStep, onGVT, checkpointIfNecessary, ArchiveEventSet,
             ArchiveLPs, ClearRequest, AtBarrier, pause, receiveTerminator, Exit
      <3> QED
        BY <3>1, <3>2 DEF Next
    <2>2. Master \in barrier
      BY <1>1, <2>1, BarrierIsFull, MasterIsNoWorker DEF Released, Waiting, TypeOK
    <2>3. archive.processed \in [Worker -> Nat] /\ archive.state \in [Worker -> Nat]
      BY <1>1, <2>2 DEF Waiting, WaitersAtBarrier, ArchiveIsWritten
    <2>4. w \in DOMAIN archive.processed /\ w \in DOMAIN archive.state /\ w \notin DOMAIN <<>>
      BY <2>3
    <2> QED
      BY <2>4
  <1> QED
    BY <1>1, WaitingInit, WaitingNext, PTL DEF Spec, BlockedByCheckpoint

-----------------------------------------------------------------------------
(* The number of checkpoints.                                              *)

LEMMA CountedInit ==
  ASSUME Configured, CountTillTermination # 0
  PROVE  Init => Counted
  <1> SUFFICES ASSUME Init PROVE Counted
    OBVIOUS
  <1>1. pc[Master] = "loop" /\ checkpoints = 0 /\ gvts = 0 /\ Made = 0
    BY MasterIsNoWorker DEF Init, Made
  <1>2. Countdown
    <2>1. interval \in Nat /\ interval * 0 = 0
      BY DEF Configured
    <2> QED
      BY <1>1, <2>1 DEF Init, Countdown
  <1>3. TypeOK
    BY TypeInit
  <1>4. CountTillTermination \in Int
    BY DEF Configured
  <1>5. TimeToLive
    BY <1>1, <1>4 DEF Init, TimeToLive
  <1> QED
    BY <1>1, <1>2, <1>3, <1>5 DEF Init, Counted, RequestInIteration

(* Workers count nothing.                                                  *)
LEMMA CountedWorker ==
  ASSUME Configured, Counted, NEW w \in Worker, WorkerStep(w)
  PROVE  RequestInIteration' /\ Countdown' /\ TimeToLive'
  <1>1. UNCHANGED <<cpVars, terminate, gvts, checkpoints>>
    BY DEF WorkerStep, GetEvent, CancelEvent, Idle, ReceiveEvent, ReplenishScheduler,
       blockIfNecessary, AtBarrier, Exit
  <1>2. pc'[Master] = pc[Master]
    <2>1. w # Master /\ Master \in Thread
      BY MasterIsNoWorker
    <2>2. \A from, to : Goto(w, from, to) => pc'[Master] = pc[Master]
      BY <2>1 DEF Goto, Counted, TypeOK
    <2> QED
      BY <2>2 DEF WorkerStep, GetEvent, CancelEvent, Idle, ReceiveEvent, ReplenishScheduler,
         blockIfNecessary, AtBarrier, Exit
  <1> QED
    BY <1>1, <1>2 DEF cpVars, Counted, RequestInIteration, Countdown, TimeToLive, Made

LEMMA CountedMaster ==
  ASSUME Configured, CountTillTermination # 0, Waiting, Counted, MasterStep
  PROVE  RequestInIteration' /\ Countdown' /\ TimeToLive'
  <1>0. /\ checkpoints \in Nat /\ gvts \in Nat /\ interval \in Nat /\ MaxTime \in Nat
        /\ time_to_live \in Int /\ remaining \in Int /\ interval <= MaxTime
        /\ CountTillTermination \in Int
        /\ DOMAIN pc = Thread /\ Master \in Thread /\ checkpointRequired \in BOOLEAN
    BY MasterIsNoWorker DEF Counted, TypeOK, Configured
  <1>1. CASE onGVT
    <2>1. pc[Master] = "loop" /\ pc'[Master] = "checkpointIfNecessary" /\ Made' = Made
          /\ Made = checkpoints /\ ~ checkpointRequired
      BY <1>0, <1>1 DEF onGVT, Goto, Made, Counted, RequestInIteration
    <2>2. ASSUME interval > 0
          PROVE  remaining' = remaining - 1 /\ remaining \in 1 .. interval
      <3>1. remaining \in 1 .. interval /\ remaining - 1 \in Nat /\ remaining - 1 < MaxTime + 1
            /\ MaxTime + 1 \in Nat
        BY <1>0, <2>1, <2>2 DEF Counted, Countdown
      <3>2. (remaining - 1) % (MaxTime + 1) = remaining - 1
        BY <3>1, NoWrap
      <3> QED
        BY <1>1, <3>1, <3>2 DEF onGVT
    <2>3. Countdown'
      <3> SUFFICES ASSUME interval > 0
                   PROVE  /\ remaining' \in 0 .. interval
                          /\ checkpointRequired' <=> remaining' = 0
                          /\ gvts' = interval * Made + (interval - remaining')
        BY <2>1 DEF Countdown
      <3>1. gvts = interval * Made + (interval - remaining)
        BY DEF Counted, Countdown
      <3>2. interval * Made \in Int
        BY <1>0, <2>1
      <3>3. gvts' = gvts + 1 /\ (checkpointRequired' <=> (checkpointRequired \/ remaining' = 0))
        BY <1>1 DEF onGVT
      <3> DEFINE p == interval * Made
      <3>4. p \in Int /\ gvts = p + (interval - remaining)
        BY <3>1, <3>2
      <3> HIDE DEF p
      <3>5. gvts' = p + (interval - remaining')
        BY <1>0, <2>2, <3>3, <3>4
      <3>6. remaining' \in 0 .. interval
        BY <1>0, <2>2
      <3> QED
        BY <2>1, <3>3, <3>5, <3>6 DEF p
    <2> QED
      BY <1>0, <1>1, <2>1, <2>3 DEF onGVT, Counted, RequestInIteration, TimeToLive, Made
  <1>2. ASSUME UNCHANGED <<cpVars, terminate, gvts, checkpoints>>, Made' = Made
        PROVE  Countdown'
    BY <1>2 DEF cpVars, Counted, Countdown
  <1>3. CASE checkpointIfNecessary \/ ArchiveEventSet \/ ArchiveLPs
    <2>1. /\ UNCHANGED <<cpVars, terminate, gvts, checkpoints>>
          /\ pc[Master] \in {"checkpointIfNecessary", "event_set", "lps"}
          /\ pc'[Master] \in {"event_set", "lps", "doGenerateCheckpoint", "loop"}
          /\ pc'[Master] = "loop" <=> ~ checkpointRequired
      BY <1>0, <1>3 DEF checkpointIfNecessary, ArchiveEventSet, ArchiveLPs, Goto, engineVars,
         Counted, RequestInIteration
    <2>2. Made' = Made
      BY <2>1 DEF Made
    <2> QED
      BY <1>2, <2>1, <2>2 DEF cpVars, Counted, RequestInIteration, TimeToLive
  <1>4. CASE ClearRequest
    <2>1. /\ pc[Master] = "doGenerateCheckpoint" /\ pc'[Master] = "barrier"
          /\ checkpointRequired /\ ~ checkpointRequired' /\ remaining' = interval
          /\ time_to_live' = (IF time_to_live > 0 THEN time_to_live - 1 ELSE time_to_live)
          /\ UNCHANGED <<terminate, gvts, checkpoints>>
      BY <1>0, <1>4 DEF ClearRequest, Goto, Counted, RequestInIteration
    <2>2. Made = checkpoints /\ Made' = checkpoints + 1
      BY <2>1, <1>0 DEF Made
    <2>3. Countdown'
      <3>1. interval * (checkpoints + 1) = interval * checkpoints + interval
            /\ interval * checkpoints \in Int
        BY <1>0
      <3> QED
        BY <1>0, <2>1, <2>2, <3>1 DEF Counted, Countdown
    <2>4. TimeToLive'
      BY <1>0, <2>1, <2>2 DEF Counted, TimeToLive
    <2> QED
      BY <2>1, <2>3, <2>4 DEF RequestInIteration
  <1>5. CASE AtBarrier(Master)
    BY <1>2, <1>5 DEF AtBarrier, cpVars, Counted, RequestInIteration, TimeToLive, Made
  <1>6. CASE Released
    <2>1. Master \in barrier
      BY <1>6, BarrierIsFull, MasterIsNoWorker DEF Released, Waiting, TypeOK
    <2>2. /\ pc[Master] = "barrier" /\ pc'[Master] = "pauseIfDue"
          /\ checkpoints' = checkpoints + 1 /\ UNCHANGED <<cpVars, terminate, gvts>>
      BY <1>0, <1>6, <2>1 DEF Released, Waiting, WaitersAtBarrier
    <2>3. Made' = Made
      BY <1>0, <2>2 DEF Made
    <2> QED
      BY <2>2, <2>3 DEF cpVars, Counted, RequestInIteration, Countdown, TimeToLive
  <1>7. CASE pause
    <2>1. /\ pc[Master] = "pauseIfDue" /\ pc'[Master] = "loop"
          /\ UNCHANGED <<cpVars, gvts, checkpoints>>
          /\ terminate' = (IF time_to_live = 0 THEN "PAUSED" ELSE terminate)
      BY <1>0, <1>7 DEF pause, Goto
    <2>2. Made' = Made
      BY <2>1 DEF Made
    <2> QED
      BY <2>1, <2>2 DEF cpVars, Counted, RequestInIteration, Countdown, TimeToLive
  <1>8. CASE receiveTerminator
    BY <1>8 DEF receiveTerminator, cpVars, Counted, RequestInIteration, Countdown, TimeToLive, Made
  <1>9. CASE Exit(Master)
    <2>1. /\ pc[Master] = "loop" /\ pc'[Master] = "exited"
          /\ UNCHANGED <<cpVars, terminate, gvts, checkpoints>>
      BY <1>0, <1>9 DEF Exit, Goto
    <2>2. Made' = Made
      BY <2>1 DEF Made
    <2> QED
      BY <1>2, <2>1, <2>2 DEF cpVars, Counted, RequestInIteration, TimeToLive
  <1> QED
    BY <1>1, <1>3, <1>4, <1>5, <1>6, <1>7, <1>8, <1>9 DEF MasterStep

LEMMA CountedNext ==
  ASSUME Configured, CountTillTermination # 0
  PROVE  Waiting /\ Counted /\ [Next]_vars => Counted'
  <1> SUFFICES ASSUME Waiting, Counted, [Next]_vars PROVE Counted'
    OBVIOUS
  <1>1. TypeOK'
    BY TypeNext DEF Counted
  <1>2. CASE UNCHANGED vars
    BY <1>1, <1>2 DEF Counted, RequestInIteration, Countdown, TimeToLive, Made, vars, cpVars
  <1> QED
    BY <1>1, <1>2, CountedWorker, CountedMaster DEF Next, Counted

(* Whatever the interval, a checkpoint is completed at every interval-th   *)
(* update of the GVT and at no other, and the simulation pauses with the   *)
(* one the configuration names, or never if it names none.  Zero is        *)
(* excluded: the master looks at time_to_live after a checkpoint, so zero  *)
(* pauses with the first one as one does.                                  *)
THEOREM SpecCheckpointsCounted ==
  ASSUME Configured, CountTillTermination # 0
  PROVE  Spec => []CheckpointsCounted
  <1>1. Counted => CheckpointsCounted
    <2> SUFFICES ASSUME Counted, pc[Master] = "loop"
                 PROVE  /\ interval > 0 => checkpoints = gvts \div interval
                        /\ terminate = "PAUSED" <=> checkpoints = CountTillTermination
      BY DEF CheckpointsCounted
    <2>1. Made = checkpoints /\ checkpoints \in Nat /\ interval \in Nat /\ remaining \in Int
          /\ CountTillTermination \in Int
      BY DEF Made, Counted, TypeOK, Configured
    <2>2. ASSUME interval > 0 PROVE checkpoints = gvts \div interval
      <3>1. remaining \in 1 .. interval /\ gvts = interval * checkpoints + (interval - remaining)
        BY <2>1, <2>2 DEF Counted, RequestInIteration, Countdown
      <3>2. interval - remaining \in Nat /\ interval - remaining < interval
        BY <2>1, <3>1
      <3> QED
        BY <2>1, <3>1, <3>2, Quotient
    <2>3. terminate = "PAUSED" <=> time_to_live = 0
      BY DEF Counted, TimeToLive
    <2>4. time_to_live = 0 <=> checkpoints = CountTillTermination
      BY <2>1 DEF Counted, TimeToLive
    <2> QED
      BY <2>2, <2>3, <2>4
  <1> QED
    BY <1>1, WaitingInit, WaitingNext, CountedInit, CountedNext, PTL DEF Spec

-----------------------------------------------------------------------------
(*                       TimeWarpMPICommunicationManager                   *)
-----------------------------------------------------------------------------
(* Messages in boxes: what is in front is ahead.                           *)

AMessage == [from : Node, to : Node, event : BOOLEAN, no : Nat]

IsPlace(b, from, to, i, k) ==
    i \in 1 .. Len(b) /\ k \in 1 .. Len(b[i]) /\ b[i][k].from = from /\ b[i][k].to = to

Ahead(i, k, j, l) == i < j \/ (i = j /\ k < l)

AllPresent(b, from, to, msgs) ==
    /\ \A i, k \in Nat : IsPlace(b, from, to, i, k) => b[i][k] \in msgs
    /\ \A m \in msgs : \E i, k \in Nat : IsPlace(b, from, to, i, k) /\ b[i][k] = m

NoneTwice(b, from, to) ==
    \A i, k, j, l \in Nat :
        (IsPlace(b, from, to, i, k) /\ IsPlace(b, from, to, j, l) /\ b[i][k] = b[j][l])
            => i = j /\ k = l

NonePassed(b, from, to) ==
    \A i, k, j, l \in Nat :
        (IsPlace(b, from, to, i, k) /\ IsPlace(b, from, to, j, l)
            /\ 1 < i /\ 1 < j /\ Ahead(i, k, j, l))
            => b[i][k].no < b[j][l].no

InOrder(b, from, to, msgs) ==
    AllPresent(b, from, to, msgs) /\ NoneTwice(b, from, to) /\ NonePassed(b, from, to)

(* bx and at say where in b is what c has at a place.                      *)
KeepsMessages(b, c, from, to, bx, at) ==
    \A i, k \in Nat : IsPlace(c, from, to, i, k) =>
        /\ IsPlace(b, from, to, bx[i][k], at[i][k])
        /\ c[i][k] = b[bx[i][k]][at[i][k]]
        /\ 1 < i => 1 < bx[i][k]

LosesNone(b, c, from, to, bx, at) ==
    \A j, l \in Nat : IsPlace(b, from, to, j, l) =>
        \E i, k \in Nat : IsPlace(c, from, to, i, k) /\ bx[i][k] = j /\ at[i][k] = l

KeptApart(bx, at, i, k, j, l) ==
    /\ (bx[i][k] = bx[j][l] /\ at[i][k] = at[j][l]) => i = j /\ k = l
    /\ (1 < i /\ 1 < j /\ Ahead(i, k, j, l))
           => Ahead(bx[i][k], at[i][k], bx[j][l], at[j][l])

KeepsOrder(b, c, from, to, bx, at) ==
    \A i, k, j, l \in Nat :
        (IsPlace(c, from, to, i, k) /\ IsPlace(c, from, to, j, l))
            => KeptApart(bx, at, i, k, j, l)

LEMMA Rearranged ==
    ASSUME NEW b, NEW c, NEW from, NEW to, NEW msgs,
           NEW bx \in [Nat -> [Nat -> Nat]], NEW at \in [Nat -> [Nat -> Nat]],
           InOrder(b, from, to, msgs), KeepsMessages(b, c, from, to, bx, at),
           LosesNone(b, c, from, to, bx, at), KeepsOrder(b, c, from, to, bx, at)
    PROVE  InOrder(c, from, to, msgs)
<1>0. \A i, k \in Nat : bx[i][k] \in Nat /\ at[i][k] \in Nat
  OBVIOUS
<1>1. AllPresent(c, from, to, msgs)
  <2>1. ASSUME NEW i \in Nat, NEW k \in Nat, IsPlace(c, from, to, i, k)
        PROVE  c[i][k] \in msgs
    <3>1. PICK j \in Nat, l \in Nat : j = bx[i][k] /\ l = at[i][k]
      BY <1>0
    <3>2. IsPlace(b, from, to, j, l) /\ c[i][k] = b[j][l]
      BY <2>1, <3>1 DEF KeepsMessages
    <3>3. b[j][l] \in msgs
      BY <3>2 DEF InOrder, AllPresent
    <3> QED
      BY <3>2, <3>3
  <2>2. ASSUME NEW m \in msgs
        PROVE  \E i, k \in Nat : IsPlace(c, from, to, i, k) /\ c[i][k] = m
    <3>1. PICK j, l \in Nat : IsPlace(b, from, to, j, l) /\ b[j][l] = m
      BY <2>2 DEF InOrder, AllPresent
    <3>2. PICK i, k \in Nat : IsPlace(c, from, to, i, k) /\ bx[i][k] = j /\ at[i][k] = l
      BY <3>1 DEF LosesNone
    <3>3. c[i][k] = b[j][l]
      BY <3>2 DEF KeepsMessages
    <3> QED
      BY <3>1, <3>2, <3>3
  <2> QED
    BY <2>1, <2>2 DEF AllPresent
<1> SUFFICES ASSUME NEW i \in Nat, NEW k \in Nat, NEW j \in Nat, NEW l \in Nat,
                    IsPlace(c, from, to, i, k), IsPlace(c, from, to, j, l)
             PROVE  /\ c[i][k] = c[j][l] => i = j /\ k = l
                    /\ (1 < i /\ 1 < j /\ Ahead(i, k, j, l)) => c[i][k].no < c[j][l].no
  BY <1>1 DEF InOrder, NoneTwice, NonePassed
<1>2. PICK i2 \in Nat, k2 \in Nat : i2 = bx[i][k] /\ k2 = at[i][k]
  BY <1>0
<1>3. PICK j2 \in Nat, l2 \in Nat : j2 = bx[j][l] /\ l2 = at[j][l]
  BY <1>0
<1>4. IsPlace(b, from, to, i2, k2) /\ c[i][k] = b[i2][k2] /\ (1 < i => 1 < i2)
  BY <1>2 DEF KeepsMessages
<1>5. IsPlace(b, from, to, j2, l2) /\ c[j][l] = b[j2][l2] /\ (1 < j => 1 < j2)
  BY <1>3 DEF KeepsMessages
<1>6. /\ (i2 = j2 /\ k2 = l2) => i = j /\ k = l
      /\ (1 < i /\ 1 < j /\ Ahead(i, k, j, l)) => Ahead(i2, k2, j2, l2)
  <2>1. /\ (bx[i][k] = bx[j][l] /\ at[i][k] = at[j][l]) => i = j /\ k = l
        /\ (1 < i /\ 1 < j /\ Ahead(i, k, j, l))
               => Ahead(bx[i][k], at[i][k], bx[j][l], at[j][l])
    <3>1. KeptApart(bx, at, i, k, j, l)
      BY DEF KeepsOrder
    <3> QED
      BY <3>1 DEF KeptApart
  <2> QED
    BY <2>1, <1>2, <1>3
<1>7. c[i][k] = c[j][l] => i = j /\ k = l
  <2>1. b[i2][k2] = b[j2][l2] => i2 = j2 /\ k2 = l2
    BY <1>4, <1>5 DEF InOrder, NoneTwice
  <2> QED
    BY <2>1, <1>4, <1>5, <1>6
<1>8. ASSUME 1 < i, 1 < j, Ahead(i, k, j, l)
      PROVE  c[i][k].no < c[j][l].no
  <2>1. Ahead(i2, k2, j2, l2) /\ 1 < i2 /\ 1 < j2
    BY <1>4, <1>5, <1>6, <1>8
  <2>2. b[i2][k2].no < b[j2][l2].no
    BY <1>4, <1>5, <2>1 DEF InOrder, NonePassed
  <2> QED
    BY <2>2, <1>4, <1>5
<1> QED
  BY <1>7, <1>8

(* A box in which the link has nothing changes nothing for it.             *)
LEMMA BoxAdded ==
    ASSUME NEW b \in Seq(Seq(AMessage)), NEW c \in Seq(Seq(AMessage)), NEW from, NEW to,
           NEW msgs, NEW x \in 2 .. Len(b) + 1,
           Len(c) = Len(b) + 1, \A i \in 1 .. x - 1 : c[i] = b[i],
           \A i \in x + 1 .. Len(c) : c[i] = b[i - 1],
           \A k \in 1 .. Len(c[x]) : c[x][k].from # from \/ c[x][k].to # to,
           InOrder(b, from, to, msgs)
    PROVE  InOrder(c, from, to, msgs)
<1> DEFINE bx == [i \in Nat |-> [k \in Nat |-> IF i <= x THEN i ELSE i - 1]]
           at == [i \in Nat |-> [k \in Nat |-> k]]
<1>1. /\ bx \in [Nat -> [Nat -> Nat]] /\ at \in [Nat -> [Nat -> Nat]]
      /\ \A i, k \in Nat : bx[i][k] = (IF i <= x THEN i ELSE i - 1) /\ at[i][k] = k
  OBVIOUS
<1> HIDE DEF bx, at
<1>0. Len(b) \in Nat /\ Len(c) \in Nat /\ x \in Nat /\ 2 <= x /\ x <= Len(b) + 1
  OBVIOUS
<1>2. ASSUME NEW i \in Nat, NEW k \in Nat, IsPlace(c, from, to, i, k)
      PROVE  /\ i # x
             /\ IsPlace(b, from, to, bx[i][k], at[i][k])
             /\ c[i][k] = b[bx[i][k]][at[i][k]]
             /\ 1 < i => 1 < bx[i][k]
  <2>0. at[i][k] = k /\ bx[i][k] = (IF i <= x THEN i ELSE i - 1)
    BY <1>1
  <2>1. i # x
    BY <1>2 DEF IsPlace
  <2>2. CASE i < x
    <3>1. bx[i][k] = i /\ i \in 1 .. Len(b) /\ i \in 1 .. x - 1
      BY <1>0, <2>0, <2>2, <1>2 DEF IsPlace
    <3>2. c[i] = b[i]
      BY <3>1
    <3> QED
      BY <1>2, <2>0, <2>1, <3>1, <3>2 DEF IsPlace
  <2>3. CASE i > x
    <3>1. PICK j \in Nat : j = i - 1
      BY <1>0, <2>3
    <3>2. i \in x + 1 .. Len(c)
      BY <1>0, <2>3, <1>2 DEF IsPlace
    <3>5. j \in 1 .. Len(b) /\ 1 < j
      BY <1>0, <2>3, <3>1, <3>2
    <3>3. c[i] = b[j]
      BY <3>1, <3>2
    <3>4. bx[i][k] = j
      BY <2>0, <2>3, <3>1
    <3> QED
      BY <1>2, <2>0, <2>1, <3>2, <3>3, <3>4, <3>5 DEF IsPlace
  <2> QED
    BY <2>1, <2>2, <2>3
<1>3. ASSUME NEW j \in Nat, NEW l \in Nat, IsPlace(b, from, to, j, l)
      PROVE  \E i, k \in Nat : IsPlace(c, from, to, i, k) /\ bx[i][k] = j /\ at[i][k] = l
  <2>1. CASE j < x
    <3>1. j \in 1 .. x - 1 /\ j \in 1 .. Len(c)
      BY <1>0, <1>3, <2>1 DEF IsPlace
    <3>2. bx[j][l] = j /\ at[j][l] = l
      <4>1. bx[j][l] = (IF j <= x THEN j ELSE j - 1) /\ at[j][l] = l
        BY <1>1
      <4> QED
        BY <4>1, <1>0, <2>1
    <3>3. c[j] = b[j]
      BY <3>1
    <3>4. IsPlace(c, from, to, j, l)
      BY <1>3, <3>1, <3>3 DEF IsPlace
    <3> QED
      BY <3>2, <3>4
  <2>2. CASE j >= x
    <3>1. PICK i \in Nat : i = j + 1
      OBVIOUS
    <3>2. i \in x + 1 .. Len(c) /\ i - 1 = j
      BY <1>0, <2>2, <1>3, <3>1 DEF IsPlace
    <3>3. c[i] = b[i - 1]
      BY <3>2
    <3>4. ~ (i <= x) /\ i \in 1 .. Len(c)
      BY <1>0, <3>2
    <3>5. bx[i][l] = j /\ at[i][l] = l
      BY <1>1, <3>2, <3>4
    <3>6. IsPlace(c, from, to, i, l)
      BY <1>3, <3>2, <3>3, <3>4 DEF IsPlace
    <3> QED
      BY <3>5, <3>6
  <2> QED
    BY <2>1, <2>2, <1>3 DEF IsPlace
<1>4. ASSUME NEW i \in Nat, NEW k \in Nat, NEW j \in Nat, NEW l \in Nat,
             IsPlace(c, from, to, i, k), IsPlace(c, from, to, j, l)
      PROVE  KeptApart(bx, at, i, k, j, l)
  <2>1. i # x /\ j # x
    BY <1>2, <1>4
  <2>2. /\ at[i][k] = k /\ bx[i][k] = (IF i <= x THEN i ELSE i - 1)
        /\ at[j][l] = l /\ bx[j][l] = (IF j <= x THEN j ELSE j - 1)
    BY <1>1
  <2> QED
    BY <2>1, <2>2 DEF Ahead, KeptApart
<1>5. KeepsMessages(b, c, from, to, bx, at) /\ LosesNone(b, c, from, to, bx, at)
  BY <1>2, <1>3 DEF KeepsMessages, LosesNone
<1>6. KeepsOrder(b, c, from, to, bx, at)
  BY <1>4 DEF KeepsOrder
<1> QED
  BY <1>1, <1>5, <1>6, Rearranged

(* Where the boxes come from when the one at x joins the first.            *)
From(x, i) == IF i < x THEN i ELSE i + 1

LEMMA FromApart ==
    ASSUME NEW x \in Nat, 2 <= x, NEW i \in Nat, NEW j \in Nat
    PROVE  /\ From(x, i) \in Nat /\ From(x, i) # x /\ (1 < i => From(x, i) # 1)
           /\ From(x, i) = From(x, j) => i = j
           /\ i < j => From(x, i) < From(x, j)
  BY DEF From

(* MPI completes a receive: its messages join those that were handled.     *)
LEMMA BoxHandled ==
    ASSUME NEW b \in Seq(Seq(AMessage)), NEW c \in Seq(Seq(AMessage)), NEW from, NEW to,
           NEW msgs, NEW x \in 2 .. Len(b),
           Len(c) = Len(b) - 1, c[1] = b[1] \o b[x],
           \A i \in 2 .. x - 1 : c[i] = b[i],
           \A i \in x .. Len(c) : c[i] = b[i + 1],
           InOrder(b, from, to, msgs)
    PROVE  InOrder(c, from, to, msgs)
<1>0. Len(b) \in Nat /\ Len(c) \in Nat /\ x \in Nat /\ 2 <= x /\ x <= Len(b)
  OBVIOUS
<1>h. PICK h \in Nat, hx \in Nat :
         /\ h = Len(b[1]) /\ hx = Len(b[x]) /\ Len(c[1]) = h + hx
         /\ \A k \in 1 .. h : c[1][k] = b[1][k]
         /\ \A k \in h + 1 .. h + hx : c[1][k] = b[x][k - h]
  <2>1. b[1] \in Seq(AMessage) /\ b[x] \in Seq(AMessage)
    BY <1>0
  <2>2. PICK s \in Seq(AMessage), t \in Seq(AMessage) : s = b[1] /\ t = b[x]
    BY <2>1
  <2>3. /\ Len(s) \in Nat /\ Len(t) \in Nat /\ Len(s \o t) = Len(s) + Len(t)
        /\ \A k \in 1 .. Len(s) : (s \o t)[k] = s[k]
        /\ \A k \in Len(s) + 1 .. Len(s) + Len(t) : (s \o t)[k] = t[k - Len(s)]
    BY ConcatProperties
  <2>4. c[1] = s \o t
    BY <2>2
  <2>5. PICK h \in Nat, hx \in Nat : h = Len(s) /\ hx = Len(t)
    BY <2>3
  <2>6. /\ h = Len(b[1]) /\ hx = Len(b[x]) /\ Len(c[1]) = h + hx
        /\ \A k \in 1 .. h : c[1][k] = b[1][k]
        /\ \A k \in h + 1 .. h + hx : c[1][k] = b[x][k - h]
    <3>1. h = Len(b[1]) /\ hx = Len(b[x]) /\ Len(c[1]) = h + hx
      BY <2>2, <2>3, <2>4, <2>5
    <3>2. ASSUME NEW k \in 1 .. h PROVE c[1][k] = b[1][k]
      BY <3>2, <2>2, <2>3, <2>4, <2>5
    <3>3. ASSUME NEW k \in h + 1 .. h + hx PROVE c[1][k] = b[x][k - h]
      BY <3>3, <2>2, <2>3, <2>4, <2>5
    <3> QED
      BY <3>1, <3>2, <3>3
  <2> QED
    BY <2>6
<1>l. h = Len(b[1]) /\ hx = Len(b[x]) /\ Len(c[1]) = h + hx
  BY <1>h
<1> DEFINE bx == [i \in Nat |-> [k \in Nat |-> IF i = 1 THEN IF k <= h THEN 1 ELSE x
                                               ELSE IF i < x THEN i ELSE i + 1]]
           at == [i \in Nat |-> [k \in Nat |-> IF i = 1 /\ k > h THEN k - h ELSE k]]
<1>1. /\ bx \in [Nat -> [Nat -> Nat]] /\ at \in [Nat -> [Nat -> Nat]]
      /\ \A i, k \in Nat : /\ bx[i][k] = (IF i = 1 THEN IF k <= h THEN 1 ELSE x
                                           ELSE IF i < x THEN i ELSE i + 1)
                           /\ at[i][k] = (IF i = 1 /\ k > h THEN k - h ELSE k)
  BY <1>0
<1> HIDE DEF bx, at
<1>2. ASSUME NEW i \in Nat, NEW k \in Nat, IsPlace(c, from, to, i, k)
      PROVE  /\ IsPlace(b, from, to, bx[i][k], at[i][k])
             /\ c[i][k] = b[bx[i][k]][at[i][k]]
             /\ 1 < i => 1 < bx[i][k]
  <2>0. /\ bx[i][k] = (IF i = 1 THEN IF k <= h THEN 1 ELSE x ELSE IF i < x THEN i ELSE i + 1)
        /\ at[i][k] = (IF i = 1 /\ k > h THEN k - h ELSE k)
    BY <1>1
  <2>1. CASE i = 1 /\ k <= h
    <3>1. bx[i][k] = 1 /\ at[i][k] = k /\ k \in 1 .. h /\ 1 \in 1 .. Len(b)
      BY <1>0, <2>0, <2>1, <1>2 DEF IsPlace
    <3>2. c[1][k] = b[1][k]
      BY <1>h, <3>1
    <3> QED
      BY <1>2, <1>h, <2>1, <3>1, <3>2 DEF IsPlace
  <2>2. CASE i = 1 /\ ~ (k <= h)
    <3>1. PICK j \in Nat : j = k - h
      BY <2>2
    <3>2. k \in h + 1 .. h + hx /\ j \in 1 .. hx
      <4>1. k \in 1 .. h + hx
        BY <1>l, <2>2, <1>2 DEF IsPlace
      <4> QED
        BY <4>1, <2>2, <3>1
    <3>4. bx[i][k] = x /\ at[i][k] = j
      BY <2>0, <2>2, <3>1
    <3>3. c[1][k] = b[x][j] /\ x \in 1 .. Len(b)
      BY <1>0, <1>h, <3>1, <3>2
    <3>5. c[i][k] = b[x][j]
      BY <2>2, <3>3
    <3>6. IsPlace(b, from, to, x, j)
      BY <1>2, <1>l, <3>2, <3>3, <3>5 DEF IsPlace
    <3> QED
      BY <2>2, <3>4, <3>5, <3>6
  <2>3. CASE i # 1 /\ i < x
    <3>1. bx[i][k] = i /\ at[i][k] = k /\ i \in 1 .. Len(b)
      BY <1>0, <2>0, <2>3, <1>2 DEF IsPlace
    <3>2. i \in 2 .. x - 1
      BY <1>0, <2>3, <1>2 DEF IsPlace
    <3>3. c[i] = b[i]
      BY <3>2
    <3> QED
      BY <1>2, <2>3, <3>1, <3>3 DEF IsPlace
  <2>4. CASE i # 1 /\ ~ (i < x)
    <3>1. PICK j \in Nat : j = i + 1
      OBVIOUS
    <3>2. i \in x .. Len(c)
      BY <1>0, <2>4, <1>2 DEF IsPlace
    <3>3. c[i] = b[j]
      BY <3>1, <3>2
    <3>4. bx[i][k] = j /\ at[i][k] = k
      BY <2>0, <2>4, <3>1
    <3>5. j \in 1 .. Len(b) /\ 1 < j
      BY <1>0, <3>1, <3>2
    <3> QED
      BY <1>2, <2>4, <3>3, <3>4, <3>5 DEF IsPlace
  <2> QED
    BY <2>1, <2>2, <2>3, <2>4
<1>3. ASSUME NEW j \in Nat, NEW l \in Nat, IsPlace(b, from, to, j, l)
      PROVE  \E i, k \in Nat : IsPlace(c, from, to, i, k) /\ bx[i][k] = j /\ at[i][k] = l
  <2>1. CASE j = 1
    <3>1. l \in 1 .. h /\ l \in 1 .. h + hx /\ 1 \in 1 .. Len(c)
      <4>1. l \in 1 .. h
        BY <1>l, <1>3, <2>1 DEF IsPlace
      <4> QED
        BY <1>0, <4>1
    <3>2. /\ bx[1][l] = (IF 1 = 1 THEN IF l <= h THEN 1 ELSE x ELSE IF 1 < x THEN 1 ELSE 1 + 1)
          /\ at[1][l] = (IF 1 = 1 /\ l > h THEN l - h ELSE l)
      BY <1>1
    <3>3. bx[1][l] = 1 /\ at[1][l] = l
      BY <3>1, <3>2
    <3>4. c[1][l] = b[1][l]
      BY <1>h, <3>1
    <3>5. IsPlace(c, from, to, 1, l)
      BY <1>h, <1>3, <2>1, <3>1, <3>4 DEF IsPlace
    <3> QED
      BY <2>1, <3>3, <3>5
  <2>2. CASE j = x
    <3>1. PICK k \in Nat : k = l + h
      OBVIOUS
    <3>2. k \in h + 1 .. h + hx /\ k \in 1 .. h + hx /\ 1 \in 1 .. Len(c) /\ k - h = l /\ k > h
      <4>1. l \in 1 .. hx
        BY <1>l, <1>3, <2>2 DEF IsPlace
      <4> QED
        BY <1>0, <4>1, <3>1
    <3>3. /\ bx[1][k] = (IF 1 = 1 THEN IF k <= h THEN 1 ELSE x ELSE IF 1 < x THEN 1 ELSE 1 + 1)
          /\ at[1][k] = (IF 1 = 1 /\ k > h THEN k - h ELSE k)
      BY <1>1
    <3>4. bx[1][k] = x /\ at[1][k] = l
      BY <3>2, <3>3
    <3>5. c[1][k] = b[x][l]
      BY <1>h, <3>2
    <3>6. IsPlace(c, from, to, 1, k)
      BY <1>h, <1>3, <2>2, <3>2, <3>5 DEF IsPlace
    <3> QED
      BY <2>2, <3>4, <3>6
  <2>3. CASE j # 1 /\ j < x
    <3>1. j \in 2 .. x - 1 /\ j \in 1 .. Len(c)
      BY <1>0, <1>3, <2>3 DEF IsPlace
    <3>2. /\ bx[j][l] = (IF j = 1 THEN IF l <= h THEN 1 ELSE x ELSE IF j < x THEN j ELSE j + 1)
          /\ at[j][l] = (IF j = 1 /\ l > h THEN l - h ELSE l)
      BY <1>1
    <3>3. bx[j][l] = j /\ at[j][l] = l
      BY <2>3, <3>2
    <3>4. c[j] = b[j]
      BY <3>1
    <3>5. IsPlace(c, from, to, j, l)
      BY <1>3, <3>1, <3>4 DEF IsPlace
    <3> QED
      BY <3>3, <3>5
  <2>4. CASE j > x
    <3>1. PICK i \in Nat : i = j - 1
      BY <1>0, <2>4
    <3>2. i \in x .. Len(c) /\ i \in 1 .. Len(c) /\ i # 1 /\ ~ (i < x) /\ i + 1 = j
      BY <1>0, <1>3, <2>4, <3>1 DEF IsPlace
    <3>3. /\ bx[i][l] = (IF i = 1 THEN IF l <= h THEN 1 ELSE x ELSE IF i < x THEN i ELSE i + 1)
          /\ at[i][l] = (IF i = 1 /\ l > h THEN l - h ELSE l)
      BY <1>1
    <3>4. bx[i][l] = j /\ at[i][l] = l
      BY <3>2, <3>3
    <3>5. c[i] = b[i + 1]
      BY <3>2
    <3>6. IsPlace(c, from, to, i, l)
      BY <1>3, <3>2, <3>5 DEF IsPlace
    <3> QED
      BY <3>4, <3>6
  <2> QED
    BY <1>0, <2>1, <2>2, <2>3, <2>4
<1>4. ASSUME NEW i \in Nat, NEW k \in Nat, NEW j \in Nat, NEW l \in Nat,
             IsPlace(c, from, to, i, k), IsPlace(c, from, to, j, l)
      PROVE  KeptApart(bx, at, i, k, j, l)
  <2>1. i >= 1 /\ j >= 1
    BY <1>4 DEF IsPlace
  <2>2. /\ bx[i][k] = (IF i = 1 THEN IF k <= h THEN 1 ELSE x ELSE IF i < x THEN i ELSE i + 1)
        /\ at[i][k] = (IF i = 1 /\ k > h THEN k - h ELSE k)
    BY <1>1
  <2>3. /\ bx[j][l] = (IF j = 1 THEN IF l <= h THEN 1 ELSE x ELSE IF j < x THEN j ELSE j + 1)
        /\ at[j][l] = (IF j = 1 /\ l > h THEN l - h ELSE l)
    BY <1>1
  <2>4. CASE i = 1 /\ j = 1
    <3>1. bx[i][k] = (IF k <= h THEN 1 ELSE x) /\ at[i][k] = (IF k > h THEN k - h ELSE k)
      BY <2>2, <2>4
    <3>2. bx[j][l] = (IF l <= h THEN 1 ELSE x) /\ at[j][l] = (IF l > h THEN l - h ELSE l)
      BY <2>3, <2>4
    <3> QED
      BY <1>0, <2>4, <3>1, <3>2 DEF KeptApart
  <2>8. x \in Nat /\ 2 <= x
    BY <1>0
  <2>5. CASE i = 1 /\ j # 1
    <3>1. bx[i][k] = 1 \/ bx[i][k] = x
      BY <2>2, <2>5
    <3>2. bx[j][l] = From(x, j)
      BY <2>3, <2>5 DEF From
    <3>3. 1 < j
      BY <2>1, <2>5
    <3>4. bx[j][l] # 1 /\ bx[j][l] # x
      BY <2>8, <3>2, <3>3, FromApart
    <3>5. bx[i][k] # bx[j][l] /\ ~ (1 < i)
      BY <2>5, <3>1, <3>4
    <3> QED
      BY <3>5, Zenon DEF KeptApart
  <2>6. CASE i # 1 /\ j = 1
    <3>1. bx[j][l] = 1 \/ bx[j][l] = x
      BY <2>3, <2>6
    <3>2. bx[i][k] = From(x, i)
      BY <2>2, <2>6 DEF From
    <3>3. 1 < i
      BY <2>1, <2>6
    <3>4. bx[i][k] # 1 /\ bx[i][k] # x
      BY <2>8, <3>2, <3>3, FromApart
    <3>5. bx[i][k] # bx[j][l] /\ ~ (1 < j)
      BY <2>6, <3>1, <3>4
    <3> QED
      BY <3>5, Zenon DEF KeptApart
  <2>7. CASE i # 1 /\ j # 1
    <3>1. bx[i][k] = From(x, i) /\ at[i][k] = k
      BY <2>2, <2>7 DEF From
    <3>2. bx[j][l] = From(x, j) /\ at[j][l] = l
      BY <2>3, <2>7 DEF From
    <3>3. /\ From(x, i) = From(x, j) => i = j
          /\ i < j => From(x, i) < From(x, j)
      BY <2>8, FromApart
    <3>4. Ahead(i, k, j, l) => Ahead(From(x, i), k, From(x, j), l)
      BY <3>3, Zenon DEF Ahead
    <3> QED
      BY <3>1, <3>2, <3>3, <3>4, Zenon DEF KeptApart
  <2> QED
    BY <2>4, <2>5, <2>6, <2>7
<1>5. KeepsMessages(b, c, from, to, bx, at) /\ LosesNone(b, c, from, to, bx, at)
  BY <1>2, <1>3 DEF KeepsMessages, LosesNone
<1>6. KeepsOrder(b, c, from, to, bx, at)
  BY <1>4 DEF KeepsOrder
<1> QED
  BY <1>1, <1>5, <1>6, Rearranged

(* One message goes from the front of the last box to the end of the box   *)
(* before it.                                                              *)
LEMMA HeadMoved ==
    ASSUME NEW b \in Seq(Seq(AMessage)), NEW c \in Seq(Seq(AMessage)), NEW from, NEW to,
           NEW msgs, NEW x \in Nat, 1 < x, Len(b) = x + 1, Len(c) = x + 1,
           \A i \in 1 .. x - 1 : c[i] = b[i],
           b[x + 1] # <<>>, c[x] = Append(b[x], Head(b[x + 1])), c[x + 1] = Tail(b[x + 1]),
           InOrder(b, from, to, msgs)
    PROVE  InOrder(c, from, to, msgs)
<1>0. PICK y \in Nat : y = x + 1
  OBVIOUS
<1>h. PICK h \in Nat, hy \in Nat :
         /\ h = Len(b[x]) /\ Len(b[y]) = hy + 1 /\ Len(c[x]) = h + 1 /\ Len(c[y]) = hy
         /\ \A k \in 1 .. h : c[x][k] = b[x][k]
         /\ c[x][h + 1] = b[y][1]
         /\ \A k \in 1 .. hy : c[y][k] = b[y][k + 1]
  <2>1. b[x] \in Seq(AMessage) /\ b[y] \in Seq(AMessage)
    BY <1>0
  <2>2. PICK s \in Seq(AMessage), t \in Seq(AMessage) : s = b[x] /\ t = b[y]
    BY <2>1
  <2>3. t # <<>> /\ c[x] = Append(s, Head(t)) /\ c[y] = Tail(t)
    BY <1>0, <2>2
  <2>4. PICK h \in Nat, hy \in Nat : h = Len(s) /\ Len(t) = hy + 1
    <3>0. Len(s) \in Nat /\ Len(t) \in Nat
      OBVIOUS
    <3>00. Len(t) # 0
      BY <2>3, EmptySeq
    <3>1. Len(s) \in Nat /\ Len(t) \in Nat /\ Len(t) # 0
      BY <3>0, <3>00
    <3>2. Len(t) - 1 \in Nat /\ Len(t) = (Len(t) - 1) + 1
      BY <3>1
    <3> QED
      BY <3>1, <3>2
  <2>5. Head(t) = t[1] /\ Head(t) \in AMessage
    BY <2>3, <2>4
  <2>6. /\ Len(Append(s, Head(t))) = h + 1
        /\ \A k \in 1 .. h : Append(s, Head(t))[k] = s[k]
        /\ Append(s, Head(t))[h + 1] = t[1]
    BY <2>4, <2>5
  <2>7. Len(Tail(t)) = hy /\ \A k \in 1 .. hy : Tail(t)[k] = t[k + 1]
    BY <2>3, <2>4
  <2>8. /\ h = Len(b[x]) /\ Len(b[y]) = hy + 1 /\ Len(c[x]) = h + 1 /\ Len(c[y]) = hy
        /\ \A k \in 1 .. h : c[x][k] = b[x][k]
        /\ c[x][h + 1] = b[y][1]
        /\ \A k \in 1 .. hy : c[y][k] = b[y][k + 1]
    BY <2>2, <2>3, <2>4, <2>6, <2>7
  <2> QED
    BY <2>8
<1>l. /\ h = Len(b[x]) /\ Len(b[y]) = hy + 1 /\ Len(c[x]) = h + 1 /\ Len(c[y]) = hy
      /\ Len(b) = y /\ Len(c) = y /\ 1 < x /\ x < y /\ y = x + 1 /\ x - 1 < x
  BY <1>0, <1>h
<1> DEFINE bx == [i \in Nat |-> [k \in Nat |-> IF i = x /\ k > h THEN y ELSE i]]
           at == [i \in Nat |-> [k \in Nat |-> IF i = x /\ k > h THEN 1
                                               ELSE IF i = y THEN k + 1 ELSE k]]
<1>1. /\ bx \in [Nat -> [Nat -> Nat]] /\ at \in [Nat -> [Nat -> Nat]]
      /\ \A i, k \in Nat : /\ bx[i][k] = (IF i = x /\ k > h THEN y ELSE i)
                           /\ at[i][k] = (IF i = x /\ k > h THEN 1
                                         ELSE IF i = y THEN k + 1 ELSE k)
  OBVIOUS
<1> HIDE DEF bx, at
<1>2. ASSUME NEW i \in Nat, NEW k \in Nat, IsPlace(c, from, to, i, k)
      PROVE  /\ IsPlace(b, from, to, bx[i][k], at[i][k])
             /\ c[i][k] = b[bx[i][k]][at[i][k]]
             /\ 1 < i => 1 < bx[i][k]
  <2>0. /\ bx[i][k] = (IF i = x /\ k > h THEN y ELSE i)
        /\ at[i][k] = (IF i = x /\ k > h THEN 1 ELSE IF i = y THEN k + 1 ELSE k)
    BY <1>1
  <2>1. CASE i = x /\ k > h
    <3>1. bx[i][k] = y /\ at[i][k] = 1 /\ 1 < y
      BY <1>l, <2>0, <2>1
    <3>2. k = h + 1
      <4>1. k \in 1 .. h + 1
        BY <1>2, <1>l, <2>1 DEF IsPlace
      <4> QED
        BY <4>1, <2>1
    <3>3. c[i][k] = b[y][1]
      BY <1>h, <2>1, <3>2
    <3>4. y \in 1 .. Len(b) /\ 1 \in 1 .. Len(b[y])
      BY <1>l
    <3>5. IsPlace(b, from, to, y, 1)
      BY <1>2, <3>3, <3>4 DEF IsPlace
    <3> QED
      BY <3>1, <3>3, <3>5
  <2>2. CASE i = x /\ ~ (k > h)
    <3>1. bx[i][k] = x /\ at[i][k] = k
      BY <1>l, <2>0, <2>2
    <3>2. k \in 1 .. h /\ x \in 1 .. Len(b)
      BY <1>l, <2>2, <1>2 DEF IsPlace
    <3>3. c[i][k] = b[x][k]
      BY <1>h, <2>2, <3>2
    <3>4. IsPlace(b, from, to, x, k)
      BY <1>2, <1>l, <3>2, <3>3 DEF IsPlace
    <3> QED
      BY <1>l, <3>1, <3>3, <3>4
  <2>3. CASE i = y
    <3>1. PICK l \in Nat : l = k + 1
      OBVIOUS
    <3>2. bx[i][k] = y /\ at[i][k] = l /\ 1 < y
      BY <1>l, <2>0, <2>3, <3>1
    <3>3. k \in 1 .. hy
      BY <1>l, <2>3, <1>2 DEF IsPlace
    <3>4. y \in 1 .. Len(b) /\ l \in 1 .. hy + 1
      BY <1>l, <3>1, <3>3
    <3>5. c[i][k] = b[y][l]
      BY <1>h, <2>3, <3>1, <3>3
    <3>6. IsPlace(b, from, to, y, l)
      BY <1>2, <1>l, <3>4, <3>5 DEF IsPlace
    <3> QED
      BY <3>2, <3>5, <3>6
  <2>4. CASE i # x /\ i # y
    <3>1. bx[i][k] = i /\ at[i][k] = k
      BY <2>0, <2>4
    <3>2. i \in 1 .. x - 1 /\ i \in 1 .. Len(b)
      BY <1>l, <2>4, <1>2 DEF IsPlace
    <3>3. c[i] = b[i]
      BY <3>2
    <3>4. IsPlace(b, from, to, i, k)
      BY <1>2, <3>2, <3>3 DEF IsPlace
    <3> QED
      BY <3>1, <3>3, <3>4
  <2> QED
    BY <2>1, <2>2, <2>3, <2>4
<1>3. ASSUME NEW j \in Nat, NEW l \in Nat, IsPlace(b, from, to, j, l)
      PROVE  \E i, k \in Nat : IsPlace(c, from, to, i, k) /\ bx[i][k] = j /\ at[i][k] = l
  <2>1. CASE j = x
    <3>1. l \in 1 .. h /\ x \in 1 .. Len(c)
      <4>1. l \in 1 .. h
        BY <1>l, <1>3, <2>1 DEF IsPlace
      <4> QED
        BY <1>l, <4>1
    <3>2. /\ bx[x][l] = (IF x = x /\ l > h THEN y ELSE x)
          /\ at[x][l] = (IF x = x /\ l > h THEN 1 ELSE IF x = y THEN l + 1 ELSE l)
      BY <1>1
    <3>3. bx[x][l] = x /\ at[x][l] = l
      BY <1>l, <3>1, <3>2
    <3>4. c[x][l] = b[x][l] /\ l \in 1 .. h + 1
      BY <1>h, <3>1
    <3>5. IsPlace(c, from, to, x, l)
      BY <1>l, <1>3, <2>1, <3>1, <3>4 DEF IsPlace
    <3> QED
      BY <2>1, <3>3, <3>5
  <2>2. CASE j = y /\ l = 1
    <3>1. PICK k \in Nat : k = h + 1
      OBVIOUS
    <3>2. /\ bx[x][k] = (IF x = x /\ k > h THEN y ELSE x)
          /\ at[x][k] = (IF x = x /\ k > h THEN 1 ELSE IF x = y THEN k + 1 ELSE k)
      BY <1>1
    <3>3. bx[x][k] = y /\ at[x][k] = 1
      BY <3>1, <3>2
    <3>4. c[x][k] = b[y][1] /\ k \in 1 .. h + 1 /\ x \in 1 .. Len(c)
      BY <1>h, <1>l, <3>1
    <3>5. IsPlace(c, from, to, x, k)
      BY <1>l, <1>3, <2>2, <3>4 DEF IsPlace
    <3> QED
      BY <2>2, <3>3, <3>5
  <2>3. CASE j = y /\ l # 1
    <3>0. l \in 1 .. hy + 1
      BY <1>l, <1>3, <2>3 DEF IsPlace
    <3>1. PICK k \in Nat : k = l - 1
      BY <3>0
    <3>2. k \in 1 .. hy /\ k + 1 = l /\ y \in 1 .. Len(c)
      BY <1>l, <2>3, <3>0, <3>1
    <3>3. /\ bx[y][k] = (IF y = x /\ k > h THEN y ELSE y)
          /\ at[y][k] = (IF y = x /\ k > h THEN 1 ELSE IF y = y THEN k + 1 ELSE k)
      BY <1>1
    <3>4. bx[y][k] = y /\ at[y][k] = l
      BY <1>l, <3>2, <3>3
    <3>5. c[y][k] = b[y][l]
      BY <1>h, <3>2
    <3>6. IsPlace(c, from, to, y, k)
      BY <1>l, <1>3, <2>3, <3>2, <3>5 DEF IsPlace
    <3> QED
      BY <2>3, <3>4, <3>6
  <2>4. CASE j # x /\ j # y
    <3>1. j \in 1 .. x - 1 /\ j \in 1 .. Len(c)
      BY <1>l, <2>4, <1>3 DEF IsPlace
    <3>2. /\ bx[j][l] = (IF j = x /\ l > h THEN y ELSE j)
          /\ at[j][l] = (IF j = x /\ l > h THEN 1 ELSE IF j = y THEN l + 1 ELSE l)
      BY <1>1
    <3>3. bx[j][l] = j /\ at[j][l] = l
      BY <2>4, <3>2
    <3>4. c[j] = b[j]
      BY <3>1
    <3>5. IsPlace(c, from, to, j, l)
      BY <1>3, <3>1, <3>4 DEF IsPlace
    <3> QED
      BY <3>3, <3>5
  <2> QED
    BY <2>1, <2>2, <2>3, <2>4
<1>4. ASSUME NEW i \in Nat, NEW k \in Nat, NEW j \in Nat, NEW l \in Nat,
             IsPlace(c, from, to, i, k), IsPlace(c, from, to, j, l)
      PROVE  KeptApart(bx, at, i, k, j, l)
  <2>1. k >= 1 /\ i <= y /\ l >= 1 /\ j <= y
    BY <1>l, <1>4 DEF IsPlace
  <2>2. (i = x => k <= h + 1) /\ (j = x => l <= h + 1)
    <3>1. ASSUME i = x PROVE k <= h + 1
      BY <1>l, <1>4, <3>1 DEF IsPlace
    <3>2. ASSUME j = x PROVE l <= h + 1
      BY <1>l, <1>4, <3>2 DEF IsPlace
    <3> QED
      BY <3>1, <3>2
  <2>3. /\ bx[i][k] = (IF i = x /\ k > h THEN y ELSE i)
        /\ at[i][k] = (IF i = x /\ k > h THEN 1 ELSE IF i = y THEN k + 1 ELSE k)
    BY <1>1
  <2>4. /\ bx[j][l] = (IF j = x /\ l > h THEN y ELSE j)
        /\ at[j][l] = (IF j = x /\ l > h THEN 1 ELSE IF j = y THEN l + 1 ELSE l)
    BY <1>1
  <2>5. CASE i = x /\ k > h
    <3>1. bx[i][k] = y /\ at[i][k] = 1 /\ k = h + 1
      BY <2>1, <2>2, <2>3, <2>5
    <3>2. CASE j = x /\ l > h
      <4>1. bx[j][l] = y /\ at[j][l] = 1 /\ l = h + 1
        BY <2>1, <2>2, <2>4, <3>2
      <4> QED
        BY <2>5, <3>1, <3>2, <4>1 DEF KeptApart, Ahead
    <3>3. CASE j = y
      <4>1. bx[j][l] = y /\ at[j][l] = l + 1
        BY <1>l, <2>4, <3>3
      <4> QED
        BY <1>l, <2>1, <2>5, <3>1, <3>3, <4>1 DEF KeptApart, Ahead
    <3>4. CASE j # y /\ ~ (j = x /\ l > h)
      <4>1. bx[j][l] = j
        BY <2>4, <3>4
      <4> QED
        BY <1>l, <2>1, <2>5, <3>1, <3>4, <4>1 DEF KeptApart, Ahead
    <3> QED
      BY <3>2, <3>3, <3>4
  <2>6. CASE ~ (i = x /\ k > h)
    <3>1. bx[i][k] = i /\ at[i][k] = (IF i = y THEN k + 1 ELSE k)
      BY <2>3, <2>6
    <3>2. CASE j = x /\ l > h
      <4>1. bx[j][l] = y /\ at[j][l] = 1
        BY <2>4, <3>2
      <4> QED
        BY <1>l, <2>1, <2>2, <2>6, <3>1, <3>2, <4>1 DEF KeptApart, Ahead
    <3>3. CASE ~ (j = x /\ l > h)
      <4>1. bx[j][l] = j /\ at[j][l] = (IF j = y THEN l + 1 ELSE l)
        BY <2>4, <3>3
      <4> QED
        BY <3>1, <4>1 DEF KeptApart, Ahead
    <3> QED
      BY <3>2, <3>3
  <2> QED
    BY <2>5, <2>6
<1>5. KeepsMessages(b, c, from, to, bx, at) /\ LosesNone(b, c, from, to, bx, at)
  BY <1>2, <1>3 DEF KeepsMessages, LosesNone
<1>6. KeepsOrder(b, c, from, to, bx, at)
  BY <1>4 DEF KeepsOrder
<1> QED
  BY <1>1, <1>5, <1>6, Rearranged

(* A message for somebody else leaves the front of the last box.           *)
LEMMA HeadLeft ==
    ASSUME NEW b \in Seq(Seq(AMessage)), NEW c \in Seq(Seq(AMessage)), NEW from, NEW to,
           NEW msgs, NEW y \in Nat, 1 < y, Len(b) = y, Len(c) = y,
           \A i \in 1 .. y - 1 : c[i] = b[i],
           b[y] # <<>>, Head(b[y]).to # to, c[y] = Tail(b[y]),
           InOrder(b, from, to, msgs)
    PROVE  InOrder(c, from, to, msgs)
<1>h. PICK hy \in Nat :
         /\ Len(b[y]) = hy + 1 /\ Len(c[y]) = hy /\ b[y][1].to # to
         /\ \A k \in 1 .. hy : c[y][k] = b[y][k + 1]
  <2>1. b[y] \in Seq(AMessage)
    OBVIOUS
  <2>2. PICK t \in Seq(AMessage) : t = b[y]
    BY <2>1
  <2>3. t # <<>> /\ c[y] = Tail(t) /\ Head(t).to # to
    BY <2>2
  <2>4. PICK hy \in Nat : Len(t) = hy + 1
    <3>1. Len(t) \in Nat /\ Len(t) # 0
      BY <2>3
    <3>2. Len(t) - 1 \in Nat /\ Len(t) = (Len(t) - 1) + 1
      BY <3>1
    <3> QED
      BY <3>2
  <2>5. Head(t) = t[1]
    BY <2>3, <2>4
  <2>6. Len(Tail(t)) = hy /\ \A k \in 1 .. hy : Tail(t)[k] = t[k + 1]
    BY <2>3, <2>4
  <2>7. /\ Len(b[y]) = hy + 1 /\ Len(c[y]) = hy /\ b[y][1].to # to
        /\ \A k \in 1 .. hy : c[y][k] = b[y][k + 1]
    BY <2>2, <2>3, <2>4, <2>5, <2>6
  <2> QED
    BY <2>7
<1>l. Len(b[y]) = hy + 1 /\ Len(c[y]) = hy /\ 1 < y
  BY <1>h
<1> DEFINE bx == [i \in Nat |-> [k \in Nat |-> i]]
           at == [i \in Nat |-> [k \in Nat |-> IF i = y THEN k + 1 ELSE k]]
<1>1. /\ bx \in [Nat -> [Nat -> Nat]] /\ at \in [Nat -> [Nat -> Nat]]
      /\ \A i, k \in Nat : bx[i][k] = i /\ at[i][k] = (IF i = y THEN k + 1 ELSE k)
  OBVIOUS
<1> HIDE DEF bx, at
<1>2. ASSUME NEW i \in Nat, NEW k \in Nat, IsPlace(c, from, to, i, k)
      PROVE  /\ IsPlace(b, from, to, bx[i][k], at[i][k])
             /\ c[i][k] = b[bx[i][k]][at[i][k]]
             /\ 1 < i => 1 < bx[i][k]
  <2>0. bx[i][k] = i /\ at[i][k] = (IF i = y THEN k + 1 ELSE k)
    BY <1>1
  <2>1. CASE i = y
    <3>1. PICK l \in Nat : l = k + 1
      OBVIOUS
    <3>2. bx[i][k] = y /\ at[i][k] = l
      BY <2>0, <2>1, <3>1
    <3>3. k \in 1 .. hy
      BY <1>l, <2>1, <1>2 DEF IsPlace
    <3>4. y \in 1 .. Len(b) /\ l \in 1 .. hy + 1
      BY <1>l, <3>1, <3>3
    <3>5. c[i][k] = b[y][l]
      BY <1>h, <2>1, <3>1, <3>3
    <3>6. IsPlace(b, from, to, y, l)
      BY <1>2, <1>l, <3>4, <3>5 DEF IsPlace
    <3> QED
      BY <1>l, <3>2, <3>5, <3>6
  <2>2. CASE i # y
    <3>1. bx[i][k] = i /\ at[i][k] = k
      BY <2>0, <2>2
    <3>2. i \in 1 .. y - 1 /\ i \in 1 .. Len(b)
      BY <2>2, <1>2 DEF IsPlace
    <3>3. c[i] = b[i]
      BY <3>2
    <3>4. IsPlace(b, from, to, i, k)
      BY <1>2, <3>2, <3>3 DEF IsPlace
    <3> QED
      BY <3>1, <3>3, <3>4
  <2> QED
    BY <2>1, <2>2
<1>3. ASSUME NEW j \in Nat, NEW l \in Nat, IsPlace(b, from, to, j, l)
      PROVE  \E i, k \in Nat : IsPlace(c, from, to, i, k) /\ bx[i][k] = j /\ at[i][k] = l
  <2>1. CASE j = y
    <3>1. l \in 1 .. hy + 1
      BY <1>l, <1>3, <2>1 DEF IsPlace
    <3>2. l # 1
      BY <1>l, <1>h, <1>3, <2>1 DEF IsPlace
    <3>3. PICK k \in Nat : k = l - 1
      BY <3>1
    <3>4. k \in 1 .. hy /\ k + 1 = l /\ y \in 1 .. Len(c)
      BY <1>l, <3>1, <3>2, <3>3
    <3>5. bx[y][k] = y /\ at[y][k] = l
      <4>1. bx[y][k] = y /\ at[y][k] = (IF y = y THEN k + 1 ELSE k)
        BY <1>1
      <4> QED
        BY <4>1, <3>4
    <3>6. c[y][k] = b[y][l]
      BY <1>h, <3>4
    <3>7. IsPlace(c, from, to, y, k)
      BY <1>l, <1>3, <2>1, <3>4, <3>6 DEF IsPlace
    <3> QED
      BY <2>1, <3>5, <3>7
  <2>2. CASE j # y
    <3>1. j \in 1 .. y - 1 /\ j \in 1 .. Len(c)
      BY <2>2, <1>3 DEF IsPlace
    <3>2. bx[j][l] = j /\ at[j][l] = (IF j = y THEN l + 1 ELSE l)
      BY <1>1
    <3>3. c[j] = b[j]
      BY <3>1
    <3>4. IsPlace(c, from, to, j, l)
      BY <1>3, <3>1, <3>3 DEF IsPlace
    <3> QED
      BY <2>2, <3>2, <3>4
  <2> QED
    BY <2>1, <2>2
<1>4. ASSUME NEW i \in Nat, NEW k \in Nat, NEW j \in Nat, NEW l \in Nat,
             IsPlace(c, from, to, i, k), IsPlace(c, from, to, j, l)
      PROVE  KeptApart(bx, at, i, k, j, l)
  <2>1. bx[i][k] = i /\ at[i][k] = (IF i = y THEN k + 1 ELSE k)
    BY <1>1
  <2>2. bx[j][l] = j /\ at[j][l] = (IF j = y THEN l + 1 ELSE l)
    BY <1>1
  <2> QED
    BY <2>1, <2>2 DEF Ahead, KeptApart
<1>5. KeepsMessages(b, c, from, to, bx, at) /\ LosesNone(b, c, from, to, bx, at)
  BY <1>2, <1>3 DEF KeepsMessages, LosesNone
<1>6. KeepsOrder(b, c, from, to, bx, at)
  BY <1>4 DEF KeepsOrder
<1> QED
  BY <1>1, <1>5, <1>6, Rearranged

(* A new message joins the last box: its number is the greatest.           *)
LEMMA MessageJoined ==
    ASSUME NEW b \in Seq(Seq(AMessage)), NEW c \in Seq(Seq(AMessage)), NEW from, NEW to,
           NEW msgs, NEW m \in AMessage, NEW y \in Nat, 1 < y, Len(b) = y, Len(c) = y,
           \A i \in 1 .. y - 1 : c[i] = b[i], c[y] = Append(b[y], m),
           \A o \in msgs : o.no < m.no,
           InOrder(b, from, to, msgs)
    PROVE  InOrder(c, from, to,
                   IF m.from = from /\ m.to = to THEN msgs \cup {m} ELSE msgs)
<1>h. PICK h \in Nat :
         /\ Len(b[y]) = h /\ Len(c[y]) = h + 1 /\ c[y][h + 1] = m
         /\ \A k \in 1 .. h : c[y][k] = b[y][k]
  <2>1. b[y] \in Seq(AMessage)
    OBVIOUS
  <2>2. PICK t \in Seq(AMessage) : t = b[y]
    BY <2>1
  <2>3. c[y] = Append(t, m)
    BY <2>2
  <2>4. PICK h \in Nat : Len(t) = h
    OBVIOUS
  <2>5. /\ Len(Append(t, m)) = h + 1 /\ Append(t, m)[h + 1] = m
        /\ \A k \in 1 .. h : Append(t, m)[k] = t[k]
    BY <2>4, AppendProperties
  <2>6. /\ Len(b[y]) = h /\ Len(c[y]) = h + 1 /\ c[y][h + 1] = m
        /\ \A k \in 1 .. h : c[y][k] = b[y][k]
    BY <2>2, <2>3, <2>4, <2>5
  <2> QED
    BY <2>6
<1>l. Len(b[y]) = h /\ Len(c[y]) = h + 1 /\ 1 < y
  BY <1>h
<1> DEFINE New(i, k) == i = y /\ k = h + 1
           mine == m.from = from /\ m.to = to
<1>1. ASSUME NEW i \in Nat, NEW k \in Nat, ~ New(i, k)
      PROVE  /\ IsPlace(c, from, to, i, k) <=> IsPlace(b, from, to, i, k)
             /\ IsPlace(c, from, to, i, k) => c[i][k] = b[i][k]
  <2>1. CASE i = y
    <3>1. k \in 1 .. h + 1 <=> k \in 1 .. h
      BY <1>1, <2>1
    <3>2. k \in 1 .. h => c[y][k] = b[y][k]
      BY <1>h
    <3> QED
      BY <2>1, <3>1, <3>2, <1>l DEF IsPlace
  <2>2. CASE i # y
    <3>1. i \in 1 .. y => c[i] = b[i]
      BY <2>2
    <3> QED
      BY <3>1 DEF IsPlace
  <2> QED
    BY <2>1, <2>2
<1>2. /\ y \in 1 .. Len(c) /\ h + 1 \in 1 .. Len(c[y]) /\ c[y][h + 1] = m /\ h + 1 \in Nat
      /\ IsPlace(c, from, to, y, h + 1) <=> mine
  <2>1. h + 1 \in 1 .. h + 1 /\ y \in 1 .. Len(c) /\ h + 1 \in Nat
    BY <1>l
  <2>2. c[y][h + 1] = m /\ h + 1 \in 1 .. Len(c[y])
    BY <2>1, <1>h
  <2> QED
    BY <2>1, <2>2 DEF IsPlace
<1> HIDE DEF New, mine
<1>3. PICK n \in Nat : n = h + 1
  BY <1>2
<1>4. IsPlace(c, from, to, y, n) <=> mine
  BY <1>2, <1>3
<1>5. c[y][n] = m
  BY <1>2, <1>3
<1>6. \A i, k \in Nat : New(i, k) <=> i = y /\ k = n
  BY <1>3 DEF New
<1>7. \A i, k \in Nat : IsPlace(b, from, to, i, k) => b[i][k] \in msgs /\ ~ New(i, k)
  <2> SUFFICES ASSUME NEW i \in Nat, NEW k \in Nat, IsPlace(b, from, to, i, k)
               PROVE  b[i][k] \in msgs /\ ~ New(i, k)
    OBVIOUS
  <2>1. b[i][k] \in msgs
    BY DEF InOrder, AllPresent
  <2>2. ASSUME i = y PROVE k # n
    <3>1. k \in 1 .. h
      BY <1>l, <2>2 DEF IsPlace
    <3> QED
      BY <3>1, <1>3
  <2> QED
    BY <2>1, <2>2, <1>6
<1>8. CASE ~ mine
  <2>1. ASSUME NEW i \in Nat, NEW k \in Nat
        PROVE  /\ IsPlace(c, from, to, i, k) <=> IsPlace(b, from, to, i, k)
               /\ IsPlace(c, from, to, i, k) => c[i][k] = b[i][k]
    <3>1. CASE New(i, k)
      <4>1. ~ IsPlace(c, from, to, i, k)
        BY <1>4, <1>6, <1>8, <3>1
      <4>2. ~ IsPlace(b, from, to, i, k)
        BY <1>7, <3>1
      <4> QED
        BY <4>1, <4>2
    <3> QED
      BY <1>1, <3>1
  <2>2. AllPresent(c, from, to, msgs)
    <3>1. AllPresent(b, from, to, msgs)
      BY DEF InOrder
    <3>2. ASSUME NEW i \in Nat, NEW k \in Nat, IsPlace(c, from, to, i, k)
          PROVE  c[i][k] \in msgs
      BY <3>1, <3>2, <2>1 DEF AllPresent
    <3>3. ASSUME NEW o \in msgs
          PROVE  \E i, k \in Nat : IsPlace(c, from, to, i, k) /\ c[i][k] = o
      <4>1. PICK i \in Nat, k \in Nat : IsPlace(b, from, to, i, k) /\ b[i][k] = o
        BY <3>1, <3>3 DEF AllPresent
      <4>2. IsPlace(c, from, to, i, k) /\ c[i][k] = b[i][k]
        BY <4>1, <2>1
      <4> QED
        BY <4>1, <4>2
    <3> QED
      BY <3>2, <3>3 DEF AllPresent
  <2>3. NoneTwice(c, from, to)
    <3>1. NoneTwice(b, from, to)
      BY DEF InOrder
    <3> QED
      BY <3>1, <2>1 DEF NoneTwice
  <2>4. NonePassed(c, from, to)
    <3>1. NonePassed(b, from, to)
      BY DEF InOrder
    <3> SUFFICES ASSUME NEW i \in Nat, NEW k \in Nat, NEW j \in Nat, NEW l \in Nat,
                        IsPlace(c, from, to, i, k), IsPlace(c, from, to, j, l),
                        1 < i, 1 < j, Ahead(i, k, j, l)
                 PROVE  c[i][k].no < c[j][l].no
      BY DEF NonePassed
    <3>2. /\ IsPlace(b, from, to, i, k) /\ IsPlace(b, from, to, j, l)
          /\ c[i][k] = b[i][k] /\ c[j][l] = b[j][l]
      BY <2>1
    <3>3. b[i][k].no < b[j][l].no
      BY <3>1, <3>2 DEF NonePassed
    <3> QED
      BY <3>2, <3>3
  <2>5. (IF m.from = from /\ m.to = to THEN msgs \cup {m} ELSE msgs) = msgs
    BY <1>8 DEF mine
  <2> QED
    BY <2>2, <2>3, <2>4, <2>5 DEF InOrder
<1>9. CASE mine
  <2>0. AllPresent(b, from, to, msgs) /\ NoneTwice(b, from, to) /\ NonePassed(b, from, to)
    BY DEF InOrder
  <2>1. ASSUME NEW i \in Nat, NEW k \in Nat, IsPlace(c, from, to, i, k)
        PROVE  \/ i = y /\ k = n
               \/ IsPlace(b, from, to, i, k) /\ c[i][k] = b[i][k] /\ c[i][k] \in msgs
    BY <1>1, <1>6, <1>7, <2>1
  <2>2. AllPresent(c, from, to, msgs \cup {m})
    <3>1. ASSUME NEW i \in Nat, NEW k \in Nat, IsPlace(c, from, to, i, k)
          PROVE  c[i][k] \in msgs \cup {m}
      BY <2>1, <3>1, <1>5
    <3>2. ASSUME NEW o \in msgs \cup {m}
          PROVE  \E i, k \in Nat : IsPlace(c, from, to, i, k) /\ c[i][k] = o
      <4>1. CASE o = m
        BY <4>1, <1>4, <1>5, <1>9
      <4>2. CASE o \in msgs
        <5>1. PICK i \in Nat, k \in Nat : IsPlace(b, from, to, i, k) /\ b[i][k] = o
          BY <2>0, <4>2 DEF AllPresent
        <5>2. IsPlace(c, from, to, i, k) /\ c[i][k] = b[i][k]
          BY <5>1, <1>1, <1>7
        <5> QED
          BY <5>1, <5>2
      <4> QED
        BY <4>1, <4>2
    <3> QED
      BY <3>1, <3>2 DEF AllPresent
  <2>3. NoneTwice(c, from, to)
    <3> SUFFICES ASSUME NEW i \in Nat, NEW k \in Nat, NEW j \in Nat, NEW l \in Nat,
                        IsPlace(c, from, to, i, k), IsPlace(c, from, to, j, l),
                        c[i][k] = c[j][l]
                 PROVE  i = j /\ k = l
      BY DEF NoneTwice
    <3>1. m \notin msgs
      <4>1. m.no \in Nat
        BY DEF AMessage
      <4> QED
        BY <4>1
    <3>2. /\ \/ i = y /\ k = n
             \/ IsPlace(b, from, to, i, k) /\ c[i][k] = b[i][k] /\ c[i][k] \in msgs
          /\ \/ j = y /\ l = n
             \/ IsPlace(b, from, to, j, l) /\ c[j][l] = b[j][l] /\ c[j][l] \in msgs
      BY <2>1
    <3>3. CASE i = y /\ k = n
      BY <3>1, <3>2, <3>3, <1>5
    <3>4. CASE j = y /\ l = n
      BY <3>1, <3>2, <3>4, <1>5
    <3>5. CASE IsPlace(b, from, to, i, k) /\ IsPlace(b, from, to, j, l)
               /\ c[i][k] = b[i][k] /\ c[j][l] = b[j][l]
      BY <2>0, <3>5 DEF NoneTwice
    <3> QED
      BY <3>2, <3>3, <3>4, <3>5
  <2>4. NonePassed(c, from, to)
    <3> SUFFICES ASSUME NEW i \in Nat, NEW k \in Nat, NEW j \in Nat, NEW l \in Nat,
                        IsPlace(c, from, to, i, k), IsPlace(c, from, to, j, l),
                        1 < i, 1 < j, Ahead(i, k, j, l)
                 PROVE  c[i][k].no < c[j][l].no
      BY DEF NonePassed
    <3>1. CASE i = y /\ k = n
      <4>1. ~ IsPlace(b, from, to, j, l) \/ j \in 1 .. y
        BY DEF IsPlace
      <4>2. ~ (j = y /\ l = n)
        BY <3>1 DEF Ahead
      <4>3. IsPlace(b, from, to, j, l)
        BY <4>2, <2>1
      <4>4. j = y /\ l > n
        BY <4>1, <4>3, <3>1 DEF Ahead
      <4>5. l \in 1 .. h
        BY <4>3, <4>4, <1>l DEF IsPlace
      <4> QED
        BY <4>4, <4>5, <1>3
    <3>2. CASE j = y /\ l = n /\ ~ (i = y /\ k = n)
      <4>1. c[i][k] \in msgs
        BY <3>2, <2>1
      <4> QED
        BY <4>1, <3>2, <1>5
    <3>3. CASE ~ (i = y /\ k = n) /\ ~ (j = y /\ l = n)
      <4>1. /\ IsPlace(b, from, to, i, k) /\ IsPlace(b, from, to, j, l)
            /\ c[i][k] = b[i][k] /\ c[j][l] = b[j][l]
        BY <3>3, <2>1
      <4> QED
        BY <4>1, <2>0 DEF NonePassed
    <3> QED
      BY <3>1, <3>2, <3>3
  <2>5. (IF m.from = from /\ m.to = to THEN msgs \cup {m} ELSE msgs) = msgs \cup {m}
    BY <1>9 DEF mine
  <2> QED
    BY <2>2, <2>3, <2>4, <2>5 DEF InOrder
<1> QED
  BY <1>8, <1>9

-----------------------------------------------------------------------------
(* The boxes of a link, in a row.                                          *)

Row(h, r, c, a, s) == <<h>> \o r \o c \o <<a, s>>

IsRow(b, h, r, c, a, s) ==
    /\ Len(b) = Len(r) + Len(c) + 3
    /\ b[1] = h
    /\ \A i \in 2 .. Len(r) + 1 : b[i] = r[i - 1]
    /\ \A i \in Len(r) + 2 .. Len(r) + Len(c) + 1 : b[i] = c[i - (Len(r) + 1)]
    /\ b[Len(r) + Len(c) + 2] = a
    /\ b[Len(r) + Len(c) + 3] = s

LEMMA RowFacts ==
    ASSUME NEW S, NEW h \in Seq(S), NEW r \in Seq(Seq(S)), NEW c \in Seq(Seq(S)),
           NEW a \in Seq(S), NEW s \in Seq(S)
    PROVE  Row(h, r, c, a, s) \in Seq(Seq(S)) /\ IsRow(Row(h, r, c, a, s), h, r, c, a, s)
<1>1. /\ <<h>> \in Seq(Seq(S)) /\ Len(<<h>>) = 1 /\ <<h>>[1] = h
      /\ <<a, s>> \in Seq(Seq(S)) /\ Len(<<a, s>>) = 2 /\ <<a, s>>[1] = a /\ <<a, s>>[2] = s
  OBVIOUS
<1>2. PICK u \in Seq(Seq(S)), e \in Seq(Seq(S)) : u = <<h>> /\ e = <<a, s>>
  BY <1>1
<1>3. /\ u \o r \in Seq(Seq(S)) /\ (u \o r) \o c \in Seq(Seq(S))
      /\ ((u \o r) \o c) \o e \in Seq(Seq(S))
  BY ConcatProperties
<1>4. PICK v \in Seq(Seq(S)), w \in Seq(Seq(S)), z \in Seq(Seq(S)) :
         v = u \o r /\ w = v \o c /\ z = w \o e
  BY <1>3
<1>6. z = Row(h, r, c, a, s)
  BY <1>2, <1>4 DEF Row
<1>7. Len(v) = 1 + Len(r) /\ v[1] = h /\ \A i \in 2 .. Len(r) + 1 : v[i] = r[i - 1]
  BY <1>1, <1>2, <1>4
<1>8. /\ Len(w) = Len(v) + Len(c) /\ \A i \in 1 .. Len(v) : w[i] = v[i]
      /\ \A i \in Len(v) + 1 .. Len(v) + Len(c) : w[i] = c[i - Len(v)]
  BY <1>4
<1>9. /\ Len(z) = Len(w) + 2 /\ \A i \in 1 .. Len(w) : z[i] = w[i]
      /\ z[Len(w) + 1] = a /\ z[Len(w) + 2] = s
  BY <1>1, <1>2, <1>4
<1>10. PICK lr \in Nat, lc \in Nat : lr = Len(r) /\ lc = Len(c)
  OBVIOUS
<1>11. Len(v) = lr + 1 /\ Len(w) = lr + lc + 1
  BY <1>7, <1>8, <1>10
<1>12. /\ Len(z) = lr + lc + 3 /\ z[1] = h
       /\ z[lr + lc + 2] = a /\ z[lr + lc + 3] = s
  <2>1. 1 \in 1 .. Len(v) /\ 1 \in 1 .. Len(w)
    BY <1>11
  <2>2. z[1] = h
    BY <2>1, <1>7, <1>8, <1>9
  <2>3. (lr + lc + 1) + 1 = lr + lc + 2 /\ (lr + lc + 1) + 2 = lr + lc + 3
    OBVIOUS
  <2> QED
    BY <2>2, <2>3, <1>9, <1>11
<1>13. \A i \in 2 .. lr + 1 : z[i] = r[i - 1]
  BY <1>7, <1>8, <1>9, <1>10, <1>11
<1>14. \A i \in lr + 2 .. lr + lc + 1 : z[i] = c[i - (lr + 1)]
  BY <1>8, <1>9, <1>10, <1>11
<1> QED
  BY <1>6, <1>10, <1>12, <1>13, <1>14 DEF IsRow

LEMMA RowHandled ==
    ASSUME NEW h \in Seq(AMessage), NEW r \in Seq(Seq(AMessage)), NEW c \in Seq(Seq(AMessage)),
           NEW a \in Seq(AMessage), NEW s \in Seq(AMessage), NEW from, NEW to, NEW msgs,
           NEW n \in 1 .. Len(r), InOrder(Row(h, r, c, a, s), from, to, msgs)
    PROVE  /\ Seqs!RemoveAt(r, n) \in Seq(Seq(AMessage))
           /\ InOrder(Row(h \o r[n], Seqs!RemoveAt(r, n), c, a, s), from, to, msgs)
<1>1. PICK g \in Seq(AMessage) : g = h \o r[n]
  <2>1. r[n] \in Seq(AMessage)
    OBVIOUS
  <2>2. h \o r[n] \in Seq(AMessage)
    BY <2>1, ConcatProperties
  <2> QED
    BY <2>2
<1>2. PICK q \in Seq(Seq(AMessage)) :
         /\ q = Seqs!RemoveAt(r, n) /\ Len(q) = Len(r) - 1
         /\ \A i \in 1 .. n - 1 : q[i] = r[i]
         /\ \A i \in n .. Len(r) - 1 : q[i] = r[i + 1]
  <2>1. PICK lr \in Nat, n1 \in Nat, n2 \in Nat : lr = Len(r) /\ n1 = n - 1 /\ n2 = n + 1 /\ n <= lr
    OBVIOUS
  <2>2. /\ SubSeq(r, 1, n1) \in Seq(Seq(AMessage)) /\ Len(SubSeq(r, 1, n1)) = n1
        /\ \A i \in 1 .. n1 : SubSeq(r, 1, n1)[i] = r[i]
    BY <2>1
  <2>3. /\ SubSeq(r, n2, lr) \in Seq(Seq(AMessage)) /\ Len(SubSeq(r, n2, lr)) = lr - n
        /\ \A i \in 1 .. lr - n : SubSeq(r, n2, lr)[i] = r[n + i]
    BY <2>1
  <2>4. PICK v \in Seq(Seq(AMessage)), w \in Seq(Seq(AMessage)) :
           v = SubSeq(r, 1, n1) /\ w = SubSeq(r, n2, lr)
    BY <2>2, <2>3
  <2>5. /\ v \o w \in Seq(Seq(AMessage)) /\ Len(v \o w) = Len(v) + Len(w)
        /\ \A i \in 1 .. Len(v) : (v \o w)[i] = v[i]
        /\ \A i \in Len(v) + 1 .. Len(v) + Len(w) : (v \o w)[i] = w[i - Len(v)]
    BY ConcatProperties
  <2>6. PICK q \in Seq(Seq(AMessage)) : q = v \o w
    BY <2>5
  <2>7. q = Seqs!RemoveAt(r, n)
    BY <2>1, <2>4, <2>6 DEF Seqs!RemoveAt
  <2>8. Len(v) = n1 /\ Len(w) = lr - n /\ Len(q) = lr - 1
    <3>1. Len(v) = n1 /\ Len(w) = lr - n
      BY <2>2, <2>3, <2>4
    <3>2. Len(q) = Len(v) + Len(w)
      BY <2>5, <2>6
    <3> QED
      BY <3>1, <3>2, <2>1
  <2>9. ASSUME NEW i \in 1 .. n1 PROVE q[i] = r[i]
    <3>1. q[i] = v[i]
      BY <2>5, <2>6, <2>8
    <3>2. v[i] = r[i]
      BY <2>2, <2>4
    <3> QED
      BY <3>1, <3>2
  <2>10. ASSUME NEW i \in n .. lr - 1 PROVE q[i] = r[i + 1]
    <3>1. i \in n1 + 1 .. n1 + (lr - n) /\ i - n1 \in 1 .. lr - n /\ n + (i - n1) = i + 1
      BY <2>1
    <3>2. q[i] = w[i - n1]
      BY <3>1, <2>5, <2>6, <2>8
    <3>3. w[i - n1] = r[n + (i - n1)]
      BY <3>1, <2>3, <2>4
    <3> QED
      BY <3>1, <3>2, <3>3
  <2> QED
    BY <2>1, <2>7, <2>8, <2>9, <2>10
<1>3. PICK b \in Seq(Seq(AMessage)) : b = Row(h, r, c, a, s)
  BY RowFacts
<1>4. PICK d \in Seq(Seq(AMessage)) : d = Row(g, q, c, a, s)
  BY RowFacts
<1>5. PICK lr \in Nat, lc \in Nat : lr = Len(r) /\ lc = Len(c) /\ n \in 1 .. lr /\ lr - 1 = Len(q)
  BY <1>2
<1>6. /\ Len(b) = lr + lc + 3 /\ b[1] = h /\ b[lr + lc + 2] = a /\ b[lr + lc + 3] = s
      /\ \A i \in 2 .. lr + 1 : b[i] = r[i - 1]
      /\ \A i \in lr + 2 .. lr + lc + 1 : b[i] = c[i - (lr + 1)]
  <2>1. IsRow(b, h, r, c, a, s)
    BY <1>3, RowFacts
  <2> QED
    BY <2>1, <1>5 DEF IsRow
<1>7. /\ Len(d) = (lr - 1) + lc + 3 /\ d[1] = g
      /\ d[(lr - 1) + lc + 2] = a /\ d[(lr - 1) + lc + 3] = s
      /\ \A i \in 2 .. (lr - 1) + 1 : d[i] = q[i - 1]
      /\ \A i \in (lr - 1) + 2 .. (lr - 1) + lc + 1 : d[i] = c[i - ((lr - 1) + 1)]
  <2>1. IsRow(d, g, q, c, a, s)
    BY <1>4, RowFacts
  <2> QED
    BY <2>1, <1>5 DEF IsRow
<1>8. PICK x \in Nat : x = n + 1
  BY <1>5
<1>9. x \in 2 .. Len(b) /\ Len(d) = Len(b) - 1
  BY <1>5, <1>6, <1>7, <1>8
<1>10. d[1] = b[1] \o b[x]
  <2>0. x \in 2 .. lr + 1 /\ x - 1 = n
    BY <1>5, <1>8
  <2>1. b[x] = r[n]
    BY <2>0, <1>6
  <2> QED
    BY <2>1, <1>1, <1>6, <1>7
<1>11. ASSUME NEW i \in 2 .. x - 1 PROVE d[i] = b[i]
  <2>0. n \in Nat /\ n <= lr /\ i \in 2 .. n
    BY <1>5, <1>8
  <2>1. i - 1 \in 1 .. n - 1 /\ i \in 2 .. (lr - 1) + 1 /\ i \in 2 .. lr + 1
    BY <2>0
  <2>2. d[i] = q[i - 1] /\ b[i] = r[i - 1]
    BY <2>1, <1>6, <1>7
  <2> QED
    BY <2>1, <2>2, <1>2
<1>12. ASSUME NEW i \in x .. Len(d) PROVE d[i] = b[i + 1]
  <2>0. i \in Nat /\ i > n /\ i <= lr + lc + 2
    BY <1>5, <1>7, <1>8
  <2>1. CASE i <= lr
    <3>1. i - 1 \in n .. lr - 1 /\ i \in 2 .. (lr - 1) + 1 /\ i + 1 \in 2 .. lr + 1
      BY <2>0, <2>1, <1>5
    <3>2. d[i] = q[i - 1] /\ b[i + 1] = r[(i + 1) - 1]
      BY <3>1, <1>6, <1>7
    <3>3. q[i - 1] = r[(i - 1) + 1]
      BY <3>1, <1>2, <1>5
    <3>4. (i - 1) + 1 = i /\ (i + 1) - 1 = i
      BY <2>0
    <3> QED
      BY <3>2, <3>3, <3>4
  <2>2. CASE i > lr /\ i <= lr + lc
    <3>1. i \in (lr - 1) + 2 .. (lr - 1) + lc + 1 /\ i + 1 \in lr + 2 .. lr + lc + 1
      <4>1. (lr - 1) + 2 = lr + 1 /\ (lr - 1) + lc + 1 = lr + lc
        OBVIOUS
      <4> QED
        BY <4>1, <2>0, <2>2
    <3>2. d[i] = c[i - ((lr - 1) + 1)] /\ b[i + 1] = c[(i + 1) - (lr + 1)]
      BY <3>1, <1>6, <1>7
    <3>3. i - ((lr - 1) + 1) = (i + 1) - (lr + 1)
      BY <2>0, <1>5
    <3> QED
      BY <3>2, <3>3
  <2>3. CASE i = lr + lc + 1
    BY <2>3, <1>5, <1>6, <1>7
  <2>4. CASE i = lr + lc + 2
    BY <2>4, <1>5, <1>6, <1>7
  <2>5. \/ i <= lr \/ (i > lr /\ i <= lr + lc)
        \/ i = lr + lc + 1 \/ i = lr + lc + 2
    BY <2>0
  <2> QED
    BY <2>1, <2>2, <2>3, <2>4, <2>5
<1>13. InOrder(d, from, to, msgs)
  BY <1>3, <1>9, <1>10, <1>11, <1>12, BoxHandled
<1> QED
  BY <1>1, <1>2, <1>4, <1>13

LEMMA RowReceived ==
    ASSUME NEW h \in Seq(AMessage), NEW r \in Seq(Seq(AMessage)), NEW c \in Seq(Seq(AMessage)),
           NEW a \in Seq(AMessage), NEW s \in Seq(AMessage), NEW from, NEW to, NEW msgs,
           NEW x \in Seq(AMessage), \A k \in 1 .. Len(x) : x[k].from # from \/ x[k].to # to,
           InOrder(Row(h, r, c, a, s), from, to, msgs)
    PROVE  InOrder(Row(h, Append(r, x), c, a, s), from, to, msgs)
<1>1. PICK lr \in Nat, lc \in Nat : lr = Len(r) /\ lc = Len(c)
  OBVIOUS
<1>2. PICK q \in Seq(Seq(AMessage)) : q = Append(r, x)
  BY AppendProperties
<1>3. Len(q) = lr + 1 /\ q[lr + 1] = x /\ \A i \in 1 .. lr : q[i] = r[i]
  BY <1>1, <1>2
<1>4. PICK b \in Seq(Seq(AMessage)) : b = Row(h, r, c, a, s)
  BY RowFacts
<1>5. PICK d \in Seq(Seq(AMessage)) : d = Row(h, q, c, a, s)
  BY RowFacts
<1>6. /\ Len(b) = lr + lc + 3 /\ b[1] = h /\ b[lr + lc + 2] = a /\ b[lr + lc + 3] = s
      /\ \A i \in 2 .. lr + 1 : b[i] = r[i - 1]
      /\ \A i \in lr + 2 .. lr + lc + 1 : b[i] = c[i - (lr + 1)]
  <2>1. IsRow(b, h, r, c, a, s)
    BY <1>4, RowFacts
  <2> QED
    BY <2>1, <1>1 DEF IsRow
<1>7. /\ Len(d) = (lr + 1) + lc + 3 /\ d[1] = h
      /\ d[(lr + 1) + lc + 2] = a /\ d[(lr + 1) + lc + 3] = s
      /\ \A i \in 2 .. (lr + 1) + 1 : d[i] = q[i - 1]
      /\ \A i \in (lr + 1) + 2 .. (lr + 1) + lc + 1 : d[i] = c[i - ((lr + 1) + 1)]
  <2>1. IsRow(d, h, q, c, a, s)
    BY <1>5, RowFacts
  <2> QED
    BY <2>1, <1>1, <1>3 DEF IsRow
<1>8. PICK y \in Nat : y = lr + 2
  OBVIOUS
<1>9. y \in 2 .. Len(b) + 1 /\ Len(d) = Len(b) + 1
  BY <1>6, <1>7, <1>8
<1>10. ASSUME NEW i \in 1 .. y - 1 PROVE d[i] = b[i]
  <2>1. CASE i = 1
    BY <2>1, <1>6, <1>7
  <2>2. CASE i # 1
    <3>1. i \in 2 .. lr + 1 /\ i \in 2 .. (lr + 1) + 1 /\ i - 1 \in 1 .. lr
      BY <2>2, <1>8
    <3>2. d[i] = q[i - 1] /\ b[i] = r[i - 1]
      BY <3>1, <1>6, <1>7
    <3> QED
      BY <3>1, <3>2, <1>3
  <2> QED
    BY <2>1, <2>2
<1>11. d[y] = x
  <2>1. y \in 2 .. (lr + 1) + 1 /\ y - 1 = lr + 1
    BY <1>8
  <2> QED
    BY <2>1, <1>3, <1>7
<1>12. ASSUME NEW i \in y + 1 .. Len(d) PROVE d[i] = b[i - 1]
  <2>0. i \in Nat /\ lr + 3 <= i /\ i <= lr + lc + 4
    BY <1>7, <1>8
  <2>1. CASE i <= lr + lc + 2
    <3>1. i \in (lr + 1) + 2 .. (lr + 1) + lc + 1 /\ i - 1 \in lr + 2 .. lr + lc + 1
      <4>1. (lr + 1) + 2 = lr + 3 /\ (lr + 1) + lc + 1 = lr + lc + 2
        OBVIOUS
      <4> QED
        BY <4>1, <2>0, <2>1
    <3>2. d[i] = c[i - ((lr + 1) + 1)] /\ b[i - 1] = c[(i - 1) - (lr + 1)]
      BY <3>1, <1>6, <1>7
    <3>3. i - ((lr + 1) + 1) = (i - 1) - (lr + 1)
      BY <2>0
    <3> QED
      BY <3>2, <3>3
  <2>2. CASE i = lr + lc + 3
    <3>1. i = (lr + 1) + lc + 2 /\ i - 1 = lr + lc + 2
      BY <2>2
    <3> QED
      BY <3>1, <1>6, <1>7
  <2>3. CASE i = lr + lc + 4
    <3>1. i = (lr + 1) + lc + 3 /\ i - 1 = lr + lc + 3
      BY <2>3
    <3> QED
      BY <3>1, <1>6, <1>7
  <2>4. i <= lr + lc + 2 \/ i = lr + lc + 3 \/ i = lr + lc + 4
    BY <2>0
  <2> QED
    BY <2>1, <2>2, <2>3, <2>4
<1>13. \A k \in 1 .. Len(d[y]) : d[y][k].from # from \/ d[y][k].to # to
  BY <1>11
<1>14. InOrder(d, from, to, msgs)
  BY <1>4, <1>9, <1>10, <1>12, <1>13, BoxAdded
<1> QED
  BY <1>2, <1>5, <1>14

LEMMA RowPacked ==
    ASSUME NEW h \in Seq(AMessage), NEW r \in Seq(Seq(AMessage)), NEW c \in Seq(Seq(AMessage)),
           NEW a \in Seq(AMessage), NEW s \in Seq(AMessage), NEW from, NEW to, NEW msgs,
           InOrder(Row(h, r, c, a, s), from, to, msgs)
    PROVE  InOrder(Row(h, r, Append(c, a), <<>>, s), from, to, msgs)
<1>1. PICK lr \in Nat, lc \in Nat : lr = Len(r) /\ lc = Len(c)
  OBVIOUS
<1>2. PICK q \in Seq(Seq(AMessage)), e \in Seq(AMessage) : q = Append(c, a) /\ e = <<>>
  <2>1. Append(c, a) \in Seq(Seq(AMessage)) /\ <<>> \in Seq(AMessage)
    BY AppendProperties
  <2> QED
    BY <2>1
<1>3. Len(q) = lc + 1 /\ q[lc + 1] = a /\ \A i \in 1 .. lc : q[i] = c[i]
  BY <1>1, <1>2
<1>4. PICK b \in Seq(Seq(AMessage)) : b = Row(h, r, c, a, s)
  BY RowFacts
<1>5. PICK d \in Seq(Seq(AMessage)) : d = Row(h, r, q, e, s)
  BY RowFacts
<1>6. /\ Len(b) = lr + lc + 3 /\ b[1] = h /\ b[lr + lc + 2] = a /\ b[lr + lc + 3] = s
      /\ \A i \in 2 .. lr + 1 : b[i] = r[i - 1]
      /\ \A i \in lr + 2 .. lr + lc + 1 : b[i] = c[i - (lr + 1)]
  <2>1. IsRow(b, h, r, c, a, s)
    BY <1>4, RowFacts
  <2> QED
    BY <2>1, <1>1 DEF IsRow
<1>7. /\ Len(d) = lr + (lc + 1) + 3 /\ d[1] = h
      /\ d[lr + (lc + 1) + 2] = e /\ d[lr + (lc + 1) + 3] = s
      /\ \A i \in 2 .. lr + 1 : d[i] = r[i - 1]
      /\ \A i \in lr + 2 .. lr + (lc + 1) + 1 : d[i] = q[i - (lr + 1)]
  <2>1. IsRow(d, h, r, q, e, s)
    BY <1>5, RowFacts
  <2> QED
    BY <2>1, <1>1, <1>3 DEF IsRow
<1>8. PICK y \in Nat : y = lr + lc + 3
  OBVIOUS
<1>9. y \in 2 .. Len(b) + 1 /\ Len(d) = Len(b) + 1
  BY <1>6, <1>7, <1>8
<1>10. ASSUME NEW i \in 1 .. y - 1 PROVE d[i] = b[i]
  <2>0. i \in Nat /\ 1 <= i /\ i <= lr + lc + 2
    BY <1>8
  <2>1. CASE i = 1
    BY <2>1, <1>6, <1>7
  <2>2. CASE i # 1 /\ i <= lr + 1
    <3>1. i \in 2 .. lr + 1
      BY <2>0, <2>2
    <3> QED
      BY <3>1, <1>6, <1>7
  <2>3. CASE lr + 2 <= i /\ i <= lr + lc + 1
    <3>1. i \in lr + 2 .. lr + lc + 1 /\ i \in lr + 2 .. lr + (lc + 1) + 1
          /\ i - (lr + 1) \in 1 .. lc
      BY <2>0, <2>3
    <3>2. d[i] = q[i - (lr + 1)] /\ b[i] = c[i - (lr + 1)]
      BY <3>1, <1>6, <1>7
    <3> QED
      BY <3>1, <3>2, <1>3
  <2>4. CASE i = lr + lc + 2
    <3>1. i \in lr + 2 .. lr + (lc + 1) + 1 /\ i - (lr + 1) = lc + 1
      BY <2>0, <2>4
    <3>2. d[i] = q[lc + 1]
      BY <3>1, <1>7
    <3> QED
      BY <3>2, <2>4, <1>3, <1>6
  <2>5. i = 1 \/ (i # 1 /\ i <= lr + 1) \/ (lr + 2 <= i /\ i <= lr + lc + 1) \/ i = lr + lc + 2
    BY <2>0
  <2> QED
    BY <2>1, <2>2, <2>3, <2>4, <2>5
<1>11. d[y] = <<>>
  <2>1. y = lr + (lc + 1) + 2
    BY <1>8
  <2> QED
    BY <2>1, <1>2, <1>7
<1>12. ASSUME NEW i \in y + 1 .. Len(d) PROVE d[i] = b[i - 1]
  <2>1. i = lr + (lc + 1) + 3 /\ i - 1 = lr + lc + 3
    BY <1>7, <1>8
  <2> QED
    BY <2>1, <1>6, <1>7
<1>13. \A k \in 1 .. Len(d[y]) : d[y][k].from # from \/ d[y][k].to # to
  BY <1>11
<1>14. InOrder(d, from, to, msgs)
  BY <1>4, <1>9, <1>10, <1>12, <1>13, BoxAdded
<1> QED
  BY <1>2, <1>5, <1>14

(* Two rows that differ in the last two boxes only.                        *)
DifferAtEnd(b, d, x, a, s, a2, s2) ==
    /\ 1 < x /\ Len(b) = x + 1 /\ Len(d) = x + 1
    /\ b[x] = a /\ b[x + 1] = s /\ d[x] = a2 /\ d[x + 1] = s2
    /\ \A i \in 1 .. x - 1 : d[i] = b[i]

LEMMA RowsAgree ==
    ASSUME NEW h \in Seq(AMessage), NEW r \in Seq(Seq(AMessage)), NEW c \in Seq(Seq(AMessage)),
           NEW a \in Seq(AMessage), NEW s \in Seq(AMessage),
           NEW a2 \in Seq(AMessage), NEW s2 \in Seq(AMessage)
    PROVE  \E x \in Nat : DifferAtEnd(Row(h, r, c, a, s), Row(h, r, c, a2, s2), x, a, s, a2, s2)
<1>1. PICK lr \in Nat, lc \in Nat : lr = Len(r) /\ lc = Len(c)
  OBVIOUS
<1>4. PICK b \in Seq(Seq(AMessage)) : b = Row(h, r, c, a, s)
  BY RowFacts
<1>5. PICK d \in Seq(Seq(AMessage)) : d = Row(h, r, c, a2, s2)
  BY RowFacts
<1>6. /\ Len(b) = lr + lc + 3 /\ b[1] = h /\ b[lr + lc + 2] = a /\ b[lr + lc + 3] = s
      /\ \A i \in 2 .. lr + 1 : b[i] = r[i - 1]
      /\ \A i \in lr + 2 .. lr + lc + 1 : b[i] = c[i - (lr + 1)]
  <2>1. IsRow(b, h, r, c, a, s)
    BY <1>4, RowFacts
  <2> QED
    BY <2>1, <1>1 DEF IsRow
<1>7. /\ Len(d) = lr + lc + 3 /\ d[1] = h /\ d[lr + lc + 2] = a2 /\ d[lr + lc + 3] = s2
      /\ \A i \in 2 .. lr + 1 : d[i] = r[i - 1]
      /\ \A i \in lr + 2 .. lr + lc + 1 : d[i] = c[i - (lr + 1)]
  <2>1. IsRow(d, h, r, c, a2, s2)
    BY <1>5, RowFacts
  <2> QED
    BY <2>1, <1>1 DEF IsRow
<1>8. PICK x \in Nat : x = lr + lc + 2
  OBVIOUS
<1>9. x + 1 = lr + lc + 3 /\ 1 < x
  BY <1>8
<1>10. ASSUME NEW i \in 1 .. x - 1 PROVE d[i] = b[i]
  <2>1. CASE i = 1
    BY <2>1, <1>6, <1>7
  <2>2. CASE i # 1 /\ i <= lr + 1
    <3>1. i \in 2 .. lr + 1
      BY <2>2
    <3> QED
      BY <3>1, <1>6, <1>7
  <2>3. CASE ~ (i <= lr + 1)
    <3>1. i \in lr + 2 .. lr + lc + 1
      BY <2>3, <1>8
    <3> QED
      BY <3>1, <1>6, <1>7
  <2> QED
    BY <2>1, <2>2, <2>3
<1>11. /\ 1 < x /\ Len(b) = x + 1 /\ Len(d) = x + 1
       /\ b[x] = a /\ b[x + 1] = s /\ d[x] = a2 /\ d[x + 1] = s2
  BY <1>6, <1>7, <1>8, <1>9
<1>12. DifferAtEnd(b, d, x, a, s, a2, s2)
  BY <1>10, <1>11 DEF DifferAtEnd
<1> QED
  BY <1>4, <1>5, <1>12

LEMMA RowHeadMoved ==
    ASSUME NEW h \in Seq(AMessage), NEW r \in Seq(Seq(AMessage)), NEW c \in Seq(Seq(AMessage)),
           NEW a \in Seq(AMessage), NEW s \in Seq(AMessage), NEW from, NEW to, NEW msgs,
           s # <<>>, InOrder(Row(h, r, c, a, s), from, to, msgs)
    PROVE  InOrder(Row(h, r, c, Append(a, Head(s)), Tail(s)), from, to, msgs)
<1>1. Append(a, Head(s)) \in Seq(AMessage) /\ Tail(s) \in Seq(AMessage)
  BY HeadTailProperties, AppendProperties
<1>2. PICK a2 \in Seq(AMessage), s2 \in Seq(AMessage) : a2 = Append(a, Head(s)) /\ s2 = Tail(s)
  BY <1>1
<1>r. PICK b \in Seq(Seq(AMessage)), d \in Seq(Seq(AMessage)) :
         b = Row(h, r, c, a, s) /\ d = Row(h, r, c, a2, s2)
  <2>1. Row(h, r, c, a, s) \in Seq(Seq(AMessage)) /\ Row(h, r, c, a2, s2) \in Seq(Seq(AMessage))
    BY RowFacts
  <2> QED
    BY <2>1
<1>d. PICK x \in Nat : DifferAtEnd(b, d, x, a, s, a2, s2)
  <2>1. PICK x \in Nat : DifferAtEnd(Row(h, r, c, a, s), Row(h, r, c, a2, s2), x, a, s, a2, s2)
    BY RowsAgree
  <2> QED
    BY <2>1, <1>r
<1>3. /\ 1 < x /\ Len(b) = x + 1 /\ Len(d) = x + 1
      /\ b[x] = a /\ b[x + 1] = s /\ d[x] = a2 /\ d[x + 1] = s2
      /\ \A i \in 1 .. x - 1 : d[i] = b[i]
  BY <1>d DEF DifferAtEnd
<1>4. b[x + 1] # <<>> /\ d[x] = Append(b[x], Head(b[x + 1])) /\ d[x + 1] = Tail(b[x + 1])
  BY <1>2, <1>3
<1>5. InOrder(b, from, to, msgs)
  BY <1>r
<1>6. InOrder(d, from, to, msgs)
  BY <1>3, <1>4, <1>5, HeadMoved
<1> QED
  BY <1>2, <1>r, <1>6

LEMMA RowHeadLeft ==
    ASSUME NEW h \in Seq(AMessage), NEW r \in Seq(Seq(AMessage)), NEW c \in Seq(Seq(AMessage)),
           NEW a \in Seq(AMessage), NEW s \in Seq(AMessage), NEW from, NEW to, NEW msgs,
           s # <<>>, Head(s).to # to, InOrder(Row(h, r, c, a, s), from, to, msgs)
    PROVE  InOrder(Row(h, r, c, a, Tail(s)), from, to, msgs)
<1>1. Tail(s) \in Seq(AMessage)
  BY HeadTailProperties
<1>2. PICK s2 \in Seq(AMessage) : s2 = Tail(s)
  BY <1>1
<1>r. PICK b \in Seq(Seq(AMessage)), d \in Seq(Seq(AMessage)) :
         b = Row(h, r, c, a, s) /\ d = Row(h, r, c, a, s2)
  <2>1. Row(h, r, c, a, s) \in Seq(Seq(AMessage)) /\ Row(h, r, c, a, s2) \in Seq(Seq(AMessage))
    BY RowFacts
  <2> QED
    BY <2>1
<1>d. PICK x \in Nat : DifferAtEnd(b, d, x, a, s, a, s2)
  <2>1. PICK x \in Nat : DifferAtEnd(Row(h, r, c, a, s), Row(h, r, c, a, s2), x, a, s, a, s2)
    BY RowsAgree
  <2> QED
    BY <2>1, <1>r
<1>3. /\ 1 < x /\ Len(b) = x + 1 /\ Len(d) = x + 1
      /\ b[x] = a /\ b[x + 1] = s /\ d[x] = a /\ d[x + 1] = s2
      /\ \A i \in 1 .. x - 1 : d[i] = b[i]
  BY <1>d DEF DifferAtEnd
<1>4. PICK y \in Nat : y = x + 1
  OBVIOUS
<1>5. /\ 1 < y /\ Len(b) = y /\ Len(d) = y
      /\ b[y] # <<>> /\ Head(b[y]).to # to /\ d[y] = Tail(b[y])
  <2>1. b[y] = s /\ d[y] = Tail(s)
    BY <1>2, <1>3, <1>4
  <2>2. 1 < y /\ Len(b) = y /\ Len(d) = y
    BY <1>3, <1>4
  <2> QED
    BY <2>1, <2>2
<1>6. ASSUME NEW i \in 1 .. y - 1 PROVE d[i] = b[i]
  <2>1. i \in 1 .. x - 1 \/ i = x
    BY <1>4
  <2> QED
    BY <2>1, <1>3
<1>7. InOrder(b, from, to, msgs)
  BY <1>r
<1>8. InOrder(d, from, to, msgs)
  BY <1>5, <1>6, <1>7, HeadLeft
<1> QED
  BY <1>2, <1>r, <1>8

LEMMA RowJoined ==
    ASSUME NEW h \in Seq(AMessage), NEW r \in Seq(Seq(AMessage)), NEW c \in Seq(Seq(AMessage)),
           NEW a \in Seq(AMessage), NEW s \in Seq(AMessage), NEW from, NEW to, NEW msgs,
           NEW m \in AMessage, \A o \in msgs : o.no < m.no,
           InOrder(Row(h, r, c, a, s), from, to, msgs)
    PROVE  InOrder(Row(h, r, c, a, Append(s, m)), from, to,
                   IF m.from = from /\ m.to = to THEN msgs \cup {m} ELSE msgs)
<1>1. Append(s, m) \in Seq(AMessage)
  BY AppendProperties
<1>2. PICK s2 \in Seq(AMessage) : s2 = Append(s, m)
  BY <1>1
<1>r. PICK b \in Seq(Seq(AMessage)), d \in Seq(Seq(AMessage)) :
         b = Row(h, r, c, a, s) /\ d = Row(h, r, c, a, s2)
  <2>1. Row(h, r, c, a, s) \in Seq(Seq(AMessage)) /\ Row(h, r, c, a, s2) \in Seq(Seq(AMessage))
    BY RowFacts
  <2> QED
    BY <2>1
<1>d. PICK x \in Nat : DifferAtEnd(b, d, x, a, s, a, s2)
  <2>1. PICK x \in Nat : DifferAtEnd(Row(h, r, c, a, s), Row(h, r, c, a, s2), x, a, s, a, s2)
    BY RowsAgree
  <2> QED
    BY <2>1, <1>r
<1>3. /\ 1 < x /\ Len(b) = x + 1 /\ Len(d) = x + 1
      /\ b[x] = a /\ b[x + 1] = s /\ d[x] = a /\ d[x + 1] = s2
      /\ \A i \in 1 .. x - 1 : d[i] = b[i]
  BY <1>d DEF DifferAtEnd
<1>4. PICK y \in Nat : y = x + 1
  OBVIOUS
<1>5. 1 < y /\ Len(b) = y /\ Len(d) = y /\ d[y] = Append(b[y], m)
  BY <1>2, <1>3, <1>4
<1>6. ASSUME NEW i \in 1 .. y - 1 PROVE d[i] = b[i]
  <2>1. i \in 1 .. x - 1 \/ i = x
    BY <1>4
  <2> QED
    BY <2>1, <1>3
<1>7. InOrder(b, from, to, msgs)
  BY <1>r
<1>8. InOrder(d, from, to, IF m.from = from /\ m.to = to THEN msgs \cup {m} ELSE msgs)
  BY <1>5, <1>6, <1>7, MessageJoined
<1> QED
  BY <1>2, <1>r, <1>8

-----------------------------------------------------------------------------
(* The loop over the send queue.                                           *)

LEMMA LeastNumber ==
    ASSUME NEW T \in SUBSET Nat, T # {}
    PROVE  \E m \in T : \A n \in T : m <= n
<1>1. PICK m \in T : \A n \in T : ~ (<<n, m>> \in OpToRel(<, Nat))
  BY NatLessThanWellFounded, WFMin
<1>2. \A n \in T : ~ (n < m)
  BY <1>1 DEF OpToRel
<1> QED
  BY <1>2

IsLoop(f, n) ==
    f = [i \in 0 .. Len(send_queue[n]) |->
            IF i = 0
            THEN [aggregate |-> aggregate_messages[n], sent |-> [to \in Node |-> <<>>]]
            ELSE Aggregate(f[i - 1], send_queue[n][i])]

(* The recursive function exists, and its last value is what is sent.      *)
LEMMA LoopEnds ==
    ASSUME NEW n \in Node, Len(send_queue[n]) \in Nat
    PROVE  \E f : IsLoop(f, n) /\ Aggregated(n) = f[Len(send_queue[n])]
<1> DEFINE len  == Len(send_queue[n])
           base == [aggregate |-> aggregate_messages[n], sent |-> [to \in Node |-> <<>>]]
           Upto(f, i) == f = [j \in 0 .. i |-> IF j = 0 THEN base
                                              ELSE Aggregate(f[j - 1], send_queue[n][j])]
<1>1. \A i \in 0 .. len : \E f : Upto(f, i)
  <2> DEFINE T == {i \in 0 .. len : ~ \E f : Upto(f, i)}
  <2> SUFFICES ASSUME T # {} PROVE FALSE
    OBVIOUS
  <2>1. PICK i \in T : \A k \in T : i <= k
    <3>1. T \in SUBSET Nat
      OBVIOUS
    <3> QED
      BY <3>1, LeastNumber
  <2>2. i \in 0 .. len /\ ~ \E f : Upto(f, i)
    BY <2>1
  <2>3. CASE i = 0
    <3> DEFINE f == [j \in 0 .. 0 |-> base]
    <3> HIDE DEF base
    <3>1. f = [j \in 0 .. 0 |-> IF j = 0 THEN base ELSE Aggregate(f[j - 1], send_queue[n][j])]
      OBVIOUS
    <3> HIDE DEF f
    <3>2. Upto(f, 0)
      BY <3>1
    <3> QED
      BY <2>2, <2>3, <3>2
  <2>4. CASE i # 0
    <3>1. PICK k \in Nat : k = i - 1 /\ i = k + 1 /\ k \in 0 .. len
      BY <2>2, <2>4
    <3>2. k \notin T
      <4>1. ~ (i <= k)
        BY <3>1
      <4> HIDE DEF T
      <4> QED
        BY <4>1, <2>1
    <3>3. PICK f : Upto(f, k)
      BY <3>1, <3>2
    <3> DEFINE next == Aggregate(f[k], send_queue[n][i])
               g == [j \in 0 .. i |-> IF j = i THEN next ELSE f[j]]
    <3> HIDE DEF base
    <3>4. \A j \in 0 .. k : f[j] = IF j = 0 THEN base ELSE Aggregate(f[j - 1], send_queue[n][j])
      BY <3>3
    <3>5. ASSUME NEW j \in 0 .. i
          PROVE  g[j] = IF j = 0 THEN base ELSE Aggregate(g[j - 1], send_queue[n][j])
      <4>1. CASE j = i
        <5>1. g[j] = next /\ j # 0 /\ j - 1 = k /\ g[k] = f[k]
          <6>1. k \in 0 .. i /\ k # i
            BY <3>1
          <6> QED
            BY <6>1, <4>1, <2>4, <3>1
        <5> QED
          BY <5>1, <4>1
      <4>2. CASE j # i
        <5>1. j \in 0 .. k /\ g[j] = f[j]
          BY <4>2, <3>1
        <5>2. CASE j = 0
          BY <5>1, <5>2, <3>4
        <5>3. CASE j # 0
          <6>1. j - 1 \in 0 .. i /\ j - 1 # i
            BY <5>1, <5>3, <3>1
          <6>2. g[j - 1] = f[j - 1]
            BY <6>1
          <6> QED
            BY <5>1, <5>3, <6>2, <3>4
        <5> QED
          BY <5>2, <5>3
      <4> QED
        BY <4>1, <4>2
    <3>6. g = [j \in 0 .. i |-> g[j]]
      OBVIOUS
    <3> HIDE DEF g
    <3>7. g = [j \in 0 .. i |-> IF j = 0 THEN base ELSE Aggregate(g[j - 1], send_queue[n][j])]
      BY <3>5, <3>6
    <3>8. Upto(g, i)
      BY <3>7
    <3> QED
      BY <2>2, <3>8
  <2> QED
    BY <2>3, <2>4
<1>2. \E f : Upto(f, len)
  BY <1>1
<1> DEFINE loop == CHOOSE f : Upto(f, len)
<1>3. Upto(loop, len)
  BY <1>2
<1>4. Aggregated(n) = loop[len]
  BY DEF Aggregated
<1> HIDE DEF loop
<1>5. IsLoop(loop, n)
  BY <1>3 DEF IsLoop
<1> QED
  BY <1>4, <1>5

-----------------------------------------------------------------------------
(* The inductive invariant.                                                *)

MessageOf(n) == [from : {n}, to : Node, event : BOOLEAN, no : Nat]

CommTypeOK ==
    /\ send_queue \in [Node -> Seq(AMessage)]
    /\ aggregate_messages \in [Node -> [Node -> Seq(AMessage)]]
    /\ channel \in [Node \X Node -> Seq(Seq(AMessage))]
    /\ receives \in [Node -> Seq(Seq(AMessage))]
    /\ handled \in [Node -> Seq(AMessage)]
    /\ inserted \in [Node -> Seq(AMessage)]

(* Until it is received, a message is at the node it comes from.           *)
AtItsSender ==
    \A n \in Node :
        /\ send_queue[n] \in Seq(MessageOf(n))
        /\ aggregate_messages[n] \in [Node -> Seq(MessageOf(n))]
        /\ \A to \in Node : channel[<<n, to>>] \in Seq(Seq(MessageOf(n)))

(* no is the place of a message among those its node inserted.             *)
Numbered ==
    \A n \in Node : \A k \in 1 .. Len(inserted[n]) :
        inserted[n][k].from = n /\ inserted[n][k].no = k

SentTo(from, to) == {m \in Seqs!ToSet(inserted[from]) : m.to = to}

AllInOrder ==
    \A from, to \in Node : InOrder(Boxes(from, to), from, to, SentTo(from, to))

CommInv == CommTypeOK /\ AtItsSender /\ Numbered /\ AggregateFits /\ AllInOrder

LEMMA MessagesOf ==
    ASSUME NEW n \in Node
    PROVE  /\ MessageOf(n) \subseteq AMessage
           /\ Seq(MessageOf(n)) \subseteq Seq(AMessage)
           /\ Seq(Seq(MessageOf(n))) \subseteq Seq(Seq(AMessage))
<1>1. MessageOf(n) \subseteq AMessage
  BY DEF MessageOf, AMessage
<1>2. ASSUME NEW s \in Seq(MessageOf(n)) PROVE s \in Seq(AMessage)
  <2>1. \A i \in 1 .. Len(s) : s[i] \in AMessage
    BY <1>1
  <2> QED
    BY <2>1, SeqMonotonic
<1>3. ASSUME NEW s \in Seq(Seq(MessageOf(n))) PROVE s \in Seq(Seq(AMessage))
  <2>1. \A i \in 1 .. Len(s) : s[i] \in Seq(AMessage)
    BY <1>2
  <2> QED
    BY <2>1, SeqMonotonic
<1> QED
  BY <1>1, <1>2, <1>3

-----------------------------------------------------------------------------
(* What Aggregate does to one message.                                     *)

Sending(n) == [aggregate : [Node -> Seq(MessageOf(n))],
               sent : [Node -> Seq(Seq(MessageOf(n)))]]

Fits(s) == \A to \in Node : /\ Len(s.aggregate[to]) < max_aggregate
                           /\ \A i \in 1 .. Len(s.sent[to]) : Len(s.sent[to][i]) <= max_aggregate

(* For the receiver of the message: it joins the aggregate, which may be   *)
(* packed then.                                                            *)
Joins(s, t, msg, to) ==
    \/ /\ t.aggregate[to] = Append(s.aggregate[to], msg)
       /\ t.sent[to] = s.sent[to]
    \/ /\ t.aggregate[to] = <<>>
       /\ t.sent[to] = Append(s.sent[to], Append(s.aggregate[to], msg))

LEMMA AggregateStep ==
    ASSUME NEW n \in Node, NEW s \in Sending(n), NEW msg \in MessageOf(n), Fits(s)
    PROVE  /\ Aggregate(s, msg) \in Sending(n) /\ Fits(Aggregate(s, msg))
           /\ Joins(s, Aggregate(s, msg), msg, msg.to)
           /\ \A to \in Node \ {msg.to} : /\ Aggregate(s, msg).aggregate[to] = s.aggregate[to]
                                         /\ Aggregate(s, msg).sent[to] = s.sent[to]
<1>1. PICK r \in Node : r = msg.to
  BY DEF MessageOf
<1>2. /\ s.aggregate \in [Node -> Seq(MessageOf(n))]
      /\ s.sent \in [Node -> Seq(Seq(MessageOf(n)))]
      /\ s = [aggregate |-> s.aggregate, sent |-> s.sent]
  BY DEF Sending
<1>3. PICK a \in [Node -> Seq(MessageOf(n))], e \in [Node -> Seq(Seq(MessageOf(n)))] :
         a = s.aggregate /\ e = s.sent
  BY <1>2
<1>4. /\ Append(a[r], msg) \in Seq(MessageOf(n))
      /\ Len(Append(a[r], msg)) = Len(a[r]) + 1
  BY AppendProperties
<1>5. PICK p \in Seq(MessageOf(n)) : p = Append(a[r], msg) /\ Len(p) = Len(a[r]) + 1
  BY <1>4
<1>6. Append(e[r], p) \in Seq(Seq(MessageOf(n)))
  BY AppendProperties
<1>7. max_aggregate \in Nat \ {0}
  BY AggregateAssumption
<1>8. Len(a[r]) < max_aggregate /\ Len(p) <= max_aggregate
  <2>1. Len(a[r]) \in Nat /\ Len(a[r]) < max_aggregate
    BY <1>3 DEF Fits
  <2> QED
    BY <2>1, <1>5, <1>7
<1>9. CASE Len(p) >= max_aggregate \/ ~ msg.event
  <2>1. Aggregate(s, msg) = [aggregate |-> [a EXCEPT ![r] = <<>>],
                             sent      |-> [e EXCEPT ![r] = Append(e[r], p)]]
    BY <1>1, <1>3, <1>5, <1>9 DEF Aggregate
  <2>2. PICK t : t = Aggregate(s, msg)
    OBVIOUS
  <2>3. t.aggregate = [a EXCEPT ![r] = <<>>] /\ t.sent = [e EXCEPT ![r] = Append(e[r], p)]
    BY <2>1, <2>2
  <2>4. t \in Sending(n)
    <3>1. [a EXCEPT ![r] = <<>>] \in [Node -> Seq(MessageOf(n))]
      OBVIOUS
    <3>2. [e EXCEPT ![r] = Append(e[r], p)] \in [Node -> Seq(Seq(MessageOf(n)))]
      BY <1>6
    <3> QED
      BY <2>1, <2>2, <3>1, <3>2 DEF Sending
  <2>5. \A to \in Node \ {r} : t.aggregate[to] = a[to] /\ t.sent[to] = e[to]
    BY <2>3
  <2>6. t.aggregate[r] = <<>> /\ t.sent[r] = Append(e[r], p)
    BY <2>3
  <2>7. Fits(t)
    <3> SUFFICES ASSUME NEW to \in Node
                 PROVE  /\ Len(t.aggregate[to]) < max_aggregate
                        /\ \A i \in 1 .. Len(t.sent[to]) : Len(t.sent[to][i]) <= max_aggregate
      BY DEF Fits
    <3>1. CASE to # r
      BY <3>1, <2>5, <1>3 DEF Fits
    <3>2. CASE to = r
      <4>1. Len(t.aggregate[r]) < max_aggregate
        BY <2>6, <1>7
      <4>2. \A i \in 1 .. Len(e[r]) : Len(e[r][i]) <= max_aggregate
        BY <1>3 DEF Fits
      <4>3. ASSUME NEW i \in 1 .. Len(t.sent[r])
            PROVE  Len(t.sent[r][i]) <= max_aggregate
        <5>1. PICK q \in Seq(Seq(MessageOf(n))) : q = e[r]
          OBVIOUS
        <5>2. Len(Append(q, p)) = Len(q) + 1 /\ i \in 1 .. Len(Append(q, p))
          BY <2>6, <5>1
        <5>3. Append(q, p)[i] = IF i <= Len(q) THEN q[i] ELSE p
          BY <5>2
        <5>4. CASE i <= Len(q)
          BY <5>1, <5>2, <5>3, <5>4, <2>6, <4>2
        <5>5. CASE ~ (i <= Len(q))
          BY <5>1, <5>3, <5>5, <2>6, <1>8
        <5> QED
          BY <5>4, <5>5
      <4> QED
        BY <4>1, <4>3, <3>2
    <3> QED
      BY <3>1, <3>2
  <2>8. Joins(s, t, msg, r)
    BY <2>6, <1>3, <1>5 DEF Joins
  <2> QED
    BY <2>2, <2>4, <2>5, <2>7, <2>8, <1>1, <1>3
<1>10. CASE ~ (Len(p) >= max_aggregate \/ ~ msg.event)
  <2>1. Aggregate(s, msg) = [aggregate |-> [a EXCEPT ![r] = p], sent |-> e]
    BY <1>1, <1>3, <1>5, <1>10 DEF Aggregate
  <2>2. PICK t : t = Aggregate(s, msg)
    OBVIOUS
  <2>3. t.aggregate = [a EXCEPT ![r] = p] /\ t.sent = e
    BY <2>1, <2>2
  <2>4. t \in Sending(n)
    <3>1. [a EXCEPT ![r] = p] \in [Node -> Seq(MessageOf(n))]
      OBVIOUS
    <3> QED
      BY <2>1, <2>2, <3>1 DEF Sending
  <2>5. \A to \in Node \ {r} : t.aggregate[to] = a[to] /\ t.sent[to] = e[to]
    BY <2>3
  <2>6. t.aggregate[r] = p /\ t.sent[r] = e[r]
    BY <2>3
  <2>7. Fits(t)
    <3> SUFFICES ASSUME NEW to \in Node
                 PROVE  /\ Len(t.aggregate[to]) < max_aggregate
                        /\ \A i \in 1 .. Len(t.sent[to]) : Len(t.sent[to][i]) <= max_aggregate
      BY DEF Fits
    <3>1. \A i \in 1 .. Len(t.sent[to]) : Len(t.sent[to][i]) <= max_aggregate
      BY <2>3, <1>3 DEF Fits
    <3>2. CASE to # r
      BY <3>1, <3>2, <2>5, <1>3 DEF Fits
    <3>3. CASE to = r
      <4>1. Len(p) \in Nat /\ Len(p) < max_aggregate
        BY <1>7, <1>10
      <4> QED
        BY <3>1, <3>3, <4>1, <2>6
    <3> QED
      BY <3>2, <3>3
  <2>8. Joins(s, t, msg, r)
    BY <2>6, <1>3, <1>5 DEF Joins
  <2> QED
    BY <2>2, <2>4, <2>5, <2>7, <2>8, <1>1, <1>3
<1> QED
  BY <1>9, <1>10

LEMMA AppendConcat ==
    ASSUME NEW c \in Seq(Seq(AMessage)), NEW e \in Seq(Seq(AMessage)), NEW p \in Seq(AMessage)
    PROVE  Append(c \o e, p) = c \o Append(e, p)
<1>1. PICK lc \in Nat, le \in Nat : lc = Len(c) /\ le = Len(e)
  OBVIOUS
<1>2. PICK u \in Seq(Seq(AMessage)) : u = c \o e
  BY ConcatProperties
<1>3. PICK v \in Seq(Seq(AMessage)) : v = Append(e, p)
  BY AppendProperties
<1>4. PICK x \in Seq(Seq(AMessage)), y \in Seq(Seq(AMessage)) : x = Append(u, p) /\ y = c \o v
  <2>1. Append(u, p) \in Seq(Seq(AMessage)) /\ c \o v \in Seq(Seq(AMessage))
    BY AppendProperties, ConcatProperties
  <2> QED
    BY <2>1
<1>5. /\ Len(u) = lc + le /\ \A i \in 1 .. lc : u[i] = c[i]
      /\ \A i \in lc + 1 .. lc + le : u[i] = e[i - lc]
  BY <1>1, <1>2
<1>6. Len(v) = le + 1 /\ v[le + 1] = p /\ \A i \in 1 .. le : v[i] = e[i]
  BY <1>1, <1>3
<1>7. Len(x) = lc + le + 1 /\ x[lc + le + 1] = p /\ \A i \in 1 .. lc + le : x[i] = u[i]
  BY <1>4, <1>5
<1>8. /\ Len(y) = lc + le + 1 /\ \A i \in 1 .. lc : y[i] = c[i]
      /\ \A i \in lc + 1 .. lc + le + 1 : y[i] = v[i - lc]
  <2>1. /\ Len(y) = Len(c) + Len(v) /\ \A i \in 1 .. Len(c) : y[i] = c[i]
        /\ \A i \in Len(c) + 1 .. Len(c) + Len(v) : y[i] = v[i - Len(c)]
    BY <1>4
  <2>2. lc + (le + 1) = lc + le + 1
    OBVIOUS
  <2> QED
    BY <2>1, <2>2, <1>1, <1>6
<1>9. ASSUME NEW i \in 1 .. lc + le + 1 PROVE x[i] = y[i]
  <2>1. CASE i <= lc
    BY <2>1, <1>5, <1>7, <1>8
  <2>2. CASE lc < i /\ i <= lc + le
    <3>1. i \in lc + 1 .. lc + le /\ i \in 1 .. lc + le /\ i \in lc + 1 .. lc + le + 1
          /\ i - lc \in 1 .. le
      BY <2>2
    <3> QED
      BY <3>1, <1>5, <1>6, <1>7, <1>8
  <2>3. CASE i = lc + le + 1
    <3>1. i \in lc + 1 .. lc + le + 1 /\ i - lc = le + 1
      BY <2>3
    <3> QED
      BY <3>1, <2>3, <1>6, <1>7, <1>8
  <2>4. i <= lc \/ (lc < i /\ i <= lc + le) \/ i = lc + le + 1
    OBVIOUS
  <2> QED
    BY <2>1, <2>2, <2>3, <2>4
<1>10. x = y
  BY <1>7, <1>8, <1>9, SeqEqual
<1> QED
  BY <1>2, <1>3, <1>4, <1>10

(* Between two iterations: s has been done, the rest is to do.             *)
During(n, s, rest) ==
    /\ s \in Sending(n) /\ Fits(s)
    /\ \A to \in Node : InOrder(Row(handled[to], receives[to], channel[<<n, to>>] \o s.sent[to],
                                   s.aggregate[to], rest), n, to, SentTo(n, to))

LEMMA Iteration ==
    ASSUME CommTypeOK, AtItsSender, NEW n \in Node, NEW s, NEW rest \in Seq(MessageOf(n)),
           rest # <<>>, During(n, s, rest)
    PROVE  During(n, Aggregate(s, Head(rest)), Tail(rest))
<1>1. PICK msg \in MessageOf(n) : msg = Head(rest)
  BY HeadTailProperties
<1>2. PICK t : t = Aggregate(s, msg)
  OBVIOUS
<1>3. s \in Sending(n) /\ Fits(s)
  BY DEF During
<1>4. /\ t \in Sending(n) /\ Fits(t) /\ Joins(s, t, msg, msg.to)
      /\ \A to \in Node \ {msg.to} : t.aggregate[to] = s.aggregate[to] /\ t.sent[to] = s.sent[to]
  BY <1>2, <1>3, AggregateStep
<1>5. Seq(MessageOf(n)) \subseteq Seq(AMessage) /\ Seq(Seq(MessageOf(n))) \subseteq Seq(Seq(AMessage))
  BY MessagesOf
<1>6. rest \in Seq(AMessage) /\ Tail(rest) \in Seq(AMessage)
  <2>1. Tail(rest) \in Seq(MessageOf(n))
    BY HeadTailProperties
  <2> QED
    BY <2>1, <1>5
<1>7. ASSUME NEW to \in Node
      PROVE  InOrder(Row(handled[to], receives[to], channel[<<n, to>>] \o t.sent[to],
                         t.aggregate[to], Tail(rest)), n, to, SentTo(n, to))
  <2>1. PICK h \in Seq(AMessage), r \in Seq(Seq(AMessage)) : h = handled[to] /\ r = receives[to]
    BY DEF CommTypeOK
  <2>2. s.aggregate[to] \in Seq(MessageOf(n)) /\ s.sent[to] \in Seq(Seq(MessageOf(n)))
    BY <1>3 DEF Sending
  <2>3. PICK a \in Seq(AMessage), e \in Seq(Seq(AMessage)) : a = s.aggregate[to] /\ e = s.sent[to]
    BY <2>2, <1>5
  <2>4. PICK c \in Seq(Seq(AMessage)) : c = channel[<<n, to>>]
    BY DEF CommTypeOK
  <2>5. c \o e \in Seq(Seq(AMessage))
    BY ConcatProperties
  <2>6. PICK d \in Seq(Seq(AMessage)) : d = c \o e
    BY <2>5
  <2>7. InOrder(Row(h, r, d, a, rest), n, to, SentTo(n, to))
    BY <2>1, <2>3, <2>4, <2>6 DEF During
  <2>8. CASE msg.to # to
    <3>1. InOrder(Row(h, r, d, a, Tail(rest)), n, to, SentTo(n, to))
      BY <2>7, <2>8, <1>1, <1>6, RowHeadLeft
    <3>2. t.aggregate[to] = a /\ t.sent[to] = e
      BY <2>3, <2>8, <1>4
    <3> QED
      BY <3>1, <3>2, <2>1, <2>4, <2>6
  <2>9. CASE msg.to = to
    <3>1. PICK p : p = Append(a, msg)
      OBVIOUS
    <3>2. p \in Seq(AMessage)
      <4>1. msg \in AMessage
        BY MessagesOf
      <4> QED
        BY <3>1, <4>1, AppendProperties
    <3>3. InOrder(Row(h, r, d, p, Tail(rest)), n, to, SentTo(n, to))
      <4>1. InOrder(Row(h, r, d, Append(a, Head(rest)), Tail(rest)), n, to, SentTo(n, to))
        BY <2>7, <1>6, RowHeadMoved
      <4> QED
        BY <4>1, <3>1, <1>1
    <3>4. CASE t.aggregate[to] = p /\ t.sent[to] = e
      BY <3>3, <3>4, <2>1, <2>4, <2>6
    <3>5. CASE t.aggregate[to] = <<>> /\ t.sent[to] = Append(e, p)
      <4>1. InOrder(Row(h, r, Append(d, p), <<>>, Tail(rest)), n, to, SentTo(n, to))
        BY <3>2, <3>3, <1>6, RowPacked
      <4>2. Append(d, p) = c \o Append(e, p)
        BY <2>6, <3>2, AppendConcat
      <4> QED
        BY <4>1, <4>2, <3>5, <2>1, <2>4
    <3>6. Joins(s, t, msg, to)
      BY <1>4, <2>9
    <3> QED
      BY <3>1, <3>4, <3>5, <3>6, <2>3 DEF Joins
  <2> QED
    BY <2>8, <2>9
<1> QED
  BY <1>1, <1>2, <1>4, <1>7 DEF During

LEMMA Loop ==
    ASSUME CommInv, NEW n \in Node
    PROVE  During(n, Aggregated(n), <<>>)
<1>0. CommTypeOK /\ AtItsSender /\ AggregateFits /\ AllInOrder
  BY DEF CommInv
<1>1. PICK q \in Seq(MessageOf(n)) : q = send_queue[n]
  BY <1>0 DEF AtItsSender
<1>2. PICK len \in Nat : len = Len(q)
  OBVIOUS
<1>3. PICK f : IsLoop(f, n) /\ Aggregated(n) = f[len]
  BY <1>1, <1>2, LoopEnds
<1>4. \A i \in 0 .. len :
         f[i] = IF i = 0 THEN [aggregate |-> aggregate_messages[n], sent |-> [to \in Node |-> <<>>]]
                ELSE Aggregate(f[i - 1], q[i])
  BY <1>1, <1>2, <1>3 DEF IsLoop
<1>5. During(n, f[0], q)
  <2>1. f[0] = [aggregate |-> aggregate_messages[n], sent |-> [to \in Node |-> <<>>]]
    <3>1. 0 \in 0 .. len
      OBVIOUS
    <3> QED
      BY <3>1, <1>4
  <2>2. PICK s : s = f[0]
    OBVIOUS
  <2>3. s.aggregate = aggregate_messages[n] /\ s.sent = [to \in Node |-> <<>>]
    BY <2>1, <2>2
  <2>4. s \in Sending(n)
    <3>1. aggregate_messages[n] \in [Node -> Seq(MessageOf(n))]
      BY <1>0 DEF AtItsSender
    <3>2. [to \in Node |-> <<>>] \in [Node -> Seq(Seq(MessageOf(n)))]
      OBVIOUS
    <3> QED
      BY <2>1, <2>2, <3>1, <3>2 DEF Sending
  <2>5. Fits(s)
    <3>1. \A to \in Node : Len(aggregate_messages[n][to]) < max_aggregate
      BY <1>0 DEF AggregateFits
    <3>2. \A to \in Node : s.sent[to] = <<>>
      BY <2>3
    <3>3. \A to \in Node : Len(s.sent[to]) = 0
      BY <3>2
    <3> QED
      BY <2>3, <3>1, <3>3 DEF Fits
  <2>6. ASSUME NEW to \in Node
        PROVE  InOrder(Row(handled[to], receives[to], channel[<<n, to>>] \o s.sent[to],
                           s.aggregate[to], q), n, to, SentTo(n, to))
    <3>1. PICK c \in Seq(Seq(AMessage)) : c = channel[<<n, to>>]
      BY <1>0 DEF CommTypeOK
    <3>2. c \o <<>> = c
      BY ConcatEmptySeq
    <3>3. channel[<<n, to>>] \o s.sent[to] = channel[<<n, to>>]
      BY <2>3, <3>1, <3>2
    <3>4. Boxes(n, to) = Row(handled[to], receives[to], channel[<<n, to>>],
                             aggregate_messages[n][to], send_queue[n])
      BY DEF Boxes, Row
    <3>5. InOrder(Boxes(n, to), n, to, SentTo(n, to))
      BY <1>0 DEF AllInOrder
    <3> QED
      BY <3>3, <3>4, <3>5, <2>3, <1>1
  <2> QED
    BY <2>2, <2>4, <2>5, <2>6 DEF During
<1> DEFINE Done(i) == During(n, f[i], SubSeq(q, i + 1, len))
<1>6. \A i \in 0 .. len : Done(i)
  <2> DEFINE T == {i \in 0 .. len : ~ Done(i)}
  <2> HIDE DEF Done
  <2> SUFFICES ASSUME T # {} PROVE FALSE
    OBVIOUS
  <2>1. PICK i \in T : \A k \in T : i <= k
    <3>1. T \in SUBSET Nat
      OBVIOUS
    <3> QED
      BY <3>1, LeastNumber
  <2>2. i \in 0 .. len /\ ~ Done(i)
    BY <2>1
  <2>3. CASE i = 0
    <3>1. SubSeq(q, 0 + 1, len) = q
      BY <1>2, SubSeqFull
    <3> QED
      BY <3>1, <2>2, <2>3, <1>5 DEF Done
  <2>4. CASE i # 0
    <3>1. PICK k \in Nat : k = i - 1 /\ i = k + 1 /\ k \in 0 .. len
      BY <2>2, <2>4
    <3>2. k \notin T
      <4>1. ~ (i <= k)
        BY <3>1
      <4> HIDE DEF T
      <4> QED
        BY <4>1, <2>1
    <3>3. Done(k)
      BY <3>1, <3>2
    <3>4. PICK rest : rest = SubSeq(q, i, len)
      OBVIOUS
    <3>5. /\ rest \in Seq(MessageOf(n)) /\ rest # <<>>
          /\ Head(rest) = q[i] /\ Tail(rest) = SubSeq(q, i + 1, len)
      <4>1. i \in 1 .. Len(q) /\ len \in i .. Len(q) /\ i \in 1 .. len
        BY <2>2, <2>4, <1>2
      <4>2. Head(rest) = q[i] /\ Tail(rest) = SubSeq(q, i + 1, len)
        BY <4>1, <3>4, HeadTailOfSubSeq
      <4>3. rest \in Seq(MessageOf(n)) /\ Len(rest) = len - i + 1
        BY <4>1, <3>4, SubSeqProperties
      <4>4. Len(rest) # 0
        BY <4>1, <4>3
      <4> QED
        BY <4>2, <4>3, <4>4
    <3>6. During(n, f[k], rest)
      BY <3>1, <3>3, <3>4 DEF Done
    <3>7. During(n, Aggregate(f[k], q[i]), SubSeq(q, i + 1, len))
      BY <1>0, <3>5, <3>6, Iteration
    <3>8. f[i] = Aggregate(f[k], q[i])
      BY <1>4, <2>2, <2>4, <3>1
    <3> QED
      BY <2>2, <3>7, <3>8 DEF Done
  <2> QED
    BY <2>3, <2>4
<1>7. Done(len)
  BY <1>6
<1>8. SubSeq(q, len + 1, len) = <<>>
  BY SubSeqEmpty
<1> QED
  BY <1>3, <1>7, <1>8

-----------------------------------------------------------------------------
(* The invariant holds initially, and every step keeps it.                 *)

LEMMA CommInitInv ==
    ASSUME CommInit
    PROVE  CommInv
<1>1. CommTypeOK
  BY DEF CommInit, CommTypeOK
<1>2. AtItsSender
  <2> SUFFICES ASSUME NEW n \in Node
               PROVE  /\ send_queue[n] \in Seq(MessageOf(n))
                      /\ aggregate_messages[n] \in [Node -> Seq(MessageOf(n))]
                      /\ \A to \in Node : channel[<<n, to>>] \in Seq(Seq(MessageOf(n)))
    BY DEF AtItsSender
  <2>1. send_queue[n] = <<>> /\ aggregate_messages[n] = [to \in Node |-> <<>>]
    BY DEF CommInit
  <2>2. \A to \in Node : channel[<<n, to>>] = <<>>
    BY DEF CommInit
  <2>3. <<>> \in Seq(MessageOf(n)) /\ <<>> \in Seq(Seq(MessageOf(n)))
    OBVIOUS
  <2>4. [to \in Node |-> <<>>] \in [Node -> Seq(MessageOf(n))]
    BY <2>3
  <2> QED
    BY <2>1, <2>2, <2>3, <2>4
<1>3. \A n \in Node : inserted[n] = <<>>
  BY DEF CommInit
<1>4. Numbered
  BY <1>3 DEF Numbered
<1>5. AggregateFits
  <2>1. \A from, to \in Node : aggregate_messages[from][to] = <<>>
    BY DEF CommInit
  <2>2. \A link \in Node \X Node : channel[link] = <<>>
    BY DEF CommInit
  <2> QED
    BY <2>1, <2>2, AggregateAssumption DEF AggregateFits
<1>6. ASSUME NEW from \in Node, NEW to \in Node
      PROVE  InOrder(Boxes(from, to), from, to, SentTo(from, to))
  <2>1. /\ handled[to] = <<>> /\ receives[to] = <<>> /\ channel[<<from, to>>] = <<>>
        /\ aggregate_messages[from][to] = <<>> /\ send_queue[from] = <<>>
    BY DEF CommInit
  <2>2. PICK e \in Seq(AMessage), z \in Seq(Seq(AMessage)) : e = <<>> /\ z = <<>>
    <3>1. <<>> \in Seq(AMessage) /\ <<>> \in Seq(Seq(AMessage))
      OBVIOUS
    <3> QED
      BY <3>1
  <2>3. PICK b : b = Row(e, z, z, e, e)
    OBVIOUS
  <2>4. Boxes(from, to) = b
    BY <2>1, <2>2, <2>3 DEF Boxes, Row
  <2>5. IsRow(b, e, z, z, e, e)
    BY <2>3, RowFacts
  <2>6. Len(z) = 0 /\ Len(e) = 0
    BY <2>2
  <2>7. Len(b) = 3 /\ b[1] = e /\ b[2] = e /\ b[3] = e
    BY <2>5, <2>6 DEF IsRow
  <2>8. \A i, k \in Nat : ~ IsPlace(b, from, to, i, k)
    <3> SUFFICES ASSUME NEW i \in Nat, NEW k \in Nat, IsPlace(b, from, to, i, k) PROVE FALSE
      OBVIOUS
    <3>1. i \in 1 .. 3 /\ k \in 1 .. Len(b[i])
      BY <2>7 DEF IsPlace
    <3>2. b[i] = e
      BY <2>7, <3>1
    <3> QED
      BY <2>6, <3>1, <3>2
  <2>9. SentTo(from, to) = {}
    BY <1>3 DEF SentTo, Seqs!ToSet
  <2>10. InOrder(b, from, to, {})
    BY <2>8 DEF InOrder, AllPresent, NoneTwice, NonePassed
  <2> QED
    BY <2>4, <2>9, <2>10
<1> QED
  BY <1>1, <1>2, <1>4, <1>5, <1>6 DEF CommInv, AllInOrder

LEMMA InsertStep ==
    ASSUME CommInv, NEW n \in Node, NEW to \in Node, NEW event \in BOOLEAN,
           insertMessage(n, to, event)
    PROVE  CommInv'
<1>0. CommTypeOK /\ AtItsSender /\ Numbered /\ AggregateFits /\ AllInOrder
  BY DEF CommInv
<1>1. PICK m : m = Message(n, to, event)
  OBVIOUS
<1>2. PICK i \in Seq(AMessage), len \in Nat : i = inserted[n] /\ len = Len(i)
  BY <1>0 DEF CommTypeOK
<1>3. m = [from |-> n, to |-> to, event |-> event, no |-> len + 1]
  BY <1>1, <1>2 DEF Message
<1>4. m \in MessageOf(n) /\ m \in AMessage /\ m.from = n /\ m.to = to /\ m.no = len + 1
  BY <1>3 DEF MessageOf, AMessage
<1>5. /\ send_queue' = [send_queue EXCEPT ![n] = Append(send_queue[n], m)]
      /\ inserted' = [inserted EXCEPT ![n] = Append(i, m)]
      /\ UNCHANGED <<aggregate_messages, channel, receives, handled>>
  BY <1>1, <1>2 DEF insertMessage
<1>6. Append(i, m) \in Seq(AMessage) /\ Append(send_queue[n], m) \in Seq(AMessage)
      /\ Append(send_queue[n], m) \in Seq(MessageOf(n))
  <2>1. send_queue[n] \in Seq(AMessage) /\ send_queue[n] \in Seq(MessageOf(n))
    BY <1>0 DEF CommTypeOK, AtItsSender
  <2> QED
    BY <2>1, <1>4, AppendProperties
<1>7. CommTypeOK'
  BY <1>0, <1>5, <1>6 DEF CommTypeOK
<1>8. AtItsSender'
  <2> SUFFICES ASSUME NEW o \in Node
               PROVE  /\ send_queue'[o] \in Seq(MessageOf(o))
                      /\ aggregate_messages'[o] \in [Node -> Seq(MessageOf(o))]
                      /\ \A t \in Node : channel'[<<o, t>>] \in Seq(Seq(MessageOf(o)))
    BY DEF AtItsSender
  <2>1. send_queue'[o] = IF o = n THEN Append(send_queue[n], m) ELSE send_queue[o]
    BY <1>0, <1>5 DEF CommTypeOK
  <2>2. send_queue'[o] \in Seq(MessageOf(o))
    BY <1>0, <1>6, <2>1 DEF AtItsSender
  <2>3. /\ aggregate_messages'[o] \in [Node -> Seq(MessageOf(o))]
        /\ \A t \in Node : channel'[<<o, t>>] \in Seq(Seq(MessageOf(o)))
    BY <1>0, <1>5 DEF AtItsSender
  <2> QED
    BY <2>2, <2>3
<1>9. \A o \in Node : inserted'[o] = IF o = n THEN Append(i, m) ELSE inserted[o]
  BY <1>0, <1>5 DEF CommTypeOK
<1>10. Len(Append(i, m)) = len + 1 /\ Append(i, m)[len + 1] = m
       /\ \A k \in 1 .. len : Append(i, m)[k] = i[k]
  BY <1>2, <1>4
<1>11. Numbered'
  <2> SUFFICES ASSUME NEW o \in Node, NEW k \in 1 .. Len(inserted'[o])
               PROVE  inserted'[o][k].from = o /\ inserted'[o][k].no = k
    BY DEF Numbered
  <2>1. CASE o # n
    BY <2>1, <1>0, <1>9 DEF Numbered
  <2>2. CASE o = n
    <3>1. inserted'[o] = Append(i, m) /\ k \in 1 .. len + 1
      BY <2>2, <1>9, <1>10
    <3>2. CASE k = len + 1
      BY <3>1, <3>2, <2>2, <1>4, <1>10
    <3>3. CASE k # len + 1
      <4>1. k \in 1 .. len
        BY <3>1, <3>3
      <4>2. i[k].from = n /\ i[k].no = k
        BY <4>1, <1>0, <1>2 DEF Numbered
      <4> QED
        BY <4>1, <4>2, <3>1, <2>2, <1>10
    <3> QED
      BY <3>2, <3>3
  <2> QED
    BY <2>1, <2>2
<1>12. AggregateFits'
  BY <1>0, <1>5 DEF AggregateFits
<1>13. ASSUME NEW f \in Node, NEW t \in Node
       PROVE  InOrder(Boxes(f, t)', f, t, SentTo(f, t)')
  <2>1. PICK h \in Seq(AMessage), r \in Seq(Seq(AMessage)), c \in Seq(Seq(AMessage)),
             a \in Seq(AMessage), s \in Seq(AMessage) :
           /\ h = handled[t] /\ r = receives[t] /\ c = channel[<<f, t>>]
           /\ a = aggregate_messages[f][t] /\ s = send_queue[f]
    BY <1>0 DEF CommTypeOK
  <2>2. InOrder(Row(h, r, c, a, s), f, t, SentTo(f, t))
    <3>1. InOrder(Boxes(f, t), f, t, SentTo(f, t))
      BY <1>0 DEF AllInOrder
    <3> QED
      BY <3>1, <2>1 DEF Boxes, Row
  <2>3. Boxes(f, t)' = Row(h, r, c, a, send_queue'[f])
    BY <2>1, <1>5 DEF Boxes, Row
  <2>4. CASE f # n
    <3>1. send_queue'[f] = s /\ inserted'[f] = inserted[f]
      BY <2>1, <2>4, <1>0, <1>5 DEF CommTypeOK
    <3>2. SentTo(f, t)' = SentTo(f, t)
      BY <3>1 DEF SentTo
    <3> QED
      BY <2>2, <2>3, <3>1, <3>2
  <2>5. CASE f = n
    <3>1. send_queue'[f] = Append(s, m) /\ inserted'[f] = Append(i, m)
      BY <2>1, <2>5, <1>0, <1>5 DEF CommTypeOK
    <3>2. \A o \in SentTo(f, t) : o.no < m.no
      <4> SUFFICES ASSUME NEW o \in SentTo(f, t) PROVE o.no < m.no
        OBVIOUS
      <4>0. o \in Seqs!ToSet(i) /\ DOMAIN i = 1 .. len
        BY <1>2, <2>5 DEF SentTo
      <4>1. PICK k \in 1 .. len : o = i[k]
        BY <4>0 DEF Seqs!ToSet
      <4>2. i[k].no = k
        BY <1>0, <1>2 DEF Numbered
      <4> QED
        BY <4>1, <4>2, <1>4
    <3>3. SentTo(f, t)' = IF m.from = f /\ m.to = t THEN SentTo(f, t) \cup {m} ELSE SentTo(f, t)
      <4>1. Seqs!ToSet(Append(i, m)) = Seqs!ToSet(i) \cup {m}
        <5>1. DOMAIN Append(i, m) = 1 .. len + 1 /\ DOMAIN i = 1 .. len
          BY <1>2, <1>4, <1>10
        <5>2. {Append(i, m)[k] : k \in 1 .. len + 1} = {i[k] : k \in 1 .. len} \cup {m}
          <6>0. \A j : j \in 1 .. len + 1 <=> (j \in 1 .. len \/ j = len + 1)
            <7>1. len \in Nat
              BY <1>2
            <7> QED
              BY <7>1
          <6>1. 1 .. len + 1 = (1 .. len) \cup {len + 1}
            BY <6>0, Zenon
          <6>2. {Append(i, m)[k] : k \in 1 .. len + 1}
                  = {Append(i, m)[k] : k \in 1 .. len} \cup {Append(i, m)[len + 1]}
            BY <6>1
          <6> QED
            BY <6>2, <1>10
        <5> QED
          BY <5>1, <5>2 DEF Seqs!ToSet
      <4>2. SentTo(f, t)' = {o \in Seqs!ToSet(i) \cup {m} : o.to = t}
        BY <3>1, <4>1 DEF SentTo
      <4>3. SentTo(f, t) = {o \in Seqs!ToSet(i) : o.to = t}
        BY <1>2, <2>5 DEF SentTo
      <4> QED
        BY <4>2, <4>3, <2>5, <1>4
    <3>4. InOrder(Row(h, r, c, a, Append(s, m)), f, t,
                  IF m.from = f /\ m.to = t THEN SentTo(f, t) \cup {m} ELSE SentTo(f, t))
      BY <2>2, <3>2, <1>4, RowJoined
    <3> QED
      BY <2>3, <3>1, <3>3, <3>4
  <2> QED
    BY <2>4, <2>5
<1>14. AllInOrder'
  BY <1>13 DEF AllInOrder
<1> QED
  BY <1>7, <1>8, <1>11, <1>12, <1>14 DEF CommInv

LEMMA SendStep ==
    ASSUME CommInv, NEW n \in Node, startSendRequests(n)
    PROVE  CommInv'
<1>0. CommTypeOK /\ AtItsSender /\ Numbered /\ AggregateFits /\ AllInOrder
  BY DEF CommInv
<1>1. PICK s : s = Aggregated(n)
  OBVIOUS
<1>2. /\ send_queue' = [send_queue EXCEPT ![n] = <<>>]
      /\ aggregate_messages' = [aggregate_messages EXCEPT ![n] = s.aggregate]
      /\ channel' = [link \in Node \X Node |->
                        IF link[1] = n THEN channel[link] \o s.sent[link[2]] ELSE channel[link]]
      /\ UNCHANGED <<receives, handled, inserted>>
  BY <1>1 DEF startSendRequests
<1>3. During(n, s, <<>>)
  BY <1>1, Loop
<1>4. s \in Sending(n) /\ Fits(s)
  BY <1>3 DEF During
<1>5. s.aggregate \in [Node -> Seq(MessageOf(n))] /\ s.sent \in [Node -> Seq(Seq(MessageOf(n)))]
  BY <1>4 DEF Sending
<1>6. Seq(MessageOf(n)) \subseteq Seq(AMessage) /\ Seq(Seq(MessageOf(n))) \subseteq Seq(Seq(AMessage))
  BY MessagesOf
<1>7. \A f, t \in Node : channel'[<<f, t>>] = IF f = n THEN channel[<<f, t>>] \o s.sent[t]
                                              ELSE channel[<<f, t>>]
  BY <1>2
<1>8. ASSUME NEW t \in Node
      PROVE  /\ channel[<<n, t>>] \o s.sent[t] \in Seq(Seq(AMessage))
             /\ channel[<<n, t>>] \o s.sent[t] \in Seq(Seq(MessageOf(n)))
  <2>1. channel[<<n, t>>] \in Seq(Seq(MessageOf(n))) /\ s.sent[t] \in Seq(Seq(MessageOf(n)))
    BY <1>0, <1>5 DEF AtItsSender
  <2>2. channel[<<n, t>>] \o s.sent[t] \in Seq(Seq(MessageOf(n)))
    BY <2>1, ConcatProperties
  <2> QED
    BY <2>2, <1>6
<1>9. CommTypeOK'
  <2>1. send_queue' \in [Node -> Seq(AMessage)]
    BY <1>0, <1>2 DEF CommTypeOK
  <2>2. aggregate_messages' \in [Node -> [Node -> Seq(AMessage)]]
    <3>1. s.aggregate \in [Node -> Seq(AMessage)]
      BY <1>5, <1>6
    <3> QED
      BY <3>1, <1>0, <1>2 DEF CommTypeOK
  <2>3. channel' \in [Node \X Node -> Seq(Seq(AMessage))]
    <3>1. \A link \in Node \X Node : link[1] \in Node /\ link[2] \in Node /\ link = <<link[1], link[2]>>
      OBVIOUS
    <3>2. ASSUME NEW link \in Node \X Node
          PROVE  (IF link[1] = n THEN channel[link] \o s.sent[link[2]] ELSE channel[link])
                    \in Seq(Seq(AMessage))
      <4>1. CASE link[1] = n
        <5>1. link = <<n, link[2]>> /\ link[2] \in Node
          BY <3>1, <4>1
        <5>2. channel[<<n, link[2]>>] \o s.sent[link[2]] \in Seq(Seq(AMessage))
          BY <5>1, <1>8
        <5> QED
          BY <5>1, <5>2, <4>1
      <4>2. CASE link[1] # n
        BY <4>2, <1>0 DEF CommTypeOK
      <4> QED
        BY <4>1, <4>2
    <3> QED
      BY <3>2, <1>2
  <2> QED
    BY <2>1, <2>2, <2>3, <1>0, <1>2 DEF CommTypeOK
<1>10. /\ \A o \in Node : send_queue'[o] = IF o = n THEN <<>> ELSE send_queue[o]
       /\ \A o \in Node : aggregate_messages'[o] = IF o = n THEN s.aggregate ELSE aggregate_messages[o]
  BY <1>0, <1>2 DEF CommTypeOK
<1>11. AtItsSender'
  <2> SUFFICES ASSUME NEW o \in Node
               PROVE  /\ send_queue'[o] \in Seq(MessageOf(o))
                      /\ aggregate_messages'[o] \in [Node -> Seq(MessageOf(o))]
                      /\ \A t \in Node : channel'[<<o, t>>] \in Seq(Seq(MessageOf(o)))
    BY DEF AtItsSender
  <2>0. <<>> \in Seq(MessageOf(o))
    OBVIOUS
  <2>1. send_queue'[o] \in Seq(MessageOf(o))
    BY <2>0, <1>0, <1>10 DEF AtItsSender
  <2>2. aggregate_messages'[o] \in [Node -> Seq(MessageOf(o))]
    BY <1>0, <1>5, <1>10 DEF AtItsSender
  <2>3. \A t \in Node : channel'[<<o, t>>] \in Seq(Seq(MessageOf(o)))
    BY <1>0, <1>7, <1>8 DEF AtItsSender
  <2> QED
    BY <2>1, <2>2, <2>3
<1>12. Numbered'
  BY <1>0, <1>2 DEF Numbered
<1>13. AggregateFits'
  <2>1. ASSUME NEW f \in Node, NEW t \in Node
        PROVE  Len(aggregate_messages'[f][t]) < max_aggregate
    BY <1>0, <1>4, <1>10 DEF AggregateFits, Fits
  <2>2. ASSUME NEW f \in Node, NEW t \in Node, NEW i \in DOMAIN channel'[<<f, t>>]
        PROVE  Len(channel'[<<f, t>>][i]) <= max_aggregate
    <3>0. \A k \in DOMAIN channel[<<f, t>>] : Len(channel[<<f, t>>][k]) <= max_aggregate
      BY <1>0 DEF AggregateFits
    <3>1. CASE f # n
      BY <3>0, <3>1, <1>7, <2>2
    <3>2. CASE f = n
      <4>1. PICK c \in Seq(Seq(AMessage)) : c = channel[<<f, t>>]
        BY <1>0 DEF CommTypeOK
      <4>2. s.sent[t] \in Seq(Seq(AMessage))
        BY <1>5, <1>6
      <4>3. PICK e \in Seq(Seq(AMessage)) : e = s.sent[t]
        BY <4>2
      <4>4. channel'[<<f, t>>] = c \o e
        BY <3>2, <4>1, <4>3, <1>7
      <4>5. i \in 1 .. Len(c) + Len(e)
        BY <2>2, <4>4
      <4>6. (c \o e)[i] = IF i <= Len(c) THEN c[i] ELSE e[i - Len(c)]
        BY <4>5
      <4>7. CASE i <= Len(c)
        <5>1. i \in DOMAIN c
          BY <4>5, <4>7
        <5> QED
          BY <5>1, <3>0, <4>1, <4>4, <4>6, <4>7
      <4>8. CASE ~ (i <= Len(c))
        <5>1. i - Len(c) \in 1 .. Len(e)
          BY <4>5, <4>8
        <5>2. Len(e[i - Len(c)]) <= max_aggregate
          BY <5>1, <4>3, <1>4 DEF Fits
        <5> QED
          BY <5>2, <4>4, <4>6, <4>8
      <4> QED
        BY <4>7, <4>8
    <3> QED
      BY <3>1, <3>2
  <2>3. \A link \in Node \X Node : \E f, t \in Node : link = <<f, t>>
    OBVIOUS
  <2>4. ASSUME NEW link \in Node \X Node, NEW i \in DOMAIN channel'[link]
        PROVE  Len(channel'[link][i]) <= max_aggregate
    <3>1. PICK f \in Node, t \in Node : link = <<f, t>>
      BY <2>3
    <3>2. i \in DOMAIN channel'[<<f, t>>]
      BY <2>4, <3>1
    <3>3. Len(channel'[<<f, t>>][i]) <= max_aggregate
      BY <3>2, <2>2
    <3> QED
      BY <3>1, <3>3
  <2> QED
    BY <2>1, <2>4 DEF AggregateFits
<1>14. ASSUME NEW f \in Node, NEW t \in Node
       PROVE  InOrder(Boxes(f, t)', f, t, SentTo(f, t)')
  <2>1. SentTo(f, t)' = SentTo(f, t)
    BY <1>2 DEF SentTo
  <2>2. Boxes(f, t)' = Row(handled[t], receives[t], channel'[<<f, t>>],
                           aggregate_messages'[f][t], send_queue'[f])
    BY <1>2 DEF Boxes, Row
  <2>3. CASE f # n
    <3>1. Boxes(f, t)' = Boxes(f, t)
      BY <2>2, <2>3, <1>7, <1>10 DEF Boxes, Row
    <3> QED
      BY <3>1, <2>1, <1>0 DEF AllInOrder
  <2>4. CASE f = n
    <3>1. Boxes(f, t)' = Row(handled[t], receives[t], channel[<<n, t>>] \o s.sent[t],
                             s.aggregate[t], <<>>)
      BY <2>2, <2>4, <1>7, <1>10
    <3> QED
      BY <3>1, <2>1, <2>4, <1>3 DEF During
  <2> QED
    BY <2>3, <2>4
<1>15. AllInOrder'
  BY <1>14 DEF AllInOrder
<1> QED
  BY <1>9, <1>11, <1>12, <1>13, <1>15 DEF CommInv

LEMMA FlushStep ==
    ASSUME CommInv, NEW n \in Node, flushMessages(n)
    PROVE  CommInv'
<1>0. CommTypeOK /\ AtItsSender /\ Numbered /\ AggregateFits /\ AllInOrder
  BY DEF CommInv
<1>2. /\ aggregate_messages' = [aggregate_messages EXCEPT ![n] = [to \in Node |-> <<>>]]
      /\ channel' = [link \in Node \X Node |->
                        IF link[1] = n /\ aggregate_messages[n][link[2]] # <<>>
                        THEN Append(channel[link], aggregate_messages[n][link[2]])
                        ELSE channel[link]]
      /\ UNCHANGED <<send_queue, receives, handled, inserted>>
  BY DEF flushMessages
<1>3. \A f, t \in Node : channel'[<<f, t>>] = IF f = n /\ aggregate_messages[n][t] # <<>>
                                              THEN Append(channel[<<f, t>>], aggregate_messages[n][t])
                                              ELSE channel[<<f, t>>]
  BY <1>2
<1>4. \A f, t \in Node : aggregate_messages'[f][t] = IF f = n THEN <<>> ELSE aggregate_messages[f][t]
  <2>1. ASSUME NEW f \in Node, NEW t \in Node
        PROVE  aggregate_messages'[f][t] = IF f = n THEN <<>> ELSE aggregate_messages[f][t]
    <3>1. aggregate_messages'[f] = IF f = n THEN [to \in Node |-> <<>>] ELSE aggregate_messages[f]
      BY <1>0, <1>2 DEF CommTypeOK
    <3> QED
      BY <3>1
  <2> QED
    BY <2>1
<1>5. ASSUME NEW t \in Node
      PROVE  /\ Append(channel[<<n, t>>], aggregate_messages[n][t]) \in Seq(Seq(AMessage))
             /\ Append(channel[<<n, t>>], aggregate_messages[n][t]) \in Seq(Seq(MessageOf(n)))
  <2>1. channel[<<n, t>>] \in Seq(Seq(MessageOf(n))) /\ aggregate_messages[n][t] \in Seq(MessageOf(n))
    BY <1>0 DEF AtItsSender
  <2>2. channel[<<n, t>>] \in Seq(Seq(AMessage)) /\ aggregate_messages[n][t] \in Seq(AMessage)
    BY <1>0 DEF CommTypeOK
  <2> QED
    BY <2>1, <2>2, AppendProperties
<1>6. CommTypeOK'
  <2>1. aggregate_messages' \in [Node -> [Node -> Seq(AMessage)]]
    <3>1. <<>> \in Seq(AMessage)
      OBVIOUS
    <3>2. [to \in Node |-> <<>>] \in [Node -> Seq(AMessage)]
      BY <3>1
    <3> QED
      BY <3>2, <1>0, <1>2 DEF CommTypeOK
  <2>2. channel' \in [Node \X Node -> Seq(Seq(AMessage))]
    <3>1. \A link \in Node \X Node : link[1] \in Node /\ link[2] \in Node /\ link = <<link[1], link[2]>>
      OBVIOUS
    <3>2. ASSUME NEW link \in Node \X Node
          PROVE  (IF link[1] = n /\ aggregate_messages[n][link[2]] # <<>>
                  THEN Append(channel[link], aggregate_messages[n][link[2]])
                  ELSE channel[link]) \in Seq(Seq(AMessage))
      <4>1. CASE link[1] = n
        <5>1. link = <<n, link[2]>> /\ link[2] \in Node
          BY <3>1, <4>1
        <5>2. Append(channel[<<n, link[2]>>], aggregate_messages[n][link[2]]) \in Seq(Seq(AMessage))
          BY <5>1, <1>5
        <5>3. channel[link] \in Seq(Seq(AMessage))
          BY <1>0 DEF CommTypeOK
        <5> QED
          BY <5>1, <5>2, <5>3
      <4>2. CASE link[1] # n
        BY <4>2, <1>0 DEF CommTypeOK
      <4> QED
        BY <4>1, <4>2
    <3> QED
      BY <3>2, <1>2
  <2> QED
    BY <2>1, <2>2, <1>0, <1>2 DEF CommTypeOK
<1>7. AtItsSender'
  <2> SUFFICES ASSUME NEW o \in Node
               PROVE  /\ send_queue'[o] \in Seq(MessageOf(o))
                      /\ aggregate_messages'[o] \in [Node -> Seq(MessageOf(o))]
                      /\ \A t \in Node : channel'[<<o, t>>] \in Seq(Seq(MessageOf(o)))
    BY DEF AtItsSender
  <2>1. send_queue'[o] \in Seq(MessageOf(o))
    BY <1>0, <1>2 DEF AtItsSender
  <2>2. aggregate_messages'[o] \in [Node -> Seq(MessageOf(o))]
    <3>1. <<>> \in Seq(MessageOf(o))
      OBVIOUS
    <3>2. [to \in Node |-> <<>>] \in [Node -> Seq(MessageOf(o))]
      BY <3>1
    <3>3. aggregate_messages'[o] = IF o = n THEN [to \in Node |-> <<>>] ELSE aggregate_messages[o]
      BY <1>0, <1>2 DEF CommTypeOK
    <3> QED
      BY <3>2, <3>3, <1>0 DEF AtItsSender
  <2>3. \A t \in Node : channel'[<<o, t>>] \in Seq(Seq(MessageOf(o)))
    <3> SUFFICES ASSUME NEW t \in Node PROVE channel'[<<o, t>>] \in Seq(Seq(MessageOf(o)))
      OBVIOUS
    <3>1. channel[<<o, t>>] \in Seq(Seq(MessageOf(o)))
      BY <1>0 DEF AtItsSender
    <3>2. \/ channel'[<<o, t>>] = channel[<<o, t>>]
          \/ /\ o = n
             /\ channel'[<<o, t>>] = Append(channel[<<o, t>>], aggregate_messages[n][t])
      BY <1>3
    <3> QED
      BY <3>1, <3>2, <1>5
  <2> QED
    BY <2>1, <2>2, <2>3
<1>8. Numbered'
  BY <1>0, <1>2 DEF Numbered
<1>9. AggregateFits'
  <2>1. ASSUME NEW f \in Node, NEW t \in Node
        PROVE  Len(aggregate_messages'[f][t]) < max_aggregate
    <3>1. Len(aggregate_messages[f][t]) < max_aggregate /\ 0 < max_aggregate
      BY <1>0, AggregateAssumption DEF AggregateFits
    <3>2. CASE f = n
      <4>1. aggregate_messages'[f][t] = <<>>
        BY <3>2, <1>4
      <4>2. Len(aggregate_messages'[f][t]) = 0
        BY <4>1
      <4> QED
        BY <4>2, <3>1
    <3>3. CASE f # n
      BY <3>1, <3>3, <1>4
    <3> QED
      BY <3>2, <3>3
  <2>2. ASSUME NEW f \in Node, NEW t \in Node, NEW i \in DOMAIN channel'[<<f, t>>]
        PROVE  Len(channel'[<<f, t>>][i]) <= max_aggregate
    <3>0. \A k \in DOMAIN channel[<<f, t>>] : Len(channel[<<f, t>>][k]) <= max_aggregate
      BY <1>0 DEF AggregateFits
    <3>1. CASE ~ (f = n /\ aggregate_messages[n][t] # <<>>)
      <4>1. channel'[<<f, t>>] = channel[<<f, t>>]
        BY <3>1, <1>3
      <4> QED
        BY <4>1, <3>0, <2>2
    <3>2. CASE f = n /\ aggregate_messages[n][t] # <<>>
      <4>1. PICK c \in Seq(Seq(AMessage)) : c = channel[<<f, t>>]
        BY <1>0 DEF CommTypeOK
      <4>2. PICK a \in Seq(AMessage) : a = aggregate_messages[n][t]
        BY <1>0 DEF CommTypeOK
      <4>3. Len(a) \in Nat /\ Len(a) <= max_aggregate
        <5>1. Len(a) < max_aggregate /\ max_aggregate \in Nat /\ Len(a) \in Nat
          BY <4>2, <1>0, AggregateAssumption DEF AggregateFits
        <5> QED
          BY <5>1
      <4>4. channel'[<<f, t>>] = Append(c, a)
        BY <3>2, <4>1, <4>2, <1>3
      <4>5. i \in 1 .. Len(c) + 1
        BY <2>2, <4>4
      <4>6. Append(c, a)[i] = IF i <= Len(c) THEN c[i] ELSE a
        BY <4>5
      <4>7. CASE i <= Len(c)
        <5>1. i \in DOMAIN c
          BY <4>5, <4>7
        <5> QED
          BY <5>1, <3>0, <4>1, <4>4, <4>6, <4>7
      <4>8. CASE ~ (i <= Len(c))
        BY <4>3, <4>4, <4>6, <4>8
      <4> QED
        BY <4>7, <4>8
    <3> QED
      BY <3>1, <3>2
  <2>3. \A link \in Node \X Node : \E f, t \in Node : link = <<f, t>>
    OBVIOUS
  <2>4. ASSUME NEW link \in Node \X Node, NEW i \in DOMAIN channel'[link]
        PROVE  Len(channel'[link][i]) <= max_aggregate
    <3>1. PICK f \in Node, t \in Node : link = <<f, t>>
      BY <2>3
    <3>2. i \in DOMAIN channel'[<<f, t>>]
      BY <2>4, <3>1
    <3>3. Len(channel'[<<f, t>>][i]) <= max_aggregate
      BY <3>2, <2>2
    <3> QED
      BY <3>1, <3>3
  <2> QED
    BY <2>1, <2>4 DEF AggregateFits
<1>10. ASSUME NEW f \in Node, NEW t \in Node
       PROVE  InOrder(Boxes(f, t)', f, t, SentTo(f, t)')
  <2>1. SentTo(f, t)' = SentTo(f, t)
    BY <1>2 DEF SentTo
  <2>2. Boxes(f, t)' = Row(handled[t], receives[t], channel'[<<f, t>>],
                           aggregate_messages'[f][t], send_queue[f])
    BY <1>2 DEF Boxes, Row
  <2>3. InOrder(Row(handled[t], receives[t], channel[<<f, t>>],
                    aggregate_messages[f][t], send_queue[f]), f, t, SentTo(f, t))
    <3>1. InOrder(Boxes(f, t), f, t, SentTo(f, t))
      BY <1>0 DEF AllInOrder
    <3> QED
      BY <3>1 DEF Boxes, Row
  <2>4. CASE ~ (f = n /\ aggregate_messages[n][t] # <<>>)
    <3>1. channel'[<<f, t>>] = channel[<<f, t>>]
      BY <2>4, <1>3
    <3>2. aggregate_messages'[f][t] = aggregate_messages[f][t]
      BY <2>4, <1>4
    <3> QED
      BY <3>1, <3>2, <2>1, <2>2, <2>3
  <2>5. CASE f = n /\ aggregate_messages[n][t] # <<>>
    <3>1. PICK h \in Seq(AMessage), r \in Seq(Seq(AMessage)), c \in Seq(Seq(AMessage)),
               a \in Seq(AMessage), s \in Seq(AMessage) :
             /\ h = handled[t] /\ r = receives[t] /\ c = channel[<<f, t>>]
             /\ a = aggregate_messages[f][t] /\ s = send_queue[f]
      BY <1>0 DEF CommTypeOK
    <3>2. InOrder(Row(h, r, Append(c, a), <<>>, s), f, t, SentTo(f, t))
      BY <2>3, <3>1, RowPacked
    <3>3. channel'[<<f, t>>] = Append(c, a) /\ aggregate_messages'[f][t] = <<>>
      BY <2>5, <3>1, <1>3, <1>4
    <3> QED
      BY <3>1, <3>2, <3>3, <2>1, <2>2
  <2> QED
    BY <2>4, <2>5
<1>11. AllInOrder'
  BY <1>10 DEF AllInOrder
<1> QED
  BY <1>6, <1>7, <1>8, <1>9, <1>11 DEF CommInv

(* For its own link, a receive that matches changes nothing.               *)
LEMMA RowMatched ==
    ASSUME NEW h \in Seq(AMessage), NEW r \in Seq(Seq(AMessage)), NEW c \in Seq(Seq(AMessage)),
           NEW a \in Seq(AMessage), NEW s \in Seq(AMessage), c # <<>>
    PROVE  Row(h, Append(r, Head(c)), Tail(c), a, s) = Row(h, r, c, a, s)
<1>1. PICK lr \in Nat, lt \in Nat : lr = Len(r) /\ lt + 1 = Len(c)
  <2>1. Len(r) \in Nat /\ Len(c) \in Nat /\ Len(c) # 0
    OBVIOUS
  <2>2. Len(c) - 1 \in Nat /\ (Len(c) - 1) + 1 = Len(c)
    BY <2>1
  <2> QED
    BY <2>1, <2>2
<1>2. PICK x \in Seq(AMessage), t \in Seq(Seq(AMessage)) : x = Head(c) /\ t = Tail(c)
  BY HeadTailProperties
<1>3. PICK q \in Seq(Seq(AMessage)) : q = Append(r, x)
  BY AppendProperties
<1>4. Len(q) = lr + 1 /\ q[lr + 1] = x /\ \A i \in 1 .. lr : q[i] = r[i]
  BY <1>1, <1>3
<1>5. Len(t) = lt /\ x = c[1] /\ \A i \in 1 .. lt : t[i] = c[i + 1]
  BY <1>1, <1>2
<1>6. PICK b \in Seq(Seq(AMessage)) : b = Row(h, r, c, a, s)
  BY RowFacts
<1>7. PICK d \in Seq(Seq(AMessage)) : d = Row(h, q, t, a, s)
  BY RowFacts
<1>8. /\ Len(b) = lr + (lt + 1) + 3 /\ b[1] = h
      /\ b[lr + (lt + 1) + 2] = a /\ b[lr + (lt + 1) + 3] = s
      /\ \A i \in 2 .. lr + 1 : b[i] = r[i - 1]
      /\ \A i \in lr + 2 .. lr + (lt + 1) + 1 : b[i] = c[i - (lr + 1)]
  <2>1. IsRow(b, h, r, c, a, s)
    BY <1>6, RowFacts
  <2> QED
    BY <2>1, <1>1 DEF IsRow
<1>9. /\ Len(d) = (lr + 1) + lt + 3 /\ d[1] = h
      /\ d[(lr + 1) + lt + 2] = a /\ d[(lr + 1) + lt + 3] = s
      /\ \A i \in 2 .. (lr + 1) + 1 : d[i] = q[i - 1]
      /\ \A i \in (lr + 1) + 2 .. (lr + 1) + lt + 1 : d[i] = t[i - ((lr + 1) + 1)]
  <2>1. IsRow(d, h, q, t, a, s)
    BY <1>7, RowFacts
  <2> QED
    BY <2>1, <1>4, <1>5 DEF IsRow
<1>10. ASSUME NEW i \in 1 .. Len(b) PROVE d[i] = b[i]
  <2>0. i \in Nat /\ 1 <= i /\ i <= lr + lt + 4
    <3>1. Len(b) = lr + lt + 4
      <4>1. lr + (lt + 1) + 3 = lr + lt + 4
        OBVIOUS
      <4> QED
        BY <4>1, <1>8
    <3> QED
      BY <3>1
  <2>1. CASE i = 1
    BY <2>1, <1>8, <1>9
  <2>2. CASE 2 <= i /\ i <= lr + 1
    <3>1. i \in 2 .. lr + 1 /\ i \in 2 .. (lr + 1) + 1 /\ i - 1 \in 1 .. lr
      BY <2>0, <2>2
    <3>2. d[i] = q[i - 1] /\ b[i] = r[i - 1]
      BY <3>1, <1>8, <1>9
    <3> QED
      BY <3>1, <3>2, <1>4
  <2>3. CASE i = lr + 2
    <3>1. i \in 2 .. (lr + 1) + 1 /\ i \in lr + 2 .. lr + (lt + 1) + 1
          /\ i - 1 = lr + 1 /\ i - (lr + 1) = 1
      BY <2>0, <2>3
    <3>2. d[i] = q[lr + 1] /\ b[i] = c[1]
      BY <3>1, <1>8, <1>9
    <3> QED
      BY <3>2, <1>4, <1>5
  <2>4. CASE lr + 3 <= i /\ i <= lr + lt + 2
    <3>1. i \in lr + 2 .. lr + (lt + 1) + 1 /\ i \in (lr + 1) + 2 .. (lr + 1) + lt + 1
          /\ i - ((lr + 1) + 1) \in 1 .. lt
          /\ (i - ((lr + 1) + 1)) + 1 = i - (lr + 1)
      BY <2>0, <2>4
    <3>2. d[i] = t[i - ((lr + 1) + 1)] /\ b[i] = c[i - (lr + 1)]
      BY <3>1, <1>8, <1>9
    <3>3. t[i - ((lr + 1) + 1)] = c[(i - ((lr + 1) + 1)) + 1]
      BY <3>1, <1>5
    <3> QED
      BY <3>1, <3>2, <3>3
  <2>5. CASE i = lr + lt + 3
    <3>1. i = lr + (lt + 1) + 2 /\ i = (lr + 1) + lt + 2
      BY <2>5
    <3> QED
      BY <3>1, <1>8, <1>9
  <2>6. CASE i = lr + lt + 4
    <3>1. i = lr + (lt + 1) + 3 /\ i = (lr + 1) + lt + 3
      BY <2>6
    <3> QED
      BY <3>1, <1>8, <1>9
  <2>7. \/ i = 1 \/ (2 <= i /\ i <= lr + 1) \/ i = lr + 2
        \/ (lr + 3 <= i /\ i <= lr + lt + 2) \/ i = lr + lt + 3 \/ i = lr + lt + 4
    BY <2>0
  <2> QED
    BY <2>1, <2>2, <2>3, <2>4, <2>5, <2>6, <2>7
<1>11. Len(d) = Len(b)
  BY <1>8, <1>9
<1>12. d = b
  BY <1>10, <1>11, SeqEqual
<1> QED
  BY <1>2, <1>3, <1>6, <1>7, <1>12

LEMMA ReceiveStep ==
    ASSUME CommInv, NEW n \in Node, NEW from \in Node, startReceiveRequests(<<from, n>>)
    PROVE  CommInv'
<1>0. CommTypeOK /\ AtItsSender /\ Numbered /\ AggregateFits /\ AllInOrder
  BY DEF CommInv
<1>1. PICK c \in Seq(Seq(MessageOf(from))) : c = channel[<<from, n>>]
  BY <1>0 DEF AtItsSender
<1>2. c \in Seq(Seq(AMessage)) /\ c # <<>>
  BY <1>1, MessagesOf DEF startReceiveRequests
<1>3. PICK x \in Seq(MessageOf(from)) : x = Head(c)
  BY <1>2, HeadTailProperties
<1>4. x \in Seq(AMessage) /\ Tail(c) \in Seq(Seq(AMessage)) /\ Tail(c) \in Seq(Seq(MessageOf(from)))
  BY <1>2, MessagesOf, HeadTailProperties
<1>5. <<from, n>>[2] = n
  OBVIOUS
<1>6. /\ receives' = [receives EXCEPT ![n] = Append(receives[n], x)]
      /\ channel' = [channel EXCEPT ![<<from, n>>] = Tail(c)]
      /\ UNCHANGED <<send_queue, aggregate_messages, handled, inserted>>
  BY <1>1, <1>3, <1>5 DEF startReceiveRequests
<1>7. Append(receives[n], x) \in Seq(Seq(AMessage))
  <2>1. receives[n] \in Seq(Seq(AMessage))
    BY <1>0 DEF CommTypeOK
  <2> QED
    BY <2>1, <1>4, AppendProperties
<1>8. <<from, n>> \in Node \X Node
  OBVIOUS
<1>9. CommTypeOK'
  <2>1. receives' \in [Node -> Seq(Seq(AMessage))]
    BY <1>0, <1>6, <1>7 DEF CommTypeOK
  <2>2. channel' \in [Node \X Node -> Seq(Seq(AMessage))]
    BY <1>0, <1>4, <1>6, <1>8 DEF CommTypeOK
  <2> QED
    BY <2>1, <2>2, <1>0, <1>6 DEF CommTypeOK
<1>10. \A link \in Node \X Node : channel'[link] = IF link = <<from, n>> THEN Tail(c) ELSE channel[link]
  BY <1>0, <1>6 DEF CommTypeOK
<1>11. \A f, t \in Node : channel'[<<f, t>>] = IF f = from /\ t = n THEN Tail(c) ELSE channel[<<f, t>>]
  BY <1>10
<1>12. AtItsSender'
  <2> SUFFICES ASSUME NEW o \in Node
               PROVE  /\ send_queue'[o] \in Seq(MessageOf(o))
                      /\ aggregate_messages'[o] \in [Node -> Seq(MessageOf(o))]
                      /\ \A t \in Node : channel'[<<o, t>>] \in Seq(Seq(MessageOf(o)))
    BY DEF AtItsSender
  <2>1. send_queue'[o] \in Seq(MessageOf(o)) /\ aggregate_messages'[o] \in [Node -> Seq(MessageOf(o))]
    BY <1>0, <1>6 DEF AtItsSender
  <2>2. \A t \in Node : channel'[<<o, t>>] \in Seq(Seq(MessageOf(o)))
    BY <1>0, <1>4, <1>11 DEF AtItsSender
  <2> QED
    BY <2>1, <2>2
<1>13. Numbered'
  BY <1>0, <1>6 DEF Numbered
<1>14. AggregateFits'
  <2>1. \A f, t \in Node : Len(aggregate_messages'[f][t]) < max_aggregate
    BY <1>0, <1>6 DEF AggregateFits
  <2>2. ASSUME NEW link \in Node \X Node, NEW i \in DOMAIN channel'[link]
        PROVE  Len(channel'[link][i]) <= max_aggregate
    <3>0. \A k \in DOMAIN channel[link] : Len(channel[link][k]) <= max_aggregate
      BY <1>0 DEF AggregateFits
    <3>1. CASE link # <<from, n>>
      BY <3>0, <3>1, <2>2, <1>10
    <3>2. CASE link = <<from, n>>
      <4>1. channel'[link] = Tail(c) /\ channel[link] = c
        BY <3>2, <1>1, <1>10
      <4>2. i \in 1 .. Len(c) - 1 /\ Tail(c)[i] = c[i + 1]
        BY <4>1, <2>2, <1>2
      <4>3. i + 1 \in DOMAIN c
        BY <4>2
      <4> QED
        BY <4>1, <4>2, <4>3, <3>0
    <3> QED
      BY <3>1, <3>2
  <2> QED
    BY <2>1, <2>2 DEF AggregateFits
<1>15. ASSUME NEW f \in Node, NEW t \in Node
       PROVE  InOrder(Boxes(f, t)', f, t, SentTo(f, t)')
  <2>1. SentTo(f, t)' = SentTo(f, t)
    BY <1>6 DEF SentTo
  <2>2. Boxes(f, t)' = Row(handled[t], receives'[t], channel'[<<f, t>>],
                           aggregate_messages[f][t], send_queue[f])
    BY <1>6 DEF Boxes, Row
  <2>3. InOrder(Row(handled[t], receives[t], channel[<<f, t>>],
                    aggregate_messages[f][t], send_queue[f]), f, t, SentTo(f, t))
    <3>1. InOrder(Boxes(f, t), f, t, SentTo(f, t))
      BY <1>0 DEF AllInOrder
    <3> QED
      BY <3>1 DEF Boxes, Row
  <2>4. receives'[t] = IF t = n THEN Append(receives[n], x) ELSE receives[t]
    BY <1>0, <1>6 DEF CommTypeOK
  <2>5. CASE t # n
    <3>1. channel'[<<f, t>>] = channel[<<f, t>>]
      BY <2>5, <1>11
    <3> QED
      BY <3>1, <2>1, <2>2, <2>3, <2>4, <2>5
  <2>6. CASE t = n
    <3>1. PICK h \in Seq(AMessage), r \in Seq(Seq(AMessage)), e \in Seq(Seq(AMessage)),
               a \in Seq(AMessage), s \in Seq(AMessage) :
             /\ h = handled[t] /\ r = receives[t] /\ e = channel[<<f, t>>]
             /\ a = aggregate_messages[f][t] /\ s = send_queue[f]
      BY <1>0 DEF CommTypeOK
    <3>2. receives'[t] = Append(r, x)
      BY <2>4, <2>6, <3>1
    <3>3. InOrder(Row(h, r, e, a, s), f, t, SentTo(f, t))
      BY <2>3, <3>1
    <3>4. CASE f = from
      <4>1. e = c /\ channel'[<<f, t>>] = Tail(c)
        BY <2>6, <3>1, <3>4, <1>1, <1>11
      <4>2. Row(h, Append(r, x), Tail(c), a, s) = Row(h, r, c, a, s)
        <5>1. Row(h, Append(r, Head(c)), Tail(c), a, s) = Row(h, r, c, a, s)
          BY <1>2, RowMatched
        <5> QED
          BY <5>1, <1>3
      <4>3. Boxes(f, t)' = Row(h, Append(r, x), Tail(c), a, s)
        BY <2>2, <3>1, <3>2, <4>1
      <4> QED
        BY <4>1, <4>2, <4>3, <3>3, <2>1
    <3>5. CASE f # from
      <4>1. \A k \in 1 .. Len(x) : x[k].from # f \/ x[k].to # t
        <5>1. \A k \in 1 .. Len(x) : x[k] \in MessageOf(from)
          OBVIOUS
        <5> QED
          BY <5>1, <3>5 DEF MessageOf
      <4>2. InOrder(Row(h, Append(r, x), e, a, s), f, t, SentTo(f, t))
        BY <4>1, <3>3, <1>4, RowReceived
      <4>3. channel'[<<f, t>>] = e
        BY <3>1, <3>5, <1>11
      <4> QED
        BY <4>2, <4>3, <3>1, <3>2, <2>1, <2>2
    <3> QED
      BY <3>4, <3>5
  <2> QED
    BY <2>5, <2>6
<1>16. AllInOrder'
  BY <1>15 DEF AllInOrder
<1> QED
  BY <1>9, <1>12, <1>13, <1>14, <1>16 DEF CommInv

LEMMA TestStep ==
    ASSUME CommInv, NEW n \in Node, NEW i \in DOMAIN receives[n], testReceiveRequests(n, i)
    PROVE  CommInv'
<1>0. CommTypeOK /\ AtItsSender /\ Numbered /\ AggregateFits /\ AllInOrder
  BY DEF CommInv
<1>1. PICK g \in Seq(AMessage), r \in Seq(Seq(AMessage)) : g = handled[n] /\ r = receives[n]
  BY <1>0 DEF CommTypeOK
<1>2. i \in 1 .. Len(r)
  BY <1>1
<1>3. /\ handled' = [handled EXCEPT ![n] = g \o r[i]]
      /\ receives' = [receives EXCEPT ![n] = Seqs!RemoveAt(r, i)]
      /\ UNCHANGED <<send_queue, aggregate_messages, channel, inserted>>
  BY <1>1 DEF testReceiveRequests
<1>4. ASSUME NEW f \in Node
      PROVE  /\ Seqs!RemoveAt(r, i) \in Seq(Seq(AMessage))
             /\ InOrder(Row(g \o r[i], Seqs!RemoveAt(r, i), channel[<<f, n>>],
                            aggregate_messages[f][n], send_queue[f]), f, n, SentTo(f, n))
  <2>1. PICK c \in Seq(Seq(AMessage)), a \in Seq(AMessage), s \in Seq(AMessage) :
           c = channel[<<f, n>>] /\ a = aggregate_messages[f][n] /\ s = send_queue[f]
    BY <1>0 DEF CommTypeOK
  <2>2. InOrder(Boxes(f, n), f, n, SentTo(f, n))
    BY <1>0 DEF AllInOrder
  <2>3. Boxes(f, n) = Row(g, r, c, a, s)
    BY <1>1, <2>1 DEF Boxes, Row
  <2>4. InOrder(Row(g, r, c, a, s), f, n, SentTo(f, n))
    BY <2>2, <2>3
  <2>5. /\ Seqs!RemoveAt(r, i) \in Seq(Seq(AMessage))
        /\ InOrder(Row(g \o r[i], Seqs!RemoveAt(r, i), c, a, s), f, n, SentTo(f, n))
    BY <2>4, <1>2, RowHandled
  <2> QED
    BY <2>1, <2>5
<1>5. g \o r[i] \in Seq(AMessage)
  <2>1. r[i] \in Seq(AMessage)
    BY <1>2
  <2> QED
    BY <2>1, ConcatProperties
<1>6. CommTypeOK'
  <2>1. Seqs!RemoveAt(r, i) \in Seq(Seq(AMessage))
    BY <1>4
  <2>2. receives' \in [Node -> Seq(Seq(AMessage))]
    BY <2>1, <1>0, <1>3 DEF CommTypeOK
  <2>3. handled' \in [Node -> Seq(AMessage)]
    BY <1>0, <1>3, <1>5 DEF CommTypeOK
  <2> QED
    BY <2>2, <2>3, <1>0, <1>3 DEF CommTypeOK
<1>7. AtItsSender'
  BY <1>0, <1>3 DEF AtItsSender
<1>8. Numbered'
  BY <1>0, <1>3 DEF Numbered
<1>9. AggregateFits'
  BY <1>0, <1>3 DEF AggregateFits
<1>10. ASSUME NEW f \in Node, NEW t \in Node
       PROVE  InOrder(Boxes(f, t)', f, t, SentTo(f, t)')
  <2>1. SentTo(f, t)' = SentTo(f, t)
    BY <1>3 DEF SentTo
  <2>2. Boxes(f, t)' = Row(handled'[t], receives'[t], channel[<<f, t>>],
                           aggregate_messages[f][t], send_queue[f])
    BY <1>3 DEF Boxes, Row
  <2>3. CASE t # n
    <3>1. handled'[t] = handled[t] /\ receives'[t] = receives[t]
      BY <2>3, <1>0, <1>3 DEF CommTypeOK
    <3>2. Boxes(f, t)' = Boxes(f, t)
      BY <2>2, <3>1 DEF Boxes, Row
    <3> QED
      BY <3>2, <2>1, <1>0 DEF AllInOrder
  <2>4. CASE t = n
    <3>1. handled'[n] = g \o r[i] /\ receives'[n] = Seqs!RemoveAt(r, i)
      BY <1>0, <1>3 DEF CommTypeOK
    <3> QED
      BY <3>1, <2>1, <2>2, <2>4, <1>4
  <2> QED
    BY <2>3, <2>4
<1>11. AllInOrder'
  BY <1>10 DEF AllInOrder
<1> QED
  BY <1>6, <1>7, <1>8, <1>9, <1>11 DEF CommInv

LEMMA CommNextInv ==
    ASSUME CommInv, [CommNext]_commVars
    PROVE  CommInv'
<1>1. CASE UNCHANGED commVars
  BY <1>1 DEF commVars, CommInv, CommTypeOK, AtItsSender, Numbered, AggregateFits, AllInOrder,
              Boxes, SentTo
<1>2. CASE CommNext
  <2>1. PICK n \in Node :
           \/ \E to \in Node : insertMessage(n, to, TRUE)
           \/ \E to \in Node : insertMessage(n, to, FALSE)
           \/ startSendRequests(n)
           \/ flushMessages(n)
           \/ \E from \in Node : startReceiveRequests(<<from, n>>)
           \/ \E i \in DOMAIN receives[n] : testReceiveRequests(n, i)
    BY <1>2 DEF CommNext
  <2>2. TRUE \in BOOLEAN /\ FALSE \in BOOLEAN
    OBVIOUS
  <2>3. CASE \E to \in Node : insertMessage(n, to, TRUE)
    BY <2>2, <2>3, InsertStep
  <2>4. CASE \E to \in Node : insertMessage(n, to, FALSE)
    BY <2>2, <2>4, InsertStep
  <2>5. CASE startSendRequests(n)
    BY <2>5, SendStep
  <2>6. CASE flushMessages(n)
    BY <2>6, FlushStep
  <2>7. CASE \E from \in Node : startReceiveRequests(<<from, n>>)
    BY <2>7, ReceiveStep
  <2>8. CASE \E i \in DOMAIN receives[n] : testReceiveRequests(n, i)
    BY <2>8, TestStep
  <2> QED
    BY <2>1, <2>3, <2>4, <2>5, <2>6, <2>7, <2>8
<1> QED
  BY <1>1, <1>2

(* The invariant says of places what NothingLostOrPassed says.             *)
LEMMA InOrderIsNothingLost ==
    ASSUME CommInv
    PROVE  NothingLostOrPassed
<1>1. ASSUME NEW from \in Node, NEW to \in Node
      PROVE  /\ {MessageAt(from, to, p) : p \in Places(from, to)}
                    = {m \in Seqs!ToSet(inserted[from]) : m.to = to}
             /\ \A p, q \in Places(from, to) :
                    MessageAt(from, to, p) = MessageAt(from, to, q) => p = q
             /\ \A p, q \in OnItsWay(from, to) :
                    (p[1] < q[1] \/ (p[1] = q[1] /\ p[2] < q[2]))
                        => MessageAt(from, to, p).no < MessageAt(from, to, q).no
  <2>1. PICK b : b = Boxes(from, to)
    OBVIOUS
  <2>2. InOrder(b, from, to, SentTo(from, to))
    BY <2>1 DEF CommInv, AllInOrder
  <2>3. b \in Seq(Seq(AMessage))
    <3>1. PICK h \in Seq(AMessage), r \in Seq(Seq(AMessage)), c \in Seq(Seq(AMessage)),
               a \in Seq(AMessage), s \in Seq(AMessage) :
             /\ h = handled[to] /\ r = receives[to] /\ c = channel[<<from, to>>]
             /\ a = aggregate_messages[from][to] /\ s = send_queue[from]
      BY DEF CommInv, CommTypeOK
    <3>2. Row(h, r, c, a, s) \in Seq(Seq(AMessage))
      BY RowFacts
    <3> QED
      BY <2>1, <3>1, <3>2 DEF Boxes, Row
  <2>4. ASSUME NEW p
        PROVE  p \in Places(from, to) <=>
                   \E i, k \in Nat : p = <<i, k>> /\ IsPlace(b, from, to, i, k)
    <3>1. DOMAIN b = 1 .. Len(b) /\ \A i \in 1 .. Len(b) : DOMAIN b[i] = 1 .. Len(b[i])
      BY <2>3
    <3>2. p \in Places(from, to) <=>
             /\ \E i \in DOMAIN b : p \in {i} \X DOMAIN b[i]
             /\ b[p[1]][p[2]].from = from /\ b[p[1]][p[2]].to = to
      BY <2>1 DEF Places
    <3>3. ASSUME p \in Places(from, to)
          PROVE  \E i, k \in Nat : p = <<i, k>> /\ IsPlace(b, from, to, i, k)
      <4>1. PICK i \in 1 .. Len(b) : p \in {i} \X DOMAIN b[i]
        BY <3>1, <3>2, <3>3
      <4>2. PICK k \in 1 .. Len(b[i]) : p = <<i, k>>
        BY <4>1, <3>1
      <4>3. p[1] = i /\ p[2] = k
        BY <4>2
      <4>4. IsPlace(b, from, to, i, k)
        BY <4>3, <3>2, <3>3 DEF IsPlace
      <4>5. i \in Nat /\ k \in Nat
        OBVIOUS
      <4> QED
        BY <4>2, <4>4, <4>5
    <3>4. ASSUME NEW i \in Nat, NEW k \in Nat, p = <<i, k>>, IsPlace(b, from, to, i, k)
          PROVE  p \in Places(from, to)
      <4>1. i \in DOMAIN b /\ k \in DOMAIN b[i] /\ p[1] = i /\ p[2] = k
        BY <3>1, <3>4 DEF IsPlace
      <4>2. p \in {i} \X DOMAIN b[i]
        BY <3>4, <4>1
      <4>3. b[i][k].from = from /\ b[i][k].to = to
        BY <3>4 DEF IsPlace
      <4> QED
        BY <3>2, <4>1, <4>2, <4>3
    <3> QED
      BY <3>3, <3>4
  <2>5. \A i, k \in Nat : MessageAt(from, to, <<i, k>>) = b[i][k]
    BY <2>1 DEF MessageAt
  <2>6. {MessageAt(from, to, p) : p \in Places(from, to)} = SentTo(from, to)
    <3>1. ASSUME NEW p \in Places(from, to) PROVE MessageAt(from, to, p) \in SentTo(from, to)
      <4>1. PICK i \in Nat, k \in Nat : p = <<i, k>> /\ IsPlace(b, from, to, i, k)
        BY <2>4
      <4>2. b[i][k] \in SentTo(from, to)
        BY <4>1, <2>2 DEF InOrder, AllPresent
      <4> QED
        BY <4>1, <4>2, <2>5
    <3>2. ASSUME NEW m \in SentTo(from, to)
          PROVE  \E p \in Places(from, to) : m = MessageAt(from, to, p)
      <4>1. PICK i \in Nat, k \in Nat : IsPlace(b, from, to, i, k) /\ b[i][k] = m
        BY <2>2 DEF InOrder, AllPresent
      <4>2. PICK p : p = <<i, k>>
        OBVIOUS
      <4>3. p \in Places(from, to)
        BY <2>4, <4>1, <4>2
      <4> QED
        BY <2>5, <4>1, <4>2, <4>3
    <3>3. \A m : m \in {MessageAt(from, to, p) : p \in Places(from, to)}
                    <=> \E p \in Places(from, to) : m = MessageAt(from, to, p)
      OBVIOUS
    <3>4. \A m : m \in {MessageAt(from, to, p) : p \in Places(from, to)} <=> m \in SentTo(from, to)
      BY <3>1, <3>2, <3>3, Zenon
    <3>5. PICK s, t : s = {MessageAt(from, to, p) : p \in Places(from, to)} /\ t = SentTo(from, to)
      OBVIOUS
    <3>6. \A m : m \in s <=> m \in t
      BY <3>4, <3>5
    <3>7. s = t
      BY <3>6
    <3> QED
      BY <3>5, <3>7
  <2>7. ASSUME NEW p \in Places(from, to), NEW q \in Places(from, to),
               MessageAt(from, to, p) = MessageAt(from, to, q)
        PROVE  p = q
    <3>1. PICK i \in Nat, k \in Nat : p = <<i, k>> /\ IsPlace(b, from, to, i, k)
      BY <2>4
    <3>2. PICK j \in Nat, l \in Nat : q = <<j, l>> /\ IsPlace(b, from, to, j, l)
      BY <2>4
    <3>3. b[i][k] = b[j][l]
      BY <2>5, <2>7, <3>1, <3>2
    <3>4. i = j /\ k = l
      BY <2>2, <3>1, <3>2, <3>3 DEF InOrder, NoneTwice
    <3> QED
      BY <3>1, <3>2, <3>4
  <2>8. ASSUME NEW p \in OnItsWay(from, to), NEW q \in OnItsWay(from, to),
               p[1] < q[1] \/ (p[1] = q[1] /\ p[2] < q[2])
        PROVE  MessageAt(from, to, p).no < MessageAt(from, to, q).no
    <3>0. p \in Places(from, to) /\ q \in Places(from, to) /\ p[1] > 1 /\ q[1] > 1
      BY DEF OnItsWay
    <3>1. PICK i \in Nat, k \in Nat : p = <<i, k>> /\ IsPlace(b, from, to, i, k)
      BY <2>4, <3>0
    <3>2. PICK j \in Nat, l \in Nat : q = <<j, l>> /\ IsPlace(b, from, to, j, l)
      BY <2>4, <3>0
    <3>3. p[1] = i /\ p[2] = k /\ q[1] = j /\ q[2] = l
      BY <3>1, <3>2
    <3>4. 1 < i /\ 1 < j /\ Ahead(i, k, j, l)
      BY <2>8, <3>0, <3>3 DEF Ahead
    <3>5. b[i][k].no < b[j][l].no
      BY <2>2, <3>1, <3>2, <3>4 DEF InOrder, NonePassed
    <3> QED
      BY <2>5, <3>1, <3>2, <3>5
  <2> QED
    BY <2>6, <2>7, <2>8 DEF SentTo
<1>2. NothingLost
  BY <1>1 DEF NothingLost
<1>3. NothingPassed
  BY <1>1 DEF NothingPassed
<1> QED
  BY <1>2, <1>3 DEF NothingLostOrPassed

LEMMA CommSpecInv == CommSpec => []CommInv
<1>1. CommInit => CommInv
  BY CommInitInv
<1>2. CommInv /\ [CommNext]_commVars => CommInv'
  BY CommNextInv
<1> QED
  BY <1>1, <1>2, PTL DEF CommSpec

(* For any number of nodes, any size of an aggregate and any interleaving, *)
(* with receives that complete in any order: a message inserted is in      *)
(* exactly one place or handled once, and none is passed by a later one of *)
(* its link before MPI completes its receive (insertMessage,               *)
(* startSendRequests, flushMessages, startReceiveRequests and              *)
(* testReceiveRequests).                                                   *)
THEOREM SpecNothingLostOrPassed == CommSpec => []NothingLostOrPassed
<1>1. CommInv => NothingLostOrPassed
  BY InOrderIsNothingLost
<1> QED
  BY <1>1, CommSpecInv, PTL

(* A packed aggregate fits the buffer that is sized for max_aggregate      *)
(* messages, whatever joins it.                                            *)
THEOREM SpecAggregateFits == CommSpec => []AggregateFits
<1>1. CommInv => AggregateFits
  BY DEF CommInv
<1> QED
  BY <1>1, CommSpecInv, PTL
=============================================================================
