------------------- MODULE GVTSynchronizedCheckpointManager -------------------
(***************************************************************************)
(* Checkpoints (GVTSynchronizedCheckpointManager.cpp on top of             *)
(* TimeWarpCheckpointManager.cpp) with the loops that drive them: every    *)
(* `interval' GVT updates the master thread writes the archive, clears     *)
(* the request and waits at a barrier; a worker that sees the request at   *)
(* the end of an iteration of processEvents waits at the same barrier.     *)
(*                                                                         *)
(* Every worker has an LP of its own; of the engine's state there is the   *)
(* number of events in the LP's processed queue, which is part of the      *)
(* event set, and the number its state reflects.                           *)
(***************************************************************************)
EXTENDS Integers, FiniteSets

CONSTANTS NumWorkers,
          interval,         \* checkpointing.interval
          CountTillTermination,
          MaxEvents,        \* bound on the events of an LP
          MaxGVTs,          \* bound on the updates of the GVT
          MaxTime           \* (unsigned int)-1

(* What the theorems take of the constants.                                *)
Configured == /\ NumWorkers \in Nat /\ MaxTime \in Nat
              /\ interval \in 0 .. MaxTime /\ CountTillTermination \in Int

Worker == 0 .. NumWorkers - 1
Master == NumWorkers
Thread == Worker \cup {Master}

VARIABLES remaining, time_to_live, checkpointRequired,
          barrier,     \* threads waiting at gvt_coordinated_barrier
          terminate,   \* "NOT_TERMINATED", "PAUSED" or "NORMAL"
          pc,          \* where each thread is in its loop
          taken,       \* events a worker has taken
          state,       \* events the state of the LP reflects
          processed,   \* events in its processed queue
          archive,     \* what the archive being written, or written, has
          gvts,        \* GVT updates so far
          checkpoints  \* checkpoints completed

cpVars     == <<remaining, time_to_live, checkpointRequired>>
engineVars == <<taken, state, processed>>
vars == <<cpVars, barrier, terminate, pc, engineVars, archive, gvts, checkpoints>>

NoArchive == [processed |-> <<>>, state |-> <<>>]

Init == /\ remaining = interval
        /\ time_to_live = CountTillTermination
        /\ checkpointRequired = FALSE
        /\ barrier = {}
        /\ terminate = "NOT_TERMINATED"
        /\ pc = [t \in Thread |-> "loop"]
        /\ taken = [w \in Worker |-> 0]
        /\ state = [w \in Worker |-> 0]
        /\ processed = [w \in Worker |-> 0]
        /\ archive = NoArchive
        /\ gvts = 0
        /\ checkpoints = 0

Goto(t, from, to) == pc[t] = from /\ pc' = [pc EXCEPT ![t] = to]

-----------------------------------------------------------------------------
(* processEvents.                                                          *)

(* A positive event, an anti-message (the rest of the iteration, with      *)
(* blockIfNecessary, is skipped), or nothing.                              *)
GetEvent(w) ==
    /\ terminate = "NOT_TERMINATED" /\ taken[w] < MaxEvents
    /\ taken' = [taken EXCEPT ![w] = @ + 1]
    /\ Goto(w, "loop", "receiveEvent")
    /\ UNCHANGED <<cpVars, barrier, terminate, state, processed, archive, gvts, checkpoints>>

CancelEvent(w) ==
    /\ terminate = "NOT_TERMINATED" /\ taken[w] < MaxEvents /\ pc[w] = "loop"
    /\ taken' = [taken EXCEPT ![w] = @ + 1]
    /\ UNCHANGED <<cpVars, barrier, terminate, pc, state, processed, archive, gvts, checkpoints>>

Idle(w) ==
    /\ terminate = "NOT_TERMINATED" /\ taken[w] = MaxEvents
    /\ Goto(w, "loop", "blockIfNecessary")
    /\ UNCHANGED <<cpVars, barrier, terminate, engineVars, archive, gvts, checkpoints>>

ReceiveEvent(w) ==
    /\ Goto(w, "receiveEvent", "replenishScheduler")
    /\ state' = [state EXCEPT ![w] = @ + 1]
    /\ UNCHANGED <<cpVars, barrier, terminate, taken, processed, archive, gvts, checkpoints>>

ReplenishScheduler(w) ==
    /\ Goto(w, "replenishScheduler", "blockIfNecessary")
    /\ processed' = [processed EXCEPT ![w] = @ + 1]
    /\ UNCHANGED <<cpVars, barrier, terminate, taken, state, archive, gvts, checkpoints>>

blockIfNecessary(w) ==
    /\ Goto(w, "blockIfNecessary", IF checkpointRequired THEN "barrier" ELSE "loop")
    /\ UNCHANGED <<cpVars, barrier, terminate, engineVars, archive, gvts, checkpoints>>

Exit(t) ==
    /\ terminate # "NOT_TERMINATED"
    /\ Goto(t, "loop", "exited")
    /\ UNCHANGED <<cpVars, barrier, terminate, engineVars, archive, gvts, checkpoints>>

-----------------------------------------------------------------------------
(* The master thread.                                                      *)

(* gvtUpdated() and onGVT, once an iteration at most, also in the iteration *)
(* that has received a terminator.                                         *)
onGVT ==
    /\ gvts < MaxGVTs
    /\ terminate \in {"NOT_TERMINATED", "NORMAL"}
    /\ gvts' = gvts + 1
    /\ remaining' = (remaining - 1) % (MaxTime + 1)
    /\ checkpointRequired' = (checkpointRequired \/ remaining' = 0)
    /\ Goto(Master, "loop", "checkpointIfNecessary")
    /\ UNCHANGED <<time_to_live, barrier, terminate, engineVars, archive, checkpoints>>

checkpointIfNecessary ==
    /\ Goto(Master, "checkpointIfNecessary", IF checkpointRequired THEN "event_set" ELSE "loop")
    /\ archive' = IF checkpointRequired THEN NoArchive ELSE archive
    /\ UNCHANGED <<cpVars, barrier, terminate, engineVars, gvts, checkpoints>>

(* The event set is archived long before the LPs.                          *)
ArchiveEventSet ==
    /\ Goto(Master, "event_set", "lps")
    /\ archive' = [archive EXCEPT !.processed = processed]
    /\ UNCHANGED <<cpVars, barrier, terminate, engineVars, gvts, checkpoints>>

ArchiveLPs ==
    /\ Goto(Master, "lps", "doGenerateCheckpoint")
    /\ archive' = [archive EXCEPT !.state = state]
    /\ UNCHANGED <<cpVars, barrier, terminate, engineVars, gvts, checkpoints>>

(* The request is cleared before the master waits, whether or not every    *)
(* worker has seen it.                                                     *)
ClearRequest ==
    /\ remaining' = interval
    /\ checkpointRequired' = FALSE
    /\ time_to_live' = IF time_to_live > 0 THEN time_to_live - 1 ELSE time_to_live
    /\ Goto(Master, "doGenerateCheckpoint", "barrier")
    /\ UNCHANGED <<barrier, terminate, engineVars, archive, gvts, checkpoints>>

AtBarrier(t) ==
    /\ pc[t] = "barrier" /\ t \notin barrier
    /\ barrier' = barrier \cup {t}
    /\ UNCHANGED <<cpVars, terminate, pc, engineVars, archive, gvts, checkpoints>>

(* pthread_barrier_wait returns in all threads.                            *)
Released ==
    /\ Cardinality(barrier) = NumWorkers + 1
    /\ barrier' = {}
    /\ checkpoints' = checkpoints + 1
    /\ pc' = [t \in Thread |-> IF t \notin barrier THEN pc[t]
                              ELSE IF t = Master THEN "pauseIfDue" ELSE "loop"]
    /\ UNCHANGED <<cpVars, terminate, engineVars, archive, gvts>>

pause ==
    /\ terminate' = IF time_to_live = 0 THEN "PAUSED" ELSE terminate
    /\ Goto(Master, "pauseIfDue", "loop")
    /\ UNCHANGED <<cpVars, barrier, engineVars, archive, gvts, checkpoints>>

(* A terminator arrives in handleMessages; the iteration goes on.          *)
receiveTerminator ==
    /\ pc[Master] = "loop" /\ terminate = "NOT_TERMINATED"
    /\ \A w \in Worker : taken[w] = MaxEvents /\ state[w] = processed[w]
    /\ terminate' = "NORMAL"
    /\ UNCHANGED <<cpVars, barrier, pc, engineVars, archive, gvts, checkpoints>>

WorkerStep(w) == \/ GetEvent(w)
                 \/ CancelEvent(w)
                 \/ Idle(w)
                 \/ ReceiveEvent(w)
                 \/ ReplenishScheduler(w)
                 \/ blockIfNecessary(w)
                 \/ AtBarrier(w)
                 \/ Exit(w)

MasterStep == \/ onGVT
              \/ checkpointIfNecessary
              \/ ArchiveEventSet
              \/ ArchiveLPs
              \/ ClearRequest
              \/ AtBarrier(Master)
              \/ Released
              \/ pause
              \/ receiveTerminator
              \/ Exit(Master)

Next == MasterStep \/ \E w \in Worker : WorkerStep(w)

Spec == Init /\ [][Next]_vars

FairSpec == Spec /\ WF_vars(MasterStep) /\ \A w \in Worker : WF_vars(WorkerStep(w))

-----------------------------------------------------------------------------
(* Properties.                                                             *)

(* A completed archive is a state the engine was in between two events:    *)
(* the states of the LPs and the event set belong together.  It does not   *)
(* hold: the workers go on while the archive is written.                   *)
ArchiveIsConsistent == pc[Master] = "barrier" => archive.state = archive.processed

(* A worker that blocks for a checkpoint goes on only when the archive has *)
(* all its parts.                                                          *)
BlockedByCheckpoint ==
    [][\A w \in Worker : pc[w] = "barrier" /\ pc'[w] # "barrier" =>
           archive.processed # <<>> /\ archive.state # <<>>]_vars

(* Checkpoints are made at every interval-th GVT, and the simulation       *)
(* pauses with the one the configuration asks for.                         *)
CheckpointsCounted ==
    pc[Master] = "loop" =>
        /\ interval > 0 => checkpoints = gvts \div interval
        /\ terminate = "PAUSED" <=> checkpoints = CountTillTermination

(* A checkpoint that was begun is completed, and all threads end.  It does *)
(* not hold: a worker that passes blockIfNecessary after ClearRequest has  *)
(* missed the checkpoint, and the others wait for it at the barrier.       *)
AllExit == <>(\A t \in Thread : pc[t] = "exited")
=============================================================================
