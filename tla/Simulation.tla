----------------------------- MODULE Simulation -----------------------------
(***************************************************************************)
(* A simulation from its start to its restart (Simulation.cpp, with        *)
(* makeDispatcher of Configuration.cpp and the archive format of           *)
(* TimeWarpCheckpointManager.cpp): every process partitions the LPs,       *)
(* compares its settings with those of rank 0, runs its LPs and writes     *)
(* checkpoints until the job crashes; started anew with `restart' on, it   *)
(* reads its checkpoint file instead.                                      *)
(*                                                                         *)
(* Of an LP there is the number of events it has processed.  A process     *)
(* that throws takes the job down (mpirun).  The manager writes the LPs    *)
(* one after the other while the workers go on: they wait at the barrier   *)
(* of GVTSynchronizedCheckpointManager only when it has written all.       *)
(***************************************************************************)
EXTENDS RoundRobinPartitioner

CONSTANTS NumProcesses,
          LPCounts,         \* how many LPs the model may have
          Settings,         \* what a process's configuration file may say
          BlockSizes,       \* values of partitioning.blocksize
          MaxMovedLPs,      \* bound on the LPs that have processed events,
          MaxEvents,        \* and on the events of each
          MaxCheckpoints,   \* bound on the checkpoints of a process
          MaxCrashes        \* bound on the crashes of the job

(* partition() needs as many LPs as there are processes.                   *)
ASSUME ConstantsAssumption ==
    /\ NumProcesses \in Nat \ {0}
    /\ LPCounts \subseteq Nat /\ \A n \in LPCounts : n >= NumProcesses
    /\ BlockSizes \subseteq Nat

Process == 0 .. NumProcesses - 1

VARIABLES lps,          \* the vector the model passes
          settings,     \* of each process
          blocksize,    \* of each process
          pc,           \* where each process is
          own,          \* partitioned_lps[id]
          flattened,    \* the order in which the LPs are archived
          gathered,     \* calls of gatherUint64 in makeDispatcher so far
          mismatch,     \* invalid_string of rank 0 is not empty
          node_id_by_lp_name,   \* the LP map of each process
          state,        \* of the LPs a process runs
          file,         \* the checkpoint file of each process
          job,          \* "started", "restarting", or "aborted"
          checkpoints, crashes,
          archived      \* what the last checkpoint wrote: each LP, and the
                        \* state it had at that moment

setupVars == <<lps, settings, blocksize, own, flattened, gathered, mismatch, node_id_by_lp_name>>
vars == <<setupVars, pc, state, file, job, checkpoints, crashes, archived>>

LP == DOMAIN lps
LPsOf(seq)          == {seq[k] : k \in DOMAIN seq}
partitioned_lps(n)  == partition(lps, NumProcesses, blocksize[n])
LPMap(n) == LET parts == partitioned_lps(n)
            IN  [lp \in LP |-> CHOOSE p \in Process : lp \in LPsOf(parts[p])]

(* The schedulers' partitions one after the other: the order in which the  *)
(* LPs are archived.                                                       *)
flattened_lps(n) ==
    LET parts == partition(partitioned_lps(n)[n], settings[n].scheduler_count, blocksize[n])
        upTo[p \in 0 .. settings[n].scheduler_count] ==
            IF p = 0 THEN <<>> ELSE upTo[p - 1] \o parts[p - 1]
    IN  upTo[settings[n].scheduler_count]

NoState   == [lp \in {} |-> 0]
NoFile    == [header |-> FALSE, lps |-> <<>>]

Init ==
    /\ \E n \in LPCounts : lps = [k \in 1 .. n |-> k]
    /\ settings \in [Process -> Settings]
    /\ blocksize \in [Process -> BlockSizes]
    /\ pc = [n \in Process |-> "partition"]
    /\ own = [n \in Process |-> <<>>]
    /\ flattened = [n \in Process |-> <<>>]
    /\ gathered = [n \in Process |-> 0]
    /\ mismatch = FALSE
    /\ node_id_by_lp_name = [n \in Process |-> NoState]
    /\ state = [n \in Process |-> NoState]
    /\ file = [n \in Process |-> NoFile]
    /\ job = "started"
    /\ checkpoints = [n \in Process |-> 0] /\ crashes = 0
    /\ archived = [n \in Process |-> <<>>]

Goes(n, from, to) == pc[n] = from /\ pc' = [pc EXCEPT ![n] = to]
Up == job # "aborted"

-----------------------------------------------------------------------------
(* simulate().                                                             *)

(* The partition, which a restart computes as well; the local partition    *)
(* and the LP map.                                                         *)
Partition(n) ==
    /\ Up
    /\ Goes(n, "partition", IF job = "started" THEN "waitForAllProcesses" ELSE "restart")
    /\ own' = [own EXCEPT ![n] = partitioned_lps(n)[n]]
    /\ IF job = "started"
       THEN /\ flattened' = [flattened EXCEPT ![n] = flattened_lps(n)]
            /\ node_id_by_lp_name' = [node_id_by_lp_name EXCEPT ![n] = LPMap(n)]
       ELSE UNCHANGED <<flattened, node_id_by_lp_name>>
    /\ UNCHANGED <<lps, settings, blocksize, gathered, mismatch, state, file, job,
                   checkpoints, crashes, archived>>

(* A barrier of all processes.                                             *)
Barrier(from, to) ==
    /\ Up
    /\ \A n \in Process : pc[n] = from
    /\ pc' = [n \in Process |-> to]

waitForAllProcesses ==
    /\ Barrier("waitForAllProcesses", "makeDispatcher")
    /\ UNCHANGED <<setupVars, state, file, job, checkpoints, crashes, archived>>

(* What makeDispatcher gathers, in this order.  LP migration is compared   *)
(* only where it is off; state saving and cancellation have one value      *)
(* each, and the GVT method and the partitioning are not compared.         *)
Compared(s) ==
    IF s.lp_migration = "off"
    THEN <<s.max_sim_time, 1, s.worker_threads, s.scheduler_count, 1,
           0, s.state_period, 0, s.gvt_period>>
    ELSE <<s.max_sim_time, 1, s.worker_threads, s.scheduler_count,
           0, s.state_period, 0, s.gvt_period>>

(* Faulty Matches: the loop over the processes ends too early.             *)
MatchesAllButLast(k) ==
    \A n \in Process \ {NumProcesses - 1} : Compared(settings[n])[k] = Compared(settings[0])[k]

Matches(k) == \A n \in Process : Compared(settings[n])[k] = Compared(settings[0])[k]

(* checkTimeWarpConfigs: MPI_Gather returns at rank 0 when every process   *)
(* has made its call; the others do not wait.                              *)
checkTimeWarpConfigs(n) ==
    LET k == gathered[n] + 1
    IN  /\ Up /\ pc[n] = "makeDispatcher" /\ k <= Len(Compared(settings[n]))
        /\ n = 0 => \A p \in Process \ {0} : gathered[p] >= k
        /\ gathered' = [gathered EXCEPT ![n] = k]
        /\ mismatch' = (mismatch \/ (n = 0 /\ ~ Matches(k)))
        /\ UNCHANGED <<lps, settings, blocksize, own, flattened, node_id_by_lp_name, pc,
                       state, file, job, checkpoints, crashes, archived>>

(* Faulty DispatcherMade: rank 0 reports the mismatch and returns.         *)
ReturnsOnMismatch(n) ==
    /\ Up /\ gathered[n] = Len(Compared(settings[n]))
    /\ Goes(n, "makeDispatcher",
            IF n = 0 /\ mismatch THEN "returned"
            ELSE IF job = "started" THEN "initialize" ELSE "restoreLPs")
    /\ UNCHANGED <<setupVars, state, file, job, checkpoints, crashes, archived>>

(* "Configuration files do not match": only rank 0 throws.                 *)
DispatcherMade(n) ==
    /\ Up /\ pc[n] = "makeDispatcher" /\ gathered[n] = Len(Compared(settings[n]))
    /\ IF n = 0 /\ mismatch
       THEN job' = "aborted" /\ UNCHANGED pc
       ELSE /\ Goes(n, "makeDispatcher", IF job = "started" THEN "initialize" ELSE "restoreLPs")
            /\ UNCHANGED job
    /\ UNCHANGED <<setupVars, state, file, checkpoints, crashes, archived>>

(* initialize of the dispatcher: its barriers, and the LPs' first states.  *)
initialize ==
    /\ Barrier("initialize", "running")
    /\ state' = [n \in Process |-> [lp \in LPsOf(own[n]) |-> 0]]
    /\ UNCHANGED <<setupVars, file, job, checkpoints, crashes, archived>>

-----------------------------------------------------------------------------
(* The simulation runs, writes checkpoints, and crashes.                   *)

MovedLPs == UNION {{lp \in DOMAIN state[n] : state[n][lp] > 0} : n \in Process}

(* The workers do not wait for a checkpoint that is being written.         *)
ProcessEvent(n, lp) ==
    /\ Up /\ pc[n] \in {"running", "generateCheckpoint"}
    /\ lp \in DOMAIN state[n] /\ state[n][lp] < MaxEvents
    /\ Cardinality(MovedLPs \cup {lp}) <= MaxMovedLPs
    /\ state' = [state EXCEPT ![n][lp] = @ + 1]
    /\ UNCHANGED <<setupVars, pc, file, job, checkpoints, crashes, archived>>

(* generateCheckpoint opens the one file with ios_base::trunc and writes   *)
(* what it and the other managers archive ...                              *)
OpenFile(n) ==
    /\ Up /\ checkpoints[n] < MaxCheckpoints
    /\ Goes(n, "running", "generateCheckpoint")
    /\ file' = [file EXCEPT ![n] = [header |-> TRUE, lps |-> <<>>]]
    /\ archived' = [archived EXCEPT ![n] = <<>>]
    /\ UNCHANGED <<setupVars, state, job, checkpoints, crashes>>

(* ... then the LPs, each as it is when its turn comes ...                 *)
ArchiveLP(n) ==
    LET k  == Len(archived[n]) + 1
        lp == flattened[n][k]
    IN  /\ Up /\ pc[n] = "generateCheckpoint"
        /\ k <= Len(flattened[n])
        /\ file' = [file EXCEPT ![n].lps = Append(@, state[n][lp])]
        /\ archived' = [archived EXCEPT ![n] = Append(@, [lp |-> lp, events |-> state[n][lp]])]
        /\ UNCHANGED <<setupVars, pc, state, job, checkpoints, crashes>>

(* ... and, after the barrier with the workers, closes the file.           *)
CloseFile(n) ==
    /\ Up
    /\ Goes(n, "generateCheckpoint", "running")
    /\ Len(archived[n]) = Len(flattened[n])
    /\ checkpoints' = [checkpoints EXCEPT ![n] = @ + 1]
    /\ UNCHANGED <<setupVars, state, file, job, crashes, archived>>

(* Of a file that is not closed, any part of what was written may be on    *)
(* the disk.                                                               *)
LeftInFile(n) ==
    IF pc[n] # "generateCheckpoint" THEN {file[n]}
    ELSE {NoFile} \cup {[header |-> TRUE, lps |-> SubSeq(file[n].lps, 1, k)] :
                          k \in 0 .. Len(file[n].lps)}

(* All processes lose everything but their files; the user starts the job  *)
(* again with the same configuration files but `restart' on.               *)
CrashAndRestart ==
    /\ Up /\ crashes < MaxCrashes
    /\ crashes' = crashes + 1
    /\ file' \in {f \in [Process -> UNION {LeftInFile(n) : n \in Process}] :
                     \A n \in Process : f[n] \in LeftInFile(n)}
    /\ job' = "restarting"
    /\ pc' = [n \in Process |-> "partition"]
    /\ own' = [n \in Process |-> <<>>]
    /\ flattened' = [n \in Process |-> <<>>]
    /\ state' = [n \in Process |-> NoState]
    /\ node_id_by_lp_name' = [n \in Process |-> NoState]
    /\ gathered' = [n \in Process |-> 0]
    /\ mismatch' = FALSE
    /\ UNCHANGED <<lps, settings, blocksize, checkpoints, archived>>

-----------------------------------------------------------------------------
(* restart().                                                              *)

(* Cereal throws when the file is missing or ends too early.               *)
Abort == job' = "aborted" /\ UNCHANGED <<pc, state, node_id_by_lp_name>>

(* The configuration, which is the one in use, and the LP map.             *)
RestoreConfiguration(n) ==
    /\ Up /\ pc[n] = "restart"
    /\ IF file[n].header
       THEN /\ Goes(n, "restart", "makeDispatcher")
            /\ node_id_by_lp_name' = [node_id_by_lp_name EXCEPT ![n] = LPMap(n)]
            /\ UNCHANGED <<state, job>>
       ELSE Abort
    /\ UNCHANGED <<lps, settings, blocksize, own, flattened, gathered, mismatch, file,
                   checkpoints, crashes, archived>>

(* The LPs in the order in which simulate() has them; the names in the     *)
(* archive are not compared.                                               *)
PlaceOf(n, lp) == CHOOSE k \in DOMAIN own[n] : own[n][k] = lp
RestoredLPs(n) == [lp \in LPsOf(own[n]) |-> file[n].lps[PlaceOf(n, lp)]]

(* Faulty restoreLPs: at the end of a file that was cut off the remaining  *)
(* LPs keep their initial states.                                          *)
RestoreWhatIsThere(n) ==
    /\ Up
    /\ Goes(n, "restoreLPs", "restored")
    /\ LET found == 1 .. Len(file[n].lps)
       IN  state' = [state EXCEPT ![n] = [lp \in LPsOf(own[n]) |->
                        IF PlaceOf(n, lp) \in found THEN file[n].lps[PlaceOf(n, lp)] ELSE 0]]
    /\ UNCHANGED <<setupVars, file, job, checkpoints, crashes, archived>>

restoreLPs(n) ==
    /\ Up /\ pc[n] = "restoreLPs"
    /\ IF Len(file[n].lps) = Len(own[n])
       THEN /\ Goes(n, "restoreLPs", "restored")
            /\ state' = [state EXCEPT ![n] = RestoredLPs(n)]
            /\ UNCHANGED <<node_id_by_lp_name, job>>
       ELSE Abort
    /\ UNCHANGED <<lps, settings, blocksize, own, flattened, gathered, mismatch, file,
                   checkpoints, crashes, archived>>

(* The barrier of the dispatcher's restart; its main loop is compiled out. *)
Restarted ==
    /\ Barrier("restored", "restarted")
    /\ UNCHANGED <<setupVars, state, file, job, checkpoints, crashes, archived>>

SetUp(n) == \/ Partition(n)
            \/ waitForAllProcesses
            \/ checkTimeWarpConfigs(n)
            \/ DispatcherMade(n)
            \/ initialize
            \/ RestoreConfiguration(n)
            \/ restoreLPs(n)
            \/ Restarted

Run(n) == \/ \E lp \in LP : ProcessEvent(n, lp)
          \/ OpenFile(n)
          \/ ArchiveLP(n)
          \/ CloseFile(n)

Next == (\E n \in Process : SetUp(n) \/ Run(n)) \/ CrashAndRestart

Spec == Init /\ [][Next]_vars

(* The processes do not all stop by themselves, and a collective operation *)
(* that all have entered returns.                                          *)
FairSpec == Spec /\ WF_vars(\E n \in Process : SetUp(n))

-----------------------------------------------------------------------------
(* Properties.                                                             *)

IsUp(n) == pc[n] \in {"running", "generateCheckpoint", "restarted"}

SettingsAgree == \A n \in Process : Compared(settings[n]) = Compared(settings[0])

(* Every LP runs on one process, and every process sends its events there. *)
OneNodePerLP ==
    \A lp \in LP : \E p \in Process : \A n \in Process :
        node_id_by_lp_name[n][lp] = p /\ (lp \in DOMAIN state[n] <=> n = p)

(* Nothing compares the block sizes.                                       *)
BlockSizesAgree == \A n \in Process : blocksize[n] = blocksize[0]

(* A simulation runs only where all processes agree on the settings that   *)
(* matter to all of them ("Configuration files do not match") and, if they *)
(* have the same block size, on who has which LP.                          *)
SetUpAgrees ==
    (\E n \in Process : IsUp(n)) => SettingsAgree /\ (BlockSizesAgree => OneNodePerLP)

(* The local partition keeps the order of the LPs: nothing ensures it.     *)
OrderKept(n) == flattened_lps(n) = own[n]

(* However the job crashed and whatever was cut off: an LP that is up      *)
(* again has the state that the last checkpoint wrote at its place, that   *)
(* of itself where the local partition keeps the order.                    *)
RestartedIsArchived ==
    \A n \in Process : pc[n] = "restarted" =>
        \A lp \in LPsOf(own[n]) :
            LET k == PlaceOf(n, lp)
            IN  /\ k \in DOMAIN archived[n]
                /\ state[n][lp] = archived[n][k].events
                /\ OrderKept(n) => archived[n][k].lp = lp

(* Nobody waits for ever: whatever the settings, the job comes up or is    *)
(* taken down, unless rank 0 gathers more than another process sends.      *)
SetUpEnds ==
    []<>(\/ ~ Up
         \/ \A n \in Process : IsUp(n)
         \/ \E n \in Process : Len(Compared(settings[n])) < Len(Compared(settings[0])))
=============================================================================
