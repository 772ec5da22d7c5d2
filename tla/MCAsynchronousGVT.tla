-------------------------- MODULE MCAsynchronousGVT --------------------------
(***************************************************************************)
(* Two instances of TimeWarpAsynchronousGVTManager, one of which each      *)
(* behaviour runs: a ring of three nodes, where the token and the colors   *)
(* matter, and one node with two workers and two schedule queues, where    *)
(* the flag and the minima do.                                             *)
(***************************************************************************)
EXTENDS Integers, FiniteSets

CONSTANTS Infinity, MaxRounds,
          RingSends, ThreadSends,   \* MaxSends of either instance
          Prompt, FifoNodes

VARIABLES shape,
          pending, queue, taken, transit, sends, node, gvt_state,
          started_global_gvt, started_local_gvt, local_gvt_flag, calculated,
          local_min, send_min, msg_count, global_min_clock, gVT, control,
          mpc, wpc, flag, toReport, rounds

Ring == INSTANCE TimeWarpAsynchronousGVTManager WITH
    NumNodes <- 3, NumWorkers <- 1, NumSchedulers <- 1, NumLPs <- 3,
    LpMigration <- FALSE,
    NodeOf <- [lp \in 1 .. 3 |-> lp - 1], QueueOf <- [lp \in 1 .. 3 |-> 0],
    InitialEvents <- [lp \in 1 .. 3 |-> IF lp = 3 THEN {1} ELSE {}],
    SendTimes <- {2}, MaxSends <- RingSends

Threads == INSTANCE TimeWarpAsynchronousGVTManager WITH
    NumNodes <- 1, NumWorkers <- 2, NumSchedulers <- 2, NumLPs <- 2,
    LpMigration <- FALSE,
    NodeOf <- [lp \in 1 .. 2 |-> 0], QueueOf <- [lp \in 1 .. 2 |-> lp - 1],
    InitialEvents <- [lp \in 1 .. 2 |-> {2 * lp - 1}],
    SendTimes <- {2, 3}, MaxSends <- ThreadSends

vars == <<shape, Ring!vars>>

Init == \/ shape = "ring" /\ Ring!Init
        \/ shape = "threads" /\ Threads!Init

(* Every action of either instance, one by one, so that TLC counts each; a *)
(* single node sends no message and no token.                              *)
InRing    == shape = "ring" /\ UNCHANGED shape
InThreads == shape = "threads" /\ UNCHANGED shape

RingStep ==
    \/ \E w \in Ring!Worker :
        \/ InRing /\ Ring!ReadFlag(w)
        \/ InRing /\ Ring!GetEvent(w)
        \/ InRing /\ Ring!reportThreadMin(w)
        \/ InRing /\ \E lp \in Ring!LP : Ring!SendLocal(w, lp, 2)
        \/ InRing /\ \E lp \in Ring!LP : Ring!SendRemote(w, lp, 2)
        \/ InRing /\ Ring!reportThreadSendMin(w)
        \/ InRing /\ Ring!ReplenishScheduler(w)
    \/ \E n \in Ring!Node :
        \/ InRing /\ Ring!BeginLocal(n)
        \/ InRing /\ Ring!StoreFlag(n)
        \/ InRing /\ Ring!FinishLocal(n)
        \/ InRing /\ \E from \in Ring!Node : Ring!NodeReceivesToken(n, from)
        \/ InRing /\ n = 0 /\ \E from \in Ring!Node : Ring!InitiatorReceivesToken(from)
        \/ InRing /\ Ring!receiveGVTUpdate(n)
    \/ InRing /\ \E m \in transit : Ring!ReceiveEvent(m)

ThreadWorkerStep(w) ==
    \/ InThreads /\ Threads!ReadFlag(w)
    \/ InThreads /\ Threads!GetEvent(w)
    \/ InThreads /\ Threads!reportThreadMin(w)
    \/ InThreads /\ \E lp \in Threads!LP, ts \in {2, 3} : Threads!SendLocal(w, lp, ts)
    \/ InThreads /\ Threads!reportThreadSendMin(w)
    \/ InThreads /\ Threads!ReplenishScheduler(w)

ThreadMasterStep ==
    \/ InThreads /\ Threads!BeginLocal(0)
    \/ InThreads /\ Threads!StoreFlag(0)
    \/ InThreads /\ Threads!FinishLocal(0)

Next == RingStep \/ ThreadMasterStep \/ \E w \in Threads!Worker : ThreadWorkerStep(w)

(* FairSpec of the single node.                                            *)
FairSpec ==
    /\ Init /\ [][Next]_vars
    /\ \A w \in Threads!Worker : WF_vars(ThreadWorkerStep(w))
    /\ WF_vars(ThreadMasterStep)

-----------------------------------------------------------------------------
(* The properties of TimeWarpAsynchronousGVTManager for either instance.   *)

(* Engine and manager keep the promises of GVTService; nodes that the      *)
(* instance lacks never get a GVT.                                         *)
Service == INSTANCE GVTService WITH
    Nodes <- Ring!Node,
    outstanding <- IF shape = "ring" THEN Ring!OutstandingTimes
                                     ELSE Threads!OutstandingTimes,
    gvt <- [n \in Ring!Node |-> IF n \in DOMAIN gVT THEN gVT[n] ELSE 0]
ImplementsGVTService == Service!Spec

(* The GVT an initiator has sent out is a lower bound where it has not     *)
(* arrived yet, either.                                                    *)
UpdateIsLowerBound == shape = "ring" => Ring!UpdateIsLowerBound

(* The local computation ends when the last worker has reported.           *)
FlagCountsWorkers == /\ shape = "ring" => Ring!FlagCountsWorkers
                     /\ shape = "threads" => Threads!FlagCountsWorkers

(* Between computations the nodes agree on color and counts.               *)
ColorsAgree == shape = "ring" => Ring!ColorsAgree

(* Every GVT computation of the single node ends.                          *)
ComputationEnds == shape = "threads" => Threads!ComputationEnds
=============================================================================
