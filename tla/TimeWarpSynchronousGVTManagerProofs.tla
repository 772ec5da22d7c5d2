---------------- MODULE TimeWarpSynchronousGVTManagerProofs ----------------
(***************************************************************************)
(* For any number of nodes, threads, LPs and messages: while a reduction   *)
(* runs no worker of any node takes a step of the event loop, a reduction  *)
(* of the white counts ends only when no white message is on its way, and  *)
(* what it returns is not after anything outstanding.  The manager thus    *)
(* keeps its side of GVTService.  The latter two are proved for one node   *)
(* in every timing; for several, the messages of one computation must have *)
(* arrived before the next begins (InTime).                                *)
(***************************************************************************)
EXTENDS TimeWarpSynchronousGVTManager, FiniteSetTheorems, WellFoundedInduction, TLAPS

LEMMA NatMinimum ==
    ASSUME NEW T \in SUBSET Nat, T # {}
    PROVE  \E m \in T : \A n \in T : m <= n
<1>1. PICK m \in T : \A n \in T : ~ (<<n, m>> \in OpToRel(<, Nat))
  BY NatLessThanWellFounded, WFMin
<1>2. \A n \in T : ~ (n < m)
  BY <1>1 DEF OpToRel
<1> QED
  BY <1>2

-----------------------------------------------------------------------------
(* The sum that the reduction forms: a fold over the nodes in some order.  *)

Some(s) == CHOOSE x \in s : TRUE
Sums(f, c, D) ==
    f = [s \in D |-> IF s = {} THEN 0 ELSE c[Some(s)] + f[s \ {Some(s)}]]

LEMMA TotalIsSum ==
    ASSUME NEW S
    PROVE  Total(S) = (CHOOSE f : Sums(f, white_msg_count, SUBSET S))[S]
  BY SMT DEF Total, Sets!MapThenSumSet, Sets!MapThenFoldSet, Sums, Some

(* Without one of them a set is smaller.                                   *)
LEMMA Smaller ==
    ASSUME NEW S, IsFiniteSet(S), NEW s \in SUBSET S
    PROVE  /\ IsFiniteSet(s) /\ Cardinality(s) \in Nat
           /\ s = {} <=> Cardinality(s) = 0
           /\ s # {} => /\ Some(s) \in s
                        /\ s \ {Some(s)} \in SUBSET S
                        /\ Cardinality(s \ {Some(s)}) = Cardinality(s) - 1
<1>1. IsFiniteSet(s) /\ Cardinality(s) \in Nat /\ (s = {} <=> Cardinality(s) = 0)
  BY FS_Subset, FS_CardinalityType, FS_EmptySet
<1>2. s # {} => Some(s) \in s
  BY DEF Some
<1>3. s # {} => Cardinality(s \ {Some(s)}) = Cardinality(s) - 1
  BY <1>1, <1>2, FS_RemoveElement
<1> QED
  BY <1>1, <1>2, <1>3

LEMMA SumExists ==
    ASSUME NEW S, IsFiniteSet(S), NEW c
    PROVE  \E f : Sums(f, c, SUBSET S)
<1> DEFINE D(k) == {s \in SUBSET S : Cardinality(s) <= k}
           T    == {k \in Nat : ~ \E f : Sums(f, c, D(k))}
<1>1. ASSUME T # {} PROVE FALSE
  <2>1. PICK m \in T : \A k \in T : m <= k
    BY <1>1, NatMinimum
  <2>2. CASE m = 0
    <3> DEFINE g == [s \in D(0) |-> 0]
    <3>1. ASSUME NEW s \in D(0) PROVE s = {}
      <4>1. s \in SUBSET S /\ Cardinality(s) \in Nat /\ Cardinality(s) <= 0
        BY Smaller
      <4>2. s = {} <=> Cardinality(s) = 0
        BY <4>1, Smaller
      <4> QED
        BY <4>1, <4>2
    <3>2. Sums(g, c, D(0))
      BY <3>1 DEF Sums
    <3> QED
      BY <2>1, <2>2, <3>2
  <2>3. CASE m # 0
    <3>1. PICK k \in Nat : m = k + 1 /\ k \notin T
      <4>1. m - 1 \in Nat /\ m = (m - 1) + 1 /\ m - 1 \notin T
        BY <2>1, <2>3
      <4> QED
        BY <4>1
    <3>2. PICK f : Sums(f, c, D(k))
      BY <3>1
    <3> DEFINE g == [s \in D(m) |-> IF s = {} THEN 0 ELSE c[Some(s)] + f[s \ {Some(s)}]]
    <3>3. ASSUME NEW s \in D(k) PROVE s \in D(m) /\ g[s] = f[s]
      <4>0. s \in SUBSET S /\ Cardinality(s) \in Nat /\ Cardinality(s) <= k
        BY Smaller
      <4>1. s \in D(m)
        BY <3>1, <4>0
      <4>2. f[s] = IF s = {} THEN 0 ELSE c[Some(s)] + f[s \ {Some(s)}]
        BY <3>2 DEF Sums
      <4> QED
        BY <4>1, <4>2
    <3>4. ASSUME NEW s \in D(m), s # {} PROVE s \ {Some(s)} \in D(k)
      BY <3>1, <3>4, Smaller
    <3>5. Sums(g, c, D(m))
      BY <3>3, <3>4 DEF Sums
    <3> QED
      BY <2>1, <3>5
  <2> QED
    BY <2>2, <2>3
<1>2. Cardinality(S) \in Nat /\ D(Cardinality(S)) = SUBSET S
  <2>1. \A s \in SUBSET S : Cardinality(s) <= Cardinality(S)
    BY FS_Subset
  <2> QED
    BY <2>1, FS_CardinalityType
<1> QED
  BY <1>1, <1>2

(* When one addend changes by d, the sums it is part of do.                *)
ChangesBy(S, c, b, n, d) ==
    /\ c \in [S -> Int] /\ b \in [S -> Int] /\ n \in S /\ d \in Int
    /\ b[n] = c[n] + d
    /\ \A k \in S \ {n} : b[k] = c[k]

LEMMA SumChanges ==
    ASSUME NEW S, IsFiniteSet(S), NEW c, NEW b, NEW n, NEW d, ChangesBy(S, c, b, n, d),
           NEW f, Sums(f, c, SUBSET S), NEW g, Sums(g, b, SUBSET S)
    PROVE  f[S] \in Int /\ g[S] = f[S] + d
<1> DEFINE OK(s) == f[s] \in Int /\ g[s] = f[s] + (IF n \in s THEN d ELSE 0)
           Bad   == {s \in SUBSET S : ~ OK(s)}
<1>1. ASSUME Bad # {} PROVE FALSE
  <2> DEFINE T == {Cardinality(s) : s \in Bad}
  <2>0. \A s \in Bad : Cardinality(s) \in Nat
    BY Smaller
  <2>1. T \in SUBSET Nat /\ T # {}
    <3> HIDE DEF Bad
    <3> QED
      BY <1>1, <2>0
  <2>2. PICK m \in T : \A k \in T : m <= k
    BY <2>1, NatMinimum
  <2>3. PICK s \in Bad : \A r \in Bad : Cardinality(s) <= Cardinality(r)
    BY <2>2
  <2>4. CASE s = {}
    <3>1. f[s] = 0 /\ g[s] = 0
      BY <2>4 DEF Sums
    <3> QED
      BY <2>3, <2>4, <3>1
  <2>5. CASE s # {}
    <3> DEFINE x == Some(s)
               r == s \ {x}
    <3>1. x \in s /\ r \in SUBSET S /\ Cardinality(r) = Cardinality(s) - 1 /\ Cardinality(s) \in Nat
      BY <2>5, Smaller
    <3>2. OK(r)
      BY <2>3, <3>1
    <3>3. f[s] = c[x] + f[r] /\ g[s] = b[x] + g[r]
      BY <2>5, <3>1 DEF Sums
    <3>4. c[x] \in Int /\ b[x] = c[x] + (IF x = n THEN d ELSE 0) /\ d \in Int
      BY <3>1 DEF ChangesBy
    <3>5. (n \in s) <=> (n \in r \/ x = n)
      BY <3>1
    <3>6. x \notin r
      OBVIOUS
    <3> HIDE DEF x, r
    <3>7. OK(s)
      BY <3>2, <3>3, <3>4, <3>5, <3>6
    <3> QED
      BY <2>3, <3>7
  <2> QED
    BY <2>4, <2>5
<1>2. n \in S
  BY DEF ChangesBy
<1> QED
  BY <1>1, <1>2

(* The sum of zeros.                                                       *)
LEMMA SumOfZeros ==
    ASSUME NEW S, IsFiniteSet(S), NEW f, Sums(f, [n \in S |-> 0], SUBSET S)
    PROVE  f[S] = 0
<1> DEFINE c == [n \in S |-> 0]
           Bad == {s \in SUBSET S : f[s] # 0}
<1>1. ASSUME Bad # {} PROVE FALSE
  <2> DEFINE T == {Cardinality(s) : s \in Bad}
  <2>0. \A s \in Bad : Cardinality(s) \in Nat
    BY Smaller
  <2>1. T \in SUBSET Nat /\ T # {}
    <3> HIDE DEF Bad
    <3> QED
      BY <1>1, <2>0
  <2>2. PICK m \in T : \A k \in T : m <= k
    BY <2>1, NatMinimum
  <2>3. PICK s \in Bad : \A r \in Bad : Cardinality(s) <= Cardinality(r)
    BY <2>2
  <2>4. CASE s = {}
    BY <2>3, <2>4 DEF Sums
  <2>5. CASE s # {}
    <3> DEFINE x == Some(s)
               r == s \ {x}
    <3>1. x \in s /\ r \in SUBSET S /\ Cardinality(r) = Cardinality(s) - 1 /\ Cardinality(s) \in Nat
      BY <2>5, Smaller
    <3>2. f[r] = 0
      BY <2>3, <3>1
    <3>3. f[s] = c[x] + f[r]
      BY <2>5, <3>1 DEF Sums
    <3> QED
      BY <2>3, <3>1, <3>2, <3>3
  <2> QED
    BY <2>4, <2>5
<1> QED
  BY <1>1

-----------------------------------------------------------------------------
(* The barriers.                                                           *)

(* The nodes that have begun a computation that is not reduced yet, those  *)
(* whose workers stand still, and those whose flag is up.                  *)
Computing(n) ==
    mpc[n] \in {"storeFlag", "barrier1", "flushMessages", "sumAllReduce", "minAllReduce"}
Stopped(n) == mpc[n] \in {"flushMessages", "sumAllReduce", "minAllReduce", "reset", "barrier2"}
Raised(n)  == mpc[n] \in {"barrier1", "flushMessages", "sumAllReduce", "minAllReduce", "reset"}

Reads == {"getEvent", "report"}

MasterPlaces == {"handleMessages", "top", "exited", "storeFlag", "barrier1",
                 "flushMessages", "sumAllReduce", "minAllReduce", "reset", "barrier2"}
WorkerPlaces == {"top", "getEvent", "report", "process", "reportSend", "barrier1", "barrier2",
                 "exited"}

Places ==
    /\ mpc \in [Node -> MasterPlaces]
    /\ wpc \in [Worker -> WorkerPlaces]
    /\ flag \in [Worker -> Nat]
    /\ local_gvt_flag \in [Node -> Nat]
    /\ color_ \in [Node -> {WHITE, RED}]

(* Only while the master waits at the first barrier is a worker there or   *)
(* about to go there.                                                      *)
NodeInv(n) ==
    /\ Stopped(n) => \A w \in NodeWorkers(n) : wpc[w] = "barrier2"
    /\ ~ Stopped(n) => \A w \in NodeWorkers(n) : wpc[w] # "barrier2"
    /\ mpc[n] # "barrier1" =>
           \A w \in NodeWorkers(n) : wpc[w] # "barrier1" /\ (wpc[w] \in Reads => flag[w] = 0)
    /\ local_gvt_flag[n] > 0 <=> Raised(n)
    /\ color_[n] = RED <=> Computing(n) \/ mpc[n] = "reset"

BarrierInv == Places /\ \A n \in Node : NodeInv(n)

barrierVars == <<mpc, wpc, flag, local_gvt_flag, color_>>

LEMMA OwnNode ==
    ASSUME NEW w \in Worker
    PROVE  w[1] \in Node /\ w \in NodeWorkers(w[1])
  BY DEF Worker, NodeWorkers

LEMMA NodeWorker ==
    ASSUME NEW n \in Node, NEW w \in NodeWorkers(n)
    PROVE  w \in Worker /\ w[1] = n
  BY DEF NodeWorkers

LEMMA AfterReportIs ==
    ASSUME NEW w
    PROVE  AfterReport(w) \in {"top", "process"}
  BY DEF AfterReport

LEMMA BarrierInit == Init => BarrierInv
<1> SUFFICES ASSUME Init PROVE BarrierInv
  OBVIOUS
<1>1. Places
  BY DEF Init, Places, MasterPlaces, WorkerPlaces, WHITE, RED
<1>2. ASSUME NEW n \in Node PROVE NodeInv(n)
  BY NodeWorker DEF Init, NodeInv, Stopped, Raised, Computing, Reads, WHITE, RED
<1> QED
  BY <1>1, <1>2 DEF BarrierInv

(* What does not concern a node leaves it as it was.                       *)
LEMMA OtherNode ==
    ASSUME NEW n \in Node, NodeInv(n),
           mpc'[n] = mpc[n], local_gvt_flag'[n] = local_gvt_flag[n], color_'[n] = color_[n],
           \A w \in NodeWorkers(n) : wpc'[w] = wpc[w] /\ flag'[w] = flag[w]
    PROVE  NodeInv(n)'
<1>1. NodeWorkers(n)' = NodeWorkers(n)
  BY DEF NodeWorkers, Worker, Node
<1> QED
  BY <1>1 DEF NodeInv, Stopped, Raised, Computing

LEMMA SameBarriers ==
    ASSUME BarrierInv, UNCHANGED barrierVars
    PROVE  BarrierInv'
<1>1. Places'
  BY DEF BarrierInv, Places, MasterPlaces, WorkerPlaces, barrierVars
<1>2. ASSUME NEW n \in Node PROVE NodeInv(n)'
  BY OtherNode DEF BarrierInv, barrierVars
<1> QED
  BY <1>1, <1>2 DEF BarrierInv

(* A worker moves on.                                                      *)
LEMMA OneMoves ==
    ASSUME NEW n \in Node, NodeInv(n), NEW w \in NodeWorkers(n),
           NEW pc \in {"top", "getEvent", "report", "process", "reportSend", "barrier1", "exited"},
           wpc[w] \notin {"barrier1", "barrier2"}, wpc'[w] = pc,
           local_gvt_flag[n] \in Nat,
           \/ flag'[w] = flag[w] /\ (pc \in Reads => wpc[w] \in Reads)
           \/ flag'[w] = local_gvt_flag[n] /\ pc # "barrier1",
           pc = "barrier1" => wpc[w] \in Reads /\ flag[w] > 0,
           \A v \in NodeWorkers(n) \ {w} : wpc'[v] = wpc[v] /\ flag'[v] = flag[v],
           flag[w] \in Nat,
           mpc'[n] = mpc[n], local_gvt_flag'[n] = local_gvt_flag[n], color_'[n] = color_[n]
    PROVE  NodeInv(n)'
<1>0. mpc[n] # "barrier1" =>
          \A v \in NodeWorkers(n) : wpc[v] # "barrier1" /\ (wpc[v] \in Reads => flag[v] = 0)
  BY DEF NodeInv
<1>1. ~ Stopped(n)
  BY DEF NodeInv
<1>2. /\ Stopped(n)' = Stopped(n) /\ Raised(n)' = Raised(n) /\ Computing(n)' = Computing(n)
      /\ NodeWorkers(n)' = NodeWorkers(n)
  BY DEF Stopped, Raised, Computing, NodeWorkers
<1>3. mpc[n] # "barrier1" => local_gvt_flag[n] = 0
  BY <1>1 DEF NodeInv, Raised, Stopped
<1>4. mpc[n] # "barrier1" => pc # "barrier1" /\ (pc \in Reads => flag'[w] = 0)
  BY <1>3 DEF NodeInv
<1>5. \A v \in NodeWorkers(n) : wpc'[v] # "barrier2"
  BY <1>1 DEF NodeInv
<1>6. mpc[n] # "barrier1" =>
          \A v \in NodeWorkers(n) : wpc'[v] # "barrier1" /\ (wpc'[v] \in Reads => flag'[v] = 0)
  <2> SUFFICES ASSUME mpc[n] # "barrier1", NEW v \in NodeWorkers(n)
               PROVE  wpc'[v] # "barrier1" /\ (wpc'[v] \in Reads => flag'[v] = 0)
    OBVIOUS
  <2>1. CASE v = w
    BY <1>4, <2>1
  <2>2. CASE v # w
    <3>1. wpc'[v] = wpc[v] /\ flag'[v] = flag[v]
      BY <2>2
    <3>2. wpc[v] # "barrier1" /\ (wpc[v] \in Reads => flag[v] = 0)
      BY <1>0
    <3> QED
      BY <3>1, <3>2
  <2> QED
    BY <2>1, <2>2
<1> QED
  BY <1>1, <1>2, <1>5, <1>6 DEF NodeInv

LEMMA Moves ==
    ASSUME BarrierInv, NEW w \in Worker,
           NEW pc \in {"top", "getEvent", "report", "process", "reportSend", "barrier1", "exited"},
           wpc' = [wpc EXCEPT ![w] = pc],
           wpc[w] \notin {"barrier1", "barrier2"},
           \/ flag' = flag /\ (pc \in Reads => wpc[w] \in Reads)
           \/ flag' = [flag EXCEPT ![w] = local_gvt_flag[w[1]]] /\ pc # "barrier1",
           pc = "barrier1" => wpc[w] \in Reads /\ flag[w] > 0,
           UNCHANGED <<mpc, local_gvt_flag, color_>>
    PROVE  BarrierInv'
<1>1. w[1] \in Node /\ w \in NodeWorkers(w[1])
  BY OwnNode
<1>2. Places'
  BY <1>1 DEF BarrierInv, Places, MasterPlaces, WorkerPlaces
<1>3. /\ \A v \in Worker \ {w} : wpc'[v] = wpc[v] /\ flag'[v] = flag[v]
      /\ wpc'[w] = pc
      /\ \/ flag'[w] = flag[w] /\ (pc \in Reads => wpc[w] \in Reads)
         \/ flag'[w] = local_gvt_flag[w[1]] /\ pc # "barrier1"
      /\ flag[w] \in Nat /\ local_gvt_flag[w[1]] \in Nat
  BY <1>1 DEF BarrierInv, Places, MasterPlaces, WorkerPlaces
<1>4. ASSUME NEW n \in Node, n # w[1] PROVE NodeInv(n)'
  <2>1. \A v \in NodeWorkers(n) : v \in Worker \ {w}
    BY <1>4, NodeWorker
  <2> QED
    BY <1>3, <2>1, OtherNode DEF BarrierInv
<1>5. NodeInv(w[1])'
  <2>1. \A v \in NodeWorkers(w[1]) \ {w} : v \in Worker \ {w}
    BY <1>1, NodeWorker
  <2>2. NodeInv(w[1])
    BY <1>1 DEF BarrierInv
  <2> QED
    BY <1>1, <1>3, <2>1, <2>2, OneMoves
<1> QED
  BY <1>2, <1>4, <1>5 DEF BarrierInv

LEMMA WorkerBarriers ==
    ASSUME BarrierInv, NEW w \in Worker, WorkerStep(w)
    PROVE  BarrierInv'
<1>1. CASE Top(w)
  <2>1. CASE terminate[w[1]]
    <3>1. /\ wpc[w] = "top" /\ wpc' = [wpc EXCEPT ![w] = "exited"]
          /\ UNCHANGED <<flag, mpc, local_gvt_flag, color_>>
      BY <1>1, <2>1 DEF Top, Goes, gvtVars
    <3> QED
      BY <3>1, Moves DEF Reads
  <2>2. CASE ~ terminate[w[1]]
    <3>1. /\ wpc[w] = "top" /\ wpc' = [wpc EXCEPT ![w] = "getEvent"]
          /\ flag' = [flag EXCEPT ![w] = local_gvt_flag[w[1]]]
          /\ UNCHANGED <<mpc, local_gvt_flag, color_>>
      BY <1>1, <2>2 DEF Top, Goes, gvtVars
    <3> QED
      BY <3>1, Moves
  <2> QED
    BY <2>1, <2>2
<1>2. CASE GetEvent(w)
  <2>1. /\ wpc[w] = "getEvent" /\ wpc' = [wpc EXCEPT ![w] = "report"]
        /\ UNCHANGED <<flag, mpc, local_gvt_flag, color_>>
    BY <1>2 DEF GetEvent, Goes, gvtVars
  <2> QED
    BY <2>1, Moves DEF Reads
<1>3. CASE reportThreadMin(w)
  <2>1. CASE flag[w] > 0
    <3>1. /\ wpc[w] = "report" /\ wpc' = [wpc EXCEPT ![w] = "barrier1"]
          /\ UNCHANGED <<flag, mpc, local_gvt_flag, color_>>
      BY <1>3, <2>1 DEF reportThreadMin, Goes
    <3> QED
      BY <2>1, <3>1, Moves DEF Reads
  <2>2. CASE ~ (flag[w] > 0)
    <3>1. PICK pc \in {"top", "process"} : pc = AfterReport(w)
      BY AfterReportIs
    <3>2. /\ wpc[w] = "report" /\ wpc' = [wpc EXCEPT ![w] = pc]
          /\ UNCHANGED <<flag, mpc, local_gvt_flag, color_>>
      BY <1>3, <2>2, <3>1 DEF reportThreadMin, Goes
    <3> QED
      BY <3>1, <3>2, Moves DEF Reads
  <2> QED
    BY <2>1, <2>2
<1>4. ASSUME NEW lp \in LP, NEW ts \in SendTimes, SendLocal(w, lp, ts) \/ SendRemote(w, lp, ts)
      PROVE  BarrierInv'
  <2>1. /\ wpc[w] = "process" /\ wpc' = [wpc EXCEPT ![w] = "reportSend"]
        /\ UNCHANGED <<flag, mpc, local_gvt_flag, color_>>
    BY <1>4 DEF SendLocal, SendRemote, Goes, gvtVars
  <2> QED
    BY <2>1, Moves DEF Reads
<1>5. CASE reportThreadSendMin(w)
  <2>1. /\ wpc[w] = "reportSend" /\ wpc' = [wpc EXCEPT ![w] = "process"]
        /\ UNCHANGED <<flag, mpc, local_gvt_flag, color_>>
    BY <1>5 DEF reportThreadSendMin, Goes
  <2> QED
    BY <2>1, Moves DEF Reads
<1>6. CASE ReplenishScheduler(w)
  <2>1. /\ wpc[w] = "process" /\ wpc' = [wpc EXCEPT ![w] = "top"]
        /\ UNCHANGED <<flag, mpc, local_gvt_flag, color_>>
    BY <1>6 DEF ReplenishScheduler, Goes, gvtVars
  <2> QED
    BY <2>1, Moves DEF Reads
<1> QED
  BY <1>1, <1>2, <1>3, <1>4, <1>5, <1>6 DEF WorkerStep

(* What a master does at its own node alone.                               *)
LEMMA MasterMoves ==
    ASSUME BarrierInv, NEW n \in Node, NodeInv(n)', Places',
           \A k \in Node \ {n} : /\ mpc'[k] = mpc[k]
                                 /\ local_gvt_flag'[k] = local_gvt_flag[k]
                                 /\ color_'[k] = color_[k],
           \A w \in Worker : w[1] # n => wpc'[w] = wpc[w],
           flag' = flag
    PROVE  BarrierInv'
<1>1. ASSUME NEW k \in Node, k # n PROVE NodeInv(k)'
  <2>1. \A w \in NodeWorkers(k) : wpc'[w] = wpc[w] /\ flag'[w] = flag[w]
    BY <1>1, NodeWorker
  <2> QED
    BY <1>1, <2>1, OtherNode DEF BarrierInv
<1> QED
  BY <1>1 DEF BarrierInv

LEMMA MasterBarriers ==
    ASSUME BarrierInv, NEW n \in Node, MasterStep(n)
    PROVE  BarrierInv'
<1> DEFINE others == \A k \in Node \ {n} :
                         /\ mpc'[k] = mpc[k]
                         /\ local_gvt_flag'[k] = local_gvt_flag[k]
                         /\ color_'[k] = color_[k]
<1>0. /\ NodeInv(n) /\ NodeWorkers(n)' = NodeWorkers(n)
      /\ \A w \in NodeWorkers(n) : w \in Worker /\ w[1] = n
  BY NodeWorker DEF BarrierInv, NodeWorkers
<1>1. CASE ReceiveTerminator(n)
  BY <1>1, SameBarriers DEF ReceiveTerminator, barrierVars, gvtVars, workerVars
<1>2. ASSUME NEW l \in {"top", "handleMessages", "exited"}, mpc[n] \in {"top", "handleMessages"},
             mpc' = [mpc EXCEPT ![n] = l],
             UNCHANGED <<wpc, flag, local_gvt_flag, color_>>
      PROVE  BarrierInv'
  <2>1. Places' /\ others /\ mpc'[n] = l
    BY <1>2 DEF BarrierInv, Places, MasterPlaces, WorkerPlaces
  <2>2. NodeInv(n)'
    BY <1>0, <1>2, <2>1 DEF NodeInv, Stopped, Raised, Computing
  <2> QED
    BY <1>2, <2>1, <2>2, MasterMoves
<1>3. CASE NotReady(n)
  BY <1>2, <1>3 DEF NotReady, MasterAt, MasterGoes, gvtVars, workerVars
<1>4. CASE LoopTop(n)
  BY <1>2, <1>4 DEF LoopTop, MasterAt, MasterGoes, gvtVars, workerVars
<1>5. CASE BeginGVT(n)
  <2>1. /\ mpc[n] = "handleMessages" /\ mpc' = [mpc EXCEPT ![n] = "storeFlag"]
        /\ color_' = [color_ EXCEPT ![n] = RED]
        /\ UNCHANGED <<wpc, flag, local_gvt_flag>>
    BY <1>5 DEF BeginGVT, MasterAt, MasterGoes, workerVars
  <2>2. Places' /\ others /\ mpc'[n] = "storeFlag" /\ color_'[n] = RED
    BY <2>1 DEF BarrierInv, Places, MasterPlaces, WorkerPlaces
  <2>3. NodeInv(n)'
    BY <1>0, <2>1, <2>2 DEF NodeInv, Stopped, Raised, Computing
  <2> QED
    BY <2>1, <2>2, <2>3, MasterMoves
<1>6. CASE StoreFlag(n)
  <2>1. /\ mpc[n] = "storeFlag" /\ mpc' = [mpc EXCEPT ![n] = "barrier1"]
        /\ local_gvt_flag' = [local_gvt_flag EXCEPT ![n] = 1]
        /\ UNCHANGED <<wpc, flag, color_>>
    BY <1>6 DEF StoreFlag, MasterAt, MasterGoes, workerVars
  <2>2. Places' /\ others /\ mpc'[n] = "barrier1" /\ local_gvt_flag'[n] = 1
    BY <2>1 DEF BarrierInv, Places, MasterPlaces, WorkerPlaces
  <2>3. NodeInv(n)'
    BY <1>0, <2>1, <2>2 DEF NodeInv, Stopped, Raised, Computing
  <2> QED
    BY <2>1, <2>2, <2>3, MasterMoves
<1>7. CASE Barrier1(n)
  <2>1. /\ mpc[n] = "barrier1" /\ mpc' = [mpc EXCEPT ![n] = "flushMessages"]
        /\ wpc' = [w \in Worker |-> IF w[1] = n THEN "barrier2" ELSE wpc[w]]
        /\ UNCHANGED <<flag, color_, local_gvt_flag>>
    BY <1>7 DEF Barrier1, MasterAt, MasterGoes, gvtVars
  <2>2. Places' /\ others /\ mpc'[n] = "flushMessages"
    BY <2>1 DEF BarrierInv, Places, MasterPlaces, WorkerPlaces
  <2>3. \A w \in NodeWorkers(n) : wpc'[w] = "barrier2"
    BY <1>0, <2>1
  <2>4. NodeInv(n)'
    BY <1>0, <2>1, <2>2, <2>3 DEF NodeInv, Stopped, Raised, Computing, Reads
  <2> QED
    BY <2>1, <2>2, <2>4, MasterMoves
<1>8. CASE ReduceCount(n)
  <2>1. /\ mpc[n] = "flushMessages" /\ mpc' = [mpc EXCEPT ![n] = "sumAllReduce"]
        /\ UNCHANGED <<wpc, flag, color_, local_gvt_flag>>
    BY <1>8 DEF ReduceCount, MasterAt, MasterGoes, gvtVars, workerVars
  <2>2. Places' /\ others /\ mpc'[n] = "sumAllReduce"
    BY <2>1 DEF BarrierInv, Places, MasterPlaces, WorkerPlaces
  <2>3. NodeInv(n)'
    BY <1>0, <2>1, <2>2 DEF NodeInv, Stopped, Raised, Computing
  <2> QED
    BY <2>1, <2>2, <2>3, MasterMoves
<1>9. CASE SumAllReduce
  <2>1. /\ \A k \in Node : mpc[k] = "sumAllReduce" /\ mpc'[k] \in {"minAllReduce", "flushMessages"}
        /\ mpc' \in [Node -> {"minAllReduce", "flushMessages"}]
        /\ UNCHANGED <<wpc, flag, color_, local_gvt_flag>>
    BY <1>9 DEF SumAllReduce, MasterAt, gvtVars, workerVars
  <2>2. Places'
    BY <2>1 DEF BarrierInv, Places, MasterPlaces, WorkerPlaces
  <2>3. ASSUME NEW k \in Node PROVE NodeInv(k)'
    <3>1. NodeInv(k) /\ NodeWorkers(k)' = NodeWorkers(k)
      BY DEF BarrierInv, NodeWorkers
    <3> QED
      BY <2>1, <3>1 DEF NodeInv, Stopped, Raised, Computing
  <2> QED
    BY <2>2, <2>3 DEF BarrierInv
<1>10. CASE MinAllReduce
  <2>1. /\ \A k \in Node : mpc[k] = "minAllReduce" /\ mpc'[k] = "reset"
        /\ mpc' \in [Node -> {"reset"}]
        /\ UNCHANGED <<wpc, flag, color_, local_gvt_flag>>
    BY <1>10 DEF MinAllReduce, MasterAt, workerVars
  <2>2. Places'
    BY <2>1 DEF BarrierInv, Places, MasterPlaces, WorkerPlaces
  <2>3. ASSUME NEW k \in Node PROVE NodeInv(k)'
    <3>1. NodeInv(k) /\ NodeWorkers(k)' = NodeWorkers(k)
      BY DEF BarrierInv, NodeWorkers
    <3> QED
      BY <2>1, <3>1 DEF NodeInv, Stopped, Raised, Computing
  <2> QED
    BY <2>2, <2>3 DEF BarrierInv
<1>11. CASE EndGVT(n)
  <2>1. /\ mpc[n] = "reset" /\ mpc' = [mpc EXCEPT ![n] = "barrier2"]
        /\ color_' = [color_ EXCEPT ![n] = WHITE]
        /\ local_gvt_flag' = [local_gvt_flag EXCEPT ![n] = 0]
        /\ UNCHANGED <<wpc, flag>>
    BY <1>11 DEF EndGVT, MasterAt, MasterGoes, workerVars
  <2>2. /\ Places' /\ others /\ mpc'[n] = "barrier2" /\ color_'[n] # RED
        /\ local_gvt_flag'[n] = 0
    BY <2>1 DEF BarrierInv, Places, MasterPlaces, WorkerPlaces, WHITE, RED
  <2>3. NodeInv(n)'
    BY <1>0, <2>1, <2>2 DEF NodeInv, Stopped, Raised, Computing
  <2> QED
    BY <2>1, <2>2, <2>3, MasterMoves
<1>12. CASE Barrier2(n)
  <2>1. /\ mpc[n] = "barrier2" /\ mpc' = [mpc EXCEPT ![n] = "top"]
        /\ wpc' = [w \in Worker |-> IF w[1] = n THEN AfterReport(w) ELSE wpc[w]]
        /\ UNCHANGED <<flag, color_, local_gvt_flag>>
    BY <1>12 DEF Barrier2, MasterAt, MasterGoes, gvtVars
  <2>2. \A w \in Worker : wpc'[w] = IF w[1] = n THEN AfterReport(w) ELSE wpc[w]
    BY <2>1
  <2>3. Places' /\ others /\ mpc'[n] = "top"
    BY <2>1, <2>2, AfterReportIs DEF BarrierInv, Places, MasterPlaces, WorkerPlaces
  <2>4. \A w \in NodeWorkers(n) : wpc'[w] \in {"top", "process"}
    BY <1>0, <2>2, AfterReportIs
  <2>5. NodeInv(n)'
    BY <1>0, <2>1, <2>3, <2>4 DEF NodeInv, Stopped, Raised, Computing, Reads
  <2> QED
    BY <2>1, <2>2, <2>3, <2>5, MasterMoves
<1> QED
  BY <1>1, <1>3, <1>4, <1>5, <1>6, <1>7, <1>8, <1>9, <1>10, <1>11, <1>12 DEF MasterStep

LEMMA BarrierNext == BarrierInv /\ [Next]_vars => BarrierInv'
<1> SUFFICES ASSUME BarrierInv, [Next]_vars PROVE BarrierInv'
  OBVIOUS
<1>1. ASSUME NEW m \in transit, ReceiveEvent(m) PROVE BarrierInv'
  BY <1>1, SameBarriers DEF ReceiveEvent, barrierVars, workerVars
<1>2. CASE UNCHANGED vars
  BY <1>2, SameBarriers DEF vars, barrierVars, workerVars, gvtVars
<1> QED
  BY <1>1, <1>2, WorkerBarriers, MasterBarriers DEF Next

(* While a node computes its workers stand at the second barrier, whatever *)
(* the others do and whoever terminates: none of them sends a message that *)
(* the reductions would miss.                                              *)
THEOREM SpecWorkersStopped == Spec => []WorkersStopped
<1>1. BarrierInv => WorkersStopped
  BY DEF BarrierInv, NodeInv, WorkersStopped, Stopped
<1> QED
  BY BarrierInit, BarrierNext, <1>1, PTL DEF Spec

-----------------------------------------------------------------------------
(* The messages of the old color.                                          *)

Whites == {m \in transit : m.color = WHITE}

AtMinimum == \E n \in Node : MasterAt(n, "minAllReduce")

CountInv ==
    /\ white_msg_count \in [Node -> Int]
    /\ transit \subseteq [lp : LP, ts : Nat, color : {WHITE, RED}]
    /\ IsFiniteSet(transit)
    /\ Total(Node) = Cardinality(Whites)
    /\ AtMinimum => Whites = {} /\ \A n \in Node : MasterAt(n, "minAllReduce")

LEMMA NodesFinite == IsFiniteSet(Node) /\ 0 \in Node
<1>1. 0 \in Int /\ NumNodes - 1 \in Int
  BY SizesAssumption
<1> QED
  BY <1>1, FS_Interval, SizesAssumption DEF Node

SumOf(c) == (CHOOSE h : Sums(h, c, SUBSET Node))[Node]

LEMMA SumOfChanges ==
    ASSUME NEW c, NEW b, NEW n, NEW d, ChangesBy(Node, c, b, n, d)
    PROVE  SumOf(c) \in Int /\ SumOf(b) = SumOf(c) + d
<1> DEFINE f == CHOOSE h : Sums(h, c, SUBSET Node)
           g == CHOOSE h : Sums(h, b, SUBSET Node)
<1>1. Sums(f, c, SUBSET Node)
  BY SumExists, NodesFinite
<1>2. Sums(g, b, SUBSET Node)
  BY SumExists, NodesFinite
<1> HIDE DEF f, g
<1>3. f[Node] \in Int /\ g[Node] = f[Node] + d
  BY <1>1, <1>2, NodesFinite, SumChanges
<1> QED
  BY <1>3 DEF SumOf, f, g

LEMMA TotalIsSumOf == /\ Total(Node) = SumOf(white_msg_count)
                      /\ Total(Node)' = SumOf(white_msg_count')
<1>1. Total(Node) = SumOf(white_msg_count)
  BY TotalIsSum DEF SumOf
<1>2. Total(Node)' = SumOf(white_msg_count')
  BY SMT DEF Total, Sets!MapThenSumSet, Sets!MapThenFoldSet, Sums, Some, Node, SumOf
<1> QED
  BY <1>1, <1>2

LEMMA TotalChanges ==
    ASSUME NEW n, NEW d, ChangesBy(Node, white_msg_count, white_msg_count', n, d)
    PROVE  Total(Node) \in Int /\ Total(Node)' = Total(Node) + d
  BY SumOfChanges, TotalIsSumOf

LEMMA TotalStays ==
    ASSUME UNCHANGED white_msg_count
    PROVE  Total(Node)' = Total(Node)
  BY TotalIsSumOf

LEMMA CountInit == Init => CountInv
<1> SUFFICES ASSUME Init PROVE CountInv
  OBVIOUS
<1>1. white_msg_count = [n \in Node |-> 0] /\ transit = {} /\ ~ AtMinimum
  BY DEF Init, ClientInit, AtMinimum, MasterAt
<1>2. Cardinality(Whites) = 0 /\ IsFiniteSet(transit)
  BY <1>1, FS_EmptySet DEF Whites
<1> DEFINE c == [n \in Node |-> 0]
           f == CHOOSE h : Sums(h, c, SUBSET Node)
<1>3. Total(Node) = f[Node]
  BY <1>1, TotalIsSumOf DEF SumOf
<1>4. Sums(f, c, SUBSET Node)
  BY SumExists, NodesFinite
<1> HIDE DEF f
<1>5. f[Node] = 0
  BY <1>4, SumOfZeros, NodesFinite
<1> QED
  BY <1>1, <1>2, <1>3, <1>5 DEF CountInv

LEMMA SameCounts ==
    ASSUME CountInv, UNCHANGED <<white_msg_count, transit>>, AtMinimum' => AtMinimum /\ UNCHANGED mpc
    PROVE  CountInv'
<1>1. Total(Node)' = Total(Node) /\ Whites' = Whites
  BY TotalStays DEF Whites
<1> QED
  BY <1>1 DEF CountInv, AtMinimum, MasterAt, Node, LP

LEMMA SendCounts ==
    ASSUME BarrierInv, CountInv, NEW w \in Worker, NEW lp \in LP, NEW ts \in SendTimes,
           SendRemote(w, lp, ts)
    PROVE  CountInv'
<1> DEFINE n == w[1]
           m == [lp |-> lp, ts |-> ts, color |-> color_[n]]
           d == IF color_[n] = WHITE THEN 1 ELSE 0
<1>1. /\ wpc[w] = "process" /\ MayCause(w, lp, ts)
      /\ white_msg_count' = [white_msg_count EXCEPT ![n] = IF color_[n] = WHITE THEN @ + 1 ELSE @]
      /\ transit' = transit \cup {m} /\ UNCHANGED mpc
  BY DEF SendRemote
<1>2. n \in Node /\ w \in NodeWorkers(n)
  BY OwnNode
<1>3. m \in [lp : LP, ts : Nat, color : {WHITE, RED}]
  BY <1>2, EventsAssumption DEF BarrierInv, Places, MasterPlaces, WorkerPlaces
<1>4. m \notin transit
  BY <1>1 DEF MayCause
<1>5. /\ white_msg_count \in [Node -> Int] /\ white_msg_count' \in [Node -> Int]
      /\ white_msg_count'[n] = white_msg_count[n] + d /\ d \in Int
      /\ \A k \in Node \ {n} : white_msg_count'[k] = white_msg_count[k]
  BY <1>1, <1>2 DEF CountInv
<1>6. ChangesBy(Node, white_msg_count, white_msg_count', n, d)
  BY <1>2, <1>5 DEF ChangesBy
<1>7. Total(Node)' = Total(Node) + d
  BY <1>6, TotalChanges
<1>8. IsFiniteSet(transit') /\ IsFiniteSet(Whites) /\ Cardinality(Whites) \in Nat
  <2>1. IsFiniteSet(transit)
    BY DEF CountInv
  <2>2. IsFiniteSet(transit \cup {m})
    BY <2>1, FS_AddElement
  <2>3. Whites \subseteq transit
    BY DEF Whites
  <2> QED
    BY <1>1, <2>1, <2>2, <2>3, FS_Subset, FS_CardinalityType
<1>9. Cardinality(Whites') = Cardinality(Whites) + d
  <2>1. CASE color_[n] = WHITE
    <3>1. Whites' = Whites \cup {m} /\ m \notin Whites
      BY <1>1, <1>4, <2>1 DEF Whites
    <3> QED
      BY <1>8, <2>1, <3>1, FS_AddElement
  <2>2. CASE color_[n] # WHITE
    <3>1. Whites' = Whites
      BY <1>1, <2>2 DEF Whites
    <3> QED
      BY <1>8, <2>2, <3>1
  <2> QED
    BY <2>1, <2>2
<1>10. ~ AtMinimum
  <2>1. mpc[n] # "minAllReduce"
    BY <1>1, <1>2 DEF BarrierInv, NodeInv, Stopped
  <2> QED
    BY <1>2, <2>1 DEF CountInv, AtMinimum, MasterAt
<1>11. ~ AtMinimum'
  BY <1>1, <1>10 DEF AtMinimum, MasterAt, Node
<1> HIDE DEF m, d
<1> QED
  BY <1>1, <1>3, <1>5, <1>7, <1>8, <1>9, <1>11 DEF CountInv, Node, LP

LEMMA ReceiveCounts ==
    ASSUME CountInv, NEW m \in transit, ReceiveEvent(m)
    PROVE  CountInv'
<1> DEFINE n == NodeOf[m.lp]
           d == IF m.color = WHITE THEN 0 - 1 ELSE 0
<1>1. /\ transit' = transit \ {m} /\ UNCHANGED mpc
      /\ white_msg_count' = IF m.color = WHITE
                            THEN [white_msg_count EXCEPT ![n] = @ - 1] ELSE white_msg_count
  BY DEF ReceiveEvent
<1>2. n \in Node /\ m.color \in {WHITE, RED}
  BY EventsAssumption DEF CountInv
<1>3. /\ white_msg_count \in [Node -> Int] /\ white_msg_count' \in [Node -> Int]
      /\ white_msg_count'[n] = white_msg_count[n] + d /\ d \in Int
      /\ \A k \in Node \ {n} : white_msg_count'[k] = white_msg_count[k]
  BY <1>1, <1>2 DEF CountInv
<1>4. Total(Node)' = Total(Node) + d
  <2>1. ChangesBy(Node, white_msg_count, white_msg_count', n, d)
    BY <1>2, <1>3 DEF ChangesBy
  <2> QED
    BY <2>1, TotalChanges
<1>5. IsFiniteSet(Whites) /\ Cardinality(Whites) \in Nat /\ IsFiniteSet(transit')
  <2>1. IsFiniteSet(transit) /\ Whites \subseteq transit /\ transit' \subseteq transit
    BY <1>1 DEF Whites, CountInv
  <2> QED
    BY <2>1, FS_Subset, FS_CardinalityType
<1>6. Cardinality(Whites') = Cardinality(Whites) + d
  <2>1. CASE m.color = WHITE
    <3>1. Whites' = Whites \ {m} /\ m \in Whites
      BY <1>1, <2>1 DEF Whites
    <3>2. Cardinality(Whites \ {m}) = Cardinality(Whites) - 1
      BY <1>5, <3>1, FS_RemoveElement
    <3> QED
      BY <1>5, <2>1, <3>1, <3>2
  <2>2. CASE m.color # WHITE
    <3>1. Whites' = Whites
      BY <1>1, <2>2 DEF Whites
    <3> QED
      BY <1>5, <2>2, <3>1
  <2> QED
    BY <2>1, <2>2
<1>7. AtMinimum' => Whites' = {} /\ \A k \in Node : MasterAt(k, "minAllReduce")'
  BY <1>1 DEF CountInv, AtMinimum, MasterAt, Whites, Node
<1> HIDE DEF d
<1> QED
  BY <1>1, <1>3, <1>4, <1>5, <1>6, <1>7 DEF CountInv, Node, LP

LEMMA SumAllReduceCounts ==
    ASSUME CountInv, SumAllReduce
    PROVE  CountInv'
<1>1. /\ mpc' = [n \in Node |-> IF Total(Node) = 0 THEN "minAllReduce" ELSE "flushMessages"]
      /\ UNCHANGED <<white_msg_count, transit>>
  BY DEF SumAllReduce, clientVars, gvtVars
<1>2. Total(Node)' = Total(Node) /\ Whites' = Whites
  BY <1>1, TotalStays DEF Whites
<1>3. CASE Total(Node) = 0
  <2>1. IsFiniteSet(Whites) /\ Cardinality(Whites) = 0
    BY <1>3, FS_Subset DEF CountInv, Whites
  <2>2. Whites = {}
    BY <2>1, FS_EmptySet
  <2>3. \A n \in Node : mpc'[n] = "minAllReduce"
    BY <1>1, <1>3
  <2> QED
    BY <1>1, <1>2, <2>2, <2>3 DEF CountInv, AtMinimum, MasterAt, Node, LP
<1>4. CASE Total(Node) # 0
  <2>1. ~ AtMinimum'
    BY <1>1, <1>4 DEF AtMinimum, MasterAt, Node
  <2> QED
    BY <1>1, <1>2, <2>1 DEF CountInv, Node, LP
<1> QED
  BY <1>3, <1>4

LEMMA CountNext == BarrierInv /\ CountInv /\ [Next]_vars => CountInv'
<1> SUFFICES ASSUME BarrierInv, CountInv, [Next]_vars PROVE CountInv'
  OBVIOUS
<1>1. ASSUME NEW w \in Worker, WorkerStep(w) PROVE CountInv'
  <2>1. ASSUME NEW lp \in LP, NEW ts \in SendTimes, SendRemote(w, lp, ts) PROVE CountInv'
    BY <2>1, SendCounts
  <2>2. ASSUME ~ \E lp \in LP, ts \in SendTimes : SendRemote(w, lp, ts)
        PROVE  UNCHANGED <<white_msg_count, transit, mpc>>
    BY <1>1, <2>2 DEF WorkerStep, Top, GetEvent, reportThreadMin, SendLocal, reportThreadSendMin,
                      ReplenishScheduler, clientVars, gvtVars
  <2>3. ASSUME UNCHANGED <<white_msg_count, transit, mpc>> PROVE CountInv'
    BY <2>3, SameCounts DEF AtMinimum, MasterAt, Node
  <2> QED
    BY <2>1, <2>2, <2>3
<1>2. ASSUME NEW n \in Node, MasterStep(n) PROVE CountInv'
  <2>1. CASE SumAllReduce
    BY <2>1, SumAllReduceCounts
  <2>2. CASE MinAllReduce
    <3>1. ~ AtMinimum' /\ UNCHANGED <<white_msg_count, transit>>
      BY <2>2 DEF MinAllReduce, AtMinimum, MasterAt, Node, clientVars
    <3> QED
      BY <3>1, SameCounts
  <2>3. ASSUME NEW l \in {"top", "handleMessages", "exited", "storeFlag", "barrier1",
                          "flushMessages", "sumAllReduce", "barrier2"},
               ~ MasterAt(n, "minAllReduce"), MasterGoes(n, l),
               UNCHANGED <<white_msg_count, transit>>
        PROVE  CountInv'
    <3>1. mpc'[n] = l /\ \A k \in Node \ {n} : mpc'[k] = mpc[k]
      BY <2>3 DEF BarrierInv, Places, MasterPlaces, WorkerPlaces, MasterGoes
    <3>2. ~ AtMinimum
      BY <2>3 DEF CountInv, AtMinimum
    <3>3. ~ AtMinimum'
      BY <3>1, <3>2 DEF AtMinimum, MasterAt, Node
    <3> QED
      BY <2>3, <3>3, SameCounts
  <2>4. CASE ReceiveTerminator(n)
    BY <2>4, SameCounts DEF ReceiveTerminator, clientVars, gvtVars, AtMinimum, MasterAt, Node
  <2>5. CASE NotReady(n)
    BY <2>3, <2>5 DEF NotReady, MasterAt, clientVars, gvtVars
  <2>6. CASE LoopTop(n)
    <3>1. PICK l \in {"exited", "handleMessages"} : MasterGoes(n, l)
      BY <2>6 DEF LoopTop
    <3> QED
      BY <2>3, <2>6, <3>1 DEF LoopTop, MasterAt, clientVars, gvtVars
  <2>7. CASE BeginGVT(n)
    BY <2>3, <2>7 DEF BeginGVT, MasterAt, clientVars
  <2>8. CASE StoreFlag(n)
    BY <2>3, <2>8 DEF StoreFlag, MasterAt, clientVars
  <2>9. CASE Barrier1(n)
    BY <2>3, <2>9 DEF Barrier1, MasterAt, clientVars, gvtVars
  <2>10. CASE ReduceCount(n)
    BY <2>3, <2>10 DEF ReduceCount, MasterAt, clientVars, gvtVars
  <2>11. CASE EndGVT(n)
    BY <2>3, <2>11 DEF EndGVT, MasterAt, clientVars
  <2>12. CASE Barrier2(n)
    BY <2>3, <2>12 DEF Barrier2, MasterAt, clientVars, gvtVars
  <2> QED
    BY <1>2, <2>1, <2>2, <2>4, <2>5, <2>6, <2>7, <2>8, <2>9, <2>10, <2>11, <2>12 DEF MasterStep
<1>3. ASSUME NEW m \in transit, ReceiveEvent(m) PROVE CountInv'
  BY <1>3, ReceiveCounts
<1>4. CASE UNCHANGED vars
  BY <1>4, SameCounts DEF vars, clientVars, gvtVars, AtMinimum, MasterAt, Node
<1> QED
  BY <1>1, <1>2, <1>3, <1>4 DEF Next

(* When the minima are reduced no message of the old color is on its way,  *)
(* to any node: the sum of the counts, which nodes take while the others   *)
(* still send and receive, is 0 only then.                                 *)
THEOREM SpecNoWhiteInTransit == Spec => []NoWhiteInTransit
<1>1. CountInv => NoWhiteInTransit
  BY NodesFinite DEF CountInv, NoWhiteInTransit, AtMinimum, Whites
<1> QED
  BY BarrierInit, BarrierNext, CountInit, CountNext, <1>1, PTL DEF Spec

-----------------------------------------------------------------------------
(* What the workers hold.                                                  *)

(* Without migration an LP stays on its queue, and every queue has a       *)
(* thread that serves it.                                                  *)
EveryQueueServed == ~ LpMigration /\ NumSchedulers \in 1 .. NumWorkers

Serves(w, lp) == NodeOf[lp] = w[1] /\ QueueOf[lp] = w[2] % NumSchedulers

ClientTypes ==
    /\ pending \in [LP -> SUBSET Nat]
    /\ queue = QueueOf
    /\ taken \in [Worker -> [lp : Nat, ts : Nat]]
    /\ toReport \in [Worker -> Nat]
    /\ send_min \in [Thread -> Nat]
    /\ local_min \in [Worker -> Nat]
    /\ recv_min \in [Node -> Nat]
    /\ gVT \in [Node -> Nat]

Holds(w) ==
    /\ taken[w] # Nothing => /\ taken[w].lp \in LP
                             /\ taken[w].ts \in pending[taken[w].lp]
                             /\ Serves(w, taken[w].lp)
    /\ wpc[w] \in {"top", "getEvent", "exited"} => taken[w] = Nothing
    /\ wpc[w] \in {"process", "reportSend"} => taken[w] # Nothing
    /\ wpc[w] \in {"barrier1", "barrier2"} /\ Computing(w[1]) => local_min[w] = taken[w].ts

OneHolder ==
    \A v, w \in Worker : taken[v] # Nothing /\ taken[v].lp = taken[w].lp => v = w

ClientInv == ClientTypes /\ OneHolder /\ \A w \in Worker : Holds(w)

LEMMA LeastIs ==
    ASSUME NEW S \in SUBSET Nat, S # {}
    PROVE  Least(S) \in S /\ Least(S) \in Nat /\ \A y \in S : Least(S) <= y
<1>1. \E x \in S : \A y \in S : x <= y
  BY NatMinimum
<1>2. Least(S) \in S /\ \A y \in S : Least(S) <= y
  BY <1>1 DEF Least
<1> QED
  BY <1>2

LEMMA NothingIs == Nothing \in [lp : Nat, ts : Nat] /\ Nothing.lp = 0 /\ Nothing.ts = Infinity
  BY EventsAssumption DEF Nothing

LEMMA MasterIsThread ==
    ASSUME NEW n \in Node
    PROVE  Master(n) \in Thread /\ Master(n) \notin Worker /\ Master(n)[1] = n
<1>1. NumWorkers \notin 0 .. NumWorkers - 1
  BY SizesAssumption
<1> QED
  BY <1>1 DEF Master, Thread, Worker

LEMMA ThreadNode ==
    ASSUME NEW t \in Thread
    PROVE  t[1] \in Node
  BY OwnNode DEF Thread, Master

LEMMA LPNode ==
    ASSUME NEW lp \in LP
    PROVE  NodeOf[lp] \in Node /\ lp \in Nat /\ lp # 0
  BY EventsAssumption DEF LP

LEMMA MinIs ==
    ASSUME NEW a \in Nat, NEW b \in Nat
    PROVE  Min(a, b) \in Nat /\ Min(a, b) <= a /\ Min(a, b) <= b /\ Min(a, b) \in {a, b}
  BY DEF Min

(* What getEvent returns: the least event of the queue, of those LPs that  *)
(* no thread holds.                                                        *)
LEMMA NextEventIs ==
    ASSUME ClientInv, NEW w \in Worker, NEW event \in NextEvents(w)
    PROVE  /\ event \in [lp : Nat, ts : Nat]
           /\ event # Nothing => /\ event.lp \in LP
                                 /\ event.ts \in pending[event.lp]
                                 /\ Serves(w, event.lp)
                                 /\ \A v \in Worker : taken[v].lp # event.lp
           /\ \A lp \in LP : Serves(w, lp) =>
                 \/ \E v \in Worker : taken[v].lp = lp
                 \/ \A ts \in pending[lp] : event.ts <= ts
<1> DEFINE lps == {lp \in Served(w) : Scheduled(lp)}
           E(lp) == [lp |-> lp, ts |-> Least(pending[lp])]
           all == {E(lp) : lp \in lps}
<1>1. \A lp \in LP : lp \in lps <=> /\ Serves(w, lp) /\ pending[lp] # {}
                                    /\ \A v \in Worker : taken[v].lp # lp
  BY DEF ClientInv, ClientTypes, Served, Serves, Scheduled
<1>2. \A lp \in lps : /\ lp \in LP /\ lp \in Nat
                      /\ Least(pending[lp]) \in pending[lp] /\ Least(pending[lp]) \in Nat
                      /\ \A ts \in pending[lp] : Least(pending[lp]) <= ts
  <2> TAKE lp \in lps
  <2>1. lp \in LP
    BY DEF Served
  <2>2. pending[lp] \in SUBSET Nat /\ pending[lp] # {}
    BY <1>1, <2>1 DEF ClientInv, ClientTypes
  <2> QED
    BY <2>1, <2>2, LeastIs, LPNode
<1>3. CASE all = {}
  <2>1. event = Nothing
    BY <1>3 DEF NextEvents
  <2>2. lps = {}
    BY <1>3
  <2> QED
    BY <1>1, <2>1, <2>2, NothingIs
<1>4. CASE all # {}
  <2>1. event \in all /\ \A f \in all : event.ts <= f.ts
    BY <1>4 DEF NextEvents
  <2>2. PICK l \in lps : event = E(l)
    BY <2>1
  <2>3. event.lp = l /\ event.ts = Least(pending[l]) /\ event \in [lp : Nat, ts : Nat]
    BY <1>2, <2>2
  <2>4. ASSUME NEW lp \in LP, Serves(w, lp), \A v \in Worker : taken[v].lp # lp,
               NEW ts \in pending[lp]
        PROVE  event.ts <= ts
    <3>1. lp \in lps
      BY <1>1, <2>4
    <3>2. E(lp) \in all /\ E(lp).ts = Least(pending[lp])
      BY <3>1
    <3>3. event.ts <= Least(pending[lp]) /\ Least(pending[lp]) <= ts
      BY <1>2, <2>1, <3>1, <3>2
    <3>4. event.ts \in Nat /\ Least(pending[lp]) \in Nat /\ ts \in Nat
      BY <1>2, <2>3, <3>1 DEF ClientInv, ClientTypes
    <3> QED
      BY <3>3, <3>4
  <2>5. /\ l \in LP /\ event.ts \in pending[l] /\ Serves(w, l)
        /\ \A v \in Worker : taken[v].lp # l
    BY <1>1, <1>2, <2>2, <2>3
  <2> QED
    BY <2>3, <2>4, <2>5
<1> QED
  BY <1>3, <1>4

LEMMA ClientStart == Init => ClientInv
<1> SUFFICES ASSUME Init PROVE ClientInv
  OBVIOUS
<1>1. ClientTypes
  BY NothingIs, EventsAssumption DEF Init, ClientInit, ClientTypes
<1>2. \A w \in Worker : taken[w] = Nothing /\ wpc[w] = "top"
  BY DEF Init, ClientInit
<1> QED
  BY <1>1, <1>2 DEF ClientInv, OneHolder, Holds

(* A worker that the step is not about.                                    *)
LEMMA HoldsStill ==
    ASSUME NEW w \in Worker, Holds(w), taken'[w] = taken[w], wpc'[w] = wpc[w],
           local_min'[w] = local_min[w], Computing(w[1])' => Computing(w[1]),
           taken[w] # Nothing => taken[w].ts \in pending'[taken[w].lp]
    PROVE  Holds(w)'
  BY DEF Holds, Serves, Nothing, LP

LEMMA SameClient ==
    ASSUME ClientInv, UNCHANGED <<clientVars, wpc, toReport, send_min, local_min, recv_min, gVT>>,
           \A n \in Node : Computing(n)' => Computing(n)
    PROVE  ClientInv'
<1>1. ClientTypes' /\ OneHolder'
  BY DEF ClientInv, ClientTypes, OneHolder, clientVars, Nothing
<1>2. ASSUME NEW w \in Worker PROVE Holds(w)'
  <2>1. Holds(w) /\ w[1] \in Node
    BY OwnNode DEF ClientInv
  <2> QED
    BY <2>1, HoldsStill DEF clientVars, Holds
<1> QED
  BY <1>1, <1>2 DEF ClientInv

(* An event is added to an input queue.                                    *)
LEMMA InsertKeeps ==
    ASSUME ClientTypes, NEW lp \in LP, NEW ts \in Nat, Insert(lp, ts)
    PROVE  /\ pending' \in [LP -> SUBSET Nat]
           /\ pending'[lp] = pending[lp] \cup {ts}
           /\ \A l \in LP : l # lp => pending'[l] = pending[l]
           /\ \A l \in LP : pending[l] \subseteq pending'[l]
  BY DEF Insert, ClientTypes

(* A step of one worker.                                                   *)
LEMMA OneWorker ==
    ASSUME ClientInv, NEW w \in Worker, ClientTypes', Holds(w)', OneHolder',
           \A v \in Worker \ {w} :
               /\ taken'[v] = taken[v] /\ wpc'[v] = wpc[v] /\ local_min'[v] = local_min[v]
               /\ taken[v] # Nothing => taken[v].ts \in pending'[taken[v].lp],
           mpc' = mpc
    PROVE  ClientInv'
<1>1. ASSUME NEW v \in Worker, v # w PROVE Holds(v)'
  <2>1. Holds(v) /\ Computing(v[1])' = Computing(v[1])
    BY DEF ClientInv, Computing
  <2> QED
    BY <1>1, <2>1, HoldsStill
<1> QED
  BY <1>1 DEF ClientInv

(* ... that keeps what it holds.                                           *)
LEMMA OneWorkerKeeps ==
    ASSUME ClientInv, NEW w \in Worker, ClientTypes', UNCHANGED <<taken, mpc>>,
           NEW pc, wpc \in [Worker -> WorkerPlaces], wpc' = [wpc EXCEPT ![w] = pc],
           pc \in {"top", "getEvent", "exited"} => taken[w] = Nothing,
           pc \in {"process", "reportSend"} => taken[w] # Nothing,
           pc \in {"barrier1", "barrier2"} => local_min'[w] = taken[w].ts,
           \A v \in Worker \ {w} : local_min'[v] = local_min[v],
           \A lp \in LP : pending[lp] \subseteq pending'[lp]
    PROVE  ClientInv'
<1>1. OneHolder'
  BY DEF ClientInv, OneHolder, Nothing
<1>2. \A v \in Worker : taken[v] # Nothing => taken[v].ts \in pending'[taken[v].lp]
  BY DEF ClientInv, Holds
<1>3. wpc'[w] = pc /\ \A v \in Worker \ {w} : wpc'[v] = wpc[v]
  OBVIOUS
<1>4. Holds(w)'
  BY <1>2, <1>3 DEF ClientInv, Holds, Serves, Nothing, LP
<1> QED
  BY <1>1, <1>2, <1>3, <1>4, OneWorker

LEMMA PlacesAre ==
    ASSUME BarrierInv
    PROVE  wpc \in [Worker -> WorkerPlaces] /\ mpc \in [Node -> MasterPlaces]
  BY DEF BarrierInv, Places

LEMMA SendMinIs ==
    ASSUME ClientTypes, NEW t \in Thread, NEW ts \in Nat, send_min' = SendMinAfter(t, ts)
    PROVE  /\ send_min' \in [Thread -> Nat]
           /\ \A s \in Thread : s # t => send_min'[s] = send_min[s]
           /\ send_min'[t] <= send_min[t]
           /\ local_gvt_flag[t[1]] > 0 => send_min'[t] <= ts
           /\ send_min'[t] \in {send_min[t], ts}
<1>1. send_min \in [Thread -> Nat] /\ send_min[t] \in Nat
  BY DEF ClientTypes
<1>2. /\ Min(send_min[t], ts) \in Nat /\ Min(send_min[t], ts) <= send_min[t]
      /\ Min(send_min[t], ts) <= ts /\ Min(send_min[t], ts) \in {send_min[t], ts}
  BY <1>1, MinIs
<1>3. CASE local_gvt_flag[t[1]] > 0
  <2>1. send_min' = [send_min EXCEPT ![t] = Min(send_min[t], ts)]
    BY <1>3 DEF SendMinAfter
  <2> QED
    BY <1>1, <1>2, <2>1
<1>4. CASE ~ (local_gvt_flag[t[1]] > 0)
  <2>1. send_min' = send_min
    BY <1>4 DEF SendMinAfter
  <2> QED
    BY <1>1, <1>4, <2>1
<1> QED
  BY <1>3, <1>4

LEMMA ClientTop ==
    ASSUME ClientInv, BarrierInv, NEW w \in Worker, Top(w)
    PROVE  ClientInv'
<1>1. PICK pc \in {"exited", "getEvent"} : wpc' = [wpc EXCEPT ![w] = pc]
  BY DEF Top, Goes
<1>2. /\ wpc[w] = "top" /\ mpc' = mpc
      /\ UNCHANGED <<clientVars, toReport, send_min, local_min, recv_min, gVT>>
  BY DEF Top, gvtVars
<1>3. ClientTypes' /\ taken[w] = Nothing
  BY <1>2 DEF ClientInv, ClientTypes, Holds, clientVars
<1> QED
  BY <1>1, <1>2, <1>3, OneWorkerKeeps, PlacesAre DEF clientVars

LEMMA ClientGetEvent ==
    ASSUME ClientInv, BarrierInv, NEW w \in Worker, GetEvent(w)
    PROVE  ClientInv'
<1>1. PICK event \in NextEvents(w) : taken' = [taken EXCEPT ![w] = event]
  BY DEF GetEvent, Take
<1>2. /\ wpc[w] = "getEvent" /\ wpc' = [wpc EXCEPT ![w] = "report"]
      /\ UNCHANGED <<pending, queue, mpc, toReport, send_min, local_min, recv_min, gVT>>
  BY DEF GetEvent, Goes, gvtVars
<1>3. /\ event \in [lp : Nat, ts : Nat]
      /\ event # Nothing => /\ event.lp \in LP
                            /\ event.ts \in pending[event.lp]
                            /\ Serves(w, event.lp)
                            /\ \A v \in Worker : taken[v].lp # event.lp
  BY NextEventIs
<1>4. ClientTypes'
  BY <1>1, <1>2, <1>3 DEF ClientInv, ClientTypes
<1>5. taken'[w] = event /\ \A v \in Worker \ {w} : taken'[v] = taken[v]
  BY <1>1 DEF ClientInv, ClientTypes
<1>6. wpc'[w] = "report" /\ \A v \in Worker \ {w} : wpc'[v] = wpc[v]
  BY <1>2, PlacesAre
<1>7. OneHolder'
  <2> SUFFICES ASSUME NEW v \in Worker, NEW u \in Worker, taken'[v] # Nothing,
                      taken'[v].lp = taken'[u].lp, v # u
               PROVE  FALSE
    BY DEF OneHolder, Nothing
  <2>1. CASE v = w
    BY <1>3, <1>5, <2>1
  <2>2. CASE v # w /\ u = w
    <3>1. taken[v] # Nothing /\ taken[v].lp \in LP /\ taken[v].lp = event.lp
      BY <1>5, <2>2 DEF ClientInv, Holds
    <3>2. event # Nothing
      BY <3>1, NothingIs, LPNode
    <3> QED
      BY <1>3, <3>1, <3>2
  <2>3. CASE v # w /\ u # w
    BY <1>5, <2>3 DEF ClientInv, OneHolder
  <2> QED
    BY <2>1, <2>2, <2>3
<1>8. Holds(w)'
  BY <1>2, <1>3, <1>5, <1>6 DEF Holds, Serves, Nothing, LP
<1>9. \A v \in Worker : taken[v] # Nothing => taken[v].ts \in pending'[taken[v].lp]
  BY <1>2 DEF ClientInv, Holds
<1> QED
  BY <1>2, <1>4, <1>5, <1>6, <1>7, <1>8, <1>9, OneWorker

LEMMA ClientReportMin ==
    ASSUME ClientInv, BarrierInv, NEW w \in Worker, reportThreadMin(w)
    PROVE  ClientInv'
<1>1. UNCHANGED <<clientVars, mpc, toReport, send_min, recv_min, gVT>> /\ taken[w].ts \in Nat
  BY DEF reportThreadMin, ClientInv, ClientTypes
<1>2. CASE flag[w] > 0
  <2>1. wpc' = [wpc EXCEPT ![w] = "barrier1"] /\ local_min' = [local_min EXCEPT ![w] = taken[w].ts]
    BY <1>2 DEF reportThreadMin, Goes
  <2>2. /\ ClientTypes' /\ local_min'[w] = taken[w].ts
        /\ \A v \in Worker \ {w} : local_min'[v] = local_min[v]
    BY <1>1, <2>1 DEF ClientInv, ClientTypes, clientVars
  <2> QED
    BY <1>1, <2>1, <2>2, OneWorkerKeeps, PlacesAre DEF clientVars
<1>3. CASE ~ (flag[w] > 0)
  <2>1. /\ wpc' = [wpc EXCEPT ![w] = IF taken[w] = Nothing THEN "top" ELSE "process"]
        /\ local_min' = local_min
    BY <1>3 DEF reportThreadMin, Goes, AfterReport
  <2>2. ClientTypes'
    BY <1>1, <2>1 DEF ClientInv, ClientTypes, clientVars
  <2>3. CASE taken[w] = Nothing
    BY <1>1, <2>1, <2>2, <2>3, OneWorkerKeeps, PlacesAre DEF clientVars
  <2>4. CASE taken[w] # Nothing
    BY <1>1, <2>1, <2>2, <2>4, OneWorkerKeeps, PlacesAre DEF clientVars
  <2> QED
    BY <2>3, <2>4
<1> QED
  BY <1>2, <1>3

LEMMA ClientSend ==
    ASSUME ClientInv, BarrierInv, NEW w \in Worker, NEW lp \in LP, NEW ts \in SendTimes,
           SendLocal(w, lp, ts) \/ SendRemote(w, lp, ts)
    PROVE  ClientInv'
<1>1. /\ wpc[w] = "process" /\ wpc' = [wpc EXCEPT ![w] = "reportSend"]
      /\ toReport' = [toReport EXCEPT ![w] = ts]
      /\ UNCHANGED <<queue, taken, mpc, send_min, local_min, recv_min, gVT>>
      /\ Insert(lp, ts) \/ pending' = pending
  BY DEF SendLocal, SendRemote, Goes, gvtVars
<1>2. ts \in Nat /\ taken[w] # Nothing
  BY <1>1, EventsAssumption DEF ClientInv, Holds
<1>3. pending' \in [LP -> SUBSET Nat] /\ \A l \in LP : pending[l] \subseteq pending'[l]
  BY <1>1, <1>2, InsertKeeps DEF ClientInv, ClientTypes
<1>4. ClientTypes'
  BY <1>1, <1>2, <1>3 DEF ClientInv, ClientTypes
<1> QED
  BY <1>1, <1>2, <1>3, <1>4, OneWorkerKeeps, PlacesAre

LEMMA ClientReportSend ==
    ASSUME ClientInv, BarrierInv, NEW w \in Worker, reportThreadSendMin(w)
    PROVE  ClientInv'
<1>1. /\ wpc[w] = "reportSend" /\ wpc' = [wpc EXCEPT ![w] = "process"]
      /\ toReport' = [toReport EXCEPT ![w] = Infinity] /\ send_min' = SendMinAfter(w, toReport[w])
      /\ UNCHANGED <<clientVars, mpc, local_min, recv_min, gVT>>
  BY DEF reportThreadSendMin, Goes
<1>2. taken[w] # Nothing /\ toReport[w] \in Nat /\ w \in Thread
  BY <1>1 DEF ClientInv, Holds, ClientTypes, Thread
<1>3. send_min' \in [Thread -> Nat]
  BY <1>1, <1>2, SendMinIs DEF ClientInv
<1>4. ClientTypes'
  BY <1>1, <1>3, EventsAssumption DEF ClientInv, ClientTypes, clientVars
<1> QED
  BY <1>1, <1>2, <1>4, OneWorkerKeeps, PlacesAre DEF clientVars

LEMMA ClientReplenish ==
    ASSUME ClientInv, BarrierInv, EveryQueueServed, NEW w \in Worker, ReplenishScheduler(w)
    PROVE  ClientInv'
<1>0. PICK lp \in LP : lp = taken[w].lp
  BY DEF ClientInv, Holds, ReplenishScheduler
<1>1. /\ wpc[w] = "process" /\ wpc' = [wpc EXCEPT ![w] = "top"]
      /\ taken' = [taken EXCEPT ![w] = Nothing]
      /\ pending' = [pending EXCEPT ![lp] = @ \ {taken[w].ts}]
      /\ UNCHANGED <<queue, mpc, toReport, send_min, local_min, recv_min, gVT>>
  BY <1>0 DEF ReplenishScheduler, Goes, Replenish, EveryQueueServed, gvtVars
<1>2. taken'[w] = Nothing /\ \A v \in Worker \ {w} : taken'[v] = taken[v]
  BY <1>1 DEF ClientInv, ClientTypes
<1>3. ClientTypes'
  BY <1>1, NothingIs DEF ClientInv, ClientTypes
<1>4. \A l \in LP : l # lp => pending'[l] = pending[l]
  BY <1>1 DEF ClientInv, ClientTypes
<1>5. ASSUME NEW v \in Worker \ {w}, taken[v] # Nothing
      PROVE  taken[v].ts \in pending'[taken[v].lp]
  <2>1. taken[v].lp # lp
    BY <1>0, <1>5 DEF ClientInv, OneHolder
  <2>2. taken[v].lp \in LP /\ taken[v].ts \in pending[taken[v].lp]
    BY <1>5 DEF ClientInv, Holds
  <2> QED
    BY <1>4, <2>1, <2>2
<1>6. wpc'[w] = "top" /\ \A v \in Worker \ {w} : wpc'[v] = wpc[v]
  BY <1>1, PlacesAre
<1>7. Holds(w)'
  BY <1>2, <1>6 DEF Holds, Nothing
<1>8. OneHolder'
  <2> SUFFICES ASSUME NEW v \in Worker, NEW u \in Worker, taken'[v] # Nothing,
                      taken'[v].lp = taken'[u].lp, v # u
               PROVE  FALSE
    BY DEF OneHolder, Nothing
  <2>1. v # w /\ taken'[v] = taken[v] /\ taken[v].lp \in LP /\ taken[v] # Nothing
    BY <1>2 DEF ClientInv, Holds
  <2>2. u # w
    BY <1>2, <2>1, NothingIs, LPNode
  <2> QED
    BY <1>2, <2>1, <2>2 DEF ClientInv, OneHolder
<1> QED
  BY <1>1, <1>2, <1>3, <1>5, <1>6, <1>7, <1>8, OneWorker
LEMMA ClientWorker ==
    ASSUME ClientInv, BarrierInv, EveryQueueServed, NEW w \in Worker, WorkerStep(w)
    PROVE  ClientInv'
  BY ClientTop, ClientGetEvent, ClientReportMin, ClientSend, ClientReportSend, ClientReplenish
     DEF WorkerStep

(* At the barriers.                                                        *)
LEMMA ClientBarrier ==
    ASSUME ClientInv, BarrierInv, NEW n \in Node, Barrier1(n) \/ Barrier2(n)
    PROVE  ClientInv'
<1>1. UNCHANGED <<clientVars, toReport, send_min, local_min, recv_min, gVT>>
  BY DEF Barrier1, Barrier2, gvtVars
<1>2. \A k \in Node : Computing(k)' => Computing(k)
  BY DEF Barrier1, Barrier2, MasterAt, MasterGoes, Computing, BarrierInv, Places
<1>3. ClientTypes' /\ OneHolder'
  BY <1>1 DEF ClientInv, ClientTypes, OneHolder, clientVars, Nothing
<1>4. ASSUME NEW w \in Worker PROVE Holds(w)'
  <2>1. Holds(w) /\ w[1] \in Node /\ w \in NodeWorkers(w[1])
    BY OwnNode DEF ClientInv
  <2>2. CASE w[1] # n
    <3>1. wpc'[w] = wpc[w]
      BY <2>2 DEF Barrier1, Barrier2
    <3> QED
      BY <1>1, <1>2, <2>1, <3>1, HoldsStill DEF clientVars, Holds
  <2>3. CASE w[1] = n /\ Barrier1(n)
    <3>1. wpc'[w] = "barrier2" /\ wpc[w] = "barrier1"
      BY <2>1, <2>3 DEF Barrier1
    <3> QED
      BY <1>1, <1>2, <2>1, <3>1 DEF Holds, clientVars, Serves, Nothing, LP
  <2>4. CASE w[1] = n /\ Barrier2(n)
    <3>1. wpc'[w] = IF taken[w] = Nothing THEN "top" ELSE "process"
      BY <2>1, <2>4 DEF Barrier2, AfterReport
    <3> QED
      BY <1>1, <2>1, <3>1 DEF Holds, clientVars, Serves, Nothing, LP
  <2> QED
    BY <2>2, <2>3, <2>4
<1> QED
  BY <1>3, <1>4 DEF ClientInv

(* When a node begins a computation no worker is at a barrier.             *)
LEMMA ClientBegin ==
    ASSUME ClientInv, BarrierInv, NEW n \in Node, BeginGVT(n)
    PROVE  ClientInv'
<1>1. /\ UNCHANGED <<clientVars, wpc, toReport, send_min, local_min, recv_min, gVT>>
      /\ mpc[n] = "handleMessages" /\ \A k \in Node : k # n => mpc'[k] = mpc[k]
  BY DEF BeginGVT, MasterAt, MasterGoes, workerVars, BarrierInv, Places
<1>2. ClientTypes' /\ OneHolder'
  BY <1>1 DEF ClientInv, ClientTypes, OneHolder, clientVars, Nothing
<1>3. ASSUME NEW w \in Worker PROVE Holds(w)'
  <2>1. Holds(w) /\ w[1] \in Node /\ w \in NodeWorkers(w[1])
    BY OwnNode DEF ClientInv
  <2>2. CASE w[1] # n
    <3>1. Computing(w[1])' = Computing(w[1])
      BY <1>1, <2>1, <2>2 DEF Computing
    <3> QED
      BY <1>1, <2>1, <3>1, HoldsStill DEF clientVars, Holds
  <2>3. CASE w[1] = n
    <3>1. wpc[w] \notin {"barrier1", "barrier2"}
      BY <1>1, <2>1, <2>3 DEF BarrierInv, NodeInv, Stopped
    <3> QED
      BY <1>1, <2>1, <3>1 DEF Holds, clientVars, Serves, Nothing, LP
  <2> QED
    BY <2>2, <2>3
<1> QED
  BY <1>2, <1>3 DEF ClientInv

LEMMA ClientReceive ==
    ASSUME ClientInv, BarrierInv, CountInv, NEW m \in transit, ReceiveEvent(m)
    PROVE  ClientInv'
<1>1. m.lp \in LP /\ m.ts \in Nat
  BY EventsAssumption DEF CountInv
<1>2. PICK n \in Node : n = NodeOf[m.lp]
  BY <1>1, LPNode
<1>3. /\ UNCHANGED <<queue, taken, mpc, wpc, toReport, local_min, gVT>>
      /\ Insert(m.lp, m.ts) /\ send_min' = SendMinAfter(Master(n), m.ts)
      /\ recv_min' \in {recv_min, [recv_min EXCEPT ![n] = Min(recv_min[n], m.ts)]}
  BY <1>2 DEF ReceiveEvent, workerVars
<1>4. pending' \in [LP -> SUBSET Nat] /\ \A l \in LP : pending[l] \subseteq pending'[l]
  BY <1>1, <1>3, InsertKeeps DEF ClientInv
<1>5. send_min' \in [Thread -> Nat]
  BY <1>1, <1>3, SendMinIs, MasterIsThread DEF ClientInv
<1>6. recv_min' \in [Node -> Nat]
  <2>1. recv_min \in [Node -> Nat] /\ recv_min[n] \in Nat
    BY DEF ClientInv, ClientTypes
  <2>2. Min(recv_min[n], m.ts) \in Nat
    BY <1>1, <2>1, MinIs
  <2> QED
    BY <1>3, <2>1, <2>2
<1>7. ClientTypes' /\ OneHolder'
  BY <1>3, <1>4, <1>5, <1>6 DEF ClientInv, ClientTypes, OneHolder, Nothing
<1>8. ASSUME NEW w \in Worker PROVE Holds(w)'
  <2>1. Holds(w) /\ Computing(w[1])' = Computing(w[1])
    BY <1>3 DEF ClientInv, Computing
  <2> QED
    BY <1>3, <1>4, <2>1, HoldsStill DEF Holds
<1> QED
  BY <1>7, <1>8 DEF ClientInv
-----------------------------------------------------------------------------
(* The reduction.                                                          *)

NodeThreads(n) == NodeWorkers(n) \cup {Master(n)}

LEMMA NodeThread ==
    ASSUME NEW n \in Node, NEW t \in NodeThreads(n)
    PROVE  t \in Thread /\ t[1] = n
  BY MasterIsThread DEF NodeThreads, NodeWorkers, Thread

LEMMA ThreadIs ==
    ASSUME NEW t \in Thread
    PROVE  t[1] \in Node /\ t \in NodeThreads(t[1])
<1>1. CASE t \in Worker
  BY <1>1, OwnNode DEF NodeThreads
<1>2. CASE t \notin Worker
  <2>1. PICK n \in Node : t = Master(n)
    BY <1>2 DEF Thread
  <2> QED
    BY <2>1, MasterIsThread DEF NodeThreads
<1> QED
  BY <1>1, <1>2

(* What a node contributes, and the least of it.                           *)
Minima(n) == {recv_min[n]} \cup {local_min[w] : w \in NodeWorkers(n)}
                           \cup {send_min[t] : t \in NodeThreads(n)}

LEMMA LocalMinimumIs ==
    ASSUME ClientTypes, NEW n \in Node
    PROVE  LocalMinimum(n) \in Nat /\ LocalMinimum(n) \in Minima(n)
           /\ \A x \in Minima(n) : x \in Nat /\ LocalMinimum(n) <= x
<1>1. Minima(n) \in SUBSET Nat /\ Minima(n) # {}
  BY NodeThread, NodeWorker DEF Minima, ClientTypes
<1>2. LocalMinimum(n) = Least(Minima(n))
  BY DEF LocalMinimum, Minima, NodeThreads
<1> QED
  BY <1>1, <1>2, LeastIs

Reduction == Least({LocalMinimum(k) : k \in Node})

LEMMA ReductionIs ==
    ASSUME ClientTypes
    PROVE  /\ Reduction \in Nat
           /\ \E k \in Node : Reduction \in Minima(k)
           /\ \A k \in Node : \A x \in Minima(k) : x \in Nat /\ Reduction <= x
<1> DEFINE S == {LocalMinimum(k) : k \in Node}
<1>1. S \in SUBSET Nat /\ S # {}
  BY LocalMinimumIs, NodesFinite
<1>2. Least(S) \in S /\ Least(S) \in Nat /\ \A y \in S : Least(S) <= y
  BY <1>1, LeastIs
<1>3. PICK k \in Node : Least(S) = LocalMinimum(k)
  BY <1>2
<1>4. ASSUME NEW j \in Node, NEW x \in Minima(j) PROVE x \in Nat /\ Least(S) <= x
  <2>1. LocalMinimum(j) \in Nat /\ x \in Nat /\ LocalMinimum(j) <= x
    BY LocalMinimumIs
  <2>2. LocalMinimum(j) \in S
    OBVIOUS
  <2> HIDE DEF S
  <2> QED
    BY <1>2, <2>1, <2>2
<1>5. Least(S) \in Minima(k)
  BY <1>3, LocalMinimumIs
<1> QED
  BY <1>2, <1>4, <1>5 DEF Reduction

LEMMA ClientReduce ==
    ASSUME ClientInv, BarrierInv, MinAllReduce
    PROVE  ClientInv'
<1>1. /\ UNCHANGED <<clientVars, wpc, toReport>>
      /\ gVT' = [n \in Node |-> Reduction]
      /\ recv_min' = [n \in Node |-> Infinity]
      /\ local_min' = [w \in Worker |-> Infinity]
      /\ send_min' = [t \in Thread |-> Infinity]
      /\ mpc' = [n \in Node |-> "reset"]
  BY DEF MinAllReduce, Reduction, workerVars
<1>2. ClientTypes' /\ OneHolder'
  BY <1>1, ReductionIs, EventsAssumption
     DEF ClientInv, ClientTypes, OneHolder, clientVars, Nothing
<1>3. ASSUME NEW w \in Worker PROVE Holds(w)'
  <2>1. Holds(w) /\ ~ Computing(w[1])'
    BY <1>1, OwnNode DEF ClientInv, Computing
  <2> QED
    BY <1>1, <2>1 DEF Holds, clientVars, Serves, Nothing, LP
<1> QED
  BY <1>2, <1>3 DEF ClientInv

LEMMA ClientNext ==
    ASSUME ClientInv, BarrierInv, CountInv, EveryQueueServed, [Next]_vars
    PROVE  ClientInv'
<1>1. ASSUME NEW w \in Worker, WorkerStep(w) PROVE ClientInv'
  BY <1>1, ClientWorker
<1>2. ASSUME NEW n \in Node, ReceiveTerminator(n) \/ NotReady(n) \/ LoopTop(n)
                             \/ StoreFlag(n) \/ ReduceCount(n) \/ SumAllReduce \/ EndGVT(n)
      PROVE  ClientInv'
  <2>1. UNCHANGED <<clientVars, wpc, toReport, send_min, local_min, recv_min, gVT>>
    BY <1>2 DEF ReceiveTerminator, NotReady, LoopTop, StoreFlag, ReduceCount, SumAllReduce,
                EndGVT, gvtVars, workerVars
  <2>2. \A k \in Node : Computing(k)' => Computing(k)
    BY <1>2 DEF ReceiveTerminator, NotReady, LoopTop, StoreFlag, ReduceCount, SumAllReduce,
                EndGVT, MasterAt, MasterGoes, Computing, BarrierInv, Places
  <2> QED
    BY <2>1, <2>2, SameClient
<1>3. ASSUME NEW n \in Node, MasterStep(n) PROVE ClientInv'
  BY <1>2, <1>3, ClientBarrier, ClientBegin, ClientReduce DEF MasterStep
<1>4. ASSUME NEW m \in transit, ReceiveEvent(m) PROVE ClientInv'
  BY <1>4, ClientReceive
<1>5. CASE UNCHANGED vars
  <2>1. \A k \in Node : Computing(k)' => Computing(k)
    BY <1>5 DEF vars, Computing
  <2> QED
    BY <1>5, <2>1, SameClient DEF vars, gvtVars, workerVars
<1> QED
  BY <1>1, <1>3, <1>4, <1>5 DEF Next
-----------------------------------------------------------------------------
(* The nodes compute in step.                                              *)

(* The reductions a node has taken part in.                                *)
Reduced(n) == IF Computing(n) THEN rounds[n] - 1 ELSE rounds[n]

StepInv ==
    /\ rounds \in [Node -> Nat]
    /\ \A n, k \in Node : Reduced(n) = Reduced(k)

LEMMA StepInit == Init => StepInv
  BY DEF Init, StepInv, Reduced, Computing

LEMMA SameStep ==
    ASSUME StepInv, UNCHANGED rounds, \A n \in Node : Computing(n)' = Computing(n)
    PROVE  StepInv'
<1>1. \A n \in Node : Reduced(n)' = Reduced(n)
  BY DEF Reduced
<1> QED
  BY <1>1 DEF StepInv

LEMMA BeginStep ==
    ASSUME StepInv, BarrierInv, NEW n \in Node, BeginGVT(n)
    PROVE  StepInv' /\ \A k \in Node \ {n} : Computing(k)' = Computing(k)
<1>1. /\ rounds' = [rounds EXCEPT ![n] = rounds[n] + 1] /\ rounds' \in [Node -> Nat]
      /\ mpc[n] = "handleMessages" /\ mpc'[n] = "storeFlag"
      /\ \A k \in Node \ {n} : mpc'[k] = mpc[k]
  BY DEF BeginGVT, MasterAt, MasterGoes, StepInv, BarrierInv, Places
<1>2. ASSUME NEW k \in Node PROVE Reduced(k)' = Reduced(k)
  <2>1. CASE k = n
    BY <1>1, <2>1 DEF Reduced, Computing, StepInv
  <2>2. CASE k # n
    BY <1>1, <2>2 DEF Reduced, Computing, StepInv
  <2> QED
    BY <2>1, <2>2
<1> QED
  BY <1>1, <1>2 DEF StepInv, Computing

LEMMA ReduceStep ==
    ASSUME StepInv, MinAllReduce
    PROVE  StepInv' /\ \A n \in Node : ~ Computing(n)'
<1>1. \A n \in Node : mpc[n] = "minAllReduce" /\ mpc'[n] = "reset" /\ rounds' = rounds
  BY DEF MinAllReduce, MasterAt
<1>2. \A n \in Node : Reduced(n) = rounds[n] - 1 /\ Reduced(n)' = rounds[n]
  BY <1>1 DEF Reduced, Computing
<1>3. \A n, k \in Node : rounds[n] = rounds[k]
  BY <1>2 DEF StepInv
<1>4. rounds' = rounds /\ \A n \in Node : ~ Computing(n)'
  BY <1>1, NodesFinite DEF Computing
<1>5. ASSUME NEW n \in Node, NEW k \in Node PROVE Reduced(n)' = Reduced(k)'
  BY <1>2, <1>3
<1> QED
  BY <1>4, <1>5 DEF StepInv

(* All other steps leave alone who is computing.                           *)
LEMMA SameComputing ==
    ASSUME BarrierInv, [Next]_vars, \A n \in Node : ~ BeginGVT(n), ~ MinAllReduce
    PROVE  UNCHANGED rounds /\ \A n \in Node : Computing(n)' = Computing(n)
<1>1. CASE UNCHANGED <<mpc, rounds>>
  BY <1>1 DEF Computing
<1>2. ASSUME NEW w \in Worker, WorkerStep(w) PROVE UNCHANGED <<mpc, rounds>>
  BY <1>2 DEF WorkerStep, Top, GetEvent, reportThreadMin, SendLocal, SendRemote,
              reportThreadSendMin, ReplenishScheduler
<1>3. ASSUME NEW m \in transit, ReceiveEvent(m) PROVE UNCHANGED <<mpc, rounds>>
  BY <1>3 DEF ReceiveEvent
<1>4. ASSUME NEW n \in Node, ReceiveTerminator(n) PROVE UNCHANGED <<mpc, rounds>>
  BY <1>4 DEF ReceiveTerminator
<1>5. ASSUME NEW n \in Node, NotReady(n) \/ LoopTop(n) \/ StoreFlag(n) \/ Barrier1(n)
                             \/ ReduceCount(n) \/ EndGVT(n) \/ Barrier2(n)
      PROVE  UNCHANGED rounds /\ \A k \in Node : Computing(k)' = Computing(k)
  BY <1>5 DEF NotReady, LoopTop, StoreFlag, Barrier1, ReduceCount, EndGVT, Barrier2, MasterAt,
              MasterGoes, Computing, BarrierInv, Places
<1>6. CASE SumAllReduce
  BY <1>6 DEF SumAllReduce, MasterAt, Computing
<1> QED
  BY <1>1, <1>2, <1>3, <1>4, <1>5, <1>6 DEF Next, MasterStep, vars

LEMMA StepNext ==
    ASSUME StepInv, BarrierInv, [Next]_vars
    PROVE  StepInv'
  BY BeginStep, ReduceStep, SameComputing, SameStep

(* With Settled, a computation begins with nothing of the new color under  *)
(* way.                                                                    *)
LEMMA BeginsClean ==
    ASSUME StepInv, Settled, \A k \in Node : ~ Computing(k), NEW n \in Node, BeginGVT(n)
    PROVE  \A m \in transit : m.color = WHITE
<1>1. \A k \in Node : rounds[k] \in Nat /\ rounds[k] = rounds[n]
  BY DEF StepInv, Reduced
<1> QED
  BY <1>1 DEF BeginGVT
(* Every message of the new color is known to the node that sent it.       *)
Sender(w, ts) == /\ Computing(w[1])
                 /\ \/ send_min[w] <= ts
                    \/ mpc[w[1]] = "barrier1" /\ wpc[w] = "reportSend" /\ toReport[w] <= ts

TransitInv ==
    /\ NumNodes = 1 => transit = {}
    /\ (\E n \in Node : Computing(n)) =>
           \A m \in transit : m.color = RED => \E w \in Worker : Sender(w, m.ts)

(* What nothing in the code ensures where there are several nodes.         *)
InTime == (Prompt /\ Settled) \/ NumNodes = 1

LEMMA TransitInit == Init => TransitInv
  BY DEF Init, ClientInit, TransitInv

(* What a worker has sent stays known until the minima are reduced.        *)
LEMMA SenderStays ==
    ASSUME ClientInv, ClientInv', BarrierInv, CountInv, NEW w \in Worker, NEW ts \in Nat,
           Sender(w, ts), [Next]_vars, ~ MinAllReduce
    PROVE  Sender(w, ts)'
<1>1. w[1] \in Node /\ Computing(w[1]) /\ w \in Thread /\ w \in NodeWorkers(w[1])
  BY OwnNode DEF Sender, Thread
<1>2. Computing(w[1])'
  <2>1. CASE \E n \in Node : BeginGVT(n)
    <3>1. PICK n \in Node : BeginGVT(n)
      BY <2>1
    <3> QED
      BY <1>1, <3>1 DEF BeginGVT, MasterAt, MasterGoes, Computing, BarrierInv, Places
  <2>2. CASE ~ \E n \in Node : BeginGVT(n)
    BY <1>1, <2>2, SameComputing
  <2> QED
    BY <2>1, <2>2
<1>3. send_min[w] \in Nat /\ send_min'[w] \in Nat /\ toReport[w] \in Nat
  BY <1>1 DEF ClientInv, ClientTypes
<1>4. send_min'[w] <= send_min[w]
  <2>1. CASE send_min' = send_min
    BY <1>3, <2>1
  <2>2. ASSUME NEW v \in Worker, reportThreadSendMin(v) PROVE send_min'[w] <= send_min[w]
    <3>1. send_min' = SendMinAfter(v, toReport[v]) /\ v \in Thread /\ toReport[v] \in Nat
      BY <2>2 DEF reportThreadSendMin, Thread, ClientInv, ClientTypes
    <3> QED
      BY <1>1, <1>3, <3>1, SendMinIs DEF ClientInv
  <2>3. ASSUME NEW v \in Worker, WorkerStep(v), ~ reportThreadSendMin(v)
        PROVE  send_min' = send_min
    BY <2>3 DEF WorkerStep, Top, GetEvent, reportThreadMin, SendLocal, SendRemote,
                ReplenishScheduler, gvtVars
  <2>4. ASSUME NEW n \in Node, MasterStep(n) PROVE send_min' = send_min
    BY <2>4 DEF MasterStep, ReceiveTerminator, NotReady, LoopTop, BeginGVT, StoreFlag,
                Barrier1, ReduceCount, SumAllReduce, EndGVT, Barrier2, gvtVars
  <2>5. ASSUME NEW m \in transit, ReceiveEvent(m) PROVE send_min'[w] <= send_min[w]
    <3>1. NodeOf[m.lp] \in Node
      BY LPNode DEF CountInv
    <3> QED
      BY <1>3, <2>5, <3>1, MasterIsThread DEF ReceiveEvent, SendMinAfter, ClientInv, ClientTypes
  <2> QED
    BY <2>1, <2>2, <2>3, <2>4, <2>5 DEF Next, vars, gvtVars
<1>5. CASE send_min[w] <= ts
  BY <1>2, <1>3, <1>4, <1>5 DEF Sender
<1>6. CASE mpc[w[1]] = "barrier1" /\ wpc[w] = "reportSend" /\ toReport[w] <= ts
  <2>1. CASE reportThreadSendMin(w)
    <3>1. local_gvt_flag[w[1]] > 0
      BY <1>1, <1>6 DEF BarrierInv, NodeInv, Raised
    <3>2. send_min'[w] <= toReport[w]
      BY <1>1, <1>3, <2>1, <3>1, SendMinIs DEF reportThreadSendMin, ClientInv
    <3> QED
      BY <1>2, <1>3, <1>6, <3>2 DEF Sender
  <2>2. CASE ~ reportThreadSendMin(w)
    <3>1. ASSUME NEW v \in Worker, WorkerStep(v)
          PROVE  mpc' = mpc /\ wpc'[w] = wpc[w] /\ toReport'[w] = toReport[w]
      <4>1. CASE v # w
        <5>1. mpc' = mpc /\ wpc'[w] = wpc[w]
          BY <3>1, <4>1 DEF WorkerStep, Top, GetEvent, reportThreadMin, SendLocal, SendRemote,
                            reportThreadSendMin, ReplenishScheduler, Goes, BarrierInv, Places
        <5>2. toReport'[w] = toReport[w]
          BY <3>1, <4>1 DEF WorkerStep, Top, GetEvent, reportThreadMin, SendLocal, SendRemote,
                            reportThreadSendMin, ReplenishScheduler, ClientInv, ClientTypes
        <5> QED
          BY <5>1, <5>2
      <4>2. CASE v = w
        BY <1>6, <2>2, <3>1, <4>2
           DEF WorkerStep, Top, GetEvent, reportThreadMin, SendLocal, SendRemote,
               ReplenishScheduler
      <4> QED
        BY <4>1, <4>2
    <3>2. ASSUME NEW n \in Node, MasterStep(n)
          PROVE  mpc'[w[1]] = mpc[w[1]] /\ wpc'[w] = wpc[w] /\ toReport'[w] = toReport[w]
      <4>1. n = w[1] => ~ Barrier1(n) /\ ~ Barrier2(n)
        BY <1>1, <1>6 DEF Barrier1, Barrier2, MasterAt
      <4>2. wpc'[w] = wpc[w] /\ toReport'[w] = toReport[w]
        BY <3>2, <4>1
           DEF MasterStep, ReceiveTerminator, NotReady, LoopTop, BeginGVT, StoreFlag, Barrier1,
               ReduceCount, SumAllReduce, MinAllReduce, EndGVT, Barrier2, workerVars
      <4>3. mpc'[w[1]] = mpc[w[1]]
        BY <1>1, <1>6, <3>2, <4>1
           DEF MasterStep, ReceiveTerminator, NotReady, LoopTop, BeginGVT, StoreFlag, Barrier1,
               ReduceCount, SumAllReduce, MinAllReduce, EndGVT, Barrier2, MasterAt, MasterGoes,
               BarrierInv, Places
      <4> QED
        BY <4>2, <4>3
    <3>3. ASSUME NEW m \in transit, ReceiveEvent(m)
          PROVE  mpc' = mpc /\ wpc'[w] = wpc[w] /\ toReport'[w] = toReport[w]
      BY <3>3 DEF ReceiveEvent, workerVars
    <3>4. mpc'[w[1]] = mpc[w[1]] /\ wpc'[w] = wpc[w] /\ toReport'[w] = toReport[w]
      BY <3>1, <3>2, <3>3 DEF Next, vars, workerVars
    <3> QED
      BY <1>2, <1>6, <3>4 DEF Sender
  <2> QED
    BY <2>1, <2>2
<1> QED
  BY <1>5, <1>6 DEF Sender

LEMMA TransitNext ==
    ASSUME TransitInv, StepInv, ClientInv, ClientInv', BarrierInv, CountInv, InTime,
           [Next]_vars
    PROVE  TransitInv'
<1>0. ASSUME NumNodes = 1 PROVE transit' = {} /\ TransitInv'
  <2>1. transit = {}
    BY <1>0 DEF TransitInv
  <2>2. ASSUME NEW w \in Worker, NEW lp \in LP, NEW ts \in SendTimes, SendRemote(w, lp, ts)
        PROVE  FALSE
    <3>1. w[1] \in Node /\ NodeOf[lp] \in Node
      BY OwnNode, EventsAssumption
    <3>2. w[1] = 0 /\ NodeOf[lp] = 0
      BY <1>0, <3>1 DEF Node
    <3> QED
      BY <2>2, <3>2 DEF SendRemote
  <2>3. transit' \subseteq transit
    BY <2>2 DEF Next, WorkerStep, MasterStep, Top, GetEvent, reportThreadMin, SendLocal,
                reportThreadSendMin, ReplenishScheduler, ReceiveEvent, ReceiveTerminator,
                NotReady, LoopTop, BeginGVT, StoreFlag, Barrier1, ReduceCount, SumAllReduce,
                MinAllReduce, EndGVT, Barrier2, clientVars, vars
  <2>4. transit' = {}
    BY <2>1, <2>3
  <2> QED
    BY <2>4 DEF TransitInv
<1> SUFFICES ASSUME NumNodes # 1, Prompt, Settled PROVE TransitInv'
  BY <1>0 DEF InTime
<1>1. CASE MinAllReduce
  BY <1>1, ReduceStep DEF TransitInv
<1>2. CASE ~ MinAllReduce
  <2> SUFFICES ASSUME NEW n \in Node, Computing(n)', NEW m \in transit', m.color = RED
               PROVE  \E w \in Worker : Sender(w, m.ts)'
    BY DEF TransitInv
  <2>1. CASE m \in transit
    <3>1. \E k \in Node : Computing(k)
      <4>1. CASE \E j \in Node : BeginGVT(j)
        BY <2>1, <4>1, BeginsClean DEF WHITE, RED
      <4>2. CASE ~ \E j \in Node : BeginGVT(j)
        BY <1>2, <4>2, SameComputing
      <4> QED
        BY <4>1, <4>2
    <3>2. PICK w \in Worker : Sender(w, m.ts)
      BY <2>1, <3>1 DEF TransitInv
    <3>3. m.ts \in Nat
      BY <2>1 DEF CountInv
    <3>4. Sender(w, m.ts)'
      BY <1>2, <3>2, <3>3, SenderStays
    <3> QED
      BY <3>4
  <2>2. CASE m \notin transit
    <3>1. PICK w \in Worker, lp \in LP, ts \in SendTimes : SendRemote(w, lp, ts)
      BY <2>2 DEF Next, WorkerStep, MasterStep, Top, GetEvent, reportThreadMin, SendLocal,
                  reportThreadSendMin, ReplenishScheduler, ReceiveEvent, ReceiveTerminator,
                  NotReady, LoopTop, BeginGVT, StoreFlag, Barrier1, ReduceCount, SumAllReduce,
                  MinAllReduce, EndGVT, Barrier2, clientVars, vars
    <3>2. /\ m.ts = ts /\ color_[w[1]] = RED /\ toReport'[w] = ts /\ ts \in Nat
          /\ wpc[w] = "process" /\ wpc'[w] = "reportSend" /\ mpc' = mpc
          /\ mpc[w[1]] # "storeFlag"
      <4>1. /\ m = [lp |-> lp, ts |-> ts, color |-> color_[w[1]]]
            /\ toReport' = [toReport EXCEPT ![w] = ts]
            /\ wpc' = [wpc EXCEPT ![w] = "reportSend"]
            /\ wpc[w] = "process" /\ mpc' = mpc /\ mpc[w[1]] # "storeFlag"
        BY <2>2, <3>1 DEF SendRemote, Goes
      <4> QED
        BY <4>1, EventsAssumption DEF ClientInv, ClientTypes, BarrierInv, Places
    <3>3. w[1] \in Node /\ w \in NodeWorkers(w[1])
      BY OwnNode
    <3>4. mpc[w[1]] = "barrier1"
      BY <3>2, <3>3 DEF BarrierInv, NodeInv, Computing, Stopped
    <3>5. Sender(w, m.ts)'
      BY <3>2, <3>4 DEF Sender, Computing
    <3> QED
      BY <3>5
  <2> QED
    BY <2>1, <2>2
<1> QED
  BY <1>1, <1>2
-----------------------------------------------------------------------------
(* Every pending event is known to its node.                               *)

Open(n) == mpc[n] \in {"barrier1", "flushMessages", "sumAllReduce", "minAllReduce"}

(* A worker that will report, or has reported, what it holds.              *)
Committed(w) == \/ wpc[w] = "report" /\ flag[w] > 0
                \/ wpc[w] \in {"barrier1", "barrier2"}

Reports(w, ts) == wpc[w] = "reportSend" /\ toReport[w] <= ts

Known(n, ts) == \/ \E w \in NodeWorkers(n) : Committed(w) /\ taken[w].ts <= ts
                \/ \E w \in NodeWorkers(n) : Reports(w, ts)
                \/ \E t \in NodeThreads(n) : send_min[t] <= ts

(* A worker has yet to ask the LP's queue for its next event.              *)
ToBeTaken(n, lp) == /\ \A w \in NodeWorkers(n) : Committed(w) => taken[w].lp # lp
                    /\ \E w \in NodeWorkers(n) : Serves(w, lp) /\ ~ Committed(w)

PendingAt(n) == Open(n) => \A lp \in LP : NodeOf[lp] = n =>
                    \A ts \in pending[lp] : ToBeTaken(n, lp) \/ Known(n, ts)

PendingInv == \A n \in Node : PendingAt(n)

LEMMA PendingInit == Init => PendingInv
  BY DEF Init, PendingInv, PendingAt, Open

(* What the workers of a node that are committed hold stays.               *)
SameCommitted(n) ==
    \A w \in NodeWorkers(n) : /\ Committed(w)' = Committed(w)
                              /\ Committed(w) => taken'[w] = taken[w]

(* What a node has sent or received stays known.                           *)
SentStays(n) ==
    /\ \A w \in NodeWorkers(n) : wpc[w] = "reportSend" =>
           \/ wpc'[w] = "reportSend" /\ toReport'[w] = toReport[w]
           \/ send_min'[w] <= toReport[w]
    /\ \A t \in NodeThreads(n) : send_min'[t] <= send_min[t]

LEMMA ToBeTakenStays ==
    ASSUME NEW n \in Node, NEW lp \in LP, SameCommitted(n), ToBeTaken(n, lp)
    PROVE  ToBeTaken(n, lp)'
<1>1. NodeWorkers(n)' = NodeWorkers(n)
  BY DEF NodeWorkers
<1>2. \A w \in Worker : Serves(w, lp)' = Serves(w, lp)
  BY DEF Serves
<1> QED
  BY <1>1, <1>2, NodeWorker DEF ToBeTaken, SameCommitted

LEMMA SentIsKnown ==
    ASSUME ClientTypes, ClientTypes', NEW n \in Node, NEW ts \in Nat, SentStays(n),
           \/ \E w \in NodeWorkers(n) : Reports(w, ts)
           \/ \E t \in NodeThreads(n) : send_min[t] <= ts
    PROVE  Known(n, ts)'
<1>1. NodeWorkers(n)' = NodeWorkers(n) /\ NodeThreads(n)' = NodeThreads(n)
  BY DEF NodeWorkers, NodeThreads, Master
<1>2. \A t \in NodeThreads(n) : send_min[t] \in Nat /\ send_min'[t] \in Nat
  BY NodeThread DEF ClientTypes
<1>3. ASSUME NEW t \in NodeThreads(n), send_min'[t] <= ts PROVE Known(n, ts)'
  BY <1>1, <1>3 DEF Known
<1>4. ASSUME NEW w \in NodeWorkers(n), Reports(w, ts) PROVE Known(n, ts)'
  <2>1. wpc[w] = "reportSend" /\ toReport[w] <= ts /\ toReport[w] \in Nat /\ w \in NodeThreads(n)
    BY <1>4, NodeWorker DEF Reports, ClientTypes, NodeThreads
  <2>2. CASE wpc'[w] = "reportSend" /\ toReport'[w] = toReport[w]
    <3>1. Reports(w, ts)'
      BY <2>1, <2>2 DEF Reports
    <3> QED
      BY <1>1, <3>1 DEF Known
  <2>3. CASE send_min'[w] <= toReport[w]
    <3>1. send_min'[w] <= ts
      BY <1>2, <2>1, <2>3
    <3> QED
      BY <1>3, <2>1, <3>1
  <2> QED
    BY <2>1, <2>2, <2>3 DEF SentStays
<1>5. ASSUME NEW t \in NodeThreads(n), send_min[t] <= ts PROVE Known(n, ts)'
  <2>1. send_min'[t] <= ts
    BY <1>2, <1>5 DEF SentStays
  <2> QED
    BY <1>3, <2>1
<1> QED
  BY <1>4, <1>5

LEMMA KnownStays ==
    ASSUME ClientTypes, ClientTypes', NEW n \in Node, NEW ts \in Nat, SameCommitted(n),
           SentStays(n), Known(n, ts)
    PROVE  Known(n, ts)'
<1>1. ASSUME NEW w \in NodeWorkers(n), Committed(w), taken[w].ts <= ts PROVE Known(n, ts)'
  <2>1. Committed(w)' /\ taken'[w].ts <= ts
    BY <1>1 DEF SameCommitted
  <2>2. w \in NodeWorkers(n)'
    BY DEF NodeWorkers
  <2> QED
    BY <2>1, <2>2 DEF Known
<1> QED
  BY <1>1, SentIsKnown DEF Known

(* A node whose committed workers stay as they are.                        *)
LEMMA PendingStays ==
    ASSUME ClientTypes, ClientTypes', NEW n \in Node, PendingAt(n), Open(n)' => Open(n),
           SameCommitted(n), Open(n) => SentStays(n),
           \A lp \in LP : NodeOf[lp] = n =>
               \A ts \in pending'[lp] : Open(n) => ts \in pending[lp] \/ Known(n, ts)'
    PROVE  PendingAt(n)'
<1> SUFFICES ASSUME Open(n), NEW lp \in LP, NodeOf[lp] = n, NEW ts \in pending'[lp]
             PROVE  ToBeTaken(n, lp)' \/ Known(n, ts)'
  BY DEF PendingAt
<1>1. CASE ts \in pending[lp]
  <2>1. ts \in Nat
    BY <1>1 DEF ClientTypes
  <2> QED
    BY <1>1, <2>1, ToBeTakenStays, KnownStays DEF PendingAt
<1> QED
  BY <1>1
(* Workers' steps.                                                         *)
LEMMA SentTogether ==
    ASSUME ClientTypes, NEW n \in Node, UNCHANGED send_min,
           \A w \in NodeWorkers(n) : wpc[w] = "reportSend" =>
               wpc'[w] = "reportSend" /\ toReport'[w] = toReport[w]
    PROVE  SentStays(n)
<1>1. \A t \in NodeThreads(n) : send_min[t] \in Nat
  BY NodeThread DEF ClientTypes
<1> QED
  BY <1>1 DEF SentStays

LEMMA OthersSent ==
    ASSUME ClientTypes, NEW n \in Node, NEW w \in Worker, UNCHANGED <<send_min, toReport>>,
           \A v \in Worker \ {w} : wpc'[v] = wpc[v], wpc[w] # "reportSend"
    PROVE  SentStays(n)
  BY SentTogether, NodeWorker

LEMMA PendingTop ==
    ASSUME PendingInv, ClientInv, ClientInv', BarrierInv, NEW w \in Worker, Top(w)
    PROVE  PendingInv'
<1>1. /\ wpc[w] = "top" /\ wpc'[w] \in {"exited", "getEvent"}
      /\ \A v \in Worker \ {w} : wpc'[v] = wpc[v] /\ flag'[v] = flag[v]
      /\ UNCHANGED <<pending, taken, send_min, toReport, mpc>>
  BY DEF Top, Goes, gvtVars, clientVars, BarrierInv, Places, WorkerPlaces
<1>2. ASSUME NEW n \in Node PROVE PendingAt(n)'
  <2>1. SameCommitted(n)
    BY <1>1, NodeWorker DEF SameCommitted, Committed
  <2>2. SentStays(n)
    BY <1>1, OthersSent DEF ClientInv
  <2> QED
    BY <1>1, <2>1, <2>2, PendingStays DEF PendingInv, ClientInv, Open
<1> QED
  BY <1>2 DEF PendingInv

LEMMA PendingReportMin ==
    ASSUME PendingInv, ClientInv, ClientInv', BarrierInv, NEW w \in Worker, reportThreadMin(w)
    PROVE  PendingInv'
<1>1. /\ wpc[w] = "report"
      /\ wpc'[w] \in (IF flag[w] > 0 THEN {"barrier1"} ELSE {"top", "process"})
      /\ \A v \in Worker \ {w} : wpc'[v] = wpc[v]
      /\ UNCHANGED <<flag, pending, taken, send_min, toReport, mpc>>
  BY AfterReportIs DEF reportThreadMin, Goes, clientVars, BarrierInv, Places, WorkerPlaces
<1>2. ASSUME NEW n \in Node PROVE PendingAt(n)'
  <2>1. SameCommitted(n)
    BY <1>1, NodeWorker DEF SameCommitted, Committed
  <2>2. SentStays(n)
    BY <1>1, OthersSent DEF ClientInv
  <2> QED
    BY <1>1, <2>1, <2>2, PendingStays DEF PendingInv, ClientInv, Open
<1> QED
  BY <1>2 DEF PendingInv

LEMMA PendingSend ==
    ASSUME PendingInv, ClientInv, ClientInv', BarrierInv, NEW w \in Worker,
           NEW lp \in LP, NEW ts \in SendTimes, SendLocal(w, lp, ts) \/ SendRemote(w, lp, ts)
    PROVE  PendingInv'
<1>1. /\ wpc[w] = "process" /\ wpc'[w] = "reportSend"
      /\ \A v \in Worker \ {w} : wpc'[v] = wpc[v] /\ toReport'[v] = toReport[v]
      /\ toReport'[w] = ts
      /\ UNCHANGED <<flag, taken, send_min, mpc>>
      /\ pending' = pending \/ (NodeOf[lp] = w[1] /\ Insert(lp, ts))
  BY DEF SendLocal, SendRemote, Goes, gvtVars, BarrierInv, Places, WorkerPlaces, ClientInv,
         ClientTypes
<1>2. ts \in Nat /\ w[1] \in Node /\ w \in NodeWorkers(w[1])
  BY EventsAssumption, OwnNode
<1>3. Known(w[1], ts)'
  <2>1. Reports(w, ts)' /\ w \in NodeWorkers(w[1])'
    BY <1>1, <1>2 DEF Reports, NodeWorkers
  <2> QED
    BY <2>1 DEF Known
<1>4. ASSUME NEW n \in Node PROVE PendingAt(n)'
  <2>1. SameCommitted(n)
    BY <1>1, NodeWorker DEF SameCommitted, Committed
  <2>2. SentStays(n)
    BY <1>1, SentTogether, NodeWorker DEF ClientInv
  <2>3. ASSUME NEW l \in LP, NodeOf[l] = n, NEW t \in pending'[l]
        PROVE  t \in pending[l] \/ Known(n, t)'
    <3>1. CASE pending' = pending
      BY <3>1
    <3>2. CASE NodeOf[lp] = w[1] /\ Insert(lp, ts)
      BY <1>2, <1>3, <2>3, <3>2, InsertKeeps DEF ClientInv
    <3> QED
      BY <1>1, <3>1, <3>2
  <2> QED
    BY <1>1, <2>1, <2>2, <2>3, PendingStays DEF PendingInv, ClientInv, Open
<1> QED
  BY <1>4 DEF PendingInv

LEMMA PendingReportSend ==
    ASSUME PendingInv, ClientInv, ClientInv', BarrierInv, NEW w \in Worker, reportThreadSendMin(w)
    PROVE  PendingInv'
<1>1. /\ wpc[w] = "reportSend" /\ wpc'[w] = "process"
      /\ \A v \in Worker \ {w} : wpc'[v] = wpc[v] /\ toReport'[v] = toReport[v]
      /\ UNCHANGED <<flag, pending, taken, mpc>>
      /\ send_min' = SendMinAfter(w, toReport[w])
      /\ w \in Thread /\ toReport[w] \in Nat
  BY DEF reportThreadSendMin, Goes, clientVars, BarrierInv, Places, WorkerPlaces, ClientInv,
         ClientTypes, Thread
<1>2. /\ \A t \in Thread : t # w => send_min'[t] = send_min[t]
      /\ send_min'[w] <= send_min[w]
      /\ local_gvt_flag[w[1]] > 0 => send_min'[w] <= toReport[w]
  BY <1>1, SendMinIs DEF ClientInv
<1>3. \A t \in Thread : send_min[t] \in Nat
  BY DEF ClientInv, ClientTypes
<1>4. ASSUME NEW n \in Node PROVE PendingAt(n)'
  <2>1. SameCommitted(n)
    BY <1>1, NodeWorker DEF SameCommitted, Committed
  <2>2. ASSUME Open(n) PROVE SentStays(n)
    <3>1. local_gvt_flag[n] > 0
      BY <2>2 DEF BarrierInv, NodeInv, Raised, Open
    <3>2. \A t \in NodeThreads(n) : send_min'[t] <= send_min[t]
      BY <1>2, <1>3, NodeThread
    <3>3. \A v \in NodeWorkers(n) : wpc[v] = "reportSend" =>
             \/ wpc'[v] = "reportSend" /\ toReport'[v] = toReport[v]
             \/ send_min'[v] <= toReport[v]
      BY <1>1, <1>2, <3>1, NodeWorker
    <3> QED
      BY <3>2, <3>3 DEF SentStays
  <2> QED
    BY <1>1, <2>1, <2>2, PendingStays DEF PendingInv, ClientInv, Open
<1> QED
  BY <1>4 DEF PendingInv

LEMMA PendingReplenish ==
    ASSUME PendingInv, ClientInv, ClientInv', BarrierInv, NEW w \in Worker, ReplenishScheduler(w)
    PROVE  PendingInv'
<1>1. /\ wpc[w] = "process" /\ wpc'[w] = "top"
      /\ \A v \in Worker \ {w} : wpc'[v] = wpc[v] /\ taken'[v] = taken[v]
      /\ UNCHANGED <<flag, send_min, toReport, mpc>>
      /\ \A lp \in LP : pending'[lp] \subseteq pending[lp]
  BY DEF ReplenishScheduler, Replenish, Goes, gvtVars, BarrierInv, Places, WorkerPlaces,
         ClientInv, ClientTypes
<1>2. ASSUME NEW n \in Node PROVE PendingAt(n)'
  <2>1. SameCommitted(n)
    BY <1>1, NodeWorker DEF SameCommitted, Committed
  <2>2. SentStays(n)
    BY <1>1, OthersSent DEF ClientInv
  <2> QED
    BY <1>1, <2>1, <2>2, PendingStays DEF PendingInv, ClientInv, Open
<1> QED
  BY <1>2 DEF PendingInv
LEMMA PendingGetEvent ==
    ASSUME PendingInv, ClientInv, ClientInv', BarrierInv, NEW w \in Worker, GetEvent(w)
    PROVE  PendingInv'
<1>1. PICK event \in NextEvents(w) : taken' = [taken EXCEPT ![w] = event]
  BY DEF GetEvent, Take
<1>2. /\ wpc[w] = "getEvent" /\ wpc'[w] = "report"
      /\ \A v \in Worker \ {w} : wpc'[v] = wpc[v] /\ taken'[v] = taken[v]
      /\ taken'[w] = event /\ taken[w] = Nothing
      /\ UNCHANGED <<flag, pending, send_min, toReport, mpc>>
  BY <1>1 DEF GetEvent, Goes, gvtVars, BarrierInv, Places, WorkerPlaces, ClientInv,
              ClientTypes, Holds
<1>3. /\ event \in [lp : Nat, ts : Nat]
      /\ event # Nothing => /\ event.lp \in LP
                            /\ event.ts \in pending[event.lp]
                            /\ Serves(w, event.lp)
                            /\ \A v \in Worker : taken[v].lp # event.lp
      /\ \A lp \in LP : Serves(w, lp) =>
            \/ \E v \in Worker : taken[v].lp = lp
            \/ \A ts \in pending[lp] : event.ts <= ts
  BY NextEventIs
<1>4. \A n \in Node : SentStays(n)
  BY <1>2, OthersSent DEF ClientInv
<1>5. \A v \in Worker \ {w} : Committed(v)' = Committed(v)
  BY <1>2 DEF Committed
<1>6. ~ Committed(w)
  BY <1>2 DEF Committed
<1>7. ASSUME NEW n \in Node, ~ (n = w[1] /\ Committed(w)') PROVE PendingAt(n)'
  <2>1. SameCommitted(n)
    <3> SUFFICES ASSUME NEW v \in NodeWorkers(n)
                 PROVE  /\ Committed(v)' = Committed(v)
                        /\ Committed(v) => taken'[v] = taken[v]
      BY DEF SameCommitted
    <3>1. CASE v = w
      <4>1. ~ Committed(w)'
        BY <1>7, <3>1, NodeWorker
      <4>2. Committed(w)' = FALSE /\ Committed(w) = FALSE
        BY <1>6, <4>1 DEF Committed
      <4> QED
        BY <3>1, <4>2
    <3>2. CASE v # w
      BY <1>2, <1>5, <3>2, NodeWorker
    <3> QED
      BY <3>1, <3>2
  <2> QED
    BY <1>2, <1>4, <2>1, PendingStays DEF PendingInv, ClientInv, Open
<1>8. ASSUME NEW n \in Node, n = w[1], Committed(w)' PROVE PendingAt(n)'
  <2> SUFFICES ASSUME Open(n), NEW lp \in LP, NodeOf[lp] = n, NEW ts \in pending[lp]
               PROVE  ToBeTaken(n, lp)' \/ Known(n, ts)'
    BY <1>2 DEF PendingAt, Open
  <2>1. /\ ts \in Nat /\ w \in NodeWorkers(n) /\ NodeWorkers(n)' = NodeWorkers(n)
        /\ ToBeTaken(n, lp) \/ Known(n, ts)
    BY <1>8, OwnNode DEF ClientInv, ClientTypes, PendingInv, PendingAt, NodeWorkers
  <2>2. ASSUME event.ts <= ts PROVE Known(n, ts)'
    <3>1. taken'[w].ts <= ts /\ Committed(w)'
      BY <1>2, <1>8, <2>2
    <3> QED
      BY <2>1, <3>1 DEF Known
  <2>3. CASE Known(n, ts)
    <3>1. ASSUME NEW v \in NodeWorkers(n), Committed(v), taken[v].ts <= ts PROVE Known(n, ts)'
      <4>1. v \in Worker \ {w}
        BY <1>6, <3>1, NodeWorker
      <4>2. Committed(v)' /\ taken'[v].ts <= ts
        BY <1>2, <1>5, <3>1, <4>1
      <4> QED
        BY <2>1, <4>2 DEF Known
    <3> QED
      BY <1>4, <2>1, <2>3, <3>1, SentIsKnown DEF Known, ClientInv
  <2>4. CASE ToBeTaken(n, lp)
    <3>1. CASE event.lp = lp
      <4>1. event # Nothing
        BY <3>1, NothingIs, LPNode
      <4>2. Serves(w, lp) /\ \A v \in Worker : taken[v].lp # lp
        BY <1>3, <3>1, <4>1
      <4>3. event.ts <= ts
        BY <1>3, <4>2
      <4> QED
        BY <2>2, <4>3
    <3>2. CASE event.lp # lp
      <4>1. PICK u \in NodeWorkers(n) : Serves(u, lp) /\ ~ Committed(u)
        BY <2>4 DEF ToBeTaken
      <4>2. ASSUME NEW v \in NodeWorkers(n), Committed(v)' PROVE taken'[v].lp # lp
        <5>1. CASE v = w
          BY <1>2, <3>2, <5>1
        <5>2. CASE v # w
          <6>1. v \in Worker \ {w}
            BY <5>2, NodeWorker
          <6>2. Committed(v) /\ taken'[v] = taken[v]
            BY <1>2, <1>5, <4>2, <6>1
          <6> QED
            BY <2>4, <6>2 DEF ToBeTaken
        <5> QED
          BY <5>1, <5>2
      <4>3. ASSUME NEW v \in NodeWorkers(n), v # w, Serves(v, lp), ~ Committed(v)
            PROVE  ToBeTaken(n, lp)'
        <5>1. Serves(v, lp)' /\ ~ Committed(v)'
          <6>1. v \in Worker \ {w}
            BY <4>3, NodeWorker
          <6> QED
            BY <1>5, <4>3, <6>1 DEF Serves
        <5> QED
          BY <2>1, <4>2, <5>1 DEF ToBeTaken
      <4>4. CASE u # w
        BY <4>1, <4>3, <4>4
      <4>5. CASE u = w /\ \A ts1 \in pending[lp] : event.ts <= ts1
        BY <2>2, <4>5
      <4>6. ASSUME NEW v \in Worker, taken[v].lp = lp PROVE ToBeTaken(n, lp)'
        <5>1. taken[v] # Nothing
          BY <4>6, NothingIs, LPNode
        <5>2. Serves(v, lp) /\ v # w
          BY <1>2, <4>6, <5>1 DEF ClientInv, Holds
        <5>3. v \in NodeWorkers(n)
          BY <5>2 DEF Serves, NodeWorkers
        <5>4. ~ Committed(v)
          BY <2>4, <4>6, <5>3 DEF ToBeTaken
        <5> QED
          BY <4>3, <5>2, <5>3, <5>4
      <4> QED
        BY <1>3, <4>1, <4>4, <4>5, <4>6
    <3> QED
      BY <3>1, <3>2
  <2> QED
    BY <2>1, <2>3, <2>4
<1> QED
  BY <1>7, <1>8 DEF PendingInv
(* When the flag is raised no worker has read it: all are still to ask     *)
(* their queues, and every queue has such a worker.                        *)
LEMMA PendingStoreFlag ==
    ASSUME PendingInv, ClientInv, BarrierInv, EveryQueueServed, NEW n \in Node, StoreFlag(n)
    PROVE  PendingInv'
<1>1. /\ mpc[n] = "storeFlag" /\ \A k \in Node \ {n} : mpc'[k] = mpc[k]
      /\ UNCHANGED <<wpc, flag, pending, taken, send_min, toReport>>
  BY DEF StoreFlag, MasterAt, MasterGoes, clientVars, workerVars, BarrierInv, Places
<1>2. ASSUME NEW k \in Node, k # n PROVE PendingAt(k)'
  <2>1. SameCommitted(k) /\ (Open(k)' => Open(k))
    BY <1>1, <1>2 DEF SameCommitted, Committed, Open
  <2>2. \A ts : Known(k, ts)' = Known(k, ts)
    BY <1>1 DEF Known, Committed, Reports, NodeWorkers, NodeThreads, Master
  <2>3. \A lp : ToBeTaken(k, lp)' = ToBeTaken(k, lp)
    BY <1>1 DEF ToBeTaken, Committed, Serves, NodeWorkers
  <2> QED
    BY <1>1, <2>1, <2>2, <2>3 DEF PendingAt, PendingInv
<1>3. PendingAt(n)'
  <2> SUFFICES ASSUME NEW lp \in LP, NodeOf[lp] = n PROVE ToBeTaken(n, lp)'
    BY DEF PendingAt
  <2>1. \A w \in NodeWorkers(n) : ~ Committed(w)'
    <3>1. \A w \in NodeWorkers(n) :
              /\ wpc[w] \notin {"barrier1", "barrier2"} /\ (wpc[w] \in Reads => flag[w] = 0)
      BY <1>1 DEF BarrierInv, NodeInv, Stopped
    <3> QED
      BY <1>1, <3>1 DEF Committed, Reads
  <2> DEFINE v == <<n, QueueOf[lp]>>
  <2>2. /\ QueueOf[lp] \in 0 .. NumSchedulers - 1
        /\ NumSchedulers \in 1 .. NumWorkers
    BY EventsAssumption DEF EveryQueueServed
  <2>3. v \in NodeWorkers(n)
    BY <2>2, SizesAssumption DEF NodeWorkers, Worker
  <2>4. QueueOf[lp] % NumSchedulers = QueueOf[lp]
    BY <2>2, SizesAssumption
  <2>5. Serves(v, lp)
    BY <2>4 DEF Serves
  <2>6. Serves(v, lp)' /\ NodeWorkers(n)' = NodeWorkers(n)
    BY <2>5 DEF Serves, NodeWorkers
  <2> HIDE DEF v
  <2>7. ASSUME NEW w \in NodeWorkers(n) PROVE ~ Committed(w)'
    BY <2>1
  <2> QED
    BY <2>3, <2>6, <2>7 DEF ToBeTaken
<1> QED
  BY <1>2, <1>3 DEF PendingInv

LEMMA PendingBarrier1 ==
    ASSUME PendingInv, ClientInv, ClientInv', BarrierInv, NEW n \in Node, Barrier1(n)
    PROVE  PendingInv'
<1>1. /\ mpc[n] = "barrier1" /\ mpc'[n] = "flushMessages"
      /\ \A k \in Node \ {n} : mpc'[k] = mpc[k]
      /\ \A w \in NodeWorkers(n) : wpc[w] = "barrier1" /\ wpc'[w] = "barrier2"
      /\ \A w \in Worker : w[1] # n => wpc'[w] = wpc[w]
      /\ UNCHANGED <<flag, pending, taken, send_min, toReport>>
  BY NodeWorker DEF Barrier1, MasterAt, MasterGoes, clientVars, gvtVars, BarrierInv, Places
<1>2. ASSUME NEW k \in Node PROVE PendingAt(k)'
  <2>1. SameCommitted(k) /\ (Open(k)' => Open(k))
    BY <1>1, NodeWorker DEF SameCommitted, Committed, Open
  <2>2. SentStays(k)
    BY <1>1, SentTogether, NodeWorker DEF ClientInv
  <2> QED
    BY <1>1, <2>1, <2>2, PendingStays DEF ClientInv, PendingInv
<1> QED
  BY <1>2 DEF PendingInv

LEMMA PendingReceive ==
    ASSUME PendingInv, ClientInv, ClientInv', BarrierInv, CountInv,
           NEW m \in transit, ReceiveEvent(m)
    PROVE  PendingInv'
<1>1. m.lp \in LP /\ m.ts \in Nat
  BY EventsAssumption DEF CountInv
<1>2. PICK n \in Node : n = NodeOf[m.lp]
  BY <1>1, LPNode
<1>3. /\ UNCHANGED <<taken, mpc, wpc, flag, toReport>>
      /\ mpc[n] \in {"handleMessages", "flushMessages"}
      /\ Insert(m.lp, m.ts) /\ send_min' = SendMinAfter(Master(n), m.ts)
  BY <1>2 DEF ReceiveEvent, workerVars
<1>4. /\ \A t \in Thread : t # Master(n) => send_min'[t] = send_min[t]
      /\ send_min'[Master(n)] <= send_min[Master(n)]
      /\ local_gvt_flag[n] > 0 => send_min'[Master(n)] <= m.ts
      /\ \A t \in Thread : send_min[t] \in Nat /\ send_min'[t] \in Nat
  BY <1>1, <1>3, SendMinIs, MasterIsThread DEF ClientInv, ClientTypes
<1>5. ASSUME NEW k \in Node PROVE PendingAt(k)'
  <2>1. SameCommitted(k) /\ Open(k)' = Open(k)
    BY <1>3 DEF SameCommitted, Committed, Open
  <2>2. \A t \in NodeThreads(k) : send_min'[t] <= send_min[t]
    BY <1>4, NodeThread
  <2>3. SentStays(k)
    BY <1>3, <2>2 DEF SentStays
  <2>4. ASSUME NEW lp \in LP, NodeOf[lp] = k, NEW ts \in pending'[lp], Open(k)
        PROVE  ts \in pending[lp] \/ Known(k, ts)'
    <3>1. CASE lp = m.lp /\ ts = m.ts
      <4>1. k = n /\ local_gvt_flag[n] > 0
        BY <1>2, <1>3, <2>4, <3>1 DEF BarrierInv, NodeInv, Raised, Open
      <4>2. send_min'[Master(n)] <= ts /\ Master(n) \in NodeThreads(k)'
        BY <1>4, <3>1, <4>1 DEF NodeThreads, Master
      <4> QED
        BY <4>2 DEF Known
    <3>2. CASE ~ (lp = m.lp /\ ts = m.ts)
      BY <1>1, <1>3, <2>4, <3>2, InsertKeeps DEF ClientInv
    <3> QED
      BY <3>1, <3>2
  <2> QED
    BY <1>3, <2>1, <2>3, <2>4, PendingStays DEF ClientInv, PendingInv
<1> QED
  BY <1>5 DEF PendingInv

LEMMA PendingMaster ==
    ASSUME PendingInv, ClientInv, ClientInv', BarrierInv, NEW n \in Node,
           \/ ReceiveTerminator(n) \/ NotReady(n) \/ LoopTop(n) \/ BeginGVT(n)
           \/ ReduceCount(n) \/ SumAllReduce \/ EndGVT(n) \/ Barrier2(n) \/ UNCHANGED vars
    PROVE  PendingInv'
<1>1. /\ UNCHANGED <<flag, pending, taken, send_min, toReport>>
      /\ \A k \in Node : Open(k)' => Open(k)
      /\ \A w \in Worker : wpc'[w] = wpc[w] \/ ~ Open(w[1])'
  <2>1. UNCHANGED <<flag, pending, taken, send_min, toReport>>
    BY DEF ReceiveTerminator, NotReady, LoopTop, BeginGVT, ReduceCount, SumAllReduce, EndGVT,
           Barrier2, clientVars, gvtVars, workerVars, vars
  <2>2. \A k \in Node : Open(k)' => Open(k)
    BY DEF ReceiveTerminator, NotReady, LoopTop, BeginGVT, ReduceCount, SumAllReduce, EndGVT,
           Barrier2, MasterAt, MasterGoes, BarrierInv, Places, Open, vars
  <2>3. ASSUME NEW w \in Worker PROVE wpc'[w] = wpc[w] \/ ~ Open(w[1])'
    <3>1. CASE Barrier2(n)
      BY <3>1 DEF Barrier2, MasterGoes, Open, BarrierInv, Places
    <3> QED
      BY <3>1 DEF ReceiveTerminator, NotReady, LoopTop, BeginGVT, ReduceCount, SumAllReduce,
                  EndGVT, workerVars, vars
  <2> QED
    BY <2>1, <2>2, <2>3
<1>2. ASSUME NEW k \in Node, Open(k)' PROVE PendingAt(k)'
  <2>1. \A w \in NodeWorkers(k) : wpc'[w] = wpc[w]
    BY <1>1, <1>2, NodeWorker
  <2>2. SameCommitted(k)
    BY <1>1, <2>1 DEF SameCommitted, Committed
  <2>3. SentStays(k)
    BY <1>1, <2>1, SentTogether DEF ClientInv
  <2> QED
    BY <1>1, <2>2, <2>3, PendingStays DEF ClientInv, PendingInv
<1>3. ASSUME NEW k \in Node, ~ Open(k)' PROVE PendingAt(k)'
  BY <1>3 DEF PendingAt
<1> QED
  BY <1>2, <1>3 DEF PendingInv

LEMMA PendingNext ==
    ASSUME PendingInv, ClientInv, ClientInv', BarrierInv, CountInv, EveryQueueServed,
           [Next]_vars
    PROVE  PendingInv'
<1>1. ASSUME NEW w \in Worker, WorkerStep(w) PROVE PendingInv'
  BY <1>1, PendingTop, PendingGetEvent, PendingReportMin, PendingSend, PendingReportSend,
     PendingReplenish DEF WorkerStep
<1>2. CASE MinAllReduce
  <2>1. \A n \in Node : ~ Open(n)'
    BY <1>2 DEF MinAllReduce, Open
  <2>2. ASSUME NEW n \in Node PROVE PendingAt(n)'
    BY <2>1 DEF PendingAt
  <2> QED
    BY <2>2 DEF PendingInv
<1>3. ASSUME NEW n \in Node, MasterStep(n) PROVE PendingInv'
  BY <1>2, <1>3, PendingMaster, PendingStoreFlag, PendingBarrier1 DEF MasterStep
<1>4. ASSUME NEW m \in transit, ReceiveEvent(m) PROVE PendingInv'
  BY <1>4, PendingReceive
<1>5. CASE UNCHANGED vars
  BY <1>5, PendingMaster, NodesFinite
<1> QED
  BY <1>1, <1>3, <1>4, <1>5 DEF Next
-----------------------------------------------------------------------------
(* The GVT is a lower bound.                                               *)

LEMMA TimesOf ==
    ASSUME NEW p, NEW ms, NEW ts
    PROVE  ts \in (UNION {p[lp] : lp \in LP}) \cup {m.ts : m \in ms}
               <=> (\E lp \in LP : ts \in p[lp]) \/ (\E m \in ms : ts = m.ts)
<1>1. ts \in UNION {p[lp] : lp \in LP} <=> \E lp \in LP : ts \in p[lp]
  OBVIOUS
<1>2. ts \in {m.ts : m \in ms} <=> \E m \in ms : ts = m.ts
  OBVIOUS
<1> QED
  BY <1>1, <1>2

LEMMA Outstanding ==
    ASSUME NEW ts
    PROVE  /\ ts \in OutstandingTimes
                  <=> (\E lp \in LP : ts \in pending[lp]) \/ (\E m \in transit : ts = m.ts)
           /\ ts \in OutstandingTimes'
                  <=> (\E lp \in LP : ts \in pending'[lp]) \/ (\E m \in transit' : ts = m.ts)
<1>1. ASSUME NEW p, NEW ms
      PROVE  ts \in (UNION {p[lp] : lp \in LP}) \cup {m.ts : m \in ms}
                 <=> (\E lp \in LP : ts \in p[lp]) \/ (\E m \in ms : ts = m.ts)
  BY TimesOf
<1> QED
  BY <1>1 DEF OutstandingTimes

LEMMA TimesAreNat ==
    ASSUME ClientInv, CountInv
    PROVE  OutstandingTimes \in SUBSET Nat
<1> SUFFICES ASSUME NEW ts \in OutstandingTimes PROVE ts \in Nat
  OBVIOUS
<1>1. (\E lp \in LP : ts \in pending[lp]) \/ (\E m \in transit : ts = m.ts)
  BY Outstanding
<1> QED
  BY <1>1 DEF ClientInv, ClientTypes, CountInv

(* Work comes from work: what a step adds is not earlier than something    *)
(* outstanding before.                                                     *)
FromWork == \A ts \in OutstandingTimes' :
                ts \in OutstandingTimes \/ \E s \in OutstandingTimes : s <= ts

LEMMA SameTimes ==
    ASSUME UNCHANGED <<pending, transit>>
    PROVE  OutstandingTimes' = OutstandingTimes
  BY DEF OutstandingTimes

LEMMA HeldIsOutstanding ==
    ASSUME ClientInv, NEW w \in Worker, taken[w] # Nothing
    PROVE  taken[w].ts \in OutstandingTimes /\ taken[w].ts \in Nat
  BY Outstanding DEF ClientInv, ClientTypes, Holds

LEMMA WorkOfSend ==
    ASSUME ClientInv, CountInv, NEW w \in Worker, NEW lp \in LP, NEW ts \in SendTimes,
           SendLocal(w, lp, ts) \/ SendRemote(w, lp, ts)
    PROVE  FromWork
<1>1. taken[w].ts \in OutstandingTimes /\ taken[w].ts <= ts
  BY HeldIsOutstanding, EventsAssumption DEF SendLocal, SendRemote, MayCause
<1>2. \/ pending' = pending /\ \E c : transit' = transit \cup {[lp |-> lp, ts |-> ts, color |-> c]}
      \/ Insert(lp, ts) /\ transit' = transit
  BY DEF SendLocal, SendRemote
<1> SUFFICES ASSUME NEW t \in OutstandingTimes', t # ts PROVE t \in OutstandingTimes
  BY <1>1 DEF FromWork
<1>3. (\E l \in LP : t \in pending'[l]) \/ (\E m \in transit' : t = m.ts)
  BY Outstanding
<1>4. CASE pending' = pending /\ \E c : transit' = transit \cup {[lp |-> lp, ts |-> ts, color |-> c]}
  BY <1>3, <1>4, Outstanding
<1>5. CASE Insert(lp, ts) /\ transit' = transit
  BY <1>3, <1>5, Outstanding, InsertKeeps, EventsAssumption DEF ClientInv
<1> QED
  BY <1>2, <1>4, <1>5

LEMMA WorkOfReplenish ==
    ASSUME ClientInv, NEW w \in Worker, ReplenishScheduler(w)
    PROVE  FromWork
<1>1. \A lp \in LP : pending'[lp] \subseteq pending[lp]
  BY DEF ReplenishScheduler, Replenish, ClientInv, ClientTypes
<1>2. transit' = transit
  BY DEF ReplenishScheduler
<1> QED
  BY <1>1, <1>2, Outstanding DEF FromWork

LEMMA WorkOfReceive ==
    ASSUME ClientInv, CountInv, NEW m \in transit, ReceiveEvent(m)
    PROVE  FromWork
<1>1. m.lp \in LP /\ m.ts \in Nat
  BY EventsAssumption DEF CountInv
<1>2. Insert(m.lp, m.ts) /\ transit' \subseteq transit
  BY DEF ReceiveEvent
<1> SUFFICES ASSUME NEW ts \in OutstandingTimes' PROVE ts \in OutstandingTimes
  BY DEF FromWork
<1>3. (\E l \in LP : ts \in pending'[l]) \/ (\E k \in transit' : ts = k.ts)
  BY Outstanding
<1>4. CASE \E l \in LP : ts \in pending'[l]
  <2>1. PICK l \in LP : ts \in pending'[l]
    BY <1>4
  <2>2. ts \in pending[l] \/ ts = m.ts
    BY <1>1, <1>2, <2>1, InsertKeeps DEF ClientInv
  <2> QED
    BY <2>2, Outstanding
<1>5. CASE \E k \in transit' : ts = k.ts
  BY <1>2, <1>5, Outstanding
<1> QED
  BY <1>3, <1>4, <1>5

LEMMA WorkFromWork ==
    ASSUME ClientInv, CountInv, [Next]_vars
    PROVE  FromWork
<1>1. CASE UNCHANGED <<pending, transit>>
  BY <1>1, SameTimes DEF FromWork
<1>2. ASSUME NEW w \in Worker, WorkerStep(w) PROVE FromWork
  <2>1. CASE Top(w) \/ GetEvent(w) \/ reportThreadMin(w) \/ reportThreadSendMin(w)
    BY <1>1, <2>1 DEF Top, GetEvent, reportThreadMin, reportThreadSendMin, clientVars
  <2> QED
    BY <1>2, <2>1, WorkOfSend, WorkOfReplenish DEF WorkerStep
<1>3. ASSUME NEW n \in Node, MasterStep(n) PROVE UNCHANGED <<pending, transit>>
  BY <1>3 DEF MasterStep, ReceiveTerminator, NotReady, LoopTop, BeginGVT, StoreFlag, Barrier1,
              ReduceCount, SumAllReduce, MinAllReduce, EndGVT, Barrier2, clientVars
<1>4. ASSUME NEW m \in transit, ReceiveEvent(m) PROVE FromWork
  BY <1>4, WorkOfReceive
<1> QED
  BY <1>1, <1>2, <1>3, <1>4 DEF Next, vars, clientVars

(* What no time a worker or master has recorded is earlier than.           *)
Floor(g) ==
    /\ \A ts \in OutstandingTimes : g <= ts
    /\ g <= Infinity
    /\ \A n \in Node : g <= recv_min[n]
    /\ \A t \in Thread : g <= send_min[t]
    /\ \A w \in Worker : /\ g <= local_min[w]
                         /\ wpc[w] = "reportSend" => g <= toReport[w]

FloorInv == /\ \A n \in Node : Floor(gVT[n])
            /\ \A n \in Node : recv_min[n] <= Infinity

LEMMA FloorInit == Init => FloorInv
<1> SUFFICES ASSUME Init PROVE FloorInv
  OBVIOUS
<1>1. ClientInv
  BY ClientStart
<1>2. transit = {} /\ \A n \in Node : gVT[n] = 0 /\ recv_min[n] = Infinity
  BY DEF Init, ClientInit
<1>3. \A ts \in OutstandingTimes : ts \in Nat
  BY <1>1, <1>2, Outstanding DEF ClientInv, ClientTypes
<1> QED
  BY <1>1, <1>2, <1>3, EventsAssumption DEF FloorInv, Floor, ClientInv, ClientTypes

(* Every step but the reduction respects a floor.                          *)
LEMMA BoundsStay ==
    ASSUME ClientInv, ClientInv', CountInv, CountInv', [Next]_vars, NEW g \in Nat, Floor(g)
    PROVE  \A ts \in OutstandingTimes' : g <= ts
<1> SUFFICES ASSUME NEW ts \in OutstandingTimes' PROVE g <= ts
  OBVIOUS
<1>1. OutstandingTimes \in SUBSET Nat
  BY TimesAreNat
<1>2. ts \in Nat
  <2>1. (\E lp \in LP : ts \in pending'[lp]) \/ (\E m \in transit' : ts = m.ts)
    BY Outstanding
  <2> QED
    BY <2>1 DEF ClientInv, ClientTypes, CountInv
<1>3. ts \in OutstandingTimes \/ \E s \in OutstandingTimes : s <= ts
  BY WorkFromWork DEF FromWork
<1> QED
  BY <1>1, <1>2, <1>3 DEF Floor

LEMMA SameFloor ==
    ASSUME NEW g \in Nat, Floor(g), \A ts \in OutstandingTimes' : g <= ts,
           UNCHANGED <<recv_min, send_min, local_min>>,
           \A w \in Worker : wpc'[w] = "reportSend" =>
               wpc[w] = "reportSend" /\ toReport'[w] = toReport[w]
    PROVE  Floor(g)'
  BY DEF Floor

LEMMA FloorWorker ==
    ASSUME ClientInv, ClientInv', BarrierInv, NEW w \in Worker, WorkerStep(w),
           NEW g \in Nat, Floor(g), \A ts \in OutstandingTimes' : g <= ts
    PROVE  Floor(g)' /\ recv_min' = recv_min
<1>1. recv_min' = recv_min
  BY DEF WorkerStep, Top, GetEvent, reportThreadMin, SendLocal, SendRemote,
         reportThreadSendMin, ReplenishScheduler, gvtVars
<1>2. CASE Top(w) \/ GetEvent(w) \/ ReplenishScheduler(w)
  <2>1. UNCHANGED <<recv_min, send_min, local_min, toReport>>
    BY <1>2 DEF Top, GetEvent, ReplenishScheduler, gvtVars
  <2>2. \A v \in Worker : wpc'[v] = "reportSend" => wpc[v] = "reportSend"
    BY <1>2 DEF Top, GetEvent, ReplenishScheduler, Goes, BarrierInv, Places
  <2> QED
    BY <2>1, <2>2, SameFloor
<1>3. CASE reportThreadMin(w)
  <2>1. UNCHANGED <<recv_min, send_min, toReport>>
    BY <1>3 DEF reportThreadMin
  <2>2. \A v \in Worker : wpc'[v] = "reportSend" => wpc[v] = "reportSend"
    BY <1>3, AfterReportIs DEF reportThreadMin, Goes, BarrierInv, Places
  <2>3. g <= taken[w].ts
    BY HeldIsOutstanding, NothingIs DEF Floor
  <2>4. \A v \in Worker : g <= local_min'[v]
    BY <1>3, <2>3 DEF reportThreadMin, Floor, ClientInv, ClientTypes
  <2> QED
    BY <1>1, <2>1, <2>2, <2>4 DEF Floor
<1>4. ASSUME NEW lp \in LP, NEW ts \in SendTimes, SendLocal(w, lp, ts) \/ SendRemote(w, lp, ts)
      PROVE  Floor(g)'
  <2>1. /\ UNCHANGED <<recv_min, send_min, local_min>>
        /\ toReport' = [toReport EXCEPT ![w] = ts]
        /\ taken[w] # Nothing /\ taken[w].ts < ts
        /\ wpc' = [wpc EXCEPT ![w] = "reportSend"]
    BY <1>4 DEF SendLocal, SendRemote, gvtVars, MayCause, Goes
  <2>2. g <= ts
    BY <2>1, HeldIsOutstanding, EventsAssumption DEF Floor
  <2>3. \A v \in Worker : wpc'[v] = "reportSend" => g <= toReport'[v]
    BY <2>1, <2>2 DEF Floor, ClientInv, ClientTypes, BarrierInv, Places
  <2> QED
    BY <2>1, <2>3 DEF Floor
<1>5. CASE reportThreadSendMin(w)
  <2>1. /\ UNCHANGED <<recv_min, local_min>> /\ wpc[w] = "reportSend" /\ w \in Thread
        /\ send_min' = SendMinAfter(w, toReport[w]) /\ toReport[w] \in Nat
        /\ toReport' = [toReport EXCEPT ![w] = Infinity] /\ wpc' = [wpc EXCEPT ![w] = "process"]
    BY <1>5 DEF reportThreadSendMin, Goes, Thread, ClientInv, ClientTypes
  <2>2. \A t \in Thread : g <= send_min'[t]
    BY <2>1, SendMinIs DEF Floor, ClientInv
  <2>3. \A v \in Worker : wpc'[v] = "reportSend" => g <= toReport'[v]
    BY <2>1 DEF Floor, ClientInv, ClientTypes, BarrierInv, Places
  <2> QED
    BY <2>1, <2>2, <2>3 DEF Floor
<1> QED
  BY <1>1, <1>2, <1>3, <1>4, <1>5 DEF WorkerStep

LEMMA FloorReceive ==
    ASSUME ClientInv, ClientInv', CountInv, NEW m \in transit, ReceiveEvent(m),
           NEW g \in Nat, Floor(g), \A ts \in OutstandingTimes' : g <= ts
    PROVE  Floor(g)'
<1>1. m.lp \in LP /\ m.ts \in Nat /\ g <= m.ts
  BY EventsAssumption, Outstanding DEF CountInv, Floor
<1>2. PICK n \in Node : n = NodeOf[m.lp]
  BY <1>1, LPNode
<1>3. /\ UNCHANGED <<local_min, wpc, toReport>> /\ send_min' = SendMinAfter(Master(n), m.ts)
      /\ recv_min' \in {recv_min, [recv_min EXCEPT ![n] = Min(recv_min[n], m.ts)]}
  BY <1>2 DEF ReceiveEvent, workerVars
<1>4. \A t \in Thread : g <= send_min'[t]
  BY <1>1, <1>3, SendMinIs, MasterIsThread DEF Floor, ClientInv
<1>5. recv_min[n] \in Nat /\ g <= recv_min[n]
  BY DEF ClientInv, ClientTypes, Floor
<1>6. g <= Min(recv_min[n], m.ts)
  BY <1>1, <1>5, MinIs
<1>7. \A k \in Node : g <= recv_min'[k]
  BY <1>3, <1>6 DEF Floor, ClientInv, ClientTypes
<1> QED
  BY <1>3, <1>4, <1>7 DEF Floor
(* What the nodes reduce bounds all there is: a pending event by what a    *)
(* stopped worker holds or what its node has sent or received, a message   *)
(* under way, which has the new color, by its sender.                      *)
LEMMA ReductionIsBound ==
    ASSUME ClientInv, BarrierInv, CountInv, TransitInv, PendingInv, MinAllReduce
    PROVE  \A ts \in OutstandingTimes : Reduction <= ts
<1>1. /\ \A n \in Node : mpc[n] = "minAllReduce" /\ Computing(n) /\ Open(n)
      /\ Whites = {}
  BY NodesFinite DEF MinAllReduce, MasterAt, Computing, Open, CountInv, AtMinimum
<1>2. \A n \in Node : \A w \in NodeWorkers(n) : wpc[w] = "barrier2"
  BY <1>1 DEF BarrierInv, NodeInv, Stopped
<1>3. Reduction \in Nat /\ \A k \in Node : \A x \in Minima(k) : x \in Nat /\ Reduction <= x
  BY ReductionIs DEF ClientInv
<1>4. ASSUME NEW lp \in LP, NEW ts \in pending[lp] PROVE Reduction <= ts
  <2>1. PICK n \in Node : n = NodeOf[lp]
    BY LPNode
  <2>2. ts \in Nat
    BY DEF ClientInv, ClientTypes
  <2>3. ToBeTaken(n, lp) \/ Known(n, ts)
    BY <1>1, <2>1 DEF PendingInv, PendingAt
  <2>4. ~ ToBeTaken(n, lp)
    BY <1>2 DEF ToBeTaken, Committed
  <2>5. ASSUME NEW w \in NodeWorkers(n), taken[w].ts <= ts PROVE Reduction <= ts
    <3>1. local_min[w] = taken[w].ts /\ local_min[w] \in Minima(n)
      BY <1>1, <1>2, NodeWorker DEF ClientInv, Holds, Minima
    <3>2. Reduction <= local_min[w] /\ local_min[w] \in Nat
      BY <1>3, <3>1
    <3> QED
      BY <1>3, <2>2, <2>5, <3>1, <3>2
  <2>6. ASSUME NEW t \in NodeThreads(n), send_min[t] <= ts PROVE Reduction <= ts
    <3>1. send_min[t] \in Minima(n)
      BY DEF Minima
    <3>2. Reduction <= send_min[t] /\ send_min[t] \in Nat
      BY <1>3, <3>1
    <3> QED
      BY <1>3, <2>2, <2>6, <3>2
  <2>7. \A w \in NodeWorkers(n) : ~ Reports(w, ts)
    BY <1>2 DEF Reports
  <2> QED
    BY <2>3, <2>4, <2>5, <2>6, <2>7 DEF Known
<1>5. ASSUME NEW m \in transit PROVE Reduction <= m.ts
  <2>1. m.color = RED /\ m.ts \in Nat
    BY <1>1 DEF Whites, CountInv
  <2>2. PICK w \in Worker : Sender(w, m.ts)
    BY <1>1, <2>1, NodesFinite DEF TransitInv
  <2>3. w[1] \in Node /\ w \in NodeThreads(w[1])
    BY OwnNode DEF NodeThreads
  <2>4. send_min[w] <= m.ts
    BY <1>1, <2>2, <2>3 DEF Sender
  <2>5. send_min[w] \in Minima(w[1])
    BY <2>3 DEF Minima
  <2>6. Reduction <= send_min[w] /\ send_min[w] \in Nat
    BY <1>3, <2>3, <2>5
  <2> QED
    BY <1>3, <2>1, <2>4, <2>6
<1> QED
  BY <1>4, <1>5, Outstanding

LEMMA FloorReduce ==
    ASSUME FloorInv, ClientInv, BarrierInv, CountInv, TransitInv, PendingInv, MinAllReduce
    PROVE  FloorInv' /\ \A n \in Node : gVT[n] <= Reduction
<1>1. Reduction \in Nat /\ \A k \in Node : \A x \in Minima(k) : x \in Nat /\ Reduction <= x
  BY ReductionIs DEF ClientInv
<1>2. Reduction <= recv_min[0] /\ recv_min[0] <= Infinity /\ recv_min[0] \in Nat
  BY <1>1, NodesFinite DEF Minima, FloorInv, ClientInv, ClientTypes
<1>3. Reduction <= Infinity
  BY <1>1, <1>2, EventsAssumption
<1>4. /\ gVT' = [n \in Node |-> Reduction]
      /\ recv_min' = [n \in Node |-> Infinity]
      /\ local_min' = [w \in Worker |-> Infinity]
      /\ send_min' = [t \in Thread |-> Infinity]
      /\ UNCHANGED <<wpc, pending, transit>>
  BY DEF MinAllReduce, Reduction, workerVars, clientVars
<1>5. \A w \in Worker : wpc[w] = "barrier2"
  BY OwnNode DEF MinAllReduce, MasterAt, BarrierInv, NodeInv, Stopped
<1>6. \A ts \in OutstandingTimes' : Reduction <= ts
  BY <1>4, ReductionIsBound, SameTimes
<1> HIDE DEF Reduction
<1>7. PICK r \in Nat : r = Reduction
  BY <1>1
<1>8. Floor(r)'
  BY <1>3, <1>4, <1>5, <1>6, <1>7 DEF Floor
<1>9. \A n \in Node : gVT'[n] = r /\ recv_min'[n] <= Infinity
  BY <1>4, <1>7, EventsAssumption
<1>10. FloorInv'
  BY <1>8, <1>9 DEF FloorInv
<1>11. ASSUME NEW n \in Node PROVE gVT[n] <= Reduction
  <2>1. PICK k \in Node : Reduction \in Minima(k)
    BY ReductionIs DEF ClientInv
  <2>2. Floor(gVT[n])
    BY DEF FloorInv
  <2>3. \A x \in Minima(k) : gVT[n] <= x
    BY <2>2, NodeThread, NodeWorker DEF Floor, Minima
  <2> QED
    BY <2>1, <2>3
<1> QED
  BY <1>10, <1>11
LEMMA FloorNext ==
    ASSUME FloorInv, ClientInv, ClientInv', BarrierInv, CountInv, CountInv', TransitInv,
           PendingInv, [Next]_vars
    PROVE  FloorInv' /\ (~ MinAllReduce => UNCHANGED gVT)
<1>1. CASE MinAllReduce
  BY <1>1, FloorReduce
<1>2. CASE ~ MinAllReduce
  <2>1. gVT' = gVT
    BY <1>2 DEF Next, WorkerStep, MasterStep, Top, GetEvent, reportThreadMin, SendLocal,
                SendRemote, reportThreadSendMin, ReplenishScheduler, ReceiveEvent,
                ReceiveTerminator, NotReady, LoopTop, BeginGVT, StoreFlag, Barrier1,
                ReduceCount, SumAllReduce, EndGVT, Barrier2, gvtVars, vars
  <2>2. ASSUME NEW g \in Nat, Floor(g) PROVE Floor(g)'
    <3>1. \A ts \in OutstandingTimes' : g <= ts
      BY <2>2, BoundsStay
    <3>2. ASSUME NEW w \in Worker, WorkerStep(w) PROVE Floor(g)'
      BY <2>2, <3>1, <3>2, FloorWorker
    <3>3. ASSUME NEW m \in transit, ReceiveEvent(m) PROVE Floor(g)'
      BY <2>2, <3>1, <3>3, FloorReceive
    <3>4. CASE (\E n \in Node : MasterStep(n)) \/ UNCHANGED vars
      <4>1. UNCHANGED <<recv_min, send_min, local_min, toReport>>
        BY <1>2, <3>4
           DEF MasterStep, ReceiveTerminator, NotReady, LoopTop, BeginGVT, StoreFlag, Barrier1,
               ReduceCount, SumAllReduce, EndGVT, Barrier2, gvtVars, workerVars, vars
      <4>2. \A w \in Worker : wpc'[w] = "reportSend" => wpc[w] = "reportSend"
        BY <1>2, <3>4, AfterReportIs
           DEF MasterStep, ReceiveTerminator, NotReady, LoopTop, BeginGVT, StoreFlag, Barrier1,
               ReduceCount, SumAllReduce, EndGVT, Barrier2, workerVars, vars
      <4> QED
        BY <2>2, <3>1, <4>1, <4>2, SameFloor
    <3> QED
      BY <3>2, <3>3, <3>4 DEF Next
  <2>3. ASSUME NEW n \in Node PROVE recv_min'[n] <= Infinity
    <3>1. recv_min[n] <= Infinity /\ recv_min[n] \in Nat
      BY DEF FloorInv, ClientInv, ClientTypes
    <3>2. CASE recv_min' = recv_min
      BY <3>1, <3>2
    <3>3. ASSUME NEW m \in transit, ReceiveEvent(m) PROVE recv_min'[n] <= Infinity
      <4>1. m.ts \in Nat
        BY DEF CountInv
      <4>2. Min(recv_min[n], m.ts) <= recv_min[n] /\ Min(recv_min[n], m.ts) \in Nat
        BY <3>1, <4>1, MinIs
      <4>3. \/ recv_min' = recv_min
            \/ recv_min' = [recv_min EXCEPT ![NodeOf[m.lp]] = Min(recv_min[NodeOf[m.lp]], m.ts)]
        BY <3>3 DEF ReceiveEvent
      <4>4. recv_min'[n] \in {recv_min[n], Min(recv_min[n], m.ts)}
        BY <4>3 DEF ClientInv, ClientTypes
      <4> QED
        BY <3>1, <4>2, <4>4, EventsAssumption
    <3>4. CASE (\E w \in Worker : WorkerStep(w)) \/ (\E k \in Node : MasterStep(k))
               \/ UNCHANGED vars
      <4>1. recv_min' = recv_min
        BY <1>2, <3>4
           DEF WorkerStep, MasterStep, Top, GetEvent, reportThreadMin, SendLocal, SendRemote,
               reportThreadSendMin, ReplenishScheduler, ReceiveTerminator, NotReady, LoopTop,
               BeginGVT, StoreFlag, Barrier1, ReduceCount, SumAllReduce, EndGVT, Barrier2,
               gvtVars, vars
      <4> QED
        BY <3>2, <4>1
    <3> QED
      BY <3>3, <3>4 DEF Next
  <2>4. \A n \in Node : gVT[n] \in Nat
    BY DEF ClientInv, ClientTypes
  <2>5. \A n \in Node : Floor(gVT[n])'
    <3> TAKE n \in Node
    <3>1. PICK g \in Nat : g = gVT[n] /\ g = gVT'[n]
      BY <2>1, <2>4
    <3>2. Floor(g)'
      BY <2>2, <3>1 DEF FloorInv
    <3> QED
      BY <3>1, <3>2 DEF Floor
  <2> QED
    BY <2>1, <2>3, <2>5 DEF FloorInv
<1> QED
  BY <1>1, <1>2

-----------------------------------------------------------------------------
(* The whole invariant, and what follows from it.                          *)

Safe == /\ BarrierInv /\ CountInv /\ ClientInv /\ StepInv
        /\ TransitInv /\ PendingInv /\ FloorInv

LEMMA SafeInit == Init => Safe
  BY BarrierInit, CountInit, ClientStart, StepInit, TransitInit, PendingInit, FloorInit DEF Safe

LEMMA SafeNext ==
    ASSUME InTime, EveryQueueServed, Safe, [Next]_vars
    PROVE  Safe'
<1>1. BarrierInv' /\ CountInv'
  BY BarrierNext, CountNext DEF Safe
<1>2. ClientInv'
  BY ClientNext DEF Safe
<1>3. StepInv'
  BY StepNext DEF Safe
<1>4. TransitInv'
  BY <1>2, TransitNext DEF Safe
<1>5. PendingInv'
  BY <1>2, PendingNext DEF Safe
<1>6. FloorInv'
  BY <1>1, <1>2, FloorNext DEF Safe
<1> QED
  BY <1>1, <1>2, <1>3, <1>4, <1>5, <1>6 DEF Safe

LEMMA SpecSafe ==
    ASSUME InTime, EveryQueueServed
    PROVE  Spec => []Safe
<1>1. Safe /\ [Next]_vars => Safe'
  BY SafeNext
<1> QED
  BY <1>1, SafeInit, PTL DEF Spec

LEMMA GVTIsLowerBoundInTime ==
    ASSUME InTime, EveryQueueServed
    PROVE  Spec => []GVTIsLowerBound
<1>1. Safe => GVTIsLowerBound
  BY DEF Safe, FloorInv, Floor, GVTIsLowerBound, Bounds
<1> QED
  BY <1>1, SpecSafe, PTL

(* On a single node, for any number of threads that share its schedule     *)
(* queues, the GVT is never later than an event that is pending, whatever  *)
(* the threads do between the two stores of progressGVT.                   *)
THEOREM SpecGVTIsLowerBound ==
    ASSUME NumNodes = 1, EveryQueueServed
    PROVE  Spec => []GVTIsLowerBound
  BY GVTIsLowerBoundInTime DEF InTime

LEMMA InitIsService == Init => Service!Init
<1> SUFFICES ASSUME Init PROVE Service!Init
  OBVIOUS
<1>1. OutstandingTimes \in SUBSET Nat
  BY ClientStart, CountInit, TimesAreNat
<1>2. gVT = [n \in Node |-> 0]
  BY DEF Init
<1> QED
  BY <1>1, <1>2 DEF Service!Init

LEMMA NextIsService ==
    ASSUME Safe, Safe', [Next]_vars
    PROVE  [Service!Next]_(Service!vars)
<1>1. CASE MinAllReduce
  <2>1. OutstandingTimes' = OutstandingTimes
    BY <1>1, SameTimes DEF MinAllReduce, clientVars
  <2>2. gVT' = [n \in Node |-> Reduction]
    BY <1>1 DEF MinAllReduce, Reduction
  <2>3. \A n \in Node : gVT[n] <= Reduction
    BY <1>1, FloorReduce DEF Safe
  <2>4. \A ts \in OutstandingTimes : Reduction <= ts
    BY <1>1, ReductionIsBound DEF Safe
  <2>5. gVT' \in [Node -> Nat] /\ gVT \in [Node -> Nat]
    BY DEF Safe, ClientInv, ClientTypes
  <2> HIDE DEF Reduction
  <2>6. \A n \in Node : /\ gVT'[n] >= gVT[n]
                        /\ gVT'[n] # gVT[n] => \A t \in OutstandingTimes : gVT'[n] <= t
    BY <2>2, <2>3, <2>4, <2>5
  <2> QED
    BY <2>1, <2>5, <2>6 DEF Service!Next, Service!Advance
<1>2. CASE ~ MinAllReduce
  <2>1. gVT' = gVT
    BY <1>2, FloorNext DEF Safe
  <2>2. OutstandingTimes' \in SUBSET Nat
    <3> SUFFICES ASSUME NEW ts \in OutstandingTimes' PROVE ts \in Nat
      OBVIOUS
    <3>1. (\E lp \in LP : ts \in pending'[lp]) \/ (\E m \in transit' : ts = m.ts)
      BY Outstanding
    <3> QED
      BY <3>1 DEF Safe, ClientInv, ClientTypes, CountInv
  <2>3. \A t \in OutstandingTimes' \ OutstandingTimes : \E s \in OutstandingTimes : s <= t
    BY WorkFromWork DEF Safe, FromWork
  <2> QED
    BY <2>1, <2>2, <2>3 DEF Service!Next, Service!Work
<1> QED
  BY <1>1, <1>2

LEMMA ImplementsServiceInTime ==
    ASSUME InTime, EveryQueueServed
    PROVE  Spec => ImplementsGVTService
<1>1. Safe /\ Safe' /\ [Next]_vars => [Service!Next]_(Service!vars)
  BY NextIsService
<1> QED
  BY <1>1, InitIsService, SpecSafe, PTL DEF Spec, ImplementsGVTService, Service!Spec

(* On a single node engine and manager keep the promises of GVTService: a  *)
(* new GVT is not below the old one and not above anything pending.        *)
THEOREM SpecImplementsGVTService ==
    ASSUME NumNodes = 1, EveryQueueServed
    PROVE  Spec => ImplementsGVTService
  BY ImplementsServiceInTime DEF InTime
=============================================================================
