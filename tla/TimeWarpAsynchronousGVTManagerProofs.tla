---------------- MODULE TimeWarpAsynchronousGVTManagerProofs ----------------
(***************************************************************************)
(* The GVT that Mattern's algorithm computes is a lower bound of all that  *)
(* is pending or on its way, at every node and from the moment the         *)
(* initiator sends it out.                                                 *)
(*                                                                         *)
(* FlagInv    the threads of a node report once per local computation      *)
(* TokenInv   where the token is, and which nodes have changed color       *)
(* CountInv   what is on its way is what nodes and token have counted      *)
(* ClientInv  threads hold events of the LPs of their own queue            *)
(* Noted      what is sent in the new color some node has noted            *)
(* CutInv     what the token knows covers the nodes it has passed, unless  *)
(*            a message of the old color has reached one of them since     *)
(* FloorInv   each GVT given or under way is below all minima in use       *)
(*                                                                         *)
(* The theorems assume nothing of the timing: the flag is never below the  *)
(* number of workers that have to report (CoverInv); on up to two nodes    *)
(* the colors agree; on up to two nodes with one worker each the GVT is a  *)
(* lower bound.  In general the last needs Prompt for the reports (of      *)
(* several workers one may act on a flag it read before the last           *)
(* computation ended, and report an event it took before the minima were   *)
(* reset) and FifoNodes for the colors (with three nodes a token can       *)
(* overtake the update of the computation before): lemmas on Orderly.      *)
(***************************************************************************)
EXTENDS TimeWarpAsynchronousGVTManager, FiniteSetTheorems,
        WellFoundedInduction, TLAPS

-----------------------------------------------------------------------------
(* The report of the threads within a node: while a local computation runs *)
(* the flag counts the workers that have still to report.                  *)

Silent(n) == {w \in NodeWorkers(n) : ~ calculated[w]}

(* A worker that read a flag above 0 and has not acted on it.              *)
About(w) == wpc[w] \in {"getEvent", "report"} /\ flag[w] > 0

Types == /\ wpc \in [Worker -> {"top", "getEvent", "report", "process", "reportSend"}]
         /\ flag \in [Worker -> Nat]
         /\ calculated \in [Worker -> BOOLEAN]
         /\ local_gvt_flag \in [Node -> Nat]
         /\ started_local_gvt \in [Node -> BOOLEAN]
         /\ mpc \in [Node -> {"idle", "store"}]

(* Between computations the flag is down, and who is about to report has   *)
(* done so before; once the minima are reset nobody is about to.           *)
NodeInv(n) ==
    /\ started_local_gvt[n] => /\ mpc[n] = "idle"
                               /\ local_gvt_flag[n] = Cardinality(Silent(n))
    /\ ~ started_local_gvt[n] =>
          /\ local_gvt_flag[n] = 0
          /\ \A w \in NodeWorkers(n) : About(w) => calculated[w]
    /\ mpc[n] = "store" => \A w \in NodeWorkers(n) : ~ calculated[w]

FlagInv == Types /\ \A n \in Node : NodeInv(n)

reportVars == <<wpc, flag, calculated, local_gvt_flag, started_local_gvt, mpc>>

LEMMA WorkersFinite ==
    ASSUME NEW n \in Node
    PROVE  /\ IsFiniteSet(NodeWorkers(n))
           /\ Cardinality(NodeWorkers(n)) = NumWorkers
<1> DEFINE ids == 0 .. NumWorkers - 1
           f   == [i \in ids |-> <<n, i>>]
<1>1. NodeWorkers(n) = {<<n, i>> : i \in ids}
  BY DEF NodeWorkers, Worker
<1>2. IsFiniteSet(ids) /\ Cardinality(ids) = NumWorkers
  BY FS_Interval, SizesAssumption
<1>3. f \in Bijection(ids, NodeWorkers(n))
  BY <1>1 DEF Bijection, Injection, Surjection, IsInjective
<1>4. ExistsBijection(ids, NodeWorkers(n))
  BY <1>3 DEF ExistsBijection
<1> QED
  BY <1>2, <1>4, FS_Bijection

LEMMA SilentFinite ==
    ASSUME NEW n \in Node
    PROVE  IsFiniteSet(Silent(n)) /\ Cardinality(Silent(n)) \in Nat
  BY WorkersFinite, FS_Subset, FS_CardinalityType DEF Silent

LEMMA OwnNode ==
    ASSUME NEW w \in Worker
    PROVE  w[1] \in Node /\ w \in NodeWorkers(w[1])
  BY DEF Worker, NodeWorkers

LEMMA NodeWorker ==
    ASSUME NEW n \in Node, NEW w \in NodeWorkers(n)
    PROVE  w \in Worker /\ w[1] = n
  BY DEF NodeWorkers

LEMMA FlagInit == Init => FlagInv
<1> SUFFICES ASSUME Init PROVE FlagInv
  OBVIOUS
<1>1. Types
  BY DEF Init, Types
<1>2. ASSUME NEW n \in Node PROVE NodeInv(n)
  BY NodeWorker DEF Init, NodeInv, About
<1> QED
  BY <1>1, <1>2 DEF FlagInv

LEMMA SameReports ==
    ASSUME FlagInv, UNCHANGED reportVars
    PROVE  FlagInv'
<1>1. Types'
  BY DEF FlagInv, Types, reportVars
<1>2. ASSUME NEW n \in Node PROVE NodeInv(n)'
  BY DEF FlagInv, NodeInv, About, Silent, reportVars
<1> QED
  BY <1>1, <1>2 DEF FlagInv

(* A worker moves on; if it is about to report then as it was, or with the *)
(* flag it has just read.                                                  *)
LEMMA Moves ==
    ASSUME FlagInv, NEW w \in Worker,
           NEW pc \in {"top", "getEvent", "report", "process", "reportSend"},
           wpc' = [wpc EXCEPT ![w] = pc],
           \/ flag' = flag /\ (pc \in {"getEvent", "report"} =>
                                  wpc[w] \in {"getEvent", "report"})
           \/ flag' = [flag EXCEPT ![w] = local_gvt_flag[w[1]]],
           UNCHANGED <<calculated, local_gvt_flag, started_local_gvt, mpc>>
    PROVE  FlagInv'
<1>1. w[1] \in Node
  BY OwnNode
<1>2. Types'
  BY <1>1 DEF FlagInv, Types
<1>3. ASSUME NEW n \in Node PROVE NodeInv(n)'
  <2>1. NodeInv(n)
    BY DEF FlagInv
  <2>2. Silent(n)' = Silent(n)
    BY DEF Silent
  <2>3. ASSUME ~ started_local_gvt[n], NEW v \in NodeWorkers(n), About(v)'
        PROVE  calculated[v]
    <3>1. v \in Worker /\ v[1] = n
      BY NodeWorker
    <3>2. local_gvt_flag[n] = 0
      BY <2>1, <2>3 DEF NodeInv
    <3>3. CASE v # w
      <4>1. About(v)
        BY <2>3, <3>1, <3>3 DEF About, FlagInv, Types
      <4> QED
        BY <2>1, <2>3, <4>1 DEF NodeInv
    <3>4. CASE v = w
      <4>1. wpc'[w] = pc /\ flag'[w] > 0 /\ pc \in {"getEvent", "report"}
        BY <2>3, <3>1, <3>4 DEF About, FlagInv, Types
      <4>2. flag' # [flag EXCEPT ![w] = local_gvt_flag[w[1]]]
        BY <4>1, <3>1, <3>2, <3>4 DEF FlagInv, Types
      <4>3. About(w)
        BY <4>1, <4>2 DEF About
      <4> QED
        BY <2>1, <2>3, <3>4, <4>3 DEF NodeInv
    <3> QED
      BY <3>3, <3>4
  <2> QED
    BY <2>1, <2>2, <2>3 DEF NodeInv
<1> QED
  BY <1>2, <1>3 DEF FlagInv

LEMMA Reports ==
    ASSUME FlagInv, NEW w \in Worker, reportThreadMin(w),
           flag[w] > 0, ~ calculated[w]
    PROVE  FlagInv'
<1> DEFINE m == w[1]
           pc == IF taken[w] = Nothing THEN "top" ELSE "process"
<1>1. /\ wpc[w] = "report"
      /\ calculated' = [calculated EXCEPT ![w] = TRUE]
      /\ local_gvt_flag' = [local_gvt_flag EXCEPT ![m] = IF @ = 0 THEN Infinity ELSE @ - 1]
      /\ wpc' = [wpc EXCEPT ![w] = pc]
      /\ UNCHANGED <<flag, started_local_gvt, mpc>>
  BY DEF reportThreadMin, workerVars, globalVars
<1>2. m \in Node /\ w \in NodeWorkers(m)
  BY OwnNode
<1>3. pc \in {"top", "process"}
  OBVIOUS
<1> HIDE DEF m, pc
<1>4. started_local_gvt[m]
  <2>1. About(w)
    BY <1>1 DEF About
  <2> QED
    BY <1>2, <2>1 DEF FlagInv, NodeInv, Types
<1>5. /\ mpc[m] = "idle"
      /\ local_gvt_flag[m] = Cardinality(Silent(m))
  BY <1>2, <1>4 DEF FlagInv, NodeInv
<1>6. /\ w \in Silent(m)
      /\ Silent(m)' = Silent(m) \ {w}
      /\ IsFiniteSet(Silent(m)) /\ Cardinality(Silent(m)) \in Nat
  BY <1>1, <1>2, NodeWorker, SilentFinite DEF Silent, FlagInv, Types
<1>7. Cardinality(Silent(m)') = Cardinality(Silent(m)) - 1
  BY <1>6, FS_RemoveElement
<1>8. Cardinality(Silent(m)') \in Nat
  BY <1>6, FS_Subset, FS_CardinalityType
<1>9. local_gvt_flag' = [local_gvt_flag EXCEPT ![m] = Cardinality(Silent(m)')]
  <2>1. local_gvt_flag[m] # 0 /\ local_gvt_flag[m] - 1 = Cardinality(Silent(m)')
    BY <1>5, <1>6, <1>7, <1>8
  <2> QED
    BY <1>1, <1>2, <2>1 DEF FlagInv, Types
<1>10. Types'
  BY <1>1, <1>2, <1>3, <1>8, <1>9 DEF FlagInv, Types
<1>11. ASSUME NEW n \in Node PROVE NodeInv(n)'
  <2>1. NodeInv(n)
    BY DEF FlagInv
  <2>2. CASE n = m
    <3>1. local_gvt_flag'[m] = Cardinality(Silent(m)')
      BY <1>2, <1>9 DEF FlagInv, Types
    <3> QED
      BY <2>2, <3>1, <1>1, <1>4, <1>5 DEF NodeInv
  <2>3. CASE n # m
    <3>0. \A v \in NodeWorkers(n) : v \in Worker /\ v # w
      BY <2>3, NodeWorker DEF m
    <3>1. \A v \in NodeWorkers(n) : /\ v # w
                                    /\ calculated'[v] = calculated[v]
                                    /\ About(v)' = About(v)
      BY <3>0, <1>1 DEF About, FlagInv, Types
    <3>2. Silent(n)' = Silent(n)
      BY <3>1 DEF Silent, NodeWorkers
    <3>3. local_gvt_flag'[n] = local_gvt_flag[n]
      BY <2>3, <1>9 DEF FlagInv, Types
    <3> QED
      BY <2>1, <3>1, <3>2, <3>3, <1>1 DEF NodeInv, NodeWorkers
  <2> QED
    BY <2>2, <2>3
<1> QED
  BY <1>10, <1>11 DEF FlagInv

LEMMA WorkerStepKeeps ==
    ASSUME FlagInv, NEW w \in Worker, WorkerStep(w)
    PROVE  FlagInv'
<1>1. CASE ReadFlag(w)
  <2>1. /\ wpc' = [wpc EXCEPT ![w] = "getEvent"]
        /\ flag' = [flag EXCEPT ![w] = local_gvt_flag[w[1]]]
        /\ UNCHANGED <<calculated, local_gvt_flag, started_local_gvt, mpc>>
    BY <1>1 DEF ReadFlag, localVars, globalVars
  <2> QED
    BY <2>1, Moves
<1>2. CASE GetEvent(w)
  <2>1. /\ wpc[w] = "getEvent" /\ wpc' = [wpc EXCEPT ![w] = "report"]
        /\ UNCHANGED <<flag, calculated, local_gvt_flag, started_local_gvt, mpc>>
    BY <1>2 DEF GetEvent, localVars, globalVars
  <2> QED
    BY <2>1, Moves
<1>3. CASE reportThreadMin(w)
  <2>1. CASE flag[w] > 0 /\ ~ calculated[w]
    BY <1>3, <2>1, Reports
  <2>2. CASE ~ (flag[w] > 0 /\ ~ calculated[w])
    <3> DEFINE pc == IF taken[w] = Nothing THEN "top" ELSE "process"
    <3>1. /\ wpc' = [wpc EXCEPT ![w] = pc]
          /\ UNCHANGED <<flag, calculated, local_gvt_flag, started_local_gvt, mpc>>
      BY <1>3, <2>2 DEF reportThreadMin, localVars, globalVars
    <3>2. pc \in {"top", "process"}
      OBVIOUS
    <3> HIDE DEF pc
    <3> QED
      BY <3>1, <3>2, Moves
  <2> QED
    BY <2>1, <2>2
<1>4. ASSUME NEW lp \in LP, NEW ts \in SendTimes, SendLocal(w, lp, ts) \/ SendRemote(w, lp, ts)
      PROVE  FlagInv'
  <2>1. /\ wpc' = [wpc EXCEPT ![w] = "reportSend"]
        /\ UNCHANGED <<flag, calculated, local_gvt_flag, started_local_gvt, mpc>>
    BY <1>4 DEF SendLocal, SendRemote, localVars, globalVars
  <2> QED
    BY <2>1, Moves
<1>5. CASE reportThreadSendMin(w)
  <2>1. /\ wpc' = [wpc EXCEPT ![w] = "process"]
        /\ UNCHANGED <<flag, calculated, local_gvt_flag, started_local_gvt, mpc>>
    BY <1>5 DEF reportThreadSendMin, globalVars
  <2> QED
    BY <2>1, Moves
<1>6. CASE ReplenishScheduler(w)
  <2>1. /\ wpc' = [wpc EXCEPT ![w] = "top"]
        /\ UNCHANGED <<flag, calculated, local_gvt_flag, started_local_gvt, mpc>>
    BY <1>6 DEF ReplenishScheduler, localVars, globalVars
  <2> QED
    BY <2>1, Moves
<1> QED
  BY <1>1, <1>2, <1>3, <1>4, <1>5, <1>6 DEF WorkerStep

(* A node's only worker reads a flag that is up only before it reports.    *)
SoleInv == NumWorkers = 1 => \A w \in Worker : About(w) => ~ calculated[w]

Punctual == Prompt \/ NumWorkers = 1

LEMMA SoleInit == Init => SoleInv
  BY DEF Init, SoleInv

LEMMA SoleNext ==
    ASSUME FlagInv, SoleInv, [Next]_vars
    PROVE  SoleInv'
<1> SUFFICES ASSUME NumWorkers = 1, NEW w \in Worker, About(w)'
             PROVE  ~ calculated'[w]
  BY DEF SoleInv
<1>0. About(w) => ~ calculated[w]
  BY DEF SoleInv
<1>1. ASSUME About(w), calculated' = calculated PROVE ~ calculated'[w]
  BY <1>0, <1>1
<1>2. ASSUME NEW v \in Worker, WorkerStep(v) PROVE ~ calculated'[w]
  <2>1. CASE v # w
    <3>1. /\ wpc'[w] = wpc[w] /\ flag'[w] = flag[w] /\ calculated'[w] = calculated[w]
      BY <1>2, <2>1 DEF WorkerStep, ReadFlag, GetEvent, reportThreadMin, SendLocal, SendRemote,
                        reportThreadSendMin, ReplenishScheduler, localVars, FlagInv, Types
    <3> QED
      BY <1>0, <3>1 DEF About
  <2>2. CASE v = w
    <3>1. CASE ReadFlag(w)
      <4>1. w[1] \in Node /\ calculated' = calculated
        BY <3>1, OwnNode DEF ReadFlag, localVars
      <4>2. local_gvt_flag[w[1]] > 0
        BY <3>1 DEF ReadFlag, About, FlagInv, Types
      <4>3. PICK n \in Node : n = w[1]
        BY <4>1
      <4>4. local_gvt_flag[n] = Cardinality(Silent(n)) /\ Cardinality(Silent(n)) # 0
        BY <4>2, <4>3 DEF FlagInv, NodeInv, Types
      <4>5. PICK u \in NodeWorkers(n) : ~ calculated[u]
        BY <4>4, SilentFinite, FS_EmptySet DEF Silent
      <4>6. u = w
        <5>1. u[1] = n /\ u[2] = 0 /\ w[2] = 0 /\ u \in Worker
          BY <4>5 DEF NodeWorkers, Worker
        <5> QED
          BY <4>3, <5>1 DEF Worker
      <4> QED
        BY <4>1, <4>5, <4>6
    <3>2. CASE GetEvent(w)
      BY <1>1, <3>2 DEF GetEvent, About, localVars
    <3>3. ASSUME ~ ReadFlag(w), ~ GetEvent(w) PROVE FALSE
      <4>1. wpc'[w] \notin {"getEvent", "report"}
        BY <1>2, <2>2, <3>3 DEF WorkerStep, reportThreadMin, SendLocal, SendRemote,
                                reportThreadSendMin, ReplenishScheduler, FlagInv, Types
      <4> QED
        BY <4>1 DEF About
    <3> QED
      BY <3>1, <3>2, <3>3
  <2> QED
    BY <2>1, <2>2
<1>3. ASSUME NEW n \in Node, ProgressGVT(n) PROVE ~ calculated'[w]
  <2>1. CASE BeginLocal(n)
    <3>1. /\ calculated' = [v \in Worker |-> IF v[1] = n THEN FALSE ELSE calculated[v]]
          /\ UNCHANGED <<wpc, flag>>
      BY <2>1 DEF BeginLocal, workerVars
    <3> QED
      BY <1>0, <3>1 DEF About
  <2>2. CASE ~ BeginLocal(n)
    <3>1. UNCHANGED <<calculated, wpc, flag>>
      BY <1>3, <2>2 DEF ProgressGVT, StoreFlag, FinishLocal, NodeReceivesToken,
                        InitiatorReceivesToken, receiveGVTUpdate, workerVars, localVars
    <3> QED
      BY <1>1, <3>1 DEF About
  <2> QED
    BY <2>1, <2>2
<1>4. CASE (\E m \in transit : ReceiveEvent(m)) \/ UNCHANGED vars
  <2>1. UNCHANGED <<calculated, wpc, flag>>
    BY <1>4 DEF ReceiveEvent, vars, workerVars, localVars
  <2> QED
    BY <1>1, <2>1 DEF About
<1> QED
  BY <1>2, <1>3, <1>4 DEF Next

LEMMA BeginLocalKeeps ==
    ASSUME FlagInv, SoleInv, Punctual, NEW n \in Node, BeginLocal(n)
    PROVE  FlagInv'
<1>1. /\ local_gvt_flag[n] = 0 /\ ~ started_local_gvt[n]
      /\ calculated' = [w \in Worker |-> IF w[1] = n THEN FALSE ELSE calculated[w]]
      /\ mpc' = [mpc EXCEPT ![n] = "store"]
      /\ UNCHANGED <<wpc, flag, local_gvt_flag, started_local_gvt>>
  BY DEF BeginLocal, workerVars
<1>10. \A w \in NodeWorkers(n) : ~ About(w)
  <2>1. CASE Prompt
    BY <2>1, NodeWorker DEF BeginLocal, About, FlagInv, Types
  <2>2. CASE NumWorkers = 1
    BY <1>1, <2>2, NodeWorker DEF FlagInv, NodeInv, SoleInv
  <2> QED
    BY <2>1, <2>2 DEF Punctual
<1>2. Types'
  BY <1>1 DEF FlagInv, Types
<1>3. ASSUME NEW k \in Node PROVE NodeInv(k)'
  <2>1. NodeInv(k)
    BY DEF FlagInv
  <2>2. CASE k = n
    <3>1. \A w \in NodeWorkers(n) : ~ calculated'[w] /\ ~ About(w)'
      BY <1>1, <1>10, NodeWorker DEF About
    <3> QED
      BY <2>2, <3>1, <1>1 DEF NodeInv
  <2>3. CASE k # n
    <3>1. \A w \in NodeWorkers(k) : calculated'[w] = calculated[w] /\ About(w)' = About(w)
      BY <2>3, <1>1, NodeWorker DEF About
    <3>2. Silent(k)' = Silent(k)
      BY <3>1 DEF Silent, NodeWorkers
    <3>3. mpc'[k] = mpc[k]
      BY <2>3, <1>1 DEF FlagInv, Types
    <3> QED
      BY <2>1, <3>1, <3>2, <3>3, <1>1 DEF NodeInv, NodeWorkers
  <2> QED
    BY <2>2, <2>3
<1> QED
  BY <1>2, <1>3 DEF FlagInv

LEMMA StoreFlagKeeps ==
    ASSUME FlagInv, NEW n \in Node, StoreFlag(n)
    PROVE  FlagInv'
<1>1. /\ mpc[n] = "store"
      /\ local_gvt_flag' = [local_gvt_flag EXCEPT ![n] = NumWorkers]
      /\ started_local_gvt' = [started_local_gvt EXCEPT ![n] = TRUE]
      /\ mpc' = [mpc EXCEPT ![n] = "idle"]
      /\ UNCHANGED <<wpc, flag, calculated>>
  BY DEF StoreFlag, workerVars
<1>2. Types'
  BY <1>1, SizesAssumption DEF FlagInv, Types
<1>3. ASSUME NEW k \in Node PROVE NodeInv(k)'
  <2>1. NodeInv(k)
    BY DEF FlagInv
  <2>2. Silent(k)' = Silent(k) /\ \A w : About(w)' = About(w)
    BY <1>1 DEF Silent, About
  <2>3. CASE k = n
    <3>1. Silent(n) = NodeWorkers(n)
      BY <2>1, <2>3, <1>1 DEF Silent, NodeInv
    <3>2. Cardinality(Silent(n)) = NumWorkers
      BY <3>1, WorkersFinite
    <3>3. local_gvt_flag'[n] = NumWorkers /\ started_local_gvt'[n] /\ mpc'[n] = "idle"
      BY <1>1 DEF FlagInv, Types
    <3> QED
      BY <2>2, <2>3, <3>2, <3>3 DEF NodeInv
  <2>4. CASE k # n
    <3>1. /\ local_gvt_flag'[k] = local_gvt_flag[k]
          /\ started_local_gvt'[k] = started_local_gvt[k] /\ mpc'[k] = mpc[k]
      BY <2>4, <1>1 DEF FlagInv, Types
    <3> QED
      BY <2>1, <2>2, <3>1, <1>1 DEF NodeInv
  <2> QED
    BY <2>3, <2>4
<1> QED
  BY <1>2, <1>3 DEF FlagInv

(* The count is 0: everybody has reported.                                 *)
LEMMA FinishLocalKeeps ==
    ASSUME FlagInv, NEW n \in Node, FinishLocal(n)
    PROVE  FlagInv'
<1>1. /\ local_gvt_flag[n] = 0 /\ started_local_gvt[n]
      /\ started_local_gvt' = [started_local_gvt EXCEPT ![n] = FALSE]
      /\ UNCHANGED <<wpc, flag, calculated, local_gvt_flag, mpc>>
  BY DEF FinishLocal, workerVars, localVars
<1>2. Types'
  BY <1>1 DEF FlagInv, Types
<1>3. ASSUME NEW k \in Node PROVE NodeInv(k)'
  <2>1. NodeInv(k)
    BY DEF FlagInv
  <2>2. Silent(k)' = Silent(k) /\ \A w : About(w)' = About(w)
    BY <1>1 DEF Silent, About
  <2>3. CASE k = n
    <3>1. mpc[n] = "idle" /\ Cardinality(Silent(n)) = 0
      BY <2>1, <2>3, <1>1 DEF NodeInv
    <3>2. Silent(n) = {}
      BY <3>1, SilentFinite, FS_EmptySet
    <3>3. \A w \in NodeWorkers(n) : calculated[w]
      BY <3>2 DEF Silent
    <3> QED
      BY <2>3, <3>1, <3>3, <1>1 DEF NodeInv, FlagInv, Types
  <2>4. CASE k # n
    <3>1. started_local_gvt'[k] = started_local_gvt[k]
      BY <2>4, <1>1 DEF FlagInv, Types
    <3> QED
      BY <2>1, <2>2, <3>1, <1>1 DEF NodeInv
  <2> QED
    BY <2>3, <2>4
<1> QED
  BY <1>2, <1>3 DEF FlagInv

LEMMA FlagNext == Punctual /\ FlagInv /\ SoleInv /\ [Next]_vars => FlagInv'
<1> SUFFICES ASSUME Punctual, FlagInv, SoleInv, [Next]_vars PROVE FlagInv'
  OBVIOUS
<1>1. ASSUME NEW w \in Worker, WorkerStep(w) PROVE FlagInv'
  BY <1>1, WorkerStepKeeps
<1>2. ASSUME NEW n \in Node, ProgressGVT(n) PROVE FlagInv'
  <2>1. CASE BeginLocal(n)
    BY <2>1, BeginLocalKeeps
  <2>2. CASE StoreFlag(n)
    BY <2>2, StoreFlagKeeps
  <2>3. CASE FinishLocal(n)
    BY <2>3, FinishLocalKeeps
  <2>4. ASSUME NEW from \in Node, NodeReceivesToken(n, from) PROVE FlagInv'
    BY <2>4, SameReports DEF NodeReceivesToken, reportVars, workerVars, localVars
  <2>5. ASSUME NEW from \in Node, InitiatorReceivesToken(from) PROVE FlagInv'
    BY <2>5, SameReports DEF InitiatorReceivesToken, reportVars, workerVars, localVars
  <2>6. CASE receiveGVTUpdate(n)
    BY <2>6, SameReports DEF receiveGVTUpdate, reportVars, workerVars, localVars
  <2> QED
    BY <1>2, <2>1, <2>2, <2>3, <2>4, <2>5, <2>6 DEF ProgressGVT
<1>3. ASSUME NEW m \in transit, ReceiveEvent(m) PROVE FlagInv'
  BY <1>3, SameReports DEF ReceiveEvent, reportVars, workerVars, localVars
<1>4. CASE UNCHANGED vars
  BY <1>4, SameReports DEF vars, reportVars, workerVars, localVars, globalVars
<1> QED
  BY <1>1, <1>2, <1>3, <1>4 DEF Next

LEMMA FlagCountsPunctual ==
    ASSUME Punctual
    PROVE  Spec => []FlagCountsWorkers
<1>1. FlagInv => FlagCountsWorkers
  BY DEF FlagInv, NodeInv, FlagCountsWorkers, Silent
<1>2. FlagInv /\ SoleInv /\ [Next]_vars => FlagInv' /\ SoleInv'
  BY FlagNext, SoleNext
<1> QED
  BY FlagInit, SoleInit, <1>1, <1>2, PTL DEF Spec

(* With one worker thread at each node the flag says whether it has still  *)
(* to report: the local computation ends when, and only when, it has.      *)
THEOREM SpecFlagCountsWorkers ==
    ASSUME NumWorkers = 1
    PROVE  Spec => []FlagCountsWorkers
  BY FlagCountsPunctual DEF Punctual

-----------------------------------------------------------------------------
(* Without Prompt, whatever a worker still makes of an old flag: the flag  *)
(* never gets below the number of workers that have still to report, so    *)
(* the master takes its minimum only when it has a report of each of them. *)

FlagCoversWorkers ==
    \A n \in Node : started_local_gvt[n] => local_gvt_flag[n] >= Cardinality(Silent(n))

(* While the minima are reset and the flag is not yet stored, a worker     *)
(* that acts on an old flag counts it down from 0: it wraps around, until  *)
(* the flag is stored.                                                     *)
CoverOf(n) ==
    /\ started_local_gvt[n] => /\ mpc[n] = "idle"
                               /\ local_gvt_flag[n] >= Cardinality(Silent(n))
    /\ ~ started_local_gvt[n] /\ mpc[n] = "idle" =>
          /\ local_gvt_flag[n] = 0
          /\ \A w \in NodeWorkers(n) : About(w) => calculated[w]

CoverInv == Types /\ \A n \in Node : CoverOf(n)

LEMMA CoverInit == Init => CoverInv
<1> SUFFICES ASSUME Init PROVE CoverInv
  OBVIOUS
<1>1. Types
  BY DEF Init, Types
<1>2. ASSUME NEW n \in Node PROVE CoverOf(n)
  BY NodeWorker DEF Init, CoverOf, About
<1> QED
  BY <1>1, <1>2 DEF CoverInv

LEMMA SameCover ==
    ASSUME CoverInv, UNCHANGED reportVars
    PROVE  CoverInv'
<1>1. Types'
  BY DEF CoverInv, Types, reportVars
<1>2. ASSUME NEW n \in Node PROVE CoverOf(n)'
  BY DEF CoverInv, CoverOf, About, Silent, reportVars
<1> QED
  BY <1>1, <1>2 DEF CoverInv

LEMMA CoverMoves ==
    ASSUME CoverInv, NEW w \in Worker,
           NEW pc \in {"top", "getEvent", "report", "process", "reportSend"},
           wpc' = [wpc EXCEPT ![w] = pc],
           \/ flag' = flag /\ (pc \in {"getEvent", "report"} =>
                                  wpc[w] \in {"getEvent", "report"})
           \/ flag' = [flag EXCEPT ![w] = local_gvt_flag[w[1]]],
           UNCHANGED <<calculated, local_gvt_flag, started_local_gvt, mpc>>
    PROVE  CoverInv'
<1>1. w[1] \in Node
  BY OwnNode
<1>2. Types'
  BY <1>1 DEF CoverInv, Types
<1>3. ASSUME NEW n \in Node PROVE CoverOf(n)'
  <2>1. CoverOf(n)
    BY DEF CoverInv
  <2>2. Silent(n)' = Silent(n)
    BY DEF Silent
  <2>3. ASSUME ~ started_local_gvt[n], mpc[n] = "idle", NEW v \in NodeWorkers(n), About(v)'
        PROVE  calculated[v]
    <3>1. v \in Worker /\ v[1] = n
      BY NodeWorker
    <3>2. local_gvt_flag[n] = 0
      BY <2>1, <2>3 DEF CoverOf
    <3>3. CASE v # w
      <4>1. About(v)
        BY <2>3, <3>1, <3>3 DEF About, CoverInv, Types
      <4> QED
        BY <2>1, <2>3, <4>1 DEF CoverOf
    <3>4. CASE v = w
      <4>1. wpc'[w] = pc /\ flag'[w] > 0 /\ pc \in {"getEvent", "report"}
        BY <2>3, <3>1, <3>4 DEF About, CoverInv, Types
      <4>2. flag' # [flag EXCEPT ![w] = local_gvt_flag[w[1]]]
        BY <4>1, <3>1, <3>2, <3>4 DEF CoverInv, Types
      <4>3. About(w)
        BY <4>1, <4>2 DEF About
      <4> QED
        BY <2>1, <2>3, <3>4, <4>3 DEF CoverOf
    <3> QED
      BY <3>3, <3>4
  <2> QED
    BY <2>1, <2>2, <2>3 DEF CoverOf
<1> QED
  BY <1>2, <1>3 DEF CoverInv

LEMMA CoverReports ==
    ASSUME CoverInv, NEW w \in Worker, reportThreadMin(w),
           flag[w] > 0, ~ calculated[w]
    PROVE  CoverInv'
<1> DEFINE m == w[1]
           pc == IF taken[w] = Nothing THEN "top" ELSE "process"
           left == IF local_gvt_flag[m] = 0 THEN Infinity ELSE local_gvt_flag[m] - 1
<1>1. /\ wpc[w] = "report"
      /\ calculated' = [calculated EXCEPT ![w] = TRUE]
      /\ local_gvt_flag' = [local_gvt_flag EXCEPT ![m] = left]
      /\ wpc' = [wpc EXCEPT ![w] = pc]
      /\ UNCHANGED <<flag, started_local_gvt, mpc>>
  BY DEF reportThreadMin, workerVars, globalVars
<1>2. m \in Node /\ w \in NodeWorkers(m)
  BY OwnNode
<1>3. pc \in {"top", "process"}
  OBVIOUS
<1>4. left \in Nat
  BY <1>2, EventsAssumption DEF CoverInv, Types
<1>5. /\ w \in Silent(m)
      /\ Silent(m)' = Silent(m) \ {w}
      /\ IsFiniteSet(Silent(m)) /\ Cardinality(Silent(m)) \in Nat
  BY <1>1, <1>2, NodeWorker, SilentFinite DEF Silent, CoverInv, Types
<1>6. Cardinality(Silent(m)') = Cardinality(Silent(m)) - 1 /\ Cardinality(Silent(m)') \in Nat
  BY <1>5, FS_RemoveElement, FS_Subset, FS_CardinalityType
<1>7. started_local_gvt[m] => left >= Cardinality(Silent(m)')
  <2>1. SUFFICES ASSUME started_local_gvt[m] PROVE left >= Cardinality(Silent(m)')
    OBVIOUS
  <2>2. local_gvt_flag[m] >= Cardinality(Silent(m)) /\ local_gvt_flag[m] \in Nat
    BY <1>2, <2>1 DEF CoverInv, CoverOf, Types
  <2>3. local_gvt_flag[m] # 0
    BY <1>5, <1>6, <2>2
  <2> QED
    BY <1>5, <1>6, <2>2, <2>3
<1> HIDE DEF m, pc, left
<1>8. Types'
  BY <1>1, <1>2, <1>3, <1>4 DEF CoverInv, Types
<1>9. ASSUME NEW n \in Node PROVE CoverOf(n)'
  <2>1. CoverOf(n)
    BY DEF CoverInv
  <2>2. CASE n = m
    <3>1. About(w)
      BY <1>1 DEF About
    <3>2. started_local_gvt[m] \/ mpc[m] # "idle"
      BY <1>2, <2>1, <2>2, <3>1 DEF CoverOf
    <3>3. local_gvt_flag'[m] = left
      BY <1>1, <1>2 DEF CoverInv, Types
    <3> QED
      BY <1>1, <1>7, <2>1, <2>2, <3>2, <3>3 DEF CoverOf
  <2>3. CASE n # m
    <3>0. \A v \in NodeWorkers(n) : v \in Worker /\ v # w
      BY <2>3, NodeWorker DEF m
    <3>1. \A v \in NodeWorkers(n) : /\ v # w
                                    /\ calculated'[v] = calculated[v]
                                    /\ About(v)' = About(v)
      BY <3>0, <1>1 DEF About, CoverInv, Types
    <3>2. Silent(n)' = Silent(n)
      BY <3>1 DEF Silent, NodeWorkers
    <3>3. local_gvt_flag'[n] = local_gvt_flag[n]
      BY <2>3, <1>1 DEF CoverInv, Types
    <3> QED
      BY <2>1, <3>1, <3>2, <3>3, <1>1 DEF CoverOf, NodeWorkers
  <2> QED
    BY <2>2, <2>3
<1> QED
  BY <1>8, <1>9 DEF CoverInv

LEMMA CoverWorker ==
    ASSUME CoverInv, NEW w \in Worker, WorkerStep(w)
    PROVE  CoverInv'
<1>1. CASE ReadFlag(w)
  <2>1. /\ wpc' = [wpc EXCEPT ![w] = "getEvent"]
        /\ flag' = [flag EXCEPT ![w] = local_gvt_flag[w[1]]]
        /\ UNCHANGED <<calculated, local_gvt_flag, started_local_gvt, mpc>>
    BY <1>1 DEF ReadFlag, localVars, globalVars
  <2> QED
    BY <2>1, CoverMoves
<1>2. CASE GetEvent(w)
  <2>1. /\ wpc[w] = "getEvent" /\ wpc' = [wpc EXCEPT ![w] = "report"]
        /\ UNCHANGED <<flag, calculated, local_gvt_flag, started_local_gvt, mpc>>
    BY <1>2 DEF GetEvent, localVars, globalVars
  <2> QED
    BY <2>1, CoverMoves
<1>3. CASE reportThreadMin(w)
  <2>1. CASE flag[w] > 0 /\ ~ calculated[w]
    BY <1>3, <2>1, CoverReports
  <2>2. CASE ~ (flag[w] > 0 /\ ~ calculated[w])
    <3> DEFINE pc == IF taken[w] = Nothing THEN "top" ELSE "process"
    <3>1. /\ wpc' = [wpc EXCEPT ![w] = pc]
          /\ UNCHANGED <<flag, calculated, local_gvt_flag, started_local_gvt, mpc>>
      BY <1>3, <2>2 DEF reportThreadMin, localVars, globalVars
    <3>2. pc \in {"top", "process"}
      OBVIOUS
    <3> HIDE DEF pc
    <3> QED
      BY <3>1, <3>2, CoverMoves
  <2> QED
    BY <2>1, <2>2
<1>4. ASSUME NEW lp \in LP, NEW ts \in SendTimes, SendLocal(w, lp, ts) \/ SendRemote(w, lp, ts)
      PROVE  CoverInv'
  <2>1. /\ wpc' = [wpc EXCEPT ![w] = "reportSend"]
        /\ UNCHANGED <<flag, calculated, local_gvt_flag, started_local_gvt, mpc>>
    BY <1>4 DEF SendLocal, SendRemote, localVars, globalVars
  <2> QED
    BY <2>1, CoverMoves
<1>5. CASE reportThreadSendMin(w)
  <2>1. /\ wpc' = [wpc EXCEPT ![w] = "process"]
        /\ UNCHANGED <<flag, calculated, local_gvt_flag, started_local_gvt, mpc>>
    BY <1>5 DEF reportThreadSendMin, globalVars
  <2> QED
    BY <2>1, CoverMoves
<1>6. CASE ReplenishScheduler(w)
  <2>1. /\ wpc' = [wpc EXCEPT ![w] = "top"]
        /\ UNCHANGED <<flag, calculated, local_gvt_flag, started_local_gvt, mpc>>
    BY <1>6 DEF ReplenishScheduler, localVars, globalVars
  <2> QED
    BY <2>1, CoverMoves
<1> QED
  BY <1>1, <1>2, <1>3, <1>4, <1>5, <1>6 DEF WorkerStep

(* A local computation begins, gets its flag, ends.                        *)
LEMMA CoverMaster ==
    ASSUME CoverInv, NEW n \in Node, BeginLocal(n) \/ StoreFlag(n) \/ FinishLocal(n)
    PROVE  CoverInv'
<1>1. CASE BeginLocal(n)
  <2>1. /\ ~ started_local_gvt[n]
        /\ calculated' = [w \in Worker |-> IF w[1] = n THEN FALSE ELSE calculated[w]]
        /\ mpc' = [mpc EXCEPT ![n] = "store"]
        /\ UNCHANGED <<wpc, flag, local_gvt_flag, started_local_gvt>>
    BY <1>1 DEF BeginLocal, workerVars
  <2>2. Types'
    BY <2>1 DEF CoverInv, Types
  <2>3. ASSUME NEW k \in Node PROVE CoverOf(k)'
    <3>1. CASE k = n
      <4>1. mpc'[n] = "store"
        BY <2>1 DEF CoverInv, Types
      <4> QED
        BY <2>1, <3>1, <4>1 DEF CoverOf
    <3>2. CASE k # n
      <4>1. \A w \in NodeWorkers(k) : calculated'[w] = calculated[w] /\ About(w)' = About(w)
        BY <2>1, <3>2, NodeWorker DEF About
      <4>2. Silent(k)' = Silent(k)
        BY <4>1 DEF Silent, NodeWorkers
      <4>3. mpc'[k] = mpc[k]
        BY <2>1, <3>2 DEF CoverInv, Types
      <4>4. CoverOf(k)
        BY DEF CoverInv
      <4> QED
        BY <2>1, <4>1, <4>2, <4>3, <4>4 DEF CoverOf, NodeWorkers
    <3> QED
      BY <3>1, <3>2
  <2> QED
    BY <2>2, <2>3 DEF CoverInv
<1>2. CASE StoreFlag(n)
  <2>1. /\ local_gvt_flag' = [local_gvt_flag EXCEPT ![n] = NumWorkers]
        /\ started_local_gvt' = [started_local_gvt EXCEPT ![n] = TRUE]
        /\ mpc' = [mpc EXCEPT ![n] = "idle"]
        /\ UNCHANGED <<wpc, flag, calculated>>
    BY <1>2 DEF StoreFlag, workerVars
  <2>2. Types'
    BY <2>1, SizesAssumption DEF CoverInv, Types
  <2>3. ASSUME NEW k \in Node PROVE CoverOf(k)'
    <3>1. Silent(k)' = Silent(k) /\ \A w : About(w)' = About(w)
      BY <2>1 DEF Silent, About
    <3>2. CASE k = n
      <4>1. Cardinality(Silent(n)) <= NumWorkers /\ Cardinality(Silent(n)) \in Nat
        <5>1. Silent(n) \subseteq NodeWorkers(n)
          BY DEF Silent
        <5> QED
          BY <5>1, WorkersFinite, SilentFinite, FS_Subset
      <4>2. local_gvt_flag'[n] = NumWorkers /\ started_local_gvt'[n] /\ mpc'[n] = "idle"
        BY <2>1 DEF CoverInv, Types
      <4>3. local_gvt_flag'[n] >= Cardinality(Silent(n)')
        BY <3>1, <3>2, <4>1, <4>2, SizesAssumption
      <4> QED
        BY <3>2, <4>2, <4>3 DEF CoverOf
    <3>3. CASE k # n
      <4>1. /\ local_gvt_flag'[k] = local_gvt_flag[k]
            /\ started_local_gvt'[k] = started_local_gvt[k] /\ mpc'[k] = mpc[k]
        BY <2>1, <3>3 DEF CoverInv, Types
      <4>2. CoverOf(k)
        BY DEF CoverInv
      <4> QED
        BY <2>1, <3>1, <4>1, <4>2 DEF CoverOf
    <3> QED
      BY <3>2, <3>3
  <2> QED
    BY <2>2, <2>3 DEF CoverInv
<1>3. CASE FinishLocal(n)
  <2>1. /\ local_gvt_flag[n] = 0 /\ started_local_gvt[n]
        /\ started_local_gvt' = [started_local_gvt EXCEPT ![n] = FALSE]
        /\ UNCHANGED <<wpc, flag, calculated, local_gvt_flag, mpc>>
    BY <1>3 DEF FinishLocal, workerVars, localVars
  <2>2. Types'
    BY <2>1 DEF CoverInv, Types
  <2>3. ASSUME NEW k \in Node PROVE CoverOf(k)'
    <3>0. CoverOf(k)
      BY DEF CoverInv
    <3>1. Silent(k)' = Silent(k) /\ \A w : About(w)' = About(w)
      BY <2>1 DEF Silent, About
    <3>2. CASE k = n
      <4>1. Cardinality(Silent(n)) = 0
        BY <2>1, <3>0, <3>2, SilentFinite DEF CoverOf
      <4>2. \A w \in NodeWorkers(n) : calculated[w]
        BY <4>1, SilentFinite, FS_EmptySet DEF Silent
      <4>3. ~ started_local_gvt'[n]
        BY <2>1 DEF CoverInv, Types
      <4> QED
        BY <2>1, <3>2, <4>2, <4>3 DEF CoverOf
    <3>3. CASE k # n
      <4>1. started_local_gvt'[k] = started_local_gvt[k]
        BY <2>1, <3>3 DEF CoverInv, Types
      <4> QED
        BY <2>1, <3>0, <3>1, <4>1 DEF CoverOf
    <3> QED
      BY <3>2, <3>3
  <2> QED
    BY <2>2, <2>3 DEF CoverInv
<1> QED
  BY <1>1, <1>2, <1>3

LEMMA CoverNext == CoverInv /\ [Next]_vars => CoverInv'
<1> SUFFICES ASSUME CoverInv, [Next]_vars PROVE CoverInv'
  OBVIOUS
<1>1. ASSUME NEW w \in Worker, WorkerStep(w) PROVE CoverInv'
  BY <1>1, CoverWorker
<1>2. ASSUME NEW n \in Node, ProgressGVT(n) PROVE CoverInv'
  <2>1. CASE BeginLocal(n) \/ StoreFlag(n) \/ FinishLocal(n)
    BY <2>1, CoverMaster
  <2>2. ASSUME NEW from \in Node, NodeReceivesToken(n, from) PROVE CoverInv'
    BY <2>2, SameCover DEF NodeReceivesToken, reportVars, workerVars, localVars
  <2>3. ASSUME NEW from \in Node, InitiatorReceivesToken(from) PROVE CoverInv'
    BY <2>3, SameCover DEF InitiatorReceivesToken, reportVars, workerVars, localVars
  <2>4. CASE receiveGVTUpdate(n)
    BY <2>4, SameCover DEF receiveGVTUpdate, reportVars, workerVars, localVars
  <2> QED
    BY <1>2, <2>1, <2>2, <2>3, <2>4 DEF ProgressGVT
<1>3. ASSUME NEW m \in transit, ReceiveEvent(m) PROVE CoverInv'
  BY <1>3, SameCover DEF ReceiveEvent, reportVars, workerVars, localVars
<1>4. CASE UNCHANGED vars
  BY <1>4, SameCover DEF vars, reportVars, workerVars, localVars, globalVars
<1> QED
  BY <1>1, <1>2, <1>3, <1>4 DEF Next

(* A worker is never counted twice in a local computation, whatever flag   *)
(* it still holds from the last one, so the count cannot run out before    *)
(* all have reported (reportThreadMin, progressGVT).                       *)
THEOREM SpecFlagCoversWorkers == Spec => []FlagCoversWorkers
<1>1. CoverInv => FlagCoversWorkers
  BY DEF CoverInv, CoverOf, FlagCoversWorkers
<1>2. CoverInv /\ [Next]_vars => CoverInv'
  BY CoverNext
<1> QED
  BY CoverInit, <1>1, <1>2, PTL DEF Spec

(* When the master takes the node's minimum, every worker has reported     *)
(* since the minima were reset (the second branch of progressGVT).         *)
MinimumIsComplete ==
    [][\A n \in Node : FinishLocal(n) => \A w \in NodeWorkers(n) : calculated[w]]_vars

THEOREM SpecMinimumIsComplete == Spec => MinimumIsComplete
<1>1. CoverInv /\ [Next]_vars =>
          [\A n \in Node : FinishLocal(n) => \A w \in NodeWorkers(n) : calculated[w]]_vars
  <2> SUFFICES ASSUME CoverInv, NEW n \in Node, FinishLocal(n)
               PROVE  \A w \in NodeWorkers(n) : calculated[w]
    OBVIOUS
  <2>1. local_gvt_flag[n] = 0 /\ started_local_gvt[n]
    BY DEF FinishLocal
  <2>2. Cardinality(Silent(n)) = 0
    BY <2>1, SilentFinite DEF CoverInv, CoverOf
  <2> QED
    BY <2>2, SilentFinite, FS_EmptySet DEF Silent
<1>2. CoverInv /\ [Next]_vars => CoverInv'
  BY CoverNext
<1> QED
  BY CoverInit, <1>1, <1>2, PTL DEF Spec, MinimumIsComplete

-----------------------------------------------------------------------------
(* The values of the variables.                                            *)

Color     == {WHITE, RED}
NodeState == [color : Color, initial_color : Color, count : [Color -> Int],
              min_send : Nat, min_recv : Nat]
Messages  == [lp : LP, ts : Nat, color : Color]
Tokens    == [type : {"token"}, count : Int, m_send : Nat, m_clock : Nat]
Updates   == [type : {"update"}, gvt : Nat]

TypeInv ==
    /\ pending \in [LP -> SUBSET Nat]
    /\ taken \in [Worker -> [lp : Nat, ts : Nat]]
    /\ transit \subseteq Messages /\ IsFiniteSet(transit)
    /\ node \in [Node -> NodeState]
    /\ gvt_state \in [Node -> {"IDLE", "LOCAL", "GLOBAL"}]
    /\ started_global_gvt \in BOOLEAN
    /\ started_local_gvt \in [Node -> BOOLEAN]
    /\ calculated \in [Worker -> BOOLEAN]
    /\ local_min \in [Worker -> Nat]
    /\ send_min \in [Worker -> Nat]
    /\ toReport \in [Worker -> Nat]
    /\ msg_count \in [Node -> Int]
    /\ global_min_clock \in [Node -> Nat]
    /\ gVT \in [Node -> Nat]
    /\ control \in [Node \X Node -> Seq(Tokens \cup Updates)]
    /\ mpc \in [Node -> {"idle", "store"}]
    /\ wpc \in [Worker -> {"top", "getEvent", "report", "process", "reportSend"}]

LEMMA MinIsLess ==
    ASSUME NEW a \in Nat, NEW b \in Nat
    PROVE  /\ Min(a, b) \in Nat /\ Min(a, b) <= a /\ Min(a, b) <= b
           /\ Min(a, b) \in {a, b}
  BY DEF Min

LEMMA LeastIsLeast ==
    ASSUME NEW S \in SUBSET Nat, S # {}
    PROVE  Least(S) \in S /\ \A y \in S : Least(S) <= y
<1>1. PICK x \in S : \A y \in S : ~ (<<y, x>> \in OpToRel(<, Nat))
  BY NatLessThanWellFounded, WFMin
<1>2. \A y \in S : ~ (y < x)
  BY <1>1 DEF OpToRel
<1>3. \A y \in S : x <= y
  BY <1>2
<1> QED
  BY <1>3 DEF Least

LEMMA Sizes ==
    /\ NumNodes \in Nat \ {0} /\ NumWorkers \in Nat \ {0} /\ Infinity \in Nat
    /\ NodeOf \in [LP -> Node] /\ SendTimes \subseteq Nat
    /\ Nothing \in [lp : Nat, ts : Nat] /\ Node \subseteq Nat /\ LP \subseteq Nat
    /\ 0 \in Node
  BY SizesAssumption, EventsAssumption DEF Nothing, Node, LP

LEMMA OthersColor ==
    ASSUME NEW c \in Color
    PROVE  /\ Other(c) \in Color /\ Other(c) # c /\ Other(Other(c)) = c
           /\ \A d \in Color : d = c \/ d = Other(c)
  BY DEF Color, Other, WHITE, RED

LEMMA LocalMinimumIsLess ==
    ASSUME TypeInv, NEW n \in Node
    PROVE  /\ LocalMinimum(n) \in Nat
           /\ \E w \in NodeWorkers(n) : LocalMinimum(n) = local_min[w]
           /\ \A w \in NodeWorkers(n) : LocalMinimum(n) <= local_min[w]
<1> DEFINE minima == {local_min[w] : w \in NodeWorkers(n)}
<1>1. \A w \in NodeWorkers(n) : local_min[w] \in Nat
  BY NodeWorker DEF TypeInv
<1>2. <<n, 0>> \in NodeWorkers(n)
  BY Sizes DEF NodeWorkers, Worker
<1>3. minima \in SUBSET Nat /\ minima # {} /\ \A w \in NodeWorkers(n) : local_min[w] \in minima
  BY <1>1, <1>2
<1>4. \A m \in minima : \E w \in NodeWorkers(n) : m = local_min[w]
  OBVIOUS
<1>5. LocalMinimum(n) = Least(minima)
  BY DEF LocalMinimum
<1> HIDE DEF minima
<1>6. Least(minima) \in minima /\ \A y \in minima : Least(minima) <= y
  BY <1>3, LeastIsLeast
<1> QED
  BY <1>3, <1>4, <1>5, <1>6

LEMMA TypesInit == Init => TypeInv
<1> SUFFICES ASSUME Init PROVE TypeInv
  OBVIOUS
<1>1. <<>> \in Seq(Tokens \cup Updates)
  OBVIOUS
<1>2. control \in [Node \X Node -> Seq(Tokens \cup Updates)]
  BY <1>1 DEF Init
<1>3. node \in [Node -> NodeState]
  BY Sizes DEF Init, NodeState, Color
<1>4. transit = {} /\ IsFiniteSet({})
  BY FS_EmptySet DEF Init, ClientInit
<1>5. pending \in [LP -> SUBSET Nat]
  BY EventsAssumption DEF Init, ClientInit
<1>6. taken \in [Worker -> [lp : Nat, ts : Nat]]
  BY Sizes DEF Init, ClientInit
<1>7. /\ gvt_state \in [Node -> {"IDLE", "LOCAL", "GLOBAL"}]
      /\ started_global_gvt \in BOOLEAN
      /\ started_local_gvt \in [Node -> BOOLEAN]
      /\ calculated \in [Worker -> BOOLEAN]
      /\ mpc \in [Node -> {"idle", "store"}]
      /\ wpc \in [Worker -> {"top", "getEvent", "report", "process", "reportSend"}]
  BY DEF Init
<1>8. /\ local_min \in [Worker -> Nat] /\ send_min \in [Worker -> Nat]
      /\ toReport \in [Worker -> Nat]
      /\ msg_count \in [Node -> Int] /\ gVT \in [Node -> Nat]
  BY Sizes DEF Init
<1>9. global_min_clock \in [Node -> Nat]
  <2>1. \A n \in Node : global_min_clock[n] \in Nat
    BY Sizes DEF Init
  <2> QED
    BY <2>1 DEF Init
<1> QED
  BY <1>2, <1>3, <1>4, <1>5, <1>6, <1>7, <1>8, <1>9 DEF TypeInv

(* Only node n changes its state, and has these fields now.                *)
Becomes(n, c, i, f, ms, mr) ==
    /\ node' \in [Node -> NodeState]
    /\ \A k \in Node \ {n} : node'[k] = node[k]
    /\ node'[n].color = c
    /\ node'[n].initial_color = i
    /\ node'[n].count = f
    /\ node'[n].min_send = ms
    /\ node'[n].min_recv = mr

LEMMA Fields ==
    ASSUME TypeInv, NEW n \in Node
    PROVE  /\ node[n] \in NodeState
           /\ node[n].color \in Color /\ node[n].initial_color \in Color
           /\ node[n].count \in [Color -> Int] /\ \A c \in Color : node[n].count[c] \in Int
           /\ node[n].min_send \in Nat /\ node[n].min_recv \in Nat
  BY DEF TypeInv, NodeState

(* One node gets a new state.                                              *)
LEMMA NewState ==
    ASSUME TypeInv, NEW n \in Node, NEW r \in NodeState, node' = [node EXCEPT ![n] = r]
    PROVE  Becomes(n, r.color, r.initial_color, r.count, r.min_send, r.min_recv)
  BY DEF TypeInv, Becomes

LEMMA NodeAfterSend ==
    ASSUME TypeInv, NEW w \in Worker, NEW lp \in LP, NEW ts \in SendTimes, SendRemote(w, lp, ts)
    PROVE  LET s == node[w[1]] IN
           Becomes(w[1], s.color, s.initial_color, [s.count EXCEPT ![s.color] = @ + 1],
                   IF s.color # s.initial_color THEN Min(s.min_send, ts) ELSE s.min_send,
                   s.min_recv)
<1>1. PICK n \in Node : n = w[1]
  BY OwnNode
<1>2. PICK s \in NodeState : s = node[n]
  BY DEF TypeInv
<1>3. ts \in Nat /\ s.color \in Color /\ s.min_send \in Nat /\ s.count \in [Color -> Int]
  BY Sizes DEF NodeState
<1>4. PICK b \in Nat : b = IF s.color # s.initial_color THEN Min(s.min_send, ts) ELSE s.min_send
  BY <1>3, MinIsLess
<1>5. PICK k : k = [s.count EXCEPT ![s.color] = @ + 1]
  OBVIOUS
<1>6. k \in [Color -> Int]
  BY <1>3, <1>5
<1>7. node' = [node EXCEPT ![n].count[s.color] = @ + 1, ![n].min_send = b]
  BY <1>1, <1>2, <1>4 DEF SendRemote
<1>8. PICK r : r = [s EXCEPT !.count = k, !.min_send = b]
  OBVIOUS
<1>9. node' = [node EXCEPT ![n] = r]
  BY <1>2, <1>5, <1>7, <1>8 DEF TypeInv
<1>10. /\ r \in NodeState /\ r.color = s.color /\ r.initial_color = s.initial_color
       /\ r.count = k /\ r.min_send = b /\ r.min_recv = s.min_recv
  BY <1>6, <1>8 DEF NodeState
<1>11. Becomes(n, r.color, r.initial_color, r.count, r.min_send, r.min_recv)
  BY <1>9, <1>10, NewState
<1> QED
  BY <1>1, <1>2, <1>4, <1>5, <1>10, <1>11

LEMMA NodeAfterReceive ==
    ASSUME TypeInv, NEW m \in transit, ReceiveEvent(m)
    PROVE  LET s == node[NodeOf[m.lp]] IN
           Becomes(NodeOf[m.lp], s.color, s.initial_color, [s.count EXCEPT ![m.color] = @ - 1],
                   s.min_send,
                   IF m.color = s.initial_color THEN Min(s.min_recv, m.ts) ELSE s.min_recv)
<1>0. m.lp \in LP /\ m.ts \in Nat /\ m.color \in Color
  BY DEF TypeInv, Messages
<1>1. PICK n \in Node : n = NodeOf[m.lp]
  BY <1>0, Sizes
<1>2. PICK s \in NodeState : s = node[n]
  BY DEF TypeInv
<1>3. s.min_recv \in Nat /\ s.count \in [Color -> Int]
  BY DEF NodeState
<1>4. PICK b \in Nat : b = IF m.color = s.initial_color THEN Min(s.min_recv, m.ts) ELSE s.min_recv
  BY <1>0, <1>3, MinIsLess
<1>5. PICK k : k = [s.count EXCEPT ![m.color] = @ - 1]
  OBVIOUS
<1>6. k \in [Color -> Int]
  BY <1>0, <1>3, <1>5
<1>7. node' = [node EXCEPT ![n].count[m.color] = @ - 1, ![n].min_recv = b]
  BY <1>1, <1>2, <1>4 DEF ReceiveEvent
<1>8. PICK r : r = [s EXCEPT !.count = k, !.min_recv = b]
  OBVIOUS
<1>9. node' = [node EXCEPT ![n] = r]
  BY <1>2, <1>5, <1>7, <1>8 DEF TypeInv
<1>10. /\ r \in NodeState /\ r.color = s.color /\ r.initial_color = s.initial_color
       /\ r.count = k /\ r.min_send = s.min_send /\ r.min_recv = b
  BY <1>6, <1>8 DEF NodeState
<1>11. Becomes(n, r.color, r.initial_color, r.count, r.min_send, r.min_recv)
  BY <1>9, <1>10, NewState
<1> QED
  BY <1>1, <1>2, <1>4, <1>5, <1>10, <1>11

(* Counted and Toggled of a state.                                         *)
LEMMA CountedState ==
    ASSUME NEW s \in NodeState
    PROVE  /\ Counted(s) \in NodeState
           /\ Counted(s).color = s.color /\ Counted(s).initial_color = s.initial_color
           /\ Counted(s).count = [s.count EXCEPT ![s.initial_color] = 0]
           /\ Counted(s).min_send = s.min_send /\ Counted(s).min_recv = s.min_recv
<1>1. s.initial_color \in Color /\ s.count \in [Color -> Int]
  BY DEF NodeState
<1>2. PICK k : k = [s.count EXCEPT ![s.initial_color] = 0]
  OBVIOUS
<1>3. k \in [Color -> Int]
  BY <1>1, <1>2
<1>4. Counted(s) = [s EXCEPT !.count = k]
  BY <1>2 DEF Counted
<1>5. PICK r : r = [s EXCEPT !.count = k]
  OBVIOUS
<1>6. /\ r \in NodeState /\ r.color = s.color /\ r.initial_color = s.initial_color
      /\ r.count = k /\ r.min_send = s.min_send /\ r.min_recv = s.min_recv
  BY <1>3, <1>5 DEF NodeState
<1> QED
  BY <1>2, <1>4, <1>5, <1>6

LEMMA ToggledState ==
    ASSUME NEW s \in NodeState
    PROVE  /\ Toggled(s) \in NodeState
           /\ Toggled(s).color = Other(s.color) /\ Toggled(s).initial_color = s.initial_color
           /\ Toggled(s).count = s.count
           /\ Toggled(s).min_send = Infinity /\ Toggled(s).min_recv = Infinity
<1>1. s.color \in Color
  BY DEF NodeState
<1>2. PICK c \in Color : c = Other(s.color)
  BY <1>1, OthersColor
<1>3. Toggled(s) = [s EXCEPT !.color = c, !.min_send = Infinity, !.min_recv = Infinity]
  BY <1>2 DEF Toggled
<1>4. PICK r : r = [s EXCEPT !.color = c, !.min_send = Infinity, !.min_recv = Infinity]
  OBVIOUS
<1>5. /\ r \in NodeState /\ r.color = c /\ r.initial_color = s.initial_color
      /\ r.count = s.count /\ r.min_send = Infinity /\ r.min_recv = Infinity
  BY <1>4, Sizes DEF NodeState
<1> QED
  BY <1>2, <1>3, <1>4, <1>5

LEMMA NodeAtStart ==
    ASSUME TypeInv, BeginLocal(0), ~ started_global_gvt
    PROVE  LET s == node[0] IN
           /\ Becomes(0, Other(s.color), s.initial_color,
                      [s.count EXCEPT ![s.initial_color] = 0], Infinity, Infinity)
           /\ msg_count' = [msg_count EXCEPT ![0] = s.count[s.initial_color]]
<1>1. PICK s \in NodeState : s = node[0]
  BY Sizes DEF TypeInv
<1>2. PICK t \in NodeState : t = Toggled(s)
  BY ToggledState
<1>3. PICK r \in NodeState : r = Counted(t)
  BY CountedState
<1>4. /\ t.color = Other(s.color) /\ t.initial_color = s.initial_color
      /\ t.count = s.count /\ t.min_send = Infinity /\ t.min_recv = Infinity
  BY <1>2, ToggledState
<1>5. /\ r.color = t.color /\ r.initial_color = t.initial_color
      /\ r.count = [t.count EXCEPT ![t.initial_color] = 0]
      /\ r.min_send = t.min_send /\ r.min_recv = t.min_recv
  BY <1>3, CountedState
<1>6. node' = [node EXCEPT ![0] = r]
  BY <1>1, <1>2, <1>3 DEF BeginLocal
<1>7. Becomes(0, r.color, r.initial_color, r.count, r.min_send, r.min_recv)
  BY <1>6, NewState, Sizes
<1>8. msg_count' = [msg_count EXCEPT ![0] = s.count[s.initial_color]]
  BY <1>1 DEF BeginLocal, InitialCount
<1> QED
  BY <1>1, <1>4, <1>5, <1>7, <1>8

(* The state a token leaves a node in that had the color already, and what *)
(* it counts there.                                                        *)
LEMMA NodeAtLaterToken ==
    ASSUME TypeInv, NEW n \in Node, NEW m \in Nat,
           node' = [node EXCEPT ![n] = [Counted(node[n]) EXCEPT !.min_send = Min(@, m)]]
    PROVE  LET s == node[n] IN
           Becomes(n, s.color, s.initial_color, [s.count EXCEPT ![s.initial_color] = 0],
                   Min(s.min_send, m), s.min_recv)
<1>1. PICK s \in NodeState : s = node[n]
  BY DEF TypeInv
<1>2. PICK t \in NodeState : t = Counted(s)
  BY CountedState
<1>3. /\ t.color = s.color /\ t.initial_color = s.initial_color
      /\ t.count = [s.count EXCEPT ![s.initial_color] = 0]
      /\ t.min_send = s.min_send /\ t.min_recv = s.min_recv
      /\ s.min_send \in Nat
  BY <1>2, CountedState DEF NodeState
<1>4. PICK b \in Nat : b = Min(s.min_send, m)
  BY <1>3, MinIsLess
<1>5. PICK r : r = [t EXCEPT !.min_send = b]
  OBVIOUS
<1>6. /\ r \in NodeState /\ r.color = t.color /\ r.initial_color = t.initial_color
      /\ r.count = t.count /\ r.min_send = b /\ r.min_recv = t.min_recv
  BY <1>5 DEF NodeState
<1>7. node' = [node EXCEPT ![n] = r]
  BY <1>1, <1>2, <1>3, <1>4, <1>5
<1>8. Becomes(n, r.color, r.initial_color, r.count, r.min_send, r.min_recv)
  BY <1>6, <1>7, NewState
<1> QED
  BY <1>1, <1>3, <1>4, <1>6, <1>8

LEMMA NodeAtToken ==
    ASSUME TypeInv, NEW n \in Node, NEW from \in Node, NodeReceivesToken(n, from),
           Head(control[<<from, n>>]) \in Tokens
    PROVE  LET s == node[n]
               m == Head(control[<<from, n>>]).m_send
               f == [s.count EXCEPT ![s.initial_color] = 0]
           IN  /\ IF s.color = s.initial_color
                  THEN Becomes(n, Other(s.color), s.initial_color, f, Min(Infinity, m), Infinity)
                  ELSE Becomes(n, s.color, s.initial_color, f, Min(s.min_send, m), s.min_recv)
               /\ msg_count' = [msg_count EXCEPT
                      ![n] = s.count[s.initial_color] + Head(control[<<from, n>>]).count]
<1>1. PICK s \in NodeState : s = node[n]
  BY Sizes DEF TypeInv
<1>2. PICK msg \in Tokens : msg = Head(control[<<from, n>>])
  OBVIOUS
<1>3. PICK m \in Nat : m = msg.m_send
  BY DEF Tokens
<1>4. CASE s.color # s.initial_color
  <2>1. node' = [node EXCEPT ![n] = [Counted(node[n]) EXCEPT !.min_send = Min(@, m)]]
    BY <1>1, <1>2, <1>3, <1>4 DEF NodeReceivesToken
  <2>2. Becomes(n, s.color, s.initial_color, [s.count EXCEPT ![s.initial_color] = 0],
                Min(s.min_send, m), s.min_recv)
    BY <1>1, <2>1, NodeAtLaterToken
  <2>3. msg_count' = [msg_count EXCEPT ![n] = s.count[s.initial_color] + msg.count]
    BY <1>1, <1>2, <1>4 DEF NodeReceivesToken, InitialCount
  <2> QED
    BY <1>1, <1>2, <1>3, <1>4, <2>2, <2>3
<1>5. CASE s.color = s.initial_color
  <2>1. PICK t \in NodeState : t = Toggled(s)
    BY ToggledState
  <2>2. /\ t.color = Other(s.color) /\ t.initial_color = s.initial_color
        /\ t.count = s.count /\ t.min_send = Infinity /\ t.min_recv = Infinity
    BY <2>1, ToggledState
  <2>3. PICK q \in NodeState : q = Counted(t)
    BY CountedState
  <2>4. /\ q.color = Other(s.color) /\ q.initial_color = s.initial_color
        /\ q.count = [s.count EXCEPT ![s.initial_color] = 0]
        /\ q.min_send = Infinity /\ q.min_recv = Infinity
    BY <2>2, <2>3, CountedState
  <2>5. PICK b \in Nat : b = Min(Infinity, m)
    BY MinIsLess, Sizes
  <2>6. PICK r : r = [q EXCEPT !.min_send = b]
    OBVIOUS
  <2>7. /\ r \in NodeState /\ r.color = q.color /\ r.initial_color = q.initial_color
        /\ r.count = q.count /\ r.min_send = b /\ r.min_recv = q.min_recv
    BY <2>6 DEF NodeState
  <2>8. node' = [node EXCEPT ![n] = r]
    BY <1>1, <1>2, <1>3, <1>5, <2>1, <2>3, <2>4, <2>5, <2>6 DEF NodeReceivesToken
  <2>9. Becomes(n, r.color, r.initial_color, r.count, r.min_send, r.min_recv)
    BY <2>7, <2>8, NewState
  <2>10. msg_count' = [msg_count EXCEPT ![n] = s.count[s.initial_color] + msg.count]
    <3>1. InitialCount(t) = s.count[s.initial_color]
      BY <2>2 DEF InitialCount
    <3>2. msg_count' = [msg_count EXCEPT ![n] = InitialCount(t) + msg.count]
      BY <1>1, <1>2, <1>5, <2>1 DEF NodeReceivesToken
    <3> QED
      BY <3>1, <3>2
  <2> QED
    BY <1>1, <1>2, <1>3, <1>5, <2>4, <2>5, <2>7, <2>9, <2>10
<1> QED
  BY <1>4, <1>5

LEMMA NodeAtUpdate ==
    ASSUME TypeInv, NEW n \in Node, receiveGVTUpdate(n)
    PROVE  LET s == node[n] IN
           Becomes(n, s.color, Other(s.initial_color), s.count, s.min_send, s.min_recv)
<1>1. PICK s \in NodeState : s = node[n]
  BY Sizes DEF TypeInv
<1>2. PICK i \in Color : i = Other(s.initial_color)
  BY <1>1, Fields, OthersColor
<1>3. PICK r : r = [s EXCEPT !.initial_color = i]
  OBVIOUS
<1>4. /\ r \in NodeState /\ r.color = s.color /\ r.initial_color = i
      /\ r.count = s.count /\ r.min_send = s.min_send /\ r.min_recv = s.min_recv
  BY <1>3 DEF NodeState
<1>5. node' = [node EXCEPT ![n] = r]
  BY <1>1, <1>2, <1>3 DEF receiveGVTUpdate, TypeInv
<1>6. Becomes(n, r.color, r.initial_color, r.count, r.min_send, r.min_recv)
  BY <1>4, <1>5, NewState
<1> QED
  BY <1>1, <1>2, <1>4, <1>6

(* What an action that leaves a group of variables alone must still show.  *)
LEMMA TypesWorker ==
    ASSUME TypeInv, NEW w \in Worker, WorkerStep(w)
    PROVE  TypeInv'
<1>0. w[1] \in Node
  BY OwnNode
<1>1. CASE ReadFlag(w)
  <2>1. /\ wpc' = [wpc EXCEPT ![w] = "getEvent"]
        /\ UNCHANGED <<clientVars, localVars, globalVars, toReport>>
    BY <1>1 DEF ReadFlag
  <2> QED
    BY <2>1 DEF TypeInv, clientVars, localVars, globalVars
<1>2. CASE GetEvent(w)
  <2>1. /\ wpc' = [wpc EXCEPT ![w] = "report"]
        /\ UNCHANGED <<pending, transit, localVars, globalVars, toReport>>
    BY <1>2 DEF GetEvent
  <2>2. PICK event \in NextEvents(w) : taken' = [taken EXCEPT ![w] = event]
    BY <1>2 DEF GetEvent, Take
  <2>3. event \in [lp : Nat, ts : Nat]
    <3> DEFINE all == {[lp |-> lp, ts |-> Least(pending[lp])] :
                           lp \in {l \in Served(w) : Scheduled(l)}}
    <3>1. event = Nothing \/ event \in all
      BY DEF NextEvents
    <3>2. ASSUME NEW lp \in Served(w), Scheduled(lp)
          PROVE  [lp |-> lp, ts |-> Least(pending[lp])] \in [lp : Nat, ts : Nat]
      <4>1. lp \in LP /\ pending[lp] \in SUBSET Nat /\ pending[lp] # {}
        BY <3>2 DEF Served, Scheduled, TypeInv
      <4>2. Least(pending[lp]) \in Nat
        BY <4>1, LeastIsLeast
      <4> QED
        BY <4>1, <4>2, Sizes
    <3> QED
      BY <3>1, <3>2, Sizes
  <2> QED
    BY <2>1, <2>2, <2>3 DEF TypeInv, localVars, globalVars
<1>3. CASE reportThreadMin(w)
  <2> DEFINE pc == IF taken[w] = Nothing THEN "top" ELSE "process"
  <2>1. /\ wpc' = [wpc EXCEPT ![w] = pc]
        /\ UNCHANGED <<clientVars, globalVars, toReport, send_min>>
    BY <1>3 DEF reportThreadMin, localVars
  <2>2. pc \in {"top", "process"}
    OBVIOUS
  <2> HIDE DEF pc
  <2>3. local_min' \in [Worker -> Nat] /\ calculated' \in [Worker -> BOOLEAN]
    <3>1. Min(send_min[w], taken[w].ts) \in Nat
      BY MinIsLess DEF TypeInv
    <3> QED
      BY <1>3, <3>1 DEF reportThreadMin, localVars, TypeInv
  <2> QED
    BY <2>1, <2>2, <2>3 DEF TypeInv, clientVars, globalVars
<1>4. ASSUME NEW lp \in LP, NEW ts \in SendTimes, SendLocal(w, lp, ts) PROVE TypeInv'
  <2>1. /\ pending' = [pending EXCEPT ![lp] = @ \cup {ts}]
        /\ toReport' = [toReport EXCEPT ![w] = ts]
        /\ wpc' = [wpc EXCEPT ![w] = "reportSend"]
        /\ UNCHANGED <<taken, transit, localVars, globalVars>>
    BY <1>4 DEF SendLocal, Insert
  <2>2. ts \in Nat
    BY Sizes
  <2> QED
    BY <2>1, <2>2 DEF TypeInv, localVars, globalVars
<1>5. ASSUME NEW lp \in LP, NEW ts \in SendTimes, SendRemote(w, lp, ts) PROVE TypeInv'
  <2> DEFINE n == w[1]
             c == node[n].color
             m == [lp |-> lp, ts |-> ts, color |-> c]
  <2>1. /\ node' = [node EXCEPT ![n].count[c] = @ + 1,
                       ![n].min_send = IF c # node[n].initial_color
                                       THEN Min(@, ts) ELSE @]
        /\ transit' = transit \cup {m}
        /\ toReport' = [toReport EXCEPT ![w] = ts]
        /\ wpc' = [wpc EXCEPT ![w] = "reportSend"]
        /\ UNCHANGED <<pending, taken, localVars, gvt_state,
                       started_global_gvt, started_local_gvt, msg_count,
                       global_min_clock, gVT, control, mpc>>
    BY <1>5 DEF SendRemote
  <2>2. ts \in Nat /\ n \in Node /\ c \in Color
    BY Sizes, <1>0 DEF TypeInv, NodeState
  <2>3. m \in Messages
    BY <2>2 DEF Messages
  <2>4. node' \in [Node -> NodeState]
    BY <1>5, NodeAfterSend DEF Becomes
  <2> HIDE DEF m
  <2>5. IsFiniteSet(transit') /\ transit' \subseteq Messages
    <3>1. IsFiniteSet(transit \cup {m})
      BY FS_AddElement DEF TypeInv
    <3> QED
      BY <2>1, <2>3, <3>1 DEF TypeInv
  <2> QED
    BY <2>1, <2>2, <2>4, <2>5 DEF TypeInv, localVars
<1>6. CASE reportThreadSendMin(w)
  <2>1. /\ toReport' = [toReport EXCEPT ![w] = Infinity]
        /\ wpc' = [wpc EXCEPT ![w] = "process"]
        /\ UNCHANGED <<clientVars, calculated, local_min, globalVars>>
    BY <1>6 DEF reportThreadSendMin
  <2>2. send_min' \in [Worker -> Nat]
    <3>1. Min(send_min[w], toReport[w]) \in Nat
      BY MinIsLess DEF TypeInv
    <3> QED
      BY <1>6, <3>1 DEF reportThreadSendMin, TypeInv
  <2> QED
    BY <2>1, <2>2, Sizes DEF TypeInv, clientVars, globalVars
<1>7. CASE ReplenishScheduler(w)
  <2>1. /\ pending' = [pending EXCEPT ![taken[w].lp] = @ \ {taken[w].ts}]
        /\ taken' = [taken EXCEPT ![w] = Nothing]
        /\ wpc' = [wpc EXCEPT ![w] = "top"]
        /\ UNCHANGED <<transit, localVars, globalVars, toReport>>
    BY <1>7 DEF ReplenishScheduler, Replenish
  <2> QED
    BY <2>1, Sizes DEF TypeInv, localVars, globalVars
<1> QED
  BY <1>1, <1>2, <1>3, <1>4, <1>5, <1>6, <1>7 DEF WorkerStep

LEMMA FirstMessage ==
    ASSUME TypeInv, NEW a \in Node, NEW b \in Node, control[<<a, b>>] # <<>>
    PROVE  /\ Head(control[<<a, b>>]) \in Tokens \cup Updates
           /\ Tail(control[<<a, b>>]) \in Seq(Tokens \cup Updates)
           /\ Head(control[<<a, b>>]).type = "token" => Head(control[<<a, b>>]) \in Tokens
           /\ Head(control[<<a, b>>]).type = "update" => Head(control[<<a, b>>]) \in Updates
<1>1. PICK q \in Seq(Tokens \cup Updates) : q = control[<<a, b>>]
  BY DEF TypeInv
<1>2. Head(q) \in Tokens \cup Updates /\ Tail(q) \in Seq(Tokens \cup Updates)
  BY <1>1
<1>3. \A m \in Tokens : m.type = "token"
  BY DEF Tokens
<1>4. \A m \in Updates : m.type = "update"
  BY DEF Updates
<1> QED
  BY <1>1, <1>2, <1>3, <1>4

LEMMA TypesBegin ==
    ASSUME TypeInv, NEW n \in Node, BeginLocal(n)
    PROVE  TypeInv'
<1>1. /\ gvt_state' = [gvt_state EXCEPT ![n] = "LOCAL"]
      /\ send_min' = [w \in Worker |-> IF w[1] = n THEN Infinity ELSE send_min[w]]
      /\ local_min' = [w \in Worker |-> IF w[1] = n THEN Infinity ELSE local_min[w]]
      /\ calculated' = [w \in Worker |-> IF w[1] = n THEN FALSE ELSE calculated[w]]
      /\ mpc' = [mpc EXCEPT ![n] = "store"]
      /\ UNCHANGED <<clientVars, workerVars, started_local_gvt, global_min_clock, gVT, control>>
  BY DEF BeginLocal
<1>2. /\ node' \in [Node -> NodeState] /\ msg_count' \in [Node -> Int]
      /\ started_global_gvt' \in BOOLEAN
  <2>1. CASE n = 0 /\ ~ started_global_gvt
    <3>1. node[0].count[node[0].initial_color] \in Int
      BY Fields, Sizes
    <3>2. node' \in [Node -> NodeState]
      BY <2>1, NodeAtStart DEF Becomes
    <3>3. msg_count' = [msg_count EXCEPT ![0] = node[0].count[node[0].initial_color]]
      BY <2>1, NodeAtStart
    <3>4. started_global_gvt' = TRUE
      BY <2>1 DEF BeginLocal
    <3> QED
      BY <3>1, <3>2, <3>3, <3>4 DEF TypeInv
  <2>2. CASE ~ (n = 0 /\ ~ started_global_gvt)
    BY <2>2 DEF BeginLocal, TypeInv
  <2> QED
    BY <2>1, <2>2
<1>3. /\ send_min' \in [Worker -> Nat] /\ local_min' \in [Worker -> Nat]
      /\ calculated' \in [Worker -> BOOLEAN]
  BY <1>1, Sizes DEF TypeInv
<1> QED
  BY <1>1, <1>2, <1>3 DEF TypeInv, clientVars, workerVars

(* What FinishLocal sends on.                                              *)
Passes(n) ==
    [type |-> "token", count |-> msg_count[n], m_send |-> node[n].min_send,
     m_clock |-> Min(Min(node[n].min_recv, LocalMinimum(n)),
                     IF n = 0 THEN Infinity ELSE global_min_clock[n])]

LEMMA PassesToken ==
    ASSUME TypeInv, NEW n \in Node
    PROVE  /\ Passes(n) \in Tokens
           /\ Passes(n).m_clock <= node[n].min_recv
           /\ Passes(n).m_clock <= LocalMinimum(n)
           /\ n # 0 => Passes(n).m_clock <= global_min_clock[n]
           /\ Passes(n).m_clock \in {Infinity, global_min_clock[n], node[n].min_recv,
                                     LocalMinimum(n)}
           /\ n = 0 => Passes(n).m_clock <= Infinity
<1>1. PICK c \in Nat : c = IF n = 0 THEN Infinity ELSE global_min_clock[n]
  BY Sizes DEF TypeInv
<1>2. PICK r \in Nat : r = node[n].min_recv
  BY Fields
<1>3. PICK l \in Nat : l = LocalMinimum(n)
  BY LocalMinimumIsLess
<1>4. PICK a \in Nat : a = Min(r, l) /\ a <= r /\ a <= l /\ a \in {r, l}
  BY MinIsLess
<1>5. PICK b \in Nat : b = Min(a, c) /\ b <= a /\ b <= c /\ b \in {a, c}
  BY MinIsLess
<1>6. node[n].min_send \in Nat /\ msg_count[n] \in Int
  BY Fields DEF TypeInv
<1>7. Passes(n) = [type |-> "token", count |-> msg_count[n],
                   m_send |-> node[n].min_send, m_clock |-> b]
  BY <1>1, <1>2, <1>3, <1>4, <1>5 DEF Passes
<1>8. Passes(n) \in Tokens /\ Passes(n).m_clock = b
  BY <1>6, <1>7 DEF Tokens
<1> QED
  BY <1>1, <1>2, <1>3, <1>4, <1>5, <1>8

LEMMA SuccIs ==
    ASSUME NEW n \in Node
    PROVE  /\ (n + 1) % NumNodes \in Node
           /\ (n + 1) % NumNodes = IF n = NumNodes - 1 THEN 0 ELSE n + 1
<1>1. PICK k \in Nat \ {0} : k = NumNodes
  BY Sizes
<1>2. n \in 0 .. k - 1
  BY <1>1 DEF Node
<1>3. k % k = 0
  BY SMTT(20)
<1>4. n + 1 < k => (n + 1) % k = n + 1
  BY <1>2, SMTT(20)
<1>5. (n + 1) % k = IF n = k - 1 THEN 0 ELSE n + 1
  BY <1>2, <1>3, <1>4
<1> QED
  BY <1>1, <1>2, <1>5 DEF Node

LEMMA TypesFinish ==
    ASSUME TypeInv, NEW n \in Node, FinishLocal(n)
    PROVE  TypeInv'
<1>1. /\ started_local_gvt' = [started_local_gvt EXCEPT ![n] = FALSE]
      /\ UNCHANGED <<clientVars, workerVars, localVars, node,
                     started_global_gvt, msg_count, mpc>>
  BY DEF FinishLocal
<1>2. LocalMinimum(n) \in Nat
  BY LocalMinimumIsLess
<1>3. CASE NumNodes > 1
  <2>1. /\ gvt_state' = [gvt_state EXCEPT ![n] = "GLOBAL"]
        /\ global_min_clock' = [global_min_clock EXCEPT
               ![n] = IF n = 0 THEN Infinity ELSE global_min_clock[n]]
        /\ control' = [control EXCEPT ![<<n, (n + 1) % NumNodes>>] = Append(@, Passes(n))]
        /\ gVT' = gVT
    BY <1>3 DEF FinishLocal, Post, Passes
  <2>2. Passes(n) \in Tokens
    BY PassesToken
  <2>3. PICK k \in Node : k = (n + 1) % NumNodes
    BY SuccIs
  <2>4. control' \in [Node \X Node -> Seq(Tokens \cup Updates)]
    <3> HIDE DEF Passes
    <3>1. Append(control[<<n, k>>], Passes(n)) \in Seq(Tokens \cup Updates)
      BY <2>2 DEF TypeInv
    <3>2. PICK q \in Seq(Tokens \cup Updates) : q = Append(control[<<n, k>>], Passes(n))
      BY <3>1
    <3>3. control' = [control EXCEPT ![<<n, k>>] = q]
      BY <2>1, <2>3, <3>2 DEF TypeInv
    <3> QED
      BY <3>3 DEF TypeInv
  <2>5. global_min_clock' \in [Node -> Nat]
    BY <2>1, Sizes DEF TypeInv
  <2> QED
    BY <1>1, <2>1, <2>4, <2>5 DEF TypeInv, clientVars, workerVars, localVars
<1>4. CASE ~ NumNodes > 1
  <2>1. /\ gvt_state' = [gvt_state EXCEPT ![n] = "IDLE"]
        /\ gVT' = [gVT EXCEPT ![n] = LocalMinimum(n)]
        /\ UNCHANGED <<global_min_clock, control>>
    BY <1>4 DEF FinishLocal
  <2> QED
    BY <1>1, <1>2, <2>1 DEF TypeInv, clientVars, workerVars, localVars
<1> QED
  BY <1>3, <1>4

LEMMA TypesNodeToken ==
    ASSUME TypeInv, NEW n \in Node, NEW from \in Node, NodeReceivesToken(n, from)
    PROVE  TypeInv'
<1>1. PICK msg \in Tokens : msg = Head(control[<<from, n>>])
  BY FirstMessage DEF NodeReceivesToken
<1>2. /\ global_min_clock' = [global_min_clock EXCEPT ![n] = Min(@, msg.m_clock)]
      /\ gvt_state' = [gvt_state EXCEPT ![n] = "LOCAL"]
      /\ control' = [control EXCEPT ![<<from, n>>] = Tail(@)]
      /\ control[<<from, n>>] # <<>>
      /\ UNCHANGED <<clientVars, workerVars, localVars, started_global_gvt,
                     started_local_gvt, gVT, mpc>>
  BY <1>1 DEF NodeReceivesToken
<1>3. msg.m_clock \in Nat /\ msg.count \in Int
  BY DEF Tokens
<1>4. global_min_clock' \in [Node -> Nat]
  <2>1. Min(global_min_clock[n], msg.m_clock) \in Nat
    BY <1>3, MinIsLess DEF TypeInv
  <2>2. PICK k \in Nat : k = Min(global_min_clock[n], msg.m_clock)
    BY <2>1
  <2>3. global_min_clock' = [global_min_clock EXCEPT ![n] = k]
    BY <1>2, <2>2 DEF TypeInv
  <2> QED
    BY <2>3 DEF TypeInv
<1>5. node' \in [Node -> NodeState] /\ msg_count' \in [Node -> Int]
  <2>1. node[n].count[node[n].initial_color] \in Int
    BY Fields
  <2>2. msg_count' = [msg_count EXCEPT ![n] = node[n].count[node[n].initial_color] + msg.count]
    BY <1>1, NodeAtToken
  <2>3. node' \in [Node -> NodeState]
    BY <1>1, NodeAtToken DEF Becomes
  <2>4. PICK k \in Int : k = node[n].count[node[n].initial_color] + msg.count
    BY <1>3, <2>1
  <2> QED
    BY <2>2, <2>3, <2>4 DEF TypeInv
<1>6. control' \in [Node \X Node -> Seq(Tokens \cup Updates)]
  <2>1. PICK q \in Seq(Tokens \cup Updates) : q = Tail(control[<<from, n>>])
    BY <1>2, FirstMessage
  <2>2. control' = [control EXCEPT ![<<from, n>>] = q]
    BY <1>2, <2>1 DEF TypeInv
  <2> QED
    BY <2>2 DEF TypeInv
<1> QED
  BY <1>2, <1>4, <1>5, <1>6 DEF TypeInv, clientVars, workerVars, localVars

LEMMA TypesInitiator ==
    ASSUME TypeInv, NEW from \in Node, InitiatorReceivesToken(from)
    PROVE  TypeInv'
<1>1. PICK msg \in Tokens : msg = Head(control[<<from, 0>>])
  BY FirstMessage, Sizes DEF InitiatorReceivesToken
<1>2. /\ control[<<from, 0>>] # <<>>
      /\ UNCHANGED <<clientVars, workerVars, localVars, started_local_gvt,
                     global_min_clock, gVT, mpc>>
  BY DEF InitiatorReceivesToken
<1>3. msg.m_clock \in Nat /\ msg.m_send \in Nat /\ msg.count \in Int
  BY DEF Tokens
<1>4. PICK rest : rest = [control EXCEPT ![<<from, 0>>] = Tail(@)]
  OBVIOUS
<1>5. rest \in [Node \X Node -> Seq(Tokens \cup Updates)]
  <2>1. PICK q \in Seq(Tokens \cup Updates) : q = Tail(control[<<from, 0>>])
    BY <1>2, FirstMessage, Sizes
  <2>2. rest = [control EXCEPT ![<<from, 0>>] = q]
    BY <1>4, <2>1, Sizes DEF TypeInv
  <2> QED
    BY <2>2 DEF TypeInv
<1>6. CASE msg.count <= 0
  <2>1. PICK g \in Nat : g = Min(msg.m_clock, msg.m_send)
    BY <1>3, MinIsLess
  <2>2. PICK u \in Updates : u = [type |-> "update", gvt |-> g]
    BY DEF Updates
  <2>3. /\ gvt_state' = [gvt_state EXCEPT ![0] = "GLOBAL"]
        /\ started_global_gvt' = FALSE
        /\ control' = [link \in Node \X Node |->
                          IF link[1] = 0 THEN Append(rest[link], u) ELSE rest[link]]
        /\ UNCHANGED <<node, msg_count>>
    BY <1>1, <1>4, <1>6, <2>1, <2>2 DEF InitiatorReceivesToken
  <2>4. \A link \in Node \X Node : /\ rest[link] \in Seq(Tokens \cup Updates)
                                   /\ Append(rest[link], u) \in Seq(Tokens \cup Updates)
    BY <1>5
  <2>5. control' \in [Node \X Node -> Seq(Tokens \cup Updates)]
    BY <2>3, <2>4
  <2> QED
    BY <1>2, <2>3, <2>5 DEF TypeInv, clientVars, workerVars, localVars
<1>7. CASE ~ (msg.count <= 0)
  <2>1. /\ gvt_state' = [gvt_state EXCEPT ![0] = "LOCAL"]
        /\ msg_count' = [msg_count EXCEPT ![0] = InitialCount(node[0]) + msg.count]
        /\ control' = rest
        /\ UNCHANGED started_global_gvt
    BY <1>1, <1>4, <1>7 DEF InitiatorReceivesToken
  <2>4. node' = [node EXCEPT ![0] = [Counted(node[0]) EXCEPT !.min_send = Min(@, msg.m_send)]]
    <3>1. PICK m : m = Head(control[<<from, 0>>]).m_send
      OBVIOUS
    <3>2. node' = [node EXCEPT ![0] = [Counted(node[0]) EXCEPT !.min_send = Min(@, m)]]
      BY <1>1, <1>7, <3>1 DEF InitiatorReceivesToken
    <3> QED
      BY <1>1, <3>1, <3>2
  <2>2. node' \in [Node -> NodeState]
    BY <1>3, <2>4, NodeAtLaterToken, Sizes DEF Becomes
  <2>3. InitialCount(node[0]) \in Int
    BY Fields, Sizes DEF InitialCount
  <2>5. InitialCount(node[0]) + msg.count \in Int
    BY <1>3, <2>3
  <2>6. msg_count' \in [Node -> Int]
    BY <2>1, <2>5 DEF TypeInv
  <2> QED
    BY <1>2, <1>5, <2>1, <2>2, <2>6 DEF TypeInv, clientVars, workerVars, localVars
<1> QED
  BY <1>6, <1>7

LEMMA TypesUpdate ==
    ASSUME TypeInv, NEW n \in Node, receiveGVTUpdate(n)
    PROVE  TypeInv'
<1>1. PICK msg \in Updates : msg = Head(control[<<0, n>>])
  BY FirstMessage, Sizes DEF receiveGVTUpdate
<1>2. msg.gvt \in Nat
  BY DEF Updates
<1>3. /\ control[<<0, n>>] # <<>>
      /\ gVT' = [gVT EXCEPT ![n] = msg.gvt]
      /\ global_min_clock' = [global_min_clock EXCEPT ![n] = Infinity]
      /\ gvt_state' = [gvt_state EXCEPT ![n] = IF @ = "GLOBAL" THEN "IDLE" ELSE @]
      /\ control' = [control EXCEPT ![<<0, n>>] = Tail(@)]
      /\ UNCHANGED <<clientVars, workerVars, localVars, started_global_gvt,
                     started_local_gvt, msg_count, mpc>>
  BY <1>1 DEF receiveGVTUpdate
<1>4. node' \in [Node -> NodeState]
  BY NodeAtUpdate DEF Becomes
<1>5. control' \in [Node \X Node -> Seq(Tokens \cup Updates)]
  <2>1. PICK q \in Seq(Tokens \cup Updates) : q = Tail(control[<<0, n>>])
    BY <1>3, FirstMessage, Sizes
  <2>2. control' = [control EXCEPT ![<<0, n>>] = q]
    BY <1>3, <2>1, Sizes DEF TypeInv
  <2> QED
    BY <2>2 DEF TypeInv
<1> QED
  BY <1>2, <1>3, <1>4, <1>5, Sizes DEF TypeInv, clientVars, workerVars, localVars

LEMMA TypesReceive ==
    ASSUME TypeInv, NEW m \in transit, ReceiveEvent(m)
    PROVE  TypeInv'
<1>0. m.lp \in LP /\ m.ts \in Nat
  BY DEF TypeInv, Messages
<1>1. /\ transit' = transit \ {m}
      /\ pending' = [pending EXCEPT ![m.lp] = @ \cup {m.ts}]
      /\ UNCHANGED <<taken, localVars, workerVars, gvt_state,
                     started_global_gvt, started_local_gvt, msg_count,
                     global_min_clock, gVT, control, mpc>>
  BY DEF ReceiveEvent, Insert
<1>2. node' \in [Node -> NodeState]
  BY NodeAfterReceive DEF Becomes
<1>3. IsFiniteSet(transit') /\ transit' \subseteq Messages
  BY <1>1, FS_RemoveElement DEF TypeInv
<1>4. pending' \in [LP -> SUBSET Nat]
  BY <1>0, <1>1 DEF TypeInv
<1> QED
  BY <1>1, <1>2, <1>3, <1>4 DEF TypeInv, localVars, workerVars

LEMMA TypesNext == TypeInv /\ [Next]_vars => TypeInv'
<1> SUFFICES ASSUME TypeInv, [Next]_vars PROVE TypeInv'
  OBVIOUS
<1>1. ASSUME NEW w \in Worker, WorkerStep(w) PROVE TypeInv'
  BY <1>1, TypesWorker
<1>2. ASSUME NEW n \in Node, ProgressGVT(n) PROVE TypeInv'
  <2>1. CASE BeginLocal(n)
    BY <2>1, TypesBegin
  <2>2. CASE StoreFlag(n)
    <3>1. /\ started_local_gvt' = [started_local_gvt EXCEPT ![n] = TRUE]
          /\ mpc' = [mpc EXCEPT ![n] = "idle"]
          /\ UNCHANGED <<clientVars, workerVars, calculated, local_min, send_min, node,
                   gvt_state, started_global_gvt, msg_count, global_min_clock, gVT, control>>
      BY <2>2 DEF StoreFlag
    <3> QED
      BY <3>1 DEF TypeInv, clientVars, workerVars
  <2>3. CASE FinishLocal(n)
    BY <2>3, TypesFinish
  <2>4. ASSUME NEW from \in Node, NodeReceivesToken(n, from) PROVE TypeInv'
    BY <2>4, TypesNodeToken
  <2>5. ASSUME NEW from \in Node, InitiatorReceivesToken(from) PROVE TypeInv'
    BY <2>5, TypesInitiator
  <2>6. CASE receiveGVTUpdate(n)
    BY <2>6, TypesUpdate
  <2> QED
    BY <1>2, <2>1, <2>2, <2>3, <2>4, <2>5, <2>6 DEF ProgressGVT
<1>3. ASSUME NEW m \in transit, ReceiveEvent(m) PROVE TypeInv'
  BY <1>3, TypesReceive
<1>4. CASE UNCHANGED vars
  BY <1>4 DEF vars, clientVars, localVars, globalVars, workerVars, TypeInv
<1> QED
  BY <1>1, <1>2, <1>3, <1>4 DEF Next

-----------------------------------------------------------------------------
(* What is on its way between two nodes: an update, a token, or an update  *)
(* and behind it the token of the next computation.                        *)

TokensIn(q)  == {q[i] : i \in {j \in DOMAIN q : q[j].type = "token"}}
UpdatesIn(q) == {q[i].gvt : i \in {j \in DOMAIN q : q[j].type = "update"}}

IsQueue(q) ==
    \/ q = <<>>
    \/ \E u \in Updates : q = <<u>>
    \/ \E t \in Tokens : q = <<t>>
    \/ \E u \in Updates, t \in Tokens : q = <<u, t>>

LEMMA QueueOfNone ==
    /\ IsQueue(<<>>) /\ TokensIn(<<>>) = {} /\ UpdatesIn(<<>>) = {}
<1>1. DOMAIN <<>> = {}
  OBVIOUS
<1> QED
  BY <1>1 DEF IsQueue, TokensIn, UpdatesIn

LEMMA QueueOfUpdate ==
    ASSUME NEW u \in Updates
    PROVE  /\ IsQueue(<<u>>) /\ TokensIn(<<u>>) = {} /\ UpdatesIn(<<u>>) = {u.gvt}
           /\ Head(<<u>>) = u /\ Tail(<<u>>) = <<>> /\ <<u>> # <<>>
<1>1. DOMAIN <<u>> = {1} /\ <<u>>[1] = u /\ u.type = "update"
  BY DEF Updates
<1>2. Head(<<u>>) = u /\ Tail(<<u>>) = <<>> /\ <<u>> # <<>>
  OBVIOUS
<1>3. IsQueue(<<u>>)
  BY DEF IsQueue
<1>4. PICK q : q = <<u>>
  OBVIOUS
<1>5. DOMAIN q = {1} /\ q[1] = u
  BY <1>1, <1>4
<1>6. TokensIn(q) = {}
  BY <1>1, <1>5 DEF TokensIn
<1>7. UpdatesIn(q) = {u.gvt}
  BY <1>1, <1>5 DEF UpdatesIn
<1> QED
  BY <1>2, <1>3, <1>4, <1>6, <1>7

LEMMA QueueOfToken ==
    ASSUME NEW t \in Tokens
    PROVE  /\ IsQueue(<<t>>) /\ TokensIn(<<t>>) = {t} /\ UpdatesIn(<<t>>) = {}
           /\ Head(<<t>>) = t /\ Tail(<<t>>) = <<>> /\ <<t>> # <<>>
<1>1. DOMAIN <<t>> = {1} /\ <<t>>[1] = t /\ t.type = "token"
  BY DEF Tokens
<1>2. Head(<<t>>) = t /\ Tail(<<t>>) = <<>> /\ <<t>> # <<>>
  OBVIOUS
<1>3. IsQueue(<<t>>)
  BY DEF IsQueue
<1>4. PICK q : q = <<t>>
  OBVIOUS
<1>5. DOMAIN q = {1} /\ q[1] = t
  BY <1>1, <1>4
<1>6. TokensIn(q) = {t}
  BY <1>1, <1>5 DEF TokensIn
<1>7. UpdatesIn(q) = {}
  BY <1>1, <1>5 DEF UpdatesIn
<1> QED
  BY <1>2, <1>3, <1>4, <1>6, <1>7

LEMMA QueueOfBoth ==
    ASSUME NEW u \in Updates, NEW t \in Tokens
    PROVE  /\ IsQueue(<<u, t>>) /\ TokensIn(<<u, t>>) = {t} /\ UpdatesIn(<<u, t>>) = {u.gvt}
           /\ Head(<<u, t>>) = u /\ Tail(<<u, t>>) = <<t>> /\ <<u, t>> # <<>>
<1>1. /\ DOMAIN <<u, t>> = {1, 2} /\ <<u, t>>[1] = u /\ <<u, t>>[2] = t
      /\ u.type = "update" /\ t.type = "token"
  BY DEF Tokens, Updates
<1>2. Head(<<u, t>>) = u /\ Tail(<<u, t>>) = <<t>> /\ <<u, t>> # <<>>
  OBVIOUS
<1>3. IsQueue(<<u, t>>)
  BY DEF IsQueue
<1>4. PICK q : q = <<u, t>>
  OBVIOUS
<1>5. DOMAIN q = {1, 2} /\ q[1] = u /\ q[2] = t
  BY <1>1, <1>4
<1>6. TokensIn(q) = {t}
  BY <1>1, <1>5 DEF TokensIn
<1>7. UpdatesIn(q) = {u.gvt}
  BY <1>1, <1>5 DEF UpdatesIn
<1> QED
  BY <1>2, <1>3, <1>4, <1>6, <1>7

(* A token that is sent goes behind the update, if there is one.           *)
LEMMA AppendToken ==
    ASSUME NEW q, IsQueue(q), TokensIn(q) = {}, NEW t \in Tokens
    PROVE  /\ IsQueue(Append(q, t)) /\ TokensIn(Append(q, t)) = {t}
           /\ UpdatesIn(Append(q, t)) = UpdatesIn(q)
<1>1. CASE q = <<>>
  <2>1. Append(<<>>, t) = <<t>>
    OBVIOUS
  <2> QED
    BY <1>1, <2>1, QueueOfToken, QueueOfNone
<1>2. ASSUME NEW u \in Updates, q = <<u>>
      PROVE  /\ IsQueue(Append(q, t)) /\ TokensIn(Append(q, t)) = {t}
             /\ UpdatesIn(Append(q, t)) = UpdatesIn(q)
  <2>1. Append(<<u>>, t) = <<u, t>>
    <3> DEFINE S == {u, t}
    <3>1. <<u>> \in Seq(S) /\ t \in S /\ Len(<<u>>) = 1 /\ <<u>>[1] = u
      OBVIOUS
    <3> HIDE DEF S
    <3>2. PICK p \in Seq(S) : p = <<u>>
      BY <3>1
    <3>6. Append(p, t) \in Seq(S)
      BY <3>1
    <3>3. PICK r \in Seq(S) : r = Append(p, t)
      BY <3>6
    <3>4. Len(r) = 2 /\ r[1] = u /\ r[2] = t
      BY <3>1, <3>2, <3>3
    <3>5. r = <<u, t>>
      BY <3>4
    <3> QED
      BY <3>2, <3>3, <3>5
  <2>2. PICK r : r = <<u, t>>
    OBVIOUS
  <2>3. IsQueue(r) /\ TokensIn(r) = {t} /\ UpdatesIn(r) = {u.gvt}
    BY <2>2, QueueOfBoth
  <2>4. UpdatesIn(q) = {u.gvt}
    BY <1>2, QueueOfUpdate
  <2>5. Append(q, t) = r
    BY <1>2, <2>1, <2>2
  <2> QED
    BY <2>3, <2>4, <2>5
<1>3. ASSUME NEW s \in Tokens, q = <<s>> PROVE FALSE
  BY <1>3, QueueOfToken
<1>4. ASSUME NEW u \in Updates, NEW s \in Tokens, q = <<u, s>> PROVE FALSE
  BY <1>4, QueueOfBoth
<1> QED
  BY <1>1, <1>2, <1>3, <1>4 DEF IsQueue

LEMMA AppendUpdate ==
    ASSUME NEW q, IsQueue(q), TokensIn(q) = {}, UpdatesIn(q) = {}, NEW u \in Updates
    PROVE  /\ IsQueue(Append(q, u)) /\ TokensIn(Append(q, u)) = {}
           /\ UpdatesIn(Append(q, u)) = {u.gvt}
<1>1. CASE q = <<>>
  <2>1. Append(<<>>, u) = <<u>>
    OBVIOUS
  <2> QED
    BY <1>1, <2>1, QueueOfUpdate
<1>2. ASSUME NEW v \in Updates, q = <<v>> PROVE FALSE
  BY <1>2, QueueOfUpdate
<1>3. ASSUME NEW s \in Tokens, q = <<s>> PROVE FALSE
  BY <1>3, QueueOfToken
<1>4. ASSUME NEW v \in Updates, NEW s \in Tokens, q = <<v, s>> PROVE FALSE
  BY <1>4, QueueOfBoth
<1> QED
  BY <1>1, <1>2, <1>3, <1>4 DEF IsQueue

(* A token that comes first is alone.                                      *)
LEMMA TakeToken ==
    ASSUME NEW q, IsQueue(q), q # <<>>, Head(q).type = "token"
    PROVE  /\ Head(q) \in Tokens /\ TokensIn(q) = {Head(q)} /\ UpdatesIn(q) = {}
           /\ Tail(q) = <<>>
<1>1. \A u \in Updates : u.type # "token"
  BY DEF Updates
<1>2. ASSUME NEW v \in Updates, q = <<v>> PROVE FALSE
  BY <1>1, <1>2, QueueOfUpdate
<1>3. ASSUME NEW s \in Tokens, q = <<s>>
      PROVE  /\ Head(q) \in Tokens /\ TokensIn(q) = {Head(q)} /\ UpdatesIn(q) = {}
             /\ Tail(q) = <<>>
  BY <1>3, QueueOfToken
<1>4. ASSUME NEW v \in Updates, NEW s \in Tokens, q = <<v, s>> PROVE FALSE
  BY <1>1, <1>4, QueueOfBoth
<1> QED
  BY <1>2, <1>3, <1>4 DEF IsQueue

LEMMA TakeUpdate ==
    ASSUME NEW q, IsQueue(q), q # <<>>, Head(q).type = "update"
    PROVE  /\ Head(q) \in Updates /\ UpdatesIn(q) = {Head(q).gvt}
           /\ IsQueue(Tail(q)) /\ UpdatesIn(Tail(q)) = {} /\ TokensIn(Tail(q)) = TokensIn(q)
<1>1. \A t \in Tokens : t.type # "update"
  BY DEF Tokens
<1>2. ASSUME NEW v \in Updates, q = <<v>>
      PROVE  /\ Head(q) \in Updates /\ UpdatesIn(q) = {Head(q).gvt}
             /\ IsQueue(Tail(q)) /\ UpdatesIn(Tail(q)) = {} /\ TokensIn(Tail(q)) = TokensIn(q)
  BY <1>2, QueueOfUpdate, QueueOfNone
<1>3. ASSUME NEW s \in Tokens, q = <<s>> PROVE FALSE
  BY <1>1, <1>3, QueueOfToken
<1>4. ASSUME NEW v \in Updates, NEW s \in Tokens, q = <<v, s>>
      PROVE  /\ Head(q) \in Updates /\ UpdatesIn(q) = {Head(q).gvt}
             /\ IsQueue(Tail(q)) /\ UpdatesIn(Tail(q)) = {} /\ TokensIn(Tail(q)) = TokensIn(q)
  BY <1>4, QueueOfBoth, QueueOfToken
<1> QED
  BY <1>2, <1>3, <1>4 DEF IsQueue

LEMMA InQueue ==
    ASSUME NEW q, IsQueue(q)
    PROVE  /\ \A s, t \in TokensIn(q) : s = t
           /\ TokensIn(q) \subseteq Tokens /\ UpdatesIn(q) \subseteq Nat
           /\ \A s, t \in UpdatesIn(q) : s = t
<1>1. \A u \in Updates : u.gvt \in Nat
  BY DEF Updates
<1>2. ASSUME NEW v \in Updates, q = <<v>>
      PROVE  TokensIn(q) = {} /\ UpdatesIn(q) = {v.gvt}
  BY <1>2, QueueOfUpdate
<1>3. ASSUME NEW s \in Tokens, q = <<s>> PROVE TokensIn(q) = {s} /\ UpdatesIn(q) = {}
  BY <1>3, QueueOfToken
<1>4. ASSUME NEW v \in Updates, NEW s \in Tokens, q = <<v, s>>
      PROVE  TokensIn(q) = {s} /\ UpdatesIn(q) = {v.gvt}
  BY <1>4, QueueOfBoth
<1> QED
  BY <1>1, <1>2, <1>3, <1>4, QueueOfNone DEF IsQueue

-----------------------------------------------------------------------------
(* Tokens and updates on their way: a token goes to the next node, updates *)
(* come from node 0.                                                       *)

Succ(n)   == (n + 1) % NumNodes
Toks(n)   == TokensIn(control[<<n, Succ(n)>>])
Sent(n)   == UpdatesIn(control[<<0, n>>])
Awaits(n) == Sent(n) # {}
Holds(n)  == gvt_state[n] = "LOCAL"

Links ==
    \A a, b \in Node :
        /\ IsQueue(control[<<a, b>>])
        /\ TokensIn(control[<<a, b>>]) # {} => b = Succ(a) /\ NumNodes > 1
        /\ UpdatesIn(control[<<a, b>>]) # {} => a = 0 /\ NumNodes > 1

LEMMA InLinks ==
    ASSUME Links, NEW n \in Node
    PROVE  /\ Succ(n) \in Node
           /\ \A s, t \in Toks(n) : s = t
           /\ \A s, t \in Sent(n) : s = t
           /\ Toks(n) \subseteq Tokens /\ Sent(n) \subseteq Nat
           /\ Toks(n) # {} => NumNodes > 1
           /\ Awaits(n) => NumNodes > 1
<1>1. Succ(n) \in Node /\ 0 \in Node
  BY SuccIs, Sizes DEF Succ
<1>2. IsQueue(control[<<n, Succ(n)>>]) /\ IsQueue(control[<<0, n>>])
  BY <1>1 DEF Links
<1>3. /\ Toks(n) # {} => NumNodes > 1
      /\ Awaits(n) => NumNodes > 1
  BY <1>1 DEF Links, Awaits, Toks, Sent
<1> QED
  BY <1>1, <1>2, <1>3, InQueue DEF Toks, Sent

LEMMA OneLink ==
    ASSUME TypeInv, Links, NEW a \in Node, NEW b \in Node, NEW q, IsQueue(q),
           control' = [control EXCEPT ![<<a, b>>] = q],
           TokensIn(q) # {} => b = Succ(a) /\ NumNodes > 1,
           UpdatesIn(q) # {} => a = 0 /\ NumNodes > 1
    PROVE  /\ Links'
           /\ \A m \in Node : Toks(m)' = IF m = a /\ b = Succ(a) THEN TokensIn(q) ELSE Toks(m)
           /\ \A m \in Node : Sent(m)' = IF m = b /\ a = 0 THEN UpdatesIn(q) ELSE Sent(m)
<1>1. \A c, d \in Node : control'[<<c, d>>] = IF c = a /\ d = b THEN q ELSE control[<<c, d>>]
  BY DEF TypeInv
<1>2. ASSUME NEW c \in Node, NEW d \in Node
      PROVE  /\ IsQueue(control'[<<c, d>>])
             /\ TokensIn(control'[<<c, d>>]) # {} => d = Succ(c) /\ NumNodes > 1
             /\ UpdatesIn(control'[<<c, d>>]) # {} => c = 0 /\ NumNodes > 1
  <2>1. CASE c = a /\ d = b
    BY <1>1, <2>1
  <2>2. CASE ~ (c = a /\ d = b)
    BY <1>1, <2>2 DEF Links
  <2> QED
    BY <2>1, <2>2
<1>5. Links'
  BY <1>2 DEF Links, Succ
<1>3. ASSUME NEW m \in Node
      PROVE  Toks(m)' = IF m = a /\ b = Succ(a) THEN TokensIn(q) ELSE Toks(m)
  <2>1. PICK k \in Node : k = Succ(m)
    BY SuccIs DEF Succ
  <2>2. Toks(m)' = TokensIn(control'[<<m, k>>])
    BY <2>1 DEF Toks
  <2>3. control'[<<m, k>>] = IF m = a /\ k = b THEN q ELSE control[<<m, k>>]
    BY <1>1
  <2>4. CASE m = a /\ k = b
    BY <2>1, <2>2, <2>3, <2>4
  <2>5. CASE ~ (m = a /\ k = b)
    BY <2>1, <2>2, <2>3, <2>5 DEF Toks
  <2> QED
    BY <2>4, <2>5
<1>4. ASSUME NEW m \in Node
      PROVE  Sent(m)' = IF m = b /\ a = 0 THEN UpdatesIn(q) ELSE Sent(m)
  <2>2. Sent(m)' = UpdatesIn(control'[<<0, m>>])
    BY DEF Sent
  <2>3. control'[<<0, m>>] = IF 0 = a /\ m = b THEN q ELSE control[<<0, m>>]
    BY <1>1, Sizes
  <2>4. CASE m = b /\ a = 0
    BY <2>2, <2>3, <2>4
  <2>5. CASE ~ (m = b /\ a = 0)
    BY <2>2, <2>3, <2>5 DEF Sent
  <2> QED
    BY <2>4, <2>5
<1> QED
  BY <1>3, <1>4, <1>5

(* A node sends the token, ...                                             *)
LEMMA TokenSent ==
    ASSUME TypeInv, Links, NEW n \in Node, NumNodes > 1, Toks(n) = {}, FinishLocal(n)
    PROVE  /\ Links'
           /\ Toks(n)' = {Passes(n)}
           /\ \A m \in Node \ {n} : Toks(m)' = Toks(m)
           /\ \A m \in Node : Sent(m)' = Sent(m)
<1>1. PICK k \in Node : k = Succ(n)
  BY SuccIs DEF Succ
<1>2. PICK t \in Tokens : t = Passes(n)
  BY PassesToken
<1>3. control' = [control EXCEPT ![<<n, k>>] = Append(@, t)]
  BY <1>1, <1>2 DEF FinishLocal, Post, Passes, Succ
<1>4. PICK q : q = control[<<n, k>>]
  OBVIOUS
<1>5. IsQueue(q) /\ TokensIn(q) = {}
  BY <1>1, <1>4 DEF Links, Toks
<1>6. PICK r : r = Append(q, t)
  OBVIOUS
<1>7. IsQueue(r) /\ TokensIn(r) = {t} /\ UpdatesIn(r) = UpdatesIn(q)
  BY <1>5, <1>6, AppendToken
<1>8. control' = [control EXCEPT ![<<n, k>>] = r]
  BY <1>3, <1>4, <1>6 DEF TypeInv
<1>9. UpdatesIn(q) # {} => n = 0 /\ NumNodes > 1
  BY <1>4 DEF Links
<1>10. n = 0 => Sent(k) = UpdatesIn(q)
  BY <1>4 DEF Sent
<1>11. /\ Links'
       /\ \A m \in Node : Toks(m)' = IF m = n /\ k = Succ(n) THEN TokensIn(r) ELSE Toks(m)
       /\ \A m \in Node : Sent(m)' = IF m = k /\ n = 0 THEN UpdatesIn(r) ELSE Sent(m)
  BY <1>1, <1>7, <1>8, <1>9, OneLink
<1> QED
  BY <1>1, <1>2, <1>7, <1>10, <1>11

(* ... the next one takes it, ...                                          *)
LEMMA TokenTaken ==
    ASSUME TypeInv, Links, NEW n \in Node, NEW from \in Node,
           control[<<from, n>>] # <<>>, Head(control[<<from, n>>]).type = "token",
           control' = [control EXCEPT ![<<from, n>>] = Tail(@)]
    PROVE  /\ Links' /\ NumNodes > 1
           /\ n = Succ(from) /\ Head(control[<<from, n>>]) \in Tokens
           /\ Toks(from) = {Head(control[<<from, n>>])} /\ Toks(from)' = {}
           /\ \A m \in Node \ {from} : Toks(m)' = Toks(m)
           /\ \A m \in Node : Sent(m)' = Sent(m)
<1>1. PICK q : q = control[<<from, n>>]
  OBVIOUS
<1>2. /\ IsQueue(q) /\ Head(q) \in Tokens
      /\ TokensIn(q) = {Head(q)} /\ UpdatesIn(q) = {} /\ Tail(q) = <<>>
  BY <1>1, TakeToken DEF Links
<1>3. n = Succ(from) /\ NumNodes > 1
  BY <1>1, <1>2 DEF Links
<1>4. PICK r : r = Tail(q)
  OBVIOUS
<1>5. IsQueue(r) /\ TokensIn(r) = {} /\ UpdatesIn(r) = {}
  BY <1>2, <1>4, QueueOfNone
<1>6. control' = [control EXCEPT ![<<from, n>>] = r]
  BY <1>1, <1>4 DEF TypeInv
<1>7. /\ Links'
      /\ \A m \in Node : Toks(m)' = IF m = from /\ n = Succ(from) THEN TokensIn(r) ELSE Toks(m)
      /\ \A m \in Node : Sent(m)' = IF m = n /\ from = 0 THEN UpdatesIn(r) ELSE Sent(m)
  BY <1>5, <1>6, OneLink
<1>8. from = 0 => Sent(n) = {}
  BY <1>1, <1>2 DEF Sent
<1>9. Toks(from) = {Head(q)}
  BY <1>1, <1>2, <1>3 DEF Toks
<1> QED
  BY <1>1, <1>2, <1>3, <1>5, <1>7, <1>8, <1>9

(* ... and in the end the initiator sends everyone the GVT.                *)
Rest(from)   == [control EXCEPT ![<<from, 0>>] = Tail(@)]
Answer(from) == [type |-> "update", gvt |-> Min(Head(control[<<from, 0>>]).m_clock,
                                                Head(control[<<from, 0>>]).m_send)]
Answers(from) ==
    control' = [link \in Node \X Node |->
                   IF link[1] = 0 THEN Append(Rest(from)[link], Answer(from)) ELSE Rest(from)[link]]

LEMMA UpdatesSent ==
    ASSUME TypeInv, Links, NEW from \in Node,
           control[<<from, 0>>] # <<>>, Head(control[<<from, 0>>]).type = "token",
           \A m \in Node : (Toks(m) # {} => m = from) /\ ~ Awaits(m),
           Answer(from) \in Updates, Answers(from)
    PROVE  /\ Links' /\ NumNodes > 1
           /\ Succ(from) = 0 /\ Head(control[<<from, 0>>]) \in Tokens
           /\ Toks(from) = {Head(control[<<from, 0>>])}
           /\ \A m \in Node : Toks(m)' = {} /\ Sent(m)' = {Answer(from).gvt}
<1>0. 0 \in Node
  BY Sizes
<1>10. PICK u \in Updates : u = Answer(from)
  OBVIOUS
<1>11. PICK rest : rest = Rest(from)
  OBVIOUS
<1>12. control' = [link \in Node \X Node |->
                     IF link[1] = 0 THEN Append(rest[link], u) ELSE rest[link]]
  BY <1>10, <1>11 DEF Answers
<1>1. PICK q : q = control[<<from, 0>>]
  OBVIOUS
<1>2. /\ IsQueue(q) /\ Head(q) \in Tokens
      /\ TokensIn(q) = {Head(q)} /\ UpdatesIn(q) = {} /\ Tail(q) = <<>>
  BY <1>0, <1>1, TakeToken DEF Links
<1>3. 0 = Succ(from) /\ NumNodes > 1
  BY <1>0, <1>1, <1>2 DEF Links
<1>4. Toks(from) = {Head(q)}
  BY <1>1, <1>2, <1>3 DEF Toks
<1>5. \A c, d \in Node : rest[<<c, d>>] = IF c = from /\ d = 0 THEN <<>> ELSE control[<<c, d>>]
  BY <1>0, <1>1, <1>2, <1>11 DEF TypeInv, Rest
<1>6. ASSUME NEW c \in Node, NEW d \in Node
      PROVE  /\ IsQueue(rest[<<c, d>>]) /\ TokensIn(rest[<<c, d>>]) = {}
             /\ UpdatesIn(rest[<<c, d>>]) = {}
  <2>1. CASE c = from /\ d = 0
    BY <2>1, <1>5, QueueOfNone
  <2>2. CASE ~ (c = from /\ d = 0)
    <3>1. rest[<<c, d>>] = control[<<c, d>>]
      BY <2>2, <1>5
    <3>2. TokensIn(control[<<c, d>>]) = {}
      <4>1. SUFFICES ASSUME TokensIn(control[<<c, d>>]) # {} PROVE FALSE
        OBVIOUS
      <4>2. d = Succ(c)
        BY <4>1 DEF Links
      <4>3. Toks(c) # {}
        BY <4>1, <4>2 DEF Toks
      <4> QED
        BY <4>2, <4>3, <2>2, <1>3
    <3>3. UpdatesIn(control[<<c, d>>]) = {}
      <4>1. SUFFICES ASSUME UpdatesIn(control[<<c, d>>]) # {} PROVE FALSE
        OBVIOUS
      <4>2. c = 0
        BY <4>1 DEF Links
      <4> QED
        BY <4>1, <4>2 DEF Awaits, Sent
    <3> QED
      BY <3>1, <3>2, <3>3 DEF Links
  <2> QED
    BY <2>1, <2>2
<1>7. ASSUME NEW c \in Node, NEW d \in Node
      PROVE  /\ IsQueue(control'[<<c, d>>]) /\ TokensIn(control'[<<c, d>>]) = {}
             /\ UpdatesIn(control'[<<c, d>>]) = IF c = 0 THEN {u.gvt} ELSE {}
  <2>1. PICK r : r = rest[<<c, d>>]
    OBVIOUS
  <2>2. control'[<<c, d>>] = IF c = 0 THEN Append(r, u) ELSE r
    BY <1>12, <2>1
  <2>3. IsQueue(r) /\ TokensIn(r) = {} /\ UpdatesIn(r) = {}
    BY <2>1, <1>6
  <2>4. IsQueue(Append(r, u)) /\ TokensIn(Append(r, u)) = {} /\ UpdatesIn(Append(r, u)) = {u.gvt}
    BY <2>3, AppendUpdate
  <2> QED
    BY <2>2, <2>3, <2>4
<1>8. Links'
  <2>1. ASSUME NEW c \in Node, NEW d \in Node
        PROVE  /\ IsQueue(control'[<<c, d>>])
               /\ TokensIn(control'[<<c, d>>]) # {} => d = Succ(c) /\ NumNodes > 1
               /\ UpdatesIn(control'[<<c, d>>]) # {} => c = 0 /\ NumNodes > 1
      <3>1. PICK r : r = control'[<<c, d>>]
        OBVIOUS
      <3>2. IsQueue(r) /\ TokensIn(r) = {} /\ UpdatesIn(r) = IF c = 0 THEN {u.gvt} ELSE {}
        BY <1>7, <3>1
      <3> QED
        BY <1>3, <3>1, <3>2
  <2> QED
    BY <2>1 DEF Links, Succ
<1>9. ASSUME NEW m \in Node PROVE Toks(m)' = {} /\ Sent(m)' = {u.gvt}
  <2>1. PICK k \in Node : k = Succ(m)
    BY SuccIs DEF Succ
  <2>2. Toks(m)' = TokensIn(control'[<<m, k>>]) /\ Sent(m)' = UpdatesIn(control'[<<0, m>>])
    BY <2>1 DEF Toks, Sent
  <2> QED
    BY <2>2, <1>0, <1>7
<1> QED
  BY <1>1, <1>2, <1>3, <1>4, <1>8, <1>9, <1>10

LEMMA UpdateTaken ==
    ASSUME TypeInv, Links, NEW n \in Node, receiveGVTUpdate(n)
    PROVE  /\ Links' /\ NumNodes > 1
           /\ Head(control[<<0, n>>]) \in Updates
           /\ Sent(n) = {Head(control[<<0, n>>]).gvt} /\ Sent(n)' = {}
           /\ \A m \in Node \ {n} : Sent(m)' = Sent(m)
           /\ \A m \in Node : Toks(m)' = Toks(m)
<1>0. /\ 0 \in Node /\ control[<<0, n>>] # <<>> /\ Head(control[<<0, n>>]).type = "update"
      /\ control' = [control EXCEPT ![<<0, n>>] = Tail(@)]
  BY Sizes DEF receiveGVTUpdate
<1>1. PICK q : q = control[<<0, n>>]
  OBVIOUS
<1>2. /\ IsQueue(q) /\ Head(q) \in Updates /\ UpdatesIn(q) = {Head(q).gvt}
      /\ IsQueue(Tail(q)) /\ UpdatesIn(Tail(q)) = {} /\ TokensIn(Tail(q)) = TokensIn(q)
  BY <1>0, <1>1, TakeUpdate DEF Links
<1>3. NumNodes > 1 /\ (TokensIn(q) # {} => n = Succ(0))
  BY <1>0, <1>1, <1>2 DEF Links
<1>4. PICK r : r = Tail(q)
  OBVIOUS
<1>5. control' = [control EXCEPT ![<<0, n>>] = r]
  BY <1>0, <1>1, <1>4 DEF TypeInv
<1>6. /\ Links'
      /\ \A m \in Node : Toks(m)' = IF m = 0 /\ n = Succ(0) THEN TokensIn(r) ELSE Toks(m)
      /\ \A m \in Node : Sent(m)' = IF m = n /\ 0 = 0 THEN UpdatesIn(r) ELSE Sent(m)
  <2>1. /\ IsQueue(r)
        /\ TokensIn(r) # {} => n = Succ(0) /\ NumNodes > 1
        /\ UpdatesIn(r) # {} => 0 = 0 /\ NumNodes > 1
    BY <1>2, <1>3, <1>4
  <2> QED
    BY <1>0, <1>5, <2>1, OneLink
<1>7. n = Succ(0) => Toks(0) = TokensIn(q)
  BY <1>1 DEF Toks
<1>8. Sent(n) = UpdatesIn(q)
  BY <1>1 DEF Sent
<1> QED
  BY <1>1, <1>2, <1>3, <1>4, <1>6, <1>7, <1>8

-----------------------------------------------------------------------------
(* Where the token is, and which nodes have the color of the computation.  *)

(* The node has changed color for the computation that runs.               *)
IsRed(n) == started_global_gvt /\ node[n].color = node[0].color

(* There is at most one token; the node that has it runs the local         *)
(* computation.  Node 0 takes the update it sends itself before it begins  *)
(* again; the other nodes may still await theirs.                          *)
Ring ==
    /\ \A n \in Node : Holds(n) =>
          started_global_gvt /\ \A m \in Node : (Holds(m) => m = n) /\ Toks(m) = {}
    /\ \A n \in Node : Toks(n) # {} =>
          started_global_gvt /\ \A m \in Node : ~ Holds(m) /\ (Toks(m) # {} => m = n)
    /\ \A n \in Node : mpc[n] = "store" \/ started_local_gvt[n] => Holds(n)
    /\ Awaits(0) => ~ started_global_gvt /\ gvt_state[0] = "GLOBAL"
    /\ NumNodes > 1 /\ started_global_gvt => gvt_state[0] # "IDLE"

(* A node is red from the token's first visit, and its initial color       *)
(* follows when the update arrives.  All nodes up to the token are red.    *)
Colors ==
    /\ \A n \in Node : Awaits(n) => node[n].color # node[n].initial_color /\ ~ IsRed(n)
    /\ \A n \in Node : ~ Awaits(n) => (node[n].color = node[n].initial_color <=> ~ IsRed(n))
    /\ ~ started_global_gvt => \A n \in Node : node[n].color = node[0].color
    /\ \A p \in Node : Holds(p) \/ Toks(p) # {} => \A n \in Node : n <= p => IsRed(n)

TokenInv == TypeInv /\ Links /\ Ring /\ Colors

LEMMA TokenInit == Init => TokenInv
<1> SUFFICES ASSUME Init PROVE TokenInv
  OBVIOUS
<1>1. TypeInv
  BY TypesInit
<1>2. \A a, b \in Node : control[<<a, b>>] = <<>>
  BY DEF Init
<1>3. Links
  BY <1>2, QueueOfNone DEF Links
<1>4. ASSUME NEW n \in Node
      PROVE  /\ Toks(n) = {} /\ ~ Awaits(n) /\ ~ Holds(n)
             /\ mpc[n] = "idle" /\ ~ started_local_gvt[n]
             /\ node[n].color = WHITE /\ node[n].initial_color = WHITE
  <2>1. Toks(n) = {} /\ ~ Awaits(n)
    BY <1>2, QueueOfNone, SuccIs, Sizes DEF Toks, Awaits, Sent, Succ
  <2> QED
    BY <2>1 DEF Init, Holds
<1>5. ~ started_global_gvt
  BY DEF Init
<1>6. Ring
  BY <1>4, <1>5, Sizes DEF Ring
<1>7. Colors
  BY <1>4, <1>5, Sizes DEF Colors, IsRed
<1> QED
  BY <1>1, <1>3, <1>6, <1>7 DEF TokenInv

(* Steps that concern neither the token nor the colors.                    *)
LEMMA SameToken ==
    ASSUME TokenInv, TypeInv',
           UNCHANGED <<control, gvt_state, started_global_gvt, started_local_gvt, mpc>>,
           \A n \in Node : /\ node'[n].color = node[n].color
                           /\ node'[n].initial_color = node[n].initial_color
    PROVE  TokenInv'
<1>1. Links'
  BY DEF TokenInv, Links, Succ
<1>2. \A n \in Node : /\ Toks(n)' = Toks(n) /\ Sent(n)' = Sent(n) /\ Awaits(n)' = Awaits(n)
                      /\ Holds(n)' = Holds(n) /\ IsRed(n)' = IsRed(n)
  BY Sizes DEF Toks, Sent, Awaits, Holds, IsRed, Succ
<1>3. Ring'
  BY <1>2, Sizes DEF TokenInv, Ring
<1>4. Colors'
  BY <1>2, Sizes DEF TokenInv, Colors
<1> QED
  BY <1>1, <1>3, <1>4 DEF TokenInv

LEMMA SameLinks ==
    ASSUME Links, control' = control
    PROVE  /\ Links'
           /\ \A n \in Node : Toks(n)' = Toks(n) /\ Sent(n)' = Sent(n) /\ Awaits(n)' = Awaits(n)
<1>1. Links'
  BY DEF Links, Succ
<1> QED
  BY <1>1 DEF Toks, Sent, Awaits, Succ

LEMMA TokenWorker ==
    ASSUME TokenInv, TypeInv', NEW w \in Worker, WorkerStep(w)
    PROVE  TokenInv'
<1>1. CASE UNCHANGED globalVars
  BY <1>1, SameToken DEF globalVars
<1>2. ASSUME NEW lp \in LP, NEW ts \in SendTimes, SendRemote(w, lp, ts) PROVE TokenInv'
  <2>1. UNCHANGED <<control, gvt_state, started_global_gvt, started_local_gvt, mpc>>
    BY <1>2 DEF SendRemote
  <2>2. \A n \in Node : /\ node'[n].color = node[n].color
                        /\ node'[n].initial_color = node[n].initial_color
    BY <1>2, NodeAfterSend DEF TokenInv, Becomes
  <2> QED
    BY <2>1, <2>2, SameToken
<1> QED
  BY <1>1, <1>2 DEF WorkerStep, ReadFlag, GetEvent, reportThreadMin, SendLocal,
                    reportThreadSendMin, ReplenishScheduler

LEMMA TokenReceive ==
    ASSUME TokenInv, TypeInv', NEW m \in transit, ReceiveEvent(m)
    PROVE  TokenInv'
<1>1. UNCHANGED <<control, gvt_state, started_global_gvt, started_local_gvt, mpc>>
  BY DEF ReceiveEvent
<1>2. \A n \in Node : /\ node'[n].color = node[n].color
                      /\ node'[n].initial_color = node[n].initial_color
  BY NodeAfterReceive DEF TokenInv, Becomes
<1> QED
  BY <1>1, <1>2, SameToken

(* Node 0 changes color when all nodes have its color still.               *)
LEMMA TokenStart ==
    ASSUME TokenInv, TypeInv', BeginLocal(0), ~ started_global_gvt
    PROVE  TokenInv' /\ gvt_state[0] = "IDLE"
<1>0. 0 \in Node /\ \A n \in Node : node[n].color \in Color /\ node[n].initial_color \in Color
  BY Sizes, Fields DEF TokenInv
<1>1. /\ gvt_state' = [gvt_state EXCEPT ![0] = "LOCAL"]
      /\ started_global_gvt' = TRUE
      /\ mpc' = [mpc EXCEPT ![0] = "store"]
      /\ UNCHANGED <<control, started_local_gvt>>
  BY DEF BeginLocal
<1>2. gvt_state[0] = "IDLE"
  <2>1. ~ Holds(0)
    BY <1>0 DEF TokenInv, Ring
  <2> QED
    BY <2>1 DEF BeginLocal, Holds
<1>3. /\ node'[0].color = Other(node[0].color) /\ node'[0].initial_color = node[0].initial_color
      /\ \A n \in Node \ {0} : node'[n] = node[n]
  BY NodeAtStart DEF TokenInv, Becomes
<1>4. /\ Links'
      /\ \A n \in Node : Toks(n)' = Toks(n) /\ Sent(n)' = Sent(n) /\ Awaits(n)' = Awaits(n)
  BY <1>1, SameLinks DEF TokenInv
<1>5. \A n \in Node : Toks(n) = {} /\ ~ Holds(n)
  BY DEF TokenInv, Ring
<1>6. \A n \in Node : Holds(n)' <=> n = 0
  BY <1>0, <1>1, <1>5 DEF TokenInv, TypeInv, Holds
<1>7. ~ Awaits(0)
  BY <1>2 DEF TokenInv, Ring
<1>8. \A n \in Node : mpc'[n] = "store" \/ started_local_gvt'[n] => n = 0
  <2>1. \A n \in Node : ~ (mpc[n] = "store" \/ started_local_gvt[n])
    BY <1>5 DEF TokenInv, Ring
  <2> QED
    BY <1>0, <1>1, <2>1 DEF TokenInv, TypeInv
<1>9. Ring'
  <2>1. gvt_state'[0] # "IDLE"
    BY <1>0, <1>1 DEF TokenInv, TypeInv
  <2> QED
    BY <1>0, <1>1, <1>4, <1>5, <1>6, <1>7, <1>8, <2>1 DEF Ring
<1>10. \A n \in Node : node[n].color = node[0].color
  BY DEF TokenInv, Colors
<1>11. Other(node[0].color) # node[0].color
  BY <1>0, OthersColor
<1>12. \A n \in Node : IsRed(n)' <=> n = 0
  BY <1>1, <1>3, <1>10, <1>11 DEF IsRed
<1>13. \A n \in Node : ~ IsRed(n)
  BY DEF IsRed
<1>14. \A n \in Node : Awaits(n)' => node'[n].color # node'[n].initial_color /\ ~ IsRed(n)'
  BY <1>3, <1>4, <1>7, <1>12 DEF TokenInv, Colors
<1>15. \A n \in Node : ~ Awaits(n)' => (node'[n].color = node'[n].initial_color <=> ~ IsRed(n)')
  <2>1. node[0].color = node[0].initial_color
    BY <1>0, <1>7, <1>13 DEF TokenInv, Colors
  <2>2. node'[0].color # node'[0].initial_color
    BY <1>3, <1>11, <2>1
  <2> QED
    BY <1>3, <1>4, <1>12, <1>13, <2>2 DEF TokenInv, Colors
<1>16. Colors'
  <2>1. \A p \in Node : Holds(p)' \/ Toks(p)' # {} => \A n \in Node : n <= p => IsRed(n)'
    BY <1>4, <1>5, <1>6, <1>12 DEF Node
  <2> QED
    BY <1>1, <1>14, <1>15, <2>1 DEF Colors
<1> QED
  BY <1>2, <1>4, <1>9, <1>16 DEF TokenInv

(* The next steps leave the colors as they are.                            *)
LEMMA SameColors ==
    ASSUME TokenInv, TypeInv', Links', Ring',
           UNCHANGED started_global_gvt,
           \A n \in Node : /\ node'[n].color = node[n].color
                           /\ node'[n].initial_color = node[n].initial_color
                           /\ Awaits(n)' = Awaits(n),
           \A p \in Node : Holds(p)' \/ Toks(p)' # {} => Holds(p) \/ Toks(p) # {}
    PROVE  TokenInv'
<1>1. \A n \in Node : IsRed(n)' = IsRed(n)
  BY Sizes DEF IsRed
<1>2. Colors'
  BY <1>1, Sizes DEF TokenInv, Colors
<1> QED
  BY <1>2 DEF TokenInv

LEMMA TokenBegin ==
    ASSUME TokenInv, TypeInv', NEW n \in Node, BeginLocal(n), n # 0 \/ started_global_gvt
    PROVE  TokenInv' /\ (Holds(n) \/ (NumNodes = 1 /\ gvt_state[0] = "IDLE" /\ n = 0))
<1>1. /\ gvt_state' = [gvt_state EXCEPT ![n] = "LOCAL"]
      /\ mpc' = [mpc EXCEPT ![n] = "store"]
      /\ UNCHANGED <<control, started_local_gvt, started_global_gvt, node>>
  BY DEF BeginLocal
<1>2. Holds(n) \/ (NumNodes = 1 /\ gvt_state[0] = "IDLE" /\ n = 0 /\ started_global_gvt)
  BY Sizes DEF BeginLocal, Holds, TokenInv, Ring
<1>3. /\ Links'
      /\ \A m \in Node : Toks(m)' = Toks(m) /\ Sent(m)' = Sent(m) /\ Awaits(m)' = Awaits(m)
  BY <1>1, SameLinks DEF TokenInv
<1>4. \A m \in Node : Holds(m)' <=> (m = n \/ Holds(m))
  BY <1>1 DEF TokenInv, TypeInv, Holds
<1>5. \A m \in Node : mpc'[m] = "store" => mpc[m] = "store" \/ m = n
  BY <1>1 DEF TokenInv, TypeInv
<1>6. CASE Holds(n)
  <2>1. \A m \in Node : Holds(m)' <=> Holds(m)
    BY <1>4, <1>6
  <2>2. gvt_state'[0] # "IDLE" <=> gvt_state[0] # "IDLE"
    BY <1>1, <1>6, Sizes DEF TokenInv, TypeInv, Holds
  <2>3. gvt_state'[0] = "GLOBAL" <=> gvt_state[0] = "GLOBAL"
    BY <1>1, <1>6, Sizes DEF TokenInv, TypeInv, Holds
  <2>4. Ring'
    BY <1>1, <1>3, <1>5, <1>6, <2>1, <2>2, <2>3, Sizes DEF TokenInv, Ring
  <2>5. \A m \in Node : /\ node'[m].color = node[m].color
                        /\ node'[m].initial_color = node[m].initial_color
                        /\ Awaits(m)' = Awaits(m)
    BY <1>1, <1>3
  <2>6. \A p \in Node : Holds(p)' \/ Toks(p)' # {} => Holds(p) \/ Toks(p) # {}
    BY <1>3, <2>1
  <2>7. TokenInv'
    BY <1>1, <1>3, <2>4, <2>5, <2>6, SameColors
  <2> QED
    BY <1>6, <2>7
<1>7. CASE NumNodes = 1 /\ gvt_state[0] = "IDLE" /\ n = 0 /\ started_global_gvt
  <2>1. Node = {0}
    BY <1>7 DEF Node
  <2>2. Toks(0) = {} /\ ~ Awaits(0)
    BY <1>7, <2>1, InLinks DEF TokenInv
  <2>3. Ring'
    BY <1>1, <1>3, <1>4, <1>5, <1>7, <2>1, <2>2 DEF TokenInv, Ring
  <2>4. Colors'
    <3>1. IsRed(0)' /\ IsRed(0)
      BY <1>1, <1>7 DEF IsRed
    <3> QED
      BY <1>1, <1>3, <1>7, <2>1, <2>2, <3>1 DEF TokenInv, Colors
  <2>5. TokenInv'
    BY <1>3, <2>3, <2>4 DEF TokenInv
  <2> QED
    BY <1>7, <2>5
<1> QED
  BY <1>2, <1>6, <1>7

LEMMA TokenStore ==
    ASSUME TokenInv, TypeInv', NEW n \in Node, StoreFlag(n)
    PROVE  TokenInv' /\ Holds(n)
<1>1. /\ mpc[n] = "store" /\ mpc' = [mpc EXCEPT ![n] = "idle"]
      /\ started_local_gvt' = [started_local_gvt EXCEPT ![n] = TRUE]
      /\ UNCHANGED <<control, gvt_state, started_global_gvt, node>>
  BY DEF StoreFlag
<1>2. Holds(n)
  BY <1>1 DEF TokenInv, Ring
<1>3. /\ Links'
      /\ \A m \in Node : Toks(m)' = Toks(m) /\ Sent(m)' = Sent(m) /\ Awaits(m)' = Awaits(m)
  BY <1>1, SameLinks DEF TokenInv
<1>4. \A m \in Node : Holds(m)' = Holds(m)
  BY <1>1 DEF Holds
<1>5. \A m \in Node : mpc'[m] = "store" \/ started_local_gvt'[m] => Holds(m)
  BY <1>1, <1>2 DEF TokenInv, TypeInv, Ring
<1>6. Ring'
  BY <1>1, <1>3, <1>4, <1>5, Sizes DEF TokenInv, Ring
<1> QED
  BY <1>1, <1>2, <1>3, <1>4, <1>6, SameColors

(* The computation of a node ends: it has the token no longer.             *)
LEMMA TokenFinish ==
    ASSUME TokenInv, TypeInv', NEW n \in Node, FinishLocal(n)
    PROVE  /\ TokenInv' /\ Holds(n) /\ ~ Holds(n)'
           /\ \A m \in Node : Sent(m)' = Sent(m)
           /\ NumNodes > 1 => /\ Toks(n)' = {Passes(n)}
                              /\ \A m \in Node \ {n} : Toks(m)' = {}
           /\ ~ NumNodes > 1 => \A m \in Node : Toks(m)' = {}
<1>1. /\ mpc[n] = "idle" /\ gvt_state[n] = "LOCAL"
      /\ started_local_gvt' = [started_local_gvt EXCEPT ![n] = FALSE]
      /\ gvt_state' = [gvt_state EXCEPT ![n] = IF NumNodes > 1 THEN "GLOBAL" ELSE "IDLE"]
      /\ UNCHANGED <<node, started_global_gvt, mpc>>
  BY DEF FinishLocal
<1>2. Holds(n)
  BY <1>1 DEF Holds
<1>3. /\ started_global_gvt /\ \A m \in Node : Toks(m) = {} /\ (Holds(m) => m = n)
  BY <1>2 DEF TokenInv, Ring
<1>4. /\ gvt_state'[n] = IF NumNodes > 1 THEN "GLOBAL" ELSE "IDLE"
      /\ \A m \in Node : ~ Holds(m)'
  BY <1>1, <1>3 DEF TokenInv, TypeInv, Holds
<1>5. \A m \in Node : mpc'[m] = "idle" /\ ~ started_local_gvt'[m]
  <2>1. \A m \in Node \ {n} : ~ (mpc[m] = "store" \/ started_local_gvt[m])
    BY <1>3 DEF TokenInv, Ring
  <2> QED
    BY <1>1, <2>1 DEF TokenInv, TypeInv
<1>6. /\ Links'
      /\ \A m \in Node : Sent(m)' = Sent(m)
      /\ NumNodes > 1 => Toks(n)' = {Passes(n)} /\ \A m \in Node \ {n} : Toks(m)' = {}
      /\ ~ NumNodes > 1 => \A m \in Node : Toks(m)' = {}
  <2>1. CASE NumNodes > 1
    BY <1>3, <2>1, TokenSent DEF TokenInv
  <2>2. CASE ~ NumNodes > 1
    <3>1. control' = control
      BY <2>2 DEF FinishLocal
    <3> QED
      BY <1>3, <2>2, <3>1, SameLinks DEF TokenInv
  <2> QED
    BY <2>1, <2>2
<1>7. \A m \in Node : Awaits(m)' = Awaits(m)
  BY <1>6 DEF Awaits
<1>8. ~ Awaits(0)
  BY <1>3 DEF TokenInv, Ring
<1>9. Ring'
  <2>1. NumNodes > 1 => gvt_state'[0] # "IDLE"
    BY <1>1, <1>3, Sizes DEF TokenInv, TypeInv, Ring
  <2>2. \A m \in Node : Toks(m)' # {} => m = n
    BY <1>6, Sizes
  <2> QED
    BY <1>1, <1>3, <1>4, <1>5, <1>7, <1>8, <2>1, <2>2, Sizes DEF Ring
<1>10. \A p \in Node : Holds(p)' \/ Toks(p)' # {} => Holds(p) \/ Toks(p) # {}
  BY <1>2, <1>4, <1>6, Sizes
<1>11. \A m \in Node : /\ node'[m].color = node[m].color
                       /\ node'[m].initial_color = node[m].initial_color
  BY <1>1
<1>12. TokenInv'
  BY <1>1, <1>6, <1>7, <1>9, <1>10, <1>11, SameColors
<1> QED
  BY <1>2, <1>4, <1>6, <1>12

(* The token arrives at a node: if it has the old color it changes.        *)
(* Of two nodes the second has but one link to take from.                  *)
InOrder == FifoNodes \/ NumNodes <= 2

LEMMA NoUpdateAhead ==
    ASSUME TypeInv, Links, NEW n \in Node, NEW from \in Node, InOrder,
           NodeReceivesToken(n, from)
    PROVE  ~ Awaits(n)
<1>1. CASE FifoNodes
  <2>1. \A i \in DOMAIN control[<<0, n>>] : control[<<0, n>>][i].type # "update"
    BY <1>1, Sizes DEF NodeReceivesToken
  <2> QED
    BY <2>1 DEF Awaits, Sent, UpdatesIn
<1>2. CASE NumNodes <= 2
  <2>1. PICK q : q = control[<<from, n>>]
    OBVIOUS
  <2>2. IsQueue(q) /\ q # <<>> /\ Head(q).type = "token" /\ n # 0
    BY <2>1 DEF Links, NodeReceivesToken
  <2>3. TokensIn(q) # {} /\ UpdatesIn(q) = {}
    BY <2>2, TakeToken
  <2>4. n = Succ(from)
    BY <2>1, <2>3 DEF Links
  <2>5. from = 0
    <3>1. NumNodes \in {1, 2}
      BY <1>2, SizesAssumption
    <3>2. n = 1 /\ from \in {0, 1} /\ NumNodes = 2
      BY <2>2, <3>1 DEF Node
    <3>3. (1 + 1) % 2 = 0
      OBVIOUS
    <3> QED
      BY <2>4, <3>2, <3>3 DEF Succ
  <2> QED
    BY <2>1, <2>3, <2>5 DEF Awaits, Sent
<1> QED
  BY <1>1, <1>2 DEF InOrder

LEMMA TokenNode ==
    ASSUME InOrder, TokenInv, TypeInv', NEW n \in Node, NEW from \in Node,
           NodeReceivesToken(n, from)
    PROVE  LET t == Head(control[<<from, n>>]) IN
           /\ TokenInv' /\ NumNodes > 1 /\ n = from + 1 /\ started_global_gvt
           /\ t \in Tokens /\ Toks(from) = {t} /\ ~ Awaits(n)
           /\ \A m \in Node : /\ Sent(m)' = Sent(m) /\ Toks(m)' = {} /\ ~ Holds(m)
                              /\ Holds(m)' <=> m = n
                              /\ IsRed(m)' <=> IsRed(m) \/ m = n
           /\ IsRed(n) <=> node[n].color # node[n].initial_color
           /\ Other(node'[0].color) = Other(node[0].color)
<1>0. /\ 0 \in Node /\ n # 0
      /\ \A m \in Node : node[m].color \in Color /\ node[m].initial_color \in Color
  BY Sizes, Fields DEF TokenInv, NodeReceivesToken
<1>1. /\ control[<<from, n>>] # <<>> /\ Head(control[<<from, n>>]).type = "token"
      /\ gvt_state' = [gvt_state EXCEPT ![n] = "LOCAL"]
      /\ control' = [control EXCEPT ![<<from, n>>] = Tail(@)]
      /\ UNCHANGED <<started_global_gvt, started_local_gvt, mpc>>
  BY DEF NodeReceivesToken
<1>2. PICK t : t = Head(control[<<from, n>>])
  OBVIOUS
<1>3. /\ Links' /\ NumNodes > 1
      /\ n = Succ(from) /\ t \in Tokens /\ Toks(from) = {t} /\ Toks(from)' = {}
      /\ \A m \in Node \ {from} : Toks(m)' = Toks(m)
      /\ \A m \in Node : Sent(m)' = Sent(m)
  BY <1>1, <1>2, TokenTaken DEF TokenInv
<1>4. n = from + 1
  BY <1>0, <1>3, SuccIs DEF Succ
<1>5. started_global_gvt /\ \A m \in Node : ~ Holds(m) /\ (Toks(m) # {} => m = from)
  BY <1>3 DEF TokenInv, Ring
<1>6. \A m \in Node : Toks(m)' = {}
  BY <1>3, <1>5
<1>7. \A m \in Node : Holds(m)' <=> m = n
  BY <1>1, <1>5 DEF TokenInv, TypeInv, Holds
<1>8. ~ Awaits(n) /\ \A m \in Node : Awaits(m)' = Awaits(m)
  BY <1>3, NoUpdateAhead DEF Awaits, TokenInv
<1>9. Ring'
  <2>1. gvt_state'[0] = gvt_state[0]
    BY <1>0, <1>1 DEF TokenInv, TypeInv
  <2>2. \A m \in Node : ~ (mpc'[m] = "store" \/ started_local_gvt'[m])
    BY <1>1, <1>5 DEF TokenInv, Ring
  <2> QED
    BY <1>0, <1>1, <1>5, <1>6, <1>7, <1>8, <2>1, <2>2 DEF TokenInv, Ring
<1>10. IsRed(n) <=> node[n].color # node[n].initial_color
  BY <1>8 DEF TokenInv, Colors
<1>11. /\ \A m \in Node \ {n} : node'[m] = node[m]
       /\ node'[n].initial_color = node[n].initial_color
       /\ node'[n].color = IF IsRed(n) THEN node[n].color ELSE Other(node[n].color)
  BY <1>2, <1>3, <1>10, NodeAtToken DEF TokenInv, Becomes
<1>12. node'[n].color = node[0].color
  <2>1. CASE IsRed(n)
    BY <1>11, <2>1 DEF IsRed
  <2>2. CASE ~ IsRed(n)
    <3>1. node[n].color # node[0].color
      BY <1>5, <2>2 DEF IsRed
    <3> QED
      BY <1>0, <1>11, <2>2, <3>1, OthersColor
  <2> QED
    BY <2>1, <2>2
<1>13. \A m \in Node : IsRed(m)' <=> IsRed(m) \/ m = n
  BY <1>0, <1>1, <1>5, <1>11, <1>12 DEF IsRed
<1>14. node'[n].color # node'[n].initial_color
  <2>1. CASE IsRed(n)
    BY <1>10, <1>11, <2>1
  <2>2. CASE ~ IsRed(n)
    BY <1>0, <1>10, <1>11, <2>2, OthersColor
  <2> QED
    BY <2>1, <2>2
<1>15. Colors'
  <2>1. \A m \in Node : Awaits(m)' => node'[m].color # node'[m].initial_color /\ ~ IsRed(m)'
    BY <1>8, <1>11, <1>13 DEF TokenInv, Colors
  <2>2. \A m \in Node : ~ Awaits(m)' => (node'[m].color = node'[m].initial_color <=> ~ IsRed(m)')
    BY <1>8, <1>11, <1>13, <1>14 DEF TokenInv, Colors
  <2>3. \A m \in Node : m <= n => IsRed(m)'
    <3>1. \A m \in Node : m <= from => IsRed(m)
      BY <1>3 DEF TokenInv, Colors
    <3>2. \A m \in Node : m <= n => m <= from \/ m = n
      BY <1>4 DEF Node
    <3> QED
      BY <1>13, <3>1, <3>2
  <2> QED
    BY <1>1, <1>5, <1>6, <1>7, <2>1, <2>2, <2>3 DEF Colors
<1>16. node'[0] = node[0]
  BY <1>0, <1>11
<1>17. TokenInv'
  BY <1>3, <1>9, <1>15 DEF TokenInv
<1> QED
  BY <1>2, <1>3, <1>4, <1>5, <1>6, <1>7, <1>8, <1>10, <1>13, <1>16, <1>17

(* The token is back at node 0: all nodes are red.                         *)
LEMMA TokenIsBack ==
    ASSUME TokenInv, NEW from \in Node, InitiatorReceivesToken(from)
    PROVE  LET t == Head(control[<<from, 0>>]) IN
           /\ NumNodes > 1 /\ from = NumNodes - 1 /\ started_global_gvt
           /\ t \in Tokens /\ Toks(from) = {t}
           /\ \A m \in Node : (Toks(m) # {} => m = from) /\ ~ Holds(m) /\ IsRed(m) /\ ~ Awaits(m)
<1>0. 0 \in Node /\ control[<<from, 0>>] # <<>> /\ Head(control[<<from, 0>>]).type = "token"
  BY Sizes DEF InitiatorReceivesToken
<1>1. PICK q : q = control[<<from, 0>>]
  OBVIOUS
<1>2. IsQueue(q) /\ Head(q) \in Tokens /\ TokensIn(q) = {Head(q)}
  BY <1>0, <1>1, TakeToken DEF TokenInv, Links
<1>3. 0 = Succ(from) /\ NumNodes > 1
  BY <1>0, <1>1, <1>2 DEF TokenInv, Links
<1>4. Toks(from) = {Head(q)}
  BY <1>1, <1>2, <1>3 DEF Toks
<1>5. from = NumNodes - 1
  BY <1>3, SuccIs, Sizes DEF Succ
<1>6. started_global_gvt /\ \A m \in Node : ~ Holds(m) /\ (Toks(m) # {} => m = from)
  BY <1>4 DEF TokenInv, Ring
<1>7. \A m \in Node : IsRed(m)
  <2>1. \A m \in Node : m <= from => IsRed(m)
    BY <1>4 DEF TokenInv, Colors
  <2> QED
    BY <1>5, <2>1, Sizes DEF Node
<1>8. \A m \in Node : ~ Awaits(m)
  BY <1>7 DEF TokenInv, Colors
<1> QED
  BY <1>1, <1>2, <1>3, <1>4, <1>5, <1>6, <1>7, <1>8

(* It goes round once more, ...                                            *)
LEMMA InitiatorAgain ==
    ASSUME TypeInv, NEW from \in Node, InitiatorReceivesToken(from),
           Head(control[<<from, 0>>]) \in Tokens,
           ~ (Head(control[<<from, 0>>]).count <= 0)
    PROVE  LET s == node[0]
               t == Head(control[<<from, 0>>])
           IN  /\ Becomes(0, s.color, s.initial_color, [s.count EXCEPT ![s.initial_color] = 0],
                          Min(s.min_send, t.m_send), s.min_recv)
               /\ msg_count' = [msg_count EXCEPT ![0] = s.count[s.initial_color] + t.count]
               /\ gvt_state' = [gvt_state EXCEPT ![0] = "LOCAL"]
               /\ control' = [control EXCEPT ![<<from, 0>>] = Tail(@)]
               /\ UNCHANGED <<clientVars, workerVars, localVars, started_global_gvt,
                              started_local_gvt, global_min_clock, gVT, mpc>>
<1>1. PICK t \in Tokens : t = Head(control[<<from, 0>>])
  OBVIOUS
<1>2. PICK m \in Nat : m = t.m_send
  BY DEF Tokens
<1>3. /\ node' = [node EXCEPT ![0] = [Counted(node[0]) EXCEPT !.min_send = Min(@, m)]]
      /\ msg_count' = [msg_count EXCEPT ![0] = InitialCount(node[0]) + t.count]
      /\ gvt_state' = [gvt_state EXCEPT ![0] = "LOCAL"]
      /\ control' = [control EXCEPT ![<<from, 0>>] = Tail(@)]
      /\ UNCHANGED <<clientVars, workerVars, localVars, started_global_gvt,
                     started_local_gvt, global_min_clock, gVT, mpc>>
  BY <1>1, <1>2 DEF InitiatorReceivesToken
<1>4. LET s == node[0] IN
      Becomes(0, s.color, s.initial_color, [s.count EXCEPT ![s.initial_color] = 0],
              Min(s.min_send, m), s.min_recv)
  BY <1>2, <1>3, NodeAtLaterToken, Sizes
<1> QED
  BY <1>1, <1>2, <1>3, <1>4 DEF InitialCount

LEMMA TokenAround ==
    ASSUME TokenInv, TypeInv', NEW from \in Node, InitiatorReceivesToken(from),
           ~ (Head(control[<<from, 0>>]).count <= 0)
    PROVE  /\ TokenInv' /\ started_global_gvt'
           /\ \A m \in Node : /\ Sent(m)' = Sent(m) /\ Toks(m)' = {} /\ IsRed(m)'
                              /\ Holds(m)' <=> m = 0
           /\ node'[0].color = node[0].color
<1>0. 0 \in Node /\ control[<<from, 0>>] # <<>> /\ Head(control[<<from, 0>>]).type = "token"
  BY Sizes DEF InitiatorReceivesToken
<1>1. /\ started_global_gvt
      /\ Head(control[<<from, 0>>]) \in Tokens
      /\ \A m \in Node : (Toks(m) # {} => m = from) /\ ~ Holds(m) /\ IsRed(m) /\ ~ Awaits(m)
  BY TokenIsBack
<1>2. /\ Becomes(0, node[0].color, node[0].initial_color,
                 [node[0].count EXCEPT ![node[0].initial_color] = 0],
                 Min(node[0].min_send, Head(control[<<from, 0>>]).m_send), node[0].min_recv)
      /\ gvt_state' = [gvt_state EXCEPT ![0] = "LOCAL"]
      /\ control' = [control EXCEPT ![<<from, 0>>] = Tail(@)]
      /\ UNCHANGED <<started_global_gvt, started_local_gvt, mpc>>
  BY <1>1, InitiatorAgain DEF TokenInv
<1>3. \A m \in Node : /\ node'[m].color = node[m].color
                      /\ node'[m].initial_color = node[m].initial_color
  BY <1>2 DEF Becomes
<1>4. /\ Links'
      /\ \A m \in Node : Toks(m)' = {} /\ Sent(m)' = Sent(m)
  BY <1>0, <1>1, <1>2, TokenTaken DEF TokenInv
<1>5. \A m \in Node : Holds(m)' <=> m = 0
  BY <1>1, <1>2 DEF TokenInv, TypeInv, Holds
<1>6. \A m \in Node : IsRed(m)' /\ ~ Awaits(m)'
  BY <1>0, <1>1, <1>2, <1>3, <1>4 DEF IsRed, Awaits
<1>7. Ring'
  <2>1. gvt_state'[0] = "LOCAL"
    BY <1>0, <1>2 DEF TokenInv, TypeInv
  <2>2. \A m \in Node : ~ (mpc'[m] = "store" \/ started_local_gvt'[m])
    BY <1>1, <1>2 DEF TokenInv, Ring
  <2> QED
    BY <1>0, <1>1, <1>2, <1>4, <1>5, <1>6, <2>1, <2>2 DEF Ring
<1>8. Colors'
  BY <1>1, <1>2, <1>3, <1>6 DEF TokenInv, Colors
<1> QED
  BY <1>0, <1>1, <1>2, <1>3, <1>4, <1>5, <1>6, <1>7, <1>8 DEF TokenInv

(* ... or the computation ends and the nodes await the update.             *)
LEMMA InitiatorEnds ==
    ASSUME TypeInv, NEW from \in Node, InitiatorReceivesToken(from),
           Head(control[<<from, 0>>]) \in Tokens,
           Head(control[<<from, 0>>]).count <= 0
    PROVE  /\ Answer(from) \in Updates
           /\ Answer(from).gvt = Min(Head(control[<<from, 0>>]).m_clock,
                                     Head(control[<<from, 0>>]).m_send)
           /\ gvt_state' = [gvt_state EXCEPT ![0] = "GLOBAL"]
           /\ started_global_gvt' = FALSE
           /\ Answers(from)
           /\ UNCHANGED <<clientVars, workerVars, localVars, node, msg_count,
                          started_local_gvt, global_min_clock, gVT, mpc>>
<1>1. PICK t \in Tokens : t = Head(control[<<from, 0>>])
  OBVIOUS
<1>2. PICK g \in Nat : g = Min(t.m_clock, t.m_send)
  BY MinIsLess DEF Tokens
<1>3. Answer(from) = [type |-> "update", gvt |-> g]
  BY <1>1, <1>2 DEF Answer
<1>4. Answer(from) \in Updates /\ Answer(from).gvt = g
  BY <1>3 DEF Updates
<1>5. /\ gvt_state' = [gvt_state EXCEPT ![0] = "GLOBAL"]
      /\ started_global_gvt' = FALSE
      /\ UNCHANGED <<clientVars, workerVars, localVars, node, msg_count,
                     started_local_gvt, global_min_clock, gVT, mpc>>
  BY DEF InitiatorReceivesToken
<1>6. Answers(from)
  BY DEF InitiatorReceivesToken, Answers, Answer, Rest
<1> QED
  BY <1>1, <1>2, <1>4, <1>5, <1>6

LEMMA TokenEnds ==
    ASSUME TokenInv, TypeInv', NEW from \in Node, InitiatorReceivesToken(from),
           Head(control[<<from, 0>>]).count <= 0
    PROVE  LET t == Head(control[<<from, 0>>]) IN
           /\ TokenInv' /\ ~ started_global_gvt'
           /\ \A m \in Node : /\ Sent(m)' = {Min(t.m_clock, t.m_send)} /\ Toks(m)' = {}
                              /\ ~ Holds(m)' /\ ~ IsRed(m)'
<1>0. 0 \in Node /\ control[<<from, 0>>] # <<>> /\ Head(control[<<from, 0>>]).type = "token"
  BY Sizes DEF InitiatorReceivesToken
<1>1. Head(control[<<from, 0>>]) \in Tokens
  BY TokenIsBack
<1>2. /\ started_global_gvt /\ NumNodes > 1
      /\ \A m \in Node : (Toks(m) # {} => m = from) /\ ~ Holds(m) /\ IsRed(m) /\ ~ Awaits(m)
  BY TokenIsBack
<1>5. /\ Answer(from) \in Updates
      /\ Answer(from).gvt = Min(Head(control[<<from, 0>>]).m_clock,
                                Head(control[<<from, 0>>]).m_send)
      /\ gvt_state' = [gvt_state EXCEPT ![0] = "GLOBAL"]
      /\ started_global_gvt' = FALSE
      /\ Answers(from)
      /\ UNCHANGED <<node, started_local_gvt, mpc>>
  BY <1>1, InitiatorEnds DEF TokenInv
<1>6. Links' /\ \A m \in Node : Toks(m)' = {} /\ Sent(m)' = {Answer(from).gvt}
  BY <1>0, <1>2, <1>5, UpdatesSent DEF TokenInv
<1>7. \A m \in Node : ~ Holds(m)' /\ ~ IsRed(m)' /\ Awaits(m)'
  <2>1. \A m \in Node : Awaits(m)'
    BY <1>6 DEF Awaits
  <2>2. \A m \in Node : ~ IsRed(m)'
    BY <1>5 DEF IsRed
  <2>3. \A m \in Node : ~ Holds(m)'
    BY <1>2, <1>5 DEF TokenInv, TypeInv, Holds
  <2> QED
    BY <2>1, <2>2, <2>3
<1>8. Ring'
  <2>1. gvt_state'[0] = "GLOBAL"
    BY <1>0, <1>5 DEF TokenInv, TypeInv
  <2>2. \A m \in Node : ~ (mpc'[m] = "store" \/ started_local_gvt'[m])
    BY <1>2, <1>5 DEF TokenInv, Ring
  <2> QED
    BY <1>5, <1>6, <1>7, <2>1, <2>2 DEF Ring
<1>9. Colors'
  <2>1. \A m \in Node : node[m].color # node[m].initial_color
    BY <1>2 DEF TokenInv, Colors
  <2>2. \A m \in Node : node[m].color = node[0].color
    BY <1>2 DEF IsRed
  <2> QED
    BY <1>5, <1>6, <1>7, <2>1, <2>2 DEF Colors
<1> QED
  BY <1>1, <1>5, <1>6, <1>7, <1>8, <1>9 DEF TokenInv

LEMMA TokenUpdate ==
    ASSUME TokenInv, TypeInv', NEW n \in Node, receiveGVTUpdate(n)
    PROVE  /\ TokenInv' /\ NumNodes > 1
           /\ Head(control[<<0, n>>]) \in Updates
           /\ Sent(n) = {Head(control[<<0, n>>]).gvt} /\ Sent(n)' = {}
           /\ \A m \in Node \ {n} : Sent(m)' = Sent(m)
           /\ \A m \in Node : /\ Toks(m)' = Toks(m) /\ Holds(m)' = Holds(m)
                              /\ IsRed(m)' = IsRed(m)
           /\ ~ Holds(n) /\ ~ IsRed(n)
<1>1. /\ Links' /\ NumNodes > 1
      /\ Head(control[<<0, n>>]) \in Updates
      /\ Sent(n) = {Head(control[<<0, n>>]).gvt} /\ Sent(n)' = {}
      /\ \A m \in Node \ {n} : Sent(m)' = Sent(m)
      /\ \A m \in Node : Toks(m)' = Toks(m)
  BY UpdateTaken DEF TokenInv
<1>2. /\ gvt_state' = [gvt_state EXCEPT ![n] = IF @ = "GLOBAL" THEN "IDLE" ELSE @]
      /\ UNCHANGED <<started_global_gvt, started_local_gvt, mpc>>
  BY DEF receiveGVTUpdate
<1>3. /\ \A m \in Node \ {n} : node'[m] = node[m]
      /\ node'[n].color = node[n].color /\ node'[n].initial_color = Other(node[n].initial_color)
      /\ node[n].color \in Color /\ node[n].initial_color \in Color
  BY NodeAtUpdate, Fields DEF TokenInv, Becomes
<1>4. \A m \in Node : Holds(m)' = Holds(m)
  BY <1>2 DEF TokenInv, TypeInv, Holds
<1>5. \A m \in Node : IsRed(m)' = IsRed(m)
  BY <1>2, <1>3, Sizes DEF IsRed
<1>6. Awaits(n) /\ ~ Awaits(n)' /\ \A m \in Node \ {n} : Awaits(m)' = Awaits(m)
  BY <1>1 DEF Awaits
<1>7. ~ IsRed(n) /\ node[n].color # node[n].initial_color
  BY <1>6 DEF TokenInv, Colors
<1>8. node'[n].color = node'[n].initial_color
  BY <1>3, <1>7, OthersColor
<1>9. ~ Holds(n)
  BY <1>7 DEF TokenInv, Colors, Node
<1>10. Ring'
  <2>1. NumNodes > 1 /\ started_global_gvt => gvt_state'[0] # "IDLE"
    <3>1. n = 0 => ~ started_global_gvt
      BY <1>6 DEF TokenInv, Ring
    <3> QED
      BY <1>2, <3>1, Sizes DEF TokenInv, TypeInv, Ring
  <2>2. Awaits(0)' => ~ started_global_gvt /\ gvt_state'[0] = "GLOBAL"
    BY <1>2, <1>6, Sizes DEF TokenInv, TypeInv, Ring
  <2> QED
    BY <1>1, <1>2, <1>4, <2>1, <2>2 DEF TokenInv, Ring
<1>11. Colors'
  <2>1. \A m \in Node : Awaits(m)' => node'[m].color # node'[m].initial_color /\ ~ IsRed(m)'
    BY <1>3, <1>5, <1>6 DEF TokenInv, Colors
  <2>2. \A m \in Node : ~ Awaits(m)' => (node'[m].color = node'[m].initial_color <=> ~ IsRed(m)')
    BY <1>3, <1>5, <1>6, <1>7, <1>8 DEF TokenInv, Colors
  <2>3. ~ started_global_gvt' => \A m \in Node : node'[m].color = node'[0].color
    BY <1>2, <1>3, Sizes DEF TokenInv, Colors
  <2>4. \A p \in Node : Holds(p)' \/ Toks(p)' # {} => \A m \in Node : m <= p => IsRed(m)'
    BY <1>1, <1>4, <1>5 DEF TokenInv, Colors
  <2> QED
    BY <2>1, <2>2, <2>3, <2>4 DEF Colors
<1> QED
  BY <1>1, <1>4, <1>5, <1>7, <1>9, <1>10, <1>11 DEF TokenInv

LEMMA TokenNext ==
    ASSUME InOrder, TokenInv, [Next]_vars
    PROVE  TokenInv'
<1>0. TypeInv'
  BY TypesNext DEF TokenInv
<1>1. ASSUME NEW w \in Worker, WorkerStep(w) PROVE TokenInv'
  BY <1>0, <1>1, TokenWorker
<1>2. ASSUME NEW n \in Node, ProgressGVT(n) PROVE TokenInv'
  <2>1. CASE BeginLocal(n)
    <3>1. CASE n = 0 /\ ~ started_global_gvt
      BY <1>0, <2>1, <3>1, TokenStart
    <3>2. CASE n # 0 \/ started_global_gvt
      BY <1>0, <2>1, <3>2, TokenBegin
    <3> QED
      BY <3>1, <3>2 DEF TokenInv, TypeInv
  <2>2. CASE StoreFlag(n)
    BY <1>0, <2>2, TokenStore
  <2>3. CASE FinishLocal(n)
    BY <1>0, <2>3, TokenFinish
  <2>4. ASSUME NEW from \in Node, NodeReceivesToken(n, from) PROVE TokenInv'
    BY <1>0, <2>4, TokenNode
  <2>5. ASSUME NEW from \in Node, InitiatorReceivesToken(from) PROVE TokenInv'
    BY <1>0, <2>5, TokenAround, TokenEnds
  <2>6. CASE receiveGVTUpdate(n)
    BY <1>0, <2>6, TokenUpdate
  <2> QED
    BY <1>2, <2>1, <2>2, <2>3, <2>4, <2>5, <2>6 DEF ProgressGVT
<1>3. ASSUME NEW m \in transit, ReceiveEvent(m) PROVE TokenInv'
  BY <1>0, <1>3, TokenReceive
<1>4. CASE UNCHANGED vars
  <2>1. /\ UNCHANGED <<control, gvt_state, started_global_gvt, started_local_gvt, mpc>>
        /\ node' = node
    BY <1>4 DEF vars, globalVars
  <2> QED
    BY <1>0, <2>1, SameToken
<1> QED
  BY <1>1, <1>2, <1>3, <1>4 DEF Next

-----------------------------------------------------------------------------
(* The sum of the nodes' counts: a fold over the nodes in some order.      *)

Some(s) == CHOOSE x \in s : TRUE
Sums(f, v, c, D) ==
    f = [s \in D |-> IF s = {} THEN 0 ELSE v[Some(s)].count[c] + f[s \ {Some(s)}]]

TotalOf(c) == Sets!MapThenSumSet(LAMBDA n : node[n].count[c], Node)
SumOf(v, c) == (CHOOSE f : Sums(f, v, c, SUBSET Node))[Node]

LEMMA TotalIsSum ==
    ASSUME NEW c
    PROVE  TotalOf(c) = SumOf(node, c) /\ TotalOf(c)' = SumOf(node', c)
<1>1. TotalOf(c) = SumOf(node, c)
  BY SMT DEF TotalOf, Sets!MapThenSumSet, Sets!MapThenFoldSet, Sums, Some, SumOf, Node
<1>2. TotalOf(c)' = SumOf(node', c)
  BY SMT DEF TotalOf, Sets!MapThenSumSet, Sets!MapThenFoldSet, Sums, Some, SumOf, Node
<1> QED
  BY <1>1, <1>2

LEMMA NatMinimum ==
    ASSUME NEW T \in SUBSET Nat, T # {}
    PROVE  \E m \in T : \A n \in T : m <= n
<1>1. PICK m \in T : \A n \in T : ~ (<<n, m>> \in OpToRel(<, Nat))
  BY NatLessThanWellFounded, WFMin
<1>2. \A n \in T : ~ (n < m)
  BY <1>1 DEF OpToRel
<1> QED
  BY <1>2

(* Without one of them a set is smaller, and taking one after the other    *)
(* reaches every set.                                                      *)
LEMMA Smaller ==
    ASSUME NEW S, IsFiniteSet(S), NEW s \in SUBSET S
    PROVE  /\ IsFiniteSet(s) /\ Cardinality(s) \in Nat
           /\ s = {} <=> Cardinality(s) = 0
           /\ s # {} => /\ Some(s) \in s
                        /\ s \ {Some(s)} \in SUBSET S
                        /\ Cardinality(s \ {Some(s)}) = Cardinality(s) - 1
<1>1. IsFiniteSet(s) /\ Cardinality(s) \in Nat /\ (s = {} <=> Cardinality(s) = 0)
  BY FS_Subset, FS_CardinalityType, FS_EmptySet
<1>2. s # {} => Some(s) \in s
  BY DEF Some
<1>3. s # {} => Cardinality(s \ {Some(s)}) = Cardinality(s) - 1
  BY <1>1, <1>2, FS_RemoveElement
<1> QED
  BY <1>1, <1>2, <1>3

LEMMA OneByOne ==
    ASSUME NEW S, IsFiniteSet(S), NEW Good, {} \in Good,
           \A s \in SUBSET S : s # {} /\ s \ {Some(s)} \in Good => s \in Good
    PROVE  S \in Good
<1> DEFINE Bad == {s \in SUBSET S : s \notin Good}
           T   == {Cardinality(s) : s \in Bad}
<1>1. ASSUME Bad # {} PROVE FALSE
  <2>0. \A s \in Bad : Cardinality(s) \in Nat
    BY Smaller
  <2>1. T \in SUBSET Nat /\ T # {}
    <3> HIDE DEF Bad
    <3> QED
      BY <1>1, <2>0
  <2>2. PICK m \in T : \A k \in T : m <= k
    BY <2>1, NatMinimum
  <2>3. PICK s \in Bad : \A r \in Bad : Cardinality(s) <= Cardinality(r)
    BY <2>2
  <2>4. s # {}
    BY <2>3
  <2>5. /\ s \ {Some(s)} \in SUBSET S /\ Cardinality(s) \in Nat
        /\ Cardinality(s \ {Some(s)}) = Cardinality(s) - 1
    BY <2>4, Smaller
  <2>6. s \ {Some(s)} \in Good
    BY <2>3, <2>5
  <2> QED
    BY <2>3, <2>4, <2>6
<1> QED
  BY <1>1

LEMMA SumExists ==
    ASSUME NEW S, IsFiniteSet(S), NEW v, NEW c
    PROVE  \E f : Sums(f, v, c, SUBSET S)
<1> DEFINE D(k) == {s \in SUBSET S : Cardinality(s) <= k}
           T    == {k \in Nat : ~ \E f : Sums(f, v, c, D(k))}
<1>1. ASSUME T # {} PROVE FALSE
  <2>1. PICK m \in T : \A k \in T : m <= k
    BY <1>1, NatMinimum
  <2>2. CASE m = 0
    <3> DEFINE g == [s \in D(0) |-> 0]
    <3>1. ASSUME NEW s \in D(0) PROVE s = {}
      <4>1. s \in SUBSET S /\ Cardinality(s) \in Nat /\ Cardinality(s) <= 0
        BY Smaller
      <4>2. s = {} <=> Cardinality(s) = 0
        BY <4>1, Smaller
      <4> QED
        BY <4>1, <4>2
    <3>2. Sums(g, v, c, D(0))
      BY <3>1 DEF Sums
    <3> QED
      BY <2>1, <2>2, <3>2
  <2>3. CASE m # 0
    <3>1. PICK k \in Nat : m = k + 1 /\ k \notin T
      <4>1. m - 1 \in Nat /\ m = (m - 1) + 1 /\ m - 1 \notin T
        BY <2>1, <2>3
      <4> QED
        BY <4>1
    <3>2. PICK f : Sums(f, v, c, D(k))
      BY <3>1
    <3> DEFINE g == [s \in D(m) |-> IF s = {} THEN 0 ELSE v[Some(s)].count[c] + f[s \ {Some(s)}]]
    <3>3. ASSUME NEW s \in D(k) PROVE s \in D(m) /\ g[s] = f[s]
      <4>0. s \in SUBSET S /\ Cardinality(s) \in Nat /\ Cardinality(s) <= k
        BY Smaller
      <4>1. s \in D(m)
        BY <3>1, <4>0
      <4>2. f[s] = IF s = {} THEN 0 ELSE v[Some(s)].count[c] + f[s \ {Some(s)}]
        BY <3>2 DEF Sums
      <4> QED
        BY <4>1, <4>2
    <3>4. ASSUME NEW s \in D(m), s # {} PROVE s \ {Some(s)} \in D(k)
      BY <3>1, <3>4, Smaller
    <3>5. Sums(g, v, c, D(m))
      BY <3>3, <3>4 DEF Sums
    <3> QED
      BY <2>1, <3>5
  <2> QED
    BY <2>2, <2>3
<1>2. Cardinality(S) \in Nat /\ D(Cardinality(S)) = SUBSET S
  <2>1. \A s \in SUBSET S : Cardinality(s) <= Cardinality(S)
    BY FS_Subset
  <2> QED
    BY <2>1, FS_CardinalityType
<1> QED
  BY <1>1, <1>2

LEMMA NodesFinite == IsFiniteSet(Node)
<1>1. 0 \in Int /\ NumNodes - 1 \in Int
  BY SizesAssumption
<1> QED
  BY <1>1, FS_Interval, SizesAssumption DEF Node

(* What the sum is made of.                                                *)
IsSum(f, v, c) == /\ f[Node] = SumOf(v, c) /\ f[{}] = 0
                  /\ \A s \in SUBSET Node : s # {} =>
                        f[s] = v[Some(s)].count[c] + f[s \ {Some(s)}]

LEMMA SumSteps ==
    ASSUME NEW v, NEW c
    PROVE  \E f : IsSum(f, v, c)
<1> DEFINE f == CHOOSE h : Sums(h, v, c, SUBSET Node)
<1>1. Sums(f, v, c, SUBSET Node)
  BY SumExists, NodesFinite
<1>2. f[Node] = SumOf(v, c)
  BY DEF SumOf
<1> HIDE DEF f
<1>3. f[{}] = 0 /\ \A s \in SUBSET Node : s # {} => f[s] = v[Some(s)].count[c] + f[s \ {Some(s)}]
  BY <1>1 DEF Sums
<1> QED
  BY <1>2, <1>3 DEF IsSum

(* When one addend changes by d the sum does.                              *)
LEMMA SumChanges ==
    ASSUME NEW v, NEW u, NEW c, NEW n \in Node, NEW d \in Int,
           \A k \in Node : v[k].count[c] \in Int,
           u[n].count[c] = v[n].count[c] + d,
           \A k \in Node \ {n} : u[k].count[c] = v[k].count[c]
    PROVE  SumOf(v, c) \in Int /\ SumOf(u, c) = SumOf(v, c) + d
<1>1. PICK f : IsSum(f, v, c)
  BY SumSteps
<1>2. PICK g : IsSum(g, u, c)
  BY SumSteps
<1> DEFINE Good == {s \in SUBSET Node : f[s] \in Int /\ g[s] = f[s] + (IF n \in s THEN d ELSE 0)}
<1>3. {} \in Good
  BY <1>1, <1>2 DEF IsSum
<1>4. ASSUME NEW s \in SUBSET Node, s # {}, s \ {Some(s)} \in Good PROVE s \in Good
  <2>1. PICK x : x = Some(s)
    OBVIOUS
  <2>2. PICK r : r = s \ {x}
    OBVIOUS
  <2>3. x \in s /\ x \in Node /\ (n \in s <=> (n \in r \/ x = n)) /\ x \notin r
    BY <1>4, <2>1, <2>2 DEF Some
  <2>4. f[r] \in Int /\ g[r] = f[r] + (IF n \in r THEN d ELSE 0)
    BY <1>4, <2>1, <2>2
  <2>5. f[s] = v[x].count[c] + f[r] /\ g[s] = u[x].count[c] + g[r]
    BY <1>1, <1>2, <1>4, <2>1, <2>2 DEF IsSum
  <2>6. v[x].count[c] \in Int /\ u[x].count[c] = v[x].count[c] + (IF x = n THEN d ELSE 0)
    BY <2>3
  <2>7. f[s] \in Int /\ g[s] = f[s] + (IF n \in s THEN d ELSE 0)
    BY <2>3, <2>4, <2>5, <2>6
  <2> QED
    BY <2>7
<1> HIDE DEF Good
<1>5. Node \in Good
  BY <1>3, <1>4, OneByOne, NodesFinite
<1> QED
  BY <1>1, <1>2, <1>5 DEF Good, IsSum

(* A sum of counts that are not above zero is not either.                  *)
LEMMA SumBelow ==
    ASSUME NEW v, NEW c, \A k \in Node : v[k].count[c] \in Int /\ v[k].count[c] <= 0
    PROVE  /\ SumOf(v, c) \in Int /\ SumOf(v, c) <= 0
           /\ SumOf(v, c) = 0 => \A k \in Node : v[k].count[c] = 0
<1>1. PICK f : IsSum(f, v, c)
  BY SumSteps
<1> DEFINE Good == {s \in SUBSET Node : /\ f[s] \in Int /\ f[s] <= 0
                                        /\ f[s] = 0 => \A k \in s : v[k].count[c] = 0}
<1>3. {} \in Good
  BY <1>1 DEF IsSum
<1>4. ASSUME NEW s \in SUBSET Node, s # {}, s \ {Some(s)} \in Good PROVE s \in Good
  <2>1. PICK x : x = Some(s)
    OBVIOUS
  <2>2. PICK r : r = s \ {x}
    OBVIOUS
  <2>3. x \in s /\ x \in Node /\ \A k \in s : k \in r \/ k = x
    BY <1>4, <2>1, <2>2 DEF Some
  <2>4. f[r] \in Int /\ f[r] <= 0 /\ (f[r] = 0 => \A k \in r : v[k].count[c] = 0)
    BY <1>4, <2>1, <2>2
  <2>5. f[s] = v[x].count[c] + f[r]
    BY <1>1, <1>4, <2>1, <2>2 DEF IsSum
  <2>6. v[x].count[c] \in Int /\ v[x].count[c] <= 0
    BY <2>3
  <2>7. f[s] \in Int /\ f[s] <= 0 /\ (f[s] = 0 => f[r] = 0 /\ v[x].count[c] = 0)
    BY <2>4, <2>5, <2>6
  <2> QED
    BY <2>3, <2>4, <2>7
<1> HIDE DEF Good
<1>5. Node \in Good
  BY <1>3, <1>4, OneByOne, NodesFinite
<1> QED
  BY <1>1, <1>5 DEF Good, IsSum

LEMMA SumIsInt ==
    ASSUME NEW v, NEW c, \A k \in Node : v[k].count[c] \in Int
    PROVE  SumOf(v, c) \in Int
<1>1. 0 \in Node /\ 0 \in Int
  BY Sizes
<1>2. v[0].count[c] = v[0].count[c] + 0
  BY <1>1
<1>3. \A k \in Node \ {0} : v[k].count[c] = v[k].count[c]
  OBVIOUS
<1> QED
  BY <1>1, <1>2, <1>3, SumChanges

LEMMA SumOfZeros ==
    ASSUME NEW v, NEW c, \A k \in Node : v[k].count[c] = 0
    PROVE  SumOf(v, c) = 0
<1>1. PICK f : IsSum(f, v, c)
  BY SumSteps
<1> DEFINE Good == {s \in SUBSET Node : f[s] = 0}
<1>2. {} \in Good
  BY <1>1 DEF IsSum
<1>3. ASSUME NEW s \in SUBSET Node, s # {}, s \ {Some(s)} \in Good PROVE s \in Good
  <2>1. PICK x : x = Some(s)
    OBVIOUS
  <2>2. PICK r : r = s \ {x}
    OBVIOUS
  <2>3. x \in Node /\ f[r] = 0
    BY <1>3, <2>1, <2>2 DEF Some
  <2>4. f[s] = v[x].count[c] + f[r]
    BY <1>1, <1>3, <2>1, <2>2 DEF IsSum
  <2>5. f[s] = 0
    BY <2>3, <2>4
  <2> QED
    BY <2>5
<1> HIDE DEF Good
<1>4. Node \in Good
  BY <1>2, <1>3, OneByOne, NodesFinite
<1> QED
  BY <1>1, <1>4 DEF Good, IsSum

-----------------------------------------------------------------------------
(* The messages of the old color: what is on its way is what the nodes and *)
(* the token have counted.                                                 *)

InTransit(c) == Cardinality({m \in transit : m.color = c})
Off(c)       == TotalOf(c) - InTransit(c)
White        == Other(node[0].color)

CountInv ==
    /\ \A n \in Node : IsRed(n) => node[n].count[White] <= 0
    /\ ~ started_global_gvt => \A c \in Color : Off(c) = 0
    /\ started_global_gvt => Off(node[0].color) = 0
    /\ NumNodes > 1 =>
          \A p \in Node : /\ Holds(p) => Off(White) + msg_count[p] = 0
                          /\ \A t \in Toks(p) : Off(White) + t.count = 0
    /\ NumNodes = 1 => transit = {}

LEMMA OffIs ==
    ASSUME TypeInv, NEW c \in Color
    PROVE  /\ TotalOf(c) \in Int /\ InTransit(c) \in Nat /\ Off(c) \in Int
           /\ Off(c) = 0 <=> TotalOf(c) = InTransit(c)
           /\ InTransit(c) = 0 <=> \A m \in transit : m.color # c
<1>1. \A k \in Node : node[k].count[c] \in Int
  BY Fields
<1>2. SumOf(node, c) \in Int
  BY <1>1, SumIsInt
<1>3. TotalOf(c) \in Int
  BY <1>2, TotalIsSum
<1> DEFINE M == {m \in transit : m.color = c}
<1>4. IsFiniteSet(M) /\ Cardinality(M) \in Nat /\ (M = {} <=> Cardinality(M) = 0)
  BY FS_Subset, FS_CardinalityType, FS_EmptySet DEF TypeInv
<1>5. InTransit(c) \in Nat
  BY <1>4 DEF InTransit
<1>6. InTransit(c) = 0 <=> \A m \in transit : m.color # c
  BY <1>4 DEF InTransit
<1> QED
  BY <1>3, <1>5, <1>6 DEF Off

LEMMA TotalChanges ==
    ASSUME TypeInv, NEW c \in Color, NEW n \in Node, NEW d \in Int,
           node'[n].count[c] = node[n].count[c] + d,
           \A k \in Node \ {n} : node'[k].count[c] = node[k].count[c]
    PROVE  TotalOf(c)' = TotalOf(c) + d
<1>1. \A k \in Node : node[k].count[c] \in Int
  BY Fields
<1>2. PICK v, u : v = node /\ u = node'
  OBVIOUS
<1>3. /\ \A k \in Node : v[k].count[c] \in Int
      /\ u[n].count[c] = v[n].count[c] + d
      /\ \A k \in Node \ {n} : u[k].count[c] = v[k].count[c]
  BY <1>1, <1>2
<1>4. SumOf(u, c) = SumOf(v, c) + d
  BY <1>3, SumChanges
<1> QED
  BY <1>2, <1>4, TotalIsSum

LEMMA OffStays ==
    ASSUME TypeInv, NEW c \in Color, UNCHANGED transit,
           \A k \in Node : node'[k].count[c] = node[k].count[c]
    PROVE  Off(c)' = Off(c)
<1>1. node'[0].count[c] = node[0].count[c] + 0
  BY Fields, Sizes
<1>2. TotalOf(c)' = TotalOf(c) + 0
  <2>1. 0 \in Node /\ 0 \in Int
    BY Sizes
  <2>2. \A k \in Node \ {0} : node'[k].count[c] = node[k].count[c]
    OBVIOUS
  <2> QED
    BY <1>1, <2>1, <2>2, TotalChanges
<1>3. TotalOf(c)' = TotalOf(c)
  BY <1>2, OffIs
<1> QED
  BY <1>3 DEF Off, InTransit

LEMMA CountInit == Init => CountInv
<1> SUFFICES ASSUME Init PROVE CountInv
  OBVIOUS
<1>1. TypeInv
  BY TypesInit
<1>2. transit = {} /\ ~ started_global_gvt
  BY DEF Init, ClientInit
<1>3. ASSUME NEW c \in Color PROVE Off(c) = 0
  <2>1. \A k \in Node : node[k].count[c] = 0
    BY <1>3 DEF Init, Color
  <2>3. SumOf(node, c) = 0
    BY <2>1, SumOfZeros
  <2>4. TotalOf(c) = 0
    BY <2>3, TotalIsSum
  <2>5. \A m \in transit : m.color # c
    BY <1>2
  <2> QED
    BY <1>1, <1>3, <2>4, <2>5, OffIs
<1> QED
  BY <1>1, <1>2, <1>3, TokenInit, Sizes DEF CountInv, IsRed, TokenInv, Ring

(* Both sides change alike.                                                *)
LEMMA CountKept ==
    ASSUME TypeInv, TypeInv', CountInv, UNCHANGED started_global_gvt,
           \A n \in Node : node'[n].color = node[n].color,
           \A c \in Color : Off(c)' = Off(c),
           \A n \in Node : IsRed(n) => node'[n].count[White] <= node[n].count[White],
           NumNodes > 1 => \A p \in Node :
               /\ Holds(p)' => Off(White) + msg_count'[p] = 0
               /\ \A t \in Toks(p)' : Off(White) + t.count = 0,
           NumNodes = 1 => transit' = {}
    PROVE  CountInv'
<1>0. 0 \in Node /\ node[0].color \in Color /\ White \in Color
  BY Fields, OthersColor, Sizes DEF White
<1>1. node'[0].color = node[0].color /\ White' = White
  BY <1>0 DEF White
<1>2. \A n \in Node : IsRed(n)' => IsRed(n)
  BY <1>0 DEF IsRed
<1>3. ASSUME NEW n \in Node, IsRed(n)' PROVE node'[n].count[White] <= 0
  <2>1. node'[n].count[White] <= node[n].count[White] /\ node[n].count[White] <= 0
    BY <1>2, <1>3 DEF CountInv
  <2>2. node'[n].count[White] \in Int /\ node[n].count[White] \in Int
    <3>1. PICK k \in Color : k = White
      BY <1>0
    <3>2. node'[n].count[k] \in Int /\ node[n].count[k] \in Int
      <4>1. node[n].count[k] \in Int
        BY Fields
      <4>2. node'[n].count \in [Color -> Int]
        BY DEF TypeInv, NodeState
      <4> QED
        BY <4>1, <4>2
    <3> QED
      BY <3>1, <3>2
  <2> QED
    BY <2>1, <2>2
<1>4. ~ started_global_gvt' => \A c \in Color : Off(c)' = 0
  BY DEF CountInv
<1>5. started_global_gvt' => Off(node[0].color)' = 0
  BY <1>0, <1>1 DEF CountInv
<1>6. Off(White)' = Off(White)
  BY <1>0, <1>1
<1> QED
  BY <1>1, <1>3, <1>4, <1>5, <1>6 DEF CountInv

(* A step that counts nothing.                                             *)
LEMMA CountSame ==
    ASSUME TypeInv, TypeInv', CountInv, UNCHANGED <<started_global_gvt, transit>>,
           \A n \in Node : node'[n].color = node[n].color /\ node'[n].count = node[n].count,
           NumNodes > 1 => \A p \in Node :
               /\ Holds(p)' => Holds(p) /\ msg_count'[p] = msg_count[p]
               /\ Toks(p)' \subseteq Toks(p)
    PROVE  CountInv'
<1>1. \A c \in Color : Off(c)' = Off(c)
  BY OffStays
<1>2. White \in Color
  BY Fields, OthersColor, Sizes DEF White
<1>3. \A n \in Node : node'[n].count[White] <= node[n].count[White]
  <2>1. \A n \in Node : node[n].count[White] \in Int
    BY <1>2, Fields
  <2> QED
    BY <2>1
<1>4. NumNodes > 1 => \A p \in Node :
          /\ Holds(p)' => Off(White) + msg_count'[p] = 0
          /\ \A t \in Toks(p)' : Off(White) + t.count = 0
  BY DEF CountInv
<1>5. NumNodes = 1 => transit' = {}
  BY DEF CountInv
<1> QED
  BY <1>1, <1>3, <1>4, <1>5, CountKept

LEMMA CountSend ==
    ASSUME TypeInv, TypeInv', CountInv, NEW w \in Worker, NEW lp \in LP, NEW ts \in SendTimes,
           SendRemote(w, lp, ts)
    PROVE  CountInv'
<1>1. PICK n \in Node : n = w[1]
  BY OwnNode
<1>2. PICK k \in Color : k = node[n].color
  BY Fields
<1>3. PICK m : m = [lp |-> lp, ts |-> ts, color |-> k]
  OBVIOUS
<1>4. /\ MayCause(w, lp, ts) /\ transit' = transit \cup {m} /\ NodeOf[lp] # n
      /\ UNCHANGED <<started_global_gvt, gvt_state, msg_count, control>>
  BY <1>1, <1>2, <1>3 DEF SendRemote
<1>5. m \notin transit /\ m.color = k
  BY <1>3, <1>4 DEF MayCause
<1>6. /\ \A j \in Node \ {n} : node'[j] = node[j]
      /\ node'[n].color = k
      /\ node'[n].count = [node[n].count EXCEPT ![k] = @ + 1]
  BY <1>1, <1>2, NodeAfterSend DEF Becomes
<1>7. node[n].count \in [Color -> Int]
  BY Fields
<1>8. \A c \in Color : node'[n].count[c] = node[n].count[c] + (IF c = k THEN 1 ELSE 0)
  BY <1>6, <1>7
<1>9. ASSUME NEW c \in Color PROVE Off(c)' = Off(c)
  <2>1. PICK d \in Int : d = IF c = k THEN 1 ELSE 0
    OBVIOUS
  <2>8. node'[n].count[c] = node[n].count[c] + d
    BY <1>8, <2>1
  <2>9. \A j \in Node \ {n} : node'[j].count[c] = node[j].count[c]
    BY <1>6
  <2>2. TotalOf(c)' = TotalOf(c) + d
    BY <2>8, <2>9, TotalChanges
  <2> DEFINE M == {x \in transit : x.color = c}
  <2>3. IsFiniteSet(M)
    BY FS_Subset DEF TypeInv
  <2>4. InTransit(c) = Cardinality(M) /\ InTransit(c)' = Cardinality({x \in transit' : x.color = c})
    BY DEF InTransit
  <2>5. {x \in transit' : x.color = c} = IF c = k THEN M \cup {m} ELSE M
    BY <1>4, <1>5
  <2>6. m \notin M
    BY <1>5
  <2> HIDE DEF M
  <2>7. InTransit(c)' = InTransit(c) + d
    <3>1. Cardinality(M \cup {m}) = Cardinality(M) + 1 /\ Cardinality(M) \in Nat
      BY <2>3, <2>6, FS_AddElement, FS_CardinalityType
    <3>2. CASE c = k
      <4>1. InTransit(c)' = Cardinality(M \cup {m})
        BY <2>4, <2>5, <3>2
      <4> QED
        BY <2>1, <2>4, <3>1, <3>2, <4>1
    <3>3. CASE c # k
      <4>1. InTransit(c)' = Cardinality(M)
        BY <2>4, <2>5, <3>3
      <4> QED
        BY <2>1, <2>4, <3>1, <3>3, <4>1
    <3> QED
      BY <3>2, <3>3
  <2> QED
    BY <2>1, <2>2, <2>7, OffIs DEF Off
<1>10. ASSUME NEW i \in Node, IsRed(i) PROVE node'[i].count[White] <= node[i].count[White]
  <2>1. White \in Color /\ White # node[0].color
    BY Fields, OthersColor, Sizes DEF White
  <2>2. node'[i].count[White] = node[i].count[White]
    <3>1. CASE i = n
      BY <1>2, <1>8, <1>10, <2>1, <3>1, <1>7 DEF IsRed
    <3>2. CASE i # n
      BY <1>6, <3>2
    <3> QED
      BY <3>1, <3>2
  <2>3. node[i].count[White] \in Int
    BY <2>1, Fields
  <2> QED
    BY <2>2, <2>3
<1>11. NumNodes > 1 => \A p \in Node :
          /\ Holds(p)' => Off(White) + msg_count'[p] = 0
          /\ \A t \in Toks(p)' : Off(White) + t.count = 0
  BY <1>4 DEF CountInv, Holds, Toks, Succ
<1>12. NumNodes # 1
  BY <1>4, Sizes DEF Node
<1>13. \A i \in Node : node'[i].color = node[i].color
  BY <1>2, <1>6
<1>14. UNCHANGED started_global_gvt
  BY <1>4
<1> QED
  BY <1>9, <1>10, <1>11, <1>12, <1>13, <1>14, CountKept

LEMMA CountReceive ==
    ASSUME TypeInv, TypeInv', CountInv, NEW m \in transit, ReceiveEvent(m)
    PROVE  CountInv'
<1>0. m.lp \in LP /\ m.color \in Color
  BY DEF TypeInv, Messages
<1>1. PICK n \in Node : n = NodeOf[m.lp]
  BY <1>0, Sizes
<1>2. PICK k \in Color : k = m.color
  BY <1>0
<1>4. /\ transit' = transit \ {m}
      /\ UNCHANGED <<started_global_gvt, gvt_state, msg_count, control>>
  BY DEF ReceiveEvent
<1>6. /\ \A j \in Node \ {n} : node'[j] = node[j]
      /\ node'[n].color = node[n].color
      /\ node'[n].count = [node[n].count EXCEPT ![k] = @ - 1]
  BY <1>1, <1>2, NodeAfterReceive DEF Becomes
<1>7. node[n].count \in [Color -> Int]
  BY Fields
<1>8. \A c \in Color : node'[n].count[c] = node[n].count[c] + (IF c = k THEN 0 - 1 ELSE 0)
  BY <1>6, <1>7
<1>9. ASSUME NEW c \in Color PROVE Off(c)' = Off(c)
  <2>1. PICK d \in Int : d = IF c = k THEN 0 - 1 ELSE 0
    OBVIOUS
  <2>8. node'[n].count[c] = node[n].count[c] + d
    BY <1>8, <2>1
  <2>9. \A j \in Node \ {n} : node'[j].count[c] = node[j].count[c]
    BY <1>6
  <2>2. TotalOf(c)' = TotalOf(c) + d
    BY <2>8, <2>9, TotalChanges
  <2> DEFINE M == {x \in transit : x.color = c}
  <2>3. IsFiniteSet(M)
    BY FS_Subset DEF TypeInv
  <2>4. InTransit(c) = Cardinality(M) /\ InTransit(c)' = Cardinality({x \in transit' : x.color = c})
    BY DEF InTransit
  <2>5. {x \in transit' : x.color = c} = IF c = k THEN M \ {m} ELSE M
    BY <1>2, <1>4
  <2>6. c = k => m \in M
    BY <1>2
  <2> HIDE DEF M
  <2>7. InTransit(c)' = InTransit(c) + d
    <3>1. CASE c = k
      <4>1. Cardinality(M \ {m}) = Cardinality(M) - 1 /\ Cardinality(M) \in Nat
        BY <2>3, <2>6, <3>1, FS_RemoveElement, FS_CardinalityType
      <4>2. InTransit(c)' = Cardinality(M \ {m})
        BY <2>4, <2>5, <3>1
      <4> QED
        BY <2>1, <2>4, <3>1, <4>1, <4>2
    <3>2. CASE c # k
      <4>1. Cardinality(M) \in Nat
        BY <2>3, FS_CardinalityType
      <4>2. InTransit(c)' = Cardinality(M)
        BY <2>4, <2>5, <3>2
      <4> QED
        BY <2>1, <2>4, <3>2, <4>1, <4>2
    <3> QED
      BY <3>1, <3>2
  <2> QED
    BY <2>1, <2>2, <2>7, OffIs DEF Off
<1>10. ASSUME NEW i \in Node, IsRed(i) PROVE node'[i].count[White] <= node[i].count[White]
  <2>1. PICK c \in Color : c = White
    BY Fields, OthersColor, Sizes DEF White
  <2>2. node[i].count[c] \in Int
    BY Fields
  <2>3. CASE i = n
    BY <1>8, <2>1, <2>2, <2>3
  <2>4. CASE i # n
    BY <1>6, <2>1, <2>2, <2>4
  <2> QED
    BY <2>3, <2>4
<1>11. NumNodes > 1 => \A p \in Node :
          /\ Holds(p)' => Off(White) + msg_count'[p] = 0
          /\ \A t \in Toks(p)' : Off(White) + t.count = 0
  BY <1>4 DEF CountInv, Holds, Toks, Succ
<1>12. NumNodes = 1 => transit' = {}
  BY <1>4 DEF CountInv
<1>13. \A i \in Node : node'[i].color = node[i].color
  BY <1>6
<1>14. UNCHANGED started_global_gvt
  BY <1>4
<1> QED
  BY <1>9, <1>10, <1>11, <1>12, <1>13, <1>14, CountKept

(* The token takes over what a node has counted of the old color.          *)
LEMMA CountTaken ==
    ASSUME TypeInv, TypeInv', UNCHANGED transit, NEW n \in Node, NEW c \in Color,
           node'[n].count = [node[n].count EXCEPT ![c] = 0],
           \A j \in Node \ {n} : node'[j].count = node[j].count
    PROVE  /\ Off(c)' = Off(c) - node[n].count[c]
           /\ \A d \in Color \ {c} : Off(d)' = Off(d)
           /\ node'[n].count[c] = 0 /\ \A d \in Color \ {c} : node'[n].count[d] = node[n].count[d]
<1>1. node[n].count \in [Color -> Int]
  BY Fields
<1>2. node'[n].count[c] = 0 /\ \A d \in Color \ {c} : node'[n].count[d] = node[n].count[d]
  BY <1>1
<1>3. PICK d \in Int : d = 0 - node[n].count[c]
  BY <1>1
<1>4. node'[n].count[c] = node[n].count[c] + d
  BY <1>1, <1>2, <1>3
<1>5. TotalOf(c)' = TotalOf(c) + d
  <2>1. \A j \in Node \ {n} : node'[j].count[c] = node[j].count[c]
    OBVIOUS
  <2> QED
    BY <1>4, <2>1, TotalChanges
<1>6. InTransit(c)' = InTransit(c)
  BY DEF InTransit
<1>7. TotalOf(c) \in Int /\ InTransit(c) \in Int /\ node[n].count[c] \in Int
  BY <1>1, OffIs
<1>8. Off(c)' = Off(c) - node[n].count[c]
  BY <1>3, <1>5, <1>6, <1>7 DEF Off
<1>9. ASSUME NEW e \in Color \ {c} PROVE Off(e)' = Off(e)
  <2>1. \A k \in Node : node'[k].count[e] = node[k].count[e]
    BY <1>2
  <2> QED
    BY <2>1, OffStays
<1> QED
  BY <1>2, <1>8, <1>9

(* The invariants hold before the step, and the first one after it.        *)
LEMMA CountStart ==
    ASSUME TokenInv, TokenInv', CountInv, BeginLocal(0), ~ started_global_gvt
    PROVE  CountInv'
<1>0. /\ 0 \in Node /\ TypeInv /\ TypeInv' /\ node[0].color \in Color
      /\ node[0].initial_color \in Color /\ node[0].count \in [Color -> Int]
  BY Sizes, Fields DEF TokenInv
<1>1. /\ UNCHANGED <<transit, control>> /\ started_global_gvt'
      /\ gvt_state' = [gvt_state EXCEPT ![0] = "LOCAL"]
  BY DEF BeginLocal, clientVars
<1>2. gvt_state[0] = "IDLE"
  BY <1>0, TokenStart
<1>3. PICK k \in Color : k = node[0].color
  BY <1>0
<1>4. node[0].initial_color = k
  BY <1>0, <1>2, <1>3 DEF TokenInv, Ring, Colors, IsRed
<1>5. /\ \A j \in Node \ {0} : node'[j] = node[j]
      /\ node'[0].color = Other(k)
      /\ node'[0].count = [node[0].count EXCEPT ![k] = 0]
      /\ msg_count' = [msg_count EXCEPT ![0] = node[0].count[k]]
  BY <1>0, <1>3, <1>4, NodeAtStart DEF Becomes
<1>6. White' = k
  BY <1>3, <1>5, OthersColor DEF White
<1>7. /\ Off(k)' = Off(k) - node[0].count[k]
      /\ \A d \in Color \ {k} : Off(d)' = Off(d)
      /\ node'[0].count[k] = 0
  BY <1>0, <1>1, <1>5, CountTaken
<1>8. \A d \in Color : Off(d) = 0
  BY DEF CountInv
<1>9. Off(node[0].color)' = 0
  <2>1. Other(k) \in Color /\ Other(k) # k
    BY OthersColor
  <2>2. Off(Other(k))' = 0
    BY <1>7, <1>8, <2>1
  <2>3. PICK d \in Color : d = Other(k)
    BY <2>1
  <2>4. Off(d)' = 0 /\ node'[0].color = d
    BY <1>5, <2>2, <2>3
  <2> QED
    BY <2>4
<1>10. \A m \in Node : (Holds(m)' <=> m = 0) /\ Toks(m)' = {}
  <2>1. \A m \in Node : Toks(m) = {} /\ ~ Holds(m)
    BY DEF TokenInv, Ring
  <2>2. \A m \in Node : Toks(m)' = Toks(m)
    BY <1>1 DEF Toks, Succ
  <2> QED
    BY <1>0, <1>1, <2>1, <2>2 DEF TypeInv, Holds
<1>11. \A n \in Node : IsRed(n)' => n = 0
  <2>1. \A n \in Node : node[n].color = k
    BY <1>3 DEF TokenInv, Colors
  <2> QED
    BY <1>5, <2>1, OthersColor DEF IsRed
<1>12. Off(White)' + msg_count'[0] = 0
  <2>1. msg_count'[0] = node[0].count[k]
    BY <1>0, <1>5 DEF TypeInv
  <2>2. Off(k)' + msg_count'[0] = 0
    BY <1>0, <1>7, <1>8, <2>1
  <2> QED
    BY <1>6, <2>2
<1>13. NumNodes = 1 => transit' = {}
  BY <1>1 DEF CountInv
<1>14. \A n \in Node : IsRed(n)' => node'[n].count[White'] <= 0
  BY <1>6, <1>7, <1>11
<1> QED
  BY <1>1, <1>9, <1>10, <1>12, <1>13, <1>14 DEF CountInv

(* The token is taken at node n.                                           *)
LEMMA CountAtToken ==
    ASSUME TokenInv, TokenInv', CountInv, NEW n \in Node, NEW from \in Node, NEW t,
           t \in Toks(from), node[n].initial_color = White,
           UNCHANGED <<transit, started_global_gvt>>,
           node'[n].count = [node[n].count EXCEPT ![White] = 0],
           \A j \in Node \ {n} : node'[j].count = node[j].count,
           msg_count' = [msg_count EXCEPT ![n] = node[n].count[White] + t.count],
           node'[0].color = node[0].color,
           \A m \in Node : /\ Toks(m)' = {} /\ (Holds(m)' <=> m = n)
                           /\ IsRed(m)' => IsRed(m) \/ m = n
    PROVE  CountInv'
<1>0. /\ TypeInv /\ TypeInv' /\ 0 \in Node /\ started_global_gvt /\ NumNodes > 1
      /\ node[n].count \in [Color -> Int] /\ t.count \in Int
  <2>1. started_global_gvt /\ NumNodes > 1 /\ t \in Tokens
    BY InLinks DEF TokenInv, Ring
  <2> QED
    BY <2>1, Sizes, Fields DEF TokenInv, Tokens
<1>1. PICK k \in Color : k = White
  BY <1>0, Fields, OthersColor DEF White
<1>2. White' = k /\ k # node[0].color /\ node[0].color \in Color
  BY <1>0, <1>1, Fields, OthersColor DEF White
<1>3. /\ Off(k)' = Off(k) - node[n].count[k]
      /\ \A d \in Color \ {k} : Off(d)' = Off(d)
      /\ node'[n].count[k] = 0
  BY <1>0, <1>1, CountTaken
<1>4. Off(k) + t.count = 0
  BY <1>0, <1>1 DEF CountInv
<1>5. Off(k)' + msg_count'[n] = 0
  <2>1. msg_count'[n] = node[n].count[k] + t.count
    BY <1>0, <1>1 DEF TypeInv
  <2>2. Off(k) \in Int /\ node[n].count[k] \in Int
    BY <1>0, OffIs
  <2> QED
    BY <1>0, <1>3, <1>4, <2>1, <2>2
<1>6. Off(node[0].color)' = 0
  <2>1. PICK d \in Color : d = node[0].color
    BY <1>2
  <2>2. Off(d)' = 0 /\ node'[0].color = d
    BY <1>0, <1>2, <1>3, <2>1 DEF CountInv
  <2> QED
    BY <2>2
<1>7. \A m \in Node : IsRed(m)' => node'[m].count[k] <= 0
  <2>1. ASSUME NEW m \in Node, IsRed(m)', m # n PROVE node'[m].count[k] <= 0
    <3>1. node[m].count[White] <= 0
      BY <2>1 DEF CountInv
    <3> QED
      BY <1>1, <2>1, <3>1
  <2>2. node'[n].count[k] <= 0
    BY <1>3
  <2> QED
    BY <2>1, <2>2
<1>8. Off(White)' + msg_count'[n] = 0
  BY <1>2, <1>5
<1>9. \A m \in Node : IsRed(m)' => node'[m].count[White'] <= 0
  BY <1>2, <1>7
<1> QED
  BY <1>0, <1>6, <1>8, <1>9 DEF CountInv

LEMMA CountNode ==
    ASSUME InOrder, TokenInv, TokenInv', CountInv, NEW n \in Node, NEW from \in Node,
           NodeReceivesToken(n, from)
    PROVE  CountInv'
<1>0. TypeInv /\ TypeInv' /\ 0 \in Node /\ n # 0
  BY Sizes DEF TokenInv, NodeReceivesToken
<1>1. PICK t : t = Head(control[<<from, n>>])
  OBVIOUS
<1>2. /\ t \in Tokens /\ Toks(from) = {t} /\ started_global_gvt
      /\ \A m \in Node : /\ Toks(m)' = {}
                         /\ Holds(m)' <=> m = n
                         /\ IsRed(m)' <=> IsRed(m) \/ m = n
      /\ IsRed(n) <=> node[n].color # node[n].initial_color
  BY <1>0, <1>1, TokenNode
<1>3. node[n].initial_color = White
  <2>1. /\ node[n].initial_color \in Color /\ node[n].color \in Color /\ node[0].color \in Color
    BY <1>0, Fields
  <2>2. IsRed(n) <=> node[n].color = node[0].color
    BY <1>2 DEF IsRed
  <2>3. node[n].initial_color # node[0].color
    BY <1>2, <2>1, <2>2, OthersColor DEF Color
  <2> QED
    BY <2>1, <2>3, OthersColor DEF White
<1>4. /\ node'[n].count = [node[n].count EXCEPT ![White] = 0]
      /\ \A j \in Node \ {n} : node'[j] = node[j]
      /\ msg_count' = [msg_count EXCEPT ![n] = node[n].count[White] + t.count]
  BY <1>0, <1>1, <1>2, <1>3, NodeAtToken DEF Becomes
<1>5. UNCHANGED <<transit, started_global_gvt>>
  BY DEF NodeReceivesToken, clientVars
<1>6. node'[0].color = node[0].color /\ \A j \in Node \ {n} : node'[j].count = node[j].count
  BY <1>0, <1>4
<1> QED
  BY <1>2, <1>3, <1>4, <1>5, <1>6, CountAtToken

LEMMA CountAround ==
    ASSUME TokenInv, TokenInv', CountInv, NEW from \in Node, InitiatorReceivesToken(from),
           ~ (Head(control[<<from, 0>>]).count <= 0)
    PROVE  CountInv'
<1>0. TypeInv /\ TypeInv' /\ 0 \in Node
  BY Sizes DEF TokenInv
<1>1. PICK t : t = Head(control[<<from, 0>>])
  OBVIOUS
<1>2. /\ t \in Tokens /\ Toks(from) = {t} /\ started_global_gvt
      /\ \A m \in Node : IsRed(m)
  BY <1>1, TokenIsBack
<1>3. \A m \in Node : Toks(m)' = {} /\ (Holds(m)' <=> m = 0)
  BY <1>0, TokenAround
<1>4. node[0].initial_color = White
  <2>1. /\ node[0].initial_color \in Color /\ node[0].color \in Color
    BY <1>0, Fields
  <2>2. ~ Awaits(0)
    BY <1>0, <1>2 DEF TokenInv, Colors
  <2>3. node[0].initial_color # node[0].color
    BY <1>0, <1>2, <2>2 DEF TokenInv, Colors
  <2> QED
    BY <2>1, <2>3, OthersColor DEF White
<1>5. /\ node'[0].count = [node[0].count EXCEPT ![White] = 0]
      /\ \A j \in Node \ {0} : node'[j] = node[j]
      /\ node'[0].color = node[0].color
      /\ msg_count' = [msg_count EXCEPT ![0] = node[0].count[White] + t.count]
  BY <1>0, <1>1, <1>2, <1>4, InitiatorAgain DEF Becomes
<1>6. UNCHANGED <<transit, started_global_gvt>>
  BY <1>0, <1>1, <1>2, InitiatorAgain DEF clientVars
<1>7. \A j \in Node \ {0} : node'[j].count = node[j].count
  BY <1>5
<1> QED
  BY <1>0, <1>2, <1>3, <1>4, <1>5, <1>6, <1>7, CountAtToken

(* The computation ends when all messages of the old color have arrived.   *)
LEMMA AllArrived ==
    ASSUME TokenInv, CountInv, NEW from \in Node, InitiatorReceivesToken(from),
           Head(control[<<from, 0>>]).count <= 0
    PROVE  /\ \A c \in Color : Off(c) = 0
           /\ \A m \in transit : m.color = node[0].color
           /\ \A n \in Node : node[n].count[White] = 0
<1>0. TypeInv /\ 0 \in Node
  BY Sizes DEF TokenInv
<1>1. PICK t : t = Head(control[<<from, 0>>])
  OBVIOUS
<1>2. /\ t \in Tokens /\ Toks(from) = {t} /\ started_global_gvt /\ NumNodes > 1
      /\ \A m \in Node : IsRed(m)
  BY <1>1, TokenIsBack
<1>3. PICK k \in Color : k = White
  BY <1>0, Fields, OthersColor DEF White
<1>4. Off(k) + t.count = 0 /\ t.count \in Int /\ t.count <= 0
  BY <1>1, <1>2, <1>3 DEF CountInv, Tokens
<1>5. \A n \in Node : node[n].count[k] \in Int /\ node[n].count[k] <= 0
  BY <1>0, <1>2, <1>3, Fields DEF CountInv
<1>6. /\ TotalOf(k) \in Int /\ TotalOf(k) <= 0
      /\ TotalOf(k) = 0 => \A n \in Node : node[n].count[k] = 0
  BY <1>5, SumBelow, TotalIsSum
<1>7. Off(k) = 0 /\ TotalOf(k) = 0 /\ InTransit(k) = 0
  BY <1>0, <1>4, <1>6, OffIs DEF Off
<1>8. \A c \in Color : c = k \/ c = node[0].color
  BY <1>0, <1>3, Fields, OthersColor DEF White
<1>9. Off(node[0].color) = 0
  BY <1>2 DEF CountInv
<1>10. \A m \in transit : m.color # k /\ m.color \in Color
  BY <1>0, <1>7, OffIs DEF TypeInv, Messages
<1> QED
  BY <1>3, <1>6, <1>7, <1>8, <1>9, <1>10

LEMMA CountEnds ==
    ASSUME TokenInv, TokenInv', CountInv, NEW from \in Node, InitiatorReceivesToken(from),
           Head(control[<<from, 0>>]).count <= 0
    PROVE  CountInv'
<1>0. TypeInv /\ TypeInv' /\ Head(control[<<from, 0>>]) \in Tokens
  BY TokenIsBack DEF TokenInv
<1>1. UNCHANGED <<node, transit>>
  BY <1>0, InitiatorEnds DEF clientVars
<1>2. /\ ~ started_global_gvt'
      /\ \A m \in Node : Toks(m)' = {} /\ ~ Holds(m)' /\ ~ IsRed(m)'
  BY <1>0, TokenEnds
<1>3. \A c \in Color : Off(c)' = 0
  BY <1>0, <1>1, AllArrived, OffStays
<1>4. NumNodes = 1 => transit' = {}
  BY <1>1 DEF CountInv
<1> QED
  BY <1>2, <1>3, <1>4 DEF CountInv

LEMMA CountFinish ==
    ASSUME TokenInv, TokenInv', CountInv, NEW n \in Node, FinishLocal(n)
    PROVE  CountInv'
<1>0. TypeInv /\ TypeInv'
  BY DEF TokenInv
<1>1. UNCHANGED <<node, transit, started_global_gvt, msg_count>>
  BY DEF FinishLocal, clientVars
<1>2. /\ Holds(n) /\ ~ Holds(n)'
      /\ NumNodes > 1 => /\ Toks(n)' = {Passes(n)}
                         /\ \A m \in Node \ {n} : Toks(m)' = {}
  BY <1>0, TokenFinish
<1>3. \A m \in Node : ~ Holds(m)'
  <2>1. \A m \in Node \ {n} : ~ Holds(m)
    BY <1>2 DEF TokenInv, Ring
  <2>2. gvt_state' = [gvt_state EXCEPT ![n] = IF NumNodes > 1 THEN "GLOBAL" ELSE "IDLE"]
    BY DEF FinishLocal
  <2> QED
    BY <1>0, <1>2, <2>1, <2>2 DEF TypeInv, Holds
<1>4. Passes(n).count = msg_count[n]
  BY DEF Passes
<1>5. NumNodes > 1 => Off(White) + msg_count[n] = 0
  BY <1>2 DEF CountInv
<1>6. ASSUME NumNodes > 1, NEW p \in Node, NEW t \in Toks(p)' PROVE Off(White) + t.count = 0
  <2>1. t = Passes(n)
    BY <1>2, <1>6
  <2> QED
    BY <1>4, <1>5, <1>6, <2>1
<1>7. \A c \in Color : Off(c)' = Off(c)
  BY <1>0, <1>1, OffStays
<1>8. \A i \in Node : node'[i].count[White] <= node[i].count[White]
  <2>1. White \in Color
    BY <1>0, Fields, OthersColor, Sizes DEF White
  <2>2. \A i \in Node : node[i].count[White] \in Int
    BY <1>0, <2>1, Fields
  <2> QED
    BY <1>1, <2>2
<1>9. NumNodes = 1 => transit' = {}
  BY <1>1 DEF CountInv
<1>10. \A i \in Node : node'[i].color = node[i].color
  BY <1>1
<1>11. NumNodes > 1 => \A p \in Node :
          /\ Holds(p)' => Off(White) + msg_count'[p] = 0
          /\ \A t \in Toks(p)' : Off(White) + t.count = 0
  BY <1>3, <1>6
<1>12. UNCHANGED started_global_gvt
  BY <1>1
<1> QED
  BY <1>0, <1>7, <1>8, <1>9, <1>10, <1>11, <1>12, CountKept

LEMMA CountNext ==
    ASSUME InOrder, TokenInv, CountInv, [Next]_vars
    PROVE  CountInv'
<1>0. TokenInv' /\ TypeInv /\ TypeInv'
  BY TokenNext DEF TokenInv
<1>1. ASSUME NEW w \in Worker, WorkerStep(w) PROVE CountInv'
  <2>1. ASSUME NEW lp \in LP, NEW ts \in SendTimes, SendRemote(w, lp, ts) PROVE CountInv'
    BY <1>0, <2>1, CountSend
  <2>2. CASE UNCHANGED <<globalVars, transit>>
    <3>1. UNCHANGED <<started_global_gvt, transit, node, gvt_state, msg_count, control>>
      BY <2>2 DEF globalVars
    <3>2. \A p \in Node : /\ Holds(p)' => Holds(p) /\ msg_count'[p] = msg_count[p]
                          /\ Toks(p)' \subseteq Toks(p)
      BY <3>1 DEF Holds, Toks, Succ
    <3> QED
      BY <1>0, <3>1, <3>2, CountSame
  <2> QED
    BY <1>1, <2>1, <2>2 DEF WorkerStep, ReadFlag, GetEvent, Take, reportThreadMin, SendLocal,
                            Insert, reportThreadSendMin, ReplenishScheduler, clientVars
<1>2. ASSUME NEW n \in Node, ProgressGVT(n) PROVE CountInv'
  <2>1. CASE BeginLocal(n)
    <3>1. CASE n = 0 /\ ~ started_global_gvt
      BY <1>0, <2>1, <3>1, CountStart
    <3>2. CASE ~ (n = 0 /\ ~ started_global_gvt)
      <4>1. UNCHANGED <<node, msg_count, started_global_gvt, transit, control>>
        BY <2>1, <3>2 DEF BeginLocal, clientVars
      <4>2. Holds(n) \/ (NumNodes = 1 /\ gvt_state[0] = "IDLE" /\ n = 0)
        BY <1>0, <2>1, <3>2, TokenBegin DEF TypeInv
      <4>3. gvt_state' = [gvt_state EXCEPT ![n] = "LOCAL"]
        BY <2>1 DEF BeginLocal
      <4>4. \A p \in Node : Holds(p)' => Holds(p) \/ p = n
        BY <1>0, <4>3 DEF TypeInv, Holds
      <4>5. \A p \in Node : Toks(p)' = Toks(p)
        BY <4>1 DEF Toks, Succ
      <4>6. NumNodes > 1 => \A p \in Node :
               /\ Holds(p)' => Holds(p) /\ msg_count'[p] = msg_count[p]
               /\ Toks(p)' \subseteq Toks(p)
        BY <4>1, <4>2, <4>4, <4>5
      <4> QED
        BY <1>0, <4>1, <4>6, CountSame
    <3> QED
      BY <3>1, <3>2
  <2>2. CASE StoreFlag(n)
    <3>1. UNCHANGED <<started_global_gvt, transit, node, gvt_state, msg_count, control>>
      BY <2>2 DEF StoreFlag, clientVars
    <3>2. \A p \in Node : /\ Holds(p)' => Holds(p) /\ msg_count'[p] = msg_count[p]
                          /\ Toks(p)' \subseteq Toks(p)
      BY <3>1 DEF Holds, Toks, Succ
    <3> QED
      BY <1>0, <3>1, <3>2, CountSame
  <2>3. CASE FinishLocal(n)
    BY <1>0, <2>3, CountFinish
  <2>4. ASSUME NEW from \in Node, NodeReceivesToken(n, from) PROVE CountInv'
    BY <1>0, <2>4, CountNode
  <2>5. ASSUME NEW from \in Node, InitiatorReceivesToken(from) PROVE CountInv'
    BY <1>0, <2>5, CountAround, CountEnds
  <2>6. CASE receiveGVTUpdate(n)
    <3>1. UNCHANGED <<started_global_gvt, transit, msg_count>>
      BY <2>6 DEF receiveGVTUpdate, clientVars
    <3>2. \A m \in Node : Toks(m)' = Toks(m) /\ Holds(m)' = Holds(m)
      BY <1>0, <2>6, TokenUpdate
    <3>3. \A m \in Node : node'[m].color = node[m].color /\ node'[m].count = node[m].count
      BY <1>0, <2>6, NodeAtUpdate DEF Becomes
    <3>4. \A p \in Node : /\ Holds(p)' => Holds(p) /\ msg_count'[p] = msg_count[p]
                          /\ Toks(p)' \subseteq Toks(p)
      BY <3>1, <3>2
    <3> QED
      BY <1>0, <3>1, <3>3, <3>4, CountSame
  <2> QED
    BY <1>2, <2>1, <2>2, <2>3, <2>4, <2>5, <2>6 DEF ProgressGVT
<1>3. ASSUME NEW m \in transit, ReceiveEvent(m) PROVE CountInv'
  BY <1>0, <1>3, CountReceive
<1>4. CASE UNCHANGED vars
  <2>1. UNCHANGED <<started_global_gvt, transit, node, gvt_state, msg_count, control>>
    BY <1>4 DEF vars, globalVars, clientVars
  <2>2. \A p \in Node : /\ Holds(p)' => Holds(p) /\ msg_count'[p] = msg_count[p]
                        /\ Toks(p)' \subseteq Toks(p)
    BY <2>1 DEF Holds, Toks, Succ
  <2> QED
    BY <1>0, <2>1, <2>2, CountSame
<1> QED
  BY <1>1, <1>2, <1>3, <1>4 DEF Next

LEMMA ColorsAgreeInOrder ==
    ASSUME InOrder
    PROVE  Spec => []ColorsAgree
<1>1. TokenInv /\ CountInv => ColorsAgree
  <2> SUFFICES ASSUME TokenInv, CountInv, AtRest PROVE
         /\ \A n \in Node : node[n].color = node[n].initial_color
         /\ \A n \in Node : node[n].color = node[0].color
         /\ \A c \in Color : TotalOf(c) = InTransit(c)
    BY SMT DEF ColorsAgree, TotalOf, InTransit, Color, Sets!MapThenSumSet, Sets!MapThenFoldSet
  <2>1. \A n \in Node : ~ Awaits(n)
    BY QueueOfNone, Sizes DEF AtRest, Awaits, Sent
  <2>2. \A n \in Node : node[n].color = node[n].initial_color /\ node[n].color = node[0].color
    BY <2>1 DEF AtRest, TokenInv, Colors, IsRed
  <2>3. \A c \in Color : TotalOf(c) = InTransit(c)
    BY OffIs DEF AtRest, TokenInv, CountInv
  <2> QED
    BY <2>2, <2>3
<1>2. Init => TokenInv /\ CountInv
  BY TokenInit, CountInit
<1>3. TokenInv /\ CountInv /\ [Next]_vars => TokenInv' /\ CountInv'
  BY TokenNext, CountNext
<1> QED
  BY <1>1, <1>2, <1>3, PTL DEF Spec

(* On up to two nodes, between computations the nodes agree on the color   *)
(* of the messages whose arrival the next one waits for, and of either     *)
(* color they have counted as many more sent than received as are on their *)
(* way (receiveMatternGVTToken, sendEventUpdate, receiveEventUpdate).      *)
THEOREM SpecColorsAgree ==
    ASSUME NumNodes <= 2
    PROVE  Spec => []ColorsAgree
  BY ColorsAgreeInOrder DEF InOrder

-----------------------------------------------------------------------------
(* Threads with a schedule queue each: no thread takes over an event from  *)
(* another one's queue, which is what goes wrong where threads share one.  *)

QueuePerThread == NumSchedulers = NumWorkers /\ ~ LpMigration

Owner(lp) == <<NodeOf[lp], QueueOf[lp]>>

(* A thread holds an event of one of its own LPs, from getEvent to         *)
(* replenishScheduler, and what it sends is later than that event.         *)
Holding(w) ==
    /\ taken[w] # Nothing => /\ taken[w].lp \in LP
                             /\ Owner(taken[w].lp) = w
                             /\ taken[w].ts \in pending[taken[w].lp]
    /\ wpc[w] \in {"top", "getEvent"} => taken[w] = Nothing
    /\ wpc[w] \in {"process", "reportSend"} => taken[w] # Nothing
    /\ wpc[w] = "reportSend" => taken[w].ts < toReport[w]

ClientInv == queue = QueueOf /\ \A w \in Worker : Holding(w)

LEMMA OwnerIsWorker ==
    ASSUME QueuePerThread, NEW lp \in LP
    PROVE  /\ Owner(lp) \in Worker /\ Owner(lp) \in NodeWorkers(NodeOf[lp])
           /\ Owner(lp)[1] = NodeOf[lp] /\ NodeOf[lp] \in Node
  BY EventsAssumption DEF QueuePerThread, Owner, Worker, NodeWorkers

LEMMA SmallRemainder ==
    ASSUME NEW n \in Nat \ {0}, NEW i \in 0 .. n - 1
    PROVE  i % n = i
  BY SMTT(20)

LEMMA OwnLPsServed ==
    ASSUME QueuePerThread, queue = QueueOf, NEW lp \in LP
    PROVE  lp \in Served(Owner(lp))
<1>1. QueueOf[lp] \in 0 .. NumWorkers - 1 /\ NumSchedulers = NumWorkers
  BY EventsAssumption DEF QueuePerThread
<1>2. QueueOf[lp] % NumSchedulers = QueueOf[lp]
  BY <1>1, SizesAssumption, SmallRemainder
<1> QED
  BY <1>2 DEF Served, Owner

LEMMA ServedIsOwn ==
    ASSUME QueuePerThread, queue = QueueOf, NEW w \in Worker, NEW lp \in Served(w)
    PROVE  lp \in LP /\ Owner(lp) = w
<1>1. lp \in LP /\ NodeOf[lp] = w[1] /\ QueueOf[lp] = w[2] % NumSchedulers
  BY DEF Served
<1>2. w = <<w[1], w[2]>> /\ w[2] \in 0 .. NumWorkers - 1
  BY DEF Worker
<1>3. w[2] % NumSchedulers = w[2]
  BY <1>2, SizesAssumption, SmallRemainder DEF QueuePerThread
<1> QED
  BY <1>1, <1>2, <1>3 DEF Owner

(* The event a thread takes precedes all of its LPs' pending events.       *)
LEMMA TakesLeast ==
    ASSUME QueuePerThread, TypeInv, ClientInv, NEW w \in Worker, taken[w] = Nothing,
           NEW event \in NextEvents(w)
    PROVE  /\ event # Nothing => /\ event.lp \in LP
                                 /\ Owner(event.lp) = w
                                 /\ event.ts \in pending[event.lp]
           /\ event \in [lp : Nat, ts : Nat]
           /\ \A lp \in LP : Owner(lp) = w => \A ts \in pending[lp] : event.ts <= ts
<1> DEFINE lps == {lp \in Served(w) : Scheduled(lp)}
           all == {[lp |-> lp, ts |-> Least(pending[lp])] : lp \in lps}
<1>1. event \in IF all = {} THEN {Nothing}
                ELSE {e \in all : \A f \in all : e.ts <= f.ts}
  BY DEF NextEvents
<1>2. queue = QueueOf /\ pending \in [LP -> SUBSET Nat] /\ LP \subseteq Nat
  BY Sizes DEF TypeInv, ClientInv
<1>3. ASSUME NEW lp \in lps
      PROVE  /\ lp \in LP /\ Owner(lp) = w
             /\ Least(pending[lp]) \in pending[lp]
             /\ \A y \in pending[lp] : Least(pending[lp]) <= y
             /\ pending[lp] \subseteq Nat
  <2>1. lp \in LP /\ Owner(lp) = w
    BY <1>2, ServedIsOwn
  <2>2. pending[lp] # {} /\ pending[lp] \in SUBSET Nat
    BY <1>2, <2>1 DEF Scheduled
  <2> QED
    BY <2>1, <2>2, LeastIsLeast
<1>4. ASSUME NEW lp \in LP, Owner(lp) = w, pending[lp] # {} PROVE lp \in lps
  <2>1. lp \in Served(w)
    BY <1>2, <1>4, OwnLPsServed
  <2>2. ASSUME NEW v \in Worker, taken[v].lp = lp PROVE FALSE
    <3>1. taken[v] # Nothing
      BY <2>2 DEF Nothing, LP
    <3>2. Owner(lp) = v
      BY <2>2, <3>1 DEF ClientInv, Holding
    <3> QED
      BY <1>4, <3>1, <3>2
  <2> QED
    BY <1>4, <2>1, <2>2 DEF Scheduled
<1>5. CASE all = {}
  <2>1. event = Nothing /\ lps = {}
    BY <1>1, <1>5
  <2> QED
    BY <1>4, <2>1, Sizes
<1>6. CASE all # {}
  <2>1. event \in all /\ \A f \in all : event.ts <= f.ts
    BY <1>1, <1>6
  <2>2. PICK lp \in lps : event = [lp |-> lp, ts |-> Least(pending[lp])]
    BY <2>1
  <2>3. /\ event.lp \in LP /\ Owner(event.lp) = w
        /\ event.ts \in pending[event.lp]
        /\ event \in [lp : Nat, ts : Nat]
    BY <1>2, <1>3, <2>2
  <2>4. ASSUME NEW l \in LP, Owner(l) = w, NEW ts \in pending[l] PROVE event.ts <= ts
    <3>1. l \in lps
      BY <1>4, <2>4
    <3>2. event.ts <= Least(pending[l])
      <4>1. [lp |-> l, ts |-> Least(pending[l])] \in all
        BY <3>1
      <4> QED
        BY <2>1, <4>1
    <3>3. Least(pending[l]) <= ts
      BY <1>3, <3>1
    <3>4. event.ts \in Nat /\ Least(pending[l]) \in Nat /\ ts \in Nat
      BY <1>3, <2>3, <2>4, <3>1
    <3> QED
      BY <3>2, <3>3, <3>4
  <2> QED
    BY <2>3, <2>4
<1> QED
  BY <1>5, <1>6

LEMMA ClientInvInit == Init => ClientInv
  BY DEF Init, ClientInit, ClientInv, Holding

(* One thread moves.                                                       *)
LEMMA OneThread ==
    ASSUME ClientInv, NEW w \in Worker, queue' = queue, Holding(w)',
           \A v \in Worker \ {w} : /\ wpc'[v] = wpc[v] /\ taken'[v] = taken[v]
                                   /\ toReport'[v] = toReport[v]
                                   /\ taken[v] # Nothing =>
                                          taken[v].ts \in pending'[taken[v].lp]
    PROVE  ClientInv'
<1>1. ASSUME NEW v \in Worker PROVE Holding(v)'
  <2>1. CASE v = w
    BY <2>1
  <2>2. CASE v # w
    BY <2>2 DEF ClientInv, Holding
  <2> QED
    BY <2>1, <2>2
<1> QED
  BY <1>1 DEF ClientInv

(* The threads stay where they are, and nothing pending disappears.        *)
LEMMA NoThread ==
    ASSUME ClientInv, UNCHANGED <<queue, taken, wpc, toReport>>,
           \A lp \in LP : pending[lp] \subseteq pending'[lp]
    PROVE  ClientInv'
<1>1. ASSUME NEW v \in Worker PROVE Holding(v)'
  BY DEF ClientInv, Holding
<1> QED
  BY <1>1 DEF ClientInv

LEMMA ClientWorker ==
    ASSUME QueuePerThread, TypeInv, TypeInv', ClientInv, NEW w \in Worker, WorkerStep(w)
    PROVE  ClientInv'
<1>0. Holding(w) /\ queue = QueueOf
  BY DEF ClientInv
<1>1. CASE ReadFlag(w)
  <2>1. /\ wpc[w] = "top" /\ wpc' = [wpc EXCEPT ![w] = "getEvent"]
        /\ UNCHANGED <<pending, queue, taken, toReport>>
    BY <1>1 DEF ReadFlag, clientVars
  <2>2. Holding(w)' /\ \A v \in Worker \ {w} : wpc'[v] = wpc[v]
    BY <1>0, <2>1 DEF TypeInv, Holding
  <2> QED
    BY <2>1, <2>2, OneThread DEF ClientInv, Holding
<1>2. CASE GetEvent(w)
  <2>1. PICK event \in NextEvents(w) : taken' = [taken EXCEPT ![w] = event]
    BY <1>2 DEF GetEvent, Take
  <2>2. /\ wpc[w] = "getEvent" /\ wpc' = [wpc EXCEPT ![w] = "report"]
        /\ UNCHANGED <<pending, queue, toReport>>
    BY <1>2 DEF GetEvent
  <2>3. event # Nothing => /\ event.lp \in LP /\ Owner(event.lp) = w
                           /\ event.ts \in pending[event.lp]
    BY <1>0, <2>2, TakesLeast DEF Holding
  <2>4. /\ wpc'[w] = "report" /\ taken'[w] = event
        /\ \A v \in Worker \ {w} : wpc'[v] = wpc[v] /\ taken'[v] = taken[v]
    BY <2>1, <2>2 DEF TypeInv
  <2>5. Holding(w)'
    BY <2>2, <2>3, <2>4 DEF Holding
  <2> QED
    BY <2>2, <2>4, <2>5, OneThread DEF ClientInv, Holding
<1>3. CASE reportThreadMin(w)
  <2>1. /\ wpc' = [wpc EXCEPT ![w] = IF taken[w] = Nothing THEN "top" ELSE "process"]
        /\ UNCHANGED <<pending, queue, taken, toReport>>
    BY <1>3 DEF reportThreadMin, clientVars
  <2>2. Holding(w)' /\ \A v \in Worker \ {w} : wpc'[v] = wpc[v]
    BY <1>0, <2>1 DEF TypeInv, Holding
  <2> QED
    BY <2>1, <2>2, OneThread DEF ClientInv, Holding
<1>4. ASSUME NEW lp \in LP, NEW ts \in SendTimes, SendLocal(w, lp, ts) \/ SendRemote(w, lp, ts)
      PROVE  ClientInv'
  <2>1. /\ wpc[w] = "process" /\ wpc' = [wpc EXCEPT ![w] = "reportSend"]
        /\ toReport' = [toReport EXCEPT ![w] = ts] /\ ts > taken[w].ts
        /\ UNCHANGED <<queue, taken>>
    BY <1>4 DEF SendLocal, SendRemote, MayCause
  <2>2. \A l \in LP : pending[l] \subseteq pending'[l]
    <3>1. pending' = pending \/ pending' = [pending EXCEPT ![lp] = @ \cup {ts}]
      BY <1>4 DEF SendLocal, SendRemote, Insert
    <3> QED
      BY <3>1 DEF TypeInv
  <2>3. /\ wpc'[w] = "reportSend" /\ toReport'[w] = ts
        /\ \A v \in Worker \ {w} : wpc'[v] = wpc[v] /\ toReport'[v] = toReport[v]
    BY <2>1 DEF TypeInv
  <2>4. taken[w].ts < ts
    BY <2>1, Sizes DEF TypeInv
  <2>5. Holding(w)'
    BY <1>0, <2>1, <2>2, <2>3, <2>4 DEF Holding
  <2> QED
    BY <2>1, <2>2, <2>3, <2>5, OneThread DEF ClientInv, Holding
<1>5. CASE reportThreadSendMin(w)
  <2>1. /\ wpc[w] = "reportSend" /\ wpc' = [wpc EXCEPT ![w] = "process"]
        /\ toReport' = [toReport EXCEPT ![w] = Infinity]
        /\ UNCHANGED <<pending, queue, taken>>
    BY <1>5 DEF reportThreadSendMin, clientVars
  <2>2. /\ wpc'[w] = "process"
        /\ \A v \in Worker \ {w} : wpc'[v] = wpc[v] /\ toReport'[v] = toReport[v]
    BY <2>1 DEF TypeInv
  <2>3. Holding(w)'
    BY <1>0, <2>1, <2>2 DEF Holding
  <2> QED
    BY <2>1, <2>2, <2>3, OneThread DEF ClientInv, Holding
<1>6. CASE ReplenishScheduler(w)
  <2>1. /\ wpc[w] = "process" /\ wpc' = [wpc EXCEPT ![w] = "top"]
        /\ pending' = [pending EXCEPT ![taken[w].lp] = @ \ {taken[w].ts}]
        /\ queue' = queue
        /\ taken' = [taken EXCEPT ![w] = Nothing]
        /\ toReport' = toReport
    BY <1>6 DEF ReplenishScheduler, Replenish, QueuePerThread
  <2>2. taken[w].lp \in LP /\ Owner(taken[w].lp) = w
    BY <1>0, <2>1 DEF Holding
  <2>3. /\ wpc'[w] = "top" /\ taken'[w] = Nothing
        /\ \A v \in Worker \ {w} : wpc'[v] = wpc[v] /\ taken'[v] = taken[v]
    BY <2>1 DEF TypeInv
  <2>4. Holding(w)'
    BY <2>3 DEF Holding
  <2>5. ASSUME NEW v \in Worker \ {w}, taken[v] # Nothing
        PROVE  taken[v].ts \in pending'[taken[v].lp]
    <3>1. /\ taken[v].lp \in LP /\ Owner(taken[v].lp) = v
          /\ taken[v].ts \in pending[taken[v].lp]
      BY <2>5 DEF ClientInv, Holding
    <3>2. taken[v].lp # taken[w].lp
      BY <2>2, <3>1
    <3> QED
      BY <2>1, <3>1, <3>2 DEF TypeInv
  <2> QED
    BY <2>1, <2>3, <2>4, <2>5, OneThread
<1> QED
  BY <1>1, <1>2, <1>3, <1>4, <1>5, <1>6 DEF WorkerStep

LEMMA MasterKeepsClient ==
    ASSUME NEW n \in Node, ProgressGVT(n)
    PROVE  UNCHANGED <<clientVars, workerVars>>
  BY DEF ProgressGVT, BeginLocal, StoreFlag, FinishLocal, NodeReceivesToken,
         InitiatorReceivesToken, receiveGVTUpdate

LEMMA ClientNext ==
    ASSUME QueuePerThread, TypeInv, ClientInv, [Next]_vars
    PROVE  ClientInv'
<1>0. TypeInv'
  BY TypesNext
<1>1. ASSUME NEW w \in Worker, WorkerStep(w) PROVE ClientInv'
  BY <1>0, <1>1, ClientWorker
<1>2. ASSUME NEW n \in Node, ProgressGVT(n) PROVE ClientInv'
  BY <1>2, MasterKeepsClient, NoThread DEF clientVars, workerVars
<1>3. ASSUME NEW m \in transit, ReceiveEvent(m) PROVE ClientInv'
  BY <1>3, NoThread DEF ReceiveEvent, Insert, workerVars, TypeInv
<1>4. CASE UNCHANGED vars
  BY <1>4, NoThread DEF vars, clientVars, workerVars
<1> QED
  BY <1>1, <1>2, <1>3, <1>4 DEF Next

-----------------------------------------------------------------------------
(* What is sent in the new color, some node has noted in min_send.         *)

Noted ==
    \A m \in transit :
        /\ ~ started_global_gvt => m.color = node[0].color
        /\ started_global_gvt /\ m.color = node[0].color =>
               \E u \in Node : IsRed(u) /\ node[u].min_send <= m.ts

(* The nodes that were red are red, and have noted no less.                *)
LEMMA StillNoted ==
    ASSUME TypeInv, TypeInv', Noted, transit' \subseteq transit,
           UNCHANGED started_global_gvt, node'[0].color = node[0].color,
           \A u \in Node : IsRed(u) => IsRed(u)' /\ node'[u].min_send <= node[u].min_send
    PROVE  Noted'
<1>1. ASSUME NEW m \in transit', started_global_gvt', m.color = node'[0].color
      PROVE  \E u \in Node : IsRed(u)' /\ node'[u].min_send <= m.ts
  <2>1. m \in transit /\ m.ts \in Nat
    BY DEF TypeInv, Messages
  <2>2. PICK u \in Node : IsRed(u) /\ node[u].min_send <= m.ts
    BY <1>1, <2>1 DEF Noted
  <2>3. node'[u].min_send \in Nat /\ node[u].min_send \in Nat
    BY DEF TypeInv, NodeState
  <2> QED
    BY <2>1, <2>2, <2>3
<1> QED
  BY <1>1 DEF Noted

LEMMA NotedInit == Init => Noted
  BY DEF Init, ClientInit, Noted

(* A red node has the new color and not the initial one.                   *)
LEMMA RedIsNew ==
    ASSUME TokenInv, NEW n \in Node, IsRed(n)
    PROVE  /\ node[n].color # node[n].initial_color /\ node[n].color = node[0].color
           /\ node[n].initial_color = White /\ ~ Awaits(n)
<1>1. /\ node[n].color # node[n].initial_color /\ ~ Awaits(n)
      /\ node[n].color = node[0].color
  BY DEF TokenInv, Colors, IsRed
<1>2. node[n].color \in Color /\ node[n].initial_color \in Color
  BY Fields DEF TokenInv
<1> QED
  BY <1>1, <1>2, OthersColor DEF White

(* What SendRemote does to the nodes' states.                              *)
NodesSend(n, ts) ==
    /\ \A k \in Node : /\ node'[k].color = node[k].color
                       /\ node'[k].initial_color = node[k].initial_color
                       /\ node'[k].min_recv = node[k].min_recv
                       /\ node'[k].min_send <= node[k].min_send
                       /\ k # n => node'[k] = node[k]
                       /\ IsRed(k)' = IsRed(k)
                       /\ IsRed(k) => node'[k].count[White] = node[k].count[White]
    /\ node'[n].min_send \in {node[n].min_send, ts}
    /\ IsRed(n) => node'[n].min_send <= ts
    /\ White' = White /\ started_global_gvt' = started_global_gvt
    /\ node'[0].color = node[0].color

LEMMA SentRemote ==
    ASSUME TokenInv, NEW w \in Worker, NEW lp \in LP, NEW ts \in SendTimes,
           SendRemote(w, lp, ts)
    PROVE  NodesSend(w[1], ts)
<1>1. PICK n \in Node : n = w[1]
  BY OwnNode
<1>2. PICK s \in NodeState : s = node[n]
  BY DEF TokenInv, TypeInv
<1>3. ts \in Nat /\ s.min_send \in Nat /\ s.color \in Color /\ s.count \in [Color -> Int]
  BY Sizes DEF NodeState
<1>5. Becomes(n, s.color, s.initial_color, [s.count EXCEPT ![s.color] = @ + 1],
              IF s.color # s.initial_color THEN Min(s.min_send, ts) ELSE s.min_send, s.min_recv)
  BY <1>1, <1>2, NodeAfterSend DEF TokenInv
<1>6. /\ Min(s.min_send, ts) <= s.min_send /\ Min(s.min_send, ts) <= ts
      /\ Min(s.min_send, ts) \in {s.min_send, ts}
  BY <1>3, MinIsLess
<1>7. /\ node'[n].color = s.color /\ node'[n].initial_color = s.initial_color
      /\ node'[n].count = [s.count EXCEPT ![s.color] = @ + 1]
      /\ node'[n].min_recv = s.min_recv
      /\ node'[n].min_send <= s.min_send
      /\ node'[n].min_send \in {s.min_send, ts}
      /\ s.color # s.initial_color => node'[n].min_send <= ts
      /\ \A k \in Node \ {n} : node'[k] = node[k]
  BY <1>3, <1>5, <1>6 DEF Becomes
<1>8. \A k \in Node : node[k].min_send \in Nat
  BY Fields DEF TokenInv
<1>9. \A k \in Node : /\ node'[k].color = node[k].color
                      /\ node'[k].initial_color = node[k].initial_color
                      /\ node'[k].min_recv = node[k].min_recv
                      /\ node'[k].min_send <= node[k].min_send
                      /\ k # n => node'[k] = node[k]
  BY <1>2, <1>7, <1>8
<1>10. started_global_gvt' = started_global_gvt
  BY DEF SendRemote
<1>19. \A k \in Node : node'[k].color = node[k].color
  BY <1>2, <1>7
<1>20. node'[0].color = node[0].color
  BY <1>19, Sizes
<1>11. ASSUME NEW k \in Node PROVE IsRed(k)' = IsRed(k)
  <2>1. node'[k].color = node[k].color
    BY <1>19
  <2> QED
    BY <1>10, <1>20, <2>1 DEF IsRed
<1>12. White' = White
  BY <1>20 DEF White
<1>13. IsRed(n) => s.color # s.initial_color /\ s.initial_color = White
  BY <1>2, RedIsNew
<1>14. ASSUME NEW k \in Node, IsRed(k) PROVE node'[k].count[White] = node[k].count[White]
  <2>1. CASE k # n
    BY <1>7, <2>1
  <2>2. CASE k = n
    <3>1. White \in Color /\ White # s.color
      BY <1>2, <1>13, <1>14, <2>2 DEF NodeState
    <3> QED
      BY <1>2, <1>3, <1>7, <2>2, <3>1
  <2> QED
    BY <2>1, <2>2
<1>15. \A k \in Node : /\ node'[k].color = node[k].color
                       /\ node'[k].initial_color = node[k].initial_color
                       /\ node'[k].min_recv = node[k].min_recv
                       /\ node'[k].min_send <= node[k].min_send
                       /\ k # n => node'[k] = node[k]
                       /\ IsRed(k)' = IsRed(k)
                       /\ IsRed(k) => node'[k].count[White] = node[k].count[White]
  BY <1>9, <1>11, <1>14
<1>16. /\ node'[n].min_send \in {node[n].min_send, ts}
       /\ IsRed(n) => node'[n].min_send <= ts
  BY <1>2, <1>7, <1>13
<1>17. NodesSend(n, ts)
  BY <1>10, <1>12, <1>15, <1>16, <1>20 DEF NodesSend
<1> QED
  BY <1>1, <1>17

(* What ReceiveEvent does to them.                                         *)
NodesReceive(n, m) ==
    /\ \A k \in Node : /\ node'[k].color = node[k].color
                       /\ node'[k].initial_color = node[k].initial_color
                       /\ node'[k].min_send = node[k].min_send
                       /\ k # n => node'[k] = node[k]
                       /\ IsRed(k)' = IsRed(k)
                       /\ IsRed(k) /\ node[k].count[White] # 0 =>
                              node'[k].count[White] # 0
    /\ node'[n].min_recv \in {node[n].min_recv, m.ts}
    /\ IsRed(n) /\ m.color # node[0].color => node'[n].count[White] # 0
    /\ White' = White /\ started_global_gvt' = started_global_gvt
    /\ node'[0].color = node[0].color

LEMMA Received ==
    ASSUME TokenInv, CountInv, NEW m \in transit, ReceiveEvent(m)
    PROVE  m.lp \in LP /\ m.ts \in Nat /\ NodesReceive(NodeOf[m.lp], m)
<1>0. m.lp \in LP /\ m.ts \in Nat /\ m.color \in Color
  BY DEF TokenInv, TypeInv, Messages
<1>1. PICK n \in Node : n = NodeOf[m.lp]
  BY <1>0, Sizes
<1>2. PICK s \in NodeState : s = node[n]
  BY DEF TokenInv, TypeInv
<1>3. s.min_recv \in Nat /\ s.count \in [Color -> Int]
  BY DEF NodeState
<1>5. Becomes(n, s.color, s.initial_color, [s.count EXCEPT ![m.color] = @ - 1], s.min_send,
              IF m.color = s.initial_color THEN Min(s.min_recv, m.ts) ELSE s.min_recv)
  BY <1>1, <1>2, NodeAfterReceive DEF TokenInv
<1>6. Min(s.min_recv, m.ts) \in {s.min_recv, m.ts}
  BY <1>0, <1>3, MinIsLess
<1>7. /\ node'[n].color = s.color /\ node'[n].initial_color = s.initial_color
      /\ node'[n].count = [s.count EXCEPT ![m.color] = @ - 1]
      /\ node'[n].min_send = s.min_send
      /\ node'[n].min_recv \in {s.min_recv, m.ts}
      /\ \A k \in Node \ {n} : node'[k] = node[k]
  BY <1>5, <1>6 DEF Becomes
<1>9. \A k \in Node : /\ node'[k].color = node[k].color
                      /\ node'[k].initial_color = node[k].initial_color
                      /\ node'[k].min_send = node[k].min_send
                      /\ k # n => node'[k] = node[k]
  BY <1>2, <1>7
<1>10. started_global_gvt' = started_global_gvt
  BY DEF ReceiveEvent
<1>19. \A k \in Node : node'[k].color = node[k].color
  BY <1>2, <1>7
<1>20. node'[0].color = node[0].color
  BY <1>19, Sizes
<1>11. ASSUME NEW k \in Node PROVE IsRed(k)' = IsRed(k)
  <2>1. node'[k].color = node[k].color
    BY <1>19
  <2> QED
    BY <1>10, <1>20, <2>1 DEF IsRed
<1>12. White' = White
  BY <1>20 DEF White
<1>13. White \in Color /\ \A d \in Color : d = node[0].color \/ d = White
  BY Fields, Sizes, OthersColor DEF TokenInv, White
<1>14. IsRed(n) => s.count[White] <= 0 /\ s.count[White] \in Int
  BY <1>2, <1>3, <1>13 DEF CountInv
<1>15. \/ node'[n].count[White] = s.count[White] /\ m.color # White
       \/ node'[n].count[White] = s.count[White] - 1
  BY <1>0, <1>3, <1>7, <1>13
<1>16. IsRed(n) /\ m.color # node[0].color => node'[n].count[White] # 0
  BY <1>0, <1>13, <1>14, <1>15
<1>17. ASSUME NEW k \in Node, IsRed(k), node[k].count[White] # 0
       PROVE  node'[k].count[White] # 0
  <2>1. CASE k # n
    BY <1>7, <1>17, <2>1
  <2>2. CASE k = n
    BY <1>2, <1>14, <1>15, <1>17, <2>2
  <2> QED
    BY <2>1, <2>2
<1>18. /\ node'[n].min_recv \in {node[n].min_recv, m.ts}
       /\ \A k \in Node : k # n => node'[k] = node[k]
  BY <1>2, <1>7
<1>21. NodesReceive(n, m)
  BY <1>9, <1>10, <1>11, <1>12, <1>16, <1>17, <1>18, <1>20 DEF NodesReceive
<1> QED
  BY <1>0, <1>1, <1>21

(* What taking the token does to a node's state, ...                       *)
NodesTake(n, t) ==
    /\ \A k \in Node \ {n} : node'[k] = node[k]
    /\ \A k \in Node : node'[k].min_send \in Nat
    /\ node'[n].min_send <= t.m_send
    /\ IsRed(n) => /\ node'[n].min_send <= node[n].min_send
                   /\ node'[n].min_send \in {node[n].min_send, t.m_send}
                   /\ node'[n].min_recv = node[n].min_recv
    /\ ~ IsRed(n) => /\ node'[n].min_send \in {Infinity, t.m_send}
                     /\ node'[n].min_recv = Infinity
    /\ node'[n].count[White] = 0
    /\ White' = White
    /\ node'[0].color = node[0].color

LEMMA TakenAtNode ==
    ASSUME InOrder, TokenInv, TypeInv', NEW n \in Node, NEW from \in Node,
           NodeReceivesToken(n, from)
    PROVE  NodesTake(n, Head(control[<<from, n>>]))
<1>1. PICK t : t = Head(control[<<from, n>>])
  OBVIOUS
<1>2. /\ t \in Tokens /\ started_global_gvt
      /\ IsRed(n) <=> node[n].color # node[n].initial_color
      /\ Other(node'[0].color) = Other(node[0].color)
  BY <1>1, TokenNode
<1>3. PICK s \in NodeState : s = node[n]
  BY DEF TokenInv, TypeInv
<1>4. PICK m \in Nat : m = t.m_send
  BY <1>2 DEF Tokens
<1>5. /\ Min(Infinity, m) <= m /\ Min(Infinity, m) \in {Infinity, m}
      /\ Min(s.min_send, m) <= m /\ Min(s.min_send, m) <= s.min_send
      /\ Min(s.min_send, m) \in {s.min_send, m}
      /\ s.min_send \in Nat /\ s.color \in Color /\ s.initial_color \in Color
      /\ s.count \in [Color -> Int]
  BY Sizes, MinIsLess DEF NodeState
<1>6. PICK f : f = [s.count EXCEPT ![s.initial_color] = 0]
  OBVIOUS
<1>7. /\ s.color = s.initial_color =>
             Becomes(n, Other(s.color), s.initial_color, f, Min(Infinity, m), Infinity)
      /\ s.color # s.initial_color =>
             Becomes(n, s.color, s.initial_color, f, Min(s.min_send, m), s.min_recv)
  BY <1>1, <1>2, <1>3, <1>4, <1>6, NodeAtToken DEF TokenInv
<1>8. /\ \A k \in Node \ {n} : node'[k] = node[k]
      /\ node' \in [Node -> NodeState]
      /\ node'[n].count = f
      /\ node'[n].min_send <= m
      /\ s.color # s.initial_color => /\ node'[n].min_send <= s.min_send
                                      /\ node'[n].min_send \in {s.min_send, m}
                                      /\ node'[n].min_recv = s.min_recv
      /\ s.color = s.initial_color => /\ node'[n].min_send \in {Infinity, m}
                                      /\ node'[n].min_recv = Infinity
  BY <1>5, <1>7 DEF Becomes
<1>9. \A k \in Node : node'[k].min_send \in Nat
  BY <1>8 DEF NodeState
<1>10. s.initial_color = White
  <2>1. CASE IsRed(n)
    BY <1>3, <2>1, RedIsNew
  <2>2. CASE ~ IsRed(n)
    <3>1. s.color = s.initial_color /\ s.color # node[0].color
      BY <1>2, <1>3, <2>2 DEF IsRed
    <3> QED
      BY <1>5, <3>1, Fields, Sizes, OthersColor DEF White, TokenInv
  <2> QED
    BY <2>1, <2>2
<1>11. node'[n].count[White] = 0
  BY <1>5, <1>6, <1>8, <1>10
<1>12. n # 0
  BY DEF NodeReceivesToken
<1>13. node'[0].color = node[0].color
  BY <1>8, <1>12, Sizes
<1>14. White' = White
  BY <1>13 DEF White
<1>15. NodesTake(n, t)
  BY <1>2, <1>3, <1>4, <1>8, <1>9, <1>11, <1>13, <1>14 DEF NodesTake
<1> QED
  BY <1>1, <1>15

(* ... and to the initiator's, if the token goes round again.              *)
LEMMA TakenAgain ==
    ASSUME TokenInv, TypeInv', NEW from \in Node, InitiatorReceivesToken(from),
           ~ (Head(control[<<from, 0>>]).count <= 0)
    PROVE  NodesTake(0, Head(control[<<from, 0>>])) /\ IsRed(0)
<1>1. PICK t : t = Head(control[<<from, 0>>])
  OBVIOUS
<1>2. t \in Tokens /\ IsRed(0)
  BY <1>1, TokenIsBack, Sizes
<1>3. PICK s \in NodeState : s = node[0]
  BY Sizes DEF TokenInv, TypeInv
<1>4. PICK m \in Nat : m = t.m_send
  BY <1>2 DEF Tokens
<1>5. /\ Min(s.min_send, m) <= m /\ Min(s.min_send, m) <= s.min_send
      /\ Min(s.min_send, m) \in {s.min_send, m}
      /\ s.initial_color \in Color /\ s.count \in [Color -> Int]
  BY MinIsLess DEF NodeState
<1>6. PICK f : f = [s.count EXCEPT ![s.initial_color] = 0]
  OBVIOUS
<1>7. Becomes(0, s.color, s.initial_color, f, Min(s.min_send, m), s.min_recv)
  BY <1>1, <1>2, <1>3, <1>4, <1>6, InitiatorAgain DEF TokenInv
<1>8. /\ \A k \in Node \ {0} : node'[k] = node[k]
      /\ node' \in [Node -> NodeState]
      /\ node'[0].count = f /\ node'[0].color = s.color
      /\ node'[0].min_send <= m
      /\ node'[0].min_send <= s.min_send
      /\ node'[0].min_send \in {s.min_send, m}
      /\ node'[0].min_recv = s.min_recv
  BY <1>5, <1>7 DEF Becomes
<1>9. \A k \in Node : node'[k].min_send \in Nat
  BY <1>8 DEF NodeState
<1>10. s.initial_color = White
  BY <1>2, <1>3, RedIsNew, Sizes
<1>11. node'[0].count[White] = 0
  BY <1>5, <1>6, <1>8, <1>10
<1>12. White' = White
  BY <1>3, <1>8 DEF White
<1>13. NodesTake(0, t)
  BY <1>2, <1>3, <1>4, <1>8, <1>9, <1>11, <1>12 DEF NodesTake
<1> QED
  BY <1>1, <1>2, <1>13

(* A new GVT leaves the minima and the colors alone.                       *)
LEMMA UpdateKeepsNode ==
    ASSUME TokenInv, NEW n \in Node, receiveGVTUpdate(n)
    PROVE  /\ \A k \in Node : /\ node'[k].color = node[k].color
                              /\ node'[k].count = node[k].count
                              /\ node'[k].min_send = node[k].min_send
                              /\ node'[k].min_recv = node[k].min_recv
           /\ White' = White /\ node'[0].color = node[0].color
<1>1. PICK s \in NodeState : s = node[n]
  BY DEF TokenInv, TypeInv
<1>2. Becomes(n, s.color, Other(s.initial_color), s.count, s.min_send, s.min_recv)
  BY <1>1, NodeAtUpdate DEF TokenInv
<1>3. \A k \in Node : /\ node'[k].color = node[k].color
                      /\ node'[k].count = node[k].count
                      /\ node'[k].min_send = node[k].min_send
                      /\ node'[k].min_recv = node[k].min_recv
  BY <1>1, <1>2 DEF Becomes
<1>4. node'[0].color = node[0].color
  BY <1>3, Sizes
<1>5. White' = White
  BY <1>4 DEF White
<1> QED
  BY <1>3, <1>4, <1>5

LEMMA NotedNext ==
    ASSUME InOrder, TokenInv, CountInv, Noted, [Next]_vars
    PROVE  Noted'
<1>0. TypeInv /\ TypeInv' /\ TokenInv'
  BY TypesNext, TokenNext DEF TokenInv
<1>10. \A k \in Node : node[k].min_send \in Nat
  BY Fields DEF TokenInv
<1>20. ASSUME transit' \subseteq transit, UNCHANGED <<node, started_global_gvt>>
       PROVE  Noted'
  <2>1. \A u \in Node : IsRed(u) => IsRed(u)' /\ node'[u].min_send <= node[u].min_send
    BY <1>10, <1>20 DEF IsRed
  <2> QED
    BY <1>0, <1>20, <2>1, StillNoted
<1>1. ASSUME NEW w \in Worker, NEW lp \in LP, NEW ts \in SendTimes, SendRemote(w, lp, ts)
      PROVE  Noted'
  <2>1. PICK n \in Node : n = w[1]
    BY OwnNode
  <2>2. NodesSend(n, ts)
    BY <1>1, <2>1, SentRemote
  <2>3. transit' = transit \cup {[lp |-> lp, ts |-> ts, color |-> node[n].color]}
    BY <1>1, <2>1 DEF SendRemote
  <2>4. ASSUME NEW m \in transit'
        PROVE  /\ ~ started_global_gvt' => m.color = node'[0].color
               /\ started_global_gvt' /\ m.color = node'[0].color =>
                      \E u \in Node : IsRed(u)' /\ node'[u].min_send <= m.ts
    <3>1. CASE m \in transit
      <4>1. ASSUME started_global_gvt, m.color = node[0].color
            PROVE  \E u \in Node : IsRed(u)' /\ node'[u].min_send <= m.ts
        <5>1. PICK u \in Node : IsRed(u) /\ node[u].min_send <= m.ts
          BY <3>1, <4>1 DEF Noted
        <5>2. IsRed(u)' /\ node'[u].min_send <= node[u].min_send
          BY <2>2, <5>1 DEF NodesSend
        <5>3. m.ts \in Nat /\ node[u].min_send \in Nat /\ node'[u].min_send \in Nat
          BY <1>0, <3>1 DEF TypeInv, Messages, NodeState
        <5> QED
          BY <5>1, <5>2, <5>3
      <4> QED
        BY <2>2, <3>1, <4>1 DEF Noted, NodesSend
    <3>2. CASE m = [lp |-> lp, ts |-> ts, color |-> node[n].color]
      <4>1. m.color = node[n].color /\ m.ts = ts
        BY <3>2
      <4>2. CASE started_global_gvt /\ m.color = node[0].color
        <5>1. IsRed(n)
          BY <4>1, <4>2 DEF IsRed
        <5>2. IsRed(n)' /\ node'[n].min_send <= ts
          BY <2>2, <5>1 DEF NodesSend
        <5> QED
          BY <2>2, <4>1, <4>2, <5>2 DEF NodesSend
      <4>3. CASE started_global_gvt /\ m.color # node[0].color
        BY <2>2, <4>3 DEF NodesSend
      <4>4. CASE ~ started_global_gvt
        <5>1. node[n].color = node[0].color
          BY <4>4 DEF TokenInv, Colors
        <5> QED
          BY <2>2, <4>1, <4>4, <5>1 DEF NodesSend
      <4> QED
        BY <4>2, <4>3, <4>4
    <3> QED
      BY <2>3, <3>1, <3>2
  <2> QED
    BY <2>4 DEF Noted
<1>2. ASSUME NEW w \in Worker, WorkerStep(w) PROVE Noted'
  <2>1. ASSUME NEW lp \in LP, NEW ts \in SendTimes, SendLocal(w, lp, ts)
        PROVE  UNCHANGED <<transit, node, started_global_gvt>>
    BY <2>1 DEF SendLocal, globalVars
  <2>2. CASE ReadFlag(w) \/ GetEvent(w) \/ reportThreadMin(w) \/ reportThreadSendMin(w)
             \/ ReplenishScheduler(w)
    <3>1. UNCHANGED <<transit, node, started_global_gvt>>
      BY <2>2 DEF ReadFlag, GetEvent, reportThreadMin, reportThreadSendMin,
                  ReplenishScheduler, globalVars, clientVars
    <3> QED
      BY <1>20, <3>1
  <2> QED
    BY <1>1, <1>2, <1>20, <2>1, <2>2 DEF WorkerStep
<1>3. ASSUME NEW n \in Node, BeginLocal(n) PROVE Noted'
  <2>1. CASE n = 0 /\ ~ started_global_gvt
    <3>1. Becomes(0, Other(node[0].color), node[0].initial_color,
                  [node[0].count EXCEPT ![node[0].initial_color] = 0], Infinity, Infinity)
      BY <1>0, <1>3, <2>1, NodeAtStart
    <3>2. node'[0].color = Other(node[0].color) /\ Other(node[0].color) # node[0].color
      BY <1>0, <3>1, Fields, Sizes, OthersColor DEF Becomes
    <3>3. started_global_gvt' /\ transit' = transit
      BY <1>3, <2>1 DEF BeginLocal, clientVars
    <3>4. \A m \in transit : m.color = node[0].color
      BY <2>1 DEF Noted
    <3> QED
      BY <3>2, <3>3, <3>4 DEF Noted
  <2>2. CASE ~ (n = 0 /\ ~ started_global_gvt)
    <3>1. UNCHANGED <<node, started_global_gvt, transit>>
      BY <1>3, <2>2 DEF BeginLocal, clientVars
    <3> QED
      BY <1>20, <3>1
  <2> QED
    BY <2>1, <2>2
<1>4. ASSUME NEW n \in Node, StoreFlag(n) \/ FinishLocal(n) PROVE Noted'
  <2>1. UNCHANGED <<node, started_global_gvt, transit>>
    BY <1>4 DEF StoreFlag, FinishLocal, clientVars
  <2> QED
    BY <1>20, <2>1
<1>5. ASSUME NEW n \in Node, NEW from \in Node, NodeReceivesToken(n, from) PROVE Noted'
  <2>1. NodesTake(n, Head(control[<<from, n>>]))
    BY <1>0, <1>5, TakenAtNode
  <2>2. \A m \in Node : IsRed(m)' <=> IsRed(m) \/ m = n
    BY <1>0, <1>5, TokenNode
  <2>3. \A u \in Node : IsRed(u) => IsRed(u)' /\ node'[u].min_send <= node[u].min_send
    BY <1>10, <2>1, <2>2 DEF NodesTake
  <2>4. UNCHANGED <<transit, started_global_gvt>> /\ node'[0].color = node[0].color
    BY <1>5, <2>1 DEF NodeReceivesToken, clientVars, NodesTake
  <2> QED
    BY <1>0, <2>3, <2>4, StillNoted
<1>6. ASSUME NEW from \in Node, InitiatorReceivesToken(from) PROVE Noted'
  <2>1. CASE Head(control[<<from, 0>>]).count <= 0
    <3>1. \A m \in transit : m.color = node[0].color
      BY <1>6, <2>1, AllArrived
    <3>2. Head(control[<<from, 0>>]) \in Tokens
      BY <1>6, TokenIsBack
    <3>3. UNCHANGED <<transit, node>> /\ ~ started_global_gvt'
      BY <1>0, <1>6, <2>1, <3>2, InitiatorEnds DEF clientVars
    <3> QED
      BY <3>1, <3>3 DEF Noted
  <2>2. CASE ~ (Head(control[<<from, 0>>]).count <= 0)
    <3>1. NodesTake(0, Head(control[<<from, 0>>])) /\ IsRed(0)
      BY <1>0, <1>6, <2>2, TakenAgain
    <3>2. \A u \in Node : IsRed(u)'
      BY <1>0, <1>6, <2>2, TokenAround
    <3>3. \A u \in Node : IsRed(u) => IsRed(u)' /\ node'[u].min_send <= node[u].min_send
      BY <1>10, <3>1, <3>2 DEF NodesTake
    <3>4. UNCHANGED <<transit, started_global_gvt>> /\ node'[0].color = node[0].color
      BY <1>6, <2>2, <3>1 DEF InitiatorReceivesToken, clientVars, NodesTake
    <3> QED
      BY <1>0, <3>3, <3>4, StillNoted
  <2> QED
    BY <2>1, <2>2
<1>7. ASSUME NEW n \in Node, receiveGVTUpdate(n) PROVE Noted'
  <2>1. \A u \in Node : IsRed(u)' = IsRed(u)
    BY <1>0, <1>7, TokenUpdate
  <2>2. \A u \in Node : IsRed(u) => IsRed(u)' /\ node'[u].min_send <= node[u].min_send
    BY <1>7, <1>10, <2>1, UpdateKeepsNode
  <2>3. UNCHANGED <<transit, started_global_gvt>> /\ node'[0].color = node[0].color
    BY <1>7, UpdateKeepsNode DEF receiveGVTUpdate, clientVars
  <2> QED
    BY <1>0, <2>2, <2>3, StillNoted
<1>8. ASSUME NEW m \in transit, ReceiveEvent(m) PROVE Noted'
  <2>1. NodesReceive(NodeOf[m.lp], m)
    BY <1>8, Received
  <2>2. \A u \in Node : IsRed(u) => IsRed(u)' /\ node'[u].min_send <= node[u].min_send
    BY <1>10, <2>1 DEF NodesReceive
  <2>3. transit' \subseteq transit
    BY <1>8 DEF ReceiveEvent
  <2> QED
    BY <1>0, <2>1, <2>2, <2>3, StillNoted DEF NodesReceive
<1>9. CASE UNCHANGED vars
  BY <1>9, <1>20 DEF vars, clientVars, globalVars
<1> QED
  BY <1>2, <1>3, <1>4, <1>5, <1>6, <1>7, <1>8, <1>9 DEF Next, ProgressGVT

-----------------------------------------------------------------------------
(* What the token knows.  When it is at node p, held or just sent on, c    *)
(* and s are its two minima.  A receive time is covered if one of them, or *)
(* what a later node that is red has noted of its sends, is not later.     *)

Ahead(p, ts) == \E u \in Node : u > p /\ IsRed(u) /\ node[u].min_send <= ts

Covered(p, c, s, ts) == NumNodes > 1 /\ (c <= ts \/ s <= ts \/ Ahead(p, ts))

(* All that is pending at the nodes before q is covered, and every message *)
(* of the new color.                                                       *)
Behind(q, p, c, s) ==
    /\ \A lp \in LP : NodeOf[lp] < q => \A ts \in pending[lp] : Covered(p, c, s, ts)
    /\ \A m \in transit : m.color = node[0].color => Covered(p, c, s, m.ts)

(* A message of the old color has reached a node after the token had been  *)
(* there.                                                                  *)
Spoiled(p) == NumNodes > 1 /\ \E n \in Node : n <= p /\ node[n].count[White] # 0

Clock(n)          == IF n = 0 THEN Infinity ELSE global_min_clock[n]
HeldCovers(n, ts) == Covered(n, Clock(n), node[n].min_send, ts)

(* Some thread of the node has reported, or will report, at most ts.       *)
Gives(v, ts) ==
    \/ calculated[v] /\ local_min[v] <= ts
    \/ ~ calculated[v] /\ send_min[v] <= ts
    \/ ~ calculated[v] /\ wpc[v] = "reportSend" /\ toReport[v] <= ts

Known(n, ts) == \E v \in NodeWorkers(n) : Gives(v, ts)

Told(n, ts) == Known(n, ts) \/ HeldCovers(n, ts)

(* A thread that has reported has nothing earlier than what is known; one  *)
(* that is about to, nothing earlier than that and what it holds.          *)
Heard(n, w, ts) ==
    /\ calculated[w] => Told(n, ts)
    /\ wpc[w] = "report" /\ flag[w] > 0 =>
           calculated[w] \/ taken[w].ts <= ts \/ Told(n, ts)

Reported(n) ==
    started_local_gvt[n] =>
        \A lp \in LP : NodeOf[lp] = n => \A ts \in pending[lp] : Heard(n, Owner(lp), ts)

(* Unless a message has come late, the token knows all that the nodes      *)
(* behind it may still process or send.                                    *)
CutInv ==
    \A p \in Node :
        ~ Spoiled(p) =>
            /\ Holds(p) => Behind(p, p, Clock(p), node[p].min_send) /\ Reported(p)
            /\ \A t \in Toks(p) : Behind(p + 1, p, t.m_clock, t.m_send)

(* What most steps do: nothing is forgotten.                               *)
Steady ==
    /\ started_global_gvt' = started_global_gvt
    /\ node'[0].color = node[0].color /\ White' = White
    /\ \A u \in Node : /\ IsRed(u)' <=> IsRed(u)
                       /\ node'[u].min_send <= node[u].min_send
                       /\ IsRed(u) /\ node[u].count[White] # 0 => node'[u].count[White] # 0

LEMMA ClockIs ==
    ASSUME TypeInv, NEW n \in Node
    PROVE  Clock(n) \in Nat /\ node[n].min_send \in Nat
  BY Sizes, Fields DEF Clock, TypeInv

LEMMA NoNodeChanges ==
    ASSUME TypeInv, UNCHANGED <<node, started_global_gvt>>
    PROVE  Steady
<1>1. \A u \in Node : node'[u].min_send <= node[u].min_send
  BY Fields
<1>2. \A u \in Node : IsRed(u)' <=> IsRed(u)
  BY DEF IsRed
<1> QED
  BY <1>1, <1>2 DEF Steady, White

LEMMA SteadyWorker ==
    ASSUME TokenInv, NEW w \in Worker, WorkerStep(w)
    PROVE  Steady /\ UNCHANGED <<global_min_clock, started_local_gvt, gvt_state, control,
                                 gVT, mpc>>
<1>0. UNCHANGED <<global_min_clock, started_local_gvt, gvt_state, control, gVT, mpc>>
  BY DEF WorkerStep, ReadFlag, GetEvent, reportThreadMin, SendLocal, SendRemote,
         reportThreadSendMin, ReplenishScheduler, globalVars
<1>1. ASSUME NEW lp \in LP, NEW ts \in SendTimes, SendRemote(w, lp, ts) PROVE Steady
  <2>1. NodesSend(w[1], ts)
    BY <1>1, SentRemote
  <2> QED
    BY <2>1 DEF NodesSend, Steady
<1>2. ASSUME NEW lp \in LP, NEW ts \in SendTimes, SendLocal(w, lp, ts) PROVE Steady
  BY <1>2, NoNodeChanges DEF SendLocal, globalVars, TokenInv
<1>3. CASE ReadFlag(w) \/ GetEvent(w) \/ reportThreadMin(w) \/ reportThreadSendMin(w)
           \/ ReplenishScheduler(w)
  <2>1. UNCHANGED <<node, started_global_gvt>>
    BY <1>3 DEF ReadFlag, GetEvent, reportThreadMin, reportThreadSendMin,
                ReplenishScheduler, globalVars
  <2> QED
    BY <1>0, <2>1, NoNodeChanges DEF TokenInv
<1>4. Steady
  BY <1>1, <1>2, <1>3 DEF WorkerStep
<1> QED
  BY <1>0, <1>4

LEMMA SteadyReceive ==
    ASSUME TokenInv, CountInv, NEW m \in transit, ReceiveEvent(m)
    PROVE  Steady
<1>1. NodesReceive(NodeOf[m.lp], m)
  BY Received
<1>2. \A u \in Node : node[u].min_send \in Nat
  BY Fields DEF TokenInv
<1> QED
  BY <1>1, <1>2 DEF NodesReceive, Steady

LEMMA StaysSpoiled ==
    ASSUME Steady, NEW p \in Node, \A n \in Node : n <= p => IsRed(n), Spoiled(p)
    PROVE  Spoiled(p)'
  BY DEF Steady, Spoiled

(* What is covered stays covered, and so is what comes later.              *)
LEMMA CoveredLater ==
    ASSUME TypeInv, TypeInv', Steady, NEW p \in Node,
           NEW c \in Nat, NEW s \in Nat, NEW d \in Nat, NEW r \in Nat, d <= c, r <= s,
           NEW ts \in Nat, NEW tt \in Nat, ts <= tt, Covered(p, c, s, ts)
    PROVE  Covered(p, d, r, tt)'
<1>1. CASE c <= ts \/ s <= ts
  BY <1>1 DEF Covered
<1>2. CASE Ahead(p, ts)
  <2>1. PICK u \in Node : u > p /\ IsRed(u) /\ node[u].min_send <= ts
    BY <1>2 DEF Ahead
  <2>2. IsRed(u)' /\ node'[u].min_send <= node[u].min_send
    BY <2>1 DEF Steady
  <2>3. node[u].min_send \in Nat /\ node'[u].min_send \in Nat
    BY DEF TypeInv, NodeState
  <2>4. node'[u].min_send <= tt
    BY <2>1, <2>2, <2>3
  <2>5. Ahead(p, tt)'
    BY <2>1, <2>2, <2>4 DEF Ahead
  <2> QED
    BY <2>5 DEF Covered
<1> QED
  BY <1>1, <1>2 DEF Covered

LEMMA BehindStep ==
    ASSUME TypeInv, TypeInv', Steady, NEW p \in Node, NEW q \in Nat,
           NEW c \in Nat, NEW s \in Nat, NEW d \in Nat, NEW r \in Nat, d <= c, r <= s,
           Behind(q, p, c, s),
           \A lp \in LP : NodeOf[lp] < q =>
               \A ts \in pending'[lp] : ts \in pending[lp] \/ Covered(p, d, r, ts)',
           \A m \in transit' :
               m \in transit \/ m.color # node[0].color \/ Covered(p, d, r, m.ts)'
    PROVE  Behind(q, p, d, r)'
<1>1. ASSUME NEW lp \in LP, NodeOf[lp] < q, NEW ts \in pending'[lp]
      PROVE  Covered(p, d, r, ts)'
  <2>1. CASE ts \in pending[lp]
    <3>1. ts \in Nat /\ Covered(p, c, s, ts)
      BY <1>1, <2>1 DEF TypeInv, Behind
    <3>2. ts <= ts
      BY <3>1
    <3> QED
      BY <3>1, <3>2, CoveredLater
  <2> QED
    BY <1>1, <2>1
<1>2. ASSUME NEW m \in transit', m.color = node'[0].color
      PROVE  Covered(p, d, r, m.ts)'
  <2>0. node'[0].color = node[0].color
    BY DEF Steady
  <2>1. CASE m \in transit
    <3>1. m.ts \in Nat /\ Covered(p, c, s, m.ts)
      BY <1>2, <2>0, <2>1 DEF TypeInv, Behind, Messages
    <3>2. PICK ts \in Nat : ts = m.ts
      BY <3>1
    <3>3. ts <= ts
      OBVIOUS
    <3>4. Covered(p, d, r, ts)'
      BY <3>1, <3>2, <3>3, CoveredLater
    <3> QED
      BY <3>2, <3>4
  <2> QED
    BY <1>2, <2>0, <2>1
<1> QED
  BY <1>1, <1>2 DEF Behind

(* What a thread of a node behind the token handles is covered.            *)
LEMMA TakenCovered ==
    ASSUME TypeInv, ClientInv, NEW w \in Worker, wpc[w] = "process",
           NEW p, NEW q, NEW c, NEW s, Behind(q, p, c, s), w[1] < q
    PROVE  taken[w].ts \in Nat /\ Covered(p, c, s, taken[w].ts)
<1>1. /\ taken[w].lp \in LP /\ Owner(taken[w].lp) = w
      /\ taken[w].ts \in pending[taken[w].lp]
  BY DEF ClientInv, Holding
<1>2. NodeOf[taken[w].lp] = w[1]
  BY <1>1 DEF Owner
<1> QED
  BY <1>1, <1>2 DEF Behind, TypeInv

(* A step of a thread: it sends only what is later than what it handles.   *)
LEMMA BehindWorker ==
    ASSUME TokenInv, TypeInv', ClientInv, NEW w \in Worker, WorkerStep(w),
           NEW p \in Node, NEW q \in {p, p + 1}, \A n \in Node : n <= p => IsRed(n),
           NEW c \in Nat, NEW s \in Nat, NEW r \in Nat, r <= s,
           q = p => r <= node'[p].min_send,
           Behind(q, p, c, s)
    PROVE  Behind(q, p, c, r)'
<1>0. /\ TypeInv /\ Steady /\ q \in Nat /\ c <= c /\ w[1] \in Node /\ w[1] \in Nat /\ p \in Nat
  <2>1. TypeInv /\ Steady
    BY SteadyWorker DEF TokenInv
  <2>2. w[1] \in Node /\ p \in Nat
    BY OwnNode, Sizes
  <2>3. w[1] \in Nat
    BY <2>2, Sizes
  <2>4. q \in Nat /\ c <= c
    BY <2>2
  <2> QED
    BY <2>1, <2>2, <2>3, <2>4
<1>7. taken[w].ts \in Nat
  BY <1>0 DEF TypeInv
<1>1. ASSUME \A lp \in LP : pending'[lp] \subseteq pending[lp], transit' \subseteq transit
      PROVE  Behind(q, p, c, r)'
  <2>1. \A lp \in LP : NodeOf[lp] < q =>
            \A ts \in pending'[lp] : ts \in pending[lp] \/ Covered(p, c, r, ts)'
    BY <1>1
  <2>2. \A m \in transit' :
            m \in transit \/ m.color # node[0].color \/ Covered(p, c, r, m.ts)'
    BY <1>1
  <2> QED
    BY <1>0, <2>1, <2>2, BehindStep
<1>2. ASSUME NEW ts \in Nat, wpc[w] = "process", w[1] < q, taken[w].ts <= ts
      PROVE  Covered(p, c, r, ts)'
  <2>1. taken[w].ts \in Nat /\ Covered(p, c, s, taken[w].ts)
    BY <1>0, <1>2, TakenCovered
  <2> QED
    BY <1>0, <1>2, <2>1, CoveredLater
<1>3. ASSUME NEW lp \in LP, NEW ts \in SendTimes, SendLocal(w, lp, ts)
      PROVE  Behind(q, p, c, r)'
  <2>1. /\ wpc[w] = "process" /\ NodeOf[lp] = w[1] /\ ts > taken[w].ts /\ transit' = transit
        /\ pending' = [pending EXCEPT ![lp] = @ \cup {ts}]
    BY <1>3 DEF SendLocal, MayCause, Insert
  <2>2. ts \in Nat /\ taken[w].ts <= ts
    BY <1>7, <2>1, Sizes
  <2>3. ASSUME NEW l \in LP, NodeOf[l] < q, NEW t \in pending'[l]
        PROVE  t \in pending[l] \/ Covered(p, c, r, t)'
    <3>1. t \in pending[l] \/ (t = ts /\ l = lp)
      BY <1>0, <2>1, <2>3 DEF TypeInv
    <3>2. CASE t = ts /\ l = lp
      BY <1>2, <2>1, <2>2, <2>3, <3>2
    <3> QED
      BY <3>1, <3>2
  <2>4. \A m \in transit' :
            m \in transit \/ m.color # node[0].color \/ Covered(p, c, r, m.ts)'
    BY <2>1
  <2> QED
    BY <1>0, <2>3, <2>4, BehindStep
<1>4. ASSUME NEW lp \in LP, NEW ts \in SendTimes, SendRemote(w, lp, ts)
      PROVE  Behind(q, p, c, r)'
  <2>0. PICK n \in Node : n = w[1]
    BY <1>0
  <2>1. /\ wpc[w] = "process" /\ ts > taken[w].ts /\ NodeOf[lp] # n
        /\ transit' = transit \cup {[lp |-> lp, ts |-> ts, color |-> node[n].color]}
        /\ UNCHANGED pending
    BY <1>4, <2>0 DEF SendRemote, MayCause
  <2>2. ts \in Nat /\ taken[w].ts <= ts
    BY <1>7, <2>1, Sizes
  <2>3. NodesSend(n, ts)
    BY <1>4, <2>0, SentRemote
  <2>4. ASSUME node[n].color = node[0].color PROVE Covered(p, c, r, ts)'
    <3>1. NumNodes > 1
      BY <2>0, <2>1, Sizes DEF Node
    <3>2. IsRed(n)
      <4>1. IsRed(p)
        BY <1>0
      <4> QED
        BY <2>4, <4>1 DEF IsRed
    <3>3. node'[n].min_send <= ts /\ IsRed(n)' /\ node'[n].min_send \in Nat
      BY <2>3, <3>2 DEF NodesSend, TypeInv, NodeState
    <3>4. CASE n > p
      <4>1. Ahead(p, ts)'
        BY <3>3, <3>4 DEF Ahead
      <4> QED
        BY <3>1, <4>1 DEF Covered
    <3>5. CASE n < q
      BY <1>2, <2>0, <2>1, <2>2, <3>5
    <3>6. CASE n = p /\ q = p
      <4>1. r <= ts
        BY <2>2, <3>3, <3>6
      <4> QED
        BY <3>1, <4>1 DEF Covered
    <3>7. n \in Nat
      BY Sizes
    <3> QED
      BY <1>0, <3>4, <3>5, <3>6, <3>7
  <2>5. ASSUME NEW m \in transit'
        PROVE  m \in transit \/ m.color # node[0].color \/ Covered(p, c, r, m.ts)'
    <3>1. m \in transit \/ (m.ts = ts /\ m.color = node[n].color)
      BY <2>1
    <3> QED
      BY <2>4, <3>1
  <2>6. \A l \in LP : NodeOf[l] < q =>
            \A t \in pending'[l] : t \in pending[l] \/ Covered(p, c, r, t)'
    BY <2>1
  <2> QED
    BY <1>0, <2>5, <2>6, BehindStep
<1>5. CASE ReplenishScheduler(w)
  <2>1. /\ transit' = transit
        /\ pending' = [pending EXCEPT ![taken[w].lp] = @ \ {taken[w].ts}]
    BY <1>5 DEF ReplenishScheduler, Replenish
  <2>2. \A lp \in LP : pending'[lp] \subseteq pending[lp]
    BY <1>0, <2>1 DEF TypeInv
  <2> QED
    BY <1>1, <2>1, <2>2
<1>6. CASE ReadFlag(w) \/ GetEvent(w) \/ reportThreadMin(w) \/ reportThreadSendMin(w)
  <2>1. UNCHANGED <<pending, transit>>
    BY <1>6 DEF ReadFlag, GetEvent, reportThreadMin, reportThreadSendMin, clientVars
  <2> QED
    BY <1>1, <2>1
<1> QED
  BY <1>3, <1>4, <1>5, <1>6 DEF WorkerStep

(* A message of the old color that comes late spoils the cut.              *)
LEMMA BehindReceive ==
    ASSUME TokenInv, TypeInv', CountInv, NEW m \in transit, ReceiveEvent(m),
           NEW p \in Node, NEW q \in {p, p + 1}, \A n \in Node : n <= p => IsRed(n),
           ~ Spoiled(p)',
           NEW c \in Nat, NEW s \in Nat, Behind(q, p, c, s)
    PROVE  Behind(q, p, c, s)'
<1>0. /\ TypeInv /\ Steady /\ q \in Nat /\ p \in Nat /\ c <= c /\ s <= s
  BY SteadyReceive, Sizes DEF TokenInv
<1>1. m.lp \in LP /\ m.ts \in Nat /\ NodesReceive(NodeOf[m.lp], m)
  BY Received
<1>2. PICK n \in Node : n = NodeOf[m.lp]
  BY <1>1, Sizes
<1>3. /\ transit' = transit \ {m}
      /\ pending' = [pending EXCEPT ![m.lp] = @ \cup {m.ts}]
  BY DEF ReceiveEvent, Insert
<1>4. ASSUME n < q PROVE Covered(p, c, s, m.ts)'
  <2>1. n <= p /\ n \in Nat
    BY <1>0, <1>4, Sizes
  <2>2. m.color = node[0].color
    <3>1. CASE NumNodes > 1
      <4>1. node'[n].count[White'] = 0
        BY <2>1, <3>1 DEF Spoiled
      <4>2. node'[n].count[White] = 0
        BY <1>0, <4>1 DEF Steady
      <4> QED
        BY <1>1, <1>2, <2>1, <4>2 DEF NodesReceive
    <3>2. CASE ~ NumNodes > 1
      BY <3>2, Sizes DEF CountInv
    <3> QED
      BY <3>1, <3>2
  <2>3. Covered(p, c, s, m.ts)
    BY <2>2 DEF Behind
  <2>4. PICK ts \in Nat : ts = m.ts
    BY <1>1
  <2>5. Covered(p, c, s, ts)'
    BY <1>0, <2>3, <2>4, CoveredLater
  <2> QED
    BY <2>4, <2>5
<1>5. ASSUME NEW l \in LP, NodeOf[l] < q, NEW t \in pending'[l]
      PROVE  t \in pending[l] \/ Covered(p, c, s, t)'
  <2>1. t \in pending[l] \/ (t = m.ts /\ l = m.lp)
    BY <1>0, <1>1, <1>3, <1>5 DEF TypeInv
  <2>2. CASE t = m.ts /\ l = m.lp
    BY <1>2, <1>4, <1>5, <2>2
  <2> QED
    BY <2>1, <2>2
<1>6. \A k \in transit' :
          k \in transit \/ k.color # node[0].color \/ Covered(p, c, s, k.ts)'
  BY <1>3
<1> QED
  BY <1>0, <1>5, <1>6, BehindStep

(* Later times are told as well.                                           *)
LEMMA ToldLater ==
    ASSUME TypeInv, NEW n \in Node, NEW t \in Nat, NEW tt \in Nat, t <= tt, Told(n, t)
    PROVE  Told(n, tt)
<1>1. CASE Known(n, t)
  <2>1. PICK v \in NodeWorkers(n) : Gives(v, t)
    BY <1>1 DEF Known
  <2>2. local_min[v] \in Nat /\ send_min[v] \in Nat /\ toReport[v] \in Nat
    BY NodeWorker DEF TypeInv
  <2>3. Gives(v, tt)
    BY <2>1, <2>2 DEF Gives
  <2> QED
    BY <2>1, <2>3 DEF Known, Told
<1>2. CASE HeldCovers(n, t)
  <2>1. Clock(n) \in Nat /\ node[n].min_send \in Nat
    BY ClockIs
  <2>2. \A u \in Node : node[u].min_send \in Nat
    BY Fields
  <2>3. Ahead(n, t) => Ahead(n, tt)
    BY <2>2 DEF Ahead
  <2>4. HeldCovers(n, tt)
    BY <1>2, <2>1, <2>3 DEF HeldCovers, Covered
  <2> QED
    BY <2>4 DEF Told
<1> QED
  BY <1>1, <1>2 DEF Told

LEMMA HeldStays ==
    ASSUME TypeInv, TypeInv', Steady, NEW n \in Node,
           global_min_clock'[n] = global_min_clock[n], NEW t \in Nat, HeldCovers(n, t)
    PROVE  HeldCovers(n, t)'
<1>1. PICK c \in Nat, s \in Nat : c = Clock(n) /\ s = node[n].min_send
  BY ClockIs
<1>2. PICK r \in Nat : r = node'[n].min_send
  BY DEF TypeInv, NodeState
<1>3. r <= s /\ c <= c /\ t <= t
  BY <1>1, <1>2 DEF Steady
<1>4. Covered(n, c, s, t)
  BY <1>1 DEF HeldCovers
<1>5. Covered(n, c, r, t)'
  BY <1>3, <1>4, CoveredLater
<1>6. Clock(n)' = c
  BY <1>1 DEF Clock
<1> QED
  BY <1>2, <1>5, <1>6 DEF HeldCovers

(* A thread's step takes back nothing that has been reported: while it has *)
(* still to report the flag is up, and what it sends is recorded.          *)
LEMMA GivesStays ==
    ASSUME FlagInv, TypeInv, TypeInv', ClientInv, NEW w \in Worker, WorkerStep(w),
           started_local_gvt[w[1]], NEW t \in Nat, Gives(w, t)
    PROVE  Gives(w, t)'
<1>0. /\ wpc[w] = "reportSend" => wpc[w] # "process"
      /\ send_min[w] \in Nat /\ toReport[w] \in Nat /\ taken[w].ts \in Nat
      /\ calculated[w] \in BOOLEAN /\ w[1] \in Node
  BY OwnNode DEF TypeInv
<1>1. ASSUME wpc[w] # "reportSend", UNCHANGED <<calculated, local_min, send_min>>
      PROVE  Gives(w, t)'
  BY <1>1 DEF Gives
<1>2. CASE ReadFlag(w) \/ GetEvent(w) \/ ReplenishScheduler(w)
  <2>1. wpc[w] # "reportSend" /\ UNCHANGED <<calculated, local_min, send_min>>
    BY <1>2 DEF ReadFlag, GetEvent, ReplenishScheduler, localVars
  <2> QED
    BY <1>1, <2>1
<1>3. ASSUME NEW lp \in LP, NEW ts \in SendTimes, SendLocal(w, lp, ts) \/ SendRemote(w, lp, ts)
      PROVE  Gives(w, t)'
  <2>1. wpc[w] # "reportSend" /\ UNCHANGED <<calculated, local_min, send_min>>
    BY <1>3 DEF SendLocal, SendRemote, localVars
  <2> QED
    BY <1>1, <2>1
<1>4. CASE reportThreadMin(w)
  <2>1. CASE flag[w] > 0 /\ ~ calculated[w]
    <3>1. /\ local_min' = [local_min EXCEPT ![w] = Min(send_min[w], taken[w].ts)]
          /\ calculated' = [calculated EXCEPT ![w] = TRUE]
          /\ wpc[w] = "report"
      BY <1>4, <2>1 DEF reportThreadMin
    <3>2. Min(send_min[w], taken[w].ts) <= send_min[w] /\ Min(send_min[w], taken[w].ts) \in Nat
      BY <1>0, MinIsLess
    <3>3. calculated'[w] /\ local_min'[w] = Min(send_min[w], taken[w].ts)
      BY <3>1 DEF TypeInv
    <3>4. send_min[w] <= t
      BY <2>1, <3>1 DEF Gives
    <3>5. local_min'[w] <= t
      BY <1>0, <3>2, <3>3, <3>4
    <3> QED
      BY <3>3, <3>5 DEF Gives
  <2>2. CASE ~ (flag[w] > 0 /\ ~ calculated[w])
    <3>1. wpc[w] # "reportSend" /\ UNCHANGED <<calculated, local_min, send_min>>
      BY <1>4, <2>2 DEF reportThreadMin, localVars
    <3> QED
      BY <1>1, <3>1
  <2> QED
    BY <2>1, <2>2
<1>5. CASE reportThreadSendMin(w)
  <2>1. /\ wpc[w] = "reportSend"
        /\ send_min' = IF local_gvt_flag[w[1]] > 0 /\ ~ calculated[w]
                       THEN [send_min EXCEPT ![w] = Min(@, toReport[w])] ELSE send_min
        /\ UNCHANGED <<calculated, local_min>>
    BY <1>5 DEF reportThreadSendMin
  <2>2. CASE calculated[w]
    BY <2>1, <2>2 DEF Gives
  <2>3. CASE ~ calculated[w]
    <3>1. w \in Silent(w[1])
      BY <2>3, OwnNode DEF Silent
    <3>2. local_gvt_flag[w[1]] > 0
      <4>1. PICK n \in Node : n = w[1]
        BY <1>0
      <4>2. Cardinality(Silent(n)) \in Nat /\ Cardinality(Silent(n)) # 0
        BY <3>1, <4>1, SilentFinite, FS_EmptySet
      <4>3. local_gvt_flag[n] = Cardinality(Silent(n))
        BY <4>1 DEF FlagInv, NodeInv
      <4> QED
        BY <4>1, <4>2, <4>3
    <3>3. send_min'[w] = Min(send_min[w], toReport[w])
      BY <2>1, <2>3, <3>2 DEF TypeInv
    <3>4. send_min'[w] <= send_min[w] /\ send_min'[w] <= toReport[w] /\ send_min'[w] \in Nat
      <4>1. /\ Min(send_min[w], toReport[w]) <= send_min[w]
            /\ Min(send_min[w], toReport[w]) <= toReport[w]
            /\ Min(send_min[w], toReport[w]) \in Nat
        BY <1>0, MinIsLess
      <4> QED
        BY <3>3, <4>1
    <3>5. send_min[w] <= t \/ toReport[w] <= t
      BY <2>3 DEF Gives
    <3>6. send_min'[w] <= t
      BY <1>0, <3>4, <3>5
    <3> QED
      BY <2>1, <2>3, <3>6 DEF Gives
  <2> QED
    BY <2>2, <2>3
<1> QED
  BY <1>2, <1>3, <1>4, <1>5 DEF WorkerStep

(* The other threads stay where they are.                                  *)
LEMMA OthersStay ==
    ASSUME TypeInv, NEW w \in Worker, WorkerStep(w), NEW v \in Worker, v # w
    PROVE  /\ wpc'[v] = wpc[v] /\ flag'[v] = flag[v] /\ taken'[v] = taken[v]
           /\ toReport'[v] = toReport[v] /\ calculated'[v] = calculated[v]
           /\ local_min'[v] = local_min[v] /\ send_min'[v] = send_min[v]
<1> USE DEF TypeInv
<1>1. CASE ReadFlag(w)
  BY <1>1 DEF ReadFlag, clientVars, localVars
<1>2. CASE GetEvent(w)
  BY <1>2 DEF GetEvent, Take, localVars
<1>3. CASE reportThreadMin(w)
  BY <1>3 DEF reportThreadMin, clientVars, localVars
<1>4. ASSUME NEW lp \in LP, NEW ts \in SendTimes, SendLocal(w, lp, ts)
      PROVE  /\ wpc'[v] = wpc[v] /\ flag'[v] = flag[v] /\ taken'[v] = taken[v]
             /\ toReport'[v] = toReport[v] /\ calculated'[v] = calculated[v]
             /\ local_min'[v] = local_min[v] /\ send_min'[v] = send_min[v]
  BY <1>4 DEF SendLocal, localVars
<1>5. ASSUME NEW lp \in LP, NEW ts \in SendTimes, SendRemote(w, lp, ts)
      PROVE  /\ wpc'[v] = wpc[v] /\ flag'[v] = flag[v] /\ taken'[v] = taken[v]
             /\ toReport'[v] = toReport[v] /\ calculated'[v] = calculated[v]
             /\ local_min'[v] = local_min[v] /\ send_min'[v] = send_min[v]
  BY <1>5 DEF SendRemote, localVars
<1>6. CASE reportThreadSendMin(w)
  BY <1>6 DEF reportThreadSendMin, clientVars
<1>7. CASE ReplenishScheduler(w)
  BY <1>7 DEF ReplenishScheduler, Replenish, localVars
<1> QED
  BY <1>1, <1>2, <1>3, <1>4, <1>5, <1>6, <1>7 DEF WorkerStep

LEMMA ToldStays ==
    ASSUME FlagInv, TypeInv, TypeInv', ClientInv, Steady, NEW w \in Worker, WorkerStep(w),
           UNCHANGED global_min_clock,
           NEW p \in Node, started_local_gvt[p], NEW t \in Nat, Told(p, t)
    PROVE  Told(p, t)'
<1>1. CASE HeldCovers(p, t)
  BY <1>1, HeldStays DEF Told
<1>2. CASE Known(p, t)
  <2>1. PICK v \in NodeWorkers(p) : Gives(v, t)
    BY <1>2 DEF Known
  <2>2. v \in Worker /\ v[1] = p
    BY NodeWorker
  <2>3. CASE v = w
    BY <2>1, <2>2, <2>3, GivesStays DEF Told, Known
  <2>4. CASE v # w
    <3>1. Gives(v, t)'
      BY <2>1, <2>2, <2>4, OthersStay DEF Gives
    <3> QED
      BY <2>1, <3>1 DEF Told, Known
  <2> QED
    BY <2>3, <2>4
<1> QED
  BY <1>1, <1>2 DEF Told

(* What is pending at a node that takes its minimum stays told.            *)
LEMMA ReportedWorker ==
    ASSUME QueuePerThread, FlagInv, TypeInv, TypeInv', ClientInv, Steady,
           UNCHANGED <<global_min_clock, started_local_gvt>>,
           NEW w \in Worker, WorkerStep(w), NEW p \in Node, Reported(p)
    PROVE  Reported(p)'
<1> SUFFICES ASSUME started_local_gvt[p], NEW lp \in LP, NodeOf[lp] = p,
                    NEW ts \in pending'[lp]
             PROVE  Heard(p, Owner(lp), ts)'
  BY DEF Reported
<1>1. PICK v \in Worker : v = Owner(lp) /\ v \in NodeWorkers(p) /\ v[1] = p
  BY OwnerIsWorker
<1>2. ts \in Nat
  BY DEF TypeInv
<1>3. ASSUME Told(p, ts) PROVE Heard(p, v, ts)'
  <2>1. Told(p, ts)'
    BY <1>2, <1>3, ToldStays
  <2> QED
    BY <2>1 DEF Heard
<1>4. ASSUME ts \in pending[lp] PROVE Heard(p, v, ts)
  BY <1>1, <1>4 DEF Reported
<1>5. ASSUME ts \in pending[lp], v # w PROVE Heard(p, v, ts)'
  <2>1. /\ wpc'[v] = wpc[v] /\ flag'[v] = flag[v] /\ taken'[v] = taken[v]
        /\ calculated'[v] = calculated[v]
    BY <1>5, OthersStay
  <2>2. Told(p, ts) => Told(p, ts)'
    BY <1>2, ToldStays
  <2> QED
    BY <1>4, <1>5, <2>1, <2>2 DEF Heard
<1>6. ASSUME ts \in pending[lp], v = w, calculated' = calculated,
             wpc'[w] # "report"
      PROVE  Heard(p, v, ts)'
  <2>1. Told(p, ts) => Told(p, ts)'
    BY <1>2, ToldStays
  <2> QED
    BY <1>4, <1>6, <2>1 DEF Heard
<1>7. CASE ReadFlag(w)
  <2>1. pending' = pending /\ calculated' = calculated /\ wpc' = [wpc EXCEPT ![w] = "getEvent"]
    BY <1>7 DEF ReadFlag, clientVars, localVars
  <2>2. wpc'[w] # "report"
    BY <2>1 DEF TypeInv
  <2> QED
    BY <1>1, <1>5, <1>6, <2>1, <2>2
<1>8. CASE GetEvent(w)
  <2>1. PICK event \in NextEvents(w) : taken' = [taken EXCEPT ![w] = event]
    BY <1>8 DEF GetEvent, Take
  <2>2. pending' = pending /\ calculated' = calculated /\ wpc[w] = "getEvent"
    BY <1>8 DEF GetEvent, localVars
  <2>3. CASE v = w
    <3>1. taken[w] = Nothing
      BY <2>2 DEF ClientInv, Holding
    <3>2. event.ts <= ts
      BY <1>1, <2>2, <2>3, <3>1, TakesLeast
    <3>3. taken'[w] = event
      BY <2>1 DEF TypeInv
    <3>4. Told(p, ts) => Told(p, ts)'
      BY <1>2, ToldStays
    <3>5. calculated[v] => Told(p, ts)
      BY <1>4, <2>2 DEF Heard
    <3>6. Heard(p, v, ts)'
      BY <2>2, <2>3, <3>2, <3>3, <3>4, <3>5 DEF Heard
    <3> QED
      BY <1>1, <3>6
  <2> QED
    BY <1>1, <1>5, <2>2, <2>3
<1>9. CASE reportThreadMin(w)
  <2>1. /\ wpc[w] = "report" /\ pending' = pending
        /\ wpc' = [wpc EXCEPT ![w] = IF taken[w] = Nothing THEN "top" ELSE "process"]
    BY <1>9 DEF reportThreadMin, clientVars
  <2>2. wpc'[w] # "report"
    BY <2>1 DEF TypeInv
  <2>3. CASE v = w /\ flag[w] > 0 /\ ~ calculated[w]
    <3>1. /\ local_min' = [local_min EXCEPT ![w] = Min(send_min[w], taken[w].ts)]
          /\ calculated' = [calculated EXCEPT ![w] = TRUE]
      BY <1>9, <2>3 DEF reportThreadMin
    <3>2. send_min[w] \in Nat /\ taken[w].ts \in Nat
      BY DEF TypeInv
    <3>3. Min(send_min[w], taken[w].ts) <= taken[w].ts /\ Min(send_min[w], taken[w].ts) \in Nat
      BY <3>2, MinIsLess
    <3>4. calculated'[w] /\ local_min'[w] = Min(send_min[w], taken[w].ts)
      BY <3>1 DEF TypeInv
    <3>5. taken[w].ts <= ts \/ Told(p, ts)
      BY <1>4, <2>1, <2>3 DEF Heard
    <3>6. CASE taken[w].ts <= ts
      <4>1. local_min'[w] <= ts
        BY <1>2, <3>2, <3>3, <3>4, <3>6
      <4>2. Gives(w, ts)'
        BY <3>4, <4>1 DEF Gives
      <4>3. Told(p, ts)'
        BY <1>1, <2>3, <4>2 DEF Told, Known
      <4> QED
        BY <1>1, <4>3 DEF Heard
    <3> QED
      BY <1>1, <1>3, <3>5, <3>6
  <2>4. CASE ~ (flag[w] > 0 /\ ~ calculated[w])
    <3>1. calculated' = calculated
      BY <1>9, <2>4 DEF reportThreadMin, localVars
    <3> QED
      BY <1>1, <1>5, <1>6, <2>1, <2>2, <3>1
  <2> QED
    BY <1>1, <1>5, <2>1, <2>3, <2>4
<1>10. ASSUME NEW l \in LP, NEW t \in SendTimes, SendLocal(w, l, t)
       PROVE  Heard(p, v, ts)'
  <2>1. /\ wpc[w] = "process" /\ wpc' = [wpc EXCEPT ![w] = "reportSend"]
        /\ toReport' = [toReport EXCEPT ![w] = t] /\ t > taken[w].ts
        /\ pending' = [pending EXCEPT ![l] = @ \cup {t}] /\ NodeOf[l] = w[1]
        /\ calculated' = calculated
    BY <1>10 DEF SendLocal, MayCause, Insert, localVars
  <2>2. wpc'[w] = "reportSend" /\ toReport'[w] = t
    BY <2>1 DEF TypeInv
  <2>3. CASE ts \in pending[lp]
    BY <1>5, <1>6, <2>1, <2>2, <2>3
  <2>4. CASE ts = t /\ lp = l
    <3>1. w[1] = p /\ w \in NodeWorkers(p)
      BY <2>1, <2>4, OwnNode
    <3>2. CASE ~ calculated[w]
      <4>1. ts <= ts
        BY <1>2
      <4>2. Gives(w, ts)'
        BY <2>1, <2>2, <2>4, <3>2, <4>1 DEF Gives
      <4>3. Told(p, ts)'
        BY <3>1, <4>2 DEF Told, Known
      <4> QED
        BY <4>3 DEF Heard
    <3>3. CASE calculated[w]
      <4>1. /\ taken[w].lp \in LP /\ Owner(taken[w].lp) = w
            /\ taken[w].ts \in pending[taken[w].lp]
        BY <2>1 DEF ClientInv, Holding
      <4>2. NodeOf[taken[w].lp] = p
        BY <3>1, <4>1 DEF Owner
      <4>3. Told(p, taken[w].ts)
        BY <3>3, <4>1, <4>2 DEF Reported, Heard
      <4>4. taken[w].ts \in Nat
        BY DEF TypeInv
      <4>5. taken[w].ts <= ts
        BY <1>2, <2>1, <2>4, <4>4
      <4>6. Told(p, ts)
        BY <1>2, <4>3, <4>4, <4>5, ToldLater
      <4> QED
        BY <1>3, <4>6
    <3> QED
      BY <3>2, <3>3
  <2>5. ts \in pending[lp] \/ (ts = t /\ lp = l)
    BY <2>1 DEF TypeInv
  <2> QED
    BY <2>3, <2>4, <2>5
<1>11. ASSUME NEW l \in LP, NEW t \in SendTimes, SendRemote(w, l, t)
       PROVE  Heard(p, v, ts)'
  <2>1. /\ wpc' = [wpc EXCEPT ![w] = "reportSend"]
        /\ pending' = pending /\ calculated' = calculated
    BY <1>11 DEF SendRemote, localVars
  <2>2. wpc'[w] # "report"
    BY <2>1 DEF TypeInv
  <2> QED
    BY <1>5, <1>6, <2>1, <2>2
<1>12. CASE reportThreadSendMin(w)
  <2>1. /\ wpc' = [wpc EXCEPT ![w] = "process"]
        /\ pending' = pending /\ calculated' = calculated
    BY <1>12 DEF reportThreadSendMin, clientVars
  <2>2. wpc'[w] # "report"
    BY <2>1 DEF TypeInv
  <2> QED
    BY <1>1, <1>5, <1>6, <2>1, <2>2
<1>13. CASE ReplenishScheduler(w)
  <2>1. /\ wpc' = [wpc EXCEPT ![w] = "top"] /\ calculated' = calculated
        /\ pending' = [pending EXCEPT ![taken[w].lp] = @ \ {taken[w].ts}]
    BY <1>13 DEF ReplenishScheduler, Replenish, localVars
  <2>2. wpc'[w] # "report"
    <3>1. DOMAIN wpc = Worker
      BY DEF TypeInv
    <3> QED
      BY <2>1, <3>1
  <2>3. ts \in pending[lp]
    <3>1. pending \in [LP -> SUBSET Nat]
      BY DEF TypeInv
    <3> QED
      BY <2>1, <3>1
  <2> QED
    BY <1>1, <1>5, <1>6, <2>1, <2>2, <2>3
<1> QED
  BY <1>1, <1>7, <1>8, <1>9, <1>10, <1>11, <1>12, <1>13 DEF WorkerStep

LEMMA CutWorker ==
    ASSUME QueuePerThread, FlagInv, TokenInv, TypeInv', ClientInv, CutInv,
           NEW w \in Worker, WorkerStep(w)
    PROVE  CutInv'
<1>1. /\ TypeInv /\ Steady
      /\ UNCHANGED <<global_min_clock, started_local_gvt, gvt_state, control>>
  BY SteadyWorker DEF TokenInv
<1>2. \A p \in Node : Toks(p)' = Toks(p)
  BY <1>1, SameLinks DEF TokenInv
<1> SUFFICES ASSUME NEW p \in Node, ~ Spoiled(p)'
             PROVE  /\ Holds(p)' => Behind(p, p, Clock(p), node[p].min_send)' /\ Reported(p)'
                    /\ \A t \in Toks(p)' : Behind(p + 1, p, t.m_clock, t.m_send)'
  BY DEF CutInv
<1>3. ASSUME Holds(p) \/ Toks(p) # {}
      PROVE  ~ Spoiled(p) /\ \A n \in Node : n <= p => IsRed(n)
  <2>1. \A n \in Node : n <= p => IsRed(n)
    BY <1>3 DEF TokenInv, Colors
  <2> QED
    BY <1>1, <2>1, StaysSpoiled
<1>4. ASSUME Holds(p) PROVE Behind(p, p, Clock(p), node[p].min_send)' /\ Reported(p)'
  <2>1. PICK c \in Nat, s \in Nat : c = Clock(p) /\ s = node[p].min_send
    BY <1>1, ClockIs
  <2>2. Behind(p, p, c, s) /\ Reported(p)
    BY <1>3, <1>4, <2>1 DEF CutInv
  <2>3. PICK r \in Nat : r = node'[p].min_send
    BY DEF TypeInv, NodeState
  <2>4. r <= s /\ r <= r
    BY <1>1, <2>1, <2>3 DEF Steady
  <2>5. p \in {p, p + 1} /\ (p = p => r <= node'[p].min_send)
    BY <2>3, <2>4
  <2>6. Behind(p, p, c, r)'
    BY <1>3, <1>4, <2>2, <2>4, <2>5, BehindWorker
  <2>7. Clock(p)' = c
    BY <1>1, <2>1 DEF Clock
  <2>8. Reported(p)'
    BY <1>1, <2>2, ReportedWorker
  <2> QED
    BY <2>3, <2>6, <2>7, <2>8
<1>5. ASSUME NEW t \in Toks(p) PROVE Behind(p + 1, p, t.m_clock, t.m_send)'
  <2>1. t \in Tokens
    BY InLinks DEF TokenInv
  <2>2. PICK c \in Nat, s \in Nat : c = t.m_clock /\ s = t.m_send
    BY <2>1 DEF Tokens
  <2>3. Behind(p + 1, p, c, s)
    BY <1>3, <1>5, <2>2 DEF CutInv
  <2>4. p + 1 \in {p, p + 1} /\ (p + 1 = p => s <= node'[p].min_send) /\ s <= s
    <3>1. p \in Nat
      BY Sizes
    <3>2. p + 1 # p
      BY <3>1
    <3> QED
      BY <3>2
  <2>5. Behind(p + 1, p, c, s)'
    BY <1>3, <1>5, <2>3, <2>4, BehindWorker
  <2> QED
    BY <2>2, <2>5
<1>6. Holds(p)' <=> Holds(p)
  BY <1>1 DEF Holds
<1> QED
  BY <1>2, <1>4, <1>5, <1>6

LEMMA CutReceive ==
    ASSUME QueuePerThread, TokenInv, TypeInv', CountInv, CutInv, NEW m \in transit, ReceiveEvent(m)
    PROVE  CutInv'
<1>1. /\ TypeInv /\ Steady
      /\ UNCHANGED <<global_min_clock, started_local_gvt, gvt_state, control, wpc, flag, taken,
                     toReport, calculated, local_min, send_min>>
      /\ pending' = [pending EXCEPT ![m.lp] = @ \cup {m.ts}]
  BY SteadyReceive DEF TokenInv, ReceiveEvent, workerVars, localVars, Insert
<1>2. \A p \in Node : Toks(p)' = Toks(p)
  BY <1>1, SameLinks DEF TokenInv
<1> SUFFICES ASSUME NEW p \in Node, ~ Spoiled(p)'
             PROVE  /\ Holds(p)' => Behind(p, p, Clock(p), node[p].min_send)' /\ Reported(p)'
                    /\ \A t \in Toks(p)' : Behind(p + 1, p, t.m_clock, t.m_send)'
  BY DEF CutInv
<1>3. ASSUME Holds(p) \/ Toks(p) # {}
      PROVE  ~ Spoiled(p) /\ \A n \in Node : n <= p => IsRed(n)
  <2>1. \A n \in Node : n <= p => IsRed(n)
    BY <1>3 DEF TokenInv, Colors
  <2> QED
    BY <1>1, <2>1, StaysSpoiled
<1>4. ASSUME Holds(p) PROVE Behind(p, p, Clock(p), node[p].min_send)' /\ Reported(p)'
  <2>0. m.lp \in LP /\ m.ts \in Nat /\ NodesReceive(NodeOf[m.lp], m)
    BY Received
  <2>1. PICK c \in Nat, s \in Nat : c = Clock(p) /\ s = node[p].min_send
    BY <1>1, ClockIs
  <2>2. Behind(p, p, c, s) /\ Reported(p)
    BY <1>3, <1>4, <2>1 DEF CutInv
  <2>3. node'[p].min_send = s
    BY <2>0, <2>1 DEF NodesReceive
  <2>4. p \in {p, p + 1}
    OBVIOUS
  <2>5. Behind(p, p, c, s)'
    BY <1>3, <1>4, <2>2, <2>4, BehindReceive
  <2>6. Clock(p)' = c
    BY <1>1, <2>1 DEF Clock
  <2>7. ASSUME NEW t \in Nat, Told(p, t) PROVE Told(p, t)'
    <3>1. CASE HeldCovers(p, t)
      BY <1>1, <3>1, HeldStays DEF Told
    <3>2. CASE Known(p, t)
      <4>1. PICK v \in NodeWorkers(p) : Gives(v, t)
        BY <3>2 DEF Known
      <4>2. Gives(v, t)'
        BY <1>1, <4>1 DEF Gives
      <4> QED
        BY <4>1, <4>2 DEF Told, Known
    <3> QED
      BY <2>7, <3>1, <3>2 DEF Told
  <2>8. ASSUME NodeOf[m.lp] = p PROVE Told(p, m.ts)'
    <3>1. p <= p /\ IsRed(p)
      BY <1>3, <1>4, Sizes
    <3>2. m.color = node[0].color
      <4>1. CASE NumNodes > 1
        <5>1. node'[p].count[White'] = 0
          BY <3>1, <4>1 DEF Spoiled
        <5>2. node'[p].count[White] = 0
          BY <1>1, <5>1 DEF Steady
        <5> QED
          BY <2>0, <2>8, <3>1, <5>2 DEF NodesReceive
      <4>2. CASE ~ NumNodes > 1
        BY <4>2, Sizes DEF CountInv
      <4> QED
        BY <4>1, <4>2
    <3>3. HeldCovers(p, m.ts)
      BY <2>1, <2>2, <3>2 DEF Behind, HeldCovers
    <3>4. PICK t \in Nat : t = m.ts
      BY <2>0
    <3>5. HeldCovers(p, t)'
      BY <1>1, <3>3, <3>4, HeldStays
    <3> QED
      BY <3>4, <3>5 DEF Told
  <2>9. ASSUME started_local_gvt[p], NEW lp \in LP, NodeOf[lp] = p, NEW t \in pending'[lp]
        PROVE  Heard(p, Owner(lp), t)'
    <3>1. PICK v \in Worker : v = Owner(lp)
      BY OwnerIsWorker
    <3>2. t \in pending[lp] \/ (t = m.ts /\ lp = m.lp)
      BY <1>1, <2>0 DEF TypeInv
    <3>3. CASE t \in pending[lp]
      <4>1. Heard(p, v, t)
        BY <2>2, <2>9, <3>1, <3>3 DEF Reported
      <4>2. t \in Nat
        BY DEF TypeInv
      <4>3. Told(p, t) => Told(p, t)'
        BY <2>7, <4>2
      <4>4. Heard(p, v, t)'
        BY <1>1, <4>1, <4>3 DEF Heard
      <4> QED
        BY <3>1, <4>4
    <3>4. CASE t = m.ts /\ lp = m.lp
      <4>1. Told(p, t)'
        BY <2>8, <2>9, <3>4
      <4>2. Heard(p, v, t)'
        BY <4>1 DEF Heard
      <4> QED
        BY <3>1, <4>2
    <3> QED
      BY <3>2, <3>3, <3>4
  <2>10. Reported(p)'
    BY <1>1, <2>9 DEF Reported
  <2> QED
    BY <2>3, <2>5, <2>6, <2>10
<1>5. ASSUME NEW t \in Toks(p) PROVE Behind(p + 1, p, t.m_clock, t.m_send)'
  <2>1. t \in Tokens
    BY InLinks DEF TokenInv
  <2>2. PICK c \in Nat, s \in Nat : c = t.m_clock /\ s = t.m_send
    BY <2>1 DEF Tokens
  <2>3. Behind(p + 1, p, c, s)
    BY <1>3, <1>5, <2>2 DEF CutInv
  <2>4. p + 1 \in {p, p + 1}
    OBVIOUS
  <2>5. Behind(p + 1, p, c, s)'
    BY <1>3, <1>5, <2>3, <2>4, BehindReceive
  <2> QED
    BY <2>2, <2>5
<1>6. Holds(p)' <=> Holds(p)
  BY <1>1 DEF Holds
<1> QED
  BY <1>2, <1>4, <1>5, <1>6

(* The master's steps that neither take the token nor send it.             *)
LEMMA CutKept ==
    ASSUME TypeInv, TypeInv', Links, Colors, CutInv, Steady, UNCHANGED <<pending, transit>>,
           \A p \in Node : Toks(p)' \subseteq Toks(p),
           \A p \in Node : Holds(p)' /\ ~ Spoiled(p)' => Reported(p)',
           \A p \in Node : Holds(p)' =>
               \/ NumNodes = 1 /\ transit = {}
               \/ Holds(p) /\ Clock(p)' = Clock(p) /\ node'[p].min_send = node[p].min_send
    PROVE  CutInv'
<1> SUFFICES ASSUME NEW p \in Node, ~ Spoiled(p)'
             PROVE  /\ Holds(p)' => Behind(p, p, Clock(p), node[p].min_send)' /\ Reported(p)'
                    /\ \A t \in Toks(p)' : Behind(p + 1, p, t.m_clock, t.m_send)'
  BY DEF CutInv
<1>1. ASSUME Holds(p) \/ Toks(p) # {}
      PROVE  ~ Spoiled(p)
  <2>1. \A n \in Node : n <= p => IsRed(n)
    BY <1>1 DEF Colors
  <2> QED
    BY <2>1, StaysSpoiled
<1>2. ASSUME NEW q \in Nat, NEW c \in Nat, NEW s \in Nat, Behind(q, p, c, s)
      PROVE  Behind(q, p, c, s)'
  BY <1>2, BehindStep
<1>3. ASSUME Holds(p)' PROVE Behind(p, p, Clock(p), node[p].min_send)'
  <2>1. CASE NumNodes = 1 /\ transit = {}
    <3>1. p = 0
      BY <2>1 DEF Node
    <3>2. \A lp \in LP : NodeOf[lp] \in Nat
      BY Sizes
    <3> QED
      BY <2>1, <3>1, <3>2 DEF Behind
  <2>2. CASE Holds(p) /\ Clock(p)' = Clock(p) /\ node'[p].min_send = node[p].min_send
    <3>1. PICK c \in Nat, s \in Nat : c = Clock(p) /\ s = node[p].min_send
      BY ClockIs
    <3>2. Behind(p, p, c, s)
      BY <1>1, <2>2, <3>1 DEF CutInv
    <3>3. p \in Nat
      BY Sizes
    <3>4. Behind(p, p, c, s)'
      BY <1>2, <3>2, <3>3
    <3> QED
      BY <2>2, <3>1, <3>4
  <2> QED
    BY <1>3, <2>1, <2>2
<1>4. ASSUME NEW t \in Toks(p)' PROVE Behind(p + 1, p, t.m_clock, t.m_send)'
  <2>1. t \in Toks(p) /\ t \in Tokens
    BY InLinks
  <2>2. PICK c \in Nat, s \in Nat : c = t.m_clock /\ s = t.m_send
    BY <2>1 DEF Tokens
  <2>3. Behind(p + 1, p, c, s)
    BY <1>1, <2>1, <2>2 DEF CutInv
  <2>4. p + 1 \in Nat
    BY Sizes
  <2>5. Behind(p + 1, p, c, s)'
    BY <1>2, <2>3, <2>4
  <2> QED
    BY <2>2, <2>5
<1> QED
  BY <1>3, <1>4

LEMMA CutStart ==
    ASSUME TokenInv, TypeInv', CutInv, Noted, BeginLocal(0), ~ started_global_gvt
    PROVE  CutInv'
<1>1. TokenInv'
  BY TokenStart
<1>2. Holds(0)' /\ transit' = transit /\ ~ started_local_gvt'[0]
  BY Sizes DEF BeginLocal, Holds, clientVars, TokenInv, TypeInv
<1>3. \A p \in Node : Toks(p)' = {} /\ (Holds(p)' => p = 0)
  BY <1>1, <1>2, Sizes DEF TokenInv, Ring
<1>4. node'[0].color # node[0].color
  BY NodeAtStart, Fields, Sizes, OthersColor DEF TokenInv, Becomes
<1>5. \A m \in transit' : m.color # node'[0].color
  BY <1>2, <1>4 DEF Noted
<1>6. \A lp \in LP : ~ (NodeOf[lp] < 0)
  BY Sizes DEF Node
<1>7. Behind(0, 0, Clock(0), node[0].min_send)' /\ Reported(0)'
  BY <1>2, <1>5, <1>6 DEF Behind, Reported
<1> QED
  BY <1>3, <1>7 DEF CutInv

LEMMA CutBegin ==
    ASSUME TokenInv, TypeInv', CountInv, CutInv, NEW n \in Node, BeginLocal(n),
           n # 0 \/ started_global_gvt
    PROVE  CutInv'
<1>1. /\ TokenInv'
      /\ Holds(n) \/ (NumNodes = 1 /\ gvt_state[0] = "IDLE" /\ n = 0)
  BY TokenBegin
<1>2. UNCHANGED <<pending, transit, node, started_global_gvt, started_local_gvt, control,
                  global_min_clock>>
  BY DEF BeginLocal, clientVars
<1>3. Steady
  BY <1>2, NoNodeChanges DEF TokenInv
<1>4. Holds(n)' /\ ~ started_local_gvt'[n]
  BY <1>2 DEF BeginLocal, Holds, TokenInv, TypeInv
<1>5. \A p \in Node : Toks(p)' = {} /\ (Holds(p)' => p = n)
  BY <1>1, <1>4 DEF TokenInv, Ring
<1>6. Reported(n)'
  BY <1>4 DEF Reported
<1>7. Clock(n)' = Clock(n)
  BY <1>2 DEF Clock
<1>8. \/ NumNodes = 1 /\ transit = {}
      \/ Holds(n) /\ Clock(n)' = Clock(n) /\ node'[n].min_send = node[n].min_send
  BY <1>1, <1>2, <1>7 DEF CountInv
<1> QED
  BY <1>2, <1>3, <1>5, <1>6, <1>8, CutKept DEF TokenInv

(* Nobody has reported or is about to when the flag goes up.               *)
LEMMA CutStore ==
    ASSUME FlagInv, TokenInv, TypeInv', CutInv, NEW n \in Node, StoreFlag(n), QueuePerThread
    PROVE  CutInv'
<1>1. TokenInv' /\ Holds(n)
  BY TokenStore
<1>2. UNCHANGED <<pending, transit, node, started_global_gvt, control, global_min_clock,
                  gvt_state, calculated, wpc, flag>>
  BY DEF StoreFlag, clientVars, workerVars
<1>3. Steady
  BY <1>2, NoNodeChanges DEF TokenInv
<1>4. \A p \in Node : Toks(p)' = Toks(p) /\ (Holds(p)' => p = n)
  BY <1>1, <1>2, SameLinks DEF TokenInv, Ring, Holds
<1>5. \A w \in NodeWorkers(n) : ~ calculated[w] /\ ~ About(w)
  <2>1. NodeInv(n) /\ mpc[n] = "store"
    BY DEF FlagInv, StoreFlag
  <2>2. ~ started_local_gvt[n]
    BY <2>1 DEF NodeInv
  <2> QED
    BY <2>1, <2>2 DEF NodeInv
<1>6. ASSUME NEW lp \in LP, NodeOf[lp] = n, NEW ts \in pending'[lp]
      PROVE  Heard(n, Owner(lp), ts)'
  <2>1. PICK v \in NodeWorkers(n) : v = Owner(lp)
    BY <1>6, OwnerIsWorker
  <2>2. ~ calculated'[v] /\ ~ (wpc'[v] = "report" /\ flag'[v] > 0)
    BY <1>2, <1>5, <2>1 DEF About
  <2>3. Heard(n, v, ts)'
    BY <2>2 DEF Heard
  <2> QED
    BY <2>1, <2>3
<1>7. Reported(n)'
  BY <1>6 DEF Reported
<1>8. Clock(n)' = Clock(n)
  BY <1>2 DEF Clock
<1> QED
  BY <1>1, <1>2, <1>3, <1>4, <1>7, <1>8, CutKept DEF TokenInv

LEMMA CutUpdate ==
    ASSUME TokenInv, TypeInv', CutInv, NEW n \in Node, receiveGVTUpdate(n)
    PROVE  CutInv'
<1>1. /\ TokenInv' /\ ~ Holds(n)
      /\ \A m \in Node : Toks(m)' = Toks(m) /\ Holds(m)' = Holds(m) /\ IsRed(m)' = IsRed(m)
  BY TokenUpdate
<1>2. /\ \A k \in Node : /\ node'[k].count = node[k].count
                         /\ node'[k].min_send = node[k].min_send
      /\ White' = White /\ node'[0].color = node[0].color
  BY UpdateKeepsNode
<1>3. /\ UNCHANGED <<pending, transit, started_global_gvt, started_local_gvt, calculated,
                     local_min, send_min, wpc, flag, taken, toReport>>
      /\ \A p \in Node \ {n} : global_min_clock'[p] = global_min_clock[p]
  BY DEF receiveGVTUpdate, clientVars, workerVars, localVars, TokenInv, TypeInv
<1>4. Steady
  <2>1. \A k \in Node : node[k].min_send \in Nat
    BY Fields DEF TokenInv
  <2> QED
    BY <1>1, <1>2, <1>3, <2>1 DEF Steady
<1>5. \A p \in Node : Holds(p)' => p # n /\ Holds(p) /\ Clock(p)' = Clock(p)
  BY <1>1, <1>3 DEF Clock
<1>6. ASSUME NEW p \in Node, Holds(p)', ~ Spoiled(p)' PROVE Reported(p)'
  <2>1. p # n /\ Holds(p) /\ global_min_clock'[p] = global_min_clock[p]
    BY <1>3, <1>5, <1>6
  <2>2. \A k \in Node : k <= p => IsRed(k)
    BY <2>1 DEF TokenInv, Colors
  <2>3. ~ Spoiled(p)
    BY <1>4, <1>6, <2>2, StaysSpoiled
  <2>4. Reported(p)
    BY <2>1, <2>3 DEF CutInv
  <2>5. ASSUME NEW t \in Nat, Told(p, t) PROVE Told(p, t)'
    <3>1. CASE HeldCovers(p, t)
      BY <1>4, <2>1, <3>1, HeldStays DEF Told, TokenInv
    <3>2. CASE Known(p, t)
      BY <1>3, <3>2 DEF Told, Known, Gives
    <3> QED
      BY <2>5, <3>1, <3>2 DEF Told
  <2>6. ASSUME started_local_gvt[p], NEW lp \in LP, NodeOf[lp] = p, NEW t \in pending[lp]
        PROVE  Heard(p, Owner(lp), t)'
    <3>1. Heard(p, Owner(lp), t) /\ t \in Nat
      BY <2>4, <2>6 DEF Reported, TokenInv, TypeInv
    <3>2. Told(p, t) => Told(p, t)'
      BY <2>5, <3>1
    <3> QED
      BY <1>3, <3>1, <3>2 DEF Heard, Owner
  <2> QED
    BY <1>3, <2>6 DEF Reported
<1> QED
  BY <1>1, <1>2, <1>3, <1>4, <1>5, <1>6, CutKept DEF TokenInv

(* All workers of the node have reported.                                  *)
LEMMA AllReported ==
    ASSUME QueuePerThread, FlagInv, TokenInv, CutInv, NEW n \in Node, FinishLocal(n),
           ~ Spoiled(n),
           NEW lp \in LP, NodeOf[lp] = n, NEW ts \in pending[lp]
    PROVE  ts \in Nat /\ (LocalMinimum(n) <= ts \/ HeldCovers(n, ts))
<1>1. started_local_gvt[n] /\ local_gvt_flag[n] = 0 /\ Holds(n)
  BY DEF FinishLocal, Holds
<1>2. Silent(n) = {}
  BY <1>1, SilentFinite, FS_EmptySet DEF FlagInv, NodeInv, Silent
<1>3. Heard(n, Owner(lp), ts)
  BY <1>1 DEF CutInv, Reported
<1>4. \A v \in NodeWorkers(n) : calculated[v]
  BY <1>2 DEF Silent
<1>5. Told(n, ts)
  <2>1. PICK v \in NodeWorkers(n) : v = Owner(lp)
    BY OwnerIsWorker
  <2>2. Heard(n, v, ts) /\ calculated[v]
    BY <1>3, <1>4, <2>1
  <2> QED
    BY <2>2 DEF Heard
<1>6. ts \in Nat
  BY DEF TokenInv, TypeInv
<1>7. CASE Known(n, ts)
  <2>1. PICK v \in NodeWorkers(n) : Gives(v, ts)
    BY <1>7 DEF Known
  <2>2. local_min[v] <= ts
    BY <1>4, <2>1 DEF Gives
  <2>3. LocalMinimum(n) \in Nat /\ LocalMinimum(n) <= local_min[v]
    BY LocalMinimumIsLess DEF TokenInv
  <2>4. local_min[v] \in Nat
    BY DEF NodeWorkers, TokenInv, TypeInv
  <2> QED
    BY <1>6, <2>2, <2>3, <2>4
<1> QED
  BY <1>5, <1>6, <1>7 DEF Told

LEMMA CutFinish ==
    ASSUME QueuePerThread, FlagInv, TokenInv, TypeInv', CutInv, NEW n \in Node, FinishLocal(n)
    PROVE  CutInv'
<1>1. /\ TokenInv' /\ Holds(n) /\ ~ Holds(n)'
      /\ NumNodes > 1 => Toks(n)' = {Passes(n)} /\ \A m \in Node \ {n} : Toks(m)' = {}
      /\ ~ NumNodes > 1 => \A m \in Node : Toks(m)' = {}
  BY TokenFinish
<1>2. UNCHANGED <<pending, transit, node, started_global_gvt>>
  BY DEF FinishLocal, clientVars
<1>3. Steady
  BY <1>2, NoNodeChanges DEF TokenInv
<1>4. \A p \in Node : ~ Holds(p)'
  <2>1. \A p \in Node \ {n} : ~ Holds(p) /\ gvt_state'[p] = gvt_state[p]
    BY <1>1 DEF TokenInv, Ring, TypeInv, FinishLocal
  <2> QED
    BY <1>1, <2>1 DEF Holds
<1>5. ASSUME NumNodes > 1, ~ Spoiled(n)', NEW t, t = Passes(n)
      PROVE  Behind(n + 1, n, t.m_clock, t.m_send)'
  <2>1. \A m \in Node : m <= n => IsRed(m)
    BY <1>1 DEF TokenInv, Colors
  <2>2. ~ Spoiled(n)
    BY <1>3, <1>5, <2>1, StaysSpoiled
  <2>3. PICK c \in Nat, s \in Nat : c = Clock(n) /\ s = node[n].min_send
    BY ClockIs DEF TokenInv
  <2>4. Behind(n, n, c, s)
    BY <1>1, <2>2, <2>3 DEF CutInv
  <2>5. t \in Tokens /\ t.m_clock <= Clock(n)
        /\ t.m_clock <= LocalMinimum(n) /\ t.m_send = node[n].min_send
    BY <1>5, PassesToken DEF Clock, Passes, TokenInv
  <2>6. PICK d \in Nat : d = t.m_clock
    BY <2>5 DEF Tokens
  <2>7. ASSUME NEW ts \in Nat, Covered(n, c, s, ts) PROVE Covered(n, d, s, ts)
    BY <2>3, <2>5, <2>6, <2>7 DEF Covered
  <2>8. ASSUME NEW lp \in LP, NodeOf[lp] < n + 1, NEW ts \in pending[lp]
        PROVE  Covered(n, d, s, ts)
    <3>1. NodeOf[lp] = n \/ NodeOf[lp] < n
      <4>1. NodeOf[lp] \in Nat /\ n \in Nat
        BY Sizes
      <4> QED
        BY <2>8, <4>1
    <3>2. CASE NodeOf[lp] = n
      <4>1. ts \in Nat /\ (LocalMinimum(n) <= ts \/ HeldCovers(n, ts))
        BY <2>2, <3>2, AllReported
      <4>2. LocalMinimum(n) \in Nat
        BY LocalMinimumIsLess DEF TokenInv
      <4>3. CASE LocalMinimum(n) <= ts
        <5>1. d <= ts
          BY <2>5, <2>6, <4>1, <4>2, <4>3
        <5> QED
          BY <1>5, <5>1 DEF Covered
      <4>4. CASE HeldCovers(n, ts)
        BY <2>3, <2>7, <4>1, <4>4 DEF HeldCovers
      <4> QED
        BY <4>1, <4>3, <4>4
    <3>3. CASE NodeOf[lp] < n
      <4>1. ts \in Nat
        BY DEF TokenInv, TypeInv
      <4> QED
        BY <2>4, <2>7, <3>3, <4>1 DEF Behind
    <3> QED
      BY <3>1, <3>2, <3>3
  <2>9. ASSUME NEW m \in transit, m.color = node[0].color PROVE Covered(n, d, s, m.ts)
    <3>1. m.ts \in Nat
      BY DEF TokenInv, TypeInv, Messages
    <3> QED
      BY <2>4, <2>7, <2>9, <3>1 DEF Behind
  <2>10. Behind(n + 1, n, d, s)
    BY <2>8, <2>9 DEF Behind
  <2>11. n + 1 \in Nat
    BY Sizes
  <2>12. Behind(n + 1, n, d, s)'
    BY <1>2, <1>3, <2>10, <2>11, BehindStep DEF TokenInv
  <2> QED
    BY <2>3, <2>5, <2>6, <2>12
<1> SUFFICES ASSUME NEW p \in Node, ~ Spoiled(p)', NEW t \in Toks(p)'
             PROVE  Behind(p + 1, p, t.m_clock, t.m_send)'
  BY <1>4 DEF CutInv
<1>6. NumNodes > 1 /\ p = n /\ t = Passes(n)
  BY <1>1
<1> QED
  BY <1>5, <1>6

(* A node takes the token.                                                 *)
LEMMA CutNode ==
    ASSUME InOrder, TokenInv, TypeInv', CutInv, NEW n \in Node, NEW from \in Node,
           NodeReceivesToken(n, from)
    PROVE  CutInv'
<1>1. PICK t : t = Head(control[<<from, n>>])
  OBVIOUS
<1>2. /\ TokenInv' /\ NumNodes > 1 /\ n = from + 1 /\ started_global_gvt
      /\ t \in Tokens /\ Toks(from) = {t}
      /\ \A m \in Node : /\ Toks(m)' = {} /\ ~ Holds(m)
                         /\ Holds(m)' <=> m = n
                         /\ IsRed(m)' <=> IsRed(m) \/ m = n
  BY <1>1, TokenNode
<1>3. NodesTake(n, t)
  BY <1>1, TakenAtNode
<1>4. UNCHANGED <<pending, transit, started_local_gvt>> /\ n # 0
      /\ global_min_clock'[n] = Min(global_min_clock[n], t.m_clock)
  BY <1>1 DEF NodeReceivesToken, clientVars, TokenInv, TypeInv
<1>5. ~ started_local_gvt'[n]
  BY <1>2, <1>4 DEF TokenInv, Ring
<1> SUFFICES ASSUME ~ Spoiled(n)'
             PROVE  Behind(n, n, Clock(n), node[n].min_send)'
  BY <1>2, <1>5 DEF CutInv, Reported
<1>6. ~ Spoiled(from)
  <2>1. \A k \in Node : k <= from => k <= n /\ k # n
    BY <1>2, Sizes
  <2> QED
    BY <1>2, <1>3, <2>1 DEF Spoiled, NodesTake
<1>7. PICK c \in Nat, s \in Nat : c = t.m_clock /\ s = t.m_send
  BY <1>2 DEF Tokens
<1>8. Behind(n, from, c, s)
  <2>1. Behind(from + 1, from, t.m_clock, t.m_send)
    BY <1>2, <1>6 DEF CutInv
  <2> QED
    BY <1>2, <1>7, <2>1
<1>9. PICK d \in Nat, r \in Nat : d = Clock(n)' /\ r = node'[n].min_send
  BY <1>4 DEF Clock, TypeInv, NodeState
<1>10. d <= c /\ r <= s
  <2>1. global_min_clock[n] \in Nat
    BY DEF TokenInv, TypeInv
  <2>2. d = Min(global_min_clock[n], c)
    BY <1>4, <1>7, <1>9 DEF Clock
  <2> QED
    BY <1>3, <1>7, <1>9, <2>1, <2>2, MinIsLess DEF NodesTake
<1>11. ASSUME NEW ts \in Nat, Covered(from, c, s, ts) PROVE Covered(n, d, r, ts)'
  <2>1. CASE c <= ts \/ s <= ts
    BY <1>2, <1>10, <2>1 DEF Covered
  <2>2. CASE Ahead(from, ts)
    <3>1. PICK u \in Node : u > from /\ IsRed(u) /\ node[u].min_send <= ts
      BY <2>2 DEF Ahead
    <3>2. node[u].min_send \in Nat
      BY Fields DEF TokenInv
    <3>3. CASE u = n
      <4>1. r <= node[n].min_send
        BY <1>3, <1>9, <3>1, <3>3 DEF NodesTake
      <4>2. r <= ts
        BY <3>1, <3>2, <3>3, <4>1
      <4> QED
        BY <1>2, <4>2 DEF Covered
    <3>4. CASE u # n
      <4>1. u > n
        BY <1>2, <3>1, <3>4, Sizes
      <4>2. IsRed(u)' /\ node'[u].min_send <= ts
        BY <1>2, <1>3, <3>1, <3>4 DEF NodesTake
      <4>3. Ahead(n, ts)'
        BY <4>1, <4>2 DEF Ahead
      <4> QED
        BY <1>2, <4>3 DEF Covered
    <3> QED
      BY <3>3, <3>4
  <2> QED
    BY <1>11, <2>1, <2>2 DEF Covered
<1>12. ASSUME NEW lp \in LP, NodeOf[lp] < n, NEW ts \in pending'[lp]
       PROVE  Covered(n, d, r, ts)'
  <2>1. ts \in Nat /\ ts \in pending[lp]
    BY <1>4 DEF TokenInv, TypeInv
  <2> QED
    BY <1>8, <1>11, <1>12, <2>1 DEF Behind
<1>13. ASSUME NEW m \in transit', m.color = node'[0].color PROVE Covered(n, d, r, m.ts)'
  <2>1. m \in transit /\ m.ts \in Nat /\ m.color = node[0].color
    BY <1>3, <1>4, <1>13 DEF TokenInv, TypeInv, Messages, NodesTake
  <2> QED
    BY <1>8, <1>11, <2>1 DEF Behind
<1>14. Behind(n, n, d, r)'
  BY <1>12, <1>13 DEF Behind
<1> QED
  BY <1>9, <1>14

(* The initiator takes it for another round: what the nodes have sent in   *)
(* the new color they have noted.                                          *)
LEMMA CutAround ==
    ASSUME TokenInv, TypeInv', CutInv, Noted, NEW from \in Node, InitiatorReceivesToken(from),
           ~ (Head(control[<<from, 0>>]).count <= 0)
    PROVE  CutInv'
<1>1. /\ TokenInv' /\ started_global_gvt'
      /\ \A m \in Node : Toks(m)' = {} /\ IsRed(m)' /\ (Holds(m)' <=> m = 0)
  BY TokenAround
<1>2. /\ NumNodes > 1 /\ started_global_gvt
      /\ \A m \in Node : IsRed(m) /\ ~ Holds(m)
  BY TokenIsBack
<1>3. NodesTake(0, Head(control[<<from, 0>>])) /\ IsRed(0)
  BY TakenAgain
<1>4. UNCHANGED <<pending, transit, started_local_gvt>>
  BY DEF InitiatorReceivesToken, clientVars
<1>5. ~ started_local_gvt'[0]
  BY <1>2, <1>4, Sizes DEF TokenInv, Ring
<1>6. Clock(0)' = Infinity
  BY DEF Clock
<1>7. PICK r \in Nat : r = node'[0].min_send
  BY Sizes DEF TypeInv, NodeState
<1>8. ASSUME NEW m \in transit', m.color = node'[0].color PROVE Covered(0, Infinity, r, m.ts)'
  <2>1. m \in transit /\ m.color = node[0].color /\ m.ts \in Nat
    BY <1>3, <1>4, <1>8 DEF NodesTake, TokenInv, TypeInv, Messages
  <2>2. PICK u \in Node : IsRed(u) /\ node[u].min_send <= m.ts
    BY <1>2, <2>1 DEF Noted
  <2>3. node[u].min_send \in Nat
    BY Fields DEF TokenInv
  <2>4. CASE u = 0
    <3>1. r <= node[0].min_send
      BY <1>3, <1>7 DEF NodesTake
    <3>2. r <= m.ts
      BY <2>1, <2>2, <2>3, <2>4, <3>1
    <3> QED
      BY <1>2, <3>2 DEF Covered
  <2>5. CASE u # 0
    <3>1. u > 0
      BY <2>5, Sizes
    <3>2. IsRed(u)' /\ node'[u].min_send <= m.ts
      BY <1>1, <1>3, <2>2, <2>5 DEF NodesTake
    <3>3. Ahead(0, m.ts)'
      BY <3>1, <3>2 DEF Ahead
    <3> QED
      BY <1>2, <3>3 DEF Covered
  <2> QED
    BY <2>4, <2>5
<1>9. \A lp \in LP : NodeOf[lp] \in Nat
  BY Sizes
<1>10. Behind(0, 0, Infinity, r)'
  BY <1>8, <1>9 DEF Behind
<1>11. Behind(0, 0, Clock(0), node[0].min_send)' /\ Reported(0)'
  BY <1>5, <1>6, <1>7, <1>10 DEF Reported
<1> QED
  BY <1>1, <1>11 DEF CutInv

LEMMA CutEnds ==
    ASSUME TokenInv, TypeInv', NEW from \in Node, InitiatorReceivesToken(from),
           Head(control[<<from, 0>>]).count <= 0
    PROVE  CutInv'
<1>1. \A m \in Node : Toks(m)' = {} /\ ~ Holds(m)'
  BY TokenEnds
<1> QED
  BY <1>1 DEF CutInv

LEMMA CutInit ==
    ASSUME Init PROVE CutInv
<1>1. TokenInv /\ ~ started_global_gvt
  BY TokenInit DEF Init
<1>2. \A p \in Node : Toks(p) = {} /\ ~ Holds(p)
  BY <1>1 DEF TokenInv, Ring
<1> QED
  BY <1>2 DEF CutInv

LEMMA CutNext ==
    ASSUME QueuePerThread, InOrder, FlagInv, TokenInv, CountInv, ClientInv, Noted, CutInv,
           [Next]_vars
    PROVE  CutInv'
<1>0. TypeInv' /\ TypeInv
  BY TypesNext DEF TokenInv
<1>1. ASSUME NEW w \in Worker, WorkerStep(w) PROVE CutInv'
  BY <1>0, <1>1, CutWorker
<1>2. ASSUME NEW n \in Node, BeginLocal(n) PROVE CutInv'
  <2>1. CASE n = 0 /\ ~ started_global_gvt
    BY <1>0, <1>2, <2>1, CutStart
  <2>2. CASE n # 0 \/ started_global_gvt
    BY <1>0, <1>2, <2>2, CutBegin
  <2> QED
    BY <1>0, <2>1, <2>2 DEF TypeInv
<1>3. ASSUME NEW n \in Node, StoreFlag(n) PROVE CutInv'
  BY <1>0, <1>3, CutStore
<1>4. ASSUME NEW n \in Node, FinishLocal(n) PROVE CutInv'
  BY <1>0, <1>4, CutFinish
<1>5. ASSUME NEW n \in Node, NEW from \in Node, NodeReceivesToken(n, from) PROVE CutInv'
  BY <1>0, <1>5, CutNode
<1>6. ASSUME NEW from \in Node, InitiatorReceivesToken(from) PROVE CutInv'
  BY <1>0, <1>6, CutAround, CutEnds
<1>7. ASSUME NEW n \in Node, receiveGVTUpdate(n) PROVE CutInv'
  BY <1>0, <1>7, CutUpdate
<1>8. ASSUME NEW m \in transit, ReceiveEvent(m) PROVE CutInv'
  BY <1>0, <1>8, CutReceive
<1>9. CASE UNCHANGED vars
  <2>1. UNCHANGED <<node, started_global_gvt, pending, transit, control, gvt_state,
                    global_min_clock>>
    BY <1>9 DEF vars, clientVars, globalVars
  <2>2. UNCHANGED <<started_local_gvt, calculated, local_min, send_min, wpc, flag, taken,
                    toReport>>
    BY <1>9 DEF vars, clientVars, globalVars, localVars, workerVars
  <2>3. /\ \A p \in Node : Toks(p)' = Toks(p)
        /\ \A p \in Node : Holds(p)' <=> Holds(p)
        /\ \A p \in Node : Behind(p, p, Clock(p), node[p].min_send)'
                           <=> Behind(p, p, Clock(p), node[p].min_send)
    BY <2>1 DEF Toks, Holds, Behind, Clock, Covered, Ahead, IsRed
  <2>4. \A p \in Node : Spoiled(p)' <=> Spoiled(p)
    BY <2>1 DEF Spoiled, White
  <2>5. \A p \in Node, t \in UNION {Toks(n) : n \in Node} :
            Behind(p + 1, p, t.m_clock, t.m_send)' <=> Behind(p + 1, p, t.m_clock, t.m_send)
    BY <2>1 DEF Behind, Covered, Ahead, IsRed
  <2>6. \A p \in Node : Reported(p)' <=> Reported(p)
    BY <2>1, <2>2 DEF Reported, Heard, Told, Known, Gives, HeldCovers, Clock, Covered, Ahead,
                      IsRed
  <2> QED
    BY <2>3, <2>4, <2>5, <2>6 DEF CutInv
<1> QED
  BY <1>1, <1>2, <1>3, <1>4, <1>5, <1>6, <1>7, <1>8, <1>9 DEF Next, ProgressGVT

-----------------------------------------------------------------------------
(* Work comes from work.                                                   *)
LEMMA OutstandingIs ==
    ASSUME TypeInv
    PROVE  /\ OutstandingTimes \in SUBSET Nat
           /\ \A lp \in LP : pending[lp] \subseteq OutstandingTimes
           /\ \A m \in transit : m.ts \in OutstandingTimes
           /\ \A t \in OutstandingTimes : \/ \E lp \in LP : t \in pending[lp]
                                          \/ \E m \in transit : t = m.ts
<1>1. \A lp \in LP : pending[lp] \in SUBSET Nat
  BY DEF TypeInv
<1>2. \A m \in transit : m.ts \in Nat
  BY DEF TypeInv, Messages
<1> QED
  BY <1>1, <1>2 DEF OutstandingTimes

LEMMA OutstandingTypes ==
    ASSUME TypeInv'
    PROVE  OutstandingTimes' \in SUBSET Nat
<1>1. \A lp \in LP : pending'[lp] \in SUBSET Nat
  BY DEF TypeInv
<1>2. \A m \in transit' : m.ts \in Nat
  BY DEF TypeInv, Messages
<1> QED
  BY <1>1, <1>2 DEF OutstandingTimes

FromWork == /\ OutstandingTimes' \in SUBSET Nat
            /\ \A t \in OutstandingTimes' : \E s \in OutstandingTimes : s <= t

LEMMA NoNewWork ==
    ASSUME TypeInv, TypeInv',
           \A lp \in LP : \A t \in pending'[lp] : t \in OutstandingTimes,
           transit' \subseteq transit
    PROVE  FromWork
<1>1. OutstandingTimes' \in SUBSET Nat /\ OutstandingTimes \in SUBSET Nat
  BY OutstandingIs, OutstandingTypes
<1>2. OutstandingTimes' \subseteq OutstandingTimes
  <2>1. \A m \in transit : m.ts \in OutstandingTimes
    BY OutstandingIs
  <2> QED
    BY <2>1 DEF OutstandingTimes
<1>3. \A t \in OutstandingTimes' : t \in OutstandingTimes /\ t <= t
  BY <1>1, <1>2
<1> QED
  BY <1>1, <1>3 DEF FromWork

LEMMA NewWork ==
    ASSUME TypeInv, TypeInv', ClientInv, NEW w \in Worker, wpc[w] = "process",
           NEW ts \in Nat, ts > taken[w].ts,
           \A lp \in LP : \A t \in pending'[lp] : t \in pending[lp] \/ t = ts,
           \A m \in transit' : m \in transit \/ m.ts = ts
    PROVE  FromWork
<1>1. taken[w].lp \in LP /\ taken[w].ts \in pending[taken[w].lp]
  BY DEF ClientInv, Holding
<1>2. taken[w].ts \in OutstandingTimes /\ taken[w].ts \in Nat
  BY <1>1, OutstandingIs DEF TypeInv
<1>3. taken[w].ts <= ts
  BY <1>2
<1>4. OutstandingTimes' \in SUBSET Nat /\ OutstandingTimes \in SUBSET Nat
  BY OutstandingIs, OutstandingTypes
<1>5. OutstandingTimes' \subseteq OutstandingTimes \cup {ts}
  <2>1. \A m \in transit' : m.ts \in OutstandingTimes \cup {ts}
    BY OutstandingIs
  <2>2. \A lp \in LP : \A t \in pending'[lp] : t \in OutstandingTimes \cup {ts}
    BY OutstandingIs
  <2> QED
    BY <2>1, <2>2 DEF OutstandingTimes
<1>6. ASSUME NEW t \in OutstandingTimes' PROVE \E s \in OutstandingTimes : s <= t
  <2>1. CASE t = ts
    BY <1>2, <1>3, <2>1
  <2>2. CASE t \in OutstandingTimes
    <3>1. t <= t
      BY <1>4, <2>2
    <3> QED
      BY <2>2, <3>1
  <2> QED
    BY <1>5, <2>1, <2>2
<1> QED
  BY <1>4, <1>6 DEF FromWork

LEMMA WorkNext ==
    ASSUME TypeInv, ClientInv, [Next]_vars
    PROVE  FromWork
<1>0. TypeInv'
  BY TypesNext
<1>10. ASSUME \A lp \in LP : pending'[lp] \subseteq pending[lp], transit' \subseteq transit
       PROVE  FromWork
  <2>1. \A lp \in LP : \A t \in pending'[lp] : t \in OutstandingTimes
    BY <1>10, OutstandingIs
  <2> QED
    BY <1>0, <1>10, <2>1, NoNewWork
<1>1. ASSUME NEW w \in Worker, WorkerStep(w) PROVE FromWork
  <2>1. ASSUME NEW lp \in LP, NEW ts \in SendTimes, SendLocal(w, lp, ts) PROVE FromWork
    <3>1. /\ wpc[w] = "process" /\ ts > taken[w].ts /\ transit' = transit
          /\ pending' = [pending EXCEPT ![lp] = @ \cup {ts}]
      BY <2>1 DEF SendLocal, MayCause, Insert
    <3>2. \A l \in LP : \A t \in pending'[l] : t \in pending[l] \/ t = ts
      BY <3>1 DEF TypeInv
    <3>3. ts \in Nat
      BY Sizes
    <3> QED
      BY <1>0, <3>1, <3>2, <3>3, NewWork
  <2>2. ASSUME NEW lp \in LP, NEW ts \in SendTimes, SendRemote(w, lp, ts) PROVE FromWork
    <3>1. /\ wpc[w] = "process" /\ ts > taken[w].ts /\ pending' = pending
          /\ transit' = transit \cup {[lp |-> lp, ts |-> ts, color |-> node[w[1]].color]}
      BY <2>2 DEF SendRemote, MayCause
    <3>2. \A m \in transit' : m \in transit \/ m.ts = ts
      BY <3>1
    <3>3. ts \in Nat
      BY Sizes
    <3> QED
      BY <1>0, <3>1, <3>2, <3>3, NewWork
  <2>3. CASE ReplenishScheduler(w)
    <3>1. /\ transit' = transit
          /\ pending' = [pending EXCEPT ![taken[w].lp] = @ \ {taken[w].ts}]
      BY <2>3 DEF ReplenishScheduler, Replenish
    <3>2. \A lp \in LP : pending'[lp] \subseteq pending[lp]
      BY <3>1 DEF TypeInv
    <3> QED
      BY <1>10, <3>1, <3>2
  <2>4. CASE ReadFlag(w) \/ GetEvent(w) \/ reportThreadMin(w) \/ reportThreadSendMin(w)
    <3>1. UNCHANGED <<pending, transit>>
      BY <2>4 DEF ReadFlag, GetEvent, reportThreadMin, reportThreadSendMin, clientVars
    <3> QED
      BY <1>10, <3>1
  <2> QED
    BY <1>1, <2>1, <2>2, <2>3, <2>4 DEF WorkerStep
<1>2. ASSUME NEW n \in Node, ProgressGVT(n) PROVE FromWork
  BY <1>2, <1>10, MasterKeepsClient DEF clientVars
<1>3. ASSUME NEW m \in transit, ReceiveEvent(m) PROVE FromWork
  <2>1. /\ transit' = transit \ {m}
        /\ pending' = [pending EXCEPT ![m.lp] = @ \cup {m.ts}]
    BY <1>3 DEF ReceiveEvent, Insert
  <2>2. ASSUME NEW lp \in LP, NEW t \in pending'[lp] PROVE t \in OutstandingTimes
    <3>1. t \in pending[lp] \/ t = m.ts
      BY <2>1, <2>2 DEF TypeInv
    <3> QED
      BY <3>1, OutstandingIs
  <2> QED
    BY <1>0, <2>1, <2>2, NoNewWork
<1>4. CASE UNCHANGED vars
  BY <1>4, <1>10 DEF vars, clientVars
<1> QED
  BY <1>1, <1>2, <1>3, <1>4 DEF Next

LEMMA BoundsKept ==
    ASSUME TypeInv, FromWork, NEW g \in Nat, Bounds(g)
    PROVE  Bounds(g)'
<1>1. ASSUME NEW t \in OutstandingTimes' PROVE g <= t
  <2>1. PICK s \in OutstandingTimes : s <= t
    BY DEF FromWork
  <2>2. g <= s /\ s \in Nat /\ t \in Nat
    BY OutstandingIs DEF Bounds, FromWork
  <2> QED
    BY <2>1, <2>2
<1> QED
  BY <1>1 DEF Bounds

-----------------------------------------------------------------------------
(* A time that a node has been given as the GVT, or will be.               *)
IsFloor(g) == \E n \in Node : gVT[n] = g \/ g \in Sent(n)

(* It is below everything that is outstanding, and below all the minima    *)
(* the next GVT is computed from.                                          *)
UnderNodes(g) ==
    \A n \in Node : NumNodes > 1 /\ IsRed(n) => g <= node[n].min_send /\ g <= node[n].min_recv
UnderClocks(g) ==
    \A n \in Node : n # 0 /\ ~ Awaits(n) => g <= global_min_clock[n]
UnderTokens(g) ==
    \A n \in Node : \A t \in Toks(n) : g <= t.m_clock /\ g <= t.m_send
UnderWorkers(g) ==
    \A w \in Worker : started_local_gvt[w[1]] \/ mpc[w[1]] = "store" =>
                          g <= send_min[w] /\ g <= local_min[w]

Under(g) == /\ g <= Infinity /\ Bounds(g)
            /\ UnderNodes(g) /\ UnderClocks(g) /\ UnderTokens(g) /\ UnderWorkers(g)

(* No minimum is above Infinity.                                           *)
Capped == /\ \A w \in Worker : send_min[w] <= Infinity /\ local_min[w] <= Infinity
          /\ \A n \in Node : \A t \in Toks(n) : t.m_clock <= Infinity

(* What a thread's step does to its two minima.                            *)
LEMMA MinimaAfter ==
    ASSUME TypeInv, NEW w \in Worker, WorkerStep(w)
    PROVE  /\ \A v \in Worker \ {w} : send_min'[v] = send_min[v] /\ local_min'[v] = local_min[v]
           /\ \/ send_min'[w] = send_min[w]
              \/ /\ wpc[w] = "reportSend" /\ send_min'[w] \in {send_min[w], toReport[w]}
                 /\ send_min'[w] <= send_min[w]
           /\ \/ local_min'[w] = local_min[w]
              \/ /\ local_min'[w] \in {send_min[w], taken[w].ts}
                 /\ local_min'[w] <= send_min[w]
<1>0. PICK s \in Nat, r \in Nat, t \in Nat :
          s = send_min[w] /\ r = toReport[w] /\ t = taken[w].ts
  BY DEF TypeInv
<1>1. CASE reportThreadMin(w)
  <2>1. local_min' = [local_min EXCEPT ![w] = Min(s, t)] \/ local_min' = local_min
    BY <1>0, <1>1 DEF reportThreadMin, localVars
  <2>2. Min(s, t) \in {s, t} /\ Min(s, t) <= s
    BY MinIsLess
  <2>3. send_min' = send_min
    BY <1>1 DEF reportThreadMin, localVars
  <2> QED
    BY <1>0, <2>1, <2>2, <2>3 DEF TypeInv
<1>2. CASE reportThreadSendMin(w)
  <2>1. send_min' = [send_min EXCEPT ![w] = Min(s, r)] \/ send_min' = send_min
    BY <1>0, <1>2 DEF reportThreadSendMin
  <2>2. Min(s, r) \in {s, r} /\ Min(s, r) <= s
    BY MinIsLess
  <2>3. local_min' = local_min /\ wpc[w] = "reportSend"
    BY <1>2 DEF reportThreadSendMin
  <2> QED
    BY <1>0, <2>1, <2>2, <2>3 DEF TypeInv
<1>3. CASE ReadFlag(w) \/ GetEvent(w) \/ ReplenishScheduler(w)
           \/ \E lp \in LP, ts \in SendTimes : SendLocal(w, lp, ts) \/ SendRemote(w, lp, ts)
  <2>1. UNCHANGED <<send_min, local_min>>
    BY <1>3 DEF ReadFlag, GetEvent, ReplenishScheduler, SendLocal, SendRemote, localVars
  <2> QED
    BY <2>1
<1> QED
  BY <1>1, <1>2, <1>3 DEF WorkerStep

LEMMA CappedWorker ==
    ASSUME TokenInv, TypeInv', Capped, NEW w \in Worker, WorkerStep(w)
    PROVE  Capped'
<1>1. TypeInv
  BY DEF TokenInv
<1>2. UNCHANGED control
  BY SteadyWorker
<1>3. \A n \in Node : Toks(n)' = Toks(n)
  BY <1>2, SameLinks DEF TokenInv
<1>4. \A v \in Worker : /\ send_min[v] \in Nat /\ local_min[v] \in Nat
                        /\ send_min'[v] \in Nat /\ local_min'[v] \in Nat
  BY <1>1 DEF TypeInv
<1>5. Infinity \in Nat
  BY Sizes
<1>6. \A v \in Worker : send_min'[v] <= Infinity /\ local_min'[v] <= Infinity
  BY <1>1, <1>4, <1>5, MinimaAfter DEF Capped
<1> QED
  BY <1>3, <1>6 DEF Capped

LEMMA CappedNext ==
    ASSUME InOrder, TokenInv, Capped, [Next]_vars
    PROVE  Capped'
<1>0. TypeInv' /\ TypeInv
  BY TypesNext DEF TokenInv
<1>10. ASSUME UNCHANGED <<send_min, local_min>>, \A n \in Node : Toks(n)' \subseteq Toks(n)
       PROVE  Capped'
  BY <1>10 DEF Capped
<1>1. ASSUME NEW w \in Worker, WorkerStep(w) PROVE Capped'
  BY <1>0, <1>1, CappedWorker
<1>2. ASSUME NEW n \in Node, BeginLocal(n) PROVE Capped'
  <2>1. /\ send_min' = [w \in Worker |-> IF w[1] = n THEN Infinity ELSE send_min[w]]
        /\ local_min' = [w \in Worker |-> IF w[1] = n THEN Infinity ELSE local_min[w]]
        /\ control' = control
    BY <1>2 DEF BeginLocal
  <2>2. \A m \in Node : Toks(m)' = Toks(m)
    BY <2>1, SameLinks DEF TokenInv
  <2>3. Infinity <= Infinity
    BY Sizes
  <2> QED
    BY <2>1, <2>2, <2>3 DEF Capped
<1>3. ASSUME NEW n \in Node, StoreFlag(n) PROVE Capped'
  <2>1. UNCHANGED <<send_min, local_min, control>>
    BY <1>3 DEF StoreFlag
  <2> QED
    BY <1>10, <2>1, SameLinks DEF TokenInv
<1>4. ASSUME NEW n \in Node, FinishLocal(n) PROVE Capped'
  <2>1. UNCHANGED <<send_min, local_min>>
    BY <1>4 DEF FinishLocal, localVars
  <2>2. ASSUME NEW m \in Node, NEW t \in Toks(m)' PROVE t.m_clock <= Infinity
    <3>1. t = Passes(n)
      BY <1>0, <1>4, <2>2, TokenFinish
    <3>2. t.m_clock <= LocalMinimum(n) /\ t.m_clock \in Nat
      BY <1>0, <3>1, PassesToken DEF Tokens
    <3>3. PICK w \in NodeWorkers(n) : LocalMinimum(n) = local_min[w]
      BY <1>0, LocalMinimumIsLess
    <3>4. local_min[w] \in Nat /\ local_min[w] <= Infinity
      BY <1>0, <3>3 DEF Capped, NodeWorkers, TypeInv
    <3> QED
      BY <3>2, <3>3, <3>4, Sizes
  <2> QED
    BY <2>1, <2>2 DEF Capped
<1>5. ASSUME NEW n \in Node, NEW from \in Node, NodeReceivesToken(n, from) PROVE Capped'
  <2>1. UNCHANGED <<send_min, local_min>>
    BY <1>5 DEF NodeReceivesToken, localVars
  <2>2. \A m \in Node : Toks(m)' = {}
    BY <1>0, <1>5, TokenNode
  <2> QED
    BY <1>10, <2>1, <2>2
<1>6. ASSUME NEW from \in Node, InitiatorReceivesToken(from) PROVE Capped'
  <2>1. UNCHANGED <<send_min, local_min>>
    BY <1>6 DEF InitiatorReceivesToken, localVars
  <2>2. \A m \in Node : Toks(m)' = {}
    BY <1>0, <1>6, TokenAround, TokenEnds
  <2> QED
    BY <1>10, <2>1, <2>2
<1>7. ASSUME NEW n \in Node, receiveGVTUpdate(n) PROVE Capped'
  <2>1. UNCHANGED <<send_min, local_min>>
    BY <1>7 DEF receiveGVTUpdate, localVars
  <2>2. \A m \in Node : Toks(m)' = Toks(m)
    BY <1>0, <1>7, TokenUpdate
  <2> QED
    BY <1>10, <2>1, <2>2
<1>8. ASSUME UNCHANGED <<send_min, local_min, control>> PROVE Capped'
  BY <1>8, <1>10, SameLinks DEF TokenInv
<1>9. (\E m \in transit : ReceiveEvent(m)) \/ UNCHANGED vars
          => UNCHANGED <<send_min, local_min, control>>
  BY DEF ReceiveEvent, vars, localVars, globalVars
<1> QED
  BY <1>1, <1>2, <1>3, <1>4, <1>5, <1>6, <1>7, <1>8, <1>9 DEF Next, ProgressGVT

(* A time below what is outstanding and below the minima stays so: threads *)
(* send only what is later than what they handle.                          *)
LEMMA UnderWorker ==
    ASSUME TokenInv, TypeInv', ClientInv, FromWork, NEW w \in Worker, WorkerStep(w),
           NEW g \in Nat, Under(g)
    PROVE  Under(g)'
<1>0. TypeInv /\ g <= Infinity /\ Infinity \in Nat
  BY Sizes DEF TokenInv, Under
<1>1. UNCHANGED <<global_min_clock, started_local_gvt, control, mpc>>
  BY SteadyWorker
<1>2. \A n \in Node : Toks(n)' = Toks(n) /\ Awaits(n)' = Awaits(n)
  BY <1>1, SameLinks DEF TokenInv
<1>3. Bounds(g)'
  BY <1>0, BoundsKept DEF Under
<1>4. taken[w].ts \in Nat /\ g <= taken[w].ts
  <2>1. taken[w].ts \in Nat
    BY <1>0 DEF TypeInv
  <2>2. CASE taken[w] = Nothing
    BY <1>0, <2>1, <2>2 DEF Nothing
  <2>3. CASE taken[w] # Nothing
    <3>1. taken[w].lp \in LP /\ taken[w].ts \in pending[taken[w].lp]
      BY <2>3 DEF ClientInv, Holding
    <3>2. taken[w].ts \in OutstandingTimes
      BY <1>0, <3>1, OutstandingIs
    <3> QED
      BY <2>1, <3>2 DEF Under, Bounds
  <2> QED
    BY <2>2, <2>3
<1>5. UnderWorkers(g)'
  <2>1. wpc[w] = "reportSend" => g <= toReport[w]
    <3>1. wpc[w] = "reportSend" => taken[w].ts < toReport[w]
      BY DEF ClientInv, Holding
    <3>2. toReport[w] \in Nat
      BY <1>0 DEF TypeInv
    <3> QED
      BY <1>4, <3>1, <3>2
  <2>2. ASSUME NEW v \in Worker, started_local_gvt[v[1]] \/ mpc[v[1]] = "store"
        PROVE  g <= send_min'[v] /\ g <= local_min'[v]
    <3>1. g <= send_min[v] /\ g <= local_min[v]
      BY <2>2 DEF Under, UnderWorkers
    <3> QED
      BY <1>0, <1>4, <2>1, <3>1, MinimaAfter
  <2> QED
    BY <1>1, <2>2 DEF UnderWorkers
<1>6. UnderNodes(g)'
  <2>1. ASSUME NEW lp \in LP, NEW ts \in SendTimes, SendRemote(w, lp, ts) PROVE UnderNodes(g)'
    <3>0. PICK n \in Node : n = w[1]
      BY OwnNode
    <3>1. NodesSend(n, ts)
      BY <2>1, <3>0, SentRemote
    <3>2. ts > taken[w].ts /\ ts \in Nat
      BY <2>1, Sizes DEF SendRemote, MayCause
    <3>3. g <= ts
      BY <1>4, <3>2
    <3>4. ASSUME NEW k \in Node, NumNodes > 1, IsRed(k)'
          PROVE  g <= node'[k].min_send /\ g <= node'[k].min_recv
      <4>1. IsRed(k)
        BY <3>1, <3>4 DEF NodesSend
      <4>2. g <= node[k].min_send /\ g <= node[k].min_recv
        BY <3>4, <4>1 DEF Under, UnderNodes
      <4>3. node'[k].min_recv = node[k].min_recv
        BY <3>1 DEF NodesSend
      <4>4. node'[k].min_send \in {node[k].min_send, ts}
        BY <3>1 DEF NodesSend
      <4> QED
        BY <3>3, <4>2, <4>3, <4>4
    <3> QED
      BY <3>4 DEF UnderNodes
  <2>2. ASSUME UNCHANGED <<node, started_global_gvt>> PROVE UnderNodes(g)'
    BY <2>2 DEF Under, UnderNodes, IsRed
  <2>3. \A lp \in LP, ts \in SendTimes :
            SendLocal(w, lp, ts) => UNCHANGED <<node, started_global_gvt>>
    BY DEF SendLocal, globalVars
  <2>4. ReadFlag(w) \/ GetEvent(w) \/ reportThreadMin(w) \/ reportThreadSendMin(w)
             \/ ReplenishScheduler(w) => UNCHANGED <<node, started_global_gvt>>
    BY DEF ReadFlag, GetEvent, reportThreadMin, reportThreadSendMin, ReplenishScheduler,
           globalVars
  <2> QED
    BY <2>1, <2>2, <2>3, <2>4 DEF WorkerStep
<1>7. UnderClocks(g)' /\ UnderTokens(g)'
  BY <1>1, <1>2 DEF Under, UnderClocks, UnderTokens
<1> QED
  BY <1>0, <1>3, <1>5, <1>6, <1>7 DEF Under

LEMMA UnderReceive ==
    ASSUME TokenInv, TypeInv', CountInv, FromWork, NEW m \in transit, ReceiveEvent(m),
           NEW g \in Nat, Under(g)
    PROVE  Under(g)'
<1>0. TypeInv
  BY DEF TokenInv
<1>1. m.lp \in LP /\ m.ts \in Nat /\ NodesReceive(NodeOf[m.lp], m)
  BY Received
<1>2. UNCHANGED <<global_min_clock, started_local_gvt, control, mpc, send_min, local_min>>
  BY DEF ReceiveEvent, localVars
<1>3. \A n \in Node : Toks(n)' = Toks(n) /\ Awaits(n)' = Awaits(n)
  BY <1>2, SameLinks DEF TokenInv
<1>4. Bounds(g)'
  BY <1>0, BoundsKept DEF Under
<1>5. g <= m.ts
  BY <1>0, OutstandingIs DEF Under, Bounds
<1>6. ASSUME NEW k \in Node, NumNodes > 1, IsRed(k)'
      PROVE  g <= node'[k].min_send /\ g <= node'[k].min_recv
  <2>1. IsRed(k)
    BY <1>1, <1>6 DEF NodesReceive
  <2>2. g <= node[k].min_send /\ g <= node[k].min_recv
    BY <1>6, <2>1 DEF Under, UnderNodes
  <2>3. node'[k].min_send = node[k].min_send
    BY <1>1 DEF NodesReceive
  <2>4. node'[k].min_recv \in {node[k].min_recv, m.ts}
    BY <1>1 DEF NodesReceive
  <2> QED
    BY <1>5, <2>2, <2>3, <2>4
<1>7. UnderNodes(g)'
  BY <1>6 DEF UnderNodes
<1>8. UnderClocks(g)' /\ UnderTokens(g)' /\ UnderWorkers(g)'
  BY <1>2, <1>3 DEF Under, UnderClocks, UnderTokens, UnderWorkers
<1> QED
  BY <1>4, <1>7, <1>8 DEF Under

LEMMA UnderBegin ==
    ASSUME TokenInv, TypeInv', FromWork, NEW n \in Node, BeginLocal(n), NEW g \in Nat, Under(g)
    PROVE  Under(g)'
<1>0. TypeInv /\ g <= Infinity
  BY DEF TokenInv, Under
<1>1. /\ send_min' = [w \in Worker |-> IF w[1] = n THEN Infinity ELSE send_min[w]]
      /\ local_min' = [w \in Worker |-> IF w[1] = n THEN Infinity ELSE local_min[w]]
      /\ mpc' = [mpc EXCEPT ![n] = "store"]
      /\ UNCHANGED <<started_local_gvt, global_min_clock, control>>
  BY DEF BeginLocal
<1>2. \A m \in Node : Toks(m)' = Toks(m) /\ Awaits(m)' = Awaits(m)
  BY <1>1, SameLinks DEF TokenInv
<1>3. Bounds(g)'
  BY <1>0, BoundsKept DEF Under
<1>4. ASSUME NEW w \in Worker, started_local_gvt'[w[1]] \/ mpc'[w[1]] = "store"
      PROVE  g <= send_min'[w] /\ g <= local_min'[w]
  <2>1. CASE w[1] = n
    BY <1>0, <1>1, <2>1
  <2>2. CASE w[1] # n
    <3>1. started_local_gvt[w[1]] \/ mpc[w[1]] = "store"
      BY <1>0, <1>1, <1>4, <2>2, OwnNode DEF TypeInv
    <3>2. g <= send_min[w] /\ g <= local_min[w]
      BY <3>1 DEF Under, UnderWorkers
    <3> QED
      BY <1>1, <2>2, <3>2
  <2> QED
    BY <2>1, <2>2
<1>5. UnderNodes(g)'
  <2>1. CASE n = 0 /\ ~ started_global_gvt
    <3>1. Becomes(0, Other(node[0].color), node[0].initial_color,
                  [node[0].count EXCEPT ![node[0].initial_color] = 0], Infinity, Infinity)
      BY <1>0, <2>1, NodeAtStart
    <3>2. node'[0].color = Other(node[0].color) /\ Other(node[0].color) # node[0].color
      BY <1>0, <3>1, Fields, Sizes, OthersColor DEF Becomes
    <3>3. \A k \in Node : node[k].color = node[0].color
      BY <2>1 DEF TokenInv, Colors
    <3>4. \A k \in Node \ {0} : node'[k].color = node[0].color
      BY <3>1, <3>3 DEF Becomes
    <3>5. \A k \in Node : IsRed(k)' => k = 0
      BY <3>2, <3>4 DEF IsRed
    <3>6. node'[0].min_send = Infinity /\ node'[0].min_recv = Infinity
      BY <3>1 DEF Becomes
    <3> QED
      BY <1>0, <3>5, <3>6 DEF UnderNodes
  <2>2. CASE ~ (n = 0 /\ ~ started_global_gvt)
    <3>1. UNCHANGED <<node, started_global_gvt>>
      BY <2>2 DEF BeginLocal
    <3> QED
      BY <3>1 DEF Under, UnderNodes, IsRed
  <2> QED
    BY <2>1, <2>2
<1>6. UnderWorkers(g)'
  BY <1>4 DEF UnderWorkers
<1>7. UnderClocks(g)' /\ UnderTokens(g)'
  BY <1>1, <1>2 DEF Under, UnderClocks, UnderTokens
<1> QED
  BY <1>0, <1>3, <1>5, <1>6, <1>7 DEF Under

(* Which minimum the token's m_clock is.                                   *)
LEMMA PassesWhich ==
    ASSUME TypeInv, NEW n \in Node
    PROVE  \/ Passes(n).m_clock \in {Infinity, node[n].min_recv, LocalMinimum(n)}
           \/ n # 0 /\ Passes(n).m_clock = global_min_clock[n]
<1>1. PICK r \in Nat, l \in Nat, c \in Nat :
          r = node[n].min_recv /\ l = LocalMinimum(n) /\ c = Clock(n)
  BY Fields, LocalMinimumIsLess, ClockIs
<1>2. Passes(n).m_clock = Min(Min(r, l), c)
  BY <1>1 DEF Passes, Clock
<1>3. Min(r, l) \in {r, l} /\ Min(r, l) \in Nat
  BY MinIsLess
<1>4. Min(Min(r, l), c) \in {Min(r, l), c}
  BY <1>3, MinIsLess
<1>5. c = Infinity \/ (n # 0 /\ c = global_min_clock[n])
  BY <1>1 DEF Clock
<1> QED
  BY <1>1, <1>2, <1>3, <1>4, <1>5

LEMMA UnderMinimum ==
    ASSUME TokenInv, NEW n \in Node, FinishLocal(n), NEW g \in Nat, Under(g)
    PROVE  g <= LocalMinimum(n)
<1>1. PICK w \in NodeWorkers(n) : LocalMinimum(n) = local_min[w]
  BY LocalMinimumIsLess DEF TokenInv
<1>2. w \in Worker /\ w[1] = n
  BY <1>1 DEF NodeWorkers
<1>3. started_local_gvt[w[1]]
  BY <1>2 DEF FinishLocal
<1>4. g <= local_min[w]
  BY <1>2, <1>3 DEF Under, UnderWorkers
<1> QED
  BY <1>1, <1>4

LEMMA UnderFinish ==
    ASSUME TokenInv, TypeInv', FromWork, NEW n \in Node, FinishLocal(n), NEW g \in Nat, Under(g)
    PROVE  Under(g)'
<1>0. TypeInv /\ g <= Infinity
  BY DEF TokenInv, Under
<1>1. /\ Holds(n) /\ TokenInv'
      /\ \A m \in Node : Sent(m)' = Sent(m) /\ (Toks(m)' # {} => m = n)
      /\ NumNodes > 1 => Toks(n)' = {Passes(n)}
      /\ ~ NumNodes > 1 => Toks(n)' = {}
  BY TokenFinish
<1>2. UNCHANGED <<node, started_global_gvt, mpc, send_min, local_min>>
  BY DEF FinishLocal, localVars
<1>3. \A m \in Node : started_local_gvt'[m] => started_local_gvt[m]
  BY <1>0 DEF FinishLocal, TypeInv
<1>4. \A m \in Node \ {0} : global_min_clock'[m] = global_min_clock[m]
  BY <1>0 DEF FinishLocal, TypeInv
<1>5. Bounds(g)'
  BY <1>0, BoundsKept DEF Under
<1>6. ASSUME NEW m \in Node, NEW t \in Toks(m)' PROVE g <= t.m_clock /\ g <= t.m_send
  <2>1. NumNodes > 1 /\ t = Passes(n)
    BY <1>1, <1>6
  <2>2. IsRed(n) /\ ~ Awaits(n)
    <3>1. n <= n
      BY Sizes
    <3>2. IsRed(n)
      BY <1>1, <3>1 DEF TokenInv, Colors
    <3> QED
      BY <3>2, RedIsNew
  <2>3. g <= node[n].min_send /\ g <= node[n].min_recv
    BY <2>1, <2>2 DEF Under, UnderNodes
  <2>4. n # 0 => g <= global_min_clock[n]
    BY <2>2 DEF Under, UnderClocks
  <2>5. g <= LocalMinimum(n)
    BY UnderMinimum
  <2>6. t.m_send = node[n].min_send
    BY <2>1 DEF Passes
  <2>7. \/ t.m_clock \in {Infinity, node[n].min_recv, LocalMinimum(n)}
        \/ n # 0 /\ t.m_clock = global_min_clock[n]
    BY <1>0, <2>1, PassesWhich
  <2> QED
    BY <1>0, <2>3, <2>4, <2>5, <2>6, <2>7
<1>7. UnderTokens(g)'
  BY <1>6 DEF UnderTokens
<1>8. UnderWorkers(g)' /\ UnderNodes(g)'
  BY <1>2, <1>3, OwnNode DEF Under, UnderWorkers, UnderNodes, IsRed
<1>9. UnderClocks(g)'
  BY <1>1, <1>4 DEF Under, UnderClocks, Awaits
<1> QED
  BY <1>0, <1>5, <1>7, <1>8, <1>9 DEF Under

(* The token is taken.                                                     *)
LEMMA UnderTaken ==
    ASSUME TokenInv, TypeInv', FromWork, NEW n \in Node, NEW from \in Node, NEW t,
           t \in Toks(from), NodesTake(n, t),
           \A m \in Node : Sent(m)' = Sent(m) /\ Toks(m)' = {} /\ (IsRed(m)' => IsRed(m) \/ m = n),
           n # 0 => global_min_clock'[n] \in {global_min_clock[n], t.m_clock},
           \A m \in Node \ {n} : global_min_clock'[m] = global_min_clock[m],
           UNCHANGED <<started_local_gvt, mpc, send_min, local_min>>,
           NEW g \in Nat, Under(g)
    PROVE  Under(g)'
<1>0. TypeInv /\ g <= Infinity
  BY DEF TokenInv, Under
<1>1. Bounds(g)'
  BY <1>0, BoundsKept DEF Under
<1>2. g <= t.m_clock /\ g <= t.m_send
  BY DEF Under, UnderTokens
<1>3. ASSUME NEW m \in Node, NumNodes > 1, IsRed(m)'
      PROVE  g <= node'[m].min_send /\ g <= node'[m].min_recv
  <2>1. CASE m = n /\ IsRed(n)
    <3>1. /\ node'[n].min_send \in {node[n].min_send, t.m_send}
          /\ node'[n].min_recv = node[n].min_recv
      BY <2>1 DEF NodesTake
    <3>2. g <= node[n].min_send /\ g <= node[n].min_recv
      BY <1>3, <2>1 DEF Under, UnderNodes
    <3> QED
      BY <1>2, <2>1, <3>1, <3>2
  <2>2. CASE m = n /\ ~ IsRed(n)
    <3>1. /\ node'[n].min_send \in {Infinity, t.m_send}
          /\ node'[n].min_recv = Infinity
      BY <2>2 DEF NodesTake
    <3> QED
      BY <1>0, <1>2, <2>2, <3>1
  <2>3. CASE m # n
    <3>1. IsRed(m) /\ node'[m] = node[m]
      BY <1>3, <2>3 DEF NodesTake
    <3>2. g <= node[m].min_send /\ g <= node[m].min_recv
      BY <1>3, <3>1 DEF Under, UnderNodes
    <3> QED
      BY <3>1, <3>2
  <2> QED
    BY <2>1, <2>2, <2>3
<1>4. UnderNodes(g)'
  BY <1>3 DEF UnderNodes
<1>5. ASSUME NEW m \in Node, m # 0, ~ Awaits(m)' PROVE g <= global_min_clock'[m]
  <2>1. ~ Awaits(m)
    BY <1>5 DEF Awaits
  <2>2. g <= global_min_clock[m]
    BY <1>5, <2>1 DEF Under, UnderClocks
  <2> QED
    BY <1>2, <1>5, <2>2
<1>6. UnderClocks(g)'
  BY <1>5 DEF UnderClocks
<1>7. UnderTokens(g)' /\ UnderWorkers(g)'
  BY DEF Under, UnderTokens, UnderWorkers
<1> QED
  BY <1>0, <1>1, <1>4, <1>6, <1>7 DEF Under

LEMMA UnderStore ==
    ASSUME TokenInv, TypeInv', FromWork, NEW n \in Node, StoreFlag(n), NEW g \in Nat, Under(g)
    PROVE  Under(g)'
<1>0. TypeInv
  BY DEF TokenInv
<1>1. UNCHANGED <<node, started_global_gvt, send_min, local_min, global_min_clock, control>>
  BY DEF StoreFlag
<1>2. \A m \in Node : Toks(m)' = Toks(m) /\ Awaits(m)' = Awaits(m)
  BY <1>1, SameLinks DEF TokenInv
<1>3. Bounds(g)'
  BY <1>0, BoundsKept DEF Under
<1>4. \A m \in Node : started_local_gvt'[m] \/ mpc'[m] = "store" =>
                          started_local_gvt[m] \/ mpc[m] = "store"
  BY <1>0 DEF StoreFlag, TypeInv
<1>5. UnderWorkers(g)'
  BY <1>1, <1>4, OwnNode DEF Under, UnderWorkers
<1>6. UnderNodes(g)' /\ UnderClocks(g)' /\ UnderTokens(g)'
  BY <1>1, <1>2 DEF Under, UnderNodes, UnderClocks, UnderTokens, IsRed
<1> QED
  BY <1>3, <1>5, <1>6 DEF Under

LEMMA UnderNode ==
    ASSUME InOrder, TokenInv, TypeInv', FromWork, NEW n \in Node, NEW from \in Node,
           NodeReceivesToken(n, from), NEW g \in Nat, Under(g)
    PROVE  Under(g)'
<1>1. PICK t : t = Head(control[<<from, n>>])
  OBVIOUS
<1>2. /\ t \in Tokens /\ Toks(from) = {t}
      /\ \A m \in Node : /\ Sent(m)' = Sent(m) /\ Toks(m)' = {}
                         /\ IsRed(m)' <=> IsRed(m) \/ m = n
  BY <1>1, TokenNode
<1>3. NodesTake(n, t)
  BY <1>1, TakenAtNode
<1>4. /\ global_min_clock' = [global_min_clock EXCEPT ![n] = Min(@, t.m_clock)]
      /\ UNCHANGED <<started_local_gvt, mpc, send_min, local_min>>
  BY <1>1 DEF NodeReceivesToken, localVars
<1>5. global_min_clock'[n] = Min(global_min_clock[n], t.m_clock)
  BY <1>4 DEF TokenInv, TypeInv
<1>6. global_min_clock'[n] \in {global_min_clock[n], t.m_clock}
  BY <1>5 DEF Min
<1>7. \A m \in Node \ {n} : global_min_clock'[m] = global_min_clock[m]
  BY <1>4 DEF TokenInv, TypeInv
<1>8. t \in Toks(from)
  BY <1>2
<1>9. \A m \in Node :
          Sent(m)' = Sent(m) /\ Toks(m)' = {} /\ (IsRed(m)' => IsRed(m) \/ m = n)
  BY <1>2
<1> QED
  BY <1>3, <1>4, <1>6, <1>7, <1>8, <1>9, UnderTaken

LEMMA UnderAround ==
    ASSUME TokenInv, TypeInv', FromWork, NEW from \in Node, InitiatorReceivesToken(from),
           ~ (Head(control[<<from, 0>>]).count <= 0), NEW g \in Nat, Under(g)
    PROVE  Under(g)'
<1>1. PICK t : t = Head(control[<<from, 0>>])
  OBVIOUS
<1>2. t \in Toks(from) /\ \A m \in Node : IsRed(m)
  BY <1>1, TokenIsBack
<1>3. NodesTake(0, t)
  BY <1>1, TakenAgain
<1>4. \A m \in Node : Sent(m)' = Sent(m) /\ Toks(m)' = {}
  BY TokenAround
<1>5. UNCHANGED <<global_min_clock, started_local_gvt, mpc, send_min, local_min>>
  BY DEF InitiatorReceivesToken, localVars
<1>6. \A m \in Node :
          Sent(m)' = Sent(m) /\ Toks(m)' = {} /\ (IsRed(m)' => IsRed(m) \/ m = 0)
  BY <1>2, <1>4
<1>7. 0 \in Node
  BY Sizes
<1> QED
  BY <1>2, <1>3, <1>5, <1>6, <1>7, UnderTaken

(* When the computation has ended nothing but the outstanding work limits  *)
(* a GVT.                                                                  *)
LEMMA UnderEnds ==
    ASSUME TokenInv, TypeInv', NEW from \in Node, InitiatorReceivesToken(from),
           Head(control[<<from, 0>>]).count <= 0, NEW g \in Nat, g <= Infinity, Bounds(g)'
    PROVE  Under(g)'
<1>1. \A m \in Node : Sent(m)' # {} /\ Toks(m)' = {} /\ ~ IsRed(m)'
  BY TokenEnds
<1>2. \A m \in Node : ~ Holds(m)
  BY TokenIsBack
<1>3. UNCHANGED <<started_local_gvt, mpc>>
  BY DEF InitiatorReceivesToken
<1>4. \A m \in Node : ~ started_local_gvt'[m] /\ mpc'[m] # "store"
  BY <1>2, <1>3 DEF TokenInv, Ring
<1> QED
  BY <1>1, <1>4, OwnNode
     DEF Under, UnderNodes, UnderClocks, UnderTokens, UnderWorkers, Awaits

LEMMA UnderUpdate ==
    ASSUME TokenInv, TypeInv', FromWork, NEW n \in Node, receiveGVTUpdate(n),
           NEW g \in Nat, Under(g)
    PROVE  Under(g)'
<1>0. TypeInv /\ g <= Infinity
  BY DEF TokenInv, Under
<1>1. /\ \A m \in Node : Toks(m)' = Toks(m) /\ IsRed(m)' = IsRed(m)
      /\ \A m \in Node \ {n} : Sent(m)' = Sent(m)
  BY TokenUpdate
<1>2. \A k \in Node : node'[k].min_send = node[k].min_send /\ node'[k].min_recv = node[k].min_recv
  BY UpdateKeepsNode
<1>3. /\ UNCHANGED <<started_local_gvt, mpc, send_min, local_min>>
      /\ global_min_clock' = [global_min_clock EXCEPT ![n] = Infinity]
  BY DEF receiveGVTUpdate, localVars
<1>4. /\ global_min_clock'[n] = Infinity
      /\ \A m \in Node \ {n} : global_min_clock'[m] = global_min_clock[m]
  BY <1>0, <1>3 DEF TypeInv
<1>5. Bounds(g)'
  BY <1>0, BoundsKept DEF Under
<1>6. UnderClocks(g)'
  BY <1>0, <1>1, <1>4 DEF Under, UnderClocks, Awaits
<1>7. UnderNodes(g)'
  BY <1>1, <1>2 DEF Under, UnderNodes
<1>8. UnderTokens(g)' /\ UnderWorkers(g)'
  BY <1>1, <1>3 DEF Under, UnderTokens, UnderWorkers
<1> QED
  BY <1>0, <1>5, <1>6, <1>7, <1>8 DEF Under

LEMMA UnderNext ==
    ASSUME InOrder, TokenInv, CountInv, ClientInv, [Next]_vars, NEW g \in Nat, Under(g)
    PROVE  Under(g)'
<1>0. TypeInv /\ TypeInv' /\ FromWork
  BY TypesNext, WorkNext DEF TokenInv
<1>1. ASSUME NEW w \in Worker, WorkerStep(w) PROVE Under(g)'
  BY <1>0, <1>1, UnderWorker
<1>2. ASSUME NEW n \in Node, BeginLocal(n) PROVE Under(g)'
  BY <1>0, <1>2, UnderBegin
<1>3. ASSUME NEW n \in Node, StoreFlag(n) PROVE Under(g)'
  BY <1>0, <1>3, UnderStore
<1>4. ASSUME NEW n \in Node, FinishLocal(n) PROVE Under(g)'
  BY <1>0, <1>4, UnderFinish
<1>5. ASSUME NEW n \in Node, NEW from \in Node, NodeReceivesToken(n, from) PROVE Under(g)'
  BY <1>0, <1>5, UnderNode
<1>6. ASSUME NEW from \in Node, InitiatorReceivesToken(from) PROVE Under(g)'
  <2>1. CASE Head(control[<<from, 0>>]).count <= 0
    <3>1. g <= Infinity /\ Bounds(g)'
      BY <1>0, BoundsKept DEF Under
    <3> QED
      BY <1>0, <1>6, <2>1, <3>1, UnderEnds
  <2>2. CASE ~ (Head(control[<<from, 0>>]).count <= 0)
    BY <1>0, <1>6, <2>2, UnderAround
  <2> QED
    BY <2>1, <2>2
<1>7. ASSUME NEW n \in Node, receiveGVTUpdate(n) PROVE Under(g)'
  BY <1>0, <1>7, UnderUpdate
<1>8. ASSUME NEW m \in transit, ReceiveEvent(m) PROVE Under(g)'
  BY <1>0, <1>8, UnderReceive
<1>9. CASE UNCHANGED vars
  <2>1. UNCHANGED <<node, started_global_gvt, global_min_clock, control, started_local_gvt,
                    mpc, send_min, local_min>>
    BY <1>9 DEF vars, globalVars, localVars
  <2>2. \A m \in Node : Toks(m)' = Toks(m) /\ Awaits(m)' = Awaits(m)
    BY <2>1, SameLinks DEF TokenInv
  <2>3. Bounds(g)'
    BY <1>0, BoundsKept DEF Under
  <2>4. UnderNodes(g)' /\ UnderClocks(g)' /\ UnderTokens(g)' /\ UnderWorkers(g)'
    BY <2>1, <2>2 DEF Under, UnderNodes, UnderClocks, UnderTokens, UnderWorkers, IsRed
  <2> QED
    BY <2>3, <2>4 DEF Under
<1> QED
  BY <1>1, <1>2, <1>3, <1>4, <1>5, <1>6, <1>7, <1>8, <1>9 DEF Next, ProgressGVT

(* The token has been at all nodes and no message of the old color is on   *)
(* its way: the lesser of its minima bounds all that is outstanding.       *)
LEMMA AnswerBounds ==
    ASSUME TokenInv, CountInv, CutInv, NEW from \in Node, InitiatorReceivesToken(from),
           Head(control[<<from, 0>>]).count <= 0,
           NEW t, t = Head(control[<<from, 0>>])
    PROVE  /\ t \in Toks(from) /\ t \in Tokens
           /\ Min(t.m_clock, t.m_send) \in Nat /\ Bounds(Min(t.m_clock, t.m_send))
<1>1. t \in Toks(from) /\ t \in Tokens /\ from = NumNodes - 1
  BY TokenIsBack
<1>2. /\ \A m \in transit : m.color = node[0].color
      /\ \A n \in Node : node[n].count[White] = 0
  BY AllArrived
<1>3. ~ Spoiled(from)
  BY <1>2 DEF Spoiled
<1>4. PICK c \in Nat, s \in Nat : c = t.m_clock /\ s = t.m_send
  BY <1>1 DEF Tokens
<1>5. Behind(from + 1, from, c, s)
  BY <1>1, <1>3, <1>4 DEF CutInv
<1>6. Min(c, s) \in Nat /\ Min(c, s) <= c /\ Min(c, s) <= s
  BY MinIsLess
<1>7. ASSUME NEW ts \in Nat, Covered(from, c, s, ts) PROVE Min(c, s) <= ts
  <2>1. ~ Ahead(from, ts)
    <3>1. \A u \in Node : ~ (u > from)
      BY <1>1, Sizes DEF Node
    <3> QED
      BY <3>1 DEF Ahead
  <2>2. c <= ts \/ s <= ts
    BY <1>7, <2>1 DEF Covered
  <2> QED
    BY <1>6, <2>2
<1>8. ASSUME NEW lp \in LP, NEW ts \in pending[lp] PROVE Min(c, s) <= ts
  <2>1. NodeOf[lp] < from + 1
    <3>1. NodeOf[lp] \in Node
      BY Sizes
    <3> QED
      BY <1>1, <3>1, Sizes DEF Node
  <2>2. ts \in Nat
    BY DEF TokenInv, TypeInv
  <2> QED
    BY <1>5, <1>7, <2>1, <2>2 DEF Behind
<1>9. ASSUME NEW m \in transit PROVE Min(c, s) <= m.ts
  <2>1. m.ts \in Nat
    BY DEF TokenInv, TypeInv, Messages
  <2> QED
    BY <1>2, <1>5, <1>7, <2>1 DEF Behind
<1>10. Bounds(Min(c, s))
  BY <1>8, <1>9, OutstandingIs DEF Bounds, TokenInv
<1> QED
  BY <1>1, <1>4, <1>6, <1>10

(* One node: its least report is the GVT.                                  *)
LEMMA MinimumBounds ==
    ASSUME QueuePerThread, FlagInv, TokenInv, CountInv, CutInv, NEW n \in Node, FinishLocal(n),
           ~ NumNodes > 1
    PROVE  Bounds(LocalMinimum(n))
<1>1. NumNodes = 1 /\ transit = {} /\ n = 0
  BY Sizes DEF CountInv, Node
<1>2. ASSUME NEW lp \in LP, NEW ts \in pending[lp] PROVE LocalMinimum(n) <= ts
  <2>1. NodeOf[lp] = n
    BY <1>1, Sizes DEF Node
  <2>2. ~ Spoiled(n) /\ ~ HeldCovers(n, ts)
    BY DEF Spoiled, HeldCovers, Covered
  <2> QED
    BY <2>1, <2>2, AllReported
<1> QED
  BY <1>1, <1>2, OutstandingIs DEF Bounds, TokenInv

(* The invariant of the GVTs.                                              *)
FloorInv == /\ \A g \in Nat : IsFloor(g) => Under(g)
            /\ \A n \in Node : \A g \in Sent(n) : gVT[n] <= g

(* What a step does to the GVTs, given or on their way.                    *)
Grows == /\ \A n \in Node : gVT'[n] >= gVT[n]
         /\ \A n \in Node : \A g \in Sent(n)' : gVT'[n] <= g

LEMMA FloorsStay ==
    ASSUME TypeInv, FloorInv, \A g \in Nat : Under(g) => Under(g)',
           gVT' = gVT, \A n \in Node : Sent(n)' = Sent(n)
    PROVE  FloorInv' /\ Grows
<1>1. \A n \in Node : gVT[n] \in Nat
  BY DEF TypeInv
<1> QED
  BY <1>1 DEF FloorInv, Grows, IsFloor

LEMMA FloorFinish ==
    ASSUME QueuePerThread, FlagInv, TokenInv, TypeInv', CountInv, ClientInv, Capped, CutInv,
           FloorInv, FromWork, \A g \in Nat : Under(g) => Under(g)',
           NEW n \in Node, FinishLocal(n)
    PROVE  FloorInv' /\ Grows
<1>0. TypeInv
  BY DEF TokenInv
<1>1. /\ \A m \in Node : Sent(m)' = Sent(m)
      /\ ~ NumNodes > 1 => \A m \in Node : Toks(m)' = {}
  BY TokenFinish
<1>2. CASE NumNodes > 1
  BY <1>0, <1>1, <1>2, FloorsStay DEF FinishLocal
<1>3. CASE ~ NumNodes > 1
  <2>1. PICK l \in Nat : l = LocalMinimum(n)
    BY <1>0, LocalMinimumIsLess
  <2>2. n = 0 /\ Node = {0}
    BY <1>3, Sizes DEF Node
  <2>3. gVT'[n] = l
    BY <1>0, <1>3, <2>1 DEF FinishLocal, TypeInv
  <2>4. \A m \in Node : Sent(m) = {}
    BY <1>3, InLinks DEF TokenInv, Awaits
  <2>5. Bounds(l) /\ Bounds(l)'
    BY <1>0, <1>3, <2>1, MinimumBounds, BoundsKept
  <2>6. l <= Infinity
    <3>1. PICK w \in NodeWorkers(n) : l = local_min[w]
      BY <1>0, <2>1, LocalMinimumIsLess
    <3> QED
      BY <3>1 DEF Capped, NodeWorkers
  <2>7. ~ started_local_gvt'[n] /\ mpc'[n] # "store"
    BY <1>0 DEF FinishLocal, TypeInv
  <2>8. Under(l)'
    BY <1>1, <1>3, <2>2, <2>5, <2>6, <2>7, OwnNode
       DEF Under, UnderNodes, UnderClocks, UnderTokens, UnderWorkers
  <2>9. gVT[n] \in Nat /\ gVT[n] <= l
    <3>1. PICK g \in Nat : g = gVT[n]
      BY <1>0 DEF TypeInv
    <3>2. Under(g)
      BY <3>1 DEF FloorInv, IsFloor
    <3> QED
      BY <2>1, <3>1, <3>2, UnderMinimum
  <2> QED
    BY <1>1, <2>2, <2>3, <2>4, <2>8, <2>9 DEF FloorInv, Grows, IsFloor
<1> QED
  BY <1>2, <1>3

LEMMA FloorEnds ==
    ASSUME TokenInv, TypeInv', CountInv, Capped, CutInv,
           FloorInv, FromWork, \A g \in Nat : Under(g) => Under(g)',
           NEW from \in Node, InitiatorReceivesToken(from)
    PROVE  FloorInv' /\ Grows
<1>0. TypeInv
  BY DEF TokenInv
<1>1. gVT' = gVT
  BY DEF InitiatorReceivesToken
<1>2. CASE ~ (Head(control[<<from, 0>>]).count <= 0)
  BY <1>0, <1>1, <1>2, TokenAround, FloorsStay
<1>3. CASE Head(control[<<from, 0>>]).count <= 0
  <2>1. PICK t : t = Head(control[<<from, 0>>])
    OBVIOUS
  <2>2. /\ t \in Toks(from) /\ t \in Tokens
        /\ Min(t.m_clock, t.m_send) \in Nat /\ Bounds(Min(t.m_clock, t.m_send))
    BY <1>3, <2>1, AnswerBounds
  <2>3. PICK h \in Nat : h = Min(t.m_clock, t.m_send)
    BY <2>2
  <2>4. \A m \in Node : Sent(m)' = {h}
    BY <1>3, <2>1, <2>3, TokenEnds
  <2>5. h <= Infinity
    <3>1. t.m_clock \in Nat /\ t.m_send \in Nat /\ t.m_clock <= Infinity
      BY <2>2 DEF Capped, Tokens
    <3>2. h <= t.m_clock
      BY <2>3, <3>1, MinIsLess
    <3> QED
      BY <3>1, <3>2, Sizes
  <2>6. Under(h)'
    <3>1. Bounds(h)'
      BY <1>0, <2>2, <2>3, BoundsKept
    <3> QED
      BY <1>3, <2>5, <3>1, UnderEnds
  <2>7. \A m \in Node : gVT[m] \in Nat /\ gVT[m] <= h
    <3>1. ASSUME NEW m \in Node PROVE gVT[m] \in Nat /\ gVT[m] <= h
      <4>1. PICK g \in Nat : g = gVT[m]
        BY <1>0 DEF TypeInv
      <4>2. Under(g)
        BY <4>1 DEF FloorInv, IsFloor
      <4>3. g <= t.m_clock /\ g <= t.m_send
        BY <2>2, <4>2 DEF Under, UnderTokens
      <4>4. h \in {t.m_clock, t.m_send}
        BY <2>3 DEF Min
      <4> QED
        BY <4>1, <4>3, <4>4
    <3> QED
      BY <3>1
  <2>8. ASSUME NEW g \in Nat, IsFloor(g)' PROVE Under(g)'
    <3>1. g = h \/ \E m \in Node : gVT[m] = g
      BY <1>1, <2>4, <2>8 DEF IsFloor
    <3> QED
      BY <2>6, <3>1 DEF FloorInv, IsFloor
  <2> QED
    BY <1>1, <2>4, <2>7, <2>8 DEF FloorInv, Grows
<1> QED
  BY <1>2, <1>3

LEMMA FloorUpdate ==
    ASSUME TokenInv, TypeInv', FloorInv, \A g \in Nat : Under(g) => Under(g)',
           NEW n \in Node, receiveGVTUpdate(n)
    PROVE  FloorInv' /\ Grows
<1>0. TypeInv
  BY DEF TokenInv
<1>1. PICK u : u = Head(control[<<0, n>>])
  OBVIOUS
<1>2. /\ u \in Updates /\ Sent(n) = {u.gvt} /\ Sent(n)' = {}
      /\ \A m \in Node \ {n} : Sent(m)' = Sent(m)
  BY <1>1, TokenUpdate
<1>3. PICK h \in Nat : h = u.gvt
  BY <1>2 DEF Updates
<1>4. gVT' = [gVT EXCEPT ![n] = h]
  BY <1>1, <1>3 DEF receiveGVTUpdate
<1>5. gVT'[n] = h /\ \A m \in Node \ {n} : gVT'[m] = gVT[m]
  BY <1>0, <1>4 DEF TypeInv
<1>6. \A m \in Node : gVT[m] \in Nat
  BY <1>0 DEF TypeInv
<1>7. gVT[n] <= h
  BY <1>2, <1>3 DEF FloorInv
<1>8. ASSUME NEW g \in Nat, IsFloor(g)' PROVE Under(g)'
  <2>1. IsFloor(g)
    BY <1>2, <1>3, <1>5, <1>8 DEF IsFloor
  <2> QED
    BY <2>1 DEF FloorInv
<1>9. ASSUME NEW m \in Node PROVE gVT'[m] >= gVT[m] /\ \A g \in Sent(m)' : gVT'[m] <= g
  <2>1. CASE m = n
    BY <1>2, <1>5, <1>6, <1>7, <2>1
  <2>2. CASE m # n
    BY <1>2, <1>5, <1>6, <2>2 DEF FloorInv
  <2> QED
    BY <2>1, <2>2
<1> QED
  BY <1>8, <1>9 DEF FloorInv, Grows

GVTInv == /\ FlagInv /\ SoleInv /\ TokenInv /\ CountInv /\ ClientInv
          /\ Noted /\ CutInv /\ Capped /\ FloorInv

LEMMA FloorNext ==
    ASSUME QueuePerThread, InOrder, GVTInv, [Next]_vars
    PROVE  FloorInv' /\ Grows
<1>0. TypeInv /\ TypeInv' /\ FromWork
  BY TypesNext, WorkNext DEF GVTInv, TokenInv
<1>10. \A g \in Nat : Under(g) => Under(g)'
  BY UnderNext DEF GVTInv
<1>20. ASSUME UNCHANGED <<gVT, control>> PROVE FloorInv' /\ Grows
  <2>1. \A n \in Node : Sent(n)' = Sent(n)
    BY <1>20, SameLinks DEF GVTInv, TokenInv
  <2> QED
    BY <1>0, <1>10, <1>20, <2>1, FloorsStay DEF GVTInv
<1>1. ASSUME NEW w \in Worker, WorkerStep(w) PROVE FloorInv' /\ Grows
  BY <1>1, <1>20, SteadyWorker DEF GVTInv
<1>2. ASSUME NEW n \in Node, BeginLocal(n) \/ StoreFlag(n) PROVE FloorInv' /\ Grows
  BY <1>2, <1>20 DEF BeginLocal, StoreFlag
<1>3. ASSUME NEW n \in Node, FinishLocal(n) PROVE FloorInv' /\ Grows
  BY <1>0, <1>3, <1>10, FloorFinish DEF GVTInv
<1>4. ASSUME NEW n \in Node, NEW from \in Node, NodeReceivesToken(n, from)
      PROVE  FloorInv' /\ Grows
  <2>1. \A m \in Node : Sent(m)' = Sent(m)
    BY <1>0, <1>4, TokenNode DEF GVTInv
  <2>2. gVT' = gVT
    BY <1>4 DEF NodeReceivesToken
  <2> QED
    BY <1>0, <1>10, <2>1, <2>2, FloorsStay DEF GVTInv
<1>5. ASSUME NEW from \in Node, InitiatorReceivesToken(from) PROVE FloorInv' /\ Grows
  BY <1>0, <1>5, <1>10, FloorEnds DEF GVTInv
<1>6. ASSUME NEW n \in Node, receiveGVTUpdate(n) PROVE FloorInv' /\ Grows
  BY <1>0, <1>6, <1>10, FloorUpdate DEF GVTInv
<1>7. ASSUME NEW m \in transit, ReceiveEvent(m) PROVE FloorInv' /\ Grows
  BY <1>7, <1>20 DEF ReceiveEvent
<1>8. CASE UNCHANGED vars
  BY <1>8, <1>20 DEF vars, globalVars
<1> QED
  BY <1>1, <1>2, <1>3, <1>4, <1>5, <1>6, <1>7, <1>8 DEF Next, ProgressGVT

LEMMA GVTInit ==
    ASSUME Init
    PROVE  GVTInv
<1>1. FlagInv /\ SoleInv /\ TokenInv /\ CountInv /\ ClientInv /\ Noted /\ CutInv
  BY FlagInit, SoleInit, TokenInit, CountInit, ClientInvInit, NotedInit, CutInit
<1>2. TypeInv /\ Links /\ ~ started_global_gvt
  BY <1>1 DEF TokenInv, Init
<1>3. \A n \in Node : Toks(n) = {} /\ ~ Awaits(n) /\ ~ Holds(n) /\ gVT[n] = 0
  <2>1. \A n \in Node : Toks(n) = {}
    BY <1>1, <1>2 DEF TokenInv, Ring
  <2>2. \A n \in Node : control[<<0, n>>] = <<>>
    BY Sizes DEF Init
  <2>3. \A n \in Node : ~ Awaits(n)
    BY <2>2, QueueOfNone DEF Awaits, Sent
  <2> QED
    BY <2>1, <2>3 DEF Init, Holds
<1>4. \A w \in Worker : send_min[w] = Infinity /\ local_min[w] = Infinity
  BY DEF Init
<1>5. Infinity \in Nat /\ Infinity <= Infinity /\ 0 <= Infinity
  BY Sizes
<1>6. Capped
  BY <1>3, <1>4, <1>5 DEF Capped
<1>7. Bounds(0)
  BY <1>2, OutstandingIs DEF Bounds
<1>8. \A n \in Node : global_min_clock[n] \in Nat
  BY <1>2 DEF TypeInv
<1>9. Under(0)
  BY <1>2, <1>3, <1>4, <1>5, <1>7, <1>8
     DEF Under, UnderNodes, UnderClocks, UnderTokens, UnderWorkers, IsRed
<1>10. \A n \in Node : Sent(n) = {}
  BY <1>3 DEF Awaits
<1>11. FloorInv
  BY <1>3, <1>9, <1>10 DEF FloorInv, IsFloor
<1> QED
  BY <1>1, <1>6, <1>11 DEF GVTInv

(* Where a node has one worker, and there are up to two nodes, this says   *)
(* nothing of the timing.                                                  *)
Orderly == Punctual /\ InOrder /\ QueuePerThread

LEMMA GVTNext ==
    ASSUME Orderly, GVTInv, [Next]_vars
    PROVE  GVTInv' /\ Grows /\ FromWork
<1>0. Punctual /\ InOrder /\ QueuePerThread
  BY DEF Orderly
<1>1. FlagInv' /\ SoleInv'
  BY <1>0, FlagNext, SoleNext DEF GVTInv
<1>2. TokenInv' /\ CountInv' /\ Noted'
  BY <1>0, TokenNext, CountNext, NotedNext DEF GVTInv
<1>3. ClientInv' /\ FromWork
  BY <1>0, ClientNext, WorkNext DEF GVTInv, TokenInv
<1>4. CutInv' /\ Capped'
  BY <1>0, CutNext, CappedNext DEF GVTInv
<1>5. FloorInv' /\ Grows
  BY <1>0, FloorNext
<1> QED
  BY <1>1, <1>2, <1>3, <1>4, <1>5 DEF GVTInv

LEMMA GVTBounds ==
    ASSUME GVTInv
    PROVE  GVTIsLowerBound
<1>1. ASSUME NEW n \in Node PROVE Bounds(gVT[n])
  <2>1. PICK g \in Nat : g = gVT[n]
    BY DEF GVTInv, TokenInv, TypeInv
  <2>2. Bounds(g)
    BY <2>1 DEF GVTInv, FloorInv, IsFloor, Under
  <2> QED
    BY <2>1, <2>2
<1> QED
  BY <1>1 DEF GVTIsLowerBound

LEMMA UpdateBounds ==
    ASSUME GVTInv
    PROVE  UpdateIsLowerBound
<1>1. ASSUME NEW a \in Node, NEW b \in Node, NEW i \in DOMAIN control[<<a, b>>],
             control[<<a, b>>][i].type = "update"
      PROVE  Bounds(control[<<a, b>>][i].gvt)
  <2>1. PICK q : q = control[<<a, b>>]
    OBVIOUS
  <2>2. q[i].gvt \in UpdatesIn(q)
    BY <1>1, <2>1 DEF UpdatesIn
  <2>3. a = 0
    BY <2>1, <2>2 DEF GVTInv, TokenInv, Links
  <2>4. PICK g : g = q[i].gvt
    OBVIOUS
  <2>5. g \in Sent(b) /\ g \in Nat
    <3>1. g \in Sent(b)
      BY <2>1, <2>2, <2>3, <2>4 DEF Sent
    <3> QED
      BY <3>1, InLinks DEF GVTInv, TokenInv
  <2>6. Bounds(g)
    BY <2>5 DEF GVTInv, FloorInv, IsFloor, Under
  <2> QED
    BY <2>1, <2>4, <2>6
<1>2. ASSUME NEW link \in Node \X Node, NEW i \in DOMAIN control[link],
             control[link][i].type = "update"
      PROVE  Bounds(control[link][i].gvt)
  <2>1. PICK a \in Node, b \in Node : link = <<a, b>>
    OBVIOUS
  <2> QED
    BY <1>1, <1>2, <2>1
<1> QED
  BY <1>2 DEF UpdateIsLowerBound

LEMMA GVTIsLowerBoundOrderly ==
    ASSUME Orderly
    PROVE  Spec => []GVTIsLowerBound
<1>1. Init => GVTInv
  BY GVTInit
<1>2. GVTInv /\ [Next]_vars => GVTInv'
  BY GVTNext
<1>3. GVTInv => GVTIsLowerBound
  BY GVTBounds
<1> QED
  BY <1>1, <1>2, <1>3, PTL DEF Spec

(* On one or two nodes with a worker thread each, no node's GVT ever       *)
(* passes an event that is pending anywhere or on its way, however late    *)
(* worker, master and messages are (progressGVT, sendEventUpdate,          *)
(* receiveMatternGVTToken; the assertion of rollback).                     *)
THEOREM SpecGVTIsLowerBound ==
    ASSUME NumNodes <= 2, NumWorkers = 1, NumSchedulers = 1, ~ LpMigration
    PROVE  Spec => []GVTIsLowerBound
  BY GVTIsLowerBoundOrderly DEF Orderly, Punctual, InOrder, QueuePerThread

LEMMA UpdateIsLowerBoundOrderly ==
    ASSUME Orderly
    PROVE  Spec => []UpdateIsLowerBound
<1>1. Init => GVTInv
  BY GVTInit
<1>2. GVTInv /\ [Next]_vars => GVTInv'
  BY GVTNext
<1>3. GVTInv => UpdateIsLowerBound
  BY UpdateBounds
<1> QED
  BY <1>1, <1>2, <1>3, PTL DEF Spec

(* There, the initiator's GVT is a lower bound from the moment it is sent  *)
(* out, not only where it has arrived (sendGVTUpdate, receiveGVTUpdate).   *)
THEOREM SpecUpdateIsLowerBound ==
    ASSUME NumNodes <= 2, NumWorkers = 1, NumSchedulers = 1, ~ LpMigration
    PROVE  Spec => []UpdateIsLowerBound
  BY UpdateIsLowerBoundOrderly DEF Orderly, Punctual, InOrder, QueuePerThread

(* Every step is one of the service's.                                     *)
LEMMA ServiceStep ==
    ASSUME Orderly, GVTInv, [Next]_vars
    PROVE  GVTInv' /\ [Service!Next]_(Service!vars)
<1>1. GVTInv' /\ Grows /\ FromWork
  BY GVTNext
<1>2. CASE gVT' = gVT
  <2>1. Service!Work
    BY <1>1, <1>2 DEF FromWork, Service!Work
  <2> QED
    BY <1>1, <2>1 DEF Service!Next
<1>3. CASE gVT' # gVT
  <2>1. PICK n \in Node : ProgressGVT(n)
    <3>1. \A w \in Worker : WorkerStep(w) => gVT' = gVT
      BY SteadyWorker DEF GVTInv
    <3>2. \A m \in transit : ReceiveEvent(m) => gVT' = gVT
      BY DEF ReceiveEvent
    <3>3. UNCHANGED vars => gVT' = gVT
      BY DEF vars, globalVars
    <3> QED
      BY <1>3, <3>1, <3>2, <3>3 DEF Next
  <2>2. UNCHANGED <<pending, transit>>
    BY <2>1, MasterKeepsClient DEF clientVars
  <2>3. OutstandingTimes' = OutstandingTimes
    BY <2>2 DEF OutstandingTimes
  <2>4. gVT' \in [Node -> Nat]
    BY <1>1 DEF GVTInv, TokenInv, TypeInv
  <2>5. ASSUME NEW k \in Node, NEW t \in OutstandingTimes PROVE gVT'[k] <= t
    <3>1. PICK g \in Nat : g = gVT'[k]
      BY <2>4
    <3>2. Under(g)'
      BY <1>1, <3>1 DEF GVTInv, FloorInv, IsFloor
    <3>3. Bounds(g)'
      BY <3>2 DEF Under
    <3> QED
      BY <2>3, <2>5, <3>1, <3>3 DEF Bounds
  <2>7. Service!Advance
    BY <1>1, <2>3, <2>4, <2>5 DEF Service!Advance, Grows
  <2> QED
    BY <1>1, <2>7 DEF Service!Next
<1> QED
  BY <1>2, <1>3

LEMMA ImplementsServiceOrderly ==
    ASSUME Orderly
    PROVE  Spec => ImplementsGVTService
<1>1. Init => GVTInv
  BY GVTInit
<1>2. Init => Service!Init
  <2> SUFFICES ASSUME Init PROVE Service!Init
    OBVIOUS
  <2>1. OutstandingTimes \in SUBSET Nat
    BY TypesInit, OutstandingIs
  <2> QED
    BY <2>1 DEF Init, Service!Init
<1>3. GVTInv /\ [Next]_vars => GVTInv' /\ [Service!Next]_(Service!vars)
  BY ServiceStep
<1> QED
  BY <1>1, <1>2, <1>3, PTL DEF Spec, ImplementsGVTService, Service!Spec

(* There the manager and the engine keep the promises of GVTService: no    *)
(* node's GVT goes back or passes what is outstanding, and nothing comes   *)
(* up that is earlier than all that was outstanding (progressGVT,          *)
(* receiveMatternGVTToken, receiveGVTUpdate, setGvt).                      *)
THEOREM SpecImplementsGVTService ==
    ASSUME NumNodes <= 2, NumWorkers = 1, NumSchedulers = 1, ~ LpMigration
    PROVE  Spec => ImplementsGVTService
  BY ImplementsServiceOrderly DEF Orderly, Punctual, InOrder, QueuePerThread
=============================================================================
