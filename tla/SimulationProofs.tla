-------------------------- MODULE SimulationProofs --------------------------
(***************************************************************************)
(* For any number of processes and LPs, any settings and any crashes: a    *)
(* simulation comes up only where the processes agree, and a restart finds *)
(* what was archived.                                                      *)
(*                                                                         *)
(* At the end two small modules that the running simulation rests on, the  *)
(* GVT service and the ticket lock, with variables of their own.           *)
(***************************************************************************)
EXTENDS Simulation, FiniteSetTheorems, FunctionTheorems, TLAPS

-----------------------------------------------------------------------------
(* The partitioner: every LP gets one partition, however many LPs,         *)
(* partitions and whatever block size there are: the two loops over blocks *)
(* and the loop over the rest together reach every index of the vector     *)
(* once.                                                                   *)

(* What division by the block size returns.                                *)
LEMMA Division ==
    ASSUME NEW n \in Nat, NEW b \in Nat \ {0}
    PROVE  /\ n \div b \in Nat
           /\ b * (n \div b) <= n
           /\ n < b * (n \div b) + b
  BY SMTT(20)

(* The blocks lie one after the other.                                     *)
LEMMA BlocksInOrder ==
    ASSUME NEW i \in Int, NEW k \in Int, NEW b \in Nat \ {0}, i < k
    PROVE  b * i + b <= b * k
  BY SMTT(20)

(* An index determines its block and its place there.                      *)
LEMMA OnePlacePerIndex ==
    ASSUME NEW b \in Nat \ {0}, NEW i \in Int, NEW k \in Int,
           NEW j \in 0 .. b - 1, NEW l \in 0 .. b - 1,
           b * i + j = b * k + l
    PROVE  i = k /\ j = l
  BY SMTT(20)

(* The block size is at least one and at most the number of LPs, when      *)
(* there are as many LPs as partitions.                                    *)
THEOREM BlockSizeFits ==
    ASSUME NEW n \in Nat, NEW num_partitions \in Nat \ {0}, num_partitions <= n,
           NEW size \in Nat
    PROVE  BlockSize(size, n, num_partitions) \in 1 .. n
<1> DEFINE q == n \div num_partitions
<1>1. /\ q \in Nat
      /\ num_partitions * q <= n
      /\ n < num_partitions * q + num_partitions
  BY Division DEF q
<1>2. q # 0
  <2> SUFFICES ASSUME q = 0 PROVE FALSE
    OBVIOUS
  <2>1. num_partitions * 0 = 0
    BY SMT
  <2> QED
    BY <1>1, <2>1
<1>3. q <= num_partitions * q
  BY <1>1, SMTT(20)
<1>4. q \in 1 .. n
  BY <1>1, <1>2, <1>3, SMTT(20)
<1> HIDE DEF q
<1>5. BlockSize(size, n, num_partitions) = IF size = 0 \/ size > q THEN q ELSE size
  BY DEF BlockSize, q
<1> QED
  BY <1>4, <1>5

(* The indices the loops reach are indices of the vector: `lps[...]' is    *)
(* never out of bounds.                                                    *)
THEOREM DealsInRange ==
    ASSUME NEW n \in Nat, NEW b \in 1 .. n, NEW d \in Deals(n, b)
    PROVE  Index(b, d) \in 0 .. n - 1
<1> DEFINE q == n \div b
<1>1. q \in Nat /\ b * q <= n /\ n < b * q + b
  BY Division DEF q
<1>2. q # 0
  <2> SUFFICES ASSUME q = 0 PROVE FALSE
    OBVIOUS
  <2>1. b * 0 = 0
    BY SMT
  <2> QED
    BY <1>1, <2>1
<1> HIDE DEF q
<1>3. CASE d \in DealBlocks(n, b)
  <2>1. d[1] \in 0 .. q - 1 /\ d[2] \in 0 .. b - 1
    BY <1>3 DEF DealBlocks, q
  <2>2. b * d[1] + b <= b * q
    BY <2>1, <1>1, BlocksInOrder
  <2>3. b * d[1] \in Nat /\ b * q \in Nat
    BY <2>1, <1>1, SMTT(20)
  <2> QED
    BY <2>1, <2>2, <2>3, <1>1 DEF Index
<1>4. CASE d \in DealRest(n, b)
  <2>1. d[1] = q - 1 /\ d[2] \in b .. n /\ b * (q - 1) + d[2] < n
    BY <1>4 DEF DealRest, q
  <2>2. b * (q - 1) \in Nat
    BY <1>1, <1>2, SMTT(20)
  <2> QED
    BY <2>1, <2>2 DEF Index
<1> QED
  BY <1>3, <1>4 DEF Deals

(* No LP is forgotten: every index of the vector is reached, in a block or *)
(* as one of those left over.                                              *)
THEOREM EveryLPDealt ==
    ASSUME NEW n \in Nat, NEW b \in 1 .. n, NEW k \in 0 .. n - 1
    PROVE  \E d \in Deals(n, b) : Index(b, d) = k
<1> DEFINE q == n \div b
           i == k \div b
<1>1. /\ q \in Nat /\ b * q <= n /\ n < b * q + b
      /\ i \in Nat /\ b * i <= k /\ k < b * i + b
  BY Division DEF q, i
<1> HIDE DEF i, q
<1>2. CASE i < q
  <2>1. b * i \in Nat
    BY <1>1, SMTT(20)
  <2>2. i \in 0 .. q - 1 /\ k - b * i \in 0 .. b - 1
    BY <1>1, <1>2, <2>1
  <2>3. <<i, k - b * i>> \in DealBlocks(n, b)
    BY <2>2 DEF DealBlocks, q
  <2>4. Index(b, <<i, k - b * i>>) = k
    BY <2>1 DEF Index
  <2> QED
    BY <2>3, <2>4 DEF Deals
<1>3. CASE ~ (i < q)
  <2>1. b * q <= b * i
    <3>1. CASE q = i
      BY <3>1, <1>1, SMTT(20)
    <3>2. CASE q < i
      <4>1. b * q + b <= b * i
        BY <1>1, <3>2, BlocksInOrder
      <4>2. b * q \in Nat /\ b * i \in Nat
        BY <1>1, SMTT(20)
      <4> QED
        BY <4>1, <4>2
    <3> QED
      BY <1>1, <1>3, <3>1, <3>2
  <2>2. b * (q - 1) = b * q - b /\ b * q \in Nat /\ b * i \in Nat
    BY <1>1, SMTT(20)
  <2> DEFINE j == k - b * (q - 1)
  <2>3. j \in b .. n /\ b * (q - 1) + j = k
    <3>1. q # 0
      <4> SUFFICES ASSUME q = 0 PROVE FALSE
        OBVIOUS
      <4>1. b * 0 = 0
        BY SMT
      <4> QED
        BY <1>1, <4>1
    <3>2. b <= b * q
      BY <1>1, <3>1, SMTT(20)
    <3> QED
      BY <1>1, <2>1, <2>2, <3>2
  <2> HIDE DEF j
  <2>4. <<q - 1, j>> \in DealRest(n, b)
    BY <2>3 DEF DealRest, q
  <2>5. Index(b, <<q - 1, j>>) = k
    BY <2>3 DEF Index
  <2> QED
    BY <2>4, <2>5 DEF Deals
<1> QED
  BY <1>2, <1>3

(* No LP is dealt twice, neither by the two loops nor by one of them.      *)
THEOREM DealtOnce ==
    ASSUME NEW n \in Nat, NEW b \in 1 .. n,
           NEW d \in Deals(n, b), NEW e \in Deals(n, b),
           Index(b, d) = Index(b, e)
    PROVE  d = e
<1> DEFINE q == n \div b
<1>1. q \in Nat
  BY Division DEF q
<1> HIDE DEF q
<1>2. ASSUME NEW f \in DealBlocks(n, b)
      PROVE  /\ f = <<f[1], f[2]>> /\ f[1] \in Int /\ f[2] \in 0 .. b - 1
             /\ Index(b, f) \in Int /\ Index(b, f) < b * q
  <2>1. f = <<f[1], f[2]>> /\ f[1] \in 0 .. q - 1 /\ f[2] \in 0 .. b - 1
    BY DEF DealBlocks, q
  <2>2. f[1] \in Int /\ q \in Int /\ f[1] < q
    BY <1>1, <2>1
  <2>3. b * f[1] + b <= b * q
    BY <2>2, BlocksInOrder
  <2>4. b * f[1] \in Int /\ b * q \in Int
    BY <1>1, <2>1, SMTT(20)
  <2> QED
    BY <2>1, <2>3, <2>4 DEF Index
<1>3. ASSUME NEW f \in DealRest(n, b)
      PROVE  /\ f = <<q - 1, f[2]>> /\ f[2] \in Int
             /\ Index(b, f) = b * (q - 1) + f[2] /\ Index(b, f) >= b * q
             /\ b * (q - 1) \in Int
  <2>1. f = <<q - 1, f[2]>> /\ f[1] = q - 1 /\ f[2] \in b .. n
    BY DEF DealRest, q
  <2>2. b * (q - 1) = b * q - b /\ b * q \in Int
    BY <1>1, SMTT(20)
  <2> QED
    BY <2>1, <2>2 DEF Index
<1>4. CASE d \in DealBlocks(n, b) /\ e \in DealBlocks(n, b)
  <2>1. d[1] = e[1] /\ d[2] = e[2]
    BY <1>2, <1>4, OnePlacePerIndex DEF Index
  <2> QED
    BY <1>2, <1>4, <2>1
<1>5. CASE d \in DealRest(n, b) /\ e \in DealRest(n, b)
  BY <1>3, <1>5
<1>6. b * q \in Int
  BY <1>1, SMTT(20)
<1>7. CASE d \in DealBlocks(n, b) /\ e \in DealRest(n, b)
  BY <1>2, <1>3, <1>6, <1>7
<1>8. CASE d \in DealRest(n, b) /\ e \in DealBlocks(n, b)
  BY <1>2, <1>3, <1>6, <1>8
<1> QED
  BY <1>4, <1>5, <1>7, <1>8 DEF Deals

(* Every LP is in one partition and in no other.                           *)
THEOREM OnePartitionPerLP ==
    ASSUME NEW n \in Nat, NEW b \in 1 .. n, NEW num_partitions \in Nat \ {0},
           NEW k \in 0 .. n - 1
    PROVE  \E p \in 0 .. num_partitions - 1 :
              /\ k \in DealtTo(p, n, b, num_partitions)
              /\ \A r \in 0 .. num_partitions - 1 :
                    k \in DealtTo(r, n, b, num_partitions) => r = p
<1>1. PICK d \in Deals(n, b) : Index(b, d) = k
  BY EveryLPDealt
<1>2. d[1] \in Int /\ d[2] \in Int
  <2>1. n \div b \in Nat
    BY Division
  <2> QED
    BY <2>1 DEF Deals, DealBlocks, DealRest
<1> DEFINE p == Target(b, num_partitions, d)
<1>3. p \in 0 .. num_partitions - 1
  BY <1>2 DEF Target
<1>4. k \in DealtTo(p, n, b, num_partitions)
  BY <1>1 DEF DealtTo
<1>5. ASSUME NEW r \in 0 .. num_partitions - 1, k \in DealtTo(r, n, b, num_partitions)
      PROVE  r = p
  <2>1. PICK e \in Deals(n, b) : Target(b, num_partitions, e) = r /\ k = Index(b, e)
    BY <1>5 DEF DealtTo
  <2>2. e = d
    BY <1>1, <2>1, DealtOnce
  <2> QED
    BY <2>1, <2>2
<1> QED
  BY <1>3, <1>4, <1>5

(* InOrder is a sequence of the elements at those indices, all of them: an *)
(* index's rank among the indices is its place.                            *)
THEOREM InOrderElements ==
    ASSUME NEW seq, NEW S \in SUBSET Int, IsFiniteSet(S)
    PROVE  /\ InOrder(seq, S) \in Seq({seq[1 + x] : x \in S})
           /\ {InOrder(seq, S)[k] : k \in DOMAIN InOrder(seq, S)} = {seq[1 + x] : x \in S}
<1> DEFINE c        == Cardinality(S)
           below(x) == {y \in S : y < x}
           rank     == [x \in S |-> Cardinality(below(x))]
           at(k)    == CHOOSE x \in S : Cardinality(below(x)) = k - 1
<1>1. c \in Nat
  BY FS_CardinalityType
<1>2. ASSUME NEW x \in S
      PROVE  IsFiniteSet(below(x)) /\ Cardinality(below(x)) \in 0 .. c - 1
  <2>1. below(x) \in SUBSET S /\ below(x) # S
    OBVIOUS
  <2>2. /\ IsFiniteSet(below(x))
        /\ Cardinality(below(x)) <= c
        /\ c = Cardinality(below(x)) => S = below(x)
    BY <2>1, FS_Subset
  <2>3. Cardinality(below(x)) \in Nat
    BY <2>2, FS_CardinalityType
  <2> QED
    BY <1>1, <2>1, <2>2, <2>3
<1>3. ASSUME NEW x \in S, NEW y \in S, x < y
      PROVE  Cardinality(below(x)) < Cardinality(below(y))
  <2> x \in Int /\ y \in Int
    OBVIOUS
  <2>3. ASSUME NEW z \in below(x) PROVE z \in below(y)
    <3>1. z \in S /\ z \in Int /\ z < x
      OBVIOUS
    <3> QED
      BY <3>1, <1>3
  <2>4. x \in below(y) /\ x \notin below(x)
    BY <1>3
  <2>1. below(x) \in SUBSET below(y) /\ below(x) # below(y)
    BY <2>3, <2>4, Zenon
  <2>2. /\ Cardinality(below(x)) <= Cardinality(below(y))
        /\ Cardinality(below(y)) = Cardinality(below(x)) => below(y) = below(x)
    BY <1>2, <2>1, FS_Subset
  <2> QED
    BY <1>2, <2>1, <2>2
<1>4. rank \in [S -> 0 .. c - 1]
  BY <1>2
<1>5. \A x, y \in S : rank[x] = rank[y] => x = y
  <2> TAKE x \in S, y \in S
  <2>1. x = y \/ x < y \/ y < x
    OBVIOUS
  <2>2. Cardinality(below(x)) \in Int /\ Cardinality(below(y)) \in Int
    BY <1>2
  <2> QED
    BY <2>1, <2>2, <1>3
<1>6. IsFiniteSet(0 .. c - 1) /\ Cardinality(0 .. c - 1) = c
  BY <1>1, FS_Interval
<1>7. rank \in Surjection(S, 0 .. c - 1)
  <2>1. rank \in Injection(S, 0 .. c - 1)
    BY <1>4, <1>5, Fun_IsInj
  <2> QED
    BY <1>6, <2>1, FS_Injection
<1>8. \A t \in 0 .. c - 1 : \E x \in S : Cardinality(below(x)) = t
  <2>1. \A t \in 0 .. c - 1 : \E x \in S : rank[x] = t
    <3> HIDE DEF rank
    <3> QED
      BY <1>7 DEF Surjection
  <2> QED
    BY <2>1
<1>9. \A k \in 1 .. c : at(k) \in S
  <2> TAKE k \in 1 .. c
  <2>1. k - 1 \in 0 .. c - 1
    BY <1>1
  <2>2. \E x \in S : Cardinality(below(x)) = k - 1
    BY <1>8, <2>1
  <2> QED
    BY <2>2
<1>10. \A x \in S : \E k \in 1 .. c : at(k) = x
  <2> TAKE x \in S
  <2> DEFINE k == Cardinality(below(x)) + 1
  <2>1. k \in 1 .. c /\ k - 1 = Cardinality(below(x))
    BY <1>1, <1>2
  <2> HIDE DEF k
  <2>2. \A y \in S : Cardinality(below(y)) = k - 1 => y = x
    BY <1>5, <2>1
  <2>3. at(k) = x
    BY <2>1, <2>2
  <2> QED
    BY <2>1, <2>3
<1>11. InOrder(seq, S) = [k \in 1 .. c |-> seq[1 + at(k)]]
  BY DEF InOrder
<1> HIDE DEF at, below, rank, c
<1>12. {seq[1 + at(k)] : k \in 1 .. c} = {seq[1 + x] : x \in S}
  BY <1>9, <1>10
<1>13. DOMAIN InOrder(seq, S) = 1 .. c /\ \A k \in 1 .. c : InOrder(seq, S)[k] = seq[1 + at(k)]
  BY <1>11
<1>14. {InOrder(seq, S)[k] : k \in DOMAIN InOrder(seq, S)} = {seq[1 + at(k)] : k \in 1 .. c}
  BY <1>13
<1>15. InOrder(seq, S) \in [1 .. c -> {seq[1 + x] : x \in S}]
  BY <1>9, <1>11
<1>16. InOrder(seq, S) \in Seq({seq[1 + x] : x \in S})
  <2> DEFINE T == {seq[1 + x] : x \in S}
             f == InOrder(seq, S)
  <2>1. f \in [1 .. c -> T]
    BY <1>15
  <2> HIDE DEF T, f
  <2>2. f \in Seq(T)
    BY <1>1, <2>1
  <2> QED
    BY <2>2 DEF T, f
<1> QED
  BY <1>12, <1>14, <1>16, Zenon

(* partition() splits a vector of distinct LPs: each partition is a vector *)
(* of some of them, and every LP is in one of the partitions only.         *)
THEOREM PartitionSplits ==
    ASSUME NEW n \in Nat, NEW num_partitions \in Nat \ {0}, num_partitions <= n,
           NEW size \in Nat
    PROVE  LET parts       == partition([k \in 1 .. n |-> k], num_partitions, size)
               elements(p) == {parts[p][k] : k \in DOMAIN parts[p]}
           IN  /\ \A p \in 0 .. num_partitions - 1 : parts[p] \in Seq(1 .. n)
               /\ \A lp \in 1 .. n : \E p \in 0 .. num_partitions - 1 :
                     /\ lp \in elements(p)
                     /\ \A r \in 0 .. num_partitions - 1 : lp \in elements(r) => r = p
<1> DEFINE v           == [k \in 1 .. n |-> k]
           b           == BlockSize(size, n, num_partitions)
           dealt(p)    == DealtTo(p, n, b, num_partitions)
           parts       == partition(v, num_partitions, size)
           elements(p) == {parts[p][k] : k \in DOMAIN parts[p]}
<1>1. b \in 1 .. n
  BY BlockSizeFits
<1> HIDE DEF b
<1>2. ASSUME NEW p \in 0 .. num_partitions - 1
      PROVE  dealt(p) \in SUBSET (0 .. n - 1)
  BY <1>1, DealsInRange DEF DealtTo
<1>3. ASSUME NEW lp \in 1 .. n
      PROVE  \E p \in 0 .. num_partitions - 1 :
                /\ lp - 1 \in dealt(p)
                /\ \A r \in 0 .. num_partitions - 1 : lp - 1 \in dealt(r) => r = p
  <2>1. lp - 1 \in 0 .. n - 1
    OBVIOUS
  <2> QED
    BY <1>1, <2>1, OnePartitionPerLP
<1> HIDE DEF dealt
<1>4. Len(v) = n
  OBVIOUS
<1>5. parts = [p \in 0 .. num_partitions - 1 |-> InOrder(v, dealt(p))]
  BY <1>4 DEF partition, dealt, b
<1> HIDE DEF parts
<1>6. ASSUME NEW p \in 0 .. num_partitions - 1
      PROVE  /\ parts[p] \in Seq({v[1 + x] : x \in dealt(p)})
             /\ elements(p) = {v[1 + x] : x \in dealt(p)}
  <2>1. dealt(p) \in SUBSET Int /\ IsFiniteSet(dealt(p))
    <3>1. IsFiniteSet(0 .. n - 1)
      BY FS_Interval
    <3> QED
      BY <1>2, <3>1, FS_Subset
  <2>2. parts[p] = InOrder(v, dealt(p))
    BY <1>5
  <2> HIDE DEF v
  <2> DEFINE q == InOrder(v, dealt(p))
  <2>3. /\ q \in Seq({v[1 + x] : x \in dealt(p)})
        /\ {q[k] : k \in DOMAIN q} = {v[1 + x] : x \in dealt(p)}
    BY <2>1, InOrderElements
  <2>4. parts[p] = q
    BY <2>2
  <2> HIDE DEF q
  <2> QED
    BY <2>3, <2>4
<1> HIDE DEF elements
<1>7. ASSUME NEW p \in 0 .. num_partitions - 1
      PROVE  /\ \A lp \in 1 .. n : lp \in elements(p) <=> lp - 1 \in dealt(p)
             /\ parts[p] \in Seq(1 .. n)
  <2>1. \A x \in dealt(p) : x \in 0 .. n - 1
    BY <1>2
  <2>2. \A x \in 0 .. n - 1 : v[1 + x] = 1 + x
    OBVIOUS
  <2> HIDE DEF v
  <2>3. \A x \in dealt(p) : v[1 + x] = 1 + x
    BY <2>1, <2>2
  <2>4. elements(p) = {1 + x : x \in dealt(p)}
    BY <1>6, <2>3
  <2>5. parts[p] \in Seq(1 .. n)
    <3>1. {v[1 + x] : x \in dealt(p)} \subseteq 1 .. n
      BY <2>1, <2>3
    <3> DEFINE T == {v[1 + x] : x \in dealt(p)}
    <3>2. parts[p] \in Seq(T) /\ T \subseteq 1 .. n
      BY <1>6, <3>1
    <3> HIDE DEF T
    <3> DEFINE c == Len(parts[p])
    <3>3. c \in Nat /\ parts[p] \in [1 .. c -> T]
      BY <3>2
    <3>4. parts[p] \in [1 .. c -> 1 .. n]
      <4> HIDE DEF c
      <4> QED
        BY <3>2, <3>3
    <3> HIDE DEF c
    <3> QED
      BY <3>3, <3>4
  <2>6. ASSUME NEW lp \in 1 .. n PROVE lp \in elements(p) <=> lp - 1 \in dealt(p)
    <3>1. lp \in elements(p) <=> \E x \in dealt(p) : lp = 1 + x
      BY <2>4
    <3>2. \A x \in dealt(p) : lp = 1 + x <=> x = lp - 1
      BY <2>1
    <3> QED
      BY <3>1, <3>2
  <2> QED
    BY <2>5, <2>6
<1>9. \A lp \in 1 .. n : \E p \in 0 .. num_partitions - 1 :
         /\ lp \in elements(p)
         /\ \A r \in 0 .. num_partitions - 1 : lp \in elements(r) => r = p
  BY <1>3, <1>7
<1> QED
  BY <1>6, <1>7, <1>9 DEF parts, elements

-----------------------------------------------------------------------------
(* The set-up of the processes.                                            *)

(* The LPs of a process.                                                   *)
Own(n) == partitioned_lps(n)[n]

-----------------------------------------------------------------------------
(* The inductive invariant, in parts.                                      *)

(* What nothing changes.                                                   *)
Chosen ==
    /\ \E m \in LPCounts : lps = [k \in 1 .. m |-> k]
    /\ blocksize \in [Process -> BlockSizes]

Domains ==
    /\ DOMAIN pc = Process /\ DOMAIN own = Process /\ DOMAIN flattened = Process
    /\ DOMAIN node_id_by_lp_name = Process /\ DOMAIN state = Process
    /\ DOMAIN file = Process /\ DOMAIN archived = Process
    /\ gathered \in [Process -> Nat] /\ mismatch \in BOOLEAN
    /\ job \in {"started", "restarting", "aborted"}

(* A process that is past the comparison of the settings.                  *)
PastCheck(n) == pc[n] \in {"initialize", "running", "generateCheckpoint",
                           "restoreLPs", "restored", "restarted"}

(* Rank 0 has compared what all have sent, and goes on only if it matched. *)
Compares ==
    /\ \A n \in Process : gathered[n] <= Len(Compared(settings[n]))
    /\ \A n \in Process : gathered[0] <= gathered[n]
    /\ ~ mismatch => \A k \in 1 .. gathered[0] : Matches(k)
    /\ \A n \in Process : PastCheck(n) => gathered[n] = Len(Compared(settings[n]))
    /\ PastCheck(0) => ~ mismatch

(* The barriers bring all processes up.                                    *)
UpTogether == \A n, m \in Process : IsUp(n) => IsUp(m)

Maps == \A n \in Process :
    /\ pc[n] # "partition" => own[n] = Own(n)
    /\ pc[n] \notin {"partition", "restart"} => node_id_by_lp_name[n] = LPMap(n)

IsStateOf(s, n) == s = [lp \in LPsOf(Own(n)) |-> s[lp]]

HasStates == {"running", "generateCheckpoint", "restored", "restarted"}

States == \A n \in Process : pc[n] \in HasStates => IsStateOf(state[n], n)

(* While it runs for the first time, a process archives its LPs in the     *)
(* order of the local partition.                                           *)
FirstRun(n) == \/ pc[n] \in {"waitForAllProcesses", "initialize", "running", "generateCheckpoint"}
               \/ pc[n] = "makeDispatcher" /\ job = "started"

Orders == \A n \in Process :
    /\ FirstRun(n) => flattened[n] = flattened_lps(n)
    /\ pc[n] = "restart" => job # "started"
    /\ pc[n] = "waitForAllProcesses" => job # "restarting"

IsSequence(s) == s \in Seq({s[k] : k \in DOMAIN s})

(* A file has the beginning of what was written last, or nothing.          *)
FileOf(f, n) ==
    /\ f = [header |-> f.header, lps |-> f.lps]
    /\ IsSequence(f.lps) /\ Len(f.lps) <= Len(archived[n])
    /\ \A k \in 1 .. Len(f.lps) : f.lps[k] = archived[n][k].events

(* What was written last is of the LPs in the order of the local partition. *)
InLocalOrder(n) ==
    /\ IsSequence(archived[n])
    /\ \A k \in 1 .. Len(archived[n]) : archived[n][k].lp = flattened_lps(n)[k]

Kept(n) == FileOf(file[n], n) /\ InLocalOrder(n)

(* Every LP has what was written at its place.                             *)
PlaceOfLP(n, lp) == CHOOSE k \in DOMAIN Own(n) : Own(n)[k] = lp
Restores(n) == \A lp \in LPsOf(Own(n)) :
    /\ PlaceOfLP(n, lp) \in 1 .. Len(archived[n])
    /\ state[n][lp] = archived[n][PlaceOfLP(n, lp)].events

Files == \A n \in Process :
    /\ Kept(n)
    /\ pc[n] = "generateCheckpoint" => Len(file[n].lps) = Len(archived[n])
    /\ pc[n] \in {"restored", "restarted"} => Restores(n)

IInv == /\ Chosen /\ Domains /\ Compares /\ UpTogether /\ Maps /\ States
        /\ Orders /\ Files

-----------------------------------------------------------------------------
(* Sequences whose elements have no type of their own.                     *)
LEMMA EmptyIsSequence == IsSequence(<<>>)
  BY DEF IsSequence

LEMMA OneMore ==
    ASSUME NEW s, IsSequence(s), NEW x
    PROVE  /\ IsSequence(Append(s, x)) /\ Len(Append(s, x)) = Len(s) + 1 /\ Len(s) \in Nat
           /\ \A k \in 1 .. Len(s) : Append(s, x)[k] = s[k]
           /\ Append(s, x)[Len(s) + 1] = x
<1> DEFINE S == {s[k] : k \in DOMAIN s} \cup {x}
           t == Append(s, x)
<1>1. s \in Seq(S)
  <2> DEFINE T == {s[k] : k \in DOMAIN s}
  <2>1. s \in Seq(T) /\ T \subseteq S
    BY DEF IsSequence
  <2> HIDE DEF T, S
  <2> QED
    BY <2>1
<1>2. x \in S
  OBVIOUS
<1> HIDE DEF S
<1>3. /\ t \in Seq(S) /\ Len(t) = Len(s) + 1 /\ Len(s) \in Nat
      /\ \A k \in 1 .. Len(s) : t[k] = s[k]
      /\ t[Len(s) + 1] = x
  BY <1>1, <1>2
<1> HIDE DEF t
<1>4. t \in [1 .. Len(t) -> {t[k] : k \in DOMAIN t}] /\ Len(t) \in Nat
  BY <1>3
<1>5. IsSequence(t)
  BY <1>4 DEF IsSequence
<1> QED
  BY <1>3, <1>5 DEF t

LEMMA Beginning ==
    ASSUME NEW s, IsSequence(s), NEW n \in 0 .. Len(s)
    PROVE  /\ IsSequence(SubSeq(s, 1, n)) /\ Len(SubSeq(s, 1, n)) = n
           /\ \A k \in 1 .. n : SubSeq(s, 1, n)[k] = s[k]
<1> DEFINE S == {s[k] : k \in DOMAIN s}
           t == SubSeq(s, 1, n)
<1>1. s \in Seq(S)
  BY DEF IsSequence
<1> HIDE DEF S
<1>3. /\ t \in Seq(S) /\ Len(t) = n /\ n \in Nat
      /\ \A k \in 1 .. n : t[k] = s[k]
  BY <1>1
<1> HIDE DEF t
<1>4. t \in [1 .. Len(t) -> {t[k] : k \in DOMAIN t}] /\ Len(t) \in Nat
  BY <1>3
<1>5. IsSequence(t)
  BY <1>4 DEF IsSequence
<1> QED
  BY <1>3, <1>5 DEF t

(* What depends on nothing but what is chosen at the start.                *)
LEMMA SameChoice ==
    ASSUME UNCHANGED <<lps, settings, blocksize>>, NEW n
    PROVE  /\ Own(n)' = Own(n) /\ LPMap(n)' = LPMap(n)
           /\ flattened_lps(n)' = flattened_lps(n)
           /\ Compared(settings[n])' = Compared(settings[n])
           /\ Matches(n)' = Matches(n)
<1>1. Own(n)' = Own(n)
  BY DEF Own, partitioned_lps
<1>2. LPMap(n)' = LPMap(n)
  BY DEF LPMap, partitioned_lps, LP
<1>3. flattened_lps(n)' = flattened_lps(n)
  BY DEF flattened_lps, partitioned_lps
<1>4. Matches(n)' = Matches(n)
  BY DEF Matches
<1> QED
  BY <1>1, <1>2, <1>3, <1>4

LEMMA RankZero == 0 \in Process
  BY ConstantsAssumption DEF Process

(* A process's LPs are a sequence of LPs.                                  *)
LEMMA OwnSequence ==
    ASSUME Chosen, NEW n \in Process
    PROVE  Own(n) \in Seq(LP)
<1>1. PICK m \in LPCounts : lps = [k \in 1 .. m |-> k]
  BY DEF Chosen
<1>2. m \in Nat /\ NumProcesses \in Nat \ {0} /\ NumProcesses <= m /\ blocksize[n] \in Nat
  BY ConstantsAssumption DEF Chosen
<1>3. LP = 1 .. m
  BY <1>1 DEF LP
<1> QED
  BY <1>1, <1>2, <1>3, PartitionSplits DEF Own, partitioned_lps, Process

(* Where the processes have the same block size, every LP is in the local  *)
(* partition of one process, the one that all have in their maps.          *)
LEMMA OneOwner ==
    ASSUME Chosen, BlockSizesAgree, NEW lp \in LP
    PROVE  \E p \in Process : \A n \in Process :
              LPMap(n)[lp] = p /\ (lp \in LPsOf(Own(n)) <=> n = p)
<1>1. PICK m \in LPCounts : lps = [k \in 1 .. m |-> k]
  BY DEF Chosen
<1>2. /\ m \in Nat /\ NumProcesses \in Nat \ {0} /\ NumProcesses <= m
      /\ blocksize[0] \in Nat
  BY RankZero, ConstantsAssumption DEF Chosen
<1> DEFINE b     == blocksize[0]
           parts == partition([k \in 1 .. m |-> k], NumProcesses, b)
<1>3. LP = 1 .. m
  BY <1>1 DEF LP
<1>4. PICK p \in Process :
         /\ lp \in LPsOf(parts[p])
         /\ \A r \in Process : lp \in LPsOf(parts[r]) => r = p
  <2> DEFINE elements(p) == {parts[p][k] : k \in DOMAIN parts[p]}
  <2>1. \A l \in 1 .. m : \E p \in 0 .. NumProcesses - 1 :
           /\ l \in elements(p)
           /\ \A r \in 0 .. NumProcesses - 1 : l \in elements(r) => r = p
    <3>1. b \in Nat /\ m \in Nat /\ NumProcesses \in Nat \ {0} /\ NumProcesses <= m
      BY <1>2
    <3> HIDE DEF b
    <3> QED
      BY <3>1, PartitionSplits, Zenon
  <2>2. \A p : LPsOf(parts[p]) = elements(p)
    BY DEF LPsOf
  <2> HIDE DEF elements, parts
  <2> QED
    BY <1>3, <2>1, <2>2 DEF Process
<1>5. \A n \in Process : partitioned_lps(n) = parts
  BY <1>1 DEF partitioned_lps, BlockSizesAgree
<1> HIDE DEF parts
<1>6. ASSUME NEW n \in Process PROVE LPMap(n)[lp] = p
  BY <1>4, <1>5 DEF LPMap
<1>7. ASSUME NEW n \in Process PROVE lp \in LPsOf(Own(n)) <=> n = p
  BY <1>4, <1>5 DEF Own
<1> QED
  BY <1>6, <1>7

(* Rank 0's settings and another's cannot match in all places that rank 0  *)
(* compares unless they have the same number of places.                    *)
LEMMA MatchMeansSame ==
    ASSUME NEW s, NEW r, NEW c \in Nat,
           c = Len(Compared(r)), c <= Len(Compared(s)),
           \A k \in 1 .. c : Compared(s)[k] = Compared(r)[k]
    PROVE  Compared(s) = Compared(r)
<1>1. CASE s.lp_migration = "off" /\ r.lp_migration = "off"
  BY <1>1 DEF Compared
<1>2. CASE s.lp_migration # "off" /\ r.lp_migration # "off"
  BY <1>2 DEF Compared
<1>3. CASE s.lp_migration # "off" /\ r.lp_migration = "off"
  BY <1>3 DEF Compared
<1>4. CASE s.lp_migration = "off" /\ r.lp_migration # "off"
  <2>1. c = 8 /\ Compared(s)[5] = 1 /\ Compared(r)[5] = 0
    BY <1>4 DEF Compared
  <2> QED
    BY <2>1
<1> QED
  BY <1>1, <1>2, <1>3, <1>4
(* The initial states and every step keep the invariant.                   *)
LEMMA InvInit == Init => IInv
<1> SUFFICES ASSUME Init PROVE IInv
  OBVIOUS
<1>1. Chosen
  BY DEF Init, Chosen, Own
<1>2. Domains
  BY DEF Init, Domains
<1>3. Compares
  <2>1. \A n \in Process : Len(Compared(settings[n])) \in Nat
    BY DEF Compared
  <2> QED
    BY <2>1, RankZero DEF Init, Compares, PastCheck
<1>4. UpTogether /\ Maps /\ States
  BY DEF Init, UpTogether, IsUp, Maps, States, HasStates
<1>5. Orders
  BY DEF Init, Orders, FirstRun
<1>6. Files
  BY EmptyIsSequence DEF Init, Files, Kept, FileOf, InLocalOrder, NoFile
<1> QED
  BY <1>1, <1>2, <1>3, <1>4, <1>5, <1>6 DEF IInv

LEMMA ChosenNext == Chosen /\ [Next]_vars => Chosen'
<1> SUFFICES ASSUME Chosen, [Next]_vars PROVE Chosen'
  OBVIOUS
<1>1. UNCHANGED <<lps, settings, blocksize>>
  BY DEF Next, SetUp, Run, Partition, waitForAllProcesses, checkTimeWarpConfigs,
         DispatcherMade, initialize, RestoreConfiguration, restoreLPs, Restarted,
         ProcessEvent, OpenFile, ArchiveLP, CloseFile, CrashAndRestart, setupVars, vars
<1>2. \A n : Own(n)' = Own(n) /\ flattened_lps(n)' = flattened_lps(n)
  BY <1>1, SameChoice
<1> QED
  BY <1>1, <1>2 DEF Chosen

(* What a file has is judged by what was archived.                         *)
LEMMA FileKept ==
    ASSUME UNCHANGED <<lps, settings, blocksize>>, NEW m \in Process,
           archived'[m] = archived[m], file'[m] = file[m], Files
    PROVE  Kept(m)'
<1>1. flattened_lps(m)' = flattened_lps(m)
  BY SameChoice
<1>2. Kept(m)
  BY DEF Files
<1> QED
  BY <1>1, <1>2 DEF Kept, FileOf, InLocalOrder

(* ... and so is what was restored.                                        *)
LEMMA RestoresKept ==
    ASSUME UNCHANGED <<lps, settings, blocksize>>, NEW m \in Process,
           archived'[m] = archived[m], state'[m] = state[m], Restores(m)
    PROVE  Restores(m)'
<1>1. Own(m)' = Own(m)
  BY SameChoice
<1>2. \A lp : PlaceOfLP(m, lp)' = PlaceOfLP(m, lp)
  BY <1>1 DEF PlaceOfLP
<1> QED
  BY <1>1, <1>2 DEF Restores

(* A process partitions the LPs, in the same way whenever it is started.   *)
LEMMA PartitionKeeps ==
    ASSUME IInv, Chosen', NEW n \in Process, Partition(n)
    PROVE  IInv'
<1> USE RankZero DEF IInv
<1>1. UNCHANGED <<lps, settings, blocksize>>
  BY DEF Partition, Goes, setupVars
<1>2. \A m : /\ Own(m)' = Own(m) /\ LPMap(m)' = LPMap(m)
             /\ Compared(settings[m])' = Compared(settings[m]) /\ Matches(m)' = Matches(m)
             /\ flattened_lps(m)' = flattened_lps(m)
  BY <1>1, SameChoice
<1>3. Domains' /\ UpTogether' /\ Maps'
  BY <1>2 DEF Partition, Goes, setupVars, Domains, UpTogether, IsUp, Maps, Own
<1>4. Compares'
  BY <1>1, <1>2 DEF Partition, Goes, setupVars, Domains, Compares, PastCheck
<1>5. States'
  BY <1>2 DEF Partition, Goes, setupVars, Domains, States, HasStates, IsStateOf
<1>6. Orders'
  BY <1>2 DEF Partition, Goes, setupVars, Domains, Orders, FirstRun
<1>7. Files'
  <2>1. \A m \in Process : Kept(m)'
    BY <1>1, FileKept DEF Partition, Goes, setupVars, Files
  <2>2. \A m \in Process : Restores(m) /\ state'[m] = state[m] => Restores(m)'
    BY <1>1, RestoresKept DEF Partition, Goes, setupVars
  <2> QED
    BY <2>1, <2>2 DEF Partition, Goes, setupVars, Domains, Files
<1> QED
  BY <1>3, <1>4, <1>5, <1>6, <1>7

(* The barrier before the dispatcher is made.                              *)
LEMMA waitForAllProcessesKeeps ==
    ASSUME IInv, Chosen', waitForAllProcesses
    PROVE  IInv'
<1> USE RankZero DEF IInv
<1>1. UNCHANGED <<lps, settings, blocksize>>
  BY DEF waitForAllProcesses, Barrier, setupVars
<1>2. \A m : /\ Own(m)' = Own(m) /\ LPMap(m)' = LPMap(m)
             /\ Compared(settings[m])' = Compared(settings[m]) /\ Matches(m)' = Matches(m)
             /\ flattened_lps(m)' = flattened_lps(m)
  BY <1>1, SameChoice
<1>3. Domains' /\ UpTogether' /\ Maps'
  BY <1>2 DEF waitForAllProcesses, Barrier, setupVars, Domains, UpTogether, IsUp, Maps, Own
<1>4. Compares'
  BY <1>1, <1>2 DEF waitForAllProcesses, Barrier, setupVars, Domains, Compares, PastCheck
<1>5. States'
  BY <1>2 DEF waitForAllProcesses, Barrier, setupVars, Domains, States, HasStates, IsStateOf
<1>6. Orders'
  BY <1>2 DEF waitForAllProcesses, Barrier, setupVars, Domains, Orders, FirstRun
<1>7. Files'
  <2>1. \A m \in Process : Kept(m)'
    BY <1>1, FileKept DEF waitForAllProcesses, Barrier, setupVars, Files
  <2>2. \A m \in Process : Restores(m) /\ state'[m] = state[m] => Restores(m)'
    BY <1>1, RestoresKept DEF waitForAllProcesses, Barrier, setupVars
  <2> QED
    BY <2>1, <2>2 DEF waitForAllProcesses, Barrier, setupVars, Domains, Files
<1> QED
  BY <1>3, <1>4, <1>5, <1>6, <1>7

(* One value is gathered.                                                  *)
LEMMA checkTimeWarpConfigsKeeps ==
    ASSUME IInv, Chosen', NEW n \in Process, checkTimeWarpConfigs(n)
    PROVE  IInv'
<1> USE RankZero DEF IInv
<1>1. UNCHANGED <<lps, settings, blocksize>>
  BY DEF checkTimeWarpConfigs, setupVars
<1>2. \A m : /\ Own(m)' = Own(m) /\ LPMap(m)' = LPMap(m)
             /\ Compared(settings[m])' = Compared(settings[m]) /\ Matches(m)' = Matches(m)
             /\ flattened_lps(m)' = flattened_lps(m)
  BY <1>1, SameChoice
<1>3. Domains' /\ UpTogether' /\ Maps'
  BY <1>2 DEF checkTimeWarpConfigs, setupVars, Domains, UpTogether, IsUp, Maps, Own
<1>4. Compares'
  <2> DEFINE c(m) == Len(Compared(settings[m]))
  <2>1. /\ gathered \in [Process -> Nat]
        /\ gathered' = [gathered EXCEPT ![n] = gathered[n] + 1]
        /\ gathered[n] + 1 <= c(n)
        /\ n = 0 => \A p \in Process \ {0} : gathered[p] >= gathered[n] + 1
        /\ mismatch' = (mismatch \/ (n = 0 /\ ~ Matches(gathered[n] + 1)))
        /\ pc[n] = "makeDispatcher" /\ pc' = pc
    BY DEF checkTimeWarpConfigs, Domains
  <2>2. \A m \in Process : c(m) \in Nat /\ c(m)' = c(m)
    BY <1>2 DEF Compared
  <2> HIDE DEF c
  <2>3. \A m \in Process : gathered'[m] <= c(m)
    BY <2>1, <2>2 DEF Compares, c
  <2>4. \A m \in Process : gathered'[0] <= gathered'[m]
    BY <2>1 DEF Compares
  <2>5. ASSUME ~ mismatch', NEW k \in 1 .. gathered'[0] PROVE Matches(k)
    <3>1. CASE k \in 1 .. gathered[0]
      BY <2>1, <2>5, <3>1 DEF Compares
    <3>2. CASE k \notin 1 .. gathered[0]
      <4>1. n = 0 /\ k = gathered[0] + 1
        BY <2>1, <2>5, <3>2
      <4> QED
        BY <2>1, <2>5, <4>1
    <3> QED
      BY <3>1, <3>2
  <2>6. \A m \in Process : PastCheck(m)' => PastCheck(m) /\ m # n
    BY <2>1 DEF PastCheck
  <2>7. \A m \in Process : PastCheck(m)' => gathered'[m] = c(m)
    BY <2>1, <2>6 DEF Compares, c
  <2>8. PastCheck(0)' => ~ mismatch'
    BY <2>1, <2>6 DEF Compares
  <2> QED
    BY <1>2, <2>2, <2>3, <2>4, <2>5, <2>7, <2>8 DEF Compares, c
<1>5. States'
  BY <1>2 DEF checkTimeWarpConfigs, setupVars, Domains, States, HasStates, IsStateOf
<1>6. Orders'
  BY <1>2 DEF checkTimeWarpConfigs, setupVars, Domains, Orders, FirstRun
<1>7. Files'
  <2>1. \A m \in Process : Kept(m)'
    BY <1>1, FileKept DEF checkTimeWarpConfigs, setupVars, Files
  <2>2. \A m \in Process : Restores(m) /\ state'[m] = state[m] => Restores(m)'
    BY <1>1, RestoresKept DEF checkTimeWarpConfigs, setupVars
  <2> QED
    BY <2>1, <2>2 DEF checkTimeWarpConfigs, setupVars, Domains, Files
<1> QED
  BY <1>3, <1>4, <1>5, <1>6, <1>7

(* Rank 0 throws, or a process goes on with its dispatcher.                *)
LEMMA DispatcherMadeKeeps ==
    ASSUME IInv, Chosen', NEW n \in Process, DispatcherMade(n)
    PROVE  IInv'
<1> USE RankZero DEF IInv
<1>1. UNCHANGED <<lps, settings, blocksize>>
  BY DEF DispatcherMade, Goes, setupVars
<1>2. \A m : /\ Own(m)' = Own(m) /\ LPMap(m)' = LPMap(m)
             /\ Compared(settings[m])' = Compared(settings[m]) /\ Matches(m)' = Matches(m)
             /\ flattened_lps(m)' = flattened_lps(m)
  BY <1>1, SameChoice
<1>3. Domains' /\ UpTogether' /\ Maps'
  BY <1>2 DEF DispatcherMade, Goes, setupVars, Domains, UpTogether, IsUp, Maps, Own
<1>4. Compares'
  BY <1>1, <1>2 DEF DispatcherMade, Goes, setupVars, Domains, Compares, PastCheck
<1>5. States'
  BY <1>2 DEF DispatcherMade, Goes, setupVars, Domains, States, HasStates, IsStateOf
<1>6. Orders'
  BY <1>2 DEF DispatcherMade, Goes, setupVars, Domains, Orders, FirstRun
<1>7. Files'
  <2>1. \A m \in Process : Kept(m)'
    BY <1>1, FileKept DEF DispatcherMade, Files
  <2>2. /\ UNCHANGED <<state, file, archived>>
        /\ \A m \in Process \ {n} : pc'[m] = pc[m]
        /\ pc'[n] \in {pc[n], "initialize"} \/ (pc[n] = "makeDispatcher" /\ job = "restarting" /\ pc'[n] = "restoreLPs")
        /\ job' \in {job, "aborted"}
    BY DEF DispatcherMade, Goes, Domains, Up
  <2>3. \A m \in Process : Restores(m) => Restores(m)'
    BY <1>1, <2>2, RestoresKept
  <2> QED
    BY <2>1, <2>2, <2>3 DEF Files
<1> QED
  BY <1>3, <1>4, <1>5, <1>6, <1>7

(* The dispatcher of the first run starts its LPs.                         *)
LEMMA initializeKeeps ==
    ASSUME IInv, Chosen', initialize
    PROVE  IInv'
<1> USE RankZero DEF IInv
<1>1. UNCHANGED <<lps, settings, blocksize>>
  BY DEF initialize, Barrier, setupVars
<1>2. \A m : /\ Own(m)' = Own(m) /\ LPMap(m)' = LPMap(m)
             /\ Compared(settings[m])' = Compared(settings[m]) /\ Matches(m)' = Matches(m)
             /\ flattened_lps(m)' = flattened_lps(m)
  BY <1>1, SameChoice
<1>3. Domains' /\ UpTogether' /\ Maps'
  BY <1>2 DEF initialize, Barrier, setupVars, Domains, UpTogether, IsUp, Maps, Own
<1>4. Compares'
  BY <1>1, <1>2 DEF initialize, Barrier, setupVars, Domains, Compares, PastCheck
<1>5. States'
  <2> SUFFICES ASSUME NEW m \in Process PROVE IsStateOf(state[m], m)'
    BY DEF States
  <2>1. own[m] = Own(m)
    BY DEF initialize, Barrier, Maps
  <2>2. state'[m] = [lp \in LPsOf(Own(m)) |-> 0]
    BY <2>1 DEF initialize
  <2> QED
    BY <1>2, <2>2 DEF IsStateOf
<1>6. Orders'
  BY <1>2 DEF initialize, Barrier, setupVars, Domains, Orders, FirstRun
<1>7. Files'
  <2>1. \A m \in Process : Kept(m)'
    BY <1>1, FileKept DEF initialize, Barrier, setupVars, Files
  <2>2. \A m \in Process : Restores(m) /\ state'[m] = state[m] => Restores(m)'
    BY <1>1, RestoresKept DEF initialize, Barrier, setupVars
  <2> QED
    BY <2>1, <2>2 DEF initialize, Barrier, setupVars, Domains, Files
<1> QED
  BY <1>3, <1>4, <1>5, <1>6, <1>7

(* The archived configuration is read.                                     *)
LEMMA RestoreConfigurationKeeps ==
    ASSUME IInv, Chosen', NEW n \in Process, RestoreConfiguration(n)
    PROVE  IInv'
<1> USE RankZero DEF IInv
<1>1. UNCHANGED <<lps, settings, blocksize>>
  BY DEF RestoreConfiguration, Goes, Abort, setupVars
<1>2. \A m : /\ Own(m)' = Own(m) /\ LPMap(m)' = LPMap(m)
             /\ Compared(settings[m])' = Compared(settings[m]) /\ Matches(m)' = Matches(m)
             /\ flattened_lps(m)' = flattened_lps(m)
  BY <1>1, SameChoice
<1>3. Domains' /\ UpTogether' /\ Maps'
  BY <1>2 DEF RestoreConfiguration, Goes, Abort, setupVars, Domains, UpTogether, IsUp, Maps, Own
<1>4. Compares'
  BY <1>1, <1>2 DEF RestoreConfiguration, Goes, Abort, setupVars, Domains, Compares, PastCheck
<1>5. States'
  BY <1>2 DEF RestoreConfiguration, Goes, Abort, setupVars, Domains, States, HasStates, IsStateOf
<1>6. Orders'
  BY <1>2 DEF RestoreConfiguration, Goes, Abort, setupVars, Domains, Orders, FirstRun
<1>7. Files'
  <2>1. \A m \in Process : Kept(m)'
    BY <1>1, FileKept DEF RestoreConfiguration, Goes, Abort, setupVars, Files
  <2>2. \A m \in Process : Restores(m) /\ state'[m] = state[m] => Restores(m)'
    BY <1>1, RestoresKept DEF RestoreConfiguration, Goes, Abort, setupVars
  <2> QED
    BY <2>1, <2>2 DEF RestoreConfiguration, Goes, Abort, setupVars, Domains, Files
<1> QED
  BY <1>3, <1>4, <1>5, <1>6, <1>7

(* The archived LPs are read, all of them and in their order.              *)
LEMMA restoreLPsKeeps ==
    ASSUME IInv, Chosen', NEW n \in Process, restoreLPs(n)
    PROVE  IInv'
<1> USE RankZero DEF IInv
<1>1. UNCHANGED <<lps, settings, blocksize>>
  BY DEF restoreLPs, Goes, Abort, setupVars
<1>2. \A m : /\ Own(m)' = Own(m) /\ LPMap(m)' = LPMap(m)
             /\ Compared(settings[m])' = Compared(settings[m]) /\ Matches(m)' = Matches(m)
             /\ flattened_lps(m)' = flattened_lps(m)
  BY <1>1, SameChoice
<1>3. Domains' /\ UpTogether' /\ Maps'
  BY <1>2 DEF restoreLPs, Goes, Abort, setupVars, Domains, UpTogether, IsUp, Maps, Own
<1>4. Compares'
  BY <1>1, <1>2 DEF restoreLPs, Goes, Abort, setupVars, Domains, Compares, PastCheck
<1>5. States'
  <2>1. own[n] = Own(n)
    BY DEF restoreLPs, Maps
  <2>2. IsStateOf(RestoredLPs(n), n)
    BY <2>1 DEF RestoredLPs, IsStateOf
  <2>3. \A m \in Process \ {n} : pc'[m] = pc[m] /\ state'[m] = state[m]
    BY DEF restoreLPs, Goes, Abort, Domains
  <2>4. pc'[n] \in HasStates => state'[n] = RestoredLPs(n)
    BY DEF restoreLPs, Goes, Abort, Domains, HasStates
  <2> QED
    BY <1>2, <2>2, <2>3, <2>4 DEF States, IsStateOf
<1>6. Orders'
  BY <1>2 DEF restoreLPs, Goes, Abort, setupVars, Domains, Orders, FirstRun
<1>7. Files'
  <2>1. \A m \in Process : Kept(m)'
    BY <1>1, FileKept DEF restoreLPs, Files
  <2>2. \A m \in Process \ {n} : pc'[m] = pc[m] /\ state'[m] = state[m]
    BY DEF restoreLPs, Goes, Abort, Domains
  <2>3. archived' = archived /\ file' = file /\ job' \in {job, "aborted"}
    BY DEF restoreLPs, Abort
  <2>6. \A m \in Process \ {n} : Restores(m) => Restores(m)'
    BY <1>1, <2>2, <2>3, RestoresKept
  <2>4. CASE pc'[n] = "restored"
    <3>1. /\ Len(file[n].lps) = Len(own[n])
          /\ state'[n] = RestoredLPs(n) /\ own[n] = Own(n)
          /\ FileOf(file[n], n)
      BY <2>4 DEF restoreLPs, Goes, Abort, Domains, Maps, Files, Kept
    <3>2. Own(n) \in Seq(LP) /\ Len(file[n].lps) \in Nat /\ Len(archived[n]) \in Nat
      BY <3>1, OwnSequence DEF FileOf, IsSequence, Files, Kept, InLocalOrder
    <3>3. ASSUME NEW lp \in LPsOf(Own(n))
          PROVE  /\ PlaceOfLP(n, lp) \in 1 .. Len(archived[n])
                 /\ state'[n][lp] = archived[n][PlaceOfLP(n, lp)].events
      <4> DEFINE i == PlaceOfLP(n, lp)
      <4>1. i \in DOMAIN Own(n)
        BY DEF LPsOf, PlaceOfLP
      <4>2. RestoredLPs(n)[lp] = file[n].lps[i]
        BY <3>1 DEF RestoredLPs, PlaceOf, PlaceOfLP
      <4> HIDE DEF i
      <4>3. i \in 1 .. Len(file[n].lps)
        BY <3>1, <3>2, <4>1
      <4>4. i \in 1 .. Len(archived[n]) /\ file[n].lps[i] = archived[n][i].events
        BY <3>1, <3>2, <4>3 DEF FileOf
      <4> QED
        BY <3>1, <4>2, <4>4 DEF i
    <3>4. Restores(n)'
      BY <1>2, <2>3, <3>3 DEF Restores, PlaceOfLP
    <3> QED
      BY <2>1, <2>2, <2>3, <2>4, <2>6, <3>4 DEF Files
  <2>5. CASE pc'[n] # "restored"
    <3>1. pc' = pc /\ state' = state
      BY <2>5 DEF restoreLPs, Goes, Abort, Domains
    <3>2. \A m \in Process : Restores(m) => Restores(m)'
      BY <1>1, <2>3, <3>1, RestoresKept
    <3> QED
      BY <2>1, <2>3, <3>1, <3>2 DEF Files
  <2> QED
    BY <2>4, <2>5
<1> QED
  BY <1>3, <1>4, <1>5, <1>6, <1>7

(* The barrier at the end of the restart.                                  *)
LEMMA RestartedKeeps ==
    ASSUME IInv, Chosen', Restarted
    PROVE  IInv'
<1> USE RankZero DEF IInv
<1>1. UNCHANGED <<lps, settings, blocksize>>
  BY DEF Restarted, Barrier, setupVars
<1>2. \A m : /\ Own(m)' = Own(m) /\ LPMap(m)' = LPMap(m)
             /\ Compared(settings[m])' = Compared(settings[m]) /\ Matches(m)' = Matches(m)
             /\ flattened_lps(m)' = flattened_lps(m)
  BY <1>1, SameChoice
<1>3. Domains' /\ UpTogether' /\ Maps'
  BY <1>2 DEF Restarted, Barrier, setupVars, Domains, UpTogether, IsUp, Maps, Own
<1>4. Compares'
  BY <1>1, <1>2 DEF Restarted, Barrier, setupVars, Domains, Compares, PastCheck
<1>5. States'
  BY <1>2 DEF Restarted, Barrier, setupVars, Domains, States, HasStates, IsStateOf
<1>6. Orders'
  BY <1>2 DEF Restarted, Barrier, setupVars, Domains, Orders, FirstRun
<1>7. Files'
  <2>1. \A m \in Process : Kept(m)'
    BY <1>1, FileKept DEF Restarted, Barrier, setupVars, Files
  <2>2. \A m \in Process : Restores(m) /\ state'[m] = state[m] => Restores(m)'
    BY <1>1, RestoresKept DEF Restarted, Barrier, setupVars
  <2> QED
    BY <2>1, <2>2 DEF Restarted, Barrier, setupVars, Domains, Files
<1> QED
  BY <1>3, <1>4, <1>5, <1>6, <1>7

(* An LP processes an event.                                               *)
LEMMA ProcessEventKeeps ==
    ASSUME IInv, Chosen', NEW n \in Process, NEW lp \in LP, ProcessEvent(n, lp)
    PROVE  IInv'
<1> USE RankZero DEF IInv
<1>1. UNCHANGED <<lps, settings, blocksize>>
  BY DEF ProcessEvent, setupVars
<1>2. \A m : /\ Own(m)' = Own(m) /\ LPMap(m)' = LPMap(m)
             /\ Compared(settings[m])' = Compared(settings[m]) /\ Matches(m)' = Matches(m)
             /\ flattened_lps(m)' = flattened_lps(m)
  BY <1>1, SameChoice
<1>3. Domains' /\ UpTogether' /\ Maps'
  BY <1>2 DEF ProcessEvent, setupVars, Domains, UpTogether, IsUp, Maps, Own
<1>4. Compares'
  BY <1>1, <1>2 DEF ProcessEvent, setupVars, Domains, Compares, PastCheck
<1>5. States'
  BY <1>2 DEF ProcessEvent, setupVars, Domains, States, HasStates, IsStateOf
<1>6. Orders'
  BY <1>2 DEF ProcessEvent, setupVars, Domains, Orders, FirstRun
<1>7. Files'
  <2>1. \A m \in Process : Kept(m)'
    BY <1>1, FileKept DEF ProcessEvent, Files
  <2>2. /\ pc' = pc /\ pc[n] \in {"running", "generateCheckpoint"}
        /\ UNCHANGED <<archived, file, job>>
        /\ \A m \in Process \ {n} : state'[m] = state[m]
    BY DEF ProcessEvent, setupVars, Domains
  <2>3. \A m \in Process \ {n} : Restores(m) => Restores(m)'
    BY <1>1, <2>2, RestoresKept
  <2> QED
    BY <2>1, <2>2, <2>3 DEF Files
<1> QED
  BY <1>3, <1>4, <1>5, <1>6, <1>7

(* A checkpoint is begun.                                                  *)
LEMMA OpenFileKeeps ==
    ASSUME IInv, Chosen', NEW n \in Process, OpenFile(n)
    PROVE  IInv'
<1> USE RankZero DEF IInv
<1>1. UNCHANGED <<lps, settings, blocksize>>
  BY DEF OpenFile, Goes, setupVars
<1>2. \A m : /\ Own(m)' = Own(m) /\ LPMap(m)' = LPMap(m)
             /\ Compared(settings[m])' = Compared(settings[m]) /\ Matches(m)' = Matches(m)
             /\ flattened_lps(m)' = flattened_lps(m)
  BY <1>1, SameChoice
<1>3. Domains' /\ UpTogether' /\ Maps'
  BY <1>2 DEF OpenFile, Goes, setupVars, Domains, UpTogether, IsUp, Maps, Own
<1>4. Compares'
  BY <1>1, <1>2 DEF OpenFile, Goes, setupVars, Domains, Compares, PastCheck
<1>5. States'
  BY <1>2 DEF OpenFile, Goes, setupVars, Domains, States, HasStates, IsStateOf
<1>6. Orders'
  BY <1>2 DEF OpenFile, Goes, setupVars, Domains, Orders, FirstRun
<1>7. Files'
  <2>1. /\ file'[n] = [header |-> TRUE, lps |-> <<>>] /\ archived'[n] = <<>>
        /\ pc'[n] = "generateCheckpoint" /\ state' = state /\ job' = job
        /\ \A m \in Process \ {n} : file'[m] = file[m] /\ archived'[m] = archived[m] /\ pc'[m] = pc[m]
    BY DEF OpenFile, Goes, Domains
  <2>2. Kept(n)'
    BY <2>1, EmptyIsSequence DEF Kept, FileOf, InLocalOrder
  <2>3. \A m \in Process \ {n} : Kept(m)'
    BY <1>1, <2>1, FileKept
  <2>4. \A m \in Process \ {n} : Restores(m) => Restores(m)'
    BY <1>1, <2>1, RestoresKept
  <2> QED
    BY <2>1, <2>2, <2>3, <2>4 DEF Files
<1> QED
  BY <1>3, <1>4, <1>5, <1>6, <1>7

(* One LP is written, at its place, while the others may move on.          *)
LEMMA ArchiveLPKeeps ==
    ASSUME IInv, Chosen', NEW n \in Process, ArchiveLP(n)
    PROVE  IInv'
<1> USE RankZero DEF IInv
<1>1. UNCHANGED <<lps, settings, blocksize>>
  BY DEF ArchiveLP, setupVars
<1>2. \A m : /\ Own(m)' = Own(m) /\ LPMap(m)' = LPMap(m)
             /\ Compared(settings[m])' = Compared(settings[m]) /\ Matches(m)' = Matches(m)
             /\ flattened_lps(m)' = flattened_lps(m)
  BY <1>1, SameChoice
<1>3. Domains' /\ UpTogether' /\ Maps'
  BY <1>2 DEF ArchiveLP, setupVars, Domains, UpTogether, IsUp, Maps, Own
<1>4. Compares'
  BY <1>1, <1>2 DEF ArchiveLP, setupVars, Domains, Compares, PastCheck
<1>5. States'
  BY <1>2 DEF ArchiveLP, setupVars, Domains, States, HasStates, IsStateOf
<1>6. Orders'
  BY <1>2 DEF ArchiveLP, setupVars, Domains, Orders, FirstRun
<1>7. Files'
  <2> DEFINE k  == Len(archived[n]) + 1
             lp == flattened[n][k]
             e  == state[n][lp]
             r  == [lp |-> lp, events |-> e]
  <2>1. /\ file' = [file EXCEPT ![n].lps = Append(file[n].lps, e)]
        /\ archived' = [archived EXCEPT ![n] = Append(archived[n], r)]
        /\ pc[n] = "generateCheckpoint" /\ pc' = pc /\ state' = state
    BY DEF ArchiveLP
  <2>2. /\ FileOf(file[n], n) /\ InLocalOrder(n) /\ Len(file[n].lps) = Len(archived[n])
        /\ flattened[n] = flattened_lps(n)
    BY <2>1 DEF Files, Kept, Orders, FirstRun
  <2>3. lp = flattened_lps(n)[k] /\ r.lp = lp /\ r.events = e
    BY <2>2
  <2> HIDE DEF lp, e, r
  <2>4. /\ file'[n] = [header |-> file[n].header, lps |-> Append(file[n].lps, e)]
        /\ archived'[n] = Append(archived[n], r)
        /\ \A m \in Process \ {n} : file'[m] = file[m] /\ archived'[m] = archived[m]
    BY <2>1, <2>2 DEF Domains, FileOf
  <2>5. /\ IsSequence(file'[n].lps) /\ Len(file'[n].lps) = Len(file[n].lps) + 1
        /\ Len(file[n].lps) \in Nat
        /\ \A i \in 1 .. Len(file[n].lps) : file'[n].lps[i] = file[n].lps[i]
        /\ file'[n].lps[Len(file[n].lps) + 1] = e
    BY <2>2, <2>4, OneMore DEF FileOf
  <2>6. /\ IsSequence(archived'[n]) /\ Len(archived'[n]) = Len(archived[n]) + 1
        /\ \A i \in 1 .. Len(archived[n]) : archived'[n][i] = archived[n][i]
        /\ archived'[n][k] = r
    BY <2>2, <2>4, OneMore DEF InLocalOrder
  <2>7. FileOf(file[n], n)'
    <3> SUFFICES ASSUME NEW i \in 1 .. Len(file'[n].lps)
                 PROVE  file'[n].lps[i] = archived'[n][i].events
      BY <2>2, <2>4, <2>5, <2>6 DEF FileOf
    <3>1. CASE i \in 1 .. Len(file[n].lps)
      BY <2>2, <2>5, <2>6, <3>1 DEF FileOf
    <3>2. CASE i \notin 1 .. Len(file[n].lps)
      <4>1. i = k /\ i = Len(file[n].lps) + 1
        BY <2>2, <2>5, <3>2
      <4> QED
        BY <2>3, <2>5, <2>6, <4>1
    <3> QED
      BY <3>1, <3>2
  <2>8. InLocalOrder(n)'
    <3> SUFFICES ASSUME NEW i \in 1 .. Len(archived'[n])
                 PROVE  archived'[n][i].lp = flattened_lps(n)[i]
      BY <1>2, <2>6 DEF InLocalOrder
    <3>1. CASE i \in 1 .. Len(archived[n])
      BY <2>2, <2>6, <3>1 DEF InLocalOrder
    <3>2. CASE i \notin 1 .. Len(archived[n])
      <4>1. i = k
        BY <2>2, <2>5, <2>6, <3>2
      <4> QED
        BY <2>3, <2>6, <4>1
    <3> QED
      BY <3>1, <3>2
  <2>9. \A m \in Process \ {n} : Kept(m)'
    BY <1>1, <2>4, FileKept
  <2>10. \A m \in Process \ {n} : Restores(m) => Restores(m)'
    BY <1>1, <2>1, <2>4, RestoresKept
  <2>11. Len(file'[n].lps) = Len(archived'[n])
    BY <2>2, <2>5, <2>6
  <2> QED
    BY <2>1, <2>4, <2>7, <2>8, <2>9, <2>10, <2>11 DEF Files, Kept
<1> QED
  BY <1>3, <1>4, <1>5, <1>6, <1>7

(* A checkpoint is complete.                                               *)
LEMMA CloseFileKeeps ==
    ASSUME IInv, Chosen', NEW n \in Process, CloseFile(n)
    PROVE  IInv'
<1> USE RankZero DEF IInv
<1>1. UNCHANGED <<lps, settings, blocksize>>
  BY DEF CloseFile, Goes, setupVars
<1>2. \A m : /\ Own(m)' = Own(m) /\ LPMap(m)' = LPMap(m)
             /\ Compared(settings[m])' = Compared(settings[m]) /\ Matches(m)' = Matches(m)
             /\ flattened_lps(m)' = flattened_lps(m)
  BY <1>1, SameChoice
<1>3. Domains' /\ UpTogether' /\ Maps'
  BY <1>2 DEF CloseFile, Goes, setupVars, Domains, UpTogether, IsUp, Maps, Own
<1>4. Compares'
  BY <1>1, <1>2 DEF CloseFile, Goes, setupVars, Domains, Compares, PastCheck
<1>5. States'
  BY <1>2 DEF CloseFile, Goes, setupVars, Domains, States, HasStates, IsStateOf
<1>6. Orders'
  BY <1>2 DEF CloseFile, Goes, setupVars, Domains, Orders, FirstRun
<1>7. Files'
  <2>1. \A m \in Process : Kept(m)'
    BY <1>1, FileKept DEF CloseFile, setupVars
  <2>2. \A m \in Process : Restores(m) => Restores(m)'
    BY <1>1, RestoresKept DEF CloseFile
  <2> QED
    BY <2>1, <2>2 DEF CloseFile, Goes, Domains, Files
<1> QED
  BY <1>3, <1>4, <1>5, <1>6, <1>7

(* The job crashes and is started again, with whatever was in the files.   *)
LEMMA CrashAndRestartKeeps ==
    ASSUME IInv, Chosen', CrashAndRestart
    PROVE  IInv'
<1> USE RankZero DEF IInv
<1>1. UNCHANGED <<lps, settings, blocksize>>
  BY DEF CrashAndRestart, setupVars
<1>2. \A m : /\ Own(m)' = Own(m) /\ LPMap(m)' = LPMap(m)
             /\ Compared(settings[m])' = Compared(settings[m]) /\ Matches(m)' = Matches(m)
             /\ flattened_lps(m)' = flattened_lps(m)
  BY <1>1, SameChoice
<1>3. Domains' /\ UpTogether' /\ Maps'
  BY <1>2 DEF CrashAndRestart, setupVars, Domains, UpTogether, IsUp, Maps, Own
<1>4. Compares'
  BY <1>1, <1>2 DEF CrashAndRestart, setupVars, Domains, Compares, PastCheck
<1>5. States'
  BY <1>2 DEF CrashAndRestart, setupVars, Domains, States, HasStates, IsStateOf
<1>6. Orders'
  BY <1>2 DEF CrashAndRestart, setupVars, Domains, Orders, FirstRun
<1>7. Files'
  <2> SUFFICES ASSUME NEW m \in Process PROVE Kept(m)'
    BY DEF CrashAndRestart, Files
  <2>1. file'[m] \in LeftInFile(m) /\ archived' = archived
    BY DEF CrashAndRestart
  <2>2. CASE file'[m] = file[m]
    BY <1>1, <2>1, <2>2, FileKept
  <2>3. CASE file'[m] = NoFile
    <3>1. InLocalOrder(m) /\ Len(archived[m]) \in Nat
      <4>1. InLocalOrder(m)
        BY DEF Files, Kept
      <4> QED
        BY <4>1 DEF InLocalOrder, IsSequence
    <3>2. /\ file'[m] = [header |-> FALSE, lps |-> <<>>] /\ file'[m].lps = <<>>
          /\ Len(file'[m].lps) = 0 /\ IsSequence(file'[m].lps)
      BY <2>3, EmptyIsSequence DEF NoFile
    <3>3. FileOf(file[m], m)'
      BY <2>1, <3>1, <3>2 DEF FileOf
    <3>4. InLocalOrder(m)'
      BY <1>1, <2>1, <3>1, SameChoice DEF InLocalOrder
    <3> QED
      BY <3>3, <3>4 DEF Kept
  <2>4. CASE file'[m] # file[m] /\ file'[m] # NoFile
    <3>1. PICK k \in 0 .. Len(file[m].lps) :
             file'[m] = [header |-> TRUE, lps |-> SubSeq(file[m].lps, 1, k)]
      BY <2>1, <2>4 DEF LeftInFile
    <3>2. FileOf(file[m], m) /\ InLocalOrder(m)
      BY DEF Files, Kept
    <3>3. Len(file[m].lps) \in Nat /\ Len(archived[m]) \in Nat
      BY <3>2 DEF FileOf, InLocalOrder, IsSequence
    <3>4. /\ IsSequence(file'[m].lps) /\ Len(file'[m].lps) = k
          /\ \A i \in 1 .. k : file'[m].lps[i] = file[m].lps[i]
      BY <3>1, <3>2, Beginning DEF FileOf
    <3>5. FileOf(file[m], m)'
      <4>1. file'[m] = [header |-> file'[m].header, lps |-> file'[m].lps]
        BY <3>1
      <4>2. k <= Len(archived[m]) /\ \A i \in 1 .. k : file'[m].lps[i] = archived[m][i].events
        BY <3>2, <3>3, <3>4 DEF FileOf
      <4> QED
        BY <2>1, <3>4, <4>1, <4>2 DEF FileOf
    <3>6. InLocalOrder(m)'
      BY <1>1, <2>1, <3>2, SameChoice DEF InLocalOrder
    <3> QED
      BY <3>5, <3>6 DEF Kept
  <2> QED
    BY <2>2, <2>3, <2>4
<1> QED
  BY <1>3, <1>4, <1>5, <1>6, <1>7

LEMMA InvNext == IInv /\ [Next]_vars => IInv'
<1> SUFFICES ASSUME IInv, [Next]_vars PROVE IInv'
  OBVIOUS
<1>1. Chosen'
  BY ChosenNext DEF IInv
<1>2. ASSUME NEW n \in Process, SetUp(n) PROVE IInv'
  BY <1>1, <1>2, PartitionKeeps, waitForAllProcessesKeeps, checkTimeWarpConfigsKeeps,
     DispatcherMadeKeeps, initializeKeeps, RestoreConfigurationKeeps, restoreLPsKeeps,
     RestartedKeeps DEF SetUp
<1>3. ASSUME NEW n \in Process, Run(n) PROVE IInv'
  BY <1>1, <1>3, ProcessEventKeeps, OpenFileKeeps, ArchiveLPKeeps, CloseFileKeeps DEF Run
<1>4. CASE CrashAndRestart
  BY <1>1, <1>4, CrashAndRestartKeeps
<1>5. CASE UNCHANGED vars
  <2>1. \A m : /\ Own(m)' = Own(m) /\ LPMap(m)' = LPMap(m)
               /\ Compared(settings[m])' = Compared(settings[m]) /\ Matches(m)' = Matches(m)
    BY <1>5, SameChoice DEF vars, setupVars
  <2>2. \A m \in Process : Kept(m)' /\ (Restores(m) => Restores(m)')
    BY <1>5, FileKept, RestoresKept DEF IInv, vars, setupVars
  <2>3. Domains' /\ UpTogether' /\ Maps' /\ Compares'
    BY <1>5, <2>1 DEF IInv, vars, setupVars, Domains, UpTogether, IsUp, Maps, Compares, PastCheck
  <2>4. States' /\ Orders'
    <3>1. \A m : flattened_lps(m)' = flattened_lps(m)
      BY <1>5, SameChoice DEF vars, setupVars
    <3> QED
      BY <1>5, <2>1, <3>1
         DEF IInv, vars, setupVars, States, HasStates, IsStateOf, Orders, FirstRun
  <2>5. Files'
    BY <1>5, <2>2 DEF IInv, vars, Files
  <2> QED
    BY <1>1, <2>3, <2>4, <2>5 DEF IInv
<1> QED
  BY <1>2, <1>3, <1>4, <1>5 DEF Next

-----------------------------------------------------------------------------
(* A simulation comes up only where all processes agree on the settings    *)
(* that rank 0 compares, whatever they are, and, if they have the same     *)
(* block size, where every LP runs on the one process to which all send    *)
(* its events: for every number of processes and LPs, in the first run and *)
(* after a restart.                                                        *)
THEOREM ProcessesAgree == Spec => []SetUpAgrees
<1>1. IInv => SetUpAgrees
  <2> SUFFICES ASSUME IInv, NEW n \in Process, IsUp(n)
               PROVE  SettingsAgree /\ (BlockSizesAgree => OneNodePerLP)
    BY DEF SetUpAgrees
  <2>1. \A m \in Process : IsUp(m) /\ PastCheck(m)
    BY DEF IInv, UpTogether, IsUp, PastCheck
  <2>2. ASSUME NEW m \in Process
        PROVE  Compared(settings[m]) = Compared(settings[0])
    <3> DEFINE c == Len(Compared(settings[0]))
    <3>1. /\ ~ mismatch /\ gathered[0] = c /\ gathered[0] <= gathered[m]
          /\ gathered[m] = Len(Compared(settings[m]))
      BY <2>1, RankZero DEF IInv, Compares
    <3>2. c \in Nat
      BY DEF Compared
    <3>3. \A k \in 1 .. c : Compared(settings[m])[k] = Compared(settings[0])[k]
      BY <3>1 DEF IInv, Compares, Matches
    <3> QED
      BY <3>1, <3>2, <3>3, MatchMeansSame
  <2>3. ASSUME BlockSizesAgree, NEW lp \in LP
        PROVE  \E p \in Process : \A m \in Process :
                  node_id_by_lp_name[m][lp] = p /\ (lp \in DOMAIN state[m] <=> m = p)
    <3>1. PICK p \in Process : \A m \in Process :
             LPMap(m)[lp] = p /\ (lp \in LPsOf(Own(m)) <=> m = p)
      BY <2>3, OneOwner DEF IInv
    <3>2. \A m \in Process : node_id_by_lp_name[m] = LPMap(m)
      BY <2>1 DEF IInv, Maps, IsUp
    <3>3. \A m \in Process : DOMAIN state[m] = LPsOf(Own(m))
      BY <2>1 DEF IInv, States, HasStates, IsStateOf, IsUp
    <3> QED
      BY <3>1, <3>2, <3>3
  <2> QED
    BY <2>2, <2>3 DEF SettingsAgree, OneNodePerLP
<1> QED
  BY <1>1, InvInit, InvNext, PTL DEF Spec

(* Whatever was cut off when the job crashed, and whatever the workers did *)
(* while the file was written: an LP that comes up again has the state     *)
(* that the last checkpoint wrote at its place, that of itself where the   *)
(* local partition keeps the order.                                        *)
THEOREM RestartFindsArchived == Spec => []RestartedIsArchived
<1>1. IInv => RestartedIsArchived
  <2> SUFFICES ASSUME IInv, NEW n \in Process, pc[n] = "restarted",
                      NEW lp \in LPsOf(own[n])
               PROVE  LET k == PlaceOf(n, lp)
                      IN  /\ k \in DOMAIN archived[n]
                          /\ state[n][lp] = archived[n][k].events
                          /\ OrderKept(n) => archived[n][k].lp = lp
    BY DEF RestartedIsArchived
  <2>1. own[n] = Own(n) /\ Restores(n) /\ InLocalOrder(n)
    BY DEF IInv, Maps, Files, Kept
  <2> DEFINE k == PlaceOf(n, lp)
  <2>2. k = PlaceOfLP(n, lp)
    BY <2>1 DEF PlaceOf, PlaceOfLP
  <2>3. k \in DOMAIN own[n] /\ own[n][k] = lp
    BY DEF PlaceOf, LPsOf
  <2> HIDE DEF k
  <2>4. k \in 1 .. Len(archived[n]) /\ state[n][lp] = archived[n][k].events
    BY <2>1, <2>2 DEF Restores
  <2>5. k \in DOMAIN archived[n]
    BY <2>1, <2>4 DEF InLocalOrder, IsSequence
  <2>6. OrderKept(n) => archived[n][k].lp = lp
    BY <2>1, <2>3, <2>4 DEF InLocalOrder, OrderKept
  <2> QED
    BY <2>4, <2>5, <2>6 DEF k
<1> QED
  BY <1>1, InvInit, InvNext, PTL DEF Spec

-----------------------------------------------------------------------------
(* The GVT service: its GVT is a lower bound wherever engine and manager   *)
(* keep their promise.                                                     *)

CONSTANT Nodes
VARIABLES outstanding, gvt

Service == INSTANCE GVTService

ServiceInv == /\ outstanding \in SUBSET Nat
       /\ gvt \in [Nodes -> Nat]
       /\ Service!GVTIsLowerBound

LEMMA ServiceInit == Service!Init => ServiceInv
BY DEF Service!Init, ServiceInv, Service!GVTIsLowerBound

(* A new event is not earlier than an old one, which the GVT bounds; a new *)
(* GVT bounds what is outstanding by the manager's promise.                *)
LEMMA ServiceNext == ServiceInv /\ [Service!Next]_Service!vars => ServiceInv'
<1> SUFFICES ASSUME ServiceInv, [Service!Next]_Service!vars PROVE ServiceInv'
    OBVIOUS
<1> USE DEF ServiceInv, Service!GVTIsLowerBound
<1>1. CASE Service!Work
    <2>1. outstanding' \in SUBSET Nat /\ gvt' = gvt
        BY <1>1 DEF Service!Work
    <2>2. ASSUME NEW n \in Nodes, NEW t \in outstanding' PROVE gvt[n] <= t
        <3>1. CASE t \in outstanding
            BY <3>1
        <3>2. CASE t \notin outstanding
            <4>1. PICK s \in outstanding : s <= t
                BY <1>1, <3>2 DEF Service!Work
            <4>2. gvt[n] \in Nat /\ s \in Nat /\ t \in Nat /\ gvt[n] <= s
                BY <2>1
            <4> QED BY <4>1, <4>2
        <3> QED BY <3>1, <3>2
    <2> QED BY <2>1, <2>2
<1>2. CASE Service!Advance
    <2>1. outstanding' = outstanding /\ gvt' \in [Nodes -> Nat]
        BY <1>2 DEF Service!Advance
    <2>2. ASSUME NEW n \in Nodes, NEW t \in outstanding PROVE gvt'[n] <= t
        <3>1. CASE gvt'[n] = gvt[n]
            BY <3>1
        <3>2. CASE gvt'[n] # gvt[n]
            BY <1>2, <3>2 DEF Service!Advance
        <3> QED BY <3>1, <3>2
    <2> QED BY <2>1, <2>2
<1>3. CASE UNCHANGED Service!vars
    BY <1>3 DEF Service!vars
<1> QED BY <1>1, <1>2, <1>3 DEF Service!Next

(* A step of an engine and a manager that keep their promises makes no     *)
(* work before a time that all work had passed.                            *)
LEMMA PassedStaysPassed ==
    ASSUME ServiceInv, [Service!Next]_Service!vars,
           NEW time \in Nat, \A t \in outstanding : time <= t
    PROVE  \A t \in outstanding' : time <= t
<1>1. CASE Service!Work
    <2> SUFFICES ASSUME NEW t \in outstanding' PROVE time <= t
        OBVIOUS
    <2>1. CASE t \in outstanding
        BY <2>1
    <2>2. CASE t \notin outstanding
        <3>1. PICK s \in outstanding : s <= t
            BY <1>1, <2>2 DEF Service!Work
        <3>2. s \in Nat /\ t \in Nat /\ time <= s
            BY <1>1 DEF Service!Work, ServiceInv
        <3> QED BY <3>1, <3>2
    <2> QED BY <2>1, <2>2
<1>2. CASE Service!Advance
    BY <1>2 DEF Service!Advance
<1>3. CASE UNCHANGED Service!vars
    BY <1>3 DEF Service!vars
<1> QED BY <1>1, <1>2, <1>3 DEF Service!Next

(* Every node's GVT is a lower bound of all outstanding work, for every    *)
(* number of nodes and however the nodes' updates interleave with work.    *)
THEOREM LowerBound == Service!Spec => []Service!GVTIsLowerBound
<1>1. ServiceInv => Service!GVTIsLowerBound
    BY DEF ServiceInv
<1> QED BY ServiceInit, ServiceNext, <1>1, PTL DEF Service!Spec

(* The same without reference to the GVT: work never goes back.            *)
THEOREM WorkNeverGoesBack == Service!Spec => Service!NothingComesBack
<1>1. ServiceInv /\ [Service!Next]_Service!vars =>
          [\A time \in Nat : (\A t \in outstanding : time <= t)
                                => \A t \in outstanding' : time <= t]_Service!vars
    BY PassedStaysPassed
<1> QED BY ServiceInit, ServiceNext, <1>1, PTL DEF Service!Spec, Service!NothingComesBack

-----------------------------------------------------------------------------
(* The ticket lock excludes and is fair for any number of threads that     *)
(* does not exceed the number of tickets, across every wrap-around.        *)

CONSTANTS Thread, Width
VARIABLES ticket_, users_, drawn, lock_pc

Lock == INSTANCE TicketLock WITH me <- drawn, pc <- lock_pc

LEMMA LockCounts ==
    /\ \A S : Lock!Cardinality(S) = Cardinality(S)
    /\ \A S : Lock!IsFiniteSet(S) <=> IsFiniteSet(S)
  BY DEF Lock!Cardinality, Cardinality, Lock!IsFiniteSet, IsFiniteSet

LEMMA QueueingIsFinite ==
    ASSUME Lock!EnoughTickets
    PROVE  /\ IsFiniteSet(Lock!Queueing)
           /\ Cardinality(Lock!Queueing) \in Nat
           /\ Cardinality(Lock!Queueing) <= Width
<1>1. Lock!Queueing \subseteq Thread
      BY DEF Lock!Queueing
<1>2. /\ IsFiniteSet(Lock!Queueing)
      /\ Cardinality(Lock!Queueing) <= Cardinality(Thread)
      BY <1>1, FS_Subset, LockCounts DEF Lock!EnoughTickets
<1>3. Cardinality(Lock!Queueing) \in Nat /\ Cardinality(Thread) \in Nat
      BY <1>2, FS_CardinalityType, LockCounts DEF Lock!EnoughTickets
<1>. QED  BY <1>2, <1>3, LockCounts DEF Lock!EnoughTickets

LEMMA LockInit ==
    ASSUME Lock!EnoughTickets, Lock!Init
    PROVE  Lock!IInv
<1>1. Lock!Queueing = {}
      BY DEF Lock!Init, Lock!Queueing
<1>2. Cardinality(Lock!Queueing) = 0
      BY <1>1, FS_EmptySet
<1>. QED
  BY <1>1, <1>2, LockCounts
  DEF Lock!Init, Lock!IInv, Lock!TypeOK, Lock!Number, Lock!After, Lock!EnoughTickets

(* A thread that draws a ticket comes behind all others.                    *)
LEMMA DrawKeeps ==
    ASSUME Lock!EnoughTickets, Lock!IInv, NEW t \in Thread, Lock!Draw(t)
    PROVE  /\ Lock!IInv'
           /\ \A u \in Lock!Queueing : Lock!Ahead(u)' < Lock!Ahead(t)'
<1>. DEFINE n == Cardinality(Lock!Queueing)
<1>1. Lock!Queueing' = Lock!Queueing \cup {t} /\ t \notin Lock!Queueing
      BY DEF Lock!Draw, Lock!Queueing, Lock!IInv, Lock!TypeOK
<1>2. IsFiniteSet(Lock!Queueing) /\ n \in Nat
      BY QueueingIsFinite
<1>3. Cardinality(Lock!Queueing') = n + 1
      BY <1>1, <1>2, FS_AddElement
<1>4. n < Width
  <2>1. Lock!Queueing \cup {t} \subseteq Thread
        BY DEF Lock!Queueing
  <2>2. Cardinality(Lock!Queueing \cup {t}) <= Cardinality(Thread)
        BY <2>1, FS_Subset, LockCounts DEF Lock!EnoughTickets
  <2>3. Cardinality(Thread) \in Nat
        BY FS_CardinalityType, LockCounts DEF Lock!EnoughTickets
  <2>. QED  BY <1>1, <1>2, <1>3, <2>2, <2>3, LockCounts DEF Lock!EnoughTickets
<1>. users_ = Lock!After(ticket_, n)
     BY LockCounts DEF Lock!IInv
<1>. HIDE DEF n
<1>5. Lock!TypeOK'
      BY DEF Lock!Draw, Lock!IInv, Lock!TypeOK, Lock!FetchAdd, Lock!Number, Lock!EnoughTickets
<1>6. users_' = Lock!After(ticket_', n + 1)
  <2>1. users_' = Lock!FetchAdd(users_) /\ ticket_' = ticket_ /\ ticket_ \in Lock!Number
        BY DEF Lock!Draw, Lock!IInv, Lock!TypeOK
  <2>. QED
    BY <1>2, <1>4, <2>1 DEF Lock!FetchAdd, Lock!After, Lock!Number, Lock!EnoughTickets
<1>7. Lock!Ahead(t)' = n
      BY <1>2, <1>4
      DEF Lock!Draw, Lock!IInv, Lock!TypeOK, Lock!After, Lock!Ahead, Lock!Number,
          Lock!EnoughTickets
<1>8. \A u \in Lock!Queueing : /\ Lock!Ahead(u)' = Lock!Ahead(u)
                               /\ drawn'[u] = drawn[u] /\ Lock!Ahead(u) < n
      BY <1>1, LockCounts DEF Lock!Draw, Lock!IInv, Lock!TypeOK, Lock!Ahead, n
<1>9. \A u \in Lock!Queueing : u \in Thread /\ drawn[u] # users_
      BY <1>2, <1>4, <1>8
      DEF Lock!IInv, Lock!TypeOK, Lock!After, Lock!Ahead, Lock!Number, Lock!Queueing,
          Lock!EnoughTickets, n
<1>10. \A u \in Lock!Queueing' : Lock!Ahead(u)' < n + 1
      BY <1>1, <1>2, <1>7, <1>8, <1>9, <1>5
      DEF Lock!Ahead, Lock!TypeOK, Lock!Number, Lock!EnoughTickets
<1>11. drawn'[t] = users_
      BY DEF Lock!Draw, Lock!IInv, Lock!TypeOK
<1>12. \A u, v \in Lock!Queueing' : drawn'[u] = drawn'[v] => u = v
      BY <1>1, <1>8, <1>9, <1>11 DEF Lock!IInv
<1>13. \A u \in Thread : lock_pc'[u] = "locked" => drawn'[u] = ticket_'
      BY DEF Lock!Draw, Lock!IInv, Lock!TypeOK
<1>14. \A u \in Lock!Queueing : Lock!Ahead(u)' < Lock!Ahead(t)'
      BY <1>7, <1>8
<1>. QED
  BY <1>3, <1>5, <1>6, <1>10, <1>12, <1>13, <1>14, LockCounts DEF Lock!IInv

LEMMA AcquireKeeps ==
    ASSUME Lock!EnoughTickets, Lock!IInv, NEW t \in Thread, Lock!Acquire(t)
    PROVE  Lock!IInv'
<1>1. Lock!Queueing' = Lock!Queueing
      BY DEF Lock!Acquire, Lock!Queueing, Lock!IInv, Lock!TypeOK
<1>2. Lock!TypeOK'
      BY DEF Lock!Acquire, Lock!IInv, Lock!TypeOK
<1>3. \A u \in Lock!Queueing' : Lock!Ahead(u)' < Cardinality(Lock!Queueing)
      BY <1>1, LockCounts DEF Lock!Acquire, Lock!IInv, Lock!Ahead
<1>4. \A u \in Thread : lock_pc'[u] = "locked" => drawn'[u] = ticket_'
      BY DEF Lock!Acquire, Lock!IInv, Lock!TypeOK
<1>. QED
  BY <1>1, <1>2, <1>3, <1>4, LockCounts DEF Lock!Acquire, Lock!IInv

(* The ticket called next is that of the thread that was behind the owner. *)
LEMMA UnlockKeeps ==
    ASSUME Lock!EnoughTickets, Lock!IInv, NEW t \in Thread, Lock!unlock(t)
    PROVE  Lock!IInv'
<1>. DEFINE n == Cardinality(Lock!Queueing)
<1>1. Lock!Queueing' = Lock!Queueing \ {t} /\ t \in Lock!Queueing
      BY DEF Lock!unlock, Lock!Queueing, Lock!IInv, Lock!TypeOK
<1>2. IsFiniteSet(Lock!Queueing) /\ n \in Nat /\ n <= Width
      BY QueueingIsFinite
<1>3. Cardinality(Lock!Queueing') = n - 1
      BY <1>1, <1>2, FS_RemoveElement
<1>4. n > 0
      BY <1>1, <1>2, FS_EmptySet
<1>. HIDE DEF n
<1>5. Lock!TypeOK'
      BY DEF Lock!unlock, Lock!IInv, Lock!TypeOK, Lock!FetchAdd, Lock!Number, Lock!EnoughTickets
<1>6. users_' = Lock!After(ticket_', n - 1)
      BY <1>2, <1>4, LockCounts
      DEF Lock!unlock, Lock!IInv, Lock!TypeOK, Lock!FetchAdd, Lock!After, Lock!Number,
          Lock!EnoughTickets, n
<1>7. drawn[t] = ticket_
      BY DEF Lock!unlock, Lock!IInv
<1>8. \A u \in Lock!Queueing' : u \in Thread /\ u \in Lock!Queueing /\ drawn[u] # ticket_
      BY <1>1, <1>7 DEF Lock!IInv, Lock!Queueing
<1>9. \A u \in Lock!Queueing' : Lock!Ahead(u)' < n - 1
  <2>. SUFFICES ASSUME NEW u \in Lock!Queueing'
                PROVE  Lock!Ahead(u)' < n - 1
       OBVIOUS
  <2>1. /\ drawn[u] \in Lock!Number /\ drawn'[u] = drawn[u] /\ drawn[u] # ticket_
        /\ Lock!Ahead(u) < n
        BY <1>8, LockCounts DEF Lock!unlock, Lock!IInv, Lock!TypeOK, n
  <2>2. ticket_ \in Lock!Number /\ ticket_' = Lock!FetchAdd(ticket_)
        BY DEF Lock!unlock, Lock!IInv, Lock!TypeOK
  <2>. QED
    BY <1>2, <2>1, <2>2 DEF Lock!Ahead, Lock!FetchAdd, Lock!Number, Lock!EnoughTickets
<1>10. \A u, v \in Lock!Queueing' : drawn'[u] = drawn'[v] => u = v
      BY <1>8 DEF Lock!unlock, Lock!IInv
<1>11. \A u \in Thread : lock_pc'[u] # "locked"
  <2>. SUFFICES ASSUME NEW u \in Thread, lock_pc'[u] = "locked"
                PROVE  FALSE
       OBVIOUS
  <2>1. u # t /\ lock_pc[u] = "locked"
        BY DEF Lock!unlock, Lock!IInv, Lock!TypeOK
  <2>2. u \in Lock!Queueing' /\ drawn[u] = ticket_
        BY <1>1, <2>1 DEF Lock!IInv, Lock!Queueing
  <2>. QED  BY <1>8, <2>2
<1>. QED
  BY <1>3, <1>5, <1>6, <1>9, <1>10, <1>11, LockCounts DEF Lock!IInv

LEMMA LockNext ==
    ASSUME Lock!EnoughTickets, Lock!IInv, [Lock!Next]_Lock!vars
    PROVE  Lock!IInv'
<1>1. CASE UNCHANGED Lock!vars
      BY <1>1 DEF Lock!vars, Lock!IInv, Lock!TypeOK, Lock!Queueing, Lock!Ahead
<1>2. CASE Lock!Next
      BY <1>2, DrawKeeps, AcquireKeeps, UnlockKeeps DEF Lock!Next
<1>. QED  BY <1>1, <1>2

LEMMA LockInvariant ==
    ASSUME Lock!EnoughTickets
    PROVE  Lock!Spec => []Lock!IInv
BY LockInit, LockNext, PTL DEF Lock!Spec

(* Two threads never use a schedule queue at once (TicketLock::lock), also  *)
(* when the counters have wrapped around.                                  *)
THEOREM LockIsExclusive ==
    ASSUME Lock!EnoughTickets
    PROVE  Lock!Spec => []Lock!MutualExclusion
<1>1. Lock!IInv => Lock!MutualExclusion
      BY DEF Lock!IInv, Lock!MutualExclusion, Lock!Queueing
<1>. QED  BY <1>1, LockInvariant, PTL

(* Threads get the lock in the order in which lock() drew their tickets.   *)
THEOREM LockIsFair ==
    ASSUME Lock!EnoughTickets
    PROVE  Lock!Spec => Lock!NoOvertaking
<1>1. ASSUME Lock!IInv, [Lock!Next]_Lock!vars
      PROVE  [\A t, u \in Thread :
                 lock_pc[t] = "spinning" /\ lock_pc[u] = "idle" /\ lock_pc'[u] = "spinning" =>
                     Lock!Ahead(t)' < Lock!Ahead(u)']_Lock!vars
  <2>. SUFFICES ASSUME Lock!Next, NEW t \in Thread, NEW u \in Thread,
                       lock_pc[t] = "spinning", lock_pc[u] = "idle", lock_pc'[u] = "spinning"
                PROVE  Lock!Ahead(t)' < Lock!Ahead(u)'
       BY <1>1
  <2>1. PICK v \in Thread : Lock!Draw(v) \/ Lock!Acquire(v) \/ Lock!unlock(v)
        BY DEF Lock!Next
  <2>2. Lock!Draw(u)
        BY <1>1, <2>1 DEF Lock!Draw, Lock!Acquire, Lock!unlock, Lock!IInv, Lock!TypeOK
  <2>3. t \in Lock!Queueing
        BY DEF Lock!Queueing
  <2>. QED  BY <1>1, <2>2, <2>3, DrawKeeps
<1>. QED  BY <1>1, LockInvariant, PTL DEF Lock!Spec, Lock!NoOvertaking
=============================================================================
