------------------------ MODULE RoundRobinPartitioner ------------------------
(***************************************************************************)
(* The assignment of LPs to nodes and, within a node, to schedule queues   *)
(* (RoundRobinPartitioner.cpp): blocks of LPs are dealt out in turn; the   *)
(* LPs left over go on with the inner loop's variable and are dealt one by *)
(* one.  LPs are numbered from 0, as the vector is.                        *)
(***************************************************************************)
EXTENDS Integers, Sequences, FiniteSets

(* With fewer LPs than partitions the block size would be 0 and the number *)
(* of blocks a division by zero.                                           *)
BlockSize(blocksize, n, num_partitions) ==
    IF blocksize = 0 \/ blocksize > n \div num_partitions
    THEN n \div num_partitions ELSE blocksize

(* The values <<i, j>> of the loop variables with which an LP is pushed:   *)
(* those of the two nested loops ...                                       *)
DealBlocks(n, b) == (0 .. n \div b - 1) \X (0 .. b - 1)

(* ... and those of the last loop, with i as it is after `i--' and j going *)
(* on from the block size.                                                 *)
DealRest(n, b) ==
    LET i == n \div b - 1
    IN  {<<i, j>> : j \in {k \in b .. n : b * i + k < n}}

Deals(n, b)            == DealBlocks(n, b) \cup DealRest(n, b)
Index(b, deal)         == b * deal[1] + deal[2]

Target(b, num_partitions, deal) ==
    IF deal[2] < b THEN deal[1] % num_partitions ELSE deal[2] % num_partitions

(* The elements of seq at the given indices, in their order.               *)
InOrder(seq, indices) ==
    [k \in 1 .. Cardinality(indices) |->
        seq[1 + CHOOSE x \in indices : Cardinality({y \in indices : y < x}) = k - 1]]

(* The indices of the LPs of partition p.                                  *)
DealtTo(p, n, b, num_partitions) ==
    {Index(b, d) : d \in {e \in Deals(n, b) : Target(b, num_partitions, e) = p}}

(* The partitions, numbered from 0; push_back keeps the order of the LPs,  *)
(* because both parts run through the vector from the front.               *)
partition(lps, num_partitions, blocksize) ==
    LET n == Len(lps)
        b == BlockSize(blocksize, n, num_partitions)
    IN  [p \in 0 .. num_partitions - 1 |-> InOrder(lps, DealtTo(p, n, b, num_partitions))]
=============================================================================
