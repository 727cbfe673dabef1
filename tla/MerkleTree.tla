----------------------------- MODULE MerkleTree -----------------------------
(***************************************************************************)
(* The Merkle tree of one sector and the comparison of two of them         *)
(* (kvsrv/merkle.go, findDiffBuckets of kvsrv/anti_entropy.go).            *)
(*                                                                         *)
(* A sector has 2^Depth buckets (chr fixes bucketsPerSector at 256), so    *)
(* every level of the tree pairs up without a remainder.  SHA-256 over the *)
(* length-prefixed encoding is taken to be injective: the hash of a leaf   *)
(* is the one-element sequence of its contents, that of an internal node   *)
(* the sequence of the contents below it.                                  *)
(***************************************************************************)
EXTENDS Naturals, SequencesExt

CONSTANT Depth

ASSUME DepthAssumption == Depth \in Nat \ {0}

(* Width[d] = 2^d: the nodes at distance d from the root. *)
Width[d \in 0..Depth] == IF d = 0 THEN 1 ELSE 2 * Width[d - 1]

NumBuckets == Width[Depth]
Bucket == 0..(NumBuckets - 1)

(* writeKVPair: every part is written after its length and the siblings are *)
(* sorted, so the bytes tell which key has which set of siblings.           *)
WriteKVPair(k, objs) == <<k, objs>>

(* makeMerkleLeafFromSnapshot: the pairs of the sorted keys. *)
Leaf(keys, siblings) == {WriteKVPair(k, siblings[k]) : k \in ToSet(keys)}

IsEmptyHash(hash) == hash = <<{}>>

(* buildMerkleTreeFromSnapshot pairs neighboring nodes until one is left:   *)
(* Levels(leaves)[l] are the nodes after l rounds.                          *)
PairUp(nodes) == [j \in 1..(Len(nodes) \div 2) |-> nodes[2 * j - 1] \o nodes[2 * j]]

Levels(leaves) ==
  LET level[l \in 0..Depth] ==
        IF l = 0 THEN [j \in 1..NumBuckets |-> <<leaves[j]>>] ELSE PairUp(level[l - 1])
  IN  level

(* ToSummary: the hashes in breadth-first order, the root's at position 0.  *)
ToSummary(leaves) ==
  LET from[l \in 0..Depth] ==
        IF l = 0 THEN Levels(leaves)[0] ELSE Levels(leaves)[l] \o from[l - 1]
  IN  [i \in 0..(2 * NumBuckets - 2) |-> from[Depth][i + 1]]

-----------------------------------------------------------------------------
(* MUTANT of Parent: the positions of an array that starts at 1. *)
ParentFromOne(i) == i \div 2

(* The children of position i are 2i+1 and 2i+2; so the parent of i > 0 is: *)
Parent(i) == (i - 1) \div 2

(* One round of findDiffBuckets, over the positions of one level: those of  *)
(* the next are queued whose parent's hashes differ and whose own hash is   *)
(* not that of an empty bucket.                                             *)
Enqueue(my, neighbor, queue) ==
  {i \in DOMAIN my : /\ i > 0 /\ Parent(i) \in queue
                     /\ my[Parent(i)] # neighbor[Parent(i)]
                     /\ ~IsEmptyHash(my[i])}

(* A leaf of the queue whose hashes differ is reported. *)
FindDiffBuckets(my, neighbor) ==
  LET half == Cardinality(DOMAIN my) \div 2
      queue[d \in 0..Depth] == IF d = 0 THEN {0} ELSE Enqueue(my, neighbor, queue[d - 1])
  IN  {b \in Bucket : /\ \E d \in 0..Depth : b + half \in queue[d]
                      /\ my[b + half] # neighbor[b + half]}

(* What the comparison is for: the buckets in which the two trees differ    *)
(* and the answering server has something to send.  The leaves are the last *)
(* NumBuckets hashes of a summary.                                          *)
DifferingBuckets(my, neighbor) ==
  {b \in Bucket : LET pos == b + NumBuckets - 1
                  IN  my[pos] # neighbor[pos] /\ ~IsEmptyHash(my[pos])}

=============================================================================
