------------------------------- MODULE Merkle -------------------------------
(***************************************************************************)
(* The Merkle tree of a credential's attributes: merkle.service.ts, which   *)
(* builds it and derives the path of a leaf, and merkle_disclosure.circom,  *)
(* which accepts a path.  Poseidon is taken to be injective: the hash of a  *)
(* pair is the pair.  The tree has the depth DEPTH, 8 in the code.          *)
(***************************************************************************)
EXTENDS Naturals, Sequences

CONSTANTS
  DEPTH,
  MaxValue          \* the largest number of N_BITS bits, 2^32 - 1 in the code

ASSUME DepthAssumption == DEPTH \in Nat \ {0} /\ MaxValue \in Nat

(* 1 << n *)
Shift ==
  LET one[n \in 0 .. DEPTH] == IF n = 0 THEN 1 ELSE 2 * one[n - 1]
  IN  one

MAX_LEAVES == Shift[DEPTH]

poseidon2(left, right) == <<left, right>>

(* computeLeafHash; an unused leaf is the hash of <<0, 0>>. *)
LeafHash(value, salt) == poseidon2(value, salt)
ZeroLeaf == LeafHash(0, 0)

(* buildTree: node 1 is the root, node MAX_LEAVES + i the leaf i. *)
Nodes(leafHashes) ==
  LET node[i \in 1 .. 2 * MAX_LEAVES - 1] ==
        IF i < MAX_LEAVES THEN poseidon2(node[2 * i], node[2 * i + 1])
        ELSE IF i - MAX_LEAVES < Len(leafHashes) THEN leafHashes[i - MAX_LEAVES + 1]
        ELSE ZeroLeaf
  IN  node

(* n, halved level times: the way from a leaf up, and the bits of a number. *)
Halved(n) ==
  LET half[level \in 0 .. DEPTH] == IF level = 0 THEN n ELSE half[level - 1] \div 2
  IN  half

IsRightChild(n) == n % 2 = 1

\* Mutant: left and right are taken for one another.
PathMirrored(node, i) ==
  LET above == Halved(MAX_LEAVES + i)
  IN  [level \in 1 .. DEPTH |->
         LET n == above[level - 1]
         IN  [element |-> node[IF IsRightChild(n) THEN n - 1 ELSE n + 1],
              index |-> IF IsRightChild(n) THEN 0 ELSE 1]]

(* generateProof: at every level the sibling, and on which side it is. *)
Path(node, i) ==
  LET above == Halved(MAX_LEAVES + i)
  IN  [level \in 1 .. DEPTH |->
         LET n == above[level - 1]
         IN  [element |-> node[IF IsRightChild(n) THEN n - 1 ELSE n + 1],
              index |-> IF IsRightChild(n) THEN 1 ELSE 0]]

(* verifyProof, and levelHashes of the circuit: the root a path leads to. *)
Climb(leafHash, path) ==
  LET hash[level \in 0 .. DEPTH] ==
        IF level = 0 THEN leafHash
        ELSE IF path[level].index = 1 THEN poseidon2(path[level].element, hash[level - 1])
        ELSE poseidon2(hash[level - 1], path[level].element)
  IN  hash[DEPTH]

(* MerkleDisclosure: membership, value at least threshold, both of N_BITS    *)
(* bits, and the path's turns are the DEPTH bits of leaf_index.             *)
Accepts(root, threshold, leaf_index, leaf_value, salt, path) ==
  /\ Climb(LeafHash(leaf_value, salt), path) = root
  /\ leaf_value \in 0 .. MaxValue /\ threshold \in 0 .. MaxValue
  /\ threshold < leaf_value + 1
  /\ leaf_index \in 0 .. MAX_LEAVES - 1
  /\ LET bit == Halved(leaf_index)
     IN  \A level \in 1 .. DEPTH : path[level].index = bit[level - 1] % 2
=============================================================================
