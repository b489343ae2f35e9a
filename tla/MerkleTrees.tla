---------------------------- MODULE MerkleTrees ----------------------------
(***************************************************************************)
(* The two kinds of Merkle tree of packages/crypto/src: the one over a     *)
(* list of leaves (index.ts: package leaves of a batch, nullifier sets)    *)
(* and the fixed-depth sparse one over the eligibility roll                *)
(* (eligibleBallot.ts).  A hash is the tuple of its domain and its inputs, *)
(* so it is injective and nothing else.                                    *)
(***************************************************************************)
EXTENDS Integers, Sequences, FiniteSets, SequencesExt

zeroHash == <<"zero">>   \* bytes32(0)

hashMerklePair(left, right) == <<"SVB_MERKLE_PAIR_V1", left, right>>

\* seeded fault: the odd last node is paired with the first one
NextLevelWraps(level) ==
  [i \in 1..(Len(level) + 1) \div 2 |->
     hashMerklePair(level[2 * i - 1],
                    level[IF 2 * i \in DOMAIN level THEN 2 * i ELSE 1])]

(* One pass of the loop: an odd last node is paired with itself.           *)
NextLevel(level) ==
  [i \in 1..(Len(level) + 1) \div 2 |->
     hashMerklePair(level[2 * i - 1],
                    level[IF 2 * i \in DOMAIN level THEN 2 * i ELSE 2 * i - 1])]

Levels(leaves) ==
  LET level[n \in 0..Len(leaves)] ==
        IF n = 0 THEN leaves
        ELSE IF Len(level[n - 1]) = 1 THEN level[n - 1]
             ELSE NextLevel(level[n - 1])
  IN  level

merkleRoot(leaves) ==
  IF leaves = << >> THEN zeroHash ELSE Levels(leaves)[Len(leaves)][1]

(* leafIndex counts from zero, as in the code. *)
merkleProof(leaves, leafIndex) ==
  LET level == Levels(leaves)
      height == CHOOSE h \in 0..Len(leaves) :
                  Len(level[h]) = 1 /\ \A k \in 0..h - 1 : Len(level[k]) > 1
      index[k \in 0..Len(leaves)] ==
        IF k = 0 THEN leafIndex ELSE index[k - 1] \div 2
      isLeft(k) == index[k] % 2 = 0
      sibling(k) == IF isLeft(k) THEN index[k] + 1 ELSE index[k] - 1
  IN  [k \in 1..height |->
         [sibling   |-> level[k - 1][IF sibling(k - 1) < Len(level[k - 1])
                                       THEN sibling(k - 1) + 1
                                       ELSE index[k - 1] + 1],
          direction |-> IF isLeft(k - 1) THEN "right" ELSE "left"]]

(* The hash a proof leads to from a leaf. *)
ProofRoot(leafHash, proof) ==
  LET cursor[k \in 0..Len(proof)] ==
        IF k = 0 THEN leafHash
        ELSE IF proof[k].direction = "left"
               THEN hashMerklePair(proof[k].sibling, cursor[k - 1])
               ELSE hashMerklePair(cursor[k - 1], proof[k].sibling)
  IN  cursor[Len(proof)]

verifyMerkleProof(leafHash, proof, expectedRoot) ==
  ProofRoot(leafHash, proof) = expectedRoot

(* Nullifiers are numbers, sorted as their hexadecimal forms are: the i-th *)
(* has i - 1 smaller ones.                                                 *)
Sorted(numbers) ==
  [i \in 1..Cardinality(numbers) |->
     CHOOSE n \in numbers : Cardinality({m \in numbers : m < n}) = i - 1]

NullifierLeaf(nullifier) == <<"SVB_NULLIFIER_LEAF_V1", nullifier>>

nullifierSetRoot(nullifiers) ==
  merkleRoot([i \in 1..Cardinality(nullifiers) |->
                NullifierLeaf(Sorted(nullifiers)[i])])

-----------------------------------------------------------------------------
(* The eligibility tree.  Empty positions are filled, at each level, with  *)
(* the hash of an empty subtree; the code keeps only the other nodes.      *)

Poseidon2(left, right) == <<"poseidon", left, right>>

(* credentials is a function from the occupied positions to commitments. *)
EligibilityLevels(credentials, depth) ==
  LET level[k \in 0..depth] ==
        IF k = 0
          THEN [i \in 0..2 ^ depth - 1 |->
                  IF i \in DOMAIN credentials THEN credentials[i] ELSE <<"empty">>]
          ELSE [i \in 0..2 ^ (depth - k) - 1 |->
                  Poseidon2(level[k - 1][2 * i], level[k - 1][2 * i + 1])]
  IN  level

(* targetIndex is one of the occupied positions. *)
buildEligibilityMembership(credentials, targetIndex, depth) ==
  LET level == EligibilityLevels(credentials, depth)
      index(k) == targetIndex \div 2 ^ k
  IN  [credentialCommitment |-> level[0][targetIndex],
       eligibilityRoot      |-> level[depth][0],
       pathElements |-> [k \in 1..depth |->
          level[k - 1][IF index(k - 1) % 2 = 0 THEN index(k - 1) + 1
                                               ELSE index(k - 1) - 1]],
       pathIndices  |-> [k \in 1..depth |-> index(k - 1) % 2]]

(* What the membership constraints of eligible_ballot.circom compute: the  *)
(* node at the end of the path, which they equate with the root.           *)
PathRoot(commitment, pathElements, pathIndices) ==
  FoldLeft(LAMBDA node, k :
             IF pathIndices[k] = 0 THEN Poseidon2(node, pathElements[k])
                                   ELSE Poseidon2(pathElements[k], node),
           commitment, [k \in DOMAIN pathElements |-> k])
=============================================================================
