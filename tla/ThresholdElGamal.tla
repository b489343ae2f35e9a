-------------------------- MODULE ThresholdElGamal --------------------------
(***************************************************************************)
(* Ballot encryption, aggregation and threshold decryption                 *)
(* (packages/crypto/src: index.ts for the V1 scheme over secp256k1,        *)
(* proofCompatible*.ts for the V2/V3 scheme over BabyJubJub).              *)
(*                                                                         *)
(* Abstracted: the group is generic.  A point is the vector of its         *)
(* coefficients modulo the (small, prime) group order: coordinate 0 is the *)
(* generator's, coordinate b that of the random point of ballot b, so two  *)
(* points are equal only when they are equal for every randomness.  The    *)
(* candidates of a ballot draw independent randomness and never mix, so    *)
(* they share one coordinate.  A DLEQ proof is sound: it verifies only for *)
(* the statement its challenge hashes, and shows that one scalar links     *)
(* both pairs of points.                                                   *)
(***************************************************************************)
EXTENDS Integers, Sequences, FiniteSets, SequencesExt

CONSTANTS
  Order,        \* the prime order of the group
  BallotIds,    \* 1..n, one random point each
  Candidates

ASSUME GroupAssumption ==
  /\ Order \in Nat \ {0, 1}
  /\ \A d \in 2..Order - 1 : Order % d # 0
  /\ BallotIds \subseteq Nat \ {0}

modOrder(value) == value % Order

(* {...record, ...fields} *)
Extended(record, fields) ==
  [x \in DOMAIN record \cup DOMAIN fields |->
     IF x \in DOMAIN fields THEN fields[x] ELSE record[x]]

(* The extended Euclid loop of modInverse, one step for each n. *)
Euclid(value) ==
  LET state[n \in 0..Order] ==
        IF n = 0
          THEN [low |-> modOrder(value), high |-> Order, lm |-> 1, hm |-> 0]
          ELSE LET s == state[n - 1]
                   ratio == s.high \div s.low
               IN  IF s.low > 1
                     THEN [low |-> s.high - s.low * ratio, high |-> s.low,
                           lm |-> s.hm - s.lm * ratio,     hm |-> s.lm]
                     ELSE s
  IN  state[Order]

modInverse(value) == modOrder(Euclid(value).lm)

(* The assertion only the subgroup version makes. *)
HasSubgroupInverse(value) == Euclid(value).low = 1

(* The products over all indexes but x, one step for each index. *)
ProductsAt(z, x, allX) ==
  LET product[n \in 0..Len(allX)] ==
        IF n = 0 THEN [numerator |-> 1, denominator |-> 1]
        ELSE LET p     == product[n - 1]
                 other == allX[n]
             IN  IF other = x THEN p
                 ELSE [numerator   |-> modOrder(p.numerator * (z - other)),
                       denominator |-> modOrder(p.denominator * (x - other))]
  IN  product[Len(allX)]

\* seeded fault: the coefficient of the polynomial's value at one
lagrangeCoefficientAtOne(x, allX) ==
  LET p == ProductsAt(1, x, allX)
  IN  modOrder(p.numerator * modInverse(p.denominator))

lagrangeCoefficientAtZero(x, allX) ==
  LET p == ProductsAt(0, x, allX)
  IN  modOrder(p.numerator * modInverse(p.denominator))

Zero == [b \in BallotIds \cup {0} |-> 0]
Base == [Zero EXCEPT ![0] = 1]
Randomness(b) == [Zero EXCEPT ![b] = 1]
Add(p, q) == [b \in DOMAIN p |-> modOrder(p[b] + q[b])]
Multiply(p, scalar) == [b \in DOMAIN p |-> modOrder(p[b] * scalar)]

AddAll(points) ==
  LET sum[n \in 0..Len(points)] ==
        IF n = 0 THEN Zero ELSE Add(sum[n - 1], points[n])
  IN  sum[Len(points)]

-----------------------------------------------------------------------------
(* Election keys and ballots.  An operation that throws returns {}, one    *)
(* that returns v returns {v}.                                             *)

(* V1: hashElectionPublicKey *)
hashElectionPublicKey(publicKey) == <<"SVB_ELECTION_PUBLIC_KEY_V1", publicKey>>

(* V2 and V3 *)
hashProofCompatibleElectionPublicKey(publicKey) == <<"babyjub", publicKey>>

PublicKeyHash(version, publicKey) ==
  IF version = 1 THEN hashElectionPublicKey(publicKey)
                 ELSE hashProofCompatibleElectionPublicKey(publicKey)

OneHot(selected) == [c \in Candidates |-> IF c = selected THEN 1 ELSE 0]

Pairs(publicKey, selected, b) ==
  [c1 |-> [c \in Candidates |-> Randomness(b)],
   c2 |-> [c \in Candidates |->
             Add(Multiply(Randomness(b), publicKey[0]),
                 Multiply(Base, OneHot(selected)[c]))]]

encryptBallotSelection(publicKey, selected, b) ==
  LET pairs == Pairs(publicKey, selected, b)
  IN  [electionPublicKeyHash |-> hashElectionPublicKey(publicKey),
       c1 |-> pairs.c1, c2 |-> pairs.c2]

encryptProofCompatibleBallot(publicKey, selected, b) ==
  LET pairs == Pairs(publicKey, selected, b)
  IN  [electionPublicKeyHash |-> hashProofCompatibleElectionPublicKey(publicKey),
       c1 |-> pairs.c1, c2 |-> pairs.c2]

digestBallotCiphertext(ciphertext) == <<"SVB_BALLOT_CIPHERTEXT_V1", ciphertext>>

digestProofCompatibleCiphertext(ciphertext) ==
  <<"SVB_BALLOT_CIPHERTEXT_V2", ciphertext>>

SameKey(ciphertexts) ==
  \A i \in DOMAIN ciphertexts :
    ciphertexts[i].electionPublicKeyHash = ciphertexts[1].electionPublicKeyHash

PointwiseSum(ciphertexts) ==
  [electionPublicKeyHash |-> ciphertexts[1].electionPublicKeyHash,
   c1 |-> [c \in Candidates |->
             AddAll([i \in DOMAIN ciphertexts |-> ciphertexts[i].c1[c]])],
   c2 |-> [c \in Candidates |->
             AddAll([i \in DOMAIN ciphertexts |-> ciphertexts[i].c2[c]])]]

\* seeded fault: the first ciphertext is both the start and a summand
aggregateFirstTwice(ciphertexts) ==
  IF ciphertexts # << >> /\ SameKey(ciphertexts)
    THEN {PointwiseSum(<<ciphertexts[1]>> \o ciphertexts)} ELSE {}

aggregateBallotCiphertexts(ciphertexts) ==
  IF ciphertexts # << >> /\ SameKey(ciphertexts)
    THEN {PointwiseSum(ciphertexts)} ELSE {}

aggregateProofCompatibleCiphertexts(ciphertexts) ==
  IF ciphertexts # << >> /\ SameKey(ciphertexts)
    THEN {PointwiseSum(ciphertexts)} ELSE {}

-----------------------------------------------------------------------------
(* Discrete logarithms of small tallies *)

(* buildTallyLookup: the votes a message point stands for, if any. *)
Lookup(messagePoint, maxVotes) ==
  {count \in 0..maxVotes : Multiply(Base, count) = messagePoint}

Counts(ciphertext, sharedSecret, maxVotes) ==
  LET message == [c \in Candidates |->
                    Add(ciphertext.c2[c], Multiply(sharedSecret[c], -1))]
  IN  {counts \in {[c \in Candidates |-> message[c][0]]} :
         \A c \in Candidates : counts[c] \in Lookup(message[c], maxVotes)}

(* The trusted path: whoever holds the whole private key. *)
decryptAggregatedTally(privateKey, ciphertext, maxVotes) ==
  IF ciphertext.electionPublicKeyHash =
       hashElectionPublicKey(Multiply(Base, privateKey))
    THEN Counts(ciphertext,
                [c \in Candidates |-> Multiply(ciphertext.c1[c], privateKey)],
                maxVotes)
    ELSE {}

decryptProofCompatibleTally(privateKey, ciphertext, maxVotes) ==
  IF ciphertext.electionPublicKeyHash =
       hashProofCompatibleElectionPublicKey(Multiply(Base, privateKey))
    THEN Counts(ciphertext,
                [c \in Candidates |-> Multiply(ciphertext.c1[c], privateKey)],
                maxVotes)
    ELSE {}

-----------------------------------------------------------------------------
(* Shamir key sets *)

(* privateKey + coefficients[1] * i + coefficients[2] * i^2 + ... *)
ShareAt(privateKey, coefficients, trusteeIndex) ==
  LET sum[k \in 0..Len(coefficients)] ==
        IF k = 0 THEN [y |-> privateKey, power |-> trusteeIndex]
        ELSE LET s == sum[k - 1]
             IN  [y     |-> modOrder(s.y + coefficients[k] * s.power),
                  power |-> modOrder(s.power * trusteeIndex)]
  IN  sum[Len(coefficients)].y

assertScalar(value) == value \in 1..Order - 1

(* Every scalar is asserted to be one, the shares included. *)
createThresholdElectionKeyShares(privateKey, coefficients, trusteeCount) ==
  LET share == [i \in 1..trusteeCount |-> ShareAt(privateKey, coefficients, i)]
      publicKey == Multiply(Base, privateKey)
  IN  {keySet \in {[threshold     |-> Len(coefficients) + 1,
                    publicKey     |-> publicKey,
                    publicKeyHash |-> hashElectionPublicKey(publicKey),
                    privateShares |-> share,
                    publicShares  |-> [i \in 1..trusteeCount |->
                                         Multiply(Base, share[i])]]} :
         /\ keySet.threshold \in 2..trusteeCount
         /\ \A value \in {privateKey} \cup ToSet(coefficients) \cup ToSet(share) :
              assertScalar(value)}

createProofCompatibleThresholdKeySet(privateKey, coefficients, trusteeCount) ==
  LET publicKey == Multiply(Base, privateKey)
  IN  {[keySet EXCEPT
          !.publicKeyHash = hashProofCompatibleElectionPublicKey(publicKey)] :
        keySet \in createThresholdElectionKeyShares(privateKey, coefficients,
                                                    trusteeCount)}

-----------------------------------------------------------------------------
(* Decryption shares *)

(* What a proof of one share point is about. *)
decryptionShareChallenge(share, ciphertext, c) ==
  <<"SVB_TALLY_DECRYPTION_SHARE_DLEQ_V1", share.electionPublicKeyHash,
    share.trusteeIndex, share.trusteePublicShare, ciphertext.c1[c],
    share.decryptionSharePoints[c]>>

challenge(share, ciphertext, c) ==
  <<"SVB_BABYJUB_DLEQ_SHARE_V1", share.electionPublicKeyHash,
    share.trusteeIndex, share.trusteePublicShare, ciphertext.c1[c],
    share.decryptionSharePoints[c]>>

Unproved(privateShare, trusteeIndex, ciphertext) ==
  [trusteeIndex          |-> trusteeIndex,
   trusteePublicShare    |-> Multiply(Base, privateShare),
   electionPublicKeyHash |-> ciphertext.electionPublicKeyHash,
   decryptionSharePoints |->
     [c \in Candidates |-> Multiply(ciphertext.c1[c], privateShare)]]

(* V1 does not look whether the ciphertext is for the trustee's key. *)
createTallyDecryptionShare(privateShare, trusteeIndex, ciphertext) ==
  LET share == Unproved(privateShare, trusteeIndex, ciphertext)
  IN  Extended(share,
        [proofs |-> [c \in Candidates |->
           [challenge |-> decryptionShareChallenge(share, ciphertext, c),
            witness   |-> privateShare]]])

createProofCompatibleDecryptionShare(privateShare, trusteeIndex, ciphertext) ==
  LET share == Unproved(privateShare, trusteeIndex, ciphertext)
  IN  Extended(share,
        [proofs |-> [c \in Candidates |->
           [challenge |-> challenge(share, ciphertext, c),
            witness   |-> privateShare]]])

\* seeded fault: the proofs are not looked at
DleqUnchecked(share, ciphertext, c, expected) == TRUE

DleqHolds(share, ciphertext, c, expected) ==
  LET proof == share.proofs[c]
  IN  /\ proof.challenge = expected
      /\ share.trusteePublicShare = Multiply(Base, proof.witness)
      /\ share.decryptionSharePoints[c] = Multiply(ciphertext.c1[c], proof.witness)

validateTallyDecryptionShare(ciphertext, share) ==
  share.electionPublicKeyHash = ciphertext.electionPublicKeyHash

verifyTallyDecryptionShare(ciphertext, share) ==
  /\ validateTallyDecryptionShare(ciphertext, share)
  /\ \A c \in Candidates :
       DleqHolds(share, ciphertext, c,
                 decryptionShareChallenge(share, ciphertext, c))

verifyProofCompatibleDecryptionShare(ciphertext, share) ==
  /\ share.electionPublicKeyHash = ciphertext.electionPublicKeyHash
  /\ \A c \in Candidates :
       DleqHolds(share, ciphertext, c, challenge(share, ciphertext, c))

Indexes(shares) == [i \in DOMAIN shares |-> shares[i].trusteeIndex]

DistinctIndexes(shares) ==
  \A i, j \in DOMAIN shares :
    shares[i].trusteeIndex = shares[j].trusteeIndex => i = j

(* Lagrange interpolation at zero of one point of every share. *)
Interpolate(shares, points) ==
  AddAll([i \in DOMAIN shares |->
            Multiply(points[i],
                     lagrangeCoefficientAtZero(shares[i].trusteeIndex,
                                               Indexes(shares)))])

SharedSecret(shares) ==
  [c \in Candidates |->
     Interpolate(shares,
                 [i \in DOMAIN shares |-> shares[i].decryptionSharePoints[c]])]

(* V1: every share is validated, then the ones with the lowest indexes are *)
(* selected (a stable sort), and only those are verified.                  *)
SelectLowest(shares, threshold) ==
  LET Before(i) == {j \in DOMAIN shares :
                      \/ shares[j].trusteeIndex < shares[i].trusteeIndex
                      \/ /\ shares[j].trusteeIndex = shares[i].trusteeIndex
                         /\ j < i}
  IN  [n \in 1..threshold |->
         shares[CHOOSE i \in DOMAIN shares : Cardinality(Before(i)) = n - 1]]

decryptAggregatedTallyWithShares(ciphertext, shares, threshold, maxVotes) ==
  LET selected == SelectLowest(shares, threshold)
  IN  IF /\ threshold >= 2
         /\ Len(shares) >= threshold
         /\ \A i \in DOMAIN shares :
              validateTallyDecryptionShare(ciphertext, shares[i])
         /\ \A i \in DOMAIN selected :
              verifyTallyDecryptionShare(ciphertext, selected[i])
         /\ DistinctIndexes(selected)
         /\ hashElectionPublicKey(Interpolate(selected,
               [i \in DOMAIN selected |-> selected[i].trusteePublicShare]))
              = ciphertext.electionPublicKeyHash
        THEN Counts(ciphertext, SharedSecret(selected), maxVotes)
        ELSE {}

(* V2 and V3: the first shares, in the order given; the public key they    *)
(* reconstruct is not looked at.                                           *)
decryptProofCompatibleTallyWithShares(ciphertext, shares, threshold, maxVotes) ==
  LET selected == SubSeq(shares, 1, threshold)
  IN  IF /\ Len(shares) >= threshold
         /\ DistinctIndexes(selected)
         /\ \A i \in DOMAIN selected :
              verifyProofCompatibleDecryptionShare(ciphertext, selected[i])
         /\ \A i \in DOMAIN selected :
              HasSubgroupInverse(ProductsAt(0, selected[i].trusteeIndex,
                                            Indexes(selected)).denominator)
        THEN Counts(ciphertext, SharedSecret(selected), maxVotes)
        ELSE {}

(* V1: the proofs are not part of the digest. *)
digestTallyDecryptionShare(ciphertext, share) ==
  <<"SVB_TALLY_DECRYPTION_SHARE_V1", digestBallotCiphertext(ciphertext),
    share.trusteeIndex, share.trusteePublicShare, share.electionPublicKeyHash,
    share.decryptionSharePoints>>

digestProofCompatibleDecryptionShare(share) ==
  <<"SVB_BABYJUB_DECRYPTION_SHARE_DIGEST_V1", share>>
=============================================================================
