------------------------- MODULE BatchPipeline_proofs -------------------------
(***************************************************************************)
(* Proofs about the batch log of BatchPipeline and ElectionPipeline and    *)
(* the tallies made from it, for every election and any number of ballots, *)
(* batches, artifacts and restarts: no nullifier is counted twice, no      *)
(* credential votes twice, an inclusion receipt verifies against exactly   *)
(* the batches that hold its packages, the log can be tallied, a tally     *)
(* holds the votes of the batches it names, a result counts them, and      *)
(* enough good share files always give one.                                *)
(*                                                                         *)
(* First come Merkle trees.  A root names the list of its leaves           *)
(* (RootOneToOne): two trees of one root are followed downwards level by   *)
(* level, an odd last node being recognisable as the one paired with       *)
(* itself because leaves are distinct.  So a nullifier root names a set    *)
(* (NullifierRootOneToOne), and the proof made for a leaf leads to the     *)
(* root (ProofsReachRoot).                                                 *)
(*                                                                         *)
(* Then the invariant of the log, BatchInv: every artifact follows SOME    *)
(* set of nullifiers, whatever the process that built it held in its       *)
(* accumulator; the chain accepts it only on top of the root of that set,  *)
(* and then the set can only be what the log already holds.                *)
(*                                                                         *)
(* Then tallies.  A replay rebuilds each batch of the log (LogReplays),   *)
(* and one that succeeds rebuilt batches of disjoint lists of ballots      *)
(* (EntriesRebuilt).  Encrypts says what a ciphertext of a set of ballots  *)
(* is; sums of ciphertexts of disjoint sets encrypt the union              *)
(* (SumEncrypts), which the whole key decrypts to its votes (DecryptsTo).  *)
(*                                                                         *)
(* Last, results.  A share file shows one scalar (FileWitnessed) or fails  *)
(* its proof, and the points of several files give the secret of their     *)
(* scalars' combination (SharedSecretIs).  That is the key: in version 1   *)
(* because the public shares combine to it (SharesDecryptV1), in versions  *)
(* 2 and 3 because the scalars are values of the ceremony's polynomial     *)
(* (SharesDecrypt).  And that good share files always decrypt: the order   *)
(* is prime, so Euclid's algorithm finds every inverse the coefficients    *)
(* need (EuclidFinds, DenominatorInverts), and a transcript digest names   *)
(* the public shares of every trustee, so shares dealt by two runs with    *)
(* one digest go together (GoodFilesAre).                                  *)
(*                                                                         *)
(* Recursive definitions are unfolded by showing that the function they    *)
(* choose exists; inductions are on a least counterexample.                *)
(***************************************************************************)
EXTENDS ElectionPipeline, FiniteData_proofs

-----------------------------------------------------------------------------
(* Levels of a tree *)

(* A step of the recursion of Levels. *)
Above(level) == IF Len(level) = 1 THEN level ELSE NextLevel(level)

IsLevels(g, leaves, m) ==
  g = [n \in 0..m |-> IF n = 0 THEN leaves ELSE Above(g[n - 1])]

(* The levels are what the recursion says: the recursive function exists. *)
LEMMA LevelsExist ==
  ASSUME NEW leaves, NEW m \in Nat
  PROVE  \E g : IsLevels(g, leaves, m)
<1> DEFINE Bad == {k \in Nat : ~ \E g : IsLevels(g, leaves, k)}
<1>1. SUFFICES ASSUME Bad # {} PROVE FALSE
  OBVIOUS
<1>2. PICK k \in Bad : \A j \in Bad : k <= j
  <2>1. Bad \in SUBSET Nat
    OBVIOUS
  <2> HIDE DEF Bad
  <2>2. QED
    BY <1>1, <2>1, LeastNatural
<1>3. CASE k = 0
  <2> DEFINE g == [n \in 0..0 |-> leaves]
  <2>1. g = [n \in 0..0 |-> IF n = 0 THEN leaves ELSE Above(g[n - 1])]
    OBVIOUS
  <2>2. IsLevels(g, leaves, 0)
    BY <2>1 DEF IsLevels
  <2>3. QED
    BY <1>2, <1>3, <2>2
<1>4. CASE k # 0
  <2>1. k - 1 \in Nat /\ k - 1 \notin Bad
    BY <1>2, <1>4
  <2>2. PICK f : IsLevels(f, leaves, k - 1)
    BY <2>1
  <2> DEFINE g == [n \in 0..k |-> IF n = k THEN Above(f[k - 1]) ELSE f[n]]
  <2>3. \A n \in 0..k - 1 : f[n] = IF n = 0 THEN leaves ELSE Above(f[n - 1])
    BY <2>2 DEF IsLevels
  <2>4. ASSUME NEW n \in 0..k
        PROVE  g[n] = IF n = 0 THEN leaves ELSE Above(g[n - 1])
    <3>1. CASE n = k
      BY <1>4, <3>1
    <3>2. CASE n # k
      <4>1. n \in 0..k - 1
        BY <3>2
      <4>2. g[n] = f[n] /\ (n # 0 => g[n - 1] = f[n - 1])
        BY <3>2
      <4>3. QED
        BY <2>3, <4>1, <4>2
    <3>3. QED
      BY <3>1, <3>2
  <2>5. g = [n \in 0..k |-> g[n]]
    OBVIOUS
  <2> HIDE DEF g
  <2>6. g = [n \in 0..k |-> IF n = 0 THEN leaves ELSE Above(g[n - 1])]
    BY <2>4, <2>5
  <2>7. IsLevels(g, leaves, k)
    BY <2>6 DEF IsLevels
  <2>8. QED
    BY <1>2, <2>7
<1>5. QED
  BY <1>3, <1>4

(* The levels unfolded once. *)
LEMMA LevelsAre ==
  ASSUME NEW leaves, Len(leaves) \in Nat
  PROVE  /\ Levels(leaves)[0] = leaves
         /\ \A n \in 1..Len(leaves) :
              Levels(leaves)[n] = Above(Levels(leaves)[n - 1])
<1>1. Levels(leaves) = CHOOSE g : IsLevels(g, leaves, Len(leaves))
  BY DEF Levels, IsLevels, Above
<1>2. IsLevels(Levels(leaves), leaves, Len(leaves))
  BY <1>1, LevelsExist
<1> DEFINE g == Levels(leaves)
<1>3. g = [n \in 0..Len(leaves) |-> IF n = 0 THEN leaves ELSE Above(g[n - 1])]
  BY <1>2 DEF IsLevels
<1> HIDE DEF g
<1>4. \A n \in 0..Len(leaves) : g[n] = IF n = 0 THEN leaves ELSE Above(g[n - 1])
  BY <1>3
<1>5. g[0] = leaves /\ \A n \in 1..Len(leaves) : g[n] = Above(g[n - 1])
  BY <1>4
<1>6. QED
  BY <1>5 DEF g

-----------------------------------------------------------------------------
(* A list, as a function on 1..n, and one without repetitions. *)
IsList(s) == Len(s) \in Nat /\ s = [i \in 1..Len(s) |-> s[i]]

Distinct(s) == \A i, j \in 1..Len(s) : s[i] = s[j] => i = j

(* A function on 1..n is a list of length n. *)
LEMMA ListOfLength ==
  ASSUME NEW n \in Nat, NEW f, f = [i \in 1..n |-> f[i]]
  PROVE  IsList(f) /\ Len(f) = n
<1> DEFINE X == {f[i] : i \in 1..n}
<1>1. f \in [1..n -> X]
  <2>1. \A i \in 1..n : f[i] \in X
    OBVIOUS
  <2> HIDE DEF X
  <2>2. QED
    BY <2>1
<1>2. f \in Seq(X)
  <2> HIDE DEF X
  <2>1. QED
    BY <1>1
<1>3. DOMAIN f = 1..n /\ DOMAIN f = 1..Len(f) /\ Len(f) \in Nat
  <2> HIDE DEF X
  <2>1. QED
    BY <1>1, <1>2
<1>4. Len(f) = n
  BY <1>3
<1>5. QED
  BY <1>4 DEF IsList

(* All of a list. *)
LEMMA WholeList ==
  ASSUME NEW list, IsList(list)
  PROVE  SubSeq(list, 1, Len(list)) = list /\ DOMAIN list = 1..Len(list)
<1> DEFINE n == Len(list)
           X == {list[i] : i \in 1..n}
<1>1. n \in Nat /\ list = [i \in 1..n |-> list[i]]
  BY DEF IsList
<1>2. \A i \in 1..n : list[i] \in X
  OBVIOUS
<1> HIDE DEF X, n
<1>3. list \in [1..n -> X]
  BY <1>1, <1>2
<1>4. list \in Seq(X) /\ DOMAIN list = 1..n
  BY <1>1, <1>3
<1>5. QED
  BY <1>1, <1>4 DEF n

(* The node above positions 2i-1 and 2i of a level. *)
Node(s, i) == hashMerklePair(s[2 * i - 1], s[IF 2 * i <= Len(s) THEN 2 * i
                                                               ELSE 2 * i - 1])

(* The next level is the list of the nodes. *)
LEMMA NextLevelIs ==
  ASSUME NEW s, IsList(s)
  PROVE  /\ IsList(NextLevel(s))
         /\ Len(NextLevel(s)) = (Len(s) + 1) \div 2
         /\ \A i \in 1..(Len(s) + 1) \div 2 : NextLevel(s)[i] = Node(s, i)
<1> DEFINE n == (Len(s) + 1) \div 2
<1>1. n \in Nat /\ DOMAIN s = 1..Len(s) /\ Len(s) \in Nat
  BY DEF IsList
<1>2. \A i \in 1..n : 2 * i \in DOMAIN s <=> 2 * i <= Len(s)
  BY <1>1
<1>3. NextLevel(s) = [i \in 1..n |-> Node(s, i)]
  BY <1>2 DEF NextLevel, Node
<1> HIDE DEF n
<1>4. NextLevel(s) = [i \in 1..n |-> NextLevel(s)[i]]
  BY <1>3
<1>5. IsList(NextLevel(s)) /\ Len(NextLevel(s)) = n
  BY <1>1, <1>4, ListOfLength
<1>6. QED
  BY <1>3, <1>5 DEF n

(* Pairs are equal when their parts are. *)
LEMMA PairParts ==
  ASSUME NEW a, NEW b, NEW c, NEW d, hashMerklePair(a, b) = hashMerklePair(c, d)
  PROVE  a = c /\ b = d
BY DEF hashMerklePair

(* Nodes of different positions differ. *)
LEMMA NextLevelDistinct ==
  ASSUME NEW s, IsList(s), Distinct(s)
  PROVE  Distinct(NextLevel(s))
<1>1. SUFFICES ASSUME NEW i \in 1..(Len(s) + 1) \div 2,
                      NEW j \in 1..(Len(s) + 1) \div 2,
                      Node(s, i) = Node(s, j)
               PROVE  i = j
  <2>1. /\ Len(NextLevel(s)) = (Len(s) + 1) \div 2
        /\ \A i \in 1..(Len(s) + 1) \div 2 : NextLevel(s)[i] = Node(s, i)
    BY NextLevelIs
  <2> QED
    BY <1>1, <2>1 DEF Distinct
<1>2. s[2 * i - 1] = s[2 * j - 1]
  BY <1>1, PairParts DEF Node
<1>3. Len(s) \in Nat /\ 2 * i - 1 \in 1..Len(s) /\ 2 * j - 1 \in 1..Len(s)
  BY DEF IsList
<1>4. 2 * i - 1 = 2 * j - 1
  BY <1>2, <1>3 DEF Distinct
<1>5. QED
  BY <1>4

(* Two distinct lists have distinct next levels: an odd last node, paired  *)
(* with itself, is no two different nodes paired.                          *)
LEMMA NextLevelOneToOne ==
  ASSUME NEW s, IsList(s), Distinct(s), NEW t, IsList(t), Distinct(t),
         NextLevel(s) = NextLevel(t)
  PROVE  s = t
<1> DEFINE n == (Len(s) + 1) \div 2
<1>1. Len(s) \in Nat /\ Len(t) \in Nat
  BY DEF IsList
<1>2. n = (Len(t) + 1) \div 2 /\ \A i \in 1..n : Node(s, i) = Node(t, i)
  BY NextLevelIs
<1>3. \A i \in 1..n : 
        /\ s[2 * i - 1] = t[2 * i - 1]
        /\ s[IF 2 * i <= Len(s) THEN 2 * i ELSE 2 * i - 1]
             = t[IF 2 * i <= Len(t) THEN 2 * i ELSE 2 * i - 1]
  BY <1>2, PairParts DEF Node
<1>4. Len(s) = Len(t)
  <2>1. SUFFICES ASSUME Len(s) # Len(t) PROVE FALSE
    OBVIOUS
  <2>2. \/ Len(s) = 2 * n /\ Len(t) = 2 * n - 1
        \/ Len(t) = 2 * n /\ Len(s) = 2 * n - 1
    BY <1>1, <1>2, <2>1
  <2>3. n \in 1..n /\ n \in Nat /\ n >= 1
    BY <1>1, <2>2
  <2> HIDE DEF n
  <2>4. CASE Len(s) = 2 * n /\ Len(t) = 2 * n - 1
    <3>1. s[2 * n] = t[2 * n - 1] /\ s[2 * n - 1] = t[2 * n - 1]
      BY <1>3, <2>3, <2>4
    <3>2. 2 * n \in 1..Len(s) /\ 2 * n - 1 \in 1..Len(s)
      BY <2>3, <2>4
    <3>3. 2 * n = 2 * n - 1
      BY <3>1, <3>2 DEF Distinct
    <3>4. QED
      BY <2>3, <3>3
  <2>5. CASE Len(t) = 2 * n /\ Len(s) = 2 * n - 1
    <3>1. t[2 * n] = s[2 * n - 1] /\ s[2 * n - 1] = t[2 * n - 1]
      BY <1>3, <2>3, <2>5
    <3>2. 2 * n \in 1..Len(t) /\ 2 * n - 1 \in 1..Len(t)
      BY <2>3, <2>5
    <3>3. 2 * n = 2 * n - 1
      BY <3>1, <3>2 DEF Distinct
    <3>4. QED
      BY <2>3, <3>3
  <2>6. QED
    BY <2>2, <2>4, <2>5
<1>5. ASSUME NEW j \in 1..Len(s) PROVE s[j] = t[j]
  <2>1. PICK i \in 1..n : j = 2 * i - 1 \/ j = 2 * i
    <3>1. (j + 1) \div 2 \in 1..n
      BY <1>1
    <3>2. j = 2 * ((j + 1) \div 2) - 1 \/ j = 2 * ((j + 1) \div 2)
      BY <1>1
    <3>3. QED
      BY <3>1, <3>2
  <2>2. CASE j = 2 * i - 1
    BY <1>3, <2>2
  <2>3. CASE j = 2 * i
    <3>1. 2 * i <= Len(s) /\ 2 * i <= Len(t)
      BY <1>1, <1>4, <2>3
    <3>2. QED
      BY <1>3, <2>3, <3>1
  <2>4. QED
    BY <2>1, <2>2, <2>3
<1>6. QED
  BY <1>4, <1>5 DEF IsList

-----------------------------------------------------------------------------
(* What every level of a tree over n distinct leaves is. *)
GoodLevel(s, k, n) ==
  /\ IsList(s)
  /\ Distinct(s)
  /\ Len(s) >= 1
  /\ Len(s) = 1 \/ Len(s) + k <= n

(* All levels are lists of distinct nodes that shrink to one node. *)
LEMMA LevelsGood ==
  ASSUME NEW leaves, IsList(leaves), Distinct(leaves), Len(leaves) >= 1
  PROVE  \A k \in 0..Len(leaves) :
           GoodLevel(Levels(leaves)[k], k, Len(leaves))
<1> DEFINE L == Levels(leaves)
           n == Len(leaves)
           Bad == {k \in 0..n : ~ GoodLevel(L[k], k, n)}
<1>0. n \in Nat
  BY DEF IsList
<1>1. SUFFICES ASSUME Bad # {} PROVE FALSE
  OBVIOUS
<1>2. PICK k \in Bad : \A j \in Bad : k <= j
  <2>1. Bad \in SUBSET Nat
    BY <1>0
  <2> HIDE DEF Bad
  <2>2. QED
    BY <1>1, <2>1, LeastNatural
<1>3. L[0] = leaves /\ \A i \in 1..n : L[i] = Above(L[i - 1])
  BY <1>0, LevelsAre
<1> HIDE DEF L, n
<1>4. GoodLevel(leaves, 0, n)
  BY DEF GoodLevel, IsList, n
<1>5. k # 0
  BY <1>3, <1>4
<1>6. k \in 1..n /\ k - 1 \in 0..n /\ k - 1 \notin Bad
  BY <1>0, <1>2, <1>5
<1> DEFINE s == L[k - 1]
<1>7. GoodLevel(s, k - 1, n) /\ L[k] = Above(s)
  BY <1>3, <1>6
<1> HIDE DEF s
<1>8. GoodLevel(L[k], k, n)
  <2>1. CASE Len(s) = 1
    BY <1>7, <2>1 DEF GoodLevel, Above
  <2>2. CASE Len(s) # 1
    <3>1. L[k] = NextLevel(s) /\ Len(s) \in Nat /\ Len(s) > 1 /\ Len(s) + k - 1 <= n
      BY <1>0, <1>6, <1>7, <2>2 DEF GoodLevel, Above, IsList
    <3>2. IsList(L[k]) /\ Distinct(L[k])
      BY <1>7, <3>1, NextLevelIs, NextLevelDistinct DEF GoodLevel
    <3>3. Len(L[k]) = (Len(s) + 1) \div 2
      BY <1>7, <3>1, NextLevelIs DEF GoodLevel
    <3>4. (Len(s) + 1) \div 2 >= 1 /\ (Len(s) + 1) \div 2 + k <= n
      BY <1>0, <1>6, <3>1
    <3>5. QED
      BY <3>2, <3>3, <3>4 DEF GoodLevel
  <2>3. QED
    BY <2>1, <2>2
<1>9. QED
  BY <1>2, <1>8

-----------------------------------------------------------------------------
(* The first level of one node. *)
IsHeight(h, leaves) ==
  /\ h \in 0..Len(leaves)
  /\ Len(Levels(leaves)[h]) = 1
  /\ \A k \in 0..h - 1 : Len(Levels(leaves)[k]) # 1

(* Some level has one node. *)
LEMMA HeightExists ==
  ASSUME NEW leaves, IsList(leaves), Distinct(leaves), Len(leaves) >= 1
  PROVE  \E h : IsHeight(h, leaves)
<1> DEFINE n == Len(leaves)
           T == {k \in 0..n : Len(Levels(leaves)[k]) = 1}
<1>1. n \in Nat /\ n >= 1
  BY DEF IsList
<1>2. n \in T
  <2>1. GoodLevel(Levels(leaves)[n], n, n)
    BY <1>1, LevelsGood
  <2>2. QED
    BY <1>1, <2>1 DEF GoodLevel, IsList
<1>3. PICK h \in T : \A k \in T : h <= k
  <2>1. T \in SUBSET Nat /\ T # {}
    BY <1>1, <1>2
  <2> HIDE DEF T
  <2>2. QED
    BY <2>1, LeastNatural
<1>4. ASSUME NEW k \in 0..h - 1 PROVE Len(Levels(leaves)[k]) # 1
  BY <1>1, <1>3
<1>5. IsHeight(h, leaves)
  BY <1>3, <1>4 DEF IsHeight
<1>6. QED
  BY <1>5

(* Below the height every level is the next one of the level under it; at  *)
(* and above it nothing changes; so the root is the node at the height.    *)
LEMMA LevelsToHeight ==
  ASSUME NEW leaves, IsList(leaves), Distinct(leaves), Len(leaves) >= 1,
         NEW h, IsHeight(h, leaves)
  PROVE  /\ \A k \in 1..h : Levels(leaves)[k] = NextLevel(Levels(leaves)[k - 1])
         /\ \A k \in h..Len(leaves) : Levels(leaves)[k] = Levels(leaves)[h]
         /\ merkleRoot(leaves) = Levels(leaves)[h][1]
<1> DEFINE n == Len(leaves)
           L == Levels(leaves)
           Bad == {k \in h..n : L[k] # L[h]}
<1>1. n \in Nat /\ n >= 1 /\ h \in 0..n
  BY DEF IsList, IsHeight
<1>2. \A i \in 1..n : L[i] = Above(L[i - 1])
  BY <1>1, LevelsAre
<1>3. ASSUME NEW k \in 1..h PROVE L[k] = NextLevel(L[k - 1])
  <2>1. Len(L[k - 1]) # 1
    BY <1>1 DEF IsHeight
  <2>2. QED
    BY <1>1, <1>2, <2>1 DEF Above
<1>4. Bad = {}
  <2>1. SUFFICES ASSUME Bad # {} PROVE FALSE
    OBVIOUS
  <2>2. PICK k \in Bad : \A j \in Bad : k <= j
    <3>1. Bad \in SUBSET Nat
      BY <1>1
    <3> HIDE DEF Bad
    <3>2. QED
      BY <2>1, <3>1, LeastNatural
  <2>3. k # h
    OBVIOUS
  <2>4. k \in 1..n /\ k - 1 \in h..n
    BY <1>1, <2>3
  <2>5. L[k - 1] = L[h]
    BY <1>1, <2>2, <2>4
  <2>6. L[k] = L[h]
    BY <1>2, <2>4, <2>5 DEF IsHeight, Above
  <2>7. QED
    BY <2>6
<1>5. \A k \in h..n : L[k] = L[h]
  BY <1>4
<1>6. merkleRoot(leaves) = L[h][1]
  <2>1. leaves # << >>
    BY <1>1
  <2>2. n \in h..n
    BY <1>1
  <2>3. QED
    BY <1>5, <2>1, <2>2 DEF merkleRoot
<1>7. QED
  BY <1>3, <1>5, <1>6

(* What is hashed into a tree: no node of one, nor the empty root. *)
IsLeaf(x) == x # zeroHash /\ \A l, r : x # hashMerklePair(l, r)

AreLeaves(leaves) ==
  /\ IsList(leaves)
  /\ Distinct(leaves)
  /\ \A i \in 1..Len(leaves) : IsLeaf(leaves[i])

(* Two trees of one root, the first one not the higher one. *)
LEMMA SameLevels ==
  ASSUME NEW a, AreLeaves(a), Len(a) >= 1, NEW h, IsHeight(h, a),
         NEW b, AreLeaves(b), Len(b) >= 1, NEW g, IsHeight(g, b),
         merkleRoot(a) = merkleRoot(b), h <= g
  PROVE  a = b
<1> DEFINE A == Levels(a)
           B == Levels(b)
           Bad == {d \in 0..h : A[h - d] # B[g - d]}
<1>1. /\ Len(a) \in Nat /\ h \in Nat /\ h <= Len(a)
      /\ Len(b) \in Nat /\ g \in Nat /\ g <= Len(b)
      /\ IsList(a) /\ Distinct(a) /\ IsList(b) /\ Distinct(b)
  BY DEF IsList, IsHeight, AreLeaves
<1>2. /\ \A k \in 1..h : A[k] = NextLevel(A[k - 1])
      /\ \A k \in 1..g : B[k] = NextLevel(B[k - 1])
      /\ A[h][1] = B[g][1]
  BY <1>1, LevelsToHeight
<1>3. /\ \A k \in 0..h : IsList(A[k]) /\ Distinct(A[k])
      /\ \A k \in 0..g : IsList(B[k]) /\ Distinct(B[k])
  <2>1. \A k \in 0..Len(a) : GoodLevel(A[k], k, Len(a))
    BY <1>1, LevelsGood
  <2>2. \A k \in 0..Len(b) : GoodLevel(B[k], k, Len(b))
    BY <1>1, LevelsGood
  <2>3. QED
    BY <1>1, <2>1, <2>2 DEF GoodLevel
<1>4. A[h] = B[g]
  <2>1. Len(A[h]) = 1 /\ Len(B[g]) = 1 /\ IsList(A[h]) /\ IsList(B[g])
    BY <1>1, <1>3 DEF IsHeight
  <2> HIDE DEF A, B
  <2>2. /\ A[h] = [i \in 1..1 |-> A[h][i]]
        /\ B[g] = [i \in 1..1 |-> B[g][i]]
    BY <2>1 DEF IsList
  <2>3. \A i \in 1..1 : A[h][i] = B[g][i]
    BY <1>2
  <2>4. QED
    BY <2>2, <2>3
<1>5. Bad = {}
  <2>1. SUFFICES ASSUME Bad # {} PROVE FALSE
    OBVIOUS
  <2>2. PICK d \in Bad : \A j \in Bad : d <= j
    <3>1. Bad \in SUBSET Nat
      BY <1>1
    <3> HIDE DEF Bad
    <3>2. QED
      BY <2>1, <3>1, LeastNatural
  <2>3. d # 0
    BY <1>1, <1>4
  <2>4. d - 1 \in 0..h /\ A[h - (d - 1)] = B[g - (d - 1)]
    <3>1. d \in 0..h
      BY <2>2
    <3>2. d - 1 \in 0..h /\ ~ (d <= d - 1)
      BY <1>1, <2>3, <3>1
    <3>3. d - 1 \notin Bad
      BY <2>2, <3>2
    <3>4. QED
      BY <3>2, <3>3
  <2> DEFINE p == h - d
             q == g - d
  <2>5. /\ p + 1 \in 1..h /\ q + 1 \in 1..g /\ p \in 0..h /\ q \in 0..g
        /\ h - (d - 1) = p + 1 /\ g - (d - 1) = q + 1
        /\ (p + 1) - 1 = p /\ (q + 1) - 1 = q
    BY <1>1, <2>3
  <2>6. A[p + 1] = B[q + 1]
    BY <2>4, <2>5
  <2> HIDE DEF p, q, A, B
  <2>7. NextLevel(A[p]) = NextLevel(B[q])
    BY <1>2, <2>5, <2>6
  <2>8. A[p] = B[q]
    BY <1>3, <2>5, <2>7, NextLevelOneToOne
  <2>9. QED
    BY <2>2, <2>8 DEF p, q
<1>6. a = B[g - h]
  <2>1. h \in 0..h /\ h - h = 0
    BY <1>1
  <2>2. A[0] = B[g - h]
    BY <1>5, <2>1
  <2>3. QED
    BY <1>1, <2>2, LevelsAre
<1>7. CASE g = h
  <2>1. B[0] = b
    BY <1>1, LevelsAre
  <2>2. g - h = 0
    BY <1>1, <1>7
  <2>3. QED
    BY <1>6, <2>1, <2>2
<1>8. CASE g # h
  <2>1. g - h \in 1..g /\ g - h - 1 \in 0..g
    BY <1>1, <1>8
  <2>2. a = NextLevel(B[g - h - 1])
    BY <1>2, <1>6, <2>1
  <2>3. a[1] = Node(B[g - h - 1], 1)
    <3> HIDE DEF B
    <3>1. IsList(B[g - h - 1])
      BY <1>3, <2>1
    <3>2. 1 \in 1..Len(a)
      BY <1>1
    <3>3. QED
      BY <2>2, <3>1, <3>2, NextLevelIs
  <2>4. IsLeaf(a[1])
    <3>1. 1 \in 1..Len(a)
      BY <1>1
    <3>2. QED
      BY <3>1 DEF AreLeaves
  <2>5. \E l, r : a[1] = hashMerklePair(l, r)
    BY <2>3 DEF Node
  <2>6. QED
    BY <2>4, <2>5 DEF IsLeaf
<1>9. QED
  BY <1>7, <1>8

(* The root is no hash of nothing. *)
LEMMA RootNotZero ==
  ASSUME NEW leaves, AreLeaves(leaves), Len(leaves) >= 1
  PROVE  merkleRoot(leaves) # zeroHash
<1>1. Len(leaves) \in Nat /\ IsList(leaves) /\ Distinct(leaves)
  BY DEF AreLeaves, IsList
<1>2. PICK h : IsHeight(h, leaves)
  BY <1>1, HeightExists
<1> DEFINE L == Levels(leaves)
<1>3. /\ merkleRoot(leaves) = L[h][1]
      /\ \A k \in 1..h : L[k] = NextLevel(L[k - 1])
  BY <1>1, <1>2, LevelsToHeight
<1>4. CASE h = 0
  <2>1. L[0] = leaves
    BY <1>1, LevelsAre
  <2>2. QED
    BY <1>1, <1>3, <1>4, <2>1 DEF AreLeaves, IsLeaf
<1>5. CASE h # 0
  <2>1. h \in 1..h /\ h \in 1..Len(leaves) /\ h - 1 \in 0..Len(leaves)
    BY <1>1, <1>2, <1>5 DEF IsHeight
  <2>2. L[h] = NextLevel(L[h - 1]) /\ IsList(L[h - 1]) /\ Len(L[h]) = 1
    BY <1>1, <1>2, <1>3, <2>1, LevelsGood DEF GoodLevel, IsHeight
  <2> HIDE DEF L
  <2>3. L[h][1] = Node(L[h - 1], 1)
    BY <2>2, NextLevelIs
  <2>4. QED
    BY <1>3, <2>3 DEF Node, hashMerklePair, zeroHash
<1>6. QED
  BY <1>4, <1>5

(* A Merkle root names the whole list of its leaves. *)
LEMMA RootOneToOne ==
  ASSUME NEW a, AreLeaves(a), NEW b, AreLeaves(b), merkleRoot(a) = merkleRoot(b)
  PROVE  a = b
<1>1. /\ Len(a) \in Nat /\ IsList(a) /\ Distinct(a)
      /\ Len(b) \in Nat /\ IsList(b) /\ Distinct(b)
  BY DEF AreLeaves, IsList
<1>2. \A s : IsList(s) /\ Len(s) = 0 => s = << >>
  BY DEF IsList
<1>3. merkleRoot(<< >>) = zeroHash
  BY DEF merkleRoot
<1>4. CASE Len(a) = 0
  <2>1. merkleRoot(b) = zeroHash
    BY <1>1, <1>2, <1>3, <1>4
  <2>2. Len(b) = 0
    BY <1>1, <2>1, RootNotZero
  <2>3. QED
    BY <1>1, <1>2, <1>4, <2>2
<1>5. CASE Len(b) = 0
  <2>1. merkleRoot(a) = zeroHash
    BY <1>1, <1>2, <1>3, <1>5
  <2>2. Len(a) = 0
    BY <1>1, <2>1, RootNotZero
  <2>3. QED
    BY <1>1, <1>2, <1>5, <2>2
<1>6. CASE Len(a) # 0 /\ Len(b) # 0
  <2>1. Len(a) >= 1 /\ Len(b) >= 1
    BY <1>1, <1>6
  <2>2. PICK h : IsHeight(h, a)
    BY <1>1, <2>1, HeightExists
  <2>3. PICK g : IsHeight(g, b)
    BY <1>1, <2>1, HeightExists
  <2>4. h <= g \/ g <= h
    BY <1>1, <2>2, <2>3 DEF IsHeight
  <2>5. CASE h <= g
    BY <2>1, <2>2, <2>3, <2>5, SameLevels
  <2>6. CASE g <= h
    <3>1. b = a
      BY <2>1, <2>2, <2>3, <2>6, SameLevels
    <3>2. QED
      BY <3>1
  <2>7. QED
    BY <2>4, <2>5, <2>6
<1>7. QED
  BY <1>4, <1>5, <1>6

-----------------------------------------------------------------------------
(* The numbers of a set below one of its members. *)
Rank(S, x) == Cardinality({m \in S : m < x})

(* Ranks are the numbers below the size of the set, each one once. *)
LEMMA Ranks ==
  ASSUME NEW S \in SUBSET Nat, IsFiniteSet(S)
  PROVE  /\ \A x \in S : Rank(S, x) \in 0..Cardinality(S) - 1
         /\ \A x, y \in S : Rank(S, x) = Rank(S, y) => x = y
         /\ \A i \in 0..Cardinality(S) - 1 : \E x \in S : Rank(S, x) = i
<1> DEFINE Below(x) == {m \in S : m < x}
           n == Cardinality(S)
<1>1. n \in Nat
  BY FS_CardinalityType
<1>2. ASSUME NEW x \in S, NEW y \in S, x < y PROVE Rank(S, x) < Rank(S, y)
  <2>1. IsFiniteSet(Below(y)) /\ Below(x) \in SUBSET Below(y) /\ x \in Below(y)
    <3>1. IsFiniteSet(Below(y))
      BY FS_Subset
    <3>2. x \in Nat /\ y \in Nat /\ \A m \in S : m \in Nat
      OBVIOUS
    <3>3. \A m \in S : m < x => m < y
      BY <1>2, <3>2
    <3>4. Below(x) \in SUBSET Below(y) /\ x \in Below(y)
      BY <1>2, <3>3
    <3>5. QED
      BY <3>1, <3>4
  <2>2. IsFiniteSet(Below(x)) /\ x \notin Below(x)
    BY <2>1, FS_Subset
  <2>3. /\ Cardinality(Below(x)) <= Cardinality(Below(y))
        /\ Cardinality(Below(y)) = Cardinality(Below(x)) => Below(y) = Below(x)
    <3> HIDE DEF Below
    <3>1. QED
      BY <2>1, FS_Subset
  <2>4. Below(y) # Below(x)
    <3> HIDE DEF Below
    <3>1. QED
      BY <2>1, <2>2
  <2>5. Cardinality(Below(x)) \in Nat /\ Cardinality(Below(y)) \in Nat
    <3> HIDE DEF Below
    <3>1. QED
      BY <2>1, <2>2, FS_CardinalityType
  <2>6. QED
    BY <2>3, <2>4, <2>5 DEF Rank
<1>3. ASSUME NEW x \in S PROVE Rank(S, x) \in 0..n - 1
  <2>1. Below(x) \in SUBSET S /\ x \notin Below(x)
    OBVIOUS
  <2>2. IsFiniteSet(Below(x)) /\ Cardinality(Below(x)) <= n
        /\ (n = Cardinality(Below(x)) => S = Below(x))
    <3> HIDE DEF Below
    <3>1. QED
      BY <2>1, FS_Subset
  <2>3. Cardinality(Below(x)) # n /\ Cardinality(Below(x)) \in Nat
    <3> HIDE DEF Below
    <3>1. QED
      BY <2>1, <2>2, FS_CardinalityType
  <2>4. QED
    BY <1>1, <2>2, <2>3 DEF Rank
<1>4. ASSUME NEW x \in S, NEW y \in S, Rank(S, x) = Rank(S, y) PROVE x = y
  <2>1. x \in Nat /\ y \in Nat /\ Rank(S, x) \in Int /\ Rank(S, y) \in Int
    BY <1>1, <1>3
  <2>2. ~ (x < y) /\ ~ (y < x)
    BY <1>2, <1>4, <2>1
  <2>3. QED
    BY <2>1, <2>2
<1>5. ASSUME NEW i \in 0..n - 1 PROVE \E x \in S : Rank(S, x) = i
  <2> DEFINE f == [x \in S |-> Rank(S, x)]
  <2>1. f \in Injection(S, 0..n - 1)
    BY <1>3, <1>4 DEF Injection, IsInjective
  <2>2. IsFiniteSet(0..n - 1) /\ Cardinality(0..n - 1) = n
    <3>1. 0 \in Int /\ n - 1 \in Int /\ (0 > n - 1 <=> n = 0) /\ (n - 1) - 0 + 1 = n
      BY <1>1
    <3>2. QED
      BY <1>1, <3>1, FS_Interval
  <2>3. f \in Surjection(S, 0..n - 1)
    <3> HIDE DEF f, n
    <3>1. QED
      BY <2>1, <2>2, FS_Injection DEF n
  <2>4. QED
    BY <2>3 DEF Surjection
<1>6. QED
  BY <1>3, <1>4, <1>5

(* Sorting a finite set of numbers lists each of them once. *)
LEMMA SortedIs ==
  ASSUME NEW S \in SUBSET Nat, IsFiniteSet(S)
  PROVE  /\ Cardinality(S) \in Nat
         /\ \A i \in 1..Cardinality(S) :
              Sorted(S)[i] \in S /\ Rank(S, Sorted(S)[i]) = i - 1
         /\ \A x \in S : \E i \in 1..Cardinality(S) : Sorted(S)[i] = x
<1> DEFINE n == Cardinality(S)
<1>1. n \in Nat
  BY FS_CardinalityType
<1>2. ASSUME NEW i \in 1..n
      PROVE  Sorted(S)[i] \in S /\ Rank(S, Sorted(S)[i]) = i - 1
  <2>1. i - 1 \in 0..n - 1
    BY <1>1
  <2>2. \E x \in S : Rank(S, x) = i - 1
    BY <2>1, Ranks
  <2>3. Sorted(S)[i] = CHOOSE x \in S : Rank(S, x) = i - 1
    BY DEF Sorted, Rank
  <2>4. QED
    BY <2>2, <2>3
<1>3. ASSUME NEW x \in S PROVE \E i \in 1..n : Sorted(S)[i] = x
  <2>1. Rank(S, x) \in 0..n - 1
    BY Ranks
  <2> DEFINE i == Rank(S, x) + 1
  <2>2. i \in 1..n /\ i - 1 = Rank(S, x)
    BY <1>1, <2>1
  <2> HIDE DEF i
  <2>3. Sorted(S)[i] \in S /\ Rank(S, Sorted(S)[i]) = Rank(S, x)
    BY <1>2, <2>2
  <2>4. \A y \in S : Rank(S, y) = Rank(S, x) => y = x
    BY Ranks
  <2>5. Sorted(S)[i] = x
    BY <2>3, <2>4
  <2>6. QED
    BY <2>2, <2>5
<1>4. QED
  BY <1>1, <1>2, <1>3

(* The list of leaves of a nullifier set. *)
NullifierLeaves(S) ==
  [i \in 1..Cardinality(S) |-> NullifierLeaf(Sorted(S)[i])]

(* They are distinct leaves, as many as nullifiers. *)
LEMMA NullifierLeavesAre ==
  ASSUME NEW S \in SUBSET Nat, IsFiniteSet(S)
  PROVE  AreLeaves(NullifierLeaves(S)) /\ Len(NullifierLeaves(S)) = Cardinality(S)
<1> DEFINE n == Cardinality(S)
           list == NullifierLeaves(S)
<1>1. /\ n \in Nat
      /\ \A i \in 1..n : Sorted(S)[i] \in S /\ Rank(S, Sorted(S)[i]) = i - 1
  BY SortedIs
<1>2. IsList(list) /\ Len(list) = n
  <2>1. list = [i \in 1..n |-> list[i]]
    BY DEF NullifierLeaves
  <2> HIDE DEF list, n
  <2>2. QED
    BY <1>1, <2>1, ListOfLength
<1>3. \A i \in 1..n : list[i] = NullifierLeaf(Sorted(S)[i])
  BY DEF NullifierLeaves
<1> HIDE DEF list, n
<1>4. Distinct(list)
  <2>1. SUFFICES ASSUME NEW i \in 1..n, NEW j \in 1..n, list[i] = list[j]
                 PROVE  i = j
    BY <1>2 DEF Distinct
  <2>2. Sorted(S)[i] = Sorted(S)[j]
    BY <1>3, <2>1 DEF NullifierLeaf
  <2>3. i - 1 = j - 1
    BY <1>1, <2>2
  <2>4. QED
    BY <1>1, <2>3
<1>5. \A i \in 1..n : IsLeaf(list[i])
  BY <1>3 DEF IsLeaf, NullifierLeaf, zeroHash, hashMerklePair
<1>6. QED
  BY <1>2, <1>4, <1>5 DEF AreLeaves, list, n

(* A nullifier root names the set of nullifiers. *)
LEMMA NullifierRootOneToOne ==
  ASSUME NEW S \in SUBSET Nat, IsFiniteSet(S), NEW T \in SUBSET Nat, IsFiniteSet(T),
         nullifierSetRoot(S) = nullifierSetRoot(T)
  PROVE  S = T
<1>1. NullifierLeaves(S) = NullifierLeaves(T)
  <2>1. merkleRoot(NullifierLeaves(S)) = merkleRoot(NullifierLeaves(T))
    BY DEF nullifierSetRoot, NullifierLeaves
  <2>2. QED
    BY <2>1, RootOneToOne, NullifierLeavesAre
<1>2. Cardinality(S) = Cardinality(T)
  BY <1>1, NullifierLeavesAre
<1>3. \A i \in 1..Cardinality(S) : Sorted(S)[i] = Sorted(T)[i]
  <2>1. ASSUME NEW i \in 1..Cardinality(S) PROVE Sorted(S)[i] = Sorted(T)[i]
    <3>1. NullifierLeaves(S)[i] = NullifierLeaf(Sorted(S)[i])
      BY DEF NullifierLeaves
    <3>2. NullifierLeaves(T)[i] = NullifierLeaf(Sorted(T)[i])
      BY <1>2 DEF NullifierLeaves
    <3>3. QED
      BY <1>1, <3>1, <3>2 DEF NullifierLeaf
  <2>2. QED
    BY <2>1
<1>4. \A x \in S : x \in T
  BY <1>2, <1>3, SortedIs
<1>5. \A x \in T : x \in S
  BY <1>2, <1>3, SortedIs
<1>6. QED
  BY <1>4, <1>5

(* No nullifiers have the root the log starts from. *)
LEMMA EmptyNullifierRoot == nullifierSetRoot({}) = zeroHash
<1>1. [i \in 1..0 |-> NullifierLeaf(Sorted({})[i])] = << >>
  OBVIOUS
<1>2. Cardinality({}) = 0
  BY FS_EmptySet
<1>3. QED
  BY <1>1, <1>2 DEF nullifierSetRoot, merkleRoot

-----------------------------------------------------------------------------
(* The halved positions a proof climbs through. *)
IsHalves(g, x, m) ==
  g = [k \in 0..m |-> IF k = 0 THEN x ELSE g[k - 1] \div 2]

(* The recursive function of positions exists. *)
LEMMA HalvesExist ==
  ASSUME NEW x, NEW m \in Nat
  PROVE  \E g : IsHalves(g, x, m)
<1> DEFINE Bad == {k \in Nat : ~ \E g : IsHalves(g, x, k)}
<1>1. SUFFICES ASSUME Bad # {} PROVE FALSE
  OBVIOUS
<1>2. PICK k \in Bad : \A j \in Bad : k <= j
  <2>1. Bad \in SUBSET Nat
    OBVIOUS
  <2> HIDE DEF Bad
  <2>2. QED
    BY <1>1, <2>1, LeastNatural
<1>3. CASE k = 0
  <2> DEFINE g == [n \in 0..0 |-> x]
  <2>1. g = [n \in 0..0 |-> IF n = 0 THEN x ELSE g[n - 1] \div 2]
    OBVIOUS
  <2>2. IsHalves(g, x, 0)
    BY <2>1 DEF IsHalves
  <2>3. QED
    BY <1>2, <1>3, <2>2
<1>4. CASE k # 0
  <2>1. k - 1 \in Nat /\ k - 1 \notin Bad
    BY <1>2, <1>4
  <2>2. PICK f : IsHalves(f, x, k - 1)
    BY <2>1
  <2> DEFINE g == [n \in 0..k |-> IF n = k THEN f[k - 1] \div 2 ELSE f[n]]
  <2>3. \A n \in 0..k - 1 : f[n] = IF n = 0 THEN x ELSE f[n - 1] \div 2
    BY <2>2 DEF IsHalves
  <2>4. ASSUME NEW n \in 0..k
        PROVE  g[n] = IF n = 0 THEN x ELSE g[n - 1] \div 2
    <3>1. CASE n = k
      BY <1>4, <3>1
    <3>2. CASE n # k
      <4>1. n \in 0..k - 1
        BY <3>2
      <4>2. g[n] = f[n] /\ (n # 0 => g[n - 1] = f[n - 1])
        BY <3>2
      <4>3. QED
        BY <2>3, <4>1, <4>2
    <3>3. QED
      BY <3>1, <3>2
  <2>5. g = [n \in 0..k |-> g[n]]
    OBVIOUS
  <2> HIDE DEF g
  <2>6. g = [n \in 0..k |-> IF n = 0 THEN x ELSE g[n - 1] \div 2]
    BY <2>4, <2>5
  <2>7. IsHalves(g, x, k)
    BY <2>6 DEF IsHalves
  <2>8. QED
    BY <1>2, <2>7
<1>5. QED
  BY <1>3, <1>4

Halves(x, m) == CHOOSE g : IsHalves(g, x, m)

(* Positions are halved from level to level. *)
LEMMA HalvesAre ==
  ASSUME NEW x, NEW m \in Nat
  PROVE  /\ Halves(x, m)[0] = x
         /\ \A k \in 1..m : Halves(x, m)[k] = Halves(x, m)[k - 1] \div 2
<1> DEFINE g == Halves(x, m)
<1>1. g = [k \in 0..m |-> IF k = 0 THEN x ELSE g[k - 1] \div 2]
  BY HalvesExist DEF Halves, IsHalves
<1> HIDE DEF g
<1>2. \A k \in 0..m : g[k] = IF k = 0 THEN x ELSE g[k - 1] \div 2
  BY <1>1
<1>3. g[0] = x /\ \A k \in 1..m : g[k] = g[k - 1] \div 2
  BY <1>2
<1>4. QED
  BY <1>3 DEF g

(* The hashes a proof leads through. *)
Climb(step, node) ==
  IF step.direction = "left" THEN hashMerklePair(step.sibling, node)
                             ELSE hashMerklePair(node, step.sibling)

IsCursor(g, x, proof, m) ==
  g = [k \in 0..m |-> IF k = 0 THEN x ELSE Climb(proof[k], g[k - 1])]

(* The recursive function of hashes exists. *)
LEMMA CursorExists ==
  ASSUME NEW x, NEW proof, NEW m \in Nat
  PROVE  \E g : IsCursor(g, x, proof, m)
<1> DEFINE Bad == {k \in Nat : ~ \E g : IsCursor(g, x, proof, k)}
<1>1. SUFFICES ASSUME Bad # {} PROVE FALSE
  OBVIOUS
<1>2. PICK k \in Bad : \A j \in Bad : k <= j
  <2>1. Bad \in SUBSET Nat
    OBVIOUS
  <2> HIDE DEF Bad
  <2>2. QED
    BY <1>1, <2>1, LeastNatural
<1>3. CASE k = 0
  <2> DEFINE g == [n \in 0..0 |-> x]
  <2>1. g = [n \in 0..0 |-> IF n = 0 THEN x ELSE Climb(proof[n], g[n - 1])]
    OBVIOUS
  <2>2. IsCursor(g, x, proof, 0)
    BY <2>1 DEF IsCursor
  <2>3. QED
    BY <1>2, <1>3, <2>2
<1>4. CASE k # 0
  <2>1. k - 1 \in Nat /\ k - 1 \notin Bad
    BY <1>2, <1>4
  <2>2. PICK f : IsCursor(f, x, proof, k - 1)
    BY <2>1
  <2> DEFINE g == [n \in 0..k |-> IF n = k THEN Climb(proof[k], f[k - 1]) ELSE f[n]]
  <2>3. \A n \in 0..k - 1 : f[n] = IF n = 0 THEN x ELSE Climb(proof[n], f[n - 1])
    BY <2>2 DEF IsCursor
  <2>4. ASSUME NEW n \in 0..k
        PROVE  g[n] = IF n = 0 THEN x ELSE Climb(proof[n], g[n - 1])
    <3>1. CASE n = k
      BY <1>4, <3>1
    <3>2. CASE n # k
      <4>1. n \in 0..k - 1
        BY <3>2
      <4>2. g[n] = f[n] /\ (n # 0 => g[n - 1] = f[n - 1])
        BY <3>2
      <4>3. QED
        BY <2>3, <4>1, <4>2
    <3>3. QED
      BY <3>1, <3>2
  <2>5. g = [n \in 0..k |-> g[n]]
    OBVIOUS
  <2> HIDE DEF g
  <2>6. g = [n \in 0..k |-> IF n = 0 THEN x ELSE Climb(proof[n], g[n - 1])]
    BY <2>4, <2>5
  <2>7. IsCursor(g, x, proof, k)
    BY <2>6 DEF IsCursor
  <2>8. QED
    BY <1>2, <2>7
<1>5. QED
  BY <1>3, <1>4

(* The hash a proof leads to, step by step. *)
LEMMA ProofRootIs ==
  ASSUME NEW x, NEW proof, Len(proof) \in Nat
  PROVE  \E g : /\ g[0] = x
                /\ \A k \in 1..Len(proof) : g[k] = Climb(proof[k], g[k - 1])
                /\ ProofRoot(x, proof) = g[Len(proof)]
<1> DEFINE m == Len(proof)
           g == CHOOSE f : IsCursor(f, x, proof, m)
<1>1. ProofRoot(x, proof) = g[m]
  BY DEF ProofRoot, IsCursor, Climb
<1>2. IsCursor(g, x, proof, m)
  BY CursorExists
<1> HIDE DEF g, m
<1>3. g = [k \in 0..m |-> IF k = 0 THEN x ELSE Climb(proof[k], g[k - 1])]
  BY <1>2 DEF IsCursor
<1>4. m \in Nat
  BY DEF m
<1>5. \A k \in 0..m : g[k] = IF k = 0 THEN x ELSE Climb(proof[k], g[k - 1])
  BY <1>3
<1>6. g[0] = x /\ \A k \in 1..m : g[k] = Climb(proof[k], g[k - 1])
  BY <1>4, <1>5
<1>7. QED
  BY <1>1, <1>6 DEF m

(* One step of a proof: from a node of a level to the one above it. *)
StepAt(s, i) ==
  [sibling   |-> s[IF (IF i % 2 = 0 THEN i + 1 ELSE i - 1) < Len(s)
                     THEN (IF i % 2 = 0 THEN i + 1 ELSE i - 1) + 1
                     ELSE i + 1],
   direction |-> IF i % 2 = 0 THEN "right" ELSE "left"]

(* The step from a position of a level leads to the node above it. *)
LEMMA ClimbsToNode ==
  ASSUME NEW s, IsList(s), NEW i \in 0..Len(s) - 1
  PROVE  /\ Climb(StepAt(s, i), s[i + 1]) = Node(s, i \div 2 + 1)
         /\ i \div 2 \in 0..(Len(s) + 1) \div 2 - 1
<1>1. Len(s) \in Nat
  BY DEF IsList
<1>2. i \div 2 \in 0..(Len(s) + 1) \div 2 - 1
  BY <1>1
<1>3. CASE i % 2 = 0
  <2>1. 2 * (i \div 2 + 1) = i + 2 /\ 2 * (i \div 2 + 1) - 1 = i + 1
    BY <1>1, <1>3
  <2>2. i + 1 < Len(s) <=> i + 2 <= Len(s)
    BY <1>1
  <2>3. Climb(StepAt(s, i), s[i + 1])
          = hashMerklePair(s[i + 1], s[IF i + 1 < Len(s) THEN (i + 1) + 1 ELSE i + 1])
    BY <1>3 DEF Climb, StepAt
  <2>4. (i + 1) + 1 = i + 2
    BY <1>1
  <2>5. Node(s, i \div 2 + 1)
          = hashMerklePair(s[i + 1], s[IF i + 2 <= Len(s) THEN i + 2 ELSE i + 1])
    BY <2>1 DEF Node
  <2>6. QED
    BY <1>2, <2>2, <2>3, <2>4, <2>5
<1>4. CASE i % 2 # 0
  <2>1. 2 * (i \div 2 + 1) = i + 1 /\ 2 * (i \div 2 + 1) - 1 = i
    BY <1>1, <1>4
  <2>2. i - 1 < Len(s) /\ i + 1 <= Len(s) /\ (i - 1) + 1 = i
    BY <1>1
  <2>3. Climb(StepAt(s, i), s[i + 1]) = hashMerklePair(s[i], s[i + 1])
    BY <1>4, <2>2 DEF Climb, StepAt
  <2>4. Node(s, i \div 2 + 1) = hashMerklePair(s[i], s[i + 1])
    BY <2>1, <2>2 DEF Node
  <2>5. QED
    BY <1>2, <2>3, <2>4
<1>5. QED
  BY <1>3, <1>4

(* The proof of a position, step by step. *)
LEMMA MerkleProofIs ==
  ASSUME NEW leaves, IsList(leaves), Distinct(leaves), Len(leaves) >= 1,
         NEW x \in Nat
  PROVE  \E h : /\ IsHeight(h, leaves)
                /\ Len(merkleProof(leaves, x)) = h
                /\ \A k \in 1..h :
                     merkleProof(leaves, x)[k]
                       = StepAt(Levels(leaves)[k - 1], Halves(x, Len(leaves))[k - 1])
<1> DEFINE n == Len(leaves)
           L == Levels(leaves)
           index == Halves(x, n)
           h == CHOOSE j \in 0..n : Len(L[j]) = 1 /\ \A k \in 0..j - 1 : Len(L[k]) > 1
           path == merkleProof(leaves, x)
<1>1. n \in Nat
  BY DEF IsList
<1>2. IsHeight(h, leaves)
  <2>1. PICK j : IsHeight(j, leaves)
    BY HeightExists
  <2>2. \A k \in 0..n : Len(L[k]) >= 1 /\ Len(L[k]) \in Nat
    BY LevelsGood DEF GoodLevel, IsList
  <2>3. /\ j \in 0..n /\ Len(L[j]) = 1
        /\ \A k \in 0..j - 1 : Len(L[k]) > 1
    <3>1. j \in 0..n /\ Len(L[j]) = 1 /\ \A k \in 0..j - 1 : Len(L[k]) # 1
      BY <2>1 DEF IsHeight
    <3>2. \A k \in 0..j - 1 : k \in 0..n
      BY <1>1, <3>1
    <3>3. ASSUME NEW k \in 0..j - 1 PROVE Len(L[k]) > 1
      <4> DEFINE m == Len(L[k])
      <4>1. m >= 1 /\ m \in Nat /\ m # 1
        BY <2>2, <3>1, <3>2
      <4> HIDE DEF m
      <4>2. m > 1
        BY <4>1
      <4> QED
        BY <4>2 DEF m
    <3>4. QED
      BY <3>1, <3>3
  <2>4. h \in 0..n /\ Len(L[h]) = 1 /\ \A k \in 0..h - 1 : Len(L[k]) > 1
    <3> HIDE DEF L, n
    <3>1. QED
      BY <2>3
  <2> HIDE DEF h
  <2>5. \A k \in 0..h - 1 : Len(L[k]) # 1
    <3>1. \A k \in 0..h - 1 : k \in 0..n
      BY <1>1, <2>4
    <3>2. ASSUME NEW k \in 0..h - 1 PROVE Len(L[k]) # 1
      <4> DEFINE m == Len(L[k])
      <4>1. m > 1 /\ m \in Nat
        BY <2>2, <2>4, <3>1
      <4> HIDE DEF m
      <4>2. m # 1
        BY <4>1
      <4> QED
        BY <4>2 DEF m
    <3>3. QED
      BY <3>2
  <2>6. QED
    BY <2>4, <2>5 DEF IsHeight
<1>3. path = [k \in 1..h |-> StepAt(L[k - 1], index[k - 1])]
  BY DEF merkleProof, StepAt, Halves, IsHalves
<1> HIDE DEF h, L, index, path
<1>4. h \in Nat
  BY <1>1, <1>2 DEF IsHeight
<1>5. Len(path) = h
  <2>1. path = [k \in 1..h |-> path[k]]
    BY <1>3
  <2>2. QED
    BY <1>4, <2>1, ListOfLength
<1>6. \A k \in 1..h : path[k] = StepAt(L[k - 1], index[k - 1])
  BY <1>3
<1>7. QED
  BY <1>2, <1>5, <1>6 DEF L, index, path

(* A proof leads from its leaf to the root of the tree it was made in.     *)
LEMMA ProofsReachRoot ==
  ASSUME NEW leaves, IsList(leaves), Distinct(leaves), NEW i \in 1..Len(leaves)
  PROVE  ProofRoot(leaves[i], merkleProof(leaves, i - 1)) = merkleRoot(leaves)
<1> DEFINE n == Len(leaves)
           L == Levels(leaves)
           index == Halves(i - 1, n)
           path == merkleProof(leaves, i - 1)
<1>1. n \in Nat /\ n >= 1 /\ i - 1 \in 0..n - 1 /\ i - 1 \in Nat
  BY DEF IsList
<1>2. PICK h : /\ IsHeight(h, leaves)
               /\ Len(path) = h
               /\ \A k \in 1..h : path[k] = StepAt(L[k - 1], index[k - 1])
  BY <1>1, MerkleProofIs
<1>3. h \in Nat /\ h <= n
  BY <1>1, <1>2 DEF IsHeight
<1>4. PICK cursor : /\ cursor[0] = leaves[i]
                    /\ \A k \in 1..h : cursor[k] = Climb(path[k], cursor[k - 1])
                    /\ ProofRoot(leaves[i], path) = cursor[h]
  <2> HIDE DEF path
  <2>1. QED
    BY <1>2, <1>3, ProofRootIs
<1>5. /\ index[0] = i - 1
      /\ \A k \in 1..n : index[k] = index[k - 1] \div 2
  BY <1>1, HalvesAre
<1>6. /\ L[0] = leaves
      /\ \A k \in 1..h : L[k] = NextLevel(L[k - 1])
      /\ merkleRoot(leaves) = L[h][1]
      /\ \A k \in 0..h : IsList(L[k])
  <2>1. L[0] = leaves
    BY <1>1, LevelsAre
  <2>2. \A k \in 0..n : IsList(L[k])
    BY <1>1, LevelsGood DEF GoodLevel
  <2>3. /\ \A k \in 1..h : L[k] = NextLevel(L[k - 1])
        /\ merkleRoot(leaves) = L[h][1]
    BY <1>1, <1>2, LevelsToHeight
  <2>4. QED
    BY <1>3, <2>1, <2>2, <2>3
<1> DEFINE On(k) == index[k] \in 0..Len(L[k]) - 1 /\ cursor[k] = L[k][index[k] + 1]
           Bad == {k \in 0..h : ~ On(k)}
<1> HIDE DEF L, index, path, n
<1>7. On(0)
  BY <1>1, <1>4, <1>5, <1>6 DEF n
<1>8. ASSUME NEW k \in 1..h, On(k - 1) PROVE On(k)
  <2> DEFINE s == L[k - 1]
             j == index[k - 1]
  <2>1. k - 1 \in 0..h /\ k \in 1..n
    BY <1>1, <1>3
  <2>2. IsList(s) /\ j \in 0..Len(s) - 1 /\ cursor[k - 1] = s[j + 1]
    BY <1>6, <1>8, <2>1
  <2>3. L[k] = NextLevel(s) /\ path[k] = StepAt(s, j) /\ index[k] = j \div 2
        /\ cursor[k] = Climb(path[k], cursor[k - 1])
    BY <1>2, <1>4, <1>5, <1>6, <2>1
  <2> HIDE DEF s, j
  <2>4. /\ cursor[k] = Node(s, j \div 2 + 1)
        /\ j \div 2 \in 0..(Len(s) + 1) \div 2 - 1
    BY <2>2, <2>3, ClimbsToNode
  <2>5. Len(L[k]) = (Len(s) + 1) \div 2 /\ Len(s) \in Nat
        /\ \A p \in 1..(Len(s) + 1) \div 2 : L[k][p] = Node(s, p)
    BY <2>2, <2>3, NextLevelIs DEF IsList
  <2>6. j \div 2 + 1 \in 1..(Len(s) + 1) \div 2
    BY <2>4, <2>5
  <2>7. QED
    BY <2>3, <2>4, <2>5, <2>6
<1>9. Bad = {}
  <2>1. SUFFICES ASSUME Bad # {} PROVE FALSE
    OBVIOUS
  <2> HIDE DEF On
  <2>2. PICK k \in Bad : \A j \in Bad : k <= j
    <3>1. Bad \in SUBSET Nat
      BY <1>3
    <3> HIDE DEF Bad
    <3>2. QED
      BY <2>1, <3>1, LeastNatural
  <2>3. k \in 1..h
    BY <1>3, <1>7
  <2>4. k - 1 \in 0..h /\ ~ (k <= k - 1)
    BY <1>3, <2>3
  <2>5. On(k - 1)
    BY <2>2, <2>4
  <2>6. QED
    BY <1>8, <2>3, <2>5
<1>10. On(h)
  <2> HIDE DEF On
  <2>1. h \in 0..h
    BY <1>3
  <2>2. QED
    BY <1>9, <2>1
<1>11. index[h] = 0
  <2>1. Len(L[h]) = 1
    BY <1>2 DEF IsHeight, L
  <2>2. QED
    BY <1>10, <2>1
<1>12. QED
  BY <1>4, <1>6, <1>10, <1>11 DEF path

-----------------------------------------------------------------------------
(* The nullifier accumulator *)

(* An image of a finite set is finite. *)
LEMMA ImageFinite ==
  ASSUME NEW D, IsFiniteSet(D), NEW f, DOMAIN f = D
  PROVE  IsFiniteSet({f[x] : x \in D})
<1> DEFINE T == {f[x] : x \in D}
           g == [x \in D |-> f[x]]
<1>1. g \in Surjection(D, T)
  BY DEF Surjection
<1>2. IsFiniteSet(T)
  <2> HIDE DEF g, T
  <2>1. QED
    BY <1>1, FS_Surjection
<1>3. QED
  BY <1>2

(* A list of nullifiers. *)
NullifierList(bn) == IsList(bn) /\ \A i \in 1..Len(bn) : bn[i] \in Nat

(* Its members are a finite set of numbers. *)
LEMMA NullifierListSet ==
  ASSUME NEW bn, NullifierList(bn)
  PROVE  /\ ToSet(bn) \in SUBSET Nat /\ IsFiniteSet(ToSet(bn))
         /\ ToSet(bn) = {bn[i] : i \in 1..Len(bn)}
<1>1. DOMAIN bn = 1..Len(bn) /\ Len(bn) \in Nat
  BY DEF NullifierList, IsList
<1>2. ToSet(bn) = {bn[i] : i \in 1..Len(bn)}
  BY <1>1 DEF ToSet
<1>3. IsFiniteSet(1..Len(bn))
  BY <1>1, FS_Interval
<1>4. IsFiniteSet({bn[i] : i \in 1..Len(bn)})
  BY <1>1, <1>3, ImageFinite
<1>5. QED
  BY <1>2, <1>4 DEF NullifierList

(* Adding stops at the first repetition: what was seen stays a finite set, *)
(* and a call that succeeds was given new nullifiers, each one once.       *)
LEMMA AddManyAdds ==
  ASSUME NEW seen \in SUBSET Nat, IsFiniteSet(seen), NEW bn, NullifierList(bn)
  PROVE  /\ addMany(seen, bn).seen \in SUBSET Nat
         /\ IsFiniteSet(addMany(seen, bn).seen)
         /\ addMany(seen, bn).ok =>
              /\ addMany(seen, bn).seen = seen \cup ToSet(bn)
              /\ seen \cap ToSet(bn) = {}
              /\ Distinct(bn)
<1> DEFINE fresh(k) == /\ bn[k] \notin seen
                       /\ \A j \in 1..k - 1 : bn[j] # bn[k]
           added == {k \in DOMAIN bn : \A j \in 1..k : fresh(j)}
           new == {bn[k] : k \in added}
<1>1. addMany(seen, bn) = [seen |-> seen \cup new, ok |-> added = DOMAIN bn]
  BY DEF addMany
<1>2. DOMAIN bn = 1..Len(bn) /\ Len(bn) \in Nat
  BY DEF NullifierList, IsList
<1>3. new \in SUBSET ToSet(bn)
  BY DEF ToSet
<1>4. /\ ToSet(bn) \in SUBSET Nat
      /\ IsFiniteSet(ToSet(bn))
      /\ ToSet(bn) = {bn[i] : i \in 1..Len(bn)}
  BY NullifierListSet
<1>5. IsFiniteSet(new)
  BY <1>3, <1>4, FS_Subset
<1>6. seen \cup new \in SUBSET Nat /\ IsFiniteSet(seen \cup new)
  <2>1. seen \cup new \in SUBSET Nat
    BY <1>3, <1>4
  <2> HIDE DEF new
  <2>2. IsFiniteSet(seen \cup new)
    BY <1>5, FS_Union
  <2>3. QED
    BY <2>1, <2>2
<1>7. ASSUME added = DOMAIN bn
      PROVE  /\ seen \cup new = seen \cup ToSet(bn)
             /\ seen \cap ToSet(bn) = {}
             /\ Distinct(bn)
  <2>1. new = ToSet(bn)
    BY <1>7 DEF ToSet
  <2>2. \A k \in 1..Len(bn) : fresh(k)
    <3>1. SUFFICES ASSUME NEW k \in 1..Len(bn) PROVE fresh(k)
      OBVIOUS
    <3>2. k \in added /\ k \in 1..k
      BY <1>2, <1>7
    <3>3. \A j \in 1..k : fresh(j)
      BY <3>2
    <3> HIDE DEF fresh
    <3>4. QED
      BY <3>2, <3>3
  <2>3. seen \cap ToSet(bn) = {}
    BY <1>4, <2>2
  <2>4. Distinct(bn)
    <3>1. SUFFICES ASSUME NEW i \in 1..Len(bn), NEW j \in 1..Len(bn),
                          bn[i] = bn[j], i < j
                   PROVE  FALSE
      BY <1>2 DEF Distinct
    <3>2. i \in 1..j - 1
      BY <1>2, <3>1
    <3>3. QED
      BY <2>2, <3>1, <3>2
  <2>5. QED
    BY <2>1, <2>3, <2>4
<1>8. addMany(seen, bn).seen = seen \cup new
  BY <1>1
<1>9. addMany(seen, bn).ok => added = DOMAIN bn
  <2>1. SUFFICES ASSUME added # DOMAIN bn PROVE ~ addMany(seen, bn).ok
    OBVIOUS
  <2>2. (added = DOMAIN bn) = FALSE
    BY <2>1
  <2> HIDE DEF added, new
  <2>3. addMany(seen, bn) = [seen |-> seen \cup new, ok |-> FALSE]
    BY <1>1, <2>2
  <2>4. QED
    BY <2>3
<1>10. QED
  <2> HIDE DEF added, new
  <2>1. QED
    BY <1>6, <1>7, <1>8, <1>9

-----------------------------------------------------------------------------
(* Packages *)

(* The package of a ballot has a number for its nullifier; one that passes *)
(* the checks of version 3 has the nullifier of its credential.            *)
LEMMA PackageNullifier ==
  ASSUME NEW b \in Ballot, NEW v \in 1..3
  PROVE  LET p == StoredPackage(v, b).package
         IN  /\ p.ballotNullifier \in Nat
             /\ v = 3 /\ validateEligibleVotePackage(p) =>
                  p.ballotNullifier = NullifierOf[<<p.electionId, b.position>>]
<1> DEFINE x == <<b.election, b.position>>
           whole == CASE v = 1 -> VotePackageV1(b)
                      [] v = 2 -> VotePackageV2(b)
                      [] v = 3 -> buildEligibleBallotWitness(b)
           p == StoredPackage(v, b).package
<1>1. /\ b.damage \in {"none", "reencoded", "swapped", "badProof"}
      /\ NullifierOf[x] \in Nat /\ SnarkField \in Nat
      /\ NullifierOf[x] \in 0..SnarkField - 1
  BY PackageAssumption DEF Ballot
<1>2. /\ whole.ballotNullifier = NullifierOf[x]
      /\ whole.electionId = b.election
      /\ whole.version = v
      /\ {"ballotNullifier", "electionId"} \subseteq DOMAIN whole
  <2>1. CASE v = 1
    BY <2>1 DEF VotePackageV1, Extended
  <2>2. CASE v = 2
    BY <2>2 DEF VotePackageV2, Extended
  <2>3. CASE v = 3
    BY <2>3 DEF buildEligibleBallotWitness, computeEligibleBallotNullifier, Extended
  <2>4. QED
    BY <2>1, <2>2, <2>3
<1>3. p = Damaged(b.damage, whole)
  BY DEF StoredPackage
<1> HIDE DEF p, whole
<1>4. /\ \/ p.ballotNullifier = NullifierOf[x]
         \/ p.ballotNullifier = NullifierOf[x] + SnarkField
      /\ p.electionId = b.election
  <2>1. CASE b.damage = "none"
    BY <1>2, <1>3, <2>1 DEF Damaged
  <2>2. CASE b.damage = "reencoded"
    BY <1>2, <1>3, <2>2 DEF Damaged, Reencoded
  <2>3. CASE b.damage = "swapped"
    BY <1>2, <1>3, <2>3 DEF Damaged
  <2>4. CASE b.damage = "badProof"
    BY <1>2, <1>3, <2>4 DEF Damaged
  <2>5. QED
    BY <1>1, <2>1, <2>2, <2>3, <2>4
<1>5. p.ballotNullifier \in Nat
  BY <1>1, <1>4
<1>6. ASSUME validateEligibleVotePackage(p)
      PROVE  p.ballotNullifier = NullifierOf[x]
  <2>1. p.ballotNullifier < SnarkField
    BY <1>6 DEF validateEligibleVotePackage, assertCanonicalField
  <2>2. QED
    BY <1>1, <1>4, <2>1
<1>7. QED
  BY <1>4, <1>5, <1>6 DEF p

-----------------------------------------------------------------------------
(* Manifests *)

(* What a batch of each version hashes of a stored package. *)
LeafOf(v, s) ==
  CASE v = 1 -> hashPackageLeaf(s.contentId, s.package)
    [] v = 2 -> PackageLeafV2(s.contentId, s.package)
    [] v = 3 -> PackageLeafV3(s.contentId, s.package)

DigestOf(v, s) ==
  CASE v = 1 -> digestVotePackage(s.package)
    [] v = 2 -> digestProofCompatibleVotePackage(s.package)
    [] v = 3 -> digestEligibleVotePackage(s.package)

(* The check each version makes of a package. *)
Valid(v, p) ==
  CASE v = 1 -> validateVotePackage(p)
    [] v = 2 -> validateProofCompatibleVotePackage(p)
    [] v = 3 -> validateEligibleVotePackage(p)

(* What a manifest says of the packages it was built from and of the       *)
(* nullifiers the accumulator held.                                        *)
ManifestOf(m, v, election, stored, seen) ==
  /\ stored # << >>
  /\ m.ballotNullifiers = Nullifiers(stored)
  /\ m.previousNullifierRoot = nullifierSetRoot(seen)
  /\ m.nullifierRoot = nullifierSetRoot(addMany(seen, Nullifiers(stored)).seen)
  /\ addMany(seen, Nullifiers(stored)).ok
  /\ m.packageLeafHashes = [i \in DOMAIN stored |-> LeafOf(v, stored[i])]
  /\ m.packageDigests = [i \in DOMAIN stored |-> DigestOf(v, stored[i])]
  /\ m.cidMerkleRoot = merkleRoot(m.packageLeafHashes)
  /\ \A i \in DOMAIN stored : Valid(v, stored[i].package)
  /\ v = 3 => \A i \in DOMAIN stored :
                /\ stored[i].package.electionId = election
                /\ stored[i].package.candidateListHash = m.candidateListHash
  /\ v # 1 => m.aggregateCiphertext \in aggregateProofCompatibleCiphertexts(
                [i \in DOMAIN stored |-> stored[i].package.ciphertext])

(* The frame of the three builders. *)
LEMMA BuiltIs ==
  ASSUME NEW guard \in BOOLEAN, NEW seen, NEW added, NEW manifests
  PROVE  /\ Built(guard, seen, added, manifests).accumulator \in {seen, added.seen}
         /\ \A m \in Built(guard, seen, added, manifests).manifests :
              /\ guard /\ added.ok /\ m \in manifests
              /\ Built(guard, seen, added, manifests).accumulator = added.seen
<1>1. CASE guard
  BY <1>1 DEF Built
<1>2. CASE ~ guard
  BY <1>2 DEF Built
<1>3. QED
  BY <1>1, <1>2

(* An aggregate carries the one key of its ciphertexts.                    *)
LEMMA AggregateKey ==
  ASSUME NEW stored,
         NEW a \in aggregateProofCompatibleCiphertexts(
                     [i \in DOMAIN stored |-> stored[i].package.ciphertext])
  PROVE  \A i \in DOMAIN stored :
           stored[i].package.ciphertext.electionPublicKeyHash
             = a.electionPublicKeyHash
<1> DEFINE cts == [i \in DOMAIN stored |-> stored[i].package.ciphertext]
<1>1. SameKey(cts) /\ a = PointwiseSum(cts)
  <2> HIDE DEF cts
  <2>1. a \in aggregateProofCompatibleCiphertexts(cts)
    BY DEF cts
  <2>2. QED
    BY <2>1 DEF aggregateProofCompatibleCiphertexts
<1>2. a.electionPublicKeyHash = cts[1].electionPublicKeyHash
  BY <1>1 DEF PointwiseSum
<1>3. \A i \in DOMAIN cts :
        cts[i].electionPublicKeyHash = cts[1].electionPublicKeyHash
  <2> HIDE DEF cts
  <2>1. QED
    BY <1>1 DEF SameKey
<1>4. \A i \in DOMAIN stored : cts[i] = stored[i].package.ciphertext
  OBVIOUS
<1> HIDE DEF cts
<1>5. DOMAIN cts = DOMAIN stored
  BY DEF cts
<1>6. QED
  BY <1>2, <1>3, <1>4, <1>5

(* All three builders make such manifests, or none, and add to the         *)
(* accumulator what addMany adds, or nothing.                              *)
LEMMA ManifestsAre ==
  ASSUME NEW v \in 1..3, NEW election, NEW root, NEW previous, NEW stored, NEW seen
  PROVE  LET built == BuildManifest(v, election, root, previous, stored, seen)
         IN  /\ built.accumulator \in {seen, addMany(seen, Nullifiers(stored)).seen}
             /\ \A m \in built.manifests :
                  /\ ManifestOf(m, v, election, stored, seen)
                  /\ m.previousNullifierRoot = previous
                  /\ built.accumulator = addMany(seen, Nullifiers(stored)).seen
<1> DEFINE added == addMany(seen, Nullifiers(stored))
           built == BuildManifest(v, election, root, previous, stored, seen)
<1>1. CASE v = 1
  <2> DEFINE leaves == [i \in DOMAIN stored |->
                          hashPackageLeaf(stored[i].contentId, stored[i].package)]
             manifest == [version               |-> 1,
                          electionId            |-> election,
                          previousNullifierRoot |-> previous,
                          nullifierRoot         |-> nullifierSetRoot(added.seen),
                          cidMerkleRoot         |-> merkleRoot(leaves),
                          packageDigests        |-> [i \in DOMAIN stored |->
                                         digestVotePackage(stored[i].package)],
                          packageLeafHashes     |-> leaves,
                          ballotNullifiers      |-> Nullifiers(stored)]
             guard == /\ stored # << >>
                      /\ RootMatches(previous, seen)
                      /\ \A i \in DOMAIN stored :
                           /\ validateVotePackage(stored[i].package)
                           /\ stored[i].package.electionId = election
             manifests == {m \in {manifest} : HaveContentIds(stored)}
  <2>1. built = Built(guard, seen, added, manifests)
    BY <1>1 DEF BuildManifest, buildBatchManifest
  <2>2. ASSUME NEW m \in manifests, guard, added.ok
        PROVE  /\ ManifestOf(m, v, election, stored, seen)
               /\ m.previousNullifierRoot = previous
    <3>1. m = manifest
      OBVIOUS
    <3>2. previous = nullifierSetRoot(seen)
      BY <2>2 DEF RootMatches
    <3>3. leaves = [i \in DOMAIN stored |-> LeafOf(v, stored[i])]
      BY <1>1 DEF LeafOf
    <3>4. manifest.packageDigests = [i \in DOMAIN stored |-> DigestOf(v, stored[i])]
      BY <1>1 DEF DigestOf
    <3>5. m.cidMerkleRoot = merkleRoot(m.packageLeafHashes)
      BY <3>1
    <3>6. \A i \in DOMAIN stored : Valid(v, stored[i].package)
      BY <1>1, <2>2 DEF Valid
    <3>7. QED
      BY <1>1, <2>2, <3>1, <3>2, <3>3, <3>4, <3>5, <3>6 DEF ManifestOf
  <2> HIDE DEF guard, manifests
  <2>3. guard \in BOOLEAN
    BY DEF guard
  <2>4. QED
    <3> HIDE DEF built, added
    <3>1. /\ built.accumulator \in {seen, added.seen}
          /\ \A m \in built.manifests :
               guard /\ added.ok /\ m \in manifests /\ built.accumulator = added.seen
      BY <2>1, <2>3, BuiltIs
    <3>2. QED
      BY <2>2, <3>1 DEF built, added
<1>2. CASE v = 2
  <2> DEFINE leaves == [i \in DOMAIN stored |->
                          PackageLeafV2(stored[i].contentId, stored[i].package)]
             digests == [i \in DOMAIN stored |->
                          digestProofCompatibleVotePackage(stored[i].package)]
             aggregates == aggregateProofCompatibleCiphertexts(
                             [i \in DOMAIN stored |-> stored[i].package.ciphertext])
             manifest(aggregate) ==
               [version               |-> 2,
                electionId            |-> election,
                previousNullifierRoot |-> previous,
                nullifierRoot         |-> nullifierSetRoot(added.seen),
                cidMerkleRoot         |-> merkleRoot(leaves),
                aggregateCiphertext   |-> aggregate,
                packageDigests        |-> digests,
                packageLeafHashes     |-> leaves,
                ballotNullifiers      |-> Nullifiers(stored)]
             guard == /\ stored # << >>
                      /\ RootMatches(previous, seen)
                      /\ \A i \in DOMAIN stored :
                           /\ validateProofCompatibleVotePackage(stored[i].package)
                           /\ stored[i].package.electionId = election
             manifests == {m \in {manifest(a) : a \in aggregates} :
                             HaveContentIds(stored)}
  <2>1. built = Built(guard, seen, added, manifests)
    BY <1>2 DEF BuildManifest, buildProofCompatibleBatchManifest
  <2>2. ASSUME NEW m \in manifests, guard, added.ok
        PROVE  /\ ManifestOf(m, v, election, stored, seen)
               /\ m.previousNullifierRoot = previous
    <3>1. PICK a \in aggregates : m = manifest(a)
      OBVIOUS
    <3>2. previous = nullifierSetRoot(seen)
      BY <2>2 DEF RootMatches
    <3>3. leaves = [i \in DOMAIN stored |-> LeafOf(v, stored[i])]
      BY <1>2 DEF LeafOf
    <3>4. digests = [i \in DOMAIN stored |-> DigestOf(v, stored[i])]
      BY <1>2 DEF DigestOf
    <3> HIDE DEF leaves, digests, aggregates
    <3>5. /\ m.cidMerkleRoot = merkleRoot(m.packageLeafHashes)
          /\ m.packageLeafHashes = leaves
          /\ m.packageDigests = digests
          /\ m.ballotNullifiers = Nullifiers(stored)
          /\ m.previousNullifierRoot = previous
          /\ m.nullifierRoot = nullifierSetRoot(added.seen)
          /\ m.aggregateCiphertext = a
      BY <3>1
    <3>6. /\ \A i \in DOMAIN stored : Valid(v, stored[i].package)
          /\ a \in aggregateProofCompatibleCiphertexts(
                    [i \in DOMAIN stored |-> stored[i].package.ciphertext])
      BY <1>2, <2>2, <3>1 DEF Valid, aggregates
    <3>7. QED
      BY <1>2, <2>2, <3>2, <3>3, <3>4, <3>5, <3>6 DEF ManifestOf
  <2> HIDE DEF guard, manifests
  <2>3. guard \in BOOLEAN
    BY DEF guard
  <2>4. QED
    <3> HIDE DEF built, added
    <3>1. /\ built.accumulator \in {seen, added.seen}
          /\ \A m \in built.manifests :
               guard /\ added.ok /\ m \in manifests /\ built.accumulator = added.seen
      BY <2>1, <2>3, BuiltIs
    <3>2. QED
      BY <2>2, <3>1 DEF built, added
<1>3. CASE v = 3
  <2> DEFINE leaves == [i \in DOMAIN stored |->
                          PackageLeafV3(stored[i].contentId, stored[i].package)]
             digests == [i \in DOMAIN stored |->
                          digestEligibleVotePackage(stored[i].package)]
             aggregates == aggregateProofCompatibleCiphertexts(
                             [i \in DOMAIN stored |-> stored[i].package.ciphertext])
             manifest(aggregate) ==
               [version               |-> 3,
                electionId            |-> election,
                candidateListHash     |-> stored[1].package.candidateListHash,
                eligibilityRoot       |-> root,
                electionPublicKeyHash |->
                           stored[1].package.ciphertext.electionPublicKeyHash,
                previousNullifierRoot |-> previous,
                nullifierRoot         |-> nullifierSetRoot(added.seen),
                cidMerkleRoot         |-> merkleRoot(leaves),
                aggregateCiphertext   |-> aggregate,
                packageDigests        |-> digests,
                packageLeafHashes     |-> leaves,
                ballotNullifiers      |-> Nullifiers(stored)]
             guard == /\ EligibleBatch(election, root, stored)
                      /\ RootMatches(previous, seen)
             manifests == {manifest(a) : a \in aggregates}
  <2>1. built = Built(guard, seen, added, manifests)
    BY <1>3 DEF BuildManifest, buildEligibleBatchManifest
  <2>2. ASSUME NEW m \in manifests, guard, added.ok
        PROVE  /\ ManifestOf(m, v, election, stored, seen)
               /\ m.previousNullifierRoot = previous
    <3>1. PICK a \in aggregates : m = manifest(a)
      OBVIOUS
    <3>2. previous = nullifierSetRoot(seen)
      BY <2>2 DEF RootMatches
    <3>3. leaves = [i \in DOMAIN stored |-> LeafOf(v, stored[i])]
      BY <1>3 DEF LeafOf
    <3>4. digests = [i \in DOMAIN stored |-> DigestOf(v, stored[i])]
      BY <1>3 DEF DigestOf
    <3> HIDE DEF leaves, digests, aggregates
    <3>5. /\ m.cidMerkleRoot = merkleRoot(m.packageLeafHashes)
          /\ m.packageLeafHashes = leaves
          /\ m.packageDigests = digests
          /\ m.ballotNullifiers = Nullifiers(stored)
          /\ m.previousNullifierRoot = previous
          /\ m.nullifierRoot = nullifierSetRoot(added.seen)
          /\ m.aggregateCiphertext = a
          /\ m.candidateListHash = stored[1].package.candidateListHash
      BY <3>1
    <3>6. /\ stored # << >>
          /\ \A i \in DOMAIN stored :
                /\ validateEligibleVotePackage(stored[i].package)
                /\ stored[i].package.electionId = election
                /\ stored[i].package.candidateListHash
                     = stored[1].package.candidateListHash
      BY <2>2 DEF EligibleBatch
    <3>7. /\ \A i \in DOMAIN stored : Valid(v, stored[i].package)
          /\ a \in aggregateProofCompatibleCiphertexts(
                    [i \in DOMAIN stored |-> stored[i].package.ciphertext])
      BY <1>3, <3>1, <3>6 DEF Valid, aggregates
    <3>8. QED
      BY <1>3, <2>2, <3>2, <3>3, <3>4, <3>5, <3>6, <3>7 DEF ManifestOf
  <2> HIDE DEF guard, manifests
  <2>3. guard \in BOOLEAN
    BY DEF guard
  <2>4. QED
    <3> HIDE DEF built, added
    <3>1. /\ built.accumulator \in {seen, added.seen}
          /\ \A m \in built.manifests :
               guard /\ added.ok /\ m \in manifests /\ built.accumulator = added.seen
      BY <2>1, <2>3, BuiltIs
    <3>2. QED
      BY <2>2, <3>1 DEF built, added
<1>4. QED
  BY <1>1, <1>2, <1>3

-----------------------------------------------------------------------------
(* The log *)

(* The nullifiers of a log's first k batches. *)
NullifiersOf(log, k) == UNION {ToSet(log[i].ballotNullifiers) : i \in 1..k}

(* A set of nullifiers. *)
FiniteNats(S) == S \in SUBSET Nat /\ IsFiniteSet(S)

(* A batch follows the set q: its roots are those before and after it. *)
Follows(m, q) ==
  /\ FiniteNats(q)
  /\ NullifierList(m.ballotNullifiers)
  /\ Distinct(m.ballotNullifiers)
  /\ q \cap ToSet(m.ballotNullifiers) = {}
  /\ m.previousNullifierRoot = nullifierSetRoot(q)
  /\ m.nullifierRoot = nullifierSetRoot(q \cup ToSet(m.ballotNullifiers))

(* From the set q, the artifact's packages give its manifest again. *)
Rebuilds(a, q) ==
  LET m == a.manifest
      rebuilt == BuildManifest(version, scenario.election, eligibilityRoot,
                               m.previousNullifierRoot, Stored(a.list), q)
  IN  /\ m \in rebuilt.manifests
      /\ rebuilt.accumulator = q \cup ToSet(m.ballotNullifiers)

(* An artifact file: whatever the process held when it was built, its      *)
(* manifest is that of its packages and follows that set.                  *)
ArtifactOK(a) ==
  /\ IsList(a.list)
  /\ \A i \in 1..Len(a.list) : a.list[i] \in DOMAIN ballots
  /\ \E q : /\ Rebuilds(a, q)
            /\ ManifestOf(a.manifest, version, scenario.election,
                          Stored(a.list), q)
            /\ Follows(a.manifest, q)

(* Every batch of the log follows all those before it. *)
LogOK ==
  /\ IsList(batches)
  /\ \A i \in 1..Len(batches) :
       /\ Follows(batches[i], NullifiersOf(batches, i - 1))
       /\ \E a \in artifacts : batches[i] = a.manifest

BatchInv ==
  /\ scenario \in Scenarios
  /\ FiniteNats(accumulator)
  /\ \A a \in artifacts : ArtifactOK(a)
  /\ LogOK

(* What a list of ballots is stored as. *)
LEMMA StoredIs ==
  ASSUME scenario \in Scenarios, NEW list, IsList(list),
         \A i \in 1..Len(list) : list[i] \in DOMAIN ballots
  PROVE  /\ Len(list) \in Nat /\ DOMAIN Stored(list) = 1..Len(list)
         /\ \A i \in 1..Len(list) :
              Stored(list)[i] = StoredPackage(version, ballots[list[i]])
         /\ NullifierList(Nullifiers(Stored(list)))
         /\ Len(Nullifiers(Stored(list))) = Len(list)
         /\ \A i \in 1..Len(list) :
              Nullifiers(Stored(list))[i] = Stored(list)[i].package.ballotNullifier
<1> DEFINE bn == Nullifiers(Stored(list))
           n == Len(list)
<1>1. n \in Nat /\ DOMAIN list = 1..n
  BY DEF IsList
<1>2. /\ DOMAIN Stored(list) = 1..n
      /\ \A i \in 1..n : Stored(list)[i] = StoredPackage(version, ballots[list[i]])
  BY <1>1 DEF Stored
<1>3. /\ bn = [i \in 1..n |-> bn[i]]
      /\ \A i \in 1..n : bn[i] = Stored(list)[i].package.ballotNullifier
  BY <1>2 DEF Nullifiers
<1>4. version \in 1..3 /\ \A i \in 1..n : ballots[list[i]] \in Ballot
  BY ScenarioAssumption DEF version, ballots
<1>5. \A i \in 1..n : bn[i] \in Nat
  <2>1. SUFFICES ASSUME NEW i \in 1..n PROVE bn[i] \in Nat
    OBVIOUS
  <2>2. StoredPackage(version, ballots[list[i]]).package.ballotNullifier \in Nat
    BY <1>4, PackageNullifier
  <2>3. QED
    BY <1>2, <1>3, <2>2
<1> HIDE DEF bn, n
<1>6. IsList(bn) /\ Len(bn) = n
  BY <1>1, <1>3, ListOfLength
<1>7. QED
  BY <1>1, <1>2, <1>3, <1>5, <1>6 DEF NullifierList, bn, n

(* The nullifiers of a log up to a batch. *)
LEMMA NullifiersOfGrow ==
  ASSUME NEW log, NEW k \in Nat
  PROVE  /\ NullifiersOf(log, 0) = {}
         /\ NullifiersOf(log, k + 1)
              = NullifiersOf(log, k) \cup ToSet(log[k + 1].ballotNullifiers)
<1>1. 1..0 = {} /\ 1..(k + 1) = (1..k) \cup {k + 1}
  OBVIOUS
<1>2. QED
  BY <1>1 DEF NullifiersOf

(* They only depend on those batches. *)
LEMMA NullifiersOfExtend ==
  ASSUME NEW log, NEW other, NEW k \in Nat, \A i \in 1..k : log[i] = other[i]
  PROVE  NullifiersOf(log, k) = NullifiersOf(other, k)
BY DEF NullifiersOf

(* The sets of nullifiers along the log, and its latest root. *)
LEMMA LogRoots ==
  ASSUME LogOK
  PROVE  /\ Len(batches) \in Nat
         /\ \A k \in 0..Len(batches) :
              /\ FiniteNats(NullifiersUpTo(k))
              /\ NullifiersUpTo(k) = NullifiersOf(batches, k)
              /\ RootAfter(k) = nullifierSetRoot(NullifiersUpTo(k))
<1>1. Len(batches) \in Nat
  BY DEF LogOK, IsList
<1>2. SUFFICES ASSUME NEW k \in 0..Len(batches)
               PROVE  /\ FiniteNats(NullifiersUpTo(k))
                      /\ NullifiersUpTo(k) = NullifiersOf(batches, k)
                      /\ RootAfter(k) = nullifierSetRoot(NullifiersUpTo(k))
  BY <1>1
<1>3. NullifiersUpTo(k) = NullifiersOf(batches, k)
  BY DEF NullifiersUpTo, NullifiersOf
<1>4. CASE k = 0
  <2>1. NullifiersUpTo(k) = {}
    BY <1>3, <1>4, NullifiersOfGrow
  <2>2. QED
    BY <1>3, <1>4, <2>1, EmptyNullifierRoot, FS_EmptySet DEF FiniteNats, RootAfter
<1>5. CASE k # 0
  <2>1. k \in 1..Len(batches) /\ k - 1 \in Nat /\ (k - 1) + 1 = k
    BY <1>1, <1>5
  <2>2. Follows(batches[k], NullifiersOf(batches, k - 1))
    BY <2>1 DEF LogOK
  <2>3. NullifiersUpTo(k)
          = NullifiersOf(batches, k - 1) \cup ToSet(batches[k].ballotNullifiers)
    BY <1>3, <2>1, NullifiersOfGrow
  <2>4. FiniteNats(ToSet(batches[k].ballotNullifiers))
    BY <2>2, NullifierListSet DEF Follows, FiniteNats
  <2>5. FiniteNats(NullifiersUpTo(k))
    BY <2>2, <2>3, <2>4, FS_Union DEF Follows, FiniteNats
  <2>6. RootAfter(k) = nullifierSetRoot(NullifiersUpTo(k))
    BY <1>5, <2>2, <2>3 DEF RootAfter, Follows
  <2>7. QED
    BY <1>3, <2>5, <2>6
<1>6. QED
  BY <1>4, <1>5

(* One build: a finite accumulator stays one, and a manifest follows what  *)
(* the process held.                                                       *)
LEMMA BuildKeeps ==
  ASSUME BatchInv, NEW previous, NEW list \in Lists
  PROVE  LET built == BuildManifest(version, scenario.election, eligibilityRoot,
                                    previous, Stored(list), accumulator)
         IN  /\ FiniteNats(built.accumulator)
             /\ \A m \in built.manifests :
                  ArtifactOK([manifest |-> m, list |-> list])
<1> DEFINE built == BuildManifest(version, scenario.election, eligibilityRoot,
                                  previous, Stored(list), accumulator)
           bn == Nullifiers(Stored(list))
<1>1. scenario \in Scenarios /\ FiniteNats(accumulator) /\ version \in 1..3
  BY ScenarioAssumption DEF BatchInv, version
<1>2. IsList(list) /\ \A i \in 1..Len(list) : list[i] \in DOMAIN ballots
  <2>1. PICK n \in 1..scenario.maxList : list \in [1..n -> DOMAIN ballots]
    BY DEF Lists
  <2>2. n \in Nat
    BY <2>1
  <2>3. list = [i \in 1..n |-> list[i]]
    BY <2>1
  <2>4. IsList(list) /\ Len(list) = n
    BY <2>2, <2>3, ListOfLength
  <2>5. QED
    BY <2>1, <2>4
<1>3. NullifierList(bn)
  BY <1>1, <1>2, StoredIs
<1>4. /\ FiniteNats(addMany(accumulator, bn).seen)
      /\ addMany(accumulator, bn).ok =>
           /\ addMany(accumulator, bn).seen = accumulator \cup ToSet(bn)
           /\ accumulator \cap ToSet(bn) = {}
           /\ Distinct(bn)
  BY <1>1, <1>3, AddManyAdds DEF FiniteNats
<1>5. /\ built.accumulator \in {accumulator, addMany(accumulator, bn).seen}
      /\ \A m \in built.manifests :
           /\ ManifestOf(m, version, scenario.election, Stored(list), accumulator)
           /\ m.previousNullifierRoot = previous
           /\ built.accumulator = addMany(accumulator, bn).seen
  BY <1>1, ManifestsAre
<1>6. FiniteNats(built.accumulator)
  BY <1>1, <1>4, <1>5
<1>7. ASSUME NEW m \in built.manifests
      PROVE  ArtifactOK([manifest |-> m, list |-> list])
  <2>1. ManifestOf(m, version, scenario.election, Stored(list), accumulator)
    BY <1>5
  <2>2. Follows(m, accumulator)
    <3> HIDE DEF bn
    <3>1. /\ m.ballotNullifiers = bn
          /\ addMany(accumulator, bn).ok
          /\ m.previousNullifierRoot = nullifierSetRoot(accumulator)
          /\ m.nullifierRoot = nullifierSetRoot(addMany(accumulator, bn).seen)
      BY <2>1 DEF ManifestOf, bn
    <3>2. QED
      BY <1>1, <1>3, <1>4, <3>1 DEF Follows
  <2>3. Rebuilds([manifest |-> m, list |-> list], accumulator)
    <3> HIDE DEF bn
    <3>1. m.previousNullifierRoot = previous
      BY <1>5
    <3>2. built.accumulator = accumulator \cup ToSet(m.ballotNullifiers)
      BY <1>4, <1>5, <2>1 DEF ManifestOf, bn
    <3>3. QED
      BY <3>1, <3>2 DEF Rebuilds
  <2>4. QED
    BY <1>2, <2>1, <2>2, <2>3 DEF ArtifactOK
<1>8. QED
  BY <1>6, <1>7

-----------------------------------------------------------------------------
(* The invariant is inductive. *)

(* It holds before anything was built. *)
LEMMA BatchInit_Inv == Init => BatchInv
<1>1. ASSUME Init PROVE BatchInv
  <2>1. /\ scenario \in Scenarios /\ accumulator = {} /\ artifacts = {}
        /\ batches = << >>
    BY <1>1 DEF Init, BatchInit
  <2>2. LogOK
    BY <2>1 DEF LogOK, IsList
  <2>3. FiniteNats(accumulator)
    BY <2>1, FS_EmptySet DEF FiniteNats
  <2>4. QED
    BY <2>1, <2>2, <2>3 DEF BatchInv
<1>2. QED
  BY <1>1

(* The artifacts' facts only depend on the scenario. *)
LEMMA ArtifactsStay ==
  ASSUME NEW a, ArtifactOK(a), scenario' = scenario
  PROVE  ArtifactOK(a)'
BY DEF ArtifactOK, Rebuilds, ManifestOf, Stored, ballots, version, eligibilityRoot

(* A process started from any prefix of the log keeps it. *)
LEMMA StartBatcher_Inv ==
  ASSUME BatchInv, NEW k \in 0..Len(batches), StartBatcher(k)
  PROVE  BatchInv'
<1>1. FiniteNats(accumulator')
  BY LogRoots DEF BatchInv, StartBatcher
<1>2. UNCHANGED <<scenario, artifacts, batches>>
  BY DEF StartBatcher
<1>3. LogOK'
  BY <1>2 DEF BatchInv, LogOK
<1>4. \A a \in artifacts' : ArtifactOK(a)'
  BY <1>2, ArtifactsStay DEF BatchInv
<1>5. QED
  BY <1>1, <1>2, <1>3, <1>4 DEF BatchInv

(* So does a build, whether it throws or writes an artifact. *)
LEMMA BuildBatch_Inv ==
  ASSUME BatchInv, NEW previous, NEW list \in Lists, BuildBatch(previous, list)
  PROVE  BatchInv'
<1> DEFINE built == BuildManifest(version, scenario.election, eligibilityRoot,
                                  previous, Stored(list), accumulator)
<1>1. /\ accumulator' = built.accumulator
      /\ artifacts' = artifacts \cup
           {[manifest |-> m, list |-> list] : m \in built.manifests}
      /\ UNCHANGED <<scenario, batches>>
  BY DEF BuildBatch
<1>2. /\ FiniteNats(built.accumulator)
      /\ \A m \in built.manifests : ArtifactOK([manifest |-> m, list |-> list])
  BY BuildKeeps
<1> HIDE DEF built
<1>3. \A a \in artifacts' : ArtifactOK(a)'
  <2>1. \A a \in artifacts' : ArtifactOK(a)
    BY <1>1, <1>2 DEF BatchInv
  <2>2. QED
    BY <1>1, <2>1, ArtifactsStay
<1>4. LogOK'
  BY <1>1 DEF BatchInv, LogOK
<1>5. QED
  BY <1>1, <1>2, <1>3, <1>4 DEF BatchInv

(* The chain accepts what follows its latest root, and a root names one    *)
(* set: what the batch follows is what the log holds.                      *)
LEMMA CommitBatch_Inv ==
  ASSUME BatchInv, NEW a \in artifacts, CommitBatch(a)
  PROVE  BatchInv'
<1> DEFINE m == a.manifest
           n == Len(batches)
<1>1. /\ batches' = Append(batches, m)
      /\ m.previousNullifierRoot = latestNullifierRoot
      /\ UNCHANGED <<scenario, accumulator, artifacts>>
  BY DEF CommitBatch
<1>2. n \in Nat /\ batches = [i \in 1..n |-> batches[i]]
  BY DEF BatchInv, LogOK, IsList
<1>3. /\ IsList(batches') /\ Len(batches') = n + 1
      /\ \A i \in 1..n : batches'[i] = batches[i]
      /\ batches'[n + 1] = m
  <2> DEFINE X == {batches[i] : i \in 1..n} \cup {m}
  <2>1. batches \in Seq(X) /\ m \in X
    <3>1. \A i \in 1..n : batches[i] \in X
      OBVIOUS
    <3>2. m \in X
      OBVIOUS
    <3> HIDE DEF X, m
    <3>3. batches \in [1..n -> X]
      BY <1>2, <3>1
    <3>4. QED
      BY <1>2, <3>2, <3>3
  <2> HIDE DEF X, m, n
  <2>2. /\ batches' \in Seq(X) /\ Len(batches') = Len(batches) + 1
        /\ \A i \in 1..Len(batches) : batches'[i] = batches[i]
        /\ batches'[Len(batches) + 1] = m
    BY <1>1, <2>1
  <2>3. IsList(batches')
    BY <2>2 DEF IsList
  <2>4. QED
    BY <2>2, <2>3 DEF n
<1>4. PICK q : Follows(m, q)
  BY DEF BatchInv, ArtifactOK
<1>5. q = NullifiersOf(batches, n)
  <2>1. n \in 0..n
    BY <1>2
  <2>2. FiniteNats(NullifiersUpTo(n)) /\ NullifiersUpTo(n) = NullifiersOf(batches, n)
        /\ RootAfter(n) = nullifierSetRoot(NullifiersUpTo(n))
    BY <2>1, LogRoots DEF BatchInv
  <2>3. nullifierSetRoot(q) = nullifierSetRoot(NullifiersUpTo(n))
    BY <1>1, <1>4, <2>2 DEF latestNullifierRoot, Follows
  <2>4. q = NullifiersUpTo(n)
    BY <1>4, <2>2, <2>3, NullifierRootOneToOne DEF Follows, FiniteNats
  <2>5. QED
    BY <2>2, <2>4
<1>6. ASSUME NEW i \in 1..n + 1
      PROVE  /\ Follows(batches'[i], NullifiersOf(batches', i - 1))
             /\ \E b \in artifacts' : batches'[i] = b.manifest
  <2>1. i - 1 \in Nat /\ \A j \in 1..i - 1 : j \in 1..n
    BY <1>2
  <2>2. NullifiersOf(batches', i - 1) = NullifiersOf(batches, i - 1)
    BY <1>3, <2>1, NullifiersOfExtend
  <2>3. CASE i = n + 1
    <3>1. i - 1 = n
      BY <1>2, <2>3
    <3>2. QED
      BY <1>1, <1>3, <1>4, <1>5, <2>2, <2>3, <3>1
  <2>4. CASE i # n + 1
    <3>1. i \in 1..n
      BY <1>2, <2>4
    <3>2. QED
      BY <1>1, <1>3, <2>2, <3>1 DEF BatchInv, LogOK
  <2>5. QED
    BY <2>3, <2>4
<1>7. LogOK'
  BY <1>3, <1>6 DEF LogOK
<1>8. \A b \in artifacts' : ArtifactOK(b)'
  BY <1>1, ArtifactsStay DEF BatchInv
<1>9. QED
  BY <1>1, <1>7, <1>8 DEF BatchInv

(* Every other step leaves the batching alone. *)
LEMMA BatchStays ==
  ASSUME BatchInv, UNCHANGED <<scenario, accumulator, artifacts, batches>>
  PROVE  BatchInv'
<1>1. LogOK'
  BY DEF BatchInv, LogOK
<1>2. \A a \in artifacts' : ArtifactOK(a)'
  BY ArtifactsStay DEF BatchInv
<1>3. QED
  BY <1>1, <1>2 DEF BatchInv

(* Every step of an election keeps the invariant. *)
LEMMA BatchNext_Inv ==
  ASSUME BatchInv, [Next]_vars
  PROVE  BatchInv'
<1>1. CASE \E k \in 0..Len(batches) : Batching(StartBatcher(k))
  BY <1>1, StartBatcher_Inv DEF Batching
<1>2. CASE \E previous \in KnownRoots, list \in Lists :
             Batching(BuildBatch(previous, list))
  BY <1>2, BuildBatch_Inv DEF Batching
<1>3. CASE \E a \in artifacts : Batching(CommitBatch(a))
  BY <1>3, CommitBatch_Inv DEF Batching
<1>4. CASE \E entries \in EntryLists, k \in 0..Len(batches) :
             Batching(BuildTally(entries, k))
  BY <1>4, BatchStays DEF Batching, BuildTally
<1>5. CASE \E ceremony \in scenario.ceremonies : StartCeremony(ceremony)
  BY <1>5, BatchStays DEF StartCeremony, batchVars
<1>6. CASE \E file \in pending : WritePrivateShare(file)
  BY <1>6, BatchStays DEF WritePrivateShare, batchVars
<1>7. CASE CrashCeremony
  BY <1>7, BatchStays DEF CrashCeremony, batchVars
<1>8. CASE \E i \in Trustees : CreateShare(i)
  BY <1>8, BatchStays DEF CreateShare, batchVars
<1>9. CASE \E i, other \in Trustees : i # other /\ MisnumberShare(i, other)
  BY <1>9, BatchStays DEF MisnumberShare, batchVars
<1>10. CASE \E i \in Trustees, c \in Candidates : AlterShare(i, c)
  BY <1>10, BatchStays DEF AlterShare, batchVars
<1>11. CASE \E slots \in SlotLists, threshold \in 1..scenario.maxFiles :
              BuildTallyResult(slots, threshold)
  BY <1>11, BatchStays DEF BuildTallyResult, batchVars
<1>12. CASE \E ceremony \in scenario.ceremonies : FinalizeProofCompatible(ceremony)
  BY <1>12, BatchStays DEF FinalizeProofCompatible, batchVars
<1>13. CASE \E slots \in SlotLists : FinalizeEligible(slots)
  BY <1>13, BatchStays DEF FinalizeEligible, batchVars
<1>14. CASE UNCHANGED vars
  BY <1>14, BatchStays DEF vars, batchVars
<1>15. QED
  BY <1>1, <1>2, <1>3, <1>4, <1>5, <1>6, <1>7, <1>8, <1>9, <1>10, <1>11, <1>12,
     <1>13, <1>14 DEF Next

(* The invariant holds of every election. *)
THEOREM BatchInvariant == Spec => []BatchInv
<1>1. BatchInv /\ [Next]_vars => BatchInv'
  BY BatchNext_Inv
<1>2. QED
  BY BatchInit_Inv, <1>1, PTL DEF Spec

-----------------------------------------------------------------------------
(* What the log counts *)

(* The invariant gives the counts. *)
LEMMA LogInv_CountsOnce == ASSUME BatchInv PROVE LogCountsOnce
<1>1. /\ Len(batches) \in Nat /\ DOMAIN batches = 1..Len(batches)
      /\ \A i \in 1..Len(batches) : Follows(batches[i], NullifiersOf(batches, i - 1))
  BY DEF BatchInv, LogOK, IsList
<1>2. ASSUME NEW i \in 1..Len(batches), NEW j \in 1..Len(batches), i < j
      PROVE  ToSet(batches[i].ballotNullifiers) \cap
             ToSet(batches[j].ballotNullifiers) = {}
  <2>1. i \in 1..j - 1
    BY <1>1, <1>2
  <2>2. ToSet(batches[i].ballotNullifiers) \subseteq NullifiersOf(batches, j - 1)
    BY <2>1 DEF NullifiersOf
  <2>3. QED
    BY <1>1, <2>2 DEF Follows
<1>3. ASSUME NEW i \in 1..Len(batches)
      PROVE  /\ IsInjective(batches[i].ballotNullifiers)
             /\ batches[i].nullifierRoot = nullifierSetRoot(NullifiersUpTo(i))
  <2>1. /\ NullifierList(batches[i].ballotNullifiers)
        /\ Distinct(batches[i].ballotNullifiers)
    BY <1>1 DEF Follows
  <2>2. IsInjective(batches[i].ballotNullifiers)
    BY <2>1 DEF NullifierList, IsList, Distinct, IsInjective
  <2>3. i \in 0..Len(batches) /\ i # 0
    BY <1>1
  <2>4. RootAfter(i) = nullifierSetRoot(NullifiersUpTo(i))
    BY <2>3, LogRoots DEF BatchInv
  <2>5. QED
    BY <2>2, <2>3, <2>4 DEF RootAfter
<1>4. QED
  BY <1>1, <1>2, <1>3 DEF LogCountsOnce

(* Whatever builds failed half way, whatever process was restarted from a  *)
(* stale record and whichever artifacts raced, the log holds each          *)
(* nullifier once, and its roots are those of the nullifiers it holds.     *)
THEOREM LogAlwaysCountsOnce == Spec => []LogCountsOnce
<1>1. BatchInv => LogCountsOnce
  BY LogInv_CountsOnce
<1>2. QED
  BY BatchInvariant, <1>1, PTL

(* The nullifiers of a version 3 artifact are those of its voters.         *)
LEMMA ArtifactNullifiers ==
  ASSUME BatchInv, version = 3, NEW a \in artifacts
  PROVE  /\ Len(a.list) \in Nat
         /\ DOMAIN a.list = 1..Len(a.list)
         /\ \A i \in 1..Len(a.list) :
              ballots[a.list[i]] \in Ballot
         /\ Len(a.manifest.ballotNullifiers) = Len(a.list)
         /\ \A i \in 1..Len(a.list) :
              a.manifest.ballotNullifiers[i]
                = NullifierOf[<<scenario.election, ballots[a.list[i]].position>>]
<1>1. scenario \in Scenarios /\ ArtifactOK(a)
  BY DEF BatchInv
<1>2. IsList(a.list) /\ \A i \in 1..Len(a.list) : a.list[i] \in DOMAIN ballots
  BY <1>1 DEF ArtifactOK
<1>3. PICK q : ManifestOf(a.manifest, version, scenario.election, Stored(a.list), q)
  BY <1>1 DEF ArtifactOK
<1> DEFINE list == a.list
           bn == Nullifiers(Stored(list))
<1>4. /\ Len(list) \in Nat /\ DOMAIN list = 1..Len(list)
      /\ DOMAIN Stored(list) = 1..Len(list)
      /\ \A i \in 1..Len(list) :
           Stored(list)[i] = StoredPackage(version, ballots[list[i]])
      /\ Len(bn) = Len(list)
      /\ \A i \in 1..Len(list) : bn[i] = Stored(list)[i].package.ballotNullifier
  BY <1>1, <1>2, StoredIs DEF IsList
<1>5. /\ a.manifest.ballotNullifiers = bn
      /\ \A i \in DOMAIN Stored(list) :
           /\ validateEligibleVotePackage(Stored(list)[i].package)
           /\ Stored(list)[i].package.electionId = scenario.election
  BY <1>3 DEF ManifestOf, Valid
<1>6. \A i \in 1..Len(list) : ballots[list[i]] \in Ballot
  BY <1>1, <1>2, ScenarioAssumption DEF ballots
<1> HIDE DEF bn, list
<1>7. ASSUME NEW i \in 1..Len(list)
      PROVE  bn[i] = NullifierOf[<<scenario.election, ballots[list[i]].position>>]
  <2> DEFINE p == StoredPackage(version, ballots[list[i]]).package
  <2>1. p = Stored(list)[i].package
    BY <1>4
  <2>2. validateEligibleVotePackage(p) /\ p.electionId = scenario.election
    BY <1>4, <1>5, <2>1
  <2>3. version \in 1..3 /\ ballots[list[i]] \in Ballot
    BY <1>6
  <2>4. p.ballotNullifier = NullifierOf[<<p.electionId, ballots[list[i]].position>>]
    BY <2>2, <2>3, PackageNullifier
  <2>5. QED
    BY <1>4, <2>1, <2>2, <2>4
<1>8. QED
  BY <1>4, <1>5, <1>6, <1>7 DEF list, bn

(* A list whose members' images are all different has as many images.      *)
LEMMA DistinctImages ==
  ASSUME NEW n \in Nat, NEW f, DOMAIN f = 1..n,
         \A i, j \in 1..n : f[i] = f[j] => i = j
  PROVE  Cardinality({f[i] : i \in 1..n}) = n
<1> DEFINE T == {f[i] : i \in 1..n}
           g == [i \in 1..n |-> f[i]]
<1>1. g \in Bijection(1..n, T)
  BY DEF Bijection, Injection, Surjection, IsInjective
<1>2. QED
  <2>1. \E h : h \in Bijection(1..n, T)
    BY <1>1
  <2> HIDE DEF g, T
  <2>2. ExistsBijection(1..n, T)
    BY <2>1 DEF ExistsBijection
  <2>3. Cardinality(T) = n
    BY <2>2, FS_CountingElements
  <2>4. QED
    BY <2>3 DEF T

(* The invariant gives one vote for each credential. *)
LEMMA LogInv_OneVote == ASSUME BatchInv PROVE OneVotePerCredential
<1>1. SUFFICES ASSUME version = 3,
                      NEW i \in DOMAIN batches, NEW j \in DOMAIN batches,
                      NEW a \in artifacts, NEW b \in artifacts,
                      a.manifest = batches[i], b.manifest = batches[j]
               PROVE  /\ Cardinality(VotersIn(a)) = Len(a.list)
                      /\ i # j => VotersIn(a) \cap VotersIn(b) = {}
  BY DEF OneVotePerCredential
<1>2. DOMAIN batches = 1..Len(batches) /\ Len(batches) \in Nat
  BY DEF BatchInv, LogOK, IsList
<1> DEFINE Voter(art, k) == ballots[art.list[k]].position
           Nullifier(art, k) == art.manifest.ballotNullifiers[k]
<1>3. ASSUME NEW art \in {a, b}
      PROVE  /\ Len(art.list) \in Nat
             /\ VotersIn(art) = {Voter(art, k) : k \in 1..Len(art.list)}
             /\ Len(art.manifest.ballotNullifiers) = Len(art.list)
             /\ \A k \in 1..Len(art.list) :
                  Nullifier(art, k)
                    = NullifierOf[<<scenario.election, Voter(art, k)>>]
  <2>1. art \in artifacts
    BY <1>1
  <2>2. /\ Len(art.list) \in Nat /\ DOMAIN art.list = 1..Len(art.list)
        /\ Len(art.manifest.ballotNullifiers) = Len(art.list)
        /\ \A k \in 1..Len(art.list) :
             Nullifier(art, k) = NullifierOf[<<scenario.election, Voter(art, k)>>]
    BY <1>1, <2>1, ArtifactNullifiers
  <2>3. VotersIn(art) = {Voter(art, k) : k \in 1..Len(art.list)}
    BY <2>2 DEF VotersIn, ToSet
  <2>4. QED
    BY <2>2, <2>3
<1>4. LogCountsOnce
  BY LogInv_CountsOnce
<1>5. Cardinality(VotersIn(a)) = Len(a.list)
  <2> DEFINE n == Len(a.list)
             f == [k \in 1..n |-> Voter(a, k)]
  <2>1. Distinct(a.manifest.ballotNullifiers)
    BY <1>1, <1>2 DEF BatchInv, LogOK, Follows
  <2>2. ASSUME NEW k \in 1..n, NEW l \in 1..n, f[k] = f[l] PROVE k = l
    <3>1. Voter(a, k) = Voter(a, l)
      BY <2>2
    <3>2. Nullifier(a, k) = Nullifier(a, l)
      BY <1>3, <3>1
    <3>3. QED
      BY <1>3, <2>1, <3>2 DEF Distinct
  <2>3. n \in Nat /\ DOMAIN f = 1..n
    BY <1>3
  <2>4. {f[k] : k \in 1..n} = VotersIn(a)
    BY <1>3
  <2> HIDE DEF f, n
  <2>5. Cardinality({f[k] : k \in 1..n}) = n
    BY <2>2, <2>3, DistinctImages
  <2>6. QED
    BY <2>4, <2>5 DEF n
<1>6. ASSUME i # j PROVE VotersIn(a) \cap VotersIn(b) = {}
  <2>1. ToSet(a.manifest.ballotNullifiers) \cap
        ToSet(b.manifest.ballotNullifiers) = {}
    <3>1. i < j \/ j < i
      BY <1>2, <1>6
    <3>2. QED
      BY <1>1, <1>4, <3>1 DEF LogCountsOnce
  <2>2. SUFFICES ASSUME NEW k \in 1..Len(a.list), NEW l \in 1..Len(b.list),
                        Voter(a, k) = Voter(b, l)
                 PROVE  FALSE
    BY <1>3
  <2>3. Nullifier(a, k) = Nullifier(b, l)
    BY <1>3, <2>2
  <2>4. /\ DOMAIN a.manifest.ballotNullifiers = 1..Len(a.list)
        /\ DOMAIN b.manifest.ballotNullifiers = 1..Len(b.list)
    BY <1>1, <1>2, <1>3 DEF BatchInv, LogOK, Follows, NullifierList, IsList
  <2>5. QED
    BY <2>1, <2>3, <2>4 DEF ToSet
<1>7. QED
  BY <1>5, <1>6

(* In the whole version 3 log a credential of the roll is counted once,    *)
(* however many packages, in whatever encodings, its holder made.          *)
THEOREM CredentialsVoteOnce == Spec => []OneVotePerCredential
<1>1. BatchInv => OneVotePerCredential
  BY LogInv_OneVote
<1>2. QED
  BY BatchInvariant, <1>1, PTL

-----------------------------------------------------------------------------
(* Receipts *)

(* Where a ciphertext's randomness shows: at its ballot's coordinate.      *)
Marked(points, id) ==
  \A c \in Candidates, x \in BallotIds : points[c][x] # 0 <=> x = id

(* A public key shows its private key at the generator's coordinate.       *)
LEMMA KeyAtZero ==
  ASSUME NEW b \in Ballot
  PROVE  PublicKeyOf(b)[0] = b.privateKey
<1>1. b.privateKey \in 1..Order - 1 /\ Order \in Nat \ {0, 1}
  BY GroupAssumption DEF Ballot
<1>2. modOrder(b.privateKey) = b.privateKey
  BY <1>1 DEF modOrder
<1>3. Base[0] = 1 /\ 0 \in DOMAIN Base
  BY DEF Base, Zero
<1>4. PublicKeyOf(b)[0] = modOrder(Base[0] * b.privateKey)
  BY <1>3 DEF PublicKeyOf, Multiply
<1>5. 1 * b.privateKey = b.privateKey
  BY <1>1
<1>6. QED
  BY <1>2, <1>3, <1>4, <1>5

(* Both halves of a fresh ciphertext show their ballot's randomness. *)
LEMMA PairsAreMarked ==
  ASSUME NEW b \in Ballot
  PROVE  LET pairs == Pairs(PublicKeyOf(b), b.choice, b.id)
         IN  Marked(pairs.c1, b.id) /\ Marked(pairs.c2, b.id)
<1> DEFINE id == b.id
           key == PublicKeyOf(b)
           pairs == Pairs(key, b.choice, id)
<1>1. /\ id \in BallotIds /\ b.privateKey \in 1..Order - 1
      /\ Order \in Nat \ {0, 1} /\ BallotIds \subseteq Nat \ {0}
  BY GroupAssumption DEF Ballot
<1>2. \A y \in 0..Order - 1 : modOrder(y) = y
  BY <1>1 DEF modOrder
<1>3. key[0] = b.privateKey
  BY KeyAtZero
<1> DEFINE r == Randomness(id)
<1>4. /\ DOMAIN r = BallotIds \cup {0}
      /\ \A x \in BallotIds : r[x] = IF x = id THEN 1 ELSE 0
  BY <1>1 DEF Randomness, Zero
<1>5. Marked(pairs.c1, id)
  <2>1. \A c \in Candidates : pairs.c1[c] = r
    BY DEF Pairs
  <2> HIDE DEF r, pairs
  <2>2. QED
    BY <1>4, <2>1 DEF Marked
<1> DEFINE masked == Multiply(r, key[0])
<1>6. /\ DOMAIN masked = BallotIds \cup {0}
      /\ \A x \in BallotIds : masked[x] = IF x = id THEN b.privateKey ELSE 0
  <2> HIDE DEF r
  <2>1. DOMAIN masked = BallotIds \cup {0}
    BY <1>4 DEF Multiply
  <2>2. ASSUME NEW x \in BallotIds
        PROVE  masked[x] = IF x = id THEN b.privateKey ELSE 0
    <3>1. masked[x] = modOrder(r[x] * b.privateKey)
      BY <1>3, <1>4 DEF Multiply
    <3>2. 1 * b.privateKey = b.privateKey /\ 0 * b.privateKey = 0
          /\ b.privateKey \in 0..Order - 1 /\ 0 \in 0..Order - 1
      BY <1>1
    <3>3. CASE x = id
      <4>1. r[x] = 1
        BY <1>4, <3>3
      <4>2. QED
        BY <1>2, <3>1, <3>2, <3>3, <4>1
    <3>4. CASE x # id
      <4>1. r[x] = 0
        BY <1>4, <3>4
      <4>2. QED
        BY <1>2, <3>1, <3>2, <3>4, <4>1
    <3>5. QED
      BY <3>3, <3>4
  <2>3. QED
    BY <2>1, <2>2
<1>7. ASSUME NEW c \in Candidates, NEW x \in BallotIds
      PROVE  pairs.c2[c][x] = IF x = id THEN b.privateKey ELSE 0
  <2> DEFINE vote == OneHot(b.choice)[c]
             message == Multiply(Base, vote)
  <2>1. pairs.c2[c] = Add(masked, message)
    BY DEF Pairs
  <2>2. message[x] = 0
    <3>1. Base[x] = 0 /\ x \in DOMAIN Base
      BY <1>1 DEF Base, Zero
    <3>2. message[x] = modOrder(Base[x] * vote)
      BY <3>1 DEF Multiply
    <3>3. vote \in {0, 1}
      BY DEF OneHot
    <3> HIDE DEF vote
    <3>4. 0 * vote = 0 /\ 0 \in 0..Order - 1
      BY <1>1, <3>3
    <3>5. QED
      BY <1>2, <3>1, <3>2, <3>4
  <2> HIDE DEF masked, message
  <2>3. Add(masked, message)[x] = modOrder(masked[x] + message[x])
    BY <1>6 DEF Add
  <2>4. masked[x] + 0 = masked[x] /\ masked[x] \in 0..Order - 1
    BY <1>1, <1>6
  <2>5. QED
    BY <1>2, <1>6, <2>1, <2>2, <2>3, <2>4
<1>8. Marked(pairs.c2, id)
  <2>1. b.privateKey # 0
    BY <1>1
  <2>2. ASSUME NEW c \in Candidates, NEW x \in BallotIds
        PROVE  pairs.c2[c][x] # 0 <=> x = id
    <3> HIDE DEF pairs
    <3>1. QED
      BY <1>7, <2>1
  <2> HIDE DEF pairs
  <2>3. QED
    BY <2>2 DEF Marked
<1>9. QED
  BY <1>5, <1>8

(* A package tells whose it is, swapped ciphertexts or not.                *)
LEMMA PackageMarked ==
  ASSUME NEW b \in Ballot, NEW v \in 1..3
  PROVE  Marked(StoredPackage(v, b).package.ciphertext.c1, b.id)
<1> DEFINE pairs == Pairs(PublicKeyOf(b), b.choice, b.id)
           whole == CASE v = 1 -> VotePackageV1(b)
                      [] v = 2 -> VotePackageV2(b)
                      [] v = 3 -> buildEligibleBallotWitness(b)
           p == StoredPackage(v, b).package
<1>1. b.damage \in {"none", "reencoded", "swapped", "badProof"}
  BY DEF Ballot
<1>2. /\ whole.ciphertext.c1 = pairs.c1
      /\ whole.ciphertext.c2 = pairs.c2
      /\ whole.version = v
      /\ {"ciphertext", "proof", "ballotNullifier"} \subseteq DOMAIN whole
      /\ {"c1", "c2"} \subseteq DOMAIN whole.ciphertext
  <2> HIDE DEF pairs
  <2>1. CASE v = 1
    BY <2>1 DEF VotePackageV1, Extended, encryptBallotSelection, pairs
  <2>2. CASE v = 2
    BY <2>2 DEF VotePackageV2, Extended, encryptProofCompatibleBallot, pairs
  <2>3. CASE v = 3
    BY <2>3 DEF buildEligibleBallotWitness, Extended,
                encryptProofCompatibleBallot, pairs
  <2>4. QED
    BY <2>1, <2>2, <2>3
<1>3. p = Damaged(b.damage, whole)
  BY DEF StoredPackage
<1> HIDE DEF p, whole, pairs
<1>4. p.ciphertext.c1 = pairs.c1 \/ p.ciphertext.c1 = pairs.c2
  <2>1. CASE b.damage = "none"
    BY <1>2, <1>3, <2>1 DEF Damaged
  <2>2. CASE b.damage = "reencoded"
    BY <1>2, <1>3, <2>2 DEF Damaged, Reencoded
  <2>3. CASE b.damage = "swapped"
    BY <1>2, <1>3, <2>3 DEF Damaged
  <2>4. CASE b.damage = "badProof"
    BY <1>2, <1>3, <2>4 DEF Damaged
  <2>5. QED
    BY <1>1, <2>1, <2>2, <2>3, <2>4
<1>5. QED
  BY <1>4, PairsAreMarked DEF p, pairs

(* Equal packages are of one ballot. *)
LEMMA PackageNamesBallot ==
  ASSUME NEW v \in 1..3, NEW b \in Ballot, NEW d \in Ballot,
         StoredPackage(v, b).package = StoredPackage(v, d).package
  PROVE  b.id = d.id
<1> DEFINE points == StoredPackage(v, b).package.ciphertext.c1
<1>1. Marked(points, b.id) /\ Marked(points, d.id)
  BY PackageMarked
<1>2. b.choice \in Candidates /\ b.id \in BallotIds
  BY DEF Ballot
<1> HIDE DEF points
<1>3. QED
  BY <1>1, <1>2 DEF Marked

(* What a leaf and a digest tell of a package. *)
LEMMA LeavesTell ==
  ASSUME NEW v \in 1..3, NEW s, NEW t
  PROVE  /\ IsLeaf(LeafOf(v, s))
         /\ LeafOf(v, s) = LeafOf(v, t) =>
              DigestOf(v, s) = DigestOf(v, t)
         /\ DigestOf(v, s) = DigestOf(v, t) => s.package = t.package
<1>1. CASE v = 1
  BY <1>1 DEF LeafOf, DigestOf, hashPackageLeaf, digestVotePackage, IsLeaf,
              zeroHash, hashMerklePair
<1>2. CASE v = 2
  BY <1>2 DEF LeafOf, DigestOf, PackageLeafV2, digestProofCompatibleVotePackage,
              IsLeaf, zeroHash, hashMerklePair
<1>3. CASE v = 3
  BY <1>3 DEF LeafOf, DigestOf, PackageLeafV3, digestEligibleVotePackage,
              IsLeaf, zeroHash, hashMerklePair
<1>4. QED
  BY <1>1, <1>2, <1>3

(* An artifact's leaves and digests are those of its list, and no two of   *)
(* them are equal: they hold different nullifiers.                         *)
LEMMA ArtifactLeaves ==
  ASSUME BatchInv, NEW a \in artifacts
  PROVE  /\ version \in 1..3
         /\ IsList(a.list) /\ Len(a.list) >= 1
         /\ AreLeaves(a.manifest.packageLeafHashes)
         /\ Len(a.manifest.packageLeafHashes) = Len(a.list)
         /\ IsList(a.manifest.packageDigests)
         /\ Distinct(a.manifest.packageDigests)
         /\ Len(a.manifest.packageDigests) = Len(a.list)
         /\ a.manifest.cidMerkleRoot = merkleRoot(a.manifest.packageLeafHashes)
         /\ \A i \in 1..Len(a.list) :
              LET s == StoredPackage(version, ballots[a.list[i]])
              IN  /\ a.list[i] \in DOMAIN ballots
                  /\ a.manifest.packageLeafHashes[i] = LeafOf(version, s)
                  /\ a.manifest.packageDigests[i] = DigestOf(version, s)
<1> DEFINE list == a.list
           n == Len(list)
           stored == Stored(list)
           m == a.manifest
           bn == Nullifiers(stored)
<1>1. scenario \in Scenarios /\ ArtifactOK(a) /\ version \in 1..3
  BY ScenarioAssumption DEF BatchInv, version
<1>2. IsList(list) /\ \A i \in 1..n : list[i] \in DOMAIN ballots
  BY <1>1 DEF ArtifactOK
<1>3. PICK q : /\ ManifestOf(m, version, scenario.election, stored, q)
               /\ Follows(m, q)
  BY <1>1 DEF ArtifactOK
<1>4. /\ n \in Nat /\ DOMAIN stored = 1..n
      /\ \A i \in 1..n : stored[i] = StoredPackage(version, ballots[list[i]])
      /\ Len(bn) = n
      /\ \A i \in 1..n : bn[i] = stored[i].package.ballotNullifier
  BY <1>1, <1>2, StoredIs
<1>5. /\ stored # << >>
      /\ m.packageLeafHashes = [i \in 1..n |-> LeafOf(version, stored[i])]
      /\ m.packageDigests = [i \in 1..n |-> DigestOf(version, stored[i])]
      /\ m.cidMerkleRoot = merkleRoot(m.packageLeafHashes)
      /\ m.ballotNullifiers = bn
      /\ Distinct(bn)
  BY <1>3, <1>4 DEF ManifestOf, Follows
<1>6. n >= 1
  <2>1. SUFFICES ASSUME n = 0 PROVE stored = << >>
    BY <1>4, <1>5
  <2>2. stored = [i \in 1..n |-> stored[i]]
    BY <1>4 DEF Stored
  <2> HIDE DEF stored, n
  <2>3. QED
    BY <2>1, <2>2
<1> DEFINE leaves == m.packageLeafHashes
           digests == m.packageDigests
<1> HIDE DEF m, stored, n, bn, list
<1>7. /\ IsList(leaves) /\ Len(leaves) = n
      /\ \A i \in 1..n : leaves[i] = LeafOf(version, stored[i])
  <2>1. leaves = [i \in 1..n |-> leaves[i]]
    BY <1>5
  <2>2. QED
    BY <1>4, <1>5, <2>1, ListOfLength
<1>8. /\ IsList(digests) /\ Len(digests) = n
      /\ \A i \in 1..n : digests[i] = DigestOf(version, stored[i])
  <2>1. digests = [i \in 1..n |-> digests[i]]
    BY <1>5
  <2>2. QED
    BY <1>4, <1>5, <2>1, ListOfLength
<1>9. Distinct(digests)
  <2>1. SUFFICES ASSUME NEW i \in 1..n, NEW j \in 1..n, digests[i] = digests[j]
                 PROVE  i = j
    BY <1>8 DEF Distinct
  <2>2. stored[i].package = stored[j].package
    BY <1>1, <1>8, <2>1, LeavesTell
  <2>3. bn[i] = bn[j]
    BY <1>4, <2>2
  <2>4. QED
    BY <1>4, <1>5, <2>3 DEF Distinct
<1>10. AreLeaves(leaves)
  <2>1. \A i \in 1..n : IsLeaf(leaves[i])
    BY <1>1, <1>7, LeavesTell
  <2>2. ASSUME NEW i \in 1..n, NEW j \in 1..n, leaves[i] = leaves[j]
        PROVE  i = j
    <3>1. LeafOf(version, stored[i]) = LeafOf(version, stored[j])
      BY <1>7, <2>2
    <3>2. DigestOf(version, stored[i]) = DigestOf(version, stored[j])
      BY <1>1, <3>1, LeavesTell
    <3>3. digests[i] = digests[j]
      BY <1>8, <3>2
    <3>4. QED
      BY <1>8, <1>9, <3>3 DEF Distinct
  <2>3. Distinct(leaves)
    BY <1>7, <2>2 DEF Distinct
  <2>4. QED
    BY <1>7, <2>1, <2>3 DEF AreLeaves
<1>11. ASSUME NEW i \in 1..n
       PROVE  LET s == StoredPackage(version, ballots[list[i]])
              IN  /\ list[i] \in DOMAIN ballots
                  /\ leaves[i] = LeafOf(version, s)
                  /\ digests[i] = DigestOf(version, s)
  BY <1>2, <1>4, <1>7, <1>8
<1>12. QED
  BY <1>1, <1>2, <1>5, <1>6, <1>7, <1>8, <1>9, <1>10, <1>11 DEF m, n, list

(* Artifacts of equal digests have equal lists, so equal leaves; and of    *)
(* equal leaves, equal digests.                                            *)
LEMMA DigestsNameLeaves ==
  ASSUME BatchInv, NEW a \in artifacts, NEW b \in artifacts
  PROVE  a.manifest.packageDigests = b.manifest.packageDigests
           <=> a.manifest.packageLeafHashes = b.manifest.packageLeafHashes
<1> DEFINE A == a.manifest
           B == b.manifest
           n == Len(a.list)
           S(x) == StoredPackage(version, ballots[x])
<1>1. /\ version \in 1..3
      /\ IsList(A.packageLeafHashes) /\ Len(A.packageLeafHashes) = n
      /\ IsList(A.packageDigests) /\ Len(A.packageDigests) = n
      /\ \A i \in 1..n : /\ a.list[i] \in DOMAIN ballots
                         /\ A.packageLeafHashes[i] = LeafOf(version, S(a.list[i]))
                         /\ A.packageDigests[i] = DigestOf(version, S(a.list[i]))
  BY ArtifactLeaves DEF AreLeaves
<1>2. /\ IsList(B.packageLeafHashes) /\ Len(B.packageLeafHashes) = Len(b.list)
      /\ IsList(B.packageDigests) /\ Len(B.packageDigests) = Len(b.list)
      /\ \A i \in 1..Len(b.list) :
            /\ b.list[i] \in DOMAIN ballots
            /\ B.packageLeafHashes[i] = LeafOf(version, S(b.list[i]))
            /\ B.packageDigests[i] = DigestOf(version, S(b.list[i]))
  BY ArtifactLeaves DEF AreLeaves
<1>3. \A x \in DOMAIN ballots : ballots[x] \in Ballot /\ ballots[x].id = x
  BY ScenarioAssumption DEF BatchInv, ballots
<1> HIDE DEF A, B, n, S
<1>4. ASSUME A.packageDigests = B.packageDigests
      PROVE  A.packageLeafHashes = B.packageLeafHashes
  <2>1. Len(b.list) = n
    BY <1>1, <1>2, <1>4
  <2>2. ASSUME NEW i \in 1..n
        PROVE  A.packageLeafHashes[i] = B.packageLeafHashes[i]
    <3>1. DigestOf(version, S(a.list[i])) = DigestOf(version, S(b.list[i]))
      BY <1>1, <1>2, <1>4, <2>1
    <3>2. S(a.list[i]).package = S(b.list[i]).package
      BY <1>1, <3>1, LeavesTell
    <3>3. ballots[a.list[i]].id = ballots[b.list[i]].id
      BY <1>1, <1>2, <1>3, <2>1, <3>2, PackageNamesBallot DEF S
    <3>4. a.list[i] = b.list[i]
      BY <1>1, <1>2, <1>3, <2>1, <3>3
    <3>5. QED
      BY <1>1, <1>2, <2>1, <3>4
  <2>3. QED
    BY <1>1, <1>2, <2>1, <2>2 DEF IsList
<1>5. ASSUME A.packageLeafHashes = B.packageLeafHashes
      PROVE  A.packageDigests = B.packageDigests
  <2>1. Len(b.list) = n
    BY <1>1, <1>2, <1>5
  <2>2. ASSUME NEW i \in 1..n
        PROVE  A.packageDigests[i] = B.packageDigests[i]
    <3>1. LeafOf(version, S(a.list[i])) = LeafOf(version, S(b.list[i]))
      BY <1>1, <1>2, <1>5, <2>1
    <3>2. QED
      BY <1>1, <1>2, <2>1, <3>1, LeavesTell
  <2>3. QED
    BY <1>1, <1>2, <2>1, <2>2 DEF IsList
<1>6. QED
  BY <1>4, <1>5 DEF A, B

(* The invariant makes receipts sound. *)
LEMMA LogInv_Receipts == ASSUME BatchInv PROVE ReceiptsSound
<1>1. SUFFICES ASSUME NEW a \in artifacts, NEW i \in DOMAIN batches,
                      NEW d \in ToSet(a.manifest.packageDigests)
               PROVE  \E receipt \in buildInclusionReceipt(a.manifest, d) :
                        verifyMerkleProof(receipt.leafHash, receipt.proof,
                                          batches[i].cidMerkleRoot)
                          <=> a.manifest.packageDigests = batches[i].packageDigests
  BY DEF ReceiptsSound
<1> DEFINE m == a.manifest
           leaves == m.packageLeafHashes
           digests == m.packageDigests
<1>2. PICK b \in artifacts : batches[i] = b.manifest
  <2>1. DOMAIN batches = 1..Len(batches)
    BY DEF BatchInv, LogOK, IsList
  <2>2. QED
    BY <1>1, <2>1 DEF BatchInv, LogOK
<1>3. /\ AreLeaves(leaves) /\ IsList(leaves) /\ Distinct(leaves)
      /\ IsList(digests) /\ Distinct(digests)
      /\ Len(leaves) = Len(digests) /\ Len(digests) \in Nat
      /\ DOMAIN digests = 1..Len(digests)
  BY ArtifactLeaves DEF AreLeaves, IsList
<1>4. PICK k \in 1..Len(digests) : digests[k] = d
  BY <1>1, <1>3 DEF ToSet
<1> DEFINE receipt == [leafHash  |-> leaves[k],
                       leafIndex |-> k - 1,
                       proof     |-> merkleProof(leaves, k - 1)]
<1>5. receipt \in buildInclusionReceipt(m, d)
  <2>1. \A j \in 1..k - 1 : digests[j] # d
    <3>1. SUFFICES ASSUME NEW j \in 1..k - 1, digests[j] = d PROVE FALSE
      OBVIOUS
    <3>2. j \in 1..Len(digests) /\ j # k
      BY <1>3
    <3>3. QED
      BY <1>3, <1>4, <3>1, <3>2 DEF Distinct
  <2>2. k \in {x \in DOMAIN digests :
                 digests[x] = d /\ \A j \in 1..x - 1 : digests[j] # d}
    BY <1>3, <1>4, <2>1
  <2>3. QED
    BY <2>2 DEF buildInclusionReceipt
<1>6. ProofRoot(receipt.leafHash, receipt.proof) = merkleRoot(leaves)
  BY <1>3, ProofsReachRoot
<1>7. /\ b.manifest.cidMerkleRoot = merkleRoot(b.manifest.packageLeafHashes)
      /\ AreLeaves(b.manifest.packageLeafHashes)
  BY ArtifactLeaves
<1>8. merkleRoot(leaves) = merkleRoot(b.manifest.packageLeafHashes)
        <=> leaves = b.manifest.packageLeafHashes
  BY <1>3, <1>7, RootOneToOne
<1>9. digests = b.manifest.packageDigests <=> leaves = b.manifest.packageLeafHashes
  BY DigestsNameLeaves
<1> HIDE DEF receipt
<1>10. verifyMerkleProof(receipt.leafHash, receipt.proof, batches[i].cidMerkleRoot)
         <=> m.packageDigests = batches[i].packageDigests
  BY <1>2, <1>6, <1>7, <1>8, <1>9 DEF verifyMerkleProof
<1>11. QED
  BY <1>5, <1>10

(* A receipt of any artifact verifies against a committed root exactly     *)
(* when the committed batch has the artifact's packages.                   *)
THEOREM ReceiptsAlwaysSound == Spec => []ReceiptsSound
<1>1. BatchInv => ReceiptsSound
  BY LogInv_Receipts
<1>2. QED
  BY BatchInvariant, <1>1, PTL

-----------------------------------------------------------------------------
(* Tallying the log *)

(* One round of the loop over the accepted batches. *)
Round(v, input, i, r) ==
  IF r.ok THEN ReplayBatch(v, input, r, input.batches[i]) ELSE r

IsRun(g, v, input, m) ==
  g = [i \in 0..m |-> IF i = 0 THEN [accumulator |-> input.known, ok |-> TRUE]
                               ELSE Round(v, input, i, g[i - 1])]

(* The recursive function of rounds exists. *)
LEMMA RunExists ==
  ASSUME NEW v, NEW input, NEW m \in Nat
  PROVE  \E g : IsRun(g, v, input, m)
<1> DEFINE start == [accumulator |-> input.known, ok |-> TRUE]
           Bad == {k \in Nat : ~ \E g : IsRun(g, v, input, k)}
<1>1. SUFFICES ASSUME Bad # {} PROVE FALSE
  OBVIOUS
<1>2. PICK k \in Bad : \A j \in Bad : k <= j
  <2>1. Bad \in SUBSET Nat
    OBVIOUS
  <2> HIDE DEF Bad
  <2>2. QED
    BY <1>1, <2>1, LeastNatural
<1>3. CASE k = 0
  <2> DEFINE g == [n \in 0..0 |-> start]
  <2> HIDE DEF start
  <2>1. g = [n \in 0..0 |-> IF n = 0 THEN start ELSE Round(v, input, n, g[n - 1])]
    OBVIOUS
  <2>2. IsRun(g, v, input, 0)
    BY <2>1 DEF IsRun, start
  <2>3. QED
    BY <1>2, <1>3, <2>2
<1>4. CASE k # 0
  <2>1. k - 1 \in Nat /\ k - 1 \notin Bad
    BY <1>2, <1>4
  <2>2. PICK f : IsRun(f, v, input, k - 1)
    BY <2>1
  <2> DEFINE g == [n \in 0..k |-> IF n = k THEN Round(v, input, k, f[k - 1])
                                           ELSE f[n]]
  <2> HIDE DEF start
  <2>3. \A n \in 0..k - 1 :
          f[n] = IF n = 0 THEN start ELSE Round(v, input, n, f[n - 1])
    BY <2>2 DEF IsRun, start
  <2>4. ASSUME NEW n \in 0..k
        PROVE  g[n] = IF n = 0 THEN start ELSE Round(v, input, n, g[n - 1])
    <3>1. CASE n = k
      BY <1>4, <3>1
    <3>2. CASE n # k
      <4>1. n \in 0..k - 1
        BY <3>2
      <4>2. g[n] = f[n] /\ (n # 0 => g[n - 1] = f[n - 1])
        BY <3>2
      <4>3. QED
        BY <2>3, <4>1, <4>2
    <3>3. QED
      BY <3>1, <3>2
  <2>5. g = [n \in 0..k |-> g[n]]
    OBVIOUS
  <2> HIDE DEF g
  <2>6. g = [n \in 0..k |-> IF n = 0 THEN start ELSE Round(v, input, n, g[n - 1])]
    BY <2>4, <2>5
  <2>7. IsRun(g, v, input, k)
    BY <2>6 DEF IsRun, start
  <2>8. QED
    BY <1>2, <2>7
<1>5. QED
  BY <1>3, <1>4

(* The replay is the last round. *)
LEMMA ReplayIs ==
  ASSUME NEW v, NEW input, Len(input.batches) \in Nat
  PROVE  \E g : /\ g[0] = [accumulator |-> input.known, ok |-> TRUE]
                /\ \A i \in 1..Len(input.batches) :
                     g[i] = Round(v, input, i, g[i - 1])
                /\ Replay(v, input) = g[Len(input.batches)].ok
<1> DEFINE m == Len(input.batches)
           start == [accumulator |-> input.known, ok |-> TRUE]
           g == CHOOSE f : IsRun(f, v, input, m)
<1>1. Replay(v, input) = g[m].ok
  BY DEF Replay, IsRun, Round
<1>2. IsRun(g, v, input, m)
  BY RunExists
<1> HIDE DEF g, m, start
<1>3. g = [i \in 0..m |-> IF i = 0 THEN start ELSE Round(v, input, i, g[i - 1])]
  BY <1>2 DEF IsRun, start
<1>4. m \in Nat
  BY DEF m
<1>5. \A i \in 0..m : g[i] = IF i = 0 THEN start ELSE Round(v, input, i, g[i - 1])
  BY <1>3
<1>6. g[0] = start /\ \A i \in 1..m : g[i] = Round(v, input, i, g[i - 1])
  BY <1>4, <1>5
<1>7. QED
  BY <1>1, <1>6 DEF m, start

(* The artifact the whole log takes for a batch, and its list. *)
SourceOf(i) == CHOOSE a \in artifacts : a.manifest = batches[i]

LEMMA SourceIs ==
  ASSUME BatchInv, NEW i \in 1..Len(batches)
  PROVE  /\ SourceOf(i) \in artifacts
         /\ SourceOf(i).manifest = batches[i]
         /\ ListOf(batches[i]) = SourceOf(i).list
<1>1. \E a \in artifacts : a.manifest = batches[i]
  BY DEF BatchInv, LogOK
<1>2. QED
  BY <1>1 DEF SourceOf, ListOf

(* What the whole log gives the tally operator. *)
LEMMA WholeLogIs ==
  ASSUME BatchInv
  PROVE  /\ Len(batches) \in Nat /\ DOMAIN batches = 1..Len(batches)
         /\ Len(WholeLog.batches) = Len(batches)
         /\ DOMAIN WholeLog.batches = 1..Len(batches)
         /\ WholeLog.electionId = scenario.election
         /\ WholeLog.candidateListHash = scenario.candidateList
         /\ WholeLog.eligibilityRoot = eligibilityRoot
         /\ WholeLog.known = {}
         /\ \A i \in 1..Len(batches) :
              /\ WholeLog.batches[i].artifact = batches[i]
              /\ WholeLog.batches[i].packages = Stored(ListOf(batches[i]))
<1> DEFINE n == Len(batches)
           entries == [i \in DOMAIN batches |->
                         [artifact |-> SourceOf(i), list |-> ListOf(batches[i])]]
           input == TallyInput(entries, {})
<1>1. n \in Nat /\ DOMAIN batches = 1..n
  BY DEF BatchInv, LogOK, IsList
<1>2. WholeLog = input
  BY DEF WholeLog, SourceOf
<1>3. /\ input.electionId = scenario.election
      /\ input.candidateListHash = scenario.candidateList
      /\ input.eligibilityRoot = eligibilityRoot
      /\ input.known = {}
      /\ input.batches = [i \in DOMAIN entries |->
                            [artifact |-> entries[i].artifact.manifest,
                             packages |-> Stored(entries[i].list)]]
  <2> HIDE DEF entries
  <2>1. QED
    BY DEF TallyInput
<1>4. DOMAIN entries = 1..n
  BY <1>1
<1>5. \A i \in 1..n : /\ entries[i].artifact = SourceOf(i)
                      /\ entries[i].list = ListOf(batches[i])
  BY <1>1
<1> HIDE DEF entries, input, n
<1>6. /\ input.batches = [i \in 1..n |-> input.batches[i]]
      /\ \A i \in 1..n :
           /\ input.batches[i].artifact = SourceOf(i).manifest
           /\ input.batches[i].packages = Stored(ListOf(batches[i]))
  BY <1>3, <1>4, <1>5
<1>7. Len(input.batches) = n /\ DOMAIN input.batches = 1..n
  BY <1>1, <1>6, ListOfLength
<1>8. \A i \in 1..n : SourceOf(i).manifest = batches[i]
  BY SourceIs DEF n
<1>9. QED
  BY <1>1, <1>2, <1>3, <1>6, <1>7, <1>8 DEF n

(* Replayed from its beginning, every batch of the log is rebuilt from the *)
(* nullifiers of those before it, and matches.                             *)
LEMMA LogReplays ==
  ASSUME BatchInv
  PROVE  Replay(version, WholeLog)
<1> DEFINE n == Len(batches)
           at(i) == [accumulator |-> NullifiersOf(batches, i), ok |-> TRUE]
<1>1. /\ n \in Nat /\ Len(WholeLog.batches) = n
      /\ WholeLog.electionId = scenario.election
      /\ WholeLog.eligibilityRoot = eligibilityRoot
      /\ WholeLog.known = {}
      /\ \A i \in 1..n :
           /\ WholeLog.batches[i].artifact = batches[i]
           /\ WholeLog.batches[i].packages = Stored(ListOf(batches[i]))
  BY WholeLogIs
<1>2. PICK g : /\ g[0] = [accumulator |-> WholeLog.known, ok |-> TRUE]
               /\ \A i \in 1..n : g[i] = Round(version, WholeLog, i, g[i - 1])
               /\ Replay(version, WholeLog) = g[n].ok
  <2> HIDE DEF n, at
  <2>1. Len(WholeLog.batches) \in Nat
    BY <1>1
  <2>2. \E g : /\ g[0] = [accumulator |-> WholeLog.known, ok |-> TRUE]
               /\ \A i \in 1..Len(WholeLog.batches) :
                    g[i] = Round(version, WholeLog, i, g[i - 1])
               /\ Replay(version, WholeLog) = g[Len(WholeLog.batches)].ok
    BY <2>1, ReplayIs
  <2>3. QED
    BY <1>1, <2>2
<1>3. g[0] = at(0)
  BY <1>1, <1>2, NullifiersOfGrow
<1>4. ASSUME NEW i \in 1..n, g[i - 1] = at(i - 1)
      PROVE  g[i] = at(i)
  <2> DEFINE a == SourceOf(i)
             q == NullifiersOf(batches, i - 1)
             m == batches[i]
             rebuilt == BuildManifest(version, scenario.election, eligibilityRoot,
                                      m.previousNullifierRoot, Stored(a.list), q)
  <2>1. a \in artifacts /\ a.manifest = m /\ ListOf(m) = a.list
    BY SourceIs
  <2>2. i - 1 \in Nat /\ (i - 1) + 1 = i
    BY <1>1
  <2>3. Follows(m, q)
    BY DEF BatchInv, LogOK
  <2>4. PICK r : Rebuilds(a, r) /\ Follows(a.manifest, r)
    BY <2>1 DEF BatchInv, ArtifactOK
  <2>5. r = q
    BY <2>1, <2>3, <2>4, NullifierRootOneToOne DEF Follows, FiniteNats
  <2>6. /\ m \in rebuilt.manifests
        /\ rebuilt.accumulator = q \cup ToSet(m.ballotNullifiers)
    BY <2>1, <2>4, <2>5 DEF Rebuilds
  <2>7. rebuilt.accumulator = NullifiersOf(batches, i)
    BY <2>2, <2>6, NullifiersOfGrow
  <2>8. g[i] = ReplayBatch(version, WholeLog, at(i - 1), WholeLog.batches[i])
    BY <1>2, <1>4 DEF Round
  <2>9. at(i - 1).accumulator = q
    OBVIOUS
  <2> HIDE DEF rebuilt, at, q, m, a
  <2>10. ReplayBatch(version, WholeLog, at(i - 1), WholeLog.batches[i])
           = [accumulator |-> rebuilt.accumulator,
              ok          |-> Matches(m, rebuilt.manifests)]
    BY <1>1, <2>1, <2>9 DEF ReplayBatch, rebuilt, m
  <2>11. Matches(m, rebuilt.manifests) = TRUE
    BY <2>6 DEF Matches
  <2>12. g[i] = [accumulator |-> NullifiersOf(batches, i), ok |-> TRUE]
    BY <2>7, <2>8, <2>10, <2>11
  <2>13. QED
    BY <2>12 DEF at
<1> DEFINE Bad == {i \in 0..n : g[i] # at(i)}
<1>5. Bad = {}
  <2> HIDE DEF at
  <2>1. SUFFICES ASSUME Bad # {} PROVE FALSE
    OBVIOUS
  <2>2. PICK i \in Bad : \A j \in Bad : i <= j
    <3>1. Bad \in SUBSET Nat
      BY <1>1
    <3> HIDE DEF Bad
    <3>2. QED
      BY <2>1, <3>1, LeastNatural
  <2>3. i \in 1..n
    BY <1>1, <1>3
  <2>4. i - 1 \in 0..n /\ ~ (i <= i - 1)
    BY <1>1, <2>3
  <2>5. g[i - 1] = at(i - 1)
    BY <2>2, <2>4
  <2>6. QED
    BY <1>4, <2>3, <2>5
<1>6. g[n] = at(n)
  <2> HIDE DEF at
  <2>1. n \in 0..n
    BY <1>1
  <2>2. QED
    BY <1>5, <2>1
<1>7. g[n].ok = TRUE
  BY <1>6
<1>8. QED
  BY <1>2, <1>7

(* Every batch of the log replays, so only what the packages say of their  *)
(* candidate list and of their key can block the tally.                    *)

(* One list after another. *)
LEMMA ConcatIs ==
  ASSUME NEW s, NEW t, IsList(s), IsList(t)
  PROVE  /\ IsList(s \o t)
         /\ ToSet(s \o t) = ToSet(s) \cup ToSet(t)
         /\ Distinct(s) /\ Distinct(t) /\ ToSet(s) \cap ToSet(t) = {} =>
              Distinct(s \o t)
<1> DEFINE X == ToSet(s) \cup ToSet(t)
           m == Len(s)
           n == Len(t)
           st == s \o t
<1>1. /\ m \in Nat /\ s = [i \in 1..m |-> s[i]]
      /\ n \in Nat /\ t = [i \in 1..n |-> t[i]]
  BY DEF IsList
<1>2. DOMAIN s = 1..m /\ DOMAIN t = 1..n
  <2> HIDE DEF m, n
  <2>1. QED
    BY <1>1
<1>3. /\ \A i \in 1..m : s[i] \in X
      /\ \A i \in 1..n : t[i] \in X
  BY <1>2 DEF ToSet
<1>4. s \in Seq(X) /\ t \in Seq(X)
  <2> HIDE DEF X, m, n
  <2>1. s \in [1..m -> X] /\ t \in [1..n -> X]
    BY <1>1, <1>3
  <2>2. QED
    BY <1>1, <2>1
<1> HIDE DEF X
<1>5. /\ st \in Seq(X) /\ Len(st) = m + n
      /\ \A i \in 1..m : st[i] = s[i]
      /\ \A i \in 1..m + n : i > m => st[i] = t[i - m]
  BY <1>4
<1>6. DOMAIN st = 1..m + n
  BY <1>5
<1>7. IsList(st)
  <2>1. st = [i \in 1..Len(st) |-> st[i]] /\ Len(st) \in Nat
    <3> HIDE DEF st
    <3>1. QED
      BY <1>5
  <2>2. QED
    BY <2>1 DEF IsList
<1> HIDE DEF m, n, st
<1>8. ToSet(st) \subseteq ToSet(s) \cup ToSet(t)
  <2>1. SUFFICES ASSUME NEW i \in 1..m + n
                 PROVE  st[i] \in ToSet(s) \cup ToSet(t)
    BY <1>6 DEF ToSet
  <2>2. CASE i <= m
    <3>1. i \in 1..m
      BY <1>1, <2>2
    <3>2. QED
      BY <1>2, <1>5, <3>1 DEF ToSet
  <2>3. CASE i > m
    <3>1. i - m \in 1..n
      BY <1>1, <2>3
    <3>2. QED
      BY <1>2, <1>5, <2>3, <3>1 DEF ToSet
  <2>4. QED
    BY <1>1, <2>2, <2>3
<1>9. ToSet(s) \subseteq ToSet(st)
  <2>1. SUFFICES ASSUME NEW i \in 1..m PROVE s[i] \in ToSet(st)
    BY <1>2 DEF ToSet
  <2>2. i \in 1..m + n
    BY <1>1
  <2>3. QED
    BY <1>5, <1>6, <2>2 DEF ToSet
<1>10. ToSet(t) \subseteq ToSet(st)
  <2>1. SUFFICES ASSUME NEW i \in 1..n PROVE t[i] \in ToSet(st)
    BY <1>2 DEF ToSet
  <2>2. m + i \in 1..m + n /\ m + i > m /\ (m + i) - m = i
    BY <1>1
  <2>3. st[m + i] = t[i]
    BY <1>5, <2>2
  <2>4. QED
    BY <1>6, <2>2, <2>3 DEF ToSet
<1>11. ASSUME Distinct(s), Distinct(t), ToSet(s) \cap ToSet(t) = {}
       PROVE  Distinct(st)
  <2>1. SUFFICES ASSUME NEW i \in 1..m + n, NEW j \in 1..m + n, st[i] = st[j]
                 PROVE  i = j
    BY <1>5 DEF Distinct
  <2>2. \A k \in 1..m : s[k] \in ToSet(s)
    BY <1>2 DEF ToSet
  <2>3. \A k \in 1..n : t[k] \in ToSet(t)
    BY <1>2 DEF ToSet
  <2>4. CASE i <= m /\ j <= m
    <3>1. i \in 1..m /\ j \in 1..m
      BY <1>1, <2>4
    <3>2. QED
      BY <1>5, <1>11, <2>1, <3>1 DEF Distinct, m
  <2>5. CASE i <= m /\ j > m
    <3>1. i \in 1..m /\ j - m \in 1..n
      BY <1>1, <2>5
    <3>2. QED
      BY <1>5, <1>11, <2>1, <2>2, <2>3, <2>5, <3>1
  <2>6. CASE i > m /\ j <= m
    <3>1. j \in 1..m /\ i - m \in 1..n
      BY <1>1, <2>6
    <3>2. QED
      BY <1>5, <1>11, <2>1, <2>2, <2>3, <2>6, <3>1
  <2>7. CASE i > m /\ j > m
    <3>1. i - m \in 1..n /\ j - m \in 1..n
      BY <1>1, <2>7
    <3>2. t[i - m] = t[j - m]
      BY <1>5, <2>1, <2>7
    <3>3. i - m = j - m
      BY <1>11, <3>1, <3>2 DEF Distinct, n
    <3>4. QED
      BY <1>1, <3>3
  <2>8. QED
    BY <1>1, <2>4, <2>5, <2>6, <2>7
<1>12. QED
  BY <1>7, <1>8, <1>9, <1>10, <1>11 DEF st

(* The recursive function behind FlattenSeq. *)
IsFlat(g, seqs, m) ==
  g = [i \in 1..m |-> IF i = 1 THEN seqs[i] ELSE g[i - 1] \o seqs[i]]

LEMMA FlatExists ==
  ASSUME NEW seqs, NEW m \in Nat
  PROVE  \E g : IsFlat(g, seqs, m)
<1> DEFINE Bad == {k \in Nat : ~ \E g : IsFlat(g, seqs, k)}
<1>1. SUFFICES ASSUME Bad # {} PROVE FALSE
  OBVIOUS
<1>2. PICK k \in Bad : \A j \in Bad : k <= j
  <2>1. Bad \in SUBSET Nat
    OBVIOUS
  <2> HIDE DEF Bad
  <2>2. QED
    BY <1>1, <2>1, LeastNatural
<1>3. CASE k = 0
  <2> DEFINE g == [n \in 1..0 |-> seqs[n]]
  <2>1. g = [n \in 1..0 |-> IF n = 1 THEN seqs[n] ELSE g[n - 1] \o seqs[n]]
    OBVIOUS
  <2>2. IsFlat(g, seqs, 0)
    BY <2>1 DEF IsFlat
  <2>3. QED
    BY <1>2, <1>3, <2>2
<1>4. CASE k # 0
  <2>1. k - 1 \in Nat /\ k - 1 \notin Bad
    BY <1>2, <1>4
  <2>2. PICK f : IsFlat(f, seqs, k - 1)
    BY <2>1
  <2> DEFINE g == [n \in 1..k |-> IF n = k THEN IF n = 1 THEN seqs[n]
                                                ELSE f[n - 1] \o seqs[n]
                                  ELSE f[n]]
  <2>3. \A n \in 1..k - 1 :
          f[n] = IF n = 1 THEN seqs[n] ELSE f[n - 1] \o seqs[n]
    BY <2>2 DEF IsFlat
  <2>4. ASSUME NEW n \in 1..k
        PROVE  g[n] = IF n = 1 THEN seqs[n] ELSE g[n - 1] \o seqs[n]
    <3>1. CASE n = 1 /\ n = k
      BY <3>1
    <3>2. CASE n = 1 /\ n # k
      <4>1. n \in 1..k - 1
        BY <3>2
      <4>2. QED
        BY <2>3, <3>2, <4>1
    <3>3. CASE n # 1
      <4>1. n - 1 \in 1..k /\ n - 1 # k
        BY <3>3
      <4>2. g[n - 1] = f[n - 1]
        BY <4>1
      <4>3. CASE n = k
        BY <3>3, <4>2, <4>3
      <4>4. CASE n # k
        <5>1. n \in 1..k - 1
          BY <4>4
        <5>2. QED
          BY <2>3, <3>3, <4>2, <4>4, <5>1
      <4>5. QED
        BY <4>3, <4>4
    <3>4. QED
      BY <3>1, <3>2, <3>3
  <2>5. g = [n \in 1..k |-> g[n]]
    OBVIOUS
  <2> HIDE DEF g
  <2>6. g = [n \in 1..k |-> IF n = 1 THEN seqs[n] ELSE g[n - 1] \o seqs[n]]
    BY <2>4, <2>5
  <2>7. IsFlat(g, seqs, k)
    BY <2>6 DEF IsFlat
  <2>8. QED
    BY <1>2, <2>7
<1>5. QED
  BY <1>3, <1>4

(* Flattened, lists are a list of all their members. *)
LEMMA FlattenIs ==
  ASSUME NEW seqs, Len(seqs) \in Nat, Len(seqs) >= 1,
         \A i \in 1..Len(seqs) : IsList(seqs[i])
  PROVE  /\ IsList(FlattenSeq(seqs))
         /\ ToSet(FlattenSeq(seqs))
              = UNION {ToSet(seqs[i]) : i \in 1..Len(seqs)}
         /\ /\ \A i \in 1..Len(seqs) : Distinct(seqs[i])
            /\ \A i, j \in 1..Len(seqs) :
                 i < j => ToSet(seqs[i]) \cap ToSet(seqs[j]) = {}
            => Distinct(FlattenSeq(seqs))
<1> DEFINE m == Len(seqs)
           Apart == /\ \A i \in 1..m : Distinct(seqs[i])
                    /\ \A i, j \in 1..m :
                         i < j => ToSet(seqs[i]) \cap ToSet(seqs[j]) = {}
           g == CHOOSE f : IsFlat(f, seqs, m)
           Members(i) == UNION {ToSet(seqs[k]) : k \in 1..i}
<1>1. FlattenSeq(seqs) = g[m]
  <2>1. ~ (Len(seqs) = 0)
    OBVIOUS
  <2>2. QED
    BY <2>1 DEF FlattenSeq, IsFlat
<1>2. IsFlat(g, seqs, m)
  BY FlatExists
<1> HIDE DEF g, m
<1>3. m \in Nat /\ m >= 1 /\ \A i \in 1..m : IsList(seqs[i])
  BY DEF m
<1>4. \A i \in 1..m : g[i] = IF i = 1 THEN seqs[i] ELSE g[i - 1] \o seqs[i]
  BY <1>2 DEF IsFlat
<1> DEFINE Flat(i) == /\ IsList(g[i]) /\ ToSet(g[i]) = Members(i)
                      /\ Apart => Distinct(g[i])
<1>5. Flat(1)
  <2>1. 1 \in 1..m /\ 1..1 = {1}
    BY <1>3
  <2>2. g[1] = seqs[1]
    BY <1>4, <2>1
  <2>3. Members(1) = ToSet(seqs[1])
    BY <2>1
  <2>4. QED
    BY <1>3, <2>1, <2>2, <2>3
<1>6. ASSUME NEW i \in 1..m, i # 1, Flat(i - 1)
      PROVE  Flat(i)
  <2>1. g[i] = g[i - 1] \o seqs[i]
    BY <1>4, <1>6
  <2>2. /\ IsList(seqs[i]) /\ IsList(g[i - 1]) /\ ToSet(g[i - 1]) = Members(i - 1)
        /\ Apart => Distinct(g[i - 1])
    BY <1>3, <1>6
  <2>3. 1..i = (1..i - 1) \cup {i}
    BY <1>6
  <2>4. Members(i) = Members(i - 1) \cup ToSet(seqs[i])
    BY <2>3
  <2>5. Apart => Distinct(seqs[i]) /\ Members(i - 1) \cap ToSet(seqs[i]) = {}
    <3>1. SUFFICES ASSUME Apart, NEW k \in 1..i - 1
                   PROVE  ToSet(seqs[k]) \cap ToSet(seqs[i]) = {}
      OBVIOUS
    <3>2. k \in 1..m /\ k < i
      BY <1>3, <1>6
    <3>3. QED
      BY <3>1, <3>2
  <2> HIDE DEF Members, Apart
  <2>6. /\ IsList(g[i]) /\ ToSet(g[i]) = Members(i)
        /\ Apart => Distinct(g[i])
    BY <2>1, <2>2, <2>4, <2>5, ConcatIs
  <2>7. QED
    BY <2>6
<1> DEFINE Bad == {i \in 1..m : ~ Flat(i)}
<1>7. Bad = {}
  <2> HIDE DEF Flat
  <2>1. SUFFICES ASSUME Bad # {} PROVE FALSE
    OBVIOUS
  <2>2. PICK i \in Bad : \A j \in Bad : i <= j
    <3>1. Bad \in SUBSET Nat
      BY <1>3
    <3> HIDE DEF Bad
    <3>2. QED
      BY <2>1, <3>1, LeastNatural
  <2>3. i \in 1..m /\ i # 1
    BY <1>5
  <2>4. i - 1 \in 1..m /\ ~ (i <= i - 1)
    BY <1>3, <2>3
  <2>5. Flat(i - 1)
    BY <2>2, <2>4
  <2>6. QED
    BY <1>6, <2>3, <2>5
<1>8. Flat(m)
  <2> HIDE DEF Flat
  <2>1. m \in 1..m
    BY <1>3
  <2>2. QED
    BY <1>7, <2>1
<1>9. QED
  BY <1>1, <1>8 DEF m

(* A package names its voter's candidate list and key, whatever damage.    *)
LEMMA PackageFields ==
  ASSUME NEW b \in Ballot, NEW v \in 1..3
  PROVE  LET p == StoredPackage(v, b).package
         IN  /\ p.candidateListHash = b.candidateList
             /\ p.ciphertext.electionPublicKeyHash
                  = PublicKeyHash(v, PublicKeyOf(b))
<1> DEFINE key == PublicKeyHash(v, PublicKeyOf(b))
           whole == CASE v = 1 -> VotePackageV1(b)
                      [] v = 2 -> VotePackageV2(b)
                      [] v = 3 -> buildEligibleBallotWitness(b)
           p == StoredPackage(v, b).package
<1>1. b.damage \in {"none", "reencoded", "swapped", "badProof"}
  BY DEF Ballot
<1>2. /\ whole.candidateListHash = b.candidateList
      /\ whole.ciphertext.electionPublicKeyHash = key
      /\ whole.version = v
      /\ {"ciphertext", "candidateListHash"} \subseteq DOMAIN whole
      /\ {"c1", "c2", "electionPublicKeyHash"} \subseteq DOMAIN whole.ciphertext
  <2>1. CASE v = 1
    BY <2>1 DEF VotePackageV1, Extended, encryptBallotSelection, PublicKeyHash
  <2>2. CASE v = 2
    BY <2>2 DEF VotePackageV2, Extended, encryptProofCompatibleBallot,
                PublicKeyHash
  <2>3. CASE v = 3
    BY <2>3 DEF buildEligibleBallotWitness, Extended,
                encryptProofCompatibleBallot, PublicKeyHash
  <2>4. QED
    BY <2>1, <2>2, <2>3
<1>3. p = Damaged(b.damage, whole)
  BY DEF StoredPackage
<1> HIDE DEF p, whole, key
<1>4. /\ p.candidateListHash = whole.candidateListHash
      /\ p.ciphertext.electionPublicKeyHash
           = whole.ciphertext.electionPublicKeyHash
  <2>1. CASE b.damage = "none"
    BY <1>2, <1>3, <2>1 DEF Damaged
  <2>2. CASE b.damage = "reencoded"
    BY <1>2, <1>3, <2>2 DEF Damaged, Reencoded
  <2>3. CASE b.damage = "swapped"
    BY <1>2, <1>3, <2>3 DEF Damaged
  <2>4. CASE b.damage = "badProof"
    BY <1>2, <1>3, <2>4 DEF Damaged
  <2>5. QED
    BY <1>1, <2>1, <2>2, <2>3, <2>4
<1>5. QED
  BY <1>2, <1>4 DEF p, key

(* Keys have one hash exactly when they are one key. *)
LEMMA KeysNamed ==
  ASSUME NEW b \in Ballot, NEW d \in Ballot, NEW v
  PROVE  PublicKeyHash(v, PublicKeyOf(b)) = PublicKeyHash(v, PublicKeyOf(d))
           <=> b.privateKey = d.privateKey
<1>1. PublicKeyHash(v, PublicKeyOf(b)) = PublicKeyHash(v, PublicKeyOf(d))
        <=> PublicKeyOf(b) = PublicKeyOf(d)
  BY DEF PublicKeyHash, hashElectionPublicKey,
         hashProofCompatibleElectionPublicKey
<1>2. PublicKeyOf(b)[0] = b.privateKey /\ PublicKeyOf(d)[0] = d.privateKey
  BY KeyAtZero
<1>3. b.privateKey = d.privateKey => PublicKeyOf(b) = PublicKeyOf(d)
  BY DEF PublicKeyOf
<1>4. QED
  BY <1>1, <1>2, <1>3

(* The package of a ballot, and the hash of the key it is encrypted to.    *)
PackageOf(id) == StoredPackage(version, ballots[id]).package

KeyHash(id) == PublicKeyHash(version, PublicKeyOf(ballots[id]))

(* The packages of a batch of the log, and what its manifest says of them. *)
LEMMA LogBatch ==
  ASSUME BatchInv, NEW i \in 1..Len(batches)
  PROVE  LET list == ListOf(batches[i])
         IN  /\ IsList(list) /\ 1 \in DOMAIN list /\ DOMAIN list = 1..Len(list)
             /\ Stored(list) = [j \in 1..Len(list) |->
                                  StoredPackage(version, ballots[list[j]])]
             /\ \A id \in ToSet(list) :
                  /\ id \in DOMAIN ballots /\ ballots[id] \in Ballot
                  /\ version = 3 =>
                       batches[i].candidateListHash = ballots[id].candidateList
                  /\ version # 1 =>
                       batches[i].aggregateCiphertext.electionPublicKeyHash
                         = KeyHash(id)
<1> DEFINE a == SourceOf(i)
           list == a.list
           n == Len(list)
<1>1. a \in artifacts /\ a.manifest = batches[i] /\ ListOf(batches[i]) = list
  BY SourceIs
<1> HIDE DEF a
<1>2. /\ version \in 1..3 /\ IsList(list) /\ n >= 1
      /\ \A j \in 1..n : list[j] \in DOMAIN ballots
  BY <1>1, ArtifactLeaves
<1>3. scenario \in Scenarios /\ ArtifactOK(a)
  BY <1>1 DEF BatchInv
<1>4. PICK q : ManifestOf(a.manifest, version, scenario.election, Stored(list), q)
  BY <1>3 DEF ArtifactOK
<1> HIDE DEF list
<1>5. n \in Nat /\ DOMAIN list = 1..n /\ 1 \in DOMAIN list
  <2>1. Len(list) \in Nat /\ list = [j \in 1..Len(list) |-> list[j]]
    BY <1>2 DEF IsList
  <2> HIDE DEF n
  <2>2. DOMAIN list = 1..Len(list)
    BY <2>1
  <2>3. 1 \in 1..Len(list)
    BY <1>2, <2>1 DEF n
  <2>4. QED
    BY <2>1, <2>2, <2>3 DEF n
<1>6. Stored(list) = [j \in 1..n |-> StoredPackage(version, ballots[list[j]])]
  BY <1>5 DEF Stored
<1> HIDE DEF n
<1>7. ASSUME NEW id \in ToSet(list)
      PROVE  /\ id \in DOMAIN ballots /\ ballots[id] \in Ballot
             /\ version = 3 =>
                  batches[i].candidateListHash = ballots[id].candidateList
             /\ version # 1 =>
                  batches[i].aggregateCiphertext.electionPublicKeyHash
                    = KeyHash(id)
  <2>1. PICK j \in 1..n : list[j] = id
    BY <1>5 DEF ToSet
  <2>2. id \in DOMAIN ballots /\ ballots[id] \in Ballot
    BY <1>2, <1>3, <2>1, ScenarioAssumption DEF ballots, n
  <2>3. /\ j \in DOMAIN Stored(list)
        /\ Stored(list)[j] = StoredPackage(version, ballots[id])
    BY <1>6, <2>1
  <2>4. LET p == Stored(list)[j].package
        IN  /\ p.candidateListHash = ballots[id].candidateList
            /\ p.ciphertext.electionPublicKeyHash = KeyHash(id)
    BY <1>2, <2>2, <2>3, PackageFields DEF KeyHash
  <2>5. /\ version = 3 => Stored(list)[j].package.candidateListHash
                            = a.manifest.candidateListHash
        /\ version # 1 => Stored(list)[j].package.ciphertext.electionPublicKeyHash
                            = a.manifest.aggregateCiphertext.electionPublicKeyHash
    BY <1>4, <2>3, AggregateKey DEF ManifestOf
  <2>6. QED
    BY <1>1, <2>2, <2>4, <2>5
<1>8. QED
  BY <1>1, <1>2, <1>5, <1>6, <1>7 DEF n

(* The ballots in the log are those of its batches. *)
LEMMA LogBallots ==
  ASSUME BatchInv
  PROVE  BallotsIn(batches)
           = UNION {ToSet(ListOf(batches[i])) : i \in 1..Len(batches)}
<1>1. DOMAIN batches = 1..Len(batches)
  BY WholeLogIs
<1>2. ToSet(batches) = {batches[i] : i \in 1..Len(batches)}
  BY <1>1 DEF ToSet
<1>3. QED
  BY <1>2 DEF BallotsIn

(* The packages the tally operator reads: those of the ballots in the log. *)
LEMMA LogPackages ==
  ASSUME BatchInv, Len(batches) >= 1
  PROVE  /\ IsList(Packages(WholeLog))
         /\ ToSet(Packages(WholeLog)) = {PackageOf(id) : id \in BallotsIn(batches)}
<1> DEFINE n == Len(batches)
           list(i) == ListOf(batches[i])
           seqs == [i \in DOMAIN WholeLog.batches |->
                      [j \in DOMAIN WholeLog.batches[i].packages |->
                         WholeLog.batches[i].packages[j].package]]
<1>1. /\ n \in Nat /\ n >= 1 /\ DOMAIN WholeLog.batches = 1..n
      /\ \A i \in 1..n : WholeLog.batches[i].packages = Stored(list(i))
  BY WholeLogIs
<1>2. Packages(WholeLog) = FlattenSeq(seqs)
  BY DEF Packages
<1>3. \A i \in 1..n :
        seqs[i] = [j \in DOMAIN Stored(list(i)) |-> Stored(list(i))[j].package]
  BY <1>1
<1>4. seqs = [i \in 1..n |-> seqs[i]]
  BY <1>1
<1> HIDE DEF seqs, n
<1>5. Len(seqs) = n
  BY <1>1, <1>4, ListOfLength
<1>6. ASSUME NEW i \in 1..n
      PROVE  /\ IsList(seqs[i])
             /\ ToSet(seqs[i]) = {PackageOf(id) : id \in ToSet(list(i))}
  <2> DEFINE l == list(i)
             m == Len(l)
             s == seqs[i]
  <2>1. /\ IsList(l) /\ DOMAIN l = 1..m
        /\ Stored(l) = [j \in 1..m |-> StoredPackage(version, ballots[l[j]])]
    BY LogBatch DEF n
  <2>2. m \in Nat
    BY <2>1 DEF IsList
  <2>3. s = [j \in DOMAIN Stored(l) |-> Stored(l)[j].package]
    BY <1>3
  <2> HIDE DEF s, m, l
  <2>4. s = [j \in 1..m |-> PackageOf(l[j])]
    BY <2>1, <2>3 DEF PackageOf
  <2>5. IsList(s) /\ DOMAIN s = 1..m
    <3>1. s = [j \in 1..m |-> s[j]] /\ DOMAIN s = 1..m
      BY <2>4
    <3>2. QED
      BY <2>2, <3>1, ListOfLength
  <2>6. ToSet(s) = {s[j] : j \in 1..m} /\ ToSet(l) = {l[j] : j \in 1..m}
    BY <2>1, <2>5 DEF ToSet
  <2>7. ToSet(s) = {PackageOf(id) : id \in ToSet(l)}
    BY <2>4, <2>6
  <2>8. QED
    BY <2>5, <2>7 DEF s, l
<1>7. /\ IsList(FlattenSeq(seqs))
      /\ ToSet(FlattenSeq(seqs)) = UNION {ToSet(seqs[i]) : i \in 1..n}
  BY <1>1, <1>5, <1>6, FlattenIs
<1>8. BallotsIn(batches) = UNION {ToSet(list(i)) : i \in 1..n}
  BY LogBallots DEF n
<1> HIDE DEF list
<1>9. UNION {ToSet(seqs[i]) : i \in 1..n}
        = {PackageOf(id) : id \in UNION {ToSet(list(i)) : i \in 1..n}}
  <2>1. ASSUME NEW p, NEW i \in 1..n, p \in ToSet(seqs[i])
        PROVE  \E id \in UNION {ToSet(list(k)) : k \in 1..n} : p = PackageOf(id)
    <3>1. PICK id \in ToSet(list(i)) : p = PackageOf(id)
      BY <1>6, <2>1
    <3>2. id \in UNION {ToSet(list(k)) : k \in 1..n}
      BY <3>1
    <3>3. QED
      BY <3>1, <3>2
  <2>2. ASSUME NEW i \in 1..n, NEW id \in ToSet(list(i))
        PROVE  PackageOf(id) \in UNION {ToSet(seqs[k]) : k \in 1..n}
    <3>1. PackageOf(id) \in ToSet(seqs[i])
      BY <1>6
    <3>2. QED
      BY <3>1
  <2> DEFINE L == UNION {ToSet(seqs[k]) : k \in 1..n}
             U == UNION {ToSet(list(k)) : k \in 1..n}
  <2>3. \A p \in L : \E id \in U : p = PackageOf(id)
    BY <2>1
  <2>4. \A id \in U : PackageOf(id) \in L
    BY <2>2
  <2> HIDE DEF L, U
  <2>5. L = {PackageOf(id) : id \in U}
    BY <2>3, <2>4
  <2>6. QED
    BY <2>5 DEF L, U
<1>10. QED
  BY <1>2, <1>7, <1>8, <1>9

(* What the packages must agree on for the log to be tallied. *)
SameList ==
  \A id \in BallotsIn(batches) :
    ballots[id].candidateList = scenario.candidateList

SameKeys ==
  \A x, y \in BallotsIn(batches) :
    ballots[x].privateKey = ballots[y].privateKey

(* Ballots of the log have one key exactly when their key hashes are one.  *)
LEMMA KeyHashes ==
  ASSUME BatchInv
  PROVE  /\ \A id \in BallotsIn(batches) : ballots[id] \in Ballot
         /\ SameKeys <=> \A x, y \in BallotsIn(batches) : KeyHash(x) = KeyHash(y)
<1>1. ASSUME NEW id \in BallotsIn(batches) PROVE ballots[id] \in Ballot
  <2>1. PICK i \in 1..Len(batches) : id \in ToSet(ListOf(batches[i]))
    BY LogBallots
  <2>2. QED
    BY <2>1, LogBatch
<1>2. \A x, y \in BallotsIn(batches) :
        KeyHash(x) = KeyHash(y) <=> ballots[x].privateKey = ballots[y].privateKey
  BY <1>1, KeysNamed DEF KeyHash
<1>3. QED
  BY <1>1, <1>2 DEF SameKeys

(* Version 1 asks every package for its list, and the ciphertexts for one  *)
(* key.                                                                    *)
LEMMA CiphertextsAgree ==
  ASSUME BatchInv, Len(batches) >= 1
  PROVE  /\ ListsMatch(WholeLog) <=> SameList
         /\ aggregateBallotCiphertexts(Ciphertexts(WholeLog)) # {} <=> SameKeys
<1> DEFINE P == Packages(WholeLog)
           m == Len(P)
           cts == Ciphertexts(WholeLog)
           ids == BallotsIn(batches)
<1>1. IsList(P) /\ ToSet(P) = {PackageOf(id) : id \in ids}
  BY LogPackages
<1>2. \A id \in ids : /\ PackageOf(id).candidateListHash = ballots[id].candidateList
                      /\ PackageOf(id).ciphertext.electionPublicKeyHash = KeyHash(id)
  <2>1. version \in 1..3
    BY ScenarioAssumption DEF BatchInv, version
  <2>2. QED
    BY <2>1, KeyHashes, PackageFields DEF PackageOf, KeyHash
<1>3. m \in Nat /\ DOMAIN P = 1..m
  <2>1. Len(P) \in Nat /\ P = [i \in 1..Len(P) |-> P[i]]
    BY <1>1 DEF IsList
  <2> HIDE DEF P
  <2>2. QED
    BY <2>1
<1>4. /\ DOMAIN cts = 1..m /\ cts = [i \in 1..m |-> cts[i]]
      /\ \A i \in 1..m : cts[i] = P[i].ciphertext
  <2> HIDE DEF m
  <2>1. QED
    BY <1>3 DEF Ciphertexts
<1> HIDE DEF cts
<1>5. ListsMatch(WholeLog)
        <=> \A i \in 1..m : P[i].candidateListHash = scenario.candidateList
  <2>1. WholeLog.candidateListHash = scenario.candidateList
    BY WholeLogIs
  <2>2. ListsMatch(WholeLog) <=> \A i \in DOMAIN P :
                                   P[i].candidateListHash = scenario.candidateList
    BY <2>1 DEF ListsMatch
  <2>3. QED
    BY <1>3, <2>2
<1>6. PICK first : first \in ids
  <2>1. 1 \in 1..Len(batches)
    BY WholeLogIs
  <2>2. 1 \in DOMAIN ListOf(batches[1])
    BY <2>1, LogBatch
  <2>3. ListOf(batches[1])[1] \in ids
    BY <2>1, <2>2, LogBallots DEF ToSet
  <2>4. QED
    BY <2>3
<1> HIDE DEF P, m, ids
<1>7. \A i \in 1..m : \E id \in ids : P[i] = PackageOf(id)
  BY <1>1, <1>3 DEF ToSet
<1>8. \A id \in ids : \E i \in 1..m : P[i] = PackageOf(id)
  BY <1>1, <1>3 DEF ToSet
<1>9. ListsMatch(WholeLog)
        <=> \A id \in ids : ballots[id].candidateList = scenario.candidateList
  BY <1>2, <1>5, <1>7, <1>8
<1>10. 1 \in 1..m
  BY <1>3, <1>6, <1>8
<1>11. cts # << >>
  <2>1. DOMAIN << >> = {}
    OBVIOUS
  <2>2. QED
    BY <1>4, <1>10, <2>1
<1>12. SameKey(cts) <=> \A x, y \in ids : KeyHash(x) = KeyHash(y)
  <2>1. \A i \in 1..m : \E id \in ids : cts[i].electionPublicKeyHash = KeyHash(id)
    BY <1>2, <1>4, <1>7
  <2>2. \A id \in ids : \E i \in 1..m : cts[i].electionPublicKeyHash = KeyHash(id)
    BY <1>2, <1>4, <1>8
  <2>3. SameKey(cts) <=> \A i \in 1..m : cts[i].electionPublicKeyHash
                                           = cts[1].electionPublicKeyHash
    BY <1>4 DEF SameKey
  <2>4. QED
    BY <1>10, <2>1, <2>2, <2>3
<1>13. aggregateBallotCiphertexts(cts) # {} <=> SameKey(cts)
  BY <1>11 DEF aggregateBallotCiphertexts
<1>14. SameKey(cts) <=> SameKeys
  BY <1>12, KeyHashes DEF ids
<1>15. QED
  BY <1>9, <1>13, <1>14 DEF SameList, ids, cts

(* Versions 2 and 3 ask the same of the batches' aggregates. *)
LEMMA AggregatesAgree ==
  ASSUME BatchInv, Len(batches) >= 1, version # 1
  PROVE  AggregateOfBatches(WholeLog) # {} <=> SameKeys
<1> DEFINE n == Len(batches)
           ids == BallotsIn(batches)
           list(i) == ListOf(batches[i])
           aggs == [i \in DOMAIN WholeLog.batches |->
                      WholeLog.batches[i].artifact.aggregateCiphertext]
<1>1. /\ n \in Nat /\ n >= 1 /\ DOMAIN WholeLog.batches = 1..n
      /\ \A i \in 1..n : WholeLog.batches[i].artifact = batches[i]
  BY WholeLogIs
<1>2. /\ DOMAIN aggs = 1..n
      /\ \A i \in 1..n : aggs[i] = batches[i].aggregateCiphertext
  BY <1>1
<1>3. AggregateOfBatches(WholeLog) = aggregateProofCompatibleCiphertexts(aggs)
  BY DEF AggregateOfBatches
<1> HIDE DEF aggs, n
<1>4. 1 \in 1..n /\ aggs # << >>
  <2>1. DOMAIN << >> = {}
    OBVIOUS
  <2>2. 1 \in 1..n
    BY <1>1
  <2>3. QED
    BY <1>2, <2>1, <2>2
<1>5. AggregateOfBatches(WholeLog) # {} <=> SameKey(aggs)
  BY <1>3, <1>4 DEF aggregateProofCompatibleCiphertexts
<1>6. \A i \in 1..n : \A id \in ToSet(list(i)) :
        aggs[i].electionPublicKeyHash = KeyHash(id)
  BY <1>2, LogBatch DEF n
<1>7. \A i \in 1..n : \E id \in ToSet(list(i)) : TRUE
  <2>1. SUFFICES ASSUME NEW i \in 1..n PROVE \E id \in ToSet(list(i)) : TRUE
    OBVIOUS
  <2>2. 1 \in DOMAIN list(i)
    BY LogBatch DEF n
  <2>3. list(i)[1] \in ToSet(list(i))
    BY <2>2 DEF ToSet
  <2>4. QED
    BY <2>3
<1>8. ids = UNION {ToSet(list(i)) : i \in 1..n}
  BY LogBallots DEF n
<1> HIDE DEF list, ids
<1>9. \A i \in 1..n : \E id \in ids : aggs[i].electionPublicKeyHash = KeyHash(id)
  BY <1>6, <1>7, <1>8
<1>10. \A id \in ids : \E i \in 1..n : aggs[i].electionPublicKeyHash = KeyHash(id)
  BY <1>6, <1>8
<1>11. SameKey(aggs) <=> \A i \in 1..n : aggs[i].electionPublicKeyHash
                                           = aggs[1].electionPublicKeyHash
  BY <1>2 DEF SameKey
<1>12. SameKey(aggs) <=> \A x, y \in ids : KeyHash(x) = KeyHash(y)
  BY <1>4, <1>9, <1>10, <1>11
<1>13. QED
  BY <1>5, <1>12, KeyHashes DEF ids

(* And version 3 every batch for its list. *)
LEMMA BatchListsAgree ==
  ASSUME BatchInv, version = 3
  PROVE  (\A i \in DOMAIN WholeLog.batches :
            WholeLog.batches[i].artifact.candidateListHash
              = WholeLog.candidateListHash) <=> SameList
<1> DEFINE n == Len(batches)
           list(i) == ListOf(batches[i])
<1>1. /\ DOMAIN WholeLog.batches = 1..n
      /\ \A i \in 1..n : WholeLog.batches[i].artifact = batches[i]
      /\ WholeLog.candidateListHash = scenario.candidateList
  BY WholeLogIs
<1>2. \A i \in 1..n :
        /\ \E id \in ToSet(list(i)) : TRUE
        /\ \A id \in ToSet(list(i)) :
             batches[i].candidateListHash = ballots[id].candidateList
  <2>1. SUFFICES ASSUME NEW i \in 1..n
                 PROVE  /\ \E id \in ToSet(list(i)) : TRUE
                        /\ \A id \in ToSet(list(i)) :
                             batches[i].candidateListHash
                               = ballots[id].candidateList
    OBVIOUS
  <2>2. 1 \in DOMAIN list(i)
    BY LogBatch
  <2>3. list(i)[1] \in ToSet(list(i))
    BY <2>2 DEF ToSet
  <2>4. QED
    BY <2>3, LogBatch
<1>3. BallotsIn(batches) = UNION {ToSet(list(i)) : i \in 1..n}
  BY LogBallots
<1> HIDE DEF list, n
<1>4. QED
  BY <1>1, <1>2, <1>3 DEF SameList

LEMMA LogInv_CanBeTallied == ASSUME BatchInv PROVE LogCanBeTallied
<1>1. SUFFICES ASSUME batches # << >>
               PROVE  BuildEncryptedTally(version, WholeLog) # {}
                        <=> SameList /\ SameKeys
  BY DEF LogCanBeTallied, SameList, SameKeys
<1>2. Len(batches) >= 1
  <2>1. Len(batches) \in Nat /\ batches = [i \in 1..Len(batches) |-> batches[i]]
    BY DEF BatchInv, LogOK, IsList
  <2>2. SUFFICES ASSUME Len(batches) = 0 PROVE batches = << >>
    BY <1>1, <2>1
  <2>3. QED
    BY <2>1, <2>2
<1>3. WholeLog.batches # << >>
  <2>1. DOMAIN << >> = {} /\ 1 \in DOMAIN WholeLog.batches
    BY <1>2, WholeLogIs
  <2>2. QED
    BY <2>1
<1>4. Replay(version, WholeLog) /\ version \in 1..3
  BY LogReplays, ScenarioAssumption DEF BatchInv, version
<1>5. CASE version = 1
  <2>1. BuildEncryptedTally(version, WholeLog) # {}
          <=> aggregateBallotCiphertexts(
                IF ListsMatch(WholeLog) THEN Ciphertexts(WholeLog) ELSE << >>) # {}
    BY <1>3, <1>4, <1>5 DEF BuildEncryptedTally, buildTallyInput
  <2>2. aggregateBallotCiphertexts(<< >>) = {}
    BY DEF aggregateBallotCiphertexts
  <2>3. QED
    BY <1>2, <2>1, <2>2, CiphertextsAgree
<1>6. CASE version = 2
  <2>1. BuildEncryptedTally(version, WholeLog) # {}
          <=> ListsMatch(WholeLog) /\ AggregateOfBatches(WholeLog) # {}
    BY <1>3, <1>4, <1>6 DEF BuildEncryptedTally, buildProofCompatibleTally
  <2>2. QED
    BY <1>2, <1>6, <2>1, CiphertextsAgree, AggregatesAgree
<1>7. CASE version = 3
  <2> DEFINE same == \A i \in DOMAIN WholeLog.batches :
                       WholeLog.batches[i].artifact.candidateListHash
                         = WholeLog.candidateListHash
             tallies == {EncryptedTally(3, WholeLog, aggregate) :
                           aggregate \in AggregateOfBatches(WholeLog)}
  <2>1. BuildEncryptedTally(version, WholeLog)
          = IF WholeLog.batches # << >> /\ Replay(3, WholeLog) /\ same
              THEN tallies ELSE {}
    BY <1>7 DEF BuildEncryptedTally, buildEligibleTally
  <2>2. tallies # {} <=> AggregateOfBatches(WholeLog) # {}
    OBVIOUS
  <2>3. same <=> SameList
    BY <1>7, BatchListsAgree
  <2> HIDE DEF same, tallies
  <2>4. BuildEncryptedTally(version, WholeLog) # {} <=> same /\ tallies # {}
    BY <1>3, <1>4, <1>7, <2>1
  <2>5. QED
    BY <1>2, <1>7, <2>2, <2>3, <2>4, AggregatesAgree
<1>8. QED
  BY <1>4, <1>5, <1>6, <1>7

(* The committed log gives a tally exactly when its packages name the      *)
(* election's candidate list and one key.                                  *)
THEOREM LogAlwaysTalliable == Spec => []LogCanBeTallied
<1>1. BatchInv => LogCanBeTallied
  BY LogInv_CanBeTallied
<1>2. QED
  BY BatchInvariant, <1>1, PTL

-----------------------------------------------------------------------------
(* Sums of ciphertexts *)

(* A sum of points is the last of its partial sums, whatever function      *)
(* names them.                                                             *)
LEMMA AddAllIs ==
  ASSUME NEW points, Len(points) \in Nat, NEW F,
         F[0] = Zero,
         \A i \in 1..Len(points) : F[i] = Add(F[i - 1], points[i])
  PROVE  AddAll(points) = F[Len(points)]
<1> DEFINE n == Len(points)
           IsSum(g) == g = [i \in 0..n |-> IF i = 0 THEN Zero
                                           ELSE Add(g[i - 1], points[i])]
           s == CHOOSE g : IsSum(g)
           w == [i \in 0..n |-> F[i]]
<1>1. AddAll(points) = s[n]
  BY DEF AddAll
<1>2. n \in Nat /\ F[0] = Zero /\ \A i \in 1..n : F[i] = Add(F[i - 1], points[i])
  OBVIOUS
<1> HIDE DEF n
<1>3. \A i \in 0..n : w[i] = IF i = 0 THEN Zero ELSE Add(w[i - 1], points[i])
  <2>1. SUFFICES ASSUME NEW i \in 0..n
                 PROVE  w[i] = IF i = 0 THEN Zero ELSE Add(w[i - 1], points[i])
    OBVIOUS
  <2>2. CASE i = 0
    BY <1>2, <2>2
  <2>3. CASE i # 0
    <3>1. i \in 1..n /\ i - 1 \in 0..n
      BY <1>2, <2>3
    <3>2. w[i] = F[i] /\ w[i - 1] = F[i - 1]
      BY <3>1
    <3>3. QED
      BY <1>2, <2>3, <3>1, <3>2
  <2>4. QED
    BY <2>2, <2>3
<1>4. w = [i \in 0..n |-> w[i]]
  OBVIOUS
<1> HIDE DEF w
<1>5. IsSum(w)
  BY <1>3, <1>4
<1> HIDE DEF IsSum
<1>6. IsSum(s)
  BY <1>5
<1> HIDE DEF s
<1>7. \A i \in 0..n : s[i] = IF i = 0 THEN Zero ELSE Add(s[i - 1], points[i])
  BY <1>6 DEF IsSum
<1> DEFINE Bad == {i \in 0..n : s[i] # F[i]}
<1>8. Bad = {}
  <2>1. SUFFICES ASSUME Bad # {} PROVE FALSE
    OBVIOUS
  <2>2. PICK i \in Bad : \A j \in Bad : i <= j
    <3>1. Bad \in SUBSET Nat
      BY <1>2
    <3> HIDE DEF Bad
    <3>2. QED
      BY <2>1, <3>1, LeastNatural
  <2>3. i # 0
    BY <1>2, <1>7
  <2>4. i \in 1..n /\ i - 1 \in 0..n /\ ~ (i <= i - 1)
    BY <1>2, <2>3
  <2>5. s[i - 1] = F[i - 1]
    BY <2>2, <2>4
  <2>6. QED
    BY <1>2, <1>7, <2>3, <2>4, <2>5
<1>9. n \in 0..n
  BY <1>2
<1>10. QED
  BY <1>1, <1>8, <1>9 DEF n

(* A set of ballots of the election. *)
Cast(ids) ==
  /\ ids \in SUBSET DOMAIN ballots
  /\ IsFiniteSet(ids)
  /\ ids \in SUBSET BallotIds
  /\ Cardinality(ids) \in Nat /\ Cardinality(ids) < Order

(* The coefficients both halves of a sum have: each ballot's randomness,   *)
(* once, and that randomness under the key with the votes on the           *)
(* generator's coordinate.                                                 *)
Mask(ids) == [x \in BallotIds \cup {0} |-> IF x \in ids THEN 1 ELSE 0]

Masked(c, ids, key) ==
  [x \in BallotIds \cup {0} |->
     IF x = 0 THEN VotesFor(c, ids) ELSE IF x \in ids THEN key ELSE 0]

Encrypts(ct, ids, key) ==
  \A c \in Candidates : ct.c1[c] = Mask(ids) /\ ct.c2[c] = Masked(c, ids, key)

(* Sets of the election's ballots are small. *)
LEMMA SmallSets ==
  ASSUME BatchInv, NEW ids \in SUBSET DOMAIN ballots
  PROVE  /\ Cast(ids) /\ 0 \notin ids
         /\ \A c : VotesFor(c, ids) \in 0..Cardinality(ids)
<1>1. /\ IsFiniteSet(DOMAIN ballots) /\ Cardinality(DOMAIN ballots) < Order
      /\ \A id \in DOMAIN ballots : ballots[id] \in Ballot /\ ballots[id].id = id
  BY ScenarioAssumption DEF BatchInv, ballots
<1>2. IsFiniteSet(ids) /\ Cardinality(ids) <= Cardinality(DOMAIN ballots)
  BY <1>1, FS_Subset
<1>3. ids \in SUBSET BallotIds
  BY <1>1 DEF Ballot
<1>4. Cardinality(ids) \in Nat /\ Cardinality(DOMAIN ballots) \in Nat
  BY <1>1, <1>2, FS_CardinalityType
<1>5. Order \in Nat /\ 0 \notin BallotIds
  BY GroupAssumption
<1>6. Cast(ids) /\ 0 \notin ids
  BY <1>1, <1>2, <1>3, <1>4, <1>5 DEF Cast
<1>7. ASSUME NEW c PROVE VotesFor(c, ids) \in 0..Cardinality(ids)
  <2> DEFINE voted == {id \in ids : ballots[id].choice = c}
  <2>1. voted \in SUBSET ids
    OBVIOUS
  <2> HIDE DEF voted
  <2>2. IsFiniteSet(voted) /\ Cardinality(voted) <= Cardinality(ids)
    BY <1>2, <2>1, FS_Subset
  <2>3. Cardinality(voted) \in Nat
    BY <2>2, FS_CardinalityType
  <2>4. QED
    BY <1>4, <2>2, <2>3 DEF VotesFor, voted
<1>8. QED
  BY <1>6, <1>7

(* Votes of disjoint sets add up. *)
LEMMA VotesAdd ==
  ASSUME BatchInv, NEW A \in SUBSET DOMAIN ballots, NEW B \in SUBSET DOMAIN ballots,
         A \cap B = {}, NEW c
  PROVE  VotesFor(c, A \cup B) = VotesFor(c, A) + VotesFor(c, B)
<1> DEFINE va == {id \in A : ballots[id].choice = c}
           vb == {id \in B : ballots[id].choice = c}
<1>1. {id \in A \cup B : ballots[id].choice = c} = va \cup vb /\ va \cap vb = {}
  OBVIOUS
<1>2. IsFiniteSet(va) /\ IsFiniteSet(vb)
  <2>1. IsFiniteSet(A) /\ IsFiniteSet(B)
    BY SmallSets DEF Cast
  <2>2. va \in SUBSET A /\ vb \in SUBSET B
    OBVIOUS
  <2> HIDE DEF va, vb
  <2>3. QED
    BY <2>1, <2>2, FS_Subset
<1> HIDE DEF va, vb
<1>3. Cardinality(va \cup vb)
        = Cardinality(va) + Cardinality(vb) - Cardinality(va \cap vb)
  BY <1>2, FS_Union
<1>4. Cardinality(va \cap vb) = 0 /\ Cardinality(va) \in Nat /\ Cardinality(vb) \in Nat
  BY <1>1, <1>2, FS_EmptySet, FS_CardinalityType
<1>5. Cardinality(va \cup vb) = Cardinality(va) + Cardinality(vb)
  BY <1>3, <1>4
<1>6. VotesFor(c, A \cup B) = Cardinality(va \cup vb)
  BY <1>1 DEF VotesFor
<1>7. QED
  BY <1>5, <1>6 DEF VotesFor, va, vb

(* Numbers below the order are their own remainders. *)
LEMMA SmallRemainders ==
  /\ Order \in Nat /\ Order >= 2
  /\ \A y \in 0..Order - 1 : modOrder(y) = y
  /\ modOrder(Order) = 0
<1>1. Order \in Nat \ {0, 1}
  BY GroupAssumption
<1>2. \A y \in 0..Order - 1 : modOrder(y) = y
  BY <1>1 DEF modOrder
<1>3. modOrder(Order) = 0
  BY <1>1 DEF modOrder
<1>4. QED
  BY <1>1, <1>2, <1>3

(* What the first halves of two sums over disjoint sets of ballots add up  *)
(* to.                                                                     *)
LEMMA MasksAdd ==
  ASSUME BatchInv, NEW A \in SUBSET DOMAIN ballots, NEW B \in SUBSET DOMAIN ballots,
         A \cap B = {}
  PROVE  Add(Mask(A), Mask(B)) = Mask(A \cup B)
<1> DEFINE X == BallotIds \cup {0}
<1>1. /\ Order \in Nat /\ Order >= 2
      /\ \A y \in 0..Order - 1 : modOrder(y) = y
  BY SmallRemainders
<1>2. ASSUME NEW x \in X
      PROVE  modOrder(Mask(A)[x] + Mask(B)[x]) = Mask(A \cup B)[x]
  <2> DEFINE a == Mask(A)[x]
             b == Mask(B)[x]
  <2>1. /\ a = IF x \in A THEN 1 ELSE 0
        /\ b = IF x \in B THEN 1 ELSE 0
        /\ Mask(A \cup B)[x] = IF x \in A \cup B THEN 1 ELSE 0
    BY DEF Mask
  <2>2. ~ (x \in A /\ x \in B)
    OBVIOUS
  <2> HIDE DEF a, b
  <2>3. a + b = Mask(A \cup B)[x] /\ a + b \in 0..Order - 1
    BY <1>1, <2>1, <2>2
  <2>4. QED
    BY <1>1, <2>3 DEF a, b
<1>3. QED
  <2>1. Add(Mask(A), Mask(B)) = [x \in X |-> modOrder(Mask(A)[x] + Mask(B)[x])]
    BY DEF Add, Mask
  <2>2. Mask(A \cup B) = [x \in X |-> Mask(A \cup B)[x]]
    BY DEF Mask
  <2>3. QED
    BY <1>2, <2>1, <2>2

(* And the second halves. *)
LEMMA MaskedAdd ==
  ASSUME BatchInv, NEW A \in SUBSET DOMAIN ballots, NEW B \in SUBSET DOMAIN ballots,
         A \cap B = {}, NEW c, NEW key \in 1..Order - 1
  PROVE  Add(Masked(c, A, key), Masked(c, B, key)) = Masked(c, A \cup B, key)
<1> DEFINE X == BallotIds \cup {0}
<1>1. /\ Order \in Nat /\ Order >= 2
      /\ \A y \in 0..Order - 1 : modOrder(y) = y
  BY SmallRemainders
<1>2. ASSUME NEW x \in X
      PROVE  modOrder(Masked(c, A, key)[x] + Masked(c, B, key)[x])
               = Masked(c, A \cup B, key)[x]
  <2> DEFINE a == Masked(c, A, key)[x]
             b == Masked(c, B, key)[x]
             ab == Masked(c, A \cup B, key)[x]
  <2>1. CASE x = 0
    <3>1. a = VotesFor(c, A) /\ b = VotesFor(c, B) /\ ab = VotesFor(c, A \cup B)
      BY <2>1 DEF Masked
    <3>2. ab = a + b
      BY <3>1, VotesAdd
    <3>3. A \cup B \in SUBSET DOMAIN ballots
      OBVIOUS
    <3>4. Cast(A \cup B) /\ VotesFor(c, A \cup B) \in 0..Cardinality(A \cup B)
      BY <3>3, SmallSets
    <3> HIDE DEF a, b, ab
    <3>5. ab \in 0..Order - 1
      BY <1>1, <3>1, <3>4 DEF Cast
    <3>6. QED
      BY <1>1, <3>2, <3>5 DEF a, b, ab
  <2>2. CASE x # 0
    <3>1. /\ a = IF x \in A THEN key ELSE 0
          /\ b = IF x \in B THEN key ELSE 0
          /\ ab = IF x \in A \cup B THEN key ELSE 0
      BY <2>2 DEF Masked
    <3>2. ~ (x \in A /\ x \in B)
      OBVIOUS
    <3> HIDE DEF a, b, ab
    <3>3. a + b = ab /\ ab \in 0..Order - 1
      BY <1>1, <3>1, <3>2
    <3>4. QED
      BY <1>1, <3>3 DEF a, b, ab
  <2>3. QED
    BY <2>1, <2>2
<1>3. QED
  <2>1. Add(Masked(c, A, key), Masked(c, B, key))
          = [x \in X |-> modOrder(Masked(c, A, key)[x] + Masked(c, B, key)[x])]
    BY DEF Add, Masked
  <2>2. Masked(c, A \cup B, key) = [x \in X |-> Masked(c, A \cup B, key)[x]]
    BY DEF Masked
  <2>3. QED
    BY <1>2, <2>1, <2>2

(* The sum of ciphertexts of disjoint sets encrypts their union. *)
LEMMA SumEncrypts ==
  ASSUME BatchInv, NEW n \in Nat, NEW cts, DOMAIN cts = 1..n,
         NEW key \in 1..Order - 1, NEW I,
         \A i \in 1..n : /\ I[i] \in SUBSET DOMAIN ballots
                         /\ Encrypts(cts[i], I[i], key),
         \A i, j \in 1..n : i < j => I[i] \cap I[j] = {}
  PROVE  Encrypts(PointwiseSum(cts), UNION {I[i] : i \in 1..n}, key)
<1> DEFINE U(k) == UNION {I[i] : i \in 1..k}
<1>1. SUFFICES ASSUME NEW c \in Candidates
               PROVE  /\ PointwiseSum(cts).c1[c] = Mask(U(n))
                      /\ PointwiseSum(cts).c2[c] = Masked(c, U(n), key)
  BY DEF Encrypts
<1>2. ASSUME NEW k \in 1..n
      PROVE  /\ U(k) = U(k - 1) \cup I[k]
             /\ U(k - 1) \cap I[k] = {}
             /\ U(k - 1) \in SUBSET DOMAIN ballots
             /\ I[k] \in SUBSET DOMAIN ballots
  <2>1. 1..k = (1..k - 1) \cup {k} /\ \A i \in 1..k - 1 : i \in 1..n /\ i < k
    OBVIOUS
  <2>2. U(k) = U(k - 1) \cup I[k]
    BY <2>1
  <2>3. U(k - 1) \cap I[k] = {}
    BY <2>1
  <2>4. U(k - 1) \in SUBSET DOMAIN ballots
    BY <2>1
  <2>5. QED
    BY <2>2, <2>3, <2>4
<1>3. U(0) = {}
  OBVIOUS
<1> HIDE DEF U
<1>4. VotesFor(c, {}) = 0
  <2>1. {id \in {} : ballots[id].choice = c} = {}
    OBVIOUS
  <2>2. QED
    BY <2>1, FS_EmptySet DEF VotesFor
<1>5. Mask({}) = Zero /\ Masked(c, {}, key) = Zero
  BY <1>4 DEF Mask, Masked, Zero
<1> DEFINE p1 == [i \in DOMAIN cts |-> cts[i].c1[c]]
           p2 == [i \in DOMAIN cts |-> cts[i].c2[c]]
           F1 == [k \in 0..n |-> Mask(U(k))]
           F2 == [k \in 0..n |-> Masked(c, U(k), key)]
<1>6. /\ PointwiseSum(cts).c1[c] = AddAll(p1)
      /\ PointwiseSum(cts).c2[c] = AddAll(p2)
  BY DEF PointwiseSum
<1>7. /\ Len(p1) = n /\ \A i \in 1..n : p1[i] = Mask(I[i])
      /\ Len(p2) = n /\ \A i \in 1..n : p2[i] = Masked(c, I[i], key)
  <2>1. /\ p1 = [i \in 1..n |-> p1[i]] /\ p2 = [i \in 1..n |-> p2[i]]
    OBVIOUS
  <2>2. \A i \in 1..n : /\ p1[i] = cts[i].c1[c]
                        /\ p2[i] = cts[i].c2[c]
    OBVIOUS
  <2> HIDE DEF p1, p2
  <2>3. Len(p1) = n /\ Len(p2) = n
    BY <2>1, ListOfLength
  <2>4. QED
    BY <2>2, <2>3 DEF Encrypts
<1> HIDE DEF p1, p2
<1>8. /\ F1[0] = Zero /\ F2[0] = Zero
      /\ F1[n] = Mask(U(n)) /\ F2[n] = Masked(c, U(n), key)
  <2>1. 0 \in 0..n /\ n \in 0..n
    OBVIOUS
  <2>2. /\ F1[0] = Mask(U(0)) /\ F2[0] = Masked(c, U(0), key)
        /\ F1[n] = Mask(U(n)) /\ F2[n] = Masked(c, U(n), key)
    BY <2>1
  <2> HIDE DEF F1, F2
  <2>3. QED
    BY <1>3, <1>5, <2>2
<1>9. ASSUME NEW k \in 1..n
      PROVE  F1[k] = Add(F1[k - 1], p1[k]) /\ F2[k] = Add(F2[k - 1], p2[k])
  <2>1. /\ F1[k] = Mask(U(k)) /\ F1[k - 1] = Mask(U(k - 1))
        /\ F2[k] = Masked(c, U(k), key) /\ F2[k - 1] = Masked(c, U(k - 1), key)
    OBVIOUS
  <2> HIDE DEF F1, F2
  <2> DEFINE A == U(k - 1)
             B == I[k]
  <2>2. U(k) = A \cup B /\ A \cap B = {}
        /\ A \in SUBSET DOMAIN ballots /\ B \in SUBSET DOMAIN ballots
    BY <1>2
  <2> HIDE DEF A, B
  <2>3. A \in SUBSET DOMAIN ballots
    BY <2>2
  <2>4. B \in SUBSET DOMAIN ballots
    BY <2>2
  <2>5. A \cap B = {}
    BY <2>2
  <2>6. Add(Mask(A), Mask(B)) = Mask(A \cup B)
    BY <2>3, <2>4, <2>5, MasksAdd
  <2>7. Add(Masked(c, A, key), Masked(c, B, key)) = Masked(c, A \cup B, key)
    BY <2>3, <2>4, <2>5, MaskedAdd
  <2>8. QED
    BY <1>7, <2>1, <2>2, <2>6, <2>7 DEF A, B
<1> HIDE DEF F1, F2
<1>10. AddAll(p1) = F1[n] /\ AddAll(p2) = F2[n]
  BY <1>7, <1>8, <1>9, AddAllIs
<1>11. QED
  BY <1>6, <1>8, <1>10

(* With the whole key, such a ciphertext gives the votes. *)
LEMMA DecryptsTo ==
  ASSUME BatchInv, NEW ids \in SUBSET DOMAIN ballots, NEW key \in 1..Order - 1,
         NEW ct, Encrypts(ct, ids, key)
  PROVE  Counts(ct, [c \in Candidates |-> Multiply(ct.c1[c], key)],
                Cardinality(ids))
           = {[c \in Candidates |-> VotesFor(c, ids)]}
<1> DEFINE X == BallotIds \cup {0}
           secret == [c \in Candidates |-> Multiply(ct.c1[c], key)]
           message == [c \in Candidates |->
                         Add(ct.c2[c], Multiply(secret[c], -1))]
           votes == [c \in Candidates |-> VotesFor(c, ids)]
<1>1. /\ Order \in Nat /\ Order >= 2 /\ modOrder(Order) = 0
      /\ \A y \in 0..Order - 1 : modOrder(y) = y
  BY SmallRemainders
<1>2. /\ 0 \notin ids /\ ids \in SUBSET BallotIds
      /\ Cardinality(ids) \in Nat /\ Cardinality(ids) < Order
      /\ \A c : VotesFor(c, ids) \in 0..Cardinality(ids)
  BY SmallSets DEF Cast
<1>3. ASSUME NEW c \in Candidates, NEW x \in X
      PROVE  message[c][x] = IF x = 0 THEN VotesFor(c, ids) ELSE 0
  <2> DEFINE mask == Mask(ids)
             once == Multiply(mask, key)
             back == Multiply(once, -1)
             masked == Masked(c, ids, key)
  <2>1. message[c] = Add(masked, back)
    BY DEF Encrypts
  <2>2. /\ DOMAIN mask = X /\ mask[x] = IF x \in ids THEN 1 ELSE 0
        /\ DOMAIN masked = X
        /\ masked[x] = IF x = 0 THEN VotesFor(c, ids)
                       ELSE IF x \in ids THEN key ELSE 0
    BY DEF Mask, Masked
  <2> HIDE DEF message, mask, masked
  <2>3. DOMAIN once = X /\ once[x] = modOrder(mask[x] * key)
    BY <2>2 DEF Multiply
  <2> HIDE DEF once
  <2>4. back[x] = modOrder(once[x] * (-1))
    BY <2>3 DEF Multiply
  <2> HIDE DEF back
  <2>5. message[c][x] = modOrder(masked[x] + back[x])
    BY <2>1, <2>2 DEF Add
  <2>6. 1 * key = key /\ 0 * key = 0 /\ 0 * (-1) = 0
        /\ 0 \in 0..Order - 1 /\ key \in 0..Order - 1
    BY <1>1
  <2>7. CASE x \in ids
    <3>1. once[x] = key
      BY <1>1, <2>2, <2>3, <2>6, <2>7
    <3>2. modOrder(key * (-1)) = Order - key
      BY <1>1 DEF modOrder
    <3>3. back[x] = Order - key
      BY <2>4, <3>1, <3>2
    <3>4. masked[x] = key
      BY <1>2, <2>2, <2>7
    <3>5. masked[x] + back[x] = Order
      BY <1>1, <3>3, <3>4
    <3>6. QED
      BY <1>1, <1>2, <2>5, <2>7, <3>5
  <2>8. CASE x \notin ids
    <3>1. once[x] = 0
      BY <1>1, <2>2, <2>3, <2>6, <2>8
    <3>2. back[x] = 0
      BY <1>1, <2>4, <2>6, <3>1
    <3>3. masked[x] = IF x = 0 THEN VotesFor(c, ids) ELSE 0
      BY <2>2, <2>8
    <3>4. masked[x] \in 0..Order - 1
      BY <1>1, <1>2, <3>3
    <3>5. masked[x] + back[x] = masked[x]
      BY <3>2, <3>4
    <3>6. QED
      BY <1>1, <2>5, <3>3, <3>4, <3>5
  <2>9. QED
    BY <2>7, <2>8
<1>4. ASSUME NEW c \in Candidates
      PROVE  /\ message[c][0] = votes[c]
             /\ votes[c] \in Lookup(message[c], Cardinality(ids))
  <2> DEFINE v == VotesFor(c, ids)
  <2>1. votes[c] = v /\ v \in 0..Cardinality(ids) /\ v \in 0..Order - 1
    BY <1>1, <1>2
  <2>2. message[c] = [x \in X |-> message[c][x]]
    <3>1. message[c] = Add(Masked(c, ids, key), Multiply(secret[c], -1))
      BY DEF Encrypts
    <3>2. DOMAIN Masked(c, ids, key) = X
      BY DEF Masked
    <3> HIDE DEF message
    <3>3. message[c] = [x \in X |-> modOrder(Masked(c, ids, key)[x]
                                              + Multiply(secret[c], -1)[x])]
      BY <3>1, <3>2 DEF Add
    <3>4. QED
      BY <3>3
  <2> HIDE DEF message
  <2>3. message[c] = [x \in X |-> IF x = 0 THEN v ELSE 0]
    BY <1>3, <2>2
  <2>4. Multiply(Base, v) = [x \in X |-> modOrder(Base[x] * v)]
    BY DEF Multiply, Base, Zero
  <2>5. ASSUME NEW x \in X
        PROVE  modOrder(Base[x] * v) = IF x = 0 THEN v ELSE 0
    <3>1. Base[x] = IF x = 0 THEN 1 ELSE 0
      BY DEF Base, Zero
    <3>2. 1 * v = v /\ 0 * v = 0 /\ 0 \in 0..Order - 1
      BY <1>1, <2>1
    <3> HIDE DEF v
    <3>3. QED
      BY <1>1, <2>1, <3>1, <3>2
  <2>6. Multiply(Base, v) = message[c]
    BY <2>3, <2>4, <2>5
  <2>7. message[c][0] = v
    BY <1>3
  <2>8. QED
    BY <2>1, <2>6, <2>7 DEF Lookup
<1>5. Counts(ct, secret, Cardinality(ids))
        = {counts \in {[c \in Candidates |-> message[c][0]]} :
             \A c \in Candidates :
               counts[c] \in Lookup(message[c], Cardinality(ids))}
  BY DEF Counts
<1> HIDE DEF message, secret
<1>6. [c \in Candidates |-> message[c][0]] = votes
  BY <1>4
<1> HIDE DEF votes
<1>7. {counts \in {[c \in Candidates |-> message[c][0]]} :
         \A c \in Candidates : counts[c] \in Lookup(message[c], Cardinality(ids))}
        = {votes}
  BY <1>4, <1>6
<1>8. QED
  BY <1>5, <1>7 DEF secret, votes

-----------------------------------------------------------------------------
(* What a tally was replayed from *)

(* A replay that succeeds rebuilt every batch. *)
LEMMA ReplayRebuilds ==
  ASSUME NEW v, NEW input, Len(input.batches) \in Nat, Replay(v, input)
  PROVE  \E acc : /\ acc[0] = input.known
                  /\ \A i \in 1..Len(input.batches) :
                       LET b == input.batches[i]
                           rebuilt == BuildManifest(v, input.electionId,
                                        input.eligibilityRoot,
                                        b.artifact.previousNullifierRoot,
                                        b.packages, acc[i - 1])
                       IN  /\ acc[i] = rebuilt.accumulator
                           /\ b.artifact \in rebuilt.manifests
<1> DEFINE n == Len(input.batches)
<1>1. PICK g : /\ g[0] = [accumulator |-> input.known, ok |-> TRUE]
               /\ \A i \in 1..n : g[i] = Round(v, input, i, g[i - 1])
               /\ g[n].ok
  BY ReplayIs
<1>2. n \in Nat
  OBVIOUS
<1> HIDE DEF n
<1>3. \A i \in 0..n : g[i].ok
  <2>1. SUFFICES ASSUME NEW i \in 0..n, ~ g[i].ok PROVE FALSE
    OBVIOUS
  <2> DEFINE Bad == {j \in i..n : g[j].ok}
  <2>2. n \in Bad
    BY <1>1, <1>2, <2>1
  <2>3. PICK j \in Bad : \A h \in Bad : j <= h
    <3>1. Bad \in SUBSET Nat
      BY <1>2
    <3> HIDE DEF Bad
    <3>2. QED
      BY <2>2, <3>1, LeastNatural
  <2>4. j # i
    BY <2>1
  <2>5. j \in 1..n /\ j - 1 \in i..n /\ ~ (j <= j - 1)
    BY <1>2, <2>4
  <2>6. ~ g[j - 1].ok
    BY <2>3, <2>5
  <2>7. g[j] = g[j - 1]
    BY <1>1, <2>5, <2>6 DEF Round
  <2>8. QED
    BY <2>6, <2>7
<1> DEFINE acc == [i \in 0..n |-> g[i].accumulator]
<1>4. acc[0] = input.known
  BY <1>1, <1>2
<1>5. ASSUME NEW i \in 1..n
      PROVE  LET b == input.batches[i]
                 rebuilt == BuildManifest(v, input.electionId,
                              input.eligibilityRoot,
                              b.artifact.previousNullifierRoot,
                              b.packages, acc[i - 1])
             IN  /\ acc[i] = rebuilt.accumulator
                 /\ b.artifact \in rebuilt.manifests
  <2> DEFINE b == input.batches[i]
             rebuilt == BuildManifest(v, input.electionId, input.eligibilityRoot,
                          b.artifact.previousNullifierRoot, b.packages,
                          g[i - 1].accumulator)
  <2>1. i \in 0..n /\ i - 1 \in 0..n
    BY <1>2
  <2>2. acc[i] = g[i].accumulator /\ acc[i - 1] = g[i - 1].accumulator
    BY <2>1
  <2>3. g[i] = ReplayBatch(v, input, g[i - 1], b)
    BY <1>1, <1>3, <2>1 DEF Round
  <2>4. g[i] = [accumulator |-> rebuilt.accumulator,
                ok          |-> Matches(b.artifact, rebuilt.manifests)]
    BY <2>3 DEF ReplayBatch
  <2>5. g[i].ok
    BY <1>3, <2>1
  <2> HIDE DEF acc, rebuilt, b
  <2>6. g[i].accumulator = rebuilt.accumulator /\ Matches(b.artifact, rebuilt.manifests)
    BY <2>4, <2>5
  <2>7. QED
    BY <2>2, <2>6 DEF Matches, rebuilt, b
<1> HIDE DEF acc
<1>6. QED
  BY <1>4, <1>5 DEF n

(* A manifest and the packages it was rebuilt from. *)
Rebuilt(m, list) ==
  /\ IsList(list) /\ Distinct(list)
  /\ \A i \in 1..Len(list) : list[i] \in DOMAIN ballots
  /\ \E q : ManifestOf(m, version, scenario.election, Stored(list), q)

(* Whatever artifacts and lists the operator named and whatever nullifiers *)
(* were known before: a replay that succeeds rebuilt manifests of disjoint *)
(* lists, for a nullifier is added only once.                              *)
LEMMA EntriesRebuilt ==
  ASSUME BatchInv, NEW n \in Nat, NEW entries \in [1..n -> Entries],
         NEW k \in 0..Len(batches),
         Replay(version, TallyInput(entries, NullifiersUpTo(k)))
  PROVE  /\ \A i \in 1..n : Rebuilt(entries[i].artifact.manifest, entries[i].list)
         /\ \A i, j \in 1..n :
              i < j => ToSet(entries[i].list) \cap ToSet(entries[j].list) = {}
<1> DEFINE known == NullifiersUpTo(k)
           input == TallyInput(entries, known)
           m(i) == entries[i].artifact.manifest
           list(i) == entries[i].list
           bn(i) == Nullifiers(Stored(list(i)))
<1>1. /\ input.electionId = scenario.election
      /\ input.eligibilityRoot = eligibilityRoot
      /\ input.known = known
      /\ input.batches = [i \in 1..n |-> input.batches[i]]
      /\ \A i \in 1..n : /\ input.batches[i].artifact = m(i)
                         /\ input.batches[i].packages = Stored(list(i))
  <2>1. DOMAIN entries = 1..n
    OBVIOUS
  <2> HIDE DEF known
  <2>2. QED
    BY <2>1 DEF TallyInput
<1>2. Replay(version, input)
  OBVIOUS
<1> HIDE DEF input
<1>3. Len(input.batches) = n
  BY <1>1, ListOfLength
<1>4. FiniteNats(known) /\ version \in 1..3 /\ scenario \in Scenarios
  BY LogRoots, ScenarioAssumption DEF BatchInv, version
<1> HIDE DEF known
<1>5. PICK acc : /\ acc[0] = input.known
                 /\ \A i \in 1..Len(input.batches) :
                      LET b == input.batches[i]
                          rebuilt == BuildManifest(version, input.electionId,
                                       input.eligibilityRoot,
                                       b.artifact.previousNullifierRoot,
                                       b.packages, acc[i - 1])
                      IN  /\ acc[i] = rebuilt.accumulator
                          /\ b.artifact \in rebuilt.manifests
  BY <1>2, <1>3, ReplayRebuilds
<1>6. ASSUME NEW i \in 1..n
      PROVE  /\ IsList(list(i))
             /\ \A j \in 1..Len(list(i)) : list(i)[j] \in DOMAIN ballots
             /\ NullifierList(bn(i)) /\ Len(bn(i)) = Len(list(i))
             /\ \A j \in 1..Len(list(i)) :
                  bn(i)[j] = StoredPackage(version, ballots[list(i)[j]])
                               .package.ballotNullifier
  <2>1. PICK a \in artifacts : a.list = list(i)
    BY DEF Entries
  <2>2. IsList(list(i)) /\ \A j \in 1..Len(list(i)) : list(i)[j] \in DOMAIN ballots
    BY <2>1 DEF BatchInv, ArtifactOK
  <2> HIDE DEF list
  <2>3. QED
    BY <1>4, <2>2, StoredIs
<1> HIDE DEF list, m, bn
<1>7. ASSUME NEW i \in 1..n
      PROVE  /\ ManifestOf(m(i), version, scenario.election, Stored(list(i)),
                           acc[i - 1])
             /\ acc[i] = addMany(acc[i - 1], bn(i)).seen
             /\ addMany(acc[i - 1], bn(i)).ok
  <2> DEFINE rebuilt == BuildManifest(version, scenario.election, eligibilityRoot,
                          m(i).previousNullifierRoot, Stored(list(i)), acc[i - 1])
  <2>1. acc[i] = rebuilt.accumulator /\ m(i) \in rebuilt.manifests
    <3>1. /\ i \in 1..Len(input.batches)
          /\ input.batches[i].artifact = m(i)
          /\ input.batches[i].packages = Stored(list(i))
      BY <1>1, <1>3
    <3>2. QED
      BY <1>1, <1>5, <3>1
  <2>2. /\ ManifestOf(m(i), version, scenario.election, Stored(list(i)), acc[i - 1])
        /\ rebuilt.accumulator
             = addMany(acc[i - 1], Nullifiers(Stored(list(i)))).seen
    BY <1>4, <2>1, ManifestsAre
  <2> HIDE DEF rebuilt
  <2>3. addMany(acc[i - 1], bn(i)).ok
    BY <2>2 DEF ManifestOf, bn
  <2>4. QED
    BY <2>1, <2>2, <2>3 DEF bn
<1>8. ASSUME NEW i \in 1..n, FiniteNats(acc[i - 1])
      PROVE  /\ FiniteNats(acc[i])
             /\ acc[i] = acc[i - 1] \cup ToSet(bn(i))
             /\ acc[i - 1] \cap ToSet(bn(i)) = {}
             /\ Distinct(bn(i))
  BY <1>6, <1>7, <1>8, AddManyAdds DEF FiniteNats
<1> DEFINE Grown(i) == /\ FiniteNats(acc[i])
                       /\ \A h \in 1..i : ToSet(bn(h)) \subseteq acc[i]
<1>9. \A i \in 0..n : Grown(i)
  <2> DEFINE Bad == {i \in 0..n : ~ Grown(i)}
  <2>1. Grown(0)
    BY <1>1, <1>4, <1>5
  <2> HIDE DEF Grown
  <2>2. SUFFICES ASSUME Bad # {} PROVE FALSE
    OBVIOUS
  <2>3. PICK i \in Bad : \A j \in Bad : i <= j
    <3>1. Bad \in SUBSET Nat
      OBVIOUS
    <3> HIDE DEF Bad
    <3>2. QED
      BY <2>2, <3>1, LeastNatural
  <2>4. i # 0
    BY <2>1
  <2>5. i \in 1..n /\ i - 1 \in 0..n /\ ~ (i <= i - 1)
    BY <2>4
  <2>6. Grown(i - 1)
    BY <2>3, <2>5
  <2>7. FiniteNats(acc[i]) /\ acc[i] = acc[i - 1] \cup ToSet(bn(i))
    BY <1>8, <2>5, <2>6 DEF Grown
  <2>8. ASSUME NEW h \in 1..i PROVE ToSet(bn(h)) \subseteq acc[i]
    <3>1. CASE h = i
      BY <2>7, <3>1
    <3>2. CASE h # i
      <4>1. h \in 1..i - 1
        BY <2>5, <3>2
      <4>2. ToSet(bn(h)) \subseteq acc[i - 1]
        BY <2>6, <4>1 DEF Grown
      <4>3. QED
        BY <2>7, <4>2
    <3>3. QED
      BY <3>1, <3>2
  <2>9. Grown(i)
    BY <2>7, <2>8 DEF Grown
  <2>10. QED
    BY <2>9
<1>10. ASSUME NEW i \in 1..n PROVE Rebuilt(m(i), list(i))
  <2>1. i - 1 \in 0..n
    OBVIOUS
  <2>2. FiniteNats(acc[i - 1])
    BY <1>9, <2>1
  <2>3. Distinct(bn(i))
    BY <1>8, <2>2
  <2>4. Distinct(list(i))
    <3>1. SUFFICES ASSUME NEW a \in 1..Len(list(i)), NEW b \in 1..Len(list(i)),
                          list(i)[a] = list(i)[b]
                   PROVE  a = b
      BY DEF Distinct
    <3>2. bn(i)[a] = bn(i)[b] /\ Len(bn(i)) = Len(list(i))
      BY <1>6, <3>1
    <3>3. QED
      BY <2>3, <3>2 DEF Distinct
  <2>5. QED
    BY <1>6, <1>7, <2>4 DEF Rebuilt
<1>11. ASSUME NEW i \in 1..n, NEW j \in 1..n, i < j
       PROVE  ToSet(list(i)) \cap ToSet(list(j)) = {}
  <2>1. j - 1 \in 0..n /\ i \in 1..j - 1
    BY <1>11
  <2>2. FiniteNats(acc[j - 1]) /\ ToSet(bn(i)) \subseteq acc[j - 1]
    BY <1>9, <2>1
  <2>3. ToSet(bn(i)) \cap ToSet(bn(j)) = {}
    BY <1>8, <2>2
  <2>4. SUFFICES ASSUME NEW x \in ToSet(list(i)), x \in ToSet(list(j)) PROVE FALSE
    OBVIOUS
  <2>5. \A h \in 1..n : /\ DOMAIN list(h) = 1..Len(list(h))
                        /\ DOMAIN bn(h) = 1..Len(list(h))
    BY <1>6 DEF IsList, NullifierList
  <2>6. PICK a \in 1..Len(list(i)), b \in 1..Len(list(j)) :
               list(i)[a] = x /\ list(j)[b] = x
    BY <2>4, <2>5 DEF ToSet
  <2>7. bn(i)[a] = bn(j)[b]
    BY <1>6, <2>6
  <2>8. bn(i)[a] \in ToSet(bn(i)) /\ bn(j)[b] \in ToSet(bn(j))
    BY <2>5, <2>6 DEF ToSet
  <2>9. QED
    BY <2>3, <2>7, <2>8
<1>12. QED
  BY <1>10, <1>11 DEF m, list

-----------------------------------------------------------------------------
(* What a valid package encrypts *)

(* A package that passes its version's check has the ciphertext its voter  *)
(* made: swapped halves do not fit the hash the package carries.           *)
LEMMA ValidPackage ==
  ASSUME NEW b \in Ballot, NEW v \in 1..3, Valid(v, StoredPackage(v, b).package)
  PROVE  LET ct == StoredPackage(v, b).package.ciphertext
             pairs == Pairs(PublicKeyOf(b), b.choice, b.id)
         IN  ct.c1 = pairs.c1 /\ ct.c2 = pairs.c2
<1> DEFINE pairs == Pairs(PublicKeyOf(b), b.choice, b.id)
           whole == CASE v = 1 -> VotePackageV1(b)
                      [] v = 2 -> VotePackageV2(b)
                      [] v = 3 -> buildEligibleBallotWitness(b)
           p == StoredPackage(v, b).package
           stated(x) == CASE v = 1 -> x.publicInputsHash[5]
                          [] v = 2 -> x.packageCommitment[5]
                          [] v = 3 -> x.packageCommitment[6]
           hashed(ct) == IF v = 1 THEN digestBallotCiphertext(ct) ELSE ct
<1>1. b.damage \in {"none", "reencoded", "swapped", "badProof"}
  BY DEF Ballot
<1>2. /\ whole.ciphertext.c1 = pairs.c1
      /\ whole.ciphertext.c2 = pairs.c2
      /\ whole.version = v
      /\ {"ciphertext", "proof", "ballotNullifier"} \subseteq DOMAIN whole
      /\ {"c1", "c2"} \subseteq DOMAIN whole.ciphertext
      /\ stated(whole) = hashed(whole.ciphertext)
  <2> HIDE DEF pairs
  <2>1. CASE v = 1
    BY <2>1 DEF VotePackageV1, Extended, encryptBallotSelection, pairs,
                computeBallotPublicInputsHash
  <2>2. CASE v = 2
    BY <2>2 DEF VotePackageV2, Extended, encryptProofCompatibleBallot, pairs,
                computeProofCompatiblePackageCommitment
  <2>3. CASE v = 3
    BY <2>3 DEF buildEligibleBallotWitness, Extended,
                encryptProofCompatibleBallot, pairs,
                computeEligiblePackageCommitment
  <2>4. QED
    BY <2>1, <2>2, <2>3
<1>3. p = Damaged(b.damage, whole)
  BY DEF StoredPackage
<1>4. stated(p) = hashed(p.ciphertext)
  <2> HIDE DEF p
  <2>1. Valid(v, p)
    BY DEF p
  <2>2. CASE v = 1
    BY <2>1, <2>2 DEF Valid, validateVotePackage, computeBallotPublicInputsHash
  <2>3. CASE v = 2
    BY <2>1, <2>3 DEF Valid, validateProofCompatibleVotePackage,
                      computeProofCompatiblePackageCommitment
  <2>4. CASE v = 3
    BY <2>1, <2>4 DEF Valid, validateEligibleVotePackage,
                      computeEligiblePackageCommitment
  <2>5. QED
    BY <2>2, <2>3, <2>4
<1> HIDE DEF p, whole, pairs
<1>5. p.ciphertext = whole.ciphertext
  <2>1. CASE b.damage = "none"
    BY <1>2, <1>3, <2>1 DEF Damaged
  <2>2. CASE b.damage = "reencoded"
    BY <1>2, <1>3, <2>2 DEF Damaged, Reencoded
  <2>3. CASE b.damage = "swapped"
    <3>1. p = [whole EXCEPT !.ciphertext.c1 = whole.ciphertext.c2,
                            !.ciphertext.c2 = whole.ciphertext.c1]
      BY <1>3, <2>3 DEF Damaged
    <3>2. /\ p.publicInputsHash = whole.publicInputsHash
          /\ p.packageCommitment = whole.packageCommitment
      BY <3>1
    <3>3. stated(p) = stated(whole)
      BY <3>2
    <3> HIDE DEF stated
    <3>4. hashed(p.ciphertext) = hashed(whole.ciphertext)
      BY <1>2, <1>4, <3>3
    <3>5. QED
      BY <3>4 DEF digestBallotCiphertext
  <2>4. CASE b.damage = "badProof"
    BY <1>2, <1>3, <2>4 DEF Damaged
  <2>5. QED
    BY <1>1, <2>1, <2>2, <2>3, <2>4
<1>6. QED
  BY <1>2, <1>5 DEF p, pairs

(* Such a ciphertext encrypts the one ballot. *)
LEMMA FreshEncrypts ==
  ASSUME BatchInv, NEW id \in DOMAIN ballots, NEW ct,
         ct.c1 = Pairs(PublicKeyOf(ballots[id]), ballots[id].choice, id).c1,
         ct.c2 = Pairs(PublicKeyOf(ballots[id]), ballots[id].choice, id).c2
  PROVE  Encrypts(ct, {id}, ballots[id].privateKey)
<1> DEFINE b == ballots[id]
           key == PublicKeyOf(b)
           r == Randomness(id)
           votes(c) == VotesFor(c, {id})
<1>1. b \in Ballot /\ b.id = id
  BY ScenarioAssumption DEF BatchInv, ballots
<1>2. /\ id \in BallotIds /\ b.privateKey \in 1..Order - 1
      /\ Order \in Nat \ {0, 1} /\ BallotIds \subseteq Nat \ {0}
  BY <1>1, GroupAssumption DEF Ballot
<1>3. \A y \in 0..Order - 1 : modOrder(y) = y
  BY SmallRemainders
<1>4. key[0] = b.privateKey
  BY <1>1, KeyAtZero
<1>5. \A c : votes(c) = OneHot(b.choice)[c] \/ c \notin Candidates
  <2>1. SUFFICES ASSUME NEW c \in Candidates PROVE votes(c) = OneHot(b.choice)[c]
    OBVIOUS
  <2>2. CASE b.choice = c
    <3>1. {x \in {id} : ballots[x].choice = c} = {id}
      BY <2>2
    <3>2. Cardinality({id}) = 1
      BY FS_Singleton
    <3>3. QED
      BY <2>2, <3>1, <3>2 DEF VotesFor, OneHot
  <2>3. CASE b.choice # c
    <3>1. {x \in {id} : ballots[x].choice = c} = {}
      BY <2>3
    <3>2. Cardinality({}) = 0
      BY FS_EmptySet
    <3>3. QED
      BY <2>3, <3>1, <3>2 DEF VotesFor, OneHot
  <2>4. QED
    BY <2>2, <2>3
<1>6. r = [x \in BallotIds \cup {0} |-> IF x = id THEN 1 ELSE 0]
  BY <1>2 DEF Randomness, Zero
<1>7. ASSUME NEW c \in Candidates PROVE ct.c1[c] = Mask({id})
  <2>1. ct.c1[c] = r
    BY DEF Pairs
  <2> HIDE DEF r
  <2>2. QED
    BY <1>6, <2>1 DEF Mask
<1>8. ASSUME NEW c \in Candidates
      PROVE  ct.c2[c] = Masked(c, {id}, b.privateKey)
  <2> DEFINE vote == OneHot(b.choice)[c]
             masked == Multiply(r, key[0])
             message == Multiply(Base, vote)
  <2>1. ct.c2[c] = Add(masked, message)
    BY DEF Pairs
  <2>2. vote \in {0, 1} /\ votes(c) = vote
    BY <1>5 DEF OneHot
  <2> HIDE DEF vote, key, r, votes
  <2>3. masked = [x \in BallotIds \cup {0} |->
                    IF x = id THEN b.privateKey ELSE 0]
    <3>1. masked = [x \in BallotIds \cup {0} |->
                      modOrder((IF x = id THEN 1 ELSE 0) * b.privateKey)]
      BY <1>4, <1>6 DEF Multiply
    <3>2. \A x : modOrder((IF x = id THEN 1 ELSE 0) * b.privateKey)
                   = IF x = id THEN b.privateKey ELSE 0
      <4>1. 1 * b.privateKey = b.privateKey /\ 0 * b.privateKey = 0
            /\ b.privateKey \in 0..Order - 1 /\ 0 \in 0..Order - 1
        BY <1>2
      <4>2. QED
        BY <1>3, <4>1
    <3>3. QED
      BY <3>1, <3>2
  <2>4. message = [x \in BallotIds \cup {0} |-> IF x = 0 THEN vote ELSE 0]
    <3>1. Base = [x \in BallotIds \cup {0} |-> IF x = 0 THEN 1 ELSE 0]
      BY DEF Base, Zero
    <3>2. message = [x \in BallotIds \cup {0} |->
                       modOrder((IF x = 0 THEN 1 ELSE 0) * vote)]
      BY <3>1 DEF Multiply
    <3>3. \A x : modOrder((IF x = 0 THEN 1 ELSE 0) * vote)
                   = IF x = 0 THEN vote ELSE 0
      <4>1. 1 * vote = vote /\ 0 * vote = 0
            /\ vote \in 0..Order - 1 /\ 0 \in 0..Order - 1
        BY <1>2, <2>2
      <4>2. QED
        BY <1>3, <4>1
    <3>4. QED
      BY <3>2, <3>3
  <2> HIDE DEF masked, message
  <2>5. Add(masked, message)
          = [x \in BallotIds \cup {0} |->
               IF x = 0 THEN vote ELSE IF x = id THEN b.privateKey ELSE 0]
    <3>1. Add(masked, message)
            = [x \in BallotIds \cup {0} |-> modOrder(masked[x] + message[x])]
      BY <2>3 DEF Add
    <3>2. ASSUME NEW x \in BallotIds \cup {0}
          PROVE  modOrder(masked[x] + message[x])
                   = IF x = 0 THEN vote ELSE IF x = id THEN b.privateKey ELSE 0
      <4>1. masked[x] = (IF x = id THEN b.privateKey ELSE 0)
            /\ message[x] = (IF x = 0 THEN vote ELSE 0)
        BY <2>3, <2>4
      <4>2. id # 0
        BY <1>2
      <4>3. /\ 0 + vote = vote /\ b.privateKey + 0 = b.privateKey /\ 0 + 0 = 0
            /\ vote \in 0..Order - 1 /\ b.privateKey \in 0..Order - 1
            /\ 0 \in 0..Order - 1
        BY <1>2, <2>2
      <4>4. CASE x = 0
        BY <1>3, <4>1, <4>2, <4>3, <4>4
      <4>5. CASE x = id
        BY <1>3, <4>1, <4>2, <4>3, <4>5
      <4>6. CASE x # 0 /\ x # id
        BY <1>3, <4>1, <4>2, <4>3, <4>6
      <4>7. QED
        BY <4>4, <4>5, <4>6
    <3>3. QED
      BY <3>1, <3>2
  <2>6. Masked(c, {id}, b.privateKey)
          = [x \in BallotIds \cup {0} |->
               IF x = 0 THEN vote ELSE IF x = id THEN b.privateKey ELSE 0]
    BY <2>2 DEF Masked, votes
  <2>7. QED
    BY <2>1, <2>5, <2>6
<1>9. QED
  BY <1>7, <1>8 DEF Encrypts

(* The packages a batch was rebuilt from are valid, each the encryption of *)
(* its ballot.                                                             *)
LEMMA RebuiltPackages ==
  ASSUME BatchInv, NEW m, NEW list, Rebuilt(m, list)
  PROVE  /\ version \in 1..3
         /\ Len(list) \in Nat /\ DOMAIN list = 1..Len(list) /\ 1 \in 1..Len(list)
         /\ ToSet(list) = {list[j] : j \in 1..Len(list)}
         /\ Stored(list) = [j \in 1..Len(list) |->
                              StoredPackage(version, ballots[list[j]])]
         /\ \A id \in ToSet(list) :
              /\ id \in DOMAIN ballots /\ ballots[id] \in Ballot
              /\ ballots[id].id = id
              /\ PackageOf(id).ciphertext.electionPublicKeyHash = KeyHash(id)
              /\ Encrypts(PackageOf(id).ciphertext, {id}, ballots[id].privateKey)
<1> DEFINE n == Len(list)
<1>1. /\ IsList(list) /\ n \in Nat /\ list = [j \in 1..n |-> list[j]]
      /\ \A j \in 1..n : list[j] \in DOMAIN ballots
      /\ scenario \in Scenarios /\ version \in 1..3
  BY ScenarioAssumption DEF Rebuilt, IsList, BatchInv, version
<1>2. PICK q : ManifestOf(m, version, scenario.election, Stored(list), q)
  BY DEF Rebuilt
<1> HIDE DEF n
<1>3. DOMAIN list = 1..n /\ ToSet(list) = {list[j] : j \in 1..n}
  BY <1>1 DEF ToSet
<1>4. Stored(list) = [j \in 1..n |-> StoredPackage(version, ballots[list[j]])]
  BY <1>3 DEF Stored
<1>5. 1 \in 1..n
  <2>1. Stored(list) # << >>
    BY <1>2 DEF ManifestOf
  <2>2. n # 0
    <3>1. SUFFICES ASSUME n = 0 PROVE FALSE
      OBVIOUS
    <3>2. Stored(list) = << >>
      BY <1>4, <3>1
    <3>3. QED
      BY <2>1, <3>2
  <2>3. QED
    BY <1>1, <2>2 DEF n
<1>6. ASSUME NEW id \in ToSet(list)
      PROVE  /\ id \in DOMAIN ballots /\ ballots[id] \in Ballot
             /\ ballots[id].id = id
             /\ PackageOf(id).ciphertext.electionPublicKeyHash = KeyHash(id)
             /\ Encrypts(PackageOf(id).ciphertext, {id}, ballots[id].privateKey)
  <2>1. PICK j \in 1..n : list[j] = id
    BY <1>3
  <2>2. id \in DOMAIN ballots /\ ballots[id] \in Ballot /\ ballots[id].id = id
    BY <1>1, <2>1, ScenarioAssumption DEF ballots
  <2>3. j \in DOMAIN Stored(list) /\ Stored(list)[j].package = PackageOf(id)
    BY <1>4, <2>1 DEF PackageOf
  <2>4. Valid(version, PackageOf(id))
    BY <1>2, <2>3 DEF ManifestOf
  <2>5. PackageOf(id).ciphertext.electionPublicKeyHash = KeyHash(id)
    BY <1>1, <2>2, PackageFields DEF PackageOf, KeyHash
  <2> DEFINE ct == PackageOf(id).ciphertext
             pairs == Pairs(PublicKeyOf(ballots[id]), ballots[id].choice, id)
  <2>6. ct.c1 = pairs.c1 /\ ct.c2 = pairs.c2
    BY <1>1, <2>2, <2>4, ValidPackage DEF PackageOf
  <2> HIDE DEF ct
  <2>7. Encrypts(ct, {id}, ballots[id].privateKey)
    BY <2>2, <2>6, FreshEncrypts
  <2>8. QED
    BY <2>2, <2>5, <2>7 DEF ct
<1>7. QED
  BY <1>1, <1>3, <1>4, <1>5, <1>6 DEF n

(* The aggregate of a batch encrypts its ballots, all under one key.       *)
LEMMA BatchEncrypts ==
  ASSUME BatchInv, NEW m, NEW list, Rebuilt(m, list), version # 1
  PROVE  LET key == ballots[list[1]].privateKey
             ct == m.aggregateCiphertext
         IN  /\ key \in 1..Order - 1
             /\ ct.electionPublicKeyHash = KeyHash(list[1])
             /\ \A id \in ToSet(list) : ballots[id].privateKey = key
             /\ Encrypts(ct, ToSet(list), key)
<1> DEFINE n == Len(list)
           key == ballots[list[1]].privateKey
           ct == m.aggregateCiphertext
           cts == [i \in DOMAIN Stored(list) |-> Stored(list)[i].package.ciphertext]
           I == [i \in 1..n |-> {list[i]}]
<1>1. /\ n \in Nat /\ 1 \in 1..n
      /\ ToSet(list) = {list[j] : j \in 1..n}
      /\ Stored(list) = [j \in 1..n |-> StoredPackage(version, ballots[list[j]])]
      /\ \A id \in ToSet(list) :
           /\ id \in DOMAIN ballots /\ ballots[id] \in Ballot
           /\ ballots[id].id = id
           /\ PackageOf(id).ciphertext.electionPublicKeyHash = KeyHash(id)
           /\ Encrypts(PackageOf(id).ciphertext, {id}, ballots[id].privateKey)
  <2>1. n \in Nat /\ 1 \in 1..n /\ ToSet(list) = {list[j] : j \in 1..n}
    BY RebuiltPackages
  <2>2. Stored(list) = [j \in 1..n |-> StoredPackage(version, ballots[list[j]])]
    BY RebuiltPackages
  <2>3. \A id \in ToSet(list) :
          /\ id \in DOMAIN ballots /\ ballots[id] \in Ballot
          /\ ballots[id].id = id
          /\ PackageOf(id).ciphertext.electionPublicKeyHash = KeyHash(id)
          /\ Encrypts(PackageOf(id).ciphertext, {id}, ballots[id].privateKey)
    BY RebuiltPackages
  <2>4. QED
    BY <2>1, <2>2, <2>3
<1>2. Distinct(list)
  BY DEF Rebuilt
<1>3. ct \in aggregateProofCompatibleCiphertexts(cts)
  BY DEF Rebuilt, ManifestOf
<1> HIDE DEF n, ct
<1>4. DOMAIN cts = 1..n /\ \A i \in 1..n : cts[i] = PackageOf(list[i]).ciphertext
  BY <1>1 DEF PackageOf
<1> HIDE DEF cts
<1>5. ct = PointwiseSum(cts) /\ SameKey(cts)
  BY <1>3 DEF aggregateProofCompatibleCiphertexts
<1>6. \A i \in 1..n : list[i] \in ToSet(list)
  BY <1>1
<1>7. \A i \in 1..n : KeyHash(list[i]) = KeyHash(list[1])
  <2>1. \A i \in 1..n :
          cts[i].electionPublicKeyHash = cts[1].electionPublicKeyHash
    BY <1>4, <1>5 DEF SameKey
  <2>2. \A i \in 1..n : cts[i].electionPublicKeyHash = KeyHash(list[i])
    BY <1>1, <1>4, <1>6
  <2>3. QED
    BY <1>1, <2>1, <2>2
<1>8. ASSUME NEW i \in 1..n PROVE ballots[list[i]].privateKey = key
  <2>1. ballots[list[i]] \in Ballot /\ ballots[list[1]] \in Ballot
    BY <1>1, <1>6
  <2>2. KeyHash(list[i]) = KeyHash(list[1])
    BY <1>7
  <2>3. QED
    BY <2>1, <2>2, KeysNamed DEF KeyHash
<1>9. key \in 1..Order - 1
  BY <1>1, <1>6 DEF Ballot
<1>10. ct.electionPublicKeyHash = KeyHash(list[1])
  BY <1>1, <1>4, <1>5, <1>6 DEF PointwiseSum
<1>11. Encrypts(ct, ToSet(list), key)
  <2>1. \A i \in 1..n : /\ I[i] \in SUBSET DOMAIN ballots
                        /\ Encrypts(cts[i], I[i], key)
    <3>1. SUFFICES ASSUME NEW i \in 1..n
                   PROVE  /\ I[i] \in SUBSET DOMAIN ballots
                          /\ Encrypts(cts[i], I[i], key)
      OBVIOUS
    <3>2. list[i] \in ToSet(list) /\ I[i] = {list[i]}
          /\ ballots[list[i]].privateKey = key
      BY <1>6, <1>8
    <3> HIDE DEF I, key
    <3>3. QED
      BY <1>1, <1>4, <3>2
  <2>2. \A i, j \in 1..n : i < j => I[i] \cap I[j] = {}
    BY <1>1, <1>2 DEF Distinct, n
  <2>3. UNION {I[i] : i \in 1..n} = ToSet(list)
    BY <1>1
  <2> HIDE DEF I, key
  <2>4. Encrypts(PointwiseSum(cts), UNION {I[i] : i \in 1..n}, key)
    BY <1>1, <1>4, <1>9, <2>1, <2>2, SumEncrypts
  <2>5. QED
    BY <1>5, <2>3, <2>4
<1>12. QED
  BY <1>1, <1>8, <1>9, <1>10, <1>11 DEF ct

(* A manifest names the list it was built from. *)
LEMMA ListNamed ==
  ASSUME BatchInv, NEW a \in artifacts, NEW list, Rebuilt(a.manifest, list)
  PROVE  ListOf(a.manifest) = list
<1> DEFINE m == a.manifest
           other == CHOOSE b \in artifacts : b.manifest = m
           n == Len(list)
<1>1. other \in artifacts /\ other.manifest = m /\ ListOf(m) = other.list
  BY DEF ListOf
<1> HIDE DEF other
<1>2. /\ version \in 1..3 /\ IsList(other.list)
      /\ IsList(m.packageDigests) /\ Len(m.packageDigests) = Len(other.list)
      /\ \A i \in 1..Len(other.list) :
           /\ other.list[i] \in DOMAIN ballots
           /\ m.packageDigests[i]
                = DigestOf(version, StoredPackage(version, ballots[other.list[i]]))
  BY <1>1, ArtifactLeaves
<1>3. /\ IsList(list) /\ n \in Nat
      /\ \A i \in 1..n : list[i] \in DOMAIN ballots
      /\ Stored(list) = [j \in 1..n |-> StoredPackage(version, ballots[list[j]])]
  <2>1. /\ n \in Nat
        /\ Stored(list) = [j \in 1..n |-> StoredPackage(version, ballots[list[j]])]
    BY RebuiltPackages
  <2>2. IsList(list) /\ \A i \in 1..n : list[i] \in DOMAIN ballots
    BY DEF Rebuilt
  <2>3. QED
    BY <2>1, <2>2
<1>4. PICK q : ManifestOf(m, version, scenario.election, Stored(list), q)
  BY DEF Rebuilt
<1> HIDE DEF m, n
<1>5. m.packageDigests
        = [i \in 1..n |-> DigestOf(version, StoredPackage(version, ballots[list[i]]))]
  BY <1>3, <1>4 DEF ManifestOf
<1>6. Len(other.list) = n
  <2>1. Len(m.packageDigests) = n
    <3>1. m.packageDigests = [i \in 1..n |-> m.packageDigests[i]]
      BY <1>5
    <3>2. QED
      BY <1>3, <3>1, ListOfLength
  <2>2. QED
    BY <1>2, <2>1
<1>7. \A x \in DOMAIN ballots : ballots[x] \in Ballot /\ ballots[x].id = x
  BY ScenarioAssumption DEF BatchInv, ballots
<1>8. ASSUME NEW i \in 1..n PROVE other.list[i] = list[i]
  <2> DEFINE S(x) == StoredPackage(version, ballots[x])
  <2>1. DigestOf(version, S(other.list[i])) = DigestOf(version, S(list[i]))
    BY <1>2, <1>5, <1>6
  <2>2. S(other.list[i]).package = S(list[i]).package
    <3> HIDE DEF S
    <3>1. QED
      BY <1>2, <2>1, LeavesTell
  <2>3. ballots[other.list[i]].id = ballots[list[i]].id
    BY <1>2, <1>3, <1>6, <1>7, <2>2, PackageNamesBallot
  <2>4. QED
    BY <1>2, <1>3, <1>6, <1>7, <2>3
<1>9. other.list = list
  BY <1>2, <1>3, <1>6, <1>8 DEF IsList, n
<1>10. QED
  BY <1>1, <1>9 DEF m

-----------------------------------------------------------------------------
(* The tally of rebuilt batches *)

(* Entries whose lists give their manifests, no ballot twice. *)
Sound(entries, n) ==
  /\ n \in Nat /\ n >= 1
  /\ entries \in [1..n -> Entries]
  /\ \A i \in 1..n : Rebuilt(entries[i].artifact.manifest, entries[i].list)
  /\ \A i, j \in 1..n :
       i < j => ToSet(entries[i].list) \cap ToSet(entries[j].list) = {}

BallotsOf(entries, n) == UNION {ToSet(entries[i].list) : i \in 1..n}

(* What the entries are for the tally scripts. *)
LEMMA InputIs ==
  ASSUME NEW n \in Nat, NEW entries, DOMAIN entries = 1..n, NEW known
  PROVE  LET input == TallyInput(entries, known)
         IN  /\ DOMAIN input.batches = 1..n /\ Len(input.batches) = n
             /\ \A i \in 1..n :
                  /\ input.batches[i].artifact = entries[i].artifact.manifest
                  /\ input.batches[i].packages = Stored(entries[i].list)
<1> DEFINE input == TallyInput(entries, known)
<1>1. /\ input.batches = [i \in 1..n |-> input.batches[i]]
      /\ DOMAIN input.batches = 1..n
      /\ \A i \in 1..n :
           /\ input.batches[i].artifact = entries[i].artifact.manifest
           /\ input.batches[i].packages = Stored(entries[i].list)
  BY DEF TallyInput
<1> HIDE DEF input
<1>2. Len(input.batches) = n
  BY <1>1, ListOfLength
<1>3. QED
  BY <1>1, <1>2 DEF input

(* The ballots in such a tally's batches are those of the entries. *)
LEMMA BallotsNamed ==
  ASSUME BatchInv, NEW n, NEW entries, Sound(entries, n), NEW known
  PROVE  BallotsIn(Manifests(TallyInput(entries, known))) = BallotsOf(entries, n)
<1> DEFINE ms == Manifests(TallyInput(entries, known))
<1>1. n \in Nat /\ DOMAIN entries = 1..n
  BY DEF Sound
<1>2. /\ DOMAIN ms = 1..n
      /\ \A i \in 1..n : ms[i] = entries[i].artifact.manifest
  BY <1>1, InputIs DEF Manifests
<1>3. ToSet(ms) = {ms[i] : i \in 1..n}
  BY <1>2 DEF ToSet
<1> HIDE DEF ms
<1>4. ASSUME NEW i \in 1..n PROVE ListOf(ms[i]) = entries[i].list
  <2>1. entries[i].artifact \in artifacts
    BY DEF Sound, Entries
  <2>2. Rebuilt(entries[i].artifact.manifest, entries[i].list)
    BY DEF Sound
  <2>3. QED
    BY <1>2, <2>1, <2>2, ListNamed
<1>5. BallotsIn(ms) = UNION {ToSet(ListOf(ms[i])) : i \in 1..n}
  BY <1>3 DEF BallotsIn
<1>6. QED
  BY <1>4, <1>5 DEF BallotsOf, ms

(* Each package of the tally is that of one of these ballots, every ballot *)
(* once.                                                                   *)
LEMMA TallyPackages ==
  ASSUME BatchInv, NEW n, NEW entries, Sound(entries, n), NEW known
  PROVE  LET P == Packages(TallyInput(entries, known))
             ids == BallotsOf(entries, n)
         IN  /\ Len(P) \in Nat /\ DOMAIN P = 1..Len(P)
             /\ Len(P) = Cardinality(ids)
             /\ \E owner : /\ DOMAIN owner = 1..Len(P)
                           /\ ids = {owner[j] : j \in 1..Len(P)}
                           /\ \A j \in 1..Len(P) : P[j] = PackageOf(owner[j])
                           /\ \A i, j \in 1..Len(P) : owner[i] = owner[j] => i = j
<1> DEFINE input == TallyInput(entries, known)
           P == Packages(input)
           ids == BallotsOf(entries, n)
           list(i) == entries[i].list
           seqs == [i \in DOMAIN input.batches |->
                      [j \in DOMAIN input.batches[i].packages |->
                         input.batches[i].packages[j].package]]
<1>1. n \in Nat /\ n >= 1 /\ DOMAIN entries = 1..n
  BY DEF Sound
<1>2. /\ DOMAIN input.batches = 1..n
      /\ \A i \in 1..n : input.batches[i].packages = Stored(list(i))
  BY <1>1, InputIs
<1>3. P = FlattenSeq(seqs)
  BY DEF Packages
<1> HIDE DEF input, P
<1>4. \A i \in 1..n :
        seqs[i] = [j \in DOMAIN Stored(list(i)) |-> Stored(list(i))[j].package]
  BY <1>2
<1>5. seqs = [i \in 1..n |-> seqs[i]]
  BY <1>2
<1> HIDE DEF seqs
<1>6. Len(seqs) = n
  BY <1>1, <1>5, ListOfLength
<1>7. \A i \in 1..n : /\ ToSet(list(i)) \subseteq ids
                      /\ \A id \in ToSet(list(i)) :
                           ballots[id] \in Ballot /\ ballots[id].id = id
  <2>1. SUFFICES ASSUME NEW i \in 1..n
                 PROVE  \A id \in ToSet(list(i)) :
                           ballots[id] \in Ballot /\ ballots[id].id = id
    BY DEF BallotsOf
  <2> DEFINE l == list(i)
  <2>2. Rebuilt(entries[i].artifact.manifest, l)
    BY DEF Sound
  <2> HIDE DEF l
  <2>3. \A id \in ToSet(l) :
          /\ id \in DOMAIN ballots /\ ballots[id] \in Ballot
          /\ ballots[id].id = id
          /\ PackageOf(id).ciphertext.electionPublicKeyHash = KeyHash(id)
          /\ Encrypts(PackageOf(id).ciphertext, {id}, ballots[id].privateKey)
    BY <2>2, RebuiltPackages
  <2>4. QED
    BY <2>3 DEF l
<1>8. version \in 1..3
  BY ScenarioAssumption DEF BatchInv, version
<1>9. \A x, y \in ids : PackageOf(x) = PackageOf(y) => x = y
  <2>1. SUFFICES ASSUME NEW x \in ids, NEW y \in ids, PackageOf(x) = PackageOf(y)
                 PROVE  x = y
    OBVIOUS
  <2>2. ballots[x] \in Ballot /\ ballots[x].id = x
    BY <1>7 DEF BallotsOf
  <2>3. ballots[y] \in Ballot /\ ballots[y].id = y
    BY <1>7 DEF BallotsOf
  <2>4. ballots[x].id = ballots[y].id
    BY <1>8, <2>1, <2>2, <2>3, PackageNamesBallot DEF PackageOf
  <2>5. QED
    BY <2>2, <2>3, <2>4
<1>10. ASSUME NEW i \in 1..n
       PROVE  /\ IsList(seqs[i]) /\ Distinct(seqs[i])
              /\ ToSet(seqs[i]) = {PackageOf(id) : id \in ToSet(list(i))}
  <2> DEFINE l == list(i)
             m == Len(l)
             s == seqs[i]
  <2>1. Rebuilt(entries[i].artifact.manifest, l)
    BY DEF Sound
  <2>2. m \in Nat
    BY <2>1, RebuiltPackages
  <2>3. Stored(l) = [j \in 1..m |-> StoredPackage(version, ballots[l[j]])]
    BY <2>1, RebuiltPackages
  <2>4. ToSet(l) = {l[j] : j \in 1..m}
    BY <2>1, RebuiltPackages
  <2>5. Distinct(l)
    BY <2>1 DEF Rebuilt
  <2>6. s = [j \in DOMAIN Stored(l) |-> Stored(l)[j].package]
    BY <1>4
  <2>7. ToSet(l) \subseteq ids
    BY <1>7
  <2> HIDE DEF s, m, l
  <2>8. s = [j \in 1..m |-> PackageOf(l[j])]
    BY <2>3, <2>6 DEF PackageOf
  <2>9. IsList(s) /\ Len(s) = m /\ DOMAIN s = 1..m
    <3>1. s = [j \in 1..m |-> s[j]] /\ DOMAIN s = 1..m
      BY <2>8
    <3>2. QED
      BY <2>2, <3>1, ListOfLength
  <2>10. ToSet(s) = {s[j] : j \in 1..m}
    BY <2>9 DEF ToSet
  <2>11. ToSet(s) = {PackageOf(id) : id \in ToSet(l)}
    BY <2>4, <2>8, <2>10
  <2>12. Distinct(s)
    <3>1. SUFFICES ASSUME NEW a \in 1..m, NEW b \in 1..m, s[a] = s[b] PROVE a = b
      BY <2>9 DEF Distinct
    <3>2. PackageOf(l[a]) = PackageOf(l[b]) /\ l[a] \in ids /\ l[b] \in ids
      BY <2>4, <2>7, <2>8, <3>1
    <3>3. l[a] = l[b]
      BY <1>9, <3>2
    <3>4. QED
      BY <2>5, <3>3 DEF Distinct, m
  <2>13. QED
    BY <2>9, <2>11, <2>12 DEF s, l
<1>11. \A i, j \in 1..n : i < j => ToSet(seqs[i]) \cap ToSet(seqs[j]) = {}
  <2>1. SUFFICES ASSUME NEW i \in 1..n, NEW j \in 1..n, i < j,
                        NEW p, p \in ToSet(seqs[i]), p \in ToSet(seqs[j])
                 PROVE  FALSE
    OBVIOUS
  <2>2. PICK x \in ToSet(list(i)) : p = PackageOf(x)
    BY <1>10, <2>1
  <2>3. PICK y \in ToSet(list(j)) : p = PackageOf(y)
    BY <1>10, <2>1
  <2>4. x = y
    BY <1>7, <1>9, <2>2, <2>3
  <2>5. ToSet(list(i)) \cap ToSet(list(j)) = {}
    BY <2>1 DEF Sound
  <2>6. QED
    BY <2>2, <2>3, <2>4, <2>5
<1> HIDE DEF list
<1>12. /\ IsList(P) /\ Distinct(P)
       /\ ToSet(P) = UNION {ToSet(seqs[i]) : i \in 1..n}
  <2>1. /\ IsList(FlattenSeq(seqs)) /\ Distinct(FlattenSeq(seqs))
        /\ ToSet(FlattenSeq(seqs)) = UNION {ToSet(seqs[i]) : i \in 1..n}
    BY <1>1, <1>6, <1>10, <1>11, FlattenIs
  <2>2. QED
    BY <1>3, <2>1
<1> DEFINE m == Len(P)
<1>13. m \in Nat /\ DOMAIN P = 1..m /\ ToSet(P) = {P[j] : j \in 1..m}
  <2>1. Len(P) \in Nat /\ P = [j \in 1..Len(P) |-> P[j]]
    BY <1>12 DEF IsList
  <2>2. QED
    BY <2>1 DEF ToSet
<1> HIDE DEF m
<1> DEFINE owner == [j \in 1..m |-> CHOOSE id \in ids : P[j] = PackageOf(id)]
<1>14. ids = UNION {ToSet(list(i)) : i \in 1..n}
  BY DEF BallotsOf, list
<1> HIDE DEF ids
<1>15. ASSUME NEW j \in 1..m PROVE owner[j] \in ids /\ P[j] = PackageOf(owner[j])
  <2>1. PICK i \in 1..n : P[j] \in ToSet(seqs[i])
    BY <1>12, <1>13
  <2>2. PICK id \in ToSet(list(i)) : P[j] = PackageOf(id)
    BY <1>10, <2>1 DEF list
  <2>3. id \in ids
    BY <1>14
  <2>4. QED
    BY <2>2, <2>3
<1>16. ASSUME NEW id \in ids PROVE \E j \in 1..m : owner[j] = id
  <2>1. PICK i \in 1..n : id \in ToSet(list(i))
    BY <1>14
  <2>2. PackageOf(id) \in ToSet(seqs[i])
    BY <1>10, <2>1 DEF list
  <2>3. PICK j \in 1..m : P[j] = PackageOf(id)
    BY <1>12, <1>13, <2>2
  <2>4. owner[j] \in ids /\ PackageOf(owner[j]) = PackageOf(id)
    BY <1>15, <2>3
  <2>5. QED
    BY <1>9, <2>4
<1>17. \A i, j \in 1..m : owner[i] = owner[j] => i = j
  <2>1. SUFFICES ASSUME NEW i \in 1..m, NEW j \in 1..m, owner[i] = owner[j]
                 PROVE  i = j
    OBVIOUS
  <2>2. P[i] = P[j]
    BY <1>15, <2>1
  <2>3. QED
    BY <1>12, <2>2 DEF Distinct, m
<1>18. DOMAIN owner = 1..m
  OBVIOUS
<1> HIDE DEF owner
<1>19. ids = {owner[j] : j \in 1..m}
  BY <1>15, <1>16
<1>20. Cardinality(ids) = m
  <2>1. Cardinality({owner[j] : j \in 1..m}) = m
    BY <1>13, <1>17, <1>18, DistinctImages
  <2>2. QED
    BY <1>19, <2>1
<1>21. QED
  BY <1>13, <1>15, <1>17, <1>18, <1>19, <1>20 DEF m, P, ids, input

(* There is a ballot in it. *)
LEMMA SomeBallot ==
  ASSUME BatchInv, NEW n, NEW entries, Sound(entries, n)
  PROVE  BallotsOf(entries, n) # {}
<1> DEFINE l == entries[1].list
<1>1. 1 \in 1..n
  BY DEF Sound
<1>2. Rebuilt(entries[1].artifact.manifest, l)
  BY <1>1 DEF Sound
<1>3. ToSet(l) \subseteq BallotsOf(entries, n)
  BY <1>1 DEF BallotsOf
<1> HIDE DEF l
<1>4. 1 \in 1..Len(l)
  BY <1>2, RebuiltPackages
<1>5. ToSet(l) = {l[j] : j \in 1..Len(l)}
  BY <1>2, RebuiltPackages
<1>6. l[1] \in ToSet(l)
  BY <1>4, <1>5
<1>7. QED
  BY <1>3, <1>6

(* A ciphertext of the ballots' votes, under their one key. *)
HoldsVotes(ct, ids, key) ==
  /\ \A id \in ids : ballots[id].privateKey = key
  /\ ct.electionPublicKeyHash = PublicKeyHash(version, Multiply(Base, key))
  /\ Encrypts(ct, ids, key)

(* Version 1 adds up the ciphertexts of all packages. *)
LEMMA PackagesSum ==
  ASSUME BatchInv, NEW n, NEW entries, Sound(entries, n), NEW known,
         NEW ct \in aggregateBallotCiphertexts(
                      Ciphertexts(TallyInput(entries, known)))
  PROVE  \E key \in 1..Order - 1 : HoldsVotes(ct, BallotsOf(entries, n), key)
<1> DEFINE P == Packages(TallyInput(entries, known))
           cts == Ciphertexts(TallyInput(entries, known))
           ids == BallotsOf(entries, n)
           m == Len(P)
<1>1. /\ m \in Nat /\ DOMAIN P = 1..m /\ m = Cardinality(ids)
  BY TallyPackages
<1>2. PICK owner : /\ DOMAIN owner = 1..m
                   /\ ids = {owner[j] : j \in 1..m}
                   /\ \A j \in 1..m : P[j] = PackageOf(owner[j])
                   /\ \A i, j \in 1..m : owner[i] = owner[j] => i = j
  BY TallyPackages
<1>3. DOMAIN cts = 1..m /\ \A j \in 1..m : cts[j] = P[j].ciphertext
  <2> HIDE DEF m
  <2>1. QED
    BY <1>1 DEF Ciphertexts
<1>4. ct = PointwiseSum(cts) /\ cts # << >> /\ SameKey(cts)
  BY DEF aggregateBallotCiphertexts
<1> HIDE DEF cts, P, m
<1>5. 1 \in 1..m
  <2>1. m # 0
    <3>1. SUFFICES ASSUME m = 0 PROVE FALSE
      OBVIOUS
    <3>2. ids # {}
      BY SomeBallot
    <3>3. QED
      BY <1>2, <3>1, <3>2
  <2>2. m \in Nat
    BY <1>1
  <2>3. QED
    BY <2>1, <2>2
<1>6. ASSUME NEW id \in ids
      PROVE  /\ id \in DOMAIN ballots /\ ballots[id] \in Ballot
             /\ PackageOf(id).ciphertext.electionPublicKeyHash = KeyHash(id)
             /\ Encrypts(PackageOf(id).ciphertext, {id}, ballots[id].privateKey)
  <2>1. PICK i \in 1..n : id \in ToSet(entries[i].list)
    BY DEF BallotsOf
  <2> DEFINE l == entries[i].list
  <2>2. Rebuilt(entries[i].artifact.manifest, l) /\ id \in ToSet(l)
    BY <2>1 DEF Sound
  <2> HIDE DEF l
  <2>3. \A x \in ToSet(l) :
          /\ x \in DOMAIN ballots /\ ballots[x] \in Ballot
          /\ ballots[x].id = x
          /\ PackageOf(x).ciphertext.electionPublicKeyHash = KeyHash(x)
          /\ Encrypts(PackageOf(x).ciphertext, {x}, ballots[x].privateKey)
    BY <2>2, RebuiltPackages
  <2>4. QED
    BY <2>2, <2>3
<1> HIDE DEF ids
<1>7. \A j \in 1..m : /\ owner[j] \in ids
                      /\ cts[j] = PackageOf(owner[j]).ciphertext
                      /\ cts[j].electionPublicKeyHash = KeyHash(owner[j])
  BY <1>2, <1>3, <1>6
<1> DEFINE key == ballots[owner[1]].privateKey
           I == [j \in 1..m |-> {owner[j]}]
<1>8. \A j \in 1..m : KeyHash(owner[j]) = KeyHash(owner[1])
  <2>1. \A j \in 1..m :
          cts[j].electionPublicKeyHash = cts[1].electionPublicKeyHash
    BY <1>3, <1>4 DEF SameKey
  <2>2. QED
    BY <1>5, <1>7, <2>1
<1>9. ASSUME NEW j \in 1..m PROVE ballots[owner[j]].privateKey = key
  <2>1. ballots[owner[j]] \in Ballot /\ ballots[owner[1]] \in Ballot
    BY <1>5, <1>6, <1>7
  <2>2. KeyHash(owner[j]) = KeyHash(owner[1])
    BY <1>8
  <2>3. QED
    BY <2>1, <2>2, KeysNamed DEF KeyHash
<1>10. key \in 1..Order - 1
  BY <1>5, <1>6, <1>7 DEF Ballot
<1>11. ct.electionPublicKeyHash = PublicKeyHash(version, Multiply(Base, key))
  BY <1>4, <1>5, <1>7 DEF PointwiseSum, KeyHash, PublicKeyOf
<1>12. \A id \in ids : ballots[id].privateKey = key
  BY <1>2, <1>9
<1>13. Encrypts(ct, ids, key)
  <2>1. \A j \in 1..m : /\ I[j] \in SUBSET DOMAIN ballots
                        /\ Encrypts(cts[j], I[j], key)
    <3>1. SUFFICES ASSUME NEW j \in 1..m
                   PROVE  /\ I[j] \in SUBSET DOMAIN ballots
                          /\ Encrypts(cts[j], I[j], key)
      OBVIOUS
    <3>2. owner[j] \in ids /\ I[j] = {owner[j]}
          /\ ballots[owner[j]].privateKey = key
      BY <1>7, <1>9
    <3> HIDE DEF I, key
    <3>3. QED
      BY <1>6, <1>7, <3>2
  <2>2. \A i, j \in 1..m : i < j => I[i] \cap I[j] = {}
    <3>1. SUFFICES ASSUME NEW i \in 1..m, NEW j \in 1..m, i < j
                   PROVE  owner[i] # owner[j]
      OBVIOUS
    <3>2. i # j
      BY <1>1, <3>1
    <3>3. QED
      BY <1>2, <3>2
  <2>3. UNION {I[j] : j \in 1..m} = ids
    BY <1>2
  <2> HIDE DEF I, key
  <2>4. Encrypts(PointwiseSum(cts), UNION {I[j] : j \in 1..m}, key)
    BY <1>1, <1>3, <1>10, <2>1, <2>2, SumEncrypts
  <2>5. QED
    BY <1>4, <2>3, <2>4
<1> HIDE DEF key
<1>14. QED
  BY <1>10, <1>11, <1>12, <1>13 DEF HoldsVotes, ids

(* Versions 2 and 3 add up the aggregates of the batches. *)
LEMMA BatchesSum ==
  ASSUME BatchInv, version # 1, NEW n, NEW entries, Sound(entries, n), NEW known,
         NEW ct \in AggregateOfBatches(TallyInput(entries, known))
  PROVE  \E key \in 1..Order - 1 : HoldsVotes(ct, BallotsOf(entries, n), key)
<1> DEFINE input == TallyInput(entries, known)
           cts == [i \in DOMAIN input.batches |->
                     input.batches[i].artifact.aggregateCiphertext]
           ids == BallotsOf(entries, n)
           head(i) == entries[i].list[1]
           I == [i \in 1..n |-> ToSet(entries[i].list)]
           key == ballots[head(1)].privateKey
<1>1. n \in Nat /\ 1 \in 1..n /\ DOMAIN entries = 1..n
  BY DEF Sound
<1>2. /\ DOMAIN cts = 1..n
      /\ \A i \in 1..n : cts[i] = entries[i].artifact.manifest.aggregateCiphertext
  BY <1>1, InputIs
<1>3. ct = PointwiseSum(cts) /\ SameKey(cts)
  BY DEF AggregateOfBatches, aggregateProofCompatibleCiphertexts
<1> HIDE DEF cts, input, head
<1>4. ASSUME NEW i \in 1..n
      PROVE  /\ ballots[head(i)].privateKey \in 1..Order - 1
             /\ ballots[head(i)] \in Ballot
             /\ cts[i].electionPublicKeyHash = KeyHash(head(i))
             /\ \A id \in I[i] : ballots[id].privateKey
                                   = ballots[head(i)].privateKey
             /\ Encrypts(cts[i], I[i], ballots[head(i)].privateKey)
             /\ I[i] \in SUBSET DOMAIN ballots
  <2> DEFINE l == entries[i].list
             mf == entries[i].artifact.manifest
  <2>1. Rebuilt(mf, l)
    BY DEF Sound
  <2>2. cts[i] = mf.aggregateCiphertext /\ I[i] = ToSet(l) /\ head(i) = l[1]
    BY <1>2 DEF head
  <2> HIDE DEF l, mf, I
  <2>3. /\ ballots[l[1]].privateKey \in 1..Order - 1
        /\ mf.aggregateCiphertext.electionPublicKeyHash = KeyHash(l[1])
        /\ \A id \in ToSet(l) : ballots[id].privateKey = ballots[l[1]].privateKey
        /\ Encrypts(mf.aggregateCiphertext, ToSet(l), ballots[l[1]].privateKey)
    BY <2>1, BatchEncrypts
  <2>4. \A x \in ToSet(l) :
          /\ x \in DOMAIN ballots /\ ballots[x] \in Ballot
          /\ ballots[x].id = x
          /\ PackageOf(x).ciphertext.electionPublicKeyHash = KeyHash(x)
          /\ Encrypts(PackageOf(x).ciphertext, {x}, ballots[x].privateKey)
    BY <2>1, RebuiltPackages
  <2>5. 1 \in 1..Len(l)
    BY <2>1, RebuiltPackages
  <2>6. ToSet(l) = {l[j] : j \in 1..Len(l)}
    BY <2>1, RebuiltPackages
  <2>7. l[1] \in ToSet(l)
    BY <2>5, <2>6
  <2>8. QED
    BY <2>2, <2>3, <2>4, <2>7
<1>5. ASSUME NEW i \in 1..n PROVE ballots[head(i)].privateKey = key
  <2>1. cts[i].electionPublicKeyHash = cts[1].electionPublicKeyHash
    BY <1>2, <1>3 DEF SameKey
  <2>2. KeyHash(head(i)) = KeyHash(head(1))
    BY <1>1, <1>4, <2>1
  <2>3. ballots[head(i)] \in Ballot /\ ballots[head(1)] \in Ballot
    BY <1>1, <1>4
  <2>4. QED
    BY <2>2, <2>3, KeysNamed DEF KeyHash
<1>6. key \in 1..Order - 1
  BY <1>1, <1>4
<1>7. ct.electionPublicKeyHash = PublicKeyHash(version, Multiply(Base, key))
  BY <1>1, <1>3, <1>4 DEF PointwiseSum, KeyHash, PublicKeyOf
<1>8. ids = UNION {I[i] : i \in 1..n}
  BY DEF BallotsOf
<1>9. \A i, j \in 1..n : i < j => I[i] \cap I[j] = {}
  BY DEF Sound
<1> HIDE DEF I, key, ids
<1>10. \A id \in ids : ballots[id].privateKey = key
  BY <1>4, <1>5, <1>8
<1>11. Encrypts(ct, ids, key)
  <2>1. \A i \in 1..n : /\ I[i] \in SUBSET DOMAIN ballots
                        /\ Encrypts(cts[i], I[i], key)
    BY <1>4, <1>5
  <2>2. Encrypts(PointwiseSum(cts), UNION {I[i] : i \in 1..n}, key)
    BY <1>1, <1>2, <1>6, <1>9, <2>1, SumEncrypts
  <2>3. QED
    BY <1>3, <1>8, <2>2
<1>12. QED
  BY <1>6, <1>7, <1>10, <1>11 DEF HoldsVotes, ids

(* What a tally is: its ciphertext is one of the votes of the ballots in   *)
(* the batches it names.                                                   *)
TallyOf(t) ==
  LET ids == BallotsIn(t.acceptedBatches)
  IN  /\ ids \in SUBSET DOMAIN ballots /\ ids # {}
      /\ t.ballotCount = Cardinality(ids)
      /\ \E key \in 1..Order - 1 : HoldsVotes(t.aggregateCiphertext, ids, key)

TalliesHold == \A t \in tally : TallyOf(t)

(* A tally of sound entries. *)
LEMMA SoundTally ==
  ASSUME BatchInv, NEW n, NEW entries, Sound(entries, n), NEW known,
         NEW t \in BuildEncryptedTally(version, TallyInput(entries, known))
  PROVE  TallyOf(t)
<1> DEFINE input == TallyInput(entries, known)
           ids == BallotsOf(entries, n)
           ct == t.aggregateCiphertext
           count == Len(Packages(input))
<1>1. version \in 1..3
  BY ScenarioAssumption DEF BatchInv, version
<1>2. input.batches # << >>
  <2>1. DOMAIN input.batches = 1..n /\ 1 \in 1..n
    BY InputIs DEF Sound
  <2> HIDE DEF input
  <2>2. DOMAIN << >> = {}
    OBVIOUS
  <2>3. QED
    BY <2>1, <2>2
<1> HIDE DEF input
<1>3. /\ t = EncryptedTally(version, input, ct)
      /\ version = 1 => ct \in aggregateBallotCiphertexts(Ciphertexts(input))
      /\ version # 1 => ct \in AggregateOfBatches(input)
  <2>1. t \in BuildEncryptedTally(version, input)
    BY DEF input
  <2>2. CASE version = 1
    <3>1. t \in buildTallyInput(input)
      BY <2>1, <2>2 DEF BuildEncryptedTally
    <3>2. PICK a \in aggregateBallotCiphertexts(
                       IF input.batches # << >> /\ Replay(1, input) /\ ListsMatch(input)
                         THEN Ciphertexts(input) ELSE << >>) :
                 t = EncryptedTally(1, input, a)
      BY <3>1 DEF buildTallyInput
    <3>3. a \in aggregateBallotCiphertexts(Ciphertexts(input))
      BY <3>2 DEF aggregateBallotCiphertexts
    <3>4. ct = a
      BY <3>2 DEF EncryptedTally
    <3>5. QED
      BY <2>2, <3>2, <3>3, <3>4
  <2>3. CASE version # 1
    <3>1. PICK a \in AggregateOfBatches(input) : t = EncryptedTally(version, input, a)
      <4>1. CASE version = 2
        BY <2>1, <4>1 DEF BuildEncryptedTally, buildProofCompatibleTally
      <4>2. CASE version = 3
        BY <2>1, <4>2 DEF BuildEncryptedTally, buildEligibleTally
      <4>3. QED
        BY <1>1, <2>3, <4>1, <4>2
    <3>2. ct = a
      BY <3>1 DEF EncryptedTally
    <3>3. QED
      BY <2>3, <3>1, <3>2
  <2>4. QED
    BY <2>2, <2>3
<1>4. t.ballotCount = count /\ t.acceptedBatches = Manifests(input)
  BY <1>3 DEF EncryptedTally
<1>5. BallotsIn(t.acceptedBatches) = ids
  BY <1>4, BallotsNamed DEF input
<1>6. count = Cardinality(ids)
  BY TallyPackages DEF input
<1>7. ids \in SUBSET DOMAIN ballots
  <2>1. ASSUME NEW i \in 1..n PROVE ToSet(entries[i].list) \subseteq DOMAIN ballots
    <3> DEFINE l == entries[i].list
    <3>1. Rebuilt(entries[i].artifact.manifest, l)
      BY DEF Sound
    <3> HIDE DEF l
    <3>2. \A x \in ToSet(l) :
            /\ x \in DOMAIN ballots /\ ballots[x] \in Ballot
            /\ ballots[x].id = x
            /\ PackageOf(x).ciphertext.electionPublicKeyHash = KeyHash(x)
            /\ Encrypts(PackageOf(x).ciphertext, {x}, ballots[x].privateKey)
      BY <3>1, RebuiltPackages
    <3>3. QED
      BY <3>2 DEF l
  <2>2. QED
    BY <2>1 DEF BallotsOf
<1>8. ids # {}
  BY SomeBallot
<1>9. PICK key \in 1..Order - 1 : HoldsVotes(ct, ids, key)
  <2>1. CASE version = 1
    BY <1>3, <2>1, PackagesSum DEF input
  <2>2. CASE version # 1
    BY <1>3, <2>2, BatchesSum DEF input
  <2>3. QED
    BY <2>1, <2>2
<1>10. QED
  BY <1>4, <1>5, <1>6, <1>7, <1>8, <1>9 DEF TallyOf

(* What TallyHoldsTheVotes says of a tally. *)
Truthful(t) ==
  LET ids == BallotsIn(t.acceptedBatches)
      key == ballots[CHOOSE id \in ids : TRUE].privateKey
      decrypt(k, ct, n) == IF version = 1 THEN decryptAggregatedTally(k, ct, n)
                                          ELSE decryptProofCompatibleTally(k, ct, n)
  IN  /\ t.ballotCount = Cardinality(ids)
      /\ decrypt(key, t.aggregateCiphertext, t.ballotCount)
           = {[c \in Candidates |-> VotesFor(c, ids)]}

(* The whole key gives the votes of such a tally. *)
LEMMA TallyIsTruthful ==
  ASSUME BatchInv, NEW t, TallyOf(t)
  PROVE  Truthful(t)
<1> DEFINE ids == BallotsIn(t.acceptedBatches)
           ct == t.aggregateCiphertext
<1>1. /\ ids \in SUBSET DOMAIN ballots /\ ids # {}
      /\ t.ballotCount = Cardinality(ids)
  BY DEF TallyOf
<1>2. PICK key \in 1..Order - 1 : HoldsVotes(ct, ids, key)
  BY DEF TallyOf
<1> HIDE DEF ids, ct
<1>3. ballots[CHOOSE id \in ids : TRUE].privateKey = key
  <2>1. (CHOOSE id \in ids : TRUE) \in ids
    BY <1>1
  <2>2. QED
    BY <1>2, <2>1 DEF HoldsVotes
<1>4. Counts(ct, [c \in Candidates |-> Multiply(ct.c1[c], key)], Cardinality(ids))
        = {[c \in Candidates |-> VotesFor(c, ids)]}
  BY <1>1, <1>2, DecryptsTo DEF HoldsVotes
<1>5. ct.electionPublicKeyHash = PublicKeyHash(version, Multiply(Base, key))
  BY <1>2 DEF HoldsVotes
<1>6. CASE version = 1
  <2>1. decryptAggregatedTally(key, ct, Cardinality(ids))
          = {[c \in Candidates |-> VotesFor(c, ids)]}
    BY <1>4, <1>5, <1>6 DEF decryptAggregatedTally, PublicKeyHash
  <2>2. QED
    BY <1>1, <1>3, <1>6, <2>1 DEF Truthful, ct, ids
<1>7. CASE version # 1
  <2>1. decryptProofCompatibleTally(key, ct, Cardinality(ids))
          = {[c \in Candidates |-> VotesFor(c, ids)]}
    BY <1>4, <1>5, <1>7 DEF decryptProofCompatibleTally, PublicKeyHash
  <2>2. QED
    BY <1>1, <1>3, <1>7, <2>1 DEF Truthful, ct, ids
<1>8. QED
  BY <1>6, <1>7

(* Whatever the operator lists, a tally that is written is one. *)
LEMMA BuildTally_TallyOf ==
  ASSUME BatchInv, NEW entries \in EntryLists, NEW k \in 0..Len(batches),
         NEW t \in BuildEncryptedTally(version, TallyInput(entries, NullifiersUpTo(k)))
  PROVE  TallyOf(t)
<1> DEFINE known == NullifiersUpTo(k)
           input == TallyInput(entries, known)
<1>1. PICK n \in 1..scenario.maxBatches : entries \in [1..n -> Entries]
  BY DEF EntryLists
<1>2. n \in Nat /\ n >= 1
  BY <1>1
<1>3. version \in 1..3
  BY ScenarioAssumption DEF BatchInv, version
<1>4. Replay(version, input)
  <2> HIDE DEF input
  <2>1. t \in BuildEncryptedTally(version, input)
    BY DEF input
  <2>2. CASE version = 1
    <3>1. t \in buildTallyInput(input)
      BY <2>1, <2>2 DEF BuildEncryptedTally
    <3>2. aggregateBallotCiphertexts(
            IF input.batches # << >> /\ Replay(1, input) /\ ListsMatch(input)
              THEN Ciphertexts(input) ELSE << >>) # {}
      BY <3>1 DEF buildTallyInput
    <3>3. QED
      BY <2>2, <3>2 DEF aggregateBallotCiphertexts
  <2>3. CASE version = 2
    BY <2>1, <2>3 DEF BuildEncryptedTally, buildProofCompatibleTally
  <2>4. CASE version = 3
    BY <2>1, <2>4 DEF BuildEncryptedTally, buildEligibleTally
  <2>5. QED
    BY <1>3, <2>2, <2>3, <2>4
<1>5. Sound(entries, n)
  BY <1>1, <1>2, <1>4, EntriesRebuilt DEF Sound
<1>6. QED
  BY <1>5, SoundTally

(* Every step keeps tallies what they are: what they were made from stays. *)
LEMMA TallyNext_TalliesHold ==
  ASSUME BatchInv, TalliesHold, [Next]_vars
  PROVE  TalliesHold'
<1>1. ASSUME scenario' = scenario, artifacts' = artifacts, NEW t
      PROVE  TallyOf(t)' = TallyOf(t)
  BY <1>1 DEF TallyOf, BallotsIn, ListOf, HoldsVotes, Encrypts, Masked, ballots,
              version, VotesFor
<1>2. TalliesHold' <=> \A t \in tally' : TallyOf(t)'
  BY DEF TalliesHold
<1>3. \/ tally = {} /\ tally' = {}
      \/ UNCHANGED <<scenario, artifacts, tally>>
      \/ \E entries \in EntryLists, k \in 0..Len(batches) : BuildTally(entries, k)
  <2>1. CASE \E k \in 0..Len(batches) : Batching(StartBatcher(k))
    BY <2>1 DEF Batching, StartBatcher
  <2>2. CASE \E previous \in KnownRoots, list \in Lists :
               Batching(BuildBatch(previous, list))
    BY <2>2 DEF Batching, BuildBatch
  <2>3. CASE \E a \in artifacts : Batching(CommitBatch(a))
    BY <2>3 DEF Batching, CommitBatch
  <2>4. CASE \E entries \in EntryLists, k \in 0..Len(batches) :
               Batching(BuildTally(entries, k))
    BY <2>4 DEF Batching
  <2>5. CASE \E ceremony \in scenario.ceremonies : StartCeremony(ceremony)
    BY <2>5 DEF StartCeremony, batchVars
  <2>6. CASE \E file \in pending : WritePrivateShare(file)
    BY <2>6 DEF WritePrivateShare, batchVars
  <2>7. CASE CrashCeremony
    BY <2>7 DEF CrashCeremony, batchVars
  <2>8. CASE \E i \in Trustees : CreateShare(i)
    BY <2>8 DEF CreateShare, batchVars
  <2>9. CASE \E i, other \in Trustees : i # other /\ MisnumberShare(i, other)
    BY <2>9 DEF MisnumberShare, batchVars
  <2>10. CASE \E i \in Trustees, c \in Candidates : AlterShare(i, c)
    BY <2>10 DEF AlterShare, batchVars
  <2>11. CASE \E slots \in SlotLists, threshold \in 1..scenario.maxFiles :
                BuildTallyResult(slots, threshold)
    BY <2>11 DEF BuildTallyResult, batchVars
  <2>12. CASE \E ceremony \in scenario.ceremonies : FinalizeProofCompatible(ceremony)
    BY <2>12 DEF FinalizeProofCompatible, batchVars
  <2>13. CASE \E slots \in SlotLists : FinalizeEligible(slots)
    BY <2>13 DEF FinalizeEligible, batchVars
  <2>14. CASE UNCHANGED vars
    BY <2>14 DEF vars, batchVars
  <2>15. QED
    BY <2>1, <2>2, <2>3, <2>4, <2>5, <2>6, <2>7, <2>8, <2>9, <2>10, <2>11, <2>12,
       <2>13, <2>14 DEF Next
<1>4. CASE tally = {} /\ tally' = {}
  BY <1>2, <1>4
<1>5. CASE UNCHANGED <<scenario, artifacts, tally>>
  BY <1>1, <1>2, <1>5 DEF TalliesHold
<1>6. ASSUME NEW entries \in EntryLists, NEW k \in 0..Len(batches),
             BuildTally(entries, k)
      PROVE  TalliesHold'
  <2>1. /\ scenario' = scenario /\ artifacts' = artifacts
        /\ \E t \in BuildEncryptedTally(version,
                      TallyInput(entries, NullifiersUpTo(k))) : tally' = {t}
    BY <1>6 DEF BuildTally
  <2>2. PICK t \in BuildEncryptedTally(version,
                     TallyInput(entries, NullifiersUpTo(k))) : tally' = {t}
    BY <2>1
  <2>3. TallyOf(t)
    BY BuildTally_TallyOf
  <2>4. QED
    BY <1>1, <1>2, <2>1, <2>2, <2>3
<1>7. QED
  BY <1>3, <1>4, <1>5, <1>6

(* The tallies of every reachable state. *)
LEMMA TalliesAlwaysHold == Spec => []TalliesHold
<1>1. Init => TalliesHold
  BY DEF Init, BatchInit, TalliesHold
<1>2. BatchInv /\ TalliesHold /\ [Next]_vars => TalliesHold'
  BY TallyNext_TalliesHold
<1>3. QED
  BY BatchInvariant, <1>1, <1>2, PTL DEF Spec

(* A tally holds exactly the votes of the ballots in the batches it names, *)
(* each once, whatever artifacts, lists and known nullifiers its operator  *)
(* brought: whoever has the whole election key reads them.                 *)
THEOREM TallyAlwaysHoldsTheVotes == Spec => []TallyHoldsTheVotes
<1>1. ASSUME BatchInv, TalliesHold PROVE TallyHoldsTheVotes
  <2>1. \A t \in tally : Truthful(t)
    BY <1>1, TallyIsTruthful DEF TalliesHold
  <2>2. QED
    BY <2>1 DEF TallyHoldsTheVotes, Truthful
<1>2. QED
  BY BatchInvariant, TalliesAlwaysHold, <1>1, PTL

-----------------------------------------------------------------------------
(* Shares of the key *)

(* The group has two elements at least. *)
LEMMA OrderIs == Order \in Nat /\ Order # 0 /\ Order >= 2
BY GroupAssumption

(* modOrder keeps a number up to congruence, *)
LEMMA ModOrderIs ==
  ASSUME NEW a \in Int
  PROVE  /\ modOrder(a) \in Int /\ modOrder(a) \in 0..Order - 1
         /\ Cong(Order, modOrder(a), a) /\ Cong(Order, a, modOrder(a))
<1>1. Order \in Nat \ {0}
  BY OrderIs
<1>2. QED
  BY <1>1, CongRem DEF modOrder

(* and is the same for congruent numbers. *)
LEMMA ModOrderSame ==
  ASSUME NEW a \in Int, NEW b \in Int, Cong(Order, a, b)
  PROVE  modOrder(a) = modOrder(b)
<1>1. Order \in Nat \ {0}
  BY OrderIs
<1>2. QED
  BY <1>1, CongMod DEF modOrder

(* The two rows of Euclid's algorithm: each remainder is a multiple of the *)
(* value.                                                                  *)
Rows(value) ==
  {s \in [low : Nat, high : Nat, lm : Int, hm : Int] :
     Cong(Order, s.low, s.lm * value) /\ Cong(Order, s.high, s.hm * value)}

NextRows(s) ==
  LET ratio == s.high \div s.low
  IN  IF s.low > 1
        THEN [low |-> s.high - s.low * ratio, high |-> s.low,
              lm |-> s.hm - s.lm * ratio,     hm |-> s.lm]
        ELSE s

(* A step of Euclid's algorithm keeps them. *)
LEMMA NextRowsAre ==
  ASSUME NEW value \in Int, NEW s \in Rows(value)
  PROVE  NextRows(s) \in Rows(value)
<1> DEFINE low == s.low
           high == s.high
           lm == s.lm
           hm == s.hm
           ratio == high \div low
<1>1. /\ low \in Nat /\ high \in Nat /\ lm \in Int /\ hm \in Int
      /\ Cong(Order, low, lm * value) /\ Cong(Order, high, hm * value)
  BY DEF Rows
<1>2. CASE ~ low > 1
  BY <1>2 DEF NextRows
<1>3. CASE low > 1
  <2>1. /\ high % low \in Nat /\ ratio \in Int
        /\ high = low * ratio + (high % low)
    <3>1. low \in Nat \ {0} /\ high \in Int
      BY <1>1, <1>3
    <3> HIDE DEF low, high
    <3>2. /\ high % low \in 0..low - 1 /\ high \div low \in Int
          /\ high = low * (high \div low) + (high % low)
      BY <3>1, DivMod
    <3>3. QED
      BY <3>1, <3>2
  <2> DEFINE rest == high - low * ratio
             t == [low |-> rest, high |-> low, lm |-> hm - lm * ratio, hm |-> lm]
  <2>2. NextRows(s) = t
    BY <1>3 DEF NextRows
  <2> HIDE DEF low, high, lm, hm, ratio
  <2>3. rest \in Nat /\ hm - lm * ratio \in Int
    BY <1>1, <2>1
  <2>4. Cong(Order, rest, (hm - lm * ratio) * value)
    <3>1. PICK k \in Int : low = lm * value + Order * k
      BY <1>1 DEF Cong
    <3>2. PICK l \in Int : high = hm * value + Order * l
      BY <1>1 DEF Cong
    <3>3. rest = (hm - lm * ratio) * value + Order * (l - k * ratio)
      BY <1>1, <2>1, <3>1, <3>2, OrderIs
    <3>4. l - k * ratio \in Int
      BY <2>1
    <3>5. QED
      BY <3>3, <3>4 DEF Cong
  <2> HIDE DEF rest
  <2>5. /\ t \in [low : Nat, high : Nat, lm : Int, hm : Int]
        /\ t.low = rest /\ t.high = low /\ t.lm = hm - lm * ratio /\ t.hm = lm
    BY <1>1, <2>3
  <2> HIDE DEF t
  <2>6. t \in Rows(value)
    BY <1>1, <2>4, <2>5 DEF Rows
  <2>7. QED
    BY <2>2, <2>6
<1>4. QED
  BY <1>2, <1>3

EuclidStart(value) == [low |-> modOrder(value), high |-> Order, lm |-> 1, hm |-> 0]

(* The rounds of Euclid's algorithm. *)
IsEuclid(g, value) ==
  /\ g[0] = EuclidStart(value)
  /\ \A n \in 0..Order : g[n] \in Rows(value)
  /\ \A n \in 1..Order : g[n] = NextRows(g[n - 1])

(* Euclid is the last of them. *)
LEMMA EuclidRuns ==
  ASSUME NEW value \in Int
  PROVE  \E g : IsEuclid(g, value) /\ Euclid(value) = g[Order]
<1> DEFINE first == EuclidStart(value)
           body(f) == [n \in 0..Order |->
                         IF n = 0 THEN first ELSE NextRows(f[n - 1])]
           state == CHOOSE f : f = body(f)
           R == Rows(value)
           step == [n \in 1..Order |-> [s \in R |-> NextRows(s)]]
<1>1. Euclid(value) = state[Order]
  BY DEF Euclid, NextRows, EuclidStart
<1>2. first \in R
  <2>1. modOrder(value) \in Nat /\ Cong(Order, modOrder(value), value)
    BY ModOrderIs, OrderIs
  <2>2. Order \in Nat /\ 1 * value = value /\ 0 * value = 0 /\ 1 \in Int /\ 0 \in Int
    BY OrderIs
  <2>3. Cong(Order, Order, 0)
    <3>1. Order = 0 + Order * 1
      BY <2>2
    <3>2. QED
      BY <3>1 DEF Cong
  <2>4. QED
    BY <2>1, <2>2, <2>3 DEF Rows, EuclidStart
<1>3. \A n \in 1..Order : step[n] \in [R -> R]
  BY NextRowsAre
<1> HIDE DEF first, R
<1>4. \E f : f = body(f)
  <2>1. Order \in Nat
    BY OrderIs
  <2> HIDE DEF step
  <2>2. PICK f : IsSteps(f, Order, R, first, step)
    BY <1>2, <1>3, <2>1, StepsExist
  <2>3. ASSUME NEW n \in 0..Order
        PROVE  f[n] = IF n = 0 THEN first ELSE NextRows(f[n - 1])
    <3>1. CASE n = 0
      BY <2>2, <3>1 DEF IsSteps
    <3>2. CASE n # 0
      <4>1. n \in 1..Order /\ n - 1 \in 0..Order
        BY <2>1, <3>2
      <4>2. f[n - 1] \in R /\ f[n] = step[n][f[n - 1]]
        BY <2>2, <4>1 DEF IsSteps
      <4>3. step[n][f[n - 1]] = NextRows(f[n - 1])
        BY <4>1, <4>2 DEF step
      <4>4. QED
        BY <3>2, <4>2, <4>3
    <3>3. QED
      BY <3>1, <3>2
  <2>4. f = [n \in 0..Order |-> f[n]]
    BY <2>2 DEF IsSteps
  <2>5. f = body(f)
    BY <2>3, <2>4
  <2>6. QED
    BY <2>5
<1>5. state = body(state)
  <2> HIDE DEF body
  <2>1. \E f : f = body(f)
    BY <1>4
  <2>2. QED
    BY <2>1
<1> HIDE DEF state
<1>6. /\ state[0] = first
      /\ \A n \in 1..Order : state[n] = NextRows(state[n - 1])
  <2>1. 0 \in 0..Order /\ \A n \in 1..Order : n \in 0..Order /\ n # 0
    BY OrderIs
  <2>2. QED
    BY <1>5, <2>1
<1>7. \A n \in 0..Order : state[n] \in R
  <2>1. ASSUME NEW n \in 1..Order, state[n - 1] \in R PROVE state[n] \in R
    BY <1>6, <2>1, NextRowsAre DEF R
  <2>2. Order \in Nat /\ state[0] \in R
    BY <1>2, <1>6, OrderIs
  <2>3. QED
    BY <2>1, <2>2, StepsStay
<1>8. IsEuclid(state, value)
  BY <1>6, <1>7 DEF IsEuclid, R, first
<1>9. QED
  BY <1>1, <1>8

(* Where the subgroup version finds an inverse, it is one. *)
LEMMA EuclidInverts ==
  ASSUME NEW value \in Int
  PROVE  /\ modInverse(value) \in Int
         /\ HasSubgroupInverse(value) => Cong(Order, value * modInverse(value), 1)
<1>1. PICK g : IsEuclid(g, value) /\ Euclid(value) = g[Order]
  BY EuclidRuns
<1> DEFINE s == g[Order]
<1>2. s \in Rows(value) /\ Euclid(value) = s
  BY <1>1, OrderIs DEF IsEuclid
<1> HIDE DEF s
<1>3. s.lm \in Int /\ s.low \in Nat /\ Cong(Order, s.low, s.lm * value)
  BY <1>2 DEF Rows
<1>4. modInverse(value) = modOrder(s.lm)
  BY <1>2 DEF modInverse
<1> DEFINE lm == s.lm
           inv == modOrder(lm)
<1>5. lm \in Int /\ inv \in Int /\ Cong(Order, inv, lm)
  BY <1>3, ModOrderIs
<1>6. ASSUME HasSubgroupInverse(value) PROVE Cong(Order, value * inv, 1)
  <2>1. s.low = 1
    BY <1>2, <1>6 DEF HasSubgroupInverse
  <2>2. Cong(Order, 1, lm * value)
    BY <1>3, <2>1
  <2> HIDE DEF inv, lm
  <2>3. PICK k \in Int : 1 = lm * value + Order * k
    BY <2>2 DEF Cong
  <2>4. PICK l \in Int : inv = lm + Order * l
    BY <1>5 DEF Cong
  <2>5. value * inv = 1 + Order * (value * l - k)
    BY <1>5, <2>3, <2>4, OrderIs
  <2>6. value * l - k \in Int
    OBVIOUS
  <2>7. QED
    BY <2>5, <2>6 DEF Cong
<1>7. QED
  BY <1>4, <1>5, <1>6

(* What a round of Euclid's algorithm holds when the value is no multiple  *)
(* of the order: a smaller remainder each time, no common divisor but      *)
(* those of the order.                                                     *)
Reduced(s, n) ==
  /\ 0 < s.low /\ s.low < s.high
  /\ s.low <= 1 \/ s.low + n < Order
  /\ \A d \in Nat : Cong(d, s.low, 0) /\ Cong(d, s.high, 0) => Cong(d, Order, 0)

(* The order has no divisor. *)
LEMMA OrderIsPrime ==
  ASSUME NEW d \in Nat, 1 < d, d < Order
  PROVE  ~ Cong(d, Order, 0)
<1>1. d \in 2..Order - 1 /\ Order \in Nat /\ d \in Nat \ {0}
  BY OrderIs
<1>2. Order % d # 0
  BY <1>1, GroupAssumption
<1> DEFINE none == 0
<1>3. none \in Int /\ none % d = 0
  BY <1>1
<1> HIDE DEF none
<1>4. ASSUME Cong(d, Order, none) PROVE FALSE
  <2>1. Order \in Int /\ none \in Int /\ d \in Nat \ {0} /\ Cong(d, Order, none)
    BY <1>1, <1>3, <1>4
  <2>2. Order % d = none % d
    BY ONLY <2>1, CongMod
  <2>3. QED
    BY <1>2, <1>3, <2>2
<1>5. QED
  BY <1>4 DEF none

LEMMA NextReduced ==
  ASSUME NEW value \in Int, NEW s \in Rows(value), NEW n \in Nat, Reduced(s, n)
  PROVE  Reduced(NextRows(s), n + 1)
<1> DEFINE low == s.low
           high == s.high
           ratio == high \div low
           rest == high - low * ratio
           t == NextRows(s)
<1>1. /\ low \in Nat /\ high \in Nat /\ 0 < low /\ low < high
      /\ low <= 1 \/ low + n < Order
      /\ \A d \in Nat : Cong(d, low, 0) /\ Cong(d, high, 0) => Cong(d, Order, 0)
  BY DEF Rows, Reduced
<1>2. CASE ~ low > 1
  <2>1. t = s /\ low <= 1
    BY <1>1, <1>2 DEF NextRows
  <2> HIDE DEF t
  <2>2. QED
    BY <1>1, <2>1 DEF Reduced, t
<1>3. CASE low > 1
  <2>1. t.low = rest /\ t.high = low
    BY <1>3 DEF NextRows
  <2> HIDE DEF t, low, high
  <2>2. /\ rest \in 0..low - 1 /\ ratio \in Int
        /\ high = low * ratio + rest
    <3>1. low \in Nat \ {0} /\ high \in Int
      BY <1>1
    <3>2. /\ high % low \in 0..low - 1 /\ high \div low \in Int
          /\ high = low * (high \div low) + (high % low)
      BY <3>1, DivMod
    <3> DEFINE lr == low * ratio
    <3>3. high = lr + (high % low) /\ lr \in Int /\ rest = high - lr
      BY <1>1, <3>2
    <3> HIDE DEF lr
    <3>4. rest = high % low
      BY <1>1, <3>2, <3>3
    <3>5. QED
      BY <3>2, <3>4
  <2> HIDE DEF rest, ratio
  <2>3. ASSUME NEW d \in Nat, Cong(d, rest, 0), Cong(d, low, 0)
        PROVE  Cong(d, Order, 0)
    <3>1. PICK k \in Int : rest = 0 + d * k
      BY <2>3 DEF Cong
    <3>2. PICK l \in Int : low = 0 + d * l
      BY <2>3 DEF Cong
    <3>3. high = 0 + d * (l * ratio + k) /\ l * ratio + k \in Int
      BY <2>2, <3>1, <3>2
    <3>4. Cong(d, high, 0)
      BY <3>3 DEF Cong
    <3>5. QED
      BY <1>1, <2>3, <3>4
  <2>4. rest # 0
    <3>1. ASSUME rest = 0 PROVE FALSE
      <4>1. Cong(low, rest, 0)
        BY <1>1, <3>1, CongRefl
      <4>2. low = 0 + low * 1
        BY <1>1
      <4>3. Cong(low, low, 0)
        BY <4>2 DEF Cong
      <4>4. Cong(low, Order, 0)
        BY <1>1, <2>3, <4>1, <4>3
      <4>5. low < Order
        BY <1>1, <1>3, OrderIs
      <4>6. QED
        BY <1>1, <1>3, <4>4, <4>5, OrderIsPrime
    <3>2. QED
      BY <3>1
  <2>5. 0 < rest /\ rest < low /\ rest + (n + 1) < Order
    BY <1>1, <1>3, <2>2, <2>4, OrderIs
  <2>6. QED
    BY <2>1, <2>3, <2>5 DEF Reduced, t
<1>4. QED
  BY <1>2, <1>3

(* A number that the order does not divide has an inverse: the order is    *)
(* prime, and its number of rounds is enough.                              *)
LEMMA EuclidFinds ==
  ASSUME NEW value \in Int, ~ Cong(Order, value, 0)
  PROVE  HasSubgroupInverse(value)
<1>1. PICK g : IsEuclid(g, value) /\ Euclid(value) = g[Order]
  BY EuclidRuns
<1>2. /\ g[0] = EuclidStart(value)
      /\ \A n \in 0..Order : g[n] \in Rows(value)
      /\ \A n \in 1..Order : g[n] = NextRows(g[n - 1])
  BY <1>1 DEF IsEuclid
<1> DEFINE r == modOrder(value)
<1>3. g[0].low = r /\ g[0].high = Order
  BY <1>2 DEF EuclidStart
<1>4. r \in Nat /\ 0 < r /\ r < Order
  <2>1. r \in 0..Order - 1 /\ Cong(Order, value, r)
    BY ModOrderIs
  <2>2. r # 0
    BY <2>1
  <2> HIDE DEF r
  <2>3. QED
    BY <2>1, <2>2, OrderIs
<1> HIDE DEF r
<1>5. Reduced(g[0], 0)
  BY <1>3, <1>4, OrderIs DEF Reduced
<1> DEFINE Bad == {n \in 0..Order : ~ Reduced(g[n], n)}
<1>6. Bad = {}
  <2>1. SUFFICES ASSUME Bad # {} PROVE FALSE
    OBVIOUS
  <2>2. PICK n \in Bad : \A m \in Bad : n <= m
    <3>1. Bad \in SUBSET Nat
      BY OrderIs
    <3> HIDE DEF Bad
    <3>2. QED
      BY <2>1, <3>1, LeastNatural
  <2>3. n \in 0..Order /\ n # 0
    BY <1>5
  <2>4. n - 1 \in 0..Order /\ n \in 1..Order /\ n - 1 \in Nat /\ ~ n <= n - 1
    BY <2>3, OrderIs
  <2>5. Reduced(g[n - 1], n - 1)
    BY <2>2, <2>4
  <2> DEFINE m == n - 1
  <2>6. Reduced(NextRows(g[m]), m + 1)
    <3>1. m \in Nat /\ g[m] \in Rows(value) /\ Reduced(g[m], m)
      BY <1>2, <2>4, <2>5
    <3> HIDE DEF m
    <3>2. QED
      BY <3>1, NextReduced
  <2>7. m + 1 = n /\ g[n] = NextRows(g[m])
    BY <1>2, <2>4
  <2>8. QED
    BY <2>2, <2>6, <2>7
<1>7. Reduced(g[Order], Order) /\ g[Order] \in Rows(value)
  <2>1. Order \in 0..Order
    BY OrderIs
  <2>2. QED
    BY <1>2, <1>6, <2>1
<1> DEFINE low == g[Order].low
<1>8. low \in Nat /\ 0 < low /\ (low <= 1 \/ low + Order < Order)
  BY <1>7 DEF Reduced, Rows
<1> HIDE DEF low
<1>9. low = 1
  BY <1>8, OrderIs
<1>10. QED
  BY <1>1, <1>9 DEF HasSubgroupInverse, low

(* Numbers with an inverse: *)
Unit(a) == a \in Int /\ \E u \in Int : Cong(Order, a * u, 1)

(* products of such, *)
LEMMA UnitsMultiply ==
  ASSUME NEW a, NEW b, Unit(a), Unit(b)
  PROVE  Unit(modOrder(a * b))
<1>1. a \in Int /\ b \in Int /\ a * b \in Int
  BY DEF Unit
<1>2. PICK u \in Int : Cong(Order, a * u, 1)
  BY DEF Unit
<1>3. PICK v \in Int : Cong(Order, b * v, 1)
  BY DEF Unit
<1> DEFINE c == a * b
           r == modOrder(c)
<1>4. r \in Int /\ Cong(Order, r, c)
  <2> HIDE DEF c
  <2>1. QED
    BY <1>1, ModOrderIs DEF c
<1> HIDE DEF r
<1>5. PICK k \in Int : a * u = 1 + Order * k
  BY <1>2 DEF Cong
<1>6. PICK l \in Int : b * v = 1 + Order * l
  BY <1>3 DEF Cong
<1>7. PICK m \in Int : r = c + Order * m
  BY <1>4 DEF Cong
<1> DEFINE q == k + l + Order * k * l + m * (u * v)
<1>8. q \in Int /\ u * v \in Int
  BY OrderIs
<1>9. r * (u * v) = 1 + Order * q
  <2>1. r * (u * v) = (a * u) * (b * v) + Order * (m * (u * v))
    BY <1>1, <1>4, <1>7, OrderIs
  <2> DEFINE x == a * u
             y == b * v
             z == m * (u * v)
  <2>2. x = 1 + Order * k /\ y = 1 + Order * l /\ z \in Int
        /\ r * (u * v) = x * y + Order * z
    BY <1>5, <1>6, <2>1
  <2> HIDE DEF x, y, z
  <2>3. x * y + Order * z = 1 + Order * (k + l + Order * k * l + z)
    BY <2>2, OrderIs
  <2>4. QED
    BY <2>2, <2>3 DEF z
<1>10. QED
  BY <1>4, <1>8, <1>9 DEF Unit, Cong, r, c

(* and those the order does not divide, which they are.                    *)
LEMMA UnitsAre ==
  ASSUME NEW a \in Int
  PROVE  Unit(a) <=> ~ Cong(Order, a, 0)
<1>1. ASSUME ~ Cong(Order, a, 0) PROVE Unit(a)
  <2>1. modInverse(a) \in Int /\ Cong(Order, a * modInverse(a), 1)
    BY <1>1, EuclidFinds, EuclidInverts
  <2>2. QED
    BY <2>1 DEF Unit
<1>2. ASSUME Unit(a), Cong(Order, a, 0) PROVE FALSE
  <2>1. PICK u \in Int : Cong(Order, a * u, 1)
    BY <1>2 DEF Unit
  <2>2. PICK k \in Int : a * u = 1 + Order * k
    BY <2>1 DEF Cong
  <2>3. PICK l \in Int : a = 0 + Order * l
    BY <1>2 DEF Cong
  <2>4. Order * (l * u - k) = 1 /\ l * u - k \in Int
    BY <2>2, <2>3, OrderIs
  <2> DEFINE m == l * u - k
  <2>5. m \in Int /\ Order * m = 1
    BY <2>4
  <2> HIDE DEF m
  <2>6. CASE m <= 0
    BY <2>5, <2>6, OrderIs
  <2>7. CASE m >= 1
    BY <2>5, <2>7, OrderIs
  <2>8. QED
    BY <2>5, <2>6, <2>7
<1>3. QED
  BY <1>1, <1>2

Factors == [numerator : Int, denominator : Int]

NextFactors(p, z, x, other) ==
  IF other = x THEN p
  ELSE [numerator   |-> modOrder(p.numerator * (z - other)),
        denominator |-> modOrder(p.denominator * (x - other))]

(* The products of an index, up to each other index. *)
IsFactors(g, z, x, xs) ==
  /\ g[0] = [numerator |-> 1, denominator |-> 1]
  /\ \A j \in 0..Len(xs) : g[j] \in Factors
  /\ \A j \in 1..Len(xs) : g[j] = NextFactors(g[j - 1], z, x, xs[j])

(* ProductsAt is the last of these. *)
LEMMA ProductsRun ==
  ASSUME NEW z \in Int, NEW x \in Int, NEW xs, Len(xs) \in Nat,
         \A j \in 1..Len(xs) : xs[j] \in Int
  PROVE  \E g : IsFactors(g, z, x, xs) /\ ProductsAt(z, x, xs) = g[Len(xs)]
<1> DEFINE n == Len(xs)
           first == [numerator |-> 1, denominator |-> 1]
           body(f) == [j \in 0..n |-> IF j = 0 THEN first
                                      ELSE NextFactors(f[j - 1], z, x, xs[j])]
           product == CHOOSE f : f = body(f)
           step == [j \in 1..n |-> [p \in Factors |-> NextFactors(p, z, x, xs[j])]]
<1>1. ProductsAt(z, x, xs) = product[n]
  BY DEF ProductsAt, NextFactors
<1>2. n \in Nat /\ \A j \in 1..n : xs[j] \in Int
  OBVIOUS
<1> HIDE DEF n
<1>3. first \in Factors
  BY DEF Factors
<1>4. ASSUME NEW p \in Factors, NEW j \in 1..n
      PROVE  NextFactors(p, z, x, xs[j]) \in Factors
  <2> DEFINE a == p.numerator * (z - xs[j])
             b == p.denominator * (x - xs[j])
  <2>1. a \in Int /\ b \in Int
    BY <1>2 DEF Factors
  <2>2. modOrder(a) \in Int /\ modOrder(b) \in Int
    <3> HIDE DEF a, b
    <3>1. QED
      BY <2>1, ModOrderIs
  <2>3. [numerator |-> modOrder(a), denominator |-> modOrder(b)] \in Factors
    <3> HIDE DEF a, b
    <3>1. QED
      BY <2>2 DEF Factors
  <2>4. QED
    BY <2>3 DEF NextFactors
<1>5. \A j \in 1..n : step[j] \in [Factors -> Factors]
  BY <1>4
<1> HIDE DEF first
<1>6. \E f : f = body(f)
  <2> HIDE DEF step
  <2>1. PICK f : IsSteps(f, n, Factors, first, step)
    BY <1>2, <1>3, <1>5, StepsExist
  <2>2. ASSUME NEW j \in 0..n
        PROVE  f[j] = IF j = 0 THEN first ELSE NextFactors(f[j - 1], z, x, xs[j])
    <3>1. CASE j = 0
      BY <2>1, <3>1 DEF IsSteps
    <3>2. CASE j # 0
      <4>1. j \in 1..n /\ j - 1 \in 0..n
        BY <1>2, <3>2
      <4>2. f[j - 1] \in Factors /\ f[j] = step[j][f[j - 1]]
        BY <2>1, <4>1 DEF IsSteps
      <4>3. step[j][f[j - 1]] = NextFactors(f[j - 1], z, x, xs[j])
        BY <4>1, <4>2 DEF step
      <4>4. QED
        BY <3>2, <4>2, <4>3
    <3>3. QED
      BY <3>1, <3>2
  <2>3. f = [j \in 0..n |-> f[j]]
    BY <2>1 DEF IsSteps
  <2>4. f = body(f)
    BY <2>2, <2>3
  <2>5. QED
    BY <2>4
<1>7. product = body(product)
  <2> HIDE DEF body
  <2>1. QED
    BY <1>6
<1> HIDE DEF product
<1>8. product[0] = first /\ \A j \in 1..n : product[j] = NextFactors(product[j - 1], z, x, xs[j])
  <2>1. 0 \in 0..n /\ \A j \in 1..n : j \in 0..n /\ j # 0
    BY <1>2
  <2>2. QED
    BY <1>7, <2>1
<1>9. \A j \in 0..n : product[j] \in Factors
  <2>1. ASSUME NEW j \in 1..n, product[j - 1] \in Factors PROVE product[j] \in Factors
    BY <1>4, <1>8, <2>1
  <2>2. product[0] \in Factors
    BY <1>3, <1>8
  <2>3. QED
    BY <1>2, <2>1, <2>2, StepsStay
<1>10. IsFactors(product, z, x, xs)
  BY <1>8, <1>9 DEF IsFactors, first, n
<1>11. QED
  BY <1>1, <1>10 DEF n

(* The coefficients of distinct indexes are weights. *)
LEMMA CoefficientsAreWeights ==
  ASSUME NEW xs, Len(xs) \in Nat, \A i \in 1..Len(xs) : xs[i] \in Int,
         \A i, j \in 1..Len(xs) : i # j => xs[i] # xs[j],
         \A i \in 1..Len(xs) :
           HasSubgroupInverse(ProductsAt(0, xs[i], xs).denominator)
  PROVE  \E q, C :
           /\ IsWeights(Order, xs, q, C, Len(xs))
           /\ \A i \in 1..Len(xs) :
                /\ lagrangeCoefficientAtZero(xs[i], xs) \in Int
                /\ Cong(Order, lagrangeCoefficientAtZero(xs[i], xs), C[i][Len(xs)])
<1> DEFINE n == Len(xs)
           G(i) == CHOOSE g : IsFactors(g, 0, xs[i], xs)
                              /\ ProductsAt(0, xs[i], xs) = g[n]
           num == [i \in 1..n |-> [j \in 0..n |-> G(i)[j].numerator]]
           den == [i \in 1..n |-> [j \in 0..n |-> G(i)[j].denominator]]
           v == [i \in 1..n |-> modInverse(den[i][n])]
<1>1. n \in Nat /\ (\A i \in 1..n : xs[i] \in Int)
      /\ \A i, j \in 1..n : i # j => xs[i] # xs[j]
  OBVIOUS
<1>2. ASSUME NEW i \in 1..n
      PROVE  IsFactors(G(i), 0, xs[i], xs) /\ ProductsAt(0, xs[i], xs) = G(i)[n]
  <2>1. xs[i] \in Int /\ 0 \in Int
    OBVIOUS
  <2>2. \E g : IsFactors(g, 0, xs[i], xs) /\ ProductsAt(0, xs[i], xs) = g[n]
    BY <2>1, ProductsRun
  <2>3. QED
    BY <2>2
<1> HIDE DEF G
<1>3. ASSUME NEW i \in 1..n
      PROVE  /\ G(i)[0] = [numerator |-> 1, denominator |-> 1]
             /\ \A j \in 0..n : G(i)[j].numerator \in Int /\ G(i)[j].denominator \in Int
             /\ \A j \in 1..n : G(i)[j] = NextFactors(G(i)[j - 1], 0, xs[i], xs[j])
  BY <1>2 DEF IsFactors, Factors
<1>4. ASSUME NEW i \in 1..n, NEW j \in 1..n
      PROVE  IF xs[j] = xs[i]
               THEN num[i][j] = num[i][j - 1] /\ den[i][j] = den[i][j - 1]
               ELSE /\ Cong(Order, num[i][j], num[i][j - 1] * (0 - xs[j]))
                    /\ Cong(Order, den[i][j], den[i][j - 1] * (xs[i] - xs[j]))
  <2> DEFINE a == G(i)[j - 1].numerator
             b == G(i)[j - 1].denominator
  <2>1. j \in 0..n /\ j - 1 \in 0..n
    BY <1>1
  <2>2. /\ num[i][j] = G(i)[j].numerator /\ num[i][j - 1] = a
        /\ den[i][j] = G(i)[j].denominator /\ den[i][j - 1] = b
    BY <2>1
  <2>3. G(i)[j] = NextFactors(G(i)[j - 1], 0, xs[i], xs[j]) /\ a \in Int /\ b \in Int
    BY <1>3, <2>1
  <2> HIDE DEF num, den
  <2>4. CASE xs[j] = xs[i]
    BY <2>2, <2>3, <2>4 DEF NextFactors
  <2>5. CASE xs[j] # xs[i]
    <3> DEFINE c == a * (0 - xs[j])
               d == b * (xs[i] - xs[j])
    <3>1. /\ G(i)[j].numerator = modOrder(c)
          /\ G(i)[j].denominator = modOrder(d)
      BY <2>3, <2>5 DEF NextFactors
    <3>2. c \in Int /\ d \in Int
      BY <1>1, <2>3
    <3>3. Cong(Order, modOrder(c), c) /\ Cong(Order, modOrder(d), d)
      <4> HIDE DEF c, d
      <4>1. QED
        BY <3>2, ModOrderIs
    <3>4. QED
      BY <2>2, <2>5, <3>1, <3>3
  <2>6. QED
    BY <2>4, <2>5
<1>5. ASSUME NEW i \in 1..n
      PROVE  num[i][0] = 1 /\ den[i][0] = 1
  BY <1>1, <1>3
<1>6. ASSUME NEW i \in 1..n, NEW j \in 0..n
      PROVE  num[i][j] \in Int /\ den[i][j] \in Int
  BY <1>3
<1>7. ASSUME NEW i \in 1..n
      PROVE  /\ ProductsAt(0, xs[i], xs).denominator = den[i][n]
             /\ ProductsAt(0, xs[i], xs).numerator = num[i][n]
  <2>1. n \in 0..n
    BY <1>1
  <2>2. QED
    BY <1>2, <2>1
<1> HIDE DEF num, den
<1>8. AreProducts(Order, xs, num, den, n)
  BY <1>1, <1>4, <1>5, <1>6 DEF AreProducts
<1>9. ASSUME NEW i \in 1..n
      PROVE  v[i] \in Int /\ Cong(Order, den[i][n] * v[i], 1)
  <2>1. den[i][n] \in Int /\ v[i] = modInverse(den[i][n])
    BY <1>1, <1>6
  <2>2. HasSubgroupInverse(den[i][n])
    BY <1>7
  <2>3. QED
    BY <2>1, <2>2, EuclidInverts
<1>10. PICK q, C : /\ IsWeights(Order, xs, q, C, n)
                   /\ \A i \in 1..n : Cong(Order, num[i][n] * v[i], C[i][n])
  <2>1. Terms(v, n) /\ Order \in Nat
    BY <1>9, OrderIs DEF Terms
  <2> HIDE DEF v, n
  <2>2. QED
    BY <1>1, <1>8, <1>9, <2>1, ProductsAreWeights
<1>11. ASSUME NEW i \in 1..n
       PROVE  /\ lagrangeCoefficientAtZero(xs[i], xs) \in Int
              /\ Cong(Order, lagrangeCoefficientAtZero(xs[i], xs), C[i][n])
  <2> DEFINE a == num[i][n] * v[i]
  <2>1. lagrangeCoefficientAtZero(xs[i], xs) = modOrder(a)
    BY <1>7 DEF lagrangeCoefficientAtZero
  <2>2. a \in Int /\ C[i][n] \in Int /\ Cong(Order, a, C[i][n])
    <3>1. num[i][n] \in Int /\ v[i] \in Int
      BY <1>1, <1>6, <1>9
    <3>2. C[i][n] \in Int
      BY <1>1, <1>10 DEF IsWeights
    <3>3. QED
      BY <1>10, <3>1, <3>2
  <2> HIDE DEF a
  <2>3. modOrder(a) \in Int /\ Cong(Order, modOrder(a), a)
    BY <2>2, ModOrderIs
  <2>4. Cong(Order, modOrder(a), C[i][n])
    BY <2>2, <2>3, CongTrans, OrderIs
  <2>5. QED
    BY <2>1, <2>3, <2>4
<1>12. QED
  BY <1>10, <1>11

(* The denominators of indexes smaller than the order have inverses. *)
LEMMA DenominatorInverts ==
  ASSUME NEW xs, Len(xs) \in Nat, \A j \in 1..Len(xs) : xs[j] \in 1..Order - 1,
         NEW x \in 1..Order - 1
  PROVE  HasSubgroupInverse(ProductsAt(0, x, xs).denominator)
<1> DEFINE n == Len(xs)
           S == {a \in Int : Unit(a)}
           p == ProductsAt(0, x, xs)
<1>1. PICK g : IsFactors(g, 0, x, xs) /\ p = g[n]
  <2>1. 0 \in Int /\ x \in Int /\ \A j \in 1..Len(xs) : xs[j] \in Int
    BY OrderIs
  <2>2. QED
    BY <2>1, ProductsRun
<1> DEFINE d == [j \in 0..n |-> g[j].denominator]
<1>2. /\ g[0] = [numerator |-> 1, denominator |-> 1]
      /\ \A j \in 0..n : g[j].denominator \in Int
      /\ \A j \in 1..n : g[j] = NextFactors(g[j - 1], 0, x, xs[j])
  BY <1>1 DEF IsFactors, Factors
<1>3. n \in Nat /\ \A j \in 1..n : xs[j] \in 1..Order - 1
  OBVIOUS
<1> HIDE DEF n, p
<1>4. d[0] \in S
  <2>1. d[0] = 1
    BY <1>2, <1>3
  <2> DEFINE one == 1
  <2>2. one \in Int /\ one * one = one
    OBVIOUS
  <2>3. Cong(Order, one * one, 1)
    BY <2>2, CongRefl, OrderIs
  <2>4. Unit(one)
    BY <2>2, <2>3 DEF Unit
  <2>5. QED
    BY <2>1, <2>2, <2>4
<1>5. ASSUME NEW j \in 1..n, d[j - 1] \in S PROVE d[j] \in S
  <2> DEFINE a == d[j - 1]
             y == xs[j]
             e == x - y
  <2>1. j \in 0..n /\ j - 1 \in 0..n
    BY <1>3
  <2>2. d[j] = g[j].denominator /\ a = g[j - 1].denominator
    BY <2>1
  <2>3. g[j] = NextFactors(g[j - 1], 0, x, y) /\ y \in 1..Order - 1 /\ a \in S
    BY <1>2, <1>3, <1>5
  <2> HIDE DEF d, a, y
  <2>4. CASE y = x
    BY <2>2, <2>3, <2>4 DEF NextFactors
  <2>5. CASE y # x
    <3>1. d[j] = modOrder(a * e)
      BY <2>2, <2>3, <2>5 DEF NextFactors
    <3>2. e \in Int
      BY <2>3, OrderIs
    <3>3. ~ Cong(Order, e, 0)
      <4>1. ASSUME Cong(Order, e, 0) PROVE FALSE
        <5>1. PICK k \in Int : e = 0 + Order * k
          BY <4>1 DEF Cong
        <5>2. x = y + Order * k
          BY <2>3, <3>2, <5>1, OrderIs
        <5>3. Cong(Order, x, y)
          BY <5>2 DEF Cong
        <5>4. /\ Order \in Nat \ {0}
              /\ x \in 0..Order - 1 /\ y \in 0..Order - 1
          BY <2>3, OrderIs
        <5>5. x = y
          BY <5>3, <5>4, CongSame
        <5>6. QED
          BY <2>5, <5>5
      <4>2. QED
        BY <4>1
    <3> HIDE DEF e
    <3>4. Unit(a) /\ Unit(e)
      BY <2>3, <3>2, <3>3, UnitsAre
    <3>5. Unit(modOrder(a * e))
      BY <3>4, UnitsMultiply
    <3>6. QED
      BY <3>1, <3>5 DEF Unit
  <2>6. QED
    BY <2>4, <2>5
<1>6. d[n] \in S /\ d[n] = p.denominator
  <2>1. n \in 0..n
    BY <1>3
  <2>2. d[n] = p.denominator
    BY <1>1, <2>1
  <2> HIDE DEF S, d
  <2>3. \A j \in 0..n : d[j] \in S
    BY <1>3, <1>4, <1>5, StepsStay
  <2>4. QED
    BY <2>1, <2>2, <2>3
<1> HIDE DEF d
<1> DEFINE D == p.denominator
<1>7. D \in Int /\ Unit(D)
  BY <1>6
<1> HIDE DEF D
<1>8. ~ Cong(Order, D, 0)
  BY <1>7, UnitsAre
<1>9. HasSubgroupInverse(D)
  BY <1>7, <1>8, EuclidFinds
<1>10. QED
  BY <1>9 DEF D, p

Shares == [y : Int, power : Int]

NextShare(s, coefficient, x) ==
  [y     |-> modOrder(s.y + coefficient * s.power),
   power |-> modOrder(s.power * x)]

IsShare(g, s, coefficients, x) ==
  /\ g[0] = [y |-> s, power |-> x]
  /\ \A k \in 0..Len(coefficients) : g[k] \in Shares
  /\ \A k \in 1..Len(coefficients) : g[k] = NextShare(g[k - 1], coefficients[k], x)

(* ShareAt is the last of its loop's rounds. *)
LEMMA ShareRuns ==
  ASSUME NEW s \in Int, NEW x \in Int, NEW cs, Len(cs) \in Nat,
         \A k \in 1..Len(cs) : cs[k] \in Int
  PROVE  \E g : IsShare(g, s, cs, x) /\ ShareAt(s, cs, x) = g[Len(cs)].y
<1> DEFINE n == Len(cs)
           first == [y |-> s, power |-> x]
           body(f) == [k \in 0..n |-> IF k = 0 THEN first
                                      ELSE NextShare(f[k - 1], cs[k], x)]
           sum == CHOOSE f : f = body(f)
           step == [k \in 1..n |-> [p \in Shares |-> NextShare(p, cs[k], x)]]
<1>1. ShareAt(s, cs, x) = sum[n].y
  BY DEF ShareAt, NextShare
<1>2. n \in Nat /\ \A k \in 1..n : cs[k] \in Int
  OBVIOUS
<1> HIDE DEF n
<1>3. first \in Shares
  BY DEF Shares
<1>4. ASSUME NEW p \in Shares, NEW k \in 1..n
      PROVE  NextShare(p, cs[k], x) \in Shares
  <2> DEFINE a == p.y + cs[k] * p.power
             b == p.power * x
  <2>1. a \in Int /\ b \in Int
    BY <1>2 DEF Shares
  <2>2. modOrder(a) \in Int /\ modOrder(b) \in Int
    <3> HIDE DEF a, b
    <3>1. QED
      BY <2>1, ModOrderIs
  <2>3. [y |-> modOrder(a), power |-> modOrder(b)] \in Shares
    <3> HIDE DEF a, b
    <3>1. QED
      BY <2>2 DEF Shares
  <2>4. QED
    BY <2>3 DEF NextShare
<1>5. \A k \in 1..n : step[k] \in [Shares -> Shares]
  BY <1>4
<1> HIDE DEF first
<1>6. \E f : f = body(f)
  <2> HIDE DEF step
  <2>1. PICK f : IsSteps(f, n, Shares, first, step)
    BY <1>2, <1>3, <1>5, StepsExist
  <2>2. ASSUME NEW k \in 0..n
        PROVE  f[k] = IF k = 0 THEN first ELSE NextShare(f[k - 1], cs[k], x)
    <3>1. CASE k = 0
      BY <2>1, <3>1 DEF IsSteps
    <3>2. CASE k # 0
      <4>1. k \in 1..n /\ k - 1 \in 0..n
        BY <1>2, <3>2
      <4>2. f[k - 1] \in Shares /\ f[k] = step[k][f[k - 1]]
        BY <2>1, <4>1 DEF IsSteps
      <4>3. step[k][f[k - 1]] = NextShare(f[k - 1], cs[k], x)
        BY <4>1, <4>2 DEF step
      <4>4. QED
        BY <3>2, <4>2, <4>3
    <3>3. QED
      BY <3>1, <3>2
  <2>3. f = [k \in 0..n |-> f[k]]
    BY <2>1 DEF IsSteps
  <2>4. f = body(f)
    BY <2>2, <2>3
  <2>5. QED
    BY <2>4
<1>7. sum = body(sum)
  <2> HIDE DEF body
  <2>1. QED
    BY <1>6
<1> HIDE DEF sum
<1>8. sum[0] = first /\ \A k \in 1..n : sum[k] = NextShare(sum[k - 1], cs[k], x)
  <2>1. 0 \in 0..n /\ \A k \in 1..n : k \in 0..n /\ k # 0
    BY <1>2
  <2>2. QED
    BY <1>7, <2>1
<1>9. \A k \in 0..n : sum[k] \in Shares
  <2>1. ASSUME NEW k \in 1..n, sum[k - 1] \in Shares PROVE sum[k] \in Shares
    BY <1>4, <1>8, <2>1
  <2>2. sum[0] \in Shares
    BY <1>3, <1>8
  <2>3. QED
    BY <1>2, <2>1, <2>2, StepsStay
<1>10. IsShare(sum, s, cs, x)
  BY <1>8, <1>9 DEF IsShare, first, n
<1>11. QED
  BY <1>1, <1>10 DEF n

(* As many shares as the polynomial has coefficients come to its value at  *)
(* zero.                                                                   *)
LEMMA SharesInterpolate ==
  ASSUME NEW s \in Int, NEW cs, Len(cs) \in Nat, \A k \in 1..Len(cs) : cs[k] \in Int,
         NEW n \in Nat, n = Len(cs) + 1, NEW x, NEW q, NEW C,
         IsWeights(Order, x, q, C, n),
         NEW f, \A i \in 1..n : f[i] \in Int /\ Cong(Order, f[i], ShareAt(s, cs, x[i]))
  PROVE  Cong(Order, SumTo(Weighted(C, f, n), n), s)
<1> DEFINE m == Len(cs)
           G(i) == CHOOSE g : IsShare(g, s, cs, x[i])
                              /\ ShareAt(s, cs, x[i]) = g[m].y
           y == [k \in 0..m |-> [i \in 1..n |-> IF k = m THEN f[i] ELSE G(i)[k].y]]
           w == [k \in 0..m |-> [i \in 1..n |-> IF k = 0 THEN 1
                                                ELSE G(i)[k - 1].power]]
<1>1. m \in Nat /\ n = m + 1 /\ m \in 0..n - 1 /\ n # 0 /\ \A k \in 1..m : cs[k] \in Int
  OBVIOUS
<1> HIDE DEF m
<1>2. ASSUME NEW i \in 1..n PROVE x[i] \in Int
  BY DEF IsWeights
<1>3. ASSUME NEW i \in 1..n
      PROVE  IsShare(G(i), s, cs, x[i]) /\ ShareAt(s, cs, x[i]) = G(i)[m].y
  <2>1. \E g : IsShare(g, s, cs, x[i]) /\ ShareAt(s, cs, x[i]) = g[m].y
    BY <1>2, ShareRuns DEF m
  <2>2. QED
    BY <2>1
<1> HIDE DEF G
<1>4. ASSUME NEW i \in 1..n
      PROVE  /\ G(i)[0].y = s /\ G(i)[0].power = x[i]
             /\ \A k \in 0..m : G(i)[k].y \in Int /\ G(i)[k].power \in Int
             /\ \A k \in 1..m : G(i)[k] = NextShare(G(i)[k - 1], cs[k], x[i])
  <2> DEFINE g == G(i)
  <2>1. IsShare(g, s, cs, x[i])
    BY <1>3
  <2> HIDE DEF g
  <2>2. /\ g[0] = [y |-> s, power |-> x[i]]
        /\ \A k \in 0..m : g[k] \in Shares
        /\ \A k \in 1..m : g[k] = NextShare(g[k - 1], cs[k], x[i])
    BY <2>1 DEF IsShare, m
  <2>3. \A k \in 0..m : g[k].y \in Int /\ g[k].power \in Int
    BY <2>2 DEF Shares
  <2>4. QED
    BY <2>2, <2>3 DEF g
<1>5. ASSUME NEW i \in 1..n, NEW k \in 1..m
      PROVE  /\ Cong(Order, G(i)[k].y, G(i)[k - 1].y + cs[k] * G(i)[k - 1].power)
             /\ Cong(Order, G(i)[k].power, G(i)[k - 1].power * x[i])
  <2> DEFINE a == G(i)[k - 1].y + cs[k] * G(i)[k - 1].power
             b == G(i)[k - 1].power * x[i]
  <2>1. k - 1 \in 0..m
    BY <1>1
  <2>2. a \in Int /\ b \in Int
    <3>1. /\ G(i)[k - 1].y \in Int /\ G(i)[k - 1].power \in Int
          /\ cs[k] \in Int /\ x[i] \in Int
      BY <1>1, <1>2, <1>4, <2>1
    <3>2. QED
      BY ONLY <3>1
  <2>3. G(i)[k].y = modOrder(a) /\ G(i)[k].power = modOrder(b)
    <3>1. G(i)[k] = NextShare(G(i)[k - 1], cs[k], x[i])
      BY <1>4
    <3>2. QED
      BY <3>1 DEF NextShare
  <2> HIDE DEF a, b
  <2>4. Cong(Order, modOrder(a), a) /\ Cong(Order, modOrder(b), b)
    BY <2>2, ModOrderIs
  <2>5. QED
    BY <2>3, <2>4 DEF a, b
<1>6. ASSUME NEW i \in 1..n, NEW k \in 0..m
      PROVE  /\ y[k][i] \in Int /\ Cong(Order, y[k][i], G(i)[k].y)
  <2>1. y[k][i] = IF k = m THEN f[i] ELSE G(i)[k].y
    OBVIOUS
  <2>2. G(i)[k].y \in Int
    BY <1>4
  <2>3. CASE k = m
    BY <1>3, <2>1, <2>3
  <2>4. CASE k # m
    BY <2>1, <2>2, <2>4, CongRefl, OrderIs
  <2>5. QED
    BY <2>3, <2>4
<1>7. ASSUME NEW i \in 1..n, NEW k \in 0..m PROVE w[k][i] \in Int
  <2>1. w[k][i] = IF k = 0 THEN 1 ELSE G(i)[k - 1].power
    OBVIOUS
  <2>2. k # 0 => k - 1 \in 0..m
    BY <1>1
  <2>3. k # 0 => G(i)[k - 1].power \in Int
    BY <1>4, <2>2
  <2> HIDE DEF w
  <2>4. QED
    BY <2>1, <2>3
<1>8. IsPowers(Order, x, w, n, m)
  <2>1. \A i \in 1..n : w[0][i] = 1
    BY <1>1
  <2>2. ASSUME NEW k \in 1..m, NEW i \in 1..n
        PROVE  Cong(Order, w[k][i], w[k - 1][i] * x[i])
    <3>1. k \in 0..m /\ k - 1 \in 0..m /\ k # 0
      BY <1>1
    <3>2. w[k][i] = G(i)[k - 1].power
      BY <3>1
    <3>3. CASE k = 1
      <4>1. w[k - 1][i] = 1 /\ w[k][i] = x[i] /\ 1 * x[i] = x[i]
        BY <1>2, <1>4, <3>1, <3>2, <3>3
      <4> HIDE DEF w
      <4>2. Cong(Order, x[i], x[i])
        BY <1>2, CongRefl, OrderIs
      <4>3. QED
        BY <4>1, <4>2
    <3>4. CASE k # 1
      <4>1. k - 1 \in 1..m /\ (k - 1) - 1 = k - 2
        BY <1>1, <3>4
      <4>2. w[k - 1][i] = G(i)[k - 2].power
        BY <3>1, <4>1
      <4> HIDE DEF w
      <4>3. Cong(Order, G(i)[k - 1].power, G(i)[(k - 1) - 1].power * x[i])
        BY <1>5, <4>1
      <4>4. QED
        BY <3>2, <4>1, <4>2, <4>3
    <3>5. QED
      BY <3>3, <3>4
  <2> HIDE DEF w
  <2>3. QED
    BY <1>7, <2>1, <2>2 DEF IsPowers
<1> HIDE DEF w
<1>9. ASSUME NEW i \in 1..n PROVE Cong(Order, y[0][i], s)
  <2>1. 0 \in 0..m
    BY <1>1
  <2> HIDE DEF y
  <2>2. QED
    BY <1>4, <1>6, <2>1
<1>10. ASSUME NEW k \in 0..m PROVE Terms(y[k], n)
  BY <1>6 DEF Terms
<1>11. ASSUME NEW k \in 1..m, NEW i \in 1..n
       PROVE  Cong(Order, y[k][i], y[k - 1][i] + cs[k] * w[k][i])
  <2>1. k \in 0..m /\ k - 1 \in 0..m /\ k # 0 /\ k - 1 # m
    BY <1>1
  <2> DEFINE a == y[k][i]
             b == G(i)[k].y
             c == cs[k] * G(i)[k - 1].power
  <2>2. Cong(Order, a, b)
    BY <1>6, <2>1
  <2>3. Cong(Order, b, G(i)[k - 1].y + c)
    BY <1>5
  <2>4. y[k - 1][i] = G(i)[k - 1].y /\ w[k][i] = G(i)[k - 1].power
    BY <2>1 DEF w
  <2>5. a \in Int /\ b \in Int /\ G(i)[k - 1].y + c \in Int
    BY <1>1, <1>4, <1>6, <2>1
  <2> HIDE DEF a, b
  <2>6. Cong(Order, a, G(i)[k - 1].y + c)
    <3> HIDE DEF c
    <3>1. QED
      BY <2>2, <2>3, <2>5, CongTrans, OrderIs
  <2>7. QED
    BY <2>4, <2>6 DEF a
<1>12. Terms(cs, m)
  BY <1>1 DEF Terms
<1> DEFINE Y == y[m]
<1>13. Y = [i \in 1..n |-> f[i]]
  <2>1. m \in 0..m
    BY <1>1
  <2>2. QED
    BY <2>1
<1> HIDE DEF y
<1>14. Cong(Order, SumTo(Weighted(C, y[m], n), n), s)
  <2>1. Order \in Nat
    BY OrderIs
  <2>2. QED
    BY <1>1, <1>8, <1>9, <1>10, <1>11, <1>12, <2>1, PolynomialInterpolates
<1>15. Weighted(C, y[m], n) = Weighted(C, f, n)
  BY <1>13 DEF Weighted
<1>16. QED
  BY <1>14, <1>15

(* A coefficient is a number. *)
LEMMA CoefficientType ==
  ASSUME NEW xs, Len(xs) \in Nat, \A i \in 1..Len(xs) : xs[i] \in Int, NEW x \in Int
  PROVE  lagrangeCoefficientAtZero(x, xs) \in Int
<1> DEFINE p == ProductsAt(0, x, xs)
           v == modInverse(p.denominator)
           a == p.numerator * v
<1>1. PICK g : IsFactors(g, 0, x, xs) /\ p = g[Len(xs)]
  <2>1. 0 \in Int
    OBVIOUS
  <2>2. QED
    BY <2>1, ProductsRun
<1>2. p.numerator \in Int /\ p.denominator \in Int
  <2>1. Len(xs) \in 0..Len(xs)
    OBVIOUS
  <2> HIDE DEF p
  <2>2. QED
    BY <1>1, <2>1 DEF IsFactors, Factors
<1> HIDE DEF p
<1>3. v \in Int
  BY <1>2, EuclidInverts
<1> HIDE DEF v
<1>4. a \in Int
  BY <1>2, <1>3
<1> HIDE DEF a
<1>5. modOrder(a) \in Int
  BY <1>4, ModOrderIs
<1>6. lagrangeCoefficientAtZero(x, xs) = modOrder(a)
  BY DEF lagrangeCoefficientAtZero, a, v, p
<1>7. QED
  BY <1>5, <1>6

Point == [BallotIds \cup {0} -> Int]

(* Congruent scalars give one multiple of a point. *)
LEMMA MultiplySame ==
  ASSUME NEW P \in Point, NEW a \in Int, NEW b \in Int, Cong(Order, a, b)
  PROVE  Multiply(P, a) = Multiply(P, b)
<1>1. ASSUME NEW x \in BallotIds \cup {0} PROVE modOrder(P[x] * a) = modOrder(P[x] * b)
  <2>1. P[x] \in Int /\ P[x] * a \in Int /\ P[x] * b \in Int
    BY DEF Point
  <2>2. Cong(Order, P[x] * a, P[x] * b)
    BY <2>1, CongScale, OrderIs
  <2>3. QED
    BY <2>1, <2>2, ModOrderSame
<1>2. DOMAIN P = BallotIds \cup {0}
  BY DEF Point
<1>3. QED
  BY <1>1, <1>2 DEF Multiply

(* Shares of multiples of one point come to the multiple by the weighted   *)
(* sum.                                                                    *)
LEMMA InterpolatedIs ==
  ASSUME NEW shares, NEW n \in Nat, DOMAIN shares = 1..n,
         \A i \in 1..n : shares[i].trusteeIndex \in Int,
         NEW P \in Point, NEW w, Terms(w, n),
         NEW points, \A i \in 1..n : points[i] = Multiply(P, w[i])
  PROVE  LET t == [i \in 1..n |-> w[i] * lagrangeCoefficientAtZero(
                                           shares[i].trusteeIndex, Indexes(shares))]
         IN  SumTo(t, n) \in Int /\ Interpolate(shares, points) = Multiply(P, SumTo(t, n))
<1> DEFINE xs == Indexes(shares)
           c(i) == lagrangeCoefficientAtZero(shares[i].trusteeIndex, xs)
           t == [i \in 1..n |-> w[i] * c(i)]
           ps == [i \in 1..n |-> Multiply(points[i], c(i))]
           F == [i \in 0..n |-> Multiply(P, SumTo(t, i))]
           X == BallotIds \cup {0}
<1>1. Len(xs) = n /\ \A i \in 1..n : xs[i] = shares[i].trusteeIndex
  <2>1. xs = [i \in 1..n |-> shares[i].trusteeIndex]
    BY DEF Indexes
  <2> HIDE DEF xs
  <2>2. Len(xs) = n
    BY <2>1, ListOfLength
  <2>3. QED
    BY <2>1, <2>2
<1> HIDE DEF xs
<1>2. \A i \in 1..n : c(i) \in Int
  BY <1>1, CoefficientType
<1> HIDE DEF c
<1>3. Interpolate(shares, points) = AddAll(ps)
  BY DEF Interpolate, c, xs
<1>4. Len(ps) = n
  <2> HIDE DEF t
  <2> DEFINE s == ps
  <2>1. s = [i \in 1..n |-> Multiply(points[i], c(i))]
    OBVIOUS
  <2> HIDE DEF s
  <2>2. Len(s) = n
    BY <2>1, ListOfLength
  <2>3. QED
    BY <2>2 DEF s
<1>5. /\ \A i \in 1..n : t[i] = w[i] * c(i) /\ w[i] \in Int
      /\ Terms(t, n)
  <2>1. ASSUME NEW i \in 1..n
        PROVE  t[i] = w[i] * c(i) /\ w[i] \in Int /\ t[i] \in Int
    <3>1. t[i] = w[i] * c(i) /\ w[i] \in Int /\ c(i) \in Int
      BY <1>2 DEF Terms
    <3> HIDE DEF t
    <3>2. QED
      BY <3>1
  <2> HIDE DEF t
  <2>2. QED
    BY <2>1 DEF Terms
<1> HIDE DEF t
<1>6. \A i \in 0..n : Terms(t, i) /\ SumTo(t, i) \in Int
  <2>1. \A i \in 0..n : i \in Nat /\ Terms(t, i)
    BY <1>5 DEF Terms
  <2>2. QED
    BY <2>1, SumToIs
<1>7. DOMAIN P = X /\ \A x \in X : P[x] \in Int
  BY DEF Point
<1>8. F[0] = Zero
  <2>1. SumTo(t, 0) = 0 /\ F[0] = Multiply(P, SumTo(t, 0))
    BY <1>5, SumToIs
  <2>2. \A x \in X : modOrder(P[x] * 0) = 0
    BY <1>7, OrderIs DEF modOrder
  <2>3. Multiply(P, 0) = [x \in X |-> modOrder(P[x] * 0)]
    BY <1>7 DEF Multiply
  <2>4. QED
    BY <2>1, <2>2, <2>3 DEF Zero
<1>9. ASSUME NEW i \in 1..n PROVE F[i] = Add(F[i - 1], ps[i])
  <2> DEFINE S == SumTo(t, i - 1)
             e == c(i)
             v == w[i]
             A == Multiply(P, S)
             B == Multiply(P, v)
             D == Multiply(B, e)
  <2>1. i \in 0..n /\ i - 1 \in 0..n /\ i \in Nat /\ i # 0
    OBVIOUS
  <2>2. F[i] = Multiply(P, SumTo(t, i)) /\ F[i - 1] = A /\ ps[i] = D
    BY <2>1
  <2>3. SumTo(t, i) = S + v * e /\ S \in Int /\ v \in Int /\ e \in Int
    <3>1. SumTo(t, i) = SumTo(t, i - 1) + t[i]
      BY <1>6, <2>1, SumToIs
    <3>2. QED
      BY <1>2, <1>5, <1>6, <2>1, <3>1
  <2> HIDE DEF F, ps, S, e, v
  <2>4. A = [x \in X |-> modOrder(P[x] * S)]
    BY <1>7 DEF Multiply
  <2>5. B = [x \in X |-> modOrder(P[x] * v)]
    BY <1>7 DEF Multiply
  <2> HIDE DEF A, B
  <2>6. D = [x \in X |-> modOrder(modOrder(P[x] * v) * e)]
    <3>1. DOMAIN B = X
      BY <2>5
    <3>2. D = [x \in X |-> modOrder(B[x] * e)]
      BY <3>1 DEF Multiply
    <3>3. QED
      BY <2>5, <3>2
  <2> HIDE DEF D
  <2>7. Add(A, D) = [x \in X |-> modOrder(modOrder(P[x] * S)
                                          + modOrder(modOrder(P[x] * v) * e))]
    <3>1. DOMAIN A = X
      BY <2>4
    <3>2. Add(A, D) = [x \in X |-> modOrder(A[x] + D[x])]
      BY <3>1 DEF Add
    <3>3. QED
      BY <2>4, <2>6, <3>2
  <2>8. ASSUME NEW x \in X
        PROVE  modOrder(modOrder(P[x] * S) + modOrder(modOrder(P[x] * v) * e))
                 = modOrder(P[x] * (S + v * e))
    <3> DEFINE y == P[x]
               a == modOrder(y * S)
               b == modOrder(y * v)
               d == modOrder(b * e)
    <3>1. y \in Int
      BY <1>7
    <3> HIDE DEF y
    <3>2. y * S \in Int /\ y * v \in Int
      BY <2>3, <3>1
    <3>3. a \in Int /\ Cong(Order, a, y * S) /\ b \in Int /\ Cong(Order, b, y * v)
      BY <3>2, ModOrderIs
    <3> HIDE DEF a, b
    <3>4. b * e \in Int
      BY <2>3, <3>3
    <3>5. d \in Int /\ Cong(Order, d, b * e)
      BY <3>4, ModOrderIs
    <3> HIDE DEF d
    <3>6. PICK k \in Int : a = y * S + Order * k
      BY <3>3 DEF Cong
    <3>7. PICK l \in Int : b = y * v + Order * l
      BY <3>3 DEF Cong
    <3>8. PICK m \in Int : d = b * e + Order * m
      BY <3>5 DEF Cong
    <3>9. a + d = y * (S + v * e) + Order * (k + l * e + m)
      BY <2>3, <3>1, <3>6, <3>7, <3>8, OrderIs
    <3>10. k + l * e + m \in Int /\ a + d \in Int /\ y * (S + v * e) \in Int
      BY <2>3, <3>1, <3>3, <3>5
    <3>11. Cong(Order, a + d, y * (S + v * e))
      BY <3>9, <3>10 DEF Cong
    <3>12. modOrder(a + d) = modOrder(y * (S + v * e))
      BY <3>10, <3>11, ModOrderSame
    <3>13. QED
      BY <3>12 DEF a, b, d, y
  <2>9. Multiply(P, S + v * e) = [x \in X |-> modOrder(P[x] * (S + v * e))]
    BY <1>7 DEF Multiply
  <2>10. QED
    BY <2>2, <2>3, <2>7, <2>8, <2>9
<1>10. AddAll(ps) = F[n]
  <2> HIDE DEF F, ps
  <2>1. QED
    BY <1>4, <1>8, <1>9, AddAllIs
<1>11. F[n] = Multiply(P, SumTo(t, n)) /\ SumTo(t, n) \in Int
  <2>1. n \in 0..n
    OBVIOUS
  <2>2. QED
    BY <1>6, <2>1
<1> HIDE DEF F, ps
<1>12. QED
  BY <1>3, <1>10, <1>11 DEF t, c, xs

(* Multiples of the base tell a multiplier apart from others. *)
LEMMA BaseTells ==
  ASSUME NEW a \in Int, NEW b \in Int, Multiply(Base, a) = Multiply(Base, b)
  PROVE  Cong(Order, a, b)
<1>1. Base[0] = 1 /\ 0 \in DOMAIN Base /\ 1 * a = a /\ 1 * b = b
  BY DEF Base, Zero
<1>2. Multiply(Base, a)[0] = modOrder(a) /\ Multiply(Base, b)[0] = modOrder(b)
  BY <1>1 DEF Multiply
<1> DEFINE r == modOrder(a)
<1>3. /\ r \in Int /\ Cong(Order, a, r)
      /\ modOrder(b) \in Int /\ Cong(Order, modOrder(b), b)
  BY ModOrderIs
<1>4. Cong(Order, r, b)
  BY <1>2, <1>3
<1> HIDE DEF r
<1>5. QED
  BY <1>3, <1>4, CongTrans, OrderIs

(* The generator is a point. *)
LEMMA BaseIsPoint == Base \in Point
BY DEF Base, Zero, Point

-----------------------------------------------------------------------------
(* Combining shares *)

(* What the shares' scalars, weighted by their coefficients, add up to. *)
Combined(shares, w, n) ==
  SumTo([i \in 1..n |-> w[i] * lagrangeCoefficientAtZero(
                                 shares[i].trusteeIndex, Indexes(shares))], n)

(* Shares of scalars that combine to the key give the secret the key gives. *)
LEMMA SharedSecretIs ==
  ASSUME NEW shares, NEW n \in Nat, DOMAIN shares = 1..n,
         \A i \in 1..n : shares[i].trusteeIndex \in Int,
         NEW ct, NEW c \in Candidates, ct.c1[c] \in Point,
         NEW w, Terms(w, n),
         \A i \in 1..n : shares[i].decryptionSharePoints[c]
                           = Multiply(ct.c1[c], w[i]),
         NEW key \in Int, Cong(Order, Combined(shares, w, n), key)
  PROVE  SharedSecret(shares)[c] = Multiply(ct.c1[c], key)
<1> DEFINE P == ct.c1[c]
           S == Combined(shares, w, n)
           points == [i \in DOMAIN shares |-> shares[i].decryptionSharePoints[c]]
<1>1. SharedSecret(shares)[c] = Interpolate(shares, points)
  BY DEF SharedSecret
<1>2. P \in Point /\ \A i \in 1..n : points[i] = Multiply(P, w[i])
  OBVIOUS
<1> HIDE DEF P, points
<1>3. S \in Int /\ Interpolate(shares, points) = Multiply(P, S)
  BY <1>2, InterpolatedIs DEF Combined
<1> HIDE DEF S
<1>4. Multiply(P, S) = Multiply(P, key)
  <2>1. Cong(Order, S, key)
    BY DEF S
  <2>2. QED
    BY <1>2, <1>3, <2>1, MultiplySame
<1>5. QED
  BY <1>1, <1>3, <1>4 DEF P

(* What they add up to is a number. *)
LEMMA CombinedType ==
  ASSUME NEW shares, NEW n \in Nat, DOMAIN shares = 1..n,
         \A i \in 1..n : shares[i].trusteeIndex \in Int, NEW w, Terms(w, n)
  PROVE  Combined(shares, w, n) \in Int
<1> DEFINE t == [i \in 1..n |-> w[i] * lagrangeCoefficientAtZero(
                                  shares[i].trusteeIndex, Indexes(shares))]
           xs == Indexes(shares)
<1>1. Len(xs) = n /\ \A i \in 1..n : xs[i] \in Int
  <2>1. xs = [i \in 1..n |-> shares[i].trusteeIndex]
    BY DEF Indexes
  <2> HIDE DEF xs
  <2>2. Len(xs) = n
    BY <2>1, ListOfLength
  <2>3. QED
    BY <2>1, <2>2
<1> HIDE DEF xs
<1>2. \A i \in 1..n : lagrangeCoefficientAtZero(shares[i].trusteeIndex, xs) \in Int
  BY <1>1, CoefficientType
<1>3. \A i \in 1..n : t[i] \in Int
  BY <1>2 DEF xs, Terms
<1> HIDE DEF t
<1>4. Terms(t, n)
  BY <1>3 DEF Terms
<1>5. SumTo(t, n) \in Int
  BY <1>4, SumToIs
<1>6. QED
  BY <1>5 DEF Combined, t

(* V1: the public shares have to combine to the election key. *)
LEMMA PublicSharesCombine ==
  ASSUME NEW shares, NEW n \in Nat, DOMAIN shares = 1..n,
         \A i \in 1..n : shares[i].trusteeIndex \in Int,
         NEW w, Terms(w, n),
         \A i \in 1..n : shares[i].trusteePublicShare = Multiply(Base, w[i]),
         NEW key \in Int,
         Interpolate(shares,
                     [i \in DOMAIN shares |-> shares[i].trusteePublicShare])
           = Multiply(Base, key)
  PROVE  Cong(Order, Combined(shares, w, n), key)
<1> DEFINE S == Combined(shares, w, n)
           points == [i \in DOMAIN shares |-> shares[i].trusteePublicShare]
<1>1. \A i \in 1..n : points[i] = Multiply(Base, w[i])
  OBVIOUS
<1>2. Interpolate(shares, points) = Multiply(Base, key)
  OBVIOUS
<1> HIDE DEF points
<1>3. S \in Int /\ Interpolate(shares, points) = Multiply(Base, S)
  BY <1>1, BaseIsPoint, InterpolatedIs DEF Combined
<1> HIDE DEF S
<1>4. Cong(Order, S, key)
  BY <1>2, <1>3, BaseTells
<1>5. QED
  BY <1>4 DEF S

(* V2 and V3: shares of one polynomial combine to its value at zero, where *)
(* the differences of their indexes have inverses.                         *)
LEMMA KeySharesCombine ==
  ASSUME NEW shares, NEW n \in Nat, DOMAIN shares = 1..n,
         \A i \in 1..n : shares[i].trusteeIndex \in Int,
         DistinctIndexes(shares),
         \A i \in 1..n :
           HasSubgroupInverse(ProductsAt(0, shares[i].trusteeIndex,
                                         Indexes(shares)).denominator),
         NEW s \in Int, NEW cs, Len(cs) \in Nat, n = Len(cs) + 1,
         \A k \in 1..Len(cs) : cs[k] \in Int,
         NEW w, Terms(w, n),
         \A i \in 1..n : Multiply(Base, w[i])
                           = Multiply(Base, ShareAt(s, cs, shares[i].trusteeIndex))
  PROVE  Cong(Order, Combined(shares, w, n), s)
<1> DEFINE xs == Indexes(shares)
<1>1. /\ Len(xs) = n
      /\ \A i \in 1..n : xs[i] = shares[i].trusteeIndex /\ xs[i] \in Int
      /\ \A i, j \in 1..n : i # j => xs[i] # xs[j]
  <2>1. xs = [i \in 1..n |-> shares[i].trusteeIndex]
    BY DEF Indexes
  <2> HIDE DEF xs
  <2>2. Len(xs) = n
    BY <2>1, ListOfLength
  <2>3. \A i \in 1..n : xs[i] = shares[i].trusteeIndex
    BY <2>1
  <2>4. \A i, j \in 1..n : i # j => xs[i] # xs[j]
    BY <2>3 DEF DistinctIndexes
  <2>5. QED
    BY <2>2, <2>3, <2>4
<1>2. \A i \in 1..n : HasSubgroupInverse(ProductsAt(0, xs[i], xs).denominator)
  BY <1>1
<1> DEFINE c(i) == lagrangeCoefficientAtZero(xs[i], xs)
           t == [i \in 1..n |-> w[i] * c(i)]
<1>3. Combined(shares, w, n) = SumTo(t, n)
  <2>1. t = [i \in 1..n |-> w[i] * lagrangeCoefficientAtZero(
                                     shares[i].trusteeIndex, Indexes(shares))]
    BY <1>1
  <2> HIDE DEF t
  <2>2. QED
    BY <2>1 DEF Combined
<1> HIDE DEF xs
<1>4. PICK q, C : /\ IsWeights(Order, xs, q, C, n)
                  /\ \A i \in 1..n : c(i) \in Int /\ Cong(Order, c(i), C[i][n])
  BY <1>1, <1>2, CoefficientsAreWeights
<1> HIDE DEF c
<1>5. \A i \in 1..n : w[i] \in Int
  BY DEF Terms
<1>6. ASSUME NEW i \in 1..n PROVE Cong(Order, w[i], ShareAt(s, cs, xs[i]))
  <2>1. xs[i] \in Int /\ xs[i] = shares[i].trusteeIndex
    BY <1>1
  <2>2. PICK g : IsShare(g, s, cs, xs[i]) /\ ShareAt(s, cs, xs[i]) = g[Len(cs)].y
    BY <2>1, ShareRuns
  <2>3. ShareAt(s, cs, xs[i]) \in Int
    <3>1. Len(cs) \in 0..Len(cs)
      OBVIOUS
    <3>2. QED
      BY <2>2, <3>1 DEF IsShare, Shares
  <2>4. QED
    BY <1>5, <2>1, <2>3, BaseTells
<1> DEFINE u == Weighted(C, w, n)
<1>7. Cong(Order, SumTo(u, n), s)
  BY <1>4, <1>5, <1>6, SharesInterpolate
<1>8. /\ Terms(u, n) /\ SumTo(u, n) \in Int
      /\ \A i \in 1..n : u[i] = C[i][n] * w[i] /\ C[i][n] \in Int
  BY <1>4, WeightedTerms
<1> HIDE DEF u
<1>9. Terms(t, n) /\ \A i \in 1..n : t[i] = w[i] * c(i)
  <2>1. \A i \in 1..n : t[i] = w[i] * c(i) /\ t[i] \in Int
    BY <1>4, <1>5
  <2> HIDE DEF t
  <2>2. QED
    BY <2>1 DEF Terms
<1> HIDE DEF t
<1> DEFINE one == 1
           none == 0
<1>10. ASSUME NEW i \in 1..n PROVE Cong(Order, t[i], one * u[i] + none * u[i])
  <2> DEFINE a == c(i)
             b == C[i][n]
             y == w[i]
  <2>1. t[i] = y * a /\ u[i] = b * y /\ a \in Int /\ b \in Int /\ y \in Int
        /\ Cong(Order, a, b)
    BY <1>4, <1>5, <1>8, <1>9
  <2> HIDE DEF a, b, y
  <2>2. Cong(Order, y * a, y * b)
    BY <2>1, OrderIs, CongScale
  <2>3. one * u[i] + none * u[i] = y * b
    BY <2>1
  <2>4. QED
    BY <2>1, <2>2, <2>3
<1>11. Cong(Order, SumTo(t, n), SumTo(u, n)) /\ SumTo(t, n) \in Int
  <2>1. one \in Int /\ none \in Int
        /\ one * SumTo(u, n) + none * SumTo(u, n) = SumTo(u, n)
    BY <1>8
  <2> HIDE DEF one, none
  <2>2. Cong(Order, SumTo(t, n), one * SumTo(u, n) + none * SumTo(u, n))
    BY <1>8, <1>9, <1>10, <2>1, OrderIs, SumToLinear
  <2>3. QED
    BY <1>9, <2>1, <2>2, SumToIs
<1>12. QED
  BY <1>3, <1>7, <1>8, <1>11, OrderIs, CongTrans

(* An aggregate's first halves are points. *)
LEMMA MaskIsPoint ==
  ASSUME NEW ct, NEW ids, NEW key, Encrypts(ct, ids, key), NEW c \in Candidates
  PROVE  ct.c1[c] \in Point
<1>1. \A x \in BallotIds \cup {0} : (IF x \in ids THEN 1 ELSE 0) \in Int
  OBVIOUS
<1>2. Mask(ids) \in Point
  BY <1>1 DEF Mask, Point
<1>3. QED
  BY <1>2 DEF Encrypts

(* A secret that is the key's gives the votes. *)
LEMMA SecretGivesVotes ==
  ASSUME BatchInv, NEW ids \in SUBSET DOMAIN ballots, NEW key \in 1..Order - 1,
         NEW ct, Encrypts(ct, ids, key), NEW shares,
         \A c \in Candidates : SharedSecret(shares)[c] = Multiply(ct.c1[c], key)
  PROVE  Counts(ct, SharedSecret(shares), Cardinality(ids))
           = {[c \in Candidates |-> VotesFor(c, ids)]}
<1> DEFINE secret == [c \in Candidates |-> Multiply(ct.c1[c], key)]
           votes == [c \in Candidates |-> VotesFor(c, ids)]
<1>1. SharedSecret(shares) = [c \in Candidates |-> SharedSecret(shares)[c]]
  BY DEF SharedSecret
<1>2. SharedSecret(shares) = secret
  BY <1>1
<1>3. Counts(ct, secret, Cardinality(ids)) = {votes}
  BY DecryptsTo
<1> HIDE DEF secret
<1>4. QED
  BY <1>2, <1>3

(* What a share file shows, however it was made: an index, and the scalar  *)
(* each of its proofs knows.                                               *)
Witnessed(share) ==
  /\ {"trusteeIndex", "proofs"} \subseteq DOMAIN share
  /\ share.trusteeIndex \in Nat
  /\ \A c \in Candidates : share.proofs[c].witness \in Int

(* A proof that holds. *)
LEMMA DleqShows ==
  ASSUME NEW share, NEW ct, NEW c, NEW expected, DleqHolds(share, ct, c, expected)
  PROVE  /\ share.trusteePublicShare = Multiply(Base, share.proofs[c].witness)
         /\ share.decryptionSharePoints[c]
              = Multiply(ct.c1[c], share.proofs[c].witness)
BY DEF DleqHolds

(* A list of members of a list, none picked twice. *)
PickedFrom(f, m, list, n) ==
  \E pick \in [1..m -> 1..n] :
    /\ \A j, k \in 1..m : pick[j] = pick[k] => j = k
    /\ f = [k \in 1..m |-> list[pick[k]]]

(* The lowest shares are shares: of every number of them there is one that *)
(* has one less before it.                                                 *)
LEMMA LowestAreShares ==
  ASSUME NEW shares, NEW L \in Nat, DOMAIN shares = 1..L,
         \A i \in 1..L : shares[i].trusteeIndex \in Nat,
         NEW threshold \in 0..L
  PROVE  PickedFrom(SelectLowest(shares, threshold), threshold, shares, L)
<1> DEFINE Before(i) == {j \in DOMAIN shares :
                           \/ shares[j].trusteeIndex < shares[i].trusteeIndex
                           \/ /\ shares[j].trusteeIndex = shares[i].trusteeIndex
                              /\ j < i}
           key(i) == shares[i].trusteeIndex * (L + 1) + i
           K == {key(i) : i \in 1..L}
           Of(n) == CHOOSE i \in DOMAIN shares : Cardinality(Before(i)) = n - 1
<1>1. SelectLowest(shares, threshold) = [n \in 1..threshold |-> shares[Of(n)]]
  BY DEF SelectLowest
<1>2. \A i \in 1..L : key(i) \in Nat
  <2>1. ASSUME NEW i \in 1..L PROVE key(i) \in Nat
    <3> DEFINE x == shares[i].trusteeIndex
    <3>1. x \in Nat
      OBVIOUS
    <3> HIDE DEF x
    <3>2. x * (L + 1) \in Nat
      BY <3>1
    <3>3. x * (L + 1) + i \in Nat
      BY <3>2
    <3>4. QED
      BY <3>3 DEF x
  <2>2. QED
    BY <2>1
<1>3. ASSUME NEW i \in 1..L, NEW j \in 1..L
      PROVE  /\ key(j) < key(i) <=> j \in Before(i)
             /\ key(j) = key(i) => j = i
  <2> DEFINE x == shares[i].trusteeIndex
             y == shares[j].trusteeIndex
  <2>1. x \in Nat /\ y \in Nat
    OBVIOUS
  <2>2. key(i) = x * (L + 1) + i /\ key(j) = y * (L + 1) + j
    OBVIOUS
  <2>3. j \in Before(i) <=> y < x \/ (y = x /\ j < i)
    OBVIOUS
  <2> HIDE DEF x, y, key, Before
  <2>4. CASE y = x
    <3> DEFINE z == x * (L + 1)
    <3>1. z \in Nat /\ key(i) = z + i /\ key(j) = z + j
      BY <2>1, <2>2, <2>4
    <3> HIDE DEF z
    <3>2. QED
      BY <2>1, <2>3, <2>4, <3>1
  <2>5. CASE y < x
    <3>1. PICK d \in Nat : x = y + 1 + d
      <4>1. x - y - 1 \in Nat /\ x = y + 1 + (x - y - 1)
        BY <2>1, <2>5
      <4>2. QED
        BY <4>1
    <3> DEFINE z == y * (L + 1)
               e == d * (L + 1)
    <3>2. z \in Nat /\ e \in Nat /\ x * (L + 1) = z + (L + 1) + e
      BY <2>1, <3>1
    <3> HIDE DEF z, e
    <3>3. key(j) = z + j /\ key(i) = z + (L + 1) + e + i
      BY <2>2, <3>2 DEF z
    <3>4. QED
      BY <2>1, <2>3, <2>5, <3>2, <3>3
  <2>6. CASE x < y
    <3>1. PICK d \in Nat : y = x + 1 + d
      <4>1. y - x - 1 \in Nat /\ y = x + 1 + (y - x - 1)
        BY <2>1, <2>6
      <4>2. QED
        BY <4>1
    <3> DEFINE z == x * (L + 1)
               e == d * (L + 1)
    <3>2. z \in Nat /\ e \in Nat /\ y * (L + 1) = z + (L + 1) + e
      BY <2>1, <3>1
    <3> HIDE DEF z, e
    <3>3. key(i) = z + i /\ key(j) = z + (L + 1) + e + j
      BY <2>2, <3>2 DEF z
    <3>4. QED
      BY <2>1, <2>3, <2>6, <3>2, <3>3
  <2>7. QED
    BY <2>1, <2>4, <2>5, <2>6
<1> HIDE DEF key
<1>4. K \in SUBSET Nat /\ \A i \in 1..L : key(i) \in K
  BY <1>2
<1>5. \A k \in K : \E i \in 1..L : k = key(i)
  OBVIOUS
<1>6. IsFiniteSet(K) /\ Cardinality(K) = L
  <2> DEFINE f == [i \in 1..L |-> key(i)]
  <2>1. f \in Bijection(1..L, K)
    <3>1. f \in [1..L -> K]
      OBVIOUS
    <3>2. \A i, j \in 1..L : f[i] = f[j] => i = j
      BY <1>3
    <3>3. \A k \in K : \E i \in 1..L : f[i] = k
      OBVIOUS
    <3> HIDE DEF f, K
    <3>4. QED
      BY <3>1, <3>2, <3>3 DEF Bijection, Injection, Surjection, IsInjective
  <2>2. IsFiniteSet(1..L) /\ Cardinality(1..L) = L
    <3>1. 1 \in Int /\ L \in Int /\ (1 > L <=> L = 0) /\ L - 1 + 1 = L
      OBVIOUS
    <3>2. QED
      BY <3>1, FS_Interval
  <2> HIDE DEF f, K
  <2>3. ExistsBijection(1..L, K)
    BY <2>1 DEF ExistsBijection
  <2>4. QED
    BY <2>2, <2>3, FS_Bijection
<1>7. ASSUME NEW i \in 1..L PROVE Cardinality(Before(i)) = Rank(K, key(i))
  <2> DEFINE S == {m \in K : m < key(i)}
             f == [j \in Before(i) |-> key(j)]
  <2>1. Before(i) \in SUBSET (1..L)
    OBVIOUS
  <2> HIDE DEF Before
  <2>2. f \in Bijection(Before(i), S)
    <3>1. \A j \in Before(i) : f[j] \in S
      BY <1>3, <2>1
    <3>2. \A j, l \in Before(i) : f[j] = f[l] => j = l
      BY <1>3, <2>1
    <3>3. \A k \in S : \E j \in Before(i) : f[j] = k
      BY <1>3
    <3>4. f \in [Before(i) -> S]
      BY <3>1
    <3> HIDE DEF f, S
    <3>5. QED
      BY <3>2, <3>3, <3>4 DEF Bijection, Injection, Surjection, IsInjective
  <2>3. IsFiniteSet(S)
    <3>1. S \in SUBSET K
      OBVIOUS
    <3> HIDE DEF S, K
    <3>2. QED
      BY <1>6, <3>1, FS_Subset
  <2>4. IsFiniteSet(1..L)
    BY FS_Interval
  <2>5. IsFiniteSet(Before(i))
    BY <2>1, <2>4, FS_Subset
  <2> HIDE DEF f, K
  <2>6. Cardinality(Before(i)) = Cardinality(S)
    <3> HIDE DEF S
    <3>1. ExistsBijection(Before(i), S)
      BY <2>2 DEF ExistsBijection
    <3>2. QED
      BY <2>5, <3>1, FS_Bijection
  <2>7. QED
    BY <2>6 DEF Rank
<1> HIDE DEF Before
<1>8. ASSUME NEW n \in 1..threshold
      PROVE  Of(n) \in 1..L /\ Cardinality(Before(Of(n))) = n - 1
  <2>1. n - 1 \in 0..Cardinality(K) - 1
    BY <1>6
  <2>2. PICK k \in K : Rank(K, k) = n - 1
    <3> HIDE DEF K
    <3>1. QED
      BY <1>4, <1>6, <2>1, Ranks
  <2>3. PICK i \in 1..L : k = key(i)
    BY <1>5
  <2>4. Cardinality(Before(i)) = n - 1
    BY <1>7, <2>2, <2>3
  <2>5. QED
    BY <2>4
<1> HIDE DEF Of
<1> DEFINE pick == [n \in 1..threshold |-> Of(n)]
<1>9. pick \in [1..threshold -> 1..L]
  BY <1>8
<1>10. ASSUME NEW j \in 1..threshold, NEW k \in 1..threshold, pick[j] = pick[k]
       PROVE  j = k
  <2>1. Of(j) = Of(k)
    BY <1>10
  <2>2. j - 1 = k - 1
    BY <1>8, <2>1
  <2>3. QED
    BY <2>2
<1>11. SelectLowest(shares, threshold) = [n \in 1..threshold |-> shares[pick[n]]]
  BY <1>1
<1> HIDE DEF pick
<1>12. QED
  BY <1>9, <1>10, <1>11 DEF PickedFrom

(* V1: a result counts the votes, whatever shares it was made from: their  *)
(* proofs show their scalars, and these give the key the ballots name.     *)
LEMMA SharesDecryptV1 ==
  ASSUME BatchInv, version = 1,
         NEW ids \in SUBSET DOMAIN ballots, NEW key \in 1..Order - 1,
         NEW ct, HoldsVotes(ct, ids, key),
         NEW shares, NEW L \in Nat, DOMAIN shares = 1..L, Len(shares) = L,
         \A i \in 1..L : Witnessed(shares[i]),
         NEW threshold \in Nat,
         NEW counts \in decryptAggregatedTallyWithShares(ct, shares, threshold,
                                                         Cardinality(ids))
  PROVE  counts = [c \in Candidates |-> VotesFor(c, ids)]
<1> DEFINE selected == SelectLowest(shares, threshold)
           n == threshold
           publics == [i \in DOMAIN selected |-> selected[i].trusteePublicShare]
<1>1. /\ Len(shares) >= threshold
      /\ \A i \in DOMAIN selected : verifyTallyDecryptionShare(ct, selected[i])
      /\ hashElectionPublicKey(Interpolate(selected, publics))
           = ct.electionPublicKeyHash
      /\ counts \in Counts(ct, SharedSecret(selected), Cardinality(ids))
  BY DEF decryptAggregatedTallyWithShares
<1>2. /\ DOMAIN selected = 1..n
      /\ \A i \in 1..n : Witnessed(selected[i])
  <2>1. threshold \in 0..L /\ \A i \in 1..L : shares[i].trusteeIndex \in Nat
    BY <1>1 DEF Witnessed
  <2> HIDE DEF selected
  <2>2. PickedFrom(selected, threshold, shares, L)
    BY <2>1, LowestAreShares DEF selected
  <2>3. QED
    BY <2>2 DEF PickedFrom
<1> HIDE DEF selected
<1>3. \A i \in 1..n : selected[i].trusteeIndex \in Int
  BY <1>2 DEF Witnessed
<1>4. Encrypts(ct, ids, key)
      /\ ct.electionPublicKeyHash = hashElectionPublicKey(Multiply(Base, key))
  BY DEF HoldsVotes, PublicKeyHash
<1>5. Interpolate(selected, publics) = Multiply(Base, key)
  <2> HIDE DEF publics
  <2>1. QED
    BY <1>1, <1>4 DEF hashElectionPublicKey
<1>6. ASSUME NEW c \in Candidates
      PROVE  SharedSecret(selected)[c] = Multiply(ct.c1[c], key)
  <2> DEFINE w == [i \in 1..n |-> selected[i].proofs[c].witness]
  <2>1. \A i \in 1..n :
          /\ w[i] \in Int
          /\ selected[i].trusteePublicShare = Multiply(Base, w[i])
          /\ selected[i].decryptionSharePoints[c] = Multiply(ct.c1[c], w[i])
    <3>1. \A i \in 1..n : w[i] = selected[i].proofs[c].witness /\ w[i] \in Int
      BY <1>2 DEF Witnessed
    <3>2. \A i \in 1..n :
            DleqHolds(selected[i], ct, c,
                      decryptionShareChallenge(selected[i], ct, c))
      BY <1>1, <1>2 DEF verifyTallyDecryptionShare
    <3> HIDE DEF w
    <3>3. QED
      BY <3>1, <3>2, DleqShows
  <2> HIDE DEF w
  <2>2. Terms(w, n) /\ key \in Int
    BY <2>1 DEF Terms
  <2>3. Cong(Order, Combined(selected, w, n), key)
    BY <1>2, <1>3, <1>5, <2>1, <2>2, PublicSharesCombine
  <2>4. ct.c1[c] \in Point
    BY <1>4, MaskIsPoint
  <2>5. \A i \in 1..n :
          selected[i].decryptionSharePoints[c] = Multiply(ct.c1[c], w[i])
    BY <2>1
  <2>6. n \in Nat /\ DOMAIN selected = 1..n
    BY <1>2
  <2>7. QED
    BY ONLY <1>3, <1>6, <2>2, <2>3, <2>4, <2>5, <2>6, SharedSecretIs
<1>7. QED
  BY <1>1, <1>4, <1>6, SecretGivesVotes

(* Shares of one polynomial. *)
SharesOf(s, cs, shares, n) ==
  \A i \in 1..n : /\ Witnessed(shares[i])
                  /\ shares[i].trusteePublicShare
                       = Multiply(Base, ShareAt(s, cs, shares[i].trusteeIndex))

(* V2 and V3: so does one from shares of a polynomial whose value at zero  *)
(* the ballots' key is, of as many as it has coefficients.                 *)
LEMMA SharesDecrypt ==
  ASSUME BatchInv,
         NEW ids \in SUBSET DOMAIN ballots, NEW key \in 1..Order - 1,
         NEW ct, Encrypts(ct, ids, key),
         NEW s \in Int, Multiply(Base, s) = Multiply(Base, key),
         NEW cs \in Seq(Int), NEW n \in Nat, n = Len(cs) + 1,
         NEW shares, IsList(shares), Len(shares) = n, SharesOf(s, cs, shares, n),
         NEW counts \in decryptProofCompatibleTallyWithShares(ct, shares, n,
                                                              Cardinality(ids))
  PROVE  counts = [c \in Candidates |-> VotesFor(c, ids)]
<1>1. /\ \A i \in 1..n : /\ Witnessed(shares[i])
                         /\ shares[i].trusteePublicShare
                              = Multiply(Base, ShareAt(s, cs, shares[i].trusteeIndex))
      /\ Len(cs) \in Nat /\ \A k \in 1..Len(cs) : cs[k] \in Int
  BY DEF SharesOf
<1>2. SubSeq(shares, 1, n) = shares /\ DOMAIN shares = 1..n
  BY WholeList
<1>3. /\ DistinctIndexes(shares)
      /\ \A i \in 1..n : verifyProofCompatibleDecryptionShare(ct, shares[i])
      /\ \A i \in 1..n :
           HasSubgroupInverse(ProductsAt(0, shares[i].trusteeIndex,
                                         Indexes(shares)).denominator)
      /\ counts \in Counts(ct, SharedSecret(shares), Cardinality(ids))
  BY <1>2 DEF decryptProofCompatibleTallyWithShares
<1>4. \A i \in 1..n : shares[i].trusteeIndex \in Int
  BY <1>1 DEF Witnessed
<1>5. Cong(Order, s, key) /\ key \in Int
  BY BaseTells
<1>6. ASSUME NEW c \in Candidates
      PROVE  SharedSecret(shares)[c] = Multiply(ct.c1[c], key)
  <2> DEFINE w == [i \in 1..n |-> shares[i].proofs[c].witness]
  <2>1. \A i \in 1..n :
          /\ w[i] \in Int
          /\ shares[i].trusteePublicShare = Multiply(Base, w[i])
          /\ shares[i].decryptionSharePoints[c] = Multiply(ct.c1[c], w[i])
    <3>1. \A i \in 1..n : w[i] = shares[i].proofs[c].witness /\ w[i] \in Int
      BY <1>1 DEF Witnessed
    <3>2. \A i \in 1..n :
            DleqHolds(shares[i], ct, c, challenge(shares[i], ct, c))
      BY <1>3 DEF verifyProofCompatibleDecryptionShare
    <3> HIDE DEF w
    <3>3. QED
      BY <3>1, <3>2, DleqShows
  <2> HIDE DEF w
  <2>2. Terms(w, n)
    BY <2>1 DEF Terms
  <2>3. \A i \in 1..n : Multiply(Base, w[i])
                          = Multiply(Base, ShareAt(s, cs, shares[i].trusteeIndex))
    BY <1>1, <2>1
  <2>4. Cong(Order, Combined(shares, w, n), s)
    BY <1>1, <1>2, <1>3, <1>4, <2>2, <2>3, KeySharesCombine
  <2>5. Combined(shares, w, n) \in Int
    BY <1>2, <1>4, <2>2, CombinedType
  <2>6. Cong(Order, Combined(shares, w, n), key)
    BY <1>5, <2>4, <2>5, OrderIs, CongTrans
  <2>7. ct.c1[c] \in Point
    BY MaskIsPoint
  <2>8. \A i \in 1..n :
          shares[i].decryptionSharePoints[c] = Multiply(ct.c1[c], w[i])
    BY <2>1
  <2>9. n \in Nat /\ DOMAIN shares = 1..n /\ key \in Int
    BY <1>2, <1>5
  <2>10. QED
    BY ONLY <1>4, <1>6, <2>2, <2>6, <2>7, <2>8, <2>9, SharedSecretIs
<1>7. QED
  BY <1>3, <1>6, SecretGivesVotes

(* A share made from a private share knows that scalar. *)
LEMMA CreatedShare ==
  ASSUME NEW s \in Int, NEW i \in Nat, NEW ct
  PROVE  /\ Witnessed(createTallyDecryptionShare(s, i, ct))
         /\ LET share == createProofCompatibleDecryptionShare(s, i, ct)
            IN  /\ Witnessed(share) /\ share.trusteeIndex = i
                /\ share.trusteePublicShare = Multiply(Base, s)
<1> DEFINE share == Unproved(s, i, ct)
           made(proofs) == Extended(share, [proofs |-> proofs])
           p1 == [c \in Candidates |->
                    [challenge |-> decryptionShareChallenge(share, ct, c),
                     witness   |-> s]]
           p3 == [c \in Candidates |->
                    [challenge |-> challenge(share, ct, c), witness |-> s]]
<1>1. /\ createTallyDecryptionShare(s, i, ct) = made(p1)
      /\ createProofCompatibleDecryptionShare(s, i, ct) = made(p3)
  BY DEF createTallyDecryptionShare, createProofCompatibleDecryptionShare
<1>2. \A c \in Candidates : p1[c].witness = s /\ p3[c].witness = s
  OBVIOUS
<1> HIDE DEF p1, p3
<1>3. /\ DOMAIN share = {"trusteeIndex", "trusteePublicShare",
                         "electionPublicKeyHash", "decryptionSharePoints"}
      /\ share.trusteeIndex = i /\ share.trusteePublicShare = Multiply(Base, s)
  BY DEF Unproved
<1> HIDE DEF share
<1>4. ASSUME NEW proofs
      PROVE  /\ {"trusteeIndex", "proofs"} \subseteq DOMAIN made(proofs)
             /\ made(proofs).trusteeIndex = i /\ made(proofs).proofs = proofs
             /\ made(proofs).trusteePublicShare = Multiply(Base, s)
  <2> DEFINE fields == [proofs |-> proofs]
  <2>1. DOMAIN fields = {"proofs"} /\ fields.proofs = proofs
    OBVIOUS
  <2> HIDE DEF fields
  <2>2. /\ {"trusteeIndex", "proofs"} \subseteq DOMAIN Extended(share, fields)
        /\ Extended(share, fields).trusteeIndex = i
        /\ Extended(share, fields).proofs = proofs
        /\ Extended(share, fields).trusteePublicShare = Multiply(Base, s)
    BY <1>3, <2>1 DEF Extended
  <2>3. QED
    BY <2>2 DEF fields
<1> HIDE DEF made
<1>5. QED
  BY <1>1, <1>2, <1>4 DEF Witnessed

(* Another point leaves the index and the proofs. *)
LEMMA ShiftedStays ==
  ASSUME NEW share, Witnessed(share), NEW c
  PROVE  Witnessed(Shifted(share, c))
<1>1. /\ DOMAIN Shifted(share, c) = DOMAIN share
      /\ Shifted(share, c).trusteeIndex = share.trusteeIndex
      /\ Shifted(share, c).proofs = share.proofs
  BY DEF Witnessed, Shifted
<1>2. QED
  BY <1>1 DEF Witnessed

(* The share of a share file. *)
FileWitnessed(f) ==
  IF version = 1 THEN Witnessed(f) ELSE "share" \in DOMAIN f /\ Witnessed(f.share)

(* A trustee's script makes such files, *)
LEMMA FileMade ==
  ASSUME BatchInv, NEW private, private.privateShare \in Int, NEW i \in Nat,
         NEW encrypted, NEW f \in ShareFile(private, i, encrypted)
  PROVE  FileWitnessed(f)
<1> DEFINE ct == encrypted.aggregateCiphertext
           s == private.privateShare
<1>1. version \in 1..3
  BY ScenarioAssumption DEF BatchInv, version
<1>2. CASE version = 1
  <2>1. f = createTallyDecryptionShare(s, i, ct)
    BY <1>2 DEF ShareFile, ShareFileV1
  <2> HIDE DEF ct, s
  <2>2. s \in Int
    BY DEF s
  <2>3. QED
    BY <1>2, <2>1, <2>2, CreatedShare DEF FileWitnessed
<1>3. CASE version = 2
  BY <1>3 DEF ShareFile
<1>4. CASE version = 3
  <2>1. f.share = createProofCompatibleDecryptionShare(s, i, ct)
        /\ "share" \in DOMAIN f
    BY <1>4 DEF ShareFile, ShareFileV3
  <2> HIDE DEF ct, s
  <2>2. s \in Int
    BY DEF s
  <2>3. QED
    BY <1>4, <2>1, <2>2, CreatedShare DEF FileWitnessed
<1>5. QED
  BY <1>1, <1>2, <1>3, <1>4

(* and a point altered in one leaves it one. *)
LEMMA FileAltered ==
  ASSUME BatchInv, NEW f, FileWitnessed(f), NEW c, NEW digest
  PROVE  FileWitnessed(IF version = 1 THEN Shifted(f, c)
                       ELSE [f EXCEPT !.share = Shifted(f.share, c),
                                      !.shareDigest = digest])
<1>1. CASE version = 1
  BY <1>1, ShiftedStays DEF FileWitnessed
<1>2. CASE version # 1
  <2> DEFINE g == [f EXCEPT !.share = Shifted(f.share, c), !.shareDigest = digest]
  <2>1. "share" \in DOMAIN f /\ Witnessed(f.share)
    BY <1>2 DEF FileWitnessed
  <2>2. "share" \in DOMAIN g /\ g.share = Shifted(f.share, c)
    BY <2>1
  <2> HIDE DEF g
  <2>3. FileWitnessed(g)
    BY <1>2, <2>1, <2>2, ShiftedStays DEF FileWitnessed
  <2>4. QED
    BY <1>2, <2>3 DEF g
<1>3. QED
  BY <1>1, <1>2

-----------------------------------------------------------------------------
(* The files of an election *)

(* What a ceremony of the election publishes. *)
Published(k) ==
  \E ceremony \in scenario.ceremonies :
    \E keySet \in KeySet(version, ceremony) : k = PublicKeyset(keySet)

(* What it deals to a trustee. *)
Dealt(f) ==
  \E ceremony \in scenario.ceremonies :
    \E keySet \in KeySet(version, ceremony) : f \in PrivateShareFiles(keySet)

(* What the files of trustees hold, whichever runs of the ceremony they    *)
(* are of and whatever became of them.                                     *)
FilesInv ==
  /\ DOMAIN privateFile = Trustees
  /\ DOMAIN shareFile = Trustees
  /\ \A i \in Trustees :
       \A f \in privateFile[i] : Dealt(f) /\ f.trusteeIndex = i
  /\ \A f \in pending : Dealt(f)
  /\ \A i \in Trustees : \A f \in shareFile[i] : FileWitnessed(f)
  /\ \A k \in keyset : Published(k) /\ version # 2

(* A key set's shares are numbers, of the polynomial of its ceremony. *)
LEMMA KeySetIs ==
  ASSUME BatchInv, NEW ceremony \in scenario.ceremonies,
         NEW keySet \in KeySet(version, ceremony)
  PROVE  LET s  == ceremony.privateKey
             cs == ceremony.coefficients
             n  == ceremony.trusteeCount
         IN  /\ s \in Int /\ cs \in Seq(Int) /\ n \in Nat
             /\ keySet.threshold = Len(cs) + 1 /\ keySet.threshold \in 2..n
             /\ keySet.publicKeyHash = PublicKeyHash(version, Multiply(Base, s))
             /\ DOMAIN keySet.privateShares = 1..n
             /\ DOMAIN keySet.publicShares = 1..n
             /\ \A i \in 1..n :
                  /\ keySet.privateShares[i] = ShareAt(s, cs, i)
                  /\ keySet.privateShares[i] \in Int
                  /\ keySet.publicShares[i] = Multiply(Base, ShareAt(s, cs, i))
<1> DEFINE s  == ceremony.privateKey
           cs == ceremony.coefficients
           n  == ceremony.trusteeCount
           share == [i \in 1..n |-> ShareAt(s, cs, i)]
           public == [i \in 1..n |-> Multiply(Base, share[i])]
           key == Multiply(Base, s)
           made == [threshold     |-> Len(cs) + 1,
                    publicKey     |-> key,
                    publicKeyHash |-> hashElectionPublicKey(key),
                    privateShares |-> share,
                    publicShares  |-> public]
<1>1. s \in Int /\ cs \in Seq(Int) /\ n \in Nat
  BY ScenarioAssumption DEF BatchInv
<1>2. ASSUME NEW k \in createThresholdElectionKeyShares(s, cs, n)
      PROVE  /\ k = made /\ k.threshold \in 2..n
             /\ \A i \in 1..n : share[i] \in Int
  <2>1. k \in {x \in {made} :
                 /\ x.threshold \in 2..n
                 /\ \A value \in {s} \cup ToSet(cs) \cup ToSet(share) :
                      assertScalar(value)}
    BY <1>2 DEF createThresholdElectionKeyShares
  <2> HIDE DEF made
  <2>2. \A i \in 1..n : share[i] \in ToSet(share)
    BY DEF ToSet
  <2> HIDE DEF share
  <2>3. QED
    BY <2>1, <2>2 DEF assertScalar
<1>3. /\ keySet.threshold = Len(cs) + 1 /\ keySet.threshold \in 2..n
      /\ keySet.publicKeyHash = PublicKeyHash(version, key)
      /\ keySet.privateShares = share /\ keySet.publicShares = public
      /\ \A i \in 1..n : share[i] \in Int
  <2>1. CASE version = 1
    <3>1. keySet \in createThresholdElectionKeyShares(s, cs, n)
      BY <2>1 DEF KeySet
    <3>2. /\ keySet = made /\ keySet.threshold \in 2..n
          /\ \A i \in 1..n : share[i] \in Int
      BY <1>2, <3>1
    <3>3. /\ made.threshold = Len(cs) + 1
          /\ made.publicKeyHash = hashElectionPublicKey(key)
          /\ made.privateShares = share /\ made.publicShares = public
      OBVIOUS
    <3> HIDE DEF made, share, public, key
    <3>4. QED
      BY <2>1, <3>2, <3>3 DEF PublicKeyHash
  <2>2. CASE version # 1
    <3>1. PICK k \in createThresholdElectionKeyShares(s, cs, n) :
            keySet = [k EXCEPT !.publicKeyHash
                                 = hashProofCompatibleElectionPublicKey(key)]
      BY <2>2 DEF KeySet, createProofCompatibleThresholdKeySet
    <3>2. k = made /\ k.threshold \in 2..n /\ \A i \in 1..n : share[i] \in Int
      BY <1>2, <3>1
    <3>3. /\ DOMAIN made = {"threshold", "publicKey", "publicKeyHash",
                            "privateShares", "publicShares"}
          /\ made.threshold = Len(cs) + 1
          /\ made.privateShares = share /\ made.publicShares = public
      OBVIOUS
    <3> HIDE DEF made, share, public, key
    <3>4. /\ keySet.threshold = made.threshold
          /\ keySet.publicKeyHash = hashProofCompatibleElectionPublicKey(key)
          /\ keySet.privateShares = made.privateShares
          /\ keySet.publicShares = made.publicShares
      BY <3>1, <3>2, <3>3
    <3>5. QED
      BY <2>2, <3>2, <3>3, <3>4 DEF PublicKeyHash
  <2>3. QED
    BY <2>1, <2>2
<1>4. /\ DOMAIN share = 1..n /\ DOMAIN public = 1..n
      /\ \A i \in 1..n : /\ share[i] = ShareAt(s, cs, i)
                         /\ public[i] = Multiply(Base, ShareAt(s, cs, i))
  OBVIOUS
<1> HIDE DEF share, public, key, made
<1>5. QED
  BY <1>1, <1>3, <1>4 DEF key

(* The private files of a key set. *)
LEMMA PrivateFilesAre ==
  ASSUME BatchInv, NEW f, Dealt(f)
  PROVE  f.privateShare \in Int
<1>1. PICK ceremony \in scenario.ceremonies :
        \E keySet \in KeySet(version, ceremony) : f \in PrivateShareFiles(keySet)
  BY DEF Dealt
<1>2. PICK keySet \in KeySet(version, ceremony) : f \in PrivateShareFiles(keySet)
  BY <1>1
<1>3. PICK i \in DOMAIN keySet.privateShares :
        f.privateShare = keySet.privateShares[i]
  BY <1>2 DEF PrivateShareFiles
<1>4. QED
  BY <1>1, <1>2, <1>3, KeySetIs

(* There are no files at the start. *)
LEMMA FilesInit == Init => FilesInv
<1>1. SUFFICES ASSUME Init PROVE FilesInv
  OBVIOUS
<1>2. /\ privateFile = [i \in Trustees |-> {}] /\ shareFile = [i \in Trustees |-> {}]
      /\ pending = {} /\ keyset = {}
  BY <1>1 DEF Init
<1>3. QED
  BY <1>2 DEF FilesInv

(* Whatever leaves the election and the files alone. *)
LEMMA FilesStay ==
  ASSUME FilesInv, scenario' = scenario,
         UNCHANGED <<keyset, privateFile, pending, shareFile>>
  PROVE  FilesInv'
BY DEF FilesInv, Published, Dealt, Trustees, FileWitnessed, version

(* A ceremony publishes its key set, and its shares are numbers. *)
LEMMA StartCeremony_Files ==
  ASSUME BatchInv, FilesInv, NEW ceremony \in scenario.ceremonies,
         StartCeremony(ceremony)
  PROVE  FilesInv'
<1>1. PICK keySet \in KeySet(version, ceremony) :
        /\ keyset' = {PublicKeyset(keySet)}
        /\ IF version = 1
             THEN /\ privateFile' = [i \in Trustees |->
                       {f \in PrivateShareFiles(keySet) : f.trusteeIndex = i}]
                  /\ UNCHANGED pending
             ELSE /\ pending' = PrivateShareFiles(keySet)
                  /\ UNCHANGED privateFile
  BY DEF StartCeremony
<1>2. scenario' = scenario /\ shareFile' = shareFile
  BY DEF StartCeremony, decryptionVars
<1>3. version' = version /\ Trustees' = Trustees
  BY <1>2 DEF version, Trustees
<1>4. \A f \in PrivateShareFiles(keySet) : Dealt(f)
  BY DEF Dealt
<1>5. /\ DOMAIN privateFile' = Trustees
      /\ \A i \in Trustees :
           \A f \in privateFile'[i] : Dealt(f) /\ f.trusteeIndex = i
      /\ \A f \in pending' : Dealt(f)
  <2>1. CASE version = 1
    BY <1>1, <1>4, <2>1 DEF FilesInv
  <2>2. CASE version # 1
    BY <1>1, <1>4, <2>2 DEF FilesInv
  <2>3. QED
    BY <2>1, <2>2
<1>6. /\ DOMAIN shareFile' = Trustees
      /\ \A i \in Trustees : \A f \in shareFile'[i] : FileWitnessed(f)'
  BY <1>2, <1>3 DEF FilesInv, FileWitnessed
<1>7. \A k \in keyset' : Published(k)' /\ version # 2
  BY <1>1, <1>2, <1>3 DEF Published, StartCeremony
<1>8. \A f : Dealt(f) => Dealt(f)'
  BY <1>2, <1>3 DEF Dealt
<1>9. QED
  BY <1>3, <1>5, <1>6, <1>7, <1>8 DEF FilesInv

(* Writing a private share file takes it from the pending ones. *)
LEMMA WritePrivateShare_Files ==
  ASSUME FilesInv, NEW file \in pending, WritePrivateShare(file)
  PROVE  FilesInv'
<1>1. /\ privateFile' = [privateFile EXCEPT ![file.trusteeIndex] = {file}]
      /\ pending' = pending \ {file}
      /\ UNCHANGED <<scenario, keyset, shareFile>>
  BY DEF WritePrivateShare, decryptionVars
<1>2. DOMAIN privateFile' = Trustees
      /\ \A i \in Trustees : privateFile'[i] \in {{file}, privateFile[i]}
  BY <1>1 DEF FilesInv
<1>3. \A i \in Trustees : i # file.trusteeIndex => privateFile'[i] = privateFile[i]
  BY <1>1 DEF FilesInv
<1>4. \A i \in Trustees :
        \A f \in privateFile'[i] : Dealt(f) /\ f.trusteeIndex = i
  BY <1>2, <1>3 DEF FilesInv
<1>5. QED
  BY <1>1, <1>2, <1>4
     DEF FilesInv, Published, Dealt, Trustees, FileWitnessed, version

(* A crash loses files only. *)
LEMMA CrashCeremony_Files ==
  ASSUME FilesInv, CrashCeremony
  PROVE  FilesInv'
<1>1. pending' = {} /\ UNCHANGED <<scenario, keyset, privateFile, shareFile>>
  BY DEF CrashCeremony, decryptionVars
<1>2. QED
  BY <1>1 DEF FilesInv, Published, Dealt, Trustees, FileWitnessed, version

(* A share file of a trustee is replaced by one that shows its scalar. *)
LEMMA ShareFile_Files ==
  ASSUME FilesInv, NEW i \in Trustees, NEW files, \A f \in files : FileWitnessed(f),
         shareFile' = [shareFile EXCEPT ![i] = files],
         UNCHANGED <<scenario, keyset, privateFile, pending>>
  PROVE  FilesInv'
<1>1. DOMAIN shareFile' = Trustees
      /\ \A j \in Trustees : shareFile'[j] \in {files, shareFile[j]}
  BY DEF FilesInv
<1>2. \A j \in Trustees : \A f \in shareFile'[j] : FileWitnessed(f)
  BY <1>1 DEF FilesInv
<1>3. QED
  BY <1>1, <1>2 DEF FilesInv, Published, Dealt, Trustees, FileWitnessed, version

(* A share of a trustee, under its own index, *)
LEMMA CreateShare_Files ==
  ASSUME BatchInv, FilesInv, NEW i \in Trustees, CreateShare(i)
  PROVE  FilesInv'
<1>1. PICK private \in privateFile[i], encrypted \in tally :
        /\ shareFile' = [shareFile EXCEPT ![i] = ShareFile(private, i, encrypted)]
        /\ UNCHANGED <<scenario, batchVars, ceremonyVars>>
  BY DEF CreateShare
<1>2. i \in Nat /\ private.privateShare \in Int
  BY ScenarioAssumption, PrivateFilesAre DEF BatchInv, Trustees, FilesInv
<1>3. \A f \in ShareFile(private, i, encrypted) : FileWitnessed(f)
  BY <1>2, FileMade
<1>4. QED
  BY <1>1, <1>3, ShareFile_Files DEF ceremonyVars

(* under another's, *)
LEMMA MisnumberShare_Files ==
  ASSUME BatchInv, FilesInv, NEW i \in Trustees, NEW other \in Trustees,
         MisnumberShare(i, other)
  PROVE  FilesInv'
<1>1. PICK private \in privateFile[i], encrypted \in tally :
        /\ shareFile' = [shareFile EXCEPT ![i] = ShareFile(private, other, encrypted)]
        /\ UNCHANGED <<scenario, batchVars, ceremonyVars>>
  BY DEF MisnumberShare
<1>2. other \in Nat /\ private.privateShare \in Int
  BY ScenarioAssumption, PrivateFilesAre DEF BatchInv, Trustees, FilesInv
<1>3. \A f \in ShareFile(private, other, encrypted) : FileWitnessed(f)
  BY <1>2, FileMade
<1>4. QED
  BY <1>1, <1>3, ShareFile_Files DEF ceremonyVars

(* and one with another point.  *)
LEMMA AlterShare_Files ==
  ASSUME BatchInv, FilesInv, NEW i \in Trustees, NEW c \in Candidates,
         AlterShare(i, c)
  PROVE  FilesInv'
<1> DEFINE altered(f, digest) ==
             IF version = 1 THEN Shifted(f, c)
             ELSE [f EXCEPT !.share = Shifted(f.share, c), !.shareDigest = digest]
<1>1. PICK file \in shareFile[i] :
        /\ shareFile' = [shareFile EXCEPT ![i] =
             {altered(file, digestProofCompatibleDecryptionShare(
                              Shifted(file.share, c)))}]
        /\ UNCHANGED <<scenario, batchVars, ceremonyVars>>
  BY DEF AlterShare
<1>2. FileWitnessed(file)
  BY DEF FilesInv
<1>3. \A digest : FileWitnessed(altered(file, digest))
  BY <1>2, FileAltered
<1> HIDE DEF altered
<1>4. QED
  BY <1>1, <1>3, ShareFile_Files DEF ceremonyVars

(* Every step keeps what the files hold. *)
LEMMA FilesNext ==
  ASSUME BatchInv, FilesInv, [Next]_vars
  PROVE  FilesInv'
<1>1. CASE UNCHANGED <<scenario, keyset, privateFile, pending, shareFile>>
  BY <1>1, FilesStay
<1>2. CASE \E k \in 0..Len(batches) : Batching(StartBatcher(k))
  BY <1>1, <1>2 DEF Batching, StartBatcher, ceremonyVars, decryptionVars
<1>3. CASE \E previous \in KnownRoots, list \in Lists :
             Batching(BuildBatch(previous, list))
  BY <1>1, <1>3 DEF Batching, BuildBatch, ceremonyVars, decryptionVars
<1>4. CASE \E a \in artifacts : Batching(CommitBatch(a))
  BY <1>1, <1>4 DEF Batching, CommitBatch, ceremonyVars, decryptionVars
<1>5. CASE \E entries \in EntryLists, k \in 0..Len(batches) :
             Batching(BuildTally(entries, k))
  BY <1>1, <1>5 DEF Batching, BuildTally, ceremonyVars, decryptionVars
<1>6. CASE \E ceremony \in scenario.ceremonies : StartCeremony(ceremony)
  BY <1>6, StartCeremony_Files
<1>7. CASE \E file \in pending : WritePrivateShare(file)
  BY <1>7, WritePrivateShare_Files
<1>8. CASE CrashCeremony
  BY <1>8, CrashCeremony_Files
<1>9. CASE \E i \in Trustees : CreateShare(i)
  BY <1>9, CreateShare_Files
<1>10. CASE \E i, other \in Trustees : i # other /\ MisnumberShare(i, other)
  BY <1>10, MisnumberShare_Files
<1>11. CASE \E i \in Trustees, c \in Candidates : AlterShare(i, c)
  BY <1>11, AlterShare_Files
<1>12. CASE \E slots \in SlotLists, threshold \in 1..scenario.maxFiles :
              BuildTallyResult(slots, threshold)
  BY <1>1, <1>12 DEF BuildTallyResult, ceremonyVars
<1>13. CASE \E ceremony \in scenario.ceremonies : FinalizeProofCompatible(ceremony)
  BY <1>1, <1>13 DEF FinalizeProofCompatible, ceremonyVars
<1>14. CASE \E slots \in SlotLists : FinalizeEligible(slots)
  BY <1>1, <1>14 DEF FinalizeEligible, ceremonyVars
<1>15. CASE UNCHANGED vars
  BY <1>1, <1>15 DEF vars, ceremonyVars, decryptionVars
<1>16. QED
  BY <1>2, <1>3, <1>4, <1>5, <1>6, <1>7, <1>8, <1>9, <1>10, <1>11, <1>12, <1>13,
     <1>14, <1>15 DEF Next

(* The files of every reachable state. *)
LEMMA FilesAlways == Spec => []FilesInv
<1>1. BatchInv /\ FilesInv /\ [Next]_vars => FilesInv'
  BY FilesNext
<1>2. QED
  BY BatchInvariant, FilesInit, <1>1, PTL DEF Spec

-----------------------------------------------------------------------------
(* Results *)

(* What ResultsAreTrueCounts says of a result. *)
TrueCounts(r) ==
  r.tallyCounts =
    [c \in Candidates |-> VotesFor(c, BallotsIn(r.tally.acceptedBatches))]

(* The files of an operator's list are trustees' files. *)
LEMMA FilesOfAre ==
  ASSUME BatchInv, FilesInv, NEW slots \in SlotLists
  PROVE  /\ IsList(FilesOf(slots))
         /\ \A i \in 1..Len(FilesOf(slots)) : FileWitnessed(FilesOf(slots)[i])
<1> DEFINE files == FilesOf(slots)
<1>1. PICK n \in 1..scenario.maxFiles :
        slots \in [1..n -> {i \in Trustees : shareFile[i] # {}}]
  BY DEF SlotLists
<1>2. files = [i \in 1..n |-> CHOOSE f \in shareFile[slots[i]] : TRUE]
  BY <1>1 DEF FilesOf
<1>3. ASSUME NEW i \in 1..n PROVE FileWitnessed(files[i])
  <2>1. slots[i] \in Trustees /\ shareFile[slots[i]] # {}
    BY <1>1
  <2>2. files[i] \in shareFile[slots[i]]
    BY <1>2, <2>1
  <2>3. QED
    BY <2>1, <2>2 DEF FilesInv
<1>4. files = [i \in 1..n |-> files[i]]
  BY <1>2
<1> HIDE DEF files
<1>5. n \in Nat
  BY <1>1, ScenarioAssumption DEF BatchInv
<1>6. IsList(files) /\ Len(files) = n
  BY <1>4, <1>5, ListOfLength
<1>7. QED
  BY <1>3, <1>6 DEF files

(* A result names its tally and has counts the shares gave. *)
LEMMA ResultIs ==
  ASSUME NEW t, NEW countses, NEW digests, NEW transcripts,
         NEW r \in Result(t, countses, digests, transcripts)
  PROVE  r.tallyCounts \in countses /\ r.tally = t
BY DEF Result

(* V1 *)
LEMMA ResultV1 ==
  ASSUME BatchInv, version = 1, NEW t, TallyOf(t),
         NEW shares, IsList(shares), \A i \in 1..Len(shares) : FileWitnessed(shares[i]),
         NEW threshold \in Nat, NEW r \in buildTallyResult(t, shares, threshold)
  PROVE  TrueCounts(r)
<1> DEFINE ids == BallotsIn(t.acceptedBatches)
           ct == t.aggregateCiphertext
<1>1. /\ ids \in SUBSET DOMAIN ballots /\ t.ballotCount = Cardinality(ids)
  BY DEF TallyOf
<1>2. PICK key \in 1..Order - 1 : HoldsVotes(ct, ids, key)
  BY DEF TallyOf
<1>3. /\ r.tallyCounts \in decryptAggregatedTallyWithShares(ct, shares, threshold,
                                                            t.ballotCount)
      /\ r.tally = t
  BY ResultIs DEF buildTallyResult
<1> HIDE DEF ids, ct
<1>4. /\ Len(shares) \in Nat /\ DOMAIN shares = 1..Len(shares)
      /\ \A i \in 1..Len(shares) : Witnessed(shares[i])
  BY DEF IsList, FileWitnessed
<1> DEFINE counts == r.tallyCounts
           L == Len(shares)
<1>5. counts \in decryptAggregatedTallyWithShares(ct, shares, threshold,
                                                  Cardinality(ids))
  BY <1>1, <1>3
<1>6. L \in Nat /\ DOMAIN shares = 1..L /\ Len(shares) = L
      /\ \A i \in 1..L : Witnessed(shares[i])
  BY <1>4
<1> HIDE DEF counts, L
<1>7. counts = [c \in Candidates |-> VotesFor(c, ids)]
  BY <1>1, <1>2, <1>5, <1>6, SharesDecryptV1
<1>8. QED
  BY <1>3, <1>7 DEF TrueCounts, ids, counts

(* V2 *)
LEMMA ResultV2 ==
  ASSUME BatchInv, version = 2, NEW t, TallyOf(t),
         NEW ceremony \in scenario.ceremonies,
         NEW r \in finalizeProofCompatibleTally(t, ceremony)
  PROVE  TrueCounts(r)
<1> DEFINE ids == BallotsIn(t.acceptedBatches)
           ct == t.aggregateCiphertext
           s == ceremony.privateKey
           cs == ceremony.coefficients
           m == ceremony.trusteeCount
           counts == r.tallyCounts
<1>1. /\ ids \in SUBSET DOMAIN ballots /\ t.ballotCount = Cardinality(ids)
  BY DEF TallyOf
<1>2. PICK key \in 1..Order - 1 : HoldsVotes(ct, ids, key)
  BY DEF TallyOf
<1>3. PICK keySet \in KeySet(2, ceremony) :
        /\ keySet.publicKeyHash = ct.electionPublicKeyHash
        /\ LET shares == [i \in 1..keySet.threshold |->
                            createProofCompatibleDecryptionShare(
                              keySet.privateShares[i], i, ct)]
           IN  r \in Result(t,
                       decryptProofCompatibleTallyWithShares(ct, shares,
                         keySet.threshold, t.ballotCount),
                       [i \in DOMAIN shares |->
                          digestProofCompatibleDecryptionShare(shares[i])], {})
  BY DEF finalizeProofCompatibleTally
<1> DEFINE n == keySet.threshold
           made(i) == createProofCompatibleDecryptionShare(
                        keySet.privateShares[i], i, ct)
           shares == [i \in 1..n |-> made(i)]
<1>4. /\ counts \in decryptProofCompatibleTallyWithShares(ct, shares, n,
                                                          t.ballotCount)
      /\ r.tally = t
  BY <1>3, ResultIs
<1>5. /\ s \in Int /\ cs \in Seq(Int) /\ m \in Nat
      /\ n = Len(cs) + 1 /\ n \in 2..m
      /\ keySet.publicKeyHash = PublicKeyHash(version, Multiply(Base, s))
      /\ \A i \in 1..m : /\ keySet.privateShares[i] = ShareAt(s, cs, i)
                         /\ keySet.privateShares[i] \in Int
  BY <1>3, KeySetIs
<1> HIDE DEF ids, ct, s, cs, m, n
<1>6. ASSUME NEW i \in 1..n
      PROVE  /\ Witnessed(made(i)) /\ made(i).trusteeIndex = i
             /\ made(i).trusteePublicShare
                  = Multiply(Base, ShareAt(s, cs, made(i).trusteeIndex))
  <2> DEFINE y == keySet.privateShares[i]
  <2>1. i \in 1..m /\ i \in Nat
    BY <1>5
  <2>2. y \in Int /\ y = ShareAt(s, cs, i)
    BY <1>5, <2>1
  <2> HIDE DEF y
  <2>3. LET share == createProofCompatibleDecryptionShare(y, i, ct)
        IN  /\ Witnessed(share) /\ share.trusteeIndex = i
            /\ share.trusteePublicShare = Multiply(Base, y)
    BY <2>1, <2>2, CreatedShare
  <2>4. made(i) = createProofCompatibleDecryptionShare(y, i, ct)
    BY DEF y
  <2> HIDE DEF made
  <2>5. QED
    BY <2>2, <2>3, <2>4
<1> HIDE DEF made
<1>7. \A i \in 1..n : shares[i] = made(i)
  OBVIOUS
<1>8. shares = [i \in 1..n |-> shares[i]] /\ n \in Nat
  BY <1>5
<1> HIDE DEF shares
<1>9. IsList(shares) /\ Len(shares) = n
  BY <1>8, ListOfLength
<1>10. cs \in Seq(Int)
  BY <1>5
<1>11. Encrypts(ct, ids, key) /\ Multiply(Base, s) = Multiply(Base, key)
  BY <1>2, <1>3, <1>5 DEF HoldsVotes, PublicKeyHash,
                          hashProofCompatibleElectionPublicKey
<1>12. counts \in decryptProofCompatibleTallyWithShares(ct, shares, n,
                                                        Cardinality(ids))
  BY <1>1, <1>4
<1> HIDE DEF counts
<1>13. SharesOf(s, cs, shares, n)
  BY <1>6, <1>7 DEF SharesOf
<1>14. counts = [c \in Candidates |-> VotesFor(c, ids)]
  BY <1>1, <1>5, <1>8, <1>9, <1>10, <1>11, <1>12, <1>13, SharesDecrypt
<1>15. QED
  BY <1>4, <1>14 DEF TrueCounts, ids, counts

(* V3 *)
LEMMA ResultV3 ==
  ASSUME BatchInv, version = 3, NEW t, TallyOf(t), NEW k, Published(k),
         NEW files, IsList(files), \A i \in 1..Len(files) : FileWitnessed(files[i]),
         NEW r \in finalizeEligibleTally(t, k, files)
  PROVE  TrueCounts(r)
<1> DEFINE ids == BallotsIn(t.acceptedBatches)
           ct == t.aggregateCiphertext
           counts == r.tallyCounts
           n == k.threshold
           selected == SubSeq(files, 1, n)
           shares == [i \in DOMAIN selected |-> selected[i].share]
<1>1. /\ ids \in SUBSET DOMAIN ballots /\ t.ballotCount = Cardinality(ids)
  BY DEF TallyOf
<1>2. PICK key \in 1..Order - 1 : HoldsVotes(ct, ids, key)
  BY DEF TallyOf
<1>3. /\ k.publicKeyHash = ct.electionPublicKeyHash
      /\ Len(files) >= n
      /\ \A i \in DOMAIN selected : KnownShare(k, t, selected[i])
      /\ counts \in decryptProofCompatibleTallyWithShares(ct, shares, n,
                                                          t.ballotCount)
      /\ r.tally = t
  <2> DEFINE digests == [i \in DOMAIN shares |->
                            digestProofCompatibleDecryptionShare(shares[i])]
  <2>1. /\ k.publicKeyHash = ct.electionPublicKeyHash
        /\ Len(files) >= n
        /\ \A i \in DOMAIN selected : KnownShare(k, t, selected[i])
        /\ r \in Result(t, decryptProofCompatibleTallyWithShares(ct, shares, n,
                            t.ballotCount), digests, {k.transcriptDigest})
    BY DEF finalizeEligibleTally
  <2> HIDE DEF counts, ct, n, selected, shares, digests
  <2>2. QED
    BY <2>1, ResultIs DEF counts
<1>4. PICK ceremony \in scenario.ceremonies :
        \E keySet \in KeySet(version, ceremony) : k = PublicKeyset(keySet)
  BY DEF Published
<1>5. PICK keySet \in KeySet(version, ceremony) : k = PublicKeyset(keySet)
  BY <1>4
<1> DEFINE s == ceremony.privateKey
           cs == ceremony.coefficients
           m == ceremony.trusteeCount
<1>6. /\ s \in Int /\ cs \in Seq(Int) /\ m \in Nat
      /\ n = Len(cs) + 1 /\ n \in 2..m
      /\ k.publicKeyHash = PublicKeyHash(version, Multiply(Base, s))
      /\ DOMAIN k.trusteePublicShares = 1..m
      /\ \A i \in 1..m : k.trusteePublicShares[i] = Multiply(Base, ShareAt(s, cs, i))
  <2>1. /\ n = keySet.threshold /\ k.publicKeyHash = keySet.publicKeyHash
        /\ k.trusteePublicShares = keySet.publicShares
    BY <1>5 DEF PublicKeyset
  <2>2. QED
    BY <1>4, <1>5, <2>1, KeySetIs
<1> HIDE DEF ids, ct, s, cs, m, n
<1>7. /\ DOMAIN selected = 1..n
      /\ \A i \in 1..n : selected[i] = files[i] /\ i \in 1..Len(files)
  <2> DEFINE X == {files[i] : i \in 1..Len(files)}
  <2>1. \A i \in 1..Len(files) : files[i] \in X
    OBVIOUS
  <2> HIDE DEF X
  <2>2. files \in [1..Len(files) -> X] /\ Len(files) \in Nat
    BY <2>1 DEF IsList
  <2>3. files \in Seq(X)
    BY <2>2
  <2>4. n \in 0..Len(files)
    BY <1>3, <1>6, <2>2
  <2>5. QED
    BY <2>3, <2>4
<1> HIDE DEF selected
<1>8. \A i \in 1..n :
         /\ Witnessed(files[i].share)
         /\ files[i].share.trusteePublicShare
              = Multiply(Base, ShareAt(s, cs, files[i].share.trusteeIndex))
  <2>1. ASSUME NEW i \in 1..n
        PROVE  /\ Witnessed(files[i].share)
               /\ files[i].share.trusteePublicShare
                    = Multiply(Base, ShareAt(s, cs, files[i].share.trusteeIndex))
    <3>1. KnownShare(k, t, files[i]) /\ FileWitnessed(files[i])
      BY <1>3, <1>7
    <3>2. /\ Witnessed(files[i].share)
          /\ files[i].share.trusteeIndex \in DOMAIN k.trusteePublicShares
          /\ k.trusteePublicShares[files[i].share.trusteeIndex]
               = files[i].share.trusteePublicShare
      BY <3>1 DEF KnownShare, FileWitnessed
    <3>3. QED
      BY <1>6, <3>2
  <2>2. QED
    BY <2>1
<1>9. \A i \in 1..n : shares[i] = files[i].share
  BY <1>7
<1>10. shares = [i \in 1..n |-> shares[i]] /\ n \in Nat
  BY <1>6, <1>7
<1> HIDE DEF shares
<1>11. IsList(shares) /\ Len(shares) = n
  BY <1>10, ListOfLength
<1>12. cs \in Seq(Int)
  BY <1>6
<1>13. Encrypts(ct, ids, key) /\ Multiply(Base, s) = Multiply(Base, key)
  BY <1>2, <1>3, <1>6 DEF HoldsVotes, PublicKeyHash,
                          hashProofCompatibleElectionPublicKey
<1>14. counts \in decryptProofCompatibleTallyWithShares(ct, shares, n,
                                                        Cardinality(ids))
  BY <1>1, <1>3
<1> HIDE DEF counts
<1>15. SharesOf(s, cs, shares, n)
  BY <1>8, <1>9 DEF SharesOf
<1>16. counts = [c \in Candidates |-> VotesFor(c, ids)]
  BY <1>1, <1>6, <1>10, <1>11, <1>12, <1>13, <1>14, <1>15, SharesDecrypt
<1>17. QED
  BY <1>3, <1>16 DEF TrueCounts, ids, counts

(* The steps that write a result write a true one, the others are taken    *)
(* only while there is none.                                               *)
LEMMA ResultsNext ==
  ASSUME BatchInv, TalliesHold, FilesInv, ResultsAreTrueCounts, [Next]_vars
  PROVE  ResultsAreTrueCounts'
<1>1. ResultsAreTrueCounts' <=> \A r \in result' : TrueCounts(r)'
  BY DEF ResultsAreTrueCounts, TrueCounts
<1>2. ASSUME scenario' = scenario, artifacts' = artifacts, NEW r, TrueCounts(r)
      PROVE  TrueCounts(r)'
  BY <1>2 DEF TrueCounts, BallotsIn, ListOf, VotesFor, ballots
<1>3. CASE result' = {}
  BY <1>1, <1>3
<1>4. ASSUME UNCHANGED <<scenario, batchVars>>,
             \E r : TrueCounts(r) /\ result' = {r}
      PROVE  ResultsAreTrueCounts'
  <2>1. PICK r : TrueCounts(r) /\ result' = {r}
    BY <1>4
  <2>2. TrueCounts(r)'
    BY <1>2, <1>4, <2>1 DEF batchVars
  <2>3. QED
    BY <1>1, <2>1, <2>2
<1>5. CASE Open /\ result' = result
  BY <1>3, <1>5 DEF Open
<1>6. ASSUME NEW slots \in SlotLists, NEW threshold \in 1..scenario.maxFiles,
             BuildTallyResult(slots, threshold)
      PROVE  ResultsAreTrueCounts'
  <2>1. /\ version = 1 /\ UNCHANGED <<scenario, batchVars>>
        /\ \E t \in tally : \E r \in buildTallyResult(t, FilesOf(slots), threshold) :
             result' = {r}
    BY <1>6 DEF BuildTallyResult
  <2>2. PICK t \in tally :
          \E r \in buildTallyResult(t, FilesOf(slots), threshold) : result' = {r}
    BY <2>1
  <2>3. PICK r \in buildTallyResult(t, FilesOf(slots), threshold) : result' = {r}
    BY <2>2
  <2>4. TrueCounts(r)
    <3>1. TallyOf(t) /\ threshold \in Nat
      BY ScenarioAssumption DEF TalliesHold, BatchInv
    <3>2. QED
      BY <2>1, <3>1, FilesOfAre, ResultV1
  <2>5. QED
    BY <1>4, <2>1, <2>3, <2>4
<1>7. ASSUME NEW ceremony \in scenario.ceremonies, FinalizeProofCompatible(ceremony)
      PROVE  ResultsAreTrueCounts'
  <2>1. /\ version = 2 /\ UNCHANGED <<scenario, batchVars>>
        /\ \E t \in tally : \E r \in finalizeProofCompatibleTally(t, ceremony) :
             result' = {r}
    BY <1>7 DEF FinalizeProofCompatible
  <2>2. PICK t \in tally :
          \E r \in finalizeProofCompatibleTally(t, ceremony) : result' = {r}
    BY <2>1
  <2>3. PICK r \in finalizeProofCompatibleTally(t, ceremony) : result' = {r}
    BY <2>2
  <2>4. TrueCounts(r)
    BY <2>1, ResultV2 DEF TalliesHold
  <2>5. QED
    BY <1>4, <2>1, <2>3, <2>4
<1>8. ASSUME NEW slots \in SlotLists, FinalizeEligible(slots)
      PROVE  ResultsAreTrueCounts'
  <2>1. /\ version = 3 /\ UNCHANGED <<scenario, batchVars>>
        /\ \E t \in tally, k \in keyset :
             \E r \in finalizeEligibleTally(t, k, FilesOf(slots)) : result' = {r}
    BY <1>8 DEF FinalizeEligible
  <2>2. PICK t \in tally, k \in keyset :
          \E r \in finalizeEligibleTally(t, k, FilesOf(slots)) : result' = {r}
    BY <2>1
  <2>3. PICK r \in finalizeEligibleTally(t, k, FilesOf(slots)) : result' = {r}
    BY <2>2
  <2>4. TrueCounts(r)
    <3>1. TallyOf(t) /\ Published(k)
      BY DEF TalliesHold, FilesInv
    <3>2. QED
      BY <2>1, <3>1, FilesOfAre, ResultV3
  <2>5. QED
    BY <1>4, <2>1, <2>3, <2>4
<1>9. CASE Open /\ \E k \in 0..Len(batches) : Batching(StartBatcher(k))
  BY <1>5, <1>9 DEF Batching, decryptionVars
<1>10. CASE Open /\ \E previous \in KnownRoots, list \in Lists :
                      Batching(BuildBatch(previous, list))
  BY <1>5, <1>10 DEF Batching, decryptionVars
<1>11. CASE Open /\ \E a \in artifacts : Batching(CommitBatch(a))
  BY <1>5, <1>11 DEF Batching, decryptionVars
<1>12. CASE Open /\ \E entries \in EntryLists, k \in 0..Len(batches) :
                      Batching(BuildTally(entries, k))
  BY <1>5, <1>12 DEF Batching, decryptionVars
<1>13. CASE Open /\ \E ceremony \in scenario.ceremonies : StartCeremony(ceremony)
  BY <1>5, <1>13 DEF StartCeremony, decryptionVars
<1>14. CASE Open /\ \E file \in pending : WritePrivateShare(file)
  BY <1>5, <1>14 DEF WritePrivateShare, decryptionVars
<1>15. CASE Open /\ CrashCeremony
  BY <1>5, <1>15 DEF CrashCeremony, decryptionVars
<1>16. CASE Open /\ \E i \in Trustees : CreateShare(i)
  BY <1>5, <1>16 DEF CreateShare
<1>17. CASE Open /\ \E i, other \in Trustees : i # other /\ MisnumberShare(i, other)
  BY <1>5, <1>17 DEF MisnumberShare
<1>18. CASE Open /\ \E i \in Trustees, c \in Candidates : AlterShare(i, c)
  BY <1>5, <1>18 DEF AlterShare
<1>19. CASE UNCHANGED vars
  <2>1. UNCHANGED <<scenario, artifacts, result>>
    BY <1>19 DEF vars, batchVars, decryptionVars
  <2>2. \A r \in result : TrueCounts(r)
    BY DEF ResultsAreTrueCounts, TrueCounts
  <2>3. QED
    BY <1>1, <1>2, <2>1, <2>2
<1>20. QED
  BY <1>6, <1>7, <1>8, <1>9, <1>10, <1>11, <1>12, <1>13, <1>14, <1>15, <1>16, <1>17,
     <1>18, <1>19 DEF Next

(* Every result, in every version, from whichever share files, counts      *)
(* exactly the votes of the batches its tally names: two ceremonies with   *)
(* one key, files of an earlier ceremony or tally, a share under another   *)
(* trustee's index and a damaged point are refused or change nothing.      *)
THEOREM ResultsAlwaysTrueCounts == Spec => []ResultsAreTrueCounts
<1>1. Init => ResultsAreTrueCounts
  BY DEF Init, ResultsAreTrueCounts
<1>2. BatchInv /\ TalliesHold /\ FilesInv /\ ResultsAreTrueCounts /\ [Next]_vars
        => ResultsAreTrueCounts'
  BY ResultsNext
<1>3. QED
  BY BatchInvariant, TalliesAlwaysHold, FilesAlways, <1>1, <1>2, PTL DEF Spec

-----------------------------------------------------------------------------
(* Good shares *)

(* What a trustee's script makes of its scalar, for an index. *)
MadeFrom(share, s, i, ct) ==
  /\ share.trusteeIndex = i
  /\ share.trusteePublicShare = Multiply(Base, s)
  /\ share.electionPublicKeyHash = ct.electionPublicKeyHash
  /\ \A c \in Candidates :
       share.decryptionSharePoints[c] = Multiply(ct.c1[c], s)

(* Its proofs hold. *)
LEMMA CreatedVerifies ==
  ASSUME NEW s, NEW i, NEW ct
  PROVE  /\ LET share == createTallyDecryptionShare(s, i, ct)
            IN  MadeFrom(share, s, i, ct) /\ verifyTallyDecryptionShare(ct, share)
         /\ LET share == createProofCompatibleDecryptionShare(s, i, ct)
            IN  /\ MadeFrom(share, s, i, ct)
                /\ verifyProofCompatibleDecryptionShare(ct, share)
<1> DEFINE share == Unproved(s, i, ct)
           made(proofs) == Extended(share, [proofs |-> proofs])
           p1 == [c \in Candidates |->
                    [challenge |-> decryptionShareChallenge(share, ct, c),
                     witness   |-> s]]
           p3 == [c \in Candidates |->
                    [challenge |-> challenge(share, ct, c), witness |-> s]]
<1>1. /\ createTallyDecryptionShare(s, i, ct) = made(p1)
      /\ createProofCompatibleDecryptionShare(s, i, ct) = made(p3)
  BY DEF createTallyDecryptionShare, createProofCompatibleDecryptionShare
<1>2. \A c \in Candidates :
        /\ p1[c].witness = s /\ p1[c].challenge = decryptionShareChallenge(share, ct, c)
        /\ p3[c].witness = s /\ p3[c].challenge = challenge(share, ct, c)
  OBVIOUS
<1> HIDE DEF p1, p3
<1>3. /\ DOMAIN share = {"trusteeIndex", "trusteePublicShare",
                         "electionPublicKeyHash", "decryptionSharePoints"}
      /\ MadeFrom(share, s, i, ct)
  BY DEF Unproved, MadeFrom
<1> HIDE DEF share
<1>4. ASSUME NEW proofs
      PROVE  /\ made(proofs).proofs = proofs
             /\ \A x \in DOMAIN share : made(proofs)[x] = share[x]
  <2> DEFINE fields == [proofs |-> proofs]
  <2>1. DOMAIN fields = {"proofs"} /\ fields.proofs = proofs
    OBVIOUS
  <2> HIDE DEF fields
  <2>2. /\ Extended(share, fields).proofs = proofs
        /\ \A x \in DOMAIN share : Extended(share, fields)[x] = share[x]
    BY <1>3, <2>1 DEF Extended
  <2>3. QED
    BY <2>2 DEF fields
<1> HIDE DEF made
<1>5. ASSUME NEW proofs
      PROVE  /\ made(proofs).trusteeIndex = share.trusteeIndex
             /\ made(proofs).trusteePublicShare = share.trusteePublicShare
             /\ made(proofs).electionPublicKeyHash = share.electionPublicKeyHash
             /\ made(proofs).decryptionSharePoints = share.decryptionSharePoints
  BY <1>3, <1>4
<1>6. ASSUME NEW proofs
      PROVE  /\ MadeFrom(made(proofs), s, i, ct)
             /\ \A c \in Candidates :
                  /\ decryptionShareChallenge(made(proofs), ct, c)
                       = decryptionShareChallenge(share, ct, c)
                  /\ challenge(made(proofs), ct, c) = challenge(share, ct, c)
  BY <1>3, <1>5 DEF MadeFrom, decryptionShareChallenge, challenge
<1>7. verifyTallyDecryptionShare(ct, made(p1))
  <2>1. made(p1).proofs = p1 /\ MadeFrom(made(p1), s, i, ct)
    BY <1>4, <1>6
  <2>2. ASSUME NEW c \in Candidates
        PROVE  DleqHolds(made(p1), ct, c, decryptionShareChallenge(made(p1), ct, c))
    BY <1>2, <1>6, <2>1 DEF DleqHolds, MadeFrom
  <2>3. QED
    BY <2>1, <2>2 DEF verifyTallyDecryptionShare, validateTallyDecryptionShare, MadeFrom
<1>8. verifyProofCompatibleDecryptionShare(ct, made(p3))
  <2>1. made(p3).proofs = p3 /\ MadeFrom(made(p3), s, i, ct)
    BY <1>4, <1>6
  <2>2. ASSUME NEW c \in Candidates
        PROVE  DleqHolds(made(p3), ct, c, challenge(made(p3), ct, c))
    BY <1>2, <1>6, <2>1 DEF DleqHolds, MadeFrom
  <2>3. QED
    BY <2>1, <2>2 DEF verifyProofCompatibleDecryptionShare, MadeFrom
<1>9. QED
  BY <1>1, <1>6, <1>7, <1>8

(* Shares trustees made of scalars w for a ciphertext, of one polynomial   *)
(* and as many as it has coefficients.                                     *)
MadeOf(s, cs, w, shares, ct, n) ==
  /\ s \in Int /\ cs \in Seq(Int) /\ n \in Nat /\ n = Len(cs) + 1
  /\ Terms(w, n)
  /\ DOMAIN shares = 1..n
  /\ DistinctIndexes(shares)
  /\ \A i \in 1..n :
       /\ shares[i].trusteeIndex \in 1..Order - 1
       /\ MadeFrom(shares[i], w[i], shares[i].trusteeIndex, ct)
       /\ Multiply(Base, w[i])
            = Multiply(Base, ShareAt(s, cs, shares[i].trusteeIndex))

(* Shares of which every check on the combination passes, and which give   *)
(* the votes of the ballots.                                               *)
Combines(shares, s, ct, ids) ==
  /\ \A i \in DOMAIN shares :
       HasSubgroupInverse(ProductsAt(0, shares[i].trusteeIndex,
                                     Indexes(shares)).denominator)
  /\ Interpolate(shares, [i \in DOMAIN shares |-> shares[i].trusteePublicShare])
       = Multiply(Base, s)
  /\ Counts(ct, SharedSecret(shares), Cardinality(ids))
       = {[c \in Candidates |-> VotesFor(c, ids)]}

(* Made shares are such.                                                   *)
LEMMA MadeSharesCombine ==
  ASSUME BatchInv, NEW ids \in SUBSET DOMAIN ballots, NEW key \in 1..Order - 1,
         NEW ct, Encrypts(ct, ids, key),
         NEW s, NEW cs, NEW w, NEW shares, NEW n,
         MadeOf(s, cs, w, shares, ct, n), Multiply(Base, s) = Multiply(Base, key)
  PROVE  Combines(shares, s, ct, ids)
<1> DEFINE xs == Indexes(shares)
           publics == [i \in DOMAIN shares |-> shares[i].trusteePublicShare]
           S == Combined(shares, w, n)
<1>1. /\ s \in Int /\ cs \in Seq(Int) /\ n \in Nat /\ n = Len(cs) + 1
      /\ Terms(w, n) /\ DOMAIN shares = 1..n /\ DistinctIndexes(shares)
      /\ \A i \in 1..n :
           /\ shares[i].trusteeIndex \in 1..Order - 1
           /\ MadeFrom(shares[i], w[i], shares[i].trusteeIndex, ct)
           /\ Multiply(Base, w[i])
                = Multiply(Base, ShareAt(s, cs, shares[i].trusteeIndex))
  BY DEF MadeOf
<1>2. /\ Len(cs) \in Nat /\ \A k \in 1..Len(cs) : cs[k] \in Int
      /\ \A i \in 1..n : shares[i].trusteeIndex \in Int
      /\ \A i \in 1..n : w[i] \in Int
  BY <1>1, OrderIs DEF Terms
<1>3. Len(xs) = n /\ \A i \in 1..n : xs[i] = shares[i].trusteeIndex
  <2>1. xs = [i \in 1..n |-> shares[i].trusteeIndex]
    BY <1>1 DEF Indexes
  <2> HIDE DEF xs
  <2>2. Len(xs) = n
    BY <1>1, <2>1, ListOfLength
  <2>3. QED
    BY <2>1, <2>2
<1> HIDE DEF xs
<1>4. ASSUME NEW i \in 1..n
      PROVE  HasSubgroupInverse(ProductsAt(0, shares[i].trusteeIndex,
                                           Indexes(shares)).denominator)
  <2> DEFINE x == shares[i].trusteeIndex
  <2>1. x \in 1..Order - 1 /\ Len(xs) \in Nat
        /\ \A j \in 1..Len(xs) : xs[j] \in 1..Order - 1
    BY <1>1, <1>3
  <2> HIDE DEF x
  <2>2. HasSubgroupInverse(ProductsAt(0, x, xs).denominator)
    BY <2>1, DenominatorInverts
  <2>3. QED
    BY <2>2 DEF x, xs
<1>5. Cong(Order, S, s)
  <2>1. \A i \in 1..n : Multiply(Base, w[i])
                          = Multiply(Base, ShareAt(s, cs, shares[i].trusteeIndex))
    BY <1>1
  <2>2. QED
    BY <1>1, <1>2, <1>4, <2>1, KeySharesCombine
<1>6. S \in Int
  BY <1>1, <1>2, CombinedType
<1>7. key \in Int /\ Cong(Order, s, key)
  <2>1. key \in Int
    BY OrderIs
  <2>2. QED
    BY <1>1, <2>1, BaseTells
<1> HIDE DEF S
<1>8. Cong(Order, S, key)
  BY <1>1, <1>5, <1>6, <1>7, CongTrans, OrderIs
<1>9. Interpolate(shares, publics) = Multiply(Base, s)
  <2>1. \A i \in 1..n : publics[i] = Multiply(Base, w[i])
    BY <1>1 DEF MadeFrom
  <2> HIDE DEF publics
  <2>2. Interpolate(shares, publics) = Multiply(Base, S)
    BY <1>1, <1>2, <2>1, BaseIsPoint, InterpolatedIs DEF Combined, S
  <2>3. Multiply(Base, S) = Multiply(Base, s)
    BY <1>1, <1>5, <1>6, BaseIsPoint, MultiplySame
  <2>4. QED
    BY <2>2, <2>3
<1>10. ASSUME NEW c \in Candidates
       PROVE  SharedSecret(shares)[c] = Multiply(ct.c1[c], key)
  <2>1. ct.c1[c] \in Point
    BY MaskIsPoint
  <2>2. \A i \in 1..n :
          shares[i].decryptionSharePoints[c] = Multiply(ct.c1[c], w[i])
    BY <1>1 DEF MadeFrom
  <2>3. Cong(Order, Combined(shares, w, n), key)
    BY <1>8 DEF S
  <2>4. n \in Nat /\ DOMAIN shares = 1..n /\ Terms(w, n) /\ key \in Int
        /\ \A i \in 1..n : shares[i].trusteeIndex \in Int
    BY <1>1, <1>2, <1>7
  <2>5. QED
    BY ONLY <1>10, <2>1, <2>2, <2>3, <2>4, SharedSecretIs
<1>11. Counts(ct, SharedSecret(shares), Cardinality(ids))
         = {[c \in Candidates |-> VotesFor(c, ids)]}
  BY <1>10, SecretGivesVotes
<1>12. QED
  BY <1>1, <1>4, <1>9, <1>11 DEF Combines

(* V1: made shares can be decrypted, in any order. *)
LEMMA MadeSharesDecryptV1 ==
  ASSUME BatchInv, version = 1,
         NEW ids \in SUBSET DOMAIN ballots, NEW key \in 1..Order - 1,
         NEW ct, HoldsVotes(ct, ids, key),
         NEW s, NEW cs, NEW w, NEW shares, NEW n, Len(shares) = n, n >= 2,
         MadeOf(s, cs, w, shares, ct, n), Multiply(Base, s) = Multiply(Base, key),
         \A i \in 1..n : verifyTallyDecryptionShare(ct, shares[i])
  PROVE  decryptAggregatedTallyWithShares(ct, shares, n, Cardinality(ids)) # {}
<1> DEFINE selected == SelectLowest(shares, n)
           publics == [i \in DOMAIN selected |-> selected[i].trusteePublicShare]
<1>1. /\ n \in Nat /\ DOMAIN shares = 1..n /\ DistinctIndexes(shares) /\ Terms(w, n)
      /\ s \in Int /\ cs \in Seq(Int) /\ n = Len(cs) + 1
      /\ \A i \in 1..n :
           /\ shares[i].trusteeIndex \in 1..Order - 1
           /\ MadeFrom(shares[i], w[i], shares[i].trusteeIndex, ct)
           /\ Multiply(Base, w[i])
                = Multiply(Base, ShareAt(s, cs, shares[i].trusteeIndex))
  BY DEF MadeOf
<1> HIDE DEF selected
<1>2. PickedFrom(selected, n, shares, n)
  <2>1. n \in 0..n /\ \A i \in 1..n : shares[i].trusteeIndex \in Nat
    BY <1>1, OrderIs
  <2>2. QED
    BY <1>1, <2>1, LowestAreShares DEF selected
<1>3. PICK pick \in [1..n -> 1..n] :
        /\ \A j, k \in 1..n : pick[j] = pick[k] => j = k
        /\ selected = [k \in 1..n |-> shares[pick[k]]]
  BY <1>2 DEF PickedFrom
<1> DEFINE u == [k \in 1..n |-> w[pick[k]]]
<1>4. \A k \in 1..n : /\ pick[k] \in 1..n /\ selected[k] = shares[pick[k]]
                      /\ u[k] = w[pick[k]]
  BY <1>3
<1>5. DOMAIN selected = 1..n
  BY <1>3
<1> HIDE DEF u
<1>6. MadeOf(s, cs, u, selected, ct, n)
  <2>1. Terms(u, n)
    BY <1>1, <1>4 DEF Terms
  <2>2. DistinctIndexes(selected)
    <3>1. ASSUME NEW j \in 1..n, NEW k \in 1..n,
                 selected[j].trusteeIndex = selected[k].trusteeIndex
          PROVE  j = k
      <4> DEFINE a == pick[j]
                 b == pick[k]
      <4>1. a \in DOMAIN shares /\ b \in DOMAIN shares
            /\ shares[a].trusteeIndex = shares[b].trusteeIndex
        BY <1>1, <1>4, <3>1
      <4> HIDE DEF a, b
      <4>2. a = b
        BY <1>1, <4>1 DEF DistinctIndexes
      <4>3. QED
        BY <1>3, <4>2 DEF a, b
    <3>2. QED
      BY <1>5, <3>1 DEF DistinctIndexes
  <2>3. QED
    BY <1>1, <1>4, <1>5, <2>1, <2>2 DEF MadeOf
<1>7. Encrypts(ct, ids, key)
      /\ ct.electionPublicKeyHash = hashElectionPublicKey(Multiply(Base, key))
  BY DEF HoldsVotes, PublicKeyHash
<1>8. /\ Interpolate(selected, publics) = Multiply(Base, s)
      /\ Counts(ct, SharedSecret(selected), Cardinality(ids)) # {}
  <2>1. Combines(selected, s, ct, ids)
    BY <1>6, <1>7, MadeSharesCombine
  <2>2. QED
    BY <2>1 DEF Combines
<1>9. \A i \in DOMAIN selected : verifyTallyDecryptionShare(ct, selected[i])
  BY <1>4, <1>5
<1>10. \A i \in DOMAIN shares : validateTallyDecryptionShare(ct, shares[i])
  BY <1>1 DEF verifyTallyDecryptionShare
<1>11. DistinctIndexes(selected)
  BY <1>6 DEF MadeOf
<1> HIDE DEF publics
<1>12. hashElectionPublicKey(Interpolate(selected, publics)) = ct.electionPublicKeyHash
  BY <1>7, <1>8
<1>13. Len(shares) >= n
  BY <1>1
<1>14. decryptAggregatedTallyWithShares(ct, shares, n, Cardinality(ids))
         = Counts(ct, SharedSecret(selected), Cardinality(ids))
  BY <1>9, <1>10, <1>11, <1>12, <1>13
     DEF decryptAggregatedTallyWithShares, selected, publics
<1>15. QED
  BY <1>8, <1>14

(* V3: made shares can be decrypted. *)
LEMMA MadeSharesDecrypt ==
  ASSUME BatchInv, NEW ids \in SUBSET DOMAIN ballots, NEW key \in 1..Order - 1,
         NEW ct, Encrypts(ct, ids, key),
         NEW s, NEW cs, NEW w, NEW shares, NEW n, IsList(shares), Len(shares) = n,
         MadeOf(s, cs, w, shares, ct, n), Multiply(Base, s) = Multiply(Base, key),
         \A i \in 1..n : verifyProofCompatibleDecryptionShare(ct, shares[i])
  PROVE  decryptProofCompatibleTallyWithShares(ct, shares, n, Cardinality(ids)) # {}
<1>1. n \in Nat /\ DOMAIN shares = 1..n /\ DistinctIndexes(shares)
  BY DEF MadeOf
<1>2. SubSeq(shares, 1, n) = shares
  BY <1>1, WholeList
<1>3. /\ \A i \in 1..n :
           HasSubgroupInverse(ProductsAt(0, shares[i].trusteeIndex,
                                         Indexes(shares)).denominator)
      /\ Counts(ct, SharedSecret(shares), Cardinality(ids)) # {}
  <2>1. Combines(shares, s, ct, ids)
    BY MadeSharesCombine
  <2>2. QED
    BY <1>1, <2>1 DEF Combines
<1>4. Len(shares) >= n
  BY <1>1
<1>5. QED
  BY <1>1, <1>2, <1>3, <1>4 DEF decryptProofCompatibleTallyWithShares

(* The share file a trustee makes of a scalar under a published key set.   *)
FileOf(w, i, k, t) ==
  IF version = 1 THEN createTallyDecryptionShare(w, i, t.aggregateCiphertext)
  ELSE LET share == createProofCompatibleDecryptionShare(w, i, t.aggregateCiphertext)
       IN  [ceremonyTranscriptDigest       |-> k.transcriptDigest,
            encryptedTallyPublicInputsHash |-> EncryptedTallyHash(t),
            share                          |-> share,
            shareDigest |-> digestProofCompatibleDecryptionShare(share)]

(* A trustee whose share file is of a share of the key set's polynomial.   *)
HoldsShare(w, i, s, cs, k, t) ==
  /\ w \in Int
  /\ Multiply(Base, w) = Multiply(Base, ShareAt(s, cs, i))
  /\ shareFile[i] = {FileOf(w, i, k, t)}

(* Good files are such, whichever run of the ceremony dealt the share: the *)
(* transcripts say that the public shares are the same.                    *)
LEMMA GoodFilesAre ==
  ASSUME BatchInv, FilesInv, NEW k, NEW t, version # 2,
         k.publicKeyHash = t.aggregateCiphertext.electionPublicKeyHash,
         NEW ceremony \in scenario.ceremonies,
         NEW keySet \in KeySet(version, ceremony), k = PublicKeyset(keySet),
         NEW i \in Good(k, t)
  PROVE  /\ i \in 1..ceremony.trusteeCount
         /\ \E w : HoldsShare(w, i, ceremony.privateKey, ceremony.coefficients, k, t)
<1> DEFINE s == ceremony.privateKey
           cs == ceremony.coefficients
           m == ceremony.trusteeCount
           ct == t.aggregateCiphertext
<1>1. /\ m \in Nat /\ DOMAIN keySet.publicShares = 1..m
      /\ \A j \in 1..m : keySet.publicShares[j] = Multiply(Base, ShareAt(s, cs, j))
  BY KeySetIs
<1> HIDE DEF s, cs, m
<1>2. PICK private \in privateFile[i] :
        /\ private.transcriptDigest = k.transcriptDigest
        /\ shareFile[i] = ShareFile(private, i, t)
  BY DEF Good
<1>3. i \in Trustees /\ Dealt(private) /\ private.trusteeIndex = i
  BY DEF Good, FilesInv
<1>4. PICK dealt \in scenario.ceremonies :
        \E other \in KeySet(version, dealt) : private \in PrivateShareFiles(other)
  BY <1>3 DEF Dealt
<1>5. PICK other \in KeySet(version, dealt) : private \in PrivateShareFiles(other)
  BY <1>4
<1>6. PICK j \in DOMAIN other.privateShares :
        private = [trusteeIndex          |-> j,
                   privateShare          |-> other.privateShares[j],
                   publicShare           |-> other.publicShares[j],
                   electionPublicKeyHash |-> other.publicKeyHash,
                   transcriptDigest      |-> transcriptDigest(other)]
  BY <1>5 DEF PrivateShareFiles
<1> DEFINE w == private.privateShare
<1>7. /\ j = i /\ w = other.privateShares[i] /\ i \in DOMAIN other.privateShares
      /\ private.publicShare = other.publicShares[i]
      /\ private.electionPublicKeyHash = other.publicKeyHash
      /\ private.transcriptDigest = transcriptDigest(other)
  BY <1>3, <1>6
<1>8. /\ other.publicShares = keySet.publicShares
      /\ other.publicKeyHash = keySet.publicKeyHash
      /\ k.publicKeyHash = keySet.publicKeyHash
  BY <1>2, <1>7 DEF PublicKeyset, transcriptDigest
<1>9. /\ i \in 1..m /\ w \in Int
      /\ Multiply(Base, w) = other.publicShares[i]
  <2> DEFINE n == dealt.trusteeCount
  <2>1. /\ DOMAIN other.privateShares = 1..n /\ DOMAIN other.publicShares = 1..n
        /\ \A l \in 1..n :
             /\ other.privateShares[l] \in Int
             /\ other.publicShares[l] = Multiply(Base, other.privateShares[l])
    <3>1. LET a == dealt.privateKey
              b == dealt.coefficients
          IN  /\ DOMAIN other.privateShares = 1..n
              /\ DOMAIN other.publicShares = 1..n
              /\ \A l \in 1..n :
                   /\ other.privateShares[l] = ShareAt(a, b, l)
                   /\ other.privateShares[l] \in Int
                   /\ other.publicShares[l] = Multiply(Base, ShareAt(a, b, l))
      BY <1>4, <1>5, KeySetIs
    <3>2. QED
      BY <3>1
  <2> HIDE DEF n, w
  <2>2. QED
    BY <1>1, <1>7, <1>8, <2>1
<1>10. Multiply(Base, w) = Multiply(Base, ShareAt(s, cs, i))
  BY <1>1, <1>8, <1>9
<1>11. shareFile[i] = {FileOf(w, i, k, t)}
  <2>1. CASE version = 1
    BY <1>2, <2>1 DEF ShareFile, ShareFileV1, FileOf
  <2>2. CASE version # 1
    <3> DEFINE share == createProofCompatibleDecryptionShare(w, i, ct)
    <3>1. version = 3
      BY <2>2, ScenarioAssumption DEF BatchInv, version
    <3>2. MadeFrom(share, w, i, ct)
      BY CreatedVerifies
    <3>3. /\ private.electionPublicKeyHash = share.electionPublicKeyHash
          /\ private.publicShare = share.trusteePublicShare
      BY <1>7, <1>8, <1>9, <3>2 DEF MadeFrom
    <3>4. shareFile[i] = ShareFileV3(private, i, t)
      BY <1>2, <3>1 DEF ShareFile
    <3> HIDE DEF share
    <3>5. {x \in {share} : /\ private.electionPublicKeyHash = x.electionPublicKeyHash
                           /\ private.publicShare = x.trusteePublicShare} = {share}
      BY <3>3
    <3>6. QED
      BY <1>2, <2>2, <3>4, <3>5 DEF ShareFileV3, FileOf, share
  <2>3. QED
    BY <2>1, <2>2
<1> HIDE DEF w
<1>12. HoldsShare(w, i, s, cs, k, t)
  BY <1>9, <1>10, <1>11 DEF HoldsShare
<1>13. QED
  BY <1>9, <1>12 DEF s, cs, m

(* The shares in a list of share files. *)
SharesIn(files) ==
  [i \in DOMAIN files |-> IF version = 1 THEN files[i] ELSE files[i].share]

(* Files of trustees that hold shares are shares made for the tally.       *)
LEMMA HeldFilesAre ==
  ASSUME NEW w, NEW i, NEW s, NEW cs, NEW k, NEW t, HoldsShare(w, i, s, cs, k, t),
         version # 2, version \in 1..3
  PROVE  LET file  == FileOf(w, i, k, t)
             share == IF version = 1 THEN file ELSE file.share
             ct    == t.aggregateCiphertext
         IN  /\ MadeFrom(share, w, i, ct)
             /\ version = 1 => verifyTallyDecryptionShare(ct, share)
             /\ version = 3 =>
                  /\ verifyProofCompatibleDecryptionShare(ct, share)
                  /\ file.ceremonyTranscriptDigest = k.transcriptDigest
                  /\ file.encryptedTallyPublicInputsHash = EncryptedTallyHash(t)
                  /\ file.shareDigest = digestProofCompatibleDecryptionShare(share)
<1> DEFINE ct == t.aggregateCiphertext
           one == createTallyDecryptionShare(w, i, ct)
           three == createProofCompatibleDecryptionShare(w, i, ct)
<1>1. /\ MadeFrom(one, w, i, ct) /\ verifyTallyDecryptionShare(ct, one)
      /\ MadeFrom(three, w, i, ct) /\ verifyProofCompatibleDecryptionShare(ct, three)
  BY CreatedVerifies
<1> HIDE DEF ct
<1>2. CASE version = 1
  <2>1. FileOf(w, i, k, t) = one
    BY <1>2 DEF FileOf, ct
  <2> HIDE DEF one
  <2>2. QED
    BY <1>1, <1>2, <2>1 DEF ct
<1>3. CASE version = 3
  <2> HIDE DEF three
  <2>1. FileOf(w, i, k, t) =
          [ceremonyTranscriptDigest       |-> k.transcriptDigest,
           encryptedTallyPublicInputsHash |-> EncryptedTallyHash(t),
           share                          |-> three,
           shareDigest |-> digestProofCompatibleDecryptionShare(three)]
    BY <1>3 DEF FileOf, ct, three
  <2>2. QED
    BY <1>1, <1>3, <2>1 DEF ct
<1>4. QED
  BY <1>2, <1>3

(* A list of distinct trustees' good files, as many as the threshold.      *)
LEMMA GoodFilesMade ==
  ASSUME BatchInv, FilesInv, NEW k, NEW t, version # 2,
         k.publicKeyHash = t.aggregateCiphertext.electionPublicKeyHash,
         NEW ceremony \in scenario.ceremonies,
         NEW keySet \in KeySet(version, ceremony), k = PublicKeyset(keySet),
         NEW slots \in [1..k.threshold -> Good(k, t)], IsInjective(slots)
  PROVE  \E w :
           /\ \A j \in 1..k.threshold :
                /\ HoldsShare(w[j], slots[j], ceremony.privateKey,
                              ceremony.coefficients, k, t)
                /\ FilesOf(slots)[j] = FileOf(w[j], slots[j], k, t)
                /\ slots[j] \in 1..ceremony.trusteeCount
           /\ MadeOf(ceremony.privateKey, ceremony.coefficients, w,
                     SharesIn(FilesOf(slots)), t.aggregateCiphertext, k.threshold)
<1> DEFINE s == ceremony.privateKey
           cs == ceremony.coefficients
           m == ceremony.trusteeCount
           n == k.threshold
           ct == t.aggregateCiphertext
           w == [j \in 1..n |-> CHOOSE x : HoldsShare(x, slots[j], s, cs, k, t)]
           files == FilesOf(slots)
           shares == SharesIn(files)
<1>1. /\ s \in Int /\ cs \in Seq(Int) /\ m \in Nat
      /\ n = Len(cs) + 1 /\ n \in 2..m
  <2>1. keySet.threshold = n
    BY DEF PublicKeyset
  <2>2. QED
    BY <2>1, KeySetIs
<1>2. m < Order /\ version \in 1..3
  BY ScenarioAssumption DEF BatchInv, version
<1>3. ASSUME NEW j \in 1..n
      PROVE  slots[j] \in 1..m /\ HoldsShare(w[j], slots[j], s, cs, k, t)
  <2>1. slots[j] \in Good(k, t)
    OBVIOUS
  <2>2. /\ slots[j] \in 1..m
        /\ \E x : HoldsShare(x, slots[j], s, cs, k, t)
    BY <2>1, GoodFilesAre
  <2> HIDE DEF s, cs, m
  <2>3. QED
    BY <2>2
<1>4. DOMAIN slots = 1..n /\ DOMAIN files = 1..n /\ DOMAIN shares = 1..n
  BY DEF FilesOf, SharesIn
<1>5. ASSUME NEW j \in 1..n
      PROVE  files[j] = FileOf(w[j], slots[j], k, t)
  <2>1. shareFile[slots[j]] = {FileOf(w[j], slots[j], k, t)}
    BY <1>3 DEF HoldsShare
  <2>2. files[j] = CHOOSE f \in shareFile[slots[j]] : TRUE
    BY <1>4 DEF FilesOf
  <2> HIDE DEF w, files
  <2>3. QED
    BY <2>1, <2>2
<1> HIDE DEF w, n, s, cs, m, files
<1>6. ASSUME NEW j \in 1..n
      PROVE  MadeFrom(shares[j], w[j], slots[j], ct)
  <2>1. shares[j] = IF version = 1 THEN files[j] ELSE files[j].share
    BY <1>4 DEF SharesIn
  <2> HIDE DEF shares
  <2>2. QED
    BY <1>2, <1>3, <1>5, <2>1, HeldFilesAre
<1> HIDE DEF shares
<1>7. \A j \in 1..n : shares[j].trusteeIndex = slots[j]
  BY <1>6 DEF MadeFrom
<1>8. \A i, j \in 1..n : slots[i] = slots[j] => i = j
  BY <1>4 DEF IsInjective
<1>9. DistinctIndexes(shares)
  BY <1>4, <1>7, <1>8 DEF DistinctIndexes
<1>10. \A j \in 1..n : w[j] \in Int
  BY <1>3 DEF HoldsShare
<1>11. Terms(w, n)
  BY <1>10 DEF Terms
<1>12. ASSUME NEW j \in 1..n
       PROVE  /\ shares[j].trusteeIndex \in 1..Order - 1
              /\ MadeFrom(shares[j], w[j], shares[j].trusteeIndex, ct)
              /\ Multiply(Base, w[j])
                   = Multiply(Base, ShareAt(s, cs, shares[j].trusteeIndex))
  <2>1. slots[j] \in 1..Order - 1
    BY <1>1, <1>2, <1>3, OrderIs
  <2>2. QED
    BY <1>3, <1>6, <1>7, <2>1 DEF HoldsShare
<1>13. n \in Nat
  BY <1>1
<1>14. MadeOf(s, cs, w, shares, ct, n)
  BY <1>1, <1>4, <1>9, <1>11, <1>12, <1>13 DEF MadeOf
<1>15. QED
  BY <1>3, <1>5, <1>14 DEF n, s, cs, m, files, shares

(* Such a list gives a result, in whichever order. *)
LEMMA GoodFinalizes ==
  ASSUME BatchInv, TalliesHold, FilesInv, NEW k \in keyset, NEW t \in tally,
         k.publicKeyHash = t.aggregateCiphertext.electionPublicKeyHash,
         NEW slots \in [1..k.threshold -> Good(k, t)], IsInjective(slots)
  PROVE  IF version = 1
           THEN buildTallyResult(t, FilesOf(slots), k.threshold) # {}
           ELSE finalizeEligibleTally(t, k, FilesOf(slots)) # {}
<1> DEFINE ct == t.aggregateCiphertext
           n == k.threshold
           ids == BallotsIn(t.acceptedBatches)
           files == FilesOf(slots)
           shares == SharesIn(files)
<1>1. Published(k) /\ version # 2 /\ version \in 1..3 /\ TallyOf(t)
  BY ScenarioAssumption DEF FilesInv, TalliesHold, BatchInv, version
<1>2. PICK ceremony \in scenario.ceremonies :
        \E keySet \in KeySet(version, ceremony) : k = PublicKeyset(keySet)
  BY <1>1 DEF Published
<1>3. PICK keySet \in KeySet(version, ceremony) : k = PublicKeyset(keySet)
  BY <1>2
<1> DEFINE s == ceremony.privateKey
           cs == ceremony.coefficients
           m == ceremony.trusteeCount
<1>4. /\ s \in Int /\ n \in 2..m /\ m \in Nat
      /\ k.publicKeyHash = PublicKeyHash(version, Multiply(Base, s))
      /\ DOMAIN k.trusteePublicShares = 1..m
      /\ \A i \in 1..m : k.trusteePublicShares[i] = Multiply(Base, ShareAt(s, cs, i))
  <2>1. /\ keySet.threshold = n /\ keySet.publicKeyHash = k.publicKeyHash
        /\ keySet.publicShares = k.trusteePublicShares
    BY <1>3 DEF PublicKeyset
  <2>2. QED
    BY <2>1, KeySetIs
<1>5. /\ ids \in SUBSET DOMAIN ballots
      /\ t.ballotCount = Cardinality(ids)
      /\ \E key \in 1..Order - 1 : HoldsVotes(ct, ids, key)
  BY <1>1 DEF TallyOf
<1> HIDE DEF ids
<1>6. PICK key \in 1..Order - 1 : HoldsVotes(ct, ids, key)
  BY <1>5
<1>7. Encrypts(ct, ids, key) /\ Multiply(Base, s) = Multiply(Base, key)
  <2> DEFINE P == Multiply(Base, s)
             Q == Multiply(Base, key)
  <2>1. Encrypts(ct, ids, key) /\ PublicKeyHash(version, P) = PublicKeyHash(version, Q)
    BY <1>4, <1>6 DEF HoldsVotes
  <2> HIDE DEF P, Q
  <2>2. P = Q
    BY <2>1
       DEF PublicKeyHash, hashElectionPublicKey, hashProofCompatibleElectionPublicKey
  <2>3. QED
    BY <2>1, <2>2 DEF P, Q
<1>8. PICK w :
        /\ \A j \in 1..n :
             /\ HoldsShare(w[j], slots[j], s, cs, k, t)
             /\ files[j] = FileOf(w[j], slots[j], k, t)
             /\ slots[j] \in 1..m
        /\ MadeOf(s, cs, w, shares, ct, n)
  BY <1>1, <1>3, GoodFilesMade
<1>9. /\ n \in Nat /\ n >= 2
      /\ files = [j \in 1..n |-> files[j]] /\ shares = [j \in 1..n |-> shares[j]]
  BY <1>4 DEF FilesOf, SharesIn
<1> HIDE DEF files, shares, n, s, cs, m
<1>10. IsList(files) /\ Len(files) = n /\ IsList(shares) /\ Len(shares) = n
  BY <1>9, ListOfLength
<1>11. DOMAIN files = 1..n /\ DOMAIN shares = 1..n
  BY <1>9
<1>12. \A j \in 1..n :
         shares[j] = IF version = 1 THEN files[j] ELSE files[j].share
  BY <1>11 DEF shares, SharesIn
<1>13. CASE version = 1
  <2>1. \A j \in 1..n : verifyTallyDecryptionShare(ct, shares[j])
    BY <1>1, <1>8, <1>12, <1>13, HeldFilesAre
  <2>2. shares = files
    BY <1>9, <1>12, <1>13
  <2> HIDE DEF ct
  <2>3. decryptAggregatedTallyWithShares(ct, shares, n, Cardinality(ids)) # {}
    <3>1. /\ ids \in SUBSET DOMAIN ballots /\ HoldsVotes(ct, ids, key)
          /\ MadeOf(s, cs, w, shares, ct, n) /\ Len(shares) = n /\ n >= 2
          /\ Multiply(Base, s) = Multiply(Base, key)
      BY <1>5, <1>6, <1>7, <1>8, <1>9, <1>10 DEF ct
    <3>2. QED
      BY <1>13, <2>1, <3>1, MadeSharesDecryptV1
  <2>4. decryptAggregatedTallyWithShares(ct, files, n, t.ballotCount) # {}
    BY <1>5, <2>2, <2>3
  <2>5. buildTallyResult(t, files, n) # {}
    BY <2>4 DEF buildTallyResult, Result, ct
  <2>6. QED
    BY <1>13, <2>5 DEF files, n
<1>14. CASE version = 3
  <2>1. ASSUME NEW j \in 1..n
        PROVE  /\ verifyProofCompatibleDecryptionShare(ct, shares[j])
               /\ KnownShare(k, t, files[j])
    <3> DEFINE i == slots[j]
    <3>1. i \in 1..m /\ files[j] = FileOf(w[j], i, k, t)
          /\ HoldsShare(w[j], i, s, cs, k, t)
          /\ shares[j] = files[j].share
      BY <1>8, <1>12, <1>14
    <3> HIDE DEF i
    <3>2. /\ MadeFrom(shares[j], w[j], i, ct)
          /\ verifyProofCompatibleDecryptionShare(ct, shares[j])
          /\ files[j].ceremonyTranscriptDigest = k.transcriptDigest
          /\ files[j].encryptedTallyPublicInputsHash = EncryptedTallyHash(t)
          /\ files[j].shareDigest = digestProofCompatibleDecryptionShare(shares[j])
      BY <1>1, <1>14, <3>1, HeldFilesAre
    <3>3. shares[j].trusteeIndex \in DOMAIN k.trusteePublicShares
          /\ k.trusteePublicShares[shares[j].trusteeIndex]
               = shares[j].trusteePublicShare
      BY <1>4, <3>1, <3>2 DEF MadeFrom, HoldsShare
    <3>4. QED
      BY <3>1, <3>2, <3>3 DEF KnownShare
  <2>2. DistinctIndexes(shares)
    BY <1>8 DEF MadeOf
  <2>3. SubSeq(files, 1, n) = files
    BY <1>10, WholeList
  <2>4. [j \in DOMAIN files |-> files[j].share] = shares
    BY <1>9, <1>11, <1>12, <1>14
  <2> HIDE DEF ct
  <2>5. decryptProofCompatibleTallyWithShares(ct, shares, n, Cardinality(ids)) # {}
    BY <1>5, <1>7, <1>8, <1>10, <2>1, MadeSharesDecrypt
  <2>6. decryptProofCompatibleTallyWithShares(ct, shares, n, t.ballotCount) # {}
    BY <1>5, <2>5
  <2>7. finalizeEligibleTally(t, k, files) # {}
    <3>1. Len(files) >= n /\ \A j \in DOMAIN files : KnownShare(k, t, files[j])
      BY <1>9, <1>10, <1>11, <2>1
    <3> DEFINE digests == [j \in DOMAIN shares |->
                             digestProofCompatibleDecryptionShare(shares[j])]
    <3>2. finalizeEligibleTally(t, k, files) =
            Result(t, decryptProofCompatibleTallyWithShares(ct, shares, n,
                        t.ballotCount), digests, {k.transcriptDigest})
      BY <2>2, <2>3, <2>4, <3>1 DEF finalizeEligibleTally, n, ct
    <3>3. QED
      BY <2>6, <3>2 DEF Result
  <2>8. QED
    BY <1>14, <2>7 DEF files
<1>15. QED
  BY <1>1, <1>13, <1>14

(* What is listed after the first files, as many as the threshold, is not  *)
(* looked at.                                                              *)
LEMMA LaterFilesIgnored ==
  ASSUME NEW k, NEW t, k.threshold \in Nat, NEW T,
         NEW slots \in [1..k.threshold -> T], NEW rest \in Seq(T)
  PROVE  finalizeEligibleTally(t, k, FilesOf(slots \o rest))
           = finalizeEligibleTally(t, k, FilesOf(slots))
<1> DEFINE n == k.threshold
           list == slots \o rest
           file(i) == CHOOSE f \in shareFile[i] : TRUE
           X == {file(i) : i \in T}
           files == FilesOf(slots)
           more == FilesOf(list)
<1>1. slots \in Seq(T) /\ Len(slots) = n /\ DOMAIN slots = 1..n
  <2> HIDE DEF n
  <2>1. n \in Nat /\ slots \in [1..n -> T]
    BY DEF n
  <2>2. QED
    BY <2>1
<1>2. /\ list \in Seq(T) /\ Len(list) >= n /\ DOMAIN list = 1..Len(list)
      /\ \A j \in 1..n : list[j] = slots[j]
  <2> HIDE DEF n
  <2>1. n \in Nat
    BY DEF n
  <2>2. QED
    BY <1>1, <2>1
<1> HIDE DEF list
<1>3. /\ files = [j \in 1..n |-> file(slots[j])]
      /\ more = [j \in 1..Len(list) |-> file(list[j])]
  BY <1>1, <1>2 DEF FilesOf
<1>4. \A i \in T : file(i) \in X
  OBVIOUS
<1> HIDE DEF file, X, files, more
<1>5. /\ files \in Seq(X) /\ Len(files) = n
      /\ \A j \in 1..n : files[j] = file(slots[j])
  <2> HIDE DEF n
  <2>1. n \in Nat
    BY DEF n
  <2>2. files \in [1..n -> X] /\ \A j \in 1..n : files[j] = file(slots[j])
    BY <1>1, <1>3, <1>4
  <2>3. QED
    BY <2>1, <2>2
<1>6. /\ more \in Seq(X) /\ Len(more) = Len(list)
      /\ \A j \in 1..Len(list) : more[j] = file(list[j])
  <2>1. Len(list) \in Nat
    BY <1>2
  <2>2. more \in [1..Len(list) -> X] /\ \A j \in 1..Len(list) : more[j] = file(list[j])
    BY <1>2, <1>3, <1>4
  <2>3. QED
    BY <2>1, <2>2
<1>7. n \in Nat /\ \A j \in 1..n : more[j] = files[j]
  BY <1>2, <1>5, <1>6
<1>8. SubSeq(more, 1, n) = files /\ SubSeq(files, 1, n) = files
  <2> HIDE DEF n
  <2>1. Len(more) >= n
    BY <1>2, <1>6
  <2>2. QED
    BY <1>5, <1>6, <1>7, <2>1
<1>9. Len(more) >= n /\ Len(files) >= n
  BY <1>2, <1>5, <1>6, <1>7
<1>10. finalizeEligibleTally(t, k, more) = finalizeEligibleTally(t, k, files)
  BY <1>8, <1>9 DEF finalizeEligibleTally
<1>11. QED
  BY <1>10 DEF files, more, list
(* Enough share files as the private files of the published ceremony give  *)
(* them can always be finalized, whatever ceremonies ran before it or      *)
(* crashed, whatever the other trustees' files are and, in version 3,      *)
(* whichever of them are listed after enough good ones.                    *)
THEOREM GoodSharesAlwaysFinalize == Spec => []EnoughGoodSharesFinalize
<1>1. ASSUME BatchInv, TalliesHold, FilesInv
      PROVE  EnoughGoodSharesFinalize
  <2>1. SUFFICES ASSUME NEW k \in keyset, NEW t \in tally,
                        k.publicKeyHash = t.aggregateCiphertext.electionPublicKeyHash,
                        NEW slots \in [1..k.threshold -> Good(k, t)],
                        IsInjective(slots)
                 PROVE  IF version = 1
                          THEN buildTallyResult(t, FilesOf(slots), k.threshold) # {}
                          ELSE \A rest \in SlotLists \cup {<< >>} :
                                 finalizeEligibleTally(t, k, FilesOf(slots \o rest)) # {}
    BY DEF EnoughGoodSharesFinalize
  <2>2. IF version = 1
          THEN buildTallyResult(t, FilesOf(slots), k.threshold) # {}
          ELSE finalizeEligibleTally(t, k, FilesOf(slots)) # {}
    BY <1>1, <2>1, GoodFinalizes
  <2>3. k.threshold \in Nat
    <3>1. Published(k)
      BY <1>1 DEF FilesInv
    <3>2. PICK ceremony \in scenario.ceremonies :
            \E keySet \in KeySet(version, ceremony) : k = PublicKeyset(keySet)
      BY <3>1 DEF Published
    <3>3. PICK keySet \in KeySet(version, ceremony) : k = PublicKeyset(keySet)
      BY <3>2
    <3>4. keySet.threshold = k.threshold
      BY <3>3 DEF PublicKeyset
    <3>5. QED
      BY <1>1, <3>4, KeySetIs
  <2>4. slots \in [1..k.threshold -> Trustees]
    BY <2>1 DEF Good
  <2>5. ASSUME NEW rest \in SlotLists \cup {<< >>}
        PROVE  finalizeEligibleTally(t, k, FilesOf(slots \o rest))
                 = finalizeEligibleTally(t, k, FilesOf(slots))
    <3>1. rest \in Seq(Trustees)
      <4>1. CASE rest = << >>
        BY <4>1
      <4>2. CASE rest \in SlotLists
        <5> DEFINE filed == {i \in Trustees : shareFile[i] # {}}
        <5>1. PICK n \in 1..scenario.maxFiles : rest \in [1..n -> filed]
          BY <4>2 DEF SlotLists
        <5>2. n \in Nat /\ filed \subseteq Trustees
          OBVIOUS
        <5> HIDE DEF filed
        <5>3. rest \in [1..n -> Trustees]
          BY <5>1, <5>2
        <5>4. QED
          BY <5>2, <5>3
      <4>3. QED
        BY <4>1, <4>2
    <3>2. QED
      BY <2>3, <2>4, <3>1, LaterFilesIgnored
  <2>6. QED
    BY <2>2, <2>5
<1>2. QED
  BY BatchInvariant, TalliesAlwaysHold, FilesAlways, <1>1, PTL
=============================================================================
