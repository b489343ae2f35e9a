-------------------------- MODULE FiniteData_proofs --------------------------
(***************************************************************************)
(* Induction over finite data, and what a sum over a set is.  The library  *)
(* states induction with an operator for the induction hypothesis; here it *)
(* is a smallest counterexample instead: a nonempty set of subsets of a    *)
(* finite set has a minimal member, a nonempty set of naturals a least     *)
(* one.  SumFunction of the module Functions is a CHOOSE of a recursive    *)
(* function on the subsets of a set; the lemmas show that the function     *)
(* exists, is unique, and does not depend on the order of the elements.    *)
(*                                                                         *)
(* The second half is Lagrange interpolation at zero, modulo any number:   *)
(* as many values of a polynomial as it has coefficients, weighted by      *)
(* quotients of differences, add up to its value at zero                   *)
(* (PolynomialInterpolates).  The weights of n points add up to one        *)
(* (WeightsSumToOne), by induction on n: their sum times the difference    *)
(* of the last two points comes from the sums for the points without the   *)
(* one and without the other.                                              *)
(***************************************************************************)
EXTENDS Integers, FiniteSetTheorems, Functions, TLAPS

(* Strict inclusion is well founded on the subsets of a finite set. *)
LEMMA SmallestSubset ==
  ASSUME NEW S, IsFiniteSet(S), NEW T \in SUBSET SUBSET S, T # {}
  PROVE  \E x \in T : \A y \in T : y \subseteq x => y = x
<1>1. IsWellFoundedOn(StrictSubsetOrdering(S), SUBSET S)
  BY FS_StrictSubsetOrderingWellFounded, FS_FiniteSubsetsOfFinite
<1>2. PICK x \in T : \A y \in T : ~ (<<y, x>> \in StrictSubsetOrdering(S))
  BY <1>1, WFMin
<1>3. ASSUME NEW y \in T, y \subseteq x PROVE y = x
  <2>1. y # x => <<y, x>> \in StrictSubsetOrdering(S)
    BY <1>3 DEF StrictSubsetOrdering
  <2>2. QED
    BY <2>1, <1>2
<1>4. QED
  BY <1>3

(* The naturals are well founded. *)
LEMMA LeastNatural ==
  ASSUME NEW T \in SUBSET Nat, T # {}
  PROVE  \E x \in T : \A y \in T : x <= y
<1>1. PICK n \in T : TRUE
  OBVIOUS
<1> DEFINE Upto == 0..n
           Below == {0..m : m \in {k \in T : k <= n}}
<1>2. Below # {} /\ Below \in SUBSET SUBSET Upto
  <2>1. 0..n \in Below /\ Below \in SUBSET SUBSET (0..n)
    OBVIOUS
  <2>2. QED
    BY <2>1
<1>3. IsFiniteSet(Upto)
  BY FS_Interval
<1>4. PICK I \in Below : \A J \in Below : J \subseteq I => J = I
  <2> HIDE DEF Below, Upto
  <2>1. QED
    BY <1>2, <1>3, SmallestSubset
<1>5. PICK x \in T : x <= n /\ I = 0..x
  OBVIOUS
<1>6. ASSUME NEW y \in T, y < x PROVE FALSE
  <2>1. 0..y \in Below /\ 0..y \subseteq I /\ 0..y # I
    BY <1>5, <1>6
  <2>2. QED
    BY <2>1, <1>4
<1>7. QED
  BY <1>6

-----------------------------------------------------------------------------
(* The element the folds take first. *)
Pick(S) == CHOOSE x \in S : TRUE

(* A nonempty set's first element is one of its elements. *)
LEMMA PickIn ==
  ASSUME NEW S, S # {}
  PROVE  Pick(S) \in S
BY DEF Pick

(* g is the recursive function a sum of f over the subsets of S is read    *)
(* from.                                                                   *)
IsIter(g, f, S) ==
  g = [s \in SUBSET S |-> IF s = {} THEN 0 ELSE f[Pick(s)] + g[s \ {Pick(s)}]]

Iter(f, S) == CHOOSE g : IsIter(g, f, S)

(* The library's sum is that function at the whole set. *)
LEMMA SumIsIter ==
  ASSUME NEW f, NEW S
  PROVE  SumFunctionOnSet(f, S) = Iter(f, S)[S]
BY DEF SumFunctionOnSet, FoldFunctionOnSet, MapThenFoldSet, Iter, IsIter, Pick

(* The recursion unfolded once. *)
LEMMA IterAt ==
  ASSUME NEW f, NEW S, NEW g, IsIter(g, f, S), NEW s \in SUBSET S
  PROVE  g[s] = IF s = {} THEN 0 ELSE f[Pick(s)] + g[s \ {Pick(s)}]
<1>1. g = [t \in SUBSET S |-> IF t = {} THEN 0 ELSE f[Pick(t)] + g[t \ {Pick(t)}]]
  BY DEF IsIter
<1>2. QED
  BY <1>1

(* Two solutions of the recursion agree where both are defined. *)
LEMMA IterUnique ==
  ASSUME NEW f, NEW S, NEW R, NEW g, NEW h, IsFiniteSet(S),
         IsIter(g, f, S), IsIter(h, f, R), NEW t \in SUBSET S, t \in SUBSET R
  PROVE  g[t] = h[t]
<1> DEFINE Bad == {s \in SUBSET S : s \in SUBSET R /\ g[s] # h[s]}
<1>1. SUFFICES ASSUME Bad # {} PROVE FALSE
  OBVIOUS
<1>2. PICK s \in Bad : \A u \in Bad : u \subseteq s => u = s
  <2>1. Bad \in SUBSET SUBSET S
    OBVIOUS
  <2> HIDE DEF Bad
  <2>2. QED
    BY <1>1, <2>1, SmallestSubset
<1>3. /\ g[s] = IF s = {} THEN 0 ELSE f[Pick(s)] + g[s \ {Pick(s)}]
      /\ h[s] = IF s = {} THEN 0 ELSE f[Pick(s)] + h[s \ {Pick(s)}]
  BY IterAt
<1>4. s # {} /\ Pick(s) \in s
  BY <1>3, PickIn
<1>5. g[s \ {Pick(s)}] = h[s \ {Pick(s)}]
  <2>1. s \ {Pick(s)} \notin Bad
    BY <1>2, <1>4
  <2>2. QED
    BY <2>1
<1>6. QED
  BY <1>3, <1>4, <1>5

(* The recursion has a solution on every finite set. *)
LEMMA IterExists ==
  ASSUME NEW f, NEW S, IsFiniteSet(S)
  PROVE  IsIter(Iter(f, S), f, S)
<1> DEFINE Bad == {s \in SUBSET S : ~ IsIter(Iter(f, s), f, s)}
<1>1. SUFFICES ASSUME Bad # {} PROVE FALSE
  OBVIOUS
<1>2. PICK U \in Bad : \A u \in Bad : u \subseteq U => u = U
  <2>1. Bad \in SUBSET SUBSET S
    OBVIOUS
  <2> HIDE DEF Bad
  <2>2. QED
    BY <1>1, <2>1, SmallestSubset
<1>3. ASSUME NEW s \in SUBSET U, s # U PROVE IsIter(Iter(f, s), f, s)
  BY <1>2, <1>3
<1> DEFINE Rest(s) == s \ {Pick(s)}
           g == [s \in SUBSET U |->
                   IF s = {} THEN 0 ELSE f[Pick(s)] + Iter(f, Rest(s))[Rest(s)]]
<1>4. ASSUME NEW s \in SUBSET U, s # U PROVE g[s] = Iter(f, s)[s]
  <2>1. Iter(f, s)[s] = IF s = {} THEN 0 ELSE f[Pick(s)] + Iter(f, s)[Rest(s)]
    BY <1>3, <1>4, IterAt
  <2>2. CASE s = {}
    BY <2>1, <2>2
  <2>3. CASE s # {}
    <3>1. Rest(s) \in SUBSET s /\ Rest(s) \in SUBSET U /\ Rest(s) # U
      BY <1>4
    <3>2. IsIter(Iter(f, s), f, s) /\ IsIter(Iter(f, Rest(s)), f, Rest(s))
      BY <3>1, <1>3, <1>4
    <3>3. IsFiniteSet(s)
      BY FS_Subset
    <3>4. Iter(f, s)[Rest(s)] = Iter(f, Rest(s))[Rest(s)]
      BY <3>1, <3>2, <3>3, IterUnique
    <3>5. QED
      BY <2>1, <2>3, <3>4
  <2>4. QED
    BY <2>2, <2>3
<1>5. IsIter(g, f, U)
  <2>1. ASSUME NEW s \in SUBSET U, s # {}
        PROVE  g[s] = f[Pick(s)] + g[Rest(s)]
    <3>1. Pick(s) \in s
      BY <2>1, PickIn
    <3>2. Rest(s) \in SUBSET U /\ Rest(s) # U
      BY <3>1
    <3>3. g[Rest(s)] = Iter(f, Rest(s))[Rest(s)]
      BY <3>2, <1>4
    <3>4. g[s] = f[Pick(s)] + Iter(f, Rest(s))[Rest(s)]
      BY <2>1
    <3>5. QED
      BY <3>3, <3>4
  <2>2. g = [s \in SUBSET U |-> IF s = {} THEN 0 ELSE g[s]]
    OBVIOUS
  <2>3. g = [s \in SUBSET U |-> IF s = {} THEN 0 ELSE f[Pick(s)] + g[Rest(s)]]
    <3> HIDE DEF g
    <3>1. QED
      BY <2>1, <2>2
  <2>4. QED
    BY <2>3 DEF IsIter
<1>6. IsIter(Iter(f, U), f, U)
  <2> HIDE DEF g
  <2>1. QED
    BY <1>5 DEF Iter
<1>7. QED
  BY <1>6, <1>2

-----------------------------------------------------------------------------
(* A sum over nothing is zero. *)
LEMMA SumOfNone ==
  ASSUME NEW f
  PROVE  SumFunctionOnSet(f, {}) = 0
<1>1. IsIter(Iter(f, {}), f, {})
  BY IterExists, FS_EmptySet
<1>2. Iter(f, {})[{}] = 0
  BY <1>1, IterAt
<1>3. QED
  BY <1>2, SumIsIter

(* A sum over a nonempty set takes the first element out. *)
LEMMA SumPicks ==
  ASSUME NEW f, NEW S, IsFiniteSet(S), S # {}
  PROVE  SumFunctionOnSet(f, S) = f[Pick(S)] + SumFunctionOnSet(f, S \ {Pick(S)})
<1> DEFINE R == S \ {Pick(S)}
<1>1. IsFiniteSet(R)
  BY FS_Subset
<1>2. IsIter(Iter(f, S), f, S) /\ IsIter(Iter(f, R), f, R)
  BY <1>1, IterExists
<1>3. Iter(f, S)[S] = f[Pick(S)] + Iter(f, S)[R]
  <2>1. S \in SUBSET S
    OBVIOUS
  <2>2. QED
    BY <1>2, <2>1, IterAt
<1>4. Iter(f, S)[R] = Iter(f, R)[R]
  <2>1. R \in SUBSET S /\ R \in SUBSET R
    OBVIOUS
  <2>2. QED
    BY <1>2, <2>1, IterUnique
<1>5. QED
  BY <1>3, <1>4, SumIsIter

(* A sum only looks at the values on its set. *)
LEMMA SumCongruent ==
  ASSUME NEW f, NEW g, NEW S, IsFiniteSet(S), \A x \in S : f[x] = g[x]
  PROVE  SumFunctionOnSet(f, S) = SumFunctionOnSet(g, S)
<1> DEFINE Bad == {s \in SUBSET S : SumFunctionOnSet(f, s) # SumFunctionOnSet(g, s)}
<1>1. SUFFICES ASSUME Bad # {} PROVE FALSE
  OBVIOUS
<1>2. PICK s \in Bad : \A u \in Bad : u \subseteq s => u = s
  <2>1. Bad \in SUBSET SUBSET S
    OBVIOUS
  <2> HIDE DEF Bad
  <2>2. QED
    BY <1>1, <2>1, SmallestSubset
<1>3. s # {} /\ IsFiniteSet(s)
  BY SumOfNone, FS_Subset
<1>4. Pick(s) \in s
  BY <1>3, PickIn
<1> DEFINE R == s \ {Pick(s)}
<1>5. SumFunctionOnSet(f, R) = SumFunctionOnSet(g, R)
  BY <1>2, <1>4
<1>6. /\ SumFunctionOnSet(f, s) = f[Pick(s)] + SumFunctionOnSet(f, R)
      /\ SumFunctionOnSet(g, s) = g[Pick(s)] + SumFunctionOnSet(g, R)
  BY <1>3, SumPicks
<1>7. QED
  BY <1>4, <1>5, <1>6

(* A sum of naturals is a natural. *)
LEMMA SumType ==
  ASSUME NEW f, NEW S, IsFiniteSet(S), \A x \in S : f[x] \in Nat
  PROVE  SumFunctionOnSet(f, S) \in Nat
<1> DEFINE Bad == {s \in SUBSET S : SumFunctionOnSet(f, s) \notin Nat}
<1>1. SUFFICES ASSUME Bad # {} PROVE FALSE
  OBVIOUS
<1>2. PICK s \in Bad : \A u \in Bad : u \subseteq s => u = s
  <2>1. Bad \in SUBSET SUBSET S
    OBVIOUS
  <2> HIDE DEF Bad
  <2>2. QED
    BY <1>1, <2>1, SmallestSubset
<1>3. s # {} /\ IsFiniteSet(s)
  <2>1. SumFunctionOnSet(f, {}) \in Nat
    BY SumOfNone
  <2>2. QED
    BY <2>1, FS_Subset
<1>4. Pick(s) \in s
  BY <1>3, PickIn
<1>5. SumFunctionOnSet(f, s \ {Pick(s)}) \in Nat
  BY <1>2, <1>4
<1>6. SumFunctionOnSet(f, s) = f[Pick(s)] + SumFunctionOnSet(f, s \ {Pick(s)})
  BY <1>3, SumPicks
<1>7. QED
  BY <1>4, <1>5, <1>6

(* A sum may be taken apart at any element: the order does not matter. *)
LEMMA SumSplit ==
  ASSUME NEW f, NEW S, IsFiniteSet(S), \A x \in S : f[x] \in Nat, NEW e \in S
  PROVE  SumFunctionOnSet(f, S) = f[e] + SumFunctionOnSet(f, S \ {e})
<1> DEFINE Splits(s, x) ==
             SumFunctionOnSet(f, s) = f[x] + SumFunctionOnSet(f, s \ {x})
           Bad == {s \in SUBSET S : \E x \in s : ~ Splits(s, x)}
<1>1. SUFFICES ASSUME Bad # {} PROVE FALSE
  OBVIOUS
<1>2. PICK s \in Bad : \A u \in Bad : u \subseteq s => u = s
  <2>1. Bad \in SUBSET SUBSET S
    OBVIOUS
  <2> HIDE DEF Bad
  <2>2. QED
    BY <1>1, <2>1, SmallestSubset
<1>3. PICK x \in s : ~ Splits(s, x)
  OBVIOUS
<1> DEFINE p == Pick(s)
<1>4. p \in s /\ Splits(s, p)
  <2>1. s # {} /\ IsFiniteSet(s)
    BY FS_Subset
  <2>2. QED
    BY <2>1, SumPicks, PickIn
<1>5. p # x
  BY <1>3, <1>4
<1>6. ASSUME NEW u \in SUBSET s, u # s, NEW y \in u PROVE Splits(u, y)
  BY <1>2, <1>6
<1>7. Splits(s \ {p}, x) /\ Splits(s \ {x}, p)
  <2> HIDE DEF Splits, p
  <2>1. QED
    BY <1>3, <1>4, <1>5, <1>6
<1>8. (s \ {p}) \ {x} = (s \ {x}) \ {p}
  OBVIOUS
<1> DEFINE T == SumFunctionOnSet(f, (s \ {p}) \ {x})
<1>9. T \in Nat /\ f[p] \in Nat /\ f[x] \in Nat
  <2>1. IsFiniteSet((s \ {p}) \ {x})
    BY FS_Subset
  <2>2. \A y \in (s \ {p}) \ {x} : f[y] \in Nat
    OBVIOUS
  <2>3. QED
    BY <1>4, <2>1, <2>2, SumType
<1>10. /\ SumFunctionOnSet(f, s) = f[p] + (f[x] + T)
       /\ SumFunctionOnSet(f, s \ {x}) = f[p] + T
  BY <1>4, <1>7, <1>8
<1>11. SumFunctionOnSet(f, s) = f[x] + SumFunctionOnSet(f, s \ {x})
  <2> HIDE DEF T, p
  <2>1. QED
    BY <1>9, <1>10
<1>12. QED
  BY <1>3, <1>11

-----------------------------------------------------------------------------
(* What the specifications' sums are used for. *)

(* The sum of a function into the naturals is a natural. *)
LEMMA SumFunctionType ==
  ASSUME NEW S, IsFiniteSet(S), NEW f \in [S -> Nat]
  PROVE  SumFunction(f) \in Nat
BY SumType DEF SumFunction

(* A function of nothing sums to zero. *)
LEMMA SumFunctionEmpty ==
  ASSUME NEW f, DOMAIN f = {}
  PROVE  SumFunction(f) = 0
BY SumOfNone DEF SumFunction

(* The sum of g is the sum of f and one more value, the one at e. *)
Adds(g, f, e) == SumFunction(g) = SumFunction(f) + g[e]

(* One more place adds its value. *)
LEMMA SumFunctionAdds ==
  ASSUME NEW S, IsFiniteSet(S), NEW f \in [S -> Nat], NEW e, e \notin S,
         NEW g \in [S \cup {e} -> Nat], \A x \in S : g[x] = f[x]
  PROVE  Adds(g, f, e)
<1>1. IsFiniteSet(S \cup {e})
  BY FS_AddElement
<1>2. SumFunctionOnSet(g, S \cup {e})
        = g[e] + SumFunctionOnSet(g, (S \cup {e}) \ {e})
  BY <1>1, SumSplit
<1>3. (S \cup {e}) \ {e} = S
  OBVIOUS
<1>4. SumFunctionOnSet(g, S) = SumFunctionOnSet(f, S)
  BY SumCongruent
<1>5. SumFunctionOnSet(f, S) \in Nat
  BY SumType
<1>6. g[e] \in Nat
  OBVIOUS
<1>7. QED
  BY <1>2, <1>3, <1>4, <1>5, <1>6 DEF SumFunction, Adds

-----------------------------------------------------------------------------
(* Congruence *)

(* Congruence modulo p. *)
Cong(p, a, b) == \E k \in Int : a = b + p * k

(* Division with remainder. *)
LEMMA DivMod ==
  ASSUME NEW p \in Nat \ {0}, NEW a \in Int
  PROVE  /\ a % p \in 0..p - 1
         /\ a \div p \in Int
         /\ a = p * (a \div p) + (a % p)
OBVIOUS

(* A number is congruent to its remainder. *)
LEMMA CongRem ==
  ASSUME NEW p \in Nat \ {0}, NEW a \in Int
  PROVE  a % p \in Int /\ a % p \in 0..p - 1 /\ Cong(p, a % p, a) /\ Cong(p, a, a % p)
<1>1. /\ a % p \in 0..p - 1 /\ a \div p \in Int
      /\ a = p * (a \div p) + (a % p)
  BY DivMod
<1>2. /\ a % p \in Int /\ -(a \div p) \in Int
      /\ a % p = a + p * (-(a \div p)) /\ a = (a % p) + p * (a \div p)
  BY <1>1
<1>3. QED
  BY <1>1, <1>2 DEF Cong

(* Congruence is an equivalence, *)
LEMMA CongRefl ==
  ASSUME NEW p \in Nat, NEW a \in Int
  PROVE  Cong(p, a, a)
BY a = a + p * 0 DEF Cong

(* symmetric *)
LEMMA CongSym ==
  ASSUME NEW p \in Nat, NEW a \in Int, NEW b \in Int, Cong(p, a, b)
  PROVE  Cong(p, b, a)
<1>1. PICK k \in Int : a = b + p * k
  BY DEF Cong
<1>2. -k \in Int /\ b = a + p * (-k)
  BY <1>1
<1>3. QED
  BY <1>2 DEF Cong

(* and transitive, *)
LEMMA CongTrans ==
  ASSUME NEW p \in Nat, NEW a \in Int, NEW b \in Int, NEW c \in Int,
         Cong(p, a, b), Cong(p, b, c)
  PROVE  Cong(p, a, c)
<1>1. PICK k \in Int : a = b + p * k
  BY DEF Cong
<1>2. PICK l \in Int : b = c + p * l
  BY DEF Cong
<1>3. k + l \in Int /\ a = c + p * (k + l)
  BY <1>1, <1>2
<1>4. QED
  BY <1>3 DEF Cong

(* that sums *)
LEMMA CongAdd ==
  ASSUME NEW p \in Nat, NEW a \in Int, NEW b \in Int, NEW c \in Int, NEW d \in Int,
         Cong(p, a, b), Cong(p, c, d)
  PROVE  Cong(p, a + c, b + d)
<1>1. PICK k \in Int : a = b + p * k
  BY DEF Cong
<1>2. PICK l \in Int : c = d + p * l
  BY DEF Cong
<1>3. k + l \in Int /\ a + c = (b + d) + p * (k + l)
  BY <1>1, <1>2
<1>4. QED
  BY <1>3 DEF Cong

(* and products respect. *)
LEMMA CongMul ==
  ASSUME NEW p \in Nat, NEW a \in Int, NEW b \in Int, NEW c \in Int, NEW d \in Int,
         Cong(p, a, b), Cong(p, c, d)
  PROVE  Cong(p, a * c, b * d)
<1>1. PICK k \in Int : a = b + p * k
  BY DEF Cong
<1>2. PICK l \in Int : c = d + p * l
  BY DEF Cong
<1>3. b * l + d * k + p * k * l \in Int
  OBVIOUS
<1>4. a * c = b * d + p * (b * l + d * k + p * k * l)
  BY <1>1, <1>2
<1>5. QED
  BY <1>3, <1>4 DEF Cong

(* Congruent remainders are equal, *)
LEMMA CongSame ==
  ASSUME NEW p \in Nat \ {0}, NEW a \in 0..p - 1, NEW b \in 0..p - 1, Cong(p, a, b)
  PROVE  a = b
<1>1. PICK k \in Int : a = b + p * k
  BY DEF Cong
<1>2. CASE k = 0
  BY <1>1, <1>2
<1>3. CASE k >= 1
  <2>1. p * k >= p
    BY <1>3
  <2>2. QED
    BY <1>1, <2>1
<1>4. CASE k <= -1
  <2>1. p * k <= -p
    BY <1>4
  <2>2. QED
    BY <1>1, <2>1
<1>5. QED
  BY <1>2, <1>3, <1>4

(* so congruent numbers have one remainder. *)
LEMMA CongMod ==
  ASSUME NEW p \in Nat \ {0}, NEW a \in Int, NEW b \in Int, Cong(p, a, b)
  PROVE  a % p = b % p
<1>1. /\ a % p \in Int /\ a % p \in 0..p - 1 /\ Cong(p, a % p, a)
      /\ b % p \in Int /\ b % p \in 0..p - 1 /\ Cong(p, b, b % p)
  BY CongRem
<1>2. Cong(p, a % p, b)
  BY <1>1, CongTrans
<1>3. Cong(p, a % p, b % p)
  BY <1>1, <1>2, CongTrans
<1>4. QED
  BY <1>1, <1>3, CongSame

(* A multiple of congruent numbers. *)
LEMMA CongScale ==
  ASSUME NEW p \in Nat, NEW a \in Int, NEW b \in Int, NEW c \in Int, Cong(p, a, b)
  PROVE  Cong(p, c * a, c * b)
BY CongMul, CongRefl

(* A recursion in steps: the function it chooses exists. *)
IsSteps(g, n, S, x, step) ==
  g \in [0..n -> S] /\ g[0] = x /\ \A i \in 1..n : g[i] = step[i][g[i - 1]]

(* Steps that stay in a set have a function that names them. *)
LEMMA StepsExist ==
  ASSUME NEW n \in Nat, NEW S, NEW x \in S, NEW step,
         \A i \in 1..n : step[i] \in [S -> S]
  PROVE  \E g : IsSteps(g, n, S, x, step)
<1> DEFINE Runs(g, m) == /\ g \in [0..m -> S] /\ g[0] = x
                         /\ \A i \in 1..m : g[i] = step[i][g[i - 1]]
           Bad == {m \in 0..n : ~ \E g : Runs(g, m)}
<1>1. SUFFICES ASSUME Bad # {} PROVE FALSE
  <2>1. n \in 0..n
    OBVIOUS
  <2>2. QED
    BY <1>1, <2>1 DEF IsSteps
<1>2. PICK m \in Bad : \A j \in Bad : m <= j
  <2>1. Bad \in SUBSET Nat
    OBVIOUS
  <2> HIDE DEF Bad
  <2>2. QED
    BY <1>1, <2>1, LeastNatural
<1>3. CASE m = 0
  <2>1. Runs([i \in 0..0 |-> x], 0)
    OBVIOUS
  <2>2. QED
    BY <1>2, <1>3, <2>1
<1>4. CASE m # 0
  <2>1. m \in 1..n /\ m - 1 \in 0..n /\ ~ (m <= m - 1)
    BY <1>4
  <2>2. PICK g : Runs(g, m - 1)
    BY <1>2, <2>1
  <2> DEFINE h == [i \in 0..m |-> IF i = m THEN step[m][g[m - 1]] ELSE g[i]]
  <2>3. g \in [0..m - 1 -> S] /\ m - 1 \in 0..m - 1
    BY <2>1, <2>2
  <2>4. g[m - 1] \in S /\ step[m] \in [S -> S]
    BY <2>1, <2>3
  <2>5. step[m][g[m - 1]] \in S
    BY <2>4
  <2>6. ASSUME NEW i \in 0..m PROVE h[i] \in S
    <3>1. CASE i = m
      BY <2>5, <3>1
    <3>2. CASE i # m
      BY <2>1, <2>3, <3>2
    <3>3. QED
      BY <3>1, <3>2
  <2>7. ASSUME NEW i \in 1..m PROVE h[i] = step[i][h[i - 1]]
    <3>1. i - 1 \in 0..m /\ i - 1 # m /\ i \in 0..m
      BY <2>1
    <3>2. h[i - 1] = g[i - 1]
      BY <3>1
    <3>3. CASE i = m
      BY <3>1, <3>2, <3>3
    <3>4. CASE i # m
      <4>1. i \in 1..m - 1
        BY <2>1, <3>4
      <4>2. g[i] = step[i][g[i - 1]]
        BY <2>2, <4>1
      <4>3. QED
        BY <3>1, <3>2, <3>4, <4>2
    <3>5. QED
      BY <3>3, <3>4
  <2>8. h[0] = x
    BY <2>1, <2>2
  <2>9. h \in [0..m -> S]
    BY <2>6
  <2>10. Runs(h, m)
    BY <2>7, <2>8, <2>9
  <2>11. QED
    BY <1>2, <2>10
<1>5. QED
  BY <1>3, <1>4

(* What every step keeps in a set stays there. *)
LEMMA StepsStay ==
  ASSUME NEW n \in Nat, NEW S, NEW f, f[0] \in S,
         \A i \in 1..n : f[i - 1] \in S => f[i] \in S
  PROVE  \A i \in 0..n : f[i] \in S
<1> DEFINE Bad == {i \in 0..n : f[i] \notin S}
<1>1. SUFFICES ASSUME Bad # {} PROVE FALSE
  BY <1>1
<1>2. PICK i \in Bad : \A j \in Bad : i <= j
  <2>1. Bad \in SUBSET Nat
    OBVIOUS
  <2> HIDE DEF Bad
  <2>2. QED
    BY <1>1, <2>1, LeastNatural
<1>3. i # 0
  BY <1>2
<1>4. i \in 1..n /\ i - 1 \in 0..n /\ ~ (i <= i - 1)
  BY <1>3
<1>5. f[i - 1] \in S
  BY <1>2, <1>4
<1>6. QED
  BY <1>4, <1>5

-----------------------------------------------------------------------------
(* Sums of the first n terms *)

IsTotals(s, t, n) ==
  s \in [0..n -> Int] /\ s[0] = 0 /\ \A i \in 1..n : s[i] = s[i - 1] + t[i]

SumTo(t, n) == (CHOOSE s : IsTotals(s, t, n))[n]

Terms(t, n) == \A i \in 1..n : t[i] \in Int

(* The partial sums of terms exist, *)
LEMMA TotalsExist ==
  ASSUME NEW n \in Nat, NEW t, Terms(t, n)
  PROVE  \E s : IsTotals(s, t, n)
<1> DEFINE step == [i \in 1..n |-> [y \in Int |-> y + t[i]]]
<1>1. \A i \in 1..n : step[i] \in [Int -> Int]
  BY DEF Terms
<1> HIDE DEF step
<1>2. PICK s : IsSteps(s, n, Int, 0, step)
  <2>1. 0 \in Int
    OBVIOUS
  <2>2. QED
    BY <1>1, <2>1, StepsExist
<1>3. ASSUME NEW i \in 1..n PROVE s[i] = s[i - 1] + t[i]
  <2>1. i - 1 \in 0..n
    OBVIOUS
  <2>2. s[i - 1] \in Int
    BY <1>2, <2>1 DEF IsSteps
  <2>3. QED
    BY <1>2, <2>2 DEF step, IsSteps
<1>4. QED
  BY <1>2, <1>3 DEF IsTotals, IsSteps

(* and one list of terms has one list of them. *)
LEMMA TotalsUnique ==
  ASSUME NEW n \in Nat, NEW m \in 0..n, NEW t, Terms(t, n),
         NEW s, IsTotals(s, t, n), NEW r, IsTotals(r, t, m)
  PROVE  \A i \in 0..m : s[i] = r[i]
<1> DEFINE Bad == {i \in 0..m : s[i] # r[i]}
<1>1. SUFFICES ASSUME Bad # {} PROVE FALSE
  OBVIOUS
<1>2. PICK i \in Bad : \A j \in Bad : i <= j
  <2>1. Bad \in SUBSET Nat
    OBVIOUS
  <2> HIDE DEF Bad
  <2>2. QED
    BY <1>1, <2>1, LeastNatural
<1>3. i # 0
  BY DEF IsTotals
<1>4. i \in 1..m /\ i \in 1..n /\ i - 1 \in 0..m /\ ~ (i <= i - 1)
  BY <1>3
<1>5. s[i - 1] = r[i - 1]
  BY <1>2, <1>4
<1>6. QED
  BY <1>4, <1>5 DEF IsTotals

(* A sum is that of one term less and the last term. *)
LEMMA SumToIs ==
  ASSUME NEW n \in Nat, NEW t, Terms(t, n)
  PROVE  /\ SumTo(t, n) \in Int
         /\ SumTo(t, 0) = 0
         /\ n # 0 => /\ Terms(t, n - 1) /\ SumTo(t, n - 1) \in Int
                     /\ SumTo(t, n) = SumTo(t, n - 1) + t[n]
<1>1. PICK s : IsTotals(s, t, n) /\ SumTo(t, n) = s[n]
  BY TotalsExist DEF SumTo
<1>2. SumTo(t, n) \in Int
  BY <1>1 DEF IsTotals
<1>3. SumTo(t, 0) = 0
  <2>1. Terms(t, 0) /\ 0 \in Nat
    BY DEF Terms
  <2>2. \E r : IsTotals(r, t, 0)
    BY <2>1, TotalsExist
  <2>3. QED
    BY <2>2 DEF SumTo, IsTotals
<1>4. ASSUME n # 0
      PROVE  /\ Terms(t, n - 1) /\ SumTo(t, n - 1) \in Int
             /\ SumTo(t, n) = SumTo(t, n - 1) + t[n]
  <2>1. n - 1 \in Nat /\ n - 1 \in 0..n /\ n \in 1..n /\ n - 1 \in 0..n - 1
    BY <1>4
  <2>2. Terms(t, n - 1)
    BY <2>1 DEF Terms
  <2>3. PICK r : IsTotals(r, t, n - 1) /\ SumTo(t, n - 1) = r[n - 1]
    BY <2>1, <2>2, TotalsExist DEF SumTo
  <2>4. s[n - 1] = r[n - 1]
    BY <1>1, <2>1, <2>3, TotalsUnique
  <2>5. r[n - 1] \in Int
    BY <2>1, <2>3 DEF IsTotals
  <2>6. QED
    BY <1>1, <2>1, <2>2, <2>3, <2>4, <2>5 DEF IsTotals
<1>5. QED
  BY <1>2, <1>3, <1>4

(* Sums are linear. *)
LEMMA SumToLinear ==
  ASSUME NEW p \in Nat, NEW n \in Nat, NEW t, NEW u, NEW v, NEW a \in Int, NEW b \in Int,
         Terms(t, n), Terms(u, n), Terms(v, n),
         \A i \in 1..n : Cong(p, v[i], a * t[i] + b * u[i])
  PROVE  Cong(p, SumTo(v, n), a * SumTo(t, n) + b * SumTo(u, n))
<1> DEFINE Good(m) == Cong(p, SumTo(v, m), a * SumTo(t, m) + b * SumTo(u, m))
           Bad == {m \in 0..n : ~ Good(m)}
<1>1. SUFFICES ASSUME Bad # {} PROVE FALSE
  <2>1. n \in 0..n
    OBVIOUS
  <2>2. QED
    BY <1>1, <2>1
<1>2. PICK m \in Bad : \A j \in Bad : m <= j
  <2>1. Bad \in SUBSET Nat
    OBVIOUS
  <2> HIDE DEF Bad
  <2>2. QED
    BY <1>1, <2>1, LeastNatural
<1>3. m \in Nat /\ Terms(t, m) /\ Terms(u, m) /\ Terms(v, m)
  BY DEF Terms
<1>4. m # 0
  <2>1. SumTo(t, 0) = 0 /\ SumTo(u, 0) = 0 /\ SumTo(v, 0) = 0
    BY <1>3, SumToIs
  <2>2. 0 = a * 0 + b * 0
    OBVIOUS
  <2>3. Cong(p, 0, 0)
    BY CongRefl
  <2>4. Good(0)
    BY <2>1, <2>2, <2>3
  <2>5. QED
    BY <1>2, <2>4
<1> DEFINE T == SumTo(t, m - 1)
           U == SumTo(u, m - 1)
           V == SumTo(v, m - 1)
<1>5. /\ T \in Int /\ SumTo(t, m) = T + t[m]
      /\ U \in Int /\ SumTo(u, m) = U + u[m]
      /\ V \in Int /\ SumTo(v, m) = V + v[m]
  BY <1>3, <1>4, SumToIs
<1>6. m \in 1..n /\ m - 1 \in 0..n /\ ~ (m <= m - 1)
  BY <1>4
<1>7. Cong(p, V, a * T + b * U)
  BY <1>2, <1>6
<1> HIDE DEF T, U, V
<1>8. Cong(p, v[m], a * t[m] + b * u[m]) /\ t[m] \in Int /\ u[m] \in Int /\ v[m] \in Int
  BY <1>6 DEF Terms
<1>9. Cong(p, V + v[m], (a * T + b * U) + (a * t[m] + b * u[m]))
  BY <1>5, <1>7, <1>8, CongAdd
<1>10. (a * T + b * U) + (a * t[m] + b * u[m]) = a * (T + t[m]) + b * (U + u[m])
  BY <1>5, <1>8
<1>11. Good(m)
  BY <1>5, <1>9, <1>10
<1>12. QED
  BY <1>2, <1>11

-----------------------------------------------------------------------------
(* Lagrange interpolation at zero *)

(* Weights for the points x[1], ..., x[n], no two of them equal modulo p:  *)
(* q[i][j] is -x[j] / (x[i] - x[j]), C[i][j] the product of the            *)
(* q[i][1], ..., q[i][j] without q[i][i].                                  *)
IsWeights(p, x, q, C, n) ==
  /\ \A i \in 1..n : x[i] \in Int
  /\ \A i, j \in 1..n : q[i][j] \in Int
  /\ \A i, j \in 1..n :
       i # j => /\ Cong(p, (x[i] - x[j]) * q[i][j], -x[j])
                /\ \E u \in Int : Cong(p, (x[i] - x[j]) * u, 1)
  /\ \A i \in 1..n : C[i][0] = 1
  /\ \A i \in 1..n, j \in 0..n : C[i][j] \in Int
  /\ \A i, j \in 1..n :
       C[i][j] = IF i = j THEN C[i][j - 1] ELSE C[i][j - 1] * q[i][j]

(* Fewer points have the same factors. *)
LEMMA FewerWeights ==
  ASSUME NEW p, NEW x, NEW q, NEW C, NEW n \in Nat, IsWeights(p, x, q, C, n),
         NEW m \in Nat, m <= n
  PROVE  IsWeights(p, x, q, C, m)
<1>1. (\A i \in 1..m : i \in 1..n) /\ (\A i \in 0..m : i \in 0..n)
  OBVIOUS
<1>2. QED
  BY <1>1 DEF IsWeights

(* The last factor of a weight, without its quotient. *)
LEMMA WeightStep ==
  ASSUME NEW p \in Nat, NEW x, NEW q, NEW C, NEW n \in Nat, n # 0,
         IsWeights(p, x, q, C, n), NEW i \in 1..n - 1
  PROVE  /\ x[i] \in Int /\ x[n] \in Int /\ C[i][n] \in Int /\ C[i][n - 1] \in Int
         /\ Cong(p, (x[i] - x[n]) * C[i][n], (-x[n]) * C[i][n - 1])
<1>1. i \in 1..n /\ n \in 1..n /\ i # n /\ n \in 0..n /\ n - 1 \in 0..n
  OBVIOUS
<1> DEFINE a == x[i]
           b == x[n]
           w == q[i][n]
           c == C[i][n - 1]
<1>2. /\ a \in Int /\ b \in Int /\ w \in Int /\ c \in Int /\ C[i][n] = c * w
      /\ Cong(p, (a - b) * w, -b) /\ C[i][n] \in Int
  BY <1>1 DEF IsWeights
<1> HIDE DEF a, b, w, c
<1>3. Cong(p, c * ((a - b) * w), c * (-b))
  <2>1. (a - b) * w \in Int /\ -b \in Int
    BY <1>2
  <2>2. QED
    BY <1>2, <2>1, CongScale
<1>4. c * ((a - b) * w) = (a - b) * (c * w) /\ c * (-b) = (-b) * c
  BY <1>2
<1>5. Cong(p, (a - b) * C[i][n], (-b) * c)
  BY <1>2, <1>3, <1>4
<1>6. QED
  BY <1>2, <1>5 DEF a, b, c

(* A factor x - x[n] takes the last point out. *)
LEMMA DropLast ==
  ASSUME NEW p \in Nat, NEW x, NEW q, NEW C, NEW n \in Nat, n # 0,
         IsWeights(p, x, q, C, n), NEW g, Terms(g, n)
  PROVE  Cong(p, SumTo([i \in 1..n |-> (x[i] - x[n]) * (C[i][n] * g[i])], n),
                 (-x[n]) * SumTo([i \in 1..n - 1 |-> C[i][n - 1] * g[i]], n - 1))
<1> DEFINE v == [i \in 1..n |-> (x[i] - x[n]) * (C[i][n] * g[i])]
           t == [i \in 1..n - 1 |-> C[i][n - 1] * g[i]]
           b == x[n]
<1>1. n - 1 \in Nat /\ n \in 1..n /\ n \in 0..n /\ n - 1 \in 0..n
      /\ \A i \in 1..n - 1 : i \in 1..n
  OBVIOUS
<1>2. b \in Int
  BY <1>1 DEF IsWeights
<1>3. Terms(v, n) /\ Terms(v, n - 1) /\ Terms(t, n - 1)
  BY <1>1 DEF IsWeights, Terms
<1>4. v[n] = 0
  <2>1. x[n] \in Int /\ C[n][n] \in Int /\ g[n] \in Int
    BY <1>1 DEF IsWeights, Terms
  <2>2. v[n] = (x[n] - x[n]) * (C[n][n] * g[n])
    BY <1>1
  <2> HIDE DEF v
  <2>3. QED
    BY <2>1, <2>2
<1>5. SumTo(v, n) = SumTo(v, n - 1) + v[n] /\ SumTo(v, n - 1) \in Int
  BY <1>3, SumToIs
<1>6. ASSUME NEW i \in 1..n - 1
      PROVE  Cong(p, v[i], (-b) * t[i] + 0 * t[i])
  <2> DEFINE c == C[i][n]
             d == C[i][n - 1]
             y == g[i]
             s == x[i] - b
  <2>1. /\ x[i] \in Int /\ b \in Int /\ c \in Int /\ d \in Int
        /\ Cong(p, s * c, (-b) * d)
    BY WeightStep
  <2>2. y \in Int /\ s \in Int
    BY <1>1, <2>1 DEF Terms
  <2>3. v[i] = s * (c * y) /\ t[i] = d * y
    BY <1>1
  <2> HIDE DEF c, d, y, s, v, t, b
  <2>4. Cong(p, y * (s * c), y * ((-b) * d))
    <3>1. s * c \in Int /\ (-b) * d \in Int
      BY <2>1, <2>2
    <3>2. QED
      BY <2>1, <2>2, <3>1, CongScale
  <2>5. y * (s * c) = s * (c * y) /\ y * ((-b) * d) = (-b) * (d * y) + 0 * (d * y)
    BY <2>1, <2>2
  <2>6. QED
    BY <2>3, <2>4, <2>5
<1> HIDE DEF v, t, b
<1>7. Cong(p, SumTo(v, n - 1), (-b) * SumTo(t, n - 1) + 0 * SumTo(t, n - 1))
  <2>1. -b \in Int /\ 0 \in Int
    BY <1>2
  <2>2. QED
    BY <1>1, <1>3, <1>6, <2>1, SumToLinear
<1>8. SumTo(t, n - 1) \in Int
  BY <1>1, <1>3, SumToIs
<1>9. (-b) * SumTo(t, n - 1) + 0 * SumTo(t, n - 1) = (-b) * SumTo(t, n - 1)
  BY <1>2, <1>8
<1>10. Cong(p, SumTo(v, n), (-b) * SumTo(t, n - 1))
  BY <1>4, <1>5, <1>7, <1>9
<1>11. QED
  BY <1>10 DEF v, t, b

Weights(C, n) == [i \in 1..n |-> C[i][n]]

(* The same factor for the last point but one. *)
LEMMA DropSecondLast ==
  ASSUME NEW p \in Nat, NEW x, NEW q, NEW C, NEW n \in Nat, n >= 2,
         IsWeights(p, x, q, C, n)
  PROVE  \E y, r, D :
           /\ IsWeights(p, y, r, D, n - 1)
           /\ Cong(p, SumTo([i \in 1..n |-> (x[i] - x[n - 1]) * C[i][n]], n),
                      (-x[n - 1]) * SumTo(Weights(D, n - 1), n - 1))
<1> DEFINE m == n - 1
           back(i) == IF i = m THEN n ELSE i
           y == [i \in 1..m |-> x[back(i)]]
           r == [i \in 1..m |-> [j \in 1..m |-> q[back(i)][back(j)]]]
           D == [i \in 1..m |-> [j \in 0..m |->
                   IF j = m /\ i # m THEN C[i][n - 2] * q[i][n]
                   ELSE IF j = m THEN C[n][n - 2] ELSE C[back(i)][j]]]
           v == [i \in 1..n |-> (x[i] - x[m]) * C[i][n]]
           t == Weights(D, m)
           a == x[m]
<1>1. /\ m \in Nat /\ m >= 1 /\ n = m + 1 /\ m \in 1..n /\ n \in 1..n /\ m # n
      /\ n - 2 = m - 1 /\ m - 1 \in Nat /\ m - 1 \in 0..n /\ n \in 0..n /\ m \in 0..n
      /\ \A i \in 1..m - 1 : i \in 1..m /\ i \in 1..n /\ i # m /\ i # n
      /\ \A i \in 1..m : back(i) \in 1..n
      /\ \A i, j \in 1..m : i # j => back(i) # back(j)
      /\ \A j \in 0..m : j # m => j \in 0..n
  OBVIOUS
<1> HIDE DEF m
<1>2. IsWeights(p, y, r, D, m)
  <2>1. ASSUME NEW i \in 1..m
        PROVE  /\ y[i] \in Int
               /\ D[i][0] = 1
    <3>1. y[i] \in Int
      BY <1>1 DEF IsWeights
    <3>2. D[i] = [j \in 0..m |->
                   IF j = m /\ i # m THEN C[i][n - 2] * q[i][n]
                   ELSE IF j = m THEN C[n][n - 2] ELSE C[back(i)][j]]
      OBVIOUS
    <3>3. 0 \in 0..m /\ 0 # m
      BY <1>1
    <3> HIDE DEF D
    <3>4. D[i][0] = C[back(i)][0]
      BY <3>2, <3>3
    <3>5. QED
      BY <1>1, <3>1, <3>4 DEF IsWeights
  <2>2. ASSUME NEW i \in 1..m, NEW j \in 1..m
        PROVE  /\ r[i][j] = q[back(i)][back(j)] /\ r[i][j] \in Int
               /\ i # j => /\ Cong(p, (y[i] - y[j]) * r[i][j], -y[j])
                           /\ \E u \in Int : Cong(p, (y[i] - y[j]) * u, 1)
    <3>1. r[i][j] = q[back(i)][back(j)] /\ y[i] = x[back(i)] /\ y[j] = x[back(j)]
      OBVIOUS
    <3>2. back(i) \in 1..n /\ back(j) \in 1..n /\ (i # j => back(i) # back(j))
      BY <1>1
    <3> HIDE DEF back, r, y
    <3>3. QED
      BY <3>1, <3>2 DEF IsWeights
  <2>3. ASSUME NEW i \in 1..m, NEW j \in 0..m PROVE D[i][j] \in Int
    <3>1. D[i][j] = IF j = m /\ i # m THEN C[i][n - 2] * q[i][n]
                   ELSE IF j = m THEN C[n][n - 2] ELSE C[back(i)][j]
      OBVIOUS
    <3>2. /\ C[n][n - 2] \in Int
          /\ i # m => C[i][n - 2] \in Int /\ q[i][n] \in Int
          /\ j # m => C[back(i)][j] \in Int
      BY <1>1 DEF IsWeights
    <3> HIDE DEF D, back
    <3>3. QED
      BY <3>1, <3>2
  <2>4. ASSUME NEW i \in 1..m, NEW j \in 1..m
        PROVE  D[i][j] = IF i = j THEN D[i][j - 1] ELSE D[i][j - 1] * r[i][j]
    <3>1. j - 1 \in 0..m /\ j \in 0..m /\ j - 1 # m
      BY <1>1
    <3>2. /\ D[i][j] = IF j = m /\ i # m THEN C[i][n - 2] * q[i][n]
                       ELSE IF j = m THEN C[n][n - 2] ELSE C[back(i)][j]
          /\ D[i][j - 1] = C[back(i)][j - 1]
          /\ r[i][j] = q[back(i)][back(j)]
      BY <3>1
    <3>3. /\ back(i) \in 1..n /\ back(j) \in 1..n
      BY <1>1
    <3>4. CASE j = m
      BY <1>1, <3>2, <3>4
    <3>5. CASE j # m
      <4>1. back(j) = j /\ (i = j <=> back(i) = j) /\ j \in 1..n
        BY <1>1, <3>5
      <4>2. C[back(i)][j] = IF back(i) = j THEN C[back(i)][j - 1]
                            ELSE C[back(i)][j - 1] * q[back(i)][j]
        BY <3>3, <4>1 DEF IsWeights
      <4> HIDE DEF D, back, r
      <4>3. QED
        BY <3>2, <3>5, <4>1, <4>2
    <3>6. QED
      BY <3>4, <3>5
  <2> HIDE DEF y, r, D
  <2>5. QED
    BY <2>1, <2>2, <2>3, <2>4 DEF IsWeights
<1>3. Terms(t, m) /\ Terms(t, m - 1)
  <2>1. ASSUME NEW i \in 1..m PROVE t[i] \in Int
    <3>1. t[i] = D[i][m] /\ m \in 0..m
      BY <1>1 DEF Weights
    <3> HIDE DEF D, t
    <3>2. QED
      BY <1>2, <3>1 DEF IsWeights
  <2>2. QED
    BY <1>1, <2>1 DEF Terms
<1>4. a \in Int /\ Terms(v, n) /\ Terms(v, m) /\ Terms(v, m - 1)
  <2>1. a \in Int
    BY <1>1 DEF IsWeights
  <2>2. ASSUME NEW i \in 1..n PROVE v[i] \in Int
    <3>1. v[i] = (x[i] - a) * C[i][n] /\ x[i] \in Int /\ C[i][n] \in Int
      BY <1>1 DEF IsWeights
    <3> HIDE DEF v, a
    <3>2. QED
      BY <2>1, <3>1
  <2>3. \A i \in 1..m : i \in 1..n
    BY <1>1
  <2> HIDE DEF v, a
  <2>4. QED
    BY <1>1, <2>1, <2>2, <2>3 DEF Terms
<1>5. SumTo(v, n) = SumTo(v, m - 1) + v[m] + v[n]
      /\ SumTo(v, m - 1) \in Int /\ v[m] \in Int /\ v[n] \in Int
  <2> HIDE DEF v
  <2>1. SumTo(v, n) = SumTo(v, m) + v[n] /\ SumTo(v, m) = SumTo(v, m - 1) + v[m]
        /\ SumTo(v, m - 1) \in Int
    <3>1. n # 0 /\ n - 1 = m /\ m # 0
      BY <1>1
    <3>2. SumTo(v, n) = SumTo(v, n - 1) + v[n]
      BY <1>4, <3>1, SumToIs
    <3>3. SumTo(v, m) = SumTo(v, m - 1) + v[m] /\ SumTo(v, m - 1) \in Int
      BY <1>1, <1>4, <3>1, SumToIs
    <3>4. QED
      BY <3>1, <3>2, <3>3
  <2>2. v[m] \in Int /\ v[n] \in Int
    BY <1>1, <1>4 DEF Terms
  <2>3. QED
    BY <2>1, <2>2
<1>6. SumTo(t, m) = SumTo(t, m - 1) + t[m]
      /\ SumTo(t, m - 1) \in Int /\ t[m] \in Int /\ SumTo(t, m) \in Int
  <2> HIDE DEF t
  <2>1. m # 0 /\ m \in 1..m
    BY <1>1
  <2>2. QED
    BY <1>1, <1>3, <2>1, SumToIs DEF Terms
<1>7. v[m] = 0
  <2>1. v[m] = (x[m] - x[m]) * C[m][n] /\ x[m] \in Int /\ C[m][n] \in Int
    BY <1>1 DEF IsWeights
  <2> HIDE DEF v
  <2>2. QED
    BY <2>1
<1>8. Cong(p, v[n], (-a) * t[m])
  <2> DEFINE c == C[n][m - 1]
             w == q[n][m]
             s == x[n] - a
  <2>1. v[n] = s * C[n][n] /\ t[m] = c
    BY <1>1 DEF Weights
  <2>2. C[n][n] = C[n][m] /\ C[n][m] = c * w
    BY <1>1 DEF IsWeights
  <2>3. x[n] \in Int /\ a \in Int /\ c \in Int /\ w \in Int /\ Cong(p, s * w, -a)
    BY <1>1 DEF IsWeights
  <2>4. s \in Int
    BY <2>3
  <2> HIDE DEF c, w, s, v, t, a
  <2>5. Cong(p, c * (s * w), c * (-a))
    <3>1. s * w \in Int /\ -a \in Int
      BY <2>3, <2>4
    <3>2. QED
      BY <2>3, <2>4, <3>1, CongScale
  <2>6. c * (s * w) = s * (c * w) /\ c * (-a) = (-a) * c
    BY <2>3, <2>4
  <2>7. QED
    BY <2>1, <2>2, <2>5, <2>6
<1>9. ASSUME NEW i \in 1..m - 1
      PROVE  Cong(p, v[i], (-a) * t[i] + 0 * t[i])
  <2> DEFINE c == C[i][m - 1]
             w == q[i][m]
             z == q[i][n]
             s == x[i] - a
  <2>0. i \in 1..m /\ i \in 1..n /\ i # m /\ i # n
    BY <1>1
  <2>1. v[i] = s * C[i][n] /\ t[i] = c * z
    <3>1. t[i] = D[i][m]
      BY <2>0 DEF Weights
    <3>2. D[i][m] = C[i][n - 2] * q[i][n]
      BY <1>1, <2>0
    <3>3. QED
      BY <1>1, <2>0, <3>1, <3>2
  <2>2. C[i][n] = C[i][m] * z /\ C[i][m] = c * w
    BY <1>1, <2>0 DEF IsWeights
  <2>3. /\ x[i] \in Int /\ a \in Int /\ c \in Int /\ w \in Int /\ z \in Int
        /\ Cong(p, s * w, -a)
    BY <1>1, <2>0 DEF IsWeights
  <2>4. s \in Int /\ c * z \in Int
    BY <2>3
  <2> HIDE DEF c, w, z, s, v, t, a
  <2>5. Cong(p, (c * z) * (s * w), (c * z) * (-a))
    <3>1. s * w \in Int /\ -a \in Int
      BY <2>3, <2>4
    <3>2. QED
      BY <2>3, <2>4, <3>1, CongScale
  <2>6. (c * z) * (s * w) = s * ((c * w) * z) /\ (c * z) * (-a) = (-a) * (c * z) + 0 * (c * z)
    BY <2>3, <2>4
  <2>7. QED
    BY <2>1, <2>2, <2>5, <2>6
<1> HIDE DEF v, t, a, D, y, r
<1>10. Cong(p, SumTo(v, m - 1), (-a) * SumTo(t, m - 1) + 0 * SumTo(t, m - 1))
  <2>1. -a \in Int /\ 0 \in Int /\ m - 1 \in Nat
    BY <1>1, <1>4
  <2>2. QED
    BY <1>3, <1>4, <1>9, <2>1, SumToLinear
<1>11. Cong(p, SumTo(v, m - 1) + v[n], ((-a) * SumTo(t, m - 1) + 0 * SumTo(t, m - 1))
                                         + (-a) * t[m])
  <2>1. /\ (-a) * SumTo(t, m - 1) + 0 * SumTo(t, m - 1) \in Int
        /\ (-a) * t[m] \in Int
    BY <1>4, <1>6
  <2>2. QED
    BY <1>5, <1>8, <1>10, <2>1, CongAdd
<1>12. /\ SumTo(v, n) = SumTo(v, m - 1) + v[n]
       /\ ((-a) * SumTo(t, m - 1) + 0 * SumTo(t, m - 1)) + (-a) * t[m] = (-a) * SumTo(t, m)
  BY <1>4, <1>5, <1>6, <1>7
<1>13. Cong(p, SumTo(v, n), (-a) * SumTo(t, m))
  BY <1>11, <1>12
<1>14. QED
  BY <1>2, <1>13 DEF v, t, a, m

(* What a unit multiplies can be compared without it. *)
LEMMA CongCancel ==
  ASSUME NEW p \in Nat, NEW a \in Int, NEW b \in Int, NEW c \in Int, NEW u \in Int,
         Cong(p, c * u, 1), Cong(p, c * a, c * b)
  PROVE  Cong(p, a, b)
<1>1. PICK k \in Int : c * u = 1 + p * k
  BY DEF Cong
<1>2. PICK l \in Int : c * a = c * b + p * l
  BY DEF Cong
<1>3. u * (c * a) = u * (c * b) + u * (p * l)
  BY <1>2
<1>4. u * (c * a) = (c * u) * a /\ u * (c * b) = (c * u) * b
  OBVIOUS
<1>5. (1 + p * k) * a = (1 + p * k) * b + u * (p * l)
  BY <1>1, <1>3, <1>4
<1>6. a = b + p * (u * l + k * b - k * a)
  BY <1>5
<1>7. u * l + k * b - k * a \in Int
  OBVIOUS
<1>8. QED
  BY <1>6, <1>7 DEF Cong

(* The weights add up to one. *)
LEMMA WeightsSumToOne ==
  ASSUME NEW p \in Nat, NEW n \in Nat, n # 0, NEW x, NEW q, NEW C,
         IsWeights(p, x, q, C, n)
  PROVE  Cong(p, SumTo(Weights(C, n), n), 1)
<1> DEFINE Bad == {m \in Nat \ {0} : \E y, r, D :
                     /\ IsWeights(p, y, r, D, m)
                     /\ ~ Cong(p, SumTo(Weights(D, m), m), 1)}
<1>1. SUFFICES ASSUME Bad # {} PROVE FALSE
  <2>1. n \in Nat \ {0}
    OBVIOUS
  <2>2. QED
    BY <1>1, <2>1
<1>2. PICK m \in Bad : \A j \in Bad : m <= j
  <2>1. Bad \in SUBSET Nat
    OBVIOUS
  <2> HIDE DEF Bad
  <2>2. QED
    BY <1>1, <2>1, LeastNatural
<1>3. PICK y, r, D : /\ IsWeights(p, y, r, D, m)
                     /\ ~ Cong(p, SumTo(Weights(D, m), m), 1)
  BY <1>2
<1>4. m \in Nat /\ m # 0
  BY <1>2
<1>5. ASSUME NEW z, NEW s, NEW E, IsWeights(p, z, s, E, m - 1), m # 1
      PROVE  Cong(p, SumTo(Weights(E, m - 1), m - 1), 1)
  <2>1. m - 1 \in Nat \ {0} /\ ~ (m <= m - 1)
    BY <1>4, <1>5
  <2>2. m - 1 \notin Bad
    BY <1>2, <2>1
  <2>3. QED
    BY <1>5, <2>1, <2>2
<1> HIDE DEF Bad
<1> DEFINE w == Weights(D, m)
           W == SumTo(w, m)
<1>6. /\ \A i \in 1..m : w[i] = D[i][m]
      /\ Terms(w, m) /\ W \in Int
  <2>1. \A i \in 1..m : w[i] = D[i][m] /\ w[i] \in Int
    BY <1>3, <1>4 DEF Weights, IsWeights
  <2>2. Terms(w, m)
    BY <2>1 DEF Terms
  <2> HIDE DEF w
  <2>3. QED
    BY <1>4, <2>1, <2>2, SumToIs
<1>7. CASE m = 1
  <2>1. w[1] = 1
    <3>1. 1 \in 1..m /\ 1 - 1 = 0
      BY <1>7
    <3>2. D[1][1] = D[1][1 - 1] /\ D[1][0] = 1
      BY <1>3, <3>1 DEF IsWeights
    <3>3. QED
      BY <1>6, <1>7, <3>1, <3>2
  <2>2. W = SumTo(w, m - 1) + w[m] /\ SumTo(w, 0) = 0
    BY <1>4, <1>6, SumToIs
  <2>3. W = 1
    BY <1>7, <2>1, <2>2
  <2>4. QED
    BY <1>3, <1>4, <2>3, CongRefl
<1>8. CASE m # 1
  <2> DEFINE a == y[m - 1]
             b == y[m]
             u == [i \in 1..m |-> y[i] * D[i][m]]
             U == SumTo(u, m)
             va == [i \in 1..m |-> (y[i] - a) * D[i][m]]
             vb == [i \in 1..m |-> (y[i] - b) * (D[i][m] * [j \in 1..m |-> 1][i])]
             VA == SumTo(va, m)
             VB == SumTo(vb, m)
  <2>1. m - 1 \in Nat /\ m - 1 # 0 /\ m >= 2 /\ m \in 1..m /\ m - 1 \in 1..m
        /\ m - 1 # m
    BY <1>4, <1>8
  <2>2. a \in Int /\ b \in Int /\ \A i \in 1..m : y[i] \in Int /\ D[i][m] \in Int
    BY <1>3, <2>1 DEF IsWeights
  <2>3. Terms(u, m) /\ Terms(va, m) /\ Terms(vb, m)
    <3>1. \A i \in 1..m : u[i] \in Int /\ va[i] \in Int /\ vb[i] \in Int
      BY <2>2
    <3> HIDE DEF u, va, vb
    <3>2. QED
      BY <3>1 DEF Terms
  <2>4. Cong(p, VB, -b)
    <3> DEFINE g == [j \in 1..m |-> 1]
               t == [i \in 1..m - 1 |-> D[i][m - 1] * g[i]]
    <3>1. Terms(g, m)
      BY DEF Terms
    <3>2. Cong(p, VB, (-b) * SumTo(t, m - 1))
      <4>1. IsWeights(p, y, r, D, m) /\ m \in Nat /\ m # 0 /\ Terms(g, m)
        BY <1>3, <1>4, <3>1
      <4> HIDE DEF g
      <4>2. Cong(p, SumTo([i \in 1..m |-> (y[i] - y[m]) * (D[i][m] * g[i])], m),
                    (-y[m]) * SumTo([i \in 1..m - 1 |-> D[i][m - 1] * g[i]], m - 1))
        BY <4>1, DropLast
      <4>3. QED
        BY <4>2 DEF g
    <3>3. t = Weights(D, m - 1)
      <4>1. \A i \in 1..m - 1 : D[i][m - 1] \in Int /\ i \in 1..m
        BY <1>3, <2>1 DEF IsWeights
      <4>2. \A i \in 1..m - 1 : t[i] = D[i][m - 1]
        BY <4>1
      <4>3. QED
        BY <4>2 DEF Weights
    <3>4. IsWeights(p, y, r, D, m - 1)
      <4>1. m - 1 <= m
        BY <2>1
      <4>2. QED
        BY <1>3, <1>4, <2>1, <4>1, FewerWeights
    <3> HIDE DEF t
    <3>5. Cong(p, SumTo(t, m - 1), 1)
      BY <1>5, <1>8, <3>3, <3>4
    <3>6. SumTo(t, m - 1) \in Int
      <4>1. Terms(t, m - 1)
        <5>1. \A i \in 1..m - 1 : t[i] = D[i][m - 1]
          BY <3>3 DEF Weights
        <5>2. QED
          BY <2>1, <3>4, <5>1 DEF IsWeights, Terms
      <4>2. QED
        BY <2>1, <4>1, SumToIs
    <3> HIDE DEF VB, b
    <3>7. Cong(p, (-b) * SumTo(t, m - 1), (-b) * 1)
      <4> DEFINE d == -b
                 Y == SumTo(t, m - 1)
      <4>1. d \in Int /\ 1 \in Int /\ Y \in Int /\ Cong(p, Y, 1)
        BY <2>2, <3>5, <3>6
      <4> HIDE DEF d, Y
      <4>2. Cong(p, d * Y, d * 1)
        BY <4>1, CongScale
      <4>3. QED
        BY <4>2 DEF d, Y
    <3>8. VB \in Int /\ (-b) * SumTo(t, m - 1) \in Int /\ (-b) * 1 \in Int
          /\ (-b) * 1 = -b
      BY <1>4, <2>2, <2>3, <3>6, SumToIs DEF VB
    <3>9. QED
      BY <3>2, <3>7, <3>8, CongTrans
  <2>5. Cong(p, VA, -a)
    <3>1. PICK z, s, E :
             /\ IsWeights(p, z, s, E, m - 1)
             /\ Cong(p, VA, (-a) * SumTo(Weights(E, m - 1), m - 1))
      BY <1>3, <1>4, <2>1, DropSecondLast
    <3> DEFINE X == SumTo(Weights(E, m - 1), m - 1)
    <3>2. Cong(p, X, 1)
      BY <1>5, <1>8, <3>1
    <3>3. X \in Int
      <4>1. Terms(Weights(E, m - 1), m - 1)
        <5>1. m - 1 \in 0..m - 1
          BY <2>1
        <5>2. QED
          BY <3>1, <5>1 DEF IsWeights, Terms, Weights
      <4>2. QED
        BY <2>1, <4>1, SumToIs
    <3>4. VA \in Int
      BY <1>4, <2>3, SumToIs
    <3> HIDE DEF VA, X, a
    <3>5. Cong(p, VA, (-a) * X)
      BY <3>1 DEF X
    <3>6. Cong(p, (-a) * X, (-a) * 1)
      <4> DEFINE d == -a
      <4>1. d \in Int /\ 1 \in Int
        BY <2>2
      <4> HIDE DEF d
      <4>2. Cong(p, d * X, d * 1)
        BY <3>2, <3>3, <4>1, CongScale
      <4>3. QED
        BY <4>2 DEF d
    <3>7. (-a) * X \in Int /\ (-a) * 1 \in Int /\ (-a) * 1 = -a
      BY <2>2, <3>3
    <3>8. QED
      BY <3>4, <3>5, <3>6, <3>7, CongTrans
  <2>6. U \in Int /\ VA \in Int /\ VB \in Int
    BY <1>4, <2>3, SumToIs
  <2>7. Cong(p, VA, 1 * U + (-a) * W)
    <3>1. ASSUME NEW i \in 1..m PROVE Cong(p, va[i], 1 * u[i] + (-a) * w[i])
      <4>1. va[i] = (y[i] - a) * D[i][m] /\ u[i] = y[i] * D[i][m] /\ w[i] = D[i][m]
            /\ y[i] \in Int /\ D[i][m] \in Int
        BY <1>6, <2>2
      <4> HIDE DEF va, u, w, a
      <4>2. va[i] = 1 * u[i] + (-a) * w[i] /\ va[i] \in Int
        BY <2>2, <4>1
      <4>3. QED
        BY <4>2, CongRefl
    <3>2. 1 \in Int /\ -a \in Int
      BY <2>2
    <3> HIDE DEF va, u, w, a
    <3>3. QED
      BY <1>4, <1>6, <2>3, <3>1, <3>2, SumToLinear
  <2>8. Cong(p, VB, 1 * U + (-b) * W)
    <3>1. ASSUME NEW i \in 1..m PROVE Cong(p, vb[i], 1 * u[i] + (-b) * w[i])
      <4>1. vb[i] = (y[i] - b) * (D[i][m] * 1) /\ u[i] = y[i] * D[i][m] /\ w[i] = D[i][m]
            /\ y[i] \in Int /\ D[i][m] \in Int
        BY <1>6, <2>2
      <4> HIDE DEF vb, u, w, b
      <4>2. vb[i] = 1 * u[i] + (-b) * w[i] /\ vb[i] \in Int
        BY <2>2, <4>1
      <4>3. QED
        BY <4>2, CongRefl
    <3>2. 1 \in Int /\ -b \in Int
      BY <2>2
    <3> HIDE DEF vb, u, w, b
    <3>3. QED
      BY <1>4, <1>6, <2>3, <3>1, <3>2, SumToLinear
  <2>9. PICK c \in Int : Cong(p, (a - b) * c, 1)
    BY <1>3, <2>1 DEF IsWeights
  <2> HIDE DEF VA, VB, U, W, a, b
  <2>10. Cong(p, (a - b) * W, (a - b) * 1)
    <3>1. PICK k \in Int : VA = -a + p * k
      BY <2>5 DEF Cong
    <3>2. PICK l \in Int : VB = -b + p * l
      BY <2>4 DEF Cong
    <3>3. PICK h \in Int : VA = 1 * U + (-a) * W + p * h
      BY <2>7 DEF Cong
    <3>4. PICK j \in Int : VB = 1 * U + (-b) * W + p * j
      BY <2>8 DEF Cong
    <3>5. (a - b) * W = (a - b) * 1 + p * (l - k + h - j)
      BY <1>6, <2>2, <2>6, <3>1, <3>2, <3>3, <3>4
    <3>6. l - k + h - j \in Int
      OBVIOUS
    <3>7. QED
      BY <3>5, <3>6 DEF Cong
  <2>11. Cong(p, W, 1)
    <3>1. a - b \in Int /\ 1 \in Int
      BY <2>2
    <3>2. QED
      BY <1>6, <2>9, <2>10, <3>1, CongCancel
  <2>12. QED
    BY <1>3, <2>11 DEF W
<1>9. QED
  BY <1>7, <1>8

(* w[k][i] is the power k of x[i]. *)
IsPowers(p, x, w, n, m) ==
  /\ \A i \in 1..n : w[0][i] = 1
  /\ \A k \in 0..m, i \in 1..n : w[k][i] \in Int
  /\ \A k \in 1..m, i \in 1..n : Cong(p, w[k][i], w[k - 1][i] * x[i])

Weighted(C, y, n) == [i \in 1..n |-> C[i][n] * y[i]]

(* Weighted terms are terms. *)
LEMMA WeightedTerms ==
  ASSUME NEW p, NEW x, NEW q, NEW C, NEW n \in Nat, IsWeights(p, x, q, C, n),
         NEW y, Terms(y, n)
  PROVE  /\ Terms(Weighted(C, y, n), n)
         /\ SumTo(Weighted(C, y, n), n) \in Int
         /\ \A i \in 1..n : /\ Weighted(C, y, n)[i] = C[i][n] * y[i]
                            /\ C[i][n] \in Int /\ y[i] \in Int
<1>1. \A i \in 1..n : /\ Weighted(C, y, n)[i] = C[i][n] * y[i]
                      /\ C[i][n] \in Int /\ y[i] \in Int
  BY DEF IsWeights, Terms, Weighted
<1>2. Terms(Weighted(C, y, n), n)
  BY <1>1 DEF Terms
<1>3. QED
  BY <1>1, <1>2, SumToIs

(* A power below the number of points comes to its value at zero. *)
LEMMA PowersInterpolate ==
  ASSUME NEW p \in Nat, NEW N \in Nat, NEW x, NEW q, NEW C, IsWeights(p, x, q, C, N),
         NEW M \in Nat, NEW w, IsPowers(p, x, w, N, M)
  PROVE  \A n \in 1..N, m \in 0..M :
           m < n => Cong(p, SumTo(Weighted(C, w[m], n), n), IF m = 0 THEN 1 ELSE 0)
<1> DEFINE Good(n, m) ==
             Cong(p, SumTo(Weighted(C, w[m], n), n), IF m = 0 THEN 1 ELSE 0)
           Bad == {h \in Nat : \E n \in 1..N, m \in 0..M :
                     m < n /\ h = n + m /\ ~ Good(n, m)}
<1>1. SUFFICES ASSUME Bad # {} PROVE FALSE
  <2>1. \A n \in 1..N, m \in 0..M : n + m \in Nat
    OBVIOUS
  <2> HIDE DEF Good
  <2>2. \A n \in 1..N, m \in 0..M : m < n => Good(n, m)
    BY <1>1, <2>1
  <2>3. QED
    BY <2>2 DEF Good
<1>2. PICK h \in Bad : \A j \in Bad : h <= j
  <2>1. Bad \in SUBSET Nat
    OBVIOUS
  <2> HIDE DEF Bad
  <2>2. QED
    BY <1>1, <2>1, LeastNatural
<1> HIDE DEF Good
<1>3. PICK n \in 1..N, m \in 0..M : m < n /\ h = n + m /\ ~ Good(n, m)
  BY <1>2
<1>4. ASSUME NEW k \in 1..N, NEW l \in 0..M, l < k, k + l < n + m PROVE Good(k, l)
  <2>1. k + l \in Nat /\ ~ (h <= k + l)
    BY <1>3, <1>4
  <2>2. QED
    BY <1>2, <1>4, <2>1
<1> HIDE DEF Bad
<1>5. \A k \in 0..N : IsWeights(p, x, q, C, k)
  BY FewerWeights
<1>6. \A l \in 0..M, k \in 0..N : Terms(w[l], k)
  BY DEF IsPowers, Terms
<1>7. n \in Nat /\ n # 0 /\ m \in Nat
  BY <1>3
<1>8. CASE m = 0
  <2>1. Cong(p, SumTo(Weights(C, n), n), 1)
    BY <1>5, <1>7, WeightsSumToOne
  <2>2. ASSUME NEW i \in 1..n PROVE C[i][n] * w[0][i] = C[i][n]
    <3>1. i \in 1..N /\ n \in 0..N
      BY <1>7
    <3>2. C[i][n] \in Int /\ w[0][i] = 1
      BY <3>1 DEF IsWeights, IsPowers
    <3>3. QED
      BY <3>2
  <2>3. Weighted(C, w[0], n) = Weights(C, n)
    BY <2>2 DEF Weighted, Weights
  <2>4. QED
    BY <1>3, <1>8, <2>1, <2>3 DEF Good
<1>9. CASE m # 0
  <2> DEFINE b == x[n]
             g == w[m - 1]
             t == Weighted(C, g, n)
             d == [i \in 1..n |-> (x[i] - x[n]) * (C[i][n] * g[i])]
             e == Weighted(C, g, n - 1)
             v == Weighted(C, w[m], n)
             T == SumTo(t, n)
             E == SumTo(e, n - 1)
             one == IF m = 1 THEN 1 ELSE 0
  <2>1. /\ m - 1 \in 0..M /\ n - 1 \in 1..N /\ n - 1 \in 0..N /\ n \in 0..N
        /\ m - 1 < n - 1 /\ m - 1 < n /\ n - 1 \in Nat
        /\ (n - 1) + (m - 1) < n + m /\ n + (m - 1) < n + m /\ m \in 1..M
    BY <1>3, <1>7, <1>9
  <2>2. Cong(p, E, one)
    <3>1. Good(n - 1, m - 1)
      BY <1>4, <2>1
    <3>2. (m - 1 = 0) <=> (m = 1)
      BY <1>7
    <3>3. QED
      BY <3>1, <3>2 DEF Good
  <2>3. Cong(p, T, one)
    <3>1. Good(n, m - 1)
      BY <1>4, <2>1
    <3>2. (m - 1 = 0) <=> (m = 1)
      BY <1>7
    <3>3. QED
      BY <3>1, <3>2 DEF Good
  <2>4. /\ IsWeights(p, x, q, C, n) /\ IsWeights(p, x, q, C, n - 1)
        /\ Terms(g, n) /\ Terms(g, n - 1) /\ Terms(w[m], n)
    BY <1>3, <1>5, <1>6, <2>1
  <2> HIDE DEF g
  <2>5. /\ Terms(t, n) /\ T \in Int
        /\ \A i \in 1..n : t[i] = C[i][n] * g[i] /\ C[i][n] \in Int /\ g[i] \in Int
    BY <1>7, <2>4, WeightedTerms
  <2>6. /\ E \in Int
        /\ \A i \in 1..n - 1 : e[i] = C[i][n - 1] * g[i]
    BY <2>1, <2>4, WeightedTerms
  <2>7. /\ Terms(v, n) /\ SumTo(v, n) \in Int
        /\ \A i \in 1..n : v[i] = C[i][n] * w[m][i] /\ w[m][i] \in Int
    BY <1>7, <2>4, WeightedTerms
  <2>8. b \in Int /\ \A i \in 1..n : x[i] \in Int
    BY <1>7, <2>4 DEF IsWeights
  <2>9. Cong(p, SumTo(d, n), (-b) * E)
    <3>1. Cong(p, SumTo(d, n), (-x[n]) * SumTo([i \in 1..n - 1 |-> C[i][n - 1] * g[i]], n - 1))
      BY <1>7, <2>4, DropLast
    <3>2. QED
      BY <3>1 DEF Weighted
  <2>10. Terms(d, n)
    <3>1. ASSUME NEW i \in 1..n PROVE d[i] \in Int
      <4>1. d[i] = (x[i] - b) * (C[i][n] * g[i])
        OBVIOUS
      <4> HIDE DEF d, b
      <4>2. QED
        BY <2>5, <2>8, <4>1
    <3> HIDE DEF d
    <3>2. QED
      BY <3>1 DEF Terms
  <2>11. ASSUME NEW i \in 1..n PROVE Cong(p, v[i], 1 * d[i] + b * t[i])
    <3> DEFINE c == C[i][n]
               y == g[i]
               z == w[m][i]
    <3>1. /\ v[i] = c * z /\ d[i] = (x[i] - b) * (c * y) /\ t[i] = c * y
          /\ c \in Int /\ y \in Int /\ z \in Int /\ x[i] \in Int
      BY <2>5, <2>7, <2>8
    <3>2. Cong(p, z, y * x[i])
      <4>1. i \in 1..N
        BY <1>7
      <4>2. QED
        BY <2>1, <4>1 DEF IsPowers, g
    <3> HIDE DEF c, y, z, v, d, t, b
    <3>3. Cong(p, c * z, c * (y * x[i]))
      <4>1. y * x[i] \in Int
        BY <3>1
      <4>2. QED
        BY <3>1, <3>2, <4>1, CongScale
    <3>4. c * (y * x[i]) = 1 * ((x[i] - b) * (c * y)) + b * (c * y)
      BY <2>8, <3>1
    <3>5. QED
      BY <3>1, <3>3, <3>4
  <2> HIDE DEF v, d, t, e, b, one
  <2>12. Cong(p, SumTo(v, n), 1 * SumTo(d, n) + b * SumTo(t, n))
    <3>1. 1 \in Int
      OBVIOUS
    <3>2. QED
      BY <1>7, <2>5, <2>7, <2>8, <2>10, <2>11, <3>1, SumToLinear
  <2> HIDE DEF T, E
  <2>13. Cong(p, SumTo(v, n), 0)
    <3>1. PICK k \in Int : SumTo(v, n) = 1 * SumTo(d, n) + b * T + p * k
      BY <2>12 DEF Cong, T
    <3>2. PICK l \in Int : SumTo(d, n) = (-b) * E + p * l
      BY <2>9 DEF Cong
    <3>3. PICK i \in Int : T = one + p * i
      BY <2>3 DEF Cong
    <3>4. PICK j \in Int : E = one + p * j
      BY <2>2 DEF Cong
    <3>5. one \in Int
      BY DEF one
    <3>6. SumTo(v, n) = 0 + p * (l + k + b * i - b * j)
      BY <2>8, <3>1, <3>2, <3>3, <3>4, <3>5
    <3>7. l + k + b * i - b * j \in Int
      BY <2>8
    <3>8. QED
      BY <3>6, <3>7 DEF Cong
  <2>14. QED
    BY <1>3, <1>9, <2>13 DEF Good, v
<1>10. QED
  BY <1>8, <1>9

(* So does a polynomial of fewer coefficients than points. *)
LEMMA PolynomialInterpolates ==
  ASSUME NEW p \in Nat, NEW n \in Nat, n # 0, NEW x, NEW q, NEW C,
         IsWeights(p, x, q, C, n),
         NEW m \in 0..n - 1, NEW w, IsPowers(p, x, w, n, m), NEW a, Terms(a, m),
         NEW s \in Int, NEW y, \A i \in 1..n : Cong(p, y[0][i], s),
         \A k \in 0..m : Terms(y[k], n),
         \A k \in 1..m, i \in 1..n : Cong(p, y[k][i], y[k - 1][i] + a[k] * w[k][i])
  PROVE  Cong(p, SumTo(Weighted(C, y[m], n), n), s)
<1> DEFINE Good(k) == Cong(p, SumTo(Weighted(C, y[k], n), n), s)
           Bad == {k \in 0..m : ~ Good(k)}
<1>1. SUFFICES ASSUME Bad # {} PROVE FALSE
  <2>1. m \in 0..m
    OBVIOUS
  <2>2. QED
    BY <1>1, <2>1
<1>2. PICK k \in Bad : \A j \in Bad : k <= j
  <2>1. Bad \in SUBSET Nat
    OBVIOUS
  <2> HIDE DEF Bad
  <2>2. QED
    BY <1>1, <2>1, LeastNatural
<1>3. \A j \in 0..m : Terms(w[j], n)
  BY DEF IsPowers, Terms
<1>4. \A j \in 0..m :
        j < n => Cong(p, SumTo(Weighted(C, w[j], n), n), IF j = 0 THEN 1 ELSE 0)
  <2>1. n \in 1..n
    OBVIOUS
  <2>2. m \in Nat
    OBVIOUS
  <2>3. QED
    BY <2>1, <2>2, PowersInterpolate
<1>5. k \in 0..m /\ ~ Good(k)
  BY <1>2
<1> DEFINE v == Weighted(C, y[k], n)
<1>6. /\ Terms(v, n) /\ SumTo(v, n) \in Int
      /\ \A i \in 1..n : v[i] = C[i][n] * y[k][i] /\ C[i][n] \in Int /\ y[k][i] \in Int
  BY <1>5, WeightedTerms
<1>7. CASE k = 0
  <2> DEFINE u == Weighted(C, w[0], n)
  <2>1. /\ Terms(u, n) /\ SumTo(u, n) \in Int
        /\ \A i \in 1..n : u[i] = C[i][n] * w[0][i]
    BY <1>3, <1>7, WeightedTerms
  <2>2. ASSUME NEW i \in 1..n PROVE Cong(p, v[i], s * u[i] + 0 * u[i])
    <3> DEFINE c == C[i][n]
               z == y[0][i]
    <3>1. u[i] = c * 1 /\ v[i] = c * z /\ c \in Int /\ z \in Int /\ Cong(p, z, s)
      <4>1. w[0][i] = 1
        BY DEF IsPowers
      <4>2. QED
        BY <1>6, <1>7, <2>1, <4>1
    <3> HIDE DEF c, z, u, v
    <3>2. Cong(p, c * z, c * s)
      BY <3>1, CongScale
    <3>3. c * s = s * (c * 1) + 0 * (c * 1)
      BY <3>1
    <3>4. QED
      BY <3>1, <3>2, <3>3
  <2>3. Cong(p, SumTo(u, n), 1)
    BY <1>4, <1>7
  <2> HIDE DEF u, v
  <2>4. Cong(p, SumTo(v, n), s * SumTo(u, n) + 0 * SumTo(u, n))
    <3>1. 0 \in Int
      OBVIOUS
    <3>2. QED
      BY <1>6, <2>1, <2>2, <3>1, SumToLinear
  <2>5. Cong(p, s * SumTo(u, n), s * 1)
    <3>1. 1 \in Int
      OBVIOUS
    <3>2. QED
      BY <2>1, <2>3, <3>1, CongScale
  <2>6. s * SumTo(u, n) + 0 * SumTo(u, n) = s * SumTo(u, n)
        /\ s * 1 = s /\ s * SumTo(u, n) \in Int
    BY <2>1
  <2>7. Cong(p, SumTo(v, n), s)
    BY <1>6, <2>4, <2>5, <2>6, CongTrans
  <2>8. QED
    BY <1>5, <1>7, <2>7 DEF v
<1>8. CASE k # 0
  <2> DEFINE u == Weighted(C, y[k - 1], n)
             t == Weighted(C, w[k], n)
             A == a[k]
  <2>1. k \in 1..m /\ k - 1 \in 0..m /\ ~ (k <= k - 1) /\ k < n
    BY <1>5, <1>8
  <2>2. Cong(p, SumTo(u, n), s)
    BY <1>2, <2>1
  <2>3. /\ Terms(u, n) /\ SumTo(u, n) \in Int
        /\ \A i \in 1..n : u[i] = C[i][n] * y[k - 1][i] /\ y[k - 1][i] \in Int
    BY <2>1, WeightedTerms
  <2>4. /\ Terms(t, n) /\ SumTo(t, n) \in Int
        /\ \A i \in 1..n : t[i] = C[i][n] * w[k][i] /\ w[k][i] \in Int
    BY <1>3, <1>5, WeightedTerms
  <2>5. A \in Int
    BY <2>1 DEF Terms
  <2>6. ASSUME NEW i \in 1..n PROVE Cong(p, v[i], 1 * u[i] + A * t[i])
    <3> DEFINE c == C[i][n]
               z == y[k][i]
               h == y[k - 1][i]
               g == w[k][i]
    <3>1. /\ u[i] = c * h /\ t[i] = c * g /\ v[i] = c * z
          /\ c \in Int /\ z \in Int /\ h \in Int /\ g \in Int
          /\ Cong(p, z, h + A * g)
      BY <1>6, <2>1, <2>3, <2>4
    <3> HIDE DEF c, z, h, g, u, t, v, A
    <3>2. Cong(p, c * z, c * (h + A * g))
      <4>1. h + A * g \in Int
        BY <2>5, <3>1
      <4>2. QED
        BY <3>1, <4>1, CongScale
    <3>3. c * (h + A * g) = 1 * (c * h) + A * (c * g)
      BY <2>5, <3>1
    <3>4. QED
      BY <3>1, <3>2, <3>3
  <2>7. Cong(p, SumTo(t, n), 0)
    BY <1>4, <1>8, <1>5, <2>1
  <2> HIDE DEF u, t, v, A
  <2>8. Cong(p, SumTo(v, n), 1 * SumTo(u, n) + A * SumTo(t, n))
    <3>1. 1 \in Int
      OBVIOUS
    <3>2. QED
      BY <1>6, <2>3, <2>4, <2>5, <2>6, <3>1, SumToLinear
  <2>9. Cong(p, SumTo(v, n), s)
    <3>1. PICK i \in Int : SumTo(v, n) = 1 * SumTo(u, n) + A * SumTo(t, n) + p * i
      BY <2>8 DEF Cong
    <3>2. PICK j \in Int : SumTo(u, n) = s + p * j
      BY <2>2 DEF Cong
    <3>3. PICK l \in Int : SumTo(t, n) = 0 + p * l
      BY <2>7 DEF Cong
    <3>4. SumTo(v, n) = s + p * (i + j + A * l)
      BY <2>5, <3>1, <3>2, <3>3
    <3>5. i + j + A * l \in Int
      BY <2>5
    <3>6. QED
      BY <3>4, <3>5 DEF Cong
  <2>10. QED
    BY <1>5, <2>9 DEF v
<1>9. QED
  BY <1>7, <1>8

(* num[i][j] and den[i][j]: the products, over the first j points other    *)
(* than x[i], of their negatives and of their differences from x[i].       *)
AreProducts(p, x, num, den, n) ==
  /\ \A i \in 1..n : x[i] \in Int
  /\ \A i, j \in 1..n : i # j => x[i] # x[j]
  /\ \A i \in 1..n, j \in 0..n : num[i][j] \in Int /\ den[i][j] \in Int
  /\ \A i \in 1..n : num[i][0] = 1 /\ den[i][0] = 1
  /\ \A i, j \in 1..n :
       IF x[j] = x[i]
         THEN num[i][j] = num[i][j - 1] /\ den[i][j] = den[i][j - 1]
         ELSE /\ Cong(p, num[i][j], num[i][j - 1] * (0 - x[j]))
              /\ Cong(p, den[i][j], den[i][j - 1] * (x[i] - x[j]))

(* A difference divides the product of the differences. *)
LEMMA DifferenceDivides ==
  ASSUME NEW p \in Nat, NEW n \in Nat, NEW x, NEW num, NEW den,
         AreProducts(p, x, num, den, n), NEW i \in 1..n, NEW j \in 1..n, i # j
  PROVE  \A k \in j..n : \E r \in Int : Cong(p, den[i][k], (x[i] - x[j]) * r)
<1> DEFINE Good(k) == \E r \in Int : Cong(p, den[i][k], (x[i] - x[j]) * r)
           Bad == {k \in j..n : ~ Good(k)}
<1>1. SUFFICES ASSUME Bad # {} PROVE FALSE
  BY <1>1
<1>2. PICK k \in Bad : \A h \in Bad : k <= h
  <2>1. Bad \in SUBSET Nat
    OBVIOUS
  <2> HIDE DEF Bad
  <2>2. QED
    BY <1>1, <2>1, LeastNatural
<1>3. k \in j..n /\ ~ Good(k)
  BY <1>2
<1>4. k \in 1..n /\ k - 1 \in 0..n
  BY <1>3
<1> DEFINE d == x[i] - x[j]
           D == den[i][k - 1]
<1>5. x[i] \in Int /\ x[j] \in Int /\ x[k] \in Int /\ d \in Int /\ D \in Int
      /\ den[i][k] \in Int
  BY <1>4 DEF AreProducts
<1>6. CASE k = j
  <2>1. x[j] # x[i]
    BY DEF AreProducts
  <2>2. Cong(p, den[i][k], D * d)
    BY <1>4, <1>6, <2>1 DEF AreProducts
  <2> HIDE DEF D, d
  <2>3. D * d = d * D
    BY <1>5
  <2>4. Cong(p, den[i][k], d * D)
    BY <2>2, <2>3
  <2>5. QED
    BY <1>3, <1>5, <2>4 DEF d
<1>7. CASE k # j
  <2>1. k - 1 \in j..n /\ ~ (k <= k - 1)
    BY <1>3, <1>7
  <2>2. k - 1 \notin Bad
    BY <1>2, <2>1
  <2>3. PICK r \in Int : Cong(p, D, d * r)
    BY <2>1, <2>2
  <2>4. CASE x[k] = x[i]
    <3>1. den[i][k] = D
      BY <1>4, <2>4 DEF AreProducts
    <3>2. QED
      BY <1>3, <2>3, <3>1
  <2>5. CASE x[k] # x[i]
    <3> DEFINE e == x[i] - x[k]
    <3>1. Cong(p, den[i][k], D * e)
      BY <1>4, <2>5 DEF AreProducts
    <3>2. e \in Int
      BY <1>5
    <3> HIDE DEF D, d, e
    <3>3. d * r \in Int /\ D * e \in Int /\ e * D \in Int /\ e * (d * r) \in Int
          /\ r * e \in Int
          /\ D * e = e * D /\ e * (d * r) = d * (r * e)
      BY <1>5, <3>2
    <3>4. Cong(p, e * D, e * (d * r))
      BY <1>5, <2>3, <3>2, <3>3, CongScale
    <3>5. Cong(p, den[i][k], d * (r * e))
      <4>1. Cong(p, den[i][k], e * D)
        BY <3>1, <3>3
      <4>2. Cong(p, den[i][k], e * (d * r))
        BY <1>5, <3>3, <3>4, <4>1, CongTrans
      <4>3. QED
        BY <3>3, <4>2
    <3>6. QED
      BY <1>3, <3>3, <3>5 DEF d
  <2>6. QED
    BY <2>4, <2>5
<1>8. QED
  BY <1>6, <1>7

(* Where the products of the differences have inverses, the quotients are  *)
(* weights.                                                                *)
LEMMA ProductsAreWeights ==
  ASSUME NEW p \in Nat, NEW n \in Nat, NEW x, NEW num, NEW den,
         AreProducts(p, x, num, den, n), NEW v, Terms(v, n),
         \A i \in 1..n : Cong(p, den[i][n] * v[i], 1)
  PROVE  \E q, C : /\ IsWeights(p, x, q, C, n)
                   /\ \A i \in 1..n : Cong(p, num[i][n] * v[i], C[i][n])
<1>1. ASSUME NEW i \in 1..n, NEW j \in 1..n, i # j
      PROVE  \E u \in Int : Cong(p, (x[i] - x[j]) * u, 1)
  <2>1. n \in j..n /\ n \in 0..n
    OBVIOUS
  <2>2. PICK r \in Int : Cong(p, den[i][n], (x[i] - x[j]) * r)
    BY <1>1, <2>1, DifferenceDivides
  <2> DEFINE d == x[i] - x[j]
             D == den[i][n]
             V == v[i]
  <2>3. x[i] \in Int /\ x[j] \in Int /\ d \in Int /\ D \in Int /\ V \in Int
    BY <2>1 DEF AreProducts, Terms
  <2>4. Cong(p, D, d * r) /\ Cong(p, D * V, 1)
    BY <2>2
  <2> HIDE DEF d, D, V
  <2>5. /\ d * r \in Int /\ V * D \in Int /\ V * (d * r) \in Int /\ r * V \in Int
        /\ V * D = D * V /\ V * (d * r) = d * (r * V)
    BY <2>3
  <2>6. Cong(p, V * (d * r), V * D)
    <3>1. Cong(p, V * D, V * (d * r))
      BY <2>3, <2>4, <2>5, CongScale
    <3>2. QED
      BY <2>5, <3>1, CongSym
  <2>7. Cong(p, V * (d * r), 1)
    <3>1. Cong(p, V * D, 1) /\ 1 \in Int
      BY <2>4, <2>5
    <3>2. QED
      BY <2>5, <2>6, <3>1, CongTrans
  <2>8. QED
    BY <2>5, <2>7 DEF d
<1> DEFINE unit(i, j) == CHOOSE u \in Int : Cong(p, (x[i] - x[j]) * u, 1)
           q == [i \in 1..n |-> [j \in 1..n |->
                   IF i = j THEN 0 ELSE (-x[j]) * unit(i, j)]]
<1>2. ASSUME NEW i \in 1..n, NEW j \in 1..n, i # j
      PROVE  unit(i, j) \in Int /\ Cong(p, (x[i] - x[j]) * unit(i, j), 1)
  BY <1>1, <1>2
<1> HIDE DEF unit
<1>3. ASSUME NEW i \in 1..n, NEW j \in 1..n
      PROVE  /\ q[i][j] \in Int
             /\ i # j => Cong(p, (x[i] - x[j]) * q[i][j], -x[j])
  <2>1. CASE i = j
    BY <2>1
  <2>2. CASE i # j
    <3> DEFINE d == x[i] - x[j]
               u == unit(i, j)
               b == -x[j]
    <3>1. q[i][j] = b * u
      BY <2>2
    <3>2. d \in Int /\ u \in Int /\ b \in Int /\ Cong(p, d * u, 1)
      BY <1>2, <2>2 DEF AreProducts
    <3> HIDE DEF d, u, b, q
    <3>3. d * u \in Int /\ b * u \in Int /\ b * (d * u) = d * (b * u) /\ b * 1 = b /\ 1 \in Int
      BY <3>2
    <3>4. Cong(p, b * (d * u), b * 1)
      BY <3>2, <3>3, CongScale
    <3>5. Cong(p, d * (b * u), b)
      BY <3>3, <3>4
    <3>6. QED
      BY <3>1, <3>3, <3>5 DEF d, b
  <2>3. QED
    BY <2>1, <2>2
<1> HIDE DEF q
<1> DEFINE step(i) == [j \in 1..n |-> [y \in Int |-> IF i = j THEN y ELSE y * q[i][j]]]
           C == [i \in 1..n |-> CHOOSE g : IsSteps(g, n, Int, 1, step(i))]
<1>4. ASSUME NEW i \in 1..n PROVE IsSteps(C[i], n, Int, 1, step(i))
  <2> DEFINE S == step(i)
  <2>1. \A j \in 1..n : S[j] \in [Int -> Int]
    BY <1>3
  <2>2. C[i] = CHOOSE g : IsSteps(g, n, Int, 1, S)
    OBVIOUS
  <2> HIDE DEF S
  <2>3. 1 \in Int
    OBVIOUS
  <2>4. \E g : IsSteps(g, n, Int, 1, S)
    BY <2>1, <2>3, StepsExist
  <2> HIDE DEF C
  <2>5. QED
    BY <2>2, <2>4 DEF S
<1>5. ASSUME NEW i \in 1..n
      PROVE  /\ C[i][0] = 1 /\ \A j \in 0..n : C[i][j] \in Int
             /\ \A j \in 1..n : C[i][j] = IF i = j THEN C[i][j - 1]
                                          ELSE C[i][j - 1] * q[i][j]
  <2> DEFINE g == C[i]
  <2>1. IsSteps(g, n, Int, 1, step(i))
    BY <1>4
  <2> HIDE DEF g, C
  <2>2. g[0] = 1 /\ \A j \in 0..n : g[j] \in Int
    BY <2>1 DEF IsSteps
  <2>3. ASSUME NEW j \in 1..n
        PROVE  g[j] = IF i = j THEN g[j - 1] ELSE g[j - 1] * q[i][j]
    <3>1. j - 1 \in 0..n
      OBVIOUS
    <3>2. g[j] = step(i)[j][g[j - 1]]
      BY <2>1 DEF IsSteps
    <3>3. g[j - 1] \in Int
      BY <2>2, <3>1
    <3>4. QED
      BY <3>2, <3>3
  <2>4. QED
    BY <2>2, <2>3 DEF g
<1> HIDE DEF C, step
<1>6. IsWeights(p, x, q, C, n)
  BY <1>1, <1>3, <1>5 DEF IsWeights, AreProducts
<1>7. ASSUME NEW i \in 1..n
      PROVE  \A k \in 0..n : Cong(p, den[i][k] * C[i][k], num[i][k])
  <2> DEFINE Good(k) == Cong(p, den[i][k] * C[i][k], num[i][k])
             Bad == {k \in 0..n : ~ Good(k)}
  <2>1. SUFFICES ASSUME Bad # {} PROVE FALSE
    BY <2>1
  <2>2. PICK k \in Bad : \A h \in Bad : k <= h
    <3>1. Bad \in SUBSET Nat
      OBVIOUS
    <3> HIDE DEF Bad
    <3>2. QED
      BY <2>1, <3>1, LeastNatural
  <2>3. k \in 0..n /\ ~ Good(k)
    BY <2>2
  <2>4. k # 0
    <3>1. den[i][0] = 1 /\ num[i][0] = 1 /\ C[i][0] = 1 /\ 1 * 1 = 1
      BY <1>5 DEF AreProducts
    <3>2. Cong(p, 1, 1)
      BY CongRefl
    <3>3. QED
      BY <2>3, <3>1, <3>2
  <2>5. k \in 1..n /\ k - 1 \in 0..n /\ ~ (k <= k - 1)
    BY <2>3, <2>4
  <2>6. Good(k - 1)
    BY <2>2, <2>5
  <2> DEFINE D == den[i][k - 1]
             N == num[i][k - 1]
             c == C[i][k - 1]
             D1 == den[i][k]
             N1 == num[i][k]
  <2>7. D \in Int /\ N \in Int /\ c \in Int /\ D1 \in Int /\ N1 \in Int
        /\ Cong(p, D * c, N)
    BY <1>5, <2>5, <2>6 DEF AreProducts
  <2>8. CASE k = i
    <3>1. D1 = D /\ N1 = N
      BY <2>5, <2>8 DEF AreProducts
    <3>2. C[i][k] = c
      BY <1>5, <2>5, <2>8
    <3>3. QED
      BY <2>3, <2>7, <3>1, <3>2
  <2>9. CASE k # i
    <3> DEFINE d == x[i] - x[k]
               b == 0 - x[k]
               w == q[i][k]
    <3>1. x[k] # x[i]
      BY <2>5, <2>9 DEF AreProducts
    <3>2. Cong(p, N1, N * b) /\ Cong(p, D1, D * d)
      BY <2>5, <3>1 DEF AreProducts
    <3>3. C[i][k] = c * w
      BY <1>5, <2>5, <2>9
    <3>4. d \in Int /\ b \in Int /\ w \in Int /\ Cong(p, d * w, b)
      <4>1. x[i] \in Int /\ x[k] \in Int /\ -x[k] = 0 - x[k]
        BY <2>5 DEF AreProducts
      <4>2. QED
        BY <1>3, <2>5, <2>9, <4>1
    <3> HIDE DEF D, N, c, D1, N1, d, b, w
    <3>5. PICK h \in Int : D * c = N + p * h
      BY <2>7 DEF Cong
    <3>6. PICK j \in Int : N1 = N * b + p * j
      BY <3>2 DEF Cong
    <3>7. PICK l \in Int : D1 = D * d + p * l
      BY <3>2 DEF Cong
    <3>8. PICK r \in Int : d * w = b + p * r
      BY <3>4 DEF Cong
    <3>9. D1 * (c * w) = (D * c) * (d * w) + p * (l * (c * w))
      BY <2>7, <3>4, <3>7
    <3>10. (N + p * h) * (b + p * r) = N * b + p * (N * r + h * b + p * h * r)
      BY <2>7, <3>4
    <3>11. D1 * (c * w) = N1 + p * (N * r + h * b + p * h * r - j + l * (c * w))
      BY <2>7, <3>4, <3>5, <3>6, <3>8, <3>9, <3>10
    <3>12. N * r + h * b + p * h * r - j + l * (c * w) \in Int
      BY <2>7, <3>4
    <3>13. Cong(p, D1 * (c * w), N1)
      BY <3>11, <3>12 DEF Cong
    <3>14. QED
      BY <2>3, <3>3, <3>13 DEF D1, N1, w, c
  <2>10. QED
    BY <2>8, <2>9
<1>8. ASSUME NEW i \in 1..n PROVE Cong(p, num[i][n] * v[i], C[i][n])
  <2> DEFINE D == den[i][n]
             N == num[i][n]
             c == C[i][n]
             V == v[i]
  <2>1. /\ D \in Int /\ N \in Int /\ c \in Int /\ V \in Int
        /\ Cong(p, D * c, N) /\ Cong(p, D * V, 1)
    <3>1. n \in 0..n
      OBVIOUS
    <3>2. QED
      BY <1>5, <1>7, <3>1 DEF AreProducts, Terms
  <2> HIDE DEF D, N, c, V
  <2>2. PICK h \in Int : D * c = N + p * h
    BY <2>1 DEF Cong
  <2>3. PICK j \in Int : D * V = 1 + p * j
    BY <2>1 DEF Cong
  <2>4. N * V = (D * c) * V - p * (h * V)
    BY <2>1, <2>2
  <2>5. (D * c) * V = (D * V) * c
    BY <2>1
  <2>6. (D * V) * c = c + p * (j * c)
    BY <2>1, <2>3
  <2>7. N * V = c + p * (j * c - h * V)
    BY <2>1, <2>4, <2>5, <2>6
  <2>8. j * c - h * V \in Int
    BY <2>1
  <2>9. Cong(p, N * V, c)
    BY <2>7, <2>8 DEF Cong
  <2>10. QED
    BY <2>9 DEF N, V, c
<1>9. QED
  BY <1>6, <1>8
=============================================================================
